------------------------------ MODULE AccelHash ------------------------------
(***************************************************************************)
(* One accelerator on its own: the CPU, the arbiter and the memory may     *)
(* answer in any way at any time, and reset may come at any time.  Three   *)
(* history variables record the two lines that were latched for the        *)
(* current header and the words whose write has been acknowledged.         *)
(***************************************************************************)
EXTENDS Accel

CONSTANT MemoryLines   \* what the memory may hand over as a line

VARIABLES first, second,  \* the lines latched in READ_MESSAGE_1 and _2
          written         \* <<k, word>>: acknowledged words of the hash

avars == <<regs, mem_listen_start, mem_acc_read_data, mem_acc_read_data_valid,
           mem_acc_write_done, first, second, written>>

PortsOK == /\ mem_listen_start \in BOOLEAN
           /\ mem_acc_read_data \in MemoryLines
           /\ mem_acc_read_data_valid \in BOOLEAN
           /\ mem_acc_write_done \in BOOLEAN

AnyPorts == /\ mem_listen_start' \in BOOLEAN
            /\ mem_acc_read_data' \in MemoryLines
            /\ mem_acc_read_data_valid' \in BOOLEAN
            /\ mem_acc_write_done' \in BOOLEAN

AInit == /\ regs = ResetRegs
         /\ PortsOK
         /\ first = Zero /\ second = Zero /\ written = {}

Latches(state) == regs.curr_state = state /\ mem_acc_read_data_valid

AClock ==
    /\ regs' = NextRegs
    /\ AnyPorts
    /\ first'  = IF Latches("READ_MESSAGE_1") THEN Value(mem_acc_read_data) ELSE first
    /\ second' = IF Latches("READ_MESSAGE_2") THEN Value(mem_acc_read_data) ELSE second
    /\ written' = CASE regs.curr_state = "IDLE" -> {}
                    [] regs.curr_state = "WRITE_H" /\ mem_acc_write_done ->
                         written \cup {<<regs.hash_word, mem_acc_write_data>>}
                    [] OTHER -> written

AReset == /\ regs' = ResetRegs
          /\ AnyPorts
          /\ UNCHANGED <<first, second, written>>

ANext == AClock \/ AReset

ASpec == AInit /\ [][ANext]_avars

-----------------------------------------------------------------------------
\* The hash the latched lines ought to give.
Expected == DoubleHash(first, second)

\* Every word the accelerator asks to be written is the word of that index of
\* the double hash of the two lines it latched for this header: nothing of an
\* earlier header, or of a job cut off by a reset, gets into it.
HashIsDoubleHash ==
    regs.curr_state = "WRITE_H" => mem_acc_write_data = Word(Expected, regs.hash_word)

\* The done bit is asked for only when every word has been acknowledged.
DoneAfterEveryWord ==
    mem_acc_write_en /\ mem_acc_write_data = Done =>
        \A k \in Words : <<k, Word(Expected, k)>> \in written

-----------------------------------------------------------------------------
(* Why it is so: how far the hash has got in each state and stage. *)

FirstHash == Digest(<<first, Padded(second)>>)

\* The hash registers when the message of this stage is about to go in, and
\* that message as the multiplexer gives it.
StageHash == CASE regs.stage_counter = 1 -> Digest(<<first>>)
               [] OTHER                  -> Digest(<<>>)

StageMessage == CASE regs.stage_counter = 0 -> first
                  [] regs.stage_counter = 1 -> Padded(second)
                  [] regs.stage_counter = 2 -> FirstHash

\* The hash registers when it has gone in.
StageResult == CASE regs.stage_counter = 0 -> Digest(<<first>>)
                 [] regs.stage_counter = 1 -> FirstHash
                 [] regs.stage_counter = 2 -> Expected

Progress ==
    /\ regs.curr_state \in {"WRITE_BUSY_BIT", "INIT", "UPD1"} => message = StageMessage
    /\ regs.curr_state \in {"UPD1", "HASH", "UPD2"} => regs.hash = StageHash
    /\ regs.curr_state \in {"HASH", "UPD2"} => regs.message_w = StageMessage
    /\ regs.curr_state = "MAYBE_DONE" => regs.hash = StageResult
    /\ regs.curr_state = "READ_MESSAGE_2" => regs.hash = Digest(<<first>>)
    /\ regs.curr_state \in {"WRITE_H", "WRITE_DONE_BIT"} => regs.hash = Expected

Acknowledged ==
    /\ regs.curr_state = "WRITE_H" =>
          \A k \in 0 .. regs.hash_word - 1 : <<k, Word(Expected, k)>> \in written
    /\ regs.curr_state = "WRITE_DONE_BIT" =>
          \A k \in Words : <<k, Word(Expected, k)>> \in written

AInv == /\ RegsOK
        /\ StageMatchesState
        /\ Progress
        /\ Acknowledged
=============================================================================
