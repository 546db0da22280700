-------------------------------- MODULE Accel --------------------------------
(***************************************************************************)
(* One accelerator (syn/hw/accel.sv): its control unit                     *)
(* (acc_control_unit.sv), the message buffer, the compressor's hash        *)
(* registers and the message scheduler's input.                            *)
(*                                                                         *)
(* The SHA-256 datapath is symbolic: the hash registers hold the sequence  *)
(* of messages compressed since they were last set to the initial values,  *)
(* so two values are equal exactly when the same messages went in, in the  *)
(* same order.  The registers are one record, so that a composition can    *)
(* keep an array of accelerators; a step of the clock is given as the      *)
(* record after the edge.                                                  *)
(***************************************************************************)
EXTENDS Integers, Sequences

CONSTANTS HashCycleCount,  \* HASH_CYCLE_COUNT: cycles to compress a message
          HashWriteCycle,  \* HASH_WRITE_CYCLE: words of a hash
          TrackData        \* FALSE: all lines, messages and hashes are equal

ASSUME AccelAssumption == /\ HashCycleCount \in Nat \ {0}
                          /\ HashWriteCycle \in Nat \ {0}
                          /\ TrackData \in BOOLEAN

VARIABLES regs,                     \* the registers of the accelerator
          mem_listen_start,         \* input: the CPU stores an odd word at ACB
          mem_acc_read_data,        \* input: the line read from Data Memory
          mem_acc_read_data_valid,  \* input: that line is ours
          mem_acc_write_done        \* input: our write has been done

States == {"IDLE", "READ_MESSAGE_1", "WRITE_BUSY_BIT", "INIT", "UPD1", "HASH",
           "UPD2", "MAYBE_DONE", "READ_MESSAGE_2", "WRITE_H",
           "WRITE_DONE_BIT"}

Words == 0 .. HashWriteCycle - 1

\* A word of the ACB's status register: bit 0 ready, bit 1 done, bit 2 busy.
Status(s)  == <<"status", s>>
Ready      == Status(1)
Busy       == Status(5)
Done       == Status(2)

\* The control never looks at lines, messages and hashes: when the data is
\* not tracked they are all one value.
Value(v) == IF TrackData THEN v ELSE <<"data">>
Zero     == Value(<<"zero">>)

\* The hash registers after compressing the messages of m in order, and the
\* k-th word of that hash.
Digest(m)  == Value(<<"digest", m>>)
Word(d, k) == Value(<<"word", k, d>>)

\* The hash registers d after one more message.
Compressed(d, m) == IF TrackData THEN Digest(Append(d[2], m)) ELSE d

\* The second block of the header: the upper sixteen bytes of the line,
\* padded to a whole message.
Padded(line) == Value(<<"padded", line>>)

\* Twice SHA-256 of a header, the second time of the first hash.
DoubleHash(first, second) == Digest(<<Digest(<<first, Padded(second)>>)>>)

ResetRegs == [curr_state         |-> "IDLE",
              hash_word          |-> 0,   \* k of WRITE_Hk
              hash_cycle_counter |-> 0,
              stage_counter      |-> 0,
              message_buf        |-> Zero,
              intermediate_hash  |-> Zero,
              hash               |-> Zero,
              message_w          |-> Zero]  \* in the message scheduler

-----------------------------------------------------------------------------
(* Outputs of the control unit. *)

mem_acc_read_en  == regs.curr_state \in {"READ_MESSAGE_1", "READ_MESSAGE_2"}
mem_acc_write_en == regs.curr_state \in {"WRITE_BUSY_BIT", "WRITE_H",
                                         "WRITE_DONE_BIT"}

\* HCB_START_ADDR + 16 and HCB_START_ADDR - 48.
mem_acc_read_addr ==
    IF regs.curr_state = "READ_MESSAGE_1" THEN <<"HCB", 1>> ELSE <<"HCB", 2>>

mem_acc_write_addr ==
    IF regs.curr_state = "WRITE_H" THEN <<"HASH", regs.hash_word>>
                                   ELSE <<"ACB", 0>>

\* Mutant of mem_acc_write_data: the done bit is written for the busy bit.
BusyWrittenAsDone ==
    IF regs.curr_state = "WRITE_H" THEN Word(regs.hash, regs.hash_word) ELSE Done

mem_acc_write_data ==
    CASE regs.curr_state = "WRITE_BUSY_BIT" -> Busy
      [] regs.curr_state = "WRITE_H"        -> Word(regs.hash, regs.hash_word)
      [] OTHER                              -> Done

\* Mutant of message: the padding is selected one stage late.
MessagePaddedLate ==
    CASE regs.stage_counter < 2  -> regs.message_buf
      [] OTHER                   -> Padded(regs.intermediate_hash)

\* The message multiplexer, selected by the stage.
message ==
    CASE regs.stage_counter = 0 -> regs.message_buf
      [] regs.stage_counter = 1 -> Padded(regs.message_buf)
      [] OTHER                  -> regs.intermediate_hash

-----------------------------------------------------------------------------
(* The control unit's states: the registers after the next edge. *)

Goto(state) == [regs EXCEPT !.curr_state = state]

Idle == IF mem_listen_start THEN Goto("READ_MESSAGE_1") ELSE regs

\* Mutant of ReadMessage: takes the bus's data without waiting for valid.
ReadMessageNoWait(next) ==
    [Goto(next) EXCEPT !.message_buf = Value(mem_acc_read_data)]

ReadMessage(next) ==
    IF mem_acc_read_data_valid
    THEN [Goto(next) EXCEPT !.message_buf = Value(mem_acc_read_data)]
    ELSE regs

\* Mutant of WriteBit: does not wait for the write to be done.
WriteBitNoWait(next) == Goto(next)

WriteBit(next) == IF mem_acc_write_done THEN Goto(next) ELSE regs

InitHash == [Goto("UPD1") EXCEPT !.hash = Digest(<<>>)]

\* [A:H] <- [H0:H7]; the scheduler loads the selected message.
Upd1 == [Goto("HASH") EXCEPT !.message_w = message]

Hash == IF regs.hash_cycle_counter = HashCycleCount
        THEN [Goto("UPD2") EXCEPT !.hash_cycle_counter = 0]
        ELSE [regs EXCEPT !.hash_cycle_counter = @ + 1]

\* [H0:H7] <- [H0:H7] + [A:H]
Upd2 == [Goto("MAYBE_DONE") EXCEPT
            !.hash = Compressed(regs.hash, regs.message_w)]

\* Mutants of MaybeDone: the stage counter is not incremented after the first
\* block; it is not reset at the end.
MaybeDoneNoIncrement ==
    LET saved == [regs EXCEPT !.intermediate_hash = regs.hash] IN
    CASE regs.stage_counter = 0 ->
           [saved EXCEPT !.curr_state = "READ_MESSAGE_2"]
      [] regs.stage_counter = 1 ->
           [saved EXCEPT !.stage_counter = 2, !.curr_state = "INIT"]
      [] OTHER ->
           [saved EXCEPT !.stage_counter = 0, !.curr_state = "WRITE_H"]

MaybeDoneKeepsStage ==
    LET saved == [regs EXCEPT !.intermediate_hash = regs.hash] IN
    CASE regs.stage_counter = 0 ->
           [saved EXCEPT !.stage_counter = 1, !.curr_state = "READ_MESSAGE_2"]
      [] regs.stage_counter = 1 ->
           [saved EXCEPT !.stage_counter = 2, !.curr_state = "INIT"]
      [] OTHER ->
           [saved EXCEPT !.curr_state = "WRITE_H"]

MaybeDone ==
    LET saved == [regs EXCEPT !.intermediate_hash = regs.hash] IN
    CASE regs.stage_counter = 0 ->
           [saved EXCEPT !.stage_counter = 1, !.curr_state = "READ_MESSAGE_2"]
      [] regs.stage_counter = 1 ->
           [saved EXCEPT !.stage_counter = 2, !.curr_state = "INIT"]
      [] OTHER ->
           [saved EXCEPT !.stage_counter = 0, !.curr_state = "WRITE_H"]

\* Mutant of WriteH: one word too many.
WriteHOneTooMany ==
    IF ~mem_acc_write_done THEN regs
    ELSE IF regs.hash_word < HashWriteCycle THEN [regs EXCEPT !.hash_word = @ + 1]
    ELSE [Goto("WRITE_DONE_BIT") EXCEPT !.hash_word = 0]

\* Mutant of WriteH: the last word is skipped.
WriteHSkipsLast ==
    IF ~mem_acc_write_done THEN regs
    ELSE IF regs.hash_word < HashWriteCycle - 2 THEN [regs EXCEPT !.hash_word = @ + 1]
    ELSE [Goto("WRITE_DONE_BIT") EXCEPT !.hash_word = 0]

\* WRITE_H0 ... WRITE_H7.
WriteH ==
    IF ~mem_acc_write_done THEN regs
    ELSE IF regs.hash_word < HashWriteCycle - 1 THEN [regs EXCEPT !.hash_word = @ + 1]
    ELSE [Goto("WRITE_DONE_BIT") EXCEPT !.hash_word = 0]

NextRegs ==
    CASE regs.curr_state = "IDLE"           -> Idle
      [] regs.curr_state = "READ_MESSAGE_1" -> ReadMessage("WRITE_BUSY_BIT")
      [] regs.curr_state = "WRITE_BUSY_BIT" -> WriteBit("INIT")
      [] regs.curr_state = "INIT"           -> InitHash
      [] regs.curr_state = "UPD1"           -> Upd1
      [] regs.curr_state = "HASH"           -> Hash
      [] regs.curr_state = "UPD2"           -> Upd2
      [] regs.curr_state = "MAYBE_DONE"     -> MaybeDone
      [] regs.curr_state = "READ_MESSAGE_2" -> ReadMessage("UPD1")
      [] regs.curr_state = "WRITE_H"        -> WriteH
      [] regs.curr_state = "WRITE_DONE_BIT" -> WriteBit("IDLE")

-----------------------------------------------------------------------------
(* What the registers that no state shows may be in each state. *)

RegsOK ==
    /\ DOMAIN regs = DOMAIN ResetRegs
    /\ regs.curr_state \in States
    /\ regs.hash_word \in Words
    /\ regs.hash_cycle_counter \in 0 .. HashCycleCount
    /\ regs.stage_counter \in 0 .. 2

\* A new header always starts from stage 0 with a cleared cycle counter,
\* whatever the previous one left behind; the second half is read in stage 1
\* and the hash is written after the last stage.
StageMatchesState ==
    /\ regs.curr_state \in {"IDLE", "READ_MESSAGE_1", "WRITE_BUSY_BIT",
                            "WRITE_H", "WRITE_DONE_BIT"} => regs.stage_counter = 0
    /\ regs.curr_state = "READ_MESSAGE_2" => regs.stage_counter = 1
    /\ regs.curr_state = "INIT" => regs.stage_counter \in {0, 2}
    /\ regs.curr_state # "HASH" => regs.hash_cycle_counter = 0
    /\ regs.curr_state # "WRITE_H" => regs.hash_word = 0
=============================================================================
