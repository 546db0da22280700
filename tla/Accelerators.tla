----------------------------- MODULE Accelerators -----------------------------
(***************************************************************************)
(* The block of accelerators (syn/hw/accelerators.sv) behind their arbiter *)
(* (arbiter.sv), the data memory they share with the CPU, and the CPU's    *)
(* program as the memory port sees it.                                     *)
(*                                                                         *)
(* One step is one rising edge of the common clock: every register of      *)
(* every component changes together.  The wires between the components are *)
(* state functions.                                                        *)
(***************************************************************************)
EXTENDS Integers, FiniteSets, Sequences

CONSTANTS NumAccelerators, \* NUM_ACCELERATORS
          HashCycleCount,  \* cycles to compress a message (64 in the code)
          HashWriteCycle,  \* words of a hash (8 in the code)
          TrackData,       \* FALSE: all lines and hashes are one value
          NonceOffset,     \* where in an HCB the program stores a nonce
          Headers,         \* the values the program stores there
          NoOp             \* an idle memory port

ASSUME AcceleratorsAssumption == /\ NumAccelerators \in Nat \ {0}
                                 /\ HashCycleCount \in Nat \ {0}
                                 /\ HashWriteCycle \in Nat \ {0}
                                 /\ TrackData \in BOOLEAN
                                 /\ NonceOffset \in 0 .. 135
                                 /\ Headers # {}

VARIABLES acc,                 \* acc[i]: the registers of accelerator i
          rd_last, rd_force,   \* registers of arbitration unit au_0 (reads)
          wr_last, wr_force,   \* registers of arbitration unit au_1 (writes)
          data_mem, rd_data,   \* data memory and its output register
          accel_wrt_done, accel_rd_valid,  \* the data memory's answers
          cpu,                 \* the CPU's memory operation of this cycle
          cpu_status           \* cpu_status[i]: what the program knows of i

vars == <<acc, rd_last, rd_force, wr_last, wr_force, data_mem, rd_data,
          accel_wrt_done, accel_rd_valid, cpu, cpu_status>>

Accelerator == 0 .. NumAccelerators - 1

\* Addresses: the parts of HCB_i, the status word of ACB_i and the words of
\* the hash in ACB_i.  The accelerator's first line is part 1 and the bytes it
\* uses of the second are part 2.
At(i, a) == <<i, a[1], a[2]>>
HCB(i, part) == <<i, "HCB", part>>
ACB(i) == <<i, "ACB", 0>>
HASH(i, k) == <<i, "HASH", k>>

Addresses ==
    {HCB(i, part) : i \in Accelerator, part \in 1 .. 3} \cup
    {ACB(i) : i \in Accelerator} \cup
    {HASH(i, k) : i \in Accelerator, k \in 0 .. HashWriteCycle - 1}

\* HCB_START_ADDR + 16 and the 63 bytes after it; the upper 16 of the 64 bytes
\* from HCB_START_ADDR - 48; the rest of the block.
Part(offset) == CASE offset \in 16 .. 79 -> 1
                  [] offset \in 0 .. 15  -> 2
                  [] offset > 79         -> 3

-----------------------------------------------------------------------------
(* Outputs of the accelerators: functions of their registers only. *)

Out(i) == INSTANCE Accel WITH
              regs <- acc[i], mem_listen_start <- FALSE,
              mem_acc_read_data <- rd_data,
              mem_acc_read_data_valid <- FALSE, mem_acc_write_done <- FALSE

\* What that part of accelerator i's HCB holds for header h.
Line(i, part, h) == Out(i)!Value(<<"line", i, part, h>>)

\* What accelerators write for the headers of a program.
Results ==
    {Out(0)!Busy, Out(0)!Done} \cup
    {Out(0)!Word(Out(0)!DoubleHash(Line(i, 1, g), Line(i, 2, h)), k) :
        i \in Accelerator, g \in Headers, h \in Headers, k \in 0 .. HashWriteCycle - 1}

\* An idle port is not taken for a write.
ASSUME NoOpAssumption == NoOp \notin [write : {TRUE}, addr : Addresses, data : Results]

arbiter_read_en  == {i \in Accelerator : Out(i)!mem_acc_read_en}
arbiter_write_en == {i \in Accelerator : Out(i)!mem_acc_write_en}

-----------------------------------------------------------------------------
(* The arbiter: one arbitration unit for reads and one for writes, each    *)
(* holding its grant until the memory answers.                             *)

ReadUnit == INSTANCE ArbitrationUnit WITH
                NumClients <- NumAccelerators, CanHold <- TRUE,
                last_selected <- rd_last, force_hold_in_right <- rd_force,
                requests <- arbiter_read_en, hold <- ~accel_rd_valid

WriteUnit == INSTANCE ArbitrationUnit WITH
                NumClients <- NumAccelerators, CanHold <- TRUE,
                last_selected <- wr_last, force_hold_in_right <- wr_force,
                requests <- arbiter_write_en, hold <- ~accel_wrt_done

\* The memory's answer goes to whoever holds the grant in this cycle.
client_read_valid == IF accel_rd_valid THEN ReadUnit!grants ELSE {}
client_write_done == IF accel_wrt_done THEN WriteUnit!grants ELSE {}

\* The granted Client's lines go to the memory.
mem_read ==
    IF ReadUnit!grants = {} THEN NoOp
    ELSE LET i == CHOOSE i \in ReadUnit!grants : TRUE IN
         [write |-> FALSE, addr |-> At(i, Out(i)!mem_acc_read_addr)]

\* Mutant of mem_write: address of the grantee, data of the first requester.
DataOfFirstRequester ==
    IF WriteUnit!grants = {} THEN NoOp
    ELSE LET i == CHOOSE i \in WriteUnit!grants : TRUE
             f == CHOOSE f \in arbiter_write_en : \A j \in arbiter_write_en : f <= j
         IN [write |-> TRUE, addr |-> At(i, Out(i)!mem_acc_write_addr),
             data |-> Out(f)!mem_acc_write_data]

mem_write ==
    IF WriteUnit!grants = {} THEN NoOp
    ELSE LET i == CHOOSE i \in WriteUnit!grants : TRUE IN
         [write |-> TRUE, addr |-> At(i, Out(i)!mem_acc_write_addr),
          data |-> Out(i)!mem_acc_write_data]

Mem == INSTANCE DataMem WITH accel_wrt <- mem_write, accel_rd <- mem_read

\* Each accelerator listens to the CPU's stores and hears the arbiter.
Starts(i) == cpu # NoOp /\ cpu.write /\ cpu.addr = ACB(i) /\ cpu.data = Out(i)!Ready

Acc(i) == INSTANCE Accel WITH
              regs <- acc[i], mem_listen_start <- Starts(i),
              mem_acc_read_data <- rd_data,
              mem_acc_read_data_valid <- i \in client_read_valid,
              mem_acc_write_done <- i \in client_write_done

-----------------------------------------------------------------------------
Init ==
    /\ acc = [i \in Accelerator |-> Out(i)!ResetRegs]
    /\ rd_last = 0 /\ rd_force = TRUE
    /\ wr_last = 0 /\ wr_force = TRUE
    /\ \E h \in Headers :
          data_mem = [a \in Addresses |->
                         CASE a[2] = "HCB" -> Line(a[1], a[3], h)
                           [] a[2] = "ACB" -> Out(a[1])!Status(0)
                           [] OTHER -> Out(a[1])!Zero]
    /\ rd_data = Out(0)!Zero
    /\ accel_wrt_done = FALSE /\ accel_rd_valid = FALSE
    /\ cpu = NoOp
    /\ cpu_status = [i \in Accelerator |-> Out(i)!Status(0)]

\* All registers of the block and of the memory.
ClockHardware ==
    /\ acc' = [i \in Accelerator |-> Acc(i)!NextRegs]
    /\ ReadUnit!ClockRegisters
    /\ WriteUnit!ClockRegisters
    /\ Mem!ClockDataMem

-----------------------------------------------------------------------------
(***************************************************************************)
(* The program (src/asmCode.asm), reduced to its memory operations: it     *)
(* polls status words; of an accelerator it has found done or never        *)
(* started it may load the hash, store a new nonce in the HCB, and store   *)
(* the ready bit.  When it does so is left open.  Its stores for the host  *)
(* keep the port busy just as a poll does.                                 *)
(***************************************************************************)
\* What the program learns from the operation of this cycle.
ProgramLearns ==
    cpu_status' =
        CASE cpu = NoOp -> cpu_status
          [] cpu # NoOp /\ cpu.addr[2] = "ACB" ->
               [cpu_status EXCEPT ![cpu.addr[1]] =
                   IF cpu.write THEN cpu.data ELSE data_mem[cpu.addr]]
          [] OTHER -> cpu_status

MayStart(i) == cpu_status[i] \in {Out(i)!Status(0), Out(i)!Done}

Clock == ClockHardware /\ ProgramLearns

Compute == Clock /\ cpu' = NoOp

Poll(i) == Clock /\ cpu' = [write |-> FALSE, addr |-> ACB(i)]

Start(i) == /\ Clock
            /\ MayStart(i)'
            /\ cpu' = [write |-> TRUE, addr |-> ACB(i), data |-> Out(i)!Ready]

Renew(i) == /\ Clock
            /\ MayStart(i)'
            /\ \E h \in Headers :
                  cpu' = [write |-> TRUE, addr |-> HCB(i, Part(NonceOffset)),
                          data |-> Line(i, Part(NonceOffset), h)]

Load(i, k) == /\ Clock
              /\ MayStart(i)'
              /\ cpu' = [write |-> FALSE, addr |-> HASH(i, k)]

Next == \/ Compute
        \/ \E i \in Accelerator : Poll(i) \/ Start(i) \/ Renew(i)
        \/ \E i \in Accelerator, k \in 0 .. HashWriteCycle - 1 : Load(i, k)

Spec == Init /\ [][Next]_vars

\* The clock runs, and the program leaves the port alone again and again.
FairSpec == Spec /\ WF_vars(Compute)

-----------------------------------------------------------------------------
(***************************************************************************)
(* A careful program: it has one job outstanding at a time, as far as it   *)
(* knows, and leaves the port alone while an accelerator writes.           *)
(***************************************************************************)
Careful ==
    /\ cpu # NoOp => arbiter_write_en = {}
    /\ cpu # NoOp /\ cpu.write => \A i \in Accelerator : MayStart(i)

CarefulNext == Next /\ Careful'

CarefulSpec == Init /\ [][CarefulNext]_vars /\ WF_vars(Compute)

-----------------------------------------------------------------------------
(* Correctness of the block, whatever the program does. *)

TypeOK ==
    /\ \A i \in Accelerator : Out(i)!RegsOK
    /\ ReadUnit!TypeOK /\ WriteUnit!TypeOK
    /\ DOMAIN data_mem = Addresses
    /\ accel_wrt_done \in BOOLEAN /\ accel_rd_valid \in BOOLEAN

\* The accelerators and the memory keep to what the arbitration units rely
\* on: a Client requests until it has been served.  What is proved of the
\* units therefore holds of this block.
UnitsRun == ReadUnit!Spec /\ WriteUnit!Spec

\* A word of the memory changes only by a store of the program, or to what
\* the accelerator that owns the word is writing.
WritesAreOwn ==
    [][ \A a \in Addresses : data_mem'[a] # data_mem[a] =>
          \/ cpu # NoOp /\ cpu.write /\ cpu.addr = a
          \/ \E i \in arbiter_write_en :
                /\ a = At(i, Out(i)!mem_acc_write_addr)
                /\ data_mem'[a] = Out(i)!mem_acc_write_data ]_vars

\* The memory raises done and valid only for what it has performed.
AnswersAreTrue ==
    [][ /\ accel_wrt_done' => data_mem'[mem_write.addr] = mem_write.data
        /\ accel_rd_valid' /\ mem_write = NoOp =>
               rd_data' = data_mem[mem_read.addr] ]_vars

\* No accelerator waits for the memory for ever, however the others and the
\* program compete for it.
EveryJobEnds ==
    \A i \in Accelerator :
        acc[i].curr_state # "IDLE" ~> acc[i].curr_state = "IDLE"

\* The store that starts an accelerator finds it waiting for it: the store is
\* a pulse on the listening port, and an accelerator that is elsewhere, if
\* only in WRITE_DONE_BIT, misses it for good.
StartIsHeard ==
    \A i \in Accelerator : Starts(i) => acc[i].curr_state = "IDLE"

-----------------------------------------------------------------------------
(* What the block promises to a careful program. *)

\* What a block may hold as a header: the lines are replaced one at a time.
HeaderLines ==
    {<<Line(i, 1, g), Line(i, 2, h)>> : i \in Accelerator, g \in Headers, h \in Headers}

HeaderHash(lines) == Out(0)!DoubleHash(lines[1], lines[2])

StatusName(s) == CASE s = Out(0)!Status(0) -> "none"
                   [] s = Out(0)!Ready     -> "ready"
                   [] s = Out(0)!Busy      -> "busy"
                   [] s = Out(0)!Done      -> "done"

Hashes == INSTANCE HashService WITH
    Block  <- Accelerator,
    Header <- HeaderLines,
    HashOf <- HeaderHash,
    None   <- <<>>,
    status <- [i \in Accelerator |-> StatusName(data_mem[ACB(i)])],
    header <- [i \in Accelerator |-> <<data_mem[HCB(i, 1)], data_mem[HCB(i, 2)]>>],
    digest <- [i \in Accelerator |->
                 IF data_mem[ACB(i)] = Out(i)!Done
                 THEN LET d == data_mem[HASH(i, 0)][3] IN
                      IF \A k \in 0 .. HashWriteCycle - 1 :
                            data_mem[HASH(i, k)] = Out(i)!Word(d, k)
                      THEN d ELSE <<"mixed">>
                 ELSE <<>>]

\* A careful program gets the double hash of its header, whole, for every job
\* it submits.
ServesHashes == Hashes!Service

-----------------------------------------------------------------------------
(* What comments say of the memory path and of the nonce. *)

\* "All Clients get the data, read_valid will signal the correct Client"
\* (syn/hw/arbiter.sv:190): a Client that gets read_valid gets the line at its
\* own address.
ReadGetsItsLine ==
    [][ \A i \in client_read_valid' :
            rd_data' = data_mem[At(i, Out(i)!mem_acc_read_addr)] ]_vars

\* "Load the value to be hashed into" (src/asmCode.asm:33): a new nonce, the
\* store to offset 0x54 of an HCB, changes the header the accelerator reads.
NonceIsHashed ==
    [][ \A i \in Accelerator :
          cpu # NoOp /\ cpu.write /\ cpu.addr = HCB(i, Part(NonceOffset))
          /\ data_mem' # data_mem =>
             \E half \in 1 .. 2 : data_mem'[HCB(i, half)] # data_mem[HCB(i, half)] ]_vars
=============================================================================
