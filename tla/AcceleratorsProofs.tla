-------------------------- MODULE AcceleratorsProofs --------------------------
(***************************************************************************)
(* Proofs about the block of accelerators, its arbiter and the data        *)
(* memory, for any number of accelerators, words and cycles.               *)
(*                                                                         *)
(* The first part assumes nothing of the program.  The second is about a   *)
(* program that keeps to CarefulSpec; its invariant CInv says what the     *)
(* status word and the program know of each accelerator, and how far the   *)
(* hash of the one that works has got.                                     *)
(***************************************************************************)
EXTENDS Accelerators, SequenceTheorems, WellFoundedInduction, TLAPS

-----------------------------------------------------------------------------
(* The arbiter. *)

\* The for loop of the arbitration unit finds the lowest of some numbers.
LEMMA LeastExists ==
    ASSUME NEW S \in SUBSET Nat, S # {}
    PROVE  (CHOOSE x \in S : \A y \in S : x =< y) \in S
<1>1. PICK x \in S : \A y \in S : ~ (<<y, x>> \in OpToRel(<, Nat))
  BY WFMin, NatLessThanWellFounded
<1>2. ASSUME NEW y \in S PROVE x =< y
  <2>1. ~ (<<y, x>> \in {ss \in Nat \X Nat : ss[1] < ss[2]})
    BY <1>1 DEF OpToRel
  <2> QED
    BY <2>1
<1> QED
  BY <1>2

\* The unit for reads grants nobody or one accelerator that asks.
LEMMA ReadGrantIsRequest ==
    ReadUnit!grants = {} \/ \E i \in arbiter_read_en : ReadUnit!grants = {i}
<1>1. /\ ReadUnit!Left \in SUBSET arbiter_read_en /\ ReadUnit!Left \in SUBSET Nat
      /\ ReadUnit!Right \in SUBSET arbiter_read_en /\ ReadUnit!Right \in SUBSET Nat
  BY AcceleratorsAssumption DEF ReadUnit!Left, ReadUnit!Right, arbiter_read_en, Accelerator
<1>2. ReadUnit!Left # {} => ReadUnit!Min(ReadUnit!Left) \in ReadUnit!Left
  BY <1>1, LeastExists DEF ReadUnit!Min
<1>3. ReadUnit!Right # {} => ReadUnit!Min(ReadUnit!Right) \in ReadUnit!Right
  BY <1>1, LeastExists DEF ReadUnit!Min
<1> QED
  BY <1>1, <1>2, <1>3
     DEF ReadUnit!grants, ReadUnit!is_left_grant_set, ReadUnit!is_right_grant_set

\* So does the unit for writes.
LEMMA WriteGrantIsRequest ==
    WriteUnit!grants = {} \/ \E i \in arbiter_write_en : WriteUnit!grants = {i}
<1>1. /\ WriteUnit!Left \in SUBSET arbiter_write_en /\ WriteUnit!Left \in SUBSET Nat
      /\ WriteUnit!Right \in SUBSET arbiter_write_en /\ WriteUnit!Right \in SUBSET Nat
  BY AcceleratorsAssumption DEF WriteUnit!Left, WriteUnit!Right, arbiter_write_en, Accelerator
<1>2. WriteUnit!Left # {} => WriteUnit!Min(WriteUnit!Left) \in WriteUnit!Left
  BY <1>1, LeastExists DEF WriteUnit!Min
<1>3. WriteUnit!Right # {} => WriteUnit!Min(WriteUnit!Right) \in WriteUnit!Right
  BY <1>1, LeastExists DEF WriteUnit!Min
<1> QED
  BY <1>1, <1>2, <1>3
     DEF WriteUnit!grants, WriteUnit!is_left_grant_set, WriteUnit!is_right_grant_set

\* What the arbiter asks of the memory.
LEMMA MemWrite ==
    \/ WriteUnit!grants = {} /\ mem_write = NoOp
    \/ \E i \in arbiter_write_en :
          /\ WriteUnit!grants = {i}
          /\ mem_write = [write |-> TRUE, addr |-> At(i, Out(i)!mem_acc_write_addr),
                          data |-> Out(i)!mem_acc_write_data]
BY WriteGrantIsRequest DEF mem_write

\* The read it asks for is that of the accelerator that is granted.
LEMMA MemRead ==
    \/ ReadUnit!grants = {} /\ mem_read = NoOp
    \/ \E i \in arbiter_read_en :
          /\ ReadUnit!grants = {i}
          /\ mem_read = [write |-> FALSE, addr |-> At(i, Out(i)!mem_acc_read_addr)]
BY ReadGrantIsRequest DEF mem_read

-----------------------------------------------------------------------------
(* Types. *)

\* A rising edge of one accelerator, whatever it hears.
LEMMA RegistersStep ==
    ASSUME NEW i \in Accelerator, Out(i)!RegsOK, acc'[i] = Acc(i)!NextRegs
    PROVE  Out(i)!RegsOK'
<1> DEFINE r == acc[i]
           s == acc'[i]
           Fields == {"curr_state", "hash_word", "hash_cycle_counter", "stage_counter",
                      "message_buf", "intermediate_hash", "hash", "message_w"}
<1>1. /\ DOMAIN r = Fields
      /\ r.curr_state \in Out(i)!States
      /\ r.hash_word \in 0 .. HashWriteCycle - 1
      /\ r.hash_cycle_counter \in 0 .. HashCycleCount
      /\ r.stage_counter \in 0 .. 2
  BY DEF Out!RegsOK, Out!ResetRegs, Out!Words
<1>2. DOMAIN s = Fields
  BY <1>1 DEF Out!States, Acc!NextRegs, Acc!Idle, Acc!ReadMessage, Acc!WriteBit,
         Acc!InitHash, Acc!Upd1, Acc!Hash, Acc!Upd2, Acc!MaybeDone, Acc!WriteH, Acc!Goto
<1>6. s.curr_state \in Out(i)!States
  BY <1>1 DEF Out!States, Acc!NextRegs, Acc!Idle, Acc!ReadMessage, Acc!WriteBit,
         Acc!InitHash, Acc!Upd1, Acc!Hash, Acc!Upd2, Acc!MaybeDone, Acc!WriteH, Acc!Goto
<1>7. s.stage_counter \in 0 .. 2
  BY <1>1 DEF Out!States, Acc!NextRegs, Acc!Idle, Acc!ReadMessage, Acc!WriteBit,
         Acc!InitHash, Acc!Upd1, Acc!Hash, Acc!Upd2, Acc!MaybeDone, Acc!WriteH, Acc!Goto
<1>3. \/ s.hash_word = r.hash_word
      \/ s.hash_word = 0
      \/ r.hash_word < HashWriteCycle - 1 /\ s.hash_word = r.hash_word + 1
  BY <1>1 DEF Out!States, Acc!NextRegs, Acc!Idle, Acc!ReadMessage, Acc!WriteBit,
         Acc!InitHash, Acc!Upd1, Acc!Hash, Acc!Upd2, Acc!MaybeDone, Acc!WriteH, Acc!Goto
<1>4. \/ s.hash_cycle_counter = r.hash_cycle_counter
      \/ s.hash_cycle_counter = 0
      \/ r.hash_cycle_counter # HashCycleCount /\ s.hash_cycle_counter = r.hash_cycle_counter + 1
  BY <1>1 DEF Out!States, Acc!NextRegs, Acc!Idle, Acc!ReadMessage, Acc!WriteBit,
         Acc!InitHash, Acc!Upd1, Acc!Hash, Acc!Upd2, Acc!MaybeDone, Acc!WriteH, Acc!Goto
<1>5. /\ s.hash_word \in 0 .. HashWriteCycle - 1
      /\ s.hash_cycle_counter \in 0 .. HashCycleCount
  <2> HIDE DEF r, s
  <2> QED
    BY <1>1, <1>3, <1>4, AcceleratorsAssumption
<1> QED
  BY <1>2, <1>5, <1>6, <1>7 DEF Out!RegsOK, Out!ResetRegs, Out!Words, Out!States

\* A rising edge of the arbiter.
LEMMA UnitsStep ==
    ASSUME ReadUnit!TypeOK, WriteUnit!TypeOK, ClockHardware
    PROVE  /\ rd_last' \in Accelerator /\ rd_force' \in BOOLEAN
           /\ wr_last' \in Accelerator /\ wr_force' \in BOOLEAN
<1>1. 0 \in Accelerator
  BY AcceleratorsAssumption DEF Accelerator
<1>2. ReadUnit!curr_selected \in Accelerator
  BY <1>1, ReadGrantIsRequest DEF ReadUnit!curr_selected, arbiter_read_en
<1>3. WriteUnit!curr_selected \in Accelerator
  BY <1>1, WriteGrantIsRequest DEF WriteUnit!curr_selected, arbiter_write_en
<1>4. /\ rd_last' = IF ReadUnit!Held THEN rd_last ELSE ReadUnit!curr_selected
      /\ rd_force' \in BOOLEAN
  BY DEF ClockHardware, ReadUnit!ClockRegisters
<1>5. /\ wr_last' = IF WriteUnit!Held THEN wr_last ELSE WriteUnit!curr_selected
      /\ wr_force' \in BOOLEAN
  BY DEF ClockHardware, WriteUnit!ClockRegisters
<1> QED
  BY <1>2, <1>3, <1>4, <1>5
     DEF ReadUnit!TypeOK, WriteUnit!TypeOK, ReadUnit!Clients, WriteUnit!Clients, Accelerator

\* Whatever the program does next, the hardware is clocked.
LEMMA EveryStepClocks == [Next]_vars => Clock \/ UNCHANGED vars
BY DEF Next, Compute, Poll, Start, Renew, Load

\* The registers of every component keep their types, and the memory its
\* addresses, whatever the program does (accelerators.sv, arbiter.sv,
\* cpu_datamem.sv).
THEOREM RegistersHaveTypes == Spec => []TypeOK
<1>1. Init => TypeOK
  <2> SUFFICES ASSUME Init PROVE TypeOK
    OBVIOUS
  <2>1. ASSUME NEW i \in Accelerator PROVE Out(i)!RegsOK
    BY AcceleratorsAssumption DEF Init, Out!RegsOK, Out!ResetRegs, Out!States, Out!Words
  <2>2. 0 \in Accelerator
    BY AcceleratorsAssumption DEF Accelerator
  <2>3. ReadUnit!TypeOK /\ WriteUnit!TypeOK
    BY <2>2 DEF Init, ReadUnit!TypeOK, WriteUnit!TypeOK, ReadUnit!Clients,
       WriteUnit!Clients, Accelerator, arbiter_read_en, arbiter_write_en
  <2>4. DOMAIN data_mem = Addresses /\ accel_wrt_done \in BOOLEAN /\ accel_rd_valid \in BOOLEAN
    BY DEF Init
  <2> QED
    BY <2>1, <2>3, <2>4 DEF TypeOK
<1>2. TypeOK /\ [Next]_vars => TypeOK'
  <2> SUFFICES ASSUME TypeOK, [Next]_vars PROVE TypeOK'
    OBVIOUS
  <2>1. CASE Clock
    <3>1. ASSUME NEW i \in Accelerator PROVE Out(i)!RegsOK'
      <4>1. acc'[i] = Acc(i)!NextRegs
        BY <2>1 DEF Clock, ClockHardware
      <4> QED
        BY <4>1, RegistersStep DEF TypeOK
    <3>2. DOMAIN data_mem' = Addresses
      BY <2>1 DEF TypeOK, Clock, ClockHardware, Mem!ClockDataMem
    <3>3. accel_wrt_done' \in BOOLEAN /\ accel_rd_valid' \in BOOLEAN
      BY <2>1 DEF Clock, ClockHardware, Mem!ClockDataMem
    <3>4. ReadUnit!TypeOK' /\ WriteUnit!TypeOK'
      BY <2>1, <3>3, UnitsStep DEF TypeOK, Clock, ReadUnit!TypeOK, WriteUnit!TypeOK,
         ReadUnit!Clients, WriteUnit!Clients, Accelerator, arbiter_read_en, arbiter_write_en
    <3> QED
      BY <3>1, <3>2, <3>3, <3>4 DEF TypeOK
  <2>2. CASE UNCHANGED vars
    <3>1. ASSUME NEW i \in Accelerator PROVE Out(i)!RegsOK'
      BY <2>2 DEF TypeOK, vars, Out!RegsOK, Out!ResetRegs
    <3>2. arbiter_read_en' = arbiter_read_en /\ arbiter_write_en' = arbiter_write_en
      BY <2>2 DEF vars, arbiter_read_en, arbiter_write_en, Out!mem_acc_read_en,
         Out!mem_acc_write_en
    <3>3. ReadUnit!TypeOK' /\ WriteUnit!TypeOK'
      BY <2>2, <3>2 DEF TypeOK, vars, ReadUnit!TypeOK, WriteUnit!TypeOK,
         ReadUnit!Clients, WriteUnit!Clients
    <3> QED
      BY <2>2, <3>1, <3>3 DEF TypeOK, vars
  <2> QED
    BY <2>1, <2>2, EveryStepClocks
<1> QED
  BY <1>1, <1>2, PTL DEF Spec

-----------------------------------------------------------------------------
(* The data memory. *)

\* An accelerator asks for words of its own blocks only.
LEMMA OwnAddresses ==
    ASSUME TypeOK, NEW i \in Accelerator
    PROVE  /\ At(i, Out(i)!mem_acc_read_addr) \in Addresses
           /\ At(i, Out(i)!mem_acc_write_addr) \in Addresses
<1>1. acc[i].hash_word \in 0 .. HashWriteCycle - 1
  BY DEF TypeOK, Out!RegsOK, Out!Words
<1>2. \/ At(i, Out(i)!mem_acc_read_addr) = HCB(i, 1)
      \/ At(i, Out(i)!mem_acc_read_addr) = HCB(i, 2)
  BY DEF At, HCB, Out!mem_acc_read_addr
<1>3. \/ At(i, Out(i)!mem_acc_write_addr) = ACB(i)
      \/ At(i, Out(i)!mem_acc_write_addr) = HASH(i, acc[i].hash_word)
  BY DEF At, ACB, HASH, Out!mem_acc_write_addr
<1> QED
  BY <1>1, <1>2, <1>3 DEF Addresses

\* What the port does: the program's operation, or else the accelerators'
\* write, or else their read.
LEMMA PortStep ==
    ASSUME ClockHardware
    PROVE  /\ cpu # NoOp => /\ data_mem' = IF cpu.write THEN [data_mem EXCEPT ![cpu.addr] = cpu.data]
                                           ELSE data_mem
                            /\ ~accel_wrt_done' /\ ~accel_rd_valid'
           /\ cpu = NoOp /\ mem_write # NoOp =>
                 data_mem' = [data_mem EXCEPT ![mem_write.addr] = mem_write.data]
           /\ cpu = NoOp /\ mem_write = NoOp => data_mem' = data_mem
           /\ accel_wrt_done' => mem_write # NoOp
           /\ accel_rd_valid' => mem_read # NoOp
           /\ accel_rd_valid' /\ mem_write = NoOp => rd_data' = data_mem[mem_read.addr]
<1>1. mem_write # NoOp => mem_write.write
  BY MemWrite
<1>2. mem_read # NoOp => ~mem_read.write
  BY MemRead
<1> QED
  BY <1>1, <1>2 DEF ClockHardware, Mem!ClockDataMem, Mem!port, Mem!cpu_priority, Mem!accel_op

\* A word of the memory changes only by a store of the program, or to what the
\* accelerator that owns it writes: nothing the arbiter and the port do to
\* the requests of many accelerators makes them write elsewhere.
THEOREM MemoryIsOwn == Spec => WritesAreOwn
<1> DEFINE Own == \A a \in Addresses : data_mem'[a] # data_mem[a] =>
                     \/ cpu # NoOp /\ cpu.write /\ cpu.addr = a
                     \/ \E i \in arbiter_write_en :
                           /\ a = At(i, Out(i)!mem_acc_write_addr)
                           /\ data_mem'[a] = Out(i)!mem_acc_write_data
<1>1. TypeOK /\ [Next]_vars => [Own]_vars
  <2> SUFFICES ASSUME TypeOK, ClockHardware, NEW a \in Addresses, data_mem'[a] # data_mem[a]
               PROVE  \/ cpu # NoOp /\ cpu.write /\ cpu.addr = a
                      \/ \E i \in arbiter_write_en :
                            /\ a = At(i, Out(i)!mem_acc_write_addr)
                            /\ data_mem'[a] = Out(i)!mem_acc_write_data
    BY EveryStepClocks DEF Clock
  <2>1. a \in DOMAIN data_mem
    BY DEF TypeOK
  <2>2. CASE cpu # NoOp
    BY <2>1, <2>2, PortStep
  <2>3. CASE cpu = NoOp
    <3>1. /\ mem_write # NoOp
          /\ data_mem' = [data_mem EXCEPT ![mem_write.addr] = mem_write.data]
      BY <2>3, PortStep
    <3>2. a = mem_write.addr /\ data_mem'[a] = mem_write.data
      BY <2>1, <3>1
    <3> QED
      BY <3>1, <3>2, MemWrite
  <2> QED
    BY <2>2, <2>3
<1> QED
  BY <1>1, RegistersHaveTypes, PTL DEF Spec, WritesAreOwn

\* The memory says done and valid only for what it has performed.
THEOREM AnswersAreTrueAlways == Spec => AnswersAreTrue
<1> DEFINE True ==
        /\ accel_wrt_done' => data_mem'[mem_write.addr] = mem_write.data
        /\ accel_rd_valid' /\ mem_write = NoOp => rd_data' = data_mem[mem_read.addr]
<1>1. TypeOK /\ [Next]_vars => [True]_vars
  <2> SUFFICES ASSUME TypeOK, ClockHardware PROVE True
    BY EveryStepClocks DEF Clock
  <2>1. ASSUME accel_wrt_done' PROVE data_mem'[mem_write.addr] = mem_write.data
    <3>1. /\ mem_write # NoOp
          /\ data_mem' = [data_mem EXCEPT ![mem_write.addr] = mem_write.data]
      BY <2>1, PortStep
    <3>2. mem_write.addr \in DOMAIN data_mem
      BY <3>1, MemWrite, OwnAddresses DEF TypeOK, arbiter_write_en
    <3> QED
      BY <3>1, <3>2
  <2> QED
    BY <2>1, PortStep
<1> QED
  BY <1>1, RegistersHaveTypes, PTL DEF Spec, AnswersAreTrue

-----------------------------------------------------------------------------
(* The arbitration units are used as they have to be. *)

\* An accelerator that asks for a read goes on asking until it is answered.
LEMMA ReadersPersist ==
    ASSUME ClockHardware
    PROVE  arbiter_read_en \ ReadUnit!Served \subseteq arbiter_read_en'
<1> SUFFICES ASSUME NEW i \in Accelerator, i \in arbiter_read_en, i \notin ReadUnit!Served
             PROVE  i \in arbiter_read_en'
  BY DEF arbiter_read_en
<1>1. i \notin client_read_valid
  BY DEF client_read_valid, ReadUnit!Served, ReadUnit!Held
<1>2. acc[i].curr_state \in {"READ_MESSAGE_1", "READ_MESSAGE_2"}
  BY DEF arbiter_read_en, Out!mem_acc_read_en
<1>3. acc'[i] = acc[i]
  BY <1>1, <1>2 DEF ClockHardware, Acc!NextRegs, Acc!ReadMessage
<1> QED
  BY <1>2, <1>3 DEF arbiter_read_en, Out!mem_acc_read_en

\* Nor does one that writes withdraw its request.
LEMMA WritersPersist ==
    ASSUME ClockHardware
    PROVE  arbiter_write_en \ WriteUnit!Served \subseteq arbiter_write_en'
<1> SUFFICES ASSUME NEW i \in Accelerator, i \in arbiter_write_en, i \notin WriteUnit!Served
             PROVE  i \in arbiter_write_en'
  BY DEF arbiter_write_en
<1>1. i \notin client_write_done
  BY DEF client_write_done, WriteUnit!Served, WriteUnit!Held
<1>2. acc[i].curr_state \in {"WRITE_BUSY_BIT", "WRITE_H", "WRITE_DONE_BIT"}
  BY DEF arbiter_write_en, Out!mem_acc_write_en
<1>3. acc'[i] = acc[i]
  BY <1>1, <1>2 DEF ClockHardware, Acc!NextRegs, Acc!WriteBit, Acc!WriteH
<1> QED
  BY <1>2, <1>3 DEF arbiter_write_en, Out!mem_acc_write_en

\* The accelerators and the memory keep to what the arbitration units are
\* proved under, so that those proofs hold of both units of this block
\* (arbiter.sv, accelerators.sv).
THEOREM UnitsAlwaysRun == Spec => UnitsRun
<1>1. Init => ReadUnit!Init /\ WriteUnit!Init
  BY DEF Init, ReadUnit!Init, WriteUnit!Init, ReadUnit!ResetState, WriteUnit!ResetState,
     ReadUnit!Clients, WriteUnit!Clients, Accelerator, arbiter_read_en, arbiter_write_en
<1>2. [Next]_vars => [ReadUnit!Next]_(ReadUnit!vars) /\ [WriteUnit!Next]_(WriteUnit!vars)
  <2>1. CASE Clock
    <3>1. ReadUnit!Inputs
      BY <2>1, ReadersPersist DEF Clock, ReadUnit!Inputs, ReadUnit!Clients, Accelerator,
         arbiter_read_en
    <3>2. WriteUnit!Inputs
      BY <2>1, WritersPersist DEF Clock, WriteUnit!Inputs, WriteUnit!Clients, Accelerator,
         arbiter_write_en
    <3> QED
      BY <2>1, <3>1, <3>2 DEF Clock, ClockHardware, ReadUnit!Next, WriteUnit!Next,
         ReadUnit!Clock, WriteUnit!Clock
  <2>2. CASE UNCHANGED vars
    BY <2>2 DEF vars, ReadUnit!vars, WriteUnit!vars, arbiter_read_en, arbiter_write_en,
       Out!mem_acc_read_en, Out!mem_acc_write_en
  <2> QED
    BY <2>1, <2>2, EveryStepClocks
<1> QED
  BY <1>1, <1>2, PTL DEF Spec, UnitsRun, ReadUnit!Spec, WriteUnit!Spec

-----------------------------------------------------------------------------
(* A careful program: the inductive invariant. *)

\* Accelerator i as AccelHash has it: the lines it hashes are those of its
\* header, what it has written is what the memory holds.
Job(i) == INSTANCE AccelHash WITH
              regs <- acc[i], mem_listen_start <- Starts(i),
              mem_acc_read_data <- rd_data,
              mem_acc_read_data_valid <- i \in client_read_valid,
              mem_acc_write_done <- i \in client_write_done,
              MemoryLines <- {},
              first <- data_mem[HCB(i, 1)], second <- data_mem[HCB(i, 2)],
              written <- {<<k, data_mem[HASH(i, k)]>> : k \in 0 .. HashWriteCycle - 1}

Works(i) == acc[i].curr_state # "IDLE"

\* One accelerator works at a time.
InvOneJob == \A i, j \in Accelerator : Works(i) /\ Works(j) => i = j

\* The status word follows the state; a write is repeated until it is answered.
StatusIn(i) ==
    CASE acc[i].curr_state = "IDLE"           -> {Out(i)!Status(0), Out(i)!Done}
      [] acc[i].curr_state = "READ_MESSAGE_1" -> {Out(i)!Ready}
      [] acc[i].curr_state = "WRITE_BUSY_BIT" -> {Out(i)!Ready, Out(i)!Busy}
      [] acc[i].curr_state = "WRITE_DONE_BIT" -> {Out(i)!Busy, Out(i)!Done}
      [] OTHER                                -> {Out(i)!Busy}

InvStatus == \A i \in Accelerator : data_mem[ACB(i)] \in StatusIn(i)

\* The program takes no accelerator for free that works.
InvKnown == \A i \in Accelerator : MayStart(i) => ~Works(i)

\* What the program asks of the memory.
Polls(i) == cpu = [write |-> FALSE, addr |-> ACB(i)]
Submits(i) == cpu = [write |-> TRUE, addr |-> ACB(i), data |-> Out(i)!Ready]
Renews(i, h) == cpu = [write |-> TRUE, addr |-> HCB(i, Part(NonceOffset)),
                       data |-> Line(i, Part(NonceOffset), h)]
Loads(i, k) == cpu = [write |-> FALSE, addr |-> HASH(i, k)]

InvCpu == \/ cpu = NoOp
          \/ \E i \in Accelerator :
                \/ Polls(i) \/ Submits(i)
                \/ \E h \in Headers : Renews(i, h)
                \/ \E k \in 0 .. HashWriteCycle - 1 : Loads(i, k)

\* The blocks hold headers.
InvHeaders == \A i \in Accelerator, part \in 1 .. 2 :
                  \E h \in Headers : data_mem[HCB(i, part)] = Line(i, part, h)

\* The line that is valid is the one an accelerator waits for.
InvRead == accel_rd_valid =>
               \A i \in arbiter_read_en :
                   rd_data = data_mem[At(i, Out(i)!mem_acc_read_addr)]

\* The hash of the header in the memory is as far as the state says.
InvJobs == \A i \in Accelerator : Job(i)!AInv

CInv == /\ TypeOK /\ Careful
        /\ cpu_status = [i \in Accelerator |-> cpu_status[i]]
        /\ InvOneJob /\ InvStatus /\ InvKnown /\ InvCpu /\ InvHeaders
        /\ InvRead /\ InvJobs

-----------------------------------------------------------------------------
(* Addresses and values. *)

\* The four status words.
LEMMA StatusesDiffer ==
    \A i \in Accelerator :
        /\ Out(i)!Status(0) # Out(i)!Ready /\ Out(i)!Status(0) # Out(i)!Busy
        /\ Out(i)!Status(0) # Out(i)!Done  /\ Out(i)!Ready # Out(i)!Busy
        /\ Out(i)!Ready # Out(i)!Done      /\ Out(i)!Busy # Out(i)!Done
BY DEF Out!Status, Out!Ready, Out!Busy, Out!Done

\* The words of the blocks.
LEMMA AddressesDiffer ==
    \A i, j, p, q :
        /\ HCB(i, p) = HCB(j, q) => i = j /\ p = q
        /\ HASH(i, p) = HASH(j, q) => i = j /\ p = q
        /\ ACB(i) = ACB(j) => i = j
        /\ HCB(i, p) # ACB(j) /\ HCB(i, p) # HASH(j, q) /\ ACB(i) # HASH(j, q)
BY DEF HCB, HASH, ACB

\* They are all in the memory.
LEMMA InAddresses ==
    ASSUME NEW i \in Accelerator
    PROVE  /\ ACB(i) \in Addresses
           /\ \A part \in 1 .. 3 : HCB(i, part) \in Addresses
           /\ \A k \in 0 .. HashWriteCycle - 1 : HASH(i, k) \in Addresses
BY DEF Addresses

\* Where an accelerator writes, and what.
LEMMA WritesOf ==
    ASSUME NEW i \in arbiter_write_en
    PROVE  /\ i \in Accelerator
           /\ \/ /\ acc[i].curr_state = "WRITE_BUSY_BIT"
                 /\ At(i, Out(i)!mem_acc_write_addr) = ACB(i)
                 /\ Out(i)!mem_acc_write_data = Out(i)!Busy
              \/ /\ acc[i].curr_state = "WRITE_H"
                 /\ At(i, Out(i)!mem_acc_write_addr) = HASH(i, acc[i].hash_word)
                 /\ Out(i)!mem_acc_write_data = Out(i)!Word(acc[i].hash, acc[i].hash_word)
              \/ /\ acc[i].curr_state = "WRITE_DONE_BIT"
                 /\ At(i, Out(i)!mem_acc_write_addr) = ACB(i)
                 /\ Out(i)!mem_acc_write_data = Out(i)!Done
<1>1. i \in Accelerator /\ acc[i].curr_state \in {"WRITE_BUSY_BIT", "WRITE_H", "WRITE_DONE_BIT"}
  BY DEF arbiter_write_en, Out!mem_acc_write_en
<1> QED
  BY <1>1 DEF At, ACB, HASH, Out!mem_acc_write_addr, Out!mem_acc_write_data

\* What the hash registers hold when they are written.
LEMMA WritesResults ==
    ASSUME CInv, NEW i \in arbiter_write_en
    PROVE  Out(i)!mem_acc_write_data \in Results
<1>1. i \in Accelerator
  BY WritesOf
<1>2. acc[i].curr_state = "WRITE_H" =>
          acc[i].hash = Out(0)!DoubleHash(data_mem[HCB(i, 1)], data_mem[HCB(i, 2)])
  BY <1>1 DEF CInv, InvJobs, Job!AInv, Job!Progress, Job!Expected, Job!DoubleHash, Job!Digest,
     Job!Value, Job!Padded, Out!DoubleHash, Out!Digest, Out!Value, Out!Padded
<1>3. /\ \E g \in Headers : data_mem[HCB(i, 1)] = Line(i, 1, g)
      /\ \E h \in Headers : data_mem[HCB(i, 2)] = Line(i, 2, h)
  BY <1>1 DEF CInv, InvHeaders
<1>4. acc[i].hash_word \in 0 .. HashWriteCycle - 1
  BY <1>1 DEF CInv, TypeOK, Out!RegsOK, Out!Words
<1>5. CASE acc[i].curr_state = "WRITE_H"
  <2>1. Out(i)!mem_acc_write_data = Out(0)!Word(acc[i].hash, acc[i].hash_word)
    BY <1>5, WritesOf DEF Out!Word, Out!Value
  <2> QED
    BY <1>1, <1>2, <1>3, <1>4, <1>5, <2>1 DEF Results
<1>6. CASE acc[i].curr_state # "WRITE_H"
  BY <1>6, WritesOf DEF Results, Out!Busy, Out!Done, Out!Status
<1> QED
  BY <1>5, <1>6

-----------------------------------------------------------------------------
(* What a rising edge does for a careful program. *)

\* The program uses the port only when no accelerator writes.
LEMMA PortIsFree ==
    ASSUME CInv, cpu # NoOp
    PROVE  /\ arbiter_write_en = {} /\ client_write_done = {}
           /\ cpu.write => \A i \in Accelerator : ~Works(i)
<1>1. arbiter_write_en = {}
  BY DEF CInv, Careful
<1>2. client_write_done = {}
  BY <1>1, WriteGrantIsRequest DEF client_write_done
<1> QED
  BY <1>1, <1>2 DEF CInv, Careful, InvKnown

\* So a write that is answered is carried out, again, in the same cycle.
LEMMA AnsweredIsWritten ==
    ASSUME CInv, ClockHardware, NEW i \in client_write_done
    PROVE  /\ i \in arbiter_write_en
           /\ data_mem' = [data_mem EXCEPT ![At(i, Out(i)!mem_acc_write_addr)] =
                                               Out(i)!mem_acc_write_data]
<1>1. cpu = NoOp
  BY PortIsFree
<1>2. i \in WriteUnit!grants
  BY DEF client_write_done
<1>3. /\ i \in arbiter_write_en
      /\ mem_write = [write |-> TRUE, addr |-> At(i, Out(i)!mem_acc_write_addr),
                      data |-> Out(i)!mem_acc_write_data]
  BY <1>2, MemWrite
<1>4. mem_write \in [write : {TRUE}, addr : Addresses, data : Results]
  BY <1>3, OwnAddresses, WritesResults DEF CInv, arbiter_write_en
<1>5. mem_write # NoOp
  BY <1>4, NoOpAssumption
<1> QED
  BY <1>1, <1>3, <1>5, PortStep

\* The stores of the program and the writes of the accelerators, one at a time.
Store(a, d) == data_mem' = [data_mem EXCEPT ![a] = d]

\* What a rising edge does to the memory as a whole.
LEMMA MemoryStep ==
    ASSUME CInv, ClockHardware
    PROVE  \/ data_mem' = data_mem
           \/ \E i \in Accelerator :
                 cpu # NoOp /\ Submits(i) /\ Store(ACB(i), Out(i)!Ready)
           \/ \E i \in Accelerator, h \in Headers :
                 /\ cpu # NoOp /\ Renews(i, h)
                 /\ Store(HCB(i, Part(NonceOffset)), Line(i, Part(NonceOffset), h))
           \/ \E i \in arbiter_write_en :
                 Store(At(i, Out(i)!mem_acc_write_addr), Out(i)!mem_acc_write_data)
<1>1. CASE cpu # NoOp
  <2>1. data_mem' = IF cpu.write THEN [data_mem EXCEPT ![cpu.addr] = cpu.data] ELSE data_mem
    BY <1>1, PortStep
  <2>2. PICK i \in Accelerator : \/ Polls(i) \/ Submits(i)
                                 \/ \E h \in Headers : Renews(i, h)
                                 \/ \E k \in 0 .. HashWriteCycle - 1 : Loads(i, k)
    BY <1>1 DEF CInv, InvCpu
  <2>3. CASE Polls(i)
    BY <2>1, <2>3 DEF Polls
  <2>4. CASE Submits(i)
    BY <1>1, <2>1, <2>4 DEF Submits, Store
  <2>5. CASE \E h \in Headers : Renews(i, h)
    <3>1. PICK h \in Headers : Renews(i, h)
      BY <2>5
    <3>2. Store(HCB(i, Part(NonceOffset)), Line(i, Part(NonceOffset), h))
      BY <2>1, <3>1 DEF Renews, Store
    <3> QED
      BY <1>1, <3>1, <3>2
  <2>6. CASE \E k \in 0 .. HashWriteCycle - 1 : Loads(i, k)
    BY <2>1, <2>6 DEF Loads
  <2> QED
    BY <2>2, <2>3, <2>4, <2>5, <2>6
<1>2. CASE cpu = NoOp /\ mem_write = NoOp
  BY <1>2, PortStep
<1>3. CASE cpu = NoOp /\ mem_write # NoOp
  BY <1>3, PortStep, MemWrite DEF Store
<1> QED
  BY <1>1, <1>2, <1>3

\* The three kinds of words, one by one.
LEMMA StatusStep ==
    ASSUME CInv, ClockHardware, NEW i \in Accelerator
    PROVE  \/ data_mem'[ACB(i)] = data_mem[ACB(i)]
           \/ cpu # NoOp /\ Submits(i) /\ data_mem'[ACB(i)] = Out(i)!Ready
           \/ acc[i].curr_state = "WRITE_BUSY_BIT" /\ data_mem'[ACB(i)] = Out(i)!Busy
           \/ acc[i].curr_state = "WRITE_DONE_BIT" /\ data_mem'[ACB(i)] = Out(i)!Done
<1>1. ACB(i) \in DOMAIN data_mem
  BY InAddresses DEF CInv, TypeOK
<1>2. ASSUME NEW j \in Accelerator, cpu # NoOp, Submits(j), Store(ACB(j), Out(j)!Ready),
             data_mem'[ACB(i)] # data_mem[ACB(i)]
      PROVE  Submits(i) /\ data_mem'[ACB(i)] = Out(i)!Ready
  BY <1>1, <1>2, AddressesDiffer DEF Store
<1>3. ASSUME NEW j \in Accelerator, NEW h \in Headers,
             Store(HCB(j, Part(NonceOffset)), Line(j, Part(NonceOffset), h))
      PROVE  data_mem'[ACB(i)] = data_mem[ACB(i)]
  BY <1>1, <1>3, AddressesDiffer DEF Store
<1>4. ASSUME NEW j \in arbiter_write_en, data_mem'[ACB(i)] # data_mem[ACB(i)],
             Store(At(j, Out(j)!mem_acc_write_addr), Out(j)!mem_acc_write_data)
      PROVE  \/ acc[i].curr_state = "WRITE_BUSY_BIT" /\ data_mem'[ACB(i)] = Out(i)!Busy
             \/ acc[i].curr_state = "WRITE_DONE_BIT" /\ data_mem'[ACB(i)] = Out(i)!Done
  <2>1. /\ At(j, Out(j)!mem_acc_write_addr) = ACB(i)
        /\ data_mem'[ACB(i)] = Out(j)!mem_acc_write_data
    BY <1>1, <1>4 DEF Store
  <2>2. j = i
    BY <2>1, WritesOf, AddressesDiffer
  <2> QED
    BY <1>4, <2>1, <2>2, WritesOf, AddressesDiffer
<1> QED
  BY <1>2, <1>3, <1>4, MemoryStep

\* A line of a header changes only by a store of the program.
LEMMA HeaderStep ==
    ASSUME CInv, ClockHardware, NEW i \in Accelerator, NEW part \in 1 .. 3
    PROVE  \/ data_mem'[HCB(i, part)] = data_mem[HCB(i, part)]
           \/ /\ cpu # NoOp /\ part = Part(NonceOffset)
              /\ \E h \in Headers : Renews(i, h) /\ data_mem'[HCB(i, part)] = Line(i, part, h)
<1>1. HCB(i, part) \in DOMAIN data_mem
  BY InAddresses DEF CInv, TypeOK
<1>2. ASSUME NEW j \in Accelerator, Store(ACB(j), Out(j)!Ready)
      PROVE  data_mem'[HCB(i, part)] = data_mem[HCB(i, part)]
  BY <1>1, <1>2, AddressesDiffer DEF Store
<1>3. ASSUME NEW j \in Accelerator, NEW h \in Headers, Renews(j, h),
             Store(HCB(j, Part(NonceOffset)), Line(j, Part(NonceOffset), h)),
             data_mem'[HCB(i, part)] # data_mem[HCB(i, part)]
      PROVE  part = Part(NonceOffset) /\ Renews(i, h) /\ data_mem'[HCB(i, part)] = Line(i, part, h)
  <2>1. HCB(j, Part(NonceOffset)) = HCB(i, part)
    BY <1>1, <1>3 DEF Store
  <2>2. j = i /\ part = Part(NonceOffset)
    BY <2>1, AddressesDiffer
  <2> QED
    BY <1>1, <1>3, <2>2 DEF Store
<1>4. ASSUME NEW j \in arbiter_write_en,
             Store(At(j, Out(j)!mem_acc_write_addr), Out(j)!mem_acc_write_data)
      PROVE  data_mem'[HCB(i, part)] = data_mem[HCB(i, part)]
  <2>1. At(j, Out(j)!mem_acc_write_addr) # HCB(i, part)
    BY WritesOf, AddressesDiffer
  <2> QED
    BY <1>1, <1>4, <2>1 DEF Store
<1> QED
  BY <1>2, <1>3, <1>4, MemoryStep

\* A word of a hash changes only while it is being written.
LEMMA HashWordStep ==
    ASSUME CInv, ClockHardware, NEW i \in Accelerator, NEW k \in 0 .. HashWriteCycle - 1,
           data_mem'[HASH(i, k)] # data_mem[HASH(i, k)]
    PROVE  /\ acc[i].curr_state = "WRITE_H" /\ acc[i].hash_word = k
           /\ data_mem'[HASH(i, k)] = Out(i)!Word(acc[i].hash, k)
<1>1. HASH(i, k) \in DOMAIN data_mem
  BY InAddresses DEF CInv, TypeOK
<1>2. ASSUME NEW j \in Accelerator, Store(ACB(j), Out(j)!Ready) PROVE FALSE
  BY <1>1, <1>2, AddressesDiffer DEF Store
<1>3. ASSUME NEW j \in Accelerator, NEW h \in Headers,
             Store(HCB(j, Part(NonceOffset)), Line(j, Part(NonceOffset), h))
      PROVE  FALSE
  BY <1>1, <1>3, AddressesDiffer DEF Store
<1>4. PICK j \in arbiter_write_en :
          Store(At(j, Out(j)!mem_acc_write_addr), Out(j)!mem_acc_write_data)
  BY <1>2, <1>3, MemoryStep
<1>5. /\ At(j, Out(j)!mem_acc_write_addr) = HASH(i, k)
      /\ data_mem'[HASH(i, k)] = Out(j)!mem_acc_write_data
  BY <1>1, <1>4 DEF Store
<1>6. j = i /\ acc[i].curr_state = "WRITE_H" /\ acc[i].hash_word = k
  BY <1>5, WritesOf, AddressesDiffer
<1> QED
  BY <1>5, <1>6, WritesOf, AddressesDiffer

\* The header of an accelerator that works stays as it is.
LEMMA HeadersStand ==
    ASSUME CInv, ClockHardware, NEW i \in Accelerator, Works(i), NEW part \in 1 .. 3
    PROVE  data_mem'[HCB(i, part)] = data_mem[HCB(i, part)]
<1>1. cpu # NoOp => ~cpu.write
  BY PortIsFree
<1> QED
  BY <1>1, HeaderStep DEF Renews

-----------------------------------------------------------------------------
(* A rising edge of one accelerator. *)

\* What starts an accelerator.
LEMMA StartIsSubmit ==
    ASSUME CInv, NEW i \in Accelerator
    PROVE  Starts(i) <=> cpu # NoOp /\ Submits(i)
<1>1. Submits(i) /\ cpu # NoOp => Starts(i)
  BY DEF Submits, Starts
<1>2. ASSUME Starts(i) PROVE Submits(i)
  <2>1. cpu # NoOp /\ cpu.write /\ cpu.addr = ACB(i)
    BY <1>2 DEF Starts
  <2>2. PICK j \in Accelerator : \/ Polls(j) \/ Submits(j)
                                 \/ \E h \in Headers : Renews(j, h)
                                 \/ \E k \in 0 .. HashWriteCycle - 1 : Loads(j, k)
    BY <2>1 DEF CInv, InvCpu
  <2>3. ~Polls(j) /\ \A k \in 0 .. HashWriteCycle - 1 : ~Loads(j, k)
    BY <2>1 DEF Polls, Loads
  <2>4. \A h \in Headers : ~Renews(j, h)
    BY <2>1, AddressesDiffer DEF Renews
  <2>5. Submits(j)
    BY <2>2, <2>3, <2>4
  <2>6. j = i
    BY <2>1, <2>5, AddressesDiffer DEF Submits
  <2> QED
    BY <2>5, <2>6
<1> QED
  BY <1>1, <1>2 DEF Starts

\* The next state, and when it comes.
Answered(i) == i \in client_read_valid
Written(i) == i \in client_write_done

\* The transitions of the control unit.
LEMMA StateStep ==
    ASSUME CInv, ClockHardware, NEW i \in Accelerator
    PROVE  LET at == acc[i].curr_state
               to == acc'[i].curr_state
           IN  /\ at = "IDLE"           => to = IF Starts(i) THEN "READ_MESSAGE_1" ELSE at
               /\ at = "READ_MESSAGE_1" => to = IF Answered(i) THEN "WRITE_BUSY_BIT" ELSE at
               /\ at = "WRITE_BUSY_BIT" => to = IF Written(i) THEN "INIT" ELSE at
               /\ at = "INIT"           => to = "UPD1"
               /\ at = "UPD1"           => to = "HASH"
               /\ at = "HASH"           => to \in {"HASH", "UPD2"}
               /\ at = "UPD2"           => to = "MAYBE_DONE"
               /\ at = "MAYBE_DONE"     => to \in {"READ_MESSAGE_2", "INIT", "WRITE_H"}
               /\ at = "READ_MESSAGE_2" => to = IF Answered(i) THEN "UPD1" ELSE at
               /\ at = "WRITE_H"        => to \in (IF Written(i) THEN {"WRITE_H", "WRITE_DONE_BIT"}
                                                   ELSE {"WRITE_H"})
               /\ at = "WRITE_DONE_BIT" => to = IF Written(i) THEN "IDLE" ELSE at
<1>1. acc'[i] = Acc(i)!NextRegs
  BY DEF ClockHardware
<1>2. DOMAIN acc[i] = {"curr_state", "hash_word", "hash_cycle_counter", "stage_counter",
                      "message_buf", "intermediate_hash", "hash", "message_w"}
  BY DEF CInv, TypeOK, Out!RegsOK, Out!ResetRegs
<1> QED
  BY <1>1, <1>2 DEF Acc!NextRegs, Acc!Idle, Acc!ReadMessage, Acc!WriteBit,
         Acc!InitHash, Acc!Upd1, Acc!Hash, Acc!Upd2, Acc!MaybeDone, Acc!WriteH, Acc!Goto,
         Answered, Written

\* Its states, for splitting cases.
LEMMA StatesOf ==
    ASSUME CInv, NEW i \in Accelerator
    PROVE  acc[i].curr_state \in
               {"IDLE", "READ_MESSAGE_1", "WRITE_BUSY_BIT", "INIT", "UPD1", "HASH", "UPD2",
                "MAYBE_DONE", "READ_MESSAGE_2", "WRITE_H", "WRITE_DONE_BIT"}
BY DEF CInv, TypeOK, Out!RegsOK, Out!States

\* Nobody begins to work but at a start.
LEMMA WorkBegins ==
    ASSUME CInv, ClockHardware, NEW i \in Accelerator, Works(i)'
    PROVE  Works(i) \/ (Starts(i) /\ \A j \in Accelerator : ~Works(j))
<1>1. CASE Works(i)
  BY <1>1
<1>2. CASE ~Works(i)
  <2>1. Starts(i)
    BY <1>2, StateStep DEF Works
  <2>2. \A j \in Accelerator : ~Works(j)
    BY <2>1, PortIsFree DEF Starts
  <2> QED
    BY <2>1, <2>2
<1> QED
  BY <1>1, <1>2

\* Accelerators do not begin to work at the same time.
LEMMA OneJobStep ==
    ASSUME CInv, ClockHardware
    PROVE  InvOneJob'
<1> SUFFICES ASSUME NEW i \in Accelerator, NEW j \in Accelerator, Works(i)', Works(j)'
             PROVE  i = j
  BY DEF InvOneJob
<1>1. CASE Works(i) /\ Works(j)
  BY <1>1 DEF CInv, InvOneJob
<1>2. CASE Starts(i) /\ Starts(j)
  BY <1>2, AddressesDiffer DEF Starts
<1> QED
  BY <1>1, <1>2, WorkBegins

\* The status word follows.
LEMMA StatusWordStep ==
    ASSUME CInv, ClockHardware
    PROVE  InvStatus'
<1> SUFFICES ASSUME NEW i \in Accelerator
             PROVE  data_mem'[ACB(i)] \in StatusIn(i)'
  BY DEF InvStatus
<1>1. data_mem[ACB(i)] \in StatusIn(i)
  BY DEF CInv, InvStatus
<1>2. Written(i) => data_mem'[ACB(i)] = IF acc[i].curr_state = "WRITE_H" THEN data_mem[ACB(i)]
                                        ELSE Out(i)!mem_acc_write_data
  <2> SUFFICES ASSUME Written(i)
               PROVE  data_mem'[ACB(i)] = IF acc[i].curr_state = "WRITE_H" THEN data_mem[ACB(i)]
                                          ELSE Out(i)!mem_acc_write_data
    OBVIOUS
  <2>1. /\ i \in arbiter_write_en
        /\ data_mem' = [data_mem EXCEPT ![At(i, Out(i)!mem_acc_write_addr)] =
                                            Out(i)!mem_acc_write_data]
    BY AnsweredIsWritten DEF Written
  <2>2. ACB(i) \in DOMAIN data_mem
    BY InAddresses DEF CInv, TypeOK
  <2> QED
    BY <2>1, <2>2, WritesOf, AddressesDiffer
<1>3. CASE acc[i].curr_state = "IDLE"
  <2>1. CASE Starts(i)
    <3>1. cpu # NoOp /\ cpu.write /\ cpu.addr = ACB(i) /\ cpu.data = Out(i)!Ready
      BY <2>1 DEF Starts
    <3>2. data_mem'[ACB(i)] = Out(i)!Ready
      BY <3>1, PortStep, InAddresses DEF CInv, TypeOK
    <3> QED
      BY <1>3, <2>1, <3>2, StateStep DEF StatusIn
  <2>2. CASE ~Starts(i)
    <3>1. data_mem'[ACB(i)] = data_mem[ACB(i)]
      BY <1>3, <2>2, StatusStep, StartIsSubmit
    <3> QED
      BY <1>1, <1>3, <2>2, <3>1, StateStep DEF StatusIn, Out!Status, Out!Done
  <2> QED
    BY <2>1, <2>2
<1>4. CASE Works(i)
  <2>1. ~Starts(i)
    BY <1>4, PortIsFree DEF Starts
  <2>2. \/ data_mem'[ACB(i)] = data_mem[ACB(i)]
        \/ acc[i].curr_state = "WRITE_BUSY_BIT" /\ data_mem'[ACB(i)] = Out(i)!Busy
        \/ acc[i].curr_state = "WRITE_DONE_BIT" /\ data_mem'[ACB(i)] = Out(i)!Done
    BY <2>1, StatusStep, StartIsSubmit
  <2>3. CASE acc[i].curr_state = "WRITE_BUSY_BIT"
    <3>1. Written(i) => data_mem'[ACB(i)] = Out(i)!Busy
      BY <1>2, <2>3 DEF Out!mem_acc_write_data
    <3>2. data_mem'[ACB(i)] \in {Out(i)!Ready, Out(i)!Busy}
      BY <1>1, <2>2, <2>3 DEF StatusIn
    <3> QED
      BY <2>3, <3>1, <3>2, StateStep DEF StatusIn, Out!Ready, Out!Busy, Out!Status
  <2>4. CASE acc[i].curr_state = "WRITE_DONE_BIT"
    <3>1. Written(i) => data_mem'[ACB(i)] = Out(i)!Done
      BY <1>2, <2>4 DEF Out!mem_acc_write_data
    <3>2. data_mem'[ACB(i)] \in {Out(i)!Busy, Out(i)!Done}
      BY <1>1, <2>2, <2>4 DEF StatusIn
    <3> QED
      BY <2>4, <3>1, <3>2, StateStep DEF StatusIn, Out!Done, Out!Busy, Out!Status
  <2>5. CASE acc[i].curr_state \notin {"WRITE_BUSY_BIT", "WRITE_DONE_BIT"}
    <3>1. data_mem'[ACB(i)] = data_mem[ACB(i)]
      BY <2>2, <2>5
    <3>2. CASE acc[i].curr_state = "READ_MESSAGE_1"
      BY <1>1, <3>1, <3>2, StateStep DEF StatusIn, Out!Ready, Out!Busy, Out!Status
    <3>3. CASE acc[i].curr_state # "READ_MESSAGE_1"
      <4>1. data_mem'[ACB(i)] = Out(i)!Busy
        BY <1>1, <1>4, <2>5, <3>1, <3>3 DEF StatusIn, Works
      <4>2. acc'[i].curr_state \notin {"IDLE", "READ_MESSAGE_1", "WRITE_BUSY_BIT"}
        BY <1>4, <2>5, <3>3, StateStep, StatesOf DEF Works
      <4> QED
        BY <4>1, <4>2 DEF StatusIn, Out!Busy, Out!Done, Out!Status
    <3> QED
      BY <3>2, <3>3
  <2> QED
    BY <2>3, <2>4, <2>5
<1> QED
  BY <1>3, <1>4 DEF Works

\* What the program learns is true, and nothing starts without its knowing.
LEMMA KnownStep ==
    ASSUME CInv, Clock
    PROVE  InvKnown' /\ cpu_status' = [i \in Accelerator |-> cpu_status'[i]]
<1>0. ClockHardware /\ ProgramLearns
  BY DEF Clock
<1>1. cpu_status = [i \in Accelerator |-> cpu_status[i]]
  BY DEF CInv
<1>2. cpu_status' = [i \in Accelerator |-> cpu_status'[i]]
  BY <1>0, <1>1 DEF ProgramLearns
<1> SUFFICES ASSUME NEW i \in Accelerator, MayStart(i)' PROVE ~Works(i)'
  BY <1>2 DEF InvKnown
<1>3. cpu_status'[i] \in {Out(i)!Status(0), Out(i)!Done}
  BY DEF MayStart, Out!Status, Out!Done
<1>4. ~Works(i) /\ ~Starts(i) => ~Works(i)'
  BY <1>0, WorkBegins
<1>5. cpu_status'[i] = cpu_status[i] => ~Works(i)
  BY <1>3 DEF CInv, InvKnown, MayStart
<1>6. CASE cpu = NoOp
  <2>1. cpu_status' = cpu_status /\ ~Starts(i)
    BY <1>0, <1>6 DEF ProgramLearns, Starts
  <2> QED
    BY <2>1, <1>4, <1>5
<1>7. CASE cpu # NoOp
  <2>1. PICK j \in Accelerator : \/ Polls(j) \/ Submits(j)
                                 \/ \E h \in Headers : Renews(j, h)
                                 \/ \E k \in 0 .. HashWriteCycle - 1 : Loads(j, k)
    BY <1>7 DEF CInv, InvCpu
  <2>2. CASE Submits(j)
    <3>1. cpu_status' = [cpu_status EXCEPT ![j] = Out(j)!Ready]
      BY <1>0, <1>7, <2>2 DEF ProgramLearns, Submits, ACB
    <3>2. i # j
      BY <1>1, <1>3, <3>1, StatusesDiffer
    <3>3. ~Starts(i)
      BY <2>2, <3>2, AddressesDiffer DEF Starts, Submits
    <3> QED
      BY <1>1, <3>1, <3>2, <3>3, <1>4, <1>5
  <2>3. CASE Polls(j)
    <3>1. cpu_status' = [cpu_status EXCEPT ![j] = data_mem[ACB(j)]]
      BY <1>0, <1>7, <2>3 DEF ProgramLearns, Polls, ACB
    <3>2. ~Starts(i)
      BY <2>3 DEF Starts, Polls
    <3>3. CASE i # j
      BY <1>1, <3>1, <3>2, <3>3, <1>4, <1>5
    <3>4. CASE i = j
      <4>1. data_mem[ACB(i)] \in {Out(i)!Status(0), Out(i)!Done}
        BY <1>1, <1>3, <3>1, <3>4
      <4>2. acc[i].curr_state # "WRITE_DONE_BIT"
        BY <1>7, PortIsFree DEF arbiter_write_en, Out!mem_acc_write_en
      <4>3. data_mem[ACB(i)] \in StatusIn(i)
        BY DEF CInv, InvStatus
      <4>4. ~Works(i)
        BY <4>1, <4>2, <4>3, StatusesDiffer DEF StatusIn, Works
      <4> QED
        BY <4>4, <3>2, <1>4
    <3> QED
      BY <3>3, <3>4
  <2>4. ASSUME cpu.addr[2] # "ACB" PROVE ~Works(i)'
    <3>1. cpu_status' = cpu_status /\ ~Starts(i)
      BY <1>0, <1>7, <2>4 DEF ProgramLearns, Starts, ACB
    <3> QED
      BY <3>1, <1>4, <1>5
  <2>5. CASE \E h \in Headers : Renews(j, h)
    BY <2>4, <2>5 DEF Renews, HCB
  <2>6. CASE \E k \in 0 .. HashWriteCycle - 1 : Loads(j, k)
    BY <2>4, <2>6 DEF Loads, HASH
  <2> QED
    BY <2>1, <2>2, <2>3, <2>5, <2>6
<1> QED
  BY <1>6, <1>7

\* The program's next operation is one of those it has.
LEMMA CpuStep == Next => InvCpu'
<1> SUFFICES ASSUME Next PROVE InvCpu'
  OBVIOUS
<1>1. CASE Compute
  BY <1>1 DEF Compute, InvCpu
<1>2. ASSUME NEW i \in Accelerator, Poll(i) PROVE InvCpu'
  BY <1>2 DEF Poll, Polls, InvCpu
<1>3. ASSUME NEW i \in Accelerator, Start(i) PROVE InvCpu'
  <2>1. Submits(i)'
    BY <1>3 DEF Start, Submits, Out!Ready, Out!Status
  <2> QED
    BY <2>1 DEF InvCpu
<1>4. ASSUME NEW i \in Accelerator, Renew(i) PROVE InvCpu'
  <2>1. PICK h \in Headers : cpu' = [write |-> TRUE, addr |-> HCB(i, Part(NonceOffset)),
                                     data |-> Line(i, Part(NonceOffset), h)]
    BY <1>4 DEF Renew
  <2>2. Renews(i, h)'
    BY <2>1 DEF Renews, Line, Out!Value
  <2> QED
    BY <2>2 DEF InvCpu
<1>5. ASSUME NEW i \in Accelerator, NEW k \in 0 .. HashWriteCycle - 1, Load(i, k) PROVE InvCpu'
  <2>1. Loads(i, k)'
    BY <1>5 DEF Load, Loads
  <2> QED
    BY <2>1 DEF InvCpu
<1> QED
  BY <1>1, <1>2, <1>3, <1>4, <1>5 DEF Next

\* The blocks go on holding headers.
LEMMA HeadersStep ==
    ASSUME CInv, ClockHardware
    PROVE  InvHeaders'
<1> SUFFICES ASSUME NEW i \in Accelerator, NEW part \in 1 .. 2
             PROVE  \E h \in Headers : data_mem'[HCB(i, part)] = Line(i, part, h)
  BY DEF InvHeaders, Line, Out!Value
<1>1. \E h \in Headers : data_mem[HCB(i, part)] = Line(i, part, h)
  BY DEF CInv, InvHeaders
<1>2. part \in 1 .. 3
  OBVIOUS
<1> QED
  BY <1>1, <1>2, HeaderStep

\* While an accelerator waits for a line, nobody else uses the port for the
\* accelerators, and nobody changes the line.
LEMMA ReadStep ==
    ASSUME CInv, ClockHardware
    PROVE  InvRead'
<1> SUFFICES ASSUME accel_rd_valid', NEW i \in Accelerator, i \in arbiter_read_en'
             PROVE  rd_data' = data_mem'[At(i, Out(i)!mem_acc_read_addr')]
  BY DEF InvRead, arbiter_read_en, At
<1>1. cpu = NoOp /\ mem_read # NoOp
  BY PortStep
<1>2. PICK g \in arbiter_read_en :
          mem_read = [write |-> FALSE, addr |-> At(g, Out(g)!mem_acc_read_addr)]
  BY <1>1, MemRead
<1>3. /\ g \in Accelerator
      /\ acc[g].curr_state \in {"READ_MESSAGE_1", "READ_MESSAGE_2"}
  BY DEF arbiter_read_en, Out!mem_acc_read_en
<1>4. arbiter_write_en = {}
  <2> SUFFICES ASSUME NEW j \in arbiter_write_en PROVE FALSE
    OBVIOUS
  <2>1. j \in Accelerator /\ acc[j].curr_state \in {"WRITE_BUSY_BIT", "WRITE_H", "WRITE_DONE_BIT"}
    BY WritesOf
  <2>2. j = g
    BY <1>3, <2>1 DEF CInv, InvOneJob, Works
  <2> QED
    BY <1>3, <2>1, <2>2
<1>5. mem_write = NoOp
  BY <1>4, MemWrite
<1>6. data_mem' = data_mem /\ rd_data' = data_mem[mem_read.addr]
  BY <1>1, <1>5, PortStep
<1>7. acc'[i].curr_state \in {"READ_MESSAGE_1", "READ_MESSAGE_2"}
  BY DEF arbiter_read_en, Out!mem_acc_read_en
<1>8. i = g
  <2>1. Works(i)' /\ ~Starts(i)
    BY <1>1, <1>7 DEF Works, Starts
  <2>2. Works(i) /\ Works(g)
    BY <1>3, <2>1, WorkBegins DEF Works
  <2> QED
    BY <1>3, <2>2 DEF CInv, InvOneJob
<1>9. acc'[i].curr_state = acc[i].curr_state
  BY <1>3, <1>7, <1>8, StateStep
<1> QED
  BY <1>2, <1>6, <1>8, <1>9 DEF Out!mem_acc_read_addr

-----------------------------------------------------------------------------
(* The hash. *)

\* Appending to a sequence of length one.
LEMMA AppendToOne ==
    ASSUME NEW x, NEW y
    PROVE  Append(<<y>>, x) = <<y, x>>
<1> DEFINE S == {x, y}
<1>1. <<y>> \in Seq(S) /\ <<y, x>> \in Seq(S)
  OBVIOUS
<1>2. Append(<<y>>, x) \in Seq(S)
  BY <1>1
<1>3. /\ Len(Append(<<y>>, x)) = 2
      /\ Append(<<y>>, x)[1] = y
      /\ Append(<<y>>, x)[2] = x
  BY <1>1
<1>4. /\ Len(Append(<<y>>, x)) = Len(<<y, x>>)
      /\ \A k \in 1 .. Len(<<y, x>>) : Append(<<y>>, x)[k] = <<y, x>>[k]
  BY <1>3
<1> HIDE DEF S
<1> QED
  BY <1>1, <1>2, <1>4, SeqEqual

\* UPD2 turns the digest of no message or one into the digest of one more.
LEMMA CompressedAppends ==
    ASSUME NEW i, NEW x, NEW y
    PROVE  /\ Out(i)!Compressed(Out(i)!Digest(<<>>), x) = Out(i)!Digest(<<x>>)
           /\ Out(i)!Compressed(Out(i)!Digest(<<y>>), x) = Out(i)!Digest(<<y, x>>)
<1>1. CASE TrackData
  <2>1. \A m : Out(i)!Digest(m)[2] = m
    BY <1>1 DEF Out!Digest, Out!Value
  <2>2. Append(<<>>, x) = <<x>>
    OBVIOUS
  <2> QED
    BY <1>1, <2>1, <2>2, AppendToOne DEF Out!Compressed
<1>2. CASE ~TrackData
  BY <1>2 DEF Out!Compressed, Out!Digest, Out!Value
<1> QED
  BY <1>1, <1>2

\* The types and the stage.
LEMMA StageStep ==
    ASSUME CInv, ClockHardware, NEW i \in Accelerator
    PROVE  Job(i)!RegsOK' /\ Job(i)!StageMatchesState'
<1>1. acc'[i] = Acc(i)!NextRegs
  BY DEF ClockHardware
<1>2. Out(i)!RegsOK
  BY DEF CInv, TypeOK
<1>3. Job(i)!RegsOK'
  BY <1>1, <1>2, RegistersStep DEF Job!RegsOK, Job!ResetRegs, Job!States, Job!Words,
     Out!RegsOK, Out!ResetRegs, Out!States, Out!Words
<1>4. Job(i)!StageMatchesState
  BY DEF CInv, InvJobs, Job!AInv
<1>5. DOMAIN acc[i] = {"curr_state", "hash_word", "hash_cycle_counter", "stage_counter",
                       "message_buf", "intermediate_hash", "hash", "message_w"}
  BY <1>2 DEF Out!RegsOK, Out!ResetRegs
<1>6. CASE acc[i].curr_state \in {"IDLE", "READ_MESSAGE_1", "READ_MESSAGE_2"}
  BY <1>1, <1>3, <1>4, <1>5, <1>6 DEF Job!StageMatchesState, Acc!NextRegs, Acc!Idle,
     Acc!ReadMessage, Acc!Goto
<1>7. CASE acc[i].curr_state \in {"WRITE_BUSY_BIT", "WRITE_DONE_BIT", "INIT", "UPD1", "UPD2"}
  BY <1>1, <1>3, <1>4, <1>5, <1>7 DEF Job!StageMatchesState, Acc!NextRegs, Acc!WriteBit,
     Acc!InitHash, Acc!Upd1, Acc!Upd2, Acc!Goto
<1>8. CASE acc[i].curr_state = "HASH"
  <2>1. /\ acc'[i].curr_state = "HASH" \/ (acc'[i].curr_state = "UPD2" /\ acc'[i].hash_cycle_counter = 0)
        /\ acc'[i].hash_word = acc[i].hash_word
    BY <1>1, <1>5, <1>8 DEF Acc!NextRegs, Acc!Hash, Acc!Goto
  <2>2. acc[i].hash_word = 0
    BY <1>4, <1>8 DEF Job!StageMatchesState
  <2> QED
    BY <1>3, <2>1, <2>2 DEF Job!StageMatchesState
<1>9. CASE acc[i].curr_state = "MAYBE_DONE"
  BY <1>1, <1>2, <1>3, <1>4, <1>5, <1>9 DEF Out!RegsOK, Job!StageMatchesState, Acc!NextRegs,
     Acc!MaybeDone
<1>10. CASE acc[i].curr_state = "WRITE_H"
  BY <1>1, <1>3, <1>4, <1>5, <1>10 DEF Job!StageMatchesState, Acc!NextRegs, Acc!WriteH, Acc!Goto
<1> QED
  BY <1>3, <1>6, <1>7, <1>8, <1>9, <1>10, StatesOf

\* Lines are values.
LEMMA LinesAreValues ==
    ASSUME CInv, NEW i \in Accelerator, NEW part \in 1 .. 2
    PROVE  Out(i)!Value(data_mem[HCB(i, part)]) = data_mem[HCB(i, part)]
BY DEF CInv, InvHeaders, Line, Out!Value

\* The line an accelerator takes is the one it asked for.
LEMMA TakesItsLine ==
    ASSUME CInv, ClockHardware, NEW i \in Accelerator, Answered(i), Works(i)
    PROVE  /\ acc[i].curr_state = "READ_MESSAGE_1" => rd_data = data_mem'[HCB(i, 1)]
           /\ acc[i].curr_state = "READ_MESSAGE_2" => rd_data = data_mem'[HCB(i, 2)]
<1>1. accel_rd_valid /\ i \in arbiter_read_en
  BY ReadGrantIsRequest DEF Answered, client_read_valid
<1>2. rd_data = data_mem[At(i, Out(i)!mem_acc_read_addr)]
  BY <1>1 DEF CInv, InvRead
<1>3. /\ acc[i].curr_state = "READ_MESSAGE_1" => rd_data = data_mem[HCB(i, 1)]
      /\ acc[i].curr_state = "READ_MESSAGE_2" => rd_data = data_mem[HCB(i, 2)]
  BY <1>2 DEF At, HCB, Out!mem_acc_read_addr
<1> QED
  BY <1>3, HeadersStand

\* How far the hash has got.
LEMMA ProgressStep ==
    ASSUME CInv, ClockHardware, NEW i \in Accelerator
    PROVE  Job(i)!Progress'
<1> DEFINE r == acc[i]
           s == acc'[i]
<1>1. s = Acc(i)!NextRegs
  BY DEF ClockHardware
<1>2. DOMAIN r = {"curr_state", "hash_word", "hash_cycle_counter", "stage_counter",
                  "message_buf", "intermediate_hash", "hash", "message_w"}
  BY DEF CInv, TypeOK, Out!RegsOK, Out!ResetRegs
<1>3. Job(i)!Progress /\ Job(i)!StageMatchesState
  BY DEF CInv, InvJobs, Job!AInv
<1>4. r.stage_counter \in 0 .. 2
  BY DEF CInv, TypeOK, Out!RegsOK
<1>5. Works(i) => /\ data_mem'[HCB(i, 1)] = data_mem[HCB(i, 1)]
                  /\ data_mem'[HCB(i, 2)] = data_mem[HCB(i, 2)]
  BY HeadersStand
<1>6. CASE r.curr_state = "IDLE"
  <2>1. s.curr_state \in {"IDLE", "READ_MESSAGE_1"}
    BY <1>6, StateStep
  <2> QED
    BY <2>1 DEF Job!Progress
<1>7. CASE r.curr_state = "READ_MESSAGE_1"
  <2>1. CASE ~Answered(i)
    <3>1. s.curr_state = "READ_MESSAGE_1"
      BY <1>7, <2>1, StateStep
    <3> QED
      BY <3>1 DEF Job!Progress
  <2>2. CASE Answered(i)
    <3>1. s.curr_state = "WRITE_BUSY_BIT" /\ s.stage_counter = 0
      BY <1>1, <1>2, <1>3, <1>7, <2>2 DEF Answered, Acc!NextRegs, Acc!ReadMessage, Acc!Goto,
         Job!StageMatchesState
    <3>2. s.message_buf = Out(i)!Value(rd_data)
      BY <1>1, <1>2, <1>7, <2>2 DEF Answered, Acc!NextRegs, Acc!ReadMessage, Acc!Goto,
         Acc!Value, Out!Value
    <3>3. s.message_buf = data_mem'[HCB(i, 1)]
      BY <1>5, <1>7, <2>2, <3>2, TakesItsLine, LinesAreValues DEF Works
    <3> QED
      BY <3>1, <3>3 DEF Job!Progress, Job!message, Job!StageMessage
  <2> QED
    BY <2>1, <2>2
<1>8. CASE r.curr_state = "WRITE_BUSY_BIT"
  <2>1. /\ s.curr_state \in {"WRITE_BUSY_BIT", "INIT"}
        /\ s.message_buf = r.message_buf /\ s.stage_counter = 0 /\ r.stage_counter = 0
    BY <1>1, <1>2, <1>3, <1>8 DEF Acc!NextRegs, Acc!WriteBit, Acc!Goto, Job!StageMatchesState
  <2>2. r.message_buf = data_mem[HCB(i, 1)]
    BY <1>3, <1>8, <2>1 DEF Job!Progress, Job!message, Job!StageMessage
  <2> QED
    BY <1>5, <1>8, <2>1, <2>2 DEF Works, Job!Progress, Job!message, Job!StageMessage
<1>9. CASE r.curr_state = "INIT"
  <2>1. /\ s.curr_state = "UPD1" /\ s.stage_counter = r.stage_counter
        /\ r.stage_counter \in {0, 2}
        /\ s.message_buf = r.message_buf /\ s.intermediate_hash = r.intermediate_hash
        /\ s.hash = Job(i)!Digest(<<>>)
    BY <1>1, <1>2, <1>3, <1>9 DEF Acc!NextRegs, Acc!InitHash, Acc!Goto, Acc!Digest, Acc!Value,
       Job!Digest, Job!Value, Job!StageMatchesState
  <2>2. Job(i)!message' = Job(i)!StageMessage'
    BY <1>3, <1>5, <1>9, <2>1 DEF Works, Job!Progress, Job!message, Job!StageMessage,
       Job!FirstHash, Job!Digest, Job!Padded, Job!Value
  <2> QED
    BY <2>1, <2>2 DEF Job!Progress, Job!StageHash, Job!Digest, Job!Value
<1>10. CASE r.curr_state = "UPD1"
  <2>1. /\ s.curr_state = "HASH" /\ s.stage_counter = r.stage_counter
        /\ s.hash = r.hash /\ s.message_w = Job(i)!message
    BY <1>1, <1>2, <1>10 DEF Acc!NextRegs, Acc!Upd1, Acc!Goto, Acc!message, Acc!Padded,
       Acc!Value, Job!message, Job!Padded, Job!Value
  <2>2. Job(i)!StageHash' = Job(i)!StageHash /\ Job(i)!StageMessage' = Job(i)!StageMessage
    BY <1>5, <1>10, <2>1 DEF Works, Job!StageHash, Job!StageMessage, Job!FirstHash,
       Job!Digest, Job!Padded, Job!Value
  <2> QED
    BY <1>3, <1>10, <2>1, <2>2 DEF Job!Progress
<1>11. CASE r.curr_state = "HASH"
  <2>1. /\ s.curr_state \in {"HASH", "UPD2"} /\ s.stage_counter = r.stage_counter
        /\ s.hash = r.hash /\ s.message_w = r.message_w
    BY <1>1, <1>2, <1>11 DEF Acc!NextRegs, Acc!Hash, Acc!Goto
  <2>2. Job(i)!StageHash' = Job(i)!StageHash /\ Job(i)!StageMessage' = Job(i)!StageMessage
    BY <1>5, <1>11, <2>1 DEF Works, Job!StageHash, Job!StageMessage, Job!FirstHash,
       Job!Digest, Job!Padded, Job!Value
  <2> QED
    BY <1>3, <1>11, <2>1, <2>2 DEF Job!Progress
<1>12. CASE r.curr_state = "UPD2"
  <2>1. /\ s.curr_state = "MAYBE_DONE" /\ s.stage_counter = r.stage_counter
        /\ s.hash = Out(i)!Compressed(r.hash, r.message_w)
    BY <1>1, <1>2, <1>12 DEF Acc!NextRegs, Acc!Upd2, Acc!Goto, Acc!Compressed, Acc!Digest,
       Acc!Value, Out!Compressed, Out!Digest, Out!Value
  <2>2. r.hash = Job(i)!StageHash /\ r.message_w = Job(i)!StageMessage
    BY <1>3, <1>12 DEF Job!Progress
  <2>3. Job(i)!StageResult' = Job(i)!StageResult
    BY <1>5, <1>12, <2>1 DEF Works, Job!StageResult, Job!FirstHash, Job!Expected,
       Job!DoubleHash, Job!Digest, Job!Padded, Job!Value
  <2>4. Job(i)!StageResult = Out(i)!Compressed(Job(i)!StageHash, Job(i)!StageMessage)
    <3>1. CASE r.stage_counter = 0
      <4>1. /\ Job(i)!StageHash = Out(i)!Digest(<<>>)
            /\ Job(i)!StageResult = Out(i)!Digest(<<Job(i)!StageMessage>>)
        BY <3>1 DEF Job!StageResult, Job!StageHash, Job!StageMessage, Job!Digest, Job!Value,
           Out!Digest, Out!Value
      <4> QED
        BY <4>1, CompressedAppends
    <3>2. CASE r.stage_counter = 1
      <4> DEFINE f == data_mem[HCB(i, 1)]
      <4>1. /\ Job(i)!StageHash = Out(i)!Digest(<<f>>)
            /\ Job(i)!StageResult = Out(i)!Digest(<<f, Job(i)!StageMessage>>)
        BY <3>2 DEF Job!StageResult, Job!StageHash, Job!StageMessage, Job!FirstHash,
           Job!Digest, Job!Value, Out!Digest, Out!Value
      <4> HIDE DEF f
      <4> QED
        BY <4>1, CompressedAppends
    <3>3. CASE r.stage_counter = 2
      <4>1. /\ Job(i)!StageHash = Out(i)!Digest(<<>>)
            /\ Job(i)!StageResult = Out(i)!Digest(<<Job(i)!StageMessage>>)
        BY <3>3 DEF Job!StageResult, Job!StageHash, Job!StageMessage, Job!FirstHash,
           Job!Expected, Job!DoubleHash, Job!Digest, Job!Value, Out!Digest, Out!Value
      <4> QED
        BY <4>1, CompressedAppends
    <3> QED
      BY <1>4, <3>1, <3>2, <3>3
  <2> QED
    BY <2>1, <2>2, <2>3, <2>4 DEF Job!Progress
<1>13. CASE r.curr_state = "MAYBE_DONE"
  <2> DEFINE saved == [r EXCEPT !.intermediate_hash = r.hash]
  <2>1. r.hash = Job(i)!StageResult
    BY <1>3, <1>13 DEF Job!Progress
  <2>2. CASE r.stage_counter = 0
    <3>1. s = [saved EXCEPT !.stage_counter = 1, !.curr_state = "READ_MESSAGE_2"]
      BY <1>1, <1>13, <2>2 DEF Acc!NextRegs, Acc!MaybeDone
    <3>2. s.curr_state = "READ_MESSAGE_2" /\ s.hash = r.hash
      BY <1>2, <3>1
    <3> QED
      BY <1>5, <1>13, <2>1, <2>2, <3>2 DEF Works, Job!Progress, Job!StageResult, Job!Digest,
         Job!Value
  <2>3. CASE r.stage_counter = 1
    <3>1. s = [saved EXCEPT !.stage_counter = 2, !.curr_state = "INIT"]
      BY <1>1, <1>13, <2>3 DEF Acc!NextRegs, Acc!MaybeDone
    <3>2. /\ s.curr_state = "INIT" /\ s.stage_counter = 2
          /\ s.intermediate_hash = r.hash
      BY <1>2, <3>1
    <3> QED
      BY <1>5, <1>13, <2>1, <2>3, <3>2 DEF Works, Job!Progress, Job!StageResult, Job!message,
         Job!StageMessage, Job!FirstHash, Job!Digest, Job!Padded, Job!Value
  <2>4. CASE r.stage_counter = 2
    <3>1. s = [saved EXCEPT !.stage_counter = 0, !.curr_state = "WRITE_H"]
      BY <1>1, <1>13, <2>4 DEF Acc!NextRegs, Acc!MaybeDone
    <3>2. s.curr_state = "WRITE_H" /\ s.hash = r.hash
      BY <1>2, <3>1
    <3> QED
      BY <1>5, <1>13, <2>1, <2>4, <3>2 DEF Works, Job!Progress, Job!StageResult, Job!Expected,
         Job!DoubleHash, Job!Digest, Job!Padded, Job!Value
  <2> QED
    BY <1>4, <2>2, <2>3, <2>4
<1>14. CASE r.curr_state = "READ_MESSAGE_2"
  <2>1. r.hash = Job(i)!Digest(<<data_mem[HCB(i, 1)]>>) /\ r.stage_counter = 1
    BY <1>3, <1>14 DEF Job!Progress, Job!StageMatchesState
  <2>2. CASE ~Answered(i)
    <3>1. s.curr_state = "READ_MESSAGE_2" /\ s.hash = r.hash
      BY <1>1, <1>2, <1>14, <2>2 DEF Answered, Acc!NextRegs, Acc!ReadMessage
    <3> QED
      BY <1>5, <1>14, <2>1, <3>1 DEF Works, Job!Progress, Job!Digest, Job!Value
  <2>3. CASE Answered(i)
    <3>1. /\ s.curr_state = "UPD1" /\ s.stage_counter = 1 /\ s.hash = r.hash
          /\ s.message_buf = Out(i)!Value(rd_data)
      BY <1>1, <1>2, <1>14, <2>1, <2>3 DEF Answered, Acc!NextRegs, Acc!ReadMessage, Acc!Goto,
         Acc!Value, Out!Value
    <3>2. s.message_buf = data_mem'[HCB(i, 2)]
      BY <1>5, <1>14, <2>3, <3>1, TakesItsLine, LinesAreValues DEF Works
    <3> QED
      BY <1>5, <1>14, <2>1, <3>1, <3>2 DEF Works, Job!Progress, Job!message, Job!StageMessage,
         Job!StageHash, Job!Digest, Job!Padded, Job!Value
  <2> QED
    BY <2>2, <2>3
<1>15. CASE r.curr_state \in {"WRITE_H", "WRITE_DONE_BIT"}
  <2>1. s.hash = r.hash /\ s.curr_state \in {"WRITE_H", "WRITE_DONE_BIT", "IDLE"}
    BY <1>1, <1>2, <1>15 DEF Acc!NextRegs, Acc!WriteH, Acc!WriteBit, Acc!Goto
  <2>2. Job(i)!Expected' = Job(i)!Expected
    BY <1>5, <1>15 DEF Works, Job!Expected, Job!DoubleHash, Job!Digest, Job!Padded, Job!Value
  <2> QED
    BY <1>3, <1>15, <2>1, <2>2 DEF Job!Progress
<1> QED
  BY <1>6, <1>7, <1>8, <1>9, <1>10, <1>11, <1>12, <1>13, <1>14, <1>15, StatesOf

\* The words of the hash that have been acknowledged are in the memory.
LEMMA AcknowledgedStep ==
    ASSUME CInv, ClockHardware, NEW i \in Accelerator
    PROVE  Job(i)!Acknowledged'
<1> DEFINE r == acc[i]
           s == acc'[i]
           D == Job(i)!Expected
           Held(k) == data_mem'[HASH(i, k)] = Out(i)!Word(D, k)
<1>1. HashWriteCycle \in Nat \ {0} /\ r.hash_word \in 0 .. HashWriteCycle - 1
  BY AcceleratorsAssumption DEF CInv, TypeOK, Out!RegsOK, Out!Words
<1>2. CASE s.curr_state \notin {"WRITE_H", "WRITE_DONE_BIT"}
  BY <1>2 DEF Job!Acknowledged
<1>3. CASE r.curr_state = "MAYBE_DONE"
  <2>1. s.hash_word = 0 /\ s.curr_state # "WRITE_DONE_BIT"
    <3> DEFINE saved == [r EXCEPT !.intermediate_hash = r.hash]
    <3>1. \/ s = [saved EXCEPT !.stage_counter = 1, !.curr_state = "READ_MESSAGE_2"]
          \/ s = [saved EXCEPT !.stage_counter = 2, !.curr_state = "INIT"]
          \/ s = [saved EXCEPT !.stage_counter = 0, !.curr_state = "WRITE_H"]
      <4>1. s = Acc(i)!MaybeDone
        BY <1>3 DEF ClockHardware, Acc!NextRegs
      <4>2. CASE r.stage_counter = 0
        BY <4>1, <4>2 DEF Acc!MaybeDone
      <4>3. CASE r.stage_counter = 1
        BY <4>1, <4>3 DEF Acc!MaybeDone
      <4>4. CASE r.stage_counter \notin {0, 1}
        BY <4>1, <4>4 DEF Acc!MaybeDone
      <4> QED
        BY <4>2, <4>3, <4>4
    <3>2. DOMAIN r = {"curr_state", "hash_word", "hash_cycle_counter", "stage_counter",
                      "message_buf", "intermediate_hash", "hash", "message_w"}
      BY DEF CInv, TypeOK, Out!RegsOK, Out!ResetRegs
    <3>3. r.hash_word = 0
      BY <1>3 DEF CInv, InvJobs, Job!AInv, Job!StageMatchesState
    <3> QED
      BY <3>1, <3>2, <3>3
  <2> QED
    BY <2>1 DEF Job!Acknowledged
<1>4. CASE r.curr_state \in {"WRITE_H", "WRITE_DONE_BIT"}
  <2>1. Job(i)!Expected' = D
    BY <1>4, HeadersStand DEF Works, Job!Expected, Job!DoubleHash, Job!Digest, Job!Padded,
       Job!Value
  <2>2. r.hash = D
    BY <1>4 DEF CInv, InvJobs, Job!AInv, Job!Progress
  <2>3. ASSUME NEW k \in 0 .. HashWriteCycle - 1, data_mem[HASH(i, k)] = Out(i)!Word(D, k)
        PROVE  Held(k)
    BY <2>2, <2>3, HashWordStep
  <2>4. \A k \in 0 .. HashWriteCycle - 1 :
            /\ <<k, Job(i)!Word(D, k)>> \in {<<j, data_mem[HASH(i, j)]>> : j \in 0 .. HashWriteCycle - 1}
               => Held(k)
            /\ Held(k) =>
               <<k, Job(i)!Word(D, k)>> \in {<<j, data_mem'[HASH(i, j)]>> : j \in 0 .. HashWriteCycle - 1}
    <3> HIDE DEF D
    <3> TAKE k \in 0 .. HashWriteCycle - 1
    <3>1. Job(i)!Word(D, k) = Out(i)!Word(D, k)
      BY DEF Job!Word, Job!Value, Out!Word, Out!Value
    <3> QED
      BY <2>3, <3>1
  <2> DEFINE Written2 == {<<j, data_mem'[HASH(i, j)]>> : j \in 0 .. HashWriteCycle - 1}
  <2>5. CASE r.curr_state = "WRITE_H"
    <3>1. \A k \in 0 .. r.hash_word - 1 : Held(k)
      BY <1>1, <2>4, <2>5 DEF CInv, InvJobs, Job!AInv, Job!Acknowledged
    <3>2. Written(i) => Held(r.hash_word)
      <4> SUFFICES ASSUME Written(i) PROVE Held(r.hash_word)
        OBVIOUS
      <4>1. data_mem' = [data_mem EXCEPT ![HASH(i, r.hash_word)] = Out(i)!Word(r.hash, r.hash_word)]
        BY <2>5, AnsweredIsWritten, WritesOf DEF Written
      <4>2. HASH(i, r.hash_word) \in DOMAIN data_mem
        BY <1>1, InAddresses DEF CInv, TypeOK
      <4> QED
        BY <2>2, <4>1, <4>2
    <3>3. s = Acc(i)!WriteH
      BY <2>5 DEF ClockHardware, Acc!NextRegs
    <3>4. DOMAIN r = {"curr_state", "hash_word", "hash_cycle_counter", "stage_counter",
                      "message_buf", "intermediate_hash", "hash", "message_w"}
      BY DEF CInv, TypeOK, Out!RegsOK, Out!ResetRegs
    <3>5. \/ s.curr_state = "WRITE_H" /\ s.hash_word = r.hash_word
          \/ /\ Written(i) /\ r.hash_word < HashWriteCycle - 1
             /\ s.curr_state = "WRITE_H" /\ s.hash_word = r.hash_word + 1
          \/ /\ Written(i) /\ ~(r.hash_word < HashWriteCycle - 1)
             /\ s.curr_state = "WRITE_DONE_BIT"
      BY <2>5, <3>3, <3>4 DEF Acc!WriteH, Acc!Goto, Written
    <3>6. /\ s.curr_state = "WRITE_H" => \A k \in 0 .. s.hash_word - 1 : Held(k)
          /\ s.curr_state = "WRITE_DONE_BIT" => \A k \in 0 .. HashWriteCycle - 1 : Held(k)
      <4> HIDE DEF r, s, Held
      <4> QED
        BY <1>1, <3>1, <3>2, <3>5
    <3>7. s.hash_word \in 0 .. HashWriteCycle - 1
      BY StageStep DEF Job!RegsOK, Job!Words
    <3> QED
      BY <1>1, <2>1, <2>4, <3>6, <3>7 DEF Job!Acknowledged, Job!Words, Job!Word, Job!Value
  <2>6. CASE r.curr_state = "WRITE_DONE_BIT"
    <3>1. \A k \in 0 .. HashWriteCycle - 1 : Held(k)
      BY <2>4, <2>6 DEF CInv, InvJobs, Job!AInv, Job!Acknowledged, Job!Words
    <3>2. s.curr_state # "WRITE_H"
      BY <2>6, StateStep
    <3> QED
      BY <2>1, <2>4, <3>1, <3>2 DEF Job!Acknowledged, Job!Words, Job!Word, Job!Value
  <2> QED
    BY <1>4, <2>5, <2>6
<1> QED
  BY <1>2, <1>3, <1>4, StateStep, StatesOf

\* The three of them together.
LEMMA JobStep ==
    ASSUME CInv, ClockHardware
    PROVE  InvJobs'
BY StageStep, ProgressStep, AcknowledgedStep DEF InvJobs, Job!AInv

-----------------------------------------------------------------------------
(* The theorems about a careful program. *)

\* After reset.
LEMMA InitCInv == Init => CInv
<1> SUFFICES ASSUME Init PROVE CInv
  OBVIOUS
<1>1. TypeOK
  <2>1. ASSUME NEW i \in Accelerator PROVE Out(i)!RegsOK
    BY AcceleratorsAssumption DEF Init, Out!RegsOK, Out!ResetRegs, Out!States, Out!Words
  <2>2. 0 \in Accelerator
    BY AcceleratorsAssumption DEF Accelerator
  <2>3. ReadUnit!TypeOK /\ WriteUnit!TypeOK
    BY <2>2 DEF Init, ReadUnit!TypeOK, WriteUnit!TypeOK, ReadUnit!Clients,
       WriteUnit!Clients, Accelerator, arbiter_read_en, arbiter_write_en
  <2> QED
    BY <2>1, <2>3 DEF Init, TypeOK
<1>2. \A i \in Accelerator : /\ acc[i].curr_state = "IDLE" /\ acc[i].stage_counter = 0
                             /\ acc[i].hash_cycle_counter = 0 /\ acc[i].hash_word = 0
  BY DEF Init, Out!ResetRegs
<1>3. /\ cpu = NoOp /\ Careful /\ InvCpu /\ InvOneJob /\ InvKnown
      /\ cpu_status = [i \in Accelerator |-> cpu_status[i]]
  BY <1>2 DEF Init, Careful, InvCpu, InvOneJob, InvKnown, Works
<1>4. InvStatus
  <2> SUFFICES ASSUME NEW i \in Accelerator PROVE data_mem[ACB(i)] = Out(i)!Status(0)
    BY <1>2 DEF InvStatus, StatusIn
  <2>1. ACB(i) \in Addresses
    BY InAddresses
  <2> QED
    BY <2>1 DEF Init, ACB, Out!Status
<1>5. InvHeaders /\ InvRead
  <2> SUFFICES ASSUME NEW i \in Accelerator, NEW part \in 1 .. 2
               PROVE  \E h \in Headers : data_mem[HCB(i, part)] = Line(i, part, h)
    BY DEF InvHeaders, Init, InvRead
  <2>1. HCB(i, part) \in Addresses
    BY InAddresses
  <2> QED
    BY <2>1 DEF Init, HCB, Line
<1>6. InvJobs
  <2> SUFFICES ASSUME NEW i \in Accelerator PROVE Job(i)!AInv
    BY DEF InvJobs
  <2>1. Job(i)!RegsOK
    BY <1>1 DEF TypeOK, Job!RegsOK, Job!ResetRegs, Job!States, Job!Words, Out!RegsOK,
       Out!ResetRegs, Out!States, Out!Words
  <2>2. Job(i)!StageMatchesState
    BY <1>2 DEF Job!StageMatchesState
  <2>3. Job(i)!Progress /\ Job(i)!Acknowledged
    BY <1>2 DEF Job!Progress, Job!Acknowledged
  <2> QED
    BY <2>1, <2>2, <2>3 DEF Job!AInv
<1> QED
  BY <1>1, <1>3, <1>4, <1>5, <1>6 DEF CInv

\* Between two rising edges nothing changes.
LEMMA StutterCInv == CInv /\ UNCHANGED vars => CInv'
<1> SUFFICES ASSUME CInv, UNCHANGED vars PROVE CInv'
  OBVIOUS
<1>1. /\ acc' = acc /\ rd_last' = rd_last /\ rd_force' = rd_force
      /\ wr_last' = wr_last /\ wr_force' = wr_force
      /\ data_mem' = data_mem /\ rd_data' = rd_data
      /\ accel_wrt_done' = accel_wrt_done /\ accel_rd_valid' = accel_rd_valid
      /\ cpu' = cpu /\ cpu_status' = cpu_status
  BY DEF vars
<1>2. arbiter_read_en' = arbiter_read_en /\ arbiter_write_en' = arbiter_write_en
  BY <1>1 DEF arbiter_read_en, arbiter_write_en, Out!mem_acc_read_en, Out!mem_acc_write_en
<1>3. TypeOK'
  <2>1. ASSUME NEW i \in Accelerator PROVE Out(i)!RegsOK'
    BY <1>1 DEF CInv, TypeOK, Out!RegsOK, Out!ResetRegs
  <2>2. ReadUnit!TypeOK' /\ WriteUnit!TypeOK'
    BY <1>1, <1>2 DEF CInv, TypeOK, ReadUnit!TypeOK, WriteUnit!TypeOK, ReadUnit!Clients,
       WriteUnit!Clients
  <2> QED
    BY <1>1, <2>1, <2>2 DEF CInv, TypeOK
<1>4. Careful' /\ cpu_status' = [i \in Accelerator |-> cpu_status'[i]]
  BY <1>1, <1>2 DEF CInv, Careful, MayStart, Out!Status, Out!Done
<1>5. InvOneJob' /\ InvKnown'
  BY <1>1 DEF CInv, InvOneJob, InvKnown, Works, MayStart, Out!Status, Out!Done
<1>6. InvStatus'
  BY <1>1 DEF CInv, InvStatus, StatusIn, Out!Status, Out!Done, Out!Ready, Out!Busy
<1>7. InvCpu'
  BY <1>1 DEF CInv, InvCpu, Polls, Submits, Renews, Loads, Line, Out!Value, Out!Ready, Out!Status
<1>8. InvHeaders' /\ InvRead'
  BY <1>1, <1>2 DEF CInv, InvHeaders, InvRead, Line, Out!Value, Out!mem_acc_read_addr
<1>9. InvJobs'
  <2> SUFFICES ASSUME NEW i \in Accelerator PROVE Job(i)!AInv'
    BY DEF InvJobs
  <2>1. Job(i)!AInv
    BY DEF CInv, InvJobs
  <2> QED
    BY <1>1, <2>1 DEF Job!AInv, Job!RegsOK, Job!ResetRegs, Job!StageMatchesState,
       Job!Progress, Job!Acknowledged, Job!message, Job!StageMessage, Job!StageHash,
       Job!StageResult, Job!FirstHash, Job!Expected, Job!DoubleHash, Job!Digest, Job!Padded,
       Job!Value, Job!Word
<1> QED
  BY <1>3, <1>4, <1>5, <1>6, <1>7, <1>8, <1>9 DEF CInv

\* At a rising edge: the lemmas above, conjunct by conjunct.
LEMMA CarefulStep == CInv /\ [CarefulNext]_vars => CInv'
<1> SUFFICES ASSUME CInv, CarefulNext PROVE CInv'
  BY StutterCInv
<1>1. Next /\ Careful' /\ Clock
  BY EveryStepClocks DEF CarefulNext, Next, Compute, Poll, Start, Renew, Load
<1>2. ClockHardware
  BY <1>1 DEF Clock
<1>3. TypeOK'
  <2>1. ASSUME NEW i \in Accelerator PROVE Out(i)!RegsOK'
    <3>1. acc'[i] = Acc(i)!NextRegs
      BY <1>2 DEF ClockHardware
    <3> QED
      BY <3>1, RegistersStep DEF CInv, TypeOK
  <2>2. /\ DOMAIN data_mem' = Addresses
        /\ accel_wrt_done' \in BOOLEAN /\ accel_rd_valid' \in BOOLEAN
    BY <1>2 DEF CInv, TypeOK, ClockHardware, Mem!ClockDataMem
  <2>3. ReadUnit!TypeOK' /\ WriteUnit!TypeOK'
    BY <1>2, <2>2, UnitsStep DEF CInv, TypeOK, ReadUnit!TypeOK, WriteUnit!TypeOK,
       ReadUnit!Clients, WriteUnit!Clients, Accelerator, arbiter_read_en, arbiter_write_en
  <2> QED
    BY <2>1, <2>2, <2>3 DEF TypeOK
<1> QED
  BY <1>1, <1>2, <1>3, OneJobStep, StatusWordStep, KnownStep, CpuStep, HeadersStep, ReadStep,
     JobStep DEF CInv

\* The invariant of a careful program: one accelerator works at a time, its
\* status word, what the program knows of it and the line that is valid go
\* with its state, and the hash is that of the header in its block.
THEOREM CarefulInvariant == CarefulSpec => []CInv
<1>1. CInv /\ [CarefulNext]_vars => CInv'
  BY CarefulStep
<1> QED
  BY InitCInv, <1>1, PTL DEF CarefulSpec

\* A careful program never loses a start: the store that starts an accelerator
\* finds it listening.
THEOREM StartsAreHeard == CarefulSpec => []StartIsHeard
<1>1. CInv => StartIsHeard
  <2> SUFFICES ASSUME CInv, NEW i \in Accelerator, Starts(i)
               PROVE  acc[i].curr_state = "IDLE"
    BY DEF StartIsHeard
  <2> QED
    BY PortIsFree DEF Starts, Works
<1> QED
  BY <1>1, CarefulInvariant, PTL

-----------------------------------------------------------------------------
(* The service to a careful program. *)

\* What a memory m says of block i.
StatusOf(m, i) == CASE m[ACB(i)] = <<"status", 0>> -> "none"
                    [] m[ACB(i)] = <<"status", 1>> -> "ready"
                    [] m[ACB(i)] = <<"status", 5>> -> "busy"
                    [] m[ACB(i)] = <<"status", 2>> -> "done"

HeaderOf(m, i) == <<m[HCB(i, 1)], m[HCB(i, 2)]>>

DigestOf(m, i) ==
    IF m[ACB(i)] = <<"status", 2>>
    THEN LET d == m[HASH(i, 0)][3] IN
         IF \A k \in 0 .. HashWriteCycle - 1 : m[HASH(i, k)] = <<"word", k, d>>
         THEN d ELSE <<"mixed">>
    ELSE <<>>

StatusMap(m) == [i \in Accelerator |-> StatusOf(m, i)]
HeaderMap(m) == [i \in Accelerator |-> HeaderOf(m, i)]
DigestMap(m) == [i \in Accelerator |-> DigestOf(m, i)]

\* The refinement mapping of Accelerators in these terms.
Serves(m, n) ==
    \E i \in Accelerator :
       \/ /\ StatusOf(m, i) \in {"none", "done"}
          /\ StatusMap(n) = [StatusMap(m) EXCEPT ![i] = "ready"]
          /\ DigestMap(n) = [DigestMap(m) EXCEPT ![i] = <<>>]
          /\ HeaderMap(n) = HeaderMap(m)
       \/ /\ StatusOf(m, i) \in {"none", "done"}
          /\ StatusMap(n) = StatusMap(m) /\ DigestMap(n) = DigestMap(m)
          /\ \E x \in HeaderLines : HeaderMap(n) = [HeaderMap(m) EXCEPT ![i] = x]
       \/ /\ StatusOf(m, i) = "ready"
          /\ StatusMap(n) = [StatusMap(m) EXCEPT ![i] = "busy"]
          /\ DigestMap(n) = DigestMap(m) /\ HeaderMap(n) = HeaderMap(m)
       \/ /\ StatusOf(m, i) = "busy"
          /\ StatusMap(n) = [StatusMap(m) EXCEPT ![i] = "done"]
          /\ DigestMap(n) = [DigestMap(m) EXCEPT ![i] = HeaderHash(HeaderOf(m, i))]
          /\ HeaderMap(n) = HeaderMap(m)

\* Serves is the next-state relation of the service under the mapping.
LEMMA ServiceIs ==
    ASSUME TrackData
    PROVE  /\ Serves(data_mem, data_mem') => Hashes!ServiceNext
           /\ /\ StatusMap(data_mem') = StatusMap(data_mem)
              /\ HeaderMap(data_mem') = HeaderMap(data_mem)
              /\ DigestMap(data_mem') = DigestMap(data_mem)
              => UNCHANGED Hashes!svars
<1> DEFINE St == [i \in Accelerator |-> StatusName(data_mem[ACB(i)])]
<1>1. St = StatusMap(data_mem) /\ St' = StatusMap(data_mem')
  BY DEF StatusMap, StatusOf, StatusName, Out!Status, Out!Ready, Out!Busy, Out!Done
<1> DEFINE Dg == [i \in Accelerator |->
                 IF data_mem[ACB(i)] = Out(i)!Done
                 THEN LET d == data_mem[HASH(i, 0)][3] IN
                      IF \A k \in 0 .. HashWriteCycle - 1 :
                            data_mem[HASH(i, k)] = Out(i)!Word(d, k)
                      THEN d ELSE <<"mixed">>
                 ELSE <<>>]
<1>2. Dg = DigestMap(data_mem) /\ Dg' = DigestMap(data_mem')
  BY DEF DigestMap, DigestOf, Out!Word, Out!Value, Out!Done, Out!Status
<1> DEFINE Hd == [i \in Accelerator |-> <<data_mem[HCB(i, 1)], data_mem[HCB(i, 2)]>>]
<1>3. Hd = HeaderMap(data_mem) /\ Hd' = HeaderMap(data_mem')
  BY DEF HeaderMap, HeaderOf
<1>4. UNCHANGED <<St, Hd, Dg>> <=> UNCHANGED Hashes!svars
  BY DEF Hashes!svars
<1>5. ASSUME NEW i \in Accelerator
      PROVE  /\ St[i] = StatusOf(data_mem, i) /\ Hd[i] = HeaderOf(data_mem, i)
             /\ Dg[i] = DigestOf(data_mem, i)
  BY <1>1, <1>2, <1>3 DEF StatusMap, HeaderMap, DigestMap
<1>6. ASSUME NEW i \in Accelerator, StatusOf(data_mem, i) \in {"none", "done"},
             StatusMap(data_mem') = [StatusMap(data_mem) EXCEPT ![i] = "ready"],
             DigestMap(data_mem') = [DigestMap(data_mem) EXCEPT ![i] = <<>>],
             HeaderMap(data_mem') = HeaderMap(data_mem)
      PROVE  Hashes!Submit(i)
  <2>1. /\ St[i] \in {"none", "done"} /\ St' = [St EXCEPT ![i] = "ready"]
        /\ Dg' = [Dg EXCEPT ![i] = <<>>] /\ Hd' = Hd
    BY <1>1, <1>2, <1>3, <1>5, <1>6
  <2> QED
    BY <2>1 DEF Hashes!Submit, Hashes!Free
<1>7. ASSUME NEW i \in Accelerator, NEW x \in HeaderLines,
             StatusOf(data_mem, i) \in {"none", "done"},
             StatusMap(data_mem') = StatusMap(data_mem), DigestMap(data_mem') = DigestMap(data_mem),
             HeaderMap(data_mem') = [HeaderMap(data_mem) EXCEPT ![i] = x]
      PROVE  Hashes!Replace(i)
  <2>1. /\ St[i] \in {"none", "done"} /\ St' = St /\ Dg' = Dg
        /\ Hd' = [Hd EXCEPT ![i] = x]
    BY <1>1, <1>2, <1>3, <1>5, <1>7
  <2> QED
    BY <2>1 DEF Hashes!Replace, Hashes!Free
<1>8. ASSUME NEW i \in Accelerator, StatusOf(data_mem, i) = "ready",
             StatusMap(data_mem') = [StatusMap(data_mem) EXCEPT ![i] = "busy"],
             DigestMap(data_mem') = DigestMap(data_mem), HeaderMap(data_mem') = HeaderMap(data_mem)
      PROVE  Hashes!Accept(i)
  <2>1. /\ St[i] = "ready" /\ St' = [St EXCEPT ![i] = "busy"]
        /\ Dg' = Dg /\ Hd' = Hd
    BY <1>1, <1>2, <1>3, <1>5, <1>8
  <2> QED
    BY <2>1 DEF Hashes!Accept
<1>9. ASSUME NEW i \in Accelerator, StatusOf(data_mem, i) = "busy",
             StatusMap(data_mem') = [StatusMap(data_mem) EXCEPT ![i] = "done"],
             DigestMap(data_mem') =
                 [DigestMap(data_mem) EXCEPT ![i] = HeaderHash(HeaderOf(data_mem, i))],
             HeaderMap(data_mem') = HeaderMap(data_mem)
      PROVE  Hashes!Finish(i)
  <2>1. /\ St[i] = "busy" /\ St' = [St EXCEPT ![i] = "done"]
        /\ Dg' = [Dg EXCEPT ![i] = HeaderHash(Hd[i])] /\ Hd' = Hd
    BY <1>1, <1>2, <1>3, <1>5, <1>9
  <2> QED
    BY <2>1 DEF Hashes!Finish
<1> HIDE DEF St, Hd, Dg
<1>10. Serves(data_mem, data_mem') => Hashes!ServiceNext
  BY <1>6, <1>7, <1>8, <1>9 DEF Serves, Hashes!ServiceNext
<1> QED
  BY <1>1, <1>2, <1>3, <1>4, <1>10

\* A block none of whose words changes stays as it is.
SameBlock(m, n, i) ==
    /\ n[ACB(i)] = m[ACB(i)] /\ n[HCB(i, 1)] = m[HCB(i, 1)] /\ n[HCB(i, 2)] = m[HCB(i, 2)]
    /\ \A k \in 0 .. HashWriteCycle - 1 : n[HASH(i, k)] = m[HASH(i, k)]

\* Then the service sees the same of it.
LEMMA SameBlockSame ==
    ASSUME NEW m, NEW n, NEW i, SameBlock(m, n, i)
    PROVE  /\ StatusOf(n, i) = StatusOf(m, i) /\ HeaderOf(n, i) = HeaderOf(m, i)
           /\ DigestOf(n, i) = DigestOf(m, i)
<1>1. 0 \in 0 .. HashWriteCycle - 1
  BY AcceleratorsAssumption
<1>2. n[HASH(i, 0)] = m[HASH(i, 0)]
  BY <1>1 DEF SameBlock
<1>3. DigestOf(n, i) = DigestOf(m, i)
  BY <1>2 DEF SameBlock, DigestOf
<1> QED
  BY <1>3 DEF SameBlock, StatusOf, HeaderOf

\* The program submits a job.
LEMMA SubmitServes ==
    ASSUME CInv, NEW i \in Accelerator, NEW n, cpu # NoOp, Submits(i),
           n[ACB(i)] = <<"status", 1>>,
           \A b \in Addresses : b # ACB(i) => n[b] = data_mem[b]
    PROVE  Serves(data_mem, n)
<1> DEFINE m == data_mem
<1>1. StatusOf(m, i) \in {"none", "done"}
  <2>1. ~Works(i)
    BY PortIsFree DEF Submits
  <2>2. m[ACB(i)] \in {<<"status", 0>>, <<"status", 2>>}
    BY <2>1 DEF CInv, InvStatus, StatusIn, Works, Out!Status, Out!Done
  <2> QED
    BY <2>2 DEF StatusOf
<1> HIDE DEF m
<1>2. ASSUME NEW j \in Accelerator, j # i
      PROVE  /\ StatusOf(n, j) = StatusOf(m, j) /\ HeaderOf(n, j) = HeaderOf(m, j)
             /\ DigestOf(n, j) = DigestOf(m, j)
  <2>1. SameBlock(m, n, j)
    BY <1>2, InAddresses, AddressesDiffer DEF SameBlock, m
  <2> QED
    BY <2>1, SameBlockSame
<1>3. n[HCB(i, 1)] = m[HCB(i, 1)] /\ n[HCB(i, 2)] = m[HCB(i, 2)]
  BY InAddresses, AddressesDiffer DEF m
<1>4. StatusOf(n, i) = "ready" /\ DigestOf(n, i) = <<>> /\ HeaderOf(n, i) = HeaderOf(m, i)
  BY <1>3 DEF StatusOf, DigestOf, HeaderOf
<1>5. StatusMap(n) = [StatusMap(m) EXCEPT ![i] = "ready"]
  BY <1>2, <1>4 DEF StatusMap
<1>6. DigestMap(n) = [DigestMap(m) EXCEPT ![i] = <<>>]
  BY <1>2, <1>4 DEF DigestMap
<1>7. HeaderMap(n) = HeaderMap(m)
  BY <1>2, <1>4 DEF HeaderMap
<1>8. Serves(m, n)
  BY <1>1, <1>5, <1>6, <1>7 DEF Serves
<1> QED
  BY <1>8 DEF m

\* The program stores a nonce, or anything else in the header.
LEMMA RenewServes ==
    ASSUME CInv, NEW i \in Accelerator, NEW part \in 1 .. 3, NEW h \in Headers, NEW n,
           cpu # NoOp, Renews(i, h), n[HCB(i, part)] = Line(i, part, h),
           \A b \in Addresses : b # HCB(i, part) => n[b] = data_mem[b]
    PROVE  Serves(data_mem, n)
<1> DEFINE m == data_mem
<1>1. StatusOf(m, i) \in {"none", "done"}
  <2>1. ~Works(i)
    BY PortIsFree DEF Renews
  <2>2. m[ACB(i)] \in {<<"status", 0>>, <<"status", 2>>}
    BY <2>1 DEF CInv, InvStatus, StatusIn, Works, Out!Status, Out!Done
  <2> QED
    BY <2>2 DEF StatusOf
<1>2. /\ \E g \in Headers : m[HCB(i, 1)] = Line(i, 1, g)
      /\ \E g \in Headers : m[HCB(i, 2)] = Line(i, 2, g)
  BY DEF CInv, InvHeaders
<1> HIDE DEF m
<1>3. ASSUME NEW j \in Accelerator, j # i
      PROVE  /\ StatusOf(n, j) = StatusOf(m, j) /\ HeaderOf(n, j) = HeaderOf(m, j)
             /\ DigestOf(n, j) = DigestOf(m, j)
  <2>1. SameBlock(m, n, j)
    BY <1>3, InAddresses, AddressesDiffer DEF SameBlock, m
  <2> QED
    BY <2>1, SameBlockSame
<1>4. /\ n[ACB(i)] = m[ACB(i)]
      /\ \A k \in 0 .. HashWriteCycle - 1 : n[HASH(i, k)] = m[HASH(i, k)]
      /\ part # 1 => n[HCB(i, 1)] = m[HCB(i, 1)]
      /\ part # 2 => n[HCB(i, 2)] = m[HCB(i, 2)]
  BY InAddresses, AddressesDiffer DEF m
<1>5. StatusOf(n, i) = StatusOf(m, i) /\ DigestOf(n, i) = DigestOf(m, i)
  <2>1. 0 \in 0 .. HashWriteCycle - 1
    BY AcceleratorsAssumption
  <2>2. n[HASH(i, 0)] = m[HASH(i, 0)]
    BY <1>4, <2>1
  <2>3. DigestOf(n, i) = DigestOf(m, i)
    BY <1>4, <2>2 DEF DigestOf
  <2> QED
    BY <1>4, <2>3 DEF StatusOf
<1>6. HeaderOf(n, i) \in HeaderLines
  <2>1. /\ \E g \in Headers : n[HCB(i, 1)] = Line(i, 1, g)
        /\ \E g \in Headers : n[HCB(i, 2)] = Line(i, 2, g)
    BY <1>2, <1>4
  <2> QED
    BY <2>1 DEF HeaderOf, HeaderLines
<1>7. StatusMap(n) = StatusMap(m)
  BY <1>3, <1>5 DEF StatusMap
<1>8. DigestMap(n) = DigestMap(m)
  BY <1>3, <1>5 DEF DigestMap
<1>9. HeaderMap(n) = [HeaderMap(m) EXCEPT ![i] = HeaderOf(n, i)]
  BY <1>3 DEF HeaderMap
<1>10. Serves(m, n)
  BY <1>1, <1>6, <1>7, <1>8, <1>9 DEF Serves
<1> QED
  BY <1>10 DEF m

\* The busy bit accepts the job.
LEMMA BusyServes ==
    ASSUME CInv, NEW i \in Accelerator, NEW n, acc[i].curr_state = "WRITE_BUSY_BIT",
           n[ACB(i)] = <<"status", 5>>,
           \A b \in Addresses : b # ACB(i) => n[b] = data_mem[b]
    PROVE  \/ Serves(data_mem, n)
           \/ \A b \in Addresses : n[b] = data_mem[b]
<1> DEFINE m == data_mem
<1>1. m[ACB(i)] \in {<<"status", 1>>, <<"status", 5>>}
  BY DEF CInv, InvStatus, StatusIn, Out!Status, Out!Ready, Out!Busy
<1>2. CASE m[ACB(i)] = <<"status", 5>>
  BY <1>2
<1>3. CASE m[ACB(i)] = <<"status", 1>>
  <2> HIDE DEF m
  <2>1. ASSUME NEW j \in Accelerator, j # i
        PROVE  /\ StatusOf(n, j) = StatusOf(m, j) /\ HeaderOf(n, j) = HeaderOf(m, j)
               /\ DigestOf(n, j) = DigestOf(m, j)
    <3>1. SameBlock(m, n, j)
      BY <2>1, InAddresses, AddressesDiffer DEF SameBlock, m
    <3> QED
      BY <3>1, SameBlockSame
  <2>2. n[HCB(i, 1)] = m[HCB(i, 1)] /\ n[HCB(i, 2)] = m[HCB(i, 2)]
    BY InAddresses, AddressesDiffer DEF m
  <2>3. /\ StatusOf(m, i) = "ready" /\ StatusOf(n, i) = "busy"
        /\ DigestOf(n, i) = DigestOf(m, i) /\ HeaderOf(n, i) = HeaderOf(m, i)
    BY <1>3, <2>2 DEF StatusOf, DigestOf, HeaderOf
  <2>4. StatusMap(n) = [StatusMap(m) EXCEPT ![i] = "busy"]
    BY <2>1, <2>3 DEF StatusMap
  <2>5. DigestMap(n) = DigestMap(m)
    BY <2>1, <2>3 DEF DigestMap
  <2>6. HeaderMap(n) = HeaderMap(m)
    BY <2>1, <2>3 DEF HeaderMap
  <2>7. Serves(m, n)
    BY <2>3, <2>4, <2>5, <2>6 DEF Serves
  <2> QED
    BY <2>7 DEF m
<1> QED
  BY <1>1, <1>2, <1>3

\* The done bit finishes the job: every word of the hash is in its place.
LEMMA DoneServes ==
    ASSUME TrackData, CInv, NEW i \in Accelerator, NEW n,
           acc[i].curr_state = "WRITE_DONE_BIT", n[ACB(i)] = <<"status", 2>>,
           \A b \in Addresses : b # ACB(i) => n[b] = data_mem[b]
    PROVE  \/ Serves(data_mem, n)
           \/ \A b \in Addresses : n[b] = data_mem[b]
<1> DEFINE m == data_mem
           D == HeaderHash(HeaderOf(m, i))
<1>1. m[ACB(i)] \in {<<"status", 5>>, <<"status", 2>>}
  BY DEF CInv, InvStatus, StatusIn, Out!Status, Out!Done, Out!Busy
<1>2. CASE m[ACB(i)] = <<"status", 2>>
  BY <1>2
<1>3. CASE m[ACB(i)] = <<"status", 5>>
  <2>1. \A k \in 0 .. HashWriteCycle - 1 : m[HASH(i, k)] = <<"word", k, D>>
    <3>1. D = Job(i)!Expected
      BY DEF HeaderHash, HeaderOf, Job!Expected, Job!DoubleHash, Job!Digest, Job!Padded,
         Job!Value, Out!DoubleHash, Out!Digest, Out!Padded, Out!Value
    <3>2. \A k \in 0 .. HashWriteCycle - 1 :
              <<k, Job(i)!Word(D, k)>> \in {<<j, m[HASH(i, j)]>> : j \in 0 .. HashWriteCycle - 1}
      BY <3>1 DEF CInv, InvJobs, Job!AInv, Job!Acknowledged, Job!Words, Job!Word, Job!Value
    <3> HIDE DEF D
    <3>3. \A k \in 0 .. HashWriteCycle - 1 : m[HASH(i, k)] = Job(i)!Word(D, k)
      BY <3>2
    <3> QED
      BY <3>3 DEF Job!Word, Job!Value
  <2> HIDE DEF m, D
  <2>2. ASSUME NEW j \in Accelerator, j # i
        PROVE  /\ StatusOf(n, j) = StatusOf(m, j) /\ HeaderOf(n, j) = HeaderOf(m, j)
               /\ DigestOf(n, j) = DigestOf(m, j)
    <3>1. SameBlock(m, n, j)
      BY <2>2, InAddresses, AddressesDiffer DEF SameBlock, m
    <3> QED
      BY <3>1, SameBlockSame
  <2>3. /\ n[HCB(i, 1)] = m[HCB(i, 1)] /\ n[HCB(i, 2)] = m[HCB(i, 2)]
        /\ \A k \in 0 .. HashWriteCycle - 1 : n[HASH(i, k)] = m[HASH(i, k)]
    BY InAddresses, AddressesDiffer DEF m
  <2>4. DigestOf(n, i) = D
    <3>1. 0 \in 0 .. HashWriteCycle - 1
      BY AcceleratorsAssumption
    <3>2. n[HASH(i, 0)] = <<"word", 0, D>>
      BY <2>1, <2>3, <3>1
    <3> QED
      BY <2>1, <2>3, <3>2 DEF DigestOf
  <2>5. /\ StatusOf(m, i) = "busy" /\ StatusOf(n, i) = "done"
        /\ HeaderOf(n, i) = HeaderOf(m, i)
    BY <1>3, <2>3 DEF StatusOf, HeaderOf
  <2>6. StatusMap(n) = [StatusMap(m) EXCEPT ![i] = "done"]
    BY <2>2, <2>5 DEF StatusMap
  <2>7. DigestMap(n) = [DigestMap(m) EXCEPT ![i] = D]
    BY <2>2, <2>4 DEF DigestMap
  <2>8. HeaderMap(n) = HeaderMap(m)
    BY <2>2, <2>5 DEF HeaderMap
  <2>9. Serves(m, n)
    BY <2>5, <2>6, <2>7, <2>8 DEF Serves, D
  <2> QED
    BY <2>9 DEF m
<1> QED
  BY <1>1, <1>2, <1>3

\* A word of the hash is written while the block is busy, and nobody reads it.
LEMMA WordServes ==
    ASSUME CInv, NEW i \in Accelerator, NEW k \in 0 .. HashWriteCycle - 1, NEW n,
           acc[i].curr_state = "WRITE_H",
           \A b \in Addresses : b # HASH(i, k) => n[b] = data_mem[b]
    PROVE  /\ StatusMap(n) = StatusMap(data_mem) /\ HeaderMap(n) = HeaderMap(data_mem)
           /\ DigestMap(n) = DigestMap(data_mem)
<1> DEFINE m == data_mem
<1>1. m[ACB(i)] = <<"status", 5>>
  BY DEF CInv, InvStatus, StatusIn, Out!Status, Out!Busy
<1> HIDE DEF m
<1>2. ASSUME NEW j \in Accelerator
      PROVE  /\ StatusOf(n, j) = StatusOf(m, j) /\ HeaderOf(n, j) = HeaderOf(m, j)
             /\ DigestOf(n, j) = DigestOf(m, j)
  <2>1. CASE j # i
    <3>1. SameBlock(m, n, j)
      BY <2>1, InAddresses, AddressesDiffer DEF SameBlock, m
    <3> QED
      BY <3>1, SameBlockSame
  <2>2. CASE j = i
    <3>1. n[ACB(i)] = m[ACB(i)] /\ n[HCB(i, 1)] = m[HCB(i, 1)] /\ n[HCB(i, 2)] = m[HCB(i, 2)]
      BY InAddresses, AddressesDiffer DEF m
    <3> QED
      BY <1>1, <2>2, <3>1 DEF StatusOf, HeaderOf, DigestOf
  <2> QED
    BY <2>1, <2>2
<1>3. /\ StatusMap(n) = StatusMap(m) /\ HeaderMap(n) = HeaderMap(m)
      /\ DigestMap(n) = DigestMap(m)
  BY <1>2 DEF StatusMap, HeaderMap, DigestMap
<1> QED
  BY <1>3 DEF m

\* A rising edge is a step of the service, or leaves it as it is.
LEMMA ServiceStep ==
    ASSUME TrackData, CInv, ClockHardware
    PROVE  \/ Serves(data_mem, data_mem')
           \/ /\ StatusMap(data_mem') = StatusMap(data_mem)
              /\ HeaderMap(data_mem') = HeaderMap(data_mem)
              /\ DigestMap(data_mem') = DigestMap(data_mem)
<1>1. /\ DOMAIN data_mem = Addresses
      /\ \A a, v : a \in Addresses /\ Store(a, v) =>
            data_mem'[a] = v /\ \A b \in Addresses : b # a => data_mem'[b] = data_mem[b]
  BY DEF CInv, TypeOK, Store
<1>2. CASE \A b \in Addresses : data_mem'[b] = data_mem[b]
  <2>1. ASSUME NEW j \in Accelerator
        PROVE  /\ StatusOf(data_mem', j) = StatusOf(data_mem, j)
               /\ HeaderOf(data_mem', j) = HeaderOf(data_mem, j)
               /\ DigestOf(data_mem', j) = DigestOf(data_mem, j)
    <3>1. SameBlock(data_mem, data_mem', j)
      BY <1>2, InAddresses DEF SameBlock
    <3> QED
      BY <3>1, SameBlockSame
  <2> QED
    BY <2>1 DEF StatusMap, HeaderMap, DigestMap
<1>3. ASSUME NEW i \in Accelerator, cpu # NoOp, Submits(i), Store(ACB(i), Out(i)!Ready)
      PROVE  Serves(data_mem, data_mem')
  <2>1. Out(i)!Ready = <<"status", 1>>
    BY DEF Out!Ready, Out!Status
  <2> QED
    BY <1>1, <1>3, <2>1, InAddresses, SubmitServes
<1>4. ASSUME NEW i \in Accelerator, NEW h \in Headers, cpu # NoOp, Renews(i, h),
             Store(HCB(i, Part(NonceOffset)), Line(i, Part(NonceOffset), h))
      PROVE  Serves(data_mem, data_mem')
  <2>1. Part(NonceOffset) \in 1 .. 3
    BY AcceleratorsAssumption DEF Part
  <2> QED
    BY <1>1, <1>4, <2>1, InAddresses, RenewServes
<1>5. ASSUME NEW i \in arbiter_write_en,
             Store(At(i, Out(i)!mem_acc_write_addr), Out(i)!mem_acc_write_data)
      PROVE  \/ Serves(data_mem, data_mem')
             \/ \A b \in Addresses : data_mem'[b] = data_mem[b]
             \/ /\ StatusMap(data_mem') = StatusMap(data_mem)
                /\ HeaderMap(data_mem') = HeaderMap(data_mem)
                /\ DigestMap(data_mem') = DigestMap(data_mem)
  <2>1. i \in Accelerator
    BY WritesOf
  <2>2. /\ Out(i)!Busy = <<"status", 5>> /\ Out(i)!Done = <<"status", 2>>
        /\ acc[i].hash_word \in 0 .. HashWriteCycle - 1
    BY <2>1 DEF CInv, TypeOK, Out!RegsOK, Out!Words, Out!Busy, Out!Done, Out!Status
  <2>3. CASE acc[i].curr_state = "WRITE_BUSY_BIT"
    <3>1. data_mem'[ACB(i)] = <<"status", 5>> /\ \A b \in Addresses : b # ACB(i) => data_mem'[b] = data_mem[b]
      BY <1>1, <1>5, <2>1, <2>2, <2>3, WritesOf, InAddresses
    <3> QED
      BY <2>1, <2>3, <3>1, BusyServes
  <2>4. CASE acc[i].curr_state = "WRITE_H"
    <3>1. \A b \in Addresses : b # HASH(i, acc[i].hash_word) => data_mem'[b] = data_mem[b]
      BY <1>1, <1>5, <2>1, <2>2, <2>4, WritesOf, InAddresses
    <3> QED
      BY <2>1, <2>2, <2>4, <3>1, WordServes
  <2>5. CASE acc[i].curr_state = "WRITE_DONE_BIT"
    <3>1. data_mem'[ACB(i)] = <<"status", 2>> /\ \A b \in Addresses : b # ACB(i) => data_mem'[b] = data_mem[b]
      BY <1>1, <1>5, <2>1, <2>2, <2>5, WritesOf, InAddresses
    <3> QED
      BY <2>1, <2>5, <3>1, DoneServes
  <2> QED
    BY <2>3, <2>4, <2>5, WritesOf
<1> QED
  BY <1>2, <1>3, <1>4, <1>5, MemoryStep

\* The block implements the service for a careful program: a job that is
\* submitted turns busy and then done, once, and what is then in the block is
\* the double hash of the header that was there all along, whole.
THEOREM HashesAreServed ==
    ASSUME TrackData
    PROVE  CarefulSpec => Hashes!SafeService
<1>1. Init => Hashes!ServiceInit
  <2> SUFFICES ASSUME Init PROVE Hashes!ServiceInit
    OBVIOUS
  <2>1. PICK h \in Headers :
            data_mem = [a \in Addresses |-> CASE a[2] = "HCB" -> Line(a[1], a[3], h)
                                              [] a[2] = "ACB" -> Out(a[1])!Status(0)
                                              [] OTHER -> Out(a[1])!Zero]
    BY DEF Init
  <2>2. ASSUME NEW i \in Accelerator
        PROVE  /\ data_mem[ACB(i)] = <<"status", 0>>
               /\ data_mem[HCB(i, 1)] = Line(i, 1, h) /\ data_mem[HCB(i, 2)] = Line(i, 2, h)
    <3>1. ACB(i) \in Addresses /\ HCB(i, 1) \in Addresses /\ HCB(i, 2) \in Addresses
      BY InAddresses
    <3>2. /\ ACB(i)[2] = "ACB" /\ HCB(i, 1)[2] = "HCB" /\ HCB(i, 2)[2] = "HCB"
          /\ HCB(i, 1)[1] = i /\ HCB(i, 2)[1] = i /\ HCB(i, 1)[3] = 1 /\ HCB(i, 2)[3] = 2
      BY DEF ACB, HCB
    <3>3. data_mem[ACB(i)] = Out(ACB(i)[1])!Status(0)
      BY <2>1, <3>1, <3>2
    <3>4. data_mem[HCB(i, 1)] = Line(i, 1, h) /\ data_mem[HCB(i, 2)] = Line(i, 2, h)
      BY <2>1, <3>1, <3>2
    <3> QED
      BY <3>3, <3>4 DEF Out!Status
  <2>3. ASSUME NEW i \in Accelerator
        PROVE  /\ StatusName(data_mem[ACB(i)]) = "none" /\ data_mem[ACB(i)] # Out(i)!Done
               /\ <<data_mem[HCB(i, 1)], data_mem[HCB(i, 2)]>> \in HeaderLines
    <3>1. StatusName(data_mem[ACB(i)]) = "none" /\ data_mem[ACB(i)] # Out(i)!Done
      BY <2>2 DEF StatusName, Out!Status, Out!Ready, Out!Busy, Out!Done
    <3>2. <<data_mem[HCB(i, 1)], data_mem[HCB(i, 2)]>> = <<Line(i, 1, h), Line(i, 2, h)>>
      BY <2>2
    <3>3. <<Line(i, 1, h), Line(i, 2, h)>> \in HeaderLines
      BY DEF HeaderLines
    <3> QED
      BY <3>1, <3>2, <3>3
  <2> QED
    BY <2>3 DEF Hashes!ServiceInit
<1>2. CInv /\ [CarefulNext]_vars => [Hashes!ServiceNext]_(Hashes!svars)
  <2> SUFFICES ASSUME CInv, [CarefulNext]_vars
               PROVE  Hashes!ServiceNext \/ UNCHANGED Hashes!svars
    OBVIOUS
  <2>1. CASE ClockHardware
    BY <2>1, ServiceStep, ServiceIs
  <2>2. CASE UNCHANGED vars
    BY <2>2, ServiceIs DEF vars
  <2> QED
    BY <2>1, <2>2, EveryStepClocks DEF CarefulNext, Clock
<1> QED
  BY <1>1, <1>2, CarefulInvariant, PTL DEF CarefulSpec, Hashes!SafeService
=============================================================================
