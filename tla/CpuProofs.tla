------------------------------ MODULE CpuProofs ------------------------------
(***************************************************************************)
(* That the pipeline executes a program in its order, and that to a        *)
(* program that keeps the rules it is invisible: it implements Isa.  For   *)
(* every program, every length of words, any number of registers and any   *)
(* size of the memories, whatever the stalls are.                          *)
(*                                                                         *)
(* RunsInOrder is not inductive: IInv says what the stages between the     *)
(* fetch and EX hold.  For RunsInstructions DInv adds what the operands    *)
(* are that the instructions in ID and EX have read.                       *)
(***************************************************************************)
EXTENDS CpuPipeline, TLAPS

InvTypes == /\ instr_mem \in [Address -> Instructions]
            /\ state \in {"RUN", "WRT_HOST"}
            /\ pc_out \in Address
            /\ if_pc \in {None, pc_out}
            /\ ifid.pc \in Address \cup {None}
            /\ idex.pc \in Address \cup {None}

\* What is in a stage, instruction or bubble.
InvStages == /\ im_instr = IF if_pc = None THEN Nop ELSE instr_mem[if_pc]
             /\ ifid.instr = IF ifid.pc = None THEN Nop ELSE instr_mem[ifid.pc]
             /\ idex.instr = IF idex.pc = None THEN Nop ELSE instr_mem[idex.pc]

\* Consecutive stages hold consecutive instructions, and behind a jump is nothing
\* but the fetch.
InvOrder == /\ ifid.pc # None => if_pc = (ifid.pc + 1) % ProgramSize
            /\ idex.pc # None /\ ifid.pc # None =>
                   ifid.pc = (idex.pc + 1) % ProgramSize /\ ~jb(idex.instr)
            /\ idex.pc # None /\ ifid.pc = None => if_pc = (idex.pc + 1) % ProgramSize

\* The store the state machine waits for stays in EX.
InvStore == state = "WRT_HOST" => host_store

IInv == InvTypes /\ InvStages /\ InvOrder /\ InvStore

-----------------------------------------------------------------------------
\* Addresses wrap round.
LEMMA NextAddress ==
    ASSUME NEW n \in Nat
    PROVE  /\ n % ProgramSize \in Address
           /\ n % ProgramSize # None
BY CpuAssumption DEF Address

\* Before the first instruction is fetched and in a bubble there is nothing to
\* wait for.
LEMMA BubbleIsIdle == /\ ~jb(Nop) /\ ~datamem_write_en(Nop)
                      /\ Watched(Nop) = {}
BY DEF jb, datamem_write_en, Nop, Watched, WatchesRs, WatchesRsAndRt, WatchesRd

\* A jump that is taken is a jump, and its target is its immediate.
LEMMA TakenIsJump ==
    ASSUME IInv, pc_jb_taken
    PROVE  /\ jb(idex.instr) /\ idex.pc # None /\ ~host_store
           /\ alu_Out \in Nat
<1>1. /\ idex.instr.op \in {49, 51, 53, 55, 57, 59, 61, 63}
      /\ jb(idex.instr) /\ ~datamem_write_en(idex.instr)
  BY DEF pc_jb_taken, jb, datamem_write_en
<1>2. idex.pc # None
  BY <1>1, BubbleIsIdle DEF IInv, InvStages
<1>3. idex.instr \in Instructions
  BY <1>2 DEF IInv, InvStages, InvTypes
<1>4. idex.instr.imm \in Nat
  BY <1>3, CpuAssumption DEF Instructions, Word
<1>5. alu_Out = idex.instr.imm
  <2>1. /\ ~Bit(idex.instr.op, 7) /\ idex.instr.op \div 16 = 3
        /\ alu_imm_src(idex.instr)
    BY <1>1, SMT DEF Bit, alu_imm_src
  <2>2. \A op, a, b : ~Bit(op, 7) /\ op \div 16 = 3 => Out(op, a, b) = b
    BY DEF Out
  <2> QED
    BY <2>1, <2>2 DEF alu_Out
<1> QED
  BY <1>1, <1>2, <1>4, <1>5 DEF host_store

\* Where something has been fetched, fetching has begun.
LEMMA FetchBegun ==
    ASSUME IInv, ifid.pc # None \/ idex.pc # None
    PROVE  if_pc # None /\ if_pc = pc_out
<1>1. PICK n \in Address : if_pc = (n + 1) % ProgramSize
  BY DEF IInv, InvTypes, InvOrder
<1>2. n + 1 \in Nat
  BY CpuAssumption DEF Address
<1> QED
  BY <1>1, <1>2, NextAddress DEF IInv, InvTypes

\* From the first edge on the fetch shows an instruction.
LEMMA FetchHasBegun ==
    ASSUME IInv, NEW tx_done \in BOOLEAN, NEW a \in AccelAddress, Clock(tx_done, a)
    PROVE  if_pc' # None
<1>1. /\ if_pc' = pc_out' /\ pc_out \in Nat /\ pc_out # None
      /\ pc_out' \in {pc_out, (pc_out + 1) % ProgramSize,
                     alu_Out % ProgramSize, ((alu_Out % ProgramSize) + 1) % ProgramSize}
      /\ ~pc_jb_taken => pc_out' \in {pc_out, (pc_out + 1) % ProgramSize}
  BY CpuAssumption DEF Clock, Fetch, IInv, InvTypes, Address
<1>2. \A n \in Nat : n % ProgramSize \in Nat /\ n % ProgramSize # None
  <2>1. Address \subseteq Nat
    BY DEF Address
  <2> QED
    BY <2>1, NextAddress
<1>3. CASE pc_jb_taken
  BY <1>1, <1>2, <1>3, TakenIsJump
<1>4. CASE ~pc_jb_taken
  BY <1>1, <1>2, <1>4
<1> QED
  BY <1>3, <1>4

-----------------------------------------------------------------------------
\* At reset the stages hold bubbles.
LEMMA InitIInv == Init => IInv
<1> SUFFICES ASSUME Init PROVE IInv
  OBVIOUS
<1>1. 0 \in Address /\ instr_mem \in [Address -> Instructions]
  BY CpuAssumption DEF Init, Address
<1> QED
  BY <1>1 DEF Init, IInv, InvTypes, InvStages, InvOrder, InvStore, Bubble

\* An edge at which the pipeline is held: nothing but the outputs of the memories
\* and of the register file moves.
LEMMA HeldStep ==
    ASSUME IInv, NEW tx_done \in BOOLEAN, NEW a \in AccelAddress, Clock(tx_done, a),
           host_stall(tx_done)
    PROVE  /\ UNCHANGED <<instr_mem, ifid, idex, pc_out, if_pc>>
           /\ state' = "WRT_HOST" /\ host_store /\ idex.pc # None
           /\ IInv'
<1>1. host_store /\ idex.pc # None
  <2>1. host_store
    BY DEF host_stall, IInv, InvStore, InvTypes
  <2> QED
    BY <2>1, BubbleIsIdle DEF host_store, IInv, InvStages
<1>2. state' = "WRT_HOST"
  BY <1>1 DEF Clock, host_stall, NextState, IInv, InvTypes
<1>3. ~pc_jb_taken
  BY <1>1, TakenIsJump
<1>4. if_pc = pc_out
  BY <1>1, FetchBegun
<1>5. /\ UNCHANGED <<instr_mem, ifid, idex, pc_out, if_pc>>
      /\ im_instr' = instr_mem[pc_out]
  BY <1>3, <1>4 DEF Clock, Fetch
<1>6. host_store'
  BY <1>1, <1>5 DEF host_store, alu_Out
<1>7. InvTypes' /\ InvStages'
  BY <1>1, <1>2, <1>4, <1>5, FetchBegun DEF IInv, InvTypes, InvStages
<1>8. InvOrder' /\ InvStore'
  BY <1>5, <1>6 DEF IInv, InvOrder, InvStore
<1> QED
  BY <1>1, <1>2, <1>5, <1>7, <1>8 DEF IInv

\* An edge at which the pipeline moves.
LEMMA MovingStep ==
    ASSUME IInv, NEW tx_done \in BOOLEAN, NEW a \in AccelAddress, Clock(tx_done, a),
           ~host_stall(tx_done)
    PROVE  /\ state' = "RUN"
           /\ instr_mem' = instr_mem
           /\ idex'.pc = ifid.pc
           /\ jb_stall \/ rw_stall =>
                  /\ ifid'.pc = None
                  /\ if_pc' = IF pc_jb_taken THEN alu_Out % ProgramSize ELSE if_pc
                  /\ if_pc' # None
           /\ ~(jb_stall \/ rw_stall) =>
                  /\ ifid'.pc = if_pc
                  /\ if_pc' = (pc_out + 1) % ProgramSize
                  /\ ~pc_jb_taken
           /\ IInv'
<1> DEFINE stall == jb_stall \/ rw_stall
<1>1. state' = "RUN" /\ instr_mem' = instr_mem
  BY DEF Clock, host_stall, NextState, IInv, InvTypes
<1>2. /\ idex'.pc = ifid.pc /\ idex'.instr = ifid.instr
      /\ ifid'.pc = IF stall THEN None ELSE if_pc
      /\ ifid'.instr = IF stall THEN Nop ELSE im_instr
  BY DEF Clock, Advance
<1>3. pc_jb_taken => jb_stall
  BY TakenIsJump DEF jb_stall
<1>4. ASSUME stall PROVE if_pc = pc_out
  <2>1. SUFFICES ASSUME if_pc = None PROVE FALSE
    BY DEF IInv, InvTypes
  <2>2. ifid.pc = None /\ idex.pc = None
    BY <2>1, FetchBegun
  <2>3. ~jb_stall /\ ~rw_stall
    BY <2>1, <2>2, BubbleIsIdle DEF IInv, InvStages, jb_stall, rw_stall
  <2> QED
    BY <1>4, <2>3
<1>5. /\ pc_out' \in Address /\ pc_out' # None
      /\ if_pc' = pc_out' /\ im_instr' = instr_mem[pc_out']
      /\ pc_out' = IF stall THEN IF pc_jb_taken THEN alu_Out % ProgramSize ELSE pc_out
                   ELSE (pc_out + 1) % ProgramSize
  <2>1. /\ if_pc' = pc_out' /\ im_instr' = instr_mem[pc_out']
        /\ pc_out' = IF stall THEN IF pc_jb_taken THEN alu_Out % ProgramSize ELSE pc_out
                     ELSE (pc_out + 1) % ProgramSize
    BY <1>3 DEF Clock, Fetch
  <2>2. pc_out \in Nat /\ pc_out \in Address /\ pc_out # None
    BY CpuAssumption DEF IInv, InvTypes, Address
  <2> QED
    BY <2>1, <2>2, TakenIsJump, NextAddress
<1>6. InvTypes'
  BY <1>1, <1>2, <1>5 DEF IInv, InvTypes
<1>7. InvStages'
  BY <1>1, <1>2, <1>5 DEF IInv, InvStages
<1>8. InvOrder'
  <2>1. CASE stall
    <3>1. ifid'.pc = None
      BY <1>2, <2>1
    <3>2. ASSUME idex'.pc # None PROVE if_pc' = (idex'.pc + 1) % ProgramSize
      <4>1. ifid.pc # None /\ if_pc = (ifid.pc + 1) % ProgramSize
        BY <1>2, <3>2 DEF IInv, InvOrder
      <4>2. ~pc_jb_taken
        BY <4>1, TakenIsJump DEF IInv, InvOrder
      <4> QED
        BY <1>2, <1>4, <1>5, <2>1, <4>1, <4>2
    <3> QED
      BY <3>1, <3>2 DEF InvOrder
  <2>2. CASE ~stall
    <3>1. ifid'.pc = if_pc /\ if_pc' = (pc_out + 1) % ProgramSize
      BY <1>2, <1>5, <2>2
    <3>2. ifid'.pc # None => if_pc' = (ifid'.pc + 1) % ProgramSize
      BY <3>1 DEF IInv, InvTypes
    <3>3. ASSUME idex'.pc # None
          PROVE  /\ ifid'.pc # None
                 /\ ifid'.pc = (idex'.pc + 1) % ProgramSize
                 /\ ~jb(idex'.instr)
      <4>1. ifid.pc # None /\ if_pc = (ifid.pc + 1) % ProgramSize
        BY <1>2, <3>3 DEF IInv, InvOrder
      <4>2. if_pc # None
        BY <4>1, FetchBegun
      <4> QED
        BY <1>2, <2>2, <3>1, <4>1, <4>2 DEF jb_stall
    <3> QED
      BY <3>2, <3>3 DEF InvOrder
  <2> QED
    BY <2>1, <2>2
<1>9. InvStore'
  BY <1>1 DEF InvStore
<1> QED
  BY <1>1, <1>2, <1>3, <1>4, <1>5, <1>6, <1>7, <1>8, <1>9 DEF IInv

\* No step breaks the invariant.
LEMMA StepIInv == IInv /\ [Next]_vars => IInv'
<1> SUFFICES ASSUME IInv, [Next]_vars PROVE IInv'
  OBVIOUS
<1>1. CASE Next
  BY <1>1, HeldStep, MovingStep DEF Next
<1>2. CASE UNCHANGED vars
  <2>1. UNCHANGED <<alu_Out, host_store>>
    BY <1>2 DEF vars, alu_Out, host_store
  <2> QED
    BY <1>2, <2>1 DEF vars, IInv, InvTypes, InvStages, InvOrder, InvStore
<1> QED
  BY <1>1, <1>2

\* At every step IInv holds.
THEOREM StagesAreRight == Spec => []IInv
BY InitIInv, StepIInv, PTL DEF Spec

-----------------------------------------------------------------------------
\* What a cycle does to the instruction that is next.
OneAtATime == NextToExecute' = IF ~InEx THEN NextToExecute
                               ELSE IF pc_jb_taken THEN alu_Out % ProgramSize
                               ELSE (idex.pc + 1) % ProgramSize

\* A cycle in which the pipeline is held executes a store to the host, the first
\* of them, or nothing.
LEMMA HeldInOrder ==
    ASSUME IInv, NEW tx_done \in BOOLEAN, NEW a \in AccelAddress, Clock(tx_done, a),
           host_stall(tx_done)
    PROVE  OneAtATime
<1>1. /\ UNCHANGED <<instr_mem, ifid, idex, pc_out, if_pc>>
      /\ state' = "WRT_HOST" /\ host_store /\ idex.pc # None
  BY HeldStep
<1>2. if_pc # None /\ ~pc_jb_taken
  BY <1>1, FetchBegun, TakenIsJump
<1>3. NextToExecute' = IF ifid.pc # None THEN ifid.pc ELSE if_pc
  BY <1>1, <1>2 DEF NextToExecute, InEx
<1> QED
  BY <1>1, <1>2, <1>3 DEF OneAtATime, NextToExecute, InEx, IInv, InvOrder

\* A cycle in which the pipeline moves.
LEMMA MovingInOrder ==
    ASSUME IInv, NEW tx_done \in BOOLEAN, NEW a \in AccelAddress, Clock(tx_done, a),
           ~host_stall(tx_done)
    PROVE  OneAtATime
<1> DEFINE stall == jb_stall \/ rw_stall
<1>1. /\ state' = "RUN" /\ idex'.pc = ifid.pc
      /\ stall => /\ ifid'.pc = None
                  /\ if_pc' = IF pc_jb_taken THEN alu_Out % ProgramSize ELSE if_pc
                  /\ if_pc' # None
      /\ ~stall => /\ ifid'.pc = if_pc
                   /\ if_pc' = (pc_out + 1) % ProgramSize
                   /\ ~pc_jb_taken
  BY MovingStep
<1>2. if_pc' # None
  <2>1. pc_out + 1 \in Nat
    BY CpuAssumption DEF IInv, InvTypes, Address
  <2>2. (pc_out + 1) % ProgramSize # None
    BY <2>1, NextAddress
  <2> QED
    BY <1>1, <2>2
<1>3. NextToExecute' = IF ifid.pc # None THEN ifid.pc
                       ELSE IF ~stall /\ if_pc # None THEN if_pc ELSE if_pc'
  BY <1>1, <1>2 DEF NextToExecute, InEx
<1>4. CASE InEx
  <2>1. CASE ifid.pc # None
    BY <1>3, <1>4, <2>1, TakenIsJump DEF OneAtATime, InEx, IInv, InvOrder
  <2>2. CASE ifid.pc = None
    BY <1>1, <1>3, <1>4, <2>2, FetchBegun DEF OneAtATime, InEx, IInv, InvOrder
  <2> QED
    BY <2>1, <2>2
<1>5. CASE ~InEx
  <2>1. CASE idex.pc = None
    <3>1. ~pc_jb_taken
      BY <2>1, TakenIsJump
    <3> QED
      BY <1>1, <1>3, <1>5, <2>1, <3>1 DEF OneAtATime, NextToExecute, InEx, IInv, InvTypes
  <2>2. CASE idex.pc # None
    <3>1. host_store /\ ~pc_jb_taken /\ if_pc # None
      BY <1>5, <2>2, FetchBegun, TakenIsJump DEF InEx, IInv, InvTypes, InvStore
    <3> QED
      BY <1>1, <1>3, <1>5, <2>2, <3>1 DEF OneAtATime, NextToExecute, InEx
  <2> QED
    BY <2>1, <2>2
<1> QED
  BY <1>4, <1>5

\* The pipeline executes every program in its order, whatever stalls meet.
THEOREM RunsInOrderAlways == Spec => RunsInOrder
<1>1. IInv => (idex.pc # None => idex.instr = instr_mem[idex.pc])
  BY DEF IInv, InvStages
<1>2. IInv /\ [Next]_vars => [OneAtATime]_vars
  BY HeldInOrder, MovingInOrder DEF Next
<1> QED
  BY <1>1, <1>2, StagesAreRight, PTL DEF Spec, RunsInOrder, OneAtATime

-----------------------------------------------------------------------------
(* An opcode and its mnemonic. *)

\* Every instruction has an opcode of its own.
LEMMA NameOf == \A m \in DOMAIN M!Opcodes : /\ M!Opcodes[m] \in DOMAIN Mnemonic
                                            /\ Mnemonic[M!Opcodes[m]] = m
<1>1. \A m, n \in DOMAIN M!Opcodes : M!Opcodes[m] = M!Opcodes[n] => m = n
  BY DEF M!Opcodes
<1> QED
  BY <1>1, Zenon DEF Mnemonic

\* i is the instruction that is written m.
Calls(i, m) == m \in DOMAIN M!Opcodes /\ i.op = M!Opcodes[m]

\* An instruction is called by the mnemonic of its opcode, and has one or is a NOP.
LEMMA NameOfInstruction ==
    ASSUME NEW i \in Instructions, i.op \in {0} \cup DOMAIN Mnemonic
    PROVE  /\ Named(i) = [i EXCEPT !.op = Named(i).op]
           /\ \/ i.op = 0 /\ Named(i).op = "NOP"
              \/ Calls(i, Named(i).op)
<1>1. 0 \notin DOMAIN Mnemonic
  <2>1. \A m \in DOMAIN M!Opcodes : M!Opcodes[m] # 0
    BY DEF M!Opcodes
  <2> QED
    BY <2>1 DEF Mnemonic
<1>2. Named(i) = [i EXCEPT !.op = Named(i).op]
  BY DEF Named, Instructions
<1>3. Named(i).op = IF i.op \in DOMAIN Mnemonic THEN Mnemonic[i.op] ELSE "NOP"
  BY DEF Named, Instructions
<1>4. ASSUME i.op \in DOMAIN Mnemonic PROVE Calls(i, Named(i).op)
  <2>1. PICK m \in DOMAIN M!Opcodes : i.op = M!Opcodes[m]
    BY <1>4 DEF Mnemonic
  <2> QED
    BY <1>3, <1>4, <2>1, NameOf DEF Calls
<1> QED
  BY <1>1, <1>2, <1>3, <1>4

-----------------------------------------------------------------------------
(* The operations of the ALU, instruction by instruction. *)

Ops == {"ADD", "ADDI", "SUB", "SUBI", "MULTL", "MULTLI", "MULTH", "MULTHI",
        "LS", "LSI", "RS", "RSI", "ROR", "RORI"}

\* The bits of its opcode choose the operation an instruction is named for.
LEMMA OutIsResult ==
    ASSUME NEW m \in Ops, NEW a, NEW b
    PROVE  Out(M!Opcodes[m], a, b) = ISA!Result(m, a, b)
<1> USE DEF Out, ISA!Result, Bit, ISA!Wrap, Modulus, M!Opcodes
<1>1. CASE m \in {"ADD", "ADDI"}
  BY <1>1, SMT
<1>2. CASE m \in {"SUB", "SUBI"}
  BY <1>2, SMT
<1>3. CASE m \in {"MULTL", "MULTLI"}
  BY <1>3, SMT
<1>4. CASE m \in {"MULTH", "MULTHI"}
  BY <1>4, SMT
<1>5. CASE m \in {"LS", "LSI"}
  BY <1>5, SMT
<1>6. CASE m \in {"RS", "RSI"}
  BY <1>6, SMT
<1>7. CASE m \in {"ROR", "RORI"}
  BY <1>7, SMT DEF rotateOut, ISA!Rotate
<1> QED
  BY <1>1, <1>2, <1>3, <1>4, <1>5, <1>6, <1>7 DEF Ops

\* What the control unit makes of an arithmetic or shift instruction.
LEMMA ControlOfOps ==
    ASSUME NEW i, NEW m \in Ops, Calls(i, m)
    PROVE  /\ rf_write_en(i) /\ ~datamem_read_en(i) /\ ~datamem_write_en(i) /\ ~jb(i)
           /\ i.op \notin {49, 51, 53, 55, 57, 59, 61, 63}
           /\ alu_imm_src(i) <=> m \in ISA!Immediate
           /\ flags_en(i) <=> m \in ISA!Arithmetic
           /\ i.rs \in Uses(i)
           /\ m \notin ISA!Immediate => i.rt \in Uses(i)
BY SMT DEF Ops, Calls, M!Opcodes, rf_write_en, datamem_read_en, datamem_write_en, jb, alu_imm_src,
      Bit, ISA!Immediate, ISA!Arithmetic, flags_en, Uses

Jumping == {"BEQ", "BNEQ", "BLTZ", "BGTZ", "BLEZ", "BGEZ", "JMP", "JMPI"}

\* A jump: it is taken when the flags say so, to its immediate.
LEMMA ControlOfJumps ==
    ASSUME NEW i, NEW m \in Jumping, Calls(i, m)
    PROVE  /\ ~rf_write_en(i) /\ ~datamem_read_en(i) /\ ~datamem_write_en(i)
           /\ ~flags_en(i) /\ alu_imm_src(i)
           /\ \A a, b : Out(i.op, a, b) = b
BY SMT DEF Jumping, Calls, M!Opcodes, rf_write_en, datamem_read_en, datamem_write_en, alu_imm_src,
      Bit, flags_en, Out

\* The flags decide as the sign of the last result does.
LEMMA TakenWhenItJumps ==
    ASSUME NEW m \in Jumping, Calls(idex.instr, m), ZF \in BOOLEAN, NF \in BOOLEAN
    PROVE  pc_jb_taken <=> ISA!Jumps(m)
<1>1. idex.instr.op = M!Opcodes[m]
  BY DEF Calls
<1>2. CASE m = "BEQ"
  BY <1>1, <1>2 DEF M!Opcodes, pc_jb_taken, ISA!Jumps
<1>3. CASE m = "BNEQ"
  BY <1>1, <1>3 DEF M!Opcodes, pc_jb_taken, ISA!Jumps
<1>4. CASE m = "BLTZ"
  BY <1>1, <1>4 DEF M!Opcodes, pc_jb_taken, ISA!Jumps
<1>5. CASE m = "BGTZ"
  BY <1>1, <1>5 DEF M!Opcodes, pc_jb_taken, ISA!Jumps
<1>6. CASE m = "BLEZ"
  BY <1>1, <1>6 DEF M!Opcodes, pc_jb_taken, ISA!Jumps
<1>7. CASE m = "BGEZ"
  BY <1>1, <1>7 DEF M!Opcodes, pc_jb_taken, ISA!Jumps
<1>8. CASE m \in {"JMP", "JMPI"}
  <2>1. idex.instr.op \in {61, 63}
    BY <1>1, <1>8 DEF M!Opcodes
  <2>2. pc_jb_taken
    BY <2>1 DEF pc_jb_taken
  <2>3. ISA!Jumps(m)
    BY <1>8 DEF ISA!Jumps
  <2> QED
    BY <2>2, <2>3
<1> QED
  BY <1>2, <1>3, <1>4, <1>5, <1>6, <1>7, <1>8 DEF Jumping

\* Loads and stores, whose address is the immediate or the sum.
LEMMA ControlOfLoads ==
    ASSUME NEW i, NEW m \in {"LDI", "LDB"}, Calls(i, m)
    PROVE  /\ rf_write_en(i) /\ datamem_read_en(i) /\ ~datamem_write_en(i)
           /\ ~flags_en(i) /\ alu_imm_src(i)
           /\ i.op \notin {49, 51, 53, 55, 57, 59, 61, 63}
           /\ m = "LDB" => i.rs \in Uses(i)
           /\ \A a, b : Out(i.op, a, b) = IF m = "LDI" THEN b ELSE ISA!Wrap(a + b)
BY SMT DEF Calls, M!Opcodes, rf_write_en, datamem_read_en, datamem_write_en, alu_imm_src,
      Bit, flags_en, Out, Uses, ISA!Wrap, Modulus

\* A store.
LEMMA ControlOfStores ==
    ASSUME NEW i, NEW m \in {"STI", "STB"}, Calls(i, m)
    PROVE  /\ ~rf_write_en(i) /\ ~datamem_read_en(i) /\ datamem_write_en(i)
           /\ ~flags_en(i) /\ alu_imm_src(i)
           /\ i.op \notin {49, 51, 53, 55, 57, 59, 61, 63}
           /\ i.rd \in Uses(i)
           /\ m = "STB" => i.rs \in Uses(i)
           /\ \A a, b : Out(i.op, a, b) = IF m = "STI" THEN b ELSE ISA!Wrap(a + b)
BY SMT DEF Calls, M!Opcodes, rf_write_en, datamem_read_en, datamem_write_en, alu_imm_src,
      Bit, flags_en, Out, Uses, ISA!Wrap, Modulus

\* The rest does nothing.
LEMMA ControlOfNothing ==
    ASSUME NEW i, i.op = 0 \/ (\E m \in {"PUSH", "POP"} : Calls(i, m))
    PROVE  /\ ~rf_write_en(i) /\ ~datamem_read_en(i) /\ ~datamem_write_en(i)
           /\ ~flags_en(i)
           /\ i.op \notin {49, 51, 53, 55, 57, 59, 61, 63}
BY SMT DEF Calls, M!Opcodes, rf_write_en, datamem_read_en, datamem_write_en, flags_en

-----------------------------------------------------------------------------
(* The operands of the instructions between the register file and EX.  Of a   *)
(* program that has kept the rules every register an instruction uses is no    *)
(* longer on its way when the instruction reads it.                            *)

Regs == 0 .. NumRegs - 1

\* The register that the second port of the register file reads.
Second(i) == IF datamem_write_en(i) THEN i.rd ELSE i.rt

\* With the values a and b instruction i has what it uses, and nothing in the
\* stages before it is about to change that.
HasOperands(i, stages, a, b) ==
    \A s \in Uses(i) : /\ s \notin Written(stages)
                       /\ s = i.rs => a = regs[s]
                       /\ s = Second(i) => b = regs[s]

InvFunctions == /\ instr_mem \in Programs
                /\ regs = [r \in Regs |-> regs[r]]
                /\ ZF \in BOOLEAN /\ NF \in BOOLEAN

\* The store the state machine waits for has been made, and is made again.
InvStored == state = "WRT_HOST" => [data_mem EXCEPT ![alu_Out] = idex.reg2] = data_mem

InvOperands ==
    ~careless =>
        /\ HasOperands(ifid.instr, {idex.instr, exmem.instr, memwb.instr}, reg1, reg2)
        /\ HasOperands(idex.instr, {exmem.instr, memwb.instr}, idex.reg1, idex.reg2)

DInv == IInv /\ InvFunctions /\ InvStored /\ InvOperands

\* Written, element by element.
LEMMA InWritten ==
    ASSUME NEW stages, NEW s
    PROVE  s \in Written(stages) <=> \E j \in stages : rf_write_en(j) /\ s = j.rd
BY DEF Written

\* What is in a stage is an instruction.
LEMMA StagesHoldInstructions ==
    ASSUME IInv
    PROVE  /\ ifid.instr \in Instructions /\ idex.instr \in Instructions
           /\ im_instr \in Instructions /\ Nop \in Instructions
<1>1. Nop \in Instructions
  BY CpuAssumption DEF Nop, Instructions, Word
<1> QED
  BY <1>1 DEF IInv, InvTypes, InvStages

\* An instruction uses registers of the register file.
LEMMA UsesRegisters == \A i \in Instructions : Uses(i) \subseteq Regs
<1>1. \A i \in Instructions : i.rs \in Regs /\ i.rt \in Regs /\ i.rd \in Regs
  BY DEF Instructions, Regs
<1> QED
  BY <1>1 DEF Uses

\* A bubble uses none.
LEMMA NopUsesNothing == Uses(Nop) = {}
BY DEF Uses, Nop

\* An edge of the register file.
LEMMA ReadsWhatIsWritten ==
    ASSUME regs = [r \in Regs |-> regs[r]], NEW i, RegisterFile(i)
    PROVE  /\ regs' = [r \in Regs |-> regs'[r]]
           /\ \A s \in Regs : regs'[s] = ReadReg(s)
           /\ \A s \in Regs : s \notin Written({memwb.instr}) => regs'[s] = regs[s]
           /\ i.rs \in Regs => reg1' = regs'[i.rs]
           /\ Second(i) \in Regs => reg2' = regs'[Second(i)]
<1>1. CASE rf_write_en(memwb.instr)
  <2>1. regs' = [regs EXCEPT ![memwb.instr.rd] = rf_wrt_data]
    BY <1>1 DEF RegisterFile
  <2>2. regs' = [r \in Regs |-> IF r = memwb.instr.rd THEN rf_wrt_data ELSE regs[r]]
    BY <2>1
  <2>3. \A s \in Regs : regs'[s] = ReadReg(s)
    BY <1>1, <2>2 DEF ReadReg
  <2> QED
    BY <1>1, <2>2, <2>3, InWritten DEF RegisterFile, Second, ReadReg
<1>2. CASE ~rf_write_en(memwb.instr)
  BY <1>2, InWritten DEF RegisterFile, Second, ReadReg
<1> QED
  BY <1>1, <1>2

\* As the loading leaves it.
LEMMA InitDInv == Init => DInv
<1> SUFFICES ASSUME Init PROVE DInv
  OBVIOUS
<1>1. InvFunctions /\ InvStored
  BY DEF Init, InvFunctions, InvStored, Regs
<1>2. InvOperands
  BY NopUsesNothing DEF Init, InvOperands, HasOperands, Bubble
<1> QED
  BY <1>1, <1>2, InitIInv DEF DInv

\* What does not depend on the rules.
LEMMA FunctionsStep ==
    ASSUME DInv, NEW tx_done \in BOOLEAN, NEW a \in AccelAddress, Clock(tx_done, a)
    PROVE  IInv' /\ InvFunctions' /\ InvStored'
<1>1. IInv'
  BY HeldStep, MovingStep DEF DInv
<1>2. InvFunctions'
  <2>1. regs' = [r \in Regs |-> regs'[r]]
    BY ReadsWhatIsWritten DEF DInv, InvFunctions, Clock
  <2>2. ZF' \in BOOLEAN /\ NF' \in BOOLEAN
    BY DEF DInv, InvFunctions, Clock, Flags, Bit
  <2> QED
    BY <2>1, <2>2 DEF DInv, InvFunctions, Clock
<1>3. InvStored'
  <2>1. CASE host_stall(tx_done)
    <3>1. UNCHANGED idex /\ host_store
      BY <2>1, HeldStep DEF DInv
    <3>2. alu_Out' = alu_Out
      BY <3>1 DEF alu_Out
    <3>3. data_mem' = [data_mem EXCEPT ![alu_Out] = idex.reg2]
      BY <3>1 DEF Clock, DataMemory, host_store
    <3> QED
      BY <3>1, <3>2, <3>3 DEF InvStored
  <2>2. CASE ~host_stall(tx_done)
    BY <2>2, MovingStep DEF DInv, InvStored
  <2> QED
    BY <2>1, <2>2
<1> QED
  BY <1>1, <1>2, <1>3

\* A program that has kept the rules up to now keeps its operands.
LEMMA OperandsStep ==
    ASSUME DInv, NEW tx_done \in BOOLEAN, NEW a \in AccelAddress, Clock(tx_done, a)
    PROVE  InvOperands'
<1> SUFFICES ASSUME ~careless'
             PROVE  /\ HasOperands(ifid.instr, {idex.instr, exmem.instr, memwb.instr},
                                   reg1, reg2)'
                    /\ HasOperands(idex.instr, {exmem.instr, memwb.instr},
                                   idex.reg1, idex.reg2)'
  BY DEF InvOperands
<1>1. RulesKept /\ ~careless
  BY DEF Clock
<1>2. /\ HasOperands(ifid.instr, {idex.instr, exmem.instr, memwb.instr}, reg1, reg2)
      /\ HasOperands(idex.instr, {exmem.instr, memwb.instr}, idex.reg1, idex.reg2)
  BY <1>1 DEF DInv, InvOperands
<1> DEFINE stall == jb_stall \/ rw_stall \/ host_stall(tx_done)
           i == IF stall THEN Nop ELSE im_instr
<1>3. RegisterFile(i)
  BY DEF Clock
<1>4. /\ \A s \in Regs : s \notin Written({memwb.instr}) => regs'[s] = regs[s]
      /\ i.rs \in Regs => reg1' = regs'[i.rs]
      /\ Second(i) \in Regs => reg2' = regs'[Second(i)]
  BY <1>3, ReadsWhatIsWritten DEF DInv, InvFunctions
<1>5. /\ i \in Instructions /\ Uses(i) \subseteq Regs
      /\ Uses(ifid.instr) \subseteq Regs /\ Uses(idex.instr) \subseteq Regs
  BY StagesHoldInstructions, UsesRegisters DEF DInv
<1>6. CASE host_stall(tx_done)
  <2>1. UNCHANGED <<ifid, idex, exmem, memwb>> /\ host_store
    BY <1>6, HeldStep DEF DInv, Clock
  <2>2. i = Nop /\ Uses(ifid.instr) \subseteq {0}
    BY <1>1, <1>6, <2>1 DEF RulesKept, NothingIsRead
  <2>3. 0 \in Regs /\ i.rs = 0 /\ Second(i) = 0
    BY <2>2, CpuAssumption, BubbleIsIdle DEF Regs, Nop, Second
  <2>4. \A s \in Uses(ifid.instr) : reg1' = regs'[s] /\ reg2' = regs'[s]
    BY <1>4, <2>2, <2>3
  <2>5. \A s \in Uses(idex.instr) : s \notin Written({memwb.instr}) /\ regs'[s] = regs[s]
    BY <1>2, <1>4, <1>5, InWritten DEF HasOperands
  <2> QED
    BY <1>2, <2>1, <2>4, <2>5 DEF HasOperands
<1>7. CASE ~host_stall(tx_done)
  <2>1. /\ ifid'.instr = i
        /\ idex'.instr = ifid.instr /\ idex'.reg1 = reg1 /\ idex'.reg2 = reg2
        /\ exmem'.instr = idex.instr /\ memwb'.instr = exmem.instr
    BY <1>7 DEF Clock, Advance
  <2>2. \A s \in Uses(i) : s \notin Written({ifid.instr, idex.instr, exmem.instr})
    <3>1. CASE stall
      BY <3>1, NopUsesNothing
    <3>2. CASE ~stall
      <4>1. \A s \in Watched(i) :
                s \notin Written({ifid.instr, idex.instr, exmem.instr, memwb.instr})
        BY <3>2 DEF rw_stall
      <4>2. \A s \in Uses(i) \ Watched(i) :
                s \notin Written({ifid.instr, idex.instr, exmem.instr})
        BY <1>1, <3>2 DEF RulesKept, UnwatchedIsOld
      <4> QED
        BY <4>1, <4>2, InWritten
    <3> QED
      BY <3>1, <3>2
  <2>3. HasOperands(ifid.instr, {idex.instr, exmem.instr, memwb.instr}, reg1, reg2)'
    BY <1>4, <1>5, <2>1, <2>2 DEF HasOperands, Second
  <2>4. \A s \in Uses(ifid.instr) : regs'[s] = regs[s] /\ s \notin Written({idex.instr, exmem.instr})
    BY <1>2, <1>4, <1>5, InWritten DEF HasOperands
  <2>5. HasOperands(idex.instr, {exmem.instr, memwb.instr}, idex.reg1, idex.reg2)'
    BY <1>2, <2>1, <2>4 DEF HasOperands, Second
  <2> QED
    BY <2>3, <2>5
<1> QED
  BY <1>6, <1>7

\* DInv is inductive.
LEMMA StepDInv == DInv /\ [Next]_vars => DInv'
<1> SUFFICES ASSUME DInv, [Next]_vars PROVE DInv'
  OBVIOUS
<1>1. CASE Next
  BY <1>1, FunctionsStep, OperandsStep DEF Next, DInv
<1>2. CASE UNCHANGED vars
  <2>1. IInv'
    BY <1>2, StepIInv DEF DInv
  <2>2. UNCHANGED alu_Out
    BY <1>2 DEF vars, alu_Out
  <2> QED
    BY <1>2, <2>1, <2>2 DEF vars, DInv, InvFunctions, InvStored, InvOperands, HasOperands
<1> QED
  BY <1>1, <1>2

\* At every step DInv holds: whatever a program that has kept the rules uses it has
\* read with the value that is in the register file when it executes.
THEOREM OperandsAreRight == Spec => []DInv
BY InitDInv, StepDInv, PTL DEF Spec

-----------------------------------------------------------------------------
(* The registers with what is on its way to them. *)

IsaRegs == [r \in Regs |-> NewestReg(r)]

\* An edge at which the pipeline moves: the instruction in EX has given its result.
LEMMA NewestMoves ==
    ASSUME DInv, NEW tx_done \in BOOLEAN, NEW a \in AccelAddress, Clock(tx_done, a),
           ~host_stall(tx_done)
    PROVE  IsaRegs' = IF rf_write_en(idex.instr)
                      THEN [IsaRegs EXCEPT ![idex.instr.rd] =
                                IF datamem_read_en(idex.instr) THEN data_mem[alu_Out]
                                ELSE alu_Out]
                      ELSE IsaRegs
<1>1. /\ exmem' = [instr |-> idex.instr, alu |-> alu_Out]
      /\ memwb' = [instr |-> exmem.instr, alu |-> exmem.alu, mem |-> rd_data]
      /\ datamem_read_en(idex.instr) => rd_data' = data_mem[alu_Out]
  BY DEF Clock, Advance, DataMemory
<1>2. /\ rf_wrt_data' = Result
      /\ Result' = IF datamem_read_en(idex.instr) THEN data_mem[alu_Out] ELSE alu_Out
  BY <1>1 DEF rf_wrt_data, Result
<1>3. \A r \in Regs : regs'[r] = IF r \in Written({memwb.instr}) THEN rf_wrt_data ELSE regs[r]
  BY ReadsWhatIsWritten, InWritten DEF DInv, InvFunctions, Clock, ReadReg
<1>4. \A r \in Regs : NewestReg(r)' = IF r \in Written({idex.instr}) THEN Result' ELSE NewestReg(r)
  BY <1>1, <1>2, <1>3 DEF NewestReg
<1>5. \A r : r \in Written({idex.instr}) <=> rf_write_en(idex.instr) /\ r = idex.instr.rd
  BY InWritten
<1> QED
  BY <1>2, <1>4, <1>5 DEF IsaRegs

\* An edge at which it is held: nothing is lost.
LEMMA NewestHeld ==
    ASSUME DInv, NEW tx_done \in BOOLEAN, NEW a \in AccelAddress, Clock(tx_done, a),
           host_stall(tx_done), RulesKept
    PROVE  IsaRegs' = IsaRegs
<1>1. UNCHANGED <<exmem, memwb>> /\ ~datamem_read_en(exmem.instr)
  BY HeldStep DEF DInv, Clock, RulesKept, NothingIsLoaded
<1>2. rf_wrt_data' = rf_wrt_data /\ Result' = Result
  BY <1>1 DEF rf_wrt_data, Result
<1>3. \A r \in Regs : regs'[r] = IF r \in Written({memwb.instr}) THEN rf_wrt_data ELSE regs[r]
  BY ReadsWhatIsWritten, InWritten DEF DInv, InvFunctions, Clock, ReadReg
<1>4. \A r \in Regs : NewestReg(r)' = NewestReg(r)
  BY <1>1, <1>2, <1>3 DEF NewestReg
<1> QED
  BY <1>4 DEF IsaRegs

\* The instruction in EX has the newest values.
LEMMA OperandsAreNewest ==
    ASSUME DInv, ~careless, NEW s \in Uses(idex.instr)
    PROVE  /\ s \in Regs
           /\ s = idex.instr.rs => idex.reg1 = IsaRegs[s]
           /\ s = Second(idex.instr) => idex.reg2 = IsaRegs[s]
<1>1. s \in Regs
  BY StagesHoldInstructions, UsesRegisters DEF DInv
<1>2. HasOperands(idex.instr, {exmem.instr, memwb.instr}, idex.reg1, idex.reg2)
  BY DEF DInv, InvOperands
<1>3. s \notin Written({exmem.instr}) /\ s \notin Written({memwb.instr})
  BY <1>2, InWritten DEF HasOperands
<1>4. IsaRegs[s] = regs[s]
  BY <1>1, <1>3 DEF IsaRegs, NewestReg
<1> QED
  BY <1>1, <1>2, <1>4 DEF HasOperands

-----------------------------------------------------------------------------
(* The pipeline implements Isa. *)

IsaSign == IF ZF THEN "zero" ELSE IF NF THEN "negative" ELSE "positive"
Named_im == [a \in 0 .. ProgramSize - 1 |-> Named(instr_mem[a])]

\* What a cycle that executes the instruction in EX does to the state of Isa.
LEMMA ExecutingCycle ==
    ASSUME DInv, NEW tx_done \in BOOLEAN, NEW a \in AccelAddress, Clock(tx_done, a),
           InEx, RulesKept
    PROVE  /\ NextToExecute = idex.pc
           /\ NextToExecute' = IF pc_jb_taken THEN alu_Out % ProgramSize
                               ELSE (idex.pc + 1) % ProgramSize
           /\ if_pc # None /\ if_pc' # None
           /\ IsaRegs' = IF rf_write_en(idex.instr)
                         THEN [IsaRegs EXCEPT ![idex.instr.rd] =
                                  IF idex.instr.rd = 0 THEN 0 ELSE Outcome]
                         ELSE IsaRegs
           /\ data_mem' = IF datamem_write_en(idex.instr)
                          THEN [data_mem EXCEPT ![alu_Out] = idex.reg2] ELSE data_mem
           /\ IsaSign' = IF flags_en(idex.instr) THEN ISA!SignOf(alu_Out) ELSE IsaSign
<1>1. OneAtATime
  BY HeldInOrder, MovingInOrder DEF DInv
<1>2. ASSUME host_stall(tx_done)
      PROVE  IsaRegs' = IsaRegs /\ ~rf_write_en(idex.instr)
  <2>1. host_store
    BY <1>2, HeldStep DEF DInv
  <2>2. ~rf_write_en(idex.instr)
    BY <2>1, SMT DEF host_store, datamem_write_en, rf_write_en, datamem_read_en
  <2> QED
    BY <1>2, <2>2, NewestHeld
<1>3. /\ NextToExecute = idex.pc
      /\ NextToExecute' = IF pc_jb_taken THEN alu_Out % ProgramSize
                          ELSE (idex.pc + 1) % ProgramSize
  BY <1>1 DEF OneAtATime, NextToExecute
<1>4. data_mem' = IF datamem_write_en(idex.instr)
                  THEN [data_mem EXCEPT ![alu_Out] = idex.reg2] ELSE data_mem
  BY DEF Clock, DataMemory
<1>5. IsaSign' = IF flags_en(idex.instr) THEN ISA!SignOf(alu_Out) ELSE IsaSign
  <2>1. CASE flags_en(idex.instr)
    <3>1. ZF' = (alu_Out = 0) /\ NF' = ((alu_Out \div 2 ^ (Width - 1)) % 2 = 1)
      BY <2>1 DEF Clock, Flags, Bit
    <3> QED
      BY <2>1, <3>1 DEF IsaSign, ISA!SignOf
  <2>2. CASE ~flags_en(idex.instr)
    BY <2>2 DEF Clock, Flags, IsaSign
  <2> QED
    BY <2>1, <2>2
<1>6. rf_write_en(idex.instr) /\ idex.instr.rd = 0 => Outcome = 0
  BY DEF RulesKept, ZeroStaysZero
<1>7. if_pc # None /\ if_pc' # None
  BY FetchBegun, FetchHasBegun DEF DInv, InEx
<1> QED
  BY <1>2, <1>3, <1>4, <1>5, <1>6, <1>7, NewestMoves DEF Outcome

\* A cycle that executes an instruction is a step of Isa.
LEMMA ExecutesTheInstruction ==
    ASSUME DInv, NEW tx_done \in BOOLEAN, NEW a \in AccelAddress, Clock(tx_done, a),
           InEx, ~careless'
    PROVE  ISA!Next
<1>1. RulesKept /\ ~careless
  BY DEF Clock
<1> DEFINE i == idex.instr
           n == Named(i)
<1>2. /\ i = instr_mem[idex.pc] /\ idex.pc \in 0 .. ProgramSize - 1
      /\ i \in Instructions /\ i.op \in {0} \cup DOMAIN Mnemonic
  BY OpcodesAssumption, StagesHoldInstructions
     DEF DInv, IInv, InvTypes, InvStages, InvFunctions, InEx, Address
<1>3. /\ n = [i EXCEPT !.op = n.op]
      /\ (i.op = 0 /\ n.op = "NOP") \/ Calls(i, n.op)
  BY <1>2, NameOfInstruction
<1>4. n.rd = i.rd /\ n.rs = i.rs /\ n.rt = i.rt /\ n.imm = i.imm
  BY <1>2, <1>3 DEF Instructions
<1>5. /\ NextToExecute = idex.pc
      /\ NextToExecute' = IF pc_jb_taken THEN alu_Out % ProgramSize
                          ELSE (idex.pc + 1) % ProgramSize
      /\ if_pc # None /\ if_pc' # None
      /\ IsaRegs' = IF rf_write_en(i)
                    THEN [IsaRegs EXCEPT ![i.rd] = IF i.rd = 0 THEN 0 ELSE Outcome]
                    ELSE IsaRegs
      /\ data_mem' = IF datamem_write_en(i)
                     THEN [data_mem EXCEPT ![alu_Out] = idex.reg2] ELSE data_mem
      /\ IsaSign' = IF flags_en(i) THEN ISA!SignOf(alu_Out) ELSE IsaSign
  BY <1>1, ExecutingCycle
<1>6. \A s \in Uses(i) : /\ s = i.rs => idex.reg1 = IsaRegs[s]
                         /\ s = Second(i) => idex.reg2 = IsaRegs[s]
  BY <1>1, OperandsAreNewest
<1>7. Named_im[idex.pc] = n /\ Named_im' = Named_im
  BY <1>2 DEF Named_im, Clock
<1>8. i.op \notin {49, 51, 53, 55, 57, 59, 61, 63} => ~pc_jb_taken
  BY DEF pc_jb_taken
<1> USE DEF Regs, IsaRegs, IsaSign
<1>9. CASE n.op \in Ops
  <2>1. /\ rf_write_en(i) /\ ~datamem_read_en(i) /\ ~datamem_write_en(i) /\ ~pc_jb_taken
        /\ alu_imm_src(i) <=> n.op \in ISA!Immediate
        /\ flags_en(i) <=> n.op \in ISA!Arithmetic
        /\ i.rs \in Uses(i)
        /\ n.op \notin ISA!Immediate => i.rt \in Uses(i)
    BY <1>3, <1>8, <1>9, ControlOfOps DEF Ops
  <2>2. /\ idex.reg1 = IsaRegs[i.rs]
        /\ n.op \notin ISA!Immediate => idex.reg2 = IsaRegs[i.rt]
    BY <1>6, <2>1 DEF Second
  <2>3. alu_Out = ISA!Result(n.op, IsaRegs[i.rs],
                             IF n.op \in ISA!Immediate THEN i.imm ELSE IsaRegs[i.rt])
    BY <1>3, <1>9, <2>1, <2>2, OutIsResult DEF alu_Out, Calls, Ops
  <2>4. n.op \in ISA!Arithmetic \cup ISA!Shift
    BY <1>9 DEF Ops, ISA!Arithmetic, ISA!Shift
  <2>5. ISA!Compute(n)
    BY <1>4, <1>5, <2>1, <2>3, <2>4 DEF ISA!Compute, ISA!Next_pc, ISA!SetReg, Outcome
  <2> QED
    BY <1>5, <1>7, <2>5 DEF ISA!Next, ISA!Execute, Named_im
<1>10. CASE n.op \in {"LDI", "LDB"}
  <2>1. /\ rf_write_en(i) /\ datamem_read_en(i) /\ ~datamem_write_en(i) /\ ~pc_jb_taken
        /\ ~flags_en(i) /\ alu_imm_src(i)
        /\ n.op = "LDB" => i.rs \in Uses(i)
        /\ \A x, y : Out(i.op, x, y) = IF n.op = "LDI" THEN y ELSE ISA!Wrap(x + y)
    BY <1>3, <1>8, <1>10, ControlOfLoads
  <2>2. alu_Out = ISA!Place(n)
    BY <1>4, <1>6, <1>10, <2>1 DEF alu_Out, ISA!Place
  <2>3. ISA!Load(n)
    BY <1>4, <1>5, <1>10, <2>1, <2>2 DEF ISA!Load, ISA!Next_pc, ISA!SetReg, Outcome
  <2> QED
    BY <1>5, <1>7, <2>3 DEF ISA!Next, ISA!Execute, Named_im
<1>11. CASE n.op \in {"STI", "STB"}
  <2>1. /\ ~rf_write_en(i) /\ ~datamem_read_en(i) /\ datamem_write_en(i) /\ ~pc_jb_taken
        /\ ~flags_en(i) /\ alu_imm_src(i)
        /\ i.rd \in Uses(i)
        /\ n.op = "STB" => i.rs \in Uses(i)
        /\ \A x, y : Out(i.op, x, y) = IF n.op = "STI" THEN y ELSE ISA!Wrap(x + y)
    BY <1>3, <1>8, <1>11, ControlOfStores
  <2>2. idex.reg2 = IsaRegs[i.rd] /\ (n.op = "STB" => idex.reg1 = IsaRegs[i.rs])
    BY <1>6, <2>1 DEF Second
  <2>3. alu_Out = ISA!Place(n)
    BY <1>4, <1>11, <2>1, <2>2 DEF alu_Out, ISA!Place
  <2>4. ISA!Store(n)
    BY <1>4, <1>5, <1>11, <2>1, <2>2, <2>3 DEF ISA!Store, ISA!Next_pc
  <2> QED
    BY <1>5, <1>7, <2>4 DEF ISA!Next, ISA!Execute, Named_im
<1>12. CASE n.op \in Jumping
  <2>1. /\ ~rf_write_en(i) /\ ~datamem_read_en(i) /\ ~datamem_write_en(i)
        /\ ~flags_en(i) /\ alu_imm_src(i)
        /\ \A x, y : Out(i.op, x, y) = y
    BY <1>3, <1>12, ControlOfJumps DEF Jumping
  <2>2. alu_Out = i.imm /\ (pc_jb_taken <=> ISA!Jumps(n.op))
    BY <1>3, <1>12, <2>1, TakenWhenItJumps DEF alu_Out, Jumping, DInv, InvFunctions
  <2>3. ISA!Branch(n)
    BY <1>4, <1>5, <1>12, <2>1, <2>2 DEF ISA!Branch, ISA!Next_pc, ISA!Jump, Jumping
  <2> QED
    BY <1>5, <1>7, <2>3 DEF ISA!Next, ISA!Execute, Named_im
<1>13. CASE n.op \in {"NOP", "PUSH", "POP"}
  <2>1. /\ ~rf_write_en(i) /\ ~datamem_read_en(i) /\ ~datamem_write_en(i) /\ ~pc_jb_taken
        /\ ~flags_en(i)
    BY <1>3, <1>8, <1>13, ControlOfNothing DEF Calls, M!Opcodes
  <2>2. ISA!Nothing(n)
    BY <1>5, <1>13, <2>1 DEF ISA!Nothing, ISA!Next_pc
  <2> QED
    BY <1>5, <1>7, <2>2 DEF ISA!Next, ISA!Execute, Named_im
<1> QED
  BY <1>3, <1>9, <1>10, <1>11, <1>12, <1>13 DEF Calls, M!Opcodes, Ops, Jumping

\* One that executes none leaves the state of Isa as it is.
LEMMA ExecutesNothing ==
    ASSUME DInv, NEW tx_done \in BOOLEAN, NEW a \in AccelAddress, Clock(tx_done, a),
           ~InEx, if_pc # None, ~careless'
    PROVE  UNCHANGED ISA!isa_vars
<1>1. RulesKept /\ ~careless
  BY DEF Clock
<1>2. NextToExecute' = NextToExecute
  BY HeldInOrder, MovingInOrder DEF DInv, OneAtATime
<1>3. /\ ~rf_write_en(idex.instr) /\ ~flags_en(idex.instr)
      /\ datamem_write_en(idex.instr) => [data_mem EXCEPT ![alu_Out] = idex.reg2] = data_mem
  <2>1. CASE idex.pc = None
    <3>1. idex.instr = Nop
      BY <2>1 DEF DInv, IInv, InvStages
    <3> QED
      BY <3>1, SMT DEF Nop, rf_write_en, datamem_read_en, flags_en, datamem_write_en
  <2>2. CASE idex.pc # None
    <3>1. state = "WRT_HOST" /\ host_store
      BY <2>2 DEF InEx, DInv, IInv, InvTypes, InvStore
    <3>2. ~rf_write_en(idex.instr) /\ ~flags_en(idex.instr)
      BY <3>1, SMT DEF host_store, datamem_write_en, rf_write_en, datamem_read_en, flags_en
    <3> QED
      BY <3>1, <3>2 DEF DInv, InvStored
  <2> QED
    BY <2>1, <2>2
<1>4. IsaRegs' = IsaRegs
  BY <1>1, <1>3, NewestMoves, NewestHeld
<1>5. data_mem' = data_mem /\ IsaSign' = IsaSign
  BY <1>3 DEF Clock, DataMemory, Flags, IsaSign
<1>6. Named_im' = Named_im
  BY DEF Named_im, Clock
<1>7. if_pc' # None
  BY FetchHasBegun DEF DInv
<1> QED
  BY <1>2, <1>4, <1>5, <1>6, <1>7 DEF ISA!isa_vars, IsaRegs, IsaSign, Named_im, Regs

\* The registers are zero, and the first instruction is still to come.
LEMMA InitIsa == Init => ISA!Init
<1> SUFFICES ASSUME Init PROVE ISA!Init
  OBVIOUS
<1>1. if_pc = None
  BY DEF Init
<1>2. Written({exmem.instr}) = {} /\ Written({memwb.instr}) = {}
  BY SMT DEF Init, Written, Nop, rf_write_en, datamem_read_en
<1>3. \A r \in 0 .. NumRegs - 1 : NewestReg(r) = 0
  BY <1>2 DEF Init, NewestReg
<1> QED
  BY <1>1, <1>3 DEF Init, ISA!Init

\* For every program, whatever the sizes are and whatever stalls meet: to a program
\* that keeps the rules the pipeline of cpu.sv is invisible.
THEOREM RunsInstructionsAlways == Spec => RunsInstructions
<1>1. DInv /\ [Next]_vars => [\/ careless' \/ if_pc = None
                             \/ ISA!Next \/ UNCHANGED ISA!isa_vars]_vars
  <2> SUFFICES ASSUME DInv, Next, ~careless', if_pc # None
               PROVE  ISA!Next \/ UNCHANGED ISA!isa_vars
    OBVIOUS
  <2>1. PICK tx_done \in BOOLEAN, a \in AccelAddress : Clock(tx_done, a)
    BY DEF Next
  <2> QED
    BY <2>1, ExecutesTheInstruction, ExecutesNothing
<1> QED
  BY <1>1, InitIsa, OperandsAreRight, PTL DEF Spec, RunsInstructions
=============================================================================
