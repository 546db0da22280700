----------------------------- MODULE CpuPipeline -----------------------------
(***************************************************************************)
(* The five stages of the CPU (syn/hw/cpu.sv from line 403, cpu_stall.sv,  *)
(* cpu_control.sv, cpu_alu.sv, cpu_rf.sv, cpu_instrmem.sv, cpu_pc.sv and   *)
(* cpu_pipereg.sv), from the cycle in which the state machine, whose       *)
(* loading CpuHost models, enters RUN.                                     *)
(*                                                                         *)
(* An instruction is [op, rd, rs, rt, imm]; op is the number of its opcode, *)
(* whose bits the source looks at.  An address of an instruction counts    *)
(* instructions, where the code counts bytes.                              *)
(*                                                                         *)
(* if_pc, ifid.pc and idex.pc are history variables: the addresses that    *)
(* the source once piped and has commented out.  None stands for a bubble. *)
(***************************************************************************)
EXTENDS Integers

CONSTANTS Width,        \* bits of a word
          NumRegs,
          ProgramSize,  \* instructions of the instruction memory
          Programs,     \* what it may hold
          Images,       \* what the data memory may hold at first
          HostBase,     \* stores from here on go to the host (0x9000)
          AccelAddress, \* what the accelerators read when the port is free
          None

VARIABLES instr_mem, data_mem,
          state,        \* RUN or WRT_HOST
          pc_out, im_instr, if_pc,
          ifid, idex, exmem, memwb,
          reg1, reg2, regs, ZF, NF,
          rd_data,      \* the output register of the data memory
          careless      \* history: the program has broken a rule

vars == <<instr_mem, data_mem, state, pc_out, im_instr, if_pc, ifid, idex, exmem, memwb,
          reg1, reg2, regs, ZF, NF, rd_data, careless>>

Modulus == 2 ^ Width
Word == 0 .. Modulus - 1
Address == 0 .. ProgramSize - 1
Instructions == [op : 0 .. 255, rd : 0 .. NumRegs - 1, rs : 0 .. NumRegs - 1,
                 rt : 0 .. NumRegs - 1, imm : Word]

ASSUME CpuAssumption == /\ ProgramSize \in Nat \ {0}
                        /\ NumRegs \in Nat \ {0}
                        /\ Modulus \in Nat \ {0}
                        /\ Programs \subseteq [Address -> Instructions]
                        /\ None \notin Address
Bit(n, i) == (n \div 2 ^ i) % 2 = 1

Nop == [op |-> 0, rd |-> 0, rs |-> 0, rt |-> 0, imm |-> 0]

-----------------------------------------------------------------------------
(* cpu_control *)

alu_imm_src(i) == Bit(i.op, 0)
datamem_write_en(i) == i.op \in {135, 131}
datamem_read_en(i) == i.op \in {133, 129}
rf_write_en(i) == i.op \div 16 \in {1, 2} \/ datamem_read_en(i)
jb(i) == i.op \div 16 = 3

-----------------------------------------------------------------------------
(* cpu_alu *)

rotateOut(a, b) == LET r == b % Width
                   IN  a \div 2 ^ r + (a % 2 ^ r) * 2 ^ (Width - r)

Out(op, a, b) ==
    LET st_ld == IF Bit(op, 2) THEN (a + b) % Modulus ELSE b
        top42muxOut == IF Bit(op, 2)
                       THEN IF Bit(op, 1) THEN (a * b) \div Modulus ELSE (a * b) % Modulus
                       ELSE IF Bit(op, 1) THEN (a - b) % Modulus ELSE (a + b) % Modulus
        bot42muxOut == IF Bit(op, 2) THEN rotateOut(a, b)
                       ELSE IF Bit(op, 1) THEN a \div 2 ^ b ELSE (a * 2 ^ b) % Modulus
    IN  IF Bit(op, 7) THEN st_ld
        ELSE IF op \div 16 = 3 THEN b
        ELSE IF Bit(op, 4) THEN top42muxOut ELSE bot42muxOut

\* The flags are set by the arithmetic instructions only.
flags_en(i) == i.op \div 16 = 1

-----------------------------------------------------------------------------
(* What is in the stages. *)

alu_Out == Out(idex.instr.op, idex.reg1,
               IF alu_imm_src(idex.instr) THEN idex.instr.imm ELSE idex.reg2)

rf_wrt_data == IF datamem_read_en(memwb.instr) THEN memwb.mem ELSE memwb.alu

\* beq, bneq, bltz, bgtz, blez, bgez, jmp, jmpi.
pc_jb_taken == CASE idex.instr.op = 49 -> ZF
                 [] idex.instr.op = 51 -> ~ZF
                 [] idex.instr.op = 53 -> ~ZF /\ NF
                 [] idex.instr.op = 55 -> ~ZF /\ ~NF
                 [] idex.instr.op = 57 -> ZF \/ NF
                 [] idex.instr.op = 59 -> ZF \/ ~NF
                 [] idex.instr.op \in {61, 63} -> TRUE
                 [] OTHER -> FALSE

-----------------------------------------------------------------------------
(* cpu_stall *)

WatchesRs == {17, 19, 21, 39, 35, 37, 129, 133}
WatchesRsAndRt == {16, 18, 20, 22, 32, 34, 36}
WatchesRd == {131, 135}

Watched(i) == CASE i.op \in WatchesRs -> {i.rs}
                [] i.op \in WatchesRsAndRt -> {i.rs, i.rt}
                [] i.op \in WatchesRd -> {i.rd}
                [] OTHER -> {}

Written(stage) == {i.rd : i \in {j \in stage : rf_write_en(j)}}

\* Mutant of rw_stall: the instruction in MEM is forgotten.
MemForgotten == Watched(im_instr) \cap Written({ifid.instr, idex.instr, memwb.instr}) # {}

rw_stall == Watched(im_instr)
                \cap Written({ifid.instr, idex.instr, exmem.instr, memwb.instr}) # {}
\* Mutant of jb_stall: it ends when the jump enters EX.
JumpOnlyInDecode == jb(ifid.instr)

jb_stall == jb(ifid.instr) \/ jb(idex.instr)

-----------------------------------------------------------------------------
(* The state machine while the program runs.                               *)

host_store == datamem_write_en(idex.instr) /\ alu_Out >= HostBase

\* Mutant of host_stall: it lasts as long as WRT_HOST, as in the line that is
\* commented out.
StallsInWrtHost(tx_done) == state = "WRT_HOST" \/ host_store

host_stall(tx_done) == CASE state = "RUN" -> host_store
                         [] state = "WRT_HOST" -> ~tx_done

NextState(tx_done) == CASE state = "RUN" -> IF host_store THEN "WRT_HOST" ELSE "RUN"
                        [] state = "WRT_HOST" -> IF tx_done THEN "RUN" ELSE "WRT_HOST"

-----------------------------------------------------------------------------
(* The rules a program has to keep for the pipeline to be invisible.       *)

\* The registers an instruction uses.
Uses(i) == CASE i.op \in {16, 18, 20, 22, 32, 34, 36} -> {i.rs, i.rt}
             [] i.op \in {17, 19, 21, 23, 33, 35, 37, 133} -> {i.rs}
             [] i.op = 135 -> {i.rs, i.rd}
             [] i.op = 131 -> {i.rd}
             [] OTHER -> {}

\* cpu_stall.sv does not watch the operand of MULTHI and LSI and the base of STB:
\* three other instructions must come between it and the one that writes it.
UnwatchedIsOld == Written({ifid.instr, idex.instr, exmem.instr})
                      \cap (Uses(im_instr) \ Watched(im_instr)) = {}

\* The instruction behind a store to the host is given register 0 for every
\* register: its selectors are those of the bubble (cpu.sv:443).
NothingIsRead == Uses(ifid.instr) \subseteq {0}

\* The word that a load right before a store to the host has fetched is lost: the
\* memory's output register does not wait (cpu.sv:462).
NothingIsLoaded == ~datamem_read_en(exmem.instr)

\* What the instruction in EX leaves to its register.
Outcome == IF datamem_read_en(idex.instr) THEN data_mem[alu_Out] ELSE alu_Out

\* The register file keeps what is written to register 0, although it "stays zero":
\* to write anything else there is an error (cpu_rf.sv:22).
ZeroStaysZero == rf_write_en(idex.instr) /\ idex.instr.rd = 0 => Outcome = 0

RulesKept == /\ ~jb_stall /\ ~rw_stall => UnwatchedIsOld
             /\ host_store => NothingIsRead /\ NothingIsLoaded
             /\ ZeroStaysZero

-----------------------------------------------------------------------------
Bubble == [instr |-> Nop, pc |-> None, reg1 |-> 0, reg2 |-> 0]

\* As the reset and the loading leave it: the output of the instruction memory
\* shows what the word written last held before, which is 0, and the address
\* read next is that of the second instruction.
Init == /\ instr_mem \in Programs /\ data_mem \in Images
        /\ state = "RUN"
        /\ pc_out = 0 /\ im_instr = Nop /\ if_pc = None
        /\ ifid = [instr |-> Nop, pc |-> None] /\ idex = Bubble
        /\ exmem = [instr |-> Nop, alu |-> 0]
        /\ memwb = [instr |-> Nop, alu |-> 0, mem |-> 0]
        /\ reg1 = 0 /\ reg2 = 0
        /\ regs = [r \in 0 .. NumRegs - 1 |-> 0]
        /\ ZF = FALSE /\ NF = FALSE
        /\ rd_data \in Word
        /\ careless = FALSE

\* Fetch: a stall puts a bubble in the place of the instruction and keeps the pc.
Fetch(stall, held) ==
    LET pc_curr == IF pc_jb_taken /\ ~held THEN alu_Out % ProgramSize ELSE pc_out
        pc_new == IF stall THEN pc_curr ELSE (pc_curr + 1) % ProgramSize
    IN  /\ pc_out' = pc_new
        /\ im_instr' = instr_mem[pc_new]
        /\ if_pc' = pc_new

\* The register file: the write of this edge is seen by the reads of this edge.
ReadReg(sel) == IF rf_write_en(memwb.instr) /\ memwb.instr.rd = sel
                THEN rf_wrt_data ELSE regs[sel]
RegisterFile(i) ==
    /\ reg1' = ReadReg(i.rs)
    /\ reg2' = ReadReg(IF datamem_write_en(i) THEN i.rd ELSE i.rt)
    /\ regs' = IF rf_write_en(memwb.instr)
               THEN [regs EXCEPT ![memwb.instr.rd] = rf_wrt_data] ELSE regs

\* The pipeline registers.
Advance(i, pc) ==
    /\ ifid' = [instr |-> i, pc |-> pc]
    /\ idex' = [instr |-> ifid.instr, pc |-> ifid.pc, reg1 |-> reg1, reg2 |-> reg2]
    /\ exmem' = [instr |-> idex.instr, alu |-> alu_Out]
    /\ memwb' = [instr |-> exmem.instr, alu |-> exmem.alu, mem |-> rd_data]

Flags == IF flags_en(idex.instr)
         THEN ZF' = (alu_Out = 0) /\ NF' = Bit(alu_Out, Width - 1)
         ELSE UNCHANGED <<ZF, NF>>

\* The instruction in EX has the port, or an accelerator reads at a.
DataMemory(a) ==
    /\ data_mem' = IF datamem_write_en(idex.instr)
                   THEN [data_mem EXCEPT ![alu_Out] = idex.reg2] ELSE data_mem
    /\ rd_data' = data_mem[IF datamem_write_en(idex.instr) \/ datamem_read_en(idex.instr)
                           THEN alu_Out ELSE a]

\* A rising edge.
Clock(tx_done, a) ==
    LET held == host_stall(tx_done)
        stall == jb_stall \/ rw_stall \/ held
        im_instr_in == IF stall THEN Nop ELSE im_instr
    IN  /\ state' = NextState(tx_done)
        /\ Fetch(stall, held)
        /\ RegisterFile(im_instr_in)
        /\ IF held THEN UNCHANGED <<ifid, idex, exmem, memwb>>
           ELSE Advance(im_instr_in, IF stall THEN None ELSE if_pc)
        /\ Flags
        /\ DataMemory(a)
        /\ careless' = (careless \/ ~RulesKept)
        /\ UNCHANGED instr_mem

Next == \E tx_done \in BOOLEAN, a \in AccelAddress : Clock(tx_done, a)

Spec == Init /\ [][Next]_vars

\* The clock runs, and the memory controller finishes a store (EveryStoreEnds of
\* HostPath).
FairSpec == Spec /\ WF_vars(\E a \in AccelAddress : Clock(TRUE, a))

-----------------------------------------------------------------------------
(* Properties. *)

M == INSTANCE Mips
Mnemonic == [op \in {M!Opcodes[m] : m \in DOMAIN M!Opcodes} |->
                CHOOSE m \in DOMAIN M!Opcodes : M!Opcodes[m] = op]

\* What the assembler makes has no other opcodes, and what it leaves out is 0.
ASSUME OpcodesAssumption ==
    \A p \in Programs, a \in Address : p[a].op \in {0} \cup DOMAIN Mnemonic

Named(i) == [i EXCEPT !.op = IF i.op \in DOMAIN Mnemonic THEN Mnemonic[i.op] ELSE "NOP"]

\* Of the instructions fetched the first that has not been executed.
InEx == idex.pc # None /\ state = "RUN"
NextToExecute == IF InEx THEN idex.pc
                 ELSE IF ifid.pc # None THEN ifid.pc
                 ELSE IF if_pc # None THEN if_pc
                 ELSE (pc_out + 1) % ProgramSize

\* Whatever the program is, rules or none, and whatever stalls meet: what is in EX
\* is the instruction of its address, and a cycle executes the one in EX, after
\* which comes the one behind it or the target of a jump that is taken, or none.
RunsInOrder ==
    /\ [](idex.pc # None => idex.instr = instr_mem[idex.pc])
    /\ [][NextToExecute' = IF ~InEx THEN NextToExecute
                           ELSE IF pc_jb_taken THEN alu_Out % ProgramSize
                           ELSE (idex.pc + 1) % ProgramSize]_vars

\* The registers, with what is still on its way to them.
Result == IF datamem_read_en(exmem.instr) THEN rd_data ELSE exmem.alu
NewestReg(r) == IF r \in Written({exmem.instr}) THEN Result
                ELSE IF r \in Written({memwb.instr}) THEN rf_wrt_data ELSE regs[r]

ISA == INSTANCE Isa WITH
    im <- [a \in 0 .. ProgramSize - 1 |-> Named(instr_mem[a])],
    pc <- IF if_pc = None THEN 0 ELSE NextToExecute,
    regs <- [r \in 0 .. NumRegs - 1 |-> NewestReg(r)],
    mem <- data_mem,
    sign <- IF ZF THEN "zero" ELSE IF NF THEN "negative" ELSE "positive"

\* To a program that keeps the rules the pipeline is invisible: every cycle
\* executes the next instruction as it is meant, on the registers and the memory
\* the instructions before it have left, or none.  Of the first cycle nothing is
\* said: what becomes of the instruction at address 0 is left open.
RunsInstructions ==
    ISA!Init /\ [][\/ careless' \/ if_pc = None
                  \/ ISA!Next \/ UNCHANGED ISA!isa_vars]_vars

\* The pipeline never stops: instructions leave EX again and again, whatever the
\* program is.
KeepsRunning == []<><<idex.pc # None /\ exmem' = [instr |-> idex.instr, alu |-> alu_Out]>>_vars
=============================================================================
