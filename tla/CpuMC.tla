-------------------------------- MODULE CpuMC --------------------------------
(***************************************************************************)
(* Programs for the pipeline: all sequences of a few instructions that     *)
(* depend on each other in every way.                                      *)
(***************************************************************************)
EXTENDS CpuPipeline

I(mnemonic, rd, rs, rt, imm) ==
    [op |-> M!Opcodes[mnemonic], rd |-> rd, rs |-> rs, rt |-> rt, imm |-> imm]

MCInstructions == {
    I("ADDI", 1, 1, 0, 1), I("SUB", 2, 1, 2, 0), I("LSI", 1, 1, 0, 1),
    I("LDB", 1, 1, 0, 0), I("LDI", 2, 0, 0, 1), I("STI", 1, 0, 0, 1),
    I("STB", 1, 2, 0, 1), I("STI", 2, 0, 0, 3), I("BLTZ", 0, 0, 0, 0), I("BGEZ", 0, 0, 0, 3)}
Mixed == {[a \in 0 .. ProgramSize - 1 |-> p[a + 1]] : p \in [1 .. ProgramSize -> MCInstructions]}

\* Every instruction on all operands, and every jump after it.
Operands(m, j, a, b) == [n \in 0 .. 3 |-> CASE n = 0 -> I(j, 0, 0, 0, 2)
                                            [] n = 1 -> I("ADDI", 1, 0, 0, a)
                                            [] n = 2 -> I("LDI", 2, 0, 0, b)
                                            [] n = 3 -> I(m, 1, 1, 2, b)]
Jumps == {"BEQ", "BNEQ", "BLTZ", "BGTZ", "BLEZ", "BGEZ", "JMP", "JMPI"}
Each == {Operands(m, j, a, b) : m \in DOMAIN M!Opcodes \ Jumps, j \in Jumps, a \in Word, b \in Word}

\* Register 0 is written, with zero or another number, and read.
Zeros == {[n \in 0 .. 3 |-> CASE n = 0 -> I("JMP", 0, 0, 0, 1)
                              [] n = 1 -> I("ADDI", 1, 0, 0, a)
                              [] n = 2 -> I(m, 0, 1, 1, b)
                              [] n = 3 -> I(reads, 2, 0, 0, 1)] :
             m \in DOMAIN M!Opcodes, a \in Word, b \in Word, reads \in {"ADD", "LDB", "STB"}}

MCPrograms == Mixed \cup Each \cup Zeros
MCImages == {[a \in Word |-> (a + 1) % Modulus]}
=============================================================================
