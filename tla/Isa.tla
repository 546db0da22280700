---------------------------------- MODULE Isa ----------------------------------
(***************************************************************************)
(* What a program may expect of the CPU: the instructions of mips.h, one   *)
(* at a time, each complete before the next one starts.                    *)
(*                                                                         *)
(* As the sources describe it: the first instruction is the one at address *)
(* 0 (cpu_instrmem.sv:11), and register 0 is the zero register             *)
(* (cpu_rf.sv:7).  Immediates are not sign-extended.                       *)
(***************************************************************************)
EXTENDS Integers

CONSTANTS Width,       \* bits of a word
          ProgramSize  \* instructions of a program

VARIABLES im,    \* the program, an instruction per address
          pc, regs, mem,
          sign   \* of the last result of an arithmetic instruction

isa_vars == <<im, pc, regs, mem, sign>>

Word == 0 .. 2 ^ Width - 1
Address == 0 .. ProgramSize - 1

Wrap(n) == n % 2 ^ Width
\* The highest bit is the sign.
SignOf(n) == IF n = 0 THEN "zero"
             ELSE IF (n \div 2 ^ (Width - 1)) % 2 = 1 THEN "negative" ELSE "positive"
\* What leaves on the right comes in on the left.
Rotate(n, by) == LET r == by % Width IN n \div 2 ^ r + (n % 2 ^ r) * 2 ^ (Width - r)

\* The instructions by what they do.  One with an I has an immediate operand.
Arithmetic == {"ADD", "ADDI", "SUB", "SUBI", "MULTL", "MULTLI", "MULTH", "MULTHI"}
Shift == {"LS", "LSI", "RS", "RSI", "ROR", "RORI"}
Jump == {"BEQ", "BNEQ", "BLTZ", "BGTZ", "BLEZ", "BGEZ", "JMP", "JMPI"}
Immediate == {"ADDI", "SUBI", "MULTLI", "MULTHI", "LSI", "RSI", "RORI"}

Result(op, a, b) == CASE op \in {"ADD", "ADDI"} -> Wrap(a + b)
                      [] op \in {"SUB", "SUBI"} -> Wrap(a - b)
                      [] op \in {"MULTL", "MULTLI"} -> Wrap(a * b)
                      [] op \in {"MULTH", "MULTHI"} -> (a * b) \div 2 ^ Width
                      [] op \in {"LS", "LSI"} -> Wrap(a * 2 ^ b)
                      [] op \in {"RS", "RSI"} -> a \div 2 ^ b
                      [] op \in {"ROR", "RORI"} -> Rotate(a, b)

Jumps(op) == CASE op = "BEQ" -> sign = "zero"
               [] op = "BNEQ" -> sign # "zero"
               [] op = "BLTZ" -> sign = "negative"
               [] op = "BGTZ" -> sign = "positive"
               [] op = "BLEZ" -> sign \in {"zero", "negative"}
               [] op = "BGEZ" -> sign \in {"zero", "positive"}
               [] op \in {"JMP", "JMPI"} -> TRUE

\* The address of a load or store.
Place(i) == IF i.op \in {"LDI", "STI"} THEN i.imm ELSE Wrap(regs[i.rs] + i.imm)

-----------------------------------------------------------------------------
Init == /\ pc = 0
        /\ \A r \in DOMAIN regs : regs[r] = 0
        /\ sign = "positive"

Next_pc == pc' = (pc + 1) % ProgramSize

\* Register 0 stays zero.
SetReg(r, n) == regs' = [regs EXCEPT ![r] = IF r = 0 THEN 0 ELSE n]

Compute(i) == /\ i.op \in Arithmetic \cup Shift
              /\ LET n == Result(i.op, regs[i.rs],
                                 IF i.op \in Immediate THEN i.imm ELSE regs[i.rt])
                 IN  /\ SetReg(i.rd, n)
                     /\ sign' = IF i.op \in Arithmetic THEN SignOf(n) ELSE sign
              /\ Next_pc
              /\ UNCHANGED mem

Load(i) == /\ i.op \in {"LDI", "LDB"}
           /\ SetReg(i.rd, mem[Place(i)])
           /\ Next_pc
           /\ UNCHANGED <<mem, sign>>

Store(i) == /\ i.op \in {"STI", "STB"}
            /\ mem' = [mem EXCEPT ![Place(i)] = regs[i.rd]]
            /\ Next_pc
            /\ UNCHANGED <<regs, sign>>

Branch(i) == /\ i.op \in Jump
             /\ IF Jumps(i.op) THEN pc' = i.imm % ProgramSize ELSE Next_pc
             /\ UNCHANGED <<regs, mem, sign>>

\* PUSH and POP as well: the CPU does not know them.
Nothing(i) == /\ i.op \in {"NOP", "PUSH", "POP"}
              /\ Next_pc
              /\ UNCHANGED <<regs, mem, sign>>

Execute(i) == Compute(i) \/ Load(i) \/ Store(i) \/ Branch(i) \/ Nothing(i)

Next == Execute(im[pc]) /\ UNCHANGED im

Spec == Init /\ [][Next]_isa_vars
=============================================================================
