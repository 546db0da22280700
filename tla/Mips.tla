--------------------------------- MODULE Mips ---------------------------------
(***************************************************************************)
(* The instruction set of mips.h and mips.cpp: from the words of a line    *)
(* (MIPS_32::assemble) to the four bytes of an instruction                 *)
(* (generic_mips32_encode).                                                *)
(*                                                                         *)
(* An instruction is the sequence of its bytes, the lowest first, as       *)
(* get_nth_byte gives them on the host.                                    *)
(***************************************************************************)
EXTENDS Text

\* The opcodes by mnemonic.
Opcodes == [ADDI |-> 17, SUBI |-> 19, MULTLI |-> 21, MULTHI |-> 23, LSI |-> 33,
            RSI |-> 35, RORI |-> 37, LDB |-> 133, STB |-> 135, ADD |-> 16,
            SUB |-> 18, MULTL |-> 20, MULTH |-> 22, LS |-> 32, RS |-> 34,
            ROR |-> 36, BEQ |-> 49, BNEQ |-> 51, BLTZ |-> 53, BGTZ |-> 55,
            BLEZ |-> 57, BGEZ |-> 59, JMP |-> 61, JMPI |-> 63, LDI |-> 129,
            STI |-> 131, PUSH |-> 64, POP |-> 66]

\* The formats: l_inst, r_inst, i_inst, d_inst.
l_inst == {"ADDI", "SUBI", "MULTLI", "MULTHI", "LSI", "RSI", "RORI", "LDB", "STB",
           "STI", "LDI"}
r_inst == {"ADD", "SUB", "MULTL", "MULTH", "LS", "RS", "ROR"}
i_inst == {"BGEZ", "BLEZ", "BEQ", "BNEQ", "BLTZ", "BGTZ", "JMP", "JMPI"}
d_inst == {"PUSH", "POP"}

\* How many words a line of each format has.
WordCount(mnemonic) == IF mnemonic \in l_inst \cup r_inst THEN 4 ELSE 2

-----------------------------------------------------------------------------
(* generic_mips32_encode.  A field is cut to its width, but that of PUSH    *)
(* and POP, which reaches into the opcode.                                  *)

Bit(n, i) == (n \div 2 ^ i) % 2
OrBytes(m, n) ==
    LET or(i) == IF Bit(m, i) = 1 \/ Bit(n, i) = 1 THEN 2 ^ i ELSE 0
    IN  or(0) + or(1) + or(2) + or(3) + or(4) + or(5) + or(6) + or(7)

\* Mutant of Nibbles: the fields are not cut to their width.
NibblesUncut(high, low) == 16 * high + low

Nibbles(high, low) == 16 * (high % 16) + (low % 16)

EncodeL(op, rd, rs, imm) == <<imm % 256, (imm \div 256) % 256, Nibbles(rd, rs), op>>
EncodeR(op, rd, rs, rt) == <<0, Nibbles(rt, 0), Nibbles(rd, rs), op>>
EncodeI(op, imm) == <<imm % 256, (imm \div 256) % 256, 0, op>>
EncodeD(op, rd) == <<0, 0, Nibbles(rd, 0), OrBytes(op, (rd \div 16) % 256)>>

\* Mutant of offset_to_address_br: counted from the branch itself.
OffsetFromBranch(current, target) == ((target - current) \div 4) % 2 ^ 16

\* offset_to_address_br: the distance in instructions from the one after the
\* branch; only its low 16 bits are ever used.
offset_to_address_br(current, target) == ((target - current - 4) \div 4) % 2 ^ 16

-----------------------------------------------------------------------------
(* Operands.  A result is [ex, value], where ex is the exception thrown, or   *)
(* "none".                                                                 *)

Throws(ex) == [ex |-> ex, value |-> 0]
Good(v) == [ex |-> "none", value |-> v]

get_imm(word) == LET n == numeric_interpret(word)
                 IN  IF n.ok THEN Good(n.value) ELSE Throws("mt_bad_imm")

Decimal(n) == (IF n < 10 THEN <<>> ELSE <<LowerDigits[(n \div 10) + 1]>>)
              \o <<LowerDigits[(n % 10) + 1]>>

\* $g0 to $g14 are the registers 1 to 15.
FriendlyNames == [n \in 1 .. 15 |-> <<"$", "g">> \o Decimal(n - 1)]

\* friendly_to_numerical: the number of a register's name, -1 if it is none.
friendly_to_numerical(word) ==
    LET n == SelectInSeq(FriendlyNames, LAMBDA name : name = word)
    IN  IF word = <<"$", "zero">> THEN 0 ELSE IF n = 0 THEN -1 ELSE n

\* get_reg_num: a dollar sign and digits.  The copy atoi reads is not terminated,
\* so digits that lie behind it in the heap ("junk") belong to the number too.
get_reg_num(word, junk) ==
    CASE Len(word) =< 1 -> Throws("mt_bad_imm")
      [] Len(word) > 1 /\ word[1] # "$" -> Throws("mt_parse_unexpected")
      [] OTHER -> IF \A i \in 2 .. Len(word) : IsDigit(word[i], 10)
                  THEN Good(ValueOf(Tail(word) \o junk, 10))
                  ELSE Throws("mt_bad_reg_format")

Register(word, junk) == IF friendly_to_numerical(word) # -1
                        THEN Good(friendly_to_numerical(word))
                        ELSE get_reg_num(word, junk)

\* A label of the L format gives the distance to it, that of a jump or branch its
\* address; any other word is a number.
Distance(word, pc, syms) == IF word \in DOMAIN syms
                            THEN Good(offset_to_address_br(pc, syms[word]))
                            ELSE get_imm(word)
Target(word, syms) == IF word \in DOMAIN syms THEN Good(syms[word])
                      ELSE get_imm(word)

-----------------------------------------------------------------------------
(* MIPS_32::assemble.  junk[i]: see get_reg_num, for the i-th operand.      *)

\* The operands are read in their order, so that the first one that is wrong
\* decides.
Inst(operands, bytes) ==
    LET wrong == {i \in 1 .. Len(operands) : operands[i].ex # "none"}
    IN  [ex |-> IF wrong = {} THEN "none" ELSE operands[Min(wrong)].ex, bytes |-> bytes]
Refused(ex) == [ex |-> ex, bytes |-> <<>>]

AssembleL(op, args, pc, syms, junk) ==
    LET rd == Register(args[2], junk[1])
        rs == Register(args[3], junk[2])
        imm == Distance(args[4], pc, syms)
    IN  Inst(<<rd, rs, imm>>, EncodeL(op, rd.value, rs.value, imm.value))

AssembleR(op, args, junk) ==
    LET rd == Register(args[2], junk[1])
        rs == Register(args[3], junk[2])
        rt == Register(args[4], junk[3])
    IN  Inst(<<rd, rs, rt>>, EncodeR(op, rd.value, rs.value, rt.value))

AssembleI(op, args, syms) ==
    LET imm == Target(args[2], syms)
    IN  Inst(<<imm>>, EncodeI(op, imm.value))

AssembleD(op, args, junk) ==
    LET rd == Register(args[2], junk[1])
    IN  Inst(<<rd>>, EncodeD(op, rd.value))

IsMnemonic(word) == Len(word) = 1 /\ word[1] \in DOMAIN Opcodes

\* A line with no word left gives the word zero.
assemble(args, pc, syms, junk) ==
    LET mnemonic == args[1][1]
        op == Opcodes[mnemonic]
    IN  IF args = <<>> THEN [ex |-> "none", bytes |-> <<0, 0, 0, 0>>]
        ELSE IF ~IsMnemonic(args[1]) THEN Refused("mt_bad_mnemonic")
        ELSE IF Len(args) # WordCount(mnemonic) THEN Refused("mt_asm_bad_arg_count")
        ELSE CASE mnemonic \in l_inst -> AssembleL(op, args, pc, syms, junk)
               [] mnemonic \in r_inst -> AssembleR(op, args, junk)
               [] mnemonic \in i_inst -> AssembleI(op, args, syms)
               [] mnemonic \in d_inst -> AssembleD(op, args, junk)
=============================================================================
