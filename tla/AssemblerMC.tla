----------------------------- MODULE AssemblerMC -----------------------------
(***************************************************************************)
(* The assembler for TLC, and what a source file means.                    *)
(*                                                                         *)
(* A file is rendered from the lines somebody wrote, each a record of a    *)
(* label ("" if there is none), the words of the instruction and the way   *)
(* they are typed.  The variable "written" remembers them, so that what    *)
(* the assembler makes of the characters can be held against what was      *)
(* meant.                                                                  *)
(***************************************************************************)
EXTENDS Assembler

VARIABLE written   \* the lines of the input file, as records

-----------------------------------------------------------------------------
(* Typing: from the record of a line to its characters.                    *)

\* Two labels; the assembler only compares their characters.
LabelText == [L |-> <<"L">>, M |-> <<"M", "1">>]

\* The mnemonic and the operands of an instruction, typed plainly.
Words(line) == (IF line.label = "" THEN <<>> ELSE <<LabelText[line.label] \o <<":">> >>)
               \o line.words

Spaced(words, separator) ==
    FoldLeft(LAMBDA text, w : IF text = <<>> THEN w ELSE text \o separator \o w, <<>>, words)

\* The last word of a line, wrapped.
Wrapped(words, before, after) ==
    IF words = <<>> THEN <<>> ELSE Append(Front(words), before \o Last(words) \o after)

\* Ways to type a line that mean the same ...
Fair == {"plain", "tabs", "quoted", "escaped", "commented", "tight"}
\* ... and ways that do not: a backslash or an open quote at the end, a last
\* line that is not ended, one that is longer than fgets reads.
Foul == {"continued", "open", "unended", "long"}

\* A comment longer than the buffer of fgets, which ends like an instruction.
LongComment == <<";">> \o [i \in 1 .. MaxLine |-> " "] \o <<"POP", " ", "$", "g", "7", "\n">>

Typed(line) ==
    LET words == Words(line)
    IN  CASE line.style = "plain" -> Spaced(words, <<" ">>) \o <<"\n">>
          [] line.style = "tabs" -> <<"\t">> \o Spaced(words, <<",", "\t">>) \o <<"\r", "\n">>
          [] line.style = "quoted" -> Spaced(Wrapped(words, <<"\"">>, <<"\"">>), <<" ">>)
                                      \o <<"\n">>
          [] line.style = "escaped" -> Spaced(Wrapped(words, <<"\\">>, <<>>), <<" ">>)
                                       \o <<"\n">>
          [] line.style = "commented" -> Spaced(words, <<" ">>) \o <<";", "L", ":", "\n">>
          [] line.style = "tight" -> Spaced(words, <<",">>) \o <<"\n">>
          [] line.style = "continued" -> Spaced(words, <<" ">>) \o <<"\\", "\n">>
          [] line.style = "open" -> Spaced(words, <<" ">>) \o <<" ", "\"", "\n">>
          [] line.style = "unended" -> Spaced(words, <<" ">>)
          [] line.style = "long" -> Spaced(words, <<" ">>) \o LongComment

Render(program) == FlattenSeq([i \in 1 .. Len(program) |-> Typed(program[i])])

-----------------------------------------------------------------------------
(* The programs.                                                           *)

Line(label, words, style) == [label |-> label, words |-> words, style |-> style]

G(n) == <<"$", "g">> \o Decimal(n)
Zero == <<"$", "zero">>

\* Instructions the assembler takes ...
Good1 == { <<<<"ADD">>, G(0), G(14), Zero>>,
           <<<<"ADDI">>, G(14), G(1), <<"-", "1">>>>,
           <<<<"LSI">>, G(2), G(2), <<"0", "x", "1", "F">>>>,
           <<<<"LDB">>, G(0), G(3), <<"L">>>>,
           <<<<"STI">>, G(5), Zero, <<"M", "1">>>>,
           <<<<"JMP">>, <<"L">>>>,
           <<<<"BLEZ">>, <<"M", "1">>>>,
           <<<<"JMPI">>, <<"o", "1", "7">>>>,
           <<<<"POP">>, G(9)>> }

\* ... and such as it refuses: no such mnemonic, too few words, no register, no
\* number.
Reason == (<<<<"NOP">>>> :> "mt_bad_mnemonic")
          @@ (<<<<"ADD">>, G(0), G(1)>> :> "mt_asm_bad_arg_count")
          @@ (<<<<"PUSH">>, <<"$", "x">>>> :> "mt_bad_reg_format")
          @@ (<<<<"ADDI">>, <<"g", "1">>, G(1), <<"x">>>> :> "mt_parse_unexpected")
          @@ (<<<<"ADDI">>, G(0), G(1), <<"1", "2", "x">>>> :> "mt_bad_imm")
          @@ (<<<<"JMP">>, <<"-">>>> :> "mt_bad_imm")
Wrong == DOMAIN Reason

\* Numbers that do not fit: a jump behind 64 KB, a register above 15.
Cut == { <<<<"JMPI">>, <<"7", "0", "0", "0", "0">>>>,
         <<<<"PUSH">>, <<"$", "1", "6">>>>,
         <<<<"SUB">>, <<"$", "3">>, G(1), G(2)>> }

Labels == {"", "L", "M"}

\* One instruction of each kind, between labels that other lines name.
Few == {<<>>, <<<<"JMP">>, <<"L">>>>, <<<<"LDB">>, G(0), G(3), <<"L">>>>}

FairLine(labels, words) == {Line(l, w, "plain") : l \in labels, w \in words}

Programs ==
         (* every instruction, with labels before and behind *)
         {<<a, b>> : a \in FairLine(Labels, Good1 \cup Wrong \cup Cut \cup {<<>>}),
                     b \in FairLine({"", "L"}, {<<>>, <<<<"POP">>, G(9)>>,
                                                <<<<"BNEQ">>, <<"M", "1">>>>})}
    \cup (* labels over three lines *)
         {<<a, b, c>> : a, b, c \in FairLine({"", "L"}, Few)}
    \cup (* every way to type a line, last or not *)
         {<<Line(l, w, s)>> \o rest :
             l \in Labels, s \in Fair \cup Foul,
             w \in {<<>>, <<<<"POP">>, G(9)>>, <<<<"STI">>, G(5), Zero, <<"M", "1">>>>},
             rest \in {<<>>, <<Line("M", <<<<"POP">>, G(1)>>, "plain")>>}}
    \cup (* no line at all, and more than a program can hold *)
         {<<>>, [i \in 1 .. (MaxProgram \div 4) + 1 |-> Line("", <<<<"POP">>, G(9)>>, "plain")]}

\* A program of three instructions, for the command lines.
Sample == <<Line("L", <<<<"ADD">>, G(0), G(14), Zero>>, "plain"),
            Line("", <<<<"ADDI">>, G(14), G(1), <<"-", "1">>>>, "plain"),
            Line("", <<<<"JMP">>, <<"L">>>>, "plain")>>

-----------------------------------------------------------------------------
(* The command lines.                                                      *)

PlainCommand == <<"-i", "in", "-o", "out">>

InOptions == {<<>>, <<"-i">>, <<"-i", "in">>, <<"-i", "gone">>, <<"-i", "in", "-i", "gone">>}
OutOptions == {<<>>, <<"-o">>, <<"-o", "out">>, <<"-o", "gone">>}
KindOptions == {<<>>, <<"-s">>, <<"-s", "hex">>, <<"-s", "mif">>, <<"-s", "bin">>,
                <<"-s", "mif", "-s", "text">>}
WidthOptions == {<<>>, <<"-b">>, <<"-b", "0">>, <<"-b", "3">>, <<"-b", "8">>,
                 <<"-b", "-1">>, <<"-l">>}

OptionLines == {i \o o \o s \o b : i \in InOptions, o \in OutOptions,
                                   s \in KindOptions, b \in WidthOptions}

\* 2 ^ 32 - 1, which a width of -1 becomes, is scaled down to a number above any
\* size of a program.
MCAtoi == [n \in {"0", "3", "4", "8", "-1"} |->
              CASE n = "0" -> 0 [] n = "3" -> 3 [] n = "4" -> 4
                [] n = "8" -> 8 [] n = "-1" -> 16]

MCFiles == {"in", "out", "a.bin", "a.hex", "a.mif", "-s", "-b", "-o"}
MCJunk == {<<>>, <<"4">>}

MCInit == /\ \/ written \in Programs /\ args = PlainCommand
             \/ written = Sample /\ args \in OptionLines
          /\ source = Render(written)
          /\ Init

MCNext == Next /\ UNCHANGED written

mcvars == <<vars, written>>

MCSpec == MCInit /\ [][MCNext]_mcvars /\ WF_mcvars(MCNext)
-----------------------------------------------------------------------------
(* What a program means.                                                   *)

HasWords(i) == written[i].words # <<>>
InstructionLines == {i \in DOMAIN written : HasWords(i)}

\* The address of a line is that of the next instruction.
LineAddress(i) == 4 * Cardinality({j \in InstructionLines : j < i})

LinesOf(label) == {i \in DOMAIN written : written[i].label = label}
LabelAddress(label) == LineAddress(CHOOSE i \in LinesOf(label) : TRUE)
LabelWords(words) == {label \in {"L", "M"} : \E k \in 2 .. Len(words) :
                                                 words[k] = LabelText[label]}

Redeclared == \E label \in {"L", "M"} : Cardinality(LinesOf(label)) > 1
IsWrong(i) == \/ written[i].words \in Wrong
              \/ \E label \in LabelWords(written[i].words) : LinesOf(label) = {}
WrongLines == {i \in InstructionLines : IsWrong(i)}

Legal == ~Redeclared /\ WrongLines = {}

\* Why a program that is not legal is refused: a second declaration of a label
\* comes before everything else, then the first wrong line.  An unknown label is
\* taken for a number.
Why == IF Redeclared THEN "mt_multidef_symbol"
       ELSE LET words == written[Min(WrongLines)].words
            IN  IF words \in Wrong THEN Reason[words] ELSE "mt_bad_imm"

FairlyTyped == \A i \in DOMAIN written : /\ written[i].style \in Fair
                                         /\ Len(Typed(written[i])) =< MaxLine
Fits == 4 * Cardinality(InstructionLines) =< MaxProgram

NumberOf == [text \in {<<"-", "1">>, <<"0", "x", "1", "F">>, <<"o", "1", "7">>,
                       <<"7", "0", "0", "0", "0">>} |->
                CASE text = <<"-", "1">> -> -1 [] text = <<"0", "x", "1", "F">> -> 31
                  [] text = <<"o", "1", "7">> -> 15 [] OTHER -> 70000]

RegisterOf(word) == IF word = Zero THEN 0 ELSE 1 + CHOOSE n \in 0 .. 14 : word = G(n)

\* The low 16 bits say where a jump goes, or how far from the next instruction.
SameWord(m, n) == (m - n) % 2 ^ 16 = 0
Address(word) == IF word \in DOMAIN NumberOf THEN NumberOf[word]
                 ELSE LabelAddress(CHOOSE label \in {"L", "M"} : word = LabelText[label])
Immediate(word, at) == IF word \in DOMAIN NumberOf THEN NumberOf[word]
                       ELSE (Address(word) - (at + 4)) \div 4

\* The fields of the instruction at an address, as the processor takes them.
High(byte) == byte \div 16
Low(byte) == byte % 16
Imm(at) == prog[at + 1] + 256 * prog[at + 2]

Means(words, at) ==
    /\ prog[at + 4] = Opcodes[words[1][1]]
    /\ words[1][1] \in l_inst => /\ High(prog[at + 3]) = RegisterOf(words[2])
                                 /\ Low(prog[at + 3]) = RegisterOf(words[3])
                                 /\ SameWord(Imm(at), Immediate(words[4], at))
    /\ words[1][1] \in r_inst => /\ High(prog[at + 3]) = RegisterOf(words[2])
                                 /\ Low(prog[at + 3]) = RegisterOf(words[3])
                                 /\ High(prog[at + 2]) = RegisterOf(words[4])
    /\ words[1][1] \in i_inst => SameWord(Imm(at), Address(words[2]))
    /\ words[1][1] \in d_inst => High(prog[at + 3]) = RegisterOf(words[2])

Numbered(words) == \E k \in 2 .. Len(words) : words[k] \in {<<"$", "3">>, <<"$", "1", "6">>}

\* A file typed in any of the fair ways is assembled exactly when it is legal
\* (each label once, no unknown name or number) and fits, and only a program that
\* does not fit ends the process; the exception that is told is that of the first
\* fault.  Each instruction is then where its line says
\* and has the opcode, the registers and the target that were written, over
\* labels before and behind it.  (Registers by number are left out: see Junk.)
AssemblesSource ==
    pc = "end" /\ args = PlainCommand /\ FairlyTyped =>
        /\ result = "done" <=> Legal /\ Fits
        /\ result = "terminated" => ~Fits
        /\ ~Legal /\ Fits => result = "error" /\ exception = Why
        /\ result = "done" => \A i \in InstructionLines :
               ~Numbered(written[i].words) => Means(written[i].words, LineAddress(i))

=============================================================================
