------------------------------ MODULE Assembler ------------------------------
(***************************************************************************)
(* The assembler "class": Shell::Run of shell.cpp, with the options it     *)
(* takes (ToolEnv), its symbol table, the program it builds and the file   *)
(* it leaves behind.                                                       *)
(*                                                                         *)
(* It is sequential: the options are looked at, the first pass reads the   *)
(* source a line a step, the second assembles a line a step, and the last  *)
(* step writes the file.  An exception nobody catches ends the process     *)
(* (terminated).  The breakpoint queue is left out: nothing ever fills it. *)
(***************************************************************************)
EXTENDS Mips, AsmOut, ToolEnv, Exceptions

CONSTANTS Readable,     \* the files that can be opened for reading
          Writable,     \* the files that can be opened for writing
          MaxLine,      \* what fgets reads at most (254 characters)
          MaxProgram,   \* MAX_PROGRAM: the bytes a program can have
          Junk          \* what may lie behind the digits of get_reg_num

ASSUME AssemblerAssumption == /\ MaxLine \in Nat \ {0}
                              /\ MaxProgram \in Nat
                              /\ Junk \subseteq Seq(STRING)

VARIABLES pc,        \* where Run is
          args,      \* the command line
          env,       \* shEnv
          source,    \* the characters of the input file
          pos,       \* how many of them have been read
          line_number, equiv_pc, lines, jump_syms, line_number_to_PC,
          itr, asm_pc, prog, inst_lengths,
          output,    \* the file written: [name, kind, file], or NoOutput
          result,    \* how it ended
          exception  \* the exception that ended it, caught or not, or "none"

vars == <<pc, args, env, source, pos, line_number, equiv_pc, lines, jump_syms,
          line_number_to_PC, itr, asm_pc, prog, inst_lengths, output, result, exception>>

pass1 == <<pos, line_number, equiv_pc, lines, jump_syms, line_number_to_PC>>
pass2 == <<itr, asm_pc, prog, inst_lengths>>
input == <<args, source>>

NoOutput == [name |-> "", kind |-> "", file |-> [depth |-> 0, lines |-> <<>>]]

-----------------------------------------------------------------------------
(* The options.                                                            *)

InputOpens(e) == e.asmInputs # <<>> /\ e.asmInputs[1] \in Readable

Stop(how) == pc' = "end" /\ result' = how /\ UNCHANGED exception
Throw(ex, how) == pc' = "end" /\ result' = how /\ exception' = ex
GoTo(place) == pc' = place /\ UNCHANGED <<result, exception>>
Stay == UNCHANGED <<pc, result, exception>>

Options ==
    /\ pc = "options"
    /\ env' = characterize_Env(args)
    /\ CASE ~env'.has_Option_AsmInput -> Stop("usage")
         [] env'.has_Option_AsmInput /\ ~(InputOpens(env') /\ OptionsComplete(env')) ->
              Stop("error")
         [] OTHER -> GoTo("pass1")
    /\ UNCHANGED <<input, pass1, pass2, output>>

-----------------------------------------------------------------------------
(* The first pass: a line of the source a step.                            *)

\* What fgets gives: to the end of the line, or as much as it has room for.
Newlines == {i \in pos + 1 .. Len(source) : source[i] = "\n"}
LineEnd == Min({pos + MaxLine, Len(source)} \cup Newlines)
current_line == SubSeq(source, pos + 1, LineEnd)

Labelled(parts) == parts # <<>> /\ Last(parts[1]) = ":"
Label(parts) == Front(parts[1])

\* The line kept for the second pass: without its label, and without its last
\* character, whether that is a newline or not.
KeptLine(parts) == Front(IF Labelled(parts) THEN trim_label(current_line) ELSE current_line)

Redefined(parts) == Labelled(parts) /\ Label(parts) \in DOMAIN jump_syms

\* Label-only and blank lines have no instruction.
HasInstruction(parts) == Len(parts) > IF Labelled(parts) THEN 1 ELSE 0

\* A table with an entry for a new key.
WithEntry(table, key, value) ==
    [k \in DOMAIN table \cup {key} |-> IF k = key THEN value ELSE table[k]]

\* Mutant of InsertSymbol: the address is that of the line of the file.
SymbolOfLine(parts) ==
    IF Labelled(parts) THEN jump_syms' = WithEntry(jump_syms, Label(parts), 4 * line_number)
    ELSE UNCHANGED jump_syms

InsertSymbol(parts) ==
    IF Labelled(parts) THEN jump_syms' = WithEntry(jump_syms, Label(parts), equiv_pc)
    ELSE UNCHANGED jump_syms

ReadInstruction(parts) ==
    /\ HasInstruction(parts)
    /\ line_number_to_PC' = WithEntry(line_number_to_PC, line_number', equiv_pc)
    /\ equiv_pc' = equiv_pc + 4
    /\ lines' = Append(lines, KeptLine(parts))

ReadNoInstruction(parts) == /\ ~HasInstruction(parts)
                            /\ UNCHANGED <<line_number_to_PC, equiv_pc, lines>>

\* mt_bad_escape and mt_multidef_symbol end the run.
ReadLine ==
    /\ pc = "pass1" /\ pos < Len(source)
    /\ pos' = LineEnd
    /\ line_number' = line_number + 1
    /\ \E cut \in {chop_string[current_line]} :
           \/ /\ ~cut.ok
              /\ Throw("mt_bad_escape", "error")
              /\ UNCHANGED <<equiv_pc, lines, jump_syms, line_number_to_PC>>
           \/ /\ cut.ok /\ Redefined(cut.words)
              /\ Throw("mt_multidef_symbol", "error")
              /\ UNCHANGED <<equiv_pc, lines, jump_syms, line_number_to_PC>>
           \/ /\ cut.ok /\ ~Redefined(cut.words)
              /\ InsertSymbol(cut.words)
              /\ ReadInstruction(cut.words) \/ ReadNoInstruction(cut.words)
              /\ Stay
    /\ UNCHANGED <<input, env, pass2, output>>

\* Mutant of EndOfSource: waits for a line to assemble.
EndOfSomeSource == /\ pc = "pass1" /\ pos = Len(source)
                   /\ lines # <<>>
                   /\ GoTo("pass2")
                   /\ UNCHANGED <<input, env, pass1, pass2, output>>

EndOfSource == /\ pc = "pass1" /\ pos = Len(source)
               /\ GoTo("pass2")
               /\ UNCHANGED <<input, env, pass1, pass2, output>>

-----------------------------------------------------------------------------
(* The second pass: AsmFlash, a line a step.                               *)

\* The bytes go to the end of the program; a full program is an exception.
WriteInstruction(bytes) ==
    IF Len(prog) + Len(bytes) =< MaxProgram
    THEN /\ prog' = prog \o bytes
         /\ asm_pc' = asm_pc + Len(bytes)
         /\ inst_lengths' = Append(inst_lengths, Len(bytes))
         /\ itr' = itr + 1
         /\ Stay
    ELSE /\ Throw("mt_program_size_violation", "terminated")
         /\ prog' = prog \o SubSeq(bytes, 1, MaxProgram - Len(prog))
         /\ UNCHANGED <<itr, asm_pc, inst_lengths>>

\* The line is cut outside of the try block, and assembled inside of it.
AsmFlash ==
    /\ pc = "pass2" /\ itr =< Len(lines)
    /\ \E cut \in {chop_string[lines[itr]]} :
           \/ /\ ~cut.ok
              /\ Throw("mt_bad_escape", "terminated")
              /\ UNCHANGED pass2
           \/ /\ cut.ok
              /\ \E junk \in [1 .. 3 -> Junk] :
                 \E inst \in {assemble(cut.words, asm_pc, jump_syms, junk)} :
                     \/ /\ inst.ex # "none"
                        /\ Throw(inst.ex, "error")
                        /\ UNCHANGED pass2
                     \/ inst.ex = "none" /\ WriteInstruction(inst.bytes)
    /\ UNCHANGED <<input, env, pass1, output>>

EndOfLines == /\ pc = "pass2" /\ itr > Len(lines)
              /\ GoTo("dump")
              /\ UNCHANGED <<input, env, pass1, pass2, output>>

-----------------------------------------------------------------------------
(* The file.                                                               *)

DefaultName == [bin |-> "a.bin", hex |-> "a.hex", mif |-> "a.mif"]
OutputName == IF env.has_Option_AsmOutput THEN env.asmOutput ELSE DefaultName[env.st]

\* Where the i-th instruction begins: the lengths of those before it.
Offset(i) == LET sum[n \in 0 .. i - 1] == IF n = 0 THEN 0 ELSE sum[n - 1] + inst_lengths[n]
             IN  sum[i - 1]

\* The program is read back instruction by instruction.
Instructions == [i \in 1 .. Len(inst_lengths) |->
                    SubSeq(prog, Offset(i) + 1, Offset(i) + inst_lengths[i])]

Dump == /\ pc = "dump"
        /\ \/ /\ OutputName \in Writable
              /\ output' = [name |-> OutputName, kind |-> env.st,
                            file |-> Written(env.st, env.width, Instructions)]
              /\ Stop("done")
           \/ /\ OutputName \notin Writable
              /\ Throw("mt_illegal_file_error", "error")
              /\ UNCHANGED output
        /\ UNCHANGED <<input, env, pass1, pass2>>

-----------------------------------------------------------------------------
Init == /\ pc = "options"
        /\ args \in Seq(STRING)
        /\ source \in Texts
        /\ env = DefaultEnv
        /\ pos = 0 /\ line_number = 0 /\ equiv_pc = 0
        /\ lines = <<>>
        /\ jump_syms = <<>>
        /\ line_number_to_PC = <<>>
        /\ itr = 1 /\ asm_pc = 0
        /\ prog = <<>>
        /\ inst_lengths = <<>>
        /\ output = NoOutput
        /\ result = "running" /\ exception = "none"

Next == Options \/ ReadLine \/ EndOfSource \/ AsmFlash \/ EndOfLines \/ Dump

Spec == Init /\ [][Next]_vars

\* The process runs.
FairSpec == Spec /\ WF_vars(Next)
-----------------------------------------------------------------------------
(* Properties.                                                             *)

Places == {"options", "pass1", "pass2", "dump", "end"}
Results == {"running", "usage", "error", "terminated", "done"}

\* The types of the variables; the program is made of bytes.
TypeOK == /\ pc \in Places
          /\ result \in Results /\ exception \in AsmExceptions \cup {"none"}
          /\ args \in Seq(STRING) /\ source \in Seq(STRING)
          /\ env \in Envs
          /\ pos \in 0 .. Len(source)
          /\ line_number \in Nat /\ equiv_pc \in Nat /\ asm_pc \in Nat
          /\ lines \in Seq(Seq(STRING))
          /\ \A l \in DOMAIN jump_syms : jump_syms[l] \in Nat
          /\ \A n \in DOMAIN line_number_to_PC : line_number_to_PC[n] \in Nat
          /\ itr \in 1 .. Len(lines) + 1
          /\ prog \in Seq(0 .. 255) /\ Len(prog) =< MaxProgram
          /\ inst_lengths \in Seq(Nat)
          /\ result # "done" => output = NoOutput

\* Where the second pass puts the instruction of the n-th line kept.
AddressOfLine(n) == 4 * (n - 1)

\* The addresses of the lines kept, and the end of the program.
Boundaries == {AddressOfLine(n) : n \in 1 .. Len(lines) + 1}

\* The two passes count alike.  The first one gives out addresses by adding 4 a
\* line it keeps, the second adds the bytes it has written: they agree, so that
\* every label is the address of an instruction (or the end), and the lines of
\* the source with an instruction have the addresses in their order.
PassesAgree ==
    /\ equiv_pc = AddressOfLine(Len(lines) + 1)
    /\ asm_pc = AddressOfLine(itr)
    /\ itr =< Len(lines) + 1
    /\ \A l \in DOMAIN jump_syms : jump_syms[l] \in Boundaries
    /\ \A n \in DOMAIN line_number_to_PC :
           /\ n =< line_number
           /\ line_number_to_PC[n] < equiv_pc
           /\ \A m \in DOMAIN line_number_to_PC :
                  n < m => line_number_to_PC[n] < line_number_to_PC[m]

\* The value of the last of an option's arguments, or the default.
Uses(option) == {i \in 1 .. Len(args) - 1 : args[i] = option}
ValueAfter(option, default) ==
    IF Uses(option) = {} THEN default ELSE args[Max(Uses(option)) + 1]

\* The width of the words that was asked for.
WidthAsked == IF Uses("-b") = {} THEN 4 ELSE AtoiOf(ValueAfter("-b", ""))

\* The k-th byte of a printed word, from its end.
PrintedByte(digits, k) == 16 * digits[Len(digits) - 2 * k + 1] + digits[Len(digits) - 2 * k + 2]

\* The words of hexadecimal digits are the instructions, highest byte first.
HexIsProgram(words) ==
    /\ 4 * Len(words) = Len(prog)
    /\ \A i \in 1 .. Len(words) : \A k \in 1 .. 4 :
           PrintedByte(words[i], k) = prog[4 * (i - 1) + k]

\* The words of a mif file are as many as its DEPTH says, of the width that was
\* asked for, with the bytes of the program in their order (also over the ends of
\* the words) and zeros behind the last one.
MifIsProgram(words, width) ==
    /\ Len(words) = output.file.depth
    /\ Len(words) * width \in Len(prog) .. Len(prog) + width - 1
    /\ \A i \in 1 .. Len(words) :
           /\ Len(words[i]) = 2 * width
           /\ \A k \in 1 .. width :
                  LET n == width * (i - 1) + k
                  IN  PrintedByte(words[i], k) = IF n =< Len(prog) THEN prog[n] ELSE 0

\* The file is the program, in the format and under the name the options ask for
\* last: the bytes as they are, or words of hexadecimal digits.
FileIsProgram ==
    result = "done" =>
        LET kind == ValueAfter("-s", "bin")
            words == output.file.lines
        IN  /\ output.kind = kind
            /\ output.name = ValueAfter("-o", DefaultName[kind])
            /\ kind = "bin" => FlattenSeq(words) = prog
            /\ kind = "hex" => HexIsProgram(words)
            /\ kind = "mif" => MifIsProgram(words, WidthAsked)

\* Every run of the assembler comes to its end, whatever the file holds.
EveryRunEnds == <>(pc = "end")
=============================================================================
