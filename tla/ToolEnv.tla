------------------------------- MODULE ToolEnv -------------------------------
(***************************************************************************)
(* The options of the assembler and of the loader: env.cpp and env.h.      *)
(*                                                                         *)
(* A command line is a sequence of arguments.                              *)
(***************************************************************************)
EXTENDS Integers, SequencesExt

CONSTANT Atoi   \* the value of an argument that is a number, after the conversion
                \* to unsigned

ASSUME ToolEnvAssumption == /\ \A arg \in DOMAIN Atoi : Atoi[arg] \in Nat
                            /\ "" \in STRING

\* What shEnv holds.
Envs == [mode : {"INTERACTIVE", "MACHINE"},
         has_Option_AsmInput : BOOLEAN, asmInputs : Seq(STRING),
         has_Option_AsmOutput : BOOLEAN, has_AsmOutput_Value : BOOLEAN,
         asmOutput : STRING,
         has_Option_AsmStrMode : BOOLEAN, has_AsmStrMode_Value : BOOLEAN,
         st : {"bin", "hex", "mif"},
         has_Option_WordSize : BOOLEAN, has_WordSize_Value : BOOLEAN,
         width : Nat]

DefaultEnv == [mode |-> "INTERACTIVE",
               has_Option_AsmInput |-> FALSE, asmInputs |-> <<>>,
               has_Option_AsmOutput |-> FALSE, has_AsmOutput_Value |-> FALSE,
               asmOutput |-> "",
               has_Option_AsmStrMode |-> FALSE, has_AsmStrMode_Value |-> FALSE,
               st |-> "bin",
               has_Option_WordSize |-> FALSE, has_WordSize_Value |-> FALSE,
               width |-> 4]

\* atoi makes zero of what is no number.
AtoiOf(arg) == IF arg \in DOMAIN Atoi THEN Atoi[arg] ELSE 0

\* What each option makes of the argument behind it ...
WithValue(e, option, value) ==
    CASE option = "-s" -> [e EXCEPT !.has_AsmStrMode_Value = value \in {"hex", "bin", "mif"},
                                    !.st = IF value \in {"hex", "bin", "mif"} THEN value
                                           ELSE @]
      [] option = "-b" -> [e EXCEPT !.width = AtoiOf(value),
                                    !.has_WordSize_Value = AtoiOf(value) > 0]
      [] option = "-i" -> [e EXCEPT !.asmInputs = Append(@, value)]
      [] option = "-o" -> [e EXCEPT !.has_AsmOutput_Value = TRUE, !.asmOutput = value]

\* ... and on its own.
WithOption(e, option) ==
    CASE option = "-s" -> [e EXCEPT !.has_Option_AsmStrMode = TRUE]
      [] option = "-b" -> [e EXCEPT !.has_Option_WordSize = TRUE]
      [] option = "-i" -> [e EXCEPT !.has_Option_AsmInput = TRUE, !.mode = "MACHINE"]
      [] option = "-o" -> [e EXCEPT !.has_Option_AsmOutput = TRUE, !.mode = "MACHINE"]

\* The i-th argument.  The argument after an option is its value, and is looked
\* at as an option itself in its turn.
CharacterizeArg(e, a, i) ==
    LET seen == WithOption(e, a[i])
    IN  IF a[i] \notin {"-s", "-b", "-i", "-o"} THEN e
        ELSE IF i < Len(a) THEN WithValue(seen, a[i], a[i + 1]) ELSE seen

\* The arguments one after the other.
characterize_Env(a) ==
    LET after[i \in 0 .. Len(a)] ==
            IF i = 0 THEN DefaultEnv ELSE CharacterizeArg(after[i - 1], a, i)
    IN  after[Len(a)]

\* Every option that is there has a value.
OptionsComplete(e) ==
    /\ e.has_Option_AsmOutput => e.has_AsmOutput_Value
    /\ e.has_Option_AsmStrMode => e.has_AsmStrMode_Value
    /\ e.has_Option_WordSize => e.has_WordSize_Value
=============================================================================
