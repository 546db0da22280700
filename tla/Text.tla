--------------------------------- MODULE Text ---------------------------------
(***************************************************************************)
(* The text handling the command-line tools share: cutting a line into     *)
(* words (chop_string of shell.cpp), dropping a label (trim_label) and     *)
(* reading a number (ustrop).                                              *)
(*                                                                         *)
(* A text is a sequence of characters.  A character is a string of length  *)
(* one, but for names that are never looked into: such a name (a mnemonic, *)
(* "zero") stands in a text as if it were one character.                   *)
(***************************************************************************)
EXTENDS Integers, SequencesExt

Quotes == {"\"", "'"}
Separators == {",", " ", "\t", "\n", "\r"}

\* The part of a line before the first occurrence of a character of the set.
Before(stops, line) ==
    LET hit == SelectInSeq(line, LAMBDA c : c \in stops)
    IN  IF hit = 0 THEN line ELSE SubSeq(line, 1, hit - 1)

-----------------------------------------------------------------------------
(* chop_string *)

Texts == Seq(STRING)

\* Which characters a backslash has escaped.  It escapes one, and no other backslash
\* than itself needs escaping.
Escaped(line) ==
    LET has_escaped[i \in 1 .. Len(line) + 1] ==
            i > 1 /\ line[i - 1] = "\\" /\ ~has_escaped[i - 1]
    IN  has_escaped

\* Which places are quoted.  Quotes of either kind open and close the same state.
Quoted(line, has_escaped) ==
    LET in_quotes[i \in 1 .. Len(line) + 1] ==
            i > 1 /\ in_quotes[i - 1] # (line[i - 1] \in Quotes /\ ~has_escaped[i - 1])
    IN  in_quotes

\* The words of a line without a comment: what is between two separators, unless
\* it is empty, without the quotes and backslashes.  Of the first i characters
\* str_vec[i] are the words that have ended, and built_string[i] is the one after.
WordsOf(line, has_escaped, in_quotes) ==
    LET separates(i) == line[i] \in Separators /\ ~has_escaped[i] /\ ~in_quotes[i]
        dropped(i) == line[i] \in Quotes \cup {"\\"} /\ ~has_escaped[i]
        built_string[i \in 0 .. Len(line)] ==
            IF i = 0 \/ separates(i) THEN <<>>
            ELSE IF dropped(i) THEN built_string[i - 1]
            ELSE Append(built_string[i - 1], line[i])
        str_vec[i \in 0 .. Len(line) + 1] ==
            IF i = 0 THEN <<>>
            ELSE IF (i = Len(line) + 1 \/ separates(i)) /\ built_string[i - 1] # <<>>
            THEN Append(str_vec[i - 1], built_string[i - 1])
            ELSE str_vec[i - 1]
    IN  str_vec[Len(line) + 1]

\* A comment starts at the first semicolon, quoted or not.  A line that ends
\* escaped or quoted is refused (mt_bad_escape).
chop_string[input \in Texts] ==
    LET line == Before({";"}, input)
        has_escaped == Escaped(line)
        in_quotes == Quoted(line, has_escaped)
    IN  [ok |-> ~has_escaped[Len(line) + 1] /\ ~in_quotes[Len(line) + 1],
         words |-> WordsOf(line, has_escaped, in_quotes)]

\* What follows the first colon.
trim_label(line) ==
    LET colon == SelectInSeq(line, LAMBDA c : c = ":")
    IN  IF colon = 0 THEN <<>> ELSE SubSeq(line, colon + 1, Len(line))

-----------------------------------------------------------------------------
(* Numbers: StrToUInt32 and StrToUInt64, numeric_interpret and has_prefix.  *)

LowerDigits == <<"0", "1", "2", "3", "4", "5", "6", "7", "8", "9",
                 "a", "b", "c", "d", "e", "f">>
UpperDigits == <<"0", "1", "2", "3", "4", "5", "6", "7", "8", "9",
                 "A", "B", "C", "D", "E", "F">>

\* The value of a digit; -1 of another character.
DigitValue(c) == Max({SelectInSeq(LowerDigits, LAMBDA d : d = c),
                      SelectInSeq(UpperDigits, LAMBDA d : d = c)}) - 1

IsDigit(c, base) == DigitValue(c) \in 0 .. base - 1

\* A prefix counts only when something follows it.
has_prefix(str, prefix) == IF IsStrictPrefix(prefix, str)
                           THEN SubSeq(str, Len(prefix) + 1, Len(str)) ELSE <<>>

\* The digits of a number and their base: 0x and o are prefixes, else decimal.
Numeral(str) ==
    LET hex == has_prefix(str, <<"0", "x">>)
        octal == has_prefix(str, <<"o">>)
    IN  CASE hex # <<>> -> [base |-> 16, digits |-> hex]
          [] hex = <<>> /\ octal # <<>> -> [base |-> 8, digits |-> octal]
          [] OTHER -> [base |-> 10, digits |-> str]

ValueOf(digits, base) ==
    LET value[n \in 0 .. Len(digits)] ==
            IF n = 0 THEN 0 ELSE value[n - 1] * base + DigitValue(digits[n])
    IN  value[Len(digits)]

\* strtoul: a minus sign negates; whatever is left over makes it mt_bad_imm,
\* the empty string is zero, and a sign alone is no number.  (White space before
\* the digits, which only an escape can bring here, is not modelled.)
numeric_interpret(str) ==
    LET n == Numeral(str)
        signed == n.digits # <<>> /\ n.digits[1] \in {"-", "+"}
        digits == IF signed THEN Tail(n.digits) ELSE n.digits
        value == ValueOf(digits, n.base)
    IN  IF /\ \A i \in 1 .. Len(digits) : IsDigit(digits[i], n.base)
           /\ signed => digits # <<>>
        THEN [ok |-> TRUE, value |-> IF signed /\ n.digits[1] = "-" THEN -value ELSE value]
        ELSE [ok |-> FALSE, value |-> 0]
=============================================================================
