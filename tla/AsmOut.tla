-------------------------------- MODULE AsmOut --------------------------------
(***************************************************************************)
(* What asm_ostream (mtsstream.cpp) makes of a program, instruction by     *)
(* instruction: the bytes themselves (bin), a line of hexadecimal digits   *)
(* for each (hex), or the words of a memory initialization file (mif).     *)
(*                                                                         *)
(* A number that is printed is the sequence of its digits, 0 to 15, in the *)
(* order of the page.                                                      *)
(***************************************************************************)
EXTENDS Integers, SequencesExt

\* dynamicHexBuilder: two digits a byte, the lowest digit of the first byte last.
dynamicHexBuilder[bytes \in Seq(0 .. 255)] ==
    [i \in 1 .. 2 * Len(bytes) |->
        LET byte == bytes[Len(bytes) - (i - 1) \div 2]
        IN  IF i % 2 = 1 THEN byte \div 16 ELSE byte % 16]

\* The bytes of a printed instruction, from the back.
BytesFromBack(digits) ==
    [i \in 1 .. Len(digits) \div 2 |->
        SubSeq(digits, Len(digits) - 2 * i + 1, Len(digits) - 2 * i + 2)]

Zeros(n) == [i \in 1 .. n |-> 0]

\* Mutant of Depth: rounded down.
DepthDown(total, width) == total \div width

\* DEPTH, rounded up.
Depth(total, width) == total \div width + (IF total % width # 0 THEN 1 ELSE 0)

\* finalize: the words of the file.  Each byte goes to the left of the word under
\* way, a full word is a line, and the last one is filled with zeros on its left.
MifLines(bytes, width) ==
    [n \in 1 .. Depth(Len(bytes), width) |->
        LET first == width * (n - 1) + 1
            last == Min({width * n, Len(bytes)})
        IN  Zeros(2 * (width * n - last)) \o FlattenSeq(Reverse(SubSeq(bytes, first, last)))]

\* The file after an append for each instruction and the finalize.  A mif file
\* of no instruction stays empty.
Written(kind, width, insts) ==
    LET printed == [i \in 1 .. Len(insts) |-> dynamicHexBuilder[insts[i]]]
        bytes == FlattenSeq([i \in 1 .. Len(insts) |-> BytesFromBack(printed[i])])
    IN  CASE kind = "bin" -> [depth |-> 0, lines |-> insts]
          [] kind = "hex" -> [depth |-> 0, lines |-> printed]
          [] kind = "mif" -> [depth |-> Depth(Len(FlattenSeq(insts)), width),
                              lines |-> MifLines(bytes, width)]
=============================================================================
