------------------------------- MODULE LoaderMC -------------------------------
(***************************************************************************)
(* The loader for TLC.  The memory has four bytes, and an address that     *)
(* runs over its end starts again at zero.                                 *)
(***************************************************************************)
EXTENDS Loader

MCNumber == [w \in {"", "0", "1", "2", "3", "4", "5", "257", "-1"} |->
                CASE w = "" -> 0 [] w = "0" -> 0 [] w = "1" -> 1 [] w = "2" -> 2 [] w = "3" -> 3
                  [] w = "4" -> 4 [] w = "5" -> 5 [] w = "257" -> 257 [] w = "-1" -> -1]
MCFields == [w \in {"2", "0:1", ":3:2", "3:0:-1", "3:0", "1:1:-1", "0:3:0", "2:4", "0:", "0:1:1:1",
                    "0:x", "", "-h"} |->
                CASE w = "2" -> <<"2">> [] w = "0:1" -> <<"0", "1">> [] w = ":3:2" -> <<"", "3", "2">>
                  [] w = "3:0:-1" -> <<"3", "0", "-1">> [] w = "3:0" -> <<"3", "0">>
                  [] w = "1:1:-1" -> <<"1", "1", "-1">> [] w = "0:3:0" -> <<"0", "3", "0">>
                  [] w = "2:4" -> <<"2", "4">> [] w = "0:" -> <<"0">>
                  [] w = "0:1:1:1" -> <<"0", "1", "1", "1">> [] w = "0:x" -> <<"0", "x">>
                  [] w = "" -> <<>> [] w = "-h" -> <<"-h">>]
MCFiles == [f \in {"image", "large", "empty"} |->
               CASE f = "image" -> <<1, 1>> [] f = "large" -> <<1, 0, 1, 1, 1, 0>> [] f = "empty" -> <<>>]
MCAtoi == <<>>

Typed(words) == [ok |-> TRUE, dot |-> TRUE, words |-> words]
NoDirective == [ok |-> TRUE, dot |-> FALSE, words |-> <<"run">>]
Blank == [ok |-> TRUE, dot |-> FALSE, words |-> <<>>]
BadEscape == [ok |-> FALSE, dot |-> TRUE, words |-> <<>>]

\* Every directive, with the words it takes and with some it refuses.
Directives == {
    <<".exit">>, <<".help">>, <<".breakpoint">>, <<".run">>,
    <<".rst">>, <<".rst", "-afu">>, <<".rst", "-host">>, <<".rst", "-x">>,
    <<".sr">>, <<".sr", "-x">>,
    <<".sr", "-r", "image">>, <<".sr", "-r", "image", "1">>, <<".sr", "-r", "image", "-bige", "3">>,
    <<".sr", "-r", "image", "-bige">>, <<".sr", "-r", "image", "x">>, <<".sr", "-r", "missing", "0">>,
    <<".sr", "-r", "large", "5">>, <<".sr", "-r", "empty", "2">>,
    <<".sr", "-s", "out", "0">>, <<".sr", "-s", "out", "1", "3">>, <<".sr", "-s", "image", "x", "3">>,
    <<".sr", "-s", "out", "-bige", "3">>, <<".sr", "-s", "out", "-bige", "3", "5">>,
    <<".sr", "-s", "locked", "0", "3">>, <<".sr", "-s", "out", "0", "5">>, <<".sr", "-s", "out", "3", "1">>,
    <<".mem">>, <<".mem", "-h", "0:1", "2">>, <<".mem", "0:1", "-h", "2">>, <<".mem", ":3:2">>,
    <<".mem", "3:0:-1", "3:0">>, <<".mem", "1:1:-1", "0:3:0">>, <<".mem", "2:4">>, <<".mem", "0:", "0:1:1:1">>, <<".mem", "0:x">>,
    <<".mem", "">>,
    <<".wait", "1">>, <<".wait", "1", "257">>, <<".wait", "5", "1", "1">>, <<".wait", "1", "1", "0">>,
    <<".wait", "1", "1", "-1">>, <<".wait", "x", "1">>,
    <<".resize">>, <<".resize", "1">>, <<".resize", "2">>, <<".resize", "0">>, <<".resize", "3">>,
    <<".resize", "x">>}
MCLines == {Typed(words) : words \in Directives} \cup {NoDirective, Blank, BadEscape}

\* Scripts: what the repository's scripts do, load, run, wait and save; one that
\* leaves and waits; one that changes the memory under the AFU; a bad line.
MCScripts == [s \in {"work", "leave", "move", "bad"} |->
    CASE s = "work" -> <<Typed(<<".sr", "-r", "image", "0">>), Typed(<<".run">>),
                         Typed(<<".wait", "3", "1", "2">>), Typed(<<".sr", "-s", "out", "2", "4">>),
                         Typed(<<".exit">>)>>
      [] s = "leave" -> <<Typed(<<".exit">>), Typed(<<".wait", "0", "0">>)>>
      [] s = "move" -> <<Typed(<<".run">>), Typed(<<".resize", "1">>), Typed(<<".rst">>),
                         Typed(<<".exit">>)>>
      [] s = "bad" -> <<NoDirective, Blank, BadEscape>>]
MCCommandLines == {<<"cload">>, <<"cload", "-i">>, <<"cload", "-i", "missing">>, <<"cload", "-o", "x">>}
                  \cup {<<"cload", "-i", s>> : s \in DOMAIN MCScripts}
=============================================================================
