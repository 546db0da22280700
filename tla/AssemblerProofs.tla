--------------------------- MODULE AssemblerProofs ---------------------------
(***************************************************************************)
(* Proofs about Assembler, for every source file, command line, size of    *)
(* the buffer of fgets and size of a program: the two passes agree on      *)
(* where every line is, the variables have their types, and the file that  *)
(* is left is the program, in the format the options ask for.              *)
(*                                                                         *)
(* That needs what the recursive functions of the model give (the words of *)
(* a line, a number, shEnv, where an instruction begins) and what          *)
(* FlattenSeq does: induction over numbers, which is the least             *)
(* counterexample of a set (Induct), and over sequences by their length.   *)
(***************************************************************************)
EXTENDS Assembler, WellFoundedInduction, TLAPS

-----------------------------------------------------------------------------
(* Induction, by way of the least counterexample, and recursion.           *)

\* A set of numbers has a least element.
LEMMA Least ==
  ASSUME NEW T \in SUBSET Nat, T # {}
  PROVE  \E n \in T : \A m \in T : n =< m
<1> DEFINE R == {ss \in Nat \X Nat : ss[1] < ss[2]}
<1>0. IsWellFoundedOn(R, Nat)
      BY NatLessThanWellFounded DEF OpToRel
<1>1. PICK n \in T : \A m \in T : <<m, n>> \notin R
      <2> HIDE DEF R
      <2> QED BY <1>0, WFMin
<1>2. ASSUME NEW m \in T PROVE n =< m
      <2>1. <<m, n>> \notin R /\ m \in Nat /\ n \in Nat BY <1>1
      <2> QED BY <2>1
<1> QED BY <1>2

\* So a set with 0 and with the successor of each of its numbers has them all.
LEMMA Induct ==
  ASSUME NEW S, 0 \in S, \A n \in Nat : n \in S => n + 1 \in S
  PROVE  Nat \subseteq S
<1> SUFFICES ASSUME Nat \ S # {} PROVE FALSE
    OBVIOUS
<1>1. PICK n \in Nat \ S : \A m \in Nat \ S : n =< m
      BY Least
<1>2. n - 1 \in Nat /\ n - 1 \notin Nat \ S /\ (n - 1) + 1 = n
      BY <1>1
<1> QED BY <1>2

\* g is the iteration of step from b on.
Iterates(g, V, b, step, n) ==
    /\ g \in [0 .. n -> V]
    /\ g[0] = b
    /\ \A i \in 1 .. n : g[i] = step[i][g[i - 1]]

\* There is such an iteration: one step more at a time.
LEMMA Recursion ==
  ASSUME NEW V, NEW b \in V, NEW step \in [Nat -> [V -> V]], NEW n \in Nat
  PROVE  \E g : Iterates(g, V, b, step, n)
<1> DEFINE Has(m) == \E g \in [0 .. m -> V] :
                        g[0] = b /\ \A i \in 1 .. m : g[i] = step[i][g[i - 1]]
           S == {m \in Nat : Has(m)}
<1>1. 0 \in S
      <2> DEFINE h == [i \in 0 .. 0 |-> b]
      <2>1. h \in [0 .. 0 -> V] /\ h[0] = b /\ \A i \in 1 .. 0 : h[i] = step[i][h[i - 1]]
            OBVIOUS
      <2> QED BY <2>1
<1>2. ASSUME NEW m \in Nat, m \in S PROVE m + 1 \in S
      <2>1. PICK g \in [0 .. m -> V] : g[0] = b /\ \A i \in 1 .. m : g[i] = step[i][g[i - 1]]
            BY <1>2
      <2> DEFINE h == [i \in 0 .. m + 1 |-> IF i =< m THEN g[i] ELSE step[m + 1][g[m]]]
      <2>2. h \in [0 .. m + 1 -> V] BY <2>1
      <2>3. h[0] = b BY <2>1
      <2>4. \A i \in 1 .. m + 1 : h[i] = step[i][h[i - 1]] BY <2>1
      <2>5. Has(m + 1) BY <2>2, <2>3, <2>4
      <2> QED BY <2>5
<1>3. Nat \subseteq S
      <2> HIDE DEF S
      <2> QED BY <1>1, <1>2, Induct
<1> QED BY <1>3 DEF Iterates

\* What holds of the beginning of a sequence of values, and of each after the one
\* before, holds of all.
LEMMA AllOfThem ==
  ASSUME NEW V, NEW n \in Nat, NEW f, f[0] \in V,
         \A i \in 1 .. n : f[i - 1] \in V => f[i] \in V
  PROVE  \A i \in 0 .. n : f[i] \in V
<1> DEFINE S == {i \in Nat : i =< n => f[i] \in V}
<1>1. 0 \in S
      OBVIOUS
<1>2. ASSUME NEW i \in Nat, i \in S PROVE i + 1 \in S
      <2> SUFFICES ASSUME i + 1 =< n PROVE f[i + 1] \in V
          OBVIOUS
      <2>1. i + 1 \in 1 .. n /\ (i + 1) - 1 = i /\ f[i] \in V BY <1>2
      <2> QED BY <2>1
<1>3. Nat \subseteq S
      <2> HIDE DEF S
      <2> QED BY <1>1, <1>2, Induct
<1> QED BY <1>3

\* The least of some numbers is one of them.
LEMMA MinOfSome ==
  ASSUME NEW T \in SUBSET Nat, T # {}
  PROVE  Min(T) \in T /\ \A n \in T : Min(T) =< n
<1>1. \E n \in T : \A m \in T : n =< m
      BY Least
<1> QED BY <1>1 DEF Min

\* So is the greatest, if none is above n.
LEMMA MaxOfSome ==
  ASSUME NEW n \in Nat, NEW T \in SUBSET (0 .. n), T # {}
  PROVE  Max(T) \in T /\ \A m \in T : m =< Max(T)
<1> DEFINE R == {n - m : m \in T}
<1>1. PICK r \in R : \A s \in R : r =< s
      <2>1. \A r \in R : r \in Nat
            <3> SUFFICES ASSUME NEW m \in T PROVE n - m \in Nat
                OBVIOUS
            <3>1. m \in 0 .. n OBVIOUS
            <3> QED BY <3>1
      <2>2. R # {}
            OBVIOUS
      <2> HIDE DEF R
      <2> QED BY <2>1, <2>2, Least
<1>2. PICK m \in T : r = n - m
      BY <1>1
<1>3. \A k \in T : k =< m
      <2> SUFFICES ASSUME NEW k \in T PROVE k =< m
          OBVIOUS
      <2>1. r =< n - k BY <1>1
      <2> QED BY <1>2, <2>1
<1>4. \E k \in T : \A j \in T : j =< k
      BY <1>3
<1> QED BY <1>4 DEF Max

-----------------------------------------------------------------------------
(* Texts.                                                                  *)

\* What precedes a comment is a text.
LEMMA BeforeIsText ==
  ASSUME NEW line \in Texts, NEW stops
  PROVE  Before(stops, line) \in Texts
<1> DEFINE hits == {i \in 1 .. Len(line) : line[i] \in stops}
<1>1. Before(stops, line) = IF hits = {} THEN line
                            ELSE IF Min(hits) = 0 THEN line ELSE SubSeq(line, 1, Min(hits) - 1)
      BY DEF Before, SelectInSeq
<1>2. CASE hits # {}
      <2>1. Len(line) \in Nat /\ hits \in SUBSET Nat BY DEF Texts
      <2>2. Min(hits) \in hits
            <3> HIDE DEF hits
            <3> QED BY <1>2, <2>1, MinOfSome
      <2> DEFINE m == Min(hits)
      <2>3. m \in 1 .. Len(line) BY <2>2
      <2>4. SubSeq(line, 1, m - 1) \in Seq(STRING)
            <3> HIDE DEF m
            <3> QED BY <2>1, <2>3 DEF Texts
      <2> QED BY <1>1, <2>4 DEF Texts
<1> QED BY <1>1, <1>2

\* What follows a label is a text.
LEMMA TrimIsText ==
  ASSUME NEW line \in Texts
  PROVE  trim_label(line) \in Texts
<1> DEFINE hits == {i \in 1 .. Len(line) : line[i] = ":"}
<1>0. <<>> \in Texts
      BY DEF Texts
<1>1. trim_label(line) = IF hits = {} THEN <<>>
                         ELSE IF Min(hits) = 0 THEN <<>> ELSE SubSeq(line, Min(hits) + 1, Len(line))
      BY DEF trim_label, SelectInSeq
<1>2. CASE hits # {}
      <2>1. Len(line) \in Nat /\ hits \in SUBSET Nat BY DEF Texts
      <2>2. Min(hits) \in hits
            <3> HIDE DEF hits
            <3> QED BY <1>2, <2>1, MinOfSome
      <2> DEFINE m == Min(hits)
      <2>3. m \in 1 .. Len(line) BY <2>2
      <2>4. SubSeq(line, m + 1, Len(line)) \in Seq(STRING)
            <3> HIDE DEF m
            <3> QED BY <2>1, <2>3 DEF Texts
      <2> QED BY <1>0, <1>1, <2>4 DEF Texts
<1> QED BY <1>0, <1>1, <1>2

\* The words of a line are texts.
LEMMA WordsAreTexts ==
  ASSUME NEW line \in Texts, NEW has_escaped, NEW in_quotes
  PROVE  WordsOf(line, has_escaped, in_quotes) \in Seq(Texts)
<1> DEFINE N == Len(line)
           separates(i) == line[i] \in Separators /\ ~has_escaped[i] /\ ~in_quotes[i]
           dropped(i) == line[i] \in Quotes \cup {"\\"} /\ ~has_escaped[i]
           built_string == CHOOSE f : f = [i \in 0 .. N |->
               IF i = 0 \/ separates(i) THEN <<>>
               ELSE IF dropped(i) THEN f[i - 1] ELSE Append(f[i - 1], line[i])]
           str_vec == CHOOSE f : f = [i \in 0 .. N + 1 |->
               IF i = 0 THEN <<>>
               ELSE IF (i = N + 1 \/ separates(i)) /\ built_string[i - 1] # <<>>
               THEN Append(f[i - 1], built_string[i - 1]) ELSE f[i - 1]]
<1>1. WordsOf(line, has_escaped, in_quotes) = str_vec[N + 1]
      BY DEF WordsOf
<1>2. /\ N \in Nat /\ N + 1 \in Nat /\ <<>> \in Texts /\ <<>> \in Seq(Texts)
      /\ \A i \in 1 .. N : line[i] \in STRING
      BY DEF Texts
<1> HIDE DEF N, separates, dropped
<1>3. \A i \in 0 .. N : built_string[i] \in Texts
      <2> DEFINE step == [i \in Nat |-> [v \in Texts |->
                             IF i \in 1 .. N
                             THEN IF separates(i) THEN <<>>
                                  ELSE IF dropped(i) THEN v ELSE Append(v, line[i])
                             ELSE v]]
      <2>1. step \in [Nat -> [Texts -> Texts]]
            <3>1. \A v \in Texts, i \in 1 .. N : Append(v, line[i]) \in Texts BY <1>2 DEF Texts
            <3> QED BY <1>2, <3>1
      <2>2. PICK g : Iterates(g, Texts, <<>>, step, N)
            <3> HIDE DEF step
            <3> QED BY <1>2, <2>1, Recursion
      <2>3. /\ g = [i \in 0 .. N |-> g[i]] /\ g[0] = <<>>
            /\ \A i \in 1 .. N : g[i - 1] \in Texts /\ g[i] = step[i][g[i - 1]]
            <3> HIDE DEF step
            <3>1. \A i \in 1 .. N : i - 1 \in 0 .. N BY <1>2
            <3> QED BY <1>2, <2>2, <3>1 DEF Iterates
      <2>4. \A i \in 1 .. N : g[i] = IF separates(i) THEN <<>>
                                     ELSE IF dropped(i) THEN g[i - 1] ELSE Append(g[i - 1], line[i])
            <3> SUFFICES ASSUME NEW i \in 1 .. N
                         PROVE  g[i] = IF separates(i) THEN <<>>
                                       ELSE IF dropped(i) THEN g[i - 1]
                                       ELSE Append(g[i - 1], line[i])
                OBVIOUS
            <3>1. i \in Nat BY <1>2
            <3> QED BY <2>3, <3>1
      <2> HIDE DEF step
      <2>5. g = [i \in 0 .. N |-> IF i = 0 \/ separates(i) THEN <<>>
                                  ELSE IF dropped(i) THEN g[i - 1] ELSE Append(g[i - 1], line[i])]
            <3>1. \A i \in 0 .. N : i = 0 \/ i \in 1 .. N BY <1>2
            <3> QED BY <2>3, <2>4, <3>1
      <2>6. built_string = [i \in 0 .. N |-> IF i = 0 \/ separates(i) THEN <<>>
                                ELSE IF dropped(i) THEN built_string[i - 1]
                                ELSE Append(built_string[i - 1], line[i])]
            BY <2>5
      <2> HIDE DEF built_string
      <2>7. built_string[0] = <<>>
            BY <1>2, <2>6
      <2>8. ASSUME NEW i \in 1 .. N, built_string[i - 1] \in Texts
            PROVE  built_string[i] \in Texts
            <3>1. i \in 0 .. N /\ i # 0 BY <1>2
            <3>2. Append(built_string[i - 1], line[i]) \in Texts BY <1>2, <2>8 DEF Texts
            <3>3. built_string[i] = IF separates(i) THEN <<>>
                                    ELSE IF dropped(i) THEN built_string[i - 1]
                                    ELSE Append(built_string[i - 1], line[i])
                  BY <2>6, <3>1
            <3> QED BY <1>2, <2>8, <3>2, <3>3
      <2> QED BY <1>2, <2>7, <2>8, AllOfThem
<1> HIDE DEF built_string
<1> DEFINE ends(i) == (i = N + 1 \/ separates(i)) /\ built_string[i - 1] # <<>>
<1>4. str_vec = CHOOSE f : f = [i \in 0 .. N + 1 |->
               IF i = 0 THEN <<>>
               ELSE IF ends(i) THEN Append(f[i - 1], built_string[i - 1]) ELSE f[i - 1]]
      OBVIOUS
<1> HIDE DEF ends, str_vec
<1>5. \A i \in 0 .. N + 1 : str_vec[i] \in Seq(Texts)
      <2> DEFINE step == [i \in Nat |-> [v \in Seq(Texts) |->
                             IF i \in 1 .. N + 1 /\ ends(i) THEN Append(v, built_string[i - 1])
                             ELSE v]]
      <2>1. step \in [Nat -> [Seq(Texts) -> Seq(Texts)]]
            <3>1. \A i \in 1 .. N + 1 : built_string[i - 1] \in Texts
                  <4>1. \A i \in 1 .. N + 1 : i - 1 \in 0 .. N BY <1>2
                  <4> QED BY <1>3, <4>1
            <3>2. \A v \in Seq(Texts), i \in 1 .. N + 1 :
                      Append(v, built_string[i - 1]) \in Seq(Texts)
                  BY <3>1
            <3> QED BY <1>2, <3>2
      <2>2. PICK g : Iterates(g, Seq(Texts), <<>>, step, N + 1)
            <3> HIDE DEF step
            <3> QED BY <1>2, <2>1, Recursion
      <2>3. /\ g = [i \in 0 .. N + 1 |-> g[i]] /\ g[0] = <<>>
            /\ \A i \in 1 .. N + 1 : g[i - 1] \in Seq(Texts) /\ g[i] = step[i][g[i - 1]]
            <3> HIDE DEF step
            <3>1. \A i \in 1 .. N + 1 : i - 1 \in 0 .. N + 1 BY <1>2
            <3> QED BY <1>2, <2>2, <3>1 DEF Iterates
      <2>4. \A i \in 1 .. N + 1 :
                g[i] = IF ends(i) THEN Append(g[i - 1], built_string[i - 1]) ELSE g[i - 1]
            <3> SUFFICES ASSUME NEW i \in 1 .. N + 1
                         PROVE  g[i] = IF ends(i) THEN Append(g[i - 1], built_string[i - 1])
                                       ELSE g[i - 1]
                OBVIOUS
            <3>1. i \in Nat BY <1>2
            <3> QED BY <2>3, <3>1
      <2> HIDE DEF step
      <2>5. g = [i \in 0 .. N + 1 |-> IF i = 0 THEN <<>>
                     ELSE IF ends(i) THEN Append(g[i - 1], built_string[i - 1]) ELSE g[i - 1]]
            <3>1. \A i \in 0 .. N + 1 : i = 0 \/ i \in 1 .. N + 1 BY <1>2
            <3> QED BY <2>3, <2>4, <3>1
      <2>6. str_vec = [i \in 0 .. N + 1 |-> IF i = 0 THEN <<>>
                           ELSE IF ends(i) THEN Append(str_vec[i - 1], built_string[i - 1])
                           ELSE str_vec[i - 1]]
            BY <1>4, <2>5
      <2>7. str_vec[0] = <<>>
            BY <1>2, <2>6
      <2>8. ASSUME NEW i \in 1 .. N + 1, str_vec[i - 1] \in Seq(Texts)
            PROVE  str_vec[i] \in Seq(Texts)
            <3>1. i \in 0 .. N + 1 /\ i # 0 /\ i - 1 \in 0 .. N BY <1>2
            <3>2. Append(str_vec[i - 1], built_string[i - 1]) \in Seq(Texts) BY <1>3, <2>8, <3>1
            <3>3. str_vec[i] = IF ends(i) THEN Append(str_vec[i - 1], built_string[i - 1])
                               ELSE str_vec[i - 1]
                  BY <2>6, <3>1
            <3> QED BY <2>8, <3>2, <3>3
      <2> DEFINE M == N + 1
      <2>9. /\ M \in Nat
            /\ \A i \in 1 .. M : str_vec[i - 1] \in Seq(Texts) => str_vec[i] \in Seq(Texts)
            BY <1>2, <2>8
      <2> HIDE DEF M
      <2>10. \A i \in 0 .. M : str_vec[i] \in Seq(Texts)
             BY <1>2, <2>7, <2>9, AllOfThem
      <2> QED BY <2>10 DEF M
<1>6. N + 1 \in 0 .. N + 1
      BY <1>2
<1> QED BY <1>1, <1>5, <1>6

\* So are those that chop_string cuts a line into.
LEMMA ChoppedIntoTexts ==
  ASSUME NEW text \in Texts
  PROVE  chop_string[text].words \in Seq(Texts)
<1>1. Before({";"}, text) \in Texts
      BY BeforeIsText
<1> QED BY <1>1, WordsAreTexts DEF chop_string

-----------------------------------------------------------------------------
(* Numbers.                                                                *)

\* The place of a digit is a number.
LEMMA DigitIsNumber == \A c : DigitValue(c) \in Int
<1> SUFFICES ASSUME NEW c PROVE DigitValue(c) \in Int
    OBVIOUS
<1> DEFINE lower == {i \in 1 .. Len(LowerDigits) : LowerDigits[i] = c}
           upper == {i \in 1 .. Len(UpperDigits) : UpperDigits[i] = c}
           a == IF lower # {} THEN Min(lower) ELSE 0
           b == IF upper # {} THEN Min(upper) ELSE 0
<1>1. DigitValue(c) = Max({a, b}) - 1
      BY DEF DigitValue, SelectInSeq
<1>2. lower \in SUBSET Nat /\ upper \in SUBSET Nat
      BY DEF LowerDigits, UpperDigits
<1>3. a \in Int /\ b \in Int
      <2> HIDE DEF lower, upper
      <2>1. lower # {} => Min(lower) \in Nat BY <1>2, MinOfSome
      <2>2. upper # {} => Min(upper) \in Nat BY <1>2, MinOfSome
      <2> QED BY <2>1, <2>2
<1> HIDE DEF a, b
<1>4. \E x \in {a, b} : \A y \in {a, b} : x >= y
      <2>1. CASE a >= b BY <1>3, <2>1
      <2>2. CASE b >= a BY <1>3, <2>2
      <2> QED BY <1>3, <2>1, <2>2
<1>5. Max({a, b}) \in {a, b}
      BY <1>4 DEF Max
<1> QED BY <1>1, <1>3, <1>5

\* So is what digits are worth together.
LEMMA ValueIsNumber ==
  ASSUME NEW V, NEW digits \in Seq(V), NEW base \in Nat
  PROVE  ValueOf(digits, base) \in Int
<1> DEFINE N == Len(digits)
           value == CHOOSE f : f = [n \in 0 .. N |-> IF n = 0 THEN 0
                                    ELSE f[n - 1] * base + DigitValue(digits[n])]
           step == [i \in Nat |-> [v \in Int |-> v * base + DigitValue(digits[i])]]
<1>1. ValueOf(digits, base) = value[N]
      BY DEF ValueOf
<1>2. N \in Nat
      OBVIOUS
<1>3. \A v \in Int, i \in Nat : v * base + DigitValue(digits[i]) \in Int
      BY DigitIsNumber
<1> HIDE DEF N
<1>4. step \in [Nat -> [Int -> Int]]
      BY <1>3
<1>5. PICK g : Iterates(g, Int, 0, step, N)
      <2>1. 0 \in Int OBVIOUS
      <2> HIDE DEF step
      <2> QED BY <1>2, <1>4, <2>1, Recursion
<1>6. /\ g = [n \in 0 .. N |-> g[n]] /\ g[0] = 0
      /\ \A n \in 1 .. N : g[n - 1] \in Int /\ g[n] = step[n][g[n - 1]]
      <2> HIDE DEF step
      <2>1. \A n \in 1 .. N : n - 1 \in 0 .. N BY <1>2
      <2> QED BY <1>2, <1>5, <2>1 DEF Iterates
<1>7. \A n \in 1 .. N : g[n] = g[n - 1] * base + DigitValue(digits[n])
      <2> SUFFICES ASSUME NEW n \in 1 .. N
                   PROVE  g[n] = g[n - 1] * base + DigitValue(digits[n])
          OBVIOUS
      <2>1. n \in Nat BY <1>2
      <2> QED BY <1>6, <2>1
<1> HIDE DEF step
<1>8. g = [n \in 0 .. N |-> IF n = 0 THEN 0 ELSE g[n - 1] * base + DigitValue(digits[n])]
      <2>1. \A n \in 0 .. N : n = 0 \/ n \in 1 .. N BY <1>2
      <2> QED BY <1>6, <1>7, <2>1
<1>9. value = [n \in 0 .. N |-> IF n = 0 THEN 0
                                ELSE value[n - 1] * base + DigitValue(digits[n])]
      BY <1>8
<1> HIDE DEF value
<1>10. value[0] \in Int
       BY <1>2, <1>9
<1>11. ASSUME NEW n \in 1 .. N, value[n - 1] \in Int PROVE value[n] \in Int
       <2>1. n \in 0 .. N /\ n # 0 /\ n \in Nat BY <1>2
       <2>2. value[n] = value[n - 1] * base + DigitValue(digits[n]) BY <1>9, <2>1
       <2> QED BY <1>3, <1>11, <2>1, <2>2
<1>12. \A n \in 0 .. N : value[n] \in Int
       BY <1>2, <1>10, <1>11, AllOfThem
<1> QED BY <1>1, <1>2, <1>12

\* What follows a prefix is a text.
LEMMA BehindPrefix ==
  ASSUME NEW word \in Texts, NEW prefix, Len(prefix) \in Nat
  PROVE  has_prefix(word, prefix) \in Texts
<1> DEFINE n == Len(prefix) + 1
<1>1. n \in Nat \ {0}
      OBVIOUS
<1>2. has_prefix(word, prefix) \in {SubSeq(word, n, Len(word)), <<>>}
      BY DEF has_prefix
<1> HIDE DEF n
<1>3. SubSeq(word, n, Len(word)) \in Texts /\ <<>> \in Texts
      BY <1>1 DEF Texts
<1> QED BY <1>2, <1>3

\* A numeral has a base and digits.
LEMMA NumeralOfText ==
  ASSUME NEW word \in Texts
  PROVE  Numeral(word).base \in Nat /\ Numeral(word).digits \in Texts
<1> DEFINE hex == has_prefix(word, <<"0", "x">>)
           octal == has_prefix(word, <<"o">>)
<1>1. hex \in Texts /\ octal \in Texts
      <2>1. Len(<<"0", "x">>) \in Nat /\ Len(<<"o">>) \in Nat OBVIOUS
      <2> QED BY <2>1, BehindPrefix
<1>2. Numeral(word) = CASE hex # <<>> -> [base |-> 16, digits |-> hex]
                        [] hex = <<>> /\ octal # <<>> -> [base |-> 8, digits |-> octal]
                        [] OTHER -> [base |-> 10, digits |-> word]
      BY DEF Numeral
<1> HIDE DEF hex, octal
<1> QED BY <1>1, <1>2

\* What a word is taken for is a number.
LEMMA InterpretedIsNumber ==
  ASSUME NEW word \in Texts
  PROVE  numeric_interpret(word).value \in Int
<1> DEFINE n == Numeral(word)
           signed == n.digits # <<>> /\ n.digits[1] \in {"-", "+"}
           digits == IF signed THEN Tail(n.digits) ELSE n.digits
           value == ValueOf(digits, n.base)
<1>1. n.base \in Nat /\ n.digits \in Texts
      BY NumeralOfText
<1>2. digits \in Texts
      <2> DEFINE d == n.digits
      <2>1. d \in Seq(STRING) BY <1>1 DEF Texts
      <2>2. digits \in {d, Tail(d)} /\ (digits = Tail(d) => d # <<>> \/ digits = d)
            OBVIOUS
      <2> HIDE DEF d, digits
      <2>3. d # <<>> => Tail(d) \in Seq(STRING) BY <2>1
      <2> QED BY <2>1, <2>2, <2>3 DEF Texts
<1>3. value \in Int
      <2> HIDE DEF digits, n
      <2> QED BY <1>1, <1>2, ValueIsNumber DEF Texts
<1>4. numeric_interpret(word).value \in {value, -value, 0}
      BY DEF numeric_interpret
<1> HIDE DEF value
<1> QED BY <1>3, <1>4

-----------------------------------------------------------------------------
(* Operands.                                                               *)

\* What reading an operand gives: a number, or an exception.
Operands == [ex : AsmExceptions \cup {"none"}, value : Int]

\* An exception, or a number.
LEMMA ThrowsOrGood ==
  /\ \A ex \in AsmExceptions : Throws(ex) \in Operands
  /\ \A v \in Int : Good(v) \in Operands
BY DEF Throws, Good, Operands

\* A number, ...
LEMMA ImmIsOperand ==
  ASSUME NEW word \in Texts
  PROVE  get_imm(word) \in Operands
<1>1. numeric_interpret(word).value \in Int
      BY InterpretedIsNumber
<1>2. "mt_bad_imm" \in AsmExceptions
      BY DEF AsmExceptions
<1> QED BY <1>1, <1>2, ThrowsOrGood DEF get_imm

\* ... a register, by name or by number, ...
LEMMA RegisterIsOperand ==
  ASSUME NEW word \in Texts, NEW junk \in Texts
  PROVE  Register(word, junk) \in Operands
<1>1. friendly_to_numerical(word) \in Int
      <2> DEFINE hits == {i \in 1 .. Len(FriendlyNames) : FriendlyNames[i] = word}
      <2>1. friendly_to_numerical(word) \in {0, -1, IF hits # {} THEN Min(hits) ELSE 0}
            BY DEF friendly_to_numerical, SelectInSeq
      <2>2. hits \in SUBSET Nat
            <3>1. Len(FriendlyNames) \in Nat BY DEF FriendlyNames
            <3> QED BY <3>1
      <2>3. hits # {} => Min(hits) \in Nat
            <3> HIDE DEF hits
            <3> QED BY <2>2, MinOfSome
      <2> QED BY <2>1, <2>3
<1>2. get_reg_num(word, junk) \in Operands
      <2>1. CASE Len(word) =< 1
            BY <2>1, ThrowsOrGood DEF get_reg_num, AsmExceptions
      <2>2. CASE Len(word) > 1 /\ word[1] # "$"
            BY <2>2, ThrowsOrGood DEF get_reg_num, AsmExceptions
      <2>3. CASE Len(word) > 1 /\ word[1] = "$"
            <3>1. Tail(word) \o junk \in Texts BY <2>3 DEF Texts
            <3>2. ValueOf(Tail(word) \o junk, 10) \in Int
                  <4> DEFINE digits == Tail(word) \o junk
                  <4> HIDE DEF digits
                  <4>1. digits \in Seq(STRING) BY <3>1 DEF digits, Texts
                  <4>2. ValueOf(digits, 10) \in Int BY <4>1, ValueIsNumber
                  <4> QED BY <4>2 DEF digits
            <3>3. /\ Throws("mt_bad_reg_format") \in Operands
                  /\ Good(ValueOf(Tail(word) \o junk, 10)) \in Operands
                  BY <3>2, ThrowsOrGood DEF AsmExceptions
            <3>4. Len(word) \in Nat BY DEF Texts
            <3> QED BY <2>3, <3>3, <3>4 DEF get_reg_num
      <2>4. Len(word) \in Nat BY DEF Texts
      <2> QED BY <2>1, <2>2, <2>3, <2>4
<1>3. Good(friendly_to_numerical(word)) \in Operands
      BY <1>1, ThrowsOrGood
<1> QED BY <1>2, <1>3 DEF Register

\* ... or an address, as such or as the distance to it.
LEMMA AddressIsOperand ==
  ASSUME NEW word \in Texts, NEW at \in Int,
         NEW syms, \A l \in DOMAIN syms : syms[l] \in Int
  PROVE  Distance(word, at, syms) \in Operands /\ Target(word, syms) \in Operands
<1>1. get_imm(word) \in Operands
      BY ImmIsOperand
<1>2. word \in DOMAIN syms => Good(syms[word]) \in Operands
      BY ThrowsOrGood
<1>3. ASSUME word \in DOMAIN syms
      PROVE  Good(offset_to_address_br(at, syms[word])) \in Operands
      <2>1. \A d \in Int : d \div 4 \in Int /\ (d \div 4) % 65536 \in Int OBVIOUS
      <2>2. 2 ^ 16 = 65536 OBVIOUS
      <2>3. syms[word] - at - 4 \in Int BY <1>3
      <2>4. offset_to_address_br(at, syms[word]) \in Int
            BY <2>1, <2>2, <2>3 DEF offset_to_address_br
      <2> QED BY <2>4, ThrowsOrGood
<1> QED BY <1>1, <1>2, <1>3 DEF Distance, Target

-----------------------------------------------------------------------------
(* Instructions.                                                           *)

Bytes == 0 .. 255

\* A part of a number that fits into a byte, and two halves of one.
LEMMA PartsAreBytes ==
  \A m, n \in Int : /\ m % 256 \in Bytes
                    /\ (m \div 256) % 256 \in Bytes
                    /\ Nibbles(m, n) \in Bytes
BY DEF Bytes, Nibbles

\* The opcode of an instruction is a byte, ...
LEMMA OpcodesAreBytes == \A m \in DOMAIN Opcodes : Opcodes[m] \in Bytes
BY DEF Opcodes, Bytes

\* ... also with bits of a register in it.
LEMMA OrIsByte == \A m, n : OrBytes(m, n) \in Bytes
<1> SUFFICES ASSUME NEW m, NEW n PROVE OrBytes(m, n) \in Bytes
    OBVIOUS
<1> DEFINE or(i) == IF Bit(m, i) = 1 \/ Bit(n, i) = 1 THEN 2 ^ i ELSE 0
<1>1. /\ 2 ^ 0 = 1 /\ 2 ^ 1 = 2 /\ 2 ^ 2 = 4 /\ 2 ^ 3 = 8
      /\ 2 ^ 4 = 16 /\ 2 ^ 5 = 32 /\ 2 ^ 6 = 64 /\ 2 ^ 7 = 128
      OBVIOUS
<1>2. /\ or(0) \in {0, 1} /\ or(1) \in {0, 2} /\ or(2) \in {0, 4} /\ or(3) \in {0, 8}
      /\ or(4) \in {0, 16} /\ or(5) \in {0, 32} /\ or(6) \in {0, 64} /\ or(7) \in {0, 128}
      BY <1>1
<1>3. OrBytes(m, n) = or(0) + or(1) + or(2) + or(3) + or(4) + or(5) + or(6) + or(7)
      BY DEF OrBytes
<1> HIDE DEF or
<1> QED BY <1>2, <1>3 DEF Bytes

\* Every mnemonic has a format.
LEMMA FormatsComplete ==
  DOMAIN Opcodes \subseteq l_inst \cup r_inst \cup i_inst \cup d_inst
BY DEF Opcodes, l_inst, r_inst, i_inst, d_inst

\* Every format has four bytes.
LEMMA FormatLength ==
  ASSUME NEW op, NEW words, NEW at, NEW syms, NEW junk
  PROVE  /\ Len(AssembleL(op, words, at, syms, junk).bytes) = 4
         /\ Len(AssembleR(op, words, junk).bytes) = 4
         /\ Len(AssembleI(op, words, syms).bytes) = 4
         /\ Len(AssembleD(op, words, junk).bytes) = 4
<1>1. \A a, b, c, d : Len(<<a, b, c, d>>) = 4
  OBVIOUS
<1>2. \A operands, bytes : Inst(operands, bytes).bytes = bytes
  BY DEF Inst
<1>. QED BY <1>1, <1>2 DEF AssembleL, AssembleR, AssembleI, AssembleD,
                           EncodeL, EncodeR, EncodeI, EncodeD

\* Every instruction that is assembled has four bytes.
LEMMA AssembleLength ==
  ASSUME NEW words, NEW at, NEW syms, NEW junk,
         assemble(words, at, syms, junk).ex = "none"
  PROVE  Len(assemble(words, at, syms, junk).bytes) = 4
<1>1. CASE words = <<>>
  BY <1>1 DEF assemble
<1>. DEFINE refused == \/ ~IsMnemonic(words[1])
                       \/ Len(words) # WordCount(words[1][1])
<1>2. CASE words # <<>> /\ refused
  BY <1>2 DEF assemble, Refused
<1>3. CASE words # <<>> /\ ~refused
  <2>1. words[1][1] \in l_inst \cup r_inst \cup i_inst \cup d_inst
    BY <1>3, FormatsComplete DEF IsMnemonic
  <2>. QED BY <1>3, <2>1, FormatLength DEF assemble
<1>. QED BY <1>1, <1>2, <1>3

\* What assembling a line gives: the bytes, or an exception.
Assembled == [ex : AsmExceptions \cup {"none"}, bytes : Seq(Bytes)]

\* The first operand that is wrong decides.
LEMMA InstType ==
  ASSUME NEW operands \in Seq(Operands), NEW bytes \in Seq(Bytes)
  PROVE  Inst(operands, bytes) \in Assembled
<1> DEFINE wrong == {i \in 1 .. Len(operands) : operands[i].ex # "none"}
<1>1. Inst(operands, bytes) = [ex |-> IF wrong = {} THEN "none" ELSE operands[Min(wrong)].ex,
                               bytes |-> bytes]
      BY DEF Inst
<1>2. wrong \in SUBSET Nat /\ \A i \in wrong : operands[i] \in Operands
      OBVIOUS
<1> HIDE DEF wrong
<1>3. wrong # {} => operands[Min(wrong)] \in Operands
      BY <1>2, MinOfSome
<1> QED BY <1>1, <1>3 DEF Operands, Assembled

\* The four bytes of each format.
LEMMA EncodedInBytes ==
  ASSUME NEW op \in Bytes, NEW rd \in Int, NEW rs \in Int, NEW rt \in Int
  PROVE  /\ EncodeL(op, rd, rs, rt) \in Seq(Bytes)
         /\ EncodeR(op, rd, rs, rt) \in Seq(Bytes)
         /\ EncodeI(op, rt) \in Seq(Bytes)
         /\ EncodeD(op, rd) \in Seq(Bytes)
<1>1. \A a, b, c, d \in Bytes : <<a, b, c, d>> \in Seq(Bytes)
      OBVIOUS
<1>2. 0 \in Bytes /\ 0 \in Int
      BY DEF Bytes
<1>3. /\ rt % 256 \in Bytes /\ (rt \div 256) % 256 \in Bytes
      /\ Nibbles(rd, rs) \in Bytes /\ Nibbles(rt, 0) \in Bytes /\ Nibbles(rd, 0) \in Bytes
      BY <1>2, PartsAreBytes
<1>4. OrBytes(op, (rd \div 16) % 256) \in Bytes
      BY OrIsByte
<1> QED BY <1>1, <1>2, <1>3, <1>4 DEF EncodeL, EncodeR, EncodeI, EncodeD

\* A line is assembled to bytes, or refused.
LEMMA AssembledType ==
  ASSUME NEW words \in Seq(Texts), NEW at \in Int,
         NEW syms, \A l \in DOMAIN syms : syms[l] \in Int,
         NEW junk \in [1 .. 3 -> Texts]
  PROVE  assemble(words, at, syms, junk) \in Assembled
<1> DEFINE mnemonic == words[1][1]
           op == Opcodes[mnemonic]
<1>0. /\ \A ex \in AsmExceptions : Refused(ex) \in Assembled
      /\ [ex |-> "none", bytes |-> <<0, 0, 0, 0>>] \in Assembled
      <2>1. <<0, 0, 0, 0>> \in Seq(Bytes) /\ <<>> \in Seq(Bytes) BY DEF Bytes
      <2> QED BY <2>1 DEF Refused, Assembled
<1>1. CASE words = <<>>
      BY <1>0, <1>1 DEF assemble
<1>2. CASE words # <<>> /\ ~IsMnemonic(words[1])
      <2>1. assemble(words, at, syms, junk) = Refused("mt_bad_mnemonic") BY <1>2 DEF assemble
      <2> QED BY <1>0, <2>1 DEF AsmExceptions
<1>3. CASE words # <<>> /\ IsMnemonic(words[1]) /\ Len(words) # WordCount(mnemonic)
      <2>1. assemble(words, at, syms, junk) = Refused("mt_asm_bad_arg_count")
            BY <1>3 DEF assemble
      <2> QED BY <1>0, <2>1 DEF AsmExceptions
<1>4. CASE words # <<>> /\ IsMnemonic(words[1]) /\ Len(words) = WordCount(mnemonic)
      <2>1. mnemonic \in DOMAIN Opcodes /\ op \in Bytes
            BY <1>4, OpcodesAreBytes DEF IsMnemonic
      <2>2. mnemonic \in l_inst \cup r_inst \cup i_inst \cup d_inst
            BY <2>1, FormatsComplete
      <2> HIDE DEF mnemonic, op
      <2>3. \A i \in 1 .. Len(words) : words[i] \in Texts
            OBVIOUS
      <2>4. ASSUME NEW i \in 2 .. Len(words), NEW j \in 1 .. 3
            PROVE  /\ Register(words[i], junk[j]) \in Operands
                   /\ Distance(words[i], at, syms) \in Operands
                   /\ Target(words[i], syms) \in Operands
            <3>1. words[i] \in Texts /\ junk[j] \in Texts BY <2>3
            <3> QED BY <3>1, RegisterIsOperand, AddressIsOperand
      <2>5. /\ \A o \in Operands : <<o>> \in Seq(Operands) /\ o.value \in Int
            /\ \A o, p, q \in Operands : <<o, p, q>> \in Seq(Operands)
            BY DEF Operands
      <2>6. mnemonic \in l_inst \cup r_inst => Len(words) = 4
            BY <1>4 DEF WordCount
      <2>7. Len(words) >= 2
            BY <1>4 DEF WordCount
      <2>8. ASSUME mnemonic \in l_inst
            PROVE  AssembleL(op, words, at, syms, junk) \in Assembled
            <3> DEFINE rd == Register(words[2], junk[1])
                       rs == Register(words[3], junk[2])
                       imm == Distance(words[4], at, syms)
            <3>0. {2, 3, 4} \subseteq 2 .. Len(words) /\ {1, 2, 3} \subseteq 1 .. 3
                  <4>1. Len(words) = 4 BY <2>6, <2>8
                  <4> QED BY <4>1
            <3>1. rd \in Operands /\ rs \in Operands /\ imm \in Operands
                  BY <2>4, <3>0
            <3>2. AssembleL(op, words, at, syms, junk)
                      = Inst(<<rd, rs, imm>>, EncodeL(op, rd.value, rs.value, imm.value))
                  BY DEF AssembleL
            <3> HIDE DEF rd, rs, imm
            <3> QED BY <2>1, <2>5, <3>1, <3>2, InstType, EncodedInBytes
      <2>9. ASSUME mnemonic \in r_inst
            PROVE  AssembleR(op, words, junk) \in Assembled
            <3> DEFINE rd == Register(words[2], junk[1])
                       rs == Register(words[3], junk[2])
                       rt == Register(words[4], junk[3])
            <3>0. {2, 3, 4} \subseteq 2 .. Len(words) /\ {1, 2, 3} \subseteq 1 .. 3
                  <4>1. Len(words) = 4 BY <2>6, <2>9
                  <4> QED BY <4>1
            <3>1. rd \in Operands /\ rs \in Operands /\ rt \in Operands
                  BY <2>4, <3>0
            <3>2. AssembleR(op, words, junk)
                      = Inst(<<rd, rs, rt>>, EncodeR(op, rd.value, rs.value, rt.value))
                  BY DEF AssembleR
            <3> HIDE DEF rd, rs, rt
            <3> QED BY <2>1, <2>5, <3>1, <3>2, InstType, EncodedInBytes
      <2>10. AssembleI(op, words, syms) \in Assembled
            <3> DEFINE imm == Target(words[2], syms)
            <3>1. imm \in Operands
                  BY <2>4, <2>7
            <3>2. AssembleI(op, words, syms) = Inst(<<imm>>, EncodeI(op, imm.value))
                  BY DEF AssembleI
            <3> HIDE DEF imm
            <3>3. 0 \in Int OBVIOUS
            <3> QED BY <2>1, <2>5, <3>1, <3>2, <3>3, InstType, EncodedInBytes
      <2>11. AssembleD(op, words, junk) \in Assembled
            <3> DEFINE rd == Register(words[2], junk[1])
            <3>1. rd \in Operands
                  BY <2>4, <2>7
            <3>2. AssembleD(op, words, junk) = Inst(<<rd>>, EncodeD(op, rd.value))
                  BY DEF AssembleD
            <3> HIDE DEF rd
            <3>3. 0 \in Int OBVIOUS
            <3> QED BY <2>1, <2>5, <3>1, <3>2, <3>3, InstType, EncodedInBytes
      <2>12. assemble(words, at, syms, junk)
                 = CASE mnemonic \in l_inst -> AssembleL(op, words, at, syms, junk)
                     [] mnemonic \in r_inst -> AssembleR(op, words, junk)
                     [] mnemonic \in i_inst -> AssembleI(op, words, syms)
                     [] mnemonic \in d_inst -> AssembleD(op, words, junk)
             BY <1>4 DEF assemble, op, mnemonic
      <2>13. \/ /\ mnemonic \in l_inst
                /\ assemble(words, at, syms, junk) = AssembleL(op, words, at, syms, junk)
             \/ /\ mnemonic \in r_inst
                /\ assemble(words, at, syms, junk) = AssembleR(op, words, junk)
             \/ assemble(words, at, syms, junk) = AssembleI(op, words, syms)
             \/ assemble(words, at, syms, junk) = AssembleD(op, words, junk)
             BY <2>2, <2>12
      <2> QED BY <2>8, <2>9, <2>10, <2>11, <2>13
<1> QED BY <1>1, <1>2, <1>3, <1>4

-----------------------------------------------------------------------------
(* The command line: shEnv is what it is taken for.                        *)

\* What the program starts with.
LEMMA DefaultIsEnv == DefaultEnv \in Envs
<1>1. <<>> \in Seq(STRING)
      OBVIOUS
<1> QED BY <1>1, ToolEnvAssumption DEF DefaultEnv, Envs

\* What an option makes of it, ...
LEMMA WithOptionType ==
  ASSUME NEW e \in Envs, NEW option \in {"-s", "-b", "-i", "-o"}
  PROVE  WithOption(e, option) \in Envs
<1>1. CASE option = "-s" BY <1>1 DEF WithOption, Envs
<1>2. CASE option = "-b" BY <1>2 DEF WithOption, Envs
<1>3. CASE option = "-i" BY <1>3 DEF WithOption, Envs
<1>4. CASE option = "-o" BY <1>4 DEF WithOption, Envs
<1> QED BY <1>1, <1>2, <1>3, <1>4

\* ... what its value does, ...
LEMMA WithValueType ==
  ASSUME NEW e \in Envs, NEW option \in {"-s", "-b", "-i", "-o"}, NEW value \in STRING
  PROVE  WithValue(e, option, value) \in Envs
<1>1. CASE option = "-s"
      <2> DEFINE known == value \in {"hex", "bin", "mif"}
                 st == IF known THEN value ELSE e.st
      <2>1. WithValue(e, "-s", value) = [e EXCEPT !.has_AsmStrMode_Value = known, !.st = st]
            BY DEF WithValue, Envs
      <2>2. known \in BOOLEAN /\ st \in {"bin", "hex", "mif"} BY DEF Envs
      <2> HIDE DEF known, st
      <2>3. [e EXCEPT !.has_AsmStrMode_Value = known, !.st = st] \in Envs
            BY <2>2 DEF Envs
      <2> QED BY <1>1, <2>1, <2>3
<1>2. CASE option = "-b"
      <2> DEFINE width == AtoiOf(value)
                 positive == width > 0
      <2>1. WithValue(e, "-b", value) = [e EXCEPT !.width = width, !.has_WordSize_Value = positive]
            BY DEF WithValue
      <2>2. positive \in BOOLEAN
            OBVIOUS
      <2>3. width \in Nat BY ToolEnvAssumption DEF AtoiOf
      <2> HIDE DEF positive, width
      <2>4. [e EXCEPT !.width = width, !.has_WordSize_Value = positive] \in Envs
            BY <2>2, <2>3 DEF Envs
      <2> QED BY <1>2, <2>1, <2>4
<1>3. CASE option = "-i"
      <2>1. Append(e.asmInputs, value) \in Seq(STRING) BY DEF Envs
      <2>2. [e EXCEPT !.asmInputs = Append(@, value)] \in Envs BY <2>1 DEF Envs
      <2> QED BY <1>3, <2>2 DEF WithValue
<1>4. CASE option = "-o" BY <1>4 DEF WithValue, Envs
<1> QED BY <1>1, <1>2, <1>3, <1>4

\* ... and so what an argument does.
LEMMA CharacterizeArgType ==
  ASSUME NEW e \in Envs, NEW a \in Seq(STRING), NEW i \in 1 .. Len(a)
  PROVE  CharacterizeArg(e, a, i) \in Envs
<1>1. CASE a[i] \notin {"-s", "-b", "-i", "-o"} BY <1>1 DEF CharacterizeArg
<1>2. CASE a[i] \in {"-s", "-b", "-i", "-o"}
      <2> DEFINE seen == WithOption(e, a[i])
      <2>1. seen \in Envs BY <1>2, WithOptionType
      <2>2. i < Len(a) => a[i + 1] \in STRING OBVIOUS
      <2>3. i < Len(a) => WithValue(seen, a[i], a[i + 1]) \in Envs
            <3> HIDE DEF seen
            <3> QED BY <1>2, <2>1, <2>2, WithValueType
      <2> QED BY <1>2, <2>1, <2>3 DEF CharacterizeArg
<1> QED BY <1>1, <1>2

\* characterize_Env goes through the arguments, one after the other.
LEMMA CharacterizeEnv ==
  ASSUME NEW a \in Seq(STRING)
  PROVE  \E after \in [0 .. Len(a) -> Envs] :
             /\ after[0] = DefaultEnv
             /\ \A i \in 1 .. Len(a) : after[i] = CharacterizeArg(after[i - 1], a, i)
             /\ characterize_Env(a) = after[Len(a)]
<1> DEFINE N == Len(a)
           after == CHOOSE f : f = [i \in 0 .. N |-> IF i = 0 THEN DefaultEnv
                                                     ELSE CharacterizeArg(f[i - 1], a, i)]
           step == [n \in Nat |-> [e \in Envs |->
                        IF n \in 1 .. N THEN CharacterizeArg(e, a, n) ELSE e]]
<1>0. N \in Nat
      OBVIOUS
<1>1. step \in [Nat -> [Envs -> Envs]]
      BY CharacterizeArgType
<1>2. characterize_Env(a) = after[N]
      BY DEF characterize_Env
<1> HIDE DEF N
<1>3. PICK g : Iterates(g, Envs, DefaultEnv, step, N)
      <2> HIDE DEF step
      <2> QED BY <1>0, <1>1, DefaultIsEnv, Recursion
<1>4. g \in [0 .. N -> Envs] /\ g[0] = DefaultEnv
      BY <1>3 DEF Iterates
<1>5. \A i \in 1 .. N : g[i] = CharacterizeArg(g[i - 1], a, i)
      <2> SUFFICES ASSUME NEW i \in 1 .. N PROVE g[i] = CharacterizeArg(g[i - 1], a, i)
          OBVIOUS
      <2>1. g[i - 1] \in Envs /\ i \in Nat BY <1>0, <1>4
      <2>2. g[i] = step[i][g[i - 1]] BY <1>3 DEF Iterates
      <2> QED BY <2>1, <2>2
<1>6. g = [i \in 0 .. N |-> IF i = 0 THEN DefaultEnv ELSE CharacterizeArg(g[i - 1], a, i)]
      BY <1>0, <1>4, <1>5
<1>7. after = [i \in 0 .. N |-> IF i = 0 THEN DefaultEnv
                                ELSE CharacterizeArg(after[i - 1], a, i)]
      BY <1>6
<1> HIDE DEF after
<1>8. after[0] = DefaultEnv /\ \A i \in 1 .. N : after[i] = CharacterizeArg(after[i - 1], a, i)
      BY <1>0, <1>7
<1> DEFINE S == {n \in Nat : n =< N => after[n] \in Envs}
<1>9. 0 \in S
      BY <1>8, DefaultIsEnv
<1>10. ASSUME NEW n \in Nat, n \in S PROVE n + 1 \in S
       <2> SUFFICES ASSUME n + 1 =< N PROVE after[n + 1] \in Envs
           OBVIOUS
       <2>1. n + 1 \in 1 .. N /\ (n + 1) - 1 = n /\ after[n] \in Envs BY <1>0, <1>10
       <2>2. after[n + 1] = CharacterizeArg(after[n], a, n + 1) BY <1>8, <2>1
       <2> QED BY <2>1, <2>2, CharacterizeArgType DEF N
<1>11. Nat \subseteq S
       <2> HIDE DEF S
       <2> QED BY <1>9, <1>10, Induct
<1>12. after \in [0 .. N -> Envs]
       BY <1>0, <1>7, <1>11
<1> QED BY <1>2, <1>8, <1>12 DEF N

-----------------------------------------------------------------------------
(* What the options ask for: the last one of a kind that has a value.       *)

OptionNames == {"-s", "-b", "-i", "-o"}

\* The fields of shEnv that each of three options decides.
Format(e) == <<e.has_Option_AsmStrMode, e.has_AsmStrMode_Value, e.st>>
Width(e) == <<e.has_Option_WordSize, e.has_WordSize_Value, e.width>>
Name(e) == <<e.has_Option_AsmOutput, e.has_AsmOutput_Value, e.asmOutput>>

\* An option decides its own fields, ...
LEMMA OwnFields ==
  ASSUME NEW e \in Envs
  PROVE  /\ WithOption(e, "-s").has_Option_AsmStrMode
         /\ WithOption(e, "-s").has_AsmStrMode_Value = e.has_AsmStrMode_Value
         /\ WithOption(e, "-s").st = e.st
         /\ WithOption(e, "-b").has_Option_WordSize
         /\ WithOption(e, "-b").has_WordSize_Value = e.has_WordSize_Value
         /\ WithOption(e, "-b").width = e.width
         /\ WithOption(e, "-o").has_Option_AsmOutput
         /\ WithOption(e, "-o").has_AsmOutput_Value = e.has_AsmOutput_Value
         /\ WithOption(e, "-o").asmOutput = e.asmOutput
BY DEF WithOption, Envs

\* ... with its value, ...
LEMMA ValueFields ==
  ASSUME NEW e \in Envs, NEW value \in STRING
  PROVE  /\ WithValue(e, "-s", value).has_Option_AsmStrMode = e.has_Option_AsmStrMode
         /\ WithValue(e, "-s", value).has_AsmStrMode_Value
                => WithValue(e, "-s", value).st = value
         /\ WithValue(e, "-b", value).has_Option_WordSize = e.has_Option_WordSize
         /\ WithValue(e, "-b", value).width = AtoiOf(value)
         /\ WithValue(e, "-b", value).has_WordSize_Value => AtoiOf(value) > 0
         /\ WithValue(e, "-o", value).has_Option_AsmOutput = e.has_Option_AsmOutput
         /\ WithValue(e, "-o", value).asmOutput = value
<1>1. /\ WithValue(e, "-s", value).has_Option_AsmStrMode = e.has_Option_AsmStrMode
      /\ WithValue(e, "-s", value).has_AsmStrMode_Value => WithValue(e, "-s", value).st = value
      <2> DEFINE known == value \in {"hex", "bin", "mif"}
                 st == IF known THEN value ELSE e.st
      <2>1. WithValue(e, "-s", value) = [e EXCEPT !.has_AsmStrMode_Value = known, !.st = st]
            BY DEF WithValue, Envs
      <2>2. known => st = value OBVIOUS
      <2> HIDE DEF known, st
      <2> DEFINE f == [e EXCEPT !.has_AsmStrMode_Value = known, !.st = st]
      <2>3. f.has_Option_AsmStrMode = e.has_Option_AsmStrMode /\ f.st = st
            BY DEF Envs
      <2>4. f.has_AsmStrMode_Value = known
            BY DEF Envs
      <2> QED BY <2>1, <2>2, <2>3, <2>4
<1>2. /\ WithValue(e, "-b", value).has_Option_WordSize = e.has_Option_WordSize
      /\ WithValue(e, "-b", value).width = AtoiOf(value)
      /\ WithValue(e, "-b", value).has_WordSize_Value => AtoiOf(value) > 0
      <2> DEFINE width == AtoiOf(value)
                 positive == width > 0
      <2>1. WithValue(e, "-b", value) = [e EXCEPT !.width = width, !.has_WordSize_Value = positive]
            BY DEF WithValue
      <2>2. positive => width > 0 OBVIOUS
      <2> HIDE DEF width, positive
      <2> DEFINE f == [e EXCEPT !.width = width, !.has_WordSize_Value = positive]
      <2>3. f.has_Option_WordSize = e.has_Option_WordSize /\ f.width = width
            BY DEF Envs
      <2>4. f.has_WordSize_Value = positive
            BY DEF Envs
      <2> QED BY <2>1, <2>2, <2>3, <2>4 DEF width
<1>3. /\ WithValue(e, "-o", value).has_Option_AsmOutput = e.has_Option_AsmOutput
      /\ WithValue(e, "-o", value).asmOutput = value
      BY DEF WithValue, Envs
<1> QED BY <1>1, <1>2, <1>3

\* ... and no other's.
LEMMA OtherFields ==
  ASSUME NEW e \in Envs, NEW option \in OptionNames, NEW value \in STRING
  PROVE  /\ option # "-s" => /\ Format(WithOption(e, option)) = Format(e)
                             /\ Format(WithValue(e, option, value)) = Format(e)
         /\ option # "-b" => /\ Width(WithOption(e, option)) = Width(e)
                             /\ Width(WithValue(e, option, value)) = Width(e)
         /\ option # "-o" => /\ Name(WithOption(e, option)) = Name(e)
                             /\ Name(WithValue(e, option, value)) = Name(e)
<1> USE DEF Format, Width, Name, WithOption, Envs
<1>1. CASE option = "-s"
      <2> DEFINE known == value \in {"hex", "bin", "mif"}
                 st == IF known THEN value ELSE e.st
      <2>1. WithValue(e, "-s", value) = [e EXCEPT !.has_AsmStrMode_Value = known, !.st = st]
            BY DEF WithValue
      <2> HIDE DEF known, st
      <2> QED BY <1>1, <2>1
<1>2. CASE option = "-b"
      <2> DEFINE width == AtoiOf(value)
                 positive == width > 0
      <2>1. WithValue(e, "-b", value) = [e EXCEPT !.width = width, !.has_WordSize_Value = positive]
            BY DEF WithValue
      <2> HIDE DEF width, positive
      <2> QED BY <1>2, <2>1
<1>3. CASE option = "-i"
      <2>1. WithValue(e, "-i", value) = [e EXCEPT !.asmInputs = Append(@, value)]
            BY DEF WithValue
      <2> QED BY <1>3, <2>1
<1>4. CASE option = "-o"
      <2>1. WithValue(e, "-o", value) = [e EXCEPT !.has_AsmOutput_Value = TRUE, !.asmOutput = value]
            BY DEF WithValue
      <2> QED BY <1>4, <2>1
<1> QED BY <1>1, <1>2, <1>3, <1>4 DEF OptionNames

\* Where among the first n arguments the option has a value, and the last of these.
Asked(a, option, n) == {i \in 1 .. n : i < Len(a) /\ a[i] = option}
Latest(a, option, n, i) == i \in Asked(a, option, n) /\ \A j \in Asked(a, option, n) : j =< i
Present(a, option, n) == \E i \in 1 .. n : a[i] = option

\* What shEnv says after n arguments.
FormatAsked(e, a, n) ==
    /\ Present(a, "-s", n) => e.has_Option_AsmStrMode
    /\ Asked(a, "-s", n) = {} => e.st = "bin"
    /\ \A i \in Nat : Latest(a, "-s", n, i) => (e.has_AsmStrMode_Value => e.st = a[i + 1])

WidthIsAsked(e, a, n) ==
    /\ Present(a, "-b", n) => e.has_Option_WordSize
    /\ Asked(a, "-b", n) = {} => e.width = 4
    /\ \A i \in Nat : Latest(a, "-b", n, i) =>
           e.width = AtoiOf(a[i + 1]) /\ (e.has_WordSize_Value => e.width > 0)

NameAsked(e, a, n) ==
    /\ Present(a, "-o", n) <=> e.has_Option_AsmOutput
    /\ Asked(a, "-o", n) = {} => ~e.has_AsmOutput_Value
    /\ \A i \in Nat : Latest(a, "-o", n, i) => e.asmOutput = a[i + 1]

\* An argument more, if it is something else or has no value, ...
LEMMA AskedAsBefore ==
  ASSUME NEW a \in Seq(STRING), NEW n \in Nat, n + 1 =< Len(a), NEW option
  PROVE  /\ a[n + 1] # option \/ n + 1 = Len(a) => Asked(a, option, n + 1) = Asked(a, option, n)
         /\ a[n + 1] # option => (Present(a, option, n + 1) <=> Present(a, option, n))
         /\ a[n + 1] = option => Present(a, option, n + 1)
         /\ Present(a, option, n) => Present(a, option, n + 1)
<1>1. 1 .. n + 1 = (1 .. n) \cup {n + 1} /\ n + 1 \in 1 .. n + 1
      OBVIOUS
<1> QED BY <1>1 DEF Asked, Present

\* ... and if it has one.
LEMMA AskedAnew ==
  ASSUME NEW a \in Seq(STRING), NEW n \in Nat, n + 1 < Len(a), NEW option, a[n + 1] = option
  PROVE  /\ Asked(a, option, n + 1) # {}
         /\ \A i \in Nat : Latest(a, option, n + 1, i) => i = n + 1
<1>1. n + 1 \in Asked(a, option, n + 1)
      BY DEF Asked
<1>2. \A i \in Asked(a, option, n + 1) : i \in Nat /\ i =< n + 1
      BY DEF Asked
<1> QED BY <1>1, <1>2 DEF Latest

\* shEnv keeps saying what was asked for.
LEMMA StillAsked ==
  ASSUME NEW a \in Seq(STRING), NEW n \in Nat, n + 1 =< Len(a), NEW e \in Envs,
         FormatAsked(e, a, n), WidthIsAsked(e, a, n), NameAsked(e, a, n)
  PROVE  /\ FormatAsked(CharacterizeArg(e, a, n + 1), a, n + 1)
         /\ WidthIsAsked(CharacterizeArg(e, a, n + 1), a, n + 1)
         /\ NameAsked(CharacterizeArg(e, a, n + 1), a, n + 1)
<1> DEFINE m == n + 1
           o == a[m]
           seen == WithOption(e, o)
           f == CharacterizeArg(e, a, m)
<1>0. m \in Nat /\ m \in 1 .. Len(a) /\ Len(a) \in Nat /\ o \in STRING
      OBVIOUS
<1>1. ASSUME o \in OptionNames, m < Len(a)
      PROVE  /\ f = WithValue(seen, o, a[m + 1]) /\ seen \in Envs /\ a[m + 1] \in STRING
      <2>1. f = WithValue(seen, o, a[m + 1]) BY <1>1 DEF CharacterizeArg, OptionNames
      <2>2. seen \in Envs BY <1>1, WithOptionType DEF OptionNames
      <2>3. a[m + 1] \in STRING BY <1>0, <1>1
      <2> QED BY <2>1, <2>2, <2>3
<1>2. ASSUME o \in OptionNames, ~(m < Len(a)) PROVE f = seen /\ m = Len(a)
      BY <1>0, <1>2 DEF CharacterizeArg, OptionNames
<1>3. ASSUME o \notin OptionNames PROVE f = e
      BY <1>3 DEF CharacterizeArg, OptionNames
<1>4. \A option \in OptionNames :
          /\ o # option \/ m = Len(a) => Asked(a, option, m) = Asked(a, option, n)
          /\ o # option => (Present(a, option, m) <=> Present(a, option, n))
          /\ o = option => Present(a, option, m)
          /\ Present(a, option, n) => Present(a, option, m)
      BY AskedAsBefore
<1>5. o \in OptionNames /\ m < Len(a) =>
          Asked(a, o, m) # {} /\ \A i \in Nat : Latest(a, o, m, i) => i = m
      BY AskedAnew
<1>6. {"-s", "-b", "-o"} \subseteq OptionNames
      BY DEF OptionNames
<1> HIDE DEF m, o, seen, f
<1>7. o # "-s" => Format(f) = Format(e)
      <2>1. ASSUME o \in OptionNames, o # "-s", m < Len(a) PROVE Format(f) = Format(e)
            <3>1. Format(seen) = Format(e) BY <1>1, <2>1, OtherFields DEF seen
            <3>2. Format(WithValue(seen, o, a[m + 1])) = Format(seen) BY <1>1, <2>1, OtherFields
            <3> QED BY <1>1, <2>1, <3>1, <3>2
      <2>2. ASSUME o \in OptionNames, o # "-s", ~(m < Len(a)) PROVE Format(f) = Format(e)
            BY <1>0, <1>2, <2>2, OtherFields DEF seen
      <2> QED BY <1>3, <2>1, <2>2
<1>8. o # "-b" => Width(f) = Width(e)
      <2>1. ASSUME o \in OptionNames, o # "-b", m < Len(a) PROVE Width(f) = Width(e)
            <3>1. Width(seen) = Width(e) BY <1>1, <2>1, OtherFields DEF seen
            <3>2. Width(WithValue(seen, o, a[m + 1])) = Width(seen) BY <1>1, <2>1, OtherFields
            <3> QED BY <1>1, <2>1, <3>1, <3>2
      <2>2. ASSUME o \in OptionNames, o # "-b", ~(m < Len(a)) PROVE Width(f) = Width(e)
            BY <1>0, <1>2, <2>2, OtherFields DEF seen
      <2> QED BY <1>3, <2>1, <2>2
<1>9. o # "-o" => Name(f) = Name(e)
      <2>1. ASSUME o \in OptionNames, o # "-o", m < Len(a) PROVE Name(f) = Name(e)
            <3>1. Name(seen) = Name(e) BY <1>1, <2>1, OtherFields DEF seen
            <3>2. Name(WithValue(seen, o, a[m + 1])) = Name(seen) BY <1>1, <2>1, OtherFields
            <3> QED BY <1>1, <2>1, <3>1, <3>2
      <2>2. ASSUME o \in OptionNames, o # "-o", ~(m < Len(a)) PROVE Name(f) = Name(e)
            BY <1>0, <1>2, <2>2, OtherFields DEF seen
      <2> QED BY <1>3, <2>1, <2>2
<1>10. FormatAsked(f, a, m)
      <2>1. CASE o # "-s"
            <3>1. /\ f.has_Option_AsmStrMode = e.has_Option_AsmStrMode
                  /\ f.has_AsmStrMode_Value = e.has_AsmStrMode_Value /\ f.st = e.st
                  BY <1>7, <2>1 DEF Format
            <3> QED BY <1>4, <1>6, <2>1, <3>1 DEF FormatAsked, Latest
      <2>2. CASE o = "-s" /\ m < Len(a)
            <3>1. f.has_Option_AsmStrMode /\ (f.has_AsmStrMode_Value => f.st = a[m + 1])
                  <4>1. seen.has_Option_AsmStrMode BY <2>2, OwnFields DEF seen
                  <4>2. f = WithValue(seen, o, a[m + 1]) /\ seen \in Envs /\ a[m + 1] \in STRING
                        BY <1>1, <1>6, <2>2
                  <4> QED BY <2>2, <4>1, <4>2, ValueFields
            <3> QED BY <1>5, <1>6, <2>2, <3>1 DEF FormatAsked
      <2>3. CASE o = "-s" /\ ~(m < Len(a))
            <3>1. /\ f.has_Option_AsmStrMode /\ f.has_AsmStrMode_Value = e.has_AsmStrMode_Value
                  /\ f.st = e.st
                  BY <1>2, <1>6, <2>3, OwnFields DEF seen
            <3> QED BY <1>2, <1>4, <1>6, <2>3, <3>1 DEF FormatAsked, Latest
      <2> QED BY <2>1, <2>2, <2>3
<1>11. WidthIsAsked(f, a, m)
      <2>1. CASE o # "-b"
            <3>1. /\ f.has_Option_WordSize = e.has_Option_WordSize
                  /\ f.has_WordSize_Value = e.has_WordSize_Value /\ f.width = e.width
                  BY <1>8, <2>1 DEF Width
            <3> QED BY <1>4, <1>6, <2>1, <3>1 DEF WidthIsAsked, Latest
      <2>2. CASE o = "-b" /\ m < Len(a)
            <3>1. /\ f.has_Option_WordSize /\ f.width = AtoiOf(a[m + 1])
                  /\ f.has_WordSize_Value => f.width > 0
                  <4>1. seen.has_Option_WordSize BY <2>2, OwnFields DEF seen
                  <4>2. f = WithValue(seen, o, a[m + 1]) /\ seen \in Envs /\ a[m + 1] \in STRING
                        BY <1>1, <1>6, <2>2
                  <4> QED BY <2>2, <4>1, <4>2, ValueFields
            <3> QED BY <1>5, <1>6, <2>2, <3>1 DEF WidthIsAsked
      <2>3. CASE o = "-b" /\ ~(m < Len(a))
            <3>1. /\ f.has_Option_WordSize /\ f.has_WordSize_Value = e.has_WordSize_Value
                  /\ f.width = e.width
                  BY <1>2, <1>6, <2>3, OwnFields DEF seen
            <3> QED BY <1>2, <1>4, <1>6, <2>3, <3>1 DEF WidthIsAsked, Latest
      <2> QED BY <2>1, <2>2, <2>3
<1>12. NameAsked(f, a, m)
      <2>1. CASE o # "-o"
            <3>1. /\ f.has_Option_AsmOutput = e.has_Option_AsmOutput
                  /\ f.has_AsmOutput_Value = e.has_AsmOutput_Value /\ f.asmOutput = e.asmOutput
                  BY <1>9, <2>1 DEF Name
            <3> QED BY <1>4, <1>6, <2>1, <3>1 DEF NameAsked, Latest
      <2>2. CASE o = "-o" /\ m < Len(a)
            <3>1. f.has_Option_AsmOutput /\ f.asmOutput = a[m + 1]
                  <4>1. seen.has_Option_AsmOutput BY <2>2, OwnFields DEF seen
                  <4>2. f = WithValue(seen, o, a[m + 1]) /\ seen \in Envs /\ a[m + 1] \in STRING
                        BY <1>1, <1>6, <2>2
                  <4> QED BY <2>2, <4>1, <4>2, ValueFields
            <3> QED BY <1>4, <1>5, <1>6, <2>2, <3>1 DEF NameAsked
      <2>3. CASE o = "-o" /\ ~(m < Len(a))
            <3>1. /\ f.has_Option_AsmOutput /\ f.has_AsmOutput_Value = e.has_AsmOutput_Value
                  /\ f.asmOutput = e.asmOutput
                  BY <1>2, <1>6, <2>3, OwnFields DEF seen
            <3> QED BY <1>2, <1>4, <1>6, <2>3, <3>1 DEF NameAsked, Latest
      <2> QED BY <2>1, <2>2, <2>3
<1> QED BY <1>10, <1>11, <1>12 DEF f, m

\* What the options ask for is the last value of each.
LEMMA EnvIsAsked ==
  ASSUME NEW a \in Seq(STRING)
  PROVE  /\ characterize_Env(a) \in Envs
         /\ FormatAsked(characterize_Env(a), a, Len(a))
         /\ WidthIsAsked(characterize_Env(a), a, Len(a))
         /\ NameAsked(characterize_Env(a), a, Len(a))
<1>1. PICK after \in [0 .. Len(a) -> Envs] :
          /\ after[0] = DefaultEnv
          /\ \A i \in 1 .. Len(a) : after[i] = CharacterizeArg(after[i - 1], a, i)
          /\ characterize_Env(a) = after[Len(a)]
      BY CharacterizeEnv
<1> DEFINE Right(n) == /\ FormatAsked(after[n], a, n)
                       /\ WidthIsAsked(after[n], a, n)
                       /\ NameAsked(after[n], a, n)
           S == {n \in Nat : n =< Len(a) => Right(n)}
<1>2. Right(0)
      <2>1. /\ Asked(a, "-s", 0) = {} /\ Asked(a, "-b", 0) = {} /\ Asked(a, "-o", 0) = {}
            /\ ~Present(a, "-s", 0) /\ ~Present(a, "-b", 0) /\ ~Present(a, "-o", 0)
            BY DEF Asked, Present
      <2>2. /\ DefaultEnv.st = "bin" /\ DefaultEnv.width = 4
            /\ ~DefaultEnv.has_Option_AsmOutput /\ ~DefaultEnv.has_AsmOutput_Value
            BY DEF DefaultEnv
      <2> QED BY <1>1, <2>1, <2>2 DEF FormatAsked, WidthIsAsked, NameAsked, Latest
<1>3. ASSUME NEW n \in Nat, n \in S PROVE n + 1 \in S
      <2> SUFFICES ASSUME n + 1 =< Len(a) PROVE Right(n + 1)
          OBVIOUS
      <2>1. n \in 0 .. Len(a) /\ n + 1 \in 1 .. Len(a) /\ (n + 1) - 1 = n
            OBVIOUS
      <2>2. after[n] \in Envs /\ after[n + 1] = CharacterizeArg(after[n], a, n + 1)
            BY <1>1, <2>1
      <2>3. Right(n)
            BY <1>3, <2>1
      <2> QED BY <2>2, <2>3, StillAsked
<1>4. Nat \subseteq S
      <2>1. 0 \in S BY <1>2
      <2> HIDE DEF S
      <2> QED BY <1>3, <2>1, Induct
<1>5. Len(a) \in Nat /\ Len(a) \in 0 .. Len(a)
      OBVIOUS
<1>6. Right(Len(a))
      <2> HIDE DEF Right
      <2> QED BY <1>4, <1>5
<1> QED BY <1>1, <1>5, <1>6

\* shEnv, if it is complete, is what the arguments ask for.
LEMMA OptionsAreMeant ==
  ASSUME args \in Seq(STRING), env = characterize_Env(args), OptionsComplete(env)
  PROVE  /\ env.st = ValueAfter("-s", "bin")
         /\ env.width = WidthAsked /\ env.width \in Nat \ {0}
         /\ OutputName = ValueAfter("-o", DefaultName[env.st])
<1>1. /\ env \in Envs /\ FormatAsked(env, args, Len(args)) /\ WidthIsAsked(env, args, Len(args))
      /\ NameAsked(env, args, Len(args))
      BY EnvIsAsked
<1>2. ASSUME NEW option
      PROVE  /\ Uses(option) = Asked(args, option, Len(args))
             /\ Uses(option) \in SUBSET (0 .. Len(args))
      BY DEF Uses, Asked
<1>3. ASSUME NEW option, Uses(option) # {}
      PROVE  /\ Max(Uses(option)) \in Nat
             /\ Latest(args, option, Len(args), Max(Uses(option)))
             /\ Present(args, option, Len(args))
      <2>1. Len(args) \in Nat
            OBVIOUS
      <2>2. Max(Uses(option)) \in Uses(option) /\ \A m \in Uses(option) : m =< Max(Uses(option))
            BY <1>2, <1>3, <2>1, MaxOfSome
      <2>3. Latest(args, option, Len(args), Max(Uses(option)))
            BY <1>2, <2>2 DEF Latest
      <2>4. Max(Uses(option)) \in 1 .. Len(args) /\ args[Max(Uses(option))] = option
            BY <1>2, <2>2 DEF Asked
      <2> QED BY <2>3, <2>4 DEF Present
<1>4. env.st = ValueAfter("-s", "bin")
      <2>1. CASE Uses("-s") = {}
            BY <1>1, <1>2, <2>1 DEF FormatAsked, ValueAfter
      <2>2. CASE Uses("-s") # {}
            BY <1>1, <1>3, <2>2 DEF FormatAsked, ValueAfter, OptionsComplete
      <2> QED BY <2>1, <2>2
<1>5. env.width = WidthAsked /\ env.width \in Nat \ {0}
      <2>0. env.width \in Nat
            BY <1>1 DEF Envs
      <2>1. CASE Uses("-b") = {}
            BY <1>1, <1>2, <2>1 DEF WidthIsAsked, WidthAsked
      <2>2. CASE Uses("-b") # {}
            BY <1>1, <1>3, <2>0, <2>2 DEF WidthIsAsked, WidthAsked, ValueAfter, OptionsComplete
      <2> QED BY <2>1, <2>2
<1>6. OutputName = ValueAfter("-o", DefaultName[env.st])
      <2>1. CASE Uses("-o") = {}
            <3>1. ~env.has_Option_AsmOutput
                  BY <1>1, <1>2, <2>1 DEF NameAsked, OptionsComplete
            <3> QED BY <2>1, <3>1 DEF ValueAfter, OutputName
      <2>2. CASE Uses("-o") # {}
            BY <1>1, <1>3, <2>2 DEF NameAsked, ValueAfter, OutputName
      <2> QED BY <2>1, <2>2
<1> QED BY <1>4, <1>5, <1>6

-----------------------------------------------------------------------------
(* FlattenSeq, of parts of the same length.                                *)

\* A multiple of a length.
LEMMA WithinMultiple ==
  ASSUME NEW c \in Nat, NEW i \in Nat \ {0}, NEW n \in Nat, i =< n
  PROVE  c * (i - 1) \in Nat /\ c * n \in Nat /\ c * (i - 1) + c =< c * n
<1>1. PICK d \in Nat : n = (i - 1) + 1 + d
      <2>1. n - i \in Nat /\ n = (i - 1) + 1 + (n - i)
            OBVIOUS
      <2> QED BY <2>1
<1> DEFINE m == i - 1
<1>2. m \in Nat /\ n = m + 1 + d
      BY <1>1
<1> HIDE DEF m
<1>3. c * n = c * m + c + c * d /\ c * d \in Nat /\ c * m \in Nat
      BY <1>2
<1>4. c * m + c =< c * n /\ c * n \in Nat
      BY <1>3
<1> QED BY <1>3, <1>4 DEF m

\* FlattenSeq puts the parts together one after the other.
LEMMA FlattenUnfold ==
  ASSUME NEW V, NEW s \in Seq(Seq(V)), s # <<>>
  PROVE  \E f \in [1 .. Len(s) -> Seq(V)] :
             /\ f[1] = s[1]
             /\ \A i \in 2 .. Len(s) : f[i] = f[i - 1] \o s[i]
             /\ FlattenSeq(s) = f[Len(s)]
<1> DEFINE N == Len(s)
           f == CHOOSE f : f = [i \in 1 .. N |-> IF i = 1 THEN s[1] ELSE f[i - 1] \o s[i]]
           step == [n \in Nat |-> [v \in Seq(V) |-> IF n + 1 =< N THEN v \o s[n + 1] ELSE v]]
<1>0. N \in Nat \ {0} /\ \A i \in 1 .. N : s[i] \in Seq(V)
      OBVIOUS
<1>1. step \in [Nat -> [Seq(V) -> Seq(V)]]
      BY <1>0
<1>2. s[1] \in Seq(V) /\ N - 1 \in Nat
      BY <1>0
<1> HIDE DEF N
<1>3. PICK h \in [0 .. N - 1 -> Seq(V)] :
          h[0] = s[1] /\ \A i \in 1 .. N - 1 : h[i] = step[i][h[i - 1]]
      <2> DEFINE W == Seq(V)
                 M == N - 1
                 b == s[1]
      <2>1. b \in W /\ M \in Nat /\ step \in [Nat -> [W -> W]] BY <1>1, <1>2
      <2> HIDE DEF step, W, M, b
      <2>2. \E h : Iterates(h, W, b, step, M)
            BY <2>1, Recursion
      <2> QED BY <2>2 DEF Iterates, W, M, b
<1>4. \A i \in 1 .. N - 1 : h[i] = h[i - 1] \o s[i + 1]
      <2> SUFFICES ASSUME NEW i \in 1 .. N - 1 PROVE h[i] = h[i - 1] \o s[i + 1]
          OBVIOUS
      <2>1. h[i - 1] \in Seq(V) /\ i \in Nat /\ i + 1 =< N BY <1>0, <1>3
      <2> QED BY <1>3, <2>1
<1> HIDE DEF step
<1> DEFINE g == [i \in 1 .. N |-> h[i - 1]]
<1>5. g = [i \in 1 .. N |-> IF i = 1 THEN s[1] ELSE g[i - 1] \o s[i]]
      <2> SUFFICES ASSUME NEW i \in 1 .. N
                   PROVE  h[i - 1] = IF i = 1 THEN s[1] ELSE g[i - 1] \o s[i]
          OBVIOUS
      <2>1. CASE i = 1 BY <1>3, <2>1
      <2>2. CASE i # 1
            <3>1. i - 1 \in 1 .. N - 1 /\ i - 1 \in 1 .. N /\ (i - 1) + 1 = i BY <1>0, <2>2
            <3>2. h[i - 1] = h[(i - 1) - 1] \o s[i] BY <1>4, <3>1
            <3>3. g[i - 1] = h[(i - 1) - 1] BY <3>1
            <3> QED BY <2>2, <3>2, <3>3
      <2> QED BY <2>1, <2>2
<1> HIDE DEF g
<1>6. f = [i \in 1 .. N |-> IF i = 1 THEN s[1] ELSE f[i - 1] \o s[i]]
      BY <1>5
<1>7. FlattenSeq(s) = f[N]
      BY <1>0 DEF FlattenSeq, N
<1> HIDE DEF f
<1>8. f[1] = s[1] /\ \A i \in 2 .. N : f[i] = f[i - 1] \o s[i]
      <2>1. ASSUME NEW i \in 1 .. N PROVE f[i] = IF i = 1 THEN s[1] ELSE f[i - 1] \o s[i]
            BY <1>6
      <2>2. 1 \in 1 .. N /\ \A i \in 2 .. N : i \in 1 .. N /\ i # 1 BY <1>0
      <2> QED BY <2>1, <2>2
<1> DEFINE S == {n \in Nat : n + 1 =< N => f[n + 1] \in Seq(V)}
<1>9. 0 \in S
      BY <1>0, <1>8
<1>10. ASSUME NEW n \in Nat, n \in S PROVE n + 1 \in S
      <2> SUFFICES ASSUME n + 2 =< N PROVE f[n + 2] \in Seq(V)
          OBVIOUS
      <2>1. n + 2 \in 2 .. N /\ n + 2 \in 1 .. N /\ (n + 2) - 1 = n + 1 /\ f[n + 1] \in Seq(V)
            BY <1>0, <1>10
      <2>2. f[n + 2] = f[n + 1] \o s[n + 2] BY <1>8, <2>1
      <2> QED BY <1>0, <2>1, <2>2
<1>11. Nat \subseteq S
      <2> HIDE DEF S
      <2> QED BY <1>9, <1>10, Induct
<1>12. ASSUME NEW i \in 1 .. N PROVE f[i] \in Seq(V)
      <2>1. i - 1 \in Nat /\ (i - 1) + 1 = i /\ i =< N BY <1>0
      <2> QED BY <1>11, <2>1
<1>13. f \in [1 .. N -> Seq(V)]
      BY <1>6, <1>12
<1> QED BY <1>7, <1>8, <1>13 DEF N

\* What is in a sequence.
LEMMA ElementOf ==
  ASSUME NEW V, NEW s \in Seq(V), NEW k \in 1 .. Len(s)
  PROVE  s[k] \in V
OBVIOUS

\* Where the elements of two sequences lie when they are put together.
LEMMA OneBehindOther ==
  ASSUME NEW V, NEW s \in Seq(V), NEW t \in Seq(V)
  PROVE  /\ s \o t \in Seq(V) /\ Len(s \o t) = Len(s) + Len(t)
         /\ Len(s) \in Nat /\ Len(t) \in Nat
         /\ \A k \in 1 .. Len(s) : (s \o t)[k] = s[k]
         /\ \A k \in 1 .. Len(t) : (s \o t)[Len(s) + k] = t[k]
<1>1. /\ s \o t \in Seq(V) /\ Len(s \o t) = Len(s) + Len(t)
      /\ Len(s) \in Nat /\ Len(t) \in Nat
      OBVIOUS
<1>2. \A k \in 1 .. Len(s) : (s \o t)[k] = s[k]
      OBVIOUS
<1>3. ASSUME NEW k \in 1 .. Len(t) PROVE (s \o t)[Len(s) + k] = t[k]
      <2>1. Len(s) + k \in 1 .. Len(s) + Len(t) /\ Len(s) + k > Len(s)
            BY <1>1
      <2>2. (Len(s) + k) - Len(s) = k
            BY <1>1
      <2> QED BY <2>1, <2>2
<1> QED BY <1>1, <1>2, <1>3

\* The parts of a sequence all have the same length.
Uniform(s, c) == \A i \in 1 .. Len(s) : Len(s[i]) = c

\* A sequence is the parts of another one after the other.
LaidOut(f, s, c) == /\ Len(f) = c * Len(s)
                    /\ \A i \in 1 .. Len(s) : \A k \in 1 .. c : f[c * (i - 1) + k] = s[i][k]

\* Parts of the same length lie one after the other.
LEMMA FlattenUniform ==
  ASSUME NEW V, NEW s \in Seq(Seq(V)), NEW c \in Nat, Uniform(s, c)
  PROVE  FlattenSeq(s) \in Seq(V) /\ LaidOut(FlattenSeq(s), s, c)
<1>1. CASE s = <<>>
      <2>1. FlattenSeq(s) = <<>> /\ Len(s) = 0 BY <1>1 DEF FlattenSeq
      <2> QED BY <2>1 DEF LaidOut
<1>2. CASE s # <<>>
      <2> DEFINE N == Len(s)
      <2>1. N \in Nat \ {0} /\ \A i \in 1 .. N : s[i] \in Seq(V) /\ Len(s[i]) = c
            BY <1>2 DEF Uniform
      <2>2. PICK f \in [1 .. N -> Seq(V)] :
                /\ f[1] = s[1]
                /\ \A i \in 2 .. N : f[i] = f[i - 1] \o s[i]
                /\ FlattenSeq(s) = f[N]
            BY <1>2, FlattenUnfold
      <2> HIDE DEF N
      <2> DEFINE Laid(n) == /\ Len(f[n]) = c * n
                            /\ \A i \in 1 .. n : \A k \in 1 .. c : f[n][c * (i - 1) + k] = s[i][k]
                 S == {n \in Nat : n + 1 =< N => Laid(n + 1)}
      <2>3. 0 \in S
            <3>1. Laid(1)
                  <4>1. Len(f[1]) = c * 1 BY <2>1, <2>2
                  <4>2. \A i \in 1 .. 1 : i = 1 /\ c * (i - 1) = 0 BY <2>1
                  <4>3. \A k \in 1 .. c : 0 + k = k OBVIOUS
                  <4>4. \A i \in 1 .. 1 : \A k \in 1 .. c : c * (i - 1) + k = k /\ i = 1
                        BY <4>2, <4>3
                  <4> QED BY <2>2, <4>1, <4>4
            <3> HIDE DEF Laid
            <3> QED BY <3>1
      <2>4. ASSUME NEW n \in Nat, n \in S PROVE n + 1 \in S
            <3>0. (n + 1) + 1 = n + 2 OBVIOUS
            <3> SUFFICES ASSUME n + 2 =< N PROVE Laid(n + 2)
                <4> HIDE DEF Laid
                <4> QED BY <3>0
            <3> DEFINE m == n + 1
            <3>1. /\ m \in Nat \ {0} /\ m + 1 \in 2 .. N /\ m + 1 \in 1 .. N /\ m \in 1 .. N
                  /\ (m + 1) - 1 = m /\ m + 1 = n + 2
                  BY <2>1
            <3>2. Laid(m)
                  <4> HIDE DEF Laid
                  <4> QED BY <2>4, <3>1
            <3> HIDE DEF m
            <3>3. f[m + 1] = f[m] \o s[m + 1] /\ f[m] \in Seq(V) /\ s[m + 1] \in Seq(V)
                  BY <2>1, <2>2, <3>1
            <3> DEFINE p == c * m
            <3>4. p \in Nat /\ c * (m + 1) = p + c /\ Len(f[m]) = p /\ Len(s[m + 1]) = c
                  BY <2>1, <3>1, <3>2
            <3>5. ASSUME NEW i \in 1 .. m, NEW k \in 1 .. c
                  PROVE  f[m + 1][c * (i - 1) + k] = s[i][k]
                  <4> DEFINE q == c * (i - 1)
                  <4>1. q \in Nat /\ q + c =< p
                        BY <3>1, WithinMultiple
                  <4>2. f[m][q + k] = s[i][k]
                        BY <3>2
                  <4> HIDE DEF p, q
                  <4>3. q + k \in 1 .. Len(f[m])
                        BY <3>4, <4>1
                  <4>4. f[m + 1][q + k] = f[m][q + k]
                        BY <3>3, <4>3
                  <4> QED BY <4>2, <4>4 DEF q
            <3>6. ASSUME NEW k \in 1 .. c
                  PROVE  f[m + 1][p + k] = s[m + 1][k]
                  <4>1. k \in 1 .. Len(s[m + 1])
                        BY <3>3, <3>4
                  <4> HIDE DEF p
                  <4>2. (f[m] \o s[m + 1])[Len(f[m]) + k] = s[m + 1][k]
                        <5> DEFINE x == f[m]
                                   y == s[m + 1]
                        <5>1. x \in Seq(V) /\ y \in Seq(V) /\ k \in 1 .. Len(y)
                              BY <3>3, <4>1
                        <5> HIDE DEF x, y
                        <5>2. (x \o y)[Len(x) + k] = y[k]
                              BY <5>1, OneBehindOther
                        <5> QED BY <5>2 DEF x, y
                  <4> QED BY <3>3, <3>4, <4>2
            <3>7. Len(f[m + 1]) = c * (m + 1)
                  <4>1. Len(f[m + 1]) = Len(f[m]) + Len(s[m + 1]) BY <3>3
                  <4> QED BY <3>4, <4>1
            <3>8. \A i \in 1 .. m + 1 : i \in 1 .. m \/ (i = m + 1 /\ i - 1 = m)
                  BY <3>1
            <3>9. Laid(m + 1)
                  BY <3>5, <3>6, <3>7, <3>8
            <3> HIDE DEF Laid
            <3> QED BY <3>1, <3>9
      <2>5. Nat \subseteq S
            <3> HIDE DEF S
            <3> QED BY <2>3, <2>4, Induct
      <2>6. Laid(N)
            <3>1. N - 1 \in Nat /\ (N - 1) + 1 = N BY <2>1
            <3>2. N - 1 \in S BY <2>5, <3>1
            <3> HIDE DEF Laid
            <3> QED BY <3>1, <3>2
      <2>7. f[N] \in Seq(V) BY <2>1, <2>2
      <2> QED BY <2>2, <2>6, <2>7 DEF N, LaidOut
<1> QED BY <1>1, <1>2

-----------------------------------------------------------------------------
(* The program, instruction by instruction.                                *)

\* Where an instruction begins.
LEMMA OffsetIs ==
  ASSUME inst_lengths \in Seq({4}), NEW i \in 1 .. Len(inst_lengths)
  PROVE  Offset(i) = 4 * (i - 1)
<1> DEFINE M == i - 1
           f == CHOOSE f : f = [n \in 0 .. M |-> IF n = 0 THEN 0 ELSE f[n - 1] + inst_lengths[n]]
           g == [n \in 0 .. M |-> 4 * n]
<1>1. M \in Nat /\ M < Len(inst_lengths) /\ Len(inst_lengths) \in Nat
      OBVIOUS
<1>2. Offset(i) = f[M]
      BY DEF Offset
<1> HIDE DEF M
<1>3. \A n \in 1 .. M : inst_lengths[n] = 4
      BY <1>1
<1>4. g = [n \in 0 .. M |-> IF n = 0 THEN 0 ELSE g[n - 1] + inst_lengths[n]]
      <2> SUFFICES ASSUME NEW n \in 0 .. M
                   PROVE  4 * n = IF n = 0 THEN 0 ELSE g[n - 1] + inst_lengths[n]
          OBVIOUS
      <2>1. CASE n = 0 BY <2>1
      <2>2. CASE n # 0
            <3>1. n - 1 \in 0 .. M /\ n \in 1 .. M BY <1>1, <2>2
            <3>2. g[n - 1] = 4 * (n - 1) BY <3>1
            <3> QED BY <1>3, <2>2, <3>1, <3>2
      <2> QED BY <2>1, <2>2
<1> HIDE DEF g
<1>5. f = [n \in 0 .. M |-> IF n = 0 THEN 0 ELSE f[n - 1] + inst_lengths[n]]
      BY <1>4
<1> HIDE DEF f
<1>6. f[0] = 0 /\ \A n \in 1 .. M : f[n] = f[n - 1] + 4
      <2>1. ASSUME NEW n \in 0 .. M
            PROVE  f[n] = IF n = 0 THEN 0 ELSE f[n - 1] + inst_lengths[n]
            BY <1>5
      <2>2. 0 \in 0 .. M /\ \A n \in 1 .. M : n \in 0 .. M /\ n # 0 BY <1>1
      <2> QED BY <1>3, <2>1, <2>2
<1> DEFINE S == {n \in Nat : n =< M => f[n] = 4 * n}
<1>7. 0 \in S
      BY <1>6
<1>8. ASSUME NEW n \in Nat, n \in S PROVE n + 1 \in S
      <2> SUFFICES ASSUME n + 1 =< M PROVE f[n + 1] = 4 * (n + 1)
          OBVIOUS
      <2>1. n + 1 \in 1 .. M /\ (n + 1) - 1 = n /\ f[n] = 4 * n BY <1>1, <1>8
      <2>2. f[n + 1] = f[n] + 4 BY <1>6, <2>1
      <2> QED BY <2>1, <2>2
<1>9. Nat \subseteq S
      <2> HIDE DEF S
      <2> QED BY <1>7, <1>8, Induct
<1> QED BY <1>1, <1>2, <1>9 DEF M

\* The shape of the program: instructions of four bytes.
InFours == /\ prog \in Seq(Bytes)
           /\ inst_lengths \in Seq({4})
           /\ Len(prog) = 4 * Len(inst_lengths)

\* The n elements of a sequence behind the first p.
Part(s, p, n) == SubSeq(s, p + 1, p + n)

\* What is in it.
IsPart(x, s, p, n) == Len(x) = n /\ \A k \in 1 .. n : x[k] = s[p + k]

\* A part of a sequence.
LEMMA PartOf ==
  ASSUME NEW V, NEW s \in Seq(V), NEW p \in Nat, NEW n \in Nat, p + n =< Len(s)
  PROVE  Part(s, p, n) \in Seq(V) /\ IsPart(Part(s, p, n), s, p, n)
<1>1. /\ \A k \in 1 .. n : p + k \in 1 .. Len(s) /\ k + (p + 1) - 1 = p + k
      /\ (1 + (p + n)) - (p + 1) = n
      OBVIOUS
<1>2. SubSeq(s, p + 1, p + n) = [i \in 1 .. (1 + (p + n)) - (p + 1) |-> s[i + (p + 1) - 1]]
      OBVIOUS
<1>3. Part(s, p, n) = [i \in 1 .. n |-> s[i + (p + 1) - 1]]
      BY <1>1, <1>2 DEF Part
<1>4. \A k \in 1 .. n : s[k + (p + 1) - 1] = s[p + k] /\ s[p + k] \in V
      BY <1>1
<1> DEFINE h == [i \in 1 .. n |-> s[i + (p + 1) - 1]]
<1>5. h \in Seq(V) /\ Len(h) = n
      BY <1>4
<1> QED BY <1>3, <1>4, <1>5 DEF IsPart

\* The program is read back as it was written.
LEMMA ReadBack ==
  ASSUME InFours
  PROVE  /\ Instructions \in Seq(Seq(Bytes)) /\ Len(Instructions) = Len(inst_lengths)
         /\ \A i \in 1 .. Len(inst_lengths) :
                /\ Len(Instructions[i]) = 4
                /\ \A k \in 1 .. 4 : Instructions[i][k] = prog[4 * (i - 1) + k]
<1> DEFINE N == Len(inst_lengths)
<1>0. N \in Nat /\ Len(prog) = 4 * N /\ prog \in Seq(Bytes)
      BY DEF InFours
<1>1. ASSUME NEW i \in 1 .. N
      PROVE  /\ Instructions[i] \in Seq(Bytes) /\ Len(Instructions[i]) = 4
             /\ \A k \in 1 .. 4 : Instructions[i][k] = prog[4 * (i - 1) + k]
      <2> DEFINE p == 4 * (i - 1)
      <2>1. p \in Nat /\ p + 4 =< Len(prog)
            BY <1>0
      <2>2. Offset(i) = p /\ inst_lengths[i] = 4
            BY OffsetIs DEF InFours
      <2> HIDE DEF p
      <2>3. Instructions[i] = Part(prog, p, 4)
            BY <2>2 DEF Instructions, Part
      <2>4. /\ Instructions[i] \in Seq(Bytes) /\ Len(Instructions[i]) = 4
            /\ \A k \in 1 .. 4 : Instructions[i][k] = prog[p + k]
            <3> DEFINE n == 4
            <3>1. n \in Nat /\ p + n =< Len(prog) /\ Instructions[i] = Part(prog, p, n)
                  BY <2>1, <2>3
            <3> HIDE DEF n
            <3>2. Instructions[i] \in Seq(Bytes) /\ IsPart(Instructions[i], prog, p, n)
                  BY <1>0, <2>1, <3>1, PartOf
            <3> QED BY <3>2 DEF n, IsPart
      <2> QED BY <2>4 DEF p
<1>2. Instructions = [i \in 1 .. N |-> Instructions[i]]
      BY DEF Instructions
<1>3. Instructions \in Seq(Seq(Bytes)) /\ Len(Instructions) = N
      <2> DEFINE h == Instructions
                 V == Seq(Bytes)
      <2>1. N \in Nat /\ h = [i \in 1 .. N |-> h[i]] /\ \A i \in 1 .. N : h[i] \in V
            BY <1>0, <1>1, <1>2
      <2> HIDE DEF N, h, V
      <2>2. [i \in 1 .. N |-> h[i]] \in Seq(V) /\ Len([i \in 1 .. N |-> h[i]]) = N
            BY <2>1
      <2>3. h \in Seq(V) /\ Len(h) = N
            BY <2>1, <2>2
      <2> QED BY <2>3 DEF h, V
<1> QED BY <1>1, <1>3

\* Every byte is in one of the instructions.
LEMMA ByteOfInstruction ==
  ASSUME NEW n \in Nat, NEW j \in 1 .. 4 * n
  PROVE  \E i \in 1 .. n : \E k \in 1 .. 4 : j = 4 * (i - 1) + k
<1> DEFINE i == (j - 1) \div 4 + 1
           k == ((j - 1) % 4) + 1
<1>1. i \in 1 .. n /\ k \in 1 .. 4 /\ j = 4 * (i - 1) + k
      OBVIOUS
<1> QED BY <1>1

\* The bytes as they are.
LEMMA BytesOfInstructions ==
  ASSUME InFours
  PROVE  FlattenSeq(Instructions) = prog
<1> DEFINE N == Len(inst_lengths)
           f == FlattenSeq(Instructions)
<1>0. N \in Nat /\ Len(prog) = 4 * N /\ prog \in Seq(Bytes)
      BY DEF InFours
<1>1. /\ f \in Seq(Bytes) /\ Len(f) = 4 * N
      /\ \A i \in 1 .. N : \A k \in 1 .. 4 : f[4 * (i - 1) + k] = Instructions[i][k]
      <2> DEFINE s == Instructions
                 V == Bytes
                 c == 4
      <2>1. s \in Seq(Seq(V)) /\ c \in Nat /\ Len(s) = N /\ Uniform(s, c)
            BY ReadBack DEF Uniform
      <2> HIDE DEF s, V, N, c
      <2>2. FlattenSeq(s) \in Seq(V) /\ LaidOut(FlattenSeq(s), s, c)
            BY <2>1, FlattenUniform
      <2> QED BY <2>1, <2>2 DEF s, V, c, LaidOut
<1>2. ASSUME NEW j \in 1 .. 4 * N PROVE f[j] = prog[j]
      <2>1. PICK i \in 1 .. N, k \in 1 .. 4 : j = 4 * (i - 1) + k
            BY <1>0, ByteOfInstruction
      <2> QED BY <1>1, <2>1, ReadBack
<1> HIDE DEF f, N
<1> QED BY <1>0, <1>1, <1>2 DEF f

-----------------------------------------------------------------------------
(* The digits.                                                             *)

Digits == 0 .. 15

\* The two digits of a byte.
IsPair(pair, byte) ==
    /\ pair \in Seq(Digits) /\ Len(pair) = 2
    /\ 16 * pair[1] + pair[2] = byte

\* Eight digits for four bytes, the first byte last, as hex and mif print them.
LEMMA PrintedFour ==
  ASSUME NEW s \in Seq(Bytes), Len(s) = 4
  PROVE  LET h == dynamicHexBuilder[s]
         IN  /\ \A k \in 1 .. 4 : PrintedByte(h, k) = s[k]
             /\ BytesFromBack(h) \in Seq(Seq(Digits)) /\ Len(BytesFromBack(h)) = 4
             /\ \A k \in 1 .. 4 : IsPair(BytesFromBack(h)[k], s[k])
<1>0. ASSUME NEW k \in 1 .. 4 PROVE s[k] \in 0 .. 255
      <2>1. k \in 1 .. Len(s)
            OBVIOUS
      <2>2. s[k] \in Bytes
            BY <2>1, ElementOf
      <2> QED BY <2>2 DEF Bytes
<1> DEFINE h == dynamicHexBuilder[s]
           b == BytesFromBack(h)
<1>1. h = [i \in 1 .. 8 |-> LET byte == s[4 - (i - 1) \div 2]
                            IN  IF i % 2 = 1 THEN byte \div 16 ELSE byte % 16]
      <2>1. s \in Seq(0 .. 255)
            BY DEF Bytes
      <2>2. h = [i \in 1 .. 2 * Len(s) |-> LET byte == s[Len(s) - (i - 1) \div 2]
                                           IN  IF i % 2 = 1 THEN byte \div 16 ELSE byte % 16]
            BY <2>1 DEF dynamicHexBuilder
      <2> QED BY <2>2
<1>2. /\ h[1] = s[4] \div 16 /\ h[2] = s[4] % 16
      /\ h[3] = s[3] \div 16 /\ h[4] = s[3] % 16
      /\ h[5] = s[2] \div 16 /\ h[6] = s[2] % 16
      /\ h[7] = s[1] \div 16 /\ h[8] = s[1] % 16
      <2>1. /\ 1 % 2 = 1 /\ 2 % 2 = 0 /\ 3 % 2 = 1 /\ 4 % 2 = 0
            /\ 5 % 2 = 1 /\ 6 % 2 = 0 /\ 7 % 2 = 1 /\ 8 % 2 = 0
            /\ 4 - (1 - 1) \div 2 = 4 /\ 4 - (2 - 1) \div 2 = 4
            /\ 4 - (3 - 1) \div 2 = 3 /\ 4 - (4 - 1) \div 2 = 3
            /\ 4 - (5 - 1) \div 2 = 2 /\ 4 - (6 - 1) \div 2 = 2
            /\ 4 - (7 - 1) \div 2 = 1 /\ 4 - (8 - 1) \div 2 = 1
            OBVIOUS
      <2> QED BY <1>1, <2>1
<1>3. h = [i \in 1 .. 8 |-> h[i]]
      BY <1>1
<1> HIDE DEF h
<1>4. \A k \in 1 .. 4 : /\ h[8 - 2 * k + 1] = s[k] \div 16
                        /\ h[8 - 2 * k + 2] = s[k] % 16
      BY <1>2
<1>5. ASSUME NEW k \in 1 .. 4
      PROVE  /\ s[k] \div 16 \in Digits /\ s[k] % 16 \in Digits
             /\ 16 * (s[k] \div 16) + (s[k] % 16) = s[k]
      <2>1. \A byte \in 0 .. 255 : /\ byte \div 16 \in 0 .. 15 /\ byte % 16 \in 0 .. 15
                                   /\ 16 * (byte \div 16) + (byte % 16) = byte
            OBVIOUS
      <2> QED BY <1>0, <2>1 DEF Digits
<1>6. h \in Seq(Digits) /\ Len(h) = 8
      <2>1. ASSUME NEW i \in 1 .. 8 PROVE h[i] \in Digits
            <3>1. i \in {1, 2, 3, 4, 5, 6, 7, 8} OBVIOUS
            <3> QED BY <1>2, <1>5, <3>1
      <2> HIDE DEF Digits
      <2>2. [i \in 1 .. 8 |-> h[i]] \in Seq(Digits) /\ Len([i \in 1 .. 8 |-> h[i]]) = 8
            BY <2>1
      <2> QED BY <1>3, <2>2
<1>7. \A k \in 1 .. 4 : PrintedByte(h, k) = s[k]
      BY <1>4, <1>5, <1>6 DEF PrintedByte
<1>8. b = [k \in 1 .. 4 |-> SubSeq(h, 8 - 2 * k + 1, 8 - 2 * k + 2)]
      BY <1>6 DEF BytesFromBack
<1> HIDE DEF b
<1>9. ASSUME NEW k \in 1 .. 4
      PROVE  b[k] \in Seq(Digits) /\ IsPair(b[k], s[k])
      <2> DEFINE p == 8 - 2 * k
      <2>1. p \in Nat /\ p + 2 =< 8
            OBVIOUS
      <2>2. b[k] = SubSeq(h, p + 1, p + 2) /\ h[p + 1] = s[k] \div 16 /\ h[p + 2] = s[k] % 16
            BY <1>4, <1>8
      <2> HIDE DEF p
      <2>3. b[k] \in Seq(Digits) /\ Len(b[k]) = 2 /\ \A x \in 1 .. 2 : b[k][x] = h[p + x]
            <3> DEFINE n == 2
            <3>1. n \in Nat /\ p + n =< Len(h) /\ b[k] = Part(h, p, n)
                  BY <1>6, <2>1, <2>2 DEF Part
            <3> HIDE DEF n
            <3>2. Part(h, p, n) \in Seq(Digits) /\ IsPart(Part(h, p, n), h, p, n)
                  BY <1>6, <2>1, <3>1, PartOf
            <3>3. b[k] \in Seq(Digits) /\ IsPart(b[k], h, p, n)
                  BY <3>1, <3>2
            <3> QED BY <3>3 DEF n, IsPart
      <2>5. b[k][1] = s[k] \div 16 /\ b[k][2] = s[k] % 16
            BY <2>2, <2>3
      <2> QED BY <1>5, <2>2, <2>3, <2>5 DEF IsPair
<1>10. b \in Seq(Seq(Digits)) /\ Len(b) = 4
       <2> DEFINE V == Seq(Digits)
       <2>1. \A k \in 1 .. 4 : b[k] \in V BY <1>9
       <2>2. b = [k \in 1 .. 4 |-> b[k]] BY <1>8
       <2> HIDE DEF V
       <2>3. [k \in 1 .. 4 |-> b[k]] \in Seq(V) /\ Len([k \in 1 .. 4 |-> b[k]]) = 4
             BY <2>1
       <2> QED BY <2>2, <2>3 DEF V
<1> QED BY <1>7, <1>9, <1>10 DEF h, b

-----------------------------------------------------------------------------
(* The words of a mif file.                                                *)

\* A word: zeros, and the bytes in it from the last to the first.
LEMMA PaddedWord ==
  ASSUME NEW part \in Seq(Seq(Digits)), \A j \in 1 .. Len(part) : Len(part[j]) = 2,
         NEW w \in Nat, Len(part) =< w
  PROVE  LET line == Zeros(2 * (w - Len(part))) \o FlattenSeq(Reverse(part))
         IN  /\ Len(line) = 2 * w
             /\ \A k \in 1 .. w :
                    PrintedByte(line, k) = IF k =< Len(part) THEN 16 * part[k][1] + part[k][2]
                                           ELSE 0
<1> DEFINE m == Len(part)
           z == Zeros(2 * (w - m))
           r == Reverse(part)
           f == FlattenSeq(r)
           line == z \o f
<1>0. m \in Nat /\ m =< w /\ w - m \in Nat
      OBVIOUS
<1>1. z \in Seq(Digits) /\ Len(z) = 2 * (w - m) /\ \A x \in 1 .. 2 * (w - m) : z[x] = 0
      <2> DEFINE n == 2 * (w - m)
      <2>1. n \in Nat /\ 0 \in Digits
            BY <1>0 DEF Digits
      <2> HIDE DEF n
      <2> QED BY <2>1 DEF Zeros
<1>2. r \in Seq(Seq(Digits)) /\ Len(r) = m /\ \A j \in 1 .. m : r[j] = part[m - j + 1]
      <2> DEFINE V == Seq(Digits)
      <2>1. r = [j \in 1 .. m |-> part[(m - j) + 1]]
            BY DEF Reverse
      <2>2. ASSUME NEW j \in 1 .. m PROVE part[(m - j) + 1] \in V
            <3>1. (m - j) + 1 \in 1 .. m BY <1>0
            <3> QED BY <3>1
      <2> HIDE DEF m, r, V
      <2> QED BY <1>0, <2>1, <2>2 DEF V
<1>3. /\ f \in Seq(Digits) /\ Len(f) = 2 * m
      /\ \A j \in 1 .. m : \A x \in 1 .. 2 : f[2 * (j - 1) + x] = part[m - j + 1][x]
      <2> DEFINE c == 2
                 V == Digits
      <2>1. \A j \in 1 .. m : m - j + 1 \in 1 .. m BY <1>0
      <2>2. c \in Nat /\ r \in Seq(Seq(V)) /\ Len(r) = m /\ Uniform(r, c)
            BY <1>0, <1>2, <2>1 DEF Uniform
      <2> HIDE DEF c, r, V, m
      <2>3. f \in Seq(V) /\ LaidOut(f, r, c)
            BY <2>2, FlattenUniform
      <2> HIDE DEF f
      <2>4. ASSUME NEW j \in 1 .. m, NEW x \in 1 .. c
            PROVE  f[c * (j - 1) + x] = part[m - j + 1][x]
            <3>1. f[c * (j - 1) + x] = r[j][x] BY <2>2, <2>3 DEF LaidOut
            <3> QED BY <1>2, <3>1
      <2>5. Len(f) = c * m BY <2>2, <2>3 DEF LaidOut
      <2> QED BY <2>3, <2>4, <2>5 DEF c, V
<1> HIDE DEF m, z, r, f
<1>4. /\ Len(line) = Len(z) + Len(f)
      /\ \A x \in 1 .. Len(z) : line[x] = z[x]
      /\ \A x \in 1 .. Len(f) : line[Len(z) + x] = f[x]
      <2> DEFINE V == Digits
      <2>1. z \in Seq(V) /\ f \in Seq(V) BY <1>1, <1>3
      <2> HIDE DEF V
      <2> QED BY <2>1, OneBehindOther
<1>5. Len(line) = 2 * w
      BY <1>0, <1>1, <1>3, <1>4
<1> HIDE DEF line
<1>6. ASSUME NEW k \in 1 .. w
      PROVE  PrintedByte(line, k) = IF k =< m THEN 16 * part[k][1] + part[k][2] ELSE 0
      <2>1. PrintedByte(line, k) = 16 * line[2 * w - 2 * k + 1] + line[2 * w - 2 * k + 2]
            BY <1>5 DEF PrintedByte
      <2>2. CASE k =< m
            <3> DEFINE j == m - k + 1
            <3>1. j \in 1 .. m /\ m - j + 1 = k /\ k \in 1 .. m
                  BY <1>0, <2>2
            <3>2. f[2 * (j - 1) + 1] = part[k][1] /\ f[2 * (j - 1) + 2] = part[k][2]
                  <4> HIDE DEF j
                  <4>1. \A x \in 1 .. 2 : f[2 * (j - 1) + x] = part[m - j + 1][x]
                        BY <1>3, <3>1
                  <4>2. \A x \in 1 .. 2 : f[2 * (j - 1) + x] = part[k][x]
                        BY <3>1, <4>1
                  <4> QED BY <4>2
            <3>3. /\ 2 * (j - 1) + 1 \in 1 .. Len(f) /\ 2 * (j - 1) + 2 \in 1 .. Len(f)
                  /\ Len(z) + (2 * (j - 1) + 1) = 2 * w - 2 * k + 1
                  /\ Len(z) + (2 * (j - 1) + 2) = 2 * w - 2 * k + 2
                  BY <1>0, <1>1, <1>3, <3>1
            <3> HIDE DEF j
            <3>4. /\ line[2 * w - 2 * k + 1] = part[k][1]
                  /\ line[2 * w - 2 * k + 2] = part[k][2]
                  BY <1>4, <3>2, <3>3
            <3> QED BY <2>1, <2>2, <3>4
      <2>3. CASE ~(k =< m)
            <3>1. /\ 2 * w - 2 * k + 1 \in 1 .. 2 * (w - m)
                  /\ 2 * w - 2 * k + 2 \in 1 .. 2 * (w - m)
                  BY <1>0, <2>3
            <3>2. line[2 * w - 2 * k + 1] = 0 /\ line[2 * w - 2 * k + 2] = 0
                  BY <1>1, <1>4, <3>1
            <3> QED BY <2>1, <2>3, <3>2
      <2> QED BY <2>2, <2>3
<1> QED BY <1>5, <1>6 DEF line, z, r, f, m

\* What dividing gives.
LEMMA Divided ==
  ASSUME NEW n \in Nat, NEW w \in Nat \ {0}
  PROVE  /\ n \div w \in Nat /\ n % w \in 0 .. w - 1
         /\ n = w * (n \div w) + (n % w)
OBVIOUS

\* The words are as many as it takes.
LEMMA DepthIs ==
  ASSUME NEW n \in Nat, NEW w \in Nat \ {0}
  PROVE  /\ Depth(n, w) \in Nat /\ Depth(n, w) * w \in n .. n + w - 1
         /\ \A i \in 1 .. Depth(n, w) :
                /\ w * (i - 1) \in Nat /\ w * (i - 1) < n
                /\ w * i = w * (i - 1) + w
<1> DEFINE a == n \div w
           r == n % w
           d == Depth(n, w)
<1>1. a \in Nat /\ r \in 0 .. w - 1 /\ n = w * a + r
      BY Divided
<1>2. d = a + (IF r # 0 THEN 1 ELSE 0)
      BY DEF Depth
<1> HIDE DEF a, r, d
<1>3. d \in Nat /\ (r = 0 => d = a) /\ (r # 0 => d = a + 1)
      BY <1>1, <1>2
<1>4. d * w = w * d /\ w * d \in n .. n + w - 1
      <2> DEFINE p == w * a
      <2>1. p \in Nat /\ w * (a + 1) = p + w BY <1>1
      <2>2. d * w = w * d BY <1>3
      <2>3. w * d = IF r = 0 THEN p ELSE p + w BY <1>3, <2>1
      <2>4. n = p + r BY <1>1
      <2> HIDE DEF p
      <2> QED BY <1>1, <2>1, <2>2, <2>3, <2>4
<1>5. ASSUME NEW i \in 1 .. d
      PROVE  /\ w * (i - 1) \in Nat /\ w * (i - 1) < n
             /\ w * i = w * (i - 1) + w
      <2>1. i \in Nat \ {0} /\ i =< d BY <1>3
      <2>2. w * (i - 1) \in Nat /\ w * (i - 1) + w =< w * d BY <1>3, <2>1, WithinMultiple
      <2>3. w * i = w * (i - 1) + w
            <3> DEFINE j == i - 1
            <3>1. j \in Nat /\ i = j + 1 BY <2>1
            <3> HIDE DEF j
            <3>2. w * (j + 1) = w * j + w BY <3>1
            <3> QED BY <3>1, <3>2 DEF j
      <2> DEFINE q == w * (i - 1)
                 e == w * d
      <2>4. q \in Nat /\ q + w =< e /\ e \in n .. n + w - 1 BY <1>4, <2>2
      <2> HIDE DEF q, e
      <2>5. q < n BY <2>4
      <2> QED BY <2>2, <2>3, <2>5 DEF q
<1> QED BY <1>3, <1>4, <1>5 DEF d

\* The words of the file have the bytes in their order.
LEMMA WordsOfFile ==
  ASSUME NEW bytes \in Seq(Seq(Digits)), \A j \in 1 .. Len(bytes) : Len(bytes[j]) = 2,
         NEW w \in Nat \ {0}
  PROVE  LET words == MifLines(bytes, w)
             n(i, k) == w * (i - 1) + k
         IN  /\ Len(words) = Depth(Len(bytes), w)
             /\ \A i \in 1 .. Len(words) :
                    /\ Len(words[i]) = 2 * w
                    /\ \A k \in 1 .. w :
                           PrintedByte(words[i], k)
                               = IF n(i, k) =< Len(bytes)
                                 THEN 16 * bytes[n(i, k)][1] + bytes[n(i, k)][2] ELSE 0
<1> DEFINE words == MifLines(bytes, w)
           L == Len(bytes)
           d == Depth(L, w)
<1>1. L \in Nat
      OBVIOUS
<1>2. /\ d \in Nat
      /\ \A i \in 1 .. d : /\ w * (i - 1) \in Nat /\ w * (i - 1) < L
                           /\ w * i = w * (i - 1) + w
      <2> HIDE DEF L
      <2> QED BY <1>1, DepthIs
<1>3. \A i \in 1 .. d :
          words[i] = Zeros(2 * (w * i - Min({w * i, L})))
                     \o FlattenSeq(Reverse(SubSeq(bytes, w * (i - 1) + 1, Min({w * i, L}))))
      BY DEF MifLines
<1>4. Len(words) = d
      <2>1. \E h : words = [i \in 1 .. d |-> h[i]]
            <3> DEFINE h == words
            <3>1. words = [i \in 1 .. d |-> h[i]] BY DEF MifLines
            <3> HIDE DEF words
            <3> QED BY <3>1
      <2> HIDE DEF d, words
      <2> QED BY <1>2, <2>1
<1> HIDE DEF words, d
<1>5. ASSUME NEW i \in 1 .. d
      PROVE  /\ Len(words[i]) = 2 * w
             /\ \A k \in 1 .. w :
                    PrintedByte(words[i], k)
                        = IF w * (i - 1) + k =< L
                          THEN 16 * bytes[w * (i - 1) + k][1] + bytes[w * (i - 1) + k][2] ELSE 0
      <2> DEFINE q == w * (i - 1)
                 t == Min({w * i, L})
                 m == t - q
                 part == SubSeq(bytes, q + 1, t)
      <2>1. q \in Nat /\ q < L /\ w * i = q + w
            BY <1>2
      <2> HIDE DEF q, L
      <2>2. t = (IF q + w =< L THEN q + w ELSE L)
            <3>1. {w * i, L} \in SUBSET Nat /\ {w * i, L} # {} BY <1>1, <2>1
            <3>2. t \in {w * i, L} /\ \A x \in {w * i, L} : t =< x BY <3>1, MinOfSome
            <3> QED BY <1>1, <2>1, <3>2
      <2> HIDE DEF t
      <2>3. /\ m \in 1 .. w /\ t = q + m /\ q + m =< L
            /\ m = (IF q + w =< L THEN w ELSE L - q) /\ w * i - t = w - m
            BY <1>1, <2>1, <2>2
      <2> HIDE DEF m
      <2>4. part \in Seq(Seq(Digits)) /\ Len(part) = m /\ \A k \in 1 .. m : part[k] = bytes[q + k]
            <3> DEFINE V == Seq(Digits)
            <3>1. bytes \in Seq(V) /\ m \in Nat /\ q + m =< Len(bytes)
                  BY <2>3 DEF L
            <3> HIDE DEF V
            <3>2. Part(bytes, q, m) \in Seq(V) /\ IsPart(Part(bytes, q, m), bytes, q, m)
                  BY <2>1, <3>1, PartOf
            <3>3. part = Part(bytes, q, m)
                  BY <2>3 DEF Part
            <3> QED BY <3>2, <3>3 DEF V, IsPart
      <2>5. \A k \in 1 .. m : Len(part[k]) = 2
            <3> SUFFICES ASSUME NEW k \in 1 .. m PROVE Len(part[k]) = 2
                OBVIOUS
            <3>1. q + k \in 1 .. Len(bytes) BY <1>1, <2>1, <2>3 DEF L
            <3>2. part[k] = bytes[q + k] BY <2>4
            <3> HIDE DEF part
            <3> QED BY <3>1, <3>2
      <2>6. words[i] = Zeros(2 * (w - m)) \o FlattenSeq(Reverse(part))
            <3>1. words[i] = Zeros(2 * (w * i - t)) \o FlattenSeq(Reverse(part))
                  BY <1>3 DEF t, q
            <3> QED BY <2>3, <3>1
      <2> HIDE DEF part
      <2>7. /\ Len(words[i]) = 2 * w
            /\ \A k \in 1 .. w :
                   PrintedByte(words[i], k) = IF k =< m THEN 16 * part[k][1] + part[k][2] ELSE 0
            <3>1. w \in Nat /\ Len(part) =< w /\ \A j \in 1 .. Len(part) : Len(part[j]) = 2
                  BY <2>3, <2>4, <2>5
            <3> HIDE DEF words
            <3>2. LET line == Zeros(2 * (w - Len(part))) \o FlattenSeq(Reverse(part))
                  IN  /\ Len(line) = 2 * w
                      /\ \A k \in 1 .. w :
                             PrintedByte(line, k) = IF k =< Len(part)
                                                    THEN 16 * part[k][1] + part[k][2] ELSE 0
                  BY <2>4, <3>1, PaddedWord
            <3> QED BY <2>4, <2>6, <3>2
      <2>8. ASSUME NEW k \in 1 .. w
            PROVE  PrintedByte(words[i], k)
                       = IF q + k =< L THEN 16 * bytes[q + k][1] + bytes[q + k][2] ELSE 0
            <3>1. CASE k =< m
                  <4>1. q + k =< L /\ k \in 1 .. m BY <1>1, <2>1, <2>3, <3>1
                  <4> QED BY <2>4, <2>7, <3>1, <4>1
            <3>2. CASE ~(k =< m)
                  <4>1. ~(q + k =< L) BY <1>1, <2>1, <2>3, <3>2
                  <4> QED BY <2>7, <3>2, <4>1
            <3> QED BY <3>1, <3>2
      <2> QED BY <2>7, <2>8 DEF q
<1> QED BY <1>4, <1>5 DEF words, d, L

-----------------------------------------------------------------------------
(* The file is the program.                                                *)

\* What finalize and the appends make of the instructions.
LEMMA PrintedInstructions ==
  ASSUME InFours, NEW w \in Nat \ {0}
  PROVE  LET file(kind) == Written(kind, w, Instructions)
         IN  /\ FlattenSeq(file("bin").lines) = prog
             /\ HexIsProgram(file("hex").lines)
             /\ LET words == file("mif").lines
                IN  /\ Len(words) = file("mif").depth
                    /\ Len(words) * w \in Len(prog) .. Len(prog) + w - 1
                    /\ \A i \in 1 .. Len(words) :
                           /\ Len(words[i]) = 2 * w
                           /\ \A k \in 1 .. w :
                                  LET n == w * (i - 1) + k
                                  IN  PrintedByte(words[i], k)
                                          = IF n =< Len(prog) THEN prog[n] ELSE 0
<1> DEFINE insts == Instructions
           N == Len(inst_lengths)
           printed == [i \in 1 .. Len(insts) |-> dynamicHexBuilder[insts[i]]]
           parts == [i \in 1 .. Len(insts) |-> BytesFromBack(printed[i])]
           bytes == FlattenSeq(parts)
<1>1. /\ N \in Nat /\ Len(prog) = 4 * N /\ prog \in Seq(Bytes)
      /\ insts \in Seq(Seq(Bytes)) /\ Len(insts) = N
      /\ \A i \in 1 .. N : /\ Len(insts[i]) = 4
                           /\ \A k \in 1 .. 4 : insts[i][k] = prog[4 * (i - 1) + k]
      BY ReadBack DEF InFours
<1>2. FlattenSeq(insts) = prog
      BY BytesOfInstructions
<1>3. /\ Written("bin", w, insts).lines = insts
      /\ Written("hex", w, insts).lines = printed
      /\ Written("mif", w, insts).lines = MifLines(bytes, w)
      /\ Written("mif", w, insts).depth = Depth(Len(FlattenSeq(insts)), w)
      BY DEF Written
<1> HIDE DEF insts, N
<1>4. ASSUME NEW i \in 1 .. N
      PROVE  /\ \A k \in 1 .. 4 : PrintedByte(printed[i], k) = insts[i][k]
             /\ parts[i] \in Seq(Seq(Digits)) /\ Len(parts[i]) = 4
             /\ \A k \in 1 .. 4 : IsPair(parts[i][k], insts[i][k])
      <2> DEFINE s == insts[i]
      <2>1. s \in Seq(Bytes) /\ Len(s) = 4
            <3> DEFINE V == Seq(Bytes)
            <3>1. insts \in Seq(V) /\ i \in 1 .. Len(insts) BY <1>1
            <3> HIDE DEF V, printed, parts
            <3>2. insts[i] \in V BY <3>1
            <3> QED BY <1>1, <3>2 DEF V
      <2>2. printed[i] = dynamicHexBuilder[s] /\ parts[i] = BytesFromBack(dynamicHexBuilder[s])
            BY <1>1
      <2> HIDE DEF s, printed, parts
      <2>3. LET h == dynamicHexBuilder[s]
            IN  /\ \A k \in 1 .. 4 : PrintedByte(h, k) = s[k]
                /\ BytesFromBack(h) \in Seq(Seq(Digits)) /\ Len(BytesFromBack(h)) = 4
                /\ \A k \in 1 .. 4 : IsPair(BytesFromBack(h)[k], s[k])
            BY <2>1, PrintedFour
      <2> QED BY <2>2, <2>3 DEF s
<1>5. Len(printed) = N
      BY <1>1
<1>6. parts \in Seq(Seq(Seq(Digits))) /\ Len(parts) = N
      <2> DEFINE V == Seq(Seq(Digits))
      <2>1. \A i \in 1 .. N : parts[i] \in V BY <1>4
      <2>2. parts = [i \in 1 .. N |-> parts[i]] /\ N \in Nat BY <1>1
      <2> HIDE DEF V, parts
      <2>3. [i \in 1 .. N |-> parts[i]] \in Seq(V) /\ Len([i \in 1 .. N |-> parts[i]]) = N
            BY <2>1, <2>2
      <2> QED BY <2>2, <2>3 DEF V
<1> HIDE DEF printed, parts
<1>7. HexIsProgram(printed)
      <2>1. ASSUME NEW i \in 1 .. N, NEW k \in 1 .. 4
            PROVE  PrintedByte(printed[i], k) = prog[4 * (i - 1) + k]
            <3>1. PrintedByte(printed[i], k) = insts[i][k] BY <1>4
            <3>2. insts[i][k] = prog[4 * (i - 1) + k] BY <1>1
            <3> QED BY <3>1, <3>2
      <2> QED BY <1>1, <1>5, <2>1 DEF HexIsProgram
<1>8. /\ bytes \in Seq(Seq(Digits)) /\ Len(bytes) = 4 * N
      /\ \A i \in 1 .. N : \A k \in 1 .. 4 : bytes[4 * (i - 1) + k] = parts[i][k]
      <2> DEFINE c == 4
                 V == Seq(Digits)
      <2>1. c \in Nat /\ parts \in Seq(Seq(V)) /\ Len(parts) = N /\ Uniform(parts, c)
            BY <1>4, <1>6 DEF Uniform
      <2> HIDE DEF c, V
      <2>2. FlattenSeq(parts) \in Seq(V) /\ LaidOut(FlattenSeq(parts), parts, c)
            BY <2>1, FlattenUniform
      <2> QED BY <2>1, <2>2 DEF c, V, LaidOut
<1> HIDE DEF bytes
<1>9. ASSUME NEW j \in 1 .. 4 * N
      PROVE  IsPair(bytes[j], prog[j])
      <2>1. PICK i \in 1 .. N, k \in 1 .. 4 : j = 4 * (i - 1) + k
            BY <1>1, ByteOfInstruction
      <2> QED BY <1>1, <1>4, <1>8, <2>1
<1> DEFINE words == MifLines(bytes, w)
<1>10. /\ Len(words) = Depth(Len(prog), w)
       /\ \A i \in 1 .. Len(words) :
              /\ Len(words[i]) = 2 * w
              /\ \A k \in 1 .. w :
                     LET n == w * (i - 1) + k
                     IN  PrintedByte(words[i], k)
                             = IF n =< Len(prog) THEN 16 * bytes[n][1] + bytes[n][2] ELSE 0
       <2>1. \A j \in 1 .. Len(bytes) : Len(bytes[j]) = 2
             BY <1>8, <1>9 DEF IsPair
       <2>2. Len(bytes) = Len(prog)
             BY <1>1, <1>8
       <2> HIDE DEF words
       <2>3. /\ Len(words) = Depth(Len(bytes), w)
             /\ \A i \in 1 .. Len(words) :
                    /\ Len(words[i]) = 2 * w
                    /\ \A k \in 1 .. w :
                           PrintedByte(words[i], k)
                               = IF w * (i - 1) + k =< Len(bytes)
                                 THEN 16 * bytes[w * (i - 1) + k][1] + bytes[w * (i - 1) + k][2]
                                 ELSE 0
             BY <1>8, <2>1, WordsOfFile DEF words
       <2> QED BY <2>2, <2>3
<1>11. /\ Depth(Len(prog), w) \in Nat
       /\ Depth(Len(prog), w) * w \in Len(prog) .. Len(prog) + w - 1
       /\ \A i \in 1 .. Depth(Len(prog), w) : w * (i - 1) \in Nat
       <2> DEFINE n == Len(prog)
       <2>1. n \in Nat BY <1>1
       <2> HIDE DEF n
       <2>2. /\ Depth(n, w) \in Nat /\ Depth(n, w) * w \in n .. n + w - 1
             /\ \A i \in 1 .. Depth(n, w) : w * (i - 1) \in Nat
             BY <2>1, DepthIs
       <2> QED BY <2>2 DEF n
<1> HIDE DEF words
<1>12. ASSUME NEW i \in 1 .. Len(words), NEW k \in 1 .. w
       PROVE  LET n == w * (i - 1) + k
              IN  PrintedByte(words[i], k) = IF n =< Len(prog) THEN prog[n] ELSE 0
       <2> DEFINE n == w * (i - 1) + k
       <2>1. n \in Nat \ {0}
             <3> DEFINE q == w * (i - 1)
             <3>1. q \in Nat BY <1>10, <1>11
             <3> HIDE DEF q
             <3>2. q + k \in Nat \ {0} BY <3>1
             <3> QED BY <3>2 DEF q
       <2>2. PrintedByte(words[i], k)
                 = IF n =< Len(prog) THEN 16 * bytes[n][1] + bytes[n][2] ELSE 0
             BY <1>10
       <2> HIDE DEF n
       <2>3. ASSUME n =< Len(prog) PROVE 16 * bytes[n][1] + bytes[n][2] = prog[n]
             <3>1. n \in 1 .. 4 * N BY <1>1, <2>1, <2>3
             <3>2. IsPair(bytes[n], prog[n]) BY <1>9, <3>1
             <3> QED BY <3>2 DEF IsPair
       <2> QED BY <2>2, <2>3 DEF n
<1>13. Len(words) = Written("mif", w, insts).depth /\ Written("mif", w, insts).lines = words
       BY <1>2, <1>3, <1>10 DEF words
<1> QED BY <1>2, <1>3, <1>7, <1>10, <1>11, <1>12, <1>13 DEF insts

IsSequence(s) == s \in Seq({s[i] : i \in DOMAIN s})

\* The part of PassesAgree about the first pass, with the types it needs ...
FirstPassInv ==
    /\ IsSequence(lines)
    /\ line_number \in Nat
    /\ equiv_pc = AddressOfLine(Len(lines) + 1)
    /\ \A l \in DOMAIN jump_syms : jump_syms[l] \in Boundaries
    /\ \A n \in DOMAIN line_number_to_PC :
           /\ n \in Nat /\ n =< line_number
           /\ line_number_to_PC[n] \in Nat /\ line_number_to_PC[n] < equiv_pc
           /\ \A m \in DOMAIN line_number_to_PC :
                  n < m => line_number_to_PC[n] < line_number_to_PC[m]

\* ... and the part about the second.
SecondPassInv == /\ itr \in Nat \ {0} /\ itr =< Len(lines) + 1
                 /\ asm_pc = AddressOfLine(itr)

IInv == FirstPassInv /\ SecondPassInv

-----------------------------------------------------------------------------
(* Lemmas about sequences.                                                 *)

\* A sequence is one over its own elements.
LEMMA IsSequenceIntro ==
  ASSUME NEW S, NEW s \in Seq(S) PROVE IsSequence(s)
<1>1. Len(s) \in Nat /\ DOMAIN s = 1 .. Len(s)
  OBVIOUS
<1>2. s = [i \in 1 .. Len(s) |-> s[i]]
  OBVIOUS
<1>. QED BY <1>1, <1>2 DEF IsSequence

\* Appending anything gives a sequence one longer.
LEMMA AppendAny ==
  ASSUME NEW s, IsSequence(s), NEW e
  PROVE  /\ IsSequence(Append(s, e))
         /\ Len(s) \in Nat
         /\ Len(Append(s, e)) = Len(s) + 1
<1>. DEFINE S == {s[i] : i \in DOMAIN s} \cup {e}
<1>1. s \in Seq(S)
  BY DEF IsSequence
<1>2. Append(s, e) \in Seq(S) /\ Len(Append(s, e)) = Len(s) + 1 /\ Len(s) \in Nat
  BY <1>1
<1>. QED BY <1>2, IsSequenceIntro

-----------------------------------------------------------------------------
(* The steps.                                                              *)

\* The addresses of lines only become more as lines are kept.
LEMMA BoundaryKept ==
  ASSUME Len(lines) \in Nat, Len(lines') \in Nat, Len(lines) =< Len(lines')
  PROVE  Boundaries \subseteq Boundaries'
BY DEF Boundaries, AddressOfLine

\* The assembler has read nothing.
LEMMA InitIInv == Init => IInv
<1>. SUFFICES ASSUME Init PROVE IInv
  OBVIOUS
<1>0. lines = <<>> /\ <<>> \in Seq({})
  BY DEF Init
<1>1. IsSequence(lines) /\ Len(lines) = 0
  BY <1>0, IsSequenceIntro
<1>2. DOMAIN jump_syms = {} /\ DOMAIN line_number_to_PC = {}
  BY DEF Init
<1>3. line_number = 0 /\ equiv_pc = 0 /\ itr = 1 /\ asm_pc = 0
  BY DEF Init
<1>4. AddressOfLine(Len(lines) + 1) = 0 /\ AddressOfLine(itr) = 0
  BY <1>1, <1>3 DEF AddressOfLine
<1>5. FirstPassInv
  BY <1>1, <1>2, <1>3, <1>4 DEF FirstPassInv
<1>6. SecondPassInv
  BY <1>1, <1>3, <1>4 DEF SecondPassInv
<1>. QED BY <1>5, <1>6 DEF IInv

\* What the first pass has built.
firstPassState == <<line_number, equiv_pc, lines, jump_syms, line_number_to_PC>>

\* A step that leaves the first pass alone.
LEMMA FirstPassUnchanged ==
  ASSUME FirstPassInv, UNCHANGED firstPassState PROVE FirstPassInv'
BY DEF FirstPassInv, firstPassState, Boundaries, AddressOfLine, IsSequence

\* A line that is read.
LEMMA ReadLineStep ==
  ASSUME IInv, ReadLine PROVE IInv'
<1>0. PICK cut \in {chop_string[current_line]} :
         \/ UNCHANGED <<equiv_pc, lines, jump_syms, line_number_to_PC>>
         \/ /\ cut.ok /\ ~Redefined(cut.words)
            /\ InsertSymbol(cut.words)
            /\ ReadInstruction(cut.words) \/ ReadNoInstruction(cut.words)
  BY DEF ReadLine
<1>1. line_number' = line_number + 1 /\ UNCHANGED pass2
  BY DEF ReadLine
<1>2. Len(lines) \in Nat /\ IsSequence(lines) /\ line_number \in Nat
  BY AppendAny DEF IInv, FirstPassInv
<1>3. CASE UNCHANGED <<equiv_pc, lines, jump_syms, line_number_to_PC>>
  <2>1. IsSequence(lines') /\ equiv_pc' = AddressOfLine(Len(lines') + 1)
    BY <1>3 DEF IInv, FirstPassInv, IsSequence, AddressOfLine
  <2>2. \A l \in DOMAIN jump_syms' : jump_syms'[l] \in Boundaries'
    BY <1>2, <1>3, BoundaryKept DEF IInv, FirstPassInv
  <2>3. \A n \in DOMAIN line_number_to_PC' : n \in Nat /\ n =< line_number'
    BY <1>1, <1>2, <1>3 DEF IInv, FirstPassInv
  <2>4. SecondPassInv'
    BY <1>1, <1>3 DEF IInv, SecondPassInv, pass2, AddressOfLine
  <2>. QED BY <1>1, <1>2, <1>3, <2>1, <2>2, <2>3, <2>4 DEF IInv, FirstPassInv
<1>4. CASE InsertSymbol(cut.words) /\ ReadNoInstruction(cut.words)
  <2>0. UNCHANGED <<line_number_to_PC, equiv_pc, lines>>
    BY <1>4 DEF ReadNoInstruction
  <2>1. IsSequence(lines') /\ equiv_pc' = AddressOfLine(Len(lines') + 1)
    BY <2>0 DEF IInv, FirstPassInv, IsSequence, AddressOfLine
  <2>2. \A l \in DOMAIN jump_syms' : jump_syms'[l] \in Boundaries'
    <3>1. \A l \in DOMAIN jump_syms' :
              \/ l \in DOMAIN jump_syms /\ jump_syms'[l] = jump_syms[l]
              \/ jump_syms'[l] = equiv_pc
      BY <1>4, <2>0 DEF InsertSymbol, WithEntry
    <3>2. equiv_pc \in Boundaries
      BY <1>2 DEF IInv, FirstPassInv, Boundaries
    <3>. QED BY <1>2, <2>0, <3>1, <3>2, BoundaryKept DEF IInv, FirstPassInv
  <2>3. \A n \in DOMAIN line_number_to_PC' : n \in Nat /\ n =< line_number'
    BY <1>1, <1>2, <2>0 DEF IInv, FirstPassInv
  <2>4. SecondPassInv'
    BY <1>1, <2>0 DEF IInv, SecondPassInv, pass2, AddressOfLine
  <2>. QED BY <1>1, <1>2, <2>0, <2>1, <2>2, <2>3, <2>4 DEF IInv, FirstPassInv
<1>5. CASE InsertSymbol(cut.words) /\ ReadInstruction(cut.words)
  <2>0. /\ line_number_to_PC' = WithEntry(line_number_to_PC, line_number', equiv_pc)
        /\ equiv_pc' = equiv_pc + 4
        /\ lines' = Append(lines, KeptLine(cut.words))
    BY <1>5 DEF ReadInstruction
  <2>1. IsSequence(lines') /\ Len(lines') = Len(lines) + 1
    BY <1>2, <2>0, AppendAny
  <2>2. equiv_pc' = AddressOfLine(Len(lines') + 1) /\ equiv_pc \in Nat /\ equiv_pc' \in Nat
    BY <1>2, <2>0, <2>1 DEF IInv, FirstPassInv, AddressOfLine
  <2>3. \A l \in DOMAIN jump_syms' : jump_syms'[l] \in Boundaries'
    <3>1. \A l \in DOMAIN jump_syms' :
              \/ l \in DOMAIN jump_syms /\ jump_syms'[l] = jump_syms[l]
              \/ jump_syms'[l] = equiv_pc
      BY <1>5 DEF InsertSymbol, WithEntry
    <3>2. equiv_pc \in Boundaries
      BY <1>2 DEF IInv, FirstPassInv, Boundaries
    <3>. QED BY <1>2, <2>1, <3>1, <3>2, BoundaryKept DEF IInv, FirstPassInv
  <2>4. \A n \in DOMAIN line_number_to_PC' :
            \/ n \in DOMAIN line_number_to_PC
               /\ line_number_to_PC'[n] = line_number_to_PC[n]
            \/ n = line_number + 1 /\ line_number_to_PC'[n] = equiv_pc
    BY <1>1, <2>0 DEF WithEntry
  <2>5. \A n \in DOMAIN line_number_to_PC' :
           /\ n \in Nat /\ n =< line_number'
           /\ line_number_to_PC'[n] \in Nat /\ line_number_to_PC'[n] < equiv_pc'
    BY <1>1, <1>2, <2>0, <2>2, <2>4 DEF IInv, FirstPassInv
  <2>6. \A n, m \in DOMAIN line_number_to_PC' :
            n < m => line_number_to_PC'[n] < line_number_to_PC'[m]
    <3>. SUFFICES ASSUME NEW n \in DOMAIN line_number_to_PC',
                         NEW m \in DOMAIN line_number_to_PC', n < m
                  PROVE  line_number_to_PC'[n] < line_number_to_PC'[m]
      OBVIOUS
    <3>1. n \in DOMAIN line_number_to_PC /\ line_number_to_PC'[n] = line_number_to_PC[n]
      BY <1>1, <1>2, <2>4, <2>5
    <3>2. line_number_to_PC[n] < equiv_pc
      BY <3>1 DEF IInv, FirstPassInv
    <3>. QED BY <2>4, <3>1, <3>2 DEF IInv, FirstPassInv
  <2>7. SecondPassInv'
    BY <1>1, <1>2, <2>1 DEF IInv, SecondPassInv, pass2, AddressOfLine
  <2>. QED BY <1>1, <1>2, <2>1, <2>2, <2>3, <2>5, <2>6, <2>7 DEF IInv, FirstPassInv
<1>. QED BY <1>0, <1>3, <1>4, <1>5

\* A line that is assembled.
LEMMA AsmFlashStep ==
  ASSUME IInv, AsmFlash PROVE IInv'
<1>1. FirstPassInv'
  BY FirstPassUnchanged DEF IInv, AsmFlash, pass1, firstPassState
<1>2. UNCHANGED lines /\ itr =< Len(lines) /\ Len(lines) \in Nat
  BY AppendAny DEF AsmFlash, pass1, IInv, FirstPassInv
<1>3. CASE UNCHANGED pass2
  BY <1>1, <1>2, <1>3 DEF IInv, SecondPassInv, pass2, AddressOfLine
<1>4. CASE ~UNCHANGED pass2
  <2>1. PICK words, junk :
            /\ assemble(words, asm_pc, jump_syms, junk).ex = "none"
            /\ WriteInstruction(assemble(words, asm_pc, jump_syms, junk).bytes)
    BY <1>4 DEF AsmFlash
  <2>. DEFINE bytes == assemble(words, asm_pc, jump_syms, junk).bytes
  <2>2. Len(bytes) = 4
    BY <2>1, AssembleLength
  <2>3. CASE Len(prog) + Len(bytes) =< MaxProgram
    <3>1. itr' = itr + 1 /\ asm_pc' = asm_pc + 4
      BY <2>1, <2>2, <2>3 DEF WriteInstruction
    <3>. QED BY <1>1, <1>2, <3>1 DEF IInv, SecondPassInv, AddressOfLine
  <2>4. CASE ~(Len(prog) + Len(bytes) =< MaxProgram)
    <3>1. UNCHANGED <<itr, asm_pc>>
      BY <2>1, <2>4 DEF WriteInstruction
    <3>. QED BY <1>1, <1>2, <3>1 DEF IInv, SecondPassInv, AddressOfLine
  <2>. QED BY <2>3, <2>4
<1>. QED BY <1>3, <1>4

\* The other steps leave both passes as they are.
LEMMA IInvUnchanged ==
  ASSUME IInv, UNCHANGED <<pass1, pass2>> PROVE IInv'
<1>1. FirstPassInv'
  BY FirstPassUnchanged DEF IInv, pass1, firstPassState
<1>. QED BY <1>1 DEF IInv, SecondPassInv, pass1, pass2, AddressOfLine

\* No step breaks the invariant.
LEMMA NextIInv == IInv /\ [Next]_vars => IInv'
<1>. SUFFICES ASSUME IInv, [Next]_vars PROVE IInv'
  OBVIOUS
<1>1. CASE Options
  BY <1>1, IInvUnchanged DEF Options
<1>2. CASE ReadLine
  BY <1>2, ReadLineStep
<1>3. CASE EndOfSource
  BY <1>3, IInvUnchanged DEF EndOfSource
<1>4. CASE AsmFlash
  BY <1>4, AsmFlashStep
<1>5. CASE EndOfLines
  BY <1>5, IInvUnchanged DEF EndOfLines
<1>6. CASE Dump
  BY <1>6, IInvUnchanged DEF Dump
<1>7. CASE UNCHANGED vars
  BY <1>7, IInvUnchanged DEF vars, pass1, pass2
<1>. QED BY <1>1, <1>2, <1>3, <1>4, <1>5, <1>6, <1>7 DEF Next

-----------------------------------------------------------------------------
\* The two passes of the assembler agree on the address of every instruction
\* (equiv_pc of Shell::Run and asm_pc of the second loop), so that every label
\* names the beginning of an instruction or the end of the program.
THEOREM PassesAgreeAlways == Spec => []PassesAgree
<1>1. IInv => PassesAgree
  BY DEF IInv, FirstPassInv, SecondPassInv, PassesAgree
<1>. QED BY InitIInv, NextIInv, <1>1, PTL DEF Spec

-----------------------------------------------------------------------------
(* The types.                                                              *)

\* TypeOK, but for what IInv says already: while it runs it has no result, lines are
\* texts, which the second pass can cut into words again, and every instruction has
\* four bytes.
PlaceTypes == /\ pc \in Places /\ result \in Results
              /\ exception \in AsmExceptions \cup {"none"}
              /\ result = "running" <=> pc # "end"
ReadTypes == pos \in 0 .. Len(source) /\ lines \in Seq(Texts)
ProgTypes == /\ prog \in Seq(Bytes) /\ Len(prog) =< MaxProgram
             /\ inst_lengths \in Seq({4})
TypeInv == /\ PlaceTypes /\ ReadTypes /\ ProgTypes
           /\ args \in Seq(STRING) /\ source \in Texts
           /\ env \in Envs
           /\ result # "done" => output = NoOutput

\* Going on, or stopping, in any of the ways there are.
LEMMA PlaceKept ==
  ASSUME PlaceTypes, pc # "end"
  PROVE  /\ Stay => PlaceTypes'
         /\ \A place \in Places \ {"end"} : GoTo(place) => PlaceTypes'
         /\ \A how \in Results \ {"running"} : Stop(how) => PlaceTypes'
         /\ \A how \in Results \ {"running"} : \A ex \in AsmExceptions :
                Throw(ex, how) => PlaceTypes'
BY DEF PlaceTypes, Stay, GoTo, Stop, Throw, Places

\* All but the last character of a text is a text.
LEMMA FrontIsText ==
  ASSUME NEW text \in Texts
  PROVE  Front(text) \in Texts
<1>1. CASE Len(text) = 0
      <2>1. Front(text) = <<>> BY <1>1 DEF Front, Texts
      <2> QED BY <2>1 DEF Texts
<1>2. CASE Len(text) # 0
      <2> DEFINE n == Len(text) - 1
      <2>1. n \in Nat /\ n =< Len(text) BY <1>2 DEF Texts
      <2>2. Front(text) = SubSeq(text, 1, n) BY DEF Front
      <2> HIDE DEF n
      <2>3. SubSeq(text, 1, n) \in Seq(STRING) BY <2>1 DEF Texts
      <2> QED BY <2>2, <2>3 DEF Texts
<1> QED BY <1>1, <1>2

\* What fgets gives is a part of the file, and not empty.
LEMMA LineIsText ==
  ASSUME source \in Texts, pos \in 0 .. Len(source), pos < Len(source)
  PROVE  /\ LineEnd \in 0 .. Len(source)
         /\ current_line \in Texts
<1>0. Len(source) \in Nat /\ MaxLine \in Nat /\ pos \in Nat
      BY AssemblerAssumption DEF Texts
<1> DEFINE ends == {pos + MaxLine, Len(source)} \cup Newlines
<1>1. ends \in SUBSET Nat /\ ends # {} /\ Len(source) \in ends
      BY <1>0 DEF Newlines
<1>2. LineEnd = Min(ends)
      BY DEF LineEnd
<1> HIDE DEF ends
<1>3. LineEnd \in Nat /\ LineEnd =< Len(source)
      BY <1>0, <1>1, <1>2, MinOfSome
<1>4. SubSeq(source, pos + 1, LineEnd) \in Seq(STRING)
      <2> DEFINE m == pos + 1
                 n == LineEnd
      <2>1. m \in Nat \ {0} /\ n \in Nat /\ n =< Len(source) /\ source \in Seq(STRING)
            BY <1>0, <1>3 DEF Texts
      <2> HIDE DEF m, n
      <2>2. SubSeq(source, m, n) \in Seq(STRING) BY <2>1
      <2> QED BY <2>2 DEF m, n
<1> QED BY <1>0, <1>3, <1>4 DEF current_line, Texts

\* The assembler starts with texts, and an empty program.
LEMMA InitTypes == Init => TypeInv
<1> SUFFICES ASSUME Init PROVE TypeInv
    OBVIOUS
<1>1. Len(source) \in Nat /\ source \in Texts
      BY DEF Init, Texts
<1>2. <<>> \in Seq(Bytes) /\ <<>> \in Seq({4}) /\ <<>> \in Seq(Texts) /\ Len(<<>>) = 0
      OBVIOUS
<1>3. env \in Envs
      BY DefaultIsEnv DEF Init
<1>4. 0 =< MaxProgram
      BY AssemblerAssumption
<1> QED BY <1>1, <1>2, <1>3, <1>4 DEF Init, TypeInv, PlaceTypes, ReadTypes, ProgTypes,
                                      Places, Results

\* A line that is read.
LEMMA ReadLineTypes ==
  ASSUME TypeInv, ReadLine PROVE TypeInv'
<1>1. /\ LineEnd \in 0 .. Len(source) /\ current_line \in Texts
      /\ pos' = LineEnd /\ UNCHANGED <<input, env, pass2, output>> /\ pc = "pass1"
      BY LineIsText DEF TypeInv, ReadTypes, ReadLine
<1>2. \A parts : KeptLine(parts) \in Texts
      BY <1>1, FrontIsText, TrimIsText DEF KeptLine
<1>3. lines' \in Seq(Texts)
      <2>1. UNCHANGED lines \/ \E parts : lines' = Append(lines, KeptLine(parts))
            BY DEF ReadLine, ReadInstruction, ReadNoInstruction
      <2>2. lines \in Seq(Texts)
            BY DEF TypeInv, ReadTypes
      <2> QED BY <1>2, <2>1, <2>2
<1>4. PlaceTypes' /\ result # "done" /\ result' # "done"
      <2>1. PlaceTypes /\ pc # "end" /\ result = "running"
            BY <1>1 DEF TypeInv, PlaceTypes
      <2>2. \/ Throw("mt_bad_escape", "error") \/ Throw("mt_multidef_symbol", "error") \/ Stay
            BY DEF ReadLine
      <2>3. /\ "mt_bad_escape" \in AsmExceptions /\ "mt_multidef_symbol" \in AsmExceptions
            /\ "error" \in Results \ {"running"}
            BY DEF Results, AsmExceptions
      <2>4. result' # "done"
            BY <2>1, <2>2 DEF Throw, Stay
      <2> QED BY <2>1, <2>2, <2>3, <2>4, PlaceKept
<1> QED BY <1>1, <1>3, <1>4 DEF TypeInv, ReadTypes, ProgTypes, input, pass2

\* The bytes of an instruction go to the end of the program, as long as there is room.
LEMMA ProgKept ==
  ASSUME ProgTypes, NEW bytes \in Seq(Bytes), Len(bytes) = 4, WriteInstruction(bytes)
  PROVE  ProgTypes'
<1>0. Len(prog) \in Nat /\ MaxProgram \in Nat
      BY AssemblerAssumption DEF ProgTypes
<1>1. CASE Len(prog) + Len(bytes) =< MaxProgram
      <2>1. prog' = prog \o bytes /\ inst_lengths' = Append(inst_lengths, 4)
            BY <1>1 DEF WriteInstruction
      <2>2. prog' \in Seq(Bytes) /\ Len(prog') = Len(prog) + 4
            <3>1. prog \in Seq(Bytes) BY DEF ProgTypes
            <3>2. prog \o bytes \in Seq(Bytes) /\ Len(prog \o bytes) = Len(prog) + Len(bytes)
                  BY <3>1, OneBehindOther
            <3> QED BY <2>1, <3>2
      <2>3. inst_lengths' \in Seq({4})
            BY <2>1 DEF ProgTypes
      <2> QED BY <1>0, <1>1, <2>2, <2>3 DEF ProgTypes
<1>2. CASE ~(Len(prog) + Len(bytes) =< MaxProgram)
      <2> DEFINE n == MaxProgram - Len(prog)
                 part == SubSeq(bytes, 1, n)
      <2>1. prog' = prog \o part /\ UNCHANGED inst_lengths
            BY <1>2 DEF WriteInstruction
      <2>2. n \in Nat /\ n =< Len(bytes) /\ Len(prog) + n = MaxProgram
            BY <1>0, <1>2 DEF ProgTypes
      <2> HIDE DEF n
      <2>3. part \in Seq(Bytes) /\ Len(part) = n
            <3> DEFINE p == 0
            <3>1. p \in Nat /\ p + n =< Len(bytes) /\ part = Part(bytes, p, n) BY <2>2 DEF Part
            <3> HIDE DEF p, part
            <3>2. Part(bytes, p, n) \in Seq(Bytes) /\ IsPart(Part(bytes, p, n), bytes, p, n)
                  BY <2>2, <3>1, PartOf
            <3> QED BY <3>1, <3>2 DEF IsPart
      <2> HIDE DEF part
      <2>4. prog' \in Seq(Bytes) /\ Len(prog') = Len(prog) + n
            <3>1. prog \in Seq(Bytes) BY DEF ProgTypes
            <3>2. prog \o part \in Seq(Bytes) /\ Len(prog \o part) = Len(prog) + Len(part)
                  BY <2>3, <3>1, OneBehindOther
            <3> QED BY <2>1, <2>3, <3>2
      <2> QED BY <1>0, <2>1, <2>2, <2>4 DEF ProgTypes
<1> QED BY <1>1, <1>2

\* A line is refused, or gives four bytes more.
LEMMA LineAssembled ==
  ASSUME TypeInv, IInv, AsmFlash
  PROVE  \/ /\ \E ex \in AsmExceptions, how \in {"error", "terminated"} : Throw(ex, how)
            /\ UNCHANGED pass2
         \/ \E bytes \in Seq(Bytes) : Len(bytes) = 4 /\ WriteInstruction(bytes)
<1>0. /\ UNCHANGED <<input, env, pass1, output>> /\ pc = "pass2" /\ itr =< Len(lines)
      /\ ReadTypes
      BY DEF AsmFlash, TypeInv
<1>1. lines[itr] \in Texts
      <2>1. itr \in 1 .. Len(lines) BY <1>0 DEF IInv, SecondPassInv, ReadTypes
      <2> QED BY <1>0, <2>1 DEF ReadTypes
<1> DEFINE cut == chop_string[lines[itr]]
<1>2. cut.words \in Seq(Texts)
      BY <1>1, ChoppedIntoTexts
<1>3. asm_pc \in Int /\ \A l \in DOMAIN jump_syms : jump_syms[l] \in Int
      BY <1>0 DEF IInv, SecondPassInv, FirstPassInv, AddressOfLine, Boundaries, ReadTypes
<1> HIDE DEF cut
<1>4. \/ Throw("mt_bad_escape", "terminated") /\ UNCHANGED pass2
      \/ \E junk \in [1 .. 3 -> Junk] :
            LET inst == assemble(cut.words, asm_pc, jump_syms, junk)
            IN  \/ inst.ex # "none" /\ Throw(inst.ex, "error") /\ UNCHANGED pass2
                \/ inst.ex = "none" /\ WriteInstruction(inst.bytes)
      BY DEF AsmFlash, cut
<1>5. CASE Throw("mt_bad_escape", "terminated") /\ UNCHANGED pass2
      <2>1. "mt_bad_escape" \in AsmExceptions BY DEF AsmExceptions
      <2> QED BY <1>5, <2>1
<1>6. ASSUME NEW junk \in [1 .. 3 -> Junk],
             LET inst == assemble(cut.words, asm_pc, jump_syms, junk)
             IN  \/ inst.ex # "none" /\ Throw(inst.ex, "error") /\ UNCHANGED pass2
                 \/ inst.ex = "none" /\ WriteInstruction(inst.bytes)
      PROVE  \/ /\ \E ex \in AsmExceptions : Throw(ex, "error")
                /\ UNCHANGED pass2
             \/ \E bytes \in Seq(Bytes) : Len(bytes) = 4 /\ WriteInstruction(bytes)
      <2> DEFINE inst == assemble(cut.words, asm_pc, jump_syms, junk)
      <2>1. junk \in [1 .. 3 -> Texts]
            BY AssemblerAssumption DEF Texts
      <2>2. inst \in Assembled
            BY <1>2, <1>3, <2>1, AssembledType
      <2>3. inst.ex = "none" => Len(inst.bytes) = 4
            BY AssembleLength
      <2>4. \/ inst.ex # "none" /\ Throw(inst.ex, "error") /\ UNCHANGED pass2
            \/ inst.ex = "none" /\ WriteInstruction(inst.bytes)
            BY <1>6
      <2> HIDE DEF inst
      <2>5. inst.ex \in AsmExceptions \cup {"none"} /\ inst.bytes \in Seq(Bytes)
            BY <2>2 DEF Assembled
      <2> QED BY <2>3, <2>4, <2>5
<1> QED BY <1>4, <1>5, <1>6

\* A line that is assembled.
LEMMA AsmFlashTypes ==
  ASSUME TypeInv, IInv, AsmFlash PROVE TypeInv'
<1>0. /\ UNCHANGED <<input, env, pass1, output>> /\ pc = "pass2"
      /\ PlaceTypes /\ pc # "end" /\ result = "running" /\ output = NoOutput
      /\ ProgTypes /\ ReadTypes
      BY DEF AsmFlash, TypeInv, PlaceTypes
<1>1. /\ "mt_program_size_violation" \in AsmExceptions
      /\ "terminated" \in Results \ {"running"} /\ "error" \in Results \ {"running"}
      BY DEF Results, AsmExceptions
<1>2. PlaceTypes' /\ ProgTypes' /\ result' # "done"
      <2>1. ASSUME NEW ex \in AsmExceptions, NEW how \in {"error", "terminated"},
                   Throw(ex, how), UNCHANGED pass2
            PROVE  PlaceTypes' /\ ProgTypes' /\ result' # "done"
            <3>1. PlaceTypes' BY <1>0, <1>1, <2>1, PlaceKept
            <3>2. result' # "done" BY <2>1 DEF Throw
            <3> QED BY <1>0, <2>1, <3>1, <3>2 DEF ProgTypes, pass2
      <2>2. ASSUME NEW bytes \in Seq(Bytes), Len(bytes) = 4, WriteInstruction(bytes)
            PROVE  PlaceTypes' /\ ProgTypes' /\ result' # "done"
            <3>1. ProgTypes' BY <1>0, <2>2, ProgKept
            <3>2. Stay \/ Throw("mt_program_size_violation", "terminated")
                  BY <2>2 DEF WriteInstruction
            <3>3. PlaceTypes' BY <1>0, <1>1, <3>2, PlaceKept
            <3>4. result' # "done" BY <1>0, <3>2 DEF Stay, Throw
            <3> QED BY <3>1, <3>3, <3>4
      <2> QED BY <2>1, <2>2, LineAssembled
<1> QED BY <1>0, <1>2 DEF TypeInv, ReadTypes, input, pass1

\* No step breaks the types.
LEMMA NextTypes ==
  ASSUME TypeInv, IInv, [Next]_vars PROVE TypeInv'
<1>0. PlaceTypes /\ (pc # "end" => result = "running" /\ output = NoOutput)
      BY DEF TypeInv, PlaceTypes
<1>1. CASE Options
      <2>1. pc # "end" /\ UNCHANGED <<input, pass1, pass2, output>> /\ env' = characterize_Env(args)
            BY <1>1 DEF Options
      <2>2. env' \in Envs
            BY <2>1, EnvIsAsked DEF TypeInv
      <2>3. Stop("usage") \/ Stop("error") \/ GoTo("pass1")
            BY <1>1 DEF Options
      <2>4. /\ "usage" \in Results \ {"running"} /\ "error" \in Results \ {"running"}
            /\ "pass1" \in Places \ {"end"}
            BY DEF Results, Places
      <2>5. PlaceTypes' BY <1>0, <2>1, <2>3, <2>4, PlaceKept
      <2> QED BY <1>0, <2>1, <2>2, <2>5 DEF TypeInv, ReadTypes, ProgTypes, input, pass1, pass2
<1>2. CASE ReadLine
      BY <1>2, ReadLineTypes
<1>3. CASE EndOfSource
      <2>1. PlaceTypes' /\ result' = result
            <3>1. "pass2" \in Places \ {"end"} /\ pc # "end" /\ GoTo("pass2")
                  BY <1>3 DEF Places, EndOfSource
            <3> QED BY <1>0, <3>1, PlaceKept DEF GoTo
      <2> QED BY <1>3, <2>1 DEF EndOfSource, TypeInv, ReadTypes, ProgTypes, input, pass1, pass2
<1>4. CASE AsmFlash
      BY <1>4, AsmFlashTypes
<1>5. CASE EndOfLines
      <2>1. PlaceTypes' /\ result' = result
            <3>1. "dump" \in Places \ {"end"} /\ pc # "end" /\ GoTo("dump")
                  BY <1>5 DEF Places, EndOfLines
            <3> QED BY <1>0, <3>1, PlaceKept DEF GoTo
      <2> QED BY <1>5, <2>1 DEF EndOfLines, TypeInv, ReadTypes, ProgTypes, input, pass1, pass2
<1>6. CASE Dump
      <2>1. pc # "end" /\ UNCHANGED <<input, env, pass1, pass2>>
            BY <1>6 DEF Dump
      <2>2. \/ Stop("done")
            \/ Throw("mt_illegal_file_error", "error") /\ UNCHANGED output
            BY <1>6 DEF Dump
      <2>3. /\ "done" \in Results \ {"running"} /\ "error" \in Results \ {"running"}
            /\ "mt_illegal_file_error" \in AsmExceptions
            BY DEF Results, AsmExceptions
      <2>4. PlaceTypes' BY <1>0, <2>1, <2>2, <2>3, PlaceKept
      <2>5. result' # "done" => output' = NoOutput
            BY <1>0, <2>1, <2>2 DEF Stop
      <2> QED BY <2>1, <2>4, <2>5 DEF TypeInv, ReadTypes, ProgTypes, input, pass1, pass2
<1>7. CASE UNCHANGED vars
      BY <1>7 DEF vars, TypeInv, PlaceTypes, ReadTypes, ProgTypes
<1> QED BY <1>1, <1>2, <1>3, <1>4, <1>5, <1>6, <1>7 DEF Next

\* TypeInv and IInv are the types that were meant.
LEMMA TypesMeant ==
  ASSUME TypeInv, IInv PROVE TypeOK
<1>1. Len(lines) \in Nat
      BY DEF TypeInv, ReadTypes
<1>2. /\ line_number \in Nat /\ equiv_pc \in Nat /\ asm_pc \in Nat
      /\ \A l \in DOMAIN jump_syms : jump_syms[l] \in Nat
      /\ \A n \in DOMAIN line_number_to_PC : line_number_to_PC[n] \in Nat
      /\ itr \in 1 .. Len(lines) + 1
      BY <1>1 DEF IInv, FirstPassInv, SecondPassInv, AddressOfLine, Boundaries
<1>3. inst_lengths \in Seq(Nat) /\ prog \in Seq(0 .. 255) /\ source \in Seq(STRING)
      BY DEF TypeInv, ProgTypes, Bytes, Texts
<1>4. lines \in Seq(Seq(STRING))
      BY DEF TypeInv, ReadTypes, Texts
<1> QED BY <1>2, <1>3, <1>4 DEF TypeOK, TypeInv, PlaceTypes, ReadTypes, ProgTypes

\* The variables of the assembler are what they are taken for: the program is made of
\* bytes and not longer than MAX_PROGRAM, a file is left only by a run that is done.
THEOREM TypesAreRight == Spec => []TypeOK
<1>1. TypeInv /\ IInv /\ [Next]_vars => TypeInv'
      BY NextTypes
<1>2. TypeInv /\ IInv => TypeOK
      BY TypesMeant
<1> QED BY InitIInv, NextIInv, InitTypes, <1>1, <1>2, PTL DEF Spec

-----------------------------------------------------------------------------
(* The file that is left.                                                  *)

\* The options are those of the command line, and complete once a pass begins; unless
\* it ran out of room, the program is made of whole instructions.
ReadyToDump == /\ result # "terminated" => Len(prog) = 4 * Len(inst_lengths)
               /\ pc # "options" => env = characterize_Env(args)
               /\ pc \in {"pass1", "pass2", "dump"} => OptionsComplete(env)
FileInv == ReadyToDump /\ FileIsProgram

\* Nothing is there yet.
LEMMA InitFile == Init => FileInv
BY DEF Init, FileInv, ReadyToDump, FileIsProgram

\* The bytes of an instruction that fit are an instruction more.
LEMMA WholeInstructions ==
  ASSUME ProgTypes, NEW bytes \in Seq(Bytes), Len(bytes) = 4, WriteInstruction(bytes),
         Len(prog) = 4 * Len(inst_lengths), result' # "terminated"
  PROVE  Len(prog') = 4 * Len(inst_lengths')
<1>1. prog' = prog \o bytes /\ inst_lengths' = Append(inst_lengths, Len(bytes))
      BY DEF WriteInstruction, Throw
<1>2. prog \in Seq(Bytes) /\ Len(inst_lengths) \in Nat
      BY DEF ProgTypes
<1>3. prog \o bytes \in Seq(Bytes) /\ Len(prog \o bytes) = Len(prog) + Len(bytes)
      BY <1>2, OneBehindOther
<1>4. Len(Append(inst_lengths, Len(bytes))) = Len(inst_lengths) + 1
      BY DEF ProgTypes
<1> QED BY <1>1, <1>2, <1>3, <1>4

\* The program a line more.
LEMMA AsmFlashWhole ==
  ASSUME TypeInv, IInv, AsmFlash, Len(prog) = 4 * Len(inst_lengths), result' # "terminated"
  PROVE  Len(prog') = 4 * Len(inst_lengths')
<1>1. UNCHANGED pass2 \/ \E bytes \in Seq(Bytes) : Len(bytes) = 4 /\ WriteInstruction(bytes)
      BY LineAssembled
<1>2. ProgTypes
      BY DEF TypeInv
<1> QED BY <1>1, <1>2, WholeInstructions DEF pass2

\* The options are looked at once, and a pass begins only if they are complete.
LEMMA ReadyKept ==
  ASSUME TypeInv, IInv, ReadyToDump, [Next]_vars PROVE ReadyToDump'
<1>0. pc # "end" => result = "running" /\ Len(prog) = 4 * Len(inst_lengths)
      BY DEF TypeInv, PlaceTypes, ReadyToDump
<1>1. CASE Options
      <2>1. env' = characterize_Env(args) /\ args' = args /\ UNCHANGED pass2 /\ pc # "end"
            BY <1>1 DEF Options, input
      <2>2. \/ pc' = "end"
            \/ pc' = "pass1" /\ OptionsComplete(env')
            <3> DEFINE asked == env'.has_Option_AsmInput
                       good == InputOpens(env') /\ OptionsComplete(env')
            <3>1. (CASE ~asked -> Stop("usage")
                     [] asked /\ ~good -> Stop("error")
                     [] OTHER -> GoTo("pass1"))
                  BY <1>1 DEF Options
            <3> HIDE DEF asked, good
            <3>2. Stop("usage") \/ Stop("error") \/ (GoTo("pass1") /\ good)
                  BY <3>1
            <3> QED BY <3>2 DEF Stop, GoTo, good
      <2>3. OptionsComplete(env)' <=> OptionsComplete(env')
            BY DEF OptionsComplete
      <2> QED BY <1>0, <2>1, <2>2, <2>3 DEF ReadyToDump, pass2
<1>2. CASE ReadLine
      <2>1. pc = "pass1" /\ UNCHANGED <<input, env, pass2>> /\ pc' \in {"pass1", "end"}
            BY <1>2 DEF ReadLine, Throw, Stay
      <2> QED BY <1>0, <2>1 DEF ReadyToDump, OptionsComplete, input, pass2
<1>3. CASE EndOfSource
      <2>1. pc = "pass1" /\ UNCHANGED <<input, env, pass2>> /\ pc' = "pass2"
            BY <1>3 DEF EndOfSource, GoTo
      <2> QED BY <1>0, <2>1 DEF ReadyToDump, OptionsComplete, input, pass2
<1>4. CASE AsmFlash
      <2>1. pc = "pass2" /\ UNCHANGED <<input, env>>
            BY <1>4 DEF AsmFlash
      <2>2. pc' \in {"pass2", "end"}
            BY <1>4, <2>1 DEF AsmFlash, WriteInstruction, Throw, Stay
      <2>3. result' # "terminated" => Len(prog') = 4 * Len(inst_lengths')
            BY <1>0, <1>4, <2>1, AsmFlashWhole
      <2> QED BY <2>1, <2>2, <2>3 DEF ReadyToDump, OptionsComplete, input
<1>5. CASE EndOfLines
      <2>1. pc = "pass2" /\ UNCHANGED <<input, env, pass2>> /\ pc' = "dump"
            BY <1>5 DEF EndOfLines, GoTo
      <2> QED BY <1>0, <2>1 DEF ReadyToDump, OptionsComplete, input, pass2
<1>6. CASE Dump
      <2>1. pc = "dump" /\ UNCHANGED <<input, env, pass2>> /\ pc' = "end"
            BY <1>6 DEF Dump, Stop, Throw
      <2> QED BY <1>0, <2>1 DEF ReadyToDump, OptionsComplete, input, pass2
<1>7. CASE UNCHANGED vars
      BY <1>7 DEF vars, ReadyToDump, OptionsComplete
<1> QED BY <1>1, <1>2, <1>3, <1>4, <1>5, <1>6, <1>7 DEF Next

\* The file that is left is the program.
LEMMA DumpWrites ==
  ASSUME TypeInv, ReadyToDump, Dump PROVE FileIsProgram'
<1>1. CASE result' = "done"
      <2>1. /\ pc = "dump" /\ UNCHANGED <<args, env, prog, inst_lengths>>
            /\ output' = [name |-> OutputName, kind |-> env.st,
                          file |-> Written(env.st, env.width, Instructions)]
            BY <1>1 DEF Dump, Throw, input, pass2
      <2>2. InFours
            BY <2>1 DEF TypeInv, PlaceTypes, ProgTypes, ReadyToDump, InFours
      <2>3. /\ env.st = ValueAfter("-s", "bin")
            /\ env.width = WidthAsked /\ env.width \in Nat \ {0}
            /\ OutputName = ValueAfter("-o", DefaultName[env.st])
            BY <2>1, OptionsAreMeant DEF TypeInv, ReadyToDump
      <2> DEFINE w == env.width
                 kind == env.st
      <2>4. /\ ValueAfter("-s", "bin")' = kind /\ WidthAsked' = w
            /\ ValueAfter("-o", DefaultName[ValueAfter("-s", "bin")])' = OutputName
            BY <2>1, <2>3 DEF ValueAfter, Uses, WidthAsked
      <2>5. LET file(k) == Written(k, w, Instructions)
            IN  /\ FlattenSeq(file("bin").lines) = prog
                /\ HexIsProgram(file("hex").lines)
                /\ LET ws == file("mif").lines
                   IN  /\ Len(ws) = file("mif").depth
                       /\ Len(ws) * w \in Len(prog) .. Len(prog) + w - 1
                       /\ \A i \in 1 .. Len(ws) :
                              /\ Len(ws[i]) = 2 * w
                              /\ \A k \in 1 .. w :
                                     LET n == w * (i - 1) + k
                                     IN  PrintedByte(ws[i], k)
                                             = IF n =< Len(prog) THEN prog[n] ELSE 0
            <3>1. w \in Nat \ {0} BY <2>3
            <3> HIDE DEF w
            <3> QED BY <2>2, <3>1, PrintedInstructions
      <2>6. output'.file = Written(kind, w, Instructions)
            /\ output'.kind = kind /\ output'.name = OutputName
            BY <2>1
      <2> HIDE DEF w, kind
      <2>7. kind = "bin" => FlattenSeq(output'.file.lines) = prog'
            BY <2>1, <2>5, <2>6
      <2>8. ASSUME kind = "hex" PROVE HexIsProgram(output.file.lines)'
            <3> DEFINE words == Written("hex", w, Instructions).lines
            <3>1. HexIsProgram(words) BY <2>5
            <3>2. output'.file.lines = words /\ prog' = prog BY <2>1, <2>6, <2>8
            <3> HIDE DEF words
            <3> QED BY <3>1, <3>2 DEF HexIsProgram
      <2>9. ASSUME kind = "mif" PROVE MifIsProgram(output.file.lines, WidthAsked)'
            BY <2>1, <2>4, <2>5, <2>6, <2>9 DEF MifIsProgram
      <2>10. /\ output'.kind = ValueAfter("-s", "bin")'
             /\ output'.name = ValueAfter("-o", DefaultName[ValueAfter("-s", "bin")])'
             BY <2>4, <2>6
      <2>11. /\ ValueAfter("-s", "bin")' = "bin" => FlattenSeq(output'.file.lines) = prog'
             /\ ValueAfter("-s", "bin")' = "hex" => HexIsProgram(output.file.lines)'
             /\ ValueAfter("-s", "bin")' = "mif" => MifIsProgram(output.file.lines, WidthAsked)'
             BY <2>4, <2>7, <2>8, <2>9
      <2> QED BY <2>10, <2>11 DEF FileIsProgram
<1>2. CASE result' # "done"
      BY <1>2 DEF FileIsProgram
<1> QED BY <1>1, <1>2

\* Nothing else makes a file, or changes the program behind it.
LEMMA FileKept ==
  ASSUME TypeInv, FileIsProgram, [Next]_vars, ~Dump PROVE FileIsProgram'
<1>1. CASE UNCHANGED vars
      <2>1. UNCHANGED <<args, prog, output, result>>
            BY <1>1 DEF vars
      <2>2. /\ ValueAfter("-s", "bin")' = ValueAfter("-s", "bin") /\ WidthAsked' = WidthAsked
            /\ ValueAfter("-o", DefaultName[ValueAfter("-s", "bin")])'
                   = ValueAfter("-o", DefaultName[ValueAfter("-s", "bin")])
            BY <2>1 DEF ValueAfter, Uses, WidthAsked
      <2>3. HexIsProgram(output.file.lines)' <=> HexIsProgram(output.file.lines)
            BY <2>1 DEF HexIsProgram
      <2>4. MifIsProgram(output.file.lines, WidthAsked)'
                <=> MifIsProgram(output.file.lines, WidthAsked)
            BY <2>1, <2>2 DEF MifIsProgram
      <2> QED BY <2>1, <2>2, <2>3, <2>4 DEF FileIsProgram
<1>2. CASE Options \/ ReadLine \/ EndOfSource \/ AsmFlash \/ EndOfLines
      <2>1. pc # "end" /\ result = "running"
            BY <1>2 DEF Options, ReadLine, EndOfSource, AsmFlash, EndOfLines, TypeInv, PlaceTypes
      <2>2. result' \in {"running", "usage", "error", "terminated"}
            <3>1. CASE Options BY <2>1, <3>1 DEF Options, Stop, GoTo
            <3>2. CASE ReadLine BY <2>1, <3>2 DEF ReadLine, Throw, Stay
            <3>3. CASE EndOfSource BY <2>1, <3>3 DEF EndOfSource, GoTo
            <3>4. CASE AsmFlash BY <2>1, <3>4 DEF AsmFlash, WriteInstruction, Throw, Stay
            <3>5. CASE EndOfLines BY <2>1, <3>5 DEF EndOfLines, GoTo
            <3> QED BY <1>2, <3>1, <3>2, <3>3, <3>4, <3>5
      <2> QED BY <2>2 DEF FileIsProgram
<1> QED BY <1>1, <1>2 DEF Next

\* The file that a run which is done leaves is the program, byte by byte, in the format,
\* the width and under the name that the last of each option ask for.
THEOREM FileIsProgramAlways == Spec => []FileIsProgram
<1>1. TypeInv /\ IInv /\ [Next]_vars => TypeInv'
      BY NextTypes
<1>2. TypeInv /\ IInv /\ FileInv /\ [Next]_vars => FileInv'
      BY ReadyKept, DumpWrites, FileKept DEF FileInv
<1>3. FileInv => FileIsProgram
      BY DEF FileInv
<1> QED BY InitIInv, NextIInv, InitTypes, InitFile, <1>1, <1>2, <1>3, PTL DEF Spec
=============================================================================
