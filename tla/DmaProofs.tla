------------------------------ MODULE DmaProofs ------------------------------
(***************************************************************************)
(* Proofs about the FIFO on its own, and about the DMA engine between any  *)
(* peripheral and the host, for every depth of the FIFO, width and number  *)
(* of lines and size of a transfer.                                        *)
(*                                                                         *)
(* The engine's invariant DInv is inductive.  Its first half counts        *)
(* credits: reads pending never exceed the room in the FIFO.  Its second   *)
(* half orders the lines: those in the FIFO, in the channel and in the     *)
(* request register, in this order, are consecutive and lead up to         *)
(* rd_addr.                                                                *)
(***************************************************************************)
EXTENDS DmaUser, SequenceTheorems, TLAPS

(* What a reset and a rising edge do to a FIFO. *)

\* An address plus at most AddrSpace wraps to an address.
LEMMA WrapType ==
    ASSUME NEW a \in Addr, NEW k \in 0 .. AddrSpace
    PROVE  Wrap(a + k) \in Addr
BY FifoAssumption DEF Wrap, Addr

\* Two words less than AddrSpace apart are different words.
LEMMA WrapDiffers ==
    ASSUME NEW a \in Addr, NEW j \in Nat, NEW k \in Nat,
           j < k, k < AddrSpace
    PROVE  Wrap(a + j) # Wrap(a + k)
BY FifoAssumption DEF Wrap, Addr

\* Advancing the address by one and then by k is advancing it by k + 1.
LEMMA WrapTwice ==
    ASSUME NEW a \in Addr, NEW k \in Nat, k < AddrSpace
    PROVE  Wrap(Wrap(a + 1) + k) = Wrap(a + (k + 1))
BY FifoAssumption DEF Wrap, Addr

\* A reset FIFO is a consistent FIFO without elements.
LEMMA ResetKeepsFifo ==
    ASSUME NEW f \in Fifos
    PROVE  ResetFifo(f) \in Fifos /\ FifoOK(ResetFifo(f))
<1>1. 0 \in Addr /\ 0 \in 0 .. Depth /\ Depth \in 0 .. Depth
  BY FifoAssumption DEF Addr
<1>2. ResetFifo(f) \in Fifos
  BY <1>1 DEF ResetFifo, Fifos
<1>3. FifoOK(ResetFifo(f))
  BY FifoAssumption, <1>1
     DEF ResetFifo, Fifos, FifoOK, FlagsAgree, PointersAgree, FirstIsShown, Wrap, Addr
<1>4. QED
  BY <1>2, <1>3

\* The counters of a consistent FIFO stay in range: it never takes more than
\* Depth elements, nor gives one it does not have.
LEMMA CountersInRange ==
    ASSUME NEW f \in Fifos, FlagsAgree(f),
           NEW rd_en \in BOOLEAN, NEW wr_en \in BOOLEAN
    PROVE  /\ next_count(f, rd_en, wr_en) \in 0 .. Depth
           /\ next_space(f, rd_en, wr_en) = Depth - next_count(f, rd_en, wr_en)
           /\ next_space(f, rd_en, wr_en) \in 0 .. Depth
           /\ valid_rd(f, rd_en) => f.count > 0
           /\ valid_wr(f, wr_en) => f.count < Depth
BY FifoAssumption DEF Fifos, FlagsAgree, next_count, next_space, valid_rd, valid_wr

\* A rising edge keeps a FIFO consistent.
LEMMA ClockKeepsFifo ==
    ASSUME NEW f \in Fifos, FifoOK(f),
           NEW rd_en \in BOOLEAN, NEW wr_en \in BOOLEAN, NEW wr_data,
           wr_en => wr_data \in Data
    PROVE  /\ NextFifo(f, rd_en, wr_en, wr_data) \in Fifos
           /\ FifoOK(NextFifo(f, rd_en, wr_en, wr_data))
<1> DEFINE g == NextFifo(f, rd_en, wr_en, wr_data)
<1>1. /\ g.count = next_count(f, rd_en, wr_en)
      /\ g.space = next_space(f, rd_en, wr_en)
      /\ g.full = (g.count = Depth)
      /\ g.empty = (g.count = 0)
      /\ g.wr_addr = IF valid_wr(f, wr_en) THEN Wrap(f.wr_addr + 1) ELSE f.wr_addr
      /\ g.rd_addr = rd_addr_adjusted(f, rd_en)
      /\ g.mem = next_mem(f, wr_en, wr_data)
      /\ g.rd_data = g.mem[g.rd_addr]
  BY DEF NextFifo, rd_addr_adjusted
<1>2. FlagsAgree(f) /\ PointersAgree(f)
  BY DEF FifoOK
<1>3. g.mem \in [Addr -> Data]
  BY <1>1 DEF next_mem, valid_wr, Fifos
<1>4. g.wr_addr \in Addr /\ g.rd_addr \in Addr
  <2>1. f.wr_addr \in Addr /\ f.rd_addr \in Addr
    BY DEF Fifos
  <2>2. Wrap(f.wr_addr + 1) \in Addr /\ Wrap(f.rd_addr + 1) \in Addr
    BY <2>1, WrapType, FifoAssumption
  <2>3. QED
    BY <1>1, <2>1, <2>2 DEF rd_addr_adjusted
<1>5. g \in Fifos
  <2>1. g.rd_data \in Data
    BY <1>1, <1>3, <1>4
  <2>2. g.count \in 0 .. Depth /\ g.space \in 0 .. Depth
    BY <1>1, <1>2, CountersInRange
  <2>3. g.full \in BOOLEAN /\ g.empty \in BOOLEAN
    BY <1>1
  <2>4. g = [mem |-> g.mem, wr_addr |-> g.wr_addr, rd_addr |-> g.rd_addr, count |-> g.count,
             space |-> g.space, full |-> g.full, empty |-> g.empty, rd_data |-> g.rd_data]
    BY DEF NextFifo
  <2> HIDE DEF g
  <2>5. QED
    BY <1>3, <1>4, <2>1, <2>2, <2>3, <2>4 DEF Fifos
<1>6. FlagsAgree(g)
  <2>1. /\ g.count \in 0 .. Depth /\ g.space = Depth - g.count
        /\ g.full <=> g.count = Depth
        /\ g.empty <=> g.count = 0
    BY <1>1, <1>2, CountersInRange
  <2> HIDE DEF g
  <2>2. QED
    BY <2>1, FifoAssumption DEF FlagsAgree
<1>7. PointersAgree(g)
  <2>1. /\ f.wr_addr = Wrap(f.rd_addr + f.count)
        /\ f.rd_addr \in Addr /\ f.count \in 0 .. Depth
        /\ valid_rd(f, rd_en) => f.count > 0
        /\ valid_wr(f, wr_en) => f.count < Depth
    BY <1>2, CountersInRange DEF PointersAgree, Fifos
  <2>2. g.count = f.count + (IF valid_wr(f, wr_en) THEN 1 ELSE 0)
                          - (IF valid_rd(f, rd_en) THEN 1 ELSE 0)
    BY <1>1 DEF next_count
  <2>3. g.rd_addr = IF valid_rd(f, rd_en) THEN Wrap(f.rd_addr + 1) ELSE f.rd_addr
    BY <1>1 DEF rd_addr_adjusted
  <2>4. CASE valid_rd(f, rd_en) /\ valid_wr(f, wr_en)
    BY <1>1, <2>1, <2>2, <2>3, <2>4, FifoAssumption DEF PointersAgree, Wrap, Addr
  <2>5. CASE valid_rd(f, rd_en) /\ ~valid_wr(f, wr_en)
    BY <1>1, <2>1, <2>2, <2>3, <2>5, FifoAssumption DEF PointersAgree, Wrap, Addr
  <2>6. CASE ~valid_rd(f, rd_en) /\ valid_wr(f, wr_en)
    BY <1>1, <2>1, <2>2, <2>3, <2>6, FifoAssumption DEF PointersAgree, Wrap, Addr
  <2>7. CASE ~valid_rd(f, rd_en) /\ ~valid_wr(f, wr_en)
    BY <1>1, <2>1, <2>2, <2>3, <2>7, FifoAssumption DEF PointersAgree, Wrap, Addr
  <2>8. QED
    BY <2>4, <2>5, <2>6, <2>7
<1>8. FirstIsShown(g)
  BY <1>1 DEF FirstIsShown
<1>9. QED
  BY <1>5, <1>6, <1>7, <1>8 DEF FifoOK

\* The elements of a FIFO form a sequence of count elements.
LEMMA ContentsIsSequence ==
    ASSUME NEW f \in Fifos
    PROVE  /\ Contents(f) \in Seq(Data)
           /\ Len(Contents(f)) = f.count
           /\ \A i \in 1 .. f.count : Contents(f)[i] = f.mem[Wrap(f.rd_addr + (i - 1))]
<1>1. f.count \in Nat /\ f.count =< AddrSpace /\ f.rd_addr \in Addr
  BY FifoAssumption DEF Fifos
<1>2. \A i \in 1 .. f.count : f.rd_addr + i - 1 = f.rd_addr + (i - 1)
  BY <1>1, FifoAssumption DEF Addr
<1>3. \A i \in 1 .. f.count : Wrap(f.rd_addr + i - 1) \in Addr
  <2>1. TAKE i \in 1 .. f.count
  <2>2. i - 1 \in 0 .. AddrSpace
    BY <1>1, FifoAssumption
  <2>3. QED
    BY <1>1, <1>2, <2>2, WrapType
<1>4. \A i \in 1 .. f.count : f.mem[Wrap(f.rd_addr + i - 1)] \in Data
  BY <1>3 DEF Fifos
<1>5. Contents(f) \in [1 .. f.count -> Data]
  BY <1>4 DEF Contents
<1>6. Contents(f) \in Seq(Data)
  BY <1>1, <1>5
<1>7. DOMAIN Contents(f) = 1 .. f.count
  BY DEF Contents
<1>8. Len(Contents(f)) = f.count
  BY <1>1, <1>6, <1>7, LenProperties
<1>9. QED
  BY <1>2, <1>6, <1>8 DEF Contents

\* What an edge does to the elements: they move up by one if one is read, and
\* the one written comes after them.
LEMMA ClockMovesContents ==
    ASSUME NEW f \in Fifos, FifoOK(f),
           NEW rd_en \in BOOLEAN, NEW wr_en \in BOOLEAN, NEW wr_data,
           wr_en => wr_data \in Data,
           NEW i \in 1 .. next_count(f, rd_en, wr_en)
    PROVE  Contents(NextFifo(f, rd_en, wr_en, wr_data))[i] =
               LET j == IF valid_rd(f, rd_en) THEN i + 1 ELSE i
               IN  IF j =< f.count THEN Contents(f)[j] ELSE wr_data
<1> DEFINE g == NextFifo(f, rd_en, wr_en, wr_data)
           j == IF valid_rd(f, rd_en) THEN i + 1 ELSE i
<1>1. g \in Fifos
  BY ClockKeepsFifo
<1>2. /\ g.count = next_count(f, rd_en, wr_en)
      /\ g.rd_addr = IF valid_rd(f, rd_en) THEN Wrap(f.rd_addr + 1) ELSE f.rd_addr
      /\ g.mem = next_mem(f, wr_en, wr_data)
  BY DEF NextFifo
<1>3. /\ f.count \in Nat /\ f.count =< Depth /\ Depth =< AddrSpace
      /\ Depth \in Nat /\ AddrSpace \in Nat
      /\ f.rd_addr \in Addr /\ f.wr_addr \in Addr
      /\ f.mem \in [Addr -> Data]
      /\ f.wr_addr = Wrap(f.rd_addr + f.count)
      /\ valid_rd(f, rd_en) => f.count > 0
      /\ valid_wr(f, wr_en) => f.count < Depth
      /\ next_count(f, rd_en, wr_en) \in Nat
  BY CountersInRange, FifoAssumption DEF FifoOK, PointersAgree, Fifos
<1>4. g.count = f.count + (IF valid_wr(f, wr_en) THEN 1 ELSE 0)
                        - (IF valid_rd(f, rd_en) THEN 1 ELSE 0)
  BY <1>2 DEF next_count
<1>5. i \in Nat /\ i > 0 /\ i =< g.count
  BY <1>2, <1>3
<1>6. /\ j \in Nat /\ j > 0
      /\ j =< f.count + (IF valid_wr(f, wr_en) THEN 1 ELSE 0)
  BY <1>3, <1>4, <1>5
<1>7. j - 1 \in Nat /\ j - 1 =< f.count /\ j - 1 < AddrSpace
  BY <1>3, <1>6
<1>8. Wrap(g.rd_addr + (i - 1)) = Wrap(f.rd_addr + (j - 1))
  <2>1. CASE valid_rd(f, rd_en)
    <3>1. i - 1 \in Nat /\ i - 1 < AddrSpace /\ (i - 1) + 1 = j - 1
      BY <1>3, <1>5, <1>7, <2>1
    <3>2. QED
      BY <1>2, <1>3, <2>1, <3>1, WrapTwice
  <2>2. CASE ~valid_rd(f, rd_en)
    BY <1>2, <2>2
  <2>3. QED
    BY <2>1, <2>2
<1>9. Contents(g)[i] = g.mem[Wrap(f.rd_addr + (j - 1))]
  BY <1>1, <1>2, <1>8, ContentsIsSequence
<1>10. Wrap(f.rd_addr + (j - 1)) \in Addr
  BY <1>3, <1>7, WrapType
<1>11. CASE j =< f.count
  <2>1. j \in 1 .. f.count
    BY <1>6, <1>11
  <2>2. Contents(f)[j] = f.mem[Wrap(f.rd_addr + (j - 1))]
    BY <2>1, ContentsIsSequence
  <2>3. valid_wr(f, wr_en) => Wrap(f.rd_addr + (j - 1)) # f.wr_addr
    <3>1. valid_wr(f, wr_en) => j - 1 < f.count /\ f.count < AddrSpace
      BY <1>3, <1>6, <1>11
    <3>2. QED
      BY <1>3, <1>7, <3>1, WrapDiffers
  <2>4. g.mem[Wrap(f.rd_addr + (j - 1))] = f.mem[Wrap(f.rd_addr + (j - 1))]
    BY <1>2, <1>3, <1>10, <2>3 DEF next_mem
  <2>5. QED
    BY <1>9, <1>11, <2>2, <2>4
<1>12. CASE ~(j =< f.count)
  <2>1. valid_wr(f, wr_en) /\ j - 1 = f.count
    BY <1>3, <1>6, <1>12
  <2>2. g.mem[f.wr_addr] = wr_data
    BY <1>2, <1>3, <2>1 DEF next_mem
  <2>3. QED
    BY <1>3, <1>9, <1>12, <2>1, <2>2
<1>13. QED
  BY <1>11, <1>12

\* A rising edge does to the elements what a step of the queue does: put, get,
\* both, or nothing.
LEMMA ClockIsQueueStep ==
    ASSUME NEW f \in Fifos, FifoOK(f),
           NEW rd_en \in BOOLEAN, NEW wr_en \in BOOLEAN, NEW wr_data,
           wr_en => wr_data \in Data
    PROVE  LET s == Contents(f)
               t == Contents(NextFifo(f, rd_en, wr_en, wr_data))
               rd == valid_rd(f, rd_en)
               wr == valid_wr(f, wr_en)
           IN  /\ rd => s # <<>>
               /\ wr => Len(s) < Depth
               /\ ~rd /\ ~wr => t = s
               /\ ~rd /\ wr => t = Append(s, wr_data)
               /\ rd /\ ~wr => t = Tail(s)
               /\ rd /\ wr => t = Append(Tail(s), wr_data)
<1> DEFINE s == Contents(f)
           g == NextFifo(f, rd_en, wr_en, wr_data)
           t == Contents(g)
           rd == valid_rd(f, rd_en)
           wr == valid_wr(f, wr_en)
<1>1. s \in Seq(Data) /\ Len(s) = f.count
  BY ContentsIsSequence
<1>2. t \in Seq(Data) /\ Len(t) = next_count(f, rd_en, wr_en)
  <2>1. g \in Fifos
    BY ClockKeepsFifo
  <2>2. g.count = next_count(f, rd_en, wr_en)
    BY DEF NextFifo
  <2>3. QED
    BY <2>1, <2>2, ContentsIsSequence
<1>3. /\ f.count \in Nat
      /\ rd => f.count > 0
      /\ wr => f.count < Depth
  BY CountersInRange, FifoAssumption DEF Fifos, FifoOK
<1>4. Len(t) = f.count + (IF wr THEN 1 ELSE 0) - (IF rd THEN 1 ELSE 0)
  BY <1>2 DEF next_count
<1>5. \A i \in 1 .. Len(t) :
          t[i] = LET j == IF rd THEN i + 1 ELSE i
                 IN  IF j =< f.count THEN s[j] ELSE wr_data
  BY <1>2, ClockMovesContents
<1>w. wr => wr_data \in Data
  BY DEF valid_wr
<1> HIDE DEF s, t, g, rd, wr
<1>6. rd => s # <<>>
  BY <1>1, <1>3, EmptySeq
<1>7. rd => /\ Tail(s) \in Seq(Data)
            /\ Len(Tail(s)) = f.count - 1
            /\ \A i \in 1 .. f.count - 1 : Tail(s)[i] = s[i + 1]
  BY <1>1, <1>6, HeadTailProperties
<1>8. ~rd /\ ~wr => t = s
  <2>1. SUFFICES ASSUME ~rd, ~wr PROVE t = s
    OBVIOUS
  <2>2. Len(t) = Len(s)
    BY <1>1, <1>3, <1>4, <2>1
  <2>3. \A i \in 1 .. Len(t) : t[i] = s[i]
    BY <1>1, <1>3, <1>5, <2>1, <2>2
  <2>4. QED
    BY <1>1, <1>2, <2>2, <2>3, SeqEqual
<1>9. ~rd /\ wr => t = Append(s, wr_data)
  <2>1. SUFFICES ASSUME ~rd, wr PROVE t = Append(s, wr_data)
    OBVIOUS
  <2>2. /\ Append(s, wr_data) \in Seq(Data)
        /\ Len(Append(s, wr_data)) = f.count + 1
        /\ \A i \in 1 .. f.count : Append(s, wr_data)[i] = s[i]
        /\ Append(s, wr_data)[f.count + 1] = wr_data
    BY <1>1, <1>w, <2>1, AppendProperties
  <2>3. Len(t) = f.count + 1
    BY <1>3, <1>4, <2>1
  <2>4. \A i \in 1 .. Len(t) : t[i] = Append(s, wr_data)[i]
    <3>1. TAKE i \in 1 .. Len(t)
    <3>2. t[i] = IF i =< f.count THEN s[i] ELSE wr_data
      BY <1>5, <2>1
    <3>3. i \in Nat /\ (i \in 1 .. f.count \/ (i = f.count + 1 /\ ~(i =< f.count)))
      BY <1>3, <2>3
    <3>4. QED
      BY <1>3, <2>2, <3>2, <3>3
  <2>5. QED
    BY <1>2, <2>2, <2>3, <2>4, SeqEqual
<1>10. rd /\ ~wr => t = Tail(s)
  <2>1. SUFFICES ASSUME rd, ~wr PROVE t = Tail(s)
    OBVIOUS
  <2>2. Len(t) = f.count - 1
    BY <1>3, <1>4, <2>1
  <2>3. \A i \in 1 .. Len(t) : t[i] = s[i + 1]
    BY <1>3, <1>5, <2>1, <2>2
  <2>4. QED
    BY <1>2, <1>7, <2>1, <2>2, <2>3, SeqEqual
<1>11. rd /\ wr => t = Append(Tail(s), wr_data)
  <2>1. SUFFICES ASSUME rd, wr PROVE t = Append(Tail(s), wr_data)
    OBVIOUS
  <2>2. /\ Append(Tail(s), wr_data) \in Seq(Data)
        /\ Len(Append(Tail(s), wr_data)) = (f.count - 1) + 1
        /\ \A i \in 1 .. f.count - 1 : Append(Tail(s), wr_data)[i] = Tail(s)[i]
        /\ Append(Tail(s), wr_data)[(f.count - 1) + 1] = wr_data
    BY <1>7, <1>w, <2>1, AppendProperties
  <2>3. Len(t) = f.count
    BY <1>3, <1>4, <2>1
  <2>4. \A i \in 1 .. Len(t) : t[i] = Append(Tail(s), wr_data)[i]
    <3>1. TAKE i \in 1 .. Len(t)
    <3>2. t[i] = IF i + 1 =< f.count THEN s[i + 1] ELSE wr_data
      BY <1>5, <2>1
    <3>3. /\ i \in Nat
          /\ \/ i \in 1 .. f.count - 1 /\ i + 1 =< f.count
             \/ i = (f.count - 1) + 1 /\ ~(i + 1 =< f.count)
      BY <1>3, <2>1, <2>3
    <3>4. QED
      BY <1>7, <2>1, <2>2, <3>2, <3>3
  <2>5. (f.count - 1) + 1 = f.count
    BY <1>3
  <2>6. QED
    BY <1>2, <2>2, <2>3, <2>4, <2>5, SeqEqual
<1>12. QED
  BY <1>1, <1>3, <1>6, <1>8, <1>9, <1>10, <1>11 DEF s, t, g, rd, wr

-----------------------------------------------------------------------------
(* A FIFO on its own, read and written in every possible way. *)

Alone == INSTANCE FifoQueue

\* It is the engine's FIFO.
LEMMA SameFifo ==
    /\ Alone!Fifos = Fifos
    /\ \A f : Alone!FifoOK(f) <=> FifoOK(f)
    /\ \A f : Alone!Contents(f) = Contents(f)
    /\ \A f : Alone!ResetFifo(f) = ResetFifo(f)
    /\ \A mem, d : Alone!EmptyFifo(mem, d) = EmptyFifo(mem, d)
    /\ \A f, rd_en, wr_en, wr_data :
           Alone!NextFifo(f, rd_en, wr_en, wr_data) = NextFifo(f, rd_en, wr_en, wr_data)
    /\ Alone!Addr = Addr
BY DEF Alone!Fifos, Alone!Addr, Alone!FifoOK, Alone!FlagsAgree, Alone!PointersAgree,
       Alone!FirstIsShown, Alone!Wrap, Alone!Contents, Alone!ResetFifo, Alone!EmptyFifo,
       Alone!NextFifo, Alone!next_mem, Alone!rd_addr_adjusted, Alone!valid_rd,
       Alone!valid_wr, Alone!next_count, Alone!next_space,
       Fifos, Addr, FifoOK, FlagsAgree, PointersAgree, FirstIsShown, Wrap, Contents,
       ResetFifo, EmptyFifo, NextFifo, next_mem, rd_addr_adjusted, valid_rd, valid_wr,
       next_count, next_space

\* The registers of the FIFO agree with each other in every state.
THEOREM FifoIsConsistent == Alone!Spec => []Alone!FifoInv
<1>1. Alone!Init => Alone!FifoInv
  <2>1. SUFFICES ASSUME Alone!Init PROVE Alone!FifoInv
    OBVIOUS
  <2>2. PICK mem \in [Addr -> Data], d \in Data : fifo = EmptyFifo(mem, d)
    BY <2>1, SameFifo DEF Alone!Init
  <2>3. fifo \in Fifos
    BY <2>2, FifoAssumption DEF EmptyFifo, Fifos, Addr
  <2>4. FifoOK(fifo)
    BY <2>2, FifoAssumption
       DEF EmptyFifo, FifoOK, FlagsAgree, PointersAgree, FirstIsShown, Wrap
  <2>5. QED
    BY <2>3, <2>4, SameFifo DEF Alone!FifoInv
<1>2. Alone!FifoInv /\ [Alone!Next]_fifo => Alone!FifoInv'
  <2>1. SUFFICES ASSUME Alone!FifoInv, [Alone!Next]_fifo PROVE Alone!FifoInv'
    OBVIOUS
  <2>2. ASSUME NEW rd_en \in BOOLEAN, NEW wr_en \in BOOLEAN, NEW wr_data \in Data,
               Alone!Clock(rd_en, wr_en, wr_data)
        PROVE  Alone!FifoInv'
    BY <2>1, <2>2, ClockKeepsFifo, SameFifo DEF Alone!FifoInv, Alone!Clock
  <2>3. CASE Alone!Reset
    BY <2>1, <2>3, ResetKeepsFifo, SameFifo DEF Alone!FifoInv, Alone!Reset
  <2>4. CASE UNCHANGED fifo
    BY <2>1, <2>4, SameFifo DEF Alone!FifoInv
  <2>5. QED
    BY <2>1, <2>2, <2>3, <2>4, SameFifo DEF Alone!Next
<1>3. QED
  BY <1>1, <1>2, PTL DEF Alone!Spec

\* The FIFO implements the bounded queue: no element is lost, doubled or
\* overtaken, whatever the depth.
THEOREM FifoImplementsQueue == Alone!Spec => Alone!QueueSpec
<1> DEFINE s == Alone!Contents(fifo)
<1>1. Alone!Init => Alone!Queue!Init
  <2>1. SUFFICES ASSUME Alone!Init PROVE Contents(fifo) = <<>>
    BY SameFifo DEF Alone!Queue!Init
  <2>2. fifo.count = 0
    BY <2>1, SameFifo DEF Alone!Init, EmptyFifo
  <2>3. QED
    BY <2>2 DEF Contents
<1>2. Alone!FifoInv /\ [Alone!Next]_fifo => [Alone!Queue!Next]_s
  <2>1. SUFFICES ASSUME Alone!FifoInv, [Alone!Next]_fifo
                 PROVE  Alone!Queue!Next \/ s' = s
    OBVIOUS
  <2>2. ASSUME NEW rd_en \in BOOLEAN, NEW wr_en \in BOOLEAN, NEW wr_data \in Data,
               Alone!Clock(rd_en, wr_en, wr_data)
        PROVE  Alone!Queue!Next \/ s' = s
    <3>1. fifo \in Fifos /\ FifoOK(fifo)
      BY <2>1, SameFifo DEF Alone!FifoInv
    <3>2. s = Contents(fifo) /\ s' = Contents(NextFifo(fifo, rd_en, wr_en, wr_data))
      BY <2>2, SameFifo DEF Alone!Clock
    <3> HIDE DEF s
    <3>3. CASE ~valid_rd(fifo, rd_en) /\ ~valid_wr(fifo, wr_en)
      BY <3>1, <3>2, <3>3, ClockIsQueueStep
    <3>4. CASE ~valid_rd(fifo, rd_en) /\ valid_wr(fifo, wr_en)
      <4>1. Len(s) < Depth /\ s' = Append(s, wr_data)
        BY <3>1, <3>2, <3>4, ClockIsQueueStep
      <4>2. QED
        BY <4>1 DEF Alone!Queue!Put, Alone!Queue!Next, s
    <3>5. CASE valid_rd(fifo, rd_en) /\ ~valid_wr(fifo, wr_en)
      <4>1. s # <<>> /\ s' = Tail(s)
        BY <3>1, <3>2, <3>5, ClockIsQueueStep
      <4>2. QED
        BY <4>1 DEF Alone!Queue!Get, Alone!Queue!Next, s
    <3>6. CASE valid_rd(fifo, rd_en) /\ valid_wr(fifo, wr_en)
      <4>1. s # <<>> /\ Len(s) < Depth /\ s' = Append(Tail(s), wr_data)
        BY <3>1, <3>2, <3>6, ClockIsQueueStep
      <4>2. QED
        BY <4>1 DEF Alone!Queue!Exchange, Alone!Queue!Next, s
    <3>7. QED
      BY <3>3, <3>4, <3>5, <3>6
  <2>3. CASE Alone!Reset
    <3>1. Contents(ResetFifo(fifo)) = <<>>
      <4>1. fifo \in Fifos
        BY <2>1, SameFifo DEF Alone!FifoInv
      <4>2. ResetFifo(fifo).count = 0
        BY <4>1 DEF ResetFifo, Fifos
      <4>3. QED
        BY <4>2 DEF Contents
    <3>2. fifo' = ResetFifo(fifo)
      BY <2>3, SameFifo DEF Alone!Reset
    <3>3. s' = Contents(fifo')
      BY SameFifo
    <3>4. s' = <<>>
      BY <3>1, <3>2, <3>3
    <3>5. QED
      BY <3>4 DEF Alone!Queue!Next, Alone!Queue!Clear
  <2>4. CASE UNCHANGED fifo
    BY <2>4, SameFifo
  <2>5. QED
    BY <2>1, <2>2, <2>3, <2>4 DEF Alone!Next
<1>3. QED
  BY <1>1, <1>2, FifoIsConsistent, PTL DEF Alone!Spec, Alone!QueueSpec, Alone!Queue!Spec

-----------------------------------------------------------------------------
(* Sequences of lines that follow each other. *)

\* Only the empty sequence has no elements.
LEMMA EmptyMeansNoElements ==
    ASSUME NEW S, NEW s \in Seq(S)
    PROVE  Len(s) \in Nat /\ (s = <<>> <=> Len(s) = 0)
BY LenProperties, EmptySeq

\* A sequence of at most one element is a sequence.
LEMMA AtMostOneIsSeq ==
    ASSUME NEW S
    PROVE  /\ <<>> \in AtMostOne(S)
           /\ \A e \in S : <<e>> \in AtMostOne(S)
           /\ \A s \in AtMostOne(S) : s \in Seq(S) /\ (s = <<>> \/ Len(s) = 1)
<1>1. \A e \in S : <<e>> \in Seq(S) /\ Len(<<e>>) = 1
  OBVIOUS
<1>2. <<>> \in Seq(S)
  BY EmptySeq
<1>3. \A s \in AtMostOne(S) : s = <<>> \/ \E e \in S : s = <<e>>
  BY DEF AtMostOne
<1>4. <<>> \in AtMostOne(S) /\ \A e \in S : <<e>> \in AtMostOne(S)
  BY DEF AtMostOne
<1>5. \A s \in AtMostOne(S) : s \in Seq(S) /\ (s = <<>> \/ Len(s) = 1)
  BY <1>1, <1>2, <1>3
<1>6. QED
  BY <1>4, <1>5

\* Taking the first of consecutive lines leaves consecutive lines.
LEMMA ConsecutiveTail ==
    ASSUME NEW S, NEW s \in Seq(S), s # <<>>, NEW first, NEW next,
           Consecutive(s, first, next)
    PROVE  Consecutive(Tail(s), Succ(first), next)
<1>1. /\ Tail(s) \in Seq(S)
      /\ Len(Tail(s)) = Len(s) - 1
      /\ \A i \in 1 .. Len(Tail(s)) : Tail(s)[i] = s[i + 1]
      /\ Len(s) \in Nat \ {0}
  BY HeadTailProperties, EmptySeq
<1>2. /\ \A i \in 1 .. Len(s) - 1 : s[i + 1] = Succ(s[i])
      /\ s[1] = first /\ next = Succ(s[Len(s)])
  BY DEF Consecutive
<1>3. \A i \in 1 .. Len(Tail(s)) - 1 : Tail(s)[i + 1] = Succ(Tail(s)[i])
  <2>1. TAKE i \in 1 .. Len(Tail(s)) - 1
  <2>2. /\ i \in 1 .. Len(Tail(s)) /\ i + 1 \in 1 .. Len(Tail(s))
        /\ i + 1 \in 1 .. Len(s) - 1
    BY <1>1
  <2>3. Tail(s)[i] = s[i + 1] /\ Tail(s)[i + 1] = s[(i + 1) + 1]
    BY <1>1, <2>2
  <2>4. QED
    BY <1>2, <2>2, <2>3
<1>t. Tail(s) = <<>> <=> Len(Tail(s)) = 0
  <2>1. Tail(s) \in Seq(S)
    BY <1>1
  <2>2. QED
    BY <2>1, EmptyMeansNoElements
<1>4. CASE Len(s) = 1
  <2>1. Tail(s) = <<>>
    BY <1>1, <1>4, <1>t
  <2>2. QED
    BY <1>2, <1>3, <1>4, <2>1 DEF Consecutive
<1>5. CASE Len(s) > 1
  <2>1. Tail(s) # <<>>
    BY <1>1, <1>5, <1>t
  <2>2. /\ 1 \in 1 .. Len(Tail(s)) /\ Len(Tail(s)) \in 1 .. Len(Tail(s))
        /\ 1 \in 1 .. Len(s) - 1 /\ Len(Tail(s)) + 1 = Len(s)
    BY <1>1, <1>5
  <2>3. Tail(s)[1] = Succ(first)
    BY <1>1, <1>2, <2>2
  <2>4. Tail(s)[Len(Tail(s))] = s[Len(s)]
    BY <1>1, <2>2
  <2>5. QED
    BY <1>2, <1>3, <2>1, <2>3, <2>4 DEF Consecutive
<1>6. QED
  BY <1>1, <1>4, <1>5

\* Appending the next line leaves consecutive lines.
LEMMA ConsecutiveAppend ==
    ASSUME NEW S, NEW s \in Seq(S), NEW first, NEW next \in S,
           Consecutive(s, first, next)
    PROVE  Consecutive(Append(s, next), first, Succ(next))
<1> DEFINE t == Append(s, next)
<1>1. /\ t \in Seq(S) /\ t # <<>>
      /\ Len(t) = Len(s) + 1
      /\ \A i \in 1 .. Len(s) : t[i] = s[i]
      /\ t[Len(s) + 1] = next
      /\ Len(s) \in Nat
  BY AppendProperties, LenProperties
<1> HIDE DEF t
<1>2. CASE s = <<>>
  <2>1. Len(s) = 0 /\ next = first
    BY <1>2, EmptySeq DEF Consecutive
  <2>2. QED
    BY <1>1, <2>1 DEF Consecutive, t
<1>3. CASE s # <<>>
  <2>1. /\ \A i \in 1 .. Len(s) - 1 : s[i + 1] = Succ(s[i])
        /\ s[1] = first /\ next = Succ(s[Len(s)])
        /\ Len(s) > 0
    BY <1>3, EmptySeq DEF Consecutive
  <2>2. \A i \in 1 .. Len(t) - 1 : t[i + 1] = Succ(t[i])
    <3>1. TAKE i \in 1 .. Len(t) - 1
    <3>2. i \in 1 .. Len(s) /\ t[i] = s[i]
      BY <1>1
    <3>3. CASE i = Len(s)
      BY <1>1, <2>1, <3>2, <3>3
    <3>4. CASE i # Len(s)
      <4>1. i \in 1 .. Len(s) - 1 /\ i + 1 \in 1 .. Len(s)
        BY <1>1, <3>2, <3>4
      <4>2. QED
        BY <1>1, <2>1, <3>2, <4>1
    <3>5. QED
      BY <3>3, <3>4
  <2>3. t[1] = first
    BY <1>1, <2>1
  <2>4. QED
    BY <1>1, <2>2, <2>3 DEF Consecutive, t
<1>4. QED
  BY <1>2, <1>3

\* The first element of a concatenation is that of its first part.
LEMMA TailOfConcat ==
    ASSUME NEW S, NEW s \in Seq(S), NEW t \in Seq(S), s # <<>>
    PROVE  s \o t # <<>> /\ Tail(s \o t) = Tail(s) \o t /\ (s \o t)[1] = s[1]
<1>1. /\ Len(s) \in Nat \ {0} /\ Len(t) \in Nat
      /\ s \o t \in Seq(S) /\ Len(s \o t) = Len(s) + Len(t)
      /\ \A i \in 1 .. Len(s) + Len(t) :
            (s \o t)[i] = IF i =< Len(s) THEN s[i] ELSE t[i - Len(s)]
  BY ConcatProperties, EmptySeq, LenProperties
<1>2. s \o t # <<>>
  BY <1>1, EmptySeq
<1>3. /\ Tail(s) \in Seq(S) /\ Len(Tail(s)) = Len(s) - 1
      /\ \A i \in 1 .. Len(s) - 1 : Tail(s)[i] = s[i + 1]
  BY HeadTailProperties
<1>4. /\ Tail(s \o t) \in Seq(S) /\ Len(Tail(s \o t)) = Len(s) + Len(t) - 1
      /\ \A i \in 1 .. Len(s) + Len(t) - 1 : Tail(s \o t)[i] = (s \o t)[i + 1]
  BY <1>1, <1>2, HeadTailProperties
<1>5. /\ Tail(s) \o t \in Seq(S)
      /\ Len(Tail(s) \o t) = Len(s) - 1 + Len(t)
      /\ \A i \in 1 .. Len(s) - 1 + Len(t) :
            (Tail(s) \o t)[i] = IF i =< Len(s) - 1 THEN Tail(s)[i]
                                ELSE t[i - (Len(s) - 1)]
  BY <1>3, ConcatProperties
<1>6. \A i \in 1 .. Len(s) + Len(t) - 1 : Tail(s \o t)[i] = (Tail(s) \o t)[i]
  <2>1. TAKE i \in 1 .. Len(s) + Len(t) - 1
  <2>2. i + 1 \in 1 .. Len(s) + Len(t) /\ i \in 1 .. Len(s) - 1 + Len(t)
    BY <1>1
  <2>3. Tail(s \o t)[i] = IF i + 1 =< Len(s) THEN s[i + 1] ELSE t[(i + 1) - Len(s)]
    BY <1>1, <1>4, <2>2
  <2>4. CASE i + 1 =< Len(s)
    <3>1. i \in 1 .. Len(s) - 1
      BY <1>1, <2>4
    <3>2. QED
      BY <1>3, <1>5, <2>2, <2>3, <2>4, <3>1
  <2>5. CASE ~(i + 1 =< Len(s))
    <3>1. ~(i =< Len(s) - 1) /\ (i + 1) - Len(s) = i - (Len(s) - 1)
      BY <1>1, <2>5
    <3>2. QED
      BY <1>5, <2>2, <2>3, <2>5, <3>1
  <2>6. QED
    BY <2>4, <2>5
<1>7. Tail(s \o t) = Tail(s) \o t
  BY <1>1, <1>4, <1>5, <1>6, SeqEqual
<1>8. (s \o t)[1] = s[1]
  BY <1>1
<1>9. QED
  BY <1>2, <1>7, <1>8

\* A sequence is its first element and the rest.
LEMMA FirstAndTail ==
    ASSUME NEW S, NEW s \in Seq(S), s # <<>>
    PROVE  s[1] \in S /\ <<s[1]>> \o Tail(s) = s
<1>1. Len(s) \in Nat \ {0} /\ s[1] \in S
  BY EmptySeq, ElementOfSeq
<1>2. <<s[1]>> \in Seq(S) /\ Len(<<s[1]>>) = 1 /\ <<s[1]>>[1] = s[1]
  BY <1>1
<1>3. /\ Tail(s) \in Seq(S) /\ Len(Tail(s)) = Len(s) - 1
      /\ \A i \in 1 .. Len(s) - 1 : Tail(s)[i] = s[i + 1]
  BY HeadTailProperties
<1>4. /\ <<s[1]>> \o Tail(s) \in Seq(S)
      /\ Len(<<s[1]>> \o Tail(s)) = 1 + (Len(s) - 1)
      /\ \A i \in 1 .. 1 + (Len(s) - 1) : (<<s[1]>> \o Tail(s))[i] =
             IF i =< 1 THEN <<s[1]>>[i] ELSE Tail(s)[i - 1]
  BY <1>2, <1>3, ConcatProperties
<1>5. \A i \in 1 .. Len(s) : (<<s[1]>> \o Tail(s))[i] = s[i]
  <2>1. TAKE i \in 1 .. Len(s)
  <2>2. i \in 1 .. 1 + (Len(s) - 1)
    BY <1>1
  <2>3. CASE i = 1
    BY <1>2, <1>4, <2>2, <2>3
  <2>4. CASE i # 1
    <3>1. ~(i =< 1) /\ i - 1 \in 1 .. Len(s) - 1 /\ (i - 1) + 1 = i
      BY <1>1, <2>4
    <3>2. QED
      BY <1>3, <1>4, <2>2, <3>1
  <2>5. QED
    BY <2>3, <2>4
<1>6. Len(<<s[1]>> \o Tail(s)) = Len(s)
  BY <1>1, <1>4
<1>7. QED
  BY <1>1, <1>4, <1>5, <1>6, SeqEqual

-----------------------------------------------------------------------------
(* One rising edge from a state in which the invariant holds. *)

Edge(u, rd_full, wr_full, answers, n) ==
    /\ DInv
    /\ u \in Signals
    /\ rd_full \in BOOLEAN /\ wr_full \in BOOLEAN /\ answers \in BOOLEAN
    /\ n \in 0 .. Len(writes)
    /\ DClock(u, rd_full, wr_full, answers, n)

\* The engine asks for a line in this cycle.
Asks(rd_full, wr_full, answers) ==
    cci_rd_en(dma, fifo, Host(rd_full, wr_full, answers))

One(b) == IF b THEN 1 ELSE 0

\* A sequence without its first element, and one of at most one element.
Rest(b, s) == IF b THEN Tail(s) ELSE s
Opt(b, e) == IF b THEN <<e>> ELSE <<>>

\* A line that arrives finds room.
LEMMA CreditGivesRoom == DInv => ResponseHasRoom
<1>1. SUFFICES ASSUME DInv, reads # <<>> PROVE ~fifo.full
  BY DEF ResponseHasRoom
<1>2. Len(reads) \in Nat /\ Len(reads) # 0
  BY <1>1, EmptyMeansNoElements DEF DInv, DTypeOK
<1>3. Len(dma.c0Tx) \in Nat
  <2>1. dma.c0Tx \in AtMostOne(Lines)
    BY <1>1 DEF DInv, DTypeOK, Dmas
  <2>2. dma.c0Tx \in Seq(Lines)
    BY <2>1, AtMostOneIsSeq
  <2>3. QED
    BY <2>2, LenProperties
<1>4. dma.cci_rd_pending > 0
  BY <1>1, <1>2, <1>3 DEF DInv, CreditOK
<1>5. QED
  BY <1>1, <1>4, FifoAssumption
     DEF DInv, DTypeOK, CreditOK, FifoOK, FlagsAgree, Fifos, Dmas

\* The host's answer is the line at the head of the read channel.
LEMMA AnswerIsFirstRead ==
    ASSUME NEW u, NEW rd_full, NEW wr_full, NEW answers, NEW n,
           Edge(u, rd_full, wr_full, answers, n)
    PROVE  LET rsp == Host(rd_full, wr_full, answers).rsp
           IN  /\ (rsp # <<>>) = answers
               /\ Len(rsp) = One(answers)
               /\ answers => reads # <<>> /\ rsp[1] = reads[1] /\ reads[1] \in Lines
<1>1. answers => reads # <<>>
  BY DEF Edge, DClock
<1>2. answers => reads[1] \in Lines
  BY <1>1, FirstAndTail DEF Edge, DInv, DTypeOK
<1>3. Host(rd_full, wr_full, answers).rsp = IF answers THEN <<reads[1]>> ELSE <<>>
  BY DEF Host
<1>4. QED
  BY <1>1, <1>2, <1>3 DEF Edge, One

\* The FIFO takes the answer, and gives a line if the peripheral reads one.
LEMMA FifoMoves ==
    ASSUME NEW u, NEW rd_full, NEW wr_full, NEW answers, NEW n,
           Edge(u, rd_full, wr_full, answers, n)
    PROVE  /\ fifo' \in Fifos /\ FifoOK(fifo)'
           /\ fifo'.count = fifo.count + One(answers) - One(takes(fifo, u))
           /\ fifo'.space = fifo.space - One(answers) + One(takes(fifo, u))
           /\ fifo'.full <=> fifo'.count = Depth
           /\ takes(fifo, u) => fifo.count > 0
           /\ Contents(fifo) \in Seq(Data) /\ Contents(fifo') \in Seq(Data)
           /\ takes(fifo, u) => Contents(fifo) # <<>>
           /\ Contents(fifo') = Rest(takes(fifo, u), Contents(fifo))
                                \o Opt(answers, reads[1])
<1> DEFINE rsp == Host(rd_full, wr_full, answers).rsp
           wr_en == rsp # <<>>
           C == Contents(fifo)
<1>1. /\ wr_en = answers
      /\ answers => reads # <<>> /\ rsp[1] = reads[1] /\ rsp[1] \in Data
  BY AnswerIsFirstRead, UserAssumption
<1>2. fifo' = NextFifo(fifo, u.rd_en, wr_en, rsp[1])
  BY DEF Edge, DClock, NextRdFifo
<1>3. /\ fifo \in Fifos /\ FifoOK(fifo) /\ ResponseHasRoom
      /\ u.rd_en \in BOOLEAN /\ wr_en \in BOOLEAN /\ answers \in BOOLEAN
  BY CreditGivesRoom DEF Edge, DInv, DTypeOK, Signals
<1>4. /\ valid_rd(fifo, u.rd_en) = takes(fifo, u)
      /\ valid_wr(fifo, wr_en) = answers
      /\ takes(fifo, u) \in BOOLEAN
  BY <1>1, <1>3 DEF valid_rd, valid_wr, takes, ResponseHasRoom, Fifos
<1>5. fifo' \in Fifos /\ FifoOK(fifo')
  BY <1>1, <1>2, <1>3, ClockKeepsFifo
<1>6. /\ fifo'.count = fifo.count + One(answers) - One(takes(fifo, u))
      /\ fifo'.space = fifo.space - One(answers) + One(takes(fifo, u))
      /\ fifo'.full <=> fifo'.count = Depth
  BY <1>2, <1>4 DEF NextFifo, next_count, next_space, One
<1>7. takes(fifo, u) => fifo.count > 0
  BY <1>3, <1>4, CountersInRange DEF FifoOK
<1>8. C \in Seq(Data) /\ Contents(fifo') \in Seq(Data)
  BY <1>3, <1>5, ContentsIsSequence
<1>9. /\ takes(fifo, u) => C # <<>>
      /\ Contents(fifo') =
            IF takes(fifo, u)
            THEN IF answers THEN Append(Tail(C), rsp[1]) ELSE Tail(C)
            ELSE IF answers THEN Append(C, rsp[1]) ELSE C
  <2> DEFINE D == Contents(NextFifo(fifo, u.rd_en, wr_en, rsp[1]))
             rd == valid_rd(fifo, u.rd_en)
             wr == valid_wr(fifo, wr_en)
  <2>1. (wr_en => rsp[1] \in Data) /\ wr_en \in BOOLEAN
    BY <1>1, <1>3
  <2> HIDE DEF rsp, wr_en
  <2>2. /\ rd => C # <<>>
        /\ ~rd /\ ~wr => D = C
        /\ ~rd /\ wr => D = Append(C, rsp[1])
        /\ rd /\ ~wr => D = Tail(C)
        /\ rd /\ wr => D = Append(Tail(C), rsp[1])
    BY <1>3, <2>1, ClockIsQueueStep
  <2>3. Contents(fifo') = D
    BY <1>2
  <2> HIDE DEF C, D, rd, wr
  <2>4. rd = takes(fifo, u) /\ wr = answers
    BY <1>4 DEF rd, wr
  <2>5. QED
    BY <1>3, <2>2, <2>3, <2>4
<1>10. takes(fifo, u) => Tail(C) \in Seq(Data)
  BY <1>8, <1>9, HeadTailProperties
<1>11. Contents(fifo') = Rest(takes(fifo, u), C) \o Opt(answers, reads[1])
  <2>1. Rest(takes(fifo, u), C) \in Seq(Data)
    BY <1>8, <1>10 DEF Rest
  <2>2. Contents(fifo') = IF answers THEN Append(Rest(takes(fifo, u), C), rsp[1])
                          ELSE Rest(takes(fifo, u), C)
    BY <1>9 DEF Rest
  <2>3. CASE answers
    BY <1>1, <2>1, <2>2, <2>3, AppendIsConcat DEF Opt
  <2>4. CASE ~answers
    BY <2>1, <2>2, <2>4, ConcatEmptySeq DEF Opt
  <2>5. QED
    BY <2>3, <2>4
<1>12. QED
  BY <1>5, <1>6, <1>7, <1>8, <1>9, <1>11

\* The read channel gives the answered read and takes the request register.
LEMMA ReadsMove ==
    ASSUME NEW u, NEW rd_full, NEW wr_full, NEW answers, NEW n,
           Edge(u, rd_full, wr_full, answers, n)
    PROVE  /\ reads \in Seq(Lines) /\ dma.c0Tx \in Seq(Lines)
           /\ reads' = Rest(answers, reads) \o dma.c0Tx
           /\ reads' \in Seq(Lines)
           /\ Len(reads) \in Nat /\ Len(dma.c0Tx) \in Nat
           /\ Len(reads') = Len(reads) - One(answers) + Len(dma.c0Tx)
<1>1. /\ reads \in Seq(Lines) /\ dma.c0Tx \in Seq(Lines)
      /\ answers => reads # <<>>
      /\ reads' = Rest(answers, reads) \o dma.c0Tx
  <2>1. dma.c0Tx \in AtMostOne(Lines)
    BY DEF Edge, DInv, DTypeOK, Dmas
  <2>2. dma.c0Tx \in Seq(Lines)
    BY <2>1, AtMostOneIsSeq
  <2>3. reads \in Seq(Lines)
    BY DEF Edge, DInv, DTypeOK
  <2>4. QED
    BY <2>2, <2>3 DEF Edge, DClock, Rest
<1>2. Len(reads) \in Nat /\ Len(dma.c0Tx) \in Nat
  BY <1>1, LenProperties
<1>3. CASE answers
  <2>1. Tail(reads) \in Seq(Lines) /\ Len(Tail(reads)) = Len(reads) - 1
    BY <1>1, <1>3, HeadTailProperties
  <2>2. QED
    BY <1>1, <1>2, <1>3, <2>1, ConcatProperties DEF One, Rest
<1>4. CASE ~answers
  BY <1>1, <1>2, <1>4, ConcatProperties DEF One, Rest
<1>5. QED
  BY <1>1, <1>2, <1>3, <1>4

\* What the engine's read registers become.
LEMMA ReadRegistersMove ==
    ASSUME NEW u, NEW rd_full, NEW wr_full, NEW answers, NEW n,
           Edge(u, rd_full, wr_full, answers, n)
    PROVE  LET asks == Asks(rd_full, wr_full, answers)
               go == u.rd_go /\ rd_done(dma)
           IN  /\ dma'.cci_rd_remaining =
                      IF asks THEN dma.cci_rd_remaining - 1
                      ELSE IF go THEN u.rd_size ELSE dma.cci_rd_remaining
               /\ dma'.dma_rd_remaining =
                      IF takes(fifo, u) THEN dma.dma_rd_remaining - 1
                      ELSE IF go THEN u.rd_size ELSE dma.dma_rd_remaining
               /\ dma'.cci_rd_pending = dma.cci_rd_pending + One(asks) - One(answers)
               /\ dma'.rd_addr = IF asks THEN Succ(dma.rd_addr)
                                 ELSE IF go THEN u.rd_addr ELSE dma.rd_addr
               /\ dma'.c0Tx = IF asks THEN <<dma.rd_addr>> ELSE <<>>
               /\ Len(dma'.c0Tx) = One(asks)
               /\ next_line' = IF takes(fifo, u) THEN Succ(next_line)
                               ELSE IF go THEN u.rd_addr ELSE next_line
               /\ u.rd_size \in 0 .. MaxSize /\ u.rd_addr \in Lines
               /\ asks => /\ dma.cci_rd_remaining > 0
                          /\ dma.cci_rd_pending < fifo.space
<1>1. dma' = NextDma(dma, fifo, u, Host(rd_full, wr_full, answers))
  BY DEF Edge, DClock
<1>2. Len(Host(rd_full, wr_full, answers).rsp) = One(answers)
  BY AnswerIsFirstRead
<1>3. u.rd_size \in 0 .. MaxSize /\ u.rd_addr \in Lines
  BY UserAssumption DEF Edge, Signals
<1>4. Asks(rd_full, wr_full, answers) =>
          dma.cci_rd_remaining > 0 /\ dma.cci_rd_pending < fifo.space
  BY DEF Asks, cci_rd_en, rd_fifo_almost_full, Edge, DInv, DTypeOK, Dmas, Fifos
<1>5. dma'.cci_rd_pending = dma.cci_rd_pending
          + One(Asks(rd_full, wr_full, answers)) - One(answers)
  BY <1>1, <1>2 DEF NextDma, next_pending, Asks, One
<1>6. next_line' = IF takes(fifo, u) THEN Succ(next_line)
                   ELSE IF u.rd_go /\ rd_done(dma) THEN u.rd_addr ELSE next_line
  BY DEF Edge, DClock
<1>7. QED
  BY <1>1, <1>3, <1>4, <1>5, <1>6 DEF NextDma, Asks, One

\* The credits stay right: of a go all counters but one are 0.
LEMMA EdgeKeepsCredit ==
    ASSUME NEW u, NEW rd_full, NEW wr_full, NEW answers, NEW n,
           Edge(u, rd_full, wr_full, answers, n)
    PROVE  CreditOK' /\ dma'.cci_rd_pending \in 0 .. Depth
<1> DEFINE asks == Asks(rd_full, wr_full, answers)
           tk == takes(fifo, u)
           go == u.rd_go /\ rd_done(dma)
<1>1. /\ dma.cci_rd_remaining \in Nat /\ dma.cci_rd_pending \in Nat
      /\ dma.dma_rd_remaining \in Nat /\ fifo.count \in Nat
      /\ fifo.space = Depth - fifo.count /\ Depth \in Nat \ {0}
  BY FifoAssumption, DmaAssumption
     DEF Edge, DInv, DTypeOK, Dmas, Fifos, FifoOK, FlagsAgree
<1>2. /\ dma.cci_rd_pending = Len(reads) + Len(dma.c0Tx)
      /\ dma.cci_rd_pending =< fifo.space
      /\ dma.dma_rd_remaining =
             dma.cci_rd_remaining + dma.cci_rd_pending + fifo.count
  BY DEF Edge, DInv, CreditOK
<1>3. /\ dma'.cci_rd_remaining =
             IF asks THEN dma.cci_rd_remaining - 1
             ELSE IF go THEN u.rd_size ELSE dma.cci_rd_remaining
      /\ dma'.dma_rd_remaining =
             IF tk THEN dma.dma_rd_remaining - 1
             ELSE IF go THEN u.rd_size ELSE dma.dma_rd_remaining
      /\ dma'.cci_rd_pending = dma.cci_rd_pending + One(asks) - One(answers)
      /\ Len(dma'.c0Tx) = One(asks)
      /\ u.rd_size \in Nat
      /\ asks => dma.cci_rd_remaining > 0 /\ dma.cci_rd_pending < fifo.space
  BY ReadRegistersMove, DmaAssumption
<1>4. /\ Len(reads) \in Nat /\ Len(dma.c0Tx) \in Nat
      /\ Len(reads') = Len(reads) - One(answers) + Len(dma.c0Tx)
      /\ answers => Len(reads) # 0
  <2>1. answers => reads # <<>>
    BY AnswerIsFirstRead
  <2>2. reads \in Seq(Lines)
    BY ReadsMove
  <2>3. answers => Len(reads) # 0
    BY <2>1, <2>2, EmptyMeansNoElements
  <2>4. QED
    BY <2>3, ReadsMove
<1>5. /\ fifo'.count = fifo.count + One(answers) - One(tk)
      /\ fifo'.space = fifo.space - One(answers) + One(tk)
      /\ fifo'.full <=> fifo'.count = Depth
      /\ tk => fifo.count > 0
  BY FifoMoves
<1>6. go => dma.dma_rd_remaining = 0
  BY <1>1 DEF rd_done
<1> DEFINE a == One(asks)
           b == One(answers)
           t == One(tk)
<1>7. /\ a \in 0 .. 1 /\ b \in 0 .. 1 /\ t \in 0 .. 1
      /\ a = 1 <=> asks
      /\ b = 1 <=> answers
      /\ t = 1 <=> tk
  BY DEF One
<1> HIDE DEF asks, tk, go, a, b, t
<1>8. /\ dma'.cci_rd_pending = Len(reads') + Len(dma'.c0Tx)
      /\ dma'.cci_rd_pending =< fifo'.space
      /\ dma'.cci_rd_pending \in 0 .. Depth
  <2>1. dma'.cci_rd_pending = dma.cci_rd_pending + a - b
    BY <1>3 DEF a, b
  <2>2. Len(dma'.c0Tx) = a /\ Len(reads') = Len(reads) - b + Len(dma.c0Tx)
    BY <1>3, <1>4 DEF a, b
  <2>3. fifo'.space = fifo.space - b + t
    BY <1>5 DEF b, t
  <2>4. (a = 1 => dma.cci_rd_pending < fifo.space) /\ (b = 1 => Len(reads) # 0)
    BY <1>3, <1>4, <1>7
  <2>5. (t = 1 => fifo.count > 0)
    BY <1>5, <1>7
  <2>6. /\ a \in Nat /\ b \in Nat /\ t \in Nat
        /\ dma.cci_rd_pending + a =< fifo.space
        /\ b =< dma.cci_rd_pending /\ t =< fifo.count
    BY <1>1, <1>2, <1>4, <1>7, <2>4, <2>5
  <2>7. dma'.cci_rd_pending = Len(reads') + Len(dma'.c0Tx)
    BY <1>2, <1>4, <2>1, <2>2, <2>6
  <2>8. dma'.cci_rd_pending =< fifo'.space
    BY <1>1, <2>1, <2>3, <2>6
  <2>9. dma'.cci_rd_pending \in 0 .. Depth
    BY <1>1, <2>1, <2>6
  <2>10. QED
    BY <2>7, <2>8, <2>9
<1>9. dma'.dma_rd_remaining =
          dma'.cci_rd_remaining + dma'.cci_rd_pending + fifo'.count
  <2>1. /\ dma'.cci_rd_pending = dma.cci_rd_pending + a - b
        /\ fifo'.count = fifo.count + b - t
    BY <1>3, <1>5 DEF a, b, t
  <2>2. CASE go
    <3>1. /\ dma.cci_rd_remaining = 0 /\ dma.cci_rd_pending = 0
          /\ fifo.count = 0 /\ Len(reads) = 0
      BY <1>1, <1>2, <1>4, <1>6, <2>2
    <3>2. ~asks /\ ~tk /\ ~answers
      BY <1>3, <1>4, <1>5, <3>1
    <3>3. a = 0 /\ b = 0 /\ t = 0
      BY <1>7, <3>2
    <3>4. QED
      BY <1>3, <2>1, <2>2, <3>1, <3>2, <3>3
  <2>3. CASE ~go
    <3>1. dma'.cci_rd_remaining = dma.cci_rd_remaining - a
      BY <1>1, <1>3, <1>7, <2>3
    <3>2. dma'.dma_rd_remaining = dma.dma_rd_remaining - t
      BY <1>1, <1>3, <1>7, <2>3
    <3>3. a \in Nat /\ b \in Nat /\ t \in Nat
      BY <1>7
    <3>4. /\ dma.cci_rd_remaining \in Nat /\ dma.cci_rd_pending \in Nat
          /\ fifo.count \in Nat
      BY <1>1
    <3>5. dma.dma_rd_remaining =
              dma.cci_rd_remaining + dma.cci_rd_pending + fifo.count
      BY <1>2
    <3>6. QED
      BY <2>1, <3>1, <3>2, <3>3, <3>4, <3>5, SMTT(30)
  <2>4. QED
    BY <2>2, <2>3
<1>10. ~(fifo'.full /\ fifo'.count = 0)
  BY <1>1, <1>5
<1>11. QED
  BY <1>8, <1>9, <1>10 DEF CreditOK

\* An element that moves from the head of R to the end of X leaves the
\* concatenation as it is.
LEMMA MoveOne ==
    ASSUME NEW S, NEW X \in Seq(S), NEW R \in Seq(S), NEW T \in Seq(S), R # <<>>
    PROVE  (X \o <<R[1]>>) \o (Tail(R) \o T) = (X \o R) \o T
<1>1. R[1] \in S /\ <<R[1]>> \o Tail(R) = R
  BY FirstAndTail
<1> DEFINE z == <<R[1]>>
           y == Tail(R)
<1>2. z \in Seq(S)
  BY <1>1
<1>3. y \in Seq(S)
  BY HeadTailProperties
<1>4. z \o y = R
  BY <1>1
<1> HIDE DEF z, y
<1>5. (X \o z) \o y = X \o (z \o y)
  BY <1>2, <1>3, ConcatAssociative, SMTT(30)
<1>6. X \o z \in Seq(S)
  BY <1>2, ConcatProperties
<1> DEFINE w == X \o z
<1>7. w \in Seq(S)
  BY <1>6
<1> HIDE DEF w
<1>8. (w \o y) \o T = w \o (y \o T)
  BY <1>3, <1>7, ConcatAssociative, SMTT(30)
<1>9. QED
  BY <1>4, <1>5, <1>8 DEF w, z, y

\* The lines under way: the peripheral takes the first, the engine asks for one
\* more, and an answer moves a line from the channel to the FIFO.
LEMMA LinesMove ==
    ASSUME NEW u, NEW rd_full, NEW wr_full, NEW answers, NEW n,
           Edge(u, rd_full, wr_full, answers, n)
    PROVE  /\ UnderWay \in Seq(Data)
           /\ takes(fifo, u) =>
                  UnderWay # <<>> /\ UnderWay[1] = Contents(fifo)[1]
           /\ UnderWay' = Rest(takes(fifo, u), UnderWay) \o dma'.c0Tx
<1> DEFINE C == Contents(fifo)
           X == Rest(takes(fifo, u), C)
           T == dma.c0Tx
<1>1. C \in Seq(Data) /\ (takes(fifo, u) => C # <<>>)
  BY FifoMoves
<1>2. reads \in Seq(Data) /\ T \in Seq(Data)
  <2>1. reads \in Seq(Lines) /\ T \in Seq(Lines)
    BY ReadsMove
  <2>2. Lines \subseteq Data
    BY UserAssumption
  <2>3. QED
    BY <2>1, <2>2, SeqMonotonic
<1>3. X \in Seq(Data)
  BY <1>1, HeadTailProperties DEF Rest
<1>4. Contents(fifo)' \o reads' = (X \o reads) \o T
  <2>1. /\ Contents(fifo)' = X \o Opt(answers, reads[1])
        /\ reads' = Rest(answers, reads) \o T
    <3>1. Contents(fifo)' = Contents(fifo')
      BY DEF Contents
    <3>2. QED
      BY <3>1, FifoMoves, ReadsMove
  <2> HIDE DEF X, T
  <2>2. CASE answers
    <3>1. reads # <<>>
      BY <2>2, AnswerIsFirstRead
    <3>2. X \in Seq(Data)
      BY <1>3
    <3>3. reads \in Seq(Data)
      BY <1>2
    <3>4. T \in Seq(Data)
      BY <1>2
    <3>5. (X \o <<reads[1]>>) \o (Tail(reads) \o T) = (X \o reads) \o T
      BY <3>1, <3>2, <3>3, <3>4, MoveOne, SMTT(20)
    <3>6. QED
      BY <2>1, <2>2, <3>5 DEF Rest, Opt
  <2>3. CASE ~answers
    <3>1. X \o <<>> = X
      BY <1>3, ConcatEmptySeq
    <3>2. (X \o reads) \o T = X \o (reads \o T)
      BY <1>2, <1>3, ConcatAssociative, SMTT(30)
    <3>3. QED
      BY <2>1, <2>3, <3>1, <3>2 DEF Rest, Opt
  <2>4. QED
    BY <2>2, <2>3
<1>5. UnderWay = (C \o reads) \o T
  BY DEF UnderWay
<1>6. UnderWay' = ((X \o reads) \o T) \o dma'.c0Tx
  BY <1>4 DEF UnderWay
<1>7. C \o reads \in Seq(Data)
  BY <1>1, <1>2, ConcatProperties
<1>8. (C \o reads) \o T \in Seq(Data)
  BY <1>2, <1>7, ConcatProperties
<1>9. CASE takes(fifo, u)
  <2> HIDE DEF C, T
  <2>1. /\ C \o reads # <<>> /\ Tail(C \o reads) = Tail(C) \o reads
        /\ (C \o reads)[1] = C[1]
    BY <1>1, <1>2, <1>9, TailOfConcat
  <2>2. /\ (C \o reads) \o T # <<>>
        /\ Tail((C \o reads) \o T) = Tail(C \o reads) \o T
        /\ ((C \o reads) \o T)[1] = (C \o reads)[1]
    BY <1>2, <1>7, <2>1, TailOfConcat
  <2>3. X = Tail(C)
    BY <1>9 DEF Rest, C
  <2> HIDE DEF X
  <2>4. UnderWay' = Rest(takes(fifo, u), UnderWay) \o dma'.c0Tx
    BY <1>5, <1>6, <1>9, <2>1, <2>2, <2>3 DEF Rest
  <2>5. UnderWay # <<>> /\ UnderWay[1] = C[1] /\ UnderWay \in Seq(Data)
    BY <1>5, <1>8, <2>1, <2>2
  <2>6. QED
    BY <1>9, <2>4, <2>5 DEF C
<1>10. CASE ~takes(fifo, u)
  BY <1>5, <1>6, <1>8, <1>10 DEF Rest
<1>11. QED
  BY <1>9, <1>10

\* A transfer is begun only when no line is under way.
LEMMA GoIsQuiet ==
    ASSUME NEW u, NEW rd_full, NEW wr_full, NEW answers, NEW n,
           Edge(u, rd_full, wr_full, answers, n), rd_done(dma)
    PROVE  /\ ~Asks(rd_full, wr_full, answers) /\ ~takes(fifo, u)
           /\ UnderWay = <<>>
<1>1. /\ dma.cci_rd_remaining \in Nat /\ dma.cci_rd_pending \in Nat
      /\ fifo.count \in Nat /\ dma.dma_rd_remaining = 0
      /\ Len(reads) \in Nat /\ Len(dma.c0Tx) \in Nat
  BY ReadsMove, FifoAssumption, DmaAssumption
     DEF Edge, DInv, DTypeOK, Dmas, Fifos, rd_done
<1>2. /\ dma.cci_rd_pending = Len(reads) + Len(dma.c0Tx)
      /\ dma.dma_rd_remaining =
             dma.cci_rd_remaining + dma.cci_rd_pending + fifo.count
  BY DEF Edge, DInv, CreditOK
<1>3. /\ dma.cci_rd_remaining = 0 /\ fifo.count = 0
      /\ Len(reads) = 0 /\ Len(dma.c0Tx) = 0
  BY <1>1, <1>2
<1>4. ~Asks(rd_full, wr_full, answers) /\ ~takes(fifo, u)
  BY <1>3, ReadRegistersMove, FifoMoves
<1>5. reads \in Seq(Lines) /\ dma.c0Tx \in Seq(Lines)
  BY ReadsMove
<1>6. reads = <<>> /\ dma.c0Tx = <<>>
  BY <1>3, <1>5, EmptyMeansNoElements
<1>7. Contents(fifo) = <<>>
  BY <1>3 DEF Contents
<1>8. QED
  BY <1>4, <1>6, <1>7 DEF UnderWay

\* The lines under way stay consecutive.
LEMMA EdgeKeepsOrder ==
    ASSUME NEW u, NEW rd_full, NEW wr_full, NEW answers, NEW n,
           Edge(u, rd_full, wr_full, answers, n)
    PROVE  LinesInOrder'
<1> DEFINE asks == Asks(rd_full, wr_full, answers)
           tk == takes(fifo, u)
           go == u.rd_go /\ rd_done(dma)
           U == UnderWay
           V == Rest(tk, U)
           first == IF tk THEN Succ(next_line) ELSE next_line
<1>1. /\ U \in Seq(Data)
      /\ tk => U # <<>>
      /\ U' = V \o dma'.c0Tx
  BY LinesMove
<1>2. /\ dma'.rd_addr = IF asks THEN Succ(dma.rd_addr)
                        ELSE IF go THEN u.rd_addr ELSE dma.rd_addr
      /\ dma'.c0Tx = IF asks THEN <<dma.rd_addr>> ELSE <<>>
      /\ next_line' = IF tk THEN Succ(next_line)
                      ELSE IF go THEN u.rd_addr ELSE next_line
  BY ReadRegistersMove
<1>3. go => ~asks /\ ~tk /\ U = <<>>
  BY GoIsQuiet
<1>4. Consecutive(U, next_line, dma.rd_addr)
  BY DEF Edge, DInv, LinesInOrder
<1>5. dma.rd_addr \in Data
  BY UserAssumption DEF Edge, DInv, DTypeOK, Dmas
<1> HIDE DEF asks, tk, go, U
<1>6. V \in Seq(Data) /\ Consecutive(V, first, dma.rd_addr)
  <2>1. CASE tk
    <3>1. Tail(U) \in Seq(Data)
      BY <1>1, <2>1, HeadTailProperties
    <3>2. Consecutive(Tail(U), Succ(next_line), dma.rd_addr)
      BY <1>1, <1>4, <2>1, ConsecutiveTail
    <3>3. QED
      BY <2>1, <3>1, <3>2 DEF Rest
  <2>2. CASE ~tk
    BY <1>1, <1>4, <2>2 DEF Rest
  <2>3. QED
    BY <2>1, <2>2
<1> HIDE DEF V
<1>7. SUFFICES Consecutive(U', next_line', dma'.rd_addr)
  BY DEF LinesInOrder, U
<1>8. CASE asks
  <2>1. U' = Append(V, dma.rd_addr)
    <3>1. Append(V, dma.rd_addr) = V \o <<dma.rd_addr>>
      BY <1>5, <1>6, AppendIsConcat
    <3>2. QED
      BY <1>1, <1>2, <1>8, <3>1
  <2>2. Consecutive(Append(V, dma.rd_addr), first, Succ(dma.rd_addr))
    BY <1>5, <1>6, ConsecutiveAppend
  <2>3. next_line' = first /\ dma'.rd_addr = Succ(dma.rd_addr)
    BY <1>2, <1>3, <1>8
  <2>4. QED
    BY <2>1, <2>2, <2>3
<1>9. CASE ~asks
  <2>1. U' = V
    <3>1. V \o <<>> = V
      BY <1>6, ConcatEmptySeq
    <3>2. QED
      BY <1>1, <1>2, <1>9, <3>1
  <2>2. CASE go
    <3>1. U' = <<>> /\ next_line' = u.rd_addr /\ dma'.rd_addr = u.rd_addr
      BY <1>2, <1>3, <1>9, <2>1, <2>2 DEF V, Rest
    <3>2. QED
      BY <3>1 DEF Consecutive
  <2>3. CASE ~go
    BY <1>2, <1>6, <1>9, <2>1, <2>3
  <2>4. QED
    BY <2>2, <2>3
<1>10. QED
  BY <1>8, <1>9

\* The line after a line is a line.
LEMMA SuccIsLine == ASSUME NEW a \in Lines PROVE Succ(a) \in Lines
BY DmaAssumption DEF Lines, Succ

\* The write channel stays a sequence of requests when one is carried out and
\* one may join.
LEMMA WritesMove ==
    ASSUME NEW u, NEW rd_full, NEW wr_full, NEW answers, NEW n,
           Edge(u, rd_full, wr_full, answers, n)
    PROVE  writes' \in Seq(Requests)
<1>1. writes \in Seq(Requests) /\ Len(writes) \in Nat
  BY LenProperties DEF Edge, DInv, DTypeOK
<1>2. dma.c1Tx \in Seq(Requests)
  <2>1. dma.c1Tx \in AtMostOne(Requests)
    BY DEF Edge, DInv, DTypeOK, Dmas
  <2>2. QED
    BY <2>1, AtMostOneIsSeq
<1>3. CASE n = 0
  BY <1>1, <1>2, <1>3, ConcatProperties DEF Edge, DClock
<1>4. CASE n # 0
  <2> DEFINE before == SubSeq(writes, 1, n - 1)
             after == SubSeq(writes, n + 1, Len(writes))
  <2>1. n \in Nat \ {0} /\ n =< Len(writes)
    BY <1>1, <1>4 DEF Edge
  <2>2. /\ \A i \in 1 .. n - 1 : writes[i] \in Requests
        /\ \A i \in n + 1 .. Len(writes) : writes[i] \in Requests
    BY <1>1, <2>1, ElementOfSeq
  <2>3. before \in Seq(Requests) /\ after \in Seq(Requests)
    BY <1>1, <2>1, <2>2, SubSeqProperties
  <2>4. writes' = (before \o after) \o dma.c1Tx
    BY <1>4 DEF Edge, DClock
  <2> HIDE DEF before, after
  <2>5. before \o after \in Seq(Requests)
    BY <2>3, ConcatProperties
  <2>6. QED
    BY <1>2, <2>4, <2>5, ConcatProperties
<1>5. QED
  BY <1>3, <1>4

\* The registers and the channels keep their types.
LEMMA EdgeKeepsType ==
    ASSUME NEW u, NEW rd_full, NEW wr_full, NEW answers, NEW n,
           Edge(u, rd_full, wr_full, answers, n)
    PROVE  DTypeOK'
<1> DEFINE c == Host(rd_full, wr_full, answers)
<1>1. /\ dma \in Dmas /\ fifo \in Fifos /\ next_line \in Lines /\ u \in Signals
      /\ dma' = NextDma(dma, fifo, u, c)
  BY DEF Edge, DInv, DTypeOK, DClock
<1>2. /\ dma.cci_rd_remaining \in 0 .. MaxSize /\ dma.dma_rd_remaining \in 0 .. MaxSize
      /\ dma.cci_wr_remaining \in 0 .. MaxSize /\ MaxSize \in Nat
      /\ dma.rd_addr \in Lines /\ dma.wr_addr \in Lines
      /\ dma.cci_rd_pending \in Nat /\ fifo.count \in Nat
  BY <1>1, FifoAssumption, DmaAssumption DEF Dmas, Fifos
<1>3. /\ u.rd_size \in 0 .. MaxSize /\ u.wr_size \in 0 .. MaxSize
      /\ u.rd_addr \in Lines /\ u.wr_addr \in Lines /\ u.wr_data \in Data
  BY <1>1, UserAssumption DEF Signals
<1>4. Succ(dma.rd_addr) \in Lines /\ Succ(dma.wr_addr) \in Lines
  BY <1>2, SuccIsLine
<1>5. /\ dma'.cci_rd_remaining \in 0 .. MaxSize
      /\ dma'.dma_rd_remaining \in 0 .. MaxSize
  <2>1. Asks(rd_full, wr_full, answers) => dma.cci_rd_remaining > 0
    BY ReadRegistersMove
  <2>2. takes(fifo, u) => dma.dma_rd_remaining > 0
    BY <1>2, FifoMoves DEF Edge, DInv, CreditOK
  <2>3. dma'.cci_rd_remaining = IF Asks(rd_full, wr_full, answers)
                                THEN dma.cci_rd_remaining - 1
                                ELSE IF u.rd_go /\ rd_done(dma) THEN u.rd_size
                                ELSE dma.cci_rd_remaining
    BY ReadRegistersMove
  <2>4. dma'.dma_rd_remaining = IF takes(fifo, u) THEN dma.dma_rd_remaining - 1
                                ELSE IF u.rd_go /\ rd_done(dma) THEN u.rd_size
                                ELSE dma.dma_rd_remaining
    BY ReadRegistersMove
  <2>5. QED
    BY <1>2, <1>3, <2>1, <2>2, <2>3, <2>4
<1>6. dma'.cci_rd_pending \in 0 .. Depth
  BY EdgeKeepsCredit
<1>7. dma'.cci_wr_remaining \in 0 .. MaxSize
  <2>1. cci_wr_en(dma, u, c) => dma.cci_wr_remaining > 0
    BY DEF cci_wr_en
  <2>2. QED
    BY <1>1, <1>2, <1>3, <2>1 DEF NextDma
<1>8. dma'.cci_wr_en_delayed \in BOOLEAN
  BY <1>1 DEF NextDma, cci_wr_en
<1>9. dma'.rd_addr \in Lines /\ dma'.wr_addr \in Lines
  BY <1>1, <1>2, <1>3, <1>4 DEF NextDma
<1>10. dma'.c0Tx \in AtMostOne(Lines)
  BY <1>1, <1>2 DEF NextDma, AtMostOne
<1>11. dma'.c1Tx \in AtMostOne(Requests)
  BY <1>1, <1>2, <1>3 DEF NextDma, Requests, AtMostOne
<1>12. dma' \in Dmas
  BY <1>1, <1>5, <1>6, <1>7, <1>8, <1>9, <1>10, <1>11 DEF NextDma, Dmas
<1>13. next_line' \in Lines
  BY <1>1, <1>3, SuccIsLine DEF Edge, DClock
<1>14. QED
  BY <1>12, <1>13, FifoMoves, ReadsMove, WritesMove DEF DTypeOK

-----------------------------------------------------------------------------
(* The invariant. *)

\* A rising edge keeps the invariant.
LEMMA EdgeKeepsInvariant ==
    ASSUME NEW u, NEW rd_full, NEW wr_full, NEW answers, NEW n,
           Edge(u, rd_full, wr_full, answers, n)
    PROVE  DInv'
<1>1. DelayCoversRequest'
  <2>1. dma' = NextDma(dma, fifo, u, Host(rd_full, wr_full, answers))
    BY DEF Edge, DClock
  <2>2. /\ dma'.cci_wr_en_delayed = cci_wr_en(dma, u, Host(rd_full, wr_full, answers))
        /\ dma'.c1Tx # <<>> <=> cci_wr_en(dma, u, Host(rd_full, wr_full, answers))
    BY <2>1 DEF NextDma
  <2>3. QED
    BY <2>2 DEF DelayCoversRequest
<1>2. FifoOK(fifo)' /\ CreditOK' /\ LinesInOrder' /\ DTypeOK'
  BY FifoMoves, EdgeKeepsCredit, EdgeKeepsOrder, EdgeKeepsType
<1>3. QED
  BY <1>1, <1>2 DEF DInv

\* A reset leads to a state in which the invariant holds.
LEMMA ResetKeepsInvariant ==
    ASSUME DInv, DReset
    PROVE  DInv'
<1>1. /\ dma \in Dmas /\ fifo \in Fifos /\ next_line' = dma.rd_addr
      /\ dma' = ResetDma(dma) /\ fifo' = ResetFifo(fifo)
      /\ reads' = <<>> /\ writes' = <<>>
  BY DEF DInv, DTypeOK, DReset
<1>2. dma' \in Dmas
  <2>1. 0 \in 0 .. MaxSize /\ 0 \in 0 .. Depth
    BY DmaAssumption, FifoAssumption
  <2>2. <<>> \in AtMostOne(Lines) /\ <<>> \in AtMostOne(Requests)
    BY AtMostOneIsSeq
  <2>3. QED
    BY <1>1, <2>1, <2>2 DEF ResetDma, Dmas
<1>3. /\ dma'.cci_rd_remaining = 0 /\ dma'.cci_rd_pending = 0
      /\ dma'.dma_rd_remaining = 0 /\ dma'.cci_wr_en_delayed = FALSE
      /\ dma'.rd_addr = dma.rd_addr
      /\ dma'.c0Tx = <<>> /\ dma'.c1Tx = <<>>
  BY <1>1 DEF ResetDma, Dmas
<1>4. fifo' \in Fifos /\ FifoOK(fifo)'
  BY <1>1, ResetKeepsFifo
<1>5. fifo'.count = 0 /\ fifo'.space = Depth
  BY <1>1 DEF ResetFifo, Fifos
<1>6. DTypeOK'
  BY <1>1, <1>2, <1>4, EmptySeq DEF DTypeOK, Dmas
<1>7. CreditOK'
  BY <1>1, <1>3, <1>5, FifoAssumption DEF CreditOK
<1>8. LinesInOrder'
  <2>1. UnderWay' = <<>>
    BY <1>1, <1>3, <1>5 DEF UnderWay, Contents
  <2>2. QED
    BY <1>1, <1>3, <2>1 DEF LinesInOrder, Consecutive
<1>9. DelayCoversRequest'
  BY <1>3 DEF DelayCoversRequest
<1>10. QED
  BY <1>4, <1>6, <1>7, <1>8, <1>9 DEF DInv

\* The invariant holds at first.
LEMMA InitEstablishesInvariant == DInit => DInv
<1>1. SUFFICES ASSUME DInit PROVE DInv
  OBVIOUS
<1>2. PICK rd_addr \in Lines, wr_addr \in Lines :
          dma = [IdleDma EXCEPT !.rd_addr = rd_addr, !.wr_addr = wr_addr]
  BY <1>1 DEF DInit
<1>3. PICK mem \in [Addr -> Data], d \in Data : fifo = EmptyFifo(mem, d)
  BY <1>1 DEF DInit
<1>4. reads = <<>> /\ writes = <<>> /\ next_line = dma.rd_addr
  BY <1>1 DEF DInit
<1>5. dma \in Dmas
  <2>1. 0 \in 0 .. MaxSize /\ 0 \in 0 .. Depth
    BY DmaAssumption, FifoAssumption
  <2>2. <<>> \in AtMostOne(Lines) /\ <<>> \in AtMostOne(Requests)
    BY AtMostOneIsSeq
  <2>3. QED
    BY <1>2, <2>1, <2>2 DEF IdleDma, Dmas
<1>6. /\ dma.cci_rd_remaining = 0 /\ dma.cci_rd_pending = 0
      /\ dma.dma_rd_remaining = 0 /\ dma.cci_wr_en_delayed = FALSE
      /\ dma.c0Tx = <<>> /\ dma.c1Tx = <<>>
  BY <1>2 DEF IdleDma
<1>7. fifo \in Fifos /\ FifoOK(fifo) /\ fifo.count = 0 /\ fifo.space = Depth
  BY <1>3, FifoAssumption
     DEF EmptyFifo, Fifos, Addr, FifoOK, FlagsAgree, PointersAgree, FirstIsShown, Wrap
<1>8. DTypeOK
  BY <1>4, <1>5, <1>7, EmptySeq DEF DTypeOK, Dmas
<1>9. CreditOK
  BY <1>4, <1>6, <1>7, FifoAssumption DEF CreditOK
<1>10. LinesInOrder
  <2>1. UnderWay = <<>>
    BY <1>4, <1>6, <1>7 DEF UnderWay, Contents
  <2>2. QED
    BY <1>4, <2>1 DEF LinesInOrder, Consecutive
<1>11. QED
  BY <1>6, <1>7, <1>8, <1>9, <1>10 DEF DInv, DelayCoversRequest

\* The engine's counters account for every line, the lines under way are
\* consecutive, and the registers keep their types, in every state.
THEOREM DmaInvariant == DSpec => []DInv
<1>1. DInv /\ [DNext]_dvars => DInv'
  <2>1. SUFFICES ASSUME DInv, [DNext]_dvars PROVE DInv'
    OBVIOUS
  <2>2. ASSUME NEW u \in Signals, NEW rd_full \in BOOLEAN, NEW wr_full \in BOOLEAN,
               NEW answers \in BOOLEAN, NEW n \in 0 .. Len(writes),
               DClock(u, rd_full, wr_full, answers, n)
        PROVE  DInv'
    <3>1. Edge(u, rd_full, wr_full, answers, n)
      BY <2>1, <2>2 DEF Edge
    <3>2. QED
      BY <3>1, EdgeKeepsInvariant
  <2>3. CASE DReset
    BY <2>1, <2>3, ResetKeepsInvariant
  <2>4. CASE UNCHANGED dvars
    BY <2>1, <2>4
       DEF dvars, DInv, DTypeOK, FifoOK, FlagsAgree, PointersAgree, FirstIsShown,
           CreditOK, LinesInOrder, UnderWay, Contents, DelayCoversRequest
  <2>5. QED
    BY <2>1, <2>2, <2>3, <2>4 DEF DNext, AnyClock
<1>2. QED
  BY <1>1, InitEstablishesInvariant, PTL DEF DSpec

\* No line the host returns finds the FIFO full.
THEOREM NoLineIsDropped == DSpec => []ResponseHasRoom
BY DmaInvariant, CreditGivesRoom, PTL

\* The peripheral is shown the lines it asked for, in order.
THEOREM LinesComeInOrder == DSpec => []NextLineIsShown
<1>1. DInv => NextLineIsShown
  <2>1. SUFFICES ASSUME DInv, ~fifo.empty PROVE fifo.rd_data = next_line
    BY DEF NextLineIsShown
  <2>2. /\ fifo \in Fifos /\ FifoOK(fifo)
        /\ reads \in Seq(Lines) /\ dma.c0Tx \in AtMostOne(Lines)
    BY <2>1 DEF DInv, DTypeOK, Dmas
  <2>3. /\ fifo.count \in Nat \ {0} /\ fifo.rd_addr \in Addr
        /\ fifo.rd_data = fifo.mem[fifo.rd_addr]
    BY <2>1, <2>2, FifoAssumption DEF FifoOK, FlagsAgree, FirstIsShown, Fifos
  <2>4. /\ Contents(fifo) \in Seq(Data) /\ Len(Contents(fifo)) = fifo.count
        /\ Contents(fifo)[1] = fifo.mem[fifo.rd_addr]
    <3>1. Wrap(fifo.rd_addr + (1 - 1)) = fifo.rd_addr
      BY <2>3, FifoAssumption DEF Wrap, Addr
    <3>2. 1 \in 1 .. fifo.count
      BY <2>3
    <3>3. QED
      BY <2>2, <3>1, <3>2, ContentsIsSequence
  <2>5. Contents(fifo) # <<>>
    BY <2>3, <2>4, EmptyMeansNoElements
  <2>6. reads \in Seq(Data) /\ dma.c0Tx \in Seq(Data)
    <3>1. dma.c0Tx \in Seq(Lines)
      BY <2>2, AtMostOneIsSeq
    <3>2. Lines \subseteq Data
      BY UserAssumption
    <3>3. QED
      BY <2>2, <3>1, <3>2, SeqMonotonic
  <2>7. UnderWay # <<>> /\ UnderWay[1] = Contents(fifo)[1]
    <3> DEFINE C == Contents(fifo)
               T == dma.c0Tx
               W == C \o reads
    <3>1. C \in Seq(Data) /\ C # <<>> /\ T \in Seq(Data) /\ reads \in Seq(Data)
      BY <2>4, <2>5, <2>6
    <3> HIDE DEF C, T
    <3>2. W \in Seq(Data)
      BY <3>1, ConcatProperties
    <3>3. W # <<>> /\ W[1] = C[1]
      BY <3>1, TailOfConcat
    <3> HIDE DEF W
    <3>4. W \o T # <<>> /\ (W \o T)[1] = W[1]
      BY <3>1, <3>2, <3>3, TailOfConcat
    <3>5. QED
      BY <3>3, <3>4 DEF UnderWay, W, C, T
  <2>8. UnderWay[1] = next_line
    BY <2>1, <2>7 DEF DInv, LinesInOrder, Consecutive
  <2>9. QED
    BY <2>3, <2>4, <2>7, <2>8
<1>2. QED
  BY <1>1, DmaInvariant, PTL

\* When rd_done is raised no line is under way.
THEOREM ReadDoneIsLast == DSpec => []DoneMeansRead
<1>1. DInv => DoneMeansRead
  <2>1. SUFFICES ASSUME DInv, rd_done(dma)
                 PROVE  fifo.count = 0 /\ reads = <<>> /\ dma.c0Tx = <<>>
    BY DEF DoneMeansRead
  <2>2. /\ dma.cci_rd_remaining \in Nat /\ dma.cci_rd_pending \in Nat
        /\ fifo.count \in Nat /\ dma.dma_rd_remaining = 0
        /\ reads \in Seq(Lines) /\ dma.c0Tx \in AtMostOne(Lines)
    BY <2>1, FifoAssumption, DmaAssumption DEF DInv, DTypeOK, Dmas, Fifos, rd_done
  <2>3. dma.c0Tx = <<>> \/ Len(dma.c0Tx) = 1
    BY <2>2, AtMostOneIsSeq
  <2>4. /\ Len(dma.c0Tx) \in Nat
        /\ Len(reads) \in Nat /\ (reads = <<>> <=> Len(reads) = 0)
    <3>1. reads \in Seq(Lines)
      BY <2>2
    <3>2. Len(<<>>) = 0
      BY EmptySeq
    <3>3. QED
      BY <2>3, <3>1, <3>2, EmptyMeansNoElements
  <2>5. fifo.count = 0 /\ Len(reads) = 0 /\ Len(dma.c0Tx) = 0
    BY <2>1, <2>2, <2>4 DEF DInv, CreditOK
  <2>6. QED
    BY <2>3, <2>4, <2>5
<1>2. QED
  BY <1>1, DmaInvariant, PTL

\* When wr_done is raised every write has reached the memory.
THEOREM WriteDoneIsLast == DSpec => []DoneMeansWritten
<1>1. DInv => DoneMeansWritten
  BY DEF DInv, DelayCoversRequest, DoneMeansWritten, wr_done, writes_are_pending, Host
<1>2. QED
  BY <1>1, DmaInvariant, PTL
=============================================================================
