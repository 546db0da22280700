------------------------------- MODULE CciDma -------------------------------
(***************************************************************************)
(* The DMA engine (syn/hw/cci_dma.sv): it turns "read size lines from      *)
(* rd_addr" and "write size lines from wr_addr" into requests on the two   *)
(* channels of CCI-P, and buffers the lines read in a FIFO.                *)
(*                                                                         *)
(* The module has no variables.  d is the record of the engine's           *)
(* registers, f its FIFO, u the record of the peripheral's signals (the    *)
(* dma_if of afu.sv) and c that of the host's: c0TxAlmFull, c1TxAlmFull,   *)
(* c1Empty and rsp, the sequence of the line c0Rx carries, if any.  The    *)
(* request registers c0Tx and c1Tx are sequences of at most one request.   *)
(***************************************************************************)
EXTENDS Fifo, Sequences

CONSTANTS NumLines, \* lines that can be addressed (2**42 in the code)
          MaxSize   \* the largest size of a transfer

ASSUME DmaAssumption == NumLines \in Nat \ {0} /\ MaxSize \in Nat

Lines == 0 .. NumLines - 1

\* The next line; addresses have a fixed number of bits.
Succ(a) == IF a = NumLines - 1 THEN 0 ELSE a + 1

Requests == [line : Lines, data : Data]

\* A register that holds one request or none.
AtMostOne(S) == {<<>>} \cup {<<e>> : e \in S}

Dmas == [cci_rd_remaining : 0 .. MaxSize, cci_rd_pending : 0 .. Depth,
         dma_rd_remaining : 0 .. MaxSize, cci_wr_remaining : 0 .. MaxSize,
         cci_wr_en_delayed : BOOLEAN, rd_addr : Lines, wr_addr : Lines,
         c0Tx : AtMostOne(Lines), c1Tx : AtMostOne(Requests)]

\* The values of a reset, which leaves the address registers alone.
ResetDma(d) == [d EXCEPT !.cci_rd_remaining = 0, !.cci_rd_pending = 0,
                         !.dma_rd_remaining = 0, !.cci_wr_remaining = 0,
                         !.cci_wr_en_delayed = FALSE,
                         !.c0Tx = <<>>, !.c1Tx = <<>>]

-----------------------------------------------------------------------------
(* Reading *)

rd_done(d) == ~(d.dma_rd_remaining > 0)

\* Mutant of rd_fifo_almost_full: one read too many.
OneReadTooMany(d, f) == d.cci_rd_pending > f.space

\* As many reads are pending as the FIFO has room for.
rd_fifo_almost_full(d, f) == d.cci_rd_pending >= f.space

cci_rd_en(d, f, c) == /\ d.cci_rd_remaining > 0
                      /\ ~c.c0TxAlmFull
                      /\ ~rd_fifo_almost_full(d, f)

\* Mutant of next_pending: the decrement wins over the increment, as it would
\* if both were nonblocking assignments.
IncrementLost(d, rd_en, c) ==
    IF c.rsp # <<>> THEN d.cci_rd_pending - 1
    ELSE d.cci_rd_pending + (IF rd_en THEN 1 ELSE 0)

\* Mutant of next_pending: responses do not give their credit back.
CreditLost(d, rd_en, c) == d.cci_rd_pending + (IF rd_en THEN 1 ELSE 0)

\* A request and a response in one cycle both count.
next_pending(d, rd_en, c) ==
    d.cci_rd_pending + (IF rd_en THEN 1 ELSE 0) - Len(c.rsp)

\* Mutant of takes: a read of an empty FIFO counts.
TakesNothing(f, u) == u.rd_en

\* A line is taken out of the FIFO.
takes(f, u) == u.rd_en /\ ~f.empty

-----------------------------------------------------------------------------
(* Writing *)

\* Mutant of writes_are_pending: the extra flip flop is forgotten.
NoDelayedWrite(d, c) == ~c.c1Empty \/ d.cci_wr_remaining > 0

\* Mutant of writes_are_pending: writes in the channel are forgotten.
NoChannelCheck(d, c) == d.cci_wr_en_delayed \/ d.cci_wr_remaining > 0

writes_are_pending(d, c) == \/ d.cci_wr_en_delayed
                            \/ ~c.c1Empty
                            \/ d.cci_wr_remaining > 0

wr_done(d, c) == ~writes_are_pending(d, c)

cci_wr_en(d, u, c) == u.wr_en /\ ~c.c1TxAlmFull /\ d.cci_wr_remaining > 0

-----------------------------------------------------------------------------
\* A rising edge.  Of two assignments to one register the later one wins: a
\* request moves rd_addr and wr_addr on even in the cycle in which a go loads
\* them.
NextDma(d, f, u, c) ==
    LET rd_go == u.rd_go /\ rd_done(d)
        wr_go == u.wr_go /\ wr_done(d, c)
        rd_en == cci_rd_en(d, f, c)
        wr_en == cci_wr_en(d, u, c)
    IN  [cci_rd_remaining |-> IF rd_en THEN d.cci_rd_remaining - 1
                              ELSE IF rd_go THEN u.rd_size
                              ELSE d.cci_rd_remaining,
         cci_rd_pending |-> next_pending(d, rd_en, c),
         dma_rd_remaining |-> IF takes(f, u) THEN d.dma_rd_remaining - 1
                              ELSE IF rd_go THEN u.rd_size
                              ELSE d.dma_rd_remaining,
         cci_wr_remaining |-> IF wr_en THEN d.cci_wr_remaining - 1
                              ELSE IF wr_go THEN u.wr_size
                              ELSE d.cci_wr_remaining,
         cci_wr_en_delayed |-> wr_en,
         rd_addr |-> IF rd_en THEN Succ(d.rd_addr)
                     ELSE IF rd_go THEN u.rd_addr ELSE d.rd_addr,
         wr_addr |-> IF u.wr_en /\ ~c.c1TxAlmFull THEN Succ(d.wr_addr)
                     ELSE IF wr_go THEN u.wr_addr ELSE d.wr_addr,
         c0Tx |-> IF rd_en THEN <<d.rd_addr>> ELSE <<>>,
         c1Tx |-> IF wr_en THEN <<[line |-> d.wr_addr, data |-> u.wr_data]>>
                  ELSE <<>>]

\* The FIFO in the same edge: responses are written, the peripheral reads.
NextRdFifo(f, u, c) ==
    NextFifo(f, u.rd_en, c.rsp # <<>>, c.rsp[1])
=============================================================================
