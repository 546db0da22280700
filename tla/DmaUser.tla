------------------------------- MODULE DmaUser -------------------------------
(***************************************************************************)
(* The DMA engine between an arbitrary peripheral and the host.            *)
(*                                                                         *)
(* The peripheral raises go, read enable and write enable whenever it      *)
(* likes.  The host answers reads in the order of the requests (MPF sorts  *)
(* them, cci_mpf_app_conf.vh) and carries out writes in any order, both    *)
(* after any delay, and raises the almost full signals at will.  What it   *)
(* returns for a line is that line's number.                               *)
(***************************************************************************)
EXTENDS CciDma

CONSTANTS RdSizes, \* the sizes the peripheral gives with rd_go
          WrSizes, \* and with wr_go
          WrData   \* the lines it writes

ASSUME UserAssumption == /\ RdSizes \subseteq 0 .. MaxSize
                         /\ WrSizes \subseteq 0 .. MaxSize
                         /\ Lines \cup WrData \subseteq Data

VARIABLES dma, fifo,
          reads,    \* the host's read channel: the lines asked for, in order
          writes,   \* the host's write channel: the requests taken
          next_line \* history: the next line the peripheral is to be given

dvars == <<dma, fifo, reads, writes, next_line>>

IdleDma == [cci_rd_remaining |-> 0, cci_rd_pending |-> 0, dma_rd_remaining |-> 0,
            cci_wr_remaining |-> 0, cci_wr_en_delayed |-> FALSE,
            rd_addr |-> 0, wr_addr |-> 0, c0Tx |-> <<>>, c1Tx |-> <<>>]

\* The address registers and the block RAM hold anything after a power up.
DInit == /\ \E rd_addr, wr_addr \in Lines :
                dma = [IdleDma EXCEPT !.rd_addr = rd_addr, !.wr_addr = wr_addr]
         /\ \E mem \in [Addr -> Data], d \in Data : fifo = EmptyFifo(mem, d)
         /\ reads = <<>>
         /\ writes = <<>>
         /\ next_line = dma.rd_addr

Host(rd_full, wr_full, answers) ==
    [c0TxAlmFull |-> rd_full, c1TxAlmFull |-> wr_full,
     c1Empty |-> writes = <<>>,
     rsp |-> IF answers THEN <<reads[1]>> ELSE <<>>]

\* A rising edge: the host answers a read or not, and carries out one of the
\* writes (number n) or none (n = 0).
DClock(u, rd_full, wr_full, answers, n) ==
    LET c == Host(rd_full, wr_full, answers)
    IN  /\ answers => reads # <<>>
        /\ reads' = (IF answers THEN Tail(reads) ELSE reads) \o dma.c0Tx
        /\ writes' = (IF n = 0 THEN writes
                      ELSE SubSeq(writes, 1, n - 1) \o
                           SubSeq(writes, n + 1, Len(writes))) \o dma.c1Tx
        /\ next_line' = IF takes(fifo, u) THEN Succ(next_line)
                        ELSE IF u.rd_go /\ rd_done(dma) THEN u.rd_addr
                        ELSE next_line
        /\ dma' = NextDma(dma, fifo, u, c)
        /\ fifo' = NextRdFifo(fifo, u, c)

\* A port reset drains the channels before the engine starts again.
DReset == /\ dma' = ResetDma(dma)
          /\ fifo' = ResetFifo(fifo)
          /\ reads' = <<>>
          /\ writes' = <<>>
          /\ next_line' = dma.rd_addr

\* The peripheral's signals.
Signals == [rd_go : BOOLEAN, rd_addr : Lines, rd_size : RdSizes, rd_en : BOOLEAN,
            wr_go : BOOLEAN, wr_addr : Lines, wr_size : WrSizes, wr_en : BOOLEAN,
            wr_data : WrData]

AnyClock == \E u \in Signals, rd_full, wr_full, answers \in BOOLEAN,
               n \in 0 .. Len(writes) :
                DClock(u, rd_full, wr_full, answers, n)

DNext == AnyClock \/ DReset

DSpec == DInit /\ [][DNext]_dvars

-----------------------------------------------------------------------------
DTypeOK == /\ dma \in Dmas
           /\ fifo \in Fifos
           /\ reads \in Seq(Lines)
           /\ writes \in Seq(Requests)
           /\ next_line \in Lines

\* A line read by the host is never dropped by a full FIFO: the engine has
\* asked for no more lines than the FIFO has room for.
ResponseHasRoom == reads # <<>> => ~fifo.full

\* The peripheral gets the lines it asked for, in order, none missing and
\* none twice: the line the FIFO shows is the next one.
NextLineIsShown == ~fifo.empty => fifo.rd_data = next_line

\* wr_done is raised only when every write has reached the memory: none is in
\* the request register or in the channel.
DoneMeansWritten ==
    wr_done(dma, Host(FALSE, FALSE, FALSE)) => dma.c1Tx = <<>> /\ writes = <<>>

\* rd_done is raised only when no line is on its way: a later transfer cannot
\* be given a line of an earlier one.
DoneMeansRead ==
    rd_done(dma) => fifo.count = 0 /\ reads = <<>> /\ dma.c0Tx = <<>>

-----------------------------------------------------------------------------
(* The inductive invariant.                                                *)

\* Every pending read is a request under way, and has its room in the FIFO;
\* every line the peripheral has still to take is in the FIFO, pending, or not
\* yet asked for.  A FIFO that is full because of a reset awaits no line.
CreditOK == /\ dma.cci_rd_pending = Len(reads) + Len(dma.c0Tx)
            /\ dma.cci_rd_pending =< fifo.space
            /\ dma.dma_rd_remaining =
                   dma.cci_rd_remaining + dma.cci_rd_pending + fifo.count
            /\ fifo.full /\ fifo.count = 0 => dma.cci_rd_pending = 0

\* The lines fetched and asked for, in order.
UnderWay == Contents(fifo) \o reads \o dma.c0Tx

\* They follow each other, from the next one the peripheral is to be given to
\* the last one before rd_addr.
Consecutive(s, first, next) ==
    /\ \A i \in 1 .. Len(s) - 1 : s[i + 1] = Succ(s[i])
    /\ IF s = <<>> THEN next = first
       ELSE s[1] = first /\ next = Succ(s[Len(s)])

LinesInOrder == Consecutive(UnderWay, next_line, dma.rd_addr)

\* The extra flip flop covers the request register.
DelayCoversRequest == dma.cci_wr_en_delayed <=> dma.c1Tx # <<>>

DInv == /\ DTypeOK
        /\ FifoOK(fifo)
        /\ CreditOK
        /\ LinesInOrder
        /\ DelayCoversRequest

-----------------------------------------------------------------------------
\* The edges that a transfer waits for: one where the engine asks for a line, as the
\* host is not almost full; one where the host answers; and one where the peripheral
\* takes a line.
AskingClock ==
    /\ cci_rd_en(dma, fifo, Host(FALSE, FALSE, FALSE))
    /\ \E u \in Signals, wr_full, answers \in BOOLEAN, n \in 0 .. Len(writes) :
          DClock(u, FALSE, wr_full, answers, n)
AnsweringClock == \E u \in Signals, rd_full, wr_full \in BOOLEAN, n \in 0 .. Len(writes) :
                      DClock(u, rd_full, wr_full, TRUE, n)
TakingClock == \E u \in Signals, rd_full, wr_full, answers \in BOOLEAN,
                  n \in 0 .. Len(writes) :
                   takes(fifo, u) /\ DClock(u, rd_full, wr_full, answers, n)

\* A transfer ends: with a host that answers and is not almost full for ever,
\* and a peripheral that reads again and again, rd_done is raised again.
DFair == /\ WF_dvars(AnyClock)
         /\ WF_dvars(AskingClock)
         /\ WF_dvars(AnsweringClock)
         /\ WF_dvars(TakingClock)

DFairSpec == DSpec /\ DFair

EveryReadEnds == dma.dma_rd_remaining > 0 ~> rd_done(dma)
=============================================================================
