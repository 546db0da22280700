------------------------------ MODULE FifoQueue ------------------------------
(***************************************************************************)
(* A FIFO on its own, read and written in every possible way, and the      *)
(* bounded queue it implements.                                            *)
(***************************************************************************)
EXTENDS Fifo, Sequences

VARIABLE fifo

\* After a power up the block RAM holds anything.
Init == \E mem \in [Addr -> Data], d \in Data : fifo = EmptyFifo(mem, d)

Clock(rd_en, wr_en, wr_data) == fifo' = NextFifo(fifo, rd_en, wr_en, wr_data)

Reset == fifo' = ResetFifo(fifo)

Next == \/ \E rd_en \in BOOLEAN, wr_en \in BOOLEAN, wr_data \in Data :
               Clock(rd_en, wr_en, wr_data)
        \/ Reset

Spec == Init /\ [][Next]_fifo

-----------------------------------------------------------------------------
\* The registers of the FIFO agree with each other.
FifoInv == fifo \in Fifos /\ FifoOK(fifo)

\* A write to a FIFO that is not full, and a read of one that is not empty, are
\* never lost, and elements leave in the order in which they came: the FIFO
\* implements the bounded queue.
Queue == INSTANCE BoundedQueue WITH queue <- Contents(fifo)
QueueSpec == Queue!Spec
=============================================================================
