-------------------------------- MODULE Fifo --------------------------------
(***************************************************************************)
(* The FIFO that buffers the lines read from the host (syn/hw/fifo.sv): a  *)
(* block RAM addressed by two pointers that wrap, with registered count,   *)
(* space and flags, and the first element always present on rd_data.       *)
(*                                                                         *)
(* The module has no variables: a FIFO is a record of its registers, and   *)
(* NextFifo maps it over a rising edge.  almost_full is left out: with     *)
(* ALMOST_FULL_COUNT = DEPTH, which is how it is built, it equals full and *)
(* is connected to nothing.                                                *)
(***************************************************************************)
EXTENDS Integers

CONSTANTS Depth,     \* DEPTH: elements the FIFO holds
          AddrSpace, \* 2**ADDR_WIDTH: words of the block RAM
          Data       \* what an element can be

ASSUME FifoAssumption == /\ Depth \in Nat \ {0}
                         /\ AddrSpace \in Nat
                         /\ AddrSpace >= Depth

Addr == 0 .. AddrSpace - 1

Fifos == [mem : [Addr -> Data], rd_data : Data,
          wr_addr : Addr, rd_addr : Addr,
          count : 0 .. Depth, space : 0 .. Depth,
          full : BOOLEAN, empty : BOOLEAN]

\* Addresses have ADDR_WIDTH bits.
Wrap(a) == IF a >= AddrSpace THEN a - AddrSpace ELSE a

\* The values of a reset.  The block RAM and its output are not reset.
ResetFifo(f) == [f EXCEPT !.wr_addr = 0, !.rd_addr = 0,
                          !.count = 0, !.space = Depth,
                          !.full = TRUE, !.empty = TRUE]

\* The FIFO after a power up and a reset: the block RAM holds anything.
EmptyFifo(mem, d) == [mem |-> mem, rd_data |-> d, wr_addr |-> 0, rd_addr |-> 0,
                      count |-> 0, space |-> Depth, full |-> TRUE, empty |-> TRUE]

\* A read of an empty FIFO and a write to a full one are ignored.
valid_rd(f, rd_en) == rd_en /\ ~f.empty
valid_wr(f, wr_en) == wr_en /\ ~f.full

next_count(f, rd_en, wr_en) ==
    f.count + (IF valid_wr(f, wr_en) THEN 1 ELSE 0)
            - (IF valid_rd(f, rd_en) THEN 1 ELSE 0)
next_space(f, rd_en, wr_en) ==
    f.space - (IF valid_wr(f, wr_en) THEN 1 ELSE 0)
            + (IF valid_rd(f, rd_en) THEN 1 ELSE 0)

\* Mutant of rd_addr_adjusted: no prefetch.
NoPrefetch(f, rd_en) == f.rd_addr

\* The word to prefetch: the one after the first if that one is being read.
rd_addr_adjusted(f, rd_en) ==
    IF valid_rd(f, rd_en) THEN Wrap(f.rd_addr + 1) ELSE f.rd_addr

\* The block RAM is written before it is read in the same cycle.
next_mem(f, wr_en, wr_data) ==
    IF valid_wr(f, wr_en) THEN [f.mem EXCEPT ![f.wr_addr] = wr_data] ELSE f.mem

\* A rising edge.
NextFifo(f, rd_en, wr_en, wr_data) ==
    [mem     |-> next_mem(f, wr_en, wr_data),
     rd_data |-> next_mem(f, wr_en, wr_data)[rd_addr_adjusted(f, rd_en)],
     wr_addr |-> IF valid_wr(f, wr_en) THEN Wrap(f.wr_addr + 1) ELSE f.wr_addr,
     rd_addr |-> IF valid_rd(f, rd_en) THEN Wrap(f.rd_addr + 1) ELSE f.rd_addr,
     count   |-> next_count(f, rd_en, wr_en),
     space   |-> next_space(f, rd_en, wr_en),
     full    |-> next_count(f, rd_en, wr_en) = Depth,
     empty   |-> next_count(f, rd_en, wr_en) = 0]

\* The elements of the FIFO, first one first.
Contents(f) == [i \in 1 .. f.count |-> f.mem[Wrap(f.rd_addr + i - 1)]]

-----------------------------------------------------------------------------
\* The flags and the space agree with the count.  A reset raises full although
\* the FIFO is empty; the next edge lowers it.
FlagsAgree(f) == /\ f.space = Depth - f.count
                 /\ f.empty <=> f.count = 0
                 /\ f.count = Depth => f.full
                 /\ f.full => f.count \in {0, Depth}

\* The pointers are count words apart.
PointersAgree(f) == f.wr_addr = Wrap(f.rd_addr + f.count)

\* When the FIFO is not empty its first element is on rd_data, in the very
\* cycle in which empty falls.
FirstIsShown(f) == ~f.empty => f.rd_data = f.mem[f.rd_addr]

FifoOK(f) == FlagsAgree(f) /\ PointersAgree(f) /\ FirstIsShown(f)
=============================================================================
