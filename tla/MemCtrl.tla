------------------------------- MODULE MemCtrl -------------------------------
(***************************************************************************)
(* The memory controller between the CPU and the DMA engine                *)
(* (syn/hw/mem_ctrl.sv).  It moves one cache line per operation: for a     *)
(* READ it fetches the line and hands its words to the CPU one per cycle,  *)
(* for a WRITE it takes words from the CPU for as many cycles and sends    *)
(* the line to the host.                                                   *)
(*                                                                         *)
(* m is the record of its registers, op the CPU's operation, in the record *)
(* of its other inputs.                                                    *)
(***************************************************************************)
EXTENDS Integers

CONSTANTS FillCount, \* FILL_COUNT: words of a cache line (16 in the code)
          Word,      \* what a word can be
          Zero       \* the word 0

WordIndex == 0 .. FillCount - 1

CacheLines == [WordIndex -> Word]

MemCtrls == [state : {"STARTUP", "READY", "HOSTOP", "FILL"},
             fill_count : WordIndex, line_buffer : CacheLines, bubble : BOOLEAN]

ResetMemCtrl == [state |-> "STARTUP", fill_count |-> 0,
                 line_buffer |-> [w \in WordIndex |-> Zero], bubble |-> FALSE]

-----------------------------------------------------------------------------
(* Outputs *)

ready(m) == m.state # "STARTUP"

last_fill(m) == m.fill_count = FillCount - 1

\* A word is on the common data bus, and the FIFO is read: in every cycle of a
\* fill, although the line was already taken.
rd_valid(m, op) == m.state = "FILL" /\ op = "READ"
host_re(m, op) == rd_valid(m, op)

common_data_bus_write_out(m) == m.line_buffer[m.fill_count]

host_rgo(m, op) == m.state = "HOSTOP" /\ op = "READ"
host_wgo(m, op) == m.state = "HOSTOP" /\ op = "WRITE"

\* Mutant of host_we: no bubble.
NoBubble(m, op, wr_ready) == host_wgo(m, op) /\ wr_ready

\* The line is sent in the second cycle of the operation or later.
host_we(m, op, wr_ready) == host_wgo(m, op) /\ wr_ready /\ m.bubble

tx_done(m, op, wr_ready) == \/ host_we(m, op, wr_ready)
                            \/ rd_valid(m, op) /\ last_fill(m)

-----------------------------------------------------------------------------
(* The state machine *)

Startup(m, in) == IF in.host_init THEN [m EXCEPT !.state = "READY"] ELSE m

Ready(m, op) == [m EXCEPT !.state = CASE op = "READ"  -> "HOSTOP"
                                      [] op = "WRITE" -> "FILL"
                                      [] op = "IDLE"  -> "READY"]

\* Mutant of Fill: the counter is not set back at the end of the line.
FillCountsOn(m, op, in) ==
    [m EXCEPT !.fill_count = @ + 1,
              !.state = IF ~last_fill(m) THEN "FILL"
                        ELSE IF op = "WRITE" THEN "HOSTOP" ELSE "READY"]

\* A write takes its word in every cycle; only the last one counts.
Fill(m, op, in) ==
    [m EXCEPT
        !.fill_count = IF last_fill(m) THEN 0 ELSE @ + 1,
        !.line_buffer = IF op = "WRITE"
                        THEN [w \in WordIndex |-> IF w = 0 THEN in.word ELSE Zero]
                        ELSE @,
        !.state = IF ~last_fill(m) THEN "FILL"
                  ELSE CASE op = "WRITE" -> "HOSTOP"
                         [] op = "READ"  -> "READY"
                         [] op = "IDLE"  -> "FILL"]

\* Mutant of HostOp: the bubble does not last until the line is sent.
BubbleToggles(m, op, in) ==
    IF op = "READ" /\ in.host_rd_ready
    THEN [m EXCEPT !.line_buffer = in.line, !.state = "FILL"]
    ELSE IF host_we(m, op, in.host_wr_ready)
    THEN [m EXCEPT !.state = "READY", !.bubble = FALSE]
    ELSE IF op = "WRITE" THEN [m EXCEPT !.bubble = ~@]
    ELSE m

HostOp(m, op, in) ==
    IF op = "READ" /\ in.host_rd_ready
    THEN [m EXCEPT !.line_buffer = in.line, !.state = "FILL"]
    ELSE IF host_we(m, op, in.host_wr_ready)
    THEN [m EXCEPT !.state = "READY", !.bubble = FALSE]
    ELSE IF op = "WRITE" /\ ~m.bubble
    THEN [m EXCEPT !.bubble = TRUE]
    ELSE m

NextMemCtrl(m, op, in) ==
    CASE m.state = "STARTUP" -> Startup(m, in)
      [] m.state = "READY"   -> Ready(m, op)
      [] m.state = "FILL"    -> Fill(m, op, in)
      [] m.state = "HOSTOP"  -> HostOp(m, op, in)
=============================================================================
