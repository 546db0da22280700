------------------------------- MODULE CpuHost -------------------------------
(***************************************************************************)
(* The CPU's state machine towards the host (syn/hw/cpu.sv, lines 216 to   *)
(* 401).  After a reset it loads the lines of the data memory, then those  *)
(* of the instruction memory, from the host, and then lets the pipeline    *)
(* run; a store of the pipeline to an address from 0x9000 on is sent to    *)
(* the host while the pipeline stalls.                                     *)
(*                                                                         *)
(* p is the record of the registers, st the store in the execute stage     *)
(* (NoStore if it holds no store to the host), in the record of the memory *)
(* controller's answers.                                                   *)
(***************************************************************************)
EXTENDS Integers, Sequences

CONSTANTS DM_ADDRS,  \* word addresses of the lines of the data memory to load
          IM_ADDRS,  \* and of the instruction memory, as sequences
          ImageLine, \* the host line of instruction address 0 (bit 16)
          LineWords, \* words of a line
          NoStore

DmLast == Len(DM_ADDRS) - 1
ImLast == Len(IM_ADDRS) - 1

ResetCpu == [state |-> "CPU_IDLE", im_count |-> 0, dm_count |-> 0,
             dm_curr_addr |-> 0, im_curr_addr |-> 0]

DmAddr(p) == DM_ADDRS[p.dm_count + 1]
ImAddr(p) == IM_ADDRS[p.im_count + 1]

op(p, st) == CASE p.state \in {"WAIT_INIT_DM", "INIT_DM", "WAIT_INIT_IM",
                               "INIT_IM"} -> "READ"
               [] p.state = "RUN" -> IF st # NoStore THEN "WRITE" ELSE "IDLE"
               [] p.state = "WRT_HOST" -> "WRITE"
               [] p.state = "CPU_IDLE" -> "IDLE"

\* The line of the host the CPU addresses.
ex_addr(p, st) ==
    CASE p.state = "WAIT_INIT_DM" -> DmAddr(p) \div LineWords
      [] p.state = "WAIT_INIT_IM" -> ImageLine + ImAddr(p) \div LineWords
      [] p.state = "WRT_HOST" \/ (p.state = "RUN" /\ st # NoStore) -> st.line
      [] OTHER -> 0

host_stall(p, st, in) == CASE p.state = "RUN" -> st # NoStore
                           [] p.state = "WRT_HOST" -> ~in.tx_done
                           [] OTHER -> TRUE

\* The word on the common data bus is written to the data memory, or to the
\* instruction memory, at this address.
mem_ex_wrt_en(p, in) == \/ p.state = "WAIT_INIT_DM" /\ in.rd_valid
                        \/ p.state = "INIT_DM"
mem_ex_addr(p) == IF p.state = "INIT_DM" THEN p.dm_curr_addr ELSE DmAddr(p)
im_wrt_en(p, in) == \/ p.state = "WAIT_INIT_IM" /\ in.rd_valid
                    \/ p.state = "INIT_IM"
im_wrt_addr(p) == IF p.state = "INIT_IM" THEN p.im_curr_addr ELSE ImAddr(p)

-----------------------------------------------------------------------------
(* The state machine; both current addresses are set and advance together. *)

SetCurrAddr(p) == [p EXCEPT !.dm_curr_addr = DmAddr(p) + 1,
                            !.im_curr_addr = ImAddr(p) + 1]
IncCurrAddr(p) == [p EXCEPT !.dm_curr_addr = @ + 1, !.im_curr_addr = @ + 1]

WaitInitDm(p, in) ==
    [SetCurrAddr(p) EXCEPT !.state = IF in.rd_valid THEN "INIT_DM" ELSE @]

\* Mutant of InitDm: the last line is left out.
InitDmOneShort(p, in) ==
    IF ~in.tx_done THEN IncCurrAddr(p)
    ELSE IF p.dm_count >= DmLast - 1
    THEN [IncCurrAddr(p) EXCEPT !.state = "WAIT_INIT_IM"]
    ELSE [IncCurrAddr(p) EXCEPT !.state = "WAIT_INIT_DM", !.dm_count = @ + 1]

\* Mutant of InitDm: the count of lines does not advance.
InitDmNoIncrement(p, in) ==
    IF ~in.tx_done THEN IncCurrAddr(p)
    ELSE IF p.dm_count >= DmLast
    THEN [IncCurrAddr(p) EXCEPT !.state = "WAIT_INIT_IM"]
    ELSE [IncCurrAddr(p) EXCEPT !.state = "WAIT_INIT_DM"]

InitDm(p, in) ==
    IF ~in.tx_done THEN IncCurrAddr(p)
    ELSE IF p.dm_count >= DmLast
    THEN [IncCurrAddr(p) EXCEPT !.state = "WAIT_INIT_IM"]
    ELSE [IncCurrAddr(p) EXCEPT !.state = "WAIT_INIT_DM", !.dm_count = @ + 1]

WaitInitIm(p, in) ==
    [SetCurrAddr(p) EXCEPT !.state = IF in.rd_valid THEN "INIT_IM" ELSE @]

InitIm(p, in) ==
    IF ~in.tx_done THEN IncCurrAddr(p)
    ELSE IF p.im_count >= ImLast THEN [IncCurrAddr(p) EXCEPT !.state = "RUN"]
    ELSE [IncCurrAddr(p) EXCEPT !.state = "WAIT_INIT_IM", !.im_count = @ + 1]

\* Mutant of WrtHost: the CPU does not wait for the memory controller.
WrtHostNoWait(p, in) == [p EXCEPT !.state = "RUN"]

WrtHost(p, in) == [p EXCEPT !.state = IF in.tx_done THEN "RUN" ELSE @]

NextCpu(p, st, in) ==
    CASE p.state = "CPU_IDLE" ->
             [p EXCEPT !.state = IF in.ready THEN "WAIT_INIT_DM" ELSE @]
      [] p.state = "WAIT_INIT_DM" -> WaitInitDm(p, in)
      [] p.state = "INIT_DM"      -> InitDm(p, in)
      [] p.state = "WAIT_INIT_IM" -> WaitInitIm(p, in)
      [] p.state = "INIT_IM"      -> InitIm(p, in)
      [] p.state = "RUN" ->
             [p EXCEPT !.state = IF st # NoStore THEN "WRT_HOST" ELSE @]
      [] p.state = "WRT_HOST"     -> WrtHost(p, in)
=============================================================================
