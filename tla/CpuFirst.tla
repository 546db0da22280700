------------------------------- MODULE CpuFirst -------------------------------
(***************************************************************************)
(* Which instruction a program begins with.                                *)
(***************************************************************************)
EXTENDS CpuMC

VARIABLE begun  \* history: an instruction has been in EX

FInit == Init /\ begun = FALSE
FNext == Next /\ begun' = (begun \/ idex.pc # None)
FSpec == FInit /\ [][FNext]_<<vars, begun>>

\* A program begins with the instruction at address 0: "Initialized by loader on
\* reset, first instruction at 0x0000" (cpu_instrmem.sv:11).
FirstInstruction == ~begun /\ idex.pc # None => idex.pc = 0
=============================================================================
