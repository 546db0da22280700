------------------------------ MODULE HostPathMC ------------------------------
(***************************************************************************)
(* The tables of addresses of HostPath for TLC: like those of the CPU,     *)
(* their last entry is below the others, lines of two words are two words  *)
(* apart, and the instruction memory starts at address 0.                  *)
(***************************************************************************)
EXTENDS HostPath

MCDM_ADDRS == <<4, 6, 0>>
MCIM_ADDRS == <<0, 2>>

MCOneLine == <<0>>
=============================================================================
