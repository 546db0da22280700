--------------------------- MODULE ArbitrationUnit ---------------------------
(***************************************************************************)
(* The arbitration unit (syn/hw/arbitration_unit.sv): selects, in every    *)
(* clock cycle, at most one of the Clients that raise their bit of         *)
(* `requests`, round robin, and can be asked to hold the current grant.    *)
(*                                                                         *)
(* One step of the specification is one rising edge of clk.  The registers *)
(* are `last_selected' and `force_hold_in_right'; the input wires          *)
(* `requests' and `hold' keep one value per cycle; everything the          *)
(* always_comb block computes is a state function of those four.           *)
(***************************************************************************)
EXTENDS Integers, FiniteSets, FiniteSetsExt

CONSTANTS NumClients,   \* parameter NUM_CLIENTS
          CanHold       \* parameter CAN_HOLD

ASSUME ParametersAssumption == /\ NumClients \in Nat \ {0}
                               /\ CanHold \in BOOLEAN

VARIABLES last_selected,        \* register: the Client granted last
          force_hold_in_right,  \* register: ignore the left part this cycle
          requests,             \* input: the set of Clients whose bit is up
          hold                  \* input: keep the current grant

registers == <<last_selected, force_hold_in_right>>
inputs == <<requests, hold>>
vars == <<last_selected, force_hold_in_right, requests, hold>>

Clients == 0 .. NumClients - 1

-----------------------------------------------------------------------------
(* Combinational logic. *)

\* The part of the request array at or below the last grantee, and the part
\* above it, which is next in line.
Right == {c \in requests : c <= last_selected}
Left  == {c \in requests : c > last_selected}

is_right_grant_set == Right # {}

LeftIgnoresForcedHold == Left # {}        \* mutant of is_left_grant_set
is_left_grant_set  == ~force_hold_in_right /\ Left # {}

\* Mutant of grants: the left part does not override the right part.
GrantRightFirst == IF is_right_grant_set THEN {Min(Right)}
                   ELSE IF is_left_grant_set THEN {Min(Left)}
                   ELSE {}

\* The for loop stops at the lowest requesting index of each part, and a
\* grant in the left part overrides one in the right part.
grants == IF is_left_grant_set THEN {Min(Left)}
          ELSE IF is_right_grant_set THEN {Min(Right)}
          ELSE {}

\* Stays '0 when nothing is granted.
curr_selected == IF grants = {} THEN 0 ELSE CHOOSE c \in grants : TRUE

Held == CanHold /\ hold

-----------------------------------------------------------------------------
(* Registers: the two always_ff blocks. *)

ResetState == last_selected = 0 /\ force_hold_in_right = TRUE

\* !rst_n.
ResetRegisters ==
    /\ last_selected' = 0
    /\ force_hold_in_right' = TRUE

\* Mutants of ClockRegisters: the pointer that advances during a hold, and
\* the forced hold that outlives the hold.
PointerIgnoresHold ==
    /\ last_selected' = curr_selected
    /\ force_hold_in_right' =
           (Held /\ is_right_grant_set /\ ~is_left_grant_set)

ForcedHoldSticks ==
    /\ last_selected' = IF Held THEN last_selected ELSE curr_selected
    /\ force_hold_in_right' =
           (\/ Held /\ is_right_grant_set /\ ~is_left_grant_set
            \/ force_hold_in_right)

\* A rising edge with rst_n deasserted.
ClockRegisters ==
    /\ last_selected' = IF Held THEN last_selected ELSE curr_selected
    /\ force_hold_in_right' =
           (Held /\ is_right_grant_set /\ ~is_left_grant_set)

-----------------------------------------------------------------------------
(***************************************************************************)
(* The environment.  A Client keeps its request up until it has been       *)
(* granted in a cycle that is not held ("pull the bit high when they want  *)
(* to access the shared resource, and block on their corresponding         *)
(* grant"); it may keep it up longer.  `hold' is arbitrary.                *)
(***************************************************************************)
Served == IF Held THEN {} ELSE grants

Inputs == /\ requests' \in SUBSET Clients
          /\ requests \ Served \subseteq requests'
          /\ hold' \in BOOLEAN

Init == /\ ResetState
        /\ requests \in SUBSET Clients
        /\ hold \in BOOLEAN

Clock == ClockRegisters /\ Inputs

\* Reset reaches the Clients too: none of them is bound to its old request.
Reset == /\ ResetRegisters
         /\ requests' \in SUBSET Clients
         /\ hold' \in BOOLEAN

Next == Clock \/ Reset

Spec == Init /\ [][Next]_vars

-----------------------------------------------------------------------------
(* Correctness. *)

TypeOK == /\ last_selected \in Clients
          /\ force_hold_in_right \in BOOLEAN
          /\ requests \in SUBSET Clients
          /\ hold \in BOOLEAN

\* While a grant is held it moves, if at all, only down: to a Client of a
\* lower index, and only to one that began to request in the meantime.  A
\* newcomer next in line (the corner case force_hold_in_right is there for)
\* never takes a held grant away.
HeldGrantMovesOnlyDown ==
    [][ Clock /\ Held =>
          \A c \in grants : c \in requests' =>
             /\ grants' # {}
             /\ \A d \in grants' : d = c \/ (d < c /\ d \notin requests)
      ]_vars

\* Once the unit has been clocked, a cycle with requests always has a grant:
\* only in the cycle after a reset can a request be left alone.  In particular
\* a forced hold of the right part never blocks the left part with nobody
\* granted, whatever the requests did in between.
NoIdleGrant ==
    [][ Clock => (requests' # {} => grants' # {}) ]_vars
=============================================================================
