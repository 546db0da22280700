------------------------ MODULE ArbitrationUnitProofs ------------------------
(***************************************************************************)
(* Proofs about the arbitration unit, for every number of Clients and with *)
(* or without holds.                                                       *)
(***************************************************************************)
EXTENDS ArbitrationUnitHistory, WellFoundedInduction, TLAPS

\* The least number principle for Min, which the for loop of the always_comb
\* block computes: a non-empty set of Clients has a lowest index.
LEMMA MinIsLeast ==
    ASSUME NEW S \in SUBSET Nat, S # {}
    PROVE  Min(S) \in S /\ \A y \in S : Min(S) =< y
<1>1. PICK x \in S : \A y \in S : ~ (<<y, x>> \in OpToRel(<, Nat))
  BY WFMin, NatLessThanWellFounded
<1>2. ASSUME NEW y \in S PROVE x =< y
  <2>1. ~ (<<y, x>> \in {ss \in Nat \X Nat : ss[1] < ss[2]})
    BY <1>1 DEF OpToRel
  <2>2. QED
    BY <2>1
<1>3. QED
  BY <1>2 DEF Min

\* The grant is one requesting Client, the first in round-robin order unless
\* the right part is forced.
LEMMA GrantIsFirst ==
    ASSUME TypeOK
    PROVE  /\ grants = {} \/ \E g \in requests : grants = {g}
           /\ \A g \in grants : curr_selected = g
           /\ grants = {} => curr_selected = 0
           /\ \A g \in grants : \A c \in requests \ {g} :
                 Precedes(g, c) \/ (force_hold_in_right /\ c \in Left)
           /\ grants = {} <=> (~is_left_grant_set /\ ~is_right_grant_set)
           /\ \A g \in grants : g \in Left <=> is_left_grant_set
<1> USE DEF TypeOK, Clients
<1>0. requests \in SUBSET Nat /\ Left \in SUBSET Nat /\ Right \in SUBSET Nat
  <2>1. Clients \subseteq Nat
    BY ParametersAssumption
  <2>2. QED
    BY <2>1 DEF Left, Right
<1>1. CASE is_left_grant_set
  <2>1. /\ grants = {Min(Left)}
        /\ Min(Left) \in Left
        /\ \A y \in Left : Min(Left) =< y
    BY <1>0, <1>1, MinIsLeast DEF grants, is_left_grant_set
  <2>2. curr_selected = Min(Left)
    BY <2>1 DEF curr_selected
  <2>3. QED
    BY <1>0, <1>1, <2>1, <2>2, ParametersAssumption
       DEF Left, Precedes, is_left_grant_set
<1>2. CASE ~is_left_grant_set /\ is_right_grant_set
  <2>1. /\ grants = {Min(Right)}
        /\ Min(Right) \in Right
        /\ \A y \in Right : Min(Right) =< y
    BY <1>0, <1>2, MinIsLeast DEF grants, is_right_grant_set
  <2>2. curr_selected = Min(Right)
    BY <2>1 DEF curr_selected
  <2>3. QED
    BY <1>0, <1>2, <2>1, <2>2, ParametersAssumption
       DEF Left, Right, Precedes, is_left_grant_set
<1>3. CASE ~is_left_grant_set /\ ~is_right_grant_set
  BY <1>3 DEF grants, curr_selected
<1>4. QED
  BY <1>1, <1>2, <1>3

\* The same as one state predicate, which can be primed.
FirstInLine ==
    /\ grants = {} \/ \E g \in requests : grants = {g}
    /\ \A g \in grants : \A c \in requests \ {g} :
          Precedes(g, c) \/ (force_hold_in_right /\ c \in Left)
    /\ grants = {} <=> (~is_left_grant_set /\ ~is_right_grant_set)
    /\ \A g \in grants : g \in Left <=> is_left_grant_set

\* With the types, the grant is always that one.
LEMMA GrantIsFirstInLine == TypeOK => FirstInLine
BY GrantIsFirst DEF FirstInLine

-----------------------------------------------------------------------------
(* The inductive invariant. *)

\* Nobody has been overtaken yet.
LEMMA InitInv == HInit => HInv
<1> SUFFICES ASSUME HInit PROVE HInv
  OBVIOUS
<1>1. 0 \in Clients
  BY ParametersAssumption DEF Clients
<1>2. HTypeOK
  BY <1>1 DEF HInit, Init, ResetState, HTypeOK, TypeOK
<1>3. \A c \in Clients : overtakers[c] = {}
  BY DEF HInit
<1>4. ForcedHold /\ OvertakersAreBehind
  BY <1>2, <1>3 DEF HInit, Init, ResetState, ForcedHold, Left,
     OvertakersAreBehind, HTypeOK, TypeOK
<1>5. QED
  BY <1>2, <1>4 DEF HInv

\* A reset forgets who was overtaken.
LEMMA ResetInv == HInv /\ HReset => HInv'
<1> SUFFICES ASSUME HInv, HReset PROVE HInv'
  OBVIOUS
<1>1. 0 \in Clients
  BY ParametersAssumption DEF Clients
<1>2. HTypeOK'
  BY <1>1 DEF HReset, Reset, ResetRegisters, HTypeOK, TypeOK, Clients
<1>3. \A c \in Clients : overtakers'[c] = {}
  BY DEF HReset
<1>4. ForcedHold' /\ OvertakersAreBehind'
  BY <1>2, <1>3 DEF HReset, Reset, ResetRegisters, ForcedHold, Left,
     OvertakersAreBehind, HTypeOK, TypeOK
<1>5. QED
  BY <1>2, <1>4 DEF HInv

\* An edge with any requests: the grant moves to the first in line, or is held.
LEMMA ClockInv == HInv /\ HClock => HInv'
<1> SUFFICES ASSUME HInv, HClock PROVE HInv'
  OBVIOUS
<1> USE DEF HInv
<1>0. TypeOK /\ Clock
  BY DEF HTypeOK, HClock
<1>1. /\ last_selected' = IF Held THEN last_selected ELSE curr_selected
      /\ force_hold_in_right' =
             (Held /\ is_right_grant_set /\ ~is_left_grant_set)
      /\ requests \ Served \subseteq requests'
      /\ requests' \in SUBSET Clients
  BY <1>0 DEF Clock, ClockRegisters, Inputs
<1>2. \A c \in Clients : overtakers'[c] = IF c \in Waiting
                                          THEN overtakers[c] \cup Served
                                          ELSE {}
  BY DEF HClock
<1>3. curr_selected \in Clients
  BY <1>0, GrantIsFirst, ParametersAssumption DEF TypeOK, Clients
<1>4. HTypeOK'
  <2>1. Served \in SUBSET Clients
    BY <1>0, GrantIsFirst DEF Served, TypeOK
  <2>2. last_selected' \in Clients
    BY <1>0, <1>1, <1>3 DEF TypeOK
  <2>3. force_hold_in_right' \in BOOLEAN
    BY <1>1
  <2>4. hold' \in BOOLEAN
    BY <1>0 DEF Clock, Inputs
  <2>5. overtakers' \in [Clients -> SUBSET Clients]
    BY <2>1 DEF HClock, HTypeOK
  <2>6. QED
    BY <1>1, <2>2, <2>3, <2>4, <2>5 DEF HTypeOK, TypeOK
<1>5. ForcedHold'
  <2> SUFFICES ASSUME force_hold_in_right'
               PROVE  /\ (Right # {})' \/ last_selected' = 0
                      /\ \A c \in Left' : overtakers'[c] = {}
    BY DEF ForcedHold
  <2>1. Held /\ is_right_grant_set /\ ~is_left_grant_set
    BY <1>1
  <2>2. Served = {} /\ last_selected' = last_selected /\ requests \subseteq requests'
    BY <1>1, <2>1 DEF Served
  <2>3. (Right # {})'
    BY <2>1, <2>2 DEF Right, is_right_grant_set
  <2>4. ASSUME NEW c \in Left' PROVE overtakers'[c] = {}
    <3>1. c \in Clients /\ c > last_selected
      BY <1>1, <2>2 DEF Left
    <3>2. CASE c \in requests
      <4>1. c \in Left
        BY <3>1, <3>2 DEF Left
      <4>2. force_hold_in_right
        BY <2>1, <4>1 DEF is_left_grant_set
      <4>3. overtakers[c] = {}
        BY <4>1, <4>2 DEF ForcedHold
      <4>4. QED
        BY <1>2, <2>2, <3>1, <4>3
    <3>3. CASE c \notin requests
      BY <1>2, <3>1, <3>3 DEF Waiting
    <3>4. QED
      BY <3>2, <3>3
  <2>5. QED
    BY <2>3, <2>4
<1>6. OvertakersAreBehind'
  <2> SUFFICES ASSUME NEW c \in requests', NEW d \in overtakers'[c]
               PROVE  Precedes(c, d)'
    BY DEF OvertakersAreBehind
  <2>1. c \in Clients /\ c \in Waiting /\ d \in overtakers[c] \cup Served
    BY <1>1, <1>2
  <2>2. c \in requests /\ c \notin Served
    BY <2>1 DEF Waiting
  <2>3. d \in Clients /\ last_selected \in Clients
    BY <1>0, <2>1, GrantIsFirst DEF HTypeOK, TypeOK, Served
  <2>4. d \in overtakers[c] => Precedes(c, d)
    BY <2>2 DEF OvertakersAreBehind
  <2>5. CASE Held
    BY <1>1, <2>1, <2>4, <2>5 DEF Served, Precedes
  <2>6. CASE ~Held /\ grants = {}
    <3>1. force_hold_in_right /\ Right = {}
      BY <1>0, <2>2, <2>3, <2>6, GrantIsFirst
         DEF is_left_grant_set, is_right_grant_set, Left, Right, TypeOK, Clients
    <3>2. last_selected = 0 /\ last_selected' = 0
      BY <1>0, <1>1, <2>6, <3>1, GrantIsFirst DEF ForcedHold
    <3>3. QED
      BY <2>1, <2>4, <2>6, <3>2 DEF Served, Precedes
  <2>7. CASE ~Held /\ grants # {}
    <3>1. PICK g \in requests : grants = {g}
      BY <1>0, <2>7, GrantIsFirst
    <3>2. Served = {g} /\ last_selected' = g /\ c # g /\ g \in Clients
      BY <1>0, <1>1, <2>2, <2>7, <3>1, GrantIsFirst DEF Served, TypeOK
    <3>3. Precedes(g, c) \/ (force_hold_in_right /\ c \in Left)
      BY <1>0, <2>2, <3>1, <3>2, GrantIsFirst
    <3>4. CASE d = g
      BY <2>1, <2>3, <3>2, <3>4 DEF Precedes, Clients
    <3>5. CASE d \in overtakers[c]
      <4>1. Precedes(c, d)
        BY <2>4, <3>5
      <4>2. Precedes(g, c)
        BY <2>2, <3>3, <3>5 DEF ForcedHold
      <4>3. QED
        BY <2>1, <2>3, <3>2, <4>1, <4>2, ParametersAssumption DEF Precedes, Clients
    <3>6. QED
      BY <2>1, <3>2, <3>4, <3>5
  <2>8. QED
    BY <2>5, <2>6, <2>7
<1>7. QED
  BY <1>4, <1>5, <1>6

\* Type correctness and the two strengthenings hold in every reachable state.
THEOREM Invariant == HSpec => []HInv
<1>1. HInv /\ [HNext]_hvars => HInv'
  <2> SUFFICES ASSUME HInv, [HNext]_hvars PROVE HInv'
    OBVIOUS
  <2>1. CASE HClock
    BY <2>1, ClockInv
  <2>2. CASE HReset
    BY <2>2, ResetInv
  <2>3. CASE UNCHANGED hvars
    BY <2>3 DEF hvars, HInv, HTypeOK, TypeOK, ForcedHold, OvertakersAreBehind,
       Left, Right, Precedes
  <2>4. QED
    BY <2>1, <2>2, <2>3 DEF HNext
<1>2. QED
  BY InitInv, <1>1, PTL DEF HSpec

\* The registers and the wires keep their types: in particular last_selected
\* always names a Client, although its register could encode other indices
\* when NUM_CLIENTS is not a power of two.
THEOREM TypeCorrect == HSpec => []HTypeOK
BY Invariant, PTL DEF HInv

-----------------------------------------------------------------------------
\* Round robin is fair for every number of Clients, with or without holds: no
\* Client is served twice while another one waits.
THEOREM RoundRobinIsFair == HSpec => []NoDoubleOvertaking
<1>1. HInv => NoDoubleOvertaking
  <2> SUFFICES ASSUME HInv, NEW c \in Waiting, NEW d \in Served,
                      d \in overtakers[c]
               PROVE  FALSE
    BY DEF NoDoubleOvertaking
  <2>1. TypeOK /\ c \in requests /\ c \notin Served
    BY DEF HInv, HTypeOK, Waiting
  <2>2. grants = {d} /\ d \in requests /\ c # d
    BY <2>1, GrantIsFirst DEF Served
  <2>3. Precedes(d, c) \/ (force_hold_in_right /\ c \in Left)
    BY <2>1, <2>2, GrantIsFirst
  <2>4. Precedes(c, d)
    BY <2>1 DEF HInv, OvertakersAreBehind
  <2>5. ~ (force_hold_in_right /\ c \in Left)
    BY DEF HInv, ForcedHold
  <2>6. c \in Clients /\ d \in Clients /\ last_selected \in Clients
    BY <2>1, <2>2 DEF TypeOK
  <2>7. QED
    BY <2>3, <2>4, <2>5, <2>6, ParametersAssumption DEF Precedes, Clients
<1>2. QED
  BY Invariant, <1>1, PTL

\* A request goes without a grant in the cycle after a reset only.
THEOREM RequestsAreGranted == HSpec => NoIdleGrant
<1>1. HInv /\ HInv' /\ Clock => (requests' # {} => grants' # {})
  <2> SUFFICES ASSUME HInv, HInv', Clock, NEW c \in requests'
               PROVE  grants' # {}
    OBVIOUS
  <2>1. TypeOK /\ TypeOK'
    BY DEF HInv, HTypeOK
  <2>2. c \in Left' \/ c \in Right'
    <3>1. c \in Clients /\ last_selected' \in Clients
      BY <2>1 DEF TypeOK
    <3>2. c > last_selected' \/ c <= last_selected'
      BY <3>1, ParametersAssumption DEF Clients
    <3>3. QED
      BY <3>2 DEF Left, Right
  <2>3. force_hold_in_right' => Right' # {}
    <3> SUFFICES ASSUME force_hold_in_right' PROVE Right' # {}
      OBVIOUS
    <3>1. Held /\ is_right_grant_set
      BY DEF Clock, ClockRegisters
    <3>2. last_selected' = last_selected /\ requests \subseteq requests'
      BY <3>1 DEF Clock, ClockRegisters, Inputs, Served
    <3>3. QED
      BY <3>1, <3>2 DEF is_right_grant_set, Right
  <2>4. is_left_grant_set' \/ is_right_grant_set'
    BY <2>2, <2>3 DEF is_left_grant_set, is_right_grant_set
  <2>5. FirstInLine'
    BY <2>1, GrantIsFirstInLine, PTL
  <2>6. QED
    BY <2>4, <2>5 DEF FirstInLine
<1>2. HInv /\ HInv' /\ [HNext]_hvars =>
         [Clock => (requests' # {} => grants' # {})]_vars
  BY <1>1 DEF HNext, HClock, HReset, hvars, vars
<1>3. QED
  BY Invariant, <1>2, PTL DEF HSpec, NoIdleGrant

\* A held grant only ever moves down, to a newcomer; it never disappears.
THEOREM HeldGrantOnlyMovesDown == HSpec => HeldGrantMovesOnlyDown
<1> DEFINE Moves == \A c \in grants : c \in requests' =>
                       /\ grants' # {}
                       /\ \A d \in grants' : d = c \/ (d < c /\ d \notin requests)
<1>1. HInv /\ HInv' /\ Clock /\ Held => Moves
  <2> SUFFICES ASSUME HInv, HInv', Clock, Held, NEW c \in grants, c \in requests'
               PROVE  /\ grants' # {}
                      /\ \A d \in grants' : d = c \/ (d < c /\ d \notin requests)
    OBVIOUS
  <2>1. TypeOK /\ TypeOK'
    BY DEF HInv, HTypeOK
  <2>2. /\ last_selected' = last_selected
        /\ force_hold_in_right' = (is_right_grant_set /\ ~is_left_grant_set)
        /\ requests \subseteq requests'
    BY DEF Clock, ClockRegisters, Inputs, Served
  <2>3. grants = {c} /\ c \in requests
    BY <2>1, GrantIsFirst
  <2>side. c \in Left <=> is_left_grant_set
    BY <2>1, GrantIsFirst
  <2>4. /\ c \in Clients /\ last_selected \in Clients
        /\ \A d \in requests' : d \in Clients
    BY <2>1, <2>3 DEF TypeOK
  <2>5. \A x \in requests \ {c} :
           Precedes(c, x) \/ (force_hold_in_right /\ x \in Left)
    BY <2>1, <2>3, GrantIsFirst
  <2>6. FirstInLine'
    BY <2>1, GrantIsFirstInLine, PTL
  <2>7. grants' # {}
    <3>1. CASE c > last_selected
      <4>1. c \in Left' /\ ~ force_hold_in_right'
        BY <2>2, <2>3, <2>side, <3>1 DEF Left
      <4>2. QED
        BY <2>6, <4>1 DEF FirstInLine, is_left_grant_set
    <3>2. CASE c <= last_selected
      <4>1. c \in Right'
        BY <2>2, <3>2 DEF Right
      <4>2. QED
        BY <2>6, <4>1 DEF FirstInLine, is_right_grant_set
    <3>3. QED
      BY <2>4, <3>1, <3>2, ParametersAssumption DEF Clients
  <2>8. ASSUME NEW d \in grants', d # c PROVE d < c /\ d \notin requests
    <3>1. d \in requests' /\ d \in Clients
      BY <2>4, <2>6 DEF FirstInLine
    <3>2. Precedes(d, c)' \/ (force_hold_in_right' /\ c \in Left')
      BY <2>6, <2>8 DEF FirstInLine
    <3>3. Precedes(d, c)
      BY <2>2, <2>3, <2>side, <3>2 DEF Precedes, Left
    <3>4. d > last_selected => ~force_hold_in_right'
      BY <2>2, <2>6, <3>1 DEF FirstInLine, is_left_grant_set, Left
    <3>5. d > last_selected => is_left_grant_set
      <4>1. is_left_grant_set \/ is_right_grant_set
        BY <2>1, <2>3, GrantIsFirst
      <4>2. QED
        BY <2>2, <3>4, <4>1
    <3>6. d < c
      BY <2>3, <2>side, <2>4, <3>1, <3>3, <3>5, ParametersAssumption
         DEF Precedes, Left, Clients
    <3>7. d \notin requests
      <4>1. SUFFICES ASSUME d \in requests PROVE FALSE
        OBVIOUS
      <4>2. Precedes(c, d) \/ (force_hold_in_right /\ d > last_selected)
        BY <2>5, <2>8, <4>1 DEF Left
      <4>3. ~ Precedes(c, d)
        BY <2>4, <3>1, <3>3, ParametersAssumption DEF Precedes, Clients
      <4>4. QED
        BY <3>5, <4>2, <4>3 DEF is_left_grant_set
    <3>8. QED
      BY <3>6, <3>7
  <2>9. QED
    BY <2>7, <2>8
<1>2. HInv /\ HInv' /\ [HNext]_hvars => [Clock /\ Held => Moves]_vars
  BY <1>1 DEF HNext, HClock, HReset, hvars, vars
<1>3. QED
  BY Invariant, <1>2, PTL DEF HSpec, HeldGrantMovesOnlyDown
=============================================================================
