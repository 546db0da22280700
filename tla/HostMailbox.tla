----------------------------- MODULE HostMailbox -----------------------------
(***************************************************************************)
(* What the path to the host promises a program: its stores reach the      *)
(* host's memory one after the other, none is lost, and each changes the   *)
(* line it names and no other.                                             *)
(***************************************************************************)
CONSTANTS None, Stores, Line(_), LineOf(_)

VARIABLES request,     \* the store the program is doing, or None
          outstanding, \* the store on its way to the memory, or None
          memory

vars == <<request, outstanding, memory>>

\* The program may begin a store when none is on its way any more.
MayRequest == \/ request' = None
              \/ outstanding' = None /\ request' \in Stores

Idle == /\ request = None
        /\ UNCHANGED <<outstanding, memory>>
        /\ MayRequest

Accept == /\ request # None
          /\ outstanding = None
          /\ outstanding' = request
          /\ UNCHANGED memory
          /\ MayRequest

Deliver == /\ outstanding # None
           /\ outstanding' = None
           /\ memory' = [memory EXCEPT ![LineOf(outstanding)] = Line(outstanding)]
           /\ UNCHANGED request \/ (request = None /\ MayRequest)

\* A reset gives up what is under way.
Reset == /\ request' = None
         /\ outstanding' = None
         /\ UNCHANGED memory

Init == request = None /\ outstanding = None

Next == Idle \/ Accept \/ Deliver \/ Reset

Spec == Init /\ [][Next]_vars
=============================================================================
