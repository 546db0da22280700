------------------------ MODULE ArbitrationUnitHistory ------------------------
(***************************************************************************)
(* The arbitration unit with a history variable that records, for every    *)
(* waiting Client, which Clients were served while it waited.  The history *)
(* variable constrains nothing: it lets the fairness of the round robin be *)
(* stated as an invariant.                                                 *)
(***************************************************************************)
EXTENDS ArbitrationUnit

VARIABLE overtakers   \* overtakers[c]: Clients served since c began to wait

hvars == <<last_selected, force_hold_in_right, requests, hold, overtakers>>

Waiting == requests \ Served

HInit == Init /\ overtakers = [c \in Clients |-> {}]

HClock == /\ Clock
          /\ overtakers' = [c \in Clients |-> IF c \in Waiting
                                              THEN overtakers[c] \cup Served
                                              ELSE {}]

HReset == Reset /\ overtakers' = [c \in Clients |-> {}]

HNext == HClock \/ HReset

HSpec == HInit /\ [][HNext]_hvars

\* The clock runs, and whatever asserts hold releases it again and again: the
\* arbiter asserts it until the memory answers.
HFairSpec == HSpec /\ WF_hvars(HClock) /\ SF_hvars(HClock /\ ~hold')

-----------------------------------------------------------------------------
\* x comes before y in the round robin: the part above last_selected first,
\* each part in ascending order.
Precedes(x, y) == \/ x > last_selected /\ y <= last_selected
                  \/ (x > last_selected <=> y > last_selected) /\ x < y

\* Round robin means that no Client is served twice while another one waits:
\* a waiting Client is served after at most NumClients - 1 transactions of
\* others, whatever holds and newcomers do to the grant in between.
NoDoubleOvertaking ==
    \A c \in Waiting : Served \cap overtakers[c] = {}

HTypeOK == TypeOK /\ overtakers \in [Clients -> SUBSET Clients]

\* Why it is so (inductive with HTypeOK and ForcedHold):
\* whoever overtook c now stands behind c.
OvertakersAreBehind ==
    \A c \in requests : \A d \in overtakers[c] : Precedes(c, d)

\* A Client the forced hold keeps waiting in the left part has not yet been
\* overtaken: it arrived during that hold.
ForcedHold ==
    force_hold_in_right =>
        /\ Right # {} \/ last_selected = 0
        /\ \A c \in Left : overtakers[c] = {}

HInv == HTypeOK /\ ForcedHold /\ OvertakersAreBehind

\* If the resets end, every request is served, even if the Client of every
\* other index keeps requesting and every transaction is held for a while.
\* Only a reset makes a Client give up.
EveryRequestServed ==
    <>[][HClock]_hvars =>
        [](\A c \in Clients : c \in requests => <>(c \in Served \/ c \notin requests))
=============================================================================
