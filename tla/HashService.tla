----------------------------- MODULE HashService -----------------------------
(***************************************************************************)
(* What the accelerators promise the program: a block of memory per        *)
(* accelerator through which a header is handed in and its hash handed     *)
(* back.  Once started, a job first turns busy and then done, exactly      *)
(* once, with the hash of the header that was in the block all along.      *)
(***************************************************************************)
CONSTANTS Block,       \* the accelerators' communication blocks
          Header,      \* all headers
          HashOf(_),   \* the hash of a header
          None         \* no hash to be read

VARIABLES status, header, digest

svars == <<status, header, digest>>

ServiceInit == /\ status = [b \in Block |-> "none"]
               /\ header \in [Block -> Header]
               /\ digest = [b \in Block |-> None]

Free(b) == status[b] \in {"none", "done"}

\* The program replaces the header of a block that is not being worked on.
Replace(b) == /\ Free(b)
              /\ \E h \in Header : header' = [header EXCEPT ![b] = h]
              /\ UNCHANGED <<status, digest>>

Submit(b) == /\ Free(b)
             /\ status' = [status EXCEPT ![b] = "ready"]
             /\ digest' = [digest EXCEPT ![b] = None]
             /\ UNCHANGED header

Accept(b) == /\ status[b] = "ready"
             /\ status' = [status EXCEPT ![b] = "busy"]
             /\ UNCHANGED <<header, digest>>

Finish(b) == /\ status[b] = "busy"
             /\ status' = [status EXCEPT ![b] = "done"]
             /\ digest' = [digest EXCEPT ![b] = HashOf(header[b])]
             /\ UNCHANGED header

ServiceNext == \E b \in Block : Replace(b) \/ Submit(b) \/ Accept(b) \/ Finish(b)

\* Nothing else ever happens to a block.
SafeService == ServiceInit /\ [][ServiceNext]_svars

\* Every job that is submitted gets done.
Service == /\ SafeService
           /\ \A b \in Block : WF_svars(Accept(b)) /\ WF_svars(Finish(b))
=============================================================================
