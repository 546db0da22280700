------------------------------- MODULE UnitsMC -------------------------------
(***************************************************************************)
(* Three units of the hardware, each on its own and against surroundings   *)
(* that do whatever the ports let them: the arbitration unit, one          *)
(* accelerator, and the DMA engine.  A behaviour is one of one unit, which *)
(* is chosen at the start; the other two stay as they are after the reset. *)
(***************************************************************************)
EXTENDS ArbitrationUnitHistory, AccelHash, DmaUser

VARIABLE unit   \* the unit that runs

uvars == <<unit, hvars, avars, dvars>>

\* The units that do not run: nothing is asked of them.
ArbiterRests == HInit /\ requests = {} /\ ~hold
AccelRests == /\ AInit
              /\ ~mem_listen_start /\ ~mem_acc_read_data_valid /\ ~mem_acc_write_done
              /\ mem_acc_read_data = CHOOSE line \in MemoryLines : TRUE
DmaRests == /\ dma = IdleDma
            /\ fifo = EmptyFifo([a \in Addr |-> 0], 0)
            /\ reads = <<>> /\ writes = <<>> /\ next_line = 0

UInit == \/ unit = "arbiter" /\ HInit /\ AccelRests /\ DmaRests
         \/ unit = "accel" /\ ArbiterRests /\ AInit /\ DmaRests
         \/ unit = "dma" /\ ArbiterRests /\ AccelRests /\ DInit

UNext == \/ unit = "arbiter" /\ HNext /\ UNCHANGED <<unit, avars, dvars>>
         \/ unit = "accel" /\ ANext /\ UNCHANGED <<unit, hvars, dvars>>
         \/ unit = "dma" /\ DNext /\ UNCHANGED <<unit, hvars, avars>>

\* The fairness of HFairSpec and of DFairSpec, for the unit that runs.
USpec == /\ UInit /\ [][UNext]_uvars
         /\ WF_hvars(unit = "arbiter" /\ HClock)
         /\ SF_hvars(unit = "arbiter" /\ HClock /\ ~hold')
         /\ WF_dvars(unit = "dma" /\ AnyClock)
         /\ WF_dvars(unit = "dma" /\ AskingClock)
         /\ WF_dvars(unit = "dma" /\ AnsweringClock)
         /\ WF_dvars(unit = "dma" /\ TakingClock)
=============================================================================
