------------------------------- MODULE DataMem -------------------------------
(***************************************************************************)
(* The CPU's data memory and its port (syn/hw/cpu_datamem.sv,              *)
(* cpu_datamem_mem.sv).  There is one port: the host has priority, then    *)
(* the CPU, then the accelerators.  A read returns, after the edge, what   *)
(* the memory held at the selected address before the edge; done and valid *)
(* are registered and answer the accelerators one cycle later.             *)
(***************************************************************************)
CONSTANT NoOp   \* an idle port

VARIABLES data_mem,        \* the memory, a function of the modelled addresses
          rd_data,         \* register: what the last cycle's address held
          accel_wrt_done,  \* register: last cycle wrote for the accelerators
          accel_rd_valid,  \* register: last cycle read for the accelerators
          cpu,             \* input: the CPU's (or the host's) operation
          accel_wrt,       \* input: NoOp or the accelerators' write
          accel_rd         \* input: NoOp or the accelerators' read

\* An operation is NoOp or a record with the fields write, addr and data.
cpu_priority == cpu # NoOp

\* The accelerators present one address: that of the write, if there is one
\* (ac_accel_addr in miner.sv).
accel_op == IF accel_wrt # NoOp THEN accel_wrt ELSE accel_rd

\* The operation the port performs in this cycle.
port == IF cpu_priority THEN cpu ELSE accel_op

\* Mutant of ClockDataMem: done is raised whenever a write is requested.
DoneIgnoresPriority ==
    /\ data_mem' = IF port # NoOp /\ port.write
                   THEN [data_mem EXCEPT ![port.addr] = port.data]
                   ELSE data_mem
    /\ rd_data' = IF port # NoOp THEN data_mem[port.addr] ELSE rd_data
    /\ accel_wrt_done' = (accel_wrt # NoOp)
    /\ accel_rd_valid' = (~cpu_priority /\ accel_rd # NoOp)

\* A rising edge.  An idle port reads address 0, which no one looks at: its
\* value is left as it was.
ClockDataMem ==
    /\ data_mem' = IF port # NoOp /\ port.write
                   THEN [data_mem EXCEPT ![port.addr] = port.data]
                   ELSE data_mem
    /\ rd_data' = IF port # NoOp THEN data_mem[port.addr] ELSE rd_data
    /\ accel_wrt_done' = (~cpu_priority /\ accel_wrt # NoOp)
    /\ accel_rd_valid' = (~cpu_priority /\ accel_rd # NoOp)
=============================================================================
