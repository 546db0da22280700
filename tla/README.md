# Verification of the Bitcoin accelerator

This directory holds TLA+ models of the hardware under `src/syn/hw`, of the
program that runs on it, and of the two tools of the host under `src/src`, the
assembler and the loader; the TLC configurations that check them; and proofs
checked by TLAPS. It covers the paths on which the system's results depend: from
the source of a program to the bytes in memory, through the pipeline that executes
it, from the program through the accelerators to a hash, and from the host through
the DMA engine to the program and back. Paths below are relative to the repository; `hw/` stands for
`src/syn/hw/`, and names like `mmem.cpp` are under `src/src`.

`PROJECT.json` lists the runs, the mutant that shows each property can fail,
the source lines of every definition, the hazards and the theorems.

## 1. The system

A host program (the *loader*, `src/src/shell_cload.cpp`) allocates a buffer
shared with an FPGA, puts the image of the CPU's memories into it, writes the
buffer's address to a register of the FPGA and raises `go`. On the FPGA a small
CPU copies the image into its memories and runs the *mining program*
(`src/src/asmCode.asm`). The program writes a nonce into each of eight block
headers, starts eight accelerators, polls them, compares hashes, and reports by
storing lines to the host's buffer, the last of which is a flag the loader
waits for.

```
 loader --- MMIO ---+                         +-- accelerator 0 --+
   |                |                         |        ...        |-- arbiter --+
 buffer == CCI-P == DMA engine -- memory -- CPU                   |             |
  (host)            + FIFO        controller  |-- accelerator 7 --+             |
                                              +------- data memory -------------+
```

### Components, their state and operations

| component | source | state | operations |
|---|---|---|---|
| arbitration unit | `hw/arbitration_unit.sv` | the last grantee, a flag that masks the part of the requests above it | combinational grant; pointer and flag at each edge; hold; reset |
| arbiter | `hw/arbiter.sv` | two arbitration units | selects the lines of the grantees, distributes `read_valid` and `write_done` |
| accelerator | `hw/acc_control_unit.sv`, `hw/accel.sv`, `hw/accel_compressor_op.sv`, `hw/acc_message_scheduler_op.sv` | a state machine, stage and cycle counters, message buffer, hash registers | is started by a store to its status word; reads its header in two halves; hashes in three stages; writes eight words and the status |
| data memory | `hw/cpu_datamem.sv`, `hw/cpu_datamem_mem.sv` | 64 KB, an output register, two answer flags | one port: loader, then CPU, then accelerators |
| mining program | `src/src/asmCode.asm` | registers, nonce | polls, compares, restarts, reports |
| CPU host state machine | `hw/cpu.sv` 216-401 | state, counters of lines, current addresses | loads both memories line by line; sends a store to the host |
| CPU pipeline | `hw/cpu.sv`, `hw/cpu_*.sv` | pc, registers, flags, four pipeline registers, the outputs of two memories | five stages, stalled by registers, jumps and stores to the host |
| memory controller | `hw/mem_ctrl.sv` | state, fill counter, line buffer, bubble | one line per READ or WRITE |
| FIFO | `hw/fifo.sv` | block RAM, pointers, counters, flags | read, write, both; reset |
| DMA engine | `hw/cci_dma.sv` | counters of lines to ask for, pending, to hand over, to write; request registers | go, request, response, write; reset |
| AFU, miner, MMIO registers, platform shell | `hw/afu.sv`, `hw/miner.sv`, `hw/memory_map.sv`, `hw/hal.sv`, `hw/ccip_std_afu.sv`, `hw/csr_mgr.sv` | base address, size, go | wiring; MMIO writes |
| loader (`cload`) | `cload_entry.cpp`, `shell_cload.cpp`, `runtime_call.cpp`, `mmem.cpp`, `range.cpp` | the buffer shared with the AFU and its size, the mode, the script | start, script, prompt; directives `.sr .run .wait .rst .resize .mem .exit`; end of the process |
| FPGA driver wrapper | `AFU.cpp` | the handle; the AFU's registers for address, size and go | write, reset, malloc, alloc, free |
| assembler (`class`) | `shell.cpp`, `mips.cpp`, `syms_table.cpp`, `program.cpp`, `mtsstream.cpp`, `env.cpp` | options, lines kept, symbol table, program, file | two passes over a text, output as bin, hex or mif |

The copies under `src/rtl`, `src/arbiter`, `src/accelerator` and
`src/contrib/dma_loopback` are earlier versions of files under `hw/`.

### What is hard here

All hardware runs on one clock: there are no races between processes. The hard
behaviours are those of *registers that answer late* and of *independent state
machines that meet in every possible alignment*:

- the data memory answers an accelerator one cycle after the access, when the
  grant may have moved on;
- the CPU takes the memory port whenever it likes;
- a grant that must last for several cycles meets newcomers, and a round robin
  that wraps around;
- reads of the host are in flight, in a register, and in a FIFO at once, and
  together may not exceed the FIFO;
- a store to the host meets the write before it at any distance;
- the pipeline has no forwarding: an instruction waits until no stage holds what it
  reads, and is fetched before the jump in front of it is resolved;
- a store to the host stops the stages of the pipeline, but not the outputs of the
  register file and of the memory;
- a flag is only worth anything if it arrives after what it stands for;
- resets happen in the middle of all this.

The tools of the host are sequential programs with an environment that is not:

- the AFU writes to the loader's buffer at any time, also while the loader moves
  it, and must never be left with the address of a buffer that is gone;
- every call of the driver and every allocation may fail, between any two steps
  of a sequence that changes the registers, and what unwinds then calls the
  driver again;
- SIGINT comes at any time, also in the middle of a `.wait`;
- the assembler's two passes count addresses in different ways, over characters
  that are cut into lines, words and numbers with many special cases.

What makes each component correct:

- arbitration: fair, never idle, a held grant keeps to its rules;
- accelerator: writes the double hash of the header it read, done comes last;
- block: every job ends, with the right hash, for a program that keeps to its
  side;
- FIFO: is a queue; DMA engine: hands over exactly the lines asked for, in
  order, and says *done* only when it is;
- host path: loads everything before running; a store reaches its line;
- pipeline: nobody can tell it from a machine that completes an instruction before it
  starts the next one, and it never stops;
- assembler: the passes agree, each instruction is the one its line means, the
  file is the program;
- loader: the AFU knows only of memory that is there, each directive does what it
  says although the AFU interferes, and every run ends without leaving anything
  behind.

The hazards are listed line by line in `PROJECT.json`.

## 2. Modelling conventions

**One step is one rising edge.** Registers are variables, or one record per
component where a composition needs several of them (`Accel`, `CciDma`, `Fifo`,
`MemCtrl`, `CpuHost`); wires and `always_comb` blocks are state functions;
`always_ff` blocks are the primed part. Components composed on one clock step
together. Names are those of the source.

**Data is symbolic.** A hash register holds the sequence of messages that went
into it (`Digest`), so equal means *the same messages in the same order*. A
line of the host is its number; a word is a pair of line and index. Memories
contain only the addresses that are used. `TrackData = FALSE` collapses the
accelerators' data to one value for the runs that ask about control only.
In the pipeline a word is a number of `Width` bits, which wraps and has a sign.
In the assembler, whose data is text, a character is a string of length one, and
a name that is never looked into stands for one character; in the loader, lines
are cut into words already, as the assembler's model covers the cutting.

**Tools step by call.** The loader takes a step for each call of the driver and
each byte it moves, because the AFU and the user act between them; the assembler
takes a step a line.  An exception is thrown by name (`Exceptions`) and ends up
where the code catches it; one that nobody catches ends the process
(`terminated`).

**Mutants.** Definitions marked *Mutant of X* are plausible mistakes; replacing
X by one of them must break the property `PROJECT.json` pairs it with. They are
not used by any specification.

## 3. Modules

### From the program to a hash

- **ArbitrationUnit** - `hw/arbitration_unit.sv`. `Right` and `Left` are the
  two halves of the `always_comb` block, `ClockRegisters` the two `always_ff`
  blocks. `Inputs` is what a Client promises: it keeps its request until it is
  granted in a cycle that is not held.
- **ArbitrationUnitHistory** adds `overtakers`, the Clients served while one
  waits, so that fairness is an invariant.
- **Accel** - the accelerator: `Idle` ... `WriteH` are the states of the control
  unit, one operator each (the eight states WRITE_H0 to WRITE_H7 are one state
  and a counter), `message` is the multiplexer of `accel.sv`.
- **AccelHash** - one accelerator with arbitrary neighbours and resets, and
  history variables for what it latched and had acknowledged.
- **UnitsMC** - the arbitration unit, one accelerator or the DMA engine (below), each
  on its own. Which one it is (`unit`) is chosen at the start; the other two stay as a
  reset leaves them, so that a behaviour is one of one unit.
- **DataMem** - the port of the data memory.
- **Accelerators** - the composition, as `accelerators.sv`, `arbiter.sv` and
  `miner.sv` connect it, with the program reduced to its memory operations:
  `Poll`, `Load`, `Renew` (a nonce), `Start`, `Compute` (no access). Their order
  is open, except that the program touches a job only when it believes it ended
  (`cpu_status`, what its last load of the status returned).
- **HashService** - the abstract promise: submit, accept, finish with the hash
  of the header, once.

### From the host to the program and back

- **Fifo** - `hw/fifo.sv` as operators over a record; **FifoQueue** is a FIFO on
  its own, **BoundedQueue** the abstract queue: that the one implements the other is
  proved, and `units` checks the FIFO inside of the engine.
- **CciDma** - `hw/cci_dma.sv` as operators over a record. Where the code
  assigns a register twice in an edge the later assignment wins; the one
  register with blocking assignments (`cci_rd_pending_r`) accumulates.
- **DmaUser** - the engine between an arbitrary peripheral and an arbitrary
  host. The host answers reads in order (`hw/cci_mpf_app_conf.vh` asks the
  platform to sort them) and carries out writes in any order. A reset drains
  the channels, as the platform's port reset does.
- **MemCtrl** - `hw/mem_ctrl.sv`; **CpuHost** - `hw/cpu.sv` 216-401.
- **HostPath** - both with the engine, as `afu.sv` and `miner.sv` connect them,
  CCI-P and the host's memory. Of the pipeline it keeps what the path sees: the
  store to the host in EX, or none (`ex`), held while `host_stall` is up. `Reset`
  is `Shell_Cload::AFU_Reset`, which writes size and base address back.
  **HostPathMC** gives the address tables.
  The layout of the image (`LayoutAssumption`) is that of the code: entries of a
  table are a line apart, and the image and the program's lines are in the buffer.
- **HostMailbox** - the abstract promise: stores arrive one after the other,
  none lost, each at its line.

### The pipeline

- **CpuPipeline** - a rising edge of the five stages (`Clock`): `Fetch`,
  `RegisterFile`, `Advance` (the pipeline registers), `Flags`, `DataMemory`; `Out` is
  the ALU, `rw_stall`, `jb_stall` and `host_stall` are the three reasons to wait. The
  end of a store (`tx_done`) comes at any time, and an accelerator may read wherever
  the port is free. Instructions carry the source's opcodes, whose bits it decodes.
  `UnwatchedIsOld`, `NothingIsRead` and `NothingIsLoaded` are what a program has to
  take care of because of the hardware, and `ZeroStaysZero` because of what
  `hw/cpu_rf.sv:22` promises of register 0; `careless` remembers that it did not. Behaviours
  begin where those of HostPath enter RUN.
- **Isa** - the abstract promise: the instructions of `mips.h`, each complete before
  the next one starts, the first one the one at 0 (`hw/cpu_instrmem.sv:11`); register 0
  is zero whatever is written to it. The refinement mapping is in CpuPipeline: the
  instruction to execute next is the oldest one fetched that has not left EX
  (`NextToExecute`), a register is worth what is on its way to it (`NewestReg`).
- **CpuMC** - the programs. **CpuFirst** adds the history of whether an instruction
  has been executed.

### From the source of a program to the memory

- **Text** - `chop_string`, `trim_label` (`shell.cpp`) and `ustrop`: characters to
  words and numbers. **Mips** - `mips.cpp`, `mips.h`: the words of a line to the
  four bytes of an instruction. **AsmOut** - `mtsstream.cpp`: the program as bin,
  hex or mif. **ToolEnv** - `env.cpp`: the options of both tools. **Exceptions** -
  `mt_exception.h`.
- **Assembler** - `Shell::Run`: options, first pass, symbols, second pass, output;
  `fgets` with its buffer (`MaxLine`), the line that loses its last character, the
  program that is too large (`MaxProgram`). **AssemblerMC** renders source files
  from records of what somebody wrote (label, instruction, way of typing), so that
  the file produced can be held against what was meant rather than against the
  assembler's own functions.
- **Loader** - `main`, `Shell_Cload::Run` and `AFU_Reset`, the directives, `mmem` and
  the driver wrapper. `Dealloc`, `Free`, `Alloc`, `WriteBase`, `WriteSize` and
  `SetSize` are the steps of `mmem`'s `alloc`, `dealloc` and `resize`, `context` is
  who called them (the start, `.resize`, its recovery, the destructor); a failure
  in any of them goes where the code goes. `AfuWrite` and `break_machine` are the
  AFU and SIGINT. **LoaderMC** has every directive with words it takes and words
  it refuses, and four scripts.

CCI-P, the platform's memory and the MMIO driver are outside the repository's
code; they appear as channels and inputs that may do anything their use in the
code allows.

### Proofs

**ArbitrationUnitProofs**, **AccelProofs**, **AcceleratorsProofs** (the block for any
program, then for a careful one), **DmaProofs** (the FIFO, then the engine
that contains it), **HostPathProofs**, **CpuProofs**, **AssemblerProofs** and
**LoaderProofs**. Each begins with its inductive invariant; one lemma per component
or operation says what a step does, one per part of the invariant that the step
keeps it, and the theorems come last.

## 4. Runs

| run | question | instance |
|---|---|---|
| `units` | *arbitration unit*: fairness, idle cycles, held grants, and that every request is served, under arbitrary holds and resets | 4 Clients |
| | *accelerator*: hashes and their acknowledgement | 2 cycles, 3 words, 3 lines |
| | *DMA engine*: what is handed over, `wr_done`, and that transfers end | depth 2, 2 lines, reads of 3 lines and writes of 2 at the same time |
| `acc_any` | the memory path keeps its protocol whatever the program does, and every job ends | 2 accelerators, 2 words, data collapsed |
| `acc_careful` | the block implements HashService | 2 accelerators, 1 word, 2 headers |
| `host` | loading, what is sent, that both end; for a program that waits, the path is a mailbox (`careful` is chosen at the start) | 3 + 2 lines of 2 words, 3 stores |
| `cpu` | the pipeline keeps the program's order, executes instructions as Isa does for a program that keeps the rules, and never stops | all programs of 4 instructions out of 10, and every instruction on all operands with every jump; 2-bit words, 3 registers |
| `class` | the passes agree, the file is what was meant, every run ends | sources of up to 4 lines in 10 ways of typing, 840 command lines |
| `cload` | the AFU's memory, what directives do, `.wait`'s verdict, every directive ends | 43 lines, 4 scripts, memory of 4 bytes |
| `read_line`, `nonce`, `host_sent`, `cpu_first`, `cload_restore` | disagreements, section 7 | |

Why the bounds are enough. *Arbitration*: four Clients give the round robin a
grantee with Clients on both sides, and a third party for either side; the
proofs cover every number. *Accelerators*: competition is between two, the
third party is the program; two words are needed for the answer of one word to
be taken for the next. With the data collapsed the state machines still meet in
every alignment, which is what `acc_any` is about. *FIFO*: the instance has the code's
relation of depth and address space; the proofs cover every other one. *DMA*: a transfer
longer than the FIFO makes the credit bind; two lines tell a line from the next
one, and a doubled or a lost one breaks their order. *Host path*: three and two lines
exercise first, middle and last; two words are the first and last of a line, and
their counter wraps at each; the table of the data memory ends with an address
below the others, as in the code. Three stores are a store after a store after a
store: one for each of the two ways a line can go astray. `MaxStores` bounds the stores of a
behaviour; after it the program only executes other instructions. *Pipeline*: a
program of four instructions runs round, so that each meets each at every distance
at which two can be in the stages together, with stalls and stores to the host in
between, and what they do depends on the rounds before; the ten are one of each
way to read and write registers, memory, flags and pc, watched and unwatched. Two
bits have a negative number, a carry and a product with a high half.

*Assembler*: labels forward, backward and at the end need three lines, a label of
its own line and a comment the fourth; `MaxLine = 20` is shorter than the longest
line, so that `fgets` splits it, and `MaxProgram = 12` holds three instructions, so
that the fourth does not fit; the code has 254 and 64 MB. The proofs cover every
length. *Loader*: a memory of four bytes wraps under an image of six; `.resize`
changes it to two; `MaxFile = 4` is the disk that fills; `MaxLines = 2` lines, one
typed and one after it, or a script of up to five; `MaxFaults = 2` lets the recovery
from a failure fail as well; `MaxInterrupts` and `MaxAfuWrites` are one each, enough for
the three ways a `.wait` ends to race; `UInt64 = 8` stands for 2^64, so that a
timeout below zero is a long one, not none. The proofs cover all of them.

Deadlock is checked in every run of the hardware: a clock never stops. It is not
checked in `class` and `cload`: both programs end, and the loader's prompt waits for
a user who has typed all the lines of the instance.

### Fairness

- `HFairSpec`, and `USpec` for its unit: the clock runs, and a hold is released again and again
  (`SF(HClock /\ ~hold')`): the memory answers whenever the CPU leaves the port,
  and `hold` is the absence of an answer. `EveryRequestServed` is conditional on
  resets coming to an end. `acc_any` checks `EveryJobEnds` in the composition
  without assuming anything of `hold`.
- `FairSpec` of Accelerators: the program leaves the port alone again and again,
  and the clock runs for it (`WF(Compute)`; no state refuses a `Compute`, and one
  that changes nothing finds every accelerator idle). The program's loop has arithmetic and
  branches between any two of its loads and stores, and loads are followed by
  stalls.
- `DFair` of DmaUser (in `USpec` for its unit) and `Fair` of HostPath: the clock runs; the host answers a read it
  has, carries out a write it has, and is not almost full for ever *while a
  request waits*; the peripheral of DmaUser reads again and again. These are the
  promises of CCI-P and, in HostPath, nothing is assumed of the CPU or of the
  memory controller beyond the clock.
- `FairSpec` of CpuPipeline: the clock runs, and a store to the host ends; that it
  does is `EveryStoreEnds` of HostPath.
- `MCSpec` of AssemblerMC and `FairSpec` of Loader: the process is scheduled. The
  loader's fairness covers its own steps only: the AFU may never write, the user
  may never press ^C.
- `CarefulSpec` of Accelerators and `Careful` in HostPath are not fairness but
  disciplines of the program: leaving the port alone while an accelerator
  writes, and waiting until a store has arrived before the next one. *The real
  program keeps to neither*; the runs show that they are sufficient, and section
  7 what happens without them.

## 5. Properties that carry the project

- **NoDoubleOvertaking**, **EveryRequestServed**: round robin, under holds.
- **HeldGrantMovesOnlyDown**, **NoIdleGrant**: what `force_hold_in_right` is for,
  and that its being one cycle old does no harm.
- **HashIsDoubleHash**, **DoneAfterEveryWord**: the hash is of the two lines this
  job latched, nothing is left of an earlier job, and done is last.
- **ServesHashes** (refinement of HashService, with liveness), **StartIsHeard**:
  what a careful program gets.
- **UnitsRun**: the accelerators and the memory satisfy the
  assumption under which the arbitration units were proved.
- **ResponseHasRoom**, **NextLineIsShown**, **DoneMeansRead**,
  **DoneMeansWritten**: the DMA engine's contract.
- **ProgramIsLoaded**, **Boots**: two state machines, three counters and a FIFO
  agree on where each word goes. What is loaded is what the host's buffer holds, so
  the property is conditional on `ImageIntact`: a program that does not wait between
  its stores can lose enough of them (`host_sent`) for one to be written into the
  image, which the next reset then loads. `ImageIsKept` says that a program that
  waits, and stores elsewhere, never does this.
- **OneWriteAtATime**: the host does not order writes; this is what makes the
  program's flag meaningful.
- **MailboxSpec**, **EveryStoreEnds**: what a waiting program gets.
- **RunsInOrder**: no instruction is lost, repeated, or fetched from the wrong side of a
  jump, whatever stalls meet and whatever the program is.
- **RunsInstructions** (refinement of Isa): nor is one given an old operand, if the
  program keeps the rules. Without any one of the four rules it fails, so they are what a
  programmer has to know. The first cycle is left open, in which nothing has been fetched
  by an address: what is executed first is the subject of `cpu_first`.
- **KeepsRunning**: stalls end, also for careless programs.
- **PassesAgree**: the first pass counts 4 a line it keeps, the second adds up what
  it wrote, and every label is the address of the instruction behind it.
- **AssemblesSource**, **FileIsProgram**: from what was written to the bytes of the
  program, through lines, words, numbers and labels, and from there to the file, in the
  format, the width and under the name of the last options.
- **AfuMemory**: at every step, whatever fails, the AFU's address is that of an
  allocated buffer, the loader's own, of the size both take it for; when `main`
  returns nothing is left.
- **DirectivesDo**: `.sr -r`, `.sr -s`, `.rst` and `.resize` leave the bytes they should, and
  `.mem` shows those asked for, in the order asked for and with their values, except where the
  AFU wrote in the meantime. It says nothing of what the repository's texts contradict: the
  byte behind a restored file (`cload_restore`), the order of the bytes under `-bige`, and
  whether a range includes its end.
- **WaitVerdict**, **DirectivesEnd**: a `.wait` says what happened, whichever of the value,
  the timeout and the interrupt came first.

## 6. What is proved

For every value of the constants that satisfies the modules' named assumptions
(`ParametersAssumption`, `AccelAssumption`, `AcceleratorsAssumption`,
`NoOpAssumption`, `FifoAssumption`, `DmaAssumption`,
`UserAssumption`, `HostPathAssumption`, `LayoutAssumption`, `CpuAssumption`,
`OpcodesAssumption`, `ToolEnvAssumption`, `AssemblerAssumption`, `LoaderAssumption`: sizes are positive, the
address space holds the FIFO, data sets contain what is stored, the tables of
addresses are those of an image that is in the buffer, the opcodes are
those the pipeline decodes by their bits, `atoi` gives no negative number (widths
are unsigned), no buffer is the null pointer). TLC
evaluates each of them on the instances of the runs.

**Arbitration unit** (`Invariant`, `TypeCorrect`, `RoundRobinIsFair`,
`RequestsAreGranted`, `HeldGrantOnlyMovesDown`). `NoDoubleOvertaking` says
nothing about the pointer, so it is not inductive. `HInv` adds that whoever
overtook a waiting Client stands behind it in the order the pointer defines
(`OvertakersAreBehind`), and that during a forced hold the Clients of the masked
part have not been overtaken and the other part is not empty (`ForcedHold`).
Each edge either keeps the pointer, or moves it to the Client served, which
thereby becomes the last in the order.

**Accelerator** (`HashProgress`, `RegistersAreRight`, `HashesAreRight`,
`DoneComesLast`). `AInv` says, for each state and stage, what the hash
registers, the scheduler's message and the acknowledged words are in terms of
the lines latched (`Progress`, `Acknowledged`). The proof goes state by state.
Digests are symbolic: that 64 rounds compute SHA-256 is not claimed.

**Block of accelerators** (`RegistersHaveTypes`, `MemoryIsOwn`, `AnswersAreTrueAlways`,
`UnitsAlwaysRun`, `CarefulInvariant`, `StartsAreHeard`, `HashesAreServed`), for any
number of accelerators, words and cycles. The first four hold whatever the program
does. That the memory changes only as its owner has it needs that a grant is a
request, and that the address an accelerator shows is one of its own; `UnitsAlwaysRun`,
that nobody withdraws a request, carries the proofs about one arbitration unit over
to both units of the block.

The other three are about a program that keeps to `CarefulSpec`. A start is heard
only if the accelerator listens, and a hash is whole only if no answer is taken for
another, so the invariant `CInv` relates all parts: one accelerator works at a time
(`InvOneJob`); its status word follows its state, with two values possible while a
write is repeated until its answer comes (`InvStatus`); what the program takes for
free does not work (`InvKnown`); the line that is valid is the one waited for
(`InvRead`); and `AInv` of AccelHash holds of each accelerator with the lines latched
replaced by the header in memory, and the acknowledged words by what the memory holds
(`InvJobs`). `InvJobs` is where the carefulness is used: the header of one that works
stays (`HeadersStand`), and a write that is answered is carried out again in the same
cycle (`AnsweredIsWritten`). The refinement maps the status word to the service's
status and the words of the hash to its digest; a store of the program is a `Submit`
or a `Replace`, the write of the busy bit an `Accept`, that of the done bit a
`Finish`, repeated writes and words of the hash are stutters. It is stated for
`TrackData`, without which there is no digest to read. `NoOpAssumption` says that
an idle port is not taken for a write.

**FIFO** (`FifoIsConsistent`, `FifoImplementsQueue`). `FifoOK` relates counters,
flags, pointers and the prefetched element. The lemmas at the head of `DmaProofs`
state what an edge does to `Contents`: a write appends, a read drops the first, both
do both; the refinement follows step by step. The case worth the effort is a
write to the very word that is being prefetched.

**DMA engine** (`DmaInvariant`, `NoLineIsDropped`, `LinesComeInOrder`,
`ReadDoneIsLast`, `WriteDoneIsLast`). The invariant `DInv` has a counting part and
an ordering part. *CreditOK*: reads pending are the requests in the channel and
in the request register, they fit into the FIFO's free space, and lines still to
be handed over are those to ask for, pending, or buffered. *LinesInOrder*: FIFO,
channel and request register, in this order, hold consecutive lines, from the
next one due up to the address register. A go can change the address only when
nothing is under way, which follows from the counting part.

**Host path** (`PathIsConsistent`, `RegistersHaveTypes`, `LoadsTheProgram`,
`WritesOneByOne`, `SendsStores`, `PathIsAMailbox`, `ImageIsKept`), for any depth, length
of a line, tables and number of stores. None of the run's invariants is inductive: each
relies on where a line is in four components at once. `IInv` follows it. *InvPhase*: which states
of the CPU and of the memory controller go together. *InvRead*: from the CPU's wish to its
memories a line is in exactly one place, not yet asked for, in the request register, in the
channel or in the FIFO, so that the answer is that of the address and a `go` finds
the engine at rest. *InvWrite*: one write at most between controller and
memory, with the word of its store. *InvLoaded*: the lines done, and the words of the
current one, are in place; that a word does not fall on one loaded before is what `Apart` of the
layout is for. The mailbox refinement needs in addition (`InvCareful`) that for a program that waits
the engine has taken the write exactly while the bubble is up; it maps `ex` to the
request and the one write under way to the outstanding store.

**CPU pipeline** (`StagesAreRight`, `RunsInOrderAlways`, `OperandsAreRight`,
`RunsInstructionsAlways`). `RunsInOrder` speaks of one
step; that the next one is right as well depends on what is behind EX. `IInv` says
that a stage holds the instruction of its address or a bubble (`InvStages`), that the
addresses in consecutive stages are consecutive and only the fetch is behind a jump
(`InvOrder`), and that the store the state machine waits for is still in EX
(`InvStore`). An edge either holds the pipeline, and then nothing is jumped to, or
moves it, with or without a bubble. No register matters but the immediate of a jump,
so none of the rules is assumed.

That the pipeline implements Isa takes the registers as well. `DInv` adds, for as long as
the program has kept the rules, that the operands read in ID, and those carried by EX, MEM
and WB, are what a register is worth to that instruction (`NewestReg`: the
youngest value on its way to it, or the register file's), unless the instruction
does not use them or a stage in front still writes them (`HasOperands`). That
`rw_stall` watches every operand not covered by a rule, and so each is read when no stage
writes it, is the heart; the rest is one step of Isa for an instruction that
leaves EX, and none for everything else: bubbles, stalls, the two cycles behind a jump.
Isa keeps register 0 zero where the register file writes it like any other; that the two are the
same is what `ZeroStaysZero` is for (`DInv` needs no word about it). The step of the first cycle is
left open: it moves the pipeline from the state after reset, whose output of the memory is no
instruction of any address (`FetchBegun`), to the state in which the instruction at 4 is fetched.

**Assembler** (`PassesAgreeAlways`, `TypesAreRight`, `FileIsProgramAlways`), for every
source, command line, line length and program size. The addresses of labels are
counted in the first pass and used in the second, so the invariant `IInv` follows the
counters of both: in the first pass `equiv_pc` is 4 times the lines kept and every
symbol is on a boundary, in the second `asm_pc` is 4 times the lines assembled, and both
meet line by line. All it needs of the instruction set is that an instruction has four
bytes (`AssembleLength`).

`TypesAreRight` says what the rest of the assembler may rely on. `TypeInv` holds because
`chop_string` makes texts of a text (`ChoppedIntoTexts`), every number that is read is a
number (`InterpretedIsNumber`), every word an operand or an exception
(`RegisterIsOperand`, `AddressIsOperand`), and so every line four bytes or an exception
(`AssembledType`). A program that runs out of room keeps the bytes that fit: it is the
only one that is not made of whole instructions.

`FileIsProgramAlways` needs two things that are decided long before the file is written.
`ReadyToDump` carries them to the dump: shEnv is what `characterize_Env` made of the
command line, complete, and the program is 4 bytes an instruction. What the options
ask for is said without the loop, by the last place each one stands at (`Uses`,
`ValueAfter`); `EnvIsAsked` proves it of each argument in its turn, also where the
value of one option is the name of another. The file is then put together from lemmas about its parts: where
an instruction begins (`OffsetIs`), what FlattenSeq makes of parts of the same length
(`FlattenUniform`), the digits of four bytes (`PrintedFour`), the number of words
(`DepthIs`) and a word from the back, padded (`PaddedWord`). That the bytes of a mif file
run over the ends of its words, for every width, comes down to `WordsOfFile`.

That the bytes are those of the source *as it was meant* (`AssemblesSource`) is stated
about records of what somebody wrote, which only the run has: it stays with TLC.

**Loader** (`AfuMemoryAlways`, `WaitVerdictAlways`, `DirectivesDoAlways`,
`TypesAreRight`), for any files, lines,
scripts, sizes and number of failures, interrupts and writes of the AFU. `AfuMemory` is not inductive: between
two calls of the driver, what holds depends on how far `mmem` has come and for
whom. `IInv` says so for each step: what the AFU has been told (`InvTold`), what is
allocated and how large it is (`InvMemory`, `InvSize`), what has been freed
(`InvFreed`), what is new (`InvNew`), and that a process returns only by way of
`~mmem` (`InvResult`).

`WaitVerdictAlways` is about what a `.wait` says, whenever the AFU writes and the user
breaks in. `WaitVerdict` speaks of the line after the directive, `WaitInv` of the
polls before it: the memory is as it was when the directive began, except where the
AFU has touched it (`InvKept`); the counter does not pass the timeout, and once it has
counted, the value was not there all the time (`InvPoll`); a poll that goes on to the
verdict for neither the timeout nor the user has seen the value (`InvObserved`).

`DirectivesDoAlways` is what each directive leaves or shows, byte by byte (`RestoreExact`,
`SaveExact`, `Cleared`, `RangeShown`), for a file longer than the memory too. `RangeShown` says
that every place shown is one of a range asked for (`ToShow`), that they come range by range and
within a range in the order in which the step leads (`Before`), that each has the value of the
memory, and that nothing is missing, unless a range is refused or leads outside of the memory; then
what is missing comes behind what is shown. The
inductive invariant `ExactInv` has the invariant of each loop (`InvClear`,
`InvRestore`, `InvSave`): what the counter has passed is right. `InvBusy` and
`InvCommand` say who is at work, so that no directive ends in the words of
another. What `.mem` shows is put together in one step, from the ranges of its
arguments (`Listed`): `RangeIsMeant` says what one range gives and in which order, `LaidOut`
where the elements of a sequence of sequences come to lie when FlattenSeq puts them in a row,
and `ListedIsMeant` follows each place that is shown back to its range (`Traced`). The model
lists the end of a range, as the code does; the theorem only says that it may or may not be
there, for all ranges alike. A `-h` is an option only in the first place
(`FirstRange`), anywhere else it is a range like another, and refused.

`TypesAreRight` is the type invariant. All but the options is a case by case
argument; shEnv is what a loop over the arguments leaves.

**Induction.** What a recursive function computes (the words of a line, a number,
shEnv, the ranges of a `.mem`, FlattenSeq) is proved from the least counterexample:
`Least` follows from the well-foundedness of the numbers, `Induct` states it for sets
instead of predicates, and `Recursion` gives the function, which TLA+ only chooses, its
existence. The models write recursion as functions, and choose without SelectSeq, so that
these lemmas apply. AssemblerProofs and LoaderProofs each have their own copy.

The assumptions on the loader are that the numbers are integers, the files hold
bytes, lines and command lines are made of words, the sizes are positive and no buffer is the null pointer. `UInt64` is the
2^64 at which a timeout wraps; it need only be positive.

Only model-checked: all liveness (outside the prover's reach, as is `ENABLED`), and
with it that every job of HashService gets done; and `AssemblesSource`, that the
instructions are those the lines of the source mean. Every other invariant and action
property of a passing run is a theorem.

## 7. Disagreements found

Five runs end with a behaviour against what the repository says of the program;
`PROJECT.json` quotes the lines.

1. `read_line` - a read that coincides with another accelerator's write is
   answered with the line at the write's address: the reader hashes a status
   word. The two arbitration units are independent, the address port is one.
2. `nonce` - the nonce is stored at offset 0x54 of a header block, outside the
   bytes the accelerators read: every job hashes the same header.
3. `host_sent` - a second store to the host, while the first is on its way, is
   acknowledged and dropped. The program's report is nine such stores; the
   loops that kept them apart are commented out, as is the wire that would have
   made the hardware wait. If the write before ends exactly in the cycle after
   the bubble, the store after this one goes to the wrong line as well.
4. `cpu_first` - the first instruction executed is the one at 4, not the one at 0: the
   memory is addressed with the pc after the one of the program's start, and when the
   program starts its output still shows an old word.
5. `cload_restore` - `.sr -r` stores the byte of the read that finds the end of the file,
   a zero, as well: the byte behind the file in the memory is lost.

Reading the code for the models showed some more, which the models contain and
no run is about:

- *hold* is documented to keep the grant unchanged (`hw/arbitration_unit.sv:72`);
  a newcomer of a lower index takes it. `HeldGrantMovesOnlyDown` states what
  does hold.
- A grant is documented to come in the cycle of the request (line 15); in the
  cycle after a reset only Client 0 can get one. `NoIdleGrant` states from when.
- The arbiter hands the answer of a read or a write to whoever holds the grant
  one cycle later (`hw/arbiter.sv:162` and `:177`).
- A word is written again while its answer is on the way
  (`hw/acc_control_unit.sv:258`), and the answer to the second write is taken for
  the next word, which is lost if the CPU has the port. This is why the
  discipline of `CarefulSpec` covers the cycles in which an accelerator writes.
- `.wait` leaves the mode INTERACTIVE whatever it was (`runtime_call.cpp:446`): a
  script that says `.exit` first does not leave. It says that a state change was
  observed, but looks at the value only: one that was there before counts.
- `-bige` is taken by `.sr` and ignored, where the help says that it makes the bytes big
  endian (`messages.cpp:95-96`). `DirectivesDo` says nothing of their order under it.
- `range.h:45-46` explains `0:4:2` as 0, 2 and `0:4` as 0, 1, 2, 3, `messages.cpp:68` calls both
  ends inclusive; the loop includes the end. `DirectivesDo` allows either.
- The last line of a source that is not ended loses its last character
  (`shell.cpp:168`), and a line longer than the buffer is assembled as two.
- `get_reg_num` (`mips.cpp:476`) reads digits from a buffer without an end; the model
  allows any digits to follow (`Junk`).
- `hw/cpu_rf.sv:7` and `:22` say that R0 is and stays zero; it is written like any other, and
  line 22 calls a write of anything else an error. `RunsInstructions` keeps R0 zero, and is
  about programs that do not commit the error (`ZeroStaysZero`).
- `hw/cpu_stall.sv:41` stalls for *a register that is still being written to*, but the
  opcode for MULTHI is not the one of `mips.h`, LSI is missing, and stores are not
  watched for their base.
- An instruction behind a store to the host reads R0 for every register, and a load
  before it loses its word. The report of the program is such a sequence:
  `asmCode.asm:554` loads from the address in `$g4` right behind the store of line 548,
  and takes its word from the address 4 instead; so do the six loads after it.
- A line of a script that ends in a backslash ends the process while the AFU still
  has the address of the buffer (`shell_cload.cpp:80`).

## 8. Not modelled, and why

- **Writes of the accelerators under the pipeline**: CpuPipeline has the data memory to
  itself but for reads; what the accelerators write is in Accelerators.
- **SHA-256 arithmetic**: planned as operators on words of w bits.
- **Opening the device** and the constructors that fail before the loader starts; the
  driver's own code; AFU writes still on their way when the address register is
  cleared: nothing in the code says how they are drained.
- **ISA description and ISA_gen**, `x2b`, `hash`, the text streams and messages: small
  programs of their own that convert files or print.
- **Breakpoints** of the assembler: the queue is never filled.
- `BW_generic::operator=` (`primitives.h:186`) returns nothing, which is undefined;
  the default build (`-g`) does what the model says, an optimised one may not.
- After the shell is destroyed a SIGINT still calls its handler (`cload_entry.cpp:43`).
- **MMIO registers, platform shell**: written once before `go`, or vendor wiring.
- **Timing within a cycle, metastability, synthesis**: outside TLA+'s level.
- **Older copies, testbenches, data**: not part of the program.

## 9. Plan

1. *HostPath* with CpuPipeline in place of `ex`: a program that keeps the rules and
   waits between its stores, from the image to the host's lines.
2. *Mining program* (`MiningProgram`): its control flow over the abstract
   HashService and HostMailbox: every nonce is tried, the hash reported is the
   one found, the flag is last.
3. *Datapath* (`Sha256Rounds`): compressor and scheduler on words of w bits with
   a carry-save adder, against the standard's definition; the number of cycles.
4. *Proofs*: that an instruction means what its line says, for every line; it needs a
   grammar of lines in the model instead of the records of AssemblerMC.

To repeat a check, in this directory: `tlc -config Units.cfg UnitsMC` for
a run, `tlapm DmaProofs.tla` for a proof module.
