---------------------------- MODULE HostPathProofs ----------------------------
(***************************************************************************)
(* Proofs about the path between the CPU and the host's memory, for any    *)
(* number of lines and words, any program and any choice of the host.      *)
(*                                                                         *)
(* The invariant IInv follows one line through the components: a read is   *)
(* in exactly one place between the CPU's wish and its memories, and a     *)
(* write in at most one between the memory controller and the host.        *)
(***************************************************************************)
EXTENDS HostPath, SequenceTheorems, TLAPS

-----------------------------------------------------------------------------
(* The inductive invariant. *)

\* What the CPU is at.
WaitsDm == cpu.state = "WAIT_INIT_DM"
WaitsIm == cpu.state = "WAIT_INIT_IM"
Waits == WaitsDm \/ WaitsIm
FillsDm == cpu.state = "INIT_DM"
FillsIm == cpu.state = "INIT_IM"
Fills == FillsDm \/ FillsIm
Reads == Waits \/ Fills
Writes == cpu.state = "WRT_HOST" \/ (cpu.state = "RUN" /\ ex # NoStore)

\* The line the CPU loads.
DmTarget == DmLine(cpu.dm_count + 1)
ImTarget == ImLine(cpu.im_count + 1)
Target == IF WaitsDm \/ FillsDm THEN DmTarget ELSE ImTarget

\* The line the host answers with.
Answer == memory[Target]

Stores == [line : StoreLines, data : 1 .. MaxStores]
StoredLines == {StoredLine(n) : n \in 1 .. MaxStores}
OwnRequests == {[line |-> Corrected(s.line), data |-> StoredLine(s.data)] : s \in Stores}

Cpus == [state : {"CPU_IDLE", "WAIT_INIT_DM", "INIT_DM", "WAIT_INIT_IM", "INIT_IM", "RUN",
                  "WRT_HOST"},
         im_count : 0 .. Len(IM_ADDRS) - 1, dm_count : 0 .. Len(DM_ADDRS) - 1,
         dm_curr_addr : Nat, im_curr_addr : Nat]

\* A channel and a request register hold one request at most.
InvTypes == /\ mc \in Ctrl!MemCtrls
            /\ cpu \in Cpus
            /\ dma \in Dma!Dmas
            /\ fifo \in Dma!Fifos
            /\ reads \in Dma!AtMostOne(HostLines)
            /\ writes \in Dma!AtMostOne(Dma!Requests)
            /\ memory \in [HostLines -> Ctrl!CacheLines]
            /\ data_mem \in [LoadedWords(DM_ADDRS) -> Words]
            /\ instr_mem \in [LoadedWords(IM_ADDRS) -> Words]
            /\ ex \in Stores \cup {NoStore}
            /\ stores \in 0 .. MaxStores
            /\ ex # NoStore => ex.data = stores + 1
            /\ careful \in BOOLEAN

\* The two state machines keep in step.
InvPhase == /\ mc.state = "STARTUP" => cpu.state = "CPU_IDLE"
            /\ cpu.state = "CPU_IDLE" => mc.state \in {"STARTUP", "READY"}
            /\ cpu.state = "RUN" => mc.state = "READY"
            /\ cpu.state = "WRT_HOST" => mc.state \in {"FILL", "HOSTOP"}
            /\ Fills => mc.state = "FILL" /\ mc.fill_count >= 1
            /\ Waits /\ mc.state = "FILL" => mc.fill_count = 0
            /\ mc.state # "FILL" => mc.fill_count = 0
            /\ mc.bubble => mc.state = "HOSTOP" /\ cpu.state = "WRT_HOST"
            /\ cpu.state = "WRT_HOST" => ex # NoStore
            /\ ex # NoStore => Runs

\* A line is asked for, and is in exactly one place: not yet requested, in the
\* request register, in the channel, or in the FIFO.
NoRead == /\ dma.cci_rd_remaining = 0 /\ dma.cci_rd_pending = 0 /\ dma.dma_rd_remaining = 0
          /\ dma.c0Tx = <<>> /\ reads = <<>> /\ fifo.count = 0
ToRequest == /\ dma.cci_rd_remaining = 1 /\ dma.cci_rd_pending = 0
             /\ dma.rd_addr = Target
             /\ dma.c0Tx = <<>> /\ reads = <<>> /\ fifo.count = 0
Requested == /\ dma.cci_rd_remaining = 0 /\ dma.cci_rd_pending = 1
             /\ \/ dma.c0Tx = <<Target>> /\ reads = <<>>
                \/ dma.c0Tx = <<>> /\ reads = <<Target>>
             /\ fifo.count = 0
Buffered == /\ dma.cci_rd_remaining = 0 /\ dma.cci_rd_pending = 0
            /\ dma.c0Tx = <<>> /\ reads = <<>>
            /\ fifo.count = 1 /\ fifo.rd_data = Answer
AskedFor == dma.dma_rd_remaining = 1 /\ (ToRequest \/ Requested \/ Buffered)

InvRead == IF Waits
           THEN CASE mc.state = "READY" -> NoRead
                  [] mc.state = "HOSTOP" -> NoRead \/ AskedFor
                  [] mc.state = "FILL" -> /\ dma.dma_rd_remaining = 1 /\ Buffered
                                          /\ mc.line_buffer = Answer
           ELSE NoRead /\ (Fills => mc.line_buffer = Answer)

\* The registers of the FIFO agree, and a FIFO that is full because of a reset is
\* full no longer when a line comes.
InvFifo == /\ Dma!FifoOK(fifo)
           /\ mc.state # "STARTUP" /\ fifo.count = 0 => ~fifo.full

\* A write is in one place at most, and only words that a program stores are sent.
InvWrite == /\ dma.cci_wr_en_delayed <=> dma.c1Tx # <<>>
            /\ dma.c1Tx # <<>> => writes = <<>>
            /\ dma.cci_wr_remaining = 1 => dma.c1Tx = <<>> /\ writes = <<>>
            /\ ~Runs => dma.cci_wr_remaining = 0 /\ dma.c1Tx = <<>> /\ writes = <<>>
            /\ \A w \in {dma.c1Tx, writes} : w # <<>> => w[1].data \in StoredLines
            /\ cpu.state = "WRT_HOST" /\ mc.state = "HOSTOP" =>
                   mc.line_buffer = StoredLine(ex.data)

\* The words of the current line are copied one by one.
DmCopied == FillsDm => /\ cpu.dm_curr_addr = DM_ADDRS[cpu.dm_count + 1] + mc.fill_count
                       /\ \A w \in 0 .. mc.fill_count - 1 :
                              data_mem[DM_ADDRS[cpu.dm_count + 1] + w] = Image(DmTarget)[w]
ImCopied == FillsIm => /\ cpu.im_curr_addr = IM_ADDRS[cpu.im_count + 1] + mc.fill_count
                       /\ \A w \in 0 .. mc.fill_count - 1 :
                              instr_mem[IM_ADDRS[cpu.im_count + 1] + w] = Image(ImTarget)[w]

DmDone == IF cpu.state \in {"CPU_IDLE", "WAIT_INIT_DM", "INIT_DM"} THEN cpu.dm_count
          ELSE Len(DM_ADDRS)
ImDone == IF Runs THEN Len(IM_ADDRS) ELSE cpu.im_count

InvLoaded == ImageIntact => /\ \A k \in 1 .. DmDone : DmLineLoaded(k)
                            /\ \A k \in 1 .. ImDone : ImLineLoaded(k)
                            /\ DmCopied /\ ImCopied

IInv == InvTypes /\ InvPhase /\ InvRead /\ InvFifo /\ InvWrite /\ InvLoaded

\* What a program that waits between its stores adds: the engine takes each of
\* them, and sends it to its line.
InvCareful ==
    careful => /\ dma.cci_wr_remaining = 1 <=> mc.bubble
               /\ mc.bubble => dma.wr_addr = Corrected(ex.line)
               /\ ex # NoStore => dma.c1Tx = <<>> /\ writes = <<>>
               /\ \A w \in {dma.c1Tx, writes} : w # <<>> => w[1] \in OwnRequests

-----------------------------------------------------------------------------
(* What a rising edge does to each component, in terms of the others. *)

\* The memory controller sends the line to the engine.
Sends(wr_full) == mc.state = "HOSTOP" /\ mc.bubble /\ ~wr_full

\* The operation the CPU asks for, from the state of its state machine.
LEMMA Operation ==
    ASSUME IInv
    PROVE  op = IF Reads THEN "READ" ELSE IF Writes THEN "WRITE" ELSE "IDLE"
BY DEF op, Cpu!op, IInv, InvTypes, Cpus, Reads, Writes, Waits, Fills, WaitsDm, WaitsIm,
       FillsDm, FillsIm

LastFill == mc.fill_count = FillCount - 1

\* The wires of the controller, from its state and that of the CPU.
LEMMA Wires ==
    ASSUME IInv, NEW wr_full \in BOOLEAN
    PROVE  /\ ToCpu(~wr_full).ready <=> mc.state # "STARTUP"
           /\ ToCpu(~wr_full).rd_valid <=> mc.state = "FILL" /\ Reads
           /\ ToCpu(~wr_full).tx_done <=> \/ Sends(wr_full)
                                          \/ mc.state = "FILL" /\ Reads /\ LastFill
           /\ ToDma(~wr_full).rd_go <=> mc.state = "HOSTOP" /\ Waits
           /\ ToDma(~wr_full).rd_en <=> mc.state = "FILL" /\ Reads
           /\ ToDma(~wr_full).wr_go <=> mc.state = "HOSTOP" /\ cpu.state = "WRT_HOST"
           /\ ToDma(~wr_full).wr_en <=> Sends(wr_full)
           /\ Waits => ToDma(~wr_full).rd_addr = Target
           /\ cpu.state = "WRT_HOST" => ToDma(~wr_full).wr_addr = Corrected(ex.line)
<1>1. /\ Reads => op = "READ"
      /\ ~Reads /\ Writes => op = "WRITE"
      /\ ~Reads /\ ~Writes => op = "IDLE"
  BY Operation
<1>2. InvPhase /\ InvTypes
  BY DEF IInv
<1>3. mc.state = "HOSTOP" => Waits \/ cpu.state = "WRT_HOST"
  BY <1>2 DEF InvPhase, InvTypes, Cpus, Waits, Fills, WaitsDm, WaitsIm, FillsDm, FillsIm
<1>4. cpu.state = "WRT_HOST" => ~Reads /\ Writes
  BY DEF Reads, Writes, Waits, Fills, WaitsDm, WaitsIm, FillsDm, FillsIm
<1>5. mc.bubble => mc.state = "HOSTOP" /\ cpu.state = "WRT_HOST"
  BY <1>2 DEF InvPhase
<1>6. /\ Ctrl!rd_valid(mc, op) <=> mc.state = "FILL" /\ Reads
      /\ Ctrl!host_rgo(mc, op) <=> mc.state = "HOSTOP" /\ Waits
      /\ Ctrl!host_wgo(mc, op) <=> mc.state = "HOSTOP" /\ cpu.state = "WRT_HOST"
  BY <1>1, <1>3, <1>4 DEF Ctrl!rd_valid, Ctrl!host_rgo, Ctrl!host_wgo, Reads, Waits
<1>7. Ctrl!host_we(mc, op, ~wr_full) <=> Sends(wr_full)
  BY <1>5, <1>6 DEF Ctrl!host_we, Sends
<1>8. Waits => Corrected(Cpu!ex_addr(cpu, ex)) = Target
  BY DEF Waits, WaitsDm, WaitsIm, FillsDm, Cpu!ex_addr, Cpu!DmAddr, Cpu!ImAddr, Target,
         DmTarget, ImTarget, DmLine, ImLine
<1>9. cpu.state = "WRT_HOST" => Cpu!ex_addr(cpu, ex) = ex.line
  BY DEF Cpu!ex_addr
<1> QED
  BY <1>6, <1>7, <1>8, <1>9
     DEF ToCpu, ToDma, Ctrl!ready, Ctrl!tx_done, Ctrl!host_re, Ctrl!last_fill, LastFill

\* The memory controller.
LEMMA McStep ==
    ASSUME IInv,
           NEW host_init \in BOOLEAN, NEW rd_full \in BOOLEAN, NEW wr_full \in BOOLEAN,
           NEW answers \in BOOLEAN, NEW carries_out \in BOOLEAN,
           Clock(host_init, rd_full, wr_full, answers, carries_out)
    PROVE  /\ mc.state = "STARTUP" =>
                  mc' \in {mc, [mc EXCEPT !.state = "READY"]}
           /\ mc.state = "READY" =>
                  mc' = [mc EXCEPT !.state = IF Reads THEN "HOSTOP"
                                             ELSE IF Writes THEN "FILL" ELSE "READY"]
           /\ mc.state = "FILL" /\ Reads =>
                  mc' = [mc EXCEPT !.fill_count = IF LastFill THEN 0 ELSE @ + 1,
                                   !.state = IF LastFill THEN "READY" ELSE "FILL"]
           /\ mc.state = "FILL" /\ cpu.state = "WRT_HOST" =>
                  mc' = [mc EXCEPT !.fill_count = IF LastFill THEN 0 ELSE @ + 1,
                                   !.line_buffer = StoredLine(ex.data),
                                   !.state = IF LastFill THEN "HOSTOP" ELSE "FILL"]
           /\ mc.state = "HOSTOP" /\ Waits =>
                  mc' = IF fifo.empty THEN mc
                        ELSE [mc EXCEPT !.line_buffer = fifo.rd_data, !.state = "FILL"]
           /\ mc.state = "HOSTOP" /\ cpu.state = "WRT_HOST" =>
                  mc' = IF ~mc.bubble THEN [mc EXCEPT !.bubble = TRUE]
                        ELSE IF wr_full THEN mc
                        ELSE [mc EXCEPT !.state = "READY", !.bubble = FALSE]
<1>1. /\ Reads => op = "READ"
      /\ ~Reads /\ Writes => op = "WRITE"
      /\ ~Reads /\ ~Writes => op = "IDLE"
  BY Operation
<1>2. /\ mc \in Ctrl!MemCtrls /\ InvPhase /\ cpu \in Cpus
      /\ fifo.empty \in BOOLEAN
  BY DEF IInv, InvTypes, Dma!Fifos
<1>3. cpu.state = "WRT_HOST" => ~Reads /\ Writes /\ ex # NoStore
  BY <1>2 DEF Reads, Writes, Waits, Fills, WaitsDm, WaitsIm, FillsDm, FillsIm, InvPhase
<1> DEFINE in == ToCtrl(host_init, ~wr_full)
<1>4. mc' = Ctrl!NextMemCtrl(mc, op, in)
  BY DEF Clock
<1>5. CASE mc.state = "STARTUP"
  BY <1>4, <1>5 DEF Ctrl!NextMemCtrl, Ctrl!Startup
<1>6. CASE mc.state = "READY"
  BY <1>1, <1>4, <1>6 DEF Ctrl!NextMemCtrl, Ctrl!Ready
<1>7. CASE mc.state = "FILL"
  <2>1. mc' = Ctrl!Fill(mc, op, in)
    BY <1>4, <1>7 DEF Ctrl!NextMemCtrl
  <2>2. ASSUME Reads
        PROVE  mc' = [mc EXCEPT !.fill_count = IF LastFill THEN 0 ELSE @ + 1,
                                !.state = IF LastFill THEN "READY" ELSE "FILL"]
    BY <1>1, <1>2, <2>1, <2>2 DEF Ctrl!Fill, Ctrl!last_fill, LastFill, Ctrl!MemCtrls
  <2>3. ASSUME cpu.state = "WRT_HOST"
        PROVE  mc' = [mc EXCEPT !.fill_count = IF LastFill THEN 0 ELSE @ + 1,
                                !.line_buffer = StoredLine(ex.data),
                                !.state = IF LastFill THEN "HOSTOP" ELSE "FILL"]
    <3>1. in.word = StoreWord(ex.data)
      BY <1>3, <2>3 DEF ToCtrl
    <3>2. StoredLine(ex.data) = [w \in Ctrl!WordIndex |-> IF w = 0 THEN in.word
                                                        ELSE StoreWord(0)]
      BY <3>1 DEF StoredLine, ZeroLine
    <3> QED
      BY <1>1, <1>3, <2>1, <2>3, <3>2 DEF Ctrl!Fill, Ctrl!last_fill, LastFill
  <2> QED
    BY <1>7, <2>2, <2>3
<1>8. CASE mc.state = "HOSTOP"
  <2>1. mc' = Ctrl!HostOp(mc, op, in)
    BY <1>4, <1>8 DEF Ctrl!NextMemCtrl
  <2>2. in.host_rd_ready = ~fifo.empty /\ in.line = fifo.rd_data /\ in.host_wr_ready = ~wr_full
    BY DEF ToCtrl
  <2>3. CASE Waits
    <3>1. op = "READ"
      BY <1>1, <2>3 DEF Reads
    <3>2. cpu.state # "WRT_HOST"
      BY <2>3 DEF Waits, WaitsDm, WaitsIm
    <3> QED
      BY <1>2, <1>8, <2>1, <2>2, <3>1, <3>2 DEF Ctrl!HostOp, Ctrl!host_we, Ctrl!host_wgo
  <2>4. CASE cpu.state = "WRT_HOST"
    <3>1. op = "WRITE" /\ ~Waits
      BY <1>1, <1>3, <2>4 DEF Reads
    <3> QED
      BY <1>2, <1>8, <2>1, <2>2, <3>1
         DEF Ctrl!HostOp, Ctrl!host_we, Ctrl!host_wgo, Ctrl!MemCtrls
  <2> QED
    BY <1>8, <2>3, <2>4
<1> QED
  BY <1>2, <1>5, <1>6, <1>7, <1>8 DEF Ctrl!MemCtrls

\* The CPU's tables.
LEMMA Tables ==
    /\ Len(DM_ADDRS) \in Nat \ {0} /\ Len(IM_ADDRS) \in Nat \ {0}
    /\ \A k \in 1 .. Len(DM_ADDRS) : DM_ADDRS[k] \in Nat
    /\ \A k \in 1 .. Len(IM_ADDRS) : IM_ADDRS[k] \in Nat
BY LayoutAssumption, ElementOfSeq, EmptySeq, LenProperties

\* Where they are read is inside.
LEMMA InTables ==
    ASSUME cpu \in Cpus
    PROVE  /\ cpu.dm_count \in Nat /\ cpu.dm_count + 1 \in 1 .. Len(DM_ADDRS)
           /\ cpu.im_count \in Nat /\ cpu.im_count + 1 \in 1 .. Len(IM_ADDRS)
           /\ Cpu!DmAddr(cpu) = DM_ADDRS[cpu.dm_count + 1] /\ Cpu!DmAddr(cpu) \in Nat
           /\ Cpu!ImAddr(cpu) = IM_ADDRS[cpu.im_count + 1] /\ Cpu!ImAddr(cpu) \in Nat
<1>1. /\ cpu.dm_count \in Nat /\ cpu.dm_count + 1 \in 1 .. Len(DM_ADDRS)
      /\ cpu.im_count \in Nat /\ cpu.im_count + 1 \in 1 .. Len(IM_ADDRS)
  BY Tables DEF Cpus
<1> QED
  BY <1>1, Tables DEF Cpu!DmAddr, Cpu!ImAddr

\* The CPU's state machine.  Both current addresses move together.
LEMMA CpuStep ==
    ASSUME IInv,
           NEW host_init \in BOOLEAN, NEW rd_full \in BOOLEAN, NEW wr_full \in BOOLEAN,
           NEW answers \in BOOLEAN, NEW carries_out \in BOOLEAN,
           Clock(host_init, rd_full, wr_full, answers, carries_out)
    PROVE  /\ cpu' \in Cpus
           /\ cpu.state = "CPU_IDLE" =>
                  cpu' = [cpu EXCEPT !.state = IF mc.state # "STARTUP" THEN "WAIT_INIT_DM" ELSE @]
           /\ WaitsDm => /\ cpu'.state = IF mc.state = "FILL" THEN "INIT_DM" ELSE "WAIT_INIT_DM"
                         /\ cpu'.dm_curr_addr = DM_ADDRS[cpu.dm_count + 1] + 1
                         /\ cpu'.dm_count = cpu.dm_count /\ cpu'.im_count = cpu.im_count
           /\ WaitsIm => /\ cpu'.state = IF mc.state = "FILL" THEN "INIT_IM" ELSE "WAIT_INIT_IM"
                         /\ cpu'.im_curr_addr = IM_ADDRS[cpu.im_count + 1] + 1
                         /\ cpu'.dm_count = cpu.dm_count /\ cpu'.im_count = cpu.im_count
           /\ FillsDm => LET last == cpu.dm_count >= Len(DM_ADDRS) - 1
                         IN  /\ cpu'.state = IF ~LastFill THEN "INIT_DM"
                                             ELSE IF last THEN "WAIT_INIT_IM" ELSE "WAIT_INIT_DM"
                             /\ cpu'.dm_curr_addr = cpu.dm_curr_addr + 1
                             /\ cpu'.dm_count = IF LastFill /\ ~last THEN cpu.dm_count + 1
                                                ELSE cpu.dm_count
                             /\ cpu'.im_count = cpu.im_count
           /\ FillsIm => LET last == cpu.im_count >= Len(IM_ADDRS) - 1
                         IN  /\ cpu'.state = IF ~LastFill THEN "INIT_IM"
                                             ELSE IF last THEN "RUN" ELSE "WAIT_INIT_IM"
                             /\ cpu'.im_curr_addr = cpu.im_curr_addr + 1
                             /\ cpu'.im_count = IF LastFill /\ ~last THEN cpu.im_count + 1
                                                ELSE cpu.im_count
                             /\ cpu'.dm_count = cpu.dm_count
           /\ cpu.state = "RUN" =>
                  cpu' = [cpu EXCEPT !.state = IF ex # NoStore THEN "WRT_HOST" ELSE @]
           /\ cpu.state = "WRT_HOST" =>
                  cpu' = [cpu EXCEPT !.state = IF Sends(wr_full) THEN "RUN" ELSE @]
<1> DEFINE in == ToCpu(~wr_full)
<1>1. /\ in.ready <=> mc.state # "STARTUP"
      /\ in.rd_valid <=> mc.state = "FILL" /\ Reads
      /\ in.tx_done <=> Sends(wr_full) \/ (mc.state = "FILL" /\ Reads /\ LastFill)
  BY Wires
<1>2. cpu' = Cpu!NextCpu(cpu, ex, in)
  BY DEF Clock
<1>3. cpu \in Cpus /\ InvPhase /\ mc \in Ctrl!MemCtrls
  BY DEF IInv, InvTypes
<1> HIDE DEF in
<1>4. CASE cpu.state = "CPU_IDLE"
  BY <1>1, <1>2, <1>3, <1>4 DEF Cpu!NextCpu, Cpus, WaitsDm, WaitsIm, FillsDm, FillsIm
<1>5. CASE WaitsDm
  <2>1. cpu.state = "WAIT_INIT_DM" /\ Reads
    BY <1>5 DEF WaitsDm, Reads, Waits
  <2>2. cpu' = Cpu!WaitInitDm(cpu, in)
    BY <1>2, <2>1 DEF Cpu!NextCpu
  <2>3. cpu' = [state |-> IF mc.state = "FILL" THEN "INIT_DM" ELSE "WAIT_INIT_DM",
                im_count |-> cpu.im_count, dm_count |-> cpu.dm_count,
                dm_curr_addr |-> Cpu!DmAddr(cpu) + 1, im_curr_addr |-> Cpu!ImAddr(cpu) + 1]
    BY <1>1, <1>3, <2>1, <2>2 DEF Cpu!WaitInitDm, Cpu!SetCurrAddr, Cpus
  <2>4. cpu' \in Cpus
    <3>1. Cpu!DmAddr(cpu) + 1 \in Nat /\ Cpu!ImAddr(cpu) + 1 \in Nat
      BY <1>3, InTables
    <3>2. cpu.dm_count \in 0 .. Len(DM_ADDRS) - 1 /\ cpu.im_count \in 0 .. Len(IM_ADDRS) - 1
      BY <1>3 DEF Cpus
    <3> QED
      BY <2>3, <3>1, <3>2 DEF Cpus
  <2> QED
    BY <1>3, <2>1, <2>3, <2>4, InTables DEF WaitsIm, FillsDm, FillsIm
<1>6. CASE WaitsIm
  <2>1. cpu.state = "WAIT_INIT_IM" /\ Reads
    BY <1>6 DEF WaitsIm, Reads, Waits
  <2>2. cpu' = Cpu!WaitInitIm(cpu, in)
    BY <1>2, <2>1 DEF Cpu!NextCpu
  <2>3. cpu' = [state |-> IF mc.state = "FILL" THEN "INIT_IM" ELSE "WAIT_INIT_IM",
                im_count |-> cpu.im_count, dm_count |-> cpu.dm_count,
                dm_curr_addr |-> Cpu!DmAddr(cpu) + 1, im_curr_addr |-> Cpu!ImAddr(cpu) + 1]
    BY <1>1, <1>3, <2>1, <2>2 DEF Cpu!WaitInitIm, Cpu!SetCurrAddr, Cpus
  <2>4. cpu' \in Cpus
    <3>1. Cpu!DmAddr(cpu) + 1 \in Nat /\ Cpu!ImAddr(cpu) + 1 \in Nat
      BY <1>3, InTables
    <3>2. cpu.dm_count \in 0 .. Len(DM_ADDRS) - 1 /\ cpu.im_count \in 0 .. Len(IM_ADDRS) - 1
      BY <1>3 DEF Cpus
    <3> QED
      BY <2>3, <3>1, <3>2 DEF Cpus
  <2> QED
    BY <1>3, <2>1, <2>3, <2>4, InTables DEF WaitsDm, FillsDm, FillsIm
<1>7. CASE FillsDm
  <2> DEFINE last == cpu.dm_count >= Len(DM_ADDRS) - 1
  <2>1. cpu.state = "INIT_DM" /\ Reads /\ mc.state = "FILL"
    BY <1>3, <1>7 DEF FillsDm, Reads, Fills, InvPhase
  <2>2. cpu' = Cpu!InitDm(cpu, in)
    BY <1>2, <2>1 DEF Cpu!NextCpu
  <2>3. in.tx_done <=> LastFill
    BY <1>1, <2>1 DEF Sends
  <2>4. cpu' = [state |-> IF ~LastFill THEN "INIT_DM"
                          ELSE IF last THEN "WAIT_INIT_IM" ELSE "WAIT_INIT_DM",
                im_count |-> cpu.im_count,
                dm_count |-> IF LastFill /\ ~last THEN cpu.dm_count + 1 ELSE cpu.dm_count,
                dm_curr_addr |-> cpu.dm_curr_addr + 1, im_curr_addr |-> cpu.im_curr_addr + 1]
    BY <1>3, <2>1, <2>2, <2>3 DEF Cpu!InitDm, Cpu!IncCurrAddr, Cpu!DmLast, Cpus
  <2>5. cpu' \in Cpus
    BY <1>3, <2>4, Tables DEF Cpus
  <2> QED
    BY <2>1, <2>4, <2>5 DEF WaitsDm, WaitsIm, FillsIm
<1>8. CASE FillsIm
  <2> DEFINE last == cpu.im_count >= Len(IM_ADDRS) - 1
  <2>1. cpu.state = "INIT_IM" /\ Reads /\ mc.state = "FILL"
    BY <1>3, <1>8 DEF FillsIm, Reads, Fills, InvPhase
  <2>2. cpu' = Cpu!InitIm(cpu, in)
    BY <1>2, <2>1 DEF Cpu!NextCpu
  <2>3. in.tx_done <=> LastFill
    BY <1>1, <2>1 DEF Sends
  <2>4. cpu' = [state |-> IF ~LastFill THEN "INIT_IM"
                          ELSE IF last THEN "RUN" ELSE "WAIT_INIT_IM",
                im_count |-> IF LastFill /\ ~last THEN cpu.im_count + 1 ELSE cpu.im_count,
                dm_count |-> cpu.dm_count,
                dm_curr_addr |-> cpu.dm_curr_addr + 1, im_curr_addr |-> cpu.im_curr_addr + 1]
    BY <1>3, <2>1, <2>2, <2>3 DEF Cpu!InitIm, Cpu!IncCurrAddr, Cpu!ImLast, Cpus
  <2>5. cpu' \in Cpus
    BY <1>3, <2>4, Tables DEF Cpus
  <2> QED
    BY <2>1, <2>4, <2>5 DEF WaitsDm, WaitsIm, FillsDm
<1>9. CASE cpu.state = "RUN"
  BY <1>2, <1>3, <1>9 DEF Cpu!NextCpu, Cpus, WaitsDm, WaitsIm, FillsDm, FillsIm
<1>10. CASE cpu.state = "WRT_HOST"
  <2>1. ~Reads
    BY <1>10 DEF Reads, Waits, Fills, WaitsDm, WaitsIm, FillsDm, FillsIm
  <2>2. in.tx_done <=> Sends(wr_full)
    BY <1>1, <2>1
  <2> QED
    BY <1>2, <1>3, <1>10, <2>2 DEF Cpu!NextCpu, Cpu!WrtHost, Cpus, WaitsDm, WaitsIm, FillsDm, FillsIm
<1> QED
  BY <1>3, <1>4, <1>5, <1>6, <1>7, <1>8, <1>9, <1>10
     DEF Cpus, WaitsDm, WaitsIm, FillsDm, FillsIm

\* The engine begins to read, and hands the line over.
BeginsRead == mc.state = "HOSTOP" /\ Waits /\ dma.dma_rd_remaining = 0
Takes == mc.state = "FILL" /\ Reads /\ ~fifo.empty

\* The engine's registers for reading.  It requests a line or not.
ReadRegisters(requests, answers) ==
    /\ requests => dma.cci_rd_remaining = 1
    /\ dma'.cci_rd_remaining = IF requests THEN 0 ELSE IF BeginsRead THEN Size
                               ELSE dma.cci_rd_remaining
    /\ dma'.cci_rd_pending = dma.cci_rd_pending + (IF requests THEN 1 ELSE 0)
                                                - (IF answers THEN 1 ELSE 0)
    /\ dma'.dma_rd_remaining = IF Takes THEN dma.dma_rd_remaining - 1
                               ELSE IF BeginsRead THEN Size ELSE dma.dma_rd_remaining
    /\ dma'.rd_addr = IF requests THEN Dma!Succ(dma.rd_addr)
                      ELSE IF BeginsRead THEN Target ELSE dma.rd_addr
    /\ dma'.c0Tx = IF requests THEN <<dma.rd_addr>> ELSE <<>>

\* In every edge it does one or the other.
LEMMA ReadRegistersStep ==
    ASSUME IInv,
           NEW host_init \in BOOLEAN, NEW rd_full \in BOOLEAN, NEW wr_full \in BOOLEAN,
           NEW answers \in BOOLEAN, NEW carries_out \in BOOLEAN,
           Clock(host_init, rd_full, wr_full, answers, carries_out)
    PROVE  \E requests \in BOOLEAN : ReadRegisters(requests, answers)
<1> DEFINE c == [c0TxAlmFull |-> rd_full, c1TxAlmFull |-> wr_full,
                 c1Empty |-> writes = <<>>,
                 rsp |-> IF answers THEN <<memory[reads[1]]>> ELSE <<>>]
           u == ToDma(~wr_full)
           requests == Dma!cci_rd_en(dma, fifo, c)
<1>1. dma' = Dma!NextDma(dma, fifo, u, c)
  BY DEF Clock
<1>2. /\ u.rd_go <=> mc.state = "HOSTOP" /\ Waits
      /\ u.rd_en <=> mc.state = "FILL" /\ Reads
      /\ Waits => u.rd_addr = Target
      /\ u.rd_size = Size
  BY Wires DEF ToDma
<1>3. /\ dma.cci_rd_remaining \in 0 .. 1 /\ dma.dma_rd_remaining \in 0 .. 1
      /\ dma.cci_rd_pending \in Int
  BY HostPathAssumption DEF IInv, InvTypes, Dma!Dmas
<1>4. Dma!rd_done(dma) <=> dma.dma_rd_remaining = 0
  BY <1>3 DEF Dma!rd_done
<1>5. Dma!takes(fifo, u) <=> mc.state = "FILL" /\ Reads /\ ~fifo.empty
  BY <1>2 DEF Dma!takes
<1>6. requests \in BOOLEAN /\ (requests => dma.cci_rd_remaining = 1)
  BY <1>3 DEF Dma!cci_rd_en
<1>7. Len(c.rsp) = IF answers THEN 1 ELSE 0
  BY LenProperties
<1> HIDE DEF c, u
<1>8. /\ dma'.cci_rd_remaining = IF requests THEN dma.cci_rd_remaining - 1
                                 ELSE IF u.rd_go /\ Dma!rd_done(dma) THEN u.rd_size
                                 ELSE dma.cci_rd_remaining
      /\ dma'.cci_rd_pending = dma.cci_rd_pending + (IF requests THEN 1 ELSE 0) - Len(c.rsp)
      /\ dma'.dma_rd_remaining = IF Dma!takes(fifo, u) THEN dma.dma_rd_remaining - 1
                                 ELSE IF u.rd_go /\ Dma!rd_done(dma) THEN u.rd_size
                                 ELSE dma.dma_rd_remaining
      /\ dma'.rd_addr = IF requests THEN Dma!Succ(dma.rd_addr)
                        ELSE IF u.rd_go /\ Dma!rd_done(dma) THEN u.rd_addr ELSE dma.rd_addr
      /\ dma'.c0Tx = IF requests THEN <<dma.rd_addr>> ELSE <<>>
  BY <1>1 DEF Dma!NextDma, Dma!next_pending
<1>9. CASE requests
  <2>1. ReadRegisters(TRUE, answers)
    BY <1>2, <1>3, <1>4, <1>5, <1>6, <1>7, <1>8, <1>9
       DEF ReadRegisters, BeginsRead, Takes
  <2> QED
    BY <2>1
<1>10. CASE ~requests
  <2>1. ReadRegisters(FALSE, answers)
    BY <1>2, <1>3, <1>4, <1>5, <1>6, <1>7, <1>8, <1>10
       DEF ReadRegisters, BeginsRead, Takes
  <2> QED
    BY <2>1
<1> QED
  BY <1>9, <1>10

\* The engine takes a store from the memory controller.
Begins == /\ mc.state = "HOSTOP" /\ cpu.state = "WRT_HOST"
          /\ ~dma.cci_wr_en_delayed /\ writes = <<>> /\ dma.cci_wr_remaining = 0

\* The engine's registers for writing.
LEMMA WriteRegistersStep ==
    ASSUME IInv,
           NEW host_init \in BOOLEAN, NEW rd_full \in BOOLEAN, NEW wr_full \in BOOLEAN,
           NEW answers \in BOOLEAN, NEW carries_out \in BOOLEAN,
           Clock(host_init, rd_full, wr_full, answers, carries_out)
    PROVE  LET sends == Sends(wr_full) /\ dma.cci_wr_remaining = 1
           IN  /\ dma'.cci_wr_remaining = IF sends THEN 0 ELSE IF Begins THEN Size
                                          ELSE dma.cci_wr_remaining
               /\ dma'.cci_wr_en_delayed <=> sends
               /\ dma'.wr_addr = IF Sends(wr_full) THEN Dma!Succ(dma.wr_addr)
                                 ELSE IF Begins THEN Corrected(ex.line) ELSE dma.wr_addr
               /\ dma'.c1Tx = IF sends THEN <<[line |-> dma.wr_addr, data |-> mc.line_buffer]>>
                              ELSE <<>>
<1> DEFINE c == [c0TxAlmFull |-> rd_full, c1TxAlmFull |-> wr_full,
                 c1Empty |-> writes = <<>>,
                 rsp |-> IF answers THEN <<memory[reads[1]]>> ELSE <<>>]
           u == ToDma(~wr_full)
           sends == Sends(wr_full) /\ dma.cci_wr_remaining = 1
<1>1. dma' = Dma!NextDma(dma, fifo, u, c)
  BY DEF Clock
<1>2. /\ u.wr_go <=> mc.state = "HOSTOP" /\ cpu.state = "WRT_HOST"
      /\ u.wr_en <=> Sends(wr_full)
      /\ cpu.state = "WRT_HOST" => u.wr_addr = Corrected(ex.line)
      /\ u.wr_size = Size /\ u.wr_data = mc.line_buffer
  BY Wires DEF ToDma
<1>3. dma.cci_wr_remaining \in 0 .. 1 /\ dma.cci_wr_en_delayed \in BOOLEAN
  BY HostPathAssumption DEF IInv, InvTypes, Dma!Dmas
<1>4. Dma!wr_done(dma, c) <=>
          ~dma.cci_wr_en_delayed /\ writes = <<>> /\ dma.cci_wr_remaining = 0
  <2>1. c.c1Empty <=> writes = <<>>
    OBVIOUS
  <2> HIDE DEF c
  <2> QED
    BY <1>3, <2>1 DEF Dma!wr_done, Dma!writes_are_pending
<1>5. Dma!cci_wr_en(dma, u, c) <=> sends
  BY <1>2, <1>3 DEF Dma!cci_wr_en, Sends
<1>6. u.wr_en /\ ~c.c1TxAlmFull <=> Sends(wr_full)
  BY <1>2 DEF Sends
<1> HIDE DEF c, u
<1>7. LET wr_go == u.wr_go /\ Dma!wr_done(dma, c)
          wr_en == Dma!cci_wr_en(dma, u, c)
      IN  /\ dma'.cci_wr_remaining = IF wr_en THEN dma.cci_wr_remaining - 1
                                     ELSE IF wr_go THEN u.wr_size
                                     ELSE dma.cci_wr_remaining
          /\ dma'.cci_wr_en_delayed <=> wr_en
          /\ dma'.wr_addr = IF u.wr_en /\ ~c.c1TxAlmFull THEN Dma!Succ(dma.wr_addr)
                            ELSE IF wr_go THEN u.wr_addr ELSE dma.wr_addr
          /\ dma'.c1Tx = IF wr_en THEN <<[line |-> dma.wr_addr, data |-> u.wr_data]>>
                         ELSE <<>>
  BY <1>1 DEF Dma!NextDma
<1> QED
  BY <1>2, <1>3, <1>4, <1>5, <1>6, <1>7 DEF Begins

-----------------------------------------------------------------------------
(* A FIFO that holds one line at most. *)

\* A line goes in, or out, or neither.
LEMMA OneLineFifo ==
    ASSUME NEW f \in Dma!Fifos, Dma!FifoOK(f), f.count \in {0, 1},
           NEW rd_en \in BOOLEAN, NEW wr_en \in BOOLEAN, NEW d,
           wr_en => d \in Ctrl!CacheLines /\ f.count = 0 /\ ~f.full
    PROVE  LET g == Dma!NextFifo(f, rd_en, wr_en, d)
           IN  /\ g \in Dma!Fifos /\ Dma!FifoOK(g)
               /\ g.count = IF wr_en THEN 1 ELSE IF rd_en THEN 0 ELSE f.count
               /\ wr_en => g.rd_data = d
               /\ ~wr_en /\ ~rd_en /\ f.count = 1 => g.rd_data = f.rd_data
               /\ g.count = 0 => ~g.full
<1> DEFINE g == Dma!NextFifo(f, rd_en, wr_en, d)
           wr == wr_en
           rd == rd_en /\ f.count = 1
<1>1. /\ f.empty <=> f.count = 0
      /\ f.count \in Nat /\ f.space = Depth - f.count
      /\ f.rd_addr \in Dma!Addr /\ f.wr_addr \in Dma!Addr
      /\ f.mem \in [Dma!Addr -> Ctrl!CacheLines]
      /\ f.count = 1 => f.rd_data = f.mem[f.rd_addr]
      /\ f.wr_addr = IF f.count = 0 THEN f.rd_addr ELSE Dma!Wrap(f.rd_addr + 1)
  <2>1. /\ f.rd_addr \in Dma!Addr /\ f.wr_addr \in Dma!Addr
        /\ f.mem \in [Dma!Addr -> Ctrl!CacheLines]
    BY DEF Dma!Fifos
  <2>2. f.rd_addr \in 0 .. AddrSpace - 1
    BY <2>1 DEF Dma!Addr
  <2>3. Dma!Wrap(f.rd_addr + 0) = f.rd_addr
    BY <2>2, HostPathAssumption DEF Dma!Wrap
  <2>4. f.wr_addr = Dma!Wrap(f.rd_addr + f.count)
    BY DEF Dma!FifoOK, Dma!PointersAgree
  <2> QED
    BY <2>1, <2>3, <2>4 DEF Dma!FifoOK, Dma!FlagsAgree, Dma!FirstIsShown
<1>2. \A a \in Dma!Addr : Dma!Wrap(a + 1) \in Dma!Addr /\ Dma!Wrap(a + 0) = a
  BY HostPathAssumption DEF Dma!Wrap, Dma!Addr
<1>3. /\ Dma!valid_rd(f, rd_en) <=> rd
      /\ Dma!valid_wr(f, wr_en) <=> wr
  BY <1>1 DEF Dma!valid_rd, Dma!valid_wr
<1>4. wr => ~rd /\ f.count = 0
  OBVIOUS
<1>5. /\ Dma!next_count(f, rd_en, wr_en) = IF wr THEN 1 ELSE IF rd THEN 0 ELSE f.count
      /\ Dma!next_space(f, rd_en, wr_en) = Depth - (IF wr THEN 1 ELSE IF rd THEN 0 ELSE f.count)
  BY <1>1, <1>3, <1>4, HostPathAssumption DEF Dma!next_count, Dma!next_space
<1>6. Dma!next_mem(f, wr_en, d) = IF wr THEN [f.mem EXCEPT ![f.wr_addr] = d] ELSE f.mem
  BY <1>3 DEF Dma!next_mem
<1>7. Dma!rd_addr_adjusted(f, rd_en) = IF rd THEN Dma!Wrap(f.rd_addr + 1) ELSE f.rd_addr
  BY <1>3 DEF Dma!rd_addr_adjusted
<1> DEFINE n == IF wr THEN 1 ELSE IF rd THEN 0 ELSE f.count
           m == IF wr THEN [f.mem EXCEPT ![f.wr_addr] = d] ELSE f.mem
           a == IF rd THEN Dma!Wrap(f.rd_addr + 1) ELSE f.rd_addr
<1>8. g = [mem |-> m, rd_data |-> m[a],
           wr_addr |-> IF wr THEN Dma!Wrap(f.wr_addr + 1) ELSE f.wr_addr, rd_addr |-> a,
           count |-> n, space |-> Depth - n, full |-> n = Depth, empty |-> n = 0]
  BY <1>3, <1>5, <1>6, <1>7 DEF Dma!NextFifo
<1>9. n \in Nat /\ n \in 0 .. Depth /\ Depth - n \in 0 .. Depth /\ n \in {0, 1}
  BY <1>1, HostPathAssumption
<1>10. m \in [Dma!Addr -> Ctrl!CacheLines]
  BY <1>1
<1>11. a \in Dma!Addr
  BY <1>1, <1>2
<1>12. m[a] \in Ctrl!CacheLines
  BY <1>10, <1>11
<1>13. (IF wr THEN Dma!Wrap(f.wr_addr + 1) ELSE f.wr_addr) = IF n = 0 THEN a ELSE Dma!Wrap(a + 1)
  BY <1>1, <1>2
<1>14. (IF wr THEN Dma!Wrap(f.wr_addr + 1) ELSE f.wr_addr) \in Dma!Addr
  BY <1>1, <1>2
<1>15. wr_en => m[a] = d
  BY <1>1
<1>16. ~wr_en /\ ~rd_en /\ f.count = 1 => m[a] = f.rd_data
  BY <1>1
<1>17. n = IF wr_en THEN 1 ELSE IF rd_en THEN 0 ELSE f.count
  OBVIOUS
<1> HIDE DEF g, m, a, n, wr, rd
<1>18. g \in Dma!Fifos
  BY <1>8, <1>9, <1>10, <1>11, <1>12, <1>14 DEF Dma!Fifos
<1>19. Dma!Wrap(a + n) = IF n = 0 THEN a ELSE Dma!Wrap(a + 1)
  BY <1>2, <1>9, <1>11
<1>20. Dma!FifoOK(g)
  BY <1>8, <1>9, <1>13, <1>19, HostPathAssumption
     DEF Dma!FifoOK, Dma!FlagsAgree, Dma!PointersAgree, Dma!FirstIsShown
<1>21. g.count = n /\ (g.full <=> n = Depth) /\ g.rd_data = m[a]
  BY <1>8
<1>22. g.count = 0 => ~g.full
  BY <1>21, HostPathAssumption
<1> QED
  BY <1>15, <1>16, <1>17, <1>18, <1>20, <1>21, <1>22 DEF g

-----------------------------------------------------------------------------
(* The channels, the memory and the program. *)

\* A sequence of one element at most.
LEMMA OneElement ==
    ASSUME NEW S, NEW s \in Dma!AtMostOne(S)
    PROVE  /\ s \in Seq(S)
           /\ s # <<>> => s = <<s[1]>> /\ s[1] \in S /\ Len(s) = 1 /\ Tail(s) = <<>>
           /\ s = <<>> => Len(s) = 0
<1>1. CASE s = <<>>
  BY <1>1, EmptySeq
<1>2. CASE s # <<>>
  <2>1. PICK e \in S : s = <<e>>
    BY <1>2 DEF Dma!AtMostOne
  <2>2. s \in Seq(S) /\ s[1] = e /\ Len(s) = 1 /\ Tail(s) = <<>>
    BY <2>1
  <2> QED
    BY <2>1, <2>2
<1> QED
  BY <1>1, <1>2

\* Nothing before and nothing behind changes nothing.
LEMMA AfterNothing ==
    ASSUME NEW S, NEW s \in Dma!AtMostOne(S), NEW t \in Dma!AtMostOne(S)
    PROVE  /\ <<>> \o t = t
           /\ t = <<>> => s \o t = s
BY OneElement, ConcatEmptySeq

\* Of one write the host carries out the first; nothing is left before or after it.
LEMMA WithoutFirst ==
    ASSUME NEW S, NEW s \in Dma!AtMostOne(S), NEW t \in Dma!AtMostOne(S),
           NEW n \in 1 .. Len(s)
    PROVE  n = 1 /\ SubSeq(s, 1, n - 1) \o SubSeq(s, n + 1, Len(s)) \o t = t
<1>1. s # <<>> /\ Len(s) = 1 /\ s \in Seq(S)
  BY OneElement
<1>2. n = 1
  BY <1>1
<1>3. SubSeq(s, 1, 0) = <<>> /\ SubSeq(s, 2, 1) = <<>>
  BY <1>1, SubSeqProperties
<1>4. <<>> \o <<>> = <<>> /\ <<>> \o t = t
  BY OneElement, ConcatEmptySeq, EmptySeq
<1>5. n - 1 = 0 /\ n + 1 = 2
  BY <1>2
<1>6. SubSeq(s, 1, n - 1) \o SubSeq(s, n + 1, Len(s)) = <<>>
  BY <1>1, <1>3, <1>4, <1>5
<1> QED
  BY <1>1, <1>2, <1>4, <1>6

\* A read of the engine enters the channel, and leaves it with the answer.
LEMMA ReadsStep ==
    ASSUME IInv,
           NEW host_init \in BOOLEAN, NEW rd_full \in BOOLEAN, NEW wr_full \in BOOLEAN,
           NEW answers \in BOOLEAN, NEW carries_out \in BOOLEAN,
           Clock(host_init, rd_full, wr_full, answers, carries_out)
    PROVE  /\ answers => reads # <<>>
           /\ reads' = IF answers \/ reads = <<>> THEN dma.c0Tx ELSE reads
<1>1. /\ reads \in Dma!AtMostOne(HostLines) /\ dma.c0Tx \in Dma!AtMostOne(HostLines)
      /\ answers => reads # <<>>
      /\ reads' = (IF answers THEN Tail(reads) ELSE reads) \o dma.c0Tx
  BY DEF IInv, InvTypes, Dma!Dmas, Dma!Lines, HostLines, Clock
<1>2. reads # <<>> => dma.c0Tx = <<>>
  <2>1. NoRead \/ ToRequest \/ Requested \/ Buffered
    BY DEF IInv, InvTypes, InvPhase, InvRead, AskedFor, Ctrl!MemCtrls, Waits, WaitsDm, WaitsIm
  <2> QED
    BY <2>1 DEF NoRead, ToRequest, Requested, Buffered
<1>3. CASE answers
  <2>1. Tail(reads) = <<>>
    BY <1>1, <1>3, OneElement
  <2> QED
    BY <1>1, <1>3, <2>1, AfterNothing
<1>4. CASE ~answers
  BY <1>1, <1>2, <1>4, AfterNothing
<1> QED
  BY <1>3, <1>4

\* A write of the engine enters the channel, and leaves it for the memory.
LEMMA WritesStep ==
    ASSUME IInv,
           NEW host_init \in BOOLEAN, NEW rd_full \in BOOLEAN, NEW wr_full \in BOOLEAN,
           NEW answers \in BOOLEAN, NEW carries_out \in BOOLEAN,
           Clock(host_init, rd_full, wr_full, answers, carries_out)
    PROVE  /\ carries_out => writes # <<>>
           /\ writes' = IF carries_out \/ writes = <<>> THEN dma.c1Tx ELSE writes
           /\ memory' = IF carries_out THEN [memory EXCEPT ![writes[1].line] = writes[1].data]
                        ELSE memory
<1>1. /\ writes \in Dma!AtMostOne(Dma!Requests) /\ dma.c1Tx \in Dma!AtMostOne(Dma!Requests)
      /\ carries_out => writes # <<>>
      /\ dma.c1Tx # <<>> => writes = <<>>
  BY DEF IInv, InvTypes, InvWrite, Dma!Dmas, Clock
<1>2. CASE carries_out
  <2>1. PICK n \in 1 .. Len(writes) :
            /\ memory' = [memory EXCEPT ![writes[n].line] = writes[n].data]
            /\ writes' = SubSeq(writes, 1, n - 1) \o
                         SubSeq(writes, n + 1, Len(writes)) \o dma.c1Tx
    BY <1>2 DEF Clock
  <2>2. /\ n = 1
        /\ SubSeq(writes, 1, n - 1) \o SubSeq(writes, n + 1, Len(writes)) \o dma.c1Tx = dma.c1Tx
    BY <1>1, WithoutFirst, Zenon
  <2> QED
    BY <1>1, <1>2, <2>1, <2>2
<1>3. CASE ~carries_out
  <2>1. memory' = memory /\ writes' = writes \o dma.c1Tx
    BY <1>3 DEF Clock
  <2> QED
    BY <1>1, <1>3, <2>1, AfterNothing
<1> QED
  BY <1>2, <1>3

\* While the program is not running nothing changes the host's memory.
LEMMA MemoryRests ==
    ASSUME IInv, ~Runs,
           NEW host_init \in BOOLEAN, NEW rd_full \in BOOLEAN, NEW wr_full \in BOOLEAN,
           NEW answers \in BOOLEAN, NEW carries_out \in BOOLEAN,
           Clock(host_init, rd_full, wr_full, answers, carries_out)
    PROVE  memory' = memory
BY WritesStep DEF IInv, InvWrite

\* The pipeline stalls until a store is done.
Stalls(wr_full) == CASE cpu.state = "RUN" -> ex # NoStore
                     [] cpu.state = "WRT_HOST" -> ~Sends(wr_full)
                     [] OTHER -> TRUE

\* A program that waits between its stores waits until the last one has arrived.
MayStore == careful => writes' = <<>> /\ dma'.c1Tx = <<>>

\* The edge for the program: a store is counted when it is sent.
LEMMA ProgramStep ==
    ASSUME IInv,
           NEW host_init \in BOOLEAN, NEW rd_full \in BOOLEAN, NEW wr_full \in BOOLEAN,
           NEW answers \in BOOLEAN, NEW carries_out \in BOOLEAN,
           Clock(host_init, rd_full, wr_full, answers, carries_out)
    PROVE  /\ stores' = IF Sends(wr_full) THEN stores + 1 ELSE stores
           /\ stores' \in 0 .. MaxStores
           /\ ex' \in Stores \cup {NoStore}
           /\ ex' # NoStore => ex'.data = stores' + 1
           /\ Stalls(wr_full) => ex' = ex
           /\ ~Stalls(wr_full) /\ ex' # NoStore => MayStore
<1>1. /\ cpu \in Cpus /\ stores \in 0 .. MaxStores /\ ex \in Stores \cup {NoStore}
      /\ ex # NoStore => ex.data = stores + 1
      /\ InvPhase /\ MaxStores \in Nat
  BY HostPathAssumption DEF IInv, InvTypes
<1>2. cpu.state = "WRT_HOST" => (ToCpu(~wr_full).tx_done <=> Sends(wr_full))
  <2>1. cpu.state = "WRT_HOST" => ~Reads
    BY DEF Reads, Waits, Fills, WaitsDm, WaitsIm, FillsDm, FillsIm
  <2> QED
    BY <2>1, Wires
<1>3. Sends(wr_full) => cpu.state = "WRT_HOST" /\ ex # NoStore
  BY <1>1 DEF Sends, InvPhase
<1>4. stores' = IF Sends(wr_full) THEN stores + 1 ELSE stores
  <2>1. StoreDone(~wr_full) <=> Sends(wr_full)
    BY <1>2, <1>3 DEF StoreDone
  <2> QED
    BY <2>1 DEF Clock
<1>5. Cpu!host_stall(cpu, ex, ToCpu(~wr_full)) <=> Stalls(wr_full)
  BY <1>2 DEF Cpu!host_stall, Stalls
<1>6. NextInstruction(~wr_full)
  BY DEF Clock
<1>7. stores' \in 0 .. MaxStores
  <2>1. ex # NoStore => stores + 1 \in 1 .. MaxStores
    BY <1>1 DEF Stores
  <2> QED
    BY <1>1, <1>3, <1>4, <2>1
<1>8. CASE Stalls(wr_full)
  <2>1. ex' = ex
    BY <1>5, <1>6, <1>8 DEF NextInstruction
  <2>2. ex # NoStore => ~Sends(wr_full)
    BY <1>3, <1>8 DEF Stalls
  <2> QED
    BY <1>1, <1>4, <1>7, <1>8, <2>1, <2>2
<1>9. CASE ~Stalls(wr_full)
  <2>1. CASE ex' = NoStore
    BY <1>4, <1>7, <1>9, <2>1
  <2>2. CASE ex' # NoStore
    <3>1. /\ stores' < MaxStores
          /\ MayStore
          /\ \E l \in StoreLines : ex' = [line |-> l, data |-> stores' + 1]
      BY <1>5, <1>6, <1>9, <2>2 DEF NextInstruction, MayStore
    <3>2. PICK l \in StoreLines : ex' = [line |-> l, data |-> stores' + 1]
      BY <3>1
    <3>3. stores' + 1 \in 1 .. MaxStores
      <4>1. \A n \in 0 .. MaxStores : n < MaxStores => n + 1 \in 1 .. MaxStores
        BY HostPathAssumption
      <4> QED
        BY <1>7, <3>1, <4>1, Zenon
    <3> QED
      BY <1>4, <1>7, <1>9, <2>2, <3>1, <3>2, <3>3 DEF Stores
  <2> QED
    BY <2>1, <2>2
<1> QED
  BY <1>8, <1>9

-----------------------------------------------------------------------------
(* The invariant over a rising edge. *)

\* Where the two state machines can be.
LEMMA Phases ==
    ASSUME IInv
    PROVE  /\ \/ cpu.state = "CPU_IDLE" /\ mc.state \in {"STARTUP", "READY"}
              \/ Waits /\ mc.state \in {"READY", "HOSTOP", "FILL"}
              \/ Fills /\ mc.state = "FILL"
              \/ cpu.state = "RUN" /\ mc.state = "READY"
              \/ cpu.state = "WRT_HOST" /\ mc.state \in {"FILL", "HOSTOP"}
           /\ mc.state \in {"STARTUP", "READY", "FILL", "HOSTOP"}
           /\ mc.fill_count \in 0 .. FillCount - 1 /\ mc.bubble \in BOOLEAN
BY DEF IInv, InvTypes, InvPhase, Cpus, Ctrl!MemCtrls, Ctrl!WordIndex, Waits, Fills, WaitsDm,
       WaitsIm, FillsDm, FillsIm

\* Phases: the CPU and the controller agree on where they are.
LEMMA PhaseStep ==
    ASSUME IInv,
           NEW host_init \in BOOLEAN, NEW rd_full \in BOOLEAN, NEW wr_full \in BOOLEAN,
           NEW answers \in BOOLEAN, NEW carries_out \in BOOLEAN,
           Clock(host_init, rd_full, wr_full, answers, carries_out)
    PROVE  InvPhase'
<1>1. mc \in Ctrl!MemCtrls /\ cpu \in Cpus /\ InvPhase
  BY DEF IInv, InvTypes
<1>2. FillCount \in Nat /\ FillCount >= 2 /\ mc.fill_count \in 0 .. FillCount - 1
  BY HostPathAssumption, Phases
<1>3. CASE cpu.state = "CPU_IDLE"
  <2>1. ~Reads /\ ~Writes /\ ex = NoStore
    BY <1>1, <1>3 DEF Reads, Writes, Waits, Fills, WaitsDm, WaitsIm, FillsDm, FillsIm, InvPhase, Runs
  <2>2. mc' \in {mc, [mc EXCEPT !.state = "READY"]}
    BY <1>1, <1>3, <2>1, McStep DEF InvPhase, Ctrl!MemCtrls
  <2>3. cpu' = [cpu EXCEPT !.state = IF mc.state # "STARTUP" THEN "WAIT_INIT_DM" ELSE @]
    BY <1>3, CpuStep
  <2>4. ex' = NoStore
    BY <1>3, <2>1, ProgramStep DEF Stalls
  <2>5. mc.state = "READY" => mc' = [mc EXCEPT !.state = "READY"]
    BY <2>1, McStep
  <2> QED
    BY <1>1, <1>3, <2>2, <2>3, <2>4, <2>5
       DEF InvPhase, Ctrl!MemCtrls, Cpus, Waits, Fills, WaitsDm, WaitsIm, FillsDm, FillsIm, Runs
<1>4. CASE Waits
  <2>1. Reads /\ cpu.state \in {"WAIT_INIT_DM", "WAIT_INIT_IM"} /\ ex = NoStore
    BY <1>1, <1>4 DEF Reads, Waits, WaitsDm, WaitsIm, InvPhase, Runs
  <2>2. ex' = NoStore
    BY <2>1, ProgramStep DEF Stalls
  <2>3. cpu'.state = IF mc.state = "FILL" THEN (IF WaitsDm THEN "INIT_DM" ELSE "INIT_IM")
                     ELSE cpu.state
    BY <1>4, CpuStep DEF Waits, WaitsDm, WaitsIm
  <2>4. CASE mc.state = "FILL"
    <3>1. mc.fill_count = 0 /\ ~LastFill
      BY <1>1, <1>2, <1>4, <2>4 DEF InvPhase, LastFill
    <3>2. mc' = [mc EXCEPT !.fill_count = 1, !.state = "FILL"]
      BY <1>2, <2>1, <2>4, <3>1, McStep
    <3>3. mc'.state = "FILL" /\ mc'.fill_count = 1 /\ ~mc'.bubble
      BY <1>1, <2>1, <2>4, <3>2 DEF InvPhase, Ctrl!MemCtrls
    <3> QED
      BY <2>1, <2>2, <2>3, <2>4, <3>3
         DEF InvPhase, Waits, Fills, WaitsDm, WaitsIm, FillsDm, FillsIm, Runs
  <2>5. CASE mc.state \in {"READY", "HOSTOP"}
    <3>1. /\ mc'.state \in {"READY", "HOSTOP", "FILL"}
          /\ mc'.fill_count = 0 /\ mc'.bubble = FALSE
      <4>1. mc.fill_count = 0 /\ mc.bubble = FALSE
        BY <1>1, <2>1, <2>5 DEF InvPhase, Ctrl!MemCtrls
      <4>2. \/ mc' = [mc EXCEPT !.state = "HOSTOP"]
            \/ mc' = mc
            \/ mc' = [mc EXCEPT !.line_buffer = fifo.rd_data, !.state = "FILL"]
        BY <1>4, <2>1, <2>5, McStep
      <4> QED
        BY <1>1, <2>5, <4>1, <4>2 DEF Ctrl!MemCtrls
    <3> QED
      BY <2>1, <2>2, <2>3, <2>5, <3>1
         DEF InvPhase, Waits, Fills, WaitsDm, WaitsIm, FillsDm, FillsIm, Runs
  <2> QED
    BY <1>4, <2>4, <2>5, Phases DEF Waits, WaitsDm, WaitsIm, Fills, FillsDm, FillsIm
<1>5. CASE Fills
  <2>1. /\ Reads /\ cpu.state \in {"INIT_DM", "INIT_IM"} /\ ex = NoStore
        /\ mc.state = "FILL" /\ mc.fill_count >= 1
    BY <1>1, <1>5 DEF Reads, Fills, FillsDm, FillsIm, InvPhase, Runs
  <2>2. ex' = NoStore
    BY <2>1, ProgramStep DEF Stalls
  <2>3. /\ ~LastFill => cpu'.state = cpu.state
        /\ LastFill => cpu'.state \in {"WAIT_INIT_DM", "WAIT_INIT_IM", "RUN"}
    BY <1>5, CpuStep DEF Fills, FillsDm, FillsIm
  <2>4. mc' = [mc EXCEPT !.fill_count = IF LastFill THEN 0 ELSE @ + 1,
                         !.state = IF LastFill THEN "READY" ELSE "FILL"]
    BY <2>1, McStep
  <2> QED
    BY <1>1, <1>2, <2>1, <2>2, <2>3, <2>4
       DEF InvPhase, Ctrl!MemCtrls, Waits, Fills, WaitsDm, WaitsIm, FillsDm, FillsIm, Runs
<1>6. CASE cpu.state = "RUN"
  <2>1. ~Reads /\ mc.state = "READY" /\ (Writes <=> ex # NoStore)
    BY <1>1, <1>6 DEF Reads, Writes, Waits, Fills, WaitsDm, WaitsIm, FillsDm, FillsIm, InvPhase
  <2>2. mc' = [mc EXCEPT !.state = IF ex # NoStore THEN "FILL" ELSE "READY"]
    BY <2>1, McStep
  <2>3. cpu' = [cpu EXCEPT !.state = IF ex # NoStore THEN "WRT_HOST" ELSE @]
    BY <1>6, CpuStep
  <2>4. ex # NoStore => ex' = ex
    BY <1>6, ProgramStep DEF Stalls
  <2> QED
    BY <1>1, <1>6, <2>1, <2>2, <2>3, <2>4
       DEF InvPhase, Ctrl!MemCtrls, Cpus, Waits, Fills, WaitsDm, WaitsIm, FillsDm, FillsIm, Runs
<1>7. CASE cpu.state = "WRT_HOST"
  <2>1. /\ mc.state \in {"FILL", "HOSTOP"} /\ ex # NoStore
        /\ mc.bubble => mc.state = "HOSTOP"
        /\ mc.state = "HOSTOP" => mc.fill_count = 0
    BY <1>1, <1>7 DEF InvPhase
  <2>2. cpu' = [cpu EXCEPT !.state = IF Sends(wr_full) THEN "RUN" ELSE @]
    BY <1>7, CpuStep
  <2>3. ~Sends(wr_full) => ex' = ex
    BY <1>7, ProgramStep DEF Stalls
  <2>4. CASE mc.state = "FILL"
    <3>1. mc' = [mc EXCEPT !.fill_count = IF LastFill THEN 0 ELSE @ + 1,
                           !.line_buffer = StoredLine(ex.data),
                           !.state = IF LastFill THEN "HOSTOP" ELSE "FILL"]
      BY <1>7, <2>4, McStep
    <3>2. ~Sends(wr_full)
      BY <2>4 DEF Sends
    <3> QED
      BY <1>1, <1>7, <2>1, <2>2, <2>3, <2>4, <3>1, <3>2
         DEF InvPhase, Ctrl!MemCtrls, Cpus, Waits, Fills, WaitsDm, WaitsIm, FillsDm, FillsIm, Runs
  <2>5. CASE mc.state = "HOSTOP"
    <3>1. mc' = IF ~mc.bubble THEN [mc EXCEPT !.bubble = TRUE]
                ELSE IF wr_full THEN mc
                ELSE [mc EXCEPT !.state = "READY", !.bubble = FALSE]
      BY <1>7, <2>5, McStep
    <3>2. Sends(wr_full) <=> mc.bubble /\ ~wr_full
      BY <2>5 DEF Sends
    <3> QED
      BY <1>1, <1>7, <2>1, <2>2, <2>3, <2>5, <3>1, <3>2
         DEF InvPhase, Ctrl!MemCtrls, Cpus, Waits, Fills, WaitsDm, WaitsIm, FillsDm, FillsIm, Runs
  <2> QED
    BY <2>1, <2>4, <2>5
<1> QED
  BY <1>3, <1>4, <1>5, <1>6, <1>7, Phases

\* The FIFO takes the host's answer, and is read in every cycle of a fill.
LEMMA FifoStep ==
    ASSUME IInv,
           NEW host_init \in BOOLEAN, NEW rd_full \in BOOLEAN, NEW wr_full \in BOOLEAN,
           NEW answers \in BOOLEAN, NEW carries_out \in BOOLEAN,
           Clock(host_init, rd_full, wr_full, answers, carries_out),
           fifo.count \in {0, 1}, answers => fifo.count = 0 /\ ~fifo.full
    PROVE  /\ fifo' \in Dma!Fifos /\ Dma!FifoOK(fifo')
           /\ fifo'.count = IF answers THEN 1
                            ELSE IF mc.state = "FILL" /\ Reads THEN 0 ELSE fifo.count
           /\ answers => fifo'.rd_data = memory[reads[1]]
           /\ ~answers /\ mc.state # "FILL" /\ fifo.count = 1 => fifo'.rd_data = fifo.rd_data
           /\ fifo'.count = 0 => ~fifo'.full
<1> DEFINE c == [c0TxAlmFull |-> rd_full, c1TxAlmFull |-> wr_full,
                 c1Empty |-> writes = <<>>,
                 rsp |-> IF answers THEN <<memory[reads[1]]>> ELSE <<>>]
           rd_en == ToDma(~wr_full).rd_en
           wr_en == c.rsp # <<>>
           d == c.rsp[1]
<1>1. fifo' = Dma!NextFifo(fifo, rd_en, wr_en, d)
  BY DEF Clock, Dma!NextRdFifo
<1>2. rd_en <=> mc.state = "FILL" /\ Reads
  BY Wires
<1>3. rd_en \in BOOLEAN
  BY DEF ToDma, Ctrl!host_re, Ctrl!rd_valid
<1>4. /\ wr_en <=> answers
      /\ answers => d = memory[reads[1]]
  OBVIOUS
<1>5. answers => memory[reads[1]] \in Ctrl!CacheLines
  <2>1. reads \in Dma!AtMostOne(HostLines) /\ memory \in [HostLines -> Ctrl!CacheLines]
    BY DEF IInv, InvTypes
  <2>2. answers => reads # <<>>
    BY ReadsStep
  <2> QED
    BY <2>1, <2>2, OneElement
<1>6. fifo \in Dma!Fifos /\ Dma!FifoOK(fifo)
  BY DEF IInv, InvTypes, InvFifo
<1> HIDE DEF rd_en, wr_en, d
<1>7. wr_en \in BOOLEAN /\ (wr_en => d \in Ctrl!CacheLines /\ fifo.count = 0 /\ ~fifo.full)
  <2>1. wr_en \in BOOLEAN
    BY DEF wr_en
  <2> QED
    BY <2>1, <1>4, <1>5
<1>8. /\ fifo' \in Dma!Fifos /\ Dma!FifoOK(fifo')
      /\ fifo'.count = IF wr_en THEN 1 ELSE IF rd_en THEN 0 ELSE fifo.count
      /\ wr_en => fifo'.rd_data = d
      /\ ~wr_en /\ ~rd_en /\ fifo.count = 1 => fifo'.rd_data = fifo.rd_data
      /\ fifo'.count = 0 => ~fifo'.full
  BY <1>1, <1>3, <1>6, <1>7, OneLineFifo
<1> QED
  BY <1>2, <1>4, <1>8

\* The line that is loaded stays the same until its last word is copied.
LEMMA TargetStays ==
    ASSUME IInv, Waits \/ (Fills /\ ~LastFill),
           NEW host_init \in BOOLEAN, NEW rd_full \in BOOLEAN, NEW wr_full \in BOOLEAN,
           NEW answers \in BOOLEAN, NEW carries_out \in BOOLEAN,
           Clock(host_init, rd_full, wr_full, answers, carries_out)
    PROVE  /\ Target' = Target /\ Answer' = Answer
           /\ WaitsDm \/ FillsDm <=> WaitsDm' \/ FillsDm'
<1>1. ~Runs
  BY DEF Runs, Waits, Fills, WaitsDm, WaitsIm, FillsDm, FillsIm
<1>2. memory' = memory
  BY <1>1, MemoryRests
<1>3. /\ cpu'.dm_count = cpu.dm_count /\ cpu'.im_count = cpu.im_count
      /\ WaitsDm \/ FillsDm <=> WaitsDm' \/ FillsDm'
  BY CpuStep DEF Waits, Fills, WaitsDm, WaitsIm, FillsDm, FillsIm
<1>4. Target' = Target
  BY <1>3 DEF Target, DmTarget, ImTarget, DmLine, ImLine
<1> QED
  BY <1>2, <1>3, <1>4 DEF Answer

\* When nothing is read nothing begins to be.
LEMMA NoReadStep ==
    ASSUME IInv, NoRead, ~BeginsRead,
           NEW host_init \in BOOLEAN, NEW rd_full \in BOOLEAN, NEW wr_full \in BOOLEAN,
           NEW answers \in BOOLEAN, NEW carries_out \in BOOLEAN,
           Clock(host_init, rd_full, wr_full, answers, carries_out)
    PROVE  NoRead'
<1>1. ~answers /\ reads' = <<>>
  BY ReadsStep DEF NoRead
<1>2. fifo'.count = 0 /\ ~Takes
  <2>1. fifo.empty
    BY DEF NoRead, IInv, InvFifo, Dma!FifoOK, Dma!FlagsAgree
  <2> QED
    BY <1>1, <2>1, FifoStep DEF NoRead, Takes
<1>3. PICK requests \in BOOLEAN : ReadRegisters(requests, answers)
  BY ReadRegistersStep
<1>4. ~requests
  BY <1>3 DEF ReadRegisters, NoRead
<1> QED
  BY <1>1, <1>2, <1>3, <1>4 DEF ReadRegisters, NoRead

\* Once the line is asked for it goes on to the FIFO.
LEMMA AskedForStep ==
    ASSUME IInv, Waits, mc.state = "HOSTOP", NoRead \/ AskedFor,
           NEW host_init \in BOOLEAN, NEW rd_full \in BOOLEAN, NEW wr_full \in BOOLEAN,
           NEW answers \in BOOLEAN, NEW carries_out \in BOOLEAN,
           Clock(host_init, rd_full, wr_full, answers, carries_out)
    PROVE  /\ AskedFor'
           /\ mc' = mc \/ (Buffered' /\ mc' = [mc EXCEPT !.line_buffer = Answer', !.state = "FILL"])
<1>1. PICK requests \in BOOLEAN : ReadRegisters(requests, answers)
  BY ReadRegistersStep
<1>2. ~Takes /\ Reads
  BY DEF Takes, Reads
<1>3. Target' = Target /\ Answer' = Answer /\ memory' = memory
  <2>1. ~Runs
    BY DEF Runs, Waits, WaitsDm, WaitsIm
  <2> QED
    BY <2>1, TargetStays, MemoryRests
<1>4. fifo.empty <=> fifo.count = 0
  BY DEF IInv, InvFifo, Dma!FifoOK, Dma!FlagsAgree
<1>5. mc' = IF fifo.empty THEN mc ELSE [mc EXCEPT !.line_buffer = fifo.rd_data, !.state = "FILL"]
  BY McStep
<1>6. /\ answers => reads # <<>>
      /\ reads' = IF answers \/ reads = <<>> THEN dma.c0Tx ELSE reads
  BY ReadsStep
<1>7. fifo.count = 0 => ~fifo.full
  BY DEF IInv, InvFifo
<1>8. CASE NoRead
  <2>1. ~answers /\ reads' = <<>>
    BY <1>6, <1>8 DEF NoRead
  <2>2. fifo'.count = 0
    BY <1>8, <2>1, FifoStep DEF NoRead
  <2>3. ~requests /\ BeginsRead
    BY <1>1, <1>8 DEF ReadRegisters, NoRead, BeginsRead
  <2>4. AskedFor'
    BY <1>1, <1>2, <1>3, <1>8, <2>1, <2>2, <2>3
       DEF ReadRegisters, NoRead, AskedFor, ToRequest, Size
  <2> QED
    BY <1>4, <1>5, <1>8, <2>4 DEF NoRead
<1>9. CASE AskedFor
  <2>1. ~BeginsRead
    BY <1>9 DEF BeginsRead, AskedFor
  <2>2. CASE ToRequest
    <3>1. ~answers /\ reads' = <<>>
      BY <1>6, <2>2 DEF ToRequest
    <3>2. fifo'.count = 0
      BY <2>2, <3>1, FifoStep DEF ToRequest
    <3>3. CASE requests
      BY <1>1, <1>2, <1>3, <1>4, <1>5, <1>9, <2>1, <2>2, <3>1, <3>2, <3>3
         DEF ReadRegisters, AskedFor, ToRequest, Requested
    <3>4. CASE ~requests
      BY <1>1, <1>2, <1>3, <1>4, <1>5, <1>9, <2>1, <2>2, <3>1, <3>2, <3>4
         DEF ReadRegisters, AskedFor, ToRequest
    <3> QED
      BY <3>3, <3>4
  <2>3. CASE Requested
    <3>1. ~requests /\ mc' = mc
      BY <1>1, <1>4, <1>5, <2>3 DEF ReadRegisters, Requested
    <3>2. CASE answers
      <4>1. reads = <<Target>> /\ reads' = <<>>
        BY <1>6, <2>3, <3>2 DEF Requested
      <4>2. fifo'.count = 1 /\ fifo'.rd_data = Answer
        BY <1>7, <2>3, <3>2, <4>1, FifoStep DEF Requested, Answer
      <4> QED
        BY <1>1, <1>2, <1>3, <1>9, <2>1, <2>3, <3>1, <3>2, <4>1, <4>2
           DEF ReadRegisters, AskedFor, Requested, Buffered
    <3>3. CASE ~answers
      <4>1. reads' = <<Target>>
        BY <1>6, <2>3, <3>3 DEF Requested
      <4>2. fifo'.count = 0
        BY <2>3, <3>3, FifoStep DEF Requested
      <4> QED
        BY <1>1, <1>2, <1>3, <1>9, <2>1, <2>3, <3>1, <3>3, <4>1, <4>2
           DEF ReadRegisters, AskedFor, Requested
    <3> QED
      BY <3>2, <3>3
  <2>4. CASE Buffered
    <3>1. ~answers /\ reads' = <<>> /\ ~requests
      BY <1>1, <1>6, <2>4 DEF ReadRegisters, Buffered
    <3>2. fifo'.count = 1 /\ fifo'.rd_data = fifo.rd_data
      BY <2>4, <3>1, FifoStep DEF Buffered
    <3>3. Buffered'
      BY <1>1, <1>3, <2>1, <2>4, <3>1, <3>2 DEF ReadRegisters, Buffered
    <3>4. dma'.dma_rd_remaining = 1
      BY <1>1, <1>2, <1>9, <2>1 DEF ReadRegisters, AskedFor
    <3>5. mc' = [mc EXCEPT !.line_buffer = Answer', !.state = "FILL"]
      BY <1>3, <1>4, <1>5, <2>4 DEF Buffered
    <3> QED
      BY <3>3, <3>4, <3>5 DEF AskedFor
  <2> QED
    BY <1>9, <2>2, <2>3, <2>4 DEF AskedFor
<1> QED
  BY <1>8, <1>9

\* Reads: what is asked for is on its way once, and of the line the CPU wants.
LEMMA ReadStep ==
    ASSUME IInv,
           NEW host_init \in BOOLEAN, NEW rd_full \in BOOLEAN, NEW wr_full \in BOOLEAN,
           NEW answers \in BOOLEAN, NEW carries_out \in BOOLEAN,
           Clock(host_init, rd_full, wr_full, answers, carries_out)
    PROVE  InvRead'
<1>1. InvRead /\ InvPhase /\ mc \in Ctrl!MemCtrls
  BY DEF IInv, InvTypes
<1>2. FillCount \in Nat /\ FillCount >= 2 /\ mc.fill_count \in 0 .. FillCount - 1
  BY HostPathAssumption, Phases
<1>3. InvPhase'
  BY PhaseStep
<1>4. CASE ~Reads
  <2>1. ~Waits /\ ~Fills
    BY <1>4 DEF Reads
  <2>2. NoRead /\ ~BeginsRead
    BY <1>1, <2>1 DEF InvRead, BeginsRead
  <2>3. NoRead'
    BY <2>2, NoReadStep
  <2>4. ~Fills' /\ (Waits' => mc'.state = "READY")
    <3>1. CASE cpu.state = "CPU_IDLE"
      <4>1. ~Writes /\ ~Reads
        BY <1>4, <3>1 DEF Writes
      <4>2. cpu' = [cpu EXCEPT !.state = IF mc.state # "STARTUP" THEN "WAIT_INIT_DM" ELSE @]
        BY <3>1, CpuStep
      <4>3. cpu'.state = IF mc.state # "STARTUP" THEN "WAIT_INIT_DM" ELSE "CPU_IDLE"
        BY <3>1, <4>2 DEF IInv, InvTypes, Cpus
      <4>4. mc.state = "READY" => mc'.state = "READY"
        BY <1>1, <4>1, McStep DEF Ctrl!MemCtrls
      <4> QED
        BY <1>1, <3>1, <4>3, <4>4 DEF InvPhase, Waits, Fills, WaitsDm, WaitsIm, FillsDm, FillsIm
    <3>2. CASE cpu.state \in {"RUN", "WRT_HOST"}
      <4>1. cpu'.state \in {"RUN", "WRT_HOST"}
        BY <3>2, CpuStep DEF IInv, InvTypes, Cpus
      <4> QED
        BY <4>1 DEF Waits, Fills, WaitsDm, WaitsIm, FillsDm, FillsIm
    <3> QED
      BY <2>1, <3>1, <3>2, Phases
  <2> QED
    BY <2>3, <2>4 DEF InvRead
<1>5. CASE Fills
  <2>1. ~Waits /\ Reads /\ mc.state = "FILL" /\ ~BeginsRead
    BY <1>1, <1>5 DEF Waits, Fills, WaitsDm, WaitsIm, FillsDm, FillsIm, InvPhase, Reads, BeginsRead
  <2>2. NoRead /\ mc.line_buffer = Answer
    BY <1>1, <1>5, <2>1 DEF InvRead
  <2>3. NoRead'
    BY <2>1, <2>2, NoReadStep
  <2>4. mc' = [mc EXCEPT !.fill_count = IF LastFill THEN 0 ELSE @ + 1,
                         !.state = IF LastFill THEN "READY" ELSE "FILL"]
    BY <2>1, McStep
  <2>5. CASE LastFill
    <3>1. mc'.state = "READY"
      BY <1>1, <2>4, <2>5 DEF Ctrl!MemCtrls
    <3>2. ~Fills'
      BY <1>3, <3>1 DEF InvPhase
    <3> QED
      BY <2>3, <3>1, <3>2 DEF InvRead
  <2>6. CASE ~LastFill
    <3>1. mc'.line_buffer = Answer'
      BY <1>1, <1>5, <2>2, <2>4, <2>6, TargetStays DEF Ctrl!MemCtrls
    <3>2. ~Waits'
      BY <1>5, <2>6, CpuStep DEF Waits, Fills, WaitsDm, WaitsIm, FillsDm, FillsIm
    <3> QED
      BY <2>3, <3>1, <3>2 DEF InvRead
  <2> QED
    BY <2>5, <2>6
<1>6. CASE Waits /\ mc.state = "READY"
  <2>1. NoRead /\ ~BeginsRead /\ Reads
    BY <1>1, <1>6 DEF InvRead, BeginsRead, Reads
  <2>2. NoRead'
    BY <2>1, NoReadStep
  <2>3. mc'.state = "HOSTOP"
    BY <1>1, <1>6, <2>1, McStep DEF Ctrl!MemCtrls
  <2>4. ~Fills'
    BY <1>3, <2>3 DEF InvPhase
  <2> QED
    BY <2>2, <2>3, <2>4 DEF InvRead
<1>7. CASE Waits /\ mc.state = "HOSTOP"
  <2>1. NoRead \/ AskedFor
    BY <1>1, <1>7 DEF InvRead
  <2>2. /\ AskedFor'
        /\ mc' = mc \/ (Buffered' /\ mc' = [mc EXCEPT !.line_buffer = Answer', !.state = "FILL"])
    BY <1>7, <2>1, AskedForStep
  <2>3. Waits'
    BY <1>7, CpuStep DEF Waits, WaitsDm, WaitsIm
  <2>4. CASE mc' = mc
    BY <1>7, <2>2, <2>3, <2>4 DEF InvRead
  <2>5. CASE Buffered' /\ mc' = [mc EXCEPT !.line_buffer = Answer', !.state = "FILL"]
    <3>1. mc'.state = "FILL" /\ mc'.line_buffer = Answer'
      BY <1>1, <2>5 DEF Ctrl!MemCtrls
    <3> QED
      BY <2>2, <2>3, <2>5, <3>1 DEF InvRead, AskedFor
  <2> QED
    BY <2>2, <2>4, <2>5
<1>8. CASE Waits /\ mc.state = "FILL"
  <2>1. dma.dma_rd_remaining = 1 /\ Buffered /\ mc.line_buffer = Answer
    BY <1>1, <1>8 DEF InvRead
  <2>2. Reads /\ mc.fill_count = 0 /\ ~LastFill /\ ~BeginsRead
    BY <1>1, <1>2, <1>8 DEF Reads, InvPhase, LastFill, BeginsRead
  <2>3. mc'.line_buffer = mc.line_buffer /\ ~Waits'
    <3>1. mc' = [mc EXCEPT !.fill_count = IF LastFill THEN 0 ELSE @ + 1,
                           !.state = IF LastFill THEN "READY" ELSE "FILL"]
      BY <1>8, <2>2, McStep
    <3>2. cpu'.state \in {"INIT_DM", "INIT_IM"}
      BY <1>8, CpuStep DEF Waits
    <3> QED
      BY <1>1, <3>1, <3>2 DEF Ctrl!MemCtrls, Waits, WaitsDm, WaitsIm
  <2>4. Answer' = Answer
    BY <1>8, TargetStays
  <2>5. NoRead'
    <3>1. ~answers /\ reads' = <<>>
      BY <2>1, ReadsStep DEF Buffered
    <3>2. fifo'.count = 0
      BY <1>8, <2>1, <2>2, <3>1, FifoStep DEF Buffered
    <3>3. Takes
      <4>1. ~fifo.empty
        BY <2>1 DEF Buffered, IInv, InvFifo, Dma!FifoOK, Dma!FlagsAgree
      <4> QED
        BY <1>8, <2>2, <4>1 DEF Takes
    <3>4. PICK requests \in BOOLEAN : ReadRegisters(requests, answers)
      BY ReadRegistersStep
    <3> QED
      BY <2>1, <2>2, <3>1, <3>2, <3>3, <3>4 DEF ReadRegisters, Buffered, NoRead
  <2> QED
    BY <2>1, <2>3, <2>4, <2>5 DEF InvRead
<1>9. Waits => mc.state \in {"READY", "HOSTOP", "FILL"}
  BY Phases DEF Waits, WaitsDm, WaitsIm, Fills, FillsDm, FillsIm
<1> QED
  BY <1>4, <1>5, <1>6, <1>7, <1>8, <1>9 DEF Reads

\* A line comes only to a FIFO that has been asked for it, and is empty.
LEMMA FifoIsReady ==
    ASSUME IInv
    PROVE  /\ fifo.count \in {0, 1}
           /\ reads # <<>> => fifo.count = 0 /\ ~fifo.full
<1>1. NoRead \/ ToRequest \/ Requested \/ Buffered
  BY Phases DEF IInv, InvRead, AskedFor, Waits, Fills, WaitsDm, WaitsIm, FillsDm, FillsIm
<1>2. reads # <<>> => Requested /\ mc.state # "STARTUP"
  <2>1. reads # <<>> => Waits
    BY DEF IInv, InvRead, NoRead
  <2>2. Waits => mc.state # "STARTUP"
    BY DEF IInv, InvPhase, Waits, WaitsDm, WaitsIm
  <2> QED
    BY <1>1, <2>1, <2>2 DEF NoRead, ToRequest, Buffered
<1> QED
  BY <1>1, <1>2 DEF NoRead, ToRequest, Requested, Buffered, IInv, InvFifo

\* The FIFO of the engine holds the line that has come, and no second one.
LEMMA FifoInvStep ==
    ASSUME IInv,
           NEW host_init \in BOOLEAN, NEW rd_full \in BOOLEAN, NEW wr_full \in BOOLEAN,
           NEW answers \in BOOLEAN, NEW carries_out \in BOOLEAN,
           Clock(host_init, rd_full, wr_full, answers, carries_out)
    PROVE  fifo' \in Dma!Fifos /\ InvFifo'
<1>1. fifo.count \in {0, 1} /\ (answers => fifo.count = 0 /\ ~fifo.full)
  BY FifoIsReady, ReadsStep
<1> QED
  BY <1>1, FifoStep DEF InvFifo

-----------------------------------------------------------------------------
(* Writes. *)

\* The lines a program stores are lines.
LEMMA StoredLineType ==
    ASSUME NEW n \in 1 .. MaxStores
    PROVE  StoredLine(n) \in StoredLines /\ StoredLine(n) \in Ctrl!CacheLines
<1>1. 0 \in 0 .. MaxStores /\ n \in 0 .. MaxStores
  BY HostPathAssumption
<1>2. StoreWord(0) \in Words /\ StoreWord(n) \in Words
  BY <1>1 DEF Words
<1> QED
  BY <1>2 DEF StoredLine, ZeroLine, StoredLines, Ctrl!CacheLines

\* Writes: at most one is under way, and the engine counts it.
LEMMA WriteStep ==
    ASSUME IInv,
           NEW host_init \in BOOLEAN, NEW rd_full \in BOOLEAN, NEW wr_full \in BOOLEAN,
           NEW answers \in BOOLEAN, NEW carries_out \in BOOLEAN,
           Clock(host_init, rd_full, wr_full, answers, carries_out)
    PROVE  InvWrite'
<1> DEFINE sends == Sends(wr_full) /\ dma.cci_wr_remaining = 1
<1>1. /\ dma'.cci_wr_remaining = IF sends THEN 0 ELSE IF Begins THEN Size
                                 ELSE dma.cci_wr_remaining
      /\ dma'.cci_wr_en_delayed <=> sends
      /\ dma'.c1Tx = IF sends THEN <<[line |-> dma.wr_addr, data |-> mc.line_buffer]>> ELSE <<>>
  BY WriteRegistersStep
<1>2. writes' = IF carries_out \/ writes = <<>> THEN dma.c1Tx ELSE writes
  BY WritesStep
<1>3. InvWrite /\ InvPhase /\ mc \in Ctrl!MemCtrls /\ cpu \in Cpus /\ ex \in Stores \cup {NoStore}
  BY DEF IInv, InvTypes
<1>4. Sends(wr_full) => mc.state = "HOSTOP" /\ cpu.state = "WRT_HOST" /\ ex # NoStore
  BY <1>3 DEF Sends, InvPhase
<1>5. dma'.cci_wr_en_delayed <=> dma'.c1Tx # <<>>
  BY <1>1
<1>6. /\ sends => dma.c1Tx = <<>> /\ writes = <<>> /\ dma'.cci_wr_remaining = 0
      /\ Begins => ~sends /\ dma.c1Tx = <<>> /\ writes = <<>>
  BY <1>1, <1>3 DEF InvWrite, Begins
<1> HIDE DEF sends
<1>7. dma'.c1Tx # <<>> => writes' = <<>>
  BY <1>1, <1>2, <1>6
<1>8. dma'.cci_wr_remaining = 1 => dma'.c1Tx = <<>> /\ writes' = <<>>
  BY <1>1, <1>2, <1>3, <1>6 DEF InvWrite
<1>9. ~Runs' => dma'.cci_wr_remaining = 0 /\ dma'.c1Tx = <<>> /\ writes' = <<>>
  <2>1. Runs => Runs'
    BY <1>3, CpuStep DEF Runs, Cpus
  <2>2. ~Runs => ~sends /\ ~Begins
    BY <1>4 DEF Runs, sends, Begins
  <2> QED
    BY <1>1, <1>2, <1>3, <2>1, <2>2 DEF InvWrite
<1>10. \A w \in {dma'.c1Tx, writes'} : w # <<>> => w[1].data \in StoredLines
  <2>1. sends => mc.line_buffer \in StoredLines
    <3>1. sends => mc.line_buffer = StoredLine(ex.data) /\ ex \in Stores
      BY <1>3, <1>4 DEF InvWrite, sends
    <3>2. ex \in Stores => ex.data \in 1 .. MaxStores
      BY DEF Stores
    <3> QED
      BY <3>1, <3>2, StoredLineType
  <2>2. dma'.c1Tx # <<>> => dma'.c1Tx[1].data \in StoredLines
    BY <1>1, <2>1
  <2>3. writes' # <<>> => writes'[1].data \in StoredLines
    BY <1>2, <1>3 DEF InvWrite
  <2> QED
    BY <2>2, <2>3
<1>11. cpu'.state = "WRT_HOST" /\ mc'.state = "HOSTOP" => mc'.line_buffer = StoredLine(ex'.data)
  <2>1. CASE cpu.state = "WRT_HOST" /\ mc.state = "FILL"
    <3>1. ~Sends(wr_full) /\ ex' = ex
      BY <2>1, ProgramStep DEF Sends, Stalls
    <3>2. mc'.line_buffer = StoredLine(ex.data)
      BY <1>3, <2>1, McStep DEF Ctrl!MemCtrls
    <3> QED
      BY <3>1, <3>2
  <2>2. CASE cpu.state = "WRT_HOST" /\ mc.state = "HOSTOP"
    <3>1. mc.line_buffer = StoredLine(ex.data)
      BY <1>3, <2>2 DEF InvWrite
    <3>2. mc'.line_buffer = mc.line_buffer
      <4>1. mc' = IF ~mc.bubble THEN [mc EXCEPT !.bubble = TRUE]
                ELSE IF wr_full THEN mc
                ELSE [mc EXCEPT !.state = "READY", !.bubble = FALSE]
        BY <2>2, McStep
      <4> QED
        BY <1>3, <4>1 DEF Ctrl!MemCtrls
    <3>3. Sends(wr_full) => cpu'.state = "RUN"
      BY <1>3, <2>2, CpuStep DEF Cpus
    <3>4. ~Sends(wr_full) => ex' = ex
      BY <2>2, ProgramStep DEF Stalls
    <3> QED
      BY <3>1, <3>2, <3>3, <3>4
  <2>3. CASE cpu.state = "RUN"
    <3>1. mc.state = "READY" /\ ~Reads
      BY <1>3, <2>3 DEF InvPhase, Reads, Waits, Fills, WaitsDm, WaitsIm, FillsDm, FillsIm
    <3>2. mc'.state # "HOSTOP"
      BY <1>3, <3>1, McStep DEF Ctrl!MemCtrls
    <3> QED
      BY <3>2
  <2>4. CASE cpu.state \notin {"RUN", "WRT_HOST"}
    <3>1. cpu'.state # "WRT_HOST"
      BY <1>3, <2>4, CpuStep DEF Cpus, WaitsDm, WaitsIm, FillsDm, FillsIm
    <3> QED
      BY <3>1
  <2> QED
    BY <2>1, <2>2, <2>3, <2>4, Phases DEF Waits, Fills, WaitsDm, WaitsIm, FillsDm, FillsIm
<1> QED
  BY <1>5, <1>7, <1>8, <1>9, <1>10, <1>11 DEF InvWrite

-----------------------------------------------------------------------------
(* Types. *)

\* The lines of the tables are lines of the host.
LEMMA Line ==
    /\ Dma!Lines = HostLines /\ HostLines # {}
    /\ \A a \in HostLines : Dma!Succ(a) \in HostLines
    /\ \A k \in 1 .. Len(DM_ADDRS) : DmLine(k) \in ImageLines /\ DmLine(k) \in HostLines
    /\ \A k \in 1 .. Len(IM_ADDRS) : ImLine(k) \in ImageLines /\ ImLine(k) \in HostLines
<1>1. Dma!Lines = HostLines /\ HostLines # {} /\ \A a \in HostLines : Dma!Succ(a) \in HostLines
  BY HostPathAssumption DEF Dma!Lines, HostLines, Dma!Succ
<1>2. ImageLines \subseteq HostLines
  BY LayoutAssumption
<1>3. \A k \in 1 .. Len(DM_ADDRS) : DmLine(k) \in ImageLines
  BY DEF ImageLines
<1>4. \A k \in 1 .. Len(IM_ADDRS) : ImLine(k) \in ImageLines
  BY DEF ImageLines
<1> QED
  BY <1>1, <1>2, <1>3, <1>4

\* The line the CPU wants is one of the image.
LEMMA TargetType ==
    ASSUME cpu \in Cpus
    PROVE  Target \in HostLines /\ Target \in ImageLines
BY InTables, Line DEF Target, DmTarget, ImTarget

\* The controller.
LEMMA McTypes ==
    ASSUME IInv,
           NEW host_init \in BOOLEAN, NEW rd_full \in BOOLEAN, NEW wr_full \in BOOLEAN,
           NEW answers \in BOOLEAN, NEW carries_out \in BOOLEAN,
           Clock(host_init, rd_full, wr_full, answers, carries_out)
    PROVE  mc' \in Ctrl!MemCtrls
<1>1. mc \in Ctrl!MemCtrls /\ InvPhase /\ fifo.rd_data \in Ctrl!CacheLines
  BY DEF IInv, InvTypes, Dma!Fifos
<1>2. /\ mc.fill_count \in Ctrl!WordIndex /\ 0 \in Ctrl!WordIndex
      /\ ~LastFill => mc.fill_count + 1 \in Ctrl!WordIndex
  BY <1>1, HostPathAssumption DEF LastFill, Ctrl!WordIndex, Ctrl!MemCtrls
<1>3. cpu.state = "WRT_HOST" => StoredLine(ex.data) \in Ctrl!CacheLines
  <2>1. cpu.state = "WRT_HOST" => ex.data \in 1 .. MaxStores
    BY DEF IInv, InvTypes, InvPhase, Stores
  <2> QED
    BY <2>1, StoredLineType
<1>4. CASE mc.state = "STARTUP"
  BY <1>1, <1>4, McStep DEF Ctrl!MemCtrls
<1>5. CASE mc.state = "READY"
  BY <1>1, <1>5, McStep DEF Ctrl!MemCtrls
<1>6. CASE mc.state = "FILL" /\ Reads
  <2>1. mc' = [mc EXCEPT !.fill_count = IF LastFill THEN 0 ELSE @ + 1,
                         !.state = IF LastFill THEN "READY" ELSE "FILL"]
    BY <1>6, McStep
  <2> QED
    BY <1>1, <1>2, <2>1 DEF Ctrl!MemCtrls
<1>7. CASE mc.state = "FILL" /\ cpu.state = "WRT_HOST"
  <2>1. mc' = [mc EXCEPT !.fill_count = IF LastFill THEN 0 ELSE @ + 1,
                         !.line_buffer = StoredLine(ex.data),
                         !.state = IF LastFill THEN "HOSTOP" ELSE "FILL"]
    BY <1>7, McStep
  <2> QED
    BY <1>1, <1>2, <1>3, <1>7, <2>1 DEF Ctrl!MemCtrls
<1>8. CASE mc.state = "HOSTOP" /\ Waits
  <2>1. mc' = IF fifo.empty THEN mc
              ELSE [mc EXCEPT !.line_buffer = fifo.rd_data, !.state = "FILL"]
    BY <1>8, McStep
  <2> QED
    BY <1>1, <2>1 DEF Ctrl!MemCtrls
<1>9. CASE mc.state = "HOSTOP" /\ cpu.state = "WRT_HOST"
  <2>1. mc' = IF ~mc.bubble THEN [mc EXCEPT !.bubble = TRUE]
              ELSE IF wr_full THEN mc
              ELSE [mc EXCEPT !.state = "READY", !.bubble = FALSE]
    BY <1>9, McStep
  <2> QED
    BY <1>1, <2>1 DEF Ctrl!MemCtrls
<1> QED
  BY <1>4, <1>5, <1>6, <1>7, <1>8, <1>9, Phases DEF Reads

\* The engine.
LEMMA DmaTypes ==
    ASSUME IInv,
           NEW host_init \in BOOLEAN, NEW rd_full \in BOOLEAN, NEW wr_full \in BOOLEAN,
           NEW answers \in BOOLEAN, NEW carries_out \in BOOLEAN,
           Clock(host_init, rd_full, wr_full, answers, carries_out)
    PROVE  dma' \in Dma!Dmas
<1>1. /\ cpu \in Cpus /\ mc \in Ctrl!MemCtrls /\ dma \in Dma!Dmas
      /\ ex \in Stores \cup {NoStore} /\ InvPhase
  BY DEF IInv, InvTypes
<1>2. /\ dma.rd_addr \in HostLines /\ dma.wr_addr \in HostLines
      /\ dma.cci_wr_remaining \in 0 .. 1 /\ Depth \in Nat \ {0}
  BY <1>1, Line, HostPathAssumption DEF Dma!Dmas
<1>3. dma' = [cci_rd_remaining |-> dma'.cci_rd_remaining,
              cci_rd_pending |-> dma'.cci_rd_pending,
              dma_rd_remaining |-> dma'.dma_rd_remaining,
              cci_wr_remaining |-> dma'.cci_wr_remaining,
              cci_wr_en_delayed |-> dma'.cci_wr_en_delayed,
              rd_addr |-> dma'.rd_addr, wr_addr |-> dma'.wr_addr,
              c0Tx |-> dma'.c0Tx, c1Tx |-> dma'.c1Tx]
  BY DEF Clock, Dma!NextDma
<1>4. /\ dma'.cci_rd_remaining \in 0 .. 1 /\ dma'.cci_rd_pending \in 0 .. Depth
      /\ dma'.dma_rd_remaining \in 0 .. 1
  <2>1. InvRead' /\ InvPhase'
    BY ReadStep, PhaseStep
  <2>2. mc'.state \in {"STARTUP", "READY", "HOSTOP", "FILL"}
    BY McTypes DEF Ctrl!MemCtrls
  <2>3. NoRead' \/ AskedFor'
    BY <2>1, <2>2 DEF InvRead, InvPhase, AskedFor, Waits, WaitsDm, WaitsIm
  <2>4. /\ dma'.cci_rd_remaining \in {0, 1} /\ dma'.cci_rd_pending \in {0, 1}
        /\ dma'.dma_rd_remaining \in {0, 1}
    BY <2>3 DEF NoRead, AskedFor, ToRequest, Requested, Buffered
  <2> QED
    BY <1>2, <2>4
<1>5. dma'.rd_addr \in HostLines /\ dma'.c0Tx \in Dma!AtMostOne(HostLines)
  <2>1. PICK requests \in BOOLEAN : ReadRegisters(requests, answers)
    BY ReadRegistersStep
  <2>2. Target \in HostLines /\ Dma!Succ(dma.rd_addr) \in HostLines
    BY <1>1, <1>2, TargetType, Line
  <2> QED
    BY <1>2, <2>1, <2>2 DEF ReadRegisters, Dma!AtMostOne
<1>6. /\ dma'.cci_wr_remaining \in 0 .. 1 /\ dma'.cci_wr_en_delayed \in BOOLEAN
      /\ dma'.wr_addr \in HostLines /\ dma'.c1Tx \in Dma!AtMostOne(Dma!Requests)
  <2> DEFINE sends == Sends(wr_full) /\ dma.cci_wr_remaining = 1
  <2>1. /\ dma'.cci_wr_remaining = IF sends THEN 0 ELSE IF Begins THEN Size
                                   ELSE dma.cci_wr_remaining
        /\ dma'.wr_addr = IF Sends(wr_full) THEN Dma!Succ(dma.wr_addr)
                          ELSE IF Begins THEN Corrected(ex.line) ELSE dma.wr_addr
        /\ dma'.c1Tx = IF sends THEN <<[line |-> dma.wr_addr, data |-> mc.line_buffer]>> ELSE <<>>
    BY WriteRegistersStep
  <2>2. [line |-> dma.wr_addr, data |-> mc.line_buffer] \in Dma!Requests
    BY <1>1, <1>2, Line DEF Dma!Requests, Ctrl!MemCtrls
  <2>3. Begins => Corrected(ex.line) \in HostLines
    <3>1. Begins => ex \in Stores
      BY <1>1 DEF Begins, InvPhase
    <3> QED
      BY <3>1, LayoutAssumption DEF Stores
  <2>4. dma'.cci_wr_en_delayed \in BOOLEAN
    BY DEF Clock, Dma!NextDma, Dma!cci_wr_en, ToDma, Ctrl!host_we, Ctrl!host_wgo
  <2> QED
    BY <1>2, <2>1, <2>2, <2>3, <2>4, Line DEF Dma!AtMostOne, Size
<1> QED
  BY <1>3, <1>4, <1>5, <1>6, Line DEF Dma!Dmas

-----------------------------------------------------------------------------
(* What is loaded. *)

\* Words of lines that are apart are at different addresses.
LEMMA SameWord ==
    ASSUME NEW a \in Nat, NEW b \in Nat, Apart(a, b),
           NEW v \in Ctrl!WordIndex, NEW w \in Ctrl!WordIndex
    PROVE  a + v = b + w <=> a = b /\ v = w
BY HostPathAssumption DEF Ctrl!WordIndex, Apart

\* A stored line is not a line of the image: the image, once overwritten, stays so.
LEMMA ImageStays ==
    ASSUME IInv,
           NEW host_init \in BOOLEAN, NEW rd_full \in BOOLEAN, NEW wr_full \in BOOLEAN,
           NEW answers \in BOOLEAN, NEW carries_out \in BOOLEAN,
           Clock(host_init, rd_full, wr_full, answers, carries_out),
           ImageIntact'
    PROVE  ImageIntact
<1>1. memory \in [HostLines -> Ctrl!CacheLines] /\ ImageLines \subseteq HostLines
  BY LayoutAssumption DEF IInv, InvTypes
<1>2. CASE ~carries_out
  BY <1>2, WritesStep DEF ImageIntact
<1>3. CASE carries_out
  <2>1. writes # <<>> /\ memory' = [memory EXCEPT ![writes[1].line] = writes[1].data]
    BY <1>3, WritesStep
  <2>2. PICK n \in 1 .. MaxStores : writes[1].data = StoredLine(n)
    BY <2>1 DEF IInv, InvWrite, StoredLines
  <2>3. ASSUME NEW l \in ImageLines, l = writes[1].line
        PROVE  FALSE
    <3>1. memory'[l] = StoredLine(n)
      BY <1>1, <2>1, <2>2, <2>3
    <3>2. memory'[l] = Image(l)
      BY DEF ImageIntact
    <3>3. 0 \in Ctrl!WordIndex
      BY HostPathAssumption DEF Ctrl!WordIndex
    <3>4. StoredLine(n)[0] = <<NumLines, n>> /\ Image(l)[0] = <<l, 0>>
      BY <3>3 DEF StoredLine, ZeroLine, StoreWord, Image, ImageWord
    <3>5. NumLines = l
      <4>1. <<NumLines, n>> = <<l, 0>>
        BY <3>1, <3>2, <3>4
      <4> QED
        BY <4>1
    <3>6. l \in 0 .. NumLines - 1 /\ NumLines \in Nat
      BY <1>1, HostPathAssumption DEF HostLines
    <3> QED
      BY <3>5, <3>6
  <2>4. \A l \in ImageLines : memory[l] = memory'[l]
    BY <1>1, <2>1, <2>3
  <2> QED
    BY <2>4 DEF ImageIntact
<1> QED
  BY <1>2, <1>3

\* The words of the line that is loaded are written to the memory it is loaded to.
CopiesDm == FillsDm \/ (WaitsDm /\ mc.state = "FILL")
CopiesIm == FillsIm \/ (WaitsIm /\ mc.state = "FILL")

\* Where a line that is filled goes: to the place the counter says.
LEMMA CopyStep ==
    ASSUME IInv,
           NEW host_init \in BOOLEAN, NEW rd_full \in BOOLEAN, NEW wr_full \in BOOLEAN,
           NEW answers \in BOOLEAN, NEW carries_out \in BOOLEAN,
           Clock(host_init, rd_full, wr_full, answers, carries_out)
    PROVE  /\ data_mem' =
                  IF CopiesDm
                  THEN [data_mem EXCEPT ![IF FillsDm THEN cpu.dm_curr_addr
                                          ELSE DM_ADDRS[cpu.dm_count + 1]] =
                            mc.line_buffer[mc.fill_count]]
                  ELSE data_mem
           /\ instr_mem' =
                  IF CopiesIm
                  THEN [instr_mem EXCEPT ![IF FillsIm THEN cpu.im_curr_addr
                                           ELSE IM_ADDRS[cpu.im_count + 1]] =
                            mc.line_buffer[mc.fill_count]]
                  ELSE instr_mem
           /\ mc.line_buffer[mc.fill_count] \in Words
<1> DEFINE in == ToCpu(~wr_full)
<1>1. in.rd_valid <=> mc.state = "FILL" /\ Reads
  BY Wires
<1> HIDE DEF in
<1>2. /\ Cpu!mem_ex_wrt_en(cpu, in) <=> CopiesDm
      /\ Cpu!im_wrt_en(cpu, in) <=> CopiesIm
  BY <1>1 DEF Cpu!mem_ex_wrt_en, Cpu!im_wrt_en, CopiesDm, CopiesIm, Reads, Waits, WaitsDm,
              WaitsIm, FillsDm, FillsIm
<1>3. /\ Cpu!mem_ex_addr(cpu) = IF FillsDm THEN cpu.dm_curr_addr ELSE DM_ADDRS[cpu.dm_count + 1]
      /\ Cpu!im_wrt_addr(cpu) = IF FillsIm THEN cpu.im_curr_addr ELSE IM_ADDRS[cpu.im_count + 1]
  BY DEF Cpu!mem_ex_addr, Cpu!im_wrt_addr, Cpu!DmAddr, Cpu!ImAddr, FillsDm, FillsIm
<1>4. /\ data_mem' = IF Cpu!mem_ex_wrt_en(cpu, in)
                     THEN [data_mem EXCEPT ![Cpu!mem_ex_addr(cpu)] =
                               Ctrl!common_data_bus_write_out(mc)]
                     ELSE data_mem
      /\ instr_mem' = IF Cpu!im_wrt_en(cpu, in)
                      THEN [instr_mem EXCEPT ![Cpu!im_wrt_addr(cpu)] =
                                Ctrl!common_data_bus_write_out(mc)]
                      ELSE instr_mem
  BY DEF Clock, in
<1>5. Ctrl!common_data_bus_write_out(mc) = mc.line_buffer[mc.fill_count]
  BY DEF Ctrl!common_data_bus_write_out
<1>6. mc.line_buffer[mc.fill_count] \in Words
  BY DEF IInv, InvTypes, Ctrl!MemCtrls, Ctrl!CacheLines
<1> QED
  BY <1>2, <1>3, <1>4, <1>5, <1>6

\* A word is copied to the data memory, or nothing changes there.
LEMMA DmLoadStep ==
    ASSUME IInv,
           NEW host_init \in BOOLEAN, NEW rd_full \in BOOLEAN, NEW wr_full \in BOOLEAN,
           NEW answers \in BOOLEAN, NEW carries_out \in BOOLEAN,
           Clock(host_init, rd_full, wr_full, answers, carries_out),
           ImageIntact'
    PROVE  (\A k \in 1 .. DmDone' : DmLineLoaded(k)') /\ DmCopied'
<1> DEFINE N == Len(DM_ADDRS)
           c == cpu.dm_count
<1>1. /\ \A k \in 1 .. DmDone : DmLineLoaded(k)
      /\ DmCopied /\ ImageIntact
  BY ImageStays DEF IInv, InvLoaded
<1>2. /\ cpu \in Cpus /\ mc \in Ctrl!MemCtrls /\ InvPhase
      /\ data_mem \in [LoadedWords(DM_ADDRS) -> Words]
  BY DEF IInv, InvTypes
<1>3. /\ N \in Nat \ {0} /\ c \in 0 .. N - 1 /\ c \in Nat
      /\ FillCount \in Nat /\ FillCount >= 2 /\ mc.fill_count \in Ctrl!WordIndex
  BY <1>2, Tables, HostPathAssumption DEF Cpus, Ctrl!MemCtrls
<1>4. CASE ~CopiesDm
  <2>1. data_mem' = data_mem /\ ~FillsDm
    BY <1>4, CopyStep DEF CopiesDm
  <2>2. DmDone' = DmDone /\ ~FillsDm'
    <3>1. CASE cpu.state = "CPU_IDLE" \/ WaitsDm
      <4>1. cpu'.state \in {"CPU_IDLE", "WAIT_INIT_DM"} /\ cpu'.dm_count = c
        BY <1>2, <1>4, <3>1, CpuStep DEF CopiesDm, WaitsDm, Cpus
      <4> QED
        BY <3>1, <4>1 DEF DmDone, FillsDm, WaitsDm
    <3>2. CASE cpu.state \in {"WAIT_INIT_IM", "INIT_IM", "RUN", "WRT_HOST"}
      <4>1. cpu'.state \in {"WAIT_INIT_IM", "INIT_IM", "RUN", "WRT_HOST"}
        BY <1>2, <3>2, CpuStep DEF WaitsIm, FillsIm, Cpus
      <4> QED
        BY <3>2, <4>1 DEF DmDone, FillsDm
    <3> QED
      BY <1>2, <1>4, <3>1, <3>2 DEF CopiesDm, FillsDm, WaitsDm, Cpus
  <2> QED
    BY <1>1, <2>1, <2>2 DEF DmLineLoaded, DmCopied
<1>5. CASE CopiesDm
  <2>1. ~Runs /\ Reads /\ mc.state = "FILL" /\ Target = DmTarget /\ ~WaitsIm /\ ~FillsIm
    BY <1>2, <1>5 DEF CopiesDm, Runs, Reads, Waits, Fills, WaitsDm, WaitsIm, FillsDm, FillsIm,
                      Target, InvPhase
  <2>2. mc.line_buffer = Image(DmTarget)
    <3>1. mc.line_buffer = memory[DmTarget]
      BY <1>5, <2>1 DEF CopiesDm, IInv, InvRead, Answer, Waits, Fills
    <3>2. DmTarget \in ImageLines
      BY <1>2, <2>1, TargetType
    <3> QED
      BY <1>1, <3>1, <3>2 DEF ImageIntact
  <2>3. /\ \A w \in 0 .. mc.fill_count - 1 : data_mem[DM_ADDRS[c + 1] + w] = Image(DmTarget)[w]
        /\ FillsDm => cpu.dm_curr_addr = DM_ADDRS[c + 1] + mc.fill_count
        /\ ~FillsDm => mc.fill_count = 0
    BY <1>1, <1>2, <1>5, <2>1 DEF DmCopied, CopiesDm, InvPhase, Waits
  <2>4. data_mem' = [data_mem EXCEPT ![DM_ADDRS[c + 1] + mc.fill_count] = Image(DmTarget)[mc.fill_count]]
    <3>1. DM_ADDRS[c + 1] \in Nat
      BY <1>2, InTables
    <3>2. (IF FillsDm THEN cpu.dm_curr_addr ELSE DM_ADDRS[c + 1]) = DM_ADDRS[c + 1] + mc.fill_count
      BY <2>3, <3>1
    <3> QED
      BY <1>5, <2>2, <3>2, CopyStep
  <2>5. DmDone = c
    BY <1>5, <2>1 DEF DmDone, CopiesDm, WaitsDm, FillsDm, Runs
  <2>6. /\ \A k \in 1 .. c, w \in Ctrl!WordIndex :
               data_mem'[DM_ADDRS[k] + w] = Image(DmLine(k))[w]
        /\ \A w \in 0 .. mc.fill_count : data_mem'[DM_ADDRS[c + 1] + w] = Image(DmLine(c + 1))[w]
    <3> DEFINE f == mc.fill_count
    <3>1. /\ c + 1 \in 1 .. N /\ DmTarget = DmLine(c + 1)
          /\ \A k \in 1 .. c : k \in 1 .. N
      BY <1>3 DEF DmTarget
    <3>2. ASSUME NEW k \in 1 .. N, NEW v \in Ctrl!WordIndex
          PROVE  data_mem'[DM_ADDRS[k] + v] = IF DM_ADDRS[k] = DM_ADDRS[c + 1] /\ v = f
                                        THEN Image(DmTarget)[f] ELSE data_mem[DM_ADDRS[k] + v]
      <4>1. DM_ADDRS[k] \in Nat /\ DM_ADDRS[c + 1] \in Nat
        BY <3>1, Tables
      <4>2. Apart(DM_ADDRS[k], DM_ADDRS[c + 1])
        BY <3>1, LayoutAssumption
      <4>3. DM_ADDRS[k] + v \in LoadedWords(DM_ADDRS) /\ DM_ADDRS[c + 1] + f \in LoadedWords(DM_ADDRS)
        BY <1>3, <3>1 DEF LoadedWords
      <4>4. DM_ADDRS[k] + v = DM_ADDRS[c + 1] + f <=> DM_ADDRS[k] = DM_ADDRS[c + 1] /\ v = f
        BY <1>3, <4>1, <4>2, SameWord
      <4> QED
        BY <1>2, <2>4, <4>3, <4>4
    <3>3. ASSUME NEW k \in 1 .. c, NEW v \in Ctrl!WordIndex
          PROVE  data_mem'[DM_ADDRS[k] + v] = Image(DmLine(k))[v]
      <4>1. data_mem[DM_ADDRS[k] + v] = Image(DmLine(k))[v]
        BY <1>1, <2>5 DEF DmLineLoaded
      <4>2. DM_ADDRS[k] = DM_ADDRS[c + 1] => DmLine(k) = DmTarget
        BY <3>1 DEF DmLine
      <4> QED
        BY <3>1, <3>2, <4>1, <4>2
    <3>4. ASSUME NEW v \in 0 .. f
          PROVE  data_mem'[DM_ADDRS[c + 1] + v] = Image(DmLine(c + 1))[v]
      <4>1. v \in Ctrl!WordIndex /\ (v # f => v \in 0 .. f - 1)
        BY <1>3 DEF Ctrl!WordIndex
      <4> QED
        BY <2>3, <3>1, <3>2, <4>1
    <3> QED
      BY <3>3, <3>4
  <2>7. mc' = [mc EXCEPT !.fill_count = IF LastFill THEN 0 ELSE @ + 1,
                         !.state = IF LastFill THEN "READY" ELSE "FILL"]
    BY <2>1, McStep
  <2>8. CASE ~LastFill
    <3>1. /\ cpu'.state = "INIT_DM" /\ cpu'.dm_count = c
          /\ cpu'.dm_curr_addr = DM_ADDRS[c + 1] + mc.fill_count + 1
      <4>1. DM_ADDRS[c + 1] \in Nat
        BY <1>2, InTables
      <4>2. CASE WaitsDm
        BY <1>5, <2>1, <2>3, <4>1, <4>2, CpuStep DEF CopiesDm, WaitsDm, FillsDm
      <4>3. CASE FillsDm
        BY <2>3, <2>8, <4>3, CpuStep
      <4> QED
        BY <1>5, <4>2, <4>3 DEF CopiesDm
    <3>2. mc'.fill_count = mc.fill_count + 1
      BY <1>2, <2>7, <2>8 DEF Ctrl!MemCtrls
    <3>3. DmDone' = c
      BY <3>1 DEF DmDone, Runs
    <3>4. \A k \in 1 .. c : DmLineLoaded(k)'
      BY <2>6 DEF DmLineLoaded
    <3>5. DmCopied'
      <4>1. DmTarget' = DmLine(c + 1)
        BY <3>1 DEF DmTarget, DmLine
      <4>2. DM_ADDRS[c + 1] \in Nat /\ mc.fill_count \in Nat
        BY <1>2, <1>3, InTables DEF Ctrl!WordIndex
      <4>3. cpu'.dm_curr_addr = DM_ADDRS[cpu'.dm_count + 1] + mc'.fill_count
        BY <3>1, <3>2, <4>2
      <4>4. mc'.fill_count - 1 = mc.fill_count
        BY <3>2, <4>2
      <4> QED
        BY <2>6, <3>1, <4>1, <4>3, <4>4 DEF DmCopied
    <3> QED
      BY <3>3, <3>4, <3>5
  <2>9. CASE LastFill
    <3>1. FillsDm
      BY <1>3, <1>5, <2>3, <2>9 DEF LastFill
    <3>2. /\ cpu'.state # "INIT_DM"
          /\ DmDone' = c + 1
      <4>1. CASE c >= N - 1
        <5>1. cpu'.state = "WAIT_INIT_IM"
          BY <2>9, <3>1, <4>1, CpuStep
        <5>2. N = c + 1
          BY <1>3, <4>1
        <5> QED
          BY <5>1, <5>2 DEF DmDone, Runs
      <4>2. CASE ~(c >= N - 1)
        <5>1. cpu'.state = "WAIT_INIT_DM" /\ cpu'.dm_count = c + 1
          BY <2>9, <3>1, <4>2, CpuStep
        <5> QED
          BY <5>1 DEF DmDone, Runs
      <4> QED
        BY <4>1, <4>2
    <3>3. ASSUME NEW k \in 1 .. c + 1
          PROVE  DmLineLoaded(k)'
      <4>1. \A w \in Ctrl!WordIndex : w \in 0 .. mc.fill_count
        BY <1>3, <2>9 DEF LastFill, Ctrl!WordIndex
      <4>2. k = c + 1 \/ k \in 1 .. c
        BY <1>3
      <4> QED
        BY <2>6, <4>1, <4>2 DEF DmLineLoaded
    <3> QED
      BY <3>2, <3>3 DEF DmCopied, FillsDm
  <2> QED
    BY <2>8, <2>9
<1> QED
  BY <1>4, <1>5

\* A word is copied to the instruction memory, or nothing changes there.
LEMMA ImLoadStep ==
    ASSUME IInv,
           NEW host_init \in BOOLEAN, NEW rd_full \in BOOLEAN, NEW wr_full \in BOOLEAN,
           NEW answers \in BOOLEAN, NEW carries_out \in BOOLEAN,
           Clock(host_init, rd_full, wr_full, answers, carries_out),
           ImageIntact'
    PROVE  (\A k \in 1 .. ImDone' : ImLineLoaded(k)') /\ ImCopied'
<1> DEFINE N == Len(IM_ADDRS)
           c == cpu.im_count
<1>1. /\ \A k \in 1 .. ImDone : ImLineLoaded(k)
      /\ ImCopied /\ ImageIntact
  BY ImageStays DEF IInv, InvLoaded
<1>2. /\ cpu \in Cpus /\ mc \in Ctrl!MemCtrls /\ InvPhase
      /\ instr_mem \in [LoadedWords(IM_ADDRS) -> Words]
  BY DEF IInv, InvTypes
<1>3. /\ N \in Nat \ {0} /\ c \in 0 .. N - 1 /\ c \in Nat
      /\ FillCount \in Nat /\ FillCount >= 2 /\ mc.fill_count \in Ctrl!WordIndex
  BY <1>2, Tables, HostPathAssumption DEF Cpus, Ctrl!MemCtrls
<1>4. CASE ~CopiesIm
  <2>1. instr_mem' = instr_mem /\ ~FillsIm
    BY <1>4, CopyStep DEF CopiesIm
  <2>2. ImDone' = ImDone /\ ~FillsIm'
    <3>1. CASE cpu.state \in {"CPU_IDLE", "WAIT_INIT_DM", "INIT_DM"} \/ WaitsIm
      <4>1. /\ cpu'.state \in {"CPU_IDLE", "WAIT_INIT_DM", "INIT_DM", "WAIT_INIT_IM"}
            /\ cpu'.im_count = c
        BY <1>2, <1>4, <3>1, CpuStep DEF CopiesIm, WaitsIm, WaitsDm, FillsDm, Cpus
      <4> QED
        BY <3>1, <4>1 DEF ImDone, FillsIm, WaitsIm, Runs
    <3>2. CASE cpu.state \in {"RUN", "WRT_HOST"}
      <4>1. cpu'.state \in {"RUN", "WRT_HOST"}
        BY <1>2, <3>2, CpuStep DEF Cpus
      <4> QED
        BY <3>2, <4>1 DEF ImDone, FillsIm, Runs
    <3> QED
      BY <1>2, <1>4, <3>1, <3>2 DEF CopiesIm, FillsIm, WaitsIm, Cpus
  <2> QED
    BY <1>1, <2>1, <2>2 DEF ImLineLoaded, ImCopied
<1>5. CASE CopiesIm
  <2>1. ~Runs /\ Reads /\ mc.state = "FILL" /\ Target = ImTarget /\ ~WaitsDm /\ ~FillsDm
    BY <1>2, <1>5 DEF CopiesIm, Runs, Reads, Waits, Fills, WaitsDm, WaitsIm, FillsDm, FillsIm,
                      Target, InvPhase
  <2>2. mc.line_buffer = Image(ImTarget)
    <3>1. mc.line_buffer = memory[ImTarget]
      BY <1>5, <2>1 DEF CopiesIm, IInv, InvRead, Answer, Waits, Fills
    <3>2. ImTarget \in ImageLines
      BY <1>2, <2>1, TargetType
    <3> QED
      BY <1>1, <3>1, <3>2 DEF ImageIntact
  <2>3. /\ \A w \in 0 .. mc.fill_count - 1 : instr_mem[IM_ADDRS[c + 1] + w] = Image(ImTarget)[w]
        /\ FillsIm => cpu.im_curr_addr = IM_ADDRS[c + 1] + mc.fill_count
        /\ ~FillsIm => mc.fill_count = 0
    BY <1>1, <1>2, <1>5, <2>1 DEF ImCopied, CopiesIm, InvPhase, Waits
  <2>4. instr_mem' = [instr_mem EXCEPT ![IM_ADDRS[c + 1] + mc.fill_count] = Image(ImTarget)[mc.fill_count]]
    <3>1. IM_ADDRS[c + 1] \in Nat
      BY <1>2, InTables
    <3>2. (IF FillsIm THEN cpu.im_curr_addr ELSE IM_ADDRS[c + 1]) = IM_ADDRS[c + 1] + mc.fill_count
      BY <2>3, <3>1
    <3> QED
      BY <1>5, <2>2, <3>2, CopyStep
  <2>5. ImDone = c
    BY <1>5, <2>1 DEF ImDone, CopiesIm, WaitsDm, FillsDm, Runs
  <2>6. /\ \A k \in 1 .. c, w \in Ctrl!WordIndex :
               instr_mem'[IM_ADDRS[k] + w] = Image(ImLine(k))[w]
        /\ \A w \in 0 .. mc.fill_count : instr_mem'[IM_ADDRS[c + 1] + w] = Image(ImLine(c + 1))[w]
    <3> DEFINE f == mc.fill_count
    <3>1. /\ c + 1 \in 1 .. N /\ ImTarget = ImLine(c + 1)
          /\ \A k \in 1 .. c : k \in 1 .. N
      BY <1>3 DEF ImTarget
    <3>2. ASSUME NEW k \in 1 .. N, NEW v \in Ctrl!WordIndex
          PROVE  instr_mem'[IM_ADDRS[k] + v] = IF IM_ADDRS[k] = IM_ADDRS[c + 1] /\ v = f
                                        THEN Image(ImTarget)[f] ELSE instr_mem[IM_ADDRS[k] + v]
      <4>1. IM_ADDRS[k] \in Nat /\ IM_ADDRS[c + 1] \in Nat
        BY <3>1, Tables
      <4>2. Apart(IM_ADDRS[k], IM_ADDRS[c + 1])
        BY <3>1, LayoutAssumption
      <4>3. IM_ADDRS[k] + v \in LoadedWords(IM_ADDRS) /\ IM_ADDRS[c + 1] + f \in LoadedWords(IM_ADDRS)
        BY <1>3, <3>1 DEF LoadedWords
      <4>4. IM_ADDRS[k] + v = IM_ADDRS[c + 1] + f <=> IM_ADDRS[k] = IM_ADDRS[c + 1] /\ v = f
        BY <1>3, <4>1, <4>2, SameWord
      <4> QED
        BY <1>2, <2>4, <4>3, <4>4
    <3>3. ASSUME NEW k \in 1 .. c, NEW v \in Ctrl!WordIndex
          PROVE  instr_mem'[IM_ADDRS[k] + v] = Image(ImLine(k))[v]
      <4>1. instr_mem[IM_ADDRS[k] + v] = Image(ImLine(k))[v]
        BY <1>1, <2>5 DEF ImLineLoaded
      <4>2. IM_ADDRS[k] = IM_ADDRS[c + 1] => ImLine(k) = ImTarget
        BY <3>1 DEF ImLine
      <4> QED
        BY <3>1, <3>2, <4>1, <4>2
    <3>4. ASSUME NEW v \in 0 .. f
          PROVE  instr_mem'[IM_ADDRS[c + 1] + v] = Image(ImLine(c + 1))[v]
      <4>1. v \in Ctrl!WordIndex /\ (v # f => v \in 0 .. f - 1)
        BY <1>3 DEF Ctrl!WordIndex
      <4> QED
        BY <2>3, <3>1, <3>2, <4>1
    <3> QED
      BY <3>3, <3>4
  <2>7. mc' = [mc EXCEPT !.fill_count = IF LastFill THEN 0 ELSE @ + 1,
                         !.state = IF LastFill THEN "READY" ELSE "FILL"]
    BY <2>1, McStep
  <2>8. CASE ~LastFill
    <3>1. /\ cpu'.state = "INIT_IM" /\ cpu'.im_count = c
          /\ cpu'.im_curr_addr = IM_ADDRS[c + 1] + mc.fill_count + 1
      <4>1. IM_ADDRS[c + 1] \in Nat
        BY <1>2, InTables
      <4>2. CASE WaitsIm
        BY <1>5, <2>1, <2>3, <4>1, <4>2, CpuStep DEF CopiesIm, WaitsIm, FillsIm
      <4>3. CASE FillsIm
        BY <2>3, <2>8, <4>3, CpuStep
      <4> QED
        BY <1>5, <4>2, <4>3 DEF CopiesIm
    <3>2. mc'.fill_count = mc.fill_count + 1
      BY <1>2, <2>7, <2>8 DEF Ctrl!MemCtrls
    <3>3. ImDone' = c
      BY <3>1 DEF ImDone, Runs
    <3>4. \A k \in 1 .. c : ImLineLoaded(k)'
      BY <2>6 DEF ImLineLoaded
    <3>5. ImCopied'
      <4>1. ImTarget' = ImLine(c + 1)
        BY <3>1 DEF ImTarget, ImLine
      <4>2. IM_ADDRS[c + 1] \in Nat /\ mc.fill_count \in Nat
        BY <1>2, <1>3, InTables DEF Ctrl!WordIndex
      <4>3. cpu'.im_curr_addr = IM_ADDRS[cpu'.im_count + 1] + mc'.fill_count
        BY <3>1, <3>2, <4>2
      <4>4. mc'.fill_count - 1 = mc.fill_count
        BY <3>2, <4>2
      <4> QED
        BY <2>6, <3>1, <4>1, <4>3, <4>4 DEF ImCopied
    <3> QED
      BY <3>3, <3>4, <3>5
  <2>9. CASE LastFill
    <3>1. FillsIm
      BY <1>3, <1>5, <2>3, <2>9 DEF LastFill
    <3>2. /\ cpu'.state # "INIT_IM"
          /\ ImDone' = c + 1
      <4>1. CASE c >= N - 1
        <5>1. cpu'.state = "RUN"
          BY <2>9, <3>1, <4>1, CpuStep
        <5>2. N = c + 1
          BY <1>3, <4>1
        <5> QED
          BY <5>1, <5>2 DEF ImDone, Runs
      <4>2. CASE ~(c >= N - 1)
        <5>1. cpu'.state = "WAIT_INIT_IM" /\ cpu'.im_count = c + 1
          BY <2>9, <3>1, <4>2, CpuStep
        <5> QED
          BY <5>1 DEF ImDone, Runs
      <4> QED
        BY <4>1, <4>2
    <3>3. ASSUME NEW k \in 1 .. c + 1
          PROVE  ImLineLoaded(k)'
      <4>1. \A w \in Ctrl!WordIndex : w \in 0 .. mc.fill_count
        BY <1>3, <2>9 DEF LastFill, Ctrl!WordIndex
      <4>2. k = c + 1 \/ k \in 1 .. c
        BY <1>3
      <4> QED
        BY <2>6, <4>1, <4>2 DEF ImLineLoaded
    <3> QED
      BY <3>2, <3>3 DEF ImCopied, FillsIm
  <2> QED
    BY <2>8, <2>9
<1> QED
  BY <1>4, <1>5

-----------------------------------------------------------------------------
(* The invariant. *)

\* The types, from those of the parts.
LEMMA TypesStep ==
    ASSUME IInv,
           NEW host_init \in BOOLEAN, NEW rd_full \in BOOLEAN, NEW wr_full \in BOOLEAN,
           NEW answers \in BOOLEAN, NEW carries_out \in BOOLEAN,
           Clock(host_init, rd_full, wr_full, answers, carries_out)
    PROVE  InvTypes'
<1>1. InvTypes
  BY DEF IInv
<1>2. mc' \in Ctrl!MemCtrls /\ cpu' \in Cpus /\ dma' \in Dma!Dmas /\ fifo' \in Dma!Fifos
  BY McTypes, CpuStep, DmaTypes, FifoInvStep
<1>3. reads' \in Dma!AtMostOne(HostLines)
  BY <1>1, ReadsStep, Line DEF InvTypes, Dma!Dmas
<1>4. writes' \in Dma!AtMostOne(Dma!Requests)
  BY <1>1, WritesStep DEF InvTypes, Dma!Dmas
<1>5. memory' \in [HostLines -> Ctrl!CacheLines]
  <2>1. writes # <<>> => writes[1].data \in Ctrl!CacheLines
    <3>1. writes # <<>> => writes[1] \in Dma!Requests
      BY <1>1, OneElement DEF InvTypes
    <3> QED
      BY <3>1 DEF Dma!Requests
  <2> QED
    BY <1>1, <2>1, WritesStep DEF InvTypes
<1>6. /\ data_mem' \in [LoadedWords(DM_ADDRS) -> Words]
      /\ instr_mem' \in [LoadedWords(IM_ADDRS) -> Words]
  BY <1>1, CopyStep DEF InvTypes
<1>7. /\ ex' \in Stores \cup {NoStore} /\ stores' \in 0 .. MaxStores
      /\ ex' # NoStore => ex'.data = stores' + 1
  BY ProgramStep
<1>8. careful' \in BOOLEAN
  BY <1>1 DEF InvTypes, Clock
<1> QED
  BY <1>2, <1>3, <1>4, <1>5, <1>6, <1>7, <1>8 DEF InvTypes

\* What is loaded stays loaded, and the next line is the right one.
LEMMA LoadedStep ==
    ASSUME IInv,
           NEW host_init \in BOOLEAN, NEW rd_full \in BOOLEAN, NEW wr_full \in BOOLEAN,
           NEW answers \in BOOLEAN, NEW carries_out \in BOOLEAN,
           Clock(host_init, rd_full, wr_full, answers, carries_out)
    PROVE  InvLoaded'
BY DmLoadStep, ImLoadStep DEF InvLoaded

\* The words and lines of the initial state.
LEMMA FirstWords ==
    /\ StoreWord(0) \in Words /\ ZeroLine \in Ctrl!CacheLines
    /\ \A l \in HostLines : Image(l) \in Ctrl!CacheLines
<1>1. 0 \in 0 .. MaxStores
  BY HostPathAssumption
<1>2. StoreWord(0) \in Words
  BY <1>1 DEF Words
<1>3. \A l \in HostLines, w \in Ctrl!WordIndex : ImageWord(l, w) \in Words
  BY DEF Words, Ctrl!WordIndex
<1> QED
  BY <1>2, <1>3 DEF ZeroLine, Image, Ctrl!CacheLines

\* The memory controller and the CPU after a reset.
LEMMA ResetTypes ==
    Ctrl!ResetMemCtrl \in Ctrl!MemCtrls /\ Cpu!ResetCpu \in Cpus
<1>1. 0 \in Ctrl!WordIndex /\ 0 \in 0 .. Len(DM_ADDRS) - 1 /\ 0 \in 0 .. Len(IM_ADDRS) - 1
  BY HostPathAssumption, Tables DEF Ctrl!WordIndex
<1> QED
  BY <1>1, FirstWords DEF Ctrl!ResetMemCtrl, Ctrl!MemCtrls, Ctrl!CacheLines, Cpu!ResetCpu, Cpus

\* A FIFO that is reset is empty, although it says that it is full.
LEMMA ResetFifoOK ==
    ASSUME NEW f \in Dma!Fifos
    PROVE  /\ Dma!ResetFifo(f) \in Dma!Fifos /\ Dma!FifoOK(Dma!ResetFifo(f))
           /\ Dma!ResetFifo(f).count = 0
<1> DEFINE g == Dma!ResetFifo(f)
<1>1. /\ 0 \in Dma!Addr /\ Depth \in Nat \ {0} /\ AddrSpace \in Nat /\ AddrSpace >= Depth
      /\ 0 \in 0 .. Depth /\ Depth \in 0 .. Depth
  BY HostPathAssumption DEF Dma!Addr
<1>2. g \in Dma!Fifos
  BY <1>1 DEF Dma!ResetFifo, Dma!Fifos
<1>3. /\ g.wr_addr = 0 /\ g.rd_addr = 0 /\ g.count = 0 /\ g.space = Depth
      /\ g.full = TRUE /\ g.empty = TRUE
  BY DEF Dma!ResetFifo, Dma!Fifos
<1>4. Dma!Wrap(0 + 0) = 0
  BY <1>1 DEF Dma!Wrap
<1> HIDE DEF g
<1>5. Dma!FifoOK(g)
  BY <1>1, <1>3, <1>4 DEF Dma!FifoOK, Dma!FlagsAgree, Dma!PointersAgree, Dma!FirstIsShown
<1> QED
  BY <1>2, <1>3, <1>5 DEF g

\* A system that has just been reset.
JustReset ==
    /\ mc = Ctrl!ResetMemCtrl /\ cpu = Cpu!ResetCpu /\ ex = NoStore
    /\ reads = <<>> /\ writes = <<>>
    /\ dma \in Dma!Dmas
    /\ dma.cci_rd_remaining = 0 /\ dma.cci_rd_pending = 0 /\ dma.dma_rd_remaining = 0
    /\ dma.cci_wr_remaining = 0 /\ ~dma.cci_wr_en_delayed /\ dma.c0Tx = <<>> /\ dma.c1Tx = <<>>
    /\ fifo \in Dma!Fifos /\ Dma!FifoOK(fifo) /\ fifo.count = 0
    /\ memory \in [HostLines -> Ctrl!CacheLines]
    /\ data_mem \in [LoadedWords(DM_ADDRS) -> Words]
    /\ instr_mem \in [LoadedWords(IM_ADDRS) -> Words]
    /\ stores \in 0 .. MaxStores /\ careful \in BOOLEAN

\* The invariant holds of it.
LEMMA AfterReset == JustReset => IInv
<1> SUFFICES ASSUME JustReset PROVE IInv
  OBVIOUS
<1> USE DEF JustReset
<1>1. /\ mc.state = "STARTUP" /\ mc.fill_count = 0 /\ mc.bubble = FALSE
      /\ cpu.state = "CPU_IDLE" /\ cpu.dm_count = 0 /\ cpu.im_count = 0
  BY DEF Ctrl!ResetMemCtrl, Cpu!ResetCpu
<1>2. ~Waits /\ ~Fills /\ ~Runs /\ ~FillsDm /\ ~FillsIm
  BY <1>1 DEF Waits, Fills, Runs, WaitsDm, WaitsIm, FillsDm, FillsIm
<1>3. InvTypes
  BY ResetTypes DEF InvTypes, Dma!AtMostOne
<1>4. InvPhase
  BY <1>1, <1>2 DEF InvPhase
<1>5. InvRead
  BY <1>2 DEF InvRead, NoRead
<1>6. InvFifo
  BY <1>1 DEF InvFifo
<1>7. InvWrite
  BY <1>1 DEF InvWrite
<1>8. InvLoaded
  BY <1>1, <1>2 DEF InvLoaded, DmDone, ImDone, DmCopied, ImCopied
<1> QED
  BY <1>3, <1>4, <1>5, <1>6, <1>7, <1>8 DEF IInv

\* The path starts as after a reset.
LEMMA InitIInv == Init => IInv
<1> SUFFICES ASSUME Init PROVE IInv
  OBVIOUS
<1>1. /\ dma = PowerUpDma /\ fifo = PowerUpFifo
      /\ memory = [l \in HostLines |-> Image(l)]
      /\ data_mem = [a \in LoadedWords(DM_ADDRS) |-> StoreWord(0)]
      /\ instr_mem = [a \in LoadedWords(IM_ADDRS) |-> StoreWord(0)]
  BY DEF Init
<1>2. dma \in Dma!Dmas
  <2>1. 0 \in HostLines /\ 0 \in 0 .. 1 /\ 0 \in 0 .. Depth
    BY HostPathAssumption DEF HostLines
  <2> QED
    BY <1>1, <2>1, Line DEF PowerUpDma, Dma!Dmas, Dma!AtMostOne
<1>3. fifo \in Dma!Fifos /\ Dma!FifoOK(fifo) /\ fifo.count = 0
  <2> DEFINE blank == [a \in Dma!Addr |-> ZeroLine]
  <2>1. fifo = [mem |-> blank, rd_data |-> ZeroLine, wr_addr |-> 0, rd_addr |-> 0,
                count |-> 0, space |-> Depth, full |-> TRUE, empty |-> TRUE]
    BY <1>1 DEF PowerUpFifo, Dma!EmptyFifo
  <2>2. blank \in [Dma!Addr -> Ctrl!CacheLines] /\ ZeroLine \in Ctrl!CacheLines
    BY FirstWords
  <2>3. 0 \in Dma!Addr /\ Depth \in Nat
    BY HostPathAssumption DEF Dma!Addr
  <2> HIDE DEF blank
  <2>4. fifo \in Dma!Fifos
    BY <2>1, <2>2, <2>3 DEF Dma!Fifos
  <2>5. Dma!FifoOK(fifo)
    BY <2>1, HostPathAssumption
       DEF Dma!FifoOK, Dma!FlagsAgree, Dma!PointersAgree, Dma!FirstIsShown, Dma!Wrap
  <2> QED
    BY <2>1, <2>4, <2>5
<1>4. /\ memory \in [HostLines -> Ctrl!CacheLines]
      /\ data_mem \in [LoadedWords(DM_ADDRS) -> Words]
      /\ instr_mem \in [LoadedWords(IM_ADDRS) -> Words]
  BY <1>1, FirstWords
<1>5. /\ mc = Ctrl!ResetMemCtrl /\ cpu = Cpu!ResetCpu /\ ex = NoStore
      /\ reads = <<>> /\ writes = <<>> /\ stores = 0 /\ careful \in BOOLEAN
  BY DEF Init
<1>6. /\ dma.cci_rd_remaining = 0 /\ dma.cci_rd_pending = 0 /\ dma.dma_rd_remaining = 0
      /\ dma.cci_wr_remaining = 0 /\ ~dma.cci_wr_en_delayed
      /\ dma.c0Tx = <<>> /\ dma.c1Tx = <<>>
  BY <1>1 DEF PowerUpDma
<1>7. stores \in 0 .. MaxStores
  BY <1>5, HostPathAssumption
<1> QED
  BY <1>2, <1>3, <1>4, <1>5, <1>6, <1>7, AfterReset DEF JustReset

\* A reset in the middle of anything.
LEMMA ResetStep == IInv /\ Reset => IInv'
<1> SUFFICES ASSUME IInv, Reset PROVE IInv'
  OBVIOUS
<1>1. InvTypes
  BY DEF IInv
<1>2. /\ dma' = Dma!ResetDma(dma) /\ fifo' = Dma!ResetFifo(fifo)
      /\ mc' = Ctrl!ResetMemCtrl /\ cpu' = Cpu!ResetCpu /\ ex' = NoStore
      /\ reads' = <<>> /\ writes' = <<>>
      /\ memory' = memory /\ data_mem' = data_mem /\ instr_mem' = instr_mem
      /\ stores' = stores /\ careful' = careful
  BY DEF Reset
<1>3. /\ dma' \in Dma!Dmas
      /\ dma'.cci_rd_remaining = 0 /\ dma'.cci_rd_pending = 0 /\ dma'.dma_rd_remaining = 0
      /\ dma'.cci_wr_remaining = 0 /\ ~dma'.cci_wr_en_delayed
      /\ dma'.c0Tx = <<>> /\ dma'.c1Tx = <<>>
  <2>1. dma' = [cci_rd_remaining |-> 0, cci_rd_pending |-> 0, dma_rd_remaining |-> 0,
                cci_wr_remaining |-> 0, cci_wr_en_delayed |-> FALSE,
                rd_addr |-> dma.rd_addr, wr_addr |-> dma.wr_addr,
                c0Tx |-> <<>>, c1Tx |-> <<>>]
    BY <1>1, <1>2 DEF Dma!ResetDma, InvTypes, Dma!Dmas
  <2>2. 0 \in 0 .. 1 /\ 0 \in 0 .. Depth
    BY HostPathAssumption
  <2> QED
    BY <1>1, <2>1, <2>2 DEF InvTypes, Dma!Dmas, Dma!AtMostOne
<1>4. fifo' \in Dma!Fifos /\ Dma!FifoOK(fifo') /\ fifo'.count = 0
  BY <1>1, <1>2, ResetFifoOK DEF InvTypes
<1>5. /\ memory' \in [HostLines -> Ctrl!CacheLines]
      /\ data_mem' \in [LoadedWords(DM_ADDRS) -> Words]
      /\ instr_mem' \in [LoadedWords(IM_ADDRS) -> Words]
      /\ stores' \in 0 .. MaxStores /\ careful' \in BOOLEAN
  BY <1>1, <1>2 DEF InvTypes
<1>6. JustReset'
  BY <1>2, <1>3, <1>4, <1>5 DEF JustReset
<1> QED
  BY <1>6, AfterReset, PTL

\* No step breaks the invariant.
LEMMA StepIInv == IInv /\ [Next]_vars => IInv'
<1> SUFFICES ASSUME IInv, [Next]_vars PROVE IInv'
  OBVIOUS
<1>1. ASSUME NEW host_init \in BOOLEAN, NEW rd_full \in BOOLEAN, NEW wr_full \in BOOLEAN,
             NEW answers \in BOOLEAN, NEW carries_out \in BOOLEAN,
             Clock(host_init, rd_full, wr_full, answers, carries_out)
      PROVE  IInv'
  <2>1. InvTypes' /\ InvPhase' /\ InvRead'
    BY <1>1, TypesStep, PhaseStep, ReadStep
  <2>2. InvFifo' /\ InvWrite' /\ InvLoaded'
    BY <1>1, FifoInvStep, WriteStep, LoadedStep
  <2> QED
    BY <2>1, <2>2 DEF IInv
<1>2. CASE Reset
  BY <1>2, ResetStep
<1>3. CASE UNCHANGED vars
  <2>1. InvTypes' /\ InvPhase' /\ InvFifo'
    BY <1>3 DEF vars, IInv, InvTypes, InvPhase, InvFifo, Waits, Fills, Runs, WaitsDm, WaitsIm,
                FillsDm, FillsIm
  <2>2. InvRead'
    BY <1>3 DEF vars, IInv, InvRead, NoRead, AskedFor, ToRequest, Requested, Buffered, Answer,
                Target, DmTarget, ImTarget, Waits, Fills, WaitsDm, WaitsIm, FillsDm, FillsIm
  <2>3. InvWrite'
    BY <1>3 DEF vars, IInv, InvWrite, Runs
  <2>4. InvLoaded'
    BY <1>3 DEF vars, IInv, InvLoaded, ImageIntact, DmDone, ImDone, DmLineLoaded, ImLineLoaded,
                DmCopied, ImCopied, DmTarget, ImTarget, Runs, FillsDm, FillsIm
  <2> QED
    BY <2>1, <2>2, <2>3, <2>4 DEF IInv
<1> QED
  BY <1>1, <1>2, <1>3 DEF Next, AnyClock

\* The invariant holds in every state: whatever the host answers and when, each
\* line is read once, in its place, and each write sent is a store.
THEOREM PathIsConsistent == Spec => []IInv
BY InitIInv, StepIInv, PTL DEF Spec

\* Every register of the path has its type: no counter underflows, no address
\* leaves the buffer (miner.sv, cci_dma.sv, mem_ctrl.sv).
THEOREM RegistersHaveTypes == Spec => []TypeOK
<1>1. IInv => TypeOK
  <2> SUFFICES ASSUME IInv PROVE TypeOK
    OBVIOUS
  <2>1. InvTypes
    BY DEF IInv
  <2>2. reads \in Seq(HostLines) /\ writes \in Seq(Dma!Requests)
    BY <2>1, OneElement DEF InvTypes
  <2> QED
    BY <2>1, <2>2 DEF InvTypes, TypeOK
<1> QED
  BY <1>1, PathIsConsistent, PTL

\* The pipeline does not run before the program and its data are loaded (the
\* states INIT_DM and INIT_IM of cpu.sv).
THEOREM LoadsTheProgram == Spec => []ProgramIsLoaded
<1>1. IInv => ProgramIsLoaded
  <2> SUFFICES ASSUME IInv, Runs, ImageIntact
               PROVE  /\ \A k \in 1 .. Len(DM_ADDRS) : DmLineLoaded(k)
                      /\ \A k \in 1 .. Len(IM_ADDRS) : ImLineLoaded(k)
    BY DEF ProgramIsLoaded
  <2>1. DmDone = Len(DM_ADDRS) /\ ImDone = Len(IM_ADDRS)
    BY DEF Runs, DmDone, ImDone
  <2> QED
    BY <2>1 DEF IInv, InvLoaded
<1> QED
  BY <1>1, PathIsConsistent, PTL

\* No two writes are under way together (cci_wr_en of cci_dma.sv waits for the
\* end of the last one).
THEOREM WritesOneByOne == Spec => []OneWriteAtATime
<1>1. IInv => OneWriteAtATime
  <2> SUFFICES ASSUME IInv PROVE OneWriteAtATime
    OBVIOUS
  <2>1. dma.c1Tx \in Dma!AtMostOne(Dma!Requests) /\ writes \in Dma!AtMostOne(Dma!Requests)
    BY DEF IInv, InvTypes, Dma!Dmas
  <2>2. /\ Len(dma.c1Tx) = IF dma.c1Tx = <<>> THEN 0 ELSE 1
        /\ Len(writes) = IF writes = <<>> THEN 0 ELSE 1
    BY <2>1, OneElement
  <2>3. dma.c1Tx # <<>> => writes = <<>>
    BY DEF IInv, InvWrite
  <2> QED
    BY <2>2, <2>3 DEF OneWriteAtATime
<1> QED
  BY <1>1, PathIsConsistent, PTL

\* A line is sent to the host only at the end of a store, and it is the store's.
THEOREM SendsStores == Spec => WritesAreStores
<1> DEFINE Sent == dma'.c1Tx # <<>> => /\ cpu.state = "WRT_HOST"
                                       /\ stores' = stores + 1
                                       /\ dma'.c1Tx[1].data = StoredLine(ex.data)
<1>1. IInv /\ [Next]_vars => [Sent]_vars
  <2> SUFFICES ASSUME IInv, Next PROVE Sent
    OBVIOUS
  <2>1. ASSUME NEW host_init \in BOOLEAN, NEW rd_full \in BOOLEAN, NEW wr_full \in BOOLEAN,
               NEW answers \in BOOLEAN, NEW carries_out \in BOOLEAN,
               Clock(host_init, rd_full, wr_full, answers, carries_out)
        PROVE  Sent
    <3> DEFINE sends == Sends(wr_full) /\ dma.cci_wr_remaining = 1
    <3>1. dma'.c1Tx = IF sends THEN <<[line |-> dma.wr_addr, data |-> mc.line_buffer]>> ELSE <<>>
      BY <2>1, WriteRegistersStep
    <3>2. sends => cpu.state = "WRT_HOST" /\ mc.state = "HOSTOP"
      BY DEF Sends, IInv, InvPhase
    <3>3. sends => mc.line_buffer = StoredLine(ex.data)
      BY <3>2 DEF IInv, InvWrite
    <3>4. sends => stores' = stores + 1
      BY <2>1, ProgramStep
    <3> QED
      BY <3>1, <3>2, <3>3, <3>4
  <2>2. CASE Reset
    <3>1. dma'.c1Tx = <<>>
      BY <2>2 DEF Reset, Dma!ResetDma, IInv, InvTypes, Dma!Dmas
    <3> QED
      BY <3>1
  <2> QED
    BY <2>1, <2>2 DEF Next, AnyClock
<1> QED
  BY <1>1, PathIsConsistent, PTL DEF Spec, WritesAreStores

-----------------------------------------------------------------------------
(* A program that waits between its stores: the path is a mailbox. *)

\* No store has been sent.
LEMMA InitCareful == Init => InvCareful
<1> SUFFICES ASSUME Init PROVE InvCareful
  OBVIOUS
<1>1. /\ dma.cci_wr_remaining = 0 /\ dma.c1Tx = <<>>
      /\ mc.bubble = FALSE /\ ex = NoStore /\ writes = <<>>
  BY DEF Init, PowerUpDma, Ctrl!ResetMemCtrl
<1> QED
  BY <1>1 DEF InvCareful

\* The engine takes each store in the first cycle of its operation, because
\* nothing is under way; so it sends each.
LEMMA CarefulStep ==
    ASSUME IInv, InvCareful, careful,
           NEW host_init \in BOOLEAN, NEW rd_full \in BOOLEAN, NEW wr_full \in BOOLEAN,
           NEW answers \in BOOLEAN, NEW carries_out \in BOOLEAN,
           Clock(host_init, rd_full, wr_full, answers, carries_out)
    PROVE  /\ InvCareful'
           /\ Sends(wr_full) => /\ ex \in Stores /\ dma.c1Tx = <<>> /\ writes = <<>>
                                /\ dma'.c1Tx = <<[line |-> Corrected(ex.line),
                                                  data |-> StoredLine(ex.data)]>>
           /\ ~Sends(wr_full) => dma'.c1Tx = <<>>
<1> DEFINE sends == Sends(wr_full) /\ dma.cci_wr_remaining = 1
<1>1. /\ dma'.cci_wr_remaining = IF sends THEN 0 ELSE IF Begins THEN Size
                                 ELSE dma.cci_wr_remaining
      /\ dma'.wr_addr = IF Sends(wr_full) THEN Dma!Succ(dma.wr_addr)
                        ELSE IF Begins THEN Corrected(ex.line) ELSE dma.wr_addr
      /\ dma'.c1Tx = IF sends THEN <<[line |-> dma.wr_addr, data |-> mc.line_buffer]>> ELSE <<>>
  BY WriteRegistersStep
<1>2. /\ dma.cci_wr_remaining = 1 <=> mc.bubble
      /\ mc.bubble => dma.wr_addr = Corrected(ex.line)
      /\ ex # NoStore => dma.c1Tx = <<>> /\ writes = <<>>
      /\ \A w \in {dma.c1Tx, writes} : w # <<>> => w[1] \in OwnRequests
  BY DEF InvCareful
<1>3. /\ mc \in Ctrl!MemCtrls /\ cpu \in Cpus /\ dma.cci_wr_remaining \in 0 .. 1
      /\ ex \in Stores \cup {NoStore} /\ InvPhase /\ InvWrite
  BY DEF IInv, InvTypes, Dma!Dmas
<1>4. sends <=> Sends(wr_full)
  BY <1>2 DEF Sends
<1>5. Sends(wr_full) => /\ cpu.state = "WRT_HOST" /\ mc.state = "HOSTOP" /\ mc.bubble
                        /\ ex \in Stores
                        /\ mc.line_buffer = StoredLine(ex.data)
  BY <1>3 DEF Sends, InvPhase, InvWrite
<1>6. Sends(wr_full) => /\ dma.c1Tx = <<>> /\ writes = <<>>
                        /\ dma'.c1Tx = <<[line |-> Corrected(ex.line),
                                          data |-> StoredLine(ex.data)]>>
  <2>1. Sends(wr_full) => ex # NoStore
    BY <1>3, <1>5 DEF InvPhase
  <2> QED
    BY <1>1, <1>2, <1>4, <1>5, <2>1
<1>7. ~Sends(wr_full) => dma'.c1Tx = <<>>
  BY <1>1, <1>4
<1>8. writes' = IF carries_out \/ writes = <<>> THEN dma.c1Tx ELSE writes
  BY WritesStep
<1>9. /\ dma'.cci_wr_remaining = 1 <=> mc'.bubble
      /\ mc'.bubble => dma'.wr_addr = Corrected(ex'.line)
  <2>1. CASE mc.state = "HOSTOP" /\ cpu.state = "WRT_HOST"
    <3>1. mc' = IF ~mc.bubble THEN [mc EXCEPT !.bubble = TRUE]
                ELSE IF wr_full THEN mc
                ELSE [mc EXCEPT !.state = "READY", !.bubble = FALSE]
      BY <2>1, McStep
    <3>2. Sends(wr_full) <=> mc.bubble /\ ~wr_full
      BY <2>1 DEF Sends
    <3>3. ~mc.bubble => Begins
      <4>1. ex # NoStore
        BY <1>3, <2>1 DEF InvPhase
      <4>2. ~dma.cci_wr_en_delayed
        BY <1>2, <1>3, <4>1 DEF InvWrite
      <4> QED
        BY <1>2, <1>3, <2>1, <4>1, <4>2 DEF Begins
    <3>4. Begins => ~mc.bubble
      BY <1>2 DEF Begins
    <3>5. mc'.bubble <=> ~Sends(wr_full)
      BY <1>3, <3>1, <3>2 DEF Ctrl!MemCtrls
    <3>6. dma'.cci_wr_remaining = 1 <=> mc'.bubble
      BY <1>1, <1>2, <1>4, <3>2, <3>3, <3>4, <3>5 DEF Size
    <3>7. mc'.bubble => dma'.wr_addr = Corrected(ex'.line)
      <4>1. ~Sends(wr_full) => ex' = ex
        BY <2>1, ProgramStep DEF Stalls
      <4> QED
        BY <1>1, <1>2, <3>2, <3>3, <3>4, <3>5, <4>1
    <3> QED
      BY <3>6, <3>7
  <2>2. CASE ~(mc.state = "HOSTOP" /\ cpu.state = "WRT_HOST")
    <3>1. ~mc.bubble /\ ~Begins /\ ~Sends(wr_full)
      BY <1>3, <1>5, <2>2 DEF InvPhase, Begins
    <3>2. mc'.bubble = mc.bubble
      <4>1. CASE mc.state = "FILL"
        <5>1. \E n \in {0, mc.fill_count + 1}, l \in {mc.line_buffer, StoredLine(ex.data)},
                 state \in {"READY", "FILL", "HOSTOP"} :
                  mc' \in {[mc EXCEPT !.fill_count = n, !.state = state],
                          [mc EXCEPT !.fill_count = n, !.line_buffer = l, !.state = state]}
          BY <4>1, McStep, Phases DEF Reads
        <5> QED
          BY <1>3, <5>1 DEF Ctrl!MemCtrls
      <4>2. CASE mc.state = "HOSTOP"
        <5>1. Waits
          BY <2>2, <4>2, Phases
        <5>2. mc' = IF fifo.empty THEN mc
                    ELSE [mc EXCEPT !.line_buffer = fifo.rd_data, !.state = "FILL"]
          BY <4>2, <5>1, McStep
        <5> QED
          BY <1>3, <5>2 DEF Ctrl!MemCtrls
      <4>3. CASE mc.state \in {"STARTUP", "READY"}
        BY <1>3, <4>3, McStep DEF Ctrl!MemCtrls
      <4> QED
        BY <4>1, <4>2, <4>3, Phases
    <3> QED
      BY <1>1, <1>2, <1>4, <3>1, <3>2
  <2> QED
    BY <2>1, <2>2
<1>10. ex' # NoStore => dma'.c1Tx = <<>> /\ writes' = <<>>
  <2>1. CASE Stalls(wr_full)
    <3>1. ex' = ex /\ (ex # NoStore => ~Sends(wr_full))
      BY <1>5, <2>1, ProgramStep DEF Stalls
    <3> QED
      BY <1>2, <1>7, <1>8, <3>1
  <2>2. CASE ~Stalls(wr_full)
    BY <2>2, ProgramStep DEF MayStore
  <2> QED
    BY <2>1, <2>2
<1>11. \A w \in {dma'.c1Tx, writes'} : w # <<>> => w[1] \in OwnRequests
  <2>1. Sends(wr_full) => dma'.c1Tx[1] \in OwnRequests
    BY <1>5, <1>6 DEF OwnRequests
  <2> QED
    BY <1>2, <1>7, <1>8, <2>1
<1> QED
  BY <1>5, <1>6, <1>7, <1>9, <1>10, <1>11 DEF InvCareful

\* A careful program stays careful, and a careless one is of no concern.
LEMMA StepCareful == IInv /\ InvCareful /\ [Next]_vars => InvCareful'
<1> SUFFICES ASSUME IInv, InvCareful, [Next]_vars, careful' PROVE InvCareful'
  BY DEF InvCareful
<1>1. ASSUME NEW host_init \in BOOLEAN, NEW rd_full \in BOOLEAN, NEW wr_full \in BOOLEAN,
             NEW answers \in BOOLEAN, NEW carries_out \in BOOLEAN,
             Clock(host_init, rd_full, wr_full, answers, carries_out)
      PROVE  InvCareful'
  <2>1. careful
    BY <1>1 DEF Clock
  <2> QED
    BY <1>1, <2>1, CarefulStep
<1>2. CASE Reset
  <2>1. /\ dma'.cci_wr_remaining = 0 /\ dma'.c1Tx = <<>>
        /\ mc'.bubble = FALSE /\ ex' = NoStore /\ writes' = <<>>
    BY <1>2 DEF Reset, Dma!ResetDma, Ctrl!ResetMemCtrl, IInv, InvTypes, Dma!Dmas
  <2> QED
    BY <2>1 DEF InvCareful
<1>3. CASE UNCHANGED vars
  BY <1>3 DEF vars, InvCareful
<1> QED
  BY <1>1, <1>2, <1>3 DEF Next, AnyClock

\* The mailbox in terms of the path.
OnItsWay == IF UnderWay = <<>> \/ ~careful THEN NoStore
            ELSE [line |-> UnderWay[1].line - Base, data |-> UnderWay[1].data[0][2]]

\* What is under way.
UnderWayInOnePlace ==
    /\ writes = <<>> => UnderWay = dma.c1Tx
    /\ dma.c1Tx = <<>> => UnderWay = writes
    /\ UnderWay = <<>> <=> writes = <<>> /\ dma.c1Tx = <<>>

\* At most one write is under way, in the engine or behind it.
LEMMA UnderWayIs == IInv => UnderWayInOnePlace
<1> SUFFICES ASSUME IInv PROVE UnderWayInOnePlace
  OBVIOUS
<1>1. /\ writes \in Dma!AtMostOne(Dma!Requests) /\ dma.c1Tx \in Dma!AtMostOne(Dma!Requests)
      /\ dma.c1Tx = <<>> \/ writes = <<>>
  BY DEF IInv, InvTypes, InvWrite, Dma!Dmas
<1> QED
  BY <1>1, AfterNothing DEF UnderWay, UnderWayInOnePlace

\* The store that a request carries.
LEMMA StoreOf ==
    ASSUME NEW s \in Stores, NEW q, q = [line |-> Corrected(s.line), data |-> StoredLine(s.data)]
    PROVE  [line |-> q.line - Base, data |-> q.data[0][2]] = s
<1>1. s.line \in StoreLines /\ s = [line |-> s.line, data |-> s.data]
  BY DEF Stores
<1>2. q.line - Base = s.line
  BY <1>1, LayoutAssumption, HostPathAssumption DEF Corrected
<1>3. 0 \in Ctrl!WordIndex
  BY HostPathAssumption DEF Ctrl!WordIndex
<1>4. q.data[0] = <<NumLines, s.data>>
  BY <1>3 DEF StoredLine, ZeroLine, StoreWord
<1> QED
  BY <1>1, <1>2, <1>4

\* The write under way is the store the program waits for, as the controller sends it.
LEMMA OnItsWayIs ==
    ASSUME IInv, InvCareful, careful, UnderWay # <<>>
    PROVE  /\ OnItsWay \in Stores /\ OnItsWay # NoStore
           /\ UnderWay[1] = [line |-> Corrected(OnItsWay.line), data |-> StoredLine(OnItsWay.data)]
<1>1. UnderWay \in {writes, dma.c1Tx}
  BY UnderWayIs DEF UnderWayInOnePlace, IInv, InvWrite
<1>2. UnderWay[1] \in OwnRequests
  BY <1>1 DEF InvCareful
<1>3. PICK s \in Stores :
          UnderWay[1] = [line |-> Corrected(s.line), data |-> StoredLine(s.data)]
  BY <1>2 DEF OwnRequests
<1>4. OnItsWay = s
  BY <1>3, StoreOf DEF OnItsWay
<1> QED
  BY <1>3, <1>4, LayoutAssumption DEF Stores

\* The mailbox starts empty.
LEMMA InitMailbox == Init => Mailbox!Init
<1> SUFFICES ASSUME Init PROVE Mailbox!Init
  OBVIOUS
<1>1. ex = NoStore /\ writes = <<>> /\ dma.c1Tx = <<>>
  BY DEF Init, PowerUpDma
<1>2. UnderWay = <<>>
  BY <1>1, InitIInv, UnderWayIs DEF UnderWayInOnePlace
<1> QED
  BY <1>1, <1>2 DEF Mailbox!Init

\* One rising edge of the path of a program that waits, in the mailbox's terms.
LEMMA MailboxEdge ==
    ASSUME IInv, InvCareful, careful, IInv', InvCareful',
           NEW host_init \in BOOLEAN, NEW rd_full \in BOOLEAN, NEW wr_full \in BOOLEAN,
           NEW answers \in BOOLEAN, NEW carries_out \in BOOLEAN,
           Clock(host_init, rd_full, wr_full, answers, carries_out)
    PROVE  \/ /\ ex = NoStore /\ OnItsWay' = OnItsWay /\ memory' = memory
              /\ ex' = NoStore \/ (OnItsWay' = NoStore /\ ex' \in Stores)
           \/ /\ ex # NoStore /\ OnItsWay = NoStore /\ OnItsWay' = ex /\ memory' = memory
              /\ ex' = NoStore
           \/ /\ OnItsWay # NoStore /\ OnItsWay' = NoStore /\ ex = NoStore
              /\ memory' = [memory EXCEPT ![Corrected(OnItsWay.line)] = StoredLine(OnItsWay.data)]
              /\ ex' = NoStore \/ ex' \in Stores
           \/ ex' = ex /\ OnItsWay' = OnItsWay /\ memory' = memory
<1>1. /\ writes' = IF carries_out \/ writes = <<>> THEN dma.c1Tx ELSE writes
      /\ carries_out => writes # <<>>
      /\ memory' = IF carries_out THEN [memory EXCEPT ![writes[1].line] = writes[1].data]
                   ELSE memory
  BY WritesStep
<1>2. /\ ex' \in Stores \cup {NoStore}
      /\ Stalls(wr_full) => ex' = ex
      /\ ~Stalls(wr_full) /\ ex' # NoStore => writes' = <<>> /\ dma'.c1Tx = <<>>
  <2>1. careful /\ MayStore => writes' = <<>> /\ dma'.c1Tx = <<>>
    BY DEF MayStore
  <2> QED
    BY <2>1, ProgramStep
<1>3. /\ Sends(wr_full) => /\ ex \in Stores /\ dma.c1Tx = <<>> /\ writes = <<>>
                           /\ dma'.c1Tx = <<[line |-> Corrected(ex.line),
                                             data |-> StoredLine(ex.data)]>>
      /\ ~Sends(wr_full) => dma'.c1Tx = <<>>
  BY CarefulStep
<1>4. /\ ex # NoStore => dma.c1Tx = <<>> /\ writes = <<>>
      /\ dma.c1Tx # <<>> => writes = <<>>
      /\ NoStore \notin Stores /\ careful'
  BY LayoutAssumption DEF IInv, InvCareful, InvWrite, Stores, Clock
<1>5. /\ writes = <<>> => UnderWay = dma.c1Tx
      /\ dma.c1Tx = <<>> => UnderWay = writes
      /\ UnderWay = <<>> <=> writes = <<>> /\ dma.c1Tx = <<>>
  BY UnderWayIs DEF UnderWayInOnePlace
<1>6. /\ writes' = <<>> => UnderWay' = dma'.c1Tx
      /\ dma'.c1Tx = <<>> => UnderWay' = writes'
  <2>1. UnderWayInOnePlace'
    BY UnderWayIs, PTL
  <2> QED
    BY <2>1 DEF UnderWayInOnePlace
<1>7. /\ UnderWay = <<>> => OnItsWay = NoStore
      /\ UnderWay' = <<>> => OnItsWay' = NoStore
      /\ UnderWay' = UnderWay => OnItsWay' = OnItsWay
  BY <1>4 DEF OnItsWay
<1>8. CASE UnderWay # <<>>
  <2>1. ex = NoStore /\ ~Sends(wr_full) /\ dma'.c1Tx = <<>>
    BY <1>3, <1>4, <1>5, <1>8
  <2>2. CASE carries_out
    <3>1. writes # <<>> /\ dma.c1Tx = <<>> /\ UnderWay = writes /\ UnderWay' = <<>>
      BY <1>1, <1>4, <1>5, <1>6, <2>1, <2>2
    <3>2. /\ OnItsWay # NoStore
          /\ writes[1] = [line |-> Corrected(OnItsWay.line), data |-> StoredLine(OnItsWay.data)]
      BY <1>8, <3>1, OnItsWayIs
    <3> QED
      BY <1>1, <1>2, <1>7, <2>1, <2>2, <3>1, <3>2
  <2>3. CASE ~carries_out
    <3>1. memory' = memory /\ UnderWay' = UnderWay /\ writes' = UnderWay
      BY <1>1, <1>4, <1>5, <1>6, <2>1, <2>3
    <3>2. ex' = NoStore
      BY <1>2, <1>8, <2>1, <3>1
    <3> QED
      BY <1>7, <2>1, <3>1, <3>2
  <2> QED
    BY <2>2, <2>3
<1>9. CASE UnderWay = <<>>
  <2>1. writes = <<>> /\ dma.c1Tx = <<>> /\ writes' = <<>> /\ memory' = memory
        /\ UnderWay' = dma'.c1Tx
    BY <1>1, <1>5, <1>6, <1>9
  <2>2. CASE Sends(wr_full)
    <3> DEFINE q == [line |-> Corrected(ex.line), data |-> StoredLine(ex.data)]
    <3>1. ex \in Stores /\ dma'.c1Tx = <<q>> /\ UnderWay' = <<q>>
      BY <1>3, <2>1, <2>2
    <3>2. OnItsWay' = [line |-> q.line - Base, data |-> q.data[0][2]]
      BY <1>4, <3>1 DEF OnItsWay
    <3>3. OnItsWay' = ex
      BY <3>1, <3>2, StoreOf
    <3>4. ex' = NoStore
      <4>1. ~Stalls(wr_full)
        BY <2>2 DEF Stalls, Sends, IInv, InvPhase
      <4> QED
        BY <1>2, <3>1, <4>1
    <3> QED
      BY <1>4, <1>7, <1>9, <2>1, <3>1, <3>3, <3>4
  <2>3. CASE ~Sends(wr_full)
    <3>1. UnderWay' = <<>>
      BY <1>3, <2>1, <2>3
    <3>2. CASE ex = NoStore
      BY <1>2, <1>7, <1>9, <2>1, <3>1, <3>2
    <3>3. CASE ex # NoStore
      <4>1. Stalls(wr_full)
        BY <2>3, <3>3 DEF Stalls, IInv, InvPhase, Runs
      <4> QED
        BY <1>2, <1>7, <1>9, <2>1, <3>1, <4>1
    <3> QED
      BY <3>2, <3>3
  <2> QED
    BY <2>2, <2>3
<1> QED
  BY <1>8, <1>9

\* Each step is one of the mailbox, or none.
LEMMA StepMailbox ==
    IInv /\ InvCareful /\ IInv' /\ InvCareful' /\ [Next]_vars => [Mailbox!Next]_(Mailbox!vars)
<1> SUFFICES ASSUME IInv, InvCareful, IInv', InvCareful', [Next]_vars
             PROVE  [Mailbox!Next]_(Mailbox!vars)
  OBVIOUS
<1>1. careful' = careful
  BY DEF Next, AnyClock, Clock, Reset, vars
<1>2. CASE ~careful
  BY <1>1, <1>2 DEF Mailbox!vars
<1>3. CASE careful
  <2>1. ASSUME NEW host_init \in BOOLEAN, NEW rd_full \in BOOLEAN, NEW wr_full \in BOOLEAN,
               NEW answers \in BOOLEAN, NEW carries_out \in BOOLEAN,
               Clock(host_init, rd_full, wr_full, answers, carries_out)
        PROVE  [Mailbox!Next]_(Mailbox!vars)
    <3>1. CASE /\ ex = NoStore /\ OnItsWay' = OnItsWay /\ memory' = memory
               /\ ex' = NoStore \/ (OnItsWay' = NoStore /\ ex' \in Stores)
      <4>1. Mailbox!Idle
        BY <1>1, <1>3, <3>1 DEF Mailbox!Idle, Mailbox!MayRequest, OnItsWay, Stores
      <4> QED
        BY <4>1 DEF Mailbox!Next
    <3>2. CASE /\ ex # NoStore /\ OnItsWay = NoStore /\ OnItsWay' = ex /\ memory' = memory
               /\ ex' = NoStore
      <4>1. Mailbox!Accept
        BY <1>1, <1>3, <3>2 DEF Mailbox!Accept, Mailbox!MayRequest, OnItsWay
      <4> QED
        BY <4>1 DEF Mailbox!Next
    <3>3. CASE /\ OnItsWay # NoStore /\ OnItsWay' = NoStore /\ ex = NoStore
               /\ memory' = [memory EXCEPT ![Corrected(OnItsWay.line)] = StoredLine(OnItsWay.data)]
               /\ ex' = NoStore \/ ex' \in Stores
      <4>1. Mailbox!Deliver
        BY <1>1, <1>3, <3>3 DEF Mailbox!Deliver, Mailbox!MayRequest, OnItsWay, Stores
      <4> QED
        BY <4>1 DEF Mailbox!Next
    <3>4. CASE ex' = ex /\ OnItsWay' = OnItsWay /\ memory' = memory
      BY <1>1, <3>4 DEF Mailbox!vars, OnItsWay
    <3> QED
      BY <1>3, <2>1, <3>1, <3>2, <3>3, <3>4, MailboxEdge
  <2>2. CASE Reset
    <3>1. ex' = NoStore /\ writes' = <<>> /\ dma'.c1Tx = <<>> /\ memory' = memory
      BY <2>2 DEF Reset, Dma!ResetDma, IInv, InvTypes, Dma!Dmas
    <3>2. UnderWay' = <<>>
        <4>1. UnderWayInOnePlace'
        BY UnderWayIs, PTL
      <4> QED
        BY <3>1, <4>1 DEF UnderWayInOnePlace
    <3>3. Mailbox!Reset
      BY <1>1, <1>3, <3>1, <3>2 DEF Mailbox!Reset
    <3> QED
      BY <3>3 DEF Mailbox!Next
  <2>3. CASE UNCHANGED vars
    BY <2>3 DEF vars, Mailbox!vars, UnderWay
  <2> QED
    BY <2>1, <2>2, <2>3 DEF Next, AnyClock
<1> QED
  BY <1>2, <1>3

\* To a program that waits for each of its stores to arrive before the next, the
\* path is a mailbox: no store is lost, and each changes the line it names only.
THEOREM PathIsAMailbox == Spec => MailboxSpec
<1>1. Spec => []InvCareful
  BY InitCareful, StepCareful, PathIsConsistent, PTL DEF Spec
<1> QED
  BY <1>1, InitMailbox, StepMailbox, PathIsConsistent, PTL DEF Spec, MailboxSpec, Mailbox!Spec

-----------------------------------------------------------------------------
(* The image. *)

\* The program stores to no line of its own image.
StoresElsewhere == \A l \in StoreLines : Corrected(l) \notin ImageLines

\* Such a program, if it waits between its stores, leaves its image in the host's
\* memory as it is, so that every reset loads the same program again.
THEOREM ImageIsKept ==
    ASSUME StoresElsewhere
    PROVE  Spec => [](careful => ImageIntact)
<1>1. Init => (careful => ImageIntact)
  BY LayoutAssumption DEF Init, ImageIntact
<1>2. IInv /\ InvCareful /\ (careful => ImageIntact) /\ [Next]_vars => (careful => ImageIntact)'
  <2> SUFFICES ASSUME IInv, InvCareful, careful => ImageIntact, [Next]_vars, careful'
               PROVE  ImageIntact'
    OBVIOUS
  <2>1. careful
    BY DEF Next, AnyClock, Clock, Reset, vars
  <2>2. ASSUME NEW host_init \in BOOLEAN, NEW rd_full \in BOOLEAN, NEW wr_full \in BOOLEAN,
               NEW answers \in BOOLEAN, NEW carries_out \in BOOLEAN,
               Clock(host_init, rd_full, wr_full, answers, carries_out)
        PROVE  ImageIntact'
    <3>1. CASE carries_out
      <4>1. /\ writes # <<>>
            /\ memory' = [memory EXCEPT ![writes[1].line] = writes[1].data]
        BY <2>2, <3>1, WritesStep
      <4>2. writes[1] \in OwnRequests
        BY <2>1, <4>1 DEF InvCareful
      <4>3. writes[1].line \notin ImageLines
        BY <4>2 DEF OwnRequests, Stores, StoresElsewhere
      <4> QED
        BY <2>1, <4>1, <4>3, LayoutAssumption DEF ImageIntact, IInv, InvTypes
    <3>2. CASE ~carries_out
      BY <2>1, <2>2, <3>2, WritesStep DEF ImageIntact
    <3> QED
      BY <3>1, <3>2
  <2>3. CASE Reset
    BY <2>1, <2>3 DEF Reset, ImageIntact
  <2>4. CASE UNCHANGED vars
    BY <2>1, <2>4 DEF vars, ImageIntact
  <2> QED
    BY <2>2, <2>3, <2>4 DEF Next, AnyClock
<1> QED
  BY <1>1, <1>2, InitCareful, StepCareful, PathIsConsistent, PTL DEF Spec
=============================================================================
