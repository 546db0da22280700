------------------------------- MODULE HostPath -------------------------------
(***************************************************************************)
(* The path between the CPU and the host's memory: the CPU's host state    *)
(* machine (CpuHost), the memory controller (MemCtrl), the DMA engine with *)
(* its FIFO (CciDma) as afu.sv and miner.sv connect them, the two channels *)
(* of CCI-P and the host's memory.                                         *)
(*                                                                         *)
(* One step is one rising edge of the clock.  In each the host answers a   *)
(* read or not, carries out one of the writes it has taken or none, and    *)
(* raises the almost full signals at will; the pipeline, when it does not  *)
(* stall, goes on to a store to the host or to any other instruction.      *)
(***************************************************************************)
EXTENDS Integers, Sequences

CONSTANTS Depth, AddrSpace, NumLines, FillCount, \* see the components
          DM_ADDRS, IM_ADDRS, ImageLine, NoStore,
          Base,       \* address_offset: the first line of the host's buffer
          StoreLines, \* the lines the program stores to
          MaxStores   \* bound: how many stores it does

ASSUME HostPathAssumption == /\ Depth \in Nat \ {0} /\ AddrSpace \in Nat
                             /\ AddrSpace >= Depth
                             /\ NumLines \in Nat \ {0} /\ Base \in Nat
                             /\ FillCount \in Nat /\ FillCount >= 2
                             /\ MaxStores \in Nat

VARIABLES mc, cpu, dma, fifo,   \* the components' registers
          reads, writes,        \* the channels of CCI-P
          memory,               \* the host's memory: its lines
          data_mem, instr_mem,  \* the words loaded
          ex,                   \* the store in the execute stage, or NoStore
          stores,               \* the stores done so far
          careful               \* the program waits between its stores

vars == <<mc, cpu, dma, fifo, reads, writes, memory, data_mem, instr_mem, ex,
          stores, careful>>

HostLines == 0 .. NumLines - 1

\* The words: word w of line l of the image, and the word of the n-th store; 0
\* stands for zero.
ImageWord(l, w) == <<l, w>>
StoreWord(n) == <<NumLines, n>>
Words == {ImageWord(l, w) : l \in HostLines, w \in 0 .. FillCount - 1}
         \cup {StoreWord(n) : n \in 0 .. MaxStores}

Ctrl == INSTANCE MemCtrl WITH Word <- Words, Zero <- StoreWord(0)
Cpu  == INSTANCE CpuHost WITH LineWords <- FillCount
Dma  == INSTANCE CciDma WITH Data <- Ctrl!CacheLines, MaxSize <- 1

\* The size the loader gives to the engine (mmem::alloc).
Size == 1

Image(l) == [w \in Ctrl!WordIndex |-> ImageWord(l, w)]

ZeroLine == [w \in Ctrl!WordIndex |-> StoreWord(0)]

StoredLine(n) == [ZeroLine EXCEPT ![0] = StoreWord(n)]

\* corrected_address, in lines.
Corrected(l) == Base + l

\* The host's lines that line k of the data and of the instruction memory come from.
DmLine(k) == Corrected(DM_ADDRS[k] \div FillCount)
ImLine(k) == Corrected(ImageLine + IM_ADDRS[k] \div FillCount)

ImageLines == {DmLine(k) : k \in 1 .. Len(DM_ADDRS)}
              \cup {ImLine(k) : k \in 1 .. Len(IM_ADDRS)}

\* Addresses of two lines are the same or a line apart.
Apart(a, b) == a = b \/ a + FillCount =< b \/ b + FillCount =< a

\* The host's buffer holds the image, and the lines a program stores to.
ASSUME LayoutAssumption ==
    /\ DM_ADDRS \in Seq(Nat) \ {<<>>} /\ IM_ADDRS \in Seq(Nat) \ {<<>>}
    /\ ImageLine \in Nat
    /\ \A j, k \in 1 .. Len(DM_ADDRS) : Apart(DM_ADDRS[j], DM_ADDRS[k])
    /\ \A j, k \in 1 .. Len(IM_ADDRS) : Apart(IM_ADDRS[j], IM_ADDRS[k])
    /\ ImageLines \subseteq HostLines
    /\ \A l \in StoreLines : l \in Nat /\ Corrected(l) \in HostLines
    /\ NoStore \notin [line : StoreLines, data : 1 .. MaxStores]

LoadedWords(addrs) == {addrs[k] + w : k \in 1 .. Len(addrs), w \in Ctrl!WordIndex}

\* What the registers that are not reset hold at first is never used here:
\* every transfer begins with a go.
PowerUpDma == [cci_rd_remaining |-> 0, cci_rd_pending |-> 0,
               dma_rd_remaining |-> 0, cci_wr_remaining |-> 0,
               cci_wr_en_delayed |-> FALSE, rd_addr |-> 0, wr_addr |-> 0,
               c0Tx |-> <<>>, c1Tx |-> <<>>]
PowerUpFifo == Dma!EmptyFifo([a \in Dma!Addr |-> ZeroLine], ZeroLine)

Init == /\ mc = Ctrl!ResetMemCtrl
        /\ cpu = Cpu!ResetCpu
        /\ dma = PowerUpDma
        /\ fifo = PowerUpFifo
        /\ reads = <<>> /\ writes = <<>>
        /\ memory = [l \in HostLines |-> Image(l)]
        /\ data_mem = [a \in LoadedWords(DM_ADDRS) |-> StoreWord(0)]
        /\ instr_mem = [a \in LoadedWords(IM_ADDRS) |-> StoreWord(0)]
        /\ ex = NoStore
        /\ stores = 0
        /\ careful \in BOOLEAN

-----------------------------------------------------------------------------
(* The wires of miner.sv, afu.sv and hal.sv.                               *)

op == Cpu!op(cpu, ex)

\* host_wr_ready is not full; whether the last write is done is not looked at.
ToCpu(wr_ready) == [ready |-> Ctrl!ready(mc), rd_valid |-> Ctrl!rd_valid(mc, op),
                    tx_done |-> Ctrl!tx_done(mc, op, wr_ready)]

ToCtrl(host_init, wr_ready) ==
    [host_init |-> host_init, host_rd_ready |-> ~fifo.empty,
     host_wr_ready |-> wr_ready, line |-> fifo.rd_data,
     word |-> StoreWord(IF ex # NoStore THEN ex.data ELSE 0)]

ToDma(wr_ready) ==
    [rd_go |-> Ctrl!host_rgo(mc, op), rd_addr |-> Corrected(Cpu!ex_addr(cpu, ex)),
     rd_size |-> Size, rd_en |-> Ctrl!host_re(mc, op),
     wr_go |-> Ctrl!host_wgo(mc, op), wr_addr |-> Corrected(Cpu!ex_addr(cpu, ex)),
     wr_size |-> Size, wr_en |-> Ctrl!host_we(mc, op, wr_ready),
     wr_data |-> mc.line_buffer]

\* The store in the execute stage completes in this cycle.
StoreDone(wr_ready) == cpu.state = "WRT_HOST" /\ ToCpu(wr_ready).tx_done

\* What the pipeline brings to the execute stage when it does not stall.
NextInstruction(wr_ready) ==
    IF Cpu!host_stall(cpu, ex, ToCpu(wr_ready)) THEN ex' = ex
    ELSE \/ ex' = NoStore
         \/ /\ stores' < MaxStores
            /\ careful => writes' = <<>> /\ dma'.c1Tx = <<>>
            /\ \E l \in StoreLines : ex' = [line |-> l, data |-> stores' + 1]

\* A rising edge, with the host's choices.
Clock(host_init, rd_full, wr_full, answers, carries_out) ==
    LET c == [c0TxAlmFull |-> rd_full, c1TxAlmFull |-> wr_full,
              c1Empty |-> writes = <<>>,
              rsp |-> IF answers THEN <<memory[reads[1]]>> ELSE <<>>]
        in == ToCpu(~wr_full)
    IN  /\ answers => reads # <<>>
        /\ carries_out => writes # <<>>
        /\ mc' = Ctrl!NextMemCtrl(mc, op, ToCtrl(host_init, ~wr_full))
        /\ cpu' = Cpu!NextCpu(cpu, ex, in)
        /\ dma' = Dma!NextDma(dma, fifo, ToDma(~wr_full), c)
        /\ fifo' = Dma!NextRdFifo(fifo, ToDma(~wr_full), c)
        /\ reads' = (IF answers THEN Tail(reads) ELSE reads) \o dma.c0Tx
        /\ data_mem' = IF Cpu!mem_ex_wrt_en(cpu, in)
                       THEN [data_mem EXCEPT ![Cpu!mem_ex_addr(cpu)] =
                                 Ctrl!common_data_bus_write_out(mc)]
                       ELSE data_mem
        /\ instr_mem' = IF Cpu!im_wrt_en(cpu, in)
                        THEN [instr_mem EXCEPT ![Cpu!im_wrt_addr(cpu)] =
                                  Ctrl!common_data_bus_write_out(mc)]
                        ELSE instr_mem
        /\ IF carries_out
           THEN \E n \in 1 .. Len(writes) :
                    /\ memory' = [memory EXCEPT ![writes[n].line] = writes[n].data]
                    /\ writes' = SubSeq(writes, 1, n - 1) \o
                                 SubSeq(writes, n + 1, Len(writes)) \o dma.c1Tx
           ELSE /\ memory' = memory
                /\ writes' = writes \o dma.c1Tx
        /\ stores' = IF StoreDone(~wr_full) THEN stores + 1 ELSE stores
        /\ NextInstruction(~wr_full)
        /\ UNCHANGED careful

\* The loader resets the AFU; the channels of CCI-P are drained.
Reset == /\ mc' = Ctrl!ResetMemCtrl
         /\ cpu' = Cpu!ResetCpu
         /\ dma' = Dma!ResetDma(dma)
         /\ fifo' = Dma!ResetFifo(fifo)
         /\ reads' = <<>> /\ writes' = <<>>
         /\ ex' = NoStore
         /\ UNCHANGED <<memory, data_mem, instr_mem, stores, careful>>

AnyClock == \E host_init, rd_full, wr_full, answers, carries_out \in BOOLEAN :
                Clock(host_init, rd_full, wr_full, answers, carries_out)

Next == AnyClock \/ Reset

Spec == Init /\ [][Next]_vars

-----------------------------------------------------------------------------
TypeOK == /\ mc \in Ctrl!MemCtrls
          /\ dma \in Dma!Dmas
          /\ fifo \in Dma!Fifos
          /\ reads \in Seq(HostLines)
          /\ writes \in Seq(Dma!Requests)
          /\ memory \in [HostLines -> Ctrl!CacheLines]
          /\ stores \in 0 .. MaxStores
          /\ careful \in BOOLEAN

Runs == cpu.state \in {"RUN", "WRT_HOST"}

DmLineLoaded(k) == \A w \in Ctrl!WordIndex :
                       data_mem[DM_ADDRS[k] + w] = Image(DmLine(k))[w]
ImLineLoaded(k) == \A w \in Ctrl!WordIndex :
                       instr_mem[IM_ADDRS[k] + w] = Image(ImLine(k))[w]

\* A store that follows lost ones is sent to a line further on (StoreIsSent), so
\* that after enough of them one may reach the image.
ImageIntact == \A l \in ImageLines : memory[l] = Image(l)

\* The pipeline does not run before every line of the program and of its data
\* has been copied from the host, each word to its own address.
ProgramIsLoaded ==
    Runs /\ ImageIntact => /\ \A k \in 1 .. Len(DM_ADDRS) : DmLineLoaded(k)
                           /\ \A k \in 1 .. Len(IM_ADDRS) : ImLineLoaded(k)

\* No two writes are ever under way together.  The host does not order writes
\* (MPF_CONF_ENFORCE_WR_ORDER is 0), so this is what makes the flag a program
\* stores last reach the memory last.
OneWriteAtATime == Len(dma.c1Tx) + Len(writes) <= 1

\* A line is sent to the host only as the end of a store, with its word.
WritesAreStores ==
    [][dma'.c1Tx # <<>> =>
          /\ cpu.state = "WRT_HOST"
          /\ stores' = stores + 1
          /\ dma'.c1Tx[1].data = StoredLine(ex.data)]_vars

\* A store is done only when its line has been sent to its address ("we should
\* just write the data and then return to READY when done", mem_ctrl.sv).
StoreIsSent ==
    [][stores' = stores + 1 =>
          /\ dma'.c1Tx # <<>>
          /\ dma'.c1Tx[1].line = Corrected(ex.line)]_vars

\* To a program that waits between its stores the path is a mailbox; the
\* mailbox of another program is left alone.
UnderWay == writes \o dma.c1Tx

Mailbox == INSTANCE HostMailbox WITH
    None <- NoStore,
    Stores <- [line : StoreLines, data : 1 .. MaxStores],
    LineOf <- LAMBDA s : Corrected(s.line),
    Line <- LAMBDA s : StoredLine(s.data),
    memory <- IF careful THEN memory ELSE [l \in HostLines |-> Image(l)],
    request <- IF careful THEN ex ELSE NoStore,
    outstanding <- IF UnderWay = <<>> \/ ~careful THEN NoStore
                   ELSE [line |-> UnderWay[1].line - Base,
                         data |-> UnderWay[1].data[0][2]]

MailboxSpec == Mailbox!Spec

-----------------------------------------------------------------------------
\* The clock runs; the host answers reads, carries out writes and is not almost
\* full for ever while a request waits.
Fair ==
    /\ WF_vars(AnyClock)
    /\ WF_vars(\E init, rd_full, wr_full, does \in BOOLEAN :
                   /\ reads # <<>>
                   /\ Clock(init, rd_full, wr_full, TRUE, does))
    /\ WF_vars(\E init, wr_full, answers, does \in BOOLEAN :
                   /\ dma.cci_rd_remaining > 0
                   /\ Clock(init, FALSE, wr_full, answers, does))
    /\ WF_vars(\E init, rd_full, wr_full, answers \in BOOLEAN :
                   /\ writes # <<>>
                   /\ Clock(init, rd_full, wr_full, answers, TRUE))
    /\ WF_vars(\E init, rd_full, answers, does \in BOOLEAN :
                   /\ Ctrl!host_wgo(mc, op) /\ mc.bubble
                   /\ Clock(init, rd_full, FALSE, answers, does))

FairSpec == Spec /\ Fair

\* Once the loader has started the AFU the program is loaded and runs, unless
\* the AFU is reset.
Boots == Ctrl!ready(mc) ~> Runs \/ ~Ctrl!ready(mc)

\* A store to the host ends; the pipeline does not stall for ever.  A store of
\* a program that waits between its stores also arrives, unless the AFU is reset.
EveryStoreEnds ==
    /\ cpu.state = "WRT_HOST" ~> cpu.state # "WRT_HOST"
    /\ \A l \in StoreLines, n \in 1 .. MaxStores :
        careful /\ ex = [line |-> l, data |-> n] ~>
            memory[Corrected(l)] = StoredLine(n) \/ ~Ctrl!ready(mc)
=============================================================================
