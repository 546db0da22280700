----------------------------- MODULE LoaderProofs -----------------------------
(***************************************************************************)
(* That the AFU is never told of memory that is not there, and that a      *)
(* program that returns leaves none behind, for all files, lines and       *)
(* scripts, all sizes, and any number of failures of the driver,           *)
(* interrupts and writes of the AFU.                                       *)
(*                                                                         *)
(* AfuMemory is not inductive: between two calls of the driver it depends  *)
(* on how far mmem::resize, AFU_Reset and ~mmem have come.  IInv says what *)
(* holds at each of their steps.                                           *)
(*                                                                         *)
(* The second part is about .wait: what it says is true.  The third is     *)
(* about the directives that move bytes: what they leave is what was asked *)
(* for.  The fourth is about the recursive functions of the model, that of *)
(* the command line and that of FlattenSeq, and gives the type invariant;  *)
(* the fifth is about .mem, and puts the directives together.              *)
(***************************************************************************)
EXTENDS Loader, WellFoundedInduction, TLAPS

\* Where the AFU has been told of the memory in use.
Told == InUse \cup {"reset_afu"}

InvTypes == /\ from \in {"script", "prompt"}
            /\ buffers \subseteq Buffers
            /\ data \in Buffers \cup {Null}

InvAddress == /\ base # Null => base = data /\ data \in buffers
              /\ buffers \subseteq {data}

InvTold == pc \in Told => base = data /\ length = 1

InvMemory == pc \in Told \cup {"reset_length", "reset_base"} =>
                 data \in buffers /\ size \in Nat \ {0} /\ DOMAIN mem = 0 .. size - 1

InvReset == pc = "reset_base" => length = 1

\* Before AFU::free and before AFU::malloc the AFU knows of nothing.
InvFreed == /\ pc \in {"start", "free", "alloc"} => base = Null
            /\ pc \in {"start", "alloc"} => buffers = {}

\* The new buffer, step by step.
InvNew == /\ pc \in {"write_base", "write_size", "set_size"} =>
                 data \in buffers /\ DOMAIN mem = 0 .. newsize - 1
          /\ pc \in {"write_size", "set_size"} => base = data
          /\ pc = "set_size" => length = 1

\* A size is asked for unless the program ends.
InvSize == /\ pc \in {"dealloc", "free"} /\ context # "unwind" => newsize \in Nat \ {0}
           /\ pc \in {"alloc", "write_base", "write_size", "set_size"} => newsize \in Nat \ {0}
           /\ context = "unwind" => pc \in {"dealloc", "free", "over"}

InvResult == result = "returned" => pc = "over" /\ base = Null /\ buffers = {}

IInv == /\ InvTypes /\ InvAddress /\ InvTold /\ InvMemory /\ InvReset
        /\ InvFreed /\ InvNew /\ InvSize /\ InvResult

-----------------------------------------------------------------------------
\* The program starts without memory.
LEMMA InitIInv == Init => IInv
BY DEF Init, IInv, InvTypes, InvAddress, InvTold, InvMemory, InvReset, InvFreed, InvNew,
       InvSize, InvResult, Told, InUse

\* A step of the loader that leaves the buffers and the registers alone, writes
\* at most into the memory, and goes on, gives up or ends.
LEMMA QuietStep ==
    ASSUME IInv, pc \in InUse,
           UNCHANGED <<data, size, buffers, base, length>>,
           DOMAIN mem' = DOMAIN mem, from' \in {"script", "prompt"},
           \/ pc' \in Told /\ UNCHANGED <<context, result>>
           \/ Terminate
           \/ Unwind
    PROVE  IInv'
BY DEF IInv, InvTypes, InvAddress, InvTold, InvMemory, InvReset, InvFreed, InvNew, InvSize,
       InvResult, Told, InUse, Terminate, Unwind

\* The loop, the reading of lines and the end of the script.
LEMMA RunStep == IInv /\ (Begin \/ ReadScript \/ EndScript \/ Prompt \/ Leave) => IInv'
<1> SUFFICES ASSUME IInv, Begin \/ ReadScript \/ EndScript \/ Prompt \/ Leave
             PROVE  IInv'
    OBVIOUS
<1> USE DEF heap, afu, shell, command, Done, GoTo
<1>0. from \in {"script", "prompt"} BY DEF IInv, InvTypes
<1>1. CASE Begin BY <1>0, <1>1, QuietStep DEF Begin, InUse, Told
<1>2. CASE ReadScript
      <2>1. pc \in InUse /\ from' \in {"script", "prompt"} /\ UNCHANGED <<heap, afu>>
            BY <1>0, <1>2 DEF ReadScript, InUse
      <2>2. (pc' \in Told /\ UNCHANGED <<context, result>>) \/ Terminate
            BY <1>0, <1>2 DEF ReadScript, Take, InUse, Told
      <2> QED BY <2>1, <2>2, QuietStep
<1>3. CASE EndScript BY <1>0, <1>3, QuietStep DEF EndScript, InUse, Told
<1>4. CASE Prompt
      <2>1. pc \in InUse /\ from' \in {"script", "prompt"} /\ UNCHANGED <<heap, afu>>
            BY <1>0, <1>4 DEF Prompt, InUse
      <2>2. (pc' \in Told /\ UNCHANGED <<context, result>>) \/ Terminate
            BY <1>0, <1>4 DEF Prompt, Take, InUse, Told
      <2> QED BY <2>1, <2>2, QuietStep
<1>5. CASE Leave BY <1>0, <1>5, QuietStep DEF Leave, InUse
<1> QED BY <1>1, <1>2, <1>3, <1>4, <1>5

\* The directives that do not call the driver, as far as their first step.
LEMMA DirectiveStep ==
    IInv /\ (Message \/ exit \/ reset \/ sr_r \/ sr_s \/ sr \/ mem_ \/ wait) => IInv'
<1> SUFFICES ASSUME IInv, Message \/ exit \/ reset \/ sr_r \/ sr_s \/ sr \/ mem_ \/ wait
             PROVE  IInv'
    OBVIOUS
<1> USE DEF heap, afu, shell, Done, GoTo, Goes, Is
<1>0. from \in {"script", "prompt"} BY DEF IInv, InvTypes
<1>1. CASE Message BY <1>0, <1>1, QuietStep DEF Message, InUse, Told
<1>2. CASE exit BY <1>0, <1>2, QuietStep DEF exit, InUse, Told
<1>3. CASE reset BY <1>0, <1>3, QuietStep DEF reset, AfterReset, InUse, Told
<1>4. CASE sr_r BY <1>0, <1>4, QuietStep DEF sr_r, InUse, Told
<1>5. CASE sr_s BY <1>0, <1>5, QuietStep DEF sr_s, InUse, Told
<1>6. CASE sr BY <1>0, <1>6, QuietStep DEF sr, InUse, Told
<1>7. CASE mem_ BY <1>0, <1>7, QuietStep DEF mem_, InUse, Told
<1>8. CASE wait BY <1>0, <1>8, QuietStep DEF wait, InUse, Told
<1> QED BY <1>1, <1>2, <1>3, <1>4, <1>5, <1>6, <1>7, <1>8

\* The loops over the memory.
LEMMA LoopStep == IInv /\ (Clear \/ restore \/ save \/ Show \/ Poll \/ Verdict) => IInv'
<1> SUFFICES ASSUME IInv, Clear \/ restore \/ save \/ Show \/ Poll \/ Verdict
             PROVE  IInv'
    OBVIOUS
<1> USE DEF heap, afu, shell, Done, GoTo
<1>0. from \in {"script", "prompt"} BY DEF IInv, InvTypes
<1>1. CASE Clear BY <1>0, <1>1, QuietStep DEF Clear, InUse, Told
<1>2. CASE restore BY <1>0, <1>2, QuietStep DEF restore, Store, InUse, Told
<1>3. CASE save BY <1>0, <1>3, QuietStep DEF save, InUse, Told
<1>4. CASE Show BY <1>0, <1>4, QuietStep DEF Show, InUse, Told
<1>5. CASE Poll BY <1>0, <1>5, QuietStep DEF Poll, InUse, Told
<1>6. CASE Verdict BY <1>0, <1>6, QuietStep DEF Verdict, InUse, Told
<1> QED BY <1>1, <1>2, <1>3, <1>4, <1>5, <1>6

-----------------------------------------------------------------------------
(* The steps that call the driver.                                         *)

\* mmem::resize and ~mmem, call by call.
LEMMA HeapStep == IInv /\ Heap => IInv'
<1> SUFFICES ASSUME IInv, Heap PROVE IInv'
    OBVIOUS
<1> USE LoaderAssumption
    DEF IInv, InvTypes, InvAddress, InvTold, InvMemory, InvReset, InvFreed, InvNew, InvSize,
        InvResult, Told, InUse, Terminate, Unwind, GoTo, Write, SetBase, SetLength, OnlyAfu,
        heap, afu, shell, command
<1>1. CASE Dealloc BY <1>1 DEF Dealloc
<1>2. CASE Free BY <1>2 DEF Free
<1>3. CASE Alloc
      <2>1. pc = "alloc" /\ UNCHANGED <<size, base, length, from>>
            BY <1>3 DEF Alloc
      <2>2. CASE \E b \in Buffers \ buffers, byte \in Byte :
                     /\ data' = b
                     /\ buffers' = buffers \cup {b}
                     /\ mem' = [i \in 0 .. newsize - 1 |-> byte]
                     /\ GoTo("write_base")
                     /\ newsize' = newsize
            BY <2>1, <2>2
      <2>3. CASE /\ data' \in {Null, data} /\ UNCHANGED <<buffers, mem>>
                 /\ BadAlloc \/ (Terminate /\ UNCHANGED newsize)
            BY <2>1, <2>3 DEF BadAlloc
      <2> QED
            <3> HIDE DEF IInv, GoTo, Terminate
            <3> QED BY <1>3, <2>2, <2>3 DEF Alloc
<1>4. CASE WriteBase BY <1>4 DEF WriteBase
<1>5. CASE WriteSize BY <1>5 DEF WriteSize
<1>6. CASE SetSize BY <1>6 DEF SetSize
<1> QED BY <1>1, <1>2, <1>3, <1>4, <1>5, <1>6 DEF Heap

\* The start, and the directives that write the registers or ask for memory.
LEMMA DriverStep ==
    IInv /\ (Start \/ go_ \/ resize \/ ResetAfu \/ ResetLength \/ ResetBase) => IInv'
<1> SUFFICES ASSUME IInv, Start \/ go_ \/ resize \/ ResetAfu \/ ResetLength \/ ResetBase
             PROVE  IInv'
    OBVIOUS
<1> USE LoaderAssumption
    DEF IInv, InvTypes, InvAddress, InvTold, InvMemory, InvReset, InvFreed, InvNew, InvSize,
        InvResult, Told, InUse, Terminate, Unwind, GoTo, Done, Write, SetBase, SetLength, OnlyAfu,
        heap, afu, shell, command, Is
<1>1. CASE Start
      <2>1. /\ pc = "start" /\ from' \in {"script", "prompt"} /\ UNCHANGED <<heap, afu>>
            /\ \/ Unwind
               \/ Resize(InitialSize, "initial")
            BY <1>1 DEF Start
      <2> QED BY <2>1 DEF Resize
<1>2. CASE go_ BY <1>2 DEF go_
<1>3. CASE resize
      <2>1. CASE Resize(2 ^ Number[cmd[2]], "resize") /\ BitsAllowed(Number[cmd[2]])
            BY <1>3, <2>1 DEF resize, Resize, BitsAllowed
      <2>2. CASE Done /\ UNCHANGED newsize BY <1>3, <2>2 DEF resize
      <2> QED BY <1>3, <2>1, <2>2 DEF resize
<1>4. CASE ResetAfu BY <1>4 DEF ResetAfu
<1>5. CASE ResetLength BY <1>5 DEF ResetLength
<1>6. CASE ResetBase BY <1>6 DEF ResetBase, AfterReset
<1> QED BY <1>1, <1>2, <1>3, <1>4, <1>5, <1>6

\* The AFU writes into the memory, and the user presses ^C.
LEMMA OutsideStep == IInv /\ (AfuWrite \/ break_machine \/ UNCHANGED vars) => IInv'
<1> SUFFICES ASSUME IInv, AfuWrite \/ break_machine \/ UNCHANGED vars
             PROVE  IInv'
    OBVIOUS
<1>1. /\ UNCHANGED <<pc, context, result, from, newsize, data, size, buffers, base, length>>
      /\ DOMAIN mem' = DOMAIN mem
      BY DEF AfuWrite, break_machine, vars, shell, command, heap, afu
<1> QED BY <1>1 DEF IInv, InvTypes, InvAddress, InvTold, InvMemory, InvReset, InvFreed, InvNew,
                    InvSize, InvResult

\* The invariant is inductive, ...
LEMMA NextIInv == IInv /\ [Next]_vars => IInv'
BY RunStep, DirectiveStep, LoopStep, HeapStep, DriverStep, OutsideStep
   DEF Next, LoaderStep, Run, execute_runtime_directive, Work

\* ... and holds of every behaviour.
LEMMA SpecIInv == Spec => []IInv
BY InitIInv, NextIInv, PTL DEF Spec

\* The AFU is never told of memory that is not there, and no buffer is lost
\* (mmem::resize, AFU_Reset, ~mmem), whatever the driver does; when main returns
\* none is kept.
THEOREM AfuMemoryAlways == Spec => []AfuMemory
<1>1. IInv => AfuMemory
      BY DEF IInv, InvAddress, InvTold, InvMemory, InvResult, Told, AfuMemory
<1> QED BY <1>1, SpecIInv, PTL

-----------------------------------------------------------------------------
(* .wait                                                                   *)
(*                                                                         *)
(* WaitVerdict is about the line that is reached; WaitInv about the steps  *)
(* that lead there.  The poll that is counted has not seen the value, the  *)
(* count does not pass the timeout, and what the AFU has not touched is as *)
(* it was when the directive began.                                        *)

Said == {"observed", "timed out", "aborted"}

Waited == Number[cmd[2]] % size
There == before[Waited] = Number[cmd[3]] % 256

InvKept == pc \in {"execute", "poll", "verdict"} =>
               \A i \in DOMAIN mem \ touched : mem[i] = before[i]

InvFresh == pc = "execute" => k = 0 /\ verdict = "none"

InvPoll == pc \in {"poll", "verdict"} =>
               /\ Number[cmd[2]] \in Int /\ Timeout \in Nat /\ k \in 0 .. Timeout
               /\ k # 0 => ~(There /\ Waited \notin touched)
               /\ mode # "MACHINE" => interrupts > 0

InvObserved == pc = "verdict" /\ mode = "MACHINE" /\ ~(k = Timeout /\ Timeout # 0) =>
                   There \/ Waited \in touched

\* What a .wait has said is there until the next line, or the end.
InvOver == verdict \in Said => \/ pc \in {"script", "prompt", "over"}
                               \/ pc \in {"dealloc", "free"} /\ context = "unwind"

InvSaid == pc \in {"script", "prompt"} =>
               /\ verdict = "observed" => There \/ Waited \in touched
               /\ verdict = "timed out" => Timeout # 0 /\ ~(There /\ Waited \notin touched)
               /\ verdict = "aborted" => interrupts > 0

WaitInv == /\ interrupts \in Nat
           /\ InvKept /\ InvFresh /\ InvPoll /\ InvObserved /\ InvOver /\ InvSaid

\* Nothing has been waited for.
LEMMA InitWaitInv == Init => WaitInv
BY DEF Init, WaitInv, InvKept, InvFresh, InvPoll, InvObserved, InvOver, InvSaid, Said

\* A step that has nothing to do with a wait.
LEMMA WaitElsewhere ==
    ASSUME WaitInv, interrupts' = interrupts, verdict' \notin Said,
           pc' \notin {"execute", "poll", "verdict"}
    PROVE  WaitInv'
BY DEF WaitInv, InvKept, InvFresh, InvPoll, InvObserved, InvOver, InvSaid, Said

\* While a step ends the program, what was said is of no consequence.
LEMMA WaitAtTheEnd ==
    ASSUME WaitInv, interrupts' = interrupts, pc' \in {"dealloc", "free", "over"},
           pc' = "over" \/ context' = "unwind" \/ verdict' \notin Said
    PROVE  WaitInv'
BY DEF WaitInv, InvKept, InvFresh, InvPoll, InvObserved, InvOver, InvSaid

\* mmem::resize and ~mmem.
LEMMA HeapWaitInv == WaitInv /\ Heap => WaitInv'
<1> SUFFICES ASSUME WaitInv, Heap PROVE WaitInv'
    OBVIOUS
<1> USE DEF GoTo, Terminate, Unwind, OnlyAfu, Write, command, counters
<1>0. InvOver BY DEF WaitInv
<1>1. CASE Dealloc
      <2>1. UNCHANGED <<verdict, interrupts>> BY <1>1 DEF Dealloc
      <2>2. CASE context = "unwind"
            <3>1. pc' \in {"free", "over"} /\ (pc' = "over" \/ context' = "unwind")
                  BY <1>1, <2>2 DEF Dealloc
            <3> QED BY <2>1, <3>1, WaitAtTheEnd
      <2>3. CASE context # "unwind"
            <3>1. verdict \notin Said BY <1>0, <1>1, <2>3 DEF InvOver, Dealloc
            <3>2. pc' \in {"free", "dealloc", "alloc"} BY <1>1, <2>3 DEF Dealloc
            <3> QED BY <2>1, <3>1, <3>2, WaitElsewhere
      <2> QED BY <2>2, <2>3
<1>2. CASE Free
      <2>1. UNCHANGED <<verdict, interrupts>> BY <1>2 DEF Free
      <2>2. pc' = "over" \/ (pc' = "alloc" /\ context # "unwind") BY <1>2 DEF Free
      <2>3. CASE pc' = "over" BY <2>1, <2>3, WaitAtTheEnd
      <2>4. CASE pc' = "alloc" /\ context # "unwind"
            <3>1. verdict \notin Said BY <1>0, <1>2, <2>4 DEF InvOver, Free
            <3> QED BY <2>1, <2>4, <3>1, WaitElsewhere
      <2> QED BY <2>2, <2>3, <2>4
<1>3. CASE Alloc
      <2>1. pc = "alloc" /\ UNCHANGED <<verdict, interrupts>> BY <1>3 DEF Alloc
      <2>2. pc' \in {"write_base", "dealloc", "over"} BY <1>3 DEF Alloc, BadAlloc
      <2>3. verdict \notin Said BY <1>0, <2>1 DEF InvOver
      <2> QED BY <2>1, <2>2, <2>3, WaitElsewhere
<1>4. CASE WriteBase \/ WriteSize
      <2>1. pc \in {"write_base", "write_size"} /\ UNCHANGED <<verdict, interrupts>>
            BY <1>4 DEF WriteBase, WriteSize
      <2>2. pc' \in {"write_size", "set_size", "dealloc", "over"}
            BY <1>4 DEF WriteBase, WriteSize
      <2>3. verdict \notin Said BY <1>0, <2>1 DEF InvOver
      <2> QED BY <2>1, <2>2, <2>3, WaitElsewhere
<1>5. CASE SetSize
      <2>1. pc = "set_size" /\ UNCHANGED <<verdict, interrupts>> BY <1>5 DEF SetSize
      <2>2. pc' \in {"begin", "clear"} BY <1>5 DEF SetSize
      <2>3. verdict \notin Said BY <1>0, <2>1 DEF InvOver
      <2> QED BY <2>1, <2>2, <2>3, WaitElsewhere
<1> QED BY <1>1, <1>2, <1>3, <1>4, <1>5 DEF Heap

\* A line is taken: the memory is noted, and nothing has been said.
LEMMA TakeWaitInv ==
    ASSUME WaitInv, from \in {"script", "prompt"}, UNCHANGED <<mem, interrupts>>,
           NEW line, Take(line)
    PROVE  WaitInv'
<1>1. pc' \in {"over", "execute", "script", "prompt"} /\ verdict' = "none" /\ k' = 0
      BY DEF Take, Terminate, GoTo, Done
<1>2. before' = mem' BY DEF Take
<1> QED BY <1>1, <1>2 DEF WaitInv, InvKept, InvFresh, InvPoll, InvObserved, InvOver, InvSaid,
                          Said

\* The start of the program and its loops.
LEMMA RunWaitInv == IInv /\ WaitInv /\ Run => WaitInv'
<1> SUFFICES ASSUME IInv, WaitInv, Run PROVE WaitInv'
    OBVIOUS
<1> USE DEF GoTo, Unwind, command, counters
<1>0. InvOver /\ from \in {"script", "prompt"} BY DEF WaitInv, IInv, InvTypes
<1>1. CASE Start
      <2>1. pc = "start" /\ UNCHANGED <<verdict, interrupts>> BY <1>1 DEF Start
      <2>2. pc' = "dealloc" BY <1>1 DEF Start, Resize
      <2>3. verdict \notin Said BY <1>0, <2>1 DEF InvOver
      <2> QED BY <2>1, <2>2, <2>3, WaitElsewhere
<1>2. CASE Begin
      <2>1. pc = "begin" /\ UNCHANGED <<verdict, interrupts>> BY <1>2 DEF Begin
      <2>2. pc' \in {"script", "prompt"} BY <1>0, <1>2 DEF Begin, Done
      <2>3. verdict \notin Said BY <1>0, <2>1 DEF InvOver
      <2> QED BY <2>1, <2>2, <2>3, WaitElsewhere
<1>3. CASE ReadScript
      <2>1. Take(Head(script)) /\ UNCHANGED <<mem, interrupts>> BY <1>3 DEF ReadScript, heap
      <2> QED BY <1>0, <2>1, TakeWaitInv
<1>4. CASE EndScript
      <2>1. /\ pc = "script" /\ pc' = "prompt"
            /\ UNCHANGED <<cmd, k, verdict, size, interrupts, before, touched>>
            BY <1>4 DEF EndScript, heap, history
      <2> QED BY <2>1 DEF WaitInv, InvKept, InvFresh, InvPoll, InvObserved, InvOver, InvSaid,
                          There, Waited, Timeout
<1>5. CASE Prompt
      <2>1. PICK line \in Lines : Take(line) BY <1>5 DEF Prompt
      <2>2. UNCHANGED <<mem, interrupts>> BY <1>5 DEF Prompt, heap
      <2> QED BY <1>0, <2>1, <2>2, TakeWaitInv
<1>6. CASE Leave
      <2>1. UNCHANGED interrupts BY <1>6 DEF Leave
      <2>2. pc' = "dealloc" /\ context' = "unwind" BY <1>6 DEF Leave
      <2> QED BY <2>1, <2>2, WaitAtTheEnd
<1> QED BY <1>1, <1>2, <1>3, <1>4, <1>5, <1>6 DEF Run

\* The directives but .wait.
LEMMA DirectiveWaitInv ==
    IInv /\ WaitInv /\ (Message \/ exit \/ go_ \/ reset \/ sr_r \/ sr_s \/ sr \/ mem_ \/ resize)
        => WaitInv'
<1> SUFFICES ASSUME IInv, WaitInv,
                    Message \/ exit \/ go_ \/ reset \/ sr_r \/ sr_s \/ sr \/ mem_ \/ resize
             PROVE  WaitInv'
    OBVIOUS
<1> USE DEF GoTo, Goes, Is, command, counters
<1>0. from \in {"script", "prompt"} BY DEF IInv, InvTypes
<1>1. pc = "execute" /\ UNCHANGED <<verdict, interrupts>>
      <2>1. CASE Message \/ exit \/ reset \/ sr_r
            BY <2>1 DEF Message, exit, reset, sr_r
      <2>2. CASE sr_s \/ sr \/ mem_ \/ resize
            BY <2>2 DEF sr_s, sr, mem_, resize
      <2>3. CASE go_ BY <2>3 DEF go_, OnlyAfu
      <2> QED BY <2>1, <2>2, <2>3
<1>2. pc' \notin {"execute", "poll", "verdict"}
      <2>1. CASE Message \/ exit \/ reset \/ sr_r
            BY <1>0, <2>1 DEF Message, exit, reset, sr_r, AfterReset, Done
      <2>2. CASE sr_s \/ sr \/ mem_ \/ resize
            BY <1>0, <2>2 DEF sr_s, sr, mem_, resize, Resize, Done
      <2>3. CASE go_ BY <1>0, <2>3 DEF go_, Write, Terminate, Unwind
      <2> QED BY <2>1, <2>2, <2>3
<1>3. verdict' \notin Said BY <1>1 DEF WaitInv, InvFresh, Said
<1> QED BY <1>1, <1>2, <1>3, WaitElsewhere

\* The work of the directives but .wait.
LEMMA WorkWaitInv ==
    IInv /\ WaitInv /\ (ResetAfu \/ ResetLength \/ ResetBase \/ Clear \/ restore \/ save \/ Show)
        => WaitInv'
<1> SUFFICES ASSUME IInv, WaitInv,
                    ResetAfu \/ ResetLength \/ ResetBase \/ Clear \/ restore \/ save \/ Show
             PROVE  WaitInv'
    OBVIOUS
<1> USE DEF GoTo, Done, command, counters
<1>0. from \in {"script", "prompt"} /\ InvOver BY DEF IInv, InvTypes, WaitInv
<1>1. CASE ResetAfu \/ ResetLength \/ ResetBase
      <2>1. /\ pc \in {"reset_afu", "reset_length", "reset_base"}
            /\ UNCHANGED <<verdict, interrupts>>
            BY <1>1 DEF ResetAfu, ResetLength, ResetBase, OnlyAfu
      <2>2. pc' \in {"reset_length", "reset_base", "clear", "script", "prompt", "dealloc", "over"}
            BY <1>0, <1>1 DEF ResetAfu, ResetLength, ResetBase, Write, AfterReset, Terminate,
                              Unwind
      <2>3. verdict \notin Said BY <1>0, <2>1 DEF InvOver
      <2> QED BY <2>1, <2>2, <2>3, WaitElsewhere
<1>2. CASE Clear \/ restore \/ save \/ Show
      <2>1. pc \in {"clear", "restore", "save", "show"} /\ UNCHANGED interrupts
            BY <1>2 DEF Clear, restore, save, Show
      <2>2. pc' \in {"clear", "restore", "save", "show", "script", "prompt"}
            BY <1>0, <1>2 DEF Clear, restore, save, Show
      <2>3. verdict' \in {verdict, "done", "refused"}
            BY <1>2 DEF Clear, restore, save, Show
      <2>4. verdict \notin Said BY <1>0, <2>1 DEF InvOver
      <2> QED BY <2>1, <2>2, <2>3, <2>4, WaitElsewhere DEF Said
<1> QED BY <1>1, <1>2

\* The place a .wait looks at is in the memory.
LEMMA WaitedInMemory ==
    ASSUME IInv, pc \in InUse, Number[cmd[2]] \in Int
    PROVE  Waited \in DOMAIN mem
BY DEF IInv, InvMemory, Told, Waited

\* .wait itself: the numbers are read, ...
LEMMA WaitStep == IInv /\ WaitInv /\ wait => WaitInv'
<1> SUFFICES ASSUME IInv, WaitInv, wait PROVE WaitInv'
    OBVIOUS
<1>0. from \in {"script", "prompt"} BY DEF IInv, InvTypes
<1>1. /\ pc = "execute"
      /\ UNCHANGED <<cmd, k, verdict, size, mem, interrupts, before, touched>>
      BY DEF wait, Is, command, heap, counters, history
<1>2. k = 0 /\ verdict = "none" /\ interrupts \in Nat BY <1>1 DEF WaitInv, InvFresh
<1>3. CASE pc' = from
      BY <1>0, <1>1, <1>2, <1>3, WaitElsewhere DEF Said
<1>4. CASE pc' # from
      <2>1. /\ Len(cmd) >= 3 /\ \A i \in 2 .. Len(cmd) : i <= 4 => IsNumber(i)
            /\ mode' = "MACHINE" /\ pc' = "poll"
            BY <1>4 DEF wait, Done, GoTo
      <2>2. Number[cmd[2]] \in Int
            BY <2>1, LoaderAssumption DEF IsNumber
      <2>3. Timeout \in Nat
            BY <2>1, LoaderAssumption DEF Timeout, IsNumber
      <2>4. InvPoll' BY <1>1, <1>2, <2>1, <2>2, <2>3 DEF InvPoll, Timeout
      <2>5. InvKept' BY <1>1 DEF WaitInv, InvKept
      <2> QED BY <1>1, <1>2, <2>1, <2>4, <2>5
              DEF WaitInv, InvFresh, InvObserved, InvOver, InvSaid, Said
<1> QED BY <1>3, <1>4

\* ... the memory is looked at, each time it is not the value is counted, ...
LEMMA PollStep == IInv /\ WaitInv /\ Poll => WaitInv'
<1> SUFFICES ASSUME IInv, WaitInv, Poll PROVE WaitInv'
    OBVIOUS
<1>1. /\ pc = "poll" /\ pc' \in {"poll", "verdict"}
      /\ UNCHANGED <<mode, cmd, verdict, size, mem, interrupts, before, touched>>
      BY DEF Poll, GoTo, shell, heap, counters, history
<1>2. InvKept /\ InvPoll /\ interrupts \in Nat /\ verdict \notin Said
      BY <1>1 DEF WaitInv, InvOver
<1>3. UNCHANGED <<Timeout, Waited, There>> BY <1>1 DEF Timeout, Waited, There
<1>4. Waited \in DOMAIN mem BY <1>1, <1>2, WaitedInMemory DEF InvPoll, InUse
<1>5. Waited \in touched \/ (There <=> Awaited)
      BY <1>1, <1>2, <1>4 DEF InvKept, There, Awaited, Waited
<1>6. CASE Waiting /\ ~Awaited
      <2>1. pc' = "poll" /\ k' = Counted BY <1>6 DEF Poll, GoTo
      <2>2. k' \in 0 .. Timeout' BY <1>1, <1>2, <1>3, <1>6, <2>1 DEF InvPoll, Waiting, Counted
      <2>3. ~(There /\ Waited \notin touched) BY <1>5, <1>6
      <2>4. InvPoll' BY <1>1, <1>2, <1>3, <2>2, <2>3 DEF InvPoll
      <2> QED BY <1>1, <1>2, <2>1, <2>4
              DEF WaitInv, InvKept, InvFresh, InvObserved, InvOver, InvSaid
<1>7. CASE ~(Waiting /\ ~Awaited)
      <2>1. pc' = "verdict" /\ k' = k BY <1>7 DEF Poll, GoTo
      <2>2. InvPoll' BY <1>1, <1>2, <1>3, <2>1 DEF InvPoll
      <2>3. ASSUME mode = "MACHINE", ~(k = Timeout /\ Timeout # 0)
            PROVE  There \/ Waited \in touched
            <3>1. Waiting BY <1>1, <1>2, <2>3 DEF InvPoll, Waiting
            <3> QED BY <1>5, <1>7, <3>1
      <2>4. InvObserved' BY <1>1, <1>3, <2>1, <2>3 DEF InvObserved
      <2> QED BY <1>1, <1>2, <2>1, <2>2, <2>4
              DEF WaitInv, InvKept, InvFresh, InvOver, InvSaid
<1> QED BY <1>6, <1>7

\* ... and it is said what has come of it.
LEMMA VerdictStep == IInv /\ WaitInv /\ Verdict => WaitInv'
<1> SUFFICES ASSUME IInv, WaitInv, Verdict PROVE WaitInv'
    OBVIOUS
<1>0. from \in {"script", "prompt"} BY DEF IInv, InvTypes
<1>1. /\ pc = "verdict" /\ pc' \in {"script", "prompt"}
      /\ UNCHANGED <<cmd, k, size, interrupts, before, touched>>
      BY <1>0 DEF Verdict, Done, GoTo, heap, counters, history
<1>2. InvPoll /\ InvObserved /\ interrupts \in Nat BY DEF WaitInv
<1>3. UNCHANGED <<Timeout, Waited, There>> BY <1>1 DEF Timeout, Waited, There
<1>4. verdict' = IF k = Timeout /\ Timeout # 0 THEN "timed out"
                 ELSE IF mode # "MACHINE" THEN "aborted" ELSE "observed"
      BY DEF Verdict
<1>5. InvSaid' BY <1>1, <1>2, <1>3, <1>4 DEF InvSaid, InvPoll, InvObserved
<1> QED BY <1>1, <1>2, <1>5
        DEF WaitInv, InvKept, InvFresh, InvPoll, InvObserved, InvOver

\* The AFU writes where it has touched then, and a ^C is counted.
LEMMA OutsideWaitInv == IInv /\ WaitInv /\ (AfuWrite \/ break_machine \/ UNCHANGED vars) => WaitInv'
<1> SUFFICES ASSUME IInv, WaitInv, AfuWrite \/ break_machine \/ UNCHANGED vars
             PROVE  WaitInv'
    OBVIOUS
<1>1. UNCHANGED <<pc, context, cmd, k, verdict, size, before>>
      BY DEF AfuWrite, break_machine, vars, command, heap, history
<1>2. UNCHANGED <<Timeout, Waited, There>> BY <1>1 DEF Timeout, Waited, There
<1>3. /\ interrupts' \in Nat
      /\ interrupts' >= interrupts
      /\ mode' = mode \/ interrupts' > 0
      /\ mode' = mode \/ mode' # "MACHINE"
      BY DEF AfuWrite, break_machine, vars, WaitInv, shell, counters
<1>4. touched \subseteq touched'
      BY DEF AfuWrite, break_machine, vars, history
<1>5. /\ DOMAIN mem' = DOMAIN mem
      /\ \A i \in DOMAIN mem \ touched' : mem'[i] = mem[i]
      BY DEF AfuWrite, break_machine, vars, heap
<1>6. interrupts \in Nat BY DEF WaitInv
<1>7. InvKept' /\ InvFresh' BY <1>1, <1>4, <1>5 DEF WaitInv, InvKept, InvFresh
<1>8. InvPoll' BY <1>1, <1>2, <1>3, <1>4, <1>6 DEF WaitInv, InvPoll
<1>9. InvObserved' BY <1>1, <1>2, <1>3, <1>4 DEF WaitInv, InvObserved
<1>10. InvOver' BY <1>1 DEF WaitInv, InvOver
<1>11. InvSaid'
       <2> SUFFICES ASSUME pc \in {"script", "prompt"} PROVE InvSaid'
           BY <1>1 DEF InvSaid
       <2>1. verdict = "observed" => There \/ Waited \in touched'
             BY <1>4 DEF WaitInv, InvSaid
       <2>2. verdict = "timed out" => Timeout # 0 /\ ~(There /\ Waited \notin touched')
             BY <1>4 DEF WaitInv, InvSaid
       <2>3. verdict = "aborted" => interrupts' > 0
             BY <1>3, <1>6 DEF WaitInv, InvSaid
       <2> QED BY <1>1, <1>2, <2>1, <2>2, <2>3 DEF InvSaid
<1> QED BY <1>3, <1>7, <1>8, <1>9, <1>10, <1>11 DEF WaitInv

\* Every step keeps it.
LEMMA NextWaitInv == IInv /\ WaitInv /\ [Next]_vars => WaitInv'
BY HeapWaitInv, RunWaitInv, DirectiveWaitInv, WorkWaitInv, WaitStep, PollStep, VerdictStep,
   OutsideWaitInv
   DEF Next, LoaderStep, execute_runtime_directive, Work

\* What .wait says is true, whatever the AFU writes and whenever the user breaks
\* in: a value it observed was there or written by the AFU, one it timed out on
\* was not there all the time, and nobody else than the user aborts it.
THEOREM WaitVerdictAlways == Spec => []WaitVerdict
<1>1. WaitInv => WaitVerdict
      BY DEF WaitInv, InvSaid, There, Waited, WaitVerdict, Did, AtRest
<1> QED BY <1>1, InitIInv, NextIInv, InitWaitInv, NextWaitInv, PTL DEF Spec

-----------------------------------------------------------------------------
(* Induction, by way of the least counterexample, and recursion.           *)

\* A set of numbers has a least element.
LEMMA Least ==
  ASSUME NEW T \in SUBSET Nat, T # {}
  PROVE  \E n \in T : \A m \in T : n =< m
<1> DEFINE R == {ss \in Nat \X Nat : ss[1] < ss[2]}
<1>0. IsWellFoundedOn(R, Nat)
      BY NatLessThanWellFounded DEF OpToRel
<1>1. PICK n \in T : \A m \in T : <<m, n>> \notin R
      <2> HIDE DEF R
      <2> QED BY <1>0, WFMin
<1>2. ASSUME NEW m \in T PROVE n =< m
      <2>1. <<m, n>> \notin R /\ m \in Nat /\ n \in Nat BY <1>1
      <2> QED BY <2>1
<1> QED BY <1>2

\* So a set with 0 and with the successor of each of its numbers has them all.
LEMMA Induct ==
  ASSUME NEW S, 0 \in S, \A n \in Nat : n \in S => n + 1 \in S
  PROVE  Nat \subseteq S
<1> SUFFICES ASSUME Nat \ S # {} PROVE FALSE
    OBVIOUS
<1>1. PICK n \in Nat \ S : \A m \in Nat \ S : n =< m
      BY Least
<1>2. n - 1 \in Nat /\ n - 1 \notin Nat \ S /\ (n - 1) + 1 = n
      BY <1>1
<1> QED BY <1>2

\* g is the iteration of step from b on.
Iterates(g, V, b, step, n) ==
    /\ g \in [0 .. n -> V]
    /\ g[0] = b
    /\ \A i \in 1 .. n : g[i] = step[i][g[i - 1]]

\* There is such an iteration: one step more at a time.
LEMMA Recursion ==
  ASSUME NEW V, NEW b \in V, NEW step \in [Nat -> [V -> V]], NEW n \in Nat
  PROVE  \E g : Iterates(g, V, b, step, n)
<1> DEFINE Has(m) == \E g \in [0 .. m -> V] :
                        g[0] = b /\ \A i \in 1 .. m : g[i] = step[i][g[i - 1]]
           S == {m \in Nat : Has(m)}
<1>1. 0 \in S
      <2> DEFINE h == [i \in 0 .. 0 |-> b]
      <2>1. h \in [0 .. 0 -> V] /\ h[0] = b /\ \A i \in 1 .. 0 : h[i] = step[i][h[i - 1]]
            OBVIOUS
      <2> QED BY <2>1
<1>2. ASSUME NEW m \in Nat, m \in S PROVE m + 1 \in S
      <2>1. PICK g \in [0 .. m -> V] : g[0] = b /\ \A i \in 1 .. m : g[i] = step[i][g[i - 1]]
            BY <1>2
      <2> DEFINE h == [i \in 0 .. m + 1 |-> IF i =< m THEN g[i] ELSE step[m + 1][g[m]]]
      <2>2. h \in [0 .. m + 1 -> V] BY <2>1
      <2>3. h[0] = b BY <2>1
      <2>4. \A i \in 1 .. m + 1 : h[i] = step[i][h[i - 1]] BY <2>1
      <2>5. Has(m + 1) BY <2>2, <2>3, <2>4
      <2> QED BY <2>5
<1>3. Nat \subseteq S
      <2> HIDE DEF S
      <2> QED BY <1>1, <1>2, Induct
<1> QED BY <1>3 DEF Iterates

-----------------------------------------------------------------------------
(* What the directives leave in the memory and in the files.               *)
(*                                                                         *)
(* Each loop has the invariant that the bytes it has come to are right.    *)
(* What the AFU touches is left out, and what it does not touch changes by *)
(* the loop alone.                                                         *)

Resets == {"reset_afu", "reset_length", "reset_base"}
Resizes == {"dealloc", "free", "alloc", "write_base", "write_size", "set_size"}
\* Between two directives.
Between == {"script", "prompt"}

InvBytes == /\ \A i \in DOMAIN mem : mem[i] \in Byte
            /\ \A f \in DOMAIN files : files[f] \in Seq(Byte)

\* Nothing is said before the directive is at its end.
InvBusy == verdict = "none" \/ pc \in Between \cup {"over"} \/ context = "unwind"

\* Whose step it is.
InvCommand == /\ context \in {"initial", "resize", "recovery", "unwind"}
              /\ pc \in Resets => cmd[1] = ".rst" /\ k = 0
              /\ pc \in Resizes => context \in {"initial", "unwind"} \/ cmd[1] = ".resize"
              /\ pc = "clear" => cmd[1] \in {".rst", ".resize"}
              /\ pc = "restore" => cmd[1] = ".sr" /\ cmd[2] = "-r"
              /\ pc = "save" => cmd[1] = ".sr" /\ cmd[2] = "-s"
              /\ pc = "show" => cmd[1] = ".mem"

InvClear == pc = "clear" =>
                k \in Nat /\ \A j \in DOMAIN mem \ touched : j < k => mem[j] = 0

\* A byte after n bytes are restored.
Image == Append(files[cmd[3]], 0)
Restored(j, n) == LET stored == {i \in 1 .. n : Where(i - 1) = j}
                  IN  IF stored = {} THEN before[j] ELSE Image[Max(stored)]
InvRestore == pc = "restore" =>
                  /\ cmd[3] \in DOMAIN files /\ Number[cmd[At]] \in Int
                  /\ k \in 0 .. Len(files[cmd[3]])
                  /\ \A j \in DOMAIN mem \ touched : mem[j] = Restored(j, k)

\* The file after the bytes from the begin to the k-th.
Distance == Number[cmd[At + 1]] - Number[cmd[At]]
Saved == LET file == files[cmd[3]]
         IN  /\ Len(file) = Min({k, MaxFile})
             /\ \A i \in 1 .. Len(file) : \/ Where(i - 1) \in touched
                                         \/ file[i] = before[Where(i - 1)]
InvSave == pc = "save" =>
               /\ cmd[3] \in DOMAIN files
               /\ Number[cmd[At]] \in Int /\ Number[cmd[At + 1]] \in Int
               /\ k \in Nat
               /\ \A j \in DOMAIN mem \ touched : mem[j] = before[j]
               /\ Distance >= 0 => k <= Distance /\ Saved

InvLoops == InvClear /\ InvRestore /\ InvSave

\* What the loops have done where the next line is read.  It is more than is
\* promised: a zero is behind a file that was restored, and no byte is turned round.
RestoredAll == Did(".sr") /\ verdict = "done" /\ cmd[2] = "-r" =>
                   /\ cmd[3] \in DOMAIN files
                   /\ \A j \in DOMAIN mem \ touched : mem[j] = Restored(j, Len(Image))
SavedAll ==
    Did(".sr") /\ verdict = "done" /\ cmd[2] = "-s" =>
        LET file == files[cmd[3]]
        IN  /\ Len(file) = Min({Distance, MaxFile})
            /\ \A i \in 1 .. Len(file) : \/ Where(i - 1) \in touched
                                        \/ file[i] = before[Where(i - 1)]
            /\ \A j \in DOMAIN mem \ touched : mem[j] = before[j]
Exact == RestoredAll /\ SavedAll /\ Cleared

ExactInv == InvBytes /\ InvBusy /\ InvCommand /\ InvLoops /\ Exact

\* Nothing is promised of what has not been done.
LEMMA NotDone == pc' \notin Between \/ verdict' # "done" => Exact'
BY DEF Exact, RestoredAll, SavedAll, Cleared, Did, AtRest, Between

\* Outside of the loops.
LEMMA NoLoop == pc' \notin {"clear", "restore", "save"} => InvLoops'
BY DEF InvLoops, InvClear, InvRestore, InvSave

\* A step to nowhere that a directive works at.
LEMMA ExactElsewhere ==
    ASSUME InvBytes', InvBusy', context' \in {"initial", "resize", "recovery", "unwind"},
           pc' \notin Between \/ verdict' # "done",
           \/ pc' \in Between \cup {"start", "begin", "execute", "poll", "verdict", "over"}
           \/ pc' \in Resizes /\ (context' \in {"initial", "unwind"} \/ cmd'[1] = ".resize")
    PROVE  ExactInv'
<1>1. pc' \notin {"clear", "restore", "save"} BY DEF Between, Resizes
<1>2. InvCommand' BY DEF InvCommand, Between, Resets, Resizes
<1> QED BY <1>1, <1>2, NotDone, NoLoop DEF ExactInv

\* The same for a step to where no memory is moved.
LEMMA ExactAtRest ==
    ASSUME InvBytes', InvBusy', context' \in {"initial", "resize", "recovery", "unwind"},
           verdict' # "done",
           pc' \in {"script", "prompt", "begin", "execute", "poll", "verdict", "over"}
    PROVE  ExactInv'
<1>1. pc' \notin {"clear", "restore", "save"} OBVIOUS
<1>2. InvCommand' BY DEF InvCommand, Resets, Resizes
<1> QED BY <1>1, <1>2, NotDone, NoLoop DEF ExactInv

\* The least of two numbers, and the greatest of some that are bounded.
LEMMA MinOfTwo == ASSUME NEW a \in Int, NEW b \in Int
                  PROVE  Min({a, b}) = IF a <= b THEN a ELSE b
BY DEF Min

LEMMA MaxIsBound == ASSUME NEW n \in Int, NEW S \in SUBSET Int, n \in S, \A i \in S : i <= n
                    PROVE  Max(S) = n
<1>1. \E m \in S : \A i \in S : i <= m OBVIOUS
<1> DEFINE m == Max(S)
<1>2. m \in S /\ \A i \in S : i <= m BY <1>1 DEF Max
<1>3. m \in Int /\ m <= n /\ n <= m BY <1>2
<1> HIDE DEF m
<1> QED
    <2>1. m = n BY <1>3
    <2> QED BY <2>1 DEF m

\* The greatest of some numbers up to n is one of them.
LEMMA GreatestIsIn ==
    ASSUME NEW n \in Nat, NEW S \in SUBSET (1 .. n), S # {}
    PROVE  Max(S) \in S
<1>1. \E m \in S : \A i \in S : i <= m
    <2> DEFINE T == {n - i : i \in S}
    <2>0. \A i \in S : i \in Int /\ n - i \in Nat
        <3> SUFFICES ASSUME NEW i \in S PROVE i \in Int /\ n - i \in Nat
            OBVIOUS
        <3>1. i \in 1 .. n OBVIOUS
        <3> QED BY <3>1
    <2>1. PICK t \in T : \A u \in T : t <= u
        <3>1. T \in SUBSET Nat /\ T # {} BY <2>0
        <3> HIDE DEF T
        <3> QED BY <3>1, Least
    <2>2. PICK m \in S : t = n - m OBVIOUS
    <2>3. \A i \in S : n - m <= n - i BY <2>1, <2>2
    <2> QED BY <2>0, <2>3
<1> QED BY <1>1 DEF Max

\* The program starts with files of bytes, and has done nothing.
LEMMA InitExactInv == Init => ExactInv
<1> SUFFICES ASSUME Init PROVE ExactInv
    OBVIOUS
<1>1. pc = "start" /\ context = "initial" /\ verdict = "none" /\ mem = <<>> /\ files = InitialFiles
      BY DEF Init
<1>2. InvBytes BY <1>1, LoaderAssumption DEF InvBytes
<1>3. InvBusy /\ InvCommand /\ InvLoops
      BY <1>1 DEF InvBusy, InvCommand, InvLoops, InvClear, InvRestore, InvSave, Resets, Resizes
<1>4. Exact BY <1>1 DEF Exact, RestoredAll, SavedAll, Cleared, Did, AtRest
<1> QED BY <1>2, <1>3, <1>4 DEF ExactInv

\* mmem::resize and ~mmem.
LEMMA HeapExactInv == IInv /\ ExactInv /\ Heap => ExactInv'
<1> SUFFICES ASSUME IInv, ExactInv, Heap PROVE ExactInv'
    OBVIOUS
<1> USE DEF GoTo, Terminate, Unwind, OnlyAfu, Write, heap, command, Between, Resizes
<1>0. InvBytes /\ InvBusy /\ InvCommand BY DEF ExactInv
<1>1. /\ UNCHANGED <<cmd, verdict, files>>
      /\ pc \in Resizes
      BY DEF Heap, Dealloc, Free, Alloc, WriteBase, WriteSize, SetSize
<1>2. InvBytes'
      <2>1. CASE UNCHANGED mem BY <1>0, <1>1, <2>1 DEF InvBytes
      <2>2. CASE \E byte \in Byte : mem' = [i \in 0 .. newsize - 1 |-> byte]
            BY <1>0, <1>1, <2>2 DEF InvBytes
      <2> QED BY <2>1, <2>2 DEF Heap, Dealloc, Free, Alloc, WriteBase, WriteSize, SetSize
<1>3. CASE SetSize
      <2>1. pc = "set_size" /\ context # "unwind" BY <1>3 DEF SetSize, IInv, InvSize
      <2>2. /\ UNCHANGED <<mem, context, touched>> /\ k' = 0
            /\ pc' = IF context = "initial" THEN "begin" ELSE "clear"
            BY <1>3 DEF SetSize, history
      <2>3. verdict = "none" BY <1>0, <2>1 DEF InvBusy
      <2>4. CASE context = "initial"
            BY <1>0, <1>1, <1>2, <2>2, <2>3, <2>4, ExactElsewhere DEF InvBusy, InvCommand
      <2>5. CASE context # "initial"
            <3>1. pc' = "clear" /\ cmd[1] = ".resize" /\ DOMAIN mem = 0 .. newsize - 1
                  /\ newsize \in Nat
                  BY <1>0, <2>1, <2>2, <2>5 DEF InvCommand, IInv, InvNew, InvSize
            <3>2. InvLoops' BY <2>2, <3>1 DEF InvLoops, InvClear, InvRestore, InvSave
            <3>3. InvCommand' BY <1>0, <1>1, <2>2, <3>1 DEF InvCommand, Resets
            <3> QED BY <1>1, <1>2, <2>3, <3>1, <3>2, <3>3, NotDone DEF ExactInv, InvBusy
      <2> QED BY <2>4, <2>5
<1>4. CASE ~SetSize
      <2>1. Dealloc \/ Free \/ Alloc \/ WriteBase \/ WriteSize BY <1>4 DEF Heap
      <2>2. pc' \in Resizes \cup {"over"}
            BY <2>1 DEF Dealloc, Free, Alloc, BadAlloc, WriteBase, WriteSize
      <2>3. context' \in {context, "unwind"} \/ (context = "resize" /\ context' = "recovery")
            BY <2>1 DEF Dealloc, Free, Alloc, BadAlloc, WriteBase, WriteSize
      <2>4. context = "unwind" => context' = "unwind"
            BY <2>1, <2>3
      <2>5. context' \in {"initial", "resize", "recovery", "unwind"} BY <1>0, <2>3 DEF InvCommand
      <2>6. context' \in {"initial", "unwind"} \/ cmd'[1] = ".resize"
            BY <1>0, <1>1, <2>3, <2>4 DEF InvCommand
      <2>7. InvBusy' BY <1>0, <1>1, <2>2, <2>4 DEF InvBusy
      <2> QED BY <1>2, <2>2, <2>5, <2>6, <2>7, ExactElsewhere
<1> QED BY <1>3, <1>4

\* A line is taken: nothing is done yet.
LEMMA TakeExactInv ==
    ASSUME IInv, ExactInv, pc \in Between, UNCHANGED <<mem, files>>, NEW line, Take(line)
    PROVE  ExactInv'
<1>1. pc' \in Between \cup {"over", "execute"} /\ verdict' = "none" /\ context' = context
      BY DEF Take, Terminate, GoTo, Done, Between, IInv, InvTypes
<1>2. InvBytes' /\ InvBusy' /\ context' \in {"initial", "resize", "recovery", "unwind"}
      BY <1>1 DEF ExactInv, InvBytes, InvBusy, InvCommand
<1> QED BY <1>1, <1>2, ExactAtRest DEF Between

\* The start of the program and its loops.
LEMMA RunExactInv == IInv /\ ExactInv /\ Run => ExactInv'
<1> SUFFICES ASSUME IInv, ExactInv, Run PROVE ExactInv'
    OBVIOUS
<1> USE DEF GoTo, Unwind, command, heap
<1>0. InvBytes /\ InvBusy /\ InvCommand /\ from \in Between
      BY DEF ExactInv, IInv, InvTypes, Between
<1>1. CASE Start
      <2>1. pc = "start" /\ UNCHANGED <<verdict, mem, files>> BY <1>1 DEF Start
      <2>2. pc' = "dealloc" /\ context' \in {"initial", "unwind"} BY <1>1 DEF Start, Resize
      <2>3. context # "unwind" BY <2>1 DEF IInv, InvSize
      <2>4. InvBytes' /\ InvBusy' BY <1>0, <2>1, <2>3 DEF InvBytes, InvBusy, Between
      <2> QED BY <2>2, <2>4, ExactElsewhere DEF Resizes, Between
<1>2. CASE Begin
      <2>1. pc = "begin" /\ UNCHANGED <<verdict, mem, files, context>> /\ pc' \in Between
            BY <1>0, <1>2 DEF Begin, Done
      <2>2. verdict = "none" BY <1>0, <2>1 DEF InvBusy, IInv, InvSize, Between
      <2>3. InvBytes' /\ InvBusy' /\ context' \in {"initial", "resize", "recovery", "unwind"}
            BY <1>0, <2>1, <2>2 DEF InvBytes, InvBusy, InvCommand
      <2>4. verdict' # "done" BY <2>1, <2>2
      <2> QED BY <2>1, <2>3, <2>4, ExactAtRest DEF Between
<1>3. CASE ReadScript
      <2>1. Take(Head(script)) /\ pc \in Between /\ UNCHANGED <<mem, files>>
            BY <1>3 DEF ReadScript, Between
      <2> QED BY <2>1, TakeExactInv
<1>4. CASE EndScript
      <2>1. /\ pc = "script" /\ pc' = "prompt"
            /\ UNCHANGED <<context, cmd, verdict, files, size, mem, before, touched>>
            BY <1>4 DEF EndScript, history
      <2>2. InvBytes' /\ InvBusy' /\ InvCommand' /\ InvLoops'
            BY <1>0, <2>1, NoLoop DEF InvBytes, InvBusy, InvCommand, Resets, Resizes, Between
      <2>3. Did(".sr")' = Did(".sr") /\ Did(".rst")' = Did(".rst")
            /\ Did(".resize")' = Did(".resize")
            BY <2>1 DEF Did, AtRest
      <2>4. At' = At /\ \A i : Where(i)' = Where(i) BY <2>1 DEF At, Where
      <2>5. RestoredAll'
            <3>1. Image' = Image BY <2>1 DEF Image
            <3>2. \A j, n : Restored(j, n)' = Restored(j, n) BY <2>1, <2>4, <3>1 DEF Restored
            <3>3. Len(Image)' = Len(Image) BY <3>1
            <3> QED BY <2>1, <2>3, <3>2, <3>3 DEF ExactInv, Exact, RestoredAll
      <2>6. SavedAll' BY <2>1, <2>3, <2>4 DEF ExactInv, Exact, SavedAll, Distance
      <2>7. Cleared' BY <2>1, <2>3 DEF ExactInv, Exact, Cleared
      <2> QED BY <2>2, <2>5, <2>6, <2>7 DEF ExactInv, Exact
<1>5. CASE Prompt
      <2>1. PICK line \in Lines : Take(line) BY <1>5 DEF Prompt
      <2>2. pc \in Between /\ UNCHANGED <<mem, files>> BY <1>5 DEF Prompt, Between
      <2> QED BY <2>1, <2>2, TakeExactInv
<1>6. CASE Leave
      <2>1. pc' = "dealloc" /\ context' = "unwind" /\ UNCHANGED <<mem, files>> BY <1>6 DEF Leave
      <2>2. InvBytes' /\ InvBusy' BY <1>0, <2>1 DEF InvBytes, InvBusy
      <2> QED BY <2>1, <2>2, ExactElsewhere DEF Resizes, Between
<1> QED BY <1>1, <1>2, <1>3, <1>4, <1>5, <1>6 DEF Run

\* The directives: what each goes to work at.
LEMMA DirectiveExactInv ==
    IInv /\ WaitInv /\ ExactInv /\ execute_runtime_directive => ExactInv'
<1> SUFFICES ASSUME IInv, WaitInv, ExactInv, execute_runtime_directive PROVE ExactInv'
    OBVIOUS
<1> USE DEF GoTo, Goes, Is, command, heap, history, Between, Resizes, Resets
<1>0. InvBytes /\ InvBusy /\ InvCommand /\ from \in Between
      BY DEF ExactInv, IInv, InvTypes
<1>1. pc = "execute" /\ UNCHANGED <<cmd, k, verdict, size, mem, before, touched>>
      <2>1. CASE Message \/ exit \/ reset \/ sr_r \/ sr_s
            BY <2>1 DEF Message, exit, reset, sr_r, sr_s
      <2>2. CASE sr \/ mem_ \/ wait \/ resize
            BY <2>2 DEF sr, mem_, wait, resize
      <2>3. CASE go_ BY <2>3 DEF go_, OnlyAfu
      <2> QED BY <2>1, <2>2, <2>3 DEF execute_runtime_directive
<1>2. /\ k = 0 /\ verdict = "none" /\ context # "unwind"
      /\ \A j \in DOMAIN mem \ touched : mem[j] = before[j]
      BY <1>1 DEF WaitInv, InvFresh, InvKept, IInv, InvSize
<1>3. InvBusy' /\ verdict' # "done" BY <1>1, <1>2 DEF InvBusy
<1>4. Exact' BY <1>3, NotDone
<1>5. CASE Message \/ exit \/ sr \/ wait
      <2>1. pc' \in {"script", "prompt", "poll"} /\ UNCHANGED <<context, files>>
            BY <1>0, <1>5 DEF Message, exit, sr, wait, Done
      <2>2. InvBytes' /\ context' \in {"initial", "resize", "recovery", "unwind"}
            BY <1>0, <1>1, <2>1 DEF InvBytes, InvCommand
      <2> QED BY <1>3, <2>1, <2>2, ExactAtRest
<1>6. CASE go_
      <2>1. /\ pc' \in {"script", "prompt", "dealloc", "over"}
            /\ context' \in {context, "unwind"} /\ UNCHANGED files
            /\ pc' = "dealloc" => context' = "unwind"
            BY <1>0, <1>6 DEF go_, Write, Unwind, Terminate, OnlyAfu
      <2>2. InvBytes' BY <1>0, <1>1, <2>1 DEF InvBytes
      <2>3. InvCommand' BY <1>0, <1>1, <2>1 DEF InvCommand
      <2> QED BY <1>3, <1>4, <2>1, <2>2, <2>3, NoLoop DEF ExactInv
<1>7. CASE reset
      <2>1. /\ cmd[1] = ".rst" /\ pc' \in {"reset_afu", "clear", "script", "prompt"}
            /\ UNCHANGED <<context, files>>
            BY <1>0, <1>7 DEF reset, AfterReset
      <2>2. InvBytes' BY <1>0, <1>1, <2>1 DEF InvBytes
      <2>3. InvCommand' BY <1>0, <1>1, <1>2, <2>1 DEF InvCommand
      <2>4. DOMAIN mem = 0 .. size - 1 /\ size \in Nat
            BY <1>1 DEF IInv, InvMemory, Told, InUse
      <2>5. InvLoops' BY <1>1, <1>2, <2>1, <2>4 DEF InvLoops, InvClear, InvRestore, InvSave
      <2> QED BY <1>3, <1>4, <2>2, <2>3, <2>5 DEF ExactInv
<1>8. CASE sr_r
      <2>1. /\ cmd[1] = ".sr" /\ cmd[2] = "-r" /\ pc' \in {"restore", "script", "prompt"}
            /\ pc' = "restore" => srCanRestore
            /\ UNCHANGED <<context, files>>
            BY <1>0, <1>8 DEF sr_r
      <2>2. InvBytes' BY <1>0, <1>1, <2>1 DEF InvBytes
      <2>3. InvCommand' BY <1>0, <1>1, <2>1 DEF InvCommand
      <2>4. ASSUME pc' = "restore" PROVE InvRestore'
            <3>1. /\ cmd[3] \in DOMAIN files /\ Number[cmd[At]] \in Int
                  BY <2>1, <2>4, LoaderAssumption DEF srCanRestore, IsNumber
            <3>2. Len(files[cmd[3]]) \in Nat BY <1>0, <3>1 DEF InvBytes
            <3>3. At' = At BY <1>1 DEF At
            <3>4. \A j : Restored(j, 0)' = before[j]
                  BY <1>1 DEF Restored
            <3> QED BY <1>1, <1>2, <2>1, <3>1, <3>2, <3>3, <3>4 DEF InvRestore
      <2>5. InvLoops' BY <2>1, <2>4 DEF InvLoops, InvClear, InvRestore, InvSave
      <2> QED BY <1>3, <1>4, <2>2, <2>3, <2>5 DEF ExactInv
<1>9. CASE sr_s
      <2>1. /\ cmd[1] = ".sr" /\ cmd[2] = "-s" /\ pc' \in {"save", "script", "prompt"}
            /\ UNCHANGED context
            BY <1>0, <1>9 DEF sr_s, Done
      <2>2. \/ UNCHANGED files
            \/ files' = [f \in DOMAIN files \cup {cmd[3]} |-> IF f = cmd[3] THEN <<>> ELSE files[f]]
            BY <1>9 DEF sr_s
      <2>3. InvBytes'
            <3>1. <<>> \in Seq(Byte) OBVIOUS
            <3> QED BY <1>0, <1>1, <2>2, <3>1 DEF InvBytes
      <2>4. InvCommand' BY <1>0, <1>1, <2>1 DEF InvCommand
      <2>5. ASSUME pc' = "save" PROVE InvSave'
            <3>1. /\ srCanSave
                  /\ cmd[3] \in DOMAIN files' /\ files'[cmd[3]] = <<>>
                  BY <1>0, <1>9, <2>5 DEF sr_s, Done
            <3>2. Number[cmd[At]] \in Int /\ Number[cmd[At + 1]] \in Int
                  BY <3>1, LoaderAssumption DEF srCanSave, IsNumber
            <3>3. At' = At /\ Distance' = Distance BY <1>1 DEF At, Distance
            <3>4. Min({0, MaxFile}) = 0 BY MinOfTwo, LoaderAssumption
            <3>5. Saved' BY <1>1, <1>2, <3>1, <3>4 DEF Saved
            <3> QED BY <1>1, <1>2, <3>1, <3>2, <3>3, <3>5 DEF InvSave
      <2>6. InvLoops' BY <2>1, <2>5 DEF InvLoops, InvClear, InvRestore, InvSave
      <2> QED BY <1>3, <1>4, <2>3, <2>4, <2>6 DEF ExactInv
<1>10. CASE mem_
      <2>1. cmd[1] = ".mem" /\ pc' = "show" /\ UNCHANGED <<context, files>>
            BY <1>10 DEF mem_
      <2>2. InvBytes' BY <1>0, <1>1, <2>1 DEF InvBytes
      <2>3. InvCommand' BY <1>0, <1>1, <2>1 DEF InvCommand
      <2> QED BY <1>3, <1>4, <2>1, <2>2, <2>3, NoLoop DEF ExactInv
<1>11. CASE resize
      <2>1. /\ cmd[1] = ".resize" /\ pc' \in {"dealloc", "script", "prompt"} /\ UNCHANGED files
            /\ context' \in {context, "resize"}
            BY <1>0, <1>11 DEF resize, Resize, Done
      <2>2. InvBytes' BY <1>0, <1>1, <2>1 DEF InvBytes
      <2>3. InvCommand' BY <1>0, <1>1, <2>1 DEF InvCommand
      <2> QED BY <1>3, <1>4, <2>1, <2>2, <2>3, NoLoop DEF ExactInv
<1> QED BY <1>5, <1>6, <1>7, <1>8, <1>9, <1>10, <1>11 DEF execute_runtime_directive

\* The registers are told again, and then the memory is cleared, or not.
LEMMA ResetExactInv == IInv /\ ExactInv /\ (ResetAfu \/ ResetLength \/ ResetBase) => ExactInv'
<1> SUFFICES ASSUME IInv, ExactInv, ResetAfu \/ ResetLength \/ ResetBase PROVE ExactInv'
    OBVIOUS
<1> USE DEF GoTo, Between, Resets, Resizes
<1>0. InvBytes /\ InvBusy /\ InvCommand /\ from \in Between
      BY DEF ExactInv, IInv, InvTypes
<1>1. pc \in Resets /\ UNCHANGED <<cmd, k, verdict, size, mem, files, touched>>
      BY DEF ResetAfu, ResetLength, ResetBase, OnlyAfu, command, heap, history
<1>2. /\ pc' \in {"reset_length", "reset_base", "clear", "script", "prompt", "dealloc", "over"}
      /\ context' \in {context, "unwind"}
      /\ pc' = "dealloc" => context' = "unwind"
      BY <1>0 DEF ResetAfu, ResetLength, ResetBase, Write, AfterReset, Terminate, Unwind
<1>3. verdict = "none" /\ cmd[1] = ".rst" /\ k = 0
      BY <1>0, <1>1 DEF InvBusy, InvCommand, IInv, InvSize
<1>4. InvBytes' BY <1>0, <1>1 DEF InvBytes
<1>5. InvBusy' BY <1>1, <1>3 DEF InvBusy
<1>6. InvCommand' BY <1>0, <1>1, <1>2, <1>3 DEF InvCommand
<1>7. size \in Nat /\ DOMAIN mem = 0 .. size - 1
      BY <1>1 DEF IInv, InvMemory, Told
<1>8. InvLoops' BY <1>1, <1>2, <1>3, <1>7 DEF InvLoops, InvClear, InvRestore, InvSave
<1> QED BY <1>1, <1>3, <1>4, <1>5, <1>6, <1>8, NotDone DEF ExactInv

\* mmem::reset: what is behind the counter is zero.
LEMMA ClearStep == IInv /\ ExactInv /\ Clear => ExactInv'
<1> SUFFICES ASSUME IInv, ExactInv, Clear PROVE ExactInv'
    OBVIOUS
<1> USE DEF GoTo, Done, Between, heap, counters, history
<1>0. /\ InvBytes /\ InvBusy /\ InvCommand /\ InvClear /\ from \in Between
      /\ size \in Nat /\ DOMAIN mem = 0 .. size - 1
      BY DEF ExactInv, InvLoops, IInv, InvTypes, InvMemory, Told, InUse, Clear
<1>1. pc = "clear" /\ UNCHANGED <<context, cmd, size, files, touched>> BY DEF Clear
<1>2. verdict = "none" BY <1>0, <1>1 DEF InvBusy, IInv, InvSize
<1>3. k \in Nat BY <1>0, <1>1 DEF InvClear
<1>4. CASE MoreToClear
      <2>1. /\ pc' = "clear" /\ k' = k + 1 /\ UNCHANGED verdict
            /\ mem' = [mem EXCEPT ![k] = 0]
            BY <1>4 DEF Clear
      <2>2. InvBytes' BY <1>0, <1>1, <2>1, LoaderAssumption DEF InvBytes
      <2>3. InvBusy' /\ InvCommand'
            BY <1>0, <1>1, <1>2, <2>1 DEF InvBusy, InvCommand, Resets, Resizes
      <2>4. InvClear' BY <1>0, <1>1, <1>3, <2>1 DEF InvClear
      <2>5. InvLoops' BY <2>1, <2>4 DEF InvLoops, InvRestore, InvSave
      <2> QED BY <2>1, <2>2, <2>3, <2>5, NotDone DEF ExactInv
<1>5. CASE ~MoreToClear
      <2>1. pc' \in Between /\ verdict' = "done" /\ UNCHANGED mem BY <1>0, <1>5 DEF Clear
      <2>2. InvBytes' /\ InvBusy' /\ InvCommand'
            BY <1>0, <1>1, <2>1 DEF InvBytes, InvBusy, InvCommand, Resets, Resizes
      <2>3. InvLoops' BY <2>1, NoLoop
      <2>4. \A j \in DOMAIN mem \ touched : mem[j] = 0
            BY <1>0, <1>1, <1>3, <1>5 DEF InvClear, MoreToClear
      <2>5. cmd[1] \in {".rst", ".resize"} BY <1>0, <1>1 DEF InvCommand
      <2>6. Exact' BY <1>1, <2>1, <2>4, <2>5 DEF Exact, RestoredAll, SavedAll, Cleared, Did
      <2> QED BY <2>2, <2>3, <2>6 DEF ExactInv
<1> QED BY <1>4, <1>5

\* .mem ends with what it has shown, and the others have their own words.
LEMMA ShowExactInv == IInv /\ ExactInv /\ Show => ExactInv'
<1> SUFFICES ASSUME IInv, ExactInv, Show PROVE ExactInv'
    OBVIOUS
<1> USE DEF GoTo, Done, Between, heap
<1>0. InvBytes /\ InvBusy /\ InvCommand /\ from \in Between
      BY DEF ExactInv, IInv, InvTypes
<1>1. /\ pc = "show" /\ pc' \in {"show", "script", "prompt"}
      /\ UNCHANGED <<context, cmd, mem, files>>
      /\ pc' = "show" => UNCHANGED verdict
      BY <1>0 DEF Show
<1>2. cmd[1] = ".mem" BY <1>0, <1>1 DEF InvCommand
<1>3. InvBytes' /\ InvBusy' /\ InvCommand'
      BY <1>0, <1>1 DEF InvBytes, InvBusy, InvCommand, Resets, Resizes, IInv, InvSize
<1>4. Exact' BY <1>1, <1>2 DEF Exact, RestoredAll, SavedAll, Cleared, Did
<1> QED BY <1>1, <1>3, <1>4, NoLoop DEF ExactInv

\* .wait changes no byte.
LEMMA WaitExactInv == IInv /\ ExactInv /\ (Poll \/ Verdict) => ExactInv'
<1> SUFFICES ASSUME IInv, ExactInv, Poll \/ Verdict PROVE ExactInv'
    OBVIOUS
<1> USE DEF GoTo, Done, Between, heap
<1>0. InvBytes /\ InvBusy /\ InvCommand /\ from \in Between
      BY DEF ExactInv, IInv, InvTypes
<1>1. /\ pc \in {"poll", "verdict"} /\ pc' \in {"poll", "verdict", "script", "prompt"}
      /\ UNCHANGED <<context, mem, files>>
      /\ pc' \in {"poll", "verdict"} => UNCHANGED verdict
      /\ verdict' \in {verdict, "timed out", "aborted", "observed"}
      BY <1>0 DEF Poll, Verdict
<1>2. verdict = "none" BY <1>0, <1>1 DEF InvBusy, IInv, InvSize
<1>3. InvBytes' /\ InvBusy' /\ context' \in {"initial", "resize", "recovery", "unwind"}
      BY <1>0, <1>1, <1>2 DEF InvBytes, InvBusy, InvCommand
<1>4. verdict' # "done" BY <1>1, <1>2
<1> QED BY <1>1, <1>3, <1>4, ExactAtRest

\* One more byte is restored: it is the last at its place, the others are as before.
LEMMA OneMoreRestored ==
    ASSUME NEW n \in Nat, NEW j
    PROVE  /\ Where(n) = j => Restored(j, n + 1) = Image[n + 1]
           /\ Where(n) # j => Restored(j, n + 1) = Restored(j, n)
<1> DEFINE S == {i \in 1 .. n : Where(i - 1) = j}
           T == {i \in 1 .. n + 1 : Where(i - 1) = j}
<1>1. (n + 1) - 1 = n OBVIOUS
<1>2. CASE Where(n) = j
      <2>1. n + 1 \in T BY <1>1, <1>2
      <2>2. T \in SUBSET Int /\ \A i \in T : i <= n + 1 OBVIOUS
      <2>3. Max(T) = n + 1 /\ T # {}
            <3> HIDE DEF T
            <3> QED BY <2>1, <2>2, MaxIsBound
      <2>4. Restored(j, n + 1) = IF T = {} THEN before[j] ELSE Image[Max(T)] BY DEF Restored
      <2> QED BY <1>2, <2>3, <2>4
<1>3. CASE Where(n) # j
      <2>1. \A i \in T : i # n + 1 BY <1>1, <1>3
      <2>2. T = S BY <2>1
      <2> QED BY <1>3, <2>2 DEF Restored
<1> QED BY <1>2, <1>3

\* The address of a byte is in the memory.
LEMMA WhereInMemory ==
    ASSUME size \in Nat \ {0}, DOMAIN mem = 0 .. size - 1, Number[cmd[At]] \in Int, NEW n \in Nat
    PROVE  Where(n) \in DOMAIN mem
BY DEF Where

\* mmem::restore.
LEMMA RestoreStep == IInv /\ ExactInv /\ restore => ExactInv'
<1> SUFFICES ASSUME IInv, ExactInv, restore PROVE ExactInv'
    OBVIOUS
<1> USE DEF GoTo, Done, Between, heap, history
<1>0. /\ InvBytes /\ InvBusy /\ InvCommand /\ InvRestore /\ from \in Between
      /\ size \in Nat \ {0} /\ DOMAIN mem = 0 .. size - 1
      BY DEF ExactInv, InvLoops, IInv, InvTypes, InvMemory, Told, InUse, restore
<1>1. pc = "restore" /\ UNCHANGED <<context, cmd, size, files, before, touched>> BY DEF restore
<1>2. verdict = "none" BY <1>0, <1>1 DEF InvBusy, IInv, InvSize
<1>3. /\ cmd[3] \in DOMAIN files /\ Number[cmd[At]] \in Int
      /\ k \in 0 .. Len(files[cmd[3]])
      /\ \A j \in DOMAIN mem \ touched : mem[j] = Restored(j, k)
      BY <1>0, <1>1 DEF InvRestore
<1> DEFINE file == files[cmd[3]]
<1>4. file \in Seq(Byte) BY <1>0, <1>3 DEF InvBytes
<1>5. Where(k) \in DOMAIN mem
      <2>1. k \in Nat BY <1>3, <1>4
      <2> QED BY <1>0, <1>3, <2>1, WhereInMemory
<1>6. /\ Image[Len(file) + 1] = 0 /\ \A i \in 1 .. Len(file) : Image[i] = file[i]
      /\ Len(Image) = Len(file) + 1
      BY <1>4 DEF Image
<1>7. ASSUME mem' = [mem EXCEPT ![Where(k)] = Image[k + 1]]
      PROVE  \A j \in DOMAIN mem' \ touched : mem'[j] = Restored(j, k + 1)
      <2> SUFFICES ASSUME NEW j \in DOMAIN mem \ touched PROVE mem'[j] = Restored(j, k + 1)
          BY <1>7
      <2>1. k \in Nat BY <1>3, <1>4
      <2>2. CASE Where(k) = j BY <1>7, <2>1, <2>2, OneMoreRestored
      <2>3. CASE Where(k) # j
            <3>1. mem'[j] = mem[j] BY <1>7, <2>3
            <3> QED BY <1>3, <2>1, <2>3, <3>1, OneMoreRestored
      <2> QED BY <2>2, <2>3
<1>8. At' = At /\ Image' = Image /\ \A i : Where(i)' = Where(i) BY <1>1 DEF At, Image, Where
<1>9. \A j, n : Restored(j, n)' = Restored(j, n) BY <1>1, <1>8 DEF Restored
<1>10. CASE k < Len(file)
       <2>1. /\ pc' = "restore" /\ k' = k + 1 /\ UNCHANGED verdict
             /\ mem' = [mem EXCEPT ![Where(k)] = file[k + 1]]
             BY <1>10 DEF restore, Store
       <2>2. file[k + 1] = Image[k + 1] /\ file[k + 1] \in Byte BY <1>3, <1>4, <1>6, <1>10
       <2>3. InvBytes' BY <1>0, <1>1, <2>1, <2>2 DEF InvBytes
       <2>4. InvBusy' /\ InvCommand'
             BY <1>0, <1>1, <1>2, <2>1 DEF InvBusy, InvCommand, Resets, Resizes
       <2>5. k' \in 0 .. Len(file) BY <1>3, <1>4, <1>10, <2>1
       <2>6. \A j \in DOMAIN mem' \ touched : mem'[j] = Restored(j, k')
             BY <1>7, <2>1, <2>2
       <2>7. InvRestore' BY <1>1, <1>3, <1>8, <1>9, <2>5, <2>6 DEF InvRestore
       <2>8. InvLoops' BY <2>1, <2>7 DEF InvLoops, InvClear, InvSave
       <2> QED BY <2>1, <2>3, <2>4, <2>8, NotDone DEF ExactInv
<1>11. CASE ~(k < Len(file))
       <2>1. /\ pc' \in Between /\ verdict' = "done"
             /\ mem' = [mem EXCEPT ![Where(k)] = 0]
             BY <1>0, <1>11 DEF restore, Store
       <2>2. k = Len(file) BY <1>3, <1>4, <1>11
       <2>3. InvBytes' BY <1>0, <1>1, <2>1, LoaderAssumption DEF InvBytes
       <2>4. InvBusy' /\ InvCommand'
             BY <1>0, <1>1, <2>1 DEF InvBusy, InvCommand, Resets, Resizes
       <2>5. \A j \in DOMAIN mem' \ touched : mem'[j] = Restored(j, Len(Image))
             BY <1>6, <1>7, <2>1, <2>2
       <2>6. cmd[1] = ".sr" /\ cmd[2] = "-r" BY <1>0, <1>1 DEF InvCommand
       <2>7. RestoredAll'
             <3>1. \A j \in DOMAIN mem' \ touched' : mem'[j] = Restored(j, Len(Image))'
                   BY <1>1, <1>8, <1>9, <2>5
             <3> QED BY <1>1, <1>3, <3>1 DEF RestoredAll
       <2>8. Exact' BY <1>1, <2>6, <2>7 DEF Exact, SavedAll, Cleared, Did
       <2> QED BY <2>1, <2>3, <2>4, <2>8, NoLoop DEF ExactInv
<1> QED BY <1>10, <1>11

\* mmem::save.
LEMMA SaveStep == IInv /\ ExactInv /\ save => ExactInv'
<1> SUFFICES ASSUME IInv, ExactInv, save PROVE ExactInv'
    OBVIOUS
<1> USE DEF GoTo, Done, Between, heap, history
<1>0. /\ InvBytes /\ InvBusy /\ InvCommand /\ InvSave /\ from \in Between
      /\ size \in Nat \ {0} /\ DOMAIN mem = 0 .. size - 1
      BY DEF ExactInv, InvLoops, IInv, InvTypes, InvMemory, Told, InUse, save
<1>1. pc = "save" /\ UNCHANGED <<context, cmd, size, mem, before, touched>> BY DEF save
<1>2. verdict = "none" BY <1>0, <1>1 DEF InvBusy, IInv, InvSize
<1> DEFINE file == files[cmd[3]]
           put == Append(file, SavedByte)
<1>3. /\ cmd[3] \in DOMAIN files
      /\ Number[cmd[At]] \in Int /\ Number[cmd[At + 1]] \in Int
      /\ k \in Nat
      /\ \A j \in DOMAIN mem \ touched : mem[j] = before[j]
      /\ Distance >= 0 => k <= Distance /\ Saved
      BY <1>0, <1>1 DEF InvSave
<1>4. file \in Seq(Byte) BY <1>0, <1>3 DEF InvBytes
<1>5. Distance \in Int /\ MaxFile \in Nat BY <1>3, LoaderAssumption DEF Distance
<1>6. Where(k) \in DOMAIN mem
      <2>1. k \in Nat BY <1>3
      <2> QED BY <1>0, <1>3, <2>1, WhereInMemory
<1>7. SavedByte \in Byte BY <1>0, <1>6 DEF InvBytes, SavedByte
<1>8. At' = At /\ Distance' = Distance /\ \A i : Where(i)' = Where(i)
      BY <1>1 DEF At, Distance, Where
<1>9. CASE k = Distance
      <2>1. pc' \in Between /\ verdict' = "done" /\ UNCHANGED <<k, files>>
            BY <1>0, <1>9 DEF save, Distance
      <2>2. InvBytes' /\ InvBusy' /\ InvCommand'
            BY <1>0, <1>1, <2>1 DEF InvBytes, InvBusy, InvCommand, Resets, Resizes
      <2>3. cmd[1] = ".sr" /\ cmd[2] = "-s" BY <1>0, <1>1 DEF InvCommand
      <2>4. Saved BY <1>3, <1>5, <1>9
      <2>5. SavedAll'
            <3>1. /\ Len(file) = Min({Distance, MaxFile})
                  /\ \A i \in 1 .. Len(file) : \/ Where(i - 1) \in touched
                                              \/ file[i] = before[Where(i - 1)]
                  BY <1>9, <2>4 DEF Saved
            <3>2. file' = file BY <1>1, <2>1
            <3>3. \A j \in DOMAIN mem' \ touched' : mem'[j] = before'[j] BY <1>1, <1>3
            <3>4. /\ Len(file') = Min({Distance', MaxFile})
                  /\ \A i \in 1 .. Len(file') : \/ Where(i - 1)' \in touched'
                                               \/ file'[i] = before'[Where(i - 1)']
                  BY <1>1, <1>8, <3>1, <3>2
            <3> QED BY <3>3, <3>4 DEF SavedAll
      <2>6. Exact' BY <1>1, <2>3, <2>5 DEF Exact, RestoredAll, Cleared, Did
      <2> QED BY <2>1, <2>2, <2>6, NoLoop DEF ExactInv
<1>10. CASE k # Distance
       <2>1. /\ pc' = "save" /\ UNCHANGED verdict
             /\ files' = [files EXCEPT ![cmd[3]] = IF Len(put) > MaxFile THEN @ ELSE put]
             /\ k' = IF Distance < 0 THEN (k + 1) % size ELSE k + 1
             BY <1>10 DEF save, Distance
       <2>2. put \in Seq(Byte) /\ Len(put) = Len(file) + 1 /\ Len(file) \in Nat
             /\ \A i \in 1 .. Len(file) : put[i] = file[i]
             /\ put[Len(file) + 1] = SavedByte
             BY <1>4, <1>7
       <2>3. file' = IF Len(put) > MaxFile THEN file ELSE put
             BY <1>1, <1>3, <2>1
       <2>4. InvBytes'
             <3>1. DOMAIN files' = DOMAIN files
                   /\ \A f \in DOMAIN files : f # cmd[3] => files'[f] = files[f]
                   BY <2>1
             <3>2. files'[cmd[3]] \in Seq(Byte) BY <1>1, <1>4, <2>2, <2>3
             <3> QED BY <1>0, <1>1, <3>1, <3>2 DEF InvBytes
       <2>5. InvBusy' /\ InvCommand'
             BY <1>0, <1>1, <1>2, <2>1 DEF InvBusy, InvCommand, Resets, Resizes
       <2>6. k' \in Nat
             <3>1. k + 1 \in Nat BY <1>3
             <3>2. (k + 1) % size \in Nat BY <1>0, <3>1
             <3> QED BY <2>1, <3>1, <3>2
       <2>7. ASSUME Distance >= 0 PROVE k' <= Distance /\ Saved'
             <3>1. k' = k + 1 /\ k' <= Distance BY <1>3, <1>5, <1>10, <2>1, <2>7
             <3>2. /\ Len(file) = Min({k, MaxFile})
                   /\ \A i \in 1 .. Len(file) : \/ Where(i - 1) \in touched
                                               \/ file[i] = before[Where(i - 1)]
                   BY <1>3, <2>7 DEF Saved
             <3>3. Len(file) = IF k <= MaxFile THEN k ELSE MaxFile
                   BY <1>3, <1>5, <3>2, MinOfTwo
             <3>4. Min({k', MaxFile}) = IF k + 1 <= MaxFile THEN k + 1 ELSE MaxFile
                   BY <1>3, <1>5, <3>1, MinOfTwo
             <3>5. CASE k < MaxFile
                   <4>1. file' = put /\ Len(file) = k BY <1>3, <1>5, <2>2, <2>3, <3>3, <3>5
                   <4>2. Where(k) \in touched \/ SavedByte = before[Where(k)]
                         BY <1>3, <1>6 DEF SavedByte
                   <4>3. \A i \in 1 .. k + 1 : \/ Where(i - 1) \in touched
                                              \/ put[i] = before[Where(i - 1)]
                         <5> SUFFICES ASSUME NEW i \in 1 .. k + 1
                                      PROVE  \/ Where(i - 1) \in touched
                                             \/ put[i] = before[Where(i - 1)]
                             OBVIOUS
                         <5>1. CASE i = k + 1
                               <6>1. i - 1 = k BY <1>3, <5>1
                               <6> QED BY <2>2, <4>1, <4>2, <5>1, <6>1
                         <5>2. CASE i # k + 1
                               <6>1. i \in 1 .. k BY <1>3, <5>2
                               <6> QED BY <2>2, <3>2, <4>1, <6>1
                         <5> QED BY <5>1, <5>2
                   <4>4. Len(file') = Min({k', MaxFile}) /\ Len(file') = k + 1
                         BY <1>3, <1>5, <2>2, <3>4, <3>5, <4>1
                   <4>5. \A i \in 1 .. Len(file') : \/ Where(i - 1)' \in touched'
                                                   \/ file'[i] = before'[Where(i - 1)']
                         BY <1>1, <1>8, <4>1, <4>3, <4>4
                   <4> QED BY <3>1, <4>4, <4>5 DEF Saved
             <3>6. CASE ~(k < MaxFile)
                   <4>1. file' = file /\ Len(file) = MaxFile
                         BY <1>3, <1>5, <2>2, <2>3, <3>3, <3>6
                   <4>2. Len(file') = Min({k', MaxFile})
                         BY <1>3, <1>5, <3>4, <3>6, <4>1
                   <4>3. \A i \in 1 .. Len(file') : \/ Where(i - 1)' \in touched'
                                                   \/ file'[i] = before'[Where(i - 1)']
                         BY <1>1, <1>8, <3>2, <4>1
                   <4> QED BY <3>1, <4>2, <4>3 DEF Saved
             <3> QED BY <3>5, <3>6
       <2>8. InvSave' BY <1>1, <1>3, <1>8, <2>1, <2>6, <2>7 DEF InvSave
       <2>9. InvLoops' BY <2>1, <2>8 DEF InvLoops, InvClear, InvRestore
       <2> QED BY <2>1, <2>4, <2>5, <2>9, NotDone DEF ExactInv
<1> QED BY <1>9, <1>10

\* What the AFU writes is left out of what is promised.
LEMMA OutsideExactInv ==
    IInv /\ ExactInv /\ (AfuWrite \/ break_machine \/ UNCHANGED vars) => ExactInv'
<1> SUFFICES ASSUME IInv, ExactInv, AfuWrite \/ break_machine \/ UNCHANGED vars
             PROVE  ExactInv'
    OBVIOUS
<1>1. UNCHANGED <<pc, context, cmd, k, verdict, size, files, before>>
      BY DEF AfuWrite, break_machine, vars, command, heap, history
<1>2. /\ touched \subseteq touched'
      /\ DOMAIN mem' = DOMAIN mem
      /\ \A j \in DOMAIN mem \ touched' : mem'[j] = mem[j]
      BY DEF AfuWrite, break_machine, vars, history, heap
<1>3. InvBytes /\ InvBusy /\ InvCommand /\ InvLoops /\ Exact BY DEF ExactInv
<1>4. InvBytes'
      <2>1. CASE AfuWrite BY <1>1, <1>3, <2>1 DEF AfuWrite, InvBytes
      <2>2. CASE break_machine \/ UNCHANGED vars
            BY <1>1, <1>3, <2>2 DEF break_machine, vars, heap, InvBytes
      <2> QED BY <2>1, <2>2
<1>5. InvBusy' /\ InvCommand' BY <1>1, <1>3 DEF InvBusy, InvCommand
<1>6. At' = At /\ Distance' = Distance /\ Image' = Image /\ \A i : Where(i)' = Where(i)
      BY <1>1 DEF At, Distance, Image, Where
<1>7. \A j, n : Restored(j, n)' = Restored(j, n) BY <1>1, <1>6 DEF Restored
<1>8. InvClear' BY <1>1, <1>2, <1>3 DEF InvLoops, InvClear
<1>9. InvRestore' BY <1>1, <1>2, <1>3, <1>6, <1>7 DEF InvLoops, InvRestore
<1>10. Saved => Saved' BY <1>1, <1>2, <1>6 DEF Saved
<1>11. InvSave' BY <1>1, <1>2, <1>3, <1>6, <1>10 DEF InvLoops, InvSave
<1>12. \A d : Did(d)' = Did(d) BY <1>1 DEF Did, AtRest
<1>13. RestoredAll'
       <2>1. Len(Image)' = Len(Image) BY <1>6
       <2> QED BY <1>1, <1>2, <1>3, <1>7, <1>12, <2>1 DEF Exact, RestoredAll
<1>14. SavedAll' BY <1>1, <1>2, <1>3, <1>6, <1>12 DEF Exact, SavedAll
<1>15. Cleared' BY <1>1, <1>2, <1>3, <1>12 DEF Exact, Cleared
<1> QED BY <1>4, <1>5, <1>8, <1>9, <1>11, <1>13, <1>14, <1>15 DEF ExactInv, InvLoops, Exact

\* Every step keeps it.
LEMMA NextExactInv == IInv /\ WaitInv /\ ExactInv /\ [Next]_vars => ExactInv'
BY HeapExactInv, RunExactInv, DirectiveExactInv, ResetExactInv, ClearStep, ShowExactInv,
   WaitExactInv, RestoreStep, SaveStep, OutsideExactInv
   DEF Next, LoaderStep, Work

\* With it .sr and .rst have done what is promised of them.
LEMMA ExactIsEnough == ExactInv => RestoreExact /\ SaveExact /\ Cleared
<1> SUFFICES ASSUME ExactInv PROVE RestoreExact /\ SaveExact
    BY DEF ExactInv, Exact
<1>1. SaveExact BY DEF ExactInv, Exact, SavedAll, SaveExact, Distance
<1>2. ASSUME Did(".sr"), verdict = "done", cmd[2] = "-r",
             NEW j \in DOMAIN mem \ touched, j # Where(Len(files[cmd[3]]))
      PROVE  LET file == files[cmd[3]]
                 stored == {i \in 1 .. Len(file) : Where(i - 1) = j}
             IN  mem[j] = IF stored = {} THEN before[j] ELSE file[Max(stored)]
      <2> DEFINE file == files[cmd[3]]
                 stored == {i \in 1 .. Len(file) : Where(i - 1) = j}
      <2>1. /\ cmd[3] \in DOMAIN files /\ mem[j] = Restored(j, Len(Image))
            BY <1>2 DEF ExactInv, Exact, RestoredAll
      <2>2. file \in Seq(Byte) BY <2>1 DEF ExactInv, InvBytes
      <2>3. /\ Len(file) \in Nat /\ Len(Image) = Len(file) + 1
            /\ \A i \in 1 .. Len(file) : Image[i] = file[i]
            BY <2>2 DEF Image
      <2>4. mem[j] = Restored(j, Len(file)) BY <1>2, <2>1, <2>3, OneMoreRestored
      <2>5. mem[j] = IF stored = {} THEN before[j] ELSE Image[Max(stored)]
            BY <2>4 DEF Restored
      <2>6. ASSUME stored # {} PROVE Max(stored) \in 1 .. Len(file)
            <3>1. stored \in SUBSET (1 .. Len(file)) OBVIOUS
            <3> HIDE DEF stored
            <3> QED BY <2>3, <2>6, <3>1, GreatestIsIn
      <2> QED BY <2>3, <2>5, <2>6
<1>3. RestoreExact BY <1>2 DEF RestoreExact
<1> QED BY <1>1, <1>3

-----------------------------------------------------------------------------
(* The command line: shEnv is what it is taken for.                        *)

\* What the program starts with.
LEMMA DefaultIsEnv == DefaultEnv \in Envs
<1>1. <<>> \in Seq(STRING)
      OBVIOUS
<1> QED BY <1>1, ToolEnvAssumption DEF DefaultEnv, Envs

\* What an option makes of it, ...
LEMMA WithOptionType ==
  ASSUME NEW e \in Envs, NEW option \in {"-s", "-b", "-i", "-o"}
  PROVE  WithOption(e, option) \in Envs
<1>1. CASE option = "-s" BY <1>1 DEF WithOption, Envs
<1>2. CASE option = "-b" BY <1>2 DEF WithOption, Envs
<1>3. CASE option = "-i" BY <1>3 DEF WithOption, Envs
<1>4. CASE option = "-o" BY <1>4 DEF WithOption, Envs
<1> QED BY <1>1, <1>2, <1>3, <1>4

\* ... what its value does, ...
LEMMA WithValueType ==
  ASSUME NEW e \in Envs, NEW option \in {"-s", "-b", "-i", "-o"}, NEW value \in STRING
  PROVE  WithValue(e, option, value) \in Envs
<1>1. CASE option = "-s"
      <2> DEFINE known == value \in {"hex", "bin", "mif"}
                 st == IF known THEN value ELSE e.st
      <2>1. WithValue(e, "-s", value) = [e EXCEPT !.has_AsmStrMode_Value = known, !.st = st]
            BY DEF WithValue, Envs
      <2>2. known \in BOOLEAN /\ st \in {"bin", "hex", "mif"} BY DEF Envs
      <2> HIDE DEF known, st
      <2>3. [e EXCEPT !.has_AsmStrMode_Value = known, !.st = st] \in Envs
            BY <2>2 DEF Envs
      <2> QED BY <1>1, <2>1, <2>3
<1>2. CASE option = "-b"
      <2> DEFINE width == AtoiOf(value)
                 positive == width > 0
      <2>1. WithValue(e, "-b", value) = [e EXCEPT !.width = width, !.has_WordSize_Value = positive]
            BY DEF WithValue
      <2>2. positive \in BOOLEAN
            OBVIOUS
      <2>3. width \in Nat BY ToolEnvAssumption DEF AtoiOf
      <2> HIDE DEF positive, width
      <2>4. [e EXCEPT !.width = width, !.has_WordSize_Value = positive] \in Envs
            BY <2>2, <2>3 DEF Envs
      <2> QED BY <1>2, <2>1, <2>4
<1>3. CASE option = "-i"
      <2>1. Append(e.asmInputs, value) \in Seq(STRING) BY DEF Envs
      <2>2. [e EXCEPT !.asmInputs = Append(@, value)] \in Envs BY <2>1 DEF Envs
      <2> QED BY <1>3, <2>2 DEF WithValue
<1>4. CASE option = "-o" BY <1>4 DEF WithValue, Envs
<1> QED BY <1>1, <1>2, <1>3, <1>4

\* ... and so what an argument does.
LEMMA CharacterizeArgType ==
  ASSUME NEW e \in Envs, NEW a \in Seq(STRING), NEW i \in 1 .. Len(a)
  PROVE  CharacterizeArg(e, a, i) \in Envs
<1>1. CASE a[i] \notin {"-s", "-b", "-i", "-o"} BY <1>1 DEF CharacterizeArg
<1>2. CASE a[i] \in {"-s", "-b", "-i", "-o"}
      <2> DEFINE seen == WithOption(e, a[i])
      <2>1. seen \in Envs BY <1>2, WithOptionType
      <2>2. i < Len(a) => a[i + 1] \in STRING OBVIOUS
      <2>3. i < Len(a) => WithValue(seen, a[i], a[i + 1]) \in Envs
            <3> HIDE DEF seen
            <3> QED BY <1>2, <2>1, <2>2, WithValueType
      <2> QED BY <1>2, <2>1, <2>3 DEF CharacterizeArg
<1> QED BY <1>1, <1>2

\* characterize_Env goes through the arguments, one after the other.
LEMMA CharacterizeEnv ==
  ASSUME NEW a \in Seq(STRING)
  PROVE  \E after \in [0 .. Len(a) -> Envs] :
             /\ after[0] = DefaultEnv
             /\ \A i \in 1 .. Len(a) : after[i] = CharacterizeArg(after[i - 1], a, i)
             /\ characterize_Env(a) = after[Len(a)]
<1> DEFINE N == Len(a)
           after == CHOOSE f : f = [i \in 0 .. N |-> IF i = 0 THEN DefaultEnv
                                                     ELSE CharacterizeArg(f[i - 1], a, i)]
           step == [n \in Nat |-> [e \in Envs |->
                        IF n \in 1 .. N THEN CharacterizeArg(e, a, n) ELSE e]]
<1>0. N \in Nat
      OBVIOUS
<1>1. step \in [Nat -> [Envs -> Envs]]
      BY CharacterizeArgType
<1>2. characterize_Env(a) = after[N]
      BY DEF characterize_Env
<1> HIDE DEF N
<1>3. PICK g : Iterates(g, Envs, DefaultEnv, step, N)
      <2> HIDE DEF step
      <2> QED BY <1>0, <1>1, DefaultIsEnv, Recursion
<1>4. g \in [0 .. N -> Envs] /\ g[0] = DefaultEnv
      BY <1>3 DEF Iterates
<1>5. \A i \in 1 .. N : g[i] = CharacterizeArg(g[i - 1], a, i)
      <2> SUFFICES ASSUME NEW i \in 1 .. N PROVE g[i] = CharacterizeArg(g[i - 1], a, i)
          OBVIOUS
      <2>1. g[i - 1] \in Envs /\ i \in Nat BY <1>0, <1>4
      <2>2. g[i] = step[i][g[i - 1]] BY <1>3 DEF Iterates
      <2> QED BY <2>1, <2>2
<1>6. g = [i \in 0 .. N |-> IF i = 0 THEN DefaultEnv ELSE CharacterizeArg(g[i - 1], a, i)]
      BY <1>0, <1>4, <1>5
<1>7. after = [i \in 0 .. N |-> IF i = 0 THEN DefaultEnv
                                ELSE CharacterizeArg(after[i - 1], a, i)]
      BY <1>6
<1> HIDE DEF after
<1>8. after[0] = DefaultEnv /\ \A i \in 1 .. N : after[i] = CharacterizeArg(after[i - 1], a, i)
      BY <1>0, <1>7
<1> DEFINE S == {n \in Nat : n =< N => after[n] \in Envs}
<1>9. 0 \in S
      BY <1>8, DefaultIsEnv
<1>10. ASSUME NEW n \in Nat, n \in S PROVE n + 1 \in S
       <2> SUFFICES ASSUME n + 1 =< N PROVE after[n + 1] \in Envs
           OBVIOUS
       <2>1. n + 1 \in 1 .. N /\ (n + 1) - 1 = n /\ after[n] \in Envs BY <1>0, <1>10
       <2>2. after[n + 1] = CharacterizeArg(after[n], a, n + 1) BY <1>8, <2>1
       <2> QED BY <2>1, <2>2, CharacterizeArgType DEF N
<1>11. Nat \subseteq S
       <2> HIDE DEF S
       <2> QED BY <1>9, <1>10, Induct
<1>12. after \in [0 .. N -> Envs]
       BY <1>0, <1>7, <1>11
<1> QED BY <1>2, <1>8, <1>12 DEF N

-----------------------------------------------------------------------------
(* The types.                                                              *)

\* Where the loader may be.
Places == InUse \cup Resizes \cup Resets \cup {"start", "over"}

\* Where it is, and what it has said.
InvPlaces == /\ pc \in Places
             /\ result \in {"running", "returned", "terminated"}
             /\ verdict \in {"none", "done", "refused", "timed out", "aborted", "observed"}

\* What it has been told.
InvWords == /\ mode \in {"INTERACTIVE", "MACHINE", "SHUTDOWN"}
            /\ script \in Seq(LineRecords)
            /\ cmd \in Seq(STRING)

\* What it has counted and asked for.
InvNumbers == /\ shown \in Seq(Nat \X Byte)
              /\ {size, newsize} \subseteq Sizes \cup {0}
              /\ {k, lines_read, faults, interrupts, afu_writes} \subseteq Nat
              /\ {length, go} \subseteq {0, 1}

TypeInv == InvPlaces /\ InvWords /\ InvNumbers

\* The program starts with values of these types.
LEMMA InitTypeInv == Init => TypeInv
<1>1. <<>> \in Seq(LineRecords) /\ <<>> \in Seq(STRING) /\ <<>> \in Seq(Nat)
      OBVIOUS
<1> QED BY <1>1 DEF Init, TypeInv, InvPlaces, InvWords, InvNumbers, Places

\* The sizes the program asks for itself.
LEMMA SizesAsked == {InitialSize, RecoverySize} \subseteq Sizes
BY DEF Sizes

\* mmem::resize and ~mmem.
LEMMA HeapTypes == IInv /\ TypeInv /\ Heap => TypeInv'
<1> SUFFICES ASSUME IInv, TypeInv, Heap PROVE TypeInv'
    OBVIOUS
<1> USE DEF GoTo, Terminate, Unwind, OnlyAfu, Write, SetBase, SetLength, heap, afu, shell, command,
            counters, TypeInv
<1>1. InvPlaces'
      <2>1. UNCHANGED verdict /\ pc \in Resizes
            BY DEF Heap, Dealloc, Free, Alloc, WriteBase, WriteSize, SetSize, Resizes
      <2>2. result' \in {result, "returned", "terminated"}
            BY DEF Heap, Dealloc, Free, Alloc, BadAlloc, WriteBase, WriteSize, SetSize
      <2>3. pc' \in Resizes \cup {"begin", "clear", "over"}
            BY DEF Heap, Dealloc, Free, Alloc, BadAlloc, WriteBase, WriteSize, SetSize, Resizes
      <2> QED BY <2>1, <2>2, <2>3 DEF InvPlaces, Places, InUse
<1>2. InvWords'
      <2>1. UNCHANGED <<mode, script, cmd>>
            BY DEF Heap, Dealloc, Free, Alloc, WriteBase, WriteSize, SetSize
      <2> QED BY <2>1 DEF InvWords
<1>3. InvNumbers'
      <2>1. CASE SetSize
            <3>1. /\ size' = newsize /\ k' = 0
                  /\ UNCHANGED <<newsize, shown, lines_read, faults, interrupts, afu_writes,
                                 length, go>>
                  BY <2>1 DEF SetSize
            <3> QED BY <3>1 DEF InvNumbers
      <2>2. CASE ~SetSize
            <3>1. /\ UNCHANGED <<size, k, shown, lines_read, interrupts, afu_writes, go>>
                  /\ newsize' \in {newsize, RecoverySize}
                  /\ faults' \in {faults, faults + 1} /\ length' \in {length, 1}
                  BY <2>2 DEF Heap, Dealloc, Free, Alloc, BadAlloc, WriteBase, WriteSize
            <3> QED BY <3>1, SizesAsked DEF InvNumbers
      <2> QED BY <2>1, <2>2
<1> QED BY <1>1, <1>2, <1>3

\* A line is taken: its words are the command.
LEMMA TakeTypes ==
    ASSUME IInv, TypeInv, NEW line \in LineRecords, Take(line),
           UNCHANGED <<mode, newsize, size, faults, interrupts, afu_writes, length, go>>,
           script' \in Seq(LineRecords)
    PROVE  TypeInv'
<1> USE DEF TypeInv
<1>1. /\ pc' \in {"over", "execute", from} /\ result' \in {result, "terminated"}
      /\ verdict' = "none" /\ k' = 0 /\ shown' = <<>> /\ lines_read' = lines_read + 1
      BY DEF Take, GoTo, Terminate, Done
<1>2. cmd' \in {cmd, line.words, <<".help">>}
      BY DEF Take, GoTo, Terminate, Done
<1>3. line.words \in Seq(STRING) /\ <<".help">> \in Seq(STRING) /\ <<>> \in Seq(Nat)
      BY LoaderAssumption DEF LineRecords
<1>4. from \in {"script", "prompt"} BY DEF IInv, InvTypes
<1>5. InvPlaces' BY <1>1, <1>4 DEF InvPlaces, Places, InUse
<1>6. InvWords' BY <1>2, <1>3 DEF InvWords
<1>7. InvNumbers' BY <1>1, <1>3 DEF InvNumbers
<1> QED BY <1>5, <1>6, <1>7

\* The start, with the mode of the command line and a script, and the loops.
LEMMA RunTypes == IInv /\ TypeInv /\ Run => TypeInv'
<1> SUFFICES ASSUME IInv, TypeInv, Run PROVE TypeInv'
    OBVIOUS
<1> USE DEF GoTo, Unwind, heap, afu, shell, command, counters, TypeInv
<1>0. from \in {"script", "prompt"} BY DEF IInv, InvTypes
<1>1. CASE Start
      <2>1. PICK arguments \in CommandLines :
                LET env == characterize_Env(arguments)
                IN  /\ mode' = env.mode
                    /\ script' = <<>> \/ (env.asmInputs[1] \in DOMAIN Scripts
                                          /\ script' = Scripts[env.asmInputs[1]])
            BY <1>1 DEF Start
      <2>2. characterize_Env(arguments) \in Envs
            <3>1. arguments \in Seq(STRING) BY LoaderAssumption
            <3>2. Len(arguments) \in 0 .. Len(arguments) BY <3>1
            <3> QED BY <3>1, <3>2, CharacterizeEnv
      <2>3. mode' \in {"INTERACTIVE", "MACHINE"} BY <2>1, <2>2 DEF Envs
      <2>4. script' \in Seq(LineRecords)
            <3>1. <<>> \in Seq(LineRecords) OBVIOUS
            <3> QED BY <2>1, <3>1, LoaderAssumption
      <2>5. /\ pc' = "dealloc" /\ newsize' \in {newsize, InitialSize}
            /\ UNCHANGED <<result, cmd, k, shown, verdict, size, length, go, lines_read, faults,
                           interrupts, afu_writes>>
            BY <1>1 DEF Start, Resize
      <2>6. InvPlaces' BY <2>5 DEF InvPlaces, Places, Resizes
      <2>7. InvWords' BY <2>3, <2>4, <2>5 DEF InvWords
      <2>8. InvNumbers' BY <2>5, SizesAsked DEF InvNumbers
      <2> QED BY <2>6, <2>7, <2>8
<1>2. CASE Begin
      <2>1. pc' = from /\ UNCHANGED <<result, mode, script, command, size, length, go, counters>>
            BY <1>2 DEF Begin, Done
      <2> QED BY <1>0, <2>1 DEF InvPlaces, InvWords, InvNumbers, Places, InUse
<1>3. CASE ReadScript
      <2>1. Take(Head(script)) /\ script # <<>> /\ script' = Tail(script)
            BY <1>3 DEF ReadScript
      <2>2. Head(script) \in LineRecords /\ Tail(script) \in Seq(LineRecords)
            BY <2>1 DEF InvWords
      <2>3. UNCHANGED <<mode, newsize, size, faults, interrupts, afu_writes, length, go>>
            BY <1>3 DEF ReadScript
      <2> QED BY <2>1, <2>2, <2>3, TakeTypes
<1>4. CASE EndScript
      <2>1. /\ pc' = "prompt" /\ mode' \in {mode, "INTERACTIVE"}
            /\ UNCHANGED <<result, script, command, size, length, go, counters>>
            BY <1>4 DEF EndScript
      <2> QED BY <2>1 DEF InvPlaces, InvWords, InvNumbers, Places, InUse
<1>5. CASE Prompt
      <2>1. PICK line \in Lines : Take(line) BY <1>5 DEF Prompt
      <2>2. UNCHANGED <<mode, script, newsize, size, faults, interrupts, afu_writes, length, go>>
            BY <1>5 DEF Prompt
      <2>3. line \in LineRecords /\ script' \in Seq(LineRecords)
            BY <2>2, LoaderAssumption DEF InvWords
      <2> QED BY <2>1, <2>2, <2>3, TakeTypes
<1>6. CASE Leave
      <2>1. /\ pc' = "dealloc"
            /\ UNCHANGED <<result, mode, script, command, size, length, go, counters>>
            BY <1>6 DEF Leave
      <2> QED BY <2>1 DEF InvPlaces, InvWords, InvNumbers, Places, Resizes
<1> QED BY <1>1, <1>2, <1>3, <1>4, <1>5, <1>6 DEF Run

\* The directives, as far as their first step.
LEMMA DirectiveTypes == IInv /\ TypeInv /\ execute_runtime_directive => TypeInv'
<1> SUFFICES ASSUME IInv, TypeInv, execute_runtime_directive PROVE TypeInv'
    OBVIOUS
<1> USE DEF GoTo, Goes, Done, Is, Terminate, Unwind, heap, afu, shell, command, counters, TypeInv
<1>0. from \in {"script", "prompt"} BY DEF IInv, InvTypes
<1>1. /\ UNCHANGED <<script, cmd, k, shown, verdict, size, length, lines_read, interrupts,
                     afu_writes>>
      /\ mode' \in {mode, "SHUTDOWN", "MACHINE"}
      /\ go' \in {go, 1} /\ faults' \in {faults, faults + 1}
      /\ result' \in {result, "terminated"}
      /\ pc' \in {from, "reset_afu", "clear", "restore", "save", "show", "poll", "dealloc", "over"}
      <2>1. CASE Message \/ exit \/ reset \/ sr_r \/ sr_s
            BY <2>1 DEF Message, exit, reset, AfterReset, sr_r, sr_s
      <2>2. CASE sr \/ mem_ \/ wait \/ resize
            BY <2>2 DEF sr, mem_, wait, resize, Resize
      <2>3. CASE go_ BY <2>3 DEF go_, Write, OnlyAfu
      <2> QED BY <2>1, <2>2, <2>3 DEF execute_runtime_directive
<1>2. newsize' \in Sizes \cup {0}
      <2>1. CASE resize
            <3>1. newsize' = newsize
                  \/ (BitsAllowed(Number[cmd[2]]) /\ newsize' = 2 ^ Number[cmd[2]])
                  BY <2>1 DEF resize, Resize
            <3> QED BY <3>1 DEF BitsAllowed, Sizes, InvNumbers
      <2>2. CASE Message \/ exit \/ reset \/ sr_r \/ sr_s
            BY <2>2 DEF Message, exit, reset, AfterReset, sr_r, sr_s, InvNumbers
      <2>3. CASE sr \/ mem_ \/ wait
            BY <2>3 DEF sr, mem_, wait, InvNumbers
      <2>4. CASE go_ BY <2>4 DEF go_, OnlyAfu, InvNumbers
      <2> QED BY <2>1, <2>2, <2>3, <2>4 DEF execute_runtime_directive
<1>3. InvPlaces' BY <1>0, <1>1 DEF InvPlaces, Places, InUse, Resizes, Resets
<1>4. InvWords' BY <1>1 DEF InvWords
<1>5. InvNumbers' BY <1>1, <1>2 DEF InvNumbers
<1> QED BY <1>3, <1>4, <1>5

\* The loops of the directives.
LEMMA WorkTypes == IInv /\ InvBytes /\ TypeInv /\ Work => TypeInv'
<1> SUFFICES ASSUME IInv, InvBytes, TypeInv, Work PROVE TypeInv'
    OBVIOUS
<1> USE DEF GoTo, Done, Terminate, Unwind, heap, afu, shell, command, counters, TypeInv
<1>0. from \in {"script", "prompt"} BY DEF IInv, InvTypes
<1>1. CASE ResetAfu \/ ResetLength \/ ResetBase
      <2>1. /\ UNCHANGED <<mode, script, cmd, k, newsize, shown, verdict, size, lines_read,
                           interrupts, afu_writes>>
            /\ go' \in {go, 0} /\ length' \in {length, 0, 1} /\ faults' \in {faults, faults + 1}
            /\ result' \in {result, "terminated"}
            /\ pc' \in {from, "reset_length", "reset_base", "clear", "dealloc", "over"}
            BY <1>1 DEF ResetAfu, ResetLength, ResetBase, Write, SetLength, SetBase, AfterReset,
                        OnlyAfu
      <2>2. InvPlaces' BY <1>0, <2>1 DEF InvPlaces, Places, InUse, Resizes, Resets
      <2>3. InvWords' BY <2>1 DEF InvWords
      <2>4. InvNumbers' BY <2>1 DEF InvNumbers
      <2> QED BY <2>2, <2>3, <2>4
<1>2. CASE Clear \/ restore \/ save \/ Show \/ Poll \/ Verdict
      <2>1. pc \in InUse
            BY <1>2 DEF Clear, restore, save, Show, Poll, Verdict, InUse
      <2>2. size \in Nat \ {0} BY <2>1 DEF IInv, InvMemory, Told
      <2>3. /\ UNCHANGED <<result, script, cmd, newsize, size, length, go, lines_read, faults,
                           interrupts, afu_writes>>
            /\ mode' \in {mode, "INTERACTIVE"}
            /\ verdict' \in {verdict, "done", "refused", "timed out", "aborted", "observed"}
            /\ pc' \in {from, "clear", "restore", "save", "show", "poll", "verdict"}
            /\ k' \in {k, k + 1, (k + 1) % size}
            BY <1>2 DEF Clear, restore, save, Show, Poll, Verdict, Counted
      <2>4. shown' \in Seq(Nat \X Byte)
            <3>1. CASE Show
                  <4>1. \/ shown' = shown
                        \/ \E i \in 0 .. size - 1 : shown' = Append(shown, <<i, mem[i]>>)
                        BY <3>1 DEF Show
                  <4>2. DOMAIN mem = 0 .. size - 1
                        BY <2>1 DEF IInv, InvMemory, Told
                  <4>3. \A i \in 0 .. size - 1 : <<i, mem[i]>> \in Nat \X Byte
                        BY <2>2, <4>2 DEF InvBytes
                  <4>4. shown \in Seq(Nat \X Byte) BY DEF InvNumbers
                  <4>5. \A e \in Nat \X Byte : Append(shown, e) \in Seq(Nat \X Byte)
                        <5> DEFINE V == Nat \X Byte
                        <5> HIDE DEF V
                        <5>1. shown \in Seq(V) BY <4>4 DEF V
                        <5>2. \A e \in V : Append(shown, e) \in Seq(V) BY <5>1
                        <5> QED BY <5>2 DEF V
                  <4> QED BY <4>1, <4>3, <4>4, <4>5
            <3>2. CASE Clear \/ restore \/ save \/ Poll \/ Verdict
                  BY <3>2 DEF Clear, restore, save, Poll, Verdict, InvNumbers
            <3> QED BY <1>2, <3>1, <3>2
      <2>5. k' \in Nat
            <3>1. k \in Nat BY DEF InvNumbers
            <3>2. k + 1 \in Nat BY <3>1
            <3>3. (k + 1) % size \in Nat BY <2>2, <3>2
            <3> QED BY <2>3, <3>1, <3>2, <3>3
      <2>6. InvPlaces' BY <1>0, <2>3 DEF InvPlaces, Places, InUse
      <2>7. InvWords' BY <2>3 DEF InvWords
      <2>8. InvNumbers' BY <2>3, <2>4, <2>5 DEF InvNumbers
      <2> QED BY <2>6, <2>7, <2>8
<1> QED BY <1>1, <1>2 DEF Work

\* The AFU and the user.
LEMMA OutsideTypes == TypeInv /\ (AfuWrite \/ break_machine \/ UNCHANGED vars) => TypeInv'
<1> SUFFICES ASSUME TypeInv, AfuWrite \/ break_machine \/ UNCHANGED vars PROVE TypeInv'
    OBVIOUS
<1>1. /\ UNCHANGED <<pc, result, script, cmd, k, newsize, shown, verdict, size, length, go,
                     lines_read, faults>>
      /\ mode' \in {mode, "INTERACTIVE"}
      /\ interrupts' \in {interrupts, interrupts + 1}
      /\ afu_writes' \in {afu_writes, afu_writes + 1}
      BY DEF AfuWrite, break_machine, vars, shell, command, heap, afu, counters
<1>2. InvPlaces' BY <1>1 DEF TypeInv, InvPlaces
<1>3. InvWords' BY <1>1 DEF TypeInv, InvWords
<1>4. InvNumbers' BY <1>1 DEF TypeInv, InvNumbers
<1> QED BY <1>2, <1>3, <1>4 DEF TypeInv

\* Every step keeps the types.
LEMMA NextTypeInv == IInv /\ ExactInv /\ TypeInv /\ [Next]_vars => TypeInv'
BY HeapTypes, RunTypes, DirectiveTypes, WorkTypes, OutsideTypes DEF Next, LoaderStep, ExactInv

\* The variables are what they are taken for, whatever the command line, the lines and
\* the scripts are: the loader never leaves the places, modes and sizes of its code.
THEOREM TypesAreRight == Spec => []TypeOK
<1>1. IInv /\ ExactInv /\ TypeInv => TypeOK
      <2> SUFFICES ASSUME IInv, ExactInv, TypeInv PROVE TypeOK
          OBVIOUS
      <2>1. base \in Buffers \cup {Null} BY DEF IInv, InvTypes, InvAddress
      <2> QED BY <2>1 DEF TypeOK, IInv, InvTypes, ExactInv, InvBytes, InvCommand, TypeInv,
                          InvPlaces, InvWords, InvNumbers, Places, Resizes, Resets
<1> QED BY <1>1, InitIInv, NextIInv, InitWaitInv, NextWaitInv, InitExactInv, NextExactInv,
        InitTypeInv, NextTypeInv, PTL DEF Spec

-----------------------------------------------------------------------------
(* The sequences that FlattenSeq puts together.                            *)

\* FlattenSeq puts the parts together one after the other.
LEMMA FlattenUnfold ==
  ASSUME NEW V, NEW s \in Seq(Seq(V)), s # <<>>
  PROVE  \E f \in [1 .. Len(s) -> Seq(V)] :
             /\ f[1] = s[1]
             /\ \A i \in 2 .. Len(s) : f[i] = f[i - 1] \o s[i]
             /\ FlattenSeq(s) = f[Len(s)]
<1> DEFINE N == Len(s)
           f == CHOOSE f : f = [i \in 1 .. N |-> IF i = 1 THEN s[1] ELSE f[i - 1] \o s[i]]
           step == [n \in Nat |-> [v \in Seq(V) |-> IF n + 1 =< N THEN v \o s[n + 1] ELSE v]]
<1>0. N \in Nat \ {0} /\ \A i \in 1 .. N : s[i] \in Seq(V)
      OBVIOUS
<1>1. step \in [Nat -> [Seq(V) -> Seq(V)]]
      BY <1>0
<1>2. s[1] \in Seq(V) /\ N - 1 \in Nat
      BY <1>0
<1> HIDE DEF N
<1>3. PICK h \in [0 .. N - 1 -> Seq(V)] :
          h[0] = s[1] /\ \A i \in 1 .. N - 1 : h[i] = step[i][h[i - 1]]
      <2> DEFINE W == Seq(V)
                 M == N - 1
                 b == s[1]
      <2>1. b \in W /\ M \in Nat /\ step \in [Nat -> [W -> W]] BY <1>1, <1>2
      <2> HIDE DEF step, W, M, b
      <2>2. \E h : Iterates(h, W, b, step, M)
            BY <2>1, Recursion
      <2> QED BY <2>2 DEF Iterates, W, M, b
<1>4. \A i \in 1 .. N - 1 : h[i] = h[i - 1] \o s[i + 1]
      <2> SUFFICES ASSUME NEW i \in 1 .. N - 1 PROVE h[i] = h[i - 1] \o s[i + 1]
          OBVIOUS
      <2>1. h[i - 1] \in Seq(V) /\ i \in Nat /\ i + 1 =< N BY <1>0, <1>3
      <2> QED BY <1>3, <2>1
<1> HIDE DEF step
<1> DEFINE g == [i \in 1 .. N |-> h[i - 1]]
<1>5. g = [i \in 1 .. N |-> IF i = 1 THEN s[1] ELSE g[i - 1] \o s[i]]
      <2> SUFFICES ASSUME NEW i \in 1 .. N
                   PROVE  h[i - 1] = IF i = 1 THEN s[1] ELSE g[i - 1] \o s[i]
          OBVIOUS
      <2>1. CASE i = 1 BY <1>3, <2>1
      <2>2. CASE i # 1
            <3>1. i - 1 \in 1 .. N - 1 /\ i - 1 \in 1 .. N /\ (i - 1) + 1 = i BY <1>0, <2>2
            <3>2. h[i - 1] = h[(i - 1) - 1] \o s[i] BY <1>4, <3>1
            <3>3. g[i - 1] = h[(i - 1) - 1] BY <3>1
            <3> QED BY <2>2, <3>2, <3>3
      <2> QED BY <2>1, <2>2
<1> HIDE DEF g
<1>6. f = [i \in 1 .. N |-> IF i = 1 THEN s[1] ELSE f[i - 1] \o s[i]]
      BY <1>5
<1>7. FlattenSeq(s) = f[N]
      BY <1>0 DEF FlattenSeq, N
<1> HIDE DEF f
<1>8. f[1] = s[1] /\ \A i \in 2 .. N : f[i] = f[i - 1] \o s[i]
      <2>1. ASSUME NEW i \in 1 .. N PROVE f[i] = IF i = 1 THEN s[1] ELSE f[i - 1] \o s[i]
            BY <1>6
      <2>2. 1 \in 1 .. N /\ \A i \in 2 .. N : i \in 1 .. N /\ i # 1 BY <1>0
      <2> QED BY <2>1, <2>2
<1> DEFINE S == {n \in Nat : n + 1 =< N => f[n + 1] \in Seq(V)}
<1>9. 0 \in S
      BY <1>0, <1>8
<1>10. ASSUME NEW n \in Nat, n \in S PROVE n + 1 \in S
      <2> SUFFICES ASSUME n + 2 =< N PROVE f[n + 2] \in Seq(V)
          OBVIOUS
      <2>1. n + 2 \in 2 .. N /\ n + 2 \in 1 .. N /\ (n + 2) - 1 = n + 1 /\ f[n + 1] \in Seq(V)
            BY <1>0, <1>10
      <2>2. f[n + 2] = f[n + 1] \o s[n + 2] BY <1>8, <2>1
      <2> QED BY <1>0, <2>1, <2>2
<1>11. Nat \subseteq S
      <2> HIDE DEF S
      <2> QED BY <1>9, <1>10, Induct
<1>12. ASSUME NEW i \in 1 .. N PROVE f[i] \in Seq(V)
      <2>1. i - 1 \in Nat /\ (i - 1) + 1 = i /\ i =< N BY <1>0
      <2> QED BY <1>11, <2>1
<1>13. f \in [1 .. N -> Seq(V)]
      BY <1>6, <1>12
<1> QED BY <1>7, <1>8, <1>13 DEF N

\* The sequence t is the first n of the sequences s, one after the other: at[p] is the
\* number of the part that its p-th element is from, and the element's place there.
LaidOut(s, n, t, at) ==
    /\ at \in [1 .. Len(t) -> (1 .. n) \X Nat]
    /\ \A p \in 1 .. Len(t) : at[p][2] \in 1 .. Len(s[at[p][1]]) /\ t[p] = s[at[p][1]][at[p][2]]
    /\ \A p, q \in 1 .. Len(t) :
           p < q => at[p][1] < at[q][1] \/ (at[p][1] = at[q][1] /\ at[p][2] < at[q][2])
    /\ \A m \in 1 .. n : \A i \in 1 .. Len(s[m]) : \E p \in 1 .. Len(t) : at[p] = <<m, i>>

\* One part more.
LEMMA OneMoreLaidOut ==
  ASSUME NEW V, NEW s, NEW n \in Nat, NEW t \in Seq(V), NEW u, s[n + 1] = u, u \in Seq(V),
         NEW at, LaidOut(s, n, t, at)
  PROVE  \E at2 : LaidOut(s, n + 1, t \o u, at2)
<1> DEFINE l == Len(t)
           c == t \o u
           at2 == [p \in 1 .. l + Len(u) |-> IF p <= l THEN at[p] ELSE <<n + 1, p - l>>]
<1>1. /\ l \in Nat /\ Len(u) \in Nat /\ Len(c) = l + Len(u)
      /\ \A p \in 1 .. l : c[p] = t[p]
      /\ \A i \in 1 .. Len(u) : c[l + i] = u[i]
      OBVIOUS
<1>2. /\ \A p \in 1 .. l : at[p] \in (1 .. n) \X Nat
      /\ \A p \in 1 .. l : at[p][2] \in 1 .. Len(s[at[p][1]]) /\ t[p] = s[at[p][1]][at[p][2]]
      /\ \A p, q \in 1 .. l :
             p < q => at[p][1] < at[q][1] \/ (at[p][1] = at[q][1] /\ at[p][2] < at[q][2])
      /\ \A m \in 1 .. n : \A i \in 1 .. Len(s[m]) : \E p \in 1 .. l : at[p] = <<m, i>>
      BY DEF LaidOut
<1> HIDE DEF l, c
<1>3. \A p \in 1 .. l + Len(u) : p > l => /\ p - l \in 1 .. Len(u) /\ p = l + (p - l)
                                        /\ c[p] = u[p - l]
      <2> SUFFICES ASSUME NEW p \in 1 .. l + Len(u), p > l
                   PROVE  p - l \in 1 .. Len(u) /\ p = l + (p - l) /\ c[p] = u[p - l]
          OBVIOUS
      <2>1. p - l \in 1 .. Len(u) /\ p = l + (p - l) BY <1>1
      <2> QED BY <1>1, <2>1
<1>4. \A p \in 1 .. l + Len(u) : \/ (p \in 1 .. l /\ at2[p] = at[p])
                                \/ (p > l /\ at2[p] = <<n + 1, p - l>>)
      BY <1>1
<1>5. at2 \in [1 .. Len(c) -> (1 .. n + 1) \X Nat]
      <2> SUFFICES ASSUME NEW p \in 1 .. l + Len(u) PROVE at2[p] \in (1 .. n + 1) \X Nat
          BY <1>1
      <2>1. CASE p \in 1 .. l
            <3>1. at[p] \in (1 .. n) \X Nat /\ at2[p] = at[p] BY <1>1, <1>2, <1>4, <2>1
            <3> QED BY <3>1
      <2>2. CASE p > l
            <3>1. p - l \in Nat /\ at2[p] = <<n + 1, p - l>> BY <1>1, <1>3, <2>2
            <3> QED BY <3>1
      <2> QED BY <1>1, <2>1, <2>2
<1> HIDE DEF at2
<1>6. \A p \in 1 .. Len(c) : /\ at2[p][2] \in 1 .. Len(s[at2[p][1]])
                            /\ c[p] = s[at2[p][1]][at2[p][2]]
      <2> SUFFICES ASSUME NEW p \in 1 .. l + Len(u)
                   PROVE  at2[p][2] \in 1 .. Len(s[at2[p][1]]) /\ c[p] = s[at2[p][1]][at2[p][2]]
          BY <1>1
      <2>1. CASE p \in 1 .. l /\ at2[p] = at[p] BY <1>1, <1>2, <2>1
      <2>2. CASE p > l /\ at2[p] = <<n + 1, p - l>> BY <1>3, <2>2
      <2> QED BY <1>4, <2>1, <2>2
<1>7. \A p, q \in 1 .. Len(c) :
          p < q => at2[p][1] < at2[q][1] \/ (at2[p][1] = at2[q][1] /\ at2[p][2] < at2[q][2])
      <2> SUFFICES ASSUME NEW p \in 1 .. l + Len(u), NEW q \in 1 .. l + Len(u), p < q
                   PROVE  \/ at2[p][1] < at2[q][1]
                          \/ at2[p][1] = at2[q][1] /\ at2[p][2] < at2[q][2]
          BY <1>1
      <2>1. CASE p > l
            <3>1. q > l BY <1>1, <2>1
            <3>2. at2[p] = <<n + 1, p - l>> /\ at2[q] = <<n + 1, q - l>> BY <1>1, <1>4, <2>1, <3>1
            <3> QED BY <1>1, <3>2
      <2>2. CASE p \in 1 .. l /\ q > l
            <3>1. at2[p] = at[p] /\ at2[q] = <<n + 1, q - l>> BY <1>1, <1>4, <2>2
            <3>2. at[p][1] \in 1 .. n BY <1>2, <2>2
            <3> QED BY <3>1, <3>2
      <2>3. CASE p \in 1 .. l /\ q \in 1 .. l
            <3>1. at2[p] = at[p] /\ at2[q] = at[q] BY <1>1, <1>4, <2>3
            <3> QED BY <1>2, <2>3, <3>1
      <2> QED BY <1>1, <2>1, <2>2, <2>3
<1>8. ASSUME NEW m \in 1 .. n + 1, NEW i \in 1 .. Len(s[m])
      PROVE  \E p \in 1 .. Len(c) : at2[p] = <<m, i>>
      <2>1. CASE m = n + 1
            <3>1. l + i \in 1 .. l + Len(u) /\ l + i > l /\ (l + i) - l = i BY <1>1, <2>1
            <3>2. at2[l + i] = <<n + 1, i>> BY <1>1, <1>4, <3>1
            <3> QED BY <1>1, <2>1, <3>1, <3>2
      <2>2. CASE m # n + 1
            <3>1. m \in 1 .. n BY <2>2
            <3>2. PICK p \in 1 .. l : at[p] = <<m, i>> BY <1>2, <3>1
            <3>3. p \in 1 .. l + Len(u) BY <1>1
            <3>4. ~(p > l) BY <1>1
            <3>5. at2[p] = at[p] BY <1>4, <3>3, <3>4
            <3> QED BY <1>1, <3>2, <3>3, <3>5
      <2> QED BY <2>1, <2>2
<1>9. LaidOut(s, n + 1, c, at2) BY <1>5, <1>6, <1>7, <1>8 DEF LaidOut
<1> QED BY <1>9 DEF c

\* A sequence is laid out as the first of its parts.
LEMMA FirstLaidOut ==
  ASSUME NEW V, NEW s, s[1] \in Seq(V)
  PROVE  \E at : LaidOut(s, 1, s[1], at)
<1> DEFINE t == s[1]
           at == [p \in 1 .. Len(t) |-> <<1, p>>]
<1>1. t \in Seq(V) /\ Len(t) \in Nat OBVIOUS
<1>2. at \in [1 .. Len(t) -> (1 .. 1) \X Nat] BY <1>1
<1>3. \A p \in 1 .. Len(t) : at[p] = <<1, p>> OBVIOUS
<1>4. \A p \in 1 .. Len(t) : at[p][2] \in 1 .. Len(s[at[p][1]]) /\ t[p] = s[at[p][1]][at[p][2]]
      BY <1>3
<1> HIDE DEF at
<1>5. \A p, q \in 1 .. Len(t) :
          p < q => at[p][1] < at[q][1] \/ (at[p][1] = at[q][1] /\ at[p][2] < at[q][2])
      <2> SUFFICES ASSUME NEW p \in 1 .. Len(t), NEW q \in 1 .. Len(t), p < q
                   PROVE  at[p][1] = at[q][1] /\ at[p][2] < at[q][2]
          OBVIOUS
      <2>1. at[p] = <<1, p>> /\ at[q] = <<1, q>> BY <1>3
      <2> QED BY <2>1
<1>6. \A m \in 1 .. 1 : \A i \in 1 .. Len(s[m]) : \E p \in 1 .. Len(t) : at[p] = <<m, i>>
      <2> SUFFICES ASSUME NEW i \in 1 .. Len(t) PROVE at[i] = <<1, i>>
          OBVIOUS
      <2> QED BY <1>3
<1> HIDE DEF t
<1>7. LaidOut(s, 1, t, at) BY <1>2, <1>4, <1>5, <1>6 DEF LaidOut
<1> QED BY <1>7 DEF t

\* FlattenSeq lays out all of them.
LEMMA FlattenLaysOut ==
  ASSUME NEW V, NEW s \in Seq(Seq(V))
  PROVE  FlattenSeq(s) \in Seq(V) /\ \E at : LaidOut(s, Len(s), FlattenSeq(s), at)
<1>1. CASE s = <<>>
      <2>1. FlattenSeq(s) = <<>> /\ Len(s) = 0 BY <1>1 DEF FlattenSeq
      <2> DEFINE at == [p \in 1 .. 0 |-> <<1, p>>]
      <2>2. <<>> \in Seq(V) /\ LaidOut(s, 0, <<>>, at) BY DEF LaidOut
      <2> QED BY <2>1, <2>2
<1>2. CASE s # <<>>
      <2> DEFINE N == Len(s)
      <2>1. N \in Nat \ {0} /\ \A i \in 1 .. N : s[i] \in Seq(V) BY <1>2
      <2>2. PICK f \in [1 .. N -> Seq(V)] :
                /\ f[1] = s[1]
                /\ \A i \in 2 .. N : f[i] = f[i - 1] \o s[i]
                /\ FlattenSeq(s) = f[N]
            BY <1>2, FlattenUnfold
      <2> HIDE DEF N
      <2> DEFINE Laid(n) == \E at : LaidOut(s, n, f[n], at)
                 S == {n \in Nat : n + 1 =< N => Laid(n + 1)}
      <2>3. 0 \in S
            <3>1. Laid(1)
                  <4>1. s[1] \in Seq(V) /\ f[1] = s[1] BY <2>1, <2>2
                  <4>2. \E at : LaidOut(s, 1, s[1], at) BY <4>1, FirstLaidOut
                  <4> QED BY <4>1, <4>2
            <3> HIDE DEF Laid
            <3> QED BY <3>1
      <2>4. ASSUME NEW n \in Nat, n \in S PROVE n + 1 \in S
            <3>0. (n + 1) + 1 = n + 2 OBVIOUS
            <3> SUFFICES ASSUME n + 2 =< N PROVE Laid(n + 2)
                <4> HIDE DEF Laid
                <4> QED BY <3>0
            <3>1. n + 2 \in 2 .. N /\ n + 2 \in 1 .. N /\ n + 1 \in 1 .. N /\ (n + 2) - 1 = n + 1
                  BY <2>1
            <3>2. f[n + 2] = f[n + 1] \o s[n + 2] /\ f[n + 1] \in Seq(V) /\ s[n + 2] \in Seq(V)
                  BY <2>1, <2>2, <3>1
            <3>3. Laid(n + 1) BY <2>4, <3>1
            <3>4. PICK at : LaidOut(s, n + 1, f[n + 1], at) BY <3>3
            <3>5. \E at2 : LaidOut(s, (n + 1) + 1, f[n + 1] \o s[n + 2], at2)
                  <4> DEFINE m == n + 1
                             t == f[n + 1]
                             u == s[n + 2]
                  <4>1. m \in Nat /\ t \in Seq(V) /\ u \in Seq(V) /\ s[m + 1] = u
                        /\ LaidOut(s, m, t, at)
                        BY <3>0, <3>2, <3>4
                  <4> HIDE DEF m, t, u
                  <4>2. \E at2 : LaidOut(s, m + 1, t \o u, at2) BY <4>1, OneMoreLaidOut
                  <4> QED BY <4>2 DEF m, t, u
            <3> QED BY <3>0, <3>2, <3>5
      <2>5. Nat \subseteq S
            <3> HIDE DEF S
            <3> QED BY <2>3, <2>4, Induct
      <2>6. Laid(N)
            <3>1. N - 1 \in Nat /\ (N - 1) + 1 = N BY <2>1
            <3>2. N - 1 \in S BY <2>5, <3>1
            <3> HIDE DEF Laid
            <3> QED BY <3>1, <3>2
      <2>7. f[N] \in Seq(V) BY <2>1, <2>2
      <2> QED BY <2>2, <2>6, <2>7 DEF N
<1> QED BY <1>1, <1>2

-----------------------------------------------------------------------------
(* The numbers of a range, and those of .mem.                              *)

\* Whole steps in a distance.
LEMMA DivBound ==
  ASSUME NEW a \in Nat, NEW d \in Nat \ {0}, NEW n \in Nat
  PROVE  /\ a \div d \in Nat
         /\ n =< a \div d <=> n * d =< a
OBVIOUS

\* The ends of a range, from the least to the greatest.
LEMMA EndsOfTwo ==
  ASSUME NEW a \in Int, NEW b \in Int, a =< b
  PROVE  Min({a, b}) = a /\ Max({a, b}) = b /\ Min({b, a}) = a /\ Max({b, a}) = b
BY DEF Min, Max

\* The steps from the begin that do not lead beyond the end, up or down.
LEMMA StepsReach ==
  ASSUME NEW b \in Int, NEW e \in Int, NEW step \in Int, NEW n \in Nat,
         step # 0, (e - b) * step >= 0
  PROVE  LET span == (e - b) * (IF step > 0 THEN 1 ELSE -1)
             size_ == IF step > 0 THEN step ELSE -step
             low == IF b =< e THEN b ELSE e
             high == IF b =< e THEN e ELSE b
         IN  /\ span \div size_ \in Nat
             /\ n =< span \div size_ => n =< high - low
             /\ n =< span \div size_ <=> b + n * step \in low .. high
<1> DEFINE span == (e - b) * (IF step > 0 THEN 1 ELSE -1)
           size_ == IF step > 0 THEN step ELSE -step
<1>1. span \in Nat /\ size_ \in Nat \ {0}
      OBVIOUS
<1>2. span \div size_ \in Nat /\ (n =< span \div size_ <=> n * size_ =< span)
      <2> HIDE DEF span, size_
      <2> QED BY <1>1, DivBound
<1>3. n * size_ >= n
      OBVIOUS
<1>4. CASE step > 0
      <2>1. b =< e /\ span = e - b /\ size_ = step BY <1>1, <1>4
      <2>2. n * step \in Nat BY <1>4
      <2> HIDE DEF span, size_
      <2> QED BY <1>2, <1>3, <2>1, <2>2
<1>5. CASE step < 0
      <2>1. e =< b /\ span = b - e /\ size_ = -step BY <1>1, <1>5
      <2>2. n * (-step) \in Nat /\ n * step = -(n * (-step)) BY <1>5
      <2> HIDE DEF span, size_
      <2> QED BY <1>2, <1>3, <2>1, <2>2
<1> QED BY <1>4, <1>5

\* From one step to a later one it goes as the step leads.
LEMMA StepsGoOn ==
  ASSUME NEW b \in Int, NEW step \in Int, step # 0, NEW i \in Nat, NEW j \in Nat, i < j
  PROVE  ((b + j * step) - (b + i * step)) * step > 0
<1> DEFINE d == j - i
<1>1. d \in Nat /\ d > 0 OBVIOUS
<1>2. (b + j * step) - (b + i * step) = d * step OBVIOUS
<1> HIDE DEF d
<1>3. (d * step) * step > 0
      <2>1. CASE step > 0
            <3>1. d * step \in Int /\ d * step > 0 BY <1>1, <2>1
            <3> QED BY <2>1, <3>1
      <2>2. CASE step < 0
            <3>1. d * step \in Int /\ d * step < 0 BY <1>1, <2>2
            <3> QED BY <2>2, <3>1
      <2> QED BY <2>1, <2>2
<1> QED BY <1>2, <1>3

\* The sequence r has the numbers that are meant, in the order of the steps.
InSteps(r, fields) ==
    /\ r \in Seq(Int)
    /\ \A p \in 1 .. Len(r) : r[p] \in Meant(fields, TRUE)
    /\ \A i \in Meant(fields, TRUE) : \E p \in 1 .. Len(r) : r[p] = i
    /\ \A p, q \in 1 .. Len(r) : p < q => (r[q] - r[p]) * RangeStep(fields) > 0

\* A range that is not refused has them.
LEMMA RangeIsMeant ==
  ASSUME NEW fields, ~range_refused(fields)
  PROVE  InSteps(range(fields), fields)
<1> DEFINE b == RangeBegin(fields)
           e == RangeEnd(fields)
           step == RangeStep(fields)
<1>1. /\ b \in Int /\ e \in Int /\ step \in Int
      /\ step # 0 /\ (e - b) * step >= 0
      <2>1. Len(fields) \in 1 .. 3 /\ \A i \in 1 .. Len(fields) : Number[fields[i]] \in Int
            BY LoaderAssumption DEF range_refused
      <2>2. b \in Int /\ e \in Int /\ step \in Int
            BY <2>1 DEF RangeBegin, RangeEnd, RangeStep
      <2> QED BY <2>2 DEF range_refused
<1> DEFINE size_ == IF step > 0 THEN step ELSE -step
           span == (e - b) * (IF step > 0 THEN 1 ELSE -1)
           low == IF b =< e THEN b ELSE e
           high == IF b =< e THEN e ELSE b
           last == span \div size_
<1>2. range(fields) = [i \in 1 .. last + 1 |-> b + (i - 1) * step]
      BY DEF range
<1>3. \A i : i \in Meant(fields, TRUE) <=>
                i \in low .. high /\ \E n \in 0 .. high - low : i = b + n * step
      <2>1. Min({b, e}) = low /\ Max({b, e}) = high
            <3>1. CASE b =< e BY <1>1, <3>1, EndsOfTwo
            <3>2. CASE e =< b /\ b # e
                  <4>1. Min({b, e}) = e /\ Max({b, e}) = b BY <1>1, <3>2, EndsOfTwo
                  <4>2. ~(b =< e) BY <1>1, <3>2
                  <4> QED BY <4>1, <4>2
            <3> QED BY <1>1, <3>1, <3>2
      <2> HIDE DEF low, high
      <2> QED BY <2>1 DEF Meant
<1> HIDE DEF b, e, step
<1>4. \A n \in Nat : /\ last \in Nat
                     /\ n =< last => n =< high - low
                     /\ n =< last <=> b + n * step \in low .. high
      BY <1>1, StepsReach
<1>5. last \in Nat /\ low \in Int /\ high \in Int
      BY <1>1, <1>4
<1> HIDE DEF last, low, high
<1>6. \A n \in Int : b + n * step \in Int
      BY <1>1
<1>7. range(fields) \in Seq(Int)
      BY <1>2, <1>5, <1>6
<1>8. ASSUME NEW i \in 1 .. last + 1
      PROVE  b + (i - 1) * step \in Meant(fields, TRUE)
      <2>1. i - 1 \in Nat /\ i - 1 =< last BY <1>5
      <2>2. i - 1 \in 0 .. high - low /\ b + (i - 1) * step \in low .. high BY <1>4, <1>5, <2>1
      <2> QED BY <1>3, <2>2
<1>9. ASSUME NEW m \in Meant(fields, TRUE)
      PROVE  \E i \in 1 .. last + 1 : m = b + (i - 1) * step
      <2>1. PICK n \in 0 .. high - low : m = b + n * step /\ m \in low .. high BY <1>3
      <2>2. n \in Nat /\ n =< last BY <1>4, <1>5, <2>1
      <2>3. n + 1 \in 1 .. last + 1 /\ (n + 1) - 1 = n BY <1>5, <2>2
      <2> QED BY <2>1, <2>3
<1>10. Len(range(fields)) = last + 1 BY <1>2, <1>5
<1>11. ASSUME NEW i \in 1 .. last + 1, NEW j \in 1 .. last + 1, i < j
       PROVE  ((b + (j - 1) * step) - (b + (i - 1) * step)) * step > 0
       <2>1. i - 1 \in Nat /\ j - 1 \in Nat /\ i - 1 < j - 1 BY <1>5, <1>11
       <2> QED BY <1>1, <2>1, StepsGoOn
<1>12. \A i \in 1 .. last + 1 : range(fields)[i] = b + (i - 1) * step BY <1>2
<1>13. \A i, j \in 1 .. last + 1 : i < j => (range(fields)[j] - range(fields)[i]) * step > 0
       BY <1>11, <1>12
<1>14. \A i \in 1 .. last + 1 : range(fields)[i] \in Meant(fields, TRUE) BY <1>8, <1>12
<1>15. \A m \in Meant(fields, TRUE) : \E i \in 1 .. last + 1 : range(fields)[i] = m
       BY <1>9, <1>12
<1>16. \A i, j \in 1 .. last + 1 :
           i < j => (range(fields)[j] - range(fields)[i]) * RangeStep(fields) > 0
       BY <1>13 DEF step
<1> QED BY <1>7, <1>10, <1>14, <1>15, <1>16 DEF InSteps

Refused(w) == range_refused(Fields[w])
\* The words of .mem that are ranges.
Words == SubSeq(cmd, FirstRange, Len(cmd))

\* The least of some numbers.
LEMMA MinOfNats ==
  ASSUME NEW T \in SUBSET Nat, T # {}
  PROVE  Min(T) \in T /\ \A m \in T : Min(T) =< m
<1>1. \E n \in T : \A m \in T : n =< m BY Least
<1> QED BY <1>1 DEF Min

\* The words before the first that is refused.
LEMMA FirstRefused ==
  ASSUME NEW words \in Seq(STRING),
         NEW taken, taken = SelectInSeq(words, LAMBDA w : range_refused(Fields[w]))
  PROVE  LET count == IF taken = 0 THEN Len(words) ELSE taken - 1
         IN  /\ count \in 0 .. Len(words)
             /\ \A i \in 1 .. count : ~Refused(words[i])
             /\ count # Len(words) => Refused(words[count + 1])
<1> DEFINE I == {i \in 1 .. Len(words) : Refused(words[i])}
<1>0. Len(words) \in Nat
      OBVIOUS
<1>1. taken = IF I # {} THEN Min(I) ELSE 0
      BY DEF SelectInSeq, Refused
<1>2. CASE I = {}
      <2>1. taken = 0 BY <1>1, <1>2
      <2>2. \A i \in 1 .. Len(words) : ~Refused(words[i]) BY <1>2
      <2>3. Len(words) \in 0 .. Len(words) BY <1>0
      <2> QED BY <2>1, <2>2, <2>3
<1>3. CASE I # {}
      <2>1. I \in SUBSET Nat OBVIOUS
      <2> DEFINE m == Min(I)
      <2>2. m \in I /\ \A i \in I : m =< i
            <3> HIDE DEF I
            <3> QED BY <1>3, <2>1, MinOfNats
      <2> HIDE DEF m
      <2>3. taken = m /\ taken # 0 BY <1>1, <1>3, <2>2 DEF m
      <2>4. taken - 1 \in 0 .. Len(words) /\ (taken - 1) + 1 = taken BY <1>0, <2>2, <2>3
      <2>5. \A i \in 1 .. taken - 1 : i \in 1 .. Len(words) /\ i \notin I
            BY <1>0, <2>2, <2>3
      <2> QED BY <2>2, <2>3, <2>4, <2>5
<1> QED BY <1>2, <1>3

\* The numbers of .mem are all there is to show, in its order: the p-th is one of the
\* range at origin[p].
Traced(origin) ==
    /\ origin \in [1 .. Len(Listed) -> RangesTaken]
    /\ \A p \in 1 .. Len(Listed) : <<origin[p], Listed[p]>> \in ToShow(TRUE)
    /\ \A p, q \in 1 .. Len(Listed) :
           p < q => Before(<<origin[p], Listed[p]>>, <<origin[q], Listed[q]>>)
    /\ \A a \in ToShow(TRUE) : \E p \in 1 .. Len(Listed) : a = <<origin[p], Listed[p]>>

\* .mem goes through the numbers that are meant by the words up to the first that is
\* refused.
LEMMA ListedIsMeant ==
  ASSUME cmd \in Seq(STRING), cmd # <<>>
  PROVE  Listed \in Seq(Int) /\ \E origin : Traced(origin)
<1> DEFINE first == FirstRange
           taken == SelectInSeq(Words, LAMBDA w : range_refused(Fields[w]))
           count == IF taken = 0 THEN Len(Words) ELSE taken - 1
           parts == [i \in 1 .. count |-> range(Fields[Words[i]])]
<1>1. Listed = FlattenSeq(parts)
      BY DEF Listed, Words
<1>2. Len(cmd) \in Nat \ {0} /\ first \in {2, 3} /\ first =< Len(cmd) + 1
      BY DEF FirstRange
<1>3. /\ Words \in Seq(STRING)
      /\ Len(Words) = Len(cmd) + 1 - first
      /\ \A i \in 1 .. Len(Words) : Words[i] = cmd[first + i - 1]
      BY <1>2 DEF Words
<1>4. /\ count \in 0 .. Len(Words)
      /\ \A i \in 1 .. count : ~Refused(Words[i])
      /\ count # Len(Words) => Refused(Words[count + 1])
      BY <1>3, FirstRefused
<1> HIDE DEF first, count
<1>5. \A i \in 1 .. count : InSteps(range(Fields[Words[i]]), Fields[Words[i]])
      BY <1>4, RangeIsMeant DEF Refused
<1>6. /\ parts \in Seq(Seq(Int)) /\ Len(parts) = count
      /\ \A i \in 1 .. count : InSteps(parts[i], Fields[cmd[first + i - 1]])
      <2>1. \A i \in 1 .. count : i \in 1 .. Len(Words) BY <1>3, <1>4
      <2>2. \A i \in 1 .. count : InSteps(parts[i], Fields[cmd[first + i - 1]])
            BY <1>3, <1>5, <2>1
      <2>3. \A i \in 1 .. count : parts[i] \in Seq(Int) BY <2>2 DEF InSteps
      <2>4. count \in Nat BY <1>3, <1>4
      <2> QED BY <2>2, <2>3, <2>4
<1>7. ASSUME NEW i \in 1 .. count PROVE first + i - 1 \in RangesTaken
      <2>1. first + i - 1 \in first .. Len(cmd) BY <1>2, <1>3, <1>4
      <2>2. ASSUME NEW w \in first .. first + i - 1 PROVE ~range_refused(Fields[cmd[w]])
            <3>1. w - first + 1 \in 1 .. count /\ w - first + 1 \in 1 .. Len(Words)
                  /\ first + (w - first + 1) - 1 = w
                  BY <1>2, <1>3, <1>4
            <3> QED BY <1>3, <1>4, <3>1 DEF Refused
      <2> QED BY <2>1, <2>2 DEF RangesTaken, first
<1>8. ASSUME NEW i \in RangesTaken
      PROVE  i - first + 1 \in 1 .. count /\ first + (i - first + 1) - 1 = i
      <2>1. i \in first .. Len(cmd) /\ \A w \in first .. i : ~range_refused(Fields[cmd[w]])
            BY DEF RangesTaken, first
      <2>2. ASSUME i - first + 1 > count PROVE FALSE
            <3>1. count # Len(Words) /\ count + 1 \in 1 .. Len(Words)
                  /\ first + (count + 1) - 1 \in first .. i
                  BY <1>2, <1>3, <1>4, <2>1, <2>2
            <3> QED BY <1>3, <1>4, <2>1, <3>1 DEF Refused
      <2> QED BY <1>2, <1>3, <1>4, <2>1, <2>2
<1> HIDE DEF parts
<1>9. Listed \in Seq(Int) /\ \E at : LaidOut(parts, count, Listed, at)
      BY <1>1, <1>6, FlattenLaysOut
<1>10. PICK at : LaidOut(parts, count, Listed, at) BY <1>9
<1> HIDE DEF Listed
<1> DEFINE N == Len(Listed)
           origin == [p \in 1 .. N |-> first + at[p][1] - 1]
<1>11. /\ \A p \in 1 .. N : at[p] \in (1 .. count) \X Nat
       /\ \A p \in 1 .. N : /\ at[p][2] \in 1 .. Len(parts[at[p][1]])
                            /\ Listed[p] = parts[at[p][1]][at[p][2]]
       /\ \A p, q \in 1 .. N :
              p < q => at[p][1] < at[q][1] \/ (at[p][1] = at[q][1] /\ at[p][2] < at[q][2])
       /\ \A m \in 1 .. count : \A i \in 1 .. Len(parts[m]) : \E p \in 1 .. N : at[p] = <<m, i>>
       BY <1>10 DEF LaidOut
<1> HIDE DEF N
<1>12. ASSUME NEW p \in 1 .. N
       PROVE  /\ at[p][1] \in 1 .. count /\ origin[p] = first + at[p][1] - 1
              /\ origin[p] \in RangesTaken
              /\ InSteps(parts[at[p][1]], Fields[cmd[origin[p]]])
       <2>1. at[p][1] \in 1 .. count BY <1>11
       <2> QED BY <1>6, <1>7, <2>1
<1>13. origin \in [1 .. N -> RangesTaken] BY <1>12
<1> HIDE DEF origin
<1>14. ASSUME NEW p \in 1 .. N PROVE <<origin[p], Listed[p]>> \in ToShow(TRUE)
       <2> DEFINE M == Meant(Fields[cmd[origin[p]]], TRUE)
       <2>1. \A i \in 1 .. Len(parts[at[p][1]]) : parts[at[p][1]][i] \in M BY <1>12 DEF InSteps
       <2>2. Listed[p] \in M BY <1>11, <2>1
       <2>3. {origin[p]} \X M \subseteq ToShow(TRUE) BY <1>12 DEF ToShow
       <2> HIDE DEF M
       <2> QED BY <2>2, <2>3
<1>15. ASSUME NEW p \in 1 .. N, NEW q \in 1 .. N, p < q
       PROVE  Before(<<origin[p], Listed[p]>>, <<origin[q], Listed[q]>>)
       <2>1. CASE at[p][1] < at[q][1]
             <3>1. /\ origin[p] = first + at[p][1] - 1 /\ origin[q] = first + at[q][1] - 1
                   /\ at[p][1] \in 1 .. count /\ at[q][1] \in 1 .. count
                   BY <1>12
             <3>2. first \in Int /\ at[p][1] \in Int /\ at[q][1] \in Int BY <1>2, <3>1
             <3>3. origin[p] < origin[q] BY <2>1, <3>1, <3>2
             <3> QED BY <3>3 DEF Before
       <2>2. CASE at[p][1] = at[q][1] /\ at[p][2] < at[q][2]
             <3>1. origin[p] = origin[q] BY <1>12, <2>2
             <3> DEFINE r == parts[at[p][1]]
                        fields == Fields[cmd[origin[p]]]
             <3>2. \A i, j \in 1 .. Len(r) : i < j => (r[j] - r[i]) * RangeStep(fields) > 0
                   BY <1>12 DEF InSteps
             <3>3. /\ at[p][2] \in 1 .. Len(r) /\ Listed[p] = r[at[p][2]]
                   /\ at[q][2] \in 1 .. Len(r) /\ Listed[q] = r[at[q][2]]
                   BY <1>11, <2>2
             <3> HIDE DEF r, fields
             <3>4. (Listed[q] - Listed[p]) * RangeStep(fields) > 0 BY <2>2, <3>2, <3>3
             <3> QED BY <3>1, <3>4 DEF Before, fields
       <2> QED BY <1>11, <1>15, <2>1, <2>2
<1>16. ASSUME NEW a \in ToShow(TRUE) PROVE \E p \in 1 .. N : a = <<origin[p], Listed[p]>>
       <2>1. PICK w \in RangesTaken : a \in {w} \X Meant(Fields[cmd[w]], TRUE) BY DEF ToShow
       <2>2. PICK i \in Meant(Fields[cmd[w]], TRUE) : a = <<w, i>>
             <3> DEFINE M == Meant(Fields[cmd[w]], TRUE)
             <3>1. a \in {w} \X M BY <2>1
             <3> HIDE DEF M
             <3>2. \E i \in M : a = <<w, i>> BY <3>1
             <3> QED BY <3>2 DEF M
       <2> DEFINE m == w - first + 1
       <2>3. m \in 1 .. count /\ first + m - 1 = w BY <1>8
       <2> HIDE DEF m
       <2>4. InSteps(parts[m], Fields[cmd[w]]) BY <1>6, <2>3
       <2>5. PICK n \in 1 .. Len(parts[m]) : parts[m][n] = i BY <2>4 DEF InSteps
       <2>6. PICK p \in 1 .. N : at[p] = <<m, n>> BY <1>11, <2>3, <2>5
       <2>7. Listed[p] = i /\ origin[p] = w BY <1>11, <1>12, <2>3, <2>5, <2>6
       <2> QED BY <2>2, <2>7
<1>17. Traced(origin) BY <1>13, <1>14, <1>15, <1>16 DEF Traced, N
<1> QED BY <1>9, <1>17

-----------------------------------------------------------------------------
(* What .mem shows.                                                        *)
(*                                                                         *)
(* Only Show shows something, and it has come to the k-th of the numbers   *)
(* asked for; before it nothing has been shown.                            *)

InvShown == shown # <<>> => pc \in Between \cup {"show", "over"} \/ context = "unwind"

\* What .wait says is not said of .mem.
InvWaits == pc \in {"poll", "verdict"} => cmd[1] = ".wait"

InvShow == pc = "show" /\ cmd # <<>> =>
               /\ k \in 0 .. Len(Listed) /\ Len(shown) = k
               /\ \A i \in 1 .. k : /\ shown[i][1] = Listed[i] /\ Listed[i] \in 0 .. size - 1
                                    /\ Listed[i] \in touched \/ shown[i][2] = before[Listed[i]]
               /\ \A j \in DOMAIN mem \ touched : mem[j] = before[j]

ShownInv == InvShown /\ InvWaits /\ InvShow /\ RangeShown

\* They are those of the words.
LEMMA ListedStays == cmd' = cmd => Listed' = Listed
<1> SUFFICES ASSUME cmd' = cmd PROVE Listed' = Listed
    OBVIOUS
<1>1. FirstRange' = FirstRange BY DEF FirstRange
<1> QED BY <1>1 DEF Listed, SelectInSeq

\* So are the numbers that are meant, and their order.
LEMMA WordsStay ==
  ASSUME cmd' = cmd
  PROVE  /\ RangesTaken' = RangesTaken
         /\ \A with_end : ToShow(with_end)' = ToShow(with_end)
         /\ \A a, b : Before(a, b)' = Before(a, b)
<1>1. FirstRange' = FirstRange BY DEF FirstRange
<1>2. RangesTaken' = RangesTaken BY <1>1 DEF RangesTaken, range_refused, RangeStep, RangeEnd, RangeBegin
<1>3. \A with_end : ToShow(with_end)' = ToShow(with_end)
      BY <1>2 DEF ToShow, Meant, RangeBegin, RangeEnd, RangeStep
<1>4. \A a, b : Before(a, b)' = Before(a, b) BY DEF Before, RangeStep
<1> QED BY <1>2, <1>3, <1>4

\* What was shown stays as it was asked for.
LEMMA AskedStays ==
  ASSUME UNCHANGED <<cmd, shown, verdict>>, DOMAIN mem' = DOMAIN mem,
         NEW with_end, NEW origin, AsAsked(with_end, origin)
  PROVE  AsAsked(with_end, origin)'
<1> DEFINE at == [p \in DOMAIN shown |-> <<origin[p], shown[p][1]>>]
<1>1. /\ \A p, q \in DOMAIN shown : p < q => Before(at[p], at[q])
      /\ Range(at) \subseteq ToShow(with_end)
      /\ \A a \in ToShow(with_end) \ Range(at) :
            verdict = "refused" /\ \A p \in DOMAIN shown : Before(at[p], a)
      /\ verdict = "refused" => \E a \in ToShow(with_end) : a[2] \notin DOMAIN mem
      BY DEF AsAsked
<1>2. at' = at OBVIOUS
<1>3. /\ ToShow(with_end)' = ToShow(with_end)
      /\ \A a, b : Before(a, b)' = Before(a, b)
      BY WordsStay
<1> HIDE DEF at
<1> QED BY <1>1, <1>2, <1>3 DEF AsAsked, at

\* The line is over and nothing comes of it but what the AFU writes.
LEMMA RangeStays ==
  ASSUME RangeShown, Did(".mem")' => Did(".mem"),
         UNCHANGED <<cmd, shown, verdict, before>>, DOMAIN mem' = DOMAIN mem,
         touched \subseteq touched', \A j \in DOMAIN mem \ touched' : mem'[j] = mem[j]
  PROVE  RangeShown'
<1> SUFFICES ASSUME Did(".mem"), verdict # "none", Did(".mem")' PROVE RangeShown'
    BY DEF RangeShown
<1>1. PICK with_end \in BOOLEAN, origin \in [DOMAIN shown -> RangesTaken] :
          AsAsked(with_end, origin)
      BY DEF RangeShown
<1>2. AsAsked(with_end, origin)' BY <1>1, AskedStays
<1>3. DOMAIN shown' = DOMAIN shown /\ RangesTaken' = RangesTaken BY WordsStay
<1>4. \E w \in BOOLEAN, o \in [DOMAIN shown' -> RangesTaken'] : AsAsked(w, o)'
      BY <1>1, <1>2, <1>3
<1>5. \A p \in DOMAIN shown' : LET i == shown'[p][1]
                              IN  i \in DOMAIN mem' /\ (i \in touched' \/ shown'[p][2] = before'[i])
      BY DEF RangeShown
<1>6. \A j \in DOMAIN mem' \ touched' : mem'[j] = before'[j] BY DEF RangeShown
<1> QED BY <1>4, <1>5, <1>6 DEF RangeShown

\* Nothing is shown at first.
LEMMA InitShownInv == Init => ShownInv
BY DEF Init, ShownInv, InvShown, InvWaits, InvShow, RangeShown, Did, AtRest

\* A step after which nothing is shown.
LEMMA NothingShown ==
    ASSUME shown' = <<>>, pc' # "show",
           pc' \notin Between \/ verdict' = "none" \/ cmd'[1] # ".mem",
           pc' \notin {"poll", "verdict"} \/ cmd'[1] = ".wait"
    PROVE  ShownInv'
<1>1. RangeShown' BY DEF RangeShown, Did, AtRest, Between
<1> QED BY <1>1 DEF ShownInv, InvShown, InvWaits, InvShow

\* A step that has nothing to do with .mem.
LEMMA ShownElsewhere ==
    ASSUME ShownInv, UNCHANGED shown, pc \notin Between \cup {"show", "over"},
           context = "unwind" => context' = "unwind",
           pc' # "show", pc' \notin {"poll", "verdict"} \/ cmd'[1] = ".wait",
           pc' \in Between => context # "unwind" /\ (verdict' = "none" \/ cmd'[1] # ".mem")
    PROVE  ShownInv'
<1>1. CASE context = "unwind"
      <2>1. pc' \notin Between /\ context' = "unwind" BY <1>1
      <2> QED BY <2>1 DEF ShownInv, InvShown, InvWaits, InvShow, RangeShown, Did, AtRest, Between
<1>2. CASE context # "unwind"
      <2>1. shown' = <<>> BY <1>2 DEF ShownInv, InvShown
      <2> QED BY <2>1, NothingShown
<1> QED BY <1>1, <1>2

\* mmem::resize and ~mmem.
LEMMA HeapShown == IInv /\ ShownInv /\ Heap => ShownInv'
<1> SUFFICES ASSUME IInv, ShownInv, Heap PROVE ShownInv'
    OBVIOUS
<1> USE DEF GoTo, Terminate, Unwind, OnlyAfu, Write, command
<1>1. UNCHANGED shown /\ pc \in Resizes
      BY DEF Heap, Dealloc, Free, Alloc, WriteBase, WriteSize, SetSize, Resizes
<1>2. pc' \in Resizes \cup {"begin", "clear", "over"}
      BY DEF Heap, Dealloc, Free, Alloc, BadAlloc, WriteBase, WriteSize, SetSize, Resizes
<1>3. context = "unwind" => context' = "unwind"
      BY DEF Heap, Dealloc, Free, Alloc, BadAlloc, WriteBase, WriteSize, SetSize
<1> QED BY <1>1, <1>2, <1>3, ShownElsewhere DEF Resizes, Between

\* A line is taken: nothing is shown yet.
LEMMA TakeShown ==
    ASSUME IInv, ExactInv, NEW line, Take(line)
    PROVE  ShownInv'
<1>1. pc' \in {"over", "execute", from} /\ shown' = <<>> /\ verdict' = "none"
      BY DEF Take, GoTo, Terminate, Done
<1> QED BY <1>1, NothingShown DEF IInv, InvTypes

\* The start and the loops.
LEMMA RunShown == IInv /\ ExactInv /\ ShownInv /\ Run => ShownInv'
<1> SUFFICES ASSUME IInv, ExactInv, ShownInv, Run PROVE ShownInv'
    OBVIOUS
<1> USE DEF GoTo, Unwind, heap, command, history
<1>0. /\ from \in Between /\ InvBusy
      /\ context = "unwind" => pc \in {"dealloc", "free", "over"}
      BY DEF IInv, InvTypes, InvSize, Between, ExactInv
<1>1. CASE Start
      <2>1. /\ pc = "start" /\ pc' = "dealloc" /\ UNCHANGED shown
            BY <1>1 DEF Start, Resize
      <2> QED BY <1>0, <2>1, ShownElsewhere DEF Between
<1>2. CASE Begin
      <2>1. /\ pc = "begin" /\ pc' \in Between /\ UNCHANGED <<shown, verdict>>
            BY <1>0, <1>2 DEF Begin, Done
      <2>2. verdict = "none" /\ context # "unwind" BY <1>0, <2>1 DEF InvBusy, Between
      <2> QED BY <2>1, <2>2, ShownElsewhere DEF Between
<1>3. CASE ReadScript BY <1>3, TakeShown DEF ReadScript
<1>4. CASE EndScript
      <2>1. /\ pc = "script" /\ pc' = "prompt"
            /\ UNCHANGED <<cmd, shown, mem, verdict, before, touched>>
            BY <1>4 DEF EndScript
      <2>2. Did(".mem")' => Did(".mem") BY <2>1 DEF Did, AtRest
      <2>3. RangeShown' BY <2>1, <2>2, RangeStays DEF ShownInv
      <2> QED BY <2>1, <2>3 DEF ShownInv, InvShown, InvWaits, InvShow, Between
<1>5. CASE Prompt BY <1>5, TakeShown DEF Prompt
<1>6. CASE Leave
      <2>1. pc' = "dealloc" /\ context' = "unwind" BY <1>6 DEF Leave
      <2> QED BY <2>1 DEF ShownInv, InvShown, InvWaits, InvShow, RangeShown, Did, AtRest
<1> QED BY <1>1, <1>2, <1>3, <1>4, <1>5, <1>6 DEF Run

\* The directives: .mem begins with the first number.
LEMMA DirectiveShown ==
    IInv /\ WaitInv /\ TypeInv /\ ShownInv /\ execute_runtime_directive => ShownInv'
<1> SUFFICES ASSUME IInv, WaitInv, TypeInv, ShownInv, execute_runtime_directive PROVE ShownInv'
    OBVIOUS
<1> USE DEF GoTo, Goes, Done, Is, Terminate, Unwind, command
<1>0. from \in Between BY DEF IInv, InvTypes, Between
<1>1. pc = "execute" /\ UNCHANGED <<cmd, k, shown, verdict>>
      <2>1. CASE Message \/ exit \/ reset \/ sr_r \/ sr_s
            BY <2>1 DEF Message, exit, reset, sr_r, sr_s
      <2>2. CASE sr \/ mem_ \/ wait \/ resize
            BY <2>2 DEF sr, mem_, wait, resize
      <2>3. CASE go_ BY <2>3 DEF go_, OnlyAfu
      <2> QED BY <2>1, <2>2, <2>3 DEF execute_runtime_directive
<1>2. k = 0 /\ verdict = "none" /\ context # "unwind"
      BY <1>1 DEF WaitInv, InvFresh, IInv, InvSize
<1>3. shown = <<>> BY <1>1, <1>2 DEF ShownInv, InvShown, Between
<1>4. CASE mem_
      <2>1. pc' = "show" /\ UNCHANGED <<mem, before, touched>> BY <1>4 DEF mem_, heap, history
      <2>2. cmd # <<>> => Len(Listed') \in Nat
            <3>1. Listed' = Listed BY <1>1, ListedStays
            <3> QED BY <3>1, ListedIsMeant DEF TypeInv, InvWords
      <2>3. \A j \in DOMAIN mem' \ touched' : mem'[j] = before'[j]
            BY <1>1, <2>1 DEF WaitInv, InvKept
      <2>4. InvShow' BY <1>1, <1>2, <1>3, <2>2, <2>3 DEF InvShow
      <2> QED BY <2>1, <2>4 DEF ShownInv, InvShown, InvWaits, RangeShown, Did, AtRest
<1>5. CASE ~mem_
      <2>1. pc' # "show" /\ (pc' \notin {"poll", "verdict"} \/ cmd[1] = ".wait")
            <3>1. CASE Message \/ exit \/ reset \/ sr_r \/ sr_s
                  BY <1>0, <3>1 DEF Message, exit, reset, AfterReset, sr_r, sr_s, Between
            <3>2. CASE sr \/ wait \/ resize
                  BY <1>0, <3>2 DEF sr, wait, resize, Resize, Between
            <3>3. CASE go_ BY <1>0, <3>3 DEF go_, Write, Between
            <3> QED BY <1>5, <3>1, <3>2, <3>3 DEF execute_runtime_directive
      <2> QED BY <1>1, <1>2, <1>3, <2>1, NothingShown
<1> QED BY <1>4, <1>5

\* One number more, or the end, or one that is not in the memory.
LEMMA ShowStep == IInv /\ TypeInv /\ ExactInv /\ ShownInv /\ Show => ShownInv'
<1> SUFFICES ASSUME IInv, TypeInv, ExactInv, ShownInv, Show PROVE ShownInv'
    OBVIOUS
<1> USE DEF GoTo, Done, heap
<1>0. /\ from \in Between /\ pc = "show"
      /\ size \in Nat \ {0} /\ DOMAIN mem = 0 .. size - 1
      /\ cmd \in Seq(STRING) /\ shown \in Seq(Nat \X Byte)
      BY DEF IInv, InvTypes, InvMemory, Told, InUse, Between, Show, TypeInv, InvWords, InvNumbers
<1>1. UNCHANGED <<context, cmd, size, mem, before, touched>> /\ Listed' = Listed
      BY ListedStays DEF Show, history
<1>2. context # "unwind" BY <1>0 DEF IInv, InvSize
<1>3. CASE cmd = <<>>
      <2>1. pc' \in Between \cup {"show"} BY <1>0 DEF Show
      <2> QED BY <1>1, <1>3, <2>1
              DEF ShownInv, InvShown, InvWaits, InvShow, RangeShown, Did, Between
<1>4. CASE cmd # <<>>
      <2>1. Listed \in Seq(Int) /\ \E origin : Traced(origin) BY <1>0, <1>4, ListedIsMeant
      <2>2. /\ k \in 0 .. Len(Listed) /\ Len(shown) = k
            /\ \A i \in 1 .. k : /\ shown[i][1] = Listed[i] /\ Listed[i] \in 0 .. size - 1
                                 /\ Listed[i] \in touched \/ shown[i][2] = before[Listed[i]]
            /\ \A j \in DOMAIN mem \ touched : mem[j] = before[j]
            BY <1>0, <1>4 DEF ShownInv, InvShow
      <2> HIDE DEF Listed
      <2>3. CASE k < Len(Listed) /\ Listed[k + 1] \in 0 .. size - 1
            <3> DEFINE one == <<Listed[k + 1], mem[Listed[k + 1]]>>
            <3>1. pc' = "show" /\ shown' = Append(shown, one) /\ k' = k + 1
                  BY <2>3 DEF Show
            <3>2. one[1] = Listed[k + 1] /\ one[2] = mem[Listed[k + 1]] OBVIOUS
            <3> HIDE DEF one
            <3>3. /\ k' \in 0 .. Len(Listed) /\ Len(shown') = k'
                  /\ \A i \in 1 .. k : shown'[i] = shown[i]
                  /\ shown'[k + 1] = one
                  BY <1>0, <2>1, <2>2, <2>3, <3>1
            <3>4. \A i \in 1 .. k' : i \in 1 .. k \/ i = k + 1 BY <2>2, <3>1
            <3>5. Listed[k + 1] \in touched \/ one[2] = before[Listed[k + 1]]
                  BY <1>0, <2>2, <2>3, <3>2
            <3>6. ASSUME NEW i \in 1 .. k'
                  PROVE  /\ shown'[i][1] = Listed[i] /\ Listed[i] \in 0 .. size - 1
                         /\ Listed[i] \in touched \/ shown'[i][2] = before[Listed[i]]
                  <4>1. CASE i \in 1 .. k BY <2>2, <3>3, <4>1
                  <4>2. CASE i = k + 1 BY <2>3, <3>2, <3>3, <3>5, <4>2
                  <4> QED BY <3>4, <4>1, <4>2
            <3>7. InvShow' BY <1>1, <2>2, <3>3, <3>6 DEF InvShow
            <3> QED BY <3>1, <3>7 DEF ShownInv, InvShown, InvWaits, RangeShown, Did, AtRest
      <2>4. CASE ~(k < Len(Listed) /\ Listed[k + 1] \in 0 .. size - 1)
            <3>1. /\ pc' \in Between /\ UNCHANGED shown
                  /\ verdict' = IF k < Len(Listed) THEN "refused" ELSE "done"
                  BY <1>0, <2>4 DEF Show
            <3>2. DOMAIN shown = 1 .. k BY <1>0, <2>2
            <3>3. PICK origin : Traced(origin) BY <2>1
            <3>4. /\ \A p \in 1 .. Len(Listed) : origin[p] \in RangesTaken
                  /\ \A p \in 1 .. Len(Listed) : <<origin[p], Listed[p]>> \in ToShow(TRUE)
                  /\ \A p, q \in 1 .. Len(Listed) :
                         p < q => Before(<<origin[p], Listed[p]>>, <<origin[q], Listed[q]>>)
                  /\ \A a \in ToShow(TRUE) :
                         \E p \in 1 .. Len(Listed) : a = <<origin[p], Listed[p]>>
                  BY <3>3 DEF Traced
            <3>a. PICK o : o = [p \in 1 .. k |-> origin[p]] OBVIOUS
            <3>b. PICK at : at = [p \in 1 .. k |-> <<o[p], shown[p][1]>>] OBVIOUS
            <3>5. /\ o \in [1 .. k -> RangesTaken] /\ DOMAIN at = 1 .. k
                  /\ \A p \in 1 .. k : p \in 1 .. Len(Listed) /\ at[p] = <<origin[p], Listed[p]>>
                  BY <2>1, <2>2, <3>4, <3>a, <3>b
            <3>6. at = [p \in DOMAIN shown' |-> <<o[p], shown'[p][1]>>] BY <3>1, <3>2, <3>b
            <3>7. \A p, q \in 1 .. k : p < q => Before(at[p], at[q]) BY <3>4, <3>5
            <3>8. Range(at) \subseteq ToShow(TRUE) BY <3>4, <3>5 DEF Range
            <3>9. ASSUME NEW a \in ToShow(TRUE) \ Range(at)
                  PROVE  k < Len(Listed) /\ \A p \in 1 .. k : Before(at[p], a)
                  <4>1. PICK q \in 1 .. Len(Listed) : a = <<origin[q], Listed[q]>> BY <3>4
                  <4>2. q \notin 1 .. k BY <3>5, <4>1 DEF Range
                  <4>3. k < q /\ k < Len(Listed) BY <2>1, <2>2, <4>2
                  <4>4. ASSUME NEW p \in 1 .. k PROVE Before(at[p], a)
                        <5>1. p < q /\ p \in 1 .. Len(Listed) BY <2>1, <2>2, <4>3
                        <5> QED BY <3>4, <3>5, <4>1, <5>1
                  <4> QED BY <4>3, <4>4
            <3>10. ASSUME k < Len(Listed)
                   PROVE  \E a \in ToShow(TRUE) : a[2] \notin DOMAIN mem
                   <4>1. k + 1 \in 1 .. Len(Listed) BY <2>1, <2>2, <3>10
                   <4>2. <<origin[k + 1], Listed[k + 1]>> \in ToShow(TRUE) BY <3>4, <4>1
                   <4> QED BY <1>0, <2>4, <3>10, <4>2
            <3>11. AsAsked(TRUE, o)'
                   <4>1. /\ ToShow(TRUE)' = ToShow(TRUE)
                         /\ \A a, b : Before(a, b)' = Before(a, b)
                         BY <1>1, WordsStay
                   <4>2. /\ \A p, q \in DOMAIN shown' : p < q => Before(at[p], at[q])'
                         /\ Range(at) \subseteq ToShow(TRUE)'
                         /\ \A a \in ToShow(TRUE)' \ Range(at) :
                               verdict' = "refused" /\ \A p \in DOMAIN shown' : Before(at[p], a)'
                         /\ verdict' = "refused" =>
                               \E a \in ToShow(TRUE)' : a[2] \notin DOMAIN mem'
                         BY <1>1, <3>1, <3>2, <3>7, <3>8, <3>9, <3>10, <4>1
                   <4> QED BY <3>6, <4>2 DEF AsAsked
            <3>12. o \in [DOMAIN shown' -> RangesTaken'] BY <1>1, <3>1, <3>2, <3>5, WordsStay
            <3>13. \E with_end \in BOOLEAN, p \in [DOMAIN shown' -> RangesTaken'] :
                       AsAsked(with_end, p)'
                   BY <3>11, <3>12
            <3>14. \A p \in DOMAIN shown' :
                       LET i == shown'[p][1]
                       IN  i \in DOMAIN mem' /\ (i \in touched' \/ shown'[p][2] = before'[i])
                   BY <1>0, <1>1, <2>2, <3>1, <3>2
            <3>15. \A j \in DOMAIN mem' \ touched' : mem'[j] = before'[j] BY <1>1, <2>2
            <3>16. RangeShown' BY <3>13, <3>14, <3>15 DEF RangeShown
            <3> QED BY <3>1, <3>16 DEF ShownInv, InvShown, InvWaits, InvShow, Between
      <2> QED BY <2>3, <2>4
<1> QED BY <1>3, <1>4

\* The loops of the directives.
LEMMA WorkShown == IInv /\ TypeInv /\ ExactInv /\ ShownInv /\ Work => ShownInv'
<1> SUFFICES ASSUME IInv, TypeInv, ExactInv, ShownInv, Work PROVE ShownInv'
    OBVIOUS
<1> USE DEF GoTo, Done, Terminate, Unwind, command
<1>0. from \in Between /\ InvBusy /\ InvCommand BY DEF IInv, InvTypes, Between, ExactInv
<1>1. CASE ResetAfu \/ ResetLength \/ ResetBase
      <2>1. /\ pc \in Resets /\ UNCHANGED <<shown, cmd>>
            BY <1>1 DEF ResetAfu, ResetLength, ResetBase, OnlyAfu, Resets
      <2>2. pc' \notin {"show", "poll", "verdict"} /\ context # "unwind"
            BY <1>0, <1>1, <2>1 DEF ResetAfu, ResetLength, ResetBase, Write, AfterReset, Between,
                                    IInv, InvSize, Resets
      <2>3. cmd[1] = ".rst" BY <1>0, <2>1 DEF InvCommand
      <2> QED BY <2>1, <2>2, <2>3, ShownElsewhere DEF Resets, Between
<1>2. CASE Clear \/ restore \/ save
      <2>1. pc \in {"clear", "restore", "save"} /\ UNCHANGED <<shown, cmd, context>>
            BY <1>2 DEF Clear, restore, save
      <2>2. pc' \notin {"show", "poll", "verdict"} /\ context # "unwind"
            BY <1>0, <1>2, <2>1 DEF Clear, restore, save, Between, IInv, InvSize
      <2>3. cmd[1] \in {".rst", ".resize", ".sr"} BY <1>0, <2>1 DEF InvCommand
      <2> QED BY <2>1, <2>2, <2>3, ShownElsewhere DEF Between
<1>3. CASE Poll \/ Verdict
      <2>1. /\ pc \in {"poll", "verdict"} /\ UNCHANGED <<shown, context, cmd>>
            /\ pc' \in {"poll", "verdict", from}
            BY <1>3 DEF Poll, Verdict
      <2>2. cmd[1] = ".wait" /\ context # "unwind"
            BY <2>1 DEF ShownInv, InvWaits, IInv, InvSize
      <2> QED BY <1>0, <2>1, <2>2, ShownElsewhere DEF Between
<1>4. CASE Show BY <1>4, ShowStep
<1> QED BY <1>1, <1>2, <1>3, <1>4 DEF Work

\* The AFU changes no size and no words, and what it touches is left out.
LEMMA OutsideShown == ShownInv /\ (AfuWrite \/ break_machine \/ UNCHANGED vars) => ShownInv'
<1> SUFFICES ASSUME ShownInv, AfuWrite \/ break_machine \/ UNCHANGED vars PROVE ShownInv'
    OBVIOUS
<1>1. UNCHANGED <<pc, context, cmd, k, shown, verdict, size, before>>
      BY DEF AfuWrite, break_machine, vars, command, heap, history
<1>2. /\ DOMAIN mem' = DOMAIN mem /\ touched \subseteq touched'
      /\ \A j \in DOMAIN mem \ touched' : mem'[j] = mem[j]
      <2>1. CASE AfuWrite BY <2>1 DEF AfuWrite
      <2>2. CASE break_machine \/ UNCHANGED vars BY <2>2 DEF break_machine, vars, heap, history
      <2> QED BY <2>1, <2>2
<1>3. InvShown' /\ InvWaits' BY <1>1 DEF ShownInv, InvShown, InvWaits
<1>4. InvShow'
      <2>1. Listed' = Listed BY <1>1, ListedStays
      <2> QED BY <1>1, <1>2, <2>1 DEF ShownInv, InvShow
<1>5. RangeShown'
      <2>1. Did(".mem")' => Did(".mem") BY <1>1 DEF Did, AtRest
      <2> QED BY <1>1, <1>2, <2>1, RangeStays DEF ShownInv
<1> QED BY <1>3, <1>4, <1>5 DEF ShownInv

\* Every step keeps it.
LEMMA NextShownInv ==
    IInv /\ WaitInv /\ ExactInv /\ TypeInv /\ ShownInv /\ [Next]_vars => ShownInv'
BY HeapShown, RunShown, DirectiveShown, WorkShown, OutsideShown DEF Next, LoaderStep

\* .sr -r leaves the bytes of the file in the memory and .sr -s those of the memory in
\* the file, round the end of the memory, and .rst and .resize leave zeros, whatever the
\* sizes and the files are; only where the AFU wrote meanwhile nothing is said, nor of
\* the byte behind the file and of the order of the bytes under -bige.  .mem shows the
\* bytes at the numbers its ranges mean, range after range and each as its step leads,
\* up to the first range that is refused or the first number outside of the memory.
\* (mmem::restore, mmem::save, mmem::reset, range, mem)
THEOREM DirectivesDoAlways == Spec => []DirectivesDo
<1>1. ExactInv /\ ShownInv => DirectivesDo BY ExactIsEnough DEF ShownInv, DirectivesDo
<1> QED BY <1>1, InitIInv, NextIInv, InitWaitInv, NextWaitInv, InitExactInv, NextExactInv,
        InitTypeInv, NextTypeInv, InitShownInv, NextShownInv, PTL DEF Spec
=============================================================================
