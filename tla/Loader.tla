-------------------------------- MODULE Loader --------------------------------
(***************************************************************************)
(* The loader "cload": Shell_Cload::Run (shell_cload.cpp) with its         *)
(* directives (runtime_call.cpp), the memory it shares with the AFU        *)
(* (mmem.cpp) and the driver wrapper (AFU.cpp).                            *)
(*                                                                         *)
(* The loader takes a step for each call of the driver and each byte it    *)
(* moves, and between two steps the AFU may write to the memory and the    *)
(* user may press ^C.  A call of the driver may fail, and an allocation    *)
(* fails in the ways the code tells apart.  A step that throws what nobody *)
(* catches ends the process (terminated); fpga_result is caught in main,   *)
(* after the destructors have run (unwind).                                *)
(*                                                                         *)
(* Lines are cut into words already: [ok, dot, words], with ok whether     *)
(* chop_string takes it and dot whether it starts with a dot.              *)
(***************************************************************************)
EXTENDS ToolEnv

CONSTANTS CommandLines, Scripts, \* what the program can be started with
          Lines,                 \* what the user may type
          Number,                \* the value of a word that is a number
          Fields,                \* the numbers of a word that is a range
          Byte, Buffers, Null,   \* the bytes; the addresses of buffers; nullptr
          InitialSize, RecoverySize, MinBits, MaxBits,  \* 64 MB, 16384, 16 and 32
          DefaultTimeout,        \* 1000
          UInt64,                \* 2^64
          InitialFiles,          \* the files and what they hold
          Openable, MaxFile,     \* the files that open for writing; the room on the disk
          MaxLines, MaxFaults, MaxInterrupts, MaxAfuWrites  \* bounds of the model

\* What a line may be.
LineRecords == [ok : BOOLEAN, dot : BOOLEAN, words : Seq(STRING)]

ASSUME LoaderAssumption == /\ Null \notin Buffers
                           /\ {InitialSize, RecoverySize} \subseteq Nat \ {0}
                           /\ {MinBits, MaxBits, DefaultTimeout} \subseteq Nat
                           /\ Byte \subseteq Nat /\ 0 \in Byte
                           /\ \A bits \in MinBits .. MaxBits : 2 ^ bits \in Nat \ {0}
                           /\ UInt64 \in Nat \ {0}
                           /\ \A w \in DOMAIN Number : Number[w] \in Int
                           /\ \A f \in DOMAIN InitialFiles : InitialFiles[f] \in Seq(Byte)
                           /\ MaxFile \in Nat
                           /\ Lines \subseteq LineRecords
                           /\ \A s \in DOMAIN Scripts : Scripts[s] \in Seq(LineRecords)
                           /\ CommandLines \subseteq Seq(STRING) /\ ".help" \in STRING

VARIABLES pc,       \* the step to come
          context,  \* why memory is (de)allocated
          mode,     \* shEnv's mode
          script,   \* the lines of the script still to be read
          from,     \* where the current line came from
          cmd,      \* the words of the directive that runs
          k,        \* the counter of its loop
          newsize,  \* the argument of mmem::resize
          data, size, mem,        \* mmem: the pointer, the size, the bytes there
          buffers,                \* AFU::buffer_map_
          base, length, go,       \* the registers of the AFU, and whether it was started
          files,    \* the files
          shown,    \* the indices .mem has shown, with their bytes
          verdict,  \* what the directive has come to
          result,   \* how the program ended
          lines_read, faults, interrupts, afu_writes,   \* for the bounds
          before, touched   \* history: the memory when the directive began, and
                            \* where the AFU has written since

afu == <<base, length, go>>
heap == <<data, size, mem, buffers>>
shell == <<mode, script, from>>
counters == <<lines_read, faults, interrupts, afu_writes>>
history == <<before, touched>>
command == <<cmd, k, newsize, shown, verdict>>
vars == <<pc, context, shell, command, heap, afu, files, result, counters, history>>

-----------------------------------------------------------------------------
(* Going on.                                                               *)

GoTo(place) == pc' = place /\ UNCHANGED <<context, result>>

\* What nobody catches, and fpga_result: ~mmem gives the memory back.
LeaveAtOnce == pc' = "over" /\ result' = "returned" /\ UNCHANGED context  \* mutant of Unwind
Terminate == pc' = "over" /\ result' = "terminated" /\ UNCHANGED context
Unwind == pc' = "dealloc" /\ context' = "unwind" /\ UNCHANGED result

\* The next line.
Done == GoTo(from)

\* AFU::write: it goes through, and the loader goes on, or it throws.  In a
\* destructor that is the end.
Write(registers, place) ==
    \/ registers /\ GoTo(place) /\ UNCHANGED faults
    \/ /\ faults < MaxFaults
       /\ faults' = faults + 1
       /\ IF context = "unwind" THEN Terminate ELSE Unwind
       /\ UNCHANGED afu

SetBase(address) == base' = address /\ UNCHANGED <<length, go>>
SetLength == length' = 1 /\ UNCHANGED <<base, go>>

OnlyAfu == UNCHANGED <<shell, command, heap, files, lines_read, interrupts, afu_writes,
                       history>>
-----------------------------------------------------------------------------
(* mmem::resize, and ~mmem.                                                *)

\* Mutant of Dealloc: the memory is freed without a word to the AFU.
DeallocInSilence ==
    /\ pc = "dealloc"
    /\ IF data # Null THEN GoTo("free")
       ELSE IF context = "unwind" THEN pc' = "over" /\ result' = "returned" /\ UNCHANGED context
       ELSE GoTo("alloc")
    /\ UNCHANGED <<afu, faults>>
    /\ OnlyAfu

\* dealloc: the AFU is told first that there is no memory.
Dealloc == /\ pc = "dealloc"
           /\ \/ data # Null /\ Write(SetBase(Null), "free")
              \/ /\ data = Null
                 /\ IF context = "unwind"
                    THEN pc' = "over" /\ result' = "returned" /\ UNCHANGED context
                    ELSE GoTo("alloc")
                 /\ UNCHANGED <<afu, faults>>
           /\ OnlyAfu

\* AFU::free throws a runtime_error for a pointer it does not know.
Free == /\ pc = "free"
        /\ \/ /\ data \in buffers
              /\ buffers' = buffers \ {data}
              /\ IF context = "unwind"
                 THEN pc' = "over" /\ result' = "returned" /\ UNCHANGED context
                 ELSE GoTo("alloc")
           \/ data \notin buffers /\ Terminate /\ UNCHANGED buffers
        /\ UNCHANGED <<shell, command, data, size, mem, afu, files, counters, history>>

\* std::bad_alloc: .resize tries again, with less, once.
BadAlloc == IF context = "resize"
            THEN /\ pc' = "dealloc" /\ context' = "recovery"
                 /\ newsize' = RecoverySize
                 /\ UNCHANGED result
            ELSE Terminate /\ UNCHANGED newsize

\* alloc: a buffer (perhaps where the last one was) with anything in it, a null
\* pointer, a bad_alloc on the way, or an exception of the driver's library.
Alloc == /\ pc = "alloc"
         /\ \/ \E b \in Buffers \ buffers, byte \in Byte :
                  /\ data' = b
                  /\ buffers' = buffers \cup {b}
                  /\ mem' = [i \in 0 .. newsize - 1 |-> byte]
                  /\ GoTo("write_base")
                  /\ UNCHANGED <<newsize, faults>>
            \/ /\ faults < MaxFaults
               /\ faults' = faults + 1
               /\ \/ data' = Null /\ BadAlloc
                  \/ BadAlloc /\ UNCHANGED data
                  \/ Terminate /\ UNCHANGED <<data, newsize>>
               /\ UNCHANGED <<buffers, mem>>
         /\ UNCHANGED <<shell, cmd, k, shown, verdict, size, afu, files, lines_read,
                        interrupts, afu_writes, history>>

WriteBase == pc = "write_base" /\ Write(SetBase(data), "write_size") /\ OnlyAfu

WriteSize == pc = "write_size" /\ Write(SetLength, "set_size") /\ OnlyAfu

\* Only now the size changes.  .resize clears the memory behind it.
SetSize == /\ pc = "set_size"
           /\ size' = newsize
           /\ IF context = "initial" THEN GoTo("begin") ELSE GoTo("clear")
           /\ k' = 0
           /\ UNCHANGED <<shell, cmd, newsize, shown, verdict, data, mem, buffers, afu,
                          files, counters, history>>

Resize(bytes, why) == /\ pc' = "dealloc" /\ context' = why /\ UNCHANGED result
                      /\ newsize' = bytes

-----------------------------------------------------------------------------
(* The start of the program and its loops.                                 *)

\* -i without a file that opens ends it.  The constructor has no memory yet.
Start == /\ pc = "start"
         /\ \E arguments \in CommandLines :
               LET env == characterize_Env(arguments)
                   given == env.has_Option_AsmInput
                   opens == env.asmInputs # <<>> /\ env.asmInputs[1] \in DOMAIN Scripts
               IN  /\ mode' = env.mode
                   /\ script' = IF given /\ opens THEN Scripts[env.asmInputs[1]] ELSE <<>>
                   /\ from' = IF given /\ opens THEN "script" ELSE "prompt"
                   /\ IF given /\ ~opens THEN Unwind /\ UNCHANGED newsize
                                         ELSE Resize(InitialSize, "initial")
         /\ UNCHANGED <<cmd, k, shown, verdict, heap, afu, files, counters, history>>

Begin == /\ pc = "begin" /\ Done
         /\ UNCHANGED <<shell, command, heap, afu, files, counters, history>>

\* A line is looked at: one that chop_string refuses ends the process, as the
\* call is outside of the try block; one without a dot asks for help.
Take(line) ==
    /\ \/ ~line.ok /\ Terminate /\ UNCHANGED cmd
       \/ line.ok /\ line.dot /\ cmd' = line.words /\ GoTo("execute")
       \/ line.ok /\ ~line.dot /\ line.words # <<>> /\ cmd' = <<".help">> /\ GoTo("execute")
       \/ line.ok /\ ~line.dot /\ line.words = <<>> /\ Done /\ UNCHANGED cmd
    /\ lines_read' = lines_read + 1
    /\ k' = 0 /\ shown' = <<>> /\ verdict' = "none"
    /\ before' = mem /\ touched' = {}

\* The script goes on whatever the mode is.
ReadScript == /\ pc = "script" /\ script # <<>>
              /\ Take(Head(script))
              /\ script' = Tail(script)
              /\ UNCHANGED <<mode, from, newsize, heap, afu, files, faults, interrupts,
                             afu_writes>>

EndScript == /\ pc = "script" /\ script = <<>>
             /\ mode' = IF mode = "SHUTDOWN" THEN mode ELSE "INTERACTIVE"
             /\ from' = "prompt"
             /\ GoTo("prompt")
             /\ UNCHANGED <<script, command, heap, afu, files, counters, history>>

\* In the mode MACHINE the loop spins without a prompt.  At the end of its input
\* the prompt waits for ever: no line comes.
Prompt == /\ pc = "prompt" /\ mode = "INTERACTIVE"
          /\ lines_read < MaxLines
          /\ \E line \in Lines : Take(line)
          /\ UNCHANGED <<shell, newsize, heap, afu, files, faults, interrupts, afu_writes>>

Leave == /\ pc = "prompt" /\ mode = "SHUTDOWN"
         /\ Unwind
         /\ UNCHANGED <<shell, command, heap, afu, files, counters, history>>

-----------------------------------------------------------------------------
(* The directives: the checks of the words, and then the work.             *)

Is(directive) == pc = "execute" /\ cmd[1] = directive
IsNumber(i) == cmd[i] \in DOMAIN Number

\* A directive that changes nothing but what it does next.
Goes(place) == GoTo(place) /\ UNCHANGED <<shell, command, heap, afu, files, counters, history>>

\* .help, and a directive that does not exist, only say so.
Message == /\ pc = "execute"
           /\ cmd[1] \notin {".exit", ".run", ".rst", ".sr", ".mem", ".wait", ".resize"}
           /\ Goes(from)

exit == /\ Is(".exit")
        /\ mode' = "SHUTDOWN"
        /\ Done
        /\ UNCHANGED <<script, from, command, heap, afu, files, counters, history>>

\* .run: enableMemCntrl
go_ == Is(".run") /\ Write(go' = 1 /\ UNCHANGED <<base, length>>, from) /\ OnlyAfu

-----------------------------------------------------------------------------
(* .rst                                                                    *)

resets_afu == Len(cmd) = 1 \/ cmd[2] = "-afu"
resets_host == Len(cmd) = 1 \/ cmd[2] = "-host"
AfterReset == IF resets_host THEN "clear" ELSE from

reset == /\ Is(".rst")
         /\ Goes(IF resets_afu THEN "reset_afu" ELSE AfterReset)

\* AFU_Reset: the AFU forgets its registers, and is told them again.  What the
\* library throws is caught in main only if it is no_driver.
ResetAfu == /\ pc = "reset_afu"
            /\ \/ base' = Null /\ length' = 0 /\ go' = 0
                  /\ GoTo("reset_length")
                  /\ UNCHANGED faults
               \/ /\ faults < MaxFaults
                  /\ faults' = faults + 1
                  /\ Terminate \/ Unwind
                  /\ UNCHANGED afu
            /\ OnlyAfu

ResetLength == pc = "reset_length" /\ Write(SetLength, "reset_base") /\ OnlyAfu
ResetBase == pc = "reset_base" /\ Write(SetBase(data), AfterReset) /\ OnlyAfu

\* mmem::reset, for .resize as well.
AllButLast == k < size - 1  \* mutant of MoreToClear
MoreToClear == k < size
Clear == /\ pc = "clear"
         /\ IF MoreToClear
            THEN /\ mem' = [mem EXCEPT ![k] = 0]
                 /\ k' = k + 1
                 /\ GoTo("clear")
                 /\ UNCHANGED verdict
            ELSE Done /\ verdict' = "done" /\ UNCHANGED <<mem, k>>
         /\ UNCHANGED <<shell, cmd, newsize, shown, data, size, buffers, afu, files,
                        counters, history>>

-----------------------------------------------------------------------------
(* .sr: the memory from a file and to a file.                              *)

\* The option -bige only moves the addresses by one word.
At == IF cmd[4] = "-bige" THEN 5 ELSE 4
Where(i) == (Number[cmd[At]] + i) % size

StoreAtStart(i, byte) == mem' = [mem EXCEPT ![i % size] = byte]  \* mutant of Store
Store(i, byte) == mem' = [mem EXCEPT ![Where(i)] = byte]

srCanRestore == /\ Len(cmd) >= 4 /\ cmd[3] \in DOMAIN files
                /\ Len(cmd) >= At /\ IsNumber(At)
sr_r == Is(".sr") /\ Len(cmd) > 1 /\ cmd[2] = "-r"
        /\ Goes(IF srCanRestore THEN "restore" ELSE from)

\* The byte of the read that finds the end of the file is stored too.
restore == /\ pc = "restore"
           /\ LET file == files[cmd[3]]
              IN  IF k < Len(file)
                  THEN /\ Store(k, file[k + 1])
                       /\ k' = k + 1
                       /\ GoTo("restore")
                       /\ UNCHANGED verdict
                  ELSE /\ Store(k, 0)
                       /\ Done
                       /\ verdict' = "done"
                       /\ UNCHANGED k
           /\ UNCHANGED <<shell, cmd, newsize, shown, data, size, buffers, afu, files,
                          counters, history>>

\* The file is emptied before the addresses are looked at.
srCanSave == Len(cmd) >= At + 1 /\ IsNumber(At) /\ IsNumber(At + 1)
sr_s == /\ Is(".sr") /\ Len(cmd) > 1 /\ cmd[2] = "-s"
        /\ IF Len(cmd) >= 5 /\ cmd[3] \in Openable
           THEN /\ files' = [f \in DOMAIN files \cup {cmd[3]} |->
                               IF f = cmd[3] THEN <<>> ELSE files[f]]
                /\ GoTo(IF srCanSave THEN "save" ELSE from)
           ELSE Done /\ UNCHANGED files
        /\ UNCHANGED <<shell, command, heap, afu, counters, history>>

sr == /\ Is(".sr")
      /\ Len(cmd) > 1 => cmd[2] \notin {"-r", "-s"}
      /\ Goes(from)

\* A negative length is a large one for the comparison: the loop goes on and on.
\* A byte that finds no room on the disk is lost without a word.
SavedNext == mem[Where(k + 1)]  \* mutant of SavedByte
SavedByte == mem[Where(k)]
save == /\ pc = "save"
        /\ LET last == Number[cmd[At + 1]] - Number[cmd[At]]
               put == Append(files[cmd[3]], SavedByte)
           IN  IF k = last
               THEN Done /\ verdict' = "done" /\ UNCHANGED <<k, files>>
               ELSE /\ files' = [files EXCEPT ![cmd[3]] = IF Len(put) > MaxFile THEN @ ELSE put]
                    /\ k' = IF last < 0 THEN (k + 1) % size ELSE k + 1
                    /\ GoTo("save")
                    /\ UNCHANGED verdict
        /\ UNCHANGED <<shell, cmd, newsize, shown, heap, afu, counters, history>>

-----------------------------------------------------------------------------
(* .mem                                                                    *)

\* A range has a begin, an end, which is the begin if it is left out, and a step.
RangeBegin(fields) == Number[fields[1]]
RangeEnd(fields) == IF Len(fields) = 1 THEN Number[fields[1]] ELSE Number[fields[2]]
RangeStep(fields) == IF Len(fields) < 3 THEN 1 ELSE Number[fields[3]]

\* What is refused: not one to three numbers, a step of zero, or one that leads
\* away from the end.
range_refused(fields) ==
    \/ Len(fields) \notin 1 .. 3
    \/ \E i \in 1 .. Len(fields) : fields[i] \notin DOMAIN Number
    \/ RangeStep(fields) = 0
    \/ (RangeEnd(fields) - RangeBegin(fields)) * RangeStep(fields) < 0

\* Mutant of range: a range that decreases is gone through from its end.
RangeFromBelow(fields) ==
    LET step == RangeStep(fields)
        distance == IF step > 0 THEN step ELSE -step
        ends == {RangeBegin(fields), RangeEnd(fields)}
    IN  [i \in 1 .. (Max(ends) - Min(ends)) \div distance + 1 |->
            Min(ends) + (i - 1) * distance]

\* The numbers, the end included.
range(fields) ==
    LET step == RangeStep(fields)
        span == (RangeEnd(fields) - RangeBegin(fields)) * (IF step > 0 THEN 1 ELSE -1)
    IN  [i \in 1 .. span \div (IF step > 0 THEN step ELSE -step) + 1 |->
            RangeBegin(fields) + (i - 1) * step]

\* The first word behind .mem and -h.
FirstRange == IF Len(cmd) > 1 /\ cmd[2] = "-h" THEN 3 ELSE 2

\* The numbers of the words up to the one that is refused.  No words: none.
Listed == LET words == SubSeq(cmd, FirstRange, Len(cmd))
              taken == SelectInSeq(words, LAMBDA w : range_refused(Fields[w]))
          IN  FlattenSeq([i \in 1 .. (IF taken = 0 THEN Len(words) ELSE taken - 1) |->
                             range(Fields[words[i]])])

mem_ == Is(".mem") /\ Goes("show")

\* mem_oob_exception ends it.
Show == /\ pc = "show"
        /\ IF k < Len(Listed) /\ Listed[k + 1] \in 0 .. size - 1
           THEN /\ shown' = Append(shown, <<Listed[k + 1], mem[Listed[k + 1]]>>)
                /\ k' = k + 1
                /\ GoTo("show")
                /\ UNCHANGED verdict
           ELSE /\ verdict' = IF k < Len(Listed) THEN "refused" ELSE "done"
                /\ Done
                /\ UNCHANGED <<shown, k>>
        /\ UNCHANGED <<shell, cmd, newsize, heap, afu, files, counters, history>>

-----------------------------------------------------------------------------
(* .wait                                                                   *)

\* strtoull takes a number below zero for a large one.
Timeout == IF Len(cmd) > 3 THEN Number[cmd[4]] % UInt64 ELSE DefaultTimeout
Awaited == mem[Number[cmd[2]] % size] = Number[cmd[3]] % 256

\* A word that is no number is thrown before the mode changes.
wait == /\ Is(".wait")
        /\ IF Len(cmd) >= 3 /\ \A i \in 2 .. Len(cmd) : i <= 4 => IsNumber(i)
           THEN mode' = "MACHINE" /\ GoTo("poll")
           ELSE Done /\ UNCHANGED mode
        /\ UNCHANGED <<script, from, command, heap, afu, files, counters, history>>

\* Each millisecond, counted if there is a timeout.
OneMore == mode = "MACHINE" /\ (k <= Timeout \/ Timeout = 0)  \* mutant of Waiting
Waiting == mode = "MACHINE" /\ (k < Timeout \/ Timeout = 0)
Uncounted == k  \* mutant of Counted
Counted == IF Timeout = 0 THEN k ELSE k + 1
Poll == /\ pc = "poll"
        /\ IF Waiting /\ ~Awaited
           THEN GoTo("poll") /\ k' = Counted
           ELSE GoTo("verdict") /\ UNCHANGED k
        /\ UNCHANGED <<shell, cmd, newsize, shown, verdict, heap, afu, files, counters,
                       history>>

\* Whatever the mode was, it is INTERACTIVE now.
Verdict == /\ pc = "verdict"
           /\ verdict' = IF k = Timeout /\ Timeout # 0 THEN "timed out"
                         ELSE IF mode # "MACHINE" THEN "aborted" ELSE "observed"
           /\ mode' = "INTERACTIVE"
           /\ Done
           /\ UNCHANGED <<script, from, cmd, k, newsize, shown, heap, afu, files, counters,
                          history>>

-----------------------------------------------------------------------------
(* .resize                                                                 *)

BitsAbove(bits) == bits >= MinBits  \* mutant of BitsAllowed
BitsAllowed(bits) == bits \in MinBits .. MaxBits

resize == /\ Is(".resize")
          /\ IF Len(cmd) >= 2 /\ IsNumber(2) /\ BitsAllowed(Number[cmd[2]])
             THEN Resize(2 ^ Number[cmd[2]], "resize")
             ELSE Done /\ UNCHANGED newsize
          /\ UNCHANGED <<shell, cmd, k, shown, verdict, heap, afu, files, counters, history>>

-----------------------------------------------------------------------------
(* The AFU and the user.                                                   *)

\* The AFU, once it is started and knows where the memory is, writes to it.
AfuWrite == /\ pc # "over"
            /\ go = 1 /\ base # Null
            /\ afu_writes < MaxAfuWrites
            /\ afu_writes' = afu_writes + 1
            /\ \E i \in DOMAIN mem, byte \in Byte :
                  /\ mem' = [mem EXCEPT ![i] = byte]
                  /\ touched' = touched \cup {i}
            /\ UNCHANGED <<pc, context, result, shell, command, data, size, buffers, afu,
                           files, lines_read, faults, interrupts, before>>

\* break_machine, for SIGINT.
break_machine == /\ pc # "over"
                 /\ interrupts < MaxInterrupts
                 /\ interrupts' = interrupts + 1
                 /\ mode' = "INTERACTIVE"
                 /\ UNCHANGED <<pc, context, result, script, from, command, heap, afu, files,
                                lines_read, faults, afu_writes, history>>

-----------------------------------------------------------------------------
\* Shell_Cload::Shell_Cload and main: no memory, no message.
Init == /\ pc = "start" /\ context = "initial" /\ result = "running"
        /\ mode = "INTERACTIVE" /\ script = <<>> /\ from = "prompt"
        /\ cmd = <<>> /\ k = 0 /\ newsize = 0 /\ shown = <<>> /\ verdict = "none"
        /\ data = Null /\ size = 0 /\ mem = <<>> /\ buffers = {}
        /\ base = Null /\ length = 0 /\ go = 0
        /\ files = InitialFiles
        /\ lines_read = 0 /\ faults = 0 /\ interrupts = 0 /\ afu_writes = 0
        /\ before = <<>> /\ touched = {}

Heap == Dealloc \/ Free \/ Alloc \/ WriteBase \/ WriteSize \/ SetSize
Run == Start \/ Begin \/ ReadScript \/ EndScript \/ Prompt \/ Leave
execute_runtime_directive ==
    Message \/ exit \/ go_ \/ reset \/ sr_r \/ sr_s \/ sr \/ mem_ \/ wait \/ resize
Work == ResetAfu \/ ResetLength \/ ResetBase \/ Clear \/ restore \/ save \/ Show \/ Poll
        \/ Verdict
LoaderStep == Heap \/ Run \/ execute_runtime_directive \/ Work
Next == LoaderStep \/ AfuWrite \/ break_machine

Spec == Init /\ [][Next]_vars
\* The process is scheduled; the AFU and the user owe it nothing.
FairSpec == Spec /\ WF_vars(LoaderStep)
-----------------------------------------------------------------------------
(* Properties.                                                             *)

\* Where the memory is looked at, or may be.
InUse == {"begin", "script", "prompt", "execute", "clear", "restore", "save", "show", "poll",
          "verdict"}
AtRest == pc \in {"script", "prompt"}
Did(directive) == AtRest /\ cmd # <<>> /\ cmd[1] = directive

\* The variables are what they are taken for.  The sizes are the ones the code
\* asks for.
Sizes == {InitialSize, RecoverySize} \cup {2 ^ bits : bits \in MinBits .. MaxBits}
TypeOK == /\ pc \in InUse \cup {"start", "dealloc", "free", "alloc", "write_base", "write_size",
                             "set_size", "reset_afu", "reset_length", "reset_base", "over"}
          /\ context \in {"initial", "resize", "recovery", "unwind"}
          /\ result \in {"running", "returned", "terminated"}
          /\ mode \in {"INTERACTIVE", "MACHINE", "SHUTDOWN"}
          /\ script \in Seq(LineRecords)
          /\ from \in {"script", "prompt"}
          /\ cmd \in Seq(STRING) /\ shown \in Seq(Nat \X Byte)
          /\ verdict \in {"none", "done", "refused", "timed out", "aborted", "observed"}
          /\ {size, newsize} \subseteq Sizes \cup {0}
          /\ {k, lines_read, faults, interrupts, afu_writes} \subseteq Nat
          /\ data \in Buffers \cup {Null} /\ base \in Buffers \cup {Null}
          /\ buffers \subseteq Buffers
          /\ {length, go} \subseteq {0, 1}
          /\ \A f \in DOMAIN files : files[f] \in Seq(Byte)
          /\ \A i \in DOMAIN mem : mem[i] \in Byte

\* The AFU is never told of memory that is not there: the address it has is the
\* one of a buffer that is allocated, the loader's own, and no other buffer is
\* kept.  While the loader uses the memory, the AFU has it too, and it is as
\* large as the loader takes it for.  When main returns, also after a failed call
\* of the driver, the AFU knows of no memory and no buffer is left.  (mmem.cpp:
\* the order of alloc and dealloc, ~mmem.)
AfuMemory == /\ base # Null => base = data /\ data \in buffers
             /\ buffers \subseteq {data}
             /\ pc \in InUse => /\ data \in buffers /\ base = data /\ length = 1
                              /\ size > 0 /\ DOMAIN mem = 0 .. size - 1
             /\ result = "returned" => base = Null /\ buffers = {}

\* A .sr without -bige.  What that option asks for, to interpret the bytes as big
\* endian (messages.cpp:95), is not done: of the order of the bytes under it
\* nothing is said.
AsTheyAre == cmd[4] # "-bige"

\* .sr -r: the bytes of the file are where they were asked to be, the address runs
\* round at the end of the memory, the last byte stored at a place stays, and the
\* rest is as it was.  Of the byte behind the file nothing is said: see OnlyTheFile.
\* (mmem::restore)
RestoreExact ==
    Did(".sr") /\ verdict = "done" /\ cmd[2] = "-r" =>
        LET file == files[cmd[3]]
            Stored(j) == {i \in 1 .. Len(file) : Where(i - 1) = j}
        IN  \A j \in DOMAIN mem \ (touched \cup {Where(Len(file))}) :
                IF Stored(j) = {} THEN mem[j] = before[j]
                ELSE AsTheyAre => mem[j] = file[Max(Stored(j))]

\* "-r pathtofile [-bige] address: flattens file, beginning at address"
\* (messages.cpp:95): the file, and nothing else, gets into the memory.
OnlyTheFile ==
    Did(".sr") /\ verdict = "done" /\ cmd[2] = "-r" =>
        \A j \in DOMAIN mem \ touched :
            mem[j] # before[j] => \E i \in 1 .. Len(files[cmd[3]]) : Where(i - 1) = j

\* .sr -s: the file holds the bytes from the begin to the end, as far as the disk
\* has room, and the memory is as it was.  (mmem::save)
SaveExact ==
    Did(".sr") /\ verdict = "done" /\ cmd[2] = "-s" =>
        LET file == files[cmd[3]]
        IN  /\ Len(file) = Min({Number[cmd[At + 1]] - Number[cmd[At]], MaxFile})
            /\ AsTheyAre => \A i \in 1 .. Len(file) : \/ Where(i - 1) \in touched
                                                     \/ file[i] = before[Where(i - 1)]
            /\ \A j \in DOMAIN mem \ touched : mem[j] = before[j]

\* The numbers of a range: those that the step leads to from its begin to its end.
\* Whether the end is one of them is left open: "both ends are inclusive" says
\* messages.cpp:68, and the examples of range.h:45 leave it out.
Meant(fields, with_end) ==
    LET ends == {RangeBegin(fields), RangeEnd(fields)}
    IN  {i \in Min(ends) .. Max(ends) :
            /\ \E n \in 0 .. Max(ends) - Min(ends) : i = RangeBegin(fields) + n * RangeStep(fields)
            /\ with_end \/ Len(fields) = 1 \/ i # RangeEnd(fields)}

\* The words up to the first that is refused, and all that is to be shown of them:
\* the place of the word, and the number.
RangesTaken == {w \in FirstRange .. Len(cmd) :
                   \A v \in FirstRange .. w : ~range_refused(Fields[cmd[v]])}
ToShow(with_end) == UNION {{w} \X Meant(Fields[cmd[w]], with_end) : w \in RangesTaken}

\* Range after range, and in a range as the step leads.
Before(a, b) == \/ a[1] < b[1]
                \/ a[1] = b[1] /\ (b[2] - a[2]) * RangeStep(Fields[cmd[a[1]]]) > 0

\* What was shown, the p-th byte for the range at origin[p], is in this order, and all
\* there is to show; or, where .mem was refused, what is before a number outside of the
\* memory.
AsAsked(with_end, origin) ==
    LET at == [p \in DOMAIN shown |-> <<origin[p], shown[p][1]>>]
    IN  /\ \A p, q \in DOMAIN shown : p < q => Before(at[p], at[q])
        /\ Range(at) \subseteq ToShow(with_end)
        /\ \A a \in ToShow(with_end) \ Range(at) :
              verdict = "refused" /\ \A p \in DOMAIN shown : Before(at[p], a)
        /\ verdict = "refused" => \E a \in ToShow(with_end) : a[2] \notin DOMAIN mem

\* .mem shows what is in the memory at the numbers of its ranges, one range after
\* the other and each from its begin to its end, up to the first number outside of
\* the memory, and changes nothing.  (range.cpp, mem)
RangeShown ==
    Did(".mem") /\ verdict # "none" =>
        /\ \A p \in DOMAIN shown :
              LET i == shown[p][1]
              IN  i \in DOMAIN mem /\ (i \in touched \/ shown[p][2] = before[i])
        /\ \A j \in DOMAIN mem \ touched : mem[j] = before[j]
        /\ \E with_end \in BOOLEAN, origin \in [DOMAIN shown -> RangesTaken] :
              AsAsked(with_end, origin)

\* .rst and .resize leave zeros.  (mmem::reset)
Cleared == (Did(".rst") \/ Did(".resize")) /\ verdict = "done" =>
               \A j \in DOMAIN mem \ touched : mem[j] = 0

\* What the directives leave behind is what was asked for, byte by byte, also
\* where the AFU wrote to the memory in the meantime.
DirectivesDo == RestoreExact /\ SaveExact /\ RangeShown /\ Cleared

\* What .wait says is true: it observed a value that was there or that the AFU
\* has written, it timed out on one that was not there all the time, and it was
\* aborted by the user.  (wait)
WaitVerdict ==
    Did(".wait") =>
        LET a == Number[cmd[2]] % size
            there == before[a] = Number[cmd[3]] % 256
        IN  /\ verdict = "observed" => there \/ a \in touched
            /\ verdict = "timed out" => Timeout # 0 /\ ~(there /\ a \notin touched)
            /\ verdict = "aborted" => interrupts > 0

\* Every directive comes to an end: the next line is read, or the process is
\* over.  Not so a .wait without a timeout, and a .sr -s whose end is before its
\* begin.  (execute_runtime_directive)
Endless == \/ cmd[1] = ".wait" /\ Len(cmd) > 3 /\ cmd[4] \in DOMAIN Number /\ Timeout = 0
           \/ /\ cmd[1] = ".sr" /\ Len(cmd) > 4 /\ cmd[2] = "-s" /\ srCanSave
              /\ Number[cmd[At + 1]] < Number[cmd[At]]
DirectivesEnd == (pc = "execute" /\ ~Endless) ~> (AtRest \/ pc = "over")
=============================================================================
