----------------------------- MODULE AccelProofs -----------------------------
(***************************************************************************)
(* Proofs about the accelerator, for any number of cycles per message, any *)
(* number of words per hash, and any lines the memory may hand over.       *)
(*                                                                         *)
(* The inductive invariant AInv says how far the hash has got in each      *)
(* state and stage; digests are symbolic, and the only fact about them     *)
(* that is needed is that UPD2 appends one message (CompressedAppends).    *)
(***************************************************************************)
EXTENDS AccelHash, SequenceTheorems, TLAPS

\* Appending to a sequence of length one.
LEMMA AppendToOne ==
    ASSUME NEW x, NEW y
    PROVE  Append(<<y>>, x) = <<y, x>>
<1> DEFINE S == {x, y}
<1>1. <<y>> \in Seq(S) /\ <<y, x>> \in Seq(S)
  OBVIOUS
<1>2. Append(<<y>>, x) \in Seq(S)
  BY <1>1
<1>3. /\ Len(Append(<<y>>, x)) = 2
      /\ Append(<<y>>, x)[1] = y
      /\ Append(<<y>>, x)[2] = x
  BY <1>1
<1>4. /\ Len(Append(<<y>>, x)) = Len(<<y, x>>)
      /\ \A i \in 1 .. Len(<<y, x>>) : Append(<<y>>, x)[i] = <<y, x>>[i]
  BY <1>3
<1> HIDE DEF S
<1> QED BY <1>1, <1>2, <1>4, SeqEqual

\* UPD2 turns the digest of no message or one into the digest of one more,
\* whether the data is tracked or not.
LEMMA CompressedAppends ==
    ASSUME NEW x, NEW y
    PROVE  /\ Compressed(Digest(<<>>), x) = Digest(<<x>>)
           /\ Compressed(Digest(<<y>>), x) = Digest(<<y, x>>)
<1>1. CASE TrackData
  <2>1. \A m : Digest(m)[2] = m
    BY <1>1 DEF Digest, Value
  <2>2. Append(<<>>, x) = <<x>>
    OBVIOUS
  <2> QED BY <1>1, <2>1, <2>2, AppendToOne DEF Compressed
<1>2. CASE ~TrackData
  BY <1>2 DEF Compressed, Digest, Value
<1> QED BY <1>1, <1>2

\* A word of a hash is not taken for a status.
LEMMA WordIsNoStatus ==
    \A d, k : Word(d, k) # Done
<1>1. Done = <<"status", 2>>
  BY DEF Done, Status
<1>2. TAKE d, k
<1>3. CASE TrackData
  <2>1. Len(Word(d, k)) = 3 /\ Len(Done) = 2
    BY <1>1, <1>3 DEF Word, Value
  <2> QED BY <2>1
<1>4. CASE ~TrackData
  <2>1. Len(Word(d, k)) = 1 /\ Len(Done) = 2
    BY <1>1, <1>4 DEF Word, Value
  <2> QED BY <2>1
<1> QED BY <1>3, <1>4

\* AInv holds after a reset, whatever was going on.
LEMMA ResetEstablishes ==
    ASSUME regs = ResetRegs
    PROVE  AInv
<1>1. RegsOK
  BY AccelAssumption DEF RegsOK, ResetRegs, States, Words
<1>2. StageMatchesState
  BY DEF StageMatchesState, ResetRegs
<1>3. Progress /\ Acknowledged
  BY DEF Progress, Acknowledged, ResetRegs
<1> QED BY <1>1, <1>2, <1>3 DEF AInv

-----------------------------------------------------------------------------
(* One lemma per group of states of the control unit. *)

\* Waiting for a start or for the memory.
LEMMA IdleKeeps ==
    ASSUME AInv, AClock, regs.curr_state = "IDLE"
    PROVE  AInv'
<1>1. regs' = Idle
  BY DEF AClock, NextRegs
<1>2. regs' = regs \/ regs' = [regs EXCEPT !.curr_state = "READ_MESSAGE_1"]
  BY <1>1 DEF Idle, Goto
<1>3. RegsOK'
  BY <1>2 DEF AInv, RegsOK, ResetRegs, States
<1>4. StageMatchesState'
  BY <1>2 DEF AInv, RegsOK, ResetRegs, StageMatchesState
<1>5. regs.curr_state' \in {"IDLE", "READ_MESSAGE_1"}
  BY <1>2 DEF AInv, RegsOK, ResetRegs
<1>6. Progress' /\ Acknowledged'
  BY <1>5 DEF Progress, Acknowledged
<1> QED BY <1>3, <1>4, <1>6 DEF AInv

\* READ_MESSAGE_1: words of the first block arrive.
LEMMA ReadOneKeeps ==
    ASSUME AInv, AClock, regs.curr_state = "READ_MESSAGE_1"
    PROVE  AInv'
<1>1. regs' = ReadMessage("WRITE_BUSY_BIT")
  BY DEF AClock, NextRegs
<1>2. CASE ~mem_acc_read_data_valid
  <2>1. regs' = regs
    BY <1>1, <1>2 DEF ReadMessage
  <2>2. RegsOK' /\ StageMatchesState'
    BY <2>1 DEF AInv, RegsOK, StageMatchesState
  <2>3. Progress' /\ Acknowledged'
    BY <2>1 DEF Progress, Acknowledged
  <2> QED BY <2>2, <2>3 DEF AInv
<1>3. CASE mem_acc_read_data_valid
  <2>1. regs' = [regs EXCEPT !.curr_state = "WRITE_BUSY_BIT",
                             !.message_buf = Value(mem_acc_read_data)]
    BY <1>1, <1>3 DEF ReadMessage, Goto
  <2>2. first' = Value(mem_acc_read_data)
    BY <1>3 DEF AClock, Latches
  <2>3. RegsOK'
    BY <2>1 DEF AInv, RegsOK, ResetRegs, States
  <2>4. StageMatchesState'
    BY <2>1 DEF AInv, RegsOK, ResetRegs, StageMatchesState
  <2>5. /\ regs.curr_state' = "WRITE_BUSY_BIT"
        /\ regs.stage_counter' = 0
        /\ regs.message_buf' = first'
    BY <2>1, <2>2 DEF AInv, RegsOK, ResetRegs, StageMatchesState
  <2>6. Progress' /\ Acknowledged'
    BY <2>5 DEF Progress, Acknowledged, message, StageMessage
  <2> QED BY <2>3, <2>4, <2>6 DEF AInv
<1> QED BY <1>2, <1>3

\* The last acknowledgement of a state leads to the next one.
LEMMA WriteBusyKeeps ==
    ASSUME AInv, AClock, regs.curr_state = "WRITE_BUSY_BIT"
    PROVE  AInv'
<1>1. regs' = regs \/ regs' = [regs EXCEPT !.curr_state = "INIT"]
  BY DEF AClock, NextRegs, WriteBit, Goto
<1>2. first' = first /\ second' = second
  BY DEF AClock, Latches
<1>3. RegsOK'
  BY <1>1 DEF AInv, RegsOK, ResetRegs, States
<1>4. StageMatchesState'
  BY <1>1 DEF AInv, RegsOK, ResetRegs, StageMatchesState
<1>5. /\ regs.curr_state' \in {"WRITE_BUSY_BIT", "INIT"}
      /\ regs.stage_counter' = regs.stage_counter
      /\ regs.stage_counter = 0
      /\ regs.message_buf' = regs.message_buf
  BY <1>1 DEF AInv, RegsOK, ResetRegs, StageMatchesState
<1>6. Progress' /\ Acknowledged'
  BY <1>2, <1>5 DEF AInv, Progress, Acknowledged, message, StageMessage
<1> QED BY <1>3, <1>4, <1>6 DEF AInv

\* INIT clears the hash registers; the message to come does not change.
LEMMA InitHashKeeps ==
    ASSUME AInv, AClock, regs.curr_state = "INIT"
    PROVE  AInv'
<1>1. regs' = [regs EXCEPT !.curr_state = "UPD1", !.hash = Digest(<<>>)]
  BY DEF AClock, NextRegs, InitHash, Goto
<1>2. first' = first /\ second' = second
  BY DEF AClock, Latches
<1>3. RegsOK'
  BY <1>1, AccelAssumption DEF AInv, RegsOK, ResetRegs, States, Words
<1>4. StageMatchesState'
  BY <1>1 DEF AInv, RegsOK, ResetRegs, StageMatchesState
<1>5. /\ regs.curr_state' = "UPD1"
      /\ regs.stage_counter' = regs.stage_counter
      /\ regs.stage_counter \in {0, 2}
      /\ regs.hash' = Digest(<<>>)
      /\ message' = message
  BY <1>1 DEF AInv, RegsOK, ResetRegs, StageMatchesState, message
<1>6. Progress' /\ Acknowledged'
  BY <1>2, <1>5 DEF AInv, Progress, Acknowledged, StageMessage, StageHash,
        FirstHash
<1> QED BY <1>3, <1>4, <1>6 DEF AInv

\* UPD1 loads the message of the stage into the scheduler.
LEMMA Upd1Keeps ==
    ASSUME AInv, AClock, regs.curr_state = "UPD1"
    PROVE  AInv'
<1>1. regs' = [regs EXCEPT !.curr_state = "HASH", !.message_w = message]
  BY DEF AClock, NextRegs, Upd1, Goto
<1>2. first' = first /\ second' = second
  BY DEF AClock, Latches
<1>3. RegsOK'
  BY <1>1, AccelAssumption DEF AInv, RegsOK, ResetRegs, States, Words
<1>4. StageMatchesState'
  BY <1>1 DEF AInv, RegsOK, ResetRegs, StageMatchesState
<1>5. /\ regs.curr_state' = "HASH"
      /\ regs.stage_counter' = regs.stage_counter
      /\ regs.hash' = regs.hash
      /\ regs.message_w' = message
  BY <1>1 DEF AInv, RegsOK, ResetRegs
<1>6. Progress' /\ Acknowledged'
  BY <1>2, <1>5 DEF AInv, Progress, Acknowledged, StageMessage, StageHash,
        FirstHash
<1> QED BY <1>3, <1>4, <1>6 DEF AInv

\* HASH counts to HashCycleCount and clears the counter.
LEMMA HashKeeps ==
    ASSUME AInv, AClock, regs.curr_state = "HASH"
    PROVE  AInv'
<1>1. \/ /\ regs.hash_cycle_counter # HashCycleCount
         /\ regs' = [regs EXCEPT !.hash_cycle_counter = @ + 1]
      \/ regs' = [regs EXCEPT !.curr_state = "UPD2", !.hash_cycle_counter = 0]
  BY DEF AClock, NextRegs, Hash, Goto
<1>2. first' = first /\ second' = second
  BY DEF AClock, Latches
<1>3. RegsOK'
  <2>1. regs.hash_cycle_counter \in 0 .. HashCycleCount /\ HashCycleCount \in Nat
    BY AccelAssumption DEF AInv, RegsOK
  <2>2. regs.hash_cycle_counter' \in 0 .. HashCycleCount
    <3>1. \/ /\ regs.hash_cycle_counter # HashCycleCount
             /\ regs.hash_cycle_counter' = regs.hash_cycle_counter + 1
          \/ regs.hash_cycle_counter' = 0
      BY <1>1 DEF AInv, RegsOK, ResetRegs
    <3> QED BY <2>1, <3>1
  <2>3. /\ DOMAIN regs' = DOMAIN regs
        /\ regs.curr_state' \in {"HASH", "UPD2"}
        /\ regs.hash_word' = regs.hash_word
        /\ regs.stage_counter' = regs.stage_counter
    BY <1>1 DEF AInv, RegsOK, ResetRegs
  <2>4. regs.curr_state' \in States /\ regs.hash_word' \in Words
    BY <2>3 DEF AInv, RegsOK, States, Words
  <2> QED BY <2>2, <2>3, <2>4 DEF AInv, RegsOK, ResetRegs
<1>4. StageMatchesState'
  BY <1>1 DEF AInv, RegsOK, ResetRegs, StageMatchesState
<1>5. /\ regs.curr_state' \in {"HASH", "UPD2"}
      /\ regs.stage_counter' = regs.stage_counter
      /\ regs.hash' = regs.hash
      /\ regs.message_w' = regs.message_w
  BY <1>1 DEF AInv, RegsOK, ResetRegs
<1>6. Progress' /\ Acknowledged'
  BY <1>2, <1>5 DEF AInv, Progress, Acknowledged, StageMessage, StageHash,
        FirstHash
<1> QED BY <1>3, <1>4, <1>6 DEF AInv

\* UPD2 appends the scheduler's message to the digest.
LEMMA Upd2Keeps ==
    ASSUME AInv, AClock, regs.curr_state = "UPD2"
    PROVE  AInv'
<1>1. regs' = [regs EXCEPT !.curr_state = "MAYBE_DONE",
                       !.hash = Compressed(regs.hash, regs.message_w)]
  BY DEF AClock, NextRegs, Upd2, Goto
<1>2. first' = first /\ second' = second
  BY DEF AClock, Latches
<1>3. RegsOK'
  BY <1>1, AccelAssumption DEF AInv, RegsOK, ResetRegs, States, Words
<1>4. StageMatchesState'
  BY <1>1 DEF AInv, RegsOK, ResetRegs, StageMatchesState
<1>5. /\ regs.curr_state' = "MAYBE_DONE"
      /\ regs.stage_counter' = regs.stage_counter
      /\ regs.stage_counter \in 0 .. 2
      /\ regs.hash' = Compressed(StageHash, StageMessage)
  BY <1>1 DEF AInv, RegsOK, ResetRegs, Progress
<1>7. StageResult' = Compressed(StageHash, StageMessage)
  <2>1. CASE regs.stage_counter = 0
    <3>1. StageHash = Digest(<<>>) /\ StageMessage = first
      BY <2>1 DEF StageHash, StageMessage
    <3>2. StageResult' = Digest(<<first>>)
      BY <1>2, <1>5, <2>1 DEF StageResult
    <3> QED BY <3>1, <3>2, CompressedAppends
  <2>2. CASE regs.stage_counter = 1
    <3>1. StageHash = Digest(<<first>>) /\ StageMessage = Padded(second)
      BY <2>2 DEF StageHash, StageMessage
    <3>2. StageResult' = Digest(<<first, Padded(second)>>)
      BY <1>2, <1>5, <2>2 DEF StageResult, FirstHash
    <3> QED BY <3>1, <3>2, CompressedAppends
  <2>3. CASE regs.stage_counter = 2
    <3>1. StageHash = Digest(<<>>) /\ StageMessage = FirstHash
      BY <2>3 DEF StageHash, StageMessage
    <3>2. StageResult' = Digest(<<FirstHash>>)
      BY <1>2, <1>5, <2>3 DEF StageResult, Expected, DoubleHash, FirstHash
    <3> QED BY <3>1, <3>2, CompressedAppends
  <2> QED BY <1>5, <2>1, <2>2, <2>3
<1>6. Progress' /\ Acknowledged'
  BY <1>2, <1>5, <1>7 DEF Progress, Acknowledged
<1> QED BY <1>3, <1>4, <1>6 DEF AInv

\* MAYBE_DONE decides by the stage.  Whatever follows finds its message at
\* the multiplexer or its hash in the registers.
LEMMA MaybeDoneKeeps ==
    ASSUME AInv, AClock, regs.curr_state = "MAYBE_DONE"
    PROVE  AInv'
<1> DEFINE saved == [regs EXCEPT !.intermediate_hash = regs.hash]
<1>1. regs.stage_counter \in 0 .. 2
  BY DEF AInv, RegsOK
<1>2. first' = first /\ second' = second
  BY DEF AClock, Latches
<1>3. regs.hash = StageResult
  BY DEF AInv, Progress
<1>4. CASE regs.stage_counter = 0
  <2>1. regs' = [saved EXCEPT !.stage_counter = 1, !.curr_state = "READ_MESSAGE_2"]
    BY <1>4 DEF AClock, NextRegs, MaybeDone
  <2>2. RegsOK' /\ StageMatchesState'
    BY <2>1 DEF AInv, RegsOK, ResetRegs, States, StageMatchesState
  <2>3. regs.curr_state' = "READ_MESSAGE_2" /\ regs.hash' = regs.hash
    BY <2>1 DEF AInv, RegsOK, ResetRegs
  <2>4. Progress' /\ Acknowledged'
    BY <1>2, <1>3, <1>4, <2>3 DEF Progress, Acknowledged, StageResult
  <2> QED BY <2>2, <2>4 DEF AInv
<1>5. CASE regs.stage_counter = 1
  <2>1. regs' = [saved EXCEPT !.stage_counter = 2, !.curr_state = "INIT"]
    BY <1>5 DEF AClock, NextRegs, MaybeDone
  <2>2. RegsOK' /\ StageMatchesState'
    BY <2>1 DEF AInv, RegsOK, ResetRegs, States, StageMatchesState
  <2>3. /\ regs.curr_state' = "INIT"
        /\ regs.stage_counter' = 2
        /\ regs.intermediate_hash' = regs.hash
    BY <2>1 DEF AInv, RegsOK, ResetRegs
  <2>4. message' = FirstHash
    BY <1>3, <1>5, <2>3 DEF message, StageResult
  <2>5. Progress' /\ Acknowledged'
    BY <1>2, <2>3, <2>4 DEF Progress, Acknowledged, StageMessage, FirstHash
  <2> QED BY <2>2, <2>5 DEF AInv
<1>6. CASE regs.stage_counter = 2
  <2>1. regs' = [saved EXCEPT !.stage_counter = 0, !.curr_state = "WRITE_H"]
    BY <1>6 DEF AClock, NextRegs, MaybeDone
  <2>2. RegsOK' /\ StageMatchesState'
    BY <2>1 DEF AInv, RegsOK, ResetRegs, States, StageMatchesState
  <2>3. /\ regs.curr_state' = "WRITE_H"
        /\ regs.hash' = regs.hash
        /\ regs.hash_word' = 0
    BY <2>1 DEF AInv, RegsOK, ResetRegs, StageMatchesState
  <2>4. Progress' /\ Acknowledged'
    BY <1>2, <1>3, <1>6, <2>3
       DEF Progress, Acknowledged, StageResult, Expected
  <2> QED BY <2>2, <2>4 DEF AInv
<1> QED BY <1>1, <1>4, <1>5, <1>6

\* READ_MESSAGE_2: words of the second block arrive.
LEMMA ReadTwoKeeps ==
    ASSUME AInv, AClock, regs.curr_state = "READ_MESSAGE_2"
    PROVE  AInv'
<1>1. regs' = ReadMessage("UPD1")
  BY DEF AClock, NextRegs
<1>2. first' = first
  BY DEF AClock, Latches
<1>3. regs.stage_counter = 1 /\ regs.hash = Digest(<<first>>)
  BY DEF AInv, StageMatchesState, Progress
<1>4. CASE ~mem_acc_read_data_valid
  <2>1. regs' = regs /\ second' = second
    BY <1>1, <1>4 DEF ReadMessage, AClock, Latches
  <2>2. RegsOK' /\ StageMatchesState'
    BY <2>1 DEF AInv, RegsOK, StageMatchesState
  <2>3. Progress' /\ Acknowledged'
    BY <1>2, <1>3, <2>1 DEF Progress, Acknowledged
  <2> QED BY <2>2, <2>3 DEF AInv
<1>5. CASE mem_acc_read_data_valid
  <2>1. regs' = [regs EXCEPT !.curr_state = "UPD1",
                             !.message_buf = Value(mem_acc_read_data)]
    BY <1>1, <1>5 DEF ReadMessage, Goto
  <2>2. second' = Value(mem_acc_read_data)
    BY <1>5 DEF AClock, Latches
  <2>3. RegsOK' /\ StageMatchesState'
    BY <2>1 DEF AInv, RegsOK, ResetRegs, States, StageMatchesState
  <2>4. /\ regs.curr_state' = "UPD1"
        /\ regs.stage_counter' = 1
        /\ regs.message_buf' = second'
        /\ regs.hash' = Digest(<<first'>>)
    BY <1>2, <1>3, <2>1, <2>2 DEF AInv, RegsOK, ResetRegs
  <2>5. Progress' /\ Acknowledged'
    BY <2>4 DEF Progress, Acknowledged, message, StageMessage, StageHash
  <2> QED BY <2>3, <2>5 DEF AInv
<1> QED BY <1>4, <1>5

\* An acknowledged word is a word of the expected hash.
LEMMA WriteHKeeps ==
    ASSUME AInv, AClock, regs.curr_state = "WRITE_H"
    PROVE  AInv'
<1>1. regs' = WriteH
  BY DEF AClock, NextRegs
<1>2. first' = first /\ second' = second /\ Expected' = Expected
  BY DEF AClock, Latches, Expected
<1>3. regs.hash = Expected
  BY DEF AInv, Progress
<1>4. /\ HashWriteCycle \in Nat \ {0}
      /\ regs.hash_word \in 0 .. HashWriteCycle - 1
  BY AccelAssumption DEF AInv, RegsOK, Words
<1>5. CASE ~mem_acc_write_done
  <2>1. regs' = regs /\ written' = written
    BY <1>1, <1>5 DEF WriteH, AClock
  <2>2. RegsOK' /\ StageMatchesState'
    BY <2>1 DEF AInv, RegsOK, StageMatchesState
  <2>3. Progress' /\ Acknowledged'
    BY <1>2, <1>3, <2>1 DEF AInv, Progress, Acknowledged
  <2> QED BY <2>2, <2>3 DEF AInv
<1>6. CASE mem_acc_write_done
  <2>1. written' = written \cup {<<regs.hash_word, Word(Expected, regs.hash_word)>>}
    BY <1>3, <1>6 DEF AClock, mem_acc_write_data
  <2>2. \A k \in 0 .. regs.hash_word : <<k, Word(Expected, k)>> \in written'
    <3>1. \A k \in 0 .. regs.hash_word - 1 : <<k, Word(Expected, k)>> \in written
      BY DEF AInv, Acknowledged
    <3>2. \A k \in 0 .. regs.hash_word :
             k \in 0 .. regs.hash_word - 1 \/ k = regs.hash_word
      BY <1>4
    <3> QED BY <2>1, <3>1, <3>2
  <2>3. CASE regs.hash_word < HashWriteCycle - 1
    <3>1. regs' = [regs EXCEPT !.hash_word = @ + 1]
      BY <1>1, <1>6, <2>3 DEF WriteH
    <3>2. /\ regs.curr_state' = "WRITE_H"
          /\ regs.hash' = regs.hash
          /\ regs.hash_word' = regs.hash_word + 1
          /\ regs.stage_counter' = regs.stage_counter
          /\ regs.hash_cycle_counter' = regs.hash_cycle_counter
          /\ DOMAIN regs' = DOMAIN regs
      BY <3>1 DEF AInv, RegsOK, ResetRegs
    <3>3. regs.hash_word + 1 \in 0 .. HashWriteCycle - 1
      BY <1>4, <2>3
    <3>4. RegsOK' /\ StageMatchesState'
      BY <3>2, <3>3 DEF AInv, RegsOK, ResetRegs, Words, StageMatchesState
    <3>5. Progress'
      BY <1>2, <1>3, <3>2 DEF Progress
    <3>6. 0 .. regs.hash_word' - 1 = 0 .. regs.hash_word
      BY <1>4, <3>2
    <3>7. Acknowledged'
      BY <1>2, <2>2, <3>2, <3>6 DEF Acknowledged
    <3> QED BY <3>4, <3>5, <3>7 DEF AInv
  <2>4. CASE ~(regs.hash_word < HashWriteCycle - 1)
    <3>1. regs' = [regs EXCEPT !.curr_state = "WRITE_DONE_BIT", !.hash_word = 0]
      BY <1>1, <1>6, <2>4 DEF WriteH, Goto
    <3>2. /\ regs.curr_state' = "WRITE_DONE_BIT"
          /\ regs.hash' = regs.hash
          /\ regs.hash_word' = 0
          /\ regs.stage_counter' = regs.stage_counter
          /\ regs.hash_cycle_counter' = regs.hash_cycle_counter
          /\ DOMAIN regs' = DOMAIN regs
      BY <3>1 DEF AInv, RegsOK, ResetRegs
    <3>3. 0 \in Words /\ regs.hash_word = HashWriteCycle - 1
      BY <1>4, <2>4 DEF Words
    <3>4. RegsOK' /\ StageMatchesState'
      BY <3>2, <3>3 DEF AInv, RegsOK, ResetRegs, States, StageMatchesState
    <3>5. Progress'
      BY <1>2, <1>3, <3>2 DEF Progress
    <3>6. Acknowledged'
      BY <1>2, <2>2, <3>2, <3>3 DEF Acknowledged, Words
    <3> QED BY <3>4, <3>5, <3>6 DEF AInv
  <2> QED BY <2>3, <2>4
<1> QED BY <1>5, <1>6

\* WRITE_DONE_BIT: the write is granted, or waited for.
LEMMA WriteDoneKeeps ==
    ASSUME AInv, AClock, regs.curr_state = "WRITE_DONE_BIT"
    PROVE  AInv'
<1>1. regs' = regs \/ regs' = [regs EXCEPT !.curr_state = "IDLE"]
  BY DEF AClock, NextRegs, WriteBit, Goto
<1>2. /\ first' = first /\ second' = second /\ Expected' = Expected
      /\ written' = written
  BY DEF AClock, Latches, Expected
<1>3. RegsOK' /\ StageMatchesState'
  BY <1>1 DEF AInv, RegsOK, ResetRegs, States, StageMatchesState
<1>4. /\ regs.curr_state' \in {"WRITE_DONE_BIT", "IDLE"}
      /\ regs.hash' = regs.hash
  BY <1>1 DEF AInv, RegsOK, ResetRegs
<1>5. Progress' /\ Acknowledged'
  BY <1>2, <1>4 DEF AInv, Progress, Acknowledged
<1> QED BY <1>3, <1>5 DEF AInv

-----------------------------------------------------------------------------
\* Each state in its turn.
LEMMA ClockKeeps ==
    ASSUME AInv, AClock
    PROVE  AInv'
<1>1. regs.curr_state \in States
  BY DEF AInv, RegsOK
<1> QED BY <1>1, IdleKeeps, ReadOneKeeps, WriteBusyKeeps, InitHashKeeps,
           Upd1Keeps, HashKeeps, Upd2Keeps, MaybeDoneKeeps, ReadTwoKeeps,
           WriteHKeeps, WriteDoneKeeps DEF States

\* AInv is an invariant: at any moment the control state, the stage, the
\* message at the multiplexer and the digest belong together.
THEOREM HashProgress == ASpec => []AInv
<1>1. AInit => AInv
  BY ResetEstablishes DEF AInit
<1>2. AInv /\ [ANext]_avars => AInv'
  <2> SUFFICES ASSUME AInv, [ANext]_avars PROVE AInv'
    OBVIOUS
  <2>1. CASE AClock
    BY <2>1, ClockKeeps
  <2>2. CASE AReset
    <3>1. regs' = ResetRegs
      BY <2>2 DEF AReset
    <3>2. (regs = ResetRegs)' => AInv'
      BY ResetEstablishes, PTL
    <3> QED BY <3>1, <3>2 DEF ResetRegs, Zero, Value
  <2>3. CASE UNCHANGED avars
    BY <2>3 DEF avars, AInv, RegsOK, StageMatchesState, Progress, Acknowledged,
       message, StageMessage, StageHash, StageResult, FirstHash, Expected
  <2> QED BY <2>1, <2>2, <2>3 DEF ANext
<1> QED BY <1>1, <1>2, PTL DEF ASpec

\* The registers have their types, and a job leaves the stage and the two
\* counters as the next one needs them.
THEOREM RegistersAreRight == ASpec => [](RegsOK /\ StageMatchesState)
<1>1. AInv => RegsOK /\ StageMatchesState
  BY DEF AInv
<1> QED BY <1>1, HashProgress, PTL

\* Every word that is put on the write port is a word of the double SHA-256
\* of the two lines latched for this header.
THEOREM HashesAreRight == ASpec => []HashIsDoubleHash
<1>1. AInv => HashIsDoubleHash
  BY DEF AInv, Progress, HashIsDoubleHash, mem_acc_write_data
<1> QED BY <1>1, HashProgress, PTL

\* The done bit comes after the acknowledgement of the last word.
THEOREM DoneComesLast == ASpec => []DoneAfterEveryWord
<1>1. ASSUME AInv
      PROVE  DoneAfterEveryWord
  <2> SUFFICES ASSUME mem_acc_write_en, mem_acc_write_data = Done
               PROVE  \A k \in Words : <<k, Word(Expected, k)>> \in written
    BY DEF DoneAfterEveryWord
  <2>1. CASE regs.curr_state = "WRITE_DONE_BIT"
    BY <1>1, <2>1 DEF AInv, Acknowledged
  <2>2. CASE regs.curr_state = "WRITE_BUSY_BIT"
    <3>1. Busy = Done
      BY <2>2 DEF mem_acc_write_data
    <3> QED BY <3>1 DEF Busy, Done, Status
  <2>3. CASE regs.curr_state = "WRITE_H"
    <3>1. Word(regs.hash, regs.hash_word) = Done
      BY <2>3 DEF mem_acc_write_data
    <3> QED BY <3>1, WordIsNoStatus
  <2> QED BY <2>1, <2>2, <2>3 DEF mem_acc_write_en
<1> QED BY <1>1, HashProgress, PTL
=============================================================================
