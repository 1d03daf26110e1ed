------------------------- MODULE CommandFlowProofs --------------------------
(***************************************************************************)
(* Safety of the command flow for every set of commands and digests, every *)
(* retention and expiry, and any number of faults.  The only assumption    *)
(* beyond CommandFlow's is PowerSafe: the machine does not lose power on a *)
(* system on which the sync of a directory can fail too.                   *)
(***************************************************************************)
EXTENDS CommandRefinement, TLAPS

PowerSafe == ~(SyncMayFail /\ PowerMayFail)

-----------------------------------------------------------------------------
(* The inductive invariant.                                                *)

\* A stored record is well formed (validateRecord), the center has no other
\* result for its request, and has that one if the record is acknowledged.
GoodRecord(c, record) ==
  record # None =>
    /\ record.state = "pending" <=> record.result = None
    /\ record.result # None => record.result.digest = record.digest
    /\ received[c][record.digest] \subseteq {record.result}
    /\ record.state = "acknowledged" =>
         /\ record.result \in received[c][record.digest]
         /\ receivedAt[c][record.digest] <= record.acknowledgedAt

\* Whatever the center has received for the command is in the record.
Covers(c, record) ==
  \A d \in Digests : \A r \in received[c][d] : Answers(record, d, r) \/ Forgotten(c, d)

RecordInv == \A c \in Commands : GoodRecord(c, disk[c]) /\ GoodRecord(c, mem[c])

CoverInv ==
  \A c \in Commands : Covers(c, disk[c]) /\ (agent # "down" => Covers(c, mem[c]))

\* A result in flight is the one in the record, or a repetition of one that
\* the center got so long ago that the record may be gone.
Sent(m) ==
  LET d == m.result.digest
  IN  /\ received[m.cmd][d] \subseteq {m.result}
      /\ \/ /\ Answers(disk[m.cmd], d, m.result)
            /\ agent # "down" => Answers(mem[m.cmd], d, m.result)
         \/ received[m.cmd][d] # {} /\ Forgotten(m.cmd, d)

SentInv == (\A m \in late : Sent(m)) /\ (wire \in ResultMessage => Sent(wire))

\* The connection carries the request the session waits for, or its answer.
WireInv ==
  /\ sess.pc \in {"off", "check", "idle"} => wire = None
  /\ wire \in ResultMessage =>
       /\ sess.pc = "awaitResult" /\ wire.cmd = sess.cmd
       /\ wire.result = mem[sess.cmd].result
  /\ wire \in ResultAck =>
       /\ sess.pc = "awaitResult" /\ wire.cmd = sess.cmd
       /\ mem[sess.cmd].result \in received[sess.cmd][sess.digest]
  /\ sess.pc = "awaitBeat" => sess.sentAt <= now
  /\ wire \in BeatMessage => sess.pc = "awaitBeat"
  /\ wire \in BeatAck =>
       /\ sess.pc = "awaitBeat"
       /\ received[wire.cmd][wire.digest] # {} =>
            sess.sentAt <= receivedAt[wire.cmd][wire.digest] + RedeliveryWindow

ClockInv ==
  \A c \in Commands, d \in Digests : received[c][d] # {} => receivedAt[c][d] <= now

\* Nothing is in memory and nobody runs in a process that is down.
ControlInv ==
  /\ agent = "down" => /\ mem = [c \in Commands |-> None]
                       /\ proc.pc = "done" /\ sess.pc = "off"
  /\ proc.pc \in {"exec", "complete"} => proc.cmd \in Commands /\ proc.digest \in Digests
  /\ proc.pc = "complete" => proc.result \in Result /\ proc.result.digest = proc.digest
  /\ sess.pc = "awaitResult" => sess.cmd \in Commands /\ sess.digest \in Digests

\* A file is ahead of a pending record in memory only after a failed Complete,
\* which ends Run.
FreshInv == \A c \in Commands : InState(c, "pending") /\ disk[c] # mem[c] => proc.pc = "done"

\* Where power may fail the synced files are the files, but for acknowledged
\* records whose removal was not synced.
SyncInv ==
  PowerMayFail =>
    \A c \in Commands :
      \/ synced[c] = disk[c]
      \/ /\ disk[c] = None /\ synced[c] # None
         /\ synced[c].state = "acknowledged" /\ GoodRecord(c, synced[c])

IInv ==
  /\ TypeOK /\ ControlInv /\ MemoryNeverAhead /\ StoreCallsMatch /\ FreshInv
  /\ RecordInv /\ CoverInv /\ OneResult /\ SentInv /\ WireInv /\ ClockInv /\ SyncInv

-----------------------------------------------------------------------------
(* Types.                                                                  *)

USE CommandStoreAssumption, CommandFlowAssumption, MessageAssumption

\* The program counters and message kinds are what the actions say they are.
LEMMA ProcAtType ==
  ASSUME NEW pc \in ProcPcs
  PROVE  ProcAt(pc) \in [pc : ProcPcs, cmd : Commands \cup {None},
                         digest : Digests \cup {None}, result : Result \cup {None}]
  BY DEF ProcAt

\* A session at a program counter with nothing in its hands is well typed.
LEMMA SessAtType ==
  ASSUME NEW pc \in SessPcs
  PROVE  SessAt(pc) \in [pc : SessPcs, cmd : Commands \cup {None},
                         digest : Digests \cup {None}, sentAt : Nat]
  BY DEF SessAt

\* The kinds of message are told apart by their type.
LEMMA MessageKinds ==
  /\ \A m \in ResultMessage : m.type = "result"
  /\ \A m \in BeatMessage : m.type = "beat"
  /\ \A m \in ResultAck : m.type = "resultAck"
  /\ \A m \in BeatAck : m.type = "beatAck"
  /\ \A m \in EmptyBeatAck : m.type = "emptyBeatAck"
  /\ None \notin ResultMessage /\ None \notin BeatMessage /\ None \notin ResultAck
  /\ None \notin BeatAck /\ None \notin EmptyBeatAck
  BY DEF ResultMessage, BeatMessage, ResultAck, BeatAck, EmptyBeatAck, Message

\* Writing a record, failing to, and cleaning up keep the store well typed.
LEMMA WriteType ==
  ASSUME StoreTypeOK, NEW c \in Commands, NEW record \in Record, UNCHANGED now,
         Write(c, record) \/ WriteFails(c, record)
  PROVE  StoreTypeOK'
  BY DEF StoreTypeOK, Write, WriteFails

\* Cleanup keeps the store well typed, complete or cut short.
LEMMA CleanupType ==
  ASSUME StoreTypeOK, UNCHANGED now, Cleanup \/ CleanupFails
  PROVE  StoreTypeOK'
  BY DEF StoreTypeOK, Cleanup, CleanupFails, Without

\* The records that the three writers build are records.
LEMMA AcceptedType ==
  ASSUME StoreTypeOK, NEW d \in Digests
  PROVE  Accepted(d) \in Record
  BY DEF StoreTypeOK, Accepted, Record

\* The record Complete writes is a record.
LEMMA CompletedType ==
  ASSUME StoreTypeOK, NEW c \in Commands, mem[c] # None, NEW r \in Result
  PROVE  Completed(c, r) \in Record
  BY DEF StoreTypeOK, Completed, Record

\* The record Acknowledge writes is a record.
LEMMA AcknowledgedType ==
  ASSUME StoreTypeOK, NEW c \in Commands, mem[c] # None
  PROVE  Acknowledged(c) \in Record
  BY DEF StoreTypeOK, Acknowledged, Record

\* Losing the connection keeps session and messages well typed.
LEMMA DisconnectType ==
  ASSUME TypeOK, Disconnect
  PROVE  /\ sess' \in [pc : SessPcs, cmd : Commands \cup {None},
                        digest : Digests \cup {None}, sentAt : Nat]
         /\ wire' \in Message \cup {None}
         /\ late' \in SUBSET ResultMessage
  <1>1. "off" \in SessPcs
    BY DEF SessPcs
  <1> QED
    BY <1>1, SessAtType DEF TypeOK, Disconnect

\* What the center keeps stays well typed when a result arrives.
LEMMA ReceiveType ==
  ASSUME TypeOK, NEW m \in ResultMessage, Receive(m)
  PROVE  /\ received' \in [Commands -> [Digests -> SUBSET Result]]
         /\ receivedAt' \in [Commands -> [Digests -> Nat]]
  <1> DEFINE c == m.cmd
             d == m.result.digest
             seen == [received[c] EXCEPT ![d] = @ \cup {m.result}]
             seenAt == [receivedAt[c] EXCEPT ![d] = now]
  <1>1. c \in Commands /\ m.result \in Result
    BY DEF ResultMessage
  <1>2. d \in Digests
    BY <1>1 DEF Result
  <1>a. /\ received[c] \in [Digests -> SUBSET Result]
        /\ receivedAt[c] \in [Digests -> Nat] /\ now \in Nat
    BY <1>1 DEF TypeOK, StoreTypeOK
  <1>b. received[c][d] \cup {m.result} \in SUBSET Result
    BY <1>1, <1>2, <1>a
  <1>3. seen \in [Digests -> SUBSET Result] /\ seenAt \in [Digests -> Nat]
    BY <1>2, <1>a, <1>b
  <1>4. /\ received' = [received EXCEPT ![c] = seen]
        /\ receivedAt' \in {receivedAt, [receivedAt EXCEPT ![c] = seenAt]}
    BY DEF Receive
  <1> HIDE DEF c, d, seen, seenAt
  <1> QED
    BY <1>1, <1>3, <1>4 DEF TypeOK

-----------------------------------------------------------------------------
(* Steps that touch neither the store, nor the clock, nor the center's     *)
(* results.                                                                *)

Still == /\ UNCHANGED <<disk, synced, mem, now, received, receivedAt>>
         /\ agent = "down" <=> agent' = "down"

\* The part of the invariant about the store and the center.
StoreInv == /\ StoreTypeOK /\ MemoryNeverAhead /\ RecordInv /\ CoverInv
            /\ OneResult /\ ClockInv /\ SyncInv
            /\ received \in [Commands -> [Digests -> SUBSET Result]]
            /\ receivedAt \in [Commands -> [Digests -> Nat]]

\* A step that leaves store, clock and center alone keeps the store invariant.
LEMMA StillStep ==
  ASSUME IInv, Still
  PROVE  StoreInv' /\ \A m : Sent(m) => Sent(m)'
  <1>1. StoreTypeOK' /\ OneResult' /\ ClockInv'
    BY DEF IInv, TypeOK, Still, StoreTypeOK, OneResult, ClockInv
  <1>2. MemoryNeverAhead'
    BY DEF IInv, Still, MemoryNeverAhead
  <1>3. RecordInv' /\ SyncInv'
    BY DEF IInv, Still, RecordInv, SyncInv, GoodRecord
  <1>4. CoverInv'
    BY DEF IInv, Still, CoverInv, Covers, Answers, Forgotten
  <1>5. \A m : Sent(m) => Sent(m)'
    BY DEF Still, Sent, Answers, Forgotten
  <1> QED
    BY <1>1, <1>2, <1>3, <1>4, <1>5 DEF StoreInv, IInv, TypeOK, Still

\* Cancelling the workers keeps the invariant.
LEMMA StopStep ==
  ASSUME IInv, Stop
  PROVE  IInv'
  <1>1. Still
    BY DEF Stop, Still, storeVars, centerVars
  <1>2. TypeOK'
    BY <1>1, StillStep DEF IInv, StoreInv, TypeOK, Stop, Fault, procVars, centerVars
  <1>3. ControlInv' /\ StoreCallsMatch' /\ WireInv'
    BY DEF IInv, Stop, ControlInv, StoreCallsMatch, InState, WireInv, storeVars, procVars, centerVars
  <1>4. SentInv' /\ FreshInv'
    BY <1>1, StillStep DEF IInv, SentInv, FreshInv, InState, Stop, storeVars, procVars
  <1> QED
    BY <1>1, <1>2, <1>3, <1>4, StillStep DEF IInv, StoreInv

\* The processor's steps between two accesses to the store.
LEMMA ProcStillStep ==
  ASSUME IInv,
         \/ ProcIdle \/ ExecRestarts \/ ProcWake \/ ProcCancelled
         \/ \E c \in Commands : ProcTake(c)
         \/ \E outcome \in Outcomes : ExecReturns(outcome)
  PROVE  IInv'
  <1> USE DEF ProcFrame, ProcFails, storeVars, centerVars
  <1>1. Still
    BY DEF IInv, ControlInv, ProcIdle, ExecRestarts, ProcWake, ProcCancelled,
           ProcTake, ExecReturns, Still
  <1>2. StoreInv' /\ \A m : Sent(m) => Sent(m)'
    BY <1>1, StillStep
  <1>3. UNCHANGED <<now, sess, wire, late, issued, received, receivedAt, mem>>
    BY DEF ProcIdle, ExecRestarts, ProcWake, ProcCancelled, ProcTake, ExecReturns
  <1>4. SentInv' /\ WireInv'
    BY <1>2, <1>3 DEF IInv, SentInv, WireInv
  <1>5. /\ TypeOK' /\ ControlInv'
        /\ proc'.pc \in {"exec", "complete"} =>
             InState(proc'.cmd, "pending") /\ mem[proc'.cmd].digest = proc'.digest
    <2> USE DEF IInv, TypeOK, ControlInv, StoreInv
    <2>1. CASE ProcIdle \/ ProcWake \/ ProcCancelled \/ ExecRestarts
      <3>1. /\ proc' \in {ProcAt("wait"), ProcAt("scan"), ProcAt("done")}
            /\ agent' = agent \/ agent' = "stopping"
            /\ agent # "down" /\ faults' \in Nat
        BY <2>1 DEF ProcIdle, ProcWake, ProcCancelled, ExecRestarts, Fault
      <3>a. wake' \in BOOLEAN /\ resultReady' \in BOOLEAN
        BY <2>1, Zenon DEF ProcIdle, ProcWake, ProcCancelled, ExecRestarts
      <3>2. proc'.pc \in {"wait", "scan", "done"}
        BY <3>1 DEF ProcAt
      <3> QED
        BY <3>1, <3>2, <3>a, <1>2, <1>3, ProcAtType DEF ProcPcs
    <2>2. CASE \E c \in Commands : ProcTake(c)
      <3>1. PICK c \in Commands : ProcTake(c)
        BY <2>2
      <3>2. mem[c] \in Record /\ mem[c].state = "pending" /\ mem[c].digest \in Digests
        BY <3>1 DEF ProcTake, Oldest, InState, StoreTypeOK, Record
      <3>3. /\ proc' \in [pc : ProcPcs, cmd : Commands, digest : Digests,
                           result : Result \cup {None}]
            /\ proc'.pc \in {"exec", "complete"} /\ proc'.cmd = c
            /\ proc'.digest = mem[c].digest
            /\ proc'.pc = "complete" =>
                 proc'.result \in Result /\ proc'.result.digest = proc'.digest
        BY <3>1, <3>2 DEF ProcTake, ProcPcs, Result, Outcomes, StoreTypeOK
      <3>4. /\ UNCHANGED <<agent, wake, resultReady, faults>> /\ agent # "down"
        BY <3>1 DEF ProcTake
      <3> QED
        BY <3>2, <3>3, <3>4, <1>2, <1>3 DEF InState
    <2>3. CASE \E outcome \in Outcomes : ExecReturns(outcome)
      <3>1. PICK outcome \in Outcomes : ExecReturns(outcome)
        BY <2>3
      <3>2. /\ proc' \in [pc : ProcPcs, cmd : Commands, digest : Digests,
                           result : Result \cup {None}]
            /\ proc'.pc = "complete" /\ proc'.cmd = proc.cmd
            /\ proc'.digest = proc.digest
            /\ proc'.result \in Result /\ proc'.result.digest = proc'.digest
        BY <3>1 DEF ExecReturns, ProcPcs, Result, Outcomes, StoreTypeOK
      <3>3. /\ UNCHANGED <<agent, wake, resultReady, faults>> /\ agent # "down"
        BY <3>1 DEF ExecReturns
      <3> QED
        BY <3>1, <3>2, <3>3, <1>2, <1>3 DEF StoreCallsMatch, ExecReturns
    <2> QED
      BY <2>1, <2>2, <2>3
  <1>6. StoreCallsMatch'
    BY <1>5, <1>3 DEF IInv, StoreCallsMatch, InState
  <1>7. FreshInv'
    <2>1. proc.pc # "done" /\ UNCHANGED <<disk, mem>>
      BY <1>1 DEF ProcIdle, ExecRestarts, ProcWake, ProcCancelled, ProcTake, ExecReturns, Still
    <2> QED
      BY <2>1 DEF IInv, FreshInv, InState
  <1> QED
    BY <1>2, <1>4, <1>5, <1>6, <1>7 DEF IInv, StoreInv

\* The session's steps between two accesses to the store.
LEMMA SessStillStep ==
  ASSUME IInv,
         \/ Connect \/ SessEnd \/ NoResult \/ ResultSignalled \/ SendBeat
         \/ OnEmptyBeatAck \/ AcceptDuplicate \/ AcceptConflict
         \/ \E c \in Commands : SendResult(c)
  PROVE  IInv'
  <1> USE DEF SessFrame, storeVars, centerVars, BeatAnswered
  <1>1. Still
    BY DEF IInv, ControlInv, Connect, SessEnd, NoResult, ResultSignalled, SendBeat,
           OnEmptyBeatAck, AcceptDuplicate, AcceptConflict, SendResult, Still
  <1>2. StoreInv' /\ \A m : Sent(m) => Sent(m)'
    BY <1>1, StillStep
  <1>3. UNCHANGED <<now, proc, issued, received, receivedAt, mem, disk>>
    BY DEF Connect, SessEnd, NoResult, ResultSignalled, SendBeat,
           OnEmptyBeatAck, AcceptDuplicate, AcceptConflict, SendResult
  <1>a. resultReady' \in BOOLEAN
    BY Zenon DEF IInv, TypeOK, Connect, SessEnd, NoResult, ResultSignalled, SendBeat,
           OnEmptyBeatAck, AcceptDuplicate, AcceptConflict, SendResult
  <1>b. faults' \in Nat
    BY DEF IInv, TypeOK, Connect, SessEnd, NoResult, ResultSignalled, SendBeat,
           OnEmptyBeatAck, AcceptDuplicate, AcceptConflict, SendResult, Fault
  <1>c. agent # "down"
    BY DEF IInv, ControlInv, Connect, SessEnd, NoResult, ResultSignalled, SendBeat,
           OnEmptyBeatAck, AcceptDuplicate, AcceptConflict, SendResult
  <1>4. /\ agent' \in {agent, "stopping"} /\ agent # "down"
        /\ wake' = wake /\ resultReady' \in BOOLEAN /\ faults' \in Nat
    BY <1>a, <1>b, <1>c DEF Connect, SessEnd, NoResult, ResultSignalled, SendBeat,
           OnEmptyBeatAck, AcceptDuplicate, AcceptConflict, SendResult
  <1>d. FreshInv'
    BY <1>3 DEF IInv, FreshInv, InState
  <1>5. CASE SessEnd
    <2>1. Disconnect
      BY <1>5 DEF SessEnd
    <2>2. sess'.pc = "off" /\ wire' = None
      BY <2>1 DEF Disconnect, SessAt
    <2>3. /\ wire' \notin ResultMessage /\ wire' \notin ResultAck
          /\ wire' \notin BeatAck /\ wire' \notin BeatMessage
      BY <2>2, MessageKinds
    <2>4. TypeOK'
      BY <1>2, <1>3, <1>4, <2>1, DisconnectType DEF IInv, TypeOK, StoreInv
    <2>5. \A m \in late' : m \in late \/ (wire \in ResultMessage /\ m = wire)
      BY <2>1 DEF Disconnect
    <2>6. SentInv' /\ WireInv'
      BY <1>2, <2>2, <2>3, <2>5 DEF IInv, SentInv, WireInv
    <2>7. ControlInv' /\ StoreCallsMatch'
      BY <1>3, <1>4, <2>2 DEF IInv, ControlInv, StoreCallsMatch, InState
    <2> QED
      BY <1>2, <1>d, <2>4, <2>6, <2>7 DEF IInv, StoreInv
  <1>6. CASE Connect \/ NoResult \/ ResultSignalled \/ OnEmptyBeatAck
             \/ AcceptDuplicate \/ AcceptConflict
    <2>1. /\ sess' \in {SessAt("off"), SessAt("check"), SessAt("idle")}
          /\ wire' = None /\ late' = late
      BY <1>6 DEF IInv, WireInv, Connect, NoResult, ResultSignalled, OnEmptyBeatAck,
                  AcceptDuplicate, AcceptConflict
    <2>2. sess'.pc \in {"off", "check", "idle"}
      BY <2>1 DEF SessAt
    <2>3. /\ wire' \notin ResultMessage /\ wire' \notin ResultAck
          /\ wire' \notin BeatAck /\ wire' \notin BeatMessage
      BY <2>1, MessageKinds
    <2>4. TypeOK'
      BY <1>2, <1>3, <1>4, <2>1, SessAtType DEF IInv, TypeOK, StoreInv, SessPcs
    <2>5. SentInv' /\ WireInv'
      BY <1>2, <2>1, <2>2, <2>3 DEF IInv, SentInv, WireInv
    <2>6. ControlInv' /\ StoreCallsMatch'
      BY <1>3, <1>4, <2>2 DEF IInv, ControlInv, StoreCallsMatch, InState
    <2> QED
      BY <1>2, <1>d, <2>4, <2>5, <2>6 DEF IInv, StoreInv
  <1>7. CASE SendBeat
    <2>1. /\ sess' = [pc |-> "awaitBeat", cmd |-> None, digest |-> None, sentAt |-> now]
          /\ wire' = [type |-> "beat"] /\ late' = late
      BY <1>7 DEF SendBeat, SessAt
    <2>2. /\ wire' \in BeatMessage
          /\ wire' \notin ResultMessage /\ wire' \notin ResultAck /\ wire' \notin BeatAck
          /\ wire' # None
      BY <2>1, MessageKinds DEF BeatMessage
    <2>4. TypeOK'
      BY <1>2, <1>3, <1>4, <2>1, <2>2 DEF IInv, TypeOK, StoreInv, SessPcs, StoreTypeOK, Message
    <2>5. SentInv' /\ WireInv'
      BY <1>2, <1>3, <2>1, <2>2 DEF IInv, SentInv, WireInv, TypeOK, StoreTypeOK
    <2>6. ControlInv' /\ StoreCallsMatch'
      BY <1>3, <1>4, <2>1 DEF IInv, ControlInv, StoreCallsMatch, InState
    <2> QED
      BY <1>2, <1>d, <2>4, <2>5, <2>6 DEF IInv, StoreInv
  <1>8. CASE \E c \in Commands : SendResult(c)
    <2>1. PICK c \in Commands : SendResult(c)
      BY <1>8
    <2>2. /\ mem[c] \in Record /\ mem[c].state = "completed"
          /\ mem[c].digest \in Digests /\ mem[c].result \in Result \cup {None}
      BY <2>1 DEF SendResult, Oldest, InState, IInv, TypeOK, StoreTypeOK, Record
    <2>3. /\ GoodRecord(c, mem[c]) /\ GoodRecord(c, disk[c])
          /\ mem[c] = disk[c] \/ (disk[c] # None /\ disk[c].state = "acknowledged"
                                  /\ disk[c].result = mem[c].result
                                  /\ disk[c].digest = mem[c].digest)
      BY <1>4, <2>2 DEF IInv, RecordInv, MemoryNeverAhead
    <2>4. mem[c].result \in Result /\ mem[c].result.digest = mem[c].digest
      BY <2>2, <2>3 DEF GoodRecord
    <2>5. /\ sess' = [pc |-> "awaitResult", cmd |-> c, digest |-> mem[c].digest, sentAt |-> now]
          /\ wire' = [type |-> "result", cmd |-> c, result |-> mem[c].result] /\ late' = late
      BY <2>1 DEF SendResult
    <2>6. /\ wire' \in ResultMessage /\ wire' \notin ResultAck
          /\ wire' \notin BeatAck /\ wire' \notin BeatMessage
      BY <2>4, <2>5, MessageKinds DEF ResultMessage
    <2>7. Sent(wire')
      BY <2>2, <2>3, <2>4, <2>5 DEF Sent, GoodRecord, Answers
    <2>8. TypeOK'
      BY <1>2, <1>3, <1>4, <2>2, <2>5, <2>6 DEF IInv, TypeOK, StoreInv, SessPcs, StoreTypeOK, Message
    <2>9. SentInv' /\ WireInv'
      BY <1>2, <1>3, <2>5, <2>6, <2>7 DEF IInv, SentInv, WireInv
    <2>10. ControlInv' /\ StoreCallsMatch'
      BY <1>3, <1>4, <2>2, <2>5 DEF IInv, ControlInv, StoreCallsMatch, InState
    <2> QED
      BY <1>2, <1>d, <2>8, <2>9, <2>10 DEF IInv, StoreInv
  <1> QED
    BY <1>5, <1>6, <1>7, <1>8

\* The center's steps that add no result.
LEMMA CenterStillStep ==
  ASSUME IInv,
         \/ CenterBeat
         \/ \E c \in Commands, d \in Digests : Issue(c, d) \/ CenterDelivers(c, d)
  PROVE  IInv'
  <1> USE DEF AgentVars, storeVars, procVars, centerVars
  <1>1. Still
    BY DEF CenterBeat, Issue, CenterDelivers, Still
  <1>2. StoreInv' /\ \A m : Sent(m) => Sent(m)'
    BY <1>1, StillStep
  <1>3. /\ UNCHANGED <<now, agent, proc, wake, resultReady, sess, faults, received,
                       receivedAt, mem, disk, late>>
    BY DEF CenterBeat, Issue, CenterDelivers
  <1>4. ControlInv' /\ StoreCallsMatch' /\ FreshInv'
    BY <1>3 DEF IInv, ControlInv, StoreCallsMatch, FreshInv, InState
  <1>5. CASE CenterBeat
    <2>1. wire \in BeatMessage /\ wire' = [type |-> "emptyBeatAck"] /\ issued' = issued
      BY <1>5 DEF CenterBeat
    <2>2. /\ wire' \in EmptyBeatAck /\ wire # None
          /\ wire' \notin ResultMessage /\ wire' \notin ResultAck
          /\ wire' \notin BeatAck /\ wire' \notin BeatMessage
      BY <2>1, MessageKinds DEF EmptyBeatAck
    <2>3. TypeOK'
      BY <1>2, <1>3, <2>1, <2>2 DEF IInv, TypeOK, StoreInv, Message
    <2>4. SentInv' /\ WireInv'
      BY <1>2, <1>3, <2>2 DEF IInv, SentInv, WireInv
    <2> QED
      BY <1>2, <1>4, <2>3, <2>4 DEF IInv, StoreInv
  <1>6. CASE \E c \in Commands, d \in Digests : Issue(c, d)
    <2>1. wire' = wire /\ issued' \in SUBSET Requests
      BY <1>6 DEF Issue, IInv, TypeOK, Requests
    <2>2. TypeOK'
      BY <1>2, <1>3, <2>1 DEF IInv, TypeOK, StoreInv
    <2>3. SentInv' /\ WireInv'
      BY <1>2, <1>3, <2>1 DEF IInv, SentInv, WireInv
    <2> QED
      BY <1>2, <1>4, <2>2, <2>3 DEF IInv, StoreInv
  <1>7. CASE \E c \in Commands, d \in Digests : CenterDelivers(c, d)
    <2>1. PICK c \in Commands, d \in Digests : CenterDelivers(c, d)
      BY <1>7
    <2>2. /\ wire \in BeatMessage /\ issued' = issued
          /\ wire' = [type |-> "beatAck", cmd |-> c, digest |-> d]
          /\ received[c][d] = {} \/ now <= receivedAt[c][d] + RedeliveryWindow
      BY <2>1 DEF CenterDelivers, Deliverable
    <2>3. /\ wire' \in BeatAck /\ wire # None
          /\ wire \notin ResultMessage /\ wire \notin ResultAck
          /\ wire' \notin ResultMessage /\ wire' \notin ResultAck /\ wire' \notin BeatMessage
      BY <2>2, MessageKinds DEF BeatAck
    <2>4. TypeOK'
      BY <1>2, <1>3, <2>2, <2>3 DEF IInv, TypeOK, StoreInv, Message
    <2>5. sess.pc = "awaitBeat"
      BY <2>2 DEF IInv, WireInv
    <2>6. SentInv'
      BY <1>2, <1>3, <2>3 DEF IInv, SentInv
    <2>7. received[c][d] # {} => sess.sentAt <= receivedAt[c][d] + RedeliveryWindow
      <3>1. sess.sentAt <= now /\ sess.sentAt \in Nat /\ now \in Nat /\ receivedAt[c][d] \in Nat
        BY <2>5 DEF IInv, WireInv, TypeOK, StoreTypeOK
      <3> QED
        BY <2>2, <3>1
    <2>8. wire'.cmd = c /\ wire'.digest = d
      BY <2>2
    <2>9. WireInv'
      BY <1>3, <2>3, <2>5, <2>7, <2>8 DEF IInv, WireInv
    <2> QED
      BY <1>2, <1>4, <2>4, <2>6, <2>9 DEF IInv, StoreInv
  <1> QED
    BY <1>5, <1>6, <1>7

-----------------------------------------------------------------------------
(* Steps that change the store.                                            *)

\* The record follows on the one in memory.
Follows(c, record) ==
  \/ mem[c] = None /\ record.state = "pending"
  \/ /\ mem[c] # None /\ mem[c].digest = record.digest
     /\ \/ mem[c].state = "pending" /\ record.state = "completed"
        \/ /\ mem[c].state = "completed" /\ record.state = "acknowledged"
           /\ mem[c].result = record.result

\* A write, successful or not, of a good record that follows on the one in
\* memory and loses no answer.
LEMMA WriteStep ==
  ASSUME IInv, PowerSafe, NEW c \in Commands, NEW record \in Record,
         Write(c, record) \/ WriteFails(c, record),
         UNCHANGED <<now, received, receivedAt>>,
         agent # "down", agent' # "down",
         GoodRecord(c, record), Covers(c, record), Follows(c, record),
         \A d, r : Answers(disk[c], d, r) => Answers(record, d, r),
         \A d, r : Answers(mem[c], d, r) => Answers(record, d, r)
  PROVE  StoreInv' /\ \A m \in ResultMessage : Sent(m) => Sent(m)'
  <1>1. StoreTypeOK' /\ OneResult' /\ ClockInv'
    BY WriteType DEF IInv, TypeOK, OneResult, ClockInv
  <1>2. /\ \A e \in Commands : e # c => disk'[e] = disk[e] /\ mem'[e] = mem[e]
        /\ disk'[c] \in {disk[c], record} /\ mem'[c] \in {mem[c], record}
        /\ mem'[c] = record => disk'[c] = record
        /\ mem'[c] # mem[c] => mem'[c] = record
    <2>1. disk \in [Commands -> Record \cup {None}] /\ mem \in [Commands -> Record \cup {None}]
      BY DEF IInv, TypeOK, StoreTypeOK
    <2>2. CASE Write(c, record)
      BY <2>1, <2>2 DEF Write
    <2>3. CASE WriteFails(c, record) /\ mem[c] # record
      BY <2>1, <2>3 DEF WriteFails
    <2>4. mem[c] # record
      BY DEF Follows
    <2> QED
      BY <2>2, <2>3, <2>4
  <1>3. record # None
    OBVIOUS
  <1>4. MemoryNeverAhead'
    <2> SUFFICES ASSUME NEW e \in Commands
                 PROVE \/ mem'[e] = disk'[e]
                       \/ mem'[e] = None /\ disk'[e].state = "pending"
                       \/ /\ mem'[e] # None /\ disk'[e] # None
                          /\ mem'[e].digest = disk'[e].digest
                          /\ \/ mem'[e].state = "pending" /\ disk'[e].state = "completed"
                             \/ /\ mem'[e].state = "completed" /\ disk'[e].state = "acknowledged"
                                /\ mem'[e].result = disk'[e].result
      BY DEF MemoryNeverAhead
    <2>1. CASE e # c
      BY <1>2, <2>1 DEF IInv, MemoryNeverAhead
    <2>2. CASE e = c
      <3>1. CASE mem'[c] = record
        BY <1>2, <2>2, <3>1
      <3>2. CASE mem'[c] = mem[c] /\ disk'[c] = disk[c]
        BY <2>2, <3>2 DEF IInv, MemoryNeverAhead
      <3>3. CASE mem'[c] = mem[c] /\ disk'[c] = record
        BY <1>3, <2>2, <3>3 DEF Follows
      <3> QED
        BY <1>2, <3>1, <3>2, <3>3
    <2> QED
      BY <2>1, <2>2
  <1>5. \A e \in Commands : \A x : GoodRecord(e, x) => GoodRecord(e, x)'
    BY DEF GoodRecord
  <1>6. RecordInv'
    <2>1. \A e \in Commands : GoodRecord(e, disk'[e]) /\ GoodRecord(e, mem'[e])
      BY <1>2 DEF IInv, RecordInv
    <2> QED
      BY <2>1 DEF RecordInv, GoodRecord
  <1>7. CoverInv'
    <2>1. \A e \in Commands : Covers(e, disk'[e]) /\ Covers(e, mem'[e])
      BY <1>2 DEF IInv, CoverInv
    <2> QED
      BY <2>1 DEF CoverInv, Covers, Answers, Forgotten
  <1>8. SyncInv'
    <2> SUFFICES ASSUME PowerMayFail, NEW e \in Commands
                 PROVE  \/ synced'[e] = disk'[e]
                        \/ /\ disk'[e] = None /\ synced'[e] # None
                           /\ synced'[e].state = "acknowledged" /\ GoodRecord(e, synced'[e])
      BY DEF SyncInv, GoodRecord
    <2>1. ~SyncMayFail
      BY DEF PowerSafe
    <2>2. synced' = disk' \/ UNCHANGED <<disk, synced>>
      BY <2>1 DEF Write, WriteFails
    <2> QED
      BY <2>2 DEF IInv, SyncInv
  <1>9. \A m \in ResultMessage : Sent(m) => Sent(m)'
    <2> TAKE m \in ResultMessage
    <2> HAVE Sent(m)
    <2>1. m.cmd \in Commands
      BY DEF ResultMessage
    <2>2. /\ \A d, r : Answers(disk[m.cmd], d, r) => Answers(disk'[m.cmd], d, r)
          /\ \A d, r : Answers(mem[m.cmd], d, r) => Answers(mem'[m.cmd], d, r)
      <3>1. CASE m.cmd = c
        BY <1>2, <3>1
      <3>2. CASE m.cmd # c
        BY <1>2, <2>1, <3>2
      <3> QED
        BY <3>1, <3>2
    <2> QED
      BY <2>2 DEF Sent, Forgotten, Answers
  <1> QED
    BY <1>1, <1>4, <1>6, <1>7, <1>8, <1>9 DEF IInv, TypeOK, StoreInv

\* Cleanup removes, in memory and on disk, acknowledged records only, and only
\* such as the center's result for them is older than the retention.
Kept(c) == mem'[c] = mem[c] /\ disk'[c] = disk[c]
Removed(c) == InState(c, "acknowledged") /\ mem'[c] = None

\* Cleanup only forgets records whose retention is over.
LEMMA CleanupStep ==
  ASSUME IInv, Cleanup \/ CleanupFails,
         UNCHANGED <<now, received, receivedAt>>, agent # "down", agent' # "down"
  PROVE  /\ StoreInv'
         /\ \A m \in ResultMessage : Sent(m) => Sent(m)'
         /\ \A c \in Commands : Kept(c) \/ Removed(c)
  <1>1. PICK gone \in SUBSET {c \in Commands : Aged(c)} :
          /\ disk' = Without(disk, gone) /\ mem' = Without(mem, gone)
          /\ synced' = synced \/ synced' = disk'
    BY DEF Cleanup, CleanupFails
  <1>2. \A c \in Commands : IF c \in gone THEN disk'[c] = None /\ mem'[c] = None
                                         ELSE disk'[c] = disk[c] /\ mem'[c] = mem[c]
    BY <1>1 DEF Without
  <1>3. ASSUME NEW c \in gone
        PROVE  /\ c \in Commands /\ mem[c] = disk[c] /\ disk[c] # None
               /\ InState(c, "acknowledged") /\ disk[c].state = "acknowledged"
               /\ \A d \in Digests : \A r \in received[c][d] : Forgotten(c, d)
               /\ \A d, r : Answers(disk[c], d, r) => d \in Digests /\ r \in received[c][d]
    <2>1. c \in Commands /\ InState(c, "acknowledged") /\ mem[c].acknowledgedAt + Retention <= now
      BY DEF Aged
    <2>2. mem[c] = disk[c] /\ disk[c] # None /\ disk[c].state = "acknowledged"
      BY <2>1 DEF IInv, MemoryNeverAhead, InState
    <2>3. disk[c] \in Record
      BY <2>1, <2>2 DEF IInv, TypeOK, StoreTypeOK
    <2>4. GoodRecord(c, disk[c]) /\ Covers(c, disk[c])
      BY <2>1 DEF IInv, RecordInv, CoverInv
    <2>5. ASSUME NEW d \in Digests, NEW r \in received[c][d]
          PROVE  Forgotten(c, d)
      <3>1. CASE Answers(disk[c], d, r)
        <4>1. receivedAt[c][d] <= disk[c].acknowledgedAt
          BY <2>2, <2>4, <3>1 DEF Answers, GoodRecord
        <4>2. receivedAt[c][d] \in Nat /\ disk[c].acknowledgedAt \in Nat /\ now \in Nat
          BY <2>1, <2>3 DEF IInv, TypeOK, StoreTypeOK, Record
        <4> QED
          BY <2>1, <2>2, <4>1, <4>2 DEF Forgotten
      <3> QED
        BY <2>4, <3>1 DEF Covers
    <2>6. \A d, r : Answers(disk[c], d, r) => d \in Digests /\ r \in received[c][d]
      BY <2>2, <2>3, <2>4 DEF Answers, GoodRecord, Record
    <2> QED
      BY <2>1, <2>2, <2>5, <2>6
  <1>4. StoreTypeOK' /\ OneResult' /\ ClockInv'
    BY CleanupType DEF IInv, TypeOK, OneResult, ClockInv
  <1>5. MemoryNeverAhead'
    BY <1>2 DEF IInv, MemoryNeverAhead
  <1>6. RecordInv'
    BY <1>2 DEF IInv, RecordInv, GoodRecord
  <1>7. CoverInv'
    <2>1. \A c \in Commands : Covers(c, disk'[c]) /\ Covers(c, mem'[c])
      BY <1>2, <1>3 DEF IInv, CoverInv, Covers
    <2> QED
      BY <2>1 DEF CoverInv, Covers, Answers, Forgotten
  <1>8. SyncInv'
    <2> SUFFICES ASSUME PowerMayFail, NEW c \in Commands
                 PROVE  \/ synced'[c] = disk'[c]
                        \/ /\ disk'[c] = None /\ synced'[c] # None
                           /\ synced'[c].state = "acknowledged" /\ GoodRecord(c, synced'[c])
      BY DEF SyncInv, GoodRecord
    <2> QED
      BY <1>1, <1>2, <1>3 DEF IInv, SyncInv, RecordInv
  <1>9. \A m \in ResultMessage : Sent(m) => Sent(m)'
    <2> TAKE m \in ResultMessage
    <2> HAVE Sent(m)
    <2>1. m.cmd \in Commands
      BY DEF ResultMessage
    <2>2. CASE m.cmd \notin gone
      BY <1>2, <2>1, <2>2 DEF Sent, Answers, Forgotten
    <2>3. CASE m.cmd \in gone
      <3>1. received[m.cmd][m.result.digest] # {} /\ Forgotten(m.cmd, m.result.digest)
        <4> DEFINE d == m.result.digest
        <4>1. CASE Answers(disk[m.cmd], d, m.result)
          <5>1. d \in Digests /\ m.result \in received[m.cmd][d]
            BY <1>3, <2>3, <4>1
          <5>2. Forgotten(m.cmd, d)
            <6>1. \A e \in gone : \A f \in Digests : \A r \in received[e][f] : Forgotten(e, f)
              BY <1>3
            <6> HIDE DEF d
            <6> QED
              BY <6>1, <2>3, <5>1
          <5> QED
            BY <5>1, <5>2
        <4>2. CASE received[m.cmd][d] # {} /\ Forgotten(m.cmd, d)
          BY <4>2
        <4> QED
          BY <4>1, <4>2 DEF Sent
      <3> QED
        BY <3>1 DEF Sent, Forgotten
    <2> QED
      BY <2>2, <2>3
  <1>10. \A c \in Commands : Kept(c) \/ Removed(c)
    <2> TAKE c \in Commands
    <2>1. CASE c \in gone
      BY <1>2, <1>3, <2>1 DEF Removed
    <2>2. CASE c \notin gone
      BY <1>2, <2>2 DEF Kept
    <2> QED
      BY <2>1, <2>2
  <1> QED
    BY <1>4, <1>5, <1>6, <1>7, <1>8, <1>9, <1>10 DEF IInv, TypeOK, StoreInv

\* Run's cleanups, at its start and every hour.
LEMMA ProcCleanupStep ==
  ASSUME IInv, ProcStart \/ ProcCleanup
  PROVE  IInv'
  <1>1. /\ Cleanup \/ CleanupFails
        /\ UNCHANGED <<now, sess, wire, late, issued, received, receivedAt, wake>>
        /\ proc' \in {ProcAt("scan"), ProcAt("done")}
        /\ agent' = agent \/ agent' = "stopping"
        /\ proc.pc \in {"start", "wait"}
    BY DEF ProcStart, ProcCleanup, ProcFrame, ProcFails, centerVars
  <1>2. resultReady' \in BOOLEAN
    BY Zenon DEF ProcStart, ProcCleanup, IInv, TypeOK
  <1>3. faults' \in Nat
    BY DEF ProcStart, ProcCleanup, IInv, TypeOK, Fault
  <1>4. agent # "down" /\ agent' # "down"
    BY <1>1 DEF IInv, ControlInv
  <1>5. /\ StoreInv'
        /\ \A m \in ResultMessage : Sent(m) => Sent(m)'
        /\ \A c \in Commands : Kept(c) \/ Removed(c)
    BY <1>1, <1>4, CleanupStep
  <1>6. proc'.pc \in {"scan", "done"}
    BY <1>1 DEF ProcAt
  <1>7. TypeOK'
    <2>1. proc' \in [pc : ProcPcs, cmd : Commands \cup {None},
                     digest : Digests \cup {None}, result : Result \cup {None}]
      BY <1>1, ProcAtType DEF ProcPcs
    <2> QED
      BY <1>1, <1>2, <1>3, <1>5, <2>1 DEF IInv, TypeOK, StoreInv
  <1>8. ControlInv'
    BY <1>1, <1>4, <1>6 DEF IInv, ControlInv
  <1>9. sess.pc = "awaitResult" => mem'[sess.cmd] = mem[sess.cmd]
    BY <1>5 DEF IInv, ControlInv, StoreCallsMatch, InState, Kept, Removed
  <1>10. StoreCallsMatch'
    BY <1>1, <1>6, <1>9 DEF IInv, StoreCallsMatch, InState
  <1>11. FreshInv'
    BY <1>1, <1>5 DEF IInv, FreshInv, InState, Kept, Removed
  <1>12. SentInv'
    BY <1>1, <1>5 DEF IInv, SentInv, TypeOK
  <1>13. WireInv'
    BY <1>1, <1>9 DEF IInv, WireInv
  <1> QED
    BY <1>5, <1>7, <1>8, <1>10, <1>11, <1>12, <1>13 DEF IInv, StoreInv

\* Store.Complete.
LEMMA ProcCompleteStep ==
  ASSUME IInv, PowerSafe, ProcComplete
  PROVE  IInv'
  <1> DEFINE c == proc.cmd
             record == Completed(c, proc.result)
  <1>1. /\ proc.pc = "complete" /\ agent # "down" /\ c \in Commands
        /\ proc.result \in Result /\ proc.result.digest = proc.digest
        /\ mem[c] # None /\ mem[c] \in Record /\ mem[c].state = "pending"
        /\ mem[c].digest = proc.digest /\ disk[c] = mem[c]
    BY DEF ProcComplete, IInv, ControlInv, StoreCallsMatch, InState, TypeOK, StoreTypeOK, FreshInv
  <1>2. /\ record \in Record /\ record.state = "completed"
        /\ record.digest = mem[c].digest /\ record.result = proc.result
    BY <1>1, CompletedType DEF IInv, TypeOK, Completed, Record
  <1>3. GoodRecord(c, mem[c]) /\ Covers(c, mem[c])
    BY <1>1 DEF IInv, RecordInv, CoverInv
  <1>4. received[c][record.digest] = {}
    <2> HIDE DEF c, record
    <2>a. record.digest \in Digests
      BY <1>1, <1>2 DEF Record
    <2>1. received[c][record.digest] \in SUBSET Result
      BY <1>1, <2>a DEF IInv, TypeOK
    <2> QED
      BY <1>1, <1>2, <1>3, <2>1 DEF GoodRecord
  <1>5. \A d, r : ~Answers(mem[c], d, r)
    BY <1>1 DEF Answers
  <1>6. GoodRecord(c, record) /\ Covers(c, record) /\ Follows(c, record)
    BY <1>1, <1>2, <1>3, <1>4, <1>5 DEF GoodRecord, Covers, Follows
  <1>7. /\ Write(c, record) \/ WriteFails(c, record)
        /\ UNCHANGED <<now, sess, wire, late, issued, received, receivedAt, wake>>
        /\ agent' = agent \/ agent' = "stopping"
        /\ \/ Write(c, record) /\ proc' = ProcAt("scan")
           \/ WriteFails(c, record) /\ proc' = ProcAt("done")
    BY DEF ProcComplete, ProcFrame, ProcFails, centerVars
  <1>8. resultReady' \in BOOLEAN
    BY Zenon DEF ProcComplete, IInv, TypeOK
  <1>9. faults' \in Nat
    BY DEF ProcComplete, IInv, TypeOK, Fault
  <1> HIDE DEF c, record
  <1>10. StoreInv' /\ \A m \in ResultMessage : Sent(m) => Sent(m)'
    BY <1>1, <1>2, <1>5, <1>6, <1>7, WriteStep
  <1>11. proc'.pc \in {"scan", "done"}
    BY <1>7 DEF ProcAt
  <1>12. TypeOK'
    <2>1. proc' \in [pc : ProcPcs, cmd : Commands \cup {None},
                     digest : Digests \cup {None}, result : Result \cup {None}]
      BY <1>7, ProcAtType DEF ProcPcs
    <2> QED
      BY <1>7, <1>8, <1>9, <1>10, <2>1 DEF IInv, TypeOK, StoreInv
  <1>13. ControlInv'
    BY <1>1, <1>7, <1>11 DEF IInv, ControlInv
  <1>14. \A e \in Commands : e # c => mem'[e] = mem[e] /\ disk'[e] = disk[e]
    BY <1>7 DEF Write, WriteFails, IInv, TypeOK, StoreTypeOK
  <1>15. sess.pc = "awaitResult" => mem'[sess.cmd] = mem[sess.cmd]
    BY <1>1, <1>14 DEF IInv, ControlInv, StoreCallsMatch, InState
  <1>16. StoreCallsMatch' /\ WireInv'
    BY <1>7, <1>11, <1>15 DEF IInv, StoreCallsMatch, WireInv, InState
  <1>17. FreshInv'
    <2>1. CASE WriteFails(c, record) /\ proc' = ProcAt("done")
      BY <2>1 DEF FreshInv, ProcAt
    <2>2. CASE Write(c, record)
      <3>1. mem'[c] = disk'[c]
        BY <1>1, <2>2 DEF Write, IInv, TypeOK, StoreTypeOK
      <3> QED
        BY <3>1, <1>1, <1>14 DEF IInv, FreshInv, InState
    <2> QED
      BY <1>7, <2>1, <2>2
  <1>18. SentInv'
    BY <1>7, <1>10 DEF IInv, SentInv, TypeOK
  <1> QED
    BY <1>10, <1>12, <1>13, <1>16, <1>17, <1>18 DEF IInv, StoreInv

\* A session step that leaves no message on the wire and a session that is
\* not waiting for one.
LEMMA SessionResets ==
  ASSUME IInv, wire' = None, late' = late, sess' \in {SessAt("off"), SessAt("check")},
         UNCHANGED <<now, proc, issued, agent, resultReady>>,
         agent # "down", wake' \in BOOLEAN, faults' \in Nat,
         StoreInv', \A m \in ResultMessage : Sent(m) => Sent(m)',
         proc.pc \in {"exec", "complete"} => mem'[proc.cmd] = mem[proc.cmd],
         \A c \in Commands : mem'[c] = disk'[c] \/ Kept(c) \/ mem'[c] = None
                            \/ mem'[c].state # "pending"
  PROVE  IInv'
  <1>1. sess'.pc \in {"off", "check"}
    BY DEF SessAt
  <1>2. TypeOK'
    <2>1. sess' \in [pc : SessPcs, cmd : Commands \cup {None},
                     digest : Digests \cup {None}, sentAt : Nat]
      BY SessAtType DEF SessPcs
    <2> QED
      BY <2>1 DEF IInv, TypeOK, StoreInv
  <1>3. ControlInv' /\ StoreCallsMatch'
    BY <1>1 DEF IInv, ControlInv, StoreCallsMatch, InState
  <1>4. FreshInv'
    BY DEF IInv, FreshInv, InState, Kept
  <1>5. /\ wire' \notin ResultMessage /\ wire' \notin ResultAck
        /\ wire' \notin BeatAck /\ wire' \notin BeatMessage
    BY MessageKinds
  <1>6. SentInv' /\ WireInv'
    BY <1>1, <1>5 DEF IInv, SentInv, WireInv, TypeOK
  <1> QED
    BY <1>2, <1>3, <1>4, <1>6 DEF IInv, StoreInv

\* Store.Acknowledge.
LEMMA OnResultAckStep ==
  ASSUME IInv, PowerSafe, OnResultAck
  PROVE  IInv'
  <1> DEFINE c == sess.cmd
             record == Acknowledged(c)
  <1>1. /\ sess.pc = "awaitResult" /\ wire \in ResultAck
        /\ sess.digest \in Digests /\ c \in Commands
        /\ mem[c] # None /\ mem[c] \in Record /\ mem[c].state = "completed"
        /\ mem[c].digest = sess.digest
    BY DEF OnResultAck, IInv, ControlInv, StoreCallsMatch, InState, TypeOK, StoreTypeOK
  <1>2. agent # "down"
    BY <1>1 DEF IInv, ControlInv
  <1>3. /\ record \in Record /\ record.state = "acknowledged" /\ record.acknowledgedAt = now
        /\ record.digest = mem[c].digest /\ record.result = mem[c].result
    BY <1>1, AcknowledgedType DEF IInv, TypeOK, Acknowledged, Record
  <1>4. /\ GoodRecord(c, mem[c]) /\ Covers(c, mem[c])
        /\ mem[c].result \in received[c][mem[c].digest]
    BY <1>1, <1>2 DEF IInv, RecordInv, CoverInv, WireInv
  <1>5. receivedAt[c][mem[c].digest] <= now
    BY <1>1, <1>4 DEF IInv, ClockInv
  <1>6. \A d, r : Answers(mem[c], d, r) => Answers(record, d, r)
    BY <1>3 DEF Answers
  <1>7. \A d, r : Answers(disk[c], d, r) => Answers(record, d, r)
    BY <1>1, <1>2, <1>3 DEF Answers, IInv, MemoryNeverAhead
  <1>8. GoodRecord(c, record) /\ Covers(c, record) /\ Follows(c, record)
    BY <1>1, <1>3, <1>4, <1>5, <1>6 DEF GoodRecord, Covers, Follows
  <1>9. /\ Write(c, record) \/ WriteFails(c, record)
        /\ UNCHANGED <<now, proc, issued, received, receivedAt, agent, wake, resultReady, late>>
        /\ wire' = None /\ sess' \in {SessAt("off"), SessAt("check")}
    BY DEF OnResultAck, SessFrame, centerVars
  <1>10. faults' \in Nat /\ wake' \in BOOLEAN
    BY <1>9 DEF OnResultAck, IInv, TypeOK, Fault
  <1> HIDE DEF c, record
  <1>11. StoreInv' /\ \A m \in ResultMessage : Sent(m) => Sent(m)'
    BY <1>1, <1>2, <1>3, <1>6, <1>7, <1>8, <1>9, WriteStep
  <1>12. /\ \A e \in Commands : e # c => Kept(e)
         /\ mem'[c] \in {mem[c], record}
    BY <1>1, <1>9 DEF Write, WriteFails, IInv, TypeOK, StoreTypeOK, Kept
  <1>13. proc.pc \in {"exec", "complete"} => mem'[proc.cmd] = mem[proc.cmd]
    BY <1>1, <1>12 DEF IInv, ControlInv, StoreCallsMatch, InState, Kept
  <1>14. \A e \in Commands : mem'[e] = disk'[e] \/ Kept(e) \/ mem'[e] = None
                             \/ mem'[e].state # "pending"
    BY <1>1, <1>3, <1>12
  <1> QED
    BY <1>2, <1>9, <1>10, <1>11, <1>13, <1>14, SessionResets

\* Processor.Accept of a new command.  The heart of the argument: a command
\* for which the center has a result is not new, because its record is kept
\* for longer than the center repeats it.
LEMMA AcceptNewStep ==
  ASSUME IInv, PowerSafe, AcceptNew
  PROVE  IInv'
  <1> DEFINE c == wire.cmd
             record == Accepted(wire.digest)
  <1>1. /\ wire \in BeatAck /\ c \in Commands /\ wire.digest \in Digests
        /\ mem[c] = None /\ sess.pc = "awaitBeat"
        /\ now <= sess.sentAt + ReadDeadline
    BY DEF AcceptNew, BeatAnswered, BeatAck
  <1>2. agent # "down"
    BY <1>1 DEF IInv, ControlInv
  <1>3. /\ record \in Record /\ record.state = "pending"
        /\ record.digest = wire.digest /\ record.result = None
    BY <1>1, AcceptedType DEF IInv, TypeOK, Accepted
  <1>4. /\ Covers(c, mem[c]) /\ \A d, r : ~Answers(mem[c], d, r)
        /\ \A d, r : ~Answers(disk[c], d, r)
    BY <1>1, <1>2 DEF IInv, CoverInv, Answers, MemoryNeverAhead
  <1>5. received[c][wire.digest] = {}
    <2> SUFFICES ASSUME NEW r \in received[c][wire.digest]
                 PROVE  FALSE
      OBVIOUS
    <2>1. Forgotten(c, wire.digest)
      BY <1>1, <1>4 DEF Covers
    <2>2. sess.sentAt <= receivedAt[c][wire.digest] + RedeliveryWindow
      BY <1>1 DEF IInv, WireInv
    <2>3. sess.sentAt \in Nat /\ now \in Nat /\ receivedAt[c][wire.digest] \in Nat
      <3> HIDE DEF c
      <3>1. sess.sentAt \in Nat /\ now \in Nat
        BY DEF IInv, TypeOK, StoreTypeOK
      <3>2. receivedAt[c] \in [Digests -> Nat]
        BY <1>1 DEF IInv, TypeOK
      <3> QED
        BY <1>1, <3>1, <3>2
    <2> QED
      BY <1>1, <2>1, <2>2, <2>3 DEF Forgotten
  <1>6. GoodRecord(c, record) /\ Covers(c, record) /\ Follows(c, record)
    BY <1>1, <1>3, <1>4, <1>5 DEF GoodRecord, Covers, Follows
  <1>7. /\ Write(c, record) \/ WriteFails(c, record)
        /\ UNCHANGED <<now, proc, issued, received, receivedAt, agent, resultReady, late>>
        /\ wire' = None /\ sess' \in {SessAt("off"), SessAt("check")}
    BY DEF AcceptNew, BeatAnswered, SessFrame, centerVars
  <1>8. faults' \in Nat
    BY DEF AcceptNew, IInv, TypeOK, Fault
  <1>9. wake' \in BOOLEAN
    BY Zenon DEF AcceptNew, IInv, TypeOK
  <1> HIDE DEF c, record
  <1>10. StoreInv' /\ \A m \in ResultMessage : Sent(m) => Sent(m)'
    BY <1>1, <1>2, <1>3, <1>4, <1>6, <1>7, WriteStep
  <1>11. /\ \A e \in Commands : e # c => Kept(e)
         /\ mem'[c] = None \/ mem'[c] = disk'[c]
    BY <1>1, <1>7 DEF Write, WriteFails, IInv, TypeOK, StoreTypeOK, Kept
  <1>12. proc.pc \in {"exec", "complete"} => mem'[proc.cmd] = mem[proc.cmd]
    BY <1>1, <1>11 DEF IInv, ControlInv, StoreCallsMatch, InState, Kept
  <1>13. \A e \in Commands : mem'[e] = disk'[e] \/ Kept(e) \/ mem'[e] = None
                             \/ mem'[e].state # "pending"
    BY <1>11
  <1> QED
    BY <1>2, <1>7, <1>8, <1>9, <1>10, <1>12, <1>13, SessionResets

-----------------------------------------------------------------------------
(* Steps that change what the center has, the clock, or the process.       *)

\* A result reaches the center: the first one for its request, or the same
\* again.
LEMMA ReceiveStep ==
  ASSUME IInv, NEW m \in ResultMessage, Sent(m), Receive(m),
         UNCHANGED <<disk, synced, mem, now, agent>>
  PROVE  /\ StoreInv'
         /\ \A x \in ResultMessage : Sent(x) => Sent(x)'
         /\ \A c \in Commands, d \in Digests :
              /\ received[c][d] \subseteq received'[c][d]
              /\ received[c][d] # {} => receivedAt'[c][d] = receivedAt[c][d]
              /\ received[c][d] = {} /\ received'[c][d] # {} => receivedAt'[c][d] = now
         /\ m.result \in received'[m.cmd][m.result.digest]
  <1> DEFINE mc == m.cmd
             md == m.result.digest
  <1>1. mc \in Commands /\ m.result \in Result /\ md \in Digests
    BY DEF ResultMessage, Result
  <1>2. /\ received \in [Commands -> [Digests -> SUBSET Result]]
        /\ receivedAt \in [Commands -> [Digests -> Nat]] /\ now \in Nat
    BY DEF IInv, TypeOK, StoreTypeOK
  <1>3. /\ received' \in [Commands -> [Digests -> SUBSET Result]]
        /\ receivedAt' \in [Commands -> [Digests -> Nat]]
    BY ReceiveType DEF IInv
  <1>4. /\ received' = [received EXCEPT ![mc] = [received[mc] EXCEPT ![md] = @ \cup {m.result}]]
        /\ receivedAt' = IF received[mc][md] = {}
                         THEN [receivedAt EXCEPT ![mc] = [receivedAt[mc] EXCEPT ![md] = now]]
                         ELSE receivedAt
    BY DEF Receive
  <1>5. /\ received[mc][md] \subseteq {m.result}
        /\ \/ /\ Answers(disk[mc], md, m.result)
              /\ agent # "down" => Answers(mem[mc], md, m.result)
           \/ received[mc][md] # {} /\ Forgotten(mc, md)
    BY DEF Sent
  <1> HIDE DEF mc, md
  <1>6. \A c \in Commands, d \in Digests :
          ~(c = mc /\ d = md) => /\ received'[c][d] = received[c][d]
                               /\ receivedAt'[c][d] = receivedAt[c][d]
    BY <1>1, <1>2, <1>4
  <1>7. /\ received'[mc][md] = {m.result}
        /\ IF received[mc][md] = {} THEN receivedAt'[mc][md] = now
                                    ELSE received'[mc][md] = received[mc][md]
                                         /\ receivedAt'[mc][md] = receivedAt[mc][md]
    <2>1. received'[mc][md] = received[mc][md] \cup {m.result}
      BY <1>1, <1>2, <1>4
    <2>2. IF received[mc][md] = {} THEN receivedAt'[mc][md] = now
                                   ELSE receivedAt'[mc][md] = receivedAt[mc][md]
      BY <1>1, <1>2, <1>4
    <2> QED
      BY <1>5, <2>1, <2>2
  <1>8. StoreTypeOK' /\ MemoryNeverAhead'
    BY DEF IInv, TypeOK, StoreTypeOK, MemoryNeverAhead
  <1>9. OneResult'
    <2> SUFFICES ASSUME NEW c \in Commands, NEW d \in Digests,
                        NEW r1 \in received'[c][d], NEW r2 \in received'[c][d]
                 PROVE  r1 = r2
      BY DEF OneResult
    <2>1. CASE c = mc /\ d = md
      BY <1>7, <2>1
    <2>2. CASE ~(c = mc /\ d = md)
      BY <1>6, <2>2 DEF IInv, OneResult
    <2> QED
      BY <2>1, <2>2
  <1>10. ClockInv'
    <2> SUFFICES ASSUME NEW c \in Commands, NEW d \in Digests, received'[c][d] # {}
                 PROVE  receivedAt'[c][d] <= now
      BY DEF ClockInv
    <2> now \in Nat
      BY DEF IInv, TypeOK, StoreTypeOK
    <2> ClockInv
      BY DEF IInv
    <2>1. CASE c = mc /\ d = md
      <3>1. CASE received[mc][md] = {}
        <4>1. receivedAt'[c][d] = now
          BY <1>7, <2>1, <3>1
        <4> QED
          BY <4>1
      <3>2. CASE received[mc][md] # {}
        <4>1. receivedAt'[c][d] = receivedAt[c][d] /\ received[c][d] # {}
          BY <1>7, <2>1, <3>2
        <4> QED
          BY <4>1 DEF ClockInv
      <3> QED
        BY <3>1, <3>2
    <2>2. CASE ~(c = mc /\ d = md)
      BY <1>6, <2>2 DEF ClockInv
    <2> QED
      BY <2>1, <2>2
  <1>11. ASSUME NEW c \in Commands, NEW rec \in Record \cup {None}, GoodRecord(c, rec),
                c = mc /\ received[mc][md] = {} /\ rec # None
                  => rec.digest = md /\ rec.result = m.result
         PROVE  GoodRecord(c, rec)'
    <2> SUFFICES ASSUME rec # None
                 PROVE  /\ received'[c][rec.digest] \subseteq {rec.result}
                        /\ rec.state = "acknowledged" =>
                             /\ rec.result \in received'[c][rec.digest]
                             /\ receivedAt'[c][rec.digest] <= rec.acknowledgedAt
      BY <1>11 DEF GoodRecord
    <2>1. rec.digest \in Digests
      BY DEF Record
    <2>2. CASE c = mc /\ rec.digest = md /\ received[mc][md] = {}
      BY <1>7, <1>11, <2>2 DEF GoodRecord
    <2>3. CASE ~(c = mc /\ rec.digest = md /\ received[mc][md] = {})
      <3>1. /\ received'[c][rec.digest] = received[c][rec.digest]
            /\ receivedAt'[c][rec.digest] = receivedAt[c][rec.digest]
        BY <1>6, <1>7, <2>1, <2>3
      <3> QED
        BY <3>1, <1>11 DEF GoodRecord
    <2> QED
      BY <2>2, <2>3
  <1>12. RecordInv'
    <2> SUFFICES ASSUME NEW c \in Commands
                 PROVE  GoodRecord(c, disk[c])' /\ GoodRecord(c, mem[c])'
      BY DEF RecordInv
    <2>1. disk[c] \in Record \cup {None} /\ mem[c] \in Record \cup {None}
      BY DEF IInv, TypeOK, StoreTypeOK
    <2>2. GoodRecord(c, disk[c]) /\ GoodRecord(c, mem[c])
      BY DEF IInv, RecordInv
    <2>3. c = mc /\ received[mc][md] = {} =>
            /\ disk[c] # None => disk[c].digest = md /\ disk[c].result = m.result
            /\ mem[c] # None => mem[c].digest = md /\ mem[c].result = m.result
      BY <1>5 DEF Answers, IInv, ControlInv
    <2> QED
      BY <1>11, <2>1, <2>2, <2>3
  <1>13. CoverInv'
    <2> SUFFICES ASSUME NEW c \in Commands, NEW d \in Digests, NEW r \in received'[c][d]
                 PROVE  /\ Answers(disk[c], d, r) \/ Forgotten(c, d)'
                        /\ agent # "down" => Answers(mem[c], d, r) \/ Forgotten(c, d)'
      BY DEF CoverInv, Covers, Answers
    <2>1. CASE c = mc /\ d = md /\ received[mc][md] = {}
      BY <1>5, <1>7, <2>1
    <2>2. CASE ~(c = mc /\ d = md /\ received[mc][md] = {})
      <3>1. received'[c][d] = received[c][d] /\ receivedAt'[c][d] = receivedAt[c][d]
        BY <1>6, <1>7, <2>2
      <3> QED
        BY <3>1 DEF IInv, CoverInv, Covers, Forgotten
    <2> QED
      BY <2>1, <2>2
  <1>14. SyncInv'
    <2> SUFFICES ASSUME PowerMayFail, NEW c \in Commands, synced[c] # disk[c]
                 PROVE  /\ disk[c] = None /\ synced[c] # None
                        /\ synced[c].state = "acknowledged" /\ GoodRecord(c, synced[c])'
      BY DEF SyncInv
    <2>1. /\ disk[c] = None /\ synced[c] # None
          /\ synced[c].state = "acknowledged" /\ GoodRecord(c, synced[c])
          /\ synced[c] \in Record \cup {None}
      BY DEF IInv, SyncInv, TypeOK, StoreTypeOK
    <2>2. ~(c = mc /\ received[mc][md] = {})
      BY <1>5, <2>1 DEF Answers
    <2> QED
      BY <1>11, <2>1, <2>2
  <1>15. \A x \in ResultMessage : Sent(x) => Sent(x)'
    <2> TAKE x \in ResultMessage
    <2> HAVE Sent(x)
    <2> DEFINE xc == x.cmd
               xd == x.result.digest
    <2>1. xc \in Commands /\ xd \in Digests
      BY DEF ResultMessage, Result
    <2>2. /\ received[xc][xd] \subseteq {x.result}
          /\ \/ /\ Answers(disk[xc], xd, x.result)
                /\ agent # "down" => Answers(mem[xc], xd, x.result)
             \/ received[xc][xd] # {} /\ Forgotten(xc, xd)
      BY DEF Sent
    <2> SUFFICES /\ received'[xc][xd] \subseteq {x.result}
                 /\ \/ /\ Answers(disk[xc], xd, x.result)
                       /\ agent # "down" => Answers(mem[xc], xd, x.result)
                    \/ received'[xc][xd] # {} /\ Forgotten(xc, xd)'
      BY DEF Sent, Answers
    <2> HIDE DEF xc, xd
    <2>3. CASE xc = mc /\ xd = md /\ received[mc][md] = {}
      BY <1>5, <1>7, <2>2, <2>3 DEF Answers
    <2>4. CASE ~(xc = mc /\ xd = md /\ received[mc][md] = {})
      <3>1. received'[xc][xd] = received[xc][xd] /\ receivedAt'[xc][xd] = receivedAt[xc][xd]
        BY <1>6, <1>7, <2>1, <2>4
      <3> QED
        BY <2>2, <3>1 DEF Forgotten
    <2> QED
      BY <2>3, <2>4
  <1>16. \A c \in Commands, d \in Digests :
           /\ received[c][d] \subseteq received'[c][d]
           /\ received[c][d] # {} => receivedAt'[c][d] = receivedAt[c][d]
           /\ received[c][d] = {} /\ received'[c][d] # {} => receivedAt'[c][d] = now
    <2> TAKE c \in Commands, d \in Digests
    <2>1. CASE c = mc /\ d = md
      BY <1>7, <2>1
    <2>2. CASE ~(c = mc /\ d = md)
      BY <1>6, <2>2
    <2> QED
      BY <2>1, <2>2
  <1>17. m.result \in received'[m.cmd][m.result.digest]
    BY <1>7 DEF mc, md
  <1> QED
    BY <1>3, <1>8, <1>9, <1>10, <1>12, <1>13, <1>14, <1>15, <1>16, <1>17 DEF StoreInv

\* The center taking the result on the connection keeps the invariant.
LEMMA CenterResultStep ==
  ASSUME IInv, CenterResult
  PROVE  IInv'
  <1> USE DEF AgentVars, storeVars, procVars
  <1>1. /\ wire \in ResultMessage /\ Sent(wire) /\ Receive(wire)
        /\ wire' = [type |-> "resultAck", cmd |-> wire.cmd, digest |-> wire.result.digest]
        /\ UNCHANGED <<disk, synced, mem, now, agent, proc, wake, resultReady, sess, faults,
                       late, issued>>
    BY DEF CenterResult, IInv, SentInv
  <1>2. /\ StoreInv' /\ \A x \in ResultMessage : Sent(x) => Sent(x)'
        /\ wire.result \in received'[wire.cmd][wire.result.digest]
    BY <1>1, ReceiveStep
  <1>3. /\ wire' \in ResultAck /\ wire' \notin ResultMessage
        /\ wire' \notin BeatAck /\ wire' \notin BeatMessage /\ wire # None
    BY <1>1, MessageKinds DEF ResultMessage, ResultAck, Result
  <1>4. TypeOK'
    BY <1>1, <1>2, <1>3 DEF IInv, TypeOK, StoreInv, Message
  <1>5. ControlInv' /\ StoreCallsMatch' /\ FreshInv'
    BY <1>1 DEF IInv, ControlInv, StoreCallsMatch, FreshInv, InState
  <1>6. SentInv'
    BY <1>1, <1>2, <1>3 DEF IInv, SentInv, TypeOK
  <1>7. /\ sess.pc = "awaitResult" /\ wire'.cmd = sess.cmd
        /\ mem[sess.cmd].result \in received'[sess.cmd][sess.digest]
    <2>1. /\ sess.pc = "awaitResult" /\ wire.cmd = sess.cmd
          /\ wire.result = mem[sess.cmd].result
      BY <1>1 DEF IInv, WireInv
    <2>2. /\ sess.cmd \in Commands /\ mem[sess.cmd] # None
          /\ mem[sess.cmd].digest = sess.digest /\ GoodRecord(sess.cmd, mem[sess.cmd])
      BY <2>1 DEF IInv, ControlInv, StoreCallsMatch, InState, RecordInv
    <2>3. wire.result # None
      BY <1>1 DEF ResultMessage
    <2>4. wire.result.digest = sess.digest
      BY <2>1, <2>2, <2>3 DEF GoodRecord
    <2> QED
      BY <1>1, <1>2, <2>1, <2>4
  <1>8. WireInv'
    BY <1>1, <1>3, <1>7 DEF IInv, WireInv
  <1> QED
    BY <1>2, <1>4, <1>5, <1>6, <1>8 DEF IInv, StoreInv

\* The center taking a result from a connection the Agent gave up keeps the invariant.
LEMMA CenterLateResultStep ==
  ASSUME IInv, CenterLateResult
  PROVE  IInv'
  <1> USE DEF AgentVars, storeVars, procVars
  <1>1. PICK m \in late :
          /\ Receive(m) /\ late' = late \ {m}
          /\ UNCHANGED <<disk, synced, mem, now, agent, proc, wake, resultReady, sess, faults,
                         wire, issued>>
    BY DEF CenterLateResult
  <1>2. m \in ResultMessage /\ Sent(m)
    BY DEF IInv, TypeOK, SentInv
  <1>3. /\ StoreInv' /\ \A x \in ResultMessage : Sent(x) => Sent(x)'
        /\ \A c \in Commands, d \in Digests :
              /\ received[c][d] \subseteq received'[c][d]
              /\ received[c][d] # {} => receivedAt'[c][d] = receivedAt[c][d]
              /\ received[c][d] = {} /\ received'[c][d] # {} => receivedAt'[c][d] = now
    BY <1>1, <1>2, ReceiveStep
  <1>4. TypeOK'
    BY <1>1, <1>3 DEF IInv, TypeOK, StoreInv
  <1>5. ControlInv' /\ StoreCallsMatch' /\ FreshInv'
    BY <1>1 DEF IInv, ControlInv, StoreCallsMatch, FreshInv, InState
  <1>6. SentInv'
    BY <1>1, <1>3 DEF IInv, SentInv, TypeOK
  <1>7. wire \in ResultAck => mem[sess.cmd].result \in received'[sess.cmd][sess.digest]
    BY <1>3 DEF IInv, WireInv, ControlInv
  <1>8. ASSUME wire \in BeatAck, received'[wire.cmd][wire.digest] # {}
        PROVE  sess.sentAt <= receivedAt'[wire.cmd][wire.digest] + RedeliveryWindow
    <2>1. wire.cmd \in Commands /\ wire.digest \in Digests
      BY <1>8 DEF BeatAck
    <2>2. sess.sentAt <= now /\ sess.sentAt \in Nat /\ now \in Nat
      BY <1>8 DEF IInv, WireInv, TypeOK, StoreTypeOK
    <2> DEFINE c == wire.cmd
               d == wire.digest
    <2>3. /\ received[c][d] # {} => receivedAt'[c][d] = receivedAt[c][d]
          /\ received[c][d] = {} => receivedAt'[c][d] = now
      BY <1>3, <1>8, <2>1
    <2>4. received[c][d] # {} => sess.sentAt <= receivedAt[c][d] + RedeliveryWindow
      BY <1>8 DEF IInv, WireInv
    <2>5. RedeliveryWindow \in Nat
      BY CommandFlowAssumption
    <2> HIDE DEF c, d
    <2>6. sess.sentAt <= receivedAt'[c][d] + RedeliveryWindow
      BY <2>2, <2>3, <2>4, <2>5
    <2> QED
      BY <2>6 DEF c, d
  <1>9. WireInv'
    BY <1>1, <1>7, <1>8 DEF IInv, WireInv
  <1> QED
    BY <1>3, <1>4, <1>5, <1>6, <1>9 DEF IInv, StoreInv

\* The passing of time keeps the invariant.
LEMMA TickStep ==
  ASSUME IInv, Tick
  PROVE  IInv'
  <1>1. /\ now' = now + 1 /\ now \in Nat
        /\ UNCHANGED <<disk, synced, mem, agent, proc, wake, resultReady, sess, wire, late,
                       issued, received, receivedAt, faults>>
    BY DEF Tick, IInv, TypeOK, StoreTypeOK, storeVars, procVars, centerVars
  <1>2. \A c \in Commands, d \in Digests : receivedAt[c][d] \in Nat
    BY DEF IInv, TypeOK
  <1>3. \A c \in Commands, d \in Digests : Forgotten(c, d) => Forgotten(c, d)'
    BY <1>1, <1>2 DEF Forgotten
  <1>4. TypeOK' /\ ControlInv' /\ StoreCallsMatch' /\ FreshInv' /\ MemoryNeverAhead' /\ OneResult'
    BY <1>1 DEF IInv, TypeOK, StoreTypeOK, ControlInv, StoreCallsMatch, FreshInv, InState,
                MemoryNeverAhead, OneResult
  <1>5. RecordInv' /\ SyncInv'
    BY <1>1 DEF IInv, RecordInv, SyncInv, GoodRecord
  <1>6. CoverInv'
    <2> SUFFICES ASSUME NEW c \in Commands
                 PROVE  Covers(c, disk[c])' /\ (agent # "down" => Covers(c, mem[c])')
      BY <1>1 DEF CoverInv
    <2>1. Covers(c, disk[c]) /\ (agent # "down" => Covers(c, mem[c]))
      BY DEF IInv, CoverInv
    <2> QED
      BY <1>1, <1>3, <2>1 DEF Covers, Answers
  <1>7. \A m \in ResultMessage : Sent(m) => Sent(m)'
    BY <1>1, <1>3 DEF Sent, Answers, ResultMessage, Result
  <1>8. SentInv'
    BY <1>1, <1>7 DEF IInv, SentInv, TypeOK
  <1>9. ClockInv'
    <2> SUFFICES ASSUME NEW c \in Commands, NEW d \in Digests, received[c][d] # {}
                 PROVE  receivedAt[c][d] <= now'
      BY <1>1 DEF ClockInv
    <2>1. receivedAt[c][d] <= now
      BY DEF IInv, ClockInv
    <2>2. receivedAt[c][d] \in Nat
      BY <1>2
    <2> QED
      BY <1>1, <2>1, <2>2
  <1>10. sess.sentAt \in Nat
    BY DEF IInv, TypeOK
  <1>11. WireInv'
    BY <1>1, <1>10 DEF IInv, WireInv
  <1> QED
    BY <1>4, <1>5, <1>6, <1>8, <1>9, <1>11 DEF IInv

\* A new process reads back the files and keeps the invariant.
LEMMA BootStep ==
  ASSUME IInv, Boot
  PROVE  IInv'
  <1>1. /\ agent = "down" /\ agent' = "up" /\ mem' = disk /\ disk' = disk
        /\ synced' \in {synced, disk} /\ proc' = ProcAt("start")
        /\ UNCHANGED <<wake, resultReady, now, sess, wire, late, issued, received,
                       receivedAt, faults>>
    BY DEF Boot, OpenStore, centerVars
  <1>2. sess.pc = "off" /\ wire = None
    BY <1>1 DEF IInv, ControlInv, WireInv
  <1>3. proc'.pc = "start"
    BY <1>1 DEF ProcAt
  <1>4. TypeOK'
    BY <1>1, ProcAtType DEF IInv, TypeOK, StoreTypeOK, ProcPcs
  <1>5. ControlInv' /\ StoreCallsMatch' /\ FreshInv' /\ MemoryNeverAhead' /\ OneResult' /\ ClockInv'
    BY <1>1, <1>2, <1>3 DEF IInv, ControlInv, StoreCallsMatch, FreshInv, InState,
                MemoryNeverAhead, OneResult, ClockInv
  <1>6. RecordInv' /\ SyncInv'
    BY <1>1 DEF IInv, RecordInv, SyncInv, GoodRecord
  <1>7. CoverInv'
    BY <1>1 DEF IInv, CoverInv, Covers, Answers, Forgotten
  <1>8. \A m : Sent(m) => Sent(m)'
    BY <1>1 DEF Sent, Answers, Forgotten
  <1>9. SentInv' /\ WireInv'
    BY <1>1, <1>2, <1>8, MessageKinds DEF IInv, SentInv, WireInv
  <1> QED
    BY <1>4, <1>5, <1>6, <1>7, <1>9 DEF IInv

\* The process ends, by itself or not, and the files are what they were.
LEMMA DownStep ==
  ASSUME IInv, Crash \/ PowerLoss \/ Exit
  PROVE  IInv'
  <1>1. /\ Down /\ UNCHANGED <<now, issued, received, receivedAt>> /\ faults' \in Nat
        /\ Disconnect \/ (sess.pc = "off" /\ UNCHANGED <<sess, wire, late>>)
        /\ UNCHANGED <<disk, synced>> \/ (LosePower /\ PowerMayFail)
    BY DEF Crash, PowerLoss, Exit, Fault, IInv, TypeOK, centerVars
  <1>2. /\ agent' = "down" /\ proc'.pc = "done" /\ proc' = ProcAt("done")
        /\ mem' = [c \in Commands |-> None] /\ wake' = FALSE /\ resultReady' = FALSE
    BY <1>1 DEF Down, ProcAt
  <1>3. sess'.pc = "off" /\ wire' = None
    BY <1>1 DEF Disconnect, SessAt, IInv, WireInv
  <1>4. \A m \in late' : m \in late \/ (wire \in ResultMessage /\ m = wire)
    BY <1>1 DEF Disconnect
  <1>5. ASSUME NEW c \in Commands
        PROVE  /\ GoodRecord(c, disk'[c]) /\ Covers(c, disk'[c])
               /\ \A d, r : Answers(disk[c], d, r) => Answers(disk'[c], d, r)
               /\ disk'[c] \in Record \cup {None} /\ synced'[c] \in Record \cup {None}
               /\ PowerMayFail /\ synced'[c] # disk'[c] =>
                    /\ disk'[c] = None /\ synced'[c] # None
                    /\ synced'[c].state = "acknowledged" /\ GoodRecord(c, synced'[c])
    <2>1. /\ GoodRecord(c, disk[c]) /\ Covers(c, disk[c])
          /\ disk[c] \in Record \cup {None} /\ synced[c] \in Record \cup {None}
          /\ PowerMayFail /\ synced[c] # disk[c] =>
               /\ disk[c] = None /\ synced[c] # None
               /\ synced[c].state = "acknowledged" /\ GoodRecord(c, synced[c])
      BY DEF IInv, RecordInv, CoverInv, SyncInv, TypeOK, StoreTypeOK
    <2>2. CASE UNCHANGED <<disk, synced>>
      BY <2>1, <2>2
    <2>3. CASE LosePower /\ PowerMayFail
      <3>1. synced'[c] = disk'[c] /\ (disk'[c] = disk[c] \/ disk'[c] = synced[c])
        BY <2>3 DEF LosePower
      <3>2. disk'[c] = disk[c] \/ disk[c] = None
        BY <2>1, <2>3, <3>1
      <3>3. \A d, r : ~Answers(None, d, r)
        BY DEF Answers
      <3>4. GoodRecord(c, disk'[c])
        BY <2>1, <2>3, <3>1
      <3>5. Covers(c, disk'[c])
        BY <2>1, <3>2, <3>3 DEF Covers
      <3>6. \A d, r : Answers(disk[c], d, r) => Answers(disk'[c], d, r)
        BY <3>2, <3>3
      <3> QED
        BY <2>1, <3>1, <3>4, <3>5, <3>6
    <2> QED
      BY <1>1, <2>2, <2>3
  <1>6. disk' \in [Commands -> Record \cup {None}] /\ synced' \in [Commands -> Record \cup {None}]
    <2>1. CASE UNCHANGED <<disk, synced>>
      BY <2>1 DEF IInv, TypeOK, StoreTypeOK
    <2>2. CASE LosePower
      <3>1. disk' = [c \in Commands |-> disk'[c]] /\ synced' = disk'
        BY <2>2 DEF LosePower
      <3> QED
        BY <1>5, <3>1
    <2> QED
      BY <1>1, <2>1, <2>2
  <1>7. TypeOK'
    <2>1. /\ sess' \in [pc : SessPcs, cmd : Commands \cup {None},
                        digest : Digests \cup {None}, sentAt : Nat]
          /\ wire' \in Message \cup {None}
          /\ late' \in SUBSET ResultMessage
      BY <1>1, DisconnectType DEF IInv, TypeOK
    <2> QED
      BY <1>1, <1>2, <1>6, <2>1, ProcAtType DEF IInv, TypeOK, StoreTypeOK, ProcPcs
  <1>8. ControlInv' /\ StoreCallsMatch' /\ FreshInv' /\ MemoryNeverAhead' /\ OneResult' /\ ClockInv'
    BY <1>1, <1>2, <1>3 DEF IInv, ControlInv, StoreCallsMatch, FreshInv, InState,
                MemoryNeverAhead, OneResult, ClockInv
  <1>9. RecordInv' /\ SyncInv'
    BY <1>1, <1>2, <1>5 DEF RecordInv, SyncInv, GoodRecord
  <1>10. CoverInv'
    BY <1>1, <1>2, <1>5 DEF CoverInv, Covers, Answers, Forgotten
  <1>11. \A m \in ResultMessage : Sent(m) => Sent(m)'
    <2> TAKE m \in ResultMessage
    <2> HAVE Sent(m)
    <2>1. m.cmd \in Commands
      BY DEF ResultMessage
    <2> QED
      BY <1>1, <1>2, <1>5, <2>1 DEF Sent, Answers, Forgotten
  <1>12. SentInv' /\ WireInv'
    BY <1>3, <1>4, <1>11, MessageKinds DEF IInv, SentInv, WireInv, TypeOK
  <1> QED
    BY <1>7, <1>8, <1>9, <1>10, <1>12 DEF IInv

-----------------------------------------------------------------------------
(* The theorems.                                                           *)

\* The invariant holds before the first start.
LEMMA InitIInv ==
  ASSUME Init
  PROVE  IInv
  <1> USE DEF Init, StoreInit
  <1>1. proc.pc = "done" /\ sess.pc = "off"
    BY DEF ProcAt, SessAt
  <1>2. TypeOK
    BY ProcAtType, SessAtType DEF TypeOK, StoreTypeOK, ProcPcs, SessPcs
  <1>3. ControlInv /\ StoreCallsMatch /\ FreshInv /\ MemoryNeverAhead /\ OneResult /\ ClockInv
    BY <1>1 DEF ControlInv, StoreCallsMatch, FreshInv, InState, MemoryNeverAhead, OneResult, ClockInv
  <1>4. RecordInv /\ CoverInv /\ SyncInv
    BY DEF RecordInv, CoverInv, SyncInv, GoodRecord, Covers
  <1>5. SentInv /\ WireInv
    BY <1>1, MessageKinds DEF SentInv, WireInv
  <1> QED
    BY <1>2, <1>3, <1>4, <1>5 DEF IInv

\* A step that changes nothing keeps the invariant.
LEMMA StutterIInv ==
  ASSUME IInv, UNCHANGED vars
  PROVE  IInv'
  <1>1. Still /\ UNCHANGED <<agent, proc, wake, resultReady, sess, wire, late, issued, faults>>
    BY DEF vars, Still
  <1>2. StoreInv' /\ \A m : Sent(m) => Sent(m)'
    BY <1>1, StillStep
  <1>3. UNCHANGED <<now, disk, mem, received, receivedAt>>
    BY <1>1 DEF Still
  <1>4. TypeOK'
    BY <1>1, <1>2 DEF IInv, TypeOK, StoreInv
  <1>5. ControlInv' /\ StoreCallsMatch' /\ FreshInv' /\ WireInv'
    BY <1>1, <1>3 DEF IInv, ControlInv, StoreCallsMatch, FreshInv, InState, WireInv
  <1>6. SentInv'
    BY <1>1, <1>2 DEF IInv, SentInv
  <1> QED
    BY <1>2, <1>4, <1>5, <1>6 DEF IInv, StoreInv

\* Every step keeps the invariant.
LEMMA NextIInv ==
  ASSUME PowerSafe, IInv, [Next]_vars
  PROVE  IInv'
  <1>1. CASE Boot \/ Crash \/ PowerLoss \/ Stop \/ Exit \/ Tick
    BY <1>1, BootStep, DownStep, StopStep, TickStep
  <1>2. CASE Processor
    BY <1>2, ProcStillStep, ProcCleanupStep, ProcCompleteStep DEF Processor
  <1>3. CASE Session
    BY <1>3, SessStillStep, OnResultAckStep, AcceptNewStep DEF Session
  <1>4. CASE Center
    BY <1>4, CenterStillStep, CenterResultStep, CenterLateResultStep DEF Center
  <1>5. CASE UNCHANGED vars
    BY <1>5, StutterIInv
  <1> QED
    BY <1>1, <1>2, <1>3, <1>4, <1>5 DEF Next

\* Every reachable state of the command flow satisfies the invariant above.
THEOREM Inductive ==
  ASSUME PowerSafe
  PROVE  Spec => []IInv
  <1>1. Init => IInv
    BY InitIInv
  <1>2. IInv /\ [Next]_vars => IInv'
    BY NextIInv
  <1> QED
    BY <1>1, <1>2, PTL DEF Spec

\* The states of the program are of the shape the model gives them: in
\* particular every record written by Accept, Complete and Acknowledge, and
\* every message of the session, is complete.
THEOREM TypeCorrect ==
  ASSUME PowerSafe
  PROVE  Spec => []TypeOK
  <1>1. IInv => TypeOK
    BY DEF IInv
  <1> QED
    BY <1>1, Inductive, PTL

\* The center never sees two different results for one request, whatever the
\* number of crashes, restarts, retransmissions and late messages.
THEOREM SingleResult ==
  ASSUME PowerSafe
  PROVE  Spec => []OneResult
  <1>1. IInv => OneResult
    BY DEF IInv
  <1> QED
    BY <1>1, Inductive, PTL

\* A command whose result the center has is never executed again, for every
\* retention longer than the center's redelivery window and one heartbeat.
THEOREM ExecutedBeforeAnswered ==
  ASSUME PowerSafe
  PROVE  Spec => []NoDuplicateExecution
  <1>1. ASSUME IInv, proc.pc = "exec"
        PROVE  received[proc.cmd][proc.digest] = {}
    <2>1. /\ proc.cmd \in Commands /\ proc.digest \in Digests
          /\ mem[proc.cmd] # None /\ mem[proc.cmd].state = "pending"
          /\ mem[proc.cmd].digest = proc.digest
      BY <1>1 DEF IInv, ControlInv, StoreCallsMatch, InState
    <2>2. received[proc.cmd][proc.digest] \subseteq {None}
      <3>1. GoodRecord(proc.cmd, mem[proc.cmd])
        BY <1>1, <2>1 DEF IInv, RecordInv
      <3> QED
        BY <2>1, <3>1 DEF GoodRecord
    <2>3. None \notin received[proc.cmd][proc.digest]
      <3>1. received \in [Commands -> [Digests -> SUBSET Result]]
        BY <1>1 DEF IInv, TypeOK
      <3>2. received[proc.cmd] \in [Digests -> SUBSET Result]
        BY <2>1, <3>1
      <3>3. received[proc.cmd][proc.digest] \in SUBSET Result
        BY <2>1, <3>2
      <3> QED
        BY <3>3, CommandStoreAssumption
    <2> QED
      BY <2>2, <2>3
  <1>2. IInv => NoDuplicateExecution
    BY <1>1 DEF NoDuplicateExecution
  <1> QED
    BY <1>2, Inductive, PTL

\* Only results that reached the center are ever marked acknowledged.
THEOREM AcknowledgedWereReceived ==
  ASSUME PowerSafe
  PROVE  Spec => []AcknowledgedReachedCenter
  <1>1. IInv => AcknowledgedReachedCenter
    BY DEF IInv, RecordInv, GoodRecord, AcknowledgedReachedCenter
  <1> QED
    BY <1>1, Inductive, PTL

\* A result the center may have seen is in its file until the retention ends.
THEOREM ResultsAreDurable ==
  ASSUME PowerSafe
  PROVE  Spec => []ResultStaysOnDisk
  <1>1. IInv => ResultStaysOnDisk
    BY DEF IInv, CoverInv, Covers, ResultStaysOnDisk
  <1> QED
    BY <1>1, Inductive, PTL

\* The copy of the store in memory never runs ahead of its files, and a file is
\* ahead of the copy by one write at most.
THEOREM CopyFollowsFiles ==
  ASSUME PowerSafe
  PROVE  Spec => []MemoryNeverAhead
  <1>1. IInv => MemoryNeverAhead
    BY DEF IInv
  <1> QED
    BY <1>1, Inductive, PTL

\* Complete and Acknowledge always find the record that their caller read under
\* an earlier lock, in the state and with the digest they demand.
THEOREM LookupsSucceed ==
  ASSUME PowerSafe
  PROVE  Spec => []StoreCallsMatch
  <1>1. IInv => StoreCallsMatch
    BY DEF IInv
  <1> QED
    BY <1>1, Inductive, PTL

-----------------------------------------------------------------------------
(* Refinement: the steps of the flow are steps of the contract.            *)

\* One of the results.
Some(results) == CHOOSE r \in results : TRUE

\* The verdict on request <<c, d>> that the files and the center's results show.
VerdictOf(files, got, c, d) ==
  IF got[c][d] # {} THEN Some(got[c][d])
  ELSE IF HasResult(files[c], <<c, d>>) THEN files[c].result ELSE None

\* The file of command c shows the result of each request as before, or the center has it.
Steady(c) ==
  \A d \in Digests :
    \/ received[c][d] # {}
    \/ /\ HasResult(disk'[c], <<c, d>>) <=> HasResult(disk[c], <<c, d>>)
       /\ HasResult(disk[c], <<c, d>>) => disk'[c].result = disk[c].result

\* The contract's variables, in this state and the next.
LEMMA Bars ==
  /\ verdictBar = [p \in Requests |-> VerdictOf(disk, received, p[1], p[2])]
  /\ verdictBar' = [p \in Requests |-> VerdictOf(disk', received', p[1], p[2])]
  /\ knownBar' = {p \in Requests : received'[p[1]][p[2]] # {}}
  <1>1. \A p \in Requests : p = <<p[1], p[2]>>
    BY DEF Requests
  <1>2. \A files, got : \A p \in Requests :
          VerdictOf(files, got, p[1], p[2]) =
            IF got[p[1]][p[2]] # {} THEN CHOOSE r \in got[p[1]][p[2]] : TRUE
            ELSE IF HasResult(files[p[1]], p) THEN files[p[1]].result ELSE None
    BY <1>1 DEF VerdictOf, Some
  <1>3. verdictBar = [p \in Requests |-> VerdictOf(disk, received, p[1], p[2])]
    BY <1>2 DEF verdictBar
  <1>4. verdictBar' = [p \in Requests |-> VerdictOf(disk', received', p[1], p[2])]
    BY <1>2 DEF verdictBar, HasResult
  <1> QED
    BY <1>3, <1>4 DEF knownBar

\* A steady file leaves the verdicts on its requests as they are.
LEMMA SteadyVerdict ==
  ASSUME received' = received, NEW c \in Commands, Steady(c), NEW d \in Digests
  PROVE  VerdictOf(disk', received', c, d) = VerdictOf(disk, received, c, d)
  BY DEF Steady, VerdictOf

\* When all files are steady, the contract sees nothing.
LEMMA SteadyStep ==
  ASSUME received' = received, \A c \in Commands : Steady(c)
  PROVE  UNCHANGED <<verdictBar, knownBar>>
  <1>1. \A p \in Requests : p[1] \in Commands /\ p[2] \in Digests
    BY DEF Requests
  <1>2. \A p \in Requests : VerdictOf(disk', received', p[1], p[2]) = VerdictOf(disk, received, p[1], p[2])
    BY <1>1, SteadyVerdict
  <1>3. verdictBar' = verdictBar
    BY <1>2, Bars
  <1>4. knownBar' = knownBar
    BY Bars DEF knownBar
  <1> QED
    BY <1>3, <1>4

\* A file that stays as it is, is steady.
LEMMA SameIsSteady ==
  ASSUME NEW c \in Commands, disk'[c] = disk[c]
  PROVE  Steady(c)
  BY DEF Steady

\* Cleanup removes only files whose result the center has.
LEMMA CleanupSteady ==
  ASSUME IInv, agent # "down", Cleanup \/ CleanupFails
  PROVE  \A c \in Commands : Steady(c)
  <1> SUFFICES ASSUME NEW c \in Commands
               PROVE  Steady(c)
    OBVIOUS
  <1>1. disk'[c] = disk[c] \/ (disk'[c] = None /\ Aged(c))
    BY DEF Cleanup, CleanupFails, Without
  <1>2. CASE disk'[c] = None /\ Aged(c)
    <2>1. mem[c] # None /\ mem[c].state = "acknowledged"
      BY <1>2 DEF Aged, InState
    <2>2. disk[c] = mem[c]
      BY <2>1 DEF IInv, MemoryNeverAhead
    <2>3. received[c][disk[c].digest] # {}
      BY <2>1, <2>2 DEF IInv, RecordInv, GoodRecord
    <2> QED
      BY <1>2, <2>3 DEF Steady, HasResult
  <1> QED
    BY <1>1, <1>2, SameIsSteady

\* A loss of power brings back only files whose result the center has.
LEMMA PowerSteady ==
  ASSUME IInv, PowerMayFail, LosePower
  PROVE  \A c \in Commands : Steady(c)
  <1> SUFFICES ASSUME NEW c \in Commands
               PROVE  Steady(c)
    OBVIOUS
  <1>1. disk'[c] = disk[c] \/ disk'[c] = synced[c]
    BY DEF LosePower
  <1>2. CASE /\ disk[c] = None /\ disk'[c] = synced[c] /\ synced[c] # None
             /\ synced[c].state = "acknowledged" /\ GoodRecord(c, synced[c])
    <2>1. received[c][disk'[c].digest] # {}
      BY <1>2 DEF GoodRecord
    <2> QED
      BY <1>2, <2>1 DEF Steady, HasResult
  <1> QED
    BY <1>1, <1>2, SameIsSteady DEF IInv, SyncInv

\* Store.Complete decides the request, or fails without a trace.
LEMMA CompleteDecides ==
  ASSUME IInv, ProcComplete
  PROVE  UNCHANGED <<verdictBar, knownBar>> \/ \E p \in Requests : Contract!Decide(p)
  <1> DEFINE c == proc.cmd
             d == proc.digest
             record == Completed(c, proc.result)
  <1>1. /\ c \in Commands /\ d \in Digests /\ proc.result \in Result
        /\ mem[c] # None /\ mem[c] \in Record /\ mem[c].state = "pending"
        /\ mem[c].digest = d /\ disk[c] = mem[c]
    BY DEF ProcComplete, IInv, ControlInv, StoreCallsMatch, InState, TypeOK, StoreTypeOK, FreshInv
  <1>2. record # None /\ record.digest = d /\ record.result = proc.result
    <2>1. record \in Record
      BY <1>1, CompletedType DEF IInv, TypeOK
    <2>2. record.digest = mem[c].digest /\ record.result = proc.result
      BY <1>1 DEF Completed, Record
    <2> HIDE DEF record
    <2> QED
      BY <1>1, <2>1, <2>2, CommandStoreAssumption
  <1>3. /\ received' = received
        /\ disk' = disk \/ disk' = [disk EXCEPT ![c] = record]
    BY DEF ProcComplete, ProcFrame, centerVars, Write, WriteFails
  <1> HIDE DEF c, d, record
  <1>4. disk \in [Commands -> Record \cup {None}]
    BY DEF IInv, TypeOK, StoreTypeOK
  <1>5. CASE disk' = disk
    BY <1>3, <1>5, SteadyStep, SameIsSteady
  <1>6. CASE disk' = [disk EXCEPT ![c] = record]
    <2>1. disk'[c] = record /\ \A e \in Commands \ {c} : disk'[e] = disk[e]
      BY <1>1, <1>4, <1>6
    <2>2. disk[c].result = None
      BY <1>1 DEF IInv, RecordInv, GoodRecord
    <2>3. received[c][d] = {}
      <3>1. received[c][d] \subseteq {disk[c].result} /\ received[c][d] \subseteq Result
        BY <1>1 DEF IInv, RecordInv, GoodRecord, TypeOK
      <3> QED
        BY <2>2, <3>1, CommandStoreAssumption
    <2>4. \A e \in Digests : ~HasResult(disk[c], <<c, e>>)
      BY <2>2 DEF HasResult
    <2>5. HasResult(disk'[c], <<c, d>>) /\ \A e \in Digests \ {d} : ~HasResult(disk'[c], <<c, e>>)
      BY <1>1, <1>2, <2>1, CommandStoreAssumption DEF HasResult
    <2>6. /\ VerdictOf(disk, received, c, d) = None
          /\ VerdictOf(disk', received', c, d) = proc.result
      BY <1>1, <1>2, <1>3, <2>1, <2>3, <2>4, <2>5 DEF VerdictOf
    <2>7. \A e \in Digests \ {d} :
            VerdictOf(disk', received', c, e) = VerdictOf(disk, received, c, e)
      BY <1>3, <2>4, <2>5 DEF VerdictOf
    <2>8. \A b \in Commands \ {c}, e \in Digests :
            VerdictOf(disk', received', b, e) = VerdictOf(disk, received, b, e)
      BY <1>3, <2>1, SteadyVerdict, SameIsSteady
    <2> DEFINE p == <<c, d>>
    <2>9. p \in Requests /\ \A q \in Requests : /\ q[1] \in Commands /\ q[2] \in Digests
                                                /\ q # p => q[1] # c \/ q[2] # d
      BY <1>1 DEF Requests
    <2>10. verdictBar[p] = None /\ verdictBar'[p] = proc.result
      BY <2>6, <2>9, Bars
    <2>11. \A q \in Requests \ {p} : verdictBar'[q] = verdictBar[q]
      BY <2>7, <2>8, <2>9, Bars
    <2>12. verdictBar' = [verdictBar EXCEPT ![p] = verdictBar'[p]]
      BY <2>9, <2>11, Bars
    <2>13. knownBar' = knownBar
      BY <1>3, Bars DEF knownBar
    <2> HIDE DEF p
    <2> QED
      BY <1>1, <2>9, <2>10, <2>12, <2>13 DEF Contract!Decide
  <1> QED
    BY <1>3, <1>5, <1>6

\* The first result for a request that reaches the center delivers the verdict; a repeated
\* one changes nothing.
LEMMA ReceiveDelivers ==
  ASSUME IInv, NEW m \in ResultMessage, Sent(m), Receive(m), disk' = disk
  PROVE  UNCHANGED <<verdictBar, knownBar>> \/ \E p \in Requests : Contract!Deliver(p)
  <1> DEFINE c == m.cmd
             r == m.result
             d == r.digest
             seen == [received[c] EXCEPT ![d] = received[c][d] \cup {r}]
  <1>1. c \in Commands /\ r \in Result /\ d \in Digests
    BY DEF ResultMessage, Result
  <1>2. received' = [received EXCEPT ![c] = seen]
    BY DEF Receive
  <1>3. /\ received \in [Commands -> [Digests -> SUBSET Result]]
        /\ received[c] \in [Digests -> SUBSET Result]
    BY <1>1 DEF IInv, TypeOK
  <1>4. /\ received[c][d] \subseteq {r}
        /\ received[c][d] = {} => Answers(disk[c], d, r)
    BY DEF Sent
  <1> HIDE DEF c, d, r
  <1>5. /\ seen[d] = received[c][d] \cup {r}
        /\ \A e \in Digests \ {d} : seen[e] = received[c][e]
        /\ DOMAIN seen = Digests
    BY <1>1, <1>3
  <1> HIDE DEF seen
  <1>6. /\ received'[c][d] = received[c][d] \cup {r}
        /\ \A e \in Digests \ {d} : received'[c][e] = received[c][e]
        /\ \A b \in Commands \ {c} : received'[b] = received[b]
    BY <1>1, <1>2, <1>3, <1>5
  <1>7. CASE received[c][d] # {}
    <2>1. received'[c][d] = received[c][d]
      BY <1>4, <1>6, <1>7
    <2>2. \A b \in Commands, e \in Digests : received'[b][e] = received[b][e]
      BY <1>6, <2>1
    <2>3. \A p \in Requests : p[1] \in Commands /\ p[2] \in Digests
      BY DEF Requests
    <2>4. \A p \in Requests : VerdictOf(disk', received', p[1], p[2])
                                = VerdictOf(disk, received, p[1], p[2])
      BY <2>2, <2>3 DEF VerdictOf
    <2>5. verdictBar' = verdictBar
      BY <2>4, Bars
    <2>6. knownBar' = knownBar
      BY <2>2, <2>3, Bars DEF knownBar
    <2> QED
      BY <2>5, <2>6
  <1>8. CASE received[c][d] = {}
    <2>1. received'[c][d] = {r}
      BY <1>6, <1>8
    <2>2. HasResult(disk[c], <<c, d>>) /\ disk[c].result = r
      BY <1>1, <1>4, <1>8, CommandStoreAssumption DEF Answers, HasResult
    <2>3. Some({r}) = r
      BY DEF Some
    <2>4. VerdictOf(disk, received, c, d) = r /\ VerdictOf(disk', received', c, d) = r
      BY <1>8, <2>1, <2>2, <2>3 DEF VerdictOf
    <2> DEFINE p == <<c, d>>
    <2>5. p \in Requests /\ \A q \in Requests : /\ q[1] \in Commands /\ q[2] \in Digests
                                                /\ q # p => q[1] # c \/ q[2] # d
      BY <1>1 DEF Requests
    <2>6. \A q \in Requests \ {p} : received'[q[1]][q[2]] = received[q[1]][q[2]]
      BY <1>6, <2>5
    <2>7. \A q \in Requests \ {p} : VerdictOf(disk', received', q[1], q[2])
                                      = VerdictOf(disk, received, q[1], q[2])
      BY <2>6 DEF VerdictOf
    <2>8. \A q \in Requests : VerdictOf(disk', received', q[1], q[2])
                                = VerdictOf(disk, received, q[1], q[2])
      BY <2>4, <2>7
    <2>9. verdictBar' = verdictBar
      BY <2>8, Bars
    <2>10. verdictBar[p] = r
      BY <2>4, <2>5, Bars
    <2>11. p \notin knownBar
      BY <1>8 DEF knownBar
    <2>12. p \in knownBar' /\ \A q \in Requests \ {p} : q \in knownBar' <=> q \in knownBar
      BY <2>1, <2>5, <2>6, Bars DEF knownBar
    <2>13. knownBar' = knownBar \cup {p}
      <3>1. knownBar \subseteq Requests /\ knownBar' \subseteq Requests
        BY Bars DEF knownBar
      <3> QED
        BY <2>5, <2>12, <3>1
    <2> HIDE DEF p
    <2>14. r # None
      BY <1>1, CommandStoreAssumption
    <2> QED
      BY <2>5, <2>9, <2>10, <2>11, <2>13, <2>14 DEF Contract!Deliver
  <1> QED
    BY <1>7, <1>8

\* A command's result is decided once, by Store.Complete, and what the center then learns is
\* that result: every step of the store, the processor, the session and the center is a
\* step of CommandContract or changes nothing it can see, through crashes, restarts, failed
\* writes, losses of power, repeated and late results and the end of the retention.
THEOREM RefinesContract ==
  ASSUME PowerSafe
  PROVE  Spec => Contract!Spec
  <1>1. Init => Contract!Init
    <2> SUFFICES ASSUME Init
                 PROVE  verdictBar = [p \in Requests |-> None] /\ knownBar = {}
      BY DEF Contract!Init
    <2>1. \A p \in Requests : /\ received[p[1]][p[2]] = {} /\ disk[p[1]] = None
                              /\ p[1] \in Commands /\ p[2] \in Digests
      BY DEF Init, StoreInit, Requests
    <2>2. \A p \in Requests : VerdictOf(disk, received, p[1], p[2]) = None
      BY <2>1 DEF VerdictOf, HasResult
    <2>3. verdictBar = [p \in Requests |-> None]
      BY <2>2, Bars
    <2> QED
      BY <2>1, <2>3 DEF knownBar
  <1>2. IInv /\ [Next]_vars => [Contract!Next]_<<verdictBar, knownBar>>
    <2> SUFFICES ASSUME IInv, [Next]_vars
                 PROVE  \/ UNCHANGED <<verdictBar, knownBar>>
                        \/ \E p \in Requests : Contract!Decide(p) \/ Contract!Deliver(p)
      BY DEF Contract!Next
    <2>1. CASE UNCHANGED <<disk, received>>
      BY <2>1, SteadyStep, SameIsSteady
    <2>2. CASE PowerLoss
      <3>1. PowerMayFail /\ LosePower /\ received' = received
        BY <2>2 DEF PowerLoss, centerVars
      <3> QED
        BY <3>1, PowerSteady, SteadyStep
    <2>3. CASE ProcStart \/ ProcCleanup
      <3>1. (Cleanup \/ CleanupFails) /\ received' = received /\ proc.pc # "done"
        BY <2>3 DEF ProcStart, ProcCleanup, ProcFrame, centerVars
      <3>2. agent # "down"
        BY <3>1 DEF IInv, ControlInv
      <3> QED
        BY <3>1, <3>2, CleanupSteady, SteadyStep
    <2>4. CASE ProcComplete
      BY <2>4, CompleteDecides
    <2>5. CASE OnResultAck
      <3> DEFINE c == sess.cmd
                 record == Acknowledged(c)
      <3>1. /\ received' = received
            /\ disk' = disk \/ disk' = [disk EXCEPT ![c] = record]
        BY <2>5 DEF OnResultAck, SessFrame, centerVars, Write, WriteFails
      <3>2. /\ c \in Commands /\ mem[c] # None /\ mem[c] \in Record /\ mem[c].state = "completed"
            /\ agent # "down"
        BY <2>5 DEF OnResultAck, IInv, ControlInv, StoreCallsMatch, InState, TypeOK, StoreTypeOK
      <3>3. record # None /\ record.digest = mem[c].digest /\ record.result = mem[c].result
        BY <3>2, AcknowledgedType, CommandStoreAssumption DEF IInv, TypeOK, Acknowledged, Record
      <3>4. disk[c] # None /\ disk[c].digest = mem[c].digest /\ disk[c].result = mem[c].result
        BY <3>2 DEF IInv, MemoryNeverAhead
      <3> HIDE DEF c, record
      <3>5. disk \in [Commands -> Record \cup {None}]
        BY DEF IInv, TypeOK, StoreTypeOK
      <3>6. ASSUME NEW e \in Commands
            PROVE  Steady(e)
        <4>1. disk'[e] = disk[e] \/ (e = c /\ disk'[e] = record)
          BY <3>1, <3>5
        <4> QED
          BY <3>3, <3>4, <4>1 DEF Steady, HasResult
      <3> QED
        BY <3>1, <3>6, SteadyStep
    <2>6. CASE AcceptNew
      <3> DEFINE c == wire.cmd
                 record == Accepted(wire.digest)
      <3>1. /\ received' = received /\ wire \in BeatAck /\ mem[c] = None /\ agent # "down"
            /\ disk' = disk \/ disk' = [disk EXCEPT ![c] = record]
        BY <2>6 DEF AcceptNew, BeatAnswered, SessFrame, centerVars, Write, WriteFails, IInv, ControlInv
      <3>2. c \in Commands /\ record.result = None
        BY <3>1 DEF BeatAck, Accepted
      <3>3. disk[c] = None \/ disk[c].result = None
        BY <3>1, <3>2 DEF IInv, MemoryNeverAhead, RecordInv, GoodRecord
      <3> HIDE DEF c, record
      <3>4. disk \in [Commands -> Record \cup {None}]
        BY DEF IInv, TypeOK, StoreTypeOK
      <3>5. ASSUME NEW e \in Commands
            PROVE  Steady(e)
        <4>1. disk'[e] = disk[e] \/ (e = c /\ disk'[e] = record)
          BY <3>1, <3>4
        <4> QED
          BY <3>2, <3>3, <4>1 DEF Steady, HasResult
      <3> QED
        BY <3>1, <3>5, SteadyStep
    <2>7. CASE CenterResult
      <3>1. wire \in ResultMessage /\ Receive(wire) /\ disk' = disk
        BY <2>7 DEF CenterResult, AgentVars, storeVars
      <3>2. Sent(wire)
        BY <3>1 DEF IInv, SentInv
      <3> QED
        BY <3>1, <3>2, ReceiveDelivers
    <2>8. CASE CenterLateResult
      <3>1. PICK m \in late : Receive(m) /\ disk' = disk
        BY <2>8 DEF CenterLateResult, AgentVars, storeVars
      <3>2. m \in ResultMessage /\ Sent(m)
        BY <3>1 DEF IInv, SentInv, TypeOK
      <3> QED
        BY <3>1, <3>2, ReceiveDelivers
    <2>9. \/ UNCHANGED <<disk, received>> \/ PowerLoss \/ ProcStart \/ ProcCleanup \/ ProcComplete
          \/ OnResultAck \/ AcceptNew \/ CenterResult \/ CenterLateResult
      BY DEF Next, vars, Boot, OpenStore, Crash, Stop, Exit, Tick, Processor, Session, Center,
         ProcIdle, ProcTake, ExecReturns, ExecRestarts, ProcWake, ProcCancelled, ProcFrame,
         Connect, SessEnd, SendResult, NoResult, ResultSignalled, SendBeat, OnEmptyBeatAck,
         AcceptDuplicate, AcceptConflict, BeatAnswered, SessFrame, Issue, CenterDelivers,
         CenterBeat, AgentVars, storeVars, centerVars
    <2> QED
      BY <2>1, <2>2, <2>3, <2>4, <2>5, <2>6, <2>7, <2>8, <2>9
  <1> QED
    BY <1>1, <1>2, Inductive, PTL DEF Spec, Contract!Spec, Contract!vars
=============================================================================
