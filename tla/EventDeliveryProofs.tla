------------------------ MODULE EventDeliveryProofs -------------------------
(***************************************************************************)
(* Safety of the event queue and its uploader, and its refinement of       *)
(* EventChannel, for every set of events, every limit and any number of    *)
(* faults.                                                                 *)
(***************************************************************************)
EXTENDS EventRefinement, TLAPS, FiniteSetTheorems, SequenceTheorems

Last(batch) == batch.first + Len(batch.events) - 1

\* From a queue that starts after a, a batch reaches as far as n.
Reach(a, n) ==
  \/ n <= a
  \/ /\ n <= a + BatchEvents
     /\ n = a + 1 \/ offset[n] - offset[a] <= BatchBytes

\* The histories describe the database.
LogInv ==
  /\ Len(log) = next - 1
  /\ \A s \in DOMAIN queue : queue[s] = log[s]

OffsetInv == \A i, j \in 0 .. next - 1 : i <= j => offset[i] <= offset[j]

\* The center has a prefix of the stream, at least the acknowledged one, and
\* no more than a batch beyond it.
CenterInv ==
  /\ Highest(center) \in acked .. next - 1
  /\ \A s \in 1 .. MaxSequence : center[s] = IF s <= Highest(center) THEN {log[s]} ELSE {}
  /\ Reach(acked, Highest(center))

\* A batch in flight is a part of the stream that the center can append, and
\* one of this length could be sent again.
GoodBatch(batch) ==
  /\ batch.first <= acked + 1
  /\ Last(batch) < next
  /\ \A s \in batch.first .. Last(batch) : /\ batch.events[s - batch.first + 1] = log[s]
                                           /\ Reach(acked, s)

BatchInv == (\A batch \in late : GoodBatch(batch)) /\ (request # None => GoodBatch(request))

AnswerInv == answer # None => answer <= Highest(center)

WaitInv == up.pc = "await" => up.first # 0

IInv ==
  /\ TypeOK /\ WaitInv /\ QueueIsSuffix /\ Accounting /\ LogInv /\ OffsetInv
  /\ CenterInv /\ BatchInv /\ AnswerInv

USE EventQueueAssumption, NoneAssumption

\* The highest contiguous sequence number of a center that has received
\* exactly the numbers up to h.
LEMMA HighestIs ==
  ASSUME NEW f \in [1 .. MaxSequence -> SUBSET Payloads], NEW h \in 0 .. MaxSequence,
         \A s \in 1 .. MaxSequence : f[s] # {} <=> s <= h
  PROVE  Highest(f) = h
  <1>1. /\ \A s \in 1 .. h : f[s] # {}
        /\ h = MaxSequence \/ f[h + 1] = {}
    <2>1. \A s \in 1 .. h : s \in 1 .. MaxSequence /\ s <= h
      OBVIOUS
    <2>2. h < MaxSequence => h + 1 \in 1 .. MaxSequence /\ ~(h + 1 <= h)
      OBVIOUS
    <2>3. h < MaxSequence \/ h = MaxSequence
      OBVIOUS
    <2> QED
      BY <2>1, <2>2, <2>3
  <1>2. ASSUME NEW n \in 0 .. MaxSequence, \A s \in 1 .. n : f[s] # {},
               n = MaxSequence \/ f[n + 1] = {}
        PROVE  n = h
    <2>1. CASE n < h
      BY <1>2, <2>1
    <2>2. CASE n > h
      <3>1. h + 1 \in 1 .. n
        BY <2>2
      <3>2. f[h + 1] # {}
        BY <1>2, <3>1
      <3> QED
        BY <3>1, <3>2
    <2> QED
      BY <2>1, <2>2
  <1> QED
    BY <1>1, <1>2 DEF Highest

\* What a batch can reach it can still reach once more is acknowledged.
LEMMA ReachMonotone ==
  ASSUME TypeOK, OffsetInv, NEW a \in 0 .. next - 1, NEW b \in 0 .. next - 1, a <= b,
         NEW n \in 0 .. next - 1, Reach(a, n)
  PROVE  Reach(b, n)
  <1>1. next \in Nat /\ next <= MaxSequence + 1 /\ offset \in [0 .. MaxSequence -> Nat]
    BY DEF TypeOK, QueueTypeOK
  <1>2. offset[a] \in Nat /\ offset[b] \in Nat /\ offset[n] \in Nat /\ offset[a] <= offset[b]
    BY <1>1 DEF OffsetInv
  <1> QED
    BY <1>1, <1>2 DEF Reach

\* The invariant holds before the first start.
LEMMA InitIInv ==
  ASSUME Init
  PROVE  IInv
  <1> USE DEF Init, QueueInit
  <1>1. TypeOK
    <2>1. QueueTypeOK
      BY DEF QueueTypeOK
    <2> QED
      BY <2>1 DEF TypeOK, UpAt, UpPcs
  <1>2. Highest(center) = 0
    <2>1. /\ center \in [1 .. MaxSequence -> SUBSET Payloads] /\ 0 \in 0 .. MaxSequence
          /\ \A s \in 1 .. MaxSequence : center[s] # {} <=> s <= 0
      OBVIOUS
    <2> HIDE DEF Init
    <2> QED
      BY <2>1, HighestIs
  <1>3. DOMAIN queue = {} /\ 1 .. 0 = {}
    OBVIOUS
  <1>4. QueueIsSuffix /\ LogInv /\ OffsetInv /\ AnswerInv /\ WaitInv
    BY <1>3 DEF QueueIsSuffix, LogInv, OffsetInv, AnswerInv, WaitInv, UpAt
  <1>5. Accounting
    BY <1>3, FS_EmptySet DEF Accounting
  <1>6. CenterInv
    <2>1. acked = 0 /\ next = 1 /\ \A s \in 1 .. MaxSequence : center[s] = {} /\ ~(s <= 0)
      OBVIOUS
    <2> HIDE DEF Init
    <2> QED
      BY <1>2, <2>1 DEF CenterInv, Reach
  <1>7. BatchInv
    BY DEF BatchInv
  <1> QED
    BY <1>1, <1>4, <1>5, <1>6, <1>7 DEF IInv

-----------------------------------------------------------------------------
(* Steps.                                                                  *)

\* The database and the center stay as they are, and no batch or answer
\* appears that was not there.
Quiet ==
  /\ UNCHANGED <<queue, next, acked, pendingBytes, pendingEvents, log, offset, center>>
  /\ late' \in {late, late \cup ({request} \ {None})}
  /\ request' \in {request, None}
  /\ answer' \in {answer, None}

\* A quiet step that keeps the types keeps the invariant.
LEMMA QuietStep ==
  ASSUME IInv, Quiet,
         agent' \in {"up", "stopping", "down"}, notify' \in BOOLEAN,
         up' \in [pc : UpPcs, first : Nat, last : Nat], faults' \in Nat,
         up'.pc = "await" => up' = up
  PROVE  IInv'
  <1>1. /\ UNCHANGED <<queue, next, acked, pendingBytes, pendingEvents, log, offset, center>>
        /\ \A batch \in late' : batch \in late \/ (batch = request /\ request # None)
        /\ request' = request \/ request' = None
        /\ answer' = answer \/ answer' = None
    BY DEF Quiet
  <1>2. TypeOK'
    BY <1>1 DEF IInv, TypeOK, QueueTypeOK
  <1>3. QueueIsSuffix' /\ Accounting' /\ LogInv' /\ OffsetInv'
    BY <1>1 DEF IInv, QueueIsSuffix, Accounting, LogInv, OffsetInv
  <1>4. CenterInv'
    BY <1>1 DEF IInv, CenterInv, Reach
  <1>5. \A batch : GoodBatch(batch) => GoodBatch(batch)'
    BY <1>1 DEF GoodBatch, Last, Reach
  <1>6. BatchInv'
    BY <1>1, <1>5 DEF IInv, BatchInv
  <1>7. AnswerInv' /\ WaitInv'
    BY <1>1 DEF IInv, AnswerInv, WaitInv
  <1> QED
    BY <1>2, <1>3, <1>4, <1>6, <1>7 DEF IInv

\* The steps of the process, and the uploader's steps that do not write.
LEMMA QuietSteps ==
  ASSUME IInv,
         \/ Boot \/ Crash \/ Stop \/ Exit
         \/ UploadNothing \/ UploadReadFails \/ UploadFails \/ UploadRefused
         \/ UploadAckFails \/ UploadNotified \/ UploadTimer \/ UploadCancelled
  PROVE  IInv' /\ Quiet
  <1> USE DEF UpAt, UpPcs, queueVars, UploadFrame, Fault, Down, GiveUp, UploadFatal
  <1>1. agent \in {"up", "stopping", "down"} /\ notify \in BOOLEAN
        /\ up \in [pc : UpPcs, first : Nat, last : Nat] /\ faults \in Nat
    BY DEF IInv, TypeOK
  <1>2. CASE Boot \/ Crash \/ Stop \/ Exit
    <2>1. Quiet
      BY <1>2 DEF Boot, Crash, Stop, Exit, Quiet
    <2>2. /\ agent' \in {"up", "stopping", "down"}
          /\ up' \in [pc : UpPcs, first : Nat, last : Nat] /\ faults' \in Nat
          /\ up'.pc = "await" => up' = up
      BY <1>1, <1>2, SMT DEF Boot, Crash, Stop, Exit
    <2>3. notify' \in BOOLEAN
      BY <1>1, <1>2, Zenon DEF Boot, Crash, Stop, Exit
    <2> QED
      BY <2>1, <2>2, <2>3, QuietStep
  <1>3. CASE UploadNothing \/ UploadReadFails \/ UploadFails \/ UploadRefused
    <2>1. Quiet
      BY <1>3 DEF UploadNothing, UploadReadFails, UploadFails, UploadRefused, Quiet
    <2>2. /\ agent' \in {"up", "stopping", "down"} /\ notify' \in BOOLEAN
          /\ up' \in [pc : UpPcs, first : Nat, last : Nat] /\ faults' \in Nat
          /\ up'.pc = "await" => up' = up
      BY <1>1, <1>3 DEF UploadNothing, UploadReadFails, UploadFails, UploadRefused
    <2> QED
      BY <2>1, <2>2, QuietStep
  <1>4. CASE UploadAckFails \/ UploadNotified \/ UploadTimer \/ UploadCancelled
    <2>1. Quiet
      BY <1>4 DEF UploadAckFails, UploadNotified, UploadTimer, UploadCancelled, Quiet
    <2>2. /\ agent' \in {"up", "stopping", "down"}
          /\ up' \in [pc : UpPcs, first : Nat, last : Nat] /\ faults' \in Nat
          /\ up'.pc = "await" => up' = up
      BY <1>1, <1>4, SMT DEF UploadAckFails, UploadNotified, UploadTimer, UploadCancelled
    <2>3. notify' \in BOOLEAN
      BY <1>1, <1>4, Zenon DEF UploadAckFails, UploadNotified, UploadTimer, UploadCancelled
    <2> QED
      BY <2>1, <2>2, <2>3, QuietStep
  <1> QED
    BY <1>2, <1>3, <1>4

\* Enqueue: the new event gets the next number, and nothing else moves.
LEMMA ProduceStep ==
  ASSUME IInv, NEW p \in Payloads, Produce(p)
  PROVE  IInv' /\ Highest(center)' = Highest(center) /\ log' = Append(log, p)
  <1>1. /\ next <= MaxSequence
        /\ pendingBytes <= MaxBytes - Size[p] /\ pendingEvents < MaxEvents
    BY DEF Produce, Enqueue, EnqueueFits
  <1>2. /\ queue' = [s \in DOMAIN queue \cup {next} |-> IF s = next THEN p ELSE queue[s]]
        /\ offset' = [offset EXCEPT ![next] = offset[next - 1] + Size[p]]
    BY DEF Produce, Enqueue, EnqueueFits
  <1>3. /\ next' = next + 1 /\ log' = Append(log, p) /\ UNCHANGED acked
        /\ pendingBytes' = pendingBytes + Size[p] /\ pendingEvents' = pendingEvents + 1
    BY DEF Produce, Enqueue, EnqueueFits
  <1>4. notify' = TRUE /\ UNCHANGED <<agent, up, request, answer, late, center, faults>>
    BY DEF Produce
  <1>5. next \in Nat \ {0} /\ acked \in Nat /\ acked < next
    BY DEF IInv, TypeOK, QueueTypeOK, QueueIsSuffix
  <1>6. DOMAIN queue = acked + 1 .. next - 1
    BY DEF IInv, QueueIsSuffix
  <1>7. /\ pendingBytes \in Nat /\ pendingEvents \in Nat /\ Size[p] \in Nat
        /\ offset \in [0 .. MaxSequence -> Nat]
    BY DEF IInv, TypeOK, QueueTypeOK
  <1>8. DOMAIN queue' = acked' + 1 .. next' - 1
    <2>1. DOMAIN queue' = (acked + 1 .. next - 1) \cup {next}
      BY <1>2, <1>6
    <2>2. (acked + 1 .. next - 1) \cup {next} = acked + 1 .. next
      BY <1>5
    <2> QED
      BY <1>3, <1>5, <2>1, <2>2
  <1>9. /\ \A s \in 1 .. next - 1 : log'[s] = log[s]
        /\ log'[next] = p /\ Len(log') = next' - 1 /\ log' \in Seq(Payloads)
    <2>1. log \in Seq(Payloads) /\ Len(log) = next - 1
      BY DEF IInv, TypeOK, QueueTypeOK, LogInv
    <2> QED
      BY <1>3, <1>5, <2>1, AppendProperties
  <1>10. /\ \A s \in 0 .. next - 1 : offset'[s] = offset[s] /\ offset[s] \in Nat
         /\ offset'[next] = offset[next - 1] + Size[p]
         /\ offset' \in [0 .. MaxSequence -> Nat]
    <2>1. next \in 0 .. MaxSequence /\ next - 1 \in 0 .. MaxSequence
      BY <1>1, <1>5
    <2>2. \A s \in 0 .. next - 1 : s \in 0 .. MaxSequence /\ s # next
      BY <1>1, <1>5
    <2> QED
      BY <1>2, <1>7, <2>1, <2>2
  <1>11. \A s \in DOMAIN queue' : queue'[s] = log'[s] /\ queue'[s] \in Payloads
    <2>1. \A s \in DOMAIN queue : queue[s] = log[s] /\ queue[s] \in Payloads
      BY DEF IInv, TypeOK, QueueTypeOK, LogInv
    <2>2. \A s \in DOMAIN queue : s \in 1 .. next - 1 /\ s # next
      BY <1>5, <1>6
    <2>3. \A s \in DOMAIN queue' : s = next \/ s \in DOMAIN queue
      BY <1>2
    <2> QED
      BY <1>2, <1>9, <2>1, <2>2, <2>3
  <1>12. TypeOK'
    <2>1. DOMAIN queue' \subseteq 1 .. MaxSequence
      BY <1>1, <1>3, <1>5, <1>8
    <2>2. next' \in 1 .. MaxSequence + 1 /\ acked' \in 0 .. MaxSequence
      BY <1>1, <1>3, <1>5
    <2>3. pendingBytes' \in Nat /\ pendingEvents' \in Nat
      BY <1>3, <1>7
    <2>4. QueueTypeOK'
      BY <1>9, <1>10, <1>11, <2>1, <2>2, <2>3 DEF QueueTypeOK
    <2> QED
      BY <1>4, <2>4 DEF IInv, TypeOK
  <1>13. QueueIsSuffix' /\ LogInv'
    BY <1>3, <1>5, <1>8, <1>9, <1>11 DEF QueueIsSuffix, LogInv
  <1>14. Accounting'
    <2>1. pendingEvents = next - 1 - acked
      <3>1. pendingEvents = Cardinality(acked + 1 .. next - 1)
        BY <1>6 DEF IInv, Accounting
      <3> QED
        BY <1>5, <3>1, FS_Interval
    <2>2. Cardinality(DOMAIN queue') = next' - 1 - acked'
      BY <1>3, <1>5, <1>8, FS_Interval
    <2>3. pendingBytes = offset[next - 1] - offset[acked]
      BY DEF IInv, Accounting
    <2>4. offset'[acked'] = offset[acked] /\ offset'[next' - 1] = offset[next - 1] + Size[p]
      BY <1>3, <1>5, <1>10
    <2>5. offset[acked] \in Nat /\ offset[next - 1] \in Nat
      BY <1>5, <1>10
    <2>6. pendingEvents' = Cardinality(DOMAIN queue') /\ pendingEvents' <= MaxEvents
      BY <1>1, <1>3, <1>5, <1>7, <2>1, <2>2
    <2>7. pendingBytes' = offset'[next' - 1] - offset'[acked'] /\ pendingBytes' <= MaxBytes
      <3>1. MaxBytes \in Nat /\ pendingBytes + Size[p] <= MaxBytes
        BY <1>1, <1>7
      <3>2. pendingBytes' = offset[next - 1] - offset[acked] + Size[p]
        BY <1>3, <2>3
      <3>3. Size[p] \in Nat
        BY <1>7
      <3>4. pendingBytes' = (offset[next - 1] + Size[p]) - offset[acked]
        BY <2>5, <3>2, <3>3
      <3> QED
        BY <1>3, <2>4, <3>1, <3>4
    <2> QED
      BY <2>6, <2>7 DEF Accounting
  <1>15. OffsetInv'
    <2>1. \A i \in 0 .. next - 1 : offset[i] <= offset[next - 1]
      BY <1>5 DEF IInv, OffsetInv
    <2>2. offset[next - 1] \in Nat
      BY <1>5, <1>10
    <2> SUFFICES ASSUME NEW i \in 0 .. next' - 1, NEW j \in 0 .. next' - 1, i <= j
                 PROVE  offset'[i] <= offset'[j]
      BY DEF OffsetInv
    <2>3. CASE j = next /\ i # next
      <3>1. i \in 0 .. next - 1
        BY <1>3, <1>5, <2>3
      <3> QED
        BY <1>7, <1>10, <2>1, <2>2, <2>3, <3>1
    <2>4. CASE j # next
      <3>1. i \in 0 .. next - 1 /\ j \in 0 .. next - 1
        BY <1>3, <1>5, <2>4
      <3> QED
        BY <1>10, <3>1 DEF IInv, OffsetInv
    <2>5. CASE i = next /\ j = next
      BY <1>7, <1>10, <2>2, <2>5
    <2> QED
      BY <1>3, <1>5, <2>3, <2>4, <2>5
  <1>16. ASSUME NEW n \in 0 .. next - 1, Reach(acked, n)
         PROVE  Reach(acked, n)'
    <2>1. offset'[n] = offset[n] /\ offset'[acked] = offset[acked]
      BY <1>5, <1>10
    <2> QED
      BY <1>3, <1>16, <2>1 DEF Reach
  <1>17. CenterInv'
    <2>1. Highest(center)' = Highest(center) /\ Highest(center) \in 0 .. next - 1
      BY <1>4, <1>5 DEF IInv, CenterInv
    <2>2. \A s \in 1 .. MaxSequence : s <= Highest(center) => log'[s] = log[s]
      BY <1>5, <1>9, <2>1
    <2>3. Reach(acked, Highest(center))'
      <3>1. Reach(acked, Highest(center))
        BY DEF IInv, CenterInv
      <3> DEFINE h == Highest(center)
      <3>2. h' = h /\ h \in 0 .. next - 1 /\ Reach(acked, h)
        BY <2>1, <3>1
      <3> HIDE DEF h
      <3>3. Reach(acked', h')
        BY <1>3, <1>16, <3>2 DEF Reach
      <3> QED
        BY <1>3, <1>16, <2>1, <3>1 DEF Reach
    <2>4. Highest(center)' \in acked' .. next' - 1
      BY <1>3, <1>5, <2>1 DEF IInv, CenterInv
    <2>5. \A s \in 1 .. MaxSequence :
             center'[s] = IF s <= Highest(center)' THEN {log'[s]} ELSE {}
      BY <1>4, <2>1, <2>2 DEF IInv, CenterInv
    <2> QED
      BY <2>3, <2>4, <2>5 DEF CenterInv
  <1>18. ASSUME NEW batch \in Batches, GoodBatch(batch)
         PROVE  GoodBatch(batch)'
    <2>1. batch.first \in Nat \ {0} /\ Last(batch) \in Int /\ Last(batch) < next
      BY <1>18, LenProperties DEF GoodBatch, Last, Batches
    <2>2. ASSUME NEW s \in batch.first .. Last(batch)
          PROVE  batch.events[s - batch.first + 1] = log'[s] /\ Reach(acked, s)'
      <3>1. s \in 1 .. next - 1 /\ s \in 0 .. next - 1
        BY <1>5, <2>1, <2>2
      <3> QED
        BY <1>9, <1>16, <1>18, <2>2, <3>1 DEF GoodBatch
    <2>3. Last(batch)' = Last(batch) /\ Last(batch) < next'
      BY <1>3, <1>5, <2>1 DEF Last
    <2> QED
      BY <1>3, <1>18, <2>2, <2>3 DEF GoodBatch
  <1>19. BatchInv' /\ AnswerInv' /\ WaitInv'
    BY <1>4, <1>18 DEF IInv, BatchInv, AnswerInv, WaitInv, TypeOK
  <1> QED
    BY <1>3, <1>4, <1>12, <1>13, <1>14, <1>15, <1>17, <1>19 DEF IInv

\* uploadOnce: the batch is the front of the queue.
LEMMA UploadBatchStep ==
  ASSUME IInv, NEW first \in 1 .. MaxSequence, NEW last \in 1 .. MaxSequence,
         UploadBatch(first, last)
  PROVE  IInv' /\ UNCHANGED <<log, center>>
  <1> DEFINE batch == [first |-> first,
                       events |-> [i \in 1 .. last - first + 1 |-> queue[first + i - 1]]]
  <1>1. /\ request' = batch /\ up' = [pc |-> "await", first |-> first, last |-> last]
        /\ UNCHANGED <<queue, next, acked, pendingBytes, pendingEvents, log, offset>>
        /\ UNCHANGED <<agent, notify, late, center, answer, faults>>
    BY DEF UploadBatch, UploadFrame, queueVars
  <1>2. FirstKey(first) /\ BatchFits(first, last)
    BY DEF UploadBatch, Batch
  <1>3. /\ next \in Nat \ {0} /\ acked \in Nat /\ acked < next /\ next <= MaxSequence + 1
        /\ DOMAIN queue = acked + 1 .. next - 1
    <2>1. next \in Nat \ {0} /\ acked \in Nat /\ next <= MaxSequence + 1
      BY DEF IInv, TypeOK, QueueTypeOK
    <2> QED
      BY <2>1 DEF IInv, QueueIsSuffix
  <1>4. first = acked + 1
    <2>1. first \in DOMAIN queue /\ \A s \in DOMAIN queue : first <= s
      BY <1>2 DEF FirstKey
    <2>2. acked + 1 <= first /\ acked + 1 \in DOMAIN queue
      BY <1>3, <2>1
    <2>3. first <= acked + 1
      BY <2>1, <2>2
    <2> QED
      BY <1>3, <2>2, <2>3
  <1>5. first <= last /\ last < next /\ last < first + BatchEvents
        /\ (last = first \/ offset[last] - offset[first - 1] <= BatchBytes)
    BY <1>2, <1>3 DEF BatchFits
  <1>6. /\ batch.events \in Seq(Payloads) \ {<< >>} /\ Len(batch.events) = last - first + 1
        /\ \A s \in first .. last : batch.events[s - first + 1] = queue[s]
    <2>1. last - first + 1 \in Nat \ {0}
      BY <1>5
    <2>2. ASSUME NEW i \in 1 .. last - first + 1
          PROVE  queue[first + i - 1] \in Payloads
      <3>1. first + i - 1 \in DOMAIN queue
        BY <1>3, <1>4, <1>5
      <3> QED
        BY <3>1 DEF IInv, TypeOK, QueueTypeOK
    <2>3. batch.events \in [1 .. last - first + 1 -> Payloads]
      BY <2>2
    <2>4. batch.events \in Seq(Payloads) /\ Len(batch.events) = last - first + 1
      BY <2>1, <2>3
    <2>5. ASSUME NEW s \in first .. last
          PROVE  batch.events[s - first + 1] = queue[s]
      <3>1. s - first + 1 \in 1 .. last - first + 1 /\ first + (s - first + 1) - 1 = s
        OBVIOUS
      <3> QED
        BY <3>1
    <2> QED
      BY <2>1, <2>4, <2>5
  <1>7. batch \in Batches /\ batch.first = first /\ Last(batch) = last
    BY <1>6 DEF Batches, Last
  <1> HIDE DEF batch
  <1>8. TypeOK'
    <2>1. QueueTypeOK'
      BY <1>1 DEF IInv, TypeOK, QueueTypeOK
    <2> QED
      BY <1>1, <1>7, <2>1 DEF IInv, TypeOK, UpPcs
  <1>9. GoodBatch(batch)
    <2>1. ASSUME NEW s \in first .. last
          PROVE  batch.events[s - first + 1] = log[s] /\ Reach(acked, s)
      <3>1. s \in DOMAIN queue
        BY <1>3, <1>4, <1>5
      <3>2. batch.events[s - first + 1] = log[s]
        BY <1>6, <3>1 DEF IInv, LogInv
      <3>3. /\ offset[s] \in Nat /\ offset[last] \in Nat /\ offset[acked] \in Nat
            /\ offset[s] <= offset[last]
        <4>1. /\ s \in 0 .. next - 1 /\ last \in 0 .. next - 1 /\ acked \in 0 .. next - 1
              /\ s <= last
          BY <1>3, <1>4, <1>5
        <4>2. /\ s \in 0 .. MaxSequence /\ last \in 0 .. MaxSequence
              /\ acked \in 0 .. MaxSequence
          BY <1>3, <4>1
        <4> QED
          BY <4>1, <4>2 DEF IInv, TypeOK, QueueTypeOK, OffsetInv
      <3>4. first - 1 = acked /\ s <= acked + BatchEvents
        BY <1>3, <1>4, <1>5
      <3>5. CASE last = first
        <4>1. s = acked + 1
          BY <1>4, <3>5
        <4> QED
          BY <3>2, <3>4, <4>1 DEF Reach
      <3>6. CASE offset[last] - offset[first - 1] <= BatchBytes
        <4>1. offset[s] - offset[acked] <= BatchBytes
          BY <3>3, <3>4, <3>6
        <4> QED
          BY <3>2, <3>4, <4>1 DEF Reach
      <3> QED
        BY <1>5, <3>2, <3>5, <3>6
    <2> QED
      BY <1>4, <1>5, <1>7, <2>1 DEF GoodBatch
  <1>10. \A b : GoodBatch(b) => GoodBatch(b)'
    BY <1>1 DEF GoodBatch, Last, Reach
  <1>11. BatchInv'
    BY <1>1, <1>9, <1>10 DEF IInv, BatchInv
  <1>12. QueueIsSuffix' /\ Accounting' /\ LogInv' /\ OffsetInv' /\ AnswerInv' /\ WaitInv'
    BY <1>1 DEF IInv, QueueIsSuffix, Accounting, LogInv, OffsetInv, AnswerInv, WaitInv
  <1>13. CenterInv'
    BY <1>1 DEF IInv, CenterInv, Reach
  <1> QED
    BY <1>1, <1>8, <1>11, <1>12, <1>13 DEF IInv

\* Acknowledge removes what the center has, and only that.
LEMMA UploadAckedStep ==
  ASSUME IInv, UploadAcked
  PROVE  IInv' /\ UNCHANGED <<log, center>>
  <1>1. /\ answer # None /\ Acknowledge(answer) /\ answer' = None /\ up' = UpAt("idle")
        /\ UNCHANGED <<agent, notify, late, center, request, faults>>
    BY DEF UploadAcked, UploadFrame
  <1>2. CASE answer <= acked
    <2>1. Quiet
      BY <1>1, <1>2 DEF Acknowledge, queueVars, Quiet
    <2>2. /\ agent' \in {"up", "stopping", "down"} /\ faults' \in Nat
          /\ up' \in [pc : UpPcs, first : Nat, last : Nat]
          /\ up'.pc = "await" => up' = up
      BY <1>1 DEF IInv, TypeOK, UpAt, UpPcs
    <2>3. notify' \in BOOLEAN
      BY <1>1 DEF IInv, TypeOK
    <2> QED
      BY <2>1, <2>2, <2>3, QuietStep DEF Quiet
  <1>3. CASE ~(answer <= acked)
    <2>1. /\ queue' = [s \in DOMAIN queue \ AckedKeys(answer) |-> queue[s]]
          /\ acked' = answer
          /\ pendingBytes' = pendingBytes - AckedBytes(answer)
          /\ pendingEvents' = pendingEvents - AckedEvents(answer)
          /\ UNCHANGED <<next, log, offset>>
      BY <1>1, <1>3 DEF Acknowledge
    <2>2. AckValid(answer) /\ Accounted(answer)
      BY <1>1, <1>3 DEF Acknowledge
    <2>3. /\ next \in Nat \ {0} /\ next <= MaxSequence + 1 /\ acked \in Nat /\ acked < next
          /\ answer \in 0 .. MaxSequence
          /\ DOMAIN queue = acked + 1 .. next - 1
      BY <1>1 DEF IInv, TypeOK, QueueTypeOK, QueueIsSuffix
    <2>4. acked < answer /\ answer < next /\ answer <= Highest(center)
      BY <1>1, <1>3, <2>2, <2>3 DEF AckValid, IInv, AnswerInv
    <2>5. DOMAIN queue' = acked' + 1 .. next' - 1
      <3>1. DOMAIN queue' = {s \in acked + 1 .. next - 1 : ~(s <= answer)}
        BY <2>1, <2>3 DEF AckedKeys
      <3>2. {s \in acked + 1 .. next - 1 : ~(s <= answer)} = answer + 1 .. next - 1
        BY <2>3, <2>4
      <3> QED
        BY <2>1, <3>1, <3>2
    <2>6. AckedEvents(answer) = answer - acked
      <3>1. AckedKeys(answer) = acked + 1 .. answer
        BY <2>3, <2>4 DEF AckedKeys
      <3> QED
        BY <2>3, <2>4, <3>1, FS_Interval DEF AckedEvents
    <2>7. /\ pendingEvents \in Nat /\ pendingBytes \in Nat
          /\ pendingEvents = next - 1 - acked
          /\ pendingBytes = offset[next - 1] - offset[acked]
          /\ pendingEvents <= MaxEvents /\ pendingBytes <= MaxBytes
      <3>1. pendingEvents = Cardinality(acked + 1 .. next - 1)
        BY <2>3 DEF IInv, Accounting
      <3>2. pendingEvents = next - 1 - acked
        BY <2>3, <3>1, FS_Interval
      <3> QED
        BY <3>2 DEF IInv, Accounting, TypeOK, QueueTypeOK
    <2>8. /\ offset[answer] \in Nat /\ offset[acked] \in Nat /\ offset[next - 1] \in Nat
          /\ offset[acked] <= offset[answer] /\ offset[answer] <= offset[next - 1]
      <3>1. /\ answer \in 0 .. next - 1 /\ acked \in 0 .. next - 1 /\ next - 1 \in 0 .. next - 1
            /\ acked <= answer /\ answer <= next - 1
            /\ answer \in 0 .. MaxSequence /\ acked \in 0 .. MaxSequence
            /\ next - 1 \in 0 .. MaxSequence
        BY <2>3, <2>4
      <3> QED
        BY <3>1 DEF IInv, TypeOK, QueueTypeOK, OffsetInv
    <2>9. \A s \in DOMAIN queue' : s \in DOMAIN queue /\ queue'[s] = queue[s]
      BY <2>1
    <2>10. pendingBytes' \in Nat /\ pendingEvents' \in Nat
      BY <2>1, <2>3, <2>4, <2>6, <2>7, <2>8 DEF AckedBytes
    <2>11. TypeOK'
      <3>1. QueueTypeOK'
        BY <2>1, <2>3, <2>9, <2>10 DEF IInv, TypeOK, QueueTypeOK
      <3> QED
        BY <1>1, <3>1 DEF IInv, TypeOK, UpAt, UpPcs
    <2>12. QueueIsSuffix' /\ LogInv' /\ OffsetInv'
      BY <2>1, <2>4, <2>5, <2>9 DEF IInv, QueueIsSuffix, LogInv, OffsetInv
    <2>13. Accounting'
      <3>1. Cardinality(DOMAIN queue') = next - 1 - answer
        <4>1. Cardinality(answer + 1 .. next - 1) = next - 1 - answer
          BY <2>3, <2>4, FS_Interval
        <4> QED
          BY <2>1, <2>5, <4>1
      <3>2. pendingEvents' = next - 1 - answer /\ pendingEvents' <= MaxEvents
        BY <2>1, <2>3, <2>4, <2>6, <2>7
      <3>3. pendingBytes' = offset[next - 1] - offset[answer] /\ pendingBytes' <= MaxBytes
        BY <2>1, <2>7, <2>8 DEF AckedBytes
      <3> QED
        BY <2>1, <3>1, <3>2, <3>3 DEF Accounting
    <2>14. ASSUME NEW n \in 0 .. next - 1, Reach(acked, n)
           PROVE  Reach(acked, n)'
      <3>1. Reach(answer, n)
        BY <2>3, <2>4, <2>14, ReachMonotone DEF IInv
      <3> QED
        BY <2>1, <3>1 DEF Reach
    <2>15. CenterInv'
      <3> DEFINE h == Highest(center)
      <3>1. /\ h' = h /\ h \in acked .. next - 1 /\ answer <= h
            /\ \A s \in 1 .. MaxSequence : center[s] = IF s <= h THEN {log[s]} ELSE {}
        BY <1>1, <2>4 DEF IInv, CenterInv
      <3>2. Reach(acked, h)
        BY DEF IInv, CenterInv
      <3> HIDE DEF h
      <3>3. h \in 0 .. next - 1 /\ h \in acked' .. next' - 1
        BY <2>1, <2>3, <3>1
      <3>4. \A s \in 1 .. MaxSequence : center'[s] = IF s <= h' THEN {log'[s]} ELSE {}
        BY <1>1, <2>1, <3>1
      <3>5. h' \in acked' .. next' - 1
        BY <3>1, <3>3
      <3>6. Reach(acked, h)'
        BY <2>14, <3>1, <3>2, <3>3 DEF Reach
      <3> QED
        BY <3>4, <3>5, <3>6 DEF CenterInv, h
    <2>16. ASSUME NEW batch \in Batches, GoodBatch(batch)
           PROVE  GoodBatch(batch)'
      <3>1. batch.first \in Nat \ {0} /\ Last(batch) \in Int /\ Last(batch) < next
        BY <2>16, LenProperties DEF GoodBatch, Last, Batches
      <3>2. ASSUME NEW s \in batch.first .. Last(batch)
            PROVE  batch.events[s - batch.first + 1] = log'[s] /\ Reach(acked, s)'
        <4>1. s \in 0 .. next - 1
          BY <2>3, <3>1
        <4> QED
          BY <2>1, <2>14, <2>16, <3>2, <4>1 DEF GoodBatch
      <3>3. Last(batch)' = Last(batch) /\ batch.first <= acked' + 1
        BY <2>1, <2>3, <2>4, <2>16, <3>1 DEF GoodBatch, Last
      <3> QED
        BY <2>1, <3>1, <3>2, <3>3 DEF GoodBatch
    <2>17. BatchInv' /\ AnswerInv' /\ WaitInv'
      BY <1>1, <2>16 DEF IInv, BatchInv, AnswerInv, WaitInv, UpAt, TypeOK
    <2> QED
      BY <1>1, <2>1, <2>11, <2>12, <2>13, <2>15, <2>17 DEF IInv
  <1> QED
    BY <1>2, <1>3

\* The center appends a part of a good batch to its prefix of the stream, or
\* has it already.
LEMMA StoreStep ==
  ASSUME IInv, NEW batch \in Batches, GoodBatch(batch),
         NEW count \in 0 .. Len(batch.events), Store(batch, count),
         UNCHANGED <<queue, next, acked, pendingBytes, pendingEvents, log, offset>>
  PROVE  /\ CenterInv' /\ center' \in [1 .. MaxSequence -> SUBSET Payloads]
         /\ Highest(center) <= Highest(center')
  <1> DEFINE h == Highest(center)
             last == batch.first + count - 1
             top == IF last > h THEN last ELSE h
  <1>1. /\ batch.first \in Nat \ {0} /\ count \in Nat /\ Len(batch.events) \in Nat
        /\ batch.events \in Seq(Payloads)
    BY LenProperties DEF Batches
  <1>2. next \in Nat \ {0} /\ acked \in Nat /\ acked < next /\ next <= MaxSequence + 1
    <2>1. next \in Nat \ {0} /\ acked \in Nat /\ next <= MaxSequence + 1
      BY DEF IInv, TypeOK, QueueTypeOK
    <2> QED
      BY <2>1 DEF IInv, QueueIsSuffix
  <1>3. /\ h \in Nat /\ acked <= h /\ h < next
        /\ \A s \in 1 .. MaxSequence : center[s] = IF s <= h THEN {log[s]} ELSE {}
        /\ Reach(acked, h)
    <2>1. /\ h \in acked .. next - 1 /\ Reach(acked, h)
          /\ \A s \in 1 .. MaxSequence : center[s] = IF s <= h THEN {log[s]} ELSE {}
      BY DEF IInv, CenterInv
    <2> HIDE DEF h
    <2>2. h \in Nat /\ acked <= h /\ h < next
      BY <1>2, <2>1
    <2> QED
      BY <2>1, <2>2
  <1>4. batch.first <= acked + 1 /\ batch.first + Len(batch.events) - 1 < next
    BY DEF GoodBatch, Last
  <1>5. last \in Int /\ last < next /\ batch.first <= h + 1
    BY <1>1, <1>2, <1>3, <1>4
  <1>6. ASSUME NEW s \in batch.first .. last
        PROVE  /\ batch.events[s - batch.first + 1] = log[s] /\ Reach(acked, s)
               /\ log[s] \in Payloads
    <2>1. s \in batch.first .. Last(batch)
      BY <1>1 DEF Last
    <2>2. s - batch.first + 1 \in 1 .. Len(batch.events)
      BY <1>1
    <2>3. batch.events[s - batch.first + 1] \in Payloads
      BY <1>1, <2>2, ElementOfSeq
    <2> QED
      BY <2>1, <2>3 DEF GoodBatch
  <1> HIDE DEF h, last
  <1>7. top \in Nat /\ h <= top /\ top < next /\ Reach(acked, top)
    <2>1. CASE last > h
      <3>1. last \in batch.first .. last
        BY <1>1, <1>3, <1>5, <2>1
      <3> QED
        BY <1>3, <1>5, <1>6, <2>1, <3>1
    <2>2. CASE ~(last > h)
      BY <1>3, <2>2
    <2> QED
      BY <2>1, <2>2
  <1>8. \A s \in 1 .. MaxSequence : s <= top <=> (s <= h \/ s \in batch.first .. last)
    BY <1>1, <1>3, <1>5
  <1>9. \A s \in 1 .. MaxSequence :
          center'[s] = IF s \in batch.first .. last
                       THEN center[s] \cup {batch.events[s - batch.first + 1]}
                       ELSE center[s]
    BY DEF Store, last
  <1> HIDE DEF top
  <1>10. \A s \in 1 .. MaxSequence : center'[s] = IF s <= top THEN {log[s]} ELSE {}
    <2> TAKE s \in 1 .. MaxSequence
    <2>1. CASE s \in batch.first .. last
      <3>1. center'[s] = center[s] \cup {log[s]} /\ s <= top
        BY <1>6, <1>8, <1>9, <2>1
      <3>2. center[s] = {log[s]} \/ center[s] = {}
        BY <1>3
      <3> QED
        BY <3>1, <3>2
    <2>2. CASE ~(s \in batch.first .. last)
      <3>1. center'[s] = center[s] /\ (s <= top <=> s <= h)
        BY <1>8, <1>9, <2>2
      <3> QED
        BY <1>3, <3>1
    <2> QED
      BY <2>1, <2>2
  <1>11. center' \in [1 .. MaxSequence -> SUBSET Payloads]
    <2>1. center' = [s \in 1 .. MaxSequence |-> center'[s]]
      BY DEF Store
    <2>2. ASSUME NEW s \in 1 .. MaxSequence
          PROVE  center'[s] \subseteq Payloads
      <3>1. center[s] \subseteq Payloads
        BY DEF IInv, TypeOK
      <3> QED
        BY <1>6, <1>9, <3>1
    <2> QED
      BY <2>1, <2>2
  <1>12. Highest(center') = top
    <2>1. top \in 0 .. MaxSequence
      BY <1>2, <1>7
    <2>2. \A s \in 1 .. MaxSequence : center'[s] # {} <=> s <= top
      BY <1>10
    <2> QED
      BY <1>11, <2>1, <2>2, HighestIs
  <1>13. top \in acked .. next - 1
    BY <1>2, <1>3, <1>7
  <1>14. CenterInv'
    BY <1>7, <1>10, <1>12, <1>13 DEF CenterInv, Reach
  <1> QED
    BY <1>7, <1>11, <1>12, <1>14 DEF h

\* The center's steps keep the invariant and never take back an event.
LEMMA CenterStep ==
  ASSUME IInv, CenterReceives \/ CenterReceivesLate
  PROVE  IInv' /\ UNCHANGED <<log, next>> /\ Highest(center) <= Highest(center)'
  <1>1. /\ UNCHANGED <<queue, next, acked, pendingBytes, pendingEvents, log, offset>>
        /\ UNCHANGED <<agent, notify, up, faults>>
        /\ late' \subseteq late /\ (request' = request \/ request' = None)
        /\ answer' = answer \/ answer' = Highest(center')
    BY DEF CenterReceives, CenterReceivesLate, queueVars
  <1>2. PICK batch \in Batches :
          GoodBatch(batch) /\ \E count \in 0 .. Len(batch.events) : Store(batch, count)
    BY DEF CenterReceives, CenterReceivesLate, IInv, TypeOK, BatchInv
  <1>3. /\ CenterInv' /\ center' \in [1 .. MaxSequence -> SUBSET Payloads]
        /\ Highest(center) <= Highest(center')
    BY <1>1, <1>2, StoreStep
  <1>4. Highest(center) \in Nat /\ Highest(center') \in 0 .. MaxSequence
    <2>1. next \in 1 .. MaxSequence + 1 /\ acked \in Nat
      BY DEF IInv, TypeOK, QueueTypeOK
    <2>2. Highest(center) \in acked .. next - 1 /\ Highest(center') \in acked' .. next' - 1
      BY <1>3 DEF IInv, CenterInv
    <2> QED
      BY <1>1, <2>1, <2>2
  <1>5. TypeOK'
    <2>1. QueueTypeOK'
      BY <1>1 DEF IInv, TypeOK, QueueTypeOK
    <2> QED
      BY <1>1, <1>3, <1>4, <2>1 DEF IInv, TypeOK
  <1>6. QueueIsSuffix' /\ Accounting' /\ LogInv' /\ OffsetInv' /\ WaitInv'
    BY <1>1 DEF IInv, QueueIsSuffix, Accounting, LogInv, OffsetInv, WaitInv
  <1>7. \A b : GoodBatch(b) => GoodBatch(b)'
    BY <1>1 DEF GoodBatch, Last, Reach
  <1>8. BatchInv'
    BY <1>1, <1>7 DEF IInv, BatchInv
  <1>9. AnswerInv'
    <2>1. answer \in 0 .. MaxSequence \cup {None}
      BY DEF IInv, TypeOK
    <2> QED
      BY <1>1, <1>3, <1>4, <2>1 DEF IInv, AnswerInv
  <1> QED
    BY <1>1, <1>3, <1>5, <1>6, <1>8, <1>9 DEF IInv

-----------------------------------------------------------------------------
(* The theorems.                                                           *)

\* Every step keeps the invariant.
LEMMA NextIInv ==
  ASSUME IInv, [Next]_vars
  PROVE  IInv'
  <1>1. CASE UNCHANGED vars
    <2>1. Quiet
      BY <1>1 DEF vars, Quiet
    <2>2. /\ agent' \in {"up", "stopping", "down"} /\ faults' \in Nat
          /\ up' \in [pc : UpPcs, first : Nat, last : Nat]
          /\ up'.pc = "await" => up' = up
      BY <1>1 DEF vars, IInv, TypeOK
    <2>3. notify' \in BOOLEAN
      BY <1>1 DEF vars, IInv, TypeOK
    <2> QED
      BY <2>1, <2>2, <2>3, QuietStep
  <1>2. CASE Boot \/ Crash \/ Stop \/ Exit
    BY <1>2, QuietSteps
  <1>3. CASE \E p \in Payloads : Produce(p)
    BY <1>3, ProduceStep
  <1>4. CASE Uploader
    BY <1>4, QuietSteps, UploadBatchStep, UploadAckedStep DEF Uploader
  <1>5. CASE CenterReceives \/ CenterReceivesLate
    BY <1>5, CenterStep
  <1> QED
    BY <1>1, <1>2, <1>3, <1>4, <1>5 DEF Next

\* Every reachable state of the event flow satisfies the invariant above.
THEOREM Inductive ==
  Spec => []IInv
  <1>1. Init => IInv
    BY InitIInv
  <1>2. IInv /\ [Next]_vars => IInv'
    BY NextIInv
  <1> QED
    BY <1>1, <1>2, PTL DEF Spec

\* The database and the messages always have the shape the model gives them.
THEOREM TypeCorrect ==
  Spec => []TypeOK
  <1>1. IInv => TypeOK
    BY DEF IInv
  <1> QED
    BY <1>1, Inductive, PTL

\* No event for which Enqueue returned is ever missing from both the database
\* and the center, whatever the limits and the number of faults.
THEOREM NothingLost ==
  Spec => []NoEventLost
  <1>1. ASSUME IInv, NEW s \in Assigned
        PROVE  (s \in DOMAIN queue /\ queue[s] = log[s]) \/ log[s] \in center[s]
    <2>1. next \in Nat /\ next <= MaxSequence + 1 /\ acked \in Nat
      BY <1>1 DEF IInv, TypeOK, QueueTypeOK
    <2>2. CASE s > acked
      <3>1. s \in DOMAIN queue
        BY <1>1, <2>1, <2>2 DEF IInv, QueueIsSuffix, Assigned
      <3> QED
        BY <1>1, <3>1 DEF IInv, LogInv
    <2>3. CASE ~(s > acked)
      <3>1. s \in 1 .. MaxSequence /\ s <= acked
        BY <2>1, <2>3 DEF Assigned
      <3>2. Highest(center) \in acked .. next - 1
        BY <1>1 DEF IInv, CenterInv
      <3>3. s <= Highest(center)
        BY <2>1, <3>1, <3>2
      <3>4. center[s] = {log[s]}
        BY <1>1, <3>1, <3>3 DEF IInv, CenterInv
      <3> QED
        BY <3>4
    <2> QED
      BY <2>2, <2>3
  <1>2. IInv => NoEventLost
    BY <1>1 DEF NoEventLost
  <1> QED
    BY <1>2, Inductive, PTL

\* No sequence number is ever given to two events.
THEOREM SequencesAreUnique ==
  Spec => []OneEventPerSequence
  <1>1. ASSUME IInv, NEW s \in 1 .. MaxSequence, NEW p \in center[s]
        PROVE  s \in Assigned /\ p = log[s]
    <2>1. next \in Nat /\ acked \in Nat
      BY <1>1 DEF IInv, TypeOK, QueueTypeOK
    <2>2. Highest(center) \in acked .. next - 1 /\ s <= Highest(center) /\ p = log[s]
      BY <1>1 DEF IInv, CenterInv
    <2> QED
      BY <2>1, <2>2 DEF Assigned
  <1>2. IInv => OneEventPerSequence
    BY <1>1 DEF OneEventPerSequence
  <1> QED
    BY <1>2, Inductive, PTL

\* The counters of the database always describe its bucket, within the limits.
THEOREM CountersAgree ==
  Spec => [](QueueIsSuffix /\ Accounting)
  <1>1. IInv => QueueIsSuffix /\ Accounting
    BY DEF IInv
  <1> QED
    BY <1>1, Inductive, PTL

\* An acknowledgement within the batch is never refused by the queue, so the
\* uploader does not stop the Agent over one.
THEOREM AcknowledgementsAccepted ==
  Spec => []AcknowledgeAccepts
  <1>1. ASSUME IInv, answer # None, InBatch(answer), up.pc = "await"
        PROVE  ~AcknowledgeFails(answer)
    <2>1. next \in Nat /\ next <= MaxSequence + 1 /\ acked \in Nat /\ acked < next
          /\ answer \in 0 .. MaxSequence
      BY <1>1 DEF IInv, TypeOK, QueueTypeOK, QueueIsSuffix
    <2>2. answer < next
      <3>1. answer <= Highest(center) /\ Highest(center) \in acked .. next - 1
        BY <1>1 DEF IInv, AnswerInv, CenterInv
      <3> QED
        BY <2>1, <3>1
    <2>3. answer # 0
      <3>1. up.first \in Nat /\ up.first # 0
        BY <1>1 DEF IInv, TypeOK, WaitInv
      <3> QED
        BY <1>1, <2>1, <3>1 DEF InBatch
    <2>4. ASSUME acked < answer
          PROVE  Accounted(answer)
      <3>1. AckedEvents(answer) <= pendingEvents
        <4>1. AckedKeys(answer) = acked + 1 .. answer /\ DOMAIN queue = acked + 1 .. next - 1
          BY <1>1, <2>1, <2>2 DEF AckedKeys, IInv, QueueIsSuffix
        <4>2. AckedEvents(answer) = answer - acked
          BY <2>1, <2>4, <4>1, FS_Interval DEF AckedEvents
        <4>3. pendingEvents = next - 1 - acked
          BY <1>1, <2>1, <4>1, FS_Interval DEF IInv, Accounting
        <4> QED
          BY <2>1, <2>2, <4>2, <4>3
      <3>2. AckedBytes(answer) <= pendingBytes
        <4>1. answer \in 0 .. next - 1 /\ next - 1 \in 0 .. next - 1 /\ answer <= next - 1
          BY <2>1, <2>2
        <4>2. offset[answer] <= offset[next - 1]
          BY <1>1, <4>1 DEF IInv, OffsetInv
        <4>3. answer \in 0 .. MaxSequence /\ next - 1 \in 0 .. MaxSequence /\ acked \in 0 .. MaxSequence
          BY <2>1, <2>2
        <4>4. offset[answer] \in Nat /\ offset[next - 1] \in Nat /\ offset[acked] \in Nat
          BY <1>1, <4>3 DEF IInv, TypeOK, QueueTypeOK
        <4>5. pendingBytes = offset[next - 1] - offset[acked]
          BY <1>1 DEF IInv, Accounting
        <4> QED
          BY <4>2, <4>4, <4>5 DEF AckedBytes
      <3> QED
        BY <3>1, <3>2 DEF Accounted
    <2> QED
      BY <2>1, <2>2, <2>3, <2>4 DEF AcknowledgeFails, AckValid
  <1>2. IInv => AcknowledgeAccepts
    BY <1>1 DEF AcknowledgeAccepts
  <1> QED
    BY <1>2, Inductive, PTL

\* The next batch always covers what the center has, so the uploader cannot get
\* stuck refusing its answers.
THEOREM AnswersFitTheBatch ==
  Spec => []CenterWithinBatch
  <1>1. ASSUME IInv, NEW first \in 1 .. MaxSequence, NEW last \in 1 .. MaxSequence,
               Batch(first, last)
        PROVE  Highest(center) <= last
    <2> DEFINE h == Highest(center)
    <2>1. h \in acked .. next - 1 /\ Reach(acked, h)
      BY <1>1 DEF IInv, CenterInv
    <2> SUFFICES h <= last
      OBVIOUS
    <2> HIDE DEF h
    <2>2. /\ next \in Nat /\ acked \in Nat /\ DOMAIN queue = acked + 1 .. next - 1
      BY <1>1 DEF IInv, TypeOK, QueueTypeOK, QueueIsSuffix
    <2>3. first \in DOMAIN queue /\ \A s \in DOMAIN queue : first <= s
      BY <1>1 DEF Batch, FirstKey
    <2>4. first <= last /\ \A s \in DOMAIN queue : BatchFits(first, s) => s <= last
      BY <1>1 DEF Batch, BatchFits
    <2>5. first = acked + 1
      <3>1. acked + 1 <= first /\ acked + 1 \in DOMAIN queue
        BY <2>2, <2>3
      <3>2. first <= acked + 1
        BY <2>3, <3>1
      <3> QED
        BY <2>2, <3>1, <3>2
    <2>6. CASE h <= acked
      BY <2>1, <2>2, <2>4, <2>5, <2>6
    <2>7. CASE ~(h <= acked)
      <3>1. h \in DOMAIN queue /\ first <= h /\ first - 1 = acked
        BY <2>1, <2>2, <2>5, <2>7
      <3>2. h <= acked + BatchEvents /\ (h = acked + 1 \/ offset[h] - offset[acked] <= BatchBytes)
        BY <2>1, <2>7 DEF Reach
      <3>3. h < first + BatchEvents /\ (h = first \/ offset[h] - offset[first - 1] <= BatchBytes)
        BY <2>1, <2>2, <2>5, <3>1, <3>2
      <3>4. BatchFits(first, h)
        BY <3>1, <3>3 DEF BatchFits
      <3> QED
        BY <2>4, <3>1, <3>4
    <2> QED
      BY <2>6, <2>7
  <1>2. IInv => CenterWithinBatch
    BY <1>1 DEF CenterWithinBatch
  <1> QED
    BY <1>2, Inductive, PTL

\* Queue, uploader and center implement the channel that EventChannel
\* specifies: every step is the acceptance of an event, the delivery of the
\* next ones, or nothing at all.
THEOREM RefinesChannel ==
  Spec => Channel!Spec
  <1>1. Init => Channel!Init
    <2> SUFFICES ASSUME Init
                 PROVE  log = << >> /\ Highest(center) = 0
      BY DEF Channel!Init
    <2>1. /\ center \in [1 .. MaxSequence -> SUBSET Payloads] /\ 0 \in 0 .. MaxSequence
          /\ \A s \in 1 .. MaxSequence : center[s] # {} <=> s <= 0
      BY DEF Init
    <2>2. Highest(center) = 0
      BY <2>1, HighestIs
    <2> QED
      BY <2>2 DEF Init, QueueInit
  <1>2. IInv /\ IInv' /\ [Next]_vars => [Channel!Next]_<<log, Highest(center)>>
    <2> SUFFICES ASSUME IInv, IInv', [Next]_vars
                 PROVE  [Channel!Next]_<<log, Highest(center)>>
      OBVIOUS
    <2>1. CASE UNCHANGED <<log, center>>
      BY <2>1
    <2>2. CASE \E p \in Payloads : Produce(p)
      <3>1. PICK p \in Payloads : Produce(p)
        BY <2>2
      <3>2. Highest(center)' = Highest(center) /\ log' = Append(log, p)
        BY <3>1, ProduceStep
      <3> QED
        BY <3>2 DEF Channel!Next, Channel!Send
    <2>3. CASE CenterReceives \/ CenterReceivesLate
      <3>1. UNCHANGED log /\ Highest(center) <= Highest(center)'
        BY <2>3, CenterStep
      <3> DEFINE h == Highest(center)
      <3>2. /\ h \in acked .. next - 1 /\ h' \in acked' .. next' - 1 /\ h <= h'
            /\ Len(log) = next - 1 /\ Len(log') = next' - 1
        BY <3>1 DEF IInv, CenterInv, LogInv
      <3>3. acked \in Nat /\ next \in Nat /\ acked' \in Nat /\ next' \in Nat
        BY DEF IInv, TypeOK, QueueTypeOK
      <3> HIDE DEF h
      <3>4. h' = h \/ (h' \in 1 .. Len(log) /\ h' > h)
        <4>1. next' = next
          BY <2>3, CenterStep
        <4>2. h \in Nat /\ h' \in Nat /\ h <= h' /\ h' <= Len(log)
          BY <3>2, <3>3, <4>1
        <4>3. Len(log) \in Int
          BY <3>2, <3>3
        <4> QED
          BY <4>2, <4>3
      <3>5. h' = h \/ \E n \in 1 .. Len(log) : n > h /\ h' = n
        BY <3>4
      <3> QED
        BY <3>1, <3>5 DEF h, Channel!Next, Channel!Deliver
    <2>4. CASE Boot \/ Crash \/ Stop \/ Exit
      BY <2>1, <2>4, QuietSteps DEF Quiet
    <2>5. CASE Uploader
      <3>1. UNCHANGED <<log, center>>
        BY <2>5, QuietSteps, UploadBatchStep, UploadAckedStep DEF Uploader, Quiet
      <3> QED
        BY <2>1, <3>1
    <2>6. CASE UNCHANGED vars
      BY <2>1, <2>6 DEF vars
    <2> QED
      BY <2>2, <2>3, <2>4, <2>5, <2>6 DEF Next
  <1> QED
    BY <1>1, <1>2, Inductive, PTL DEF Spec, Channel!Spec
=============================================================================
