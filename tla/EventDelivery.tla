--------------------------- MODULE EventDelivery ----------------------------
(***************************************************************************)
(* Events on their way to the center: producers enqueue them, the uploader *)
(* (internal/agent/events.go) posts the oldest batch over and over until   *)
(* the center acknowledges a prefix of it, which Acknowledge then removes. *)
(*                                                                         *)
(* Producers and uploader run concurrently in a process that may crash,    *)
(* stop and restart at any point; the database outlives it.  A request may *)
(* be lost, may reach the center after the uploader gave it up, and may be *)
(* stored only in part; its answer may be lost or unusable.                *)
(***************************************************************************)
EXTENDS EventQueue

CONSTANTS
  None,        \* no message
  MaxFaults    \* bound on crashes, stops, failed transactions and failed requests

VARIABLES
  agent,     \* the process: "up", "stopping" (context cancelled) or "down"
  notify,    \* the channel Enqueue signals
  up,        \* eventUploader.Run: where it is, and the bounds of its batch
  request,   \* the batch on its way to the center
  answer,    \* the highest contiguous sequence on its way back
  late,      \* batches of requests the uploader gave up
  center,    \* center (external): what it ever received, by sequence number
  faults     \* how many faults have happened

vars == <<queue, next, acked, pendingBytes, pendingEvents, log, offset,
          agent, notify, up, request, answer, late, center, faults>>

UpPcs == {"read", "await", "idle", "backoff", "done"}

\* EventBatch: consecutive events, the first one numbered first.
Batches == [first : 1 .. MaxSequence, events : Seq(Payloads) \ {<< >>}]

ASSUME NoneAssumption == None \notin Batches /\ None \notin Nat

TypeOK ==
  /\ QueueTypeOK
  /\ agent \in {"up", "stopping", "down"}
  /\ notify \in BOOLEAN
  /\ up \in [pc : UpPcs, first : Nat, last : Nat]
  /\ request \in Batches \cup {None}
  /\ answer \in 0 .. MaxSequence \cup {None}
  /\ late \in SUBSET Batches
  /\ center \in [1 .. MaxSequence -> SUBSET Payloads]
  /\ faults \in Nat

UpAt(pc) == [pc |-> pc, first |-> 0, last |-> 0]

Init ==
  /\ QueueInit
  /\ agent = "down"
  /\ notify = FALSE
  /\ up = UpAt("done")
  /\ request = None
  /\ answer = None
  /\ late = {}
  /\ center = [s \in 1 .. MaxSequence |-> {}]
  /\ faults = 0

Fault == faults < MaxFaults /\ faults' = faults + 1

-----------------------------------------------------------------------------
(* The process and the producers.                                          *)

\* The connection is gone; a request already sent may still be processed.
GiveUp ==
  /\ request' = None
  /\ answer' = None
  /\ late' \in {late, late \cup ({request} \ {None})}

Down == agent' = "down" /\ up' = UpAt("done") /\ notify' = FALSE

\* Mutant of Boot: the next number follows from the events still in the bucket.
BootRecounts ==
  /\ agent = "down"
  /\ agent' = "up"
  /\ up' = UpAt("read")
  /\ next' = IF queue = << >> THEN 1 ELSE next
  /\ UNCHANGED <<queue, acked, pendingBytes, pendingEvents, log, offset,
                 notify, request, answer, late, center, faults>>

\* Open finds the database as it was left; Run starts by reading a batch.
Boot ==
  /\ agent = "down"
  /\ agent' = "up"
  /\ up' = UpAt("read")
  /\ UNCHANGED <<queueVars, notify, request, answer, late, center, faults>>

Crash ==
  /\ agent # "down"
  /\ Fault
  /\ Down
  /\ GiveUp
  /\ UNCHANGED <<queueVars, center>>

Stop ==
  /\ agent = "up"
  /\ Fault
  /\ agent' = "stopping"
  /\ UNCHANGED <<queueVars, notify, up, request, answer, late, center>>

Exit ==
  /\ agent = "stopping"
  /\ up.pc = "done"
  /\ Down
  /\ UNCHANGED <<queueVars, request, answer, late, center, faults>>

\* The plugin supervisor, the policy engine or the network observer reports
\* an event: the transaction, then the signal.
Produce(p) ==
  /\ agent # "down"
  /\ Enqueue(p)
  /\ notify' = TRUE
  /\ UNCHANGED <<agent, up, request, answer, late, center, faults>>

-----------------------------------------------------------------------------
(* eventUploader.Run.                                                      *)

\* A fatal error ends Run, and with it the other workers.
UploadFatal == up' = UpAt("done") /\ agent' = "stopping"

UploadFrame == UNCHANGED <<notify, late, center>>

\* uploadOnce up to the request.
UploadBatch(first, last) ==
  /\ up.pc = "read"
  /\ Batch(first, last)
  /\ up' = [pc |-> "await", first |-> first, last |-> last]
  /\ request' = [first |-> first,
                 events |-> [i \in 1 .. last - first + 1 |-> queue[first + i - 1]]]
  /\ UploadFrame
  /\ UNCHANGED <<queueVars, agent, answer, faults>>

\* Batch finds nothing (ErrNotFound), or fails.
UploadNothing ==
  /\ up.pc = "read"
  /\ DOMAIN queue = {}
  /\ up' = UpAt("idle")
  /\ UploadFrame
  /\ UNCHANGED <<queueVars, agent, request, answer, faults>>

UploadReadFails ==
  /\ up.pc = "read"
  /\ Fault
  /\ UploadFatal
  /\ UploadFrame
  /\ UNCHANGED <<queueVars, request, answer>>

\* The endpoint is unreachable, the request times out, the answer is an HTTP
\* error or cannot be decoded: retried after the backoff.
UploadFails ==
  /\ up.pc = "await"
  /\ Fault
  /\ up' = UpAt("backoff")
  /\ GiveUp
  /\ UNCHANGED <<queueVars, agent, notify, center>>

\* Mutant of InBatch: an answer for the first event alone is refused.
InBatchAfterFirst(sequence) == up.first < sequence /\ sequence <= up.last

\* The answer is refused unless it lies within the batch.
InBatch(sequence) == up.first <= sequence /\ sequence <= up.last

UploadRefused ==
  /\ up.pc = "await"
  /\ answer # None
  /\ ~InBatch(answer)
  /\ answer' = None
  /\ up' = UpAt("backoff")
  /\ UploadFrame
  /\ UNCHANGED <<queueVars, agent, request, faults>>

\* queue.Acknowledge; its failure is fatal.
UploadAcked ==
  /\ up.pc = "await"
  /\ answer # None
  /\ InBatch(answer)
  /\ Acknowledge(answer)
  /\ answer' = None
  /\ up' = UpAt("idle")
  /\ UploadFrame
  /\ UNCHANGED <<agent, request, faults>>

UploadAckFails ==
  /\ up.pc = "await"
  /\ answer # None
  /\ InBatch(answer)
  /\ AcknowledgeFails(answer) \/ faults < MaxFaults
  /\ faults' = faults + 1
  /\ answer' = None
  /\ UploadFatal
  /\ UploadFrame
  /\ UNCHANGED <<queueVars, request>>

\* wait returns: a notification (not during the backoff) or the timer.
UploadNotified ==
  /\ up.pc = "idle"
  /\ notify
  /\ notify' = FALSE
  /\ up' = UpAt("read")
  /\ UNCHANGED <<queueVars, agent, request, answer, late, center, faults>>

UploadTimer ==
  /\ up.pc \in {"idle", "backoff"}
  /\ up' = UpAt("read")
  /\ UploadFrame
  /\ UNCHANGED <<queueVars, agent, request, answer, faults>>

\* The context is cancelled: Run returns from wait, or after uploadOnce, whose
\* request is aborted.
UploadCancelled ==
  /\ up.pc \in {"await", "idle", "backoff"}
  /\ agent = "stopping"
  /\ up' = UpAt("done")
  /\ GiveUp
  /\ UNCHANGED <<queueVars, agent, notify, center, faults>>

Uploader ==
  \/ \E first, last \in 1 .. MaxSequence : UploadBatch(first, last)
  \/ UploadNothing \/ UploadReadFails \/ UploadFails \/ UploadRefused
  \/ UploadAcked \/ UploadAckFails \/ UploadNotified \/ UploadTimer \/ UploadCancelled

-----------------------------------------------------------------------------
(* The center (external) stores a prefix of a batch and answers with the   *)
(* highest sequence number up to which it has received everything.         *)

Highest(received) ==
  CHOOSE n \in 0 .. MaxSequence :
    /\ \A s \in 1 .. n : received[s] # {}
    /\ n = MaxSequence \/ received[n + 1] = {}

Store(batch, count) ==
  center' = [s \in 1 .. MaxSequence |->
               IF s \in batch.first .. batch.first + count - 1
               THEN center[s] \cup {batch.events[s - batch.first + 1]}
               ELSE center[s]]

CenterReceives ==
  /\ request # None
  /\ \E count \in 0 .. Len(request.events) : Store(request, count)
  /\ answer' = Highest(center')
  /\ request' = None
  /\ UNCHANGED <<queueVars, agent, notify, up, late, faults>>

CenterReceivesLate ==
  \E batch \in late :
    /\ \E count \in 0 .. Len(batch.events) : Store(batch, count)
    /\ late' = late \ {batch}
    /\ UNCHANGED <<queueVars, agent, notify, up, request, answer, faults>>

-----------------------------------------------------------------------------

Next ==
  \/ Boot \/ Crash \/ Stop \/ Exit
  \/ \E p \in Payloads : Produce(p)
  \/ Uploader
  \/ CenterReceives \/ CenterReceivesLate

Spec == Init /\ [][Next]_vars

(* Fairness: the goroutines are scheduled, timers fire, the service        *)
(* manager restarts the Agent, and the center answers requests, storing at *)
(* least one event it lacks every so often.  Nothing is assumed of         *)
(* producers, faults or late requests.                                     *)
CenterProgresses == CenterReceives /\ answer' >= up.first

Fairness ==
  /\ WF_vars(Boot) /\ WF_vars(Exit)
  /\ WF_vars(\E first, last \in 1 .. MaxSequence : UploadBatch(first, last))
  /\ WF_vars(UploadNothing) /\ WF_vars(UploadRefused) /\ WF_vars(UploadAcked)
  /\ WF_vars(UploadTimer)
  /\ WF_vars(agent = "stopping" /\ UploadCancelled)
  /\ WF_vars(CenterReceives) /\ SF_vars(CenterProgresses)

FairSpec == Spec /\ Fairness

-----------------------------------------------------------------------------
(* Properties.                                                             *)

Assigned == 1 .. next - 1

\* An event for which Enqueue returned is in the database or at the center,
\* unchanged and under its number, whatever Acknowledge has removed.
NoEventLost ==
  \A s \in Assigned :
    \/ s \in DOMAIN queue /\ queue[s] = log[s]
    \/ log[s] \in center[s]

\* The center never gets two different events under one sequence number, and
\* none under a number that was not assigned: a crash does not reuse one.
OneEventPerSequence ==
  \A s \in 1 .. MaxSequence : \A p \in center[s] : s \in Assigned /\ p = log[s]

\* Acknowledge removes exactly the acknowledged prefix of the stream.
QueueIsSuffix == acked < next /\ DOMAIN queue = acked + 1 .. next - 1

\* The counters agree with the events in the bucket and keep to the limits, so
\* a full queue accepts events again once some are acknowledged, and
\* Acknowledge never finds the accounting inconsistent.
Accounting ==
  /\ pendingEvents = Cardinality(DOMAIN queue)
  /\ pendingBytes = offset[next - 1] - offset[acked]
  /\ pendingEvents <= MaxEvents
  /\ pendingBytes <= MaxBytes

\* The acknowledgement that uploadOnce passes on is always one that Acknowledge
\* accepts, although events are enqueued while the request is under way.
AcknowledgeAccepts ==
  up.pc = "await" /\ answer # None /\ InBatch(answer) => ~AcknowledgeFails(answer)

\* The center is never ahead of the batch that uploadOnce would send next: its
\* answer is always acceptable, late and partly stored batches included.
CenterWithinBatch ==
  \A first, last \in 1 .. MaxSequence : Batch(first, last) => Highest(center) <= last

\* Everything that is enqueued reaches the center and leaves the database,
\* provided crashes and failures end.
QueueDrains ==
  \A s \in 1 .. MaxSequence : s \in DOMAIN queue ~> s <= acked /\ center[s] # {}
=============================================================================
