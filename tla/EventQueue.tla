----------------------------- MODULE EventQueue -----------------------------
(***************************************************************************)
(* The durable event queue, internal/eventqueue/store.go: a bolt database  *)
(* with one bucket of events keyed by sequence number and one of counters. *)
(* Each operation is one bolt transaction, so it happens whole or not at   *)
(* all, and is durable once it returns.                                    *)
(*                                                                         *)
(* An event is abstracted to its payload, the length of its encoding to    *)
(* Size.  Two histories describe what the queue has been given: log, every *)
(* event by sequence number, and offset, the bytes of the first n of them  *)
(* (event n is offset[n] - offset[n-1] bytes long).                        *)
(***************************************************************************)
EXTENDS Integers, Sequences, FiniteSets

CONSTANTS
  Payloads,      \* the events producers report
  Size,          \* the length of an encoded event
  MaxBytes,      \* Store.maxBytes
  MaxEvents,     \* Store.maxEvents
  BatchBytes,    \* eventUploadBatchBytes
  BatchEvents,   \* agentv1.MaximumEventBatchEvents
  MaxSequence    \* agentv1.MaximumEventSequence

ASSUME EventQueueAssumption ==
  /\ Size \in [Payloads -> Nat \ {0}]
  /\ MaxBytes \in Nat
  /\ MaxEvents \in Nat
  /\ BatchBytes \in Nat
  /\ BatchEvents \in Nat \ {0}
  /\ MaxSequence \in Nat

VARIABLES
  queue,          \* the bucket of events: sequence number -> payload
  next,           \* next_sequence
  acked,          \* acked_sequence
  pendingBytes,   \* pending_bytes
  pendingEvents,  \* pending_events
  log,            \* history: every event that was enqueued
  offset          \* history: the bytes of the first n events

queueVars == <<queue, next, acked, pendingBytes, pendingEvents, log, offset>>

QueueTypeOK ==
  /\ next \in 1 .. MaxSequence + 1
  /\ acked \in 0 .. MaxSequence
  /\ DOMAIN queue \subseteq 1 .. MaxSequence
  /\ \A s \in DOMAIN queue : queue[s] \in Payloads
  /\ pendingBytes \in Nat
  /\ pendingEvents \in Nat
  /\ log \in Seq(Payloads)
  /\ offset \in [0 .. MaxSequence -> Nat]

\* initialize, of a new database.
QueueInit ==
  /\ queue = << >>
  /\ next = 1
  /\ acked = 0
  /\ pendingBytes = 0
  /\ pendingEvents = 0
  /\ log = << >>
  /\ offset = [n \in 0 .. MaxSequence |-> 0]

\* Mutant of EnqueueFits: one event too many.
EnqueueFitsOneMore(p) ==
  next <= MaxSequence /\ pendingBytes <= MaxBytes - Size[p] /\ pendingEvents <= MaxEvents

\* A transaction that fails, an event that does not fit (ErrFull) and an
\* exhausted sequence leave the database as it is: UNCHANGED queueVars.
EnqueueFits(p) ==
  /\ next <= MaxSequence
  /\ Size[p] <= MaxBytes
  /\ pendingBytes <= MaxBytes - Size[p]
  /\ pendingEvents < MaxEvents

Enqueue(p) ==
  /\ EnqueueFits(p)
  /\ queue' = [s \in DOMAIN queue \cup {next} |-> IF s = next THEN p ELSE queue[s]]
  /\ next' = next + 1
  /\ pendingBytes' = pendingBytes + Size[p]
  /\ pendingEvents' = pendingEvents + 1
  /\ log' = Append(log, p)
  /\ offset' = [offset EXCEPT ![next] = offset[next - 1] + Size[p]]
  /\ UNCHANGED acked

\* Batch: the events from the first key on, up to the limits; a first event
\* that is too long for a batch makes one of its own.
FirstKey(first) == first \in DOMAIN queue /\ \A s \in DOMAIN queue : first <= s

BatchFits(first, last) ==
  /\ last \in DOMAIN queue
  /\ first <= last
  /\ last < first + BatchEvents
  /\ last = first \/ offset[last] - offset[first - 1] <= BatchBytes

Batch(first, last) ==
  /\ FirstKey(first)
  /\ BatchFits(first, last)
  /\ \A s \in DOMAIN queue : BatchFits(first, s) => s <= last

\* Acknowledge, of this stream: an unassigned sequence number is an error, an
\* acknowledged one changes nothing, and accounting that would go negative
\* rolls the transaction back.
AckValid(sequence) ==
  /\ sequence # 0
  /\ sequence < next

\* Mutant of AckedKeys: one event too many.
AckedKeysAndNext(sequence) == {s \in DOMAIN queue : s <= sequence + 1}

AckedKeys(sequence) == {s \in DOMAIN queue : s <= sequence}

AckedEvents(sequence) == Cardinality(AckedKeys(sequence))

\* Mutant of AckedBytes: what was subtracted before is subtracted again.
AckedBytesFromStart(sequence) == offset[sequence]

\* The keys start after acked (QueueIsSuffix).
AckedBytes(sequence) == offset[sequence] - offset[acked]

Accounted(sequence) ==
  /\ AckedBytes(sequence) <= pendingBytes
  /\ AckedEvents(sequence) <= pendingEvents

Acknowledge(sequence) ==
  /\ AckValid(sequence)
  /\ IF sequence <= acked
     THEN UNCHANGED queueVars
     ELSE /\ Accounted(sequence)
          /\ queue' = [s \in DOMAIN queue \ AckedKeys(sequence) |-> queue[s]]
          /\ acked' = sequence
          /\ pendingBytes' = pendingBytes - AckedBytes(sequence)
          /\ pendingEvents' = pendingEvents - AckedEvents(sequence)
          /\ UNCHANGED <<next, log, offset>>

AcknowledgeFails(sequence) ==
  ~AckValid(sequence) \/ (acked < sequence /\ ~Accounted(sequence))
=============================================================================
