---------------------------- MODULE CommandStore ----------------------------
(***************************************************************************)
(* The durable command store, internal/command/store.go.                   *)
(*                                                                         *)
(* Every command has one JSON file; the Store holds a copy of all of them  *)
(* in memory.  Readers only look at the copy, writers replace the file     *)
(* (temporary file, fsync, rename, fsync of the directory) and then the    *)
(* copy, all under one mutex.  A record is abstracted to what the          *)
(* properties tell apart: its state, the digest of the request, the        *)
(* result, and the two times that order and age it.                        *)
(*                                                                         *)
(* The operators below are the store's operations as actions on disk,      *)
(* synced and mem; the callers (CommandFlow) add the rest of the step.     *)
(***************************************************************************)
EXTENDS Naturals

CONSTANTS
  Commands,       \* command IDs; ordered, because the ID breaks ties
  Digests,        \* request digests
  Retention,      \* how long an acknowledged record is kept (24 h)
  SyncMayFail,    \* may fsync of the directory fail (or the process die in it)?
  None            \* "no record", "no result", "no command"

Outcomes == {"succeeded", "failed", "expired"}

\* agentv1.CommandResult: the request it answers, its status and its time.
Result == [digest : Digests, outcome : Outcomes, completedAt : Nat]

Record == [state : {"pending", "completed", "acknowledged"},
           digest : Digests,
           result : Result \cup {None},
           receivedAt : Nat,
           acknowledgedAt : Nat]

ASSUME CommandStoreAssumption ==
  /\ Commands \subseteq Nat
  /\ Retention \in Nat
  /\ SyncMayFail \in BOOLEAN
  /\ None \notin Record
  /\ None \notin Result
  /\ None \notin Commands
  /\ None \notin Digests

VARIABLES
  disk,     \* what a reader of the directory sees
  synced,   \* what survives a power loss for sure
  mem,      \* Store.records
  now       \* the wall clock

storeVars == <<disk, synced, mem>>

StoreTypeOK ==
  /\ disk \in [Commands -> Record \cup {None}]
  /\ synced \in [Commands -> Record \cup {None}]
  /\ mem \in [Commands -> Record \cup {None}]
  /\ now \in Nat

StoreInit ==
  /\ disk = [c \in Commands |-> None]
  /\ synced = disk
  /\ mem = disk
  /\ now = 0

InState(c, state) == mem[c] # None /\ mem[c].state = state

\* sortedLocked: the first record in a state, by ReceivedAt and then by ID.
Before(c, e) ==
  \/ mem[c].receivedAt < mem[e].receivedAt
  \/ mem[c].receivedAt = mem[e].receivedAt /\ c <= e

Oldest(c, state) ==
  /\ InState(c, state)
  /\ \A e \in Commands : InState(e, state) => Before(c, e)

\* Mutant of Write: the record is only kept in memory.
WriteMemoryOnly(c, record) ==
  mem' = [mem EXCEPT ![c] = record] /\ UNCHANGED <<disk, synced>>

\* writeLocked followed by the assignment to store.records.  The sync of the
\* directory makes every earlier rename in it durable too.
Write(c, record) ==
  /\ disk' = [disk EXCEPT ![c] = record]
  /\ synced' = [disk EXCEPT ![c] = record]
  /\ mem' = [mem EXCEPT ![c] = record]

\* Mutant of WriteFails: the copy in memory is replaced before the file.
WriteFailsInMemory(c, record) ==
  mem' = [mem EXCEPT ![c] = record] /\ UNCHANGED <<disk, synced>>

\* writeLocked returning an error: before the rename nothing has changed; if
\* only the sync of the directory fails the new file is already in place,
\* while the copy in memory keeps the old record.
WriteFails(c, record) ==
  /\ \/ UNCHANGED disk
     \/ SyncMayFail /\ disk' = [disk EXCEPT ![c] = record]
  /\ UNCHANGED <<synced, mem>>

\* The records that Accept, Complete and Acknowledge write.
Accepted(digest) ==
  [state |-> "pending", digest |-> digest, result |-> None,
   receivedAt |-> now, acknowledgedAt |-> 0]

\* Mutant of Completed: the result counts as delivered.
CompletedAsAcknowledged(c, result) ==
  [mem[c] EXCEPT !.state = "acknowledged", !.result = result, !.acknowledgedAt = now]

Completed(c, result) ==
  [mem[c] EXCEPT !.state = "completed", !.result = result]

\* Mutant of Acknowledged: the state does not change.
AcknowledgedTimeOnly(c) == [mem[c] EXCEPT !.acknowledgedAt = now]

Acknowledged(c) ==
  [mem[c] EXCEPT !.state = "acknowledged", !.acknowledgedAt = now]

\* Mutants of Aged: the age of the command counts, not that of the
\* acknowledgement; records that were never acknowledged are removed too.
AgedByReceipt(c) == InState(c, "acknowledged") /\ mem[c].receivedAt + Retention <= now

AgedAnyState(c) == mem[c] # None /\ mem[c].receivedAt + Retention <= now

\* Cleanup: acknowledged records older than the retention.
Aged(c) ==
  InState(c, "acknowledged") /\ mem[c].acknowledgedAt + Retention <= now

Without(store, gone) == [c \in Commands |-> IF c \in gone THEN None ELSE store[c]]

Cleanup ==
  LET gone == {c \in Commands : Aged(c)}
  IN  /\ disk' = Without(disk, gone)
      /\ synced' = Without(disk, gone)
      /\ mem' = Without(mem, gone)

\* Cleanup stopping at a file it cannot remove (the map is iterated in no
\* particular order), or at the sync of the directory after the last one.
CleanupFails ==
  \E gone \in SUBSET {c \in Commands : Aged(c)} :
    /\ gone = {c \in Commands : Aged(c)} => SyncMayFail
    /\ disk' = Without(disk, gone)
    /\ mem' = Without(mem, gone)
    /\ UNCHANGED synced

\* OpenStore: memory is read back from the directory, which is synced only
\* when a stale temporary file had to be removed.
OpenStore ==
  /\ mem' = disk
  /\ synced' \in {synced, disk}
  /\ UNCHANGED disk

\* The machine loses power: each file is in its synced or its latest state.
LosePower ==
  \E kept \in SUBSET Commands :
    /\ disk' = [c \in Commands |-> IF c \in kept THEN disk[c] ELSE synced[c]]
    /\ synced' = disk'
=============================================================================
