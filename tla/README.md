# A TLA+ model of the Relayward Agent

TLA+ modules that model the Agent's core, TLC runs that check them on small
instances, and TLAPS proofs of the main safety properties for every instance.
`src/` below is the repository root.

## The system

The Agent is one Go process per node. A shell launcher starts it, a service
manager starts the launcher. Inside the process, goroutines ("workers") share
durable stores; the first worker that returns an error stops all others.

| Component | State | Operations | Talks to |
|---|---|---|---|
| Command store `internal/command/store.go` | one JSON file per command, a copy of all in memory | Accept, NextPending, Complete, NextResult, Acknowledge, Cleanup, OpenStore | called by processor and session |
| Processor `internal/command/processor.go` | the command in hand, `wake`, `resultReady` | Run, execute, Accept | executors (Router), store |
| Control session `internal/agent/client.go` | the connection, the unanswered message | runSession, sendCommandResult, the workers and the reconnect loop of Run | center (WebSocket), processor, update manager |
| Event queue `internal/eventqueue/store.go` | bolt database: events by sequence, four counters | Enqueue, Batch, Acknowledge, Info | producers, uploader |
| Event uploader `internal/agent/events.go` | the batch under way, backoff | Run, uploadOnce, wait | center (HTTP), event queue |
| Self-update `internal/update` | links `current`, `previous`; pending, confirmed, failed state files; installed versions | Prepare, Observe, Confirm, AwaitActivation, pruneVersions | processor (executor), session (Confirm), launcher |
| Launcher `deploy/relayward-agent-launcher` | the child and its exit status | run, roll back, mark failed, terminate | service manager, state files |
| Plugin supervisor `internal/plugin` | desired, active, previous, pending revision per plugin; the process | reconcile, watch, recover, roll back, diagnose | processor (executor), policy engine, event queue |
| Policy engine and store `internal/policy` | policies, ledgers, cursors, pending traffic and statuses | Reconcile, collect, apply, publish | processor (executor), plugins, event queue |
| Resumable download `internal/download` | partial file | Fetch | GitHub |
| Observer, identity, config, release tool, installer | a file or nothing | sequential | – |

Hard behaviours: files and memory that disagree after a failed write; crashes
and power losses between two file operations; results and batches that are
repeated, late or acknowledged twice; one-slot channels that can lose a wake-up;
a watchdog's timeout racing a confirmation; a rollback done by a second process
from nothing but files. `PROJECT.json` lists each under "hazards", at its line.

What makes the parts correct:

- **Commands**: no request has two results, and each gets one; what the center has
  had stays in the store for the retention, so that no crash, resend or cleanup makes
  a repeated command a new one. (A command that a crash interrupts is executed again:
  executors have to be idempotent.)
- **Events**: each one reaches the center, under one number, in order; the
  queue's counters never drift from its contents.
- **Updates**: a binary that has not proven itself is always rolled back; one
  that has is not; the node ends up with a healthy binary and every update
  command with a result.
- **Plugins**: at most one process of a plugin runs, none outlives the Agent; a
  failed transition restores the last revision, whose release is never pruned;
  what the Agent offers is the committed revision and the one reported last, and what
  should run does so again, unless a stop failed.
- **Policy**: every byte is counted once and reported in the order of its
  revisions, no access event is skipped, what is marked as applied was applied to
  the process that runs, and in the end the plugins do what the policies ask for.
- **Downloads**: what is returned is the artifact; what was downloaded survives a power
  loss, whatever earlier attempts left behind; no partial file, whatever its content,
  is in the way of a later attempt.

## Modules

| Module | Models |
|---|---|
| `CommandStore` | the store's operations as actions on `disk` (what the directory shows), `synced` (what survives a power loss), `mem` (Store.records) |
| `CommandFlow` | `CommandStore` with the processor, the session, an external center, crash, stop, restart and power loss |
| `CommandContract` | the promise: a request's result is decided once, then delivered |
| `CommandRefinement` | the mapping: decided = in the file, known = received by the center |
| `CommandFlowProofs` | inductive invariant, theorems and refinement of `CommandFlow` |
| `EventQueue` | the transactions of the queue, with two histories (`log`, `offset`) |
| `EventDelivery` | `EventQueue` with producers, the uploader, and a center that stores prefixes of batches |
| `EventChannel`, `EventRefinement` | the promise: accepted events are delivered in order without a gap; the mapping |
| `EventDeliveryProofs` | inductive invariant, theorems and refinement of `EventDelivery` |
| `AgentUpdate` | update manager, executor, watchdog, `Confirm`, launcher, service manager |
| `AgentUpdateProofs` | inductive invariant and theorems of `AgentUpdate` |
| `PluginState` | a plugin's file, its copy in memory, the releases on disk; prepare, commit and prune as operators on them |
| `PluginSupervisor` | the actor of one plugin: start, reconcile, rollback, watch, recovery, close, and the plugin's processes |
| `PluginContract`, `PluginRefinement` | the promise: a plugin moves to newer revisions only, and offers no other; the mapping |
| `PluginSupervisorProofs` | inductive invariant, theorems and refinement of `PluginSupervisor` |
| `PolicyStore` | the policy database and its transactions, as operators from database to database |
| `PolicyEngine` | `PolicyStore` with the engine's command and cycle, the plugins it reads and steers, and the event queue it reports to |
| `PolicyEngineProofs` | lemmas: what each transaction returns, keeps and changes; the inductive invariant of `PolicyEngine`, types and what is applied |
| `PolicyTrafficProofs` | lemmas: the transaction of each step, sums over finite sets; the order of the reports, and that every byte is counted once |
| `PolicyOutcomeProofs` | slots, statuses and events, each with its own invariant on top |
| `ResumableDownload` | `installer.fetch` and `download.Fetch`, files with what of them is synced, a server |
| `ResumableDownloadProofs` | inductive invariant and theorems of `ResumableDownload` |
| `MC*` | values of constants for TLC |

Correspondence. A program counter in a record (`proc.pc`, `sess.pc`, `up.pc`,
`exec.pc`, `watch.pc`, `launcher.pc`) marks where a goroutine or the launcher
may be interrupted: before and after each wait, lock and file operation. What
the code does under one mutex or in one bolt transaction is one action, unless
it changes several files: `Prepare` has an action per file operation, so that
the process can die between any two. Each write has an error branch, with two
outcomes where the rename is done before the failing sync (`SyncMayFail`).
In `PluginSupervisor` the holder of the actor's mutex is the variable `op`: the
mutex is kept over downloads, RPCs and stops, so `op.pc` marks the points inside a
critical section at which processes exit, watches notice it, and the Agent is
cancelled or dies. `watch` and `retries` are the goroutines that wait for the
mutex.
In `PolicyEngine` the mutex is `cycle` and its holder again the variable `op`, with
what it has read: the runtimes it saw, the page of events, the list it works
through. `procs` is each plugin's process with its counters, events, service states
and blocks; `sink` is what the event queue was given.
In `ResumableDownload` a file is the sequence of its blocks and the part of it that
is on disk for certain; every read, write, sync and rename is a step.
Definitions marked "Mutant of" are deliberate errors: each is put in the place
of the definition it follows to see that a property notices it, and no
specification uses them.

Abstractions. A payload is a model value and an event's encoding a length; a
record keeps state, digest, result and the times that order and age it; a binary
is a model value with a version, and of the installed ones (`installed`) the order in
which they came is kept, because pruning goes by age. Validation, encoding, TLS, logging and the
lengths of backoffs are left out. A plugin's revision keeps generation, state and
release, where the release stands for version, artifact and configuration; the
restart count, the crash streak (which only sets the length of the backoff), the
capabilities and the URL are left out. One plugin is modelled: actors share
nothing. A dying Agent takes the plugins' processes with it (`Pdeathsig`). Damage
to an installed artifact and loss of power are not modelled in `PluginSupervisor`, and a
process that a failed start leaves behind is not tracked, because the code does not
know of it either. `fetch` removes a release that it cannot verify, which a failing read
of a good one is enough for (installer.go:66-75): left out as well, and
`ReleasesRetained` would not survive it, since the new download may fail. Loss of power
is not modelled in `AgentUpdate` either: the launcher's `ln` and `mv` are never synced
(relayward-agent-launcher:26-32, 70), and `MachineCrash` keeps what they have done. An
execution that lasts too long (processor.go:126) counts as a fault there, and so does
a failing worker. Time is a counter (`CommandFlow`) or a
nondeterministic deadline (`AgentUpdate`). The clock does not step back. In the policy
modules upload and download are one number, a plugin serves an authorization with
one service, periods have a fixed length, and digests are the values themselves; a
call of a plugin and the transaction that records it are one step, because what may
come between them commutes with the transaction. The event queue is what it
promises in `EventDelivery`: it takes an event or refuses it. The
center is external: it repeats a command until it has a result and for
`RedeliveryWindow` after that, acknowledges every result, and answers a batch
with the highest sequence up to which it has everything.

## Runs

Run with `tlc -config <run>.cfg <module>`; the longest takes
about two and a half minutes. Bounds: `MaxTime`, `MaxSequence`, `MaxBytes` and
`MaxEvents` (of `PolicyEngine`: bytes and events a plugin produces), `MaxFaults`
(everything that goes wrong, together), `MaxProcesses` (processes whose watch has not
ended) and `MaxRetries` (goroutines in `retryRecovery` at which a further command has
to wait; `Room` holds both).

| Run | Instance | Shows |
|---|---|---|
| `CommandFlow_safe` | 1 command ID for 2 requests, 3 ticks, retention 2, redelivery 1, 2 faults, failing syncs | the safety properties through every pair of faults, expiry, the end of the retention, and a conflict |
| `CommandFlow_live` | 1 command, 2 faults with power loss, syncs work, fairness | every command answered, every result acknowledged, `CommandContract` implemented |
| `EventDelivery` | 2 sizes, 4 events, at most 6 bytes and 3 events pending, batches of 2 events or 3 bytes, 2 faults, fairness | nothing lost, no number reused, accounting exact, acknowledgements accepted; the queue drains; `EventChannel` implemented |
| `AgentUpdate` | a good update, back to the first binary, a bad update, no spare versions, 1 fault, fairness | unproven binaries can be rolled back, state files tell the truth, nothing needed is pruned; updates resolve, commands are answered |
| `AgentUpdate_sameversion` | a candidate with the running version | *violation*, see findings |
| `PluginSupervisor` | an installation, then an upgrade, a stop or a removal, then a third release; 3 processes, 3 faults, failing stops, fairness | one process, none after `Close`, releases kept, only the committed revision is served and it is what is reported, supervision is not lost, plugins recover; `PluginContract` implemented |
| `PluginSupervisor_unconfigured` | working stops, 2 faults | *violation*, see findings |
| `Policy_traffic` | 1 plugin, a quota of 1 of 2 bytes, 2 periods, the removal of the authorization, 2 faults, failing transactions | every byte counted once, revisions in order, what is marked as applied is true |
| `Policy_plugins` | an authorization on 2 plugins that expires, then on 1 without end, 1 fault, fairness | a status names a generation only once all plugins have it; everything settles |
| `Policy_activity` | 2 addresses (symmetric) for 1 slot, 2 events in pages of 1, plugins with and without the capabilities, 1 fault | no event skipped, the soft limit kept, blocks marked as applied are true |
| `Policy_status` | an authorization that expires, no faults | *violation*, see findings |
| `ResumableDownload` | 4 blocks, 4 faults, fairness | the artifact or an error, durable if downloaded, and in the end the artifact |

Why the bounds suffice: the interesting cases are a fault inside the recovery
from another (2 faults), a record older than the retention with the redelivery
still inside it (3 ticks), a batch cut by each of its limits and an event longer than
a batch (sizes 1 and 4), the queue at both limits and at its last number, an update
after a rolled back one and after a confirmed one, and to the binary that runs already
(3 commands), and a plugin whose transition
fails, whose rollback fails, and whose Agent is then cancelled or dies (3 faults),
while the watch of the process before is still to come (3 processes). For the policy
modules: traffic before and after the quota and the end of a period, in one or two
epochs of the plugin, with one failure of the reporting and one of the process (2
bytes, 2 periods, 2 faults); a binding that ends while its plugin is down (2 plugins,
1 fault); a page that is not the last one, and an address that finds the slot taken
(2 events, 2 addresses). For a download: content that is wrong at the start, the end
and after the end, a continued file that is cut or garbled again (4 blocks, 4 faults).
Unbounded time, numbers and faults, and several commands at once, are the proofs'
part. Two larger instances were checked once and are not repeated: `AgentUpdate` with
two faults and two commands (`Target <- Forward`), and `Settles`
for the instance of `Policy_activity`.

Fairness. Goroutines are scheduled (weak fairness of each step) and timers fire. A
launcher that exits with an error is restarted (`Restart=on-failure` of
relayward-agent.service, `respawn_max=0` of OpenRC). After a SIGTERM it exits with 0, and
that it is started again then is an assumption on the operator, the next boot or OpenRC
(`ServiceStart`; `Boot` in `CommandFlow` and `EventDelivery`). Strong fairness is assumed
only where Go's `select` chooses among ready cases (`ProcWake`, `ProcCancelled`), where a
deadline must pass although the loop is re-entered (`WatchWaits`), where a goroutine waits
for a mutex that others keep taking (`RetryStarts`, `WatchRestarts`, `RunCycle`: a Go mutex
hands over to a waiter after a millisecond), and of the center: it goes on offering a
command it has no result for, and now and then stores at least the first event of a batch.
In `PolicyEngine` a plugin that is not running is started again (`Recovers` of
`PluginSupervisor`). A download that failed is reported as retryable (supervisor.go:225),
and the center sends another command (`Begin` in `ResumableDownload`): `startRevision` and
`retryRecovery` only verify the release (supervisor.go:364-368) and download nothing.
Nothing is assumed of faults except that there are finitely many, and nothing of the clock,
of producers, of late messages, or of plugin processes.

### Findings

- `AgentUpdate_sameversion`: `Confirm` compares versions, so the old process can
  confirm a candidate that reports the same version and never ran.
- `PluginSupervisor_unconfigured`: `startRevision` assigns the error of `validate`
  and `apply` to a variable of the inner scope and returns the outer one, which is
  nil. After a start, a rollback or a recovery a plugin that refused its
  configuration is offered to the Agent and reported running until three health
  checks have found it out.
- `Policy_status`: `applyAndPublish` reads the clock once for `Desired` and again for
  `RefreshStatuses`. What expires in between is reported as expired while the plugin
  still has it as active; the next cycle switches it off.

### Remarks

Where a property above is restricted, this is why. Each can be seen with the
constants or the property named.

- *Unsynced results* (`CommandFlow_safe` with `PowerMayFail = TRUE`, `ResultStaysOnDisk`):
  `OpenStore` does not sync the directory (store.go:90), so a result whose directory sync
  failed, or was cut off by the end of the process, is sent after the restart and can
  still be lost in a power failure, against README.md:47. With either of the two faults
  alone the results are durable (proved: assumption `PowerSafe`).
- *Unsynced switch* (`AgentUpdate` with `SyncMayFail = TRUE`, `UnprovenIsPending`): a sync
  failing after `current` was switched makes `Prepare` remove the pending state
  (manager.go:348) of a candidate that stays selected, so nothing rolls it back
  (README.md:22).
- *Unsynced download* (`ResumableDownload`, `ReturnedIsDurable` without `~unsynced`):
  `openPartial` takes a complete partial file (resumable.go:172), and `fetch` a release
  (installer.go:66), that an attempt left behind before its sync, and does not sync it. A
  power loss may damage it afterwards; for a plugin the next `fetch` repairs it, whereas
  `downloadAndInstall` refuses an existing version directory with a wrong checksum for
  good (manager.go:386). `ReturnedIsDurable` shows that this is the only way: whatever
  else an attempt left unsynced is synced before it is returned.
- *Pending state left behind* (`AgentUpdate`, `PendingLeft`): when the switch of `current`
  fails, `Prepare` ignores an error of the removal of the pending state (manager.go:348).
  The old binary goes on and the command has failed, but the state stays until the
  process ends: `Confirm` ends each session with an error, and other updates find a
  conflict. The launcher then marks it as failed. `PendingResolves` excludes this.
- *Failed stop* (`PluginSupervisor`, invariant `Supervised`): when stopping a plugin
  fails at its socket and the process is gone, `detachAndStop` clears the actor's
  process and reconcile returns without a rollback: the current revision has no
  process, and nobody starts one before the next command (README.md:72).
  `SupervisedUnlessStopFailed` shows that this is the only way.
- *Failed commit*: a transition whose save fails after the rename is reported as failed
  and rolled back, and takes effect with the next restart. `PluginContract` has an action
  for it (`AdvanceOnDisk`).
- *Failed transaction* (`Policy_plugins` with `StoreMayFail = TRUE`,
  `GenerationApplied`): when `Desired` fails, `RefreshStatuses` compares with the
  states of the generation before and reports the new one.
- *Returning authorization* (`Policy_traffic` with `Snapshots <- Returning`,
  `CountedOnce`, `RevisionsGrow`): what `deleteRemovedAuthorizationState` deletes
  begins again, the ledger at revision 1 in a period that was reported already, the
  counters at their full value. A clock that is set back over the end of a period has
  the same effect on the revisions.
- *Another stream* (`Policy_activity`, `OwnStream`): events are reported under the
  stream that the cycle saw at its start; those of a plugin that was replaced
  meanwhile, with a new stream, go under the old one. They are read again, under
  their own, in the next cycle, so none is lost.
- *Removed plugin*: an orphan whose plugin never comes back, or lacks the
  capabilities, stays, and with it the statuses of its authorization are held back;
  `Settled` speaks of authorizations whose plugins can be steered.

## Proofs

Checked with `tlapm`; no bound on commands, events, bytes, processes, faults or time.
Every theorem has the assumptions that its module declares on the constants, and those
named below: each excludes something the property does not survive, as said there or in the
findings and remarks above, and the instances of the passing runs satisfy it.

**Commands** (`CommandFlowProofs`), for every instance with `PowerSafe`: syncs
never fail or power never does. `OneResult` is not inductive: two results are
equal because both equal the one in the command's file, and that is there because
nothing but cleanup removes an answered record, and cleanup is late enough. `IInv`
therefore adds to the types what is known of each copy of a result: in flight or
late results are in the file (or forgotten), memory is at most one step behind
the file, an acknowledged record's result is at the center since before its
acknowledgement, and a delivery in flight was sent when the center still wanted
the command, which together with
`RedeliveryWindow + ReadDeadline < Retention` keeps a repeated command from being
taken for a new one. One lemma per action; `Inductive` combines them, the other
theorems follow from `IInv`. The listed theorems are `TypeCorrect`,
`SingleResult`, `ExecutedBeforeAnswered`, `AcknowledgedWereReceived`,
`ResultsAreDurable`, `CopyFollowsFiles`, `LookupsSucceed` and `RefinesContract`, the
safety part of the refinement of `CommandContract`. For the latter, a file that
vanishes or changes is `Steady`: it shows the same verdict as before, or the center
has the result already, so that the mapping does not look at the file. Only
`Complete` makes a step of the contract there (`CompleteDecides`), and only the first
arrival of a result does at the center (`ReceiveDelivers`). Types and
`QueueIsSuffix` below are proved and no longer part of a run.

**Events** (`EventDeliveryProofs`), without further assumptions: `IInv` says that
the bucket is exactly `acked+1 .. next-1` of the log, the counters are differences
of `offset`, the center holds only log events under their own numbers, everything
up to `acked` is there, and every batch in flight or late is a segment of the log
that ends no later than the batch the queue would form now. From this follow
`NothingLost`, `SequencesAreUnique`, `CountersAgree`, `AcknowledgementsAccepted`,
`AnswersFitTheBatch`, and, step by step, the refinement `RefinesChannel`.

**Downloads** (`ResumableDownloadProofs`), without further assumptions: that fetch
returns the artifact is decided steps earlier, when a file is checked, so `AttemptInv`
says for each point of an attempt what its file is known to hold, and `SyncInv` that a
file is synced from its check on, unless it was found complete (`unsynced`, see the
findings); nothing has to be known of what failed attempts left. They give `FetchReturnsArtifact` and
`FetchReturnsDurable`.

**Self-update** (`AgentUpdateProofs`). A pending update is safe because of the order in
which `Prepare` writes: `ExecInv` relates every point of it to links and state files (a
target is installed before it is selected, `previous` is `current` before the pending
state appears, the outcome of the last update is gone before), `PendingInv` says what a
pending state implies for the links, at whatever point the process died, `MarkInv` the
same for the two steps of the launcher's rollback, and `ProvenInv` which of the two
binaries has reached the center. `StartableIsInstalled`, `FilesTellTheTruth` and
`ConfirmedStays` hold without assumptions; `UnprovenCanBeRolledBack` and
`ConfirmedHasReachedCenter` need `Reliable`: no sync fails after its rename, and
different binaries have different versions.

**Plugins** (`PluginSupervisorProofs`), without further assumptions, failing stops and
failing saves included. The properties speak of processes and of the current revision,
and both change at the end of a critical section that began many steps earlier with
something it had read. `IInv` therefore says what the holder of the mutex works on: the
pending revision with its release fetched, or the current one (`OpInv`, `RevisionInv`);
that a process it has started is its own, of that revision and not yet offered
(`CandidateInv`); that nobody else is alive while it starts one (`AliveInv`, from which
`OneProcessAlive` and, with `DownInv`, `CloseStopsAll`); how the file may differ from
the copy in memory after a failed save (`StoreInv`, for `RetainedForRollback`); and that
offering, reporting and watching are never left behind by a change of the current
revision (`ServeInv`, `ReportInv`, `WatchInv`, `SuperviseInv`, for `OnlyCommittedServed`,
`ServedReported` and `AlwaysSupervised`). `RefinesPluginContract`
(`ImplementsPluginContract`, which has no fairness part) follows from it: what is
offered is always the current revision (`ServeInv`, in the middle of a transition too), so
that only the steps that write the file have to be looked at: prepare, commit, the count
of a restart, and the end and start of the Agent. `PluginContract` shows the file apart from
the copy in memory, because a failed commit may leave them different; that the file is
never behind is a fact about the contract alone, and gives `GenerationsNeverGoBack`.
`OnlyCommittedServed` (`ServedIsCommitted`) is no longer part of a run: the contract says it.

**Policies.** `PolicyEngineProofs` states for each transaction, for every database of
the type, what it returns; the other two modules cite only that. The lemma `Transaction`
of `PolicyTrafficProofs` reduces a step of the engine to the transaction it makes. On
that rest
- `TypeCorrect` and `AppliedByProcess` (`PolicyEngineProofs`), without further
  assumptions: what is marked as applied carries a revision and an instance. `IInv`
  bounds the revisions by the counters and the instances by the process's, so that an
  equal pair can only mean the same state in the same process.
- `SlotsWithinLimit`, if the center never lowers a limit (`LimitsKept`): slots given
  before that stay until they expire.
- `GenerationReported`, if transactions do not fail (`~StoreMayFail`): `GenInv` follows a
  generation from `Desired` over what the plugins took and what is marked to the status
  and the queue.
- `TrafficInOrder`, an action property, if an authorization that was taken away does not
  come back (`AuthorizationsDoNotReturn`): `AccountInv` orders the ledger, the pending
  snapshots, the one in the operation's hand and the queued one by revision and bytes.
- `CountedOnce`, under the same assumption: what the Agent accounts for in all periods of
  an authorization (in its ledger, waiting, or reported last) and what the plugins hold
  unread are together what was carried. `BytesInv` says on top of
  `AccountInv` that the mark the store keeps of a counter is what the engine has read of
  it, whichever plugins come and go (`CountersRead`), that the last report of a ledger
  is its bytes when nothing of it is unreported (`LedgersReported`, `MarkReported`), and that
  the sums agree (`Balanced`). A step changes one summand or moves one to another
  ledger. What that does to a sum over a finite set is proved without an induction over
  operators: the recursion of the sum is unfolded at one set (`Sums`), and the least
  counterexample in the order of strict subsets is refuted. That is why the plugins have
  to be finitely many (`PluginsAssumption`).
- `EventsDelivered`, if a binding that was taken away does not come back
  (`BindingsDoNotReturn`; an event that is passed over while its binding is gone is not
  delivered when it returns): `EventInv` says that the sequence of an event is its place
  in the stream, that the cursor is past delivered events only, and that the page in hand
  is what follows the cursor, unless the plugin has begun another stream.

**Only model-checked**: all liveness properties and the fairness parts of the
refinements, which are outside what TLAPS 1.4.5 proves.

## Not modelled

Of the plugin package, `executeDiagnose` and `ListenerStatuses` are left out: they ask
the process in charge and keep no state that a transition reads. Of the policy
package, the collection events (they report a failed collection and are not read
again) and the calendar of the reset periods. The rest (`PROJECT.json`, "components")
is left out because it is sequential and keeps no state that another step could find
half done.

## Plan

1. Done: commands, events, self-update, plugins, policy, downloads, with proofs of all
   their safety properties.
2. Done: abstract specifications of commands, events and plugins, with their refinements.
3. A clock that steps back, in `CommandFlow` and `PolicyEngine`.
