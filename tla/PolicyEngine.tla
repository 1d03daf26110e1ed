---------------------------- MODULE PolicyEngine ----------------------------
(***************************************************************************)
(* The policy engine of internal/policy/engine.go with its store, the      *)
(* plugin processes it reads and steers, and the event queue it reports    *)
(* to.                                                                     *)
(*                                                                         *)
(* Execute, for a policy.reconcile command, and runCycle, every ten        *)
(* seconds, exclude each other by the mutex cycle; op is the one that has  *)
(* it.  Both look once at the running plugins and then call them by their  *)
(* plugin ID, so the process that answers may be another than the one that *)
(* was seen.  Every store transaction, every call of a plugin and every    *)
(* event is a step of its own, between which the clock advances, plugins   *)
(* exit and start, and the Agent may crash, which takes the plugins with   *)
(* it.  A call of a plugin and the transaction that records its result are *)
(* one step: what comes between them commutes with the transaction, and a  *)
(* crash between them leaves nothing of the call.                          *)
(***************************************************************************)
EXTENDS PolicyStore, Sequences, Functions

CONSTANTS
  CapabilitySets,   \* what a plugin may announce at its start
  PageSize,         \* events in a telemetry page
  MaxPages,         \* maximumTelemetryPages
  StoreMayFail,     \* whether a transaction may fail, the disk being full say
  MaxTime, MaxBytes, MaxEvents, MaxFaults     \* bounds of the model

Capabilities == {"traffic", "control", "activity", "blocking"}

ASSUME PluginsAssumption == IsFiniteSet(Plugins)

\* What RunningPlugins tells of a plugin.
Runtime == [instance : Nat, capabilities : SUBSET Capabilities, stream : Nat]

ASSUME PolicyEngineAssumption ==
  /\ CapabilitySets \subseteq SUBSET Capabilities
  /\ None \notin Runtime
  /\ PageSize \in Nat \ {0}
  /\ MaxPages \in Nat \ {0}
  /\ StoreMayFail \in BOOLEAN
  /\ {MaxTime, MaxBytes, MaxEvents, MaxFaults} \subseteq Nat

VARIABLES
  db,        \* the policy database
  now,       \* the wall clock
  procs,     \* the process of each plugin, with what it keeps on disk
  op,        \* what holds the mutex cycle
  sink,      \* what the event queue was given
  carried,   \* bytes carried per authorization, less what was lost unread
  accepted,  \* the service states each plugin has ever acknowledged
  faults     \* faults so far

vars == <<db, now, procs, op, sink, carried, accepted, faults>>

Periods == 0 .. PeriodOf(MaxTime)

\* Where Execute or runCycle is: pc is "idle", "collect", "event", "observe",
\* "advance", "traffic", "enqueue", "mark", "desired", "apply", "refresh",
\* "publish" or "settle".  runtimes is what RunningPlugins returned, left is
\* what is left of the list that is worked on, item the value that is being
\* published, blocks the plugins whose blocks come after the services.
Idle == [pc |-> "idle", runtimes |-> Nothing(Plugins), left |-> {}, blocks |-> {},
         plugin |-> None, cursor |-> 0, page |-> 0, events |-> <<>>, more |-> FALSE,
         item |-> None]

NoProcess == [up |-> FALSE, instance |-> 0, capabilities |-> {}, stream |-> 0,
              counters |-> [a \in Authorizations |-> 0], events |-> <<>>,
              read |-> [a \in Authorizations |-> 0],   \* for the properties
              services |-> Nothing(Authorizations), blocks |-> {}]

Init ==
  /\ db = EmptyDatabase
  /\ now = 0
  /\ procs = [p \in Plugins |-> NoProcess]
  /\ op = Idle
  /\ sink = [traffic |-> Nothing(Authorizations \X Periods),
             status  |-> Nothing(Authorizations), access |-> {}]
  /\ carried = [a \in Authorizations |-> 0]
  /\ accepted = [k \in Keys |-> {}]
  /\ faults = 0

Fault == faults < MaxFaults /\ faults' = faults + 1

-----------------------------------------------------------------------------
(* The plugins.                                                            *)

\* What p has carried for a and the engine has not read.
Unread(p, a) == procs[p].counters[a] - procs[p].read[a]

\* A plugin starts.  It has no service states and no blocks; its counters and
\* events go on, or start anew, in a new epoch and a new stream.
Start(p) ==
  /\ ~procs[p].up
  /\ \E capabilities \in CapabilitySets, anew \in BOOLEAN :
       LET instance == procs[p].instance + 1
           fresh == [NoProcess EXCEPT !.up = TRUE, !.instance = instance,
                                      !.capabilities = capabilities, !.stream = instance]
       IN  /\ instance = 1 => anew
           /\ procs' = [procs EXCEPT ![p] =
                IF anew THEN fresh
                ELSE [procs[p] EXCEPT !.up = TRUE, !.instance = instance,
                        !.capabilities = capabilities,
                        !.services = fresh.services, !.blocks = {}]]
           /\ carried' = IF anew THEN [a \in Authorizations |-> carried[a] - Unread(p, a)]
                                 ELSE carried
  /\ UNCHANGED <<db, now, op, sink, accepted, faults>>

Exit(p) ==
  /\ procs[p].up
  /\ Fault
  /\ procs' = [procs EXCEPT ![p].up = FALSE]
  /\ UNCHANGED <<db, now, op, sink, carried, accepted>>

\* A service is on until the plugin is told otherwise.
On(p, a) == procs[p].up /\ (procs[p].services[a] # None => procs[p].services[a].reason = "active")

Carry(p, a) ==
  /\ On(p, a)
  /\ carried[a] < MaxBytes
  /\ procs' = [procs EXCEPT ![p].counters[a] = @ + 1]
  /\ carried' = [carried EXCEPT ![a] = @ + 1]
  /\ UNCHANGED <<db, now, op, sink, accepted, faults>>

\* A client uses a service; one whose address is blocked is turned away.
Access(p, a, source) ==
  LET sequence == Len(procs[p].events) + 1
      blocked == \E b \in procs[p].blocks :
                   b.authorization = a /\ b.source = source /\ b.expires > now
      event == [sequence |-> sequence, authorization |-> a, source |-> source, observed |-> now,
                accepted |-> ~blocked, stream |-> procs[p].stream,
                \* for the properties: was the binding known?
                known |-> <<a, p>> \in Bindings(db.snapshot)]
  IN  /\ On(p, a)
      /\ sequence <= MaxEvents
      /\ procs' = [procs EXCEPT ![p].events = Append(@, event)]
      /\ UNCHANGED <<db, now, op, sink, carried, accepted, faults>>

Tick ==
  /\ now < MaxTime
  /\ now' = now + 1
  /\ UNCHANGED <<db, procs, op, sink, carried, accepted, faults>>

\* The Agent dies and starts again.  Its plugins die with it.
Crash ==
  /\ Fault
  /\ op' = Idle
  /\ procs' = [p \in Plugins |-> [procs[p] EXCEPT !.up = FALSE]]
  /\ UNCHANGED <<db, now, sink, carried, accepted>>

-----------------------------------------------------------------------------
(* The start of Execute and of runCycle.                                   *)

\* runtimeMap of RunningPlugins.
RuntimeMap == [p \in Plugins |->
  IF procs[p].up THEN [instance |-> procs[p].instance, capabilities |-> procs[p].capabilities,
                       stream |-> procs[p].stream]
                 ELSE None]

\* runtimeInstances.
RuntimeInstances(runtimes) ==
  [p \in Plugins |-> IF runtimes[p] = None THEN None ELSE runtimes[p].instance]

Supports(capabilities, limited) ==
  /\ {"traffic", "control"} \subseteq capabilities
  /\ limited => {"activity", "blocking"} \subseteq capabilities

Missing(snapshot, runtimes) == \E k \in Bindings(snapshot) : runtimes[k[2]] = None

\* validateCapabilities has no error.  A plugin that is not there is not asked.
Validated(snapshot, runtimes) ==
  \A k \in Bindings(snapshot) :
    runtimes[k[2]] # None =>
      Supports(runtimes[k[2]].capabilities, snapshot.policies[k[1]].soft # None)

\* Execute up to applyAndPublish.  An older snapshot is refused, as is another
\* of the same generation; the same one again is applied again.
Execute(snapshot) ==
  /\ op.pc = "idle"
  /\ Validated(snapshot, RuntimeMap)
  /\ \/ /\ snapshot.generation > db.snapshot.generation
        /\ db' = Reconciled(db, snapshot)
     \/ /\ snapshot = db.snapshot
        /\ db' = db
  /\ op' = IF Missing(snapshot, RuntimeMap) THEN Idle
           ELSE [Idle EXCEPT !.pc = "traffic", !.runtimes = RuntimeMap]
  /\ UNCHANGED <<now, procs, sink, carried, accepted, faults>>

\* runCycle up to its first plugin.
RunCycle ==
  LET telemetry == {p \in Plugins : /\ procs[p].up
                                    /\ procs[p].capabilities \cap {"traffic", "activity"} # {}}
  IN  /\ op.pc = "idle"
      /\ op' = [Idle EXCEPT !.pc = IF telemetry = {} THEN "traffic" ELSE "collect",
                            !.runtimes = RuntimeMap, !.left = telemetry]
      /\ UNCHANGED <<db, now, procs, sink, carried, accepted, faults>>

-----------------------------------------------------------------------------
(* collectRuntime.  An error ends the collection of this plugin; that it   *)
(* is also reported, as a collection event, is left out.                   *)

\* On with the plugins left, in the order of a Go map.
CollectDone(left) ==
  [op EXCEPT !.pc = IF left = {} THEN "traffic" ELSE "collect", !.left = left,
             !.plugin = None, !.cursor = 0, !.page = 0, !.events = <<>>, !.more = FALSE]

Collecting(p) ==
  /\ op.pc = "collect"
  /\ op.plugin = p \/ (op.plugin = None /\ p \in op.left)

HasActivity(p) == "activity" \in op.runtimes[p].capabilities

\* After which event to read: that of the store for the first page.
CursorFor(p) ==
  IF op.plugin = p THEN op.cursor
  ELSE IF HasActivity(p) THEN TelemetryCursor(db, p, op.runtimes[p].stream) ELSE 0

\* The answer of the process that is there now: its events after the cursor.
TelemetryPage(p) ==
  LET events == IF "activity" \in procs[p].capabilities THEN procs[p].events ELSE <<>>
      last == IF Len(events) > CursorFor(p) + PageSize THEN CursorFor(p) + PageSize ELSE Len(events)
  IN  [events |-> SubSeq(events, CursorFor(p) + 1, last), more |-> last < Len(events)]

\* A page is read and its counters are applied.
CollectTelemetry(p) ==
  LET page == TelemetryPage(p)
      counters == procs[p].counters
      epoch == procs[p].stream
      traffic == "traffic" \in op.runtimes[p].capabilities
      refused == IF traffic THEN ~CountersFit(db, p, epoch, counters, now)
                            ELSE "traffic" \in procs[p].capabilities
  IN  /\ Collecting(p)
      /\ procs[p].up
      /\ IF traffic /\ ~refused
         THEN /\ db' = CountersApplied(db, p, epoch, counters, now)
              /\ procs' = [procs EXCEPT ![p].read = [a \in Authorizations |->
                             IF a \in Bound(db, p) THEN counters[a] ELSE @[a]]]
         ELSE UNCHANGED <<db, procs>>
      /\ op' = IF refused \/ page.events = <<>> \/ ~HasActivity(p) THEN CollectDone(op.left \ {p})
               ELSE [op EXCEPT !.pc = "event", !.left = @ \ {p}, !.plugin = p,
                               !.cursor = CursorFor(p), !.page = @ + 1,
                               !.events = page.events, !.more = page.more]
      /\ UNCHANGED <<now, sink, carried, accepted, faults>>

\* The plugin is not there any more, or the call or the transaction fails.
CollectFails(p) ==
  /\ Collecting(p)
  /\ (~procs[p].up /\ UNCHANGED faults) \/ Fault
  /\ op' = CollectDone(op.left \ {p})
  /\ UNCHANGED <<db, now, procs, sink, carried, accepted>>

Current == Head(op.events)
BindingKnown == <<Current.authorization, op.plugin>> \in Bindings(db.snapshot)

\* An event of a known binding goes to the queue, under the stream that the
\* cycle saw at its start.
EnqueueAccess ==
  /\ op.pc = "event"
  /\ IF BindingKnown
     THEN /\ sink' = [sink EXCEPT !.access =
                        @ \cup {[stream |-> op.runtimes[op.plugin].stream, plugin |-> op.plugin,
                                 event |-> Current]}]
          /\ op' = [op EXCEPT !.pc = IF Current.accepted THEN "observe" ELSE "advance"]
     ELSE /\ op' = [op EXCEPT !.pc = "advance"]
          /\ UNCHANGED sink
  /\ UNCHANGED <<db, now, procs, carried, accepted, faults>>

ObserveActivity ==
  /\ op.pc = "observe"
  /\ db' = Observed(db, Current.authorization, Current.source, Current.observed)
  /\ op' = [op EXCEPT !.pc = "advance"]
  /\ UNCHANGED <<now, procs, sink, carried, accepted, faults>>

\* After the last event of a page: the next page, unless there are too many.
AdvanceTelemetryCursor ==
  LET next == [op EXCEPT !.cursor = Current.sequence, !.events = Tail(@)]
  IN  /\ op.pc = "advance"
      /\ db' = CursorAdvanced(db, op.plugin, op.runtimes[op.plugin].stream, Current.sequence)
      /\ op' = IF next.events # <<>> THEN [next EXCEPT !.pc = "event"]
               ELSE IF op.more /\ op.page < MaxPages
               THEN [next EXCEPT !.pc = "collect", !.more = FALSE]
               ELSE CollectDone(op.left)
      /\ UNCHANGED <<now, procs, sink, carried, accepted, faults>>

\* The queue or a transaction refuses; the rest of the page is left.
EventFails ==
  /\ op.pc = "event" \/ (op.pc \in {"observe", "advance"} /\ StoreMayFail)
  /\ Fault
  /\ op' = CollectDone(op.left)
  /\ UNCHANGED <<db, now, procs, sink, carried, accepted>>

-----------------------------------------------------------------------------
(* applyAndPublish: queueTraffic, applyDesired, RefreshStatuses and        *)
(* queueStatuses, each whether or not the ones before failed.              *)

At(pc) == [op EXCEPT !.pc = pc, !.left = {}, !.blocks = {}, !.item = None]

\* The next value of a list to publish, or what comes after the list.
Publishing(pc, left, after) ==
  IF left = {} THEN after ELSE [op EXCEPT !.pc = pc, !.left = left, !.item = None]

PendingTrafficSnapshots ==
  /\ op.pc = "traffic"
  /\ db' = Refreshed(db, now)
  /\ op' = Publishing("enqueue", UnqueuedTraffic(db'), At("desired"))
  /\ UNCHANGED <<now, procs, sink, carried, accepted, faults>>

\* Earlier periods of an authorization come first.
EnqueueTraffic(t) ==
  /\ op.pc = "enqueue"
  /\ t \in op.left
  /\ \A u \in op.left : u.authorization = t.authorization => u.period >= t.period
  /\ sink' = [sink EXCEPT !.traffic[<<t.authorization, t.period>>] = t]
  /\ op' = [op EXCEPT !.pc = "mark", !.left = @ \ {t}, !.item = t]
  /\ UNCHANGED <<db, now, procs, carried, accepted, faults>>

MarkTrafficQueued ==
  /\ op.pc = "mark"
  /\ IF TrafficMatches(db, op.item)
     THEN /\ db' = TrafficQueued(db, op.item)
          /\ op' = Publishing("enqueue", op.left, At("desired"))
     ELSE UNCHANGED db /\ op' = At("desired")
  /\ UNCHANGED <<now, procs, sink, carried, accepted, faults>>

\* The queue or a transaction refuses; the rest waits for the next cycle.
TrafficFails ==
  /\ op.pc = "enqueue" \/ (op.pc \in {"traffic", "mark"} /\ StoreMayFail)
  /\ Fault
  /\ op' = At("desired")
  /\ UNCHANGED <<db, now, procs, sink, carried, accepted>>

ServicesToApply(d) ==
  {k \in ServicesListed(d) :
     LET runtime == op.runtimes[k[2]] IN
     /\ runtime # None
     /\ Supports(runtime.capabilities, k \notin d.orphans /\ k[1] \in Limited(d))
     /\ ServiceNeedsApply(d, k, runtime.instance)}

BlocksToApply(d) ==
  {p \in PluginsListed(d) :
     LET runtime == op.runtimes[p] IN
     /\ runtime # None
     /\ "blocking" \in runtime.capabilities
     /\ BlocksNeedApply(d, p, runtime.instance)}

\* What is left to apply; after the last of it come the statuses.
Applying(services, blocks) ==
  IF services = {} /\ blocks = {} THEN At("refresh")
  ELSE [op EXCEPT !.pc = "apply", !.left = services, !.blocks = blocks]

\* applyDesired up to its first call.
ReadDesired ==
  /\ op.pc = "desired"
  /\ db' = DesiredUpdated(db, now)
  /\ op' = Applying(ServicesToApply(db'), BlocksToApply(db'))
  /\ UNCHANGED <<now, procs, sink, carried, accepted, faults>>

\* Desired begins with a transaction of its own, refresh, and either may fail.
DesiredFails ==
  /\ op.pc = "desired"
  /\ StoreMayFail
  /\ Fault
  /\ db' \in {db, Refreshed(db, now)}
  /\ op' = At("refresh")
  /\ UNCHANGED <<now, procs, sink, carried, accepted>>

\* The process of the plugin takes the state of the service.
Take(k) ==
  /\ procs[k[2]].up
  /\ procs' = [procs EXCEPT ![k[2]].services[k[1]] = db.services[k]]
  /\ accepted' = [accepted EXCEPT ![k] =
       @ \cup {[generation |-> db.services[k].generation, reason |-> db.services[k].reason]}]

SetServiceState(k) ==
  /\ op.pc = "apply"
  /\ k \in op.left
  /\ Take(k)
  /\ db' = ServiceApplied(db, k, op.runtimes[k[2]].instance)
  /\ op' = Applying(op.left \ {k}, op.blocks)
  /\ UNCHANGED <<now, sink, carried, faults>>

\* The plugin is gone, the call fails, or its answer or the transaction does.
SetServiceStateFails(k) ==
  /\ op.pc = "apply"
  /\ k \in op.left
  /\ \/ /\ ~procs[k[2]].up
        /\ UNCHANGED <<procs, accepted, faults>>
     \/ Fault /\ UNCHANGED <<procs, accepted>>
     \/ Fault /\ Take(k)
  /\ op' = Applying(op.left \ {k}, op.blocks)
  /\ UNCHANGED <<db, now, sink, carried>>

TakeBlocks(p) ==
  /\ procs[p].up
  /\ procs' = [procs EXCEPT ![p].blocks = db.blockSets[p].blocks]

\* The blocks come after the services.
ReplaceDynamicBlocks(p) ==
  /\ op.pc = "apply"
  /\ op.left = {}
  /\ p \in op.blocks
  /\ TakeBlocks(p)
  /\ db' = BlocksApplied(db, p, op.runtimes[p].instance)
  /\ op' = Applying({}, op.blocks \ {p})
  /\ UNCHANGED <<now, sink, carried, accepted, faults>>

ReplaceDynamicBlocksFails(p) ==
  /\ op.pc = "apply"
  /\ op.left = {}
  /\ p \in op.blocks
  /\ \/ /\ ~procs[p].up
        /\ UNCHANGED <<procs, faults>>
     \/ Fault /\ UNCHANGED procs
     \/ Fault /\ TakeBlocks(p)
  /\ op' = Applying({}, op.blocks \ {p})
  /\ UNCHANGED <<db, now, sink, carried, accepted>>

RefreshStatuses ==
  /\ op.pc = "refresh"
  /\ db' = StatusesRefreshed(db, RuntimeInstances(op.runtimes), now)
  /\ op' = Publishing("publish", UnqueuedStatuses(db'), Idle)
  /\ UNCHANGED <<now, procs, sink, carried, accepted, faults>>

\* So does RefreshStatuses.
RefreshStatusesFails ==
  /\ op.pc = "refresh"
  /\ StoreMayFail
  /\ Fault
  /\ db' \in {db, Refreshed(db, now)}
  /\ op' = Publishing("publish", UnqueuedStatuses(db'), Idle)
  /\ UNCHANGED <<now, procs, sink, carried, accepted>>

EnqueueStatus(a) ==
  /\ op.pc = "publish"
  /\ a \in op.left
  /\ sink' = [sink EXCEPT !.status[a] = db.statuses[a].event]
  /\ op' = [op EXCEPT !.pc = "settle", !.left = @ \ {a}, !.item = a]
  /\ UNCHANGED <<db, now, procs, carried, accepted, faults>>

MarkStatusQueued ==
  /\ op.pc = "settle"
  /\ db' = StatusQueued(db, op.item)
  /\ op' = Publishing("publish", op.left, Idle)
  /\ UNCHANGED <<now, procs, sink, carried, accepted, faults>>

StatusesFail ==
  /\ op.pc = "publish" \/ (op.pc = "settle" /\ StoreMayFail)
  /\ Fault
  /\ op' = Idle
  /\ UNCHANGED <<db, now, procs, sink, carried, accepted>>

-----------------------------------------------------------------------------
Collect ==
  \/ EnqueueAccess \/ ObserveActivity \/ AdvanceTelemetryCursor
  \/ \E p \in Plugins : CollectTelemetry(p) \/ CollectFails(p)

Apply ==
  \/ ReadDesired
  \/ \E k \in Keys : SetServiceState(k) \/ SetServiceStateFails(k)
  \/ \E p \in Plugins : ReplaceDynamicBlocks(p) \/ ReplaceDynamicBlocksFails(p)

Publish ==
  \/ PendingTrafficSnapshots \/ MarkTrafficQueued \/ RefreshStatuses \/ MarkStatusQueued
  \/ \E t \in op.left : EnqueueTraffic(t)
  \/ \E a \in Authorizations : EnqueueStatus(a)

\* What Execute and runCycle do once they have the mutex.
Engine == Collect \/ Apply \/ Publish

Fails == EventFails \/ TrafficFails \/ DesiredFails \/ RefreshStatusesFails \/ StatusesFail

Plugin ==
  \/ \E p \in Plugins : Start(p) \/ Exit(p)
  \/ \E p \in Plugins, a \in Authorizations :
       Carry(p, a) \/ \E source \in Sources : Access(p, a, source)

Next ==
  \/ RunCycle \/ Engine \/ Fails \/ Plugin \/ Tick \/ Crash
  \/ \E snapshot \in Snapshots : Execute(snapshot)

Spec == Init /\ [][Next]_vars

\* An operation goes on until it is done; the supervisor starts a plugin that is
\* not running; the ticker fires again and again, and a Go mutex does not starve
\* the cycle that waits for it.
Fairness ==
  /\ WF_vars(Engine)
  /\ \A p \in Plugins : WF_vars(Start(p))
  /\ SF_vars(RunCycle)

FairSpec == Spec /\ Fairness

-----------------------------------------------------------------------------
(* Properties.                                                             *)

\* The bytes the Agent accounts for in a period: in its ledger, in what waits to
\* be reported, or in what it has reported last.
Counted(a, period) ==
  LET ledger == db.ledgers[a]
      waiting == {t \in db.pending : t.authorization = a /\ t.period = period}
      reported == sink.traffic[<<a, period>>]
  IN  IF ledger # None /\ ledger.period = period THEN ledger.bytes
      ELSE IF waiting # {} THEN SumFunction([t \in waiting |-> t.bytes])
      ELSE IF reported # None THEN reported.bytes
      ELSE 0

\* Every byte is counted once: what ApplyCounters has taken from the plugins is
\* in one period of the ledger, pending or reported, over every new epoch,
\* period end, crash and change of bindings, and the rest is still unread.
CountedOnce ==
  \A a \in Authorizations :
    SumFunction([period \in Periods |-> Counted(a, period)])
      + SumFunction([p \in Plugins |-> Unread(p, a)]) = carried[a]

\* The traffic snapshots of a period are queued in the order of their revisions:
\* queueTraffic never gives a revision two contents, and never goes back.
RevisionsGrow ==
  [][\A x \in DOMAIN sink.traffic :
       LET old == sink.traffic[x]
           new == sink'.traffic[x]
       IN  old # None /\ new # old => new.revision > old.revision /\ new.bytes > old.bytes]_vars

\* What is marked as applied by the process that runs is what that process does:
\* applyDesired skips a call only when the plugin has the state already, however
\* calls fail half-way and processes are replaced.
AppliedIsTrue ==
  \A p \in Plugins :
    procs[p].up =>
      /\ \A a \in Authorizations :
           db.services[<<a, p>>] # None /\ ~ServiceNeedsApply(db, <<a, p>>, procs[p].instance)
             => procs[p].services[a] = db.services[<<a, p>>]
      /\ db.blockSets[p] # None /\ ~BlocksNeedApply(db, p, procs[p].instance)
           => procs[p].blocks = db.blockSets[p].blocks

SnapshotOf(generation) == CHOOSE s \in Snapshots : s.generation = generation

\* A policy status names a generation only after every bound plugin has taken
\* the service state of that generation.
GenerationApplied ==
  \A a \in Authorizations :
    sink.status[a] # None =>
      \A p \in SnapshotOf(sink.status[a].generation).policies[a].bindings :
        \E x \in accepted[<<a, p>>] : x.generation = sink.status[a].generation

\* A policy status says active, disabled, expired or over quota only after every
\* bound plugin has taken that state (TestEngineDoesNotReportPolicyStatusBefore-
\* PluginAppliesState).
StatusAfterApply ==
  \A a \in Authorizations :
    sink.status[a] # None =>
      \A p \in SnapshotOf(sink.status[a].generation).policies[a].bindings :
        [generation |-> sink.status[a].generation, reason |-> sink.status[a].reason]
          \in accepted[a, p]

\* No access event is skipped: one of a binding that was and is known is in the
\* queue before the telemetry cursor is past it.
NoEventSkipped ==
  \A p \in Plugins : \A i \in DOMAIN procs[p].events :
    LET event == procs[p].events[i] IN
    /\ event.known
    /\ <<event.authorization, p>> \in Bindings(db.snapshot)
    /\ i <= TelemetryCursor(db, p, procs[p].stream)
    => \E x \in sink.access : x.plugin = p /\ x.event = event

\* An access event is reported under the stream it belongs to (engine_test.go).
OwnStream == \A x \in sink.access : x.stream = x.event.stream

\* The addresses with a slot never exceed the soft limit, and none of them is
\* blocked, whatever the order and the age of the events.
SoftLimit ==
  \A a \in Limited(db) :
    /\ Cardinality(SlotsOf(db, a)) <= Policies(db)[a].soft
    /\ SlotsOf(db, a) \cap BlocksOf(db, a) = {}

\* The plugins that serve a, or still have to stop serving it, can be steered.
Enforceable(a) ==
  \A p \in Plugins :
    <<a, p>> \in ServicesListed(db) =>
      procs[p].up /\ Supports(procs[p].capabilities, a \in Limited(db))

Settled ==
  /\ db.pending = {}
  /\ \A a \in Authorized(db) :
       Enforceable(a) =>
         /\ db.ledgers[a] # None
         /\ \A p \in Policies(db)[a].bindings :
              /\ Unread(p, a) = 0
              /\ procs[p].services[a] # None
              /\ procs[p].services[a].generation = db.snapshot.generation
              /\ procs[p].services[a].reason = ReasonFor(db, a, now)
              /\ {b \in procs[p].blocks : b.authorization = a}
                   = {b \in BlocksFor(db, p, now) : b.authorization = a}
         /\ sink.traffic[a, PeriodOf(now)] = TrafficOf(a, db.ledgers[a])
         /\ sink.status[a] = StatusOf(db, a, now)
  /\ \A k \in Keys \ Bindings(db.snapshot) :
       LET process == procs[k[2]] IN
       process.up /\ Supports(process.capabilities, FALSE) /\ process.services[k[1]] # None
         => process.services[k[1]].reason # "active"

\* In the end the plugins do what the policies ask for and nothing they were told
\* before, all traffic is counted and reported, and so is the status: no fault,
\* restart or late event leaves the Agent and the center with different pictures.
Settles == <>[]Settled
=============================================================================
