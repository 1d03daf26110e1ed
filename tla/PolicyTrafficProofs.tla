------------------------ MODULE PolicyTrafficProofs -------------------------
(***************************************************************************)
(* What the policy engine makes of the bytes that its plugins carry: every *)
(* one of them is counted once, and the reports of a period grow.          *)
(***************************************************************************)
EXTENDS PolicyEngineProofs, WellFoundedInduction

-----------------------------------------------------------------------------
(* The transactions.                                                       *)

\* Every step makes at most one transaction of the store.
Transaction ==
  \/ db' = db
  \/ /\ op.pc = "idle"
     /\ \E s \in Snapshots : s.generation > db.snapshot.generation /\ db' = Reconciled(db, s)
  \/ \E p \in Plugins, epoch \in Nat, read \in [Authorizations -> Nat] :
       /\ CollectTelemetry(p) /\ epoch = procs[p].stream /\ read = procs[p].counters
       /\ db' = CountersApplied(db, p, epoch, read, now)
  \/ \E a \in Authorizations, source \in Sources, time \in Nat :
       db' = Observed(db, a, source, time)
  \/ /\ AdvanceTelemetryCursor
     /\ \E p \in Plugins, stream \in Nat, sequence \in Nat :
          db' = CursorAdvanced(db, p, stream, sequence)
  \/ db' = Refreshed(db, now)
  \/ /\ op.pc = "mark"
     /\ \E t \in Traffic : t = op.item /\ TrafficMatches(db, t) /\ db' = TrafficQueued(db, t)
  \/ op.pc = "desired" /\ db' = DesiredUpdated(db, now)
  \/ \E k \in Keys, instance \in Nat :
       db.services[k] # None /\ Take(k) /\ db' = ServiceApplied(db, k, instance)
  \/ \E p \in Plugins, instance \in Nat :
       db.blockSets[p] # None /\ db' = BlocksApplied(db, p, instance)
  \/ op.pc = "refresh" /\ \E instances \in [Plugins -> Or(Nat)] :
                              db' = StatusesRefreshed(db, instances, now)
  \/ \E a \in Authorizations : db.statuses[a] # None /\ db' = StatusQueued(db, a)

LEMMA NextTransaction == IInv /\ [Next]_vars => Transaction
  <1> SUFFICES ASSUME IInv, [Next]_vars PROVE Transaction
    OBVIOUS
  <1>6. db' = db => Transaction
    BY DEF Transaction
  <1>1. CASE RunCycle \/ Tick \/ Crash \/ UNCHANGED vars
    <2>1. db' = db
      BY <1>1 DEF RunCycle, Tick, Crash, vars
    <2> QED
      BY <1>6, <2>1
  <1>2. CASE Engine
    <2>1. CASE EnqueueAccess \/ \E p \in Plugins : CollectFails(p)
      <3>1. db' = db
        BY <2>1 DEF EnqueueAccess, CollectFails
      <3> QED
        BY <1>6, <3>1
    <2>2. CASE ObserveActivity
      <3>1. /\ Current.authorization \in Authorizations /\ Current.source \in Sources
            /\ Current.observed \in Nat
        BY <2>2, EventFacts DEF ObserveActivity, Event
      <3> QED
        BY <2>2, <3>1 DEF ObserveActivity, Transaction
    <2>3. CASE AdvanceTelemetryCursor
      <3>1. /\ op.plugin \in Plugins /\ op.runtimes[op.plugin].stream \in Nat
            /\ Current.sequence \in Nat
        BY <2>3, EventFacts DEF AdvanceTelemetryCursor, Event, Runtime
      <3> QED
        BY <2>3, <3>1 DEF AdvanceTelemetryCursor, Transaction
    <2>4. ASSUME NEW p \in Plugins, CollectTelemetry(p)
          PROVE  Transaction
      <3>1. procs[p].stream \in Nat /\ procs[p].counters \in [Authorizations -> Nat]
        BY DEF IInv, TypeOK, Process
      <3>2. db' = db \/ db' = CountersApplied(db, p, procs[p].stream, procs[p].counters, now)
        BY <2>4 DEF CollectTelemetry
      <3> QED
        BY <2>4, <3>1, <3>2 DEF Transaction
    <2>5. CASE ReadDesired
      BY <2>5 DEF ReadDesired, Transaction
    <2>6. ASSUME NEW k \in Keys, SetServiceState(k)
          PROVE  Transaction
      <3>1. db.services[k] # None /\ op.runtimes[k[2]].instance \in Nat
        BY <2>6, ApplyFacts DEF SetServiceState, Runtime
      <3> QED
        BY <2>6, <3>1 DEF SetServiceState, Transaction
    <2>7. ASSUME NEW p \in Plugins, ReplaceDynamicBlocks(p)
          PROVE  Transaction
      <3>1. db.blockSets[p] # None /\ op.runtimes[p].instance \in Nat
        BY <2>7, ApplyFacts DEF ReplaceDynamicBlocks, Runtime
      <3> QED
        BY <2>7, <3>1 DEF ReplaceDynamicBlocks, Transaction
    <2>8. CASE \/ \E k \in Keys : SetServiceStateFails(k)
               \/ \E p \in Plugins : ReplaceDynamicBlocksFails(p)
               \/ \E t \in op.left : EnqueueTraffic(t)
               \/ \E a \in Authorizations : EnqueueStatus(a)
      <3>1. db' = db
        BY <2>8 DEF SetServiceStateFails, ReplaceDynamicBlocksFails, EnqueueTraffic, EnqueueStatus
      <3> QED
        BY <1>6, <3>1
    <2>9. CASE PendingTrafficSnapshots
      <3>1. db' = Refreshed(db, now)
        BY <2>9 DEF PendingTrafficSnapshots
      <3> QED
        BY <3>1 DEF Transaction
    <2>10. CASE MarkTrafficQueued
      <3>1. op.item \in Traffic
        BY <2>10 DEF MarkTrafficQueued, IInv, OpOK
      <3>2. db' = db \/ (TrafficMatches(db, op.item) /\ db' = TrafficQueued(db, op.item))
        BY <2>10 DEF MarkTrafficQueued
      <3>3. op.pc = "mark"
        BY <2>10 DEF MarkTrafficQueued
      <3> QED
        BY <3>1, <3>2, <3>3 DEF Transaction
    <2>11. CASE RefreshStatuses
      BY <2>11, InstancesType DEF RefreshStatuses, Transaction
    <2>12. CASE MarkStatusQueued
      <3>1. op.item \in Authorizations /\ db.statuses[op.item] # None
        BY <2>12 DEF MarkStatusQueued, IInv, OpOK
      <3> QED
        BY <2>12, <3>1 DEF MarkStatusQueued, Transaction
    <2> QED
      BY <1>2, <2>1, <2>2, <2>3, <2>4, <2>5, <2>6, <2>7, <2>8, <2>9, <2>10, <2>11, <2>12
      DEF Engine, Collect, Apply, Publish
  <1>3. CASE Fails
    <2>1. db' = db \/ db' = Refreshed(db, now)
      BY <1>3 DEF Fails, EventFails, TrafficFails, DesiredFails, RefreshStatusesFails, StatusesFail
    <2>2. db' = Refreshed(db, now) => Transaction
      BY DEF Transaction
    <2> QED
      BY <1>6, <2>1, <2>2
  <1>4. CASE Plugin
    <2>1. db' = db
      BY <1>4 DEF Plugin, Start, Exit, Carry, Access
    <2> QED
      BY <1>6, <2>1
  <1>5. ASSUME NEW s \in Snapshots, Execute(s)
        PROVE  Transaction
    <2>1. \/ db' = db
          \/ op.pc = "idle" /\ s.generation > db.snapshot.generation /\ db' = Reconciled(db, s)
      BY <1>5 DEF Execute
    <2> QED
      BY <1>6, <2>1 DEF Transaction
  <1> QED
    BY <1>1, <1>2, <1>3, <1>4, <1>5 DEF Next

LEMMA SinkSteps ==
  ASSUME IInv, [Next]_vars
  PROVE  \/ sink' = sink
         \/ EnqueueAccess
         \/ \E t \in op.left : EnqueueTraffic(t)
         \/ \E a \in Authorizations : EnqueueStatus(a)
  BY DEF Next, vars, RunCycle, Engine, Fails, Plugin, Tick, Crash, Execute, Collect, Apply, Publish,
     Start, Exit, Carry, Access, ObserveActivity, AdvanceTelemetryCursor,
     CollectTelemetry, CollectFails, ReadDesired, SetServiceState, SetServiceStateFails,
     ReplaceDynamicBlocks, ReplaceDynamicBlocksFails, PendingTrafficSnapshots, MarkTrafficQueued,
     RefreshStatuses, MarkStatusQueued, EventFails, TrafficFails, DesiredFails,
     RefreshStatusesFails, StatusesFail

\* Where a step takes the operation.
LEMMA OpSteps ==
  ASSUME IInv, [Next]_vars
  PROVE  \/ op' = op /\ db' = db
         \/ op'.pc \notin {"enqueue", "mark", "apply", "refresh"}
         \/ PendingTrafficSnapshots \/ MarkTrafficQueued \/ \E t \in op.left : EnqueueTraffic(t)
         \/ /\ op'.pc \in {"apply", "refresh"}
            /\ ReadDesired \/ DesiredFails \/ op.pc = "apply"
  <1> DEFINE Elsewhere == op'.pc \notin {"enqueue", "mark", "apply", "refresh"}
             Applies == op'.pc \in {"apply", "refresh"}
  <1>1. op \in Op /\ db \in Database
    BY DEF IInv, TypeOK
  <1>2. CASE op' = Idle
    BY <1>2, IdleFacts
  <1>3. ASSUME NEW left, op' = CollectDone(left), left \subseteq {p \in Plugins : op.runtimes[p] # None}
        PROVE  Elsewhere
    <2>1. op'.pc \in {"traffic", "collect"}
      BY <1>1, <1>3, CollectDoneFacts
    <2> QED
      BY <2>1
  <1>4. CASE op' = At("desired")
    <2>1. op'.pc = "desired"
      BY <1>1, <1>4, AtFacts
    <2> QED
      BY <2>1
  <1>5. ASSUME NEW left, op' = Publishing("publish", left, Idle)
        PROVE  Elsewhere
    <2>1. [op EXCEPT !.pc = "publish", !.left = left, !.item = None].pc = "publish"
      BY <1>1 DEF Op
    <2>2. Idle.pc = "idle"
      BY IdleFacts
    <2> QED
      BY <1>5, <2>1, <2>2 DEF Publishing
  <1>6. ASSUME NEW services, NEW blocks, op' = Applying(services, blocks)
        PROVE  Applies
    <2>1. At("refresh").pc = "refresh"
      BY <1>1, AtFacts
    <2>2. [op EXCEPT !.pc = "apply", !.left = services, !.blocks = blocks].pc = "apply"
      BY <1>1 DEF Op
    <2> QED
      BY <1>6, <2>1, <2>2 DEF Applying
  <1>7. CASE RunCycle
    <2>1. PICK pc \in {"traffic", "collect"}, left \in SUBSET Plugins :
            op' = [Idle EXCEPT !.pc = pc, !.runtimes = RuntimeMap, !.left = left]
      BY <1>7 DEF RunCycle
    <2>2. op'.pc = pc
      BY <2>1, IdleFacts DEF Op
    <2> QED
      BY <2>2
  <1>8. ASSUME NEW s \in Snapshots, Execute(s)
        PROVE  Elsewhere
    <2>1. [Idle EXCEPT !.pc = "traffic", !.runtimes = RuntimeMap].pc = "traffic"
      BY IdleFacts DEF Op
    <2>2. Idle.pc = "idle"
      BY IdleFacts
    <2> QED
      BY <1>8, <2>1, <2>2 DEF Execute
  <1>9. CASE Plugin \/ Tick \/ UNCHANGED vars
    BY <1>9 DEF Plugin, Start, Exit, Carry, Access, Tick, vars
  <1>10. CASE Crash
    BY <1>2, <1>10 DEF Crash
  <1>11. CASE Fails
    <2>1. CASE EventFails
      <3>1. op.left \subseteq {p \in Plugins : op.runtimes[p] # None}
        BY <2>1 DEF EventFails, IInv, OpOK, Collects
      <3> QED
        BY <1>3, <2>1, <3>1 DEF EventFails
    <2>2. CASE TrafficFails
      BY <1>4, <2>2 DEF TrafficFails
    <2>3. CASE DesiredFails
      <3>1. op'.pc = "refresh"
        BY <1>1, <2>3, AtFacts DEF DesiredFails
      <3> QED
        BY <2>3, <3>1
    <2>4. CASE RefreshStatusesFails
      BY <1>5, <2>4 DEF RefreshStatusesFails
    <2>5. CASE StatusesFail
      BY <1>2, <2>5 DEF StatusesFail
    <2> QED
      BY <1>11, <2>1, <2>2, <2>3, <2>4, <2>5 DEF Fails
  <1>12. CASE Publish
    <2>1. CASE RefreshStatuses
      BY <1>5, <2>1 DEF RefreshStatuses
    <2>2. CASE MarkStatusQueued
      BY <1>5, <2>2 DEF MarkStatusQueued
    <2>3. ASSUME NEW a \in Authorizations, EnqueueStatus(a)
          PROVE  Elsewhere
      <3>1. op'.pc = "settle"
        BY <1>1, <2>3 DEF EnqueueStatus, Op
      <3> QED
        BY <3>1
    <2> QED
      BY <1>12, <2>1, <2>2, <2>3 DEF Publish
  <1>13. CASE Apply
    <2>1. CASE ReadDesired
      BY <1>6, <2>1 DEF ReadDesired
    <2>2. ASSUME NEW k \in Keys, SetServiceState(k) \/ SetServiceStateFails(k)
          PROVE  op.pc = "apply" /\ Applies
      BY <1>6, <2>2 DEF SetServiceState, SetServiceStateFails
    <2>3. ASSUME NEW p \in Plugins, ReplaceDynamicBlocks(p) \/ ReplaceDynamicBlocksFails(p)
          PROVE  op.pc = "apply" /\ Applies
      BY <1>6, <2>3 DEF ReplaceDynamicBlocks, ReplaceDynamicBlocksFails
    <2> QED
      BY <1>13, <2>1, <2>2, <2>3 DEF Apply
  <1>14. CASE Collect
    <2>1. \A pc : [op EXCEPT !.pc = pc].pc = pc
      BY <1>1 DEF Op
    <2>2. CASE EnqueueAccess
      BY <2>1, <2>2 DEF EnqueueAccess
    <2>3. CASE ObserveActivity
      BY <2>1, <2>3 DEF ObserveActivity
    <2>4. CASE AdvanceTelemetryCursor
      <3> DEFINE next == [op EXCEPT !.cursor = Current.sequence, !.events = Tail(@)]
      <3>1. /\ [next EXCEPT !.pc = "event"].pc = "event"
            /\ [next EXCEPT !.pc = "collect", !.more = FALSE].pc = "collect"
        BY <1>1 DEF Op
      <3>2. op.left \subseteq {p \in Plugins : op.runtimes[p] # None}
        BY <2>4 DEF AdvanceTelemetryCursor, IInv, OpOK, Collects
      <3>3. \/ op' = [next EXCEPT !.pc = "event"]
            \/ op' = [next EXCEPT !.pc = "collect", !.more = FALSE]
            \/ op' = CollectDone(op.left)
        BY <2>4 DEF AdvanceTelemetryCursor
      <3> HIDE DEF next
      <3> QED
        BY <1>3, <3>1, <3>2, <3>3
    <2>5. ASSUME NEW p \in Plugins, CollectTelemetry(p) \/ CollectFails(p)
          PROVE  Elsewhere
      <3>1. op.left \ {p} \subseteq {q \in Plugins : op.runtimes[q] # None}
        BY <2>5, CollectingFacts DEF CollectTelemetry, CollectFails
      <3> DEFINE page == TelemetryPage(p)
                 next == [op EXCEPT !.pc = "event", !.left = op.left \ {p}, !.plugin = p,
                                    !.cursor = CursorFor(p), !.page = op.page + 1,
                                    !.events = page.events, !.more = page.more]
      <3>2. op' = CollectDone(op.left \ {p}) \/ op' = next
        BY <2>5 DEF CollectTelemetry, CollectFails
      <3>3. next.pc = "event"
        BY <1>1 DEF Op
      <3> HIDE DEF next
      <3> QED
        BY <1>3, <3>1, <3>2, <3>3
    <2> QED
      BY <1>14, <2>2, <2>3, <2>4, <2>5 DEF Collect
  <1> QED
    BY <1>7, <1>8, <1>9, <1>10, <1>11, <1>12, <1>13, <1>14 DEF Next, Engine, Publish

-----------------------------------------------------------------------------
(* Revisions.                                                              *)

\* The ledger of a goes on, starts a new period, or goes with its authorization.
Continues(old, new) ==
  \/ old = None /\ new = None
  \/ /\ old # None /\ new # None /\ new.period = old.period
     /\ \/ new.revision = old.revision /\ new.bytes = old.bytes
        \/ new.revision > old.revision /\ new.bytes > old.bytes

Renewed(r, d, a, time) ==
  /\ a \in Authorized(d)
  /\ r.ledgers[a] # None /\ r.ledgers[a].period = PeriodOf(time)
  /\ d.ledgers[a] # None => d.ledgers[a].period # PeriodOf(time)

Dropped(r, a) == r.ledgers[a] = None /\ a \notin Authorized(r)

\* What a transaction at this time makes of the ledgers: only one that has ended or was
\* dropped becomes pending.
Accounted(r, d, time) ==
  /\ \A a \in Authorizations :
       \/ Continues(d.ledgers[a], r.ledgers[a])
       \/ Renewed(r, d, a, time)
       \/ Dropped(r, a)
  /\ \A t \in r.pending :
       \/ t \in d.pending
       \/ \E a \in Authorizations :
            /\ d.ledgers[a] # None /\ t = TrafficOf(a, d.ledgers[a])
            /\ Renewed(r, d, a, time) \/ Dropped(r, a)

LEMMA SameAccounted ==
  ASSUME NEW r, NEW d, NEW time, r.ledgers = d.ledgers, r.pending = d.pending
  PROVE  Accounted(r, d, time)
  BY DEF Accounted, Continues

LEMMA PreservedFrom ==
  ASSUME NEW d, NEW A, NEW t \in Preserved(d, A)
  PROVE  \/ t \in d.pending
         \/ \E a \in A : d.ledgers[a] # None /\ t = TrafficOf(a, d.ledgers[a])
  BY DEF Preserved, Unqueued

LEMMA EnsuredAccounts ==
  ASSUME NEW d \in Database, NEW A \in SUBSET Authorized(d), NEW time \in Nat
  PROVE  LET r == EnsureLedgers(d, A, time)
         IN  /\ \A a \in Authorizations : r.ledgers[a] = d.ledgers[a] \/ Renewed(r, d, a, time)
             /\ Accounted(r, d, time)
  <1> DEFINE r == EnsureLedgers(d, A, time)
             ended == {a \in A : d.ledgers[a] # None /\ d.ledgers[a].period # PeriodOf(time)}
             fresh(a) == a \in ended \/ (a \in A /\ d.ledgers[a] = None)
             pending == Preserved(d, ended)
             ledgers == [a \in Authorizations |->
               IF fresh(a) THEN NewLedger(PeriodOf(time)) ELSE d.ledgers[a]]
  <1>1. r = [d EXCEPT !.pending = pending, !.ledgers = ledgers]
    BY DEF EnsureLedgers
  <1>2. A \in SUBSET Authorizations
    BY AuthorizedType
  <1>3. \A a \in A : r.ledgers[a] # None /\ r.ledgers[a].period = PeriodOf(time)
    BY <1>2, EnsureLedgersFacts
  <1> HIDE DEF pending, ledgers, r
  <1>4. r.pending = pending /\ r.ledgers = ledgers
    BY <1>1 DEF Database
  <1>5. ASSUME NEW a \in Authorizations, fresh(a)
        PROVE  Renewed(r, d, a, time)
    BY <1>3, <1>5 DEF Renewed
  <1>6. \A a \in Authorizations : r.ledgers[a] = d.ledgers[a] \/ Renewed(r, d, a, time)
    BY <1>4, <1>5 DEF ledgers
  <1>7. \A a \in Authorizations :
          Continues(d.ledgers[a], r.ledgers[a]) \/ Renewed(r, d, a, time)
    BY <1>6 DEF Continues
  <1>8. \A t \in r.pending :
          \/ t \in d.pending
          \/ \E a \in Authorizations :
               /\ d.ledgers[a] # None /\ t = TrafficOf(a, d.ledgers[a])
               /\ Renewed(r, d, a, time)
    <2> SUFFICES ASSUME NEW t \in pending, t \notin d.pending
                 PROVE  \E a \in Authorizations :
                          /\ d.ledgers[a] # None /\ t = TrafficOf(a, d.ledgers[a])
                          /\ Renewed(r, d, a, time)
      BY <1>4
    <2>1. PICK a \in ended : d.ledgers[a] # None /\ t = TrafficOf(a, d.ledgers[a])
      BY PreservedFrom DEF pending
    <2>2. a \in Authorizations /\ Renewed(r, d, a, time)
      BY <1>2, <1>5
    <2> QED
      BY <2>1, <2>2
  <1> QED
    BY <1>6, <1>7, <1>8 DEF Accounted, r

LEMMA RefreshedAccounts ==
  ASSUME NEW d \in Database, NEW time \in Nat, NEW r,
         r.ledgers = Refreshed(d, time).ledgers, r.pending = Refreshed(d, time).pending
  PROVE  Accounted(r, d, time)
  <1> DEFINE e == EnsureLedgers(d, Authorized(d), time)
  <1>1. r.ledgers = e.ledgers /\ r.pending = e.pending
    BY RefreshedFacts
  <1>2. Accounted(e, d, time) /\ SameSteering(e, d)
    BY EnsuredAccounts, EnsureLedgersFacts, AuthorizedType
  <1>3. \A a \in Authorizations : e.ledgers[a] = d.ledgers[a] \/ Renewed(e, d, a, time)
    BY EnsuredAccounts
  <1>4. \A a \in Authorizations : Renewed(e, d, a, time) => Renewed(r, d, a, time)
    BY <1>1 DEF Renewed
  <1>5. \A a \in Authorizations : Dropped(e, a) => e.ledgers[a] = None
    BY DEF Dropped
  <1> HIDE DEF e
  <1>6. \A a \in Authorizations :
          Continues(d.ledgers[a], r.ledgers[a]) \/ Renewed(r, d, a, time)
    BY <1>1, <1>3, <1>4 DEF Continues
  <1>7. \A a \in Authorizations : d.ledgers[a] # None /\ Dropped(e, a) => Renewed(r, d, a, time)
    BY <1>3, <1>4, <1>5
  <1> QED
    BY <1>1, <1>2, <1>4, <1>6, <1>7 DEF Accounted

LEMMA CountedAccounts ==
  ASSUME NEW d \in Database, NEW p \in Plugins, NEW epoch \in Nat,
         NEW read \in [Authorizations -> Nat], NEW time \in Nat
  PROVE  Accounted(CountersApplied(d, p, epoch, read, time), d, time)
  <1> DEFINE r == CountersApplied(d, p, epoch, read, time)
             grown == Grown(d, p, epoch, read)
             e == EnsureLedgers(d, grown, time)
  <1>1. grown \in SUBSET Authorized(d)
    BY GrownType
  <1>2. /\ r.pending = e.pending /\ SameSteering(r, d)
        /\ \A a \in Authorizations : a \notin grown => r.ledgers[a] = e.ledgers[a]
        /\ \A a \in grown :
             /\ r.ledgers[a] \in Ledger /\ e.ledgers[a] \in Ledger
             /\ r.ledgers[a].period = e.ledgers[a].period
             /\ r.ledgers[a].revision = e.ledgers[a].revision + 1
             /\ r.ledgers[a].bytes > e.ledgers[a].bytes
    BY CountersAppliedFacts
  <1>3. /\ \A a \in Authorizations : e.ledgers[a] = d.ledgers[a] \/ Renewed(e, d, a, time)
        /\ Accounted(e, d, time)
    BY <1>1, EnsuredAccounts
  <1>4. SameSteering(e, d)
    BY <1>1, AuthorizedType, EnsureLedgersFacts
  <1> HIDE DEF r, e, grown
  <1>5. \A a \in grown : /\ r.ledgers[a] # None /\ e.ledgers[a] # None
                         /\ r.ledgers[a].revision > e.ledgers[a].revision
    BY <1>2, NoneAssumption DEF Ledger
  <1>6. \A a \in Authorizations : Renewed(e, d, a, time) => Renewed(r, d, a, time)
    BY <1>2, <1>5 DEF Renewed
  <1>7. \A a \in Authorizations :
          e.ledgers[a] = d.ledgers[a] => Continues(d.ledgers[a], r.ledgers[a])
    BY <1>2, <1>5 DEF Continues
  <1>8. \A a \in Authorizations :
          d.ledgers[a] # None /\ Dropped(e, a) => Renewed(r, d, a, time)
    BY <1>3, <1>6 DEF Dropped
  <1> QED
    BY <1>2, <1>3, <1>6, <1>7, <1>8 DEF Accounted, r

LEMMA ReconciledAccounts ==
  ASSUME NEW d \in Database, NEW s \in Snapshots, NEW time
  PROVE  LET r == Reconciled(d, s)
         IN  /\ Accounted(r, d, time)
             /\ \A a \in Authorizations : r.ledgers[a] # None => a \in Authorized(r)
  <1> DEFINE r == Reconciled(d, s)
             kept == DOMAIN s.policies
  <1>1. /\ r.pending = Preserved(d, Authorizations \ kept) /\ r.snapshot = s
        /\ \A a \in Authorizations :
             r.ledgers[a] = IF a \in kept THEN d.ledgers[a] ELSE None
    <2>1. r.pending = Preserved(d, Authorizations \ kept)
      BY ReconciledFacts
    <2>2. r.snapshot = s
      BY ReconciledFacts
    <2>3. \A a \in Authorizations :
            /\ r.ledgers[a] = IF a \in kept THEN d.ledgers[a] ELSE None
            /\ r.statuses[a] = IF a \in kept THEN d.statuses[a] ELSE None
      BY ReconciledFacts, Zenon
    <2> QED
      BY <2>1, <2>2, <2>3
  <1> HIDE DEF r
  <1>2. Authorized(r) = kept
    BY <1>1 DEF Authorized, Policies
  <1>3. \A a \in Authorizations \ kept : Dropped(r, a)
    BY <1>1, <1>2 DEF Dropped
  <1>4. \A a \in Authorizations : Continues(d.ledgers[a], r.ledgers[a]) \/ Dropped(r, a)
    BY <1>1, <1>3 DEF Continues
  <1>5. \A t \in r.pending :
          \/ t \in d.pending
          \/ \E a \in Authorizations \ kept : d.ledgers[a] # None /\ t = TrafficOf(a, d.ledgers[a])
    BY <1>1, PreservedFrom
  <1>6. \A a \in Authorizations : r.ledgers[a] # None => a \in Authorized(r)
    BY <1>1, <1>2
  <1> QED
    BY <1>3, <1>4, <1>5, <1>6 DEF Accounted, r

LEMMA QueuedAccounts ==
  ASSUME NEW d \in Database, NEW t \in Traffic, TrafficMatches(d, t), NEW time
  PROVE  Accounted(TrafficQueued(d, t), d, time)
  <1> DEFINE r == TrafficQueued(d, t)
  <1>1. /\ r.pending \subseteq d.pending
        /\ \A a \in Authorizations :
             /\ r.ledgers[a] = None <=> d.ledgers[a] = None
             /\ d.ledgers[a] # None => /\ r.ledgers[a].period = d.ledgers[a].period
                                       /\ r.ledgers[a].revision = d.ledgers[a].revision
                                       /\ r.ledgers[a].bytes = d.ledgers[a].bytes
    BY TrafficQueuedFacts
  <1> HIDE DEF r
  <1> QED
    BY <1>1 DEF Accounted, Continues, r

\* Every transaction does so, and keeps the policies or takes newer ones.
LEMMA AccountSteps ==
  ASSUME IInv, Transaction
  PROVE  /\ Accounted(db', db, now)
         /\ \/ db'.snapshot = db.snapshot
            \/ /\ db'.snapshot \in Snapshots
               /\ db'.snapshot.generation > db.snapshot.generation
               /\ \A a \in Authorizations : db'.ledgers[a] # None => a \in Authorized(db')
  <1> DEFINE Kept == db'.snapshot = db.snapshot
  <1>1. db \in Database /\ now \in Nat
    BY DEF IInv, TypeOK
  <1>2. CASE db' = db
    BY <1>2, SameAccounted
  <1>3. ASSUME NEW s \in Snapshots, s.generation > db.snapshot.generation,
               db' = Reconciled(db, s)
        PROVE  /\ Accounted(db', db, now) /\ db'.snapshot = s
               /\ \A a \in Authorizations : db'.ledgers[a] # None => a \in Authorized(db')
    BY <1>1, <1>3, ReconciledAccounts, ReconciledFacts
  <1>4. ASSUME NEW p \in Plugins, NEW epoch \in Nat, NEW read \in [Authorizations -> Nat],
               db' = CountersApplied(db, p, epoch, read, now)
        PROVE  Accounted(db', db, now) /\ Kept
    <2> DEFINE r == CountersApplied(db, p, epoch, read, now)
    <2>1. SameSteering(r, db)
      BY <1>1, CountersAppliedFacts
    <2>2. Accounted(r, db, now)
      BY <1>1, CountedAccounts
    <2> QED
      BY <1>4, <2>1, <2>2 DEF SameSteering
  <1>5. ASSUME NEW a \in Authorizations, NEW source \in Sources, NEW time \in Nat,
               db' = Observed(db, a, source, time)
        PROVE  Accounted(db', db, now) /\ Kept
    <2>1. SameSteering(db', db) /\ db'.ledgers = db.ledgers /\ db'.pending = db.pending
      BY <1>1, <1>5, ObservedFacts
    <2> QED
      BY <2>1, SameAccounted DEF SameSteering
  <1>6. ASSUME NEW p \in Plugins, NEW stream \in Nat, NEW sequence \in Nat,
               db' = CursorAdvanced(db, p, stream, sequence)
        PROVE  Accounted(db', db, now) /\ Kept
    <2> DEFINE r == CursorAdvanced(db, p, stream, sequence)
    <2>1. SameSteering(r, db)
      BY <1>1, CursorAdvancedFacts
    <2>2. SameBooks(r, db)
      BY <1>1, CursorAdvancedBooks
    <2> QED
      BY <1>6, <2>2, <2>1, SameAccounted DEF SameSteering, SameBooks
  <1>7. CASE db' = Refreshed(db, now)
    <2>1. SameSteering(db', db)
      BY <1>1, <1>7, RefreshedFacts
    <2> QED
      BY <1>1, <1>7, <2>1, RefreshedAccounts DEF SameSteering
  <1>8. ASSUME NEW t \in Traffic, TrafficMatches(db, t), db' = TrafficQueued(db, t)
        PROVE  Accounted(db', db, now) /\ Kept
    <2>1. SameSteering(db', db)
      BY <1>1, <1>8, TrafficQueuedFacts
    <2> QED
      BY <1>1, <1>8, <2>1, QueuedAccounts DEF SameSteering
  <1>9. CASE db' = DesiredUpdated(db, now)
    <2>1. /\ db'.snapshot = db.snapshot
          /\ db'.ledgers = Refreshed(db, now).ledgers /\ db'.pending = Refreshed(db, now).pending
      BY <1>1, <1>9, DesiredUpdatedFacts
    <2> QED
      BY <1>1, <2>1, RefreshedAccounts
  <1>10. ASSUME NEW k \in Keys, NEW instance \in Nat, db.services[k] # None,
                db' = ServiceApplied(db, k, instance)
         PROVE  Accounted(db', db, now) /\ Kept
    <2>1. SameAccounts(db', db) /\ db'.snapshot = db.snapshot
      BY <1>1, <1>10, ServiceAppliedFacts
    <2> QED
      BY <2>1, SameAccounted DEF SameAccounts
  <1>11. ASSUME NEW p \in Plugins, NEW instance \in Nat, db.blockSets[p] # None,
                db' = BlocksApplied(db, p, instance)
         PROVE  Accounted(db', db, now) /\ Kept
    <2>1. SameAccounts(db', db) /\ db'.snapshot = db.snapshot
      BY <1>1, <1>11, BlocksAppliedFacts
    <2> QED
      BY <2>1, SameAccounted DEF SameAccounts
  <1>12. ASSUME NEW instances \in [Plugins -> Or(Nat)],
                db' = StatusesRefreshed(db, instances, now)
         PROVE  Accounted(db', db, now) /\ Kept
    <2>1. /\ SameSteering(db', db)
          /\ db'.ledgers = Refreshed(db, now).ledgers /\ db'.pending = Refreshed(db, now).pending
      BY <1>1, <1>12, StatusesRefreshedFacts
    <2> QED
      BY <1>1, <2>1, RefreshedAccounts DEF SameSteering
  <1>13. ASSUME NEW a \in Authorizations, db.statuses[a] # None, db' = StatusQueued(db, a)
         PROVE  Accounted(db', db, now) /\ Kept
    <2>1. SameAccounts(db', db) /\ SameSteering(db', db)
      BY <1>1, <1>13, StatusQueuedFacts
    <2> QED
      BY <2>1, SameAccounted DEF SameAccounts, SameSteering
  <1> QED
    BY <1>2, <1>3, <1>4, <1>5, <1>6, <1>7, <1>8, <1>9, <1>10, <1>11, <1>12, <1>13
    DEF Transaction

\* The center does not give back an authorization that it has taken away.
AuthorizationsDoNotReturn ==
  \A s, t, u \in Snapshots :
    s.generation < t.generation /\ t.generation < u.generation =>
      DOMAIN s.policies \cap DOMAIN u.policies \subseteq DOMAIN t.policies

\* No later snapshot has a, and neither has this one.
Gone(d, a) ==
  \A u \in Snapshots : u.generation >= d.snapshot.generation => a \notin DOMAIN u.policies

\* The ledger of a is past that period, or not before it; or there will be no other.
Past(d, a, period) == (d.ledgers[a] # None /\ period < d.ledgers[a].period) \/ Gone(d, a)
Reached(d, a, period) == (d.ledgers[a] # None /\ period <= d.ledgers[a].period) \/ Gone(d, a)

\* What queueTraffic may find.
Held(d, t) ==
  \/ t \in d.pending
  \/ \E a \in Authorizations : d.ledgers[a] # None /\ t = TrafficOf(a, d.ledgers[a])

Precedes(x, t) == x = t \/ (x.revision < t.revision /\ x.bytes < t.bytes)

LedgersCurrent(d, time) ==
  \A a \in Authorizations :
    d.ledgers[a] # None => a \in Authorized(d) /\ d.ledgers[a].period <= PeriodOf(time)

PendingPast(d) ==
  /\ \A t \in d.pending : Past(d, t.authorization, t.period)
  /\ \A t, u \in d.pending : t.authorization = u.authorization /\ t.period = u.period => t = u

\* What was reported is the newest of its period, or is followed by newer ones only.
SentPrecedes(d, sent) ==
  \A a \in Authorizations, period \in Periods :
    sent[<<a, period>>] # None =>
      /\ Reached(d, a, period)
      /\ \A t \in Traffic : Held(d, t) /\ t.authorization = a /\ t.period = period
                              => Precedes(sent[<<a, period>>], t)

Accounts(d, time, sent) == LedgersCurrent(d, time) /\ PendingPast(d) /\ SentPrecedes(d, sent)

\* The policies of r are those of d, or newer ones.
Succeeds(r, d) ==
  \/ r.snapshot = d.snapshot
  \/ /\ r.snapshot \in Snapshots
     /\ r.snapshot.generation > d.snapshot.generation
     /\ \A a \in Authorizations : r.ledgers[a] # None => a \in Authorized(r)

LEMMA NotGone ==
  ASSUME NEW d \in Database, NEW a \in Authorized(d)
  PROVE  ~Gone(d, a)
  <1>1. d.snapshot \in Snapshots \cup {NoSnapshot} /\ a \in DOMAIN d.snapshot.policies
    BY DEF Database, Authorized, Policies
  <1>2. d.snapshot \in Snapshots
    BY <1>1 DEF NoSnapshot
  <1>3. d.snapshot.generation \in Nat
    BY <1>2, SnapshotType
  <1> QED
    BY <1>1, <1>2, <1>3 DEF Gone

LEMMA GoneStays ==
  ASSUME NEW d \in Database, NEW r \in Database, Succeeds(r, d), NEW a, Gone(d, a)
  PROVE  Gone(r, a)
  <1>1. d.snapshot.generation \in Nat /\ r.snapshot.generation \in Nat
    BY SnapshotType DEF Database
  <1>2. r.snapshot.generation >= d.snapshot.generation
    BY <1>1 DEF Succeeds
  <1>3. \A u \in Snapshots : u.generation \in Nat
    BY SnapshotType
  <1> QED
    BY <1>1, <1>2, <1>3 DEF Gone

LEMMA DroppedIsGone ==
  ASSUME AuthorizationsDoNotReturn, NEW d \in Database, NEW r \in Database, Succeeds(r, d),
         NEW a \in Authorized(d), Dropped(r, a)
  PROVE  Gone(r, a)
  <1>1. /\ d.snapshot \in Snapshots \cup {NoSnapshot} /\ a \in DOMAIN d.snapshot.policies
        /\ a \notin DOMAIN r.snapshot.policies
    BY DEF Database, Authorized, Policies, Dropped
  <1>2. /\ d.snapshot \in Snapshots /\ r.snapshot \in Snapshots
        /\ d.snapshot.generation < r.snapshot.generation
    BY <1>1, SnapshotType DEF NoSnapshot, Succeeds
  <1>3. ASSUME NEW u \in Snapshots, u.generation >= r.snapshot.generation
        PROVE  a \notin DOMAIN u.policies
    <2>1. u.generation \in Nat /\ r.snapshot.generation \in Nat
      BY <1>2, SnapshotType
    <2>2. CASE u.generation = r.snapshot.generation
      <3>1. u = r.snapshot
        BY <1>2, <2>2, PolicyStoreAssumption
      <3> QED
        BY <1>1, <3>1
    <2>3. CASE u.generation # r.snapshot.generation
      <3>1. r.snapshot.generation < u.generation
        BY <1>3, <2>1, <2>3
      <3> QED
        BY <1>1, <1>2, <3>1 DEF AuthorizationsDoNotReturn
    <2> QED
      BY <2>2, <2>3
  <1> QED
    BY <1>3 DEF Gone

LEMMA LedgerFields ==
  ASSUME NEW d \in Database, NEW a \in Authorizations, d.ledgers[a] # None
  PROVE  /\ d.ledgers[a].period \in Nat /\ d.ledgers[a].revision \in Nat
         /\ d.ledgers[a].bytes \in Nat
         /\ TrafficOf(a, d.ledgers[a]) \in Traffic
         /\ TrafficOf(a, d.ledgers[a]).authorization = a
         /\ TrafficOf(a, d.ledgers[a]).period = d.ledgers[a].period
         /\ TrafficOf(a, d.ledgers[a]).revision = d.ledgers[a].revision
         /\ TrafficOf(a, d.ledgers[a]).bytes = d.ledgers[a].bytes
  <1>1. d.ledgers[a] \in Ledger
    BY DEF Database, Or
  <1>2. TrafficOf(a, d.ledgers[a]) \in Traffic
    BY <1>1, LedgerType
  <1>3. /\ d.ledgers[a].period \in Nat /\ d.ledgers[a].revision \in Nat
        /\ d.ledgers[a].bytes \in Nat
    BY <1>1 DEF Ledger
  <1> QED
    BY <1>2, <1>3 DEF TrafficOf

\* Periods that were past, or reached, stay so; so is one that has ended.
LEMMA PastStays ==
  ASSUME AuthorizationsDoNotReturn, NEW d \in Database, NEW r \in Database, Succeeds(r, d),
         NEW time \in Nat, Accounted(r, d, time), LedgersCurrent(d, time),
         NEW a \in Authorizations, NEW period \in Nat
  PROVE  /\ Past(d, a, period) => Past(r, a, period)
         /\ Reached(d, a, period) => Reached(r, a, period)
         /\ /\ d.ledgers[a] # None /\ period = d.ledgers[a].period
            /\ Renewed(r, d, a, time) \/ Dropped(r, a)
            => Past(r, a, period)
  <1>1. CASE Gone(d, a)
    <2>1. Gone(r, a)
      BY <1>1, GoneStays
    <2> QED
      BY <2>1 DEF Past, Reached
  <1>2. CASE d.ledgers[a] = None /\ ~Gone(d, a)
    BY <1>2 DEF Past, Reached
  <1>3. CASE d.ledgers[a] # None /\ ~Gone(d, a)
    <2>1. /\ d.ledgers[a].period \in Nat /\ d.ledgers[a].period <= PeriodOf(time)
          /\ a \in Authorized(d) /\ PeriodOf(time) \in Nat
      BY <1>3, LedgerFields, PeriodType DEF LedgersCurrent
    <2>2. CASE Continues(d.ledgers[a], r.ledgers[a])
      <3>1. r.ledgers[a] # None /\ r.ledgers[a].period = d.ledgers[a].period
        BY <1>3, <2>2 DEF Continues
      <3>2. ~Renewed(r, d, a, time)
        BY <1>3, <3>1 DEF Renewed
      <3>3. ~Dropped(r, a)
        BY <3>1 DEF Dropped
      <3> QED
        BY <1>3, <3>1, <3>2, <3>3 DEF Past, Reached
    <2>3. CASE Renewed(r, d, a, time)
      <3>1. r.ledgers[a] # None /\ r.ledgers[a].period = PeriodOf(time)
            /\ d.ledgers[a].period < PeriodOf(time)
        BY <1>3, <2>1, <2>3 DEF Renewed
      <3> QED
        BY <1>3, <2>1, <3>1 DEF Past, Reached
    <2>4. CASE Dropped(r, a)
      <3>1. Gone(r, a)
        BY <2>1, <2>4, DroppedIsGone
      <3> QED
        BY <3>1 DEF Past, Reached
    <2> QED
      BY <2>2, <2>3, <2>4 DEF Accounted
  <1> QED
    BY <1>1, <1>2, <1>3

LEMMA AccountsKept ==
  ASSUME AuthorizationsDoNotReturn, NEW d \in Database, NEW r \in Database, Succeeds(r, d),
         NEW time \in Nat, Accounted(r, d, time),
         NEW sent \in [Authorizations \X Periods -> Or(Traffic)], Accounts(d, time, sent)
  PROVE  Accounts(r, time, sent)
  <1>1. LedgersCurrent(d, time) /\ PendingPast(d) /\ SentPrecedes(d, sent)
    BY DEF Accounts
  <1>2. PeriodOf(time) \in Nat /\ d.pending \subseteq Traffic /\ r.pending \subseteq Traffic
    BY PeriodType DEF Database
  <1>3. LedgersCurrent(r, time)
    <2> SUFFICES ASSUME NEW a \in Authorizations, r.ledgers[a] # None
                 PROVE  a \in Authorized(r) /\ r.ledgers[a].period <= PeriodOf(time)
      BY DEF LedgersCurrent
    <2>1. CASE Continues(d.ledgers[a], r.ledgers[a])
      <3>1. d.ledgers[a] # None /\ r.ledgers[a].period = d.ledgers[a].period
        BY <2>1 DEF Continues
      <3>2. a \in Authorized(d) /\ r.ledgers[a].period <= PeriodOf(time)
        BY <1>1, <3>1 DEF LedgersCurrent
      <3> QED
        BY <3>2 DEF Succeeds, Authorized, Policies
    <2>2. CASE Renewed(r, d, a, time)
      BY <1>2, <2>2 DEF Renewed, Succeeds, Authorized, Policies
    <2> QED
      BY <2>1, <2>2 DEF Accounted, Dropped
  \* A ledger that becomes pending was ahead of all that was pending.
  <1>4. ASSUME NEW t \in d.pending, NEW a \in Authorizations, d.ledgers[a] # None
        PROVE  t.authorization = a => t.period < d.ledgers[a].period
    <2>1. a \in Authorized(d)
      BY <1>1, <1>4 DEF LedgersCurrent
    <2>2. ~Gone(d, a)
      BY <2>1, NotGone
    <2> QED
      BY <1>1, <2>2 DEF PendingPast, Past
  <1>5. PendingPast(r)
    <2>1. ASSUME NEW t \in r.pending
          PROVE  Past(r, t.authorization, t.period)
      <3>1. t.authorization \in Authorizations /\ t.period \in Nat
        BY <1>2 DEF Traffic
      <3>2. CASE t \in d.pending
        BY <1>1, <3>1, <3>2, PastStays DEF PendingPast
      <3>3. ASSUME NEW a \in Authorizations, d.ledgers[a] # None,
                   t = TrafficOf(a, d.ledgers[a]), Renewed(r, d, a, time) \/ Dropped(r, a)
            PROVE  Past(r, t.authorization, t.period)
        <4>1. t.authorization = a /\ t.period = d.ledgers[a].period
          BY <3>3, LedgerFields
        <4> QED
          BY <1>1, <3>1, <3>3, <4>1, PastStays
      <3> QED
        BY <3>2, <3>3 DEF Accounted
    <2>2. ASSUME NEW t \in r.pending, NEW u \in r.pending,
                 t.authorization = u.authorization, t.period = u.period
          PROVE  t = u
      <3>1. \A v \in r.pending :
              \/ v \in d.pending
              \/ \E a \in Authorizations : d.ledgers[a] # None /\ v = TrafficOf(a, d.ledgers[a])
        BY DEF Accounted
      <3>2. ASSUME NEW v \in d.pending, NEW w \in r.pending, NEW a \in Authorizations,
                   d.ledgers[a] # None, w = TrafficOf(a, d.ledgers[a]),
                   v.authorization = w.authorization, v.period = w.period
            PROVE  FALSE
        <4>1. w.authorization = a /\ w.period = d.ledgers[a].period /\ w.period \in Nat
          BY <3>2, LedgerFields
        <4> QED
          BY <1>4, <3>2, <4>1
      <3>3. CASE t \in d.pending /\ u \in d.pending
        BY <1>1, <2>2, <3>3 DEF PendingPast
      <3>4. CASE t \notin d.pending /\ u \notin d.pending
        <4>1. PICK a \in Authorizations : d.ledgers[a] # None /\ t = TrafficOf(a, d.ledgers[a])
          BY <3>1, <3>4
        <4>2. PICK b \in Authorizations : d.ledgers[b] # None /\ u = TrafficOf(b, d.ledgers[b])
          BY <3>1, <3>4
        <4>3. a = b
          BY <2>2, <4>1, <4>2, LedgerFields
        <4> QED
          BY <4>1, <4>2, <4>3
      <3> QED
        BY <2>2, <3>1, <3>2, <3>3, <3>4
    <2> QED
      BY <2>1, <2>2 DEF PendingPast
  <1>6. SentPrecedes(r, sent)
    <2> SUFFICES ASSUME NEW a \in Authorizations, NEW period \in Periods,
                        sent[<<a, period>>] # None
                 PROVE  /\ Reached(r, a, period)
                        /\ \A t \in Traffic :
                             Held(r, t) /\ t.authorization = a /\ t.period = period
                               => Precedes(sent[<<a, period>>], t)
      BY DEF SentPrecedes
    <2> DEFINE x == sent[<<a, period>>]
    <2>1. /\ Reached(d, a, period)
          /\ \A t \in Traffic : Held(d, t) /\ t.authorization = a /\ t.period = period
                                  => Precedes(x, t)
      BY <1>1 DEF SentPrecedes
    <2>2. period \in Nat
      BY DEF Periods
    <2>3. x \in Traffic
      BY DEF Or
    <2> HIDE DEF x
    <2>4. Reached(r, a, period)
      BY <1>1, <2>1, <2>2, PastStays
    <2>5. ASSUME NEW t \in Traffic, Held(r, t), t.authorization = a, t.period = period
          PROVE  Precedes(x, t)
      <3>1. CASE t \in r.pending
        <4>1. Held(d, t)
          BY <3>1 DEF Accounted, Held
        <4> QED
          BY <2>1, <2>5, <4>1
      <3>2. CASE t \notin r.pending
        <4>1. r.ledgers[a] # None /\ t = TrafficOf(a, r.ledgers[a])
          BY <2>5, <3>2, LedgerFields DEF Held
        <4>2. t.revision = r.ledgers[a].revision /\ t.bytes = r.ledgers[a].bytes
              /\ t.period = r.ledgers[a].period
          BY <4>1, LedgerFields
        <4>3. CASE Continues(d.ledgers[a], r.ledgers[a])
          <5> DEFINE old == TrafficOf(a, d.ledgers[a])
          <5>1. d.ledgers[a] # None /\ d.ledgers[a].period = r.ledgers[a].period
            BY <4>1, <4>3 DEF Continues
          <5>2. /\ old \in Traffic /\ old.authorization = a /\ old.period = d.ledgers[a].period
                /\ old.revision = d.ledgers[a].revision /\ old.bytes = d.ledgers[a].bytes
            BY <5>1, LedgerFields
          <5>3. Held(d, old)
            BY <5>1 DEF Held
          <5>4. Precedes(x, old)
            BY <2>1, <2>5, <4>2, <5>1, <5>2, <5>3
          <5> HIDE DEF old
          <5>5. \/ t.revision = old.revision /\ t.bytes = old.bytes
                \/ t.revision > old.revision /\ t.bytes > old.bytes
            BY <4>1, <4>2, <4>3, <5>1, <5>2 DEF Continues
          <5>6. CASE t.revision = old.revision /\ t.bytes = old.bytes
            <6>1. t = old
              BY <2>5, <4>2, <5>1, <5>2, <5>6 DEF Traffic
            <6> QED
              BY <5>4, <6>1
          <5>7. CASE t.revision > old.revision /\ t.bytes > old.bytes
            BY <2>3, <2>5, <5>2, <5>4, <5>7 DEF Precedes, Traffic
          <5> QED
            BY <5>5, <5>6, <5>7
        <4>4. CASE Renewed(r, d, a, time)
          <5>1. a \in Authorized(d) /\ period = PeriodOf(time)
            BY <2>5, <4>2, <4>4 DEF Renewed
          <5>2. ~Gone(d, a)
            BY <5>1, NotGone
          <5>3. /\ d.ledgers[a] # None /\ period <= d.ledgers[a].period
                /\ d.ledgers[a].period <= PeriodOf(time) /\ d.ledgers[a].period \in Nat
            BY <1>1, <2>1, <5>2, LedgerFields DEF Reached, LedgersCurrent
          <5> QED
            BY <1>2, <4>4, <5>1, <5>3 DEF Renewed
        <4> QED
          BY <4>1, <4>3, <4>4 DEF Accounted, Dropped
      <3> QED
        BY <3>1, <3>2
    <2> QED
      BY <2>4, <2>5 DEF x
  <1> QED
    BY <1>3, <1>5, <1>6 DEF Accounts

\* What queueTraffic is to report is what there is to report.
QueueOK(o, d) ==
  o.pc \in {"enqueue", "mark"} =>
    /\ \A t \in o.left : Held(d, t)
    /\ o.pc = "mark" => o.item \notin o.left

AccountInv == Accounts(db, now, sink.traffic) /\ QueueOK(op, db)

LEMMA HeldUnique ==
  ASSUME NEW d \in Database, NEW time \in Nat, LedgersCurrent(d, time), PendingPast(d),
         NEW t, NEW u, Held(d, t), Held(d, u),
         t.authorization = u.authorization, t.period = u.period
  PROVE  t = u
  <1>1. ASSUME NEW v \in d.pending, NEW a \in Authorizations, d.ledgers[a] # None,
               v.authorization = a, v.period = d.ledgers[a].period
        PROVE  FALSE
    <2>1. a \in Authorized(d) /\ d.ledgers[a].period \in Nat
      BY <1>1, LedgerFields DEF LedgersCurrent
    <2>2. ~Gone(d, a)
      BY <2>1, NotGone
    <2> QED
      BY <1>1, <2>1, <2>2 DEF PendingPast, Past
  <1>2. \A v : Held(d, v) /\ v \notin d.pending =>
          \E a \in Authorizations : /\ d.ledgers[a] # None /\ v = TrafficOf(a, d.ledgers[a])
                                    /\ v.authorization = a /\ v.period = d.ledgers[a].period
    BY LedgerFields DEF Held
  <1>3. CASE t \in d.pending /\ u \in d.pending
    BY <1>3 DEF PendingPast
  <1>4. CASE t \notin d.pending /\ u \notin d.pending
    BY <1>2, <1>4
  <1> QED
    BY <1>1, <1>2, <1>3, <1>4

\* Reporting what is held keeps the account.
LEMMA ReportedKept ==
  ASSUME NEW d \in Database, NEW time \in Nat,
         NEW sent \in [Authorizations \X Periods -> Or(Traffic)], Accounts(d, time, sent),
         NEW t \in Traffic, Held(d, t)
  PROVE  Accounts(d, time, [sent EXCEPT ![<<t.authorization, t.period>>] = t])
  <1> DEFINE new == [sent EXCEPT ![<<t.authorization, t.period>>] = t]
  <1>1. LedgersCurrent(d, time) /\ PendingPast(d) /\ SentPrecedes(d, sent)
    BY DEF Accounts
  <1>2. t.authorization \in Authorizations /\ t.period \in Nat
    BY DEF Traffic
  <1>3. Reached(d, t.authorization, t.period)
    <2>1. CASE t \in d.pending
      <3>1. Past(d, t.authorization, t.period)
        BY <1>1, <2>1 DEF PendingPast
      <3>2. d.ledgers[t.authorization] # None => d.ledgers[t.authorization].period \in Nat
        BY <1>2, LedgerFields
      <3> QED
        BY <1>2, <3>1, <3>2 DEF Past, Reached
    <2>2. ASSUME NEW a \in Authorizations, d.ledgers[a] # None, t = TrafficOf(a, d.ledgers[a])
          PROVE  Reached(d, t.authorization, t.period)
      <3>1. t.authorization = a /\ t.period = d.ledgers[a].period /\ t.period \in Nat
        BY <2>2, LedgerFields
      <3> QED
        BY <2>2, <3>1 DEF Reached
    <2> QED
      BY <2>1, <2>2 DEF Held
  <1>4. ASSUME NEW u, Held(d, u), u.authorization = t.authorization, u.period = t.period
        PROVE  u = t
    BY <1>1, <1>4, HeldUnique
  <1>5. SentPrecedes(d, new)
    <2> SUFFICES ASSUME NEW a \in Authorizations, NEW period \in Periods,
                        new[<<a, period>>] # None
                 PROVE  /\ Reached(d, a, period)
                        /\ \A u \in Traffic :
                             Held(d, u) /\ u.authorization = a /\ u.period = period
                               => Precedes(new[<<a, period>>], u)
      BY DEF SentPrecedes
    <2>1. CASE a = t.authorization /\ period = t.period
      <3>1. new[<<a, period>>] = t
        BY <2>1
      <3> HIDE DEF new
      <3> QED
        BY <1>3, <1>4, <2>1, <3>1 DEF Precedes
    <2>2. CASE ~(a = t.authorization /\ period = t.period)
      <3>1. new[<<a, period>>] = sent[<<a, period>>]
        BY <2>2
      <3> HIDE DEF new
      <3> QED
        BY <1>1, <3>1 DEF SentPrecedes
    <2> QED
      BY <2>1, <2>2
  <1> QED
    BY <1>1, <1>5 DEF Accounts

LEMMA QueueSteps ==
  ASSUME IInv, IInv', AccountInv, [Next]_vars
  PROVE  QueueOK(op', db')
  <1>1. op \in Op /\ db \in Database /\ now \in Nat /\ db' \in Database
    BY DEF IInv, TypeOK
  <1>2. At("desired").pc = "desired"
    BY <1>1, AtFacts
  <1>3. ASSUME NEW left
        PROVE  LET o == [op EXCEPT !.pc = "enqueue", !.left = left, !.item = None]
               IN  o.pc = "enqueue" /\ o.left = left
    BY <1>1 DEF Op
  <1>4. ASSUME NEW left, op' = Publishing("enqueue", left, At("desired")),
               \A t \in left : Held(db', t)
        PROVE  QueueOK(op', db')
    <2>1. CASE op' = At("desired")
      BY <1>2, <2>1 DEF QueueOK
    <2>2. CASE op' = [op EXCEPT !.pc = "enqueue", !.left = left, !.item = None]
      <3>1. op'.pc = "enqueue" /\ op'.left = left
        BY <1>3, <2>2
      <3> QED
        BY <1>4, <3>1 DEF QueueOK
    <2> QED
      BY <1>4, <2>1, <2>2 DEF Publishing
  <1>5. CASE op' = op /\ db' = db
    BY <1>5 DEF AccountInv, QueueOK, Held
  <1>6. CASE PendingTrafficSnapshots
    <2>1. \A t \in UnqueuedTraffic(db') : Held(db', t)
      BY DEF UnqueuedTraffic, Unqueued, Held
    <2> QED
      BY <1>4, <1>6, <2>1 DEF PendingTrafficSnapshots
  <1>7. CASE MarkTrafficQueued
    <2>1. CASE op' = At("desired")
      BY <1>2, <2>1 DEF QueueOK
    <2>2. CASE TrafficMatches(db, op.item)
      <3>1. /\ op' = Publishing("enqueue", op.left, At("desired"))
            /\ db' = TrafficQueued(db, op.item) /\ op.pc = "mark"
        BY <1>7, <2>2 DEF MarkTrafficQueued
      <3>2. op.item \in Traffic
        BY <3>1 DEF IInv, OpOK
      <3>3. /\ \A u \in db.pending : u # op.item => u \in db'.pending
            /\ \A a \in Authorizations :
                 /\ db'.ledgers[a] = None <=> db.ledgers[a] = None
                 /\ db.ledgers[a] # None =>
                      /\ db'.ledgers[a] \in Ledger
                      /\ db'.ledgers[a].period = db.ledgers[a].period
                      /\ db'.ledgers[a].revision = db.ledgers[a].revision
                      /\ db'.ledgers[a].bytes = db.ledgers[a].bytes
        BY <1>1, <2>2, <3>1, <3>2, TrafficQueuedFacts
      <3>4. \A a \in Authorizations :
              db.ledgers[a] # None =>
                /\ db'.ledgers[a] # None
                /\ TrafficOf(a, db'.ledgers[a]) = TrafficOf(a, db.ledgers[a])
        BY <3>3 DEF TrafficOf
      <3>5. \A t \in op.left : Held(db, t) /\ t # op.item
        BY <3>1 DEF AccountInv, QueueOK
      <3>6. \A t \in op.left : Held(db', t)
        BY <3>3, <3>4, <3>5 DEF Held
      <3> QED
        BY <1>4, <3>1, <3>6
    <2> QED
      BY <1>7, <2>1, <2>2 DEF MarkTrafficQueued
  <1>8. ASSUME NEW t \in op.left, EnqueueTraffic(t)
        PROVE  QueueOK(op', db')
    <2>1. /\ op.pc = "enqueue" /\ db' = db
          /\ op' = [op EXCEPT !.pc = "mark", !.left = op.left \ {t}, !.item = t]
      BY <1>8 DEF EnqueueTraffic
    <2>2. op'.pc = "mark" /\ op'.left = op.left \ {t} /\ op'.item = t
      BY <1>1, <2>1 DEF Op
    <2>3. \A u \in op.left : Held(db, u)
      BY <2>1 DEF AccountInv, QueueOK
    <2> QED
      BY <2>1, <2>2, <2>3 DEF QueueOK
  <1>9. CASE op'.pc \notin {"enqueue", "mark"}
    BY <1>9 DEF QueueOK
  <1> QED
    BY <1>5, <1>6, <1>7, <1>8, <1>9, OpSteps

LEMMA AccountInit == Init => AccountInv
  <1> SUFFICES ASSUME Init PROVE AccountInv
    OBVIOUS
  <1>1. /\ \A a \in Authorizations : db.ledgers[a] = None
        /\ db.pending = {}
        /\ \A x \in Authorizations \X Periods : sink.traffic[x] = None
        /\ op.pc = "idle"
    BY IdleFacts DEF Init, EmptyDatabase, Nothing
  <1> QED
    BY <1>1 DEF AccountInv, Accounts, LedgersCurrent, PendingPast, SentPrecedes, QueueOK

LEMMA AccountStep ==
  ASSUME AuthorizationsDoNotReturn, IInv, IInv', AccountInv, [Next]_vars
  PROVE  AccountInv'
  <1>1. /\ db \in Database /\ db' \in Database /\ now \in Nat /\ now' \in Nat /\ sink \in Sink
        /\ Transaction
    BY NextTransaction DEF IInv, TypeOK
  <1>2. sink.traffic \in [Authorizations \X Periods -> Or(Traffic)]
    BY <1>1 DEF Sink
  <1>3. Accounts(db', now, sink.traffic)
    <2>1. Accounted(db', db, now) /\ Succeeds(db', db)
      BY <1>1, AccountSteps DEF Succeeds
    <2> QED
      BY <1>1, <1>2, <2>1, AccountsKept DEF AccountInv
  <1>4. Accounts(db', now', sink.traffic)
    <2>1. now' = now \/ Tick
      BY DEF Next, vars, RunCycle, Engine, Fails, Plugin, Tick, Crash, Execute, Collect, Apply,
         Publish, Start, Exit, Carry, Access, EnqueueAccess, ObserveActivity,
         AdvanceTelemetryCursor, CollectTelemetry, CollectFails, ReadDesired, SetServiceState,
         SetServiceStateFails, ReplaceDynamicBlocks, ReplaceDynamicBlocksFails,
         PendingTrafficSnapshots, MarkTrafficQueued, RefreshStatuses, MarkStatusQueued,
         EnqueueTraffic, EnqueueStatus, EventFails, TrafficFails, DesiredFails,
         RefreshStatusesFails, StatusesFail
    <2>2. now <= now'
      BY <1>1, <2>1 DEF Tick
    <2>3. PeriodOf(now) <= PeriodOf(now') /\ PeriodOf(now) \in Nat /\ PeriodOf(now') \in Nat
      BY <1>1, <2>2, PeriodGrows, PeriodType
    <2>4. \A a \in Authorizations : db'.ledgers[a] # None => db'.ledgers[a].period \in Nat
      BY <1>1, LedgerFields
    <2> QED
      BY <1>3, <2>3, <2>4 DEF Accounts, LedgersCurrent
  <1>5. Accounts(db', now', sink'.traffic)
    <2>1. CASE \/ sink' = sink \/ EnqueueAccess
               \/ \E a \in Authorizations : EnqueueStatus(a)
      <3>1. sink'.traffic = sink.traffic
        BY <1>1, <2>1 DEF EnqueueAccess, EnqueueStatus, Sink
      <3> QED
        BY <1>4, <3>1
    <2>2. ASSUME NEW t \in op.left, EnqueueTraffic(t)
          PROVE  Accounts(db', now', sink'.traffic)
      <3>1. /\ op.pc = "enqueue" /\ db' = db
            /\ sink' = [sink EXCEPT !.traffic[<<t.authorization, t.period>>] = t]
        BY <2>2 DEF EnqueueTraffic
      <3>2. t \in Traffic /\ Held(db, t)
        BY <3>1 DEF IInv, OpOK, AccountInv, QueueOK
      <3>3. sink'.traffic = [sink.traffic EXCEPT ![<<t.authorization, t.period>>] = t]
        BY <1>1, <3>1 DEF Sink
      <3>4. Accounts(db, now', sink.traffic)
        BY <1>4, <3>1
      <3>5. Accounts(db, now', [sink.traffic EXCEPT ![<<t.authorization, t.period>>] = t])
        BY <1>1, <1>2, <3>2, <3>4, ReportedKept
      <3> QED
        BY <3>1, <3>3, <3>5
    <2> QED
      BY <2>1, <2>2, SinkSteps
  <1>6. QueueOK(op', db')
    BY QueueSteps
  <1> QED
    BY <1>5, <1>6
    DEF AccountInv, Accounts, LedgersCurrent, PendingPast, SentPrecedes, Past, Reached, Gone,
        Held, Authorized, Policies, QueueOK

\* As long as the center does not give back an authorization it has taken away, the traffic
\* snapshots of a period are queued in the order of their revisions, and a later one counts
\* more bytes: over period ends, crashes between the queue and Store.MarkTrafficQueued, and
\* traffic that waits while its authorization goes.  (A ledger of an authorization that
\* comes back within the period begins again at revision 1.)
THEOREM TrafficInOrder ==
  ASSUME AuthorizationsDoNotReturn
  PROVE  Spec => RevisionsGrow
  <1> DEFINE Grows == \A x \in DOMAIN sink.traffic :
                        LET old == sink.traffic[x]
                            new == sink'.traffic[x]
                        IN  old # None /\ new # old
                              => new.revision > old.revision /\ new.bytes > old.bytes
  <1>1. AccountInv /\ IInv /\ IInv' /\ [Next]_vars => AccountInv'
    BY AccountStep
  <1>2. AccountInv /\ IInv /\ [Next]_vars => [Grows]_vars
    <2> SUFFICES ASSUME AccountInv, IInv, [Next]_vars, NEW x \in DOMAIN sink.traffic,
                        sink.traffic[x] # None, sink'.traffic[x] # sink.traffic[x]
                 PROVE  /\ sink'.traffic[x].revision > sink.traffic[x].revision
                        /\ sink'.traffic[x].bytes > sink.traffic[x].bytes
      OBVIOUS
    <2>1. sink \in Sink /\ sink.traffic \in [Authorizations \X Periods -> Or(Traffic)]
      BY DEF IInv, TypeOK, Sink
    <2>2. sink'.traffic = sink.traffic \/ \E t \in op.left : EnqueueTraffic(t)
      BY <2>1, SinkSteps DEF EnqueueAccess, EnqueueStatus, Sink
    <2>3. PICK t \in op.left : EnqueueTraffic(t)
      BY <2>2
    <2>4. op.pc = "enqueue" /\ sink' = [sink EXCEPT !.traffic[<<t.authorization, t.period>>] = t]
      BY <2>3 DEF EnqueueTraffic
    <2>5. t \in Traffic /\ Held(db, t)
      BY <2>3, <2>4 DEF IInv, OpOK, AccountInv, QueueOK
    <2>6. sink'.traffic = [sink.traffic EXCEPT ![<<t.authorization, t.period>>] = t]
      BY <2>1, <2>4 DEF Sink
    <2>7. x = <<t.authorization, t.period>> /\ sink'.traffic[x] = t
      BY <2>1, <2>6
    <2>8. t.authorization \in Authorizations /\ t.period \in Periods
      BY <2>1, <2>7
    <2>9. Precedes(sink.traffic[x], t)
      BY <2>5, <2>7, <2>8 DEF AccountInv, Accounts, SentPrecedes
    <2>10. sink.traffic[x] \in Traffic
      BY <2>1 DEF Or
    <2> QED
      BY <2>5, <2>7, <2>9, <2>10 DEF Precedes, Traffic
  <1> QED
    BY <1>1, <1>2, AccountInit, Invariance, PTL DEF Spec, RevisionsGrow

-----------------------------------------------------------------------------
(* Sums over finite sets, by induction: a set of subsets has a minimal      *)
(* element.                                                                *)

Chosen(T) == CHOOSE x \in T : TRUE

\* h is the function that SumFunctionOnSet defines recursively.
Sums(h, f, S) ==
  h = [T \in SUBSET S |-> IF T = {} THEN 0 ELSE f[Chosen(T)] + h[T \ {Chosen(T)}]]

LEMMA Minimal ==
  ASSUME NEW S, IsFiniteSet(S), NEW U \in SUBSET SUBSET S, U # {}
  PROVE  \E T \in U : \A V \in U : V \subseteq T => V = T
  <1> DEFINE R == StrictSubsetOrdering(S)
  <1>1. IsWellFoundedOn(R, SUBSET S)
    BY FS_StrictSubsetOrderingWellFounded, FS_FiniteSubsetsOfFinite
  <1> HIDE DEF R
  <1>2. U \subseteq SUBSET S
    OBVIOUS
  <1>3. \E T \in U : \A V \in U : ~ (<<V, T>> \in R)
    BY <1>1, <1>2, WFMin
  <1>4. PICK T \in U : \A V \in U : ~ (<<V, T>> \in R)
    BY <1>3
  <1>5. \A V \in U : V \subseteq T /\ V # T => <<V, T>> \in R
    BY DEF R, StrictSubsetOrdering
  <1>6. \A V \in U : V \subseteq T => V = T
    BY <1>4, <1>5
  <1> QED
    BY <1>4, <1>6

LEMMA SumsFacts ==
  ASSUME NEW S, NEW f, NEW h, Sums(h, f, S)
  PROVE  /\ h[{}] = 0
         /\ \A T \in SUBSET S : T # {} => /\ Chosen(T) \in T
                                          /\ h[T] = f[Chosen(T)] + h[T \ {Chosen(T)}]
  <1>1. \A T \in SUBSET S : h[T] = IF T = {} THEN 0 ELSE f[Chosen(T)] + h[T \ {Chosen(T)}]
    BY DEF Sums
  <1>2. \A T : T # {} => Chosen(T) \in T
    BY DEF Chosen
  <1> QED
    BY <1>1, <1>2

\* Functions that agree have the same sums.
LEMMA SumsAgree ==
  ASSUME NEW S, IsFiniteSet(S), NEW R, NEW f, NEW g, NEW h, NEW i,
         Sums(h, f, S), Sums(i, g, R), S \subseteq R, \A x \in S : f[x] = g[x]
  PROVE  \A T \in SUBSET S : h[T] = i[T]
  <1> DEFINE Bad == {T \in SUBSET S : h[T] # i[T]}
  <1> SUFFICES ASSUME Bad # {} PROVE FALSE
    OBVIOUS
  <1>1. PICK T \in Bad : \A V \in Bad : V \subseteq T => V = T
    <2>1. Bad \in SUBSET SUBSET S
      OBVIOUS
    <2> HIDE DEF Bad
    <2> QED
      BY <2>1, Minimal
  <1>2. T \in SUBSET S /\ T \in SUBSET R /\ h[T] # i[T]
    OBVIOUS
  <1>3. T # {}
    BY <1>2, SumsFacts
  <1> DEFINE V == T \ {Chosen(T)}
  <1>4. /\ Chosen(T) \in T /\ h[T] = f[Chosen(T)] + h[V]
        /\ i[T] = g[Chosen(T)] + i[V]
    BY <1>2, <1>3, SumsFacts
  <1>5. h[V] = i[V]
    BY <1>1, <1>2, <1>4
  <1>6. f[Chosen(T)] = g[Chosen(T)]
    BY <1>2, <1>4
  <1> QED
    BY <1>2, <1>4, <1>5, <1>6

LEMMA SumsExist ==
  ASSUME NEW S, IsFiniteSet(S), NEW f
  PROVE  \E h : Sums(h, f, S)
  <1> DEFINE Bad == {T \in SUBSET S : ~ \E h : Sums(h, f, T)}
  <1> SUFFICES ASSUME Bad # {} PROVE FALSE
    OBVIOUS
  <1>1. PICK T \in Bad : \A V \in Bad : V \subseteq T => V = T
    <2>1. Bad \in SUBSET SUBSET S
      OBVIOUS
    <2> HIDE DEF Bad
    <2> QED
      BY <2>1, Minimal
  <1>2. T \in SUBSET S /\ ~ \E h : Sums(h, f, T)
    OBVIOUS
  <1>3. \A V \in SUBSET T : V # T => \E h : Sums(h, f, V)
    BY <1>1, <1>2
  <1> DEFINE s(V) == CHOOSE h : Sums(h, f, V)
             top == IF T = {} THEN 0 ELSE f[Chosen(T)] + s(T \ {Chosen(T)})[T \ {Chosen(T)}]
             g == [V \in SUBSET T |-> IF V = T THEN top ELSE s(V)[V]]
  <1>4. \A V \in SUBSET T : V # T => Sums(s(V), f, V)
    BY <1>3
  <1> HIDE DEF s
  <1>5. ASSUME NEW V \in SUBSET T
        PROVE  g[V] = IF V = {} THEN 0 ELSE f[Chosen(V)] + g[V \ {Chosen(V)}]
    <2> DEFINE c == Chosen(V)
               W == V \ {c}
    <2>1. CASE V = {}
      <3>1. CASE V = T
        BY <2>1, <3>1
      <3>2. CASE V # T
        BY <2>1, <3>2, <1>4, SumsFacts
      <3> QED
        BY <3>1, <3>2
    <2>2. CASE V # {}
      <3>1. c \in V
        BY <2>2 DEF Chosen
      <3>2. W \in SUBSET V /\ W \in SUBSET T /\ W # T /\ W # V
        BY <3>1
      <3>3. g[W] = s(W)[W]
        BY <3>2
      <3>4. CASE V = T
        <4>1. g[V] = top
          BY <3>4
        <4>2. top = f[c] + s(W)[W]
          BY <2>2, <3>4
        <4> HIDE DEF g, top, c, W
        <4> QED
          BY <2>2, <3>3, <4>1, <4>2 DEF c, W
      <3>5. CASE V # T
        <4>1. g[V] = s(V)[V]
          BY <3>5
        <4>2. Sums(s(V), f, V) /\ Sums(s(W), f, W)
          BY <1>4, <3>2, <3>5
        <4>3. s(V)[V] = f[c] + s(V)[W]
          BY <2>2, <4>2, SumsFacts
        <4>4. IsFiniteSet(W)
          BY <1>2, <3>2, FS_Subset
        <4>5. s(V)[W] = s(W)[W]
          <5> HIDE DEF W
          <5> QED
            BY <3>2, <4>2, <4>4, SumsAgree
        <4> HIDE DEF g, c, W
        <4> QED
          BY <2>2, <3>3, <4>1, <4>3, <4>5 DEF c, W
      <3> QED
        BY <3>4, <3>5
    <2> QED
      BY <2>1, <2>2
  <1>6. Sums(g, f, T)
    <2>1. g = [V \in SUBSET T |-> g[V]]
      OBVIOUS
    <2> HIDE DEF g
    <2> QED
      BY <1>5, <2>1 DEF Sums
  <1> QED
    BY <1>2, <1>6

LEMMA SumIsSum ==
  ASSUME NEW S, IsFiniteSet(S), NEW f
  PROVE  \E h : Sums(h, f, S) /\ SumFunctionOnSet(f, S) = h[S]
  <1> DEFINE h == CHOOSE i : Sums(i, f, S)
  <1>1. Sums(h, f, S)
    BY SumsExist
  <1>2. SumFunctionOnSet(f, S) = h[S]
    BY DEF SumFunctionOnSet, FoldFunctionOnSet, MapThenFoldSet, Sums, Chosen
  <1> QED
    BY <1>1, <1>2

LEMMA SumsType ==
  ASSUME NEW S, IsFiniteSet(S), NEW f \in [S -> Int], NEW h, Sums(h, f, S)
  PROVE  \A T \in SUBSET S : h[T] \in Int
  <1> DEFINE Bad == {T \in SUBSET S : h[T] \notin Int}
  <1> SUFFICES ASSUME Bad # {} PROVE FALSE
    OBVIOUS
  <1>1. PICK T \in Bad : \A V \in Bad : V \subseteq T => V = T
    <2>1. Bad \in SUBSET SUBSET S
      OBVIOUS
    <2> HIDE DEF Bad
    <2> QED
      BY <2>1, Minimal
  <1>2. T \in SUBSET S /\ h[T] \notin Int
    OBVIOUS
  <1>3. T # {}
    <2>1. h[{}] = 0
      BY SumsFacts
    <2> QED
      BY <1>2, <2>1
  <1>4. Chosen(T) \in T /\ h[T] = f[Chosen(T)] + h[T \ {Chosen(T)}]
    BY <1>2, <1>3, SumsFacts
  <1>5. h[T \ {Chosen(T)}] \in Int
    BY <1>1, <1>2, <1>4
  <1>6. f[Chosen(T)] \in Int
    BY <1>2, <1>4
  <1> QED
    BY <1>2, <1>4, <1>5, <1>6

\* The order of the summands does not matter.
LEMMA SumsSplit ==
  ASSUME NEW S, IsFiniteSet(S), NEW f \in [S -> Int], NEW h, Sums(h, f, S)
  PROVE  \A T \in SUBSET S : \A x \in T : h[T] = f[x] + h[T \ {x}]
  <1> DEFINE Bad == {T \in SUBSET S : \E x \in T : h[T] # f[x] + h[T \ {x}]}
  <1> SUFFICES ASSUME Bad # {} PROVE FALSE
    OBVIOUS
  <1>1. PICK T \in Bad : \A V \in Bad : V \subseteq T => V = T
    <2>1. Bad \in SUBSET SUBSET S
      OBVIOUS
    <2> HIDE DEF Bad
    <2> QED
      BY <2>1, Minimal
  <1>2. T \in SUBSET S
    OBVIOUS
  <1>3. PICK x \in T : h[T] # f[x] + h[T \ {x}]
    OBVIOUS
  <1>4. \A V \in SUBSET S : V \subseteq T /\ V # T => \A y \in V : h[V] = f[y] + h[V \ {y}]
    BY <1>1
  <1> HIDE DEF Bad
  <1> DEFINE c == Chosen(T)
  <1>5. c \in T /\ h[T] = f[c] + h[T \ {c}]
    <2>1. T # {}
      BY <1>3
    <2> QED
      BY <1>2, <2>1, SumsFacts
  <1>6. c # x
    BY <1>3, <1>5
  <1> HIDE DEF c
  <1>7. h[T \ {c}] = f[x] + h[(T \ {c}) \ {x}]
    BY <1>2, <1>3, <1>4, <1>5, <1>6
  <1>8. h[T \ {x}] = f[c] + h[(T \ {x}) \ {c}]
    BY <1>2, <1>3, <1>4, <1>5, <1>6
  <1>9. (T \ {x}) \ {c} = (T \ {c}) \ {x}
    OBVIOUS
  <1>10. f[c] \in Int /\ f[x] \in Int /\ h[(T \ {c}) \ {x}] \in Int
    BY <1>2, <1>3, <1>5, SumsType
  <1>11. \A i, j, k \in Int : i + (j + k) = j + (i + k)
    OBVIOUS
  <1>12. h[T] = f[c] + (f[x] + h[(T \ {c}) \ {x}])
    BY <1>5, <1>7
  <1>13. h[T \ {x}] = f[c] + h[(T \ {c}) \ {x}]
    BY <1>8, <1>9
  <1> QED
    BY <1>3, <1>10, <1>11, <1>12, <1>13

LEMMA SumType ==
  ASSUME NEW S, IsFiniteSet(S), NEW f \in [S -> Int]
  PROVE  SumFunction(f) \in Int
  <1>1. PICK h : Sums(h, f, S) /\ SumFunctionOnSet(f, S) = h[S]
    BY SumIsSum
  <1>2. h[S] \in Int
    BY <1>1, SumsType
  <1> QED
    BY <1>1, <1>2 DEF SumFunction

\* The sum is one summand and the sum of the others.
LEMMA SumSplit ==
  ASSUME NEW S, IsFiniteSet(S), NEW f \in [S -> Int], NEW x \in S
  PROVE  /\ SumFunctionOnSet(f, S \ {x}) \in Int
         /\ SumFunction(f) = f[x] + SumFunctionOnSet(f, S \ {x})
  <1> DEFINE R == S \ {x}
  <1>1. PICK h : Sums(h, f, S) /\ SumFunctionOnSet(f, S) = h[S]
    BY SumIsSum
  <1>2. IsFiniteSet(R) /\ R \in SUBSET S
    BY FS_Subset
  <1>3. PICK i : Sums(i, f, R) /\ SumFunctionOnSet(f, R) = i[R]
    BY <1>2, SumIsSum
  <1>4. i[R] = h[R]
    <2> HIDE DEF R
    <2> QED
      BY <1>1, <1>2, <1>3, SumsAgree
  <1>5. h[S] = f[x] + h[R]
    BY <1>1, SumsSplit
  <1>6. h[R] \in Int
    BY <1>1, <1>2, SumsType
  <1> HIDE DEF R
  <1> QED
    BY <1>1, <1>3, <1>4, <1>5, <1>6 DEF SumFunction, R

LEMMA SumSame ==
  ASSUME NEW S, IsFiniteSet(S), NEW f, NEW g, \A x \in S : f[x] = g[x]
  PROVE  SumFunctionOnSet(f, S) = SumFunctionOnSet(g, S)
  <1>1. PICK h : Sums(h, f, S) /\ SumFunctionOnSet(f, S) = h[S]
    BY SumIsSum
  <1>2. PICK i : Sums(i, g, S) /\ SumFunctionOnSet(g, S) = i[S]
    BY SumIsSum
  <1>3. h[S] = i[S]
    BY <1>1, <1>2, SumsAgree
  <1> QED
    BY <1>1, <1>2, <1>3

\* One summand changes, and the sum by as much.
LEMMA SumChanges ==
  ASSUME NEW S, IsFiniteSet(S), NEW f \in [S -> Int], NEW g \in [S -> Int],
         NEW x \in S, \A y \in S \ {x} : f[y] = g[y]
  PROVE  SumFunction(g) = SumFunction(f) + (g[x] - f[x])
  <1>1. SumFunctionOnSet(f, S \ {x}) = SumFunctionOnSet(g, S \ {x})
    BY FS_Subset, SumSame
  <1>2. /\ SumFunctionOnSet(f, S \ {x}) \in Int
        /\ SumFunction(f) = f[x] + SumFunctionOnSet(f, S \ {x})
    BY SumSplit
  <1>3. SumFunction(g) = g[x] + SumFunctionOnSet(g, S \ {x})
    BY SumSplit
  <1>4. f[x] \in Int /\ g[x] \in Int
    OBVIOUS
  <1> QED
    BY <1>1, <1>2, <1>3, <1>4

LEMMA SumOfZeros ==
  ASSUME NEW S, IsFiniteSet(S), NEW f, \A x \in S : f[x] = 0
  PROVE  SumFunctionOnSet(f, S) = 0
  <1>1. PICK h : Sums(h, f, S) /\ SumFunctionOnSet(f, S) = h[S]
    BY SumIsSum
  <1> DEFINE Bad == {T \in SUBSET S : h[T] # 0}
  <1>2. Bad = {}
    <2> SUFFICES ASSUME Bad # {} PROVE FALSE
      OBVIOUS
    <2>1. PICK T \in Bad : \A V \in Bad : V \subseteq T => V = T
      <3>1. Bad \in SUBSET SUBSET S
        OBVIOUS
      <3> HIDE DEF Bad
      <3> QED
        BY <3>1, Minimal
    <2>2. T \in SUBSET S /\ h[T] # 0
      OBVIOUS
    <2>3. T # {}
      BY <1>1, <2>2, SumsFacts
    <2>4. Chosen(T) \in T /\ h[T] = f[Chosen(T)] + h[T \ {Chosen(T)}]
      BY <1>1, <2>2, <2>3, SumsFacts
    <2>5. h[T \ {Chosen(T)}] = 0
      BY <2>1, <2>2, <2>4
    <2> QED
      BY <2>2, <2>4, <2>5
  <1> QED
    BY <1>1, <1>2

LEMMA SumOfOne ==
  ASSUME NEW x, NEW f, f[x] \in Int
  PROVE  SumFunctionOnSet(f, {x}) = f[x]
  <1>1. PICK h : Sums(h, f, {x}) /\ SumFunctionOnSet(f, {x}) = h[{x}]
    BY SumIsSum, FS_Singleton
  <1>2. Chosen({x}) = x
    BY DEF Chosen
  <1>3. h[{}] = 0 /\ h[{x}] = f[x] + h[{x} \ {x}]
    BY <1>1, <1>2, SumsFacts
  <1>4. {x} \ {x} = {}
    OBVIOUS
  <1> QED
    BY <1>1, <1>3, <1>4

-----------------------------------------------------------------------------
(* Bytes.                                                                  *)

\* Counted, of any database and any reports.
Waiting(d, a, period) == {t \in d.pending : t.authorization = a /\ t.period = period}

CountedIn(d, sent, a, period) ==
  IF d.ledgers[a] # None /\ d.ledgers[a].period = period THEN d.ledgers[a].bytes
  ELSE IF Waiting(d, a, period) # {} THEN SumFunction([t \in Waiting(d, a, period) |-> t.bytes])
  ELSE IF sent[<<a, period>>] # None THEN sent[<<a, period>>].bytes
  ELSE 0

LEMMA CountedIsCountedIn ==
  ASSUME NEW a, NEW period
  PROVE  /\ Counted(a, period) = CountedIn(db, sink.traffic, a, period)
         /\ Counted(a, period)' = CountedIn(db', sink'.traffic, a, period)
  BY DEF Counted, CountedIn, Waiting

\* A ledger counts for its period, a pending snapshot for its own, and else the last report.
LEMMA PendingCounts ==
  ASSUME NEW d \in Database, NEW time \in Nat, NEW sent, Accounts(d, time, sent),
         NEW t \in d.pending
  PROVE  /\ t.authorization \in Authorizations /\ t.period \in Nat /\ t.bytes \in Nat
         /\ d.ledgers[t.authorization] # None => t.period < d.ledgers[t.authorization].period
         /\ Waiting(d, t.authorization, t.period) = {t}
         /\ CountedIn(d, sent, t.authorization, t.period) = t.bytes
  <1> DEFINE a == t.authorization
             w == Waiting(d, a, t.period)
  <1>1. PendingPast(d) /\ LedgersCurrent(d, time)
    BY DEF Accounts
  <1>2. a \in Authorizations /\ t.period \in Nat /\ t.bytes \in Nat
    BY DEF Database, Traffic
  <1>3. d.ledgers[a] # None => t.period < d.ledgers[a].period /\ d.ledgers[a].period \in Nat
    <2> SUFFICES ASSUME d.ledgers[a] # None
                 PROVE  t.period < d.ledgers[a].period /\ d.ledgers[a].period \in Nat
      OBVIOUS
    <2>1. ~Gone(d, a)
      BY <1>1, <1>2, NotGone DEF LedgersCurrent
    <2> QED
      BY <1>1, <1>2, <2>1, LedgerFields DEF PendingPast, Past
  <1>4. w = {t}
    BY <1>1 DEF PendingPast, Waiting
  <1>5. SumFunction([u \in {t} |-> u.bytes]) = t.bytes
    <2> DEFINE f == [u \in {t} |-> u.bytes]
    <2>1. f[t] = t.bytes /\ DOMAIN f = {t}
      OBVIOUS
    <2> HIDE DEF f
    <2>2. SumFunctionOnSet(f, {t}) = t.bytes
      BY <1>2, <2>1, SumOfOne
    <2> QED
      BY <2>1, <2>2 DEF SumFunction, f
  <1>6. ~(d.ledgers[a] # None /\ d.ledgers[a].period = t.period)
    BY <1>2, <1>3
  <1>7. CountedIn(d, sent, a, t.period) = t.bytes
    BY <1>4, <1>5, <1>6 DEF CountedIn
  <1> QED
    BY <1>2, <1>3, <1>4, <1>7

LEMMA CountedType ==
  ASSUME NEW d \in Database, NEW time \in Nat,
         NEW sent \in [Authorizations \X Periods -> Or(Traffic)], Accounts(d, time, sent),
         NEW a \in Authorizations, NEW period \in Periods
  PROVE  CountedIn(d, sent, a, period) \in Nat
  <1>1. CASE d.ledgers[a] # None /\ d.ledgers[a].period = period
    BY <1>1, LedgerFields DEF CountedIn
  <1>2. CASE ~(d.ledgers[a] # None /\ d.ledgers[a].period = period)
             /\ Waiting(d, a, period) # {}
    <2>1. PICK t \in d.pending : t.authorization = a /\ t.period = period
      BY <1>2 DEF Waiting
    <2> QED
      BY <2>1, PendingCounts
  <1>3. CASE ~(d.ledgers[a] # None /\ d.ledgers[a].period = period)
             /\ Waiting(d, a, period) = {}
    <2>1. sent[<<a, period>>] # None => sent[<<a, period>>].bytes \in Nat
      BY DEF Or, Traffic
    <2> QED
      BY <1>3, <2>1 DEF CountedIn
  <1> QED
    BY <1>1, <1>2, <1>3

\* A ledger that is queued is what was reported last.
LedgersReported(d, sent) ==
  \A a \in Authorizations : d.ledgers[a] # None =>
    /\ d.ledgers[a].queued <= d.ledgers[a].revision
    /\ ~Unqueued(d.ledgers[a])
         => sent[<<a, d.ledgers[a].period>>] = TrafficOf(a, d.ledgers[a])

\* Nothing of what d counts for a is lost in r, and gain comes to the ledger of a.
Booked(r, d, sent, a, gain) ==
  /\ gain \in Nat
  /\ \A t \in d.pending :
       t.authorization = a => t \in r.pending \/ sent[<<a, t.period>>] = t
  /\ Unqueued(d.ledgers[a]) =>
       \/ r.ledgers[a] # None /\ r.ledgers[a].period = d.ledgers[a].period
       \/ TrafficOf(a, d.ledgers[a]) \in r.pending
  /\ r.ledgers[a] = None => gain = 0
  /\ r.ledgers[a] # None =>
       r.ledgers[a].bytes = IF d.ledgers[a] # None /\ d.ledgers[a].period = r.ledgers[a].period
                            THEN d.ledgers[a].bytes + gain ELSE gain
  /\ r.ledgers[a] # None =>
       \/ r.ledgers[a] = d.ledgers[a]
       \/ Unqueued(r.ledgers[a])
       \/ /\ r.ledgers[a].queued = r.ledgers[a].revision
          /\ sent[<<a, r.ledgers[a].period>>] = TrafficOf(a, r.ledgers[a])

GainIn(ledger, period, gain) == IF ledger # None /\ ledger.period = period THEN gain ELSE 0

\* What a period counts stays as it is, but for the period of the ledger.
LEMMA BookedCounts ==
  ASSUME NEW d \in Database, NEW r \in Database, NEW time \in Nat, Accounted(r, d, time),
         NEW sent \in [Authorizations \X Periods -> Or(Traffic)],
         Accounts(d, time, sent), Accounts(r, time, sent), LedgersReported(d, sent),
         NEW a \in Authorizations, NEW gain \in Nat, Booked(r, d, sent, a, gain),
         NEW period \in Periods
  PROVE  CountedIn(r, sent, a, period)
           = CountedIn(d, sent, a, period) + GainIn(r.ledgers[a], period, gain)
  <1> DEFINE old == d.ledgers[a]
             new == r.ledgers[a]
             before == CountedIn(d, sent, a, period)
             after == CountedIn(r, sent, a, period)
             x == sent[<<a, period>>]
  <1>1. before \in Nat /\ period \in Nat
    BY CountedType DEF Periods
  <1>2. \A t \in Waiting(r, a, period) :
          t \in Waiting(d, a, period)
          \/ (old # None /\ old.period = period /\ t = TrafficOf(a, old))
    <2> SUFFICES ASSUME NEW t \in r.pending, t.authorization = a, t.period = period,
                        t \notin d.pending
                 PROVE  old # None /\ old.period = period /\ t = TrafficOf(a, old)
      BY DEF Waiting
    <2>1. PICK b \in Authorizations : d.ledgers[b] # None /\ t = TrafficOf(b, d.ledgers[b])
      BY DEF Accounted
    <2>2. b = a /\ old.period = period
      BY <2>1, LedgerFields
    <2> QED
      BY <2>1, <2>2
  <1>3. \A t \in Waiting(d, a, period) : t \in r.pending \/ x = t
    BY DEF Booked, Waiting
  \* A new ledger begins in a period that counts nothing yet.
  <1>4. CASE new # None /\ new.period = period
    <2>1. after = new.bytes
      BY <1>4 DEF CountedIn
    <2>2. CASE old # None /\ old.period = period
      <3>1. before = old.bytes
        BY <2>2 DEF CountedIn
      <3>2. new.bytes = old.bytes + gain
        BY <1>4, <2>2 DEF Booked
      <3> QED
        BY <1>4, <2>1, <3>1, <3>2 DEF GainIn
    <2>3. CASE ~(old # None /\ old.period = period)
      <3>1. new.bytes = gain
        BY <1>4, <2>3 DEF Booked
      <3>2. Renewed(r, d, a, time)
        <4>1. ~Continues(old, new)
          BY <1>4, <2>3 DEF Continues
        <4>2. ~Dropped(r, a)
          BY <1>4 DEF Dropped
        <4> QED
          BY <4>1, <4>2 DEF Accounted
      <3>3. a \in Authorized(d) /\ period = PeriodOf(time)
        BY <1>4, <3>2 DEF Renewed
      <3>4. ~Gone(d, a) /\ (old # None => old.period < period)
        <4>1. ~Gone(d, a)
          BY <3>3, NotGone
        <4>2. old # None => old.period <= period /\ old.period \in Nat
          BY <3>3, LedgerFields DEF Accounts, LedgersCurrent
        <4> QED
          BY <1>1, <2>3, <4>1, <4>2
      <3>5. Waiting(d, a, period) = {}
        <4> SUFFICES ASSUME NEW t \in d.pending, t.authorization = a, t.period = period
                     PROVE  FALSE
          BY DEF Waiting
        <4>1. old # None /\ period < old.period
          BY <3>4 DEF Accounts, PendingPast, Past
        <4>2. old.period \in Nat
          BY <4>1, LedgerFields
        <4> QED
          BY <1>1, <3>4, <4>1, <4>2
      <3>6. x = None
        <4> SUFFICES ASSUME x # None PROVE FALSE
          OBVIOUS
        <4>1. old # None /\ period <= old.period
          BY <3>4 DEF Accounts, SentPrecedes, Reached
        <4>2. old.period \in Nat
          BY <4>1, LedgerFields
        <4> QED
          BY <1>1, <3>4, <4>1, <4>2
      <3>7. before = 0
        BY <2>3, <3>5, <3>6 DEF CountedIn
      <3> QED
        BY <1>4, <2>1, <3>1, <3>7 DEF GainIn
    <2> QED
      BY <2>2, <2>3
  <1>5. CASE ~(new # None /\ new.period = period)
    <2> SUFFICES after = before
      BY <1>1, <1>5 DEF GainIn
    <2>1. CASE old # None /\ old.period = period
      <3>1. /\ before = old.bytes
            /\ TrafficOf(a, old) \in Traffic /\ TrafficOf(a, old).authorization = a
            /\ TrafficOf(a, old).period = period /\ TrafficOf(a, old).bytes = old.bytes
        BY <2>1, LedgerFields DEF CountedIn
      <3>2. ASSUME NEW t \in Waiting(r, a, period)
            PROVE  after = before
        <4>1. t \in r.pending /\ t.authorization = a /\ t.period = period
          BY <3>2 DEF Waiting
        <4>2. t = TrafficOf(a, old)
          <5>1. t \notin d.pending
            BY <1>1, <2>1, <4>1, PendingCounts
          <5> QED
            BY <1>2, <5>1 DEF Waiting
        <4>3. after = t.bytes
          BY <4>1, PendingCounts
        <4> QED
          BY <3>1, <4>2, <4>3
      <3>3. CASE Waiting(r, a, period) = {}
        <4>1. TrafficOf(a, old) \notin r.pending
          BY <3>1, <3>3 DEF Waiting
        <4>2. ~Unqueued(old)
          BY <1>5, <2>1, <4>1 DEF Booked
        <4>3. x = TrafficOf(a, old)
          BY <2>1, <4>2 DEF LedgersReported
        <4>4. x # None
          BY <3>1, <4>3, NoneAssumption
        <4>5. after = x.bytes
          BY <1>5, <3>3, <4>4 DEF CountedIn
        <4> QED
          BY <3>1, <4>3, <4>5
      <3> QED
        BY <3>2, <3>3
    <2>2. CASE ~(old # None /\ old.period = period)
      <3>1. Waiting(r, a, period) \subseteq Waiting(d, a, period)
        BY <1>2, <2>2
      <3>2. CASE Waiting(d, a, period) = {}
        <4>1. Waiting(r, a, period) = {}
          BY <3>1, <3>2
        <4> QED
          BY <1>5, <2>2, <3>2, <4>1 DEF CountedIn
      <3>3. ASSUME NEW t \in Waiting(d, a, period)
            PROVE  after = before
        <4>1. t \in d.pending /\ t.authorization = a /\ t.period = period
          BY <3>3 DEF Waiting
        <4>2. before = t.bytes /\ Waiting(d, a, period) = {t}
          BY <4>1, PendingCounts
        <4>3. CASE t \in r.pending
          <5>1. after = t.bytes
            BY <4>1, <4>3, PendingCounts
          <5> QED
            BY <4>2, <5>1
        <4>4. CASE t \notin r.pending
          <5>1. x = t
            BY <1>3, <3>3, <4>4
          <5>2. t \in Traffic
            BY <4>1 DEF Database
          <5>3. x # None
            BY <5>1, <5>2, NoneAssumption
          <5>4. Waiting(r, a, period) = {}
            BY <3>1, <4>2, <4>4 DEF Waiting
          <5>5. after = x.bytes
            BY <1>5, <5>3, <5>4 DEF CountedIn
          <5> QED
            BY <4>2, <5>1, <5>5
        <4> QED
          BY <4>3, <4>4
      <3> QED
        BY <3>2, <3>3
    <2> QED
      BY <2>1, <2>2
  <1> QED
    BY <1>4, <1>5

-----------------------------------------------------------------------------
(* What each transaction books.                                            *)

LEMMA SameBooked ==
  ASSUME NEW d \in Database, NEW r, r.ledgers = d.ledgers, r.pending = d.pending,
         NEW sent, NEW a \in Authorizations
  PROVE  Booked(r, d, sent, a, 0)
  <1>1. d.ledgers[a] # None => d.ledgers[a].bytes + 0 = d.ledgers[a].bytes
    BY LedgerFields
  <1> QED
    BY <1>1 DEF Booked, Unqueued

\* preservePendingTraffic replaces nothing that is pending, and adds what is not queued.
LEMMA PreservedKeeps ==
  ASSUME NEW d \in Database, NEW time \in Nat, NEW sent, Accounts(d, time, sent),
         NEW A \in SUBSET Authorizations
  PROVE  /\ d.pending \subseteq Preserved(d, A)
         /\ \A a \in A : Unqueued(d.ledgers[a]) => TrafficOf(a, d.ledgers[a]) \in Preserved(d, A)
  <1> DEFINE new == {TrafficOf(a, d.ledgers[a]) : a \in {b \in A : Unqueued(d.ledgers[b])}}
  <1>1. ASSUME NEW old \in d.pending, NEW t \in new,
               t.authorization = old.authorization, t.period = old.period
        PROVE  FALSE
    <2>1. PICK a \in A : d.ledgers[a] # None /\ t = TrafficOf(a, d.ledgers[a])
      BY DEF Unqueued
    <2>2. t.authorization = a /\ t.period = d.ledgers[a].period /\ t.period \in Nat
      BY <2>1, LedgerFields
    <2>3. old.period < d.ledgers[a].period
      BY <1>1, <2>1, <2>2, PendingCounts
    <2> QED
      BY <1>1, <2>2, <2>3
  <1>2. Preserved(d, A) = {old \in d.pending : ~ \E t \in new : /\ t.authorization = old.authorization
                                                                /\ t.period = old.period} \cup new
    BY DEF Preserved
  <1>3. \A a \in A : Unqueued(d.ledgers[a]) => TrafficOf(a, d.ledgers[a]) \in new
    OBVIOUS
  <1> HIDE DEF new
  <1> QED
    BY <1>1, <1>2, <1>3

LEMMA EnsuredBooked ==
  ASSUME NEW d \in Database, NEW time \in Nat, NEW sent, Accounts(d, time, sent),
         NEW A \in SUBSET Authorizations, NEW r,
         r.ledgers = EnsureLedgers(d, A, time).ledgers,
         r.pending = EnsureLedgers(d, A, time).pending,
         NEW a \in Authorizations
  PROVE  Booked(r, d, sent, a, 0)
  <1> DEFINE ended == {b \in A : d.ledgers[b] # None /\ d.ledgers[b].period # PeriodOf(time)}
             fresh(b) == b \in ended \/ (b \in A /\ d.ledgers[b] = None)
             new == NewLedger(PeriodOf(time))
             pending == Preserved(d, ended)
             ledgers == [b \in Authorizations |-> IF fresh(b) THEN new ELSE d.ledgers[b]]
  <1>1. EnsureLedgers(d, A, time) = [d EXCEPT !.pending = pending, !.ledgers = ledgers]
    BY DEF EnsureLedgers
  <1>2. /\ d.pending \subseteq pending
        /\ \A b \in ended : Unqueued(d.ledgers[b]) => TrafficOf(b, d.ledgers[b]) \in pending
    <2>1. ended \in SUBSET Authorizations
      OBVIOUS
    <2> HIDE DEF ended
    <2> QED
      BY <2>1, PreservedKeeps
  <1>3. /\ new # None /\ new.period = PeriodOf(time) /\ new.bytes = 0
        /\ new.revision = 1 /\ new.queued = 0
    <2>1. new \in Ledger
      BY PeriodType DEF NewLedger, Ledger
    <2>2. new.period = PeriodOf(time) /\ new.bytes = 0 /\ new.revision = 1 /\ new.queued = 0
      BY DEF NewLedger
    <2> QED
      BY <2>1, <2>2, NoneAssumption
  <1>4. Unqueued(new)
    BY <1>3 DEF Unqueued
  <1> HIDE DEF new, pending
  <1>5. ledgers[a] = IF fresh(a) THEN new ELSE d.ledgers[a]
    OBVIOUS
  <1> HIDE DEF ledgers
  <1>6. r.ledgers = ledgers /\ r.pending = pending
    BY <1>1 DEF Database
  <1>7. \A t \in d.pending : t.authorization = a => t \in r.pending
    BY <1>2, <1>6
  <1>8. CASE fresh(a)
    <2>1. r.ledgers[a] = new
      BY <1>5, <1>6, <1>8
    <2>2. d.ledgers[a] # None => a \in ended /\ d.ledgers[a].period # PeriodOf(time)
      BY <1>8
    <2>3. Unqueued(d.ledgers[a]) => TrafficOf(a, d.ledgers[a]) \in r.pending
      BY <1>2, <1>6, <2>2 DEF Unqueued
    <2> HIDE DEF fresh, ended
    <2> QED
      BY <1>3, <1>4, <1>7, <2>1, <2>2, <2>3 DEF Booked
  <1>9. CASE ~fresh(a)
    <2>1. r.ledgers[a] = d.ledgers[a]
      BY <1>5, <1>6, <1>9
    <2>2. d.ledgers[a] # None => d.ledgers[a].bytes + 0 = d.ledgers[a].bytes
      BY LedgerFields
    <2> QED
      BY <1>7, <2>1, <2>2 DEF Booked, Unqueued
  <1> QED
    BY <1>8, <1>9

LEMMA CountersBooked ==
  ASSUME NEW d \in Database, NEW time \in Nat, NEW sent, Accounts(d, time, sent),
         LedgersReported(d, sent),
         NEW p \in Plugins, NEW epoch \in Nat, NEW read \in [Authorizations -> Nat],
         NEW a \in Authorizations
  PROVE  Booked(CountersApplied(d, p, epoch, read, time), d, sent, a,
                IF a \in Bound(d, p) THEN Delta(d, <<a, p>>, epoch, read[a]) ELSE 0)
  <1> DEFINE grown == Grown(d, p, epoch, read)
             delta == Delta(d, <<a, p>>, epoch, read[a])
             e == EnsureLedgers(d, grown, time)
             r == CountersApplied(d, p, epoch, read, time)
             gain == IF a \in Bound(d, p) THEN delta ELSE 0
  <1>1. grown \in SUBSET Authorizations /\ delta \in Nat
    BY GrownType
  <1>2. Booked(e, d, sent, a, 0)
    BY <1>1, EnsuredBooked
  <1>3. /\ r.pending = e.pending
        /\ \A b \in Authorizations : b \notin grown => r.ledgers[b] = e.ledgers[b]
        /\ \A b \in grown : /\ r.ledgers[b] \in Ledger /\ e.ledgers[b] \in Ledger
                             /\ r.ledgers[b].period = e.ledgers[b].period
                             /\ r.ledgers[b].queued = e.ledgers[b].queued
                             /\ r.ledgers[b].revision = e.ledgers[b].revision + 1
                             /\ r.ledgers[b].bytes > e.ledgers[b].bytes
    BY CountersAppliedFacts
  <1>4. a \in grown => r.ledgers[a].bytes = e.ledgers[a].bytes + delta
    <2> SUFFICES ASSUME a \in grown PROVE r.ledgers[a].bytes = e.ledgers[a].bytes + delta
      OBVIOUS
    <2> DEFINE counters == [k \in Keys |->
                 IF k[2] = p /\ k[1] \in Bound(d, p) THEN [epoch |-> epoch, bytes |-> read[k[1]]]
                                                      ELSE e.counters[k]]
               More(b) == Charged(e.ledgers[b], Delta(d, <<b, p>>, epoch, read[b]))
               ledgers == [b \in Authorizations |-> IF b \in grown THEN More(b) ELSE e.ledgers[b]]
    <2>1. r = [e EXCEPT !.counters = counters, !.ledgers = ledgers]
      BY DEF CountersApplied
    <2>2. ledgers[a] = Charged(e.ledgers[a], delta)
      OBVIOUS
    <2>3. e \in Database
      BY <1>1, EnsureLedgersFacts
    <2> HIDE DEF ledgers, counters, e
    <2>4. r.ledgers = ledgers
      BY <2>1, <2>3 DEF Database
    <2>5. e.ledgers[a] \in Ledger
      BY <1>3
    <2> HIDE DEF r, delta, grown
    <2>6. Charged(e.ledgers[a], delta).bytes = e.ledgers[a].bytes + delta
      BY <2>5 DEF Charged, Ledger
    <2> QED
      BY <2>2, <2>4, <2>6
  <1>5. a \notin grown => gain = 0
    <2>1. a \notin grown /\ a \in Bound(d, p) => ~(delta > 0)
      BY DEF Grown
    <2> HIDE DEF grown, delta
    <2> QED
      BY <1>1, <2>1
  <1>6. a \in grown => gain = delta
    BY DEF Grown
  <1> HIDE DEF grown, delta, e, r, gain
  <1>7. gain \in Nat
    BY <1>1 DEF gain
  <1>8. ASSUME a \notin grown
        PROVE  Booked(r, d, sent, a, gain)
    BY <1>2, <1>3, <1>5, <1>8 DEF Booked
  <1>9. ASSUME a \in grown
        PROVE  Booked(r, d, sent, a, gain)
    <2>1. e.ledgers[a] # None /\ r.ledgers[a] # None /\ e.ledgers[a].bytes \in Nat
      BY <1>3, <1>9, NoneAssumption DEF Ledger
    <2>2. Unqueued(r.ledgers[a])
      <3>1. e.ledgers[a].queued <= e.ledgers[a].revision
        <4>1. \/ e.ledgers[a] = d.ledgers[a] \/ Unqueued(e.ledgers[a])
              \/ e.ledgers[a].queued = e.ledgers[a].revision
          BY <1>2, <2>1 DEF Booked
        <4>3. d.ledgers[a] # None => d.ledgers[a].queued <= d.ledgers[a].revision
          BY DEF LedgersReported
        <4>2. e.ledgers[a].queued \in Nat /\ e.ledgers[a].revision \in Nat
          BY <1>3, <1>9 DEF Ledger
        <4> QED
          BY <2>1, <4>1, <4>2, <4>3 DEF Unqueued
      <3> QED
        BY <1>3, <1>9, <2>1, <3>1 DEF Unqueued, Ledger
    <2>3. r.ledgers[a].bytes = IF d.ledgers[a] # None /\ d.ledgers[a].period = r.ledgers[a].period
                               THEN d.ledgers[a].bytes + gain ELSE gain
      <3>1. e.ledgers[a].bytes = IF d.ledgers[a] # None /\ d.ledgers[a].period = e.ledgers[a].period
                                 THEN d.ledgers[a].bytes + 0 ELSE 0
        BY <1>2, <2>1 DEF Booked
      <3>2. d.ledgers[a] # None => d.ledgers[a].bytes \in Nat
        BY LedgerFields
      <3> QED
        BY <1>3, <1>4, <1>6, <1>7, <1>9, <3>1, <3>2
    <2>4. Unqueued(d.ledgers[a]) =>
            \/ r.ledgers[a] # None /\ r.ledgers[a].period = d.ledgers[a].period
            \/ TrafficOf(a, d.ledgers[a]) \in r.pending
      BY <1>2, <1>3, <1>9, <2>1 DEF Booked
    <2>5. \A t \in d.pending : t.authorization = a => t \in r.pending \/ sent[<<a, t.period>>] = t
      BY <1>2, <1>3 DEF Booked
    <2> QED
      BY <1>7, <2>1, <2>2, <2>3, <2>4, <2>5 DEF Booked
  <1> QED
    BY <1>8, <1>9 DEF gain, delta, r

LEMMA ReconciledBooked ==
  ASSUME NEW d \in Database, NEW time \in Nat, NEW sent, Accounts(d, time, sent),
         NEW s \in Snapshots, NEW a \in Authorizations
  PROVE  Booked(Reconciled(d, s), d, sent, a, 0)
  <1> DEFINE r == Reconciled(d, s)
             kept == DOMAIN s.policies
  <1>1. r.pending = Preserved(d, Authorizations \ kept)
    BY ReconciledFacts
  <1>2. \A b \in Authorizations : /\ r.ledgers[b] = IF b \in kept THEN d.ledgers[b] ELSE None
                                  /\ r.statuses[b] = IF b \in kept THEN d.statuses[b] ELSE None
    BY ReconciledFacts, Zenon
  <1>3. r.ledgers[a] = IF a \in kept THEN d.ledgers[a] ELSE None
    BY <1>2
  <1> HIDE DEF r
  <1>4. /\ d.pending \subseteq r.pending
        /\ a \notin kept /\ Unqueued(d.ledgers[a]) => TrafficOf(a, d.ledgers[a]) \in r.pending
    BY <1>1, PreservedKeeps
  <1>5. d.ledgers[a] # None => d.ledgers[a].bytes + 0 = d.ledgers[a].bytes
    BY LedgerFields
  <1>6. CASE a \in kept
    BY <1>3, <1>4, <1>5, <1>6 DEF Booked, Unqueued, r
  <1>7. CASE a \notin kept
    BY <1>3, <1>4, <1>7 DEF Booked, r
  <1> QED
    BY <1>6, <1>7

LEMMA QueuedBooked ==
  ASSUME NEW d \in Database, NEW t \in Traffic, TrafficMatches(d, t), NEW sent,
         sent[<<t.authorization, t.period>>] = t, NEW a \in Authorizations
  PROVE  Booked(TrafficQueued(d, t), d, sent, a, 0)
  <1> DEFINE r == TrafficQueued(d, t)
  <1>1. CASE PendingOf(d, t) # {}
    <2>1. r = [d EXCEPT !.pending = d.pending \ {t}]
      BY <1>1 DEF TrafficQueued
    <2> HIDE DEF r
    <2>2. r.ledgers = d.ledgers /\ r.pending = d.pending \ {t}
      BY <2>1 DEF Database
    <2>3. \A u \in d.pending : u.authorization = a => u \in r.pending \/ sent[<<a, u.period>>] = u
      BY <2>2
    <2>4. d.ledgers[a] # None => d.ledgers[a].bytes + 0 = d.ledgers[a].bytes
      BY LedgerFields
    <2> QED
      BY <2>2, <2>3, <2>4 DEF Booked, Unqueued, r
  <1>2. CASE PendingOf(d, t) = {} /\ TrafficOf(t.authorization, d.ledgers[t.authorization]) = t
    <2> DEFINE b == t.authorization
               new == [d.ledgers[b] EXCEPT !.queued = t.revision]
               ledgers == [d.ledgers EXCEPT ![b] = new]
    <2>1. b \in Authorizations /\ t.revision \in Nat
      BY DEF Traffic
    <2>2. d.ledgers[b] \in Ledger /\ d.ledgers[b] # None
      BY <1>2, <2>1 DEF TrafficMatches, Database, Or
    <2>3. t.revision = d.ledgers[b].revision /\ t.period = d.ledgers[b].period
      BY <1>2, <2>1, <2>2, LedgerFields
    <2>4. /\ new \in Ledger /\ new.period = d.ledgers[b].period /\ new.queued = new.revision
          /\ new.revision = d.ledgers[b].revision /\ new.bytes = d.ledgers[b].bytes
      BY <2>1, <2>2, <2>3 DEF Ledger
    <2>5. r = [d EXCEPT !.ledgers = ledgers]
      BY <1>2 DEF TrafficQueued
    <2> HIDE DEF new
    <2>6. ledgers[b] = new /\ \A c \in Authorizations \ {b} : ledgers[c] = d.ledgers[c]
      BY <2>1 DEF Database
    <2> HIDE DEF ledgers, r
    <2>7. r.pending = d.pending /\ r.ledgers = ledgers
      BY <2>5 DEF Database
    <2>8. CASE a # b
      <3>1. r.ledgers[a] = d.ledgers[a]
        BY <2>6, <2>7, <2>8
      <3>2. d.ledgers[a] # None => d.ledgers[a].bytes + 0 = d.ledgers[a].bytes
        BY LedgerFields
      <3> QED
        BY <2>7, <3>1, <3>2 DEF Booked, Unqueued, r
    <2>9. CASE a = b
      <3>1. r.ledgers[a] = new /\ new # None /\ d.ledgers[a].bytes + 0 = d.ledgers[a].bytes
        BY <2>2, <2>4, <2>6, <2>7, <2>9, NoneAssumption DEF Ledger
      <3>2. TrafficOf(a, new) = t
        BY <1>2, <2>4, <2>9 DEF TrafficOf
      <3>3. sent[<<a, new.period>>] = TrafficOf(a, new)
        BY <2>3, <2>4, <2>9, <3>2
      <3> HIDE DEF b
      <3> QED
        BY <2>2, <2>4, <2>7, <2>9, <3>1, <3>3 DEF Booked, r
    <2> QED
      BY <2>8, <2>9
  <1>3. CASE PendingOf(d, t) = {} /\ TrafficOf(t.authorization, d.ledgers[t.authorization]) # t
    <2>1. r = d
      BY <1>3 DEF TrafficQueued
    <2> QED
      BY <2>1, SameBooked
  <1> QED
    BY <1>1, <1>2, <1>3

-----------------------------------------------------------------------------
(* Counters.                                                               *)

\* Which transactions leave the counters alone.
SameCounters(r, d) == r.counters = d.counters

LEMMA CountersUntouched ==
  ASSUME NEW d \in Database, NEW time \in Nat
  PROVE  /\ \A a \in Authorizations, source \in Sources, t \in Nat :
              SameCounters(Observed(d, a, source, t), d)
         /\ \A p \in Plugins, stream \in Nat, sequence \in Nat :
              SameCounters(CursorAdvanced(d, p, stream, sequence), d)
         /\ SameCounters(Refreshed(d, time), d)
         /\ \A t \in Traffic : SameCounters(TrafficQueued(d, t), d)
         /\ SameCounters(DesiredUpdated(d, time), d)
         /\ \A k \in Keys, instance \in Nat : SameCounters(ServiceApplied(d, k, instance), d)
         /\ \A p \in Plugins, instance \in Nat : SameCounters(BlocksApplied(d, p, instance), d)
         /\ \A instances \in [Plugins -> Or(Nat)] :
              SameCounters(StatusesRefreshed(d, instances, time), d)
         /\ \A a \in Authorizations : SameCounters(StatusQueued(d, a), d)
  <1> DEFINE e == Refreshed(d, time)
  <1>1. e \in Database /\ e.counters = d.counters
    BY RefreshedFacts
  <1>2. ASSUME NEW c \in Database, NEW x
        PROVE  /\ [c EXCEPT !.cursors = x].counters = c.counters
               /\ [c EXCEPT !.statuses = x].counters = c.counters
               /\ [c EXCEPT !.appliedBlocks = x].counters = c.counters
    BY DEF Database
  <1>3. ASSUME NEW a \in Authorizations, NEW source \in Sources, NEW t \in Nat
        PROVE  SameCounters(Observed(d, a, source, t), d)
    <2> DEFINE c == CleanActivity(d, {a}, t)
               r == Observed(d, a, source, t)
    <2>1. c \in Database /\ c.counters = d.counters
      BY CleanActivityFacts
    <2>2. r = d \/ r = c \/ (\E x : r = [c EXCEPT !.slots = x]) \/ \E x : r = [c EXCEPT !.blocks = x]
      BY DEF Observed
    <2> HIDE DEF c, r
    <2>3. r.counters = d.counters
      BY <2>1, <2>2 DEF Database
    <2> QED
      BY <2>3 DEF r, SameCounters
  <1>4. ASSUME NEW p \in Plugins, NEW stream \in Nat, NEW sequence \in Nat
        PROVE  SameCounters(CursorAdvanced(d, p, stream, sequence), d)
    BY <1>2 DEF CursorAdvanced, SameCounters
  <1>5. SameCounters(e, d)
    BY <1>1 DEF SameCounters
  <1>6. ASSUME NEW t \in Traffic
        PROVE  SameCounters(TrafficQueued(d, t), d)
    <2> DEFINE r == TrafficQueued(d, t)
    <2>1. r = d \/ (\E x : r = [d EXCEPT !.pending = x]) \/ \E x : r = [d EXCEPT !.ledgers = x]
      BY DEF TrafficQueued
    <2> HIDE DEF r
    <2>2. r.counters = d.counters
      BY <2>1 DEF Database
    <2> QED
      BY <2>2 DEF r, SameCounters
  <1>7. SameCounters(DesiredUpdated(d, time), d)
    <2> DEFINE r == DesiredUpdated(d, time)
    <2>1. \E x, y, z, w : r = [e EXCEPT !.stateRevision = x, !.blockRevision = y,
                                        !.services = z, !.blockSets = w]
      BY DEF DesiredUpdated
    <2> HIDE DEF r, e
    <2>2. r.counters = e.counters
      BY <1>1, <2>1 DEF Database
    <2> QED
      BY <1>1, <2>2 DEF r, SameCounters
  <1>8. ASSUME NEW k \in Keys, NEW instance \in Nat
        PROVE  SameCounters(ServiceApplied(d, k, instance), d)
    <2> DEFINE applied == [d.appliedServices EXCEPT ![k] =
                             [instance |-> instance, desired |-> d.services[k]]]
               marked == [d EXCEPT !.appliedServices = applied]
               r == ServiceApplied(d, k, instance)
    <2>1. r = marked \/ r = [marked EXCEPT !.orphans = marked.orphans \ {k},
                                           !.services = [marked.services EXCEPT ![k] = None]]
      BY DEF ServiceApplied
    <2> HIDE DEF applied, r
    <2>2. DOMAIN marked = DOMAIN d /\ marked.counters = d.counters /\ "counters" \in DOMAIN d
      BY DEF Database
    <2> HIDE DEF marked
    <2>3. r.counters = d.counters
      BY <2>1, <2>2
    <2> QED
      BY <2>3 DEF r, SameCounters
  <1>9. ASSUME NEW p \in Plugins, NEW instance \in Nat
        PROVE  SameCounters(BlocksApplied(d, p, instance), d)
    BY <1>2 DEF BlocksApplied, SameCounters
  <1>10. ASSUME NEW instances \in [Plugins -> Or(Nat)]
         PROVE  SameCounters(StatusesRefreshed(d, instances, time), d)
    <2> DEFINE r == StatusesRefreshed(d, instances, time)
    <2>1. \E x : r = [e EXCEPT !.statuses = x]
      BY DEF StatusesRefreshed
    <2> HIDE DEF r, e
    <2>2. r.counters = e.counters
      BY <1>1, <1>2, <2>1
    <2> QED
      BY <1>1, <2>2 DEF r, SameCounters
  <1>11. ASSUME NEW a \in Authorizations
         PROVE  SameCounters(StatusQueued(d, a), d)
    BY <1>2 DEF StatusQueued, SameCounters
  <1> QED
    BY <1>3, <1>4, <1>5, <1>6, <1>7, <1>8, <1>9, <1>10, <1>11

\* A counter of r is that of d, and belongs to an authorization that is still there, or
\* its authorization is gone for good.
CountersKept(r, d) ==
  \A a \in Authorizations, p \in Plugins :
    LET old == d.counters[<<a, p>>]
        new == r.counters[<<a, p>>]
    IN  \/ new = old /\ (a \in Authorized(d) => a \in Authorized(r))
        \/ new = None /\ (old = None \/ Gone(r, a))

CountersAuthorized(d) ==
  \A a \in Authorizations, p \in Plugins : d.counters[<<a, p>>] # None => a \in Authorized(d)

\* What CollectTelemetry(p) does when the counters are applied.
Applied(p) ==
  LET counters == procs[p].counters
      read == [a \in Authorizations |->
                 IF a \in Bound(db, p) THEN counters[a] ELSE procs[p].read[a]]
  IN  /\ db' = CountersApplied(db, p, procs[p].stream, counters, now)
      /\ procs' = [procs EXCEPT ![p] = [procs[p] EXCEPT !.read = read]]
      /\ UNCHANGED <<now, sink, carried>>

LEMMA SameCountersKept ==
  ASSUME NEW d, NEW r, r.snapshot = d.snapshot, SameCounters(r, d)
  PROVE  CountersKept(r, d)
  BY DEF CountersKept, SameCounters, Authorized, Policies

LEMMA ReconciledCounters ==
  ASSUME NEW d \in Database, NEW s \in Snapshots
  PROVE  \A a \in Authorizations, p \in Plugins :
           Reconciled(d, s).counters[<<a, p>>]
             = IF a \in DOMAIN s.policies THEN d.counters[<<a, p>>] ELSE None
  <1> DEFINE kept == DOMAIN s.policies
             counters == [x \in DOMAIN d.counters |-> IF x[1] \in kept THEN d.counters[x] ELSE None]
             r == Reconciled(d, s)
  <1>1. \E v, w, x, y, z, u, o :
          r = [[d EXCEPT !.pending = v, !.ledgers = w, !.statuses = x, !.slots = y, !.blocks = z,
                         !.counters = counters] EXCEPT !.snapshot = u, !.orphans = o]
    BY DEF Reconciled, RemovedDeleted
  <1>2. \A a \in Authorizations, p \in Plugins :
          counters[<<a, p>>] = IF a \in kept THEN d.counters[<<a, p>>] ELSE None
    BY DEF Database, Keys
  <1> HIDE DEF counters, kept, r
  <1>3. r.counters = counters
    BY <1>1 DEF Database
  <1> QED
    BY <1>2, <1>3 DEF kept, r

LEMMA BookSteps ==
  ASSUME AuthorizationsDoNotReturn, IInv, IInv', AccountInv, [Next]_vars,
         LedgersReported(db, sink.traffic), CountersAuthorized(db), NEW a \in Authorizations,
         op.pc = "mark" => sink.traffic[<<op.item.authorization, op.item.period>>] = op.item
  PROVE  \/ \E p \in Plugins : Applied(p)
         \/ CountersKept(db', db) /\ Booked(db', db, sink.traffic, a, 0)
  <1> DEFINE sent == sink.traffic
             Kept == CountersKept(db', db) /\ Booked(db', db, sent, a, 0)
  <1>1. /\ db \in Database /\ db' \in Database /\ now \in Nat
        /\ Transaction /\ Accounts(db, now, sent)
    BY NextTransaction DEF IInv, TypeOK, AccountInv
  <1> HIDE DEF Kept
  <1>2. ASSUME db'.snapshot = db.snapshot, SameCounters(db', db), Booked(db', db, sent, a, 0)
        PROVE  Kept
    BY <1>2, SameCountersKept DEF Kept
  <1>3. ASSUME db'.snapshot = db.snapshot, SameCounters(db', db),
               db'.ledgers = db.ledgers, db'.pending = db.pending
        PROVE  Kept
    BY <1>1, <1>2, <1>3, SameBooked
  <1>4. ASSUME db'.snapshot = db.snapshot, SameCounters(db', db),
               db'.ledgers = Refreshed(db, now).ledgers, db'.pending = Refreshed(db, now).pending
        PROVE  Kept
    <2> DEFINE e == EnsureLedgers(db, Authorized(db), now)
    <2>1. Refreshed(db, now).ledgers = e.ledgers /\ Refreshed(db, now).pending = e.pending
      BY <1>1, RefreshedFacts
    <2>2. Booked(db', db, sent, a, 0)
      BY <1>1, <1>4, <2>1, EnsuredBooked, AuthorizedType
    <2> QED
      BY <1>2, <1>4, <2>2
  <1>5. ASSUME db' = db
        PROVE  Kept
    <2>1. /\ db'.snapshot = db.snapshot /\ db'.counters = db.counters
          /\ db'.ledgers = db.ledgers /\ db'.pending = db.pending
      BY <1>5
    <2>2. SameCounters(db', db)
      BY <2>1 DEF SameCounters
    <2> QED
      BY <1>3, <2>1, <2>2
  <1>6. ASSUME NEW s \in Snapshots, s.generation > db.snapshot.generation,
               db' = Reconciled(db, s)
        PROVE  Kept
    <2>1. Succeeds(db', db) /\ db'.snapshot = s
      BY <1>1, <1>6, ReconciledAccounts, ReconciledFacts DEF Succeeds
    <2>2. \A b \in Authorizations, p \in Plugins :
            db'.counters[<<b, p>>]
              = IF b \in DOMAIN s.policies THEN db.counters[<<b, p>>] ELSE None
      BY <1>1, <1>6, ReconciledCounters
    <2>3. Booked(db', db, sent, a, 0)
      BY <1>1, <1>6, ReconciledBooked
    <2>4. Authorized(db') = DOMAIN s.policies
      BY <2>1 DEF Authorized, Policies
    <2>5. ASSUME NEW b \in Authorizations, b \in Authorized(db), b \notin DOMAIN s.policies
          PROVE  Gone(db', b)
      <3> DEFINE r == Reconciled(db, s)
      <3>3. \A c \in Authorizations :
              /\ r.ledgers[c] = IF c \in DOMAIN s.policies THEN db.ledgers[c] ELSE None
              /\ r.statuses[c] = IF c \in DOMAIN s.policies THEN db.statuses[c] ELSE None
        BY <1>1, ReconciledFacts, Zenon
      <3>1. db'.ledgers[b] = None
        BY <1>6, <2>5, <3>3
      <3>2. Dropped(db', b)
        BY <2>4, <2>5, <3>1 DEF Dropped
      <3> QED
        BY <1>1, <2>1, <2>5, <3>2, DroppedIsGone
    <2>6. CountersKept(db', db)
      BY <2>2, <2>4, <2>5 DEF CountersKept, CountersAuthorized
    <2> QED
      BY <2>3, <2>6 DEF Kept
  <1>7. ASSUME NEW p \in Plugins, NEW epoch \in Nat, NEW read \in [Authorizations -> Nat],
               CollectTelemetry(p), epoch = procs[p].stream, read = procs[p].counters,
               db' = CountersApplied(db, p, epoch, read, now)
        PROVE  Applied(p) \/ Kept
    <2>1. db' = db \/ Applied(p)
      BY <1>7 DEF CollectTelemetry, Applied
    <2> QED
      BY <1>5, <2>1
  <1>8. ASSUME NEW b \in Authorizations, NEW source \in Sources, NEW time \in Nat,
               db' = Observed(db, b, source, time)
        PROVE  Kept
    <2>1. SameSteering(db', db) /\ db'.ledgers = db.ledgers /\ db'.pending = db.pending
      BY <1>1, <1>8, ObservedFacts
    <2>2. SameCounters(db', db)
      BY <1>1, <1>8, CountersUntouched
    <2> QED
      BY <1>3, <2>1, <2>2 DEF SameSteering
  <1>9. ASSUME NEW p \in Plugins, NEW stream \in Nat, NEW sequence \in Nat,
               db' = CursorAdvanced(db, p, stream, sequence)
        PROVE  Kept
    <2>1. SameSteering(db', db)
      BY <1>1, <1>9, CursorAdvancedFacts
    <2>2. SameBooks(db', db)
      BY <1>1, <1>9, CursorAdvancedBooks
    <2>3. SameCounters(db', db)
      BY <1>1, <1>9, CountersUntouched
    <2> QED
      BY <1>3, <2>1, <2>2, <2>3 DEF SameSteering, SameBooks
  <1>10. ASSUME db' = Refreshed(db, now)
        PROVE  Kept
    <2>1. SameSteering(db', db)
      BY <1>1, <1>10, RefreshedFacts
    <2>2. SameCounters(db', db)
      BY <1>1, <1>10, CountersUntouched
    <2>3. /\ db'.snapshot = db.snapshot
          /\ db'.ledgers = Refreshed(db, now).ledgers /\ db'.pending = Refreshed(db, now).pending
      BY <1>10, <2>1 DEF SameSteering
    <2> QED
      BY <1>4, <2>2, <2>3
  <1>11. ASSUME op.pc = "mark", NEW t \in Traffic, t = op.item, TrafficMatches(db, t),
                db' = TrafficQueued(db, t)
         PROVE  Kept
    <2>1. SameSteering(db', db)
      BY <1>1, <1>11, TrafficQueuedFacts
    <2>2. SameCounters(db', db)
      BY <1>1, <1>11, CountersUntouched
    <2>3. Booked(db', db, sent, a, 0)
      BY <1>1, <1>11, QueuedBooked
    <2> QED
      BY <1>2, <2>1, <2>2, <2>3 DEF SameSteering
  <1>12. ASSUME db' = DesiredUpdated(db, now)
        PROVE  Kept
    <2>1. /\ db'.snapshot = db.snapshot
          /\ db'.ledgers = Refreshed(db, now).ledgers /\ db'.pending = Refreshed(db, now).pending
      BY <1>1, <1>12, DesiredUpdatedFacts
    <2>2. SameCounters(db', db)
      BY <1>1, <1>12, CountersUntouched
    <2> QED
      BY <1>4, <2>1, <2>2
  <1>13. ASSUME NEW k \in Keys, NEW instance \in Nat, db.services[k] # None,
                db' = ServiceApplied(db, k, instance)
         PROVE  Kept
    <2>1. SameAccounts(db', db) /\ db'.snapshot = db.snapshot
      BY <1>1, <1>13, ServiceAppliedFacts
    <2>2. SameCounters(db', db)
      BY <1>1, <1>13, CountersUntouched
    <2> QED
      BY <1>3, <2>1, <2>2 DEF SameAccounts
  <1>14. ASSUME NEW p \in Plugins, NEW instance \in Nat, db.blockSets[p] # None,
                db' = BlocksApplied(db, p, instance)
         PROVE  Kept
    <2>1. SameAccounts(db', db) /\ db'.snapshot = db.snapshot
      BY <1>1, <1>14, BlocksAppliedFacts
    <2>2. SameCounters(db', db)
      BY <1>1, <1>14, CountersUntouched
    <2> QED
      BY <1>3, <2>1, <2>2 DEF SameAccounts
  <1>15. ASSUME NEW instances \in [Plugins -> Or(Nat)],
                db' = StatusesRefreshed(db, instances, now)
         PROVE  Kept
    <2>1. /\ SameSteering(db', db)
          /\ db'.ledgers = Refreshed(db, now).ledgers /\ db'.pending = Refreshed(db, now).pending
      BY <1>1, <1>15, StatusesRefreshedFacts
    <2>2. SameCounters(db', db)
      BY <1>1, <1>15, CountersUntouched
    <2> QED
      BY <1>4, <2>1, <2>2 DEF SameSteering
  <1>16. ASSUME NEW b \in Authorizations, db.statuses[b] # None, db' = StatusQueued(db, b)
         PROVE  Kept
    <2>1. SameAccounts(db', db) /\ SameSteering(db', db)
      BY <1>1, <1>16, StatusQueuedFacts
    <2>2. SameCounters(db', db)
      BY <1>1, <1>16, CountersUntouched
    <2> QED
      BY <1>3, <2>1, <2>2 DEF SameAccounts, SameSteering
  <1>17. Kept \/ \E p \in Plugins : Applied(p)
    BY <1>1, <1>5, <1>6, <1>7, <1>8, <1>9, <1>10, <1>11, <1>12, <1>13, <1>14, <1>15, <1>16
    DEF Transaction
  <1> QED
    BY <1>17 DEF Kept

\* A step that leaves the counters of p, and what of them was read, as they are.
KeepsCounts(p) ==
  /\ procs'[p].counters = procs[p].counters /\ procs'[p].read = procs[p].read
  /\ procs'[p].stream = procs[p].stream /\ procs'[p].instance >= procs[p].instance

\* The plugin p starts, and its counters go on, or start anew.
Restarts(p) ==
  /\ \A q \in Plugins \ {p} : procs'[q] = procs[q]
  /\ procs'[p].stream = procs'[p].instance /\ procs'[p].instance = procs[p].instance + 1
  /\ \A a \in Authorizations : procs'[p].counters[a] = 0 /\ procs'[p].read[a] = 0
  /\ carried' = [a \in Authorizations |-> carried[a] - Unread(p, a)]

Carries(p, a) ==
  LET counters == [procs[p].counters EXCEPT ![a] = procs[p].counters[a] + 1]
  IN  /\ procs' = [procs EXCEPT ![p] = [procs[p] EXCEPT !.counters = counters]]
      /\ carried' = [carried EXCEPT ![a] = carried[a] + 1]

LEMMA CountSteps ==
  ASSUME IInv, [Next]_vars
  PROVE  \/ \E p \in Plugins : Applied(p)
         \/ (\A p \in Plugins : KeepsCounts(p)) /\ carried' = carried
         \/ \E p \in Plugins : Restarts(p) /\ db' = db /\ sink' = sink
         \/ \E p \in Plugins, a \in Authorizations : Carries(p, a) /\ db' = db /\ sink' = sink
  <1> DEFINE Kept == (\A p \in Plugins : KeepsCounts(p)) /\ carried' = carried
             Goal == \/ \E p \in Plugins : Applied(p)
                     \/ Kept
                     \/ \E p \in Plugins : Restarts(p) /\ db' = db /\ sink' = sink
                     \/ \E p \in Plugins, a \in Authorizations :
                          Carries(p, a) /\ db' = db /\ sink' = sink
  <1>1. procs \in [Plugins -> Process] /\ op \in Op
    BY DEF IInv, TypeOK
  <1>2. \A p \in Plugins : procs[p].instance \in Nat
    BY <1>1 DEF Process
  <1>3. ASSUME procs' = procs, carried' = carried
        PROVE  Kept
    BY <1>2, <1>3 DEF KeepsCounts
  <1>4. ASSUME NEW p \in Plugins, NEW new, procs' = [procs EXCEPT ![p] = new], carried' = carried,
               new.counters = procs[p].counters, new.read = procs[p].read,
               new.stream = procs[p].stream,
               new.instance = procs[p].instance \/ new.instance = procs[p].instance + 1
        PROVE  Kept
    BY <1>1, <1>2, <1>4 DEF KeepsCounts
  <1> HIDE DEF Kept
  <1>5. ASSUME NEW p \in Plugins, Start(p)
        PROVE  Goal
    <2>1. PICK capabilities \in CapabilitySets, anew \in BOOLEAN :
            LET instance == procs[p].instance + 1
                fresh == [NoProcess EXCEPT !.up = TRUE, !.instance = instance,
                                           !.capabilities = capabilities, !.stream = instance]
            IN  /\ procs' = [procs EXCEPT ![p] =
                     IF anew THEN fresh
                     ELSE [procs[p] EXCEPT !.up = TRUE, !.instance = instance,
                             !.capabilities = capabilities,
                             !.services = fresh.services, !.blocks = {}]]
                /\ carried' = IF anew THEN [a \in Authorizations |-> carried[a] - Unread(p, a)]
                                      ELSE carried
      BY <1>5 DEF Start
    <2> DEFINE instance == procs[p].instance + 1
               fresh == [NoProcess EXCEPT !.up = TRUE, !.instance = instance,
                                          !.capabilities = capabilities, !.stream = instance]
               again == [procs[p] EXCEPT !.up = TRUE, !.instance = instance,
                                         !.capabilities = capabilities,
                                         !.services = fresh.services, !.blocks = {}]
    <2>2. db' = db /\ sink' = sink
      BY <1>5 DEF Start
    <2>3. /\ fresh.stream = instance /\ fresh.instance = instance
          /\ \A a \in Authorizations : fresh.counters[a] = 0 /\ fresh.read[a] = 0
      BY DEF NoProcess
    <2>4. /\ again.counters = procs[p].counters /\ again.read = procs[p].read
          /\ again.stream = procs[p].stream /\ again.instance = instance
      BY <1>1 DEF Process
    <2>5. ASSUME anew = TRUE
          PROVE  Restarts(p)
      <3>1. procs' = [procs EXCEPT ![p] = fresh]
        BY <2>1, <2>5
      <3>2. carried' = [a \in Authorizations |-> carried[a] - Unread(p, a)]
        BY <2>1, <2>5
      <3> HIDE DEF fresh
      <3>3. procs'[p] = fresh /\ \A q \in Plugins \ {p} : procs'[q] = procs[q]
        BY <1>1, <3>1
      <3> QED
        BY <2>3, <3>2, <3>3 DEF Restarts
    <2>6. ASSUME anew = FALSE
          PROVE  Kept
      <3>1. procs' = [procs EXCEPT ![p] = again] /\ carried' = carried
        BY <2>1, <2>6
      <3> HIDE DEF again
      <3> QED
        BY <1>4, <2>4, <3>1
    <2> QED
      BY <2>2, <2>5, <2>6
  <1>6. ASSUME NEW p \in Plugins, Exit(p)
        PROVE  Kept
    <2> DEFINE new == [procs[p] EXCEPT !.up = FALSE]
    <2>1. procs' = [procs EXCEPT ![p] = new] /\ carried' = carried
      BY <1>6 DEF Exit
    <2>2. /\ new.counters = procs[p].counters /\ new.read = procs[p].read
          /\ new.stream = procs[p].stream /\ new.instance = procs[p].instance
      BY <1>1 DEF Process
    <2> HIDE DEF new
    <2> QED
      BY <1>4, <2>1, <2>2
  <1>7. ASSUME NEW p \in Plugins, NEW a \in Authorizations, Carry(p, a)
        PROVE  Goal
    BY <1>7 DEF Carry, Carries
  <1>8. ASSUME NEW p \in Plugins, NEW a \in Authorizations, NEW source \in Sources,
               Access(p, a, source)
        PROVE  Kept
    <2>1. PICK events : procs' = [procs EXCEPT ![p] = [procs[p] EXCEPT !.events = events]]
      BY <1>8 DEF Access
    <2> DEFINE new == [procs[p] EXCEPT !.events = events]
    <2>2. carried' = carried
      BY <1>8 DEF Access
    <2>3. /\ new.counters = procs[p].counters /\ new.read = procs[p].read
          /\ new.stream = procs[p].stream /\ new.instance = procs[p].instance
      BY <1>1 DEF Process
    <2>4. procs' = [procs EXCEPT ![p] = new]
      BY <2>1
    <2> HIDE DEF new
    <2> QED
      BY <1>4, <2>2, <2>3, <2>4
  <1>9. ASSUME Crash
        PROVE  Kept
    <2> DEFINE new(p) == [procs[p] EXCEPT !.up = FALSE]
    <2>1. procs' = [p \in Plugins |-> new(p)] /\ carried' = carried
      BY <1>9 DEF Crash
    <2>2. \A p \in Plugins : /\ new(p).counters = procs[p].counters /\ new(p).read = procs[p].read
                             /\ new(p).stream = procs[p].stream
                             /\ new(p).instance = procs[p].instance
      BY <1>1 DEF Process
    <2> HIDE DEF new
    <2>3. \A p \in Plugins : KeepsCounts(p)
      BY <1>2, <2>1, <2>2 DEF KeepsCounts
    <2> QED
      BY <2>1, <2>3 DEF Kept
  <1>10. ASSUME NEW p \in Plugins, CollectTelemetry(p)
         PROVE  Applied(p) \/ Kept
    <2>1. \/ procs' = procs /\ carried' = carried
          \/ Applied(p)
      BY <1>10 DEF CollectTelemetry, Applied
    <2> QED
      BY <1>3, <2>1
  <1>11. ASSUME NEW k \in Keys, Take(k), carried' = carried
         PROVE  Kept
    <2> DEFINE p == k[2]
               services == [procs[p].services EXCEPT ![k[1]] = db.services[k]]
               new == [procs[p] EXCEPT !.services = services]
    <2>1. procs' = [procs EXCEPT ![p] = new] /\ p \in Plugins
      BY <1>11 DEF Take, Keys
    <2> HIDE DEF services
    <2>2. /\ new.counters = procs[p].counters /\ new.read = procs[p].read
          /\ new.stream = procs[p].stream /\ new.instance = procs[p].instance
      BY <1>1, <2>1 DEF Process
    <2> HIDE DEF new
    <2> QED
      BY <1>4, <1>11, <2>1, <2>2
  <1>12. ASSUME NEW p \in Plugins, TakeBlocks(p), carried' = carried
         PROVE  Kept
    <2> DEFINE new == [procs[p] EXCEPT !.blocks = db.blockSets[p].blocks]
    <2>1. procs' = [procs EXCEPT ![p] = new]
      BY <1>12 DEF TakeBlocks
    <2>2. /\ new.counters = procs[p].counters /\ new.read = procs[p].read
          /\ new.stream = procs[p].stream /\ new.instance = procs[p].instance
      BY <1>1 DEF Process
    <2> HIDE DEF new
    <2> QED
      BY <1>4, <1>12, <2>1, <2>2
  <1>13. ASSUME NEW k \in Keys, SetServiceState(k) \/ SetServiceStateFails(k)
         PROVE  Kept
    <2>1. carried' = carried /\ (Take(k) \/ procs' = procs)
      BY <1>13 DEF SetServiceState, SetServiceStateFails
    <2> QED
      BY <1>3, <1>11, <2>1
  <1>14. ASSUME NEW p \in Plugins, ReplaceDynamicBlocks(p) \/ ReplaceDynamicBlocksFails(p)
         PROVE  Kept
    <2>1. carried' = carried /\ (TakeBlocks(p) \/ procs' = procs)
      BY <1>14 DEF ReplaceDynamicBlocks, ReplaceDynamicBlocksFails
    <2> QED
      BY <1>3, <1>12, <2>1
  <1>15. ASSUME \/ RunCycle \/ Tick \/ Fails \/ Publish \/ ReadDesired
                \/ EnqueueAccess \/ ObserveActivity \/ AdvanceTelemetryCursor
                \/ (\E p \in Plugins : CollectFails(p)) \/ (\E s \in Snapshots : Execute(s))
                \/ UNCHANGED vars
         PROVE  Kept
    <2>1. procs' = procs /\ carried' = carried
      BY <1>15 DEF vars, RunCycle, Fails, Tick, Execute, Publish, EnqueueAccess, ObserveActivity,
         AdvanceTelemetryCursor, CollectFails, ReadDesired, PendingTrafficSnapshots,
         MarkTrafficQueued, RefreshStatuses, MarkStatusQueued, EnqueueTraffic, EnqueueStatus,
         EventFails, TrafficFails, DesiredFails, RefreshStatusesFails, StatusesFail
    <2> QED
      BY <1>3, <2>1
  <1>16. Goal
    BY <1>5, <1>6, <1>7, <1>8, <1>9, <1>10, <1>13, <1>14, <1>15
    DEF Next, Engine, Plugin, Collect, Apply
  <1> QED
    BY <1>16 DEF Kept

-----------------------------------------------------------------------------
(* Totals.                                                                 *)

CountedTotal(d, sent, a) == SumFunction([period \in Periods |-> CountedIn(d, sent, a, period)])
UnreadOf(q, p, a) == q[p].counters[a] - q[p].read[a]
UnreadTotal(q, a) == SumFunction([p \in Plugins |-> UnreadOf(q, p, a)])

LEMMA PeriodsFinite == IsFiniteSet(Periods) /\ Periods \subseteq Nat
  <1>1. MaxTime \in Nat
    BY PolicyEngineAssumption
  <1>2. PeriodOf(MaxTime) \in Nat
    BY <1>1, PeriodType
  <1>3. IsFiniteSet(0 .. PeriodOf(MaxTime))
    BY <1>2, FS_Interval
  <1> QED
    BY <1>2, <1>3 DEF Periods

LEMMA TotalBooked ==
  ASSUME NEW d \in Database, NEW r \in Database, NEW time \in Nat, Accounted(r, d, time),
         NEW sent \in [Authorizations \X Periods -> Or(Traffic)],
         Accounts(d, time, sent), Accounts(r, time, sent), LedgersReported(d, sent),
         NEW a \in Authorizations, NEW gain \in Nat, Booked(r, d, sent, a, gain),
         r.ledgers[a] # None => r.ledgers[a].period \in Periods
  PROVE  /\ CountedTotal(d, sent, a) \in Int
         /\ CountedTotal(r, sent, a) = CountedTotal(d, sent, a) + gain
  <1> DEFINE f == [period \in Periods |-> CountedIn(d, sent, a, period)]
             g == [period \in Periods |-> CountedIn(r, sent, a, period)]
             new == r.ledgers[a]
  <1>1. \A period \in Periods :
          /\ CountedIn(d, sent, a, period) \in Nat
          /\ CountedIn(r, sent, a, period)
               = CountedIn(d, sent, a, period)
                 + GainIn(new, period, gain)
    <2> SUFFICES ASSUME NEW period \in Periods
                 PROVE  /\ CountedIn(d, sent, a, period) \in Nat
                        /\ CountedIn(r, sent, a, period)
                             = CountedIn(d, sent, a, period)
                               + GainIn(new, period, gain)
      OBVIOUS
    <2>1. CountedIn(d, sent, a, period) \in Nat
      BY CountedType
    <2>2. CountedIn(r, sent, a, period)
            = CountedIn(d, sent, a, period)
              + GainIn(r.ledgers[a], period, gain)
      BY BookedCounts
    <2> QED
      BY <2>1, <2>2
  <1>2. \A period \in Periods :
          /\ f[period] \in Nat
          /\ g[period] = f[period] + GainIn(new, period, gain)
    BY <1>1
  <1>3. DOMAIN f = Periods /\ DOMAIN g = Periods /\ f = [x \in Periods |-> f[x]]
        /\ g = [x \in Periods |-> g[x]]
    OBVIOUS
  <1> HIDE DEF f, g
  <1>4. f \in [Periods -> Int] /\ g \in [Periods -> Int]
    <2>1. \A period \in Periods : f[period] \in Int /\ g[period] \in Int
      BY <1>2 DEF GainIn
    <2> QED
      BY <1>3, <2>1
  <1>5. SumFunction(f) \in Int
    BY <1>4, PeriodsFinite, SumType
  <1>6. CASE gain = 0
    <2>1. \A x \in Periods : g[x] = f[x]
      BY <1>2, <1>6 DEF GainIn
    <2>2. g = f
      BY <1>3, <2>1
    <2>3. SumFunction(g) = SumFunction(f) + gain
      BY <1>5, <1>6, <2>2
    <2> QED
      BY <1>5, <2>3 DEF CountedTotal, f, g
  <1>7. CASE gain # 0
    <2>1. new # None /\ new.period \in Periods
      BY <1>7 DEF Booked
    <2> DEFINE x == new.period
    <2>2. \A y \in Periods \ {x} : f[y] = g[y]
      BY <1>2 DEF GainIn
    <2>3. g[x] = f[x] + gain /\ f[x] \in Nat
      BY <1>2, <2>1 DEF GainIn
    <2>4. SumFunction(g) = SumFunction(f) + (g[x] - f[x])
      <3>1. x \in Periods
        BY <2>1
      <3> HIDE DEF x, new
      <3> QED
        BY <1>4, <2>2, <3>1, PeriodsFinite, SumChanges
    <2>5. SumFunction(g) = SumFunction(f) + gain
      BY <1>5, <2>3, <2>4
    <2> QED
      BY <1>5, <2>5 DEF CountedTotal, f, g
  <1> QED
    BY <1>6, <1>7

\* Reporting what is held changes nothing of what is counted.
LEMMA TotalReported ==
  ASSUME NEW d \in Database, NEW time \in Nat,
         NEW sent \in [Authorizations \X Periods -> Or(Traffic)], Accounts(d, time, sent),
         NEW t \in Traffic, Held(d, t), NEW a \in Authorizations
  PROVE  CountedTotal(d, [sent EXCEPT ![<<t.authorization, t.period>>] = t], a)
           = CountedTotal(d, sent, a)
  <1> DEFINE new == [sent EXCEPT ![<<t.authorization, t.period>>] = t]
  <1>1. ASSUME NEW period \in Periods
        PROVE  CountedIn(d, new, a, period) = CountedIn(d, sent, a, period)
    <2>1. CASE a = t.authorization /\ period = t.period
      <3>1. CASE t \in d.pending
        <4>1. t \in Waiting(d, a, period)
          BY <2>1, <3>1 DEF Waiting
        <4> HIDE DEF new
        <4> QED
          BY <4>1 DEF CountedIn
      <3>2. ASSUME NEW b \in Authorizations, d.ledgers[b] # None, t = TrafficOf(b, d.ledgers[b])
            PROVE  CountedIn(d, new, a, period) = CountedIn(d, sent, a, period)
        <4>1. b = a /\ d.ledgers[a].period = period
          BY <2>1, <3>2, LedgerFields
        <4> HIDE DEF new
        <4> QED
          BY <3>2, <4>1 DEF CountedIn
      <3> QED
        BY <3>1, <3>2 DEF Held
    <2>2. CASE ~(a = t.authorization /\ period = t.period)
      <3>1. new[<<a, period>>] = sent[<<a, period>>]
        BY <2>2
      <3> HIDE DEF new
      <3> QED
        BY <3>1 DEF CountedIn
    <2> QED
      BY <2>1, <2>2
  <1> HIDE DEF new
  <1>2. [period \in Periods |-> CountedIn(d, new, a, period)]
          = [period \in Periods |-> CountedIn(d, sent, a, period)]
    BY <1>1
  <1> QED
    BY <1>2 DEF CountedTotal, new

\* What a plugin has carried more, or less, is unread.
LEMMA UnreadChanges ==
  ASSUME NEW q \in [Plugins -> Process], NEW r \in [Plugins -> Process],
         NEW a \in Authorizations, NEW p \in Plugins, \A o \in Plugins \ {p} : r[o] = q[o]
  PROVE  /\ UnreadTotal(q, a) \in Int /\ UnreadOf(q, p, a) \in Int /\ UnreadOf(r, p, a) \in Int
         /\ UnreadTotal(r, a) = UnreadTotal(q, a) + (UnreadOf(r, p, a) - UnreadOf(q, p, a))
  <1> DEFINE f == [o \in Plugins |-> UnreadOf(q, o, a)]
             g == [o \in Plugins |-> UnreadOf(r, o, a)]
  <1>1. \A o \in Plugins : UnreadOf(q, o, a) \in Int /\ UnreadOf(r, o, a) \in Int
    <2> SUFFICES ASSUME NEW o \in Plugins
                 PROVE  UnreadOf(q, o, a) \in Int /\ UnreadOf(r, o, a) \in Int
      OBVIOUS
    <2>1. q[o] \in Process /\ r[o] \in Process
      OBVIOUS
    <2>2. /\ q[o].counters[a] \in Nat /\ q[o].read[a] \in Nat
          /\ r[o].counters[a] \in Nat /\ r[o].read[a] \in Nat
      BY <2>1 DEF Process
    <2> QED
      BY <2>2 DEF UnreadOf
  <1>2. f \in [Plugins -> Int] /\ g \in [Plugins -> Int]
    BY <1>1
  <1>3. \A o \in Plugins \ {p} : f[o] = g[o]
    BY DEF UnreadOf
  <1>4. f[p] = UnreadOf(q, p, a) /\ g[p] = UnreadOf(r, p, a)
    OBVIOUS
  <1> HIDE DEF f, g
  <1>5. SumFunction(f) \in Int /\ SumFunction(g) = SumFunction(f) + (g[p] - f[p])
    BY <1>2, <1>3, PluginsAssumption, SumChanges, SumType
  <1> QED
    BY <1>1, <1>4, <1>5 DEF UnreadTotal, f, g

LEMMA UnreadSame ==
  ASSUME \A p \in Plugins : KeepsCounts(p), NEW a \in Authorizations
  PROVE  UnreadTotal(procs', a) = UnreadTotal(procs, a)
  <1>1. \A p \in Plugins : UnreadOf(procs', p, a) = UnreadOf(procs, p, a)
    BY DEF KeepsCounts, UnreadOf
  <1>2. [p \in Plugins |-> UnreadOf(procs', p, a)] = [p \in Plugins |-> UnreadOf(procs, p, a)]
    BY <1>1
  <1> QED
    BY <1>2 DEF UnreadTotal

\* The counters of d are those that p has read now, for its bindings.
TookCounters(r, d, p, epoch, read) ==
  /\ \A a \in Bound(d, p) :
       /\ r.counters[<<a, p>>] # None
       /\ r.counters[<<a, p>>].epoch = epoch /\ r.counters[<<a, p>>].bytes = read[a]
  /\ \A a \in Authorizations, o \in Plugins :
       ~(o = p /\ a \in Bound(d, p)) => r.counters[<<a, o>>] = d.counters[<<a, o>>]

LEMMA AppliedCounters ==
  ASSUME NEW d \in Database, NEW p \in Plugins, NEW epoch \in Nat,
         NEW read \in [Authorizations -> Nat], NEW time \in Nat
  PROVE  TookCounters(CountersApplied(d, p, epoch, read, time), d, p, epoch, read)
  <1> DEFINE grown == Grown(d, p, epoch, read)
             e == EnsureLedgers(d, grown, time)
             counters == [k \in Keys |->
               IF k[2] = p /\ k[1] \in Bound(d, p) THEN [epoch |-> epoch, bytes |-> read[k[1]]]
                                                    ELSE e.counters[k]]
             r == CountersApplied(d, p, epoch, read, time)
  <1>1. \E ledgers : r = [e EXCEPT !.counters = counters, !.ledgers = ledgers]
    BY DEF CountersApplied
  <1>2. grown \in SUBSET Authorizations
    BY GrownType
  <1>3. e \in Database /\ e.counters = d.counters
    BY <1>2, EnsureLedgersFacts
  <1> HIDE DEF e, grown, r
  <1>4. \A a \in Authorizations, o \in Plugins :
          counters[<<a, o>>] = IF o = p /\ a \in Bound(d, p)
                               THEN [epoch |-> epoch, bytes |-> read[a]]
                               ELSE e.counters[<<a, o>>]
    BY DEF Keys
  <1>6. Bound(d, p) \subseteq Authorizations
    BY AuthorizedType DEF Bound
  <1> HIDE DEF counters
  <1>5. r.counters = counters
    BY <1>1, <1>3 DEF Database
  <1>7. \A a \in Bound(d, p) : [epoch |-> epoch, bytes |-> read[a]] \in Counter
    BY <1>6 DEF Counter
  <1>8. \A a \in Bound(d, p) : r.counters[<<a, p>>] = [epoch |-> epoch, bytes |-> read[a]]
    BY <1>4, <1>5, <1>6
  <1>9. \A a \in Bound(d, p) :
          /\ r.counters[<<a, p>>] # None
          /\ r.counters[<<a, p>>].epoch = epoch /\ r.counters[<<a, p>>].bytes = read[a]
    <2> SUFFICES ASSUME NEW a \in Bound(d, p)
                 PROVE  /\ r.counters[<<a, p>>] # None
                        /\ r.counters[<<a, p>>].epoch = epoch /\ r.counters[<<a, p>>].bytes = read[a]
      OBVIOUS
    <2>1. r.counters[<<a, p>>] = [epoch |-> epoch, bytes |-> read[a]]
      BY <1>8
    <2>2. r.counters[<<a, p>>] # None
      BY <1>7, <2>1, NoneAssumption
    <2> QED
      BY <2>1, <2>2
  <1> QED
    BY <1>3, <1>4, <1>5, <1>9 DEF r, TookCounters

\* What the engine has read of a counter is what the store has of it, except when
\* nobody will ask for it any more.
CounterRead(d, q, p, a) ==
  LET counter == d.counters[<<a, p>>] IN
  /\ q[p].read[a] <= q[p].counters[a]
  /\ counter # None => counter.epoch <= q[p].stream
  /\ ~Gone(d, a) => q[p].read[a] = IF counter # None /\ counter.epoch = q[p].stream
                                   THEN counter.bytes ELSE 0

CountersRead(d, q) ==
  \A p \in Plugins :
    q[p].stream <= q[p].instance /\ \A a \in Authorizations : CounterRead(d, q, p, a)

LEMMA GoneSame ==
  ASSUME NEW d, NEW r, r.snapshot = d.snapshot, NEW a
  PROVE  /\ Gone(r, a) <=> Gone(d, a)
         /\ Authorized(r) = Authorized(d)
  BY DEF Gone, Authorized, Policies

\* Bytes that are read are bytes that are booked.
LEMMA AppliedReads ==
  ASSUME IInv, IInv', CountersRead(db, procs), CountersAuthorized(db),
         NEW p \in Plugins, Applied(p)
  PROVE  /\ db'.snapshot = db.snapshot
         /\ CountersRead(db', procs') /\ CountersAuthorized(db')
         /\ \A a \in Bound(db, p) :
              Delta(db, <<a, p>>, procs[p].stream, procs[p].counters[a]) = UnreadOf(procs, p, a)
         /\ \A o \in Plugins \ {p} : procs'[o] = procs[o]
         /\ \A a \in Bound(db, p) : UnreadOf(procs', p, a) = 0
         /\ \A a \in Authorizations \ Bound(db, p) :
              UnreadOf(procs', p, a) = UnreadOf(procs, p, a)
  <1> DEFINE q == procs[p]
             r == procs'[p]
             read == [a \in Authorizations |->
                        IF a \in Bound(db, p) THEN q.counters[a] ELSE q.read[a]]
             new == [q EXCEPT !.read = read]
  <1>1. /\ db \in Database /\ now \in Nat /\ procs \in [Plugins -> Process]
        /\ q \in Process /\ q.stream \in Nat /\ q.counters \in [Authorizations -> Nat]
        /\ q.read \in [Authorizations -> Nat]
    BY DEF IInv, TypeOK, Process
  <1>2. db' = CountersApplied(db, p, q.stream, q.counters, now) /\ procs' = [procs EXCEPT ![p] = new]
    BY DEF Applied
  <1>3. /\ \A a \in Bound(db, p) :
             /\ db'.counters[<<a, p>>] # None /\ db'.counters[<<a, p>>].epoch = q.stream
             /\ db'.counters[<<a, p>>].bytes = q.counters[a]
        /\ \A a \in Authorizations, o \in Plugins :
             ~(o = p /\ a \in Bound(db, p)) => db'.counters[<<a, o>>] = db.counters[<<a, o>>]
    <2>1. TookCounters(CountersApplied(db, p, q.stream, q.counters, now), db, p, q.stream, q.counters)
      <3> HIDE DEF q
      <3> QED
        BY <1>1, AppliedCounters
    <2> QED
      BY <1>2, <2>1 DEF TookCounters
  <1>4. db'.snapshot = db.snapshot
    <2>1. SameSteering(CountersApplied(db, p, q.stream, q.counters, now), db)
      BY <1>1, CountersAppliedFacts
    <2> QED
      BY <1>2, <2>1 DEF SameSteering
  <1>5. Bound(db, p) \subseteq Authorized(db) /\ Authorized(db) \subseteq Authorizations
    BY <1>1, AuthorizedType DEF Bound
  <1>6. /\ new.counters = q.counters /\ new.stream = q.stream /\ new.instance = q.instance
        /\ new.read = read
    BY <1>1 DEF Process
  <1>7. \A a \in Authorizations : read[a] = IF a \in Bound(db, p) THEN q.counters[a] ELSE q.read[a]
    OBVIOUS
  <1> HIDE DEF new, read
  <1>8. r = new /\ \A o \in Plugins \ {p} : procs'[o] = procs[o]
    BY <1>1, <1>2
  <1>9. /\ r.counters = q.counters /\ r.stream = q.stream /\ r.instance = q.instance
        /\ \A a \in Authorizations :
             r.read[a] = IF a \in Bound(db, p) THEN q.counters[a] ELSE q.read[a]
    BY <1>6, <1>7, <1>8
  <1> HIDE DEF q, r
  <1>10. \A a \in Authorizations : CounterRead(db, procs, p, a)
    BY DEF CountersRead
  <1>11. ASSUME NEW a \in Bound(db, p)
         PROVE  Delta(db, <<a, p>>, q.stream, q.counters[a]) = q.counters[a] - q.read[a]
    <2> DEFINE counter == db.counters[<<a, p>>]
    <2>1. a \in Authorizations /\ ~Gone(db, a)
      BY <1>1, <1>5, NotGone
    <2>2. /\ q.read[a] <= q.counters[a]
          /\ q.read[a] = IF counter # None /\ counter.epoch = q.stream THEN counter.bytes ELSE 0
      BY <1>10, <2>1 DEF CounterRead, q
    <2>3. q.read[a] \in Nat /\ q.counters[a] \in Nat
      BY <1>1, <2>1
    <2>4. CASE counter # None /\ counter.epoch = q.stream
      BY <2>2, <2>3, <2>4 DEF Delta
    <2>5. CASE ~(counter # None /\ counter.epoch = q.stream)
      BY <2>2, <2>3, <2>5 DEF Delta
    <2> QED
      BY <2>4, <2>5
  <1>12. \A a \in Bound(db, p) : r.counters[a] - r.read[a] = 0
    BY <1>1, <1>5, <1>9
  <1>13. \A a \in Authorizations \ Bound(db, p) :
           r.counters[a] - r.read[a] = q.counters[a] - q.read[a]
    BY <1>9
  <1>14. CountersRead(db', procs')
    <2>1. ASSUME NEW o \in Plugins, o # p
          PROVE  /\ procs'[o].stream <= procs'[o].instance
                 /\ \A a \in Authorizations : CounterRead(db', procs', o, a)
      <3>1. /\ procs[o].stream <= procs[o].instance
            /\ \A a \in Authorizations : CounterRead(db, procs, o, a)
        BY DEF CountersRead
      <3>2. \A a \in Authorizations : db'.counters[<<a, o>>] = db.counters[<<a, o>>]
        BY <1>3, <2>1
      <3>3. procs'[o] = procs[o]
        BY <1>8, <2>1
      <3>4. \A a \in Authorizations : Gone(db', a) <=> Gone(db, a)
        BY <1>4, GoneSame
      <3> QED
        BY <3>1, <3>2, <3>3, <3>4 DEF CounterRead
    <2>2. ASSUME NEW a \in Bound(db, p)
          PROVE  CounterRead(db', procs', p, a)
      <3>1. a \in Authorizations
        BY <1>5
      <3>2. /\ db'.counters[<<a, p>>].epoch = q.stream
            /\ db'.counters[<<a, p>>].bytes = q.counters[a]
            /\ db'.counters[<<a, p>>] # None
        BY <1>3
      <3>5. /\ r.counters[a] = q.counters[a] /\ r.read[a] = q.counters[a] /\ r.stream = q.stream
            /\ q.counters[a] \in Nat
        BY <1>1, <1>9, <3>1
      <3> QED
        BY <1>1, <3>2, <3>5 DEF CounterRead, r
    <2>3. ASSUME NEW a \in Authorizations, a \notin Bound(db, p)
          PROVE  CounterRead(db', procs', p, a)
      <3>1. db'.counters[<<a, p>>] = db.counters[<<a, p>>]
        BY <1>3, <2>3
      <3>2. /\ r.counters[a] = q.counters[a] /\ r.read[a] = q.read[a] /\ r.stream = q.stream
        BY <1>9, <2>3
      <3>3. Gone(db', a) <=> Gone(db, a)
        BY <1>4, GoneSame
      <3>4. CounterRead(db, procs, p, a)
        BY <1>10
      <3> QED
        BY <3>1, <3>2, <3>3, <3>4 DEF CounterRead, r, q
    <2>4. procs'[p].stream <= procs'[p].instance
      BY <1>9 DEF CountersRead, r, q
    <2> QED
      BY <2>1, <2>2, <2>3, <2>4 DEF CountersRead
  <1>15. CountersAuthorized(db')
    <2>1. Authorized(db') = Authorized(db)
      BY <1>4, GoneSame
    <2> QED
      BY <1>3, <1>5, <2>1 DEF CountersAuthorized
  <1> QED
    BY <1>4, <1>8, <1>11, <1>12, <1>13, <1>14, <1>15 DEF UnreadOf, q, r

\* The transactions that book nothing, with what the plugins do in the meantime.
LEMMA CountersReadKept ==
  ASSUME IInv, IInv', CountersRead(db, procs), CountersAuthorized(db),
         Succeeds(db', db), CountersKept(db', db),
         \/ \A p \in Plugins : KeepsCounts(p)
         \/ \E p \in Plugins : Restarts(p)
         \/ \E p \in Plugins, a \in Authorizations : Carries(p, a)
  PROVE  CountersRead(db', procs') /\ CountersAuthorized(db')
  <1>1. /\ db \in Database /\ db' \in Database
        /\ procs \in [Plugins -> Process] /\ procs' \in [Plugins -> Process]
    BY DEF IInv, TypeOK
  <1>2. \A p \in Plugins : /\ procs[p] \in Process /\ procs'[p] \in Process
                           /\ procs[p].stream \in Nat /\ procs[p].instance \in Nat
                           /\ procs'[p].stream \in Nat /\ procs'[p].instance \in Nat
                           /\ procs[p].counters \in [Authorizations -> Nat]
                           /\ procs[p].read \in [Authorizations -> Nat]
    BY <1>1 DEF Process
  <1>3. \A p \in Plugins : /\ procs[p].stream <= procs[p].instance
                           /\ \A a \in Authorizations : CounterRead(db, procs, p, a)
    BY DEF CountersRead
  <1>4. CountersAuthorized(db')
    BY DEF CountersKept, CountersAuthorized
  <1>5. \A a \in Authorizations : Gone(db, a) => Gone(db', a)
    BY <1>1, GoneStays
  \* The store's side.
  <1>6. ASSUME NEW p \in Plugins, NEW a \in Authorizations
        PROVE  CounterRead(db', procs, p, a)
    <2> DEFINE old == db.counters[<<a, p>>]
               new == db'.counters[<<a, p>>]
    <2>1. new = old \/ (new = None /\ Gone(db', a))
      BY DEF CountersKept
    <2>2. CounterRead(db, procs, p, a)
      BY <1>3
    <2> QED
      BY <1>5, <2>1, <2>2 DEF CounterRead
  \* The plugins' side.
  <1>7. ASSUME NEW p \in Plugins, KeepsCounts(p)
        PROVE  /\ procs'[p].stream <= procs'[p].instance
               /\ \A a \in Authorizations : CounterRead(db', procs', p, a)
    <2>1. procs'[p].stream <= procs'[p].instance
      BY <1>2, <1>3, <1>7 DEF KeepsCounts
    <2>2. \A a \in Authorizations : CounterRead(db', procs', p, a)
      BY <1>6, <1>7 DEF KeepsCounts, CounterRead
    <2> QED
      BY <2>1, <2>2
  <1>8. ASSUME NEW p \in Plugins, procs'[p] = procs[p]
        PROVE  /\ procs'[p].stream <= procs'[p].instance
               /\ \A a \in Authorizations : CounterRead(db', procs', p, a)
    BY <1>3, <1>6, <1>8 DEF CounterRead
  <1>9. ASSUME NEW p \in Plugins, Restarts(p)
        PROVE  /\ procs'[p].stream <= procs'[p].instance
               /\ \A a \in Authorizations : CounterRead(db', procs', p, a)
    <2>1. /\ procs'[p].stream = procs[p].instance + 1 /\ procs'[p].instance = procs'[p].stream
          /\ procs[p].stream <= procs[p].instance
      BY <1>3, <1>9 DEF Restarts
    <2>2. ASSUME NEW a \in Authorizations
          PROVE  CounterRead(db', procs', p, a)
      <3> DEFINE counter == db'.counters[<<a, p>>]
      <3>1. procs'[p].counters[a] = 0 /\ procs'[p].read[a] = 0
        BY <1>9 DEF Restarts
      <3>2. counter # None => counter.epoch <= procs[p].stream /\ counter.epoch \in Nat
        <4>1. counter \in Or(Counter)
          BY <1>1 DEF Database, Keys
        <4>2. counter # None => counter.epoch \in Nat
          BY <4>1 DEF Or, Counter
        <4>3. CounterRead(db', procs, p, a)
          BY <1>6
        <4> QED
          BY <4>2, <4>3 DEF CounterRead
      <3>3. counter # None => counter.epoch <= procs'[p].stream /\ counter.epoch # procs'[p].stream
        BY <1>2, <2>1, <3>2
      <3> QED
        BY <3>1, <3>3 DEF CounterRead
    <2>3. procs'[p].stream <= procs'[p].instance
      BY <1>2, <2>1
    <2> QED
      BY <2>2, <2>3
  <1>10. ASSUME NEW p \in Plugins, NEW b \in Authorizations, Carries(p, b)
         PROVE  /\ procs'[p].stream <= procs'[p].instance
                /\ \A a \in Authorizations : CounterRead(db', procs', p, a)
                /\ \A q \in Plugins \ {p} : procs'[q] = procs[q]
    <2> DEFINE counters == [procs[p].counters EXCEPT ![b] = procs[p].counters[b] + 1]
               new == [procs[p] EXCEPT !.counters = counters]
    <2>1. procs' = [procs EXCEPT ![p] = new]
      BY <1>10 DEF Carries
    <2>2. \A a \in Authorizations : counters[a] >= procs[p].counters[a] /\ counters[a] \in Nat
      BY <1>2
    <2> HIDE DEF counters
    <2>3. /\ new.counters = counters /\ new.read = procs[p].read /\ new.stream = procs[p].stream
          /\ new.instance = procs[p].instance
      BY <1>2 DEF Process
    <2> HIDE DEF new
    <2>4. procs'[p] = new /\ \A q \in Plugins \ {p} : procs'[q] = procs[q]
      BY <1>1, <2>1
    <2>5. ASSUME NEW a \in Authorizations
          PROVE  CounterRead(db', procs', p, a)
      <3>1. CounterRead(db', procs, p, a)
        BY <1>6
      <3>2. new.read[a] <= new.counters[a]
        <4>1. procs[p].read[a] <= procs[p].counters[a] /\ procs[p].read[a] \in Nat
              /\ procs[p].counters[a] \in Nat
          BY <1>2, <3>1 DEF CounterRead
        <4> QED
          BY <2>2, <2>3, <4>1
      <3> QED
        BY <2>3, <2>4, <3>1, <3>2 DEF CounterRead
    <2> QED
      BY <1>3, <2>3, <2>4, <2>5
  <1>11. CountersRead(db', procs')
    <2>1. CASE \A p \in Plugins : KeepsCounts(p)
      BY <1>7, <2>1 DEF CountersRead
    <2>2. ASSUME NEW p \in Plugins, Restarts(p)
          PROVE  CountersRead(db', procs')
      <3>1. \A q \in Plugins \ {p} : procs'[q] = procs[q]
        BY <2>2 DEF Restarts
      <3> QED
        BY <1>8, <1>9, <2>2, <3>1 DEF CountersRead
    <2>3. ASSUME NEW p \in Plugins, NEW a \in Authorizations, Carries(p, a)
          PROVE  CountersRead(db', procs')
      BY <1>8, <1>10, <2>3 DEF CountersRead
    <2> QED
      BY <2>1, <2>2, <2>3
  <1> QED
    BY <1>4, <1>11

\* Every byte is in a period's account or is still to be read.
Balanced(d, sent, q, c) ==
  \A a \in Authorizations : CountedTotal(d, sent, a) + UnreadTotal(q, a) = c[a]

MarkReported(o, sent) ==
  o.pc = "mark" => sent[<<o.item.authorization, o.item.period>>] = o.item

BytesInv ==
  /\ now <= MaxTime
  /\ \A t \in db.pending : t.period \in Periods
  /\ LedgersReported(db, sink.traffic)
  /\ CountersAuthorized(db)
  /\ CountersRead(db, procs)
  /\ MarkReported(op, sink.traffic)
  /\ Balanced(db, sink.traffic, procs, carried)

LEMMA BalancedCounts == BytesInv => CountedOnce
  <1> SUFFICES ASSUME BytesInv, NEW a \in Authorizations
               PROVE  SumFunction([period \in Periods |-> Counted(a, period)])
                        + SumFunction([p \in Plugins |-> Unread(p, a)]) = carried[a]
    BY DEF CountedOnce
  <1>1. [period \in Periods |-> Counted(a, period)]
          = [period \in Periods |-> CountedIn(db, sink.traffic, a, period)]
    BY CountedIsCountedIn
  <1>2. [p \in Plugins |-> Unread(p, a)] = [p \in Plugins |-> UnreadOf(procs, p, a)]
    BY DEF Unread, UnreadOf
  <1>3. CountedTotal(db, sink.traffic, a) + UnreadTotal(procs, a) = carried[a]
    BY DEF BytesInv, Balanced
  <1> QED
    BY <1>1, <1>2, <1>3 DEF CountedTotal, UnreadTotal

LEMMA SumZero ==
  ASSUME NEW S, IsFiniteSet(S), NEW f, DOMAIN f = S, \A x \in S : f[x] = 0
  PROVE  SumFunction(f) = 0
  BY SumOfZeros DEF SumFunction

LEMMA BytesInit == Init => BytesInv
  <1> SUFFICES ASSUME Init PROVE BytesInv
    OBVIOUS
  <1>1. /\ \A a \in Authorizations : db.ledgers[a] = None
        /\ db.pending = {} /\ op.pc = "idle" /\ now = 0
        /\ \A k \in Keys : db.counters[k] = None
        /\ \A x \in Authorizations \X Periods : sink.traffic[x] = None
        /\ \A a \in Authorizations : carried[a] = 0
    BY IdleFacts DEF Init, EmptyDatabase, Nothing
  <1>2. \A p \in Plugins :
          /\ procs[p].stream = 0 /\ procs[p].instance = 0
          /\ \A a \in Authorizations : procs[p].counters[a] = 0 /\ procs[p].read[a] = 0
    BY DEF Init, NoProcess
  <1>3. \A a \in Authorizations, p \in Plugins : db.counters[<<a, p>>] = None
    BY <1>1 DEF Keys
  <1>4. MaxTime \in Nat
    BY PolicyEngineAssumption
  <1>5. ASSUME NEW a \in Authorizations
        PROVE  CountedTotal(db, sink.traffic, a) = 0 /\ UnreadTotal(procs, a) = 0
    <2> DEFINE f == [period \in Periods |-> CountedIn(db, sink.traffic, a, period)]
               g == [p \in Plugins |-> UnreadOf(procs, p, a)]
    <2>1. ASSUME NEW period \in Periods
          PROVE  CountedIn(db, sink.traffic, a, period) = 0
      <3>1. sink.traffic[<<a, period>>] = None /\ db.ledgers[a] = None
        BY <1>1
      <3>2. Waiting(db, a, period) = {}
        BY <1>1 DEF Waiting
      <3> QED
        BY <3>1, <3>2 DEF CountedIn
    <2>2. \A p \in Plugins : UnreadOf(procs, p, a) = 0
      BY <1>2 DEF UnreadOf
    <2>3. /\ DOMAIN f = Periods /\ \A x \in Periods : f[x] = 0
          /\ DOMAIN g = Plugins /\ \A x \in Plugins : g[x] = 0
      BY <2>1, <2>2
    <2> HIDE DEF f, g
    <2>4. SumFunction(f) = 0 /\ SumFunction(g) = 0
      BY <2>3, PeriodsFinite, PluginsAssumption, SumZero
    <2> QED
      BY <2>4 DEF CountedTotal, UnreadTotal, f, g
  <1>6. Balanced(db, sink.traffic, procs, carried)
    BY <1>1, <1>5 DEF Balanced
  <1>7. LedgersReported(db, sink.traffic) /\ MarkReported(op, sink.traffic)
    BY <1>1 DEF LedgersReported, MarkReported
  <1>8. CountersAuthorized(db)
    BY <1>3 DEF CountersAuthorized
  <1>9. CountersRead(db, procs)
    BY <1>2, <1>3 DEF CountersRead, CounterRead
  <1> QED
    BY <1>1, <1>4, <1>6, <1>7, <1>8, <1>9 DEF BytesInv

LEMMA ReportedStays ==
  ASSUME NEW d \in Database, NEW r \in Database, NEW sent, LedgersReported(d, sent),
         \A a \in Authorizations : \E gain \in Nat : Booked(r, d, sent, a, gain)
  PROVE  LedgersReported(r, sent)
  <1> SUFFICES ASSUME NEW a \in Authorizations, r.ledgers[a] # None
               PROVE  /\ r.ledgers[a].queued <= r.ledgers[a].revision
                      /\ ~Unqueued(r.ledgers[a])
                           => sent[<<a, r.ledgers[a].period>>] = TrafficOf(a, r.ledgers[a])
    BY DEF LedgersReported
  <1>1. PICK gain \in Nat : Booked(r, d, sent, a, gain)
    OBVIOUS
  <1>2. \/ r.ledgers[a] = d.ledgers[a]
        \/ Unqueued(r.ledgers[a])
        \/ /\ r.ledgers[a].queued = r.ledgers[a].revision
           /\ sent[<<a, r.ledgers[a].period>>] = TrafficOf(a, r.ledgers[a])
    BY <1>1 DEF Booked
  <1>3. r.ledgers[a].queued \in Nat /\ r.ledgers[a].revision \in Nat
    BY DEF Database, Or, Ledger
  <1>4. CASE r.ledgers[a] = d.ledgers[a]
    BY <1>4 DEF LedgersReported
  <1>5. CASE Unqueued(r.ledgers[a])
    BY <1>3, <1>5 DEF Unqueued
  <1> QED
    BY <1>2, <1>3, <1>4, <1>5

\* What a step books, and what it reads.
LEMMA BalanceStep ==
  ASSUME AuthorizationsDoNotReturn, IInv, IInv', AccountInv, BytesInv, [Next]_vars
  PROVE  /\ CountersRead(db', procs') /\ CountersAuthorized(db')
         /\ LedgersReported(db', sink.traffic)
         /\ Balanced(db', sink.traffic, procs', carried')
  <1> DEFINE sent == sink.traffic
  <1>1. /\ db \in Database /\ db' \in Database /\ now \in Nat
        /\ procs \in [Plugins -> Process] /\ procs' \in [Plugins -> Process]
        /\ carried \in [Authorizations -> Int] /\ carried' \in [Authorizations -> Int]
        /\ sent \in [Authorizations \X Periods -> Or(Traffic)]
    BY DEF IInv, TypeOK, Sink
  <1>2. Transaction /\ Accounted(db', db, now) /\ Succeeds(db', db)
    BY NextTransaction, AccountSteps DEF Succeeds
  <1>3. /\ LedgersReported(db, sent) /\ CountersAuthorized(db) /\ CountersRead(db, procs)
        /\ MarkReported(op, sent) /\ Balanced(db, sent, procs, carried) /\ now <= MaxTime
    BY DEF BytesInv
  <1>4. Accounts(db, now, sent) /\ Accounts(db', now, sent)
    BY <1>1, <1>2, AccountsKept DEF AccountInv
  <1>5. \A a \in Authorizations : db'.ledgers[a] # None => db'.ledgers[a].period \in Periods
    <2>1. MaxTime \in Nat
      BY PolicyEngineAssumption
    <2>2. PeriodOf(now) <= PeriodOf(MaxTime) /\ PeriodOf(now) \in Nat /\ PeriodOf(MaxTime) \in Nat
      BY <1>1, <1>3, <2>1, PeriodGrows, PeriodType
    <2>3. \A a \in Authorizations :
            db'.ledgers[a] # None => /\ db'.ledgers[a].period \in Nat
                                     /\ db'.ledgers[a].period <= PeriodOf(now)
      BY <1>1, <1>4, LedgerFields DEF Accounts, LedgersCurrent
    <2> QED
      BY <2>2, <2>3 DEF Periods
  <1>6. \A a \in Authorizations, gain \in Nat :
          Booked(db', db, sent, a, gain)
            => /\ CountedTotal(db, sent, a) \in Int
               /\ CountedTotal(db', sent, a) = CountedTotal(db, sent, a) + gain
    <2> SUFFICES ASSUME NEW a \in Authorizations, NEW gain \in Nat, Booked(db', db, sent, a, gain)
                 PROVE  /\ CountedTotal(db, sent, a) \in Int
                        /\ CountedTotal(db', sent, a) = CountedTotal(db, sent, a) + gain
      OBVIOUS
    <2> QED
      BY <1>1, <1>2, <1>3, <1>4, <1>5, TotalBooked
  <1>7. \A a \in Authorizations :
          CountedTotal(db, sent, a) + UnreadTotal(procs, a) = carried[a]
    BY <1>3 DEF Balanced
  <1> DEFINE Goal == /\ CountersRead(db', procs') /\ CountersAuthorized(db')
                     /\ LedgersReported(db', sent)
                     /\ Balanced(db', sent, procs', carried')
  <1>8. ASSUME NEW p \in Plugins, Applied(p)
        PROVE  Goal
    <2> DEFINE gain(a) == IF a \in Bound(db, p)
                          THEN Delta(db, <<a, p>>, procs[p].stream, procs[p].counters[a]) ELSE 0
    <2>1. /\ CountersRead(db', procs') /\ CountersAuthorized(db')
          /\ \A a \in Bound(db, p) :
               Delta(db, <<a, p>>, procs[p].stream, procs[p].counters[a]) = UnreadOf(procs, p, a)
          /\ \A o \in Plugins \ {p} : procs'[o] = procs[o]
          /\ \A a \in Bound(db, p) : UnreadOf(procs', p, a) = 0
          /\ \A a \in Authorizations \ Bound(db, p) :
               UnreadOf(procs', p, a) = UnreadOf(procs, p, a)
      BY <1>3, <1>8, AppliedReads
    <2>2. /\ procs[p].stream \in Nat /\ procs[p].counters \in [Authorizations -> Nat]
          /\ db' = CountersApplied(db, p, procs[p].stream, procs[p].counters, now)
          /\ carried' = carried
      BY <1>1, <1>8 DEF Applied, Process
    <2>3. ASSUME NEW a \in Authorizations
          PROVE  Booked(db', db, sent, a, gain(a)) /\ gain(a) \in Nat
      <3>1. Booked(CountersApplied(db, p, procs[p].stream, procs[p].counters, now), db, sent, a,
                   IF a \in Bound(db, p)
                   THEN Delta(db, <<a, p>>, procs[p].stream, procs[p].counters[a]) ELSE 0)
        BY <1>1, <1>3, <1>4, <2>2, CountersBooked
      <3>2. Booked(db', db, sent, a, gain(a))
        BY <2>2, <3>1
      <3> HIDE DEF gain
      <3> QED
        BY <3>2 DEF Booked
    <2>4. ASSUME NEW a \in Authorizations
          PROVE  CountedTotal(db', sent, a) + UnreadTotal(procs', a) = carried'[a]
      <3>1. /\ UnreadTotal(procs, a) \in Int
            /\ UnreadOf(procs, p, a) \in Int
            /\ UnreadTotal(procs', a)
                 = UnreadTotal(procs, a) + (UnreadOf(procs', p, a) - UnreadOf(procs, p, a))
        BY <1>1, <2>1, UnreadChanges
      <3>2. UnreadOf(procs', p, a) - UnreadOf(procs, p, a) = 0 - gain(a)
        BY <2>1, <3>1
      <3> HIDE DEF gain
      <3>3. /\ CountedTotal(db, sent, a) \in Int /\ gain(a) \in Nat
            /\ CountedTotal(db', sent, a) = CountedTotal(db, sent, a) + gain(a)
        BY <1>6, <2>3
      <3>4. CountedTotal(db, sent, a) + UnreadTotal(procs, a) = carried[a] /\ carried'[a] = carried[a]
        BY <1>7, <2>2
      <3> QED
        BY <3>1, <3>2, <3>3, <3>4
    <2>5. LedgersReported(db', sent)
      <3> HIDE DEF gain
      <3>1. \A a \in Authorizations : \E g \in Nat : Booked(db', db, sent, a, g)
        BY <2>3
      <3> QED
        BY <1>1, <1>3, <3>1, ReportedStays
    <2> QED
      BY <2>1, <2>4, <2>5 DEF Balanced
  <1>9. ASSUME \A p \in Plugins : ~Applied(p)
        PROVE  Goal
    <2>1. \A a \in Authorizations : CountersKept(db', db) /\ Booked(db', db, sent, a, 0)
      <3>1. op.pc = "mark" => sink.traffic[<<op.item.authorization, op.item.period>>] = op.item
        BY <1>3 DEF MarkReported
      <3> QED
        BY <1>3, <1>9, <3>1, BookSteps
    <2>2. LedgersReported(db', sent)
      <3>1. \A a \in Authorizations : \E g \in Nat : Booked(db', db, sent, a, g)
        BY <2>1
      <3> QED
        BY <1>1, <1>3, <3>1, ReportedStays
    <2>3. \/ (\A p \in Plugins : KeepsCounts(p)) /\ carried' = carried
          \/ \E p \in Plugins : Restarts(p)
          \/ \E p \in Plugins, a \in Authorizations : Carries(p, a)
      BY <1>9, CountSteps
    <2>4. CountersRead(db', procs') /\ CountersAuthorized(db')
      <3>1. CountersKept(db', db)
        BY <2>1 DEF CountersKept
      <3> QED
        BY <1>2, <1>3, <2>3, <3>1, CountersReadKept
    <2>5. \A a \in Authorizations :
            /\ CountedTotal(db, sent, a) \in Int
            /\ CountedTotal(db', sent, a) = CountedTotal(db, sent, a)
      <3>1. \A a \in Authorizations :
              /\ CountedTotal(db, sent, a) \in Int
              /\ CountedTotal(db', sent, a) = CountedTotal(db, sent, a) + 0
        BY <1>6, <2>1
      <3> QED
        BY <3>1
    <2>6. ASSUME NEW a \in Authorizations
          PROVE  CountedTotal(db', sent, a) + UnreadTotal(procs', a) = carried'[a]
      <3>1. CASE (\A p \in Plugins : KeepsCounts(p)) /\ carried' = carried
        <4>1. UnreadTotal(procs', a) = UnreadTotal(procs, a)
          BY <3>1, UnreadSame
        <4> QED
          BY <1>7, <2>5, <3>1, <4>1
      <3>2. ASSUME NEW p \in Plugins, Restarts(p)
            PROVE  CountedTotal(db', sent, a) + UnreadTotal(procs', a) = carried'[a]
        <4>1. /\ \A o \in Plugins \ {p} : procs'[o] = procs[o]
              /\ procs'[p].counters[a] = 0 /\ procs'[p].read[a] = 0
              /\ carried'[a] = carried[a] - Unread(p, a)
          BY <3>2 DEF Restarts
        <4>2. UnreadOf(procs', p, a) = 0 /\ Unread(p, a) = UnreadOf(procs, p, a)
          BY <4>1 DEF UnreadOf, Unread
        <4>3. /\ UnreadTotal(procs, a) \in Int /\ UnreadOf(procs, p, a) \in Int
              /\ UnreadTotal(procs', a)
                   = UnreadTotal(procs, a) + (UnreadOf(procs', p, a) - UnreadOf(procs, p, a))
          BY <1>1, <4>1, UnreadChanges
        <4> QED
          BY <1>7, <2>5, <4>1, <4>2, <4>3
      <3>3. ASSUME NEW p \in Plugins, NEW b \in Authorizations, Carries(p, b)
            PROVE  CountedTotal(db', sent, a) + UnreadTotal(procs', a) = carried'[a]
        <4> DEFINE counters == [procs[p].counters EXCEPT ![b] = procs[p].counters[b] + 1]
                   new == [procs[p] EXCEPT !.counters = counters]
        <4>1. /\ procs' = [procs EXCEPT ![p] = new]
              /\ carried' = [carried EXCEPT ![b] = carried[b] + 1]
          BY <3>3 DEF Carries
        <4>2. /\ procs[p] \in Process /\ procs[p].counters \in [Authorizations -> Nat]
              /\ procs[p].read \in [Authorizations -> Nat]
          BY <1>1 DEF Process
        <4>3. counters[a] = procs[p].counters[a] + (IF a = b THEN 1 ELSE 0)
          BY <4>2
        <4> HIDE DEF counters
        <4>4. new.counters = counters /\ new.read = procs[p].read
          BY <4>2 DEF Process
        <4> HIDE DEF new
        <4>5. procs'[p] = new /\ \A o \in Plugins \ {p} : procs'[o] = procs[o]
          BY <1>1, <4>1
        <4>6. UnreadOf(procs', p, a) - UnreadOf(procs, p, a) = IF a = b THEN 1 ELSE 0
          BY <4>2, <4>3, <4>4, <4>5 DEF UnreadOf
        <4>7. /\ UnreadTotal(procs, a) \in Int
              /\ UnreadTotal(procs', a)
                   = UnreadTotal(procs, a) + (UnreadOf(procs', p, a) - UnreadOf(procs, p, a))
          BY <1>1, <4>5, UnreadChanges
        <4>8. carried'[a] = carried[a] + (IF a = b THEN 1 ELSE 0)
          BY <1>1, <4>1
        <4> QED
          BY <1>7, <2>5, <4>6, <4>7, <4>8
      <3> QED
        BY <2>3, <3>1, <3>2, <3>3
    <2> QED
      BY <2>2, <2>4, <2>6 DEF Balanced
  <1> QED
    BY <1>8, <1>9

\* What there is to report is of a period the clock has reached.
LEMMA HeldPeriods ==
  ASSUME NEW d \in Database, NEW time \in Nat, time <= MaxTime, LedgersCurrent(d, time),
         \A t \in d.pending : t.period \in Periods, NEW t, Held(d, t)
  PROVE  t.authorization \in Authorizations /\ t.period \in Periods
  <1>1. CASE t \in d.pending
    BY <1>1 DEF Database, Traffic
  <1>2. ASSUME NEW a \in Authorizations, d.ledgers[a] # None, t = TrafficOf(a, d.ledgers[a])
        PROVE  t.authorization \in Authorizations /\ t.period \in Periods
    <2>1. MaxTime \in Nat
      BY PolicyEngineAssumption
    <2>2. PeriodOf(time) <= PeriodOf(MaxTime) /\ PeriodOf(time) \in Nat /\ PeriodOf(MaxTime) \in Nat
      BY <2>1, PeriodGrows, PeriodType
    <2>3. /\ t.authorization = a /\ t.period = d.ledgers[a].period /\ t.period \in Nat
          /\ t.period <= PeriodOf(time)
      BY <1>2, LedgerFields DEF LedgersCurrent
    <2> QED
      BY <2>2, <2>3 DEF Periods
  <1> QED
    BY <1>1, <1>2 DEF Held

\* Only EnqueueTraffic and Store.MarkTrafficQueued tell what was reported last.
LEMMA MarkSteps ==
  ASSUME IInv, IInv', AccountInv, BytesInv, [Next]_vars
  PROVE  MarkReported(op', sink'.traffic)
  <1>1. /\ op \in Op /\ sink \in Sink /\ db \in Database /\ now \in Nat
        /\ sink.traffic \in [Authorizations \X Periods -> Or(Traffic)]
    BY DEF IInv, TypeOK, Sink
  <1>2. ASSUME op'.pc # "mark"
        PROVE  MarkReported(op', sink'.traffic)
    BY <1>2 DEF MarkReported
  <1>3. ASSUME NEW t \in op.left, EnqueueTraffic(t)
        PROVE  MarkReported(op', sink'.traffic)
    <2>1. /\ op.pc = "enqueue"
          /\ op' = [op EXCEPT !.pc = "mark", !.left = op.left \ {t}, !.item = t]
          /\ sink' = [sink EXCEPT !.traffic[<<t.authorization, t.period>>] = t]
      BY <1>3 DEF EnqueueTraffic
    <2>2. t \in Traffic /\ Held(db, t)
      BY <2>1 DEF IInv, OpOK, AccountInv, QueueOK
    <2>3. t.authorization \in Authorizations /\ t.period \in Periods
      BY <1>1, <2>2, HeldPeriods DEF AccountInv, Accounts, BytesInv
    <2>4. sink'.traffic = [sink.traffic EXCEPT ![<<t.authorization, t.period>>] = t]
      BY <1>1, <2>1 DEF Sink
    <2>5. sink'.traffic[<<t.authorization, t.period>>] = t
      BY <1>1, <2>3, <2>4
    <2>6. op'.item = t
      BY <1>1, <2>1 DEF Op
    <2> QED
      BY <2>5, <2>6 DEF MarkReported
  <1>4. ASSUME op' = op, op.pc = "mark"
        PROVE  MarkReported(op', sink'.traffic)
    <2>1. sink'.traffic = sink.traffic
      <3>1. \A t : ~EnqueueTraffic(t)
        BY <1>4 DEF EnqueueTraffic
      <3> QED
        BY <1>1, <3>1, SinkSteps DEF EnqueueAccess, EnqueueStatus, Sink
    <2> QED
      BY <1>4, <2>1 DEF MarkReported, BytesInv
  <1>5. ASSUME PendingTrafficSnapshots \/ MarkTrafficQueued
        PROVE  op'.pc # "mark"
    <2>1. \E left : op' = Publishing("enqueue", left, At("desired")) \/ op' = At("desired")
      BY <1>5 DEF PendingTrafficSnapshots, MarkTrafficQueued
    <2>2. At("desired").pc = "desired"
      BY <1>1, AtFacts
    <2>3. \A left : [op EXCEPT !.pc = "enqueue", !.left = left, !.item = None].pc = "enqueue"
      BY <1>1 DEF Op
    <2> QED
      BY <2>1, <2>2, <2>3 DEF Publishing
  <1> QED
    BY <1>2, <1>3, <1>4, <1>5, OpSteps

LEMMA BytesStep ==
  ASSUME AuthorizationsDoNotReturn, IInv, IInv', AccountInv, BytesInv, [Next]_vars
  PROVE  BytesInv'
  <1> DEFINE sent == sink.traffic
  <1>1. /\ db \in Database /\ db' \in Database /\ now \in Nat /\ sink \in Sink
        /\ sent \in [Authorizations \X Periods -> Or(Traffic)] /\ now <= MaxTime
    BY DEF IInv, TypeOK, Sink, BytesInv
  <1>2. Transaction /\ Accounted(db', db, now) /\ Succeeds(db', db)
    BY NextTransaction, AccountSteps DEF Succeeds
  <1>3. Accounts(db, now, sent) /\ Accounts(db', now, sent)
    BY <1>1, <1>2, AccountsKept DEF AccountInv
  <1>4. /\ CountersRead(db', procs') /\ CountersAuthorized(db')
        /\ LedgersReported(db', sent) /\ Balanced(db', sent, procs', carried')
    BY BalanceStep
  <1>5. now' <= MaxTime
    <2>1. now' = now \/ Tick
      BY DEF Next, vars, RunCycle, Engine, Fails, Plugin, Tick, Crash, Execute, Collect, Apply,
         Publish, Start, Exit, Carry, Access, EnqueueAccess, ObserveActivity,
         AdvanceTelemetryCursor, CollectTelemetry, CollectFails, ReadDesired, SetServiceState,
         SetServiceStateFails, ReplaceDynamicBlocks, ReplaceDynamicBlocksFails,
         PendingTrafficSnapshots, MarkTrafficQueued, RefreshStatuses, MarkStatusQueued,
         EnqueueTraffic, EnqueueStatus, EventFails, TrafficFails, DesiredFails,
         RefreshStatusesFails, StatusesFail
    <2>2. MaxTime \in Nat
      BY PolicyEngineAssumption
    <2> QED
      BY <1>1, <2>1, <2>2 DEF Tick
  <1>6. \A t \in db'.pending : t.period \in Periods
    <2> SUFFICES ASSUME NEW t \in db'.pending PROVE t.period \in Periods
      OBVIOUS
    <2>1. t \in db.pending \/ Held(db, t)
      BY <1>2 DEF Accounted, Held
    <2>2. Held(db, t)
      BY <2>1 DEF Held
    <2>3. LedgersCurrent(db, now) /\ \A u \in db.pending : u.period \in Periods
      BY <1>3 DEF Accounts, BytesInv
    <2> QED
      BY <1>1, <2>2, <2>3, HeldPeriods
  <1>7. LedgersReported(db', sink'.traffic) /\ Balanced(db', sink'.traffic, procs', carried')
    <2>1. CASE \/ sink' = sink \/ EnqueueAccess
               \/ \E a \in Authorizations : EnqueueStatus(a)
      <3>1. sink'.traffic = sent
        BY <1>1, <2>1 DEF EnqueueAccess, EnqueueStatus, Sink
      <3> QED
        BY <1>4, <3>1
    <2>2. ASSUME NEW t \in op.left, EnqueueTraffic(t)
          PROVE  LedgersReported(db', sink'.traffic) /\ Balanced(db', sink'.traffic, procs', carried')
      <3> DEFINE new == [sent EXCEPT ![<<t.authorization, t.period>>] = t]
      <3>1. /\ op.pc = "enqueue" /\ db' = db
            /\ sink' = [sink EXCEPT !.traffic[<<t.authorization, t.period>>] = t]
        BY <2>2 DEF EnqueueTraffic
      <3>2. t \in Traffic /\ Held(db, t)
        BY <3>1 DEF IInv, OpOK, AccountInv, QueueOK
      <3>3. sink'.traffic = new
        BY <1>1, <3>1 DEF Sink
      <3>4. Balanced(db', new, procs', carried')
        <4>1. \A a \in Authorizations : CountedTotal(db, new, a) = CountedTotal(db, sent, a)
          BY <1>1, <1>3, <3>2, TotalReported
        <4> HIDE DEF new
        <4> QED
          BY <1>4, <3>1, <4>1 DEF Balanced
      <3>5. LedgersReported(db', new)
        <4> SUFFICES ASSUME NEW a \in Authorizations, db.ledgers[a] # None
                     PROVE  /\ db.ledgers[a].queued <= db.ledgers[a].revision
                            /\ ~Unqueued(db.ledgers[a])
                                 => new[<<a, db.ledgers[a].period>>] = TrafficOf(a, db.ledgers[a])
          BY <3>1 DEF LedgersReported
        <4> DEFINE u == TrafficOf(a, db.ledgers[a])
        <4>1. /\ db.ledgers[a].queued <= db.ledgers[a].revision
              /\ ~Unqueued(db.ledgers[a]) => sent[<<a, db.ledgers[a].period>>] = u
          BY <1>4, <3>1 DEF LedgersReported
        <4>2. u.authorization = a /\ u.period = db.ledgers[a].period /\ Held(db, u)
          BY <1>1, LedgerFields DEF Held
        <4>3. t.authorization \in Authorizations /\ t.period \in Periods
          BY <1>1, <1>3, <3>2, HeldPeriods DEF BytesInv, Accounts
        <4> HIDE DEF u
        <4>4. CASE a = t.authorization /\ db.ledgers[a].period = t.period
          <5>1. t = u
            BY <1>1, <1>3, <3>2, <4>2, <4>4, HeldUnique DEF Accounts
          <5>2. new[<<a, db.ledgers[a].period>>] = t
            BY <1>1, <4>3, <4>4
          <5> QED
            BY <4>1, <5>1, <5>2 DEF u
        <4>5. CASE ~(a = t.authorization /\ db.ledgers[a].period = t.period)
          <5>1. new[<<a, db.ledgers[a].period>>] = sent[<<a, db.ledgers[a].period>>]
            BY <4>5
          <5> QED
            BY <4>1, <5>1 DEF u
        <4> QED
          BY <4>4, <4>5
      <3> QED
        BY <3>3, <3>4, <3>5
    <2> QED
      BY <2>1, <2>2, SinkSteps
  <1>8. MarkReported(op', sink'.traffic)
    BY MarkSteps
  <1>9. /\ now' <= MaxTime
        /\ \A t \in db'.pending : t.period \in Periods
        /\ LedgersReported(db', sink'.traffic)
        /\ CountersAuthorized(db')
        /\ CountersRead(db', procs')
        /\ MarkReported(op', sink'.traffic)
        /\ Balanced(db', sink'.traffic, procs', carried')
    BY <1>4, <1>5, <1>6, <1>7, <1>8
  <1> QED
    BY <1>9 DEF BytesInv, LedgersReported, CountersAuthorized, CountersRead, CounterRead, MarkReported,
        Balanced, CountedTotal, CountedIn, Waiting, UnreadTotal, UnreadOf, Gone, Authorized, Policies

\* As long as the center does not give back an authorization it has taken away, every byte
\* that the plugins have carried is counted in one period, by Store.ApplyCounters, the
\* ledger's end, preservePendingTraffic and queueTraffic, or is still unread: over restarts
\* of the plugins with their counters or without, crashes at any point, and bindings that
\* come and go.
THEOREM BytesCountedOnce ==
  ASSUME AuthorizationsDoNotReturn
  PROVE  Spec => []CountedOnce
  <1>1. AccountInv /\ IInv /\ IInv' /\ [Next]_vars => AccountInv'
    BY AccountStep
  <1>2. BytesInv /\ AccountInv /\ IInv /\ IInv' /\ [Next]_vars => BytesInv'
    BY BytesStep
  <1> QED
    BY <1>1, <1>2, AccountInit, BytesInit, BalancedCounts, Invariance, PTL DEF Spec
=============================================================================
