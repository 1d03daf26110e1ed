------------------------ MODULE PolicyOutcomeProofs -------------------------
(***************************************************************************)
(* What comes of the policy engine's work: the slots it gives to           *)
(* addresses, the policy statuses it reports, and the access events.       *)
(***************************************************************************)
EXTENDS PolicyTrafficProofs, SequenceTheorems

-----------------------------------------------------------------------------
(* Slots.                                                                  *)

\* No address has a slot and a block.
Disjoint(d) == \A x \in Authorizations \X Sources : d.slots[x] = None \/ d.blocks[x] = None

\* The slots of a are within the soft limit of snapshot s.
Within(d, a, s) ==
  /\ a \in DOMAIN s.policies /\ s.policies[a].soft # None
  /\ Cardinality(SlotsOf(d, a)) <= s.policies[a].soft

\* The slots that are there were given under this snapshot, or an earlier one.
Granted(d) ==
  \A a \in Authorizations :
    \/ SlotsOf(d, a) = {}
    \/ \E s \in Snapshots : s.generation <= d.snapshot.generation /\ Within(d, a, s)

\* What a transaction does to slots and blocks: they only go, unless it is that of
\* Store.ObserveActivity.
LEMMA SlotSteps ==
  ASSUME IInv, Transaction
  PROVE  \/ /\ db'.snapshot = db.snapshot /\ FewerActivity(db', db)
         \/ \E s \in Snapshots :
              /\ s.generation > db.snapshot.generation /\ db'.snapshot = s
              /\ FewerActivity(db', db)
         \/ \E a \in Authorizations, source \in Sources, time \in Nat :
              db' = Observed(db, a, source, time)
  <1> DEFINE Quiet(r) == r.snapshot = db.snapshot /\ FewerActivity(r, db)
  <1>1. db \in Database /\ now \in Nat
    BY DEF IInv, TypeOK
  <1>2. \A r : r.snapshot = db.snapshot /\ r.slots = db.slots /\ r.blocks = db.blocks => Quiet(r)
    BY DEF FewerActivity
  <1>3. CASE db' = db
    BY <1>2, <1>3
  <1>4. ASSUME NEW s \in Snapshots, s.generation > db.snapshot.generation,
               db' = Reconciled(db, s)
        PROVE  db'.snapshot = s /\ FewerActivity(db', db)
    BY <1>1, <1>4, ReconciledFacts
  <1>5. ASSUME NEW p \in Plugins, NEW epoch \in Nat, NEW read \in [Authorizations -> Nat],
               db' = CountersApplied(db, p, epoch, read, now)
        PROVE  Quiet(db')
    <2>1. db'.snapshot = db.snapshot /\ db'.slots = db.slots /\ db'.blocks = db.blocks
      <3> DEFINE r == CountersApplied(db, p, epoch, read, now)
      <3>1. SameSteering(r, db) /\ r.slots = db.slots /\ r.blocks = db.blocks
        BY <1>1, CountersAppliedFacts
      <3> QED
        BY <1>5, <3>1 DEF SameSteering
    <2> QED
      BY <1>2, <2>1
  <1>6. ASSUME NEW p \in Plugins, NEW stream \in Nat, NEW sequence \in Nat,
               db' = CursorAdvanced(db, p, stream, sequence)
        PROVE  Quiet(db')
    <2>1. db'.snapshot = db.snapshot /\ db'.slots = db.slots /\ db'.blocks = db.blocks
      <3>1. SameSteering(db', db) /\ SameActivity(db', db)
        BY <1>1, <1>6, CursorAdvancedFacts
      <3> QED
        BY <3>1 DEF SameSteering, SameActivity
    <2> QED
      BY <1>2, <2>1
  <1>7. LET e == Refreshed(db, now) IN e.snapshot = db.snapshot /\ FewerActivity(e, db)
    BY <1>1, RefreshedFacts DEF SameSteering
  <1>8. CASE db' = Refreshed(db, now)
    BY <1>7, <1>8
  <1>9. ASSUME NEW t \in Traffic, TrafficMatches(db, t), db' = TrafficQueued(db, t)
        PROVE  Quiet(db')
    <2>1. db'.snapshot = db.snapshot /\ db'.slots = db.slots /\ db'.blocks = db.blocks
      BY <1>1, <1>9, TrafficQueuedFacts DEF SameSteering
    <2> QED
      BY <1>2, <2>1
  <1>10. CASE db' = DesiredUpdated(db, now)
    <2> DEFINE e == Refreshed(db, now)
    <2>1. db'.snapshot = db.snapshot /\ db'.slots = e.slots /\ db'.blocks = e.blocks
      BY <1>1, <1>10, DesiredUpdatedFacts
    <2> QED
      BY <1>7, <2>1 DEF FewerActivity
  <1>11. ASSUME NEW k \in Keys, NEW instance \in Nat, db.services[k] # None, Take(k),
                db' = ServiceApplied(db, k, instance)
         PROVE  Quiet(db')
    <2>1. db'.snapshot = db.snapshot /\ db'.slots = db.slots /\ db'.blocks = db.blocks
      BY <1>1, <1>11, ServiceAppliedFacts DEF SameAccounts
    <2> QED
      BY <1>2, <2>1
  <1>12. ASSUME NEW p \in Plugins, NEW instance \in Nat, db.blockSets[p] # None,
                db' = BlocksApplied(db, p, instance)
         PROVE  Quiet(db')
    <2>1. db'.snapshot = db.snapshot /\ db'.slots = db.slots /\ db'.blocks = db.blocks
      BY <1>1, <1>12, BlocksAppliedFacts DEF SameAccounts
    <2> QED
      BY <1>2, <2>1
  <1>13. ASSUME NEW instances \in [Plugins -> Or(Nat)],
                db' = StatusesRefreshed(db, instances, now)
         PROVE  Quiet(db')
    <2> DEFINE e == Refreshed(db, now)
    <2>1. db'.snapshot = db.snapshot /\ db'.slots = e.slots /\ db'.blocks = e.blocks
      BY <1>1, <1>13, StatusesRefreshedFacts DEF SameSteering
    <2> QED
      BY <1>7, <2>1 DEF FewerActivity
  <1>14. ASSUME NEW a \in Authorizations, db.statuses[a] # None, db' = StatusQueued(db, a)
         PROVE  Quiet(db')
    <2>1. db'.snapshot = db.snapshot /\ db'.slots = db.slots /\ db'.blocks = db.blocks
      BY <1>1, <1>14, StatusQueuedFacts DEF SameSteering, SameAccounts
    <2> QED
      BY <1>2, <2>1
  <1> QED
    BY <1>3, <1>4, <1>5, <1>6, <1>8, <1>9, <1>10, <1>11, <1>12, <1>13, <1>14 DEF Transaction

LEMMA FewerSlotsKept ==
  ASSUME NEW d \in Database, NEW r \in Database, FewerActivity(r, d),
         r.snapshot.generation >= d.snapshot.generation
  PROVE  /\ Disjoint(d) => Disjoint(r)
         /\ Granted(d) => Granted(r)
  <1>1. Disjoint(d) => Disjoint(r)
    BY DEF FewerActivity, Disjoint
  <1>2. ASSUME Granted(d), NEW a \in Authorizations, SlotsOf(r, a) # {}
        PROVE  \E s \in Snapshots : s.generation <= r.snapshot.generation /\ Within(r, a, s)
    <2>1. SlotsOf(r, a) \subseteq SlotsOf(d, a)
      BY FewerSlots
    <2>2. PICK s \in Snapshots : s.generation <= d.snapshot.generation /\ Within(d, a, s)
      BY <1>2, <2>1 DEF Granted
    <2>3. /\ d.snapshot.generation \in Nat /\ r.snapshot.generation \in Nat
          /\ s.generation \in Nat
      BY SnapshotType DEF Database
    <2>4. s.generation <= r.snapshot.generation
      BY <2>2, <2>3
    <2>5. Cardinality(SlotsOf(r, a)) <= Cardinality(SlotsOf(d, a))
      BY <2>1, SlotsFinite, FS_Subset
    <2>6. /\ a \in DOMAIN s.policies /\ s.policies[a].soft # None
          /\ Cardinality(SlotsOf(d, a)) <= s.policies[a].soft
      BY <2>2 DEF Within
    <2>7. s.policies[a].soft \in Nat
      BY <2>6, SnapshotType DEF Policy
    <2>8. Cardinality(SlotsOf(r, a)) \in Nat /\ Cardinality(SlotsOf(d, a)) \in Nat
      BY SlotsFinite
    <2> DEFINE m == Cardinality(SlotsOf(r, a))
               n == Cardinality(SlotsOf(d, a))
    <2> HIDE DEF m, n
    <2>9. m <= s.policies[a].soft
      BY <2>5, <2>6, <2>7, <2>8 DEF m, n
    <2> QED
      BY <2>4, <2>6, <2>9 DEF Within, m
  <1> QED
    BY <1>1, <1>2 DEF Granted

LEMMA ObservedKept ==
  ASSUME NEW d \in Database, NEW a \in Authorizations, NEW source \in Sources, NEW time \in Nat
  PROVE  LET r == Observed(d, a, source, time)
         IN  (Disjoint(d) => Disjoint(r)) /\ (Granted(d) => Granted(r))
  <1> DEFINE r == Observed(d, a, source, time)
  <1>1. /\ r \in Database /\ SameSteering(r, d)
        /\ \A x \in Authorizations \X Sources :
             r.slots[x] # None /\ r.blocks[x] # None => d.slots[x] # None /\ d.blocks[x] # None
        /\ \A b \in Authorizations :
             \/ SlotsOf(r, b) \subseteq SlotsOf(d, b)
             \/ b \in Limited(d) /\ Cardinality(SlotsOf(r, b)) <= Policies(d)[b].soft
    BY ObservedFacts
  <1> HIDE DEF r
  <1>2. Disjoint(d) => Disjoint(r)
    BY <1>1 DEF Disjoint
  <1>3. ASSUME Granted(d), NEW b \in Authorizations, SlotsOf(r, b) # {}
        PROVE  \E s \in Snapshots : s.generation <= r.snapshot.generation /\ Within(r, b, s)
    <2>1. r.snapshot = d.snapshot /\ d.snapshot.generation \in Nat
          /\ d.snapshot \in Snapshots \cup {NoSnapshot}
      BY <1>1, SnapshotType DEF SameSteering, Database
    <2>2. CASE SlotsOf(r, b) \subseteq SlotsOf(d, b)
      <3>1. PICK s \in Snapshots : s.generation <= d.snapshot.generation /\ Within(d, b, s)
        BY <1>3, <2>2 DEF Granted
      <3>2. /\ b \in DOMAIN s.policies /\ s.policies[b].soft # None
            /\ Cardinality(SlotsOf(d, b)) <= s.policies[b].soft
        BY <3>1 DEF Within
      <3>3. s.policies[b].soft \in Nat
        BY <3>2, SnapshotType DEF Policy
      <3> DEFINE m == Cardinality(SlotsOf(r, b))
                 n == Cardinality(SlotsOf(d, b))
      <3>4. m <= n /\ m \in Nat /\ n \in Nat
        BY <2>2, SlotsFinite, FS_Subset
      <3> HIDE DEF m, n
      <3>5. m <= s.policies[b].soft
        BY <3>2, <3>3, <3>4 DEF n
      <3> QED
        BY <2>1, <3>1, <3>2, <3>5 DEF Within, m
    <2>3. CASE b \in Limited(d) /\ Cardinality(SlotsOf(r, b)) <= Policies(d)[b].soft
      <3>1. /\ b \in DOMAIN d.snapshot.policies /\ d.snapshot.policies[b].soft # None
            /\ Cardinality(SlotsOf(r, b)) <= d.snapshot.policies[b].soft
        BY <2>3 DEF Limited, Authorized, Policies
      <3>2. d.snapshot \in Snapshots
        BY <2>1, <3>1 DEF NoSnapshot
      <3> QED
        BY <2>1, <3>1, <3>2 DEF Within
    <2> QED
      BY <1>1, <2>2, <2>3
  <1> QED
    BY <1>2, <1>3 DEF Granted, r

SlotInv == Disjoint(db) /\ Granted(db)

LEMMA SlotInvariance == Spec => []SlotInv
  <1>1. Init => SlotInv
    <2> SUFFICES ASSUME Init PROVE SlotInv
      OBVIOUS
    <2>1. \A x \in Authorizations \X Sources : db.slots[x] = None
      BY DEF Init, EmptyDatabase, Nothing
    <2>2. \A a \in Authorizations : SlotsOf(db, a) = {}
      BY <2>1 DEF SlotsOf
    <2> QED
      BY <2>1, <2>2 DEF SlotInv, Disjoint, Granted
  <1>2. SlotInv /\ IInv /\ IInv' /\ [Next]_vars => SlotInv'
    <2> SUFFICES ASSUME SlotInv, IInv, IInv', Transaction PROVE SlotInv'
      BY NextTransaction
    <2>1. db \in Database /\ db' \in Database
      BY DEF IInv, TypeOK
    <2>2. db.snapshot.generation \in Nat
      BY <2>1, SnapshotType DEF Database
    <2>3. Disjoint(db') /\ Granted(db')
      <3>1. CASE db'.snapshot = db.snapshot /\ FewerActivity(db', db)
        <4>1. db'.snapshot.generation >= db.snapshot.generation
          BY <2>2, <3>1
        <4> QED
          BY <2>1, <3>1, <4>1, FewerSlotsKept DEF SlotInv
      <3>2. ASSUME NEW s \in Snapshots, s.generation > db.snapshot.generation,
                   db'.snapshot = s, FewerActivity(db', db)
            PROVE  Disjoint(db') /\ Granted(db')
        <4>1. db'.snapshot.generation >= db.snapshot.generation
          BY <2>2, <3>2, SnapshotType
        <4> QED
          BY <2>1, <3>2, <4>1, FewerSlotsKept DEF SlotInv
      <3>3. ASSUME NEW a \in Authorizations, NEW source \in Sources, NEW time \in Nat,
                   db' = Observed(db, a, source, time)
            PROVE  Disjoint(db') /\ Granted(db')
        BY <2>1, <3>3, ObservedKept DEF SlotInv
      <3> QED
        BY <3>1, <3>2, <3>3, SlotSteps
    <2> QED
      BY <2>3 DEF SlotInv, Disjoint, Granted, Within, SlotsOf
  <1> QED
    BY <1>1, <1>2, Invariance, PTL DEF Spec

\* The center never lowers the soft limit of an authorization.
LimitsKept ==
  \A s, t \in Snapshots : \A a \in DOMAIN s.policies \cap DOMAIN t.policies :
    /\ s.generation <= t.generation
    /\ s.policies[a].soft # None /\ t.policies[a].soft # None
    => s.policies[a].soft <= t.policies[a].soft

\* As long as the center does not lower a limit, the addresses that Store.ObserveActivity
\* has given a slot never exceed it; with or without a slot, none of them is blocked.
\* (After a limit was lowered, the slots that were given before stay until they expire.)
THEOREM SlotsWithinLimit ==
  ASSUME LimitsKept
  PROVE  Spec => []SoftLimit
  <1>1. IInv /\ SlotInv => SoftLimit
    <2> SUFFICES ASSUME IInv, SlotInv, NEW a \in Limited(db)
                 PROVE  /\ Cardinality(SlotsOf(db, a)) <= Policies(db)[a].soft
                        /\ SlotsOf(db, a) \cap BlocksOf(db, a) = {}
      BY DEF SoftLimit
    <2>1. db \in Database /\ a \in Authorizations
      BY AuthorizedType DEF IInv, TypeOK, Limited
    <2>2. SlotsOf(db, a) \cap BlocksOf(db, a) = {}
      BY <2>1 DEF SlotInv, Disjoint, SlotsOf, BlocksOf
    <2> DEFINE t == db.snapshot
    <2>3. a \in DOMAIN t.policies /\ t.policies[a].soft # None /\ t \in Snapshots \cup {NoSnapshot}
      BY <2>1, AuthorizedType DEF Limited, Authorized, Policies
    <2>4. t \in Snapshots /\ t.policies[a].soft \in Nat
      <3>1. t \in Snapshots
        BY <2>3 DEF NoSnapshot
      <3> QED
        BY <2>3, <3>1, SnapshotType DEF Policy
    <2>5. Cardinality(SlotsOf(db, a)) <= t.policies[a].soft
      <3>1. CASE SlotsOf(db, a) = {}
        BY <2>4, <3>1, FS_EmptySet
      <3>2. CASE SlotsOf(db, a) # {}
        <4>1. PICK s \in Snapshots : s.generation <= t.generation /\ Within(db, a, s)
          BY <2>1, <3>2 DEF SlotInv, Granted
        <4>2. /\ a \in DOMAIN s.policies /\ s.policies[a].soft # None
              /\ Cardinality(SlotsOf(db, a)) <= s.policies[a].soft
          BY <4>1 DEF Within
        <4>3. s.policies[a].soft <= t.policies[a].soft
          BY <2>3, <2>4, <4>1, <4>2 DEF LimitsKept
        <4>4. s.policies[a].soft \in Nat
          BY <4>2, SnapshotType DEF Policy
        <4> DEFINE n == Cardinality(SlotsOf(db, a))
        <4>5. n \in Nat /\ n <= s.policies[a].soft
          BY <4>2, SlotsFinite
        <4> HIDE DEF n
        <4>6. n <= t.policies[a].soft
          BY <2>4, <4>3, <4>4, <4>5
        <4> QED
          BY <4>6 DEF n
      <3> QED
        BY <3>1, <3>2
    <2> QED
      BY <2>2, <2>5 DEF Policies
  <1> QED
    BY <1>1, Invariance, SlotInvariance, PTL

-----------------------------------------------------------------------------
(* Generations.                                                            *)

\* Every plugin that snapshot g binds a to has taken a state of that generation.
Reported(a, g, taken) ==
  \E s \in Snapshots :
    /\ s.generation = g /\ a \in DOMAIN s.policies
    /\ \A p \in s.policies[a].bindings : \E x \in taken[<<a, p>>] : x.generation = g

\* While the states are applied, and until the statuses are made, what is wanted of
\* the bound plugins is of the current generation.
ServicesCurrent(d) ==
  \A k \in Bindings(d.snapshot) :
    d.services[k] # None => d.services[k].generation = d.snapshot.generation

\* What is marked as applied was taken.
AppliedTaken(d, taken) ==
  \A k \in Keys :
    d.appliedServices[k] # None =>
      \E x \in taken[k] : x.generation = d.appliedServices[k].desired.generation

StatusesReported(d, taken) ==
  \A a \in Authorizations :
    d.statuses[a] # None => Reported(a, d.statuses[a].event.generation, taken)

SinkReported(status, taken) ==
  \A a \in Authorizations : status[a] # None => Reported(a, status[a].generation, taken)

GenInv ==
  /\ op.pc \in {"apply", "refresh"} => ServicesCurrent(db)
  /\ AppliedTaken(db, accepted)
  /\ StatusesReported(db, accepted)
  /\ SinkReported(sink.status, accepted)

LEMMA ReportedGrows ==
  ASSUME NEW a \in Authorizations, NEW g, NEW old, NEW new,
         \A k \in Keys : old[k] \subseteq new[k], Reported(a, g, old)
  PROVE  Reported(a, g, new)
  <1>1. PICK s \in Snapshots :
          /\ s.generation = g /\ a \in DOMAIN s.policies
          /\ \A p \in s.policies[a].bindings : \E x \in old[<<a, p>>] : x.generation = g
    BY DEF Reported
  <1>2. s.policies[a].bindings \subseteq Plugins
    BY <1>1, SnapshotType DEF Policy
  <1>3. \A p \in s.policies[a].bindings : old[<<a, p>>] \subseteq new[<<a, p>>]
    BY <1>2 DEF Keys
  <1> QED
    BY <1>1, <1>3 DEF Reported

\* Which steps change what the plugins have taken, and the statuses in the queue.
LEMMA TakenSteps ==
  ASSUME [Next]_vars
  PROVE  \/ accepted' = accepted
         \/ \E k \in Keys : SetServiceState(k) \/ (SetServiceStateFails(k) /\ Take(k))
  BY DEF Next, vars, RunCycle, Engine, Fails, Plugin, Tick, Crash, Execute, Collect, Apply, Publish,
     Start, Exit, Carry, Access, EnqueueAccess, ObserveActivity, AdvanceTelemetryCursor,
     CollectTelemetry, CollectFails, ReadDesired, SetServiceStateFails, ReplaceDynamicBlocks,
     ReplaceDynamicBlocksFails, PendingTrafficSnapshots, MarkTrafficQueued, RefreshStatuses,
     MarkStatusQueued, EnqueueTraffic, EnqueueStatus, EventFails, TrafficFails, DesiredFails,
     RefreshStatusesFails, StatusesFail

LEMMA AcceptedGrows ==
  ASSUME IInv, [Next]_vars
  PROVE  \A k \in Keys : accepted[k] \subseteq accepted'[k]
  <1>1. ASSUME NEW k \in Keys, SetServiceState(k) \/ (SetServiceStateFails(k) /\ Take(k))
        PROVE  \A j \in Keys : accepted[j] \subseteq accepted'[j]
    <2>1. op.pc = "apply" /\ k \in op.left /\ Take(k)
      BY <1>1 DEF SetServiceState, SetServiceStateFails
    <2>2. db.services[k] # None
      BY <2>1, ApplyFacts
    <2> QED
      BY <2>1, <2>2, TakeFacts
  <1> QED
    BY <1>1, TakenSteps

\* Without a fault of the store, the states are applied only after Store.Desired.
LEMMA PcSteps ==
  ASSUME IInv, [Next]_vars, ~StoreMayFail, op'.pc \in {"apply", "refresh"}
  PROVE  op.pc \in {"apply", "refresh"} \/ ReadDesired
  <1>1. op \in Op
    BY DEF IInv, TypeOK
  <1>2. CASE PendingTrafficSnapshots \/ MarkTrafficQueued \/ \E t \in op.left : EnqueueTraffic(t)
    <2>1. At("desired").pc = "desired"
      BY <1>1, AtFacts
    <2>2. \A left : [op EXCEPT !.pc = "enqueue", !.left = left, !.item = None].pc = "enqueue"
      BY <1>1 DEF Op
    <2>3. \A left, t : [op EXCEPT !.pc = "mark", !.left = left, !.item = t].pc = "mark"
      BY <1>1 DEF Op
    <2> QED
      BY <1>2, <2>1, <2>2, <2>3
      DEF PendingTrafficSnapshots, MarkTrafficQueued, EnqueueTraffic, Publishing
  <1> QED
    BY <1>2, OpSteps DEF DesiredFails

\* Which transactions change what is wanted of the plugins, and what they have done.
SameServices(r, d) ==
  r.snapshot = d.snapshot /\ r.services = d.services /\ r.appliedServices = d.appliedServices

ServiceTaken(k) ==
  /\ db.services[k] # None /\ Take(k) /\ db'.snapshot = db.snapshot
  /\ db'.services[k] \in {None, db.services[k]}
  /\ db'.appliedServices[k].desired = db.services[k]
  /\ \A j \in Keys \ {k} : /\ db'.services[j] = db.services[j]
                          /\ db'.appliedServices[j] = db.appliedServices[j]

LEMMA ServiceSteps ==
  ASSUME IInv, Transaction
  PROVE  \/ SameServices(db', db)
         \/ /\ op.pc = "idle"
            /\ db'.services = db.services /\ db'.appliedServices = db.appliedServices
         \/ /\ op.pc = "desired" /\ db'.appliedServices = db.appliedServices
         \/ \E k \in Keys : ServiceTaken(k)
  <1>1. db \in Database /\ now \in Nat
    BY DEF IInv, TypeOK
  <1>2. \A r : SameSteering(r, db) => SameServices(r, db)
    BY DEF SameSteering, SameServices
  <1>3. CASE db' = db
    BY <1>3 DEF SameServices
  <1>4. ASSUME NEW s \in Snapshots, db' = Reconciled(db, s)
        PROVE  db'.services = db.services /\ db'.appliedServices = db.appliedServices
    BY <1>1, <1>4, ReconciledFacts
  <1>5. ASSUME NEW p \in Plugins, NEW epoch \in Nat, NEW read \in [Authorizations -> Nat],
               db' = CountersApplied(db, p, epoch, read, now)
        PROVE  SameSteering(db', db)
    <2> DEFINE r == CountersApplied(db, p, epoch, read, now)
    <2>1. SameSteering(r, db)
      BY <1>1, CountersAppliedFacts
    <2> QED
      BY <1>5, <2>1
  <1>6. ASSUME NEW a \in Authorizations, NEW source \in Sources, NEW time \in Nat,
               db' = Observed(db, a, source, time)
        PROVE  SameSteering(db', db)
    BY <1>1, <1>6, ObservedFacts
  <1>7. ASSUME NEW p \in Plugins, NEW stream \in Nat, NEW sequence \in Nat,
               db' = CursorAdvanced(db, p, stream, sequence)
        PROVE  SameSteering(db', db)
    BY <1>1, <1>7, CursorAdvancedFacts
  <1>8. CASE db' = Refreshed(db, now)
    <2>1. SameSteering(db', db)
      BY <1>1, <1>8, RefreshedFacts
    <2> QED
      BY <1>2, <2>1
  <1>9. ASSUME NEW t \in Traffic, TrafficMatches(db, t), db' = TrafficQueued(db, t)
        PROVE  SameSteering(db', db)
    BY <1>1, <1>9, TrafficQueuedFacts
  <1>11. ASSUME NEW k \in Keys, NEW instance \in Nat, db.services[k] # None, Take(k),
                db' = ServiceApplied(db, k, instance)
         PROVE  ServiceTaken(k)
    <2>1. /\ db'.snapshot = db.snapshot
          /\ db'.services[k] \in {None, db.services[k]}
          /\ db'.appliedServices[k] = [instance |-> instance, desired |-> db.services[k]]
          /\ \A j \in Keys \ {k} : /\ db'.services[j] = db.services[j]
                                  /\ db'.appliedServices[j] = db.appliedServices[j]
      BY <1>1, <1>11, ServiceAppliedFacts
    <2> QED
      BY <1>11, <2>1 DEF ServiceTaken
  <1>12. ASSUME NEW p \in Plugins, NEW instance \in Nat, db.blockSets[p] # None,
                db' = BlocksApplied(db, p, instance)
         PROVE  SameServices(db', db)
    <2>1. /\ db'.snapshot = db.snapshot /\ db'.services = db.services
          /\ db'.appliedServices = db.appliedServices
      BY <1>1, <1>12, BlocksAppliedFacts
    <2> QED
      BY <2>1 DEF SameServices
  <1>13. ASSUME NEW instances \in [Plugins -> Or(Nat)],
                db' = StatusesRefreshed(db, instances, now)
         PROVE  SameSteering(db', db)
    BY <1>1, <1>13, StatusesRefreshedFacts
  <1>14. ASSUME NEW a \in Authorizations, db.statuses[a] # None, db' = StatusQueued(db, a)
         PROVE  SameSteering(db', db)
    BY <1>1, <1>14, StatusQueuedFacts
  <1>15. (op.pc = "desired" /\ db' = DesiredUpdated(db, now)) =>
           op.pc = "desired" /\ db'.appliedServices = db.appliedServices
    <2>1. CASE db' = DesiredUpdated(db, now)
      BY <1>1, <2>1, DesiredUpdatedFacts
    <2> QED
      BY <2>1
  <1> QED
    BY <1>2, <1>3, <1>4, <1>5, <1>6, <1>7, <1>8, <1>9, <1>11, <1>12, <1>13, <1>14, <1>15
    DEF Transaction

\* Which make statuses.
LEMMA StatusSteps ==
  ASSUME IInv, Transaction, NEW a \in Authorizations
  PROVE  \/ db'.statuses[a] = None
         \/ db.statuses[a] # None /\ db'.statuses[a].event = db.statuses[a].event
         \/ /\ op.pc = "refresh" /\ a \in Authorized(db)
            /\ db'.statuses[a].event.generation = db.snapshot.generation
            /\ \A p \in Policies(db)[a].bindings :
                 /\ db.services[<<a, p>>] # None /\ db.appliedServices[<<a, p>>] # None
                 /\ db.appliedServices[<<a, p>>].desired = db.services[<<a, p>>]
  <1> DEFINE Kept(r) == r.statuses = db.statuses
             Goal == \/ db'.statuses[a] = None
                     \/ db.statuses[a] # None /\ db'.statuses[a].event = db.statuses[a].event
  <1>1. db \in Database /\ now \in Nat
    BY DEF IInv, TypeOK
  <1>2. Kept(db') => Goal
    OBVIOUS
  <1>3. CASE db' = db
    BY <1>2, <1>3
  <1>4. ASSUME NEW s \in Snapshots, db' = Reconciled(db, s)
        PROVE  Goal
    <2> DEFINE r == Reconciled(db, s)
    <2>1. \A b \in Authorizations :
            /\ r.ledgers[b] = IF b \in DOMAIN s.policies THEN db.ledgers[b] ELSE None
            /\ r.statuses[b] = IF b \in DOMAIN s.policies THEN db.statuses[b] ELSE None
      BY <1>1, ReconciledFacts, Zenon
    <2>2. db'.statuses = r.statuses
      BY <1>4
    <2> HIDE DEF r
    <2> QED
      BY <2>1, <2>2
  <1>5. ASSUME NEW p \in Plugins, NEW epoch \in Nat, NEW read \in [Authorizations -> Nat],
               db' = CountersApplied(db, p, epoch, read, now)
        PROVE  Kept(db')
    <2> DEFINE r == CountersApplied(db, p, epoch, read, now)
    <2>1. SameStatuses(r, db)
      BY <1>1, CountersAppliedStatuses
    <2> QED
      BY <1>5, <2>1 DEF SameStatuses
  <1>6. ASSUME NEW b \in Authorizations, NEW source \in Sources, NEW time \in Nat,
               db' = Observed(db, b, source, time)
        PROVE  Kept(db')
    BY <1>1, <1>6, ObservedFacts
  <1>7. ASSUME NEW p \in Plugins, NEW stream \in Nat, NEW sequence \in Nat,
               db' = CursorAdvanced(db, p, stream, sequence)
        PROVE  Kept(db')
    <2> DEFINE r == CursorAdvanced(db, p, stream, sequence)
    <2>1. SameBooks(r, db)
      BY <1>1, CursorAdvancedBooks
    <2> QED
      BY <1>7, <2>1 DEF SameBooks
  <1>8. CASE db' = Refreshed(db, now)
    <2>1. Kept(db')
      BY <1>1, <1>8, RefreshedFacts
    <2> QED
      BY <1>2, <2>1
  <1>9. ASSUME NEW t \in Traffic, TrafficMatches(db, t), db' = TrafficQueued(db, t)
        PROVE  Kept(db')
    BY <1>1, <1>9, TrafficQueuedFacts
  <1>10. CASE db' = DesiredUpdated(db, now)
    <2>1. Kept(db')
      BY <1>1, <1>10, DesiredUpdatedFacts
    <2> QED
      BY <1>2, <2>1
  <1>11. ASSUME NEW k \in Keys, NEW instance \in Nat, db.services[k] # None,
                db' = ServiceApplied(db, k, instance)
         PROVE  Kept(db')
    BY <1>1, <1>11, ServiceAppliedFacts
  <1>12. ASSUME NEW p \in Plugins, NEW instance \in Nat, db.blockSets[p] # None,
                db' = BlocksApplied(db, p, instance)
         PROVE  Kept(db')
    BY <1>1, <1>12, BlocksAppliedFacts
  <1>13. ASSUME NEW instances \in [Plugins -> Or(Nat)],
                db' = StatusesRefreshed(db, instances, now)
         PROVE  \/ Goal
                \/ /\ a \in Authorized(db)
                   /\ db'.statuses[a].event.generation = db.snapshot.generation
                   /\ \A p \in Policies(db)[a].bindings :
                        /\ db.services[<<a, p>>] # None /\ db.appliedServices[<<a, p>>] # None
                        /\ db.appliedServices[<<a, p>>].desired = db.services[<<a, p>>]
    <2>1. \/ db'.statuses[a] = db.statuses[a]
          \/ /\ db'.statuses[a] # None /\ a \in Authorized(db)
             /\ db'.statuses[a].event.generation = db.snapshot.generation
             /\ \A p \in Policies(db)[a].bindings :
                  /\ db.services[<<a, p>>] # None /\ db.appliedServices[<<a, p>>] # None
                  /\ db.appliedServices[<<a, p>>].desired = db.services[<<a, p>>]
      BY <1>1, <1>13, StatusesRefreshedFacts
    <2> QED
      BY <2>1
  <1>14. ASSUME NEW b \in Authorizations, db.statuses[b] # None, db' = StatusQueued(db, b)
         PROVE  Goal
    BY <1>1, <1>14, StatusQueuedFacts
  <1> QED
    BY <1>2, <1>3, <1>4, <1>5, <1>6, <1>7, <1>8, <1>9, <1>10, <1>11, <1>12, <1>13, <1>14
    DEF Transaction

LEMMA GenInit == Init => GenInv
  <1> SUFFICES ASSUME Init PROVE GenInv
    OBVIOUS
  <1>1. op.pc = "idle"
    BY IdleFacts DEF Init
  <1>2. /\ \A k \in Keys : db.appliedServices[k] = None
        /\ \A a \in Authorizations : db.statuses[a] = None /\ sink.status[a] = None
    BY DEF Init, EmptyDatabase, Nothing
  <1> QED
    BY <1>1, <1>2 DEF GenInv, AppliedTaken, StatusesReported, SinkReported

LEMMA GenStep ==
  ASSUME ~StoreMayFail, IInv, IInv', GenInv, [Next]_vars
  PROVE  GenInv'
  <1>1. Transaction /\ db \in Database /\ now \in Nat
    BY NextTransaction DEF IInv, TypeOK
  <1>2. \A k \in Keys : accepted[k] \subseteq accepted'[k]
    BY AcceptedGrows
  <1>3. ASSUME op'.pc \in {"apply", "refresh"}
        PROVE  ServicesCurrent(db')
    <2>1. CASE ReadDesired
      <3>1. db' = DesiredUpdated(db, now)
        BY <2>1 DEF ReadDesired
      <3>2. \A k \in ServicesListed(db') : db'.services[k].generation = db'.snapshot.generation
        BY <1>1, <3>1, DesiredUpdatedFacts
      <3>3. Bindings(db'.snapshot) \subseteq ServicesListed(db')
        BY DEF ServicesListed
      <3> QED
        BY <3>2, <3>3 DEF ServicesCurrent
    <2>2. CASE op.pc \in {"apply", "refresh"}
      <3>1. ServicesCurrent(db)
        BY <2>2 DEF GenInv
      <3>2. CASE SameServices(db', db)
        BY <3>1, <3>2 DEF SameServices, ServicesCurrent
      <3>3. ASSUME NEW k \in Keys, ServiceTaken(k)
            PROVE  ServicesCurrent(db')
        <4>1. Bindings(db.snapshot) \subseteq Keys
          BY DEF Bindings
        <4>2. \A j \in Keys : db'.services[j] \in {None, db.services[j]}
          BY <3>3 DEF ServiceTaken
        <4>3. db'.snapshot = db.snapshot
          BY <3>3 DEF ServiceTaken
        <4> QED
          BY <3>1, <4>1, <4>2, <4>3 DEF ServicesCurrent
      <3> QED
        BY <1>1, <2>2, <3>2, <3>3, ServiceSteps
    <2> QED
      BY <1>3, <2>1, <2>2, PcSteps
  <1>4. AppliedTaken(db', accepted')
    <2>1. AppliedTaken(db, accepted')
      BY <1>2 DEF GenInv, AppliedTaken
    <2>2. CASE db'.appliedServices = db.appliedServices
      BY <2>1, <2>2 DEF AppliedTaken
    <2>3. ASSUME NEW k \in Keys, ServiceTaken(k)
          PROVE  AppliedTaken(db', accepted')
      <3>1. \E x \in accepted'[k] : x.generation = db.services[k].generation
        BY <2>3, TakeFacts DEF ServiceTaken
      <3>2. db'.appliedServices[k].desired = db.services[k]
        BY <2>3 DEF ServiceTaken
      <3>3. \A j \in Keys \ {k} : db'.appliedServices[j] = db.appliedServices[j]
        BY <2>3 DEF ServiceTaken
      <3> QED
        BY <2>1, <3>1, <3>2, <3>3 DEF AppliedTaken
    <2> QED
      BY <1>1, <2>2, <2>3, ServiceSteps DEF SameServices
  <1>5. StatusesReported(db', accepted')
    <2> SUFFICES ASSUME NEW a \in Authorizations, db'.statuses[a] # None
                 PROVE  Reported(a, db'.statuses[a].event.generation, accepted')
      BY DEF StatusesReported
    <2>1. CASE db.statuses[a] # None /\ db'.statuses[a].event = db.statuses[a].event
      <3>1. Reported(a, db.statuses[a].event.generation, accepted)
        BY <2>1 DEF GenInv, StatusesReported
      <3> QED
        BY <1>2, <2>1, <3>1, ReportedGrows
    <2>2. CASE /\ op.pc = "refresh" /\ a \in Authorized(db)
               /\ db'.statuses[a].event.generation = db.snapshot.generation
               /\ \A p \in Policies(db)[a].bindings :
                    /\ db.services[<<a, p>>] # None /\ db.appliedServices[<<a, p>>] # None
                    /\ db.appliedServices[<<a, p>>].desired = db.services[<<a, p>>]
      <3> DEFINE s == db.snapshot
      <3>1. s \in Snapshots /\ a \in DOMAIN s.policies /\ s.policies[a].bindings \subseteq Plugins
        <4>1. a \in DOMAIN s.policies /\ s \in Snapshots \cup {NoSnapshot}
          BY <1>1, <2>2 DEF Authorized, Policies, Database
        <4>2. s # NoSnapshot
          BY <4>1 DEF NoSnapshot
        <4> QED
          BY <4>1, <4>2, SnapshotType DEF Policy
      <3>2. ASSUME NEW p \in s.policies[a].bindings
            PROVE  \E x \in accepted[<<a, p>>] : x.generation = s.generation
        <4>1. <<a, p>> \in Keys /\ <<a, p>> \in Bindings(s)
          BY <3>1 DEF Keys, Bindings
        <4>2. db.services[<<a, p>>].generation = s.generation
          BY <2>2, <4>1 DEF GenInv, ServicesCurrent, Policies
        <4>3. /\ db.appliedServices[<<a, p>>] # None
              /\ db.appliedServices[<<a, p>>].desired = db.services[<<a, p>>]
          BY <2>2 DEF Policies
        <4> QED
          BY <4>1, <4>2, <4>3 DEF GenInv, AppliedTaken
      <3>3. Reported(a, s.generation, accepted)
        BY <3>1, <3>2 DEF Reported
      <3> HIDE DEF s
      <3> QED
        BY <1>2, <2>2, <3>3, ReportedGrows DEF s
    <2> QED
      BY <1>1, <2>1, <2>2, StatusSteps
  <1>6. SinkReported(sink'.status, accepted')
    <2>1. SinkReported(sink.status, accepted')
      BY <1>2, ReportedGrows DEF GenInv, SinkReported
    <2>2. CASE sink' = sink
      BY <2>1, <2>2
    <2>3. sink \in Sink
      BY DEF IInv, TypeOK
    <2>4. CASE EnqueueAccess \/ \E t \in op.left : EnqueueTraffic(t)
      <3>1. sink'.status = sink.status
        BY <2>3, <2>4 DEF EnqueueAccess, EnqueueTraffic, Sink
      <3> QED
        BY <2>1, <3>1
    <2>5. ASSUME NEW a \in Authorizations, EnqueueStatus(a)
          PROVE  SinkReported(sink'.status, accepted')
      <3>1. /\ op.pc = "publish" /\ a \in op.left
            /\ sink' = [sink EXCEPT !.status[a] = db.statuses[a].event]
        BY <2>5 DEF EnqueueStatus
      <3>2. db.statuses[a] # None
        BY <3>1 DEF IInv, OpOK, Publishes
      <3>3. Reported(a, db.statuses[a].event.generation, accepted')
        BY <1>2, <3>2, ReportedGrows DEF GenInv, StatusesReported
      <3>4. sink'.status = [sink.status EXCEPT ![a] = db.statuses[a].event]
        BY <2>3, <3>1 DEF Sink
      <3>5. \A b \in Authorizations :
              sink'.status[b] = IF b = a THEN db.statuses[a].event ELSE sink.status[b]
        BY <2>3, <3>4 DEF Sink
      <3> QED
        BY <2>1, <3>3, <3>5 DEF SinkReported
    <2> QED
      BY <2>2, <2>4, <2>5, SinkSteps
  <1> QED
    BY <1>3, <1>4, <1>5, <1>6
    DEF GenInv, ServicesCurrent, AppliedTaken, StatusesReported, SinkReported

\* As long as no transaction fails, a policy status names a generation only after every
\* plugin bound by that snapshot has taken a state of that generation: applyDesired marks
\* what a plugin has taken, and RefreshStatuses makes a status when all of it is marked.
\* (When Store.Desired fails, RefreshStatuses still runs, on what was wanted before.)
THEOREM GenerationReported ==
  ASSUME ~StoreMayFail
  PROVE  Spec => []GenerationApplied
  <1>1. GenInv /\ IInv /\ IInv' /\ [Next]_vars => GenInv'
    BY GenStep
  <1>2. GenInv => GenerationApplied
    <2> SUFFICES ASSUME GenInv, NEW a \in Authorizations, sink.status[a] # None
                 PROVE  \A p \in SnapshotOf(sink.status[a].generation).policies[a].bindings :
                          \E x \in accepted[<<a, p>>] :
                            x.generation = sink.status[a].generation
      BY DEF GenerationApplied
    <2> DEFINE g == sink.status[a].generation
    <2>1. PICK s \in Snapshots :
            /\ s.generation = g /\ a \in DOMAIN s.policies
            /\ \A p \in s.policies[a].bindings : \E x \in accepted[<<a, p>>] : x.generation = g
      BY DEF GenInv, SinkReported, Reported
    <2>2. SnapshotOf(g) = s
      BY <2>1 DEF SnapshotOf
    <2> QED
      BY <2>1, <2>2
  <1> QED
    BY <1>1, <1>2, GenInit, Invariance, PTL DEF Spec

-----------------------------------------------------------------------------
(* Access events.                                                          *)

LEMMA CursorSteps ==
  ASSUME IInv, Transaction
  PROVE  db'.cursors = db.cursors \/ AdvanceTelemetryCursor
  <1> DEFINE Kept == db'.cursors = db.cursors
  <1>1. db \in Database /\ now \in Nat
    BY DEF IInv, TypeOK
  <1>2. CASE db' = db
    BY <1>2
  <1>3. ASSUME NEW s \in Snapshots, db' = Reconciled(db, s)
        PROVE  Kept
    BY <1>1, <1>3, ReconciledFacts
  <1>4. ASSUME NEW p \in Plugins, NEW epoch \in Nat, NEW read \in [Authorizations -> Nat],
               db' = CountersApplied(db, p, epoch, read, now)
        PROVE  Kept
    <2> DEFINE r == CountersApplied(db, p, epoch, read, now)
    <2>1. r.cursors = db.cursors
      BY <1>1, CountersAppliedFacts
    <2> QED
      BY <1>4, <2>1
  <1>5. ASSUME NEW a \in Authorizations, NEW source \in Sources, NEW time \in Nat,
               db' = Observed(db, a, source, time)
        PROVE  Kept
    BY <1>1, <1>5, ObservedFacts
  <1>6. CASE db' = Refreshed(db, now)
    <2>1. Kept
      BY <1>1, <1>6, RefreshedFacts
    <2> QED
      BY <2>1
  <1>7. ASSUME NEW t \in Traffic, TrafficMatches(db, t), db' = TrafficQueued(db, t)
        PROVE  Kept
    BY <1>1, <1>7, TrafficQueuedFacts
  <1>8. CASE db' = DesiredUpdated(db, now)
    <2>1. Kept
      BY <1>1, <1>8, DesiredUpdatedFacts
    <2> QED
      BY <2>1
  <1>9. ASSUME NEW k \in Keys, NEW instance \in Nat, db.services[k] # None,
               db' = ServiceApplied(db, k, instance)
        PROVE  Kept
    BY <1>1, <1>9, ServiceAppliedFacts DEF SameAccounts
  <1>10. ASSUME NEW p \in Plugins, NEW instance \in Nat, db.blockSets[p] # None,
                db' = BlocksApplied(db, p, instance)
         PROVE  Kept
    BY <1>1, <1>10, BlocksAppliedFacts DEF SameAccounts
  <1>11. ASSUME NEW instances \in [Plugins -> Or(Nat)],
                db' = StatusesRefreshed(db, instances, now)
         PROVE  Kept
    BY <1>1, <1>11, StatusesRefreshedFacts
  <1>12. ASSUME NEW a \in Authorizations, db.statuses[a] # None, db' = StatusQueued(db, a)
         PROVE  Kept
    BY <1>1, <1>12, StatusQueuedFacts DEF SameAccounts
  <1> QED
    BY <1>2, <1>3, <1>4, <1>5, <1>6, <1>7, <1>8, <1>9, <1>10, <1>11, <1>12 DEF Transaction

\* How the operation comes to work on a page of events, and whom it takes the plugins for.
LEMMA CollectSteps ==
  ASSUME IInv, [Next]_vars
  PROVE  /\ op'.runtimes \in {op.runtimes, RuntimeMap, Nothing(Plugins)}
         /\ \/ op' = op /\ db' = db /\ sink' = sink
            \/ op'.pc \notin Collects
            \/ op'.pc = "collect" /\ op'.plugin = None
            \/ EnqueueAccess \/ ObserveActivity \/ AdvanceTelemetryCursor
            \/ \E p \in Plugins : CollectTelemetry(p) /\ op'.pc = "event"
  <1> DEFINE Seen == op'.runtimes \in {op.runtimes, RuntimeMap, Nothing(Plugins)}
             Away == op'.pc \notin Collects \/ (op'.pc = "collect" /\ op'.plugin = None)
  <1>1. op \in Op /\ db \in Database
    BY DEF IInv, TypeOK
  <1>2. CASE op' = Idle
    <2>1. Seen /\ Away
      BY <1>2, IdleFacts DEF Collects
    <2> QED
      BY <2>1
  <1>3. ASSUME NEW left, op' = CollectDone(left), left \subseteq {p \in Plugins : op.runtimes[p] # None}
        PROVE  Seen /\ Away
    <2>1. op'.pc \in {"traffic", "collect"} /\ op'.plugin = None /\ op'.runtimes = op.runtimes
      BY <1>1, <1>3, CollectDoneFacts
    <2> QED
      BY <2>1 DEF Collects
  <1>4. ASSUME NEW pc \in {"desired", "refresh"}, op' = At(pc)
        PROVE  Seen /\ Away
    <2>1. op'.pc = pc /\ op'.runtimes = op.runtimes
      BY <1>1, <1>4, AtFacts
    <2> QED
      BY <2>1 DEF Collects
  <1>5. ASSUME NEW pc \in {"enqueue", "publish"}, NEW left,
               op' = [op EXCEPT !.pc = pc, !.left = left, !.item = None]
        PROVE  Seen /\ Away
    <2>1. op'.pc = pc /\ op'.runtimes = op.runtimes
      BY <1>1, <1>5 DEF Op
    <2> QED
      BY <2>1 DEF Collects
  <1>6. ASSUME NEW left, \/ op' = Publishing("publish", left, Idle)
                         \/ op' = Publishing("enqueue", left, At("desired"))
        PROVE  Seen /\ Away
    <2>1. Idle.pc = "idle" /\ Idle.runtimes = Nothing(Plugins)
      BY IdleFacts
    <2>2. op' = Idle => Seen /\ Away
      BY <2>1 DEF Collects
    <2> QED
      BY <1>4, <1>5, <1>6, <2>2 DEF Publishing
  <1>7. ASSUME NEW services, NEW blocks, op' = Applying(services, blocks)
        PROVE  Seen /\ Away
    <2>1. CASE op' = [op EXCEPT !.pc = "apply", !.left = services, !.blocks = blocks]
      <3>1. op'.pc = "apply" /\ op'.runtimes = op.runtimes
        BY <1>1, <2>1 DEF Op
      <3> QED
        BY <3>1 DEF Collects
    <2> QED
      BY <1>4, <1>7, <2>1 DEF Applying
  <1>8. ASSUME NEW pc \in {"traffic", "collect"}, NEW left,
               op' = [Idle EXCEPT !.pc = pc, !.runtimes = RuntimeMap, !.left = left]
        PROVE  Seen /\ Away
    <2>1. Idle \in Op /\ Idle.plugin = None
      BY IdleFacts DEF Idle
    <2>2. op'.pc = pc /\ op'.plugin = None /\ op'.runtimes = RuntimeMap
      BY <1>8, <2>1 DEF Op
    <2> QED
      BY <2>2 DEF Collects
  <1>9. CASE RunCycle
    <2>1. PICK pc \in {"traffic", "collect"}, left \in SUBSET Plugins :
            op' = [Idle EXCEPT !.pc = pc, !.runtimes = RuntimeMap, !.left = left]
      BY <1>9 DEF RunCycle
    <2> QED
      BY <1>8, <2>1
  <1>10. ASSUME NEW s \in Snapshots, Execute(s)
         PROVE  Seen /\ Away
    <2>1. op' = Idle \/ op' = [Idle EXCEPT !.pc = "traffic", !.runtimes = RuntimeMap]
      BY <1>10 DEF Execute
    <2>2. CASE op' = [Idle EXCEPT !.pc = "traffic", !.runtimes = RuntimeMap]
      <3>1. op'.pc = "traffic" /\ op'.runtimes = RuntimeMap
        BY <2>2, IdleFacts DEF Op
      <3> QED
        BY <3>1 DEF Collects
    <2>3. CASE op' = Idle
      <3>1. op'.pc = "idle" /\ op'.runtimes = Nothing(Plugins)
        BY <2>3, IdleFacts
      <3> QED
        BY <3>1 DEF Collects
    <2> QED
      BY <2>1, <2>2, <2>3
  <1>11. CASE Plugin \/ Tick \/ UNCHANGED vars
    <2>1. op' = op /\ db' = db /\ sink' = sink
      BY <1>11 DEF Plugin, Start, Exit, Carry, Access, Tick, vars
    <2> QED
      BY <2>1
  <1>12. CASE Crash
    BY <1>2, <1>12 DEF Crash
  <1>13. CASE Fails
    <2>1. CASE EventFails
      <3>1. op.left \subseteq {p \in Plugins : op.runtimes[p] # None}
        BY <2>1 DEF EventFails, IInv, OpOK, Collects
      <3> QED
        BY <1>3, <2>1, <3>1 DEF EventFails
    <2>2. CASE TrafficFails \/ DesiredFails
      BY <1>4, <2>2 DEF TrafficFails, DesiredFails
    <2>3. CASE RefreshStatusesFails
      BY <1>6, <2>3 DEF RefreshStatusesFails
    <2>4. CASE StatusesFail
      BY <1>2, <2>4 DEF StatusesFail
    <2> QED
      BY <1>13, <2>1, <2>2, <2>3, <2>4 DEF Fails
  <1>14. CASE Publish
    <2>1. CASE RefreshStatuses \/ MarkStatusQueued \/ PendingTrafficSnapshots \/ MarkTrafficQueued
      BY <1>4, <1>6, <2>1
      DEF RefreshStatuses, MarkStatusQueued, PendingTrafficSnapshots, MarkTrafficQueued
    <2>2. ASSUME NEW a \in Authorizations, EnqueueStatus(a)
          PROVE  Seen /\ Away
      <3>1. op'.pc = "settle" /\ op'.runtimes = op.runtimes
        BY <1>1, <2>2 DEF EnqueueStatus, Op
      <3> QED
        BY <3>1 DEF Collects
    <2>3. ASSUME NEW t \in op.left, EnqueueTraffic(t)
          PROVE  Seen /\ Away
      <3>1. op'.pc = "mark" /\ op'.runtimes = op.runtimes
        BY <1>1, <2>3 DEF EnqueueTraffic, Op
      <3> QED
        BY <3>1 DEF Collects
    <2> QED
      BY <1>14, <2>1, <2>2, <2>3 DEF Publish
  <1>15. CASE Apply
    BY <1>7, <1>15 DEF Apply, ReadDesired, SetServiceState, SetServiceStateFails,
       ReplaceDynamicBlocks, ReplaceDynamicBlocksFails
  <1>16. CASE Collect
    <2>1. \A pc : [op EXCEPT !.pc = pc].runtimes = op.runtimes
      BY <1>1 DEF Op
    <2>2. CASE EnqueueAccess \/ ObserveActivity
      BY <2>1, <2>2 DEF EnqueueAccess, ObserveActivity
    <2>3. CASE AdvanceTelemetryCursor
      <3> DEFINE next == [op EXCEPT !.cursor = Current.sequence, !.events = Tail(@)]
      <3>1. /\ [next EXCEPT !.pc = "event"].runtimes = op.runtimes
            /\ [next EXCEPT !.pc = "collect", !.more = FALSE].runtimes = op.runtimes
        BY <1>1 DEF Op
      <3>2. op.left \subseteq {p \in Plugins : op.runtimes[p] # None}
        BY <2>3 DEF AdvanceTelemetryCursor, IInv, OpOK, Collects
      <3>3. \/ op' = [next EXCEPT !.pc = "event"]
            \/ op' = [next EXCEPT !.pc = "collect", !.more = FALSE]
            \/ op' = CollectDone(op.left)
        BY <2>3 DEF AdvanceTelemetryCursor
      <3> HIDE DEF next
      <3> QED
        BY <1>3, <2>3, <3>1, <3>2, <3>3
    <2>4. ASSUME NEW p \in Plugins, CollectTelemetry(p) \/ CollectFails(p)
          PROVE  Seen /\ (Away \/ (CollectTelemetry(p) /\ op'.pc = "event"))
      <3>1. op.left \ {p} \subseteq {q \in Plugins : op.runtimes[q] # None}
        BY <2>4, CollectingFacts DEF CollectTelemetry, CollectFails
      <3> DEFINE page == TelemetryPage(p)
                 next == [op EXCEPT !.pc = "event", !.left = op.left \ {p}, !.plugin = p,
                                    !.cursor = CursorFor(p), !.page = op.page + 1,
                                    !.events = page.events, !.more = page.more]
      <3>2. op' = CollectDone(op.left \ {p}) \/ (op' = next /\ CollectTelemetry(p))
        BY <2>4 DEF CollectTelemetry, CollectFails
      <3>3. next.pc = "event" /\ next.runtimes = op.runtimes
        BY <1>1 DEF Op
      <3> HIDE DEF next
      <3> QED
        BY <1>3, <3>1, <3>2, <3>3
    <2> QED
      BY <1>16, <2>2, <2>3, <2>4 DEF Collect
  <1> QED
    BY <1>9, <1>10, <1>11, <1>12, <1>13, <1>14, <1>15, <1>16 DEF Next, Engine

\* The process of p goes on, or is followed by one that keeps its stream.
KeepsStream(p) ==
  /\ procs'[p].stream = procs[p].stream /\ procs'[p].instance >= procs[p].instance
  /\ procs'[p].events = procs[p].events

\* Plugin p starts a new stream.
StartsStream(p) ==
  /\ procs'[p].instance > procs[p].instance /\ procs'[p].stream = procs'[p].instance
  /\ procs'[p].events = <<>>

\* Plugin p adds an event to its stream.
AddsEvent(p) ==
  /\ procs'[p].stream = procs[p].stream /\ procs'[p].instance = procs[p].instance
  /\ \E e \in Event :
       /\ procs'[p].events = Append(procs[p].events, e)
       /\ e.sequence = Len(procs[p].events) + 1
       /\ e.known => <<e.authorization, p>> \in Bindings(db.snapshot)

LEMMA StartStream ==
  ASSUME IInv, NEW p \in Plugins, Start(p)
  PROVE  /\ UNCHANGED <<db, op, sink>>
         /\ KeepsStream(p) \/ StartsStream(p)
         /\ \A q \in Plugins \ {p} : procs'[q] = procs[q]
  <1> DEFINE instance == procs[p].instance + 1
             fresh(c) == [NoProcess EXCEPT !.up = TRUE, !.instance = instance,
                                           !.capabilities = c, !.stream = instance]
             again(c) == [procs[p] EXCEPT !.up = TRUE, !.instance = instance, !.capabilities = c,
                            !.services = fresh(c).services, !.blocks = {}]
  <1>1. procs \in [Plugins -> Process] /\ procs[p] \in Process /\ procs[p].instance \in Nat
    BY DEF IInv, TypeOK, Process
  <1>2. PICK c \in CapabilitySets, anew \in BOOLEAN :
          procs' = [procs EXCEPT ![p] = IF anew THEN fresh(c) ELSE again(c)]
    BY DEF Start
  <1>3. instance >= procs[p].instance /\ instance > procs[p].instance
    BY <1>1
  <1> HIDE DEF instance
  <1>4. fresh(c).instance = instance /\ fresh(c).stream = instance /\ fresh(c).events = <<>>
    BY DEF NoProcess
  <1> HIDE DEF fresh
  <1>5. /\ again(c).instance = instance /\ again(c).stream = procs[p].stream
        /\ again(c).events = procs[p].events
    BY <1>1 DEF Process
  <1> HIDE DEF again
  <1>6. KeepsStream(p) \/ StartsStream(p)
    BY <1>1, <1>2, <1>3, <1>4, <1>5 DEF KeepsStream, StartsStream
  <1>7. \A q \in Plugins \ {p} : procs'[q] = procs[q]
    BY <1>1, <1>2
  <1>8. UNCHANGED <<db, op, sink>>
    BY DEF Start
  <1> QED
    BY <1>6, <1>7, <1>8

LEMMA AccessEvent ==
  ASSUME IInv, NEW p \in Plugins, NEW a \in Authorizations, NEW source \in Sources,
         Access(p, a, source)
  PROVE  /\ UNCHANGED <<db, op, sink>>
         /\ AddsEvent(p)
         /\ \A q \in Plugins \ {p} : procs'[q] = procs[q]
  <1> DEFINE blocked == \E b \in procs[p].blocks :
                          b.authorization = a /\ b.source = source /\ b.expires > now
             known == <<a, p>> \in Bindings(db.snapshot)
             event == [sequence |-> Len(procs[p].events) + 1, authorization |-> a,
                       source |-> source, observed |-> now, accepted |-> ~blocked,
                       stream |-> procs[p].stream, known |-> known]
             events == Append(procs[p].events, event)
             new == [procs[p] EXCEPT !.events = events]
  <1>1. procs[p] \in Process /\ now \in Nat /\ procs \in [Plugins -> Process]
    BY DEF IInv, TypeOK
  <1>2. procs' = [procs EXCEPT ![p] = new]
    BY DEF Access
  <1>3. (~blocked) \in BOOLEAN /\ known \in BOOLEAN
    OBVIOUS
  <1>4. procs[p].events \in Seq(Event) /\ procs[p].stream \in Nat
    BY <1>1 DEF Process
  <1> HIDE DEF blocked
  <1>5. /\ event.sequence = Len(procs[p].events) + 1
        /\ event.known => <<event.authorization, p>> \in Bindings(db.snapshot)
    OBVIOUS
  <1> HIDE DEF known
  <1>6. event \in Event
    BY <1>1, <1>3, <1>4 DEF Event
  <1> HIDE DEF event, events
  <1>7. /\ new.instance = procs[p].instance /\ new.stream = procs[p].stream
        /\ new.events = events
    BY <1>1 DEF Process
  <1> HIDE DEF new
  <1>8. procs'[p] = new /\ \A q \in Plugins \ {p} : procs'[q] = procs[q]
    BY <1>1, <1>2
  <1>9. AddsEvent(p)
    BY <1>5, <1>6, <1>7, <1>8 DEF AddsEvent, events
  <1>10. UNCHANGED <<db, op, sink>>
    BY DEF Access
  <1> QED
    BY <1>8, <1>9, <1>10

LEMMA ProcSteps ==
  ASSUME IInv, [Next]_vars
  PROVE  \/ \A p \in Plugins : KeepsStream(p)
         \/ \E p \in Plugins : Start(p)
         \/ \E p \in Plugins, a \in Authorizations, source \in Sources : Access(p, a, source)
  <1>1. procs \in [Plugins -> Process] /\ op \in Op
    BY DEF IInv, TypeOK
  <1>2. \A p \in Plugins : procs[p].instance \in Nat
    BY <1>1 DEF Process
  <1>3. ASSUME procs' = procs
        PROVE  \A p \in Plugins : KeepsStream(p)
    BY <1>2, <1>3 DEF KeepsStream
  <1>4. ASSUME NEW p \in Plugins, NEW new, procs' = [procs EXCEPT ![p] = new],
               new.stream = procs[p].stream, new.instance = procs[p].instance,
               new.events = procs[p].events
        PROVE  \A q \in Plugins : KeepsStream(q)
    BY <1>1, <1>2, <1>4 DEF KeepsStream
  <1>5. ASSUME NEW p \in Plugins, Exit(p)
        PROVE  \A q \in Plugins : KeepsStream(q)
    <2> DEFINE new == [procs[p] EXCEPT !.up = FALSE]
    <2>1. procs' = [procs EXCEPT ![p] = new]
      BY <1>5 DEF Exit
    <2>2. /\ new.stream = procs[p].stream /\ new.instance = procs[p].instance
          /\ new.events = procs[p].events
      BY <1>1 DEF Process
    <2> HIDE DEF new
    <2> QED
      BY <1>4, <2>1, <2>2
  <1>6. ASSUME NEW p \in Plugins, NEW a \in Authorizations, Carry(p, a)
        PROVE  \A q \in Plugins : KeepsStream(q)
    <2> DEFINE counters == [procs[p].counters EXCEPT ![a] = procs[p].counters[a] + 1]
               new == [procs[p] EXCEPT !.counters = counters]
    <2>1. procs' = [procs EXCEPT ![p] = new]
      BY <1>6 DEF Carry
    <2> HIDE DEF counters
    <2>2. /\ new.stream = procs[p].stream /\ new.instance = procs[p].instance
          /\ new.events = procs[p].events
      BY <1>1 DEF Process
    <2> HIDE DEF new
    <2> QED
      BY <1>4, <2>1, <2>2
  <1>7. CASE Crash
    <2> DEFINE new(p) == [procs[p] EXCEPT !.up = FALSE]
    <2>1. procs' = [p \in Plugins |-> new(p)]
      BY <1>7 DEF Crash
    <2>2. \A p \in Plugins : /\ new(p).stream = procs[p].stream
                             /\ new(p).instance = procs[p].instance
                             /\ new(p).events = procs[p].events
      BY <1>1 DEF Process
    <2> HIDE DEF new
    <2>3. \A p \in Plugins : KeepsStream(p)
      BY <1>2, <2>1, <2>2 DEF KeepsStream
    <2> QED
      BY <2>3
  <1>8. ASSUME NEW p \in Plugins, CollectTelemetry(p)
        PROVE  \A q \in Plugins : KeepsStream(q)
    <2> DEFINE read == [a \in Authorizations |->
                 IF a \in Bound(db, p) THEN procs[p].counters[a] ELSE procs[p].read[a]]
               new == [procs[p] EXCEPT !.read = read]
    <2>1. procs' = procs \/ procs' = [procs EXCEPT ![p] = new]
      BY <1>8 DEF CollectTelemetry
    <2> HIDE DEF read
    <2>2. /\ new.stream = procs[p].stream /\ new.instance = procs[p].instance
          /\ new.events = procs[p].events
      BY <1>1 DEF Process
    <2> HIDE DEF new
    <2> QED
      BY <1>3, <1>4, <2>1, <2>2
  <1>9. ASSUME NEW k \in Keys, Take(k)
        PROVE  \A q \in Plugins : KeepsStream(q)
    <2> DEFINE p == k[2]
               services == [procs[p].services EXCEPT ![k[1]] = db.services[k]]
               new == [procs[p] EXCEPT !.services = services]
    <2>1. procs' = [procs EXCEPT ![p] = new] /\ p \in Plugins
      BY <1>9 DEF Take, Keys
    <2> HIDE DEF services
    <2>2. /\ new.stream = procs[p].stream /\ new.instance = procs[p].instance
          /\ new.events = procs[p].events
      BY <1>1, <2>1 DEF Process
    <2> HIDE DEF new
    <2> QED
      BY <1>4, <2>1, <2>2
  <1>10. ASSUME NEW p \in Plugins, TakeBlocks(p)
         PROVE  \A q \in Plugins : KeepsStream(q)
    <2> DEFINE new == [procs[p] EXCEPT !.blocks = db.blockSets[p].blocks]
    <2>1. procs' = [procs EXCEPT ![p] = new]
      BY <1>10 DEF TakeBlocks
    <2>2. /\ new.stream = procs[p].stream /\ new.instance = procs[p].instance
          /\ new.events = procs[p].events
      BY <1>1 DEF Process
    <2> HIDE DEF new
    <2> QED
      BY <1>4, <2>1, <2>2
  <1>11. CASE Apply
    <2>1. \/ procs' = procs
          \/ \E k \in Keys : Take(k)
          \/ \E p \in Plugins : TakeBlocks(p)
      BY <1>11 DEF Apply, ReadDesired, SetServiceState, SetServiceStateFails,
         ReplaceDynamicBlocks, ReplaceDynamicBlocksFails
    <2> QED
      BY <1>3, <1>9, <1>10, <2>1
  <1>12. CASE Publish \/ Fails \/ Tick \/ RunCycle \/ UNCHANGED vars
              \/ \E s \in Snapshots : Execute(s)
    <2>1. procs' = procs
      BY <1>12 DEF Publish, Fails, Tick, RunCycle, vars, Execute, PendingTrafficSnapshots,
         MarkTrafficQueued, RefreshStatuses, MarkStatusQueued, EnqueueTraffic, EnqueueStatus,
         EventFails, TrafficFails, DesiredFails, RefreshStatusesFails, StatusesFail
    <2> QED
      BY <1>3, <2>1
  <1>13. CASE Collect
    <2>1. procs' = procs \/ \E p \in Plugins : CollectTelemetry(p)
      BY <1>13 DEF Collect, EnqueueAccess, ObserveActivity, AdvanceTelemetryCursor, CollectFails
    <2> QED
      BY <1>3, <1>8, <2>1
  <1> QED
    BY <1>5, <1>6, <1>7, <1>11, <1>12, <1>13 DEF Next, Engine, Plugin

-----------------------------------------------------------------------------
(* The inductive invariant of the access events.                           *)

\* A binding that was taken away does not come back.
BindingsDoNotReturn ==
  \A s, t, u \in Snapshots :
    s.generation < t.generation /\ t.generation < u.generation
      => Bindings(s) \cap Bindings(u) \subseteq Bindings(t)

\* Binding k has been known, and is not known from now on.
WasBound(d, k) ==
  \E s \in Snapshots : s.generation <= d.snapshot.generation /\ k \in Bindings(s)
Unbound(d, k) ==
  \A s \in Snapshots : s.generation >= d.snapshot.generation => k \notin Bindings(s)

Delivered(access, p, event) == \E x \in access : x.plugin = p /\ x.event = event

\* A stream is as old as the process that began it, and what the operation and the
\* database know of are this stream and earlier ones.
StreamsOK(d, o, q) ==
  \A p \in Plugins :
    /\ q[p].stream <= q[p].instance
    /\ o.runtimes[p] # None => o.runtimes[p].stream <= q[p].stream
    /\ d.cursors[p] # None => d.cursors[p].stream <= q[p].stream

\* The sequence of an event is its place in the stream.
Stamped(d, q) ==
  \A p \in Plugins : \A i \in 1 .. Len(q[p].events) :
    /\ q[p].events[i].sequence = i
    /\ q[p].events[i].known => WasBound(d, <<q[p].events[i].authorization, p>>)

\* What the cursor is past was delivered, or belongs to a binding that is gone.
CursorOK(d, q, access, p) ==
  LET cursor == TelemetryCursor(d, p, q[p].stream) IN
  /\ cursor <= Len(q[p].events)
  /\ \A i \in 1 .. cursor :
       q[p].events[i].known => \/ Delivered(access, p, q[p].events[i])
                               \/ Unbound(d, <<q[p].events[i].authorization, p>>)

\* The operation's cursor is the one in the database; the events of its page follow that
\* cursor, unless the plugin has begun another stream since.
PageOK(d, o, q, access) ==
  /\ o.pc \in Collects /\ o.plugin # None =>
       o.cursor = TelemetryCursor(d, o.plugin, o.runtimes[o.plugin].stream)
  /\ o.pc \in Collects \ {"collect"} /\ o.runtimes[o.plugin].stream = q[o.plugin].stream =>
       /\ o.cursor + Len(o.events) <= Len(q[o.plugin].events)
       /\ \A j \in 1 .. Len(o.events) : o.events[j] = q[o.plugin].events[o.cursor + j]
  /\ o.pc \in {"observe", "advance"}
     /\ <<o.events[1].authorization, o.plugin>> \in Bindings(d.snapshot) =>
       Delivered(access, o.plugin, o.events[1])

EventInv ==
  /\ StreamsOK(db, op, procs)
  /\ Stamped(db, procs)
  /\ \A p \in Plugins : CursorOK(db, procs, sink.access, p)
  /\ PageOK(db, op, procs, sink.access)

-----------------------------------------------------------------------------
(* Its steps.                                                              *)

LEMMA StreamMoves ==
  ASSUME IInv, [Next]_vars
  PROVE  /\ \A p \in Plugins : KeepsStream(p) \/ StartsStream(p) \/ AddsEvent(p)
         /\ (\A p \in Plugins : KeepsStream(p)) \/ UNCHANGED <<db, op, sink>>
  <1>1. \A p \in Plugins : procs[p].instance \in Nat
    BY DEF IInv, TypeOK, Process
  <1>2. \A p \in Plugins : procs'[p] = procs[p] => KeepsStream(p)
    BY <1>1 DEF KeepsStream
  <1>3. ASSUME NEW p \in Plugins, Start(p)
        PROVE  /\ UNCHANGED <<db, op, sink>>
               /\ \A q \in Plugins : KeepsStream(q) \/ StartsStream(q)
    BY <1>2, <1>3, StartStream
  <1>4. ASSUME NEW p \in Plugins, NEW a \in Authorizations, NEW source \in Sources,
               Access(p, a, source)
        PROVE  /\ UNCHANGED <<db, op, sink>>
               /\ \A q \in Plugins : KeepsStream(q) \/ AddsEvent(q)
    BY <1>2, <1>4, AccessEvent
  <1> QED
    BY <1>3, <1>4, ProcSteps

\* The events of a stream stay where they are.
StreamGrows(p) ==
  /\ procs'[p].stream <= procs'[p].instance
  /\ procs[p].stream <= procs'[p].stream
  /\ procs'[p].stream = procs[p].stream =>
       /\ Len(procs[p].events) <= Len(procs'[p].events)
       /\ \A i \in 1 .. Len(procs[p].events) : procs'[p].events[i] = procs[p].events[i]

LEMMA StreamsGrow ==
  ASSUME IInv, IInv', [Next]_vars, StreamsOK(db, op, procs)
  PROVE  \A p \in Plugins : StreamGrows(p)
  <1> SUFFICES ASSUME NEW p \in Plugins
               PROVE  StreamGrows(p)
    OBVIOUS
  <1>1. /\ procs[p].stream \in Nat /\ procs[p].instance \in Nat /\ procs[p].events \in Seq(Event)
        /\ procs'[p].stream \in Nat /\ procs'[p].instance \in Nat
    BY DEF IInv, TypeOK, Process
  <1>2. procs[p].stream <= procs[p].instance
    BY DEF StreamsOK
  <1>3. Len(procs[p].events) \in Nat
    BY <1>1
  <1>4. CASE KeepsStream(p)
    BY <1>1, <1>2, <1>3, <1>4 DEF KeepsStream, StreamGrows
  <1>5. CASE StartsStream(p)
    BY <1>1, <1>2, <1>5 DEF StartsStream, StreamGrows
  <1>6. CASE AddsEvent(p)
    <2>1. PICK e \in Event : procs'[p].events = Append(procs[p].events, e)
      BY <1>6 DEF AddsEvent
    <2>2. /\ Len(procs'[p].events) = Len(procs[p].events) + 1
          /\ \A i \in 1 .. Len(procs[p].events) : procs'[p].events[i] = procs[p].events[i]
      BY <1>1, <2>1, AppendProperties
    <2> QED
      BY <1>1, <1>2, <1>3, <1>6, <2>2 DEF AddsEvent, StreamGrows
  <1> QED
    BY <1>4, <1>5, <1>6, StreamMoves

LEMMA StreamsStep ==
  ASSUME IInv, IInv', [Next]_vars, EventInv
  PROVE  StreamsOK(db, op, procs)'
  <1>1. \A p \in Plugins : StreamGrows(p)
    BY StreamsGrow DEF EventInv
  <1> SUFFICES ASSUME NEW p \in Plugins
               PROVE  /\ procs'[p].stream <= procs'[p].instance
                      /\ op'.runtimes[p] # None => op'.runtimes[p].stream <= procs'[p].stream
                      /\ db'.cursors[p] # None => db'.cursors[p].stream <= procs'[p].stream
    BY DEF StreamsOK
  <1>2. procs'[p].stream <= procs'[p].instance /\ procs[p].stream <= procs'[p].stream
    BY <1>1 DEF StreamGrows
  <1>3. procs[p].stream \in Nat /\ procs'[p].stream \in Nat
    BY DEF IInv, TypeOK, Process
  <1>4. \A q \in Plugins : op.runtimes[q] # None =>
          op.runtimes[q].stream <= procs[q].stream /\ op.runtimes[q].stream \in Nat
    BY DEF EventInv, StreamsOK, IInv, TypeOK, Op, Or, Runtime
  <1>5. db.cursors[p] # None => db.cursors[p].stream <= procs[p].stream /\ db.cursors[p].stream \in Nat
    BY DEF EventInv, StreamsOK, IInv, TypeOK, Database, Or, Cursor
  <1>6. op'.runtimes[p] # None => op'.runtimes[p].stream <= procs'[p].stream
    <2>1. CASE op'.runtimes = op.runtimes
      BY <1>2, <1>3, <1>4, <2>1
    <2>2. CASE op'.runtimes = RuntimeMap
      <3>1. RuntimeMap[p] # None => RuntimeMap[p].stream = procs[p].stream
        BY DEF RuntimeMap
      <3> QED
        BY <1>2, <2>2, <3>1
    <2>3. CASE op'.runtimes = Nothing(Plugins)
      BY <2>3 DEF Nothing
    <2> QED
      BY <2>1, <2>2, <2>3, CollectSteps
  <1>7. db'.cursors[p] # None => db'.cursors[p].stream <= procs'[p].stream
    <2>1. CASE db'.cursors = db.cursors
      BY <1>2, <1>3, <1>5, <2>1
    <2>2. CASE AdvanceTelemetryCursor
      <3> DEFINE stream == op.runtimes[op.plugin].stream
      <3>1. /\ op.plugin \in Plugins /\ op.runtimes[op.plugin] \in Runtime /\ Current \in Event
        BY <2>2, EventFacts DEF AdvanceTelemetryCursor
      <3>2. op.runtimes[op.plugin] # None /\ stream \in Nat /\ Current.sequence \in Nat
        BY <3>1, PolicyEngineAssumption DEF Runtime, Event
      <3>3. stream <= procs[op.plugin].stream
        BY <1>4, <3>1, <3>2
      <3>4. db' = CursorAdvanced(db, op.plugin, stream, Current.sequence) /\ db \in Database
        BY <2>2 DEF AdvanceTelemetryCursor, IInv, TypeOK
      <3> HIDE DEF stream
      <3>5. /\ db'.cursors[op.plugin] = [stream |-> stream, sequence |-> Current.sequence]
            /\ \A q \in Plugins \ {op.plugin} : db'.cursors[q] = db.cursors[q]
        BY <3>1, <3>2, <3>4, CursorAdvancedFacts
      <3>6. CASE p = op.plugin
        BY <1>2, <1>3, <3>2, <3>3, <3>5, <3>6
      <3>7. CASE p # op.plugin
        BY <1>2, <1>3, <1>5, <3>5, <3>7
      <3> QED
        BY <3>6, <3>7
    <2> QED
      BY <2>1, <2>2, CursorSteps, NextTransaction
  <1> QED
    BY <1>2, <1>6, <1>7

LEMMA BindingsMove ==
  ASSUME NEW d \in Database, NEW r \in Database, Succeeds(r, d), NEW k
  PROVE  (WasBound(d, k) => WasBound(r, k)) /\ (Unbound(d, k) => Unbound(r, k))
  <1>1. d.snapshot.generation \in Nat /\ r.snapshot.generation \in Nat
    BY SnapshotType DEF Database
  <1>2. d.snapshot.generation <= r.snapshot.generation
    BY <1>1 DEF Succeeds
  <1>3. \A s \in Snapshots : s.generation \in Nat
    BY SnapshotType
  <1> QED
    BY <1>1, <1>2, <1>3 DEF WasBound, Unbound

LEMMA BoundIsKnown ==
  ASSUME NEW d \in Database, NEW k \in Bindings(d.snapshot)
  PROVE  WasBound(d, k) /\ ~Unbound(d, k)
  <1>1. d.snapshot \in Snapshots \cup {NoSnapshot} /\ d.snapshot.generation \in Nat
    BY SnapshotType DEF Database
  <1>2. d.snapshot # NoSnapshot
    BY DEF Bindings, NoSnapshot
  <1> QED
    BY <1>1, <1>2 DEF WasBound, Unbound

LEMMA TakenAway ==
  ASSUME BindingsDoNotReturn, NEW d \in Database, NEW k, WasBound(d, k),
         k \notin Bindings(d.snapshot)
  PROVE  Unbound(d, k)
  <1>1. PICK s \in Snapshots : s.generation <= d.snapshot.generation /\ k \in Bindings(s)
    BY DEF WasBound
  <1>2. s.generation \in Nat \ {0} /\ d.snapshot.generation \in Nat
    BY SnapshotType, PolicyStoreAssumption DEF Database
  <1>3. d.snapshot \in Snapshots
    BY <1>1, <1>2 DEF Database, NoSnapshot
  <1>4. s.generation < d.snapshot.generation
    BY <1>1, <1>2, <1>3, PolicyStoreAssumption
  <1> SUFFICES ASSUME NEW u \in Snapshots, u.generation >= d.snapshot.generation,
                      k \in Bindings(u)
               PROVE  FALSE
    BY DEF Unbound
  <1>5. u.generation # d.snapshot.generation
    BY <1>3, PolicyStoreAssumption
  <1>6. d.snapshot.generation < u.generation
    BY <1>2, <1>5, SnapshotType
  <1> QED
    BY <1>1, <1>3, <1>4, <1>6 DEF BindingsDoNotReturn

LEMMA SnapshotMoves == ASSUME IInv, [Next]_vars PROVE Succeeds(db', db)
  BY AccountSteps, NextTransaction DEF Succeeds

LEMMA StampedStep ==
  ASSUME IInv, IInv', [Next]_vars, EventInv
  PROVE  Stamped(db, procs)'
  <1> DEFINE Good(e, i, p) == /\ e.sequence = i
                              /\ e.known => WasBound(db', <<e.authorization, p>>)
  <1> SUFFICES ASSUME NEW p \in Plugins, NEW i \in 1 .. Len(procs'[p].events)
               PROVE  Good(procs'[p].events[i], i, p)
    BY DEF Stamped, WasBound
  <1>1. db \in Database /\ db' \in Database /\ procs[p].events \in Seq(Event)
    BY DEF IInv, TypeOK, Process
  <1>2. \A j \in 1 .. Len(procs[p].events) : Good(procs[p].events[j], j, p)
    BY <1>1, BindingsMove, SnapshotMoves DEF EventInv, Stamped
  <1>3. CASE KeepsStream(p)
    BY <1>2, <1>3 DEF KeepsStream
  <1>4. CASE StartsStream(p)
    BY <1>4 DEF StartsStream
  <1>5. CASE AddsEvent(p)
    <2>1. PICK e \in Event : /\ procs'[p].events = Append(procs[p].events, e)
                             /\ e.sequence = Len(procs[p].events) + 1
                             /\ e.known => <<e.authorization, p>> \in Bindings(db.snapshot)
      BY <1>5 DEF AddsEvent
    <2>2. e.known => WasBound(db', <<e.authorization, p>>)
      BY <1>1, <2>1, BindingsMove, BoundIsKnown, SnapshotMoves
    <2>3. /\ Len(procs'[p].events) = Len(procs[p].events) + 1
          /\ \A j \in 1 .. Len(procs[p].events) : procs'[p].events[j] = procs[p].events[j]
          /\ procs'[p].events[Len(procs[p].events) + 1] = e
      BY <1>1, <2>1, AppendProperties
    <2>4. Len(procs[p].events) \in Nat
      BY <1>1
    <2>5. i \in 1 .. Len(procs[p].events) \/ i = Len(procs[p].events) + 1
      BY <2>3, <2>4
    <2>6. CASE i \in 1 .. Len(procs[p].events)
      BY <1>2, <2>3, <2>6
    <2>7. CASE i = Len(procs[p].events) + 1
      BY <2>1, <2>2, <2>3, <2>7
    <2> QED
      BY <2>5, <2>6, <2>7
  <1> QED
    BY <1>3, <1>4, <1>5, StreamMoves

\* Access events stay in the queue.
LEMMA AccessGrows ==
  ASSUME IInv, [Next]_vars
  PROVE  sink.access \subseteq sink'.access
  <1>1. sink \in Sink
    BY DEF IInv, TypeOK
  <1>2. CASE EnqueueAccess
    <2>1. sink' = sink \/ \E x : sink' = [sink EXCEPT !.access = sink.access \cup {x}]
      BY <1>2 DEF EnqueueAccess
    <2> QED
      BY <1>1, <2>1 DEF Sink
  <1>3. ASSUME NEW t \in op.left, EnqueueTraffic(t)
        PROVE  sink'.access = sink.access
    <2>1. \E x : sink' = [sink EXCEPT !.traffic = x]
      BY <1>3 DEF EnqueueTraffic
    <2> QED
      BY <1>1, <2>1 DEF Sink
  <1>4. ASSUME NEW a \in Authorizations, EnqueueStatus(a)
        PROVE  sink'.access = sink.access
    <2>1. \E x : sink' = [sink EXCEPT !.status = x]
      BY <1>4 DEF EnqueueStatus
    <2> QED
      BY <1>1, <2>1 DEF Sink
  <1> QED
    BY <1>2, <1>3, <1>4, SinkSteps

\* A cursor that is not moved goes with its stream, or belongs to an earlier one.
LEMMA CursorStays ==
  ASSUME IInv, IInv', [Next]_vars, EventInv, NEW p \in Plugins, db'.cursors[p] = db.cursors[p]
  PROVE  CursorOK(db', procs', sink'.access, p)
  <1> DEFINE c == TelemetryCursor(db, p, procs[p].stream)
             d == TelemetryCursor(db', p, procs'[p].stream)
             old == procs[p].events
             new == procs'[p].events
  <1>1. /\ db \in Database /\ db' \in Database /\ old \in Seq(Event) /\ new \in Seq(Event)
        /\ procs[p].stream \in Nat /\ procs'[p].stream \in Nat
    BY DEF IInv, TypeOK, Process
  <1>2. Len(old) \in Nat /\ Len(new) \in Nat
    BY <1>1
  <1>3. db.cursors[p] # None => /\ db.cursors[p].sequence \in Nat /\ db.cursors[p].stream \in Nat
                                /\ db.cursors[p].stream <= procs[p].stream
    BY DEF EventInv, StreamsOK, IInv, TypeOK, Database, Or, Cursor
  <1>4. StreamGrows(p)
    BY StreamsGrow DEF EventInv
  <1>5. c \in Nat
    BY <1>3 DEF TelemetryCursor
  <1>6. CASE procs'[p].stream = procs[p].stream
    <2>1. d = c
      BY <1>6 DEF TelemetryCursor
    <2>2. Len(old) <= Len(new) /\ \A i \in 1 .. Len(old) : new[i] = old[i]
      BY <1>4, <1>6 DEF StreamGrows
    <2>3. /\ c <= Len(old)
          /\ \A i \in 1 .. c : old[i].known => \/ Delivered(sink.access, p, old[i])
                                               \/ Unbound(db, <<old[i].authorization, p>>)
      BY DEF EventInv, CursorOK
    <2> HIDE DEF c, d, old, new
    <2>4. d <= Len(new) /\ \A i \in 1 .. d : i \in 1 .. c /\ new[i] = old[i]
      BY <1>2, <1>5, <2>1, <2>2, <2>3
    <2>5. \A i \in 1 .. d : new[i].known => \/ Delivered(sink'.access, p, new[i])
                                            \/ Unbound(db', <<new[i].authorization, p>>)
      BY <1>1, <2>3, <2>4, AccessGrows, BindingsMove, SnapshotMoves DEF Delivered
    <2> QED
      BY <2>4, <2>5 DEF CursorOK, d, new
  <1>7. CASE procs'[p].stream # procs[p].stream
    <2>1. procs[p].stream < procs'[p].stream
      BY <1>1, <1>4, <1>7 DEF StreamGrows
    <2>2. d = 0
      BY <1>1, <1>3, <2>1 DEF TelemetryCursor
    <2> HIDE DEF d, new
    <2>3. d <= Len(new) /\ 1 .. d = {}
      BY <1>2, <2>2
    <2> QED
      BY <2>3 DEF CursorOK, d, new
  <1> QED
    BY <1>6, <1>7

\* The event that the cursor is moved past was delivered, or its binding is gone.
LEMMA CursorMoves ==
  ASSUME IInv, IInv', [Next]_vars, EventInv, BindingsDoNotReturn, AdvanceTelemetryCursor
  PROVE  CursorOK(db', procs', sink'.access, op.plugin)
  <1> DEFINE p == op.plugin
             stream == op.runtimes[p].stream
             c == op.cursor
             d == TelemetryCursor(db', p, procs[p].stream)
             events == procs[p].events
  <1>1. /\ op.pc = "advance" /\ procs' = procs /\ sink' = sink
        /\ db' = CursorAdvanced(db, p, stream, Current.sequence)
    BY DEF AdvanceTelemetryCursor
  <1>2. /\ p \in Plugins /\ op.runtimes[p] \in Runtime /\ Current \in Event
        /\ op.events \in Seq(Event) /\ op.events # <<>> /\ op \in Op
    BY <1>1, EventFacts
  <1>3. /\ db \in Database /\ db' \in Database /\ events \in Seq(Event)
        /\ procs[p].stream \in Nat
    BY <1>2 DEF IInv, TypeOK, Process
  <1>4. stream \in Nat /\ Current.sequence \in Nat /\ c \in Nat
    BY <1>2 DEF Runtime, Event, Op
  <1>5. Current = op.events[1] /\ 1 \in 1 .. Len(op.events) /\ Len(op.events) \in Nat
    BY <1>2 DEF Current
  <1>6. Len(events) \in Nat
    BY <1>3
  <1>7. db'.cursors[p] = [stream |-> stream, sequence |-> Current.sequence]
    BY <1>1, <1>2, <1>3, <1>4, CursorAdvancedFacts
  <1>8. db'.cursors[p] # None
    BY <1>4, <1>7, NoneAssumption DEF Cursor
  <1>9. CASE stream # procs[p].stream
    <2>1. d = 0
      BY <1>7, <1>9 DEF TelemetryCursor
    <2> HIDE DEF d, events
    <2>2. d <= Len(events) /\ 1 .. d = {}
      BY <1>6, <2>1
    <2> QED
      BY <1>1, <2>2 DEF CursorOK, d, events
  <1>10. CASE stream = procs[p].stream
    <2>1. /\ c = TelemetryCursor(db, p, procs[p].stream)
          /\ c + Len(op.events) <= Len(events)
          /\ \A j \in 1 .. Len(op.events) : op.events[j] = events[c + j]
          /\ <<op.events[1].authorization, p>> \in Bindings(db.snapshot) =>
               Delivered(sink.access, p, op.events[1])
      BY <1>1, <1>2, <1>10, NoneAssumption DEF EventInv, PageOK, Collects
    <2>2. c + 1 <= Len(events) /\ Current = events[c + 1] /\ c + 1 \in 1 .. Len(events)
      BY <1>4, <1>5, <1>6, <2>1
    <2>3. /\ Current.sequence = c + 1
          /\ Current.known => WasBound(db, <<Current.authorization, p>>)
      BY <1>2, <2>2 DEF EventInv, Stamped
    <2>4. d = c + 1
      BY <1>7, <1>8, <1>10, <2>3 DEF TelemetryCursor
    <2>5. \A i \in 1 .. c : events[i].known => \/ Delivered(sink.access, p, events[i])
                                               \/ Unbound(db, <<events[i].authorization, p>>)
      BY <1>2, <2>1 DEF EventInv, CursorOK
    <2>6. Current.known => \/ Delivered(sink.access, p, Current)
                           \/ Unbound(db, <<Current.authorization, p>>)
      BY <1>3, <1>5, <2>1, <2>3, TakenAway
    <2> HIDE DEF d, events
    <2>7. d <= Len(events) /\ \A i \in 1 .. d : i \in 1 .. c \/ i = c + 1
      BY <1>4, <2>2, <2>4
    <2>8. \A i \in 1 .. d : events[i].known => \/ Delivered(sink.access, p, events[i])
                                               \/ Unbound(db', <<events[i].authorization, p>>)
      BY <1>3, <2>2, <2>5, <2>6, <2>7, BindingsMove, SnapshotMoves
    <2> QED
      BY <1>1, <2>7, <2>8 DEF CursorOK, d, events
  <1> QED
    BY <1>9, <1>10

LEMMA CursorStep ==
  ASSUME IInv, IInv', [Next]_vars, EventInv, BindingsDoNotReturn
  PROVE  \A p \in Plugins : CursorOK(db', procs', sink'.access, p)
  <1>1. CASE db'.cursors = db.cursors
    BY <1>1, CursorStays
  <1>2. CASE AdvanceTelemetryCursor
    <2>1. /\ op.plugin \in Plugins /\ op.runtimes[op.plugin].stream \in Nat
          /\ Current.sequence \in Nat /\ db \in Database
      BY <1>2, EventFacts DEF AdvanceTelemetryCursor, Event, Runtime, IInv, TypeOK
    <2> DEFINE stream == op.runtimes[op.plugin].stream
    <2>2. db' = CursorAdvanced(db, op.plugin, stream, Current.sequence)
      BY <1>2 DEF AdvanceTelemetryCursor
    <2> HIDE DEF stream
    <2>3. stream \in Nat
      BY <2>1 DEF stream
    <2>4. /\ db'.cursors[op.plugin] = [stream |-> stream, sequence |-> Current.sequence]
          /\ \A q \in Plugins \ {op.plugin} : db'.cursors[q] = db.cursors[q]
      BY <2>1, <2>2, <2>3, CursorAdvancedFacts
    <2> QED
      BY <1>2, <2>4, CursorStays, CursorMoves
  <1> QED
    BY <1>1, <1>2, CursorSteps, NextTransaction

\* A page stays as it is while its stream goes on.
LEMMA PageStays ==
  ASSUME IInv, [Next]_vars, EventInv, NEW p \in Plugins, NEW c \in Nat, NEW n \in Nat,
         op.runtimes[p] \in Runtime, op.runtimes[p].stream = procs'[p].stream,
         IInv'
  PROVE  /\ op.runtimes[p].stream = procs[p].stream
         /\ c + n <= Len(procs[p].events) =>
              /\ c + n <= Len(procs'[p].events)
              /\ \A j \in 1 .. n : procs'[p].events[c + j] = procs[p].events[c + j]
  <1>1. /\ procs[p].events \in Seq(Event) /\ procs'[p].events \in Seq(Event)
        /\ procs[p].stream \in Nat /\ procs'[p].stream \in Nat
    BY DEF IInv, TypeOK, Process
  <1>2. op.runtimes[p].stream <= procs[p].stream
    BY PolicyEngineAssumption DEF EventInv, StreamsOK
  <1>3. StreamGrows(p)
    BY StreamsGrow DEF EventInv
  <1>4. procs'[p].stream = procs[p].stream
    BY <1>1, <1>2, <1>3 DEF StreamGrows
  <1>5. Len(procs[p].events) \in Nat /\ Len(procs'[p].events) \in Nat
    BY <1>1
  <1>6. /\ Len(procs[p].events) <= Len(procs'[p].events)
        /\ \A i \in 1 .. Len(procs[p].events) : procs'[p].events[i] = procs[p].events[i]
    BY <1>3, <1>4 DEF StreamGrows
  <1>7. c + n <= Len(procs[p].events) =>
          \A j \in 1 .. n : c + j \in 1 .. Len(procs[p].events)
    BY <1>5
  <1>8. c + n <= Len(procs[p].events) => c + n <= Len(procs'[p].events)
    BY <1>5, <1>6
  <1> QED
    BY <1>4, <1>6, <1>7, <1>8

\* The page that TelemetryPage returns follows the cursor.
LEMMA PageFollows ==
  ASSUME IInv, NEW p \in Plugins, Collecting(p), TelemetryPage(p).events # <<>>
  PROVE  LET page == TelemetryPage(p).events
         IN  /\ page \in Seq(Event)
             /\ CursorFor(p) + Len(page) <= Len(procs[p].events)
             /\ \A j \in 1 .. Len(page) : page[j] = procs[p].events[CursorFor(p) + j]
  <1> DEFINE all == procs[p].events
             events == IF "activity" \in procs[p].capabilities THEN all ELSE <<>>
             c == CursorFor(p)
             last == IF Len(events) > c + PageSize THEN c + PageSize ELSE Len(events)
             page == TelemetryPage(p).events
  <1>1. all \in Seq(Event) /\ c \in Nat
    BY CollectingFacts DEF IInv, TypeOK, Process
  <1>2. page = SubSeq(events, c + 1, last)
    BY DEF TelemetryPage
  <1>3. events \in Seq(Event)
    BY <1>1
  <1>4. events = all \/ events = <<>>
    OBVIOUS
  <1> HIDE DEF all, events, c, page
  <1>5. Len(events) \in Nat /\ last \in Nat /\ last <= Len(events)
    BY <1>1, <1>3, PolicyEngineAssumption
  <1> HIDE DEF last
  <1>6. \A i \in c + 1 .. last : events[i] \in Event
    BY <1>1, <1>3, <1>5
  <1>7. c + 1 \in Int /\ last \in Int
    BY <1>1, <1>5
  <1>8. /\ Len(page) = IF c + 1 <= last THEN last - (c + 1) + 1 ELSE 0
        /\ \A i \in 1 .. last - (c + 1) + 1 : page[i] = events[c + 1 + i - 1]
    BY <1>2, <1>6, <1>7, SubSeqProperties
  <1>9. page \in Seq(Event)
    BY TelemetryPageFacts DEF page
  <1>10. c + 1 <= last
    <2> SUFFICES ASSUME ~(c + 1 <= last) PROVE FALSE
      OBVIOUS
    <2>1. last < c + 1
      BY <1>1, <1>5
    <2>2. page = <<>>
      BY <1>2, <1>7, <2>1, SubSeqEmpty
    <2> QED
      BY <2>2 DEF page
  <1>11. Len(page) = last - c /\ \A i \in 1 .. Len(page) : page[i] = events[c + i]
    BY <1>1, <1>5, <1>8, <1>10
  <1>12. events = all
    <2> SUFFICES ASSUME events = <<>> PROVE FALSE
      BY <1>4
    <2>1. Len(events) = 0
      OBVIOUS
    <2> QED
      BY <1>1, <1>5, <1>10, <2>1
  <1>13. c + Len(page) <= Len(all)
    BY <1>1, <1>5, <1>11, <1>12
  <1> QED
    BY <1>9, <1>11, <1>12, <1>13 DEF all, c, page

LEMMA PageStep ==
  ASSUME IInv, IInv', [Next]_vars, EventInv
  PROVE  PageOK(db', op', procs', sink'.access)
  <1>1. /\ op \in Op /\ db \in Database /\ sink \in Sink
        /\ op' \in Op /\ OpOK(op', db')
    BY DEF IInv, TypeOK
  <1>2. CASE op'.pc \notin Collects \/ (op'.pc = "collect" /\ op'.plugin = None)
    BY <1>2 DEF PageOK, Collects
  <1>3. CASE op' = op /\ db' = db /\ sink' = sink
    <2>1. op.pc \in Collects /\ op.plugin # None =>
            op.cursor = TelemetryCursor(db, op.plugin, op.runtimes[op.plugin].stream)
      BY DEF EventInv, PageOK
    <2>2. ASSUME op.pc \in Collects \ {"collect"},
                 op.runtimes[op.plugin].stream = procs'[op.plugin].stream
          PROVE  /\ op.cursor + Len(op.events) <= Len(procs'[op.plugin].events)
                 /\ \A j \in 1 .. Len(op.events) :
                      op.events[j] = procs'[op.plugin].events[op.cursor + j]
      <3>1. /\ op.plugin \in Plugins /\ op.runtimes[op.plugin] \in Runtime
            /\ op.events \in Seq(Event)
        BY <2>2, EventFacts DEF Collects
      <3>2. op.cursor \in Nat /\ Len(op.events) \in Nat
        BY <1>1, <3>1 DEF Op
      <3>3. op.runtimes[op.plugin].stream = procs[op.plugin].stream
        BY <2>2, <3>1, <3>2, PageStays
      <3>4. /\ op.cursor + Len(op.events) <= Len(procs[op.plugin].events)
            /\ \A j \in 1 .. Len(op.events) :
                 op.events[j] = procs[op.plugin].events[op.cursor + j]
        BY <2>2, <3>3 DEF EventInv, PageOK
      <3>5. /\ op.cursor + Len(op.events) <= Len(procs'[op.plugin].events)
            /\ \A j \in 1 .. Len(op.events) :
                 procs'[op.plugin].events[op.cursor + j] = procs[op.plugin].events[op.cursor + j]
        BY <2>2, <3>1, <3>2, <3>4, PageStays
      <3> QED
        BY <3>4, <3>5
    <2>3. /\ op.pc \in {"observe", "advance"}
          /\ <<op.events[1].authorization, op.plugin>> \in Bindings(db.snapshot)
          => Delivered(sink.access, op.plugin, op.events[1])
      BY DEF EventInv, PageOK
    <2> QED
      BY <1>3, <2>1, <2>2, <2>3 DEF PageOK
  <1>4. CASE EnqueueAccess
    <2> DEFINE p == op.plugin
               x == [stream |-> op.runtimes[p].stream, plugin |-> p, event |-> Current]
    <2>1. op.pc = "event" /\ db' = db /\ procs' = procs
      BY <1>4 DEF EnqueueAccess
    <2>2. PICK pc \in {"observe", "advance"} : op' = [op EXCEPT !.pc = pc]
      BY <1>4 DEF EnqueueAccess
    <2>3. /\ op'.pc = pc /\ op'.plugin = p /\ op'.runtimes = op.runtimes
          /\ op'.cursor = op.cursor /\ op'.events = op.events
      BY <1>1, <2>2 DEF Op
    <2>4. Current = op.events[1]
      BY <2>1, EventFacts DEF Current
    <2>5. BindingKnown => sink' = [sink EXCEPT !.access = sink.access \cup {x}]
      BY <1>4 DEF EnqueueAccess
    <2>6. BindingKnown => x \in sink'.access
      BY <1>1, <2>5 DEF Sink
    <2>7. BindingKnown => Delivered(sink'.access, p, op.events[1])
      BY <2>4, <2>6 DEF Delivered
    <2>8. p # None /\ op.pc \in Collects \ {"collect"}
      BY <2>1, EventFacts, NoneAssumption DEF Collects
    <2>9. /\ op.cursor = TelemetryCursor(db, p, op.runtimes[p].stream)
          /\ op.runtimes[p].stream = procs[p].stream =>
               /\ op.cursor + Len(op.events) <= Len(procs[p].events)
               /\ \A j \in 1 .. Len(op.events) : op.events[j] = procs[p].events[op.cursor + j]
      BY <2>8 DEF EventInv, PageOK
    <2> QED
      BY <2>1, <2>3, <2>4, <2>7, <2>9 DEF PageOK, BindingKnown
  <1>5. CASE ObserveActivity
    <2> DEFINE p == op.plugin
    <2>1. /\ op.pc = "observe" /\ procs' = procs /\ sink' = sink
          /\ db' = Observed(db, Current.authorization, Current.source, Current.observed)
          /\ op' = [op EXCEPT !.pc = "advance"]
      BY <1>5 DEF ObserveActivity
    <2>2. /\ op'.pc = "advance" /\ op'.plugin = p /\ op'.runtimes = op.runtimes
          /\ op'.cursor = op.cursor /\ op'.events = op.events
      BY <1>1, <2>1 DEF Op
    <2>3. /\ Current.authorization \in Authorizations /\ Current.source \in Sources
          /\ Current.observed \in Nat
      BY <2>1, EventFacts DEF Event
    <2>4. db'.cursors = db.cursors /\ db'.snapshot = db.snapshot
      BY <1>1, <2>1, <2>3, ObservedFacts DEF SameSteering
    <2>5. p # None /\ op.pc \in Collects \ {"collect"}
      BY <2>1, EventFacts, NoneAssumption DEF Collects
    <2>6. /\ op.cursor = TelemetryCursor(db, p, op.runtimes[p].stream)
          /\ op.runtimes[p].stream = procs[p].stream =>
               /\ op.cursor + Len(op.events) <= Len(procs[p].events)
               /\ \A j \in 1 .. Len(op.events) : op.events[j] = procs[p].events[op.cursor + j]
          /\ <<op.events[1].authorization, p>> \in Bindings(db.snapshot) =>
               Delivered(sink.access, p, op.events[1])
      BY <2>1, <2>5 DEF EventInv, PageOK
    <2>7. TelemetryCursor(db', p, op.runtimes[p].stream)
            = TelemetryCursor(db, p, op.runtimes[p].stream)
      BY <2>4 DEF TelemetryCursor
    <2> QED
      BY <2>1, <2>2, <2>4, <2>6, <2>7 DEF PageOK
  <1>6. CASE AdvanceTelemetryCursor
    <2> DEFINE p == op.plugin
               stream == op.runtimes[p].stream
               rest == Tail(op.events)
               next == [op EXCEPT !.cursor = Current.sequence, !.events = rest]
    <2>1. /\ op.pc = "advance" /\ procs' = procs
          /\ db' = CursorAdvanced(db, p, stream, Current.sequence)
      BY <1>6 DEF AdvanceTelemetryCursor
    <2>2. /\ p \in Plugins /\ op.runtimes[p] \in Runtime /\ Current \in Event
          /\ op.left \subseteq {q \in Plugins : op.runtimes[q] # None}
          /\ op.events \in Seq(Event) /\ op.events # <<>> /\ rest \in Seq(Event)
      BY <2>1, EventFacts
    <2>3. \/ op' = [next EXCEPT !.pc = "event"]
          \/ op' = [next EXCEPT !.pc = "collect", !.more = FALSE]
          \/ op' = CollectDone(op.left)
      BY <1>6 DEF AdvanceTelemetryCursor
    <2>4. stream \in Nat /\ Current.sequence \in Nat /\ op.cursor \in Nat
      BY <1>1, <2>2 DEF Runtime, Event, Op
    <2>5. db'.cursors[p] = [stream |-> stream, sequence |-> Current.sequence]
      BY <1>1, <2>1, <2>2, <2>4, CursorAdvancedFacts
    <2>6. db'.cursors[p] # None
      BY <2>4, <2>5, NoneAssumption DEF Cursor
    <2>7. TelemetryCursor(db', p, stream) = Current.sequence
      BY <2>5, <2>6 DEF TelemetryCursor
    <2>8. CASE op' = CollectDone(op.left)
      <3>1. op'.pc \in {"traffic", "collect"} /\ op'.plugin = None
        BY <1>1, <2>2, <2>8, CollectDoneFacts
      <3> QED
        BY <3>1 DEF PageOK, Collects
    <2>9. CASE \/ op' = [next EXCEPT !.pc = "event"]
               \/ op' = [next EXCEPT !.pc = "collect", !.more = FALSE]
      <3> HIDE DEF rest
      <3>1. /\ op'.pc \in {"event", "collect"} /\ op'.plugin = p /\ op'.runtimes = op.runtimes
            /\ op'.cursor = Current.sequence /\ op'.events = rest
        BY <1>1, <2>9 DEF Op
      <3> HIDE DEF next
      <3>2. ASSUME stream = procs[p].stream
            PROVE  /\ Current.sequence + Len(rest) <= Len(procs[p].events)
                   /\ \A j \in 1 .. Len(rest) : rest[j] = procs[p].events[Current.sequence + j]
        <4>1. /\ op.cursor + Len(op.events) <= Len(procs[p].events)
              /\ \A j \in 1 .. Len(op.events) : op.events[j] = procs[p].events[op.cursor + j]
          BY <2>1, <3>2 DEF EventInv, PageOK, Collects
        <4>2. /\ Len(rest) = Len(op.events) - 1
              /\ \A i \in 1 .. Len(rest) : rest[i] = op.events[i + 1]
          BY <2>2, HeadTailProperties DEF rest
        <4>3. /\ Len(op.events) \in Nat \ {0} /\ Len(procs[p].events) \in Nat
              /\ Current = op.events[1]
          <5>1. procs[p].events \in Seq(Event)
            BY <2>2 DEF IInv, TypeOK, Process
          <5> QED
            BY <2>2, <5>1 DEF Current
        <4>4. /\ 1 \in 1 .. Len(op.events) /\ op.cursor + 1 \in 1 .. Len(procs[p].events)
          BY <2>4, <4>1, <4>3
        <4>5. Current.sequence = op.cursor + 1
          <5>1. procs[p].events[op.cursor + 1].sequence = op.cursor + 1
            BY <2>2, <4>4 DEF EventInv, Stamped
          <5> QED
            BY <4>1, <4>3, <4>4, <5>1
        <4>6. Current.sequence + Len(rest) <= Len(procs[p].events)
          BY <2>4, <4>1, <4>2, <4>3, <4>5
        <4>7. ASSUME NEW j \in 1 .. Len(rest)
              PROVE  rest[j] = procs[p].events[Current.sequence + j]
          <5>1. j + 1 \in 1 .. Len(op.events)
            BY <4>2, <4>3
          <5>2. op.events[j + 1] = procs[p].events[op.cursor + (j + 1)]
            BY <4>1, <5>1
          <5>3. op.cursor + (j + 1) = Current.sequence + j
            BY <2>4, <4>5
          <5> QED
            BY <4>2, <5>2, <5>3
        <4> QED
          BY <4>6, <4>7
      <3> QED
        BY <2>1, <2>7, <3>1, <3>2 DEF PageOK, Collects
    <2> QED
      BY <2>3, <2>8, <2>9
  <1>7. ASSUME NEW p \in Plugins, CollectTelemetry(p), op'.pc = "event"
        PROVE  PageOK(db', op', procs', sink'.access)
    <2> DEFINE page == TelemetryPage(p)
               left == op.left \ {p}
               cursor == CursorFor(p)
               next == [op EXCEPT !.pc = "event", !.left = left, !.plugin = p,
                                  !.cursor = cursor, !.page = op.page + 1,
                                  !.events = page.events, !.more = page.more]
    <2>1. Collecting(p)
      BY <1>7 DEF CollectTelemetry
    <2>2. op' # CollectDone(left)
      <3>1. left \subseteq {q \in Plugins : op.runtimes[q] # None}
        BY <2>1, CollectingFacts
      <3>2. CollectDone(left).pc # "event"
        BY <1>1, <3>1, CollectDoneFacts
      <3> QED
        BY <1>7, <3>2
    <2>3. op' = next /\ page.events # <<>> /\ HasActivity(p)
      BY <1>7, <2>2 DEF CollectTelemetry
    <2>4. /\ page.events \in Seq(Event)
          /\ cursor + Len(page.events) <= Len(procs[p].events)
          /\ \A j \in 1 .. Len(page.events) : page.events[j] = procs[p].events[cursor + j]
      BY <2>1, <2>3, PageFollows
    <2>5. cursor = TelemetryCursor(db, p, op.runtimes[p].stream)
      <3>1. op.pc = "collect"
        BY <2>1 DEF Collecting
      <3> QED
        BY <2>3, <3>1, NoneAssumption DEF CursorFor, EventInv, PageOK, Collects
    <2> HIDE DEF cursor, page, left
    <2>6. /\ op'.plugin = p /\ op'.runtimes = op.runtimes /\ op'.cursor = cursor
          /\ op'.events = page.events
      BY <1>1, <2>3 DEF Op
    <2> HIDE DEF next
    <2>7. op.runtimes[p] \in Runtime /\ cursor \in Nat /\ Len(page.events) \in Nat
      BY <2>1, <2>4, CollectingFacts DEF cursor
    <2>8. db'.cursors = db.cursors
      <3>1. ~AdvanceTelemetryCursor
        BY <2>1 DEF Collecting, AdvanceTelemetryCursor
      <3> QED
        BY <3>1, CursorSteps, NextTransaction
    <2>9. cursor = TelemetryCursor(db', p, op.runtimes[p].stream)
      BY <2>5, <2>8 DEF TelemetryCursor
    <2>10. ASSUME op.runtimes[p].stream = procs'[p].stream
           PROVE  /\ cursor + Len(page.events) <= Len(procs'[p].events)
                  /\ \A j \in 1 .. Len(page.events) : page.events[j] = procs'[p].events[cursor + j]
      BY <2>4, <2>7, <2>10, PageStays
    <2> QED
      BY <1>7, <2>6, <2>9, <2>10 DEF PageOK, Collects
  <1> QED
    BY <1>2, <1>3, <1>4, <1>5, <1>6, <1>7, CollectSteps

LEMMA EventInit == Init => EventInv
  <1> SUFFICES ASSUME Init PROVE EventInv
    OBVIOUS
  <1>1. /\ op.pc = "idle" /\ op.runtimes = Nothing(Plugins)
        /\ \A p \in Plugins : /\ procs[p].stream = 0 /\ procs[p].instance = 0
                              /\ procs[p].events = <<>> /\ db.cursors[p] = None
    BY IdleFacts DEF Init, NoProcess, EmptyDatabase, Nothing
  <1>2. \A p \in Plugins : Len(procs[p].events) = 0 /\ TelemetryCursor(db, p, procs[p].stream) = 0
    BY <1>1 DEF TelemetryCursor
  <1>3. StreamsOK(db, op, procs)
    BY <1>1 DEF StreamsOK, Nothing
  <1>4. Stamped(db, procs)
    BY <1>2 DEF Stamped
  <1>5. \A p \in Plugins : CursorOK(db, procs, sink.access, p)
    BY <1>2 DEF CursorOK
  <1>6. PageOK(db, op, procs, sink.access)
    BY <1>1 DEF PageOK, Collects
  <1> QED
    BY <1>3, <1>4, <1>5, <1>6 DEF EventInv

LEMMA EventStep ==
  ASSUME BindingsDoNotReturn, IInv, IInv', [Next]_vars, EventInv
  PROVE  EventInv'
  <1>1. StreamsOK(db, op, procs)' /\ Stamped(db, procs)'
    BY StreamsStep, StampedStep
  <1>2. (\A p \in Plugins : CursorOK(db, procs, sink.access, p))'
    BY CursorStep DEF CursorOK, TelemetryCursor, Delivered, Unbound
  <1>3. PageOK(db, op, procs, sink.access)'
    BY PageStep DEF PageOK, TelemetryCursor, Delivered
  <1> QED
    BY <1>1, <1>2, <1>3 DEF EventInv

\* No access event is lost between the plugins and the queue: collectRuntime moves the
\* telemetry cursor past an event of a known binding only once the event is in the queue,
\* however plugins restart, pages fail half-way and bindings change, provided that a binding
\* that was taken away does not come back.
THEOREM EventsDelivered ==
  ASSUME BindingsDoNotReturn
  PROVE  Spec => []NoEventSkipped
  <1>1. IInv /\ IInv' /\ [Next]_vars /\ EventInv => EventInv'
    BY EventStep
  <1>2. IInv /\ EventInv => NoEventSkipped
    <2> SUFFICES ASSUME IInv, EventInv, NEW p \in Plugins, NEW i \in DOMAIN procs[p].events,
                        procs[p].events[i].known,
                        <<procs[p].events[i].authorization, p>> \in Bindings(db.snapshot),
                        i <= TelemetryCursor(db, p, procs[p].stream)
                 PROVE  Delivered(sink.access, p, procs[p].events[i])
      BY DEF NoEventSkipped, Delivered
    <2> DEFINE c == TelemetryCursor(db, p, procs[p].stream)
    <2>1. db \in Database /\ procs[p].events \in Seq(Event)
      BY DEF IInv, TypeOK, Process
    <2>2. c \in Nat
      BY <2>1 DEF TelemetryCursor, Database, Or, Cursor
    <2>3. i \in 1 .. c
      BY <2>1, <2>2
    <2> QED
      BY <2>1, <2>3, BoundIsKnown DEF EventInv, CursorOK
  <1> QED
    BY <1>1, <1>2, EventInit, Invariance, PTL DEF Spec
=============================================================================
