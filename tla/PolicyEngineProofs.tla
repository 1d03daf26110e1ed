------------------------- MODULE PolicyEngineProofs -------------------------
(***************************************************************************)
(* Theorems about the policy store and the policy engine, for any          *)
(* authorizations, plugins, snapshots, page sizes and bounds.  First come  *)
(* the transactions of the store: they keep the type of a database, and    *)
(* most of them leave most of the buckets alone.  Then come the steps of   *)
(* the engine, one lemma for each.                                         *)
(***************************************************************************)
EXTENDS PolicyEngine, FiniteSetTheorems, TLAPS

USE PolicyStoreAssumption

-----------------------------------------------------------------------------
(* Snapshots and periods.                                                  *)

LEMMA SnapshotType ==
  ASSUME NEW s \in Snapshots \cup {NoSnapshot}
  PROVE  /\ s.generation \in Nat /\ DOMAIN s.policies \subseteq Authorizations
         /\ \A a \in DOMAIN s.policies : s.policies[a] \in Policy
         /\ Bindings(s) \subseteq Keys
  <1>1. CASE s = NoSnapshot
    BY <1>1 DEF NoSnapshot, Bindings
  <1>2. CASE s \in Snapshots
    BY <1>2 DEF Bindings
  <1> QED
    BY <1>1, <1>2

LEMMA PeriodType ==
  ASSUME NEW time \in Nat
  PROVE  PeriodOf(time) \in Nat
  BY DEF PeriodOf

LEMMA PeriodGrows ==
  ASSUME NEW t \in Nat, NEW u \in Nat, t <= u
  PROVE  PeriodOf(t) <= PeriodOf(u)
  BY DEF PeriodOf

\* The buckets that steer the plugins.
SameSteering(r, d) ==
  /\ r.snapshot = d.snapshot /\ r.orphans = d.orphans
  /\ r.stateRevision = d.stateRevision /\ r.blockRevision = d.blockRevision
  /\ r.services = d.services /\ r.appliedServices = d.appliedServices
  /\ r.blockSets = d.blockSets /\ r.appliedBlocks = d.appliedBlocks

LEMMA EmptyType == EmptyDatabase \in Database
  <1>1. \A S, T : Nothing(S) \in [S -> Or(T)]
    BY DEF Nothing, Or
  <1> QED
    BY <1>1 DEF EmptyDatabase, Database

-----------------------------------------------------------------------------
(* Ledgers.                                                                *)

LEMMA LedgerType ==
  ASSUME NEW a \in Authorizations, NEW ledger \in Ledger
  PROVE  TrafficOf(a, ledger) \in Traffic
  BY DEF TrafficOf, Traffic, Ledger

LEMMA PreservedType ==
  ASSUME NEW d \in Database, NEW A \in SUBSET Authorizations
  PROVE  Preserved(d, A) \subseteq Traffic
  <1>1. \A a \in A : d.ledgers[a] # None => TrafficOf(a, d.ledgers[a]) \in Traffic
    BY LedgerType DEF Database, Or
  <1> QED
    BY <1>1 DEF Preserved, Unqueued, Database

LEMMA EnsureLedgersFacts ==
  ASSUME NEW d \in Database, NEW A \in SUBSET Authorizations, NEW time \in Nat
  PROVE  LET r == EnsureLedgers(d, A, time)
         IN  /\ r \in Database /\ SameSteering(r, d)
             /\ r.counters = d.counters /\ r.cursors = d.cursors /\ r.slots = d.slots
             /\ r.blocks = d.blocks /\ r.statuses = d.statuses
             /\ \A a \in A : r.ledgers[a] # None /\ r.ledgers[a].period = PeriodOf(time)
  <1> DEFINE ended == {a \in A : d.ledgers[a] # None /\ d.ledgers[a].period # PeriodOf(time)}
             pending == Preserved(d, ended)
             ledgers == [a \in Authorizations |->
               IF a \in ended \/ (a \in A /\ d.ledgers[a] = None)
               THEN NewLedger(PeriodOf(time)) ELSE d.ledgers[a]]
  <1>1. EnsureLedgers(d, A, time) = [d EXCEPT !.pending = pending, !.ledgers = ledgers]
    BY DEF EnsureLedgers
  <1>2. pending \subseteq Traffic
    BY PreservedType
  <1>3. NewLedger(PeriodOf(time)) \in Ledger /\ NewLedger(PeriodOf(time)).period = PeriodOf(time)
    BY PeriodType DEF NewLedger, Ledger
  <1>4. ledgers \in [Authorizations -> Or(Ledger)]
    BY <1>3 DEF Database, Or
  <1>5. \A a \in A : ledgers[a] # None /\ ledgers[a].period = PeriodOf(time)
    BY <1>3, NoneAssumption
  <1> HIDE DEF pending, ledgers
  <1> QED
    BY <1>1, <1>2, <1>4, <1>5 DEF Database, SameSteering

\* The slots and blocks are those of d, or among them.
SameActivity(r, d) == r.slots = d.slots /\ r.blocks = d.blocks
FewerActivity(r, d) ==
  \A x \in Authorizations \X Sources :
    r.slots[x] \in {None, d.slots[x]} /\ r.blocks[x] \in {None, d.blocks[x]}

LEMMA CleanActivityFacts ==
  ASSUME NEW d \in Database, NEW A \in SUBSET Authorizations, NEW time \in Nat
  PROVE  LET r == CleanActivity(d, A, time)
         IN  /\ r \in Database /\ SameSteering(r, d) /\ FewerActivity(r, d)
             /\ r.counters = d.counters /\ r.cursors = d.cursors /\ r.statuses = d.statuses
             /\ r.ledgers = d.ledgers /\ r.pending = d.pending
  <1> DEFINE slots == [s \in DOMAIN d.slots |->
               IF s[1] \in A /\ d.slots[s] # None /\ d.slots[s] + Window <= time
               THEN None ELSE d.slots[s]]
             blocks == [s \in DOMAIN d.blocks |->
               IF s[1] \in A /\ d.blocks[s] # None /\ d.blocks[s] <= time
               THEN None ELSE d.blocks[s]]
  <1>1. CleanActivity(d, A, time) = [d EXCEPT !.slots = slots, !.blocks = blocks]
    BY DEF CleanActivity
  <1>2. /\ slots \in [Authorizations \X Sources -> Or(Nat)]
        /\ blocks \in [Authorizations \X Sources -> Or(Nat)]
        /\ \A x \in Authorizations \X Sources : slots[x] \in {None, d.slots[x]}
                                               /\ blocks[x] \in {None, d.blocks[x]}
    BY DEF Database, Or
  <1> HIDE DEF slots, blocks
  <1> QED
    BY <1>1, <1>2 DEF Database, SameSteering, FewerActivity

LEMMA AuthorizedType ==
  ASSUME NEW d \in Database
  PROVE  /\ Authorized(d) \subseteq Authorizations
         /\ \A a \in Authorized(d) : Policies(d)[a] \in Policy
         /\ d.snapshot \in Snapshots \cup {NoSnapshot}
  BY SnapshotType DEF Authorized, Policies, Database

LEMMA RefreshedFacts ==
  ASSUME NEW d \in Database, NEW time \in Nat
  PROVE  LET r == Refreshed(d, time)
             e == EnsureLedgers(d, Authorized(d), time)
         IN  /\ r \in Database /\ SameSteering(r, d) /\ FewerActivity(r, d)
             /\ r.counters = d.counters /\ r.cursors = d.cursors /\ r.statuses = d.statuses
             /\ r.ledgers = e.ledgers /\ r.pending = e.pending
             /\ \A a \in Authorized(r) : r.ledgers[a] # None
  <1> DEFINE e == EnsureLedgers(d, Authorized(d), time)
             r == CleanActivity(e, Authorized(d), time)
  <1>1. Authorized(d) \in SUBSET Authorizations
    BY AuthorizedType
  <1>2. /\ e \in Database /\ SameSteering(e, d)
        /\ e.counters = d.counters /\ e.cursors = d.cursors /\ e.slots = d.slots
        /\ e.blocks = d.blocks /\ e.statuses = d.statuses
        /\ \A a \in Authorized(d) : e.ledgers[a] # None
    BY <1>1, EnsureLedgersFacts
  <1> HIDE DEF e
  <1>3. /\ r \in Database /\ SameSteering(r, e) /\ FewerActivity(r, e)
        /\ r.counters = e.counters /\ r.cursors = e.cursors /\ r.statuses = e.statuses
        /\ r.ledgers = e.ledgers /\ r.pending = e.pending
    BY <1>1, <1>2, CleanActivityFacts
  <1>4. Refreshed(d, time) = r
    BY DEF Refreshed, e
  <1> HIDE DEF r
  <1>5. SameSteering(r, d) /\ FewerActivity(r, d) /\ Authorized(r) = Authorized(d)
    BY <1>2, <1>3 DEF SameSteering, FewerActivity, Authorized, Policies
  <1> QED
    BY <1>2, <1>3, <1>4, <1>5 DEF e

-----------------------------------------------------------------------------
(* Store.Reconcile and Store.ApplyCounters.                                *)

LEMMA ReconciledFacts ==
  ASSUME NEW d \in Database, NEW s \in Snapshots
  PROVE  LET r == Reconciled(d, s)
             kept == DOMAIN s.policies
         IN  /\ r \in Database /\ r.snapshot = s
             /\ r.orphans = (d.orphans \cup Bindings(d.snapshot)) \ Bindings(s)
             /\ r.stateRevision = d.stateRevision /\ r.blockRevision = d.blockRevision
             /\ r.services = d.services /\ r.appliedServices = d.appliedServices
             /\ r.blockSets = d.blockSets /\ r.appliedBlocks = d.appliedBlocks
             /\ r.cursors = d.cursors /\ r.pending = Preserved(d, Authorizations \ kept)
             /\ \A a \in Authorizations :
                  /\ r.ledgers[a] = IF a \in kept THEN d.ledgers[a] ELSE None
                  /\ r.statuses[a] = IF a \in kept THEN d.statuses[a] ELSE None
             /\ FewerActivity(r, d)
  <1> DEFINE kept == DOMAIN s.policies
             ledgers == [a \in Authorizations |-> IF a \in kept THEN d.ledgers[a] ELSE None]
             statuses == [a \in Authorizations |-> IF a \in kept THEN d.statuses[a] ELSE None]
             slots == [x \in DOMAIN d.slots |-> IF x[1] \in kept THEN d.slots[x] ELSE None]
             blocks == [x \in DOMAIN d.blocks |-> IF x[1] \in kept THEN d.blocks[x] ELSE None]
             counters == [x \in DOMAIN d.counters |-> IF x[1] \in kept THEN d.counters[x] ELSE None]
             pending == Preserved(d, Authorizations \ kept)
             orphans == (d.orphans \cup Bindings(d.snapshot)) \ Bindings(s)
             removed == [d EXCEPT !.pending = pending, !.ledgers = ledgers,
                           !.statuses = statuses, !.slots = slots, !.blocks = blocks,
                           !.counters = counters]
  <1>9. RemovedDeleted(d, kept) = removed
    BY DEF RemovedDeleted
  <1>1. Reconciled(d, s) =
          [removed EXCEPT !.snapshot = s,
                          !.orphans = (removed.orphans \cup Bindings(d.snapshot)) \ Bindings(s)]
    BY <1>9 DEF Reconciled
  <1>2. /\ ledgers \in [Authorizations -> Or(Ledger)]
        /\ statuses \in [Authorizations -> Or(Status)]
    BY DEF Database, Or
  <1>3. /\ slots \in [Authorizations \X Sources -> Or(Nat)]
        /\ blocks \in [Authorizations \X Sources -> Or(Nat)]
        /\ counters \in [Keys -> Or(Counter)]
    BY DEF Database, Or
  <1>4. pending \subseteq Traffic
    BY PreservedType
  <1>5. orphans \subseteq Keys
    BY SnapshotType DEF Database
  <1>6. /\ \A a \in Authorizations :
             /\ ledgers[a] = IF a \in kept THEN d.ledgers[a] ELSE None
             /\ statuses[a] = IF a \in kept THEN d.statuses[a] ELSE None
        /\ \A x \in Authorizations \X Sources :
             /\ slots[x] = IF x[1] \in kept THEN d.slots[x] ELSE None
             /\ blocks[x] = IF x[1] \in kept THEN d.blocks[x] ELSE None
    BY DEF Database
  <1> HIDE DEF ledgers, statuses, slots, blocks, counters, pending
  <1>7. /\ removed \in Database /\ removed.orphans = d.orphans
        /\ removed.pending = pending /\ removed.ledgers = ledgers /\ removed.statuses = statuses
        /\ removed.slots = slots /\ removed.blocks = blocks
        /\ removed.stateRevision = d.stateRevision /\ removed.blockRevision = d.blockRevision
        /\ removed.services = d.services /\ removed.appliedServices = d.appliedServices
        /\ removed.blockSets = d.blockSets /\ removed.appliedBlocks = d.appliedBlocks
        /\ removed.cursors = d.cursors
    BY <1>2, <1>3, <1>4 DEF Database
  <1> HIDE DEF removed, orphans
  <1>8. Reconciled(d, s) = [removed EXCEPT !.snapshot = s, !.orphans = orphans]
    BY <1>1, <1>7 DEF orphans
  <1> DEFINE r == Reconciled(d, s)
  <1>10. r \in Database
    BY <1>5, <1>7, <1>8 DEF Database
  <1>11. /\ r.snapshot = s /\ r.orphans = orphans
         /\ r.pending = removed.pending /\ r.ledgers = removed.ledgers
         /\ r.statuses = removed.statuses
         /\ r.slots = removed.slots /\ r.blocks = removed.blocks
    BY <1>7, <1>8 DEF Database
  <1>12. /\ r.stateRevision = removed.stateRevision /\ r.blockRevision = removed.blockRevision
         /\ r.services = removed.services /\ r.appliedServices = removed.appliedServices
         /\ r.blockSets = removed.blockSets /\ r.appliedBlocks = removed.appliedBlocks
         /\ r.cursors = removed.cursors
    BY <1>7, <1>8 DEF Database
  <1> HIDE DEF r
  <1>13. LET k == kept
         IN  /\ \A a \in Authorizations :
                  /\ r.ledgers[a] = IF a \in k THEN d.ledgers[a] ELSE None
                  /\ r.statuses[a] = IF a \in k THEN d.statuses[a] ELSE None
    BY <1>6, <1>7, <1>11
  <1>14. FewerActivity(r, d)
    BY <1>6, <1>7, <1>11 DEF FewerActivity
  <1> QED
    BY <1>7, <1>10, <1>11, <1>12, <1>13, <1>14 DEF orphans, pending, r

LEMMA GrownType ==
  ASSUME NEW d \in Database, NEW p \in Plugins, NEW epoch \in Nat,
         NEW read \in [Authorizations -> Nat]
  PROVE  /\ Grown(d, p, epoch, read) \in SUBSET Authorized(d)
         /\ Grown(d, p, epoch, read) \in SUBSET Authorizations
         /\ \A a \in Authorizations : Delta(d, <<a, p>>, epoch, read[a]) \in Nat
         /\ \A a \in Grown(d, p, epoch, read) : Delta(d, <<a, p>>, epoch, read[a]) > 0
  <1>1. Bound(d, p) \subseteq Authorized(d) /\ Authorized(d) \subseteq Authorizations
    BY AuthorizedType DEF Bound
  <1>2. ASSUME NEW a \in Authorizations
        PROVE  Delta(d, <<a, p>>, epoch, read[a]) \in Nat
    <2>1. d.counters[<<a, p>>] \in Or(Counter) /\ read[a] \in Nat
      BY DEF Database, Keys
    <2> QED
      BY <2>1 DEF Delta, Or, Counter
  <1> QED
    BY <1>1, <1>2 DEF Grown

LEMMA ChargedType ==
  ASSUME NEW ledger \in Ledger, NEW bytes \in Nat, bytes > 0
  PROVE  LET r == Charged(ledger, bytes)
         IN  /\ r \in Ledger /\ r.period = ledger.period /\ r.queued = ledger.queued
             /\ r.revision = ledger.revision + 1 /\ r.bytes > ledger.bytes
  <1> DEFINE r == Charged(ledger, bytes)
  <1>1. ledger.bytes \in Nat /\ ledger.revision \in Nat
    BY DEF Ledger
  <1>2. r = [ledger EXCEPT !.bytes = ledger.bytes + bytes, !.revision = ledger.revision + 1]
    BY DEF Charged
  <1>3. ledger.bytes + bytes \in Nat /\ ledger.revision + 1 \in Nat /\ ledger.bytes + bytes > ledger.bytes
    BY <1>1
  <1>4. /\ r.period = ledger.period /\ r.queued = ledger.queued
        /\ r.revision = ledger.revision + 1 /\ r.bytes = ledger.bytes + bytes
    BY <1>2 DEF Ledger
  <1>5. r \in Ledger
    BY <1>2, <1>3 DEF Ledger
  <1> QED
    BY <1>3, <1>4, <1>5

LEMMA CountersAppliedFacts ==
  ASSUME NEW d \in Database, NEW p \in Plugins, NEW epoch \in Nat,
         NEW read \in [Authorizations -> Nat], NEW time \in Nat
  PROVE  LET r == CountersApplied(d, p, epoch, read, time)
             grown == Grown(d, p, epoch, read)
             e == EnsureLedgers(d, grown, time)
         IN  /\ r \in Database /\ SameSteering(r, d)
             /\ r.cursors = d.cursors /\ r.slots = d.slots /\ r.blocks = d.blocks
             /\ r.statuses = d.statuses /\ r.pending = e.pending
             /\ \A a \in Authorizations : a \notin grown => r.ledgers[a] = e.ledgers[a]
             /\ \A a \in grown :
                  /\ r.ledgers[a] \in Ledger /\ e.ledgers[a] \in Ledger
                  /\ r.ledgers[a].period = e.ledgers[a].period
                  /\ r.ledgers[a].queued = e.ledgers[a].queued
                  /\ r.ledgers[a].revision = e.ledgers[a].revision + 1
                  /\ r.ledgers[a].bytes > e.ledgers[a].bytes
  <1> DEFINE grown == Grown(d, p, epoch, read)
             delta(a) == Delta(d, <<a, p>>, epoch, read[a])
             e == EnsureLedgers(d, grown, time)
             counters == [k \in Keys |->
               IF k[2] = p /\ k[1] \in Bound(d, p) THEN [epoch |-> epoch, bytes |-> read[k[1]]]
                                                    ELSE e.counters[k]]
             More(a) == Charged(e.ledgers[a], delta(a))
             ledgers == [a \in Authorizations |-> IF a \in grown THEN More(a) ELSE e.ledgers[a]]
             r == CountersApplied(d, p, epoch, read, time)
  <1>1. r = [e EXCEPT !.counters = counters, !.ledgers = ledgers]
    BY DEF CountersApplied
  <1>2. /\ grown \in SUBSET Authorizations
        /\ \A a \in grown : delta(a) \in Nat /\ delta(a) > 0
    BY GrownType
  <1> HIDE DEF grown, delta
  <1>3. /\ e \in Database /\ SameSteering(e, d)
        /\ e.counters = d.counters /\ e.cursors = d.cursors /\ e.slots = d.slots
        /\ e.blocks = d.blocks /\ e.statuses = d.statuses
        /\ \A a \in grown : e.ledgers[a] # None
    BY <1>2, EnsureLedgersFacts
  <1> HIDE DEF e
  <1>4. counters \in [Keys -> Or(Counter)]
    <2>1. \A k \in Keys : k[1] \in Authorizations /\ e.counters[k] \in Or(Counter)
      BY <1>3 DEF Keys, Database
    <2>2. \A a \in Authorizations : [epoch |-> epoch, bytes |-> read[a]] \in Counter
      BY DEF Counter
    <2> QED
      BY <2>1, <2>2 DEF Or
  <1>5. ASSUME NEW a \in grown
        PROVE  /\ e.ledgers[a] \in Ledger /\ More(a) \in Ledger
               /\ More(a).period = e.ledgers[a].period /\ More(a).queued = e.ledgers[a].queued
               /\ More(a).revision = e.ledgers[a].revision + 1
               /\ More(a).bytes > e.ledgers[a].bytes
    <2>1. e.ledgers[a] \in Ledger
      BY <1>2, <1>3 DEF Database, Or
    <2> QED
      BY <1>2, <2>1, ChargedType
  <1> HIDE DEF More
  <1>6. /\ ledgers \in [Authorizations -> Or(Ledger)]
        /\ \A a \in grown : ledgers[a] = More(a)
        /\ \A a \in Authorizations : a \notin grown => ledgers[a] = e.ledgers[a]
    BY <1>2, <1>3, <1>5 DEF Database, Or
  <1> HIDE DEF counters, ledgers, r
  <1>7. r \in Database
    BY <1>1, <1>3, <1>4, <1>6 DEF Database
  <1>8. /\ SameSteering(r, d) /\ r.cursors = d.cursors /\ r.slots = d.slots
        /\ r.blocks = d.blocks /\ r.statuses = d.statuses /\ r.pending = e.pending
        /\ r.ledgers = ledgers
    BY <1>1, <1>3 DEF Database, SameSteering
  <1> QED
    BY <1>5, <1>6, <1>7, <1>8 DEF r, e, grown

\* Reading counters leaves the statuses alone.
SameStatuses(r, d) == r.statuses = d.statuses

LEMMA CountersAppliedStatuses ==
  ASSUME NEW d \in Database, NEW p \in Plugins, NEW epoch \in Nat,
         NEW read \in [Authorizations -> Nat], NEW time \in Nat
  PROVE  SameStatuses(CountersApplied(d, p, epoch, read, time), d)
  <1> DEFINE r == CountersApplied(d, p, epoch, read, time)
             grown == Grown(d, p, epoch, read)
             e == EnsureLedgers(d, grown, time)
  <1>1. /\ r.cursors = d.cursors /\ r.slots = d.slots /\ r.blocks = d.blocks
        /\ r.statuses = d.statuses /\ r.pending = e.pending
    BY CountersAppliedFacts
  <1> QED
    BY <1>1 DEF SameStatuses

-----------------------------------------------------------------------------
(* Reports and activity.                                                   *)

LEMMA UnqueuedTrafficType ==
  ASSUME NEW d \in Database
  PROVE  UnqueuedTraffic(d) \subseteq Traffic
  <1>1. \A a \in Authorizations : d.ledgers[a] # None => TrafficOf(a, d.ledgers[a]) \in Traffic
    BY LedgerType DEF Database, Or
  <1> QED
    BY <1>1 DEF UnqueuedTraffic, Unqueued, Database

LEMMA TrafficQueuedFacts ==
  ASSUME NEW d \in Database, NEW t \in Traffic, TrafficMatches(d, t)
  PROVE  LET r == TrafficQueued(d, t)
         IN  /\ r \in Database /\ SameSteering(r, d)
             /\ r.cursors = d.cursors /\ r.slots = d.slots /\ r.blocks = d.blocks
             /\ r.statuses = d.statuses /\ r.pending \subseteq d.pending
             /\ \A u \in d.pending : u # t => u \in r.pending
             /\ \A a \in Authorizations :
                  /\ r.ledgers[a] = None <=> d.ledgers[a] = None
                  /\ d.ledgers[a] # None =>
                       /\ r.ledgers[a] \in Ledger
                       /\ r.ledgers[a].period = d.ledgers[a].period
                       /\ r.ledgers[a].revision = d.ledgers[a].revision
                       /\ r.ledgers[a].bytes = d.ledgers[a].bytes
  <1> DEFINE r == TrafficQueued(d, t)
  <1>1. CASE PendingOf(d, t) # {}
    <2>1. r = [d EXCEPT !.pending = d.pending \ {t}]
      BY <1>1 DEF TrafficQueued
    <2>2. /\ r \in Database /\ SameSteering(r, d)
          /\ r.cursors = d.cursors /\ r.slots = d.slots /\ r.blocks = d.blocks
          /\ r.statuses = d.statuses /\ r.pending = d.pending \ {t} /\ r.ledgers = d.ledgers
      BY <2>1 DEF Database, SameSteering
    <2>3. \A a \in Authorizations : d.ledgers[a] # None => d.ledgers[a] \in Ledger
      BY DEF Database, Or
    <2> QED
      BY <2>2, <2>3
  <1>2. CASE PendingOf(d, t) = {} /\ TrafficOf(t.authorization, d.ledgers[t.authorization]) = t
    <2> DEFINE b == t.authorization
               new == [d.ledgers[b] EXCEPT !.queued = t.revision]
               ledgers == [d.ledgers EXCEPT ![b] = new]
    <2>1. b \in Authorizations /\ t.revision \in Nat
      BY DEF Traffic
    <2>2. d.ledgers[b] \in Ledger
      BY <1>2, <2>1 DEF TrafficMatches, Database, Or
    <2>3. new \in Ledger /\ new.period = d.ledgers[b].period
          /\ new.revision = d.ledgers[b].revision /\ new.bytes = d.ledgers[b].bytes
      BY <2>1, <2>2 DEF Ledger
    <2>4. r = [d EXCEPT !.ledgers = ledgers]
      BY <1>2 DEF TrafficQueued
    <2> HIDE DEF new, b
    <2>5. /\ ledgers \in [Authorizations -> Or(Ledger)] /\ ledgers[b] = new
          /\ \A a \in Authorizations \ {b} : ledgers[a] = d.ledgers[a]
      BY <2>1, <2>3 DEF Database, Or
    <2> HIDE DEF ledgers, r
    <2>6. /\ r \in Database /\ SameSteering(r, d)
          /\ r.cursors = d.cursors /\ r.slots = d.slots /\ r.blocks = d.blocks
          /\ r.statuses = d.statuses /\ r.pending = d.pending /\ r.ledgers = ledgers
      BY <2>4, <2>5 DEF Database, SameSteering
    <2>7. \A a \in Authorizations :
            /\ ledgers[a] = None <=> d.ledgers[a] = None
            /\ d.ledgers[a] # None =>
                 /\ ledgers[a] \in Ledger
                 /\ ledgers[a].period = d.ledgers[a].period
                 /\ ledgers[a].revision = d.ledgers[a].revision
                 /\ ledgers[a].bytes = d.ledgers[a].bytes
      BY <2>1, <2>2, <2>3, <2>5, NoneAssumption DEF Or
    <2> QED
      BY <2>6, <2>7 DEF r
  <1>3. CASE PendingOf(d, t) = {} /\ TrafficOf(t.authorization, d.ledgers[t.authorization]) # t
    <2>1. r = d
      BY <1>3 DEF TrafficQueued
    <2> QED
      BY <2>1 DEF Database, SameSteering, Or
  <1> QED
    BY <1>1, <1>2, <1>3

\* Everything but the buckets that steer the plugins, and the counters.
SameAccounts(r, d) ==
  /\ r.ledgers = d.ledgers /\ r.pending = d.pending /\ r.cursors = d.cursors
  /\ r.slots = d.slots /\ r.blocks = d.blocks

LEMMA CursorAdvancedFacts ==
  ASSUME NEW d \in Database, NEW p \in Plugins, NEW stream \in Nat, NEW sequence \in Nat
  PROVE  LET r == CursorAdvanced(d, p, stream, sequence)
         IN  /\ r \in Database /\ SameSteering(r, d)
             /\ r.ledgers = d.ledgers /\ r.pending = d.pending /\ r.statuses = d.statuses
             /\ SameActivity(r, d)
             /\ r.cursors[p] = [stream |-> stream, sequence |-> sequence]
             /\ \A q \in Plugins \ {p} : r.cursors[q] = d.cursors[q]
  <1> DEFINE r == CursorAdvanced(d, p, stream, sequence)
             new == [stream |-> stream, sequence |-> sequence]
             cursors == [d.cursors EXCEPT ![p] = new]
  <1>1. r = [d EXCEPT !.cursors = cursors]
    BY DEF CursorAdvanced
  <1>2. new \in Cursor
    BY DEF Cursor
  <1> HIDE DEF new
  <1>3. /\ cursors \in [Plugins -> Or(Cursor)] /\ cursors[p] = new
        /\ \A q \in Plugins \ {p} : cursors[q] = d.cursors[q]
    BY <1>2 DEF Database, Or
  <1> HIDE DEF cursors
  <1>4. /\ r \in Database /\ SameSteering(r, d)
        /\ r.ledgers = d.ledgers /\ r.pending = d.pending /\ r.statuses = d.statuses
        /\ SameActivity(r, d) /\ r.cursors = cursors
    BY <1>1, <1>3 DEF Database, SameSteering, SameActivity
  <1> QED
    BY <1>3, <1>4 DEF new

\* A cursor is no matter of the accounts.
SameBooks(r, d) == r.ledgers = d.ledgers /\ r.pending = d.pending /\ r.statuses = d.statuses

LEMMA CursorAdvancedBooks ==
  ASSUME NEW d \in Database, NEW p \in Plugins, NEW stream \in Nat, NEW sequence \in Nat
  PROVE  SameBooks(CursorAdvanced(d, p, stream, sequence), d)
  <1> DEFINE r == CursorAdvanced(d, p, stream, sequence)
             cursors == [d.cursors EXCEPT ![p] = [stream |-> stream, sequence |-> sequence]]
  <1>1. r = [d EXCEPT !.cursors = cursors]
    BY DEF CursorAdvanced
  <1> HIDE DEF r, cursors
  <1>2. r.ledgers = d.ledgers /\ r.pending = d.pending /\ r.statuses = d.statuses
    BY <1>1 DEF Database
  <1> QED
    BY <1>2 DEF SameBooks, r

LEMMA SlotsFinite ==
  ASSUME NEW d, NEW a
  PROVE  /\ IsFiniteSet(SlotsOf(d, a)) /\ Cardinality(SlotsOf(d, a)) \in Nat
         /\ IsFiniteSet(BlocksOf(d, a)) /\ Cardinality(BlocksOf(d, a)) \in Nat
  <1>1. SlotsOf(d, a) \subseteq Sources /\ BlocksOf(d, a) \subseteq Sources
    BY DEF SlotsOf, BlocksOf
  <1>2. IsFiniteSet(Sources)
    OBVIOUS
  <1> QED
    BY <1>1, <1>2, FS_Subset, FS_CardinalityType

LEMMA OneMore ==
  ASSUME NEW S, NEW x, IsFiniteSet(S)
  PROVE  IsFiniteSet(S \cup {x}) /\ Cardinality(S \cup {x}) <= Cardinality(S) + 1
  <1> DEFINE n == Cardinality(S)
             m == Cardinality(S \cup {x})
  <1>1. n \in Nat
    BY FS_CardinalityType
  <1>2. IsFiniteSet(S \cup {x}) /\ m = IF x \in S THEN n ELSE n + 1
    BY FS_AddElement
  <1> HIDE DEF n, m
  <1>3. m <= n + 1
    BY <1>1, <1>2
  <1> QED
    BY <1>2, <1>3 DEF n, m

LEMMA FewerSlots ==
  ASSUME NEW r, NEW d, FewerActivity(r, d), NEW a \in Authorizations
  PROVE  SlotsOf(r, a) \subseteq SlotsOf(d, a) /\ BlocksOf(r, a) \subseteq BlocksOf(d, a)
  BY DEF FewerActivity, SlotsOf, BlocksOf

\* Store.ObserveActivity gives a slot only within the limit, and never leaves an
\* address with a slot and a block.
LEMMA ObservedFacts ==
  ASSUME NEW d \in Database, NEW a \in Authorizations, NEW source \in Sources, NEW time \in Nat
  PROVE  LET r == Observed(d, a, source, time)
         IN  /\ r \in Database /\ SameSteering(r, d)
             /\ r.ledgers = d.ledgers /\ r.pending = d.pending /\ r.cursors = d.cursors
             /\ r.statuses = d.statuses
             /\ \A x \in Authorizations \X Sources :
                  r.slots[x] # None /\ r.blocks[x] # None => d.slots[x] # None /\ d.blocks[x] # None
             /\ \A b \in Authorizations :
                  \/ SlotsOf(r, b) \subseteq SlotsOf(d, b)
                  \/ b \in Limited(d) /\ Cardinality(SlotsOf(r, b)) <= Policies(d)[b].soft
  <1> DEFINE r == Observed(d, a, source, time)
             clean == CleanActivity(d, {a}, time)
             x0 == <<a, source>>
  <1>1. /\ clean \in Database /\ SameSteering(clean, d) /\ FewerActivity(clean, d)
        /\ clean.cursors = d.cursors /\ clean.statuses = d.statuses
        /\ clean.ledgers = d.ledgers /\ clean.pending = d.pending
    BY CleanActivityFacts
  <1>2. x0 \in Authorizations \X Sources /\ time # None
    BY NoneAssumption
  <1>3. CASE r = d
    BY <1>3 DEF SameSteering
  <1>4. CASE r = clean
    <2>1. \A b \in Authorizations : SlotsOf(clean, b) \subseteq SlotsOf(d, b)
      BY <1>1, FewerSlots
    <2> HIDE DEF r, clean
    <2> QED
      BY <1>1, <1>4, <2>1 DEF FewerActivity, r
  <1>5. CASE /\ r = [clean EXCEPT !.slots[x0] = time] /\ clean.blocks[x0] = None
             /\ \/ clean.slots[x0] # None
                \/ a \in Limited(d) /\ Cardinality(SlotsOf(clean, a)) < Policies(d)[a].soft
    <2> HIDE DEF clean, r, x0
    <2> DEFINE slots == [clean.slots EXCEPT ![x0] = time]
    <2>1. r = [clean EXCEPT !.slots = slots]
      BY <1>5
    <2>2. /\ slots \in [Authorizations \X Sources -> Or(Nat)] /\ slots[x0] = time
          /\ \A x \in (Authorizations \X Sources) \ {x0} : slots[x] = clean.slots[x]
      BY <1>1, <1>2 DEF Database, Or
    <2> HIDE DEF slots
    <2>3. /\ r \in Database /\ SameSteering(r, d)
          /\ r.ledgers = d.ledgers /\ r.pending = d.pending /\ r.cursors = d.cursors
          /\ r.statuses = d.statuses /\ r.slots = slots /\ r.blocks = clean.blocks
      BY <1>1, <2>1, <2>2 DEF Database, SameSteering
    <2>4. \A x \in Authorizations \X Sources :
            r.slots[x] # None /\ r.blocks[x] # None => d.slots[x] # None /\ d.blocks[x] # None
      BY <1>1, <1>5, <2>2, <2>3 DEF FewerActivity
    <2>5. ASSUME NEW b \in Authorizations
          PROVE  \/ SlotsOf(r, b) \subseteq SlotsOf(d, b)
                 \/ b \in Limited(d) /\ Cardinality(SlotsOf(r, b)) <= Policies(d)[b].soft
      <3>1. SlotsOf(clean, b) \subseteq SlotsOf(d, b)
        BY <1>1, FewerSlots
      <3>2. SlotsOf(r, b) \subseteq SlotsOf(clean, b) \cup {source}
        BY <2>2, <2>3 DEF SlotsOf, x0
      <3>3. CASE b # a
        <4>1. SlotsOf(r, b) \subseteq SlotsOf(clean, b)
          BY <2>2, <2>3, <3>3 DEF SlotsOf, x0
        <4> QED
          BY <3>1, <4>1
      <3>4. CASE clean.slots[x0] # None /\ b = a
        <4>1. source \in SlotsOf(clean, b)
          BY <3>4 DEF SlotsOf, x0
        <4> QED
          BY <3>1, <3>2, <4>1
      <3>5. CASE a \in Limited(d) /\ Cardinality(SlotsOf(clean, a)) < Policies(d)[a].soft /\ b = a
        <4>1. Policies(d)[a].soft \in Nat
          BY <3>5, AuthorizedType DEF Limited, Policy
        <4>2. IsFiniteSet(SlotsOf(clean, a)) /\ Cardinality(SlotsOf(clean, a)) \in Nat
          BY SlotsFinite
        <4>3. /\ IsFiniteSet(SlotsOf(clean, a) \cup {source})
              /\ Cardinality(SlotsOf(clean, a) \cup {source}) <= Cardinality(SlotsOf(clean, a)) + 1
          BY <4>2, OneMore
        <4>4. /\ Cardinality(SlotsOf(r, a)) <= Cardinality(SlotsOf(clean, a) \cup {source})
              /\ Cardinality(SlotsOf(r, a)) \in Nat
          BY <3>2, <3>5, <4>3, FS_Subset, SlotsFinite
        <4>5. Cardinality(SlotsOf(clean, a) \cup {source}) \in Nat
          BY <4>3, FS_CardinalityType
        <4> QED
          BY <3>5, <4>1, <4>2, <4>3, <4>4, <4>5
      <3> QED
        BY <1>5, <3>3, <3>4, <3>5
    <2> QED
      BY <2>3, <2>4, <2>5 DEF r
  <1>6. CASE r = [clean EXCEPT !.blocks[x0] = time + BlockTime] /\ clean.slots[x0] = None
    <2> HIDE DEF clean, r, x0
    <2> DEFINE blocks == [clean.blocks EXCEPT ![x0] = time + BlockTime]
    <2>1. r = [clean EXCEPT !.blocks = blocks]
      BY <1>6
    <2>2. time + BlockTime \in Nat
      OBVIOUS
    <2>3. /\ blocks \in [Authorizations \X Sources -> Or(Nat)]
          /\ \A x \in (Authorizations \X Sources) \ {x0} : blocks[x] = clean.blocks[x]
      BY <1>1, <1>2, <2>2 DEF Database, Or
    <2> HIDE DEF blocks
    <2>4. /\ r \in Database /\ SameSteering(r, d)
          /\ r.ledgers = d.ledgers /\ r.pending = d.pending /\ r.cursors = d.cursors
          /\ r.statuses = d.statuses /\ r.slots = clean.slots /\ r.blocks = blocks
      BY <1>1, <2>1, <2>3 DEF Database, SameSteering
    <2>5. \A x \in Authorizations \X Sources :
            r.slots[x] # None /\ r.blocks[x] # None => d.slots[x] # None /\ d.blocks[x] # None
      BY <1>1, <1>6, <2>3, <2>4 DEF FewerActivity
    <2>6. \A b \in Authorizations : SlotsOf(r, b) \subseteq SlotsOf(d, b)
      BY <1>1, <2>4 DEF SlotsOf, FewerActivity
    <2> QED
      BY <2>4, <2>5, <2>6 DEF r
  <1>7. r = d \/ r = clean
        \/ (/\ r = [clean EXCEPT !.slots[x0] = time] /\ clean.blocks[x0] = None
            /\ \/ clean.slots[x0] # None
               \/ a \in Limited(d) /\ Cardinality(SlotsOf(clean, a)) < Policies(d)[a].soft)
        \/ (r = [clean EXCEPT !.blocks[x0] = time + BlockTime] /\ clean.slots[x0] = None)
    BY DEF Observed
  <1> QED
    BY <1>3, <1>4, <1>5, <1>6, <1>7

-----------------------------------------------------------------------------
(* What the plugins are to do.                                             *)

LEMMA EnforcementStateType ==
  ASSUME NEW policy, NEW ledger, NEW time
  PROVE  EnforcementState(policy, ledger, time) \in Reasons
  BY DEF EnforcementState, Reasons

LEMMA WantedServiceType ==
  ASSUME NEW d \in Database, NEW k \in Keys, NEW time \in Nat, NEW revision \in Nat
  PROVE  LET w == WantedService(d, k, time, revision)
         IN  w \in Desired /\ w.revision = revision /\ w.generation = d.snapshot.generation
  <1> DEFINE reason == IF k \in d.orphans THEN "disabled" ELSE ReasonFor(d, k[1], time)
             orphan == k \in d.orphans
  <1>1. reason \in Reasons
    BY EnforcementStateType DEF ReasonFor, Reasons
  <1>2. orphan \in BOOLEAN
    OBVIOUS
  <1>3. d.snapshot.generation \in Nat
    BY SnapshotType DEF Database
  <1>4. WantedService(d, k, time, revision) =
          [generation |-> d.snapshot.generation, revision |-> revision,
           reason |-> reason, orphan |-> orphan]
    BY DEF WantedService
  <1> HIDE DEF reason, orphan
  <1> QED
    BY <1>1, <1>2, <1>3, <1>4 DEF Desired

LEMMA WantedBlocksType ==
  ASSUME NEW d \in Database, NEW p \in Plugins, NEW time \in Nat, NEW revision \in Nat
  PROVE  LET w == WantedBlocks(d, p, time, revision)
         IN  w \in DesiredBlocks /\ w.revision = revision /\ w.generation = d.snapshot.generation
  <1> DEFINE blocks == BlocksFor(d, p, time)
  <1>1. Bound(d, p) \subseteq Authorizations
    BY AuthorizedType DEF Bound
  <1>2. {d.blocks[x] : x \in DOMAIN d.blocks} \ {None} \subseteq Nat
    BY DEF Database, Or
  <1>3. blocks \subseteq Block
    BY <1>1, <1>2 DEF BlocksFor, Block
  <1>4. d.snapshot.generation \in Nat
    BY SnapshotType DEF Database
  <1>5. WantedBlocks(d, p, time, revision) =
          [generation |-> d.snapshot.generation, revision |-> revision, blocks |-> blocks]
    BY DEF WantedBlocks
  <1> HIDE DEF blocks
  <1> QED
    BY <1>3, <1>4, <1>5 DEF DesiredBlocks

\* An entry that Store.Desired changes gets a revision that was not used before, and
\* afterwards every entry that is listed is there, for the current generation.
LEMMA DesiredUpdatedFacts ==
  ASSUME NEW d \in Database, NEW time \in Nat
  PROVE  LET r == DesiredUpdated(d, time)
             e == Refreshed(d, time)
         IN  /\ r \in Database /\ r.snapshot = d.snapshot /\ r.orphans = d.orphans
             /\ r.appliedServices = d.appliedServices /\ r.appliedBlocks = d.appliedBlocks
             /\ r.ledgers = e.ledgers /\ r.pending = e.pending /\ r.cursors = d.cursors
             /\ r.statuses = d.statuses /\ r.slots = e.slots /\ r.blocks = e.blocks
             /\ r.stateRevision >= d.stateRevision /\ r.blockRevision >= d.blockRevision
             /\ \A k \in Keys :
                  \/ r.services[k] = d.services[k]
                  \/ /\ r.services[k] \in Desired
                     /\ r.services[k].revision = d.stateRevision + 1
                     /\ r.stateRevision = d.stateRevision + 1
             /\ \A k \in ServicesListed(r) :
                  /\ r.services[k] \in Desired
                  /\ r.services[k].generation = r.snapshot.generation
             /\ \A p \in Plugins :
                  \/ r.blockSets[p] = d.blockSets[p]
                  \/ /\ r.blockSets[p] \in DesiredBlocks
                     /\ r.blockSets[p].revision = d.blockRevision + 1
                     /\ r.blockRevision = d.blockRevision + 1
             /\ \A p \in PluginsListed(r) : r.blockSets[p] \in DesiredBlocks
  <1> DEFINE r == DesiredUpdated(d, time)
             e == Refreshed(d, time)
             changed == {k \in ServicesListed(e) :
               \/ e.services[k] = None
               \/ e.services[k] # WantedService(e, k, time, e.services[k].revision)}
             changedSets == {p \in PluginsListed(e) :
               \/ e.blockSets[p] = None
               \/ e.blockSets[p] # WantedBlocks(e, p, time, e.blockSets[p].revision)}
             stateRevision == IF changed = {} THEN e.stateRevision ELSE e.stateRevision + 1
             blockRevision == IF changedSets = {} THEN e.blockRevision ELSE e.blockRevision + 1
             services == [k \in Keys |->
               IF k \in changed THEN WantedService(e, k, time, e.stateRevision + 1)
                                ELSE e.services[k]]
             blockSets == [p \in Plugins |->
               IF p \in changedSets THEN WantedBlocks(e, p, time, e.blockRevision + 1)
                                    ELSE e.blockSets[p]]
  <1>1. r = [e EXCEPT !.stateRevision = stateRevision, !.blockRevision = blockRevision,
                      !.services = services, !.blockSets = blockSets]
    BY DEF DesiredUpdated
  <1>2. /\ e \in Database /\ SameSteering(e, d)
        /\ e.cursors = d.cursors /\ e.statuses = d.statuses
    BY RefreshedFacts
  <1> HIDE DEF e
  <1>3. e.stateRevision \in Nat /\ e.blockRevision \in Nat
    BY <1>2 DEF Database
  <1>4. ServicesListed(e) \subseteq Keys /\ PluginsListed(e) \subseteq Plugins
    BY <1>2, SnapshotType DEF ServicesListed, PluginsListed, Database
  <1>5. \A k \in Keys : LET w == WantedService(e, k, time, e.stateRevision + 1)
                       IN  /\ w \in Desired /\ w.revision = e.stateRevision + 1
                           /\ w.generation = e.snapshot.generation
    BY <1>2, <1>3, WantedServiceType
  <1>6. \A p \in Plugins : LET w == WantedBlocks(e, p, time, e.blockRevision + 1)
                          IN  w \in DesiredBlocks /\ w.revision = e.blockRevision + 1
    BY <1>2, <1>3, WantedBlocksType
  <1>7. ASSUME NEW k \in ServicesListed(e), k \notin changed
        PROVE  e.services[k] \in Desired /\ e.services[k].generation = e.snapshot.generation
    <2>1. e.services[k] \in Desired
      BY <1>2, <1>4, <1>7 DEF Database, Or
    <2>2. e.services[k].revision \in Nat /\ k \in Keys
      BY <1>4, <2>1 DEF Desired
    <2>3. e.services[k] = WantedService(e, k, time, e.services[k].revision)
      BY <1>7
    <2> QED
      BY <1>2, <2>1, <2>2, <2>3, WantedServiceType
  <1>8. /\ services \in [Keys -> Or(Desired)]
        /\ \A k \in Keys : \/ services[k] = e.services[k] /\ k \notin changed
                           \/ /\ k \in changed /\ services[k] \in Desired
                              /\ services[k].revision = e.stateRevision + 1
                              /\ services[k].generation = e.snapshot.generation
    <2> DEFINE W(k) == WantedService(e, k, time, e.stateRevision + 1)
    <2>1. \A k \in Keys : W(k) \in Desired /\ W(k).revision = e.stateRevision + 1
                         /\ W(k).generation = e.snapshot.generation
      BY <1>5
    <2>2. \A k \in Keys : services[k] = IF k \in changed THEN W(k) ELSE e.services[k]
      OBVIOUS
    <2>3. \A k \in Keys : e.services[k] \in Or(Desired)
      BY <1>2 DEF Database
    <2> HIDE DEF W, changed
    <2> QED
      BY <2>1, <2>2, <2>3 DEF Or
  <1>9. /\ blockSets \in [Plugins -> Or(DesiredBlocks)]
        /\ \A p \in Plugins : \/ blockSets[p] = e.blockSets[p] /\ p \notin changedSets
                              \/ /\ p \in changedSets /\ blockSets[p] \in DesiredBlocks
                                 /\ blockSets[p].revision = e.blockRevision + 1
    <2> DEFINE W(p) == WantedBlocks(e, p, time, e.blockRevision + 1)
    <2>1. \A p \in Plugins : W(p) \in DesiredBlocks /\ W(p).revision = e.blockRevision + 1
      BY <1>6
    <2>2. \A p \in Plugins : blockSets[p] = IF p \in changedSets THEN W(p) ELSE e.blockSets[p]
      OBVIOUS
    <2>3. \A p \in Plugins : e.blockSets[p] \in Or(DesiredBlocks)
      BY <1>2 DEF Database
    <2> HIDE DEF W, changedSets
    <2> QED
      BY <2>1, <2>2, <2>3 DEF Or
  <1>10. \A p \in PluginsListed(e) : p \notin changedSets => e.blockSets[p] # None
    OBVIOUS
  <1>11. /\ stateRevision \in Nat /\ stateRevision >= e.stateRevision
         /\ changed # {} => stateRevision = e.stateRevision + 1
         /\ blockRevision \in Nat /\ blockRevision >= e.blockRevision
         /\ changedSets # {} => blockRevision = e.blockRevision + 1
    BY <1>3
  <1> HIDE DEF changed, changedSets, services, blockSets, stateRevision, blockRevision, r
  <1>12. r \in Database
    BY <1>1, <1>2, <1>8, <1>9, <1>11 DEF Database
  <1>13. /\ r.stateRevision = stateRevision /\ r.blockRevision = blockRevision
         /\ r.services = services /\ r.blockSets = blockSets
         /\ r.snapshot = e.snapshot /\ r.orphans = e.orphans
         /\ r.appliedServices = e.appliedServices /\ r.appliedBlocks = e.appliedBlocks
    BY <1>1, <1>2 DEF Database
  <1>14. /\ r.ledgers = e.ledgers /\ r.pending = e.pending /\ r.cursors = e.cursors
         /\ r.statuses = e.statuses /\ r.slots = e.slots /\ r.blocks = e.blocks
    BY <1>1, <1>2 DEF Database
  <1>15. \A k \in ServicesListed(r) :
           r.services[k] \in Desired /\ r.services[k].generation = r.snapshot.generation
    <2>1. ServicesListed(r) = ServicesListed(e)
      BY <1>13 DEF ServicesListed
    <2> QED
      BY <1>4, <1>7, <1>8, <1>13, <2>1
  <1>16. \A p \in PluginsListed(r) : r.blockSets[p] \in DesiredBlocks
    <2>1. \A p \in PluginsListed(r) : r.blockSets[p] = None => p \in PluginsListed(e)
      BY <1>13 DEF PluginsListed, Bound, Limited, Authorized, Policies
    <2>2. \A p \in PluginsListed(r) : p \in Plugins
      BY DEF PluginsListed
    <2> QED
      BY <1>9, <1>10, <1>13, <2>1, <2>2, NoneAssumption DEF Or
  <1>17. /\ \A k \in Keys : \/ r.services[k] = d.services[k]
                            \/ /\ r.services[k] \in Desired
                               /\ r.services[k].revision = d.stateRevision + 1
                               /\ r.stateRevision = d.stateRevision + 1
         /\ \A p \in Plugins : \/ r.blockSets[p] = d.blockSets[p]
                               \/ /\ r.blockSets[p] \in DesiredBlocks
                                  /\ r.blockSets[p].revision = d.blockRevision + 1
                                  /\ r.blockRevision = d.blockRevision + 1
    BY <1>2, <1>8, <1>9, <1>11, <1>13 DEF SameSteering
  <1>18. r.stateRevision >= d.stateRevision /\ r.blockRevision >= d.blockRevision
    BY <1>2, <1>11, <1>13 DEF SameSteering
  <1>19. r.snapshot = d.snapshot /\ r.orphans = d.orphans
         /\ r.appliedServices = d.appliedServices /\ r.appliedBlocks = d.appliedBlocks
         /\ r.cursors = d.cursors /\ r.statuses = d.statuses
    BY <1>2, <1>13, <1>14 DEF SameSteering
  <1> QED
    BY <1>12, <1>14, <1>15, <1>16, <1>17, <1>18, <1>19 DEF r, e

LEMMA ServiceAppliedFacts ==
  ASSUME NEW d \in Database, NEW k \in Keys, NEW instance \in Nat, d.services[k] # None
  PROVE  LET r == ServiceApplied(d, k, instance)
         IN  /\ r \in Database /\ SameAccounts(r, d) /\ r.statuses = d.statuses
             /\ r.snapshot = d.snapshot /\ r.orphans \subseteq d.orphans
             /\ r.stateRevision = d.stateRevision /\ r.blockRevision = d.blockRevision
             /\ r.blockSets = d.blockSets /\ r.appliedBlocks = d.appliedBlocks
             /\ r.appliedServices[k] = [instance |-> instance, desired |-> d.services[k]]
             /\ r.services[k] \in {None, d.services[k]}
             /\ \A j \in Keys \ {k} : /\ r.services[j] = d.services[j]
                                     /\ r.appliedServices[j] = d.appliedServices[j]
  <1> DEFINE r == ServiceApplied(d, k, instance)
             new == [instance |-> instance, desired |-> d.services[k]]
             applied == [d.appliedServices EXCEPT ![k] = new]
             services == [d.services EXCEPT ![k] = None]
             orphans == d.orphans \ {k}
             marked == [d EXCEPT !.appliedServices = applied]
  <1>1. d.services[k] \in Desired
    BY DEF Database, Or
  <1>2. new \in AppliedService
    BY <1>1 DEF AppliedService
  <1>3. r = IF d.services[k].orphan THEN [marked EXCEPT !.orphans = marked.orphans \ {k},
                                                        !.services[k] = None] ELSE marked
    BY DEF ServiceApplied
  <1> HIDE DEF new
  <1>4. /\ applied \in [Keys -> Or(AppliedService)] /\ applied[k] = new
        /\ \A j \in Keys \ {k} : applied[j] = d.appliedServices[j]
    BY <1>2 DEF Database, Or
  <1>5. /\ services \in [Keys -> Or(Desired)] /\ services[k] = None
        /\ \A j \in Keys \ {k} : services[j] = d.services[j]
    BY DEF Database, Or
  <1>6. orphans \subseteq Keys /\ orphans \subseteq d.orphans
    BY DEF Database
  <1> HIDE DEF applied
  <1>7. marked \in Database /\ marked.services = d.services /\ marked.orphans = d.orphans
    BY <1>4 DEF Database
  <1>8. /\ SameAccounts(marked, d) /\ marked.statuses = d.statuses
        /\ marked.snapshot = d.snapshot /\ marked.appliedServices = applied
        /\ marked.stateRevision = d.stateRevision /\ marked.blockRevision = d.blockRevision
        /\ marked.blockSets = d.blockSets /\ marked.appliedBlocks = d.appliedBlocks
    BY DEF Database, SameAccounts
  <1>9. r = marked \/ r = [marked EXCEPT !.orphans = orphans, !.services = services]
    BY <1>3, <1>7
  <1> HIDE DEF marked, services, orphans, r
  <1>10. CASE r = marked
    BY <1>4, <1>7, <1>8, <1>10 DEF new, r
  <1>11. CASE r = [marked EXCEPT !.orphans = orphans, !.services = services]
    <2>1. r \in Database /\ r.services = services /\ r.orphans = orphans
      BY <1>5, <1>6, <1>7, <1>11 DEF Database
    <2>2. /\ SameAccounts(r, marked) /\ r.statuses = marked.statuses
          /\ r.snapshot = marked.snapshot /\ r.appliedServices = marked.appliedServices
          /\ r.stateRevision = marked.stateRevision /\ r.blockRevision = marked.blockRevision
          /\ r.blockSets = marked.blockSets /\ r.appliedBlocks = marked.appliedBlocks
      BY <1>7, <1>11 DEF Database, SameAccounts
    <2>3. SameAccounts(r, d)
      BY <1>8, <2>2 DEF SameAccounts
    <2> QED
      BY <1>4, <1>5, <1>6, <1>8, <2>1, <2>2, <2>3 DEF new, r
  <1> QED
    BY <1>9, <1>10, <1>11

LEMMA BlocksAppliedFacts ==
  ASSUME NEW d \in Database, NEW p \in Plugins, NEW instance \in Nat, d.blockSets[p] # None
  PROVE  LET r == BlocksApplied(d, p, instance)
         IN  /\ r \in Database /\ SameAccounts(r, d) /\ r.statuses = d.statuses
             /\ r.snapshot = d.snapshot /\ r.orphans = d.orphans
             /\ r.stateRevision = d.stateRevision /\ r.blockRevision = d.blockRevision
             /\ r.services = d.services /\ r.appliedServices = d.appliedServices
             /\ r.blockSets = d.blockSets
             /\ r.appliedBlocks[p] = [instance |-> instance, desired |-> d.blockSets[p]]
             /\ \A q \in Plugins \ {p} : r.appliedBlocks[q] = d.appliedBlocks[q]
  <1> DEFINE r == BlocksApplied(d, p, instance)
             new == [instance |-> instance, desired |-> d.blockSets[p]]
             applied == [d.appliedBlocks EXCEPT ![p] = new]
  <1>1. d.blockSets[p] \in DesiredBlocks
    BY DEF Database, Or
  <1>2. new \in AppliedBlocks
    BY <1>1 DEF AppliedBlocks
  <1>3. r = [d EXCEPT !.appliedBlocks = applied]
    BY DEF BlocksApplied
  <1> HIDE DEF new
  <1>4. /\ applied \in [Plugins -> Or(AppliedBlocks)]
        /\ applied[p] = new /\ \A q \in Plugins \ {p} : applied[q] = d.appliedBlocks[q]
    BY <1>2 DEF Database, Or
  <1> HIDE DEF applied, r
  <1>5. r \in Database /\ r.appliedBlocks = applied
    BY <1>3, <1>4 DEF Database
  <1>6. /\ SameAccounts(r, d) /\ r.statuses = d.statuses
        /\ r.snapshot = d.snapshot /\ r.orphans = d.orphans
        /\ r.stateRevision = d.stateRevision /\ r.blockRevision = d.blockRevision
        /\ r.services = d.services /\ r.appliedServices = d.appliedServices
        /\ r.blockSets = d.blockSets
    BY <1>3 DEF Database, SameAccounts
  <1> QED
    BY <1>4, <1>5, <1>6 DEF new, r

-----------------------------------------------------------------------------
(* Statuses.                                                               *)

LEMMA StatusOfType ==
  ASSUME NEW d \in Database, NEW a \in Authorizations, NEW time \in Nat, d.ledgers[a] # None
  PROVE  /\ StatusOf(d, a, time) \in StatusEvent
         /\ StatusOf(d, a, time).generation = d.snapshot.generation
  <1> DEFINE reason == ReasonFor(d, a, time)
             active == IF a \in Limited(d) THEN Cardinality(SlotsOf(d, a)) ELSE 0
             blocked == IF a \in Limited(d) THEN Cardinality(BlocksOf(d, a)) ELSE 0
  <1>1. d.ledgers[a].period \in Nat /\ d.ledgers[a].bytes \in Nat
    BY DEF Database, Or, Ledger
  <1>2. reason \in Reasons
    BY EnforcementStateType DEF ReasonFor
  <1>3. active \in Nat /\ blocked \in Nat
    BY SlotsFinite
  <1>4. d.snapshot.generation \in Nat
    BY SnapshotType DEF Database
  <1>5. StatusOf(d, a, time) =
          [generation |-> d.snapshot.generation, period |-> d.ledgers[a].period,
           bytes |-> d.ledgers[a].bytes, reason |-> reason, active |-> active, blocked |-> blocked]
    BY DEF StatusOf
  <1> HIDE DEF reason, active, blocked
  <1> QED
    BY <1>1, <1>2, <1>3, <1>4, <1>5 DEF StatusEvent

\* A status that RefreshStatuses makes is of an authorization whose plugins have
\* applied the state that is wanted of them.
LEMMA StatusesRefreshedFacts ==
  ASSUME NEW d \in Database, NEW instances \in [Plugins -> Or(Nat)], NEW time \in Nat
  PROVE  LET r == StatusesRefreshed(d, instances, time)
             e == Refreshed(d, time)
         IN  /\ r \in Database /\ SameSteering(r, d)
             /\ r.ledgers = e.ledgers /\ r.pending = e.pending /\ r.cursors = d.cursors
             /\ r.slots = e.slots /\ r.blocks = e.blocks
             /\ \A a \in Authorizations :
                  \/ r.statuses[a] = d.statuses[a]
                  \/ /\ r.statuses[a] # None /\ a \in Authorized(d)
                     /\ r.statuses[a].event.generation = d.snapshot.generation
                     /\ \A p \in Policies(d)[a].bindings :
                          /\ d.services[<<a, p>>] # None /\ d.appliedServices[<<a, p>>] # None
                          /\ d.appliedServices[<<a, p>>].desired = d.services[<<a, p>>]
  <1> DEFINE r == StatusesRefreshed(d, instances, time)
             e == Refreshed(d, time)
             New(a) == /\ a \in Authorized(e)
                       /\ AuthorizationApplied(e, a, instances)
                       /\ e.statuses[a] = None \/ e.statuses[a].event # StatusOf(e, a, time)
             Fresh(a) == [event |-> StatusOf(e, a, time), queued |-> FALSE]
             statuses == [a \in Authorizations |-> IF New(a) THEN Fresh(a) ELSE e.statuses[a]]
  <1>1. r = [e EXCEPT !.statuses = statuses]
    BY DEF StatusesRefreshed
  <1>2. /\ e \in Database /\ SameSteering(e, d)
        /\ e.cursors = d.cursors /\ e.statuses = d.statuses
        /\ \A a \in Authorized(e) : e.ledgers[a] # None
    BY RefreshedFacts
  <1> HIDE DEF e
  <1>3. ASSUME NEW a \in Authorizations, New(a)
        PROVE  /\ Fresh(a) \in Status
               /\ Fresh(a).event.generation = e.snapshot.generation
    <2>1. /\ StatusOf(e, a, time) \in StatusEvent
          /\ StatusOf(e, a, time).generation = e.snapshot.generation
      BY <1>2, <1>3, StatusOfType
    <2> QED
      BY <2>1 DEF Status
  <1>4. ASSUME NEW a \in Authorizations, New(a)
        PROVE  /\ a \in Authorized(d)
               /\ \A p \in Policies(d)[a].bindings :
                    /\ d.services[<<a, p>>] # None /\ d.appliedServices[<<a, p>>] # None
                    /\ d.appliedServices[<<a, p>>].desired = d.services[<<a, p>>]
    <2>1. /\ Authorized(e) = Authorized(d) /\ Policies(e) = Policies(d)
          /\ e.services = d.services /\ e.appliedServices = d.appliedServices
      BY <1>2 DEF SameSteering, Authorized, Policies
    <2>2. AuthorizationApplied(e, a, instances) /\ a \in Authorized(e)
      BY <1>4
    <2> HIDE DEF New
    <2>3. \A p \in Policies(d)[a].bindings :
            /\ instances[p] # None /\ d.services[<<a, p>>] # None
            /\ d.appliedServices[<<a, p>>] =
                 [instance |-> instances[p], desired |-> d.services[<<a, p>>]]
      BY <2>1, <2>2 DEF AuthorizationApplied, ServiceNeedsApply
    <2>4. Policies(d)[a].bindings \subseteq Plugins
      BY <2>1, <2>2, AuthorizedType DEF Policy
    <2>5. ASSUME NEW p \in Policies(d)[a].bindings
          PROVE  [instance |-> instances[p], desired |-> d.services[<<a, p>>]] \in AppliedService
      <3>1. instances[p] \in Nat /\ d.services[<<a, p>>] \in Desired
        BY <2>3, <2>4 DEF Or, Database, Keys
      <3> QED
        BY <3>1 DEF AppliedService
    <2>6. None \notin AppliedService
      BY NoneAssumption
    <2>7. \A p \in Policies(d)[a].bindings :
            /\ d.appliedServices[<<a, p>>] # None
            /\ d.appliedServices[<<a, p>>].desired = d.services[<<a, p>>]
      <3> SUFFICES ASSUME NEW p \in Policies(d)[a].bindings
                   PROVE  /\ d.appliedServices[<<a, p>>] # None
                          /\ d.appliedServices[<<a, p>>].desired = d.services[<<a, p>>]
        OBVIOUS
      <3> DEFINE x == [instance |-> instances[p], desired |-> d.services[<<a, p>>]]
      <3>1. x.desired = d.services[<<a, p>>] /\ x \in AppliedService
        BY <2>5
      <3>2. d.appliedServices[<<a, p>>] = x
        BY <2>3
      <3> HIDE DEF x
      <3> QED
        BY <2>6, <3>1, <3>2
    <2>8. a \in Authorized(d)
      BY <2>1, <2>2
    <2> QED
      BY <2>3, <2>7, <2>8
  <1> HIDE DEF New, Fresh
  <1>5. /\ statuses \in [Authorizations -> Or(Status)]
        /\ \A a \in Authorizations : statuses[a] = e.statuses[a]
                                     \/ (New(a) /\ statuses[a] = Fresh(a))
    BY <1>2, <1>3 DEF Database, Or
  <1>6. \A a \in Authorizations : New(a) => Fresh(a) # None
    BY NoneAssumption, <1>3
  <1> HIDE DEF statuses, r
  <1>7. /\ r \in Database /\ SameSteering(r, e) /\ r.statuses = statuses
        /\ r.ledgers = e.ledgers /\ r.pending = e.pending /\ r.cursors = e.cursors
        /\ r.slots = e.slots /\ r.blocks = e.blocks
    BY <1>1, <1>2, <1>5 DEF Database, SameSteering
  <1>8. SameSteering(r, d) /\ e.snapshot = d.snapshot
    BY <1>2, <1>7 DEF SameSteering
  <1> QED
    BY <1>2, <1>3, <1>4, <1>5, <1>6, <1>7, <1>8 DEF r, e

LEMMA StatusQueuedFacts ==
  ASSUME NEW d \in Database, NEW a \in Authorizations, d.statuses[a] # None
  PROVE  LET r == StatusQueued(d, a)
         IN  /\ r \in Database /\ SameSteering(r, d) /\ SameAccounts(r, d)
             /\ \A b \in Authorizations :
                  /\ r.statuses[b] = None <=> d.statuses[b] = None
                  /\ r.statuses[b] # None => r.statuses[b].event = d.statuses[b].event
  <1> DEFINE r == StatusQueued(d, a)
             old == d.statuses[a]
             new == [old EXCEPT !.queued = TRUE]
             statuses == [d.statuses EXCEPT ![a] = new]
  <1>1. r = [d EXCEPT !.statuses = statuses]
    BY DEF StatusQueued
  <1>2. old \in Status
    BY DEF Database, Or
  <1> HIDE DEF old
  <1>3. new \in Status /\ new.event = old.event
    BY <1>2 DEF Status
  <1> HIDE DEF new
  <1>4. /\ statuses \in [Authorizations -> Or(Status)]
        /\ statuses[a] = new
        /\ \A b \in Authorizations \ {a} : statuses[b] = d.statuses[b]
    BY <1>3 DEF Database, Or
  <1> HIDE DEF statuses, r
  <1>5. /\ r \in Database /\ SameSteering(r, d) /\ SameAccounts(r, d) /\ r.statuses = statuses
    BY <1>1, <1>4 DEF Database, SameSteering, SameAccounts
  <1>6. new # None
    BY <1>3, NoneAssumption
  <1>7. \A b \in Authorizations :
          /\ statuses[b] = None <=> d.statuses[b] = None
          /\ statuses[b] # None => statuses[b].event = d.statuses[b].event
    BY <1>3, <1>4, <1>6 DEF old
  <1> QED
    BY <1>5, <1>7 DEF r

HIDE PolicyStoreAssumption
USE PolicyEngineAssumption

-----------------------------------------------------------------------------
(* The types.                                                              *)

Event == [sequence : Nat, authorization : Authorizations, source : Sources, observed : Nat,
          accepted : BOOLEAN, stream : Nat, known : BOOLEAN]

Process == [up : BOOLEAN, instance : Nat, capabilities : SUBSET Capabilities, stream : Nat,
            counters : [Authorizations -> Nat], events : Seq(Event),
            read : [Authorizations -> Nat],
            services : [Authorizations -> Or(Desired)], blocks : SUBSET Block]

Collects  == {"collect", "event", "observe", "advance"}
Publishes == {"publish", "settle"}

Op == [pc : {"idle", "traffic", "enqueue", "mark", "desired", "apply", "refresh"}
              \cup Collects \cup Publishes,
       runtimes : [Plugins -> Or(Runtime)],
       left : SUBSET (Plugins \cup Authorizations \cup Keys \cup Traffic),
       blocks : SUBSET Plugins, plugin : Or(Plugins), cursor : Nat, page : Nat,
       events : Seq(Event), more : BOOLEAN, item : Or(Authorizations) \cup Traffic]

Sink == [traffic : [Authorizations \X Periods -> Or(Traffic)],
         status : [Authorizations -> Or(StatusEvent)],
         access : SUBSET [stream : Nat, plugin : Plugins, event : Event]]

TypeOK ==
  /\ db \in Database
  /\ now \in Nat
  /\ procs \in [Plugins -> Process]
  /\ op \in Op
  /\ sink \in Sink
  /\ carried \in [Authorizations -> Int]
  /\ accepted \in [Keys -> SUBSET [generation : Nat, reason : Reasons]]
  /\ faults \in Nat

-----------------------------------------------------------------------------
(* The inductive invariant.                                                *)

\* What the operation o works on is there: the plugins it was to ask were seen, the
\* entries it is to apply and the statuses it is to publish are in the database d.
OpOK(o, d) ==
  /\ o.pc \in Collects => o.left \subseteq {p \in Plugins : o.runtimes[p] # None}
  /\ o.pc = "collect" /\ o.plugin # None => o.runtimes[o.plugin] # None
  /\ o.pc \in Collects \ {"collect"} =>
       o.plugin # None /\ o.runtimes[o.plugin] # None /\ o.events # <<>>
  /\ o.pc \in {"enqueue", "mark"} => o.left \subseteq Traffic
  /\ o.pc = "mark" => o.item \in Traffic
  /\ o.pc = "apply" =>
       /\ o.left \subseteq {k \in Keys : d.services[k] # None /\ o.runtimes[k[2]] # None}
       /\ o.blocks \subseteq {p \in Plugins : d.blockSets[p] # None /\ o.runtimes[p] # None}
  /\ o.pc \in Publishes => o.left \subseteq {a \in Authorizations : d.statuses[a] # None}
  /\ o.pc = "settle" => o.item \in Authorizations /\ d.statuses[o.item] # None

\* A process that was seen is the one that runs, or an earlier one.
RuntimesOK(o, q) ==
  \A p \in Plugins : o.runtimes[p] # None => o.runtimes[p].instance <= q[p].instance

\* What was applied was wanted then, by this process of the plugin or an earlier one;
\* if it is still wanted, and the process still runs, the process has it.
ServicesOK(d, q) ==
  \A k \in Keys :
    /\ d.services[k] # None => d.services[k].revision <= d.stateRevision
    /\ d.appliedServices[k] # None =>
         /\ d.appliedServices[k].desired.revision <= d.stateRevision
         /\ d.appliedServices[k].instance <= q[k[2]].instance
         /\ d.appliedServices[k].instance = q[k[2]].instance
            /\ d.appliedServices[k].desired = d.services[k]
              => q[k[2]].services[k[1]] = d.services[k]

BlocksOK(d, q) ==
  \A p \in Plugins :
    /\ d.blockSets[p] # None => d.blockSets[p].revision <= d.blockRevision
    /\ d.appliedBlocks[p] # None =>
         /\ d.appliedBlocks[p].desired.revision <= d.blockRevision
         /\ d.appliedBlocks[p].instance <= q[p].instance
         /\ d.appliedBlocks[p].instance = q[p].instance
            /\ d.appliedBlocks[p].desired = d.blockSets[p]
              => q[p].blocks = d.blockSets[p].blocks

IInv ==
  /\ TypeOK
  /\ OpOK(op, db)
  /\ RuntimesOK(op, procs)
  /\ ServicesOK(db, procs)
  /\ BlocksOK(db, procs)

-----------------------------------------------------------------------------
(* The values that op takes.                                               *)

LEMMA IdleFacts ==
  /\ Idle \in Op /\ Idle.runtimes = Nothing(Plugins) /\ Idle.pc = "idle"
  /\ \A d : OpOK(Idle, d)
  /\ \A q : RuntimesOK(Idle, q)
  <1>1. Nothing(Plugins) \in [Plugins -> Or(Runtime)]
    BY DEF Nothing, Or
  <1>2. <<>> \in Seq(Event)
    OBVIOUS
  <1>3. Idle \in Op
    BY <1>1, <1>2 DEF Idle, Op, Or
  <1>4. Idle.runtimes = Nothing(Plugins) /\ Idle.pc = "idle"
    BY DEF Idle
  <1>5. \A d : OpOK(Idle, d)
    BY <1>4 DEF OpOK, Collects, Publishes
  <1>6. \A q : RuntimesOK(Idle, q)
    BY <1>4 DEF RuntimesOK, Nothing
  <1> QED
    BY <1>3, <1>4, <1>5, <1>6

LEMMA CollectDoneFacts ==
  ASSUME op \in Op, NEW left, left \subseteq {p \in Plugins : op.runtimes[p] # None}
  PROVE  LET o == CollectDone(left)
         IN  /\ o \in Op /\ o.runtimes = op.runtimes
             /\ o.pc \in {"traffic", "collect"} /\ o.plugin = None
             /\ \A d : OpOK(o, d)
  <1> DEFINE o == CollectDone(left)
             pc == IF left = {} THEN "traffic" ELSE "collect"
  <1>1. o = [op EXCEPT !.pc = pc, !.left = left, !.plugin = None, !.cursor = 0, !.page = 0,
                       !.events = <<>>, !.more = FALSE]
    BY DEF CollectDone
  <1>2. pc \in {"traffic", "collect"}
    OBVIOUS
  <1>3. <<>> \in Seq(Event) /\ left \subseteq Plugins
    OBVIOUS
  <1> HIDE DEF pc, o
  <1>4. o \in Op
    BY <1>1, <1>2, <1>3 DEF Op, Or, Collects
  <1>5. /\ o.runtimes = op.runtimes /\ o.pc = pc /\ o.left = left /\ o.plugin = None
    BY <1>1 DEF Op
  <1>6. \A d : OpOK(o, d)
    BY <1>2, <1>5 DEF OpOK, Collects, Publishes
  <1> QED
    BY <1>2, <1>4, <1>5, <1>6 DEF o

LEMMA AtFacts ==
  ASSUME op \in Op, NEW pc \in {"desired", "refresh"}
  PROVE  LET o == At(pc)
         IN  o \in Op /\ o.runtimes = op.runtimes /\ o.pc = pc /\ \A d : OpOK(o, d)
  <1> DEFINE o == At(pc)
  <1>1. o = [op EXCEPT !.pc = pc, !.left = {}, !.blocks = {}, !.item = None]
    BY DEF At
  <1> HIDE DEF o
  <1>2. o \in Op
    BY <1>1 DEF Op, Or
  <1>3. o.runtimes = op.runtimes /\ o.pc = pc
    BY <1>1 DEF Op
  <1>4. \A d : OpOK(o, d)
    BY <1>3 DEF OpOK, Collects, Publishes
  <1> QED
    BY <1>2, <1>3, <1>4 DEF o

LEMMA PublishingFacts ==
  ASSUME op \in Op, NEW pc \in {"enqueue", "publish"}, NEW left, NEW after \in Op, NEW d,
         pc = "enqueue" => left \subseteq Traffic,
         pc = "publish" => left \subseteq {a \in Authorizations : d.statuses[a] # None},
         OpOK(after, d)
  PROVE  LET o == Publishing(pc, left, after)
         IN  /\ o \in Op /\ OpOK(o, d)
             /\ o = after \/ (o.runtimes = op.runtimes /\ o.pc = pc /\ o.left = left)
  <1> DEFINE o == Publishing(pc, left, after)
             new == [op EXCEPT !.pc = pc, !.left = left, !.item = None]
  <1>1. o = IF left = {} THEN after ELSE new
    BY DEF Publishing
  <1>2. left \subseteq Traffic \cup Authorizations
    OBVIOUS
  <1>3. new \in Op
    BY <1>2 DEF Op, Or, Publishes
  <1>4. new.runtimes = op.runtimes /\ new.pc = pc /\ new.left = left
    BY DEF Op
  <1> HIDE DEF new, o
  <1>5. OpOK(new, d)
    BY <1>4 DEF OpOK, Collects, Publishes
  <1> QED
    BY <1>1, <1>3, <1>4, <1>5 DEF o

LEMMA ApplyingFacts ==
  ASSUME op \in Op, NEW services, NEW blocks, NEW d,
         services \subseteq {k \in Keys : d.services[k] # None /\ op.runtimes[k[2]] # None},
         blocks \subseteq {p \in Plugins : d.blockSets[p] # None /\ op.runtimes[p] # None}
  PROVE  LET o == Applying(services, blocks)
         IN  /\ o \in Op /\ OpOK(o, d) /\ o.runtimes = op.runtimes
             /\ o.pc \in {"apply", "refresh"}
  <1> DEFINE o == Applying(services, blocks)
             new == [op EXCEPT !.pc = "apply", !.left = services, !.blocks = blocks]
  <1>1. o = IF services = {} /\ blocks = {} THEN At("refresh") ELSE new
    BY DEF Applying
  <1>2. new \in Op
    BY DEF Op
  <1>3. new.runtimes = op.runtimes /\ new.pc = "apply" /\ new.left = services /\ new.blocks = blocks
    BY DEF Op
  <1> HIDE DEF new, o
  <1>4. OpOK(new, d)
    BY <1>3 DEF OpOK, Collects, Publishes
  <1>5. /\ At("refresh") \in Op /\ OpOK(At("refresh"), d)
        /\ At("refresh").runtimes = op.runtimes /\ At("refresh").pc = "refresh"
    BY AtFacts
  <1> QED
    BY <1>1, <1>2, <1>3, <1>4, <1>5 DEF o

-----------------------------------------------------------------------------
(* What the steering of the plugins depends on.                            *)

LEMMA SameSteeringOK ==
  ASSUME NEW d, NEW r, NEW q, SameSteering(r, d), ServicesOK(d, q), BlocksOK(d, q)
  PROVE  ServicesOK(r, q) /\ BlocksOK(r, q)
  BY DEF SameSteering, ServicesOK, BlocksOK

\* Every process is followed by itself, with the same services and blocks, or by a
\* later one.
Follows(s, q) ==
  \A p \in Plugins :
    \/ s[p].instance > q[p].instance
    \/ /\ s[p].instance = q[p].instance /\ s[p].services = q[p].services
       /\ s[p].blocks = q[p].blocks

LEMMA FollowsOK ==
  ASSUME NEW d \in Database, NEW o \in Op, NEW q \in [Plugins -> Process],
         NEW s \in [Plugins -> Process], Follows(s, q),
         RuntimesOK(o, q), ServicesOK(d, q), BlocksOK(d, q)
  PROVE  RuntimesOK(o, s) /\ ServicesOK(d, s) /\ BlocksOK(d, s)
  <1>1. \A p \in Plugins : q[p].instance \in Nat /\ s[p].instance \in Nat
    BY DEF Process
  <1>2. \A p \in Plugins : o.runtimes[p] # None => o.runtimes[p].instance \in Nat
    BY DEF Op, Or, Runtime
  <1>3. RuntimesOK(o, s)
    BY <1>1, <1>2 DEF RuntimesOK, Follows
  <1>4. \A k \in Keys : k[2] \in Plugins /\ (d.appliedServices[k] # None =>
                                            d.appliedServices[k].instance \in Nat)
    BY DEF Keys, Database, Or, AppliedService
  <1>5. ServicesOK(d, s)
    BY <1>1, <1>4 DEF ServicesOK, Follows
  <1>6. \A p \in Plugins : d.appliedBlocks[p] # None => d.appliedBlocks[p].instance \in Nat
    BY DEF Database, Or, AppliedBlocks
  <1>7. BlocksOK(d, s)
    BY <1>1, <1>6 DEF BlocksOK, Follows
  <1> QED
    BY <1>3, <1>5, <1>7

\* A step that leaves the database and the operation alone keeps the invariant.
LEMMA PluginsMove ==
  ASSUME IInv, UNCHANGED <<db, op>>, now' \in Nat, procs' \in [Plugins -> Process],
         sink' \in Sink, carried' \in [Authorizations -> Int], UNCHANGED accepted,
         faults' \in Nat, Follows(procs', procs)
  PROVE  IInv'
  <1>1. TypeOK'
    BY DEF IInv, TypeOK
  <1>2. OpOK(op, db)'
    BY DEF IInv, OpOK
  <1>3. RuntimesOK(op, procs') /\ ServicesOK(db, procs') /\ BlocksOK(db, procs')
    BY FollowsOK DEF IInv, TypeOK
  <1>4. RuntimesOK(op, procs)' /\ ServicesOK(db, procs)' /\ BlocksOK(db, procs)'
    BY <1>3 DEF RuntimesOK, ServicesOK, BlocksOK
  <1> QED
    BY <1>1, <1>2, <1>4 DEF IInv

\* A step of the engine: every process goes on, or is followed by a later one.
LEMMA EngineMoves ==
  ASSUME IInv, db' \in Database, ServicesOK(db', procs), BlocksOK(db', procs),
         UNCHANGED <<now, carried, accepted>>,
         procs' \in [Plugins -> Process], Follows(procs', procs),
         op' \in Op, OpOK(op', db'), sink' \in Sink, faults' \in Nat,
         op'.runtimes = op.runtimes \/ RuntimesOK(op', procs)
  PROVE  IInv'
  <1>1. TypeOK'
    BY DEF IInv, TypeOK
  <1>2. OpOK(op, db)'
    BY DEF OpOK
  <1>3. RuntimesOK(op', procs)
    BY DEF IInv, RuntimesOK
  <1>4. RuntimesOK(op', procs') /\ ServicesOK(db', procs') /\ BlocksOK(db', procs')
    BY <1>3, FollowsOK DEF IInv, TypeOK
  <1>5. RuntimesOK(op, procs)' /\ ServicesOK(db, procs)' /\ BlocksOK(db, procs)'
    BY <1>4 DEF RuntimesOK, ServicesOK, BlocksOK
  <1> QED
    BY <1>1, <1>2, <1>5 DEF IInv

\* One that leaves the processes alone, and what steers them in the database.
LEMMA AgentMoves ==
  ASSUME IInv, db' \in Database, SameSteering(db', db),
         UNCHANGED <<now, carried, accepted, procs>>,
         op' \in Op, OpOK(op', db'), sink' \in Sink, faults' \in Nat,
         op'.runtimes = op.runtimes \/ RuntimesOK(op', procs)
  PROVE  IInv'
  <1>1. ServicesOK(db', procs) /\ BlocksOK(db', procs)
    BY SameSteeringOK DEF IInv
  <1>2. procs' \in [Plugins -> Process] /\ Follows(procs', procs)
    BY DEF IInv, TypeOK, Follows
  <1> QED
    BY <1>1, <1>2, EngineMoves

LEMMA SameIsSame == ASSUME NEW d PROVE SameSteering(d, d)
  BY DEF SameSteering

LEMMA FollowsItself == ASSUME NEW q PROVE Follows(q, q)
  BY DEF Follows

LEMMA FaultType == ASSUME TypeOK, Fault \/ UNCHANGED faults PROVE faults' \in Nat
  BY DEF TypeOK, Fault

-----------------------------------------------------------------------------
(* The plugins, the clock and crashes.                                     *)

LEMMA InitIInv == Init => IInv
  <1> SUFFICES ASSUME Init PROVE IInv
    OBVIOUS
  <1>1. \A S, T : Nothing(S) \in [S -> Or(T)]
    BY DEF Nothing, Or
  <1>2. db \in Database
    BY EmptyType DEF Init
  <1>3. procs \in [Plugins -> Process]
    <2>1. NoProcess \in Process
      <3>1. Nothing(Authorizations) \in [Authorizations -> Or(Desired)]
        BY <1>1
      <3>2. <<>> \in Seq(Event)
        OBVIOUS
      <3>3. [a \in Authorizations |-> 0] \in [Authorizations -> Nat]
        OBVIOUS
      <3> QED
        BY <3>1, <3>2, <3>3 DEF NoProcess, Process
    <2> QED
      BY <2>1 DEF Init
  <1>4. sink \in Sink
    BY <1>1 DEF Init, Sink
  <1>5. TypeOK
    BY <1>2, <1>3, <1>4, IdleFacts DEF Init, TypeOK
  <1>6. OpOK(op, db) /\ RuntimesOK(op, procs)
    BY IdleFacts DEF Init
  <1>7. ServicesOK(db, procs) /\ BlocksOK(db, procs)
    BY DEF Init, EmptyDatabase, Nothing, ServicesOK, BlocksOK
  <1> QED
    BY <1>5, <1>6, <1>7 DEF IInv

LEMMA StartStep ==
  ASSUME IInv, NEW p \in Plugins, Start(p)
  PROVE  IInv'
  <1> DEFINE instance == procs[p].instance + 1
             fresh(c) == [NoProcess EXCEPT !.up = TRUE, !.instance = instance,
                                           !.capabilities = c, !.stream = instance]
             again(c) == [procs[p] EXCEPT !.up = TRUE, !.instance = instance, !.capabilities = c,
                            !.services = fresh(c).services, !.blocks = {}]
  <1>1. procs[p] \in Process /\ instance \in Nat /\ instance > procs[p].instance
    BY DEF IInv, TypeOK, Process
  <1>2. PICK c \in CapabilitySets, anew \in BOOLEAN :
          /\ procs' = [procs EXCEPT ![p] = IF anew THEN fresh(c) ELSE again(c)]
          /\ carried' = IF anew THEN [a \in Authorizations |-> carried[a] - Unread(p, a)]
                                ELSE carried
    BY DEF Start
  <1>3. c \in SUBSET Capabilities
    OBVIOUS
  <1> HIDE DEF instance
  <1>4. fresh(c) \in Process /\ fresh(c).instance = instance
    <2>1. Nothing(Authorizations) \in [Authorizations -> Or(Desired)]
      BY DEF Nothing, Or
    <2>2. <<>> \in Seq(Event)
      OBVIOUS
    <2>3. [a \in Authorizations |-> 0] \in [Authorizations -> Nat]
      OBVIOUS
    <2> QED
      BY <1>1, <1>3, <2>1, <2>2, <2>3 DEF NoProcess, Process
  <1> HIDE DEF fresh
  <1>5. again(c) \in Process /\ again(c).instance = instance
    <2>1. fresh(c).services \in [Authorizations -> Or(Desired)]
      BY <1>4 DEF Process
    <2> QED
      BY <1>1, <1>3, <2>1 DEF Process
  <1> HIDE DEF again
  <1>6. procs' \in [Plugins -> Process] /\ procs'[p].instance = instance
        /\ \A q \in Plugins \ {p} : procs'[q] = procs[q]
    BY <1>2, <1>4, <1>5 DEF IInv, TypeOK
  <1>7. Follows(procs', procs)
    BY <1>1, <1>6 DEF Follows
  <1>8. carried' \in [Authorizations -> Int]
    <2>1. \A a \in Authorizations : Unread(p, a) \in Int /\ carried[a] \in Int
      BY <1>1 DEF IInv, TypeOK, Unread, Process
    <2>2. CASE anew
      <3> HIDE DEF Unread
      <3> QED
        BY <1>2, <2>1, <2>2
    <2>3. CASE ~anew
      BY <1>2, <2>3 DEF IInv, TypeOK
    <2> QED
      BY <2>2, <2>3
  <1>9. UNCHANGED <<db, now, op, sink, accepted, faults>>
    BY DEF Start
  <1> QED
    BY <1>6, <1>7, <1>8, <1>9, PluginsMove DEF IInv, TypeOK

LEMMA ExitStep ==
  ASSUME IInv, NEW p \in Plugins, Exit(p)
  PROVE  IInv'
  <1> DEFINE new == [procs[p] EXCEPT !.up = FALSE]
  <1>1. procs[p] \in Process
    BY DEF IInv, TypeOK
  <1>2. /\ new \in Process /\ new.instance = procs[p].instance
        /\ new.services = procs[p].services /\ new.blocks = procs[p].blocks
    BY <1>1 DEF Process
  <1>3. procs' = [procs EXCEPT ![p] = new]
    BY DEF Exit
  <1> HIDE DEF new
  <1>4. procs' \in [Plugins -> Process] /\ Follows(procs', procs)
    BY <1>2, <1>3 DEF IInv, TypeOK, Follows
  <1>5. UNCHANGED <<db, now, op, sink, carried, accepted>> /\ faults' \in Nat
    BY FaultType DEF Exit, IInv
  <1> QED
    BY <1>4, <1>5, PluginsMove DEF IInv, TypeOK

LEMMA CarryStep ==
  ASSUME IInv, NEW p \in Plugins, NEW a \in Authorizations, Carry(p, a)
  PROVE  IInv'
  <1> DEFINE counters == [procs[p].counters EXCEPT ![a] = procs[p].counters[a] + 1]
             new == [procs[p] EXCEPT !.counters = counters]
  <1>1. procs[p] \in Process
    BY DEF IInv, TypeOK
  <1>2. counters \in [Authorizations -> Nat]
    BY <1>1 DEF Process
  <1>3. procs' = [procs EXCEPT ![p] = new]
    BY DEF Carry
  <1> HIDE DEF counters
  <1>4. /\ new \in Process /\ new.instance = procs[p].instance
        /\ new.services = procs[p].services /\ new.blocks = procs[p].blocks
    BY <1>1, <1>2 DEF Process
  <1> HIDE DEF new
  <1>5. procs' \in [Plugins -> Process] /\ Follows(procs', procs)
    BY <1>3, <1>4 DEF IInv, TypeOK, Follows
  <1>6. carried' \in [Authorizations -> Int]
    BY DEF Carry, IInv, TypeOK
  <1>7. UNCHANGED <<db, now, op, sink, accepted, faults>>
    BY DEF Carry
  <1> QED
    BY <1>5, <1>6, <1>7, PluginsMove DEF IInv, TypeOK

LEMMA AccessStep ==
  ASSUME IInv, NEW p \in Plugins, NEW a \in Authorizations, NEW source \in Sources,
         Access(p, a, source)
  PROVE  IInv'
  <1> DEFINE blocked == \E b \in procs[p].blocks :
                          b.authorization = a /\ b.source = source /\ b.expires > now
             known == <<a, p>> \in Bindings(db.snapshot)
             event == [sequence |-> Len(procs[p].events) + 1, authorization |-> a,
                       source |-> source, observed |-> now, accepted |-> ~blocked,
                       stream |-> procs[p].stream, known |-> known]
             events == Append(procs[p].events, event)
             new == [procs[p] EXCEPT !.events = events]
  <1>1. procs[p] \in Process /\ now \in Nat
    BY DEF IInv, TypeOK
  <1>2. procs' = [procs EXCEPT ![p] = new]
    BY DEF Access
  <1>3. (~blocked) \in BOOLEAN /\ known \in BOOLEAN
    OBVIOUS
  <1>4. procs[p].events \in Seq(Event) /\ procs[p].stream \in Nat
    BY <1>1 DEF Process
  <1> HIDE DEF blocked, known
  <1>5. event \in Event
    BY <1>1, <1>3, <1>4 DEF Event
  <1> HIDE DEF event
  <1>6. events \in Seq(Event)
    BY <1>4, <1>5
  <1> HIDE DEF events
  <1>7. /\ new \in Process /\ new.instance = procs[p].instance
        /\ new.services = procs[p].services /\ new.blocks = procs[p].blocks
    BY <1>1, <1>6 DEF Process
  <1> HIDE DEF new
  <1>8. procs' \in [Plugins -> Process] /\ Follows(procs', procs)
    BY <1>2, <1>7 DEF IInv, TypeOK, Follows
  <1>9. UNCHANGED <<db, now, op, sink, carried, accepted, faults>>
    BY DEF Access
  <1> QED
    BY <1>8, <1>9, PluginsMove DEF IInv, TypeOK

LEMMA TickStep ==
  ASSUME IInv, Tick
  PROVE  IInv'
  <1>1. now' \in Nat /\ UNCHANGED <<db, procs, op, sink, carried, accepted, faults>>
    BY DEF Tick, IInv, TypeOK
  <1>2. Follows(procs', procs)
    BY <1>1, FollowsItself
  <1> QED
    BY <1>1, <1>2, PluginsMove DEF IInv, TypeOK

LEMMA CrashStep ==
  ASSUME IInv, Crash
  PROVE  IInv'
  <1> DEFINE new(p) == [procs[p] EXCEPT !.up = FALSE]
  <1>1. \A p \in Plugins : procs[p] \in Process
    BY DEF IInv, TypeOK
  <1>2. \A p \in Plugins :
          /\ new(p) \in Process /\ new(p).instance = procs[p].instance
          /\ new(p).services = procs[p].services /\ new(p).blocks = procs[p].blocks
    BY <1>1 DEF Process
  <1>3. procs' = [p \in Plugins |-> new(p)]
    BY DEF Crash
  <1> HIDE DEF new
  <1>4. procs' \in [Plugins -> Process] /\ Follows(procs', procs)
    BY <1>2, <1>3 DEF Follows
  <1>5. op' = Idle /\ UNCHANGED <<db, now, sink, carried, accepted>> /\ faults' \in Nat
    BY FaultType DEF Crash, IInv
  <1>6. db' \in Database /\ ServicesOK(db', procs) /\ BlocksOK(db', procs) /\ sink' \in Sink
    BY <1>5 DEF IInv, TypeOK
  <1> QED
    BY <1>4, <1>5, <1>6, IdleFacts, EngineMoves

-----------------------------------------------------------------------------
(* The start of an operation, and the collection.                          *)

LEMMA RuntimeMapFacts ==
  ASSUME IInv
  PROVE  /\ RuntimeMap \in [Plugins -> Or(Runtime)]
         /\ \A p \in Plugins : procs[p].up => RuntimeMap[p] # None
         /\ \A p \in Plugins : RuntimeMap[p] # None => RuntimeMap[p].instance <= procs[p].instance
  <1> DEFINE new(p) == [instance |-> procs[p].instance, capabilities |-> procs[p].capabilities,
                        stream |-> procs[p].stream]
  <1>1. \A p \in Plugins : new(p) \in Runtime /\ new(p).instance <= procs[p].instance
    BY DEF IInv, TypeOK, Process, Runtime
  <1>2. RuntimeMap = [p \in Plugins |-> IF procs[p].up THEN new(p) ELSE None]
    BY DEF RuntimeMap
  <1> HIDE DEF new
  <1> QED
    BY <1>1, <1>2 DEF Or

\* Both operations begin with the plugins that run now.
LEMMA BeginFacts ==
  ASSUME IInv, NEW pc \in {"traffic", "collect"}, NEW left,
         left \subseteq {p \in Plugins : procs[p].up}
  PROVE  LET o == [Idle EXCEPT !.pc = pc, !.runtimes = RuntimeMap, !.left = left]
         IN  o \in Op /\ RuntimesOK(o, procs) /\ o.pc = pc /\ \A d : OpOK(o, d)
  <1> DEFINE o == [Idle EXCEPT !.pc = pc, !.runtimes = RuntimeMap, !.left = left]
  <1>1. left \subseteq Plugins
    OBVIOUS
  <1>2. Idle \in Op /\ Idle.plugin = None
    BY IdleFacts DEF Idle
  <1>3. o \in Op
    BY <1>1, <1>2, RuntimeMapFacts DEF Op, Collects
  <1>4. o.pc = pc /\ o.runtimes = RuntimeMap /\ o.left = left /\ o.plugin = None
    BY <1>2 DEF Op
  <1> HIDE DEF o
  <1>5. RuntimesOK(o, procs)
    BY <1>4, RuntimeMapFacts DEF RuntimesOK
  <1>6. \A d : OpOK(o, d)
    BY <1>4, RuntimeMapFacts DEF OpOK, Collects, Publishes
  <1> QED
    BY <1>3, <1>4, <1>5, <1>6 DEF o

LEMMA ExecuteStep ==
  ASSUME IInv, NEW snapshot \in Snapshots, Execute(snapshot)
  PROVE  IInv'
  <1>1. UNCHANGED <<now, procs, sink, carried, accepted, faults>>
    BY DEF Execute
  <1>2. db' \in Database /\ ServicesOK(db', procs) /\ BlocksOK(db', procs)
    <2>1. CASE db' = Reconciled(db, snapshot)
      <3>1. /\ db' \in Database
            /\ db'.stateRevision = db.stateRevision /\ db'.blockRevision = db.blockRevision
            /\ db'.services = db.services /\ db'.appliedServices = db.appliedServices
            /\ db'.blockSets = db.blockSets /\ db'.appliedBlocks = db.appliedBlocks
        BY <2>1, ReconciledFacts DEF IInv, TypeOK
      <3> QED
        BY <3>1 DEF IInv, ServicesOK, BlocksOK
    <2>2. CASE db' = db
      BY <2>2 DEF IInv, TypeOK
    <2> QED
      BY <2>1, <2>2 DEF Execute
  <1>3. op' \in Op /\ RuntimesOK(op', procs) /\ OpOK(op', db')
    <2> DEFINE o == [Idle EXCEPT !.pc = "traffic", !.runtimes = RuntimeMap]
    <2>0. Idle \in Op /\ Idle.left = {}
      BY IdleFacts DEF Idle
    <2>1. o = [Idle EXCEPT !.pc = "traffic", !.runtimes = RuntimeMap, !.left = {}]
      BY <2>0 DEF Op
    <2>2. o \in Op /\ RuntimesOK(o, procs) /\ \A d : OpOK(o, d)
      BY <2>1, BeginFacts
    <2>3. op' = Idle \/ op' = o
      BY DEF Execute
    <2> QED
      BY <2>2, <2>3, IdleFacts
  <1>4. procs' \in [Plugins -> Process] /\ Follows(procs', procs) /\ sink' \in Sink /\ faults' \in Nat
    BY <1>1 DEF IInv, TypeOK, Follows
  <1> QED
    BY <1>1, <1>2, <1>3, <1>4, EngineMoves

LEMMA RunCycleStep ==
  ASSUME IInv, RunCycle
  PROVE  IInv'
  <1> DEFINE telemetry == {p \in Plugins : /\ procs[p].up
                                    /\ procs[p].capabilities \cap {"traffic", "activity"} # {}}
             pc == IF telemetry = {} THEN "traffic" ELSE "collect"
  <1>1. pc \in {"traffic", "collect"} /\ telemetry \subseteq {p \in Plugins : procs[p].up}
    OBVIOUS
  <1>2. /\ op' = [Idle EXCEPT !.pc = pc, !.runtimes = RuntimeMap, !.left = telemetry]
        /\ UNCHANGED <<db, now, procs, sink, carried, accepted, faults>>
    BY DEF RunCycle
  <1> HIDE DEF pc, telemetry
  <1>3. op' \in Op /\ RuntimesOK(op', procs) /\ OpOK(op', db')
    BY <1>1, <1>2, BeginFacts
  <1>4. db' \in Database /\ SameSteering(db', db) /\ sink' \in Sink /\ faults' \in Nat
    BY <1>2, SameIsSame DEF IInv, TypeOK
  <1> QED
    BY <1>2, <1>3, <1>4, AgentMoves

LEMMA CollectingFacts ==
  ASSUME IInv, NEW p \in Plugins, Collecting(p)
  PROVE  /\ op.runtimes[p] \in Runtime
         /\ op.left \ {p} \subseteq {q \in Plugins : op.runtimes[q] # None}
         /\ CursorFor(p) \in Nat
  <1>1. op \in Op /\ OpOK(op, db) /\ op.pc = "collect"
    BY DEF IInv, TypeOK, Collecting
  <1>2. op.left \subseteq {q \in Plugins : op.runtimes[q] # None}
    BY <1>1 DEF OpOK, Collects
  <1>3. op.runtimes[p] # None
    BY <1>1, <1>2, NoneAssumption DEF OpOK, Collecting
  <1>4. op.runtimes[p] \in Runtime
    BY <1>1, <1>3 DEF Op, Or
  <1>5. CursorFor(p) \in Nat
    <2>1. op.cursor \in Nat
      BY <1>1 DEF Op
    <2>2. db.cursors[p] # None => db.cursors[p].sequence \in Nat
      BY DEF IInv, TypeOK, Database, Or, Cursor
    <2> QED
      BY <2>1, <2>2 DEF CursorFor, TelemetryCursor
  <1> QED
    BY <1>2, <1>4, <1>5

LEMMA TelemetryPageFacts ==
  ASSUME IInv, NEW p \in Plugins, Collecting(p)
  PROVE  TelemetryPage(p).events \in Seq(Event) /\ TelemetryPage(p).more \in BOOLEAN
  <1> DEFINE events == IF "activity" \in procs[p].capabilities THEN procs[p].events ELSE <<>>
             c == CursorFor(p)
             last == IF Len(events) > c + PageSize THEN c + PageSize ELSE Len(events)
             more == last < Len(events)
             page == SubSeq(events, c + 1, last)
  <1>1. events \in Seq(Event) /\ c \in Nat
    BY CollectingFacts DEF IInv, TypeOK, Process
  <1>2. TelemetryPage(p) = [events |-> page, more |-> more]
    BY DEF TelemetryPage
  <1> HIDE DEF events, c
  <1>3. Len(events) \in Nat
    BY <1>1
  <1>4. last \in Nat /\ last <= Len(events)
    BY <1>1, <1>3
  <1>5. more \in BOOLEAN
    OBVIOUS
  <1> HIDE DEF last, more
  <1>6. page \in Seq(Event)
    BY <1>1, <1>4
  <1> HIDE DEF page
  <1> QED
    BY <1>2, <1>5, <1>6

LEMMA CollectTelemetryStep ==
  ASSUME IInv, NEW p \in Plugins, CollectTelemetry(p)
  PROVE  IInv'
  <1> DEFINE page == TelemetryPage(p)
             counters == procs[p].counters
             epoch == procs[p].stream
             new == [op EXCEPT !.pc = "event", !.left = op.left \ {p}, !.plugin = p,
                               !.cursor = CursorFor(p), !.page = op.page + 1,
                               !.events = page.events, !.more = page.more]
  <1>1. /\ Collecting(p) /\ procs[p] \in Process /\ op \in Op /\ now \in Nat /\ db \in Database
        /\ UNCHANGED <<now, sink, carried, accepted, faults>>
    BY DEF CollectTelemetry, IInv, TypeOK
  <1>2. /\ op.runtimes[p] \in Runtime /\ CursorFor(p) \in Nat
        /\ op.left \ {p} \subseteq {q \in Plugins : op.runtimes[q] # None}
        /\ page.events \in Seq(Event) /\ page.more \in BOOLEAN
    BY <1>1, CollectingFacts, TelemetryPageFacts
  <1>3. /\ op' = CollectDone(op.left \ {p}) \/ (op' = new /\ page.events # <<>>)
        /\ \/ UNCHANGED <<db, procs>>
           \/ /\ db' = CountersApplied(db, p, epoch, counters, now)
              /\ procs' = [procs EXCEPT ![p].read = [a \in Authorizations |->
                             IF a \in Bound(db, p) THEN counters[a] ELSE procs[p].read[a]]]
    BY DEF CollectTelemetry
  <1>4. op' \in Op /\ OpOK(op', db') /\ op'.runtimes = op.runtimes
    <2>1. CASE op' = CollectDone(op.left \ {p})
      BY <1>1, <1>2, <2>1, CollectDoneFacts
    <2>2. CASE op' = new /\ page.events # <<>>
      <3> HIDE DEF page
      <3>0. op.page + 1 \in Nat /\ p \in Or(Plugins)
        BY <1>1 DEF Op, Or
      <3>1. op' \in Op
        BY <1>1, <1>2, <2>2, <3>0 DEF Op, Collects
      <3>2. /\ op'.runtimes = op.runtimes /\ op'.pc = "event" /\ op'.left = op.left \ {p}
            /\ op'.plugin = p /\ op'.events = page.events
        BY <1>1, <2>2 DEF Op
      <3>3. p # None /\ op.runtimes[p] # None
        BY <1>2, NoneAssumption
      <3> QED
        BY <1>2, <2>2, <3>1, <3>2, <3>3 DEF OpOK, Collects, Publishes
    <2> QED
      BY <1>3, <2>1, <2>2
  <1>5. /\ db' \in Database /\ ServicesOK(db', procs) /\ BlocksOK(db', procs)
        /\ procs' \in [Plugins -> Process] /\ Follows(procs', procs)
    <2>1. CASE UNCHANGED <<db, procs>>
      BY <2>1 DEF IInv, TypeOK, Follows
    <2>2. CASE /\ db' = CountersApplied(db, p, epoch, counters, now)
               /\ procs' = [procs EXCEPT ![p].read = [a \in Authorizations |->
                             IF a \in Bound(db, p) THEN counters[a] ELSE procs[p].read[a]]]
      <3> DEFINE read == [a \in Authorizations |->
                            IF a \in Bound(db, p) THEN counters[a] ELSE procs[p].read[a]]
                 process == [procs[p] EXCEPT !.read = read]
      <3>1. epoch \in Nat /\ counters \in [Authorizations -> Nat]
        BY <1>1 DEF Process
      <3>2. db' \in Database /\ SameSteering(db', db)
        BY <1>1, <2>2, <3>1, CountersAppliedFacts
      <3>3. ServicesOK(db', procs) /\ BlocksOK(db', procs)
        BY <3>2, SameSteeringOK DEF IInv
      <3>4. read \in [Authorizations -> Nat]
        BY <1>1, <3>1 DEF Process
      <3>5. procs' = [procs EXCEPT ![p] = process]
        BY <2>2
      <3> HIDE DEF read
      <3>6. /\ process \in Process /\ process.instance = procs[p].instance
            /\ process.services = procs[p].services /\ process.blocks = procs[p].blocks
        BY <1>1, <3>4 DEF Process
      <3> HIDE DEF process
      <3>7. procs' \in [Plugins -> Process] /\ Follows(procs', procs)
        BY <3>5, <3>6 DEF IInv, TypeOK, Follows
      <3> QED
        BY <3>2, <3>3, <3>7
    <2> QED
      BY <1>3, <2>1, <2>2
  <1>6. sink' \in Sink /\ faults' \in Nat
    BY <1>1 DEF IInv, TypeOK
  <1> QED
    BY <1>1, <1>4, <1>5, <1>6, EngineMoves

LEMMA CollectFailsStep ==
  ASSUME IInv, NEW p \in Plugins, CollectFails(p)
  PROVE  IInv'
  <1>1. /\ Collecting(p) /\ op' = CollectDone(op.left \ {p}) /\ faults' \in Nat
        /\ UNCHANGED <<db, now, procs, sink, carried, accepted>>
    BY FaultType DEF CollectFails, IInv
  <1>2. op' \in Op /\ OpOK(op', db') /\ op'.runtimes = op.runtimes
    BY <1>1, CollectingFacts, CollectDoneFacts DEF IInv, TypeOK
  <1>3. db' \in Database /\ SameSteering(db', db) /\ sink' \in Sink
    BY <1>1, SameIsSame DEF IInv, TypeOK
  <1> QED
    BY <1>1, <1>2, <1>3, AgentMoves

LEMMA EventFacts ==
  ASSUME IInv, op.pc \in {"event", "observe", "advance"}
  PROVE  /\ op \in Op /\ op.plugin \in Plugins /\ op.runtimes[op.plugin] \in Runtime
         /\ op.left \subseteq {q \in Plugins : op.runtimes[q] # None}
         /\ op.events \in Seq(Event) /\ op.events # <<>>
         /\ Current \in Event /\ Tail(op.events) \in Seq(Event)
  <1>1. op \in Op /\ OpOK(op, db)
    BY DEF IInv, TypeOK
  <1>2. /\ op.plugin # None /\ op.runtimes[op.plugin] # None /\ op.events # <<>>
        /\ op.left \subseteq {q \in Plugins : op.runtimes[q] # None}
    BY <1>1 DEF OpOK, Collects
  <1>3. op.plugin \in Plugins /\ op.events \in Seq(Event)
    BY <1>1, <1>2 DEF Op, Or
  <1>4. op.runtimes[op.plugin] \in Runtime
    BY <1>1, <1>2, <1>3 DEF Op, Or
  <1>5. Head(op.events) \in Event /\ Tail(op.events) \in Seq(Event)
    BY <1>2, <1>3
  <1> QED
    BY <1>1, <1>2, <1>3, <1>4, <1>5 DEF Current

\* On with the event that is worked on.
LEMMA OnWithEvent ==
  ASSUME IInv, op.pc \in {"event", "observe"}, NEW pc \in {"observe", "advance"}
  PROVE  LET o == [op EXCEPT !.pc = pc]
         IN  o \in Op /\ o.runtimes = op.runtimes /\ \A d : OpOK(o, d)
  <1> DEFINE o == [op EXCEPT !.pc = pc]
  <1>1. op \in Op /\ OpOK(op, db)
    BY DEF IInv, TypeOK
  <1>2. o \in Op
    BY <1>1 DEF Op, Collects
  <1>3. /\ o.pc = pc /\ o.runtimes = op.runtimes /\ o.left = op.left /\ o.plugin = op.plugin
        /\ o.events = op.events
    BY <1>1 DEF Op
  <1> HIDE DEF o
  <1>4. \A d : OpOK(o, d)
    BY <1>1, <1>3 DEF OpOK, Collects, Publishes
  <1> QED
    BY <1>2, <1>3, <1>4 DEF o

LEMMA EnqueueAccessStep ==
  ASSUME IInv, EnqueueAccess
  PROVE  IInv'
  <1> DEFINE x == [stream |-> op.runtimes[op.plugin].stream, plugin |-> op.plugin,
                   event |-> Current]
  <1>1. op.pc = "event" /\ UNCHANGED <<db, now, procs, carried, accepted, faults>>
    BY DEF EnqueueAccess
  <1>2. /\ sink' = [sink EXCEPT !.access = sink.access \cup {x}] \/ sink' = sink
        /\ \E pc \in {"observe", "advance"} : op' = [op EXCEPT !.pc = pc]
    BY DEF EnqueueAccess
  <1>3. x \in [stream : Nat, plugin : Plugins, event : Event]
    BY <1>1, EventFacts DEF Runtime
  <1> HIDE DEF x
  <1>4. sink' \in Sink
    BY <1>2, <1>3 DEF IInv, TypeOK, Sink
  <1>5. op' \in Op /\ op'.runtimes = op.runtimes /\ OpOK(op', db')
    BY <1>1, <1>2, OnWithEvent
  <1>6. db' \in Database /\ SameSteering(db', db) /\ faults' \in Nat
    BY <1>1, SameIsSame DEF IInv, TypeOK
  <1> QED
    BY <1>1, <1>4, <1>5, <1>6, AgentMoves

LEMMA ObserveActivityStep ==
  ASSUME IInv, ObserveActivity
  PROVE  IInv'
  <1>1. /\ op.pc = "observe" /\ UNCHANGED <<now, procs, sink, carried, accepted, faults>>
        /\ db' = Observed(db, Current.authorization, Current.source, Current.observed)
        /\ op' = [op EXCEPT !.pc = "advance"]
    BY DEF ObserveActivity
  <1>2. Current.authorization \in Authorizations /\ Current.source \in Sources
        /\ Current.observed \in Nat
    BY <1>1, EventFacts DEF Event
  <1>3. db' \in Database /\ SameSteering(db', db)
    BY <1>1, <1>2, ObservedFacts DEF IInv, TypeOK
  <1>4. op' \in Op /\ op'.runtimes = op.runtimes /\ OpOK(op', db')
    BY <1>1, OnWithEvent
  <1>5. sink' \in Sink /\ faults' \in Nat
    BY <1>1 DEF IInv, TypeOK
  <1> QED
    BY <1>1, <1>3, <1>4, <1>5, AgentMoves

LEMMA AdvanceStep ==
  ASSUME IInv, AdvanceTelemetryCursor
  PROVE  IInv'
  <1> DEFINE tail == Tail(op.events)
             next == [op EXCEPT !.cursor = Current.sequence, !.events = tail]
  <1>1. /\ op.pc = "advance" /\ UNCHANGED <<now, procs, sink, carried, accepted, faults>>
        /\ db' = CursorAdvanced(db, op.plugin, op.runtimes[op.plugin].stream, Current.sequence)
        /\ op' = IF next.events # <<>> THEN [next EXCEPT !.pc = "event"]
                 ELSE IF op.more /\ op.page < MaxPages
                 THEN [next EXCEPT !.pc = "collect", !.more = FALSE]
                 ELSE CollectDone(op.left)
    BY DEF AdvanceTelemetryCursor
  <1>2. /\ op \in Op /\ op.plugin \in Plugins /\ op.runtimes[op.plugin] # None
        /\ op.runtimes[op.plugin].stream \in Nat
        /\ op.left \subseteq {q \in Plugins : op.runtimes[q] # None}
        /\ Current.sequence \in Nat /\ tail \in Seq(Event)
    BY <1>1, EventFacts DEF Runtime, Event
  <1>3. db' \in Database /\ SameSteering(db', db)
    BY <1>1, <1>2, CursorAdvancedFacts DEF IInv, TypeOK
  <1> HIDE DEF tail
  <1>4. /\ next \in Op /\ next.events = tail /\ next.runtimes = op.runtimes
        /\ next.left = op.left /\ next.plugin = op.plugin
    <2>1. next \in Op
      BY <1>2 DEF Op
    <2>2. next.events = tail /\ next.runtimes = op.runtimes
          /\ next.left = op.left /\ next.plugin = op.plugin
      BY <1>2 DEF Op
    <2> QED
      BY <2>1, <2>2
  <1> HIDE DEF next
  <1>5. op' \in Op /\ op'.runtimes = op.runtimes /\ OpOK(op', db')
    <2>1. CASE op' = [next EXCEPT !.pc = "event"] /\ next.events # <<>>
      <3>1. op' \in Op
        BY <1>4, <2>1 DEF Op, Collects
      <3>2. /\ op'.pc = "event" /\ op'.runtimes = op.runtimes /\ op'.left = op.left
            /\ op'.plugin = op.plugin /\ op'.events # <<>>
        BY <1>4, <2>1 DEF Op
      <3> QED
        BY <1>2, <3>1, <3>2, NoneAssumption DEF OpOK, Collects, Publishes
    <2>2. CASE op' = [next EXCEPT !.pc = "collect", !.more = FALSE]
      <3>1. op' \in Op
        BY <1>4, <2>2 DEF Op, Collects
      <3>2. /\ op'.pc = "collect" /\ op'.runtimes = op.runtimes /\ op'.left = op.left
            /\ op'.plugin = op.plugin
        BY <1>4, <2>2 DEF Op
      <3> QED
        BY <1>2, <3>1, <3>2 DEF OpOK, Collects, Publishes
    <2>3. CASE op' = CollectDone(op.left)
      BY <1>2, <2>3, CollectDoneFacts
    <2> QED
      BY <1>1, <2>1, <2>2, <2>3
  <1>6. sink' \in Sink /\ faults' \in Nat
    BY <1>1 DEF IInv, TypeOK
  <1> QED
    BY <1>1, <1>3, <1>5, <1>6, AgentMoves

LEMMA EventFailsStep ==
  ASSUME IInv, EventFails
  PROVE  IInv'
  <1>1. /\ op.pc \in {"event", "observe", "advance"} /\ op' = CollectDone(op.left)
        /\ faults' \in Nat /\ UNCHANGED <<db, now, procs, sink, carried, accepted>>
    BY FaultType DEF EventFails, IInv
  <1>2. op' \in Op /\ OpOK(op', db') /\ op'.runtimes = op.runtimes
    BY <1>1, EventFacts, CollectDoneFacts
  <1>3. db' \in Database /\ SameSteering(db', db) /\ sink' \in Sink
    BY <1>1, SameIsSame DEF IInv, TypeOK
  <1> QED
    BY <1>1, <1>2, <1>3, AgentMoves

-----------------------------------------------------------------------------
(* The reports of traffic.                                                 *)

LEMMA PendingTrafficStep ==
  ASSUME IInv, PendingTrafficSnapshots
  PROVE  IInv'
  <1>1. /\ op.pc = "traffic" /\ db' = Refreshed(db, now)
        /\ op' = Publishing("enqueue", UnqueuedTraffic(db'), At("desired"))
        /\ UNCHANGED <<now, procs, sink, carried, accepted, faults>>
    BY DEF PendingTrafficSnapshots
  <1>2. db' \in Database /\ SameSteering(db', db)
    BY <1>1, RefreshedFacts DEF IInv, TypeOK
  <1>3. op \in Op /\ At("desired") \in Op /\ OpOK(At("desired"), db')
        /\ At("desired").runtimes = op.runtimes
    BY AtFacts DEF IInv, TypeOK
  <1>4. UnqueuedTraffic(db') \subseteq Traffic
    BY <1>2, UnqueuedTrafficType
  <1>5. op' \in Op /\ OpOK(op', db') /\ op'.runtimes = op.runtimes
    <2> DEFINE left == UnqueuedTraffic(db')
               after == At("desired")
    <2> HIDE DEF left, after
    <2>1. LET o == Publishing("enqueue", left, after)
          IN  o \in Op /\ OpOK(o, db') /\ (o = after \/ o.runtimes = op.runtimes)
      BY <1>3, <1>4, PublishingFacts DEF left, after
    <2> QED
      BY <1>1, <1>3, <2>1 DEF left, after
  <1>6. sink' \in Sink /\ faults' \in Nat
    BY <1>1 DEF IInv, TypeOK
  <1> QED
    BY <1>1, <1>2, <1>5, <1>6, AgentMoves

LEMMA EnqueueTrafficStep ==
  ASSUME IInv, NEW t, EnqueueTraffic(t)
  PROVE  IInv'
  <1> DEFINE traffic == [sink.traffic EXCEPT ![<<t.authorization, t.period>>] = t]
             left == op.left \ {t}
  <1>1. /\ op.pc = "enqueue" /\ t \in op.left /\ sink' = [sink EXCEPT !.traffic = traffic]
        /\ op' = [op EXCEPT !.pc = "mark", !.left = left, !.item = t]
        /\ UNCHANGED <<db, now, procs, carried, accepted, faults>>
    BY DEF EnqueueTraffic
  <1>2. op \in Op /\ op.left \subseteq Traffic
    BY <1>1 DEF IInv, TypeOK, OpOK
  <1>3. t \in Traffic /\ left \subseteq Traffic
    BY <1>1, <1>2
  <1>4. traffic \in [Authorizations \X Periods -> Or(Traffic)]
    BY <1>3 DEF IInv, TypeOK, Sink, Or
  <1> HIDE DEF traffic, left
  <1>5. sink' \in Sink
    BY <1>1, <1>4 DEF IInv, TypeOK, Sink
  <1>6. op' \in Op
    BY <1>1, <1>2, <1>3 DEF Op
  <1>7. op'.pc = "mark" /\ op'.left = left /\ op'.item = t /\ op'.runtimes = op.runtimes
    BY <1>1, <1>2 DEF Op
  <1>8. OpOK(op', db')
    BY <1>3, <1>7 DEF OpOK, Collects, Publishes
  <1>9. db' \in Database /\ SameSteering(db', db) /\ faults' \in Nat
    BY <1>1, SameIsSame DEF IInv, TypeOK
  <1> QED
    BY <1>1, <1>5, <1>6, <1>7, <1>8, <1>9, AgentMoves

LEMMA MarkTrafficStep ==
  ASSUME IInv, MarkTrafficQueued
  PROVE  IInv'
  <1>1. op.pc = "mark" /\ UNCHANGED <<now, procs, sink, carried, accepted, faults>>
    BY DEF MarkTrafficQueued
  <1>2. op \in Op /\ op.left \subseteq Traffic /\ op.item \in Traffic /\ db \in Database
    BY <1>1 DEF IInv, TypeOK, OpOK
  <1>3. \A d : At("desired") \in Op /\ OpOK(At("desired"), d)
               /\ At("desired").runtimes = op.runtimes
    BY <1>2, AtFacts
  <1>4. db' \in Database /\ SameSteering(db', db)
    <2>1. CASE TrafficMatches(db, op.item)
      <3>1. db' = TrafficQueued(db, op.item)
        BY <2>1 DEF MarkTrafficQueued
      <3> QED
        BY <1>2, <2>1, <3>1, TrafficQueuedFacts
    <2>2. CASE ~TrafficMatches(db, op.item)
      BY <1>2, <2>2, SameIsSame DEF MarkTrafficQueued
    <2> QED
      BY <2>1, <2>2
  <1>5. op' \in Op /\ OpOK(op', db') /\ op'.runtimes = op.runtimes
    <2> DEFINE after == At("desired")
    <2> HIDE DEF after
    <2>1. LET o == Publishing("enqueue", op.left, after)
          IN  o \in Op /\ OpOK(o, db') /\ (o = after \/ o.runtimes = op.runtimes)
      BY <1>2, <1>3, PublishingFacts DEF after
    <2>2. op' = after \/ op' = Publishing("enqueue", op.left, after)
      BY DEF MarkTrafficQueued, after
    <2> QED
      BY <1>3, <2>1, <2>2 DEF after
  <1>6. sink' \in Sink /\ faults' \in Nat
    BY <1>1 DEF IInv, TypeOK
  <1> QED
    BY <1>1, <1>4, <1>5, <1>6, AgentMoves

LEMMA TrafficFailsStep ==
  ASSUME IInv, TrafficFails \/ DesiredFails
  PROVE  IInv'
  <1>1. /\ op' = At("desired") \/ op' = At("refresh")
        /\ db' = db \/ db' = Refreshed(db, now)
        /\ faults' \in Nat /\ UNCHANGED <<now, procs, sink, carried, accepted>>
    BY FaultType DEF TrafficFails, DesiredFails, IInv
  <1>2. db' \in Database /\ SameSteering(db', db) /\ sink' \in Sink
    BY <1>1, SameIsSame, RefreshedFacts DEF IInv, TypeOK
  <1>3. op' \in Op /\ OpOK(op', db') /\ op'.runtimes = op.runtimes
    BY <1>1, <1>2, AtFacts DEF IInv, TypeOK
  <1> QED
    BY <1>1, <1>2, <1>3, AgentMoves

-----------------------------------------------------------------------------
(* The orders to the plugins.                                              *)

LEMMA Assembled ==
  ASSUME TypeOK', OpOK(op', db'), RuntimesOK(op', procs'), ServicesOK(db', procs'),
         BlocksOK(db', procs')
  PROVE  IInv'
  BY DEF IInv, OpOK, RuntimesOK, ServicesOK, BlocksOK

\* What Store.Desired changes has a revision that nobody has applied.
LEMMA ReadDesiredStep ==
  ASSUME IInv, ReadDesired
  PROVE  IInv'
  <1>1. /\ op.pc = "desired" /\ db' = DesiredUpdated(db, now)
        /\ op' = Applying(ServicesToApply(db'), BlocksToApply(db'))
        /\ UNCHANGED <<now, procs, sink, carried, accepted, faults>>
    BY DEF ReadDesired
  <1>2. op \in Op /\ db \in Database /\ now \in Nat
    BY DEF IInv, TypeOK
  <1>3. /\ db' \in Database
        /\ db'.appliedServices = db.appliedServices /\ db'.appliedBlocks = db.appliedBlocks
        /\ db'.stateRevision >= db.stateRevision /\ db'.blockRevision >= db.blockRevision
        /\ \A k \in Keys :
             \/ db'.services[k] = db.services[k]
             \/ /\ db'.services[k] \in Desired
                /\ db'.services[k].revision = db.stateRevision + 1
                /\ db'.stateRevision = db.stateRevision + 1
        /\ \A k \in ServicesListed(db') : db'.services[k] \in Desired
        /\ \A p \in Plugins :
             \/ db'.blockSets[p] = db.blockSets[p]
             \/ /\ db'.blockSets[p] \in DesiredBlocks
                /\ db'.blockSets[p].revision = db.blockRevision + 1
                /\ db'.blockRevision = db.blockRevision + 1
        /\ \A p \in PluginsListed(db') : db'.blockSets[p] \in DesiredBlocks
    <2> DEFINE r == DesiredUpdated(db, now)
    <2>1. /\ r \in Database
          /\ r.appliedServices = db.appliedServices /\ r.appliedBlocks = db.appliedBlocks
          /\ r.stateRevision >= db.stateRevision /\ r.blockRevision >= db.blockRevision
          /\ \A k \in Keys :
               \/ r.services[k] = db.services[k]
               \/ /\ r.services[k] \in Desired
                  /\ r.services[k].revision = db.stateRevision + 1
                  /\ r.stateRevision = db.stateRevision + 1
          /\ \A k \in ServicesListed(r) : r.services[k] \in Desired
          /\ \A p \in Plugins :
               \/ r.blockSets[p] = db.blockSets[p]
               \/ /\ r.blockSets[p] \in DesiredBlocks
                  /\ r.blockSets[p].revision = db.blockRevision + 1
                  /\ r.blockRevision = db.blockRevision + 1
          /\ \A p \in PluginsListed(r) : r.blockSets[p] \in DesiredBlocks
      BY <1>2, DesiredUpdatedFacts
    <2> HIDE DEF r
    <2>2. db' = r
      BY <1>1 DEF r
    <2>3. ServicesListed(db') = ServicesListed(r) /\ PluginsListed(db') = PluginsListed(r)
      BY <2>2 DEF ServicesListed, PluginsListed, Bindings, Bound, Limited, Authorized, Policies
    <2> QED
      BY <2>1, <2>2, <2>3
  <1>4. /\ db.stateRevision \in Nat /\ db.blockRevision \in Nat
        /\ db'.stateRevision \in Nat /\ db'.blockRevision \in Nat
    BY <1>2, <1>3 DEF Database
  <1>5. ServicesOK(db', procs)
    <2>1. \A k \in Keys :
            /\ db.services[k] # None => db.services[k].revision \in Nat
            /\ db.appliedServices[k] # None => db.appliedServices[k].desired.revision \in Nat
      BY <1>2 DEF Database, Or, Desired, AppliedService
    <2> QED
      BY <1>3, <1>4, <2>1 DEF IInv, ServicesOK
  <1>6. BlocksOK(db', procs)
    <2>1. \A p \in Plugins :
            /\ db.blockSets[p] # None => db.blockSets[p].revision \in Nat
            /\ db.appliedBlocks[p] # None => db.appliedBlocks[p].desired.revision \in Nat
      BY <1>2 DEF Database, Or, DesiredBlocks, AppliedBlocks
    <2> QED
      BY <1>3, <1>4, <2>1 DEF IInv, BlocksOK
  <1>7. op' \in Op /\ OpOK(op', db') /\ op'.runtimes = op.runtimes
    <2> DEFINE services == ServicesToApply(db')
               blocks == BlocksToApply(db')
    <2>1. services \subseteq {k \in Keys : db'.services[k] # None /\ op.runtimes[k[2]] # None}
      <3>1. ServicesListed(db') \subseteq Keys
        BY <1>3, SnapshotType DEF ServicesListed, Database
      <3> QED
        BY <1>3, <3>1, NoneAssumption DEF ServicesToApply
    <2>2. blocks \subseteq {p \in Plugins : db'.blockSets[p] # None /\ op.runtimes[p] # None}
      <3>1. PluginsListed(db') \subseteq Plugins
        BY DEF PluginsListed
      <3> QED
        BY <1>3, <3>1, NoneAssumption DEF BlocksToApply
    <2> HIDE DEF services, blocks
    <2>3. LET o == Applying(services, blocks)
          IN  o \in Op /\ OpOK(o, db') /\ o.runtimes = op.runtimes
      BY <1>2, <2>1, <2>2, ApplyingFacts
    <2> QED
      BY <1>1, <2>3 DEF services, blocks
  <1>8. procs' \in [Plugins -> Process] /\ Follows(procs', procs) /\ sink' \in Sink /\ faults' \in Nat
    BY <1>1 DEF IInv, TypeOK, Follows
  <1> QED
    BY <1>1, <1>3, <1>5, <1>6, <1>7, <1>8, EngineMoves

LEMMA TakeFacts ==
  ASSUME IInv, NEW k \in Keys, Take(k), db.services[k] # None
  PROVE  /\ procs' \in [Plugins -> Process]
         /\ accepted' \in [Keys -> SUBSET [generation : Nat, reason : Reasons]]
         /\ \A p \in Plugins : /\ procs'[p].instance = procs[p].instance
                               /\ procs'[p].blocks = procs[p].blocks
         /\ procs'[k[2]].services[k[1]] = db.services[k]
         /\ \A j \in Keys \ {k} : procs'[j[2]].services[j[1]] = procs[j[2]].services[j[1]]
         /\ \E x \in accepted'[k] : x.generation = db.services[k].generation
         /\ \A j \in Keys : accepted[j] \subseteq accepted'[j]
         /\ RuntimesOK(op, procs') /\ ServicesOK(db, procs') /\ BlocksOK(db, procs')
  <1> DEFINE a == k[1]
             p == k[2]
             services == [procs[p].services EXCEPT ![a] = db.services[k]]
             new == [procs[p] EXCEPT !.services = services]
             x0 == [generation |-> db.services[k].generation, reason |-> db.services[k].reason]
  <1>1. a \in Authorizations /\ p \in Plugins /\ k = <<a, p>>
    BY DEF Keys
  <1>2. db.services[k] \in Desired /\ procs[p] \in Process
    BY <1>1 DEF IInv, TypeOK, Database, Or
  <1>3. procs' = [procs EXCEPT ![p] = new]
    BY DEF Take
  <1>4. accepted' = [accepted EXCEPT ![k] = accepted[k] \cup {x0}]
    BY DEF Take
  <1>5. x0 \in [generation : Nat, reason : Reasons] /\ x0.generation = db.services[k].generation
    BY <1>2 DEF Desired
  <1> HIDE DEF a, p, x0
  <1>6. /\ services \in [Authorizations -> Or(Desired)] /\ services[a] = db.services[k]
        /\ \A b \in Authorizations \ {a} : services[b] = procs[p].services[b]
    BY <1>1, <1>2 DEF Process, Or
  <1> HIDE DEF services
  <1>7. new \in Process /\ new.instance = procs[p].instance /\ new.blocks = procs[p].blocks
        /\ new.services = services
    <2>1. new \in Process
      BY <1>2, <1>6 DEF Process
    <2>2. new.instance = procs[p].instance /\ new.blocks = procs[p].blocks
          /\ new.services = services
      BY <1>2 DEF Process
    <2> QED
      BY <2>1, <2>2
  <1> HIDE DEF new
  <1>8. /\ procs' \in [Plugins -> Process] /\ procs'[p] = new
        /\ \A q \in Plugins \ {p} : procs'[q] = procs[q]
    BY <1>1, <1>3, <1>7 DEF IInv, TypeOK
  <1>9. \A q \in Plugins : /\ procs'[q].instance = procs[q].instance
                           /\ procs'[q].blocks = procs[q].blocks
    BY <1>7, <1>8
  <1>10. procs'[p].services[a] = db.services[k]
    BY <1>6, <1>7, <1>8
  <1>11. ASSUME NEW j \in Keys \ {k}
         PROVE  procs'[j[2]].services[j[1]] = procs[j[2]].services[j[1]]
    <2>1. /\ j[1] \in Authorizations /\ j[2] \in Plugins
          /\ j[1] # a \/ j[2] # p
      BY <1>1, <1>11 DEF Keys
    <2> QED
      BY <1>6, <1>7, <1>8, <2>1
  <1>12. /\ accepted' \in [Keys -> SUBSET [generation : Nat, reason : Reasons]]
         /\ x0 \in accepted'[k] /\ \A j \in Keys : accepted[j] \subseteq accepted'[j]
    BY <1>4, <1>5 DEF IInv, TypeOK
  <1>13. RuntimesOK(op, procs') /\ BlocksOK(db, procs')
    BY <1>9 DEF IInv, RuntimesOK, BlocksOK
  <1>14. ServicesOK(db, procs')
    <2>1. \A j \in Keys : j[2] \in Plugins
      BY DEF Keys
    <2> QED
      BY <1>9, <1>10, <1>11, <2>1 DEF IInv, ServicesOK, a, p
  <1> QED
    BY <1>5, <1>8, <1>9, <1>10, <1>11, <1>12, <1>13, <1>14 DEF a, p

LEMMA ApplyFacts ==
  ASSUME IInv, op.pc = "apply"
  PROVE  /\ op \in Op /\ db \in Database
         /\ \A k \in op.left : /\ k \in Keys /\ db.services[k] # None
                               /\ op.runtimes[k[2]] \in Runtime
         /\ \A p \in op.blocks : /\ p \in Plugins /\ db.blockSets[p] # None
                                 /\ op.runtimes[p] \in Runtime
  <1>1. op \in Op /\ db \in Database /\ OpOK(op, db)
    BY DEF IInv, TypeOK
  <1>2. /\ op.left \subseteq {k \in Keys : db.services[k] # None /\ op.runtimes[k[2]] # None}
        /\ op.blocks \subseteq {p \in Plugins : db.blockSets[p] # None /\ op.runtimes[p] # None}
    BY <1>1 DEF OpOK
  <1>3. \A k \in Keys : k[2] \in Plugins
    BY DEF Keys
  <1>4. \A p \in Plugins : op.runtimes[p] # None => op.runtimes[p] \in Runtime
    BY <1>1 DEF Op, Or
  <1> QED
    BY <1>1, <1>2, <1>3, <1>4

\* The state that is marked as applied is the one the process has taken, or that of a
\* process which is not there any more.
LEMMA SetServiceStateStep ==
  ASSUME IInv, NEW k \in Keys, SetServiceState(k)
  PROVE  IInv'
  <1> DEFINE instance == op.runtimes[k[2]].instance
  <1>1. /\ op.pc = "apply" /\ k \in op.left /\ Take(k)
        /\ db' = ServiceApplied(db, k, instance)
        /\ op' = Applying(op.left \ {k}, op.blocks)
        /\ UNCHANGED <<now, sink, carried, faults>>
    BY DEF SetServiceState
  <1>2. /\ op \in Op /\ db \in Database /\ db.services[k] # None
        /\ op.runtimes[k[2]] \in Runtime
    BY <1>1, ApplyFacts
  <1>3. instance \in Nat
    BY <1>2 DEF Runtime
  <1>4. instance <= procs'[k[2]].instance
    <2>1. RuntimesOK(op, procs') /\ k[2] \in Plugins /\ op.runtimes[k[2]] # None
      BY <1>1, <1>2, TakeFacts DEF Keys
    <2> QED
      BY <2>1 DEF RuntimesOK
  <1> HIDE DEF instance
  <1>5. /\ db' \in Database
        /\ db'.stateRevision = db.stateRevision /\ db'.blockRevision = db.blockRevision
        /\ db'.blockSets = db.blockSets /\ db'.appliedBlocks = db.appliedBlocks
        /\ db'.appliedServices[k] = [instance |-> instance, desired |-> db.services[k]]
        /\ db'.services[k] \in {None, db.services[k]}
        /\ \A j \in Keys \ {k} : /\ db'.services[j] = db.services[j]
                                 /\ db'.appliedServices[j] = db.appliedServices[j]
    BY <1>1, <1>2, <1>3, ServiceAppliedFacts
  <1>6. /\ procs' \in [Plugins -> Process]
        /\ accepted' \in [Keys -> SUBSET [generation : Nat, reason : Reasons]]
        /\ procs'[k[2]].services[k[1]] = db.services[k]
        /\ RuntimesOK(op, procs') /\ ServicesOK(db, procs') /\ BlocksOK(db, procs')
    BY <1>1, <1>2, TakeFacts
  <1>7. ServicesOK(db', procs')
    <2>1. db.services[k].revision <= db.stateRevision
      BY <1>2, <1>6 DEF ServicesOK
    <2>2. /\ db'.appliedServices[k].instance = instance
          /\ db'.appliedServices[k].desired = db.services[k]
      BY <1>5
    <2>3. ASSUME NEW j \in Keys
          PROVE  /\ db'.services[j] # None => db'.services[j].revision <= db'.stateRevision
                 /\ db'.appliedServices[j] # None =>
                      /\ db'.appliedServices[j].desired.revision <= db'.stateRevision
                      /\ db'.appliedServices[j].instance <= procs'[j[2]].instance
                      /\ db'.appliedServices[j].instance = procs'[j[2]].instance
                         /\ db'.appliedServices[j].desired = db'.services[j]
                           => procs'[j[2]].services[j[1]] = db'.services[j]
      <3>1. CASE j = k
        BY <1>4, <1>5, <1>6, <2>1, <2>2, <3>1
      <3>2. CASE j # k
        BY <1>5, <1>6, <3>2 DEF ServicesOK
      <3> QED
        BY <3>1, <3>2
    <2> QED
      BY <2>3 DEF ServicesOK
  <1>8. BlocksOK(db', procs')
    BY <1>5, <1>6 DEF BlocksOK
  <1>9. op' \in Op /\ OpOK(op', db') /\ op'.runtimes = op.runtimes
    <2> DEFINE left == op.left \ {k}
    <2>1. left \subseteq {j \in Keys : db'.services[j] # None /\ op.runtimes[j[2]] # None}
      <3>1. OpOK(op, db)
        BY DEF IInv
      <3> QED
        BY <1>1, <1>5, <3>1 DEF OpOK
    <2>2. op.blocks \subseteq {p \in Plugins : db'.blockSets[p] # None /\ op.runtimes[p] # None}
      BY <1>1, <1>5 DEF IInv, OpOK
    <2> HIDE DEF left
    <2>3. LET o == Applying(left, op.blocks)
          IN  o \in Op /\ OpOK(o, db') /\ o.runtimes = op.runtimes
      BY <1>2, <2>1, <2>2, ApplyingFacts
    <2> QED
      BY <1>1, <2>3 DEF left
  <1>10. RuntimesOK(op', procs')
    BY <1>6, <1>9 DEF RuntimesOK
  <1>11. TypeOK'
    BY <1>1, <1>5, <1>6, <1>9 DEF IInv, TypeOK
  <1> QED
    BY <1>7, <1>8, <1>9, <1>10, <1>11, Assembled

LEMMA SetServiceStateFailsStep ==
  ASSUME IInv, NEW k \in Keys, SetServiceStateFails(k)
  PROVE  IInv'
  <1>1. /\ op.pc = "apply" /\ k \in op.left /\ faults' \in Nat
        /\ Take(k) \/ UNCHANGED <<procs, accepted>>
        /\ op' = Applying(op.left \ {k}, op.blocks)
        /\ UNCHANGED <<db, now, sink, carried>>
    BY FaultType DEF SetServiceStateFails, IInv
  <1>2. op \in Op /\ db \in Database /\ db.services[k] # None
    BY <1>1, ApplyFacts
  <1>3. /\ procs' \in [Plugins -> Process]
        /\ accepted' \in [Keys -> SUBSET [generation : Nat, reason : Reasons]]
        /\ RuntimesOK(op, procs') /\ ServicesOK(db, procs') /\ BlocksOK(db, procs')
    <2>1. CASE Take(k)
      BY <1>2, <2>1, TakeFacts
    <2>2. CASE UNCHANGED <<procs, accepted>>
      BY <2>2 DEF IInv, TypeOK
    <2> QED
      BY <1>1, <2>1, <2>2
  <1>4. op' \in Op /\ OpOK(op', db') /\ op'.runtimes = op.runtimes
    <2> DEFINE left == op.left \ {k}
    <2>1. left \subseteq {j \in Keys : db.services[j] # None /\ op.runtimes[j[2]] # None}
      BY <1>1 DEF IInv, OpOK
    <2>2. op.blocks \subseteq {p \in Plugins : db.blockSets[p] # None /\ op.runtimes[p] # None}
      BY <1>1 DEF IInv, OpOK
    <2> HIDE DEF left
    <2>3. LET o == Applying(left, op.blocks)
          IN  o \in Op /\ OpOK(o, db) /\ o.runtimes = op.runtimes
      BY <1>2, <2>1, <2>2, ApplyingFacts
    <2> QED
      BY <1>1, <2>3 DEF left
  <1>5. RuntimesOK(op', procs') /\ ServicesOK(db', procs') /\ BlocksOK(db', procs')
    BY <1>1, <1>3, <1>4 DEF RuntimesOK
  <1>6. TypeOK'
    BY <1>1, <1>3, <1>4 DEF IInv, TypeOK
  <1> QED
    BY <1>4, <1>5, <1>6, Assembled

LEMMA TakeBlocksFacts ==
  ASSUME IInv, NEW p \in Plugins, TakeBlocks(p), db.blockSets[p] # None
  PROVE  /\ procs' \in [Plugins -> Process]
         /\ \A q \in Plugins : /\ procs'[q].instance = procs[q].instance
                               /\ procs'[q].services = procs[q].services
         /\ procs'[p].blocks = db.blockSets[p].blocks
         /\ \A q \in Plugins \ {p} : procs'[q].blocks = procs[q].blocks
         /\ RuntimesOK(op, procs') /\ ServicesOK(db, procs') /\ BlocksOK(db, procs')
  <1> DEFINE blocks == db.blockSets[p].blocks
             new == [procs[p] EXCEPT !.blocks = blocks]
  <1>1. procs[p] \in Process /\ blocks \in SUBSET Block
    BY DEF IInv, TypeOK, Database, Or, DesiredBlocks
  <1>2. procs' = [procs EXCEPT ![p] = new]
    BY DEF TakeBlocks
  <1> HIDE DEF blocks
  <1>3. /\ new \in Process /\ new.instance = procs[p].instance
        /\ new.services = procs[p].services /\ new.blocks = blocks
    BY <1>1 DEF Process
  <1> HIDE DEF new
  <1>4. /\ procs' \in [Plugins -> Process] /\ procs'[p] = new
        /\ \A q \in Plugins \ {p} : procs'[q] = procs[q]
    BY <1>2, <1>3 DEF IInv, TypeOK
  <1>5. \A q \in Plugins : /\ procs'[q].instance = procs[q].instance
                           /\ procs'[q].services = procs[q].services
    BY <1>3, <1>4
  <1>6. RuntimesOK(op, procs')
    BY <1>5 DEF IInv, RuntimesOK
  <1>7. ServicesOK(db, procs')
    <2>1. \A k \in Keys : k[2] \in Plugins
      BY DEF Keys
    <2> QED
      BY <1>5, <2>1 DEF IInv, ServicesOK
  <1>8. BlocksOK(db, procs')
    BY <1>3, <1>4, <1>5 DEF IInv, BlocksOK, blocks
  <1> QED
    BY <1>3, <1>4, <1>5, <1>6, <1>7, <1>8 DEF blocks

\* The operation after the blocks of a plugin, whether or not that failed.
LEMMA BlocksLeft ==
  ASSUME IInv, op.pc = "apply", op.left = {}, NEW p, NEW d, d.blockSets = db.blockSets
  PROVE  LET o == Applying({}, op.blocks \ {p})
         IN  o \in Op /\ OpOK(o, d) /\ o.runtimes = op.runtimes
  <1> DEFINE blocks == op.blocks \ {p}
  <1>1. op \in Op
    BY DEF IInv, TypeOK
  <1>2. blocks \subseteq {q \in Plugins : d.blockSets[q] # None /\ op.runtimes[q] # None}
    BY DEF IInv, OpOK
  <1> HIDE DEF blocks
  <1>3. LET o == Applying({}, blocks) IN o \in Op /\ OpOK(o, d) /\ o.runtimes = op.runtimes
    BY <1>1, <1>2, ApplyingFacts
  <1> QED
    BY <1>3 DEF blocks

LEMMA ReplaceBlocksStep ==
  ASSUME IInv, NEW p \in Plugins, ReplaceDynamicBlocks(p)
  PROVE  IInv'
  <1> DEFINE instance == op.runtimes[p].instance
  <1>1. /\ op.pc = "apply" /\ op.left = {} /\ p \in op.blocks /\ TakeBlocks(p)
        /\ db' = BlocksApplied(db, p, instance)
        /\ op' = Applying({}, op.blocks \ {p})
        /\ UNCHANGED <<now, sink, carried, accepted, faults>>
    BY DEF ReplaceDynamicBlocks
  <1>2. /\ op \in Op /\ db \in Database /\ db.blockSets[p] # None
        /\ op.runtimes[p] \in Runtime
    BY <1>1, ApplyFacts
  <1>3. /\ procs' \in [Plugins -> Process] /\ procs'[p].blocks = db.blockSets[p].blocks
        /\ RuntimesOK(op, procs') /\ ServicesOK(db, procs') /\ BlocksOK(db, procs')
    BY <1>1, <1>2, TakeBlocksFacts
  <1>4. instance \in Nat /\ instance <= procs'[p].instance
    BY <1>2, <1>3 DEF Runtime, RuntimesOK
  <1> HIDE DEF instance
  <1>5. /\ db' \in Database
        /\ db'.stateRevision = db.stateRevision /\ db'.blockRevision = db.blockRevision
        /\ db'.services = db.services /\ db'.appliedServices = db.appliedServices
        /\ db'.blockSets = db.blockSets
        /\ db'.appliedBlocks[p] = [instance |-> instance, desired |-> db.blockSets[p]]
        /\ \A q \in Plugins \ {p} : db'.appliedBlocks[q] = db.appliedBlocks[q]
    BY <1>1, <1>2, <1>4, BlocksAppliedFacts
  <1>6. ServicesOK(db', procs')
    BY <1>3, <1>5 DEF ServicesOK
  <1>7. BlocksOK(db', procs')
    <2>1. db.blockSets[p].revision <= db.blockRevision
      BY <1>2, <1>3 DEF BlocksOK
    <2>2. /\ db'.appliedBlocks[p].instance = instance
          /\ db'.appliedBlocks[p].desired = db.blockSets[p]
      BY <1>5
    <2>3. ASSUME NEW q \in Plugins
          PROVE  /\ db'.blockSets[q] # None => db'.blockSets[q].revision <= db'.blockRevision
                 /\ db'.appliedBlocks[q] # None =>
                      /\ db'.appliedBlocks[q].desired.revision <= db'.blockRevision
                      /\ db'.appliedBlocks[q].instance <= procs'[q].instance
                      /\ db'.appliedBlocks[q].instance = procs'[q].instance
                         /\ db'.appliedBlocks[q].desired = db'.blockSets[q]
                           => procs'[q].blocks = db'.blockSets[q].blocks
      <3>1. CASE q = p
        BY <1>3, <1>4, <1>5, <2>1, <2>2, <3>1
      <3>2. CASE q # p
        BY <1>3, <1>5, <3>2 DEF BlocksOK
      <3> QED
        BY <3>1, <3>2
    <2> QED
      BY <2>3 DEF BlocksOK
  <1>8. op' \in Op /\ OpOK(op', db') /\ op'.runtimes = op.runtimes
    BY <1>1, <1>5, BlocksLeft
  <1>9. RuntimesOK(op', procs')
    BY <1>3, <1>8 DEF RuntimesOK
  <1>10. TypeOK'
    BY <1>1, <1>3, <1>5, <1>8 DEF IInv, TypeOK
  <1> QED
    BY <1>6, <1>7, <1>8, <1>9, <1>10, Assembled

LEMMA ReplaceBlocksFailsStep ==
  ASSUME IInv, NEW p \in Plugins, ReplaceDynamicBlocksFails(p)
  PROVE  IInv'
  <1>1. /\ op.pc = "apply" /\ op.left = {} /\ p \in op.blocks /\ faults' \in Nat
        /\ TakeBlocks(p) \/ UNCHANGED procs
        /\ op' = Applying({}, op.blocks \ {p})
        /\ UNCHANGED <<db, now, sink, carried, accepted>>
    BY FaultType DEF ReplaceDynamicBlocksFails, IInv
  <1>2. op \in Op /\ db \in Database /\ db.blockSets[p] # None
    BY <1>1, ApplyFacts
  <1>3. /\ procs' \in [Plugins -> Process]
        /\ RuntimesOK(op, procs') /\ ServicesOK(db, procs') /\ BlocksOK(db, procs')
    <2>1. CASE TakeBlocks(p)
      BY <1>2, <2>1, TakeBlocksFacts
    <2>2. CASE UNCHANGED procs
      BY <2>2 DEF IInv, TypeOK
    <2> QED
      BY <1>1, <2>1, <2>2
  <1>4. op' \in Op /\ OpOK(op', db') /\ op'.runtimes = op.runtimes
    BY <1>1, BlocksLeft
  <1>5. RuntimesOK(op', procs') /\ ServicesOK(db', procs') /\ BlocksOK(db', procs')
    BY <1>1, <1>3, <1>4 DEF RuntimesOK
  <1>6. TypeOK'
    BY <1>1, <1>3, <1>4 DEF IInv, TypeOK
  <1> QED
    BY <1>4, <1>5, <1>6, Assembled

-----------------------------------------------------------------------------
(* The statuses.                                                           *)

LEMMA PublishFacts ==
  ASSUME IInv, NEW d, NEW left, left \subseteq {a \in Authorizations : d.statuses[a] # None}
  PROVE  LET o == Publishing("publish", left, Idle)
         IN  o \in Op /\ OpOK(o, d) /\ (o.runtimes = op.runtimes \/ RuntimesOK(o, procs))
  <1>1. op \in Op
    BY DEF IInv, TypeOK
  <1>2. Idle \in Op /\ OpOK(Idle, d) /\ RuntimesOK(Idle, procs)
    BY IdleFacts
  <1>3. LET o == Publishing("publish", left, Idle)
        IN  o \in Op /\ OpOK(o, d) /\ (o = Idle \/ o.runtimes = op.runtimes)
    BY <1>1, <1>2, PublishingFacts
  <1> QED
    BY <1>2, <1>3

LEMMA InstancesType ==
  ASSUME IInv
  PROVE  RuntimeInstances(op.runtimes) \in [Plugins -> Or(Nat)]
  <1>1. \A p \in Plugins : op.runtimes[p] # None => op.runtimes[p].instance \in Nat
    BY DEF IInv, TypeOK, Op, Or, Runtime
  <1> QED
    BY <1>1 DEF RuntimeInstances, Or

LEMMA RefreshStatusesStep ==
  ASSUME IInv, RefreshStatuses
  PROVE  IInv'
  <1> DEFINE instances == RuntimeInstances(op.runtimes)
             left == UnqueuedStatuses(db')
  <1>1. /\ db' = StatusesRefreshed(db, instances, now)
        /\ op' = Publishing("publish", left, Idle)
        /\ UNCHANGED <<now, procs, sink, carried, accepted, faults>>
    BY DEF RefreshStatuses
  <1>i. instances \in [Plugins -> Or(Nat)]
    BY InstancesType
  <1> HIDE DEF instances
  <1>2. db' \in Database /\ SameSteering(db', db)
    BY <1>1, <1>i, StatusesRefreshedFacts DEF IInv, TypeOK
  <1>3. left \subseteq {a \in Authorizations : db'.statuses[a] # None}
    BY DEF UnqueuedStatuses
  <1> HIDE DEF left
  <1>4. op' \in Op /\ OpOK(op', db') /\ (op'.runtimes = op.runtimes \/ RuntimesOK(op', procs))
    BY <1>1, <1>3, PublishFacts
  <1>5. sink' \in Sink /\ faults' \in Nat
    BY <1>1 DEF IInv, TypeOK
  <1> QED
    BY <1>1, <1>2, <1>4, <1>5, AgentMoves

LEMMA RefreshStatusesFailsStep ==
  ASSUME IInv, RefreshStatusesFails \/ StatusesFail
  PROVE  IInv'
  <1> DEFINE left == UnqueuedStatuses(db')
  <1>1. /\ op' = Publishing("publish", left, Idle) \/ op' = Idle
        /\ db' = db \/ db' = Refreshed(db, now)
        /\ faults' \in Nat /\ UNCHANGED <<now, procs, sink, carried, accepted>>
    BY FaultType DEF RefreshStatusesFails, StatusesFail, IInv
  <1>2. left \subseteq {a \in Authorizations : db'.statuses[a] # None}
    BY <1>1 DEF UnqueuedStatuses
  <1> HIDE DEF left
  <1>3. op' \in Op /\ OpOK(op', db') /\ (op'.runtimes = op.runtimes \/ RuntimesOK(op', procs))
    BY <1>1, <1>2, PublishFacts, IdleFacts
  <1>4. db' \in Database /\ SameSteering(db', db) /\ sink' \in Sink
    BY <1>1, SameIsSame, RefreshedFacts DEF IInv, TypeOK
  <1> QED
    BY <1>1, <1>3, <1>4, AgentMoves

LEMMA EnqueueStatusStep ==
  ASSUME IInv, NEW a \in Authorizations, EnqueueStatus(a)
  PROVE  IInv'
  <1> DEFINE left == op.left \ {a}
             event == db.statuses[a].event
             status == [sink.status EXCEPT ![a] = event]
  <1>1. /\ op.pc = "publish" /\ a \in op.left /\ sink' = [sink EXCEPT !.status = status]
        /\ op' = [op EXCEPT !.pc = "settle", !.left = left, !.item = a]
        /\ UNCHANGED <<db, now, procs, carried, accepted, faults>>
    BY DEF EnqueueStatus
  <1>2. op \in Op /\ op.left \subseteq {b \in Authorizations : db.statuses[b] # None}
    BY <1>1 DEF IInv, TypeOK, OpOK, Publishes
  <1>3. event \in StatusEvent
    BY <1>1, <1>2 DEF IInv, TypeOK, Database, Or, Status
  <1> HIDE DEF event
  <1>4. status \in [Authorizations -> Or(StatusEvent)]
    BY <1>3 DEF IInv, TypeOK, Sink, Or
  <1> HIDE DEF status
  <1>5. sink' \in Sink
    BY <1>1, <1>4 DEF IInv, TypeOK, Sink
  <1>6. left \subseteq {b \in Authorizations : db.statuses[b] # None} /\ db.statuses[a] # None
        /\ left \subseteq Authorizations
    BY <1>1, <1>2
  <1> HIDE DEF left
  <1>7. op' \in Op
    BY <1>1, <1>2, <1>6 DEF Op, Or, Publishes
  <1>8. op'.pc = "settle" /\ op'.left = left /\ op'.item = a /\ op'.runtimes = op.runtimes
    BY <1>1, <1>2 DEF Op
  <1>9. OpOK(op', db')
    BY <1>1, <1>6, <1>8 DEF OpOK, Collects, Publishes
  <1>10. db' \in Database /\ SameSteering(db', db) /\ faults' \in Nat
    BY <1>1, SameIsSame DEF IInv, TypeOK
  <1> QED
    BY <1>1, <1>5, <1>7, <1>8, <1>9, <1>10, AgentMoves

LEMMA MarkStatusStep ==
  ASSUME IInv, MarkStatusQueued
  PROVE  IInv'
  <1>1. /\ op.pc = "settle" /\ db' = StatusQueued(db, op.item)
        /\ op' = Publishing("publish", op.left, Idle)
        /\ UNCHANGED <<now, procs, sink, carried, accepted, faults>>
    BY DEF MarkStatusQueued
  <1>2. /\ op.item \in Authorizations /\ db.statuses[op.item] # None
        /\ op.left \subseteq {b \in Authorizations : db.statuses[b] # None}
    BY <1>1 DEF IInv, TypeOK, OpOK, Publishes
  <1>3. /\ db' \in Database /\ SameSteering(db', db)
        /\ \A b \in Authorizations : db'.statuses[b] = None <=> db.statuses[b] = None
    BY <1>1, <1>2, StatusQueuedFacts DEF IInv, TypeOK
  <1>4. op.left \subseteq {b \in Authorizations : db'.statuses[b] # None}
    BY <1>2, <1>3
  <1>5. op' \in Op /\ OpOK(op', db') /\ (op'.runtimes = op.runtimes \/ RuntimesOK(op', procs))
    BY <1>1, <1>4, PublishFacts
  <1>6. sink' \in Sink /\ faults' \in Nat
    BY <1>1 DEF IInv, TypeOK
  <1> QED
    BY <1>1, <1>3, <1>5, <1>6, AgentMoves

-----------------------------------------------------------------------------
(* The invariant, and what is marked as applied.                           *)

LEMMA NextIInv == IInv /\ [Next]_vars => IInv'
  <1> SUFFICES ASSUME IInv, [Next]_vars PROVE IInv'
    OBVIOUS
  <1>1. CASE RunCycle
    BY <1>1, RunCycleStep
  <1>2. CASE Engine
    <2>1. CASE Collect
      BY <2>1, EnqueueAccessStep, ObserveActivityStep, AdvanceStep, CollectTelemetryStep,
         CollectFailsStep DEF Collect
    <2>2. CASE Apply
      BY <2>2, ReadDesiredStep, SetServiceStateStep, SetServiceStateFailsStep,
         ReplaceBlocksStep, ReplaceBlocksFailsStep DEF Apply
    <2>3. CASE Publish
      BY <2>3, PendingTrafficStep, MarkTrafficStep, RefreshStatusesStep, MarkStatusStep,
         EnqueueTrafficStep, EnqueueStatusStep DEF Publish
    <2> QED
      BY <1>2, <2>1, <2>2, <2>3 DEF Engine
  <1>3. CASE Fails
    BY <1>3, EventFailsStep, TrafficFailsStep, RefreshStatusesFailsStep DEF Fails
  <1>4. CASE Plugin
    BY <1>4, StartStep, ExitStep, CarryStep, AccessStep DEF Plugin
  <1>5. CASE Tick
    BY <1>5, TickStep
  <1>6. CASE Crash
    BY <1>6, CrashStep
  <1>7. CASE \E snapshot \in Snapshots : Execute(snapshot)
    BY <1>7, ExecuteStep
  <1>8. CASE UNCHANGED vars
    <2>1. Follows(procs', procs) /\ UNCHANGED <<db, now, procs, op, sink, carried, accepted, faults>>
      BY <1>8, FollowsItself DEF vars
    <2> QED
      BY <2>1, PluginsMove DEF IInv, TypeOK
  <1> QED
    BY <1>1, <1>2, <1>3, <1>4, <1>5, <1>6, <1>7, <1>8 DEF Next

LEMMA Invariance == Spec => []IInv
  BY InitIInv, NextIInv, PTL DEF Spec

\* The variables of the engine, with its database, keep their types.
THEOREM TypeCorrect == Spec => []TypeOK
  <1>1. IInv => TypeOK
    BY DEF IInv
  <1> QED
    BY <1>1, Invariance, PTL

\* What the database marks as applied by the process that runs, that process does:
\* the engine may skip the call that ServiceNeedsApply and BlocksNeedApply deny,
\* however calls fail half-way and processes are replaced between being seen and
\* being called.
THEOREM AppliedByProcess == Spec => []AppliedIsTrue
  <1>1. IInv => AppliedIsTrue
    <2> SUFFICES ASSUME IInv, NEW p \in Plugins
                 PROVE  /\ \A a \in Authorizations :
                             db.services[<<a, p>>] # None
                             /\ ~ServiceNeedsApply(db, <<a, p>>, procs[p].instance)
                               => procs[p].services[a] = db.services[<<a, p>>]
                        /\ db.blockSets[p] # None /\ ~BlocksNeedApply(db, p, procs[p].instance)
                             => procs[p].blocks = db.blockSets[p].blocks
      BY DEF AppliedIsTrue
    <2>1. ASSUME NEW a \in Authorizations, db.services[<<a, p>>] # None,
                 ~ServiceNeedsApply(db, <<a, p>>, procs[p].instance)
          PROVE  procs[p].services[a] = db.services[<<a, p>>]
      <3> DEFINE k == <<a, p>>
      <3>1. k \in Keys /\ k[1] = a /\ k[2] = p
        BY DEF Keys
      <3>2. db.appliedServices[k] = [instance |-> procs[p].instance, desired |-> db.services[k]]
        BY <2>1 DEF ServiceNeedsApply
      <3>3. db.services[k] \in Desired /\ procs[p].instance \in Nat
        BY <2>1, <3>1 DEF IInv, TypeOK, Database, Or, Process
      <3>4. db.appliedServices[k] # None
        BY <3>2, <3>3, NoneAssumption DEF AppliedService
      <3> HIDE DEF k
      <3>5. procs[p].services[a] = db.services[k]
        BY <3>1, <3>2, <3>4 DEF IInv, ServicesOK
      <3> QED
        BY <3>5 DEF k
    <2>2. ASSUME db.blockSets[p] # None, ~BlocksNeedApply(db, p, procs[p].instance)
          PROVE  procs[p].blocks = db.blockSets[p].blocks
      <3>1. db.appliedBlocks[p] = [instance |-> procs[p].instance, desired |-> db.blockSets[p]]
        BY <2>2 DEF BlocksNeedApply
      <3>2. db.blockSets[p] \in DesiredBlocks /\ procs[p].instance \in Nat
        BY <2>2 DEF IInv, TypeOK, Database, Or, Process
      <3>3. db.appliedBlocks[p] # None
        BY <3>1, <3>2, NoneAssumption DEF AppliedBlocks
      <3> QED
        BY <3>1, <3>3 DEF IInv, BlocksOK
    <2> QED
      BY <2>1, <2>2
  <1> QED
    BY <1>1, Invariance, PTL
=============================================================================
