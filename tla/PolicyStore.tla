---------------------------- MODULE PolicyStore -----------------------------
(***************************************************************************)
(* The local policy state of internal/policy/store.go and desired.go: what *)
(* is in the buckets of the bolt database, and what each transaction makes *)
(* of it.  A transaction is an operator from the database to the database, *)
(* because a commit is atomic and durable.                                 *)
(*                                                                         *)
(* Upload and download are one number of bytes.  A plugin has one service  *)
(* per authorization, and the activity window and the block time are those *)
(* of every policy.  The digest of a snapshot, of a set of blocks or of a  *)
(* status is the value itself.  The current period kept with a policy is   *)
(* left out: no decision reads it.                                         *)
(***************************************************************************)
EXTENDS Naturals, FiniteSets

CONSTANTS
  Authorizations, Plugins, Sources,   \* Sources: client addresses
  Snapshots,      \* the policy snapshots of the center
  None,
  PeriodLength,   \* every PeriodLength ticks the traffic starts from zero
  Window,         \* for how long an address that was seen keeps its slot
  BlockTime,      \* for how long an address is blocked
  Capacity        \* the largest number of bytes, math.MaxInt64 in the code

Keys == Authorizations \X Plugins

\* limit: bytes per period; soft: addresses at a time; None: without limit.
Policy == [enabled : BOOLEAN, expires : Nat \cup {None}, limit : Nat \cup {None},
           soft : Nat \cup {None}, bindings : SUBSET Plugins]

\* The database before the first snapshot.
NoSnapshot == [generation |-> 0, policies |-> <<>>]

ASSUME PolicyStoreAssumption ==
  /\ \A s \in Snapshots :
       /\ s.generation \in Nat \ {0}
       /\ DOMAIN s.policies \subseteq Authorizations
       /\ \A a \in DOMAIN s.policies : s.policies[a] \in Policy
  /\ \A s, t \in Snapshots : s.generation = t.generation => s = t
  /\ IsFiniteSet(Sources)
  /\ PeriodLength \in Nat \ {0}
  /\ Window \in Nat
  /\ BlockTime \in Nat
  /\ Capacity \in Nat

PeriodOf(time) == time \div PeriodLength
Reasons == {"active", "disabled", "expired", "quota"}

-----------------------------------------------------------------------------
(* The buckets.                                                            *)

Counter == [epoch : Nat, bytes : Nat]
Ledger  == [period : Nat, revision : Nat, queued : Nat, bytes : Nat]
Traffic == [authorization : Authorizations, period : Nat, revision : Nat, bytes : Nat]
Cursor  == [stream : Nat, sequence : Nat]
Desired == [generation : Nat, revision : Nat, reason : Reasons, orphan : BOOLEAN]
Block   == [authorization : Authorizations, source : Sources, expires : Nat]
DesiredBlocks == [generation : Nat, revision : Nat, blocks : SUBSET Block]
StatusEvent == [generation : Nat, period : Nat, bytes : Nat, reason : Reasons,
                active : Nat, blocked : Nat]

Status  == [event : StatusEvent, queued : BOOLEAN]
AppliedService == [instance : Nat, desired : Desired]
AppliedBlocks  == [instance : Nat, desired : DesiredBlocks]

ASSUME NoneAssumption ==
  /\ None \notin Authorizations /\ None \notin Plugins /\ None \notin Nat
  /\ None \notin Counter /\ None \notin Ledger /\ None \notin Traffic /\ None \notin Cursor
  /\ None \notin Desired /\ None \notin AppliedService
  /\ None \notin DesiredBlocks /\ None \notin AppliedBlocks
  /\ None \notin StatusEvent /\ None \notin Status

Or(S) == S \cup {None}

Database ==
  [snapshot       : Snapshots \cup {NoSnapshot},   \* generation, digest and policies
   stateRevision  : Nat, blockRevision : Nat,
   orphans        : SUBSET Keys,
   counters       : [Keys -> Or(Counter)],
   ledgers        : [Authorizations -> Or(Ledger)],
   pending        : SUBSET Traffic,
   cursors        : [Plugins -> Or(Cursor)],
   slots          : [Authorizations \X Sources -> Or(Nat)],   \* last seen
   blocks         : [Authorizations \X Sources -> Or(Nat)],   \* expiry
   services       : [Keys -> Or(Desired)],
   appliedServices: [Keys -> Or(AppliedService)],
   blockSets      : [Plugins -> Or(DesiredBlocks)],
   appliedBlocks  : [Plugins -> Or(AppliedBlocks)],
   statuses       : [Authorizations -> Or(Status)]]

Nothing(S) == [x \in S |-> None]

EmptyDatabase ==
  [snapshot |-> NoSnapshot, stateRevision |-> 0, blockRevision |-> 0, orphans |-> {},
   counters |-> Nothing(Keys), ledgers |-> Nothing(Authorizations), pending |-> {},
   cursors |-> Nothing(Plugins),
   slots |-> Nothing(Authorizations \X Sources), blocks |-> Nothing(Authorizations \X Sources),
   services |-> Nothing(Keys), appliedServices |-> Nothing(Keys),
   blockSets |-> Nothing(Plugins), appliedBlocks |-> Nothing(Plugins),
   statuses |-> Nothing(Authorizations)]

Policies(db) == db.snapshot.policies
Authorized(db) == DOMAIN Policies(db)
Bindings(snapshot) ==
  {k \in Keys : k[1] \in DOMAIN snapshot.policies /\ k[2] \in snapshot.policies[k[1]].bindings}
Limited(db) == {a \in Authorized(db) : Policies(db)[a].soft # None}

-----------------------------------------------------------------------------
(* Ledgers.                                                                *)

\* ensureLedger makes one of these.
NewLedger(period) == [period |-> period, revision |-> 1, queued |-> 0, bytes |-> 0]

\* Mutant of TrafficOf: the revision that was queued last is sent.
TrafficOfQueued(a, ledger) == [authorization |-> a, period |-> ledger.period,
                               revision |-> ledger.queued, bytes |-> ledger.bytes]

\* ledgerEvent.
TrafficOf(a, ledger) == [authorization |-> a, period |-> ledger.period,
                         revision |-> ledger.revision, bytes |-> ledger.bytes]

Unqueued(ledger) == ledger # None /\ ledger.queued < ledger.revision

\* preservePendingTraffic, for the ledgers of A.  The bucket's key is the
\* authorization and the period.
Preserved(db, A) ==
  LET new == {TrafficOf(a, db.ledgers[a]) : a \in {b \in A : Unqueued(db.ledgers[b])}}
      Replaced(old) == \E t \in new : /\ t.authorization = old.authorization
                                      /\ t.period = old.period
  IN  {old \in db.pending : ~Replaced(old)} \cup new

\* ensureLedger, for every authorization of A.
EnsureLedgers(db, A, time) ==
  LET ended == {a \in A : db.ledgers[a] # None /\ db.ledgers[a].period # PeriodOf(time)}
  IN  [db EXCEPT
         !.pending = Preserved(db, ended),
         !.ledgers = [a \in Authorizations |->
           IF a \in ended \/ (a \in A /\ db.ledgers[a] = None)
           THEN NewLedger(PeriodOf(time)) ELSE db.ledgers[a]]]

\* cleanAuthorizationActivity, for every authorization of A.
CleanActivity(db, A, time) ==
  [db EXCEPT
     !.slots = [s \in DOMAIN @ |->
       IF s[1] \in A /\ @[s] # None /\ @[s] + Window <= time THEN None ELSE @[s]],
     !.blocks = [s \in DOMAIN @ |->
       IF s[1] \in A /\ @[s] # None /\ @[s] <= time THEN None ELSE @[s]]]

\* refresh.
Refreshed(db, time) ==
  CleanActivity(EnsureLedgers(db, Authorized(db), time), Authorized(db), time)

-----------------------------------------------------------------------------
(* Store.Reconcile: a newer snapshot replaces the policies.  A binding it  *)
(* does not have becomes an orphan, to be switched off; what belongs to an *)
(* authorization it does not have goes, except for traffic to be reported. *)

\* deleteRemovedAuthorizationState.
RemovedDeleted(db, kept) ==
  LET Keep(f) == [a \in Authorizations |-> IF a \in kept THEN f[a] ELSE None]
      KeepPairs(f) == [x \in DOMAIN f |-> IF x[1] \in kept THEN f[x] ELSE None]
  IN  [db EXCEPT
         !.pending = Preserved(db, Authorizations \ kept),
         !.ledgers = Keep(@), !.statuses = Keep(@),
         !.slots = KeepPairs(@), !.blocks = KeepPairs(@), !.counters = KeepPairs(@)]

\* Mutant of Reconciled: bindings that are gone are forgotten.
ReconciledWithoutOrphans(db, snapshot) ==
  [RemovedDeleted(db, DOMAIN snapshot.policies) EXCEPT !.snapshot = snapshot]

Reconciled(db, snapshot) ==
  [RemovedDeleted(db, DOMAIN snapshot.policies) EXCEPT
     !.snapshot = snapshot,
     !.orphans = (@ \cup Bindings(db.snapshot)) \ Bindings(snapshot)]

-----------------------------------------------------------------------------
(* Store.ApplyCounters, for the counters that plugin p has read in one     *)
(* epoch.  Only those of its bindings count.                               *)

\* Mutant of Delta: the epoch of the counter is not compared.
DeltaAnyEpoch(db, k, epoch, bytes) ==
  LET previous == db.counters[k]
  IN  IF previous # None /\ bytes >= previous.bytes THEN bytes - previous.bytes ELSE bytes

Delta(db, k, epoch, bytes) ==
  LET previous == db.counters[k]
  IN  IF previous # None /\ previous.epoch = epoch /\ bytes >= previous.bytes
      THEN bytes - previous.bytes ELSE bytes

Bound(db, p) == {a \in Authorized(db) : p \in Policies(db)[a].bindings}

Grown(db, p, epoch, read) == {a \in Bound(db, p) : Delta(db, <<a, p>>, epoch, read[a]) > 0}

\* Nothing overflows; otherwise the whole transaction is undone.
CountersFit(db, p, epoch, read, time) ==
  LET grown == Grown(db, p, epoch, read)
      ensured == EnsureLedgers(db, grown, time)
  IN  /\ \A a \in Authorizations : read[a] <= Capacity
      /\ \A a \in grown :
           ensured.ledgers[a].bytes + Delta(db, <<a, p>>, epoch, read[a]) <= Capacity

Charged(ledger, bytes) == [ledger EXCEPT !.bytes = @ + bytes, !.revision = @ + 1]

CountersApplied(db, p, epoch, read, time) ==
  LET grown == Grown(db, p, epoch, read)
      ensured == EnsureLedgers(db, grown, time)
  IN  [ensured EXCEPT
         !.counters = [k \in Keys |->
           IF k[2] = p /\ k[1] \in Bound(db, p) THEN [epoch |-> epoch, bytes |-> read[k[1]]]
                                                ELSE @[k]],
         !.ledgers = [a \in Authorizations |->
           IF a \in grown THEN Charged(@[a], Delta(db, <<a, p>>, epoch, read[a])) ELSE @[a]]]

\* What PendingTrafficSnapshots lists after its refresh.
UnqueuedTraffic(db) ==
  db.pending \cup
  {TrafficOf(a, db.ledgers[a]) : a \in {b \in Authorizations : Unqueued(db.ledgers[b])}}

PendingOf(db, t) == {old \in db.pending : old.authorization = t.authorization
                                          /\ old.period = t.period}

\* MarkTrafficQueued refuses a snapshot that is not the one it finds.
TrafficMatches(db, t) ==
  IF PendingOf(db, t) # {} THEN t \in db.pending
  ELSE LET ledger == db.ledgers[t.authorization]
       IN  ledger # None /\ ledger.period = t.period /\ ledger.revision >= t.revision

TrafficQueued(db, t) ==
  IF PendingOf(db, t) # {} THEN [db EXCEPT !.pending = @ \ {t}]
  ELSE IF TrafficOf(t.authorization, db.ledgers[t.authorization]) = t
  THEN [db EXCEPT !.ledgers[t.authorization].queued = t.revision]
  ELSE db

-----------------------------------------------------------------------------
(* Activity.                                                               *)

\* Mutant of TelemetryCursor: the cursor of an old stream is used for a new one.
TelemetryCursorAnyStream(db, p, stream) ==
  IF db.cursors[p] # None THEN db.cursors[p].sequence ELSE 0

\* TelemetryCursor: a cursor of another stream does not count.
TelemetryCursor(db, p, stream) ==
  IF db.cursors[p] # None /\ db.cursors[p].stream = stream THEN db.cursors[p].sequence ELSE 0

\* Store.AdvanceTelemetryCursor.  Its checks for a concurrent change hold: under the
\* mutex nobody else moves the cursor.
CursorAdvanced(db, p, stream, sequence) ==
  [db EXCEPT !.cursors[p] = [stream |-> stream, sequence |-> sequence]]

SlotsOf(db, a) == {s \in Sources : db.slots[a, s] # None}
BlocksOf(db, a) == {s \in Sources : db.blocks[a, s] # None}

\* Mutant of Observed: one address more than the limit gets a slot.
ObservedOneMore(db, a, source, time) ==
  LET clean == CleanActivity(db, {a}, time)
  IN  IF a \notin Limited(db) \/ clean.blocks[a, source] # None THEN db
      ELSE IF Cardinality(SlotsOf(clean, a)) <= Policies(db)[a].soft
      THEN [clean EXCEPT !.slots[<<a, source>>] = time]
      ELSE [clean EXCEPT !.blocks[<<a, source>>] = time + BlockTime]

\* Store.ObserveActivity: an address keeps its slot, takes a free one, or is
\* blocked.  The time is that of the event, which may be older than the slot.
Observed(db, a, source, time) ==
  LET clean == CleanActivity(db, {a}, time)
  IN  IF a \notin Limited(db) THEN db
      ELSE IF clean.blocks[a, source] # None THEN clean
      ELSE IF clean.slots[a, source] # None
      THEN IF time > clean.slots[a, source] THEN [clean EXCEPT !.slots[<<a, source>>] = time]
                                            ELSE clean
      ELSE IF Cardinality(SlotsOf(clean, a)) < Policies(db)[a].soft
      THEN [clean EXCEPT !.slots[<<a, source>>] = time]
      ELSE [clean EXCEPT !.blocks[<<a, source>>] = time + BlockTime]

-----------------------------------------------------------------------------
(* What the plugins are to do, desired.go.                                 *)

\* enforcementState.
EnforcementState(policy, ledger, time) ==
  IF ~policy.enabled THEN "disabled"
  ELSE IF policy.expires # None /\ time >= policy.expires THEN "expired"
  ELSE IF policy.limit # None /\ ledger.bytes >= policy.limit THEN "quota"
  ELSE "active"

ReasonFor(db, a, time) == EnforcementState(Policies(db)[a], db.ledgers[a], time)

ServicesListed(db) == Bindings(db.snapshot) \cup db.orphans
PluginsListed(db) ==
  {p \in Plugins : db.blockSets[p] # None \/ Bound(db, p) \cap Limited(db) # {}}

\* appendPolicyBlocks.
BlocksFor(db, p, time) ==
  {b \in [authorization : Bound(db, p) \cap Limited(db), source : Sources,
          expires : {db.blocks[x] : x \in DOMAIN db.blocks} \ {None}] :
     /\ b.expires = db.blocks[b.authorization, b.source]
     /\ b.expires > time}

\* What ensureDesiredService and ensureDesiredBlocks compare with what is there, and
\* store under a new revision when it differs.
WantedService(db, k, time, revision) ==
  [generation |-> db.snapshot.generation, revision |-> revision,
   reason |-> IF k \in db.orphans THEN "disabled" ELSE ReasonFor(db, k[1], time),
   orphan |-> k \in db.orphans]
WantedBlocks(db, p, time, revision) ==
  [generation |-> db.snapshot.generation, revision |-> revision, blocks |-> BlocksFor(db, p, time)]

\* Store.Desired.  The entries that one transaction changes share a revision, which
\* is only compared with other revisions of the same entry.
DesiredUpdated(before, time) ==
  LET db == Refreshed(before, time)
      changed == {k \in ServicesListed(db) :
        \/ db.services[k] = None
        \/ db.services[k] # WantedService(db, k, time, db.services[k].revision)}
      changedSets == {p \in PluginsListed(db) :
        \/ db.blockSets[p] = None
        \/ db.blockSets[p] # WantedBlocks(db, p, time, db.blockSets[p].revision)}
      Bump(revision, set) == IF set = {} THEN revision ELSE revision + 1
  IN  [db EXCEPT
         !.stateRevision = Bump(@, changed),
         !.blockRevision = Bump(@, changedSets),
         !.services = [k \in Keys |->
           IF k \in changed THEN WantedService(db, k, time, db.stateRevision + 1) ELSE @[k]],
         !.blockSets = [p \in Plugins |->
           IF p \in changedSets THEN WantedBlocks(db, p, time, db.blockRevision + 1) ELSE @[p]]]

\* Mutant of ServiceNeedsApply: a state that is the same but for its revision is
\* not applied again.
ServiceNeedsApplySameState(db, k, instance) ==
  LET applied == db.appliedServices[k]
  IN  \/ applied = None
      \/ applied.instance # instance
      \/ [applied.desired EXCEPT !.revision = 0] # [db.services[k] EXCEPT !.revision = 0]

\* Mutant of BlocksNeedApply: blocks that another process has are not sent again.
BlocksNeedApplyAnyInstance(db, p, instance) ==
  db.appliedBlocks[p] = None \/ db.appliedBlocks[p].desired # db.blockSets[p]

\* ServiceNeedsApply and BlocksNeedApply.
ServiceNeedsApply(db, k, instance) ==
  db.appliedServices[k] # [instance |-> instance, desired |-> db.services[k]]
BlocksNeedApply(db, p, instance) ==
  db.appliedBlocks[p] # [instance |-> instance, desired |-> db.blockSets[p]]

\* MarkServiceApplied: an orphan that is off is done with.
ServiceApplied(db, k, instance) ==
  LET marked == [db EXCEPT !.appliedServices[k] =
                   [instance |-> instance, desired |-> db.services[k]]]
  IN  IF db.services[k].orphan
      THEN [marked EXCEPT !.orphans = @ \ {k}, !.services[k] = None] ELSE marked

\* MarkBlocksApplied.
BlocksApplied(db, p, instance) ==
  [db EXCEPT !.appliedBlocks[p] = [instance |-> instance, desired |-> db.blockSets[p]]]

-----------------------------------------------------------------------------
(* Statuses.                                                               *)

\* Mutant of AuthorizationApplied: one of the plugins is enough.
AuthorizationAppliedSome(db, a, instances) ==
  \E p \in Policies(db)[a].bindings :
    instances[p] # None /\ db.services[a, p] # None /\ ~ServiceNeedsApply(db, <<a, p>>, instances[p])

\* authorizationApplied.
AuthorizationApplied(db, a, instances) ==
  /\ \A k \in db.orphans : k[1] # a
  /\ \A p \in Policies(db)[a].bindings :
       /\ instances[p] # None
       /\ db.services[<<a, p>>] # None
       /\ ~ServiceNeedsApply(db, <<a, p>>, instances[p])
       /\ db.blockSets[p] # None => ~BlocksNeedApply(db, p, instances[p])

StatusOf(db, a, time) ==
  [generation |-> db.snapshot.generation, period |-> db.ledgers[a].period,
   bytes |-> db.ledgers[a].bytes, reason |-> ReasonFor(db, a, time),
   active |-> IF a \in Limited(db) THEN Cardinality(SlotsOf(db, a)) ELSE 0,
   blocked |-> IF a \in Limited(db) THEN Cardinality(BlocksOf(db, a)) ELSE 0]

\* RefreshStatuses with updateStatus and activityCounts.
StatusesRefreshed(before, instances, time) ==
  LET db == Refreshed(before, time)
      New(a) == /\ a \in Authorized(db)
                /\ AuthorizationApplied(db, a, instances)
                /\ db.statuses[a] = None \/ db.statuses[a].event # StatusOf(db, a, time)
  IN  [db EXCEPT !.statuses = [a \in Authorizations |->
         IF New(a) THEN [event |-> StatusOf(db, a, time), queued |-> FALSE] ELSE @[a]]]

\* PendingStatuses and MarkStatusQueued.
UnqueuedStatuses(db) ==
  {a \in Authorizations : db.statuses[a] # None /\ ~db.statuses[a].queued}
StatusQueued(db, a) == [db EXCEPT !.statuses[a].queued = TRUE]
=============================================================================
