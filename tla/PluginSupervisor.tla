-------------------------- MODULE PluginSupervisor --------------------------
(***************************************************************************)
(* The plugin supervisor, internal/plugin/supervisor.go, with the          *)
(* processes it runs (process.go), for one plugin.                         *)
(*                                                                         *)
(* The plugin's actor is a mutex around the process in charge.  Its        *)
(* holders are Start, executeReconcile, the goroutines started by watch,   *)
(* one for every process, the goroutines in retryRecovery, and Close.  A   *)
(* holder keeps the mutex over downloads, RPCs and stops; meanwhile        *)
(* processes exit, watches notice it, and the Agent is cancelled or        *)
(* crashes.  The variable op is the holder and how far it has got.         *)
(*                                                                         *)
(* The plugin process is external: it starts or not, accepts its           *)
(* configuration or not, and may exit or turn unhealthy at any time.       *)
(***************************************************************************)
EXTENDS PluginState

CONSTANTS
  MaxProcesses,   \* bound on the processes that exist at a time
  MaxRetries,     \* bound on goroutines in retryRecovery when a command begins
  StopMayFail,    \* may stop fail, at its SIGKILL or at the socket?
  MaxFaults       \* bound on failures of any kind

ASSUME PluginSupervisorAssumption ==
  /\ MaxProcesses \in Nat
  /\ MaxRetries \in Nat
  /\ StopMayFail \in BOOLEAN
  /\ MaxFaults \in Nat
  /\ None \notin Nat

Processes == 1 .. MaxProcesses

VARIABLES
  agent,      \* "up", "cancelled" (context), "closing" (Close), "closed" or "down"
  procs,      \* the plugin's processes
  inCharge,   \* actor.process
  watch,      \* the goroutine of watch, per process
  retries,    \* how many goroutines wait in retryRecovery
  op,         \* the holder of actor.mu
  data,       \* does the plugin's private data directory exist?
  reported,   \* the last plugin.status event
  stopFailed, \* history: has a stop failed since the Agent was started?
  faults      \* how many faults have happened

stateVars == <<stored, states, releases>>
vars == <<stateVars, agent, procs, inCharge, watch, retries, op, data, reported,
          stopFailed, faults>>

-----------------------------------------------------------------------------
(* Types.                                                                  *)

\* configured: ApplyConfiguration succeeded and the plugin reported healthy.
Process == [status : {"alive", "exited", "gone"},
            revision : Revision \cup {None},
            configured : BOOLEAN, ready : BOOLEAN, stuck : BOOLEAN]

NoProcess == [status |-> "gone", revision |-> None,
              configured |-> FALSE, ready |-> FALSE, stuck |-> FALSE]

Status == [state : {"running", "stopped", "absent", "failed"}, generation : Nat]
\* No event so far; the latest could not be queued.
Silent == [state |-> "silent", generation |-> 0]
Lost   == [state |-> "lost", generation |-> 0]

StatusOf(revision) == [state |-> revision.state, generation |-> revision.generation]
Failed(revision)   == [state |-> "failed", generation |-> revision.generation]

OpKinds == {"none", "start", "reconcile", "ensure", "rollback", "watch", "retry"}
OpPcs == {"idle", "fetch", "detach", "launch", "configure", "stop", "abort", "commit",
          "rollback", "remove", "emit"}
Op == [kind : OpKinds, pc : OpPcs,
       revision : Revision \cup {None},   \* the revision it works on
       previous : Revision \cup {None},   \* the one to fall back to
       process : Processes \cup {None},   \* the process it has started
       status : Status \cup {Silent},     \* the event it is about to queue
       prune : BOOLEAN]                   \* does pruneReleases follow?

Idle == [kind |-> "none", pc |-> "idle", revision |-> None, previous |-> None,
         process |-> None, status |-> Silent, prune |-> FALSE]

TypeOK ==
  /\ StateTypeOK
  /\ agent \in {"up", "cancelled", "closing", "closed", "down"}
  /\ procs \in [Processes -> Process]
  /\ inCharge \in Processes \cup {None}
  /\ watch \in [Processes -> {"none", "select", "exit", "unhealthy"}]
  /\ retries \in Nat
  /\ op \in Op
  /\ data \in BOOLEAN
  /\ reported \in Status \cup {Silent, Lost}
  /\ stopFailed \in BOOLEAN
  /\ faults \in 0 .. MaxFaults

Init ==
  /\ StateInit
  /\ agent = "down"
  /\ procs = [p \in Processes |-> NoProcess]
  /\ inCharge = None
  /\ watch = [p \in Processes |-> "none"]
  /\ retries = 0
  /\ op = Idle
  /\ data = FALSE
  /\ reported = Silent
  /\ stopFailed = FALSE
  /\ faults = 0

-----------------------------------------------------------------------------
(* What the steps are made of.                                             *)

Fault == faults < MaxFaults /\ faults' = faults + 1

\* A call under a context of the Agent: it fails for a reason of its own, or
\* because the context is cancelled.
CallFails == \/ agent = "up" /\ Fault
             \/ agent # "up" /\ UNCHANGED faults

Alive(p)  == procs[p].status = "alive"
Exited(p) == ~Alive(p)
Free(p)   == Exited(p) /\ watch[p] = "none" /\ p # inCharge /\ p # op.process

Unlocked == op.pc = "idle"

\* The holder returns; it goes on to queue a status event and returns then.
Return == op' = Idle
EmitAndReturn(status) == op' = [Idle EXCEPT !.pc = "emit", !.status = status]
Goto(pc) == op' = [op EXCEPT !.pc = pc]

\* A process that has ended is kept as long as its watch runs.
Ended(p) == IF watch[p] = "none" THEN NoProcess ELSE [procs[p] EXCEPT !.status = "exited"]

\* managedProcess.stop: SIGTERM, then SIGKILL, then the socket is removed.
StopSucceeds(p) == procs' = [procs EXCEPT ![p] = Ended(p)] /\ UNCHANGED stopFailed

\* It fails with the process still there, or with the process gone and only
\* the socket left.
StopFails(p) ==
  /\ StopMayFail
  /\ Fault
  /\ stopFailed' = TRUE
  /\ \/ Alive(p) /\ procs' = [procs EXCEPT ![p].stuck = TRUE]
     \/ procs' = [procs EXCEPT ![p] = Ended(p)]

\* processRuntime.start has a process answer with its identity.
Spawn(p, revision) ==
  /\ Free(p)
  /\ \A q \in Processes : Free(q) => p <= q
  /\ procs' = [procs EXCEPT ![p] = [NoProcess EXCEPT !.status = "alive",
                                                     !.revision = revision]]
  /\ data' = TRUE

\* processRuntime.start fails, or the release does not pass its verification.
\* If the process was started and cannot be stopped, nobody knows of it any
\* more, and it is not among procs.
SpawnFails ==
  /\ data' \in {data, TRUE}
  /\ \/ CallFails /\ UNCHANGED <<procs, stopFailed>>
     \/ op.revision.release \notin releases /\ UNCHANGED <<procs, stopFailed, faults>>
     \/ StopMayFail /\ Fault /\ stopFailed' = TRUE /\ UNCHANGED procs

\* The process is in charge and offered to the rest of the Agent, and its
\* watch starts.
TakesCharge(p, configured) ==
  /\ inCharge' = p
  /\ procs' = [procs EXCEPT ![p].ready = TRUE, ![p].configured = configured]
  /\ watch' = [watch EXCEPT ![p] = "select"]

-----------------------------------------------------------------------------
(* The Agent.                                                              *)

\* NewSupervisor and Start: a plugin that should run is started, the status of
\* one that should not is reported.
Boot ==
  /\ agent = "down"
  /\ agent' = "up"
  /\ states' = stored
  /\ LET current == stored.current
     IN  op' = IF current = None THEN Idle
               ELSE IF WantsProcess(current)
               THEN [Idle EXCEPT !.kind = "start", !.pc = "launch", !.revision = current]
               ELSE [Idle EXCEPT !.pc = "emit",
                                 !.status = IF Installed(current) /\ current.release \notin releases
                                            THEN Failed(current) ELSE StatusOf(current)]
  /\ stopFailed' = FALSE
  /\ UNCHANGED <<stored, releases, procs, inCharge, watch, retries, data, reported, faults>>

\* Nothing of the process is left; the plugin's processes are its children and
\* get a signal when it dies.
Gone ==
  /\ agent' = "down"
  /\ procs' = [p \in Processes |-> NoProcess]
  /\ inCharge' = None
  /\ watch' = [p \in Processes |-> "none"]
  /\ retries' = 0
  /\ op' = Idle
  /\ states' = NoFile
  /\ UNCHANGED <<stored, releases, data, reported, stopFailed>>

Crash == agent # "down" /\ Fault /\ Gone

\* SIGTERM, a failed worker or a command conflict cancels the workers.
Cancel ==
  /\ agent = "up"
  /\ Fault
  /\ agent' = "cancelled"
  /\ UNCHANGED <<stateVars, procs, inCharge, watch, retries, op, data, reported, stopFailed>>

\* Close: the flag that isRunning reads, then the mutex of the actor.
Close ==
  /\ agent = "cancelled"
  /\ agent' = "closing"
  /\ UNCHANGED <<stateVars, procs, inCharge, watch, retries, op, data, reported,
                 stopFailed, faults>>

\* Mutant of CloseActor: the process is read without the mutex.
CloseActorUnlocked ==
  /\ agent = "closing"
  /\ agent' = "closed"
  /\ inCharge' = None
  /\ IF inCharge = None
     THEN UNCHANGED <<procs, stopFailed, faults>>
     ELSE StopSucceeds(inCharge) /\ UNCHANGED faults
  /\ UNCHANGED <<stateVars, watch, retries, op, data, reported>>

CloseActor ==
  /\ agent = "closing"
  /\ Unlocked
  /\ agent' = "closed"
  /\ inCharge' = None
  /\ \/ inCharge = None /\ UNCHANGED <<procs, stopFailed, faults>>
     \/ inCharge # None /\ StopSucceeds(inCharge) /\ UNCHANGED faults
     \/ inCharge # None /\ StopFails(inCharge)
  /\ UNCHANGED <<stateVars, watch, retries, op, data, reported>>

\* The workers have ended too.
Exit == agent = "closed" /\ Unlocked /\ Gone /\ UNCHANGED faults

-----------------------------------------------------------------------------
(* The plugin process (external).                                          *)

\* It exits by itself, or at last of the SIGKILL.
ProcessExits(p) ==
  /\ Alive(p)
  /\ \/ procs[p].stuck /\ UNCHANGED faults
     \/ Fault
  /\ procs' = [procs EXCEPT ![p] = IF watch[p] = "none" /\ p # inCharge /\ p # op.process
                                   THEN NoProcess ELSE [@ EXCEPT !.status = "exited"]]
  /\ UNCHANGED <<stateVars, agent, inCharge, watch, retries, op, data, reported, stopFailed>>

-----------------------------------------------------------------------------
(* watch.                                                                  *)

WatchFrame == UNCHANGED <<stateVars, agent, inCharge, retries, op, data, reported, stopFailed>>

WatchSeesExit(p) ==
  /\ watch[p] = "select"
  /\ Exited(p)
  /\ watch' = [watch EXCEPT ![p] = "exit"]
  /\ WatchFrame
  /\ UNCHANGED <<procs, faults>>

\* The third failed health check in a row: the plugin has failed, or the context
\* of the checks is cancelled, ...
WatchSeesUnhealthy(p) ==
  /\ watch[p] = "select"
  /\ CallFails
  /\ watch' = [watch EXCEPT ![p] = "unhealthy"]
  /\ WatchFrame
  /\ UNCHANGED procs

\* Mutant of WatchSeesMismatch: the generation and the digest of the
\* configuration are not compared.
WatchSeesStuck(p) ==
  /\ watch[p] = "select"
  /\ procs[p].stuck
  /\ watch' = [watch EXCEPT ![p] = "unhealthy"]
  /\ WatchFrame
  /\ UNCHANGED <<procs, faults>>

\* ... or it reports another configuration than the current one, or its
\* connection was closed by a stop.
WatchSeesMismatch(p) ==
  /\ watch[p] = "select"
  /\ ~procs[p].configured \/ procs[p].revision # states.current \/ procs[p].stuck
  /\ watch' = [watch EXCEPT ![p] = "unhealthy"]
  /\ WatchFrame
  /\ UNCHANGED <<procs, faults>>

\* The watch has the mutex and another process is in charge, or none.
WatchOfOther(p) ==
  /\ watch[p] \in {"exit", "unhealthy"}
  /\ Unlocked
  /\ inCharge # p
  /\ watch' = [watch EXCEPT ![p] = "none"]
  /\ procs' = [procs EXCEPT ![p] = IF Alive(p) THEN @ ELSE NoProcess]
  /\ WatchFrame
  /\ UNCHANGED faults

\* The process in charge is gone, or stopped because it was unhealthy: the
\* failure is counted and reported, and retryRecovery starts.  If counting it
\* fails it is not reported.
WatchRestarts(p) ==
  /\ watch[p] \in {"exit", "unhealthy"}
  /\ Unlocked
  /\ inCharge = p
  /\ inCharge' = None
  /\ watch' = [watch EXCEPT ![p] = "none"]
  /\ procs' = [procs EXCEPT ![p] = NoProcess]
  /\ retries' = retries + 1
  /\ \/ /\ WantsProcess(states.current)
        /\ Save(states)
        /\ EmitAndReturn(Failed(states.current))
        /\ UNCHANGED faults
     \/ /\ WantsProcess(states.current)
        /\ Fault
        /\ SaveFails(states)
        /\ UNCHANGED op
     \/ ~WantsProcess(states.current) /\ UNCHANGED <<stored, states, op, faults>>
  /\ UNCHANGED <<agent, releases, data, reported, stopFailed>>

\* The unhealthy process outlives its SIGKILL: it stays in charge, and a new
\* watch waits for it.
WatchCannotStop(p) ==
  /\ watch[p] = "unhealthy"
  /\ Unlocked
  /\ inCharge = p
  /\ Alive(p)
  /\ StopMayFail
  /\ Fault
  /\ stopFailed' = TRUE
  /\ procs' = [procs EXCEPT ![p].stuck = TRUE]
  /\ watch' = [watch EXCEPT ![p] = "select"]
  /\ IF states.current = None THEN UNCHANGED op ELSE EmitAndReturn(Failed(states.current))
  /\ UNCHANGED <<stateVars, agent, inCharge, retries, data, reported>>

-----------------------------------------------------------------------------
(* retryRecovery.                                                          *)

\* Mutant of Recoverable: a process may be in charge.
RecoverableAnyway == WantsProcess(states.current) /\ agent \in {"up", "cancelled"}

\* What it checks once the delay is over and it has the mutex.
Recoverable == WantsProcess(states.current) /\ inCharge = None /\ agent \in {"up", "cancelled"}

\* It gives up: there is nothing to recover, or the context is cancelled.
RetryEnds ==
  /\ retries > 0
  /\ \/ agent # "up"
     \/ Unlocked /\ ~Recoverable
  /\ retries' = retries - 1
  /\ UNCHANGED <<stateVars, agent, procs, inCharge, watch, op, data, reported,
                 stopFailed, faults>>

\* It starts the current revision, and waits again if that fails.
RetryStarts ==
  /\ retries > 0
  /\ Unlocked
  /\ Recoverable
  /\ op' = [Idle EXCEPT !.kind = "retry", !.pc = "launch", !.revision = states.current]
  /\ retries' = retries - 1
  /\ UNCHANGED <<stateVars, agent, procs, inCharge, watch, data, reported,
                 stopFailed, faults>>

-----------------------------------------------------------------------------
(* executeReconcile and the functions it calls.                            *)

\* After prepare.  A pending request is written again if its URL is new; a
\* stale generation and a conflict are refused and change nothing.
Begin(request, file) ==
  /\ \E left \in SUBSET releases : Pruned(file, left) /\ releases' = left
  /\ op' = [Idle EXCEPT
              !.kind = IF IsCurrent(request) THEN "ensure" ELSE "reconcile",
              !.pc = IF request.state = "absent" THEN "detach" ELSE "fetch",
              !.revision = request,
              !.previous = file.current]

\* The bounds: as long as the watches of two old processes, or several retries,
\* wait for the mutex, no further command gets it.
Room ==
  /\ retries <= MaxRetries
  /\ \E p, q \in Processes : p # q /\ Free(p) /\ Free(q)

Reconcile(request) ==
  LET file == IF IsNew(request) THEN Prepared(request) ELSE states
  IN  /\ agent \in {"up", "cancelled"}
      /\ Unlocked
      /\ Room
      /\ \/ /\ IsNew(request) \/ IsPending(request)
            /\ Save(file)
            /\ Begin(request, file)
            /\ UNCHANGED faults
         \/ /\ IsNew(request) \/ IsPending(request)
            /\ Fault
            /\ SaveFails(file)
            /\ UNCHANGED <<op, releases>>
         \/ /\ IsCurrent(request) \/ IsPending(request)
            /\ Begin(request, file)
            /\ UNCHANGED <<stored, states, faults>>
      /\ UNCHANGED <<agent, procs, inCharge, watch, retries, data, reported, stopFailed>>

\* installer.fetch.  A release that is there is only verified again.  If the
\* current revision runs, ensureCurrent has no more to do.  A failing sync of the
\* directory leaves the release behind.
Fetch ==
  /\ op.pc = "fetch"
  /\ \/ /\ agent = "up" \/ op.revision.release \in releases
        /\ releases' = releases \cup {op.revision.release}
        /\ IF op.kind = "ensure" /\ op.revision.state = "running"
           THEN IF inCharge # None /\ Alive(inCharge)
                THEN EmitAndReturn(StatusOf(op.revision))
                ELSE Goto("launch")
           ELSE Goto("detach")
        /\ UNCHANGED faults
     \/ /\ CallFails
        /\ \/ UNCHANGED releases
           \/ agent = "up" /\ releases' = releases \cup {op.revision.release}
        /\ Return
  /\ UNCHANGED <<stored, states, agent, procs, inCharge, watch, retries, data, reported,
                 stopFailed>>

\* Mutant of Detach: the process in charge is left running.
DetachNothing ==
  /\ op.pc = "detach"
  /\ IF op.revision.state = "absent" THEN Goto("commit") ELSE Goto("launch")
  /\ UNCHANGED <<stateVars, agent, procs, inCharge, watch, retries, data, reported,
                 stopFailed, faults>>

\* detachAndStop.  A process that could not be stopped stays in charge, one
\* that has exited does not; in both cases the caller gives up.
Detach ==
  /\ op.pc = "detach"
  /\ \/ /\ inCharge # None => StopSucceeds(inCharge)
        /\ inCharge = None => UNCHANGED <<procs, stopFailed>>
        /\ inCharge' = None
        /\ IF op.kind = "ensure"
           THEN IF op.revision.state = "absent" THEN Goto("remove")
                                                ELSE EmitAndReturn(StatusOf(op.revision))
           ELSE IF op.revision.state = "absent" THEN Goto("commit") ELSE Goto("launch")
        /\ UNCHANGED faults
     \/ /\ inCharge # None
        /\ StopFails(inCharge)
        /\ inCharge' = IF procs'[inCharge].status = "alive" THEN inCharge ELSE None
        /\ Return
  /\ UNCHANGED <<stateVars, agent, watch, retries, data, reported>>

\* runtime.start: for a new revision, or in startRevision for a committed one.
LaunchFailed ==
  \/ op.kind = "reconcile" /\ Goto("rollback") /\ UNCHANGED retries
  \/ op.kind = "ensure" /\ Return /\ UNCHANGED retries
  \/ /\ op.kind \in {"start", "rollback", "retry"}
     /\ EmitAndReturn(Failed(op.revision))
     /\ retries' = retries + 1

Launch ==
  /\ op.pc = "launch"
  /\ \/ /\ agent = "up"
        /\ op.revision.release \in releases
        /\ \E p \in Processes :
             /\ Spawn(p, op.revision)
             /\ op' = [op EXCEPT !.pc = "configure", !.process = p]
        /\ UNCHANGED <<retries, stopFailed, faults>>
     \/ SpawnFails /\ LaunchFailed
  /\ UNCHANGED <<stateVars, agent, inCharge, watch, reported>>

\* validate and apply: the plugin takes the configuration and turns healthy.
Configures == Alive(op.process) /\ agent = "up" /\ UNCHANGED faults
ConfigureFails ==
  \/ CallFails
  \/ Exited(op.process) /\ UNCHANGED faults

\* Mutant of ConfigureRevision: the status of the restarted plugin is not queued.
ConfigureRevisionSilently ==
  /\ op.pc = "configure"
  /\ op.kind # "reconcile"
  /\ \/ Configures /\ TakesCharge(op.process, TRUE)
     \/ ConfigureFails /\ TakesCharge(op.process, FALSE)
  /\ Return
  /\ UNCHANGED <<stateVars, agent, retries, data, reported, stopFailed>>

\* The end of startRevision.  The error of validate and apply is assigned to
\* an inner variable and lost: the process is taken as ready in any case.
ConfigureRevision ==
  /\ op.pc = "configure"
  /\ op.kind # "reconcile"
  /\ \/ Configures /\ TakesCharge(op.process, TRUE)
     \/ ConfigureFails /\ TakesCharge(op.process, FALSE)
  /\ EmitAndReturn(StatusOf(op.revision))
  /\ UNCHANGED <<stateVars, agent, retries, data, reported, stopFailed>>

\* A candidate for the stopped state is only asked to validate.
ConfigureCandidate ==
  /\ op.pc = "configure"
  /\ op.kind = "reconcile"
  /\ \/ /\ Configures
        /\ op.revision.state = "running"
        /\ procs' = [procs EXCEPT ![op.process].configured = TRUE]
        /\ Goto("commit")
     \/ /\ Configures
        /\ op.revision.state = "stopped"
        /\ Goto("stop")
        /\ UNCHANGED procs
     \/ /\ ConfigureFails
        /\ Goto("abort")
        /\ UNCHANGED procs
  /\ UNCHANGED <<stateVars, agent, inCharge, watch, retries, data, reported, stopFailed>>

\* The candidate is stopped, to be committed or because it failed.  If that
\* is not possible it is put in charge, not ready and without a watch.
StopCandidate ==
  /\ op.pc \in {"stop", "abort"}
  /\ \/ /\ StopSucceeds(op.process)
        /\ op' = [op EXCEPT !.process = None,
                            !.pc = IF op.pc = "stop" THEN "commit" ELSE "rollback"]
        /\ UNCHANGED <<inCharge, faults>>
     \/ /\ StopFails(op.process)
        /\ inCharge' = op.process
        /\ Return
  /\ UNCHANGED <<stateVars, agent, watch, retries, data, reported>>

Commit ==
  /\ op.pc = "commit"
  /\ \/ /\ Save(Committed(op.revision))
        /\ IF op.revision.state = "absent"
           THEN Goto("remove")
           ELSE op' = [Idle EXCEPT !.pc = "emit", !.status = StatusOf(op.revision),
                                   !.prune = TRUE]
        /\ IF op.process # None THEN TakesCharge(op.process, TRUE)
                                ELSE UNCHANGED <<inCharge, procs, watch>>
        /\ UNCHANGED faults
     \/ /\ Fault
        /\ SaveFails(Committed(op.revision))
        /\ Goto(IF op.process # None THEN "abort" ELSE "rollback")
        /\ UNCHANGED <<inCharge, procs, watch>>
  /\ UNCHANGED <<releases, agent, retries, data, reported, stopFailed>>

\* Mutant of Rollback: a running revision is reported but not started again.
RollbackReports ==
  /\ op.pc = "rollback"
  /\ IF op.previous = None THEN Return ELSE EmitAndReturn(StatusOf(op.previous))
  /\ UNCHANGED <<stateVars, agent, procs, inCharge, watch, retries, data, reported,
                 stopFailed, faults>>

Rollback ==
  /\ op.pc = "rollback"
  /\ IF op.previous = None THEN Return
     ELSE IF WantsProcess(op.previous)
     THEN op' = [Idle EXCEPT !.kind = "rollback", !.pc = "launch", !.revision = op.previous]
     ELSE EmitAndReturn(StatusOf(op.previous))
  /\ UNCHANGED <<stateVars, agent, procs, inCharge, watch, retries, data, reported,
                 stopFailed, faults>>

\* removePluginData.
Remove ==
  /\ op.pc = "remove"
  /\ \/ /\ releases' = {}
        /\ data' = FALSE
        /\ EmitAndReturn(StatusOf(op.revision))
        /\ UNCHANGED faults
     \/ /\ Fault
        /\ releases' \in SUBSET releases
        /\ data' \in {data, FALSE}
        /\ IF op.kind = "ensure" THEN Return ELSE EmitAndReturn(Failed(op.revision))
  /\ UNCHANGED <<stored, states, agent, procs, inCharge, watch, retries, reported, stopFailed>>

\* The status event enters the event queue, or does not; the releases are
\* pruned after a transition that was reported.
Emit ==
  /\ op.pc = "emit"
  /\ \/ /\ reported' = op.status
        /\ \E left \in SUBSET releases :
             /\ IF op.prune THEN Pruned(states, left) ELSE left = releases
             /\ releases' = left
        /\ UNCHANGED faults
     \/ /\ Fault
        /\ reported' = Lost
        /\ UNCHANGED releases
  /\ Return
  /\ UNCHANGED <<stored, states, agent, procs, inCharge, watch, retries, data, stopFailed>>

-----------------------------------------------------------------------------

Holder ==
  \/ Fetch \/ Detach \/ Launch \/ ConfigureRevision \/ ConfigureCandidate
  \/ StopCandidate \/ Commit \/ Rollback \/ Remove \/ Emit

Next ==
  \/ Boot \/ Crash \/ Cancel \/ Close \/ CloseActor \/ Exit
  \/ Holder
  \/ RetryEnds \/ RetryStarts
  \/ \E request \in Requests : Reconcile(request)
  \/ \E p \in Processes :
       \/ ProcessExits(p)
       \/ WatchSeesExit(p) \/ WatchSeesUnhealthy(p) \/ WatchSeesMismatch(p)
       \/ WatchOfOther(p) \/ WatchRestarts(p) \/ WatchCannotStop(p)

Spec == Init /\ [][Next]_vars

(* Fairness.  The goroutines are scheduled and every call has a deadline;  *)
(* Go's mutex hands over to a goroutine that has waited, so a waiting      *)
(* watch or retry gets it (SF).  Nothing is assumed of the center, of the  *)
(* plugin process, of the end of the Agent, or of faults.                  *)
Fairness ==
  /\ WF_vars(Holder)
  /\ SF_vars(RetryStarts)
  /\ WF_vars(\E p \in Processes : WatchSeesExit(p))
  /\ WF_vars(\E p \in Processes : WatchSeesMismatch(p))
  /\ SF_vars(\E p \in Processes : WatchRestarts(p))

FairSpec == Spec /\ Fairness

-----------------------------------------------------------------------------
(* Properties.                                                             *)

\* A process offered to the rest of the Agent by RunningPlugins.
Served(p) == inCharge = p /\ procs[p].ready /\ Alive(p)

\* Never are two processes of the plugin alive: reconcile, rollback, recovery
\* and a repeated command start one only when the last is stopped.  A process
\* that outlived its SIGKILL does not count.
OneProcess ==
  \A p, q \in Processes :
    Alive(p) /\ Alive(q) /\ ~procs[p].stuck /\ ~procs[q].stuck => p = q

\* When Close has returned no process is left, although a holder of the mutex
\* was about to start one.
NoneSurvivesClose ==
  agent = "closed" => \A p \in Processes : Alive(p) => procs[p].stuck

\* The release of the current and of the previous revision, as a restart would
\* read them from the file and as they are in memory, is never pruned.
ReleasesRetained ==
  \A file \in {stored, states} : \A revision \in {file.current, file.previous} :
    Installed(revision) => revision.release \in releases

\* A candidate that was never committed is not offered to the Agent, and no
\* process is once its plugin is stopped or absent, not even while somebody holds
\* the mutex.
ServedIsCommitted ==
  \A p \in Processes :
    Served(p) => WantsProcess(states.current) /\ procs[p].revision = states.current

\* The last status event that was queued says that the plugin runs while a
\* healthy process of it does.
ServedIsReported ==
  Unlocked => \A p \in Processes :
    Served(p) /\ ~procs[p].stuck /\ reported # Lost
      => reported = StatusOf(procs[p].revision)

\* A committed revision that should run has a watched process, or somebody
\* about to start one, whenever nobody holds the mutex.
Supervised ==
  (Unlocked /\ agent = "up" /\ WantsProcess(states.current)) =>
    \/ retries > 0
    \/ inCharge # None /\ watch[inCharge] # "none"

\* ... unless a process could not be stopped cleanly.
SupervisedUnlessStopFailed == stopFailed \/ Supervised

\* A plugin that should run does so again, with its configuration, after any
\* failures of its own and of transitions to other revisions: what recovery
\* lets through unconfigured the health checks find.
Recovers ==
  (agent = "up" /\ WantsProcess(states.current) /\ ~stopFailed)
    ~> \/ \E p \in Processes : Served(p) /\ procs[p].configured
       \/ agent # "up" \/ stopFailed \/ ~WantsProcess(states.current)

\* A process that is offered to the rest of the Agent has applied its
\* configuration and was healthy with it.
ServedIsConfigured == \A p \in Processes : Served(p) => procs[p].configured
=============================================================================
