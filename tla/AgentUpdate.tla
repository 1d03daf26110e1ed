---------------------------- MODULE AgentUpdate -----------------------------
(***************************************************************************)
(* Self-update of the Agent: internal/update/manager.go and executor.go,   *)
(* the parts of internal/agent/client.go that call them, and the stable    *)
(* launcher deploy/relayward-agent-launcher.                               *)
(*                                                                         *)
(* The state directory holds two links to installed binaries (current,     *)
(* previous) and up to three state files (pending, confirmed, failed).     *)
(* An update command installs a candidate, records it as pending, points   *)
(* current at it and asks for a restart.  The candidate is confirmed by    *)
(* its first acknowledged heartbeat; a process that ends with the update   *)
(* still pending is rolled back by the launcher.                           *)
(*                                                                         *)
(* Four goroutines of one process (executor, session, watchdog, any other  *)
(* worker), the launcher and the service manager act on these files, and   *)
(* process, launcher and machine may die between any two steps.            *)
(***************************************************************************)
EXTENDS Naturals, FiniteSets

CONSTANTS
  Binaries,     \* released binaries, one per version and checksum
  VersionOf,    \* the version a binary reports
  Installed,    \* the binary the installer put in place
  Healthy,      \* binaries that start and reach the center
  Commands,     \* update commands, numbered in the order of their receipt
  Target,       \* the binary that the release named by a command contains
  Retained,     \* retainedVersions
  SyncMayFail,  \* may fsync of the directory fail after a rename?
  MaxFaults,    \* bound on crashes, failures and terminations
  None

\* The content of a state file.
State == [cmd : Commands, prev : Binaries, target : Binaries]

ASSUME AgentUpdateAssumption ==
  /\ IsFiniteSet(Binaries)
  /\ Installed \in Binaries
  /\ Installed \in Healthy
  /\ Healthy \subseteq Binaries
  /\ Commands \subseteq Nat
  /\ Target \in [Commands -> Binaries]
  /\ Retained \in Nat
  /\ SyncMayFail \in BOOLEAN
  /\ MaxFaults \in Nat
  /\ None \notin Binaries /\ None \notin Commands /\ None \notin State

VARIABLES
  current,    \* link: the binary the launcher runs
  previous,   \* link: the binary to go back to
  pending,    \* update-pending.json
  confirmed,  \* update-confirmed.json
  failed,     \* update-failed.json
  installed,  \* the versions directory: each binary's place by age, 1 for the oldest, or 0
  launcher,   \* the launcher: where it is, what it ran, how that ended
  alive,      \* is the process the launcher started running?
  stop,       \* why its workers were stopped
  exec,       \* Processor.Run and the executor: where, and with which command
  watch,      \* AwaitActivation: where, and for which command
  sess,       \* the session: "confirm" between an acknowledgement and Confirm
  accepted,   \* commands in the command store
  expired,    \* commands whose deadline has passed
  results,    \* results in the command store
  acked,      \* history: binaries that had a heartbeat acknowledged
  faults

files == <<current, previous, pending, confirmed, failed, installed>>
process == <<alive, stop, exec, watch, sess>>
commandVars == <<accepted, expired, results>>
vars == <<current, previous, pending, confirmed, failed, installed, launcher, alive, stop,
          exec, watch, sess, accepted, expired, results, acked, faults>>

ExecPcs == {"idle", "observe", "install", "prune", "lock", "link", "clear", "write",
            "switch", "reclear", "rewrite", "done"}
WatchPcs == {"start", "watching", "sawPending", "done"}
LauncherPcs == {"off", "start", "wait", "exited", "rollback", "mark", "term"}

TypeOK ==
  /\ current \in Binaries
  /\ previous \in Binaries \cup {None}
  /\ pending \in State \cup {None}
  /\ confirmed \in State \cup {None}
  /\ failed \in State \cup {None}
  /\ installed \in [Binaries -> Nat]
  /\ launcher \in [pc : LauncherPcs, ran : Binaries \cup {None},
                   status : {"restart", "error", "ok", None}]
  /\ alive \in BOOLEAN
  /\ stop \in {"restart", "error", None}
  /\ exec \in [pc : ExecPcs, cmd : Commands \cup {None}]
  /\ watch \in [pc : WatchPcs, cmd : Commands \cup {None}]
  /\ sess \in {"idle", "confirm"}
  /\ accepted \subseteq Commands
  /\ expired \subseteq Commands
  /\ results \in [Commands -> {"activated", "failed", "expired", None}]
  /\ acked \subseteq Binaries
  /\ faults \in Nat

Init ==
  /\ current = Installed
  /\ previous = None
  /\ pending = None /\ confirmed = None /\ failed = None
  /\ installed = [b \in Binaries |-> IF b = Installed THEN 1 ELSE 0]
  /\ launcher = [pc |-> "off", ran |-> None, status |-> None]
  /\ alive = FALSE
  /\ stop = None
  /\ exec = [pc |-> "idle", cmd |-> None]
  /\ watch = [pc |-> "start", cmd |-> None]
  /\ sess = "idle"
  /\ accepted = {} /\ expired = {}
  /\ results = [c \in Commands |-> None]
  /\ acked = {Installed}
  /\ faults = 0

Fault == faults < MaxFaults /\ faults' = faults + 1

Version == VersionOf[launcher.ran]

\* The binaries in the versions directory.
Present == {b \in Binaries : installed[b] > 0}

-----------------------------------------------------------------------------
(* The service manager and the launcher.                                   *)

LauncherFrame == UNCHANGED <<commandVars, acked>>

\* The service manager starts the launcher.  An exit with an error is followed by
\* a restart (Restart=on-failure of relayward-agent.service, respawn_max=0 of
\* OpenRC); after a SIGTERM, for which the launcher exits with 0, the operator, a
\* boot or OpenRC has to start it again.
ServiceStart ==
  /\ launcher.pc = "off"
  /\ launcher' = [pc |-> "start", ran |-> None, status |-> None]
  /\ LauncherFrame
  /\ UNCHANGED <<files, process, faults>>

\* The head of the loop: the binary behind current is started.
LauncherRun ==
  /\ launcher.pc = "start"
  /\ current \in Present
  /\ launcher' = [pc |-> "wait", ran |-> current, status |-> None]
  /\ alive' = TRUE
  /\ stop' = None
  /\ exec' = [pc |-> "idle", cmd |-> None]
  /\ watch' = [pc |-> "start", cmd |-> None]
  /\ sess' = "idle"
  /\ LauncherFrame
  /\ UNCHANGED <<files, faults>>

\* Mutant of UpdateFailed: every error exit is taken for a failed update.
UpdateFailedOnError == launcher.status = "error"

UpdateFailed == pending # None /\ ~(launcher.status = "restart" /\ current # launcher.ran)

\* The process has ended.  Without a pending update the launcher passes the
\* status on; a requested restart into another binary goes ahead.
LauncherPasses ==
  /\ launcher.pc = "exited"
  /\ \/ /\ pending = None
        /\ launcher' = [launcher EXCEPT !.pc = "off"]
     \/ /\ pending # None
        /\ launcher.status = "restart"
        /\ current # launcher.ran
        /\ launcher' = [launcher EXCEPT !.pc = "start"]
  /\ LauncherFrame
  /\ UNCHANGED <<files, process, faults>>

\* Anything else is a failed update: current goes back to previous, and the
\* state file is marked failed.  Only the first of the two is checked.
LauncherRollsBack ==
  /\ launcher.pc = "exited"
  /\ UpdateFailed
  /\ previous # None
  /\ \/ /\ current' = previous
        /\ launcher' = [launcher EXCEPT !.pc = "mark"]
        /\ UNCHANGED faults
     \/ /\ Fault
        /\ launcher' = [launcher EXCEPT !.pc = "off"]
        /\ UNCHANGED current
  /\ LauncherFrame
  /\ UNCHANGED <<previous, pending, confirmed, failed, installed, process>>

LauncherMarksFailed ==
  /\ launcher.pc = "mark"
  /\ launcher' = [launcher EXCEPT !.pc = "start"]
  /\ \/ /\ failed' = pending
        /\ pending' = None
        /\ UNCHANGED faults
     \/ /\ Fault
        /\ UNCHANGED <<failed, pending>>
  /\ LauncherFrame
  /\ UNCHANGED <<current, previous, confirmed, installed, process>>

\* SIGTERM: the launcher hands it on, waits, and exits without a look at the
\* state files.
Terminate ==
  /\ launcher.pc \in {"start", "wait", "exited", "mark"}
  /\ Fault
  /\ launcher' = [launcher EXCEPT !.pc = IF alive THEN "term" ELSE "off"]
  /\ LauncherFrame
  /\ UNCHANGED <<files, process>>

\* Everything in the service's control group dies, or the machine does and keeps
\* what was written: the launcher's ln and mv are not synced, and what a loss of
\* power could take back of them is not modelled.
MachineCrash ==
  /\ launcher.pc # "off"
  /\ Fault
  /\ launcher' = [pc |-> "off", ran |-> None, status |-> None]
  /\ alive' = FALSE
  /\ UNCHANGED <<files, stop, exec, watch, sess>>
  /\ LauncherFrame

Launcher ==
  \/ ServiceStart \/ LauncherRun \/ LauncherPasses \/ LauncherRollsBack
  \/ LauncherMarksFailed \/ Terminate \/ MachineCrash

-----------------------------------------------------------------------------
(* The process.                                                            *)

\* The context of the workers is cancelled.
Cancelled == stop # None \/ launcher.pc = "term"

\* The first error wins (workerFailure holds one).
StopFor(reason) == stop' = IF stop = None THEN reason ELSE stop

Ended(status) ==
  /\ alive' = FALSE
  /\ launcher' = IF launcher.pc = "term" THEN [launcher EXCEPT !.pc = "off"]
                 ELSE [launcher EXCEPT !.pc = "exited", !.status = status]

\* The process dies; an unhealthy binary does so at any time.
AgentCrash ==
  /\ alive
  /\ Fault \/ (launcher.ran \notin Healthy /\ UNCHANGED faults)
  /\ Ended("error")
  /\ LauncherFrame
  /\ UNCHANGED <<files, stop, exec, watch, sess>>

\* Client.Run returns after its workers have.
AgentExit ==
  /\ alive
  /\ Cancelled
  /\ exec.pc = "done"
  /\ watch.pc = "done"
  /\ sess = "idle"
  /\ Ended(IF launcher.pc = "term" THEN "ok" ELSE stop)
  /\ LauncherFrame
  /\ UNCHANGED <<files, stop, exec, watch, sess, faults>>

\* Any other worker fails, or the session meets a command conflict.
WorkerFails ==
  /\ alive
  /\ ~Cancelled
  /\ Fault
  /\ StopFor("error")
  /\ LauncherFrame
  /\ UNCHANGED <<files, launcher, alive, exec, watch, sess>>

Expire(c) ==
  /\ c \notin expired
  /\ expired' = expired \cup {c}
  /\ UNCHANGED <<files, launcher, process, accepted, results, acked, faults>>

\* Prepare holds the manager's mutex from "lock" on.
Locked == exec.pc \in {"link", "clear", "write", "switch", "reclear", "rewrite"}

\* An acknowledged heartbeat: Accept of the command it may carry.  A cancelled
\* context ends the session before its next heartbeat.
NextCommand(c) == c \notin accepted /\ \A e \in Commands \ accepted : c <= e

HeartbeatAcked(command) ==
  /\ alive
  /\ ~Cancelled
  /\ sess = "idle"
  /\ launcher.ran \in Healthy
  /\ command = None \/ (command \in Commands /\ NextCommand(command))
  /\ accepted' = accepted \cup ({command} \ {None})
  /\ acked' = acked \cup {launcher.ran}
  /\ sess' = "confirm"
  /\ UNCHANGED <<files, launcher, alive, stop, exec, watch, expired, results, faults>>

\* Mutant of PendingIsRunning: the version is not compared.
PendingIsCurrent == pending # None /\ current = pending.target

\* Is the pending update the one this process runs?
PendingIsRunning ==
  pending # None /\ VersionOf[pending.target] = Version /\ current = pending.target

\* Confirm, after that and under the mutex.  A pending update that is another
\* version's, or not current, or that cannot be renamed, ends the session.
Confirm ==
  /\ alive
  /\ sess = "confirm"
  /\ ~Locked
  /\ sess' = "idle"
  /\ \/ /\ PendingIsRunning
        /\ confirmed' = pending /\ pending' = None
        /\ UNCHANGED faults
     \/ /\ ~PendingIsRunning
        /\ UNCHANGED <<confirmed, pending, faults>>
     \/ /\ PendingIsRunning /\ Fault
        /\ UNCHANGED <<confirmed, pending>>
  /\ UNCHANGED <<current, previous, failed, installed, launcher, alive, stop, exec, watch,
                 commandVars, acked>>

-----------------------------------------------------------------------------
(* Observe, and the watchdog AwaitActivation.                              *)

\* Observe reads pending, confirmed and failed in this order; only the
\* executor, who calls it, creates a pending state.
Observe(c) ==
  IF pending # None THEN IF pending.cmd = c THEN "pending" ELSE "conflict"
  ELSE IF confirmed # None /\ confirmed.cmd = c THEN "confirmed"
  ELSE IF failed # None /\ failed.cmd = c THEN "failed"
  ELSE "none"

WatchFrame == UNCHANGED <<files, launcher, alive, exec, sess, commandVars, acked, faults>>

WatchAt(pc) == watch' = [watch EXCEPT !.pc = pc]

\* Mutant of WatchStarts: there is no watchdog.
WatchNever ==
  /\ alive
  /\ watch.pc = "start"
  /\ WatchAt("done")
  /\ UNCHANGED stop
  /\ WatchFrame

WatchStarts ==
  /\ alive
  /\ watch.pc = "start"
  /\ \/ pending = None /\ WatchAt("done") /\ UNCHANGED stop
     \/ /\ PendingIsRunning
        /\ watch' = [pc |-> "watching", cmd |-> pending.cmd]
        /\ UNCHANGED stop
     \/ pending # None /\ ~PendingIsRunning /\ WatchAt("done") /\ StopFor("error")
  /\ WatchFrame

\* The watchdog waits as long as its update is pending; it reads the state and
\* the clock one after the other.  When it was slow, and the executor has
\* started on another command, it finds a conflict or no state at all.
WatchLooks ==
  LET observed == Observe(watch.cmd)
  IN  /\ alive
      /\ watch.pc = "watching"
      /\ \/ observed = "confirmed" /\ WatchAt("done") /\ UNCHANGED stop
         \/ observed = "pending" /\ WatchAt("sawPending") /\ UNCHANGED stop
         \/ observed \in {"conflict", "none"} /\ WatchAt("done") /\ StopFor("error")
      /\ WatchFrame

WatchWaits ==
  /\ alive
  /\ watch.pc = "sawPending"
  /\ \/ WatchAt("done") /\ StopFor("error")          \* past the deadline
     \/ WatchAt("watching") /\ UNCHANGED stop        \* state change, or 100 ms
     \/ WatchAt("done") /\ Cancelled /\ UNCHANGED stop
  /\ WatchFrame

Watchdog == WatchStarts \/ WatchLooks \/ WatchWaits

-----------------------------------------------------------------------------
(* Processor.Run and Executor.Execute.                                     *)

ExecFrame == UNCHANGED <<launcher, alive, watch, sess, accepted, expired, acked>>

\* Processor.execute turns a success into a failure once its context is done.
Record(c, result) ==
  /\ results' = [results EXCEPT
       ![c] = IF result = "activated" /\ (Cancelled \/ c \in expired) THEN "failed" ELSE result]
  /\ exec' = [pc |-> "idle", cmd |-> None]

Goto(pc) == exec' = [exec EXCEPT !.pc = pc] /\ UNCHANGED results

Waiting(c) == c \in accepted /\ results[c] = None

\* The oldest command without a result; one that has expired is not executed.
ExecTake(c) ==
  /\ alive
  /\ exec.pc = "idle"
  /\ Waiting(c) /\ \A e \in Commands : Waiting(e) => c <= e
  /\ IF c \in expired
     THEN Record(c, "expired")
     ELSE exec' = [pc |-> "observe", cmd |-> c] /\ UNCHANGED results
  /\ ExecFrame
  /\ UNCHANGED <<files, stop, faults>>

\* Nothing to execute, and the context is cancelled.
ExecDone ==
  /\ alive
  /\ exec.pc = "idle"
  /\ Cancelled
  /\ \A c \in Commands : ~Waiting(c)
  /\ Goto("done")
  /\ ExecFrame
  /\ UNCHANGED <<files, stop, faults>>

\* Mutant of Restart: nobody hears of it.
RestartLost == Goto("done") /\ UNCHANGED stop

Restart == Goto("done") /\ StopFor("restart")

\* The switch of Execute.  A pending update of another version wants a restart;
\* one of this version is waited for until the context ends: it is cancelled, the
\* command expires, or, which counts as a fault, its execution has lasted
\* MaximumCommandExecution (processor.go:126).
ExecObserve ==
  LET c == exec.cmd
      observed == Observe(c)
  IN  /\ alive
      /\ exec.pc = "observe"
      /\ \/ observed = "confirmed" /\ Record(c, "activated") /\ UNCHANGED <<stop, faults>>
         \/ /\ observed \in {"failed", "conflict"}
            /\ Record(c, "failed")
            /\ UNCHANGED <<stop, faults>>
         \/ observed = "none" /\ Goto("install") /\ UNCHANGED <<stop, faults>>
         \/ /\ observed = "pending"
            /\ \/ /\ VersionOf[Target[c]] # Version \/ Cancelled \/ c \in expired
                  /\ UNCHANGED faults
               \/ Fault
            /\ Restart
      /\ ExecFrame
      /\ UNCHANGED files

WithInstalled(b) ==
  IF b \in Present THEN installed ELSE [installed EXCEPT ![b] = Cardinality(Present) + 1]

\* Prepare up to the lock: the manifest, the runtime assets, the binary, all
\* verified; a binary that is installed already is used as it is.
ExecInstall ==
  /\ alive
  /\ exec.pc = "install"
  /\ \/ /\ ~Cancelled
        /\ exec.cmd \notin expired
        /\ installed' = WithInstalled(Target[exec.cmd])
        /\ Goto("prune")
        /\ UNCHANGED faults
     \/ /\ (Cancelled \/ exec.cmd \in expired) /\ UNCHANGED faults
        /\ Record(exec.cmd, "failed")
        /\ UNCHANGED installed
     \/ /\ Fault
        /\ Record(exec.cmd, "failed")
        /\ \/ UNCHANGED installed
           \/ SyncMayFail /\ installed' = WithInstalled(Target[exec.cmd])
  /\ ExecFrame
  /\ UNCHANGED <<current, previous, pending, confirmed, failed, stop>>

\* Mutant of Kept: the links are not protected.
KeptWithoutLinks(target) ==
  {b \in Present : installed[b] + Retained > Cardinality(Present)} \cup {target}

\* pruneVersions keeps the newest, the target and both links.
Kept(target) ==
  {b \in Present : installed[b] + Retained > Cardinality(Present)}
    \cup {target, current, previous}

\* What is left of the directory without the binaries that are gone.
Without(gone) ==
  LET left == Present \ gone
  IN  [b \in Binaries |->
         IF b \in left THEN Cardinality({c \in left : installed[c] <= installed[b]}) ELSE 0]

\* It removes the others one by one and stops at the first error.
ExecPrune ==
  LET superfluous == Present \ Kept(Target[exec.cmd])
      Pruned(gone) == installed' = Without(gone)
  IN  /\ alive
      /\ exec.pc = "prune"
      /\ \/ Pruned(superfluous) /\ Goto("lock") /\ UNCHANGED faults
         \/ /\ Fault
            /\ \E gone \in SUBSET superfluous : Pruned(gone)
            /\ Record(exec.cmd, "failed")
      /\ ExecFrame
      /\ UNCHANGED <<current, previous, pending, confirmed, failed, stop>>

\* The lock, and the look at the links under it.
ExecLock ==
  /\ alive
  /\ exec.pc = "lock"
  /\ pending = None
  /\ Goto(IF current = Target[exec.cmd] THEN "reclear" ELSE "link")
  /\ ExecFrame
  /\ UNCHANGED <<files, stop, faults>>

\* A step of Prepare under the lock: it succeeds, or Prepare returns an error
\* before or, when only the sync fails, after the change to the directory.
Step(pc, change, unchanged, next) ==
  /\ alive
  /\ exec.pc = pc
  /\ \/ change /\ next /\ UNCHANGED faults
     \/ /\ Fault
        /\ \/ unchanged
           \/ SyncMayFail /\ change
        /\ Record(exec.cmd, "failed")
  /\ ExecFrame
  /\ UNCHANGED <<installed, stop>>

\* Mutant of ExecLink: a link that is there is not replaced.
ExecLinkOnce ==
  /\ Step("link", previous' = IF previous = None THEN current ELSE previous,
          UNCHANGED previous, Goto("clear"))
  /\ UNCHANGED <<current, pending, confirmed, failed>>

ExecLink ==
  /\ Step("link", previous' = current, UNCHANGED previous, Goto("clear"))
  /\ UNCHANGED <<current, pending, confirmed, failed>>

\* removeTerminalStates: confirmed first, then failed.
ClearStates == confirmed' = None /\ failed' = None
ClearFails == confirmed' \in {confirmed, None} /\ UNCHANGED failed

ExecClear ==
  /\ Step("clear", ClearStates, ClearFails, Goto("write"))
  /\ UNCHANGED <<current, previous, pending>>

NewState == [cmd |-> exec.cmd, prev |-> current, target |-> Target[exec.cmd]]

ExecWrite ==
  /\ Step("write", pending' = NewState, UNCHANGED pending, Goto("switch"))
  /\ UNCHANGED <<current, previous, confirmed, failed>>

\* The switch of current; its failure removes the pending state again, unless
\* that fails too, which is ignored.
ExecSwitch ==
  /\ alive
  /\ exec.pc = "switch"
  /\ \/ /\ current' = Target[exec.cmd]
        /\ Restart
        /\ UNCHANGED <<pending, faults>>
     \/ /\ Fault
        /\ \/ UNCHANGED current
           \/ SyncMayFail /\ current' = Target[exec.cmd]
        /\ pending' \in {None, pending}
        /\ Record(exec.cmd, "failed")
        /\ UNCHANGED stop
  /\ ExecFrame
  /\ UNCHANGED <<previous, confirmed, failed, installed>>

\* The target is current already: it is confirmed at once (replaceState), and
\* Execute observes that.
ExecReclear ==
  /\ Step("reclear", ClearStates, ClearFails, Goto("rewrite"))
  /\ UNCHANGED <<current, previous, pending>>

ExecRewrite ==
  /\ Step("rewrite", confirmed' = NewState, UNCHANGED confirmed, Goto("observe"))
  /\ UNCHANGED <<current, previous, pending, failed>>

Executor ==
  \/ \E c \in Commands : ExecTake(c)
  \/ ExecDone \/ ExecObserve \/ ExecInstall \/ ExecPrune \/ ExecLock
  \/ ExecLink \/ ExecClear \/ ExecWrite \/ ExecSwitch \/ ExecReclear \/ ExecRewrite

-----------------------------------------------------------------------------

Process ==
  \/ AgentCrash \/ AgentExit \/ WorkerFails \/ Confirm
  \/ \E command \in Commands \cup {None} : HeartbeatAcked(command)

Next == Launcher \/ Process \/ Watchdog \/ Executor \/ \E c \in Commands : Expire(c)

Spec == Init /\ [][Next]_vars

(* Fairness: the launcher, the service manager and the goroutines run, the *)
(* clock reaches every deadline, and a healthy binary that stays up keeps  *)
(* having its heartbeats acknowledged.                                     *)
Fairness ==
  /\ WF_vars(ServiceStart) /\ WF_vars(LauncherRun) /\ WF_vars(LauncherPasses)
  /\ WF_vars(LauncherRollsBack) /\ WF_vars(LauncherMarksFailed)
  /\ WF_vars(AgentExit) /\ WF_vars(WatchStarts) /\ WF_vars(WatchLooks)
  /\ WF_vars(WatchWaits) /\ SF_vars(WatchWaits /\ watch'.pc = "done")
  /\ WF_vars(Executor)
  /\ WF_vars(HeartbeatAcked(None)) /\ WF_vars(Confirm)

FairSpec == Spec /\ Fairness

-----------------------------------------------------------------------------
(* Properties.                                                             *)

\* Confirm, and Prepare's shortcut, only confirm a binary that has had a
\* heartbeat acknowledged.
ConfirmedAfterHeartbeat == confirmed # None => confirmed.target \in acked

\* As long as the binary that current selects has not had a heartbeat
\* acknowledged, the update is pending and previous is a binary that had one:
\* whatever ends the process makes the launcher restore it.
UnprovenIsPending ==
  current \notin acked =>
    /\ pending # None
    /\ pending.target = current
    /\ previous = pending.prev
    /\ previous \in acked

\* Every binary that may still be started is installed, whatever pruneVersions
\* has removed: current, and the one a rollback returns to.
TargetsInstalled ==
  /\ current \in Present
  /\ pending # None => {previous, pending.prev, pending.target} \subseteq Present

\* The state files tell the truth: the confirmed target, or the binary from
\* before the failed update, is the one current selects.
StatesMatchCurrent ==
  /\ confirmed # None /\ pending = None => current = confirmed.target
  /\ failed # None /\ pending = None => current = failed.prev
  /\ confirmed = None \/ failed = None

\* A confirmed update is never rolled back by the launcher, not even when the
\* watchdog's timeout races the confirmation.
NoRollbackOfConfirmed ==
  [][launcher.pc = "exited" /\ launcher'.pc = "mark" => confirmed = None]_vars

\* The switch failed and the pending state could not be removed: the command has
\* failed, the binary from before goes on, and the state stays until the process
\* ends, whereupon the launcher marks it as failed.
PendingLeft ==
  /\ pending # None
  /\ results[pending.cmd] = "failed"
  /\ current = pending.prev

\* A pending update is confirmed or rolled back, or was not made.
PendingResolves == pending # None ~> (pending = None \/ PendingLeft)

\* Every accepted update command gets its result.
EveryUpdateAnswered == \A c \in Commands : c \in accepted ~> results[c] # None
=============================================================================
