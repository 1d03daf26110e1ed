------------------------- MODULE AgentUpdateProofs --------------------------
(***************************************************************************)
(* Safety of the self-update, for every set of binaries, any sequence of   *)
(* update commands and any number of faults.                               *)
(***************************************************************************)
EXTENDS AgentUpdate, TLAPS, FiniteSetTheorems

USE AgentUpdateAssumption

\* What the state files say about the links only holds if no fsync fails after
\* a rename; that a confirmed binary is one that has reached the center, only if
\* no two binaries report the same version.
Reliable ==
  /\ ~SyncMayFail
  /\ \A a, b \in Binaries : VersionOf[a] = VersionOf[b] => a = b

Preparing == {"install", "prune", "lock", "link", "clear", "write", "reclear", "rewrite"}

\* A process that is alive was started by the launcher, which waits for it.
LiveInv ==
  /\ alive => launcher.pc \in {"wait", "term"} /\ launcher.ran \in Binaries
  /\ alive /\ sess = "confirm" => launcher.ran \in acked

\* How far Prepare is, as long as its process is alive.
ExecInv == alive =>
  /\ exec.pc \in Preparing \cup {"observe", "switch"} => exec.cmd \in Commands
  /\ exec.pc \in Preparing => pending = None
  /\ exec.pc \in {"prune", "lock", "link", "clear", "write", "switch"} =>
       Target[exec.cmd] \in Present
  /\ exec.pc \in {"clear", "write", "switch"} => previous = current
  /\ exec.pc \in {"write", "switch", "rewrite"} => confirmed = None /\ failed = None
  /\ exec.pc = "switch" => pending = NewState
  /\ exec.pc \in {"reclear", "rewrite"} => current = Target[exec.cmd]

\* An update is pending between the two binaries it names, and previous is the
\* one to go back to; the outcome of the last update is forgotten.
PendingInv == pending # None =>
  /\ previous = pending.prev
  /\ current \in {pending.prev, pending.target}
  /\ confirmed = None /\ failed = None

\* Between its two steps the launcher has gone back to previous.
MarkInv == launcher.pc = "mark" => pending # None /\ current = previous

\* Without a pending update current has reached the center, with one previous has.
ProvenInv == Reliable =>
  /\ pending = None => current \in acked
  /\ pending # None => previous \in acked
  /\ ConfirmedAfterHeartbeat

Inv ==
  /\ LiveInv /\ ExecInv /\ MarkInv
  /\ PendingInv /\ ProvenInv /\ TargetsInstalled /\ StatesMatchCurrent

IInv == TypeOK /\ Inv

-----------------------------------------------------------------------------
(* The versions directory.                                                 *)

\* downloadAndInstall adds the binary.
LEMMA InstalledPresent ==
  ASSUME installed \in [Binaries -> Nat], NEW b \in Binaries, installed' = WithInstalled(b)
  PROVE  installed' \in [Binaries -> Nat] /\ Present' = Present \cup {b}
  <1>1. Cardinality(Present) \in Nat
    BY FS_Subset, FS_CardinalityType DEF Present
  <1>2. CASE b \in Present
    BY <1>2 DEF WithInstalled, Present
  <1>3. CASE b \notin Present
    <2>1. installed' = [installed EXCEPT ![b] = Cardinality(Present) + 1]
      BY <1>3 DEF WithInstalled
    <2>2. installed' \in [Binaries -> Nat] /\ installed'[b] > 0
      BY <1>1, <2>1
    <2>3. \A c \in Binaries \ {b} : installed'[c] = installed[c]
      BY <2>1
    <2> QED
      BY <2>2, <2>3 DEF Present
  <1> QED
    BY <1>2, <1>3

\* pruneVersions takes away what it removes, and nothing else.
LEMMA PrunedPresent ==
  ASSUME installed \in [Binaries -> Nat], NEW gone, installed' = Without(gone)
  PROVE  installed' \in [Binaries -> Nat] /\ Present' = Present \ gone
  <1> DEFINE left == Present \ gone
             Upto(b) == {c \in left : installed[c] <= installed[b]}
  <1>1. ASSUME NEW b \in left
        PROVE  Cardinality(Upto(b)) \in Nat \ {0}
    <2>1. IsFiniteSet(Upto(b))
      BY FS_Subset DEF Present
    <2>2. b \in Upto(b)
      BY <1>1 DEF Present
    <2> QED
      BY <2>1, <2>2, FS_CardinalityType, FS_EmptySet
  <1>2. installed' = [b \in Binaries |-> IF b \in left THEN Cardinality(Upto(b)) ELSE 0]
    BY DEF Without
  <1>3. left \subseteq Binaries
    BY DEF Present
  <1> HIDE DEF left, Upto
  <1>4. installed' \in [Binaries -> Nat]
    BY <1>1, <1>2
  <1>5. \A b \in Binaries : installed'[b] > 0 <=> b \in left
    BY <1>1, <1>2
  <1>6. Present' = left
    BY <1>3, <1>5 DEF Present
  <1> QED
    BY <1>4, <1>6 DEF left

-----------------------------------------------------------------------------
(* The launcher, and steps that leave the files alone.                     *)

LEMMA FaultType ==
  ASSUME faults \in Nat, Fault \/ UNCHANGED faults
  PROVE  faults' \in Nat
  BY DEF Fault

\* The files say the same as before, and a binary that has reached the center
\* has done so for good.
LEMMA FilesUnchanged ==
  ASSUME IInv, UNCHANGED files, acked \subseteq acked'
  PROVE  /\ PendingInv' /\ ProvenInv' /\ TargetsInstalled' /\ StatesMatchCurrent'
         /\ Present' = Present
  <1>1. Present' = Present
    BY DEF files, Present
  <1>2. PendingInv' /\ StatesMatchCurrent'
    BY DEF IInv, Inv, files, PendingInv, StatesMatchCurrent
  <1>3. ProvenInv'
    BY DEF IInv, Inv, files, ProvenInv, ConfirmedAfterHeartbeat
  <1>4. TargetsInstalled'
    BY <1>1 DEF IInv, Inv, files, TargetsInstalled
  <1> QED
    BY <1>1, <1>2, <1>3, <1>4

\* Prepare is where it was.
LEMMA ExecUnchanged ==
  ASSUME IInv, UNCHANGED <<files, exec>>, alive' => alive
  PROVE  ExecInv'
  <1>1. Present' = Present
    BY DEF files, Present
  <1> QED
    BY <1>1 DEF IInv, Inv, ExecInv, NewState, files

\* Prepare has not begun or is over.
LEMMA ExecIdle ==
  ASSUME exec'.pc \in {"idle", "done"}
  PROVE  ExecInv'
  BY DEF ExecInv, Preparing

LEMMA InitIInv ==
  ASSUME Init
  PROVE  IInv
  <1> USE DEF Init
  <1>1. Present = {Installed}
    BY DEF Present
  <1>2. TypeOK
    <2>1. alive \in BOOLEAN
      OBVIOUS
    <2>2. installed \in [Binaries -> Nat]
      OBVIOUS
    <2> QED
      BY <2>1, <2>2 DEF TypeOK, LauncherPcs, ExecPcs, WatchPcs
  <1>3. LiveInv /\ ExecInv /\ MarkInv
    BY DEF LiveInv, ExecInv, MarkInv
  <1>4. PendingInv /\ StatesMatchCurrent
    BY DEF PendingInv, StatesMatchCurrent
  <1>5. ProvenInv
    BY DEF ProvenInv, ConfirmedAfterHeartbeat
  <1>6. TargetsInstalled
    BY <1>1 DEF TargetsInstalled
  <1> QED
    BY <1>2, <1>3, <1>4, <1>5, <1>6 DEF IInv, Inv

\* Steps of the launcher that change neither the files nor the process.
LEMMA LauncherQuietStep ==
  ASSUME IInv, ServiceStart \/ LauncherRun \/ LauncherPasses \/ Terminate \/ MachineCrash
  PROVE  IInv'
  <1> USE DEF ServiceStart, LauncherRun, LauncherPasses, Terminate, MachineCrash,
              LauncherFrame, process, commandVars
  <1>1. UNCHANGED <<files, acked, commandVars>>
    BY DEF files
  <1>2. TypeOK'
    <2>1. alive' \in BOOLEAN
      BY DEF IInv, TypeOK
    <2>2. faults' \in Nat
      BY FaultType DEF IInv, TypeOK
    <2>3. launcher' \in [pc : LauncherPcs, ran : Binaries \cup {None},
                         status : {"restart", "error", "ok", None}]
      BY DEF IInv, TypeOK, LauncherPcs
    <2>4. /\ stop' \in {"restart", "error", None}
          /\ exec' \in [pc : ExecPcs, cmd : Commands \cup {None}]
          /\ watch' \in [pc : WatchPcs, cmd : Commands \cup {None}]
          /\ sess' \in {"idle", "confirm"}
      BY DEF IInv, TypeOK, ExecPcs, WatchPcs
    <2> QED
      BY <1>1, <2>1, <2>2, <2>3, <2>4 DEF IInv, TypeOK, files
  <1>3. LiveInv'
    BY DEF IInv, Inv, LiveInv, TypeOK
  <1>4. ExecInv'
    <2>1. CASE LauncherRun
      BY <2>1, ExecIdle
    <2>2. CASE ~LauncherRun
      <3>1. UNCHANGED exec /\ (alive' => alive)
        BY <2>2
      <3> QED
        BY <1>1, <3>1, ExecUnchanged
    <2> QED
      BY <2>1, <2>2
  <1>5. MarkInv'
    BY <1>1 DEF IInv, Inv, MarkInv, files, TypeOK
  <1> QED
    BY <1>1, <1>2, <1>3, <1>4, <1>5, FilesUnchanged DEF IInv, Inv

\* The launcher goes back to previous, or fails to.
LEMMA LauncherRollsBackStep ==
  ASSUME IInv, LauncherRollsBack
  PROVE  IInv'
  <1> USE DEF LauncherRollsBack, LauncherFrame, UpdateFailed
  <1>1. /\ UNCHANGED <<previous, pending, confirmed, failed, installed, alive, stop, exec, watch,
                       sess, accepted, expired, results, acked>>
        /\ Present' = Present
    BY DEF process, commandVars, Present
  <1>2. /\ pending # None /\ previous = pending.prev /\ ~alive
        /\ current' \in {current, previous}
        /\ launcher'.pc = "mark" => current' = previous
    BY DEF IInv, Inv, PendingInv, LiveInv, TypeOK
  <1>3. TypeOK'
    <2>1. faults' \in Nat
      BY FaultType DEF IInv, TypeOK
    <2>2. launcher' \in [pc : LauncherPcs, ran : Binaries \cup {None},
                         status : {"restart", "error", "ok", None}]
      BY DEF IInv, TypeOK, LauncherPcs
    <2> QED
      BY <1>1, <2>1, <2>2 DEF IInv, TypeOK
  <1> HIDE DEF LauncherRollsBack
  <1>4. LiveInv' /\ ExecInv'
    BY <1>1, <1>2 DEF LiveInv, ExecInv
  <1>5. MarkInv' /\ PendingInv'
    BY <1>1, <1>2 DEF IInv, Inv, MarkInv, PendingInv
  <1>6. ProvenInv'
    BY <1>1, <1>2 DEF IInv, Inv, ProvenInv, ConfirmedAfterHeartbeat
  <1>7. TargetsInstalled' /\ StatesMatchCurrent'
    BY <1>1, <1>2 DEF IInv, Inv, PendingInv, TargetsInstalled, StatesMatchCurrent
  <1> QED
    BY <1>3, <1>4, <1>5, <1>6, <1>7 DEF IInv, Inv

\* The launcher marks the update as failed, or fails to.
LEMMA LauncherMarksFailedStep ==
  ASSUME IInv, LauncherMarksFailed
  PROVE  IInv'
  <1> USE DEF LauncherMarksFailed, LauncherFrame
  <1>1. /\ UNCHANGED <<current, previous, confirmed, installed, alive, stop, exec, watch,
                       sess, accepted, expired, results, acked>>
        /\ Present' = Present
    BY DEF process, commandVars, Present
  <1>2. /\ pending # None /\ previous = pending.prev /\ current = previous /\ confirmed = None
        /\ ~alive /\ launcher'.pc = "start"
        /\ \/ failed' = pending /\ pending' = None
           \/ UNCHANGED <<failed, pending>>
    BY DEF IInv, Inv, MarkInv, PendingInv, LiveInv, TypeOK
  <1>3. TypeOK'
    <2>1. faults' \in Nat
      BY FaultType DEF IInv, TypeOK
    <2>2. launcher' \in [pc : LauncherPcs, ran : Binaries \cup {None},
                         status : {"restart", "error", "ok", None}]
      BY DEF IInv, TypeOK, LauncherPcs
    <2> QED
      BY <1>1, <1>2, <2>1, <2>2 DEF IInv, TypeOK
  <1> HIDE DEF LauncherMarksFailed
  <1>4. LiveInv' /\ ExecInv' /\ MarkInv'
    BY <1>1, <1>2 DEF LiveInv, ExecInv, MarkInv
  <1>5. PendingInv' /\ StatesMatchCurrent'
    BY <1>1, <1>2 DEF IInv, Inv, PendingInv, StatesMatchCurrent
  <1>6. ProvenInv'
    BY <1>1, <1>2 DEF IInv, Inv, ProvenInv, ConfirmedAfterHeartbeat
  <1>7. TargetsInstalled'
    BY <1>1, <1>2 DEF IInv, Inv, TargetsInstalled
  <1> QED
    BY <1>3, <1>4, <1>5, <1>6, <1>7 DEF IInv, Inv

-----------------------------------------------------------------------------
(* The process, the watchdog and the center.                               *)

\* The process ends, or stops its workers; the watchdog looks.
LEMMA ProcessQuietStep ==
  ASSUME IInv, AgentCrash \/ AgentExit \/ WorkerFails \/ Watchdog \/ \E c \in Commands : Expire(c)
  PROVE  IInv'
  <1> USE DEF AgentCrash, AgentExit, WorkerFails, Watchdog, WatchStarts, WatchLooks, WatchWaits,
              Expire, LauncherFrame, WatchFrame, Ended, StopFor, WatchAt, process, commandVars
  <1>1. UNCHANGED <<files, exec, sess, accepted, results, acked>> /\ (alive' => alive)
    BY DEF files
  <1>2. expired' \subseteq Commands
    BY DEF IInv, TypeOK
  <1>3. alive' \in BOOLEAN
    BY DEF IInv, TypeOK
  <1>4. faults' \in Nat
    BY FaultType DEF IInv, TypeOK
  <1>5. launcher' \in [pc : LauncherPcs, ran : Binaries \cup {None},
                       status : {"restart", "error", "ok", None}]
    BY DEF IInv, TypeOK, LauncherPcs
  <1>6. stop' \in {"restart", "error", None}
    BY DEF IInv, TypeOK
  <1>7. watch' \in [pc : WatchPcs, cmd : Commands \cup {None}]
    BY DEF IInv, TypeOK, WatchPcs, PendingIsRunning, State
  <1>8. TypeOK'
    BY <1>1, <1>2, <1>3, <1>4, <1>5, <1>6, <1>7 DEF IInv, TypeOK, files
  <1>9. LiveInv'
    BY DEF IInv, Inv, LiveInv, TypeOK
  <1>10. MarkInv'
    BY <1>1 DEF IInv, Inv, MarkInv, LiveInv, files, TypeOK
  <1> QED
    BY <1>1, <1>8, <1>9, <1>10, FilesUnchanged, ExecUnchanged DEF IInv, Inv

\* A heartbeat is acknowledged.
LEMMA HeartbeatAckedStep ==
  ASSUME IInv, NEW command \in Commands \cup {None}, HeartbeatAcked(command)
  PROVE  IInv'
  <1> USE DEF HeartbeatAcked
  <1>1. UNCHANGED <<files, launcher, alive, stop, exec, watch, expired, results, faults>>
    OBVIOUS
  <1>2. /\ accepted' \subseteq Commands /\ acked' \subseteq Binaries /\ acked \subseteq acked'
        /\ launcher.ran \in acked' /\ sess' = "confirm"
    BY DEF IInv, Inv, TypeOK, LiveInv
  <1> HIDE DEF HeartbeatAcked
  <1>3. TypeOK'
    BY <1>1, <1>2 DEF IInv, TypeOK, files
  <1>4. LiveInv' /\ MarkInv'
    BY <1>1, <1>2 DEF IInv, Inv, LiveInv, MarkInv, files
  <1> QED
    BY <1>1, <1>2, <1>3, <1>4, FilesUnchanged, ExecUnchanged DEF IInv, Inv

\* Confirm: what it confirms is the binary that runs and has reached the center.
LEMMA ConfirmStep ==
  ASSUME IInv, Confirm
  PROVE  IInv'
  <1> USE DEF Confirm
  <1>1. /\ UNCHANGED <<current, previous, failed, installed, launcher, alive, stop, exec, watch,
                       accepted, expired, results, acked>>
        /\ Present' = Present
    BY DEF commandVars, Present
  <1>2. /\ alive /\ sess = "confirm" /\ sess' = "idle" /\ ~Locked
        /\ \/ PendingIsRunning /\ confirmed' = pending /\ pending' = None
           \/ UNCHANGED <<confirmed, pending>>
    OBVIOUS
  <1>3. faults' \in Nat
    BY FaultType DEF IInv, TypeOK
  <1> HIDE DEF Confirm
  <1>4. TypeOK'
    BY <1>1, <1>2, <1>3 DEF IInv, TypeOK
  <1>5. LiveInv' /\ MarkInv'
    BY <1>1, <1>2 DEF IInv, Inv, LiveInv, MarkInv
  <1>6. PendingInv' /\ StatesMatchCurrent'
    BY <1>1, <1>2 DEF IInv, Inv, PendingInv, StatesMatchCurrent, PendingIsRunning
  <1>7. TargetsInstalled'
    BY <1>1, <1>2 DEF IInv, Inv, TargetsInstalled
  <1>8. ExecInv'
    BY <1>1, <1>2 DEF IInv, Inv, ExecInv, NewState, Locked, Preparing
  <1>9. ProvenInv'
    <2>1. CASE Reliable /\ PendingIsRunning
      <3>1. launcher.ran \in acked /\ launcher.ran \in Binaries
        BY <1>2 DEF IInv, Inv, LiveInv
      <3>2. pending.target \in Binaries /\ VersionOf[pending.target] = VersionOf[launcher.ran]
            /\ current = pending.target
        BY <2>1 DEF IInv, TypeOK, State, PendingIsRunning, Version
      <3>3. current \in acked /\ pending.target \in acked
        BY <2>1, <3>1, <3>2 DEF Reliable
      <3> QED
        BY <1>1, <1>2, <3>3 DEF IInv, Inv, ProvenInv, ConfirmedAfterHeartbeat
    <2>2. CASE ~(Reliable /\ PendingIsRunning)
      BY <1>1, <1>2, <2>2 DEF IInv, Inv, ProvenInv, ConfirmedAfterHeartbeat
    <2> QED
      BY <2>1, <2>2
  <1> QED
    BY <1>4, <1>5, <1>6, <1>7, <1>8, <1>9 DEF IInv, Inv

-----------------------------------------------------------------------------
(* Processor.Run and Executor.Execute.                                     *)

ExecType ==
  /\ exec \in [pc : ExecPcs, cmd : Commands \cup {None}]
  /\ results \in [Commands -> {"activated", "failed", "expired", None}]

LEMMA GotoType ==
  ASSUME TypeOK, NEW p \in ExecPcs, Goto(p)
  PROVE  ExecType' /\ exec'.pc = p /\ exec'.cmd = exec.cmd
  BY DEF TypeOK, Goto, ExecType

LEMMA RecordType ==
  ASSUME TypeOK, NEW c \in Commands, NEW r \in {"activated", "failed", "expired"}, Record(c, r)
  PROVE  ExecType' /\ exec'.pc = "idle"
  BY DEF TypeOK, Record, ExecType, ExecPcs

\* The launcher and the session do not notice the executor.
LEMMA ExecFrameInv ==
  ASSUME IInv, alive, ExecFrame
  PROVE  LiveInv' /\ MarkInv' /\ alive'
  BY DEF ExecFrame, IInv, Inv, LiveInv, MarkInv

\* Steps of the executor that do not change a file.
LEMMA ExecQuietStep ==
  ASSUME IInv, (\E c \in Commands : ExecTake(c)) \/ ExecDone \/ ExecObserve \/ ExecLock
  PROVE  IInv'
  <1>1. alive /\ ExecFrame /\ UNCHANGED files /\ (Fault \/ UNCHANGED faults)
    BY DEF ExecTake, ExecDone, ExecObserve, ExecLock
  <1>2. stop' \in {"restart", "error", None} /\ faults' \in Nat
    BY <1>1, FaultType DEF IInv, TypeOK, ExecTake, ExecDone, ExecObserve, ExecLock, Restart, StopFor
  <1>3. ExecType' /\ ExecInv'
    <2>0. Present' = Present /\ UNCHANGED <<current, previous, pending, confirmed, failed>>
      BY <1>1 DEF files, Present
    <2>1. ASSUME NEW c \in Commands, ExecTake(c)
          PROVE  ExecType' /\ ExecInv'
      <3>1. CASE c \in expired
        BY <2>1, <3>1, RecordType, ExecIdle DEF ExecTake, IInv
      <3>2. CASE c \notin expired
        <4>1. exec' = [pc |-> "observe", cmd |-> c] /\ UNCHANGED results
          BY <2>1, <3>2 DEF ExecTake
        <4>2. ExecType'
          BY <4>1 DEF ExecType, IInv, TypeOK, ExecPcs
        <4> QED
          BY <4>1, <4>2 DEF ExecInv, Preparing
      <3> QED
        BY <3>1, <3>2
    <2>2. CASE ExecDone
      BY <2>2, GotoType, ExecIdle DEF ExecDone, IInv, ExecPcs
    <2>3. CASE ExecObserve
      <3>1. exec.cmd \in Commands
        BY <2>3, <1>1 DEF ExecObserve, IInv, Inv, ExecInv
      <3>2. CASE Observe(exec.cmd) = "none" /\ Goto("install")
        <4>1. pending = None
          BY <3>2 DEF Observe
        <4>2. ExecType' /\ exec'.pc = "install" /\ exec'.cmd = exec.cmd
          BY <3>2, GotoType DEF IInv, ExecPcs
        <4> QED
          BY <2>0, <3>1, <4>1, <4>2 DEF ExecInv, Preparing
      <3>3. CASE Restart
        BY <3>3, GotoType, ExecIdle DEF Restart, IInv, ExecPcs
      <3>4. CASE Record(exec.cmd, "activated") \/ Record(exec.cmd, "failed")
        BY <3>1, <3>4, RecordType, ExecIdle DEF IInv
      <3> QED
        BY <2>3, <3>2, <3>3, <3>4 DEF ExecObserve
    <2>4. CASE ExecLock
      <3>1. /\ exec.cmd \in Commands /\ pending = None /\ Target[exec.cmd] \in Present
        BY <2>4, <1>1 DEF ExecLock, IInv, Inv, ExecInv, Preparing
      <3>2. CASE current = Target[exec.cmd]
        <4>1. ExecType' /\ exec'.pc = "reclear" /\ exec'.cmd = exec.cmd
          BY <2>4, <3>2, GotoType DEF ExecLock, IInv, ExecPcs
        <4> QED
          BY <2>0, <3>1, <3>2, <4>1 DEF ExecInv, Preparing
      <3>3. CASE current # Target[exec.cmd]
        <4>1. ExecType' /\ exec'.pc = "link" /\ exec'.cmd = exec.cmd
          BY <2>4, <3>3, GotoType DEF ExecLock, IInv, ExecPcs
        <4> QED
          BY <2>0, <3>1, <4>1 DEF ExecInv, Preparing
      <3> QED
        BY <3>2, <3>3
    <2> QED
      BY <2>1, <2>2, <2>3, <2>4
  <1>4. TypeOK'
    BY <1>1, <1>2, <1>3 DEF IInv, TypeOK, ExecFrame, files, ExecType
  <1> QED
    BY <1>1, <1>3, <1>4, FilesUnchanged, ExecFrameInv DEF IInv, Inv, ExecFrame

\* A step of Prepare before the lock: nothing that may still be started goes.
LEMMA ExecInstallStep ==
  ASSUME IInv, ExecInstall \/ ExecPrune
  PROVE  IInv'
  <1>1. /\ alive /\ ExecFrame
        /\ UNCHANGED <<current, previous, pending, confirmed, failed, stop>>
        /\ exec.pc \in {"install", "prune"}
    BY DEF ExecInstall, ExecPrune
  <1>2. /\ exec.cmd \in Commands /\ pending = None /\ Target[exec.cmd] \in Binaries
    BY <1>1 DEF IInv, Inv, ExecInv, Preparing
  <1>3. faults' \in Nat
    BY FaultType DEF IInv, TypeOK, ExecInstall, ExecPrune
  <1>4. /\ installed' \in [Binaries -> Nat]
        /\ current \in Present'
        /\ ExecType'
        /\ \/ exec'.pc = "idle"
           \/ /\ exec'.pc \in {"prune", "lock"} /\ exec'.cmd = exec.cmd
              /\ Target[exec.cmd] \in Present'
    <2>1. CASE ExecInstall
      <3>1. /\ installed' \in [Binaries -> Nat] /\ Present \subseteq Present'
            /\ installed' = WithInstalled(Target[exec.cmd]) => Target[exec.cmd] \in Present'
        <4>1. installed' \in {installed, WithInstalled(Target[exec.cmd])}
          BY <2>1 DEF ExecInstall
        <4>2. CASE installed' = installed /\ installed' # WithInstalled(Target[exec.cmd])
          BY <4>2 DEF Present, IInv, TypeOK
        <4>3. CASE installed' = WithInstalled(Target[exec.cmd])
          BY <1>2, <4>3, InstalledPresent DEF IInv, TypeOK
        <4> QED
          BY <4>1, <4>2, <4>3
      <3>2. \/ Record(exec.cmd, "failed")
            \/ Goto("prune") /\ installed' = WithInstalled(Target[exec.cmd])
        BY <2>1 DEF ExecInstall
      <3>3. current \in Present
        BY DEF IInv, Inv, TargetsInstalled
      <3> QED
        BY <1>2, <3>1, <3>2, <3>3, GotoType, RecordType DEF IInv, ExecPcs
    <2>2. CASE ExecPrune
      <3>1. PICK gone \in SUBSET (Present \ Kept(Target[exec.cmd])) : installed' = Without(gone)
        BY <2>2 DEF ExecPrune
      <3>2. installed' \in [Binaries -> Nat] /\ Present' = Present \ gone
        BY <3>1, PrunedPresent DEF IInv, TypeOK
      <3>3. current \in Present /\ Target[exec.cmd] \in Present
        BY <1>1, <2>2 DEF ExecPrune, IInv, Inv, TargetsInstalled, ExecInv
      <3>4. current \in Present' /\ Target[exec.cmd] \in Present'
        BY <3>1, <3>2, <3>3 DEF Kept
      <3>5. Goto("lock") \/ Record(exec.cmd, "failed")
        BY <2>2 DEF ExecPrune
      <3> QED
        BY <1>2, <3>2, <3>4, <3>5, GotoType, RecordType DEF IInv, ExecPcs
    <2> QED
      BY <2>1, <2>2
  <1>5. TypeOK'
    BY <1>1, <1>3, <1>4 DEF IInv, TypeOK, ExecFrame, ExecType
  <1>6. ExecInv'
    BY <1>1, <1>2, <1>4 DEF ExecInv, Preparing
  <1>7. PendingInv' /\ StatesMatchCurrent'
    BY <1>1, <1>2 DEF IInv, Inv, PendingInv, StatesMatchCurrent
  <1>8. ProvenInv'
    BY <1>1 DEF IInv, Inv, ExecFrame, ProvenInv, ConfirmedAfterHeartbeat
  <1>9. TargetsInstalled'
    BY <1>1, <1>2, <1>4 DEF TargetsInstalled
  <1> QED
    BY <1>1, <1>5, <1>6, <1>7, <1>8, <1>9, ExecFrameInv DEF IInv, Inv

\* The link to go back to.
LEMMA ExecLinkStep ==
  ASSUME IInv, ExecLink
  PROVE  IInv'
  <1>1. /\ alive /\ ExecFrame /\ exec.pc = "link"
        /\ UNCHANGED <<installed, stop, current, pending, confirmed, failed>>
        /\ Present' = Present
        /\ \/ previous' = current /\ Goto("clear")
           \/ previous' \in {previous, current} /\ Record(exec.cmd, "failed")
    BY DEF ExecLink, Step, Present
  <1>2. exec.cmd \in Commands /\ pending = None /\ Target[exec.cmd] \in Present
    BY <1>1 DEF IInv, Inv, ExecInv, Preparing
  <1>3. faults' \in Nat
    BY FaultType DEF IInv, TypeOK, ExecLink, Step
  <1>4. /\ ExecType'
        /\ exec'.pc = "idle" \/ (exec'.pc = "clear" /\ exec'.cmd = exec.cmd /\ previous' = current)
    BY <1>1, <1>2, GotoType, RecordType DEF IInv, ExecPcs
  <1>5. TypeOK'
    BY <1>1, <1>3, <1>4 DEF IInv, TypeOK, ExecFrame, ExecType
  <1>6. ExecInv'
    BY <1>1, <1>2, <1>4 DEF ExecInv, Preparing
  <1>7. PendingInv' /\ StatesMatchCurrent'
    BY <1>1, <1>2 DEF IInv, Inv, PendingInv, StatesMatchCurrent
  <1>8. ProvenInv'
    BY <1>1, <1>2 DEF IInv, Inv, ExecFrame, ProvenInv, ConfirmedAfterHeartbeat
  <1>9. TargetsInstalled'
    BY <1>1, <1>2 DEF IInv, Inv, TargetsInstalled
  <1> QED
    BY <1>1, <1>5, <1>6, <1>7, <1>8, <1>9, ExecFrameInv DEF IInv, Inv

\* removeTerminalStates, before either kind of new state.
LEMMA ExecClearStep ==
  ASSUME IInv, ExecClear \/ ExecReclear
  PROVE  IInv'
  <1>1. /\ alive /\ ExecFrame
        /\ UNCHANGED <<installed, stop, current, previous, pending>>
        /\ Present' = Present
        /\ confirmed' \in {confirmed, None} /\ failed' \in {failed, None}
        /\ \/ Record(exec.cmd, "failed")
           \/ /\ confirmed' = None /\ failed' = None
              /\ \/ exec.pc = "clear" /\ Goto("write")
                 \/ exec.pc = "reclear" /\ Goto("rewrite")
        /\ exec.pc \in {"clear", "reclear"}
    BY DEF ExecClear, ExecReclear, Step, ClearStates, ClearFails, Present
  <1>2. /\ exec.cmd \in Commands /\ pending = None
        /\ exec.pc = "clear" => Target[exec.cmd] \in Present /\ previous = current
        /\ exec.pc = "reclear" => current = Target[exec.cmd]
    BY <1>1 DEF IInv, Inv, ExecInv, Preparing
  <1>3. faults' \in Nat
    BY FaultType DEF IInv, TypeOK, ExecClear, ExecReclear, Step
  <1>4. /\ ExecType'
        /\ \/ exec'.pc = "idle"
           \/ /\ confirmed' = None /\ failed' = None /\ exec'.cmd = exec.cmd
              /\ \/ exec.pc = "clear" /\ exec'.pc = "write"
                 \/ exec.pc = "reclear" /\ exec'.pc = "rewrite"
    BY <1>1, <1>2, GotoType, RecordType DEF IInv, ExecPcs
  <1>5. TypeOK'
    BY <1>1, <1>3, <1>4 DEF IInv, TypeOK, ExecFrame, ExecType
  <1>6. ExecInv'
    BY <1>1, <1>2, <1>4 DEF ExecInv, Preparing
  <1>7. PendingInv' /\ StatesMatchCurrent'
    BY <1>1, <1>2 DEF IInv, Inv, PendingInv, StatesMatchCurrent
  <1>8. ProvenInv'
    BY <1>1, <1>2 DEF IInv, Inv, ExecFrame, ProvenInv, ConfirmedAfterHeartbeat
  <1>9. TargetsInstalled'
    BY <1>1, <1>2 DEF IInv, Inv, TargetsInstalled
  <1> QED
    BY <1>1, <1>5, <1>6, <1>7, <1>8, <1>9, ExecFrameInv DEF IInv, Inv

\* The state that the executor writes.
LEMMA NewStateType ==
  ASSUME IInv, exec.cmd \in Commands
  PROVE  /\ NewState \in State /\ NewState # None
         /\ NewState.prev = current /\ NewState.target = Target[exec.cmd]
  <1>1. current \in Binaries /\ Target[exec.cmd] \in Binaries
    BY DEF IInv, TypeOK
  <1>2. NewState \in State
    BY <1>1 DEF NewState, State
  <1>3. NewState.prev = current /\ NewState.target = Target[exec.cmd]
    BY DEF NewState
  <1> QED
    BY <1>2, <1>3

\* The update is recorded as pending.
LEMMA ExecWriteStep ==
  ASSUME IInv, ExecWrite
  PROVE  IInv'
  <1>1. /\ alive /\ ExecFrame /\ exec.pc = "write"
        /\ UNCHANGED <<installed, stop, current, previous, confirmed, failed>>
        /\ Present' = Present
        /\ \/ pending' = NewState /\ Goto("switch")
           \/ pending' \in {pending, NewState} /\ Record(exec.cmd, "failed")
    BY DEF ExecWrite, Step, Present
  <1>2. /\ exec.cmd \in Commands /\ pending = None /\ previous = current
        /\ Target[exec.cmd] \in Present /\ confirmed = None /\ failed = None
    BY <1>1 DEF IInv, Inv, ExecInv, Preparing
  <1>3. faults' \in Nat
    BY FaultType DEF IInv, TypeOK, ExecWrite, Step
  <1>4. /\ ExecType'
        /\ exec'.pc = "idle" \/ (exec'.pc = "switch" /\ exec'.cmd = exec.cmd /\ pending' = NewState)
    BY <1>1, <1>2, GotoType, RecordType DEF IInv, ExecPcs
  <1>5. /\ pending' \in {None, NewState}
        /\ NewState \in State /\ NewState # None
        /\ NewState.prev = current /\ NewState.target = Target[exec.cmd]
    BY <1>1, <1>2, NewStateType
  <1>6. TypeOK'
    BY <1>1, <1>3, <1>4, <1>5 DEF IInv, TypeOK, ExecFrame, ExecType
  <1>7. ExecInv'
    <2>1. exec'.pc = "switch" => NewState' = NewState
      BY <1>1, <1>4 DEF NewState
    <2> QED
      BY <1>1, <1>2, <1>4, <2>1 DEF ExecInv, Preparing
  <1>8. PendingInv' /\ StatesMatchCurrent'
    BY <1>1, <1>2, <1>5 DEF PendingInv, StatesMatchCurrent
  <1>9. ProvenInv'
    BY <1>1, <1>2 DEF IInv, Inv, ExecFrame, ProvenInv, ConfirmedAfterHeartbeat
  <1>10. TargetsInstalled'
    BY <1>1, <1>2, <1>5 DEF IInv, Inv, TargetsInstalled
  <1> QED
    BY <1>1, <1>6, <1>7, <1>8, <1>9, <1>10, ExecFrameInv DEF IInv, Inv

\* The switch of current: the new binary is the one that is pending, the old one
\* the one to go back to.  Without a failed sync an error leaves current alone.
LEMMA ExecSwitchStep ==
  ASSUME IInv, ExecSwitch
  PROVE  IInv'
  <1>1. /\ alive /\ ExecFrame /\ exec.pc = "switch"
        /\ UNCHANGED <<previous, confirmed, failed, installed>>
        /\ Present' = Present
        /\ \/ current' = Target[exec.cmd] /\ Restart /\ UNCHANGED pending
           \/ /\ current' \in {current, Target[exec.cmd]}
              /\ SyncMayFail \/ current' = current
              /\ pending' \in {None, pending} /\ Record(exec.cmd, "failed") /\ UNCHANGED stop
    BY DEF ExecSwitch, Present
  <1>2. /\ exec.cmd \in Commands /\ pending = NewState /\ previous = current
        /\ Target[exec.cmd] \in Present /\ confirmed = None /\ failed = None
    BY <1>1 DEF IInv, Inv, ExecInv, Preparing
  <1>3. faults' \in Nat /\ stop' \in {"restart", "error", None}
    BY FaultType DEF IInv, TypeOK, ExecSwitch, Restart, StopFor
  <1>4. ExecType' /\ exec'.pc \in {"idle", "done"}
    BY <1>1, <1>2, GotoType, RecordType DEF IInv, ExecPcs, Restart
  <1>5. /\ pending \in State /\ pending # None
        /\ pending.prev = current /\ pending.target = Target[exec.cmd]
    BY <1>2, NewStateType
  <1>6. TypeOK'
    <2>1. Target[exec.cmd] \in Binaries
      BY <1>2
    <2>2. current' \in Binaries
      BY <1>1, <2>1 DEF IInv, TypeOK
    <2>3. pending' \in State \cup {None}
      BY <1>1, <1>5
    <2> QED
      BY <1>1, <1>3, <1>4, <2>2, <2>3 DEF IInv, TypeOK, ExecFrame, ExecType
  <1>7. PendingInv' /\ StatesMatchCurrent'
    BY <1>1, <1>2, <1>5 DEF PendingInv, StatesMatchCurrent
  <1>8. ProvenInv'
    <2>1. Reliable => previous \in acked /\ current \in acked
      BY <1>2, <1>5 DEF IInv, Inv, ProvenInv
    <2> QED
      BY <1>1, <1>2, <1>5, <2>1 DEF ProvenInv, ConfirmedAfterHeartbeat, Reliable, ExecFrame
  <1>9. TargetsInstalled'
    BY <1>1, <1>2, <1>5 DEF IInv, Inv, TargetsInstalled
  <1> QED
    BY <1>1, <1>4, <1>6, <1>7, <1>8, <1>9, ExecFrameInv, ExecIdle DEF IInv, Inv

\* The target is current already, without a pending update: it has reached the
\* center before.
LEMMA ExecRewriteStep ==
  ASSUME IInv, ExecRewrite
  PROVE  IInv'
  <1>1. /\ alive /\ ExecFrame /\ exec.pc = "rewrite"
        /\ UNCHANGED <<installed, stop, current, previous, pending, failed>>
        /\ Present' = Present
        /\ confirmed' \in {confirmed, NewState}
        /\ Goto("observe") \/ Record(exec.cmd, "failed")
    BY DEF ExecRewrite, Step, Present
  <1>2. /\ exec.cmd \in Commands /\ pending = None /\ current = Target[exec.cmd]
        /\ confirmed = None /\ failed = None
    BY <1>1 DEF IInv, Inv, ExecInv, Preparing
  <1>3. faults' \in Nat
    BY FaultType DEF IInv, TypeOK, ExecRewrite, Step
  <1>4. ExecType' /\ (exec'.pc = "idle" \/ (exec'.pc = "observe" /\ exec'.cmd = exec.cmd))
    BY <1>1, <1>2, GotoType, RecordType DEF IInv, ExecPcs
  <1>5. NewState \in State /\ NewState # None /\ NewState.target = current
    BY <1>2, NewStateType
  <1>6. TypeOK'
    BY <1>1, <1>3, <1>4, <1>5 DEF IInv, TypeOK, ExecFrame, ExecType
  <1>7. ExecInv'
    BY <1>2, <1>4 DEF ExecInv, Preparing
  <1>8. PendingInv' /\ StatesMatchCurrent'
    BY <1>1, <1>2, <1>5 DEF PendingInv, StatesMatchCurrent
  <1>9. ProvenInv'
    BY <1>1, <1>2, <1>5 DEF IInv, Inv, ExecFrame, ProvenInv, ConfirmedAfterHeartbeat
  <1>10. TargetsInstalled'
    BY <1>1, <1>2 DEF IInv, Inv, TargetsInstalled
  <1> QED
    BY <1>1, <1>6, <1>7, <1>8, <1>9, <1>10, ExecFrameInv DEF IInv, Inv

-----------------------------------------------------------------------------
(* Theorems.                                                               *)

LEMMA NextIInv ==
  ASSUME IInv, [Next]_vars
  PROVE  IInv'
  <1>1. CASE Launcher
    BY <1>1, LauncherQuietStep, LauncherRollsBackStep, LauncherMarksFailedStep DEF Launcher
  <1>2. CASE Process
    BY <1>2, ProcessQuietStep, ConfirmStep, HeartbeatAckedStep DEF Process
  <1>3. CASE Watchdog \/ \E c \in Commands : Expire(c)
    BY <1>3, ProcessQuietStep
  <1>4. CASE Executor
    BY <1>4, ExecQuietStep, ExecInstallStep, ExecLinkStep, ExecClearStep, ExecWriteStep,
       ExecSwitchStep, ExecRewriteStep DEF Executor
  <1>5. CASE UNCHANGED vars
    <2>1. UNCHANGED <<files, exec>> /\ acked \subseteq acked' /\ (alive' => alive)
      BY <1>5 DEF vars, files
    <2>2. TypeOK' /\ LiveInv' /\ MarkInv'
      BY <1>5 DEF vars, IInv, Inv, TypeOK, LiveInv, MarkInv
    <2> QED
      BY <2>1, <2>2, FilesUnchanged, ExecUnchanged DEF IInv, Inv
  <1> QED
    BY <1>1, <1>2, <1>3, <1>4, <1>5 DEF Next

\* The invariant holds throughout.
THEOREM Invariance == Spec => []IInv
  <1>1. Init => IInv
    BY InitIInv
  <1>2. IInv /\ [Next]_vars => IInv'
    BY NextIInv
  <1> QED
    BY <1>1, <1>2, PTL DEF Spec

\* Manager, executor and launcher keep every variable within its type.
THEOREM TypeCorrect == Spec => []TypeOK
  <1>1. IInv => TypeOK
    BY DEF IInv
  <1> QED
    BY <1>1, Invariance, PTL

\* pruneVersions never removes a binary that the launcher may still start.
THEOREM StartableIsInstalled == Spec => []TargetsInstalled
  <1>1. IInv => TargetsInstalled
    BY DEF IInv, Inv
  <1> QED
    BY <1>1, Invariance, PTL

\* update-confirmed.json and update-failed.json agree with the link current, and
\* are never both there.
THEOREM FilesTellTheTruth == Spec => []StatesMatchCurrent
  <1>1. IInv => StatesMatchCurrent
    BY DEF IInv, Inv
  <1> QED
    BY <1>1, Invariance, PTL

\* The launcher never goes back from an update that Confirm has confirmed.
THEOREM ConfirmedStays == Spec => NoRollbackOfConfirmed
  <1>1. IInv /\ [Next]_vars =>
          [launcher.pc = "exited" /\ launcher'.pc = "mark" => confirmed = None]_vars
    <2> SUFFICES ASSUME IInv, Next, launcher.pc = "exited", launcher'.pc = "mark"
                 PROVE  confirmed = None
      OBVIOUS
    <2>1. LauncherRollsBack
      <3>1. ~alive /\ launcher # launcher'
        BY DEF IInv, Inv, LiveInv
      <3>2. CASE Launcher
        BY <3>2 DEF Launcher, ServiceStart, LauncherRun, LauncherPasses, LauncherMarksFailed,
                    Terminate, MachineCrash, IInv, TypeOK
      <3>3. CASE Process
        BY <3>1, <3>3 DEF Process, AgentCrash, AgentExit, WorkerFails, Confirm, HeartbeatAcked
      <3>4. CASE Watchdog
        BY <3>1, <3>4 DEF Watchdog, WatchStarts, WatchLooks, WatchWaits
      <3>5. CASE Executor
        BY <3>1, <3>5 DEF Executor, ExecTake, ExecDone, ExecObserve, ExecInstall, ExecPrune,
              ExecLock, ExecLink, ExecClear, ExecWrite, ExecSwitch, ExecReclear, ExecRewrite, Step
      <3>6. CASE \E c \in Commands : Expire(c)
        BY <3>1, <3>6 DEF Expire
      <3> QED
        BY <3>2, <3>3, <3>4, <3>5, <3>6 DEF Next
    <2> QED
      BY <2>1 DEF LauncherRollsBack, UpdateFailed, IInv, Inv, PendingInv
  <1> QED
    BY <1>1, Invariance, PTL DEF Spec, NoRollbackOfConfirmed

\* A binary that has not reached the center is the target of a pending update,
\* and the launcher has one that did to go back to, if no sync fails after a
\* rename and versions tell binaries apart.
THEOREM UnprovenCanBeRolledBack ==
  ASSUME Reliable
  PROVE  Spec => []UnprovenIsPending
  <1>1. IInv => UnprovenIsPending
    BY Reliable DEF IInv, Inv, ProvenInv, PendingInv, UnprovenIsPending
  <1> QED
    BY <1>1, Invariance, PTL

\* Confirm and Prepare confirm no binary that has not reached the center, under
\* the same condition.
THEOREM ConfirmedHasReachedCenter ==
  ASSUME Reliable
  PROVE  Spec => []ConfirmedAfterHeartbeat
  <1>1. IInv => ConfirmedAfterHeartbeat
    BY Reliable DEF IInv, Inv, ProvenInv
  <1> QED
    BY <1>1, Invariance, PTL
=============================================================================
