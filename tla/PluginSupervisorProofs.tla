----------------------- MODULE PluginSupervisorProofs -----------------------
(***************************************************************************)
(* Safety of the plugin supervisor, for every set of releases and of       *)
(* reconcile commands, any number of processes, retries and faults, and    *)
(* stops that fail.                                                        *)
(***************************************************************************)
EXTENDS PluginRefinement, TLAPS

USE PluginStateAssumption, PluginSupervisorAssumption

-----------------------------------------------------------------------------
(* The inductive invariant.                                                *)

\* The pending revision is the newest one the plugin has been asked for, and
\* the current one is older.  With an absent revision the previous one is gone.
FileInv(file) ==
  /\ file.pending # None =>
       /\ file.pending.generation = file.last
       /\ file.current # None => file.current.generation < file.last
  /\ file.current # None =>
       /\ file.current.generation <= file.last
       /\ file.current.state = "absent" => file.previous = None

\* A save whose directory could not be synced puts the file ahead of the copy,
\* by no more than the transition that is pending in the copy.
StoreInv ==
  /\ FileInv(stored)
  /\ FileInv(states)
  /\ agent # "down" =>
       /\ \A revision \in {stored.current, stored.previous} :
            Installed(revision) => revision \in {states.current, states.previous, states.pending}
       /\ states.pending = None =>
            stored.current = states.current /\ stored.previous = states.previous

\* The transition that the holder of the mutex is in.
Starting == {"launch", "configure", "stop", "abort", "commit", "rollback"}

\* What the holder works on.
OpInv ==
  /\ op.pc \in {"idle", "emit"} => op.kind = "none"
  /\ op.pc \in {"fetch", "detach"} => op.kind \in {"reconcile", "ensure"}
  /\ op.pc = "fetch" => op.revision.state # "absent"
  /\ op.pc = "detach" /\ op.kind = "ensure" => op.revision.state # "running"
  /\ op.pc \in {"launch", "configure"} =>
       op.kind \in {"reconcile", "ensure", "start", "rollback", "retry"}
  /\ op.pc \in {"stop", "abort", "commit", "rollback"} => op.kind = "reconcile"
  /\ op.pc = "remove" => op.kind \in {"reconcile", "ensure"}
  /\ op.pc \notin {"idle", "emit"} => op.revision # None

\* ... in terms of the stored state: a reconcile of the pending revision, which
\* has been fetched, and everything else of the current one.
RevisionInv ==
  /\ op.kind = "reconcile" /\ op.pc # "remove" =>
       /\ op.revision = states.pending
       /\ op.previous = states.current
       /\ op.pc # "fetch" /\ Installed(op.revision) => op.revision.release \in releases
  /\ op.kind \in {"ensure", "start", "rollback", "retry"} => op.revision = states.current
  /\ op.kind = "ensure" => states.pending = None
  /\ op.pc \in {"launch", "configure"} /\ op.kind # "reconcile" => WantsProcess(op.revision)
  /\ op.pc = "remove" =>
       /\ op.revision = states.current /\ op.revision.state = "absent"
       /\ states.pending = None

\* The process that the holder has started and nobody else knows of.
CandidateInv ==
  /\ op.process # None =>
       /\ op.pc \in {"configure", "stop", "abort", "commit"}
       /\ procs[op.process].revision = op.revision
       /\ ~procs[op.process].ready
  /\ op.pc \in {"configure", "stop", "abort"} => op.process # None
  /\ op.pc = "stop" => op.revision.state = "stopped"
  /\ op.pc = "commit" => (op.process # None <=> op.revision.state = "running")

\* A process that is alive is in charge or a candidate, and a candidate is only
\* started when no process in charge is alive.
AliveInv ==
  /\ \A p \in Processes : Alive(p) /\ ~procs[p].stuck => p = inCharge \/ p = op.process
  /\ op.pc \in Starting => inCharge = None \/ (op.kind = "ensure" /\ Exited(inCharge))
  /\ op.pc = "remove" => inCharge = None

\* Before the first action and after Close nothing happens.
DownInv == agent \in {"down", "closed"} => op.pc = "idle" /\ inCharge = None

\* A process that is offered is one of the current revision, and is reported.
ServeInv ==
  inCharge # None /\ procs[inCharge].ready =>
    /\ WantsProcess(states.current)
    /\ procs[inCharge].revision = states.current

ReportInv ==
  inCharge # None /\ procs[inCharge].ready /\ Alive(inCharge) /\ ~procs[inCharge].stuck =>
    IF op.pc = "emit" THEN op.status = StatusOf(procs[inCharge].revision)
                      ELSE reported \in {Lost, StatusOf(procs[inCharge].revision)}

\* The process in charge is watched, and a plugin that should run has one, or a
\* goroutine that waits to start one, or a holder that is at it.
WatchInv == ~stopFailed /\ inCharge # None => watch[inCharge] # "none"

SuperviseInv ==
  ~stopFailed /\ agent = "up" /\ WantsProcess(states.current) =>
    \/ retries > 0
    \/ inCharge # None
    \/ op.pc \in Starting /\ op.kind # "ensure"

IInv ==
  /\ TypeOK /\ StoreInv /\ ReleasesRetained /\ OpInv /\ RevisionInv /\ CandidateInv
  /\ AliveInv /\ DownInv /\ ServeInv /\ ReportInv /\ WatchInv /\ SuperviseInv

-----------------------------------------------------------------------------
(* Types.                                                                  *)

\* The types of what most steps leave alone, and of op, procs and watch.
OpType == op \in Op
ProcsType == procs \in [Processes -> Process]
WatchType == watch \in [Processes -> {"none", "select", "exit", "unhealthy"}]

LEMMA NoneNotProcess == None \notin Processes
  BY DEF Processes

LEMMA RevisionType ==
  ASSUME NEW r \in Revision
  PROVE  /\ r # None /\ r.generation \in Nat \ {0}
         /\ r.state \in {"running", "stopped", "absent"}
         /\ r.state # "absent" <=> Installed(r)
         /\ r.state = "running" <=> WantsProcess(r)
         /\ Installed(r) => r.release \in Releases
         /\ StatusOf(r) \in Status /\ Failed(r) \in Status
  <1>1. r # None
    OBVIOUS
  <1>2. /\ r.generation \in Nat \ {0} /\ r.state \in {"running", "stopped", "absent"}
        /\ r.state # "absent" => r.release \in Releases
    BY DEF Revision
  <1> QED
    BY <1>1, <1>2 DEF Installed, WantsProcess, StatusOf, Failed, Status

LEMMA IdleType ==
  /\ Idle \in Op
  /\ Idle.kind = "none" /\ Idle.pc = "idle" /\ Idle.revision = None /\ Idle.previous = None
  /\ Idle.process = None /\ Idle.status = Silent /\ Idle.prune = FALSE
  BY DEF Idle, Op, OpKinds, OpPcs

\* The steps that op takes.
LEMMA ReturnType ==
  ASSUME Return
  PROVE  OpType' /\ op'.pc = "idle" /\ op'.kind = "none" /\ op'.process = None
  BY IdleType DEF Return, OpType

LEMMA EmitType ==
  ASSUME NEW s \in Status, EmitAndReturn(s)
  PROVE  /\ OpType' /\ op'.pc = "emit" /\ op'.kind = "none" /\ op'.process = None
         /\ op'.status = s
  BY DEF EmitAndReturn, OpType, Op, Idle, OpKinds, OpPcs

LEMMA GotoType ==
  ASSUME OpType, NEW pc \in OpPcs, Goto(pc)
  PROVE  /\ OpType' /\ op'.pc = pc /\ op'.kind = op.kind /\ op'.revision = op.revision
         /\ op'.previous = op.previous /\ op'.process = op.process
         /\ op'.status = op.status /\ op'.prune = op.prune
  BY DEF Goto, OpType, Op

\* A new operation on a revision.
LEMMA BeginType ==
  ASSUME NEW kind \in OpKinds, NEW pc \in OpPcs, NEW revision \in Revision \cup {None},
         NEW previous \in Revision \cup {None},
         op' = [Idle EXCEPT !.kind = kind, !.pc = pc, !.revision = revision, !.previous = previous]
  PROVE  /\ OpType' /\ op'.pc = pc /\ op'.kind = kind /\ op'.revision = revision
         /\ op'.previous = previous /\ op'.process = None
  BY DEF OpType, Op, Idle

LEMMA LaunchType ==
  ASSUME NEW kind \in OpKinds, NEW revision \in Revision,
         op' = [Idle EXCEPT !.kind = kind, !.pc = "launch", !.revision = revision]
  PROVE  /\ OpType' /\ op'.pc = "launch" /\ op'.kind = kind /\ op'.revision = revision
         /\ op'.process = None
  BY DEF OpType, Op, Idle, OpPcs

LEMMA FaultType ==
  ASSUME faults \in 0 .. MaxFaults, Fault
  PROVE  faults' \in 0 .. MaxFaults
  BY DEF Fault

-----------------------------------------------------------------------------
(* Processes.                                                              *)

LEMMA NoProcessType ==
  /\ NoProcess \in Process /\ NoProcess.status = "gone" /\ NoProcess.revision = None
  /\ ~NoProcess.ready /\ ~NoProcess.stuck
  BY DEF NoProcess, Process

\* A process may end and may turn out to be stuck, but does not come to life and
\* is not offered.
Decay ==
  /\ ProcsType'
  /\ \A q \in Processes :
       /\ procs'[q].status = "alive" => procs[q].status = "alive"
       /\ procs'[q].ready => procs[q].ready /\ procs'[q].revision = procs[q].revision
       /\ procs'[q].status = "alive" /\ ~procs'[q].stuck => ~procs[q].stuck

\* The process has ended, or is stuck.
Stopped(p) == procs'[p].status # "alive" \/ procs'[p].stuck

LEMMA EndedDecays ==
  ASSUME ProcsType, NEW p \in Processes, procs' = [procs EXCEPT ![p] = Ended(p)]
  PROVE  Decay /\ procs'[p].status # "alive" /\ \A q \in Processes \ {p} : procs'[q] = procs[q]
  <1>1. /\ Ended(p) \in Process /\ Ended(p).status # "alive"
        /\ Ended(p).ready => procs[p].ready /\ Ended(p).revision = procs[p].revision
    BY NoProcessType DEF Ended, ProcsType, Process
  <1>2. procs'[p] = Ended(p) /\ \A q \in Processes \ {p} : procs'[q] = procs[q]
    BY DEF ProcsType
  <1>3. ProcsType'
    BY <1>1 DEF ProcsType
  <1> QED
    BY <1>1, <1>2, <1>3 DEF Decay

LEMMA StuckDecays ==
  ASSUME ProcsType, NEW p \in Processes, procs' = [procs EXCEPT ![p].stuck = TRUE]
  PROVE  /\ Decay /\ procs'[p].stuck /\ procs'[p].status = procs[p].status
         /\ procs'[p].ready = procs[p].ready /\ procs'[p].revision = procs[p].revision
         /\ \A q \in Processes \ {p} : procs'[q] = procs[q]
  <1>1. procs' = [procs EXCEPT ![p] = [procs[p] EXCEPT !.stuck = TRUE]]
    OBVIOUS
  <1> DEFINE r == [procs[p] EXCEPT !.stuck = TRUE]
  <1>2. /\ r \in Process /\ r.stuck /\ r.status = procs[p].status
        /\ r.ready = procs[p].ready /\ r.revision = procs[p].revision
    BY DEF ProcsType, Process
  <1>3. procs'[p] = r /\ \A q \in Processes \ {p} : procs'[q] = procs[q]
    BY DEF ProcsType
  <1>4. ProcsType'
    BY <1>1, <1>2 DEF ProcsType
  <1> HIDE DEF r
  <1> QED
    BY <1>2, <1>3, <1>4 DEF Decay

LEMMA StopDecays ==
  ASSUME ProcsType, NEW p \in Processes, StopSucceeds(p) \/ StopFails(p)
  PROVE  /\ Decay /\ Stopped(p) /\ \A q \in Processes \ {p} : procs'[q] = procs[q]
         /\ StopSucceeds(p) => procs'[p].status # "alive"
         /\ procs'[p].ready => procs[p].ready
  BY EndedDecays, StuckDecays DEF StopSucceeds, StopFails, Stopped, Decay

-----------------------------------------------------------------------------
(* Steps without the mutex, and the end of the Agent.                      *)

LEMMA InitIInv ==
  ASSUME Init
  PROVE  IInv
  <1> USE DEF Init, StateInit
  <1>1. NoFile \in PluginFile /\ FileInv(NoFile) /\ NoFile.current = None /\ NoFile.previous = None
    BY DEF NoFile, PluginFile, FileInv
  <1>2. TypeOK
    <2>1. StateTypeOK
      BY <1>1 DEF StateTypeOK
    <2>2. op \in Op /\ procs \in [Processes -> Process]
      BY IdleType, NoProcessType
    <2>3. watch \in [Processes -> {"none", "select", "exit", "unhealthy"}]
      OBVIOUS
    <2>4. data \in BOOLEAN /\ stopFailed \in BOOLEAN
      OBVIOUS
    <2>5. retries \in Nat /\ faults \in 0 .. MaxFaults
      OBVIOUS
    <2> QED
      BY <2>1, <2>2, <2>3, <2>4, <2>5 DEF TypeOK
  <1>3. StoreInv /\ ReleasesRetained
    BY <1>1 DEF StoreInv, ReleasesRetained, Installed
  <1>4. OpInv /\ RevisionInv /\ CandidateInv
    BY IdleType DEF OpInv, RevisionInv, CandidateInv
  <1>5. AliveInv
    BY NoProcessType, IdleType DEF AliveInv, Alive, Starting
  <1>6. DownInv /\ ServeInv /\ ReportInv /\ WatchInv
    BY IdleType DEF DownInv, ServeInv, ReportInv, WatchInv
  <1>7. SuperviseInv
    BY DEF SuperviseInv
  <1> QED
    BY <1>2, <1>3, <1>4, <1>5, <1>6, <1>7 DEF IInv

\* Processes end, watches notice something, and the Agent is cancelled, while
\* the holder and the process in charge stay.
LEMMA QuietStep ==
  ASSUME IInv,
         UNCHANGED <<stateVars, inCharge, op, data, reported, stopFailed>>,
         agent' = agent \/ agent' = "cancelled" \/ (agent' = "closing" /\ agent = "cancelled"),
         agent' = "cancelled" => agent \in {"up", "cancelled"},
         retries' \in Nat, faults' \in 0 .. MaxFaults,
         retries' = retries \/ agent # "up" \/ ~WantsProcess(states.current) \/ inCharge # None,
         WatchType', inCharge # None /\ watch[inCharge] # "none" => watch'[inCharge] # "none",
         Decay, op.process # None => procs'[op.process].revision = procs[op.process].revision
  PROVE  IInv'
  <1>1. UNCHANGED <<stored, states, releases, inCharge, op, data, reported, stopFailed>>
    BY DEF stateVars
  <1>2. TypeOK /\ op.process \in Processes \cup {None} /\ inCharge \in Processes \cup {None}
    BY DEF IInv, TypeOK, Op
  <1>3. TypeOK'
    BY <1>1, <1>2 DEF TypeOK, StateTypeOK, Decay, ProcsType, WatchType
  <1>4. StoreInv' /\ ReleasesRetained'
    BY <1>1 DEF IInv, StoreInv, ReleasesRetained
  <1>5. OpInv' /\ RevisionInv'
    BY <1>1 DEF IInv, OpInv, RevisionInv
  <1>6. CandidateInv'
    BY <1>1, <1>2 DEF IInv, CandidateInv, Decay
  <1>7. AliveInv'
    BY <1>1, <1>2 DEF IInv, AliveInv, Alive, Exited, Decay
  <1>8. DownInv'
    BY <1>1 DEF IInv, DownInv
  <1>9. ServeInv'
    BY <1>1, <1>2 DEF IInv, ServeInv, Decay
  <1>10. ReportInv'
    BY <1>1, <1>2 DEF IInv, ReportInv, Decay, Alive
  <1>11. WatchInv'
    BY <1>1, <1>2 DEF IInv, WatchInv
  <1>12. SuperviseInv'
    BY <1>1 DEF IInv, SuperviseInv
  <1> QED
    BY <1>3, <1>4, <1>5, <1>6, <1>7, <1>8, <1>9, <1>10, <1>11, <1>12 DEF IInv

LEMMA Stutters ==
  ASSUME ProcsType, UNCHANGED procs
  PROVE  Decay
  BY DEF Decay, ProcsType

LEMMA AgentQuietStep ==
  ASSUME IInv, Cancel \/ Close \/ RetryEnds
  PROVE  IInv'
  <1>1. /\ UNCHANGED <<stateVars, procs, inCharge, watch, op, data, reported, stopFailed>>
        /\ agent' = agent \/ agent' = "cancelled" \/ (agent' = "closing" /\ agent = "cancelled")
        /\ agent' = "cancelled" => agent \in {"up", "cancelled"}
    BY DEF Cancel, Close, RetryEnds
  <1>2. TypeOK
    BY DEF IInv
  <1>3. faults' \in 0 .. MaxFaults
    BY <1>2, FaultType DEF Cancel, Close, RetryEnds, TypeOK
  <1>4. /\ retries' \in Nat
        /\ retries' = retries \/ agent # "up" \/ ~WantsProcess(states.current) \/ inCharge # None
    BY <1>2 DEF Cancel, Close, RetryEnds, Recoverable, TypeOK
  <1>5. Decay /\ WatchType'
    BY <1>1, <1>2, Stutters DEF TypeOK, ProcsType, WatchType
  <1> QED
    BY <1>1, <1>3, <1>4, <1>5, QuietStep

LEMMA ProcessExitsStep ==
  ASSUME IInv, NEW p \in Processes, ProcessExits(p)
  PROVE  IInv'
  <1>1. UNCHANGED <<stateVars, agent, inCharge, watch, retries, op, data, reported, stopFailed>>
    BY DEF ProcessExits
  <1>2. TypeOK /\ ProcsType
    BY DEF IInv, TypeOK, ProcsType
  <1>3. faults' \in 0 .. MaxFaults
    BY <1>2, FaultType DEF ProcessExits, TypeOK
  <1> DEFINE r == IF watch[p] = "none" /\ p # inCharge /\ p # op.process
                  THEN NoProcess ELSE [procs[p] EXCEPT !.status = "exited"]
  <1>4. procs' = [procs EXCEPT ![p] = r]
    BY DEF ProcessExits
  <1>5. /\ r \in Process /\ r.status # "alive"
        /\ r.ready => procs[p].ready /\ r.revision = procs[p].revision
        /\ p = op.process => r.revision = procs[p].revision
    BY <1>2, NoProcessType DEF ProcsType, Process
  <1> HIDE DEF r
  <1>6. procs'[p] = r /\ \A q \in Processes \ {p} : procs'[q] = procs[q]
    BY <1>2, <1>4 DEF ProcsType
  <1>7. ProcsType'
    BY <1>2, <1>4, <1>5 DEF ProcsType
  <1>8. Decay
    BY <1>5, <1>6, <1>7 DEF Decay
  <1>9. op.process # None => procs'[op.process].revision = procs[op.process].revision
    BY <1>2, <1>5, <1>6 DEF TypeOK, Op
  <1>10. retries' \in Nat /\ WatchType'
    BY <1>1, <1>2 DEF TypeOK, WatchType
  <1> QED
    BY <1>1, <1>3, <1>8, <1>9, <1>10, QuietStep

\* A watch leaves its select, or ends without a look at another process.
LEMMA WatchQuietStep ==
  ASSUME IInv, NEW p \in Processes,
         WatchSeesExit(p) \/ WatchSeesUnhealthy(p) \/ WatchSeesMismatch(p) \/ WatchOfOther(p)
  PROVE  IInv'
  <1>1. UNCHANGED <<stateVars, agent, inCharge, retries, op, data, reported, stopFailed>>
    BY DEF WatchSeesExit, WatchSeesUnhealthy, WatchSeesMismatch, WatchOfOther, WatchFrame
  <1>2. TypeOK /\ ProcsType /\ WatchType
    BY DEF IInv, TypeOK, ProcsType, WatchType
  <1>3. faults' \in 0 .. MaxFaults
    BY <1>2, FaultType
    DEF WatchSeesExit, WatchSeesUnhealthy, WatchSeesMismatch, WatchOfOther, CallFails, TypeOK
  <1>4. \E w \in {"none", "exit", "unhealthy"} :
          /\ watch' = [watch EXCEPT ![p] = w]
          /\ w = "none" => p # inCharge
    BY DEF WatchSeesExit, WatchSeesUnhealthy, WatchSeesMismatch, WatchOfOther
  <1>5. WatchType' /\ (inCharge # None /\ watch[inCharge] # "none" => watch'[inCharge] # "none")
    BY <1>2, <1>4 DEF WatchType, TypeOK
  <1>6. Decay /\ (op.process # None => procs'[op.process].revision = procs[op.process].revision)
    <2>1. CASE UNCHANGED procs
      BY <2>1, <1>2, Stutters
    <2>2. CASE WatchOfOther(p) /\ ~Alive(p)
      <3>1. procs' = [procs EXCEPT ![p] = NoProcess]
        BY <2>2 DEF WatchOfOther
      <3>2. procs'[p] = NoProcess /\ \A q \in Processes \ {p} : procs'[q] = procs[q]
        BY <1>2, <3>1 DEF ProcsType
      <3>3. ProcsType'
        BY <1>2, <3>1, NoProcessType DEF ProcsType
      <3>4. op.process = None
        BY <2>2 DEF WatchOfOther, Unlocked, IInv, CandidateInv
      <3> QED
        BY <3>2, <3>3, <3>4, NoProcessType DEF Decay
    <2>3. CASE WatchOfOther(p) /\ Alive(p)
      BY <1>2, <2>1, <2>3 DEF WatchOfOther, ProcsType
    <2> QED
      BY <2>1, <2>2, <2>3 DEF WatchSeesExit, WatchSeesUnhealthy, WatchSeesMismatch
  <1>7. retries' \in Nat
    BY <1>1, <1>2 DEF TypeOK
  <1> QED
    BY <1>1, <1>3, <1>5, <1>6, <1>7, QuietStep

LEMMA GoneStep ==
  ASSUME IInv, Crash \/ Exit
  PROVE  IInv'
  <1>1. /\ agent' = "down" /\ procs' = [p \in Processes |-> NoProcess] /\ inCharge' = None
        /\ watch' = [p \in Processes |-> "none"] /\ retries' = 0 /\ op' = Idle /\ states' = NoFile
        /\ UNCHANGED <<stored, releases, data, reported, stopFailed>>
    BY DEF Crash, Exit, Gone
  <1>2. NoFile \in PluginFile /\ FileInv(NoFile) /\ NoFile.current = None /\ NoFile.previous = None
    BY DEF NoFile, PluginFile, FileInv
  <1>3. faults' \in 0 .. MaxFaults
    BY FaultType DEF Crash, Exit, IInv, TypeOK
  <1>4. procs' \in [Processes -> Process] /\ \A p \in Processes : procs'[p].status = "gone"
    BY <1>1, NoProcessType
  <1>5. watch' \in [Processes -> {"none", "select", "exit", "unhealthy"}]
    BY <1>1
  <1>6. TypeOK'
    BY <1>1, <1>2, <1>3, <1>4, <1>5, IdleType DEF IInv, TypeOK, StateTypeOK
  <1>7. StoreInv' /\ ReleasesRetained'
    BY <1>1, <1>2 DEF IInv, StoreInv, ReleasesRetained, Installed
  <1>8. OpInv' /\ RevisionInv' /\ CandidateInv'
    BY <1>1, IdleType DEF OpInv, RevisionInv, CandidateInv
  <1>9. AliveInv'
    BY <1>1, <1>4, IdleType DEF AliveInv, Alive, Starting
  <1>10. DownInv' /\ ServeInv' /\ ReportInv' /\ WatchInv' /\ SuperviseInv'
    BY <1>1, IdleType DEF DownInv, ServeInv, ReportInv, WatchInv, SuperviseInv
  <1> QED
    BY <1>6, <1>7, <1>8, <1>9, <1>10 DEF IInv

\* NewSupervisor and Start read what is stored.
LEMMA BootStep ==
  ASSUME IInv, Boot
  PROVE  IInv'
  <1>1. /\ agent = "down" /\ agent' = "up" /\ states' = stored /\ stopFailed' = FALSE
        /\ UNCHANGED <<stored, releases, procs, inCharge, watch, retries, data, reported, faults>>
    BY DEF Boot
  <1>2. TypeOK /\ stored.current \in Revision \cup {None}
    BY DEF IInv, TypeOK, StateTypeOK, PluginFile
  <1>3. inCharge = None /\ op.process = None
    BY <1>1 DEF IInv, DownInv, CandidateInv
  <1>4. /\ OpType' /\ op'.process = None
        /\ \/ /\ op'.pc = "launch" /\ op'.kind = "start" /\ op'.revision = stored.current
              /\ stored.current # None /\ WantsProcess(stored.current)
           \/ op'.pc \in {"idle", "emit"} /\ op'.kind = "none" /\ ~WantsProcess(stored.current)
    <2>1. CASE stored.current = None
      <3>1. op' = Idle
        BY <2>1 DEF Boot
      <3> QED
        BY <2>1, <3>1, IdleType DEF OpType, WantsProcess
    <2>2. CASE stored.current # None /\ WantsProcess(stored.current)
      <3>1. op' = [Idle EXCEPT !.kind = "start", !.pc = "launch", !.revision = stored.current]
        BY <2>2 DEF Boot
      <3>2. "start" \in OpKinds /\ stored.current \in Revision
        BY <1>2, <2>2 DEF OpKinds
      <3> QED
        BY <2>2, <3>1, <3>2, LaunchType
    <2>3. CASE stored.current # None /\ ~WantsProcess(stored.current)
      <3>1. \E s \in {Failed(stored.current), StatusOf(stored.current)} : EmitAndReturn(s)
        BY <2>3 DEF Boot, EmitAndReturn
      <3>2. StatusOf(stored.current) \in Status /\ Failed(stored.current) \in Status
        BY <1>2, <2>3, RevisionType
      <3> QED
        BY <2>3, <3>1, <3>2, EmitType
    <2> QED
      BY <2>1, <2>2, <2>3
  <1>5. TypeOK'
    <2>1. stopFailed' \in BOOLEAN
      BY <1>1
    <2> QED
      BY <1>1, <1>2, <1>4, <2>1 DEF TypeOK, StateTypeOK, OpType
  <1>6. StoreInv' /\ ReleasesRetained'
    BY <1>1 DEF IInv, StoreInv, ReleasesRetained
  <1>7. OpInv' /\ RevisionInv' /\ CandidateInv'
    BY <1>1, <1>4 DEF OpInv, RevisionInv, CandidateInv
  <1>8. AliveInv'
    BY <1>1, <1>3, <1>4 DEF IInv, AliveInv, Alive
  <1>9. DownInv' /\ ServeInv' /\ ReportInv' /\ WatchInv' /\ SuperviseInv'
    BY <1>1, <1>3, <1>4 DEF DownInv, ServeInv, ReportInv, WatchInv, SuperviseInv, Starting
  <1> QED
    BY <1>5, <1>6, <1>7, <1>8, <1>9 DEF IInv

\* Close stops the process in charge, under the mutex.
LEMMA CloseActorStep ==
  ASSUME IInv, CloseActor
  PROVE  IInv'
  <1>1. /\ agent = "closing" /\ op.pc = "idle" /\ agent' = "closed" /\ inCharge' = None
        /\ UNCHANGED <<stored, states, releases, watch, retries, op, data, reported>>
    BY DEF CloseActor, stateVars, Unlocked
  <1>2. TypeOK /\ ProcsType
    BY DEF IInv, TypeOK, ProcsType
  <1>3. op.process = None
    BY <1>1 DEF IInv, CandidateInv
  <1>4. faults' \in 0 .. MaxFaults
    BY <1>2, FaultType DEF CloseActor, StopFails, TypeOK
  <1>5. stopFailed' \in BOOLEAN
    BY <1>2 DEF CloseActor, StopFails, StopSucceeds, TypeOK
  <1>6. Decay /\ (inCharge # None => Stopped(inCharge))
    BY <1>2, StopDecays, Stutters DEF CloseActor, TypeOK
  <1>7. TypeOK'
    BY <1>1, <1>2, <1>4, <1>5, <1>6 DEF TypeOK, StateTypeOK, Decay, ProcsType
  <1>8. StoreInv' /\ ReleasesRetained' /\ OpInv' /\ RevisionInv'
    BY <1>1 DEF IInv, StoreInv, ReleasesRetained, OpInv, RevisionInv
  <1>9. CandidateInv'
    BY <1>1, <1>3 DEF CandidateInv
  <1>10. AliveInv'
    BY <1>1, <1>2, <1>3, <1>6 DEF IInv, AliveInv, Alive, Decay, Stopped, Starting
  <1>11. DownInv' /\ ServeInv' /\ ReportInv' /\ WatchInv' /\ SuperviseInv'
    BY <1>1 DEF DownInv, ServeInv, ReportInv, WatchInv, SuperviseInv
  <1> QED
    BY <1>7, <1>8, <1>9, <1>10, <1>11 DEF IInv

-----------------------------------------------------------------------------
(* Recovery.                                                               *)

\* The files after a step that may have failed to save the state again.
LEMMA SavedAgain ==
  ASSUME IInv, agent # "down", Save(states) \/ SaveFails(states), agent' # "down",
         UNCHANGED releases
  PROVE  stored' \in {stored, states} /\ UNCHANGED states /\ StoreInv' /\ ReleasesRetained'
  <1>1. stored' \in {stored, states} /\ UNCHANGED states
    BY DEF Save, SaveFails
  <1>2. StoreInv'
    BY <1>1 DEF IInv, StoreInv
  <1>3. ReleasesRetained'
    BY <1>1 DEF IInv, ReleasesRetained
  <1> QED
    BY <1>1, <1>2, <1>3

\* The watch of the process in charge gives it up and starts a retry.
LEMMA WatchRestartsStep ==
  ASSUME IInv, NEW p \in Processes, WatchRestarts(p)
  PROVE  IInv'
  <1>1. /\ op.pc = "idle" /\ inCharge = p /\ inCharge' = None
        /\ watch' = [watch EXCEPT ![p] = "none"] /\ procs' = [procs EXCEPT ![p] = NoProcess]
        /\ retries' = retries + 1
        /\ UNCHANGED <<agent, releases, data, reported, stopFailed>>
    BY DEF WatchRestarts, Unlocked
  <1>2. TypeOK /\ ProcsType /\ states.current \in Revision \cup {None}
    BY DEF IInv, TypeOK, ProcsType, StateTypeOK, PluginFile
  <1>3. op.process = None /\ agent # "down" /\ agent # "closed"
    BY <1>1, NoneNotProcess DEF IInv, CandidateInv, DownInv
  <1>4. UNCHANGED states /\ stored' \in {stored, states} /\ StoreInv' /\ ReleasesRetained'
    <2>1. CASE Save(states) \/ SaveFails(states)
      BY <1>1, <1>3, <2>1, SavedAgain
    <2>2. CASE UNCHANGED <<stored, states>>
      BY <1>1, <2>2 DEF IInv, StoreInv, ReleasesRetained
    <2> QED
      BY <2>1, <2>2 DEF WatchRestarts
  <1>5. OpType' /\ op'.pc \in {"idle", "emit"} /\ op'.kind = "none" /\ op'.process = None
    <2>1. CASE WantsProcess(states.current) /\ EmitAndReturn(Failed(states.current))
      BY <1>2, <2>1, RevisionType, EmitType DEF WantsProcess
    <2>2. CASE UNCHANGED op
      BY <1>1, <1>2, <1>3, <2>2 DEF IInv, OpInv, OpType, TypeOK
    <2> QED
      BY <2>1, <2>2 DEF WatchRestarts
  <1>6. faults' \in 0 .. MaxFaults
    BY <1>2, FaultType DEF WatchRestarts, TypeOK
  <1>7. /\ procs' \in [Processes -> Process] /\ procs'[p] = NoProcess
        /\ \A q \in Processes \ {p} : procs'[q] = procs[q]
    BY <1>1, <1>2, NoProcessType DEF ProcsType
  <1>8. retries' \in Nat /\ retries' > 0
    BY <1>1, <1>2 DEF TypeOK
  <1>9. watch' \in [Processes -> {"none", "select", "exit", "unhealthy"}]
    BY <1>1, <1>2 DEF TypeOK
  <1>10. TypeOK'
    BY <1>1, <1>2, <1>4, <1>5, <1>6, <1>7, <1>8, <1>9 DEF TypeOK, StateTypeOK, OpType
  <1>11. OpInv' /\ RevisionInv' /\ CandidateInv'
    BY <1>5 DEF OpInv, RevisionInv, CandidateInv
  <1>12. AliveInv'
    BY <1>1, <1>3, <1>5, <1>7, NoProcessType DEF IInv, AliveInv, Alive, Starting
  <1>13. DownInv' /\ ServeInv' /\ ReportInv' /\ WatchInv' /\ SuperviseInv'
    BY <1>1, <1>3, <1>8 DEF DownInv, ServeInv, ReportInv, WatchInv, SuperviseInv
  <1> QED
    BY <1>4, <1>10, <1>11, <1>12, <1>13 DEF IInv

\* ... or cannot stop it.
LEMMA WatchCannotStopStep ==
  ASSUME IInv, NEW p \in Processes, WatchCannotStop(p)
  PROVE  IInv'
  <1>1. /\ op.pc = "idle" /\ inCharge = p /\ stopFailed' = TRUE
        /\ watch' = [watch EXCEPT ![p] = "select"]
        /\ procs' = [procs EXCEPT ![p].stuck = TRUE]
        /\ UNCHANGED <<stored, states, agent, releases, inCharge, retries, data, reported>>
    BY DEF WatchCannotStop, Unlocked, stateVars
  <1>2. TypeOK /\ ProcsType /\ states.current \in Revision \cup {None}
    BY DEF IInv, TypeOK, ProcsType, StateTypeOK, PluginFile
  <1>3. op.process = None /\ agent # "down" /\ agent # "closed"
    BY <1>1, NoneNotProcess DEF IInv, CandidateInv, DownInv
  <1>4. OpType' /\ op'.pc \in {"idle", "emit"} /\ op'.kind = "none" /\ op'.process = None
    <2>1. CASE states.current # None /\ EmitAndReturn(Failed(states.current))
      BY <1>2, <2>1, RevisionType, EmitType
    <2>2. CASE UNCHANGED op
      BY <1>1, <1>2, <1>3, <2>2 DEF IInv, OpInv, OpType, TypeOK
    <2> QED
      BY <2>1, <2>2 DEF WatchCannotStop
  <1>5. faults' \in 0 .. MaxFaults
    BY <1>2, FaultType DEF WatchCannotStop, TypeOK
  <1>6. /\ Decay /\ procs'[p].stuck /\ procs'[p].ready = procs[p].ready
        /\ procs'[p].revision = procs[p].revision
    BY <1>1, <1>2, StuckDecays
  <1>7. stopFailed' \in BOOLEAN /\ stopFailed'
    BY <1>1
  <1>8. watch' \in [Processes -> {"none", "select", "exit", "unhealthy"}]
    BY <1>1, <1>2 DEF TypeOK
  <1>9. TypeOK'
    BY <1>1, <1>2, <1>4, <1>5, <1>6, <1>7, <1>8 DEF TypeOK, StateTypeOK, OpType, Decay, ProcsType
  <1>10. StoreInv' /\ ReleasesRetained'
    BY <1>1 DEF IInv, StoreInv, ReleasesRetained
  <1>11. OpInv' /\ RevisionInv' /\ CandidateInv'
    BY <1>4 DEF OpInv, RevisionInv, CandidateInv
  <1>12. AliveInv'
    BY <1>1, <1>3, <1>4, <1>6 DEF IInv, AliveInv, Alive, Starting, Decay
  <1>13. ServeInv' /\ ReportInv'
    BY <1>1, <1>6 DEF IInv, ServeInv, ReportInv
  <1>14. DownInv' /\ WatchInv' /\ SuperviseInv'
    BY <1>1, <1>3, <1>7 DEF DownInv, WatchInv, SuperviseInv
  <1> QED
    BY <1>9, <1>10, <1>11, <1>12, <1>13, <1>14 DEF IInv

\* retryRecovery has the mutex and something to start.
LEMMA RetryStartsStep ==
  ASSUME IInv, RetryStarts
  PROVE  IInv'
  <1>1. /\ op.pc = "idle" /\ retries > 0 /\ retries' = retries - 1 /\ inCharge = None
        /\ agent \in {"up", "cancelled"} /\ WantsProcess(states.current)
        /\ op' = [Idle EXCEPT !.kind = "retry", !.pc = "launch", !.revision = states.current]
        /\ UNCHANGED <<stored, states, releases, agent, procs, inCharge, watch, data, reported,
                       stopFailed, faults>>
    BY DEF RetryStarts, Unlocked, Recoverable, stateVars
  <1>2. TypeOK /\ states.current \in Revision
    BY <1>1 DEF IInv, TypeOK, StateTypeOK, PluginFile, WantsProcess
  <1>3. op.process = None
    BY <1>1 DEF IInv, CandidateInv
  <1>4. /\ OpType' /\ op'.pc = "launch" /\ op'.kind = "retry" /\ op'.revision = states.current
        /\ op'.process = None
    BY <1>1, <1>2, LaunchType DEF OpKinds
  <1>5. retries' \in Nat
    BY <1>1, <1>2 DEF TypeOK
  <1>6. TypeOK'
    BY <1>1, <1>2, <1>4, <1>5 DEF TypeOK, StateTypeOK, OpType
  <1>7. StoreInv' /\ ReleasesRetained'
    BY <1>1 DEF IInv, StoreInv, ReleasesRetained
  <1>8. OpInv' /\ RevisionInv' /\ CandidateInv'
    BY <1>1, <1>2, <1>4 DEF OpInv, RevisionInv, CandidateInv
  <1>9. AliveInv'
    BY <1>1, <1>3, <1>4 DEF IInv, AliveInv, Alive
  <1>10. DownInv' /\ ServeInv' /\ ReportInv' /\ WatchInv' /\ SuperviseInv'
    BY <1>1, <1>4 DEF DownInv, ServeInv, ReportInv, WatchInv, SuperviseInv, Starting
  <1> QED
    BY <1>6, <1>7, <1>8, <1>9, <1>10 DEF IInv

-----------------------------------------------------------------------------
(* The files of prepare and commit.                                        *)

LEMMA PreparedFile ==
  ASSUME states \in PluginFile, FileInv(states), NEW request \in Revision, IsNew(request)
  PROVE  LET file == Prepared(request)
         IN  /\ file \in PluginFile /\ FileInv(file)
             /\ file.current = states.current /\ file.previous = states.previous
             /\ file.pending = request
  <1> DEFINE file == Prepared(request)
  <1>1. request.generation \in Nat /\ request.generation > states.last
    BY RevisionType DEF IsNew
  <1>2. /\ file \in PluginFile /\ file.last = request.generation
        /\ file.current = states.current /\ file.previous = states.previous
        /\ file.pending = request
    BY <1>1 DEF Prepared, PluginFile
  <1>3. states.current # None => states.current.generation < request.generation
    BY <1>1, RevisionType DEF FileInv, PluginFile
  <1> HIDE DEF file
  <1>4. FileInv(file)
    BY <1>2, <1>3, RevisionType DEF FileInv, PluginFile
  <1> QED
    BY <1>2, <1>4 DEF file

LEMMA CommittedFile ==
  ASSUME states \in PluginFile, FileInv(states), NEW request \in Revision,
         request = states.pending
  PROVE  LET file == Committed(request)
         IN  /\ file \in PluginFile /\ FileInv(file)
             /\ file.current = request /\ file.pending = None
             /\ file.previous \in {None, states.current, states.previous}
  <1> DEFINE file == Committed(request)
  <1>1. request # None /\ request.generation = states.last /\ request.generation \in Nat
    BY RevisionType DEF FileInv
  <1>2. /\ file \in PluginFile /\ file.last = states.last
        /\ file.current = request /\ file.pending = None
        /\ file.previous \in {None, states.current, states.previous}
        /\ request.state = "absent" => file.previous = None
    BY DEF Committed, PluginFile
  <1> HIDE DEF file
  <1>3. FileInv(file)
    BY <1>1, <1>2 DEF FileInv
  <1> QED
    BY <1>2, <1>3 DEF file

\* What pruneReleases keeps.
LEMMA PruneKeeps ==
  ASSUME NEW file, NEW left, Pruned(file, left),
         NEW revision \in {file.current, file.previous, file.pending},
         Installed(revision), revision.release \in releases
  PROVE  revision.release \in left
  BY DEF Pruned, Kept, Installed

-----------------------------------------------------------------------------
(* executeReconcile.                                                       *)

\* The holder goes on and leaves the processes alone.
LEMMA MoveStep ==
  ASSUME IInv, op.pc # "idle",
         UNCHANGED <<stored, states, agent, procs, inCharge, watch>>,
         stopFailed' = stopFailed \/ stopFailed' = TRUE, stopFailed' \in BOOLEAN,
         releases' \subseteq Releases, ReleasesRetained', faults' \in 0 .. MaxFaults,
         retries' \in Nat, data' \in BOOLEAN, reported' \in Status \cup {Silent, Lost},
         OpType', OpInv', RevisionInv', CandidateInv', AliveInv', ReportInv', SuperviseInv'
  PROVE  IInv'
  <1>1. TypeOK'
    BY DEF IInv, TypeOK, StateTypeOK, OpType
  <1>2. StoreInv' /\ ServeInv'
    BY DEF IInv, StoreInv, ServeInv
  <1>3. WatchInv'
    BY DEF IInv, WatchInv
  <1>4. DownInv'
    BY DEF IInv, DownInv
  <1> QED
    BY <1>1, <1>2, <1>3, <1>4 DEF IInv

LEMMA BeginFacts ==
  ASSUME TypeOK, NEW request \in Revision, NEW file \in PluginFile, Begin(request, file)
  PROVE  /\ OpType' /\ op'.revision = request /\ op'.previous = file.current
         /\ op'.process = None
         /\ op'.kind = IF IsCurrent(request) THEN "ensure" ELSE "reconcile"
         /\ op'.pc = IF request.state = "absent" THEN "detach" ELSE "fetch"
         /\ releases' \subseteq releases
         /\ \A revision \in {file.current, file.previous, file.pending} :
              Installed(revision) /\ revision.release \in releases
                => revision.release \in releases'
  <1> DEFINE kind == IF IsCurrent(request) THEN "ensure" ELSE "reconcile"
             pc == IF request.state = "absent" THEN "detach" ELSE "fetch"
  <1>1. kind \in OpKinds /\ pc \in OpPcs /\ file.current \in Revision \cup {None}
    BY DEF OpKinds, OpPcs, PluginFile
  <1>2. op' = [Idle EXCEPT !.kind = kind, !.pc = pc, !.revision = request,
                           !.previous = file.current]
    BY DEF Begin
  <1>3. PICK left \in SUBSET releases : Pruned(file, left) /\ releases' = left
    BY DEF Begin
  <1> HIDE DEF kind, pc
  <1>4. /\ OpType' /\ op'.revision = request /\ op'.previous = file.current
        /\ op'.process = None /\ op'.kind = kind /\ op'.pc = pc
    BY <1>1, <1>2, BeginType
  <1> QED
    BY <1>3, <1>4, PruneKeeps DEF kind, pc

LEMMA ReconcileStep ==
  ASSUME IInv, NEW request \in Requests, Reconcile(request)
  PROVE  IInv'
  <1> DEFINE file == IF IsNew(request) THEN Prepared(request) ELSE states
  <1>1. /\ agent \in {"up", "cancelled"} /\ op.pc = "idle"
        /\ UNCHANGED <<agent, procs, inCharge, watch, retries, data, reported, stopFailed>>
    BY DEF Reconcile, Unlocked
  <1>2. TypeOK /\ request \in Revision /\ states \in PluginFile /\ FileInv(states)
    BY DEF IInv, TypeOK, StateTypeOK, StoreInv
  <1>3. op.process = None /\ op.kind = "none"
    BY <1>1 DEF IInv, CandidateInv, OpInv
  <1>4. /\ file \in PluginFile /\ FileInv(file)
        /\ file.current = states.current /\ file.previous = states.previous
        /\ IsNew(request) \/ IsPending(request) => file.pending = request
        /\ ~IsNew(request) => file = states
    <2>1. CASE IsNew(request)
      BY <1>2, <2>1, PreparedFile
    <2>2. CASE ~IsNew(request)
      BY <1>2, <2>2 DEF IsPending
    <2> QED
      BY <2>1, <2>2
  <1>5. CASE Fault /\ SaveFails(file) /\ UNCHANGED <<op, releases>>
    <2>1. UNCHANGED <<states, op, releases>> /\ stored' \in {stored, file}
      BY <1>5 DEF SaveFails
    <2> HIDE DEF file
    <2>2. faults' \in 0 .. MaxFaults
      BY <1>2, <1>5, FaultType DEF TypeOK
    <2>3. TypeOK'
      BY <1>1, <1>2, <1>4, <2>1, <2>2 DEF TypeOK, StateTypeOK
    <2>4. StoreInv'
      BY <1>1, <1>4, <2>1 DEF IInv, StoreInv
    <2>5. ReleasesRetained'
      BY <1>1, <1>4, <2>1 DEF IInv, ReleasesRetained
    <2>6. OpInv' /\ RevisionInv' /\ CandidateInv' /\ AliveInv' /\ DownInv'
      BY <1>1, <2>1 DEF IInv, OpInv, RevisionInv, CandidateInv, AliveInv, DownInv, Alive, Exited
    <2>7. ServeInv' /\ ReportInv' /\ WatchInv' /\ SuperviseInv'
      BY <1>1, <2>1 DEF IInv, ServeInv, ReportInv, WatchInv, SuperviseInv, Alive
    <2> QED
      BY <2>3, <2>4, <2>5, <2>6, <2>7 DEF IInv
  <1>6. CASE /\ Begin(request, file) /\ UNCHANGED faults
             /\ \/ (IsNew(request) \/ IsPending(request)) /\ Save(file)
                \/ (IsCurrent(request) \/ IsPending(request)) /\ UNCHANGED <<stored, states>>
    <2>1. /\ states' = file
          /\ stored' = file \/ (stored' = stored /\ file = states)
          /\ IsNew(request) \/ IsPending(request) \/ IsCurrent(request)
      <3>1. IsCurrent(request) \/ IsPending(request) => ~IsNew(request)
        BY <1>2, RevisionType DEF IsNew, IsCurrent, IsPending, PluginFile
      <3> QED
        BY <1>4, <1>6, <3>1 DEF Save
    <2> HIDE DEF file
    <2>2. /\ OpType' /\ op'.revision = request /\ op'.previous = file.current
          /\ op'.process = None
          /\ op'.kind = IF IsCurrent(request) THEN "ensure" ELSE "reconcile"
          /\ op'.pc = IF request.state = "absent" THEN "detach" ELSE "fetch"
          /\ releases' \subseteq releases
          /\ \A revision \in {file.current, file.previous, file.pending} :
               Installed(revision) /\ revision.release \in releases
                 => revision.release \in releases'
      BY <1>2, <1>4, <1>6, BeginFacts
    <2>3. IsCurrent(request) => states.pending = None /\ file = states /\ states.current = request
      BY <1>2, <1>4, RevisionType DEF IsCurrent, IsNew, FileInv, PluginFile
    <2>4. TypeOK'
      BY <1>1, <1>2, <1>4, <1>6, <2>1, <2>2 DEF TypeOK, StateTypeOK, OpType
    <2>5. StoreInv'
      BY <1>1, <1>4, <2>1 DEF IInv, StoreInv
    <2>6. ReleasesRetained'
      <3>1. CASE stored' = file
        BY <1>4, <2>1, <2>2, <3>1 DEF IInv, ReleasesRetained
      <3>2. CASE stored' = stored /\ file = states
        <4>1. agent # "down"
          BY <1>1
        <4>2. \A revision \in {stored.current, stored.previous} : Installed(revision)
                => revision \in {states.current, states.previous, states.pending}
          BY <4>1 DEF IInv, StoreInv
        <4>3. \A f \in {stored, states} : \A revision \in {f.current, f.previous} :
                Installed(revision) => revision.release \in releases
          BY DEF IInv, ReleasesRetained
        <4> QED
          BY <2>1, <2>2, <3>2, <4>2, <4>3 DEF ReleasesRetained
      <3> QED
        BY <2>1, <3>1, <3>2
    <2>7. OpInv'
      BY <1>2, <2>2, RevisionType DEF OpInv
    <2>8. RevisionInv'
      BY <1>2, <1>4, <2>1, <2>2, <2>3, RevisionType DEF RevisionInv
    <2>9. CandidateInv'
      BY <2>2 DEF CandidateInv
    <2>10. AliveInv'
      BY <1>1, <1>3, <2>2 DEF IInv, AliveInv, Alive, Starting
    <2>11. DownInv' /\ WatchInv'
      BY <1>1 DEF IInv, DownInv, WatchInv
    <2>12. ServeInv'
      BY <1>1, <1>4, <2>1 DEF IInv, ServeInv
    <2>13. ReportInv'
      BY <1>1, <2>2 DEF IInv, ReportInv, Alive
    <2>14. SuperviseInv'
      BY <1>1, <1>4, <2>1 DEF IInv, SuperviseInv, Starting
    <2> QED
      BY <2>4, <2>5, <2>6, <2>7, <2>8, <2>9, <2>10, <2>11, <2>12, <2>13, <2>14 DEF IInv
  <1> QED
    BY <1>5, <1>6 DEF Reconcile

LEMMA FetchStep ==
  ASSUME IInv, Fetch
  PROVE  IInv'
  <1>1. /\ op.pc = "fetch"
        /\ UNCHANGED <<stored, states, agent, procs, inCharge, watch, retries, data, reported,
                       stopFailed>>
    BY DEF Fetch
  <1>2. TypeOK /\ OpType
    BY DEF IInv, TypeOK, OpType
  <1>3. /\ op.process = None /\ op.kind \in {"reconcile", "ensure"}
        /\ op.revision \in Revision /\ Installed(op.revision)
    BY <1>1, <1>2, RevisionType DEF IInv, CandidateInv, OpInv, OpType, Op
  <1>4. /\ op.kind = "ensure" => op.revision = states.current /\ states.pending = None
        /\ op.kind = "reconcile" => op.revision = states.pending /\ op.previous = states.current
    BY <1>1 DEF IInv, RevisionInv
  <1>5. faults' \in 0 .. MaxFaults
    BY <1>2, FaultType DEF Fetch, CallFails, TypeOK
  <1>6. releases \subseteq releases' /\ releases' \subseteq Releases
    BY <1>2, <1>3, RevisionType DEF Fetch, TypeOK, StateTypeOK
  <1>7. ReleasesRetained'
    BY <1>1, <1>6 DEF IInv, ReleasesRetained
  <1>8. SuperviseInv'
    BY <1>1 DEF IInv, SuperviseInv, Starting
  <1>9. data' \in BOOLEAN /\ stopFailed' \in BOOLEAN
    BY <1>1, <1>2 DEF TypeOK
  <1>10. retries' \in Nat /\ reported' \in Status \cup {Silent, Lost}
    BY <1>1, <1>2 DEF TypeOK
  <1>11. /\ OpType' /\ OpInv' /\ RevisionInv' /\ CandidateInv' /\ AliveInv' /\ ReportInv'
    <2>1. CASE Return
      <3>1. OpType' /\ op'.pc = "idle" /\ op'.kind = "none" /\ op'.process = None
        BY <2>1, ReturnType
      <3>2. OpInv' /\ RevisionInv' /\ CandidateInv'
        BY <3>1 DEF OpInv, RevisionInv, CandidateInv
      <3>3. AliveInv'
        BY <1>1, <1>3, <3>1 DEF IInv, AliveInv, Alive, Starting
      <3>4. ReportInv'
        BY <1>1, <3>1 DEF IInv, ReportInv, Alive
      <3> QED
        BY <3>1, <3>2, <3>3, <3>4
    <2>2. CASE op.kind = "ensure" /\ EmitAndReturn(StatusOf(op.revision))
      <3>1. /\ OpType' /\ op'.pc = "emit" /\ op'.kind = "none" /\ op'.process = None
            /\ op'.status = StatusOf(op.revision)
        BY <1>3, <2>2, EmitType, RevisionType
      <3>2. OpInv' /\ RevisionInv' /\ CandidateInv'
        BY <3>1 DEF OpInv, RevisionInv, CandidateInv
      <3>3. AliveInv'
        BY <1>1, <1>3, <3>1 DEF IInv, AliveInv, Alive, Starting
      <3>4. ReportInv'
        BY <1>1, <1>4, <2>2, <3>1 DEF IInv, ReportInv, ServeInv
      <3> QED
        BY <3>1, <3>2, <3>3, <3>4
    <2>3. CASE /\ op.kind = "ensure" /\ op.revision.state = "running"
               /\ ~(inCharge # None /\ Alive(inCharge)) /\ Goto("launch")
      <3>1. /\ OpType' /\ op'.pc = "launch" /\ op'.kind = "ensure"
            /\ op'.revision = op.revision /\ op'.process = None
        BY <1>2, <1>3, <2>3, GotoType DEF OpPcs
      <3>2. OpInv' /\ RevisionInv' /\ CandidateInv'
        BY <1>1, <1>3, <1>4, <2>3, <3>1, RevisionType DEF OpInv, RevisionInv, CandidateInv
      <3>3. AliveInv'
        BY <1>1, <1>3, <2>3, <3>1 DEF IInv, AliveInv, Alive, Exited
      <3>4. ReportInv'
        BY <1>1, <3>1 DEF IInv, ReportInv, Alive
      <3> QED
        BY <3>1, <3>2, <3>3, <3>4
    <2>4. CASE /\ ~(op.kind = "ensure" /\ op.revision.state = "running") /\ Goto("detach")
               /\ releases' = releases \cup {op.revision.release}
      <3>1. /\ OpType' /\ op'.pc = "detach" /\ op'.kind = op.kind
            /\ op'.revision = op.revision /\ op'.previous = op.previous /\ op'.process = None
        BY <1>2, <1>3, <2>4, GotoType DEF OpPcs
      <3>2. OpInv' /\ RevisionInv' /\ CandidateInv'
        BY <1>1, <1>3, <1>4, <2>4, <3>1, RevisionType DEF OpInv, RevisionInv, CandidateInv
      <3>3. AliveInv'
        BY <1>1, <1>3, <3>1 DEF IInv, AliveInv, Alive, Starting
      <3>4. ReportInv'
        BY <1>1, <3>1 DEF IInv, ReportInv, Alive
      <3> QED
        BY <3>1, <3>2, <3>3, <3>4
    <2> QED
      BY <2>1, <2>2, <2>3, <2>4 DEF Fetch
  <1> QED
    BY <1>1, <1>5, <1>6, <1>7, <1>8, <1>9, <1>10, <1>11, MoveStep

LEMMA DetachStep ==
  ASSUME IInv, Detach
  PROVE  IInv'
  <1>1. /\ op.pc = "detach"
        /\ UNCHANGED <<stored, states, releases, agent, watch, retries, data, reported>>
    BY DEF Detach, stateVars
  <1>2. TypeOK /\ OpType /\ ProcsType /\ inCharge \in Processes \cup {None}
    BY DEF IInv, TypeOK, OpType, ProcsType
  <1>3. /\ op.process = None /\ op.kind \in {"reconcile", "ensure"} /\ op.revision \in Revision
        /\ op.kind = "ensure" => op.revision.state # "running"
    BY <1>1, <1>2 DEF IInv, CandidateInv, OpInv, OpType, Op
  <1>4. /\ op.kind = "ensure" => op.revision = states.current /\ states.pending = None
        /\ op.kind = "reconcile" =>
             /\ op.revision = states.pending /\ op.previous = states.current
             /\ Installed(op.revision) => op.revision.release \in releases
    BY <1>1 DEF IInv, RevisionInv
  <1>5. agent \notin {"down", "closed"}
    BY <1>1 DEF IInv, DownInv
  <1>6. /\ Decay /\ (inCharge # None => Stopped(inCharge)) /\ stopFailed' \in BOOLEAN
        /\ faults' \in 0 .. MaxFaults
    <2>1. stopFailed' \in BOOLEAN
      BY <1>2 DEF Detach, StopSucceeds, StopFails, TypeOK
    <2>2. faults' \in 0 .. MaxFaults
      BY <1>2, FaultType DEF Detach, StopFails, TypeOK
    <2>3. Decay /\ (inCharge # None => Stopped(inCharge))
      BY <1>2, StopDecays, Stutters DEF Detach
    <2> QED
      BY <2>1, <2>2, <2>3
  <1>7. StoreInv' /\ ReleasesRetained'
    BY <1>1 DEF IInv, StoreInv, ReleasesRetained
  <1>8. CASE inCharge' = None /\ UNCHANGED faults /\
             IF op.kind = "ensure"
             THEN IF op.revision.state = "absent" THEN Goto("remove")
                                                  ELSE EmitAndReturn(StatusOf(op.revision))
             ELSE IF op.revision.state = "absent" THEN Goto("commit") ELSE Goto("launch")
    <2>1. /\ OpType' /\ op'.process = None
          /\ \/ /\ op'.pc = "emit" /\ op'.kind = "none" /\ op.kind = "ensure"
             \/ /\ op'.kind = op.kind /\ op'.revision = op.revision /\ op'.previous = op.previous
                /\ \/ op'.pc = "remove" /\ op.kind = "ensure" /\ op.revision.state = "absent"
                   \/ op'.pc = "commit" /\ op.kind = "reconcile" /\ op.revision.state = "absent"
                   \/ op'.pc = "launch" /\ op.kind = "reconcile" /\ op.revision.state # "absent"
      BY <1>2, <1>3, <1>8, GotoType, EmitType, RevisionType DEF OpPcs
    <2>2. TypeOK'
      BY <1>1, <1>2, <1>6, <1>8, <2>1 DEF TypeOK, StateTypeOK, OpType, Decay, ProcsType
    <2>3. OpInv'
      BY <1>3, <2>1 DEF OpInv
    <2>4. RevisionInv'
      BY <1>1, <1>4, <2>1 DEF RevisionInv
    <2>5. CandidateInv'
      BY <2>1 DEF CandidateInv
    <2>6. AliveInv'
      BY <1>2, <1>3, <1>6, <1>8 DEF IInv, AliveInv, Alive, Decay, Stopped
    <2>7. DownInv' /\ ServeInv' /\ ReportInv' /\ WatchInv'
      BY <1>1, <1>5, <1>8 DEF DownInv, ServeInv, ReportInv, WatchInv
    <2>8. SuperviseInv'
      BY <1>1, <1>3, <1>4, <2>1, RevisionType DEF SuperviseInv, Starting
    <2> QED
      BY <1>7, <2>2, <2>3, <2>4, <2>5, <2>6, <2>7, <2>8 DEF IInv
  <1>9. CASE /\ inCharge # None /\ StopFails(inCharge) /\ Return
             /\ inCharge' = IF procs'[inCharge].status = "alive" THEN inCharge ELSE None
    <2>1. OpType' /\ op'.pc = "idle" /\ op'.kind = "none" /\ op'.process = None
      BY <1>9, ReturnType
    <2>2. stopFailed' /\ inCharge' \in {inCharge, None}
      BY <1>9 DEF StopFails
    <2>3. TypeOK'
      BY <1>1, <1>2, <1>6, <2>1, <2>2 DEF TypeOK, StateTypeOK, OpType, Decay, ProcsType
    <2>4. OpInv' /\ RevisionInv' /\ CandidateInv'
      BY <2>1 DEF OpInv, RevisionInv, CandidateInv
    <2>5. AliveInv'
      BY <1>2, <1>3, <1>6, <1>9, <2>1 DEF IInv, AliveInv, Alive, Decay, Stopped, Starting
    <2>6. ServeInv'
      BY <1>1, <1>2, <1>6, <2>2 DEF IInv, ServeInv, Decay
    <2>7. ReportInv'
      BY <1>6, <1>9, <2>2 DEF ReportInv, Stopped, Alive
    <2>8. DownInv' /\ WatchInv' /\ SuperviseInv'
      BY <1>1, <1>5, <2>2 DEF DownInv, WatchInv, SuperviseInv
    <2> QED
      BY <1>7, <2>3, <2>4, <2>5, <2>6, <2>7, <2>8 DEF IInv
  <1> QED
    BY <1>8, <1>9 DEF Detach

\* A process of the revision is started.
LEMMA SpawnStep ==
  ASSUME IInv, op.pc = "launch", NEW p \in Processes, Spawn(p, op.revision),
         op' = [op EXCEPT !.pc = "configure", !.process = p],
         UNCHANGED <<retries, stopFailed, faults, stateVars, agent, inCharge, watch, reported>>
  PROVE  IInv'
  <1>1. UNCHANGED <<stored, states, releases, retries, stopFailed, faults, agent, inCharge,
                    watch, reported>>
    BY DEF stateVars
  <1>2. TypeOK /\ OpType /\ ProcsType /\ inCharge \in Processes \cup {None}
    BY DEF IInv, TypeOK, OpType, ProcsType
  <1>3. op.process = None /\ op.revision \in Revision
    BY <1>2 DEF IInv, CandidateInv, OpInv, OpType, Op
  <1> DEFINE new == [NoProcess EXCEPT !.status = "alive", !.revision = op.revision]
  <1>4. p # inCharge /\ procs' = [procs EXCEPT ![p] = new] /\ data' = TRUE
    BY DEF Spawn, Free
  <1>5. new \in Process /\ new.revision = op.revision /\ ~new.ready
    BY <1>3 DEF NoProcess, Process
  <1> HIDE DEF new
  <1>6. /\ ProcsType' /\ procs'[p] = new /\ \A q \in Processes \ {p} : procs'[q] = procs[q]
    BY <1>2, <1>4, <1>5 DEF ProcsType
  <1>7. /\ OpType' /\ op'.pc = "configure" /\ op'.process = p /\ op'.kind = op.kind
        /\ op'.revision = op.revision /\ op'.previous = op.previous
    BY <1>2 DEF OpType, Op, OpPcs
  <1>8. data' \in BOOLEAN
    BY <1>4
  <1>9. inCharge # None => procs'[inCharge] = procs[inCharge]
    BY <1>2, <1>4, <1>6
  <1>10. TypeOK'
    BY <1>1, <1>2, <1>6, <1>7, <1>8 DEF TypeOK, StateTypeOK, OpType, ProcsType
  <1>11. StoreInv' /\ ReleasesRetained'
    BY <1>1 DEF IInv, StoreInv, ReleasesRetained
  <1>12. OpInv' /\ RevisionInv'
    BY <1>1, <1>7 DEF IInv, OpInv, RevisionInv
  <1>13. CandidateInv'
    BY <1>5, <1>6, <1>7, NoneNotProcess DEF CandidateInv
  <1>14. AliveInv'
    BY <1>1, <1>3, <1>6, <1>7, <1>9, NoneNotProcess DEF IInv, AliveInv, Alive, Exited, Starting
  <1>15. DownInv'
    BY <1>1 DEF IInv, DownInv
  <1>16. ServeInv' /\ ReportInv' /\ WatchInv'
    BY <1>1, <1>7, <1>9 DEF IInv, ServeInv, ReportInv, WatchInv, Alive
  <1>17. SuperviseInv'
    BY <1>1, <1>7 DEF IInv, SuperviseInv, Starting
  <1> QED
    BY <1>10, <1>11, <1>12, <1>13, <1>14, <1>15, <1>16, <1>17 DEF IInv

\* ... or cannot be started.
LEMMA LaunchFailedStep ==
  ASSUME IInv, op.pc = "launch", SpawnFails, LaunchFailed,
         UNCHANGED <<stateVars, agent, inCharge, watch, reported>>
  PROVE  IInv'
  <1>1. UNCHANGED <<stored, states, releases, agent, procs, inCharge, watch, reported>>
    BY DEF stateVars, SpawnFails
  <1>2. TypeOK /\ OpType
    BY DEF IInv, TypeOK, OpType
  <1>3. op.process = None /\ op.revision \in Revision
    BY <1>2 DEF IInv, CandidateInv, OpInv, OpType, Op
  <1>4. /\ stopFailed' = stopFailed \/ stopFailed' = TRUE
        /\ stopFailed' \in BOOLEAN
    BY <1>2 DEF SpawnFails, TypeOK
  <1>5. faults' \in 0 .. MaxFaults
    BY <1>2, FaultType DEF SpawnFails, CallFails, TypeOK
  <1>6. data' \in BOOLEAN
    BY <1>2 DEF SpawnFails, TypeOK
  <1>7. ReleasesRetained'
    BY <1>1 DEF IInv, ReleasesRetained
  <1>8. inCharge = None \/ (op.kind = "ensure" /\ ~Alive(inCharge))
    BY DEF IInv, AliveInv, Starting, Exited
  <1>9. releases' \subseteq Releases /\ reported' \in Status \cup {Silent, Lost}
    BY <1>1, <1>2 DEF TypeOK, StateTypeOK
  <1>10. CASE op.kind = "reconcile" /\ Goto("rollback") /\ UNCHANGED retries
    <2>1. /\ OpType' /\ op'.pc = "rollback" /\ op'.kind = op.kind /\ op'.revision = op.revision
          /\ op'.previous = op.previous /\ op'.process = None
      BY <1>2, <1>3, <1>10, GotoType DEF OpPcs
    <2>2. OpInv' /\ RevisionInv' /\ CandidateInv'
      BY <1>1, <1>10, <2>1 DEF IInv, OpInv, RevisionInv, CandidateInv
    <2>3. AliveInv' /\ ReportInv'
      BY <1>1, <1>3, <1>8, <1>10, <2>1 DEF IInv, AliveInv, ReportInv, Alive
    <2>4. SuperviseInv'
      BY <1>1, <1>10, <2>1 DEF SuperviseInv, Starting
    <2>5. retries' \in Nat
      BY <1>2, <1>10 DEF TypeOK
    <2> QED
      BY <1>1, <1>4, <1>5, <1>6, <1>7, <1>9, <2>1, <2>2, <2>3, <2>4, <2>5, MoveStep
  <1>11. CASE op.kind = "ensure" /\ Return /\ UNCHANGED retries
    <2>1. OpType' /\ op'.pc = "idle" /\ op'.kind = "none" /\ op'.process = None
      BY <1>11, ReturnType
    <2>2. OpInv' /\ RevisionInv' /\ CandidateInv'
      BY <2>1 DEF OpInv, RevisionInv, CandidateInv
    <2>3. AliveInv' /\ ReportInv'
      BY <1>1, <1>3, <1>8, <2>1 DEF IInv, AliveInv, ReportInv, Alive, Starting
    <2>4. SuperviseInv'
      BY <1>1, <1>4, <1>11 DEF IInv, SuperviseInv
    <2>5. retries' \in Nat
      BY <1>2, <1>11 DEF TypeOK
    <2> QED
      BY <1>1, <1>4, <1>5, <1>6, <1>7, <1>9, <2>1, <2>2, <2>3, <2>4, <2>5, MoveStep
  <1>12. CASE /\ op.kind \in {"start", "rollback", "retry"} /\ EmitAndReturn(Failed(op.revision))
              /\ retries' = retries + 1
    <2>1. OpType' /\ op'.pc = "emit" /\ op'.kind = "none" /\ op'.process = None
      BY <1>3, <1>12, EmitType, RevisionType
    <2>2. OpInv' /\ RevisionInv' /\ CandidateInv'
      BY <2>1 DEF OpInv, RevisionInv, CandidateInv
    <2>3. AliveInv' /\ ReportInv'
      BY <1>1, <1>3, <1>8, <1>12, <2>1 DEF IInv, AliveInv, ReportInv, Alive, Starting
    <2>4. retries' \in Nat /\ retries' > 0
      BY <1>2, <1>12 DEF TypeOK
    <2>5. SuperviseInv'
      BY <2>4 DEF SuperviseInv
    <2> QED
      BY <1>1, <1>4, <1>5, <1>6, <1>7, <1>9, <2>1, <2>2, <2>3, <2>4, <2>5, MoveStep
  <1> QED
    BY <1>10, <1>11, <1>12 DEF LaunchFailed

LEMMA LaunchStep ==
  ASSUME IInv, Launch
  PROVE  IInv'
  BY SpawnStep, LaunchFailedStep DEF Launch

-----------------------------------------------------------------------------
(* A process that was started takes charge, or is stopped.                 *)

LEMMA TakesChargeFacts ==
  ASSUME ProcsType, WatchType, NEW p \in Processes, NEW configured \in BOOLEAN,
         TakesCharge(p, configured)
  PROVE  /\ inCharge' = p /\ WatchType' /\ watch'[p] = "select"
         /\ ProcsType' /\ procs'[p].ready
         /\ procs'[p].revision = procs[p].revision
         /\ \A q \in Processes : procs'[q].status = procs[q].status /\ procs'[q].stuck = procs[q].stuck
  <1>1. inCharge' = p /\ watch' = [watch EXCEPT ![p] = "select"]
    BY DEF TakesCharge
  <1> DEFINE r == [procs[p] EXCEPT !.ready = TRUE, !.configured = configured]
  <1>2. procs' = [procs EXCEPT ![p] = r]
    BY DEF TakesCharge, ProcsType, Process
  <1>3. /\ r \in Process /\ r.ready /\ r.revision = procs[p].revision
        /\ r.status = procs[p].status /\ r.stuck = procs[p].stuck
    BY DEF ProcsType, Process
  <1> HIDE DEF r
  <1>4. ProcsType' /\ procs'[p] = r /\ \A q \in Processes \ {p} : procs'[q] = procs[q]
    BY <1>2, <1>3 DEF ProcsType
  <1>5. WatchType' /\ watch'[p] = "select"
    BY <1>1 DEF WatchType
  <1> QED
    BY <1>1, <1>3, <1>4, <1>5

LEMMA ConfigureRevisionStep ==
  ASSUME IInv, ConfigureRevision
  PROVE  IInv'
  <1>1. /\ op.pc = "configure" /\ op.kind # "reconcile"
        /\ UNCHANGED <<stored, states, releases, agent, retries, data, reported, stopFailed>>
        /\ EmitAndReturn(StatusOf(op.revision))
    BY DEF ConfigureRevision, stateVars
  <1>2. TypeOK /\ OpType /\ ProcsType /\ WatchType
    BY DEF IInv, TypeOK, OpType, ProcsType, WatchType
  <1>3. op.process \in Processes /\ op.revision \in Revision
    BY <1>1, <1>2 DEF IInv, CandidateInv, OpInv, OpType, Op
  <1>4. /\ op.revision = states.current /\ WantsProcess(op.revision)
        /\ procs[op.process].revision = op.revision
    BY <1>1 DEF IInv, RevisionInv, OpInv, CandidateInv
  <1>5. /\ inCharge' = op.process /\ WatchType' /\ watch'[op.process] = "select"
        /\ ProcsType' /\ procs'[op.process].revision = procs[op.process].revision
        /\ \A q \in Processes : procs'[q].status = procs[q].status /\ procs'[q].stuck = procs[q].stuck
    BY <1>2, <1>3, TakesChargeFacts DEF ConfigureRevision
  <1>6. faults' \in 0 .. MaxFaults
    BY <1>2, FaultType DEF ConfigureRevision, Configures, ConfigureFails, CallFails, TypeOK
  <1>7. /\ OpType' /\ op'.pc = "emit" /\ op'.kind = "none" /\ op'.process = None
        /\ op'.status = StatusOf(op.revision)
    BY <1>1, <1>3, EmitType, RevisionType
  <1>8. inCharge = None \/ ~Alive(inCharge)
    BY <1>1 DEF IInv, AliveInv, Starting, Exited
  <1>9. TypeOK'
    BY <1>1, <1>2, <1>3, <1>5, <1>6, <1>7 DEF TypeOK, StateTypeOK, OpType, ProcsType, WatchType
  <1>10. StoreInv' /\ ReleasesRetained'
    BY <1>1 DEF IInv, StoreInv, ReleasesRetained
  <1>11. OpInv' /\ RevisionInv' /\ CandidateInv'
    BY <1>7 DEF OpInv, RevisionInv, CandidateInv
  <1>12. AliveInv'
    BY <1>5, <1>7, <1>8, NoneNotProcess DEF IInv, AliveInv, Alive, Starting
  <1>13. DownInv'
    BY <1>1 DEF IInv, DownInv
  <1>14. ServeInv' /\ ReportInv'
    BY <1>1, <1>4, <1>5, <1>7 DEF ServeInv, ReportInv
  <1>15. WatchInv' /\ SuperviseInv'
    BY <1>3, <1>5, NoneNotProcess DEF WatchInv, SuperviseInv
  <1> QED
    BY <1>9, <1>10, <1>11, <1>12, <1>13, <1>14, <1>15 DEF IInv

LEMMA ConfigureCandidateStep ==
  ASSUME IInv, ConfigureCandidate
  PROVE  IInv'
  <1>1. /\ op.pc = "configure" /\ op.kind = "reconcile"
        /\ UNCHANGED <<stored, states, releases, agent, inCharge, watch, retries, data, reported,
                       stopFailed>>
    BY DEF ConfigureCandidate, stateVars
  <1>2. TypeOK /\ OpType /\ ProcsType
    BY DEF IInv, TypeOK, OpType, ProcsType
  <1>3. /\ op.process \in Processes /\ op.process # None /\ op.revision \in Revision
        /\ inCharge = None
    BY <1>1, <1>2 DEF IInv, CandidateInv, OpInv, AliveInv, Starting, OpType, Op
  <1>4. faults' \in 0 .. MaxFaults
    BY <1>2, FaultType DEF ConfigureCandidate, Configures, ConfigureFails, CallFails, TypeOK
  <1>5. /\ ProcsType'
        /\ procs'[op.process].revision = procs[op.process].revision
        /\ procs'[op.process].ready = procs[op.process].ready
        /\ \A q \in Processes : procs'[q].status = procs[q].status /\ procs'[q].stuck = procs[q].stuck
    <2>1. CASE UNCHANGED procs
      BY <1>2, <2>1 DEF ProcsType
    <2>2. CASE procs' = [procs EXCEPT ![op.process].configured = TRUE]
      <3> DEFINE r == [procs[op.process] EXCEPT !.configured = TRUE]
      <3>1. procs' = [procs EXCEPT ![op.process] = r]
        BY <2>2
      <3>2. /\ r \in Process /\ r.revision = procs[op.process].revision
            /\ r.ready = procs[op.process].ready
            /\ r.status = procs[op.process].status /\ r.stuck = procs[op.process].stuck
        BY <1>2, <1>3 DEF ProcsType, Process
      <3> HIDE DEF r
      <3>3. /\ ProcsType' /\ procs'[op.process] = r
            /\ \A q \in Processes \ {op.process} : procs'[q] = procs[q]
        BY <1>2, <1>3, <3>1, <3>2 DEF ProcsType
      <3> QED
        BY <3>2, <3>3
    <2> QED
      BY <2>1, <2>2 DEF ConfigureCandidate
  <1>6. /\ OpType' /\ op'.kind = op.kind /\ op'.revision = op.revision
        /\ op'.previous = op.previous /\ op'.process = op.process
        /\ \/ op'.pc = "commit" /\ op.revision.state = "running"
           \/ op'.pc = "stop" /\ op.revision.state = "stopped"
           \/ op'.pc = "abort"
    BY <1>2, GotoType DEF ConfigureCandidate, OpPcs
  <1>7. TypeOK'
    BY <1>1, <1>2, <1>4, <1>5, <1>6 DEF TypeOK, StateTypeOK, OpType, ProcsType
  <1>8. StoreInv' /\ ReleasesRetained'
    BY <1>1 DEF IInv, StoreInv, ReleasesRetained
  <1>9. OpInv' /\ RevisionInv'
    BY <1>1, <1>6 DEF IInv, OpInv, RevisionInv
  <1>10. CandidateInv'
    BY <1>3, <1>5, <1>6 DEF IInv, CandidateInv
  <1>11. AliveInv'
    BY <1>1, <1>3, <1>5, <1>6 DEF IInv, AliveInv, Alive, Starting
  <1>12. DownInv'
    BY <1>1 DEF IInv, DownInv
  <1>13. ServeInv' /\ ReportInv' /\ WatchInv'
    BY <1>1, <1>3 DEF ServeInv, ReportInv, WatchInv
  <1>14. SuperviseInv'
    BY <1>1, <1>6 DEF SuperviseInv, Starting
  <1> QED
    BY <1>7, <1>8, <1>9, <1>10, <1>11, <1>12, <1>13, <1>14 DEF IInv

LEMMA StopCandidateStep ==
  ASSUME IInv, StopCandidate
  PROVE  IInv'
  <1>1. /\ op.pc \in {"stop", "abort"}
        /\ UNCHANGED <<stored, states, releases, agent, watch, retries, data, reported>>
    BY DEF StopCandidate, stateVars
  <1>2. TypeOK /\ OpType /\ ProcsType
    BY DEF IInv, TypeOK, OpType, ProcsType
  <1>3. /\ op.process \in Processes /\ op.process # None /\ op.revision \in Revision
        /\ op.kind = "reconcile" /\ inCharge = None /\ ~procs[op.process].ready
    BY <1>1, <1>2 DEF IInv, CandidateInv, OpInv, AliveInv, Starting, OpType, Op
  <1>4. agent \notin {"down", "closed"}
    BY <1>1 DEF IInv, DownInv
  <1>5. /\ Decay /\ Stopped(op.process)
        /\ procs'[op.process].ready => procs[op.process].ready
    BY <1>2, <1>3, StopDecays DEF StopCandidate
  <1>6. faults' \in 0 .. MaxFaults
    BY <1>2, FaultType DEF StopCandidate, StopFails, TypeOK
  <1>7. stopFailed' \in BOOLEAN
    BY <1>2 DEF StopCandidate, StopFails, StopSucceeds, TypeOK
  <1>8. StoreInv' /\ ReleasesRetained'
    BY <1>1 DEF IInv, StoreInv, ReleasesRetained
  <1>9. CASE /\ op' = [op EXCEPT !.process = None,
                                 !.pc = IF op.pc = "stop" THEN "commit" ELSE "rollback"]
             /\ UNCHANGED inCharge
    <2>1. /\ OpType' /\ op'.kind = op.kind /\ op'.revision = op.revision
          /\ op'.previous = op.previous /\ op'.process = None
          /\ op'.pc = IF op.pc = "stop" THEN "commit" ELSE "rollback"
      BY <1>2, <1>9 DEF OpType, Op, OpPcs
    <2>2. TypeOK'
      BY <1>1, <1>2, <1>5, <1>6, <1>7, <1>9, <2>1
      DEF TypeOK, StateTypeOK, OpType, Decay, ProcsType
    <2>3. OpInv' /\ RevisionInv'
      BY <1>1, <1>3, <2>1 DEF IInv, OpInv, RevisionInv
    <2>4. CandidateInv'
      BY <1>1, <2>1 DEF IInv, CandidateInv
    <2>5. AliveInv'
      BY <1>2, <1>3, <1>5, <1>9, <2>1 DEF IInv, AliveInv, Alive, Decay, Stopped, Starting
    <2>6. DownInv' /\ ServeInv' /\ ReportInv' /\ WatchInv'
      BY <1>1, <1>3, <1>4, <1>9 DEF DownInv, ServeInv, ReportInv, WatchInv
    <2>7. SuperviseInv'
      BY <1>3, <2>1 DEF SuperviseInv, Starting
    <2> QED
      BY <1>8, <2>2, <2>3, <2>4, <2>5, <2>6, <2>7 DEF IInv
  <1>10. CASE StopFails(op.process) /\ inCharge' = op.process /\ Return
    <2>1. OpType' /\ op'.pc = "idle" /\ op'.kind = "none" /\ op'.process = None
      BY <1>10, ReturnType
    <2>2. stopFailed'
      BY <1>10 DEF StopFails
    <2>3. TypeOK'
      BY <1>1, <1>2, <1>3, <1>5, <1>6, <1>7, <1>10, <2>1
      DEF TypeOK, StateTypeOK, OpType, Decay, ProcsType
    <2>4. OpInv' /\ RevisionInv' /\ CandidateInv'
      BY <2>1 DEF OpInv, RevisionInv, CandidateInv
    <2>5. AliveInv'
      BY <1>2, <1>3, <1>5, <1>10, <2>1, NoneNotProcess
      DEF IInv, AliveInv, Alive, Decay, Stopped, Starting
    <2>6. ServeInv' /\ ReportInv'
      BY <1>3, <1>5, <1>10 DEF ServeInv, ReportInv
    <2>7. DownInv' /\ WatchInv' /\ SuperviseInv'
      BY <1>1, <1>4, <2>2 DEF DownInv, WatchInv, SuperviseInv
    <2> QED
      BY <1>8, <2>3, <2>4, <2>5, <2>6, <2>7 DEF IInv
  <1> QED
    BY <1>9, <1>10 DEF StopCandidate

-----------------------------------------------------------------------------
(* The end of a transition.                                                *)

LEMMA CommitStep ==
  ASSUME IInv, Commit
  PROVE  IInv'
  <1>1. op.pc = "commit" /\ UNCHANGED <<releases, agent, retries, data, reported, stopFailed>>
    BY DEF Commit
  <1>2. TypeOK /\ OpType /\ ProcsType /\ WatchType /\ states \in PluginFile /\ FileInv(states)
    BY DEF IInv, TypeOK, StateTypeOK, StoreInv, OpType, ProcsType, WatchType
  <1>3. /\ op.process \in Processes \cup {None} /\ op.revision \in Revision
        /\ op.kind = "reconcile" /\ inCharge = None
        /\ op.process # None <=> op.revision.state = "running"
    BY <1>1, <1>2 DEF IInv, CandidateInv, OpInv, AliveInv, Starting, OpType, Op
  <1>4. /\ op.revision = states.pending /\ op.previous = states.current
        /\ Installed(op.revision) => op.revision.release \in releases
    BY <1>1, <1>3 DEF IInv, RevisionInv
  <1>5. agent \notin {"down", "closed"}
    BY <1>1 DEF IInv, DownInv
  <1> DEFINE file == Committed(op.revision)
  <1>6. /\ file \in PluginFile /\ FileInv(file)
        /\ file.current = op.revision /\ file.pending = None
        /\ file.previous \in {None, states.current, states.previous}
    BY <1>2, <1>3, <1>4, CommittedFile
  <1>7. CASE /\ Save(file) /\ UNCHANGED faults
             /\ IF op.revision.state = "absent"
                THEN Goto("remove")
                ELSE op' = [Idle EXCEPT !.pc = "emit", !.status = StatusOf(op.revision),
                                        !.prune = TRUE]
             /\ IF op.process # None THEN TakesCharge(op.process, TRUE)
                                     ELSE UNCHANGED <<inCharge, procs, watch>>
    <2>1. stored' = file /\ states' = file
      BY <1>7 DEF Save
    <2> HIDE DEF file
    <2>2. /\ OpType' /\ op'.process = None
          /\ \/ /\ op'.pc = "remove" /\ op.revision.state = "absent" /\ op.process = None
                /\ op'.kind = "reconcile" /\ op'.revision = op.revision
             \/ /\ op'.pc = "emit" /\ op'.kind = "none" /\ op'.status = StatusOf(op.revision)
      <3>1. CASE op.revision.state = "absent"
        BY <1>2, <1>3, <1>7, <3>1, GotoType DEF OpPcs
      <3>2. CASE op.revision.state # "absent"
        <4>1. op' = [Idle EXCEPT !.pc = "emit", !.status = StatusOf(op.revision), !.prune = TRUE]
          BY <1>7, <3>2
        <4>2. StatusOf(op.revision) \in Status
          BY <1>3, RevisionType
        <4>3. TRUE \in BOOLEAN
          OBVIOUS
        <4> QED
          BY <4>1, <4>2, <4>3 DEF OpType, Op, Idle, OpKinds, OpPcs
      <3> QED
        BY <3>1, <3>2
    <2>3. /\ inCharge' \in Processes \cup {None} /\ inCharge' = op.process
          /\ WatchType' /\ ProcsType'
          /\ inCharge' # None =>
               watch'[inCharge'] = "select" /\ procs'[inCharge'].revision = op.revision
          /\ \A q \in Processes : procs'[q].status = procs[q].status /\ procs'[q].stuck = procs[q].stuck
      <3>1. CASE op.process # None
        <4>1. op.process \in Processes /\ procs[op.process].revision = op.revision
          BY <1>3, <3>1 DEF IInv, CandidateInv
        <4>2. TakesCharge(op.process, TRUE) /\ TRUE \in BOOLEAN
          BY <1>7, <3>1
        <4> QED
          BY <1>2, <4>1, <4>2, TakesChargeFacts
      <3>2. CASE op.process = None
        BY <1>2, <1>3, <1>7, <3>2 DEF WatchType, ProcsType
      <3> QED
        BY <3>1, <3>2
    <2>4. TypeOK'
      BY <1>1, <1>2, <1>6, <1>7, <2>1, <2>2, <2>3
      DEF TypeOK, StateTypeOK, OpType, WatchType, ProcsType
    <2>5. StoreInv'
      BY <1>6, <2>1 DEF StoreInv
    <2>6. ReleasesRetained'
      BY <1>1, <1>4, <1>6, <2>1 DEF IInv, ReleasesRetained, Installed
    <2>7. OpInv' /\ CandidateInv'
      BY <1>3, <2>2 DEF OpInv, CandidateInv
    <2>8. RevisionInv'
      BY <1>6, <2>1, <2>2 DEF RevisionInv
    <2>9. AliveInv'
      BY <1>3, <2>2, <2>3, NoneNotProcess DEF IInv, AliveInv, Alive, Starting
    <2>10. DownInv'
      BY <1>1, <1>5 DEF DownInv
    <2>11. ServeInv'
      BY <1>3, <1>6, <2>1, <2>3, RevisionType DEF ServeInv
    <2>12. ReportInv'
      BY <2>2, <2>3 DEF ReportInv
    <2>13. WatchInv'
      BY <2>3 DEF WatchInv
    <2>14. SuperviseInv'
      BY <1>3, <1>6, <2>1, <2>3, RevisionType DEF SuperviseInv
    <2> QED
      BY <2>4, <2>5, <2>6, <2>7, <2>8, <2>9, <2>10, <2>11, <2>12, <2>13, <2>14 DEF IInv
  <1>8. CASE /\ Fault /\ SaveFails(file)
             /\ Goto(IF op.process # None THEN "abort" ELSE "rollback")
             /\ UNCHANGED <<inCharge, procs, watch>>
    <2>1. stored' \in {stored, file} /\ UNCHANGED states
      BY <1>8 DEF SaveFails
    <2> HIDE DEF file
    <2>2. faults' \in 0 .. MaxFaults
      BY <1>2, <1>8, FaultType DEF TypeOK
    <2>3. /\ OpType' /\ op'.kind = op.kind /\ op'.revision = op.revision
          /\ op'.previous = op.previous /\ op'.process = op.process
          /\ op'.pc = IF op.process # None THEN "abort" ELSE "rollback"
      BY <1>2, <1>8, GotoType DEF OpPcs
    <2>4. TypeOK'
      BY <1>1, <1>2, <1>6, <1>8, <2>1, <2>2, <2>3 DEF TypeOK, StateTypeOK, OpType
    <2>5. StoreInv'
      BY <1>1, <1>3, <1>4, <1>6, <2>1, RevisionType DEF IInv, StoreInv, Installed
    <2>6. ReleasesRetained'
      BY <1>1, <1>4, <1>6, <2>1 DEF IInv, ReleasesRetained, Installed
    <2>7. OpInv' /\ RevisionInv'
      BY <1>1, <1>3, <2>1, <2>3 DEF IInv, OpInv, RevisionInv
    <2>8. CandidateInv'
      BY <1>1, <1>8, <2>3 DEF IInv, CandidateInv
    <2>9. AliveInv'
      BY <1>3, <1>8, <2>3 DEF IInv, AliveInv, Alive
    <2>10. DownInv' /\ ServeInv' /\ ReportInv' /\ WatchInv'
      BY <1>1, <1>3, <1>5, <1>8 DEF DownInv, ServeInv, ReportInv, WatchInv
    <2>11. SuperviseInv'
      BY <1>3, <2>3 DEF SuperviseInv, Starting
    <2> QED
      BY <2>4, <2>5, <2>6, <2>7, <2>8, <2>9, <2>10, <2>11 DEF IInv
  <1> QED
    BY <1>7, <1>8 DEF Commit

LEMMA RollbackStep ==
  ASSUME IInv, Rollback
  PROVE  IInv'
  <1>1. /\ op.pc = "rollback"
        /\ UNCHANGED <<stored, states, releases, agent, procs, inCharge, watch, retries, data,
                       reported, stopFailed, faults>>
    BY DEF Rollback, stateVars
  <1>2. TypeOK /\ states.current \in Revision \cup {None}
    BY DEF IInv, TypeOK, StateTypeOK, PluginFile
  <1>3. inCharge = None /\ op.process = None /\ op.previous = states.current
    BY <1>1 DEF IInv, AliveInv, Starting, CandidateInv, OpInv, RevisionInv
  <1>4. /\ OpType' /\ op'.process = None
        /\ \/ /\ op'.pc \in {"idle", "emit"} /\ op'.kind = "none" /\ ~WantsProcess(states.current)
           \/ /\ op'.pc = "launch" /\ op'.kind = "rollback" /\ op'.revision = states.current
              /\ op'.revision # None /\ WantsProcess(states.current)
    <2>1. CASE states.current = None
      BY <1>3, <2>1, ReturnType DEF Rollback, WantsProcess
    <2>2. CASE states.current # None /\ WantsProcess(states.current)
      <3>1. op' = [Idle EXCEPT !.kind = "rollback", !.pc = "launch", !.revision = states.current]
        BY <1>3, <2>2 DEF Rollback
      <3>2. "rollback" \in OpKinds /\ states.current \in Revision
        BY <1>2, <2>2 DEF OpKinds
      <3> QED
        BY <2>2, <3>1, <3>2, LaunchType
    <2>3. CASE states.current # None /\ ~WantsProcess(states.current)
      BY <1>2, <1>3, <2>3, EmitType, RevisionType DEF Rollback
    <2> QED
      BY <2>1, <2>2, <2>3
  <1>5. ReleasesRetained'
    BY <1>1 DEF IInv, ReleasesRetained
  <1>6. OpInv' /\ RevisionInv' /\ CandidateInv'
    BY <1>1, <1>4 DEF OpInv, RevisionInv, CandidateInv
  <1>7. AliveInv'
    BY <1>1, <1>3, <1>4 DEF IInv, AliveInv, Alive
  <1>8. ReportInv' /\ SuperviseInv'
    BY <1>1, <1>3, <1>4 DEF ReportInv, SuperviseInv, Starting
  <1>9. data' \in BOOLEAN /\ stopFailed' \in BOOLEAN
    BY <1>1, <1>2 DEF TypeOK
  <1>10. /\ releases' \subseteq Releases /\ faults' \in 0 .. MaxFaults /\ retries' \in Nat
         /\ reported' \in Status \cup {Silent, Lost}
    BY <1>1, <1>2 DEF TypeOK, StateTypeOK
  <1> QED
    BY <1>1, <1>4, <1>5, <1>6, <1>7, <1>8, <1>9, <1>10, MoveStep

\* removePluginData: no revision is left whose release could be missed.
LEMMA RemoveStep ==
  ASSUME IInv, Remove
  PROVE  IInv'
  <1>1. /\ op.pc = "remove"
        /\ UNCHANGED <<stored, states, agent, procs, inCharge, watch, retries, reported, stopFailed>>
    BY DEF Remove
  <1>2. TypeOK /\ OpType
    BY DEF IInv, TypeOK, OpType
  <1>3. inCharge = None /\ op.process = None /\ op.revision \in Revision
    BY <1>1, <1>2 DEF IInv, AliveInv, CandidateInv, OpInv, OpType, Op
  <1>4. /\ states.pending = None /\ states.current = op.revision
        /\ op.revision.state = "absent" /\ states.current # None
    BY <1>1, <1>3 DEF IInv, RevisionInv
  <1>5. states.previous = None
    BY <1>4 DEF IInv, StoreInv, FileInv
  <1>6. stored.current = states.current /\ stored.previous = states.previous
    BY <1>1, <1>4 DEF IInv, StoreInv, DownInv
  <1>7. ReleasesRetained'
    BY <1>1, <1>4, <1>5, <1>6 DEF ReleasesRetained, Installed
  <1>8. OpType' /\ op'.process = None /\ op'.pc \in {"idle", "emit"} /\ op'.kind = "none"
    BY <1>3, ReturnType, EmitType, RevisionType DEF Remove
  <1>9. OpInv' /\ RevisionInv' /\ CandidateInv'
    BY <1>8 DEF OpInv, RevisionInv, CandidateInv
  <1>10. AliveInv'
    BY <1>1, <1>3, <1>8 DEF IInv, AliveInv, Alive
  <1>11. ReportInv' /\ SuperviseInv'
    BY <1>1, <1>3, <1>4 DEF ReportInv, SuperviseInv, WantsProcess
  <1>12. data' \in BOOLEAN
    BY <1>2 DEF Remove, TypeOK
  <1>13. stopFailed' \in BOOLEAN
    BY <1>1, <1>2 DEF TypeOK
  <1>14. faults' \in 0 .. MaxFaults
    BY <1>2, FaultType DEF Remove, TypeOK
  <1>15. releases' \subseteq Releases
    BY <1>2 DEF Remove, TypeOK, StateTypeOK
  <1>16. retries' \in Nat /\ reported' \in Status \cup {Silent, Lost}
    BY <1>1, <1>2 DEF TypeOK
  <1> QED
    BY <1>1, <1>7, <1>8, <1>9, <1>10, <1>11, <1>12, <1>13, <1>14, <1>15, <1>16, MoveStep

LEMMA EmitStep ==
  ASSUME IInv, Emit
  PROVE  IInv'
  <1>1. /\ op.pc = "emit" /\ Return
        /\ UNCHANGED <<stored, states, agent, procs, inCharge, watch, retries, data, stopFailed>>
    BY DEF Emit
  <1>2. TypeOK /\ op.status \in Status \cup {Silent}
    BY DEF IInv, TypeOK, Op
  <1>3. op.process = None /\ agent # "down"
    BY <1>1 DEF IInv, CandidateInv, DownInv
  <1>4. OpType' /\ op'.pc = "idle" /\ op'.kind = "none" /\ op'.process = None
    BY <1>1, ReturnType
  <1>5. /\ releases' \subseteq releases
        /\ \A revision \in {states.current, states.previous, states.pending} :
             Installed(revision) /\ revision.release \in releases => revision.release \in releases'
    <2>1. CASE \E left \in SUBSET releases :
                 /\ IF op.prune THEN Pruned(states, left) ELSE left = releases
                 /\ releases' = left
      BY <2>1, PruneKeeps
    <2>2. CASE UNCHANGED releases
      BY <2>2
    <2> QED
      BY <2>1, <2>2 DEF Emit
  <1>6. ReleasesRetained'
    <2>1. \A revision \in {stored.current, stored.previous} : Installed(revision)
            => revision \in {states.current, states.previous, states.pending}
      BY <1>3 DEF IInv, StoreInv
    <2>2. \A f \in {stored, states} : \A revision \in {f.current, f.previous} :
            Installed(revision) => revision.release \in releases
      BY DEF IInv, ReleasesRetained
    <2> QED
      BY <1>1, <1>5, <2>1, <2>2 DEF ReleasesRetained
  <1>7. OpInv' /\ RevisionInv' /\ CandidateInv'
    BY <1>4 DEF OpInv, RevisionInv, CandidateInv
  <1>8. AliveInv'
    BY <1>1, <1>3, <1>4 DEF IInv, AliveInv, Alive, Starting
  <1>9. reported' \in {op.status, Lost}
    BY DEF Emit
  <1>10. ReportInv'
    BY <1>1, <1>4, <1>9 DEF IInv, ReportInv, Alive
  <1>11. SuperviseInv'
    BY <1>1 DEF IInv, SuperviseInv, Starting
  <1>12. data' \in BOOLEAN /\ stopFailed' \in BOOLEAN
    BY <1>1, <1>2 DEF TypeOK
  <1>13. faults' \in 0 .. MaxFaults
    BY <1>2, FaultType DEF Emit, TypeOK
  <1>14. /\ releases' \subseteq Releases /\ retries' \in Nat
         /\ reported' \in Status \cup {Silent, Lost}
    BY <1>1, <1>2, <1>5, <1>9 DEF TypeOK, StateTypeOK
  <1> QED
    BY <1>1, <1>4, <1>6, <1>7, <1>8, <1>10, <1>11, <1>12, <1>13, <1>14, MoveStep

-----------------------------------------------------------------------------
(* The theorems.                                                           *)

LEMMA UnchangedIInv ==
  ASSUME IInv, UNCHANGED vars
  PROVE  IInv'
  <1>1. TypeOK /\ UNCHANGED <<stateVars, agent, procs, inCharge, watch, retries, op, data,
                              reported, stopFailed, faults>>
    BY DEF IInv, vars
  <1>2. Decay /\ WatchType' /\ retries' \in Nat /\ faults' \in 0 .. MaxFaults
    BY <1>1, Stutters DEF TypeOK, ProcsType, WatchType
  <1>3. agent' = "cancelled" => agent \in {"up", "cancelled"}
    BY <1>1
  <1> QED
    BY <1>1, <1>2, <1>3, QuietStep

\* Every step keeps the inductive invariant.
LEMMA NextIInv ==
  ASSUME IInv, [Next]_vars
  PROVE  IInv'
  <1>1. CASE Boot
    BY <1>1, BootStep
  <1>2. CASE Crash \/ Exit
    BY <1>2, GoneStep
  <1>3. CASE Cancel \/ Close \/ RetryEnds
    BY <1>3, AgentQuietStep
  <1>4. CASE CloseActor
    BY <1>4, CloseActorStep
  <1>5. CASE Holder
    BY <1>5, FetchStep, DetachStep, LaunchStep, ConfigureRevisionStep, ConfigureCandidateStep,
       StopCandidateStep, CommitStep, RollbackStep, RemoveStep, EmitStep DEF Holder
  <1>6. CASE RetryStarts
    BY <1>6, RetryStartsStep
  <1>7. CASE \E request \in Requests : Reconcile(request)
    BY <1>7, ReconcileStep
  <1>8. ASSUME NEW p \in Processes,
               \/ ProcessExits(p)
               \/ WatchSeesExit(p) \/ WatchSeesUnhealthy(p) \/ WatchSeesMismatch(p)
               \/ WatchOfOther(p) \/ WatchRestarts(p) \/ WatchCannotStop(p)
        PROVE  IInv'
    BY <1>8, ProcessExitsStep, WatchQuietStep, WatchRestartsStep, WatchCannotStopStep
  <1>9. CASE UNCHANGED vars
    BY <1>9, UnchangedIInv
  <1> QED
    BY <1>1, <1>2, <1>3, <1>4, <1>5, <1>6, <1>7, <1>8, <1>9 DEF Next

\* The inductive invariant holds in every behaviour of the supervisor: Start,
\* executeReconcile, watch, retryRecovery, Close and a crash all keep it.
THEOREM Invariance == Spec => []IInv
  BY InitIInv, NextIInv, PTL DEF Spec

\* The variables have their types, whatever the plugin process and the disk do.
THEOREM TypeCorrect == Spec => []TypeOK
  <1>1. IInv => TypeOK
    BY DEF IInv
  <1> QED
    BY <1>1, Invariance, PTL

\* OneProcess, for any number of processes: reconcile, rollback, recovery and a
\* repeated command start a process only when the last one is stopped.
THEOREM OneProcessAlive == Spec => []OneProcess
  <1>1. IInv => OneProcess
    <2> SUFFICES ASSUME IInv, NEW p \in Processes, NEW q \in Processes,
                        Alive(p), Alive(q), ~procs[p].stuck, ~procs[q].stuck
                 PROVE  p = q
      BY DEF OneProcess
    <2>1. p \in {inCharge, op.process} /\ q \in {inCharge, op.process}
      BY DEF IInv, AliveInv
    <2>2. op.process # None => op.pc \in Starting
      BY DEF IInv, CandidateInv, Starting
    <2>3. op.process # None => inCharge = None \/ ~Alive(inCharge)
      BY <2>2 DEF IInv, AliveInv, Exited
    <2> QED
      BY <2>1, <2>3, NoneNotProcess
  <1> QED
    BY <1>1, Invariance, PTL

\* NoneSurvivesClose: Close waits for the holder of the mutex and stops what it
\* has started.
THEOREM CloseStopsAll == Spec => []NoneSurvivesClose
  <1>1. IInv => NoneSurvivesClose
    BY NoneNotProcess DEF IInv, AliveInv, DownInv, CandidateInv, NoneSurvivesClose
  <1> QED
    BY <1>1, Invariance, PTL

\* ReleasesRetained: pruneReleases and removePluginData keep every release that
\* a restart or a rollback may need, although a save that failed may have put
\* the file ahead of its copy in memory.
THEOREM RetainedForRollback == Spec => []ReleasesRetained
  <1>1. IInv => ReleasesRetained
    BY DEF IInv
  <1> QED
    BY <1>1, Invariance, PTL

\* ServedIsCommitted: RunningPlugins offers no candidate that was not committed,
\* and nothing of a plugin that is stopped or absent.
THEOREM OnlyCommittedServed == Spec => []ServedIsCommitted
  <1>1. IInv => ServedIsCommitted
    BY NoneNotProcess DEF IInv, ServeInv, ServedIsCommitted, Served
  <1> QED
    BY <1>1, Invariance, PTL

\* ServedIsReported: the last status event in the queue says that the plugin
\* runs while a healthy process of it is offered.
THEOREM ServedReported == Spec => []ServedIsReported
  <1>1. IInv => ServedIsReported
    BY NoneNotProcess DEF IInv, ReportInv, ServedIsReported, Served, Unlocked
  <1> QED
    BY <1>1, Invariance, PTL

\* SupervisedUnlessStopFailed: a committed revision that should run has a
\* watched process or a retry, however the transitions to others have failed.
THEOREM AlwaysSupervised == Spec => []SupervisedUnlessStopFailed
  <1>1. IInv => SupervisedUnlessStopFailed
    BY DEF IInv, SuperviseInv, WatchInv, SupervisedUnlessStopFailed, Supervised, Unlocked, Starting
  <1> QED
    BY <1>1, Invariance, PTL

-----------------------------------------------------------------------------
(* The refinement of PluginContract.                                       *)

\* What is prepared is what the center has asked for.
RequestInv == {stored.pending, states.pending} \subseteq Requests \cup {None}

LEMMA InitRequest ==
  ASSUME Init
  PROVE  RequestInv
  BY DEF Init, StateInit, NoFile, RequestInv

\* Of the steps only four kinds touch the file or its copy.
Quiet ==
  /\ UNCHANGED <<stored, states>>
  /\ agent' = "down" <=> agent = "down"

LEMMA StepKinds ==
  ASSUME IInv, [Next]_vars
  PROVE  \/ Quiet \/ Boot \/ Commit
         \/ Gone /\ agent # "down"
         \/ \E request \in Requests : Reconcile(request)
         \/ \E p \in Processes : WatchRestarts(p)
  <1> SUFFICES ASSUME ~Boot, ~Commit, ~(Gone /\ agent # "down"),
                      \A request \in Requests : ~Reconcile(request),
                      \A p \in Processes : ~WatchRestarts(p)
               PROVE  Quiet
    OBVIOUS
  <1>1. CASE Crash \/ Exit
    BY <1>1 DEF Crash, Exit
  <1>2. CASE Cancel \/ Close \/ CloseActor
    BY <1>2 DEF Cancel, Close, CloseActor, stateVars, Quiet
  <1>3. CASE Holder
    BY <1>3 DEF Holder, Fetch, Detach, Launch, ConfigureRevision, ConfigureCandidate,
       StopCandidate, Rollback, Remove, Emit, stateVars, Quiet
  <1>4. CASE RetryEnds \/ RetryStarts
    BY <1>4 DEF RetryEnds, RetryStarts, stateVars, Quiet
  <1>5. ASSUME NEW p \in Processes,
               \/ ProcessExits(p)
               \/ WatchSeesExit(p) \/ WatchSeesUnhealthy(p) \/ WatchSeesMismatch(p)
               \/ WatchOfOther(p) \/ WatchCannotStop(p)
        PROVE  Quiet
    BY <1>5 DEF ProcessExits, WatchSeesExit, WatchSeesUnhealthy, WatchSeesMismatch,
       WatchOfOther, WatchCannotStop, WatchFrame, stateVars, Quiet
  <1>6. CASE UNCHANGED vars
    BY <1>6 DEF vars, stateVars, Quiet
  <1> QED
    BY <1>1, <1>2, <1>3, <1>4, <1>5, <1>6 DEF Next

\* What the steps do to the file.  A reconcile that is prepared changes nothing
\* that is committed.
LEMMA ReconcileFiles ==
  ASSUME IInv, NEW request \in Requests, Reconcile(request)
  PROVE  /\ agent # "down" /\ UNCHANGED <<agent, procs, inCharge>>
         /\ states'.current = states.current
         /\ stored'.current \in {stored.current, states.current}
         /\ {stored'.pending, states'.pending}
              \subseteq {stored.pending, states.pending, request}
  <1> DEFINE file == IF IsNew(request) THEN Prepared(request) ELSE states
  <1>1. states \in PluginFile
    BY DEF IInv, TypeOK, StateTypeOK
  <1>2. file.current = states.current /\ file.pending \in {states.pending, request}
    BY <1>1 DEF Prepared, PluginFile
  <1>3. /\ agent \in {"up", "cancelled"} /\ UNCHANGED <<agent, procs, inCharge>>
        /\ Save(file) \/ SaveFails(file) \/ UNCHANGED <<stored, states>>
    BY DEF Reconcile
  <1> HIDE DEF file
  <1>4. states' \in {states, file} /\ stored' \in {stored, file}
    BY <1>3 DEF Save, SaveFails
  <1> QED
    BY <1>2, <1>3, <1>4

LEMMA CommitFiles ==
  ASSUME IInv, Commit
  PROVE  /\ agent # "down" /\ agent' = agent /\ inCharge = None
         /\ op.revision = states.pending /\ op.revision # None
         /\ states.current # None => op.revision.generation > states.current.generation
         /\ {stored'.pending, states'.pending} \subseteq {stored.pending, states.pending, None}
         /\ \/ /\ states'.current = op.revision
               /\ stored'.current = op.revision
            \/ /\ states' = states
               /\ stored'.current \in {stored.current, op.revision}
               /\ UNCHANGED <<procs, inCharge>>
  <1>1. op.pc = "commit" /\ agent' = agent
    BY DEF Commit
  <1>2. states \in PluginFile /\ FileInv(states) /\ op \in Op
    BY DEF IInv, TypeOK, StateTypeOK, StoreInv
  <1>3. op.kind = "reconcile" /\ op.revision # None /\ op.revision \in Revision
    BY <1>1, <1>2 DEF IInv, OpInv, Op
  <1>4. op.revision = states.pending /\ agent # "down" /\ inCharge = None
    BY <1>1, <1>3 DEF IInv, RevisionInv, DownInv, AliveInv, Starting
  <1>5. states.current # None => op.revision.generation > states.current.generation
    BY <1>2, <1>3, <1>4, RevisionType DEF FileInv, PluginFile
  <1> DEFINE file == Committed(op.revision)
  <1>6. file.current = op.revision /\ file.pending = None
    BY <1>2, <1>3, <1>4, CommittedFile
  <1>7. \/ Save(file)
        \/ SaveFails(file) /\ UNCHANGED <<procs, inCharge>>
    BY DEF Commit
  <1> HIDE DEF file
  <1>8. \/ stored' = file /\ states' = file
        \/ states' = states /\ stored' \in {stored, file} /\ UNCHANGED <<procs, inCharge>>
    BY <1>7 DEF Save, SaveFails
  <1> QED
    BY <1>1, <1>3, <1>4, <1>5, <1>6, <1>8

LEMMA WatchRestartsFiles ==
  ASSUME IInv, NEW p \in Processes, WatchRestarts(p)
  PROVE  /\ agent # "down" /\ agent' = agent /\ inCharge' = None
         /\ states' = states /\ stored' \in {stored, states}
  <1>1. inCharge = p /\ agent' = agent /\ inCharge' = None
    BY DEF WatchRestarts
  <1>2. agent # "down"
    BY <1>1, NoneNotProcess DEF IInv, DownInv
  <1> QED
    BY <1>1, <1>2 DEF WatchRestarts, Save, SaveFails

LEMMA NextRequest ==
  ASSUME IInv, RequestInv, [Next]_vars
  PROVE  RequestInv'
  <1>1. CASE Quiet \/ Boot \/ Gone
    BY <1>1 DEF Quiet, Boot, Gone, NoFile, RequestInv
  <1>2. CASE Commit
    BY <1>2, CommitFiles DEF RequestInv
  <1>3. CASE \E request \in Requests : Reconcile(request)
    BY <1>3, ReconcileFiles DEF RequestInv
  <1>4. CASE \E p \in Processes : WatchRestarts(p)
    BY <1>4, WatchRestartsFiles DEF RequestInv
  <1> QED
    BY <1>1, <1>2, <1>3, <1>4, StepKinds

\* What is offered is the revision the plugin is at.
ServingInv ==
  /\ servingBar = IF inCharge # None /\ procs[inCharge].ready /\ procs[inCharge].status = "alive"
                  THEN states.current ELSE None
  /\ servingBar # None =>
       /\ servingBar = committedBar
       /\ committedBar # None /\ committedBar.state = "running"
  /\ agent = "down" => inCharge = None

LEMMA ServingIs == IInv => ServingInv
  <1> SUFFICES ASSUME IInv PROVE ServingInv
    OBVIOUS
  <1>1. inCharge \in Processes \cup {None}
    BY DEF IInv, TypeOK
  <1>2. (\E p \in Processes : Served(p))
          <=> inCharge # None /\ procs[inCharge].ready /\ Alive(inCharge)
    BY <1>1, NoneNotProcess DEF Served
  <1>3. inCharge # None /\ procs[inCharge].ready =>
          /\ WantsProcess(states.current)
          /\ procs[inCharge].revision = states.current
    BY DEF IInv, ServeInv
  <1>4. inCharge # None => agent # "down"
    BY DEF IInv, DownInv
  <1> QED
    BY <1>2, <1>3, <1>4 DEF servingBar, committedBar, WantsProcess, Alive, ServingInv

\* A plugin changes its revision only by a transition that is committed, to a
\* newer one the center has asked for and while no process of it is offered, or
\* with a restart to what a failed commit has left on disk; and RunningPlugins
\* offers no other revision, even while executeReconcile is in the middle of a
\* transition.
THEOREM RefinesPluginContract == Spec => ImplementsPluginContract
  <1>1. Init => Contract!Init
    <2> SUFFICES ASSUME Init
                 PROVE  committedBar = None /\ stored.current = None /\ servingBar = None
      BY DEF Contract!Init
    <2>1. agent = "down" /\ stored.current = None
      BY DEF Init, StateInit, NoFile
    <2>2. servingBar = None
      BY <2>1, InitIInv, ServingIs DEF ServingInv
    <2> QED
      BY <2>1, <2>2 DEF committedBar
  <1>2. IInv /\ RequestInv /\ [Next]_vars
          => [Contract!Next]_<<committedBar, stored.current, servingBar>>
    <2> SUFFICES ASSUME IInv, RequestInv, [Next]_vars
                 PROVE  \/ \E request \in Requests :
                             Contract!Advance(request) \/ Contract!AdvanceOnDisk(request)
                        \/ Contract!Settle \/ Contract!Offer
                        \/ Contract!Withdraw \/ Contract!Restart
                        \/ UNCHANGED <<committedBar, stored.current, servingBar>>
      BY DEF Contract!Next
    <2>1. IInv'
      BY NextIInv
    <2>2. ServingInv /\ ServingInv'
      BY <2>1, ServingIs, PTL
    <2>3. servingBar' # None =>
            /\ servingBar' = committedBar'
            /\ committedBar' # None /\ committedBar'.state = "running"
      BY <2>2 DEF ServingInv
    <2>4. CASE Quiet
      <3>1. stored'.current = stored.current /\ committedBar' = committedBar
        BY <2>4 DEF Quiet, committedBar
      <3>2. CASE servingBar' = servingBar
        BY <3>1, <3>2
      <3>3. CASE servingBar' = None
        BY <3>1, <3>3 DEF Contract!Withdraw
      <3>4. CASE servingBar' # None /\ servingBar = None
        BY <2>3, <3>1, <3>4 DEF Contract!Offer, Contract!Runs
      <3> QED
        BY <2>2, <3>1, <3>2, <3>3, <3>4 DEF ServingInv
    <2>5. CASE Boot
      <3>1. /\ agent = "down" /\ agent' = "up" /\ states' = stored /\ stored' = stored
            /\ inCharge' = inCharge
        BY <2>5 DEF Boot
      <3>2. servingBar = None /\ servingBar' = None
        BY <2>2, <3>1 DEF ServingInv
      <3> QED
        BY <3>1, <3>2 DEF committedBar
    <2>6. CASE Gone /\ agent # "down"
      <3>1. agent' = "down" /\ stored' = stored
        BY <2>6 DEF Gone
      <3> QED
        BY <2>2, <3>1 DEF ServingInv, committedBar, Contract!Restart
    <2>7. CASE Commit
      <3>1. /\ agent # "down" /\ agent' = agent /\ inCharge = None
            /\ op.revision = states.pending /\ op.revision # None
            /\ states.current # None => op.revision.generation > states.current.generation
            /\ \/ /\ states'.current = op.revision
                  /\ stored'.current = op.revision
               \/ /\ states' = states
                  /\ stored'.current \in {stored.current, op.revision}
                  /\ UNCHANGED <<procs, inCharge>>
        BY <2>7, CommitFiles
      <3>2. /\ op.revision \in Requests /\ servingBar = None
            /\ committedBar = states.current /\ committedBar' = states'.current
            /\ Contract!Newer(op.revision, committedBar)
        BY <2>2, <3>1 DEF ServingInv, RequestInv, committedBar, Contract!Newer
      <3>3. CASE states'.current = op.revision /\ stored'.current = op.revision
        <4>1. servingBar' \in {None} \cup {r \in {op.revision} : Contract!Runs(r)}
          BY <2>3, <3>2, <3>3 DEF Contract!Runs
        <4>2. Contract!Advance(op.revision)
          BY <3>2, <3>3, <4>1 DEF Contract!Advance
        <4> QED
          BY <3>2, <4>2
      <3>4. CASE /\ states' = states /\ stored'.current \in {stored.current, op.revision}
                 /\ UNCHANGED <<procs, inCharge>>
        <4>1. servingBar' = None
          BY <2>2, <3>1, <3>4 DEF ServingInv
        <4> QED
          BY <3>2, <3>4, <4>1 DEF Contract!AdvanceOnDisk
      <3> QED
        BY <3>1, <3>3, <3>4
    <2>8. CASE \E request \in Requests : Reconcile(request)
      <3>1. /\ agent # "down" /\ UNCHANGED <<agent, procs, inCharge>>
            /\ states'.current = states.current
            /\ stored'.current \in {stored.current, states.current}
        BY <2>8, ReconcileFiles
      <3>2. committedBar = states.current /\ committedBar' = states.current
        BY <3>1 DEF committedBar
      <3>3. servingBar' = servingBar
        BY <2>2, <3>1 DEF ServingInv
      <3> QED
        BY <3>1, <3>2, <3>3 DEF Contract!Settle
    <2>9. CASE \E p \in Processes : WatchRestarts(p)
      <3>1. /\ agent # "down" /\ agent' = agent /\ inCharge' = None
            /\ states' = states /\ stored' \in {stored, states}
        BY <2>9, WatchRestartsFiles
      <3>2. committedBar = states.current /\ committedBar' = states.current
        BY <3>1 DEF committedBar
      <3>3. servingBar' = None
        BY <2>2, <3>1 DEF ServingInv
      <3> QED
        BY <3>1, <3>2, <3>3 DEF Contract!Withdraw
    <2> QED
      BY <2>4, <2>5, <2>6, <2>7, <2>8, <2>9, StepKinds
  <1> QED
    BY <1>1, <1>2, InitRequest, NextRequest, Invariance, PTL
    DEF Spec, ImplementsPluginContract, Contract!Spec, Contract!vars

\* NeverGoesBack: a revision that was committed is never replaced by an older
\* one, whatever the center repeats or reorders and whichever save fails, not
\* even by the restart that finds a file the Agent never worked by.
THEOREM GenerationsNeverGoBack == Spec => Contract!NeverGoesBack
  <1> DEFINE Ahead == \/ stored.current = committedBar
                      \/ Contract!Newer(stored.current, committedBar)
  <1>1. Contract!Init => Ahead
    BY DEF Contract!Init
  <1>2. Ahead /\ [Contract!Next]_(Contract!vars) => Ahead'
    BY DEF Contract!Next, Contract!vars, Contract!Advance, Contract!AdvanceOnDisk,
       Contract!Settle, Contract!Offer, Contract!Withdraw, Contract!Restart, Contract!Newer
  <1>3. Ahead /\ [Contract!Next]_(Contract!vars)
          => [committedBar' # committedBar
                => Contract!Newer(committedBar', committedBar)]_(Contract!vars)
    BY DEF Contract!Next, Contract!vars, Contract!Advance, Contract!AdvanceOnDisk,
       Contract!Settle, Contract!Offer, Contract!Withdraw, Contract!Restart
  <1> QED
    BY <1>1, <1>2, <1>3, RefinesPluginContract, PTL
    DEF ImplementsPluginContract, Contract!Spec, Contract!NeverGoesBack
=============================================================================
