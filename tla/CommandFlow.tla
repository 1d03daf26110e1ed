---------------------------- MODULE CommandFlow -----------------------------
(***************************************************************************)
(* The life of a center command in the Agent: delivered in a heartbeat     *)
(* acknowledgement, stored, executed by the Processor goroutine, its       *)
(* result sent by the control session until the center acknowledges it,    *)
(* and forgotten after the retention.                                      *)
(*                                                                         *)
(* Three parties run concurrently: Processor.Run (internal/command/        *)
(* processor.go), Client.runSession (internal/agent/client.go) and the     *)
(* center (external).  They share the CommandStore, the two one-slot       *)
(* channels wake and resultReady, and a connection on which the Agent      *)
(* always waits for the answer to its last message.  The process may       *)
(* crash, stop and restart, the connection may break with a message in     *)
(* flight, and every write to the store may fail.                          *)
(***************************************************************************)
EXTENDS CommandStore

CONSTANTS
  ExpiresAt,        \* Command.ExpiresAt, per command
  ReadDeadline,     \* how long a heartbeat waits for its answer
  RedeliveryWindow, \* how long the center may repeat a command it has a result for
  PowerMayFail,     \* may the machine lose power?
  MaxTime,          \* bound on the clock
  MaxFaults         \* bound on crashes, stops, restarts, lost connections, failed writes

Requests == Commands \X Digests

ASSUME CommandFlowAssumption ==
  /\ ExpiresAt \in [Commands -> Nat]
  /\ ReadDeadline \in Nat
  /\ RedeliveryWindow \in Nat
  /\ RedeliveryWindow + ReadDeadline < Retention
  /\ PowerMayFail \in BOOLEAN
  /\ MaxTime \in Nat
  /\ MaxFaults \in Nat

VARIABLES
  agent,        \* the process: "up", "stopping" (context cancelled) or "down"
  proc,         \* Processor.Run: where it is, and the command in its hands
  wake,         \* the channel Accept signals
  resultReady,  \* the channel Run signals
  sess,         \* runSession: where it is, and the request it waits for
  wire,         \* the message in flight on the connection
  late,         \* results in flight on connections the Agent has given up
  issued,       \* center: the requests it wants executed
  received,     \* center: every result that reached it, per request
  receivedAt,   \* center: when the first one did
  faults        \* how many faults have happened

procVars == <<proc, wake, resultReady>>
centerVars == <<issued, received, receivedAt>>
vars == <<disk, synced, mem, now, agent, proc, wake, resultReady, sess, wire,
          late, issued, received, receivedAt, faults>>

-----------------------------------------------------------------------------
(* Types.                                                                  *)

ProcPcs == {"start", "scan", "wait", "exec", "complete", "done"}
SessPcs == {"off", "check", "idle", "awaitResult", "awaitBeat"}

ResultMessage == [type : {"result"}, cmd : Commands, result : Result]
BeatMessage   == [type : {"beat"}]
ResultAck     == [type : {"resultAck"}, cmd : Commands, digest : Digests]
BeatAck       == [type : {"beatAck"}, cmd : Commands, digest : Digests]
EmptyBeatAck  == [type : {"emptyBeatAck"}]
Message == ResultMessage \cup BeatMessage \cup ResultAck \cup BeatAck \cup EmptyBeatAck

ASSUME MessageAssumption == None \notin Message

TypeOK ==
  /\ StoreTypeOK
  /\ agent \in {"up", "stopping", "down"}
  /\ proc \in [pc : ProcPcs, cmd : Commands \cup {None},
               digest : Digests \cup {None}, result : Result \cup {None}]
  /\ wake \in BOOLEAN
  /\ resultReady \in BOOLEAN
  /\ sess \in [pc : SessPcs, cmd : Commands \cup {None},
               digest : Digests \cup {None}, sentAt : Nat]
  /\ wire \in Message \cup {None}
  /\ late \in SUBSET ResultMessage
  /\ issued \in SUBSET Requests
  /\ received \in [Commands -> [Digests -> SUBSET Result]]
  /\ receivedAt \in [Commands -> [Digests -> Nat]]
  /\ faults \in Nat

-----------------------------------------------------------------------------
(* The process.                                                            *)

ProcAt(pc) == [pc |-> pc, cmd |-> None, digest |-> None, result |-> None]
SessAt(pc) == [pc |-> pc, cmd |-> None, digest |-> None, sentAt |-> 0]

Init ==
  /\ StoreInit
  /\ agent = "down"
  /\ proc = ProcAt("done")
  /\ wake = FALSE
  /\ resultReady = FALSE
  /\ sess = SessAt("off")
  /\ wire = None
  /\ late = {}
  /\ issued = {}
  /\ received = [c \in Commands |-> [d \in Digests |-> {}]]
  /\ receivedAt = [c \in Commands |-> [d \in Digests |-> 0]]
  /\ faults = 0

Fault == faults < MaxFaults /\ faults' = faults + 1

\* The connection goes away; a result that was already written to it may
\* still reach the center.
Disconnect ==
  /\ sess' = SessAt("off")
  /\ wire' = None
  /\ \/ late' = late
     \/ wire \in ResultMessage /\ late' = late \cup {wire}

\* The process is gone, and with it all that was only in memory.
Down ==
  /\ agent' = "down"
  /\ proc' = ProcAt("done")
  /\ wake' = FALSE
  /\ resultReady' = FALSE
  /\ mem' = [c \in Commands |-> None]

\* A new process: the store is opened, the workers start, no session yet.
Boot ==
  /\ agent = "down"
  /\ agent' = "up"
  /\ OpenStore
  /\ proc' = ProcAt("start")
  /\ UNCHANGED <<wake, resultReady, now, sess, wire, late, centerVars, faults>>

\* The process dies without running any of its deferred calls.
Crash ==
  /\ agent # "down"
  /\ Fault
  /\ Down
  /\ Disconnect
  /\ UNCHANGED <<disk, synced, now, centerVars>>

\* The machine stops with the process, whatever that was doing.
PowerLoss ==
  /\ PowerMayFail
  /\ Fault
  /\ LosePower
  /\ Down
  /\ Disconnect
  /\ UNCHANGED <<now, centerVars>>

\* SIGTERM, or another worker's error, cancels the workers' context.
Stop ==
  /\ agent = "up"
  /\ Fault
  /\ agent' = "stopping"
  /\ UNCHANGED <<storeVars, now, procVars, sess, wire, late, centerVars>>

\* Client.Run returns once the session has ended and the workers have.
Exit ==
  /\ agent = "stopping"
  /\ sess.pc = "off"
  /\ proc.pc = "done"
  /\ Down
  /\ UNCHANGED <<disk, synced, now, sess, wire, late, centerVars, faults>>

Tick ==
  /\ now < MaxTime
  /\ now' = now + 1
  /\ UNCHANGED <<storeVars, agent, procVars, sess, wire, late, centerVars, faults>>

-----------------------------------------------------------------------------
(* Processor.Run.                                                          *)

\* What the processor's steps leave alone.
ProcFrame == UNCHANGED <<now, sess, wire, late, centerVars>>

\* Mutant of ProcFails: the error is lost and the Agent runs on.
ProcFailsAlone == proc' = ProcAt("done") /\ UNCHANGED agent

\* Run returns an error: the worker stops every other worker.
ProcFails == proc' = ProcAt("done") /\ agent' = "stopping"

\* Run's first Cleanup, then a signal if a result is waiting to be sent.
ProcStart ==
  /\ proc.pc = "start"
  /\ \/ /\ Cleanup
        /\ proc' = ProcAt("scan")
        /\ resultReady' = (resultReady \/ \E c \in Commands : InState(c, "completed"))
        /\ UNCHANGED <<agent, faults>>
     \/ /\ Fault
        /\ CleanupFails
        /\ ProcFails
        /\ UNCHANGED resultReady
  /\ ProcFrame
  /\ UNCHANGED wake

\* NextPending finds nothing: the select.
ProcIdle ==
  /\ proc.pc = "scan"
  /\ \A c \in Commands : ~InState(c, "pending")
  /\ proc' = ProcAt("wait")
  /\ ProcFrame
  /\ UNCHANGED <<storeVars, agent, wake, resultReady, faults>>

\* NextPending and execute up to the call of the executor: an expired command
\* gets its result without being executed.
ProcTake(c) ==
  /\ proc.pc = "scan"
  /\ Oldest(c, "pending")
  /\ proc' = IF now < ExpiresAt[c]
             THEN [pc |-> "exec", cmd |-> c, digest |-> mem[c].digest, result |-> None]
             ELSE [pc |-> "complete", cmd |-> c, digest |-> mem[c].digest,
                   result |-> [digest |-> mem[c].digest, outcome |-> "expired",
                               completedAt |-> now]]
  /\ ProcFrame
  /\ UNCHANGED <<storeVars, agent, wake, resultReady, faults>>

\* The executor returns.  Past the deadline, and once the context is
\* cancelled, the result is a failure whatever the executor achieved.
ExecReturns(outcome) ==
  /\ proc.pc = "exec"
  /\ outcome \in {"succeeded", "failed"}
  /\ outcome = "succeeded" => agent = "up" /\ now < ExpiresAt[proc.cmd]
  /\ proc' = [proc EXCEPT !.pc = "complete",
                          !.result = [digest |-> proc.digest, outcome |-> outcome,
                                      completedAt |-> now]]
  /\ ProcFrame
  /\ UNCHANGED <<storeVars, agent, wake, resultReady, faults>>

\* The executor asks for a restart: Run returns ErrRestartRequired and the
\* record stays pending for the next process.
ExecRestarts ==
  /\ proc.pc = "exec"
  /\ Fault
  /\ ProcFails
  /\ ProcFrame
  /\ UNCHANGED <<storeVars, wake, resultReady>>

\* Store.Complete, and the signal to the session.
ProcComplete ==
  /\ proc.pc = "complete"
  /\ \/ /\ Write(proc.cmd, Completed(proc.cmd, proc.result))
        /\ proc' = ProcAt("scan")
        /\ resultReady' = TRUE
        /\ UNCHANGED <<agent, faults>>
     \/ /\ Fault
        /\ WriteFails(proc.cmd, Completed(proc.cmd, proc.result))
        /\ ProcFails
        /\ UNCHANGED resultReady
  /\ ProcFrame
  /\ UNCHANGED wake

\* The three cases of the select: a new command, the hourly cleanup, and the
\* cancelled context.
ProcWake ==
  /\ proc.pc = "wait"
  /\ wake
  /\ wake' = FALSE
  /\ proc' = ProcAt("scan")
  /\ ProcFrame
  /\ UNCHANGED <<storeVars, agent, resultReady, faults>>

ProcCleanup ==
  /\ proc.pc = "wait"
  /\ \/ /\ Cleanup
        /\ proc' = ProcAt("scan")
        /\ UNCHANGED <<agent, faults>>
     \/ /\ Fault
        /\ CleanupFails
        /\ ProcFails
  /\ ProcFrame
  /\ UNCHANGED <<wake, resultReady>>

ProcCancelled ==
  /\ proc.pc = "wait"
  /\ agent = "stopping"
  /\ proc' = ProcAt("done")
  /\ ProcFrame
  /\ UNCHANGED <<storeVars, agent, wake, resultReady, faults>>

Processor ==
  \/ ProcStart \/ ProcIdle \/ ProcWake \/ ProcCleanup \/ ProcCancelled
  \/ ProcComplete \/ ExecRestarts
  \/ \E c \in Commands : ProcTake(c)
  \/ \E outcome \in Outcomes : ExecReturns(outcome)

-----------------------------------------------------------------------------
(* Client.runSession.                                                      *)

\* What the session's steps leave alone.
SessFrame == UNCHANGED <<now, proc, centerVars>>

\* Dial and the exchange of hellos; it fails once the context is cancelled.
Connect ==
  /\ agent = "up"
  /\ sess.pc = "off"
  /\ sess' = SessAt("check")
  /\ SessFrame
  /\ UNCHANGED <<storeVars, agent, wake, resultReady, wire, late, faults>>

\* The session ends: the context is cancelled, the answer to the heartbeat is
\* overdue, or the connection broke.
SessEnd ==
  /\ sess.pc # "off"
  /\ \/ agent = "stopping" /\ UNCHANGED faults
     \/ sess.pc = "awaitBeat" /\ now > sess.sentAt + ReadDeadline /\ UNCHANGED faults
     \/ agent = "up" /\ Fault
  /\ Disconnect
  /\ SessFrame
  /\ UNCHANGED <<storeVars, agent, wake, resultReady>>

\* The head of the loop: a completed result goes out before any heartbeat.
SendResult(c) ==
  /\ sess.pc = "check"
  /\ Oldest(c, "completed")
  /\ sess' = [pc |-> "awaitResult", cmd |-> c, digest |-> mem[c].digest, sentAt |-> now]
  /\ wire' = [type |-> "result", cmd |-> c, result |-> mem[c].result]
  /\ SessFrame
  /\ UNCHANGED <<storeVars, agent, wake, resultReady, late, faults>>

NoResult ==
  /\ sess.pc = "check"
  /\ \A c \in Commands : ~InState(c, "completed")
  /\ sess' = SessAt("idle")
  /\ SessFrame
  /\ UNCHANGED <<storeVars, agent, wake, resultReady, wire, late, faults>>

\* The wait for the next heartbeat, cut short by a new result.
ResultSignalled ==
  /\ sess.pc = "idle"
  /\ resultReady
  /\ resultReady' = FALSE
  /\ sess' = SessAt("check")
  /\ SessFrame
  /\ UNCHANGED <<storeVars, agent, wake, wire, late, faults>>

SendBeat ==
  /\ sess.pc = "idle"
  /\ sess' = [SessAt("awaitBeat") EXCEPT !.sentAt = now]
  /\ wire' = [type |-> "beat"]
  /\ SessFrame
  /\ UNCHANGED <<storeVars, agent, wake, resultReady, late, faults>>

\* Store.Acknowledge; its failure ends the session.
OnResultAck ==
  /\ sess.pc = "awaitResult"
  /\ wire \in ResultAck
  /\ wire.cmd = sess.cmd
  /\ wire.digest = sess.digest
  /\ wire' = None
  /\ \/ /\ Write(sess.cmd, Acknowledged(sess.cmd))
        /\ sess' = SessAt("check")
        /\ UNCHANGED faults
     \/ /\ Fault
        /\ WriteFails(sess.cmd, Acknowledged(sess.cmd))
        /\ sess' = SessAt("off")
  /\ SessFrame
  /\ UNCHANGED <<agent, wake, resultReady, late>>

\* A heartbeat acknowledgement read within its deadline.
BeatAnswered ==
  /\ sess.pc = "awaitBeat"
  /\ now <= sess.sentAt + ReadDeadline
  /\ wire' = None
  /\ SessFrame
  /\ UNCHANGED <<resultReady, late>>

OnEmptyBeatAck ==
  /\ wire \in EmptyBeatAck
  /\ BeatAnswered
  /\ sess' = SessAt("check")
  /\ UNCHANGED <<storeVars, agent, wake, faults>>

\* Processor.Accept of a command the store does not know.
AcceptNew ==
  /\ wire \in BeatAck
  /\ mem[wire.cmd] = None
  /\ BeatAnswered
  /\ \/ /\ Write(wire.cmd, Accepted(wire.digest))
        /\ wake' = TRUE
        /\ sess' = SessAt("check")
        /\ UNCHANGED faults
     \/ /\ Fault
        /\ WriteFails(wire.cmd, Accepted(wire.digest))
        /\ sess' = SessAt("off")
        /\ UNCHANGED wake
  /\ UNCHANGED agent

\* Accept of a command that is already recorded changes nothing.
AcceptDuplicate ==
  /\ wire \in BeatAck
  /\ mem[wire.cmd] # None
  /\ mem[wire.cmd].digest = wire.digest
  /\ BeatAnswered
  /\ sess' = SessAt("check")
  /\ UNCHANGED <<storeVars, agent, wake, faults>>

\* Accept returns ErrConflict, on which Client.Run gives up.
AcceptConflict ==
  /\ wire \in BeatAck
  /\ mem[wire.cmd] # None
  /\ mem[wire.cmd].digest # wire.digest
  /\ BeatAnswered
  /\ sess' = SessAt("off")
  /\ agent' = "stopping"
  /\ UNCHANGED <<storeVars, wake, faults>>

Session ==
  \/ Connect \/ SessEnd \/ NoResult \/ ResultSignalled \/ SendBeat
  \/ OnResultAck \/ OnEmptyBeatAck \/ AcceptNew \/ AcceptDuplicate \/ AcceptConflict
  \/ \E c \in Commands : SendResult(c)

-----------------------------------------------------------------------------
(* The center (external): it keeps issuing a command until it has a        *)
(* result, may repeat one for a while after that, and acknowledges every   *)
(* result.                                                                 *)

AgentVars == <<storeVars, now, agent, procVars, sess, faults>>

Issue(c, d) ==
  /\ <<c, d>> \notin issued
  /\ issued' = issued \cup {<<c, d>>}
  /\ UNCHANGED <<AgentVars, wire, late, received, receivedAt>>

Receive(message) ==
  LET c == message.cmd
      d == message.result.digest
  IN  /\ received' = [received EXCEPT ![c][d] = @ \cup {message.result}]
      /\ receivedAt' = IF received[c][d] = {} THEN [receivedAt EXCEPT ![c][d] = now]
                                              ELSE receivedAt

CenterResult ==
  /\ wire \in ResultMessage
  /\ Receive(wire)
  /\ wire' = [type |-> "resultAck", cmd |-> wire.cmd, digest |-> wire.result.digest]
  /\ UNCHANGED <<AgentVars, late, issued>>

CenterLateResult ==
  \E message \in late :
    /\ Receive(message)
    /\ late' = late \ {message}
    /\ UNCHANGED <<AgentVars, wire, issued>>

Deliverable(c, d) ==
  /\ <<c, d>> \in issued
  /\ received[c][d] = {} \/ now <= receivedAt[c][d] + RedeliveryWindow

CenterDelivers(c, d) ==
  /\ wire \in BeatMessage
  /\ Deliverable(c, d)
  /\ wire' = [type |-> "beatAck", cmd |-> c, digest |-> d]
  /\ UNCHANGED <<AgentVars, late, centerVars>>

CenterBeat ==
  /\ wire \in BeatMessage
  /\ wire' = [type |-> "emptyBeatAck"]
  /\ UNCHANGED <<AgentVars, late, centerVars>>

Center ==
  \/ CenterResult \/ CenterLateResult \/ CenterBeat
  \/ \E c \in Commands, d \in Digests : Issue(c, d) \/ CenterDelivers(c, d)

-----------------------------------------------------------------------------

Next ==
  \/ Boot \/ Crash \/ PowerLoss \/ Stop \/ Exit \/ Tick
  \/ Processor
  \/ Session
  \/ Center

Spec == Init /\ [][Next]_vars

(* Fairness.  The goroutines are scheduled, the service manager restarts   *)
(* the Agent, an executor returns by its deadline, and the center answers  *)
(* and keeps choosing every command it still wants a result for.  Go's     *)
(* select picks a ready case at random, so the hourly cleanup cannot keep  *)
(* out the other two for ever (SF).  Nothing is assumed of the clock, of   *)
(* faults, or of late messages.                                            *)
FairProcessor ==
  /\ WF_vars(ProcStart) /\ WF_vars(ProcIdle) /\ WF_vars(ProcComplete)
  /\ SF_vars(ProcWake) /\ SF_vars(ProcCancelled)
  /\ WF_vars(\E c \in Commands : ProcTake(c))
  /\ WF_vars(\E outcome \in Outcomes : ExecReturns(outcome))

FairSession ==
  /\ WF_vars(Connect) /\ WF_vars(NoResult) /\ WF_vars(SendBeat)
  /\ WF_vars(SessEnd)
  /\ WF_vars(OnResultAck) /\ WF_vars(OnEmptyBeatAck)
  /\ WF_vars(AcceptNew) /\ WF_vars(AcceptDuplicate) /\ WF_vars(AcceptConflict)
  /\ WF_vars(\E c \in Commands : SendResult(c))

FairCenter ==
  /\ WF_vars(CenterResult) /\ WF_vars(CenterBeat)
  /\ \A c \in Commands, d \in Digests :
       SF_vars(CenterDelivers(c, d) /\ received[c][d] = {})

Fairness == WF_vars(Boot) /\ WF_vars(Exit) /\ FairProcessor /\ FairSession /\ FairCenter

FairSpec == Spec /\ Fairness

-----------------------------------------------------------------------------
(* Properties.                                                             *)

\* The record answers the request with digest d by result r.
Answers(record, d, r) ==
  /\ record # None
  /\ record.state \in {"completed", "acknowledged"}
  /\ record.digest = d
  /\ record.result = r

\* The retention of a request's record may be over.
Forgotten(c, d) == receivedAt[c][d] + Retention <= now

\* The center never sees two different results for one request, however often
\* sendCommandResult repeats itself and wherever a crash interrupts Run.
OneResult ==
  \A c \in Commands, d \in Digests : \A r1, r2 \in received[c][d] : r1 = r2

\* A record that Acknowledge has marked, in memory or in its file, belongs to
\* a result the center has.
AcknowledgedReachedCenter ==
  \A c \in Commands : \A record \in {disk[c], mem[c]} :
    record # None /\ record.state = "acknowledged"
      => record.result \in received[c][record.digest]

\* Run never hands the executor a command the center already has a result for,
\* although the center repeats commands and Cleanup forgets them.
NoDuplicateExecution ==
  proc.pc = "exec" => received[proc.cmd][proc.digest] = {}

\* Complete and Acknowledge look a record up by an ID that was read under an
\* earlier lock; it is still there, in the state and with the digest they
\* demand, so their ErrNotFound and ErrConflict never happen.
StoreCallsMatch ==
  /\ proc.pc \in {"exec", "complete"} =>
       InState(proc.cmd, "pending") /\ mem[proc.cmd].digest = proc.digest
  /\ sess.pc = "awaitResult" =>
       InState(sess.cmd, "completed") /\ mem[sess.cmd].digest = sess.digest

\* Store.records never runs ahead of the files: where they differ, the file is
\* one step of the same record further, because of a failed directory sync.
MemoryNeverAhead ==
  agent # "down" =>
    \A c \in Commands :
      \/ mem[c] = disk[c]
      \/ mem[c] = None /\ disk[c].state = "pending"
      \/ /\ mem[c] # None /\ disk[c] # None
         /\ mem[c].digest = disk[c].digest
         /\ \/ mem[c].state = "pending" /\ disk[c].state = "completed"
            \/ /\ mem[c].state = "completed" /\ disk[c].state = "acknowledged"
               /\ mem[c].result = disk[c].result

\* A result the center may have seen stays in the command's file until the
\* retention is over: no crash brings the command back for execution.
ResultStaysOnDisk ==
  \A c \in Commands, d \in Digests : \A r \in received[c][d] :
    Answers(disk[c], d, r) \/ Forgotten(c, d)

\* Every command the center issues gets a result, through crashes, restarts and
\* broken sessions, as long as these end.
EveryCommandAnswered ==
  \A c \in Commands, d \in Digests : <<c, d>> \in issued ~> received[c][d] # {}

\* A result is sent until its acknowledgement is recorded.
EveryResultAcknowledged ==
  \A c \in Commands :
    (disk[c] # None /\ disk[c].state = "completed")
      ~> (disk[c] = None \/ disk[c].state = "acknowledged")
=============================================================================
