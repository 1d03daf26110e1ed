--------------------------- MODULE PluginContract ---------------------------
(***************************************************************************)
(* What the Agent promises for a plugin, without processes, goroutines,    *)
(* releases or files that are half written: it is at one of the revisions  *)
(* the center has asked for, moves on only to a newer one and only while   *)
(* none is offered, and never offers a process of any other revision.      *)
(*                                                                         *)
(* The promise has a gap, which durable shows: a transition that was       *)
(* reported as failed may already be on disk.  The plugin is then at the   *)
(* old revision until the next restart and at the new one after it.        *)
(***************************************************************************)
EXTENDS Naturals

CONSTANTS Requests, None

VARIABLES
  committed,   \* the revision the plugin is at, or None
  durable,     \* the one it would be at after a restart
  serving      \* the revision of the process that is offered, or None

vars == <<committed, durable, serving>>

Runs(revision) == revision # None /\ revision.state = "running"
Newer(revision, old) == old = None \/ revision.generation > old.generation

Init ==
  /\ committed = None
  /\ durable = None
  /\ serving = None

\* A transition succeeds.  The new process may have exited by then.
Advance(request) ==
  /\ serving = None
  /\ Newer(request, committed)
  /\ committed' = request
  /\ durable' = request
  /\ serving' \in {None} \cup {r \in {request} : Runs(r)}

\* A transition fails, but is on disk.
AdvanceOnDisk(request) ==
  /\ serving = None
  /\ Newer(request, committed)
  /\ durable' = request
  /\ UNCHANGED <<committed, serving>>

\* The file is written with the revision the plugin is at.
Settle ==
  /\ durable' = committed
  /\ UNCHANGED <<committed, serving>>

Offer ==
  /\ serving = None
  /\ Runs(committed)
  /\ serving' = committed
  /\ UNCHANGED <<committed, durable>>

\* The process has ended or is stopped, and the file may be written.
Withdraw ==
  /\ serving' = None
  /\ durable' \in {durable, committed}
  /\ UNCHANGED committed

\* The end of the Agent.
Restart ==
  /\ serving' = None
  /\ committed' = durable
  /\ UNCHANGED durable

Next ==
  \/ \E request \in Requests : Advance(request) \/ AdvanceOnDisk(request)
  \/ Settle \/ Offer \/ Withdraw \/ Restart

Spec == Init /\ [][Next]_vars

\* Over any number of transitions, failures and restarts the plugin never goes
\* back to an older generation.
NeverGoesBack == [][committed' # committed => Newer(committed', committed)]_vars
=============================================================================
