---------------------------- MODULE PluginState -----------------------------
(***************************************************************************)
(* The durable state of one plugin, internal/plugin/state.go.              *)
(*                                                                         *)
(* A plugin has one file with its last generation and its current,         *)
(* previous and pending revision, of which the store keeps a copy in       *)
(* memory, and a directory with the releases it has downloaded.  A         *)
(* revision is abstracted to its generation, its state and its release     *)
(* (version, artifact and configuration); the restart count, which is only *)
(* reported, and the download URL are left out.  Plugins share nothing but *)
(* the directory, so one is enough.                                        *)
(***************************************************************************)
EXTENDS Naturals

CONSTANTS
  Releases,   \* the releases of the plugin
  Requests,   \* the reconcile commands of the center
  None        \* "no revision", "no release", "no process"

Revision == [generation : Nat \ {0}, state : {"running", "stopped"}, release : Releases]
              \cup [generation : Nat \ {0}, state : {"absent"}, release : {None}]

ASSUME PluginStateAssumption ==
  /\ Requests \subseteq Revision
  /\ None \notin Releases
  /\ None \notin Revision

VARIABLES
  stored,     \* the plugin's file
  states,     \* its copy in stateStore.states
  releases    \* the verified executables in the release directory

PluginFile == [last : Nat,
               current : Revision \cup {None},
               previous : Revision \cup {None},
               pending : Revision \cup {None}]

\* A plugin without a file.
NoFile == [last |-> 0, current |-> None, previous |-> None, pending |-> None]

StateTypeOK ==
  /\ stored \in PluginFile
  /\ states \in PluginFile
  /\ releases \subseteq Releases

StateInit ==
  /\ stored = NoFile
  /\ states = NoFile
  /\ releases = {}

Installed(revision) == revision # None /\ revision.state # "absent"
WantsProcess(revision) == revision # None /\ revision.state = "running"

\* writeLocked and the assignment that follows it.  If only the sync of the
\* directory fails, the new file is in place and the copy keeps the old state.
Save(file) == stored' = file /\ states' = file

SaveFails(file) ==
  /\ \/ UNCHANGED stored
     \/ stored' = file
  /\ UNCHANGED states

\* Mutant of IsNew: a generation may come again with another content.
IsNewOrAgain(request) == request.generation >= states.last

\* prepare: a request is new, the one already in hand, or the current one.
\* Every other request is stale or in conflict and is refused.
IsNew(request)     == request.generation > states.last
IsCurrent(request) == request.generation = states.last /\ states.current = request
IsPending(request) == request.generation = states.last /\ states.pending = request

Prepared(request) == [states EXCEPT !.last = request.generation, !.pending = request]

\* commit: the revision that is replaced becomes the previous one, unless one
\* of the two is absent.
Committed(request) ==
  [states EXCEPT
     !.current = request,
     !.previous = IF request.state = "absent" THEN None
                  ELSE IF Installed(states.current) THEN states.current ELSE @,
     !.pending = None]

\* Mutant of Kept: only the current and the pending release are kept.
KeptWithoutPrevious(file) ==
  {revision.release : revision \in {file.current, file.pending} \ {None}}

\* pruneReleases, for the state as it is in memory.
Kept(file) ==
  {revision.release : revision \in {file.current, file.previous, file.pending} \ {None}}

\* What may be left of the releases when removing them fails half-way; the
\* caller only logs the error.
Pruned(file, left) ==
  /\ releases \cap Kept(file) \subseteq left
  /\ left \subseteq releases
=============================================================================
