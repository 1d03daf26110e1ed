-------------------------- MODULE CommandContract ---------------------------
(***************************************************************************)
(* What the Agent promises for a command, without files, connections,      *)
(* crashes or goroutines: at some moment the result of a request is        *)
(* decided, once and for all, and later the center knows it.  README.md    *)
(* calls this "durable idempotent commands".                               *)
(***************************************************************************)
CONSTANTS Requests, Result, None

VARIABLES
  verdict,   \* the result of each request, or None
  known      \* the requests whose result has reached the center

vars == <<verdict, known>>

TypeOK ==
  /\ verdict \in [Requests -> Result \cup {None}]
  /\ known \in SUBSET Requests

Init ==
  /\ verdict = [p \in Requests |-> None]
  /\ known = {}

Decide(p) ==
  /\ verdict[p] = None
  /\ verdict'[p] \in Result
  /\ verdict' = [verdict EXCEPT ![p] = verdict'[p]]
  /\ UNCHANGED known

Deliver(p) ==
  /\ verdict[p] # None
  /\ p \notin known
  /\ known' = known \cup {p}
  /\ UNCHANGED verdict

Next == \E p \in Requests : Decide(p) \/ Deliver(p)

Spec == Init /\ [][Next]_vars

FairSpec == Spec /\ \A p \in Requests : WF_vars(Deliver(p))
=============================================================================
