------------------------- MODULE CommandRefinement --------------------------
(***************************************************************************)
(* CommandFlow implements CommandContract.  A request is decided when its  *)
(* result is in the command's file - not yet when the executor returns, and *)
(* even if the write then reports an error because the directory could not *)
(* be synced - and known when the center has received it.                  *)
(***************************************************************************)
EXTENDS CommandFlow

HasResult(record, p) ==
  record # None /\ record.result # None /\ record.digest = p[2]

verdictBar ==
  [p \in Requests |->
     IF received[p[1]][p[2]] # {} THEN CHOOSE r \in received[p[1]][p[2]] : TRUE
     ELSE IF HasResult(disk[p[1]], p) THEN disk[p[1]].result
     ELSE None]

knownBar == {p \in Requests : received[p[1]][p[2]] # {}}

Contract == INSTANCE CommandContract WITH verdict <- verdictBar, known <- knownBar

\* The steps of the Processor, the session and the store are steps of the
\* contract or change nothing it can see, through crashes, failed writes and
\* repeated results; and a decided result eventually reaches the center.
ImplementsContract == Contract!FairSpec
=============================================================================
