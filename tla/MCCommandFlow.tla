--------------------------- MODULE MCCommandFlow ----------------------------
(***************************************************************************)
(* Values for the constants of CommandFlow that a .cfg cannot write.       *)
(***************************************************************************)
EXTENDS CommandRefinement

\* Every command expires at the last instant, or never within the bound.
ExpiryLast == [c \in Commands |-> MaxTime]
ExpiryNever == [c \in Commands |-> MaxTime + 1]
=============================================================================
