-------------------------- MODULE MCEventDelivery ---------------------------
EXTENDS EventRefinement, TLC

CONSTANTS p1, p2

\* A short event and one that is too long for a batch with another.
MixedSizes == (p1 :> 1) @@ (p2 :> 4)
=============================================================================
