--------------------------- MODULE MCAgentUpdate ----------------------------
EXTENDS AgentUpdate, TLC

CONSTANTS b0, b1, b2

\* Every release has a version of its own.
Versions == (b0 :> 10) @@ (b1 :> 11) @@ (b2 :> 12)

\* b1 was released again under the version of b0.
SameVersion == (b0 :> 10) @@ (b1 :> 10) @@ (b2 :> 12)

\* Two updates; an update, back to the first binary, and another update.
Forward == (1 :> b1) @@ (2 :> b2)
Back == (1 :> b1) @@ (2 :> b0) @@ (3 :> b2)
=============================================================================
