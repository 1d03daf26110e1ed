--------------------------- MODULE MCPolicyEngine ---------------------------
EXTENDS PolicyEngine, TLC

CONSTANTS a1, p1, p2, s1, s2

Plain(bindings) == [bindings |-> bindings, enabled |-> TRUE, expires |-> None, limit |-> None,
                    soft |-> None]

\* A service with a quota, which is then taken away.
Metered == {[generation |-> 1, policies |-> a1 :> [Plain({p1}) EXCEPT !.limit = 1]],
            [generation |-> 2, policies |-> <<>>]}

\* A service on two plugins that expires; then on one of them without end.
Moving == {[generation |-> 1, policies |-> a1 :> [Plain({p1, p2}) EXCEPT !.expires = 1]],
           [generation |-> 2, policies |-> a1 :> Plain({p1})]}

\* A service for one address at a time.
OneAddress == {[generation |-> 1, policies |-> a1 :> [Plain({p1}) EXCEPT !.soft = 1]]}

\* A service that expires.
Expiring == {[generation |-> 1, policies |-> a1 :> [Plain({p1}) EXCEPT !.expires = 1]]}

\* A service that is taken away and given back: CountedOnce and RevisionsGrow do not
\* survive that (see the README), so no passing run has it.
Returning == {[generation |-> 1, policies |-> a1 :> Plain({p1})],
              [generation |-> 2, policies |-> <<>>],
              [generation |-> 3, policies |-> a1 :> Plain({p1})]}

Addresses == Permutations(Sources)
=============================================================================
