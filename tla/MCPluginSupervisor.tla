------------------------- MODULE MCPluginSupervisor -------------------------
(***************************************************************************)
(* Requests for PluginSupervisor: an installation, then an upgrade, a stop *)
(* or a removal, and an installation of a third release or of the first.   *)
(***************************************************************************)
EXTENDS PluginRefinement

CONSTANTS r1, r2, r3

Request(generation, state, release) ==
  [generation |-> generation, state |-> state, release |-> release]

Upgrades == {Request(1, "running", r1),
             Request(2, "running", r2), Request(2, "stopped", r2), Request(2, "absent", None),
             Request(3, "running", r3)}
=============================================================================
