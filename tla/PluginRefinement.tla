-------------------------- MODULE PluginRefinement --------------------------
(***************************************************************************)
(* PluginSupervisor implements PluginContract.  The plugin is at the       *)
(* current revision of stateStore.states, or of the file as long as there  *)
(* is no Agent that has read it, and offers what RunningPlugins returns.   *)
(***************************************************************************)
EXTENDS PluginSupervisor

committedBar == IF agent = "down" THEN stored.current ELSE states.current

servingBar ==
  IF \E p \in Processes : Served(p) THEN procs[inCharge].revision ELSE None

Contract == INSTANCE PluginContract
              WITH committed <- committedBar, durable <- stored.current, serving <- servingBar

\* The steps of the supervisor, its goroutines and the plugin's processes are
\* steps of the contract or change nothing it can see, through transitions that
\* fail at any point, repeated and reordered commands, failed writes and
\* restarts: the plugin never goes back to an older generation.
ImplementsPluginContract == Contract!Spec
=============================================================================
