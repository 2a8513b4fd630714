--------------------------- MODULE MCLauncherApp ---------------------------
(* LauncherApp with a game of one managed path, the engine's. *)
EXTENDS LauncherApp, TLC

MCPaths == <<"bin">>

\* Bound: two calls at once until an update begins, one call beside the update and after it;
\* the update's own crashes are followed in MCUpdater.
MCCalls ==
  release > 0 => /\ Cardinality({t \in Thread : at[t] # "none"}) <= 1
                 /\ ~raced /\ crashes = 0

MCSymmetry == Permutations(Thread) \cup Permutations(Engine)
=============================================================================
