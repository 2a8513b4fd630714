----------------------------- MODULE MCUpdater -----------------------------
(* Updater with a game of three paths: one that every release has, and two *)
(* that come and go.                                                       *)
EXTENDS Updater

MCPaths == <<"mods", "menu", "client">>
=============================================================================
