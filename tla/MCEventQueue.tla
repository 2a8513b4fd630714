---------------------------- MODULE MCEventQueue ----------------------------
(* EventQueue with three ticks. *)
EXTENDS EventQueue
=============================================================================
