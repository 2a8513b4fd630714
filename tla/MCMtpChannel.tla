---------------------------- MODULE MCMtpChannel ----------------------------
(* MtpChannel with a few messages, over numbers that wrap. *)
EXTENDS MtpChannel
=============================================================================
