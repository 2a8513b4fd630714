------------------------------ MODULE FifoLink ------------------------------
(***************************************************************************)
(* What one reliable channel of a connection promises its user: the        *)
(* messages handed to one end come out of the other end once each and in   *)
(* the order they went in (Connection::Send with reliable set, and the     *)
(* events Connection::Receive returns).                                    *)
(***************************************************************************)
EXTENDS Naturals, Sequences

VARIABLES
  accepted,  \* messages sent so far; they are numbered 1, 2, ...
  delivered  \* the messages received

vars == <<accepted, delivered>>

Init == accepted = 0 /\ delivered = <<>>

Send == accepted' = accepted + 1 /\ UNCHANGED delivered

Deliver ==
  /\ Len(delivered) < accepted
  /\ delivered' = Append(delivered, Len(delivered) + 1)
  /\ UNCHANGED accepted

Spec == Init /\ [][Send \/ Deliver]_vars

\* What is sent arrives.
FairSpec == Spec /\ WF_vars(Deliver)
=============================================================================
