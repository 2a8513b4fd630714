--------------------------- MODULE MCServerClients ---------------------------
(* ServerClients with model values for peers, ids and addresses. *)
EXTENDS ServerClients, TLC

MCSymmetry == Permutations(Obj) \cup Permutations(Id) \cup Permutations(Addr)
=============================================================================
