--------------------------- MODULE ServerClients ---------------------------
(***************************************************************************)
(* What a server makes of the events of its connection: m_clients of       *)
(* ClientInterface, which knows peers by their ids (server/clientiface).   *)
(*                                                                         *)
(* Server::Receive takes the events from their queue one by one and is     *)
(* the only one to create and delete clients. m_clients is its list once   *)
(* the events put so far are handled; it moves with the step that puts an  *)
(* event, which is when the order of the events is settled.                *)
(*                                                                         *)
(* Left out: what a client is (its state, its player), and the data.       *)
(***************************************************************************)
EXTENDS MtpPeers

VARIABLES
  m_clients,  \* the peer whose event created the client of an id, or None
  reused      \* history: ids given again while the removal of their peer was untold

serverVars == <<vars, m_clients, reused>>

\* The threads about to tell that the peer with id i went.
Telling(i) == {t \in Thread : pc[t] = "tell" /\ id[doing[t]] = i}

\* peerAdded of the server: a client that is there stays.
PeerAdded(o) ==
  LET i == id'[o] IN
  /\ told'[o] = Append(told[o], "added")
  /\ m_clients' = IF m_clients[i] = None THEN [m_clients EXCEPT ![i] = o] ELSE m_clients
  /\ reused' = IF Telling(i) = {} THEN reused ELSE reused \cup {i}

\* deletingPeer of the server
DeletingPeer(o) ==
  /\ told'[o] = Append(told[o], "removed")
  /\ m_clients' = [m_clients EXCEPT ![id[o]] = None]
  /\ UNCHANGED reused

Listen ==
  \/ \E o \in Obj : PeerAdded(o) \/ DeletingPeer(o)
  \/ told' = told /\ UNCHANGED <<m_clients, reused>>

ServerInit == Init /\ m_clients = [i \in Id |-> None] /\ reused = {}

ServerSpec == ServerInit /\ [][Next /\ Listen]_serverVars

-----------------------------------------------------------------------------
(* Properties *)

\* The server's clients are the connection's peers: a newcomer has a client of its own from the
\* moment it is in the table, and a peer that went keeps its client just until the event of its
\* removal. Not so for an id given again before that event, whose newcomer shares the old client
\* (clientiface.cpp: "The client shouldn't already exist") and loses it, nor for the peers that
\* ~Connection deletes without an event.
ClientsFollowPeers ==
  \A i \in Id \ reused :
    LET leaving == {doing[t] : t \in Telling(i)} IN
    \/ leaving = {} /\ (m_clients[i] = m_peers[i] \/ (closing /\ m_peers[i] = None))
    \/ leaving = {m_clients[i]} /\ m_peers[i] = None

\* Data come from the address of the peer that has their id, and the client they are handed to
\* is that peer's, or none if it went meanwhile.
DataOfItsClient ==
  outcome = "data" =>
    /\ packet.id \in reused \/ m_clients[packet.id] \in {packet.peer, None}
    /\ packet.buffered \/ packet.from = address[packet.peer]
=============================================================================
