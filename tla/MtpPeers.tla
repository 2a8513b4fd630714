------------------------------ MODULE MtpPeers ------------------------------
(***************************************************************************)
(* The peers of a server's connection (network/mtp): the table m_peers,    *)
(* the counted use of a Peer by PeerHelper, and the three threads that     *)
(* look peers up and delete them: the receive thread, the send thread and  *)
(* the thread of the server (here "user").                                 *)
(*                                                                         *)
(* m_peers_mutex is held for one lookup, insertion or erasure, a peer's    *)
(* m_exclusive_access_mutex for one change of its count: each is one step. *)
(* A Peer is an object of the heap; an Obj is allocated once, an Id (a     *)
(* session_t) is given again as soon as it is out of the table.            *)
(*                                                                         *)
(* A peer may time out whenever its time is looked at.                     *)
(*                                                                         *)
(* Left out: what the packets carry (MtpChannel), the client's side        *)
(* (Connect), getPeerStat and the other readers that look up like          *)
(* GetPeerAddress, and the other commands, which visit a peer on the send  *)
(* thread like its loops do.                                               *)
(***************************************************************************)
EXTENDS Naturals, Sequences, SequencesExt, FiniteSets

CONSTANTS
  Obj,          \* bound: peers ever created
  Id,           \* session_t from 2 on
  Addr,         \* addresses of clients
  MaxCommands,  \* bound: commands the server gives
  None

ASSUME PeerAssumption ==
  /\ MaxCommands \in Nat
  /\ IsFiniteSet(Obj)
  /\ None \notin Obj \cup Id

VARIABLES
  m_peers,         \* the table, a peer or None for each id
  heap,            \* "fresh", "alive" or "deleted"
  id, address,     \* of a peer
  m_usage,         \* of a peer
  m_pending_deletion, m_pending_disconnect, m_half_open,  \* the peers that have the flag
  pc,              \* where a thread is, "rest" between two operations
  held,            \* the PeerHelpers on its stack
  doing,           \* the peer it deletes
  packet,          \* what the receive thread works on
  outcome,         \* "data" when it has data to tell the server
  phase,           \* the part of the send thread's loop
  todo, doomed,    \* its peerIds; timeouted_peers or pendingDisconnect
  commands, given, \* DISCONNECT_PEER in m_command_queue; how many the server gave
  closing,         \* m_shutting_down
  told,            \* the events put about a peer
  cause            \* peers there is a reason to remove

objects == <<heap, id, address, m_usage>>
flags == <<m_pending_deletion, m_pending_disconnect, m_half_open>>
receiving == <<packet, outcome>>
sending == <<phase, todo, doomed>>
server == <<commands, given, closing>>
history == <<told, cause>>
vars == <<m_peers, objects, flags, pc, held, doing, receiving, sending, server, history>>

Thread == {"receive", "send", "user"}
NoPacket == [id |-> None, known |-> FALSE, from |-> None, buffered |-> FALSE, peer |-> None]

Init ==
  /\ m_peers = [i \in Id |-> None]
  /\ heap = [o \in Obj |-> "fresh"] /\ id = [o \in Obj |-> None]
  /\ address = [o \in Obj |-> None] /\ m_usage = [o \in Obj |-> 0]
  /\ m_pending_deletion = {} /\ m_pending_disconnect = {} /\ m_half_open = {}
  /\ pc = [t \in Thread |-> "rest"] /\ held = [t \in Thread |-> <<>>]
  /\ doing = [t \in Thread |-> None]
  /\ packet = NoPacket /\ outcome = "none"
  /\ phase = "wait" /\ todo = {} /\ doomed = {}
  /\ commands = {} /\ given = 0 /\ closing = FALSE
  /\ told = [o \in Obj |-> <<>>] /\ cause = {}

Goto(t, place) == pc' = [pc EXCEPT ![t] = place]
InTable == {m_peers[i] : i \in Id} \ {None}

-----------------------------------------------------------------------------
(* PeerHelper *)

\* Mutant: the helper does not count.
AcquireUncounted(t, i) ==
  /\ m_peers[i] # None
  /\ m_peers[i] \notin m_pending_deletion
  /\ UNCHANGED m_usage
  /\ held' = [held EXCEPT ![t] = Append(@, m_peers[i])]

\* getPeerNoEx: the helper counts a use, unless the peer is about to go.
Acquire(t, i) ==
  /\ m_peers[i] # None
  /\ m_peers[i] \notin m_pending_deletion
  /\ m_usage' = [m_usage EXCEPT ![m_peers[i]] = @ + 1]
  /\ held' = [held EXCEPT ![t] = Append(@, m_peers[i])]

NotFound(i) == m_peers[i] = None \/ m_peers[i] \in m_pending_deletion

\* The place after an operation, with n helpers left on the stack.
Back(n) == IF n > 0 THEN "release" ELSE "rest"

\* Data of a datagram are told with the outer helper in hand, those of a buffer without.
MustTell == outcome = "data" /\ ~packet.buffered /\ Len(held["receive"]) = 1

\* Mutant: the last user does not look whether the peer was dropped.
ReleaseOnly(t) ==
  LET o == Last(held[t]) IN
  /\ pc[t] = "release"
  /\ ~(t = "receive" /\ MustTell)
  /\ m_usage' = [m_usage EXCEPT ![o] = @ - 1]
  /\ held' = [held EXCEPT ![t] = Front(@)]
  /\ Goto(t, IF Len(held[t]) > 1 THEN "release" ELSE "rest")
  /\ UNCHANGED <<m_peers, heap, id, address, flags, doing, receiving, sending, server, history>>

\* DecUseCount of the innermost helper.
Release(t) ==
  LET o == Last(held[t])
      last == o \in m_pending_deletion /\ m_usage[o] = 1
  IN
  /\ pc[t] = "release"
  /\ ~(t = "receive" /\ MustTell)
  /\ m_usage' = [m_usage EXCEPT ![o] = @ - 1]
  /\ held' = [held EXCEPT ![t] = Front(@)]
  /\ doing' = [doing EXCEPT ![t] = IF last THEN o ELSE None]
  /\ Goto(t, IF last THEN "free" ELSE Back(Len(held[t]) - 1))
  /\ UNCHANGED <<m_peers, heap, id, address, flags, receiving, sending, server, history>>

\* delete this
Free(t) ==
  /\ pc[t] = "free"
  /\ heap' = [heap EXCEPT ![doing[t]] = "deleted"]
  /\ doing' = [doing EXCEPT ![t] = None]
  /\ Goto(t, Back(Len(held[t])))
  /\ UNCHANGED <<m_peers, id, address, m_usage, flags, held, receiving, sending, server, history>>

-----------------------------------------------------------------------------
(* deletePeer: out of the table, then the event, then Drop *)

Erase(t, i) ==
  IF m_peers[i] = None
  THEN Goto(t, Back(Len(held[t]))) /\ UNCHANGED <<m_peers, doing>>
  ELSE /\ doing' = [doing EXCEPT ![t] = m_peers[i]]
       /\ m_peers' = [m_peers EXCEPT ![i] = None]
       /\ Goto(t, "tell")

\* Mutant: a removal is told only when nobody uses the peer any more.
TellIfUnused(t) ==
  /\ pc[t] = "tell"
  /\ told' = IF m_usage[doing[t]] = 0 THEN [told EXCEPT ![doing[t]] = Append(@, "removed")] ELSE told
  /\ Goto(t, "drop")
  /\ UNCHANGED <<m_peers, objects, flags, held, doing, receiving, sending, server, cause>>

\* putEvent(peerRemoved), after m_peers_mutex was given back
Tell(t) ==
  /\ pc[t] = "tell"
  /\ told' = [told EXCEPT ![doing[t]] = Append(@, "removed")]
  /\ Goto(t, "drop")
  /\ UNCHANGED <<m_peers, objects, flags, held, doing, receiving, sending, server, cause>>

Drop(t) ==
  LET unused == m_usage[doing[t]] = 0 IN
  /\ pc[t] = "drop"
  /\ m_pending_deletion' = m_pending_deletion \cup {doing[t]}
  /\ Goto(t, IF unused THEN "free" ELSE Back(Len(held[t])))
  /\ doing' = [doing EXCEPT ![t] = IF unused THEN @ ELSE None]
  /\ UNCHANGED <<m_peers, objects, m_pending_disconnect, m_half_open, held, receiving, sending, server, history>>

-----------------------------------------------------------------------------
(* The receive thread *)

AtRest == pc["receive"] = "rest" /\ packet = NoPacket /\ ~closing

Take(p) ==
  /\ packet' = p
  /\ Goto("receive", "find")

\* A datagram that names an id; whoever sends it may name any.
Datagram(a, i) ==
  /\ AtRest
  /\ Take([NoPacket EXCEPT !.id = i, !.known = TRUE, !.from = a])
  /\ UNCHANGED <<m_peers, objects, flags, held, doing, outcome, sending, server, history>>

Known(a) == {i \in Id : m_peers[i] # None /\ m_peers[i] \notin m_pending_deletion
                          /\ address[m_peers[i]] = a}

\* lookupPeer finds the sender of a datagram without an id.
Lookup(a) ==
  /\ AtRest
  /\ \E i \in Known(a) : Take([NoPacket EXCEPT !.id = i, !.from = a])
  /\ UNCHANGED <<m_peers, objects, flags, held, doing, outcome, sending, server, history>>

\* createPeer: the event is put under m_peers_mutex. Too many new peers in a second, or no
\* free id found: the datagram is dropped.
CreatePeer(a) ==
  /\ AtRest
  /\ Known(a) = {}
  /\ \E i \in Id, o \in Obj :
       /\ m_peers[i] = None
       /\ heap[o] = "fresh"
       /\ m_peers' = [m_peers EXCEPT ![i] = o]
       /\ heap' = [heap EXCEPT ![o] = "alive"]
       /\ id' = [id EXCEPT ![o] = i]
       /\ address' = [address EXCEPT ![o] = a]
       /\ m_half_open' = m_half_open \cup {o}
       /\ told' = [told EXCEPT ![o] = Append(@, "added")]
       /\ Take([NoPacket EXCEPT !.id = i, !.from = a])
  /\ UNCHANGED <<m_usage, m_pending_deletion, m_pending_disconnect, held, doing,
                 outcome, sending, server, cause>>

\* getFromBuffers finds a packet that is due.
Unbuffer(i) ==
  /\ AtRest
  /\ Take([NoPacket EXCEPT !.id = i, !.buffered = TRUE])
  /\ UNCHANGED <<m_peers, objects, flags, held, doing, outcome, sending, server, history>>

Find ==
  /\ pc["receive"] = "find"
  /\ \/ /\ Acquire("receive", packet.id)
        /\ packet' = [packet EXCEPT !.peer = m_peers[packet.id]]
        /\ Goto("receive", IF packet.buffered THEN "process" ELSE "check")
     \/ /\ NotFound(packet.id)
        /\ packet' = NoPacket
        /\ Goto("receive", "rest")
        /\ UNCHANGED <<m_usage, held>>
  /\ UNCHANGED <<m_peers, heap, id, address, flags, doing, outcome, sending, server, history>>

\* Mutant: any address will do.
CheckId ==
  /\ pc["receive"] = "check"
  /\ m_half_open' = IF packet.known THEN m_half_open \ {packet.peer} ELSE m_half_open
  /\ Goto("receive", "process")
  /\ UNCHANGED <<m_peers, objects, m_pending_deletion, m_pending_disconnect, held, doing,
                 receiving, sending, server, history>>

\* The address must be the peer's. A datagram with an id opens the peer; one without an
\* id is for a half-open peer only.
Check ==
  /\ pc["receive"] = "check"
  /\ \/ /\ address[packet.peer] = packet.from /\ packet.known
        /\ m_half_open' = m_half_open \ {packet.peer}
        /\ Goto("receive", "process")
     \/ /\ address[packet.peer] = packet.from /\ ~packet.known /\ packet.peer \in m_half_open
        /\ Goto("receive", "process")
        /\ UNCHANGED <<m_half_open>>
     \/ /\ address[packet.peer] = packet.from => ~packet.known /\ packet.peer \notin m_half_open
        /\ Goto("receive", "release")
        /\ UNCHANGED <<m_half_open>>
  /\ UNCHANGED <<m_peers, objects, m_pending_deletion, m_pending_disconnect, held, doing,
                 receiving, sending, server, history>>

\* processPacket looks the peer up again, and again for what is inside a reliable packet.
ProcessPacket ==
  /\ pc["receive"] = "process"
  /\ \/ Acquire("receive", packet.id) /\ Goto("receive", "handle")
     \/ NotFound(packet.id) /\ Goto("receive", "release") /\ UNCHANGED <<m_usage, held>>
  /\ UNCHANGED <<m_peers, heap, id, address, flags, doing, receiving, sending, server, history>>

\* The handlers: data, nothing to tell, a reliable packet with one inside, or DISCO.
Handle ==
  /\ pc["receive"] = "handle"
  /\ \/ /\ outcome' \in {"none", "data"}
        /\ Goto("receive", "release")
        /\ UNCHANGED <<m_peers, doing, cause>>
     \/ /\ Len(held["receive"]) = 2 /\ ~packet.buffered
        /\ Goto("receive", "process")
        /\ UNCHANGED <<m_peers, doing, outcome, cause>>
     \/ /\ Erase("receive", id[Last(held["receive"])])
        /\ cause' = cause \cup {Last(held["receive"])}
        /\ UNCHANGED outcome
  /\ UNCHANGED <<objects, flags, held, packet, sending, server, told>>

\* putEvent(dataReceived)
TellData ==
  /\ pc["receive"] = "release" /\ MustTell
  /\ outcome' = "none"
  /\ UNCHANGED <<m_peers, objects, flags, pc, held, doing, packet, sending, server, history>>

\* receive returns, or its loop over the buffers goes on; data of a buffer are told now.
EndReceive ==
  /\ pc["receive"] = "rest" /\ packet # NoPacket
  /\ packet' = NoPacket /\ outcome' = "none"
  /\ UNCHANGED <<m_peers, objects, flags, pc, held, doing, sending, server, history>>

-----------------------------------------------------------------------------
(* The send thread *)

Idle == pc["send"] = "rest"
Present == {i \in Id : m_peers[i] # None}

\* The loop's parts: runTimeouts, its removals, the commands, sendPackets, its removals.
\* A thread asked to stop goes on while packets are queued.
NextPhase ==
  /\ Idle /\ todo = {}
  /\ \/ phase = "wait" /\ (closing => Present # {}) /\ phase' = "timeouts" /\ todo' = Present
     \/ phase = "timeouts" /\ phase' = "timed_out" /\ UNCHANGED todo
     \/ phase = "timed_out" /\ doomed = {} /\ phase' = "commands" /\ UNCHANGED todo
     \/ phase = "commands" /\ commands = {} /\ phase' = "packets" /\ todo' = Present
     \/ phase = "packets" /\ phase' = "disconnects" /\ UNCHANGED todo
     \/ phase = "disconnects" /\ doomed = {} /\ phase' = "wait" /\ UNCHANGED todo
  /\ UNCHANGED <<m_peers, objects, flags, pc, held, doing, receiving, doomed, server, history>>

\* One peer of runTimeouts' or sendPackets' loop is looked up ...
Visit(i) ==
  /\ Idle /\ i \in todo
  /\ todo' = todo \ {i}
  /\ \/ Acquire("send", i) /\ Goto("send", phase)
     \/ NotFound(i) /\ UNCHANGED <<m_usage, held, pc>>
  /\ UNCHANGED <<m_peers, heap, id, address, flags, doing, receiving, phase, doomed, server, history>>

\* ... and its timeouts checked: the time since its last datagram, or of a reliable packet
\* unanswered, may be over the limit.
CheckTimeout ==
  LET o == held["send"][1] IN
  /\ pc["send"] = "timeouts"
  /\ \/ doomed' = doomed \cup {id[o]} /\ cause' = cause \cup {o}
     \/ UNCHANGED <<doomed, cause>>
  /\ Goto("send", "release")
  /\ UNCHANGED <<m_peers, objects, flags, held, doing, receiving, phase, todo, server, told>>

\* Mutant: sendPackets collects half-open peers, too.
CollectHalfOpen ==
  LET o == held["send"][1] IN
  /\ pc["send"] = "packets"
  /\ doomed' = IF o \in m_pending_disconnect \cup m_half_open THEN doomed \cup {id[o]} ELSE doomed
  /\ Goto("send", "release")
  /\ UNCHANGED <<m_peers, objects, flags, held, doing, receiving, phase, todo, server, history>>

\* sendPackets collects the peers to disconnect.
CollectDisconnect ==
  LET o == held["send"][1] IN
  /\ pc["send"] = "packets"
  /\ doomed' = IF o \in m_pending_disconnect THEN doomed \cup {id[o]} ELSE doomed
  /\ Goto("send", "release")
  /\ UNCHANGED <<m_peers, objects, flags, held, doing, receiving, phase, todo, server, history>>

\* The removals go by id; a peer with unreliable packets left to send stays for now.
DeletePeer(i) ==
  /\ Idle /\ i \in doomed
  /\ phase \in {"timed_out", "disconnects"}
  /\ doomed' = doomed \ {i}
  /\ \/ Erase("send", i)
     \/ phase = "disconnects" /\ UNCHANGED <<m_peers, pc, doing>>
  /\ UNCHANGED <<objects, flags, held, receiving, phase, todo, server, history>>

\* disconnect_peer finds its peer or nothing ...
RunCommand(i) ==
  /\ Idle /\ phase = "commands" /\ i \in commands
  /\ commands' = commands \ {i}
  /\ \/ Acquire("send", i) /\ Goto("send", "disconnect")
     \/ NotFound(i) /\ UNCHANGED <<m_usage, held, pc>>
  /\ UNCHANGED <<m_peers, heap, id, address, flags, doing, receiving, sending, given, closing, history>>

\* ... and marks it.
MarkDisconnect ==
  /\ pc["send"] = "disconnect"
  /\ m_pending_disconnect' = m_pending_disconnect \cup {held["send"][1]}
  /\ Goto("send", "release")
  /\ UNCHANGED <<m_peers, objects, m_pending_deletion, m_half_open, held, doing, receiving,
                 sending, server, history>>

-----------------------------------------------------------------------------
(* The server's thread *)

\* DisconnectPeer of an id the server was told of
DisconnectPeer(i) ==
  /\ pc["user"] = "rest" /\ ~closing
  /\ given < MaxCommands
  /\ \E o \in Obj : id[o] = i
  /\ commands' = commands \cup {i}
  /\ given' = given + 1
  /\ cause' = cause \cup ({m_peers[i]} \ {None})
  /\ UNCHANGED <<m_peers, objects, flags, pc, held, doing, receiving, sending, closing, told>>

GetPeerAddress(i) ==
  /\ pc["user"] = "rest" /\ ~closing
  /\ Acquire("user", i)
  /\ Goto("user", "release")
  /\ UNCHANGED <<m_peers, heap, id, address, flags, doing, receiving, sending, server, history>>

\* ~Connection asks the threads to stop ...
Close ==
  /\ pc["user"] = "rest" /\ ~closing
  /\ closing' = TRUE
  /\ UNCHANGED <<m_peers, objects, flags, pc, held, doing, receiving, sending, commands, given, history>>

\* ... waits for them and deletes what is in the table.
DeletePeers ==
  /\ closing /\ InTable # {}
  /\ pc["receive"] = "rest" /\ packet = NoPacket
  /\ pc["send"] = "rest" /\ phase = "wait"
  /\ heap' = [o \in Obj |-> IF o \in InTable THEN "deleted" ELSE heap[o]]
  /\ m_peers' = [i \in Id |-> None]
  /\ UNCHANGED <<id, address, m_usage, flags, pc, held, doing, receiving, sending, server, history>>

-----------------------------------------------------------------------------

Receive ==
  \/ Find \/ Check \/ ProcessPacket \/ Handle \/ TellData \/ EndReceive
Arrival ==
  \/ \E a \in Addr : CreatePeer(a) \/ Lookup(a) \/ \E i \in Id : Datagram(a, i)
  \/ \E i \in Id : Unbuffer(i)
Send ==
  \/ NextPhase \/ CheckTimeout \/ CollectDisconnect \/ MarkDisconnect
  \/ \E i \in Id : Visit(i) \/ DeletePeer(i) \/ RunCommand(i)
Use(t) == Release(t) \/ Free(t) \/ Tell(t) \/ Drop(t)

Next ==
  \/ Receive \/ Arrival \/ Send
  \/ \E t \in Thread : Use(t)
  \/ \E i \in Id : DisconnectPeer(i) \/ GetPeerAddress(i)
  \/ Close \/ DeletePeers

Spec == Init /\ [][Next]_vars

-----------------------------------------------------------------------------
(* Properties *)

Places == {"rest", "find", "check", "process", "handle", "release", "tell", "drop", "free",
           "timeouts", "packets", "disconnect"}
Packet == [id : Id \cup {None}, known : BOOLEAN, from : Addr \cup {None}, buffered : BOOLEAN,
           peer : Obj \cup {None}]

\* Every variable stays in its range.
TypeOK ==
  /\ m_peers \in [Id -> Obj \cup {None}]
  /\ heap \in [Obj -> {"fresh", "alive", "deleted"}]
  /\ id \in [Obj -> Id \cup {None}] /\ address \in [Obj -> Addr \cup {None}]
  /\ m_usage \in [Obj -> Nat]
  /\ m_pending_deletion \subseteq Obj /\ m_pending_disconnect \subseteq Obj
  /\ m_half_open \subseteq Obj
  /\ pc \in [Thread -> Places] /\ held \in [Thread -> Seq(Obj)]
  /\ doing \in [Thread -> Obj \cup {None}]
  /\ packet \in Packet /\ outcome \in {"none", "data"}
  /\ phase \in {"wait", "timeouts", "timed_out", "commands", "packets", "disconnects"}
  /\ todo \subseteq Id /\ doomed \subseteq Id
  /\ commands \subseteq Id /\ given \in 0 .. MaxCommands /\ closing \in BOOLEAN
  /\ told \in [Obj -> Seq({"added", "removed"})] /\ cause \subseteq Obj

HeldBy(t) == {held[t][n] : n \in DOMAIN held[t]}
InUse == InTable \cup UNION {HeldBy(t) \cup ({doing[t]} \ {None}) : t \in Thread}

\* A peer is deleted when the last thread lets go of it, neither before nor never: the
\* objects alive are those in the table, in a helper or being deleted.
AliveWhileUsed == {o \in Obj : heap[o] = "alive"} = InUse

\* Removals go by id: a peer that the server is told went has the id of a peer there was a
\* reason to remove, itself or one that had the id before.
RemovedForCause ==
  \A o \in Obj : "removed" \in {told[o][n] : n \in DOMAIN told[o]} =>
    \E p \in cause : id[p] = id[o]
=============================================================================
