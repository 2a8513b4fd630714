--------------------------- MODULE MtpPeersProofs ---------------------------
(***************************************************************************)
(* The properties of MtpPeers, for every number of peers, ids, addresses   *)
(* and commands.                                                           *)
(*                                                                         *)
(* A thread holds one peer, once or more times (Stacks), and the count of  *)
(* a peer is the sum over the threads (Counts). A peer is alive for one of *)
(* three reasons: it is in the table, a thread deletes it, or it is        *)
(* dropped and still counted (Peers); whoever ends the last reason deletes *)
(* it. The packet in work belongs to the peer held, which its id names     *)
(* until another peer takes it, and only the receive thread creates peers  *)
(* (PacketInv). An id marked for removal is that of a peer with a cause,   *)
(* and so is the id of a peer that is out of the table (Causes).           *)
(*                                                                         *)
(* For the server's list of clients (ServerClients) one more invariant is  *)
(* needed, who is about to tell what about an id (View).                   *)
(***************************************************************************)
EXTENDS ServerClients, SequenceTheorems, TLAPS

\* A stack of helpers of one peer
Same(s) == \A n \in DOMAIN s : s[n] = s[1]

Uses(t, o) == IF held[t] # <<>> /\ held[t][1] = o THEN Len(held[t]) ELSE 0

Deleting == {"tell", "drop", "free"}

Stacks ==
  /\ \A t \in Thread : Same(held[t])
  /\ \A t \in Thread : doing[t] # None <=> pc[t] \in Deleting
  /\ \A t \in Thread : pc[t] = "rest" => held[t] = <<>>
  /\ \A t \in Thread : pc[t] = "release" => held[t] # <<>>
  /\ pc["receive"] \notin {"timeouts", "packets", "disconnect"}
  /\ pc["receive"] = "find" => held["receive"] = <<>>
  /\ pc["receive"] \in {"check", "process", "handle"} => held["receive"] # <<>>
  /\ pc["send"] \notin {"find", "check", "process", "handle"}
  /\ pc["send"] \in {"timeouts", "packets", "disconnect"} => held["send"] # <<>>
  /\ pc["user"] \in {"rest", "release", "free"}
  /\ closing => pc["user"] = "rest"
  /\ todo # {} => phase \in {"timeouts", "packets"}

Counts == \A o \in Obj : m_usage[o] = Uses("receive", o) + Uses("send", o) + Uses("user", o)

Dropped(o) == o \in m_pending_deletion /\ m_usage[o] > 0

Peers ==
  /\ \A i \in Id : m_peers[i] # None =>
       /\ heap[m_peers[i]] = "alive" /\ id[m_peers[i]] = i
       /\ m_peers[i] \notin m_pending_deletion
  /\ \A t \in Thread : doing[t] # None =>
       /\ heap[doing[t]] = "alive"
       /\ \A i \in Id : m_peers[i] # doing[t]
       /\ \A u \in Thread : doing[u] = doing[t] => u = t
       /\ IF pc[t] = "free" THEN doing[t] \in m_pending_deletion /\ m_usage[doing[t]] = 0
          ELSE doing[t] \notin m_pending_deletion
  /\ \A o \in Obj : m_usage[o] > 0 => heap[o] = "alive"
  /\ \A o \in Obj : heap[o] = "alive" =>
       (\E i \in Id : m_peers[i] = o) \/ (\E t \in Thread : doing[t] = o) \/ Dropped(o)
  /\ \A o \in Obj : heap[o] = "fresh" <=> id[o] = None
  /\ \A o \in Obj : heap[o] = "fresh" => o \notin m_pending_deletion

Events ==
  /\ \A o \in Obj : told[o] \in {<<>>, <<"added">>, <<"added", "removed">>}
  /\ \A o \in Obj : heap[o] = "fresh" => told[o] = <<>>
  /\ \A i \in Id : m_peers[i] # None => told[m_peers[i]] = <<"added">>
  /\ \A t \in Thread : pc[t] = "tell" => told[doing[t]] = <<"added">>

PacketInv ==
  /\ packet.peer # None =>
       packet.id = id[packet.peer] /\ packet.id \in Id /\ m_peers[packet.id] \in {packet.peer, None}
  /\ held["receive"] # <<>> => held["receive"][1] = packet.peer
  /\ pc["receive"] = "find" => packet.id \in Id /\ packet.peer = None
  /\ outcome = "data" => packet.peer # None
  /\ pc["receive"] \in {"process", "handle"} \/ outcome = "data" =>
       packet.buffered \/ packet.from = address[packet.peer]
  /\ packet = NoPacket => pc["receive"] = "rest" /\ outcome = "none"

CauseOf(i) == \E p \in cause : id[p] = i
Justified(o) == CauseOf(id[o])

Causes ==
  /\ \A i \in doomed \cup commands : CauseOf(i)
  /\ \A o \in m_pending_disconnect : heap[o] # "fresh" /\ Justified(o)
  /\ pc["send"] = "disconnect" => Justified(held["send"][1])
  /\ \A t \in Thread : pc[t] \in {"tell", "drop"} => Justified(doing[t])
  /\ \A o \in Obj : told[o] = <<"added", "removed">> => Justified(o)
  /\ ~closing => \A o \in Obj : heap[o] # "fresh" /\ m_peers[id[o]] # o => Justified(o)

IInv == TypeOK /\ Stacks /\ Counts /\ Peers /\ Events /\ PacketInv /\ Causes

-----------------------------------------------------------------------------
(* Stacks *)

LEMMA Push ==
  ASSUME NEW S, NEW s \in Seq(S), NEW x \in S, Same(s), s = <<>> \/ s[1] = x
  PROVE  /\ Append(s, x) \in Seq(S) /\ Same(Append(s, x))
         /\ Append(s, x) # <<>> /\ Append(s, x)[1] = x
         /\ Len(Append(s, x)) = Len(s) + 1
<1>1. Append(s, x) \in Seq(S) /\ Len(Append(s, x)) = Len(s) + 1 /\ Append(s, x)[Len(s) + 1] = x
  OBVIOUS
<1>2. \A n \in 1 .. Len(s) : Append(s, x)[n] = s[n]
  OBVIOUS
<1>3. Append(s, x) # <<>> /\ Append(s, x)[1] = x
  BY <1>1, <1>2
<1>4. \A n \in 1 .. (Len(s) + 1) : Append(s, x)[n] = x
  BY <1>1, <1>2, <1>3 DEF Same
<1> QED
  BY <1>1, <1>3, <1>4 DEF Same

LEMMA Pop ==
  ASSUME NEW S, NEW s \in Seq(S), Same(s), s # <<>>
  PROVE  /\ Front(s) \in Seq(S) /\ Same(Front(s))
         /\ Len(Front(s)) = Len(s) - 1
         /\ Front(s) # <<>> <=> Len(s) > 1
         /\ Front(s) # <<>> => Front(s)[1] = s[1]
         /\ Last(s) = s[1] /\ s[1] \in S
<1>1. Len(s) \in Nat \ {0} /\ Last(s) = s[1] /\ s[1] \in S
  BY DEF Same, Last
<1>2. Front(s) = [n \in 1 .. (Len(s) - 1) |-> s[n]]
  BY DEF Front
<1>3. \A n \in 1 .. (Len(s) - 1) : s[n] = s[1] /\ s[n] \in S
  BY DEF Same
<1>4. Front(s) \in Seq(S) /\ Len(Front(s)) = Len(s) - 1
  BY <1>1, <1>2, <1>3
<1>5. Same(Front(s)) /\ (Front(s) # <<>> => Front(s)[1] = s[1])
  BY <1>1, <1>2, <1>3, <1>4 DEF Same
<1> QED
  BY <1>1, <1>4, <1>5

LEMMA UsesNat ==
  ASSUME TypeOK, NEW t \in Thread, NEW o \in Obj
  PROVE  Uses(t, o) \in Nat /\ (Uses(t, o) > 0 <=> held[t] # <<>> /\ held[t][1] = o)
  BY DEF TypeOK, Uses

-----------------------------------------------------------------------------
(* Events *)

LEMMA TellFirst == Append(<<>>, "added") = <<"added">>
<1> DEFINE S == {"added", "removed"}
<1>1. <<>> \in Seq(S) /\ <<"added">> \in Seq(S) /\ "added" \in S
  OBVIOUS
<1>2. Len(<<>>) = 0 /\ Len(<<"added">>) = 1 /\ <<"added">>[1] = "added"
  OBVIOUS
<1> HIDE DEF S
<1>3. Append(<<>>, "added") \in Seq(S) /\ Len(Append(<<>>, "added")) = 1 /\ Append(<<>>, "added")[1] = "added"
  BY <1>1, <1>2
<1> QED
  BY <1>1, <1>2, <1>3, SeqEqual

LEMMA TellSecond == Append(<<"added">>, "removed") = <<"added", "removed">>
<1> DEFINE S == {"added", "removed"}
<1>1. <<"added">> \in Seq(S) /\ <<"added", "removed">> \in Seq(S) /\ "removed" \in S
  OBVIOUS
<1>2. /\ Len(<<"added">>) = 1 /\ <<"added">>[1] = "added"
      /\ Len(<<"added", "removed">>) = 2
      /\ <<"added", "removed">>[1] = "added" /\ <<"added", "removed">>[2] = "removed"
  OBVIOUS
<1> HIDE DEF S
<1>3. /\ Append(<<"added">>, "removed") \in Seq(S) /\ Len(Append(<<"added">>, "removed")) = 2
      /\ Append(<<"added">>, "removed")[1] = "added" /\ Append(<<"added">>, "removed")[2] = "removed"
  BY <1>1, <1>2
<1>4. \A i \in 1 .. Len(Append(<<"added">>, "removed")) :
        Append(<<"added">>, "removed")[i] = <<"added", "removed">>[i]
  <2>1. \A i \in 1 .. 2 : i = 1 \/ i = 2
    OBVIOUS
  <2> QED
    BY <1>2, <1>3, <2>1
<1> QED
  BY <1>1, <1>2, <1>3, <1>4, SeqEqual

-----------------------------------------------------------------------------

LEMMA InitIInv == Init => IInv
<1> SUFFICES ASSUME Init
             PROVE  IInv
  OBVIOUS
<1> USE DEF Init, Thread
<1>1. TypeOK
  <2>1. packet \in Packet
    BY DEF Packet, NoPacket
  <2>2. held \in [Thread -> Seq(Obj)] /\ told \in [Obj -> Seq({"added", "removed"})]
    OBVIOUS
  <2>3. /\ heap \in [Obj -> {"fresh", "alive", "deleted"}] /\ m_usage \in [Obj -> Nat]
        /\ pc \in [Thread -> Places] /\ outcome \in {"none", "data"}
        /\ phase \in {"wait", "timeouts", "timed_out", "commands", "packets", "disconnects"}
    BY DEF Places
  <2>4. given \in 0 .. MaxCommands
    BY PeerAssumption
  <2>5. /\ m_peers \in [Id -> Obj \cup {None}] /\ id \in [Obj -> Id \cup {None}]
        /\ address \in [Obj -> Addr \cup {None}] /\ doing \in [Thread -> Obj \cup {None}]
    OBVIOUS
  <2> QED
    BY <2>1, <2>2, <2>3, <2>4, <2>5 DEF TypeOK
<1>2. Stacks /\ Events
  BY DEF Stacks, Events, Same, Deleting
<1>3. Counts
  BY DEF Counts, Uses
<1>4. Peers
  BY PeerAssumption DEF Peers
<1>5. PacketInv /\ Causes
  BY DEF PacketInv, Causes, NoPacket
<1> QED
  BY <1>1, <1>2, <1>3, <1>4, <1>5 DEF IInv

-----------------------------------------------------------------------------
(* What leaves a part of the invariant as it is *)

LEMMA SameCounts ==
  ASSUME Counts, UNCHANGED <<held, m_usage>>
  PROVE  Counts'
  BY DEF Counts, Uses

\* A thread moves that neither deletes a peer nor comes to delete one.
LEMMA SamePeers ==
  ASSUME Stacks, Peers, NEW t \in Thread, NEW place \in Places, Goto(t, place), pc \in [Thread -> Places],
         pc[t] \notin Deleting,
         UNCHANGED <<m_peers, heap, id, m_usage, m_pending_deletion, doing>>
  PROVE  Peers'
  BY DEF Stacks, Peers, Goto, Dropped, Deleting

LEMMA SameEvents ==
  ASSUME Events, NEW t \in Thread, NEW place \in Places \ {"tell"}, Goto(t, place),
         pc \in [Thread -> Places], UNCHANGED <<told, heap, m_peers, doing>>
  PROVE  Events'
  BY DEF Events, Goto

\* A thread other than the receive thread.
LEMMA SamePacket ==
  ASSUME PacketInv, UNCHANGED <<packet, outcome, id, address, m_peers>>,
         pc'["receive"] = pc["receive"], held'["receive"] = held["receive"]
  PROVE  PacketInv'
  BY DEF PacketInv, NoPacket

LEMMA SameCauses ==
  ASSUME Causes, NEW t \in Thread, NEW place \in Places \ {"disconnect", "tell", "drop"}, Goto(t, place),
         pc \in [Thread -> Places],
         t = "send" \/ held'["send"] = held["send"],
         UNCHANGED <<told, heap, m_peers, id, doing, m_pending_disconnect, doomed, commands, closing, cause>>
  PROVE  Causes'
  BY DEF Causes, Goto, Justified, CauseOf, Thread

-----------------------------------------------------------------------------
(* A helper more, and one less *)

LEMMA AcquireStacks ==
  ASSUME TypeOK, Stacks, Counts, NEW t \in Thread, NEW i \in Id, Acquire(t, i),
         held[t] = <<>> \/ held[t][1] = m_peers[i]
  PROVE  /\ m_peers[i] \in Obj
         /\ held' \in [Thread -> Seq(Obj)] /\ m_usage' \in [Obj -> Nat]
         /\ \A u \in Thread : Same(held'[u])
         /\ held'[t] # <<>> /\ held'[t][1] = m_peers[i]
         /\ \A u \in Thread \ {t} : held'[u] = held[u]
         /\ Counts'
<1>0. m_peers[i] \in Obj
  BY DEF TypeOK, Acquire
<1>1. PICK x \in Obj : x = m_peers[i]
  BY <1>0
<1> DEFINE s == held[t]
<1>10. s \in Seq(Obj) /\ Same(s)
  BY DEF TypeOK, Stacks
<1>2. /\ Append(s, x) \in Seq(Obj) /\ Same(Append(s, x))
      /\ Append(s, x) # <<>> /\ Append(s, x)[1] = x /\ Len(Append(s, x)) = Len(s) + 1
  BY <1>1, <1>10, Push DEF Acquire
<1>3. held' = [held EXCEPT ![t] = Append(s, x)] /\ m_usage' = [m_usage EXCEPT ![x] = @ + 1]
  BY <1>1 DEF Acquire
<1> HIDE DEF s
<1>4. /\ held' \in [Thread -> Seq(Obj)] /\ m_usage' \in [Obj -> Nat]
      /\ held'[t] = Append(s, x) /\ \A u \in Thread \ {t} : held'[u] = held[u]
  <2>1. m_usage[x] + 1 \in Nat
    BY DEF TypeOK
  <2> QED
    BY <1>2, <1>3, <2>1 DEF TypeOK
<1>5. \A u \in Thread : Same(held'[u])
  BY <1>2, <1>4 DEF Stacks
<1>6. s = <<>> => Len(s) = 0
  BY <1>10
<1>7. \A o \in Obj : Uses(t, o)' = IF o = x THEN Uses(t, o) + 1 ELSE Uses(t, o)
  BY <1>1, <1>10, <1>2, <1>4, <1>6 DEF Uses, s
<1>8. \A u \in Thread \ {t}, o \in Obj : Uses(u, o)' = Uses(u, o)
  BY <1>4 DEF Uses
<1>9. Counts'
  <2>1. \A o \in Obj : m_usage'[o] = IF o = x THEN m_usage[o] + 1 ELSE m_usage[o]
    BY <1>1, <1>3 DEF TypeOK
  <2>2. \A u \in Thread, o \in Obj : Uses(u, o) \in Nat
    BY UsesNat
  <2>3. \A o \in Obj : m_usage[o] = Uses("receive", o) + Uses("send", o) + Uses("user", o)
    BY DEF Counts
  <2>4. Uses("receive", x)' + Uses("send", x)' + Uses("user", x)'
          = Uses("receive", x) + Uses("send", x) + Uses("user", x) + 1
    BY <1>1, <1>7, <1>8, <2>2 DEF Thread
  <2>5. \A o \in Obj \ {x} : Uses("receive", o)' + Uses("send", o)' + Uses("user", o)'
          = Uses("receive", o) + Uses("send", o) + Uses("user", o)
    BY <1>7, <1>8, <2>2 DEF Thread
  <2> QED
    BY <1>1, <2>1, <2>3, <2>4, <2>5 DEF Counts
<1> QED
  BY <1>1, <1>2, <1>4, <1>5, <1>9

LEMMA AcquirePeers ==
  ASSUME TypeOK, Stacks, Peers, NEW t \in Thread, NEW i \in Id, Acquire(t, i),
         NEW place \in Places, Goto(t, place), pc[t] \notin Deleting,
         UNCHANGED <<m_peers, heap, id, m_pending_deletion, doing>>
  PROVE  Peers'
<1>1. m_peers[i] \in Obj /\ m_usage' \in [Obj -> Nat]
  BY DEF TypeOK, Acquire
<1>2. \A o \in Obj : m_usage'[o] = IF o = m_peers[i] THEN m_usage[o] + 1 ELSE m_usage[o]
  BY <1>1 DEF TypeOK, Acquire
<1>3. \A u \in Thread : doing[u] # None => pc'[u] = pc[u]
  BY DEF Stacks, Goto, TypeOK
<1>4. heap[m_peers[i]] = "alive" /\ \A u \in Thread : doing[u] # m_peers[i]
  <2>1. m_peers[i] # None
    BY DEF Acquire
  <2> QED
    BY <2>1 DEF Peers
<1>5. \A o \in Obj : m_usage[o] \in Nat /\ (m_usage[o] > 0 => m_usage'[o] > 0)
  <2>1. \A o \in Obj : m_usage[o] \in Nat
    BY DEF TypeOK
  <2> QED
    BY <1>2, <2>1
<1>6. \A u \in Thread : doing[u] # None => doing[u] \in Obj /\ m_usage'[doing[u]] = m_usage[doing[u]]
  BY <1>2, <1>4 DEF TypeOK
<1>7. \A o \in Obj : m_usage'[o] > 0 => heap[o] = "alive"
  BY <1>2, <1>4 DEF Peers
<1>8. \A u \in Thread : doing[u] # None =>
        /\ heap[doing[u]] = "alive"
        /\ \A j \in Id : m_peers[j] # doing[u]
        /\ \A v \in Thread : doing[v] = doing[u] => v = u
        /\ IF pc'[u] = "free" THEN doing[u] \in m_pending_deletion /\ m_usage'[doing[u]] = 0
           ELSE doing[u] \notin m_pending_deletion
  BY <1>3, <1>6 DEF Peers
<1>9. \A o \in Obj : heap[o] = "alive" =>
        (\E j \in Id : m_peers[j] = o) \/ (\E u \in Thread : doing[u] = o) \/ Dropped(o)'
  BY <1>5 DEF Peers, Dropped
<1> QED
  BY <1>7, <1>8, <1>9 DEF Peers

LEMMA FewerUses ==
  ASSUME TypeOK, Stacks, Counts, NEW t \in Thread, Release(t)
  PROVE  /\ Last(held[t]) = held[t][1] /\ held[t][1] \in Obj
         /\ held' \in [Thread -> Seq(Obj)] /\ m_usage' \in [Obj -> Nat]
         /\ \A u \in Thread : Same(held'[u])
         /\ held'[t] # <<>> <=> Len(held[t]) > 1
         /\ held'[t] # <<>> => held'[t][1] = held[t][1]
         /\ \A u \in Thread \ {t} : held'[u] = held[u]
         /\ Len(held[t]) \in Nat \ {0}
         /\ Counts'
<1> DEFINE s == held[t]
<1>1. s \in Seq(Obj) /\ Same(s) /\ s # <<>>
  BY DEF TypeOK, Release, Stacks
<1>10. PICK x \in Obj : x = s[1]
  BY <1>1
<1>2. /\ Front(s) \in Seq(Obj) /\ Same(Front(s)) /\ Len(Front(s)) = Len(s) - 1
      /\ Front(s) # <<>> <=> Len(s) > 1
      /\ Front(s) # <<>> => Front(s)[1] = x
      /\ Last(s) = x /\ x \in Obj
  BY <1>1, <1>10, Pop
<1>3. held' = [held EXCEPT ![t] = Front(s)] /\ m_usage' = [m_usage EXCEPT ![x] = @ - 1]
  BY <1>2 DEF Release
<1>4. Len(s) \in Nat \ {0}
  BY <1>1
<1> HIDE DEF s
<1>5. /\ held' \in [Thread -> Seq(Obj)]
      /\ held'[t] = Front(s) /\ \A u \in Thread \ {t} : held'[u] = held[u]
  BY <1>2, <1>3 DEF TypeOK
<1>6. \A u \in Thread : Same(held'[u])
  BY <1>2, <1>5 DEF Stacks
<1>7. \A o \in Obj : Uses(t, o) = (IF o = x THEN Uses(t, o)' + 1 ELSE Uses(t, o)')
                       /\ Uses(t, o)' \in Nat
  BY <1>1, <1>10, <1>2, <1>4, <1>5 DEF Uses, s
<1>8. \A u \in Thread \ {t}, o \in Obj : Uses(u, o)' = Uses(u, o)
  BY <1>5 DEF Uses
<1>9. Counts' /\ m_usage' \in [Obj -> Nat]
  <2>1. \A u \in Thread, o \in Obj : Uses(u, o) \in Nat
    BY UsesNat
  <2>2. \A o \in Obj : m_usage[o] = Uses("receive", o) + Uses("send", o) + Uses("user", o)
    BY DEF Counts
  <2>3. Uses("receive", x) + Uses("send", x) + Uses("user", x)
          = Uses("receive", x)' + Uses("send", x)' + Uses("user", x)' + 1
    BY <1>2, <1>7, <1>8, <2>1 DEF Thread
  <2>4. \A o \in Obj \ {x} : Uses("receive", o)' + Uses("send", o)' + Uses("user", o)'
          = Uses("receive", o) + Uses("send", o) + Uses("user", o)
    BY <1>7, <1>8, <2>1 DEF Thread
  <2>5. \A u \in Thread, o \in Obj : Uses(u, o)' \in Nat
    BY <1>7, <1>8, <2>1
  <2>6. \A o \in Obj : m_usage'[o] = IF o = x THEN m_usage[o] - 1 ELSE m_usage[o]
    BY <1>2, <1>3 DEF TypeOK
  <2>7. DOMAIN m_usage' = Obj /\ m_usage' = [o \in Obj |-> m_usage'[o]]
    BY <1>3 DEF TypeOK
  <2>8. \A o \in Obj : m_usage'[o] = Uses("receive", o)' + Uses("send", o)' + Uses("user", o)'
    BY <1>2, <2>2, <2>3, <2>4, <2>5, <2>6 DEF Thread
  <2> QED
    BY <2>5, <2>7, <2>8 DEF Counts, Thread
<1> QED
  BY <1>1, <1>10, <1>2, <1>4, <1>5, <1>6, <1>9 DEF s

-----------------------------------------------------------------------------
(* The threads let go and delete *)

LEMMA ReleasePeers ==
  ASSUME TypeOK, Stacks, Counts, Peers, NEW t \in Thread, Release(t)
  PROVE  Peers'
<1>1. PICK x \in Obj : x = held[t][1] /\ x = Last(held[t])
  BY FewerUses
<1>2. /\ held[t] # <<>> /\ Len(held[t]) \in Nat \ {0} /\ pc[t] = "release" /\ doing[t] = None
      /\ m_usage' \in [Obj -> Nat]
  BY FewerUses DEF Stacks, Release, Deleting
<1>3. \A o \in Obj : m_usage'[o] = IF o = x THEN m_usage[o] - 1 ELSE m_usage[o]
  BY <1>1 DEF Release, TypeOK
<1>4. m_usage[x] \in Nat /\ m_usage[x] > 0
  <2>1. Uses(t, x) > 0 /\ \A u \in Thread : Uses(u, x) \in Nat
    BY <1>1, <1>2, UsesNat
  <2>2. m_usage[x] = Uses("receive", x) + Uses("send", x) + Uses("user", x)
    BY DEF Counts
  <2> QED
    BY <2>1, <2>2 DEF Thread
<1>5. heap[x] = "alive"
  BY <1>4 DEF Peers
<1>6. \A u \in Thread : doing[u] = x => pc[u] # "free" /\ x \notin m_pending_deletion
  BY <1>1, <1>4, PeerAssumption DEF Peers
<1>7. \A o \in Obj : m_usage[o] \in Nat
  BY DEF TypeOK
<1>8. \A o \in Obj : m_usage'[o] > 0 => heap[o] = "alive"
  BY <1>3, <1>5, <1>7 DEF Peers
<1>9. CASE x \in m_pending_deletion /\ m_usage[x] = 1
  <2>1. doing' = [doing EXCEPT ![t] = x] /\ pc' = [pc EXCEPT ![t] = "free"]
    BY <1>1, <1>9 DEF Release, Goto
  <2>2. doing'[t] = x /\ pc'[t] = "free" /\ m_usage'[x] = 0
    BY <1>3, <1>9, <2>1 DEF TypeOK
  <2>3. \A u \in Thread \ {t} : doing'[u] = doing[u] /\ pc'[u] = pc[u] /\ doing[u] # x
    BY <1>6, <1>9, <2>1 DEF TypeOK
  <2>4. \A i \in Id : m_peers[i] # x
    BY <1>9, PeerAssumption DEF Peers
  <2>5. \A u \in Thread : doing'[u] # None =>
          /\ heap[doing'[u]] = "alive"
          /\ \A j \in Id : m_peers[j] # doing'[u]
          /\ \A v \in Thread : doing'[v] = doing'[u] => v = u
          /\ IF pc'[u] = "free" THEN doing'[u] \in m_pending_deletion /\ m_usage'[doing'[u]] = 0
             ELSE doing'[u] \notin m_pending_deletion
    <3> SUFFICES ASSUME NEW u \in Thread, doing'[u] # None
                 PROVE  /\ heap[doing'[u]] = "alive"
                        /\ \A j \in Id : m_peers[j] # doing'[u]
                        /\ \A v \in Thread : doing'[v] = doing'[u] => v = u
                        /\ IF pc'[u] = "free"
                           THEN doing'[u] \in m_pending_deletion /\ m_usage'[doing'[u]] = 0
                           ELSE doing'[u] \notin m_pending_deletion
      OBVIOUS
    <3>1. CASE u = t
      BY <1>5, <1>9, <2>2, <2>3, <2>4, <3>1
    <3>2. CASE u # t
      <4>1. doing[u] # None /\ doing'[u] = doing[u] /\ pc'[u] = pc[u] /\ doing[u] # x /\ doing[u] \in Obj
        BY <2>3, <3>2 DEF TypeOK
      <4>2. m_usage'[doing[u]] = m_usage[doing[u]]
        BY <1>3, <4>1
      <4> QED
        BY <2>2, <2>3, <4>1, <4>2 DEF Peers
    <3> QED
      BY <3>1, <3>2
  <2>6. \A o \in Obj : heap[o] = "alive" =>
          \/ \E j \in Id : m_peers[j] = o
          \/ \E u \in Thread : doing'[u] = o
          \/ o \in m_pending_deletion /\ m_usage'[o] > 0
    <3> SUFFICES ASSUME NEW o \in Obj, heap[o] = "alive", o # x, \A j \in Id : m_peers[j] # o
                 PROVE  (\E u \in Thread : doing'[u] = o) \/ (o \in m_pending_deletion /\ m_usage'[o] > 0)
      BY <2>2
    <3>1. CASE \E u \in Thread : doing[u] = o
      BY <1>2, <2>3, <3>1, PeerAssumption
    <3>2. CASE Dropped(o)
      BY <1>3, <3>2 DEF Dropped
    <3> QED
      BY <3>1, <3>2 DEF Peers
  <2> QED
    BY <1>8, <2>5, <2>6 DEF Peers, Dropped, Release, flags
<1>10. CASE ~(x \in m_pending_deletion /\ m_usage[x] = 1)
  <2>1. doing' = doing /\ \A u \in Thread \ {t} : pc'[u] = pc[u]
    BY <1>1, <1>2, <1>10 DEF Release, Goto, TypeOK
  <2>2. \A u \in Thread : doing[u] # None => u # t /\ doing[u] \in Obj /\ pc'[u] = pc[u]
    BY <1>2, <2>1 DEF TypeOK
  <2>3. \A u \in Thread : doing[u] # None /\ pc[u] = "free" => m_usage'[doing[u]] = m_usage[doing[u]]
    BY <1>3, <1>6, <2>2
  <2>4. \A u \in Thread : doing[u] # None =>
          /\ heap[doing[u]] = "alive"
          /\ \A j \in Id : m_peers[j] # doing[u]
          /\ \A v \in Thread : doing[v] = doing[u] => v = u
          /\ IF pc'[u] = "free" THEN doing[u] \in m_pending_deletion /\ m_usage'[doing[u]] = 0
             ELSE doing[u] \notin m_pending_deletion
    BY <2>2, <2>3 DEF Peers
  <2>5. \A o \in Obj : Dropped(o) => Dropped(o)'
    BY <1>3, <1>4, <1>7, <1>10 DEF Dropped, Release, flags
  <2> QED
    BY <1>8, <2>1, <2>4, <2>5 DEF Peers, Release, flags
<1> QED
  BY <1>9, <1>10

LEMMA ReleaseStep ==
  ASSUME IInv, NEW t \in Thread, Release(t)
  PROVE  IInv'
<1> USE DEF IInv
<1>1. PICK x \in Obj : x = held[t][1] /\ x = Last(held[t])
  BY FewerUses
<1>2. /\ held' \in [Thread -> Seq(Obj)] /\ m_usage' \in [Obj -> Nat]
      /\ \A u \in Thread : Same(held'[u])
      /\ held'[t] # <<>> <=> Len(held[t]) > 1
      /\ held'[t] # <<>> => held'[t][1] = held[t][1]
      /\ \A u \in Thread \ {t} : held'[u] = held[u]
      /\ Len(held[t]) \in Nat \ {0}
      /\ Counts'
  BY FewerUses
<1>3. PICK place \in {"free", "release", "rest"} :
        /\ pc' = [pc EXCEPT ![t] = place]
        /\ doing' = [doing EXCEPT ![t] = IF place = "free" THEN x ELSE None]
        /\ place = "release" => held'[t] # <<>>
        /\ place = "rest" => held'[t] = <<>>
  <2>1. CASE x \in m_pending_deletion /\ m_usage[x] = 1
    BY <1>1, <2>1 DEF Release, Goto
  <2>2. CASE ~(x \in m_pending_deletion /\ m_usage[x] = 1)
    <3>1. Back(Len(held[t]) - 1) = IF held'[t] # <<>> THEN "release" ELSE "rest"
      BY <1>2 DEF Back
    <3>2. /\ pc' = [pc EXCEPT ![t] = Back(Len(held[t]) - 1)]
          /\ doing' = [doing EXCEPT ![t] = None]
      BY <1>1, <2>2 DEF Release, Goto
    <3> QED
      BY <3>1, <3>2
  <2> QED
    BY <2>1, <2>2
<1>4. TypeOK'
  BY <1>1, <1>2, <1>3 DEF TypeOK, Release, Places, flags, receiving, sending, server, history
<1>5. Stacks'
  <2>1. /\ pc'[t] = place /\ doing'[t] = IF place = "free" THEN x ELSE None
        /\ \A u \in Thread \ {t} : pc'[u] = pc[u] /\ doing'[u] = doing[u]
        /\ pc[t] = "release" /\ x # None
    BY <1>3, PeerAssumption DEF TypeOK, Release
  <2>2. UNCHANGED <<closing, todo, phase>>
    BY DEF Release, server, sending
  <2>3. \A u \in Thread :
          /\ Same(held'[u])
          /\ doing'[u] # None <=> pc'[u] \in Deleting
          /\ pc'[u] = "rest" => held'[u] = <<>>
          /\ pc'[u] = "release" => held'[u] # <<>>
    BY <1>2, <1>3, <2>1 DEF Stacks, Deleting
  <2>4. \A u \in Thread :
          pc'[u] \in {"free", "release", "rest"} \/ (pc'[u] = pc[u] /\ held'[u] = held[u])
    <3> SUFFICES ASSUME NEW u \in Thread, u # t
                 PROVE  pc'[u] = pc[u] /\ held'[u] = held[u]
      BY <1>3, <2>1
    <3> QED
      BY <1>2, <2>1
  <2>5. closing => pc'["user"] = "rest"
    BY <2>1 DEF Stacks, Thread
  <2> HIDE DEF IInv
  <2>6. /\ pc'["receive"] \notin {"timeouts", "packets", "disconnect"}
        /\ pc'["receive"] = "find" => held'["receive"] = <<>>
        /\ pc'["receive"] \in {"check", "process", "handle"} => held'["receive"] # <<>>
        /\ pc'["send"] \notin {"find", "check", "process", "handle"}
        /\ pc'["send"] \in {"timeouts", "packets", "disconnect"} => held'["send"] # <<>>
        /\ pc'["user"] \in {"rest", "release", "free"}
    BY <2>4 DEF IInv, Stacks, Thread
  <2> QED
    BY <2>2, <2>3, <2>5, <2>6 DEF IInv, Stacks
<1>6. Peers'
  BY ReleasePeers
<1>7. Events'
  BY <1>3 DEF Events, Release, TypeOK, history
<1>8. PacketInv'
  <2>1. UNCHANGED <<packet, outcome, id, address, m_peers>>
    BY DEF Release, receiving
  <2>2. held'["receive"] # <<>> => held["receive"] # <<>> /\ held'["receive"][1] = held["receive"][1]
    BY <1>2 DEF Thread, Release, Stacks
  <2>3. pc'["receive"] = pc["receive"] \/ pc'["receive"] \in {"free", "release", "rest"}
    BY <1>3 DEF TypeOK, Thread
  <2>4. packet = NoPacket => pc'["receive"] = pc["receive"]
    BY <1>3 DEF PacketInv, Release, TypeOK, Thread
  <2> QED
    BY <2>1, <2>2, <2>3, <2>4 DEF PacketInv, NoPacket
<1>9. Causes'
  <2>1. UNCHANGED <<told, heap, m_peers, id, m_pending_disconnect, doomed, commands, closing, cause>>
    BY DEF Release, history, sending, server, flags
  <2>2. \A u \in Thread : pc'[u] \in {"tell", "drop"} => pc[u] = pc'[u] /\ doing'[u] = doing[u]
    BY <1>3 DEF TypeOK
  <2>3. pc'["send"] = "disconnect" => pc["send"] = "disconnect" /\ held'["send"] = held["send"]
    BY <1>2, <1>3 DEF TypeOK, Thread, Release
  <2> QED
    BY <2>1, <2>2, <2>3 DEF Causes, Justified, CauseOf
<1> QED
  BY <1>2, <1>4, <1>5, <1>6, <1>7, <1>8, <1>9

LEMMA FreeStep ==
  ASSUME IInv, NEW t \in Thread, Free(t)
  PROVE  IInv'
<1>0. TypeOK /\ Stacks /\ Counts /\ Peers /\ Events /\ PacketInv /\ Causes
  BY DEF IInv
<1>1. PICK x \in Obj : x = doing[t] /\ x # None
  BY <1>0, PeerAssumption DEF Free, TypeOK, Stacks, Deleting
<1>2. PICK place \in {"release", "rest"} :
        pc' = [pc EXCEPT ![t] = place] /\ (place = "rest" <=> held[t] = <<>>)
  <2>1. held[t] \in Seq(Obj)
    BY <1>0 DEF TypeOK
  <2>2. Len(held[t]) > 0 <=> held[t] # <<>>
    BY <2>1
  <2> QED
    BY <2>2 DEF Free, Goto, Back
<1>3. /\ heap' = [heap EXCEPT ![x] = "deleted"] /\ doing' = [doing EXCEPT ![t] = None]
      /\ pc[t] = "free"
      /\ UNCHANGED <<m_peers, id, address, m_usage, m_pending_deletion, m_pending_disconnect,
                     m_half_open, held, packet, outcome, phase, todo, doomed, commands, given,
                     closing, told, cause>>
  BY <1>1 DEF Free, flags, receiving, sending, server, history
<1>4. /\ x \in m_pending_deletion /\ m_usage[x] = 0 /\ heap[x] = "alive"
      /\ \A i \in Id : m_peers[i] # x
      /\ \A u \in Thread \ {t} : doing[u] # x
  BY <1>0, <1>1, <1>3 DEF Peers
<1>5. /\ heap'[x] = "deleted" /\ \A o \in Obj \ {x} : heap'[o] = heap[o]
      /\ doing'[t] = None /\ \A u \in Thread \ {t} : doing'[u] = doing[u]
      /\ pc'[t] = place /\ \A u \in Thread \ {t} : pc'[u] = pc[u]
  BY <1>0, <1>2, <1>3 DEF TypeOK
<1>6. TypeOK'
  BY <1>0, <1>1, <1>2, <1>3 DEF TypeOK, Places
<1>7. Stacks'
  BY <1>0, <1>2, <1>3, <1>5 DEF Stacks, Deleting, Thread
<1>8. Counts'
  BY <1>0, <1>3, SameCounts
<1>9. Peers'
  <2>1. \A i \in Id : m_peers[i] # None =>
          heap'[m_peers[i]] = "alive" /\ id[m_peers[i]] = i /\ m_peers[i] \notin m_pending_deletion
    BY <1>0, <1>4, <1>5 DEF Peers, TypeOK
  <2>2. \A u \in Thread : doing'[u] # None => u # t /\ doing'[u] = doing[u] /\ doing[u] \in Obj \ {x}
    BY <1>0, <1>4, <1>5 DEF TypeOK
  <2>3. \A u \in Thread : doing'[u] # None =>
          /\ heap'[doing'[u]] = "alive"
          /\ \A j \in Id : m_peers[j] # doing'[u]
          /\ \A v \in Thread : doing'[v] = doing'[u] => v = u
          /\ IF pc'[u] = "free" THEN doing'[u] \in m_pending_deletion /\ m_usage[doing'[u]] = 0
             ELSE doing'[u] \notin m_pending_deletion
    BY <1>0, <1>5, <2>2 DEF Peers
  <2>4. \A o \in Obj : m_usage[o] > 0 => heap'[o] = "alive"
    BY <1>0, <1>4, <1>5 DEF Peers
  <2>5. \A o \in Obj : heap'[o] = "alive" =>
          (\E j \in Id : m_peers[j] = o) \/ (\E u \in Thread : doing'[u] = o) \/ Dropped(o)
    BY <1>0, <1>1, <1>5 DEF Peers
  <2>6. \A o \in Obj : heap'[o] = "fresh" <=> heap[o] = "fresh"
    BY <1>4, <1>5
  <2> QED
    BY <1>0, <1>3, <2>1, <2>3, <2>4, <2>5, <2>6 DEF Peers, Dropped
<1>10. Events'
  BY <1>0, <1>2, <1>3, <1>4, <1>5 DEF Events
<1>11. PacketInv'
  BY <1>0, <1>2, <1>3, <1>5 DEF PacketInv, NoPacket, Thread
<1>12. Causes'
  BY <1>0, <1>2, <1>3, <1>4, <1>5 DEF Causes, Justified, CauseOf, Thread
<1> QED
  BY <1>6, <1>7, <1>8, <1>9, <1>10, <1>11, <1>12 DEF IInv

LEMMA TellStep ==
  ASSUME IInv, NEW t \in Thread, Tell(t)
  PROVE  IInv'
<1>0. TypeOK /\ Stacks /\ Counts /\ Peers /\ Events /\ PacketInv /\ Causes
  BY DEF IInv
<1>1. PICK x \in Obj : x = doing[t] /\ x # None
  BY <1>0, PeerAssumption DEF Tell, TypeOK, Stacks, Deleting
<1>2. /\ pc[t] = "tell" /\ pc' = [pc EXCEPT ![t] = "drop"]
      /\ told' = [told EXCEPT ![x] = Append(@, "removed")]
      /\ UNCHANGED <<m_peers, heap, id, address, m_usage, m_pending_deletion, m_pending_disconnect,
                     m_half_open, held, doing, packet, outcome, phase, todo, doomed, commands, given,
                     closing, cause>>
  BY <1>1 DEF Tell, Goto, objects, flags, receiving, sending, server
<1>3. /\ told[x] = <<"added">> /\ heap[x] = "alive" /\ Justified(x)
      /\ \A i \in Id : m_peers[i] # x
      /\ \A u \in Thread \ {t} : doing[u] # x
  BY <1>0, <1>1, <1>2 DEF Events, Peers, Causes
<1>4. Append(<<"added">>, "removed") = <<"added", "removed">>
  BY TellSecond
<1>5. /\ pc'[t] = "drop" /\ \A u \in Thread \ {t} : pc'[u] = pc[u]
      /\ told'[x] = <<"added", "removed">> /\ \A o \in Obj \ {x} : told'[o] = told[o]
  BY <1>0, <1>2, <1>3, <1>4 DEF TypeOK
<1>6. TypeOK'
  <2>1. told' \in [Obj -> Seq({"added", "removed"})]
    BY <1>0, <1>2, <1>3, <1>4 DEF TypeOK
  <2> QED
    BY <1>0, <1>2, <2>1 DEF TypeOK, Places
<1>7. Stacks'
  BY <1>0, <1>2, <1>5 DEF Stacks, Deleting, Thread
<1>8. Counts'
  BY <1>0, <1>2, SameCounts
<1>9. Peers'
  BY <1>0, <1>2, <1>5 DEF Peers, Dropped
<1>10. Events'
  <2>1. \A u \in Thread : pc'[u] = "tell" => u # t /\ pc[u] = "tell" /\ doing[u] \in Obj \ {x}
    BY <1>0, <1>3, <1>5, PeerAssumption DEF TypeOK, Stacks, Deleting
  <2>2. \A i \in Id : m_peers[i] # None => m_peers[i] \in Obj \ {x}
    BY <1>0, <1>3 DEF TypeOK
  <2>3. \A o \in Obj : told'[o] \in {<<>>, <<"added">>, <<"added", "removed">>}
    BY <1>0, <1>5 DEF Events
  <2>4. \A o \in Obj : heap[o] = "fresh" => told'[o] = <<>>
    BY <1>0, <1>3, <1>5 DEF Events
  <2>5. \A u \in Thread : pc'[u] = "tell" => told'[doing[u]] = <<"added">>
    BY <1>0, <1>5, <2>1 DEF Events
  <2>6. \A i \in Id : m_peers[i] # None => told'[m_peers[i]] = <<"added">>
    BY <1>0, <1>5, <2>2 DEF Events
  <2> QED
    BY <1>2, <2>3, <2>4, <2>5, <2>6 DEF Events
<1>11. PacketInv'
  BY <1>0, <1>2, <1>5 DEF PacketInv, NoPacket, Thread
<1>12. Causes'
  <2>1. \A o \in Obj : told'[o] = <<"added", "removed">> => Justified(o)
    BY <1>0, <1>3, <1>5 DEF Causes
  <2>2. \A u \in Thread : pc'[u] \in {"tell", "drop"} => Justified(doing[u])
    BY <1>0, <1>1, <1>3, <1>5 DEF Causes
  <2>3. pc'["send"] = "disconnect" => pc["send"] = "disconnect"
    BY <1>5 DEF Thread
  <2> QED
    BY <1>0, <1>2, <2>1, <2>2, <2>3 DEF Causes, Justified, CauseOf
<1> QED
  BY <1>6, <1>7, <1>8, <1>9, <1>10, <1>11, <1>12 DEF IInv

LEMMA DropStep ==
  ASSUME IInv, NEW t \in Thread, Drop(t)
  PROVE  IInv'
<1>0. TypeOK /\ Stacks /\ Counts /\ Peers /\ Events /\ PacketInv /\ Causes
  BY DEF IInv
<1>1. PICK x \in Obj : x = doing[t] /\ x # None
  BY <1>0, PeerAssumption DEF Drop, TypeOK, Stacks, Deleting
<1>2. PICK place \in {"free", "release", "rest"} :
        /\ pc' = [pc EXCEPT ![t] = place]
        /\ doing' = [doing EXCEPT ![t] = IF place = "free" THEN x ELSE None]
        /\ place = "free" <=> m_usage[x] = 0
        /\ place = "release" => held[t] # <<>>
        /\ place = "rest" => held[t] = <<>>
  <2>1. held[t] \in Seq(Obj) /\ (Len(held[t]) > 0 <=> held[t] # <<>>)
    BY <1>0 DEF TypeOK
  <2>2. CASE m_usage[x] = 0
    BY <1>0, <1>1, <2>2 DEF Drop, Goto, TypeOK
  <2>3. CASE m_usage[x] # 0
    BY <1>1, <2>1, <2>3 DEF Drop, Goto, Back
  <2> QED
    BY <2>2, <2>3
<1>3. /\ m_pending_deletion' = m_pending_deletion \cup {x}
      /\ pc[t] = "drop"
      /\ UNCHANGED <<m_peers, heap, id, address, m_usage, m_pending_disconnect, m_half_open, held,
                     packet, outcome, phase, todo, doomed, commands, given, closing, told, cause>>
  BY <1>1 DEF Drop, objects, receiving, sending, server, history
<1>4. /\ heap[x] = "alive" /\ m_usage[x] \in Nat
      /\ \A i \in Id : m_peers[i] # x
      /\ \A u \in Thread \ {t} : doing[u] # x
  BY <1>0, <1>1 DEF Peers, TypeOK
<1>5. /\ pc'[t] = place /\ doing'[t] = IF place = "free" THEN x ELSE None
      /\ \A u \in Thread \ {t} : pc'[u] = pc[u] /\ doing'[u] = doing[u]
  BY <1>0, <1>2 DEF TypeOK
<1>6. TypeOK'
  BY <1>0, <1>2, <1>3 DEF TypeOK, Places
<1>7. Stacks'
  BY <1>0, <1>1, <1>2, <1>3, <1>5 DEF Stacks, Deleting, Thread
<1>8. Counts'
  BY <1>0, <1>3, SameCounts
<1>9. Peers'
  <2>1. \A i \in Id : m_peers[i] # None =>
          heap[m_peers[i]] = "alive" /\ id[m_peers[i]] = i /\ m_peers[i] \notin m_pending_deletion'
    BY <1>0, <1>3, <1>4 DEF Peers
  <2>2. \A u \in Thread : doing'[u] # None =>
          /\ heap[doing'[u]] = "alive"
          /\ \A j \in Id : m_peers[j] # doing'[u]
          /\ \A v \in Thread : doing'[v] = doing'[u] => v = u
          /\ IF pc'[u] = "free" THEN doing'[u] \in m_pending_deletion' /\ m_usage[doing'[u]] = 0
             ELSE doing'[u] \notin m_pending_deletion'
    BY <1>0, <1>1, <1>2, <1>3, <1>4, <1>5 DEF Peers
  <2>3. \A o \in Obj : heap[o] = "alive" =>
          \/ \E j \in Id : m_peers[j] = o
          \/ \E u \in Thread : doing'[u] = o
          \/ o \in m_pending_deletion' /\ m_usage[o] > 0
    BY <1>0, <1>1, <1>2, <1>3, <1>4, <1>5 DEF Peers, Dropped
  <2> QED
    BY <1>0, <1>3, <1>4, <2>1, <2>2, <2>3 DEF Peers, Dropped
<1>10. Events'
  BY <1>0, <1>2, <1>3, <1>5 DEF Events
<1>11. PacketInv'
  BY <1>0, <1>2, <1>3, <1>5 DEF PacketInv, NoPacket, Thread
<1>12. Causes'
  BY <1>0, <1>2, <1>3, <1>5 DEF Causes, Justified, CauseOf, Thread
<1> QED
  BY <1>6, <1>7, <1>8, <1>9, <1>10, <1>11, <1>12 DEF IInv

\* deletePeer, out of the table; there is a cause for the peer that goes.
LEMMA EraseParts ==
  ASSUME IInv, NEW t \in {"receive", "send"}, NEW i \in Id, Erase(t, i), pc[t] \notin Deleting,
         t = "receive" => packet # NoPacket,
         NEW x \in Obj \cup {None}, x = m_peers[i], x # None => Justified(x)',
         cause \subseteq cause', cause' \subseteq Obj,
         \A j \in doomed' : j \in doomed,
         UNCHANGED <<objects, flags, held, packet, outcome, phase, todo, server, told>>
  PROVE  IInv'
<1>0. TypeOK /\ Stacks /\ Counts /\ Peers /\ Events /\ PacketInv /\ Causes
  BY DEF IInv
<1>13. t \in Thread
  BY DEF Thread
<1>1. UNCHANGED <<heap, id, address, m_usage, m_pending_deletion, m_pending_disconnect, m_half_open,
                  held, packet, outcome, phase, todo, commands, given, closing, told>>
  BY DEF objects, flags, server
<1>2. \A o \in Obj : Justified(o) => Justified(o)'
  BY <1>1 DEF Justified, CauseOf
<1>3. doing[t] = None
  BY <1>0, <1>13 DEF Stacks
<1>4. PICK place \in {"tell", "release", "rest"} :
        /\ pc' = [pc EXCEPT ![t] = place]
        /\ doing' = [doing EXCEPT ![t] = IF place = "tell" THEN x ELSE None]
        /\ m_peers' = [m_peers EXCEPT ![i] = None]
        /\ place = "tell" <=> x # None
        /\ place = "release" => held[t] # <<>>
        /\ place = "rest" => held[t] = <<>>
  <2>1. held[t] \in Seq(Obj) /\ (Len(held[t]) > 0 <=> held[t] # <<>>)
    BY <1>0, <1>13 DEF TypeOK
  <2>2. CASE x = None
    BY <1>0, <1>13, <1>3, <2>1, <2>2 DEF Erase, Goto, Back, TypeOK
  <2>3. CASE x # None
    BY <1>1, <2>1, <2>3 DEF Erase, Goto
  <2> QED
    BY <2>2, <2>3
<1>5. /\ t \in Thread
      /\ pc'[t] = place /\ doing'[t] = IF place = "tell" THEN x ELSE None
      /\ \A u \in Thread \ {t} : pc'[u] = pc[u] /\ doing'[u] = doing[u]
      /\ m_peers'[i] = None /\ \A j \in Id \ {i} : m_peers'[j] = m_peers[j]
  BY <1>0, <1>4 DEF TypeOK, Thread
<1>6. TypeOK'
  BY <1>0, <1>1, <1>4 DEF TypeOK, Places
<1>7. Stacks'
  BY <1>0, <1>1, <1>4, <1>5 DEF Stacks, Deleting, Thread
<1>8. Counts'
  BY <1>0, <1>1, SameCounts
<1>9. Peers'
  <2>1. x # None => x \in Obj /\ heap[x] = "alive" /\ x \notin m_pending_deletion
                       /\ (\A j \in Id \ {i} : m_peers[j] # x) /\ (\A u \in Thread : doing[u] # x)
    BY <1>0 DEF Peers, TypeOK
  <2>2. \A j \in Id : m_peers'[j] # None =>
          heap[m_peers'[j]] = "alive" /\ id[m_peers'[j]] = j /\ m_peers'[j] \notin m_pending_deletion
    BY <1>0, <1>5 DEF Peers
  <2>3. \A u \in Thread : doing'[u] # None =>
          /\ heap[doing'[u]] = "alive"
          /\ \A j \in Id : m_peers'[j] # doing'[u]
          /\ \A v \in Thread : doing'[v] = doing'[u] => v = u
          /\ IF pc'[u] = "free" THEN doing'[u] \in m_pending_deletion /\ m_usage[doing'[u]] = 0
             ELSE doing'[u] \notin m_pending_deletion
    BY <1>0, <1>4, <1>5, <2>1 DEF Peers
  <2>4. \A o \in Obj : heap[o] = "alive" =>
          (\E j \in Id : m_peers'[j] = o) \/ (\E u \in Thread : doing'[u] = o) \/ Dropped(o)
    BY <1>0, <1>3, <1>4, <1>5, <2>1, PeerAssumption DEF Peers
  <2> QED
    BY <1>0, <1>1, <2>2, <2>3, <2>4 DEF Peers, Dropped
<1>10. Events'
  <2>1. x # None => told[x] = <<"added">>
    BY <1>0 DEF Events
  <2>2. \A u \in Thread : pc'[u] = "tell" => told[doing'[u]] = <<"added">>
    BY <1>0, <1>4, <1>5, <2>1 DEF Events
  <2> QED
    BY <1>0, <1>1, <1>5, <2>2 DEF Events
<1>11. PacketInv'
  <2>1. \/ pc'["receive"] = pc["receive"]
        \/ packet # NoPacket /\ pc'["receive"] \in {"tell", "release", "rest"}
    BY <1>4, <1>5 DEF Thread
  <2> QED
    BY <1>0, <1>1, <1>5, <2>1 DEF PacketInv, NoPacket, Thread
<1>12. Causes'
  <2>1. \A j \in doomed' \cup commands' : CauseOf(j)'
    BY <1>0, <1>1 DEF Causes, CauseOf
  <2>2. ASSUME ~closing, NEW o \in Obj, heap[o] # "fresh", m_peers'[id[o]] # o
        PROVE  Justified(o)'
    <3>1. id[o] \in Id
      BY <1>0, <2>2 DEF Peers, TypeOK
    <3>2. CASE m_peers[id[o]] # o
      BY <1>0, <1>2, <2>2, <3>2 DEF Causes
    <3>3. CASE m_peers[id[o]] = o
      <4>1. id[o] = i /\ o = x
        BY <1>4, <1>0, <2>2, <3>1, <3>3 DEF TypeOK
      <4> QED
        BY <4>1, PeerAssumption
    <3> QED
      BY <3>2, <3>3
  <2>3. pc'["send"] = "disconnect" => Justified(held["send"][1])'
    BY <1>0, <1>1, <1>4, <1>5 DEF Causes, Justified, CauseOf, Thread
  <2>4. \A u \in Thread : pc'[u] \in {"tell", "drop"} => Justified(doing[u])'
    <3> SUFFICES ASSUME NEW u \in Thread, pc'[u] \in {"tell", "drop"}
                 PROVE  Justified(doing[u])'
      OBVIOUS
    <3>1. CASE u = t
      BY <1>4, <1>5, <3>1 DEF Justified, CauseOf
    <3>2. CASE u # t
      <4>1. pc[u] \in {"tell", "drop"} /\ doing'[u] = doing[u]
        BY <1>5, <3>2
      <4>2. PICK p \in cause : id[p] = id[doing[u]]
        BY <1>0, <4>1 DEF Causes, Justified, CauseOf
      <4>3. p \in cause' /\ id' = id
        BY <1>1, <4>2
      <4> QED
        BY <4>1, <4>2, <4>3 DEF Justified, CauseOf
    <3> QED
      BY <3>1, <3>2
  <2>5. \A o \in m_pending_disconnect : heap[o] # "fresh" /\ Justified(o)'
    BY <1>0, <1>1 DEF Causes, Justified, CauseOf
  <2>6. \A o \in Obj : told[o] = <<"added", "removed">> => Justified(o)'
    BY <1>0, <1>2 DEF Causes
  <2> QED
    BY <1>1, <2>1, <2>2, <2>3, <2>4, <2>5, <2>6 DEF Causes
<1> QED
  BY <1>6, <1>7, <1>8, <1>9, <1>10, <1>11, <1>12 DEF IInv

-----------------------------------------------------------------------------
(* The receive thread *)

\* A packet is taken whose id may be any.
LEMMA TakeStep ==
  ASSUME IInv, AtRest, NEW p \in Packet, p.id \in Id, p.peer = None, Take(p),
         UNCHANGED <<m_peers, objects, flags, held, doing, outcome, sending, server, history>>
  PROVE  IInv'
<1>0. TypeOK /\ Stacks /\ Counts /\ Peers /\ Events /\ PacketInv /\ Causes
  BY DEF IInv
<1>1. /\ pc["receive"] = "rest" /\ packet = NoPacket /\ packet' = p
      /\ pc' = [pc EXCEPT !["receive"] = "find"]
      /\ UNCHANGED <<m_peers, heap, id, address, m_usage, m_pending_deletion, m_pending_disconnect,
                     m_half_open, held, doing, outcome, phase, todo, doomed, commands, given,
                     closing, told, cause>>
  BY DEF AtRest, Take, Goto, objects, flags, sending, server, history
<1>2. "receive" \in Thread /\ "find" \in Places /\ Goto("receive", "find") /\ pc \in [Thread -> Places]
  BY <1>0, <1>1 DEF Thread, Places, Goto, TypeOK
<1>3. TypeOK'
  BY <1>0, <1>1, <1>2 DEF TypeOK
<1>4. Stacks'
  BY <1>0, <1>1, <1>2 DEF Stacks, Deleting, Thread
<1>5. Counts'
  BY <1>0, <1>1, SameCounts
<1>6. Peers'
  BY <1>0, <1>1, <1>2, SamePeers DEF Deleting
<1>7. Events'
  BY <1>0, <1>1, <1>2, SameEvents
<1>8. PacketInv'
  <2>1. held["receive"] = <<>> /\ outcome = "none" /\ pc'["receive"] = "find"
    BY <1>0, <1>1, <1>2 DEF Stacks, PacketInv
  <2>2. p # NoPacket
    BY PeerAssumption DEF NoPacket
  <2> QED
    BY <1>1, <2>1, <2>2 DEF PacketInv, NoPacket
<1>9. Causes'
  BY <1>0, <1>1, <1>2, SameCauses
<1> QED
  BY <1>3, <1>4, <1>5, <1>6, <1>7, <1>8, <1>9 DEF IInv

LEMMA ArrivalStep ==
  ASSUME IInv, NEW i \in Id, NEW a \in Addr, Datagram(a, i) \/ Lookup(a)
  PROVE  IInv'
<1>1. ASSUME NEW j \in Id
      PROVE  /\ [NoPacket EXCEPT !.id = j, !.known = TRUE, !.from = a] \in Packet
             /\ [NoPacket EXCEPT !.id = j, !.from = a] \in Packet
             /\ [NoPacket EXCEPT !.id = j, !.known = TRUE, !.from = a].peer = None
             /\ [NoPacket EXCEPT !.id = j, !.from = a].peer = None
             /\ [NoPacket EXCEPT !.id = j, !.known = TRUE, !.from = a].id = j
             /\ [NoPacket EXCEPT !.id = j, !.from = a].id = j
  BY <1>1 DEF Packet, NoPacket
<1>2. CASE Datagram(a, i)
  BY <1>1, <1>2, TakeStep DEF Datagram
<1>3. CASE Lookup(a)
  <2>1. PICK j \in Id : Take([NoPacket EXCEPT !.id = j, !.from = a])
    BY <1>3 DEF Lookup, Known
  <2> QED
    BY <1>1, <1>3, <2>1, TakeStep DEF Lookup
<1> QED
  BY <1>2, <1>3

LEMMA UnbufferStep ==
  ASSUME IInv, NEW i \in Id, Unbuffer(i)
  PROVE  IInv'
<1>1. /\ [NoPacket EXCEPT !.id = i, !.buffered = TRUE] \in Packet
      /\ [NoPacket EXCEPT !.id = i, !.buffered = TRUE].peer = None
      /\ [NoPacket EXCEPT !.id = i, !.buffered = TRUE].id = i
  BY DEF Packet, NoPacket
<1> QED
  BY <1>1, TakeStep DEF Unbuffer

\* A new peer: nothing is known of it, and nothing is held.
LEMMA CreatePeerStep ==
  ASSUME IInv, NEW a \in Addr, CreatePeer(a)
  PROVE  IInv'
<1>0. TypeOK /\ Stacks /\ Counts /\ Peers /\ Events /\ PacketInv /\ Causes
  BY DEF IInv
<1>1. PICK i \in Id, x \in Obj :
        /\ m_peers[i] = None /\ heap[x] = "fresh"
        /\ m_peers' = [m_peers EXCEPT ![i] = x]
        /\ heap' = [heap EXCEPT ![x] = "alive"]
        /\ id' = [id EXCEPT ![x] = i]
        /\ address' = [address EXCEPT ![x] = a]
        /\ m_half_open' = m_half_open \cup {x}
        /\ told' = [told EXCEPT ![x] = Append(@, "added")]
        /\ Take([NoPacket EXCEPT !.id = i, !.from = a])
  BY DEF CreatePeer
<1>2. /\ pc["receive"] = "rest" /\ packet = NoPacket
      /\ packet' = [NoPacket EXCEPT !.id = i, !.from = a]
      /\ pc' = [pc EXCEPT !["receive"] = "find"]
      /\ UNCHANGED <<m_usage, m_pending_deletion, m_pending_disconnect, held, doing, outcome, phase,
                     todo, doomed, commands, given, closing, cause>>
  BY <1>1 DEF CreatePeer, AtRest, Take, Goto, sending, server
<1>3. /\ told[x] = <<>> /\ id[x] = None /\ x \notin m_pending_deletion
      /\ m_usage[x] = 0 /\ x # None
      /\ \A j \in Id : m_peers[j] # x
      /\ \A u \in Thread : doing[u] # x
  <2>1. m_usage[x] \in Nat /\ (m_usage[x] > 0 => heap[x] = "alive")
    BY <1>0 DEF TypeOK, Peers
  <2>2. x # None
    BY PeerAssumption
  <2> QED
    BY <1>0, <1>1, <2>1, <2>2 DEF Events, Peers
<1>4. told'[x] = <<"added">> /\ \A o \in Obj \ {x} : told'[o] = told[o]
  <2>1. told' = [told EXCEPT ![x] = <<"added">>]
    BY <1>1, <1>3, TellFirst
  <2> QED
    BY <1>0, <2>1 DEF TypeOK
<1>5. /\ heap'[x] = "alive" /\ \A o \in Obj \ {x} : heap'[o] = heap[o]
      /\ id'[x] = i /\ \A o \in Obj \ {x} : id'[o] = id[o]
      /\ m_peers'[i] = x /\ \A j \in Id \ {i} : m_peers'[j] = m_peers[j]
      /\ pc'["receive"] = "find" /\ \A u \in Thread \ {"receive"} : pc'[u] = pc[u]
  BY <1>0, <1>1, <1>2 DEF TypeOK, Thread
<1>6. TypeOK'
  <2>1. told' = [told EXCEPT ![x] = <<"added">>]
    BY <1>1, <1>3, TellFirst
  <2>2. <<"added">> \in Seq({"added", "removed"})
    OBVIOUS
  <2>3. packet' \in Packet
    BY <1>2 DEF Packet, NoPacket
  <2>4. told' \in [Obj -> Seq({"added", "removed"})]
    BY <1>0, <2>1, <2>2 DEF TypeOK
  <2> QED
    BY <1>0, <1>1, <1>2, <2>3, <2>4 DEF TypeOK, Places, Thread
<1>7. Stacks'
  BY <1>0, <1>2, <1>5 DEF Stacks, Deleting, Thread
<1>8. Counts'
  BY <1>0, <1>2, SameCounts
<1>9. Peers'
  <2>1. \A j \in Id : m_peers'[j] # None =>
          heap'[m_peers'[j]] = "alive" /\ id'[m_peers'[j]] = j /\ m_peers'[j] \notin m_pending_deletion
    BY <1>0, <1>1, <1>3, <1>5 DEF Peers, TypeOK
  <2>2. \A u \in Thread : doing[u] # None => doing[u] \in Obj \ {x} /\ pc[u] # "rest" /\ u # "receive"
    BY <1>0, <1>2, <1>3 DEF TypeOK, Stacks, Deleting
  <2>3. \A u \in Thread : doing[u] # None =>
          /\ heap'[doing[u]] = "alive"
          /\ \A j \in Id : m_peers'[j] # doing[u]
          /\ \A v \in Thread : doing[v] = doing[u] => v = u
          /\ IF pc'[u] = "free" THEN doing[u] \in m_pending_deletion /\ m_usage[doing[u]] = 0
             ELSE doing[u] \notin m_pending_deletion
    BY <1>0, <1>5, <2>2 DEF Peers
  <2>4. \A o \in Obj : m_usage[o] > 0 => heap'[o] = "alive"
    BY <1>0, <1>3, <1>5 DEF Peers
  <2>5. \A o \in Obj : heap'[o] = "alive" =>
          (\E j \in Id : m_peers'[j] = o) \/ (\E u \in Thread : doing[u] = o) \/ Dropped(o)
    <3> SUFFICES ASSUME NEW o \in Obj \ {x}, heap[o] = "alive"
                 PROVE  (\E j \in Id : m_peers'[j] = o) \/ (\E u \in Thread : doing[u] = o) \/ Dropped(o)
      BY <1>5
    <3>1. \A j \in Id : m_peers[j] = o => m_peers'[j] = o
      BY <1>1, <1>5, PeerAssumption
    <3> QED
      BY <1>0, <3>1 DEF Peers
  <2>6. \A o \in Obj : /\ heap'[o] = "fresh" <=> id'[o] = None
                       /\ heap'[o] = "fresh" => o \notin m_pending_deletion
    BY <1>0, <1>5, PeerAssumption DEF Peers
  <2> QED
    BY <1>2, <2>1, <2>3, <2>4, <2>5, <2>6 DEF Peers, Dropped
<1>10. Events'
  <2>1. \A j \in Id : m_peers'[j] # None => told'[m_peers'[j]] = <<"added">>
    <3> SUFFICES ASSUME NEW j \in Id \ {i}, m_peers[j] # None
                 PROVE  told'[m_peers[j]] = <<"added">>
      BY <1>4, <1>5
    <3>1. m_peers[j] \in Obj \ {x}
      BY <1>0, <1>3 DEF TypeOK
    <3> QED
      BY <1>0, <1>4, <3>1 DEF Events
  <2>2. \A u \in Thread : pc'[u] = "tell" => pc[u] = "tell" /\ doing[u] \in Obj \ {x}
    BY <1>0, <1>3, <1>5 DEF Stacks, Deleting, TypeOK
  <2>3. \A u \in Thread : pc'[u] = "tell" => told'[doing[u]] = <<"added">>
    BY <1>0, <1>4, <2>2 DEF Events
  <2>4. \A o \in Obj : /\ told'[o] \in {<<>>, <<"added">>, <<"added", "removed">>}
                       /\ heap'[o] = "fresh" => told'[o] = <<>>
    BY <1>0, <1>4, <1>5 DEF Events
  <2> QED
    BY <1>2, <2>1, <2>3, <2>4 DEF Events
<1>11. PacketInv'
  <2>1. held["receive"] = <<>> /\ outcome = "none"
    BY <1>0, <1>2 DEF Stacks, PacketInv, Thread
  <2>2. packet'.id = i /\ packet'.peer = None /\ packet' # NoPacket
    BY <1>2, PeerAssumption DEF NoPacket
  <2> QED
    BY <1>2, <1>5, <2>1, <2>2 DEF PacketInv, NoPacket
<1>12. Causes'
  <2>1. \A j \in Id : CauseOf(j) => CauseOf(j)'
    <3> SUFFICES ASSUME NEW j \in Id, NEW p \in cause, id[p] = j
                 PROVE  CauseOf(j)'
      BY DEF CauseOf
    <3>1. p \in Obj /\ p # x
      BY <1>0, <1>3, PeerAssumption DEF TypeOK
    <3> QED
      BY <1>2, <1>5, <3>1 DEF CauseOf
  <2>2. ASSUME NEW o \in Obj, heap[o] # "fresh"
        PROVE  Justified(o) => Justified(o)'
    <3>1. o # x /\ id[o] \in Id /\ id'[o] = id[o]
      BY <1>0, <1>3, <1>5, <2>2 DEF Peers, TypeOK
    <3> QED
      BY <2>1, <3>1 DEF Justified
  <2>3. \A j \in doomed \cup commands : CauseOf(j)'
    BY <1>0, <2>1 DEF TypeOK, Causes
  <2>4. ASSUME ~closing, NEW o \in Obj, heap'[o] # "fresh", m_peers'[id'[o]] # o
        PROVE  Justified(o)'
    <3>1. o # x
      BY <1>0, <1>5, <2>4 DEF TypeOK
    <3>2. heap[o] # "fresh" /\ id[o] \in Id /\ id'[o] = id[o]
      BY <1>0, <1>5, <2>4, <3>1 DEF Peers, TypeOK
    <3>3. m_peers[id[o]] # o
      BY <1>0, <1>1, <1>5, <2>4, <3>1, <3>2, PeerAssumption DEF TypeOK
    <3> QED
      BY <1>0, <2>4, <2>2, <3>2, <3>3 DEF Causes
  <2>5. ASSUME NEW u \in Thread, held[u] # <<>>
        PROVE  held[u][1] \in Obj /\ heap[held[u][1]] = "alive"
    <3>1. held[u][1] \in Obj
      BY <1>0, <2>5 DEF TypeOK
    <3>2. Uses(u, held[u][1]) > 0 /\ \A v \in Thread : Uses(v, held[u][1]) \in Nat
      BY <1>0, <2>5, <3>1, UsesNat
    <3>3. m_usage[held[u][1]] > 0
      BY <1>0, <3>1, <3>2 DEF Counts, Thread
    <3> QED
      BY <1>0, <3>1, <3>3 DEF Peers
  <2>6. pc'["send"] = "disconnect" => Justified(held["send"][1])'
    <3> SUFFICES ASSUME pc'["send"] = "disconnect"
                 PROVE  Justified(held["send"][1])'
      OBVIOUS
    <3>1. "send" \in Thread /\ pc["send"] = "disconnect" /\ held["send"] # <<>>
      BY <1>0, <1>5 DEF Thread, Stacks
    <3>2. PICK o \in Obj : o = held["send"][1] /\ heap[o] = "alive" /\ Justified(o)
      BY <1>0, <2>5, <3>1 DEF Causes
    <3>3. Justified(o)' /\ held'["send"][1] = o
      BY <1>2, <2>2, <3>2
    <3> QED
      BY <3>3
  <2>7. \A u \in Thread : pc'[u] \in {"tell", "drop"} => Justified(doing[u])'
    <3> SUFFICES ASSUME NEW u \in Thread, pc'[u] \in {"tell", "drop"}
                 PROVE  Justified(doing[u])'
      OBVIOUS
    <3>1. pc[u] = pc'[u] /\ doing[u] # None /\ doing[u] \in Obj
      BY <1>0, <1>5 DEF Stacks, Deleting, TypeOK
    <3>2. PICK o \in Obj : o = doing[u] /\ heap[o] = "alive" /\ Justified(o)
      BY <1>0, <3>1 DEF Causes, Peers
    <3>3. Justified(o)' /\ doing'[u] = o
      BY <1>2, <2>2, <3>2
    <3> QED
      BY <3>3
  <2>8. \A o \in m_pending_disconnect : heap'[o] # "fresh" /\ Justified(o)'
    BY <1>0, <1>5, <2>2 DEF Causes, TypeOK
  <2>9. \A o \in Obj : told'[o] = <<"added", "removed">> => Justified(o)'
    <3> SUFFICES ASSUME NEW o \in Obj, told'[o] = <<"added", "removed">>
                 PROVE  Justified(o)'
      OBVIOUS
    <3>1. <<"added">> # <<"added", "removed">> /\ <<>> # <<"added", "removed">>
      OBVIOUS
    <3>2. o # x /\ heap[o] # "fresh" /\ told[o] = <<"added", "removed">>
      BY <1>0, <1>4, <3>1 DEF Events
    <3> QED
      BY <1>0, <2>2, <3>2 DEF Causes
  <2> QED
    BY <1>2, <2>3, <2>6, <2>7, <2>8, <2>9, <2>4 DEF Causes
<1> QED
  BY <1>6, <1>7, <1>8, <1>9, <1>10, <1>11, <1>12 DEF IInv

LEMMA FindStep ==
  ASSUME IInv, Find
  PROVE  IInv'
<1>0. TypeOK /\ Stacks /\ Counts /\ Peers /\ Events /\ PacketInv /\ Causes
  BY DEF IInv
<1>1. /\ pc["receive"] = "find" /\ held["receive"] = <<>> /\ packet # NoPacket /\ packet.id \in Id
      /\ UNCHANGED <<m_peers, heap, id, address, m_pending_deletion, m_pending_disconnect,
                     m_half_open, doing, outcome, phase, todo, doomed, commands, given,
                     closing, told, cause>>
  BY <1>0 DEF Find, Stacks, PacketInv, flags, sending, server, history
<1>2. "receive" \in Thread /\ pc \in [Thread -> Places] /\ packet \in Packet
  BY <1>0 DEF Thread, TypeOK
<1>3. CASE /\ Acquire("receive", packet.id)
           /\ packet' = [packet EXCEPT !.peer = m_peers[packet.id]]
           /\ Goto("receive", IF packet.buffered THEN "process" ELSE "check")
  <2>1. PICK place \in {"process", "check"} :
          /\ Goto("receive", place) /\ place \in Places
          /\ place = "process" => packet.buffered
    BY <1>3 DEF Places
  <2>2. /\ m_peers[packet.id] \in Obj
        /\ held' \in [Thread -> Seq(Obj)] /\ m_usage' \in [Obj -> Nat]
        /\ \A u \in Thread : Same(held'[u])
        /\ held'["receive"] # <<>> /\ held'["receive"][1] = m_peers[packet.id]
        /\ \A u \in Thread \ {"receive"} : held'[u] = held[u]
        /\ Counts'
    BY <1>0, <1>1, <1>2, <1>3, AcquireStacks
  <2>3. pc'["receive"] = place /\ \A u \in Thread \ {"receive"} : pc'[u] = pc[u]
    BY <1>2, <2>1 DEF Goto
  <2>4. TypeOK'
    <3>1. packet' \in Packet
      BY <1>2, <1>3, <2>2 DEF Packet
    <3>2. pc' \in [Thread -> Places]
      BY <1>2, <2>1 DEF Goto
    <3> QED
      BY <1>0, <1>1, <2>2, <3>1, <3>2 DEF TypeOK
  <2>5. Stacks'
    BY <1>0, <1>1, <2>1, <2>2, <2>3 DEF Stacks, Deleting, Thread
  <2>6. Peers'
    BY <1>0, <1>1, <1>2, <1>3, <2>1, AcquirePeers DEF Deleting
  <2>7. Events'
    BY <1>0, <1>1, <1>2, <2>1, SameEvents
  <2>8. PacketInv'
    <3>1. /\ packet'.id = packet.id /\ packet'.peer = m_peers[packet.id]
          /\ packet'.buffered = packet.buffered /\ packet'.from = packet.from
      BY <1>2, <1>3 DEF Packet
    <3>2. m_peers[packet.id] # None /\ id[m_peers[packet.id]] = packet.id
      BY <1>0, <1>1, <1>3 DEF Acquire, Peers
    <3>3. packet' # NoPacket
      BY <3>1, <3>2 DEF NoPacket
    <3>4. outcome = "data" => packet.peer # None /\ (packet.buffered \/ packet.from = address[packet.peer])
      BY <1>0 DEF PacketInv
    <3>5. outcome = "none"
      BY <1>0, <1>1 DEF TypeOK, PacketInv
    <3> QED
      BY <1>1, <2>1, <2>2, <2>3, <3>1, <3>2, <3>3, <3>5 DEF PacketInv
  <2>9. Causes'
    <3>1. held'["send"] = held["send"]
      BY <2>2 DEF Thread
    <3> QED
      BY <1>0, <1>1, <1>2, <2>1, <3>1, SameCauses
  <2> QED
    BY <2>2, <2>4, <2>5, <2>6, <2>7, <2>8, <2>9 DEF IInv
<1>4. CASE packet' = NoPacket /\ Goto("receive", "rest") /\ UNCHANGED <<m_usage, held>>
  <2>1. NoPacket \in Packet /\ "rest" \in Places
    BY DEF NoPacket, Packet, Places
  <2>2. pc'["receive"] = "rest" /\ \A u \in Thread \ {"receive"} : pc'[u] = pc[u]
    BY <1>2, <1>4 DEF Goto
  <2>3. TypeOK'
    BY <1>0, <1>1, <1>2, <1>4, <2>1 DEF TypeOK, Goto
  <2>4. Stacks'
    BY <1>0, <1>1, <1>4, <2>2 DEF Stacks, Deleting, Thread
  <2>5. Counts'
    BY <1>0, <1>4, SameCounts
  <2>6. Peers'
    BY <1>0, <1>1, <1>2, <1>4, <2>1, SamePeers DEF Deleting
  <2>7. Events'
    BY <1>0, <1>1, <1>2, <1>4, <2>1, SameEvents
  <2>8. PacketInv'
    BY <1>0, <1>1, <1>4, <2>2 DEF PacketInv, NoPacket, TypeOK
  <2>9. Causes'
    BY <1>0, <1>1, <1>2, <1>4, <2>1, SameCauses
  <2> QED
    BY <2>3, <2>4, <2>5, <2>6, <2>7, <2>8, <2>9 DEF IInv
<1> QED
  BY <1>3, <1>4 DEF Find

LEMMA CheckStep ==
  ASSUME IInv, Check
  PROVE  IInv'
<1>0. TypeOK /\ Stacks /\ Counts /\ Peers /\ Events /\ PacketInv /\ Causes
  BY DEF IInv
<1>1. /\ pc["receive"] = "check" /\ held["receive"] # <<>> /\ packet # NoPacket
      /\ m_half_open' \subseteq m_half_open
      /\ UNCHANGED <<m_peers, heap, id, address, m_usage, m_pending_deletion, m_pending_disconnect,
                     held, doing, packet, outcome, phase, todo, doomed, commands, given,
                     closing, told, cause>>
  BY <1>0 DEF Check, Stacks, PacketInv, objects, receiving, sending, server, history
<1>2. "receive" \in Thread /\ pc \in [Thread -> Places]
  BY <1>0 DEF Thread, TypeOK
<1>3. PICK place \in {"process", "release"} :
        /\ Goto("receive", place) /\ place \in Places
        /\ place = "process" => packet.from = address[packet.peer]
  BY DEF Check, Places
<1>4. pc'["receive"] = place /\ \A u \in Thread \ {"receive"} : pc'[u] = pc[u]
  BY <1>2, <1>3 DEF Goto
<1>5. TypeOK'
  BY <1>0, <1>1, <1>2, <1>3 DEF TypeOK, Goto
<1>6. Stacks'
  BY <1>0, <1>1, <1>3, <1>4 DEF Stacks, Deleting, Thread
<1>7. Counts'
  BY <1>0, <1>1, SameCounts
<1>8. Peers'
  BY <1>0, <1>1, <1>2, <1>3, SamePeers DEF Deleting
<1>9. Events'
  BY <1>0, <1>1, <1>2, <1>3, SameEvents
<1>10. PacketInv'
  BY <1>0, <1>1, <1>3, <1>4 DEF PacketInv, NoPacket
<1>11. Causes'
  BY <1>0, <1>1, <1>2, <1>3, SameCauses
<1> QED
  BY <1>5, <1>6, <1>7, <1>8, <1>9, <1>10, <1>11 DEF IInv

LEMMA ProcessPacketStep ==
  ASSUME IInv, ProcessPacket
  PROVE  IInv'
<1>0. TypeOK /\ Stacks /\ Counts /\ Peers /\ Events /\ PacketInv /\ Causes
  BY DEF IInv
<1>1. /\ pc["receive"] = "process" /\ held["receive"] # <<>> /\ packet # NoPacket
      /\ UNCHANGED <<m_peers, heap, id, address, m_pending_deletion, m_pending_disconnect,
                     m_half_open, doing, packet, outcome, phase, todo, doomed, commands, given,
                     closing, told, cause>>
  BY <1>0 DEF ProcessPacket, Stacks, PacketInv, flags, receiving, sending, server, history
<1>2. "receive" \in Thread /\ pc \in [Thread -> Places] /\ held["receive"] \in Seq(Obj)
  BY <1>0 DEF Thread, TypeOK
<1>3. /\ packet.peer = held["receive"][1] /\ packet.peer # None /\ packet.id \in Id
      /\ m_peers[packet.id] \in {packet.peer, None}
  BY <1>0, <1>1, <1>2, PeerAssumption DEF PacketInv
<1>4. CASE Acquire("receive", packet.id) /\ Goto("receive", "handle")
  <2>1. /\ held["receive"][1] = m_peers[packet.id] /\ "handle" \in Places
    BY <1>3, <1>4 DEF Acquire, Places
  <2>2. /\ held' \in [Thread -> Seq(Obj)] /\ m_usage' \in [Obj -> Nat]
        /\ \A u \in Thread : Same(held'[u])
        /\ held'["receive"] # <<>> /\ held'["receive"][1] = m_peers[packet.id]
        /\ \A u \in Thread \ {"receive"} : held'[u] = held[u]
        /\ Counts'
    BY <1>0, <1>2, <1>3, <1>4, <2>1, AcquireStacks
  <2>3. pc'["receive"] = "handle" /\ \A u \in Thread \ {"receive"} : pc'[u] = pc[u]
    BY <1>2, <1>4 DEF Goto
  <2>4. TypeOK'
    BY <1>0, <1>1, <1>2, <1>4, <2>1, <2>2 DEF TypeOK, Goto
  <2>5. Stacks'
    BY <1>0, <1>1, <2>2, <2>3 DEF Stacks, Deleting, Thread
  <2>6. Peers'
    BY <1>0, <1>1, <1>2, <1>3, <1>4, <2>1, AcquirePeers DEF Deleting
  <2>7. Events'
    BY <1>0, <1>1, <1>2, <1>4, <2>1, SameEvents
  <2>8. PacketInv'
    BY <1>0, <1>1, <1>3, <2>1, <2>2, <2>3 DEF PacketInv, NoPacket
  <2>9. Causes'
    <3>1. held'["send"] = held["send"]
      BY <2>2 DEF Thread
    <3> QED
      BY <1>0, <1>1, <1>2, <1>4, <2>1, <3>1, SameCauses
  <2> QED
    BY <2>2, <2>4, <2>5, <2>6, <2>7, <2>8, <2>9 DEF IInv
<1>5. CASE Goto("receive", "release") /\ UNCHANGED <<m_usage, held>>
  <2>1. "release" \in Places
    BY DEF Places
  <2>2. pc'["receive"] = "release" /\ \A u \in Thread \ {"receive"} : pc'[u] = pc[u]
    BY <1>2, <1>5 DEF Goto
  <2>3. TypeOK'
    BY <1>0, <1>1, <1>2, <1>5, <2>1 DEF TypeOK, Goto
  <2>4. Stacks'
    BY <1>0, <1>1, <1>5, <2>2 DEF Stacks, Deleting, Thread
  <2>5. Counts'
    BY <1>0, <1>5, SameCounts
  <2>6. Peers'
    BY <1>0, <1>1, <1>2, <1>5, <2>1, SamePeers DEF Deleting
  <2>7. Events'
    BY <1>0, <1>1, <1>2, <1>5, <2>1, SameEvents
  <2>8. PacketInv'
    BY <1>0, <1>1, <1>5, <2>2 DEF PacketInv, NoPacket
  <2>9. Causes'
    BY <1>0, <1>1, <1>2, <1>5, <2>1, SameCauses
  <2> QED
    BY <2>3, <2>4, <2>5, <2>6, <2>7, <2>8, <2>9 DEF IInv
<1> QED
  BY <1>4, <1>5 DEF ProcessPacket

LEMMA HandleStep ==
  ASSUME IInv, Handle
  PROVE  IInv'
<1>0. TypeOK /\ Stacks /\ Counts /\ Peers /\ Events /\ PacketInv /\ Causes
  BY DEF IInv
<1>1. /\ pc["receive"] = "handle" /\ held["receive"] # <<>> /\ packet # NoPacket
      /\ UNCHANGED <<heap, id, address, m_usage, m_pending_deletion, m_pending_disconnect,
                     m_half_open, held, packet, phase, todo, doomed, commands, given,
                     closing, told>>
  BY <1>0 DEF Handle, Stacks, PacketInv, objects, flags, sending, server
<1>2. /\ "receive" \in Thread /\ pc \in [Thread -> Places] /\ held["receive"] \in Seq(Obj)
      /\ {"release", "process"} \subseteq Places
  BY <1>0 DEF Thread, TypeOK, Places
<1>3. /\ packet.peer = held["receive"][1] /\ packet.peer \in Obj /\ packet.id \in Id
      /\ packet.id = id[packet.peer] /\ m_peers[packet.id] \in {packet.peer, None}
      /\ packet.peer # None
  BY <1>0, <1>1, <1>2, PeerAssumption DEF PacketInv
<1>4. CASE /\ outcome' \in {"none", "data", outcome}
           /\ Goto("receive", "release") \/ (Goto("receive", "process") /\ outcome' = outcome)
           /\ UNCHANGED <<m_peers, doing, cause>>
  <2>1. PICK place \in {"release", "process"} : Goto("receive", place)
    BY <1>4
  <2>2. pc'["receive"] = place /\ \A u \in Thread \ {"receive"} : pc'[u] = pc[u]
    BY <1>2, <2>1 DEF Goto
  <2>3. TypeOK'
    BY <1>0, <1>1, <1>2, <1>4, <2>1 DEF TypeOK, Goto
  <2>4. Stacks'
    BY <1>0, <1>1, <1>4, <2>2 DEF Stacks, Deleting, Thread
  <2>5. Counts'
    BY <1>0, <1>1, SameCounts
  <2>6. Peers'
    BY <1>0, <1>1, <1>2, <1>4, <2>1, SamePeers DEF Deleting
  <2>7. Events'
    BY <1>0, <1>1, <1>2, <1>4, <2>1, SameEvents
  <2>8. PacketInv'
    BY <1>0, <1>1, <1>3, <1>4, <2>2 DEF PacketInv, NoPacket
  <2>9. Causes'
    BY <1>0, <1>1, <1>2, <1>4, <2>1, SameCauses
  <2> QED
    BY <2>3, <2>4, <2>5, <2>6, <2>7, <2>8, <2>9 DEF IInv
<1>5. CASE /\ Erase("receive", id[Last(held["receive"])])
           /\ cause' = cause \cup {Last(held["receive"])}
           /\ UNCHANGED outcome
  <2>1. Last(held["receive"]) = packet.peer
    BY <1>0, <1>1, <1>2, <1>3, Pop DEF Stacks
  <2>2. Erase("receive", packet.id) /\ cause' = cause \cup {packet.peer}
    BY <1>3, <1>5, <2>1
  <2>3. PICK x \in Obj \cup {None} : x = m_peers[packet.id]
    BY <1>0, <1>3 DEF TypeOK
  <2>4. x # None => Justified(x)'
    BY <1>3, <2>2, <2>3 DEF Justified, CauseOf
  <2>5. cause \subseteq cause' /\ cause' \subseteq Obj
    BY <1>0, <1>3, <2>2 DEF TypeOK
  <2>6. UNCHANGED <<objects, flags, held, packet, outcome, phase, todo, server, told>>
    BY <1>1, <1>5 DEF objects, flags, server
  <2>7. pc["receive"] \notin Deleting
    BY <1>1 DEF Deleting
  <2> QED
    BY <1>1, <1>3, <2>2, <2>3, <2>4, <2>5, <2>6, <2>7, EraseParts
<1> QED
  BY <1>4, <1>5 DEF Handle

LEMMA TellDataStep ==
  ASSUME IInv, TellData
  PROVE  IInv'
<1>0. TypeOK /\ Stacks /\ Counts /\ Peers /\ Events /\ PacketInv /\ Causes
  BY DEF IInv
<1>1. /\ outcome' = "none"
      /\ UNCHANGED <<m_peers, heap, id, address, m_usage, m_pending_deletion, m_pending_disconnect,
                     m_half_open, pc, held, doing, packet, phase, todo, doomed, commands, given,
                     closing, told, cause>>
  BY DEF TellData, objects, flags, sending, server, history
<1>2. TypeOK'
  BY <1>0, <1>1 DEF TypeOK
<1>3. Stacks' /\ Counts' /\ Peers' /\ Events' /\ Causes'
  BY <1>0, <1>1, SameCounts DEF Stacks, Peers, Events, Causes, Justified, CauseOf, Dropped
<1>4. PacketInv'
  BY <1>0, <1>1 DEF PacketInv, NoPacket
<1> QED
  BY <1>2, <1>3, <1>4 DEF IInv

LEMMA EndReceiveStep ==
  ASSUME IInv, EndReceive
  PROVE  IInv'
<1>0. TypeOK /\ Stacks /\ Counts /\ Peers /\ Events /\ PacketInv /\ Causes
  BY DEF IInv
<1>1. /\ packet' = NoPacket /\ outcome' = "none" /\ pc["receive"] = "rest"
      /\ held["receive"] = <<>>
      /\ UNCHANGED <<m_peers, heap, id, address, m_usage, m_pending_deletion, m_pending_disconnect,
                     m_half_open, pc, held, doing, phase, todo, doomed, commands, given,
                     closing, told, cause>>
  BY <1>0 DEF EndReceive, Stacks, Thread, objects, flags, sending, server, history
<1>2. TypeOK'
  BY <1>0, <1>1 DEF TypeOK, NoPacket, Packet
<1>3. Stacks' /\ Counts' /\ Peers' /\ Events' /\ Causes'
  <2>1. Stacks' /\ Counts'
    BY <1>0, <1>1, SameCounts DEF Stacks
  <2>2. Peers'
    BY <1>0, <1>1 DEF Peers, Dropped
  <2>3. Events'
    BY <1>0, <1>1 DEF Events
  <2>4. Causes'
    BY <1>0, <1>1 DEF Causes, Justified, CauseOf
  <2> QED
    BY <2>1, <2>2, <2>3, <2>4
<1>4. PacketInv'
  BY <1>1 DEF PacketInv, NoPacket
<1> QED
  BY <1>2, <1>3, <1>4 DEF IInv

-----------------------------------------------------------------------------
(* The send thread *)

LEMMA NextPhaseStep ==
  ASSUME IInv, NextPhase
  PROVE  IInv'
<1>0. TypeOK /\ Stacks /\ Counts /\ Peers /\ Events /\ PacketInv /\ Causes
  BY DEF IInv
<1>1. UNCHANGED <<m_peers, heap, id, address, m_usage, m_pending_deletion, m_pending_disconnect,
                  m_half_open, pc, held, doing, packet, outcome, doomed, commands, given,
                  closing, told, cause>>
  BY DEF NextPhase, objects, flags, receiving, server, history
<1>2. /\ phase' \in {"wait", "timeouts", "timed_out", "commands", "packets", "disconnects"}
      /\ todo' \subseteq Id
      /\ todo' # {} => phase' \in {"timeouts", "packets"}
  BY <1>0 DEF NextPhase, Present, TypeOK, Stacks
<1>3. TypeOK'
  BY <1>0, <1>1, <1>2 DEF TypeOK
<1>4. Stacks' /\ Counts' /\ Peers' /\ Events' /\ Causes'
  <2>1. Stacks' /\ Counts'
    BY <1>0, <1>1, <1>2, SameCounts DEF Stacks
  <2>2. Peers' /\ Events' /\ Causes'
    BY <1>0, <1>1 DEF Peers, Events, Causes, Justified, CauseOf, Dropped
  <2> QED
    BY <2>1, <2>2
<1>5. PacketInv'
  BY <1>0, <1>1 DEF PacketInv, NoPacket
<1> QED
  BY <1>3, <1>4, <1>5 DEF IInv

\* The send thread, or the server's, gets a helper. What waits for it has a cause.
LEMMA LookupStep ==
  ASSUME IInv, NEW t \in {"send", "user"}, NEW i \in Id, pc[t] = "rest", Acquire(t, i),
         NEW place \in Places, Goto(t, place),
         t = "send" => place \in {"timeouts", "packets", "disconnect"},
         t = "user" => place = "release" /\ ~closing,
         place = "disconnect" => Justified(m_peers[i]),
         todo' \subseteq todo, commands' \subseteq commands,
         UNCHANGED <<m_peers, heap, id, address, flags, doing, receiving, phase, doomed, given, closing,
                     history>>
  PROVE  IInv'
<1>0. TypeOK /\ Stacks /\ Counts /\ Peers /\ Events /\ PacketInv /\ Causes
  BY DEF IInv
<1>1. /\ t \in Thread /\ held[t] = <<>> /\ pc \in [Thread -> Places] /\ t # "receive"
      /\ UNCHANGED <<m_peers, heap, id, address, m_pending_deletion, m_pending_disconnect,
                     m_half_open, doing, packet, outcome, phase, doomed, given,
                     closing, told, cause>>
  BY <1>0 DEF Stacks, TypeOK, Thread, flags, receiving, history
<1>2. /\ m_peers[i] \in Obj
      /\ held' \in [Thread -> Seq(Obj)] /\ m_usage' \in [Obj -> Nat]
      /\ \A u \in Thread : Same(held'[u])
      /\ held'[t] # <<>> /\ held'[t][1] = m_peers[i]
      /\ \A u \in Thread \ {t} : held'[u] = held[u]
      /\ Counts'
  BY <1>0, <1>1, AcquireStacks
<1>3. pc'[t] = place /\ \A u \in Thread \ {t} : pc'[u] = pc[u]
  BY <1>1 DEF Goto
<1>4. TypeOK'
  BY <1>0, <1>1, <1>2 DEF TypeOK, Goto
<1>5. Stacks'
  <2>1. \A u \in Thread :
          /\ Same(held'[u])
          /\ doing'[u] # None <=> pc'[u] \in Deleting
          /\ pc'[u] = "rest" => held'[u] = <<>>
          /\ pc'[u] = "release" => held'[u] # <<>>
    BY <1>0, <1>1, <1>2, <1>3 DEF Stacks, Deleting
  <2>2. pc'["receive"] = pc["receive"] /\ held'["receive"] = held["receive"]
    BY <1>1, <1>2, <1>3 DEF Thread
  <2>3. /\ pc'["send"] \notin {"find", "check", "process", "handle"}
        /\ pc'["send"] \in {"timeouts", "packets", "disconnect"} => held'["send"] # <<>>
    BY <1>0, <1>2, <1>3 DEF Stacks, Thread
  <2>4. pc'["user"] \in {"rest", "release", "free"} /\ (closing' => pc'["user"] = "rest")
    BY <1>0, <1>1, <1>3 DEF Stacks, Thread
  <2> QED
    BY <1>0, <1>1, <2>1, <2>2, <2>3, <2>4 DEF Stacks
<1>6. Peers'
  BY <1>0, <1>1, AcquirePeers DEF Deleting
<1>7. Events'
  BY <1>0, <1>1, SameEvents DEF Places
<1>8. PacketInv'
  <2>1. pc'["receive"] = pc["receive"] /\ held'["receive"] = held["receive"]
    BY <1>1, <1>2, <1>3 DEF Thread
  <2> QED
    BY <1>0, <1>1, <2>1, SamePacket
<1>9. Causes'
  <2>1. pc'["send"] = "disconnect" => Justified(held["send"][1])'
    <3>1. CASE t = "send"
      BY <1>1, <1>2, <1>3, <3>1 DEF Justified, CauseOf
    <3>2. CASE t # "send"
      BY <1>0, <1>1, <1>2, <1>3, <3>2 DEF Causes, Justified, CauseOf, Thread
    <3> QED
      BY <3>1, <3>2
  <2>2. \A u \in Thread : pc'[u] \in {"tell", "drop"} => pc[u] = pc'[u]
    BY <1>3
  <2> QED
    BY <1>0, <1>1, <2>1, <2>2 DEF Causes, Justified, CauseOf
<1> QED
  BY <1>2, <1>4, <1>5, <1>6, <1>7, <1>8, <1>9 DEF IInv

\* What is to do becomes less, nothing else.
LEMMA SkipStep ==
  ASSUME IInv, todo' \subseteq todo, commands' \subseteq commands, doomed' \subseteq doomed,
         UNCHANGED <<m_peers, heap, id, address, m_usage, flags, pc, held, doing, receiving, phase,
                     given, closing, history>>
  PROVE  IInv'
<1>0. TypeOK /\ Stacks /\ Counts /\ Peers /\ Events /\ PacketInv /\ Causes
  BY DEF IInv
<1>1. UNCHANGED <<m_peers, heap, id, address, m_usage, m_pending_deletion, m_pending_disconnect,
                  m_half_open, pc, held, doing, packet, outcome, phase, given, closing, told, cause>>
  BY DEF flags, receiving, history
<1>2. TypeOK'
  BY <1>0, <1>1 DEF TypeOK
<1>3. Stacks' /\ Counts' /\ Peers' /\ Events' /\ Causes'
  <2>1. Stacks' /\ Counts'
    BY <1>0, <1>1, SameCounts DEF Stacks
  <2>2. Peers' /\ Events'
    BY <1>0, <1>1 DEF Peers, Events, Dropped
  <2>3. \A i \in doomed' \cup commands' : CauseOf(i)'
    BY <1>0, <1>1 DEF Causes, Justified, CauseOf
  <2>4. Causes'
    BY <1>0, <1>1, <2>3 DEF Causes, Justified, CauseOf
  <2> QED
    BY <2>1, <2>2, <2>4
<1>4. PacketInv'
  BY <1>0, <1>1 DEF PacketInv, NoPacket
<1> QED
  BY <1>2, <1>3, <1>4 DEF IInv

LEMMA VisitStep ==
  ASSUME IInv, NEW i \in Id, Visit(i)
  PROVE  IInv'
<1>1. pc["send"] = "rest" /\ todo # {} /\ todo' \subseteq todo
  BY DEF Visit, Idle
<1>2. phase \in {"timeouts", "packets"} /\ phase \in Places
  BY <1>1 DEF IInv, Stacks, Places
<1>3. UNCHANGED <<m_peers, heap, id, address, flags, doing, receiving, phase, doomed, commands, given,
                  closing, history>>
  BY DEF Visit, server
<1>4. CASE Acquire("send", i) /\ Goto("send", phase)
  BY <1>1, <1>2, <1>3, <1>4, LookupStep
<1>5. CASE UNCHANGED <<m_usage, held, pc>>
  BY <1>1, <1>3, <1>5, SkipStep
<1> QED
  BY <1>4, <1>5 DEF Visit

LEMMA RunCommandStep ==
  ASSUME IInv, NEW i \in Id, RunCommand(i)
  PROVE  IInv'
<1>1. pc["send"] = "rest" /\ commands' \subseteq commands /\ i \in commands /\ "disconnect" \in Places
  BY DEF RunCommand, Idle, Places
<1>2. UNCHANGED <<m_peers, heap, id, address, flags, doing, receiving, phase, todo, doomed, given,
                  closing, history>>
  BY DEF RunCommand, sending
<1>3. CASE Acquire("send", i) /\ Goto("send", "disconnect")
  <2>1. Justified(m_peers[i])
    BY <1>1, <1>3 DEF IInv, Causes, Acquire, Peers, Justified
  <2> QED
    BY <1>1, <1>2, <1>3, <2>1, LookupStep
<1>4. CASE UNCHANGED <<m_usage, held, pc>>
  BY <1>1, <1>2, <1>4, SkipStep
<1> QED
  BY <1>3, <1>4 DEF RunCommand

LEMMA GetPeerAddressStep ==
  ASSUME IInv, NEW i \in Id, GetPeerAddress(i)
  PROVE  IInv'
<1>1. /\ pc["user"] = "rest" /\ Acquire("user", i) /\ Goto("user", "release") /\ ~closing
      /\ "release" \in Places
      /\ UNCHANGED <<m_peers, heap, id, address, flags, doing, receiving, phase, todo, doomed,
                     commands, given, closing, history>>
  BY DEF GetPeerAddress, Places, sending, server
<1> QED
  BY <1>1, LookupStep

\* The send thread is done with the peer it holds, and may have marked it or its id.
LEMMA MarkStep ==
  ASSUME IInv, pc["send"] \in {"timeouts", "packets", "disconnect"}, Goto("send", "release"),
         NEW o \in Obj, o = held["send"][1],
         doomed' \subseteq doomed \cup {id[o]}, cause \subseteq cause', cause' \subseteq Obj,
         m_pending_disconnect' \subseteq m_pending_disconnect \cup {o},
         (doomed' = doomed /\ m_pending_disconnect' = m_pending_disconnect) \/ Justified(o)',
         UNCHANGED <<m_peers, objects, m_pending_deletion, m_half_open, held, doing, receiving,
                     phase, todo, server, told>>
  PROVE  IInv'
<1>0. TypeOK /\ Stacks /\ Counts /\ Peers /\ Events /\ PacketInv /\ Causes
  BY DEF IInv
<1>1. /\ "send" \in Thread /\ held["send"] # <<>> /\ pc \in [Thread -> Places] /\ "release" \in Places
      /\ UNCHANGED <<m_peers, heap, id, address, m_usage, m_pending_deletion, m_half_open, held, doing,
                     packet, outcome, phase, todo, commands, given, closing, told>>
  BY <1>0 DEF Stacks, TypeOK, Thread, Places, objects, receiving, server
<1>2. pc'["send"] = "release" /\ \A u \in Thread \ {"send"} : pc'[u] = pc[u]
  BY <1>1 DEF Goto
<1>3. heap[o] = "alive" /\ id[o] \in Id
  <2>1. Uses("send", o) > 0 /\ \A v \in Thread : Uses(v, o) \in Nat
    BY <1>0, <1>1, UsesNat
  <2>2. m_usage[o] > 0
    BY <1>0, <2>1 DEF Counts, Thread
  <2> QED
    BY <1>0, <2>2 DEF Peers, TypeOK
<1>4. TypeOK'
  BY <1>0, <1>1, <1>3 DEF TypeOK, Goto
<1>5. Stacks'
  BY <1>0, <1>1, <1>2 DEF Stacks, Deleting, Thread
<1>6. Counts'
  BY <1>0, <1>1, SameCounts
<1>7. Peers'
  BY <1>0, <1>1, SamePeers DEF Deleting
<1>8. Events'
  BY <1>0, <1>1, SameEvents
<1>9. PacketInv'
  <2>1. pc'["receive"] = pc["receive"]
    BY <1>2 DEF Thread
  <2> QED
    BY <1>0, <1>1, <2>1, SamePacket
<1>10. Causes'
  <2>1. \A p \in Obj : Justified(p) => Justified(p)'
    BY <1>1 DEF Justified, CauseOf
  <2>2. \A j \in doomed \cup commands : CauseOf(j)'
    BY <1>0, <1>1 DEF Causes, CauseOf
  <2>3. \A p \in m_pending_disconnect' : heap[p] # "fresh" /\ Justified(p)'
    BY <1>0, <1>3, <2>1 DEF Causes, TypeOK
  <2>4. \A u \in Thread : pc'[u] \in {"tell", "drop"} => Justified(doing[u])'
    <3> SUFFICES ASSUME NEW u \in Thread, pc'[u] \in {"tell", "drop"}
                 PROVE  Justified(doing[u])'
      OBVIOUS
    <3>1. u # "send" /\ pc[u] = pc'[u]
      BY <1>2
    <3>2. Justified(doing[u])
      BY <1>0, <3>1 DEF Causes
    <3> QED
      BY <1>1, <3>2 DEF Justified, CauseOf
  <2>5. \A p \in Obj : told[p] = <<"added", "removed">> => Justified(p)'
    BY <1>0, <2>1 DEF Causes
  <2>6. \A j \in doomed' \cup commands' : CauseOf(j)'
    BY <1>1, <2>2 DEF Justified
  <2>7. ~closing => \A p \in Obj : heap[p] # "fresh" /\ m_peers[id[p]] # p => Justified(p)'
    BY <1>0, <2>1 DEF Causes
  <2> QED
    BY <1>1, <1>2, <2>3, <2>4, <2>5, <2>6, <2>7 DEF Causes
<1> QED
  BY <1>4, <1>5, <1>6, <1>7, <1>8, <1>9, <1>10 DEF IInv

LEMMA SendPeerStep ==
  ASSUME IInv, CheckTimeout \/ CollectDisconnect \/ MarkDisconnect
  PROVE  IInv'
<1>0. TypeOK /\ Stacks /\ Causes
  BY DEF IInv
<1>1. /\ pc["send"] \in {"timeouts", "packets", "disconnect"} /\ Goto("send", "release")
      /\ UNCHANGED <<m_peers, objects, m_pending_deletion, m_half_open, held, doing, receiving,
                     phase, todo, server, told>>
  BY DEF CheckTimeout, CollectDisconnect, MarkDisconnect, flags, sending, history
<1>2. PICK o \in Obj : o = held["send"][1]
  <2>1. held["send"] \in Seq(Obj) /\ held["send"] # <<>>
    BY <1>0, <1>1 DEF TypeOK, Stacks, Thread
  <2> QED
    BY <2>1
<1>3. CASE CheckTimeout
  <2>1. m_pending_disconnect' = m_pending_disconnect /\ cause' \subseteq Obj
    BY <1>0, <1>2, <1>3 DEF CheckTimeout, flags, TypeOK
  <2>2. /\ doomed' \subseteq doomed \cup {id[o]} /\ cause \subseteq cause'
        /\ doomed' = doomed \/ Justified(o)'
    BY <1>2, <1>3 DEF CheckTimeout, Justified, CauseOf
  <2> QED
    BY <1>1, <1>2, <2>1, <2>2, MarkStep
<1>4. CASE CollectDisconnect
  <2>1. /\ m_pending_disconnect' = m_pending_disconnect /\ cause' = cause /\ cause \subseteq Obj
        /\ id' = id
    BY <1>0, <1>4 DEF CollectDisconnect, flags, history, objects, TypeOK
  <2>2. /\ doomed' \subseteq doomed \cup {id[o]}
        /\ doomed' = doomed \/ o \in m_pending_disconnect
    BY <1>2, <1>4 DEF CollectDisconnect
  <2>3. o \in m_pending_disconnect => Justified(o)'
    BY <1>0, <2>1 DEF Causes, Justified, CauseOf
  <2> QED
    BY <1>1, <1>2, <2>1, <2>2, <2>3, MarkStep
<1>5. CASE MarkDisconnect
  <2>1. /\ m_pending_disconnect' = m_pending_disconnect \cup {o} /\ doomed' = doomed
        /\ cause' = cause /\ cause \subseteq Obj /\ id' = id /\ pc["send"] = "disconnect"
    BY <1>0, <1>2, <1>5 DEF MarkDisconnect, sending, history, objects, TypeOK
  <2>2. Justified(o)'
    BY <1>0, <1>2, <2>1 DEF Causes, Justified, CauseOf
  <2> QED
    BY <1>1, <1>2, <2>1, <2>2, MarkStep
<1> QED
  BY <1>3, <1>4, <1>5

LEMMA DeletePeerStep ==
  ASSUME IInv, NEW i \in Id, DeletePeer(i)
  PROVE  IInv'
<1>0. TypeOK /\ Stacks /\ Peers /\ Causes
  BY DEF IInv
<1>1. /\ pc["send"] = "rest" /\ i \in doomed /\ doomed' = doomed \ {i}
      /\ UNCHANGED <<objects, flags, held, packet, outcome, phase, todo, server, told, cause>>
  BY DEF DeletePeer, Idle, receiving, history
<1>2. CASE Erase("send", i)
  <2>1. PICK x \in Obj \cup {None} : x = m_peers[i]
    BY <1>0 DEF TypeOK
  <2>2. x # None => Justified(x)'
    <3>1. CauseOf(i) /\ (x # None => id[x] = i)
      BY <1>0, <1>1, <2>1 DEF Causes, Peers
    <3> QED
      BY <1>1, <3>1 DEF Justified, CauseOf, objects
  <2>3. /\ pc["send"] \notin Deleting /\ cause \subseteq cause' /\ cause' \subseteq Obj
        /\ \A j \in doomed' : j \in doomed
    BY <1>0, <1>1 DEF Deleting, TypeOK
  <2> QED
    BY <1>1, <1>2, <2>1, <2>2, <2>3, EraseParts
<1>3. CASE UNCHANGED <<m_peers, pc, doing>>
  <2>1. /\ todo' \subseteq todo /\ commands' \subseteq commands /\ doomed' \subseteq doomed
        /\ UNCHANGED <<m_peers, heap, id, address, m_usage, flags, pc, held, doing, receiving, phase,
                       given, closing, history>>
    BY <1>1, <1>3 DEF objects, server, receiving, history
  <2> QED
    BY <2>1, SkipStep
<1> QED
  BY <1>2, <1>3 DEF DeletePeer

-----------------------------------------------------------------------------
(* The server's thread *)

LEMMA DisconnectPeerStep ==
  ASSUME IInv, NEW i \in Id, DisconnectPeer(i)
  PROVE  IInv'
<1>0. TypeOK /\ Stacks /\ Counts /\ Peers /\ Events /\ PacketInv /\ Causes
  BY DEF IInv
<1>1. /\ UNCHANGED <<m_peers, heap, id, address, m_usage, m_pending_deletion, m_pending_disconnect,
                     m_half_open, pc, held, doing, packet, outcome, phase, todo, doomed, closing, told>>
      /\ commands' = commands \cup {i} /\ given' = given + 1 /\ given < MaxCommands
      /\ cause' = cause \cup ({m_peers[i]} \ {None})
      /\ ~closing /\ \E o \in Obj : id[o] = i
  BY DEF DisconnectPeer, CauseOf, objects, flags, receiving, sending
<1>2. TypeOK'
  <2>1. given' \in 0 .. MaxCommands
    BY <1>0, <1>1, PeerAssumption DEF TypeOK
  <2>2. cause' \subseteq Obj /\ commands' \subseteq Id
    BY <1>0, <1>1 DEF TypeOK
  <2> QED
    BY <1>0, <1>1, <2>1, <2>2 DEF TypeOK
<1>3. Stacks' /\ Counts' /\ Peers' /\ Events'
  BY <1>0, <1>1, SameCounts DEF Stacks, Peers, Events, Dropped
<1>4. PacketInv'
  BY <1>0, <1>1 DEF PacketInv, NoPacket
<1>5. Causes'
  <2>1. \A o \in Obj : Justified(o) => Justified(o)'
    BY <1>1 DEF Justified, CauseOf
  <2>2. \A j \in doomed \cup commands : CauseOf(j)'
    BY <1>0, <1>1 DEF Causes, CauseOf
  <2>3. CauseOf(i)'
    <3>1. PICK o \in Obj : id[o] = i
      BY <1>1
    <3>2. heap[o] # "fresh"
      BY <1>0, <3>1, PeerAssumption DEF Peers
    <3>3. CASE m_peers[i] = o
      BY <1>1, <3>1, <3>3, PeerAssumption DEF CauseOf
    <3>4. CASE m_peers[i] # o
      BY <1>0, <1>1, <3>1, <3>2, <3>4 DEF Causes, Justified, CauseOf
    <3> QED
      BY <3>3, <3>4
  <2>4. \A o \in Obj : heap[o] # "fresh" /\ m_peers[id[o]] # o => Justified(o)'
    BY <1>0, <1>1, <2>1 DEF Causes
  <2>5. pc["send"] = "disconnect" => Justified(held["send"][1])'
    BY <1>0, <1>1 DEF Causes, Justified, CauseOf
  <2>6. \A u \in Thread : pc[u] \in {"tell", "drop"} => Justified(doing[u])'
    BY <1>0, <1>1 DEF Causes, Justified, CauseOf
  <2>7. \A o \in m_pending_disconnect : heap[o] # "fresh" /\ Justified(o)'
    BY <1>0, <2>1 DEF Causes, TypeOK
  <2>8. \A o \in Obj : told[o] = <<"added", "removed">> => Justified(o)'
    BY <1>0, <2>1 DEF Causes
  <2> QED
    BY <1>1, <2>2, <2>5, <2>6, <2>7, <2>8, <2>3, <2>4 DEF Causes
<1> QED
  BY <1>2, <1>3, <1>4, <1>5 DEF IInv

LEMMA CloseStep ==
  ASSUME IInv, Close
  PROVE  IInv'
<1>0. TypeOK /\ Stacks /\ Counts /\ Peers /\ Events /\ PacketInv /\ Causes
  BY DEF IInv
<1>1. /\ UNCHANGED <<m_peers, heap, id, address, m_usage, m_pending_deletion, m_pending_disconnect,
                     m_half_open, pc, held, doing, packet, outcome, phase, todo, doomed, commands,
                     given, told, cause>>
      /\ closing' = TRUE /\ pc["user"] = "rest"
  BY DEF Close, objects, flags, receiving, sending, history
<1>2. TypeOK'
  BY <1>0, <1>1 DEF TypeOK
<1>3. Stacks' /\ Counts'
  BY <1>0, <1>1, SameCounts DEF Stacks
<1>4. Peers' /\ Events' /\ PacketInv'
  BY <1>0, <1>1 DEF Peers, Events, Dropped, PacketInv, NoPacket
<1>5. Causes'
  BY <1>0, <1>1 DEF Causes, Justified, CauseOf
<1> QED
  BY <1>2, <1>3, <1>4, <1>5 DEF IInv

\* No thread holds a peer or deletes one.
LEMMA DeletePeersStep ==
  ASSUME IInv, DeletePeers
  PROVE  IInv'
<1>0. TypeOK /\ Stacks /\ Counts /\ Peers /\ Events /\ PacketInv /\ Causes
  BY DEF IInv
<1>1. /\ UNCHANGED <<id, address, m_usage, m_pending_deletion, m_pending_disconnect,
                     m_half_open, pc, held, doing, packet, outcome, phase, todo, doomed, commands,
                     given, closing, told, cause>>
      /\ heap' = [o \in Obj |-> IF o \in InTable THEN "deleted" ELSE heap[o]]
      /\ m_peers' = [i \in Id |-> None]
      /\ packet = NoPacket /\ closing
      /\ \A t \in Thread : pc[t] = "rest"
  BY <1>0 DEF DeletePeers, flags, receiving, sending, server, history, Stacks, Thread
<1>2. \A t \in Thread : held[t] = <<>> /\ doing[t] = None
  BY <1>0, <1>1 DEF Stacks, Deleting
<1>3. \A o \in Obj : m_usage[o] = 0
  <2>1. \A t \in Thread, o \in Obj : Uses(t, o) = 0
    BY <1>2 DEF Uses
  <2> QED
    BY <1>0, <2>1 DEF Counts, Thread
<1>4. \A o \in Obj : heap[o] = "alive" => o \in InTable
  <2> SUFFICES ASSUME NEW o \in Obj, heap[o] = "alive"
               PROVE  o \in InTable
    OBVIOUS
  <2>1. o # None
    BY PeerAssumption
  <2> QED
    BY <1>0, <1>2, <1>3, <2>1 DEF Peers, Dropped, InTable
<1>5. \A o \in Obj : /\ heap'[o] # "alive"
                     /\ heap'[o] = "fresh" <=> heap[o] = "fresh"
  <2>1. \A o \in InTable : heap[o] = "alive"
    BY <1>0 DEF Peers, InTable
  <2> QED
    BY <1>0, <1>1, <1>4, <2>1 DEF TypeOK
<1>6. TypeOK'
  BY <1>0, <1>1 DEF TypeOK
<1>7. Stacks' /\ Counts'
  BY <1>0, <1>1, SameCounts DEF Stacks
<1>8. Peers'
  BY <1>0, <1>1, <1>2, <1>3, <1>5 DEF Peers, Dropped
<1>9. Events'
  BY <1>0, <1>1, <1>5 DEF Events
<1>10. PacketInv'
  BY <1>0, <1>1, <1>2 DEF PacketInv, NoPacket, Thread
<1>11. Causes'
  <2>1. \A j \in doomed \cup commands : CauseOf(j)
    BY <1>0, <1>1 DEF Causes, TypeOK
  <2>2. \A o \in m_pending_disconnect : heap'[o] # "fresh" /\ Justified(o)
    BY <1>0, <1>5 DEF Causes, TypeOK
  <2>3. \A t \in Thread : pc[t] = "rest"
    BY <1>1
  <2> QED
    BY <1>0, <1>1, <2>1, <2>2, <2>3 DEF Causes, Justified, CauseOf, Thread
<1> QED
  BY <1>6, <1>7, <1>8, <1>9, <1>10, <1>11 DEF IInv

-----------------------------------------------------------------------------

LEMMA Inductive == IInv /\ [Next]_vars => IInv'
<1> SUFFICES ASSUME IInv, [Next]_vars
             PROVE  IInv'
  OBVIOUS
<1>1. CASE Receive
  BY <1>1, FindStep, CheckStep, ProcessPacketStep, HandleStep, TellDataStep, EndReceiveStep DEF Receive
<1>2. CASE Arrival
  <2>1. CASE \E a \in Addr : CreatePeer(a)
    BY <2>1, CreatePeerStep
  <2>2. CASE \E a \in Addr : Lookup(a)
    <3>1. PICK a \in Addr : Lookup(a)
      BY <2>2
    <3>2. PICK i \in Known(a) : TRUE
      BY <3>1 DEF Lookup
    <3>3. i \in Id
      BY <3>2 DEF Known
    <3> QED
      BY <3>1, <3>3, ArrivalStep
  <2>3. CASE \E a \in Addr, i \in Id : Datagram(a, i)
    BY <2>3, ArrivalStep
  <2>4. CASE \E i \in Id : Unbuffer(i)
    BY <2>4, UnbufferStep
  <2> QED
    BY <1>2, <2>1, <2>2, <2>3, <2>4 DEF Arrival
<1>3. CASE Send
  BY <1>3, NextPhaseStep, SendPeerStep, VisitStep, DeletePeerStep, RunCommandStep DEF Send
<1>4. CASE \E t \in Thread : Use(t)
  BY <1>4, ReleaseStep, FreeStep, TellStep, DropStep DEF Use
<1>5. CASE \E i \in Id : DisconnectPeer(i) \/ GetPeerAddress(i)
  BY <1>5, DisconnectPeerStep, GetPeerAddressStep
<1>6. CASE Close \/ DeletePeers
  BY <1>6, CloseStep, DeletePeersStep
<1>7. CASE UNCHANGED vars
  <2>1. /\ todo' \subseteq todo /\ commands' \subseteq commands /\ doomed' \subseteq doomed
        /\ UNCHANGED <<m_peers, heap, id, address, m_usage, flags, pc, held, doing, receiving, phase,
                       given, closing, history>>
    BY <1>7 DEF vars, objects, sending, server
  <2> QED
    BY <2>1, SkipStep
<1> QED
  BY <1>1, <1>2, <1>3, <1>4, <1>5, <1>6, <1>7 DEF Next

LEMMA Invariant == Spec => []IInv
  BY InitIInv, Inductive, PTL DEF Spec

\* Every variable stays in its range, for any number of peers, ids and addresses.
THEOREM TypeCorrect == Spec => []TypeOK
<1>1. IInv => TypeOK
  BY DEF IInv
<1> QED
  BY <1>1, Invariant, PTL

LEMMA UsedIsInUse ==
  ASSUME IInv
  PROVE  AliveWhileUsed
<1>0. TypeOK /\ Stacks /\ Counts /\ Peers
  BY DEF IInv
<1>1. ASSUME NEW t \in Thread, NEW o
      PROVE  o \in HeldBy(t) <=> o \in Obj /\ Uses(t, o) > 0
  <2>1. held[t] \in Seq(Obj) /\ Same(held[t])
    BY <1>0, <1>1 DEF TypeOK, Stacks
  <2>2. o \in HeldBy(t) <=> held[t] # <<>> /\ held[t][1] = o
    <3>1. CASE held[t] = <<>>
      BY <2>1, <3>1 DEF HeldBy
    <3>2. CASE held[t] # <<>>
      <4>1. 1 \in DOMAIN held[t] /\ \A n \in DOMAIN held[t] : held[t][n] = held[t][1]
        BY <2>1, <3>2 DEF Same
      <4> QED
        BY <3>2, <4>1 DEF HeldBy
    <3> QED
      BY <3>1, <3>2
  <2>3. held[t] # <<>> => held[t][1] \in Obj
    BY <2>1
  <2> QED
    BY <1>0, <1>1, <2>2, <2>3, UsesNat
<1>2. \A o \in Obj : (\E t \in Thread : o \in HeldBy(t)) <=> m_usage[o] > 0
  <2> SUFFICES ASSUME NEW o \in Obj
               PROVE  (\E t \in Thread : o \in HeldBy(t)) <=> m_usage[o] > 0
    OBVIOUS
  <2>1. \A t \in Thread : Uses(t, o) \in Nat
    BY <1>0, UsesNat
  <2>2. m_usage[o] = Uses("receive", o) + Uses("send", o) + Uses("user", o)
    BY <1>0 DEF Counts
  <2>3. m_usage[o] > 0 <=> \E t \in Thread : Uses(t, o) > 0
    BY <2>1, <2>2 DEF Thread
  <2> QED
    BY <1>1, <2>3
<1>3. \A o : o \in InUse <=>
        \/ \E i \in Id : m_peers[i] = o /\ o # None
        \/ \E t \in Thread : o \in HeldBy(t) \/ (doing[t] = o /\ o # None)
  BY DEF InUse, InTable
<1>4. ASSUME NEW o \in InUse
      PROVE  o \in Obj /\ heap[o] = "alive"
  <2>1. CASE \E i \in Id : m_peers[i] = o /\ o # None
    BY <1>0, <2>1 DEF TypeOK, Peers
  <2>2. CASE \E t \in Thread : o \in HeldBy(t)
    BY <1>0, <1>1, <1>2, <2>2 DEF Peers
  <2>3. CASE \E t \in Thread : doing[t] = o /\ o # None
    BY <1>0, <2>3 DEF TypeOK, Peers
  <2> QED
    BY <1>3, <1>4, <2>1, <2>2, <2>3
<1>5. ASSUME NEW o \in Obj, heap[o] = "alive"
      PROVE  o \in InUse
  <2>1. o # None
    BY PeerAssumption
  <2> QED
    BY <1>0, <1>2, <1>3, <1>5, <2>1 DEF Peers, Dropped
<1> QED
  BY <1>4, <1>5 DEF AliveWhileUsed

\* A peer is deleted by the last thread that lets go of it, whichever of the three it is.
THEOREM PeersLiveWhileUsed == Spec => []AliveWhileUsed
  BY Invariant, UsedIsInUse, PTL

LEMMA RemovedWithCause ==
  ASSUME IInv
  PROVE  RemovedForCause
<1>0. Events /\ Causes
  BY DEF IInv
<1> SUFFICES ASSUME NEW o \in Obj, "removed" \in {told[o][n] : n \in DOMAIN told[o]}
             PROVE  Justified(o)
  BY DEF RemovedForCause, Justified, CauseOf
<1>1. told[o] # <<>>
  OBVIOUS
<1>2. told[o] # <<"added">>
  <2>1. {<<"added">>[n] : n \in DOMAIN <<"added">>} = {"added"}
    OBVIOUS
  <2> QED
    BY <2>1
<1> QED
  BY <1>0, <1>1, <1>2 DEF Events, Causes

\* A peer that the server is told went was removed for what it did, or for what one did that
\* had its id before.
THEOREM PeersGoForCause == Spec => []RemovedForCause
  BY Invariant, RemovedWithCause, PTL

-----------------------------------------------------------------------------
(* The server's clients: the client of an id that was not given too early is the peer in the
   table, or the peer of the one thread about to tell that it went. *)

View ==
  /\ m_clients \in [Id -> Obj \cup {None}] /\ reused \subseteq Id
  /\ \A i \in Id \ reused :
       \/ Telling(i) = {} /\ (m_clients[i] = m_peers[i] \/ (closing /\ m_peers[i] = None))
       \/ \E t \in Thread : Telling(i) = {t} /\ doing[t] = m_clients[i] /\ m_peers[i] = None
  /\ packet.peer # None /\ packet.id \notin reused => m_clients[packet.id] \in {packet.peer, None}

\* What is put last tells the two events apart.
LEMMA PutOne ==
  ASSUME NEW s \in Seq({"added", "removed"}), NEW e \in {"added", "removed"}
  PROVE  /\ Append(s, e) # s
         /\ Append(s, "added") # Append(s, "removed")
<1>1. Len(Append(s, e)) = Len(s) + 1 /\ Len(s) \in Nat
  OBVIOUS
<1>2. Append(s, "added")[Len(s) + 1] = "added" /\ Append(s, "removed")[Len(s) + 1] = "removed"
  OBVIOUS
<1> QED
  BY <1>1, <1>2

LEMMA Unheard ==
  ASSUME TypeOK, told' = told, Listen
  PROVE  UNCHANGED <<m_clients, reused>>
<1>1. \A o \in Obj : told'[o] = told[o] /\ told[o] \in Seq({"added", "removed"})
  BY DEF TypeOK
<1>2. \A o \in Obj : ~PeerAdded(o) /\ ~DeletingPeer(o)
  BY <1>1, PutOne DEF PeerAdded, DeletingPeer
<1> QED
  BY <1>2 DEF Listen

LEMMA Heard ==
  ASSUME TypeOK, NEW o \in Obj, NEW e \in {"added", "removed"}, Listen,
         told' = [told EXCEPT ![o] = Append(@, e)]
  PROVE  IF e = "added" THEN PeerAdded(o) ELSE DeletingPeer(o)
<1>1. \A p \in Obj : told[p] \in Seq({"added", "removed"})
  BY DEF TypeOK
<1>2. told'[o] = Append(told[o], e) /\ \A p \in Obj \ {o} : told'[p] = told[p]
  BY DEF TypeOK
<1>3. told' # told
  BY <1>1, <1>2, PutOne
<1>4. \A p \in Obj \ {o} : ~PeerAdded(p) /\ ~DeletingPeer(p)
  BY <1>1, <1>2, PutOne DEF PeerAdded, DeletingPeer
<1>5. PeerAdded(o) \/ DeletingPeer(o)
  BY <1>3, <1>4 DEF Listen
<1>6. e = "added" => ~DeletingPeer(o)
  BY <1>1, <1>2, PutOne DEF DeletingPeer
<1>7. e = "removed" => ~PeerAdded(o)
  BY <1>1, <1>2, PutOne DEF PeerAdded
<1> QED
  BY <1>5, <1>6, <1>7

\* A step after which the table, and who is about to tell what, are as before.
LEMMA SameView ==
  ASSUME TypeOK, View, Listen, NEW t \in Thread, pc[t] # "tell", pc'[t] # "tell",
         \A u \in Thread \ {t} : pc'[u] = pc[u] /\ doing'[u] = doing[u],
         UNCHANGED <<m_peers, id, told>>, closing => closing',
         packet'.peer # None => packet'.peer = packet.peer /\ packet'.id = packet.id
  PROVE  View'
<1>1. UNCHANGED <<m_clients, reused>>
  BY Unheard
<1>2. \A i \in Id : Telling(i)' = Telling(i) /\ \A u \in Telling(i) : u \in Thread \ {t}
  BY DEF Telling
<1>3. \A i \in Id \ reused :
        \/ Telling(i)' = {} /\ (m_clients[i] = m_peers[i] \/ (closing' /\ m_peers[i] = None))
        \/ \E u \in Thread : Telling(i)' = {u} /\ doing'[u] = m_clients[i] /\ m_peers[i] = None
  BY <1>2 DEF View
<1> QED
  BY <1>1, <1>3 DEF View

\* A peer taken out of the table leaves its id to the thread that tells it.
LEMMA EraseView ==
  ASSUME IInv, View, Listen, NEW t \in Thread, NEW i \in Id, Erase(t, i), pc[t] \notin Deleting,
         UNCHANGED <<id, told, closing, packet>>
  PROVE  View'
<1>0. TypeOK /\ Peers
  BY DEF IInv
<1>1. UNCHANGED <<m_clients, reused>>
  BY <1>0, Unheard
<1>2. pc[t] # "tell"
  BY DEF Deleting
<1>3. CASE m_peers[i] = None
  <2>1. UNCHANGED <<m_peers, doing>> /\ Goto(t, Back(Len(held[t])))
    BY <1>3 DEF Erase
  <2>2. Back(Len(held[t])) # "tell"
    BY DEF Back
  <2>3. pc'[t] # "tell" /\ \A u \in Thread \ {t} : pc'[u] = pc[u]
    BY <1>0, <2>1, <2>2 DEF Goto, TypeOK
  <2> QED
    BY <1>0, <1>2, <2>1, <2>3, SameView
<1>4. CASE m_peers[i] # None
  <2>1. PICK x \in Obj : x = m_peers[i]
    BY <1>0, <1>4 DEF TypeOK
  <2>2. id[x] = i
    BY <1>0, <1>4, <2>1 DEF Peers
  <2>3. /\ doing'[t] = x /\ pc'[t] = "tell"
        /\ \A u \in Thread \ {t} : doing'[u] = doing[u] /\ pc'[u] = pc[u]
        /\ m_peers'[i] = None /\ \A j \in Id \ {i} : m_peers'[j] = m_peers[j]
    BY <1>0, <1>4, <2>1 DEF Erase, Goto, TypeOK
  <2>4. \A j \in Id : Telling(j)' = IF j = i THEN Telling(i) \cup {t} ELSE Telling(j)
    BY <1>2, <2>2, <2>3 DEF Telling
  <2>5. i \notin reused => Telling(i) = {} /\ m_clients[i] = x
    BY <1>4, <2>1 DEF View
  <2>6. ASSUME NEW j \in Id \ reused
        PROVE  \/ Telling(j)' = {} /\ (m_clients[j] = m_peers'[j] \/ (closing /\ m_peers'[j] = None))
               \/ \E u \in Thread : Telling(j)' = {u} /\ doing'[u] = m_clients[j] /\ m_peers'[j] = None
    <3>1. CASE j = i
      BY <2>3, <2>4, <2>5, <3>1
    <3>2. CASE j # i
      <4>1. \A u \in Telling(j) : u # t
        BY <1>2 DEF Telling
      <4> QED
        BY <2>3, <2>4, <3>2, <4>1 DEF View
    <3> QED
      BY <3>1, <3>2
  <2> QED
    BY <1>1, <2>6 DEF View
<1> QED
  BY <1>3, <1>4

LEMMA TellView ==
  ASSUME IInv, View, Listen, NEW t \in Thread, Tell(t)
  PROVE  View'
<1>0. TypeOK /\ Stacks /\ Peers
  BY DEF IInv
<1>1. PICK o \in Obj : o = doing[t]
  BY <1>0 DEF Tell, TypeOK, Stacks, Deleting
<1>2. /\ pc[t] = "tell" /\ pc'[t] = "drop" /\ \A u \in Thread \ {t} : pc'[u] = pc[u]
      /\ told' = [told EXCEPT ![o] = Append(@, "removed")]
      /\ UNCHANGED <<m_peers, id, doing, packet, closing>>
  BY <1>0, <1>1 DEF Tell, Goto, TypeOK, objects, receiving, server
<1>3. DeletingPeer(o)
  BY <1>0, <1>2, Heard
<1>4. m_clients' = [m_clients EXCEPT ![id[o]] = None] /\ reused' = reused
  BY <1>3 DEF DeletingPeer
<1>5. \A i \in Id : Telling(i)' = Telling(i) \ {t} /\ (i # id[o] => t \notin Telling(i))
  BY <1>1, <1>2 DEF Telling
<1>6. ASSUME NEW i \in Id \ reused
      PROVE  \/ Telling(i)' = {} /\ (m_clients'[i] = m_peers[i] \/ (closing /\ m_peers[i] = None))
             \/ \E u \in Thread : Telling(i)' = {u} /\ doing[u] = m_clients'[i] /\ m_peers[i] = None
  <2>1. CASE i = id[o]
    <3>1. t \in Telling(i) /\ m_clients'[i] = None
      BY <1>1, <1>2, <1>4, <2>1 DEF Telling, View
    <3>2. Telling(i) = {t} /\ m_peers[i] = None
      BY <3>1 DEF View
    <3> QED
      BY <1>5, <3>1, <3>2
  <2>2. CASE i # id[o]
    <3>1. m_clients'[i] = m_clients[i] /\ Telling(i)' = Telling(i)
      BY <1>4, <1>5, <2>2 DEF View
    <3> QED
      BY <3>1 DEF View
  <2> QED
    BY <2>1, <2>2
<1>7. m_clients' \in [Id -> Obj \cup {None}] /\ \A i \in Id : m_clients'[i] \in {m_clients[i], None}
  BY <1>4 DEF View
<1>8. packet.peer # None => packet.id \in Id
  BY DEF IInv, PacketInv
<1> QED
  BY <1>2, <1>4, <1>6, <1>7, <1>8 DEF View

\* The client of the newcomer is new, or its id is given too early.
LEMMA CreatePeerView ==
  ASSUME IInv, View, Listen, NEW a \in Addr, CreatePeer(a)
  PROVE  View'
<1>0. TypeOK /\ Stacks /\ Peers
  BY DEF IInv
<1>1. PICK i \in Id, o \in Obj :
        /\ m_peers[i] = None /\ heap[o] = "fresh"
        /\ m_peers' = [m_peers EXCEPT ![i] = o] /\ id' = [id EXCEPT ![o] = i]
        /\ told' = [told EXCEPT ![o] = Append(@, "added")]
        /\ Take([NoPacket EXCEPT !.id = i, !.from = a])
  BY DEF CreatePeer
<1>2. /\ ~closing /\ closing' = closing /\ doing' = doing
      /\ pc["receive"] = "rest" /\ pc'["receive"] = "find"
      /\ \A u \in Thread \ {"receive"} : pc'[u] = pc[u]
  BY <1>0, <1>1 DEF CreatePeer, AtRest, Take, Goto, TypeOK, server, Thread
<1>3. packet'.peer = None
  BY <1>1 DEF Take, NoPacket
<1>4. PeerAdded(o)
  BY <1>0, <1>1, Heard
<1>5. id'[o] = i /\ \A p \in Obj \ {o} : id'[p] = id[p]
  BY <1>0, <1>1 DEF TypeOK
<1>6. \A u \in Thread : pc[u] = "tell" => doing[u] \in Obj \ {o}
  BY <1>0, <1>1 DEF Stacks, Deleting, Peers, TypeOK
<1>7. \A j \in Id : Telling(j)' = Telling(j)
  BY <1>2, <1>5, <1>6 DEF Telling
<1>8. /\ m_clients' = IF m_clients[i] = None THEN [m_clients EXCEPT ![i] = o] ELSE m_clients
      /\ reused' = IF Telling(i) = {} THEN reused ELSE reused \cup {i}
  BY <1>4, <1>5 DEF PeerAdded
<1>9. m_clients' \in [Id -> Obj \cup {None}] /\ reused' \subseteq Id
  BY <1>8 DEF View
<1>10. ASSUME NEW j \in Id \ reused'
       PROVE  \/ Telling(j) = {} /\ (m_clients'[j] = m_peers'[j] \/ (closing /\ m_peers'[j] = None))
              \/ \E u \in Thread : Telling(j) = {u} /\ doing[u] = m_clients'[j] /\ m_peers'[j] = None
  <2>1. j \in Id \ reused
    BY <1>8
  <2>2. CASE j = i
    <3>1. Telling(i) = {}
      BY <1>8, <2>2
    <3>2. m_clients[i] = None
      BY <1>1, <1>2, <2>1, <2>2, <3>1 DEF View
    <3>3. m_clients'[i] = o /\ m_peers'[i] = o
      BY <1>0, <1>1, <1>8, <3>2 DEF View, TypeOK
    <3> QED
      BY <2>2, <3>1, <3>3
  <2>3. CASE j # i
    <3>1. m_clients'[j] = m_clients[j] /\ m_peers'[j] = m_peers[j]
      BY <1>0, <1>1, <1>8, <2>3 DEF View, TypeOK
    <3> QED
      BY <2>1, <3>1 DEF View
  <2> QED
    BY <2>2, <2>3
<1> QED
  BY <1>2, <1>3, <1>7, <1>9, <1>10 DEF View

\* The packet's peer is the client of its id.
LEMMA FindView ==
  ASSUME IInv, View, Listen, Find
  PROVE  View'
<1>0. TypeOK /\ PacketInv
  BY DEF IInv
<1>1. /\ pc["receive"] = "find" /\ pc'["receive"] # "tell"
      /\ \A u \in Thread \ {"receive"} : pc'[u] = pc[u]
      /\ UNCHANGED <<m_peers, id, told, doing, closing>>
  BY <1>0 DEF Find, Goto, TypeOK, server, history, objects, Thread
<1>2. UNCHANGED <<m_clients, reused>>
  BY <1>0, <1>1, Unheard
<1>3. \A i \in Id : Telling(i)' = Telling(i)
  BY <1>1 DEF Telling
<1>4. packet'.peer # None =>
        packet'.id \in Id /\ m_peers[packet'.id] = packet'.peer
  BY <1>0, <1>1 DEF Find, PacketInv, NoPacket, TypeOK, Packet, Acquire
<1>5. packet'.peer # None /\ packet'.id \notin reused => m_clients[packet'.id] = packet'.peer
  BY <1>4 DEF View
<1> QED
  BY <1>1, <1>2, <1>3, <1>5 DEF View

LEMMA DeletePeersView ==
  ASSUME IInv, View, Listen, DeletePeers
  PROVE  View'
<1>0. TypeOK /\ Stacks
  BY DEF IInv
<1>1. /\ closing /\ closing' /\ packet' = NoPacket
      /\ \A t \in Thread : pc'[t] = "rest"
      /\ \A i \in Id : m_peers'[i] = None
      /\ told' = told
  BY <1>0 DEF DeletePeers, Stacks, Thread, server, receiving, history
<1>2. UNCHANGED <<m_clients, reused>>
  BY <1>0, <1>1, Unheard
<1>3. \A i \in Id : Telling(i)' = {}
  BY <1>1 DEF Telling
<1>4. packet'.peer = None
  BY <1>1 DEF NoPacket
<1> QED
  BY <1>1, <1>2, <1>3, <1>4 DEF View

LEMMA ReceiveView ==
  ASSUME IInv, View, Listen, Receive
  PROVE  View'
<1>0. TypeOK
  BY DEF IInv
<1>1. CASE Check
  <2>1. /\ pc["receive"] # "tell" /\ pc'["receive"] # "tell" /\ packet' = packet
        /\ \A u \in Thread \ {"receive"} : pc'[u] = pc[u] /\ doing'[u] = doing[u]
        /\ UNCHANGED <<m_peers, id, told, closing>>
    BY <1>0, <1>1 DEF Check, Goto, TypeOK, objects, receiving, server, history
  <2> QED
    BY <1>0, <2>1, SameView DEF Thread
<1>2. CASE ProcessPacket
  <2>1. /\ pc["receive"] # "tell" /\ pc'["receive"] # "tell" /\ packet' = packet
        /\ \A u \in Thread \ {"receive"} : pc'[u] = pc[u] /\ doing'[u] = doing[u]
        /\ UNCHANGED <<m_peers, id, told, closing>>
    BY <1>0, <1>2 DEF ProcessPacket, Goto, TypeOK, receiving, server, history
  <2> QED
    BY <1>0, <2>1, SameView DEF Thread
<1>3. CASE Handle
  <2>1. pc["receive"] = "handle" /\ UNCHANGED <<id, told, closing, packet>>
    BY <1>3 DEF Handle, objects, server
  <2>2. CASE Erase("receive", id[Last(held["receive"])])
    <3>1. held["receive"] # <<>> /\ Same(held["receive"]) /\ held["receive"] \in Seq(Obj)
      BY <1>0, <2>1 DEF IInv, Stacks, TypeOK, Thread
    <3>2. Last(held["receive"]) = held["receive"][1]
      BY <3>1, Pop
    <3>3. id[Last(held["receive"])] \in Id
      BY <3>1, <3>2, PeerAssumption DEF IInv, PacketInv
    <3> QED
      BY <2>1, <2>2, <3>3, EraseView DEF Deleting, Thread
  <2>3. CASE UNCHANGED <<m_peers, doing>> /\ (Goto("receive", "release") \/ Goto("receive", "process"))
    <3>1. pc'["receive"] # "tell" /\ \A u \in Thread \ {"receive"} : pc'[u] = pc[u]
      BY <1>0, <2>3 DEF Goto, TypeOK, Thread
    <3> QED
      BY <1>0, <2>1, <2>3, <3>1, SameView DEF Thread
  <2> QED
    BY <1>3, <2>2, <2>3 DEF Handle
<1>4. CASE TellData \/ EndReceive
  <2>1. /\ pc["receive"] # "tell" /\ UNCHANGED <<pc, doing, m_peers, id, told, closing>>
        /\ packet' = packet \/ packet' = NoPacket
    BY <1>4 DEF TellData, EndReceive, objects, server, history
  <2>2. packet'.peer # None => packet' = packet
    BY <2>1 DEF NoPacket
  <2> QED
    BY <1>0, <2>1, <2>2, SameView DEF Thread
<1> QED
  BY <1>1, <1>2, <1>3, <1>4, FindView DEF Receive

LEMMA ArrivalView ==
  ASSUME IInv, View, Listen, Arrival
  PROVE  View'
<1>0. TypeOK
  BY DEF IInv
<1>1. CASE \E a \in Addr : CreatePeer(a)
  BY <1>1, CreatePeerView
<1>2. CASE (\E a \in Addr : Lookup(a) \/ \E i \in Id : Datagram(a, i)) \/ \E i \in Id : Unbuffer(i)
  <2>1. /\ pc["receive"] = "rest" /\ UNCHANGED <<doing, m_peers, id, told, closing>>
        /\ packet'.peer = None /\ Goto("receive", "find")
    BY <1>2 DEF Lookup, Datagram, Unbuffer, AtRest, Take, NoPacket, objects, server, history
  <2>2. pc'["receive"] # "tell" /\ \A u \in Thread \ {"receive"} : pc'[u] = pc[u]
    BY <1>0, <2>1 DEF Goto, TypeOK
  <2> QED
    BY <1>0, <2>1, <2>2, SameView DEF Thread
<1> QED
  BY <1>1, <1>2 DEF Arrival

LEMMA SendView ==
  ASSUME IInv, View, Listen, Send
  PROVE  View'
<1>0. TypeOK
  BY DEF IInv
<1>1. CASE NextPhase \/ CheckTimeout \/ CollectDisconnect \/ MarkDisconnect
           \/ \E i \in Id : Visit(i) \/ RunCommand(i)
  <2>1. /\ pc["send"] # "tell" /\ UNCHANGED <<packet, doing, m_peers, id, told, closing>>
        /\ pc' = pc \/ \E place \in {"release", "disconnect", phase} : Goto("send", place)
    BY <1>1 DEF NextPhase, CheckTimeout, CollectDisconnect, MarkDisconnect, Visit, RunCommand, Idle,
                objects, receiving, server, history
  <2>2. phase # "tell"
    BY <1>0 DEF TypeOK
  <2>3. pc'["send"] # "tell" /\ \A u \in Thread \ {"send"} : pc'[u] = pc[u]
    BY <1>0, <2>1, <2>2 DEF Goto, TypeOK
  <2> QED
    BY <1>0, <2>1, <2>3, SameView DEF Thread
<1>2. ASSUME NEW i \in Id, DeletePeer(i)
      PROVE  View'
  <2>1. pc["send"] = "rest" /\ UNCHANGED <<id, told, closing, packet>>
    BY <1>2 DEF DeletePeer, Idle, objects, receiving, server, history
  <2>2. CASE Erase("send", i)
    BY <2>1, <2>2, EraseView DEF Deleting, Thread
  <2>3. CASE UNCHANGED <<m_peers, pc, doing>>
    BY <1>0, <2>1, <2>3, SameView DEF Thread
  <2> QED
    BY <1>2, <2>2, <2>3 DEF DeletePeer
<1> QED
  BY <1>1, <1>2 DEF Send

LEMMA UseView ==
  ASSUME IInv, View, Listen, NEW t \in Thread, Use(t)
  PROVE  View'
<1>0. TypeOK
  BY DEF IInv
<1>1. CASE Release(t) \/ Free(t) \/ Drop(t)
  <2>1. /\ pc[t] # "tell" /\ UNCHANGED <<packet, m_peers, id, told, closing>>
        /\ \A u \in Thread \ {t} : doing'[u] = doing[u]
        /\ \E place \in {"free", "release", "rest"} : Goto(t, place)
    BY <1>0, <1>1 DEF Release, Free, Drop, Back, TypeOK, objects, receiving, server, history
  <2>2. pc'[t] # "tell" /\ \A u \in Thread \ {t} : pc'[u] = pc[u]
    BY <1>0, <2>1 DEF Goto, TypeOK
  <2> QED
    BY <1>0, <2>1, <2>2, SameView
<1> QED
  BY <1>1, TellView DEF Use

LEMMA UserView ==
  ASSUME IInv, View, Listen, Close \/ \E i \in Id : DisconnectPeer(i) \/ GetPeerAddress(i)
  PROVE  View'
<1>0. TypeOK
  BY DEF IInv
<1>1. /\ pc["user"] = "rest" /\ UNCHANGED <<packet, doing, m_peers, id, told>>
      /\ pc' = pc \/ Goto("user", "release")
      /\ closing => closing'
  BY DEF Close, DisconnectPeer, GetPeerAddress, objects, receiving, server, history
<1>2. pc'["user"] # "tell" /\ \A u \in Thread \ {"user"} : pc'[u] = pc[u]
  BY <1>0, <1>1 DEF Goto, TypeOK
<1> QED
  BY <1>0, <1>1, <1>2, SameView DEF Thread

LEMMA InitView == ServerInit => View
<1> SUFFICES ASSUME ServerInit
             PROVE  View
  OBVIOUS
<1>1. \A i \in Id : Telling(i) = {} /\ m_clients[i] = m_peers[i]
  BY DEF ServerInit, Init, Telling
<1> QED
  BY <1>1 DEF ServerInit, Init, View, NoPacket

LEMMA ViewInductive == IInv /\ View /\ [Next /\ Listen]_serverVars => View'
<1> SUFFICES ASSUME IInv, View, [Next /\ Listen]_serverVars
             PROVE  View'
  OBVIOUS
<1>1. CASE Next /\ Listen
  BY <1>1, ReceiveView, ArrivalView, SendView, UseView, UserView, DeletePeersView DEF Next
<1>2. CASE UNCHANGED serverVars
  BY <1>2 DEF serverVars, vars, objects, receiving, server, View, Telling
<1> QED
  BY <1>1, <1>2

LEMMA ServerInvariant == ServerSpec => [](IInv /\ View)
<1>1. ServerInit => IInv /\ View
  BY InitIInv, InitView DEF ServerInit
<1>2. IInv /\ View /\ [Next /\ Listen]_serverVars => (IInv /\ View)'
  <2>1. [Next /\ Listen]_serverVars => [Next]_vars
    BY DEF serverVars
  <2> QED
    BY <2>1, Inductive, ViewInductive
<1> QED
  BY <1>1, <1>2, PTL DEF ServerSpec

\* The clients are those of the peers in the table and of the peers whose removal is about to be
\* told, unless an id was given again between the removal and its event.
THEOREM ClientsAreThePeers == ServerSpec => []ClientsFollowPeers
<1>1. IInv /\ View => ClientsFollowPeers
  BY DEF View, ClientsFollowPeers
<1> QED
  BY <1>1, ServerInvariant, PTL

\* Data are handed to the client of the peer they came from, or to none.
THEOREM DataGoToTheirClient == ServerSpec => []DataOfItsClient
<1>1. IInv /\ View => DataOfItsClient
  BY DEF IInv, PacketInv, View, DataOfItsClient
<1> QED
  BY <1>1, ServerInvariant, PTL

=============================================================================
