----------------------------- MODULE MtpChannel -----------------------------
(***************************************************************************)
(* One reliable channel of the engine's network layer in one direction:    *)
(* the send thread of one end, the network, the receive thread of the      *)
(* other (src/engine/luanti/src/network/mtp). The network loses, repeats,  *)
(* delays and reorders datagrams and acknowledgements.                     *)
(*                                                                         *)
(* Commands are numbered 1, 2, ... as the send thread takes them from the  *)
(* connection's queue; a command is split into chunks, a chunk travels in  *)
(* a packet. The content of a packet is its place in stream, the chunks in *)
(* the order in which they were given sequence numbers.                    *)
(***************************************************************************)
EXTENDS PacketBuffer

CONSTANTS
  SEQNUM_INITIAL,      \* 65500: the numbers wrap soon after the connection opens
  MIN_WINDOW,          \* MIN_RELIABLE_WINDOW_SIZE: 32
  START_WINDOW,        \* START_RELIABLE_WINDOW_SIZE: 64
  MAX_WINDOW,          \* MAX_RELIABLE_WINDOW_SIZE_SEND: 2048
  WINDOW_STEP,         \* 100: what UpdateTimers adds to a window or takes from it
  MAX_REQUEUED,        \* m_max_packets_requeued: 256
  MaxChunks,           \* chunks of the longest message
  Lifetime,            \* how many packets may be numbered while a datagram is under way
  MaxCommands,         \* bound: commands ever sent
  Lossy                \* the network forgets datagrams, or only delays them for ever

\* Packets numbered beyond the oldest that is not acknowledged.
Span == LET a == MAX_WINDOW + 2
            b == MAX_REQUEUED + MaxChunks
            c == MAX_WINDOW \div 2 + MaxChunks
        IN  IF a >= b /\ a >= c THEN a ELSE IF b >= c THEN b ELSE c

ASSUME ChannelAssumption ==
  /\ SEQNUM_INITIAL \in Seqnums
  /\ {MIN_WINDOW, START_WINDOW, MAX_WINDOW, WINDOW_STEP} \subseteq Nat \ {0}
  /\ MIN_WINDOW <= START_WINDOW /\ START_WINDOW <= MAX_WINDOW
  /\ {MAX_REQUEUED, MaxChunks} \subseteq Nat \ {0}
  /\ Lifetime \in Nat /\ MaxCommands \in Nat
  /\ Span <= MAX_RELIABLE_WINDOW_SIZE
  /\ Lifetime < MAX_RELIABLE_WINDOW_SIZE
  /\ Lossy \in BOOLEAN

VARIABLES
  taken,                    \* commands taken so far
  queued_commands,          \* commands not yet split: [id, chunks]
  queued_reliables,         \* packets numbered and not sent: [seq, num]
  outgoing_reliables_sent,  \* packets sent and not acknowledged
  next_outgoing_seqnum,
  m_window_size,
  stream,                   \* the chunks numbered so far: [id, chunk, chunks]
  wire, acks,               \* datagrams and acknowledgements under way
  next_incoming_seqnum,
  incoming_reliables,       \* packets that came too early
  handed,                   \* history: the packets taken in order
  incoming_splits,          \* chunks of unfinished messages: <<id, chunk>>
  delivered                 \* the messages given to the user

queues == <<taken, queued_commands, queued_reliables, next_outgoing_seqnum, stream>>
sender == <<queues, outgoing_reliables_sent, m_window_size>>
receiver == <<next_incoming_seqnum, incoming_reliables, handed, incoming_splits, delivered>>
vars == <<sender, wire, acks, receiver>>

Init ==
  /\ taken = 0 /\ queued_commands = <<>> /\ queued_reliables = <<>>
  /\ outgoing_reliables_sent = <<>>
  /\ next_outgoing_seqnum = SEQNUM_INITIAL
  /\ m_window_size = START_WINDOW
  /\ stream = <<>>
  /\ wire = {} /\ acks = {}
  /\ next_incoming_seqnum = SEQNUM_INITIAL
  /\ incoming_reliables = <<>> /\ handed = <<>>
  /\ incoming_splits = {} /\ delivered = <<>>

-----------------------------------------------------------------------------
(* The send thread *)

\* Mutant: the window is not asked.
HaveSeqnumAlways(next) == TRUE

\* getOutgoingSequenceNumber finds a number while nothing waits for an answer,
\* or while the oldest such packet is no further back than the window.
HaveSeqnum(next) ==
  outgoing_reliables_sent # <<>> =>
    LET lowest == outgoing_reliables_sent[1].seq
    IN  IF lowest < next THEN next - lowest <= m_window_size
                         ELSE next + (SEQNUM_MAX - lowest) <= m_window_size

\* A number for each chunk, or none is taken: those got are put back.
CanNumber(c) == \A k \in 0..c.chunks - 1 : HaveSeqnum(Plus(next_outgoing_seqnum, k))

\* Mutant: a number too many is taken.
NumberLeak(c) ==
  /\ stream' = stream \o [k \in 1..c.chunks |-> [id |-> c.id, chunk |-> k, chunks |-> c.chunks]]
  /\ queued_reliables' = queued_reliables \o
       [k \in 1..c.chunks |-> [seq |-> Plus(next_outgoing_seqnum, k - 1), num |-> Len(stream) + k - 1]]
  /\ next_outgoing_seqnum' = Plus(next_outgoing_seqnum, c.chunks + 1)

Number(c) ==
  /\ stream' = stream \o [k \in 1..c.chunks |-> [id |-> c.id, chunk |-> k, chunks |-> c.chunks]]
  /\ queued_reliables' = queued_reliables \o
       [k \in 1..c.chunks |-> [seq |-> Plus(next_outgoing_seqnum, k - 1), num |-> Len(stream) + k - 1]]
  /\ next_outgoing_seqnum' = Plus(next_outgoing_seqnum, c.chunks)

\* Mutant: a new command does not wait for those queued.
GoesAheadOfQueue == Len(queued_reliables) + 1 < m_window_size \div 2

\* Nothing waits before a new command, neither whole nor in half a window of packets.
GoesAhead ==
  queued_commands = <<>> /\ Len(queued_reliables) + 1 < m_window_size \div 2

PutReliableSendCommand(chunks) ==
  LET c == [id |-> taken + 1, chunks |-> chunks]
  IN  /\ taken < MaxCommands
      /\ taken' = taken + 1
      /\ \/ /\ GoesAhead /\ CanNumber(c)
            /\ Number(c)
            /\ UNCHANGED queued_commands
         \/ /\ ~(GoesAhead /\ CanNumber(c))
            /\ queued_commands' = Append(queued_commands, c)
            /\ UNCHANGED <<queued_reliables, next_outgoing_seqnum, stream>>
      /\ UNCHANGED <<outgoing_reliables_sent, m_window_size, wire, acks, receiver>>

RunCommandQueues ==
  /\ queued_commands # <<>>
  /\ Len(queued_reliables) < MAX_REQUEUED
  /\ CanNumber(Head(queued_commands))
  /\ Number(Head(queued_commands))
  /\ queued_commands' = Tail(queued_commands)
  /\ UNCHANGED <<taken, outgoing_reliables_sent, m_window_size, wire, acks, receiver>>

\* sendPackets takes the next numbered packet while the window has room.
SendQueued ==
  /\ queued_reliables # <<>>
  /\ Len(outgoing_reliables_sent) < m_window_size
  /\ LET p == Head(queued_reliables)
     IN  /\ outgoing_reliables_sent' =
              Insert(outgoing_reliables_sent, p, Plus(next_outgoing_seqnum, MAX_RELIABLE_WINDOW_SIZE))
         /\ wire' = wire \cup {p}
  /\ queued_reliables' = Tail(queued_reliables)
  /\ UNCHANGED <<taken, queued_commands, next_outgoing_seqnum, stream, m_window_size, acks, receiver>>

\* A packet is sent again when its time has run out, however often.
Resend(p) ==
  /\ p \in ToSet(outgoing_reliables_sent)
  /\ wire' = wire \cup {p}
  /\ UNCHANGED <<sender, acks, receiver>>

rangelim(d) == IF d < MIN_WINDOW THEN MIN_WINDOW ELSE IF d > MAX_WINDOW THEN MAX_WINDOW ELSE d

\* UpdateTimers: the ratio of lost to answered packets is a quotient of
\* integers, 0 or 1, so the window moves by its largest step or not at all.
UpdateTimers ==
  /\ m_window_size' \in {rangelim(m_window_size + WINDOW_STEP), rangelim(m_window_size - WINDOW_STEP)}
  /\ UNCHANGED <<queues, outgoing_reliables_sent, wire, acks, receiver>>

-----------------------------------------------------------------------------
(* The network *)

\* No datagram is that old, unless the packet was sent again in the meantime.
Expired(p) == p.num + Lifetime < Len(stream) /\ p \notin ToSet(outgoing_reliables_sent)

Lose ==
  /\ Lossy
  /\ \/ \E p \in wire : wire' = wire \ {p} /\ UNCHANGED acks
     \/ \E p \in acks : acks' = acks \ {p} /\ UNCHANGED wire
  /\ UNCHANGED <<sender, receiver>>

-----------------------------------------------------------------------------
(* The receive threads *)

\* Mutant: the newest packet is dropped for an acknowledgement.
AckPopsLast(p) ==
  /\ p \in acks /\ ~Expired(p)
  /\ outgoing_reliables_sent # <<>>
  /\ outgoing_reliables_sent' = Front(outgoing_reliables_sent)
  /\ UNCHANGED <<queues, m_window_size, wire, acks, receiver>>

\* CONTROLTYPE_ACK; one for a packet no longer waiting is only counted.
ReceiveAck(p) ==
  /\ p \in acks /\ ~Expired(p)
  /\ Numbered(outgoing_reliables_sent, p.seq) # {}
  /\ outgoing_reliables_sent' = Pop(outgoing_reliables_sent, p.seq)
  /\ UNCHANGED <<queues, m_window_size, wire, acks, receiver>>

\* IncomingSplitBuffer::insert: the message leaves with its last chunk.
Reassemble(d) ==
  LET got == incoming_splits \cup {<<d.id, d.chunk>>}
      chunks == {<<d.id, k>> : k \in 1..d.chunks}
  IN  IF chunks \subseteq got
      THEN incoming_splits' = got \ chunks /\ delivered' = Append(delivered, d.id)
      ELSE incoming_splits' = got /\ UNCHANGED delivered

\* The packet that was due is processed.
Process(p) ==
  /\ next_incoming_seqnum' = Plus(next_incoming_seqnum, 1)
  /\ handed' = Append(handed, p.num)
  /\ Reassemble(stream[p.num + 1])

\* Mutant: whatever was buffered first is taken.
UnbufferableAny == incoming_reliables # <<>>

Unbufferable ==
  incoming_reliables # <<>> /\ incoming_reliables[1].seq = next_incoming_seqnum

\* checkIncomingBuffers; receive repeats it before it waits for a datagram.
Unbuffer ==
  /\ Unbufferable
  /\ Process(incoming_reliables[1])
  /\ incoming_reliables' = Tail(incoming_reliables)
  /\ UNCHANGED <<sender, wire, acks>>

\* Mutant: an old packet is not acknowledged again.
ReceiveOnce(p) ==
  /\ p \in wire /\ ~Expired(p)
  /\ ~Unbufferable
  /\ \/ /\ p.seq = next_incoming_seqnum
        /\ Process(p)
        /\ UNCHANGED incoming_reliables
     \/ /\ seqnum_in_window(p.seq, next_incoming_seqnum)
        /\ p.seq # next_incoming_seqnum
        /\ incoming_reliables' = Insert(incoming_reliables, p, next_incoming_seqnum)
        /\ UNCHANGED <<next_incoming_seqnum, handed, incoming_splits, delivered>>
  /\ acks' = acks \cup {p}
  /\ UNCHANGED <<sender, wire>>

\* handlePacketType_Reliable. What is in the window, and what is old, is
\* acknowledged; what is too new changes nothing.
ReceiveReliable(p) ==
  /\ p \in wire /\ ~Expired(p)
  /\ ~Unbufferable
  /\ \/ /\ p.seq = next_incoming_seqnum
        /\ Process(p)
        /\ UNCHANGED incoming_reliables
     \/ /\ seqnum_in_window(p.seq, next_incoming_seqnum)
        /\ p.seq # next_incoming_seqnum
        /\ incoming_reliables' = Insert(incoming_reliables, p, next_incoming_seqnum)
        /\ UNCHANGED <<next_incoming_seqnum, handed, incoming_splits, delivered>>
     \/ /\ ~seqnum_in_window(p.seq, next_incoming_seqnum)
        /\ ~seqnum_higher(p.seq, next_incoming_seqnum)
        /\ UNCHANGED receiver
  /\ acks' = acks \cup {p}
  /\ UNCHANGED <<sender, wire>>

-----------------------------------------------------------------------------

Packets == wire \cup acks \cup ToSet(outgoing_reliables_sent)

Next ==
  \/ \E n \in 1..MaxChunks : PutReliableSendCommand(n)
  \/ RunCommandQueues
  \/ SendQueued
  \/ UpdateTimers
  \/ Lose
  \/ Unbuffer
  \/ \E p \in Packets : Resend(p) \/ ReceiveAck(p) \/ ReceiveReliable(p)

Spec == Init /\ [][Next]_vars

\* The send thread loops for as long as the connection stands and sends again
\* what is not answered; a datagram sent again and again arrives.
FairSpec ==
  /\ Spec
  /\ WF_vars(RunCommandQueues) /\ WF_vars(SendQueued) /\ WF_vars(Unbuffer)
  /\ \A n \in 0..MaxCommands * MaxChunks - 1 :
       /\ WF_vars(\E p \in Packets : p.num = n /\ Resend(p))
       /\ SF_vars(\E p \in Packets : p.num = n /\ ReceiveReliable(p))
       /\ SF_vars(\E p \in Packets : p.num = n /\ ReceiveAck(p))

-----------------------------------------------------------------------------
(* Properties *)

\* The packet numbered num.
SeqnumOf(num) == Plus(SEQNUM_INITIAL, num)
Packet(n) == [seq |-> SeqnumOf(n), num |-> n]

Chunk == [id : 1..taken, chunk : 1..MaxChunks, chunks : 1..MaxChunks]

\* A sequence number is always that of the packet's place in the stream.
TypeOK ==
  /\ taken \in 0..MaxCommands
  /\ m_window_size \in MIN_WINDOW..MAX_WINDOW
  /\ queued_commands \in Seq([id : 1..taken, chunks : 1..MaxChunks])
  /\ stream \in Seq(Chunk)
  /\ LET Sent == {Packet(n) : n \in 0..Len(stream) - Len(queued_reliables) - 1}
     IN  /\ queued_reliables = [k \in 1..Len(queued_reliables) |-> Packet(Len(stream) - Len(queued_reliables) + k - 1)]
         /\ outgoing_reliables_sent \in Seq(Sent) /\ incoming_reliables \in Seq(Sent)
         /\ wire \subseteq Sent /\ acks \subseteq Sent
  /\ next_outgoing_seqnum = SeqnumOf(Len(stream))
  /\ next_incoming_seqnum = SeqnumOf(Len(handed))
  /\ delivered \in Seq(1..taken)
  /\ incoming_splits \subseteq (1..taken) \X (1..MaxChunks)

\* The packets are taken in the order they were numbered, each once: whatever
\* the network repeats or reorders, and though the numbers wrap.
InOrder == \A i \in DOMAIN handed : handed[i] = i - 1

Arrived(num) == num < Len(handed) \/ \E p \in ToSet(incoming_reliables) : p.num = num

\* A packet leaves the sender's buffer only when the receiver has it: no
\* acknowledgement, however old, takes another packet from the buffer.
NothingLost ==
  \A num \in 0..Len(stream) - Len(queued_reliables) - 1 :
    Arrived(num) \/ \E p \in ToSet(outgoing_reliables_sent) : p.num = num

\* The numbers given out stay within reach of the receiver's window, also when
\* a long message took its numbers while nothing waited for an answer.
WithinReach ==
  outgoing_reliables_sent # <<>> => Len(stream) - outgoing_reliables_sent[1].num <= Span

Link == INSTANCE FifoLink WITH accepted <- taken

\* Messages come out once each, whole, in the order they went in.
IsFifoLink == Link!Spec

\* Every message sent is delivered, whatever the network loses.
Delivers == Link!FairSpec
=============================================================================
