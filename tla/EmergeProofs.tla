---------------------------- MODULE EmergeProofs ----------------------------
(***************************************************************************)
(* The queues of Emerge, for every number of threads, blocks, clients and  *)
(* requests, and for all chunks and areas.                                 *)
(*                                                                         *)
(* The queues do not depend on the map: QueueInv is inductive whatever is  *)
(* in memory or on the disk, and whatever the server unloads or deletes.   *)
(***************************************************************************)
EXTENDS Emerge, FiniteSetTheorems, WellFoundedInduction, SequenceTheorems, TLAPS

\* Where a thread has a block in hand
Busy == {"look", "read", "load", "make", "finish"}
Answering == {"answer", "cancel"}
AllPlaces == {"pop", "wait", "done"} \cup Busy \cup Answering

TypeQueues ==
  /\ queue_mutex \in Thread \cup {None}
  /\ m_blocks_enqueued \in [Pos -> Entry \cup {None}]
  /\ m_peer_queue_count \in [Requester -> Nat]
  /\ m_block_queue \in [Thread -> Seq(Pos)]
  /\ notified \in [Thread -> BOOLEAN] /\ signal \in Thread \cup {None} /\ stopping \in BOOLEAN
  /\ pc \in [Thread -> AllPlaces]
  /\ at \in [Thread -> Pos \cup {None}]
  /\ allow_gen \in [Thread -> BOOLEAN] /\ callbacks \in [Thread -> SUBSET Request]
  /\ answers \in [Request -> 0 .. 1] /\ asked \in [Request -> Pos \cup {None}]
  /\ lookups \in 0 .. MaxLookups /\ errors \in 0 .. MaxErrors

InQueue(p) == \E t \in Thread : \E n \in 1 .. Len(m_block_queue[t]) : m_block_queue[t][n] = p

\* What has an entry is in the queue of one thread, once.
Queued ==
  /\ \A p \in Pos : m_blocks_enqueued[p] # None <=> InQueue(p)
  /\ \A t, u \in Thread : \A i \in 1 .. Len(m_block_queue[t]), j \in 1 .. Len(m_block_queue[u]) :
       m_block_queue[t][i] = m_block_queue[u][j] => t = u /\ i = j

Hands ==
  /\ \A t \in Thread : at[t] # None <=> pc[t] \in Busy
  /\ \A t \in Thread : callbacks[t] # {} => pc[t] \in Busy \cup Answering

\* A request is with the entry of its position or with a thread, or it was answered, or
\* its position is over the limit and it was dropped.
Story ==
  /\ \A p \in Pos : m_blocks_enqueued[p] # None =>
       \A r \in m_blocks_enqueued[p].callbacks : asked[r] = p /\ answers[r] = 0
  /\ \A t \in Thread : \A r \in callbacks[t] :
       /\ asked[r] # None /\ answers[r] = 0
       /\ \A p \in Pos : m_blocks_enqueued[p] # None => r \notin m_blocks_enqueued[p].callbacks
       /\ \A u \in Thread : r \in callbacks[u] => u = t
  /\ \A r \in Request : answers[r] # 0 => asked[r] # None
  /\ \A r \in Request : asked[r] \notin OverLimit \cup {None} =>
       \/ \E p \in Pos : m_blocks_enqueued[p] # None /\ r \in m_blocks_enqueued[p].callbacks
       \/ \E t \in Thread : r \in callbacks[t]
       \/ answers[r] = 1

QueueInv == TypeQueues /\ Queued /\ CountsRight /\ Awake /\ Hands /\ Story

-----------------------------------------------------------------------------
(* The shortest queue *)

\* A set of indices that has an element has a least one, because the intervals 1..m are
\* well ordered by inclusion.
LEMMA LeastIndex ==
  ASSUME NEW len \in Nat, NEW S, S \subseteq 1..len, S # {}
  PROVE  \E m \in S : \A n \in S : m <= n
<1>. DEFINE R == StrictSubsetOrdering(1..len)
            T == {1..m : m \in S}
<1>1. \A m \in S : IsFiniteSet(1..m) /\ 1..m \subseteq 1..len
  BY FS_Interval
<1>2. T \subseteq FiniteSubsetsOf(1..len) /\ T # {}
  BY <1>1 DEF FiniteSubsetsOf
<1>3. \E x \in T : \A y \in T : ~(<<y, x>> \in R)
  <2>. HIDE DEF R, T
  <2>1. IsWellFoundedOn(R, FiniteSubsetsOf(1..len))
    BY FS_StrictSubsetOrderingWellFounded DEF R
  <2>. QED
    BY <2>1, <1>2, WFMin
<1>4. PICK m \in S : \A n \in S : ~(<<1..n, 1..m>> \in R)
  BY <1>3
<1>5. ASSUME NEW n \in S, n < m PROVE <<1..n, 1..m>> \in R
  <2>1. 1..n \subseteq 1..m /\ m \in 1..m /\ m \notin 1..n
    BY <1>5
  <2>2. <<1..n, 1..m>> \in (SUBSET (1..len)) \X (SUBSET (1..len))
    BY <1>1
  <2>. QED
    BY <2>1, <2>2 DEF StrictSubsetOrdering
<1>6. \A n \in S : ~(n < m)
  <2>. HIDE DEF R
  <2>. QED
    BY <1>4, <1>5
<1>. QED
  BY <1>6

LEMMA OptimalIsThread ==
  ASSUME TypeQueues
  PROVE  Optimal \in Thread
<1>. DEFINE L(t) == Len(m_block_queue[t]) + 1
            S == {n \in 1 .. L(1) : \E t \in Thread : L(t) = n}
<1>1. 1 \in Thread /\ Thread \subseteq 1 .. NThreads /\ NThreads \in Nat
  BY EmergeAssumption DEF Thread
<1>2. \A t \in Thread : L(t) \in Nat /\ L(t) >= 1
  BY DEF TypeQueues
<1>3. PICK m \in S : \A n \in S : m <= n
  <2>1. L(1) \in S
    BY <1>1, <1>2
  <2>2. L(1) \in Nat /\ S \subseteq 1 .. L(1)
    BY <1>1, <1>2
  <2>. HIDE DEF S, L
  <2>. QED
    BY <2>1, <2>2, LeastIndex
<1>4. \A t \in Thread : m <= L(t)
  <2>. SUFFICES ASSUME NEW t \in Thread, L(t) < m PROVE FALSE
    BY <1>2
  <2>1. L(t) \in S
    BY <1>1, <1>2
  <2>. QED
    BY <2>1, <1>2, <1>3
<1>. DEFINE T == {t \in Thread : L(t) = m}
<1>5. PICK t \in T : \A u \in T : t <= u
  <2>1. T # {} /\ T \subseteq 1 .. NThreads
    BY <1>1, <1>3
  <2>. HIDE DEF T
  <2>. QED
    BY <1>1, <2>1, LeastIndex
<1>6. \A u \in Thread : \/ Len(m_block_queue[t]) < Len(m_block_queue[u])
                        \/ Len(m_block_queue[t]) = Len(m_block_queue[u]) /\ t <= u
  <2>. SUFFICES ASSUME NEW u \in Thread
                PROVE  \/ Len(m_block_queue[t]) < Len(m_block_queue[u])
                       \/ Len(m_block_queue[t]) = Len(m_block_queue[u]) /\ t <= u
    OBVIOUS
  <2>. DEFINE a == Len(m_block_queue[t])
              b == Len(m_block_queue[u])
  <2>0. /\ a \in Nat /\ b \in Nat /\ a + 1 = m /\ m <= b + 1
        /\ b + 1 = m => t <= u
    BY <1>4, <1>5 DEF TypeQueues
  <2>. HIDE DEF a, b
  <2>1. a < b \/ (a = b /\ t <= u)
    BY <2>0
  <2>. QED
    BY <2>1 DEF a, b
<1>. QED
  BY <1>5, <1>6 DEF Optimal

-----------------------------------------------------------------------------
(* Entries and queues *)

EntryInv == Queued /\ CountsRight

Of(c) == {p \in Enqueued : m_blocks_enqueued[p].peer = c}

LEMMA OfIsFinite ==
  ASSUME NEW c
  PROVE  IsFiniteSet(Of(c)) /\ Cardinality(Of(c)) \in Nat
BY EmergeAssumption, FS_Subset, FS_CardinalityType DEF Of, Enqueued

LEMMA NoneIsNothing ==
  /\ None \notin Pos /\ None \notin Thread /\ None \notin Entry /\ None \notin Block
BY EmergeAssumption

LEMMA IsEntry ==
  ASSUME TypeQueues, NEW p \in Pos, m_blocks_enqueued[p] # None
  PROVE  /\ m_blocks_enqueued[p] \in Entry
         /\ m_blocks_enqueued[p].peer \in Requester
         /\ m_blocks_enqueued[p].gen \in BOOLEAN
         /\ m_blocks_enqueued[p].callbacks \subseteq Request
BY DEF TypeQueues, Entry

\* pushBlockEmergeData for a position that has an entry.
LEMMA MergeEntry ==
  ASSUME TypeQueues, EntryInv, NEW p \in Pos, m_blocks_enqueued[p] # None,
         NEW gen \in BOOLEAN, NEW calls \in SUBSET Request,
         m_blocks_enqueued' = [m_blocks_enqueued EXCEPT ![p].gen = @ \/ gen,
                                                        ![p].callbacks = @ \cup calls],
         UNCHANGED <<m_peer_queue_count, m_block_queue>>
  PROVE  /\ EntryInv'
         /\ m_blocks_enqueued' \in [Pos -> Entry \cup {None}]
         /\ m_blocks_enqueued'[p] # None
         /\ m_blocks_enqueued'[p].callbacks = m_blocks_enqueued[p].callbacks \cup calls
         /\ \A q \in Pos : q # p => m_blocks_enqueued'[q] = m_blocks_enqueued[q]
<1>. DEFINE e == m_blocks_enqueued[p]
            f == [e EXCEPT !.gen = @ \/ gen, !.callbacks = @ \cup calls]
<1>1. m_blocks_enqueued \in [Pos -> Entry \cup {None}] /\ e \in Entry
  BY DEF TypeQueues
<1>2. f \in Entry /\ f.peer = e.peer /\ f.callbacks = e.callbacks \cup calls
  BY <1>1 DEF Entry
<1>3. m_blocks_enqueued' = [m_blocks_enqueued EXCEPT ![p] = f]
  BY <1>1 DEF Entry
<1>. HIDE DEF f
<1>4. /\ m_blocks_enqueued' \in [Pos -> Entry \cup {None}]
      /\ m_blocks_enqueued'[p] = f /\ f # None
      /\ \A q \in Pos : q # p => m_blocks_enqueued'[q] = m_blocks_enqueued[q]
  BY <1>1, <1>2, <1>3, NoneIsNothing
<1>5. Queued'
  <2>1. m_block_queue' = m_block_queue /\ \A q \in Pos : InQueue(q)' <=> InQueue(q)
    BY DEF InQueue
  <2>2. \A q \in Pos : m_blocks_enqueued'[q] # None <=> m_blocks_enqueued[q] # None
    BY <1>4
  <2>. QED
    BY <2>1, <2>2 DEF EntryInv, Queued
<1>6. Enqueued' = Enqueued /\ \A q \in Enqueued : m_blocks_enqueued'[q].peer = m_blocks_enqueued[q].peer
  BY <1>2, <1>4 DEF Enqueued
<1>7. CountsRight'
  <2>1. \A c \in Requester : {q \in Enqueued' : m_blocks_enqueued'[q].peer = c}
                           = {q \in Enqueued : m_blocks_enqueued[q].peer = c}
    BY <1>6
  <2>. QED
    BY <2>1 DEF CountsRight, EntryInv
<1>. QED
  BY <1>2, <1>4, <1>5, <1>7 DEF EntryInv

\* pushBlockEmergeData for another position, and pushBlock.
LEMMA AddEntry ==
  ASSUME TypeQueues, EntryInv, NEW p \in Pos, m_blocks_enqueued[p] = None,
         NEW e \in Entry, NEW t \in Thread,
         m_blocks_enqueued' = [m_blocks_enqueued EXCEPT ![p] = e],
         m_peer_queue_count' = [m_peer_queue_count EXCEPT ![e.peer] = @ + 1],
         m_block_queue' = [m_block_queue EXCEPT ![t] = Append(@, p)]
  PROVE  /\ EntryInv'
         /\ m_blocks_enqueued' \in [Pos -> Entry \cup {None}]
         /\ m_peer_queue_count' \in [Requester -> Nat]
         /\ m_block_queue' \in [Thread -> Seq(Pos)]
<1>0. e.peer \in Requester /\ e # None
  BY NoneIsNothing DEF Entry
<1>1. /\ m_blocks_enqueued' \in [Pos -> Entry \cup {None}]
      /\ m_peer_queue_count' \in [Requester -> Nat]
      /\ m_block_queue' \in [Thread -> Seq(Pos)]
  BY <1>0 DEF TypeQueues
<1>2. /\ m_blocks_enqueued'[p] = e
      /\ \A q \in Pos : q # p => m_blocks_enqueued'[q] = m_blocks_enqueued[q]
  BY DEF TypeQueues
<1>. DEFINE s == m_block_queue[t]
<1>3. /\ s \in Seq(Pos) /\ Len(s) \in Nat
      /\ m_block_queue'[t] = Append(s, p)
      /\ \A u \in Thread : u # t => m_block_queue'[u] = m_block_queue[u]
  BY DEF TypeQueues
<1>4. /\ Len(Append(s, p)) = Len(s) + 1
      /\ \A n \in 1 .. Len(s) : Append(s, p)[n] = s[n]
      /\ Append(s, p)[Len(s) + 1] = p
  BY <1>3
<1>. HIDE DEF s
<1>5. ~InQueue(p)
  BY DEF EntryInv, Queued
<1>6. \A q \in Pos : InQueue(q)' <=> InQueue(q) \/ q = p
  <2>1. ASSUME NEW q \in Pos, InQueue(q) PROVE InQueue(q)'
    <3>0. PICK u \in Thread : \E n \in 1 .. Len(m_block_queue[u]) : m_block_queue[u][n] = q
      BY <2>1 DEF InQueue
    <3>1. PICK n \in 1 .. Len(m_block_queue[u]) : m_block_queue[u][n] = q
      BY <3>0
    <3>2. n \in 1 .. Len(m_block_queue'[u]) /\ m_block_queue'[u][n] = q
      BY <1>3, <1>4, <3>1 DEF s
    <3>. QED
      BY <3>2 DEF InQueue
  <2>2. InQueue(p)'
    <3>1. Len(s) + 1 \in 1 .. Len(m_block_queue'[t]) /\ m_block_queue'[t][Len(s) + 1] = p
      BY <1>3, <1>4
    <3>. QED
      BY <3>1 DEF InQueue
  <2>3. ASSUME NEW q \in Pos, q # p, InQueue(q)' PROVE InQueue(q)
    <3>0. PICK u \in Thread : \E n \in 1 .. Len(m_block_queue'[u]) : m_block_queue'[u][n] = q
      BY <2>3 DEF InQueue
    <3>1. PICK n \in 1 .. Len(m_block_queue'[u]) : m_block_queue'[u][n] = q
      BY <3>0
    <3>2. n \in 1 .. Len(m_block_queue[u]) /\ m_block_queue[u][n] = q
      BY <1>3, <1>4, <2>3, <3>1 DEF s
    <3>. QED
      BY <3>2 DEF InQueue
  <2>. QED
    BY <2>1, <2>2, <2>3
<1>7. \A u, v \in Thread : \A i \in 1 .. Len(m_block_queue'[u]), j \in 1 .. Len(m_block_queue'[v]) :
        m_block_queue'[u][i] = m_block_queue'[v][j] => u = v /\ i = j
  <2>. SUFFICES ASSUME NEW u \in Thread, NEW v \in Thread, NEW i \in 1 .. Len(m_block_queue'[u]),
                       NEW j \in 1 .. Len(m_block_queue'[v]),
                       m_block_queue'[u][i] = m_block_queue'[v][j]
                PROVE  u = v /\ i = j
    OBVIOUS
  <2>. DEFINE New(w, n) == w = t /\ n = Len(s) + 1
  <2>1. \A w \in Thread : \A n \in 1 .. Len(m_block_queue'[w]) :
          IF New(w, n) THEN m_block_queue'[w][n] = p
          ELSE /\ n \in 1 .. Len(m_block_queue[w]) /\ m_block_queue'[w][n] = m_block_queue[w][n]
               /\ m_block_queue[w][n] # p
    BY <1>3, <1>4, <1>5 DEF s, InQueue
  <2>2. CASE New(u, i) /\ New(v, j)
    BY <2>2
  <2>3. CASE ~New(u, i) /\ ~New(v, j)
    <3>1. i \in 1 .. Len(m_block_queue[u]) /\ j \in 1 .. Len(m_block_queue[v])
          /\ m_block_queue[u][i] = m_block_queue[v][j]
      BY <2>1, <2>3
    <3>. QED
      BY <3>1 DEF EntryInv, Queued
  <2>. QED
    BY <2>1, <2>2, <2>3
<1>8. Queued'
  BY <1>0, <1>2, <1>6, <1>7 DEF EntryInv, Queued
<1>9. CountsRight'
  <2>. SUFFICES ASSUME NEW c \in Requester
                PROVE  m_peer_queue_count'[c] = Cardinality(Of(c)')
    BY DEF CountsRight, Of
  <2>1. p \notin Of(c) /\ Of(c)' = IF e.peer = c THEN Of(c) \cup {p} ELSE Of(c)
    BY <1>0, <1>2 DEF Of, Enqueued
  <2>2. m_peer_queue_count[c] = Cardinality(Of(c))
    BY DEF EntryInv, CountsRight, Of
  <2>3. m_peer_queue_count'[c] = IF e.peer = c THEN m_peer_queue_count[c] + 1 ELSE m_peer_queue_count[c]
    BY <1>0 DEF TypeQueues
  <2>4. CASE e.peer = c
    <3>1. Cardinality(Of(c) \cup {p}) = Cardinality(Of(c)) + 1
      BY <2>1, OfIsFinite, FS_AddElement
    <3>. QED
      BY <2>1, <2>2, <2>3, <2>4, <3>1
  <2>5. CASE e.peer # c
    BY <2>1, <2>2, <2>3, <2>5
  <2>. QED
    BY <2>4, <2>5
<1>. QED
  BY <1>1, <1>8, <1>9 DEF EntryInv


\* popBlockEmergeData, for the first in the queue of a thread.
LEMMA RemoveEntry ==
  ASSUME TypeQueues, EntryInv, NEW t \in Thread, m_block_queue[t] # <<>>,
         NEW p, p = Head(m_block_queue[t]), Take(p),
         m_block_queue' = [m_block_queue EXCEPT ![t] = Tail(@)]
  PROVE  /\ EntryInv'
         /\ p \in Pos /\ m_blocks_enqueued[p] # None /\ m_blocks_enqueued'[p] = None
         /\ \A q \in Pos : q # p => m_blocks_enqueued'[q] = m_blocks_enqueued[q]
         /\ m_blocks_enqueued' \in [Pos -> Entry \cup {None}]
         /\ m_peer_queue_count' \in [Requester -> Nat]
         /\ m_block_queue' \in [Thread -> Seq(Pos)]
<1>. DEFINE s == m_block_queue[t]
            e == m_blocks_enqueued[p]
<1>1. s \in Seq(Pos) /\ s # <<>> /\ Len(s) \in Nat /\ Len(s) >= 1
  BY DEF TypeQueues
<1>2. /\ p \in Pos /\ p = s[1]
      /\ Tail(s) \in Seq(Pos) /\ Len(Tail(s)) = Len(s) - 1
      /\ \A n \in 1 .. Len(s) - 1 : Tail(s)[n] = s[n + 1]
  BY <1>1
<1>3. /\ m_block_queue' \in [Thread -> Seq(Pos)]
      /\ m_block_queue'[t] = Tail(s)
      /\ \A u \in Thread : u # t => m_block_queue'[u] = m_block_queue[u]
  BY <1>2 DEF TypeQueues
<1>. HIDE DEF s
<1>4. InQueue(p) /\ m_blocks_enqueued[p] # None
  <2>1. 1 \in 1 .. Len(m_block_queue[t]) /\ m_block_queue[t][1] = p
    BY <1>1, <1>2 DEF s
  <2>. QED
    BY <1>2, <2>1 DEF InQueue, EntryInv, Queued
<1>5. e \in Entry /\ e.peer \in Requester
  BY <1>2, <1>4, IsEntry
<1>6. /\ m_blocks_enqueued' \in [Pos -> Entry \cup {None}] /\ m_blocks_enqueued'[p] = None
      /\ \A q \in Pos : q # p => m_blocks_enqueued'[q] = m_blocks_enqueued[q]
  BY <1>2 DEF TypeQueues, Take
\* Every place of the queues but the first of this thread is a place before.
<1>. DEFINE Old(w, n) == IF w = t THEN n + 1 ELSE n
<1>7. \A w \in Thread : \A n \in 1 .. Len(m_block_queue'[w]) :
        /\ Old(w, n) \in 1 .. Len(m_block_queue[w])
        /\ m_block_queue'[w][n] = m_block_queue[w][Old(w, n)]
        /\ n \in Nat /\ w = t => Old(w, n) # 1
  BY <1>1, <1>2, <1>3 DEF s
<1>8. \A u, v \in Thread : \A i \in 1 .. Len(m_block_queue[u]), j \in 1 .. Len(m_block_queue[v]) :
        m_block_queue[u][i] = m_block_queue[v][j] => u = v /\ i = j
  BY DEF EntryInv, Queued
<1>9. \A q \in Pos : InQueue(q)' <=> InQueue(q) /\ q # p
  <2>1. ASSUME NEW q \in Pos, InQueue(q), q # p PROVE InQueue(q)'
    <3>0. PICK u \in Thread : \E n \in 1 .. Len(m_block_queue[u]) : m_block_queue[u][n] = q
      BY <2>1 DEF InQueue
    <3>1. PICK n \in 1 .. Len(m_block_queue[u]) : m_block_queue[u][n] = q
      BY <3>0
    <3>2. CASE u = t
      <4>1. /\ n \in 1 .. Len(s) /\ s[n] = q /\ n # 1
        BY <1>2, <2>1, <3>1, <3>2 DEF s
      <4>2. n - 1 \in 1 .. Len(s) - 1 /\ (n - 1) + 1 = n
        BY <1>1, <4>1
      <4>3. Tail(s)[n - 1] = s[(n - 1) + 1]
        BY <1>2, <4>2
      <4>4. n - 1 \in 1 .. Len(m_block_queue'[t]) /\ m_block_queue'[t][n - 1] = q
        BY <1>2, <1>3, <4>1, <4>2, <4>3
      <4>. QED
        BY <4>4 DEF InQueue
    <3>3. CASE u # t
      BY <1>3, <3>1, <3>3 DEF InQueue
    <3>. QED
      BY <3>2, <3>3
  <2>2. ASSUME NEW q \in Pos, InQueue(q)' PROVE InQueue(q) /\ q # p
    <3>0. PICK u \in Thread : \E n \in 1 .. Len(m_block_queue'[u]) : m_block_queue'[u][n] = q
      BY <2>2 DEF InQueue
    <3>1. PICK n \in 1 .. Len(m_block_queue'[u]) : m_block_queue'[u][n] = q
      BY <3>0
    <3>2. Old(u, n) \in 1 .. Len(m_block_queue[u]) /\ m_block_queue[u][Old(u, n)] = q
          /\ (u = t => Old(u, n) # 1)
      BY <1>7, <3>1
    <3>3. q # p
      <4>. SUFFICES ASSUME q = p PROVE FALSE
        OBVIOUS
      <4>1. 1 \in 1 .. Len(m_block_queue[t]) /\ m_block_queue[t][1] = p
        BY <1>1, <1>2 DEF s
      <4>. HIDE DEF Old
      <4>2. u = t /\ Old(u, n) = 1
        BY <1>8, <3>2, <4>1
      <4>. QED
        BY <3>2, <4>2
    <3>. QED
      BY <3>2, <3>3 DEF InQueue
  <2>. QED
    BY <2>1, <2>2
<1>10. \A u, v \in Thread : \A i \in 1 .. Len(m_block_queue'[u]), j \in 1 .. Len(m_block_queue'[v]) :
         m_block_queue'[u][i] = m_block_queue'[v][j] => u = v /\ i = j
  <2>. SUFFICES ASSUME NEW u \in Thread, NEW v \in Thread, NEW i \in 1 .. Len(m_block_queue'[u]),
                       NEW j \in 1 .. Len(m_block_queue'[v]),
                       m_block_queue'[u][i] = m_block_queue'[v][j]
                PROVE  u = v /\ i = j
    OBVIOUS
  <2>1. u = v /\ Old(u, i) = Old(v, j)
    <3>1. m_block_queue[u][Old(u, i)] = m_block_queue[v][Old(v, j)]
          /\ Old(u, i) \in 1 .. Len(m_block_queue[u]) /\ Old(v, j) \in 1 .. Len(m_block_queue[v])
      BY <1>7
    <3>. HIDE DEF Old
    <3>. QED
      BY <1>8, <3>1
  <2>2. i \in Int /\ j \in Int
    BY <1>7
  <2>. QED
    BY <2>1, <2>2
<1>11. Queued'
  BY <1>6, <1>9, <1>10 DEF EntryInv, Queued
<1>12. m_peer_queue_count[e.peer] = Cardinality(Of(e.peer)) /\ p \in Of(e.peer)
  BY <1>2, <1>4, <1>5 DEF EntryInv, CountsRight, Of, Enqueued
<1>13. /\ Cardinality(Of(e.peer)) - 1 = Cardinality(Of(e.peer) \ {p})
       /\ Cardinality(Of(e.peer) \ {p}) \in Nat
  BY <1>12, OfIsFinite, FS_RemoveElement, FS_CardinalityType
<1>14. m_peer_queue_count' = [m_peer_queue_count EXCEPT ![e.peer] = Cardinality(Of(e.peer) \ {p})]
  BY <1>5, <1>12, <1>13 DEF Take
<1>15. m_peer_queue_count' \in [Requester -> Nat]
  BY <1>5, <1>13, <1>14 DEF TypeQueues
<1>16. CountsRight'
  <2>. SUFFICES ASSUME NEW c \in Requester
                PROVE  m_peer_queue_count'[c] = Cardinality(Of(c)')
    BY DEF CountsRight, Of
  <2>1. Of(c)' = IF e.peer = c THEN Of(c) \ {p} ELSE Of(c)
    BY <1>4, <1>6 DEF Of, Enqueued
  <2>2. CASE e.peer = c
    BY <1>5, <1>14, <2>1, <2>2 DEF TypeQueues
  <2>3. CASE e.peer # c
    BY <1>14, <2>1, <2>3 DEF TypeQueues, EntryInv, CountsRight, Of
  <2>. QED
    BY <2>2, <2>3
<1>17. EntryInv'
  BY <1>11, <1>16 DEF EntryInv
<1>18. p \in Pos /\ m_blocks_enqueued[p] # None /\ m_blocks_enqueued'[p] = None
  BY <1>2, <1>4, <1>6
<1>19. /\ \A q \in Pos : q # p => m_blocks_enqueued'[q] = m_blocks_enqueued[q]
       /\ m_blocks_enqueued' \in [Pos -> Entry \cup {None}]
       /\ m_block_queue' \in [Thread -> Seq(Pos)]
  BY <1>3, <1>6
<1>. QED
  BY <1>15, <1>17, <1>18, <1>19

\* What the run checks: the places of a position in the queues are one or none.
LEMMA OnePlace ==
  ASSUME TypeQueues, Queued
  PROVE  EntriesQueued
<1>1. ASSUME NEW t \in Thread PROVE Len(m_block_queue[t]) <= Cardinality(Pos)
  <2>. DEFINE s == m_block_queue[t]
  <2>1. s \in Seq(Pos) /\ Len(s) \in Nat /\ s \in [1 .. Len(s) -> Pos]
    BY DEF TypeQueues
  <2>2. s \in Injection(1 .. Len(s), Pos)
    <3>1. \A i, j \in 1 .. Len(s) : s[i] = s[j] => i = j
      BY DEF Queued
    <3>. HIDE DEF s
    <3>. QED
      BY <2>1, <3>1 DEF Injection, IsInjective
  <2>3. Cardinality(1 .. Len(s)) = Len(s)
    <3>1. Cardinality(1 .. Len(s)) = IF 1 > Len(s) THEN 0 ELSE Len(s) - 1 + 1
      BY <2>1, FS_Interval
    <3>. QED
      BY <2>1, <3>1
  <2>4. IsFiniteSet(Pos)
    BY EmergeAssumption
  <2>. HIDE DEF s
  <2>5. Cardinality(1 .. Len(s)) <= Cardinality(Pos)
    BY <2>2, <2>4, FS_Injection
  <2>. QED
    BY <2>3, <2>5 DEF s
<1>2. \A t \in Thread : Len(m_block_queue[t]) \in Nat
  BY DEF TypeQueues
<1>3. Cardinality(Pos) \in Nat
  BY EmergeAssumption, FS_CardinalityType
<1>. SUFFICES ASSUME NEW p \in Pos
              PROVE  Cardinality(Places(p)) = IF p \in Enqueued THEN 1 ELSE 0
  BY DEF EntriesQueued
<1>4. CASE p \in Enqueued
  <2>1. InQueue(p)
    BY <1>4 DEF Queued, Enqueued
  <2>2. PICK t \in Thread : \E n \in 1 .. Len(m_block_queue[t]) : m_block_queue[t][n] = p
    BY <2>1 DEF InQueue
  <2>3. PICK n \in 1 .. Len(m_block_queue[t]) : m_block_queue[t][n] = p
    BY <2>2
  <2>4. <<t, n>> \in Places(p)
    BY <1>1, <1>2, <1>3, <2>3 DEF Places
  <2>5. ASSUME NEW x \in Places(p) PROVE x = <<t, n>>
    <3>1. /\ x[1] \in Thread /\ x[2] \in 1 .. Len(m_block_queue[x[1]])
          /\ m_block_queue[x[1]][x[2]] = p /\ x = <<x[1], x[2]>>
      BY <1>2, <1>3, <2>5 DEF Places
    <3>2. x[1] = t /\ x[2] = n
      BY <2>3, <3>1 DEF Queued
    <3>. QED
      BY <3>1, <3>2
  <2>6. Places(p) = {<<t, n>>}
    BY <2>4, <2>5
  <2>. QED
    BY <1>4, <2>6, FS_Singleton
<1>5. CASE p \notin Enqueued
  <2>1. ~InQueue(p)
    BY <1>5 DEF Queued, Enqueued
  <2>2. Places(p) = {}
    BY <1>2, <1>3, <2>1 DEF Places, InQueue
  <2>. QED
    BY <1>5, <2>2, FS_EmptySet
<1>. QED
  BY <1>4, <1>5


-----------------------------------------------------------------------------
(* QueueInv *)

LEMMA QueueInit ==
  ASSUME Init
  PROVE  QueueInv
<1>1. TypeQueues
  <2>1. 0 \in 0 .. MaxLookups /\ 0 \in 0 .. MaxErrors
    <3>1. MaxLookups \in Nat /\ MaxErrors \in Nat
      BY EmergeAssumption
    <3>. QED
      BY <3>1
  <2>2. /\ m_blocks_enqueued \in [Pos -> Entry \cup {None}]
        /\ m_peer_queue_count \in [Requester -> Nat]
        /\ m_block_queue \in [Thread -> Seq(Pos)]
        /\ notified \in [Thread -> BOOLEAN]
        /\ pc \in [Thread -> AllPlaces] /\ at \in [Thread -> Pos \cup {None}]
        /\ allow_gen \in [Thread -> BOOLEAN] /\ callbacks \in [Thread -> SUBSET Request]
        /\ answers \in [Request -> 0 .. 1] /\ asked \in [Request -> Pos \cup {None}]
    BY DEF Init, AllPlaces
  <2>3. /\ queue_mutex \in Thread \cup {None} /\ signal \in Thread \cup {None}
        /\ stopping \in BOOLEAN /\ lookups \in 0 .. MaxLookups /\ errors \in 0 .. MaxErrors
    BY <2>1 DEF Init
  <2>. QED
    BY <2>2, <2>3 DEF TypeQueues
<1>2. /\ \A p \in Pos : m_blocks_enqueued[p] = None
      /\ \A t \in Thread : Len(m_block_queue[t]) = 0 /\ 1 .. 0 = {}
      /\ \A c \in Requester : m_peer_queue_count[c] = 0
      /\ \A t \in Thread : pc[t] = "pop" /\ at[t] = None /\ callbacks[t] = {}
      /\ \A r \in Request : answers[r] = 0 /\ asked[r] = None
  BY DEF Init
<1>3. Queued
  BY <1>2 DEF Queued, InQueue
<1>4. CountsRight
  <2>1. \A c \in Requester : {p \in Enqueued : m_blocks_enqueued[p].peer = c} = {}
    BY <1>2 DEF Enqueued
  <2>. QED
    BY <1>2, <2>1, FS_EmptySet DEF CountsRight
<1>5. Awake /\ Hands /\ Story
  BY <1>2 DEF Awake, Hands, Story, Busy
<1>. QED
  BY <1>1, <1>3, <1>4, <1>5 DEF QueueInv

\* A step of a thread that leaves entries, queues and callbacks alone.
LEMMA LocalStep ==
  ASSUME QueueInv, NEW t \in Thread,
         pc' \in [Thread -> AllPlaces], at' \in [Thread -> Pos \cup {None}],
         allow_gen' \in [Thread -> BOOLEAN], notified' \in [Thread -> BOOLEAN],
         queue_mutex' \in Thread \cup {None}, errors' \in 0 .. MaxErrors,
         \A u \in Thread : u # t => pc'[u] = pc[u] /\ at'[u] = at[u] /\ notified'[u] = notified[u],
         at'[t] # None <=> pc'[t] \in Busy,
         callbacks[t] # {} => pc'[t] \in Busy \cup Answering,
         pc'[t] = "wait" => m_block_queue[t] = <<>> /\ ~stopping,
         UNCHANGED <<queues, signal, stopping, callbacks, requests, lookups>>
  PROVE  QueueInv'
<1>1. /\ UNCHANGED <<m_blocks_enqueued, m_peer_queue_count, m_block_queue, signal, stopping,
                     callbacks, answers, asked, lookups>>
  BY DEF queues, requests
<1>2. TypeQueues'
  BY <1>1 DEF QueueInv, TypeQueues
<1>3. Queued' /\ CountsRight'
  <2>1. Queued'
    BY <1>1 DEF QueueInv, Queued, InQueue
  <2>2. Enqueued' = Enqueued
    BY <1>1 DEF Enqueued
  <2>3. CountsRight'
    BY <1>1, <2>2 DEF QueueInv, CountsRight
  <2>. QED
    BY <2>1, <2>3
<1>4. Awake'
  BY <1>1 DEF QueueInv, Awake
<1>5. Hands'
  BY <1>1 DEF QueueInv, Hands
<1>6. Story'
  BY <1>1 DEF QueueInv, Story
<1>. QED
  BY <1>2, <1>3, <1>4, <1>5, <1>6 DEF QueueInv

\* The two ways out of a look at a block
LEMMA ResultStep ==
  ASSUME QueueInv, NEW t \in Thread, pc[t] \in Busy, Result(t),
         errors' \in 0 .. MaxErrors,
         UNCHANGED <<queue_mutex, queues, events, requests, lookups>>
  PROVE  QueueInv'
<1>. DEFINE place == IF callbacks[t] = {} THEN "pop" ELSE "answer"
<1>1. /\ pc' = [pc EXCEPT ![t] = place] /\ at' = [at EXCEPT ![t] = None]
      /\ allow_gen' = [allow_gen EXCEPT ![t] = FALSE] /\ UNCHANGED callbacks
      /\ place \in AllPlaces /\ place \notin Busy /\ place # "wait"
      /\ callbacks[t] # {} => place \in Answering
  BY DEF Result, Goto, AllPlaces, Busy, Answering
<1>2. TypeQueues
  BY DEF QueueInv
<1>. HIDE DEF place
<1>3. /\ pc' \in [Thread -> AllPlaces] /\ pc'[t] = place
      /\ at' \in [Thread -> Pos \cup {None}] /\ at'[t] = None
      /\ allow_gen' \in [Thread -> BOOLEAN]
      /\ \A u \in Thread : u # t => pc'[u] = pc[u] /\ at'[u] = at[u]
  BY <1>1, <1>2 DEF TypeQueues
<1>4. /\ queue_mutex' \in Thread \cup {None}
      /\ notified' \in [Thread -> BOOLEAN] /\ notified' = notified
      /\ UNCHANGED <<queues, signal, stopping, callbacks, requests, lookups>>
  BY <1>1, <1>2 DEF TypeQueues, events
<1>. QED
  BY <1>1, <1>3, <1>4, LocalStep

\* A thread that keeps its block goes on.
LEMMA KeepStep ==
  ASSUME QueueInv, NEW t \in Thread, pc[t] \in Busy, NEW place \in Busy, Goto(t, place),
         UNCHANGED <<queue_mutex, queues, events, at, allow_gen, callbacks, requests, bounds>>
  PROVE  QueueInv'
<1>1. TypeQueues /\ Hands
  BY DEF QueueInv
<1>2. /\ pc' = [pc EXCEPT ![t] = place] /\ place \in AllPlaces /\ place # "wait"
  BY DEF Goto, AllPlaces, Busy
<1>3. /\ pc' \in [Thread -> AllPlaces] /\ pc'[t] = place
      /\ \A u \in Thread : u # t => pc'[u] = pc[u]
  BY <1>1, <1>2 DEF TypeQueues
<1>4. /\ UNCHANGED <<queue_mutex, notified, at, allow_gen, errors>>
      /\ UNCHANGED <<queues, signal, stopping, callbacks, requests, lookups>>
  BY DEF events, bounds
<1>5. /\ queue_mutex' \in Thread \cup {None} /\ notified' \in [Thread -> BOOLEAN]
      /\ at' \in [Thread -> Pos \cup {None}] /\ allow_gen' \in [Thread -> BOOLEAN]
      /\ errors' \in 0 .. MaxErrors /\ at'[t] # None
  BY <1>1, <1>4 DEF TypeQueues, Hands
<1>. QED
  BY <1>2, <1>3, <1>4, <1>5, LocalStep

LEMMA StartStep ==
  ASSUME QueueInv, NEW t \in Thread, pc[t] \in Busy, NEW mem, StartGen(t, mem),
         UNCHANGED <<queue_mutex, queues, events, requests, bounds>>
  PROVE  QueueInv'
<1>1. errors' \in 0 .. MaxErrors /\ lookups' = lookups
  BY DEF QueueInv, TypeQueues, bounds
<1>2. CASE Goto(t, "make") /\ UNCHANGED <<at, allow_gen, callbacks>>
  BY <1>2, KeepStep DEF Busy
<1>3. CASE Result(t)
  BY <1>1, <1>3, ResultStep
<1>. QED
  BY <1>2, <1>3 DEF StartGen

LEMMA LookQueue ==
  ASSUME QueueInv, NEW t \in Thread, Look(t)
  PROVE  QueueInv'
<1>1. /\ pc[t] \in Busy /\ UNCHANGED <<queue_mutex, queues, events, requests, bounds>>
      /\ errors' \in 0 .. MaxErrors /\ lookups' = lookups
  BY DEF Look, Busy, QueueInv, TypeQueues, bounds
<1>2. CASE Result(t)
  BY <1>1, <1>2, ResultStep
<1>3. CASE Goto(t, "read") /\ UNCHANGED <<at, allow_gen, callbacks>>
  BY <1>1, <1>3, KeepStep DEF Busy
<1>4. CASE StartGen(t, memory)
  BY <1>1, <1>4, StartStep
<1>. QED
  BY <1>2, <1>3, <1>4 DEF Look

LEMMA LoadQueue ==
  ASSUME QueueInv, NEW t \in Thread, Load(t)
  PROVE  QueueInv'
<1>1. /\ pc[t] \in Busy /\ UNCHANGED <<queue_mutex, queues, events, requests, bounds>>
      /\ errors' \in 0 .. MaxErrors /\ lookups' = lookups
  BY DEF Load, Busy, QueueInv, TypeQueues, bounds
<1>2. CASE Result(t)
  BY <1>1, <1>2, ResultStep
<1>3. CASE \E mem : StartGen(t, mem)
  BY <1>1, <1>3, StartStep
<1>. QED
  BY <1>2, <1>3 DEF Load


LEMMA FindNothingQueue ==
  ASSUME QueueInv, NEW t \in Thread, FindNothing(t)
  PROVE  QueueInv'
<1>1. TypeQueues /\ Hands
  BY DEF QueueInv
<1>2. /\ pc[t] = "pop" /\ pc' = [pc EXCEPT ![t] = "wait"] /\ m_block_queue[t] = <<>> /\ ~stopping
      /\ UNCHANGED <<queue_mutex, notified, at, allow_gen, errors>>
      /\ UNCHANGED <<queues, signal, stopping, callbacks, requests, lookups>>
  BY DEF FindNothing, Goto, events, bounds
<1>3. /\ pc' \in [Thread -> AllPlaces] /\ pc'[t] = "wait" /\ "wait" \notin Busy
      /\ \A u \in Thread : u # t => pc'[u] = pc[u]
  BY <1>1, <1>2 DEF TypeQueues, AllPlaces, Busy
<1>4. /\ queue_mutex' \in Thread \cup {None} /\ notified' \in [Thread -> BOOLEAN]
      /\ at' \in [Thread -> Pos \cup {None}] /\ allow_gen' \in [Thread -> BOOLEAN]
      /\ errors' \in 0 .. MaxErrors /\ at'[t] = None /\ callbacks[t] = {}
  BY <1>1, <1>2 DEF TypeQueues, Hands, Busy, Answering
<1>. QED
  BY <1>2, <1>3, <1>4, LocalStep

LEMMA WaitQueue ==
  ASSUME QueueInv, NEW t \in Thread, Wait(t)
  PROVE  QueueInv'
<1>1. TypeQueues /\ Hands
  BY DEF QueueInv
<1>2. /\ pc[t] = "wait" /\ pc' = [pc EXCEPT ![t] = "pop"]
      /\ notified' = [notified EXCEPT ![t] = FALSE]
      /\ UNCHANGED <<queue_mutex, at, allow_gen, errors>>
      /\ UNCHANGED <<queues, signal, stopping, callbacks, requests, lookups>>
  BY DEF Wait, Goto, bounds
<1>3. /\ pc' \in [Thread -> AllPlaces] /\ pc'[t] = "pop" /\ "pop" \notin Busy
      /\ notified' \in [Thread -> BOOLEAN]
      /\ \A u \in Thread : u # t => pc'[u] = pc[u] /\ notified'[u] = notified[u]
  BY <1>1, <1>2 DEF TypeQueues, AllPlaces, Busy
<1>4. /\ queue_mutex' \in Thread \cup {None}
      /\ at' \in [Thread -> Pos \cup {None}] /\ allow_gen' \in [Thread -> BOOLEAN]
      /\ errors' \in 0 .. MaxErrors /\ at'[t] = None /\ callbacks[t] = {}
  BY <1>1, <1>2 DEF TypeQueues, Hands, Busy, Answering
<1>. QED
  BY <1>2, <1>3, <1>4, LocalStep

LEMMA WorkQueue ==
  ASSUME QueueInv, NEW t \in Thread,
         Read(t) \/ MakeChunk(t) \/ CancelBlockMake(t) \/ FinishGen(t)
  PROVE  QueueInv'
<1>1. TypeQueues
  BY DEF QueueInv
<1>2. CASE Read(t)
  BY <1>2, KeepStep DEF Read, Busy
<1>3. CASE MakeChunk(t)
  BY <1>3, KeepStep DEF MakeChunk, Busy
<1>4. CASE CancelBlockMake(t)
  <2>1. errors' \in 0 .. MaxErrors
    <3>1. MaxErrors \in Nat
      BY EmergeAssumption
    <3>. QED
      BY <1>1, <1>4, <3>1 DEF CancelBlockMake, TypeQueues
  <2>. QED
    BY <1>4, <2>1, ResultStep DEF CancelBlockMake, Busy
<1>5. CASE FinishGen(t)
  <2>1. errors' \in 0 .. MaxErrors /\ lookups' = lookups
    BY <1>1, <1>5 DEF FinishGen, TypeQueues, bounds
  <2>. QED
    BY <1>5, <2>1, ResultStep DEF FinishGen, Busy
<1>. QED
  BY <1>2, <1>3, <1>4, <1>5

LEMMA CancelQueue ==
  ASSUME QueueInv, NEW t \in Thread, BeginCancel(t) \/ EndCancel(t)
  PROVE  QueueInv'
<1>1. TypeQueues /\ Hands
  BY DEF QueueInv
<1>2. PICK place \in {"cancel", "done"} : pc' = [pc EXCEPT ![t] = place]
  BY DEF BeginCancel, EndCancel, Goto
<1>3. /\ pc[t] \in {"pop", "cancel"} /\ queue_mutex' \in {t, None}
      /\ callbacks[t] = {} /\ at[t] = None
      /\ UNCHANGED <<notified, at, allow_gen, errors>>
      /\ UNCHANGED <<queues, signal, stopping, callbacks, requests, lookups>>
  <2>1. pc[t] \in {"pop", "cancel"} /\ queue_mutex' \in {t, None} /\ callbacks[t] = {}
    BY <1>1 DEF BeginCancel, EndCancel, Hands, Busy, Answering
  <2>2. at[t] = None
    BY <1>1, <2>1 DEF Hands, Busy
  <2>3. /\ UNCHANGED <<notified, at, allow_gen, errors>>
        /\ UNCHANGED <<queues, signal, stopping, callbacks, requests, lookups>>
    BY DEF BeginCancel, EndCancel, events, bounds
  <2>. QED
    BY <2>1, <2>2, <2>3
<1>4. /\ pc' \in [Thread -> AllPlaces] /\ pc'[t] = place /\ place \notin Busy /\ place # "wait"
      /\ \A u \in Thread : u # t => pc'[u] = pc[u]
  BY <1>1, <1>2 DEF TypeQueues, AllPlaces, Busy, Answering
<1>5. /\ queue_mutex' \in Thread \cup {None} /\ notified' \in [Thread -> BOOLEAN]
      /\ at' \in [Thread -> Pos \cup {None}] /\ allow_gen' \in [Thread -> BOOLEAN]
      /\ errors' \in 0 .. MaxErrors /\ at'[t] = None
  BY <1>1, <1>3 DEF TypeQueues
<1>. QED
  BY <1>3, <1>4, <1>5, LocalStep

\* A callback is run.
LEMMA AnswerStep ==
  ASSUME QueueInv, NEW t \in Thread, NEW r \in callbacks[t], NEW place \in AllPlaces,
         answers' = [answers EXCEPT ![r] = @ + 1],
         callbacks' = [callbacks EXCEPT ![t] = @ \ {r}],
         Goto(t, place), pc[t] \in Answering, place \in {"pop"} \cup Answering,
         callbacks'[t] # {} => place \in Answering,
         UNCHANGED <<queue_mutex, queues, events, at, allow_gen, asked, bounds>>
  PROVE  QueueInv'
<1>0. TypeQueues /\ Queued /\ CountsRight /\ Awake /\ Hands /\ Story
  BY DEF QueueInv
<1>1. UNCHANGED <<queue_mutex, m_blocks_enqueued, m_peer_queue_count, m_block_queue, notified,
                  signal, stopping, at, allow_gen, asked, lookups, errors>>
  BY DEF queues, events, bounds
<1>2. /\ pc' \in [Thread -> AllPlaces] /\ pc'[t] = place
      /\ \A u \in Thread : u # t => pc'[u] = pc[u]
  BY <1>0 DEF TypeQueues, Goto
<1>3. r \in Request /\ answers[r] = 0 /\ asked[r] # None
  BY <1>0 DEF TypeQueues, Story
<1>4. /\ answers' \in [Request -> 0 .. 1] /\ answers'[r] = 1
      /\ \A q \in Request : q # r => answers'[q] = answers[q]
      /\ callbacks' \in [Thread -> SUBSET Request] /\ callbacks'[t] = callbacks[t] \ {r}
      /\ \A u \in Thread : u # t => callbacks'[u] = callbacks[u]
  BY <1>0, <1>3 DEF TypeQueues
<1>5. TypeQueues'
  BY <1>0, <1>1, <1>2, <1>4 DEF TypeQueues
<1>6. Queued' /\ CountsRight'
  <2>1. Queued'
    BY <1>0, <1>1 DEF Queued, InQueue
  <2>2. Enqueued' = Enqueued
    BY <1>1 DEF Enqueued
  <2>3. CountsRight'
    BY <1>0, <1>1, <2>2 DEF CountsRight
  <2>. QED
    BY <2>1, <2>3
<1>7. Awake'
  BY <1>0, <1>1, <1>2 DEF Awake, Answering
<1>8. Hands'
  BY <1>0, <1>1, <1>2, <1>4 DEF Hands, Answering, Busy
<1>9. Story'
  <2>1. \A u \in Thread : r \notin callbacks'[u]
    BY <1>0, <1>4 DEF Story
  <2>2. \A p \in Pos : m_blocks_enqueued[p] # None => r \notin m_blocks_enqueued[p].callbacks
    BY <1>0 DEF Story
  <2>3. \A p \in Pos : m_blocks_enqueued[p] # None => m_blocks_enqueued[p].callbacks \subseteq Request
    BY <1>0, IsEntry
  <2>4. \A u \in Thread : callbacks'[u] \subseteq callbacks[u] /\ callbacks'[u] \subseteq Request
    BY <1>4
  <2>5. \A q \in Request : q # r => \A u \in Thread : q \in callbacks[u] <=> q \in callbacks'[u]
    BY <1>4
  <2>. QED
    BY <1>0, <1>1, <1>3, <1>4, <2>1, <2>2, <2>3, <2>4, <2>5 DEF Story
<1>. QED
  BY <1>5, <1>6, <1>7, <1>8, <1>9 DEF QueueInv

LEMMA AnswerQueue ==
  ASSUME QueueInv, NEW t \in Thread, Answer(t) \/ CancelCallback(t)
  PROVE  QueueInv'
<1>1. TypeQueues
  BY DEF QueueInv
<1>2. CASE Answer(t)
  <2>1. PICK r \in callbacks[t] :
          /\ answers' = [answers EXCEPT ![r] = @ + 1]
          /\ callbacks' = [callbacks EXCEPT ![t] = @ \ {r}]
          /\ Goto(t, IF callbacks[t] = {r} THEN "pop" ELSE "answer")
    BY <1>2 DEF Answer
  <2>2. callbacks'[t] = callbacks[t] \ {r} /\ pc[t] = "answer"
    BY <1>1, <1>2, <2>1 DEF TypeQueues, Answer
  <2>3. UNCHANGED <<queue_mutex, queues, events, at, allow_gen, asked, bounds>>
    BY <1>2 DEF Answer
  <2>4. CASE callbacks[t] = {r}
    BY <2>1, <2>2, <2>3, <2>4, AnswerStep DEF AllPlaces, Answering
  <2>5. CASE callbacks[t] # {r}
    BY <2>1, <2>2, <2>3, <2>5, AnswerStep DEF AllPlaces, Answering
  <2>. QED
    BY <2>4, <2>5
<1>3. CASE CancelCallback(t)
  <2>1. PICK r \in callbacks[t] :
          /\ answers' = [answers EXCEPT ![r] = @ + 1]
          /\ callbacks' = [callbacks EXCEPT ![t] = @ \ {r}]
    BY <1>3 DEF CancelCallback
  <2>2. pc[t] = "cancel" /\ Goto(t, "cancel")
    BY <1>1, <1>3 DEF TypeQueues, CancelCallback, Goto
  <2>3. UNCHANGED <<queue_mutex, queues, events, at, allow_gen, asked, bounds>>
    BY <1>3 DEF CancelCallback
  <2>. QED
    BY <2>1, <2>2, <2>3, AnswerStep DEF AllPlaces, Answering
<1>. QED
  BY <1>2, <1>3


\* The first of a queue is taken; its callbacks go to the thread, or nowhere.
LEMMA TakeStep ==
  ASSUME QueueInv, NEW t \in Thread, NEW p \in Pos, EntryInv',
         m_blocks_enqueued[p] # None, m_blocks_enqueued'[p] = None,
         \A q \in Pos : q # p => m_blocks_enqueued'[q] = m_blocks_enqueued[q],
         m_blocks_enqueued' \in [Pos -> Entry \cup {None}],
         m_peer_queue_count' \in [Requester -> Nat],
         m_block_queue' \in [Thread -> Seq(Pos)],
         \A u \in Thread : u # t => m_block_queue'[u] = m_block_queue[u],
         callbacks[t] = {},
         NEW calls, callbacks' = [callbacks EXCEPT ![t] = calls],
         calls = m_blocks_enqueued[p].callbacks \/ (calls = {} /\ p \in OverLimit),
         pc' \in [Thread -> AllPlaces], at' \in [Thread -> Pos \cup {None}],
         allow_gen' \in [Thread -> BOOLEAN], pc'[t] # "wait",
         \A u \in Thread : u # t => pc'[u] = pc[u] /\ at'[u] = at[u],
         at'[t] # None <=> pc'[t] \in Busy,
         calls # {} => pc'[t] \in Busy \cup Answering,
         UNCHANGED <<queue_mutex, events, requests, bounds>>
  PROVE  QueueInv'
<1>0. TypeQueues /\ Queued /\ CountsRight /\ Awake /\ Hands /\ Story /\ EntryInv
  BY DEF QueueInv, EntryInv
<1>1. UNCHANGED <<queue_mutex, notified, signal, stopping, answers, asked, lookups, errors>>
  BY DEF events, requests, bounds
<1>2. /\ EntryInv'
      /\ p \in Pos /\ m_blocks_enqueued[p] # None /\ m_blocks_enqueued'[p] = None
      /\ \A q \in Pos : q # p => m_blocks_enqueued'[q] = m_blocks_enqueued[q]
      /\ m_blocks_enqueued' \in [Pos -> Entry \cup {None}]
      /\ m_peer_queue_count' \in [Requester -> Nat]
      /\ m_block_queue' \in [Thread -> Seq(Pos)]
  OBVIOUS
<1>3. m_blocks_enqueued[p].callbacks \subseteq Request /\ calls \subseteq m_blocks_enqueued[p].callbacks
  BY <1>0, <1>2, IsEntry
<1>4. /\ callbacks' \in [Thread -> SUBSET Request] /\ callbacks'[t] = calls
      /\ \A u \in Thread : u # t => callbacks'[u] = callbacks[u]
  BY <1>0, <1>3 DEF TypeQueues
<1>5. TypeQueues'
  BY <1>0, <1>1, <1>2, <1>4 DEF TypeQueues
<1>6. Awake'
  <2>. SUFFICES ASSUME NEW u \in Thread, pc'[u] = "wait", m_block_queue'[u] # <<>> \/ stopping'
                PROVE  notified'[u] \/ signal' = u
    BY DEF Awake
  <2>1. u # t /\ m_block_queue'[u] = m_block_queue[u]
    BY <1>0 DEF TypeQueues
  <2>. QED
    BY <1>0, <1>1, <2>1 DEF Awake
<1>7. Hands'
  BY <1>0, <1>4 DEF Hands
<1>8. Story'
  <2>. DEFINE own == m_blocks_enqueued[p].callbacks
  <2>1. \A r \in own : /\ asked[r] = p /\ answers[r] = 0
                       /\ \A u \in Thread : r \notin callbacks[u]
                       /\ \A q \in Pos : m_blocks_enqueued'[q] # None => r \notin m_blocks_enqueued'[q].callbacks
    <3>. SUFFICES ASSUME NEW r \in own
                  PROVE  /\ asked[r] = p /\ answers[r] = 0
                         /\ \A u \in Thread : r \notin callbacks[u]
                         /\ \A q \in Pos : m_blocks_enqueued'[q] # None => r \notin m_blocks_enqueued'[q].callbacks
      OBVIOUS
    <3>1. asked[r] = p /\ answers[r] = 0
      BY <1>0, <1>2 DEF Story
    <3>2. \A u \in Thread : r \notin callbacks[u]
      BY <1>0, <1>2 DEF Story
    <3>3. \A q \in Pos : m_blocks_enqueued[q] # None /\ r \in m_blocks_enqueued[q].callbacks => q = p
      BY <1>0, <3>1 DEF Story
    <3>4. \A q \in Pos : m_blocks_enqueued'[q] # None => r \notin m_blocks_enqueued'[q].callbacks
      BY <1>2, <3>3
    <3>. QED
      BY <3>1, <3>2, <3>4
  <2>2. \A q \in Pos : m_blocks_enqueued'[q] # None =>
          /\ q # p /\ m_blocks_enqueued[q] # None
          /\ m_blocks_enqueued'[q].callbacks = m_blocks_enqueued[q].callbacks
    BY <1>2
  <2>3. \A q \in Pos : m_blocks_enqueued'[q] # None =>
          \A r \in m_blocks_enqueued'[q].callbacks : asked'[r] = q /\ answers'[r] = 0
    <3>. SUFFICES ASSUME NEW q \in Pos, m_blocks_enqueued'[q] # None,
                         NEW r \in m_blocks_enqueued'[q].callbacks
                  PROVE  asked'[r] = q /\ answers'[r] = 0
      OBVIOUS
    <3>1. m_blocks_enqueued[q] # None /\ r \in m_blocks_enqueued[q].callbacks
      BY <2>2
    <3>2. asked[r] = q /\ answers[r] = 0
      BY <1>0, <3>1 DEF Story
    <3>. QED
      BY <1>1, <3>2
  <2>4. ASSUME NEW u \in Thread, NEW r \in callbacks'[u]
        PROVE  /\ asked'[r] # None /\ answers'[r] = 0
               /\ \A q \in Pos : m_blocks_enqueued'[q] # None => r \notin m_blocks_enqueued'[q].callbacks
               /\ \A v \in Thread : r \in callbacks'[v] => v = u
    <3>1. CASE u = t
      <4>1. r \in own
        BY <1>3, <1>4, <2>4, <3>1
      <4>. QED
        BY <1>1, <1>2, <1>4, <2>1, <3>1, <4>1, NoneIsNothing
    <3>2. CASE u # t
      <4>1. r \in callbacks[u] /\ r \notin own
        BY <1>4, <2>1, <2>4, <3>2
      <4>2. r \notin calls
        BY <1>3, <4>1
      <4>. QED
        BY <1>0, <1>1, <1>4, <2>2, <4>1, <4>2 DEF Story
    <3>. QED
      BY <3>1, <3>2
  <2>5. ASSUME NEW r \in Request, asked'[r] \notin OverLimit \cup {None}
        PROVE  \/ \E q \in Pos : m_blocks_enqueued'[q] # None /\ r \in m_blocks_enqueued'[q].callbacks
               \/ \E u \in Thread : r \in callbacks'[u]
               \/ answers'[r] = 1
    <3>1. CASE r \in own
      <4>1. calls = own
        BY <1>1, <2>1, <2>5, <3>1
      <4>. QED
        BY <1>4, <3>1, <4>1
    <3>2. CASE r \notin own
      <4>1. \/ \E q \in Pos : m_blocks_enqueued[q] # None /\ r \in m_blocks_enqueued[q].callbacks
            \/ \E u \in Thread : r \in callbacks[u]
            \/ answers[r] = 1
        BY <1>0, <1>1, <2>5 DEF Story
      <4>2. ASSUME NEW q \in Pos, m_blocks_enqueued[q] # None, r \in m_blocks_enqueued[q].callbacks
            PROVE  m_blocks_enqueued'[q] # None /\ r \in m_blocks_enqueued'[q].callbacks
        BY <1>2, <3>2, <4>2
      <4>3. ASSUME NEW u \in Thread, r \in callbacks[u] PROVE r \in callbacks'[u]
        BY <1>4, <4>3
      <4>. QED
        BY <1>1, <4>1, <4>2, <4>3
    <3>. QED
      BY <3>1, <3>2
  <2>6. \A r \in Request : answers'[r] # 0 => asked'[r] # None
    BY <1>0, <1>1 DEF Story
  <2>. QED
    BY <2>3, <2>4, <2>5, <2>6 DEF Story
<1>. QED
  BY <1>2, <1>5, <1>6, <1>7, <1>8 DEF QueueInv, EntryInv

LEMMA TakeQueue ==
  ASSUME QueueInv, NEW t \in Thread, PopBlockEmerge(t) \/ CancelItem(t)
  PROVE  QueueInv'
<1>. DEFINE p == Head(m_block_queue[t])
<1>1. TypeQueues /\ Hands /\ EntryInv
  BY DEF QueueInv, EntryInv
<1>2. /\ m_block_queue[t] # <<>> /\ Take(p)
      /\ m_block_queue' = [m_block_queue EXCEPT ![t] = Tail(@)]
      /\ UNCHANGED <<queue_mutex, events, requests, bounds>>
  BY DEF PopBlockEmerge, CancelItem
<1>3. /\ EntryInv'
      /\ p \in Pos /\ m_blocks_enqueued[p] # None /\ m_blocks_enqueued'[p] = None
      /\ \A q \in Pos : q # p => m_blocks_enqueued'[q] = m_blocks_enqueued[q]
      /\ m_blocks_enqueued' \in [Pos -> Entry \cup {None}]
      /\ m_peer_queue_count' \in [Requester -> Nat]
      /\ m_block_queue' \in [Thread -> Seq(Pos)]
      /\ \A u \in Thread : u # t => m_block_queue'[u] = m_block_queue[u]
  <2>1. \A u \in Thread : u # t => m_block_queue'[u] = m_block_queue[u]
    BY <1>1, <1>2 DEF TypeQueues
  <2>. QED
    BY <1>1, <1>2, <2>1, RemoveEntry
<1>4. m_blocks_enqueued[p].gen \in BOOLEAN
  BY <1>1, <1>3, IsEntry
<1>5. callbacks[t] = {} /\ pc[t] \in {"pop", "cancel"} /\ at[t] = None
  <2>1. callbacks[t] = {} /\ pc[t] \in {"pop", "cancel"}
    BY <1>1 DEF PopBlockEmerge, CancelItem, Hands, Busy, Answering
  <2>. QED
    BY <1>1, <2>1 DEF Hands, Busy
<1>. HIDE DEF p
<1>6. CASE UNCHANGED threads /\ p \in OverLimit
  <2>1. UNCHANGED <<pc, at, allow_gen, callbacks>>
    BY <1>6 DEF threads
  <2>2. callbacks' = [callbacks EXCEPT ![t] = {}]
    BY <1>1, <1>5, <2>1 DEF TypeQueues
  <2>. QED
    BY <1>1, <1>2, <1>3, <1>5, <1>6, <2>1, <2>2, TakeStep DEF TypeQueues, Busy
<1>7. CASE /\ at' = [at EXCEPT ![t] = p]
           /\ allow_gen' = [allow_gen EXCEPT ![t] = m_blocks_enqueued[p].gen]
           /\ callbacks' = [callbacks EXCEPT ![t] = m_blocks_enqueued[p].callbacks]
           /\ Goto(t, "look")
  <2>1. /\ pc' \in [Thread -> AllPlaces] /\ pc'[t] = "look"
        /\ at' \in [Thread -> Pos \cup {None}] /\ at'[t] = p
        /\ allow_gen' \in [Thread -> BOOLEAN]
        /\ \A u \in Thread : u # t => pc'[u] = pc[u] /\ at'[u] = at[u]
    BY <1>1, <1>3, <1>4, <1>7 DEF TypeQueues, Goto, AllPlaces, Busy
  <2>2. p # None /\ "look" \in Busy
    BY <1>3, NoneIsNothing DEF Busy
  <2>. QED
    BY <1>2, <1>3, <1>5, <1>7, <2>1, <2>2, TakeStep
<1>8. CASE CancelItem(t)
  <2>1. /\ callbacks' = [callbacks EXCEPT ![t] = m_blocks_enqueued[p].callbacks]
        /\ UNCHANGED <<pc, at, allow_gen>> /\ pc[t] = "cancel"
    BY <1>8 DEF CancelItem, p
  <2>. QED
    BY <1>1, <1>2, <1>3, <1>5, <2>1, TakeStep DEF TypeQueues, Busy, Answering
<1>. QED
  BY <1>6, <1>7, <1>8 DEF PopBlockEmerge, p


\* A request is put, alone or on an entry that exists; r is the request that is asked, if any.
LEMMA PushStory ==
  ASSUME QueueInv, NEW p \in Pos, NEW calls \in SUBSET Request,
         (calls = {} /\ asked' = asked)
         \/ \E r \in Request : calls = {r} /\ asked[r] = None /\ asked' = [asked EXCEPT ![r] = p],
         NEW old \in SUBSET Request,
         old = IF m_blocks_enqueued[p] = None THEN {} ELSE m_blocks_enqueued[p].callbacks,
         m_blocks_enqueued'[p] # None, m_blocks_enqueued'[p].callbacks = old \cup calls,
         \A q \in Pos : q # p => m_blocks_enqueued'[q] = m_blocks_enqueued[q],
         UNCHANGED <<callbacks, answers>>
  PROVE  Story' /\ asked' \in [Request -> Pos \cup {None}]
<1>0. TypeQueues /\ Story
  BY DEF QueueInv
<1>1. /\ asked' \in [Request -> Pos \cup {None}]
      /\ \A r \in Request : IF r \in calls THEN asked[r] = None /\ asked'[r] = p
                            ELSE asked'[r] = asked[r]
  BY <1>0 DEF TypeQueues
<1>2. p # None
  BY NoneIsNothing
<1>3. \A r \in old : r \in Request /\ asked[r] = p /\ answers[r] = 0 /\ \A t \in Thread : r \notin callbacks[t]
  <2>. SUFFICES ASSUME NEW r \in old
                PROVE  /\ r \in Request /\ asked[r] = p /\ answers[r] = 0
                       /\ \A t \in Thread : r \notin callbacks[t]
    OBVIOUS
  <2>1. m_blocks_enqueued[p] # None /\ r \in m_blocks_enqueued[p].callbacks /\ r \in Request
    OBVIOUS
  <2>. QED
    BY <1>0, <2>1 DEF Story
\* A request not asked yet is nowhere.
<1>4. \A r \in calls : /\ r \in Request /\ answers[r] = 0 /\ \A t \in Thread : r \notin callbacks[t]
                       /\ \A q \in Pos : m_blocks_enqueued[q] # None => r \notin m_blocks_enqueued[q].callbacks
  <2>. SUFFICES ASSUME NEW r \in calls
                PROVE  /\ r \in Request /\ answers[r] = 0 /\ \A t \in Thread : r \notin callbacks[t]
                       /\ \A q \in Pos : m_blocks_enqueued[q] # None => r \notin m_blocks_enqueued[q].callbacks
    OBVIOUS
  <2>1. r \in Request /\ asked[r] = None
    BY <1>1
  <2>2. \A q \in Pos : m_blocks_enqueued[q] # None => r \notin m_blocks_enqueued[q].callbacks
    <3>. SUFFICES ASSUME NEW q \in Pos, m_blocks_enqueued[q] # None, r \in m_blocks_enqueued[q].callbacks
                  PROVE  FALSE
      OBVIOUS
    <3>1. asked[r] = q
      BY <1>0 DEF Story
    <3>. QED
      BY <2>1, <3>1, NoneIsNothing
  <2>. QED
    BY <1>0, <2>1, <2>2 DEF Story
<1>5. ASSUME NEW q \in Pos, m_blocks_enqueued'[q] # None, NEW r \in m_blocks_enqueued'[q].callbacks
      PROVE  asked'[r] = q /\ answers'[r] = 0
  <2>1. CASE q = p
    BY <1>1, <1>3, <1>4, <1>5, <2>1
  <2>2. CASE q # p
    <3>1. m_blocks_enqueued[q] # None /\ r \in m_blocks_enqueued[q].callbacks
      BY <1>5, <2>2
    <3>2. asked[r] = q /\ answers[r] = 0 /\ r \notin calls /\ r \in Request
      BY <1>0, <1>4, <3>1, IsEntry DEF Story
    <3>. QED
      BY <1>1, <3>2
  <2>. QED
    BY <2>1, <2>2
<1>6. ASSUME NEW t \in Thread, NEW r \in callbacks'[t]
      PROVE  /\ asked'[r] # None /\ answers'[r] = 0
             /\ \A q \in Pos : m_blocks_enqueued'[q] # None => r \notin m_blocks_enqueued'[q].callbacks
             /\ \A u \in Thread : r \in callbacks'[u] => u = t
  <2>1. r \in callbacks[t] /\ r \in Request /\ r \notin calls /\ r \notin old
    BY <1>0, <1>3, <1>4, <1>6 DEF TypeQueues
  <2>2. /\ asked[r] # None /\ answers[r] = 0
        /\ \A q \in Pos : m_blocks_enqueued[q] # None => r \notin m_blocks_enqueued[q].callbacks
        /\ \A u \in Thread : r \in callbacks[u] => u = t
    BY <1>0, <2>1 DEF Story
  <2>. QED
    BY <1>1, <2>1, <2>2
<1>7. \A r \in Request : answers'[r] # 0 => asked'[r] # None
  BY <1>0, <1>1, <1>2 DEF Story
<1>8. ASSUME NEW r \in Request, asked'[r] \notin OverLimit \cup {None}
      PROVE  \/ \E q \in Pos : m_blocks_enqueued'[q] # None /\ r \in m_blocks_enqueued'[q].callbacks
             \/ \E t \in Thread : r \in callbacks'[t]
             \/ answers'[r] = 1
  <2>1. CASE r \in calls
    BY <2>1
  <2>2. CASE r \notin calls
    <3>1. \/ \E q \in Pos : m_blocks_enqueued[q] # None /\ r \in m_blocks_enqueued[q].callbacks
          \/ \E t \in Thread : r \in callbacks[t]
          \/ answers[r] = 1
      BY <1>0, <1>1, <1>8, <2>2 DEF Story
    <3>2. ASSUME NEW q \in Pos, m_blocks_enqueued[q] # None, r \in m_blocks_enqueued[q].callbacks
          PROVE  m_blocks_enqueued'[q] # None /\ r \in m_blocks_enqueued'[q].callbacks
      BY <3>2
    <3>. QED
      BY <3>1, <3>2
  <2>. QED
    BY <2>1, <2>2
<1>9. Story'
  BY <1>5, <1>6, <1>7, <1>8 DEF Story
<1>. QED
  BY <1>1, <1>9

LEMMA PushStep ==
  ASSUME QueueInv, NEW peer \in Requester, NEW p \in Pos, NEW gen \in BOOLEAN,
         NEW calls \in SUBSET Request,
         Push(peer, p, gen, calls), signal = None,
         (calls = {} /\ asked' = asked)
         \/ \E r \in Request : calls = {r} /\ asked[r] = None /\ asked' = [asked EXCEPT ![r] = p],
         lookups' \in 0 .. MaxLookups,
         UNCHANGED <<queue_mutex, notified, stopping, threads, answers, errors>>
  PROVE  QueueInv'
<1>0. TypeQueues /\ EntryInv /\ Awake /\ Hands /\ Story
  BY DEF QueueInv, EntryInv
<1>1. UNCHANGED <<pc, at, allow_gen, callbacks>>
  BY DEF threads
<1>. DEFINE old == IF m_blocks_enqueued[p] = None THEN {} ELSE m_blocks_enqueued[p].callbacks
<1>2. /\ EntryInv'
      /\ m_blocks_enqueued' \in [Pos -> Entry \cup {None}]
      /\ m_peer_queue_count' \in [Requester -> Nat]
      /\ m_block_queue' \in [Thread -> Seq(Pos)]
      /\ signal' \in Thread \cup {None}
      /\ \A t \in Thread : signal' = t \/ m_block_queue'[t] = m_block_queue[t]
      /\ m_blocks_enqueued'[p] # None /\ m_blocks_enqueued'[p].callbacks = old \cup calls
      /\ \A q \in Pos : q # p => m_blocks_enqueued'[q] = m_blocks_enqueued[q]
  <2>1. CASE m_blocks_enqueued[p] # None
    <3>1. /\ m_blocks_enqueued' = [m_blocks_enqueued EXCEPT ![p].gen = @ \/ gen,
                                                           ![p].callbacks = @ \cup calls]
          /\ UNCHANGED <<m_peer_queue_count, m_block_queue, signal>>
      BY <2>1 DEF Push
    <3>2. /\ EntryInv' /\ m_blocks_enqueued' \in [Pos -> Entry \cup {None}]
          /\ m_blocks_enqueued'[p] # None
          /\ m_blocks_enqueued'[p].callbacks = m_blocks_enqueued[p].callbacks \cup calls
          /\ \A q \in Pos : q # p => m_blocks_enqueued'[q] = m_blocks_enqueued[q]
      BY <1>0, <2>1, <3>1, MergeEntry
    <3>. QED
      BY <1>0, <2>1, <3>1, <3>2 DEF TypeQueues
  <2>2. CASE m_blocks_enqueued[p] = None
    <3>. DEFINE e == [peer |-> peer, gen |-> gen, callbacks |-> calls]
    <3>1. /\ m_blocks_enqueued' = [m_blocks_enqueued EXCEPT ![p] = e]
          /\ m_peer_queue_count' = [m_peer_queue_count EXCEPT ![e.peer] = @ + 1]
          /\ m_block_queue' = [m_block_queue EXCEPT ![Optimal] = Append(@, p)]
          /\ signal' = Optimal
      BY <2>2 DEF Push
    <3>2. e \in Entry /\ e.callbacks = calls
      BY DEF Entry
    <3>3. Optimal \in Thread
      BY <1>0, OptimalIsThread
    <3>. HIDE DEF e
    <3>4. /\ EntryInv'
          /\ m_blocks_enqueued' \in [Pos -> Entry \cup {None}]
          /\ m_peer_queue_count' \in [Requester -> Nat]
          /\ m_block_queue' \in [Thread -> Seq(Pos)]
      BY <1>0, <2>2, <3>1, <3>2, <3>3, AddEntry
    <3>5. /\ m_blocks_enqueued'[p] = e
          /\ \A q \in Pos : q # p => m_blocks_enqueued'[q] = m_blocks_enqueued[q]
          /\ \A t \in Thread : t # Optimal => m_block_queue'[t] = m_block_queue[t]
      BY <1>0, <3>1 DEF TypeQueues
    <3>. QED
      BY <2>2, <3>1, <3>2, <3>3, <3>4, <3>5, NoneIsNothing
  <2>. QED
    BY <2>1, <2>2
<1>3. old \in SUBSET Request
  BY <1>0, IsEntry
<1>. HIDE DEF old
<1>4. Story' /\ asked' \in [Request -> Pos \cup {None}]
  BY <1>1, <1>2, <1>3, PushStory DEF old
<1>5. TypeQueues'
  BY <1>0, <1>1, <1>2, <1>4 DEF TypeQueues
<1>6. Awake'
  BY <1>0, <1>1, <1>2, NoneIsNothing DEF Awake
<1>7. Hands'
  BY <1>0, <1>1 DEF Hands
<1>. QED
  BY <1>2, <1>4, <1>5, <1>6, <1>7 DEF QueueInv, EntryInv

LEMMA PushQueue ==
  ASSUME QueueInv, NEW p \in Pos,
         \/ \E peer \in Requester, gen \in BOOLEAN : EnqueueBlockEmerge(peer, p, gen)
         \/ \E r \in Request : EmergeArea(r, p)
  PROVE  QueueInv'
<1>1. TypeQueues
  BY DEF QueueInv
<1>2. MaxLookups \in Nat
  BY EmergeAssumption
<1>3. ASSUME NEW peer \in Requester, NEW gen \in BOOLEAN, EnqueueBlockEmerge(peer, p, gen)
      PROVE  QueueInv'
  <2>1. lookups' \in 0 .. MaxLookups
    BY <1>1, <1>2, <1>3 DEF EnqueueBlockEmerge, TypeQueues
  <2>2. /\ Push(peer, p, gen, {}) /\ signal = None /\ asked' = asked
        /\ UNCHANGED <<queue_mutex, notified, stopping, threads, answers, errors>>
    BY <1>3 DEF EnqueueBlockEmerge, requests
  <2>. QED
    BY <2>1, <2>2, PushStep
<1>4. ASSUME NEW r \in Request, EmergeArea(r, p)
      PROVE  QueueInv'
  <2>1. lookups' \in 0 .. MaxLookups
    BY <1>1, <1>4 DEF EmergeArea, TypeQueues, bounds
  <2>2. /\ Push(None, p, TRUE, {r}) /\ signal = None
        /\ asked[r] = None /\ asked' = [asked EXCEPT ![r] = p]
        /\ UNCHANGED <<queue_mutex, notified, stopping, threads, answers, errors>>
    BY <1>4 DEF EmergeArea, bounds
  <2>3. None \in Requester /\ {r} \in SUBSET Request
    BY DEF Requester
  <2>. QED
    BY <2>1, <2>2, <2>3, PushStep
<1>. QED
  BY <1>3, <1>4

LEMMA ServerQueue ==
  ASSUME QueueInv,
         Signal \/ StopThreads \/ \E p \in Pos : Unload(p) \/ LoadBlock(p) \/ DeleteBlock(p)
  PROVE  QueueInv'
<1>0. TypeQueues /\ Queued /\ CountsRight /\ Awake /\ Hands /\ Story
  BY DEF QueueInv
<1>1. UNCHANGED <<queue_mutex, queues, threads, requests, errors>>
  BY DEF Signal, StopThreads, Unload, LoadBlock, DeleteBlock, bounds
<1>2. UNCHANGED <<queue_mutex, m_blocks_enqueued, m_peer_queue_count, m_block_queue, pc, at,
                  allow_gen, callbacks, answers, asked, errors>>
  BY <1>1 DEF queues, threads, requests
<1>3. lookups' \in 0 .. MaxLookups
  <2>1. MaxLookups \in Nat
    BY EmergeAssumption
  <2>. QED
    BY <1>0, <2>1 DEF Signal, StopThreads, Unload, LoadBlock, DeleteBlock, bounds, TypeQueues
<1>4. /\ notified' \in [Thread -> BOOLEAN] /\ signal' \in Thread \cup {None} /\ stopping' \in BOOLEAN
      /\ \A t \in Thread : notified[t] \/ signal = t => notified'[t] \/ signal' = t
      /\ stopping' # stopping => \A t \in Thread : notified'[t]
  <2>1. CASE Signal
    BY <1>0, <2>1 DEF Signal, TypeQueues
  <2>2. CASE StopThreads
    BY <1>0, <2>2 DEF StopThreads, TypeQueues
  <2>3. CASE UNCHANGED events
    BY <1>0, <2>3 DEF events, TypeQueues
  <2>. QED
    BY <2>1, <2>2, <2>3 DEF Unload, LoadBlock, DeleteBlock
<1>5. TypeQueues'
  BY <1>0, <1>2, <1>3, <1>4 DEF TypeQueues
<1>6. Queued' /\ CountsRight'
  <2>1. Queued'
    BY <1>0, <1>2 DEF Queued, InQueue
  <2>2. Enqueued' = Enqueued
    BY <1>2 DEF Enqueued
  <2>3. CountsRight'
    BY <1>0, <1>2, <2>2 DEF CountsRight
  <2>. QED
    BY <2>1, <2>3
<1>7. Awake'
  BY <1>0, <1>2, <1>4 DEF Awake
<1>8. Hands' /\ Story'
  BY <1>0, <1>2 DEF Hands, Story
<1>. QED
  BY <1>5, <1>6, <1>7, <1>8 DEF QueueInv

LEMMA QueueStutter ==
  ASSUME QueueInv, UNCHANGED vars
  PROVE  QueueInv'
<1>1. /\ UNCHANGED <<queue_mutex, m_blocks_enqueued, m_peer_queue_count, m_block_queue, pc, at,
                     allow_gen, callbacks, answers, asked, errors>>
      /\ UNCHANGED <<notified, signal, stopping, lookups>>
  BY DEF vars, queues, events, threads, requests, bounds
<1>2. Enqueued' = Enqueued
  BY <1>1 DEF Enqueued
<1>3. TypeQueues' /\ Queued'
  BY <1>1 DEF QueueInv, TypeQueues, Queued, InQueue
<1>4. CountsRight' /\ Awake'
  BY <1>1, <1>2 DEF QueueInv, CountsRight, Awake
<1>5. Hands' /\ Story'
  BY <1>1 DEF QueueInv, Hands, Story
<1>. QED
  BY <1>3, <1>4, <1>5 DEF QueueInv

LEMMA QueueInvariant == Spec => []QueueInv
<1>1. Init => QueueInv
  BY QueueInit
<1>2. QueueInv /\ [Next]_vars => QueueInv'
  <2>. SUFFICES ASSUME QueueInv, [Next]_vars PROVE QueueInv'
    OBVIOUS
  <2>1. CASE UNCHANGED vars
    BY <2>1, QueueStutter
  <2>2. CASE Server
    BY <2>2, PushQueue, ServerQueue DEF Server
  <2>3. ASSUME NEW t \in Thread, Run(t) PROVE QueueInv'
    BY <2>3, TakeQueue, FindNothingQueue, WaitQueue, LookQueue, LoadQueue, WorkQueue, AnswerQueue,
       CancelQueue DEF Run
  <2>. QED
    BY <2>1, <2>2, <2>3 DEF Next, Terminated
<1>. QED
  BY <1>1, <1>2, PTL DEF Spec

LEMMA QueuesAgreeAlways ==
  ASSUME QueueInv
  PROVE  QueuesAgree
BY OnePlace DEF QueueInv, QueuesAgree

\* The entries, the queues of the threads, the counts of the requesters and the events agree,
\* whatever the server deletes or unloads.
THEOREM QueuesInAgreement == Spec => []QueuesAgree
  BY QueueInvariant, QueuesAgreeAlways, PTL

\* Cardinalities of a story
LEMMA StoryCounts ==
  ASSUME QueueInv
  PROVE  RequestInOnePlace
<1>0. TypeQueues /\ Story
  BY DEF QueueInv
<1>. SUFFICES ASSUME NEW r \in Request, asked[r] # None
              PROVE  \/ Cardinality(Holders(r)) + Cardinality(Workers(r)) + answers[r] = 1
                     \/ /\ asked[r] \in OverLimit /\ Holders(r) = {} /\ Workers(r) = {}
                        /\ answers[r] = 0
  BY DEF RequestInOnePlace
<1>1. \A p \in Holders(r) : p = asked[r] /\ answers[r] = 0
  BY <1>0 DEF Story, Holders, Enqueued
<1>2. \A t \in Workers(r) : answers[r] = 0 /\ Holders(r) = {} /\ \A u \in Workers(r) : u = t
  BY <1>0 DEF Story, Holders, Enqueued, Workers
<1>3. answers[r] \in 0 .. 1
  BY <1>0 DEF TypeQueues
<1>4. Cardinality({}) = 0 /\ \A x : Cardinality({x}) = 1
  BY FS_EmptySet, FS_Singleton
<1>5. CASE Holders(r) # {}
  <2>1. Holders(r) = {asked[r]} /\ Workers(r) = {} /\ answers[r] = 0
    BY <1>1, <1>2, <1>5
  <2>2. Cardinality(Holders(r)) = 1 /\ Cardinality(Workers(r)) = 0
    BY <1>4, <2>1
  <2>. QED
    BY <2>1, <2>2
<1>6. CASE Workers(r) # {}
  <2>1. PICK t \in Workers(r) : TRUE
    BY <1>6
  <2>2. Workers(r) = {t} /\ Holders(r) = {} /\ answers[r] = 0
    BY <1>2, <2>1
  <2>3. Cardinality(Workers(r)) = 1 /\ Cardinality(Holders(r)) = 0
    BY <1>4, <2>2
  <2>. QED
    BY <2>2, <2>3
<1>7. CASE Holders(r) = {} /\ Workers(r) = {}
  <2>1. Cardinality(Holders(r)) = 0 /\ Cardinality(Workers(r)) = 0
    BY <1>4, <1>7
  <2>2. asked[r] \notin OverLimit => answers[r] = 1
    BY <1>0, <1>7 DEF Story, Holders, Enqueued, Workers
  <2>. QED
    BY <1>3, <1>7, <2>1, <2>2
<1>. QED
  BY <1>5, <1>6, <1>7

\* A call of core.emerge_area is with the entry of its block or with one thread, or it was
\* answered once, or its block is over the limit.
THEOREM RequestsInOnePlace == Spec => []RequestInOnePlace
  BY QueueInvariant, StoryCounts, PTL


-----------------------------------------------------------------------------
(* Somebody is there to answer *)

\* The mutex is held by the thread that cancels; the threads stop after stopThreads only, with
\* an empty queue; who is to answer has a callback to run.
ServeInv ==
  /\ \A t \in Thread : pc[t] = "cancel" <=> queue_mutex = t
  /\ \A t \in Thread : pc[t] \in {"cancel", "done"} => stopping
  /\ \A t \in Thread : pc[t] = "done" => m_block_queue[t] = <<>>
  /\ \A t \in Thread : pc[t] = "answer" => callbacks[t] # {}

\* A step of thread t by which the others neither move nor get work.
LEMMA ServeStep ==
  ASSUME TypeQueues, ServeInv, NEW t \in Thread, UNCHANGED <<queue_mutex, stopping>>,
         pc[t] \notin {"cancel", "done"}, pc'[t] \notin {"cancel", "done"},
         pc'[t] = "answer" => callbacks'[t] # {},
         \A u \in Thread : u # t => /\ pc'[u] = pc[u] /\ m_block_queue'[u] = m_block_queue[u]
                                    /\ callbacks'[u] = callbacks[u]
  PROVE  ServeInv'
BY DEF ServeInv

LEMMA ServePop ==
  ASSUME TypeQueues, ServeInv, NEW t \in Thread,
         PopBlockEmerge(t) \/ FindNothing(t) \/ Wait(t)
  PROVE  ServeInv'
<1>1. /\ pc[t] \in {"pop", "wait"} /\ UNCHANGED <<queue_mutex, stopping>>
      /\ \A u \in Thread : u # t => /\ pc'[u] = pc[u] /\ m_block_queue'[u] = m_block_queue[u]
                                    /\ callbacks'[u] = callbacks[u]
      /\ pc'[t] \in {"pop", "wait", "look"}
  BY DEF PopBlockEmerge, FindNothing, Wait, Goto, TypeQueues, queues, events, threads
<1>. QED
  BY <1>1, ServeStep

LEMMA ServeWork ==
  ASSUME TypeQueues, ServeInv, NEW t \in Thread,
         \/ Look(t) \/ Read(t) \/ Load(t) \/ MakeChunk(t) \/ CancelBlockMake(t) \/ FinishGen(t)
  PROVE  ServeInv'
<1>1. /\ pc[t] \in Busy
      /\ \/ Result(t)
         \/ \E place \in Busy : Goto(t, place) /\ UNCHANGED callbacks
  BY DEF Look, Read, Load, MakeChunk, CancelBlockMake, FinishGen, StartGen, Busy
<1>2. UNCHANGED <<queue_mutex, stopping, m_block_queue, callbacks>>
  <2>1. UNCHANGED <<queue_mutex, queues, events>>
    BY DEF Look, Read, Load, MakeChunk, CancelBlockMake, FinishGen
  <2>. QED
    BY <1>1, <2>1 DEF queues, events, Result
<1>3. /\ \A u \in Thread : u # t => pc'[u] = pc[u]
      /\ pc'[t] \in Busy \cup {"pop", "answer"}
      /\ pc'[t] = "answer" => callbacks[t] # {}
  BY <1>1 DEF Result, Goto, TypeQueues, Busy
<1>. QED
  BY <1>1, <1>2, <1>3, ServeStep DEF Busy

LEMMA ServeAnswer ==
  ASSUME TypeQueues, ServeInv, NEW t \in Thread, Answer(t)
  PROVE  ServeInv'
<1>1. PICK r \in callbacks[t] :
        /\ callbacks' = [callbacks EXCEPT ![t] = @ \ {r}]
        /\ Goto(t, IF callbacks[t] = {r} THEN "pop" ELSE "answer")
  BY DEF Answer
<1>2. /\ pc[t] = "answer" /\ UNCHANGED <<queue_mutex, stopping, m_block_queue>>
      /\ callbacks'[t] = callbacks[t] \ {r}
      /\ \A u \in Thread : u # t => pc'[u] = pc[u] /\ callbacks'[u] = callbacks[u]
  BY <1>1 DEF Answer, Goto, TypeQueues, queues, events
<1>3. pc'[t] \in {"pop", "answer"} /\ (pc'[t] = "answer" => callbacks[t] # {r})
  BY <1>1 DEF Goto, TypeQueues
<1>4. callbacks[t] # {r} => callbacks'[t] # {}
  BY <1>2
<1>. QED
  BY <1>2, <1>3, <1>4, ServeStep

LEMMA ServeCancel ==
  ASSUME TypeQueues, ServeInv, NEW t \in Thread,
         BeginCancel(t) \/ CancelItem(t) \/ CancelCallback(t) \/ EndCancel(t)
  PROVE  ServeInv'
<1>1. \A u \in Thread : u # t => /\ m_block_queue'[u] = m_block_queue[u]
                                 /\ callbacks'[u] = callbacks[u]
  BY DEF BeginCancel, CancelItem, CancelCallback, EndCancel, TypeQueues, queues
<1>2. stopping' = stopping
  BY DEF BeginCancel, CancelItem, CancelCallback, EndCancel, events
<1>3. CASE BeginCancel(t)
  <2>1. /\ queue_mutex = None /\ queue_mutex' = t /\ stopping /\ pc' = [pc EXCEPT ![t] = "cancel"]
    BY <1>3 DEF BeginCancel, Goto
  <2>2. pc'[t] = "cancel" /\ \A u \in Thread : u # t => pc'[u] = pc[u] /\ pc[u] # "cancel"
    BY <2>1, NoneIsNothing DEF TypeQueues, ServeInv
  <2>. QED
    BY <1>1, <1>2, <2>1, <2>2 DEF ServeInv
<1>4. CASE CancelItem(t) \/ CancelCallback(t)
  <2>1. pc[t] = "cancel" /\ UNCHANGED <<queue_mutex, pc>>
    BY <1>4 DEF CancelItem, CancelCallback
  <2>. QED
    BY <1>1, <1>2, <2>1 DEF ServeInv
<1>5. CASE EndCancel(t)
  <2>1. /\ pc[t] = "cancel" /\ queue_mutex' = None /\ pc' = [pc EXCEPT ![t] = "done"]
        /\ m_block_queue[t] = <<>> /\ m_block_queue' = m_block_queue
    BY <1>5 DEF EndCancel, Goto, queues
  <2>2. pc'[t] = "done" /\ \A u \in Thread : u # t => pc'[u] = pc[u] /\ pc[u] # "cancel"
    BY <2>1 DEF TypeQueues, ServeInv
  <2>3. stopping /\ \A u \in Thread : queue_mutex' # u
    BY <2>1, NoneIsNothing DEF ServeInv
  <2>. QED
    BY <1>1, <1>2, <2>1, <2>2, <2>3 DEF ServeInv
<1>. QED
  BY <1>3, <1>4, <1>5

\* The server gives no work to threads that stop.
LEMMA ServeServer ==
  ASSUME ServeInv, Server
  PROVE  ServeInv'
<1>1. UNCHANGED <<queue_mutex, threads>> /\ (stopping => stopping')
  <2>1. UNCHANGED <<queue_mutex, threads>>
    BY DEF Server, Signal, StopThreads, EnqueueBlockEmerge, EmergeArea, Unload, LoadBlock,
           DeleteBlock
  <2>2. (stopping' = stopping) \/ stopping'
    BY DEF Server, Signal, StopThreads, EnqueueBlockEmerge, EmergeArea, Unload, LoadBlock,
           DeleteBlock, events
  <2>. QED
    BY <2>1, <2>2
<1>2. stopping => m_block_queue' = m_block_queue
  BY DEF Server, Signal, StopThreads, EnqueueBlockEmerge, EmergeArea, Unload, LoadBlock,
         DeleteBlock, queues
<1>. QED
  BY <1>1, <1>2 DEF ServeInv, threads

LEMMA ServeInvariant == Spec => []ServeInv
<1>1. Init => ServeInv
  BY NoneIsNothing DEF Init, ServeInv
<1>2. QueueInv /\ ServeInv /\ [Next]_vars => ServeInv'
  <2>. SUFFICES ASSUME QueueInv, ServeInv, [Next]_vars PROVE ServeInv'
    OBVIOUS
  <2>1. TypeQueues
    BY DEF QueueInv
  <2>2. CASE UNCHANGED vars
    BY <2>2 DEF ServeInv, vars, queues, events, threads
  <2>3. CASE Server
    BY <2>3, ServeServer
  <2>4. ASSUME NEW t \in Thread, Run(t) PROVE ServeInv'
    BY <2>1, <2>4, ServePop, ServeWork, ServeAnswer, ServeCancel DEF Run
  <2>. QED
    BY <2>2, <2>3, <2>4 DEF Next, Terminated
<1>. QED
  BY <1>1, <1>2, QueueInvariant, PTL DEF Spec

\* Where a thread has an action to take: it does not wait for an event or for the mutex.
CanRun(t) ==
  \/ pc[t] = "pop" /\ queue_mutex = None
  \/ pc[t] = "wait" /\ notified[t]
  \/ pc[t] \in Busy \cup Answering

HasRequest(t, r) ==
  \/ r \in callbacks[t]
  \/ \E n \in 1 .. Len(m_block_queue[t]) : r \in m_blocks_enqueued[m_block_queue[t][n]].callbacks

\* A request that is not answered yet is with a thread that can go on, or is about to be
\* signalled, or waits for the mutex of a thread that can go on.
SomebodyServes ==
  \A r \in Request :
    asked[r] \notin OverLimit \cup {None} /\ answers[r] = 0 =>
      \E t \in Thread :
        /\ HasRequest(t, r)
        /\ \/ CanRun(t)
           \/ signal = t
           \/ pc[t] = "pop" /\ \E u \in Thread \ {t} : queue_mutex = u /\ CanRun(u)

LEMMA HolderServes ==
  ASSUME QueueInv, ServeInv, NEW t \in Thread,
         callbacks[t] # {} \/ m_block_queue[t] # <<>>
  PROVE  \/ CanRun(t)
         \/ signal = t
         \/ pc[t] = "pop" /\ \E u \in Thread \ {t} : queue_mutex = u /\ CanRun(u)
<1>1. TypeQueues /\ Awake /\ Hands
  BY DEF QueueInv
<1>2. pc[t] # "done"
  BY <1>1 DEF ServeInv, Hands, Busy, Answering
<1>3. CASE pc[t] = "wait"
  <2>1. m_block_queue[t] # <<>>
    BY <1>1, <1>3 DEF Hands, Busy, Answering
  <2>. QED
    BY <1>1, <1>3, <2>1 DEF Awake, CanRun
<1>4. CASE pc[t] = "pop" /\ queue_mutex # None
  <2>1. PICK u \in Thread : queue_mutex = u
    BY <1>1, <1>4 DEF TypeQueues
  <2>2. pc[u] = "cancel"
    BY <2>1 DEF ServeInv
  <2>. QED
    BY <1>4, <2>1, <2>2 DEF CanRun, Answering
<1>. QED
  BY <1>1, <1>2, <1>3, <1>4 DEF TypeQueues, AllPlaces, CanRun

LEMMA ServesNow ==
  ASSUME QueueInv, ServeInv
  PROVE  SomebodyServes
<1>. SUFFICES ASSUME NEW r \in Request, asked[r] \notin OverLimit \cup {None}, answers[r] = 0
              PROVE  \E t \in Thread : HasRequest(t, r) /\ (callbacks[t] # {} \/ m_block_queue[t] # <<>>)
  BY HolderServes DEF SomebodyServes
<1>1. TypeQueues /\ Queued /\ Story
  BY DEF QueueInv
<1>2. CASE \E t \in Thread : r \in callbacks[t]
  BY <1>2 DEF HasRequest
<1>3. CASE \E p \in Pos : m_blocks_enqueued[p] # None /\ r \in m_blocks_enqueued[p].callbacks
  <2>1. PICK p \in Pos : m_blocks_enqueued[p] # None /\ r \in m_blocks_enqueued[p].callbacks
    BY <1>3
  <2>2. PICK t \in Thread : \E n \in 1 .. Len(m_block_queue[t]) : m_block_queue[t][n] = p
    BY <1>1, <2>1 DEF Queued, InQueue
  <2>3. HasRequest(t, r) /\ m_block_queue[t] # <<>>
    BY <2>1, <2>2 DEF HasRequest
  <2>. QED
    BY <2>3
<1>. QED
  BY <1>1, <1>2, <1>3 DEF Story

\* The safety half of Answered: no wake-up is lost, no thread stops with work left, and the
\* mutex is never held by a thread that cannot go on. Fairness is all that is missing then.
THEOREM RequestsAreServed == Spec => []SomebodyServes
  BY QueueInvariant, ServeInvariant, ServesNow, PTL
=============================================================================
