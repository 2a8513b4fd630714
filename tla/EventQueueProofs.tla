------------------------- MODULE EventQueueProofs -------------------------
(***************************************************************************)
(* The heap and the list of queues are priority queues, for every set of   *)
(* priorities and every number of values: each step of EventQueue is a     *)
(* step of PriorityQueue or leaves its variables alone.                    *)
(***************************************************************************)
EXTENDS EventQueue, FiniteSetTheorems, WellFoundedInduction, TLAPS

-----------------------------------------------------------------------------
(* Lemmas about heaps *)

\* A set of indices that has an element has a least one, because the intervals 1..m are
\* well ordered by inclusion.
LEMMA LeastIndex ==
  ASSUME NEW len \in Nat, NEW S, S \subseteq 1..len, S # {}
  PROVE  \E m \in S : \A n \in S : m <= n
<1>. DEFINE R == StrictSubsetOrdering(1..len)
            T == {1..m : m \in S}
<1>1. \A m \in S : IsFiniteSet(1..m) /\ 1..m \subseteq 1..len
  BY FS_Interval
<1>2. T \subseteq FiniteSubsetsOf(1..len) /\ T # {}
  BY <1>1 DEF FiniteSubsetsOf
<1>3. \E x \in T : \A y \in T : ~(<<y, x>> \in R)
  <2>. HIDE DEF R, T
  <2>1. IsWellFoundedOn(R, FiniteSubsetsOf(1..len))
    BY FS_StrictSubsetOrderingWellFounded DEF R
  <2>. QED
    BY <2>1, <1>2, WFMin
<1>4. PICK m \in S : \A n \in S : ~(<<1..n, 1..m>> \in R)
  BY <1>3
<1>5. ASSUME NEW n \in S, n < m PROVE <<1..n, 1..m>> \in R
  <2>1. 1..n \subseteq 1..m /\ m \in 1..m /\ m \notin 1..n
    BY <1>5
  <2>2. <<1..n, 1..m>> \in (SUBSET (1..len)) \X (SUBSET (1..len))
    BY <1>1
  <2>. QED
    BY <2>1, <2>2 DEF StrictSubsetOrdering
<1>6. \A n \in S : ~(n < m)
  <2>. HIDE DEF R
  <2>. QED
    BY <1>4, <1>5
<1>. QED
  BY <1>6

\* A parent comes before its children.
LEMMA Parent ==
  ASSUME NEW k \in Nat, k >= 2
  PROVE  k \div 2 \in Nat /\ 1 <= k \div 2 /\ k \div 2 < k
  OBVIOUS

\* A node has two children.
LEMMA Children ==
  ASSUME NEW k \in Nat
  PROVE  /\ (2 * k) \div 2 = k /\ (2 * k + 1) \div 2 = k
         /\ \A j \in Nat : j \div 2 = k => j = 2 * k \/ j = 2 * k + 1
  OBVIOUS

\* What leaves the heap is a least entry.
LEMMA RootIsLeast ==
  ASSUME TypeOK, HeapOrder, pc = "idle", NEW k \in DOMAIN heap
  PROVE  heap[1].prio <= heap[k].prio
<1>. DEFINE Less == {j \in DOMAIN heap : heap[j].prio < heap[1].prio}
<1>1. Len(heap) \in Nat /\ DOMAIN heap = 1..Len(heap)
  BY DEF TypeOK
<1>2. \A j \in DOMAIN heap : heap[j].prio \in Nat /\ j \in Nat \ {0} /\ j <= Len(heap)
  <2>1. \A j \in DOMAIN heap : heap[j] \in Entry
    BY DEF TypeOK
  <2>2. \A e \in Entry : e.prio \in Nat
    BY PrioAssumption DEF Entry
  <2>. QED
    BY <1>1, <2>1, <2>2
<1>3. SUFFICES ASSUME Less # {} PROVE FALSE
  BY <1>1, <1>2
<1>4. PICK m \in Less : \A n \in Less : m <= n
  BY <1>1, <1>2, <1>3, LeastIndex
<1>5. m >= 2
  BY <1>2
<1>6. m \div 2 \in DOMAIN heap /\ m \div 2 < m
  BY <1>1, <1>2, <1>5, Parent
<1>7. heap[m \div 2].prio <= heap[m].prio
  BY <1>1, <1>2, <1>5 DEF HeapOrder
<1>8. m \div 2 \in Less
  BY <1>1, <1>2, <1>6, <1>7
<1>. QED
  BY <1>2, <1>4, <1>6, <1>8

\* A swap moves entries and loses none.
LEMMA SwapKeeps ==
  ASSUME NEW S, NEW h \in Seq(S), NEW a \in DOMAIN h, NEW b \in DOMAIN h
  PROVE  /\ Swap(h, a, b) \in Seq(S)
         /\ Len(Swap(h, a, b)) = Len(h) /\ DOMAIN Swap(h, a, b) = DOMAIN h
         /\ \A k \in DOMAIN h : Swap(h, a, b)[k] = IF k = a THEN h[b] ELSE IF k = b THEN h[a] ELSE h[k]
<1>1. /\ Swap(h, a, b) \in Seq(S)
      /\ Len(Swap(h, a, b)) = Len(h) /\ DOMAIN Swap(h, a, b) = DOMAIN h
  BY DEF Swap
<1>2. \A k \in DOMAIN h : Swap(h, a, b)[k] = IF k = a THEN h[b] ELSE IF k = b THEN h[a] ELSE h[k]
  BY DEF Swap
<1>. QED
  BY <1>1, <1>2

-----------------------------------------------------------------------------
(* The heap *)

HeapInv ==
  /\ HeapOrder
  /\ \A a, b \in DOMAIN heap : heap[a].val = heap[b].val => a = b
  /\ \A a \in DOMAIN heap : heap[a].val < arrived
  /\ ordered => heap = <<>> /\ pc = "idle"

\* What the proofs use of the heap's type.
LEMMA HeapType ==
  ASSUME TypeOK
  PROVE  /\ Len(heap) \in Nat /\ DOMAIN heap = 1..Len(heap)
         /\ \A k \in DOMAIN heap : heap[k] \in Entry /\ heap[k].prio \in Nat /\ heap[k].val \in Nat
<1>1. Len(heap) \in Nat /\ DOMAIN heap = 1..Len(heap) /\ \A k \in DOMAIN heap : heap[k] \in Entry
  BY DEF TypeOK
<1>2. \A e \in Entry : e.prio \in Nat /\ e.val \in Nat
  BY PrioAssumption DEF Entry
<1>. QED
  BY <1>1, <1>2

\* A swap leaves the types, the entries and their number.
LEMMA SwapStep ==
  ASSUME TypeOK, HeapInv, NEW a \in DOMAIN heap, NEW b \in DOMAIN heap,
         heap' = Swap(heap, a, b), UNCHANGED arrived, ~ordered, UNCHANGED ordered
  PROVE  /\ heap' \in Seq(Entry) /\ HeapEntries' = HeapEntries
         /\ Len(heap') = Len(heap) /\ DOMAIN heap' = DOMAIN heap
         /\ \A k \in DOMAIN heap : heap'[k] = IF k = a THEN heap[b] ELSE IF k = b THEN heap[a] ELSE heap[k]
         /\ \A c, d \in DOMAIN heap' : heap'[c].val = heap'[d].val => c = d
         /\ \A c \in DOMAIN heap' : heap'[c].val < arrived'
<1>1. heap \in Seq(Entry)
  BY DEF TypeOK
<1>2. /\ heap' \in Seq(Entry) /\ HeapEntries' = HeapEntries
      /\ Len(heap') = Len(heap) /\ DOMAIN heap' = DOMAIN heap
      /\ \A k \in DOMAIN heap : heap'[k] = IF k = a THEN heap[b] ELSE IF k = b THEN heap[a] ELSE heap[k]
  <2>1. /\ heap' \in Seq(Entry) /\ Len(heap') = Len(heap) /\ DOMAIN heap' = DOMAIN heap
        /\ \A k \in DOMAIN heap : heap'[k] = IF k = a THEN heap[b] ELSE IF k = b THEN heap[a] ELSE heap[k]
    BY <1>1, SwapKeeps
  <2>2. HeapEntries' = HeapEntries
    BY <2>1 DEF HeapEntries
  <2>. QED
    BY <2>1, <2>2
<1>. QED
  BY <1>2 DEF HeapInv

LEMMA SiftUpStep ==
  ASSUME TypeOK, HeapInv, SiftUp
  PROVE  TypeOK' /\ HeapInv' /\ HeapEntries' = HeapEntries
<1>1. /\ pc = "up" /\ ~ordered /\ UNCHANGED <<ordered, queues, size, arrived, returned>>
      /\ i \in DOMAIN heap /\ i \in Nat \ {0} /\ i <= Len(heap)
  BY HeapType DEF SiftUp, HeapInv, TypeOK, lists
<1>2. CASE i # 1 /\ heap[i \div 2].prio > heap[i].prio
  <2>. DEFINE parent == i \div 2
  <2>1. heap' = Swap(heap, i, parent) /\ i' = parent /\ pc' = "up"
    BY <1>1, <1>2 DEF SiftUp
  <2>2. parent \in DOMAIN heap /\ parent \in Nat \ {0} /\ parent < i
    BY <1>1, <1>2, HeapType, Parent
  <2>3. /\ heap' \in Seq(Entry) /\ HeapEntries' = HeapEntries
        /\ Len(heap') = Len(heap) /\ DOMAIN heap' = DOMAIN heap
        /\ \A k \in DOMAIN heap :
              heap'[k] = IF k = i THEN heap[parent] ELSE IF k = parent THEN heap[i] ELSE heap[k]
        /\ \A c, d \in DOMAIN heap' : heap'[c].val = heap'[d].val => c = d
        /\ \A c \in DOMAIN heap' : heap'[c].val < arrived'
    BY <1>1, <2>1, <2>2, SwapStep
  <2>4. TypeOK'
    BY <1>1, <2>1, <2>2, <2>3 DEF TypeOK, IsQueue
  <2>5. HeapOrder'
    <3>. SUFFICES ASSUME NEW k \in 2..Len(heap)
                  PROVE  /\ k # parent => heap'[k \div 2].prio <= heap'[k].prio
                         /\ k \div 2 = parent /\ parent # 1 => heap'[parent \div 2].prio <= heap'[k].prio
      BY <2>1, <2>3 DEF HeapOrder
    <3>. DEFINE up == k \div 2
    <3>1. k \in DOMAIN heap /\ up \in DOMAIN heap /\ up < k
      BY HeapType, Parent
    <3>2. parent # 1 => parent \div 2 \in DOMAIN heap /\ parent \div 2 < parent /\ parent \in 2..Len(heap)
      BY <1>1, <2>2, HeapType, Parent
    <3>3. \A j \in DOMAIN heap : heap[j].prio \in Nat
      BY HeapType
    <3>4. k # i => heap[up].prio <= heap[k].prio
      BY <1>1 DEF HeapInv, HeapOrder
    <3>5. up = i => heap[parent].prio <= heap[k].prio
      BY <1>1, <1>2 DEF HeapInv, HeapOrder
    <3>6. parent # 1 => heap[parent \div 2].prio <= heap[parent].prio
      BY <1>1, <2>2, <3>2 DEF HeapInv, HeapOrder
    <3>7. k # parent => heap'[up].prio <= heap'[k].prio
      <4>1. CASE k = i
        BY <1>1, <1>2, <2>2, <2>3, <3>1, <3>3, <4>1
      <4>2. CASE k # i /\ up = i
        BY <1>1, <1>2, <2>2, <2>3, <3>1, <3>3, <3>5, <4>2
      <4>3. CASE k # i /\ up = parent
        BY <1>1, <1>2, <2>2, <2>3, <3>1, <3>3, <3>4, <4>3
      <4>4. CASE k # i /\ up # i /\ up # parent
        BY <2>3, <3>1, <3>4, <4>4
      <4>. QED
        BY <4>1, <4>2, <4>3, <4>4
    <3>8. up = parent /\ parent # 1 => heap'[parent \div 2].prio <= heap'[k].prio
      BY <1>1, <1>2, <2>2, <2>3, <3>1, <3>2, <3>3, <3>4, <3>6
    <3>. QED
      BY <3>7, <3>8
  <2>. QED
    BY <1>1, <2>1, <2>3, <2>4, <2>5 DEF HeapInv
<1>3. CASE ~(i # 1 /\ heap[i \div 2].prio > heap[i].prio)
  <2>1. pc' = "idle" /\ heap' = heap /\ i' = i
    BY <1>1, <1>3 DEF SiftUp
  <2>2. TypeOK' /\ HeapEntries' = HeapEntries
    BY <1>1, <2>1 DEF TypeOK, HeapEntries, IsQueue
  <2>3. HeapOrder'
    <3>. SUFFICES ASSUME NEW k \in 2..Len(heap)
                  PROVE  heap[k \div 2].prio <= heap[k].prio
      BY <2>1 DEF HeapOrder
    <3>1. heap[k \div 2].prio \in Nat /\ heap[k].prio \in Nat
      BY HeapType, Parent
    <3>2. CASE k = i
      BY <1>3, <3>1, <3>2
    <3>3. CASE k # i
      BY <1>1, <3>3 DEF HeapInv, HeapOrder
    <3>. QED
      BY <3>2, <3>3
  <2>. QED
    BY <1>1, <2>1, <2>2, <2>3 DEF HeapInv
<1>. QED
  BY <1>2, <1>3

\* heapify swaps with a child that is less than i and not more than the other child.
LEMMA LeastChild ==
  ASSUME TypeOK, i \in DOMAIN heap
  PROVE  /\ Least \in DOMAIN heap
         /\ Least # i => Least \div 2 = i /\ Least > i /\ heap[Least].prio < heap[i].prio
         /\ \A k \in 2..Len(heap) : k \div 2 = i => heap[Least].prio <= heap[k].prio
<1>1. /\ i \in Nat \ {0} /\ i <= Len(heap) /\ Len(heap) \in Nat /\ DOMAIN heap = 1..Len(heap)
      /\ \A k \in DOMAIN heap : heap[k].prio \in Nat
  BY HeapType
<1>. DEFINE l == 2 * i
            r == 2 * i + 1
            min == IF l <= Len(heap) /\ heap[l].prio < heap[i].prio THEN l ELSE i
            least == IF r <= Len(heap) /\ heap[r].prio < heap[min].prio THEN r ELSE min
<1>2. /\ l \in Nat /\ l > i /\ r \in Nat /\ r > i /\ l \div 2 = i /\ r \div 2 = i /\ l # r
      /\ \A k \in 2..Len(heap) : k \div 2 = i => k = l \/ k = r
  <2>1. l \div 2 = i /\ r \div 2 = i /\ \A k \in Nat : k \div 2 = i => k = l \/ k = r
    BY <1>1, Children
  <2>2. l \in Nat /\ l > i /\ r \in Nat /\ r > i /\ l # r
    BY <1>1
  <2>. HIDE DEF l, r
  <2>3. \A k \in 2..Len(heap) : k \in Nat
    BY <1>1
  <2>. QED
    BY <2>1, <2>2, <2>3
<1>3. Least = least
  BY DEF Least
<1>. HIDE DEF l, r
<1>4. /\ min \in DOMAIN heap /\ min \in {i, l} /\ heap[min].prio <= heap[i].prio
      /\ min # i => heap[min].prio < heap[i].prio
      /\ l <= Len(heap) => heap[min].prio <= heap[l].prio
  BY <1>1, <1>2
<1>. HIDE DEF min
<1>5. /\ least \in DOMAIN heap /\ least \in {min, r} /\ heap[least].prio <= heap[min].prio
      /\ least # min => heap[least].prio < heap[min].prio
      /\ r <= Len(heap) => heap[least].prio <= heap[r].prio
  BY <1>1, <1>2, <1>4
<1>. HIDE DEF least
<1>6. least # i => least \div 2 = i /\ least > i /\ heap[least].prio < heap[i].prio
  BY <1>1, <1>2, <1>4, <1>5
<1>7. ASSUME NEW k \in 2..Len(heap), k \div 2 = i PROVE heap[least].prio <= heap[k].prio
  <2>1. k \in DOMAIN heap /\ k <= Len(heap) /\ (k = l \/ k = r)
    BY <1>1, <1>2, <1>7
  <2>. QED
    BY <1>1, <1>4, <1>5, <2>1
<1>. QED
  BY <1>3, <1>5, <1>6, <1>7

LEMMA SiftDownStep ==
  ASSUME TypeOK, HeapInv, SiftDown
  PROVE  TypeOK' /\ HeapInv' /\ HeapEntries' = HeapEntries
<1>1. /\ pc = "down" /\ ~ordered /\ UNCHANGED <<ordered, queues, size, arrived, returned>>
      /\ i \in Nat \ {0}
      /\ Len(heap) \in Nat /\ DOMAIN heap = 1..Len(heap)
      /\ \A j \in DOMAIN heap : heap[j].prio \in Nat
  BY HeapType DEF SiftDown, HeapInv, TypeOK, lists
<1>2. CASE Least # i
  <2>1. heap' = Swap(heap, i, Least) /\ i' = Least /\ pc' = "down"
    BY <1>1, <1>2 DEF SiftDown
  <2>2. i \in DOMAIN heap
    BY <1>1, <1>2 DEF Least
  <2>3. /\ Least \in DOMAIN heap
        /\ Least \div 2 = i /\ Least > i /\ heap[Least].prio < heap[i].prio
        /\ \A k \in 2..Len(heap) : k \div 2 = i => heap[Least].prio <= heap[k].prio
    BY <1>2, <2>2, LeastChild
  <2>. DEFINE child == Least
  <2>. HIDE DEF child
  <2>4. /\ child \in DOMAIN heap /\ i' = child /\ child \in 2..Len(heap)
        /\ child \div 2 = i /\ child > i /\ heap[child].prio < heap[i].prio
        /\ \A k \in 2..Len(heap) : k \div 2 = i => heap[child].prio <= heap[k].prio
    BY <1>1, <2>1, <2>3 DEF child
  <2>5. /\ heap' \in Seq(Entry) /\ HeapEntries' = HeapEntries
        /\ Len(heap') = Len(heap) /\ DOMAIN heap' = DOMAIN heap
        /\ \A k \in DOMAIN heap :
              heap'[k] = IF k = i THEN heap[child] ELSE IF k = child THEN heap[i] ELSE heap[k]
        /\ \A c, d \in DOMAIN heap' : heap'[c].val = heap'[d].val => c = d
        /\ \A c \in DOMAIN heap' : heap'[c].val < arrived'
    BY <1>1, <2>1, <2>2, <2>4, SwapStep DEF child
  <2>6. TypeOK'
    BY <1>1, <2>1, <2>4, <2>5 DEF TypeOK, IsQueue
  <2>7. HeapOrder'
    <3>. SUFFICES ASSUME NEW k \in 2..Len(heap)
                  PROVE  /\ k \div 2 # child => heap'[k \div 2].prio <= heap'[k].prio
                         /\ k \div 2 = child => heap'[child \div 2].prio <= heap'[k].prio
      BY <2>1, <2>4, <2>5 DEF HeapOrder
    <3>. DEFINE up == k \div 2
    <3>1. k \in DOMAIN heap /\ up \in DOMAIN heap /\ up < k
      BY <1>1, Parent
    <3>2. up # i => heap[up].prio <= heap[k].prio
      BY <1>1 DEF HeapInv, HeapOrder
    <3>3. up = i /\ i # 1 => heap[i \div 2].prio <= heap[k].prio
      BY <1>1 DEF HeapInv, HeapOrder
    <3>. HIDE DEF up
    <3>4. up # child => heap'[up].prio <= heap'[k].prio
      <4>1. CASE up = i /\ k = child
        BY <1>1, <2>2, <2>4, <2>5, <3>1, <4>1
      <4>2. CASE up = i /\ k # child
        BY <1>1, <2>2, <2>4, <2>5, <3>1, <4>2 DEF up
      <4>3. CASE up # i /\ k = i
        <5>1. i # 1 /\ heap[up].prio <= heap[child].prio
          BY <1>1, <2>4, <4>3 DEF HeapInv, HeapOrder, up
        <5>. QED
          BY <2>5, <3>1, <4>3, <5>1
      <4>4. CASE up # i /\ k = child
        BY <2>4, <4>4 DEF up
      <4>5. CASE up # i /\ k # i /\ k # child
        BY <2>5, <3>1, <3>2, <4>5
      <4>. QED
        BY <4>1, <4>2, <4>3, <4>4, <4>5
    <3>5. up = child => heap'[i].prio <= heap'[k].prio
      BY <1>1, <2>2, <2>4, <2>5, <3>1, <3>2
    <3>. QED
      BY <2>4, <3>4, <3>5 DEF up
  <2>. QED
    BY <1>1, <2>1, <2>5, <2>6, <2>7 DEF HeapInv
<1>3. CASE Least = i
  <2>1. pc' = "idle" /\ heap' = heap /\ i' = i
    BY <1>1, <1>3 DEF SiftDown
  <2>2. TypeOK' /\ HeapEntries' = HeapEntries
    BY <1>1, <2>1 DEF TypeOK, HeapEntries, IsQueue
  <2>3. HeapOrder'
    <3>. SUFFICES ASSUME NEW k \in 2..Len(heap)
                  PROVE  heap[k \div 2].prio <= heap[k].prio
      BY <2>1 DEF HeapOrder
    <3>1. CASE k \div 2 = i
      <4>1. i \in DOMAIN heap
        BY <1>1, <3>1, Parent
      <4>. QED
        BY <1>3, <3>1, <4>1, LeastChild
    <3>2. CASE k \div 2 # i
      BY <1>1, <3>2 DEF HeapInv, HeapOrder
    <3>. QED
      BY <3>1, <3>2
  <2>. QED
    BY <1>1, <2>1, <2>2, <2>3 DEF HeapInv
<1>. QED
  BY <1>2, <1>3

LEMMA HeapEnqueueStep ==
  ASSUME TypeOK, HeapInv, NEW prio \in Prio, ~ordered, pc = "idle", HeapEnqueue(prio),
         arrived' = arrived + 1, UNCHANGED <<ordered, lists, returned>>
  PROVE  /\ TypeOK' /\ HeapInv'
         /\ HeapEntries' = HeapEntries \cup {[prio |-> prio, val |-> arrived]}
<1>. DEFINE e == [prio |-> prio, val |-> arrived]
<1>1. /\ heap \in Seq(Entry) /\ arrived \in Nat /\ e \in Entry /\ e.prio = prio /\ e.val = arrived
      /\ heap' = Append(heap, e)
  BY DEF TypeOK, HeapEnqueue, Entry
<1>2. Len(heap) \in Nat /\ DOMAIN heap = 1..Len(heap)
  BY HeapType
<1>3. \A k \in DOMAIN heap : heap[k].prio \in Nat /\ heap[k].val \in Nat
  BY HeapType
<1>. HIDE DEF e
<1>4. /\ heap' \in Seq(Entry) /\ Len(heap') = Len(heap) + 1 /\ DOMAIN heap' = 1..(Len(heap) + 1)
      /\ \A k \in DOMAIN heap : heap'[k] = heap[k]
      /\ heap'[Len(heap) + 1] = e
  BY <1>1, <1>2
<1>5. i' = Len(heap) + 1 /\ pc' = "up"
  BY <1>4 DEF HeapEnqueue
<1>6. TypeOK'
  BY <1>1, <1>2, <1>4, <1>5 DEF TypeOK, IsQueue, lists
<1>7. HeapEntries' = HeapEntries \cup {e}
  BY <1>2, <1>4 DEF HeapEntries
<1>8. HeapOrder'
  <2>. SUFFICES ASSUME NEW k \in 2..(Len(heap) + 1)
                PROVE  /\ k # Len(heap) + 1 => heap'[k \div 2].prio <= heap'[k].prio
                       /\ k \div 2 # Len(heap) + 1
    BY <1>2, <1>4, <1>5 DEF HeapOrder
  <2>1. k \div 2 \in DOMAIN heap
    BY <1>2, Parent
  <2>2. k \in DOMAIN heap => heap[k \div 2].prio <= heap[k].prio
    BY <1>2 DEF HeapInv, HeapOrder
  <2>. QED
    BY <1>2, <1>4, <2>1, <2>2
<1>9. \A c, d \in DOMAIN heap' : heap'[c].val = heap'[d].val => c = d
  BY <1>1, <1>2, <1>3, <1>4 DEF HeapInv
<1>10. \A c \in DOMAIN heap' : heap'[c].val < arrived'
  BY <1>1, <1>2, <1>3, <1>4 DEF HeapInv
<1>. QED
  BY <1>6, <1>7, <1>8, <1>9, <1>10 DEF HeapInv, e

LEMMA HeapDequeueStep ==
  ASSUME TypeOK, HeapInv, ~ordered, pc = "idle", HeapDequeue, UNCHANGED <<ordered, lists, arrived>>
  PROVE  /\ TypeOK' /\ HeapInv'
         /\ \/ HeapEntries = {} /\ HeapEntries' = {} /\ returned' = Nil
            \/ \E e \in HeapEntries : /\ \A f \in HeapEntries : e.prio <= f.prio
                                      /\ returned' = e.val
                                      /\ HeapEntries' = HeapEntries \ {e}
<1>1. /\ heap \in Seq(Entry) /\ Len(heap) \in Nat /\ DOMAIN heap = 1..Len(heap)
      /\ \A k \in DOMAIN heap : heap[k].prio \in Nat /\ heap[k].val \in Nat /\ heap[k] \in Entry
  BY HeapType DEF TypeOK
<1>2. CASE heap = <<>>
  <2>1. returned' = Nil /\ UNCHANGED <<heap, i, pc>>
    BY <1>2 DEF HeapDequeue, heaps
  <2>2. TypeOK'
    BY <2>1 DEF TypeOK, IsQueue, lists
  <2>3. HeapInv'
    BY <2>1 DEF HeapInv, HeapOrder
  <2>4. HeapEntries = {} /\ HeapEntries' = {}
    BY <1>2, <2>1 DEF HeapEntries
  <2>. QED
    BY <2>1, <2>2, <2>3, <2>4
<1>3. CASE heap # <<>>
  <2>. DEFINE n == Len(heap)
  <2>1. n \in Nat \ {0} /\ 1 \in DOMAIN heap /\ n \in DOMAIN heap
    BY <1>1, <1>3
  <2>2. /\ returned' = heap[1].val /\ i' = 1 /\ pc' = "down"
        /\ heap' = [k \in 1..(n - 1) |-> IF k = 1 THEN heap[n] ELSE heap[k]]
    BY <1>3 DEF HeapDequeue
  <2>3. /\ heap' \in Seq(Entry) /\ Len(heap') = n - 1 /\ DOMAIN heap' = 1..(n - 1)
        /\ \A k \in 1..(n - 1) : heap'[k] = IF k = 1 THEN heap[n] ELSE heap[k]
    BY <1>1, <2>1, <2>2
  <2>. HIDE DEF n
  <2>4. TypeOK'
    BY <1>1, <2>1, <2>2, <2>3 DEF TypeOK, IsQueue, lists
  <2>5. HeapOrder'
    <3>. SUFFICES ASSUME NEW k \in 2..(n - 1), k \div 2 # 1
                  PROVE  heap'[k \div 2].prio <= heap'[k].prio
      BY <2>2, <2>3 DEF HeapOrder
    <3>1. k \div 2 \in 2..(n - 1)
      BY <2>1, Parent
    <3>2. heap[k \div 2].prio <= heap[k].prio
      BY <2>1 DEF HeapInv, HeapOrder, n
    <3>. QED
      BY <2>1, <2>3, <3>1, <3>2
  <2>6. ASSUME NEW c \in DOMAIN heap', NEW d \in DOMAIN heap', heap'[c].val = heap'[d].val
        PROVE  c = d
    <3>. DEFINE from(k) == IF k = 1 THEN n ELSE k
    <3>1. /\ from(c) \in DOMAIN heap /\ heap'[c] = heap[from(c)]
          /\ from(d) \in DOMAIN heap /\ heap'[d] = heap[from(d)]
      BY <1>1, <2>1, <2>3 DEF n
    <3>2. from(c) = from(d)
      BY <2>6, <3>1 DEF HeapInv
    <3>. QED
      BY <2>1, <2>3, <3>2
  <2>7. \A c \in DOMAIN heap' : heap'[c].val < arrived'
    BY <1>1, <2>1, <2>3 DEF HeapInv, n
  <2>8. HeapInv'
    BY <2>2, <2>5, <2>6, <2>7 DEF HeapInv
  <2>9. \A f \in HeapEntries : heap[1].prio <= f.prio
    BY RootIsLeast DEF HeapEntries, HeapInv
  <2>10. HeapEntries' = HeapEntries \ {heap[1]}
    <3>1. \A k \in DOMAIN heap : k # 1 => heap[k] # heap[1]
      BY <2>1 DEF HeapInv
    <3>2. HeapEntries' \subseteq HeapEntries \ {heap[1]}
      BY <1>1, <2>1, <2>3, <3>1 DEF HeapEntries, n
    <3>3. ASSUME NEW k \in DOMAIN heap, k # 1 PROVE heap[k] \in HeapEntries'
      <4>1. CASE k = n
        <5>1. 1 \in DOMAIN heap' /\ heap'[1] = heap[k]
          BY <1>1, <2>1, <2>3, <3>3, <4>1 DEF n
        <5>. QED
          BY <5>1 DEF HeapEntries
      <4>2. CASE k # n
        <5>1. k \in DOMAIN heap' /\ heap'[k] = heap[k]
          BY <1>1, <2>1, <2>3, <3>3, <4>2 DEF n
        <5>. QED
          BY <5>1 DEF HeapEntries
      <4>. QED
        BY <4>1, <4>2
    <3>. QED
      BY <3>2, <3>3 DEF HeapEntries
  <2>11. heap[1] \in HeapEntries
    BY <2>1 DEF HeapEntries
  <2>. QED
    BY <2>2, <2>4, <2>8, <2>9, <2>10, <2>11
<1>. QED
  BY <1>2, <1>3

-----------------------------------------------------------------------------
(* The ordered list of queues *)

Slots(q) == q.front..(q.back - 1)
Queue == [back : Nat, front : Nat, cell : UNION {[s -> Nat] : s \in SUBSET Int}]
Pair == [prio : Prio, queue : Queue]

EntriesOf(qs) ==
  UNION {{[prio |-> qs[k].prio, val |-> qs[k].queue.cell[n]] :
            n \in qs[k].queue.front..(qs[k].queue.back - 1)} : k \in DOMAIN qs}

\* The queue's values grow from its front to its back, and are old.
Rising(q) == \A m \in Slots(q) : q.cell[m] < arrived /\ \A n \in Slots(q) : m < n => q.cell[m] < q.cell[n]

ListInv ==
  /\ queues \in Seq(Pair)
  /\ \A k \in DOMAIN queues : IsQueue(queues[k].queue)
  /\ \A j, k \in DOMAIN queues : j < k => queues[j].prio < queues[k].prio
  /\ \A k \in DOMAIN queues : Rising(queues[k].queue)
  /\ IsFiniteSet(QueueEntries) /\ Cardinality(QueueEntries) = size

LEMMA InEntries ==
  ASSUME NEW qs, NEW e
  PROVE  e \in EntriesOf(qs) <=>
           \E k \in DOMAIN qs : \E n \in Slots(qs[k].queue) :
             e = [prio |-> qs[k].prio, val |-> qs[k].queue.cell[n]]
  BY DEF EntriesOf, Slots

LEMMA QueueIsQueue ==
  ASSUME NEW q, IsQueue(q)
  PROVE  q \in Queue
<1>1. q.cell \in UNION {[s -> Nat] : s \in SUBSET Int}
  <2>1. q.front..(q.back - 1) \in SUBSET Int /\ q.cell \in [q.front..(q.back - 1) -> Nat]
    BY DEF IsQueue
  <2>. QED
    BY <2>1
<1>. QED
  BY <1>1 DEF IsQueue, Queue

LEMMA PutSome ==
  ASSUME NEW q, IsQueue(q), NEW v \in Nat
  PROVE  /\ IsQueue(Put(q, v))
         /\ Slots(Put(q, v)) = Slots(q) \cup {q.back} /\ q.back \notin Slots(q)
         /\ \A n \in Slots(q) : Put(q, v).cell[n] = q.cell[n] /\ n < q.back
         /\ Put(q, v).cell[q.back] = v
  BY DEF IsQueue, Put, Slots

LEMMA PutFirst ==
  ASSUME NEW v \in Nat
  PROVE  /\ IsQueue(Put(EmptyQueue, v))
         /\ Slots(Put(EmptyQueue, v)) = {3}
         /\ Put(EmptyQueue, v).cell[3] = v
  BY DEF IsQueue, Put, Slots, EmptyQueue

LEMMA TakenRest ==
  ASSUME NEW q, IsQueue(q)
  PROVE  /\ QueueSize(Taken(q)) # 0 => IsQueue(Taken(q))
         /\ Slots(Taken(q)) = Slots(q) \ {q.front} /\ q.front \in Slots(q)
         /\ QueueSize(Taken(q)) = 0 => Slots(q) = {q.front}
         /\ \A n \in Slots(q) : q.front <= n
         /\ \A n \in Slots(Taken(q)) : Taken(q).cell[n] = q.cell[n]
  BY DEF IsQueue, Taken, Slots, QueueSize

\* What holds of the list when arrived moves on, and what TypeOK takes from it.
ListShape(qs) ==
  /\ qs \in Seq(Pair)
  /\ \A k \in DOMAIN qs : IsQueue(qs[k].queue)

LEMMA ListType ==
  ASSUME NEW qs, ListShape(qs)
  PROVE  /\ Len(qs) \in Nat /\ DOMAIN qs = 1..Len(qs)
         /\ \A k \in DOMAIN qs : /\ qs[k] = [prio |-> qs[k].prio, queue |-> qs[k].queue]
                                 /\ qs[k].prio \in Prio /\ qs[k].prio \in Nat
                                 /\ qs[k] \in Pair /\ IsQueue(qs[k].queue)
<1>1. Len(qs) \in Nat /\ DOMAIN qs = 1..Len(qs) /\ \A k \in DOMAIN qs : qs[k] \in Pair
  BY DEF ListShape
<1>2. ASSUME NEW x \in Pair
      PROVE  x = [prio |-> x.prio, queue |-> x.queue] /\ x.prio \in Prio /\ x.prio \in Nat
  <2>1. x = [prio |-> x.prio, queue |-> x.queue] /\ x.prio \in Prio
    BY DEF Pair
  <2>. QED
    BY <2>1, PrioAssumption
<1>. QED
  BY <1>1, <1>2 DEF ListShape

\* A value is put at the end of a queue that is in the list.
LEMMA PutKnown ==
  ASSUME TypeOK, ListInv, NEW prio \in Prio, NEW k \in Known(prio), arrived' = arrived + 1,
         queues' = [queues EXCEPT ![k] = [prio |-> prio, queue |-> Put(queues[k].queue, arrived)]]
  PROVE  /\ ListShape(queues')
         /\ \A a, b \in DOMAIN queues' : a < b => queues'[a].prio < queues'[b].prio
         /\ (\A a \in DOMAIN queues : Rising(queues[a].queue))'
         /\ QueueEntries' = QueueEntries \cup {[prio |-> prio, val |-> arrived]}
<1>. DEFINE q == queues[k].queue
            e == [prio |-> prio, val |-> arrived]
<1>1. ListShape(queues) /\ arrived \in Nat
  BY DEF ListInv, ListShape, TypeOK
<1>2. /\ Len(queues) \in Nat /\ DOMAIN queues = 1..Len(queues) /\ k \in DOMAIN queues
      /\ queues[k].prio = prio /\ IsQueue(q)
  BY <1>1, ListType DEF Known
<1>3. /\ IsQueue(Put(q, arrived))
      /\ Slots(Put(q, arrived)) = Slots(q) \cup {q.back} /\ q.back \notin Slots(q)
      /\ \A n \in Slots(q) : Put(q, arrived).cell[n] = q.cell[n] /\ n < q.back
      /\ Put(q, arrived).cell[q.back] = arrived
  BY <1>1, <1>2, PutSome
<1>. DEFINE q2 == Put(q, arrived)
<1>4. [prio |-> prio, queue |-> q2] \in Pair
  BY <1>3, QueueIsQueue DEF Pair
<1>5. /\ DOMAIN queues' = DOMAIN queues /\ queues'[k].prio = prio /\ queues'[k].queue = q2
      /\ \A j \in DOMAIN queues : j # k => queues'[j] = queues[j]
  BY <1>2
<1>6. ListShape(queues')
  <2>1. queues' \in Seq(Pair)
    BY <1>1, <1>2, <1>4 DEF ListShape
  <2>2. \A j \in DOMAIN queues' : IsQueue(queues'[j].queue)
    BY <1>1, <1>3, <1>5, ListType
  <2>. QED
    BY <2>1, <2>2 DEF ListShape
<1>7. \A a, b \in DOMAIN queues' : a < b => queues'[a].prio < queues'[b].prio
  BY <1>2, <1>5 DEF ListInv
<1>8. ASSUME NEW a \in DOMAIN queues' PROVE Rising(queues[a].queue)'
  <2>1. Rising(queues[a].queue)
    BY <1>5, <1>8 DEF ListInv
  <2>2. IsQueue(queues[a].queue)
    BY <1>1, <1>5, <1>8, ListType
  <2>3. CASE a # k
    <3>1. queues'[a].queue = queues[a].queue
      BY <1>5, <1>8, <2>3
    <3>2. \A m \in Slots(queues[a].queue) : queues[a].queue.cell[m] \in Nat
      BY <2>2 DEF IsQueue, Slots
    <3>3. \A m \in Slots(queues[a].queue) : queues[a].queue.cell[m] < arrived + 1
      BY <1>1, <2>1, <3>2 DEF Rising
    <3>. QED
      BY <2>1, <3>1, <3>3 DEF Rising
  <2>4. CASE a = k
    <3>1. queues'[a].queue = q2 /\ Rising(q) /\ IsQueue(q)
      BY <1>5, <2>1, <2>2, <2>4
    <3>2. \A m \in Slots(q) : q.cell[m] \in Nat /\ m \in Int
      BY <3>1 DEF IsQueue, Slots
    <3>3. q.back \in Nat
      BY <3>1 DEF IsQueue
    <3>. HIDE DEF q2, q
    <3>4. /\ Slots(q2) = Slots(q) \cup {q.back}
          /\ \A n \in Slots(q) : q2.cell[n] = q.cell[n] /\ n < q.back
          /\ q2.cell[q.back] = arrived
      BY <1>3 DEF q2
    <3>5. \A m \in Slots(q2) : q2.cell[m] < arrived + 1 /\ \A n \in Slots(q2) : m < n => q2.cell[m] < q2.cell[n]
      BY <1>1, <3>1, <3>2, <3>3, <3>4 DEF Rising
    <3>. QED
      BY <3>1, <3>5 DEF Rising
  <2>. QED
    BY <2>3, <2>4
<1>9. EntriesOf(queues') = EntriesOf(queues) \cup {e}
  <2>. HIDE DEF e
  <2>1. ASSUME NEW x \in EntriesOf(queues') PROVE x \in EntriesOf(queues) \cup {e}
    <3>0. PICK j \in DOMAIN queues' : \E n \in Slots(queues'[j].queue) :
            x = [prio |-> queues'[j].prio, val |-> queues'[j].queue.cell[n]]
      BY ONLY <2>1, InEntries
    <3>1. PICK n \in Slots(queues'[j].queue) :
            x = [prio |-> queues'[j].prio, val |-> queues'[j].queue.cell[n]]
      BY <3>0
    <3>2. CASE j # k
      BY <1>5, <3>1, <3>2, InEntries
    <3>3. CASE j = k /\ n = q.back
      BY <1>3, <1>5, <3>1, <3>3 DEF e
    <3>4. CASE j = k /\ n # q.back
      <4>1. n \in Slots(q) /\ x = [prio |-> queues[k].prio, val |-> q.cell[n]]
        BY <1>2, <1>3, <1>5, <3>1, <3>4
      <4>. QED
        BY <1>2, <4>1, InEntries
    <3>. QED
      BY <3>2, <3>3, <3>4
  <2>2. e \in EntriesOf(queues')
    <3>1. q.back \in Slots(queues'[k].queue) /\ e = [prio |-> queues'[k].prio, val |-> queues'[k].queue.cell[q.back]]
      BY <1>3, <1>5 DEF e
    <3>. QED
      BY <1>2, <1>5, <3>1, InEntries
  <2>3. ASSUME NEW x \in EntriesOf(queues) PROVE x \in EntriesOf(queues')
    <3>0. PICK j \in DOMAIN queues : \E n \in Slots(queues[j].queue) :
            x = [prio |-> queues[j].prio, val |-> queues[j].queue.cell[n]]
      BY <2>3, InEntries
    <3>1. PICK n \in Slots(queues[j].queue) :
            x = [prio |-> queues[j].prio, val |-> queues[j].queue.cell[n]]
      BY <3>0
    <3>2. n \in Slots(queues'[j].queue) /\ x = [prio |-> queues'[j].prio, val |-> queues'[j].queue.cell[n]]
      BY <1>2, <1>3, <1>5, <3>1
    <3>. QED
      BY <1>5, <3>1, <3>2, InEntries
  <2>. QED
    BY <2>1, <2>2, <2>3
<1>10. QueueEntries' = QueueEntries \cup {e}
  BY <1>9 DEF QueueEntries, EntriesOf
<1>. QED
  BY <1>6, <1>7, <1>8, <1>10

\* A value of a new priority gets a queue in its place of the list.
LEMMA PutNew ==
  ASSUME TypeOK, ListInv, NEW prio \in Prio, Known(prio) = {}, arrived' = arrived + 1,
         NEW k \in Places(prio),
         queues' = Inserted(k, [prio |-> prio, queue |-> Put(EmptyQueue, arrived)])
  PROVE  /\ ListShape(queues')
         /\ \A a, b \in DOMAIN queues' : a < b => queues'[a].prio < queues'[b].prio
         /\ (\A a \in DOMAIN queues : Rising(queues[a].queue))'
         /\ QueueEntries' = QueueEntries \cup {[prio |-> prio, val |-> arrived]}
<1>. DEFINE q == Put(EmptyQueue, arrived)
            e == [prio |-> prio, val |-> arrived]
            old(j) == IF j < k THEN j ELSE j - 1
<1>1. ListShape(queues) /\ arrived \in Nat
  BY DEF ListInv, ListShape, TypeOK
<1>2. /\ Len(queues) \in Nat /\ DOMAIN queues = 1..Len(queues)
      /\ \A j \in DOMAIN queues : queues[j].prio \in Nat /\ queues[j] \in Pair /\ IsQueue(queues[j].queue)
  BY <1>1, ListType
<1>3. /\ k \in 1..(Len(queues) + 1) /\ prio \in Nat
      /\ \A j \in DOMAIN queues : j < k <=> queues[j].prio < prio
      /\ \A j \in DOMAIN queues : queues[j].prio # prio
  BY PrioAssumption DEF Places, Known
<1>4. IsQueue(q) /\ Slots(q) = {3} /\ q.cell[3] = arrived
  BY <1>1, PutFirst
<1>5. [prio |-> prio, queue |-> q] \in Pair
  BY <1>4, QueueIsQueue DEF Pair
<1>6. /\ DOMAIN queues' = 1..(Len(queues) + 1)
      /\ queues'[k].prio = prio /\ queues'[k].queue = q
      /\ \A j \in DOMAIN queues' : j # k => old(j) \in DOMAIN queues /\ queues'[j] = queues[old(j)]
  BY <1>2, <1>3 DEF Inserted
<1>7. ListShape(queues')
  <2>1. queues' \in Seq(Pair)
    BY <1>2, <1>3, <1>5 DEF Inserted
  <2>2. \A j \in DOMAIN queues' : IsQueue(queues'[j].queue)
    BY <1>2, <1>4, <1>6
  <2>. QED
    BY <2>1, <2>2 DEF ListShape
<1>8. ASSUME NEW a \in DOMAIN queues', NEW b \in DOMAIN queues', a < b
      PROVE  queues'[a].prio < queues'[b].prio
  <2>1. \A c, d \in DOMAIN queues : c < d => queues[c].prio < queues[d].prio
    BY DEF ListInv
  <2>2. CASE a = k
    <3>1. old(b) \in DOMAIN queues /\ queues'[b] = queues[old(b)] /\ ~(old(b) < k)
      BY <1>3, <1>6, <1>8, <2>2
    <3>. QED
      BY <1>2, <1>3, <1>6, <2>2, <3>1
  <2>3. CASE b = k
    <3>1. old(a) \in DOMAIN queues /\ queues'[a] = queues[old(a)] /\ old(a) < k
      BY <1>3, <1>6, <1>8, <2>3
    <3>. QED
      BY <1>2, <1>3, <1>6, <2>3, <3>1
  <2>4. CASE a # k /\ b # k
    <3>1. old(a) < old(b)
      BY <1>3, <1>6, <1>8, <2>4
    <3>2. /\ old(a) \in DOMAIN queues /\ queues'[a] = queues[old(a)]
          /\ old(b) \in DOMAIN queues /\ queues'[b] = queues[old(b)]
      BY <1>6, <1>8, <2>4
    <3>. HIDE DEF old
    <3>. QED
      BY <2>1, <3>1, <3>2
  <2>. QED
    BY <2>2, <2>3, <2>4
<1>9. ASSUME NEW a \in DOMAIN queues' PROVE Rising(queues[a].queue)'
  <2>1. CASE a = k
    <3>1. queues'[a].queue = q
      BY <1>6, <2>1
    <3>. HIDE DEF q
    <3>2. \A m \in Slots(q) : q.cell[m] < arrived + 1 /\ \A n \in Slots(q) : ~(m < n)
      BY <1>1, <1>4
    <3>. QED
      BY <3>1, <3>2 DEF Rising
  <2>2. CASE a # k
    <3>1. old(a) \in DOMAIN queues /\ queues'[a].queue = queues[old(a)].queue
      BY <1>6, <1>9, <2>2
    <3>. HIDE DEF old
    <3>2. Rising(queues[old(a)].queue) /\ IsQueue(queues[old(a)].queue)
      BY <1>2, <3>1 DEF ListInv
    <3>3. \A m \in Slots(queues[old(a)].queue) : queues[old(a)].queue.cell[m] \in Nat
      BY <3>2 DEF IsQueue, Slots
    <3>4. \A m \in Slots(queues[old(a)].queue) : queues[old(a)].queue.cell[m] < arrived + 1
      BY <1>1, <3>2, <3>3 DEF Rising
    <3>. QED
      BY <3>1, <3>2, <3>4 DEF Rising
  <2>. QED
    BY <2>1, <2>2
<1>10. EntriesOf(queues') = EntriesOf(queues) \cup {e}
  <2>. HIDE DEF e, q
  <2>1. ASSUME NEW x \in EntriesOf(queues') PROVE x \in EntriesOf(queues) \cup {e}
    <3>1. PICK j \in DOMAIN queues' : \E n \in Slots(queues'[j].queue) :
            x = [prio |-> queues'[j].prio, val |-> queues'[j].queue.cell[n]]
      BY ONLY <2>1, InEntries
    <3>2. CASE j = k
      BY <1>4, <1>6, <3>1, <3>2 DEF e
    <3>3. CASE j # k
      <4>1. old(j) \in DOMAIN queues /\ queues'[j] = queues[old(j)]
        BY <1>6, <3>3
      <4>. HIDE DEF old
      <4>. QED
        BY <3>1, <4>1, InEntries
    <3>. QED
      BY <3>2, <3>3
  <2>2. e \in EntriesOf(queues')
    <3>1. 3 \in Slots(queues'[k].queue) /\ e = [prio |-> queues'[k].prio, val |-> queues'[k].queue.cell[3]]
      BY <1>4, <1>6 DEF e
    <3>2. k \in DOMAIN queues'
      BY <1>2, <1>3, <1>6
    <3>. QED
      BY ONLY <3>1, <3>2, InEntries
  <2>3. ASSUME NEW x \in EntriesOf(queues) PROVE x \in EntriesOf(queues')
    <3>1. PICK j \in DOMAIN queues : \E n \in Slots(queues[j].queue) :
            x = [prio |-> queues[j].prio, val |-> queues[j].queue.cell[n]]
      BY ONLY <2>3, InEntries
    <3>. DEFINE now == IF j < k THEN j ELSE j + 1
    <3>2. now \in DOMAIN queues' /\ now # k /\ old(now) = j
      BY <1>2, <1>3, <1>6
    <3>. HIDE DEF now
    <3>3. queues'[now] = queues[j]
      BY <1>6, <3>2
    <3>4. \E n \in Slots(queues'[now].queue) :
            x = [prio |-> queues'[now].prio, val |-> queues'[now].queue.cell[n]]
      BY <3>1, <3>3
    <3>. QED
      BY ONLY <3>2, <3>4, InEntries
  <2>. QED
    BY <2>1, <2>2, <2>3
<1>11. QueueEntries' = QueueEntries \cup {e}
  BY <1>10 DEF QueueEntries, EntriesOf
<1>. QED
  BY <1>7, <1>8, <1>9, <1>11

\* The front of the first queue is the entry of the least priority that came first.
LEMMA FrontIsFirst ==
  ASSUME TypeOK, ListInv, QueueEntries # {}
  PROVE  /\ 1 \in DOMAIN queues
         /\ [prio |-> queues[1].prio, val |-> Front(queues[1].queue)] \in QueueEntries
         /\ \A f \in QueueEntries :
              \/ queues[1].prio < f.prio
              \/ queues[1].prio = f.prio /\ Front(queues[1].queue) <= f.val
<1>1. ListShape(queues) /\ QueueEntries = EntriesOf(queues)
  BY DEF ListInv, ListShape, QueueEntries, EntriesOf
<1>2. /\ Len(queues) \in Nat /\ DOMAIN queues = 1..Len(queues)
      /\ \A j \in DOMAIN queues : queues[j].prio \in Nat /\ IsQueue(queues[j].queue)
  BY <1>1, ListType
<1>3. 1 \in DOMAIN queues
  <2>1. PICK x \in EntriesOf(queues) : TRUE
    BY <1>1
  <2>2. \E j \in DOMAIN queues : TRUE
    BY <2>1, InEntries
  <2>. QED
    BY <1>2, <2>2
<1>. DEFINE q == queues[1].queue
<1>4. IsQueue(q) /\ q.front \in Slots(q) /\ \A n \in Slots(q) : q.front <= n
  BY <1>2, <1>3, TakenRest
<1>5. [prio |-> queues[1].prio, val |-> Front(q)] \in EntriesOf(queues)
  BY <1>3, <1>4, InEntries DEF Front
<1>6. ASSUME NEW f \in EntriesOf(queues)
      PROVE  queues[1].prio < f.prio \/ (queues[1].prio = f.prio /\ Front(q) <= f.val)
  <2>1. PICK j \in DOMAIN queues : \E n \in Slots(queues[j].queue) :
          f = [prio |-> queues[j].prio, val |-> queues[j].queue.cell[n]]
    BY <1>6, InEntries
  <2>2. PICK n \in Slots(queues[j].queue) : f = [prio |-> queues[j].prio, val |-> queues[j].queue.cell[n]]
    BY <2>1
  <2>3. f.prio = queues[j].prio /\ f.val = queues[j].queue.cell[n]
    BY <2>2
  <2>4. CASE j = 1
    <3>1. n \in Slots(q) /\ q.front <= n /\ q.cell[n] \in Nat /\ q.cell[q.front] \in Nat
          /\ n \in Int /\ q.front \in Int
      BY <1>4, <2>2, <2>4 DEF IsQueue, Slots
    <3>2. q.front < n => q.cell[q.front] < q.cell[n]
      BY <1>3, <1>4, <3>1 DEF ListInv, Rising
    <3>. QED
      BY <2>3, <2>4, <3>1, <3>2 DEF Front
  <2>5. CASE j # 1
    BY <1>2, <1>3, <2>3, <2>5 DEF ListInv
  <2>. QED
    BY <2>4, <2>5
<1>. QED
  BY <1>1, <1>3, <1>5, <1>6

\* Taking it away takes nothing else.
LEMMA TakeFirst ==
  ASSUME TypeOK, ListInv, QueueEntries # {}, OrderedDequeue, size # 0, UNCHANGED arrived
  PROVE  /\ ListShape(queues')
         /\ \A a, b \in DOMAIN queues' : a < b => queues'[a].prio < queues'[b].prio
         /\ (\A a \in DOMAIN queues : Rising(queues[a].queue))'
         /\ QueueEntries' = QueueEntries \ {[prio |-> queues[1].prio, val |-> Front(queues[1].queue)]}
<1>. DEFINE q == queues[1].queue
            rest == Taken(q)
            e == [prio |-> queues[1].prio, val |-> Front(q)]
<1>1. ListShape(queues) /\ QueueEntries = EntriesOf(queues) /\ QueueEntries' = EntriesOf(queues')
  BY DEF ListInv, ListShape, QueueEntries, EntriesOf
<1>2. /\ Len(queues) \in Nat /\ DOMAIN queues = 1..Len(queues) /\ 1 \in DOMAIN queues
      /\ \A j \in DOMAIN queues : /\ queues[j].prio \in Nat /\ queues[j].prio \in Prio
                                  /\ queues[j] \in Pair /\ IsQueue(queues[j].queue)
                                  /\ Rising(queues[j].queue)
      /\ \A a, b \in DOMAIN queues : a < b => queues[a].prio < queues[b].prio
  BY <1>1, ListType, FrontIsFirst DEF ListInv
<1>3. /\ QueueSize(rest) # 0 => IsQueue(rest)
      /\ Slots(rest) = Slots(q) \ {q.front} /\ q.front \in Slots(q)
      /\ QueueSize(rest) = 0 => Slots(q) = {q.front}
      /\ \A n \in Slots(q) : q.front <= n
      /\ \A n \in Slots(rest) : rest.cell[n] = q.cell[n]
  BY <1>2, TakenRest
\* Other slots of q hold other values than its front.
<1>4. \A n \in Slots(q) : n # q.front => q.cell[n] # q.cell[q.front]
  <2>1. \A n \in Slots(q) : q.cell[n] \in Nat /\ n \in Int
    <3>1. IsQueue(q)
      BY <1>2
    <3>. HIDE DEF q
    <3>. QED
      BY <3>1 DEF IsQueue, Slots
  <2>2. \A n \in Slots(q) : q.front < n => q.cell[q.front] < q.cell[n]
    BY <1>2, <1>3 DEF Rising
  <2>. QED
    BY <1>3, <2>1, <2>2
<1>5. CASE QueueSize(rest) = 0
  <2>1. queues' = [k \in 1..(Len(queues) - 1) |-> queues[k + 1]]
    BY <1>5 DEF OrderedDequeue
  <2>2. /\ DOMAIN queues' = 1..(Len(queues) - 1)
        /\ \A j \in DOMAIN queues' : j + 1 \in DOMAIN queues /\ j + 1 # 1 /\ queues'[j] = queues[j + 1]
    BY <1>2, <2>1
  <2>3. ListShape(queues')
    <3>1. queues' \in Seq(Pair)
      BY <1>2, <2>1
    <3>. QED
      BY <1>2, <2>2, <3>1 DEF ListShape
  <2>4. \A a, b \in DOMAIN queues' : a < b => queues'[a].prio < queues'[b].prio
    BY <1>2, <2>2
  <2>5. ASSUME NEW a \in DOMAIN queues' PROVE Rising(queues[a].queue)'
    BY <1>2, <2>2, <2>5 DEF Rising
  <2>6. ASSUME NEW x \in EntriesOf(queues') PROVE x \in EntriesOf(queues) \ {e}
    <3>1. PICK j \in DOMAIN queues' : \E n \in Slots(queues'[j].queue) :
            x = [prio |-> queues'[j].prio, val |-> queues'[j].queue.cell[n]]
      BY ONLY <2>6, InEntries
    <3>2. j + 1 \in DOMAIN queues /\ queues'[j] = queues[j + 1] /\ queues[1].prio < queues[j + 1].prio
      BY <1>2, <2>2
    <3>3. x.prio = queues[j + 1].prio
      BY <3>1, <3>2
    <3>4. x # e
      BY <1>2, <3>2, <3>3
    <3>. QED
      BY <3>1, <3>2, <3>4, InEntries
  <2>7. ASSUME NEW x \in EntriesOf(queues), x # e PROVE x \in EntriesOf(queues')
    <3>1. PICK j \in DOMAIN queues : \E n \in Slots(queues[j].queue) :
            x = [prio |-> queues[j].prio, val |-> queues[j].queue.cell[n]]
      BY ONLY <2>7, InEntries
    <3>2. j # 1
      BY <1>3, <1>5, <2>7, <3>1 DEF Front
    <3>. DEFINE now == j - 1
    <3>3. now \in DOMAIN queues' /\ queues'[now] = queues[j]
      BY <1>2, <2>2, <3>2
    <3>. HIDE DEF now
    <3>4. \E n \in Slots(queues'[now].queue) :
            x = [prio |-> queues'[now].prio, val |-> queues'[now].queue.cell[n]]
      BY <3>1, <3>3
    <3>. QED
      BY ONLY <3>3, <3>4, InEntries
  <2>8. EntriesOf(queues') = EntriesOf(queues) \ {e}
    BY <2>6, <2>7
  <2>. QED
    BY <1>1, <2>3, <2>4, <2>5, <2>8
<1>6. CASE QueueSize(rest) # 0
  <2>1. queues' = [queues EXCEPT ![1] = [prio |-> queues[1].prio, queue |-> rest]]
    BY <1>6 DEF OrderedDequeue
  <2>2. /\ DOMAIN queues' = DOMAIN queues /\ queues'[1].prio = queues[1].prio /\ queues'[1].queue = rest
        /\ \A j \in DOMAIN queues : j # 1 => queues'[j] = queues[j]
    BY <1>2, <2>1
  <2>3. ListShape(queues')
    <3>1. [prio |-> queues[1].prio, queue |-> rest] \in Pair
      BY <1>2, <1>3, <1>6, QueueIsQueue DEF Pair
    <3>2. queues' \in Seq(Pair)
      BY <1>1, <1>2, <2>1, <3>1 DEF ListShape
    <3>3. \A j \in DOMAIN queues' : IsQueue(queues'[j].queue)
      BY <1>2, <1>3, <1>6, <2>2
    <3>. QED
      BY <3>2, <3>3 DEF ListShape
  <2>4. \A a, b \in DOMAIN queues' : a < b => queues'[a].prio < queues'[b].prio
    BY <1>2, <2>2
  <2>5. ASSUME NEW a \in DOMAIN queues' PROVE Rising(queues[a].queue)'
    <3>1. CASE a = 1
      <4>. HIDE DEF rest
      <4>. QED
        BY <1>2, <1>3, <2>2, <3>1 DEF Rising
    <3>2. CASE a # 1
      BY <1>2, <2>2, <2>5, <3>2 DEF Rising
    <3>. QED
      BY <3>1, <3>2
  <2>6. ASSUME NEW x \in EntriesOf(queues') PROVE x \in EntriesOf(queues) \ {e}
    <3>. HIDE DEF rest
    <3>1. PICK j \in DOMAIN queues' : \E n \in Slots(queues'[j].queue) :
            x = [prio |-> queues'[j].prio, val |-> queues'[j].queue.cell[n]]
      BY ONLY <2>6, InEntries
    <3>2. PICK n \in Slots(queues'[j].queue) :
            x = [prio |-> queues'[j].prio, val |-> queues'[j].queue.cell[n]]
      BY <3>1
    <3>3. CASE j = 1
      <4>1. n \in Slots(q) /\ n # q.front /\ x = [prio |-> queues[1].prio, val |-> q.cell[n]]
        BY <1>3, <2>2, <3>2, <3>3
      <4>2. x.val = q.cell[n] /\ x # e
        BY <1>4, <4>1 DEF Front
      <4>. QED
        BY <1>2, <4>1, <4>2, InEntries
    <3>4. CASE j # 1
      <4>1. j \in DOMAIN queues /\ queues'[j] = queues[j] /\ queues[1].prio < queues[j].prio
        BY <1>2, <2>2, <3>4
      <4>2. x.prio = queues[j].prio
        BY <3>2, <4>1
      <4>3. x # e
        BY <1>2, <4>1, <4>2
      <4>. QED
        BY <3>1, <4>1, <4>3, InEntries
    <3>. QED
      BY <3>3, <3>4
  <2>7. ASSUME NEW x \in EntriesOf(queues), x # e PROVE x \in EntriesOf(queues')
    <3>. HIDE DEF rest
    <3>1. PICK j \in DOMAIN queues : \E n \in Slots(queues[j].queue) :
            x = [prio |-> queues[j].prio, val |-> queues[j].queue.cell[n]]
      BY ONLY <2>7, InEntries
    <3>2. PICK n \in Slots(queues[j].queue) :
            x = [prio |-> queues[j].prio, val |-> queues[j].queue.cell[n]]
      BY <3>1
    <3>3. n \in Slots(queues'[j].queue) /\ x = [prio |-> queues'[j].prio, val |-> queues'[j].queue.cell[n]]
      <4>1. CASE j = 1
        <5>1. n # q.front
          BY <2>7, <3>2, <4>1 DEF Front
        <5>. QED
          BY <1>3, <2>2, <3>2, <4>1, <5>1
      <4>2. CASE j # 1
        BY <2>2, <3>2, <4>2
      <4>. QED
        BY <4>1, <4>2
    <3>4. j \in DOMAIN queues'
      BY <2>2
    <3>. QED
      BY ONLY <3>3, <3>4, InEntries
  <2>8. EntriesOf(queues') = EntriesOf(queues) \ {e}
    BY <2>6, <2>7
  <2>. QED
    BY <1>1, <2>3, <2>4, <2>5, <2>8
<1>. QED
  BY <1>5, <1>6

-----------------------------------------------------------------------------
(* Every step *)

EQInv == TypeOK /\ HeapInv /\ ListInv /\ (~ordered => queues = <<>> /\ size = 0)

LEMMA InitEQ == Init => EQInv /\ PQ!Init
<1>. SUFFICES ASSUME Init PROVE EQInv /\ PQ!Init
  OBVIOUS
<1>1. TypeOK
  BY DEF Init, TypeOK
<1>2. HeapInv
  BY DEF Init, HeapInv, HeapOrder
<1>3. QueueEntries = {} /\ HeapEntries = {}
  BY DEF Init, QueueEntries, HeapEntries
<1>4. ListInv
  BY <1>3, FS_EmptySet DEF Init, ListInv
<1>. QED
  BY <1>1, <1>2, <1>3, <1>4 DEF Init, EQInv, PQ!Init

\* The list's invariant, and the type, after a step of the ordered queue.
LEMMA ListStep ==
  ASSUME EQInv, ordered, UNCHANGED <<ordered, heaps>>, ListShape(queues'),
         \A a, b \in DOMAIN queues' : a < b => queues'[a].prio < queues'[b].prio,
         (\A a \in DOMAIN queues : Rising(queues[a].queue))',
         IsFiniteSet(QueueEntries)', (Cardinality(QueueEntries) = size)',
         size' \in Nat, arrived' \in Nat, returned' \in Nat \cup {Nil}
  PROVE  EQInv'
<1>1. /\ Len(queues') \in Nat /\ DOMAIN queues' = 1..Len(queues')
      /\ \A k \in DOMAIN queues' : /\ queues'[k] = [prio |-> queues'[k].prio, queue |-> queues'[k].queue]
                                   /\ queues'[k].prio \in Prio /\ IsQueue(queues'[k].queue)
  BY ListType
<1>2. TypeOK'
  BY <1>1 DEF EQInv, TypeOK, heaps, IsQueue
<1>3. HeapInv'
  BY DEF EQInv, HeapInv, HeapOrder, heaps
<1>4. ListInv'
  BY DEF ListInv, ListShape
<1>. QED
  BY <1>2, <1>3, <1>4 DEF EQInv

LEMMA EnqueueStep ==
  ASSUME EQInv, NEW prio \in Prio, Enqueue(prio)
  PROVE  EQInv' /\ PQ!Enqueue(prio)
<1>. DEFINE e == [prio |-> prio, val |-> arrived]
<1>1. /\ pc = "idle" /\ arrived' = arrived + 1 /\ UNCHANGED <<ordered, returned>>
      /\ arrived \in Nat /\ returned \in Nat \cup {Nil} /\ size \in Nat
  BY DEF Enqueue, EQInv, TypeOK
<1>2. CASE ordered
  <2>1. OrderedEnqueue(prio) /\ UNCHANGED heaps
    BY <1>2 DEF Enqueue
  <2>2. /\ ListShape(queues')
        /\ \A a, b \in DOMAIN queues' : a < b => queues'[a].prio < queues'[b].prio
        /\ (\A a \in DOMAIN queues : Rising(queues[a].queue))'
        /\ QueueEntries' = QueueEntries \cup {e}
    <3>1. CASE \E k \in Known(prio) :
                 queues' = [queues EXCEPT ![k] = [prio |-> prio, queue |-> Put(queues[k].queue, arrived)]]
      BY <1>1, <3>1, PutKnown DEF EQInv
    <3>2. CASE /\ Known(prio) = {}
               /\ \E k \in Places(prio) :
                    queues' = Inserted(k, [prio |-> prio, queue |-> Put(EmptyQueue, arrived)])
      BY <1>1, <3>2, PutNew DEF EQInv
    <3>. QED
      BY <2>1, <3>1, <3>2 DEF OrderedEnqueue
  <2>3. e \notin QueueEntries
    <3>1. SUFFICES ASSUME e \in EntriesOf(queues) PROVE FALSE
      BY DEF QueueEntries, EntriesOf
    <3>2. PICK k \in DOMAIN queues : \E n \in Slots(queues[k].queue) :
            e = [prio |-> queues[k].prio, val |-> queues[k].queue.cell[n]]
      BY <3>1, InEntries
    <3>3. PICK n \in Slots(queues[k].queue) : arrived = queues[k].queue.cell[n]
      BY <3>2
    <3>. QED
      BY <1>1, <3>3 DEF EQInv, ListInv, Rising
  <2>4. IsFiniteSet(QueueEntries') /\ Cardinality(QueueEntries') = size'
    <3>1. IsFiniteSet(QueueEntries) /\ Cardinality(QueueEntries) = size
      BY DEF EQInv, ListInv
    <3>2. IsFiniteSet(QueueEntries \cup {e}) /\ Cardinality(QueueEntries \cup {e}) = size + 1
      BY <2>3, <3>1, FS_AddElement
    <3>. QED
      BY <2>1, <2>2, <3>2 DEF OrderedEnqueue
  <2>5. EQInv'
    BY <1>1, <1>2, <2>1, <2>2, <2>4, ListStep DEF OrderedEnqueue
  <2>. QED
    BY <1>1, <1>2, <2>2, <2>5 DEF PQ!Enqueue
<1>3. CASE ~ordered
  <2>1. HeapEnqueue(prio) /\ UNCHANGED lists
    BY <1>3 DEF Enqueue
  <2>2. TypeOK' /\ HeapInv' /\ HeapEntries' = HeapEntries \cup {e}
    BY <1>1, <1>3, <2>1, HeapEnqueueStep DEF EQInv
  <2>3. ListInv' /\ (~ordered => queues = <<>> /\ size = 0)'
    BY <1>1, <1>3, <2>1 DEF EQInv, ListInv, QueueEntries, lists, Rising
  <2>. QED
    BY <1>1, <1>3, <2>2, <2>3 DEF EQInv, PQ!Enqueue
<1>. QED
  BY <1>2, <1>3

LEMMA DequeueStep ==
  ASSUME EQInv, Dequeue
  PROVE  EQInv' /\ PQ!Dequeue
<1>1. /\ pc = "idle" /\ UNCHANGED <<ordered, arrived>>
      /\ arrived \in Nat /\ returned \in Nat \cup {Nil} /\ size \in Nat
  BY DEF Dequeue, EQInv, TypeOK
<1>2. CASE ordered
  <2>. DEFINE e == [prio |-> queues[1].prio, val |-> Front(queues[1].queue)]
  <2>1. OrderedDequeue /\ UNCHANGED heaps
    BY <1>2 DEF Dequeue
  <2>2. IsFiniteSet(QueueEntries) /\ Cardinality(QueueEntries) = size
    BY DEF EQInv, ListInv
  <2>3. CASE size = 0
    <3>1. QueueEntries = {}
      BY <2>2, <2>3, FS_EmptySet
    <3>2. returned' = Nil /\ UNCHANGED <<queues, size>>
      BY <2>1, <2>3 DEF OrderedDequeue, lists
    <3>3. EQInv'
      BY <1>1, <1>2, <2>1, <3>2 DEF EQInv, TypeOK, IsQueue, HeapInv, HeapOrder, ListInv, Rising,
         QueueEntries, heaps
    <3>4. QueueEntries' = QueueEntries
      BY <3>2 DEF QueueEntries
    <3>. QED
      BY <1>1, <1>2, <3>1, <3>2, <3>3, <3>4 DEF PQ!Dequeue
  <2>4. CASE size # 0
    <3>1. QueueEntries # {}
      BY <2>2, <2>4, FS_EmptySet
    <3>2. /\ 1 \in DOMAIN queues /\ e \in QueueEntries
          /\ \A f \in QueueEntries :
               \/ queues[1].prio < f.prio
               \/ queues[1].prio = f.prio /\ Front(queues[1].queue) <= f.val
      BY <3>1, FrontIsFirst DEF EQInv
    <3>3. /\ ListShape(queues')
          /\ \A a, b \in DOMAIN queues' : a < b => queues'[a].prio < queues'[b].prio
          /\ (\A a \in DOMAIN queues : Rising(queues[a].queue))'
          /\ QueueEntries' = QueueEntries \ {e}
      BY <1>1, <2>1, <2>4, <3>1, TakeFirst DEF EQInv
    <3>4. returned' = Front(queues[1].queue) /\ size' = size - 1
      BY <2>1, <2>4 DEF OrderedDequeue
    <3>. HIDE DEF e
    <3>5. IsFiniteSet(QueueEntries') /\ Cardinality(QueueEntries') = size'
      <4>1. IsFiniteSet(QueueEntries \ {e}) /\ Cardinality(QueueEntries \ {e}) = size - 1
        BY <2>2, <3>2, FS_RemoveElement
      <4>. QED
        BY <3>3, <3>4, <4>1
    <3>6. returned' \in Nat
      <4>1. IsQueue(queues[1].queue)
        BY <3>2 DEF EQInv, ListInv
      <4>. QED
        BY <3>4, <4>1 DEF IsQueue, Front
    <3>7. EQInv'
      BY <1>1, <1>2, <2>1, <2>4, <3>3, <3>4, <3>5, <3>6, ListStep
    <3>8. e.prio = queues[1].prio /\ e.val = Front(queues[1].queue)
      BY DEF e
    <3>9. \A f \in QueueEntries : e.prio < f.prio \/ (e.prio = f.prio /\ (ordered => e.val <= f.val))
      BY <3>2, <3>8
    <3>. QED
      BY <1>1, <1>2, <3>2, <3>3, <3>4, <3>7, <3>8, <3>9 DEF PQ!Dequeue, PQ!Before
  <2>. QED
    BY <2>3, <2>4
<1>3. CASE ~ordered
  <2>1. HeapDequeue /\ UNCHANGED lists
    BY <1>3 DEF Dequeue
  <2>2. /\ TypeOK' /\ HeapInv'
        /\ \/ HeapEntries = {} /\ HeapEntries' = {} /\ returned' = Nil
           \/ \E e \in HeapEntries : /\ \A f \in HeapEntries : e.prio <= f.prio
                                     /\ returned' = e.val
                                     /\ HeapEntries' = HeapEntries \ {e}
    BY <1>1, <1>3, <2>1, HeapDequeueStep DEF EQInv
  <2>3. ListInv' /\ (~ordered => queues = <<>> /\ size = 0)'
    BY <1>1, <1>3, <2>1 DEF EQInv, ListInv, QueueEntries, lists, Rising
  <2>4. \A e, f \in HeapEntries : e.prio <= f.prio => e.prio < f.prio \/ e.prio = f.prio
    <3>1. \A e \in HeapEntries : e.prio \in Nat
      BY HeapType DEF EQInv, HeapEntries
    <3>. QED
      BY <3>1
  <2>5. PQ!Dequeue
    BY <1>1, <1>3, <2>2, <2>4 DEF PQ!Dequeue, PQ!Before
  <2>. QED
    BY <2>2, <2>3, <2>5 DEF EQInv
<1>. QED
  BY <1>2, <1>3

LEMMA SiftStep ==
  ASSUME EQInv, Sift
  PROVE  EQInv' /\ UNCHANGED PQ!vars
<1>1. TypeOK' /\ HeapInv' /\ HeapEntries' = HeapEntries
  BY SiftUpStep, SiftDownStep DEF EQInv, Sift
<1>2. UNCHANGED <<ordered, lists, arrived, returned>>
  BY DEF Sift, SiftUp, SiftDown
<1>3. ListInv' /\ (~ordered => queues = <<>> /\ size = 0)' /\ QueueEntries' = QueueEntries
  BY <1>2 DEF EQInv, ListInv, QueueEntries, lists, Rising
<1>. QED
  BY <1>1, <1>2, <1>3 DEF EQInv, PQ!vars

LEMMA NextEQ == EQInv /\ [Next]_vars => EQInv' /\ [PQ!Next]_(PQ!vars)
<1>. SUFFICES ASSUME EQInv, [Next]_vars PROVE EQInv' /\ [PQ!Next]_(PQ!vars)
  OBVIOUS
<1>1. ASSUME NEW prio \in Prio, Enqueue(prio) PROVE EQInv' /\ PQ!Next
  BY <1>1, EnqueueStep DEF PQ!Next
<1>2. CASE Dequeue
  BY <1>2, DequeueStep DEF PQ!Next
<1>3. CASE UNCHANGED vars
  <2>1. EQInv'
    BY <1>3 DEF EQInv, vars, heaps, lists, TypeOK, IsQueue, HeapInv, HeapOrder, ListInv, Rising,
       QueueEntries
  <2>2. UNCHANGED PQ!vars
    BY <1>3 DEF vars, heaps, lists, PQ!vars, QueueEntries, HeapEntries
  <2>. QED
    BY <2>1, <2>2
<1>. QED
  BY <1>1, <1>2, <1>3, SiftStep DEF Next

-----------------------------------------------------------------------------
THEOREM Invariance == Spec => []EQInv
<1>1. EQInv /\ [Next]_vars => EQInv'
  BY NextEQ
<1>2. Init => EQInv
  BY InitEQ
<1>. QED
  BY <1>1, <1>2, PTL DEF Spec

\* The ranges of the variables.
THEOREM TypeCorrect == Spec => []TypeOK
<1>1. EQInv => TypeOK
  BY DEF EQInv
<1>. QED
  BY <1>1, Invariance, PTL

\* The heap is a heap, but for the one entry that is on its way.
THEOREM HeapIsOrdered == Spec => []HeapOrder
<1>1. EQInv => HeapOrder
  BY DEF EQInv, HeapInv
<1>. QED
  BY <1>1, Invariance, PTL

\* Both implementations are priority queues, the ordered one first in, first out.
THEOREM Refinement == Spec => IsPriorityQueue
<1>1. EQInv /\ [Next]_vars => [PQ!Next]_(PQ!vars)
  BY NextEQ
<1>2. Init => PQ!Init
  BY InitEQ
<1>. QED
  BY <1>1, <1>2, Invariance, PTL DEF Spec, IsPriorityQueue, PQ!Spec


-----------------------------------------------------------------------------
(* The loops end *)

\* How many turns of the running loop are left at most, 0 when none runs.
SiftLeft == CASE pc = "idle" -> 0 [] pc = "up" -> i [] pc = "down" -> Len(heap) + 2 - i

\* The index of heapify is in the heap, or the heap is empty.
DownInHeap == pc = "down" => i <= Len(heap) + 1

\* While a loop runs nothing else does, and its turns are counted down.
SiftFalls == [](SiftLeft \in Nat) /\ [][pc # "idle" => SiftLeft' < SiftLeft]_vars

LEMMA SiftTurn ==
  ASSUME EQInv, DownInHeap, pc # "idle", [Next]_vars, vars' # vars
  PROVE  DownInHeap' /\ SiftLeft' < SiftLeft
<1>1. TypeOK /\ HeapInv /\ Len(heap) \in Nat /\ i \in Nat \ {0} /\ DOMAIN heap = 1..Len(heap)
  BY HeapType DEF EQInv, TypeOK
<1>2. SiftUp \/ SiftDown
  BY DEF Next, Enqueue, Dequeue, Sift
<1>3. CASE SiftUp
  <2>1. CASE i # 1 /\ heap' = Swap(heap, i, i \div 2) /\ i' = i \div 2 /\ pc' = pc
    <3>1. i' \in Nat /\ i' < i /\ pc = "up" /\ pc' = "up"
      BY <1>1, <1>3, <2>1, Parent DEF SiftUp
    <3>. QED
      BY <1>1, <3>1 DEF SiftLeft, DownInHeap
  <2>2. CASE pc' = "idle"
    BY <1>1, <1>3, <2>2 DEF SiftUp, SiftLeft, DownInHeap
  <2>. QED
    BY <1>1, <1>3, <2>1, <2>2 DEF SiftUp
<1>4. CASE SiftDown
  <2>1. CASE Least # i /\ heap' = Swap(heap, i, Least) /\ i' = Least /\ pc' = pc
    <3>1. i \in DOMAIN heap
      BY <1>1, <2>1 DEF Least
    <3>2. Least \in DOMAIN heap /\ Least > i
      BY <1>1, <2>1, <3>1, LeastChild
    <3>3. Len(heap') = Len(heap) /\ pc = "down" /\ pc' = "down"
      BY <1>1, <1>4, <2>1, <3>1, <3>2, SwapKeeps DEF TypeOK, SiftDown
    <3>4. i' \in Nat /\ i' > i /\ i' <= Len(heap)
      BY <1>1, <2>1, <3>2
    <3>. QED
      BY <1>1, <3>3, <3>4 DEF SiftLeft, DownInHeap
  <2>2. CASE pc' = "idle"
    BY <1>1, <1>4, <2>2 DEF SiftDown, SiftLeft, DownInHeap
  <2>. QED
    BY <1>4, <2>1, <2>2 DEF SiftDown
<1>. QED
  BY <1>2, <1>3, <1>4

LEMMA DownStays ==
  ASSUME EQInv, DownInHeap, [Next]_vars
  PROVE  DownInHeap'
<1>1. CASE UNCHANGED vars
  BY <1>1 DEF vars, heaps, DownInHeap
<1>2. CASE pc # "idle" /\ vars' # vars
  BY <1>2, SiftTurn
<1>3. CASE pc = "idle" /\ \E prio \in Prio : Enqueue(prio)
  BY <1>3 DEF Enqueue, HeapEnqueue, heaps, DownInHeap
<1>4. CASE pc = "idle" /\ Dequeue
  <2>1. CASE UNCHANGED heaps
    BY <1>4, <2>1 DEF heaps, DownInHeap
  <2>2. CASE HeapDequeue /\ ~UNCHANGED heaps
    <3>1. i' = 1 /\ Len(heap') \in Nat
      <4>1. /\ heap # <<>> /\ i' = 1
            /\ heap' = [k \in 1..(Len(heap) - 1) |-> IF k = 1 THEN heap[Len(heap)] ELSE heap[k]]
        BY <2>2 DEF HeapDequeue
      <4>2. heap \in Seq(Entry) /\ Len(heap) - 1 \in Nat
        BY <4>1 DEF EQInv, TypeOK
      <4>. QED
        BY <4>1, <4>2
    <3>. QED
      BY <3>1 DEF DownInHeap
  <2>. QED
    BY <1>4, <2>1, <2>2 DEF Dequeue
<1>. QED
  BY <1>1, <1>2, <1>3, <1>4 DEF Next, Sift, SiftUp, SiftDown

\* enqueue and dequeue of the heap return: the loop of enqueue makes at most as many turns as the heap
\* has entries, heapify at most one more, and neither is interrupted.
THEOREM SiftsAreBounded == Spec => SiftFalls
<1>1. Init => DownInHeap
  BY DEF Init, DownInHeap
<1>2. EQInv /\ DownInHeap /\ [Next]_vars => DownInHeap'
  BY DownStays
<1>3. EQInv /\ DownInHeap => SiftLeft \in Nat
  <2>. SUFFICES ASSUME EQInv, DownInHeap PROVE SiftLeft \in Nat
    OBVIOUS
  <2>1. Len(heap) \in Nat /\ i \in Nat /\ pc \in {"idle", "up", "down"}
    BY HeapType DEF EQInv, TypeOK
  <2>. QED
    BY <2>1 DEF DownInHeap, SiftLeft
<1>4. EQInv /\ DownInHeap /\ [Next]_vars => [pc # "idle" => SiftLeft' < SiftLeft]_vars
  BY SiftTurn
<1>. QED
  BY <1>1, <1>2, <1>3, <1>4, Invariance, PTL DEF Spec, SiftFalls
=============================================================================
