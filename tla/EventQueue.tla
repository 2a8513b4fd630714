----------------------------- MODULE EventQueue -----------------------------
(***************************************************************************)
(* The queue behind the redstone scheduler, in both implementations of     *)
(* mods/ITEMS/REDSTONE/mcl_redstone/util.lua: the binary heap and, with    *)
(* the setting mcl_redstone_ordered_event_queue, the list of first-in      *)
(* first-out queues (mods/CORE/mcl_util/queue.lua).                        *)
(*                                                                         *)
(* A turn of the heap's loops is a step. Values are numbered in the order  *)
(* of their arrival. peek and size change nothing: they are the root of    *)
(* the heap, the front of the first queue, and the lengths.                *)
(***************************************************************************)
EXTENDS Integers, Sequences

CONSTANTS
  Prio,       \* priorities: the ticks of events
  Nil,        \* Lua's nil
  MaxArrived  \* bound: values ever enqueued

ASSUME PrioAssumption == Prio \subseteq Nat /\ MaxArrived \in Nat /\ Nil \notin Nat

VARIABLES
  ordered,   \* the setting
  heap,      \* priority_queue.heap
  i,         \* the loop's variable
  pc,        \* "idle", or the loop the heap is in: "up" or "down"
  queues,    \* the ordered queue's _queues
  size,      \* its _size
  arrived,   \* how many values have been enqueued
  returned   \* what the last dequeue returned

heaps == <<heap, i, pc>>
lists == <<queues, size>>
vars == <<ordered, heaps, lists, arrived, returned>>

Init ==
  /\ ordered \in BOOLEAN
  /\ heap = <<>> /\ i = 1 /\ pc = "idle"
  /\ queues = <<>> /\ size = 0
  /\ arrived = 0
  /\ returned = Nil

-----------------------------------------------------------------------------
(* _priority_queue: the binary heap *)

Swap(h, a, b) == [h EXCEPT ![a] = h[b], ![b] = h[a]]

HeapEnqueue(prio) ==
  /\ heap' = Append(heap, [prio |-> prio, val |-> arrived])
  /\ i' = Len(heap')
  /\ pc' = "up"

\* The while loop of enqueue.
SiftUp ==
  /\ pc = "up"
  /\ IF i # 1 /\ heap[i \div 2].prio > heap[i].prio
     THEN heap' = Swap(heap, i, i \div 2) /\ i' = i \div 2 /\ UNCHANGED pc
     ELSE pc' = "idle" /\ UNCHANGED <<heap, i>>
  /\ UNCHANGED <<ordered, lists, arrived, returned>>

\* The last entry takes the place of the root.
HeapDequeue ==
  \/ heap = <<>> /\ returned' = Nil /\ UNCHANGED heaps
  \/ /\ heap # <<>>
     /\ returned' = heap[1].val
     /\ heap' = [k \in 1..(Len(heap) - 1) |-> IF k = 1 THEN heap[Len(heap)] ELSE heap[k]]
     /\ i' = 1
     /\ pc' = "down"

\* Mutant: the last entry is no child.
LeastLax ==
  LET l == 2 * i
      r == 2 * i + 1
      min == IF l < Len(heap) /\ heap[l].prio < heap[i].prio THEN l ELSE i
  IN  IF r < Len(heap) /\ heap[r].prio < heap[min].prio THEN r ELSE min

\* heapify's min: the least of i and its children.
Least ==
  LET l == 2 * i
      r == 2 * i + 1
      min == IF l <= Len(heap) /\ heap[l].prio < heap[i].prio THEN l ELSE i
  IN  IF r <= Len(heap) /\ heap[r].prio < heap[min].prio THEN r ELSE min

\* heapify, which calls itself with min.
SiftDown ==
  /\ pc = "down"
  /\ IF Least # i
     THEN heap' = Swap(heap, i, Least) /\ i' = Least /\ UNCHANGED pc
     ELSE pc' = "idle" /\ UNCHANGED <<heap, i>>
  /\ UNCHANGED <<ordered, lists, arrived, returned>>

-----------------------------------------------------------------------------
(* mcl_util.queue: two indices and the values between them, in one Lua table *)

EmptyQueue == [back |-> 3, front |-> 3, cell |-> <<>>]
\* Mutant: an index is counted as a value.
QueueSizeOff(q) == q.back - q.front + 1
QueueSize(q) == q.back - q.front
Put(q, v) == [back |-> q.back + 1, front |-> q.front,
              cell |-> [n \in q.front..q.back |-> IF n = q.back THEN v ELSE q.cell[n]]]
Front(q) == q.cell[q.front]
Taken(q) == [back |-> q.back, front |-> q.front + 1,
             cell |-> [n \in (q.front + 1)..(q.back - 1) |-> q.cell[n]]]

(* _priority_queue_ordered: a sorted list of pairs of a priority and a queue *)

\* _index_of finds them.
Known(prio) == {k \in DOMAIN queues : queues[k].prio = prio}

\* Mutant: the new pair stays at the end of the list.
PlacesLast(prio) == {Len(queues) + 1}

\* Where table.sort brings a new pair: after those of lesser priority.
Places(prio) == {k \in 1..(Len(queues) + 1) : \A j \in DOMAIN queues : j < k <=> queues[j].prio < prio}

Inserted(k, pair) ==
  [j \in 1..(Len(queues) + 1) |->
     IF j < k THEN queues[j] ELSE IF j = k THEN pair ELSE queues[j - 1]]

OrderedEnqueue(prio) ==
  /\ \/ \E k \in Known(prio) :
          queues' = [queues EXCEPT ![k] = [prio |-> prio, queue |-> Put(queues[k].queue, arrived)]]
     \/ /\ Known(prio) = {}
        /\ \E k \in Places(prio) :
             queues' = Inserted(k, [prio |-> prio, queue |-> Put(EmptyQueue, arrived)])
  /\ size' = size + 1

OrderedDequeue ==
  \/ size = 0 /\ returned' = Nil /\ UNCHANGED lists
  \/ /\ size # 0
     /\ returned' = Front(queues[1].queue)
     /\ LET rest == Taken(queues[1].queue) IN
          queues' = IF QueueSize(rest) = 0 THEN [k \in 1..(Len(queues) - 1) |-> queues[k + 1]]
                    ELSE [queues EXCEPT ![1] = [prio |-> queues[1].prio, queue |-> rest]]
     /\ size' = size - 1

-----------------------------------------------------------------------------
(* The calls of the scheduler *)

Enqueue(prio) ==
  /\ pc = "idle"
  /\ arrived < MaxArrived
  /\ arrived' = arrived + 1
  /\ \/ ordered /\ OrderedEnqueue(prio) /\ UNCHANGED heaps
     \/ ~ordered /\ HeapEnqueue(prio) /\ UNCHANGED lists
  /\ UNCHANGED <<ordered, returned>>

Dequeue ==
  /\ pc = "idle"
  /\ \/ ordered /\ OrderedDequeue /\ UNCHANGED heaps
     \/ ~ordered /\ HeapDequeue /\ UNCHANGED lists
  /\ UNCHANGED <<ordered, arrived>>

Sift == SiftUp \/ SiftDown

Next == (\E prio \in Prio : Enqueue(prio)) \/ Dequeue \/ Sift

Spec == Init /\ [][Next]_vars

-----------------------------------------------------------------------------
(* Properties *)

Entry == [prio : Prio, val : Nat]

\* A queue as enqueue and dequeue leave it: its values, and nothing else, between the indices.
IsQueue(q) ==
  /\ q = [back |-> q.back, front |-> q.front, cell |-> q.cell]
  /\ q.back \in Nat /\ q.front \in Nat /\ q.front < q.back
  /\ q.cell \in [q.front..(q.back - 1) -> Nat]

\* Every variable stays in its range; the index of a loop is one of the heap.
TypeOK ==
  /\ ordered \in BOOLEAN
  /\ heap \in Seq(Entry)
  /\ pc \in {"idle", "up", "down"}
  /\ i \in Nat \ {0}
  /\ pc = "up" => i <= Len(heap)
  /\ DOMAIN queues = 1..Len(queues)
  /\ \A k \in DOMAIN queues :
       /\ queues[k] = [prio |-> queues[k].prio, queue |-> queues[k].queue]
       /\ queues[k].prio \in Prio /\ IsQueue(queues[k].queue)
  /\ size \in Nat
  /\ arrived \in Nat
  /\ returned \in Nat \cup {Nil}

\* No entry is before its parent, but for the one on its way up, and those below the one
\* on its way down; around the hole the order of grandparents and children holds.
HeapOrder ==
  \A k \in 2..Len(heap) :
    /\ ~(pc = "up" /\ k = i) /\ ~(pc = "down" /\ k \div 2 = i) => heap[k \div 2].prio <= heap[k].prio
    /\ pc # "idle" /\ k \div 2 = i /\ i # 1 => heap[i \div 2].prio <= heap[k].prio

HeapEntries == {heap[k] : k \in DOMAIN heap}
QueueEntries ==
  UNION {{[prio |-> queues[k].prio, val |-> queues[k].queue.cell[n]] :
            n \in queues[k].queue.front..(queues[k].queue.back - 1)} : k \in DOMAIN queues}

PQ == INSTANCE PriorityQueue WITH
        entries <- IF ordered THEN QueueEntries ELSE HeapEntries, fifo <- ordered

\* Both implementations keep every value until it is its turn: the heap by priority, the
\* list also "preservers insertion order among entries with equal priority".
IsPriorityQueue == PQ!Spec
=============================================================================
