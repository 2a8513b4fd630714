--------------------------- MODULE PriorityQueue ---------------------------
(***************************************************************************)
(* What the redstone scheduler expects of its event queue: values leave in *)
(* the order of their priorities and, if the queue is the ordered one, in  *)
(* the order of their arrival among equal priorities.                      *)
(***************************************************************************)
EXTENDS Integers

CONSTANTS
  Prio,  \* priorities: the ticks of events
  Nil    \* what dequeue returns of an empty queue

VARIABLES
  entries,   \* what is in the queue: priority, and value numbered by arrival
  fifo,      \* arrival matters
  arrived,   \* values that ever arrived
  returned   \* what the last dequeue returned

vars == <<entries, fifo, arrived, returned>>

Init ==
  /\ entries = {}
  /\ fifo \in BOOLEAN
  /\ arrived = 0
  /\ returned = Nil

Enqueue(prio) ==
  /\ entries' = entries \cup {[prio |-> prio, val |-> arrived]}
  /\ arrived' = arrived + 1
  /\ UNCHANGED <<fifo, returned>>

\* e may leave before f.
Before(e, f) == e.prio < f.prio \/ (e.prio = f.prio /\ (fifo => e.val <= f.val))

Dequeue ==
  /\ \/ entries = {} /\ returned' = Nil /\ UNCHANGED entries
     \/ \E e \in entries :
          /\ \A f \in entries : Before(e, f)
          /\ returned' = e.val
          /\ entries' = entries \ {e}
  /\ UNCHANGED <<fifo, arrived>>

Next == (\E prio \in Prio : Enqueue(prio)) \/ Dequeue

Spec == Init /\ [][Next]_vars
=============================================================================
