SPECIFICATION Spec
CONSTANTS
  Prio = {1, 2, 3}
  Nil = Nil
  MaxArrived = 7
INVARIANTS TypeOK HeapOrder
PROPERTY IsPriorityQueue
