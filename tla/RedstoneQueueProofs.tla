------------------------ MODULE RedstoneQueueProofs ------------------------
(***************************************************************************)
(* Safety of RedstoneQueue for every choice of positions, nodes, delays,   *)
(* priorities and callbacks, and for queues and clocks of any length.      *)
(*                                                                         *)
(* None of the invariants is inductive by itself: that the queue swaps a   *)
(* node once per tick needs that an update still in force after a swap is  *)
(* due later; that the clock does not stall twice needs that the events of *)
(* a stalled tick are all of the present tick or later. IInv joins them.   *)
(***************************************************************************)
EXTENDS RedstoneQueue, TLAPS

\* Of a table entry: where its event is and what it was made from.
Entry(q, t, p) ==
  t[p] # NoEvent =>
    /\ t[p] \in q
    /\ t[p].act.type = "update"
    /\ t[p].act.pos = p
    /\ t[p].act.oldnode \in Updates

TimersOfComponents ==
  \A e \in queue : e.act.type = "timer" => e.act.node \in Updates

\* Where the clock, the local of tick_step and the events stand to each other.
Timing ==
  /\ phase \in {"events", "updates"} => last_tick \in {current_tick - 1, current_tick}
  /\ phase = "updates" =>
       \A e \in queue : e.tick >= current_tick
                        /\ (e.act.type = "update" => e.tick > current_tick)

\* After a tick that left the clock standing nothing is late.
Stalled ==
  stalls = 1 => /\ \A e \in queue : e.tick >= current_tick
                /\ phase \in {"events", "updates"} => last_tick = current_tick

\* A position swapped in this tick has no other update due in it.
SwappedOnce ==
  \A p \in Pos : swaps[p] = 1 /\ update_event_tab[p] # NoEvent => update_event_tab[p].tick > current_tick

\* An entry outlives the replacement of its node only where no component stands.
Outdated ==
  \A p \in Pos : outdated[p] /\ update_event_tab[p] # NoEvent => world[p] \notin Redstone

Entries == \A p \in Pos : Entry(queue, update_event_tab, p)

IInv ==
  /\ TypeOK
  /\ Entries
  /\ TimersOfComponents
  /\ OnTime
  /\ Timing
  /\ ClockMoves /\ Stalled
  /\ OneSwapPerTick /\ SwappedOnce
  /\ Outdated

\* TypeOK in two halves: the provers take data and flags better apart.
TypeData ==
  /\ world \in [Pos -> Node]
  /\ queue \subseteq Event
  /\ update_event_tab \in [Pos -> Event \cup {NoEvent}]
  /\ pending_updates \subseteq Pos
  /\ lbm_todo \subseteq Pos
  /\ current_tick \in Nat /\ last_tick \in Int
  /\ swaps \in [Pos -> Nat] /\ stalls \in Nat

TypeFlags ==
  /\ mapblock \in {"unloaded", "loaded", "active"}
  /\ phase \in {"idle", "events", "updates", "lbm"}
  /\ is_tick_frozen \in BOOLEAN /\ handled \in BOOLEAN /\ inserted \in BOOLEAN
  /\ outdated \in [Pos -> BOOLEAN]

LEMMA TypeHalves == TypeOK <=> TypeData /\ TypeFlags
BY DEF TypeOK, TypeData, TypeFlags

LEMMA TypeHalvesNext == TypeOK' <=> TypeData' /\ TypeFlags'
BY DEF TypeOK, TypeData, TypeFlags

-----------------------------------------------------------------------------
(* What after, set_node and the answer of a callback do to queue and table. *)

\* The queue only grows, by events that are not late.
QueueGrows(q) ==
  /\ queue' \subseteq Event
  /\ q \subseteq queue'
  /\ \A e \in queue' \ q :
       /\ e.tick >= current_tick
       /\ e.act.type = "update" => e.tick > current_tick
       /\ e.act.type = "timer" => e.act.node \in Updates

\* An entry is kept, cleared, or replaced by one due later.
TableMoves(t) ==
  /\ update_event_tab' \in [Pos -> Event \cup {NoEvent}]
  /\ \A x \in Pos :
       \/ update_event_tab'[x] = NoEvent
       \/ update_event_tab'[x] = t[x]
       \/ Entry(queue', update_event_tab', x) /\ update_event_tab'[x].tick > current_tick

\* outdated is told truly: it is unset, or what it was, or no component stands at p.
OutdatedMoves(t) ==
  /\ outdated' \in [Pos -> BOOLEAN]
  /\ \A x \in Pos :
       \/ ~outdated'[x]
       \/ update_event_tab'[x] = NoEvent
       \/ world'[x] \notin Redstone
       \/ outdated[x] /\ update_event_tab'[x] = t[x] /\ world'[x] = world[x]

CallbackEffect(q, t) ==
  QueueGrows(q) /\ TableMoves(t) /\ world' \in [Pos -> Node] /\ OutdatedMoves(t)

\* An event given to after() is a new one of the queue, due delay ticks from now.
LEMMA AfterAddsOne ==
  ASSUME NEW q \in SUBSET Event, NEW delay \in Nat, NEW func \in AfterAct,
         current_tick \in Nat, After(q, delay, func)
  PROVE  \E e \in Event : queue' = q \cup {e} /\ e.tick = current_tick + delay /\ e.act = func
<1>1. PICK c \in Copies : Enqueued(q, [copy |-> c, tick |-> DueTick(delay), act |-> func])
  BY DEF After
<1>. DEFINE e == [copy |-> c, tick |-> DueTick(delay), act |-> func]
<1>2. e \in Event
  BY DEF Event, DueTick
<1>. QED
  BY <1>1, <1>2 DEF Enqueued, DueTick

\* core.set_node replaces nodes, after a piston swapped itself where no entry is outdated; a
\* table entry survives it only under a node that is no component.
LEMMA SetNodesEffect ==
  ASSUME NEW q \in SUBSET Event, NEW t \in [Pos -> Event \cup {NoEvent}],
         NEW w \in [Pos -> Node], NEW new \in Replacements(Pos), TypeOK,
         \A x \in Pos : w[x] = world[x] \/ ~outdated[x] \/ t[x] = NoEvent,
         SetNodes(q, t, w, new)
  PROVE  CallbackEffect(q, t)
<1>. DEFINE closures == UNION {Closures(x, w[x], new[x]) : x \in DOMAIN new}
<1>1. PICK copy \in [closures -> Copies] :
        queue' = q \cup {[copy |-> copy[f], tick |-> DueTick(0), act |-> f] : f \in DOMAIN copy}
  BY DEF SetNodes
<1>2. DOMAIN new \subseteq Pos /\ \A x \in DOMAIN new : new[x] \in Node
  BY DEF Replacements
<1>3. ASSUME NEW f \in closures
      PROVE  f \in AfterAct /\ f.type \in {"construct", "destruct"}
  <2>1. PICK x \in DOMAIN new : f \in Closures(x, w[x], new[x])
    BY <1>3
  <2>. QED
    BY <1>2, <2>1 DEF Closures, AfterAct
<1>. HIDE DEF closures
<1>4. ASSUME NEW f \in closures
      PROVE  [copy |-> copy[f], tick |-> DueTick(0), act |-> f] \in Event
  BY <1>3, <1>4 DEF Event, DueTick, TypeOK
<1>5. QueueGrows(q)
  <2>1. ASSUME NEW e \in queue' \ q
        PROVE  e \in Event /\ e.tick = current_tick /\ e.act.type \in {"construct", "destruct"}
    <3>1. PICK f \in closures : e = [copy |-> copy[f], tick |-> DueTick(0), act |-> f]
      BY <1>1, <2>1
    <3>. QED
      BY <1>3, <1>4, <3>1 DEF DueTick, TypeOK
  <2>. QED
    BY <1>1, <2>1 DEF QueueGrows, TypeOK
<1>6. TableMoves(t)
  BY DEF SetNodes, TableMoves
<1>7. world' \in [Pos -> Node]
  BY <1>2 DEF SetNodes
<1>8. OutdatedMoves(t)
  <2>1. outdated' \in [Pos -> BOOLEAN]
    BY DEF SetNodes, TypeOK
  <2>2. ASSUME NEW x \in Pos
        PROVE  \/ ~outdated'[x]
               \/ update_event_tab'[x] = NoEvent
               \/ world'[x] \notin Redstone
               \/ outdated[x] /\ update_event_tab'[x] = t[x] /\ world'[x] = world[x]
    <3>1. CASE x \in DOMAIN new
      BY <3>1 DEF SetNodes, Aborts
    <3>2. CASE x \notin DOMAIN new
      BY <3>2 DEF SetNodes
    <3>. QED
      BY <3>1, <3>2
  <2>. QED
    BY <2>1, <2>2 DEF OutdatedMoves
<1>. QED
  BY <1>5, <1>6, <1>7, <1>8 DEF CallbackEffect

\* One new node.
LEMMA OneReplacement ==
  ASSUME NEW p \in Pos, NEW n \in Node
  PROVE  [x \in {p} |-> n] \in Replacements(Pos)
<1>1. {p} \in SUBSET Pos /\ [x \in {p} |-> n] \in [{p} -> Node]
  OBVIOUS
<1>. QED
  BY <1>1 DEF Replacements

LEMMA SetNodeEffect ==
  ASSUME NEW q \in SUBSET Event, NEW t \in [Pos -> Event \cup {NoEvent}],
         NEW p \in Pos, NEW n \in Node, TypeOK, SetNode(q, t, p, n)
  PROVE  CallbackEffect(q, t)
<1>1. world \in [Pos -> Node]
  BY DEF TypeOK
<1>. QED
  BY <1>1, OneReplacement, SetNodesEffect DEF SetNode

\* _schedule_update: the entry stays, is cleared, or gives way to a new event.
LEMMA ScheduleEffect ==
  ASSUME NEW q \in SUBSET Event, NEW t \in [Pos -> Event \cup {NoEvent}],
         NEW p \in Pos, NEW r \in Answer, r.kind \in {"swap", "both"}, TypeOK,
         world[p] \in Updates, ScheduleUpdate(q, t, p, r), UNCHANGED world
  PROVE  CallbackEffect(q, t)
<1>. USE ParameterAssumption
<1>1. r.node \in Node /\ r.delay \in Delays /\ r.priority \in Priorities
  BY DEF Answer
<1>2. world' \in [Pos -> Node]
  BY DEF TypeOK
<1>3. CASE /\ KeepsPriority(t, p, r.priority)
           /\ queue' = q /\ update_event_tab' = t /\ UNCHANGED outdated
  BY <1>2, <1>3 DEF CallbackEffect, QueueGrows, TableMoves, OutdatedMoves, TypeOK
<1>4. CASE /\ queue' = q
           /\ update_event_tab' = [t EXCEPT ![p] = NoEvent]
           /\ outdated' = [outdated EXCEPT ![p] = FALSE]
  BY <1>2, <1>4 DEF CallbackEffect, QueueGrows, TableMoves, OutdatedMoves, TypeOK
<1>5. CASE /\ \E c \in Copies :
                LET e == [copy |-> c, tick |-> DueTick(r.delay),
                          act |-> [type |-> "update", pos |-> p, priority |-> r.priority,
                                   node |-> r.node, oldnode |-> world[p]]]
                IN  Enqueued(q, e) /\ update_event_tab' = [t EXCEPT ![p] = e]
           /\ outdated' = [outdated EXCEPT ![p] = FALSE]
  <2>1. PICK c \in Copies :
          LET e == [copy |-> c, tick |-> DueTick(r.delay),
                    act |-> [type |-> "update", pos |-> p, priority |-> r.priority,
                             node |-> r.node, oldnode |-> world[p]]]
          IN  Enqueued(q, e) /\ update_event_tab' = [t EXCEPT ![p] = e]
    BY <1>5
  <2>. DEFINE a == [type |-> "update", pos |-> p, priority |-> r.priority,
                    node |-> r.node, oldnode |-> world[p]]
  <2>. DEFINE e == [copy |-> c, tick |-> DueTick(r.delay), act |-> a]
  <2>2. a \in UpdateAct
    BY <1>1 DEF UpdateAct, TypeOK
  <2>3. r.delay \in Nat \ {0}
    BY <1>1
  <2>4. e \in Event /\ e.tick \in Nat /\ e.tick > current_tick
    BY <2>2, <2>3 DEF Event, DueTick, TypeOK
  <2>5. queue' = q \cup {e} /\ update_event_tab' = [t EXCEPT ![p] = e]
    BY <2>1 DEF Enqueued
  <2>. HIDE DEF e
  <2>6. e.act = a /\ e.act.type = "update"
    BY DEF e
  <2>7. QueueGrows(q)
    BY <2>4, <2>5, <2>6 DEF QueueGrows, TypeOK
  <2>8. TableMoves(t)
    BY <2>4, <2>5, <2>6 DEF TableMoves, Entry
  <2>9. OutdatedMoves(t)
    BY <1>5, <2>5 DEF OutdatedMoves, TypeOK
  <2>. QED
    BY <1>2, <2>7, <2>8, <2>9 DEF CallbackEffect
<1>. QED
  BY <1>3, <1>4, <1>5 DEF ScheduleUpdate

\* Whatever a callback answers, obeying it has the effect above.
LEMMA ObeyEffect ==
  ASSUME NEW q \in SUBSET Event, NEW t \in [Pos -> Event \cup {NoEvent}],
         NEW p \in Pos, NEW r \in Answer, TypeOK,
         r.kind # "none" => world[p] \in Updates,
         Obey(q, t, p, r)
  PROVE  CallbackEffect(q, t)
<1>. USE ParameterAssumption
<1>1. CASE r.kind = "none"
  <2>1. queue' = q /\ update_event_tab' = t /\ world' = world /\ outdated' = outdated
    BY <1>1 DEF Obey
  <2>. QED
    BY <2>1 DEF CallbackEffect, QueueGrows, TableMoves, OutdatedMoves, TypeOK
<1>2. CASE r.kind = "swap"
  BY <1>2, ScheduleEffect DEF Obey
<1>3. CASE r.kind = "after"
  <2>. DEFINE f == TimerAct(p)
  <2>1. After(q, r.after, f) /\ update_event_tab' = t /\ world' = world /\ outdated' = outdated
    BY <1>3 DEF Obey
  <2>2. f \in AfterAct
    BY DEF TimerAct, AfterAct, TypeOK
  <2>3. r.after \in Nat
    BY <1>3 DEF Answer
  <2>. HIDE DEF f
  <2>4. PICK e \in Event : queue' = q \cup {e} /\ e.tick = current_tick + r.after /\ e.act = f
    BY <2>1, <2>2, <2>3, AfterAddsOne DEF TypeOK
  <2>5. f.type = "timer" /\ f.node \in Updates
    BY <1>3 DEF f, TimerAct
  <2>6. QueueGrows(q)
    BY <2>3, <2>4, <2>5 DEF QueueGrows, TypeOK
  <2>. QED
    BY <2>1, <2>6 DEF CallbackEffect, TableMoves, OutdatedMoves, TypeOK
<1>4. CASE r.kind = "set"
  <2>1. SetNode(q, t, p, r.node)
    BY <1>4 DEF Obey
  <2>2. r.node \in Node
    BY <1>4 DEF Answer
  <2>. QED
    BY <2>1, <2>2, SetNodeEffect
<1>5. CASE r.kind = "both"
  <2>1. PICK c \in Copies :
          ScheduleUpdate(q \cup {[copy |-> c, tick |-> DueTick(r.after), act |-> TimerAct(p)]}, t, p, r)
          /\ UNCHANGED world
    BY <1>5 DEF Obey
  <2>. DEFINE e == [copy |-> c, tick |-> DueTick(r.after), act |-> TimerAct(p)]
  <2>2. TimerAct(p) \in AfterAct /\ TimerAct(p).type = "timer" /\ TimerAct(p).node \in Updates
    BY <1>5 DEF TimerAct, AfterAct, TypeOK
  <2>3. r.after \in Nat
    BY <1>5 DEF Answer
  <2>4. e \in Event /\ e.tick >= current_tick /\ e.act = TimerAct(p)
    BY <2>2, <2>3 DEF Event, DueTick, TypeOK
  <2>. HIDE DEF e
  <2>5. CallbackEffect(q \cup {e}, t)
    <3>1. q \cup {e} \in SUBSET Event
      BY <2>4
    <3>2. ScheduleUpdate(q \cup {e}, t, p, r) /\ UNCHANGED world
      BY <2>1 DEF e
    <3>. QED
      BY <1>5, <3>1, <3>2, ScheduleEffect
  <2>6. QueueGrows(q)
    BY <2>2, <2>4, <2>5 DEF CallbackEffect, QueueGrows
  <2>. QED
    BY <2>5, <2>6 DEF CallbackEffect
<1>. QED
  BY <1>1, <1>2, <1>3, <1>4, <1>5 DEF Answer

-----------------------------------------------------------------------------
(* Initial states and steps. *)

LEMMA InitIInv == Init => IInv
<1>. SUFFICES ASSUME Init PROVE IInv
  OBVIOUS
<1>. USE DEF Init
<1>1. TypeData /\ TypeFlags
  <2>1. TypeData
    BY DEF TypeData
  <2>2. TypeFlags
    BY DEF TypeFlags
  <2>. QED
    BY <2>1, <2>2
<1>2. Entries /\ TimersOfComponents /\ OnTime /\ Timing /\ ClockMoves /\ Stalled
  BY DEF Entries, Entry, TimersOfComponents, OnTime, Timing, ClockMoves, Stalled
<1>3. OneSwapPerTick /\ SwappedOnce /\ Outdated
  BY DEF OneSwapPerTick, SwappedOnce, Outdated
<1>. QED
  BY <1>1, <1>2, <1>3, TypeHalves DEF IInv

\* The parts of IInv that speak of queue, table and nodes survive a callback that
\* leaves clock and histories alone; q is the queue it started from.
LEMMA CallbackStep ==
  ASSUME IInv, NEW q \in SUBSET queue, CallbackEffect(q, update_event_tab),
         \A p \in Pos : update_event_tab[p] # NoEvent => update_event_tab[p] \in q,
         current_tick' = current_tick, swaps' = swaps, stalls' = stalls
  PROVE  /\ Entries' /\ TimersOfComponents' /\ OnTime'
         /\ ClockMoves' /\ OneSwapPerTick' /\ SwappedOnce' /\ Outdated'
         /\ \A e \in queue' : e \in queue \/ (e.tick >= current_tick
                                               /\ (e.act.type = "update" => e.tick > current_tick))
<1>. USE DEF IInv, CallbackEffect
<1>1. \A e \in queue' : e \in queue \/ (e.tick >= current_tick
                                         /\ (e.act.type = "update" => e.tick > current_tick))
  BY DEF QueueGrows
<1>2. Entries'
  <2>1. ASSUME NEW p \in Pos, update_event_tab'[p] # NoEvent
        PROVE  Entry(queue', update_event_tab', p)
    <3>1. CASE update_event_tab'[p] = update_event_tab[p]
      BY <2>1, <3>1 DEF QueueGrows, Entries, Entry
    <3>2. CASE Entry(queue', update_event_tab', p)
      BY <3>2
    <3>. QED
      BY <2>1, <3>1, <3>2 DEF TableMoves
  <2>. QED
    BY <2>1 DEF Entries, Entry
<1>3. TimersOfComponents'
  BY DEF TimersOfComponents, QueueGrows
<1>4. OnTime'
  BY <1>1 DEF OnTime, TypeOK, QueueGrows, Event
<1>5. ClockMoves' /\ OneSwapPerTick'
  BY DEF ClockMoves, OneSwapPerTick
<1>6. SwappedOnce'
  BY DEF SwappedOnce, TableMoves
<1>7. Outdated'
  BY DEF Outdated, OutdatedMoves
<1>. QED
  BY <1>1, <1>2, <1>3, <1>4, <1>5, <1>6, <1>7

\* What a callback is asked with is an answer, and a component's unless it is none.
LEMMA AnswersAreAnswers ==
  ASSUME TypeOK, NEW p \in Pos
  PROVE  /\ InitAnswers(p) \subseteq Answer /\ UpdateAnswers(p) \subseteq Answer
         /\ \A r \in InitAnswers(p) \cup UpdateAnswers(p) : r.kind # "none" => world[p] \in Updates
<1>1. NoAnswer \in Answer /\ NoAnswer.kind = "none"
  BY DEF NoAnswer, Answer
<1>. QED
  BY <1>1, CallbackAssumption DEF InitAnswers, UpdateAnswers, TypeOK

\* Marked positions are positions.
LEMMA MarksArePositions ==
  ASSUME NEW p \in Pos, NEW w \in [Pos -> Node], NEW old \in Node \cup {NoNode}
  PROVE  Marks(p, old, w) \subseteq SUBSET Pos
BY CallbackAssumption

LEMMA MarksNext ==
  ASSUME NEW p \in Pos, NEW old \in Node \cup {NoNode}, world' \in [Pos -> Node],
         NEW m \in Marks(p, old, world')
  PROVE  m \subseteq Pos
BY MarksArePositions

\* A tick begins: the queue keeps its events or loses them all.
LEMMA BeginTickStep == IInv /\ BeginTick => IInv'
<1>. SUFFICES ASSUME IInv, BeginTick PROVE IInv'
  OBVIOUS
<1>. USE DEF IInv, BeginTick
<1>1. CASE UNCHANGED <<queue, update_event_tab, outdated>>
  <2>1. TypeData'
    BY <1>1, TypeHalves DEF TypeData
  <2>4. TypeFlags'
    BY <1>1, TypeHalves DEF TypeFlags
  <2>2. Entries' /\ TimersOfComponents' /\ OnTime' /\ Timing' /\ ClockMoves' /\ Stalled'
    BY <1>1 DEF Entries, Entry, TimersOfComponents, OnTime, Timing, ClockMoves, Stalled, TypeOK
  <2>3. OneSwapPerTick' /\ SwappedOnce' /\ Outdated'
    BY <1>1 DEF OneSwapPerTick, SwappedOnce, Outdated
  <2>. QED
    BY <2>1, <2>2, <2>3, <2>4, TypeHalvesNext
<1>2. CASE ClearAllPendingEvents
  <2>. USE <1>2 DEF ClearAllPendingEvents
  <2>1. TypeData'
    BY TypeHalves DEF TypeData
  <2>4. TypeFlags'
    BY TypeHalves DEF TypeFlags
  <2>2. Entries' /\ TimersOfComponents' /\ OnTime' /\ Timing' /\ ClockMoves' /\ Stalled'
    BY DEF Entries, Entry, TimersOfComponents, OnTime, Timing, ClockMoves, Stalled, TypeOK
  <2>3. OneSwapPerTick' /\ SwappedOnce' /\ Outdated'
    BY DEF OneSwapPerTick, SwappedOnce, Outdated
  <2>. QED
    BY <2>1, <2>2, <2>3, <2>4, TypeHalvesNext
<1>. QED
  BY <1>1, <1>2

\* Dequeuing in a tick: the event is due now, or one tick late.
LEMMA DequeueFacts ==
  ASSUME IInv, NEW e \in queue, Dequeue(e)
  PROVE  /\ e \in Event
         /\ e.tick \in {current_tick - 1, current_tick}
         /\ (e.act.type = "update" => e.tick = current_tick)
         /\ (stalls = 1 => e.tick = current_tick)
         /\ last_tick' = e.tick /\ phase = "events" /\ phase' = "events"
         /\ current_tick' = current_tick /\ stalls' = stalls
BY DEF IInv, TypeOK, Event, Dequeue, Due, OnTime, Stalled

\* Dequeuing leaves Timing and Stalled, given events that are not late.
LEMMA DequeueTiming ==
  ASSUME IInv, NEW e \in queue, Dequeue(e),
         \A f \in queue' : f \in queue \/ f.tick >= current_tick
  PROVE  Timing' /\ Stalled'
<1>. USE DequeueFacts
<1>1. Timing'
  BY DEF Timing
<1>2. Stalled'
  BY DEF Stalled, IInv
<1>. QED
  BY <1>1, <1>2

LEMMA ApplyUpdateStep == ASSUME IInv, NEW e \in queue, ApplyUpdate(e) PROVE IInv'
<1>. USE DEF IInv, ApplyUpdate
<1>. DEFINE p == e.act.pos
<1>1. Dequeue(e)
  OBVIOUS
<1>2. e \in Event /\ e.act \in UpdateAct /\ p \in Pos /\ e.act.node \in Node /\ e.act.oldnode \in Node
  BY DEF TypeOK, Event, AfterAct, UpdateAct
<1>3. e.tick = current_tick /\ update_event_tab[p] = e
  BY <1>1, DequeueFacts DEF InForce
<1>4. e # NoEvent
  BY <1>2, ParameterAssumption
<1>5. swaps[p] = 0
  BY <1>2, <1>3, <1>4 DEF SwappedOnce, OneSwapPerTick, TypeOK
<1>6. TypeOK'
  <2>1. world' \in [Pos -> Node]
    BY <1>2 DEF TypeOK
  <2>2. pending_updates' \subseteq Pos
    <3>1. PICK m \in Marks(p, e.act.oldnode, world') : pending_updates' = pending_updates \cup m
      BY DEF ApplyUpdate
    <3>2. p \in Pos /\ e.act.oldnode \in Node \cup {NoNode}
      BY <1>2
    <3>. HIDE DEF ApplyUpdate, p
    <3>3. m \subseteq Pos
      BY <2>1, <3>1, <3>2, MarksNext
    <3>. QED
      BY <3>1, <3>3 DEF TypeOK
  <2>3. last_tick' \in Int /\ handled' \in BOOLEAN
    BY <1>3, <1>1 DEF Dequeue, TypeOK
  <2>. QED
    BY <1>1, <1>2, <2>1, <2>2, <2>3 DEF TypeOK, Dequeue
<1>7. Entries'
  BY <1>2, <1>3 DEF Entries, Entry, TypeOK
<1>8. TimersOfComponents' /\ OnTime' /\ ClockMoves'
  BY <1>1 DEF TimersOfComponents, OnTime, ClockMoves, Dequeue
<1>9. Timing' /\ Stalled'
  BY <1>1, DequeueTiming
<1>10. OneSwapPerTick' /\ SwappedOnce'
  BY <1>1, <1>2, <1>5 DEF OneSwapPerTick, SwappedOnce, TypeOK, Dequeue
<1>11. Outdated'
  BY <1>2 DEF Outdated, TypeOK
<1>. QED
  BY <1>6, <1>7, <1>8, <1>9, <1>10, <1>11

LEMMA DropUpdateStep == ASSUME IInv, NEW e \in queue, DropUpdate(e) PROVE IInv'
<1>. USE DEF IInv, DropUpdate
<1>. DEFINE p == e.act.pos
<1>1. Dequeue(e)
  OBVIOUS
<1>2. e \in Event /\ p \in Pos /\ e.tick \in Nat
  BY DEF TypeOK, Event, AfterAct, UpdateAct
<1>3. \A x \in Pos : update_event_tab'[x] # NoEvent =>
        update_event_tab'[x] = update_event_tab[x] /\ update_event_tab[x] \in queue \ {e}
        /\ outdated'[x] = outdated[x]
  BY <1>2 DEF Entries, Entry, InForce, TypeOK
<1>4. TypeData'
  BY <1>1, <1>2, TypeHalves DEF TypeData, Dequeue
<1>8. TypeFlags'
  BY <1>1, <1>2, TypeHalves DEF TypeFlags, Dequeue
<1>5. Entries' /\ TimersOfComponents' /\ OnTime' /\ ClockMoves'
  BY <1>1, <1>3 DEF Entries, Entry, TimersOfComponents, OnTime, ClockMoves, Dequeue
<1>6. Timing' /\ Stalled'
  BY <1>1, DequeueTiming
<1>7. OneSwapPerTick' /\ SwappedOnce' /\ Outdated'
  BY <1>1, <1>3 DEF OneSwapPerTick, SwappedOnce, Outdated, Dequeue
<1>. QED
  BY <1>4, <1>5, <1>6, <1>7, <1>8, TypeHalvesNext

LEMMA ConstructStep == ASSUME IInv, NEW e \in queue, Construct(e) PROVE IInv'
<1>. USE DEF IInv, Construct
<1>. DEFINE p == e.act.pos  q == queue \ {e}
<1>1. Dequeue(e) /\ swaps' = swaps
  OBVIOUS
<1>2. e \in Event /\ e.act \in AfterAct /\ p \in Pos
  BY DEF TypeOK, Event, AfterAct, UpdateAct
<1>3. PICK r \in InitAnswers(p) : Obey(q, update_event_tab, p, r)
  OBVIOUS
<1>4. CallbackEffect(q, update_event_tab)
  BY <1>2, <1>3, AnswersAreAnswers, ObeyEffect DEF TypeOK
<1>5. \A x \in Pos : update_event_tab[x] # NoEvent => update_event_tab[x] \in q
  BY DEF Entries, Entry
<1>6. current_tick' = current_tick /\ stalls' = stalls
  BY <1>1 DEF Dequeue
<1>7. /\ Entries' /\ TimersOfComponents' /\ OnTime'
      /\ ClockMoves' /\ OneSwapPerTick' /\ SwappedOnce' /\ Outdated'
      /\ \A f \in queue' : f \in queue \/ f.tick >= current_tick
  BY <1>1, <1>4, <1>5, <1>6, CallbackStep
<1>8. Timing' /\ Stalled'
  BY <1>1, <1>7, DequeueTiming
<1>9. TypeOK'
  <2>1. pending_updates' \subseteq Pos /\ mapblock' \in {"unloaded", "loaded", "active"}
    BY <1>2, <1>4, MarksArePositions DEF TypeOK, CallbackEffect
  <2>2. last_tick' \in Int
    BY <1>1, DequeueFacts DEF TypeOK, Event
  <2>. QED
    BY <1>1, <1>4, <2>1, <2>2
       DEF TypeOK, Dequeue, CallbackEffect, QueueGrows, TableMoves, OutdatedMoves
<1>. QED
  BY <1>7, <1>8, <1>9

\* A closure that neither calls back nor touches the table.
LEMMA DequeueKeepsEntries ==
  ASSUME IInv, NEW e \in queue, Dequeue(e), e.act.type # "update", queue' = queue \ {e},
         UNCHANGED <<update_event_tab, swaps>>
  PROVE  /\ Entries' /\ TimersOfComponents' /\ OnTime' /\ ClockMoves'
         /\ Timing' /\ Stalled' /\ OneSwapPerTick' /\ SwappedOnce'
<1>. USE DEF IInv
<1>1. Entries' /\ TimersOfComponents' /\ OnTime' /\ ClockMoves'
  BY DEF Entries, Entry, TimersOfComponents, OnTime, ClockMoves, Dequeue
<1>2. Timing' /\ Stalled'
  BY DequeueTiming
<1>3. OneSwapPerTick' /\ SwappedOnce'
  BY DEF OneSwapPerTick, SwappedOnce, Dequeue
<1>. QED
  BY <1>1, <1>2, <1>3

LEMMA DestructStep == ASSUME IInv, NEW e \in queue, Destruct(e) PROVE IInv'
<1>. USE DEF IInv, Destruct
<1>1. Dequeue(e)
  OBVIOUS
<1>2. e \in Event /\ e.act \in AfterAct /\ e.act.pos \in Pos /\ e.act.node \in Node /\ e.tick \in Nat
  BY DEF TypeOK, Event, AfterAct, UpdateAct
<1>3. Entries' /\ TimersOfComponents' /\ OnTime' /\ ClockMoves'
      /\ Timing' /\ Stalled' /\ OneSwapPerTick' /\ SwappedOnce'
  BY <1>1, DequeueKeepsEntries
<1>4. Outdated'
  BY DEF Outdated
<1>5. TypeData'
  <2>1. pending_updates' \subseteq Pos
    BY <1>2, MarksArePositions DEF TypeOK
  <2>. QED
    BY <1>1, <1>2, <2>1 DEF TypeData, TypeOK, Dequeue
<1>6. TypeFlags'
  BY <1>1, TypeHalves DEF TypeFlags, Dequeue
<1>. QED
  BY <1>3, <1>4, <1>5, <1>6, TypeHalvesNext

\* A piston moves itself and others: no outdated update awaits a piston.
LEMMA FireEffects ==
  ASSUME IInv, NEW e \in queue, Timer(e), Loaded /\ Name(world[e.act.pos]) = Name(e.act.node)
  PROVE  \E w \in [Pos -> Node], new \in Replacements(Pos) :
           /\ \A x \in Pos : w[x] = world[x] \/ ~outdated[x] \/ update_event_tab[x] = NoEvent
           /\ \A x \in DOMAIN new : w[x] = world[x]
           /\ SetNodes(queue \ {e}, update_event_tab, w, new)
<1>. DEFINE p == e.act.pos
<1>1. p \in Pos /\ e.act.node \in Node /\ e.act.type = "timer"
  BY DEF Timer, IInv, TypeOK, Event, AfterAct, UpdateAct
<1>2. world \in [Pos -> Node] /\ world[p] \in Node
  BY <1>1 DEF IInv, TypeOK
<1>3. world[p] \in Redstone
  BY <1>1, <1>2, NameAssumption, ParameterAssumption DEF IInv, TimersOfComponents
<1>4. ~outdated[p] \/ update_event_tab[p] = NoEvent
  BY <1>1, <1>3 DEF IInv, Outdated
<1>5. PICK f \in Fire(p, world) :
        SetNodes(queue \ {e}, update_event_tab, [world EXCEPT ![p] = f.self], f.others)
  BY DEF Timer
<1>6. f \in FireEffect(p)
  BY <1>1, <1>2, CallbackAssumption
<1>7. f.self \in Node /\ f.others \in Replacements(Pos \ {p})
  BY <1>6 DEF FireEffect
<1>8. PICK T \in SUBSET (Pos \ {p}) : f.others \in [T -> Node]
  BY <1>7 DEF Replacements
<1>9. f.others \in Replacements(Pos)
  BY <1>8 DEF Replacements
<1>. DEFINE w == [world EXCEPT ![p] = f.self]
<1>10. w \in [Pos -> Node] /\ \A x \in Pos \ {p} : w[x] = world[x]
  BY <1>1, <1>2, <1>7
<1>11. \A x \in Pos : w[x] = world[x] \/ ~outdated[x] \/ update_event_tab[x] = NoEvent
  BY <1>4, <1>10
<1>12. \A x \in DOMAIN f.others : w[x] = world[x]
  BY <1>8, <1>10
<1>. QED
  BY <1>5, <1>9, <1>10, <1>11, <1>12

LEMMA TimerStep == ASSUME IInv, NEW e \in queue, Timer(e) PROVE IInv'
<1>. USE DEF IInv
<1>. DEFINE p == e.act.pos  q == queue \ {e}
<1>1. Dequeue(e) /\ swaps' = swaps /\ UNCHANGED <<mapblock, pending_updates, is_tick_frozen>>
  BY DEF Timer
<1>2. CallbackEffect(q, update_event_tab)
  <2>1. CASE Loaded /\ Name(world[p]) = Name(e.act.node)
    <3>1. PICK w \in [Pos -> Node], new \in Replacements(Pos) :
            /\ \A x \in Pos : w[x] = world[x] \/ ~outdated[x] \/ update_event_tab[x] = NoEvent
            /\ SetNodes(q, update_event_tab, w, new)
      BY <2>1, FireEffects
    <3>. QED
      BY <3>1, SetNodesEffect DEF TypeOK
  <2>2. CASE queue' = q /\ UNCHANGED <<world, update_event_tab, outdated>>
    BY <2>2 DEF CallbackEffect, QueueGrows, TableMoves, OutdatedMoves, TypeOK
  <2>. QED
    BY <2>1, <2>2 DEF Timer
<1>3. \A x \in Pos : update_event_tab[x] # NoEvent => update_event_tab[x] \in q
  BY DEF Entries, Entry, Timer
<1>4. current_tick' = current_tick /\ stalls' = stalls
  BY <1>1 DEF Dequeue
<1>5. /\ Entries' /\ TimersOfComponents' /\ OnTime'
      /\ ClockMoves' /\ OneSwapPerTick' /\ SwappedOnce' /\ Outdated'
      /\ \A f \in queue' : f \in queue \/ f.tick >= current_tick
  BY <1>1, <1>2, <1>3, <1>4, CallbackStep
<1>6. Timing' /\ Stalled'
  BY <1>1, <1>5, DequeueTiming
<1>7. TypeData'
  <2>1. last_tick' \in Int
    BY <1>1, DequeueFacts DEF TypeOK, Event
  <2>. QED
    BY <1>1, <1>2, <2>1
       DEF TypeData, TypeOK, Dequeue, CallbackEffect, QueueGrows, TableMoves
<1>8. TypeFlags'
  BY <1>1, <1>2, TypeHalves DEF TypeFlags, Dequeue, CallbackEffect, OutdatedMoves
<1>. QED
  BY <1>5, <1>6, <1>7, <1>8, TypeHalvesNext

LEMMA RefreezeStep == ASSUME IInv, NEW e \in queue, Refreeze(e) PROVE IInv'
<1>. USE DEF IInv, Refreeze
<1>1. Dequeue(e)
  OBVIOUS
<1>2. e \in Event /\ e.tick \in Nat
  BY DEF TypeOK, Event
<1>3. Entries' /\ TimersOfComponents' /\ OnTime' /\ ClockMoves'
      /\ Timing' /\ Stalled' /\ OneSwapPerTick' /\ SwappedOnce'
  BY <1>1, DequeueKeepsEntries
<1>4. Outdated'
  BY DEF Outdated
<1>5. TypeData'
  BY <1>1, <1>2, TypeHalves DEF TypeData, Dequeue
<1>6. TypeFlags'
  BY <1>1, TypeHalves DEF TypeFlags, Dequeue
<1>. QED
  BY <1>3, <1>4, <1>5, <1>6, TypeHalvesNext

\* The first loop ends with nothing due, which is what the updates of the second rely on.
LEMMA EndEventsStep == IInv /\ EndEvents => IInv'
<1>. SUFFICES ASSUME IInv, EndEvents PROVE IInv'
  OBVIOUS
<1>. USE DEF IInv, EndEvents
<1>1. Timing'
  BY DEF Timing, NoneDue, Due, TypeOK, Event
<1>2. Entries' /\ TimersOfComponents' /\ OnTime' /\ ClockMoves' /\ Stalled'
      /\ OneSwapPerTick' /\ SwappedOnce' /\ Outdated'
  BY DEF Entries, Entry, TimersOfComponents, OnTime, ClockMoves, Stalled,
         OneSwapPerTick, SwappedOnce, Outdated
<1>3. TypeData'
  BY TypeHalves DEF TypeData
<1>4. TypeFlags'
  BY TypeHalves DEF TypeFlags
<1>. QED
  BY <1>1, <1>2, <1>3, <1>4, TypeHalvesNext

LEMMA CallUpdateStep == ASSUME IInv, NEW p \in Pos, CallUpdate(p) PROVE IInv'
<1>. USE DEF IInv, CallUpdate
<1>1. PICK r \in UpdateAnswers(p) : Obey(queue, update_event_tab, p, r)
  OBVIOUS
<1>2. CallbackEffect(queue, update_event_tab)
  BY <1>1, AnswersAreAnswers, ObeyEffect DEF TypeOK
<1>3. \A x \in Pos : update_event_tab[x] # NoEvent => update_event_tab[x] \in queue
  BY DEF Entries, Entry
<1>4. /\ Entries' /\ TimersOfComponents' /\ OnTime'
      /\ ClockMoves' /\ OneSwapPerTick' /\ SwappedOnce' /\ Outdated'
      /\ \A e \in queue' : e \in queue \/ (e.tick >= current_tick
                                            /\ (e.act.type = "update" => e.tick > current_tick))
  BY <1>2, <1>3, CallbackStep
<1>5. Timing' /\ Stalled'
  BY <1>4 DEF Timing, Stalled
<1>6. TypeData'
  <2>1. pending_updates' \subseteq Pos
    BY CallbackAssumption DEF TypeOK
  <2>. QED
    BY <1>2, <2>1 DEF TypeData, TypeOK, CallbackEffect, QueueGrows, TableMoves
<1>7. TypeFlags'
  BY <1>2, TypeHalves DEF TypeFlags, CallbackEffect, OutdatedMoves
<1>. QED
  BY <1>4, <1>5, <1>6, <1>7, TypeHalvesNext

\* The clock moves on, or stands because the last event was a tick late.
LEMMA FinishTickStep == IInv /\ FinishTick => IInv'
<1>. SUFFICES ASSUME IInv, FinishTick PROVE IInv'
  OBVIOUS
<1>. USE DEF IInv, FinishTick
<1>1. current_tick \in Nat /\ current_tick' \in Nat /\ current_tick' \in {current_tick, current_tick + 1}
  BY DEF Timing, TypeOK
<1>2. \A e \in queue : e.tick \in Nat
  BY DEF TypeOK, Event
<1>3. Entries' /\ TimersOfComponents' /\ OnTime' /\ Timing' /\ Outdated'
  BY <1>1, <1>2 DEF Entries, Entry, TimersOfComponents, OnTime, Timing, Outdated
<1>4. ClockMoves' /\ Stalled'
  BY <1>1, <1>2 DEF ClockMoves, Stalled, Timing, TypeOK
<1>5. OneSwapPerTick' /\ SwappedOnce'
  <2>1. CASE current_tick' = current_tick
    BY <2>1 DEF OneSwapPerTick, SwappedOnce
  <2>2. CASE current_tick' # current_tick
    BY <2>2 DEF OneSwapPerTick, SwappedOnce
  <2>. QED
    BY <2>1, <2>2
<1>6. TypeData'
  BY <1>1, TypeHalves DEF TypeData
<1>7. TypeFlags'
  BY TypeHalves DEF TypeFlags
<1>. QED
  BY <1>3, <1>4, <1>5, <1>6, <1>7, TypeHalvesNext

\* Steps that leave queue, table, nodes and clock alone.
LEMMA QuietStep ==
  ASSUME IInv, UNCHANGED <<world, queue, update_event_tab, current_tick, last_tick, swaps,
                           stalls, outdated>>,
         TypeOK', phase' \in {"idle", "lbm"} \/ phase' = phase
  PROVE  IInv'
BY DEF IInv, Entries, Entry, TimersOfComponents, OnTime, Timing, ClockMoves, Stalled,
       OneSwapPerTick, SwappedOnce, Outdated

LEMMA AbortTickStep == IInv /\ AbortTick => IInv'
<1>. SUFFICES ASSUME IInv, AbortTick PROVE IInv'
  OBVIOUS
<1>1. TypeData' /\ TypeFlags'
  BY TypeHalves DEF IInv, TypeData, TypeFlags, AbortTick
<1>. QED
  BY <1>1, QuietStep, TypeHalvesNext DEF AbortTick

\* A node replaced from outside, or by a load block modifier's answer.
LEMMA OutsideCallback ==
  ASSUME IInv, phase \in {"idle", "lbm"}, phase' \in {"idle", "lbm"},
         CallbackEffect(queue, update_event_tab),
         UNCHANGED <<mapblock, is_tick_frozen, current_tick, last_tick, handled, inserted,
                     swaps, stalls>>,
         pending_updates' \subseteq Pos, lbm_todo' \subseteq Pos
  PROVE  IInv'
<1>. USE DEF IInv
<1>1. \A x \in Pos : update_event_tab[x] # NoEvent => update_event_tab[x] \in queue
  BY DEF Entries, Entry
<1>2. /\ Entries' /\ TimersOfComponents' /\ OnTime'
      /\ ClockMoves' /\ OneSwapPerTick' /\ SwappedOnce' /\ Outdated'
      /\ \A e \in queue' : e \in queue \/ (e.tick >= current_tick
                                            /\ (e.act.type = "update" => e.tick > current_tick))
  BY <1>1, CallbackStep
<1>3. Timing' /\ Stalled'
  BY <1>2 DEF Timing, Stalled
<1>4. TypeData'
  BY TypeHalves DEF TypeData, CallbackEffect, QueueGrows, TableMoves
<1>5. TypeFlags'
  BY TypeHalves DEF TypeFlags, CallbackEffect, OutdatedMoves
<1>. QED
  BY <1>2, <1>3, <1>4, <1>5, TypeHalvesNext

LEMMA ReplaceNodeStep ==
  ASSUME IInv, NEW p \in Pos, NEW n \in Node, ReplaceNode(p, n) PROVE IInv'
<1>1. CallbackEffect(queue, update_event_tab)
  BY SetNodeEffect DEF IInv, TypeOK, ReplaceNode
<1>2. pending_updates' \subseteq Pos /\ lbm_todo' \subseteq Pos
  BY DEF IInv, TypeOK, ReplaceNode
<1>. QED
  BY <1>1, <1>2, OutsideCallback DEF ReplaceNode, ticking

\* A component swapped for another of its states keeps its entry; no component had an
\* outdated one, and what is no component stays so.
LEMMA SwapNodeStep ==
  ASSUME IInv, NEW p \in Pos, NEW n \in Node, SwapNode(p, n) PROVE IInv'
<1>. USE DEF IInv
<1>1. world' = [world EXCEPT ![p] = n] /\ world' \in [Pos -> Node]
  BY DEF SwapNode, TypeOK
<1>2. CallbackEffect(queue, update_event_tab)
  <2>1. queue' = queue /\ update_event_tab' = update_event_tab /\ outdated' = outdated
    BY DEF SwapNode
  <2>2. \A x \in Pos : ~outdated[x] \/ update_event_tab[x] = NoEvent \/ world'[x] \notin Redstone
    BY <1>1 DEF SwapNode, Outdated, TypeOK
  <2>3. QueueGrows(queue) /\ TableMoves(update_event_tab)
    BY <2>1 DEF QueueGrows, TableMoves, TypeOK
  <2>4. OutdatedMoves(update_event_tab)
    BY <2>1, <2>2 DEF OutdatedMoves, TypeOK
  <2>. QED
    BY <1>1, <2>3, <2>4 DEF CallbackEffect
<1>3. pending_updates' \subseteq Pos
  <2>1. PICK m \in Marks(p, world[p], world') \cup {{}} : pending_updates' = pending_updates \cup m
    BY DEF SwapNode
  <2>2. world[p] \in Node \cup {NoNode}
    BY DEF TypeOK
  <2>3. m \subseteq Pos
    BY <1>1, <2>1, <2>2, MarksNext
  <2>. QED
    BY <2>1, <2>3 DEF TypeOK
<1>4. lbm_todo' \subseteq Pos
  BY DEF SwapNode, TypeOK
<1>. QED
  BY <1>2, <1>3, <1>4, OutsideCallback DEF SwapNode, ticking

LEMMA LoadNodeStep == ASSUME IInv, NEW p \in Pos, LoadNode(p) PROVE IInv'
<1>1. PICK r \in InitAnswers(p) : Obey(queue, update_event_tab, p, r)
  BY DEF LoadNode
<1>2. CallbackEffect(queue, update_event_tab)
  BY <1>1, AnswersAreAnswers, ObeyEffect DEF IInv, TypeOK
<1>3. pending_updates' \subseteq Pos
  <2>1. CASE UNCHANGED pending_updates
    BY <2>1 DEF IInv, TypeOK
  <2>2. CASE \E m \in Marks(p, NoNode, world') : pending_updates' = pending_updates \cup m
    BY <1>2, <2>2, MarksNext DEF IInv, TypeOK, CallbackEffect
  <2>. QED
    BY <2>1, <2>2 DEF LoadNode
<1>4. lbm_todo' \subseteq Pos /\ phase = "lbm" /\ phase' \in {"idle", "lbm"}
  BY DEF IInv, TypeOK, LoadNode
<1>. QED
  BY <1>2, <1>3, <1>4, OutsideCallback DEF LoadNode

LEMMA StepCommandStep == ASSUME IInv, NEW n \in StepArgs, StepCommand(n) PROVE IInv'
<1>. USE DEF IInv
<1>1. n \in Nat
  BY ParameterAssumption
<1>2. [type |-> "freeze"] \in AfterAct
  BY DEF AfterAct
<1>3. PICK e \in Event : queue' = queue \cup {e} /\ e.tick = current_tick + n
                         /\ e.act = [type |-> "freeze"]
  BY <1>1, <1>2, AfterAddsOne DEF StepCommand, TypeOK
<1>. USE DEF StepCommand, ticking
<1>4. e.act.type = "freeze"
  BY <1>3
<1>5. Entries' /\ TimersOfComponents' /\ OnTime' /\ ClockMoves'
  BY <1>1, <1>3, <1>4 DEF Entries, Entry, TimersOfComponents, OnTime, ClockMoves, TypeOK
<1>6. Timing' /\ Stalled'
  BY <1>1, <1>3, <1>4 DEF Timing, Stalled, TypeOK
<1>7. OneSwapPerTick' /\ SwappedOnce' /\ Outdated'
  BY DEF OneSwapPerTick, SwappedOnce, Outdated
<1>8. TypeData'
  BY <1>3, TypeHalves DEF TypeData
<1>9. TypeFlags'
  BY TypeHalves DEF TypeFlags
<1>. QED
  BY <1>5, <1>6, <1>7, <1>8, <1>9, TypeHalvesNext

LEMMA RestartStep == IInv /\ Restart => IInv'
<1>. SUFFICES ASSUME IInv, Restart PROVE IInv'
  OBVIOUS
<1>. USE DEF Restart
<1>1. TypeData'
  BY TypeHalves DEF IInv, TypeData
<1>2. TypeFlags'
  BY TypeHalves DEF IInv, TypeFlags
<1>3. Entries' /\ TimersOfComponents' /\ OnTime' /\ Timing' /\ ClockMoves' /\ Stalled'
  BY DEF Entries, Entry, TimersOfComponents, OnTime, Timing, ClockMoves, Stalled
<1>4. OneSwapPerTick' /\ SwappedOnce' /\ Outdated'
  BY DEF OneSwapPerTick, SwappedOnce, Outdated
<1>. QED
  BY <1>1, <1>2, <1>3, <1>4, TypeHalvesNext DEF IInv

LEMMA QuietEnvironment ==
  ASSUME IInv,
         \/ \E p \in Pos : UpdateNode(p)
         \/ \E b \in BOOLEAN : SetFrozen(b)
         \/ Unload
         \/ Activate
         \/ UNCHANGED vars
  PROVE  IInv'
<1>. USE TypeHalves, TypeHalvesNext, QuietStep DEF IInv, ticking
<1>1. CASE \E p \in Pos : UpdateNode(p)
  BY <1>1 DEF UpdateNode, TypeData, TypeFlags
<1>2. CASE \E b \in BOOLEAN : SetFrozen(b)
  BY <1>2 DEF SetFrozen, TypeData, TypeFlags
<1>3. CASE Unload
  BY <1>3 DEF Unload, TypeData, TypeFlags
<1>4. CASE Activate
  BY <1>4 DEF Activate, TypeData, TypeFlags
<1>5. CASE UNCHANGED vars
  BY <1>5 DEF vars, TypeData, TypeFlags
<1>. QED
  BY <1>1, <1>2, <1>3, <1>4, <1>5

\* Every step keeps IInv.
LEMMA NextIInv == IInv /\ [Next]_vars => IInv'
<1>. SUFFICES ASSUME IInv, [Next]_vars PROVE IInv'
  OBVIOUS
<1>1. CASE TickStep
  <2>1. CASE GlobalStep \/ CommandStep
    BY <2>1, BeginTickStep DEF GlobalStep, CommandStep
  <2>2. ASSUME NEW e \in queue, HandleEvent(e) PROVE IInv'
    BY <2>2, ApplyUpdateStep, DropUpdateStep, ConstructStep, DestructStep, TimerStep,
       RefreezeStep DEF HandleEvent
  <2>3. CASE EndEvents \/ FinishTick \/ AbortTick
    BY <2>3, EndEventsStep, FinishTickStep, AbortTickStep
  <2>4. ASSUME NEW p \in Pos, CallUpdate(p) PROVE IInv'
    BY <2>4, CallUpdateStep
  <2>. QED
    BY <1>1, <2>1, <2>2, <2>3, <2>4 DEF TickStep
<1>2. CASE Environment
  <2>1. ASSUME NEW p \in Pos, NEW n \in Node, ReplaceNode(p, n) \/ SwapNode(p, n) PROVE IInv'
    BY <2>1, ReplaceNodeStep, SwapNodeStep
  <2>2. ASSUME NEW p \in Pos, LoadNode(p) PROVE IInv'
    BY <2>2, LoadNodeStep
  <2>3. ASSUME NEW n \in StepArgs, StepCommand(n) PROVE IInv'
    BY <2>3, StepCommandStep
  <2>. QED
    BY <1>2, <2>1, <2>2, <2>3, RestartStep, QuietEnvironment DEF Environment
<1>3. CASE UNCHANGED vars
  BY <1>3, QuietEnvironment
<1>. QED
  BY <1>1, <1>2, <1>3 DEF Next

THEOREM Invariance == Spec => []IInv
BY InitIInv, NextIInv, PTL DEF Spec

-----------------------------------------------------------------------------
(* The properties the runs check, for every instance. *)

\* The ranges of the variables.
THEOREM TypeCorrect == Spec => []TypeOK
<1>1. IInv => TypeOK
  BY DEF IInv
<1>. QED
  BY <1>1, Invariance, PTL

\* No entry of update_event_tab outlives its event, so none can block a position.
THEOREM TableFollowsQueue == Spec => []TableInQueue
<1>1. IInv => TableInQueue
  BY DEF IInv, Entries, Entry, TableInQueue
<1>. QED
  BY <1>1, Invariance, PTL

\* The queue changes a node at most once per redstone tick.
THEOREM SwapsOncePerTick == Spec => []OneSwapPerTick
<1>1. IInv => OneSwapPerTick
  BY DEF IInv
<1>. QED
  BY <1>1, Invariance, PTL

\* Updates are handled at their tick, closures at most one tick late.
THEOREM EventsOnTime == Spec => []OnTime
<1>1. IInv => OnTime
  BY DEF IInv
<1>. QED
  BY <1>1, Invariance, PTL

\* Two completed ticks in a row move the clock.
THEOREM ClockNeverStallsTwice == Spec => []ClockMoves
<1>1. IInv => ClockMoves
  BY DEF IInv
<1>. QED
  BY <1>1, Invariance, PTL

\* A replaced node is safe from the updates of the one before it.
THEOREM ReplacedNodeSafe == Spec => []ReplacedNodeKeepsNoUpdate
<1>1. IInv => ReplacedNodeKeepsNoUpdate
  BY ParameterAssumption DEF IInv, Outdated, Entries, Entry, ReplacedNodeKeepsNoUpdate
<1>. QED
  BY <1>1, Invariance, PTL

-----------------------------------------------------------------------------
(* What single steps do to the clock. *)

\* Only the end of a tick and a restart move the clock.
LEMMA ClockActions ==
  ASSUME Next, ~FinishTick, ~Restart
  PROVE  current_tick' = current_tick
<1>1. CASE TickStep
  BY <1>1 DEF TickStep, GlobalStep, CommandStep, BeginTick, HandleEvent, ApplyUpdate, DropUpdate,
     Construct, Destruct, Timer, Refreeze, Dequeue, EndEvents, CallUpdate, AbortTick
<1>2. CASE Environment
  BY <1>2 DEF Environment, UpdateNode, LoadNode, ReplaceNode, SwapNode, SetFrozen, StepCommand, Unload,
     Activate, ticking
<1>. QED
  BY <1>1, <1>2 DEF Next

\* The clock is never turned back and skips no tick.
THEOREM ClockIsSteady == Spec => ClockSteps
<1>. DEFINE A == Restart \/ current_tick' \in {current_tick, current_tick + 1}
<1>1. IInv /\ [Next]_vars => [A]_vars
  <2>. SUFFICES ASSUME IInv, Next PROVE A
    OBVIOUS
  <2>1. CASE FinishTick
    BY <2>1 DEF FinishTick, IInv, Timing, TypeOK
  <2>2. CASE ~FinishTick
    BY <2>2, ClockActions
  <2>. QED
    BY <2>1, <2>2
<1>. QED
  BY <1>1, Invariance, PTL DEF Spec, ClockSteps

-----------------------------------------------------------------------------
(* What single steps do to the updates in force. *)

\* The entry at x gives way to a better one only.
Yields(x) ==
  update_event_tab[x] # NoEvent /\ update_event_tab'[x] \notin {NoEvent, update_event_tab[x]}
    => update_event_tab'[x].act.priority < update_event_tab[x].act.priority

\* The priority of an entry is that of its update.
LEMMA EntryPriority ==
  ASSUME IInv, NEW x \in Pos, update_event_tab[x] # NoEvent
  PROVE  update_event_tab[x].act.priority \in Priorities
<1>1. update_event_tab[x] \in Event /\ update_event_tab[x].act.type = "update"
  BY DEF IInv, TypeOK, Entries, Entry
<1>. QED
  BY <1>1 DEF Event, UpdateAct, AfterAct

\* A callback's answer moves one entry at most, and by _schedule_update's rule.
LEMMA ObeyYields ==
  ASSUME IInv, NEW q, NEW p \in Pos, NEW r \in Answer, Obey(q, update_event_tab, p, r),
         NEW x \in Pos
  PROVE  Yields(x)
<1>. USE DEF Yields
<1>1. CASE r.kind \in {"swap", "both"}
  <2>1. (\E s : ScheduleUpdate(s, update_event_tab, p, r)) /\ r.priority \in Priorities
    BY <1>1 DEF Obey, Answer
  <2>2. update_event_tab \in [Pos -> Event \cup {NoEvent}]
    BY DEF IInv, TypeOK
  <2>3. CASE KeepsPriority(update_event_tab, p, r.priority)
    BY <2>1, <2>3 DEF ScheduleUpdate
  <2>4. CASE ~KeepsPriority(update_event_tab, p, r.priority)
    <3>1. \/ update_event_tab' = [update_event_tab EXCEPT ![p] = NoEvent]
          \/ \E e : e.act.priority = r.priority
                    /\ update_event_tab' = [update_event_tab EXCEPT ![p] = e]
      BY <2>1, <2>4 DEF ScheduleUpdate
    <3>2. update_event_tab[p] # NoEvent => r.priority < update_event_tab[p].act.priority
      <4>. SUFFICES ASSUME update_event_tab[p] # NoEvent
                    PROVE  r.priority < update_event_tab[p].act.priority
        OBVIOUS
      <4>1. r.priority \in Nat /\ update_event_tab[p].act.priority \in Nat
        BY <2>1, EntryPriority, ParameterAssumption
      <4>. QED
        BY <2>4, <4>1 DEF KeepsPriority
    <3>. QED
      BY <2>2, <3>1, <3>2
  <2>. QED
    BY <2>3, <2>4
<1>2. CASE r.kind = "set"
  BY <1>2 DEF Obey, SetNode, SetNodes
<1>3. CASE r.kind \in {"none", "after"}
  BY <1>3 DEF Obey
<1>. QED
  BY <1>1, <1>2, <1>3 DEF Answer

\* Steps without a callback's answer only clear entries.
LEMMA OtherStepsYield ==
  ASSUME IInv, NEW x \in Pos,
         \/ GlobalStep \/ CommandStep \/ EndEvents \/ FinishTick \/ AbortTick
         \/ \E e \in queue : ApplyUpdate(e) \/ DropUpdate(e) \/ Destruct(e) \/ Timer(e) \/ Refreeze(e)
         \/ \E p \in Pos : UpdateNode(p)
         \/ \E p \in Pos, n \in Node : ReplaceNode(p, n) \/ SwapNode(p, n)
         \/ \E b \in BOOLEAN : SetFrozen(b)
         \/ \E n \in StepArgs : StepCommand(n)
         \/ Unload \/ Activate \/ Restart
  PROVE  Yields(x)
<1>1. update_event_tab'[x] \in {NoEvent, update_event_tab[x]}
  BY DEF IInv, TypeOK, GlobalStep, CommandStep, BeginTick, ClearAllPendingEvents, EndEvents,
     FinishTick, AbortTick, ApplyUpdate, DropUpdate, Destruct, Timer, Refreeze, UpdateNode,
     ReplaceNode, SetNode, SetNodes, SwapNode, SetFrozen, StepCommand, Unload, Activate, Restart
<1>. QED
  BY <1>1 DEF Yields

\* Of two overlapping updates the better one is kept, for any priorities.
THEOREM BetterPriorityIsKept == Spec => BetterPriorityWins
<1>. DEFINE A == \A x \in Pos : Yields(x)
<1>1. IInv /\ [Next]_vars => [A]_vars
  <2>. SUFFICES ASSUME IInv, Next, NEW x \in Pos PROVE Yields(x)
    OBVIOUS
  <2>1. ASSUME NEW e \in queue, Construct(e) PROVE Yields(x)
    <3>1. PICK r \in InitAnswers(e.act.pos) : Obey(queue \ {e}, update_event_tab, e.act.pos, r)
      BY <2>1 DEF Construct
    <3>2. e.act.pos \in Pos
      BY <2>1 DEF Construct, IInv, TypeOK, Event, AfterAct, UpdateAct
    <3>. QED
      BY <3>1, <3>2, AnswersAreAnswers, ObeyYields DEF IInv
  <2>2. ASSUME NEW p \in Pos, CallUpdate(p) PROVE Yields(x)
    BY <2>2, AnswersAreAnswers, ObeyYields DEF IInv, CallUpdate
  <2>3. ASSUME NEW p \in Pos, LoadNode(p) PROVE Yields(x)
    BY <2>3, AnswersAreAnswers, ObeyYields DEF IInv, LoadNode
  <2>. QED
    BY <2>1, <2>2, <2>3, OtherStepsYield DEF Next, TickStep, Environment, HandleEvent
<1>2. [A]_vars => [\A p \in Pos :
       update_event_tab[p] # NoEvent /\ update_event_tab'[p] \notin {NoEvent, update_event_tab[p]}
         => update_event_tab'[p].act.priority < update_event_tab[p].act.priority]_vars
  BY DEF Yields
<1>. QED
  BY <1>1, <1>2, Invariance, PTL DEF Spec, BetterPriorityWins


-----------------------------------------------------------------------------
(* What leaves the scheduler, and why: the part of PendingServed and       *)
(* UpdateSettles that is no matter of fairness.                            *)

\* The queue overflows, or the server restarts.
Forgets == (BeginTick /\ Cardinality(queue) > MaxEvents) \/ Restart

\* The update in force at x is called off by the callbacks or by a new node.
CalledOff(x) ==
  \/ \E q \in SUBSET queue, w \in [Pos -> Node], new \in Replacements(Pos) :
       /\ x \in DOMAIN new /\ Aborts(world[x], new[x])
       /\ SetNodes(q, update_event_tab, w, new)
  \/ \E r \in InitAnswers(x) \cup UpdateAnswers(x) :
       r.kind \in {"swap", "both"} /\ r.node = world[x] /\ r.priority < update_event_tab[x].act.priority

Vanishes(x) == update_event_tab[x] # NoEvent /\ update_event_tab'[x] = NoEvent

\* set_node calls off the updates of the positions it replaces alone.
LEMMA SetNodesCallsOff ==
  ASSUME IInv, NEW q \in SUBSET queue, NEW w \in [Pos -> Node], NEW new \in Replacements(Pos),
         \A x \in DOMAIN new : w[x] = world[x],
         SetNodes(q, update_event_tab, w, new), NEW x \in Pos, Vanishes(x)
  PROVE  CalledOff(x)
<1>1. x \in DOMAIN new /\ Aborts(w[x], new[x])
  BY DEF SetNodes, Vanishes
<1>. QED
  BY <1>1 DEF CalledOff

LEMMA SetNodeCallsOff ==
  ASSUME IInv, NEW q \in SUBSET queue, NEW p \in Pos, NEW n \in Node,
         SetNode(q, update_event_tab, p, n), NEW x \in Pos, Vanishes(x)
  PROVE  CalledOff(x)
<1>1. world \in [Pos -> Node]
  BY DEF IInv, TypeOK
<1>. QED
  BY <1>1, OneReplacement, SetNodesCallsOff DEF SetNode

\* Of an answer's effects, only set_node and a better "stay as you are" call off.
LEMMA ObeyCallsOff ==
  ASSUME IInv, NEW q \in SUBSET queue, NEW p \in Pos, NEW r \in InitAnswers(p) \cup UpdateAnswers(p),
         Obey(q, update_event_tab, p, r), NEW x \in Pos, Vanishes(x)
  PROVE  CalledOff(x)
<1>1. r \in Answer
  BY AnswersAreAnswers DEF IInv
<1>2. CASE r.kind \in {"swap", "both"}
  <2>1. (\E s : ScheduleUpdate(s, update_event_tab, p, r)) /\ r.priority \in Priorities
        /\ r.delay \in Delays /\ r.node \in Node
    BY <1>1, <1>2 DEF Obey, Answer
  <2>2. ~KeepsPriority(update_event_tab, p, r.priority)
    BY <2>1 DEF ScheduleUpdate, Vanishes
  <2>3. CASE r.node = world[p]
    <3>1. update_event_tab' = [update_event_tab EXCEPT ![p] = NoEvent]
      BY <2>1, <2>2, <2>3 DEF ScheduleUpdate
    <3>2. x = p
      BY <3>1 DEF Vanishes, IInv, TypeOK
    <3>3. r.priority \in Nat /\ update_event_tab[p].act.priority \in Nat
      BY <2>1, <3>2, EntryPriority, ParameterAssumption DEF Vanishes
    <3>4. r.priority < update_event_tab[p].act.priority
      BY <2>2, <3>2, <3>3 DEF KeepsPriority, Vanishes
    <3>. QED
      BY <1>2, <2>3, <3>2, <3>4 DEF CalledOff
  <2>4. CASE r.node # world[p]
    <3>1. PICK c \in Copies :
            update_event_tab' = [update_event_tab EXCEPT ![p] =
              [copy |-> c, tick |-> DueTick(r.delay),
               act |-> [type |-> "update", pos |-> p, priority |-> r.priority,
                        node |-> r.node, oldnode |-> world[p]]]]
      BY <2>1, <2>2, <2>4 DEF ScheduleUpdate
    <3>2. world[p] \in Node /\ DueTick(r.delay) \in Nat
      <4>1. world[p] \in Node /\ current_tick \in Nat
        BY DEF IInv, TypeOK
      <4>2. r.delay \in Nat
        BY <2>1, ParameterAssumption
      <4>. QED
        BY <4>1, <4>2 DEF DueTick
    <3>3. [copy |-> c, tick |-> DueTick(r.delay),
           act |-> [type |-> "update", pos |-> p, priority |-> r.priority,
                    node |-> r.node, oldnode |-> world[p]]] \in Event
      BY <2>1, <3>2 DEF Event, UpdateAct
    <3>4. update_event_tab'[x] # NoEvent
      BY <3>1, <3>3, ParameterAssumption DEF Vanishes, IInv, TypeOK
    <3>. QED
      BY <3>4 DEF Vanishes
  <2>. QED
    BY <2>3, <2>4
<1>3. CASE r.kind = "set"
  BY <1>1, <1>3, SetNodeCallsOff DEF Obey, Answer
<1>4. CASE r.kind \in {"none", "after"}
  BY <1>4 DEF Obey, Vanishes
<1>. QED
  BY <1>1, <1>2, <1>3, <1>4 DEF Answer

\* An answer takes no event out of the queue it finds.
LEMMA ObeyKeepsEvents ==
  ASSUME IInv, NEW q \in SUBSET queue, NEW p \in Pos, NEW r \in InitAnswers(p) \cup UpdateAnswers(p),
         Obey(q, update_event_tab, p, r)
  PROVE  q \subseteq queue'
<1>1. CallbackEffect(q, update_event_tab)
  BY AnswersAreAnswers, ObeyEffect DEF IInv, TypeOK
<1>. QED
  BY <1>1 DEF CallbackEffect, QueueGrows

\* Steps other than a callback's that leave queue and table as they are, or let them grow.
LEMMA QuietKeepsWork ==
  ASSUME \/ EndEvents \/ FinishTick \/ AbortTick
         \/ \E p \in Pos : UpdateNode(p)
         \/ \E b \in BOOLEAN : SetFrozen(b)
         \/ \E n \in StepArgs : StepCommand(n)
         \/ Unload \/ Activate
  PROVE  /\ queue \subseteq queue' /\ update_event_tab' = update_event_tab
         /\ pending_updates \subseteq pending_updates'
BY DEF EndEvents, FinishTick, AbortTick, UpdateNode, SetFrozen, StepCommand, After, Enqueued,
   Unload, Activate

\* A tick that begins without an overflow.
LEMMA BeginKeepsWork ==
  ASSUME GlobalStep \/ CommandStep, ~Forgets
  PROVE  /\ queue \subseteq queue' /\ update_event_tab' = update_event_tab
         /\ pending_updates \subseteq pending_updates'
BY DEF GlobalStep, CommandStep, BeginTick, Forgets

\* An event leaves the queue when it is handled, and with all the others when the
\* queue overflows or the server restarts.
EventsTakeTheirTurn == [][\A e \in queue \ queue' : HandleEvent(e) \/ Forgets]_vars

\* No step forgets a single event, whatever is aborted, frozen, unloaded or replaced.
THEOREM NoEventIsSkipped == Spec => EventsTakeTheirTurn
<1>1. IInv /\ [Next]_vars => [\A e \in queue \ queue' : HandleEvent(e) \/ Forgets]_vars
  <2>. SUFFICES ASSUME IInv, Next, ~Forgets, NEW e \in queue, e \notin queue'
                PROVE  HandleEvent(e)
    BY DEF Forgets
  <2>1. ASSUME NEW f \in queue, HandleEvent(f) PROVE HandleEvent(e)
    <3>1. queue \ {f} \subseteq queue'
      <4>1. CASE Construct(f)
        <5>1. f.act.pos \in Pos
          BY <4>1 DEF Construct, IInv, TypeOK, Event, AfterAct, UpdateAct
        <5>2. PICK r \in InitAnswers(f.act.pos) :
                Obey(queue \ {f}, update_event_tab, f.act.pos, r)
          BY <4>1 DEF Construct
        <5>. QED
          BY <5>1, <5>2, ObeyKeepsEvents
      <4>2. CASE Timer(f)
        BY <4>2 DEF Timer, SetNodes
      <4>3. CASE ~Construct(f) /\ ~Timer(f)
        BY <2>1, <4>3 DEF HandleEvent, ApplyUpdate, DropUpdate, Destruct, Refreeze
      <4>. QED
        BY <4>1, <4>2, <4>3
    <3>2. e = f
      BY <3>1
    <3>. QED
      BY <2>1, <3>2
  <2>2. ASSUME NEW p \in Pos, CallUpdate(p) PROVE queue \subseteq queue'
    BY <2>2, ObeyKeepsEvents DEF CallUpdate
  <2>3. ASSUME NEW p \in Pos, LoadNode(p) PROVE queue \subseteq queue'
    BY <2>3, ObeyKeepsEvents DEF LoadNode
  <2>4. ASSUME NEW p \in Pos, NEW n \in Node, ReplaceNode(p, n) PROVE queue \subseteq queue'
    BY <2>4 DEF ReplaceNode, SetNode, SetNodes
  <2>5. ASSUME NEW p \in Pos, NEW n \in Node, SwapNode(p, n) PROVE queue \subseteq queue'
    BY <2>5 DEF SwapNode
  <2>. QED
    BY <2>1, <2>2, <2>3, <2>4, <2>5, QuietKeepsWork, BeginKeepsWork
       DEF Next, TickStep, Environment, Forgets
<1>. QED
  BY <1>1, Invariance, PTL DEF Spec, EventsTakeTheirTurn

\* A mark in _pending_updates goes with the call of update at its position.
MarksAreHonoured == [][\A p \in pending_updates \ pending_updates' : CallUpdate(p) \/ Restart]_vars

\* No mark is lost: not by an aborted tick, an overflow, or a key that pairs() passes over.
THEOREM NoMarkIsLost == Spec => MarksAreHonoured
<1>1. [Next]_vars => [\A p \in pending_updates \ pending_updates' : CallUpdate(p) \/ Restart]_vars
  <2>. SUFFICES ASSUME Next, ~Restart, NEW p \in pending_updates, p \notin pending_updates'
                PROVE  CallUpdate(p)
    OBVIOUS
  <2>1. ASSUME NEW x \in Pos, CallUpdate(x) PROVE CallUpdate(p)
    BY <2>1 DEF CallUpdate
  <2>2. ASSUME NEW e \in queue, HandleEvent(e) PROVE pending_updates \subseteq pending_updates'
    BY <2>2 DEF HandleEvent, ApplyUpdate, DropUpdate, Construct, Destruct, Timer, Refreeze
  <2>3. ASSUME GlobalStep \/ CommandStep PROVE pending_updates \subseteq pending_updates'
    BY <2>3 DEF GlobalStep, CommandStep, BeginTick
  <2>4. ASSUME NEW x \in Pos, LoadNode(x) PROVE pending_updates \subseteq pending_updates'
    BY <2>4 DEF LoadNode
  <2>5. ASSUME NEW x \in Pos, NEW n \in Node, ReplaceNode(x, n) \/ SwapNode(x, n)
        PROVE  pending_updates \subseteq pending_updates'
    BY <2>5 DEF ReplaceNode, SwapNode
  <2>. QED
    BY <2>1, <2>2, <2>3, <2>4, <2>5, QuietKeepsWork DEF Next, TickStep, Environment
<1>. QED
  BY <1>1, PTL DEF Spec, MarksAreHonoured


\* An update in force ends in one of four ways: its event is handled, a callback or a new
\* node calls it off, or all is forgotten.
UpdatesEndForCause ==
  [][\A p \in Pos : Vanishes(p) =>
       \/ ApplyUpdate(update_event_tab[p]) \/ DropUpdate(update_event_tab[p])
       \/ CalledOff(p)
       \/ Forgets]_vars

\* No delayed node is left out for want of a cause: an update that a component asked for and
\* was granted is gone only when its time came, when the component at its position thought
\* better of it with a better priority, or when that component was replaced.
THEOREM NoUpdateVanishes == Spec => UpdatesEndForCause
<1>. DEFINE Ends(p) == \/ ApplyUpdate(update_event_tab[p]) \/ DropUpdate(update_event_tab[p])
                       \/ CalledOff(p)
                       \/ Forgets
<1>1. IInv /\ [Next]_vars => [\A p \in Pos : Vanishes(p) => Ends(p)]_vars
  <2>. SUFFICES ASSUME IInv, Next, ~Forgets, NEW x \in Pos, Vanishes(x) PROVE Ends(x)
    OBVIOUS
  <2>1. ASSUME NEW e \in queue, HandleEvent(e) PROVE Ends(x)
    <3>1. CASE ApplyUpdate(e) \/ DropUpdate(e)
      <4>1. e.act.pos \in Pos /\ e.act.type = "update"
        BY <3>1 DEF ApplyUpdate, DropUpdate, IInv, TypeOK, Event, AfterAct, UpdateAct
      <4>2. x = e.act.pos /\ update_event_tab[x] = e
        BY <3>1, <4>1 DEF ApplyUpdate, DropUpdate, InForce, Vanishes, IInv, TypeOK
      <4>. QED
        BY <3>1, <4>2
    <3>2. CASE Construct(e)
      <4>1. e.act.pos \in Pos
        BY <3>2 DEF Construct, IInv, TypeOK, Event, AfterAct, UpdateAct
      <4>2. PICK r \in InitAnswers(e.act.pos) :
              Obey(queue \ {e}, update_event_tab, e.act.pos, r)
        BY <3>2 DEF Construct
      <4>3. CalledOff(x)
        BY <4>1, <4>2, ObeyCallsOff
      <4>. QED
        BY <4>3
    <3>3. CASE Destruct(e) \/ Refreeze(e)
      BY <3>3 DEF Destruct, Refreeze, Vanishes
    <3>4. CASE Timer(e)
      <4>1. Loaded /\ Name(world[e.act.pos]) = Name(e.act.node)
        BY <3>4 DEF Timer, Vanishes
      <4>2. PICK w \in [Pos -> Node], new \in Replacements(Pos) :
              /\ \A y \in DOMAIN new : w[y] = world[y]
              /\ SetNodes(queue \ {e}, update_event_tab, w, new)
        BY <3>4, <4>1, FireEffects
      <4>3. queue \ {e} \in SUBSET queue
        OBVIOUS
      <4>4. CalledOff(x)
        BY <4>2, <4>3, SetNodesCallsOff
      <4>. QED
        BY <4>4
    <3>. QED
      BY <2>1, <3>1, <3>2, <3>3, <3>4 DEF HandleEvent
  <2>2. ASSUME NEW p \in Pos, CallUpdate(p) PROVE CalledOff(x)
    BY <2>2, ObeyCallsOff DEF CallUpdate
  <2>3. ASSUME NEW p \in Pos, LoadNode(p) PROVE CalledOff(x)
    BY <2>3, ObeyCallsOff DEF LoadNode
  <2>4. ASSUME NEW p \in Pos, NEW n \in Node, ReplaceNode(p, n) PROVE CalledOff(x)
    BY <2>4, SetNodeCallsOff DEF ReplaceNode
  <2>5. ASSUME NEW p \in Pos, NEW n \in Node, SwapNode(p, n) PROVE FALSE
    BY <2>5 DEF SwapNode, Vanishes
  <2>. QED
    BY <2>1, <2>2, <2>3, <2>4, <2>5, QuietKeepsWork, BeginKeepsWork
       DEF Next, TickStep, Environment, Forgets, Vanishes
<1>2. [\A p \in Pos : Vanishes(p) => Ends(p)]_vars =>
        [\A p \in Pos : Vanishes(p) =>
           \/ ApplyUpdate(update_event_tab[p]) \/ DropUpdate(update_event_tab[p])
           \/ CalledOff(p)
           \/ Forgets]_vars
  OBVIOUS
<1>. QED
  BY <1>1, <1>2, Invariance, PTL DEF Spec, UpdatesEndForCause
=============================================================================
