--------------------------- MODULE RedstoneQueue ---------------------------
(***************************************************************************)
(* The redstone scheduler: mods/ITEMS/REDSTONE/mcl_redstone/eventqueue.lua *)
(* and the callbacks of logic.lua that feed it.                            *)
(*                                                                         *)
(* Lua is single threaded, so tick_step runs to its end (or to its time    *)
(* budget) before anything else happens. The module cuts one tick_step in  *)
(* one step per event and one per pending update; `phase' says where the   *)
(* tick is, and everything outside a tick needs phase = "idle".            *)
(*                                                                         *)
(* What components do in their callbacks is a parameter (the constant      *)
(* operators below): a composition instantiates them with real components, *)
(* MCRedstoneQueue with every possible one.                                *)
(*                                                                         *)
(* Left out: observers (a module of their own in the plan), the contents   *)
(* of nodes other than name and param2, and the wording of log messages.   *)
(***************************************************************************)
EXTENDS Integers, FiniteSets

CONSTANTS
  Pos,            \* node positions; all of them lie in one map block
  Node,           \* node values: name and param2
  Redstone,       \* nodes whose definition has _mcl_redstone
  Emits,          \* those with a get_power
  Updates,        \* those with an update (and so an init)
  Name(_),        \* Name(n): the name of node n, without its param2
  NoNode,         \* "no oldnode" argument of update_neighbours
  NoEvent,        \* an absent entry of update_event_tab
  Delays,         \* delays a callback may ask for, in redstone ticks
  Priorities,     \* priorities a callback may ask for
  StepArgs,       \* arguments players give to "/tick step"
  Update(_, _),   \* Update(p, w): what the update callback of p may answer in world w
  Initial(_, _),  \* Initial(p, w): the same for the init callback
  Fire(_, _),     \* Fire(p, w): what a component's own after() callback may do
  Marks(_, _, _), \* Marks(p, old, w): sets of positions update_neighbours may mark
  SideMarks(_, _),\* SideMarks(p, w): sets of positions the update callback of p may mark
  MaxEvents,      \* MAX_EVENTS
  QueueBound,     \* bound: queue length
  Copies,         \* bound: equal events in the queue at one time
  MaxTick         \* bound: the clock

\* What a callback answers: nothing, a delayed swap, a call of after() (pistons), both
\* (buttons, torches), or an immediate core.set_node of its own position (trapdoors).
Answer == [kind : {"none"}]
            \cup [kind : {"swap"}, node : Node, delay : Delays, priority : Priorities]
            \cup [kind : {"after"}, after : Delays]
            \cup [kind : {"both"}, node : Node, delay : Delays, priority : Priorities, after : Delays]
            \cup [kind : {"set"}, node : Node]

NoAnswer == [kind |-> "none"]

\* New nodes for some of the positions S.
Replacements(S) == UNION {[T -> Node] : T \in SUBSET S}

\* What a component's own closure does at p: a piston swaps itself and, with its pusher
\* and what it pushes or pulls, sets and removes other nodes; a button plays a sound.
FireEffect(p) == [self : Node, others : Replacements(Pos \ {p})]

UpdateAct == [type : {"update"}, pos : Pos, priority : Priorities, node : Node, oldnode : Node]

\* The closures given to after(): those of on_construct and after_destruct, a
\* component's own timer, and the one "/tick step N" leaves behind.
AfterAct == [type : {"construct", "destruct", "timer"}, pos : Pos, node : Node]
              \cup [type : {"freeze"}]

\* Lua compares events by identity; copy tells equal events apart.
Event == [copy : Copies, tick : Nat, act : UpdateAct \cup AfterAct]

ASSUME ParameterAssumption ==
  /\ Redstone \subseteq Node
  /\ Emits \subseteq Redstone /\ Updates \subseteq Redstone
  /\ NoNode \notin Node
  /\ NoEvent \notin Event
  /\ Delays \subseteq Nat \ {0}
  /\ Priorities \subseteq Nat \ {0}
  /\ StepArgs \subseteq Nat
  /\ MaxEvents \in Nat /\ QueueBound \in Nat /\ MaxTick \in Nat

\* The definition of a node is that of its name.
ASSUME NameAssumption ==
  \A m, n \in Node : Name(m) = Name(n) =>
    /\ m \in Redstone <=> n \in Redstone
    /\ m \in Emits <=> n \in Emits
    /\ m \in Updates <=> n \in Updates

ASSUME CallbackAssumption ==
  \A p \in Pos, w \in [Pos -> Node] :
    /\ Update(p, w) \subseteq Answer
    /\ Initial(p, w) \subseteq Answer
    /\ Fire(p, w) \subseteq FireEffect(p)
    /\ SideMarks(p, w) \subseteq SUBSET Pos
    /\ \A old \in Node \cup {NoNode} : Marks(p, old, w) \subseteq SUBSET Pos

VARIABLES
  world,             \* the node at each position
  mapblock,          \* "unloaded", "loaded" (in memory only) or "active"
  queue,             \* the events in eventqueue
  update_event_tab,  \* the update event in force at each position
  pending_updates,   \* positions to call update on at the end of the tick
  current_tick,      \* the redstone clock
  last_tick,         \* tick_step's local of that name
  is_tick_frozen,
  phase,             \* "idle", "events", "updates" or "lbm"
  lbm_todo,          \* positions the load block modifiers have yet to visit
  handled,           \* this tick_step has handled an event or an update
  inserted,          \* a key was added to _pending_updates while pairs() ran over it
  swaps,             \* history: swaps by update events since the clock last moved
  stalls,            \* history: completed ticks since the clock last moved
  outdated           \* history: p's node was replaced after its update was scheduled

ticking == <<current_tick, last_tick, phase, handled, inserted>>
vars == <<world, mapblock, queue, update_event_tab, pending_updates, is_tick_frozen,
          lbm_todo, ticking, swaps, stalls, outdated>>

Init ==
  /\ world \in [Pos -> Node]
  /\ mapblock = "unloaded"
  /\ queue = {}
  /\ update_event_tab = [p \in Pos |-> NoEvent]
  /\ pending_updates = {}
  /\ current_tick = 0
  /\ last_tick = 0
  /\ is_tick_frozen = FALSE
  /\ phase = "idle"
  /\ lbm_todo = {}
  /\ handled = FALSE
  /\ inserted = FALSE
  /\ swaps = [p \in Pos |-> 0]
  /\ stalls = 0
  /\ outdated = [p \in Pos |-> FALSE]

Loaded == mapblock # "unloaded"

-----------------------------------------------------------------------------
(* Scheduling. q and t are the queue and the table the handler left so far. *)

Enqueued(q, e) == Cardinality(q) < QueueBound /\ e \notin q /\ queue' = q \cup {e}

\* Mutant: the delay is taken off the clock.
DueTickBack(delay) == current_tick - delay

DueTick(delay) == current_tick + delay

\* mcl_redstone.after
After(q, delay, func) ==
  \E c \in Copies : Enqueued(q, [copy |-> c, tick |-> DueTick(delay), act |-> func])

\* Mutant: a later update of the same priority takes over.
KeepsPriorityLax(t, p, priority) ==
  t[p] # NoEvent /\ priority > t[p].act.priority

\* The update in force at p is at least as important as a new one.
KeepsPriority(t, p, priority) ==
  t[p] # NoEvent /\ priority >= t[p].act.priority

\* mcl_redstone._schedule_update
ScheduleUpdate(q, t, p, r) ==
  \/ /\ KeepsPriority(t, p, r.priority)
     /\ queue' = q
     /\ update_event_tab' = t
     /\ UNCHANGED outdated
  \/ /\ ~KeepsPriority(t, p, r.priority)
     /\ r.node = world[p]
     /\ queue' = q
     /\ update_event_tab' = [t EXCEPT ![p] = NoEvent]
     /\ outdated' = [outdated EXCEPT ![p] = FALSE]
  \/ /\ ~KeepsPriority(t, p, r.priority)
     /\ r.node # world[p]
     /\ \E c \in Copies :
          LET e == [copy |-> c, tick |-> DueTick(r.delay),
                    act |-> [type |-> "update", pos |-> p, priority |-> r.priority,
                             node |-> r.node, oldnode |-> world[p]]]
          IN  Enqueued(q, e) /\ update_event_tab' = [t EXCEPT ![p] = e]
     /\ outdated' = [outdated EXCEPT ![p] = FALSE]

\* The closures after_destruct and on_construct leave behind when n replaces old at p.
Closures(p, old, n) ==
  (IF old \in Redstone THEN {[type |-> "destruct", pos |-> p, node |-> old]} ELSE {})
    \cup (IF n \in Redstone THEN {[type |-> "construct", pos |-> p, node |-> n]} ELSE {})

\* Mutant: on_construct forgets to abort the pending update.
AbortsLax(old, n) == old \in Emits

\* after_destruct of an emitting node and on_construct of a redstone node abort.
Aborts(old, n) == old \in Emits \/ n \in Redstone

\* core.set_node at each position of new, in world w: after_destruct of the old node, then
\* on_construct of the new. (core.remove_node in between sets air, which adds nothing.)
SetNodes(q, t, w, new) ==
  LET closures == UNION {Closures(x, w[x], new[x]) : x \in DOMAIN new} IN
  /\ world' = [x \in Pos |-> IF x \in DOMAIN new THEN new[x] ELSE w[x]]
  /\ update_event_tab' =
       [x \in Pos |-> IF x \in DOMAIN new /\ Aborts(w[x], new[x]) THEN NoEvent ELSE t[x]]
  /\ outdated' =
       [x \in Pos |-> IF x \in DOMAIN new THEN update_event_tab'[x] # NoEvent ELSE outdated[x]]
  /\ \E copy \in [closures -> Copies] :
       LET added == {[copy |-> copy[f], tick |-> DueTick(0), act |-> f] : f \in DOMAIN copy}
       IN  /\ Cardinality(q) + Cardinality(added) <= QueueBound
           /\ added \cap q = {}
           /\ queue' = q \cup added

SetNode(q, t, p, n) == SetNodes(q, t, world, [x \in {p} |-> n])

\* The closure a component's callback at p gives to after().
TimerAct(p) == [type |-> "timer", pos |-> p, node |-> world[p]]

\* schedule_update and the effects a callback has by itself, for the answer r of p.
Obey(q, t, p, r) ==
  \/ r.kind = "none" /\ queue' = q /\ update_event_tab' = t /\ UNCHANGED <<world, outdated>>
  \/ r.kind = "swap" /\ ScheduleUpdate(q, t, p, r) /\ UNCHANGED world
  \/ /\ r.kind = "after"
     /\ After(q, r.after, TimerAct(p))
     /\ update_event_tab' = t
     /\ UNCHANGED <<world, outdated>>
  \/ /\ r.kind = "both"
     /\ \E c \in Copies :
          LET e == [copy |-> c, tick |-> DueTick(r.after), act |-> TimerAct(p)]
          IN  /\ e \notin q /\ Cardinality(q) < QueueBound
              /\ ScheduleUpdate(q \cup {e}, t, p, r)
     /\ UNCHANGED world
  \/ r.kind = "set" /\ SetNode(q, t, p, r.node)

\* call_init and _call_update: an unloaded position reads as "ignore", which has neither.
InitAnswers(p)   == IF Loaded /\ world[p] \in Updates THEN Initial(p, world) ELSE {NoAnswer}
UpdateAnswers(p) == IF Loaded /\ world[p] \in Updates THEN Update(p, world) ELSE {NoAnswer}

-----------------------------------------------------------------------------
(* tick_step *)

Due(e) == e.tick <= current_tick
NoneDue == \A e \in queue : ~Due(e)

\* Mutant: the table is not emptied along with the queue.
ClearKeepsTable == queue' = {} /\ UNCHANGED <<update_event_tab, outdated>>

\* clear_all_pending_events
ClearAllPendingEvents ==
  /\ queue' = {}
  /\ update_event_tab' = [p \in Pos |-> NoEvent]
  /\ outdated' = [p \in Pos |-> FALSE]

\* tick_step up to its first loop.
BeginTick ==
  /\ phase = "idle"
  /\ current_tick < MaxTick
  /\ \/ Cardinality(queue) > MaxEvents /\ ClearAllPendingEvents
     \/ Cardinality(queue) <= MaxEvents /\ UNCHANGED <<queue, update_event_tab, outdated>>
  /\ phase' = "events"
  /\ last_tick' = current_tick
  /\ handled' = FALSE
  /\ UNCHANGED <<world, mapblock, pending_updates, is_tick_frozen, lbm_todo,
                 current_tick, inserted, swaps, stalls>>

\* The globalstep, when its timer has run out.
GlobalStep == ~is_tick_frozen /\ BeginTick

\* "/tick step" without an argument, and each of the ticks of "/tick sprint".
CommandStep == is_tick_frozen /\ BeginTick

\* eventqueue:dequeue: an event of the least tick, if that is due.
Dequeue(e) ==
  /\ phase = "events"
  /\ Due(e)
  /\ \A f \in queue : e.tick <= f.tick
  /\ last_tick' = e.tick
  /\ handled' = TRUE
  /\ UNCHANGED <<current_tick, phase, inserted, lbm_todo, stalls>>

\* Mutant: any update event of the position counts as the one in force.
InForceByPosition(e) == update_event_tab[e.act.pos] # NoEvent

InForce(e) == update_event_tab[e.act.pos] = e

\* handle_update_event, when it changes the node.
ApplyUpdate(e) ==
  LET p == e.act.pos IN
  /\ Dequeue(e)
  /\ e.act.type = "update"
  /\ InForce(e)
  /\ Loaded
  /\ world[p] = e.act.oldnode
  /\ world' = [world EXCEPT ![p] = e.act.node]
  /\ queue' = queue \ {e}
  /\ update_event_tab' = [update_event_tab EXCEPT ![p] = NoEvent]
  /\ outdated' = [outdated EXCEPT ![p] = FALSE]
  /\ swaps' = [swaps EXCEPT ![p] = @ + 1]
  /\ \E m \in Marks(p, e.act.oldnode, world') : pending_updates' = pending_updates \cup m
  /\ UNCHANGED <<mapblock, is_tick_frozen>>

\* Mutant: the table is cleared only when the node changes.
DropUpdateKeepsEntry(e) ==
  /\ Dequeue(e)
  /\ e.act.type = "update"
  /\ ~(InForce(e) /\ Loaded /\ world[e.act.pos] = e.act.oldnode)
  /\ queue' = queue \ {e}
  /\ UNCHANGED <<world, mapblock, update_event_tab, pending_updates, is_tick_frozen, swaps, outdated>>

\* handle_update_event, when the event is superseded or its node is not there any more.
DropUpdate(e) ==
  LET p == e.act.pos IN
  /\ Dequeue(e)
  /\ e.act.type = "update"
  /\ \/ ~InForce(e) /\ UNCHANGED <<update_event_tab, outdated>>
     \/ /\ InForce(e)
        /\ ~(Loaded /\ world[p] = e.act.oldnode)
        /\ update_event_tab' = [update_event_tab EXCEPT ![p] = NoEvent]
        /\ outdated' = [outdated EXCEPT ![p] = FALSE]
  /\ queue' = queue \ {e}
  /\ UNCHANGED <<world, mapblock, pending_updates, is_tick_frozen, swaps>>

\* The closure of on_construct: call_init, and update_neighbours for an emitting
\* node, whose load_area brings the map block back to memory.
Construct(e) ==
  LET p == e.act.pos IN
  /\ Dequeue(e)
  /\ e.act.type = "construct"
  /\ \E r \in InitAnswers(p) : Obey(queue \ {e}, update_event_tab, p, r)
  /\ \/ /\ e.act.node \in Emits
        /\ mapblock' = IF Loaded THEN mapblock ELSE "loaded"
        /\ \E m \in Marks(p, NoNode, world') : pending_updates' = pending_updates \cup m
     \/ e.act.node \notin Emits /\ UNCHANGED <<mapblock, pending_updates>>
  /\ UNCHANGED <<is_tick_frozen, swaps>>

\* The closure of after_destruct; that of a node that emits nothing only looks for
\* observers.
Destruct(e) ==
  /\ Dequeue(e)
  /\ e.act.type = "destruct"
  /\ queue' = queue \ {e}
  /\ \/ /\ e.act.node \in Emits
        /\ mapblock' = IF Loaded THEN mapblock ELSE "loaded"
        /\ \E m \in Marks(e.act.pos, e.act.node, world) : pending_updates' = pending_updates \cup m
     \/ e.act.node \notin Emits /\ UNCHANGED <<mapblock, pending_updates>>
  /\ UNCHANGED <<world, update_event_tab, is_tick_frozen, swaps, outdated>>

\* A component's own closure, which looks at the name of the node only: piston_on and
\* piston_off swap the piston with the engine's swap_node, which marks nothing.
Timer(e) ==
  LET p == e.act.pos  there == Loaded /\ Name(world[p]) = Name(e.act.node) IN
  /\ Dequeue(e)
  /\ e.act.type = "timer"
  /\ \/ /\ there
        /\ \E f \in Fire(p, world) :
             SetNodes(queue \ {e}, update_event_tab, [world EXCEPT ![p] = f.self], f.others)
     \/ /\ ~there
        /\ queue' = queue \ {e}
        /\ UNCHANGED <<world, update_event_tab, outdated>>
  /\ UNCHANGED <<mapblock, pending_updates, is_tick_frozen, swaps>>

\* The closure of "/tick step N".
Refreeze(e) ==
  /\ Dequeue(e)
  /\ e.act.type = "freeze"
  /\ queue' = queue \ {e}
  /\ is_tick_frozen' = TRUE
  /\ UNCHANGED <<world, mapblock, update_event_tab, pending_updates, swaps, outdated>>

HandleEvent(e) == ApplyUpdate(e) \/ DropUpdate(e) \/ Construct(e) \/ Destruct(e)
                    \/ Timer(e) \/ Refreeze(e)

\* The first loop ends; pairs() starts over _pending_updates.
EndEvents ==
  /\ phase = "events"
  /\ NoneDue
  /\ phase' = "updates"
  /\ inserted' = FALSE
  /\ UNCHANGED <<world, mapblock, queue, update_event_tab, pending_updates, is_tick_frozen,
                 lbm_todo, current_tick, last_tick, handled, swaps, stalls, outdated>>

\* One turn of the second loop. A mark the callback puts on its own position is
\* erased by the assignment that follows the call.
CallUpdate(p) ==
  /\ phase = "updates"
  /\ p \in pending_updates
  /\ \E r \in UpdateAnswers(p) : Obey(queue, update_event_tab, p, r)
  /\ \E m \in IF Loaded /\ world[p] \in Updates THEN SideMarks(p, world) ELSE {{}} :
       /\ pending_updates' = (pending_updates \cup m) \ {p}
       /\ inserted' = (inserted \/ ~(m \subseteq pending_updates))
  /\ handled' = TRUE
  /\ UNCHANGED <<mapblock, is_tick_frozen, lbm_todo, current_tick, last_tick, phase,
                 swaps, stalls>>

\* Mutant: the clock stays at the tick of the last event.
FinishTickStuck ==
  /\ phase = "updates"
  /\ pending_updates = {} \/ inserted
  /\ phase' = "idle"
  /\ current_tick' = last_tick
  /\ swaps' = IF current_tick' = current_tick THEN swaps ELSE [p \in Pos |-> 0]
  /\ stalls' = IF current_tick' = current_tick THEN stalls + 1 ELSE 0
  /\ UNCHANGED <<world, mapblock, queue, update_event_tab, pending_updates, is_tick_frozen,
                 lbm_todo, last_tick, handled, inserted, outdated>>

\* Mutant: ticks without events are skipped.
FinishTickSkips ==
  /\ phase = "updates"
  /\ pending_updates = {} \/ inserted
  /\ phase' = "idle"
  /\ current_tick' = IF queue = {} THEN last_tick + 1
                     ELSE CHOOSE t \in {e.tick : e \in queue} : \A e \in queue : t <= e.tick
  /\ swaps' = [p \in Pos |-> 0]
  /\ stalls' = 0
  /\ UNCHANGED <<world, mapblock, queue, update_event_tab, pending_updates, is_tick_frozen,
                 lbm_todo, last_tick, handled, inserted, outdated>>

\* Mutant: the loop over _pending_updates may stop early.
FinishTickEarly ==
  /\ phase = "updates"
  /\ phase' = "idle"
  /\ current_tick' = last_tick + 1
  /\ swaps' = IF current_tick' = current_tick THEN swaps ELSE [p \in Pos |-> 0]
  /\ stalls' = IF current_tick' = current_tick THEN stalls + 1 ELSE 0
  /\ UNCHANGED <<world, mapblock, queue, update_event_tab, pending_updates, is_tick_frozen,
                 lbm_todo, last_tick, handled, inserted, outdated>>

\* The second loop ends. Lua leaves open which keys pairs() visits once a new key
\* has been assigned, so it may then end with some of them unvisited.
FinishTick ==
  /\ phase = "updates"
  /\ pending_updates = {} \/ inserted
  /\ phase' = "idle"
  /\ current_tick' = last_tick + 1
  /\ swaps' = IF current_tick' = current_tick THEN swaps ELSE [p \in Pos |-> 0]
  /\ stalls' = IF current_tick' = current_tick THEN stalls + 1 ELSE 0
  /\ UNCHANGED <<world, mapblock, queue, update_event_tab, pending_updates, is_tick_frozen,
                 lbm_todo, last_tick, handled, inserted, outdated>>

\* Mutant: an aborted tick counts as a tick.
AbortTickAdvances ==
  /\ handled
  /\ \/ phase = "events" /\ ~NoneDue
     \/ phase = "updates" /\ pending_updates # {}
  /\ phase' = "idle"
  /\ current_tick' = last_tick + 1
  /\ UNCHANGED <<world, mapblock, queue, update_event_tab, pending_updates, is_tick_frozen,
                 lbm_todo, last_tick, handled, inserted, swaps, stalls, outdated>>

\* TIME_BUDGET is at least 10 ms and the clock is read before each turn: a step that
\* runs out of time has done something and has something left to do.
AbortTick ==
  /\ handled
  /\ \/ phase = "events" /\ ~NoneDue
     \/ phase = "updates" /\ pending_updates # {}
  /\ phase' = "idle"
  /\ UNCHANGED <<world, mapblock, queue, update_event_tab, pending_updates, is_tick_frozen,
                 lbm_todo, current_tick, last_tick, handled, inserted, swaps, stalls, outdated>>

-----------------------------------------------------------------------------
(* The rest of the server, between two ticks. *)

\* A player, a mob or another mod replaces a node of an active block.
ReplaceNode(p, n) ==
  /\ phase = "idle"
  /\ mapblock = "active"
  /\ n # world[p]
  /\ SetNode(queue, update_event_tab, p, n)
  /\ UNCHANGED <<mapblock, pending_updates, is_tick_frozen, lbm_todo, ticking, swaps, stalls>>

\* A player or another mod swaps a component for one of its other states (levers,
\* screwdriver, repeaters): no destructor or constructor runs. mcl_redstone.swap_node marks
\* the neighbours, the engine's swap_node nothing.
SwapNode(p, n) ==
  /\ phase = "idle"
  /\ mapblock = "active"
  /\ n # world[p]
  /\ n \in Redstone <=> world[p] \in Redstone
  /\ world' = [world EXCEPT ![p] = n]
  /\ \E m \in Marks(p, world[p], world') \cup {{}} : pending_updates' = pending_updates \cup m
  /\ UNCHANGED <<mapblock, queue, update_event_tab, is_tick_frozen, lbm_todo, ticking,
                 swaps, stalls, outdated>>

\* mcl_redstone.update_node
UpdateNode(p) ==
  /\ phase = "idle"
  /\ mapblock = "active"
  /\ pending_updates' = pending_updates \cup {p}
  /\ UNCHANGED <<world, mapblock, queue, update_event_tab, is_tick_frozen, lbm_todo,
                 ticking, swaps, stalls, outdated>>

\* "/tick freeze" and "/tick unfreeze"
SetFrozen(b) ==
  /\ phase = "idle"
  /\ is_tick_frozen' = b
  /\ UNCHANGED <<world, mapblock, queue, update_event_tab, pending_updates, lbm_todo,
                 ticking, swaps, stalls, outdated>>

\* "/tick step N"
StepCommand(n) ==
  /\ phase = "idle"
  /\ is_tick_frozen
  /\ is_tick_frozen' = FALSE
  /\ After(queue, n, [type |-> "freeze"])
  /\ UNCHANGED <<world, mapblock, update_event_tab, pending_updates, lbm_todo,
                 ticking, swaps, stalls, outdated>>

\* The engine drops the block when no player is near.
Unload ==
  /\ phase = "idle"
  /\ Loaded
  /\ mapblock' = "unloaded"
  /\ UNCHANGED <<world, queue, update_event_tab, pending_updates, is_tick_frozen, lbm_todo,
                 ticking, swaps, stalls, outdated>>

\* A player comes near: the block becomes active and the load block modifiers start.
Activate ==
  /\ phase = "idle"
  /\ mapblock # "active"
  /\ mapblock' = "active"
  /\ phase' = "lbm"
  /\ lbm_todo' = Pos
  /\ UNCHANGED <<world, queue, update_event_tab, pending_updates, is_tick_frozen,
                 current_tick, last_tick, handled, inserted, swaps, stalls, outdated>>

\* mcl_redstone:update and mcl_redstone:update_neighbours, for one node.
LoadNode(p) ==
  /\ phase = "lbm"
  /\ p \in lbm_todo
  /\ lbm_todo' = lbm_todo \ {p}
  /\ phase' = IF lbm_todo' = {} THEN "idle" ELSE "lbm"
  /\ \E r \in InitAnswers(p) : Obey(queue, update_event_tab, p, r)
  /\ \/ /\ world[p] \in Emits
        /\ \E m \in Marks(p, NoNode, world') : pending_updates' = pending_updates \cup m
     \/ world[p] \notin Emits /\ UNCHANGED pending_updates
  /\ UNCHANGED <<mapblock, is_tick_frozen, current_tick, last_tick, handled, inserted,
                 swaps, stalls>>

\* The server stops and starts again: the map is on disk, the rest is not.
Restart ==
  /\ phase = "idle"
  /\ mapblock' = "unloaded"
  /\ queue' = {}
  /\ update_event_tab' = [p \in Pos |-> NoEvent]
  /\ pending_updates' = {}
  /\ current_tick' = 0 /\ last_tick' = 0
  /\ is_tick_frozen' = FALSE
  /\ handled' = FALSE /\ inserted' = FALSE
  /\ swaps' = [p \in Pos |-> 0] /\ stalls' = 0
  /\ outdated' = [p \in Pos |-> FALSE]
  /\ UNCHANGED <<world, phase, lbm_todo>>

TickStep == GlobalStep \/ CommandStep \/ (\E e \in queue : HandleEvent(e)) \/ EndEvents
              \/ (\E p \in Pos : CallUpdate(p)) \/ FinishTick \/ AbortTick

Environment ==
  \/ \E p \in Pos : UpdateNode(p) \/ LoadNode(p)
  \/ \E p \in Pos, n \in Node : ReplaceNode(p, n) \/ SwapNode(p, n)
  \/ \E b \in BOOLEAN : SetFrozen(b)
  \/ \E n \in StepArgs : StepCommand(n)
  \/ Unload \/ Activate \/ Restart

Next == TickStep \/ Environment

Spec == Init /\ [][Next]_vars

\* Lua runs a tick_step to its end; the engine calls the globalstep in every server
\* step, whatever else the step did, hence the strong fairness of GlobalStep.
Fairness ==
  /\ SF_vars(GlobalStep)
  /\ WF_vars(\E e \in queue : HandleEvent(e))
  /\ WF_vars(EndEvents)
  /\ WF_vars(\E p \in Pos : CallUpdate(p))
  /\ WF_vars(FinishTick)
  /\ WF_vars(\E p \in Pos : LoadNode(p))

FairSpec == Spec /\ Fairness

-----------------------------------------------------------------------------
(* Properties *)

\* Every variable stays in its range.
TypeOK ==
  /\ world \in [Pos -> Node]
  /\ mapblock \in {"unloaded", "loaded", "active"}
  /\ queue \subseteq Event
  /\ update_event_tab \in [Pos -> Event \cup {NoEvent}]
  /\ pending_updates \subseteq Pos
  /\ current_tick \in Nat /\ last_tick \in Int
  /\ is_tick_frozen \in BOOLEAN
  /\ phase \in {"idle", "events", "updates", "lbm"}
  /\ lbm_todo \subseteq Pos
  /\ handled \in BOOLEAN /\ inserted \in BOOLEAN
  /\ swaps \in [Pos -> Nat] /\ stalls \in Nat
  /\ outdated \in [Pos -> BOOLEAN]

\* An entry of update_event_tab is an update event of that position that is still in
\* the queue. An entry whose event is gone would make _schedule_update refuse every
\* later update of the position.
TableInQueue ==
  \A p \in Pos : update_event_tab[p] # NoEvent =>
    /\ update_event_tab[p] \in queue
    /\ update_event_tab[p].act.type = "update"
    /\ update_event_tab[p].act.pos = p

\* The queue never swaps a node twice within one redstone tick, although superseded
\* update events of the same position may share the tick and a tick_step may be
\* aborted and taken up again.
OneSwapPerTick == \A p \in Pos : swaps[p] <= 1

\* An event is handled at the tick it was scheduled for, whatever was aborted, frozen
\* or scheduled late: an update exactly then, an after() closure at most a tick late
\* (after(0) called from an update callback).
OnTime ==
  \A e \in queue :
    /\ e.act.type = "update" => e.tick >= current_tick
    /\ e.tick >= current_tick - 1

\* The clock is set to the tick of the last event plus one, which does not move it when
\* that event was late. Two completed ticks in a row never leave it standing.
ClockMoves == stalls <= 1

\* Only a restart turns the clock back, and no step skips a tick.
ClockSteps ==
  [][Restart \/ current_tick' \in {current_tick, current_tick + 1}]_vars

\* An update that was scheduled before its node was replaced can no longer be applied,
\* not even when an equal node was put back.
ReplacedNodeKeepsNoUpdate ==
  \A p \in Pos : outdated[p] /\ update_event_tab[p] # NoEvent =>
    world[p] # update_event_tab[p].act.oldnode

\* API.md: of two overlapping updates the one with the better priority wins, and of two
\* with the same priority the first one.
BetterPriorityWins ==
  [][\A p \in Pos :
       update_event_tab[p] # NoEvent /\ update_event_tab'[p] \notin {NoEvent, update_event_tab[p]}
         => update_event_tab'[p].act.priority < update_event_tab[p].act.priority]_vars

\* A server that sooner or later keeps within its time budget.
WithinBudget == <>[][~AbortTick]_vars

\* Every tick in which no callback adds a key calls the update of every position marked
\* before it, those that pairs() passed over in earlier ticks with the others, unless ticking is
\* frozen. (current_tick < MaxTick: below the bound of the model's clock.)
PendingServed ==
  WithinBudget =>
    \A p \in Pos :
      (p \in pending_updates /\ current_tick < MaxTick)
        ~> (p \notin pending_updates \/ is_tick_frozen \/ (phase = "updates" /\ inserted))

\* An update that is in force is applied, dropped or called off, unless ticking is
\* frozen. (A better update may put it off once by the longest delay.)
UpdateSettles ==
  WithinBudget =>
    \A p \in Pos :
      (update_event_tab[p] # NoEvent /\ update_event_tab[p].tick + 1 < MaxTick)
        ~> (update_event_tab[p] = NoEvent \/ is_tick_frozen)
=============================================================================
