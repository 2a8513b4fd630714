-------------------------- MODULE MCRedstoneQueue --------------------------
(* RedstoneQueue with callbacks that may answer anything. *)
EXTENDS RedstoneQueue, TLC

CONSTANTS off, on, air

\* off and on differ in name, as a lamp's two nodes do.
MCName(n) == n

\* Two nodes of one name, as a repeater turned by the screwdriver.
MCOneName(n) == IF n = air THEN air ELSE off

MCUpdate(p, w) ==
  {NoAnswer} \cup [kind : {"swap"}, node : {off, on}, delay : Delays, priority : Priorities]

\* pistons answer with after(1), buttons with a swap too, trapdoors with core.set_node.
MCUpdateAll(p, w) ==
  MCUpdate(p, w) \cup [kind : {"after"}, after : {1}]
                 \cup {[kind |-> "both", node |-> n, delay |-> 1, priority |-> 2, after |-> 1] :
                         n \in {off, on} \ {w[p]}}
                 \cup {[kind |-> "set", node |-> n] : n \in {off, on} \ {w[p]}}

\* Of each kind of answer some.
MCUpdateSome(p, w) ==
  {NoAnswer} \cup [kind : {"swap"}, node : {off, on} \ {w[p]}, delay : Delays, priority : Priorities]
             \cup [kind : {"after"}, after : {1}]

\* For liveness: position 1 has a component, position 2 one that marks and answers nothing, as
\* a sender of power.
MCUpdateFirst(p, w) == IF p = 1 THEN MCUpdateSome(p, w) ELSE {NoAnswer}

\* init callbacks are called at other times than update callbacks, but answer no
\* differently: fewer answers do.
MCInitial(p, w) == {NoAnswer} \cup [kind : {"swap"}, node : {off, on}, delay : {1}, priority : {2}]

\* A piston switches and replaces the nodes next to it, fails to push, or a sound is played.
MCFire(p, w) ==
  {[self |-> w[p], others |-> <<>>]}
    \cup {[self |-> n, others |-> [x \in Pos \ {p} |-> o]] : n \in {off, on} \ {w[p]}, o \in Node}

MCMarks(p, old, w) == {{p}, Pos}

MCAllMarks(p, old, w) == {Pos}

MCNoInitial(p, w) == {NoAnswer}

MCSideMarks(p, w) == {{}, Pos}

\* copy only tells equal events apart.
MCSymmetry == Permutations(Copies)
=============================================================================
