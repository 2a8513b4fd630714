------------------------------- MODULE Emerge -------------------------------
(***************************************************************************)
(* Map blocks on their way into memory: the queues of EmergeManager and    *)
(* the loop of its threads (emerge.cpp), the part of ServerMap that starts *)
(* and finishes the generation of a chunk (servermap.cpp), and the server  *)
(* thread, which asks for blocks and unloads them.                         *)
(*                                                                         *)
(* What is done under the environment lock is one step: an emerge thread   *)
(* takes it for one lookup, one finished chunk, one callback. The server   *)
(* holds it for many steps in a row; here the threads may come between     *)
(* any two of them. Only cancelPendingItems holds m_queue_mutex for longer *)
(* than a step.                                                            *)
(*                                                                         *)
(* A block in memory is known by what decides here: whether it is          *)
(* generated, and its reference count. Left out: nodes, lighting, liquids, *)
(* dispatchEvent, the mapgen environment, blocks that cannot be read.      *)
(***************************************************************************)
EXTENDS Integers, Sequences, SequencesExt, FiniteSets

CONSTANTS
  Pos,              \* positions of blocks
  Chunk(_),         \* getContainingChunk
  Area(_),          \* the positions of a chunk and of its border
  OverLimit,        \* positions for which blockpos_over_max_limit
  OutOfLimit,       \* chunks not fully inside the mapgen limits
  NThreads,         \* m_threads.size()
  Peer,             \* clients
  m_qlimit_total, m_qlimit_diskonly, m_qlimit_generate,
  Request,          \* bound: calls of core.emerge_area for one block
  MaxLookups,       \* bound: blocks the server asks for, loads or deletes
  Deletable,        \* bound: blocks that core.delete_area may delete;
  DeletesHeld,      \* whether also while a thread holds them
  MaxErrors,        \* bound: errors of on_generated
  None              \* PEER_ID_INEXISTENT, no block, no lock holder

Thread == 1 .. NThreads
Requester == Peer \cup {None}
ChunkOf == {Chunk(p) : p \in Pos}
Entry == [peer : Requester, gen : BOOLEAN, callbacks : SUBSET Request]
Block == [generated : BOOLEAN, refs : Nat]

ASSUME EmergeAssumption ==
  /\ NThreads \in Nat \ {0} /\ MaxLookups \in Nat /\ MaxErrors \in Nat
  /\ m_qlimit_total \in Nat /\ m_qlimit_diskonly \in Nat /\ m_qlimit_generate \in Nat
  /\ None \notin Peer \cup Pos \cup Thread /\ None \notin Entry /\ None \notin Block
  /\ IsFiniteSet(Pos) /\ Deletable \subseteq Pos /\ DeletesHeld \in BOOLEAN
  /\ \A p \in Pos : p \in Area(Chunk(p)) /\ Area(Chunk(p)) \subseteq Pos

VARIABLES
  queue_mutex,          \* the thread that holds m_queue_mutex, or None
  m_blocks_enqueued,    \* the entry of each position, or None
  m_peer_queue_count,
  m_block_queue,        \* positions, by thread
  notified,             \* m_queue_event, by thread
  signal,               \* the thread the server is about to signal, or None
  stopping,             \* stopThreads was called
  pc, at,               \* of each thread: its place and its position, or None,
  allow_gen, callbacks, \* what it took from the entry,
  databuf,              \* and what it read
  memory,               \* the block at a position, or None
  disk,                 \* "none", "partial" or "generated"
  m_chunks_in_progress,
  answers,              \* how often a request was answered, 0 - 1
  asked,                \* the position of a request, or None
  lookups, errors,      \* counters of the bounds
  regenerated           \* a generation was started for a block already generated

queues == <<m_blocks_enqueued, m_peer_queue_count, m_block_queue>>
events == <<notified, signal, stopping>>
threads == <<pc, at, allow_gen, callbacks, databuf>>
map == <<memory, disk, m_chunks_in_progress, regenerated>>
requests == <<answers, asked>>
bounds == <<lookups, errors>>
vars == <<queue_mutex, queues, events, threads, map, requests, bounds>>

\* A chunk is generated as a whole, and saved.
Disks == {d \in [Pos -> {"none", "generated"}] :
            /\ \A p, q \in Pos : Chunk(p) = Chunk(q) => d[p] = d[q]
            /\ \A p \in Pos : Chunk(p) \in OutOfLimit \/ p \in OverLimit => d[p] = "none"}

Init ==
  /\ queue_mutex = None
  /\ m_blocks_enqueued = [p \in Pos |-> None]
  /\ m_peer_queue_count = [c \in Requester |-> 0]
  /\ m_block_queue = [t \in Thread |-> <<>>]
  /\ notified = [t \in Thread |-> FALSE] /\ signal = None /\ stopping = FALSE
  /\ pc = [t \in Thread |-> "pop"] /\ at = [t \in Thread |-> None]
  /\ allow_gen = [t \in Thread |-> FALSE] /\ callbacks = [t \in Thread |-> {}]
  /\ databuf = [t \in Thread |-> "none"]
  /\ memory = [p \in Pos |-> None] /\ disk \in Disks
  /\ m_chunks_in_progress = {} /\ regenerated = FALSE
  /\ answers = [r \in Request |-> 0] /\ asked = [r \in Request |-> None]
  /\ lookups = 0 /\ errors = 0

Goto(t, place) == pc' = [pc EXCEPT ![t] = place]

-----------------------------------------------------------------------------
(* The server *)

Enqueued == {p \in Pos : m_blocks_enqueued[p] # None}

\* The limits of pushBlockEmergeData; active blocks (peer None) have half of the total.
Admitted(peer, gen) ==
  /\ Cardinality(Enqueued) < m_qlimit_total
  /\ IF peer = None THEN 2 * m_peer_queue_count[None] < m_qlimit_total
     ELSE m_peer_queue_count[peer] < IF gen THEN m_qlimit_generate ELSE m_qlimit_diskonly

\* getOptimalThread: the first of the shortest queues.
Optimal ==
  CHOOSE t \in Thread : \A u \in Thread :
    \/ Len(m_block_queue[t]) < Len(m_block_queue[u])
    \/ Len(m_block_queue[t]) = Len(m_block_queue[u]) /\ t <= u

\* Mutant: the thread to signal is chosen when the queue has grown.
PushElsewhere(peer, p, gen, calls) ==
  IF m_blocks_enqueued[p] # None
  THEN /\ m_blocks_enqueued' = [m_blocks_enqueued EXCEPT ![p].gen = @ \/ gen,
                                                         ![p].callbacks = @ \cup calls]
       /\ UNCHANGED <<m_peer_queue_count, m_block_queue, signal>>
  ELSE /\ m_blocks_enqueued' = [m_blocks_enqueued EXCEPT ![p] =
                                  [peer |-> peer, gen |-> gen, callbacks |-> calls]]
       /\ m_peer_queue_count' = [m_peer_queue_count EXCEPT ![peer] = @ + 1]
       /\ m_block_queue' = [m_block_queue EXCEPT ![Optimal] = Append(@, p)]
       /\ signal' = CHOOSE t \in Thread : \A u \in Thread :
                      \/ Len(m_block_queue'[t]) < Len(m_block_queue'[u])
                      \/ Len(m_block_queue'[t]) = Len(m_block_queue'[u]) /\ t <= u

\* pushBlockEmergeData and pushBlock: an entry that exists takes flags and callbacks.
Push(peer, p, gen, calls) ==
  IF m_blocks_enqueued[p] # None
  THEN /\ m_blocks_enqueued' = [m_blocks_enqueued EXCEPT ![p].gen = @ \/ gen,
                                                         ![p].callbacks = @ \cup calls]
       /\ UNCHANGED <<m_peer_queue_count, m_block_queue, signal>>
  ELSE /\ m_blocks_enqueued' = [m_blocks_enqueued EXCEPT ![p] =
                                  [peer |-> peer, gen |-> gen, callbacks |-> calls]]
       /\ m_peer_queue_count' = [m_peer_queue_count EXCEPT ![peer] = @ + 1]
       /\ m_block_queue' = [m_block_queue EXCEPT ![Optimal] = Append(@, p)]
       /\ signal' = Optimal

\* What is asked for in the course of a step of the server: by a client that comes near a
\* block, or digs where none is loaded, and for the blocks that shall be active.
Wanted(peer, p, gen) ==
  p \notin OverLimit /\ IF peer = None THEN gen /\ memory[p] = None
  ELSE ~(gen /\ memory[p] # None /\ memory[p].generated)

EnqueueBlockEmerge(peer, p, gen) ==
  /\ signal = None /\ queue_mutex = None /\ ~stopping
  /\ Wanted(peer, p, gen)
  /\ Admitted(peer, gen)
  /\ Push(peer, p, gen, {})
  /\ lookups < MaxLookups /\ lookups' = lookups + 1
  /\ UNCHANGED <<queue_mutex, notified, stopping, threads, map, requests, errors>>

\* core.emerge_area, for one block: BLOCK_EMERGE_ALLOW_GEN and BLOCK_EMERGE_FORCE_QUEUE
EmergeArea(r, p) ==
  /\ signal = None /\ queue_mutex = None /\ ~stopping
  /\ asked[r] = None
  /\ asked' = [asked EXCEPT ![r] = p]
  /\ Push(None, p, TRUE, {r})
  /\ UNCHANGED <<queue_mutex, notified, stopping, threads, map, answers, bounds>>

\* The signal comes when m_queue_mutex has been released.
Signal ==
  /\ signal # None
  /\ notified' = [notified EXCEPT ![signal] = TRUE]
  /\ signal' = None
  /\ UNCHANGED <<queue_mutex, queues, stopping, threads, map, requests, bounds>>

Blank == [generated |-> FALSE, refs |-> 0]
Loaded(data) == [generated |-> data = "generated", refs |-> 0]

\* Saved if it was modified; a block that comes from the disk as it is, is on it as it is.
Saved(p) ==
  \/ disk' = [disk EXCEPT ![p] = IF memory[p].generated THEN "generated" ELSE "partial"]
  \/ memory[p] = Blank /\ UNCHANGED disk

\* Mutant: references do not count.
UnloadAnyway(p) ==
  /\ memory[p] # None /\ ~stopping
  /\ \A t \in Thread : ~(pc[t] = "load" /\ at[t] = p)
  /\ Saved(p)
  /\ memory' = [memory EXCEPT ![p] = None]
  /\ UNCHANGED <<queue_mutex, queues, events, threads, m_chunks_in_progress, regenerated,
                 requests, bounds>>

\* timerUpdate: a block nobody refers to and nobody has used for a while.
\* Assumed: the while is longer than a thread takes to read a block and to get the lock.
Unload(p) ==
  /\ memory[p] # None /\ ~stopping
  /\ memory[p].refs = 0
  /\ \A t \in Thread : ~(pc[t] = "load" /\ at[t] = p)
  /\ Saved(p)
  /\ memory' = [memory EXCEPT ![p] = None]
  /\ UNCHANGED <<queue_mutex, queues, events, threads, m_chunks_in_progress, regenerated,
                 requests, bounds>>

\* The server, or a mod, loads a block without a thread.
LoadBlock(p) ==
  /\ memory[p] = None /\ disk[p] # "none" /\ ~stopping
  /\ memory' = [memory EXCEPT ![p] = Loaded(disk[p])]
  /\ lookups < MaxLookups /\ lookups' = lookups + 1
  /\ UNCHANGED <<queue_mutex, queues, events, threads, disk, m_chunks_in_progress,
                 regenerated, requests, errors>>

\* deleteBlock: out of the database and out of memory; it does not ask who refers to the
\* block, but a mod may know that nobody does (~DeletesHeld).
DeleteBlock(p) ==
  /\ p \in Deletable /\ ~stopping
  /\ memory[p] # None /\ ~DeletesHeld => memory[p].refs = 0
  /\ disk' = [disk EXCEPT ![p] = "none"]
  /\ memory' = [memory EXCEPT ![p] = None]
  /\ lookups < MaxLookups /\ lookups' = lookups + 1
  /\ UNCHANGED <<queue_mutex, queues, events, threads, m_chunks_in_progress, regenerated,
                 requests, errors>>

\* The server stops its own thread first, then stopThreads.
StopThreads ==
  /\ ~stopping /\ signal = None
  /\ stopping' = TRUE
  /\ notified' = [t \in Thread |-> TRUE]
  /\ UNCHANGED <<queue_mutex, queues, signal, threads, map, requests, bounds>>

-----------------------------------------------------------------------------
(* An emerge thread *)

\* Mutant: the count of a client does not go down.
TakeUncounted(p) ==
  LET entry == m_blocks_enqueued[p] IN
  /\ m_blocks_enqueued' = [m_blocks_enqueued EXCEPT ![p] = None]
  /\ m_peer_queue_count' = IF entry.peer = None
                           THEN [m_peer_queue_count EXCEPT ![None] = @ - 1] ELSE m_peer_queue_count

\* popBlockEmergeData
Take(p) ==
  /\ m_blocks_enqueued' = [m_blocks_enqueued EXCEPT ![p] = None]
  /\ m_peer_queue_count' = [m_peer_queue_count EXCEPT ![m_blocks_enqueued[p].peer] = @ - 1]

\* The top of the loop. Positions over the limit are dropped, with their callbacks.
PopBlockEmerge(t) ==
  LET p == Head(m_block_queue[t]) IN
  /\ pc[t] = "pop" /\ ~stopping /\ queue_mutex = None
  /\ m_block_queue[t] # <<>>
  /\ Take(p)
  /\ m_block_queue' = [m_block_queue EXCEPT ![t] = Tail(@)]
  /\ \/ /\ p \in OverLimit
        /\ UNCHANGED threads
     \/ /\ p \notin OverLimit
        /\ at' = [at EXCEPT ![t] = p]
        /\ allow_gen' = [allow_gen EXCEPT ![t] = m_blocks_enqueued[p].gen]
        /\ callbacks' = [callbacks EXCEPT ![t] = m_blocks_enqueued[p].callbacks]
        /\ Goto(t, "look")
        /\ UNCHANGED databuf
  /\ UNCHANGED <<queue_mutex, events, map, requests, bounds>>

\* The queue was empty: wait for the event.
FindNothing(t) ==
  /\ pc[t] = "pop" /\ ~stopping /\ queue_mutex = None
  /\ m_block_queue[t] = <<>>
  /\ Goto(t, "wait")
  /\ UNCHANGED <<queue_mutex, queues, events, at, allow_gen, callbacks, databuf, map, requests,
                 bounds>>

Wait(t) ==
  /\ pc[t] = "wait" /\ notified[t]
  /\ notified' = [notified EXCEPT ![t] = FALSE]
  /\ Goto(t, "pop")
  /\ UNCHANGED <<queue_mutex, queues, signal, stopping, at, allow_gen, callbacks, databuf, map,
                 requests, bounds>>

\* There is a result: the callbacks are next, if there are any.
Result(t) ==
  /\ Goto(t, IF callbacks[t] = {} THEN "pop" ELSE "answer")
  /\ at' = [at EXCEPT ![t] = None]
  /\ allow_gen' = [allow_gen EXCEPT ![t] = FALSE]
  /\ UNCHANGED callbacks

\* Mutant: nobody looks whether the chunk is being generated.
MayStartAny(p) == Chunk(p) \notin OutOfLimit

\* initBlockMake succeeds.
MayStart(p) == Chunk(p) \notin m_chunks_in_progress \cup OutOfLimit

\* What emergeBlock finds, or else a new block
Fetched(mem, q) ==
  IF mem[q] # None THEN mem[q] ELSE IF disk[q] # "none" THEN Loaded(disk[q]) ELSE Blank

\* The third part of getBlockOrStartGen, with the blocks that are in memory by now: the
\* blocks of the area are fetched and held. A chunk out of the mapgen limits stays in progress.
StartGen(t, mem) ==
  LET chunk == Chunk(at[t]) IN
  \/ /\ allow_gen[t] /\ MayStart(at[t])
     /\ memory' = [q \in Pos |-> IF q \in Area(chunk)
                                 THEN [Fetched(mem, q) EXCEPT !.refs = @ + 1] ELSE mem[q]]
     /\ m_chunks_in_progress' = m_chunks_in_progress \cup {chunk}
     /\ regenerated' = (regenerated \/ \E q \in Pos : Chunk(q) = chunk /\ memory'[q].generated)
     /\ Goto(t, "make")
     /\ UNCHANGED <<at, allow_gen, callbacks>>
  \/ /\ ~(allow_gen[t] /\ MayStart(at[t]))
     /\ m_chunks_in_progress' = m_chunks_in_progress \cup (IF allow_gen[t] THEN {chunk} ELSE {})
     /\ memory' = mem
     /\ Result(t)
     /\ UNCHANGED regenerated

\* getBlockOrStartGen, first without data
Look(t) ==
  LET p == at[t] IN
  /\ pc[t] = "look"
  /\ \/ /\ memory[p] # None /\ memory[p].generated
        /\ Result(t)
        /\ UNCHANGED map
     \/ /\ memory[p] = None
        /\ Goto(t, "read")
        /\ UNCHANGED <<at, allow_gen, callbacks, map>>
     \/ /\ memory[p] # None /\ ~memory[p].generated
        /\ StartGen(t, memory)
        /\ UNCHANGED disk
  /\ UNCHANGED <<queue_mutex, queues, events, databuf, requests, bounds>>

\* The database is read without the lock.
Read(t) ==
  /\ pc[t] = "read"
  /\ databuf' = [databuf EXCEPT ![t] = disk[at[t]]]
  /\ Goto(t, "load")
  /\ UNCHANGED <<queue_mutex, queues, events, at, allow_gen, callbacks, map, requests, bounds>>

\* Mutant: the block is not looked for in memory again.
LoadAnyway(t) ==
  LET p == at[t]
      data == databuf[t]
  IN
  /\ pc[t] = "load"
  /\ databuf' = [databuf EXCEPT ![t] = "none"]
  /\ \/ /\ data = "generated"
        /\ memory' = [memory EXCEPT ![p] = Loaded(data)]
        /\ Result(t)
        /\ UNCHANGED <<disk, m_chunks_in_progress, regenerated>>
     \/ /\ data # "generated"
        /\ StartGen(t, IF data = "partial" /\ memory[p] = None
                       THEN [memory EXCEPT ![p] = Loaded(data)] ELSE memory)
        /\ UNCHANGED disk
  /\ UNCHANGED <<queue_mutex, queues, events, requests, bounds>>

\* getBlockOrStartGen, with the data; who was faster wins.
Load(t) ==
  LET p == at[t]
      data == databuf[t]
  IN
  /\ pc[t] = "load"
  /\ databuf' = [databuf EXCEPT ![t] = "none"]
  /\ \/ /\ memory[p] # None /\ memory[p].generated
        /\ Result(t)
        /\ UNCHANGED map
     \/ /\ memory[p] = None /\ data = "generated"
        /\ memory' = [memory EXCEPT ![p] = Loaded(data)]
        /\ Result(t)
        /\ UNCHANGED <<disk, m_chunks_in_progress, regenerated>>
     \/ /\ IF memory[p] = None THEN data # "generated" ELSE ~memory[p].generated
        /\ StartGen(t, IF memory[p] = None /\ data = "partial"
                       THEN [memory EXCEPT ![p] = Loaded(data)] ELSE memory)
        /\ UNCHANGED disk
  /\ UNCHANGED <<queue_mutex, queues, events, requests, bounds>>

\* makeChunk and the mapgen's on_generated, without the lock
MakeChunk(t) ==
  /\ pc[t] = "make"
  /\ Goto(t, "finish")
  /\ UNCHANGED <<queue_mutex, queues, events, at, allow_gen, callbacks, databuf, map, requests,
                 bounds>>

\* on_generated fails: cancelBlockMake, without the lock as well. The chunk stays in progress.
CancelBlockMake(t) ==
  /\ pc[t] = "make"
  /\ errors < MaxErrors
  /\ errors' = errors + 1
  /\ memory' = [q \in Pos |-> IF q \in Area(Chunk(at[t])) /\ memory[q] # None
                              THEN [memory[q] EXCEPT !.refs = @ - 1] ELSE memory[q]]
  /\ Result(t)
  /\ UNCHANGED <<queue_mutex, queues, events, databuf, disk, m_chunks_in_progress, regenerated,
                 requests, lookups>>

\* finishBlockMake: blitBackAll fetches what is missing and writes all of the area; then the
\* references are dropped, and the chunk, not its border, is generated.
FinishGen(t) ==
  /\ pc[t] = "finish"
  /\ memory' = [q \in Pos |->
       IF q \notin Area(Chunk(at[t])) THEN memory[q]
       ELSE [generated |-> Fetched(memory, q).generated \/ Chunk(q) = Chunk(at[t]),
             refs |-> Fetched(memory, q).refs - 1]]
  /\ m_chunks_in_progress' = m_chunks_in_progress \ {Chunk(at[t])}
  /\ Result(t)
  /\ UNCHANGED <<queue_mutex, queues, events, databuf, disk, regenerated, requests, bounds>>

\* runCompletionCallbacks: each callback takes the environment lock.
Answer(t) ==
  /\ pc[t] = "answer"
  /\ \E r \in callbacks[t] :
       /\ answers' = [answers EXCEPT ![r] = @ + 1]
       /\ callbacks' = [callbacks EXCEPT ![t] = @ \ {r}]
       /\ Goto(t, IF callbacks[t] = {r} THEN "pop" ELSE "answer")
  /\ UNCHANGED <<queue_mutex, queues, events, at, allow_gen, databuf, map, asked, bounds>>

\* The loop ends: cancelPendingItems locks the queues ...
BeginCancel(t) ==
  /\ pc[t] = "pop" /\ stopping
  /\ queue_mutex = None
  /\ queue_mutex' = t
  /\ Goto(t, "cancel")
  /\ UNCHANGED <<queues, events, at, allow_gen, callbacks, databuf, map, requests, bounds>>

\* Mutant: the callbacks are forgotten.
CancelItemOnly(t) ==
  /\ pc[t] = "cancel" /\ callbacks[t] = {}
  /\ m_block_queue[t] # <<>>
  /\ Take(Head(m_block_queue[t]))
  /\ m_block_queue' = [m_block_queue EXCEPT ![t] = Tail(@)]
  /\ UNCHANGED <<queue_mutex, events, threads, map, requests, bounds>>

\* ... takes an item ...
CancelItem(t) ==
  /\ pc[t] = "cancel" /\ callbacks[t] = {}
  /\ m_block_queue[t] # <<>>
  /\ Take(Head(m_block_queue[t]))
  /\ m_block_queue' = [m_block_queue EXCEPT ![t] = Tail(@)]
  /\ callbacks' = [callbacks EXCEPT ![t] = m_blocks_enqueued[Head(m_block_queue[t])].callbacks]
  /\ UNCHANGED <<queue_mutex, events, pc, at, allow_gen, databuf, map, requests, bounds>>

\* ... runs its callbacks, which take the environment lock ...
CancelCallback(t) ==
  /\ pc[t] = "cancel"
  /\ \E r \in callbacks[t] :
       /\ answers' = [answers EXCEPT ![r] = @ + 1]
       /\ callbacks' = [callbacks EXCEPT ![t] = @ \ {r}]
  /\ UNCHANGED <<queue_mutex, queues, events, pc, at, allow_gen, databuf, map, asked, bounds>>

\* ... and unlocks when nothing is left.
EndCancel(t) ==
  /\ pc[t] = "cancel" /\ callbacks[t] = {} /\ m_block_queue[t] = <<>>
  /\ queue_mutex' = None
  /\ Goto(t, "done")
  /\ UNCHANGED <<queues, events, at, allow_gen, callbacks, databuf, map, requests, bounds>>

-----------------------------------------------------------------------------

Server ==
  \/ Signal \/ StopThreads
  \/ \E p \in Pos :
       \/ \E peer \in Requester, gen \in BOOLEAN : EnqueueBlockEmerge(peer, p, gen)
       \/ \E r \in Request : EmergeArea(r, p)
       \/ Unload(p) \/ LoadBlock(p) \/ DeleteBlock(p)

Run(t) ==
  \/ PopBlockEmerge(t) \/ FindNothing(t) \/ Wait(t) \/ Look(t) \/ Read(t) \/ Load(t)
  \/ MakeChunk(t) \/ CancelBlockMake(t) \/ FinishGen(t) \/ Answer(t)
  \/ BeginCancel(t) \/ CancelItem(t) \/ CancelCallback(t) \/ EndCancel(t)

\* Not a deadlock
Terminated == (\A t \in Thread : pc[t] = "done") /\ UNCHANGED vars

Next == Server \/ (\E t \in Thread : Run(t)) \/ Terminated

Spec == Init /\ [][Next]_vars

\* A step of the server ends, and a thread that wants the lock gets it some time.
FairSpec ==
  /\ Spec
  /\ WF_vars(Signal)
  /\ \A t \in Thread : WF_vars(Run(t))

-----------------------------------------------------------------------------
(* Properties *)

\* Every variable stays in its range.
TypeOK ==
  /\ queue_mutex \in Thread \cup {None}
  /\ m_blocks_enqueued \in [Pos -> Entry \cup {None}]
  /\ m_peer_queue_count \in [Requester -> Nat]
  /\ m_block_queue \in [Thread -> Seq(Pos)]
  /\ notified \in [Thread -> BOOLEAN] /\ signal \in Thread \cup {None} /\ stopping \in BOOLEAN
  /\ pc \in [Thread -> {"pop", "wait", "look", "read", "load", "make", "finish", "answer",
                        "cancel", "done"}]
  /\ at \in [Thread -> Pos \cup {None}]
  /\ allow_gen \in [Thread -> BOOLEAN] /\ callbacks \in [Thread -> SUBSET Request]
  /\ databuf \in [Thread -> {"none", "partial", "generated"}]
  /\ memory \in [Pos -> Block \cup {None}]
  /\ disk \in [Pos -> {"none", "partial", "generated"}]
  /\ m_chunks_in_progress \subseteq ChunkOf /\ regenerated \in BOOLEAN
  /\ answers \in [Request -> 0 .. 1] /\ asked \in [Request -> Pos \cup {None}]
  /\ lookups \in 0 .. MaxLookups /\ errors \in 0 .. MaxErrors

Places(p) == {x \in Thread \X (1 .. Cardinality(Pos)) :
                x[2] <= Len(m_block_queue[x[1]]) /\ m_block_queue[x[1]][x[2]] = p}

\* A position has an entry while it is in the queue of a thread, of one and once.
EntriesQueued == \A p \in Pos : Cardinality(Places(p)) = IF p \in Enqueued THEN 1 ELSE 0

\* A requester's count, which its limit is compared with, is the number of its entries.
CountsRight ==
  \A c \in Requester :
    m_peer_queue_count[c] = Cardinality({p \in Enqueued : m_blocks_enqueued[p].peer = c})

\* A thread that waits while it has blocks to do has been signalled, or is about to be.
Awake ==
  \A t \in Thread :
    pc[t] = "wait" /\ (m_block_queue[t] # <<>> \/ stopping) => notified[t] \/ signal = t

\* The queues, the entries, the counts and the events agree, between any two steps.
QueuesAgree == EntriesQueued /\ CountsRight /\ Awake

Holders(r) == {p \in Enqueued : r \in m_blocks_enqueued[p].callbacks}
Workers(r) == {t \in Thread : r \in callbacks[t]}

\* A request is in one place until its callback has been called, once; "it will be called
\* for each block emerged", but for positions over the limit.
RequestInOnePlace ==
  \A r \in Request :
    asked[r] # None =>
      \/ Cardinality(Holders(r)) + Cardinality(Workers(r)) + answers[r] = 1
      \/ asked[r] \in OverLimit /\ Holders(r) = {} /\ Workers(r) = {} /\ answers[r] = 0

Making == {t \in Thread : pc[t] \in {"make", "finish"}}
MakingFor(p) == {t \in Making : p \in Area(Chunk(at[t]))}

\* Two threads never make the same chunk, and all of its area stays in memory: a block has a
\* reference for each thread that makes a chunk whose area it is in.
AreaIsHeld ==
  /\ \A t, u \in Making : Chunk(at[t]) = Chunk(at[u]) => t = u
  /\ \A p \in Pos : IF memory[p] = None THEN MakingFor(p) = {}
                    ELSE memory[p].refs = Cardinality(MakingFor(p))

\* "that means someone else was faster. don't touch it to prevent data loss": what is
\* generated is not generated again.
NotRegenerated == ~regenerated

\* Every call of core.emerge_area is answered in the end, also when the server stops.
Answered ==
  \A r \in Request : asked[r] # None /\ asked[r] \notin OverLimit ~> answers[r] = 1

\* assert(m_refcount > 0) in MapBlock::refDrop
RefsDropped == \A p \in Pos : memory[p] # None => memory[p].refs >= 0
=============================================================================
