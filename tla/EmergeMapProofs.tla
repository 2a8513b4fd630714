-------------------------- MODULE EmergeMapProofs --------------------------
(***************************************************************************)
(* What the threads of Emerge do to the map, for every number of threads   *)
(* and for all chunks and areas, when no mod deletes a block that a thread *)
(* holds: with such a deletion AreaIsHeld is not true.                     *)
(*                                                                         *)
(* MapInv is about references: a block has as many as there are threads in *)
(* the making of a chunk whose area it is in. FreshInv, on top of it, is   *)
(* about what is generated, in memory, on the disk and in a thread's hands.*)
(***************************************************************************)
EXTENDS EmergeProofs

Data == {"none", "partial", "generated"}

TypeMap ==
  /\ databuf \in [Thread -> Data]
  /\ memory \in [Pos -> Block \cup {None}]
  /\ disk \in [Pos -> Data]
  /\ m_chunks_in_progress \subseteq ChunkOf /\ regenerated \in BOOLEAN

Refs(p) == IF memory[p] = None THEN 0 ELSE memory[p].refs

InProgress == \A t \in Making : Chunk(at[t]) \in m_chunks_in_progress
Alone == \A t, u \in Making : Chunk(at[t]) = Chunk(at[u]) => t = u
Held == \A p \in Pos : Refs(p) = Cardinality(MakingFor(p))

MapInv == TypeMap /\ InProgress /\ Alone /\ Held

-----------------------------------------------------------------------------
(* Threads and references *)

LEMMA MakersFinite ==
  ASSUME NEW p
  PROVE  IsFiniteSet(MakingFor(p)) /\ Cardinality(MakingFor(p)) \in Nat
<1>1. MakingFor(p) \subseteq 1 .. NThreads /\ NThreads \in Nat
  BY EmergeAssumption DEF MakingFor, Making, Thread
<1>2. IsFiniteSet(1 .. NThreads)
  BY <1>1, FS_Interval
<1>3. IsFiniteSet(MakingFor(p))
  <2>. HIDE DEF MakingFor
  <2>. QED
    BY <1>1, <1>2, FS_Subset
<1>. QED
  BY <1>3, FS_CardinalityType

LEMMA HeldInMemory ==
  ASSUME TypeMap, Held
  PROVE  /\ \A p \in Pos : IF memory[p] = None THEN MakingFor(p) = {}
                           ELSE memory[p].refs = Cardinality(MakingFor(p))
         /\ \A t \in Making : \A p \in Pos :
              p \in Area(Chunk(at[t])) => /\ memory[p] \in Block /\ memory[p].refs >= 1
                                          /\ Refs(p) = memory[p].refs
<1>1. ASSUME NEW p \in Pos, memory[p] = None PROVE MakingFor(p) = {}
  BY <1>1, MakersFinite, FS_EmptySet DEF Held, Refs
<1>2. ASSUME NEW t \in Making, NEW p \in Pos, p \in Area(Chunk(at[t]))
      PROVE  memory[p] \in Block /\ memory[p].refs >= 1 /\ Refs(p) = memory[p].refs
  <2>1. t \in MakingFor(p)
    BY <1>2 DEF MakingFor
  <2>2. memory[p] # None
    BY <1>1, <2>1
  <2>3. Cardinality(MakingFor(p)) # 0
    BY <2>1, MakersFinite, FS_EmptySet
  <2>. QED
    BY <2>2, <2>3, MakersFinite DEF TypeMap, Held, Refs, Block
<1>. QED
  BY <1>1, <1>2 DEF Held, Refs

\* A step that begins and ends no generation
LEMMA SameMaking ==
  ASSUME MapInv, TypeMap', Making' = Making, \A t \in Making : at'[t] = at[t],
         m_chunks_in_progress \subseteq m_chunks_in_progress',
         \A p \in Pos : Refs(p)' = Refs(p)
  PROVE  MapInv'
<1>1. \A p : MakingFor(p)' = MakingFor(p)
  BY DEF MakingFor
<1>2. InProgress' /\ Alone'
  BY DEF MapInv, InProgress, Alone
<1>3. Held'
  BY <1>1 DEF MapInv, Held
<1>. QED
  BY <1>2, <1>3 DEF MapInv

\* A thread begins to make a chunk that is not in progress.
LEMMA JoinMaking ==
  ASSUME MapInv, TypeMap', NEW t \in Thread, t \notin Making, Making' = Making \cup {t},
         at' = at, Chunk(at[t]) \notin m_chunks_in_progress,
         m_chunks_in_progress' = m_chunks_in_progress \cup {Chunk(at[t])},
         \A p \in Pos : Refs(p)' = IF p \in Area(Chunk(at[t])) THEN Refs(p) + 1 ELSE Refs(p)
  PROVE  MapInv'
<1>1. InProgress' /\ Alone'
  BY DEF MapInv, InProgress, Alone
<1>2. Held'
  <2>. SUFFICES ASSUME NEW p \in Pos PROVE Refs(p)' = Cardinality(MakingFor(p)')
    BY DEF Held
  <2>1. Refs(p) = Cardinality(MakingFor(p))
    BY DEF MapInv, Held
  <2>2. CASE p \in Area(Chunk(at[t]))
    <3>1. MakingFor(p)' = MakingFor(p) \cup {t} /\ t \notin MakingFor(p)
      BY <2>2 DEF MakingFor
    <3>2. Cardinality(MakingFor(p) \cup {t}) = Cardinality(MakingFor(p)) + 1
      BY <3>1, MakersFinite, FS_AddElement
    <3>. QED
      BY <2>1, <2>2, <3>1, <3>2
  <2>3. CASE p \notin Area(Chunk(at[t]))
    <3>1. MakingFor(p)' = MakingFor(p)
      BY <2>3 DEF MakingFor
    <3>. QED
      BY <2>1, <2>3, <3>1
  <2>. QED
    BY <2>2, <2>3
<1>. QED
  BY <1>1, <1>2 DEF MapInv

\* A thread has made its chunk, or has given up.
LEMMA LeaveMaking ==
  ASSUME MapInv, TypeMap', NEW t \in Making, Making' = Making \ {t},
         \A u \in Making : u # t => at'[u] = at[u],
         m_chunks_in_progress \ {Chunk(at[t])} \subseteq m_chunks_in_progress',
         \A p \in Pos : Refs(p)' = IF p \in Area(Chunk(at[t])) THEN Refs(p) - 1 ELSE Refs(p)
  PROVE  MapInv'
<1>1. InProgress' /\ Alone'
  <2>1. \A u \in Making' : u \in Making /\ u # t /\ at'[u] = at[u]
    OBVIOUS
  <2>. QED
    BY <2>1 DEF MapInv, InProgress, Alone
<1>2. Held'
  <2>. SUFFICES ASSUME NEW p \in Pos PROVE Refs(p)' = Cardinality(MakingFor(p)')
    BY DEF Held
  <2>1. Refs(p) = Cardinality(MakingFor(p))
    BY DEF MapInv, Held
  <2>2. CASE p \in Area(Chunk(at[t]))
    <3>1. MakingFor(p)' = MakingFor(p) \ {t} /\ t \in MakingFor(p)
      BY <2>2 DEF MakingFor
    <3>2. Cardinality(MakingFor(p) \ {t}) = Cardinality(MakingFor(p)) - 1
      BY <3>1, MakersFinite, FS_RemoveElement
    <3>. QED
      BY <2>1, <2>2, <3>1, <3>2
  <2>3. CASE p \notin Area(Chunk(at[t]))
    <3>1. MakingFor(p)' = MakingFor(p)
      BY <2>3 DEF MakingFor
    <3>. QED
      BY <2>1, <2>3, <3>1
  <2>. QED
    BY <2>2, <2>3
<1>. QED
  BY <1>1, <1>2 DEF MapInv


-----------------------------------------------------------------------------
(* MapInv *)

LEMMA MapInit ==
  ASSUME Init
  PROVE  MapInv
<1>1. Making = {} /\ \A p : MakingFor(p) = {}
  BY DEF Init, Making, MakingFor
<1>2. InProgress /\ Alone
  BY <1>1 DEF InProgress, Alone
<1>3. Held
  BY <1>1, FS_EmptySet DEF Init, Held, Refs
<1>4. TypeMap
  BY DEF Init, TypeMap, Disks, Data
<1>. QED
  BY <1>2, <1>3, <1>4 DEF MapInv

\* A step of a thread that makes nothing, before it and after it
LEMMA OutsideStep ==
  ASSUME QueueInv, MapInv, TypeMap', NEW t \in Thread, pc[t] \notin {"make", "finish"},
         NEW place \in AllPlaces \ {"make", "finish"}, pc' = [pc EXCEPT ![t] = place],
         \A u \in Thread : u # t => at'[u] = at[u],
         m_chunks_in_progress \subseteq m_chunks_in_progress',
         \A p \in Pos : Refs(p)' = Refs(p)
  PROVE  MapInv'
<1>1. pc \in [Thread -> AllPlaces]
  BY DEF QueueInv, TypeQueues
<1>2. Making' = Making /\ t \notin Making /\ Making \subseteq Thread
  BY <1>1 DEF Making
<1>. QED
  BY <1>2, SameMaking

\* Out of the making, and out of a look
LEMMA ResultMoves ==
  ASSUME QueueInv, NEW t \in Thread, Result(t)
  PROVE  /\ \E place \in {"pop", "answer"} : pc' = [pc EXCEPT ![t] = place]
         /\ \A u \in Thread : u # t => at'[u] = at[u]
BY DEF Result, Goto, QueueInv, TypeQueues

LEMMA PlaceOfBusy ==
  ASSUME QueueInv, NEW t \in Thread, pc[t] \in Busy
  PROVE  at[t] \in Pos /\ Chunk(at[t]) \in ChunkOf /\ Area(Chunk(at[t])) \subseteq Pos
                       /\ at[t] \in Area(Chunk(at[t]))
<1>1. at[t] \in Pos
  BY DEF QueueInv, TypeQueues, Hands
<1>. QED
  BY <1>1, EmergeAssumption DEF ChunkOf

LEMMA FetchedBlock ==
  ASSUME TypeMap, NEW mem \in [Pos -> Block \cup {None}], NEW q \in Pos
  PROVE  /\ Fetched(mem, q) \in Block
         /\ Fetched(mem, q).refs = IF mem[q] = None THEN 0 ELSE mem[q].refs
BY NoneIsNothing DEF Fetched, Loaded, Blank, Block, TypeMap

LEMMA StartMap ==
  ASSUME QueueInv, MapInv, NEW t \in Thread, pc[t] \in {"look", "load"},
         NEW mem \in [Pos -> Block \cup {None}], StartGen(t, mem),
         \A p \in Pos : Refs(p) = IF mem[p] = None THEN 0 ELSE mem[p].refs,
         databuf' \in [Thread -> Data], UNCHANGED disk
  PROVE  MapInv'
<1>. DEFINE chunk == Chunk(at[t])
            Taken(q) == [Fetched(mem, q) EXCEPT !.refs = @ + 1]
<1>1. TypeQueues /\ TypeMap
  BY DEF QueueInv, MapInv
<1>2. at[t] \in Pos /\ chunk \in ChunkOf
  BY PlaceOfBusy DEF Busy
<1>3. CASE /\ MayStart(at[t])
           /\ memory' = [q \in Pos |-> IF q \in Area(chunk) THEN Taken(q) ELSE mem[q]]
           /\ m_chunks_in_progress' = m_chunks_in_progress \cup {chunk}
           /\ regenerated' = (regenerated \/ \E q \in Pos : Chunk(q) = chunk /\ memory'[q].generated)
           /\ Goto(t, "make")
           /\ UNCHANGED at
  <2>1. \A q \in Pos : /\ Taken(q) \in Block /\ Taken(q) # None
                       /\ Taken(q).refs = Refs(q) + 1
    <3>. SUFFICES ASSUME NEW q \in Pos
                  PROVE  Taken(q) \in Block /\ Taken(q) # None /\ Taken(q).refs = Refs(q) + 1
      OBVIOUS
    <3>1. Fetched(mem, q) \in Block /\ Fetched(mem, q).refs = Refs(q)
      BY <1>1, FetchedBlock
    <3>. QED
      BY <3>1, NoneIsNothing DEF Block
  <2>. HIDE DEF Taken
  <2>2. memory' \in [Pos -> Block \cup {None}]
    BY <1>3, <2>1
  <2>3. \A p \in Pos : Refs(p)' = IF p \in Area(chunk) THEN Refs(p) + 1 ELSE Refs(p)
    BY <1>3, <2>1 DEF Refs
  <2>4. TypeMap'
    <3>1. regenerated' \in BOOLEAN
      BY <1>1, <1>3, <2>1, <2>2, NoneIsNothing DEF TypeMap, Block
    <3>. QED
      BY <1>1, <1>2, <1>3, <2>2, <3>1 DEF TypeMap
  <2>5. Making' = Making \cup {t} /\ t \notin Making
    BY <1>1, <1>3 DEF Making, Goto, TypeQueues
  <2>. QED
    BY <1>3, <2>3, <2>4, <2>5, JoinMaking DEF MayStart
<1>4. CASE /\ m_chunks_in_progress' = m_chunks_in_progress \cup (IF allow_gen[t] THEN {chunk} ELSE {})
           /\ memory' = mem
           /\ Result(t)
           /\ UNCHANGED regenerated
  <2>1. TypeMap'
    BY <1>1, <1>2, <1>4 DEF TypeMap
  <2>2. \A p \in Pos : Refs(p)' = Refs(p)
    BY <1>4 DEF Refs
  <2>3. PICK place \in {"pop", "answer"} : pc' = [pc EXCEPT ![t] = place]
    BY <1>4, ResultMoves
  <2>4. place \in AllPlaces \ {"make", "finish"}
    BY DEF AllPlaces, Answering
  <2>. QED
    BY <1>4, <2>1, <2>2, <2>3, <2>4, ResultMoves, OutsideStep
<1>. QED
  BY <1>3, <1>4 DEF StartGen

LEMMA LookMap ==
  ASSUME QueueInv, MapInv, NEW t \in Thread, Look(t)
  PROVE  MapInv'
<1>1. TypeQueues /\ TypeMap
  BY DEF QueueInv, MapInv
<1>2. pc[t] = "look" /\ UNCHANGED databuf
  BY DEF Look
<1>3. CASE /\ UNCHANGED map
           /\ \A u \in Thread : u # t => at'[u] = at[u]
           /\ \E place \in {"pop", "answer", "read"} : pc' = [pc EXCEPT ![t] = place]
  <2>1. PICK place \in {"pop", "answer", "read"} : pc' = [pc EXCEPT ![t] = place]
    BY <1>3
  <2>2. place \in AllPlaces \ {"make", "finish"}
    BY DEF AllPlaces, Answering, Busy
  <2>3. TypeMap' /\ m_chunks_in_progress' = m_chunks_in_progress /\ \A p \in Pos : Refs(p)' = Refs(p)
    BY <1>1, <1>2, <1>3 DEF map, TypeMap, Refs
  <2>. QED
    BY <1>2, <1>3, <2>1, <2>2, <2>3, OutsideStep
<1>4. CASE StartGen(t, memory) /\ UNCHANGED disk
  BY <1>1, <1>2, <1>4, StartMap DEF TypeMap, Refs
<1>5. CASE UNCHANGED map /\ Result(t)
  BY <1>3, <1>5, ResultMoves
<1>6. CASE UNCHANGED <<at, map>> /\ Goto(t, "read")
  BY <1>3, <1>6 DEF Goto
<1>. QED
  BY <1>4, <1>5, <1>6 DEF Look

LEMMA LoadMap ==
  ASSUME QueueInv, MapInv, NEW t \in Thread, Load(t)
  PROVE  MapInv'
<1>. DEFINE p == at[t]
            data == databuf[t]
            mem == [memory EXCEPT ![p] = Loaded(data)]
<1>1. TypeQueues /\ TypeMap
  BY DEF QueueInv, MapInv
<1>2. pc[t] = "load" /\ p \in Pos /\ databuf' \in [Thread -> Data]
  <2>1. pc[t] = "load" /\ databuf' = [databuf EXCEPT ![t] = "none"]
    BY DEF Load
  <2>. QED
    BY <1>1, <2>1, PlaceOfBusy DEF Busy, TypeMap, Data
<1>3. Loaded(data) \in Block /\ Loaded(data).refs = 0
  BY DEF Loaded, Block
<1>4. mem \in [Pos -> Block \cup {None}]
  BY <1>1, <1>3 DEF TypeMap
<1>5. memory[p] = None =>
        \A q \in Pos : Refs(q) = IF mem[q] = None THEN 0 ELSE mem[q].refs
  BY <1>1, <1>2, <1>3, NoneIsNothing DEF TypeMap, Refs
<1>6. CASE /\ memory' = memory \/ (memory[p] = None /\ memory' = mem)
           /\ Result(t)
           /\ UNCHANGED <<disk, m_chunks_in_progress, regenerated>>
  <2>1. TypeMap' /\ \A q \in Pos : Refs(q)' = Refs(q)
    BY <1>1, <1>2, <1>4, <1>5, <1>6 DEF TypeMap, Refs
  <2>2. PICK place \in {"pop", "answer"} : pc' = [pc EXCEPT ![t] = place]
    BY <1>6, ResultMoves
  <2>3. place \in AllPlaces \ {"make", "finish"}
    BY DEF AllPlaces, Answering
  <2>. QED
    BY <1>2, <1>6, <2>1, <2>2, <2>3, ResultMoves, OutsideStep
<1>7. CASE StartGen(t, IF memory[p] = None /\ data = "partial" THEN mem ELSE memory) /\ UNCHANGED disk
  <2>1. CASE memory[p] = None /\ data = "partial"
    BY <1>2, <1>4, <1>5, <1>7, <2>1, StartMap
  <2>2. CASE ~(memory[p] = None /\ data = "partial")
    <3>1. StartGen(t, memory) /\ UNCHANGED disk
      BY <1>7, <2>2
    <3>2. memory \in [Pos -> Block \cup {None}]
      BY <1>1 DEF TypeMap
    <3>. QED
      BY <1>2, <3>1, <3>2, StartMap DEF Refs
  <2>. QED
    BY <2>1, <2>2
<1>8. CASE UNCHANGED map /\ Result(t)
  BY <1>6, <1>8 DEF map
<1>. QED
  BY <1>6, <1>7, <1>8 DEF Load


\* Whoever makes a chunk finds its area in memory, and drops a reference of each block.
LEMMA LeaveMap ==
  ASSUME QueueInv, MapInv, NEW t \in Thread, CancelBlockMake(t) \/ FinishGen(t)
  PROVE  MapInv'
<1>. DEFINE chunk == Chunk(at[t])
<1>1. TypeQueues /\ TypeMap /\ Held
  BY DEF QueueInv, MapInv
<1>2. t \in Making /\ Result(t) /\ UNCHANGED <<databuf, disk, regenerated>>
  BY DEF CancelBlockMake, FinishGen, Making
<1>3. at[t] \in Pos /\ chunk \in ChunkOf
  BY <1>2, PlaceOfBusy DEF Making, Busy
<1>4. \A q \in Pos : q \in Area(chunk) => memory[q] \in Block /\ memory[q].refs >= 1 /\ Refs(q) = memory[q].refs
  BY <1>1, <1>2, HeldInMemory
<1>5. ASSUME NEW q \in Pos
      PROVE  IF q \in Area(chunk)
             THEN memory'[q] \in Block /\ memory'[q].refs = Refs(q) - 1 ELSE memory'[q] = memory[q]
  <2>1. CASE q \notin Area(chunk)
    BY <2>1 DEF CancelBlockMake, FinishGen
  <2>2. CASE q \in Area(chunk)
    <3>1. memory[q] \in Block /\ memory[q].refs \in Nat \ {0} /\ Refs(q) = memory[q].refs /\ memory[q] # None
      BY <1>4, <2>2, NoneIsNothing DEF Block
    <3>2. CASE CancelBlockMake(t)
      <4>1. memory'[q] = [memory[q] EXCEPT !.refs = @ - 1]
        BY <2>2, <3>1, <3>2 DEF CancelBlockMake
      <4>. QED
        BY <2>2, <3>1, <4>1 DEF Block
    <3>3. CASE FinishGen(t)
      <4>1. memory'[q] = [generated |-> memory[q].generated \/ Chunk(q) = chunk,
                          refs |-> memory[q].refs - 1]
        BY <2>2, <3>1, <3>3 DEF FinishGen, Fetched
      <4>. QED
        BY <2>2, <3>1, <4>1 DEF Block
    <3>. QED
      BY <3>2, <3>3
  <2>. QED
    BY <2>1, <2>2
<1>6. memory' \in [Pos -> Block \cup {None}]
  <2>1. \E f : memory' = [q \in Pos |-> f[q]]
    <3>1. CASE CancelBlockMake(t)
      <4>. DEFINE g(q) == IF q \in Area(Chunk(at[t])) /\ memory[q] # None
                              THEN [memory[q] EXCEPT !.refs = @ - 1] ELSE memory[q]
      <4>1. memory' = [q \in Pos |-> g(q)]
        BY <3>1 DEF CancelBlockMake
      <4>. HIDE DEF g
      <4>2. memory' = [q \in Pos |-> [r \in Pos |-> g(r)][q]]
        BY <4>1
      <4>. QED
        BY <4>2
    <3>2. CASE FinishGen(t)
      <4>. DEFINE g(q) == IF q \notin Area(Chunk(at[t])) THEN memory[q]
             ELSE [generated |-> Fetched(memory, q).generated \/ Chunk(q) = Chunk(at[t]),
                   refs |-> Fetched(memory, q).refs - 1]
      <4>1. memory' = [q \in Pos |-> g(q)]
        BY <3>2 DEF FinishGen
      <4>. HIDE DEF g
      <4>2. memory' = [q \in Pos |-> [r \in Pos |-> g(r)][q]]
        BY <4>1
      <4>. QED
        BY <4>2
    <3>. QED
      BY <3>1, <3>2
  <2>2. \A q \in Pos : memory'[q] \in Block \cup {None}
    BY <1>1, <1>5 DEF TypeMap
  <2>. QED
    BY <2>1, <2>2
<1>7. m_chunks_in_progress \ {chunk} \subseteq m_chunks_in_progress' /\ m_chunks_in_progress' \subseteq ChunkOf
  BY <1>1 DEF CancelBlockMake, FinishGen, TypeMap
<1>8. TypeMap'
  BY <1>1, <1>2, <1>6, <1>7 DEF TypeMap
<1>9. \A p \in Pos : Refs(p)' = IF p \in Area(chunk) THEN Refs(p) - 1 ELSE Refs(p)
  BY <1>5, NoneIsNothing DEF Refs
<1>10. Making' = Making \ {t}
  <2>1. PICK place \in {"pop", "answer"} : pc' = [pc EXCEPT ![t] = place]
    BY <1>2, ResultMoves
  <2>. QED
    BY <1>1, <2>1 DEF Making, TypeQueues
<1>11. \A u \in Making : u # t => at'[u] = at[u]
  BY <1>2, ResultMoves DEF Making
<1>. QED
  BY <1>2, <1>7, <1>8, <1>9, <1>10, <1>11, LeaveMaking

\* The other steps of a thread leave the map alone.
LEMMA RestMap ==
  ASSUME QueueInv, MapInv, NEW t \in Thread,
         \/ PopBlockEmerge(t) \/ FindNothing(t) \/ Wait(t) \/ Read(t) \/ MakeChunk(t) \/ Answer(t)
         \/ BeginCancel(t) \/ CancelItem(t) \/ CancelCallback(t) \/ EndCancel(t)
  PROVE  MapInv'
<1>1. TypeQueues /\ TypeMap
  BY DEF QueueInv, MapInv
<1>2. UNCHANGED map
  BY DEF PopBlockEmerge, FindNothing, Wait, Read, MakeChunk, Answer, BeginCancel, CancelItem,
         CancelCallback, EndCancel
<1>3. databuf' \in [Thread -> Data]
  <2>1. CASE Read(t)
    <3>1. databuf' = [databuf EXCEPT ![t] = disk[at[t]]] /\ at[t] \in Pos
      BY <2>1, PlaceOfBusy DEF Read, Busy
    <3>. QED
      BY <1>1, <3>1 DEF TypeMap
  <2>2. CASE UNCHANGED databuf
    BY <1>1, <2>2 DEF TypeMap
  <2>. QED
    BY <2>1, <2>2 DEF PopBlockEmerge, FindNothing, Wait, MakeChunk, Answer, BeginCancel, CancelItem,
                      CancelCallback, EndCancel, threads
<1>4. /\ TypeMap' /\ m_chunks_in_progress' = m_chunks_in_progress
      /\ \A p \in Pos : Refs(p)' = Refs(p)
  BY <1>1, <1>2, <1>3 DEF map, TypeMap, Refs
<1>5. Making' = Making /\ \A u \in Making : at'[u] = at[u]
  <2>1. CASE PopBlockEmerge(t)
    BY <1>1, <2>1 DEF PopBlockEmerge, Goto, threads, Making, TypeQueues
  <2>2. CASE \/ FindNothing(t) \/ Wait(t) \/ Read(t) \/ MakeChunk(t) \/ BeginCancel(t) \/ EndCancel(t)
    BY <1>1, <2>2 DEF FindNothing, Wait, Read, MakeChunk, BeginCancel, EndCancel, Goto, Making, TypeQueues
  <2>3. CASE Answer(t)
    <3>1. pc[t] = "answer" /\ UNCHANGED at /\ \E place \in {"pop", "answer"} : pc' = [pc EXCEPT ![t] = place]
      BY <2>3 DEF Answer, Goto
    <3>. QED
      BY <1>1, <3>1 DEF Making, TypeQueues
  <2>4. CASE CancelItem(t) \/ CancelCallback(t)
    BY <2>4 DEF CancelItem, CancelCallback, Making
  <2>. QED
    BY <2>1, <2>2, <2>3, <2>4
<1>. QED
  BY <1>4, <1>5, SameMaking

\* The server does not touch a block that has references.
LEMMA ServerMap ==
  ASSUME ~DeletesHeld, MapInv, Server
  PROVE  MapInv'
<1>1. TypeMap
  BY DEF MapInv
<1>2. UNCHANGED threads
  BY DEF Server, Signal, StopThreads, EnqueueBlockEmerge, EmergeArea, Unload, LoadBlock, DeleteBlock
<1>3. CASE UNCHANGED map
  <2>1. TypeMap' /\ m_chunks_in_progress' = m_chunks_in_progress /\ \A p \in Pos : Refs(p)' = Refs(p)
    BY <1>1, <1>2, <1>3 DEF threads, map, TypeMap, Refs
  <2>. QED
    BY <1>2, <2>1, SameMaking DEF threads, Making
<1>4. ASSUME NEW p \in Pos, Unload(p) \/ LoadBlock(p) \/ DeleteBlock(p)
      PROVE  MapInv'
  <2>1. PICK b : /\ memory' = [memory EXCEPT ![p] = b]
                 /\ b = None \/ (b \in Block /\ b.refs = 0)
                 /\ memory[p] = None \/ memory[p].refs = 0
    <3>1. Loaded(disk[p]) \in Block /\ Loaded(disk[p]).refs = 0
      BY DEF Loaded, Block
    <3>. QED
      BY <1>4, <3>1 DEF Unload, LoadBlock, DeleteBlock
  <2>2. memory' \in [Pos -> Block \cup {None}] /\ \A q \in Pos : Refs(q)' = Refs(q)
    BY <1>1, <2>1, NoneIsNothing DEF TypeMap, Refs
  <2>3. disk' \in [Pos -> Data]
    BY <1>1, <1>4 DEF Unload, LoadBlock, DeleteBlock, Saved, TypeMap, Data
  <2>4. UNCHANGED <<databuf, m_chunks_in_progress, regenerated>>
    BY <1>2, <1>4 DEF threads, Unload, LoadBlock, DeleteBlock
  <2>5. TypeMap'
    BY <1>1, <2>2, <2>3, <2>4 DEF TypeMap
  <2>. QED
    BY <1>2, <2>2, <2>4, <2>5, SameMaking DEF threads, Making
<1>. QED
  BY <1>3, <1>4 DEF Server, Signal, StopThreads, EnqueueBlockEmerge, EmergeArea

LEMMA MapStutter ==
  ASSUME MapInv, UNCHANGED vars
  PROVE  MapInv'
<1>1. UNCHANGED <<memory, disk, m_chunks_in_progress, regenerated, databuf, pc, at>>
  BY DEF vars, threads, map
<1>2. TypeMap' /\ \A p \in Pos : Refs(p)' = Refs(p)
  BY <1>1 DEF MapInv, TypeMap, Refs
<1>. QED
  BY <1>1, <1>2, SameMaking DEF Making

LEMMA MapInvariant == ~DeletesHeld => (Spec => []MapInv)
<1>. SUFFICES ASSUME ~DeletesHeld PROVE Spec => []MapInv
  OBVIOUS
<1>1. Init => MapInv
  BY MapInit
<1>2. QueueInv /\ MapInv /\ [Next]_vars => MapInv'
  <2>. SUFFICES ASSUME QueueInv, MapInv, [Next]_vars PROVE MapInv'
    OBVIOUS
  <2>1. CASE UNCHANGED vars
    BY <2>1, MapStutter
  <2>2. CASE Server
    BY <2>2, ServerMap
  <2>3. ASSUME NEW t \in Thread, Run(t) PROVE MapInv'
    BY <2>3, LookMap, LoadMap, LeaveMap, RestMap DEF Run
  <2>. QED
    BY <2>1, <2>2, <2>3 DEF Next, Terminated
<1>. QED
  BY <1>1, <1>2, QueueInvariant, PTL DEF Spec

\* Every variable of Emerge stays in its range.
THEOREM TypeCorrect == ~DeletesHeld => (Spec => []TypeOK)
<1>. SUFFICES ASSUME ~DeletesHeld PROVE Spec => []TypeOK
  OBVIOUS
<1>1. Spec => []MapInv
  BY MapInvariant
<1>2. QueueInv /\ MapInv => TypeOK
  BY DEF QueueInv, MapInv, TypeQueues, TypeMap, TypeOK, Data, AllPlaces, Busy, Answering
<1>. QED
  BY <1>1, <1>2, QueueInvariant, PTL

\* No two threads make one chunk, and a block has one reference for each thread that makes a
\* chunk whose area it is in; so none of the area is unloaded while the chunk is made.
THEOREM AreaStaysHeld == ~DeletesHeld => (Spec => []AreaIsHeld)
<1>. SUFFICES ASSUME ~DeletesHeld PROVE Spec => []AreaIsHeld
  OBVIOUS
<1>1. Spec => []MapInv
  BY MapInvariant
<1>2. MapInv => AreaIsHeld
  BY HeldInMemory DEF MapInv, Alone, AreaIsHeld
<1>. QED
  BY <1>1, <1>2, PTL


-----------------------------------------------------------------------------
(* What is generated *)

\* delete_area deletes whole chunks only. Of a chunk that is deleted in part, the rest is
\* generated again with it.
DeletesWhole == \A p \in Deletable : \A q \in Pos : Chunk(q) = Chunk(p) => q = p

GenIn(mem, p) == IF mem[p] # None THEN mem[p].generated ELSE disk[p] = "generated"
Gen(p) == GenIn(memory, p)

\* What is in memory is as new as what is on the disk.
Behind == \A p \in Pos : disk[p] = "generated" => Gen(p)

\* A chunk is generated as a whole.
Uniform == \A p, q \in Pos : Chunk(p) = Chunk(q) => (Gen(p) <=> Gen(q))

\* What a thread has read is what is on the disk, unless it was deleted from there.
Fresh == \A t \in Thread : pc[t] = "load" =>
           databuf[t] = disk[at[t]] \/ (at[t] \in Deletable /\ disk[at[t]] = "none")

FreshInv == Behind /\ Uniform /\ Fresh /\ ~regenerated

LEMMA FreshInit ==
  ASSUME Init
  PROVE  FreshInv
<1>1. \A p \in Pos : Gen(p) <=> disk[p] = "generated"
  BY DEF Init, Gen, GenIn
<1>2. Uniform
  BY <1>1 DEF Init, Disks, Uniform
<1>. QED
  BY <1>1, <1>2 DEF Init, FreshInv, Behind, Fresh

\* A step that changes neither what is generated nor the disk
LEMMA SameGen ==
  ASSUME FreshInv, \A p \in Pos : Gen(p)' <=> Gen(p), disk' = disk
  PROVE  Behind' /\ Uniform'
BY DEF FreshInv, Behind, Uniform

\* A step of a thread that has nothing read afterwards
LEMMA SameFresh ==
  ASSUME TypeMap, Fresh, NEW t \in Thread, disk' = disk, pc'[t] # "load",
         \A u \in Thread : u # t => pc'[u] = pc[u] /\ at'[u] = at[u] /\ databuf'[u] = databuf[u]
  PROVE  Fresh'
BY DEF Fresh

LEMMA FetchedGen ==
  ASSUME TypeMap, NEW mem \in [Pos -> Block \cup {None}], NEW q \in Pos
  PROVE  Fetched(mem, q).generated <=> GenIn(mem, q)
BY NoneIsNothing DEF Fetched, GenIn, Loaded, Blank, Block, TypeMap

LEMMA StartFresh ==
  ASSUME QueueInv, MapInv, FreshInv, NEW t \in Thread, pc[t] \in {"look", "load"},
         NEW mem \in [Pos -> Block \cup {None}], StartGen(t, mem),
         \A q \in Pos : GenIn(mem, q) <=> Gen(q), ~Gen(at[t]),
         UNCHANGED disk, \A u \in Thread : u # t => databuf'[u] = databuf[u]
  PROVE  FreshInv'
<1>. DEFINE chunk == Chunk(at[t])
            Taken(q) == [Fetched(mem, q) EXCEPT !.refs = @ + 1]
<1>1. TypeQueues /\ TypeMap /\ Fresh /\ Uniform /\ ~regenerated
  BY DEF QueueInv, MapInv, FreshInv
<1>2. at[t] \in Pos
  BY PlaceOfBusy DEF Busy
<1>3. CASE /\ memory' = [q \in Pos |-> IF q \in Area(chunk) THEN Taken(q) ELSE mem[q]]
           /\ regenerated' = (regenerated \/ \E q \in Pos : Chunk(q) = chunk /\ memory'[q].generated)
           /\ Goto(t, "make")
           /\ UNCHANGED at
  <2>1. \A q \in Pos : Taken(q) # None /\ (Taken(q).generated <=> Gen(q))
    <3>. SUFFICES ASSUME NEW q \in Pos
                  PROVE  Taken(q) # None /\ (Taken(q).generated <=> Gen(q))
      OBVIOUS
    <3>1. Fetched(mem, q) \in Block /\ (Fetched(mem, q).generated <=> Gen(q))
      BY <1>1, FetchedBlock, FetchedGen
    <3>2. Taken(q) \in Block /\ Taken(q).generated = Fetched(mem, q).generated
      BY <3>1 DEF Block
    <3>. QED
      BY <3>1, <3>2, NoneIsNothing
  <2>. HIDE DEF Taken
  <2>2. \A q \in Pos : Gen(q)' <=> Gen(q)
    <3>. SUFFICES ASSUME NEW q \in Pos PROVE Gen(q)' <=> Gen(q)
      OBVIOUS
    <3>1. CASE q \in Area(chunk)
      BY <1>3, <2>1, <3>1 DEF Gen, GenIn
    <3>2. CASE q \notin Area(chunk)
      <4>1. memory'[q] = mem[q]
        BY <1>3, <3>2
      <4>2. Gen(q)' <=> GenIn(mem, q)
        BY <4>1 DEF Gen, GenIn
      <4>. QED
        BY <4>2
    <3>. QED
      BY <3>1, <3>2
  <2>3. ASSUME NEW q \in Pos, Chunk(q) = chunk PROVE ~memory'[q].generated
    <3>1. q \in Area(chunk)
      BY <2>3, EmergeAssumption
    <3>2. ~Gen(q)
      BY <1>1, <1>2, <2>3 DEF Uniform
    <3>. QED
      BY <1>3, <2>1, <3>1, <3>2
  <2>4. ~regenerated'
    BY <1>1, <1>3, <2>3
  <2>5. Fresh'
    BY <1>1, <1>3, SameFresh DEF Goto, TypeQueues
  <2>. QED
    BY <2>2, <2>4, <2>5, SameGen DEF FreshInv
<1>4. CASE memory' = mem /\ Result(t) /\ UNCHANGED regenerated
  <2>1. \A q \in Pos : Gen(q)' <=> Gen(q)
    <3>. SUFFICES ASSUME NEW q \in Pos PROVE Gen(q)' <=> Gen(q)
      OBVIOUS
    <3>1. Gen(q)' <=> GenIn(mem, q)
      BY <1>4 DEF Gen, GenIn
    <3>. QED
      BY <3>1
  <2>2. Fresh'
    BY <1>1, <1>4, ResultMoves, SameFresh DEF TypeQueues
  <2>. QED
    BY <1>1, <1>4, <2>1, <2>2, SameGen DEF FreshInv
<1>. QED
  BY <1>3, <1>4 DEF StartGen

LEMMA LookFresh ==
  ASSUME QueueInv, MapInv, FreshInv, NEW t \in Thread, Look(t)
  PROVE  FreshInv'
<1>1. TypeQueues /\ TypeMap /\ Fresh /\ ~regenerated
  BY DEF QueueInv, MapInv, FreshInv
<1>2. pc[t] = "look" /\ UNCHANGED databuf
  BY DEF Look
<1>3. CASE UNCHANGED map /\ (Result(t) \/ (Goto(t, "read") /\ UNCHANGED at))
  <2>1. UNCHANGED <<memory, disk, regenerated>> /\ \A q \in Pos : Gen(q)' <=> Gen(q)
    BY <1>3 DEF map, Gen, GenIn
  <2>2. CASE Result(t)
    <3>1. Fresh'
      BY <1>1, <1>2, <2>1, <2>2, ResultMoves, SameFresh DEF TypeQueues
    <3>. QED
      BY <1>1, <2>1, <3>1, SameGen DEF FreshInv
  <2>3. CASE Goto(t, "read") /\ UNCHANGED at
    <3>1. Fresh'
      BY <1>1, <1>2, <2>1, <2>3, SameFresh DEF Goto, TypeQueues
    <3>. QED
      BY <1>1, <2>1, <3>1, SameGen DEF FreshInv
  <2>. QED
    BY <1>3, <2>2, <2>3
<1>4. CASE StartGen(t, memory) /\ UNCHANGED disk /\ memory[at[t]] # None /\ ~memory[at[t]].generated
  <2>1. ~Gen(at[t]) /\ \A q \in Pos : GenIn(memory, q) <=> Gen(q)
    BY <1>4 DEF Gen, GenIn
  <2>. QED
    BY <1>1, <1>2, <1>4, <2>1, StartFresh DEF TypeMap
<1>. QED
  BY <1>3, <1>4 DEF Look

LEMMA LoadFresh ==
  ASSUME DeletesWhole, QueueInv, MapInv, FreshInv, NEW t \in Thread, Load(t)
  PROVE  FreshInv'
<1>. DEFINE p == at[t]
            data == databuf[t]
            mem == [memory EXCEPT ![p] = Loaded(data)]
<1>1. TypeQueues /\ TypeMap /\ Behind /\ Uniform /\ Fresh /\ ~regenerated
  BY DEF QueueInv, MapInv, FreshInv
<1>2. /\ pc[t] = "load" /\ p \in Pos /\ databuf' = [databuf EXCEPT ![t] = "none"]
      /\ \A u \in Thread : u # t => databuf'[u] = databuf[u]
  <2>1. pc[t] = "load" /\ databuf' = [databuf EXCEPT ![t] = "none"]
    BY DEF Load
  <2>. QED
    BY <1>1, <2>1, PlaceOfBusy DEF Busy, TypeMap
<1>3. Loaded(data) \in Block /\ (Loaded(data).generated <=> data = "generated") /\ Loaded(data) # None
  <2>1. Loaded(data) \in Block
    BY DEF Loaded, Block
  <2>2. Loaded(data).generated = (data = "generated")
    BY DEF Loaded
  <2>. QED
    BY <2>1, <2>2, NoneIsNothing
<1>4. mem \in [Pos -> Block \cup {None}] /\ mem[p] = Loaded(data)
      /\ \A q \in Pos : q # p => mem[q] = memory[q]
  BY <1>1, <1>2, <1>3 DEF TypeMap
<1>5. data = disk[p] \/ (p \in Deletable /\ disk[p] = "none")
  BY <1>1, <1>2 DEF Fresh
<1>. HIDE DEF mem
<1>6. CASE UNCHANGED map /\ Result(t)
  <2>1. UNCHANGED <<memory, disk, regenerated>> /\ \A q \in Pos : Gen(q)' <=> Gen(q)
    BY <1>6 DEF map, Gen, GenIn
  <2>2. Fresh'
    BY <1>1, <1>2, <1>6, <2>1, ResultMoves, SameFresh DEF TypeQueues
  <2>. QED
    BY <1>1, <2>1, <2>2, SameGen DEF FreshInv
<1>7. CASE /\ memory[p] = None /\ data = "generated" /\ memory' = mem
           /\ Result(t) /\ UNCHANGED <<disk, regenerated>>
  <2>0. PICK x \in Pos : x = p
    BY <1>2
  <2>1. Gen(x)' /\ \A q \in Pos : q # x => (Gen(q)' <=> Gen(q))
    <3>1. memory'[x] # None /\ memory'[x].generated
      BY <1>3, <1>4, <1>7, <2>0
    <3>2. ASSUME NEW q \in Pos, q # x PROVE memory'[q] = memory[q] /\ disk'[q] = disk[q]
      BY <1>4, <1>7, <2>0, <3>2
    <3>. QED
      BY <3>1, <3>2 DEF Gen, GenIn
  <2>2. Behind'
    BY <1>1, <1>7, <2>1 DEF Behind
  <2>3. Uniform'
    <3>1. CASE disk[x] = "generated"
      <4>1. Gen(x)
        BY <1>1, <3>1 DEF Behind
      <4>. QED
        BY <1>1, <2>1, <4>1 DEF Uniform
    <3>2. CASE disk[x] # "generated"
      <4>1. \A q \in Pos : Chunk(q) = Chunk(x) => q = x
        BY <1>5, <1>7, <2>0, <3>2 DEF DeletesWhole
      <4>. QED
        BY <1>1, <2>1, <4>1 DEF Uniform
    <3>. QED
      BY <3>1, <3>2
  <2>4. Fresh'
    BY <1>1, <1>2, <1>7, ResultMoves, SameFresh DEF TypeQueues
  <2>. QED
    BY <1>1, <1>7, <2>2, <2>3, <2>4 DEF FreshInv
<1>8. CASE /\ memory[p] = None /\ data = "partial" /\ StartGen(t, mem) /\ UNCHANGED disk
  <2>1. ~Gen(p)
    BY <1>5, <1>8 DEF Gen, GenIn
  <2>2. \A q \in Pos : GenIn(mem, q) <=> Gen(q)
    BY <1>3, <1>4, <1>8, <2>1 DEF Gen, GenIn
  <2>. QED
    BY <1>2, <1>4, <1>8, <2>1, <2>2, StartFresh
<1>9. CASE /\ IF memory[p] = None THEN data # "generated" ELSE ~memory[p].generated
           /\ StartGen(t, memory) /\ UNCHANGED disk
  <2>1. ~Gen(p) /\ \A q \in Pos : GenIn(memory, q) <=> Gen(q)
    BY <1>5, <1>9 DEF Gen, GenIn
  <2>2. memory \in [Pos -> Block \cup {None}]
    BY <1>1 DEF TypeMap
  <2>. QED
    BY <1>2, <1>9, <2>1, <2>2, StartFresh
<1>10. CASE /\ IF memory[p] = None THEN data # "generated" ELSE ~memory[p].generated
            /\ StartGen(t, IF memory[p] = None /\ data = "partial" THEN mem ELSE memory)
            /\ UNCHANGED disk
  BY <1>8, <1>9, <1>10
<1>. QED
  BY <1>6, <1>7, <1>10 DEF Load, mem


\* A chunk that is finished is generated as a whole; one that is given up is as it was.
LEMMA LeaveFresh ==
  ASSUME QueueInv, MapInv, FreshInv, NEW t \in Thread, CancelBlockMake(t) \/ FinishGen(t)
  PROVE  FreshInv'
<1>1. TypeQueues /\ TypeMap /\ Held /\ Behind /\ Uniform /\ Fresh /\ ~regenerated
  BY DEF QueueInv, MapInv, FreshInv
<1>2. t \in Making /\ Result(t) /\ UNCHANGED <<databuf, disk, regenerated>>
  BY DEF CancelBlockMake, FinishGen, Making
<1>3. PICK chunk : chunk = Chunk(at[t])
  OBVIOUS
<1>4. \A q \in Pos : q \in Area(chunk) => memory[q] \in Block /\ memory[q] # None
  BY <1>1, <1>2, <1>3, HeldInMemory, NoneIsNothing
<1>5. Fresh'
  BY <1>1, <1>2, ResultMoves, SameFresh DEF TypeQueues
<1>6. CASE CancelBlockMake(t)
  <2>1. \A q \in Pos : Gen(q)' <=> Gen(q)
    <3>. SUFFICES ASSUME NEW q \in Pos PROVE Gen(q)' <=> Gen(q)
      OBVIOUS
    <3>1. CASE q \in Area(chunk)
      <4>1. memory'[q] = [memory[q] EXCEPT !.refs = @ - 1] /\ memory[q] \in Block /\ memory[q] # None
        BY <1>3, <1>4, <1>6, <3>1 DEF CancelBlockMake
      <4>2. memory'[q].generated = memory[q].generated /\ memory'[q] # None
        <5>1. memory[q].refs # 0 /\ memory[q].refs \in Nat
          BY <1>1, <1>2, <1>3, <3>1, HeldInMemory DEF Block
        <5>2. memory'[q] \in Block
          BY <4>1, <5>1 DEF Block
        <5>. QED
          BY <4>1, <5>2, NoneIsNothing DEF Block
      <4>. QED
        BY <4>1, <4>2 DEF Gen, GenIn
    <3>2. CASE q \notin Area(chunk)
      <4>1. memory'[q] = memory[q] /\ disk' = disk
        BY <1>2, <1>3, <1>6, <3>2 DEF CancelBlockMake
      <4>. QED
        BY <4>1 DEF Gen, GenIn
    <3>. QED
      BY <3>1, <3>2
  <2>. QED
    BY <1>1, <1>2, <1>5, <2>1, SameGen DEF FreshInv
<1>7. CASE FinishGen(t)
  <2>1. \A q \in Pos : Gen(q)' <=> Gen(q) \/ Chunk(q) = chunk
    <3>. SUFFICES ASSUME NEW q \in Pos PROVE Gen(q)' <=> Gen(q) \/ Chunk(q) = chunk
      OBVIOUS
    <3>1. CASE q \in Area(chunk)
      <4>1. memory[q] \in Block /\ memory[q] # None
        BY <1>4, <3>1
      <4>2. memory'[q] = [generated |-> memory[q].generated \/ Chunk(q) = chunk,
                          refs |-> memory[q].refs - 1]
        BY <1>3, <1>7, <3>1, <4>1 DEF FinishGen, Fetched
      <4>3. memory'[q] # None
        <5>1. memory[q].refs # 0 /\ memory[q].refs \in Nat
          BY <1>1, <1>2, <1>3, <3>1, HeldInMemory DEF Block
        <5>2. memory'[q] \in Block
          BY <4>1, <4>2, <5>1 DEF Block
        <5>. QED
          BY <5>2, NoneIsNothing
      <4>4. memory'[q].generated <=> memory[q].generated \/ Chunk(q) = chunk
        <5>1. PICK g \in BOOLEAN : g = (memory[q].generated \/ Chunk(q) = chunk)
          OBVIOUS
        <5>2. memory'[q] = [generated |-> g, refs |-> memory[q].refs - 1]
          BY <4>2, <5>1
        <5>3. memory'[q].generated = g
          BY <5>2
        <5>. QED
          BY <5>1, <5>3
      <4>. QED
        BY <4>1, <4>3, <4>4 DEF Gen, GenIn
    <3>2. CASE q \notin Area(chunk)
      <4>1. memory'[q] = memory[q] /\ disk' = disk /\ Chunk(q) # chunk
        BY <1>2, <1>3, <1>7, <3>2, EmergeAssumption DEF FinishGen
      <4>. QED
        BY <4>1 DEF Gen, GenIn
    <3>. QED
      BY <3>1, <3>2
  <2>2. Behind' /\ Uniform'
    BY <1>1, <1>2, <2>1 DEF Behind, Uniform
  <2>. QED
    BY <1>1, <1>2, <1>5, <2>2 DEF FreshInv
<1>. QED
  BY <1>6, <1>7

LEMMA RestFresh ==
  ASSUME QueueInv, MapInv, FreshInv, NEW t \in Thread,
         \/ PopBlockEmerge(t) \/ FindNothing(t) \/ Wait(t) \/ Read(t) \/ MakeChunk(t) \/ Answer(t)
         \/ BeginCancel(t) \/ CancelItem(t) \/ CancelCallback(t) \/ EndCancel(t)
  PROVE  FreshInv'
<1>1. TypeQueues /\ TypeMap /\ Fresh /\ ~regenerated
  BY DEF QueueInv, MapInv, FreshInv
<1>2. UNCHANGED <<memory, disk, regenerated>>
  BY DEF PopBlockEmerge, FindNothing, Wait, Read, MakeChunk, Answer, BeginCancel, CancelItem,
         CancelCallback, EndCancel, map
<1>3. \A q \in Pos : Gen(q)' <=> Gen(q)
  BY <1>2 DEF Gen, GenIn
<1>4. Fresh'
  <2>1. CASE PopBlockEmerge(t)
    <3>1. CASE UNCHANGED threads
      BY <1>1, <1>2, <3>1 DEF threads, Fresh
    <3>2. CASE at' = [at EXCEPT ![t] = Head(m_block_queue[t])] /\ Goto(t, "look") /\ UNCHANGED databuf
      BY <1>1, <1>2, <3>2, SameFresh DEF Goto, TypeQueues
    <3>. QED
      BY <2>1, <3>1, <3>2 DEF PopBlockEmerge
  <2>2. CASE Read(t)
    <3>1. /\ pc[t] = "read" /\ databuf' = [databuf EXCEPT ![t] = disk[at[t]]]
          /\ at' = at /\ pc' = [pc EXCEPT ![t] = "load"]
      BY <2>2 DEF Read, Goto
    <3>2. /\ databuf'[t] = disk'[at'[t]]
          /\ \A u \in Thread : u # t => pc'[u] = pc[u] /\ databuf'[u] = databuf[u]
      BY <1>1, <1>2, <3>1 DEF TypeQueues, TypeMap
    <3>. QED
      BY <1>1, <1>2, <3>1, <3>2 DEF Fresh
  <2>3. CASE /\ UNCHANGED <<at, databuf>>
             /\ \E place \in {"wait", "pop", "finish", "answer", "cancel", "done"} :
                  pc' = [pc EXCEPT ![t] = place]
    BY <1>1, <1>2, <2>3, SameFresh DEF TypeQueues
  <2>4. CASE FindNothing(t) \/ Wait(t) \/ MakeChunk(t) \/ BeginCancel(t) \/ EndCancel(t)
    BY <2>3, <2>4 DEF FindNothing, Wait, MakeChunk, BeginCancel, EndCancel, Goto
  <2>5. CASE Answer(t)
    BY <2>3, <2>5 DEF Answer, Goto
  <2>6. CASE CancelItem(t) \/ CancelCallback(t)
    BY <1>1, <1>2, <2>6 DEF CancelItem, CancelCallback, Fresh
  <2>. QED
    BY <2>1, <2>2, <2>4, <2>5, <2>6
<1>. QED
  BY <1>1, <1>2, <1>3, <1>4, SameGen DEF FreshInv

LEMMA ServerFresh ==
  ASSUME DeletesWhole, MapInv, FreshInv, Server
  PROVE  FreshInv'
<1>1. TypeMap /\ Behind /\ Uniform /\ Fresh /\ ~regenerated
  BY DEF MapInv, FreshInv
<1>2. UNCHANGED threads
  BY DEF Server, Signal, StopThreads, EnqueueBlockEmerge, EmergeArea, Unload, LoadBlock, DeleteBlock
<1>3. UNCHANGED <<pc, at, databuf>>
  BY <1>2 DEF threads
<1>4. CASE UNCHANGED map
  <2>1. UNCHANGED <<memory, disk, regenerated>> /\ \A q \in Pos : Gen(q)' <=> Gen(q)
    BY <1>4 DEF map, Gen, GenIn
  <2>2. Fresh'
    BY <1>1, <1>3, <2>1 DEF Fresh
  <2>. QED
    BY <1>1, <2>1, <2>2, SameGen DEF FreshInv
<1>5. ASSUME NEW p \in Pos, Unload(p) PROVE FreshInv'
  <2>1. /\ memory[p] # None /\ memory' = [memory EXCEPT ![p] = None] /\ regenerated' = regenerated
        /\ \A t \in Thread : ~(pc[t] = "load" /\ at[t] = p)
    BY <1>5 DEF Unload
  <2>2. /\ memory[p] \in Block /\ (Gen(p) <=> memory[p].generated)
        /\ memory'[p] = None /\ \A q \in Pos : q # p => memory'[q] = memory[q]
    BY <1>1, <2>1 DEF TypeMap, Gen, GenIn
  <2>3. /\ disk'[p] = "generated" <=> Gen(p)
        /\ \A q : q # p => disk'[q] = disk[q]
    <3>1. CASE disk' = [disk EXCEPT ![p] = IF memory[p].generated THEN "generated" ELSE "partial"]
      BY <1>1, <2>2, <3>1 DEF TypeMap
    <3>2. CASE memory[p] = Blank /\ UNCHANGED disk
      BY <1>1, <2>2, <3>2 DEF Blank, Behind
    <3>. QED
      BY <1>5, <3>1, <3>2 DEF Unload, Saved
  <2>4. \A q \in Pos : Gen(q)' <=> Gen(q)
    BY <2>2, <2>3 DEF Gen, GenIn
  <2>5. Behind' /\ Uniform'
    BY <1>1, <2>3, <2>4 DEF Behind, Uniform
  <2>6. Fresh'
    BY <1>1, <1>3, <2>1, <2>3 DEF Fresh
  <2>. QED
    BY <1>1, <2>1, <2>5, <2>6 DEF FreshInv
<1>6. ASSUME NEW p \in Pos, LoadBlock(p) PROVE FreshInv'
  <2>1. /\ memory[p] = None /\ memory' = [memory EXCEPT ![p] = Loaded(disk[p])]
        /\ UNCHANGED <<disk, regenerated>>
    BY <1>6 DEF LoadBlock
  <2>2. Loaded(disk[p]).generated = (disk[p] = "generated") /\ Loaded(disk[p]) # None
    <3>1. Loaded(disk[p]) \in Block
      BY DEF Loaded, Block
    <3>. QED
      BY <3>1, NoneIsNothing DEF Loaded
  <2>3. memory'[p] = Loaded(disk[p]) /\ \A q \in Pos : q # p => memory'[q] = memory[q]
    BY <1>1, <2>1 DEF TypeMap
  <2>4. \A q \in Pos : Gen(q)' <=> Gen(q)
    BY <2>1, <2>2, <2>3 DEF Gen, GenIn
  <2>5. Fresh'
    BY <1>1, <1>3, <2>1 DEF Fresh
  <2>. QED
    BY <1>1, <2>1, <2>4, <2>5, SameGen DEF FreshInv
<1>7. ASSUME NEW p \in Pos, DeleteBlock(p) PROVE FreshInv'
  <2>1. /\ p \in Deletable /\ memory' = [memory EXCEPT ![p] = None]
        /\ disk' = [disk EXCEPT ![p] = "none"] /\ regenerated' = regenerated
    BY <1>7 DEF DeleteBlock
  <2>2. /\ memory'[p] = None /\ disk'[p] = "none"
        /\ \A q \in Pos : q # p => memory'[q] = memory[q] /\ disk'[q] = disk[q]
    BY <1>1, <2>1 DEF TypeMap
  <2>3. \A q \in Pos : IF q = p THEN ~Gen(q)' ELSE Gen(q)' <=> Gen(q)
    BY <2>2 DEF Gen, GenIn
  <2>4. Behind'
    BY <1>1, <2>2, <2>3 DEF Behind
  <2>5. Uniform'
    BY <1>1, <2>1, <2>3 DEF Uniform, DeletesWhole
  <2>6. Fresh'
    BY <1>1, <1>3, <2>1 DEF Fresh, TypeMap
  <2>. QED
    BY <1>1, <2>1, <2>4, <2>5, <2>6 DEF FreshInv
<1>. QED
  BY <1>4, <1>5, <1>6, <1>7 DEF Server, Signal, StopThreads, EnqueueBlockEmerge, EmergeArea

LEMMA FreshStutter ==
  ASSUME FreshInv, UNCHANGED vars
  PROVE  FreshInv'
<1>1. UNCHANGED <<memory, disk, regenerated, databuf, pc, at>>
  BY DEF vars, threads, map
<1>2. \A q \in Pos : Gen(q)' <=> Gen(q)
  BY <1>1 DEF Gen, GenIn
<1>3. Fresh'
  BY <1>1 DEF FreshInv, Fresh
<1>. QED
  BY <1>1, <1>2, <1>3, SameGen DEF FreshInv

\* A chunk that was generated is never generated again, whatever the threads read, load and
\* finish in what order; if no mod deletes what a thread holds, or part of a chunk.
THEOREM GeneratedOnce == ~DeletesHeld /\ DeletesWhole => (Spec => []NotRegenerated)
<1>. SUFFICES ASSUME ~DeletesHeld, DeletesWhole PROVE Spec => []NotRegenerated
  OBVIOUS
<1>1. Init => FreshInv
  BY FreshInit
<1>2. QueueInv /\ MapInv /\ FreshInv /\ [Next]_vars => FreshInv'
  <2>. SUFFICES ASSUME QueueInv, MapInv, FreshInv, [Next]_vars PROVE FreshInv'
    OBVIOUS
  <2>1. CASE UNCHANGED vars
    BY <2>1, FreshStutter
  <2>2. CASE Server
    BY <2>2, ServerFresh
  <2>3. ASSUME NEW t \in Thread, Run(t) PROVE FreshInv'
    BY <2>3, LookFresh, LoadFresh, LeaveFresh, RestFresh DEF Run
  <2>. QED
    BY <2>1, <2>2, <2>3 DEF Next, Terminated
<1>3. Spec => []MapInv
  BY MapInvariant
<1>4. FreshInv => NotRegenerated
  BY DEF FreshInv, NotRegenerated
<1>. QED
  BY <1>1, <1>2, <1>3, <1>4, QueueInvariant, PTL DEF Spec


-----------------------------------------------------------------------------
(* The chunks in progress, whatever is deleted: no reference counts here, only *)
(* m_chunks_in_progress and what the threads make.                            *)

NoneBegunOrEnded ==
  /\ Making' = Making /\ \A t \in Making : at'[t] = at[t]
  /\ m_chunks_in_progress \subseteq m_chunks_in_progress'
  /\ m_chunks_in_progress' \subseteq m_chunks_in_progress \cup OutOfLimit

Begun(t) ==
  /\ t \notin Making /\ Making' = Making \cup {t} /\ at' = at
  /\ Chunk(at[t]) \notin m_chunks_in_progress
  /\ m_chunks_in_progress' = m_chunks_in_progress \cup {Chunk(at[t])}

Ended(t) ==
  /\ t \in Making /\ Making' = Making \ {t}
  /\ \A u \in Making : u # t => at'[u] = at[u]
  /\ \/ m_chunks_in_progress' = m_chunks_in_progress \ {Chunk(at[t])}
     \/ CancelBlockMake(t) /\ m_chunks_in_progress' = m_chunks_in_progress

LEMMA MakersEnd ==
  ASSUME QueueInv, NEW t \in Thread, CancelBlockMake(t) \/ FinishGen(t)
  PROVE  Ended(t)
<1>1. t \in Making /\ Result(t)
  BY DEF CancelBlockMake, FinishGen, Making
<1>2. PICK place \in {"pop", "answer"} : pc' = [pc EXCEPT ![t] = place]
  BY <1>1, ResultMoves
<1>3. Making' = Making \ {t}
  BY <1>2 DEF Making, QueueInv, TypeQueues
<1>4. \A u \in Making : u # t => at'[u] = at[u]
  BY <1>1, ResultMoves DEF Making
<1>. QED
  BY <1>1, <1>3, <1>4 DEF Ended, CancelBlockMake, FinishGen

\* A thread that makes nothing and goes to a place where it makes nothing.
LEMMA MakersKept ==
  ASSUME QueueInv, NEW t \in Thread, pc[t] \notin {"make", "finish"},
         NEW place, place \notin {"make", "finish"}, pc' = [pc EXCEPT ![t] = place],
         \A u \in Thread : u # t => at'[u] = at[u],
         m_chunks_in_progress \subseteq m_chunks_in_progress',
         m_chunks_in_progress' \subseteq m_chunks_in_progress \cup OutOfLimit
  PROVE  NoneBegunOrEnded
<1>1. Making' = Making /\ t \notin Making /\ Making \subseteq Thread
  BY DEF Making, QueueInv, TypeQueues
<1>. QED
  BY <1>1 DEF NoneBegunOrEnded

LEMMA MakersStart ==
  ASSUME QueueInv, NEW t \in Thread, pc[t] \in {"look", "load"}, NEW mem, StartGen(t, mem)
  PROVE  NoneBegunOrEnded \/ Begun(t)
<1>1. CASE /\ MayStart(at[t]) /\ Goto(t, "make") /\ UNCHANGED at
           /\ m_chunks_in_progress' = m_chunks_in_progress \cup {Chunk(at[t])}
  <2>1. Making' = Making \cup {t} /\ t \notin Making
    BY <1>1 DEF Making, Goto, QueueInv, TypeQueues
  <2>. QED
    BY <1>1, <2>1 DEF Begun, MayStart
<1>2. CASE /\ Result(t) /\ ~(allow_gen[t] /\ MayStart(at[t]))
           /\ m_chunks_in_progress' =
                m_chunks_in_progress \cup (IF allow_gen[t] THEN {Chunk(at[t])} ELSE {})
  <2>1. PICK place \in {"pop", "answer"} : pc' = [pc EXCEPT ![t] = place]
    BY <1>2, ResultMoves
  <2>2. \A u \in Thread : u # t => at'[u] = at[u]
    BY <1>2, ResultMoves
  <2>3. m_chunks_in_progress' \subseteq m_chunks_in_progress \cup OutOfLimit
    BY <1>2 DEF MayStart
  <2>. QED
    BY <1>2, <2>1, <2>2, <2>3, MakersKept
<1>. QED
  BY <1>1, <1>2 DEF StartGen

LEMMA MakersLook ==
  ASSUME QueueInv, NEW t \in Thread, Look(t) \/ Load(t)
  PROVE  NoneBegunOrEnded \/ Begun(t)
<1>1. pc[t] \in {"look", "load"}
  BY DEF Look, Load
<1>2. CASE Result(t) /\ UNCHANGED m_chunks_in_progress
  <2>1. PICK place \in {"pop", "answer"} : pc' = [pc EXCEPT ![t] = place]
    BY <1>2, ResultMoves
  <2>. QED
    BY <1>1, <1>2, <2>1, ResultMoves, MakersKept
<1>3. CASE Goto(t, "read") /\ UNCHANGED <<at, m_chunks_in_progress>>
  BY <1>1, <1>3, MakersKept DEF Goto
<1>4. CASE \E mem : StartGen(t, mem)
  BY <1>1, <1>4, MakersStart
<1>. QED
  BY <1>2, <1>3, <1>4 DEF Look, Load, map

LEMMA MakersRest ==
  ASSUME QueueInv, NEW t \in Thread,
         \/ PopBlockEmerge(t) \/ FindNothing(t) \/ Wait(t) \/ Read(t) \/ MakeChunk(t) \/ Answer(t)
         \/ BeginCancel(t) \/ CancelItem(t) \/ CancelCallback(t) \/ EndCancel(t)
  PROVE  NoneBegunOrEnded
<1>1. m_chunks_in_progress' = m_chunks_in_progress
  BY DEF PopBlockEmerge, FindNothing, Wait, Read, MakeChunk, Answer, BeginCancel, CancelItem,
         CancelCallback, EndCancel, map
<1>2. CASE PopBlockEmerge(t)
  <2>1. CASE UNCHANGED threads
    BY <1>1, <2>1 DEF threads, NoneBegunOrEnded, Making
  <2>2. CASE at' = [at EXCEPT ![t] = Head(m_block_queue[t])] /\ Goto(t, "look")
    <3>1. \A u \in Thread : u # t => at'[u] = at[u]
      BY <2>2 DEF QueueInv, TypeQueues
    <3>2. pc[t] \notin {"make", "finish"}
      BY <1>2 DEF PopBlockEmerge
    <3>. QED
      BY <1>1, <2>2, <3>1, <3>2, MakersKept DEF Goto
  <2>. QED
    BY <1>2, <2>1, <2>2 DEF PopBlockEmerge
<1>3. CASE MakeChunk(t)
  <2>1. Making' = Making /\ at' = at
    BY <1>3 DEF MakeChunk, Goto, Making, QueueInv, TypeQueues
  <2>. QED
    BY <1>1, <2>1 DEF NoneBegunOrEnded
<1>4. CASE CancelItem(t) \/ CancelCallback(t)
  BY <1>1, <1>4 DEF CancelItem, CancelCallback, NoneBegunOrEnded, Making
<1>5. CASE FindNothing(t) \/ Wait(t) \/ Read(t) \/ Answer(t) \/ BeginCancel(t) \/ EndCancel(t)
  <2>1. /\ pc[t] \notin {"make", "finish"} /\ at' = at
        /\ \E place \in {"wait", "pop", "load", "answer", "cancel", "done"} :
             pc' = [pc EXCEPT ![t] = place]
    BY <1>5 DEF FindNothing, Wait, Read, Answer, BeginCancel, EndCancel, Goto
  <2>. QED
    BY <1>1, <2>1, MakersKept
<1>. QED
  BY <1>2, <1>3, <1>4, <1>5

\* Every step: no generation begins or ends, or one does.
LEMMA MakersStep ==
  ASSUME QueueInv, [Next]_vars
  PROVE  NoneBegunOrEnded \/ \E t \in Thread : Begun(t) \/ Ended(t)
<1>1. CASE UNCHANGED vars
  BY <1>1 DEF vars, threads, map, NoneBegunOrEnded, Making
<1>2. CASE Server
  <2>1. UNCHANGED <<threads, m_chunks_in_progress>>
    BY <1>2 DEF Server, Signal, StopThreads, EnqueueBlockEmerge, EmergeArea, Unload, LoadBlock,
                DeleteBlock, map
  <2>. QED
    BY <2>1 DEF threads, NoneBegunOrEnded, Making
<1>3. ASSUME NEW t \in Thread, Run(t)
      PROVE  NoneBegunOrEnded \/ Begun(t) \/ Ended(t)
  BY <1>3, MakersLook, MakersEnd, MakersRest DEF Run
<1>. QED
  BY <1>1, <1>2, <1>3 DEF Next, Terminated

LEMMA AloneInvariant == Spec => [](InProgress /\ Alone)
<1>1. Init => InProgress /\ Alone
  BY DEF Init, InProgress, Alone, Making
<1>2. QueueInv /\ (InProgress /\ Alone) /\ [Next]_vars => (InProgress /\ Alone)'
  <2>. SUFFICES ASSUME QueueInv, InProgress, Alone, [Next]_vars PROVE InProgress' /\ Alone'
    OBVIOUS
  <2>1. CASE NoneBegunOrEnded
    BY <2>1 DEF NoneBegunOrEnded, InProgress, Alone
  <2>2. ASSUME NEW t \in Thread, Begun(t) PROVE InProgress' /\ Alone'
    BY <2>2 DEF Begun, InProgress, Alone
  <2>3. ASSUME NEW t \in Thread, Ended(t) PROVE InProgress' /\ Alone'
    <3>1. \A u \in Making' : u \in Making /\ u # t /\ at'[u] = at[u]
      BY <2>3 DEF Ended
    <3>. QED
      BY <2>3, <3>1 DEF Ended, InProgress, Alone
  <2>. QED
    BY <2>1, <2>2, <2>3, MakersStep
<1>. QED
  BY <1>1, <1>2, QueueInvariant, PTL DEF Spec

\* No two threads make the same chunk, also when mods delete blocks that threads hold; so
\* what DeleteBlock breaks is the count of references, not the rule of initBlockMake.
THEOREM OneMakerPerChunk == Spec => []Alone
  BY AloneInvariant, PTL

\* In m_chunks_in_progress, and no thread is at it
GivenUp(c) == c \in m_chunks_in_progress /\ \A t \in Making : Chunk(at[t]) # c

\* A chunk is given up for one of two reasons: it is not fully inside the mapgen limits, or
\* on_generated failed. And it stays so: what is given up once is never made again.
GivenUpForGood ==
  /\ [][\A c : GivenUp(c)' => \/ GivenUp(c) \/ c \in OutOfLimit
                              \/ \E t \in Thread : CancelBlockMake(t) /\ c = Chunk(at[t])]_vars
  /\ [][\A c : GivenUp(c) => GivenUp(c)']_vars

\* cancelBlockMake leaves the chunk in m_chunks_in_progress, and so does an initBlockMake that
\* fails at the limits: no later request for the chunk can start its generation.
THEOREM ChunksAreGivenUpForGood == Spec => GivenUpForGood
<1>1. QueueInv /\ [Next]_vars =>
        [\A c : GivenUp(c)' => \/ GivenUp(c) \/ c \in OutOfLimit
                               \/ \E t \in Thread : CancelBlockMake(t) /\ c = Chunk(at[t])]_vars
  <2>. SUFFICES ASSUME QueueInv, [Next]_vars, NEW c, GivenUp(c)', ~GivenUp(c), c \notin OutOfLimit
                PROVE  \E t \in Thread : CancelBlockMake(t) /\ c = Chunk(at[t])
    OBVIOUS
  <2>1. CASE NoneBegunOrEnded
    BY <2>1 DEF NoneBegunOrEnded, GivenUp
  <2>2. ASSUME NEW t \in Thread, Begun(t) PROVE FALSE
    BY <2>2 DEF Begun, GivenUp
  <2>3. ASSUME NEW t \in Thread, Ended(t) PROVE CancelBlockMake(t) /\ c = Chunk(at[t])
    <3>1. \A u \in Making : u # t => u \in Making' /\ at'[u] = at[u]
      BY <2>3 DEF Ended
    <3>. QED
      BY <2>3, <3>1 DEF Ended, GivenUp
  <2>. QED
    BY <2>1, <2>2, <2>3, MakersStep
<1>2. QueueInv /\ [Next]_vars => [\A c : GivenUp(c) => GivenUp(c)']_vars
  <2>. SUFFICES ASSUME QueueInv, [Next]_vars, NEW c, GivenUp(c) PROVE GivenUp(c)'
    OBVIOUS
  <2>1. CASE NoneBegunOrEnded
    BY <2>1 DEF NoneBegunOrEnded, GivenUp
  <2>2. ASSUME NEW t \in Thread, Begun(t) PROVE GivenUp(c)'
    BY <2>2 DEF Begun, GivenUp
  <2>3. ASSUME NEW t \in Thread, Ended(t) PROVE GivenUp(c)'
    <3>1. \A u \in Making' : u \in Making /\ u # t /\ at'[u] = at[u]
      BY <2>3 DEF Ended
    <3>. QED
      BY <2>3, <3>1 DEF Ended, GivenUp
  <2>. QED
    BY <2>1, <2>2, <2>3, MakersStep
<1>. QED
  BY <1>1, <1>2, QueueInvariant, PTL DEF Spec, GivenUpForGood
=============================================================================
