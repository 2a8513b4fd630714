# Betacraft: a verification project

Betacraft is a game for the Luanti engine, a fork of Mineclonia. The repository holds the game
(Lua), a copy of the engine with the project's own changes (C++), a launcher written in Go and
a small Discord companion process. This directory holds TLA+ modules of their core logic,
configurations that check them with TLC, and proofs checked by TLAPS. Paths below are relative
to `src/` of the repository, those of the engine to `src/engine/luanti/src/`; names in `code`
are those of the source, which the modules keep.

1. [The system](#1-the-system)
2. [Modules](#2-modules)
3. [Runs, bounds and what they show](#3-runs-bounds-and-what-they-show)
4. [Fairness](#4-fairness)
5. [Proofs](#5-proofs)
6. [Disagreements between code and text](#6-disagreements-between-code-and-text)
7. [What is only model-checked, and what is not modelled](#7-what-is-only-model-checked-and-what-is-not-modelled)
8. [Plan](#8-plan)

## 1. The system

Most of the repository is content (about 250 000 lines of Lua that register nodes, mobs,
items and structures), textures, the engine's rendering and user interface, and third-party
libraries. The logic that is hard to get right is in the parts below. `PROJECT.json` lists
every component, the unmodelled ones with the reason, and the hazards of the code with the
properties that watch them.

### Redstone scheduler: `mods/ITEMS/REDSTONE/mcl_redstone`

- *State.* The clock `current_tick`; `eventqueue`, events by tick; `update_event_tab`, for
  each position the update event in force; `_pending_updates`, positions whose update
  callback is due at the end of the tick; `is_tick_frozen`. Nothing of it is saved.
- *Operations.* `_schedule_update`, `after`, `_abort_pending_update`; `tick_step`, which
  handles the due events, then the pending updates, under a time budget and a limit on the
  queue; `/tick`; `on_construct`, `after_destruct`, `update_node`; load block modifiers.
- *Interactions.* The engine calls the globalstep and the node callbacks, components answer
  `update` and `init` with a delayed node, a call of `after`, or an immediate `set_node`, and
  closures given to `after` come back as events. The queue is one of two implementations.
- *Hard.* Superseded events stay in the queue next to the one in force. A tick may be given
  up in its middle and taken up again. Closures outlive the node they were made for, and compare
  its name at most. Pistons swap and replace nodes from their closures, some of them with
  `swap_node`, of which the scheduler is not told. Keys are added to `_pending_updates` while `pairs()` runs over it. Overflow, unload and restart drop
  the queue but not the nodes.
- *Correct when* table and queue agree, a node is swapped once per tick, no event is skipped
  or late, the clock neither jumps nor stands still, a better priority wins, an update never
  reaches a node that was replaced, and whatever was marked or scheduled settles.

### Event queue: `mcl_redstone/util.lua`, `mods/CORE/mcl_util/queue.lua`

- *State.* A binary heap, or (setting `mcl_redstone_ordered_event_queue`) a sorted list of
  pairs of a tick and a first-in first-out queue with a separate count of all values.
- *Operations.* `enqueue`, `dequeue`, `peek`, `size`.
- *Hard.* Index arithmetic at the last entry; a queue that empties while its tick may come
  back; order among equal ticks, which the heap does not keep.
- *Correct when* it is a priority queue, with arrival order in the second case.

### Launcher process: `launcher/app.go`, `launch.go`, `config.go`, `http.go`

- *State.* `App.cfg` and its file `config.toml`, the flag `gameRunning` under `gameMu`, the
  engine processes, and the update's state (below).
- *Operations.* `SetNick`, `LaunchGame`, `CheckForUpdate`, `ApplyUpdate`, and the worlds.
- *Interactions.* The page calls over HTTP (or through Wails), each call on a goroutine of
  its own; each engine has a goroutine that waits for it; an update has one.
- *Hard.* Unlocked shared fields, a check and its act in separate critical sections, a flag
  that stands for several engines, a save that fails and whose error every caller discards,
  death between truncating and writing a file.
- *Correct when* one game runs at a time, no update begins under a game, and the file holds the
  profile. The code keeps none of the three in every case (section 6). What it does keep: the
  status clears when the games end, two games or an update under a game come from no other cause
  than two calls between check and act, and a save that succeeds and meets no other makes the
  file the profile again, whatever happened before.

### Launcher self-update: `launcher/update.go`

- *State.* `updateState`; on disk the managed paths of the game root, the staging and backup
  directories, `minetest.conf`, `launcher` and `launcher.old`.
- *Operations.* Download, extract, validate, merge the settings, move the old paths to the
  backup, copy the new ones, replace the launcher, roll back on an error.
- *Hard.* Each of some twenty file operations can fail or be the last one before the process
  dies, and the deferred rollback runs in the first case and not in the second.
- *Correct when* the old game can be recovered at every moment, an update does all or
  nothing, a launcher is left, and the update ends.

### Engine network, reliable channels: `network/mtp/impl.cpp`, `threads.cpp`

- *State.* Of each peer and channel: the next number to give out and the next one expected, the
  packets sent and not acknowledged, those that came too early, the send window, the commands
  not yet numbered, the chunks of unfinished messages.
- *Operations.* A command is split, its chunks get numbers and are sent while the window has
  room; what is not acknowledged is sent again; what arrives is acknowledged, and processed,
  kept for later or ignored, according to its number.
- *Interactions.* The server's or client's thread puts commands, the send thread numbers and
  sends, the receive thread takes packets and acknowledgements; the other end and the network.
- *Hard.* Sixteen-bit numbers that wrap (they start at 65500), compared across the wrap in four
  different functions; datagrams that are lost, repeated, late and out of order; messages longer
  than the window.
- *Correct when* messages come out once each, whole, in the order they went in.

### Engine network, peers of a server: `network/mtp`, `network/peerhandler.h`

- *State.* The table `m_peers` of ids, the count of users of each `Peer`, its flags, the
  commands and the events between the threads.
- *Operations.* A datagram from an unknown address makes a peer; a time-out, a DISCO packet, the
  server's `disconnect_peer` and the end of the connection remove it.
- *Interactions.* Three threads look peers up and delete them. The last user of a dropped peer
  deletes the object. The server learns of peers from the events, by their ids alone, and keeps
  a list of clients (`m_clients` of `server/clientiface.cpp`).
- *Hard.* Removal by id after a look-up by pointer, the event of a removal put after the id is
  free again, a packet in hand while its peer goes.
- *Correct when* no object is used after its deletion or left behind, a peer that goes has an id
  some peer gave cause to remove, the server's clients are the peers of the table and those whose
  removal is about to be told, and data reach the client of the peer they came from, or none. The
  last two fail for an id that is given again before the removal of its last peer was told
  (section 6); data told after the removal of their peer find no client.

### Engine, emerging of map blocks: `emerge.cpp`, `servermap.cpp`, `map.cpp`

- *State.* `m_blocks_enqueued`, a queue and an event for each thread, counts for each client;
  the blocks in memory with their reference counts; `m_chunks_in_progress`; the database.
- *Operations.* Enqueue with limits; a thread takes a position, looks in memory, reads the
  database, loads or generates; a generation starts, finishes or is cancelled; callbacks; stop.
- *Interactions.* Threads and the server share the map under the environment lock and the queues
  under `m_queue_mutex`. The server unloads, loads and deletes blocks meanwhile.
- *Hard.* The database is read without the lock, so what was looked up has changed; neighbouring
  chunks share their borders; the event is signalled after the queue is unlocked; entries that
  are merged must keep every caller's callback.
- *Correct when* a chunk is made by one thread, its blocks stay, nothing generated is generated
  again, and every caller gets an answer.

### Other parts of the engine (not modelled yet)

The server's step and the states of a joining client (`clientiface.cpp`, of which the list of
clients is modelled), active objects and
their storage (`serverenvironment.cpp`), inventories, node timers and liquids, the job queue of
`AsyncEngine`, the mesh threads of the client and the media transfer keep state that could be
modelled. Map generators, serialisation, light, collision, rendering, sound and the bundled
libraries are numeric, geometric or foreign code.

### Launcher worlds: `launcher/worlds.go` (not modelled yet)

- *State.* Directories under `worlds`. *Operations.* Scan, create from a template under a
  free name, delete.
- *Hard.* The name is looked up before the directory is made, and `MkdirAll` takes an
  existing one; a failed creation removes the directory of its name, whoever made it; nothing
  asks whether the world is being played.

### Discord companion: `tools/discord_rpc`, `mods/CORE/mcl_discord_rpc` (not modelled yet)

- *State.* A process, its pid file, its connection. *Operations.* Started and stopped by the
  mod; connect, handshake, send the activity, answer pings, retry; watch the parent process.
- *Hard.* Two goroutines write two-part frames to one connection; a signal is looked at only
  between sessions; an old companion removes the pid file of its successor.

### Scares: `mods/SCARES` (not modelled yet)

- *State.* Per player a credit, a target and the active scare. *Operations.* The scheduler's
  check, `scares.trigger` (also from `/scare`), `finish_ctx`, leaving.
- *Hard.* The promise that every player meets an event within `interval_max`; a second
  trigger while a scare is active; retry after a failed spawn.

### Redstone components, wire, observers, pistons (not modelled yet)

Callbacks on top of the scheduler. `RedstoneQueue` takes them as parameters, so that each can
be composed with it. Torches and observers have state of their own (burnout table, scheduled
flag) that relies on closures the scheduler may drop.

Ring buffer and vaults, hoppers, furnaces, beds, raids, trial spawners, mobs, weather, world
generation, display and tools are listed with their reasons in `PROJECT.json`.

## 2. Modules

| module | what it is |
| --- | --- |
| `RedstoneQueue` | the scheduler and the node callbacks that feed it |
| `MCRedstoneQueue` | the same, with callbacks that may answer anything |
| `RedstoneQueueProofs` | its safety, for every instance |
| `PriorityQueue` | abstract: what the scheduler expects of an event queue |
| `EventQueue`, `MCEventQueue` | both implementations of the queue |
| `EventQueueProofs` | they implement `PriorityQueue`, and their loops are bounded |
| `Updater`, `MCUpdater` | the self-update, one step per file operation |
| `UpdaterProofs` | its safety: what holds whatever fails, and what holds when the rollback's own renames succeed |
| `LauncherApp`, `MCLauncherApp` | the launcher process, with `Updater` composed in |
| `LauncherAppProofs` | its types and its flag, that it implements `Updater`, that its exclusions fail by one race only, and what a save achieves |
| `FifoLink` | abstract: what a reliable channel promises |
| `PacketBuffer` | sequence numbers and the sorted buffer `ReliablePacketBuffer` |
| `MtpChannel`, `MCMtpChannel` | one reliable channel in one direction, over a bad network |
| `MtpChannelProofs` | it implements `FifoLink`, and never stands still with a message undelivered |
| `MtpPeers` | the peers of a server's connection and its three threads |
| `ServerClients`, `MCServerClients` | `MtpPeers` with the server's list of clients, made from its events |
| `MtpPeersProofs` | the safety of `MtpPeers` and `ServerClients` |
| `Emerge`, `MCEmerge` | the emerge threads, the queues, the generation of chunks |
| `EmergeProofs` | its queues and requests, for any threads, blocks and clients |
| `EmergeMapProofs` | its references, who makes a chunk, what is generated and what is given up |

**RedstoneQueue.** The variables are the Lua module's, plus `phase` (where `tick_step` is),
`lbm_todo` (load block modifiers still to run), `mapblock`, and three history variables
(`swaps`, `stalls`, `outdated`). One turn of each loop of `tick_step` is an action:
`GlobalStep` or `CommandStep` begins, `HandleEvent` handles one event, `EndEvents` and
`CallUpdate` are the loop over `_pending_updates`, `FinishTick` and `AbortTick` end it. Lua is
single-threaded, so everything else needs `phase = "idle"`. `inserted` stands for Lua's rule
that keys added during `pairs()` may be visited or not: `FinishTick` may then leave some.
Components are the constant operators `Update`, `Initial`, `Fire`, `Marks` and `SideMarks`,
which return sets of possible answers: nothing, a delayed swap, a call of `after`, both (buttons,
torches), an immediate `set_node` (trapdoors). `_schedule_update`'s early returns, the abort of a
pending update by `on_construct` and `after_destruct`, and the closures they leave are the
operators `ScheduleUpdate`, `SetNode`, `Construct` and `Destruct`. `Timer` is a component's own
closure: it does nothing if the node's `Name` is another (its `param2` may differ), and else what
`Fire` says, which may swap the node and replace others as a piston does; `SwapNode` is
`core.swap_node` by anyone else, which runs no callback. `copy` tells apart events
that are equal but not identical, since the code compares events by identity.

**EventQueue.** One step per turn of the heap's loops (`SiftUp`, `SiftDown`), so that the order
of the heap is a statement about a loop in progress; the ordered queue's operations are one
step each, because they loop only to search. `table.sort` of a sorted list with one new pair
is its insertion. The abstract queue is the set of entries; a call of the heap is mapped to one
abstract step when it begins, the rest stutters. `RedstoneQueue` keeps its events in a set and
dequeues any of the least tick, which is `PriorityQueue` without arrival order; the run and
the theorem `Refinement` justify that use.

**Updater.** `phase` is the place of the goroutine. A managed path holds a release by its
number, nothing, or a torn copy; `root`, `staging` and `backup` map paths to contents. The
`Return` of every error path enters the deferred functions of `downloadAndInstall` in their
order. `Crash` may come between any two steps and `StartLauncher` begins again from what is
on disk. `before` and `before_launcher` remember the game when the update began.

**LauncherApp.** A goroutine of a request is a thread with a program counter `at`; `save` is
three steps (`Marshal`, `Truncate`, `Write`), because another goroutine or death can come
between. The open may fail and leave the old file, the write may fail and leave nothing, a part
or what is no TOML (`Part`); in both cases the caller goes on, since it discards the error. A Go
string is two words, so a read that races with an assignment may see `Garbled`;
two overlapping writes of the file may leave `Corrupt`. Two histories serve the properties:
`raced` is set when a call passes its check while another has passed its own and not acted yet,
and for as long as an engine of that time lives; `unsaved` when the last save failed or met
another. `startGame` is three steps, as the
mutex is released between them. The update is the module `Updater` itself: `INSTANCE Updater`
with shared variables, and `Quit` is its `Crash`.

**MtpChannel.** The two ends of one channel in one direction. A packet's content is its place in
`stream`, the history of all chunks numbered so far, so that the properties can tell which packet
a number stands for. `Number`, `HaveSeqnum` and `CanNumber` are `processReliableSendCommand` and
`getOutgoingSequenceNumber` with its arithmetic at the wrap (one number too few, in the code's
form); `SendQueued` and `Resend` are the send thread's loops; `ReceiveReliable` is
`handlePacketType_Reliable` with its four outcomes, `Unbuffer` is `checkIncomingBuffers`,
`ReceiveAck` the acknowledgement. The network is the sets `wire` and `acks`: what is in them may
arrive at any time and any number of times, and need not arrive at all; `Lose` removes it (without
`Lossy` it stays, which adds no behaviour to those that safety sees). `Lifetime` bounds how late
a datagram may be, in packets numbered since (`Expired`); a packet the sender still waits for may have
been sent again just now, so its datagrams are never too late. Decisions: a command is numbered in one step, as
only the send thread does it; the connection's `m_command_queue` is part of taking a command; the
bandwidth quota only delays and is left out; a split message's own sequence number is abstracted
to the message; packets resent by `rawSendAsPacket` itself (pings, the creation of a peer) use the
same buffers on channel 0 and are left out; the checksum branch that no datagram of the program
itself takes is left out.

**MtpPeers.** A `Peer` is an object of `heap`, an `Id` is given again as soon as the table has it no
more. `held` is the `PeerHelper`s on a thread's stack; `Acquire` and `Release` are its constructor
and destructor, with the count and the flag under the peer's lock. The receive thread creates,
handles DISCO and data and puts events; the send thread runs through its loop's phases (time-outs,
commands, pending disconnects) with the ids it collected before; the server gives commands, asks
for addresses and closes. A peer may time out at any look at its time. `told` is the history of
events of a peer, `cause` of those there was a reason to remove.

**ServerClients.** Every step of `MtpPeers` that puts an event for the server is joined with what
the server makes of it (`PeerAdded`, `DeletingPeer`); the events are one queue that the server takes in
order, so its list follows the order of the puts. The server knows a peer by its id only, as in the code:
a second `PeerAdded` of an id keeps the client that is there, and a removal takes whatever client
has the id. `reused` is the history of ids given again too early, for which the
properties make no promise.

**Emerge.** What is done under the environment lock is one step. `EnqueueBlockEmerge` is what a
server step asks for clients and active blocks, with the limits of `pushBlockEmergeData`;
`EmergeArea` is `core.emerge_area` for one block; `Signal` is the event's, after the mutex. A thread
goes from `PopBlockEmerge` over `Look`, `Read` (without the lock) and `Load` to `StartGen`, which
takes references on the whole area of the chunk, `MakeChunk` or `CancelBlockMake`, `FinishGen`, and
`Answer` for each callback; `BeginCancel` to `EndCancel` is `cancelPendingItems`, the one place that
holds `m_queue_mutex` for longer. `Unload`, `LoadBlock` and `DeleteBlock` are the server's. A
block is known by whether it is generated and by its count. Callbacks that call
`core.emerge_area` themselves are not modelled.

Operators called *mutant* in the modules are changed forms of a definition, as a plausible
bug would make them: every property of a passing run is violated by one of them.

## 3. Runs, bounds and what they show

Runs that must pass:

| run | shows | bounds |
| --- | --- | --- |
| `redstone_queue` | the eight safety properties, under any answers of components | 1 position, 3 nodes, delays and priorities 1-2, 2 equal events, queue 4 (limit 3), clock 3 |
| `redstone_queue_live` | a key that `pairs()` passes over is served once a tick adds none; updates settle, also when superseded or when their node was swapped meanwhile | 2 positions (a component and a sender of power), 2 nodes of one name, delays and priorities 1-2, queue 3 (limit 2), clock 3 |
| `event_queue` | both queues implement `PriorityQueue` | 3 ticks, 7 values |
| `updater` | recoverability, all or nothing, a launcher is left, updates end | 3 paths, 2 updates, 2 crashes, every fault but the rollback's own |
| `launcher_app` | status clears, games and updates exclude each other but for one race, a save that succeeds alone makes the file the profile | 2 threads, 2 engines, 1 nick, 1 update, 1 death; 1 call at a time from the update on |
| `mtp_channel` | a FIFO link over repeats, delays, reordering; numbers stay in reach; nothing lost | 7 messages of 1-2 chunks, numbers wrap at 12, window 4, a datagram outlives 5 packets |
| `mtp_channel_live` | with loss, every message is delivered | 2 messages of 1-2 chunks, window 1-2, from a number before the wrap |
| `server_clients` | objects live while used, removal for cause, the server's clients are the connection's peers, data reach their peer's client or none | 2 peers, 2 ids, 2 addresses, 1 command |
| `emerge` | queues agree, areas held, nothing generated twice, every request answered | 2 threads, 5 blocks in 4 chunks, 1 client, 1 request, 1 block asked for, loaded or deleted, 1 error |

Runs that must find a violation, one for each of the disagreements of section 6 that have a run:
`updater_restore`, `launcher_two_games`, `emerge_delete`.

Why the bounds are enough. The safety of the scheduler is about one position at a time (its
table entry, its events, its node), and the interesting cases are two events of a position of
which one is superseded, equal events, an overflow (limit 3, queue 4) and a clock that moves
past every delay: all occur. `redstone_queue_live` has what one position cannot show, a callback
that marks another position during `pairs()`: both of its positions are marked by both, keys are passed
over, stay marked and are served in a later tick. Only the first answers with delayed swaps and `after`,
since updates of different positions meet in nothing but the length of the queue. With two delays,
two priorities and a limit of two events the run handles a superseded event in the tick of the
one in force and before it, overflows, and drops updates whose node was swapped for another of the same name. Seven values make a heap of three
levels with the last inner entry having one child or two, and let the ordered queue empty and
refill a tick. Three managed paths are a first, a middle and a last one for each loop; two
updates and two crashes let an update start from what a crash left, and fail. Each race of the
launcher is of two calls, and each confusion of its flag of two engines: `launcher_app` has two of
both at every interleaving, up to the moment an update begins; one name besides none, and the release
that is recorded, are two fields to mix. From then on the constraint `MCCalls` follows one call at a time and
neither a death nor what comes of a race, since the update shares nothing with calls but `running`;
that no step of the launcher but the update's own touches the game's files is proved (`ImplementsUpdater`),
and what deaths do to an update is the question of the run `updater`.
Seven messages and twelve numbers let the numbers wrap while packets of before and after the wrap
are both in the window, in the receiver's buffer and late on the wire, with a window and a lifetime
as near to half the number space as `ChannelAssumption` permits. Two peers and two ids give an
id to a successor while the send thread, the receive thread or the server still has the first one's
id or object in hand, and both before and after the server was told that the first one went. The blocks of `MCEmerge` are a chunk of two and a chunk of one, each with a
block of the other in its border, a chunk not fully inside the mapgen limits and a position over
the limit; two threads are in the two chunks, or in the one, at once, while one more block is
asked for, loaded or deleted by the server.
The bounds of the modules that are not the code's own are `MaxTick`, `QueueBound`, `MaxArrived`,
`MaxUpdates`, `MaxCrashes`, `MaxCommands`, `Lifetime`, `Obj`, `Request`, `MaxLookups`, `Deletable`
and `MaxErrors`; the proofs do not depend on their values.

`MCRedstoneQueue` declares symmetry among copies of events, `MCLauncherApp` among threads and
engines, `MCServerClients` among objects, ids and addresses; no run that uses it checks a liveness
property. Deadlock checking is off where a system stops: a launcher that has used up its updates
and crashes, a channel that has delivered its last message, a connection that was closed. The
emerge run checks for deadlock; its threads' end is an explicit stutter (`Terminated`).

## 4. Fairness

- *Scheduler.* Lua runs `tick_step` to its end, so its parts are weakly fair. The engine calls
  the globalstep in every server step, while commands, unloading or a freeze may intervene
  between any two: `GlobalStep` is strongly fair. Players' actions, unloading and restarts have
  no fairness. A server that exceeds its time budget for ever makes no promise, hence
  `WithinBudget` in both properties; so does one that is frozen.
- *Event queue.* None: that its loops end is proved as a bound on their turns.
- *Updater.* The goroutine goes on (`Work`), since the HTTP clients have timeouts and file
  operations return. The launcher may die: `UpdateEnds` says so.
- *Channel.* The send thread loops as long as the connection stands, so numbering, sending and
  resending are weakly fair; a datagram that is sent again and again arrives, so the receipt of a
  packet and of an acknowledgement are strongly fair, each by itself. Taking commands has none.
- *Emerge threads.* A thread that waits for the environment lock or the queue mutex gets it at
  last, and generating ends: each thread's `Run` is weakly fair, and so is `Signal`, the rest of
  a call of the server. The server need not ask, unload or stop.
- *Launcher.* No liveness is claimed; `GameStatusClears` is the safety part (a set flag has a
  goroutine that will clear it), which needs no assumption on when a game ends.

## 5. Proofs

All theorems hold for every value of the constants that satisfies the modules' named
assumptions (`ParameterAssumption`, `NameAssumption`, `CallbackAssumption`, `PrioAssumption`, `AppAssumption`,
`SeqnumAssumption`, `ChannelAssumption`, `PeerAssumption`, `EmergeAssumption`), which TLC evaluates in the runs.

**RedstoneQueueProofs**: `TypeCorrect`, `TableFollowsQueue`, `SwapsOncePerTick`, `EventsOnTime`,
`ClockNeverStallsTwice`, `ReplacedNodeSafe`, and the action properties `ClockIsSteady` and
`BetterPriorityIsKept`. None of the invariants is inductive by itself. `IInv` joins them with:
`Timing` (where `last_tick`, the clock and the events of each kind stand in each phase),
`Stalled` (after a tick that left the clock standing nothing is late), `SwappedOnce` (a position
swapped in this tick has no other update due in it), `Outdated` (an entry outlives the
replacement of its node only where no component stands) and `TimersOfComponents`. One lemma
per action. Three more action properties say why something leaves the scheduler, which is the safety half
of `PendingServed` and `UpdateSettles`: `NoMarkIsLost` (a mark goes with the call of `update`, or at a
restart), `NoEventIsSkipped` (an event is handled, or goes with all others in an overflow or a restart) and
`NoUpdateVanishes` (an update in force is handled, called off by `set_node` or by a better answer, or
forgotten like the events). They use `IInv` for the types and for the priority of an entry.

**EventQueueProofs**: `TypeCorrect`, `HeapIsOrdered`, `Refinement`. Arithmetic of parents and
children is stated as lemmas. `RootIsLeast` is proved by a least counterexample instead of
induction: the least index with an entry less than the root's has a parent that is not less
than it. For the ordered queue the invariant says that the list is sorted without repetition,
that no queue in it is empty, that the values of a queue increase, and that `_size` is the
number of all values.

The heap's loops are also bounded (`SiftsAreBounded`): `SiftLeft` falls with every
turn, from at most the length of the heap in `enqueue` and one more in `heapify`.

**UpdaterProofs**. In two parts. Without any assumption, whatever operations fail, those of the
rollback included: `TypeCorrect`; `SuccessCanBeTrusted`, that an update without an error has
installed the release and nothing else, whatever earlier updates left; `BackupIsComplete`, that the
rollback starts from a complete backup; `GameIsLostByDiscardAlone` and
`LauncherIsLostByRemoveOldAlone`, which name the only step that can lose the old game, or the last
launcher; and `UpdatesAreBounded`, that `StepsLeft`, at most 5 * Len(managedPaths) + 14, falls with
every step of the goroutine (the safety half of `UpdateEnds`). They rest on `InstallInv`, which says
for each phase up to the rollback which paths are where: in the loops those before `idx` have moved
and the others not. Under `"restore" \notin Faults`, the renames of `restoreBackup` succeed, the
invariant goes on through the rollback (`RollbackInv`) and gives `OldGameRecoverable`,
`UpdateIsAllOrNothing` and `LauncherIsKept`. The run `updater_restore` shows that the assumption is
needed for them. Each action has a lemma that serves both parts.

**LauncherAppProofs**: `TypeCorrect` and `GameStatusAlwaysClears` for any number of threads and
engines, the second by following an engine from `StartEngine`, when only its caller knows it, to the
goroutine that waits for it. `ImplementsUpdater` says that every behaviour of the launcher is one
of `Updater`: no call, however calls interleave, touches the game's files but by the update. With it
`UpdateIsSafeInTheLauncher` takes over the theorems of `UpdaterProofs`, which is instantiated like
`Updater` is in the model; `AppAssumption` therefore repeats `Updater`'s conditions on the parameters.
`OneGameButForTheRace` and `NoUpdateUnderAGameButForTheRace` hold for any number of concurrent calls:
while `raced` is not set at most one engine lives, and no update is about to begin under it. `RaceInv` gives the
reason: without a race one call at most is between its check and its act, none while the flag is set,
and every engine either is in the hands of the one that started it or has set the flag.
`launcher_two_games` shows that the race is really there. `LoneSaveIsKept`
says that when no call is saving and the last save neither failed nor met another, the file is the
profile. `SaveInv` follows such a save from the assignment over the marshalled copy and the truncated file
to the write, and a launcher that dies in between to its next start. It says nothing of the
file after a save that failed.

**MtpChannelProofs**: `TypeCorrect`, `TakenInOrder`, `NoPacketLost`, `NumbersInReach` and
`Refinement` (of `FifoLink`), for any size of the number space and of the windows. The
assumptions are those of `ChannelAssumption`: a datagram is not so late that half the number space
was given out meanwhile (`Lifetime`), and a window, or what a long message takes while nothing
waits for an answer, is within half the number space (`Span`). In the code the window is at most 2048 and half the space
32768. `Span` is then 2050, or 1024 and the number of chunks if a message has more than 1,026 of them:
a long message is numbered whole while nothing waits for an answer, whatever the window. So the
assumption says that no message has 31744 chunks (about 15 MB), which the code does not prevent:
`Connection::Send` refuses a message only at some 16 MB. The lemmas on numbers say that `Plus`
wraps, that two packets within half the space of each other are compared as their places are, and
that the code's count across the wrap is off by one and by one only. `IInv` has four named
parts: the sender's (numbers, window, what is queued and sent), the buffers' (sorted, without
repetition, starting at the oldest), the receiver's (what is taken is a prefix of `stream`, what
waits is beyond it), and the acknowledgements' (each is for a packet that arrived). `LinkInv`
adds for the refinement that the chunks of a command lie together in `stream` and that what is
delivered and what waits in `incoming_splits` follow from how much of `stream` was taken. Two theorems
are the safety half of `Delivers`. `NeverStuck`: while a message is undelivered there is a packet due,
awaited or admitted by the window, or a command that can be numbered. `ResentIsAcknowledged`: what is
sent again is acknowledged when it comes, though its number may be far behind the one due. It needs `Span`
to be less than half the number space: at exactly half, and without a wrap between the two,
`seqnum_higher` takes an old packet for a new one. Messages as above leave it room.

**MtpPeersProofs**: `TypeCorrect`, `PeersLiveWhileUsed` and
`PeersGoForCause` of `MtpPeers`, `ClientsAreThePeers` and `DataGoToTheirClient` of `ServerClients`, for any number of peers, ids, addresses and commands. `IInv` joins `Stacks` (a
thread holds helpers of one peer only, and why), `Counts` (a peer's count is the sum of its
occurrences on the three stacks), `Peers` (an object is alive because it is in the table, in use, or in a
thread's hands to be deleted, and only one thread deletes it), `Events` (how far the story of a
peer has been told), `PacketInv` (what the receive thread, the only one that creates, knows of its
packet) and `Causes` (each peer that is being removed, or noted to be, has the id of one that gave
cause). `View` adds for `ServerClients` that the client of an id is its peer's in the table, or that of the peer
whose removal one thread is about to tell, unless the id was given again too early.

**EmergeProofs**: `QueuesInAgreement`, `RequestsInOnePlace` and `RequestsAreServed`, for any number of threads, blocks,
clients and requests, and whatever the server unloads or deletes. `QueueInv` is inductive without a
word about the map. It joins `Queued` (what has an entry is in one queue, once), `CountsRight` and
`Awake` as the run checks them, `Hands` (a thread has a block or callbacks where its place says so) and
`Story` (a request is with the entry of its position, with one thread, or answered). That there is
a shortest queue is proved without induction, from the well-foundedness of finite sets.
`RequestsAreServed` is the safety half of `Answered`: a request without an answer is with a thread that can
take a step, or in the queue of one that will come to it; `ServeInv` adds that a thread with work
queued is awake or signalled, that none ends with work left, and that who holds the mutex goes on.

**EmergeMapProofs**: `TypeCorrect` and `AreaStaysHeld` under `~DeletesHeld`, and `GeneratedOnce` if in
addition a mod deletes whole chunks only (`DeletesWhole`). `emerge_delete` shows that the first is
needed. Whatever is deleted, `OneMakerPerChunk` holds: a deletion breaks the count of references and not
the exclusion of `initBlockMake`. `ChunksAreGivenUpForGood` states what section 6 says of cancelled
chunks: they stay in progress, and so are never made again. `MapInv` counts: a block has as many
references as there are threads in the making of a chunk whose area it is in, none if it is not in
memory; threads in the making have different chunks, all in progress. `FreshInv` adds that a chunk is
generated as a whole, that memory is never behind the disk, and that what a thread has read is what is
on the disk or was deleted there.

## 6. Disagreements between code and text

Each of these three is shown by a run with a trace; `PROJECT.json` quotes the lines.

- A rename that fails in the rollback costs the path its only copy (`updater_restore`).
- Two requests at once start two games (`launcher_two_games`).
- `core.delete_area` on a block of a chunk that is being generated breaks the count of references:
  `finishBlockMake` drops one that the new block does not have (`emerge_delete`).

Met while modelling, and not given a run of their own: `/tick step N` lets N + 1 ticks run. A failed
update leaves paths behind that only the release has. `ApplyUpdate` refuses with "quit the
game before updating" (`launcher/app.go:90`), but a request that starts a game between its check and
`startUpdate` runs a game under the update: this is the case `raced` excludes in `NoUpdateUnlessRaced`. A game
can also be started while an update replaces its files, which nothing in the code refuses. `config.toml`
is not the profile it is said to hold (`launcher/config.go:11`) after a save that failed, whose error all three callers
discard (`launcher/app.go:29`, 56, 77): the old profile stays, or the file is cut short or empty and counts as
a first run at the next start. `deletePeer` tells the server of a removal when the id is free again
(`network/mtp/impl.cpp:1399`): told ADDED, ADDED, REMOVED, the server keeps the old peer's client for the
newcomer, though "the client shouldn't already exist" (`server/clientiface.cpp:862`), and then deletes it. It
takes one random id of some 65000; this is the case `reused` excludes in `ClientsFollowPeers`. Two requests that save at once leave a `config.toml` that is not the profile. A time-out, a
command or a pending disconnect that was noted by id removes the successor of that id.
`Connection::Send` compares a message with half the number space of chunks of 512 bytes while it is
cut into chunks of 495. The comment on removed peers in `network/peerhandler.h` describes an
earlier scheme. A position over the limit that is asked for with a callback never gets it
called, though `doc/lua_api.md` promises a call for each block. A chunk whose generation is
refused by the mapgen limits, or cancelled, stays in `m_chunks_in_progress`: it is never
generated until the next start. `cancelPendingItems` runs callbacks, which take the environment lock,
under `m_queue_mutex`, which the server takes under the environment lock: harmless when the server has
stopped, as at shutdown, but a thread that ends early, on a block it cannot read, does the same.
Deleting one block of a chunk lets the whole chunk, with the blocks that were kept, be generated again.

## 7. What is only model-checked, and what is not modelled

Liveness (`PendingServed`, `UpdateSettles`, `UpdateEnds`, `Delivers`, `Answered`) stays
with TLC: the proof system does not reason about fairness. What a proof can say of them is
proved: the scheduler forgets no mark, event or update, the loops of the queue and the update take a bounded
number of steps, and neither the channel nor the emerge threads come to rest with work left. Every other property of a passing run is a theorem.

Limits of what the properties say. `StepArgs` are whole numbers, while `/tick step` takes fractions, with which
the clock need not stay a whole number. `PendingServed` promises nothing for a mark while in every tick some
callback marks another position during `pairs()`: Lua then leaves the order, and so the mark's turn,
open. `RemovedForCause` admits that a successor goes for what its predecessor did, as the code does.
`ProfileSaved` says nothing of the profile two saves leave that met. A starting game during an
update is not excluded by the code, nor by a property.

Assumptions of `Emerge` that the code does not enforce: a block is not unloaded between a thread's
reading and loading it (the unload timeout is many times longer; `core.clear_objects`, which
unloads whatever has no reference, could come between and have a chunk generated again), and in
the passing run `core.delete_area` deletes only a block that is a chunk of its own, while no
thread holds it.

Not modelled within the modelled components: `logic.lua`'s lookup of power and the comparator
helpers; the Windows branch of `replaceLauncher`, which leaves the swap to a script; the text
of `minetest.conf` in `mergeMinetestConf` (whole or torn is); `iterate` of `queue.lua`, which
the event queue does not use; pings,
unreliable datagrams and the client's side of a connection; blocks that cannot be read, the mapgen's
own environment, lighting and liquids.

Not modelled at all: the engine but for the three parts above (its callbacks of Lua are
environment actions); world generation, mobs, entities and weather (numeric, random, one entity at a time); display, help
and chat; the offline tools. Two hazards are visible in the code as it stands and need no
model: the setting read as `mcl_redstone_max_events` is documented as
`mcl_redstone_event_max`, and the applied release is never recorded after an update.

## 8. Plan

Done: the scheduler and its queues, the launcher and its update, the engine's reliable channels,
its peers and its emerge threads. Next, in this order, the most exposed code first:

0. `ClientStates`: the states of a joining client, composed with `ServerClients`.
1. `Worlds`, composed with `LauncherApp`: concurrent `createWorld` and `deleteWorld` against a
   game in play and a launcher that dies. Abstract specification: a map from names to whole
   worlds. Properties: a created world is its creator's alone, a failed creation takes nothing
   with it, no torn world is listed.
2. `Companion`: mod, pid file, session, reader, parent watch, signals. Properties: frames do
   not interleave, at most one companion outlives a start, a stopped one stops.
3. `Scares`: credits, targets, the life of a scare, `/scare`. Properties: every started scare
   is finished, a player meets one in bounded time.
4. `RedstoneCircuit`: `RedstoneQueue` with repeaters, torches (with their burnout table) and
   lamps for parameters. Properties: a pulse is not lost, a burnt-out torch recovers, a lamp
   follows its input.
5. `RedstoneObserver` on the same base: pulses are not doubled and flags do not stick.
6. `RingBuffer` with its cache in node metadata, against a list of the newest entries.
7. `WirePower`: propagation on small grids against a fixpoint, as functions.
8. `ConfMerge`, `Pistons`, hoppers and furnaces.

Theorems: type correctness and the safety of `Worlds` and `Scares`; `Emerge` as an implementation of an
abstract service of requests; `RedstoneQueue` with an abstract queue by way of `PriorityQueue`; an inductive invariant for the observer's flag.
