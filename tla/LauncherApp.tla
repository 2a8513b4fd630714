---------------------------- MODULE LauncherApp ----------------------------
(***************************************************************************)
(* The launcher's process: the methods of App (launcher/app.go) that the   *)
(* frontend calls, each HTTP request on a goroutine of its own, the engine *)
(* processes of launch.go, and config.toml. The update that ApplyUpdate    *)
(* starts is the goroutine of the module Updater, composed here.           *)
(*                                                                         *)
(* App.cfg has no lock. A Go string is two words: while one goroutine      *)
(* assigns it another may read words of two values, here Garbled.          *)
(*                                                                         *)
(* save may fail at the open or in the write; its callers ignore that.     *)
(* Left out: the worlds.                                                   *)
(***************************************************************************)
EXTENDS Integers, Sequences, FiniteSets

CONSTANTS
  managedPaths, Required, Faults, None, Torn, MaxUpdates, MaxCrashes,  \* of Updater
  Bin,       \* the managed path of the engine
  Thread,    \* goroutines that serve requests
  Engine,    \* bound: engine processes at one time
  Nick,      \* player names
  Garbled,   \* a string made of two
  Empty,     \* config.toml just truncated
  Corrupt    \* config.toml with the end of another version of it

VARIABLES
  phase, idx, err, running, failed, root, staging, backup, conf, local, launcher,
  launcher_old, staged_launcher, release, archive, archive_launcher, crashes, before,
  before_launcher,  \* all of Updater
  op,               \* the method each goroutine is in
  at,               \* its next step, "none" without a call
  arg,              \* the string it is about to store in cfg, None when it has
  data,             \* what save marshalled and has yet to write
  cfg,              \* App.cfg: nick and version
  file,             \* config.toml
  gameRunning,      \* launch.go
  engine,           \* "none", "running", "exited" or "orphan" (its launcher is gone)
  mine,             \* the engine a call of startGame has started and not marked
  waiting,          \* engines whose cmd.Wait has been called
  raced,            \* history: a call passed its check while another had passed and not acted
  unsaved           \* history: the last save failed or met another

U == INSTANCE Updater

update == <<phase, idx, err, running, failed, root, staging, backup, conf, local, launcher,
            launcher_old, staged_launcher, release, archive, archive_launcher, crashes,
            before, before_launcher>>
calls == <<op, at, arg, data>>
games == <<gameRunning, engine, mine, waiting>>
history == <<raced, unsaved>>
vars == <<update, calls, cfg, file, games, history>>

Config == [nick : Nick \cup {None, Garbled}, version : U!Release \cup {None, Garbled}]
FirstRun == [nick |-> None, version |-> None]

ASSUME AppAssumption ==
  /\ managedPaths \in Seq(U!Path)
  /\ \A i, j \in DOMAIN managedPaths : managedPaths[i] = managedPaths[j] => i = j
  /\ Required \subseteq U!Path /\ Faults \subseteq U!Fault
  /\ MaxUpdates \in Nat /\ MaxCrashes \in Nat
  /\ None \notin U!Release /\ Torn \notin U!Release /\ None # Torn
  /\ Bin \in U!Path
  /\ {Empty, Corrupt} \cap Config = {}

Init ==
  /\ U!Init
  /\ op = [t \in Thread |-> "none"] /\ at = [t \in Thread |-> "none"]
  /\ arg = [t \in Thread |-> None] /\ data = [t \in Thread |-> FirstRun]
  /\ cfg = FirstRun /\ file = FirstRun
  /\ gameRunning = FALSE
  /\ engine = [e \in Engine |-> "none"] /\ mine = [t \in Thread |-> None] /\ waiting = {}
  /\ raced = FALSE /\ unsaved = FALSE

Alive == phase # "dead"
Goto(t, a) == at' = [at EXCEPT ![t] = a]
ReturnFrom(t) == Goto(t, "none")

Started(e) == engine[e] \in {"running", "exited"}

\* The call has found no game running, and has not started its own or the update.
Between(t) == at[t] \in {"start", "mark", "update"}
Passed(t) == raced' = ((raced /\ \E e \in Engine : Started(e)) \/ \E u \in Thread \ {t} : Between(u))

\* The call has begun to change cfg, and has not written it.
Saving(t) == at[t] \in {"assigned", "marshal", "truncate", "write"}

-----------------------------------------------------------------------------
(* The calls of the frontend, and the errors that end them before they do a thing *)

Call(t, method, first, string) ==
  /\ Alive
  /\ at[t] = "none"
  /\ op' = [op EXCEPT ![t] = method]
  /\ arg' = [arg EXCEPT ![t] = string]
  /\ Goto(t, first)
  /\ UNCHANGED <<update, data, cfg, file, games, history>>

SetNick(t) == \E n \in Nick : Call(t, "SetNick", "assign", n)
LaunchGame(t) == \E n \in Nick : Call(t, "LaunchGame", "assign", n)
CheckForUpdate(t) == Call(t, "CheckForUpdate", "ask", None)
ApplyUpdate(t) == Call(t, "ApplyUpdate", "status", None)

\* checkForUpdate: GitHub does not answer, or names the release that was the latest at the
\* last update or one after it. The first answer is recorded.
Ask(t) ==
  /\ Alive
  /\ at[t] = "ask"
  /\ \/ ReturnFrom(t) /\ UNCHANGED arg
     \/ /\ cfg.version = None
        /\ \E latest \in {release, release + 1} \cap U!Release : arg' = [arg EXCEPT ![t] = latest]
        /\ Goto(t, "assign")
  /\ UNCHANGED <<update, op, data, cfg, file, games, history>>

Field(t) == IF op[t] = "CheckForUpdate" THEN "version" ELSE "nick"

\* An assignment to cfg begins ...
AssignFirst(t) ==
  /\ Alive
  /\ at[t] = "assign"
  /\ cfg' = [cfg EXCEPT ![Field(t)] = Garbled]
  /\ unsaved' = \E u \in Thread \ {t} : Saving(u)
  /\ Goto(t, "assigned")
  /\ UNCHANGED <<update, op, arg, data, file, games, raced>>

\* ... and ends; a second one under way at the same field may mix with it.
AssignSecond(t) ==
  /\ Alive
  /\ at[t] = "assigned"
  /\ \/ cfg' = [cfg EXCEPT ![Field(t)] = arg[t]]
     \/ /\ \E u \in Thread \ {t} : at[u] = "assigned" /\ Field(u) = Field(t)
        /\ cfg' = [cfg EXCEPT ![Field(t)] = Garbled]
  /\ arg' = [arg EXCEPT ![t] = None]
  /\ Goto(t, "marshal")
  /\ UNCHANGED <<update, op, data, file, games, history>>

\* Mutant: the file is saved before the field is assigned.
MarshalEarly(t) ==
  /\ Alive
  /\ at[t] \in {"assign", "marshal"}
  /\ data' = [data EXCEPT ![t] = cfg]
  /\ Goto(t, "truncate")
  /\ cfg' = [cfg EXCEPT ![Field(t)] = IF at[t] = "assign" THEN arg[t] ELSE @]
  /\ UNCHANGED <<update, op, arg, file, games, history>>

\* Config.save: Marshal, then os.WriteFile, which truncates and writes.
Marshal(t) ==
  /\ Alive
  /\ at[t] = "marshal"
  /\ data' = [data EXCEPT ![t] = cfg]
  /\ Goto(t, "truncate")
  /\ UNCHANGED <<update, op, arg, cfg, file, games, history>>

\* Where the caller goes on, whether save failed or not
AfterSave(t) == IF op[t] = "LaunchGame" THEN "check" ELSE "none"

\* The open fails, and leaves the file as it was, or empties it.
Truncate(t) ==
  /\ Alive
  /\ at[t] = "truncate"
  /\ \/ /\ unsaved' = TRUE
        /\ data' = [data EXCEPT ![t] = FirstRun]
        /\ Goto(t, AfterSave(t))
        /\ UNCHANGED file
     \/ file' = Empty /\ Goto(t, "write") /\ UNCHANGED <<data, unsaved>>
  /\ UNCHANGED <<update, op, arg, cfg, games, raced>>

\* What a write that fails (the disk is full) leaves: nothing new, the line of the nick, or
\* what is no TOML.
Part(t) == {file, [data[t] EXCEPT !.version = None], Corrupt}

\* Over what another goroutine has written since, the end of a longer file stays.
Write(t) ==
  /\ Alive
  /\ at[t] = "write"
  /\ \/ file' = data[t] /\ UNCHANGED unsaved
     \/ file \notin {Empty, data[t]} /\ file' = Corrupt /\ UNCHANGED unsaved
     \/ file' \in Part(t) /\ unsaved' = TRUE
  /\ data' = [data EXCEPT ![t] = FirstRun]
  /\ Goto(t, AfterSave(t))
  /\ UNCHANGED <<update, op, arg, cfg, games, raced>>

-----------------------------------------------------------------------------
(* startGame *)

\* Mutant: the lock is taken, the flag is not looked at.
CheckRunningLax(t) ==
  /\ Alive
  /\ at[t] = "check"
  /\ Goto(t, "start") /\ Passed(t)
  /\ UNCHANGED <<update, op, arg, data, cfg, file, games, unsaved>>

\* The mutex is given back before the engine is started.
CheckRunning(t) ==
  /\ Alive
  /\ at[t] = "check"
  /\ \/ gameRunning /\ ReturnFrom(t) /\ UNCHANGED raced
     \/ ~gameRunning /\ Goto(t, "start") /\ Passed(t)
  /\ UNCHANGED <<update, op, arg, data, cfg, file, games, unsaved>>

\* cmd.Start
StartEngine(t) ==
  /\ Alive
  /\ at[t] = "start"
  /\ \/ /\ root[Bin] # None
        /\ \E e \in Engine :
             /\ engine[e] = "none"
             /\ engine' = [engine EXCEPT ![e] = "running"]
             /\ mine' = [mine EXCEPT ![t] = e]
        /\ Goto(t, "mark")
     \/ ReturnFrom(t) /\ UNCHANGED <<engine, mine>>
  /\ UNCHANGED <<update, op, arg, data, cfg, file, gameRunning, waiting, history>>

\* gameRunning is set, and a goroutine waits for the end of the process.
MarkRunning(t) ==
  /\ Alive
  /\ at[t] = "mark"
  /\ gameRunning' = TRUE
  /\ waiting' = waiting \cup {mine[t]}
  /\ mine' = [mine EXCEPT ![t] = None]
  /\ ReturnFrom(t)
  /\ UNCHANGED <<update, op, arg, data, cfg, file, engine, history>>

\* The player quits, or the engine crashes.
EngineExits(e) ==
  /\ \/ engine[e] = "running" /\ engine' = [engine EXCEPT ![e] = "exited"]
     \/ engine[e] = "orphan" /\ engine' = [engine EXCEPT ![e] = "none"]
  /\ UNCHANGED <<update, calls, cfg, file, gameRunning, mine, waiting, history>>

\* Mutant: the goroutine ends without a word when the engine ended with an error.
ReapLax(e) ==
  /\ Alive
  /\ e \in waiting /\ engine[e] = "exited"
  /\ gameRunning' \in {gameRunning, FALSE}
  /\ waiting' = waiting \ {e}
  /\ engine' = [engine EXCEPT ![e] = "none"]
  /\ UNCHANGED <<update, calls, cfg, file, mine, history>>

\* cmd.Wait returns.
Reap(e) ==
  /\ Alive
  /\ e \in waiting /\ engine[e] = "exited"
  /\ gameRunning' = FALSE
  /\ waiting' = waiting \ {e}
  /\ engine' = [engine EXCEPT ![e] = "none"]
  /\ UNCHANGED <<update, calls, cfg, file, mine, history>>

-----------------------------------------------------------------------------
(* ApplyUpdate and the update *)

\* Mutant: the game may run.
CheckStatusLax(t) ==
  /\ Alive
  /\ at[t] = "status"
  /\ Goto(t, "update") /\ Passed(t)
  /\ UNCHANGED <<update, op, arg, data, cfg, file, games, unsaved>>

CheckStatus(t) ==
  /\ Alive
  /\ at[t] = "status"
  /\ \/ gameRunning /\ ReturnFrom(t) /\ UNCHANGED raced
     \/ ~gameRunning /\ Goto(t, "update") /\ Passed(t)
  /\ UNCHANGED <<update, op, arg, data, cfg, file, games, unsaved>>

StartUpdate(t) ==
  /\ at[t] = "update"
  /\ \/ U!StartUpdate
     \/ Alive /\ (running \/ release = MaxUpdates) /\ UNCHANGED update
  /\ ReturnFrom(t)
  /\ UNCHANGED <<op, arg, data, cfg, file, games, history>>

\* The goroutine of runUpdate takes a step; nothing is told to cfg when it is done.
Update ==
  /\ U!Work
  /\ UNCHANGED <<calls, cfg, file, games, history>>

-----------------------------------------------------------------------------
(* The process *)

\* The window is closed, or the process killed; engines live on.
Quit ==
  /\ U!Crash
  /\ op' = [t \in Thread |-> "none"] /\ at' = [t \in Thread |-> "none"]
  /\ arg' = [t \in Thread |-> None] /\ data' = [t \in Thread |-> FirstRun]
  /\ mine' = [t \in Thread |-> None]
  /\ gameRunning' = FALSE /\ waiting' = {}
  /\ engine' = [e \in Engine |-> CASE engine[e] = "running" -> "orphan"
                                   [] engine[e] = "exited" -> "none"
                                   [] OTHER -> engine[e]]
  /\ raced' = FALSE
  /\ UNCHANGED <<cfg, file, unsaved>>

\* Mutant: a file that cannot be parsed is taken as it is.
LoadRaw(f) == f

\* loadConfig; what cannot be parsed counts as empty.
Load(f) == IF f \in {Empty, Corrupt} THEN FirstRun ELSE f

Start ==
  /\ U!StartLauncher
  /\ cfg' = Load(file)
  /\ unsaved' = FALSE
  /\ UNCHANGED <<calls, file, games, raced>>

Step(t) ==
  \/ SetNick(t) \/ LaunchGame(t) \/ CheckForUpdate(t) \/ ApplyUpdate(t)
  \/ Ask(t) \/ AssignFirst(t) \/ AssignSecond(t) \/ Marshal(t) \/ Truncate(t) \/ Write(t)
  \/ CheckRunning(t) \/ StartEngine(t) \/ MarkRunning(t) \/ CheckStatus(t) \/ StartUpdate(t)

Next == (\E t \in Thread : Step(t)) \/ (\E e \in Engine : EngineExits(e) \/ Reap(e))
          \/ Update \/ Quit \/ Start

Spec == Init /\ [][Next]_vars

-----------------------------------------------------------------------------
(* Properties *)

\* Every variable stays in its range.
TypeOK ==
  /\ U!TypeOK
  /\ op \in [Thread -> {"none", "SetNick", "LaunchGame", "CheckForUpdate", "ApplyUpdate"}]
  /\ at \in [Thread -> {"none", "ask", "assign", "assigned", "marshal", "truncate", "write",
                        "check", "start", "mark", "status", "update"}]
  /\ arg \in [Thread -> Nick \cup U!Release \cup {None}]
  /\ data \in [Thread -> Config]
  /\ cfg \in Config /\ file \in Config \cup {Empty, Corrupt}
  /\ gameRunning \in BOOLEAN
  /\ engine \in [Engine -> {"none", "running", "exited", "orphan"}]
  /\ mine \in [Thread -> Engine \cup {None}]
  /\ waiting \subseteq Engine
  /\ raced \in BOOLEAN /\ unsaved \in BOOLEAN

\* Whatever is called, started or closed beside it, the update is the updater's: nothing else
\* touches the game or the launcher's files, and one update runs at a time.
UpdaterSpec == U!Spec

\* The launcher is never locked out of starting a game or an update: when gameRunning is
\* set, a goroutine is still to clear it, however many games overlapped.
GameStatusClears == gameRunning => \E e \in waiting : Started(e)

\* startGame's "game is already running": this launcher has one engine running at most.
OneGame == Cardinality({e \in Engine : engine[e] = "running"}) <= 1

\* ApplyUpdate's "quit the game before updating": no call is about to start the update while
\* a game of this launcher runs.
NoUpdateUnderGame == \A t \in Thread : at[t] = "update" => \A e \in Engine : engine[e] # "running"

\* The one way to two games is two calls at once between the check of launch.go and its act,
\* and it is over when their engines are: the next call that passes finds the guard whole.
OneGameUnlessRaced == ~raced => OneGame

\* So it is for an update under a game, with the check of ApplyUpdate and its act.
NoUpdateUnlessRaced == ~raced => NoUpdateUnderGame

\* Config: "persisted next to the launcher as config.toml". As the callers discard the error of
\* save this fails after some calls; but whatever other saves met or failed before, and wherever
\* the launcher died, the file is the profile in memory again once a save met no other and did
\* not fail.
ProfileSaved ==
  Alive /\ (\A t \in Thread : ~Saving(t)) /\ ~unsaved => Load(file) = cfg
=============================================================================
