------------------------- MODULE LauncherAppProofs -------------------------
(***************************************************************************)
(* The launcher's game status always clears, for any number of goroutines  *)
(* and engines: the race of startGame, which lets two games start, cannot  *)
(* leave the flag set with no goroutine to reset it.                       *)
(*                                                                         *)
(* The invariant follows an engine from cmd.Start, when only its caller    *)
(* knows it, to the goroutine that waits for it.                           *)
(*                                                                         *)
(* The launcher is an updater beside all else it does: a step of it is one *)
(* of the updater or none (ImplementsUpdater), so what UpdaterProofs shows *)
(* of every updater, its types first, is cited here.                       *)
(*                                                                         *)
(* However many goroutines serve requests, two games, or an update under a *)
(* game, come from one race only, two calls between check and act at once  *)
(* (RaceInv), and a save that meets no other and does not fail leaves the  *)
(* profile in config.toml, whatever saves before it did (SaveInv).         *)
(***************************************************************************)
EXTENDS LauncherApp, FiniteSetTheorems, TLAPS

UP == INSTANCE UpdaterProofs

Shape ==
  /\ at \in [Thread -> {"none", "ask", "assign", "assigned", "marshal", "truncate", "write",
                        "check", "start", "mark", "status", "update"}]
  /\ engine \in [Engine -> {"none", "running", "exited", "orphan"}]
  /\ mine \in [Thread -> Engine \cup {None}]
  /\ waiting \subseteq Engine

\* What a goroutine has started and not yet marked is its own, and nobody waits for it.
MineInv ==
  \A t \in Thread :
    at[t] = "mark" =>
      /\ mine[t] \in Engine /\ Started(mine[t]) /\ mine[t] \notin waiting
      /\ \A u \in Thread \ {t} : at[u] = "mark" => mine[u] # mine[t]

WaitInv == (\A e \in waiting : Started(e)) /\ (gameRunning => waiting # {})

StatusInv == Shape /\ MineInv /\ WaitInv

LEMMA InitStatus == Init => StatusInv
  BY DEF Init, StatusInv, Shape, MineInv, WaitInv

\* A step that leaves the games alone, and moves one goroutine elsewhere than to "mark".
LEMMA QuietStep ==
  ASSUME StatusInv, UNCHANGED games, NEW t \in Thread,
         NEW a \in {"none", "ask", "assign", "assigned", "marshal", "truncate", "write",
                    "check", "start", "status", "update"},
         Goto(t, a)
  PROVE  StatusInv'
  BY DEF StatusInv, Shape, MineInv, WaitInv, Started, games, Goto

LEMMA StartStep ==
  ASSUME StatusInv, NEW t \in Thread, StartEngine(t)
  PROVE  StatusInv'
<1>1. CASE UNCHANGED <<engine, mine>> /\ ReturnFrom(t)
  BY <1>1, QuietStep DEF StartEngine, games, ReturnFrom
<1>2. CASE ~(UNCHANGED <<engine, mine>> /\ ReturnFrom(t))
  <2>1. PICK e \in Engine : /\ engine[e] = "none"
                            /\ engine' = [engine EXCEPT ![e] = "running"]
                            /\ mine' = [mine EXCEPT ![t] = e]
                            /\ Goto(t, "mark")
    BY <1>2 DEF StartEngine
  <2>2. UNCHANGED <<gameRunning, waiting>>
    BY DEF StartEngine
  <2>3. e \notin waiting /\ \A u \in Thread : at[u] = "mark" => mine[u] # e
    BY <2>1 DEF StatusInv, WaitInv, MineInv, Started
  <2>4. Shape'
    BY <2>1, <2>2 DEF StatusInv, Shape, Goto
  <2>5. WaitInv'
    BY <2>1, <2>2 DEF StatusInv, Shape, WaitInv, Started
  <2>6. MineInv'
    BY <2>1, <2>2, <2>3 DEF StatusInv, Shape, MineInv, Started, Goto
  <2>. QED
    BY <2>4, <2>5, <2>6 DEF StatusInv
<1>. QED
  BY <1>1, <1>2

LEMMA MarkStep ==
  ASSUME StatusInv, NEW t \in Thread, MarkRunning(t)
  PROVE  StatusInv'
  BY DEF MarkRunning, ReturnFrom, Goto, StatusInv, Shape, MineInv, WaitInv, Started

LEMMA ExitStep ==
  ASSUME StatusInv, NEW e \in Engine, EngineExits(e)
  PROVE  StatusInv'
  BY DEF EngineExits, calls, StatusInv, Shape, MineInv, WaitInv, Started

LEMMA ReapStep ==
  ASSUME StatusInv, NEW e \in Engine, Reap(e)
  PROVE  StatusInv'
  BY DEF Reap, calls, StatusInv, Shape, MineInv, WaitInv, Started

LEMMA QuitStep ==
  ASSUME StatusInv, Quit
  PROVE  StatusInv'
  BY DEF Quit, StatusInv, Shape, MineInv, WaitInv, Started

LEMMA CallStep ==
  ASSUME StatusInv, NEW t \in Thread,
         SetNick(t) \/ LaunchGame(t) \/ CheckForUpdate(t) \/ ApplyUpdate(t)
  PROVE  StatusInv'
<1>1. UNCHANGED games /\ \E a \in {"assign", "ask", "status"} : Goto(t, a)
  BY DEF SetNick, LaunchGame, CheckForUpdate, ApplyUpdate, Call
<1>. QED
  BY <1>1, QuietStep

LEMMA SaveStep ==
  ASSUME StatusInv, NEW t \in Thread,
         Ask(t) \/ AssignFirst(t) \/ AssignSecond(t) \/ Marshal(t) \/ Truncate(t) \/ Write(t)
  PROVE  StatusInv'
<1>1. UNCHANGED games
  BY DEF Ask, AssignFirst, AssignSecond, Marshal, Truncate, Write
<1>2. \E a \in {"none", "assign", "assigned", "marshal", "truncate", "write", "check"} : Goto(t, a)
  BY DEF Ask, AssignFirst, AssignSecond, Marshal, Truncate, Write, ReturnFrom, AfterSave
<1>. QED
  BY <1>1, <1>2, QuietStep

LEMMA CheckStep ==
  ASSUME StatusInv, NEW t \in Thread, CheckRunning(t) \/ CheckStatus(t) \/ StartUpdate(t)
  PROVE  StatusInv'
<1>1. UNCHANGED games /\ \E a \in {"none", "start", "update"} : Goto(t, a)
  BY DEF CheckRunning, CheckStatus, StartUpdate, ReturnFrom
<1>. QED
  BY <1>1, QuietStep

LEMMA ProcessStep ==
  ASSUME StatusInv, Update \/ Start \/ UNCHANGED vars
  PROVE  StatusInv'
<1>1. UNCHANGED <<calls, games>>
  BY DEF Update, Start, vars
<1>. QED
  BY <1>1 DEF calls, games, StatusInv, Shape, MineInv, WaitInv, Started

LEMMA NextStatus == StatusInv /\ [Next]_vars => StatusInv'
<1>. SUFFICES ASSUME StatusInv, [Next]_vars PROVE StatusInv'
  OBVIOUS
<1>1. ASSUME NEW t \in Thread, Step(t) PROVE StatusInv'
  BY <1>1, CallStep, SaveStep, CheckStep, StartStep, MarkStep DEF Step
<1>2. ASSUME NEW e \in Engine, EngineExits(e) \/ Reap(e) PROVE StatusInv'
  BY <1>2, ExitStep, ReapStep
<1>. QED
  BY <1>1, <1>2, QuitStep, ProcessStep DEF Next

-----------------------------------------------------------------------------
\* gameStatus does not stay "running" when the last engine is gone, for any number of
\* goroutines in startGame at once.
THEOREM GameStatusAlwaysClears == Spec => []GameStatusClears
<1>1. StatusInv => GameStatusClears
  BY DEF StatusInv, WaitInv, Started, GameStatusClears
<1>2. StatusInv /\ [Next]_vars => StatusInv'
  BY NextStatus
<1>. QED
  BY <1>1, <1>2, InitStatus, PTL DEF Spec

-----------------------------------------------------------------------------
(* The updater in the launcher *)

LEMMA Parameters == UP!ParameterAssumption
BY AppAssumption DEF UP!ParameterAssumption, UP!Path, UP!Fault, UP!Release, U!Path, U!Fault,
   U!Release

LEMMA SameTypes == UP!TypeOK <=> U!TypeOK
BY DEF UP!TypeOK, U!TypeOK, UP!More, U!More, UP!Path, U!Path, UP!Content, U!Content,
   UP!Release, U!Release

LEMMA SameInit == U!Init => UP!Init
BY DEF U!Init, UP!Init, U!Path, UP!Path, U!Nothing, UP!Nothing

LEMMA SameStartUpdate == U!StartUpdate => UP!StartUpdate
BY DEF U!StartUpdate, UP!StartUpdate, U!Path, UP!Path, U!game, UP!game, U!settings, UP!settings,
   U!launchers, UP!launchers

LEMMA SameWork == U!Work => UP!Work
<1>. USE DEF U!game, UP!game, U!settings, UP!settings, U!launchers, UP!launchers, U!latest,
     UP!latest, U!history, UP!history, U!p, UP!p, U!More, UP!More, U!Return, UP!Return,
     U!Nothing, UP!Nothing, U!Path, UP!Path
<1>1. /\ (U!Download => UP!Download) /\ (U!Extract => UP!Extract)
      /\ (U!MergeConf => UP!MergeConf) /\ (U!WriteConf => UP!WriteConf)
  BY DEF U!Download, UP!Download, U!Extract, UP!Extract, U!MergeConf, UP!MergeConf,
     U!WriteConf, UP!WriteConf
<1>2. /\ (U!Backup => UP!Backup) /\ (U!EndBackup => UP!EndBackup)
      /\ (U!CopyTree => UP!CopyTree) /\ (U!CopyFile => UP!CopyFile) /\ (U!EndCopy => UP!EndCopy)
  BY DEF U!Backup, UP!Backup, U!EndBackup, UP!EndBackup, U!CopyTree, UP!CopyTree,
     U!CopyFile, UP!CopyFile, U!EndCopy, UP!EndCopy
<1>3. /\ (U!RemoveOld => UP!RemoveOld) /\ (U!RenameOut => UP!RenameOut)
      /\ (U!RenameIn => UP!RenameIn) /\ (U!RemoveNew => UP!RemoveNew)
  BY DEF U!RemoveOld, UP!RemoveOld, U!RenameOut, UP!RenameOut, U!RenameIn, UP!RenameIn,
     U!MovedIn, UP!MovedIn, U!RemoveNew, UP!RemoveNew
<1>4. /\ (U!Unstage => UP!Unstage) /\ (U!Restore => UP!Restore) /\ (U!PutBack => UP!PutBack)
      /\ (U!EndRestore => UP!EndRestore) /\ (U!Discard => UP!Discard) /\ (U!Finish => UP!Finish)
  BY DEF U!Unstage, UP!Unstage, U!Restore, UP!Restore, U!PutBack, UP!PutBack,
     U!EndRestore, UP!EndRestore, U!Discard, UP!Discard, U!Finish, UP!Finish
<1>. QED
  BY <1>1, <1>2, <1>3, <1>4 DEF U!Work, UP!Work

LEMMA SameProcess == /\ (U!Crash => UP!Crash)
                     /\ (U!StartLauncher => UP!StartLauncher)
BY DEF U!Crash, UP!Crash, U!StartLauncher, UP!StartLauncher, U!game, UP!game, U!settings,
   UP!settings, U!launchers, UP!launchers, U!latest, UP!latest, U!history, UP!history

\* A step of a goroutine is a step of the updater when it starts an update.
LEMMA CallsLeaveUpdate ==
  ASSUME NEW t \in Thread, Step(t), ~StartUpdate(t)
  PROVE  UNCHANGED update
BY DEF Step, SetNick, LaunchGame, CheckForUpdate, ApplyUpdate, Call, Ask, AssignFirst,
   AssignSecond, Marshal, Truncate, Write, CheckRunning, StartEngine, MarkRunning, CheckStatus

LEMMA UpdaterSteps == [Next]_vars => [U!Next]_(U!vars)
<1>. SUFFICES ASSUME [Next]_vars, ~UNCHANGED update PROVE U!Next
  BY DEF update, U!vars, U!game, U!settings, U!launchers, U!latest, U!history
<1>1. ASSUME NEW t \in Thread, Step(t) PROVE U!StartUpdate
  BY <1>1, CallsLeaveUpdate DEF StartUpdate
<1>2. \A e \in Engine : ~EngineExits(e) /\ ~Reap(e)
  BY DEF EngineExits, Reap
<1>3. ~UNCHANGED vars
  BY DEF vars
<1>. QED
  BY <1>1, <1>2, <1>3 DEF Next, Update, Quit, Start, U!Next

\* Whatever the frontend calls, however the calls interleave and whenever the launcher dies,
\* the update is the updater's: no other step touches the game or the launcher's files.
THEOREM ImplementsUpdater == Spec => UpdaterSpec
<1>1. Init => U!Init
  BY DEF Init
<1>. QED
  BY <1>1, UpdaterSteps, PTL DEF Spec, UpdaterSpec, U!Spec

LEMMA AnUpdater == Spec => UP!Spec
<1>1. [U!Next]_(U!vars) => [UP!Next]_(UP!vars)
  <2>1. UNCHANGED U!vars => UNCHANGED UP!vars
    BY DEF U!vars, U!game, U!settings, U!launchers, U!latest, U!history, UP!vars, UP!game,
       UP!settings, UP!launchers, UP!latest, UP!history
  <2>. QED
    BY <2>1, SameStartUpdate, SameWork, SameProcess DEF U!Next, UP!Next
<1>. QED
  BY <1>1, ImplementsUpdater, SameInit, PTL DEF UpdaterSpec, U!Spec, UP!Spec

LEMMA UpdaterTypes == Spec => []U!TypeOK
BY Parameters, UP!TypeCorrect, AnUpdater, SameTypes, PTL

\* The guarantees of the update, in the launcher.
THEOREM UpdateIsSafeInTheLauncher ==
  ASSUME "restore" \notin Faults
  PROVE  Spec => [](U!Recoverable /\ U!AllOrNothing /\ U!LauncherKept)
<1>1. UP!Spec => []UP!Recoverable
  BY Parameters, UP!OldGameRecoverable
<1>2. UP!Spec => []UP!AllOrNothing
  BY Parameters, UP!UpdateIsAllOrNothing
<1>3. UP!Spec => []UP!LauncherKept
  BY Parameters, UP!LauncherIsKept
<1>4. UP!Recoverable /\ UP!AllOrNothing /\ UP!LauncherKept
        => U!Recoverable /\ U!AllOrNothing /\ U!LauncherKept
  BY DEF UP!Recoverable, UP!AllOrNothing, UP!LauncherKept, U!Recoverable, U!AllOrNothing,
     U!LauncherKept, UP!Path, U!Path
<1>. QED
  BY <1>1, <1>2, <1>3, <1>4, AnUpdater, PTL

-----------------------------------------------------------------------------
(* The types *)

Methods == {"none", "SetNick", "LaunchGame", "CheckForUpdate", "ApplyUpdate"}
Strings(method) == {None} \cup (IF method = "CheckForUpdate" THEN U!Release ELSE Nick)

TypeConfig ==
  /\ op \in [Thread -> Methods]
  /\ arg \in [Thread -> Nick \cup U!Release \cup {None}]
  /\ \A t \in Thread : arg[t] \in Strings(op[t]) /\ (at[t] = "ask" => op[t] = "CheckForUpdate")
  /\ data \in [Thread -> Config]
  /\ cfg \in Config /\ file \in Config \cup {Empty, Corrupt}

LEMMA ConfigTypes ==
  /\ FirstRun \in Config /\ FirstRun.nick = None
  /\ \A c \in Config, n \in Nick \cup {None, Garbled} : [c EXCEPT !["nick"] = n] \in Config
  /\ \A c \in Config, v \in U!Release \cup {None, Garbled} : [c EXCEPT !["version"] = v] \in Config
BY DEF FirstRun, Config

LEMMA LoadConfig ==
  /\ \A c \in Config : Load(c) = c
  /\ \A f \in Config \cup {Empty, Corrupt} : Load(f) \in Config
BY AppAssumption, ConfigTypes DEF Load

LEMMA AtMoves ==
  ASSUME Shape, NEW t \in Thread, NEW a, Goto(t, a)
  PROVE  at'[t] = a /\ \A u \in Thread : u # t => at'[u] = at[u]
BY DEF Shape, Goto

LEMMA CallTypes ==
  ASSUME Shape, TypeConfig, NEW t \in Thread,
         SetNick(t) \/ LaunchGame(t) \/ CheckForUpdate(t) \/ ApplyUpdate(t)
  PROVE  TypeConfig'
<1>1. PICK method \in Methods : \E first \in {"assign", "ask", "status"} : \E string \in Strings(method) :
        Call(t, method, first, string) /\ (first = "ask" => method = "CheckForUpdate")
  BY DEF SetNick, LaunchGame, CheckForUpdate, ApplyUpdate, Methods, Strings
<1>2. PICK first \in {"assign", "ask", "status"} : \E string \in Strings(method) :
        Call(t, method, first, string) /\ (first = "ask" => method = "CheckForUpdate")
  BY <1>1
<1>3. PICK string \in Strings(method) : Call(t, method, first, string)
  BY <1>2
<1>4. UNCHANGED <<cfg, file, data>>
  BY <1>3 DEF Call
<1>5. /\ op'[t] = method /\ arg'[t] = string /\ at'[t] = first
      /\ \A u \in Thread : u # t => op'[u] = op[u] /\ arg'[u] = arg[u] /\ at'[u] = at[u]
      /\ op' \in [Thread -> Methods] /\ arg' \in [Thread -> Nick \cup U!Release \cup {None}]
  <2>1. string \in Nick \cup U!Release \cup {None}
    BY DEF Strings
  <2>. QED
    BY <1>3, <2>1, AtMoves DEF Call, TypeConfig
<1>. QED
  BY <1>2, <1>4, <1>5 DEF TypeConfig

LEMMA AskTypes ==
  ASSUME Shape, TypeConfig, NEW t \in Thread, Ask(t)
  PROVE  TypeConfig'
<1>1. UNCHANGED <<op, cfg, file, data>> /\ at[t] = "ask"
  BY DEF Ask
<1>2. PICK a \in {"none", "assign"} : Goto(t, a) /\ (arg' = arg \/ \E latest \in U!Release : arg' = [arg EXCEPT ![t] = latest])
  BY DEF Ask, ReturnFrom
<1>. QED
  BY <1>1, <1>2, AtMoves DEF TypeConfig, Strings

\* A local of one goroutine is set.
LEMMA SetLocal ==
  ASSUME TypeConfig, NEW t \in Thread
  PROVE  /\ LET a == [arg EXCEPT ![t] = None]
            IN  /\ a \in [Thread -> Nick \cup U!Release \cup {None}]
                /\ \A u \in Thread : a[u] = IF u = t THEN None ELSE arg[u]
         /\ \A c \in Config : [data EXCEPT ![t] = c] \in [Thread -> Config]
BY DEF TypeConfig

LEMMA SetterTypes ==
  ASSUME Shape, TypeConfig, NEW t \in Thread,
         AssignFirst(t) \/ AssignSecond(t) \/ Marshal(t) \/ Truncate(t) \/ Write(t)
  PROVE  TypeConfig'
<1>1. UNCHANGED op
  BY DEF AssignFirst, AssignSecond, Marshal, Truncate, Write
<1>2. PICK a \in {"assigned", "marshal", "truncate", "write", "check", "none"} : Goto(t, a)
  BY DEF AssignFirst, AssignSecond, Marshal, Truncate, Write, AfterSave
<1>3. at'[t] # "ask" /\ \A u \in Thread : u # t => at'[u] = at[u]
  BY <1>2, AtMoves
<1>4. CASE AssignFirst(t) \/ AssignSecond(t)
  <2>1. cfg' = [cfg EXCEPT ![Field(t)] = Garbled] \/ cfg' = [cfg EXCEPT ![Field(t)] = arg[t]]
    BY <1>4 DEF AssignFirst, AssignSecond
  <2>2. arg[t] \in Strings(op[t]) /\ cfg \in Config
    BY DEF TypeConfig
  <2>3. cfg' \in Config
    BY <2>1, <2>2, ConfigTypes DEF Field, Strings
  <2>4. /\ arg' \in [Thread -> Nick \cup U!Release \cup {None}]
        /\ \A u \in Thread : arg'[u] \in {None, arg[u]}
    <3>1. arg' = arg \/ arg' = [arg EXCEPT ![t] = None]
      BY <1>4 DEF AssignFirst, AssignSecond
    <3>. QED
      BY <3>1, SetLocal DEF TypeConfig
  <2>5. \A u \in Thread : arg'[u] \in Strings(op[u])
    BY <2>4 DEF TypeConfig, Strings
  <2>6. UNCHANGED <<data, file>>
    BY <1>4 DEF AssignFirst, AssignSecond
  <2>. QED
    BY <1>1, <1>3, <2>3, <2>4, <2>5, <2>6 DEF TypeConfig
<1>5. CASE Marshal(t) \/ Truncate(t) \/ Write(t)
  <2>1. UNCHANGED <<arg, cfg>>
    BY <1>5 DEF Marshal, Truncate, Write
  <2>2. data' \in [Thread -> Config]
    <3>1. data' = data \/ data' = [data EXCEPT ![t] = cfg] \/ data' = [data EXCEPT ![t] = FirstRun]
      BY <1>5 DEF Marshal, Truncate, Write
    <3>. QED
      BY <3>1, SetLocal, ConfigTypes DEF TypeConfig
  <2>3. file' \in Config \cup {Empty, Corrupt}
    <3>1. data[t] \in Config /\ [data[t] EXCEPT !.version = None] \in Config
      BY DEF TypeConfig, Config
    <3>. QED
      BY <1>5, <3>1 DEF Marshal, Truncate, Write, Part, TypeConfig
  <2>. QED
    BY <1>1, <1>3, <2>1, <2>2, <2>3 DEF TypeConfig
<1>. QED
  BY <1>4, <1>5

LEMMA RestTypes ==
  ASSUME Shape, TypeConfig, NEW t \in Thread,
         CheckRunning(t) \/ StartEngine(t) \/ MarkRunning(t) \/ CheckStatus(t) \/ StartUpdate(t)
  PROVE  TypeConfig'
<1>1. UNCHANGED <<op, arg, cfg, file, data>>
  BY DEF CheckRunning, StartEngine, MarkRunning, CheckStatus, StartUpdate
<1>2. \E a \in {"none", "start", "mark", "update"} : Goto(t, a)
  BY DEF CheckRunning, StartEngine, MarkRunning, CheckStatus, StartUpdate, ReturnFrom
<1>3. at'[t] # "ask" /\ \A u \in Thread : u # t => at'[u] = at[u]
  BY <1>2, AtMoves
<1>. QED
  BY <1>1, <1>3 DEF TypeConfig

LEMMA OtherTypes ==
  ASSUME TypeConfig, (\E e \in Engine : EngineExits(e) \/ Reap(e)) \/ Update \/ UNCHANGED vars
  PROVE  TypeConfig'
<1>1. UNCHANGED <<op, at, arg, data, cfg, file>>
  BY DEF EngineExits, Reap, Update, vars, calls
<1>. QED
  BY <1>1 DEF TypeConfig

LEMMA ProcessTypes ==
  ASSUME TypeConfig, Quit \/ Start
  PROVE  TypeConfig'
<1>1. CASE Quit
  <2>1. /\ \A t \in Thread : at'[t] = "none" /\ op'[t] = "none" /\ arg'[t] = None
        /\ op' \in [Thread -> Methods] /\ arg' \in [Thread -> Nick \cup U!Release \cup {None}]
        /\ data' \in [Thread -> Config] /\ UNCHANGED <<cfg, file>>
    BY <1>1, ConfigTypes DEF Quit, Methods
  <2>. QED
    BY <2>1 DEF TypeConfig, Strings
<1>2. CASE Start
  <2>1. UNCHANGED <<op, at, arg, data, file>> /\ cfg' \in Config
    BY <1>2, LoadConfig DEF Start, calls, TypeConfig
  <2>. QED
    BY <2>1 DEF TypeConfig
<1>. QED
  BY <1>1, <1>2

LEMMA NextTypes == Shape /\ TypeConfig /\ [Next]_vars => TypeConfig'
<1>. SUFFICES ASSUME Shape, TypeConfig, [Next]_vars PROVE TypeConfig'
  OBVIOUS
<1>1. ASSUME NEW t \in Thread, Step(t) PROVE TypeConfig'
  BY <1>1, CallTypes, AskTypes, SetterTypes, RestTypes DEF Step
<1>. QED
  BY <1>1, OtherTypes, ProcessTypes DEF Next

Flags == gameRunning \in BOOLEAN /\ raced \in BOOLEAN /\ unsaved \in BOOLEAN

LEMMA NextFlag == Flags /\ [Next]_vars => Flags'
<1>. SUFFICES ASSUME Flags, [Next]_vars PROVE Flags'
  OBVIOUS
<1>. USE DEF Flags, games, history
<1>1. ASSUME NEW t \in Thread, Step(t) PROVE Flags'
  <2>1. CASE SetNick(t) \/ LaunchGame(t) \/ CheckForUpdate(t) \/ ApplyUpdate(t) \/ Ask(t)
    BY <2>1 DEF SetNick, LaunchGame, CheckForUpdate, ApplyUpdate, Call, Ask
  <2>2. CASE AssignFirst(t) \/ AssignSecond(t) \/ Marshal(t)
    BY <2>2 DEF AssignFirst, AssignSecond, Marshal
  <2>3. CASE Truncate(t) \/ Write(t)
    BY <2>3 DEF Truncate, Write
  <2>4. CASE CheckRunning(t) \/ CheckStatus(t)
    BY <2>4 DEF CheckRunning, CheckStatus, Passed
  <2>5. CASE StartEngine(t) \/ MarkRunning(t) \/ StartUpdate(t)
    BY <2>5 DEF StartEngine, MarkRunning, StartUpdate
  <2>. QED
    BY <1>1, <2>1, <2>2, <2>3, <2>4, <2>5 DEF Step
<1>2. CASE (\E e \in Engine : EngineExits(e) \/ Reap(e)) \/ Update \/ Quit \/ Start \/ UNCHANGED vars
  BY <1>2 DEF EngineExits, Reap, Update, Quit, Start, vars
<1>. QED
  BY <1>1, <1>2 DEF Next

LEMMA InitTypes == Init => TypeConfig /\ Flags
BY ConfigTypes DEF Init, Flags, TypeConfig, Methods, Strings

\* The ranges of the variables of the launcher and of the updater in it, for any number of
\* goroutines, engines and paths.
THEOREM TypeCorrect == Spec => []TypeOK
<1>. DEFINE Typed == StatusInv /\ TypeConfig /\ Flags
<1>1. Init => Typed
  BY InitStatus, InitTypes
<1>2. Typed /\ [Next]_vars => Typed'
  BY NextStatus, NextTypes, NextFlag DEF StatusInv
<1>3. Typed /\ U!TypeOK => TypeOK
  BY DEF StatusInv, Shape, TypeConfig, Flags, Methods, TypeOK
<1>. HIDE DEF Typed
<1>. QED
  BY <1>1, <1>2, <1>3, UpdaterTypes, PTL DEF Spec

-----------------------------------------------------------------------------
(* The check and the act *)

\* Without a race a started engine is the only one, it is waited for or its starter's, and no
\* call is past its check beside another.
RaceInv ==
  ~raced =>
    /\ \A e, f \in Engine : Started(e) /\ Started(f) => e = f
    /\ \A e \in Engine : Started(e) => e \in waiting \/ \E t \in Thread : at[t] = "mark" /\ mine[t] = e
    /\ waiting # {} => gameRunning
    /\ \A t, u \in Thread : Between(t) /\ Between(u) => t = u
    /\ \A t \in Thread : Between(t) => ~gameRunning

LEMMA InitRace == Init => RaceInv
  BY DEF Init, RaceInv, Started, Between

\* A step that leaves the games alone and passes no check
LEMMA RaceQuiet ==
  ASSUME StatusInv, RaceInv, UNCHANGED games, UNCHANGED raced, NEW t \in Thread, at[t] # "mark",
         NEW a \in {"none", "ask", "assign", "assigned", "marshal", "truncate", "write",
                    "check", "status"},
         Goto(t, a)
  PROVE  RaceInv'
  BY DEF RaceInv, StatusInv, Shape, Started, Between, games, Goto

\* A call passes its check: what raced before is over, or no other call is past one.
LEMMA RacePass ==
  ASSUME StatusInv, RaceInv, UNCHANGED games, ~gameRunning, NEW t \in Thread, Passed(t),
         at[t] \in {"check", "status"}, NEW a \in {"start", "update"}, Goto(t, a)
  PROVE  RaceInv'
<1>. SUFFICES ASSUME ~raced' PROVE RaceInv'
  BY DEF RaceInv
<1>1. \A u \in Thread : u # t => ~Between(u)
  BY DEF Passed
<1>2. \A e \in Engine : ~Started(e)
  <2>1. CASE raced
    BY <2>1 DEF Passed
  <2>2. CASE ~raced
    BY <1>1, <2>2 DEF RaceInv, Between
  <2>. QED
    BY <2>1, <2>2
<1>3. waiting = {}
  BY <1>2 DEF StatusInv, Shape, WaitInv
<1>. QED
  BY <1>1, <1>2, <1>3 DEF RaceInv, StatusInv, Shape, Started, Between, games, Goto

LEMMA RaceStart ==
  ASSUME StatusInv, RaceInv, NEW t \in Thread, StartEngine(t)
  PROVE  RaceInv'
<1>. SUFFICES ASSUME ~raced' PROVE RaceInv'
  BY DEF RaceInv
<1>0. UNCHANGED raced /\ ~raced
  BY DEF StartEngine, history
<1>1. CASE UNCHANGED <<engine, mine>> /\ ReturnFrom(t)
  <2>1. UNCHANGED games /\ at[t] # "mark" /\ Goto(t, "none")
    BY <1>1 DEF StartEngine, games, ReturnFrom
  <2>. QED
    BY <1>0, <2>1, RaceQuiet
<1>2. CASE ~(UNCHANGED <<engine, mine>> /\ ReturnFrom(t))
  <2>1. PICK e \in Engine : /\ engine[e] = "none"
                            /\ engine' = [engine EXCEPT ![e] = "running"]
                            /\ mine' = [mine EXCEPT ![t] = e]
                            /\ Goto(t, "mark")
    BY <1>2 DEF StartEngine
  <2>2. UNCHANGED <<gameRunning, waiting>> /\ at[t] = "start"
    BY DEF StartEngine
  <2>3. waiting = {} /\ ~gameRunning /\ \A u \in Thread : u # t => ~Between(u)
    BY <1>0, <2>2 DEF RaceInv, Between
  <2>4. \A f \in Engine : ~Started(f)
    BY <1>0, <2>2, <2>3 DEF RaceInv, Between
  <2>. QED
    BY <2>1, <2>2, <2>3, <2>4 DEF RaceInv, StatusInv, Shape, Started, Between, Goto
<1>. QED
  BY <1>1, <1>2

LEMMA RaceMark ==
  ASSUME StatusInv, RaceInv, NEW t \in Thread, MarkRunning(t)
  PROVE  RaceInv'
<1>. SUFFICES ASSUME ~raced' PROVE RaceInv'
  BY DEF RaceInv
<1>1. UNCHANGED <<engine, raced>> /\ ~raced /\ at[t] = "mark" /\ gameRunning' = TRUE
  BY DEF MarkRunning, history
<1>2. \A u \in Thread : u # t => ~Between(u)
  BY <1>1 DEF RaceInv, Between
<1>3. at'[t] = "none" /\ \A u \in Thread : u # t => at'[u] = at[u]
  BY DEF MarkRunning, ReturnFrom, Goto, StatusInv, Shape
<1>4. waiting' = waiting \cup {mine[t]}
  BY DEF MarkRunning
<1>5. \A u \in Thread : ~Between(u)'
  BY <1>2, <1>3 DEF Between
<1>6. \A e \in Engine : Started(e)' => e \in waiting'
  BY <1>1, <1>2, <1>4 DEF RaceInv, Started, Between
<1>. QED
  BY <1>1, <1>5, <1>6 DEF RaceInv, Started

LEMMA RaceGames ==
  ASSUME StatusInv, RaceInv, NEW e \in Engine, EngineExits(e) \/ Reap(e)
  PROVE  RaceInv'
<1>1. CASE EngineExits(e)
  BY <1>1 DEF EngineExits, calls, history, RaceInv, StatusInv, Shape, Started, Between
<1>2. CASE Reap(e)
  BY <1>2 DEF Reap, calls, history, RaceInv, StatusInv, Shape, WaitInv, MineInv, Started, Between
<1>. QED
  BY <1>1, <1>2

LEMMA RaceQuit ==
  ASSUME StatusInv, Quit
  PROVE  RaceInv'
<1>1. \A e \in Engine : engine'[e] \notin {"running", "exited"}
  BY DEF Quit, StatusInv, Shape
<1>. QED
  BY <1>1 DEF Quit, RaceInv, Started, Between

LEMMA RaceCalls ==
  ASSUME StatusInv, RaceInv, NEW t \in Thread, Step(t), ~StartEngine(t), ~MarkRunning(t)
  PROVE  RaceInv'
<1>1. CASE SetNick(t) \/ LaunchGame(t) \/ CheckForUpdate(t) \/ ApplyUpdate(t)
  <2>1. /\ UNCHANGED games /\ UNCHANGED raced /\ at[t] # "mark"
        /\ \E a \in {"assign", "ask", "status"} : Goto(t, a)
    BY <1>1 DEF SetNick, LaunchGame, CheckForUpdate, ApplyUpdate, Call, history
  <2>. QED
    BY <2>1, RaceQuiet
<1>2. CASE Ask(t) \/ AssignFirst(t) \/ AssignSecond(t) \/ Marshal(t) \/ Truncate(t) \/ Write(t)
  <2>1. /\ UNCHANGED games /\ UNCHANGED raced /\ at[t] # "mark"
        /\ \E a \in {"none", "assign", "assigned", "marshal", "truncate", "write", "check"} : Goto(t, a)
    BY <1>2 DEF Ask, AssignFirst, AssignSecond, Marshal, Truncate, Write, ReturnFrom, AfterSave, history
  <2>. QED
    BY <2>1, RaceQuiet
<1>3. CASE StartUpdate(t)
  <2>1. UNCHANGED games /\ UNCHANGED raced /\ at[t] # "mark" /\ Goto(t, "none")
    BY <1>3 DEF StartUpdate, ReturnFrom, history
  <2>. QED
    BY <2>1, RaceQuiet
<1>4. CASE CheckRunning(t) \/ CheckStatus(t)
  <2>1. UNCHANGED games /\ at[t] \in {"check", "status"}
    BY <1>4 DEF CheckRunning, CheckStatus
  <2>2. \/ UNCHANGED raced /\ Goto(t, "none")
        \/ ~gameRunning /\ Passed(t) /\ \E a \in {"start", "update"} : Goto(t, a)
    BY <1>4 DEF CheckRunning, CheckStatus, ReturnFrom
  <2>. QED
    BY <2>1, <2>2, RaceQuiet, RacePass
<1>. QED
  BY <1>1, <1>2, <1>3, <1>4 DEF Step

LEMMA NextRace == StatusInv /\ RaceInv /\ [Next]_vars => RaceInv'
<1>. SUFFICES ASSUME StatusInv, RaceInv, [Next]_vars PROVE RaceInv'
  OBVIOUS
<1>1. ASSUME NEW t \in Thread, Step(t) PROVE RaceInv'
  BY <1>1, RaceStart, RaceMark, RaceCalls
<1>2. CASE Update \/ Start \/ UNCHANGED vars
  <2>1. UNCHANGED <<calls, games, raced>>
    BY <1>2 DEF Update, Start, vars, history
  <2>. QED
    BY <2>1 DEF calls, games, RaceInv, Started, Between
<1>. QED
  BY <1>1, <1>2, RaceGames, RaceQuit DEF Next

LEMMA RaceInvariance == Spec => [](StatusInv /\ RaceInv)
<1>1. StatusInv /\ RaceInv /\ [Next]_vars => (StatusInv /\ RaceInv)'
  BY NextStatus, NextRace
<1>. QED
  BY <1>1, InitStatus, InitRace, PTL DEF Spec

\* For any number of goroutines in startGame and ApplyUpdate: a second game needs two calls
\* between the check of gameRunning and the act at once, and it is one game again when the
\* engines of that race have ended.
THEOREM OneGameButForTheRace == Spec => []OneGameUnlessRaced
<1>1. StatusInv /\ RaceInv => OneGameUnlessRaced
  <2>. SUFFICES ASSUME RaceInv, ~raced PROVE OneGame
    BY DEF OneGameUnlessRaced
  <2>. DEFINE R == {e \in Engine : engine[e] = "running"}
  <2>1. CASE R = {}
    BY <2>1, FS_EmptySet DEF OneGame
  <2>2. CASE R # {}
    <3>1. PICK e \in R : TRUE
      BY <2>2
    <3>2. R = {e}
      BY <3>1 DEF RaceInv, Started
    <3>3. Cardinality(R) = 1
      <4>. HIDE DEF R
      <4>. QED
        BY <3>2, FS_Singleton
    <3>. QED
      BY <3>3 DEF OneGame
  <2>. QED
    BY <2>1, <2>2
<1>. QED
  BY <1>1, RaceInvariance, PTL

\* ... and so does an update that starts under a running game.
THEOREM NoUpdateUnderAGameButForTheRace == Spec => []NoUpdateUnlessRaced
<1>1. StatusInv /\ RaceInv => NoUpdateUnlessRaced
  <2>. SUFFICES ASSUME RaceInv, ~raced, NEW t \in Thread, at[t] = "update",
                       NEW e \in Engine, engine[e] = "running"
                PROVE  FALSE
    BY DEF NoUpdateUnlessRaced, NoUpdateUnderGame
  <2>1. ~gameRunning /\ waiting = {} /\ \A u \in Thread : at[u] # "mark"
    BY DEF RaceInv, Between
  <2>. QED
    BY <2>1 DEF RaceInv, Started
<1>. QED
  BY <1>1, RaceInvariance, PTL

-----------------------------------------------------------------------------
(* config.toml *)

\* While the last save met no other and did not fail: a call that saves is alone, what it
\* marshalled is what is in cfg, and nobody else writes between its truncation and its write.
SaveInv ==
  /\ ~Alive => \A t \in Thread : at[t] = "none"
  /\ ~unsaved =>
       /\ \A t, u \in Thread : Saving(t) /\ Saving(u) => t = u
       /\ \A t \in Thread : at[t] \in {"truncate", "write"} => data[t] = cfg
       /\ \A t \in Thread : at[t] = "write" => file = Empty
       /\ Alive /\ (\A t \in Thread : ~Saving(t)) => Load(file) = cfg

ConfigInv == Shape /\ TypeConfig /\ SaveInv

LEMMA InitConfig == Init => ConfigInv
<1>. SUFFICES ASSUME Init PROVE ConfigInv
  OBVIOUS
<1>1. Shape /\ TypeConfig
  BY ConfigTypes DEF Init, Shape, TypeConfig, Methods, Strings
<1>2. SaveInv
  BY ConfigTypes, LoadConfig DEF Init, SaveInv, Saving, Alive, U!Init
<1>. QED
  BY <1>1, <1>2 DEF ConfigInv

\* A step that leaves the configuration alone, before and after a setter
LEMMA ConfigQuiet ==
  ASSUME StatusInv', ConfigInv, NEW t \in Thread, TypeConfig',
         UNCHANGED <<cfg, file, data, unsaved>>,
         ~Saving(t), ~Saving(t)', \A u \in Thread : u # t => at'[u] = at[u],
         Alive, Alive'
  PROVE  ConfigInv'
<1>1. \A u \in Thread : Saving(u)' <=> Saving(u)
  BY DEF Saving
<1>2. \A u \in Thread : at'[u] \in {"truncate", "write"} => at'[u] = at[u]
  BY DEF Saving
<1>3. Load(file)' = Load(file)
  BY DEF Load
<1>4. SaveInv'
  BY <1>1, <1>2, <1>3 DEF ConfigInv, SaveInv
<1>. QED
  BY <1>4 DEF StatusInv, ConfigInv

LEMMA CallConfig ==
  ASSUME StatusInv', ConfigInv, NEW t \in Thread,
         SetNick(t) \/ LaunchGame(t) \/ CheckForUpdate(t) \/ ApplyUpdate(t)
  PROVE  ConfigInv'
<1>1. Shape /\ TypeConfig' /\ Alive /\ phase' = phase /\ UNCHANGED <<cfg, file, data, unsaved>>
  BY CallTypes DEF ConfigInv, SetNick, LaunchGame, CheckForUpdate, ApplyUpdate, Call, update, history
<1>2. at[t] = "none" /\ \E a \in {"assign", "ask", "status"} : Goto(t, a)
  BY DEF SetNick, LaunchGame, CheckForUpdate, ApplyUpdate, Call
<1>3. at'[t] \in {"assign", "ask", "status"} /\ \A u \in Thread : u # t => at'[u] = at[u]
  BY <1>1, <1>2, AtMoves
<1>. QED
  BY <1>1, <1>2, <1>3, ConfigQuiet DEF Alive, Saving

LEMMA AskConfig ==
  ASSUME StatusInv', ConfigInv, NEW t \in Thread, Ask(t)
  PROVE  ConfigInv'
<1>1. /\ Shape /\ TypeConfig' /\ Alive /\ phase' = phase
      /\ UNCHANGED <<cfg, file, data, unsaved>> /\ at[t] = "ask"
  BY AskTypes DEF ConfigInv, Ask, update, history
<1>2. \E a \in {"none", "assign"} : Goto(t, a)
  BY DEF Ask, ReturnFrom
<1>3. at'[t] \in {"none", "assign"} /\ \A u \in Thread : u # t => at'[u] = at[u]
  BY <1>1, <1>2, AtMoves
<1>. QED
  BY <1>1, <1>3, ConfigQuiet DEF Alive, Saving

\* The steps of a setter
LEMMA SetterConfig ==
  ASSUME StatusInv', ConfigInv, NEW t \in Thread,
         AssignFirst(t) \/ AssignSecond(t) \/ Marshal(t) \/ Truncate(t) \/ Write(t)
  PROVE  ConfigInv'
<1>1. Shape /\ TypeConfig /\ TypeConfig' /\ SaveInv /\ Alive /\ phase' = phase
  BY SetterTypes DEF ConfigInv, AssignFirst, AssignSecond, Marshal, Truncate, Write, update
<1>2. Shape' /\ Alive'
  BY <1>1 DEF StatusInv, Alive
<1>3. SUFFICES ASSUME ~unsaved'
               PROVE  /\ \A v, u \in Thread : Saving(v)' /\ Saving(u)' => v = u
                      /\ \A v \in Thread : at'[v] \in {"truncate", "write"} => data'[v] = cfg'
                      /\ \A v \in Thread : at'[v] = "write" => file' = Empty
                      /\ (\A v \in Thread : ~Saving(v)') => Load(file)' = cfg'
  BY <1>1, <1>2 DEF ConfigInv, SaveInv
<1>4. CASE AssignFirst(t)
  <2>1. at'[t] = "assigned" /\ \A u \in Thread : u # t => at'[u] = at[u]
    BY <1>1, <1>4, AtMoves DEF AssignFirst
  <2>2. \A u \in Thread : u # t => ~Saving(u)
    BY <1>3, <1>4 DEF AssignFirst
  <2>. QED
    BY <2>1, <2>2 DEF Saving
<1>5. CASE AssignSecond(t) \/ Marshal(t) \/ Truncate(t) \/ Write(t)
  <2>1. ~unsaved /\ Saving(t)
    BY <1>3, <1>5 DEF AssignSecond, Marshal, Truncate, Write, Saving, history
  <2>2. \A u \in Thread : u # t => ~Saving(u)
    BY <1>1, <2>1 DEF SaveInv
  <2>3. \A u \in Thread : u # t => at'[u] = at[u] /\ ~Saving(u)'
    <3>1. \E a : Goto(t, a)
      BY <1>5 DEF AssignSecond, Marshal, Truncate, Write
    <3>. QED
      BY <1>1, <2>2, <3>1, AtMoves DEF Saving
  <2>4. CASE AssignSecond(t)
    <3>1. at'[t] = "marshal"
      BY <1>1, <2>4, AtMoves DEF AssignSecond
    <3>. QED
      BY <2>3, <3>1 DEF Saving
  <2>5. CASE Marshal(t)
    <3>1. at'[t] = "truncate" /\ UNCHANGED cfg /\ data' = [data EXCEPT ![t] = cfg]
      BY <1>1, <2>5, AtMoves DEF Marshal
    <3>2. data'[t] = cfg
      BY <1>1, <3>1 DEF TypeConfig
    <3>. QED
      BY <2>3, <3>1, <3>2 DEF Saving
  <2>6. CASE Truncate(t)
    <3>1. at'[t] = "write" /\ UNCHANGED <<cfg, data>> /\ file' = Empty /\ at[t] = "truncate"
      BY <1>1, <1>3, <2>6, AtMoves DEF Truncate
    <3>2. data'[t] = cfg'
      BY <1>1, <2>1, <3>1 DEF SaveInv
    <3>. QED
      BY <2>3, <3>1, <3>2 DEF Saving
  <2>7. CASE Write(t)
    <3>1. at[t] = "write" /\ at'[t] \in {"check", "none"} /\ UNCHANGED cfg
      BY <1>1, <2>7, AtMoves DEF Write, AfterSave
    <3>2. file = Empty /\ data[t] = cfg
      BY <1>1, <2>1, <3>1 DEF SaveInv
    <3>3. file' = cfg
      BY <1>3, <2>7, <3>2 DEF Write
    <3>4. Load(file)' = cfg'
      BY <1>1, <3>1, <3>3, LoadConfig DEF TypeConfig, Load
    <3>. QED
      BY <2>3, <3>1, <3>4 DEF Saving
  <2>. QED
    BY <1>5, <2>4, <2>5, <2>6, <2>7
<1>. QED
  BY <1>4, <1>5

\* The steps of startGame and ApplyUpdate
LEMMA RestConfig ==
  ASSUME StatusInv', ConfigInv, NEW t \in Thread,
         CheckRunning(t) \/ StartEngine(t) \/ MarkRunning(t) \/ CheckStatus(t) \/ StartUpdate(t)
  PROVE  ConfigInv'
<1>1. Shape /\ TypeConfig' /\ UNCHANGED <<cfg, file, data, unsaved>>
  BY RestTypes DEF ConfigInv, CheckRunning, StartEngine, MarkRunning, CheckStatus, StartUpdate, history
<1>2. Alive /\ Alive'
  <2>1. CASE UNCHANGED update /\ Alive
    BY <2>1 DEF update, Alive
  <2>2. CASE U!StartUpdate
    BY <2>2 DEF U!StartUpdate, Alive
  <2>. QED
    BY <2>1, <2>2 DEF CheckRunning, StartEngine, MarkRunning, CheckStatus, StartUpdate
<1>3. at[t] \in {"check", "start", "mark", "status", "update"} /\ \E a \in {"none", "start", "mark", "update"} : Goto(t, a)
  BY DEF CheckRunning, StartEngine, MarkRunning, CheckStatus, StartUpdate, ReturnFrom
<1>4. at'[t] \in {"none", "start", "mark", "update"} /\ \A u \in Thread : u # t => at'[u] = at[u]
  BY <1>1, <1>3, AtMoves
<1>. QED
  BY <1>1, <1>2, <1>3, <1>4, ConfigQuiet DEF Saving

\* Engines and the update do not touch the configuration.
LEMMA OthersConfig ==
  ASSUME StatusInv', ConfigInv,
         (\E e \in Engine : EngineExits(e) \/ Reap(e)) \/ Update \/ UNCHANGED vars
  PROVE  ConfigInv'
<1>1. UNCHANGED <<op, at, arg, data, cfg, file, unsaved>>
  BY DEF EngineExits, Reap, Update, vars, calls, history
<1>2. Alive' <=> Alive
  <2>1. CASE Update
    BY <2>1 DEF Update, Alive, U!Work, U!Return, U!Download, U!Extract, U!MergeConf, U!WriteConf,
       U!Backup, U!EndBackup, U!CopyTree, U!CopyFile, U!EndCopy, U!RemoveOld, U!RenameOut,
       U!RenameIn, U!MovedIn, U!RemoveNew, U!Unstage, U!Restore, U!PutBack, U!EndRestore,
       U!Discard, U!Finish
  <2>2. CASE UNCHANGED update
    BY <2>2 DEF update, Alive
  <2>. QED
    BY <2>1, <2>2 DEF EngineExits, Reap, vars
<1>3. TypeConfig' /\ SaveInv'
  BY <1>1, <1>2, OtherTypes DEF ConfigInv, SaveInv, Saving, Load
<1>. QED
  BY <1>3 DEF StatusInv, ConfigInv

LEMMA ProcessConfig ==
  ASSUME StatusInv', ConfigInv, Quit \/ Start
  PROVE  ConfigInv'
<1>1. SaveInv /\ TypeConfig'
  BY ProcessTypes DEF ConfigInv
<1>2. CASE Quit
  <2>1. ~Alive' /\ \A t \in Thread : at'[t] = "none"
    BY <1>2 DEF Quit, U!Crash, Alive
  <2>. QED
    BY <1>1, <2>1 DEF StatusInv, ConfigInv, SaveInv, Saving
<1>3. CASE Start
  <2>1. UNCHANGED <<at, file>> /\ cfg' = Load(file) /\ ~Alive /\ Alive'
    BY <1>3 DEF Start, calls, U!StartLauncher, Alive
  <2>2. \A t \in Thread : at'[t] = "none"
    BY <1>1, <2>1 DEF SaveInv
  <2>3. Load(file)' = cfg'
    BY <2>1 DEF Load
  <2>4. SaveInv'
    BY <2>1, <2>2, <2>3 DEF SaveInv, Saving
  <2>. QED
    BY <1>1, <2>4 DEF StatusInv, ConfigInv
<1>. QED
  BY <1>2, <1>3

\* For any number of goroutines that save at once, for every open or write that fails, and for
\* a launcher that dies between truncation and write: the next save that is alone and does not
\* fail leaves the profile in config.toml.
THEOREM LoneSaveIsKept == Spec => []ProfileSaved
<1>1. StatusInv /\ ConfigInv /\ [Next]_vars => (StatusInv /\ ConfigInv)'
  <2>. SUFFICES ASSUME StatusInv, ConfigInv, [Next]_vars PROVE StatusInv' /\ ConfigInv'
    OBVIOUS
  <2>1. StatusInv'
    BY NextStatus
  <2>2. ASSUME NEW t \in Thread, Step(t) PROVE ConfigInv'
    BY <2>1, <2>2, CallConfig, AskConfig, SetterConfig, RestConfig DEF Step
  <2>. QED
    BY <2>1, <2>2, OthersConfig, ProcessConfig DEF Next
<1>2. ConfigInv => ProfileSaved
  BY DEF ConfigInv, SaveInv, ProfileSaved
<1>. QED
  BY <1>1, <1>2, InitStatus, InitConfig, PTL DEF Spec
=============================================================================
