--------------------------- MODULE UpdaterProofs ---------------------------
(***************************************************************************)
(* The updater, for any list of managed paths and any number of updates    *)
(* and crashes. What it installs, and how many steps it takes, hold with   *)
(* every operation failing; that it never loses the old game, with every   *)
(* operation failing but the renames that put something back.              *)
(*                                                                         *)
(* InstallInv says for each phase up to a success which paths are where:   *)
(* the loops over managedPaths have moved the paths before idx and not     *)
(* those from idx on, and the rollback has not those. RollbackInv says     *)
(* what the rollback has done when none of its renames fails.              *)
(***************************************************************************)
EXTENDS Updater, TLAPS

\* The phases in which the game root is as it was, and those that have the release.
Untouched == {"download", "extract", "conf", "confwrite"}
Complete == {"removeold", "renameout", "renamein", "removenew"}
Ending == {"unstage", "restore", "putback", "discard", "done"}

\* The old content of q is somewhere.
Safe(q) == root[q] = before[q] \/ backup[q] = before[q]

\* The old content of q is in the backup, or still or again in its place.
Kept(q) == backup[q] = before[q] \/ (backup[q] = None /\ root[q] = before[q])

\* The old content of q is back.
Back(q) == backup[q] = None /\ (before[q] # None => root[q] = before[q])

\* Where the game is, phase by phase.
BackupInv ==
  phase = "backup" =>
    \A i \in DOMAIN managedPaths :
      /\ i < idx => root[managedPaths[i]] = None /\ backup[managedPaths[i]] = before[managedPaths[i]]
      /\ i >= idx => root[managedPaths[i]] = before[managedPaths[i]] /\ backup[managedPaths[i]] = None

CopyInv ==
  phase \in {"copy", "copying"} =>
    \A i \in DOMAIN managedPaths :
      /\ backup[managedPaths[i]] = before[managedPaths[i]]
      /\ i < idx => root[managedPaths[i]] = archive[managedPaths[i]]
      /\ i > idx \/ (i = idx /\ phase = "copy") => root[managedPaths[i]] = None

Places ==
  /\ phase = "confwrite" => idx = 1
  /\ phase \in Untouched => root = before
  /\ phase \in Untouched \ {"download"} => backup = Nothing
  /\ phase \in {"conf", "confwrite", "backup", "copy", "copying"} => staging = archive
  /\ phase \in Complete => root = archive /\ \A q \in Path : backup[q] = before[q]
  /\ phase \in Ending /\ ~err => root = archive
  /\ phase \in {"restore", "putback"} => err
  /\ phase \in Untouched \cup Complete \cup {"backup", "copy", "copying"} => ~err
  /\ phase = "unstage" /\ err => \A q \in Path : Kept(q)

RollbackLoop ==
  /\ phase \in {"restore", "putback"} =>
       \A i \in DOMAIN managedPaths :
         /\ Safe(managedPaths[i])
         /\ i >= idx => Kept(managedPaths[i])
  /\ phase = "putback" => backup[p] = before[p] /\ backup[p] # None

RestoreInv ==
  /\ phase \in {"restore", "putback"} =>
       \A i \in DOMAIN managedPaths : i < idx => Back(managedPaths[i])
  /\ phase \in {"discard", "done"} /\ err => \A q \in Path : Back(q)

\* Where the launchers are.
LauncherMoves ==
  /\ phase \in Untouched \cup {"backup", "copy", "copying", "removeold", "renameout"}
       => launcher = before_launcher
  /\ phase \in {"conf", "confwrite", "backup", "copy", "copying", "removeold", "renameout", "renamein"}
       => staged_launcher = archive_launcher
  /\ phase \in Complete => archive_launcher # None
  /\ phase \in {"renameout", "renamein"} /\ launcher = None => launcher_old = before_launcher
  /\ phase = "renamein" => launcher = None
  /\ phase = "removenew" => launcher = archive_launcher
  /\ phase \in Ending /\ ~err =>
       launcher = IF archive_launcher = None THEN before_launcher ELSE archive_launcher

InstallInv == Places /\ BackupInv /\ CopyInv /\ RollbackLoop /\ LauncherMoves

LauncherInv ==
  /\ LauncherKept
  /\ phase # "dead" => launcher # None \/ phase = "renamein"
  /\ phase \notin {"dead", "idle"} => before_launcher # None
  /\ phase \in Ending /\ err => launcher = before_launcher

RollbackInv == RestoreInv /\ LauncherInv /\ Recoverable

IInv == TypeOK /\ InstallInv /\ RollbackInv

-----------------------------------------------------------------------------
(* Managed paths *)

LEMMA Lengths == Len(managedPaths) \in Nat /\ DOMAIN managedPaths = 1..Len(managedPaths)
BY ParameterAssumption

LEMMA Distinct ==
  \A i, j \in DOMAIN managedPaths : managedPaths[i] = managedPaths[j] => i = j
BY ParameterAssumption

LEMMA Indexed == \A q \in Path : \E i \in DOMAIN managedPaths : q = managedPaths[i]
BY DEF Path

LEMMA Members == \A i \in DOMAIN managedPaths : managedPaths[i] \in Path
BY DEF Path

LEMMA Contents == None \notin Release /\ Release \subseteq Nat /\ 0 \in Release
BY ParameterAssumption DEF Release

LEMMA Bounds == MaxUpdates \in Nat /\ MaxCrashes \in Nat
BY ParameterAssumption

\* The path a loop is at.
LEMMA Current ==
  ASSUME TypeOK, More
  PROVE  /\ idx \in DOMAIN managedPaths /\ p \in Path
         /\ idx + 1 \in 1..(Len(managedPaths) + 1)
         /\ \A i \in DOMAIN managedPaths : i \in Nat /\ (i < idx + 1 <=> i < idx \/ i = idx)
         /\ \A i \in DOMAIN managedPaths : i # idx => managedPaths[i] # p
<1>1. idx \in DOMAIN managedPaths /\ idx \in Nat
  BY Lengths DEF TypeOK, More
<1>. QED
  BY <1>1, Lengths, Distinct DEF Path, p

\* After a loop every index is behind idx.
LEMMA LoopDone ==
  ASSUME TypeOK, ~More
  PROVE  \A i \in DOMAIN managedPaths : i < idx
BY Lengths DEF TypeOK, More

\* Before a loop none is.
LEMMA LoopBegins == \A i \in DOMAIN managedPaths : ~(i < 1) /\ i >= 1
BY Lengths

\* TypeOK in parts: the provers take them better apart.
TypeLoop ==
  /\ phase \in {"idle", "dead", "download", "extract", "conf", "confwrite", "backup", "copy",
                "copying", "removeold", "renameout", "renamein", "removenew", "unstage",
                "restore", "putback", "discard", "done"}
  /\ idx \in 1..(Len(managedPaths) + 1)
  /\ phase \in {"copying", "putback"} => More

TypeGame ==
  /\ root \in [Path -> Content] /\ before \in [Path -> Content]
  /\ staging \in [Path -> Content] /\ backup \in [Path -> Content]
  /\ archive \in [Path -> Release \cup {None}]

TypeRest ==
  /\ err \in BOOLEAN /\ running \in BOOLEAN /\ failed \in BOOLEAN
  /\ conf \in {"whole", "torn"} /\ local \in {"whole", "torn"}
  /\ launcher \in Release \cup {None} /\ launcher_old \in Release \cup {None}
  /\ staged_launcher \in Release \cup {None} /\ archive_launcher \in Release \cup {None}
  /\ before_launcher \in Release \cup {None}
  /\ release \in Release /\ crashes \in 0..MaxCrashes

LEMMA TypeParts ==
  /\ TypeOK <=> TypeLoop /\ TypeGame /\ TypeRest
  /\ TypeOK' <=> TypeLoop' /\ TypeGame' /\ TypeRest'
BY DEF TypeOK, TypeLoop, TypeGame, TypeRest, More

LEMMA InitIInv == Init => IInv
<1>. SUFFICES ASSUME Init PROVE IInv
  OBVIOUS
<1>. USE DEF Init
<1>1. TypeLoop /\ TypeGame /\ TypeRest
  <2>1. TypeLoop
    BY Lengths DEF TypeLoop, More
  <2>2. TypeGame
    BY Contents DEF TypeGame, Content, Nothing
  <2>3. TypeRest
    <3>1. crashes \in 0..MaxCrashes
      BY Bounds
    <3>. QED
      BY <3>1, Contents DEF TypeRest
  <2>. QED
    BY <2>1, <2>2, <2>3
<1>2. InstallInv
  BY DEF InstallInv, Places, BackupInv, CopyInv, RollbackLoop, LauncherMoves, Untouched, Complete, Ending
<1>3. RollbackInv
  BY Contents DEF RollbackInv, RestoreInv, LauncherInv, LauncherKept, Recoverable, Ending
<1>. QED
  BY <1>1, <1>2, <1>3, TypeParts DEF IInv

-----------------------------------------------------------------------------
(* One lemma per action. *)

LEMMA StartUpdateStep ==
  ASSUME TypeOK, StartUpdate
  PROVE  /\ TypeOK'
         /\ InstallInv => InstallInv'
         /\ InstallInv /\ Recoverable => Recoverable'
         /\ InstallInv /\ RollbackInv => RollbackInv'
<1>. USE DEF StartUpdate, game, settings, launchers
<1>1. TypeOK'
  <2>1. TypeLoop'
    BY Contents, Lengths DEF TypeLoop, TypeOK, More
  <2>2. TypeGame'
    <3>1. PICK content \in SUBSET Path :
            archive' = [q \in Path |-> IF q \in content THEN release' ELSE None]
      OBVIOUS
    <3>2. release' \in Release
      BY Bounds DEF TypeOK, Release
    <3>. QED
      BY <3>1, <3>2 DEF TypeGame, TypeOK
  <2>3. TypeRest'
    <3>1. release' \in Release
      BY Bounds DEF TypeOK, Release
    <3>. QED
      BY <3>1 DEF TypeRest, TypeOK
  <2>. QED
    BY <2>1, <2>2, <2>3, TypeParts
<1>2. ASSUME InstallInv PROVE InstallInv'
  <2>. USE <1>2 DEF InstallInv
  <2>1. Places'
    BY Indexed DEF Places, Untouched, Complete, Ending, TypeOK, CopyInv, BackupInv, RestoreInv,
         Nothing, Kept, Back
  <2>2. BackupInv'
    BY Members DEF BackupInv, Places, TypeOK, Untouched, Nothing
  <2>3. CopyInv'
    BY Members DEF CopyInv, BackupInv, Places, TypeOK
  <2>4. RollbackLoop'
    BY Indexed, Members DEF RollbackLoop, Safe, BackupInv, CopyInv, Places, TypeOK, Kept, Back, Untouched,
         Complete, Ending, Nothing
  <2>5. LauncherMoves'
    BY Contents DEF LauncherMoves, Places, Untouched, Complete, Ending, TypeOK
  <2>. QED
    BY <2>1, <2>2, <2>3, <2>4, <2>5
<1>3. ASSUME InstallInv, Recoverable PROVE Recoverable'
  BY <1>3, Indexed DEF InstallInv, Recoverable, TypeOK, Places, BackupInv, CopyInv, RollbackLoop, Kept, Back,
       Untouched, Complete, Ending, Nothing
<1>4. ASSUME InstallInv, RollbackInv PROVE RollbackInv'
  <2>. USE <1>4 DEF InstallInv, RollbackInv
  <2>1. RestoreInv'
    BY Indexed, Members DEF RestoreInv, RollbackLoop, BackupInv, CopyInv, Places, TypeOK, Kept, Back, Untouched,
         Complete, Ending, Nothing
  <2>2. LauncherInv'
    BY Contents DEF LauncherInv, LauncherMoves, LauncherKept, Places, Untouched, Complete, Ending, TypeOK
  <2>3. Recoverable'
    BY <1>3
  <2>. QED
    BY <2>1, <2>2, <2>3
<1>. QED
  BY <1>1, <1>2, <1>3, <1>4

LEMMA DownloadStep ==
  ASSUME TypeOK, Download
  PROVE  /\ TypeOK'
         /\ InstallInv => InstallInv'
         /\ InstallInv /\ Recoverable => Recoverable'
         /\ InstallInv /\ RollbackInv => RollbackInv'
<1>. USE DEF Download, settings, latest, history
<1>1. TypeOK'
  <2>1. TypeLoop'
    BY Contents, Lengths DEF TypeLoop, TypeOK, More
  <2>2. TypeGame'
    BY Contents DEF TypeGame, TypeOK, Content, Nothing
  <2>3. TypeRest'
    BY Contents DEF TypeRest, TypeOK, Release
  <2>. QED
    BY <2>1, <2>2, <2>3, TypeParts
<1>2. ASSUME InstallInv PROVE InstallInv'
  <2>. USE <1>2 DEF InstallInv
  <2>1. Places'
    BY Indexed DEF Places, Untouched, Complete, Ending, TypeOK, CopyInv, BackupInv, RestoreInv,
         Nothing, Kept, Back
  <2>2. BackupInv'
    BY Members DEF BackupInv, Places, TypeOK, Untouched, Nothing
  <2>3. CopyInv'
    BY Members DEF CopyInv, BackupInv, Places, TypeOK
  <2>4. RollbackLoop'
    BY Indexed, Members DEF RollbackLoop, Safe, BackupInv, CopyInv, Places, TypeOK, Kept, Back, Untouched,
         Complete, Ending, Nothing
  <2>5. LauncherMoves'
    BY Contents DEF LauncherMoves, Places, Untouched, Complete, Ending, TypeOK
  <2>. QED
    BY <2>1, <2>2, <2>3, <2>4, <2>5
<1>3. ASSUME InstallInv, Recoverable PROVE Recoverable'
  BY <1>3, Indexed DEF InstallInv, Recoverable, TypeOK, Places, BackupInv, CopyInv, RollbackLoop, Kept, Back,
       Untouched, Complete, Ending, Nothing
<1>4. ASSUME InstallInv, RollbackInv PROVE RollbackInv'
  <2>. USE <1>4 DEF InstallInv, RollbackInv
  <2>1. RestoreInv'
    BY Indexed, Members DEF RestoreInv, RollbackLoop, BackupInv, CopyInv, Places, TypeOK, Kept, Back, Untouched,
         Complete, Ending, Nothing
  <2>2. LauncherInv'
    BY Contents DEF LauncherInv, LauncherMoves, LauncherKept, Places, Untouched, Complete, Ending, TypeOK
  <2>3. Recoverable'
    BY <1>3
  <2>. QED
    BY <2>1, <2>2, <2>3
<1>. QED
  BY <1>1, <1>2, <1>3, <1>4

LEMMA ExtractStep ==
  ASSUME TypeOK, Extract
  PROVE  /\ TypeOK'
         /\ InstallInv => InstallInv'
         /\ InstallInv /\ Recoverable => Recoverable'
         /\ InstallInv /\ RollbackInv => RollbackInv'
<1>. USE DEF Extract, Return, settings, latest, history
<1>1. TypeOK'
  <2>1. TypeLoop'
    BY Contents, Lengths DEF TypeLoop, TypeOK, More
  <2>2. TypeGame'
    BY Contents DEF TypeGame, TypeOK, Content, Nothing
  <2>3. TypeRest'
    BY Contents DEF TypeRest, TypeOK, Release
  <2>. QED
    BY <2>1, <2>2, <2>3, TypeParts
<1>2. ASSUME InstallInv PROVE InstallInv'
  <2>. USE <1>2 DEF InstallInv
  <2>1. Places'
    BY Indexed DEF Places, Untouched, Complete, Ending, TypeOK, CopyInv, BackupInv, RestoreInv,
         Nothing, Kept, Back
  <2>2. BackupInv'
    BY Members DEF BackupInv, Places, TypeOK, Untouched, Nothing
  <2>3. CopyInv'
    BY Members DEF CopyInv, BackupInv, Places, TypeOK
  <2>4. RollbackLoop'
    BY Indexed, Members DEF RollbackLoop, Safe, BackupInv, CopyInv, Places, TypeOK, Kept, Back, Untouched,
         Complete, Ending, Nothing
  <2>5. LauncherMoves'
    BY Contents DEF LauncherMoves, Places, Untouched, Complete, Ending, TypeOK
  <2>. QED
    BY <2>1, <2>2, <2>3, <2>4, <2>5
<1>3. ASSUME InstallInv, Recoverable PROVE Recoverable'
  BY <1>3, Indexed DEF InstallInv, Recoverable, TypeOK, Places, BackupInv, CopyInv, RollbackLoop, Kept, Back,
       Untouched, Complete, Ending, Nothing
<1>4. ASSUME InstallInv, RollbackInv PROVE RollbackInv'
  <2>. USE <1>4 DEF InstallInv, RollbackInv
  <2>1. RestoreInv'
    BY Indexed, Members DEF RestoreInv, RollbackLoop, BackupInv, CopyInv, Places, TypeOK, Kept, Back, Untouched,
         Complete, Ending, Nothing
  <2>2. LauncherInv'
    BY Contents DEF LauncherInv, LauncherMoves, LauncherKept, Places, Untouched, Complete, Ending, TypeOK
  <2>3. Recoverable'
    BY <1>3
  <2>. QED
    BY <2>1, <2>2, <2>3
<1>. QED
  BY <1>1, <1>2, <1>3, <1>4

LEMMA MergeConfStep ==
  ASSUME TypeOK, MergeConf
  PROVE  /\ TypeOK'
         /\ InstallInv => InstallInv'
         /\ InstallInv /\ Recoverable => Recoverable'
         /\ InstallInv /\ RollbackInv => RollbackInv'
<1>. USE DEF MergeConf, Return, game, launchers, latest, history
<1>1. TypeOK'
  <2>1. TypeLoop'
    BY Contents, Lengths DEF TypeLoop, TypeOK, More
  <2>2. TypeGame'
    BY Contents DEF TypeGame, TypeOK, Content, Nothing
  <2>3. TypeRest'
    BY Contents DEF TypeRest, TypeOK, Release
  <2>. QED
    BY <2>1, <2>2, <2>3, TypeParts
<1>2. ASSUME InstallInv PROVE InstallInv'
  <2>. USE <1>2 DEF InstallInv
  <2>1. Places'
    BY LoopBegins, Indexed DEF Places, Untouched, Complete, Ending, TypeOK, CopyInv, BackupInv,
         RestoreInv, Nothing, Kept, Back
  <2>2. BackupInv'
    BY LoopBegins, Members DEF BackupInv, Places, TypeOK, Untouched, Nothing
  <2>3. CopyInv'
    BY LoopBegins, Members DEF CopyInv, BackupInv, Places, TypeOK
  <2>4. RollbackLoop'
    BY LoopBegins, Indexed, Members DEF RollbackLoop, Safe, BackupInv, CopyInv, Places, TypeOK, Kept, Back,
         Untouched, Complete, Ending, Nothing
  <2>5. LauncherMoves'
    BY Contents DEF LauncherMoves, Places, Untouched, Complete, Ending, TypeOK
  <2>. QED
    BY <2>1, <2>2, <2>3, <2>4, <2>5
<1>3. ASSUME InstallInv, Recoverable PROVE Recoverable'
  BY <1>3, LoopBegins, Indexed DEF InstallInv, Recoverable, TypeOK, Places, BackupInv, CopyInv, RollbackLoop, Kept,
       Back, Untouched, Complete, Ending, Nothing
<1>4. ASSUME InstallInv, RollbackInv PROVE RollbackInv'
  <2>. USE <1>4 DEF InstallInv, RollbackInv
  <2>1. RestoreInv'
    BY LoopBegins, Indexed, Members DEF RestoreInv, RollbackLoop, BackupInv, CopyInv, Places, TypeOK, Kept, Back,
         Untouched, Complete, Ending, Nothing
  <2>2. LauncherInv'
    BY Contents DEF LauncherInv, LauncherMoves, LauncherKept, Places, Untouched, Complete, Ending, TypeOK
  <2>3. Recoverable'
    BY <1>3
  <2>. QED
    BY <2>1, <2>2, <2>3
<1>. QED
  BY <1>1, <1>2, <1>3, <1>4

LEMMA WriteConfStep ==
  ASSUME TypeOK, WriteConf
  PROVE  /\ TypeOK'
         /\ InstallInv => InstallInv'
         /\ InstallInv /\ Recoverable => Recoverable'
         /\ InstallInv /\ RollbackInv => RollbackInv'
<1>. USE DEF WriteConf, Return, game, launchers, latest, history
<1>1. TypeOK'
  <2>1. TypeLoop'
    BY Contents, Lengths DEF TypeLoop, TypeOK, More
  <2>2. TypeGame'
    BY Contents DEF TypeGame, TypeOK, Content, Nothing
  <2>3. TypeRest'
    BY Contents DEF TypeRest, TypeOK, Release
  <2>. QED
    BY <2>1, <2>2, <2>3, TypeParts
<1>2. ASSUME InstallInv PROVE InstallInv'
  <2>. USE <1>2 DEF InstallInv
  <2>1. Places'
    BY LoopBegins, Indexed DEF Places, Untouched, Complete, Ending, TypeOK, CopyInv, BackupInv,
         RestoreInv, Nothing, Kept, Back
  <2>2. BackupInv'
    BY LoopBegins, Members DEF BackupInv, Places, TypeOK, Untouched, Nothing
  <2>3. CopyInv'
    BY LoopBegins, Members DEF CopyInv, BackupInv, Places, TypeOK
  <2>4. RollbackLoop'
    BY LoopBegins, Indexed, Members DEF RollbackLoop, Safe, BackupInv, CopyInv, Places, TypeOK, Kept, Back,
         Untouched, Complete, Ending, Nothing
  <2>5. LauncherMoves'
    BY Contents DEF LauncherMoves, Places, Untouched, Complete, Ending, TypeOK
  <2>. QED
    BY <2>1, <2>2, <2>3, <2>4, <2>5
<1>3. ASSUME InstallInv, Recoverable PROVE Recoverable'
  BY <1>3, LoopBegins, Indexed DEF InstallInv, Recoverable, TypeOK, Places, BackupInv, CopyInv, RollbackLoop, Kept,
       Back, Untouched, Complete, Ending, Nothing
<1>4. ASSUME InstallInv, RollbackInv PROVE RollbackInv'
  <2>. USE <1>4 DEF InstallInv, RollbackInv
  <2>1. RestoreInv'
    BY LoopBegins, Indexed, Members DEF RestoreInv, RollbackLoop, BackupInv, CopyInv, Places, TypeOK, Kept, Back,
         Untouched, Complete, Ending, Nothing
  <2>2. LauncherInv'
    BY Contents DEF LauncherInv, LauncherMoves, LauncherKept, Places, Untouched, Complete, Ending, TypeOK
  <2>3. Recoverable'
    BY <1>3
  <2>. QED
    BY <2>1, <2>2, <2>3
<1>. QED
  BY <1>1, <1>2, <1>3, <1>4

LEMMA BackupStep ==
  ASSUME TypeOK, Backup
  PROVE  /\ TypeOK'
         /\ InstallInv => InstallInv'
         /\ InstallInv /\ Recoverable => Recoverable'
         /\ InstallInv /\ RollbackInv => RollbackInv'
<1>. USE DEF Backup, Return, settings, launchers, latest, history
<1>0. More
  OBVIOUS
<1>1. TypeOK'
  <2>1. TypeLoop'
    BY <1>0, Current, Contents, Lengths DEF TypeLoop, TypeOK, More
  <2>2. TypeGame'
    BY <1>0, Current, Contents DEF TypeGame, TypeOK, Content, Nothing
  <2>3. TypeRest'
    BY <1>0, Current, Contents DEF TypeRest, TypeOK, Release
  <2>. QED
    BY <2>1, <2>2, <2>3, TypeParts
<1>2. ASSUME InstallInv PROVE InstallInv'
  <2>. USE <1>2 DEF InstallInv
  <2>1. Places'
    BY <1>0, Current, Indexed DEF Places, Untouched, Complete, Ending, TypeOK, CopyInv, BackupInv,
         RestoreInv, Nothing, Kept, Back
  <2>2. BackupInv'
    <3>. SUFFICES ASSUME phase' = "backup", NEW i \in DOMAIN managedPaths
                  PROVE  
           /\ i < idx' => /\ root'[managedPaths[i]] = None
                          /\ backup'[managedPaths[i]] = before'[managedPaths[i]]
           /\ i >= idx' => /\ root'[managedPaths[i]] = before'[managedPaths[i]]
                           /\ backup'[managedPaths[i]] = None
      BY DEF BackupInv
    <3>1. CASE i = idx
      BY <3>1, <1>0, Current, Members DEF p, BackupInv, TypeOK
    <3>2. CASE i # idx
      BY <3>2, <1>0, Current, Members DEF BackupInv, TypeOK
    <3>. QED
      BY <3>1, <3>2
  <2>3. CopyInv'
    BY <1>0, Current, Members DEF CopyInv, BackupInv, Places, TypeOK
  <2>4. RollbackLoop'
    BY <1>0, Current, Indexed, Members DEF RollbackLoop, Safe, BackupInv, CopyInv, Places, TypeOK, Kept,
         Back, Untouched, Complete, Ending, Nothing
  <2>5. LauncherMoves'
    BY Contents DEF LauncherMoves, Places, Untouched, Complete, Ending, TypeOK
  <2>. QED
    BY <2>1, <2>2, <2>3, <2>4, <2>5
<1>3. ASSUME InstallInv, Recoverable PROVE Recoverable'
  BY <1>3, <1>0, Current, Indexed DEF InstallInv, Recoverable, TypeOK, Places, BackupInv, CopyInv, RollbackLoop,
       Kept, Back, Untouched, Complete, Ending, Nothing
<1>4. ASSUME InstallInv, RollbackInv PROVE RollbackInv'
  <2>. USE <1>4 DEF InstallInv, RollbackInv
  <2>1. RestoreInv'
    BY <1>0, Current, Indexed, Members DEF RestoreInv, RollbackLoop, BackupInv, CopyInv, Places, TypeOK, Kept,
         Back, Untouched, Complete, Ending, Nothing
  <2>2. LauncherInv'
    BY Contents DEF LauncherInv, LauncherMoves, LauncherKept, Places, Untouched, Complete, Ending, TypeOK
  <2>3. Recoverable'
    BY <1>3
  <2>. QED
    BY <2>1, <2>2, <2>3
<1>. QED
  BY <1>1, <1>2, <1>3, <1>4

LEMMA EndBackupStep ==
  ASSUME TypeOK, EndBackup
  PROVE  /\ TypeOK'
         /\ InstallInv => InstallInv'
         /\ InstallInv /\ Recoverable => Recoverable'
         /\ InstallInv /\ RollbackInv => RollbackInv'
<1>. USE DEF EndBackup, game, settings, launchers, latest, history
<1>1. TypeOK'
  <2>1. TypeLoop'
    BY Contents, Lengths DEF TypeLoop, TypeOK, More
  <2>2. TypeGame'
    BY Contents DEF TypeGame, TypeOK, Content, Nothing
  <2>3. TypeRest'
    BY Contents DEF TypeRest, TypeOK, Release
  <2>. QED
    BY <2>1, <2>2, <2>3, TypeParts
<1>2. ASSUME InstallInv PROVE InstallInv'
  <2>. USE <1>2 DEF InstallInv
  <2>1. Places'
    BY LoopDone, LoopBegins, Indexed DEF Places, Untouched, Complete, Ending, TypeOK, CopyInv,
         BackupInv, RestoreInv, Nothing, Kept, Back
  <2>2. BackupInv'
    BY LoopDone, LoopBegins, Members DEF BackupInv, Places, TypeOK, Untouched, Nothing
  <2>3. CopyInv'
    BY LoopDone, LoopBegins, Members DEF CopyInv, BackupInv, Places, TypeOK
  <2>4. RollbackLoop'
    BY LoopDone, LoopBegins, Indexed, Members DEF RollbackLoop, Safe, BackupInv, CopyInv, Places, TypeOK,
         Kept, Back, Untouched, Complete, Ending, Nothing
  <2>5. LauncherMoves'
    BY Contents DEF LauncherMoves, Places, Untouched, Complete, Ending, TypeOK
  <2>. QED
    BY <2>1, <2>2, <2>3, <2>4, <2>5
<1>3. ASSUME InstallInv, Recoverable PROVE Recoverable'
  BY <1>3, LoopDone, LoopBegins, Indexed DEF InstallInv, Recoverable, TypeOK, Places, BackupInv, CopyInv,
       RollbackLoop, Kept, Back, Untouched, Complete, Ending, Nothing
<1>4. ASSUME InstallInv, RollbackInv PROVE RollbackInv'
  <2>. USE <1>4 DEF InstallInv, RollbackInv
  <2>1. RestoreInv'
    BY LoopDone, LoopBegins, Indexed, Members DEF RestoreInv, RollbackLoop, BackupInv, CopyInv, Places, TypeOK,
         Kept, Back, Untouched, Complete, Ending, Nothing
  <2>2. LauncherInv'
    BY Contents DEF LauncherInv, LauncherMoves, LauncherKept, Places, Untouched, Complete, Ending, TypeOK
  <2>3. Recoverable'
    BY <1>3
  <2>. QED
    BY <2>1, <2>2, <2>3
<1>. QED
  BY <1>1, <1>2, <1>3, <1>4

LEMMA CopyTreeStep ==
  ASSUME TypeOK, CopyTree
  PROVE  /\ TypeOK'
         /\ InstallInv => InstallInv'
         /\ InstallInv /\ Recoverable => Recoverable'
         /\ InstallInv /\ RollbackInv => RollbackInv'
<1>. USE DEF CopyTree, settings, launchers, latest, history
<1>0. More
  OBVIOUS
<1>1. TypeOK'
  <2>1. TypeLoop'
    BY <1>0, Current, Contents, Lengths DEF TypeLoop, TypeOK, More
  <2>2. TypeGame'
    BY <1>0, Current, Contents DEF TypeGame, TypeOK, Content, Nothing
  <2>3. TypeRest'
    BY <1>0, Current, Contents DEF TypeRest, TypeOK, Release
  <2>. QED
    BY <2>1, <2>2, <2>3, TypeParts
<1>2. ASSUME InstallInv PROVE InstallInv'
  <2>. USE <1>2 DEF InstallInv
  <2>1. Places'
    BY <1>0, Current, Indexed DEF Places, Untouched, Complete, Ending, TypeOK, CopyInv, BackupInv,
         RestoreInv, Nothing, Kept, Back
  <2>2. BackupInv'
    BY <1>0, Current, Members DEF BackupInv, Places, TypeOK, Untouched, Nothing
  <2>3. CopyInv'
    <3>. SUFFICES ASSUME phase' \in {"copy", "copying"}, NEW i \in DOMAIN managedPaths
                  PROVE  
           /\ backup'[managedPaths[i]] = before'[managedPaths[i]]
           /\ i < idx' => root'[managedPaths[i]] = archive'[managedPaths[i]]
           /\ i > idx' \/ (i = idx' /\ phase' = "copy") => root'[managedPaths[i]] = None
      BY DEF CopyInv
    <3>1. CASE i = idx
      BY <3>1, <1>0, Current, Members DEF p, CopyInv, Places, TypeOK
    <3>2. CASE i # idx
      BY <3>2, <1>0, Current, Members DEF CopyInv, Places, TypeOK
    <3>. QED
      BY <3>1, <3>2
  <2>4. RollbackLoop'
    BY <1>0, Current, Indexed, Members DEF RollbackLoop, Safe, BackupInv, CopyInv, Places, TypeOK, Kept,
         Back, Untouched, Complete, Ending, Nothing
  <2>5. LauncherMoves'
    BY Contents DEF LauncherMoves, Places, Untouched, Complete, Ending, TypeOK
  <2>. QED
    BY <2>1, <2>2, <2>3, <2>4, <2>5
<1>3. ASSUME InstallInv, Recoverable PROVE Recoverable'
  BY <1>3, <1>0, Current, Indexed DEF InstallInv, Recoverable, TypeOK, Places, BackupInv, CopyInv, RollbackLoop,
       Kept, Back, Untouched, Complete, Ending, Nothing
<1>4. ASSUME InstallInv, RollbackInv PROVE RollbackInv'
  <2>. USE <1>4 DEF InstallInv, RollbackInv
  <2>1. RestoreInv'
    BY <1>0, Current, Indexed, Members DEF RestoreInv, RollbackLoop, BackupInv, CopyInv, Places, TypeOK, Kept,
         Back, Untouched, Complete, Ending, Nothing
  <2>2. LauncherInv'
    BY Contents DEF LauncherInv, LauncherMoves, LauncherKept, Places, Untouched, Complete, Ending, TypeOK
  <2>3. Recoverable'
    BY <1>3
  <2>. QED
    BY <2>1, <2>2, <2>3
<1>. QED
  BY <1>1, <1>2, <1>3, <1>4

LEMMA CopyFileStep ==
  ASSUME TypeOK, CopyFile
  PROVE  /\ TypeOK'
         /\ InstallInv => InstallInv'
         /\ InstallInv /\ Recoverable => Recoverable'
         /\ InstallInv /\ RollbackInv => RollbackInv'
<1>. USE DEF CopyFile, Return, settings, launchers, latest, history
<1>0. More
  BY DEF TypeOK
<1>1. TypeOK'
  <2>1. TypeLoop'
    BY <1>0, Current, Contents, Lengths DEF TypeLoop, TypeOK, More
  <2>2. TypeGame'
    BY <1>0, Current, Contents DEF TypeGame, TypeOK, Content, Nothing
  <2>3. TypeRest'
    BY <1>0, Current, Contents DEF TypeRest, TypeOK, Release
  <2>. QED
    BY <2>1, <2>2, <2>3, TypeParts
<1>2. ASSUME InstallInv PROVE InstallInv'
  <2>. USE <1>2 DEF InstallInv
  <2>1. Places'
    BY <1>0, Current, Indexed DEF Places, Untouched, Complete, Ending, TypeOK, CopyInv, BackupInv,
         RestoreInv, Nothing, Kept, Back
  <2>2. BackupInv'
    BY <1>0, Current, Members DEF BackupInv, Places, TypeOK, Untouched, Nothing
  <2>3. CopyInv'
    <3>. SUFFICES ASSUME phase' \in {"copy", "copying"}, NEW i \in DOMAIN managedPaths
                  PROVE  
           /\ backup'[managedPaths[i]] = before'[managedPaths[i]]
           /\ i < idx' => root'[managedPaths[i]] = archive'[managedPaths[i]]
           /\ i > idx' \/ (i = idx' /\ phase' = "copy") => root'[managedPaths[i]] = None
      BY DEF CopyInv
    <3>1. CASE i = idx
      BY <3>1, <1>0, Current, Members DEF p, CopyInv, Places, TypeOK, Return
    <3>2. CASE i # idx
      BY <3>2, <1>0, Current, Members DEF CopyInv, Places, TypeOK, Return
    <3>. QED
      BY <3>1, <3>2
  <2>4. RollbackLoop'
    BY <1>0, Current, Indexed, Members DEF RollbackLoop, Safe, BackupInv, CopyInv, Places, TypeOK, Kept,
         Back, Untouched, Complete, Ending, Nothing
  <2>5. LauncherMoves'
    BY Contents DEF LauncherMoves, Places, Untouched, Complete, Ending, TypeOK
  <2>. QED
    BY <2>1, <2>2, <2>3, <2>4, <2>5
<1>3. ASSUME InstallInv, Recoverable PROVE Recoverable'
  BY <1>3, <1>0, Current, Indexed DEF InstallInv, Recoverable, TypeOK, Places, BackupInv, CopyInv, RollbackLoop,
       Kept, Back, Untouched, Complete, Ending, Nothing
<1>4. ASSUME InstallInv, RollbackInv PROVE RollbackInv'
  <2>. USE <1>4 DEF InstallInv, RollbackInv
  <2>1. RestoreInv'
    BY <1>0, Current, Indexed, Members DEF RestoreInv, RollbackLoop, BackupInv, CopyInv, Places, TypeOK, Kept,
         Back, Untouched, Complete, Ending, Nothing
  <2>2. LauncherInv'
    BY Contents DEF LauncherInv, LauncherMoves, LauncherKept, Places, Untouched, Complete, Ending, TypeOK
  <2>3. Recoverable'
    BY <1>3
  <2>. QED
    BY <2>1, <2>2, <2>3
<1>. QED
  BY <1>1, <1>2, <1>3, <1>4

LEMMA EndCopyStep ==
  ASSUME TypeOK, EndCopy
  PROVE  /\ TypeOK'
         /\ InstallInv => InstallInv'
         /\ InstallInv /\ Recoverable => Recoverable'
         /\ InstallInv /\ RollbackInv => RollbackInv'
<1>. USE DEF EndCopy, Return, game, settings, launchers, latest, history
<1>1. TypeOK'
  <2>1. TypeLoop'
    BY Contents, Lengths DEF TypeLoop, TypeOK, More
  <2>2. TypeGame'
    BY Contents DEF TypeGame, TypeOK, Content, Nothing
  <2>3. TypeRest'
    BY Contents DEF TypeRest, TypeOK, Release
  <2>. QED
    BY <2>1, <2>2, <2>3, TypeParts
<1>2. ASSUME InstallInv PROVE InstallInv'
  <2>. USE <1>2 DEF InstallInv
  <2>1. Places'
    BY LoopDone, Indexed DEF Places, Untouched, Complete, Ending, TypeOK, CopyInv, BackupInv,
         RestoreInv, Nothing, Kept, Back
  <2>2. BackupInv'
    BY LoopDone, Members DEF BackupInv, Places, TypeOK, Untouched, Nothing
  <2>3. CopyInv'
    BY LoopDone, Members DEF CopyInv, BackupInv, Places, TypeOK
  <2>4. RollbackLoop'
    BY LoopDone, Indexed, Members DEF RollbackLoop, Safe, BackupInv, CopyInv, Places, TypeOK, Kept, Back,
         Untouched, Complete, Ending, Nothing
  <2>5. LauncherMoves'
    BY Contents DEF LauncherMoves, Places, Untouched, Complete, Ending, TypeOK
  <2>. QED
    BY <2>1, <2>2, <2>3, <2>4, <2>5
<1>3. ASSUME InstallInv, Recoverable PROVE Recoverable'
  BY <1>3, LoopDone, Indexed DEF InstallInv, Recoverable, TypeOK, Places, BackupInv, CopyInv, RollbackLoop, Kept,
       Back, Untouched, Complete, Ending, Nothing
<1>4. ASSUME InstallInv, RollbackInv PROVE RollbackInv'
  <2>. USE <1>4 DEF InstallInv, RollbackInv
  <2>1. RestoreInv'
    BY LoopDone, Indexed, Members DEF RestoreInv, RollbackLoop, BackupInv, CopyInv, Places, TypeOK, Kept, Back,
         Untouched, Complete, Ending, Nothing
  <2>2. LauncherInv'
    BY Contents DEF LauncherInv, LauncherMoves, LauncherKept, Places, Untouched, Complete, Ending, TypeOK
  <2>3. Recoverable'
    BY <1>3
  <2>. QED
    BY <2>1, <2>2, <2>3
<1>. QED
  BY <1>1, <1>2, <1>3, <1>4

LEMMA RemoveOldStep ==
  ASSUME TypeOK, RemoveOld
  PROVE  /\ TypeOK'
         /\ InstallInv => InstallInv'
         /\ InstallInv /\ Recoverable => Recoverable'
         /\ InstallInv /\ RollbackInv => RollbackInv'
<1>. USE DEF RemoveOld, game, settings, latest, history
<1>1. TypeOK'
  <2>1. TypeLoop'
    BY Contents, Lengths DEF TypeLoop, TypeOK, More
  <2>2. TypeGame'
    BY Contents DEF TypeGame, TypeOK, Content, Nothing
  <2>3. TypeRest'
    BY Contents DEF TypeRest, TypeOK, Release
  <2>. QED
    BY <2>1, <2>2, <2>3, TypeParts
<1>2. ASSUME InstallInv PROVE InstallInv'
  <2>. USE <1>2 DEF InstallInv
  <2>1. Places'
    BY Indexed DEF Places, Untouched, Complete, Ending, TypeOK, CopyInv, BackupInv, RestoreInv,
         Nothing, Kept, Back
  <2>2. BackupInv'
    BY Members DEF BackupInv, Places, TypeOK, Untouched, Nothing
  <2>3. CopyInv'
    BY Members DEF CopyInv, BackupInv, Places, TypeOK
  <2>4. RollbackLoop'
    BY Indexed, Members DEF RollbackLoop, Safe, BackupInv, CopyInv, Places, TypeOK, Kept, Back, Untouched,
         Complete, Ending, Nothing
  <2>5. LauncherMoves'
    BY Contents DEF LauncherMoves, Places, Untouched, Complete, Ending, TypeOK
  <2>. QED
    BY <2>1, <2>2, <2>3, <2>4, <2>5
<1>3. ASSUME InstallInv, Recoverable PROVE Recoverable'
  BY <1>3, Indexed DEF InstallInv, Recoverable, TypeOK, Places, BackupInv, CopyInv, RollbackLoop, Kept, Back,
       Untouched, Complete, Ending, Nothing
<1>4. ASSUME InstallInv, RollbackInv PROVE RollbackInv'
  <2>. USE <1>4 DEF InstallInv, RollbackInv
  <2>1. RestoreInv'
    BY Indexed, Members DEF RestoreInv, RollbackLoop, BackupInv, CopyInv, Places, TypeOK, Kept, Back, Untouched,
         Complete, Ending, Nothing
  <2>2. LauncherInv'
    BY Contents DEF LauncherInv, LauncherMoves, LauncherKept, Places, Untouched, Complete, Ending, TypeOK
  <2>3. Recoverable'
    BY <1>3
  <2>. QED
    BY <2>1, <2>2, <2>3
<1>. QED
  BY <1>1, <1>2, <1>3, <1>4

LEMMA RenameOutStep ==
  ASSUME TypeOK, RenameOut
  PROVE  /\ TypeOK'
         /\ InstallInv => InstallInv'
         /\ InstallInv /\ Recoverable => Recoverable'
         /\ InstallInv /\ RollbackInv => RollbackInv'
<1>. USE DEF RenameOut, Return, game, settings, latest, history
<1>1. TypeOK'
  <2>1. TypeLoop'
    BY Contents, Lengths DEF TypeLoop, TypeOK, More
  <2>2. TypeGame'
    BY Contents DEF TypeGame, TypeOK, Content, Nothing
  <2>3. TypeRest'
    BY Contents DEF TypeRest, TypeOK, Release
  <2>. QED
    BY <2>1, <2>2, <2>3, TypeParts
<1>2. ASSUME InstallInv PROVE InstallInv'
  <2>. USE <1>2 DEF InstallInv
  <2>1. Places'
    BY Indexed DEF Places, Untouched, Complete, Ending, TypeOK, CopyInv, BackupInv, RestoreInv,
         Nothing, Kept, Back
  <2>2. BackupInv'
    BY Members DEF BackupInv, Places, TypeOK, Untouched, Nothing
  <2>3. CopyInv'
    BY Members DEF CopyInv, BackupInv, Places, TypeOK
  <2>4. RollbackLoop'
    BY Indexed, Members DEF RollbackLoop, Safe, BackupInv, CopyInv, Places, TypeOK, Kept, Back, Untouched,
         Complete, Ending, Nothing
  <2>5. LauncherMoves'
    BY Contents DEF LauncherMoves, Places, Untouched, Complete, Ending, TypeOK
  <2>. QED
    BY <2>1, <2>2, <2>3, <2>4, <2>5
<1>3. ASSUME InstallInv, Recoverable PROVE Recoverable'
  BY <1>3, Indexed DEF InstallInv, Recoverable, TypeOK, Places, BackupInv, CopyInv, RollbackLoop, Kept, Back,
       Untouched, Complete, Ending, Nothing
<1>4. ASSUME InstallInv, RollbackInv PROVE RollbackInv'
  <2>. USE <1>4 DEF InstallInv, RollbackInv
  <2>1. RestoreInv'
    BY Indexed, Members DEF RestoreInv, RollbackLoop, BackupInv, CopyInv, Places, TypeOK, Kept, Back, Untouched,
         Complete, Ending, Nothing
  <2>2. LauncherInv'
    BY Contents DEF LauncherInv, LauncherMoves, LauncherKept, Places, Untouched, Complete, Ending, TypeOK
  <2>3. Recoverable'
    BY <1>3
  <2>. QED
    BY <2>1, <2>2, <2>3
<1>. QED
  BY <1>1, <1>2, <1>3, <1>4

LEMMA RenameInStep ==
  ASSUME TypeOK, RenameIn
  PROVE  /\ TypeOK'
         /\ InstallInv => InstallInv'
         /\ InstallInv /\ Recoverable => Recoverable'
         /\ "restore" \notin Faults /\ InstallInv /\ RollbackInv => RollbackInv'
<1>. USE DEF RenameIn, Return, MovedIn, game, settings, launchers, latest, history
<1>1. TypeOK'
  <2>1. TypeLoop'
    BY Contents, Lengths DEF TypeLoop, TypeOK, More
  <2>2. TypeGame'
    BY Contents DEF TypeGame, TypeOK, Content, Nothing
  <2>3. TypeRest'
    BY Contents DEF TypeRest, TypeOK, Release
  <2>. QED
    BY <2>1, <2>2, <2>3, TypeParts
<1>2. ASSUME InstallInv PROVE InstallInv'
  <2>. USE <1>2 DEF InstallInv
  <2>1. Places'
    BY Indexed DEF Places, Untouched, Complete, Ending, TypeOK, CopyInv, BackupInv, RestoreInv,
         Nothing, Kept, Back
  <2>2. BackupInv'
    BY Members DEF BackupInv, Places, TypeOK, Untouched, Nothing
  <2>3. CopyInv'
    BY Members DEF CopyInv, BackupInv, Places, TypeOK
  <2>4. RollbackLoop'
    BY Indexed, Members DEF RollbackLoop, Safe, BackupInv, CopyInv, Places, TypeOK, Kept, Back, Untouched,
         Complete, Ending, Nothing
  <2>5. LauncherMoves'
    BY Contents DEF LauncherMoves, Places, Untouched, Complete, Ending, TypeOK
  <2>. QED
    BY <2>1, <2>2, <2>3, <2>4, <2>5
<1>3. ASSUME InstallInv, Recoverable PROVE Recoverable'
  BY <1>3, Indexed DEF InstallInv, Recoverable, TypeOK, Places, BackupInv, CopyInv, RollbackLoop, Kept, Back,
       Untouched, Complete, Ending, Nothing
<1>4. ASSUME "restore" \notin Faults, InstallInv, RollbackInv PROVE RollbackInv'
  <2>. USE <1>4 DEF InstallInv, RollbackInv
  <2>1. RestoreInv'
    BY Indexed, Members DEF RestoreInv, RollbackLoop, BackupInv, CopyInv, Places, TypeOK, Kept, Back, Untouched,
         Complete, Ending, Nothing
  <2>2. LauncherInv'
    BY Contents DEF LauncherInv, LauncherMoves, LauncherKept, Places, Untouched, Complete, Ending, TypeOK
  <2>3. Recoverable'
    BY <1>3
  <2>. QED
    BY <2>1, <2>2, <2>3
<1>. QED
  BY <1>1, <1>2, <1>3, <1>4

LEMMA RemoveNewStep ==
  ASSUME TypeOK, RemoveNew
  PROVE  /\ TypeOK'
         /\ InstallInv => InstallInv'
         /\ InstallInv /\ Recoverable => Recoverable'
         /\ InstallInv /\ RollbackInv => RollbackInv'
<1>. USE DEF RemoveNew, Return, game, settings, latest, history
<1>1. TypeOK'
  <2>1. TypeLoop'
    BY Contents, Lengths DEF TypeLoop, TypeOK, More
  <2>2. TypeGame'
    BY Contents DEF TypeGame, TypeOK, Content, Nothing
  <2>3. TypeRest'
    BY Contents DEF TypeRest, TypeOK, Release
  <2>. QED
    BY <2>1, <2>2, <2>3, TypeParts
<1>2. ASSUME InstallInv PROVE InstallInv'
  <2>. USE <1>2 DEF InstallInv
  <2>1. Places'
    BY Indexed DEF Places, Untouched, Complete, Ending, TypeOK, CopyInv, BackupInv, RestoreInv,
         Nothing, Kept, Back
  <2>2. BackupInv'
    BY Members DEF BackupInv, Places, TypeOK, Untouched, Nothing
  <2>3. CopyInv'
    BY Members DEF CopyInv, BackupInv, Places, TypeOK
  <2>4. RollbackLoop'
    BY Indexed, Members DEF RollbackLoop, Safe, BackupInv, CopyInv, Places, TypeOK, Kept, Back, Untouched,
         Complete, Ending, Nothing
  <2>5. LauncherMoves'
    BY Contents DEF LauncherMoves, Places, Untouched, Complete, Ending, TypeOK
  <2>. QED
    BY <2>1, <2>2, <2>3, <2>4, <2>5
<1>3. ASSUME InstallInv, Recoverable PROVE Recoverable'
  BY <1>3, Indexed DEF InstallInv, Recoverable, TypeOK, Places, BackupInv, CopyInv, RollbackLoop, Kept, Back,
       Untouched, Complete, Ending, Nothing
<1>4. ASSUME InstallInv, RollbackInv PROVE RollbackInv'
  <2>. USE <1>4 DEF InstallInv, RollbackInv
  <2>1. RestoreInv'
    BY Indexed, Members DEF RestoreInv, RollbackLoop, BackupInv, CopyInv, Places, TypeOK, Kept, Back, Untouched,
         Complete, Ending, Nothing
  <2>2. LauncherInv'
    BY Contents DEF LauncherInv, LauncherMoves, LauncherKept, Places, Untouched, Complete, Ending, TypeOK
  <2>3. Recoverable'
    BY <1>3
  <2>. QED
    BY <2>1, <2>2, <2>3
<1>. QED
  BY <1>1, <1>2, <1>3, <1>4

LEMMA UnstageStep ==
  ASSUME TypeOK, Unstage
  PROVE  /\ TypeOK'
         /\ InstallInv => InstallInv'
         /\ InstallInv /\ Recoverable => Recoverable'
         /\ InstallInv /\ RollbackInv => RollbackInv'
<1>. USE DEF Unstage, settings, latest, history
<1>1. TypeOK'
  <2>1. TypeLoop'
    BY Contents, Lengths DEF TypeLoop, TypeOK, More
  <2>2. TypeGame'
    BY Contents DEF TypeGame, TypeOK, Content, Nothing
  <2>3. TypeRest'
    BY Contents DEF TypeRest, TypeOK, Release
  <2>. QED
    BY <2>1, <2>2, <2>3, TypeParts
<1>2. ASSUME InstallInv PROVE InstallInv'
  <2>. USE <1>2 DEF InstallInv
  <2>1. Places'
    BY LoopBegins, Indexed DEF Places, Untouched, Complete, Ending, TypeOK, CopyInv, BackupInv,
         RestoreInv, Nothing, Kept, Back
  <2>2. BackupInv'
    BY LoopBegins, Members DEF BackupInv, Places, TypeOK, Untouched, Nothing
  <2>3. CopyInv'
    BY LoopBegins, Members DEF CopyInv, BackupInv, Places, TypeOK
  <2>4. RollbackLoop'
    BY LoopBegins, Indexed, Members DEF RollbackLoop, Safe, BackupInv, CopyInv, Places, TypeOK, Kept, Back,
         Untouched, Complete, Ending, Nothing
  <2>5. LauncherMoves'
    BY Contents DEF LauncherMoves, Places, Untouched, Complete, Ending, TypeOK
  <2>. QED
    BY <2>1, <2>2, <2>3, <2>4, <2>5
<1>3. ASSUME InstallInv, Recoverable PROVE Recoverable'
  BY <1>3, LoopBegins, Indexed DEF InstallInv, Recoverable, TypeOK, Places, BackupInv, CopyInv, RollbackLoop, Kept,
       Back, Untouched, Complete, Ending, Nothing
<1>4. ASSUME InstallInv, RollbackInv PROVE RollbackInv'
  <2>. USE <1>4 DEF InstallInv, RollbackInv
  <2>1. RestoreInv'
    BY LoopBegins, Indexed, Members DEF RestoreInv, RollbackLoop, BackupInv, CopyInv, Places, TypeOK, Kept, Back,
         Untouched, Complete, Ending, Nothing
  <2>2. LauncherInv'
    BY Contents DEF LauncherInv, LauncherMoves, LauncherKept, Places, Untouched, Complete, Ending, TypeOK
  <2>3. Recoverable'
    BY <1>3
  <2>. QED
    BY <2>1, <2>2, <2>3
<1>. QED
  BY <1>1, <1>2, <1>3, <1>4

LEMMA RestoreStep ==
  ASSUME TypeOK, Restore
  PROVE  /\ TypeOK'
         /\ InstallInv => InstallInv'
         /\ InstallInv /\ Recoverable => Recoverable'
         /\ InstallInv /\ RollbackInv => RollbackInv'
<1>. USE DEF Restore, settings, launchers, latest, history
<1>0. More
  OBVIOUS
<1>1. TypeOK'
  <2>1. TypeLoop'
    BY <1>0, Current, Contents, Lengths DEF TypeLoop, TypeOK, More
  <2>2. TypeGame'
    BY <1>0, Current, Contents DEF TypeGame, TypeOK, Content, Nothing
  <2>3. TypeRest'
    BY <1>0, Current, Contents DEF TypeRest, TypeOK, Release
  <2>. QED
    BY <2>1, <2>2, <2>3, TypeParts
<1>2. ASSUME InstallInv PROVE InstallInv'
  <2>. USE <1>2 DEF InstallInv
  <2>1. Places'
    BY <1>0, Current, Indexed DEF Places, Untouched, Complete, Ending, TypeOK, CopyInv, BackupInv,
         RestoreInv, Nothing, Kept, Back
  <2>2. BackupInv'
    BY <1>0, Current, Members DEF BackupInv, Places, TypeOK, Untouched, Nothing
  <2>3. CopyInv'
    BY <1>0, Current, Members DEF CopyInv, BackupInv, Places, TypeOK
  <2>4. RollbackLoop'
    <3>1. ASSUME NEW i \in DOMAIN managedPaths
          PROVE  Safe(managedPaths[i])' /\ (i >= idx' => Kept(managedPaths[i])')
      <4>1. CASE i = idx
        BY <3>1, <4>1, <1>0, Current, Members DEF p, RollbackLoop, Safe, Kept, TypeOK
      <4>2. CASE i # idx
        BY <3>1, <4>2, <1>0, Current, Members DEF RollbackLoop, Safe, Kept, TypeOK
      <4>. QED
        BY <4>1, <4>2
    <3>2. phase' = "putback" => backup'[p] = before'[p] /\ backup'[p] # None /\ p' = p
      BY <1>0, Current, Lengths DEF RollbackLoop, Kept, TypeOK, p
    <3>. QED
      BY <3>1, <3>2 DEF RollbackLoop
  <2>5. LauncherMoves'
    BY Contents DEF LauncherMoves, Places, Untouched, Complete, Ending, TypeOK
  <2>. QED
    BY <2>1, <2>2, <2>3, <2>4, <2>5
<1>3. ASSUME InstallInv, Recoverable PROVE Recoverable'
  <2>1. RollbackLoop' /\ phase' \in {"restore", "putback"}
    BY <1>2, <1>3 DEF InstallInv
  <2>2. \A i \in DOMAIN managedPaths : Safe(managedPaths[i])'
    BY <2>1 DEF RollbackLoop
  <2>. QED
    BY <2>2, Indexed DEF Safe, Recoverable
<1>4. ASSUME InstallInv, RollbackInv PROVE RollbackInv'
  <2>. USE <1>4 DEF InstallInv, RollbackInv
  <2>1. RestoreInv'
    <3>. SUFFICES ASSUME NEW i \in DOMAIN managedPaths, i < idx' PROVE Back(managedPaths[i])'
      BY DEF RestoreInv
    <3>1. CASE i = idx
      BY <3>1, <1>0, Current, Members DEF p, RollbackLoop, Kept, Back, TypeOK
    <3>2. CASE i # idx
      BY <3>2, <1>0, Current, Members DEF RestoreInv, Back, TypeOK
    <3>. QED
      BY <3>1, <3>2
  <2>2. LauncherInv'
    BY Contents DEF LauncherInv, LauncherMoves, LauncherKept, Places, Untouched, Complete, Ending, TypeOK
  <2>3. Recoverable'
    BY <1>3
  <2>. QED
    BY <2>1, <2>2, <2>3
<1>. QED
  BY <1>1, <1>2, <1>3, <1>4

LEMMA PutBackStep ==
  ASSUME TypeOK, PutBack
  PROVE  /\ TypeOK'
         /\ InstallInv => InstallInv'
         /\ InstallInv /\ Recoverable => Recoverable'
         /\ "restore" \notin Faults /\ InstallInv /\ RollbackInv => RollbackInv'
<1>. USE DEF PutBack, settings, launchers, latest, history
<1>0. More
  BY DEF TypeOK
<1>1. TypeOK'
  <2>1. TypeLoop'
    BY <1>0, Current, Contents, Lengths DEF TypeLoop, TypeOK, More
  <2>2. TypeGame'
    BY <1>0, Current, Contents DEF TypeGame, TypeOK, Content, Nothing
  <2>3. TypeRest'
    BY <1>0, Current, Contents DEF TypeRest, TypeOK, Release
  <2>. QED
    BY <2>1, <2>2, <2>3, TypeParts
<1>2. ASSUME InstallInv PROVE InstallInv'
  <2>. USE <1>2 DEF InstallInv
  <2>1. Places'
    BY <1>0, Current, Indexed DEF Places, Untouched, Complete, Ending, TypeOK, CopyInv, BackupInv,
         RestoreInv, Nothing, Kept, Back
  <2>2. BackupInv'
    BY <1>0, Current, Members DEF BackupInv, Places, TypeOK, Untouched, Nothing
  <2>3. CopyInv'
    BY <1>0, Current, Members DEF CopyInv, BackupInv, Places, TypeOK
  <2>4. RollbackLoop'
    BY <1>0, Current, Indexed, Members DEF RollbackLoop, Places, TypeOK, Safe, Kept
  <2>5. LauncherMoves'
    BY Contents DEF LauncherMoves, Places, Untouched, Complete, Ending, TypeOK
  <2>. QED
    BY <2>1, <2>2, <2>3, <2>4, <2>5
<1>3. ASSUME InstallInv, Recoverable PROVE Recoverable'
  <2>1. RollbackLoop' /\ phase' \in {"restore", "putback"}
    BY <1>2, <1>3 DEF InstallInv
  <2>2. \A i \in DOMAIN managedPaths : Safe(managedPaths[i])'
    BY <2>1 DEF RollbackLoop
  <2>. QED
    BY <2>2, Indexed DEF Safe, Recoverable
<1>4. ASSUME "restore" \notin Faults, InstallInv, RollbackInv PROVE RollbackInv'
  <2>. USE <1>4 DEF InstallInv, RollbackInv
  <2>1. RestoreInv'
    BY <1>0, Current, Indexed, Members DEF RestoreInv, RollbackLoop, BackupInv, CopyInv, Places, TypeOK, Kept,
         Back, Untouched, Complete, Ending, Nothing
  <2>2. LauncherInv'
    BY Contents DEF LauncherInv, LauncherMoves, LauncherKept, Places, Untouched, Complete, Ending, TypeOK
  <2>3. Recoverable'
    BY <1>3
  <2>. QED
    BY <2>1, <2>2, <2>3
<1>. QED
  BY <1>1, <1>2, <1>3, <1>4

LEMMA EndRestoreStep ==
  ASSUME TypeOK, EndRestore
  PROVE  /\ TypeOK'
         /\ InstallInv => InstallInv'
         /\ InstallInv /\ Recoverable => Recoverable'
         /\ InstallInv /\ RollbackInv => RollbackInv'
<1>. USE DEF EndRestore, game, settings, launchers, latest, history
<1>1. TypeOK'
  <2>1. TypeLoop'
    BY Contents, Lengths DEF TypeLoop, TypeOK, More
  <2>2. TypeGame'
    BY Contents DEF TypeGame, TypeOK, Content, Nothing
  <2>3. TypeRest'
    BY Contents DEF TypeRest, TypeOK, Release
  <2>. QED
    BY <2>1, <2>2, <2>3, TypeParts
<1>2. ASSUME InstallInv PROVE InstallInv'
  <2>. USE <1>2 DEF InstallInv
  <2>1. Places'
    BY LoopDone, Indexed DEF Places, Untouched, Complete, Ending, TypeOK, CopyInv, BackupInv,
         RestoreInv, Nothing, Kept, Back
  <2>2. BackupInv'
    BY LoopDone, Members DEF BackupInv, Places, TypeOK, Untouched, Nothing
  <2>3. CopyInv'
    BY LoopDone, Members DEF CopyInv, BackupInv, Places, TypeOK
  <2>4. RollbackLoop'
    BY LoopDone, Indexed, Members DEF RollbackLoop, Safe, BackupInv, CopyInv, Places, TypeOK, Kept, Back,
         Untouched, Complete, Ending, Nothing
  <2>5. LauncherMoves'
    BY Contents DEF LauncherMoves, Places, Untouched, Complete, Ending, TypeOK
  <2>. QED
    BY <2>1, <2>2, <2>3, <2>4, <2>5
<1>3. ASSUME InstallInv, Recoverable PROVE Recoverable'
  BY <1>3, LoopDone, Indexed DEF InstallInv, Recoverable, TypeOK, Places, BackupInv, CopyInv, RollbackLoop, Kept,
       Back, Untouched, Complete, Ending, Nothing
<1>4. ASSUME InstallInv, RollbackInv PROVE RollbackInv'
  <2>. USE <1>4 DEF InstallInv, RollbackInv
  <2>1. RestoreInv'
    BY LoopDone, Indexed, Members DEF RestoreInv, RollbackLoop, BackupInv, CopyInv, Places, TypeOK, Kept, Back,
         Untouched, Complete, Ending, Nothing
  <2>2. LauncherInv'
    BY Contents DEF LauncherInv, LauncherMoves, LauncherKept, Places, Untouched, Complete, Ending, TypeOK
  <2>3. Recoverable'
    BY <1>3
  <2>. QED
    BY <2>1, <2>2, <2>3
<1>. QED
  BY <1>1, <1>2, <1>3, <1>4

LEMMA DiscardStep ==
  ASSUME TypeOK, Discard
  PROVE  /\ TypeOK'
         /\ InstallInv => InstallInv'
         /\ InstallInv /\ RollbackInv => RollbackInv'
<1>. USE DEF Discard, settings, launchers, latest, history
<1>1. TypeOK'
  <2>1. TypeLoop'
    BY Contents, Lengths DEF TypeLoop, TypeOK, More
  <2>2. TypeGame'
    BY Contents DEF TypeGame, TypeOK, Content, Nothing
  <2>3. TypeRest'
    BY Contents DEF TypeRest, TypeOK, Release
  <2>. QED
    BY <2>1, <2>2, <2>3, TypeParts
<1>2. ASSUME InstallInv PROVE InstallInv'
  <2>. USE <1>2 DEF InstallInv
  <2>1. Places'
    BY Indexed DEF Places, Untouched, Complete, Ending, TypeOK, CopyInv, BackupInv, RestoreInv,
         Nothing, Kept, Back
  <2>2. BackupInv'
    BY Members DEF BackupInv, Places, TypeOK, Untouched, Nothing
  <2>3. CopyInv'
    BY Members DEF CopyInv, BackupInv, Places, TypeOK
  <2>4. RollbackLoop'
    BY Indexed, Members DEF RollbackLoop, Safe, BackupInv, CopyInv, Places, TypeOK, Kept, Back, Untouched,
         Complete, Ending, Nothing
  <2>5. LauncherMoves'
    BY Contents DEF LauncherMoves, Places, Untouched, Complete, Ending, TypeOK
  <2>. QED
    BY <2>1, <2>2, <2>3, <2>4, <2>5
<1>3. ASSUME InstallInv, RollbackInv PROVE RollbackInv'
  <2>. USE <1>3 DEF InstallInv, RollbackInv
  <2>1. RestoreInv'
    BY Indexed, Members DEF RestoreInv, RollbackLoop, BackupInv, CopyInv, Places, TypeOK, Kept, Back, Untouched,
         Complete, Ending, Nothing
  <2>2. LauncherInv'
    BY Contents DEF LauncherInv, LauncherMoves, LauncherKept, Places, Untouched, Complete, Ending, TypeOK
  <2>3. Recoverable'
    BY Indexed DEF Recoverable, TypeOK, Places, BackupInv, CopyInv, RestoreInv, RollbackLoop, Kept, Back,
         Untouched, Complete, Ending, Nothing
  <2>. QED
    BY <2>1, <2>2, <2>3
<1>. QED
  BY <1>1, <1>2, <1>3

LEMMA FinishStep ==
  ASSUME TypeOK, Finish
  PROVE  /\ TypeOK'
         /\ InstallInv => InstallInv'
         /\ InstallInv /\ Recoverable => Recoverable'
         /\ InstallInv /\ RollbackInv => RollbackInv'
<1>. USE DEF Finish, game, settings, launchers, latest, history
<1>1. TypeOK'
  <2>1. TypeLoop'
    BY Contents, Lengths DEF TypeLoop, TypeOK, More
  <2>2. TypeGame'
    BY Contents DEF TypeGame, TypeOK, Content, Nothing
  <2>3. TypeRest'
    BY Contents DEF TypeRest, TypeOK, Release
  <2>. QED
    BY <2>1, <2>2, <2>3, TypeParts
<1>2. ASSUME InstallInv PROVE InstallInv'
  <2>. USE <1>2 DEF InstallInv
  <2>1. Places'
    BY Indexed DEF Places, Untouched, Complete, Ending, TypeOK, CopyInv, BackupInv, RestoreInv,
         Nothing, Kept, Back
  <2>2. BackupInv'
    BY Members DEF BackupInv, Places, TypeOK, Untouched, Nothing
  <2>3. CopyInv'
    BY Members DEF CopyInv, BackupInv, Places, TypeOK
  <2>4. RollbackLoop'
    BY Indexed, Members DEF RollbackLoop, Safe, BackupInv, CopyInv, Places, TypeOK, Kept, Back, Untouched,
         Complete, Ending, Nothing
  <2>5. LauncherMoves'
    BY Contents DEF LauncherMoves, Places, Untouched, Complete, Ending, TypeOK
  <2>. QED
    BY <2>1, <2>2, <2>3, <2>4, <2>5
<1>3. ASSUME InstallInv, Recoverable PROVE Recoverable'
  BY <1>3, Indexed DEF InstallInv, Recoverable, TypeOK, Places, BackupInv, CopyInv, RollbackLoop, Kept, Back,
       Untouched, Complete, Ending, Nothing
<1>4. ASSUME InstallInv, RollbackInv PROVE RollbackInv'
  <2>. USE <1>4 DEF InstallInv, RollbackInv
  <2>1. RestoreInv'
    BY Indexed, Members DEF RestoreInv, RollbackLoop, BackupInv, CopyInv, Places, TypeOK, Kept, Back, Untouched,
         Complete, Ending, Nothing
  <2>2. LauncherInv'
    BY Contents DEF LauncherInv, LauncherMoves, LauncherKept, Places, Untouched, Complete, Ending, TypeOK
  <2>3. Recoverable'
    BY <1>3
  <2>. QED
    BY <2>1, <2>2, <2>3
<1>. QED
  BY <1>1, <1>2, <1>3, <1>4

LEMMA CrashStep ==
  ASSUME TypeOK, Crash
  PROVE  /\ TypeOK'
         /\ InstallInv => InstallInv'
         /\ InstallInv /\ Recoverable => Recoverable'
         /\ InstallInv /\ RollbackInv => RollbackInv'
<1>. USE DEF Crash, game, settings, launchers, latest
<1>1. TypeOK'
  <2>1. TypeLoop'
    BY Contents, Lengths DEF TypeLoop, TypeOK, More
  <2>2. TypeGame'
    BY Contents DEF TypeGame, TypeOK, Content, Nothing
  <2>3. TypeRest'
    BY Bounds DEF TypeRest, TypeOK, Release
  <2>. QED
    BY <2>1, <2>2, <2>3, TypeParts
<1>2. ASSUME InstallInv PROVE InstallInv'
  <2>. USE <1>2 DEF InstallInv
  <2>1. Places'
    BY Indexed DEF Places, Untouched, Complete, Ending, TypeOK, CopyInv, BackupInv, RestoreInv,
         Nothing, Kept, Back
  <2>2. BackupInv'
    BY Members DEF BackupInv, Places, TypeOK, Untouched, Nothing
  <2>3. CopyInv'
    BY Members DEF CopyInv, BackupInv, Places, TypeOK
  <2>4. RollbackLoop'
    BY Indexed, Members DEF RollbackLoop, Safe, BackupInv, CopyInv, Places, TypeOK, Kept, Back, Untouched,
         Complete, Ending, Nothing
  <2>5. LauncherMoves'
    BY Contents DEF LauncherMoves, Places, Untouched, Complete, Ending, TypeOK
  <2>. QED
    BY <2>1, <2>2, <2>3, <2>4, <2>5
<1>3. ASSUME InstallInv, Recoverable PROVE Recoverable'
  BY <1>3, Indexed DEF InstallInv, Recoverable, TypeOK, Places, BackupInv, CopyInv, RollbackLoop, Kept, Back,
       Untouched, Complete, Ending, Nothing
<1>4. ASSUME InstallInv, RollbackInv PROVE RollbackInv'
  <2>. USE <1>4 DEF InstallInv, RollbackInv
  <2>1. RestoreInv'
    BY Indexed, Members DEF RestoreInv, RollbackLoop, BackupInv, CopyInv, Places, TypeOK, Kept, Back, Untouched,
         Complete, Ending, Nothing
  <2>2. LauncherInv'
    BY Contents DEF LauncherInv, LauncherMoves, LauncherKept, Places, Untouched, Complete, Ending, TypeOK
  <2>3. Recoverable'
    BY <1>3
  <2>. QED
    BY <2>1, <2>2, <2>3
<1>. QED
  BY <1>1, <1>2, <1>3, <1>4

LEMMA StartLauncherStep ==
  ASSUME TypeOK, StartLauncher
  PROVE  /\ TypeOK'
         /\ InstallInv => InstallInv'
         /\ InstallInv /\ Recoverable => Recoverable'
         /\ InstallInv /\ RollbackInv => RollbackInv'
<1>. USE DEF StartLauncher, game, settings, launchers, latest, history
<1>1. TypeOK'
  <2>1. TypeLoop'
    BY Contents, Lengths DEF TypeLoop, TypeOK, More
  <2>2. TypeGame'
    BY Contents DEF TypeGame, TypeOK, Content, Nothing
  <2>3. TypeRest'
    BY Contents DEF TypeRest, TypeOK, Release
  <2>. QED
    BY <2>1, <2>2, <2>3, TypeParts
<1>2. ASSUME InstallInv PROVE InstallInv'
  <2>. USE <1>2 DEF InstallInv
  <2>1. Places'
    BY Indexed DEF Places, Untouched, Complete, Ending, TypeOK, CopyInv, BackupInv, RestoreInv,
         Nothing, Kept, Back
  <2>2. BackupInv'
    BY Members DEF BackupInv, Places, TypeOK, Untouched, Nothing
  <2>3. CopyInv'
    BY Members DEF CopyInv, BackupInv, Places, TypeOK
  <2>4. RollbackLoop'
    BY Indexed, Members DEF RollbackLoop, Safe, BackupInv, CopyInv, Places, TypeOK, Kept, Back, Untouched,
         Complete, Ending, Nothing
  <2>5. LauncherMoves'
    BY Contents DEF LauncherMoves, Places, Untouched, Complete, Ending, TypeOK
  <2>. QED
    BY <2>1, <2>2, <2>3, <2>4, <2>5
<1>3. ASSUME InstallInv, Recoverable PROVE Recoverable'
  BY <1>3, Indexed DEF InstallInv, Recoverable, TypeOK, Places, BackupInv, CopyInv, RollbackLoop, Kept, Back,
       Untouched, Complete, Ending, Nothing
<1>4. ASSUME InstallInv, RollbackInv PROVE RollbackInv'
  <2>. USE <1>4 DEF InstallInv, RollbackInv
  <2>1. RestoreInv'
    BY Indexed, Members DEF RestoreInv, RollbackLoop, BackupInv, CopyInv, Places, TypeOK, Kept, Back, Untouched,
         Complete, Ending, Nothing
  <2>2. LauncherInv'
    BY Contents DEF LauncherInv, LauncherMoves, LauncherKept, Places, Untouched, Complete, Ending, TypeOK
  <2>3. Recoverable'
    BY <1>3
  <2>. QED
    BY <2>1, <2>2, <2>3
<1>. QED
  BY <1>1, <1>2, <1>3, <1>4

LEMMA Stutters ==
  ASSUME UNCHANGED vars
  PROVE  (TypeOK => TypeOK') /\ (InstallInv => InstallInv') /\ (RollbackInv => RollbackInv')
<1>. USE DEF vars, game, settings, launchers, latest, history
<1>1. TypeOK => TypeOK'
  BY TypeParts DEF TypeLoop, TypeGame, TypeRest, More
<1>2. InstallInv => InstallInv'
  BY DEF InstallInv, Places, BackupInv, CopyInv, RollbackLoop, LauncherMoves,
     Safe, Kept, p
<1>3. RollbackInv => RollbackInv'
  BY DEF RollbackInv, RestoreInv, LauncherInv, LauncherKept, Recoverable, Kept, Back, p
<1>. QED
  BY <1>1, <1>2, <1>3

LEMMA NextInv ==
  ASSUME TypeOK, [Next]_vars
  PROVE  /\ TypeOK'
         /\ InstallInv => InstallInv'
         /\ "restore" \notin Faults /\ InstallInv /\ RollbackInv => RollbackInv'
<1>1. CASE Work
  BY <1>1, DownloadStep, ExtractStep, MergeConfStep, WriteConfStep, BackupStep, EndBackupStep,
     CopyTreeStep, CopyFileStep, EndCopyStep, RemoveOldStep, RenameOutStep, RenameInStep,
     RemoveNewStep, UnstageStep, RestoreStep, PutBackStep, EndRestoreStep, DiscardStep,
     FinishStep DEF Work
<1>2. CASE UNCHANGED vars
  BY <1>2, Stutters
<1>. QED
  BY <1>1, <1>2, StartUpdateStep, CrashStep, StartLauncherStep DEF Next

-----------------------------------------------------------------------------
(* With every operation failing, the renames of the rollback too *)

\* The ranges of the variables.
THEOREM TypeCorrect == Spec => []TypeOK
<1>1. TypeOK /\ [Next]_vars => TypeOK'
  BY NextInv
<1>2. Init => TypeOK
  BY InitIInv DEF IInv
<1>. QED
  BY <1>1, <1>2, PTL DEF Spec

\* Where the paths and the launcher are in each phase, up to the first step of the rollback,
\* holds whatever fails.
THEOREM InstallInvariance == Spec => [](TypeOK /\ InstallInv)
<1>1. TypeOK /\ InstallInv /\ [Next]_vars => (TypeOK /\ InstallInv)'
  BY NextInv
<1>2. Init => TypeOK /\ InstallInv
  BY InitIInv DEF IInv
<1>. QED
  BY <1>1, <1>2, PTL DEF Spec

\* "no error" of startUpdate's goroutine can be trusted: the release is installed as a whole,
\* and nothing else is left, although earlier updates may have failed and lost anything in
\* their rollbacks.
SuccessIsWhole ==
  phase = "done" /\ ~err =>
    /\ root = archive
    /\ launcher = IF archive_launcher = None THEN before_launcher ELSE archive_launcher

\* An update that reports success has installed the release whole.
THEOREM SuccessCanBeTrusted == Spec => []SuccessIsWhole
<1>1. InstallInv => SuccessIsWhole
  BY DEF InstallInv, Places, LauncherMoves, SuccessIsWhole, Ending
<1>. QED
  BY <1>1, InstallInvariance, PTL

\* Until the first step of the rollback the backup is complete: all that installStaged and
\* replaceLauncher do before they succeed or return an error can be undone.
THEOREM BackupIsComplete ==
  Spec => [](phase \notin {"idle", "dead", "restore", "putback", "discard", "done"} => Recoverable)
<1>1. TypeOK /\ InstallInv
        => (phase \notin {"idle", "dead", "restore", "putback", "discard", "done"} => Recoverable)
  <2>. SUFFICES ASSUME TypeOK, InstallInv,
                       phase \notin {"idle", "dead", "restore", "putback", "discard", "done"}
                PROVE  Recoverable
    OBVIOUS
  <2>1. CASE phase \in Untouched \cup Complete \cup {"unstage"}
    BY <2>1 DEF InstallInv, Places, Recoverable, Kept, Ending, Untouched, Complete
  <2>2. CASE phase \in {"backup", "copy", "copying"}
    <3>1. \A i \in DOMAIN managedPaths : \/ root[managedPaths[i]] = before[managedPaths[i]]
                                         \/ backup[managedPaths[i]] = before[managedPaths[i]]
      BY <2>2, Lengths DEF InstallInv, BackupInv, CopyInv, TypeOK
    <3>. QED
      BY <3>1, Indexed DEF Recoverable
  <2>. QED
    BY <2>1, <2>2 DEF TypeOK, Untouched, Complete
<1>. QED
  BY <1>1, InstallInvariance, PTL

\* Whatever fails and whenever the launcher dies, one step alone can lose the old game: the
\* removal of the backup.
OnlyDiscardLoses == [][Recoverable /\ ~Recoverable' => phase = "discard"]_vars

\* Of all steps, failing or not, only os.RemoveAll(backupDir) can make the old game unrecoverable.
THEOREM GameIsLostByDiscardAlone == Spec => OnlyDiscardLoses
<1>1. TypeOK /\ InstallInv /\ [Next]_vars
        => [Recoverable /\ ~Recoverable' => phase = "discard"]_vars
  <2>. SUFFICES ASSUME TypeOK, InstallInv, Next, Recoverable, phase # "discard"
                PROVE  Recoverable'
    BY DEF Discard
  <2>1. CASE Work
    BY <2>1, DownloadStep, ExtractStep, MergeConfStep, WriteConfStep, BackupStep, EndBackupStep,
       CopyTreeStep, CopyFileStep, EndCopyStep, RemoveOldStep, RenameOutStep, RenameInStep,
       RemoveNewStep, UnstageStep, RestoreStep, PutBackStep, EndRestoreStep, FinishStep
       DEF Work, Discard
  <2>. QED
    BY <2>1, StartUpdateStep, CrashStep, StartLauncherStep DEF Next
<1>. QED
  BY <1>1, InstallInvariance, PTL DEF Spec, OnlyDiscardLoses

\* One step alone can take the last launcher away: the removal of launcher.old, when an earlier
\* update could neither move its launcher in nor put the old one back.
OnlyRemoveOldLoses == [][LauncherKept /\ ~LauncherKept' => phase = "removeold"]_vars

LEMMA LauncherSteps ==
  ASSUME TypeOK, InstallInv, LauncherKept, Next, phase # "removeold"
  PROVE  LauncherKept'
<1>. USE DEF LauncherKept, launchers
<1>1. CASE RenameOut \/ RenameIn \/ RemoveNew
  <2>1. phase \in Complete => staged_launcher # None \/ phase = "removenew"
    BY DEF InstallInv, LauncherMoves, Complete
  <2>2. phase = "removenew" => launcher # None
    BY DEF InstallInv, LauncherMoves, Complete
  <2>3. phase = "renamein" => launcher = None
    BY DEF InstallInv, LauncherMoves
  <2>. QED
    BY <1>1, <2>1, <2>2, <2>3 DEF RenameOut, RenameIn, MovedIn, RemoveNew, Complete
<1>2. CASE StartUpdate \/ Crash \/ StartLauncher
  BY <1>2 DEF StartUpdate, Crash, StartLauncher
<1>3. CASE Work /\ ~(RenameOut \/ RenameIn \/ RemoveNew)
  <2>1. UNCHANGED <<launcher, launcher_old>>
    BY <1>3 DEF Work, Download, Extract, MergeConf, WriteConf, Backup, EndBackup, CopyTree,
       CopyFile, EndCopy, RemoveOld, Unstage, Restore, PutBack, EndRestore, Discard, Finish
  <2>. QED
    BY <2>1
<1>. QED
  BY <1>1, <1>2, <1>3 DEF Next

\* Of all steps, failing or not, only the removal of launcher.old can leave no launcher.
THEOREM LauncherIsLostByRemoveOldAlone == Spec => OnlyRemoveOldLoses
<1>1. TypeOK /\ InstallInv /\ [Next]_vars
        => [LauncherKept /\ ~LauncherKept' => phase = "removeold"]_vars
  BY LauncherSteps
<1>. QED
  BY <1>1, InstallInvariance, PTL DEF Spec, OnlyRemoveOldLoses

-----------------------------------------------------------------------------
(* How long an update takes *)

\* A bound of the steps the goroutine still takes: one for each path that is moved away, two
\* for each that is copied in, two for each that is put back.
StepsLeft ==
  LET n == Len(managedPaths) IN
  CASE phase = "download"  -> 5 * n + 14
    [] phase = "extract"   -> 5 * n + 13
    [] phase = "conf"      -> 5 * n + 12
    [] phase = "confwrite" -> 5 * n + 11
    [] phase = "backup"    -> 5 * n + 11 - idx
    [] phase = "copy"      -> 4 * n + 11 - 2 * idx
    [] phase = "copying"   -> 4 * n + 10 - 2 * idx
    [] phase = "removeold" -> 2 * n + 8
    [] phase = "renameout" -> 2 * n + 7
    [] phase = "renamein"  -> 2 * n + 6
    [] phase = "removenew" -> 2 * n + 5
    [] phase = "unstage"   -> 2 * n + 4
    [] phase = "restore"   -> 2 * n + 5 - 2 * idx
    [] phase = "putback"   -> 2 * n + 4 - 2 * idx
    [] phase = "discard"   -> 2
    [] phase = "done"      -> 1
    [] OTHER               -> 0

LEMMA StepsLeftIsNat == TypeOK => StepsLeft \in Nat
<1>. SUFFICES ASSUME TypeOK PROVE StepsLeft \in Nat
  OBVIOUS
<1>. DEFINE n == Len(managedPaths)
<1>1. n \in Nat /\ idx \in Nat /\ idx <= n + 1
  BY Lengths DEF TypeOK
<1>2. phase \in {"copying", "putback"} => idx <= n
  BY DEF TypeOK, More
<1>3. CASE phase \in {"backup", "copy", "restore"}
  <2>1. 5 * n + 11 - idx \in Nat /\ 4 * n + 11 - 2 * idx \in Nat /\ 2 * n + 5 - 2 * idx \in Nat
    BY <1>1
  <2>. QED
    BY <1>3, <2>1 DEF StepsLeft
<1>4. CASE phase \in {"copying", "putback"}
  <2>1. 4 * n + 10 - 2 * idx \in Nat /\ 2 * n + 4 - 2 * idx \in Nat
    BY <1>1, <1>2, <1>4
  <2>. QED
    BY <1>4, <2>1 DEF StepsLeft
<1>5. CASE phase \notin {"backup", "copy", "restore", "copying", "putback"}
  <2>1. /\ 5 * n + 14 \in Nat /\ 5 * n + 13 \in Nat /\ 5 * n + 12 \in Nat /\ 5 * n + 11 \in Nat
        /\ 2 * n + 8 \in Nat /\ 2 * n + 7 \in Nat /\ 2 * n + 6 \in Nat /\ 2 * n + 5 \in Nat
        /\ 2 * n + 4 \in Nat
    BY <1>1
  <2>. QED
    BY <1>5, <2>1 DEF StepsLeft
<1>. QED
  BY <1>3, <1>4, <1>5

LEMMA WorkAdvances == ASSUME TypeOK, Work PROVE StepsLeft' < StepsLeft
<1>1. Len(managedPaths) \in Nat /\ idx \in Nat /\ 1 <= idx /\ idx <= Len(managedPaths) + 1
  BY Lengths DEF TypeOK
<1>2. phase \in {"copying", "putback"} => idx <= Len(managedPaths)
  BY DEF TypeOK, More
<1>. USE <1>1, <1>2 DEF StepsLeft, Return, More
<1>3. CASE Download \/ Extract \/ MergeConf \/ WriteConf
  BY <1>3 DEF Download, Extract, MergeConf, WriteConf
<1>4. CASE Backup \/ EndBackup
  BY <1>4 DEF Backup, EndBackup
<1>5. CASE CopyTree \/ CopyFile \/ EndCopy
  BY <1>5 DEF CopyTree, CopyFile, EndCopy
<1>6. CASE RemoveOld \/ RenameOut \/ RenameIn \/ RemoveNew
  BY <1>6 DEF RemoveOld, RenameOut, RenameIn, MovedIn, RemoveNew
<1>7. CASE Unstage \/ Restore \/ PutBack \/ EndRestore
  BY <1>7 DEF Unstage, Restore, PutBack, EndRestore
<1>8. CASE Discard \/ Finish
  BY <1>8 DEF Discard, Finish
<1>. QED
  BY <1>3, <1>4, <1>5, <1>6, <1>7, <1>8 DEF Work

\* An update is over after 5 * Len(managedPaths) + 14 steps of its goroutine at most, whatever
\* fails in it: no loop begins a path again. (That it takes them is fairness, and TLC's.)
UpdateAdvances == [](StepsLeft \in Nat) /\ [][Work => StepsLeft' < StepsLeft]_vars

\* Every step of the goroutine brings the end of the update nearer.
THEOREM UpdatesAreBounded == Spec => UpdateAdvances
<1>1. TypeOK /\ [Next]_vars => [Work => StepsLeft' < StepsLeft]_vars
  BY WorkAdvances
<1>. QED
  BY <1>1, StepsLeftIsNat, TypeCorrect, PTL DEF Spec, UpdateAdvances

-----------------------------------------------------------------------------
(* With every operation failing but the renames that put something back *)

\* The inductive invariant, when no rename of the rollback fails.
THEOREM Invariance == ASSUME "restore" \notin Faults PROVE Spec => []IInv
<1>1. IInv /\ [Next]_vars => IInv'
  BY NextInv DEF IInv
<1>. QED
  BY <1>1, InitIInv, PTL DEF Spec

\* A failure or a crash at any operation leaves the old game or has the new one.
THEOREM OldGameRecoverable == ASSUME "restore" \notin Faults PROVE Spec => []Recoverable
<1>1. IInv => Recoverable
  BY DEF IInv, RollbackInv
<1>. QED
  BY <1>1, Invariance, PTL

\* An update that is over did all or nothing to the paths of the old game.
THEOREM UpdateIsAllOrNothing == ASSUME "restore" \notin Faults PROVE Spec => []AllOrNothing
<1>1. IInv => AllOrNothing
  BY DEF IInv, TypeOK, InstallInv, RollbackInv, Places, LauncherMoves, RestoreInv, LauncherInv,
     AllOrNothing, Ending, Back
<1>. QED
  BY <1>1, Invariance, PTL

\* There is a launcher under one of its two names.
THEOREM LauncherIsKept == ASSUME "restore" \notin Faults PROVE Spec => []LauncherKept
<1>1. IInv => LauncherKept
  BY DEF IInv, RollbackInv, LauncherInv
<1>. QED
  BY <1>1, Invariance, PTL
=============================================================================
