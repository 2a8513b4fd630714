------------------------------ MODULE Updater ------------------------------
(***************************************************************************)
(* The launcher's self-update: startUpdate and the goroutine behind it,    *)
(* launcher/update.go. One step is one operation on the file system that   *)
(* can fail by itself or be the last one before the process dies.          *)
(*                                                                         *)
(* A path of the game root holds a release, by its number, nothing, or a   *)
(* torn copy. What is inside a path does not matter to the updater, except *)
(* for minetest.conf, whose merge is the module ConfMerge of the plan.     *)
(*                                                                         *)
(* Left out: the Windows branch of replaceLauncher, which hands the swap   *)
(* to a script that runs after the launcher's exit, and the byte counts of *)
(* the progress display.                                                   *)
(***************************************************************************)
EXTENDS Integers, Sequences

CONSTANTS
  managedPaths,  \* the game-content paths a release owns, in the order they are installed
  Required,      \* paths validateStaging asks for
  Faults,        \* what may fail: subset of Fault
  None,          \* nothing at a path
  Torn,          \* an incomplete copy at a path
  MaxUpdates,    \* bound: updates started
  MaxCrashes     \* bound: times the launcher is closed or dies

Path == {managedPaths[i] : i \in DOMAIN managedPaths}
Fault == {"download", "extract", "conf", "backup", "copy", "launcher", "restore"}
Release == 0..MaxUpdates
Content == Release \cup {None, Torn}
Nothing == [p \in Path |-> None]

ASSUME ParameterAssumption ==
  /\ managedPaths \in Seq(Path)
  /\ \A i, j \in DOMAIN managedPaths : managedPaths[i] = managedPaths[j] => i = j
  /\ Required \subseteq Path
  /\ Faults \subseteq Fault
  /\ MaxUpdates \in Nat /\ MaxCrashes \in Nat
  /\ None \notin Release /\ Torn \notin Release /\ None # Torn

VARIABLES
  phase,            \* where the goroutine is; "idle" without one, "dead" without a process
  idx,              \* the next index of the loop over managedPaths
  err,              \* the error downloadAndInstall is about to return is not nil
  running,          \* updateState.Running
  failed,           \* updateState.Err is not empty
  root,             \* the managed paths in the game root
  staging,          \* the managed paths in .update-staging-<ts>
  backup,           \* the managed paths in .update-backup-<ts>
  conf,             \* the player's settings in minetest.conf are "whole" or "torn"
  local,            \* mergeMinetestConf's local: what it read of minetest.conf
  launcher,         \* the launcher binary
  launcher_old,     \* launcher.old
  staged_launcher,  \* the launcher binary in staging
  release,          \* the number of the latest release; counts the updates
  archive,          \* the managed paths of its archive
  archive_launcher, \* the launcher in its archive
  crashes,          \* how often the process died
  before,           \* history: the game root when the update began
  before_launcher   \* history: the launcher when the update began

game == <<root, staging, backup>>
settings == <<conf, local>>
launchers == <<launcher, launcher_old, staged_launcher>>
latest == <<release, archive, archive_launcher>>
history == <<crashes, before, before_launcher>>
vars == <<phase, idx, err, running, failed, game, settings, launchers, latest, history>>

Init ==
  /\ phase = "idle" /\ idx = 1 /\ err = FALSE
  /\ running = FALSE /\ failed = FALSE
  /\ root \in [Path -> {0, None}]
  /\ staging = Nothing /\ backup = Nothing
  /\ conf = "whole" /\ local = "whole"
  /\ launcher = 0 /\ launcher_old = None /\ staged_launcher = None
  /\ release = 0 /\ archive = Nothing /\ archive_launcher = None
  /\ crashes = 0
  /\ before = root /\ before_launcher = launcher

p == managedPaths[idx]
More == idx <= Len(managedPaths)

-----------------------------------------------------------------------------
(* startUpdate and the download *)

\* A second call returns an error and changes nothing. The release may lack anything.
StartUpdate ==
  /\ phase = "idle"
  /\ ~running
  /\ release < MaxUpdates
  /\ running' = TRUE
  /\ failed' = FALSE
  /\ phase' = "download"
  /\ err' = FALSE
  /\ release' = release + 1
  /\ \E content \in SUBSET Path :
       archive' = [q \in Path |-> IF q \in content THEN release' ELSE None]
  /\ archive_launcher' \in {None, release'}
  /\ before' = root
  /\ before_launcher' = launcher
  /\ UNCHANGED <<idx, game, settings, launchers, crashes>>

\* fetchLatestRelease, downloadToTemp and the checksum. What an earlier update left in
\* its directories stays there; this one has directories of its own.
Download ==
  /\ phase = "download"
  /\ \/ phase' = "extract" /\ UNCHANGED err
     \/ "download" \in Faults /\ phase' = "done" /\ err' = TRUE
  /\ backup' = Nothing /\ staging' = Nothing /\ staged_launcher' = None
  /\ UNCHANGED <<idx, running, failed, root, settings, launcher, launcher_old, latest, history>>

\* Mutant: the deferred function sees a shadowed err.
ReturnShadowed(e) == phase' = "unstage" /\ err' = FALSE

\* A return runs the deferred function: staging goes, the backup is used or dropped.
Return(e) == phase' = "unstage" /\ err' = e

\* extractArchive and validateStaging
Extract ==
  /\ phase = "extract"
  /\ \/ /\ staging' = archive /\ staged_launcher' = archive_launcher
        /\ \/ (\A q \in Required : archive[q] # None) /\ phase' = "conf" /\ UNCHANGED err
           \/ (\E q \in Required : archive[q] = None) /\ Return(TRUE)
     \/ "extract" \in Faults /\ Return(TRUE) /\ UNCHANGED <<staging, staged_launcher>>
  /\ UNCHANGED <<idx, running, failed, root, backup, settings, launcher, launcher_old,
                 latest, history>>

-----------------------------------------------------------------------------
(* installStaged *)

\* mergeMinetestConf has nothing to add, cannot read, or truncates the file to write it.
MergeConf ==
  /\ phase = "conf"
  /\ idx' = 1
  /\ local' = conf
  /\ \/ phase' = "backup" /\ UNCHANGED <<err, conf>>
     \/ phase' = "confwrite" /\ conf' = "torn" /\ UNCHANGED err
     \/ "conf" \in Faults /\ Return(TRUE) /\ UNCHANGED conf
  /\ UNCHANGED <<running, failed, game, launchers, latest, history>>

WriteConf ==
  /\ phase = "confwrite"
  /\ \/ phase' = "backup" /\ conf' = local /\ UNCHANGED err
     \/ "conf" \in Faults /\ Return(TRUE) /\ UNCHANGED conf
  /\ UNCHANGED <<idx, running, failed, local, game, launchers, latest, history>>

\* The first loop moves what is installed out of the way, one rename per path.
Backup ==
  /\ phase = "backup"
  /\ More
  /\ \/ root[p] = None /\ idx' = idx + 1 /\ UNCHANGED <<phase, err, root, backup>>
     \/ /\ root[p] # None
        /\ root' = [root EXCEPT ![p] = None]
        /\ backup' = [backup EXCEPT ![p] = root[p]]
        /\ idx' = idx + 1
        /\ UNCHANGED <<phase, err>>
     \/ "backup" \in Faults /\ root[p] # None /\ Return(TRUE) /\ UNCHANGED <<idx, root, backup>>
  /\ UNCHANGED <<running, failed, staging, settings, launchers, latest, history>>

\* Mutant: the second loop begins one before the first path.
EndBackupEarly ==
  /\ phase = "backup"
  /\ ~More
  /\ phase' = "copy" /\ idx' = 0
  /\ UNCHANGED <<err, running, failed, game, settings, launchers, latest, history>>

EndBackup ==
  /\ phase = "backup"
  /\ ~More
  /\ phase' = "copy" /\ idx' = 1
  /\ UNCHANGED <<err, running, failed, game, settings, launchers, latest, history>>

\* The second loop copies the staged paths in, file by file.
CopyTree ==
  /\ phase = "copy"
  /\ More
  /\ \/ staging[p] = None /\ idx' = idx + 1 /\ UNCHANGED <<phase, root>>
     \/ staging[p] # None /\ root' = [root EXCEPT ![p] = Torn] /\ phase' = "copying" /\ UNCHANGED idx
  /\ UNCHANGED <<err, running, failed, staging, backup, settings, launchers, latest, history>>

\* The last file of the tree is there, or one of them could not be copied.
CopyFile ==
  /\ phase = "copying"
  /\ \/ /\ root' = [root EXCEPT ![p] = staging[p]]
        /\ phase' = "copy"
        /\ idx' = idx + 1
        /\ UNCHANGED err
     \/ "copy" \in Faults /\ Return(TRUE) /\ UNCHANGED <<root, idx>>
  /\ UNCHANGED <<running, failed, staging, backup, settings, launchers, latest, history>>

EndCopy ==
  /\ phase = "copy"
  /\ ~More
  /\ \/ staged_launcher = None /\ Return(FALSE)
     \/ staged_launcher # None /\ phase' = "removeold" /\ UNCHANGED err
  /\ UNCHANGED <<idx, running, failed, game, settings, launchers, latest, history>>

-----------------------------------------------------------------------------
(* replaceLauncher, on Linux *)

\* os.Remove(backup). Its error is ignored: the rename that follows replaces the file.
RemoveOld ==
  /\ phase = "removeold"
  /\ phase' = "renameout"
  /\ launcher_old' = None
  /\ UNCHANGED <<idx, err, running, failed, game, settings, launcher, staged_launcher,
                 latest, history>>

RenameOut ==
  /\ phase = "renameout"
  /\ \/ launcher = None /\ phase' = "renamein" /\ UNCHANGED <<err, launcher, launcher_old>>
     \/ /\ launcher # None
        /\ phase' = "renamein"
        /\ launcher' = None /\ launcher_old' = launcher
        /\ UNCHANGED err
     \/ "launcher" \in Faults /\ launcher # None /\ Return(TRUE) /\ UNCHANGED <<launcher, launcher_old>>
  /\ UNCHANGED <<idx, running, failed, game, settings, staged_launcher, latest, history>>

MovedIn ==
  /\ phase' = "removenew"
  /\ launcher' = staged_launcher /\ staged_launcher' = None
  /\ UNCHANGED <<err, launcher_old>>

\* Mutant: a launcher that cannot be moved in is not put back.
RenameInLax ==
  /\ phase = "renamein"
  /\ \/ MovedIn
     \/ "launcher" \in Faults /\ Return(TRUE) /\ UNCHANGED launchers
  /\ UNCHANGED <<idx, running, failed, game, settings, latest, history>>

\* The error of the rename that puts the old launcher back is ignored.
RenameIn ==
  /\ phase = "renamein"
  /\ \/ MovedIn
     \/ /\ "launcher" \in Faults
        /\ Return(TRUE)
        /\ \/ launcher' = launcher_old /\ launcher_old' = None
           \/ "restore" \in Faults /\ UNCHANGED <<launcher, launcher_old>>
        /\ UNCHANGED staged_launcher
  /\ UNCHANGED <<idx, running, failed, game, settings, latest, history>>

RemoveNew ==
  /\ phase = "removenew"
  /\ launcher_old' = None
  /\ Return(FALSE)
  /\ UNCHANGED <<idx, running, failed, game, settings, launcher, staged_launcher, latest, history>>

-----------------------------------------------------------------------------
(* The deferred function of downloadAndInstall, and the end of the goroutine *)

Unstage ==
  /\ phase = "unstage"
  /\ staging' = Nothing /\ staged_launcher' = None
  /\ idx' = 1
  /\ phase' = IF err THEN "restore" ELSE "discard"
  /\ UNCHANGED <<err, running, failed, root, backup, settings, launcher, launcher_old,
                 latest, history>>

\* restoreBackup: what was installed of the path goes ...
Restore ==
  /\ phase = "restore"
  /\ More
  /\ \/ backup[p] = None /\ idx' = idx + 1 /\ UNCHANGED <<phase, root>>
     \/ backup[p] # None /\ root' = [root EXCEPT ![p] = None] /\ phase' = "putback" /\ UNCHANGED idx
  /\ UNCHANGED <<err, running, failed, staging, backup, settings, launchers, latest, history>>

\* Mutant: the loop stops after the first path it restored.
PutBackOnce ==
  /\ phase = "putback"
  /\ root' = [root EXCEPT ![p] = backup[p]]
  /\ backup' = [backup EXCEPT ![p] = None]
  /\ phase' = "restore"
  /\ idx' = Len(managedPaths) + 1
  /\ UNCHANGED <<err, running, failed, staging, settings, launchers, latest, history>>

\* Mutant: the loop begins with the path again.
PutBackForever ==
  /\ phase = "putback"
  /\ root' = [root EXCEPT ![p] = backup[p]]
  /\ phase' = "restore"
  /\ UNCHANGED <<idx, err, running, failed, staging, backup, settings, launchers, latest, history>>

\* ... and what was there before comes back. An error of the rename is ignored.
PutBack ==
  /\ phase = "putback"
  /\ \/ root' = [root EXCEPT ![p] = backup[p]] /\ backup' = [backup EXCEPT ![p] = None]
     \/ "restore" \in Faults /\ UNCHANGED <<root, backup>>
  /\ phase' = "restore"
  /\ idx' = idx + 1
  /\ UNCHANGED <<err, running, failed, staging, settings, launchers, latest, history>>

EndRestore ==
  /\ phase = "restore"
  /\ ~More
  /\ phase' = "discard"
  /\ UNCHANGED <<idx, err, running, failed, game, settings, launchers, latest, history>>

\* os.RemoveAll(backup), after a success as well as at the end of restoreBackup.
Discard ==
  /\ phase = "discard"
  /\ backup' = Nothing
  /\ phase' = "done"
  /\ UNCHANGED <<idx, err, running, failed, root, staging, settings, launchers, latest, history>>

Finish ==
  /\ phase = "done"
  /\ phase' = "idle"
  /\ running' = FALSE
  /\ failed' = err
  /\ UNCHANGED <<idx, err, game, settings, launchers, latest, history>>

-----------------------------------------------------------------------------
(* The process *)

\* The launcher is closed or killed, or the machine goes down.
Crash ==
  /\ phase # "dead"
  /\ crashes < MaxCrashes
  /\ crashes' = crashes + 1
  /\ phase' = "dead"
  /\ UNCHANGED <<idx, err, running, failed, game, settings, launchers, latest, before, before_launcher>>

\* The player starts it again, if it is there.
StartLauncher ==
  /\ phase = "dead"
  /\ launcher # None
  /\ phase' = "idle"
  /\ running' = FALSE /\ failed' = FALSE
  /\ UNCHANGED <<idx, err, game, settings, launchers, latest, history>>

Work == Download \/ Extract \/ MergeConf \/ WriteConf \/ Backup \/ EndBackup \/ CopyTree
          \/ CopyFile \/ EndCopy \/ RemoveOld \/ RenameOut \/ RenameIn \/ RemoveNew
          \/ Unstage \/ Restore \/ PutBack \/ EndRestore \/ Discard \/ Finish

Next == StartUpdate \/ Work \/ Crash \/ StartLauncher

Spec == Init /\ [][Next]_vars

\* The goroutine goes on; the HTTP clients have timeouts, so a download ends too.
FairSpec == Spec /\ WF_vars(Work)

-----------------------------------------------------------------------------
(* Properties *)

\* Every variable stays in its range.
TypeOK ==
  /\ phase \in {"idle", "dead", "download", "extract", "conf", "confwrite", "backup", "copy",
                "copying", "removeold", "renameout", "renamein", "removenew", "unstage",
                "restore", "putback", "discard", "done"}
  /\ idx \in 1..(Len(managedPaths) + 1)
  /\ phase \in {"copying", "putback"} => More
  /\ err \in BOOLEAN /\ running \in BOOLEAN /\ failed \in BOOLEAN
  /\ root \in [Path -> Content] /\ before \in [Path -> Content]
  /\ staging \in [Path -> Content] /\ backup \in [Path -> Content]
  /\ archive \in [Path -> Release \cup {None}]
  /\ conf \in {"whole", "torn"} /\ local \in {"whole", "torn"}
  /\ launcher \in Release \cup {None} /\ launcher_old \in Release \cup {None}
  /\ staged_launcher \in Release \cup {None} /\ archive_launcher \in Release \cup {None}
  /\ before_launcher \in Release \cup {None}
  /\ release \in Release /\ crashes \in 0..MaxCrashes

\* "existing managed paths are moved to backup first (so a failure can be rolled back)":
\* at every moment, after a crash too, each path of the old game is in the game root or
\* in the backup, unless the new game is there as a whole.
Recoverable ==
  \/ \A q \in Path : root[q] = before[q] \/ backup[q] = before[q]
  \/ root = archive

\* An update that returns no error installed the release and nothing else, whatever state
\* a crash left before it; one that returns an error left the old game and launcher.
\* (What it installed beside the old game may stay: restoreBackup visits only what it holds.)
AllOrNothing ==
  phase = "done" =>
    \/ /\ ~err
       /\ root = archive
       /\ launcher = IF archive_launcher = None THEN before_launcher ELSE archive_launcher
    \/ /\ err
       /\ \A q \in Path : before[q] # None => root[q] = before[q]
       /\ launcher = before_launcher

\* The player always finds a launcher, under its own name or as launcher.old, although
\* the two names change hands by renames with a crash or an error in between.
LauncherKept == launcher # None \/ launcher_old # None

\* An update ends, unless the launcher dies.
UpdateEnds == running ~> (~running \/ phase = "dead")
=============================================================================
