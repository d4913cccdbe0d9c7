------------------------------ MODULE Installer ------------------------------
(***************************************************************************)
(* `burning-progress install` and `uninstall` (src/src/install.c) over the *)
(* atomic file primitives of src/src/common.c.                             *)
(*                                                                         *)
(* A command is a list of stages.  A stage that changes a file first       *)
(* changes the live view (rename or unlink) and then fsyncs the parent     *)
(* directory: syncing[p] tells which half process p is in.  A failed half  *)
(* of an install stage jumps to the rollback stages, as `goto rollback`    *)
(* does.  Power may fail, and a command may be killed, between any two     *)
(* steps.                                                                  *)
(***************************************************************************)
EXTENDS Disk, FiniteSets

CONSTANTS
  Procs,         \* commands that may run at once: the code takes no lock
  OriginalKind,  \* "symlink" or "regular": what /sbin/init was
  CanFail,       \* the stages whose rename, create, write or unlink may fail
  SyncCanFail    \* the stages whose directory fsync may fail

VARIABLES
  live,          \* path -> content, as running programs see it
  disk,          \* path -> content, as a crash leaves it
  stage,         \* Procs -> the stage the command is in, or how it ended
  syncing,       \* Procs -> has changed the live entry, not yet synced it
  inspected,     \* Procs -> /sbin/init as backup_original read it
  backupCreated, \* Procs -> bp_install's local of that name
  configCreated, \* Procs -> bp_install's local of that name
  before         \* Procs -> the live view when the command started (history)

vars == <<live, disk, stage, syncing, inspected, backupCreated, configCreated,
          before>>

-----------------------------------------------------------------------------
(* Files.  A content is named by what it is.                                *)

SbinPaths == {"init", "backup", "burningInit", "progress"}
HostPaths == {"state", "config", "enable"}
Paths == SbinPaths \cup HostPaths

DirOf(path) == IF path \in SbinPaths THEN SbinPaths ELSE HostPaths

Binaries == {"binary", "modified"}
StateTexts == {"state-symlink", "state-regular"}
Contents ==
  {"absent", "original", "dispatcher", "config", "mark"} \cup Binaries
    \cup StateTexts

\* S_ISLNK of the file with this content.
KindOf(content) == IF content = "original" THEN OriginalKind ELSE "symlink"

\* format_state: the digests are those of the two binaries just copied.
StateText(kind) ==
  IF kind = "symlink" THEN "state-symlink" ELSE "state-regular"

-----------------------------------------------------------------------------
(* Stages.                                                                  *)

Resting == {"idle", "installed", "installFailed", "uninstalled",
            "uninstallFailed"}
PublishStages == {"copyInit", "copyProgress", "saveOriginal", "writeState",
                  "writeConfig", "switchInit"}
UndoStages == {"undoBackup", "undoState", "undoProgress", "undoInit",
               "undoConfig"}
CleanStages == {"removeEnable", "removeInit", "removeProgress",
                "removeState"}
Stages == Resting \cup PublishStages \cup UndoStages \cup CleanStages
            \cup {"inspectInit", "restoreInit"}

\* The file a stage publishes, removes or restores.
Target ==
  [copyInit |-> "burningInit", copyProgress |-> "progress",
   saveOriginal |-> "backup", writeState |-> "state",
   writeConfig |-> "config", switchInit |-> "init",
   undoBackup |-> "backup", undoState |-> "state",
   undoProgress |-> "progress", undoInit |-> "burningInit",
   undoConfig |-> "config", restoreInit |-> "init",
   removeEnable |-> "enable", removeInit |-> "burningInit",
   removeProgress |-> "progress", removeState |-> "state"]

\* The order of bp_install's calls, of its rollback and of bp_uninstall's.
Successor ==
  [copyInit |-> "copyProgress", copyProgress |-> "inspectInit",
   saveOriginal |-> "writeState", writeState |-> "writeConfig",
   writeConfig |-> "switchInit", switchInit |-> "installed",
   undoBackup |-> "undoState", undoState |-> "undoProgress",
   undoProgress |-> "undoInit", undoInit |-> "undoConfig",
   undoConfig |-> "installFailed",
   restoreInit |-> "removeEnable", removeEnable |-> "removeInit",
   removeInit |-> "removeProgress", removeProgress |-> "removeState",
   removeState |-> "uninstalled"]

\* Where a failed stage goes: removals ignore their failures.
Failure(s) ==
  CASE s \in PublishStages \cup {"inspectInit"} -> "undoBackup"
    [] s = "restoreInit" -> "uninstallFailed"
    [] OTHER -> Successor[s]

Move(p, s) == stage' = [stage EXCEPT ![p] = s]

-----------------------------------------------------------------------------
(* install                                                                  *)

IsDispatcher == live["init"] = "dispatcher"

CanInstall ==
  /\ ~IsDispatcher
  /\ \A path \in {"burningInit", "progress", "state"} : live[path] = "absent"

InstallStart(p) ==
  /\ stage[p] \in Resting
  /\ CanInstall
  /\ Move(p, "copyInit")
  /\ backupCreated' = [backupCreated EXCEPT ![p] = FALSE]
  /\ configCreated' = [configCreated EXCEPT ![p] = FALSE]
  /\ before' = [before EXCEPT ![p] = live]
  /\ UNCHANGED <<live, disk, syncing, inspected>>

\* Already installed, a destination exists, or the sources are unusable.
InstallRefused(p) ==
  /\ stage[p] \in Resting
  /\ Move(p, "installFailed")
  /\ UNCHANGED <<live, disk, syncing, inspected, backupCreated, configCreated,
                 before>>

\* Mutant: the binary itself is put at /sbin/init instead of a link to it.
PublishedWithoutLink(p, s) ==
  CASE s \in {"copyInit", "copyProgress", "switchInit"} -> "binary"
    [] s = "saveOriginal" -> inspected[p]
    [] s = "writeState" -> StateText(KindOf(inspected[p]))
    [] OTHER -> "config"

\* Mutant: the backup kind is taken from the link about to be installed.
PublishedKindOfLink(p, s) ==
  CASE s \in {"copyInit", "copyProgress"} -> "binary"
    [] s = "saveOriginal" -> inspected[p]
    [] s = "writeState" -> StateText(KindOf("dispatcher"))
    [] s = "writeConfig" -> "config"
    [] OTHER -> "dispatcher"

\* What the stage's atomic write, copy, symlink or hard link puts in place.
\* A symlink backup is made from the target read earlier, a regular one is
\* a hard link to what /sbin/init is now.
Published(p, s) ==
  CASE s \in {"copyInit", "copyProgress"} -> "binary"
    [] s = "saveOriginal" -> IF KindOf(inspected[p]) = "symlink"
                             THEN inspected[p] ELSE live["init"]
    [] s = "writeState" -> StateText(KindOf(inspected[p]))
    [] s = "writeConfig" -> "config"
    [] OTHER -> "dispatcher"

\* bp_host_config_ensure leaves an existing file alone.
NeedsPublish(s) == ~(s = "writeConfig" /\ live["config"] # "absent")

\* writeState takes the digests of the two binaries: another command may have
\* removed them.
CanDigest(s) ==
  s = "writeState" => live["burningInit"] # "absent" /\ live["progress"] # "absent"

\* The write first makes the parent directories that are missing and does not
\* fsync the entry of a directory it made: left out here, so what is durable
\* is so where the fsync of a new directory commits its own entry as well.
Publish(p) ==
  LET s == stage[p] IN
  /\ s \in PublishStages
  /\ ~syncing[p]
  /\ NeedsPublish(s) /\ CanDigest(s)
  /\ live' = [live EXCEPT ![Target[s]] = Published(p, s)]
  /\ syncing' = [syncing EXCEPT ![p] = TRUE]
  /\ UNCHANGED <<disk, stage, inspected, backupCreated, configCreated, before>>

KeepConfig(p) ==
  /\ stage[p] = "writeConfig"
  /\ ~syncing[p]
  /\ ~NeedsPublish("writeConfig")
  /\ Move(p, Successor["writeConfig"])
  /\ UNCHANGED <<live, disk, syncing, inspected, backupCreated, configCreated,
                 before>>

\* backup_original up to the link it makes: refuse an existing backup, read
\* what /sbin/init is.
InspectInit(p) ==
  /\ stage[p] = "inspectInit"
  /\ IF live["backup"] = "absent" /\ live["init"] # "absent"
       THEN /\ inspected' = [inspected EXCEPT ![p] = live["init"]]
            /\ Move(p, "saveOriginal")
       ELSE /\ Move(p, "undoBackup")
            /\ UNCHANGED inspected
  /\ UNCHANGED <<live, disk, syncing, backupCreated, configCreated, before>>

-----------------------------------------------------------------------------
(* Both commands.                                                           *)

\* Mutant: the directory is never synced.
SyncParentForgotten(p) ==
  LET s == stage[p] IN
  /\ syncing[p]
  /\ syncing' = [syncing EXCEPT ![p] = FALSE]
  /\ Move(p, Successor[s])
  /\ backupCreated' = [backupCreated EXCEPT ![p] = @ \/ s = "saveOriginal"]
  /\ configCreated' = [configCreated EXCEPT ![p] = @ \/ s = "writeConfig"]
  /\ UNCHANGED <<live, disk, inspected, before>>

\* The fsync of the parent directory that ends every stage.
SyncParent(p) ==
  LET s == stage[p] IN
  /\ syncing[p]
  /\ disk' = Persist(live, disk, DirOf(Target[s]))
  /\ syncing' = [syncing EXCEPT ![p] = FALSE]
  /\ Move(p, Successor[s])
  /\ backupCreated' = [backupCreated EXCEPT ![p] = @ \/ s = "saveOriginal"]
  /\ configCreated' = [configCreated EXCEPT ![p] = @ \/ s = "writeConfig"]
  /\ UNCHANGED <<live, inspected, before>>

\* The rename or unlink is already done when the fsync fails.
SyncParentFails(p) ==
  /\ syncing[p]
  /\ stage[p] \in SyncCanFail
  /\ syncing' = [syncing EXCEPT ![p] = FALSE]
  /\ Move(p, Failure(stage[p]))
  /\ UNCHANGED <<live, disk, inspected, backupCreated, configCreated, before>>

\* The stage fails with nothing changed under its own name: no space, a
\* read-only directory, a source that cannot be read...
OperationFails(p) ==
  /\ stage[p] \in DOMAIN Target
  /\ stage[p] \in CanFail \/ ~CanDigest(stage[p])
  /\ ~syncing[p]
  /\ Move(p, Failure(stage[p]))
  /\ UNCHANGED <<live, disk, syncing, inspected, backupCreated, configCreated,
                 before>>

\* Mutant: the rollback removes a configuration that was there before.
KeepsNoConfig(p, s) ==
  \/ s = "undoBackup" /\ ~backupCreated[p]
  \/ s = "removeProgress" /\ live["progress"] # "binary"

\* Mutant: the digest of the wrong binary decides about the launcher.
KeepsByOtherDigest(p, s) ==
  \/ s = "undoBackup" /\ ~backupCreated[p]
  \/ s = "undoConfig" /\ ~configCreated[p]
  \/ s = "removeProgress" /\ live["burningInit"] # "binary"

\* Removals the command does not even try: a backup or a configuration it
\* did not create, a launcher whose digest is no longer the recorded one.
Keeps(p, s) ==
  \/ s = "undoBackup" /\ ~backupCreated[p]
  \/ s = "undoConfig" /\ ~configCreated[p]
  \/ s = "removeProgress" /\ live["progress"] # "binary"

Unlink(p) ==
  LET s == stage[p] IN
  /\ s \in UndoStages \cup CleanStages
  /\ ~syncing[p]
  /\ ~Keeps(p, s)
  /\ live[Target[s]] # "absent"
  /\ live' = [live EXCEPT ![Target[s]] = "absent"]
  /\ syncing' = [syncing EXCEPT ![p] = TRUE]
  /\ UNCHANGED <<disk, stage, inspected, backupCreated, configCreated, before>>

\* Nothing to remove: unlink says ENOENT and nothing is synced.
NothingToRemove(p) ==
  LET s == stage[p] IN
  /\ s \in UndoStages \cup CleanStages
  /\ ~syncing[p]
  /\ Keeps(p, s) \/ live[Target[s]] = "absent"
  /\ Move(p, Successor[s])
  /\ UNCHANGED <<live, disk, syncing, inspected, backupCreated, configCreated,
                 before>>

-----------------------------------------------------------------------------
(* uninstall                                                                *)

\* read_state, the dispatcher link, the digest of burning-init and the kind
\* of the backup all have to be what install left.
CanUninstall ==
  /\ live["state"] \in StateTexts
  /\ IsDispatcher
  /\ live["burningInit"] = "binary"
  /\ live["backup"] # "absent"
  /\ live["state"] = StateText(KindOf(live["backup"]))

UninstallStart(p) ==
  /\ stage[p] \in Resting
  /\ CanUninstall
  /\ Move(p, "restoreInit")
  /\ before' = [before EXCEPT ![p] = live]
  /\ UNCHANGED <<live, disk, syncing, inspected, backupCreated, configCreated>>

UninstallRefused(p) ==
  /\ stage[p] \in Resting
  /\ ~CanUninstall
  /\ Move(p, "uninstallFailed")
  /\ UNCHANGED <<live, disk, syncing, inspected, backupCreated, configCreated,
                 before>>

\* Mutant: the files are removed without waiting for the restore's fsync.
RestoreInitUnsynced(p) ==
  /\ stage[p] = "restoreInit"
  /\ live' = [live EXCEPT !["init"] = live["backup"], !["backup"] = "absent"]
  /\ Move(p, "removeEnable")
  /\ UNCHANGED <<disk, syncing, inspected, backupCreated, configCreated, before>>

\* rename(backup, init): one call takes one name away and replaces the other.
RestoreInit(p) ==
  /\ stage[p] = "restoreInit"
  /\ ~syncing[p]
  /\ IF live["backup"] = "absent"
       THEN /\ Move(p, "uninstallFailed")
            /\ UNCHANGED <<live, syncing>>
       ELSE /\ live' = [live EXCEPT !["init"] = live["backup"],
                                    !["backup"] = "absent"]
            /\ syncing' = [syncing EXCEPT ![p] = TRUE]
            /\ UNCHANGED stage
  /\ UNCHANGED <<disk, inspected, backupCreated, configCreated, before>>

-----------------------------------------------------------------------------
(* The world around the commands.                                           *)

\* The owner rebuilds an installed binary in place (and syncs it).
OwnerReplaces(path) ==
  /\ IsDispatcher
  /\ live[path] = "binary"
  /\ live' = [live EXCEPT ![path] = "modified"]
  /\ disk' = [disk EXCEPT ![path] = "modified"]
  /\ UNCHANGED <<stage, syncing, inspected, backupCreated, configCreated,
                 before>>

\* The restore is one transaction of the journal while it is pending.
RestorePending ==
  disk["init"] = "dispatcher" /\ live["init"] = "original"
    /\ live["backup"] = "absent"

\* The kernel writes entries back on its own, in any order.
Writeback(names) ==
  /\ RestorePending => ("init" \in names <=> "backup" \in names)
  /\ disk' = Persist(live, disk, names)
  /\ UNCHANGED <<live, stage, syncing, inspected, backupCreated,
                 configCreated, before>>

\* kill -9, a closed terminal: the files stay as they are.
Killed(p) ==
  /\ stage[p] \notin Resting
  /\ Move(p, "idle")
  /\ syncing' = [syncing EXCEPT ![p] = FALSE]
  /\ UNCHANGED <<live, disk, inspected, backupCreated, configCreated, before>>

\* Power fails: every command is gone and only the durable view is left.
Crash ==
  /\ live' = disk
  /\ stage' = [p \in Procs |-> "idle"]
  /\ syncing' = [p \in Procs |-> FALSE]
  /\ UNCHANGED <<disk, inspected, backupCreated, configCreated, before>>

-----------------------------------------------------------------------------

\* A host without Burning Progress; an enable mark and a configuration may
\* have stayed behind from an earlier installation.
Clean(enable, config) ==
  [path \in Paths |->
     CASE path = "init" -> "original"
       [] path = "enable" -> enable
       [] path = "config" -> config
       [] OTHER -> "absent"]

Init ==
  /\ \E enable \in {"absent", "mark"}, config \in {"absent", "config"} :
       live = Clean(enable, config)
  /\ disk = live
  /\ stage = [p \in Procs |-> "idle"]
  /\ syncing = [p \in Procs |-> FALSE]
  /\ inspected = [p \in Procs |-> "absent"]
  /\ backupCreated = [p \in Procs |-> FALSE]
  /\ configCreated = [p \in Procs |-> FALSE]
  /\ before = [p \in Procs |-> live]

Command(p) ==
  \/ InstallStart(p) \/ InstallRefused(p) \/ InspectInit(p)
  \/ Publish(p) \/ KeepConfig(p)
  \/ SyncParent(p) \/ SyncParentFails(p) \/ OperationFails(p)
  \/ Unlink(p) \/ NothingToRemove(p)
  \/ UninstallStart(p) \/ UninstallRefused(p) \/ RestoreInit(p)
  \/ Killed(p)

WritebackUnits == {{path} : path \in Paths} \cup {{"init", "backup"}}

World ==
  \/ \E path \in {"burningInit", "progress"} : OwnerReplaces(path)
  \/ \E names \in WritebackUnits : Writeback(names)
  \/ Crash

Next == (\E p \in Procs : Command(p)) \/ World

Spec == Init /\ [][Next]_vars

-----------------------------------------------------------------------------
(* Properties.                                                              *)

\* Every file holds something that can be under its name (a dispatcher link
\* can become a backup when two commands run at once), and a command is
\* between a change and its fsync only in a stage that changes a file.
PathContents(path) ==
  CASE path = "init" -> {"original", "dispatcher"}
    [] path = "backup" -> {"absent", "original", "dispatcher"}
    [] path \in {"burningInit", "progress"} -> {"absent"} \cup Binaries
    [] path = "state" -> {"absent"} \cup StateTexts
    [] path = "config" -> {"absent", "config"}
    [] OTHER -> {"absent", "mark"}

Files == {f \in [Paths -> Contents] :
            \A path \in Paths : f[path] \in PathContents(path)}

TypeOK ==
  /\ live \in Files /\ disk \in Files
  /\ stage \in [Procs -> Stages]
  /\ syncing \in [Procs -> BOOLEAN]
  /\ \A p \in Procs : syncing[p] => stage[p] \in DOMAIN Target
  /\ inspected \in [Procs -> {"absent", "original", "dispatcher"}]
  /\ backupCreated \in [Procs -> BOOLEAN]
  /\ configCreated \in [Procs -> BOOLEAN]
  /\ before \in [Procs -> Files]

\* A machine boots to its own init: directly, or through a dispatcher that
\* is there together with the init it hands over to.
BootsOriginal(files) ==
  \/ files["init"] = "original"
  \/ /\ files["init"] = "dispatcher"
     /\ files["burningInit"] \in Binaries
     /\ files["backup"] = "original"

\* Whatever stage install or uninstall is in, whatever failed and wherever
\* the power goes, the next boot reaches the original init: "the normal
\* boot path must ... fail toward the original init".
AlwaysBootable == BootsOriginal(live) /\ BootsOriginal(disk)

\* When install reports success, nothing of the installation can be lost
\* any more by a power failure: bp_install returns after its last fsync.
InstalledIsDurable ==
  \A p \in Procs : stage[p] = "installed" =>
    /\ disk["init"] = "dispatcher"
    /\ disk["backup"] = "original"
    /\ disk["burningInit"] \in Binaries
    /\ disk["progress"] \in Binaries
    /\ disk["state"] = StateText(OriginalKind)
    /\ disk["config"] = "config"

\* When uninstall reports success the machine is durably back on its own
\* init, no backup is left over, and nothing left behind stops a later
\* install except a launcher the owner changed.
UninstalledIsClean ==
  \A p \in Procs : stage[p] = "uninstalled" =>
    /\ disk["init"] = "original" /\ disk["backup"] = "absent"
    /\ live["enable"] = "absent"
    /\ (live["progress"] # "modified" => CanInstall)

\* An install that returns an error leaves the files as it found them:
\* bp_install's rollback undoes exactly what the install did.
FailedInstallLeavesNoTrace ==
  [][\A p \in Procs :
       (stage[p] \in UndoStages /\ stage'[p] = "installFailed")
         => live' = before[p]]_vars

\* As long as the dispatcher is in place and is the one install copied,
\* uninstall finds everything it needs, now and after a power failure:
\* install-state is published before the switch and removed after the
\* restore.
UninstallStaysPossible ==
  \A files \in {live, disk} :
    (files["init"] = "dispatcher" /\ files["burningInit"] = "binary") =>
      /\ files["backup"] = "original"
      /\ files["state"] = StateText(OriginalKind)
=============================================================================
