--------------------------- MODULE InstallerProofs ---------------------------
(***************************************************************************)
(* Proofs about Installer: its type invariant for any number of commands,  *)
(* and, for one command at a time whose fsync after the switch does not    *)
(* fail, that the machine always boots to its own init, what an install    *)
(* that reports success has made durable, what an uninstall that does has  *)
(* cleaned up, that an installed machine can always be uninstalled, and    *)
(* that an install that fails puts everything back.                        *)
(***************************************************************************)
EXTENDS Installer, TLAPS

-----------------------------------------------------------------------------
(* The inductive invariant, in named parts.                                 *)

\* What a dispatcher needs to reach the original init.
Served(files) ==
  files["burningInit"] \in Binaries /\ files["backup"] = "original"

\* A live dispatcher is served now and after a power failure, should the
\* link have been written back.
LiveServed == live["init"] = "dispatcher" => Served(live) /\ Served(disk)

\* A durable dispatcher is served, keeps the next install away, and if it
\* is not live any more the restore has taken the backup's name away.
DiskServed ==
  disk["init"] = "dispatcher" =>
    /\ Served(disk)
    /\ live["burningInit"] \in Binaries
    /\ live["init"] = "original" => live["backup"] = "absent"

\* The stages in which no dispatcher is anywhere.
UnswitchedStages ==
  (PublishStages \cup {"inspectInit"}) \cup UndoStages \cup CleanStages

Unswitched ==
  \A p \in Procs :
    (stage[p] \in UnswitchedStages /\ ~(stage[p] = "switchInit" /\ syncing[p]))
      => live["init"] = "original" /\ disk["init"] = "original"

\* What the install stages have published, and synced, by now.
Copied ==
  \A p \in Procs :
    /\ (stage[p] = "copyInit" /\ syncing[p]) => live["burningInit"] \in Binaries
    /\ stage[p] \in (PublishStages \ {"copyInit"}) \cup {"inspectInit"} =>
         live["burningInit"] \in Binaries /\ disk["burningInit"] \in Binaries

Saved ==
  \A p \in Procs :
    /\ stage[p] = "saveOriginal" => inspected[p] = "original"
    /\ (stage[p] = "saveOriginal" /\ syncing[p]) => live["backup"] = "original"
    /\ stage[p] \in {"writeState", "writeConfig", "switchInit"} =>
         live["backup"] = "original" /\ disk["backup"] = "original"

\* The switch and the restore, between the rename and its fsync.
Renamed ==
  \A p \in Procs :
    /\ (stage[p] = "switchInit" /\ syncing[p]) => live["init"] = "dispatcher"
    /\ stage[p] = "restoreInit" =>
         live["init"] = IF syncing[p] THEN "original" ELSE "dispatcher"

Rest == LiveServed /\ DiskServed /\ Unswitched /\ Copied /\ Saved /\ Renamed
IInv == TypeOK /\ Rest

-----------------------------------------------------------------------------
(* Type correctness.                                                        *)

\* Changing one file to something that can be under its name keeps a view of
\* the files well-formed: every Publish, Unlink and RestoreInit does this.
LEMMA FilesUpdate ==
  ASSUME NEW files \in Files, NEW path \in Paths,
         NEW content \in PathContents(path)
  PROVE  [files EXCEPT ![path] = content] \in Files
<1>1. content \in Contents
  BY DEF PathContents, Contents, Binaries, StateTexts, Paths, SbinPaths,
         HostPaths
<1>2. files \in [Paths -> Contents]
  BY DEF Files
<1>. QED
  BY <1>1, <1>2 DEF Files

\* fsync and write-back only ever copy a file's live content.
LEMMA FilesPersist ==
  ASSUME NEW f \in Files, NEW g \in Files, NEW names
  PROVE  Persist(f, g, names) \in Files
BY DEF Files, Persist

\* Every stage with a target has a successor, and both are what they should
\* be; a failed stage goes to a stage too.
LEMMA StageTables ==
  /\ DOMAIN Target = (Stages \ Resting) \ {"inspectInit"}
  /\ DOMAIN Target = DOMAIN Successor
  /\ \A s \in DOMAIN Target :
       Target[s] \in Paths /\ Successor[s] \in Stages /\ Failure(s) \in Stages
BY DEF Target, Successor, Failure, Stages, Resting, PublishStages, UndoStages,
       CleanStages, Paths, SbinPaths, HostPaths

\* What a stage publishes can be under the name it publishes it.
LEMMA PublishedContents ==
  ASSUME TypeOK, NEW p \in Procs, stage[p] \in PublishStages
  PROVE  Published(p, stage[p]) \in PathContents(Target[stage[p]])
<1>1. live["init"] \in {"original", "dispatcher"}
  BY DEF TypeOK, Files, PathContents, Paths, SbinPaths
<1>2. inspected[p] \in {"absent", "original", "dispatcher"}
  BY DEF TypeOK
<1>. QED
  BY <1>1, <1>2 DEF Published, PublishStages, Target, PathContents, Binaries,
                    StateTexts, StateText, KindOf

LEMMA TypeInit == Init => TypeOK
<1>. SUFFICES ASSUME Init PROVE TypeOK
  OBVIOUS
<1>1. PICK enable \in {"absent", "mark"}, config \in {"absent", "config"} :
        live = Clean(enable, config)
  BY DEF Init
<1>2. live \in [Paths -> Contents]
  BY <1>1 DEF Clean, Contents
<1>3. \A path \in Paths : live[path] \in PathContents(path)
  BY <1>1 DEF Clean, PathContents, Paths, SbinPaths, HostPaths
<1>. QED
  BY <1>2, <1>3 DEF Init, TypeOK, Files, Stages, Resting

LEMMA TypeStep == TypeOK /\ [Next]_vars => TypeOK'
<1>. SUFFICES ASSUME TypeOK, [Next]_vars PROVE TypeOK'
  OBVIOUS
<1>. USE DEF TypeOK
<1>1. ASSUME NEW p \in Procs, Command(p) PROVE TypeOK'
  <2>1. CASE InstallStart(p)
    BY <2>1 DEF InstallStart, Move, Stages, PublishStages, Target, Resting
  <2>2. CASE InstallRefused(p)
    BY <2>2 DEF InstallRefused, Move, Stages, Resting, Target
  <2>3. CASE InspectInit(p)
    <3>1. live["init"] \in {"original", "dispatcher"}
      BY DEF Files, PathContents, Paths, SbinPaths
    <3>. QED
      BY <2>3, <3>1 DEF InspectInit, Move, Stages, PublishStages, UndoStages,
                        Target
  <2>4. CASE Publish(p)
    <3>1. live' \in Files
      BY <2>4, PublishedContents, FilesUpdate, StageTables
      DEF Publish, PublishStages, Target
    <3>2. stage[p] \in DOMAIN Target
      BY <2>4 DEF Publish, PublishStages, Target
    <3>. QED
      BY <2>4, <3>1, <3>2 DEF Publish
  <2>5. CASE KeepConfig(p)
    BY <2>5 DEF KeepConfig, Move, Successor, Stages, PublishStages
  <2>6. CASE SyncParent(p)
    <3>1. disk' \in Files
      BY <2>6, FilesPersist DEF SyncParent
    <3>2. stage[p] \in Stages /\ stage'[p] \in Stages
      BY <2>6, StageTables DEF SyncParent, Move
    <3>. QED
      BY <2>6, <3>1, <3>2 DEF SyncParent, Move
  <2>7. CASE SyncParentFails(p)
    BY <2>7, StageTables DEF SyncParentFails, Move
  <2>8. CASE OperationFails(p)
    BY <2>8, StageTables DEF OperationFails, Move
  <2>9. CASE Unlink(p)
    <3>1. stage[p] \in DOMAIN Target /\ Target[stage[p]] \in Paths
      BY <2>9 DEF Unlink, UndoStages, CleanStages, Target, Paths, SbinPaths,
                  HostPaths
    <3>2. "absent" \in PathContents(Target[stage[p]])
      BY <2>9 DEF Unlink, UndoStages, CleanStages, Target, PathContents,
                  Binaries
    <3>3. live' \in Files
      BY <2>9, <3>1, <3>2, FilesUpdate DEF Unlink
    <3>. QED
      BY <2>9, <3>1, <3>3 DEF Unlink
  <2>10. CASE NothingToRemove(p)
    <3>1. stage[p] \in DOMAIN Target
      BY <2>10 DEF NothingToRemove, UndoStages, CleanStages, Target
    <3>. QED
      BY <2>10, <3>1, StageTables DEF NothingToRemove, Move
  <2>11. CASE UninstallStart(p)
    BY <2>11 DEF UninstallStart, Move, Stages, Target, Resting
  <2>12. CASE UninstallRefused(p)
    BY <2>12 DEF UninstallRefused, Move, Stages, Resting, Target
  <2>13. CASE RestoreInit(p)
    <3>1. CASE live["backup"] = "absent"
      BY <2>13, <3>1 DEF RestoreInit, Move, Stages, Resting
    <3>2. CASE live["backup"] # "absent"
      <4>1. live["backup"] \in PathContents("init")
        BY <3>2 DEF Files, PathContents, Paths, SbinPaths
      <4>2. [live EXCEPT !["init"] = live["backup"]] \in Files
        BY <4>1, FilesUpdate DEF Paths, SbinPaths
      <4>3. live' \in Files
        BY <2>13, <3>2, <4>2, FilesUpdate
        DEF RestoreInit, Paths, SbinPaths, PathContents
      <4>. QED
        BY <2>13, <3>2, <4>3 DEF RestoreInit, Target
    <3>. QED
      BY <3>1, <3>2
  <2>14. CASE Killed(p)
    BY <2>14 DEF Killed, Move, Stages, Resting
  <2>. QED
    BY <1>1, <2>1, <2>2, <2>3, <2>4, <2>5, <2>6, <2>7, <2>8, <2>9, <2>10,
       <2>11, <2>12, <2>13, <2>14 DEF Command
<1>2. ASSUME World PROVE TypeOK'
  <2>1. ASSUME NEW path \in {"burningInit", "progress"}, OwnerReplaces(path)
        PROVE  TypeOK'
    <3>1. path \in Paths /\ "modified" \in PathContents(path)
      BY <2>1 DEF Paths, SbinPaths, PathContents, Binaries
    <3>. QED
      BY <2>1, <3>1, FilesUpdate DEF OwnerReplaces
  <2>2. ASSUME NEW names \in WritebackUnits, Writeback(names) PROVE TypeOK'
    BY <2>2, FilesPersist DEF Writeback
  <2>3. CASE Crash
    BY <2>3 DEF Crash, Stages, Resting
  <2>. QED
    BY <1>2, <2>1, <2>2, <2>3 DEF World
<1>3. CASE UNCHANGED vars
  BY <1>3 DEF vars
<1>. QED
  BY <1>1, <1>2, <1>3 DEF Next

\* However many commands run at once and whatever fails, every file holds
\* only what can be under its name.
THEOREM TypeCorrect == Spec => []TypeOK
BY TypeInit, TypeStep, PTL DEF Spec

-----------------------------------------------------------------------------
(* One command at a time always leaves a machine that boots.                *)

AtMostOneCommand == \A p, r \in Procs : p = r
SwitchSyncs == "switchInit" \notin SyncCanFail

\* A well-formed view of the files, as the steps below use it.
LEMMA FilesShape ==
  ASSUME NEW f \in Files
  PROVE  /\ DOMAIN f = Paths
         /\ f["init"] \in {"original", "dispatcher"}
         /\ f["backup"] \in {"absent", "original", "dispatcher"}
         /\ f["burningInit"] \in {"absent"} \cup Binaries
BY DEF Files, PathContents, Paths, SbinPaths

\* Synced entries are the live ones, the others are what they were.
LEMMA PersistShape ==
  ASSUME NEW f \in Files, NEW g \in Files, NEW names
  PROVE  /\ \A path \in Paths :
              Persist(f, g, names)[path] =
                IF path \in names THEN f[path] ELSE g[path]
BY DEF Persist, Files

\* The directory a stage syncs: all of /sbin's entries or none.
LEMMA SyncedDirs ==
  \A s \in DOMAIN Target :
    /\ s \in {"copyInit", "copyProgress", "saveOriginal", "switchInit",
              "restoreInit"} => DirOf(Target[s]) = SbinPaths
    /\ DirOf(Target[s]) \in {SbinPaths, HostPaths}
BY DEF Target, DirOf, SbinPaths, HostPaths

LEMMA RestInit == Init => Rest
<1>. SUFFICES ASSUME Init PROVE Rest
  OBVIOUS
<1>1. PICK enable \in {"absent", "mark"}, config \in {"absent", "config"} :
        live = Clean(enable, config)
  BY DEF Init
<1>2. live["init"] = "original" /\ disk["init"] = "original"
  BY <1>1 DEF Init, Clean, Paths, SbinPaths
<1>3. \A p \in Procs : stage[p] = "idle"
  BY DEF Init
<1>. QED
  BY <1>2, <1>3 DEF Rest, LiveServed, DiskServed, Unswitched, Copied, Saved,
       Renamed, UnswitchedStages, PublishStages, UndoStages, CleanStages

LEMMA RestStep ==
  ASSUME AtMostOneCommand, SwitchSyncs, TypeOK, Rest, [Next]_vars
  PROVE  Rest'
<1>. USE DEF Rest
<1>a. /\ live \in Files /\ disk \in Files
      /\ stage \in [Procs -> Stages] /\ syncing \in [Procs -> BOOLEAN]
      /\ inspected \in [Procs -> {"absent", "original", "dispatcher"}]
  BY DEF TypeOK
<1>1. ASSUME NEW p \in Procs, Command(p) PROVE Rest'
  <2>. DEFINE s == stage[p]
  <2>a. \A r \in Procs : r = p
    BY DEF AtMostOneCommand
  <2>. USE DEF Move, UnswitchedStages, PublishStages, UndoStages, CleanStages
  <2>1. CASE InstallStart(p)
    <3>1. live["init"] = "original" /\ disk["init"] = "original"
      BY <2>1, <1>a, FilesShape
      DEF InstallStart, CanInstall, IsDispatcher, DiskServed, Binaries
    <3>2. ~syncing[p]
      BY <2>1, StageTables DEF InstallStart, TypeOK
    <3>. QED
      BY <1>a, <2>1, <2>a, <3>1, <3>2
      DEF InstallStart, LiveServed, DiskServed, Unswitched, Copied, Saved,
          Renamed, Resting
  <2>2. CASE InstallRefused(p)
    BY <1>a, <2>2, <2>a
    DEF InstallRefused, LiveServed, DiskServed, Unswitched, Copied, Saved,
        Renamed
  <2>3. CASE InspectInit(p)
    <3>1. ~syncing[p]
      BY <2>3, StageTables DEF InspectInit, TypeOK
    <3>. QED
      BY <1>a, <2>3, <2>a, <3>1
      DEF InspectInit, LiveServed, DiskServed, Unswitched, Copied, Saved,
          Renamed
  <2>4. CASE Publish(p)
    <3>1. live["init"] = "original" /\ disk["init"] = "original"
      BY <2>4 DEF Publish, Unswitched
    <3>2. /\ Target[s] \in Paths
          /\ s = "copyInit" <=> Target[s] = "burningInit"
          /\ s = "saveOriginal" <=> Target[s] = "backup"
          /\ s = "switchInit" <=> Target[s] = "init"
      BY <2>4 DEF Publish, Target, Paths, SbinPaths, HostPaths
    <3>3. s = "copyInit" => Published(p, s) \in Binaries
      BY DEF Published, Binaries
    <3>4. s = "saveOriginal" => Published(p, s) = "original"
      BY <3>1 DEF Published, Saved
    <3>5. s = "switchInit" => Published(p, s) = "dispatcher"
      BY DEF Published
    <3>6. \A path \in Paths :
            live'[path] = IF path = Target[s] THEN Published(p, s)
                          ELSE live[path]
      BY <2>4, <1>a, FilesShape DEF Publish
    <3>7. stage' = stage /\ syncing'[p] /\ ~syncing[p] /\ disk' = disk
             /\ inspected' = inspected /\ s \in PublishStages
      BY <2>4, <1>a DEF Publish
    <3>8. {"init", "backup", "burningInit"} \subseteq Paths
      BY DEF Paths, SbinPaths
    <3>. HIDE DEF s
    <3>9. LiveServed' /\ DiskServed'
      BY <3>1, <3>2, <3>3, <3>4, <3>5, <3>6, <3>7, <3>8
      DEF s, LiveServed, DiskServed, Served, Copied, Saved
    <3>10. Unswitched'
      BY <2>a, <3>1, <3>2, <3>6, <3>7, <3>8 DEF s, Unswitched
    <3>11. Copied'
      BY <2>a, <3>2, <3>3, <3>6, <3>7, <3>8 DEF s, Copied
    <3>12. Saved'
      BY <2>a, <3>2, <3>4, <3>6, <3>7, <3>8 DEF s, Saved
    <3>13. Renamed'
      BY <2>a, <3>2, <3>5, <3>6, <3>7, <3>8 DEF s, Renamed
    <3>. QED
      BY <3>9, <3>10, <3>11, <3>12, <3>13
  <2>5. CASE KeepConfig(p)
    BY <1>a, <2>5, <2>a
    DEF KeepConfig, Successor, LiveServed, DiskServed, Unswitched, Copied,
        Saved, Renamed
  <2>6. CASE SyncParent(p)
    <3>1. s \in DOMAIN Target
      BY <2>6 DEF SyncParent, TypeOK
    <3>2. \A path \in SbinPaths :
            /\ disk'[path] \in {live[path], disk[path]}
            /\ DirOf(Target[s]) = SbinPaths => disk'[path] = live[path]
            /\ DirOf(Target[s]) # SbinPaths => disk'[path] = disk[path]
      BY <1>a, <2>6, <3>1, PersistShape, SyncedDirs
      DEF SyncParent, Paths, SbinPaths, HostPaths
    <3>3. {"init", "backup", "burningInit"} \subseteq SbinPaths
      BY DEF SbinPaths
    <3>4. /\ stage'[p] = Successor[s] /\ ~syncing'[p] /\ syncing[p]
          /\ live' = live /\ inspected' = inspected
      BY <1>a, <2>6 DEF SyncParent
    <3>5. LiveServed'
      BY <3>2, <3>3, <3>4 DEF LiveServed, Served
    <3>6. DiskServed'
      BY <1>a, <3>2, <3>3, <3>4, FilesShape
      DEF LiveServed, DiskServed, Served, Binaries
    <3>7. Unswitched'
      BY <1>a, <2>a, <3>1, <3>2, <3>3, <3>4, SyncedDirs
      DEF Unswitched, Renamed, Successor, Target
    <3>8. Copied'
      BY <2>a, <3>1, <3>2, <3>3, <3>4, SyncedDirs DEF Copied, Successor, Target
    <3>9. Saved'
      BY <2>a, <3>1, <3>2, <3>3, <3>4, SyncedDirs DEF Saved, Successor, Target
    <3>10. Renamed'
      BY <2>a, <3>1, <3>4 DEF Renamed, Successor, Target
    <3>. QED
      BY <3>5, <3>6, <3>7, <3>8, <3>9, <3>10
  <2>7. CASE SyncParentFails(p) \/ OperationFails(p)
    <3>1. /\ s \in DOMAIN Target /\ stage'[p] = Failure(s)
          /\ ~syncing'[p] /\ (s = "switchInit" => ~syncing[p])
          /\ live' = live /\ disk' = disk /\ inspected' = inspected
      BY <1>a, <2>7 DEF SyncParentFails, OperationFails, TypeOK, SwitchSyncs
    <3>2. s \in PublishStages => Failure(s) = "undoBackup"
      BY DEF Failure
    <3>3. s = "restoreInit" => Failure(s) = "uninstallFailed"
      BY DEF Failure
    <3>4. s \in UndoStages \cup CleanStages =>
            Failure(s) \in UndoStages \cup CleanStages \cup Resting
      BY DEF Failure, Successor, Resting
    <3>5. s \in PublishStages \cup {"restoreInit"} \cup UndoStages
            \cup CleanStages
      BY <3>1 DEF Target
    <3>. QED
      BY <2>a, <3>1, <3>2, <3>3, <3>4, <3>5
      DEF LiveServed, DiskServed, Unswitched, Copied, Saved, Renamed, Resting
  <2>8. CASE Unlink(p)
    <3>1. s \in UndoStages \cup CleanStages
      BY <2>8 DEF Unlink
    <3>2. live["init"] = "original" /\ disk["init"] = "original"
      BY <3>1 DEF Unswitched
    <3>3. live'["init"] = live["init"] /\ disk' = disk /\ stage' = stage
      BY <1>a, <2>8, <3>1, FilesShape DEF Unlink, Target, Paths, SbinPaths
    <3>. QED
      BY <2>a, <3>1, <3>2, <3>3
      DEF LiveServed, DiskServed, Unswitched, Copied, Saved, Renamed
  <2>9. CASE NothingToRemove(p)
    <3>1. s \in UndoStages \cup CleanStages
      BY <2>9 DEF NothingToRemove
    <3>2. stage'[p] \in UndoStages \cup CleanStages \cup Resting
      BY <1>a, <2>9, <3>1 DEF NothingToRemove, Successor, Resting
    <3>. QED
      BY <2>a, <2>9, <3>1, <3>2
      DEF NothingToRemove, LiveServed, DiskServed, Unswitched, Copied, Saved,
          Renamed, Resting
  <2>10. CASE UninstallStart(p) \/ UninstallRefused(p)
    BY <1>a, <2>10, <2>a
    DEF UninstallStart, UninstallRefused, CanUninstall, IsDispatcher,
        LiveServed, DiskServed, Unswitched, Copied, Saved, Renamed, Resting,
        TypeOK, Target
  <2>11. CASE RestoreInit(p)
    <3>1. live["init"] = "dispatcher"
      BY <2>11 DEF RestoreInit, Renamed
    <3>2. live["backup"] = "original"
      BY <3>1 DEF LiveServed, Served
    <3>3. /\ live'["init"] = "original" /\ live'["backup"] = "absent"
          /\ live'["burningInit"] = live["burningInit"]
          /\ disk' = disk /\ stage' = stage /\ syncing'[p]
      BY <1>a, <2>11, <3>2, FilesShape DEF RestoreInit, Paths, SbinPaths
    <3>. QED
      BY <2>11, <2>a, <3>1, <3>3
      DEF RestoreInit, LiveServed, DiskServed, Served, Unswitched, Copied,
          Saved, Renamed
  <2>12. CASE Killed(p)
    BY <1>a, <2>12, <2>a
    DEF Killed, LiveServed, DiskServed, Unswitched, Copied, Saved, Renamed
  <2>. QED
    BY <1>1, <2>1, <2>2, <2>3, <2>4, <2>5, <2>6, <2>7, <2>8, <2>9, <2>10,
       <2>11, <2>12 DEF Command
<1>2. ASSUME World PROVE Rest'
  <2>1. ASSUME NEW path \in {"burningInit", "progress"}, OwnerReplaces(path)
        PROVE  Rest'
    <3>1. live["init"] = "dispatcher" /\ LiveServed
      BY <2>1 DEF OwnerReplaces, IsDispatcher
    <3>2. \A name \in Paths :
            /\ live'[name] = IF name = path THEN "modified" ELSE live[name]
            /\ disk'[name] = IF name = path THEN "modified" ELSE disk[name]
      BY <1>a, <2>1, FilesShape DEF OwnerReplaces
    <3>3. {"init", "backup", "burningInit"} \subseteq Paths
      BY DEF Paths, SbinPaths
    <3>4. stage' = stage /\ syncing' = syncing /\ inspected' = inspected
      BY <2>1 DEF OwnerReplaces
    <3>. QED
      BY <3>1, <3>2, <3>3, <3>4
      DEF LiveServed, DiskServed, Served, Unswitched, Copied, Saved, Renamed,
          Binaries
  <2>2. ASSUME NEW names \in WritebackUnits, Writeback(names) PROVE Rest'
    <3>1. \A path \in Paths :
            disk'[path] = IF path \in names THEN live[path] ELSE disk[path]
      BY <1>a, <2>2, PersistShape DEF Writeback
    <3>2. {"init", "backup", "burningInit"} \subseteq Paths
      BY DEF Paths, SbinPaths
    <3>3. RestorePending => ("init" \in names <=> "backup" \in names)
      BY <2>2 DEF Writeback
    <3>4. /\ live' = live /\ stage' = stage /\ syncing' = syncing
          /\ inspected' = inspected
      BY <2>2 DEF Writeback
    <3>5. live["init"] \in {"original", "dispatcher"}
      BY <1>a, FilesShape
    <3>6. LiveServed'
      BY <3>1, <3>2, <3>4 DEF LiveServed, Served
    <3>7. DiskServed'
      BY <3>1, <3>2, <3>3, <3>4, <3>5
      DEF LiveServed, DiskServed, Served, RestorePending
    <3>8. Unswitched' /\ Copied' /\ Saved' /\ Renamed'
      BY <3>1, <3>2, <3>4 DEF Unswitched, Copied, Saved, Renamed
    <3>. QED
      BY <3>6, <3>7, <3>8
  <2>3. CASE Crash
    <3>1. live' = disk /\ disk' = disk /\ \A p \in Procs : stage'[p] = "idle"
      BY <2>3 DEF Crash
    <3>. QED
      BY <3>1
      DEF LiveServed, DiskServed, Served, Unswitched, Copied, Saved, Renamed,
          UnswitchedStages, PublishStages, UndoStages, CleanStages
  <2>. QED
    BY <1>2, <2>1, <2>2, <2>3 DEF World
<1>3. CASE UNCHANGED vars
  BY <1>3
  DEF vars, LiveServed, DiskServed, Served, Unswitched, Copied, Saved, Renamed
<1>. QED
  BY <1>1, <1>2, <1>3 DEF Next

LEMMA RestBoots ==
  ASSUME TypeOK, Rest
  PROVE  AlwaysBootable
<1>1. /\ live["init"] \in {"original", "dispatcher"}
      /\ disk["init"] \in {"original", "dispatcher"}
  BY FilesShape DEF TypeOK
<1>. QED
  BY <1>1 DEF Rest, LiveServed, DiskServed, Served, AlwaysBootable,
              BootsOriginal

\* One command at a time, whatever else fails, is killed or loses power: as
\* long as the fsync after the switch does not fail, the next boot reaches
\* the original init.
THEOREM OneCommandBoots ==
  ASSUME AtMostOneCommand, SwitchSyncs
  PROVE  Spec => []AlwaysBootable
<1>1. Init => TypeOK /\ Rest
  BY TypeInit, RestInit
<1>2. (TypeOK /\ Rest) /\ [Next]_vars => (TypeOK /\ Rest)'
  BY TypeStep, RestStep
<1>3. TypeOK /\ Rest => AlwaysBootable
  BY RestBoots
<1>. QED
  BY <1>1, <1>2, <1>3, PTL DEF Spec

-----------------------------------------------------------------------------
(* What survives: the inductive invariant, on top of Rest.                  *)

Text == StateText(OriginalKind)

\* The launcher, from its copy to the end of the install.
Launcher ==
  \A p \in Procs :
    /\ (stage[p] = "copyProgress" /\ syncing[p]) =>
         live["progress"] \in Binaries
    /\ stage[p] \in {"inspectInit", "saveOriginal", "writeState",
                     "writeConfig", "switchInit", "installed"} =>
         live["progress"] \in Binaries /\ disk["progress"] \in Binaries

\* What the backup was made from, up to the file that records its kind.
Inspected ==
  \A p \in Procs :
    stage[p] \in {"saveOriginal", "writeState"} => inspected[p] = "original"

\* The state file, in the install that writes it ...
Recorded ==
  \A p \in Procs :
    /\ (stage[p] = "writeState" /\ syncing[p]) => live["state"] = Text
    /\ stage[p] \in {"writeConfig", "switchInit", "installed"} =>
         live["state"] = Text /\ disk["state"] = Text

\* ... and for as long as a dispatcher is somewhere.
RecordServes ==
  (live["init"] = "dispatcher" \/ disk["init"] = "dispatcher") =>
    live["state"] = Text /\ disk["state"] = Text

\* A configuration that is found there was made durable with the state.
Configured ==
  \A p \in Procs :
    /\ stage[p] = "writeConfig" =>
         IF syncing[p] THEN live["config"] = "config"
         ELSE live["config"] = disk["config"]
    /\ stage[p] \in {"switchInit", "installed"} =>
         live["config"] = "config" /\ disk["config"] = "config"

Switched ==
  \A p \in Procs : stage[p] = "installed" =>
    live["init"] = "dispatcher" /\ disk["init"] = "dispatcher"

\* What the restore has done once it is synced.
Restored ==
  \A p \in Procs :
    /\ (stage[p] = "restoreInit" /\ syncing[p]) => live["backup"] = "absent"
    /\ stage[p] \in CleanStages \cup {"uninstalled"} =>
         /\ live["init"] = "original" /\ disk["init"] = "original"
         /\ live["backup"] = "absent" /\ disk["backup"] = "absent"

More == Launcher /\ Inspected /\ Recorded /\ RecordServes /\ Configured
          /\ Switched /\ Restored

\* What the removals have done; the last one is followed by success.
Past(p, s, later) == (stage[p] = s /\ syncing[p]) \/ stage[p] \in later

Removed ==
  \A p \in Procs :
    /\ Past(p, "removeEnable", {"removeInit", "removeProgress", "removeState",
                                "uninstalled"}) => live["enable"] = "absent"
    /\ Past(p, "removeInit", {"removeProgress", "removeState", "uninstalled"})
         => live["burningInit"] = "absent"
    /\ Past(p, "removeProgress", {"removeState", "uninstalled"})
         => live["progress"] # "binary"
    /\ Past(p, "removeState", {"uninstalled"}) => live["state"] = "absent"

-----------------------------------------------------------------------------
(* What every step does to it.                                              *)

\* The other files of a well-formed view.
LEMMA OtherFiles ==
  ASSUME NEW f \in Files
  PROVE  /\ f["progress"] \in {"absent"} \cup Binaries
         /\ f["config"] \in {"absent", "config"}
BY DEF Files, PathContents, Paths, SbinPaths, HostPaths

\* The names that are used below.
LEMMA Names ==
  /\ {"init", "backup", "burningInit", "progress"} \subseteq SbinPaths
  /\ {"state", "config", "enable"} \subseteq HostPaths
  /\ SbinPaths \subseteq Paths /\ HostPaths \subseteq Paths
  /\ SbinPaths \cap HostPaths = {}
BY DEF Paths, SbinPaths, HostPaths

LEMMA MoreInit == Init => More
<1> SUFFICES ASSUME Init PROVE More
  OBVIOUS
<1>1. live["init"] = "original" /\ disk["init"] = "original"
  <2>1. PICK enable \in {"absent", "mark"}, config \in {"absent", "config"} :
          live = Clean(enable, config)
    BY DEF Init
  <2> QED
    BY <2>1 DEF Init, Clean, Paths, SbinPaths
<1>2. \A p \in Procs : stage[p] = "idle"
  BY DEF Init
<1> QED
  BY <1>1, <1>2
  DEF More, Launcher, Inspected, Recorded, RecordServes, Configured, Switched,
      Restored, CleanStages

\* The beginnings of the commands, and what ends them at once.
LEMMA MoreStart ==
  ASSUME AtMostOneCommand, TypeOK, Rest, More, NEW p \in Procs,
         InstallStart(p) \/ InstallRefused(p) \/ InspectInit(p)
           \/ UninstallStart(p) \/ UninstallRefused(p) \/ Killed(p)
  PROVE  More'
<1>1. \A r \in Procs : r = p
  BY DEF AtMostOneCommand
<1>2. /\ live' = live /\ disk' = disk
      /\ stage \in [Procs -> Stages] /\ syncing \in [Procs -> BOOLEAN]
      /\ inspected \in [Procs -> {"absent", "original", "dispatcher"}]
  BY DEF TypeOK, InstallStart, InstallRefused, InspectInit, UninstallStart,
         UninstallRefused, Killed
<1>3. RecordServes'
  BY <1>2 DEF More, RecordServes
<1>4. CASE InstallStart(p) \/ InstallRefused(p) \/ UninstallRefused(p)
             \/ Killed(p)
  <2>1. stage'[p] \in {"copyInit", "installFailed", "uninstallFailed", "idle"}
    BY <1>2, <1>4
    DEF InstallStart, InstallRefused, UninstallRefused, Killed, Move
  <2> QED
    BY <1>1, <1>3, <2>1
    DEF More, Launcher, Inspected, Recorded, Configured, Switched, Restored,
        CleanStages
<1>5. CASE UninstallStart(p)
  <2>1. ~syncing'[p] /\ stage'[p] = "restoreInit"
    BY <1>2, <1>5 DEF UninstallStart, Move, TypeOK, Resting, Target
  <2> QED
    BY <1>1, <1>3, <2>1
    DEF More, Launcher, Inspected, Recorded, Configured, Switched, Restored,
        CleanStages
<1>6. CASE InspectInit(p)
  <2>1. stage[p] = "inspectInit" /\ stage'[p] \in {"saveOriginal", "undoBackup"}
    BY <1>2, <1>6 DEF InspectInit, Move
  <2>2. live["init"] = "original"
    BY <2>1 DEF Rest, Unswitched, UnswitchedStages
  <2>3. stage'[p] = "saveOriginal" => inspected'[p] = "original"
    BY <1>2, <1>6, <2>2 DEF InspectInit, Move
  <2> QED
    BY <1>1, <1>2, <1>3, <2>1, <2>3
    DEF More, Launcher, Inspected, Recorded, Configured, Switched, Restored,
        CleanStages
<1> QED
  BY <1>4, <1>5, <1>6

LEMMA MorePublish ==
  ASSUME AtMostOneCommand, TypeOK, Rest, More, NEW p \in Procs,
         Publish(p) \/ KeepConfig(p)
  PROVE  More'
<1>1. \A r \in Procs : r = p
  BY DEF AtMostOneCommand
<1>2. /\ stage \in [Procs -> Stages] /\ syncing \in [Procs -> BOOLEAN]
      /\ live \in Files /\ disk \in Files
  BY DEF TypeOK
<1>3. CASE KeepConfig(p)
  <2>1. /\ stage[p] = "writeConfig" /\ stage'[p] = "switchInit" /\ ~syncing[p]
        /\ live["config"] # "absent" /\ live' = live /\ disk' = disk
        /\ syncing' = syncing /\ inspected' = inspected
    BY <1>2, <1>3 DEF KeepConfig, Move, Successor, NeedsPublish
  <2>2. live["config"] = "config" /\ disk["config"] = "config"
    BY <1>2, <2>1, OtherFiles DEF More, Configured
  <2> QED
    BY <1>1, <2>1, <2>2
    DEF More, Launcher, Inspected, Recorded, RecordServes, Configured,
        Switched, Restored, CleanStages
<1>4. CASE Publish(p)
  <2> DEFINE s == stage[p]
  <2>1. /\ s \in PublishStages /\ ~syncing[p] /\ syncing'[p]
        /\ stage' = stage /\ disk' = disk /\ inspected' = inspected
    BY <1>2, <1>4 DEF Publish
  <2>2. \A path \in Paths :
          live'[path] = IF path = Target[s] THEN Published(p, s) ELSE live[path]
    BY <1>2, <1>4, FilesShape DEF Publish
  <2>3. /\ s = "copyProgress" => Target[s] = "progress"
        /\ s = "writeState" => Target[s] = "state"
        /\ s = "writeConfig" => Target[s] = "config"
        /\ s = "switchInit" => Target[s] = "init"
        /\ s \in PublishStages \ {"copyProgress"} => Target[s] # "progress"
        /\ s \in PublishStages \ {"writeState"} => Target[s] # "state"
        /\ s \in PublishStages \ {"writeConfig"} => Target[s] # "config"
        /\ s \in PublishStages \ {"switchInit"} => Target[s] # "init"
    BY DEF Target, PublishStages
  <2>4. /\ s = "copyProgress" => Published(p, s) \in Binaries
        /\ s = "writeConfig" => Published(p, s) = "config"
    BY DEF Published, Binaries
  <2>5. s = "writeState" => Published(p, s) = Text
    BY DEF Published, More, Inspected, KindOf, Text
  <2>6. live["init"] = "original" /\ disk["init"] = "original"
    BY <2>1 DEF Rest, Unswitched, UnswitchedStages
  <2> HIDE DEF s
  <2>7. Launcher'
    BY <1>1, <2>1, <2>2, <2>3, <2>4, Names
    DEF s, More, Launcher, PublishStages
  <2>8. Inspected' /\ Switched' /\ Restored'
    BY <1>1, <2>1
    DEF s, More, Inspected, Switched, Restored, PublishStages, CleanStages
  <2>9. Recorded'
    BY <1>1, <2>1, <2>2, <2>3, <2>5, Names
    DEF s, More, Recorded, PublishStages
  <2>10. RecordServes'
    BY <2>1, <2>2, <2>3, <2>6, Names DEF s, More, Recorded, RecordServes
  <2>11. Configured'
    BY <1>1, <2>1, <2>2, <2>3, <2>4, Names
    DEF s, More, Configured, PublishStages
  <2> QED
    BY <2>7, <2>8, <2>9, <2>10, <2>11 DEF More
<1> QED
  BY <1>3, <1>4

\* An fsync copies live entries to the disk, and the stage is over.
LEMMA MoreSync ==
  ASSUME AtMostOneCommand, TypeOK, Rest, More, NEW p \in Procs, SyncParent(p)
  PROVE  More'
<1> DEFINE s == stage[p]
<1>1. \A r \in Procs : r = p
  BY DEF AtMostOneCommand
<1>2. /\ stage \in [Procs -> Stages] /\ syncing \in [Procs -> BOOLEAN]
      /\ live \in Files /\ disk \in Files /\ s \in DOMAIN Target
  BY DEF TypeOK, SyncParent
<1>3. /\ syncing[p] /\ ~syncing'[p] /\ stage'[p] = Successor[s]
      /\ live' = live /\ inspected' = inspected
  BY <1>2 DEF SyncParent, Move
<1>4. \A path \in Paths :
        /\ disk'[path] \in {live[path], disk[path]}
        /\ path \in DirOf(Target[s]) => disk'[path] = live[path]
  BY <1>2, PersistShape DEF SyncParent
<1>5. /\ s \in {"copyInit", "copyProgress", "saveOriginal", "switchInit",
                "restoreInit"} => DirOf(Target[s]) = SbinPaths
      /\ s \in {"writeState", "writeConfig"} => DirOf(Target[s]) = HostPaths
  BY DEF Target, DirOf, SbinPaths, HostPaths
<1>6. /\ Successor[s] = "inspectInit" <=> s = "copyProgress"
      /\ Successor[s] = "writeState" <=> s = "saveOriginal"
      /\ Successor[s] = "writeConfig" <=> s = "writeState"
      /\ Successor[s] = "switchInit" <=> s = "writeConfig"
      /\ Successor[s] = "installed" <=> s = "switchInit"
      /\ Successor[s] # "saveOriginal"
      /\ Successor[s] # "restoreInit"
      /\ Successor[s] \in CleanStages \cup {"uninstalled"} =>
           s \in CleanStages \cup {"restoreInit"}
  BY <1>2 DEF Target, Successor, CleanStages
<1> HIDE DEF s
<1>7. Launcher'
  BY <1>1, <1>3, <1>4, <1>5, <1>6, Names DEF s, More, Launcher
<1>8. Inspected'
  BY <1>1, <1>3, <1>6 DEF s, More, Inspected
<1>9. Recorded'
  BY <1>1, <1>3, <1>4, <1>5, <1>6, Names DEF s, More, Recorded
<1>10. RecordServes'
  BY <1>3, <1>4, Names DEF More, RecordServes
<1>11. Configured'
  BY <1>1, <1>3, <1>4, <1>5, <1>6, Names DEF s, More, Configured
<1>12. Switched'
  BY <1>1, <1>3, <1>4, <1>5, <1>6, Names DEF s, Rest, Renamed, Switched
<1>13. Restored'
  BY <1>1, <1>3, <1>4, <1>5, <1>6, Names
  DEF s, More, Restored, Rest, Renamed
<1> QED
  BY <1>7, <1>8, <1>9, <1>10, <1>11, <1>12, <1>13 DEF More

\* A failure of a stage goes to the rollback or ends the uninstall; only the
\* removals go on.
LEMMA MoreFails ==
  ASSUME AtMostOneCommand, TypeOK, Rest, More, NEW p \in Procs,
         SyncParentFails(p) \/ OperationFails(p) \/ NothingToRemove(p)
  PROVE  More'
<1> DEFINE s == stage[p]
<1>1. \A r \in Procs : r = p
  BY DEF AtMostOneCommand
<1>2. /\ stage \in [Procs -> Stages] /\ syncing \in [Procs -> BOOLEAN]
      /\ s \in DOMAIN Target
  BY DEF TypeOK, SyncParentFails, OperationFails, NothingToRemove, Target,
         UndoStages, CleanStages
<1>3. /\ stage'[p] \in {Failure(s), Successor[s]}
      /\ stage'[p] = Failure(s) \/ s \in UndoStages \cup CleanStages
      /\ live' = live /\ disk' = disk /\ inspected' = inspected
  BY <1>2 DEF SyncParentFails, OperationFails, NothingToRemove, Move
<1>4. /\ s \in UndoStages \cup CleanStages =>
           /\ Failure(s) = Successor[s]
           /\ Successor[s] \in UndoStages \cup CleanStages
                                 \cup {"installFailed", "uninstalled"}
           /\ Successor[s] \in CleanStages \cup {"uninstalled"} =>
                s \in CleanStages
      /\ s \notin UndoStages \cup CleanStages =>
           Failure(s) \in {"undoBackup", "uninstallFailed"}
  BY <1>2
  DEF Failure, Successor, Target, UndoStages, CleanStages, PublishStages
<1> HIDE DEF s
<1>5. stage'[p] \in UndoStages \cup CleanStages
                      \cup {"installFailed", "uninstalled", "uninstallFailed"}
  BY <1>3, <1>4 DEF UndoStages
<1>6. stage'[p] \in CleanStages \cup {"uninstalled"} => s \in CleanStages
  BY <1>3, <1>4 DEF UndoStages, CleanStages
<1>7. RecordServes'
  BY <1>3 DEF More, RecordServes
<1>8. Restored'
  BY <1>1, <1>3, <1>5, <1>6
  DEF s, More, Restored, CleanStages, UndoStages
<1> QED
  BY <1>1, <1>5, <1>7, <1>8
  DEF More, Launcher, Inspected, Recorded, Configured, Switched, UndoStages,
      CleanStages

\* Nothing is removed while a dispatcher is anywhere.
LEMMA MoreUnlink ==
  ASSUME AtMostOneCommand, TypeOK, Rest, More, NEW p \in Procs, Unlink(p)
  PROVE  More'
<1> DEFINE s == stage[p]
<1>1. \A r \in Procs : r = p
  BY DEF AtMostOneCommand
<1>2. /\ s \in UndoStages \cup CleanStages /\ stage' = stage /\ disk' = disk
      /\ live \in Files /\ live' = [live EXCEPT ![Target[s]] = "absent"]
  BY DEF TypeOK, Unlink
<1>3. live["init"] = "original" /\ disk["init"] = "original"
  BY <1>2 DEF Rest, Unswitched, UnswitchedStages, UndoStages, CleanStages
<1>4. Target[s] # "init" /\ (s \in CleanStages => Target[s] # "backup")
  BY <1>2 DEF Target, UndoStages, CleanStages
<1>5. /\ live'["init"] = live["init"]
      /\ s \in CleanStages => live'["backup"] = live["backup"]
  BY <1>2, <1>4, FilesShape, Names
<1>6. RecordServes'
  BY <1>2, <1>3, <1>5 DEF RecordServes
<1>7. Restored'
  BY <1>1, <1>2, <1>3, <1>5
  DEF More, Restored, CleanStages, UndoStages
<1> QED
  BY <1>1, <1>2, <1>6, <1>7
  DEF More, Launcher, Inspected, Recorded, Configured, Switched, UndoStages,
      CleanStages

LEMMA MoreRestore ==
  ASSUME AtMostOneCommand, TypeOK, Rest, More, NEW p \in Procs, RestoreInit(p)
  PROVE  More'
<1>1. \A r \in Procs : r = p
  BY DEF AtMostOneCommand
<1>2. /\ stage \in [Procs -> Stages] /\ syncing \in [Procs -> BOOLEAN]
      /\ live \in Files
  BY DEF TypeOK
<1>3. live["init"] = "dispatcher" /\ live["backup"] = "original"
  BY DEF RestoreInit, Rest, Renamed, LiveServed, Served
<1>4. /\ stage[p] = "restoreInit" /\ stage' = stage /\ disk' = disk
      /\ live' = [live EXCEPT !["init"] = live["backup"],
                              !["backup"] = "absent"]
  BY <1>3 DEF RestoreInit
<1>5. /\ live'["backup"] = "absent" /\ live'["init"] = "original"
      /\ live'["state"] = live["state"]
  BY <1>2, <1>3, <1>4, FilesShape, Names DEF Paths, SbinPaths, HostPaths
<1>6. RecordServes'
  BY <1>3, <1>4, <1>5 DEF More, RecordServes
<1> QED
  BY <1>1, <1>4, <1>5, <1>6
  DEF More, Launcher, Inspected, Recorded, Configured, Switched, Restored,
      CleanStages

LEMMA MoreWorld ==
  ASSUME AtMostOneCommand, TypeOK, Rest, More, World
  PROVE  More'
<1>1. live \in Files /\ disk \in Files
  BY DEF TypeOK
<1>2. ASSUME NEW path \in {"burningInit", "progress"}, OwnerReplaces(path)
      PROVE  More'
  <2>1. live["init"] = "dispatcher"
    BY <1>2 DEF OwnerReplaces, IsDispatcher
  <2>2. \A name \in Paths :
          /\ live'[name] = IF name = path THEN "modified" ELSE live[name]
          /\ disk'[name] = IF name = path THEN "modified" ELSE disk[name]
    BY <1>1, <1>2, FilesShape DEF OwnerReplaces
  <2>3. /\ \A name \in {"init", "backup", "state", "config"} :
             live'[name] = live[name] /\ disk'[name] = disk[name]
        /\ live'["progress"] \in {"modified", live["progress"]}
        /\ disk'["progress"] \in {"modified", disk["progress"]}
    BY <2>2 DEF Paths, SbinPaths, HostPaths
  <2>4. stage' = stage /\ syncing' = syncing /\ inspected' = inspected
    BY <1>2 DEF OwnerReplaces
  <2> QED
    BY <2>1, <2>3, <2>4
    DEF More, Launcher, Inspected, Recorded, RecordServes, Configured,
        Switched, Restored, Binaries
<1>3. ASSUME NEW names \in WritebackUnits, Writeback(names) PROVE More'
  <2>1. \A path \in Paths : disk'[path] \in {live[path], disk[path]}
    BY <1>1, <1>3, PersistShape DEF Writeback
  <2>2. \A name \in {"init", "backup", "progress", "state", "config"} :
          disk'[name] \in {live[name], disk[name]}
    BY <2>1 DEF Paths, SbinPaths, HostPaths
  <2>3. /\ live' = live /\ stage' = stage /\ syncing' = syncing
        /\ inspected' = inspected
    BY <1>3 DEF Writeback
  <2> QED
    BY <2>2, <2>3
    DEF More, Launcher, Inspected, Recorded, RecordServes, Configured,
        Switched, Restored
<1>4. CASE Crash
  <2>1. live' = disk /\ disk' = disk /\ \A p \in Procs : stage'[p] = "idle"
    BY <1>4 DEF Crash
  <2> QED
    BY <2>1
    DEF More, Launcher, Inspected, Recorded, RecordServes, Configured,
        Switched, Restored, CleanStages
<1> QED
  BY <1>2, <1>3, <1>4 DEF World

LEMMA MoreStep ==
  ASSUME AtMostOneCommand, TypeOK, Rest, More, [Next]_vars
  PROVE  More'
<1>1. ASSUME NEW p \in Procs, Command(p) PROVE More'
  BY <1>1, MoreStart, MorePublish, MoreSync, MoreFails, MoreUnlink,
     MoreRestore
  DEF Command
<1>2. CASE UNCHANGED vars
  BY <1>2
  DEF vars, More, Launcher, Inspected, Recorded, RecordServes, Configured,
      Switched, Restored
<1> QED
  BY <1>1, <1>2, MoreWorld DEF Next

-----------------------------------------------------------------------------
(* The removals of uninstall.                                               *)

LEMMA RemovedInit == Init => Removed
<1> SUFFICES ASSUME Init, NEW p \in Procs PROVE stage[p] = "idle"
  BY DEF Removed, Past
<1> QED
  BY DEF Init

\* Within the removals the files only get fewer.
LEMMA RemovedKept ==
  ASSUME AtMostOneCommand, Removed, NEW p \in Procs,
         stage'[p] = stage[p], syncing'[p] = syncing[p],
         \A name \in {"enable", "burningInit", "progress", "state"} :
           live'[name] = live[name]
  PROVE  Removed'
BY DEF AtMostOneCommand, Removed, Past

\* Elsewhere nothing is said of them.
RemovalStages == CleanStages \cup {"uninstalled"}

LEMMA RemovedElsewhere ==
  ASSUME AtMostOneCommand, NEW p \in Procs, stage'[p] \notin RemovalStages
  PROVE  Removed'
BY DEF AtMostOneCommand, Removed, Past, RemovalStages, CleanStages

LEMMA RemovedSync ==
  ASSUME AtMostOneCommand, TypeOK, Removed, NEW p \in Procs,
         SyncParent(p) \/ SyncParentFails(p)
  PROVE  Removed'
<1> DEFINE s == stage[p]
<1>1. /\ stage \in [Procs -> Stages] /\ syncing \in [Procs -> BOOLEAN]
      /\ s \in DOMAIN Target
  BY DEF TypeOK, SyncParent, SyncParentFails
<1>2. /\ syncing[p] /\ ~syncing'[p] /\ live' = live
      /\ stage'[p] \in {Successor[s], Failure(s)}
  BY <1>1 DEF SyncParent, SyncParentFails, Move
<1>3. CASE s \in CleanStages
  <2>1. stage'[p] = Successor[s]
    BY <1>2, <1>3 DEF Failure, CleanStages, PublishStages
  <2>2. /\ s = "removeEnable" => stage'[p] = "removeInit"
        /\ s = "removeInit" => stage'[p] = "removeProgress"
        /\ s = "removeProgress" => stage'[p] = "removeState"
        /\ s = "removeState" => stage'[p] = "uninstalled"
    BY <2>1 DEF Successor
  <2> QED
    BY <1>2, <1>3, <2>2
    DEF AtMostOneCommand, Removed, Past, CleanStages
<1>4. CASE s \notin CleanStages
  <2>1. stage'[p] \notin RemovalStages \/ stage'[p] = "removeEnable"
    BY <1>1, <1>2, <1>4
    DEF Failure, Successor, Target, RemovalStages, CleanStages,
        PublishStages
  <2> QED
    BY <1>2, <2>1, RemovedElsewhere
    DEF AtMostOneCommand, Removed, Past
<1> QED
  BY <1>3, <1>4

\* A removal that works, or that had nothing to remove.
LEMMA RemovedUnlink ==
  ASSUME AtMostOneCommand, TypeOK, Removed, NEW p \in Procs,
         Unlink(p) \/ NothingToRemove(p)
  PROVE  Removed'
<1> DEFINE s == stage[p]
<1>1. /\ stage \in [Procs -> Stages] /\ syncing \in [Procs -> BOOLEAN]
      /\ live \in Files /\ s \in UndoStages \cup CleanStages /\ ~syncing[p]
  BY DEF TypeOK, Unlink, NothingToRemove
<1>2. /\ Target["removeEnable"] = "enable"
      /\ Target["removeInit"] = "burningInit"
      /\ Target["removeProgress"] = "progress"
      /\ Target["removeState"] = "state"
  BY DEF Target
<1>3. CASE Unlink(p)
  <2>1. /\ stage' = stage /\ syncing'[p]
        /\ live' = [live EXCEPT ![Target[s]] = "absent"]
    BY <1>1, <1>3 DEF Unlink
  <2>2. \A name \in Paths :
          live'[name] = IF name = Target[s] THEN "absent" ELSE live[name]
    BY <1>1, <2>1, FilesShape
  <2>3. \A name \in {"enable", "burningInit", "progress", "state"} :
          live'[name] = IF name = Target[s] THEN "absent" ELSE live[name]
    BY <2>2 DEF Paths, SbinPaths, HostPaths
  <2>4. CASE s \in CleanStages
    BY <1>1, <1>2, <2>1, <2>3, <2>4
    DEF AtMostOneCommand, Removed, Past, CleanStages
  <2>5. CASE s \notin CleanStages
    BY <1>1, <2>1, <2>5, RemovedElsewhere
    DEF RemovalStages, CleanStages, UndoStages
  <2> QED
    BY <2>4, <2>5
<1>4. CASE NothingToRemove(p)
  <2>1. /\ stage'[p] = Successor[s] /\ ~syncing'[p] /\ live' = live
        /\ Keeps(p, s) \/ live[Target[s]] = "absent"
    BY <1>1, <1>4 DEF NothingToRemove, Move
  <2>2. CASE s \in CleanStages
    <3>1. /\ s = "removeEnable" => stage'[p] = "removeInit"
          /\ s = "removeInit" => stage'[p] = "removeProgress"
          /\ s = "removeProgress" => stage'[p] = "removeState"
          /\ s = "removeState" => stage'[p] = "uninstalled"
      BY <2>1 DEF Successor
    <3>2. /\ s = "removeEnable" => live["enable"] = "absent"
          /\ s = "removeInit" => live["burningInit"] = "absent"
          /\ s = "removeProgress" => live["progress"] # "binary"
          /\ s = "removeState" => live["state"] = "absent"
      BY <1>2, <2>1 DEF Keeps
    <3> QED
      BY <2>1, <2>2, <3>1, <3>2
      DEF AtMostOneCommand, Removed, Past, CleanStages
  <2>3. CASE s \notin CleanStages
    <3>1. stage'[p] \notin RemovalStages
      BY <1>1, <2>1, <2>3
      DEF Successor, RemovalStages, CleanStages, UndoStages
    <3> QED
      BY <3>1, RemovedElsewhere
  <2> QED
    BY <2>2, <2>3
<1> QED
  BY <1>3, <1>4

\* No removal of uninstall fails: bp_uninstall does not look at them.
RemovalsWork == CanFail \cap CleanStages = {}

LEMMA RemovedCommand ==
  ASSUME AtMostOneCommand, RemovalsWork, TypeOK, Rest, Removed,
         NEW p \in Procs, Command(p)
  PROVE  Removed'
<1>1. stage \in [Procs -> Stages] /\ syncing \in [Procs -> BOOLEAN]
  BY DEF TypeOK
<1>2. CASE SyncParent(p) \/ SyncParentFails(p) \/ Unlink(p)
             \/ NothingToRemove(p)
  BY <1>2, RemovedSync, RemovedUnlink
<1>3. CASE OperationFails(p)
  <2>1. /\ stage[p] \in DOMAIN Target \ CleanStages
        /\ stage'[p] = Failure(stage[p])
        /\ ~syncing'[p] /\ live' = live
    BY <1>1, <1>3 DEF OperationFails, CanDigest, Move, RemovalsWork, CleanStages
  <2>2. stage'[p] \notin RemovalStages
    BY <2>1
    DEF Failure, Successor, Target, RemovalStages, CleanStages, PublishStages
  <2> QED
    BY <2>2, RemovedElsewhere
<1>4. CASE InstallStart(p) \/ InstallRefused(p) \/ InspectInit(p)
             \/ KeepConfig(p) \/ UninstallStart(p) \/ UninstallRefused(p)
             \/ Killed(p)
  <2>1. stage'[p] \notin RemovalStages
    BY <1>1, <1>4
    DEF InstallStart, InstallRefused, InspectInit, KeepConfig, Successor,
        UninstallStart, UninstallRefused, Killed, Move, RemovalStages,
        CleanStages
  <2> QED
    BY <2>1, RemovedElsewhere
<1>5. CASE Publish(p) \/ RestoreInit(p)
  <2>1. stage'[p] \notin RemovalStages
    BY <1>1, <1>5
    DEF Publish, RestoreInit, PublishStages, Move, RemovalStages, CleanStages
  <2> QED
    BY <2>1, RemovedElsewhere
<1> QED
  BY <1>2, <1>3, <1>4, <1>5 DEF Command

LEMMA RemovedStep ==
  ASSUME AtMostOneCommand, RemovalsWork, TypeOK, Rest, More, Removed,
         [Next]_vars
  PROVE  Removed'
<1>1. CASE \E p \in Procs : Command(p)
  BY <1>1, RemovedCommand
<1>2. CASE World /\ ~(\E p \in Procs : stage'[p] \in RemovalStages)
  BY <1>2 DEF Removed, Past, RemovalStages, CleanStages
<1>3. ASSUME World, NEW p \in Procs, stage'[p] \in RemovalStages
      PROVE  Removed'
  <2>1. ~Crash
    BY <1>3 DEF Crash, RemovalStages, CleanStages
  <2>2. stage' = stage /\ syncing' = syncing
    BY <1>3, <2>1 DEF World, OwnerReplaces, Writeback
  <2>3. live["init"] = "original"
    BY <1>3, <2>2 DEF More, Restored, RemovalStages
  <2>4. live' = live
    BY <1>3, <2>1, <2>3 DEF World, OwnerReplaces, IsDispatcher, Writeback
  <2> QED
    BY <2>2, <2>4, RemovedKept
<1>4. CASE UNCHANGED vars
  BY <1>4 DEF vars, Removed, Past
<1> QED
  BY <1>1, <1>2, <1>3, <1>4 DEF Next

-----------------------------------------------------------------------------
(* What install and uninstall promise.                                      *)

LEMMA MoreInvariant ==
  ASSUME AtMostOneCommand, SwitchSyncs
  PROVE  Spec => [](TypeOK /\ Rest /\ More)
<1>1. Init => TypeOK /\ Rest /\ More
  BY TypeInit, RestInit, MoreInit
<1>2. (TypeOK /\ Rest /\ More) /\ [Next]_vars => (TypeOK /\ Rest /\ More)'
  BY TypeStep, RestStep, MoreStep
<1> QED
  BY <1>1, <1>2, PTL DEF Spec

\* When bp_install returns success everything it made is durable, whatever
\* failed in earlier commands.
THEOREM InstallDurable ==
  ASSUME AtMostOneCommand, SwitchSyncs
  PROVE  Spec => []InstalledIsDurable
<1>1. TypeOK /\ Rest /\ More => InstalledIsDurable
  BY DEF Rest, DiskServed, Served, More, Launcher, Recorded, Configured,
         Switched, Text, InstalledIsDurable
<1> QED
  BY <1>1, MoreInvariant, PTL

\* While a dispatcher and its burning-init are in place bp_uninstall finds
\* the backup and the state that it asks for, also after a power failure.
THEOREM UninstallPossible ==
  ASSUME AtMostOneCommand, SwitchSyncs
  PROVE  Spec => []UninstallStaysPossible
<1>1. TypeOK /\ Rest /\ More => UninstallStaysPossible
  BY DEF Rest, LiveServed, DiskServed, Served, More, RecordServes, Text,
         UninstallStaysPossible
<1> QED
  BY <1>1, MoreInvariant, PTL

\* When bp_uninstall returns success and its removals worked, the machine is
\* durably on its own init and ready for the next install.
THEOREM UninstallClean ==
  ASSUME AtMostOneCommand, SwitchSyncs, RemovalsWork
  PROVE  Spec => []UninstalledIsClean
<1>1. Init => Removed
  BY RemovedInit
<1>2. (TypeOK /\ Rest /\ More) /\ Removed /\ [Next]_vars => Removed'
  BY RemovedStep
<1>3. TypeOK /\ Rest /\ More /\ Removed => UninstalledIsClean
  <2> SUFFICES ASSUME TypeOK, Rest, More, Removed, NEW p \in Procs,
                      stage[p] = "uninstalled"
               PROVE  /\ disk["init"] = "original" /\ disk["backup"] = "absent"
                      /\ live["enable"] = "absent"
                      /\ live["progress"] # "modified" => CanInstall
    BY DEF UninstalledIsClean
  <2>1. /\ live["init"] = "original"
        /\ disk["init"] = "original" /\ disk["backup"] = "absent"
    BY DEF More, Restored
  <2>2. /\ live["enable"] = "absent" /\ live["burningInit"] = "absent"
        /\ live["progress"] # "binary" /\ live["state"] = "absent"
    BY DEF Removed, Past
  <2>3. live["progress"] \in {"absent"} \cup Binaries
    BY OtherFiles DEF TypeOK
  <2> QED
    BY <2>1, <2>2, <2>3 DEF CanInstall, IsDispatcher, Binaries
<1> QED
  BY <1>1, <1>2, <1>3, MoreInvariant, PTL DEF Spec

-----------------------------------------------------------------------------
(* What the rollback of install leaves.                                     *)

\* The three fsyncs after which bp_install would not know what it has to
\* undo do not fail, and neither does what the rollback itself removes.
RecordingSyncs ==
  {"saveOriginal", "writeConfig", "switchInit"} \cap SyncCanFail = {}
RollbackWorks == CanFail \cap UndoStages = {}

InstallStages == PublishStages \cup {"inspectInit"} \cup UndoStages

\* Process p has made stage s's change and not synced it.
Between(p, s) == stage[p] = s /\ syncing[p]

\* An install begins only where nothing has the names it is about to use.
FoundAbsent ==
  \A p \in Procs : stage[p] \in InstallStages =>
    \A path \in {"burningInit", "progress", "state"} :
      before[p][path] = "absent"

\* What the install has not changed so far is what it found ...
Untouched ==
  \A p \in Procs : stage[p] \in InstallStages =>
    /\ live["enable"] = before[p]["enable"]
    /\ ~Between(p, "switchInit") => live["init"] = before[p]["init"]
    /\ ~(backupCreated[p] \/ Between(p, "saveOriginal")) =>
         live["backup"] = before[p]["backup"]
    /\ ~(configCreated[p] \/ Between(p, "writeConfig")) =>
         live["config"] = before[p]["config"]

\* ... what its locals say it created was not there ...
Created ==
  \A p \in Procs : stage[p] \in InstallStages =>
    /\ backupCreated[p] \/ stage[p] = "saveOriginal" =>
         before[p]["backup"] = "absent"
    /\ configCreated[p] \/ Between(p, "writeConfig") =>
         before[p]["config"] = "absent"

\* ... and what the rollback has been at is undone.
Undone ==
  \A p \in Procs :
    /\ Past(p, "undoBackup", {"undoState", "undoProgress", "undoInit",
                              "undoConfig"}) =>
         live["backup"] = before[p]["backup"]
    /\ Past(p, "undoState", {"undoProgress", "undoInit", "undoConfig"}) =>
         live["state"] = "absent"
    /\ Past(p, "undoProgress", {"undoInit", "undoConfig"}) =>
         live["progress"] = "absent"
    /\ Past(p, "undoInit", {"undoConfig"}) => live["burningInit"] = "absent"
    /\ Between(p, "undoConfig") => live["config"] = before[p]["config"]

Traced == FoundAbsent /\ Untouched /\ Created /\ Undone

LEMMA TracedElsewhere ==
  ASSUME AtMostOneCommand, NEW p \in Procs, stage'[p] \notin InstallStages
  PROVE  Traced'
<1>1. \A r \in Procs : r = p
  BY DEF AtMostOneCommand
<1> QED
  BY <1>1
  DEF Traced, FoundAbsent, Untouched, Created, Undone, Past, Between,
      InstallStages, UndoStages, PublishStages

LEMMA TracedInit ==
  ASSUME Init
  PROVE  Traced
<1>1. \A p \in Procs : stage[p] = "idle"
  BY DEF Init
<1> QED
  BY <1>1
  DEF Traced, FoundAbsent, Untouched, Created, Undone, Past, Between,
      InstallStages, UndoStages, PublishStages

\* bp_install finds its names free, and backup_original the backup's.
LEMMA TracedStart ==
  ASSUME AtMostOneCommand, TypeOK, Traced, NEW p \in Procs,
         InstallStart(p) \/ InspectInit(p) \/ KeepConfig(p)
  PROVE  Traced'
<1>1. \A r \in Procs : r = p
  BY DEF AtMostOneCommand
<1>2. /\ stage \in [Procs -> Stages] /\ syncing \in [Procs -> BOOLEAN]
      /\ backupCreated \in [Procs -> BOOLEAN]
      /\ configCreated \in [Procs -> BOOLEAN]
      /\ before \in [Procs -> Files]
      /\ syncing[p] => stage[p] \in DOMAIN Target
  BY DEF TypeOK
<1>3. CASE InstallStart(p)
  <2>1. /\ stage'[p] = "copyInit" /\ ~syncing[p] /\ syncing' = syncing
        /\ ~backupCreated'[p] /\ ~configCreated'[p]
        /\ before'[p] = live /\ live' = live
    BY <1>2, <1>3 DEF InstallStart, Move, Resting, Target
  <2>2. \A path \in {"burningInit", "progress", "state"} :
          live[path] = "absent"
    BY <1>3 DEF InstallStart, CanInstall
  <2> QED
    BY <1>1, <2>1, <2>2
    DEF Traced, FoundAbsent, Untouched, Created, Undone, Past, Between
<1>4. CASE InspectInit(p)
  <2>1. /\ stage[p] = "inspectInit" /\ ~syncing[p] /\ syncing' = syncing
        /\ stage'[p] \in {"saveOriginal", "undoBackup"}
        /\ stage'[p] = "saveOriginal" => live["backup"] = "absent"
        /\ live' = live /\ before' = before
        /\ backupCreated' = backupCreated /\ configCreated' = configCreated
    BY <1>2, <1>4 DEF InspectInit, Move, Target
  <2> QED
    BY <1>1, <2>1
    DEF Traced, FoundAbsent, Untouched, Created, Undone, Past, Between,
        InstallStages, PublishStages, UndoStages
<1>5. CASE KeepConfig(p)
  <2>1. /\ stage[p] = "writeConfig" /\ ~syncing[p] /\ syncing' = syncing
        /\ stage'[p] = "switchInit" /\ live' = live /\ before' = before
        /\ backupCreated' = backupCreated /\ configCreated' = configCreated
    BY <1>2, <1>5 DEF KeepConfig, Move, Successor
  <2> QED
    BY <1>1, <2>1
    DEF Traced, FoundAbsent, Untouched, Created, Undone, Past, Between,
        InstallStages, PublishStages, UndoStages
<1> QED
  BY <1>3, <1>4, <1>5

LEMMA TracedPublish ==
  ASSUME AtMostOneCommand, TypeOK, Traced, NEW p \in Procs, Publish(p)
  PROVE  Traced'
<1> DEFINE s == stage[p]
<1>1. \A r \in Procs : r = p
  BY DEF AtMostOneCommand
<1>2. /\ syncing \in [Procs -> BOOLEAN] /\ live \in Files
      /\ s \in PublishStages /\ ~syncing[p] /\ syncing'[p]
      /\ stage' = stage /\ before' = before
      /\ backupCreated' = backupCreated /\ configCreated' = configCreated
      /\ s = "writeConfig" => live["config"] = "absent"
  BY DEF TypeOK, Publish, NeedsPublish
<1>3. \A path \in Paths :
        path # Target[s] => live'[path] = live[path]
  BY <1>2, FilesShape DEF Publish
<1>4. /\ Target[s] = "init" <=> s = "switchInit"
      /\ Target[s] = "backup" <=> s = "saveOriginal"
      /\ Target[s] = "config" <=> s = "writeConfig"
      /\ Target[s] # "enable"
  BY <1>2 DEF Target, PublishStages
<1>5. s \notin UndoStages /\ s \in InstallStages
  BY <1>2 DEF UndoStages, PublishStages, InstallStages
<1> HIDE DEF s
<1>6. FoundAbsent' /\ Undone'
  BY <1>1, <1>2, <1>5
  DEF s, Traced, FoundAbsent, Undone, Past, Between, UndoStages
<1>7. Untouched' /\ Created'
  BY <1>1, <1>2, <1>3, <1>4, <1>5, Names
  DEF s, Traced, Untouched, Created, Between
<1> QED
  BY <1>6, <1>7 DEF Traced

\* The locals say what was created as soon as it is durable.
LEMMA TracedSync ==
  ASSUME AtMostOneCommand, TypeOK, Traced, NEW p \in Procs, SyncParent(p)
  PROVE  Traced'
<1> DEFINE s == stage[p]
<1>1. \A r \in Procs : r = p
  BY DEF AtMostOneCommand
<1>2. /\ stage \in [Procs -> Stages] /\ syncing \in [Procs -> BOOLEAN]
      /\ backupCreated \in [Procs -> BOOLEAN]
      /\ configCreated \in [Procs -> BOOLEAN]
      /\ s \in DOMAIN Target
  BY DEF TypeOK, SyncParent
<1>3. /\ syncing[p] /\ ~syncing'[p] /\ stage'[p] = Successor[s]
      /\ live' = live /\ before' = before
  BY <1>2 DEF SyncParent, Move
<1>4. /\ backupCreated'[p] <=> backupCreated[p] \/ s = "saveOriginal"
      /\ configCreated'[p] <=> configCreated[p] \/ s = "writeConfig"
  BY <1>2 DEF SyncParent
<1>5. CASE Successor[s] \notin InstallStages
  BY <1>3, <1>5, TracedElsewhere
<1>6. CASE Successor[s] \in InstallStages
  <2>1. s \in (PublishStages \ {"switchInit"}) \cup UndoStages
    BY <1>2, <1>6
    DEF Successor, Target, InstallStages, PublishStages, UndoStages
  <2>2. /\ s \in PublishStages => Successor[s] \notin UndoStages
        /\ Successor[s] # "saveOriginal" /\ Successor[s] # "undoBackup"
        /\ Successor[s] = "undoState" => s = "undoBackup"
        /\ Successor[s] = "undoProgress" => s = "undoState"
        /\ Successor[s] = "undoInit" => s = "undoProgress"
        /\ Successor[s] = "undoConfig" => s = "undoInit"
    BY <2>1 DEF Successor, PublishStages, UndoStages
  <2>3. s \in InstallStages
    BY <2>1 DEF InstallStages
  <2> HIDE DEF s
  <2>4. FoundAbsent'
    BY <1>1, <1>3, <2>3 DEF s, Traced, FoundAbsent
  <2>5. Untouched'
    BY <1>1, <1>3, <1>4, <2>1, <2>3
    DEF s, Traced, Untouched, Between, UndoStages, PublishStages
  <2>6. Created'
    BY <1>1, <1>3, <1>4, <2>2, <2>3 DEF s, Traced, Created, Between
  <2>7. Undone'
    BY <1>1, <1>3, <2>2 DEF s, Traced, Undone, Past, Between, UndoStages
  <2> QED
    BY <2>4, <2>5, <2>6, <2>7 DEF Traced
<1> QED
  BY <1>5, <1>6

\* A stage of the install that fails has changed nothing, or the locals do
\* not matter; a stage of the rollback only fails after its removal.
LEMMA TracedFails ==
  ASSUME AtMostOneCommand, RecordingSyncs, RollbackWorks, TypeOK, Traced,
         NEW p \in Procs, SyncParentFails(p) \/ OperationFails(p)
  PROVE  Traced'
<1> DEFINE s == stage[p]
<1>1. \A r \in Procs : r = p
  BY DEF AtMostOneCommand
<1>2. /\ stage \in [Procs -> Stages] /\ syncing \in [Procs -> BOOLEAN]
      /\ s \in DOMAIN Target
  BY DEF TypeOK, SyncParentFails, OperationFails
<1>3. /\ ~syncing'[p] /\ stage'[p] = Failure(s)
      /\ live' = live /\ before' = before
      /\ backupCreated' = backupCreated /\ configCreated' = configCreated
      /\ syncing[p] => s \notin {"saveOriginal", "writeConfig", "switchInit"}
      /\ s \in UndoStages => syncing[p]
  BY <1>2
  DEF SyncParentFails, OperationFails, CanDigest, UndoStages, Move,
      RecordingSyncs, RollbackWorks
<1>4. CASE s \in PublishStages
  <2>1. Failure(s) = "undoBackup"
    BY <1>4 DEF Failure, PublishStages
  <2>2. s \in InstallStages /\ s \notin UndoStages
    BY <1>4 DEF InstallStages, PublishStages, UndoStages
  <2> HIDE DEF s
  <2> QED
    BY <1>1, <1>3, <2>1, <2>2
    DEF s, Traced, FoundAbsent, Untouched, Created, Undone, Past, Between
<1>5. CASE s \in UndoStages
  <2>1. /\ s = "undoBackup" => Failure(s) = "undoState"
        /\ s = "undoState" => Failure(s) = "undoProgress"
        /\ s = "undoProgress" => Failure(s) = "undoInit"
        /\ s = "undoInit" => Failure(s) = "undoConfig"
        /\ s = "undoConfig" => Failure(s) = "installFailed"
    BY DEF Failure, Successor, PublishStages
  <2>2. CASE s = "undoConfig"
    BY <1>3, <2>1, <2>2, TracedElsewhere
    DEF InstallStages, PublishStages, UndoStages
  <2>3. CASE s # "undoConfig"
    <3>1. s \in InstallStages /\ syncing[p]
      BY <1>3, <1>5 DEF InstallStages
    <3> QED
      BY <1>1, <1>3, <1>5, <2>1, <2>3, <3>1
      DEF Traced, FoundAbsent, Untouched, Created, Undone, Past, Between,
          UndoStages
  <2> QED
    BY <2>2, <2>3
<1>6. CASE s \notin PublishStages \cup UndoStages
  <2>1. Failure(s) \notin InstallStages
    BY <1>2, <1>6
    DEF Failure, Successor, Target, InstallStages, PublishStages, UndoStages
  <2> QED
    BY <1>3, <2>1, TracedElsewhere
<1> QED
  BY <1>4, <1>5, <1>6

\* The rollback takes away what the install made: nothing else had the name.
LEMMA TracedUnlink ==
  ASSUME AtMostOneCommand, TypeOK, Traced, NEW p \in Procs, Unlink(p)
  PROVE  Traced'
<1> DEFINE s == stage[p]
<1>1. \A r \in Procs : r = p
  BY DEF AtMostOneCommand
<1>2. /\ syncing \in [Procs -> BOOLEAN] /\ live \in Files
      /\ s \in UndoStages \cup CleanStages /\ ~syncing[p] /\ syncing'[p]
      /\ stage' = stage /\ before' = before
      /\ backupCreated' = backupCreated /\ configCreated' = configCreated
      /\ ~Keeps(p, s)
  BY DEF TypeOK, Unlink
<1>3. CASE s \in UndoStages
  <2>1. \A path \in Paths :
          live'[path] = IF path = Target[s] THEN "absent" ELSE live[path]
    BY <1>2, FilesShape DEF Unlink
  <2>2. \A path \in {"init", "backup", "burningInit", "progress", "state",
                     "config", "enable"} :
          live'[path] = IF path = Target[s] THEN "absent" ELSE live[path]
    BY <2>1 DEF Paths, SbinPaths, HostPaths
  <2>3. /\ Target[s] = "backup" <=> s = "undoBackup"
        /\ Target[s] = "state" <=> s = "undoState"
        /\ Target[s] = "progress" <=> s = "undoProgress"
        /\ Target[s] = "burningInit" <=> s = "undoInit"
        /\ Target[s] = "config" <=> s = "undoConfig"
        /\ Target[s] # "init" /\ Target[s] # "enable"
    BY <1>3 DEF Target, UndoStages
  <2>4. /\ s = "undoBackup" => backupCreated[p]
        /\ s = "undoConfig" => configCreated[p]
    BY <1>2 DEF Keeps
  <2>5. s \in InstallStages /\ s \notin PublishStages
    BY <1>3 DEF InstallStages, PublishStages, UndoStages
  <2> HIDE DEF s
  <2>6. FoundAbsent' /\ Created'
    BY <1>1, <1>2, <2>5
    DEF s, Traced, FoundAbsent, Created, Between, PublishStages
  <2>7. Untouched'
    BY <1>1, <1>2, <2>2, <2>3, <2>4, <2>5
    DEF s, Traced, Untouched, Between, PublishStages
  <2>8. Undone'
    BY <1>1, <1>2, <2>2, <2>3, <2>4, <2>5
    DEF s, Traced, Created, Undone, Past, Between
  <2> QED
    BY <2>6, <2>7, <2>8 DEF Traced
<1>4. CASE s \notin UndoStages
  <2>1. stage'[p] \notin InstallStages
    BY <1>2, <1>4 DEF InstallStages, PublishStages, UndoStages, CleanStages
  <2> QED
    BY <2>1, TracedElsewhere
<1> QED
  BY <1>3, <1>4

LEMMA TracedNothing ==
  ASSUME AtMostOneCommand, TypeOK, Traced, NEW p \in Procs, NothingToRemove(p)
  PROVE  Traced'
<1> DEFINE s == stage[p]
<1>1. \A r \in Procs : r = p
  BY DEF AtMostOneCommand
<1>2. /\ stage \in [Procs -> Stages] /\ syncing \in [Procs -> BOOLEAN]
      /\ s \in UndoStages \cup CleanStages /\ ~syncing[p]
      /\ syncing' = syncing /\ stage'[p] = Successor[s]
      /\ live' = live /\ before' = before
      /\ backupCreated' = backupCreated /\ configCreated' = configCreated
      /\ Keeps(p, s) \/ live[Target[s]] = "absent"
  BY DEF TypeOK, NothingToRemove, Move
<1>3. /\ s = "undoBackup" =>
           /\ ~backupCreated[p] \/ live["backup"] = "absent"
           /\ Successor[s] = "undoState"
      /\ s = "undoState" =>
           live["state"] = "absent" /\ Successor[s] = "undoProgress"
      /\ s = "undoProgress" =>
           live["progress"] = "absent" /\ Successor[s] = "undoInit"
      /\ s = "undoInit" =>
           live["burningInit"] = "absent" /\ Successor[s] = "undoConfig"
      /\ s = "undoConfig" => Successor[s] = "installFailed"
  BY <1>2 DEF Keeps, Target, Successor
<1>4. CASE s \in UndoStages \ {"undoConfig"}
  <2>1. s \in InstallStages
    BY <1>4 DEF InstallStages
  <2>2. live["backup"] = before[p]["backup"]
    BY <1>2, <1>3, <1>4, <2>1
    DEF Traced, Untouched, Created, Undone, Past, Between, UndoStages
  <2> QED
    BY <1>1, <1>2, <1>3, <1>4, <2>1, <2>2
    DEF Traced, FoundAbsent, Untouched, Created, Undone, Past, Between,
        UndoStages
<1>5. CASE s \notin UndoStages \ {"undoConfig"}
  <2>1. Successor[s] \notin InstallStages
    BY <1>2, <1>5
    DEF Successor, InstallStages, PublishStages, UndoStages, CleanStages
  <2> QED
    BY <1>2, <2>1, TracedElsewhere
<1> QED
  BY <1>4, <1>5

LEMMA TracedWorld ==
  ASSUME AtMostOneCommand, TypeOK, Rest, Traced, World
  PROVE  Traced'
<1>1. live \in Files
  BY DEF TypeOK
<1>2. ASSUME NEW path \in {"burningInit", "progress"}, OwnerReplaces(path)
      PROVE  Traced'
  <2>1. /\ live["init"] = "dispatcher" /\ stage' = stage
        /\ syncing' = syncing /\ before' = before
        /\ backupCreated' = backupCreated /\ configCreated' = configCreated
    BY <1>2 DEF OwnerReplaces, IsDispatcher
  <2>2. \A name \in {"init", "backup", "config", "enable"} :
          live'[name] = live[name]
    BY <1>1, <1>2, FilesShape DEF OwnerReplaces, Paths, SbinPaths, HostPaths
  <2>3. \A p \in Procs : stage[p] \notin UndoStages
    BY <2>1 DEF Rest, Unswitched, UnswitchedStages, UndoStages
  <2>4. FoundAbsent' /\ Untouched' /\ Created'
    BY <2>1, <2>2 DEF Traced, FoundAbsent, Untouched, Created, Between
  <2>5. Undone'
    BY <2>1, <2>3 DEF Undone, Past, Between, UndoStages
  <2> QED
    BY <2>4, <2>5 DEF Traced
<1>3. ASSUME NEW names \in WritebackUnits, Writeback(names) PROVE Traced'
  BY <1>3
  DEF Writeback, Traced, FoundAbsent, Untouched, Created, Undone, Past,
      Between
<1>4. CASE Crash
  <2>1. \A p \in Procs : stage'[p] = "idle"
    BY <1>4 DEF Crash
  <2> QED
    BY <2>1
    DEF Traced, FoundAbsent, Untouched, Created, Undone, Past, Between,
        InstallStages, UndoStages, PublishStages
<1> QED
  BY <1>2, <1>3, <1>4 DEF World

LEMMA TracedStep ==
  ASSUME AtMostOneCommand, RecordingSyncs, RollbackWorks, TypeOK, Rest,
         Traced, [Next]_vars
  PROVE  Traced'
<1>1. ASSUME NEW p \in Procs, Command(p) PROVE Traced'
  <2>1. CASE InstallRefused(p) \/ UninstallStart(p) \/ UninstallRefused(p)
               \/ RestoreInit(p) \/ Killed(p)
    <3>1. stage'[p] \notin InstallStages
      BY <2>1
      DEF TypeOK, InstallRefused, UninstallStart, UninstallRefused,
          RestoreInit, Killed, Move, InstallStages, PublishStages, UndoStages
    <3> QED
      BY <3>1, TracedElsewhere
  <2> QED
    BY <1>1, <2>1, TracedStart, TracedPublish, TracedSync, TracedFails,
       TracedUnlink, TracedNothing
    DEF Command
<1>2. CASE UNCHANGED vars
  BY <1>2
  DEF vars, Traced, FoundAbsent, Untouched, Created, Undone, Past, Between
<1> QED
  BY <1>1, <1>2, TracedWorld DEF Next

\* The only way from the rollback to the end of the command.
LEMMA RollbackEnds ==
  ASSUME AtMostOneCommand, TypeOK, [Next]_vars, NEW p \in Procs,
         stage[p] \in UndoStages, stage'[p] = "installFailed"
  PROVE  /\ stage[p] = "undoConfig" /\ live' = live
         /\ \/ syncing[p]
            \/ OperationFails(p)
            \/ ~configCreated[p] \/ live["config"] = "absent"
<1>1. stage \in [Procs -> Stages]
  BY DEF TypeOK
<1>2. /\ stage[p] \notin Resting \cup PublishStages \cup CleanStages
      /\ stage[p] \notin {"inspectInit", "restoreInit"}
      /\ stage'[p] # stage[p]
  BY DEF UndoStages, Resting, PublishStages, CleanStages
<1>3. Command(p)
  <2>1. ~World /\ ~UNCHANGED vars
    BY <1>2 DEF World, OwnerReplaces, Writeback, Crash, vars
  <2> QED
    BY <2>1 DEF Next, AtMostOneCommand
<1>4. \/ SyncParent(p) \/ SyncParentFails(p) \/ OperationFails(p)
      \/ NothingToRemove(p)
  BY <1>1, <1>2, <1>3
  DEF Command, InstallStart, InstallRefused, InspectInit, Publish, KeepConfig,
      Unlink, UninstallStart, UninstallRefused, RestoreInit, Killed, Move,
      PublishStages
<1>5. stage'[p] = Successor[stage[p]]
  BY <1>1, <1>4
  DEF SyncParent, SyncParentFails, OperationFails, NothingToRemove, Move,
      Failure, PublishStages, UndoStages
<1>6. stage[p] = "undoConfig"
  BY <1>5 DEF Successor, UndoStages
<1>7. NothingToRemove(p) => ~configCreated[p] \/ live["config"] = "absent"
  BY <1>6 DEF NothingToRemove, Keeps, Target
<1> QED
  BY <1>4, <1>6, <1>7
  DEF SyncParent, SyncParentFails, OperationFails, NothingToRemove

LEMMA TracedEnds ==
  ASSUME AtMostOneCommand, RollbackWorks, TypeOK, Traced, [Next]_vars,
         NEW p \in Procs,
         stage[p] \in UndoStages, stage'[p] = "installFailed"
  PROVE  live' = before[p]
<1>1. /\ stage[p] = "undoConfig" /\ live' = live
      /\ syncing[p] \/ ~configCreated[p] \/ live["config"] = "absent"
  BY RollbackEnds DEF OperationFails, CanDigest, RollbackWorks, UndoStages
<1>2. stage[p] \in InstallStages
  BY DEF InstallStages
<1>3. live["config"] = before[p]["config"]
  BY <1>1, <1>2 DEF Traced, Untouched, Created, Undone, Between
<1>4. \A path \in {"burningInit", "progress", "state"} :
        live[path] = before[p][path]
  BY <1>1, <1>2 DEF Traced, FoundAbsent, Undone, Past
<1>5. \A path \in {"init", "backup", "enable"} : live[path] = before[p][path]
  BY <1>1, <1>2 DEF Traced, Untouched, Undone, Past, Between
<1>6. \A path \in Paths : live[path] = before[p][path]
  BY <1>3, <1>4, <1>5 DEF Paths, SbinPaths, HostPaths
<1>7. live \in [Paths -> Contents] /\ before[p] \in [Paths -> Contents]
  BY DEF TypeOK, Files
<1>8. live = before[p]
  BY <1>6, <1>7
<1> QED
  BY <1>1, <1>8

\* bp_install that returns an error from its rollback has put every file
\* back to what it found, with one command at a time, as long as nothing
\* fails that the rollback cannot know of.
THEOREM FailedInstallUndone ==
  ASSUME AtMostOneCommand, RecordingSyncs, RollbackWorks
  PROVE  Spec => FailedInstallLeavesNoTrace
<1>1. SwitchSyncs
  BY DEF SwitchSyncs, RecordingSyncs
<1>2. Init => TypeOK /\ Rest /\ Traced
  BY TypeInit, RestInit, TracedInit
<1>3. (TypeOK /\ Rest /\ Traced) /\ [Next]_vars => (TypeOK /\ Rest /\ Traced)'
  BY <1>1, TypeStep, RestStep, TracedStep
<1>4. TypeOK /\ Traced /\ [Next]_vars =>
        [\A p \in Procs :
           (stage[p] \in UndoStages /\ stage'[p] = "installFailed")
             => live' = before[p]]_vars
  BY TracedEnds
<1> QED
  BY <1>2, <1>3, <1>4, PTL DEF Spec, FailedInstallLeavesNoTrace
=============================================================================
