----------------------------- MODULE RootfsStore -----------------------------
(***************************************************************************)
(* `burning-progress rootfs install` (command_rootfs_install in            *)
(* src/src/burning_progress.c, bp_rootfs_install in src/src/cpio.c) and    *)
(* the boot that uses what it installed.                                   *)
(*                                                                         *)
(* The command stages the recovery root in a directory, packs it, and puts *)
(* three files on the host one after the other: the archive, its SHA-256,  *)
(* the host configuration.  A boot goes into the RAM root only when the    *)
(* digest of the archive is the recorded one.  Each file is renamed into   *)
(* place and then the directory is fsynced; power may fail and the command *)
(* may be killed between any two steps.  One command runs at a time.       *)
(***************************************************************************)
EXTENDS Disk, Integers

CONSTANTS
  Archives,      \* the recovery archives that get packed, by their digest
  CanFail,       \* the steps that may fail
  SyncCanFail    \* the steps whose directory fsync may fail

\* What stands for no archive, or for a broken one, is none.
ASSUME ArchivesAssumption == Archives \cap {"none", "damaged"} = {}

VARIABLES
  live,         \* path -> content, as running programs see it
  disk,         \* path -> content, as a crash leaves it
  phase,        \* "up", "booting" or "recovery"
  pc,           \* the step of the command, or how the last one ended
  given,        \* the archive the command makes
  fromFile,     \* its source is an archive, not a directory
  temporaries,  \* the directories in /tmp it still has
  syncing,      \* it has renamed a file and not yet synced the directory
  digest,       \* what bp_sha256_file said of the installed archive
  result,       \* command_rootfs_install's local of that name: 0 or not
  inRam,        \* the archive the RAM root was made from, or "none"
  bootable      \* the archive whose digest was last made durable (history)

command == <<pc, given, fromFile, temporaries, syncing, digest, result>>
vars == <<live, disk, phase, command, inRam, bootable>>

-----------------------------------------------------------------------------

Paths == {"archive", "checksum", "config"}

\* An archive stands for its digest too; a damaged one has another digest.
PathContents ==
  [archive |-> Archives \cup {"none", "damaged"},
   checksum |-> Archives \cup {"none"},
   config |-> {"none", "config"}]

Contents == Archives \cup {"none", "damaged", "config"}
Files == {f \in [Paths -> Contents] :
            \A path \in Paths : f[path] \in PathContents[path]}

StagingSteps == {"inspect", "mkWorkspace", "unpack", "launcher", "configure",
                 "entry", "verifySource", "mkArchiveDir", "pack",
                 "verifyArchive"}
PublishSteps == {"copy", "checksum", "config"}
Ended == {"idle", "installed", "failed"}
Steps == StagingSteps \cup PublishSteps \cup {"digest", "cleanup"} \cup Ended

\* The order of the calls; "inspect" goes on by what the source is.
Successor ==
  [mkWorkspace |-> "unpack", unpack |-> "launcher",
   launcher |-> "configure", configure |-> "entry",
   entry |-> "verifySource", verifySource |-> "mkArchiveDir",
   mkArchiveDir |-> "pack", pack |-> "verifyArchive",
   verifyArchive |-> "copy", copy |-> "digest",
   digest |-> "checksum", checksum |-> "config", config |-> "cleanup"]

Target == [copy |-> "archive", checksum |-> "checksum", config |-> "config"]

\* Mutant: an archive that looks well-formed is good enough.
AcceptedByFormat(files) == files["archive"]

\* bp_rootfs_verify_installed: the recorded digest is that of the archive.
Accepted(files) ==
  IF files["checksum"] = files["archive"] THEN files["archive"] ELSE "none"

-----------------------------------------------------------------------------
(* The command.                                                             *)

Start(archive, file) ==
  /\ phase = "up" /\ pc \in Ended
  /\ pc' = "inspect"
  /\ given' = archive /\ fromFile' = file
  /\ temporaries' = {} /\ syncing' = FALSE
  /\ digest' = "none" /\ result' = -1
  /\ UNCHANGED <<live, disk, phase, inRam, bootable>>

\* What a staging step that succeeds leaves in /tmp.
Made(step) ==
  IF step = "mkWorkspace" THEN {"workspace"}
  ELSE IF step = "mkArchiveDir" THEN {"archiveDir"} ELSE {}

\* A directory is staged in place, an archive in a workspace.
AfterStaging(step) ==
  IF step # "inspect" THEN Successor[step]
  ELSE IF fromFile THEN "mkWorkspace" ELSE "launcher"

Stage ==
  /\ pc \in StagingSteps
  /\ pc' = AfterStaging(pc)
  /\ temporaries' = temporaries \cup Made(pc)
  /\ UNCHANGED <<live, disk, phase, given, fromFile, syncing, digest, result,
                 inRam, bootable>>

\* Before there is anything to clean up the command just returns.
AfterFailure(step) ==
  IF step \in {"inspect", "mkWorkspace"} THEN "failed" ELSE "cleanup"

\* Mutant: a staging directory that cannot be packed stays behind.
FailReturns ==
  /\ pc \in CanFail \cap (StagingSteps \cup PublishSteps \cup {"digest"})
  /\ ~syncing
  /\ pc' = IF pc \in {"verifySource", "mkArchiveDir"} THEN "failed"
           ELSE AfterFailure(pc)
  /\ UNCHANGED <<live, disk, phase, given, fromFile, temporaries, syncing,
                 digest, result, inRam, bootable>>

Fail ==
  /\ pc \in CanFail \cap (StagingSteps \cup PublishSteps \cup {"digest"})
  /\ ~syncing
  /\ pc' = AfterFailure(pc)
  /\ UNCHANGED <<live, disk, phase, given, fromFile, temporaries, syncing,
                 digest, result, inRam, bootable>>

\* bp_host_config_ensure leaves an existing configuration alone.
Needed(step) == ~(step = "config" /\ live["config"] # "none")

\* Mutant: the digest is taken once more when it is written.
PublishedRehash(step) ==
  [copy |-> given, checksum |-> live["archive"], config |-> "config"][step]

Published(step) ==
  [copy |-> given, checksum |-> digest, config |-> "config"][step]

\* The rename that puts the step's file in place.  That the entry of a parent
\* directory made for it is never fsynced is left out.
Publish ==
  /\ pc \in PublishSteps /\ ~syncing /\ Needed(pc)
  /\ live' = [live EXCEPT ![Target[pc]] = Published(pc)]
  /\ syncing' = TRUE
  /\ bootable' = IF pc = "copy" THEN "none" ELSE bootable
  /\ UNCHANGED <<disk, phase, pc, given, fromFile, temporaries, digest, result,
                 inRam>>

Advance == pc' = Successor[pc] /\ result' = IF pc = "config" THEN 0 ELSE result

KeepConfig ==
  /\ pc = "config" /\ ~syncing /\ ~Needed(pc)
  /\ Advance
  /\ UNCHANGED <<live, disk, phase, given, fromFile, temporaries, syncing,
                 digest, inRam, bootable>>

\* Mutant: the directory of the archive is synced, that of the digest is not.
SyncParentOnce ==
  /\ syncing
  /\ disk' = IF pc = "copy" THEN Persist(live, disk, Paths) ELSE disk
  /\ syncing' = FALSE
  /\ Advance
  /\ bootable' = IF pc = "checksum" THEN digest ELSE bootable
  /\ UNCHANGED <<live, phase, given, fromFile, temporaries, digest, inRam>>

SyncParent ==
  /\ syncing
  /\ disk' = Persist(live, disk, Paths)
  /\ syncing' = FALSE
  /\ Advance
  /\ bootable' = IF pc = "checksum" THEN digest ELSE bootable
  /\ UNCHANGED <<live, phase, given, fromFile, temporaries, digest, inRam>>

SyncParentFails ==
  /\ syncing /\ pc \in SyncCanFail
  /\ syncing' = FALSE
  /\ pc' = "cleanup"
  /\ UNCHANGED <<live, disk, phase, given, fromFile, temporaries, digest,
                 result, inRam, bootable>>

\* Mutant: the digest is the one of the archive it replaces.
DigestBeforeCopy ==
  /\ pc = "digest"
  /\ digest' = disk["checksum"]
  /\ pc' = Successor[pc]
  /\ UNCHANGED <<live, disk, phase, given, fromFile, temporaries, syncing,
                 result, inRam, bootable>>

\* The digest is taken of the file that has just been put in place.
Digest ==
  /\ pc = "digest"
  /\ digest' = live["archive"]
  /\ pc' = Successor[pc]
  /\ UNCHANGED <<live, disk, phase, given, fromFile, temporaries, syncing,
                 result, inRam, bootable>>

\* remove_tree of what was made; its failures are not looked at.
Cleanup ==
  /\ pc = "cleanup"
  /\ temporaries' \in IF "cleanup" \in CanFail THEN SUBSET temporaries ELSE {{}}
  /\ pc' = IF result = 0 THEN "installed" ELSE "failed"
  /\ UNCHANGED <<live, disk, phase, given, fromFile, syncing, digest, result,
                 inRam, bootable>>

\* kill -9: the next command makes directories of its own.
Killed ==
  /\ pc \notin Ended
  /\ pc' = "idle" /\ syncing' = FALSE
  /\ UNCHANGED <<live, disk, phase, given, fromFile, temporaries, digest,
                 result, inRam, bootable>>

-----------------------------------------------------------------------------
(* The machine.                                                             *)

\* Storage damages the archive after its digest was taken.
Damage ==
  /\ live["archive"] \in Archives
  /\ ~(pc = "digest" \/ (pc = "copy" /\ syncing))
  /\ live' = [live EXCEPT !["archive"] = "damaged"]
  /\ disk' = IF disk["archive"] = live["archive"]
               THEN [disk EXCEPT !["archive"] = "damaged"] ELSE disk
  /\ UNCHANGED <<phase, command, inRam, bootable>>

Writeback(path) ==
  /\ disk' = Persist(live, disk, {path})
  /\ UNCHANGED <<live, phase, command, inRam, bootable>>

Crash ==
  /\ live' = disk
  /\ phase' = "booting"
  /\ pc' = "idle" /\ syncing' = FALSE
  /\ inRam' = "none"
  /\ UNCHANGED <<disk, given, fromFile, temporaries, digest, result, bootable>>

\* The original init, or the recovery root if what is installed is accepted.
Boot(recovery) ==
  /\ phase = "booting"
  /\ IF recovery /\ Accepted(live) # "none"
       THEN phase' = "recovery" /\ inRam' = live["archive"]
       ELSE phase' = "up" /\ UNCHANGED inRam
  /\ UNCHANGED <<live, disk, command, bootable>>

-----------------------------------------------------------------------------

Init ==
  /\ live \in {[archive |-> "none", checksum |-> "none", config |-> config] :
                 config \in {"none", "config"}}
  /\ disk = live
  /\ phase = "up" /\ pc = "idle"
  /\ given \in Archives /\ fromFile = FALSE
  /\ temporaries = {} /\ syncing = FALSE
  /\ digest = "none" /\ result = -1
  /\ inRam = "none" /\ bootable = "none"

Command ==
  \/ \E archive \in Archives, file \in BOOLEAN : Start(archive, file)
  \/ Stage \/ Fail
  \/ Publish \/ KeepConfig \/ SyncParent \/ SyncParentFails
  \/ Digest \/ Cleanup \/ Killed

Next ==
  \/ Command
  \/ Damage \/ (\E path \in Paths : Writeback(path))
  \/ Crash \/ (\E recovery \in BOOLEAN : Boot(recovery))

Spec == Init /\ [][Next]_vars

-----------------------------------------------------------------------------
(* Properties.                                                              *)

\* The shapes of the variables; only a step with a target syncs, and only
\* on the running system is there a command.
TypeOK ==
  /\ live \in Files /\ disk \in Files
  /\ phase \in {"up", "booting", "recovery"}
  /\ pc \in Steps /\ (pc \notin Ended => phase = "up")
  /\ given \in Archives /\ fromFile \in BOOLEAN
  /\ temporaries \subseteq {"workspace", "archiveDir"}
  /\ syncing \in BOOLEAN /\ (syncing => pc \in PublishSteps)
  /\ digest \in Archives \cup {"none"}
  /\ result \in {-1, 0}
  /\ inRam \in Archives \cup {"none", "damaged"}
  /\ bootable \in Archives \cup {"none"}

\* Once the digest of an archive is durable, a boot accepts that archive,
\* with or without a power failure, until another one is renamed over it:
\* an install that fails or is cut short earlier, or in the configuration
\* after it, costs the machine nothing.  (Damage is for NoDamagedRoot.)
DigestMakesItBootable ==
  bootable # "none" =>
    \A files \in {live, disk} :
      files["archive"] # "damaged" => Accepted(files) = bootable

\* When rootfs install reports success its archive is the one a boot would
\* accept, also after a power failure, unless storage damaged it, and the
\* configuration is there.
ReportedIsDurable ==
  pc = "installed" =>
    /\ disk["config"] = "config"
    /\ Accepted(disk) = given \/ disk["archive"] = "damaged"

\* The RAM root is never made from a damaged archive: "rootfs.cpio.sha256"
\* finds accidental damage of an installed archive.
NoDamagedRoot == inRam # "damaged"

\* A command that ends by itself has removed what it made in /tmp, on every
\* one of its error paths, if the removal works.
TemporariesAreRemoved ==
  (pc \in {"installed", "failed"} /\ "cleanup" \notin CanFail)
    => temporaries = {}
=============================================================================
