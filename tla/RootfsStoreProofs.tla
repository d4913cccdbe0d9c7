------------------------- MODULE RootfsStoreProofs -------------------------
(***************************************************************************)
(* Proofs about RootfsStore, for any set of archives and any choice of     *)
(* steps and fsyncs that may fail: its type invariant and its four safety  *)
(* properties.                                                             *)
(***************************************************************************)
EXTENDS RootfsStore, TLAPS

-----------------------------------------------------------------------------
(* The inductive invariant, in named parts.                                 *)

\* Before there is anything to clean up there is nothing in /tmp.
NothingMade == pc \in {"inspect", "mkWorkspace"} => temporaries = {}

\* The installed archive, as long as its digest has not been taken.
JustCopied == (pc = "copy" /\ syncing) \/ pc = "digest" => live["archive"] = given

\* Once it is durable only damage changes it.
Copied ==
  pc \in {"digest", "checksum", "config"} =>
    \A files \in {live, disk} : files["archive"] \in {given, "damaged"}

\* The digest is that of the archive the command was given, and is recorded.
Digested == pc \in {"checksum", "config"} => digest = given

Recorded ==
  /\ pc = "checksum" /\ syncing => live["checksum"] = given
  /\ pc = "config" => live["checksum"] = given /\ disk["checksum"] = given

\* The configuration is as durable as it is there, but while it is renamed.
ConfigKept ==
  /\ pc \in {"digest", "checksum"} \/ (pc = "config" /\ ~syncing)
       => live["config"] = disk["config"]
  /\ pc = "config" /\ syncing => live["config"] = "config"

\* Only the last call sets result to 0; what was done by then stays.
Finished ==
  /\ result = 0 => pc \in Ended \cup {"cleanup"}
  /\ pc = "installed" \/ (pc = "cleanup" /\ result = 0) =>
       \A files \in {live, disk} :
         /\ files["archive"] \in {given, "damaged"}
         /\ files["checksum"] = given
         /\ files["config"] = "config"

\* While archive and digest do not belong together nothing is promised.
Promised ==
  /\ (pc = "copy" /\ syncing) \/ pc \in {"digest", "checksum"}
       => bootable = "none"
  /\ bootable # "none" =>
       \A files \in {live, disk} :
         /\ files["archive"] \in {bootable, "damaged"}
         /\ files["checksum"] = bootable

Inv ==
  /\ TypeOK
  /\ NothingMade /\ JustCopied /\ Copied /\ Digested /\ Recorded
  /\ ConfigKept /\ Finished /\ Promised
  /\ NoDamagedRoot /\ TemporariesAreRemoved

-----------------------------------------------------------------------------
(* Lemmas.                                                                  *)

\* The order of the publishing calls.
LEMMA Order ==
  /\ Successor["copy"] = "digest" /\ Successor["digest"] = "checksum"
  /\ Successor["checksum"] = "config" /\ Successor["config"] = "cleanup"
  /\ Target["copy"] = "archive" /\ Target["checksum"] = "checksum"
  /\ Target["config"] = "config"
BY DEF Successor, Target

\* What comes after a staging step.
LEMMA StagingOrder ==
  ASSUME NEW step \in StagingSteps
  PROVE  /\ AfterStaging(step) \in (StagingSteps \ {"inspect"}) \cup {"copy"}
         /\ AfterStaging(step) = "mkWorkspace" => step = "inspect"
BY DEF StagingSteps, AfterStaging, Successor

\* What may be at each path.
LEMMA FilesMeaning ==
  ASSUME NEW f \in Files
  PROVE  /\ f = [path \in Paths |-> f[path]]
         /\ f["archive"] \in Archives \cup {"none", "damaged"}
         /\ f["checksum"] \in Archives \cup {"none"}
         /\ f["config"] \in {"none", "config"}
BY DEF Files, Paths, PathContents

LEMMA FilesFrom ==
  ASSUME NEW f, f = [path \in Paths |-> f[path]],
         f["archive"] \in Archives \cup {"none", "damaged"},
         f["checksum"] \in Archives \cup {"none"},
         f["config"] \in {"none", "config"}
  PROVE  f \in Files
<1>1. \A path \in Paths : f[path] \in PathContents[path]
  BY DEF Paths, PathContents
<1>2. \A path \in Paths : PathContents[path] \subseteq Contents
  BY DEF Paths, PathContents, Contents
<1> QED BY <1>1, <1>2 DEF Files

\* One file replaced.
LEMMA Replace ==
  ASSUME NEW f \in Files, NEW path \in Paths, NEW c \in PathContents[path]
  PROVE  /\ [f EXCEPT ![path] = c] \in Files
         /\ \A q \in Paths :
              [f EXCEPT ![path] = c][q] = IF q = path THEN c ELSE f[q]
BY DEF Files, PathContents, Contents, Paths

\* Entries written to the disk.
LEMMA PersistFiles ==
  ASSUME NEW f \in Files, NEW d \in Files, NEW names
  PROVE  /\ Persist(f, d, names) \in Files
         /\ \A path \in Paths :
              Persist(f, d, names)[path] =
                IF path \in names THEN f[path] ELSE d[path]
BY DEF Files, Persist

\* An accepted archive is one, and not damaged.
LEMMA AcceptedIsArchive ==
  ASSUME NEW f \in Files
  PROVE  /\ Accepted(f) \in Archives \cup {"none"}
         /\ Accepted(f) # "none" => Accepted(f) = f["archive"]
BY FilesMeaning DEF Accepted

-----------------------------------------------------------------------------

LEMMA InvInit == Init => Inv
<1>. SUFFICES ASSUME Init PROVE Inv
  OBVIOUS
<1>1. live \in Files
  <2>1. PICK config \in {"none", "config"} :
          live = [archive |-> "none", checksum |-> "none", config |-> config]
    BY DEF Init
  <2> QED BY <2>1, FilesFrom DEF Paths
<1>2. TypeOK
  BY <1>1 DEF Init, TypeOK, Steps, Ended
<1> QED
  BY <1>2, ArchivesAssumption
  DEF Init, Inv, NothingMade, JustCopied, Copied, Digested, Recorded,
      ConfigKept, Finished, Promised, NoDamagedRoot, TemporariesAreRemoved,
      Ended

\* Ways to say that a step does not touch what a conjunct is about.
LEMMA InvUnchanged == Inv /\ UNCHANGED vars => Inv'
BY DEF Inv, vars, command, TypeOK, NothingMade, JustCopied, Copied, Digested,
       Recorded, ConfigKept, Finished, Promised, NoDamagedRoot,
       TemporariesAreRemoved, Accepted

\* A command starts: nothing is made, nothing is syncing.
LEMMA InvStart ==
  ASSUME Inv, NEW archive \in Archives, NEW file \in BOOLEAN,
         Start(archive, file)
  PROVE  Inv'
<1>1. /\ pc' = "inspect" /\ given' = archive /\ fromFile' = file
      /\ temporaries' = {} /\ syncing' = FALSE
      /\ digest' = "none" /\ result' = -1
      /\ phase = "up" /\ pc \in Ended
      /\ UNCHANGED <<live, disk, phase, inRam, bootable>>
  BY DEF Start
<1>2. TypeOK'
  BY <1>1 DEF Inv, TypeOK, Steps, StagingSteps
<1>3. (NothingMade /\ JustCopied /\ Copied /\ Digested /\ Recorded
        /\ ConfigKept /\ Finished /\ TemporariesAreRemoved)'
  BY <1>1 DEF NothingMade, JustCopied, Copied, Digested, Recorded, ConfigKept,
              Finished, TemporariesAreRemoved
<1>4. Promised' /\ NoDamagedRoot'
  BY <1>1 DEF Inv, Promised, NoDamagedRoot
<1> QED
  BY <1>2, <1>3, <1>4 DEF Inv

\* Staging touches neither the host's files nor what is promised of them.
LEMMA InvStage == Inv /\ Stage => Inv'
<1> SUFFICES ASSUME Inv, Stage PROVE Inv'
  OBVIOUS
<1>1. /\ pc \in StagingSteps /\ pc' = AfterStaging(pc)
      /\ temporaries' = temporaries \cup Made(pc)
      /\ UNCHANGED <<live, disk, phase, given, fromFile, syncing, digest,
                     result, inRam, bootable>>
  BY DEF Stage
<1>2. /\ pc' \in (StagingSteps \ {"inspect"}) \cup {"copy"}
      /\ pc' = "mkWorkspace" => pc = "inspect"
  BY <1>1, StagingOrder
<1>3. ~syncing /\ result # 0
  BY <1>1 DEF Inv, TypeOK, Finished, StagingSteps, PublishSteps, Ended
<1>4. TypeOK'
  BY <1>1, <1>2, <1>3
  DEF Inv, TypeOK, Steps, StagingSteps, PublishSteps, Ended, Made
<1>5. NothingMade'
  BY <1>1, <1>2 DEF Inv, NothingMade, Made
<1>6. (JustCopied /\ Copied /\ Digested /\ Recorded /\ ConfigKept)'
  BY <1>1, <1>2, <1>3
  DEF JustCopied, Copied, Digested, Recorded, ConfigKept, StagingSteps
<1>7. (Finished /\ TemporariesAreRemoved)'
  BY <1>1, <1>2, <1>3
  DEF Finished, TemporariesAreRemoved, StagingSteps
<1>8. Promised' /\ NoDamagedRoot'
  BY <1>1, <1>2, <1>3 DEF Inv, Promised, NoDamagedRoot, StagingSteps
<1> QED
  BY <1>4, <1>5, <1>6, <1>7, <1>8 DEF Inv

\* A failure goes to the cleanup, unless there is nothing to clean up.
LEMMA InvFail == Inv /\ (Fail \/ SyncParentFails) => Inv'
<1> SUFFICES ASSUME Inv, Fail \/ SyncParentFails PROVE Inv'
  OBVIOUS
<1>1. /\ pc \in StagingSteps \cup PublishSteps \cup {"digest"}
      /\ syncing' = FALSE
      /\ UNCHANGED <<live, disk, phase, given, fromFile, temporaries, digest,
                     result, inRam, bootable>>
  <2>1. CASE Fail
    BY <2>1 DEF Fail, Inv, TypeOK
  <2>2. CASE SyncParentFails
    BY <2>2 DEF SyncParentFails, Inv, TypeOK
  <2> QED BY <2>1, <2>2
<1>2. \/ pc' = "cleanup"
      \/ pc' = "failed" /\ pc \in {"inspect", "mkWorkspace"}
  BY DEF Fail, SyncParentFails, AfterFailure
<1>3. result # 0
  BY <1>1 DEF Inv, Finished, StagingSteps, PublishSteps, Ended
<1>4. TypeOK'
  BY <1>1, <1>2 DEF Inv, TypeOK, Steps, Ended, StagingSteps, PublishSteps
<1>5. (NothingMade /\ JustCopied /\ Copied /\ Digested /\ Recorded
        /\ ConfigKept)'
  BY <1>1, <1>2
  DEF NothingMade, JustCopied, Copied, Digested, Recorded, ConfigKept
<1>6. (Finished /\ TemporariesAreRemoved)'
  BY <1>1, <1>2, <1>3
  DEF Inv, Finished, NothingMade, TemporariesAreRemoved
<1>7. Promised' /\ NoDamagedRoot'
  BY <1>1, <1>2 DEF Inv, Promised, NoDamagedRoot
<1> QED
  BY <1>4, <1>5, <1>6, <1>7 DEF Inv

\* A rename: each of the three files says what the command was given.
LEMMA InvPublish == Inv /\ Publish => Inv'
<1> SUFFICES ASSUME Inv, Publish PROVE Inv'
  OBVIOUS
<1>1. /\ pc \in PublishSteps /\ ~syncing /\ syncing' = TRUE
      /\ live' = [live EXCEPT ![Target[pc]] = Published(pc)]
      /\ bootable' = IF pc = "copy" THEN "none" ELSE bootable
      /\ UNCHANGED <<disk, phase, pc, given, fromFile, temporaries, digest,
                     result, inRam>>
  BY DEF Publish
<1>2. /\ live \in Files /\ disk \in Files /\ given \in Archives
      /\ result # 0
  BY <1>1 DEF Inv, TypeOK, Finished, PublishSteps, Ended
<1>3. CASE pc = "copy"
  <2>1. live' = [live EXCEPT !["archive"] = given]
    BY <1>1, <1>3, Order DEF Published
  <2>2. "archive" \in Paths /\ given \in PathContents["archive"]
    BY <1>2 DEF Paths, PathContents
  <2>3. /\ [live EXCEPT !["archive"] = given] \in Files
        /\ \A q \in Paths :
             [live EXCEPT !["archive"] = given][q] =
               IF q = "archive" THEN given ELSE live[q]
    BY <2>2, <1>2, Replace
  <2>4. /\ live' \in Files /\ live'["archive"] = given
    BY <2>1, <2>3 DEF Paths
  <2>5. TypeOK'
    BY <1>1, <1>2, <1>3, <2>4 DEF Inv, TypeOK
  <2> QED
    BY <1>1, <1>2, <1>3, <2>4, <2>5
    DEF Inv, NothingMade, JustCopied, Copied, Digested, Recorded, ConfigKept,
        Finished, Promised, NoDamagedRoot, TemporariesAreRemoved
<1>4. CASE pc = "checksum"
  <2>0. digest = given
    BY <1>4 DEF Inv, Digested
  <2>1. live' = [live EXCEPT !["checksum"] = given]
    BY <1>1, <1>4, <2>0, Order DEF Published
  <2>2. "checksum" \in Paths /\ given \in PathContents["checksum"]
    BY <1>2 DEF Paths, PathContents
  <2>3. /\ [live EXCEPT !["checksum"] = given] \in Files
        /\ \A q \in Paths :
             [live EXCEPT !["checksum"] = given][q] =
               IF q = "checksum" THEN given ELSE live[q]
    BY <2>2, <1>2, Replace
  <2>4. /\ live' \in Files /\ live'["checksum"] = given
        /\ live'["archive"] = live["archive"]
        /\ live'["config"] = live["config"]
    BY <2>1, <2>3 DEF Paths
  <2>5. TypeOK'
    BY <1>1, <1>2, <1>4, <2>4 DEF Inv, TypeOK
  <2>6. bootable' = "none"
    BY <1>1, <1>4 DEF Inv, Promised
  <2> QED
    BY <1>1, <1>2, <1>4, <2>4, <2>5, <2>6
    DEF Inv, NothingMade, JustCopied, Copied, Digested, Recorded, ConfigKept,
        Finished, Promised, NoDamagedRoot, TemporariesAreRemoved
<1>5. CASE pc = "config"
  <2>1. live' = [live EXCEPT !["config"] = "config"]
    BY <1>1, <1>5, Order DEF Published
  <2>2. /\ live' \in Files /\ live'["config"] = "config"
        /\ live'["archive"] = live["archive"]
        /\ live'["checksum"] = live["checksum"]
    BY <2>1, <1>2, Replace DEF Paths, PathContents
  <2>3. TypeOK'
    BY <1>1, <1>2, <1>5, <2>2 DEF Inv, TypeOK
  <2> QED
    BY <1>1, <1>2, <1>5, <2>2, <2>3
    DEF Inv, NothingMade, JustCopied, Copied, Digested, Recorded, ConfigKept,
        Finished, Promised, NoDamagedRoot, TemporariesAreRemoved
<1> QED
  BY <1>1, <1>3, <1>4, <1>5 DEF PublishSteps

\* An existing configuration is kept: the command is done.
LEMMA InvKeepConfig == Inv /\ KeepConfig => Inv'
<1> SUFFICES ASSUME Inv, KeepConfig PROVE Inv'
  OBVIOUS
<1>1. /\ pc = "config" /\ ~syncing /\ live["config"] # "none"
      /\ pc' = "cleanup" /\ result' = 0
      /\ UNCHANGED <<live, disk, phase, given, fromFile, temporaries, syncing,
                     digest, inRam, bootable>>
  BY Order DEF KeepConfig, Advance, Needed
<1>2. live \in Files /\ disk \in Files
  BY DEF Inv, TypeOK
<1>3. live["config"] = "config" /\ disk["config"] = "config"
  BY <1>1, <1>2, FilesMeaning DEF Inv, ConfigKept
<1>4. TypeOK'
  BY <1>1 DEF Inv, TypeOK, Steps, Ended
<1>5. Finished'
  BY <1>1, <1>3 DEF Inv, Copied, Recorded, Finished
<1>6. Promised' /\ NoDamagedRoot'
  BY <1>1 DEF Inv, Promised, NoDamagedRoot
<1> QED
  BY <1>1, <1>4, <1>5, <1>6
  DEF Inv, NothingMade, JustCopied, Copied, Digested, Recorded, ConfigKept,
      TemporariesAreRemoved

\* The fsync makes all three files durable.
LEMMA InvSyncParent == Inv /\ SyncParent => Inv'
<1> SUFFICES ASSUME Inv, SyncParent PROVE Inv'
  OBVIOUS
<1>1. /\ syncing /\ pc \in PublishSteps /\ ~syncing' /\ syncing' \in BOOLEAN
      /\ pc' = Successor[pc]
      /\ result' = IF pc = "config" THEN 0 ELSE result
      /\ bootable' = IF pc = "checksum" THEN digest ELSE bootable
      /\ disk' = Persist(live, disk, Paths)
      /\ UNCHANGED <<live, phase, given, fromFile, temporaries, digest, inRam>>
  BY DEF SyncParent, Advance, Inv, TypeOK
<1>2. live \in Files /\ disk \in Files
  BY DEF Inv, TypeOK
<1>3. /\ disk' \in Files
      /\ \A path \in Paths : disk'[path] = live[path]
  BY <1>1, <1>2, PersistFiles
<1>4. /\ disk'["archive"] = live["archive"]
      /\ disk'["checksum"] = live["checksum"]
      /\ disk'["config"] = live["config"]
  BY <1>3 DEF Paths
<1>5. result # 0
  BY <1>1 DEF Inv, Finished, PublishSteps, Ended
<1>6. TypeOK'
  BY <1>1, <1>2, <1>3, Order DEF Inv, TypeOK, PublishSteps, Steps, Ended
<1>7. CASE pc = "copy"
  BY <1>1, <1>4, <1>5, <1>6, <1>7, Order
  DEF Inv, NothingMade, JustCopied, Copied, Digested, Recorded, ConfigKept,
      Finished, Promised, NoDamagedRoot, TemporariesAreRemoved
<1>8. CASE pc = "checksum"
  BY <1>1, <1>4, <1>5, <1>6, <1>8, Order
  DEF Inv, NothingMade, JustCopied, Copied, Digested, Recorded, ConfigKept,
      Finished, Promised, NoDamagedRoot, TemporariesAreRemoved
<1>9. CASE pc = "config"
  BY <1>1, <1>4, <1>5, <1>6, <1>9, Order
  DEF Inv, NothingMade, JustCopied, Copied, Digested, Recorded, ConfigKept,
      Finished, Promised, NoDamagedRoot, TemporariesAreRemoved
<1> QED
  BY <1>1, <1>7, <1>8, <1>9 DEF PublishSteps

\* The digest is taken of the archive that has just been copied.
LEMMA InvDigest == Inv /\ Digest => Inv'
<1> SUFFICES ASSUME Inv, Digest PROVE Inv'
  OBVIOUS
<1>1. /\ pc = "digest" /\ pc' = "checksum" /\ digest' = live["archive"]
      /\ UNCHANGED <<live, disk, phase, given, fromFile, temporaries, syncing,
                     result, inRam, bootable>>
  BY Order DEF Digest
<1>2. digest' = given /\ given \in Archives
  BY <1>1 DEF Inv, TypeOK, JustCopied
<1>3. ~syncing /\ result # 0
  BY <1>1 DEF Inv, TypeOK, Finished, PublishSteps, Ended
<1>4. TypeOK'
  BY <1>1, <1>2, <1>3 DEF Inv, TypeOK, Steps, PublishSteps, Ended
<1> QED
  BY <1>1, <1>2, <1>3, <1>4
  DEF Inv, NothingMade, JustCopied, Copied, Digested, Recorded, ConfigKept,
      Finished, Promised, NoDamagedRoot, TemporariesAreRemoved

LEMMA InvCleanup == Inv /\ Cleanup => Inv'
<1> SUFFICES ASSUME Inv, Cleanup PROVE Inv'
  OBVIOUS
<1>1. /\ pc = "cleanup"
      /\ temporaries' \in IF "cleanup" \in CanFail THEN SUBSET temporaries
                          ELSE {{}}
      /\ pc' = IF result = 0 THEN "installed" ELSE "failed"
      /\ UNCHANGED <<live, disk, phase, given, fromFile, syncing, digest,
                     result, inRam, bootable>>
  BY DEF Cleanup
<1>2. ~syncing
  BY <1>1 DEF Inv, TypeOK, PublishSteps
<1>3. temporaries' \subseteq {"workspace", "archiveDir"}
  BY <1>1 DEF Inv, TypeOK
<1>4. TypeOK'
  BY <1>1, <1>2, <1>3 DEF Inv, TypeOK, Steps, Ended
<1>5. TemporariesAreRemoved'
  BY <1>1 DEF TemporariesAreRemoved
<1> QED
  BY <1>1, <1>2, <1>4, <1>5
  DEF Inv, NothingMade, JustCopied, Copied, Digested, Recorded, ConfigKept,
      Finished, Promised, NoDamagedRoot, Ended

LEMMA InvKilled == Inv /\ Killed => Inv'
<1> SUFFICES ASSUME Inv, Killed PROVE Inv'
  OBVIOUS
<1>1. /\ pc \notin Ended /\ pc' = "idle" /\ syncing' = FALSE
      /\ UNCHANGED <<live, disk, phase, given, fromFile, temporaries, digest,
                     result, inRam, bootable>>
  BY DEF Killed
<1>2. TypeOK'
  BY <1>1 DEF Inv, TypeOK, Steps, Ended
<1> QED
  BY <1>1, <1>2
  DEF Inv, NothingMade, JustCopied, Copied, Digested, Recorded, ConfigKept,
      Finished, Promised, NoDamagedRoot, TemporariesAreRemoved, Ended

\* Damage never touches an archive whose digest is about to be taken.
LEMMA InvDamage == Inv /\ Damage => Inv'
<1> SUFFICES ASSUME Inv, Damage PROVE Inv'
  OBVIOUS
<1>1. /\ ~(pc = "digest" \/ (pc = "copy" /\ syncing))
      /\ live' = [live EXCEPT !["archive"] = "damaged"]
      /\ disk' = [disk EXCEPT !["archive"] = "damaged"] \/ disk' = disk
      /\ UNCHANGED <<phase, command, inRam, bootable>>
  BY DEF Damage
<1>2. live \in Files /\ disk \in Files
  BY DEF Inv, TypeOK
<1>3. "archive" \in Paths /\ "damaged" \in PathContents["archive"]
  BY DEF Paths, PathContents
<1>4. ASSUME NEW f \in Files
      PROVE  /\ [f EXCEPT !["archive"] = "damaged"] \in Files
             /\ \A q \in Paths :
                  [f EXCEPT !["archive"] = "damaged"][q] =
                    IF q = "archive" THEN "damaged" ELSE f[q]
  BY <1>3, Replace
<1>5. /\ live' \in Files /\ live'["archive"] = "damaged"
      /\ live'["checksum"] = live["checksum"]
      /\ live'["config"] = live["config"]
  BY <1>1, <1>2, <1>4 DEF Paths
<1>6. /\ disk' \in Files /\ disk'["archive"] \in {"damaged", disk["archive"]}
      /\ disk'["checksum"] = disk["checksum"]
      /\ disk'["config"] = disk["config"]
  BY <1>1, <1>2, <1>4 DEF Paths
<1>7. TypeOK'
  BY <1>1, <1>5, <1>6 DEF Inv, TypeOK, command
<1>8. (Copied /\ Recorded /\ ConfigKept /\ Finished /\ Promised)'
  BY <1>1, <1>5, <1>6
  DEF Inv, Copied, Recorded, ConfigKept, Finished, Promised, command
<1> QED
  BY <1>1, <1>7, <1>8
  DEF Inv, NothingMade, JustCopied, Digested, NoDamagedRoot,
      TemporariesAreRemoved, command

LEMMA InvWriteback ==
  ASSUME Inv, NEW path \in Paths, Writeback(path)
  PROVE  Inv'
<1>1. /\ disk' = Persist(live, disk, {path})
      /\ UNCHANGED <<live, phase, command, inRam, bootable>>
  BY DEF Writeback
<1>2. live \in Files /\ disk \in Files
  BY DEF Inv, TypeOK
<1>3. /\ disk' \in Files
      /\ \A q \in Paths : disk'[q] \in {live[q], disk[q]}
  BY <1>1, <1>2, PersistFiles
<1>4. /\ disk'["archive"] \in {live["archive"], disk["archive"]}
      /\ disk'["checksum"] \in {live["checksum"], disk["checksum"]}
      /\ disk'["config"] \in {live["config"], disk["config"]}
  BY <1>3 DEF Paths
<1>5. TypeOK'
  BY <1>1, <1>3 DEF Inv, TypeOK, command
<1>6. (Copied /\ Recorded /\ ConfigKept /\ Finished /\ Promised)'
  BY <1>1, <1>4
  DEF Inv, Copied, Recorded, ConfigKept, Finished, Promised, command
<1> QED
  BY <1>1, <1>5, <1>6
  DEF Inv, NothingMade, JustCopied, Digested, NoDamagedRoot,
      TemporariesAreRemoved, command

\* A crash leaves the durable files, of which everything was said.
LEMMA InvCrash == Inv /\ Crash => Inv'
<1> SUFFICES ASSUME Inv, Crash PROVE Inv'
  OBVIOUS
<1>1. /\ live' = disk /\ phase' = "booting" /\ pc' = "idle"
      /\ syncing' = FALSE /\ inRam' = "none"
      /\ UNCHANGED <<disk, given, fromFile, temporaries, digest, result,
                     bootable>>
  BY DEF Crash
<1>2. TypeOK'
  BY <1>1 DEF Inv, TypeOK, Steps, Ended
<1> QED
  BY <1>1, <1>2
  DEF Inv, NothingMade, JustCopied, Copied, Digested, Recorded, ConfigKept,
      Finished, Promised, NoDamagedRoot, TemporariesAreRemoved, Ended

\* What a boot accepts is an archive.
LEMMA InvBoot ==
  ASSUME Inv, NEW recovery \in BOOLEAN, Boot(recovery)
  PROVE  Inv'
<1>1. /\ phase = "booting" /\ phase' \in {"up", "recovery"}
      /\ UNCHANGED <<live, disk, command, bootable>>
  BY DEF Boot
<1>2. \/ inRam' = inRam
      \/ Accepted(live) # "none" /\ inRam' = live["archive"]
  BY DEF Boot
<1>3. inRam' \in Archives \cup {"none"}
  BY <1>2, AcceptedIsArchive DEF Inv, TypeOK, NoDamagedRoot
<1>4. "damaged" \notin Archives
  BY ArchivesAssumption
<1>5. TypeOK'
  BY <1>1, <1>3 DEF Inv, TypeOK, command
<1> QED
  BY <1>1, <1>3, <1>4, <1>5
  DEF Inv, NothingMade, JustCopied, Copied, Digested, Recorded, ConfigKept,
      Finished, Promised, NoDamagedRoot, TemporariesAreRemoved, command

LEMMA InvStep == Inv /\ [Next]_vars => Inv'
<1> SUFFICES ASSUME Inv, [Next]_vars PROVE Inv'
  OBVIOUS
<1>1. CASE \E archive \in Archives, file \in BOOLEAN : Start(archive, file)
  BY <1>1, InvStart
<1>2. CASE Stage
  BY <1>2, InvStage
<1>3. CASE Fail \/ SyncParentFails
  BY <1>3, InvFail
<1>4. CASE Publish
  BY <1>4, InvPublish
<1>5. CASE KeepConfig
  BY <1>5, InvKeepConfig
<1>6. CASE SyncParent
  BY <1>6, InvSyncParent
<1>7. CASE Digest
  BY <1>7, InvDigest
<1>8. CASE Cleanup
  BY <1>8, InvCleanup
<1>9. CASE Killed
  BY <1>9, InvKilled
<1>10. CASE Damage
  BY <1>10, InvDamage
<1>11. CASE \E path \in Paths : Writeback(path)
  BY <1>11, InvWriteback
<1>12. CASE Crash
  BY <1>12, InvCrash
<1>13. CASE \E recovery \in BOOLEAN : Boot(recovery)
  BY <1>13, InvBoot
<1>14. CASE UNCHANGED vars
  BY <1>14, InvUnchanged
<1> QED
  BY <1>1, <1>2, <1>3, <1>4, <1>5, <1>6, <1>7, <1>8, <1>9, <1>10, <1>11,
     <1>12, <1>13, <1>14
  DEF Next, Command

-----------------------------------------------------------------------------
(* The theorems.                                                            *)

THEOREM Invariant == Spec => []Inv
BY InvInit, InvStep, PTL DEF Spec

\* Every variable of rootfs install keeps its type.
THEOREM TypeCorrect == Spec => []TypeOK
<1>1. Inv => TypeOK
  BY DEF Inv
<1> QED BY <1>1, Invariant, PTL

\* bp_rootfs_install and power failures: from the moment the digest of an
\* archive is durable until another archive is renamed over it, a boot
\* accepts that archive, whatever else fails, is killed or crashes.
THEOREM DigestBootable == Spec => []DigestMakesItBootable
<1>1. Inv => DigestMakesItBootable
  BY DEF Inv, Promised, DigestMakesItBootable, Accepted
<1> QED BY <1>1, Invariant, PTL

\* What command_rootfs_install reports as installed is durable.
THEOREM ReportedDurable == Spec => []ReportedIsDurable
<1>1. Inv => ReportedIsDurable
  BY DEF Inv, Finished, ReportedIsDurable, Accepted
<1> QED BY <1>1, Invariant, PTL

\* bp_rootfs_verify_installed keeps a damaged archive out of the RAM root.
THEOREM NoDamage == Spec => []NoDamagedRoot
<1>1. Inv => NoDamagedRoot
  BY DEF Inv
<1> QED BY <1>1, Invariant, PTL

\* Every path out of command_rootfs_install removes what it made in /tmp.
THEOREM Removed == Spec => []TemporariesAreRemoved
<1>1. Inv => TemporariesAreRemoved
  BY DEF Inv
<1> QED BY <1>1, Invariant, PTL
=============================================================================
