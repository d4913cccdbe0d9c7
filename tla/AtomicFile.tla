----------------------------- MODULE AtomicFile -----------------------------
(***************************************************************************)
(* One file that processes replace with bp_atomic_write                    *)
(* (src/src/common.c): a temporary file beside it is created, written,     *)
(* fsynced and renamed over it, and the directory is fsynced.              *)
(*                                                                         *)
(* A content is a value and whether the data of that file are on the disk; *)
(* the directory has a live and a durable view, as in Disk, whose entries  *)
(* the kernel writes back one by one.  A step may fail, a process may be   *)
(* killed and power may fail anywhere.  The name of a temporary file is    *)
(* made of the process id, so that one left by a killed process is in the  *)
(* way of the next process with its id.                                    *)
(***************************************************************************)
EXTENDS Disk

CONSTANTS
  Procs,     \* process ids
  Values,    \* what may be written
  Missing,   \* the value of a file that is not there
  Torn,      \* the value of a file with less than was to be written
  CanFail    \* the steps that may fail

VARIABLES
  live,    \* name -> content, as running programs see it
  disk,    \* name -> content, as the directory on disk has it
  pc,      \* process -> step of bp_atomic_write, or how it ended
  given    \* process -> what it writes, Missing when the call is over

vars == <<live, disk, pc, given>>

File == "file"

\* The names in the directory: the file and the temporary ones.
Names == {File} \cup Procs

ASSUME NamesAssumption ==
  /\ File \notin Procs
  /\ Missing \notin Values /\ Torn \notin Values /\ Missing # Torn

Contents == [value : Values \cup {Missing, Torn}, synced : BOOLEAN]

Content(v, synced) == [value |-> v, synced |-> synced]

NoFile == Content(Missing, TRUE)

Ended == {"idle", "done", "failed"}
Steps == {"open", "write", "sync", "rename", "syncParent"}

\* Process p goes to a step in which its argument is no longer needed.
Leave(p, step) ==
  /\ pc' = [pc EXCEPT ![p] = step]
  /\ given' = [given EXCEPT ![p] = Missing]

\* Nobody reads what is in a temporary file that was left behind: that it is
\* there is all that is kept of it.
Left(name, content) ==
  IF name = File \/ content.value = Missing THEN content
  ELSE Content(Torn, FALSE)

Entries == [name \in Names |-> Left(name, live[name])]

-----------------------------------------------------------------------------
(* bp_atomic_write, as process p runs it.                                   *)

\* The call: its arguments are there, the names are computed.  Its parent
\* directory may be made; that nobody fsyncs the entry of that directory in
\* the one above is left out.
Begin(p, v) ==
  /\ pc[p] \in Ended
  /\ pc' = [pc EXCEPT ![p] = "open"]
  /\ given' = [given EXCEPT ![p] = v]
  /\ UNCHANGED <<live, disk>>

\* O_CREAT | O_EXCL: with a file of that name in the way the call fails.
Open(p) ==
  /\ pc[p] = "open"
  /\ IF live[p].value = Missing
       THEN /\ live' = [live EXCEPT ![p] = Content(Torn, FALSE)]
            /\ pc' = [pc EXCEPT ![p] = "write"]
            /\ UNCHANGED given
       ELSE Leave(p, "cleanup") /\ UNCHANGED live
  /\ UNCHANGED disk

Write(p) ==
  /\ pc[p] = "write"
  /\ live' = [live EXCEPT ![p].value = given[p]]
  /\ pc' = [pc EXCEPT ![p] = "sync"]
  /\ UNCHANGED <<disk, given>>

\* Mutant: the file is not fsynced before it is renamed.
SyncFileSkipped(p) ==
  /\ pc[p] = "sync"
  /\ pc' = [pc EXCEPT ![p] = "rename"]
  /\ UNCHANGED <<live, disk, given>>

\* fchmod, fsync and close.
SyncFile(p) ==
  /\ pc[p] = "sync"
  /\ live' = [live EXCEPT ![p].synced = TRUE]
  /\ pc' = [pc EXCEPT ![p] = "rename"]
  /\ UNCHANGED <<disk, given>>

Rename(p) ==
  /\ pc[p] = "rename"
  /\ live' = [live EXCEPT ![File] = live[p], ![p] = NoFile]
  /\ pc' = [pc EXCEPT ![p] = "syncParent"]
  /\ UNCHANGED <<disk, given>>

\* Mutant: the directory is not fsynced after the rename.
SyncParentSkipped(p) ==
  /\ pc[p] = "syncParent"
  /\ Leave(p, "done")
  /\ UNCHANGED <<live, disk>>

SyncParent(p) ==
  /\ pc[p] = "syncParent"
  /\ disk' = Persist(Entries, disk, Names)
  /\ Leave(p, "done")
  /\ UNCHANGED live

Fail(p) ==
  /\ pc[p] \in Steps \cap CanFail
  /\ Leave(p, "cleanup")
  /\ UNCHANGED <<live, disk>>

\* Mutant: the temporary file of a failed call stays.
CleanupForgets(p) ==
  /\ pc[p] = "cleanup"
  /\ pc' = [pc EXCEPT ![p] = "failed"]
  /\ UNCHANGED <<live, disk, given>>

\* Mutant: the cleanup unlinks the file itself.
CleanupOfFile(p) ==
  /\ pc[p] = "cleanup"
  /\ live' = [live EXCEPT ![File] = NoFile]
  /\ pc' = [pc EXCEPT ![p] = "failed"]
  /\ UNCHANGED <<disk, given>>

\* The temporary file is unlinked, whoever left it; that this may fail too is
\* left out.
Cleanup(p) ==
  /\ pc[p] = "cleanup"
  /\ live' = [live EXCEPT ![p] = NoFile]
  /\ pc' = [pc EXCEPT ![p] = "failed"]
  /\ UNCHANGED <<disk, given>>

WriteStep(p) ==
  \/ Open(p) \/ Write(p) \/ SyncFile(p) \/ Rename(p) \/ SyncParent(p)
  \/ Fail(p) \/ Cleanup(p)

Killed(p) ==
  /\ pc[p] \notin Ended
  /\ live' = [live EXCEPT ![p] = Left(p, @)]
  /\ Leave(p, "idle")
  /\ UNCHANGED disk

-----------------------------------------------------------------------------
(* The machine.                                                             *)

Writeback(name) ==
  /\ disk' = Persist(Entries, disk, {name})
  /\ UNCHANGED <<live, pc, given>>

\* Data that were not on the disk are gone.
AfterCrash(content) ==
  IF content.synced THEN content ELSE Content(Torn, FALSE)

Crash ==
  /\ disk' = [name \in Names |-> AfterCrash(disk[name])]
  /\ live' = disk'
  /\ pc' = [p \in Procs |-> "idle"]
  /\ given' = [p \in Procs |-> Missing]

-----------------------------------------------------------------------------

Init ==
  /\ \E v \in Values \cup {Missing} :
       live = [name \in Names |->
                 IF name = File THEN Content(v, TRUE) ELSE NoFile]
  /\ disk = live
  /\ pc = [p \in Procs |-> "idle"]
  /\ given = [p \in Procs |-> Missing]

Next ==
  \/ \E p \in Procs :
       (\E v \in Values : Begin(p, v)) \/ WriteStep(p) \/ Killed(p)
  \/ \E name \in Names : Writeback(name)
  \/ Crash

Spec == Init /\ [][Next]_vars

-----------------------------------------------------------------------------
(* Properties.                                                              *)

\* The shapes of the variables: every name has a content, every process a step.
FileTypeOK ==
  /\ live \in [Names -> Contents] /\ disk \in [Names -> Contents]
  /\ pc \in [Procs -> Steps \cup Ended \cup {"cleanup"}]
  /\ given \in [Procs -> Values \cup {Missing}]

\* bp_atomic_write is atomic: the file is never seen with a part of what was
\* to be written, by a reader or after a power failure at any moment.
NeverTorn ==
  /\ live[File].value # Torn
  /\ AfterCrash(disk[File]).value # Torn

\* A call that ends by itself leaves no temporary file, neither its own nor
\* the one that a killed process with its id had left: what is in the way
\* costs one failed call, not all of them.
TemporaryIsGone ==
  \A p \in Procs : pc[p] \in {"done", "failed"} => live[p].value = Missing

\* The file as the atomic cell of AtomicCell.
StateOf(step) ==
  CASE step \in Ended -> step
    [] step = "syncParent" -> "put"
    [] step = "cleanup" -> "failed"
    [] OTHER -> "asked"

Cell == INSTANCE AtomicCell WITH
  Writers <- Procs,
  Values <- Values \cup {Missing},
  Nothing <- Missing,
  value <- live[File].value,
  kept <- disk[File].value,
  asked <- given,
  state <- [p \in Procs |-> StateOf(pc[p])]

\* The renames, fsyncs and temporary files of concurrent calls, their
\* failures and power failures implement the cell that changes in one step
\* and keeps what it reports.
ImplementsCell == Cell!Spec
=============================================================================
