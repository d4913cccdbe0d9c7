-------------------------------- MODULE Stage2 --------------------------------
(***************************************************************************)
(* Stage 2 (bp_stage2 in src/src/runtime.c): process 1 on the RAM root     *)
(* lets go of the machine's disk (swap, old mounts, processes that still   *)
(* use them) and then runs the recovery entry, under its supervision or in *)
(* its own place, or a shell for ever.                                     *)
(***************************************************************************)
EXTENDS Naturals, FiniteSets, Sequences

CONSTANTS
  OldMounts,  \* the mount points under /oldroot, each the sequence of its names
  Swaps,      \* the swap areas there may be
  Holders,    \* other processes that may use an old mount
  CanFail     \* the calls that may fail

ASSUME OldMountsAssumption ==
  IsFiniteSet(OldMounts) /\ \A m \in OldMounts : Len(m) \in Nat

VARIABLES
  pc,        \* the step process 1 is at
  swaps,     \* the swap areas in use
  mounts,    \* old mounts the mount table shows
  detached,  \* old mounts taken out of the table while still in use
  todo,      \* the mount table as unmount_old_root read it, less what is done
  refused,   \* the one that umount2 has just found busy, if any
  attempt,   \* 1 or 2: which call of unmount_old_root this is
  stdio,     \* the old mounts standard input and output still are files of
  holds,     \* Holders -> the old mounts it uses
  grip,      \* Holders -> what makes it let go: "term", "kill" or "never"
  kind,      \* the recovery root's configuration, as found
  entry      \* what the configured entry is

vars == <<pc, swaps, mounts, detached, todo, refused, attempt, stdio, holds,
          grip, kind, entry>>
table == <<todo, refused>>
world == <<swaps, mounts, detached, holds, grip>>
found == <<kind, entry>>

-----------------------------------------------------------------------------

Kinds == {"supervised", "handoff", "missing", "invalid", "notAFile"}
Entries == {"missing", "notAFile", "file"}

ShellSteps == {"forkShell", "shell", "shellPause"}
Steps == {"attach", "chdir", "swap", "readTable", "unmount", "detach",
          "terminate", "kill", "loadConfig", "forkEntry", "entry", "handoff",
          "handedOff", "exited"} \cup ShellSteps

Goto(step) == pc' = step

Inside(m, n) == Len(m) > Len(n) /\ SubSeq(m, 1, Len(n)) = n

\* Someone keeps a file of m open, or another mount is inside it.
Held(m) == m \in stdio \/ \E h \in Holders : m \in holds[h]
Busy(m) == Held(m) \/ \E n \in mounts : Inside(n, m)

-----------------------------------------------------------------------------
(* Letting go.                                                              *)

\* The console of the RAM root takes the place of standard input and output.
Attach ==
  /\ pc = "attach"
  /\ Goto("chdir")
  /\ \/ stdio' = {}
     \/ "attach" \in CanFail /\ UNCHANGED stdio
  /\ UNCHANGED <<world, table, attempt, found>>

\* chdir("/"), then every descriptor but the standard ones is closed.
Chdir ==
  /\ pc = "chdir"
  /\ \/ Goto("swap")
     \/ "chdir" \in CanFail /\ Goto("forkShell")
  /\ UNCHANGED <<world, table, attempt, stdio, found>>

SwapOff(area) ==
  /\ pc = "swap"
  /\ area \in swaps
  /\ swaps' = swaps \ {area}
  /\ UNCHANGED <<pc, mounts, detached, holds, grip, table, attempt, stdio,
                 found>>

\* /proc/swaps cannot be opened or a swapoff is refused.
SwapFails ==
  /\ pc = "swap"
  /\ "swap" \in CanFail
  /\ Goto("forkShell")
  /\ UNCHANGED <<world, table, attempt, stdio, found>>

\* A kernel without swap has no /proc/swaps, which counts as success.
SwapsAreOff ==
  /\ pc = "swap"
  /\ swaps = {}
  /\ Goto("readTable")
  /\ UNCHANGED <<world, table, attempt, stdio, found>>

\* Mutant: old mounts that stay do not keep the entry from running.
AfterUnmountGoesOn(ok) ==
  IF attempt = 1 THEN "loadConfig" ELSE IF ok THEN "exited" ELSE "forkShell"

\* What follows a call of unmount_old_root.  The second one comes after the
\* holders were told to end; when it succeeds bp_stage2 returns, and process
\* 1 with it.
AfterUnmount(ok) ==
  IF attempt = 1 THEN IF ok THEN "loadConfig" ELSE "terminate"
  ELSE IF ok THEN "exited" ELSE "forkShell"

\* A read error in the middle of the table, which the code takes for its end,
\* is left out, as it is for /proc/swaps: the table is read whole or not.
ReadTable ==
  /\ pc = "readTable"
  /\ \/ Goto("unmount") /\ todo' = mounts
     \/ "readTable" \in CanFail /\ Goto(AfterUnmount(FALSE)) /\ UNCHANGED todo
  /\ UNCHANGED <<world, refused, attempt, stdio, found>>

\* Mutant: the mounts are taken in the order of the table, outermost first.
NextOutermost(m) == m \in todo /\ \A n \in todo : Len(n) >= Len(m)

\* The table is sorted by the length of the path, the longest first.
NextMount(m) == m \in todo /\ \A n \in todo : Len(n) <= Len(m)

\* umount2(m, 0) with the deepest mount that is left.  A path that is no
\* mount point any more is passed over.
Unmount(m) ==
  /\ pc = "unmount"
  /\ NextMount(m)
  /\ todo' = todo \ {m}
  /\ IF m \in mounts /\ Busy(m)
       THEN Goto("detach") /\ refused' = {m} /\ UNCHANGED mounts
       ELSE mounts' = mounts \ {m} /\ UNCHANGED <<pc, refused>>
  /\ UNCHANGED <<swaps, detached, holds, grip, attempt, stdio, found>>

\* Mutant: a detached mount is left in the table.
DetachKeepsRow ==
  /\ pc = "detach"
  /\ detached' = detached \cup refused
  /\ refused' = {}
  /\ Goto("unmount")
  /\ UNCHANGED <<swaps, mounts, holds, grip, todo, attempt, stdio, found>>

\* umount2(m, MNT_DETACH) of what was busy a moment ago, with all that is
\* mounted inside.
Detach ==
  /\ pc = "detach"
  /\ LET lazily == refused \cup {n \in mounts : \E m \in refused : Inside(n, m)}
     IN mounts' = mounts \ lazily /\ detached' = detached \cup lazily
  /\ refused' = {}
  /\ Goto("unmount")
  /\ UNCHANGED <<swaps, holds, grip, todo, attempt, stdio, found>>

\* An error that is neither "busy" nor "not mounted", or a detach refused.
UnmountFails ==
  /\ pc = "detach" \/ (pc = "unmount" /\ todo # {})
  /\ "unmount" \in CanFail
  /\ Goto(AfterUnmount(FALSE))
  /\ refused' = {}
  /\ UNCHANGED <<world, todo, attempt, stdio, found>>

Unmounted ==
  /\ pc = "unmount"
  /\ todo = {}
  /\ Goto(AfterUnmount(TRUE))
  /\ UNCHANGED <<world, table, attempt, stdio, found>>

\* SIGTERM to every process that uses an old mount, one second, SIGKILL to
\* those that still do, then the second attempt.
LetGo(grips) ==
  holds' = [h \in Holders |-> IF grip[h] \in grips THEN {} ELSE holds[h]]

Terminate ==
  /\ pc = "terminate"
  /\ \/ Goto("kill") /\ LetGo({"term"})
     \/ "terminate" \in CanFail /\ Goto("forkShell") /\ UNCHANGED holds
  /\ UNCHANGED <<swaps, mounts, detached, grip, table, attempt, stdio, found>>

\* Mutant: the holders are told to end again and again.
KillStartsOver ==
  /\ pc = "kill"
  /\ Goto("readTable")
  /\ LetGo({"term", "kill"})
  /\ UNCHANGED <<swaps, mounts, detached, grip, table, attempt, stdio, found>>

Kill ==
  /\ pc = "kill"
  /\ \/ /\ Goto("readTable") /\ attempt' = 2
        /\ LetGo({"term", "kill"})
     \/ /\ "kill" \in CanFail /\ Goto("forkShell")
        /\ UNCHANGED <<holds, attempt>>
  /\ UNCHANGED <<swaps, mounts, detached, grip, table, stdio, found>>

-----------------------------------------------------------------------------
(* The entry.                                                               *)

\* A missing configuration is the default one, supervised.  For one that is
\* no regular file the code looks at an errno nobody set.
Modes(k) ==
  [supervised |-> {"supervised"}, handoff |-> {"handoff"},
   missing |-> {"supervised"}, invalid |-> {"shell"},
   notAFile |-> {"shell", "supervised"}][k]

\* The configuration, then lstat of the entry it names.
LoadConfig ==
  /\ pc = "loadConfig"
  /\ \E mode \in Modes(kind) :
       /\ kind' = mode
       /\ Goto(IF mode = "shell" \/ entry # "file" THEN "forkShell"
               ELSE IF mode = "supervised" THEN "forkEntry" ELSE "handoff")
  /\ UNCHANGED <<world, table, attempt, stdio, entry>>

Handoff ==
  /\ pc = "handoff"
  /\ \/ Goto("handedOff")
     \/ "handoff" \in CanFail /\ Goto("exited")
  /\ UNCHANGED <<world, table, attempt, stdio, found>>

ForkEntry ==
  /\ pc = "forkEntry"
  /\ \/ Goto("entry")
     \/ "forkEntry" \in CanFail /\ Goto("forkShell")
  /\ UNCHANGED <<world, table, attempt, stdio, found>>

\* The entry ends and is waited for.
EntryEnds ==
  /\ pc = "entry"
  /\ Goto("forkShell")
  /\ UNCHANGED <<world, table, attempt, stdio, found>>

-----------------------------------------------------------------------------
(* The shell, for ever.                                                     *)

ForkShell ==
  /\ pc = "forkShell"
  /\ Goto("shell")
  /\ UNCHANGED <<world, table, attempt, stdio, found>>

ForkShellFails ==
  /\ pc = "forkShell"
  /\ "forkShell" \in CanFail
  /\ Goto("shellPause")
  /\ UNCHANGED <<world, table, attempt, stdio, found>>

\* Mutant: process 1 ends with the shell.
ShellEndsForGood ==
  /\ pc = "shell"
  /\ Goto("exited")
  /\ UNCHANGED <<world, table, attempt, stdio, found>>

ShellEnds ==
  /\ pc = "shell"
  /\ Goto("shellPause")
  /\ UNCHANGED <<world, table, attempt, stdio, found>>

ShellAgain ==
  /\ pc = "shellPause"
  /\ Goto("forkShell")
  /\ UNCHANGED <<world, table, attempt, stdio, found>>

-----------------------------------------------------------------------------

\* A process ends on its own, or stops using the old mounts.
HolderLeaves(h) ==
  /\ holds[h] # {}
  /\ holds' = [holds EXCEPT ![h] = {}]
  /\ UNCHANGED <<pc, swaps, mounts, detached, table, attempt, stdio, grip,
                 found>>

Init ==
  /\ pc = "attach"
  /\ swaps \in SUBSET Swaps
  /\ mounts = OldMounts /\ detached = {}
  /\ todo = {} /\ refused = {}
  /\ attempt = 1
  /\ stdio \in {{m} : m \in OldMounts} \cup {{}}
  /\ holds \in [Holders -> SUBSET OldMounts]
  /\ grip \in [Holders -> {"term", "kill", "never"}]
  /\ kind \in Kinds /\ entry \in Entries

Pid1 ==
  \/ Attach \/ Chdir
  \/ (\E area \in Swaps : SwapOff(area)) \/ SwapFails
  \/ SwapsAreOff
  \/ ReadTable \/ (\E m \in OldMounts : Unmount(m)) \/ Detach
  \/ UnmountFails \/ Unmounted \/ Terminate \/ Kill
  \/ LoadConfig \/ Handoff \/ ForkEntry
  \/ ForkShell \/ ForkShellFails \/ ShellAgain

Children == EntryEnds \/ ShellEnds

Ended == pc \in {"handedOff", "exited"} /\ UNCHANGED vars

Next ==
  \/ Pid1 \/ Children
  \/ (\E h \in Holders : HolderLeaves(h))
  \/ Ended

\* The kernel runs process 1; fork does not fail for ever.
Spec == Init /\ [][Next]_vars /\ WF_vars(Pid1) /\ SF_vars(ForkShell)

-----------------------------------------------------------------------------
(* Properties.                                                              *)

\* The shapes of the variables; a mount is shown or detached, not both, and
\* only what the table had is left to do.
TypeOK ==
  /\ pc \in Steps
  /\ swaps \subseteq Swaps
  /\ mounts \subseteq OldMounts /\ detached \subseteq OldMounts
  /\ mounts \cap detached = {}
  /\ todo \subseteq OldMounts
  /\ refused \subseteq mounts /\ (refused # {} => pc = "detach")
  /\ attempt \in 1..2
  /\ stdio \subseteq OldMounts
  /\ holds \in [Holders -> SUBSET OldMounts]
  /\ grip \in [Holders -> {"term", "kill", "never"}]
  /\ kind \in Kinds \cup {"shell"} /\ entry \in Entries

\* The entry, supervised or handed over to, is run only when no swap area is
\* in use and the mount table shows nothing of the old root: "failure to
\* unmount /oldroot disables system-disk flashing".
EntryAfterUnmount ==
  pc \in {"entry", "handoff", "handedOff"} => swaps = {} /\ mounts = {}

\* Only what umount2 refuses is detached, and it refuses a mount because
\* somebody uses it, never because a mount inside it is still there: the
\* deepest go first.  Whoever used it may have left before the detach.
DetachedOnlyWhenHeld ==
  [][/\ \A m \in refused' \ refused : Held(m)
     /\ detached' \ detached \subseteq refused]_vars

\* Stage 2 always comes to the entry, the handoff or a shell, and from the
\* first shell on there is a shell again and again: process 1 outlives it.
ComesToSomething == <>(pc \in {"entry", "handedOff", "shell", "exited"})
ShellForEver == [](pc \in ShellSteps => []<>(pc = "shell"))

\* What the plan says of the supervised mode: "burning-progress remains
\* PID 1".  Only a handoff may end it, and only the supervised mode is kept.
StaysProcessOne == pc = "exited" => kind = "handoff"

\* What the plan says of the disk: "umount -l is never accepted as proof
\* that the target disk is safe to flash".  When the entry runs, nothing
\* of the old root is in use any more.
OldRootIsReleased ==
  pc \in {"entry", "handedOff"} => \A m \in detached : ~Held(m)
=============================================================================
