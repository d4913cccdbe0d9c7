----------------------------- MODULE Stage2Proofs -----------------------------
(***************************************************************************)
(* Proofs about Stage2, for any tree of old mounts, any swap areas, any    *)
(* processes that use the mounts and any calls that may fail: its type     *)
(* invariant, the release of the disk before the entry, and that only what *)
(* is in use is detached.                                                  *)
(***************************************************************************)
EXTENDS Stage2, TLAPS

-----------------------------------------------------------------------------
(* The inductive invariant, in named parts.                                 *)

\* From the mount table on every swap area is off, but in a shell, which may
\* come of a swapoff that failed.
SwapsOff ==
  pc \in {"readTable", "unmount", "detach", "terminate", "kill", "loadConfig",
          "forkEntry", "entry", "handoff", "handedOff"} => swaps = {}

\* unmount_old_root still has to do every mount there is, and has nothing
\* inside the one that was refused.
AllListed ==
  pc \in {"unmount", "detach"} =>
    /\ mounts \subseteq todo \cup refused
    /\ \A n \in mounts : \A m \in refused : ~Inside(n, m)

\* The configuration is only read when no old mount is left.
AllUnmounted ==
  pc \in {"loadConfig", "forkEntry", "entry", "handoff", "handedOff"}
    => mounts = {}

\* It is read once.
BeforeEntry == {"attach", "chdir", "swap", "readTable", "unmount", "detach",
                "terminate", "kill", "loadConfig"}
ReadOnce == pc \in BeforeEntry => kind \in Kinds

Inv == TypeOK /\ SwapsOff /\ AllListed /\ AllUnmounted /\ ReadOnce

-----------------------------------------------------------------------------
(* Lemmas.                                                                  *)

\* Where unmount_old_root may return to.
LEMMA AfterUnmountGoes ==
  /\ AfterUnmount(TRUE) \in {"loadConfig", "exited", "forkShell"}
  /\ AfterUnmount(FALSE) \in {"terminate", "exited", "forkShell"}
BY DEF AfterUnmount

\* The longest path first: nothing that is still mounted is inside it.
LEMMA NothingInside ==
  ASSUME Inv, pc = "unmount", NEW m \in OldMounts, NextMount(m)
  PROVE  {n \in mounts : Inside(n, m)} = {}
<1> SUFFICES ASSUME NEW n \in mounts, Inside(n, m) PROVE FALSE
  OBVIOUS
<1>1. n \in todo /\ n \in OldMounts
  BY DEF Inv, TypeOK, AllListed
<1>2. Len(n) <= Len(m)
  BY <1>1 DEF NextMount
<1>3. Len(n) \in Nat /\ Len(m) \in Nat
  BY <1>1, OldMountsAssumption
<1> QED
  BY <1>2, <1>3 DEF Inside

\* So umount2 refuses a mount only if somebody has a file of it open.
LEMMA RefusedIsHeld ==
  ASSUME Inv, NEW m \in OldMounts, Unmount(m), Busy(m)
  PROVE  Held(m)
<1>1. {n \in mounts : Inside(n, m)} = {}
  BY NothingInside DEF Unmount
<1> QED
  BY <1>1 DEF Busy

\* And the detach that follows takes that one mount out of the table.
LEMMA OneMount ==
  ASSUME Inv, Detach
  PROVE  mounts' = mounts \ refused /\ detached' = detached \cup refused
<1>1. {n \in mounts : \E m \in refused : Inside(n, m)} = {}
  BY DEF Detach, Inv, AllListed
<1> DEFINE inside == {n \in mounts : \E m \in refused : Inside(n, m)}
<1>2. /\ mounts' = mounts \ (refused \cup inside)
      /\ detached' = detached \cup (refused \cup inside)
  BY DEF Detach
<1>3. inside = {}
  BY <1>1
<1> HIDE DEF inside
<1> QED
  BY <1>2, <1>3

-----------------------------------------------------------------------------

LEMMA InvInit == Init => Inv
BY DEF Init, Inv, TypeOK, SwapsOff, AllListed, AllUnmounted, ReadOnce,
      BeforeEntry, Steps, Kinds,
       Entries

\* Steps of process 1 that touch neither the swaps nor the old mounts.
LEMMA InvPassing ==
  ASSUME Inv,
         Attach \/ Chdir \/ SwapFails \/ SwapsAreOff \/ Handoff \/ ForkEntry
           \/ EntryEnds \/ ForkShell \/ ForkShellFails \/ ShellEnds
           \/ ShellAgain \/ Ended
  PROVE  Inv'
<1>1. UNCHANGED <<world, table, attempt, kind, entry>> /\ stdio' \in {stdio, {}}
  BY DEF Attach, Chdir, SwapFails, SwapsAreOff, Handoff, ForkEntry, EntryEnds,
         ForkShell, ForkShellFails, ShellEnds, ShellAgain, Ended, vars, found,
         world, table
<1>2. /\ pc' \in Steps /\ pc' \notin {"unmount", "detach", "loadConfig"}
      /\ pc # "detach"
      /\ pc' \in {"readTable", "terminate", "kill"} => swaps = {}
      /\ pc' \in {"forkEntry", "entry", "handoff", "handedOff"} =>
           pc \in {"forkEntry", "entry", "handoff", "handedOff"}
      /\ pc' \in BeforeEntry => pc \in BeforeEntry
  BY DEF Attach, Chdir, SwapFails, SwapsAreOff, Handoff, ForkEntry, EntryEnds,
         ForkShell, ForkShellFails, ShellEnds, ShellAgain, Ended, vars, Goto,
         Steps, ShellSteps, BeforeEntry
<1> QED
  BY <1>1, <1>2
  DEF Inv, TypeOK, SwapsOff, AllListed, AllUnmounted, ReadOnce,
      BeforeEntry, world, table

LEMMA InvSwapOff ==
  ASSUME Inv, NEW area \in Swaps, SwapOff(area)
  PROVE  Inv'
<1>1. /\ pc = "swap" /\ swaps' = swaps \ {area}
      /\ UNCHANGED <<pc, mounts, detached, holds, grip, table, attempt, stdio,
                     found>>
  BY DEF SwapOff
<1> QED
  BY <1>1 DEF Inv, TypeOK, SwapsOff, AllListed, AllUnmounted, ReadOnce,
      BeforeEntry, found, table

LEMMA InvReadTable == Inv /\ ReadTable => Inv'
<1> SUFFICES ASSUME Inv, ReadTable PROVE Inv'
  OBVIOUS
<1>1. /\ pc = "readTable" /\ UNCHANGED <<world, refused, attempt, stdio, found>>
      /\ \/ pc' = "unmount" /\ todo' = mounts
         \/ pc' \in {"terminate", "exited", "forkShell"} /\ todo' = todo
  BY AfterUnmountGoes DEF ReadTable, Goto
<1> QED
  BY <1>1
  DEF Inv, TypeOK, SwapsOff, AllListed, AllUnmounted, ReadOnce,
      BeforeEntry, found, world, Steps,
      ShellSteps

LEMMA InvUnmount ==
  ASSUME Inv, NEW m \in OldMounts, Unmount(m)
  PROVE  Inv'
<1>1. /\ pc = "unmount" /\ todo' = todo \ {m} /\ refused = {}
      /\ UNCHANGED <<swaps, detached, holds, grip, attempt, stdio, found>>
  BY DEF Unmount, Inv, TypeOK
<1>2. CASE m \in mounts /\ Busy(m)
  <2>1. pc' = "detach" /\ refused' = {m} /\ mounts' = mounts
    BY <1>2 DEF Unmount, Goto
  <2>2. \A n \in mounts : ~Inside(n, m)
    BY NothingInside DEF Unmount
  <2> QED
    BY <1>1, <1>2, <2>1, <2>2
    DEF Inv, TypeOK, SwapsOff, AllListed, AllUnmounted, ReadOnce, BeforeEntry,
        found, Steps
<1>3. CASE ~(m \in mounts /\ Busy(m))
  <2>1. pc' = "unmount" /\ refused' = {} /\ mounts' = mounts \ {m}
    BY <1>1, <1>3 DEF Unmount
  <2> QED
    BY <1>1, <2>1
    DEF Inv, TypeOK, SwapsOff, AllListed, AllUnmounted, ReadOnce, BeforeEntry,
        found, Steps
<1> QED
  BY <1>2, <1>3

LEMMA InvDetach == Inv /\ Detach => Inv'
<1> SUFFICES ASSUME Inv, Detach PROVE Inv'
  OBVIOUS
<1>1. /\ pc = "detach" /\ pc' = "unmount" /\ refused' = {}
      /\ UNCHANGED <<swaps, holds, grip, todo, attempt, stdio, found>>
  BY DEF Detach, Goto
<1>2. mounts' = mounts \ refused /\ detached' = detached \cup refused
  BY OneMount
<1> QED
  BY <1>1, <1>2
  DEF Inv, TypeOK, SwapsOff, AllListed, AllUnmounted, ReadOnce, BeforeEntry,
      found, Steps

\* The call is over, with every mount done or with an error.
LEMMA InvUnmounted == Inv /\ (Unmounted \/ UnmountFails) => Inv'
<1> SUFFICES ASSUME Inv, Unmounted \/ UnmountFails PROVE Inv'
  OBVIOUS
<1>1. /\ pc \in {"unmount", "detach"}
      /\ UNCHANGED <<world, todo, attempt, stdio, found>>
      /\ refused' \in {refused, {}} /\ (pc = "detach" => refused' = {})
      /\ \/ /\ pc = "unmount" /\ todo = {}
            /\ pc' \in {"loadConfig", "exited", "forkShell"}
         \/ pc' \in {"terminate", "exited", "forkShell"}
  BY AfterUnmountGoes DEF Unmounted, UnmountFails, Goto, table
<1> QED
  BY <1>1
  DEF Inv, TypeOK, SwapsOff, AllListed, AllUnmounted, ReadOnce,
      BeforeEntry, found, world, Steps,
      ShellSteps

\* The holders that are told to end let go of some mounts.
LEMMA InvTerminateKill == Inv /\ (Terminate \/ Kill) => Inv'
<1> SUFFICES ASSUME Inv, Terminate \/ Kill PROVE Inv'
  OBVIOUS
<1>1. /\ pc \in {"terminate", "kill"}
      /\ pc' \in {"kill", "forkShell", "readTable"}
      /\ attempt' \in {attempt, 2}
      /\ UNCHANGED <<swaps, mounts, detached, grip, table, stdio, found>>
  BY DEF Terminate, Kill, Goto
<1>2. \/ holds' = holds
      \/ \E grips : holds' =
           [h \in Holders |-> IF grip[h] \in grips THEN {} ELSE holds[h]]
  BY DEF Terminate, Kill, LetGo
<1>3. holds' \in [Holders -> SUBSET OldMounts]
  BY <1>2 DEF Inv, TypeOK
<1> QED
  BY <1>1, <1>3
  DEF Inv, TypeOK, SwapsOff, AllListed, AllUnmounted, ReadOnce,
      BeforeEntry, found, table, Steps, ShellSteps

LEMMA InvLoadConfig == Inv /\ LoadConfig => Inv'
<1> SUFFICES ASSUME Inv, LoadConfig PROVE Inv'
  OBVIOUS
<1>1. /\ pc = "loadConfig" /\ UNCHANGED <<world, table, attempt, stdio, entry>>
      /\ pc' \in {"forkShell", "forkEntry", "handoff"}
  BY DEF LoadConfig, Goto
<1>2. PICK mode \in Modes(kind) : kind' = mode
  BY DEF LoadConfig
<1>3. kind' \in Kinds \cup {"shell"}
  BY <1>1, <1>2 DEF Modes, Inv, ReadOnce, BeforeEntry, Kinds
<1> QED
  BY <1>1, <1>3
  DEF Inv, TypeOK, SwapsOff, AllListed, AllUnmounted, ReadOnce,
      BeforeEntry, world, table, Steps, ShellSteps

LEMMA InvHolderLeaves ==
  ASSUME Inv, NEW h \in Holders, HolderLeaves(h)
  PROVE  Inv'
<1>1. /\ holds' = [holds EXCEPT ![h] = {}]
      /\ UNCHANGED <<pc, swaps, mounts, detached, table, attempt, stdio, grip,
                     found>>
  BY DEF HolderLeaves
<1> QED
  BY <1>1
  DEF Inv, TypeOK, SwapsOff, AllListed, AllUnmounted, ReadOnce, found, table

LEMMA InvStep == Inv /\ [Next]_vars => Inv'
<1> SUFFICES ASSUME Inv, [Next]_vars PROVE Inv'
  OBVIOUS
<1>1. CASE Attach \/ Chdir \/ SwapFails \/ SwapsAreOff \/ Handoff
             \/ ForkEntry \/ EntryEnds \/ ForkShell \/ ForkShellFails
             \/ ShellEnds \/ ShellAgain \/ Ended
  BY <1>1, InvPassing
<1>2. CASE \E area \in Swaps : SwapOff(area)
  BY <1>2, InvSwapOff
<1>3. CASE ReadTable
  BY <1>3, InvReadTable
<1>4. CASE \E m \in OldMounts : Unmount(m)
  BY <1>4, InvUnmount
<1>10. CASE Detach
  BY <1>10, InvDetach
<1>5. CASE Unmounted \/ UnmountFails
  BY <1>5, InvUnmounted
<1>6. CASE Terminate \/ Kill
  BY <1>6, InvTerminateKill
<1>7. CASE LoadConfig
  BY <1>7, InvLoadConfig
<1>8. CASE \E h \in Holders : HolderLeaves(h)
  BY <1>8, InvHolderLeaves
<1>9. CASE UNCHANGED vars
  BY <1>9
  DEF Inv, TypeOK, SwapsOff, AllListed, AllUnmounted, ReadOnce, vars
<1> QED
  BY <1>1, <1>2, <1>3, <1>4, <1>5, <1>6, <1>7, <1>8, <1>9, <1>10
  DEF Next, Pid1, Children

-----------------------------------------------------------------------------
(* The theorems.                                                            *)

THEOREM Invariant == Spec => []Inv
BY InvInit, InvStep, PTL DEF Spec

\* Every variable of stage 2 keeps its type; a mount is never at once shown
\* in the mount table and detached.
THEOREM TypeCorrect == Spec => []TypeOK
<1>1. Inv => TypeOK
  BY DEF Inv
<1> QED BY <1>1, Invariant, PTL

\* bp_stage2 runs the entry, or hands over to it, only with all swap off and
\* nothing of the old root in the mount table.
THEOREM DiskReleased == Spec => []EntryAfterUnmount
<1>1. Inv => EntryAfterUnmount
  BY DEF Inv, SwapsOff, AllUnmounted, EntryAfterUnmount
<1> QED BY <1>1, Invariant, PTL

\* unmount_old_root's sort by length is what makes MNT_DETACH the exception:
\* umount2 refuses a mount only because somebody uses it, and nothing else
\* is ever detached.
THEOREM DetachesHeld == Spec => DetachedOnlyWhenHeld
<1> DEFINE Step == /\ \A m \in refused' \ refused : Held(m)
                   /\ detached' \ detached \subseteq refused
<1>1. ASSUME Inv, [Next]_vars
      PROVE  [Step]_vars
  <2>1. CASE \E m \in OldMounts : Unmount(m)
    <3>1. PICK m \in OldMounts : Unmount(m)
      BY <2>1
    <3>2. /\ detached' = detached
          /\ \/ refused' = refused
             \/ refused' = {m} /\ Busy(m)
      BY <3>1 DEF Unmount
    <3> QED
      BY <1>1, <3>1, <3>2, RefusedIsHeld
  <2>2. CASE Detach
    <3>1. refused' = {}
      BY <2>2 DEF Detach
    <3> QED
      BY <1>1, <2>2, <3>1, OneMount
  <2>3. CASE UNCHANGED detached /\ refused' \subseteq refused
    BY <2>3
  <2> QED
    BY <1>1, <2>1, <2>2, <2>3
    DEF Next, Pid1, Children, Attach, Chdir, SwapOff, SwapFails, SwapsAreOff,
        ReadTable, UnmountFails, Unmounted, Terminate, Kill, LoadConfig,
        Handoff, ForkEntry, EntryEnds, ForkShell, ForkShellFails, ShellEnds,
        ShellAgain, HolderLeaves, Ended, vars, world, table
<1> QED
  BY <1>1, Invariant, PTL DEF Spec, DetachedOnlyWhenHeld
=============================================================================
