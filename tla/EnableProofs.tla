----------------------------- MODULE EnableProofs -----------------------------
(***************************************************************************)
(* Proofs about Enable: its type invariant, the durability of `enable`,    *)
(* the one menu of a one-shot mark, and that the marks implement the       *)
(* abstract boot mode of EnableMode.                                       *)
(***************************************************************************)
EXTENDS Enable, TLAPS

-----------------------------------------------------------------------------
(* The inductive invariant, in named parts.                                 *)

\* A command is at one of its own steps.
AtOwnStep ==
  /\ command = "once" => step \in {"writeOnce", "writeEnable"}
  /\ command = "persistent" => step \in {"removeOnce", "writeEnable"}
  /\ command = "disable" => step = "removeEnable"

\* The one-shot mark is right before enable is written.
OneShotFirst ==
  step = "writeEnable" =>
    /\ command = "once" => live["onlyOnce"]
    /\ command = "persistent" => ~live["onlyOnce"]

\* What a step has changed and not yet synced.
Changed == syncing => live[MarkOf(step)] = Writes(step)

\* A mark is used up before its last menu, not after.
Consumed ==
  phase = "consuming" => ~live["enable"] /\ shown \in {"none", "warned"}

\* Only the one mark that is being changed is not durable.
Agree ==
  settled =>
    \A mark \in Marks :
      \/ live[mark] = disk[mark]
      \/ syncing /\ mark = MarkOf(step)
      \/ phase = "consuming" /\ mark = "enable"

\* After a reported enable nothing touches the marks until the next command
\* or the next boot.
Reported ==
  last \in {"once", "persistent"} =>
    /\ command = "none" /\ phase = "up"
    /\ live = disk /\ ModeOf(disk) = last

\* A one-shot mark that is used up is gone for good.
Spent ==
  /\ shown # "again"
  /\ shown = "usedUp" => /\ command \in {"none", "disable"}
                        /\ ~live["enable"] /\ ~disk["enable"]

Rest ==
  /\ AtOwnStep /\ OneShotFirst /\ Changed /\ Consumed
  /\ Agree /\ Reported /\ Spent
-----------------------------------------------------------------------------
(* Type correctness.                                                        *)

LEMMA StepTables ==
  /\ \A s \in Steps : MarkOf(s) \in Marks /\ Writes(s) \in BOOLEAN
  /\ \A c \in Commands : FirstStep(c) \in Steps
BY DEF Steps, MarkOf, Marks, Writes, Commands, FirstStep

\* A view of the marks stays one when marks are copied from another.
LEMMA MarksPersist ==
  ASSUME NEW f \in [Marks -> BOOLEAN], NEW g \in [Marks -> BOOLEAN], NEW names
  PROVE  /\ Persist(f, g, names) \in [Marks -> BOOLEAN]
         /\ \A mark \in Marks :
              Persist(f, g, names)[mark] =
                IF mark \in names THEN f[mark] ELSE g[mark]
BY DEF Persist

LEMMA TypeInit == Init => TypeOK
<1>. SUFFICES ASSUME Init PROVE TypeOK
  OBVIOUS
<1>1. live \in [Marks -> BOOLEAN] /\ disk \in [Marks -> BOOLEAN]
  BY DEF Init
<1>2. /\ syncing = FALSE /\ settled = TRUE /\ command = "none"
      /\ shown \in MenusShown
  BY DEF Init, MenusShown
<1>. QED
  BY <1>1, <1>2 DEF Init, TypeOK, Steps, Phases

LEMMA TypeStep == TypeOK /\ [Next]_vars => TypeOK'
<1>. SUFFICES ASSUME TypeOK, [Next]_vars PROVE TypeOK'
  OBVIOUS
<1>. USE StepTables DEF TypeOK
<1>1. CASE CommandStep
  <2>1. ASSUME NEW c \in Commands, Start(c) PROVE TypeOK'
    BY <2>1 DEF Start, MenusShown
  <2>2. CASE Change
    BY <2>2 DEF Change, Settle
  <2>3. CASE NothingToRemove
    BY <2>3 DEF NothingToRemove, Advance, Steps
  <2>4. CASE Sync
    BY <2>4, MarksPersist DEF Sync, Advance, Settle, Steps
  <2>5. CASE Fail
    BY <2>5 DEF Fail
  <2>6. CASE SyncLost
    BY <2>6 DEF SyncLost, Settle
  <2>. QED
    BY <1>1, <2>1, <2>2, <2>3, <2>4, <2>5, <2>6 DEF CommandStep
<1>2. CASE BootStep
  <2>1. ASSUME NEW token \in BOOLEAN, Dispatch(token) PROVE TypeOK'
    BY <2>1 DEF Dispatch, Phases
  <2>2. CASE BootFallsBack
    BY <2>2 DEF BootFallsBack, Phases
  <2>3. CASE ConsumeUnlink
    BY <2>3 DEF ConsumeUnlink, Phases, Settle, Marks
  <2>4. CASE ConsumeSync
    BY <2>4, MarksPersist
    DEF ConsumeSync, OneShotMenu, MenusShown, Phases, Settle
  <2>5. CASE ConsumeUnlinkFails \/ ConsumeSyncFails \/ MenuWithoutConsume
    <3>1. settled' \in BOOLEAN
      BY <2>5
      DEF ConsumeUnlinkFails, ConsumeSyncFails, MenuWithoutConsume, Settle
    <3>2. /\ phase' = "menu" /\ last' = last /\ step' = step
          /\ live' = live /\ disk' = disk /\ command' = command
          /\ syncing' = syncing /\ phase # "up"
          /\ shown' \in {shown, "again", "warned"}
      BY <2>5
      DEF ConsumeUnlinkFails, ConsumeSyncFails, MenuWithoutConsume, OneShotMenu
    <3>. QED
      BY <3>1, <3>2 DEF Phases, MenusShown
  <2>6. ASSUME NEW next \in {"up", "away"}, Choose(next) PROVE TypeOK'
    BY <2>6 DEF Choose, Phases
  <2>. QED
    BY <1>2, <2>1, <2>2, <2>3, <2>4, <2>5, <2>6 DEF BootStep
<1>3. CASE Shutdown \/ StartAgain
  <2>1. CASE Shutdown
    BY <2>1 DEF Shutdown, Phases
  <2>2. CASE StartAgain
    BY <2>2 DEF StartAgain, Phases
  <2>. QED
    BY <1>3, <2>1, <2>2
<1>4. CASE Crash
  BY <1>4 DEF Crash, Phases
<1>5. ASSUME NEW mark \in Marks, Writeback(mark) PROVE TypeOK'
  BY <1>5, MarksPersist DEF Writeback, Settle
<1>6. CASE UNCHANGED vars
  BY <1>6 DEF vars
<1>. QED
  BY <1>1, <1>2, <1>3, <1>4, <1>5, <1>6 DEF Next

\* Whatever fails or loses power, the marks and the machine stay in the
\* states the code knows; only a running command is half done.
THEOREM TypeCorrect == Spec => []TypeOK
BY TypeInit, TypeStep, PTL DEF Spec

-----------------------------------------------------------------------------
(* The inductive invariant.                                                 *)

LEMMA RestInit == Init => Rest
BY DEF Init, Rest, AtOwnStep, OneShotFirst, Changed, Consumed, Agree, Reported,
       Spent

LEMMA RestStep ==
  ASSUME TypeOK, Rest, [Next]_vars
  PROVE  Rest'
<1>. USE DEF Rest, TypeOK
<1>1. ASSUME NEW c \in Commands, Start(c) PROVE Rest'
  BY <1>1
  DEF Start, FirstStep, Commands, AtOwnStep, OneShotFirst, Changed, Consumed,
      Agree, Reported, Spent
<1>2. CASE Change
  <2>1. \A mark \in Marks :
          live'[mark] = IF mark = MarkOf(step) THEN Writes(step) ELSE live[mark]
    BY <1>2 DEF Change
  <2>2. /\ command # "none" /\ command' = command /\ step' = step
        /\ syncing' /\ ~syncing /\ disk' = disk /\ phase' = phase
        /\ last' = last /\ shown' = shown
        /\ settled' = (settled \/ live' = disk')
    BY <1>2 DEF Change, Settle
  <2>3. MarkOf(step) \in Marks
    BY StepTables
  <2>4. AtOwnStep' /\ Changed' /\ Consumed' /\ Reported'
    BY <2>1, <2>2, <2>3 DEF AtOwnStep, Changed, Consumed, Reported
  <2>5. OneShotFirst' /\ Spent'
    BY <2>1, <2>2
    DEF OneShotFirst, Spent, AtOwnStep, MarkOf, Writes, Marks, Commands
  <2>6. Agree'
    BY <2>1, <2>2, <2>3 DEF Agree
  <2>. QED
    BY <2>4, <2>5, <2>6
<1>3. CASE NothingToRemove
  BY <1>3
  DEF NothingToRemove, Advance, IsLastStep, AtOwnStep, OneShotFirst, Changed,
      Consumed, Agree, Reported, Spent, MarkOf, Writes, Commands, Steps, Marks
<1>4. CASE Sync
  <2>1. disk' = live
    BY <1>4, MarksPersist DEF Sync
  <2>2. /\ syncing /\ ~syncing' /\ command # "none" /\ Advance
        /\ live' = live /\ phase' = phase /\ shown' = shown
    BY <1>4 DEF Sync
  <2>3. AtOwnStep' /\ OneShotFirst' /\ Changed'
    BY <2>2
    DEF Advance, IsLastStep, AtOwnStep, OneShotFirst, Changed, MarkOf, Writes,
        Commands, Steps
  <2>4. Consumed' /\ Agree' /\ Spent'
    BY <2>1, <2>2
    DEF Advance, IsLastStep, Consumed, Agree, Spent, Commands, Steps, Marks
  <2>5. Reported'
    BY <2>1, <2>2
    DEF Advance, IsLastStep, Reported, AtOwnStep, OneShotFirst, Changed,
        MarkOf, Writes, ModeOf, Commands, Steps
  <2>. QED
    BY <2>3, <2>4, <2>5
<1>5. CASE Fail \/ SyncLost
  BY <1>5
  DEF Fail, SyncLost, Settle, AtOwnStep, OneShotFirst, Changed, Consumed, Agree,
      Reported, Spent
<1>6. ASSUME NEW token \in BOOLEAN, Dispatch(token) PROVE Rest'
  BY <1>6
  DEF Dispatch, AtOwnStep, OneShotFirst, Changed, Consumed, Agree, Reported,
      Spent
<1>7. CASE ConsumeUnlink
  <2>1. live'["enable"] = FALSE /\ live'["onlyOnce"] = live["onlyOnce"]
    BY <1>7 DEF ConsumeUnlink, Marks
  <2>2. command = "none" /\ phase' = "consuming" /\ live["enable"]
    BY <1>7 DEF ConsumeUnlink, OneShot
  <2>3. shown \in {"none", "warned"}
    BY <2>2 DEF Spent, MenusShown
  <2>. QED
    BY <1>7, <2>1, <2>2, <2>3
    DEF ConsumeUnlink, Settle, AtOwnStep, OneShotFirst, Changed, Consumed,
        Agree, Reported, Spent, Marks
<1>8. CASE ConsumeSync
  <2>1. disk' = live
    BY <1>8, MarksPersist DEF ConsumeSync
  <2>. QED
    BY <1>8, <2>1
    DEF ConsumeSync, OneShotMenu, Settle, AtOwnStep, OneShotFirst, Changed,
        Consumed, Agree, Reported, Spent, Marks
<1>9. CASE \/ BootFallsBack \/ ConsumeUnlinkFails \/ ConsumeSyncFails
           \/ MenuWithoutConsume
  <2>1. CASE ConsumeUnlinkFails \/ ConsumeSyncFails
    <3>1. shown \in {"none", "warned"}
      BY <2>1
      DEF ConsumeUnlinkFails, ConsumeSyncFails, OneShot, Consumed, Spent,
          MenusShown
    <3>2. /\ phase' = "menu" /\ shown' = "warned" /\ phase # "up"
          /\ UNCHANGED <<live, disk, command, step, syncing, last>>
      BY <2>1, <3>1
      DEF ConsumeUnlinkFails, ConsumeSyncFails, OneShotMenu
    <3>3. Agree'
      BY <2>1, <3>2
      DEF ConsumeUnlinkFails, ConsumeSyncFails, Settle, Agree
    <3>4. (AtOwnStep /\ OneShotFirst /\ Changed)'
      BY <3>2 DEF AtOwnStep, OneShotFirst, Changed
    <3>5. (Consumed /\ Reported /\ Spent)'
      BY <3>2 DEF Consumed, Reported, Spent
    <3>. QED
      BY <3>3, <3>4, <3>5
  <2>2. CASE BootFallsBack \/ MenuWithoutConsume
    BY <2>2
    DEF BootFallsBack, MenuWithoutConsume, AtOwnStep, OneShotFirst, Changed,
        Consumed, Agree, Reported, Spent, Marks
  <2>. QED
    BY <1>9, <2>1, <2>2
<1>10. ASSUME NEW next \in {"up", "away"}, Choose(next) PROVE Rest'
  <2>1. /\ phase = "menu" /\ phase' # "consuming"
        /\ UNCHANGED <<live, disk, command, step, syncing, settled, last,
                       shown>>
    BY <1>10 DEF Choose
  <2>. QED
    BY <2>1
    DEF AtOwnStep, OneShotFirst, Changed, Consumed, Agree, Reported, Spent
<1>11. CASE Shutdown \/ StartAgain \/ Crash
  BY <1>11
  DEF Shutdown, StartAgain, Crash, AtOwnStep, OneShotFirst, Changed, Consumed,
      Agree, Reported, Spent
<1>12. ASSUME NEW mark \in Marks, Writeback(mark) PROVE Rest'
  <2>1. \A m \in Marks : disk'[m] = IF m = mark THEN live[m] ELSE disk[m]
    BY <1>12, MarksPersist DEF Writeback
  <2>2. live = disk => disk' = live
    BY <1>12, <2>1, MarksPersist DEF Writeback
  <2>. QED
    BY <1>12, <2>1, <2>2
    DEF Writeback, Settle, AtOwnStep, OneShotFirst, Changed, Consumed, Agree,
        Reported, Spent, Marks
<1>13. CASE UNCHANGED vars
  BY <1>13
  DEF vars, AtOwnStep, OneShotFirst, Changed, Consumed, Agree, Reported, Spent
<1>. QED
  BY <1>1, <1>2, <1>3, <1>4, <1>5, <1>6, <1>7, <1>8, <1>9, <1>10, <1>11,
     <1>12, <1>13
  DEF Next, CommandStep, BootStep

IInv == TypeOK /\ Rest

LEMMA Invariance == Spec => []IInv
<1>1. Init => IInv
  BY TypeInit, RestInit DEF IInv
<1>2. IInv /\ [Next]_vars => IInv'
  BY TypeStep, RestStep DEF IInv
<1>. QED
  BY <1>1, <1>2, PTL DEF Spec

\* `enable` that reports success survives a power failure, whatever earlier
\* commands left behind.
THEOREM EnableDurable == Spec => []EnabledIsDurable
<1>1. IInv => EnabledIsDurable
  BY DEF IInv, Rest, Reported, EnabledIsDurable
<1>. QED
  BY <1>1, Invariance, PTL

\* One `enable --once` shows no menu after the one whose unlink and fsync of
\* the mark worked: with removals that work there is one, whatever crashes.
THEOREM OneMenu == Spec => []OneShotShowsOneMenu
<1>1. IInv => OneShotShowsOneMenu
  BY DEF IInv, TypeOK, Rest, Spent, OneShotShowsOneMenu
<1>. QED
  BY <1>1, Invariance, PTL
-----------------------------------------------------------------------------
(* The marks implement the abstract boot mode.                              *)

Wanted == IF command = "none" THEN "none" ELSE WantedBy(command)

LEMMA ModeShape ==
  \A marks : ModeOf(marks) \in Mode!Modes
BY DEF ModeOf, Mode!Modes

\* What is kept can always catch up with a mode that may be kept.
LEMMA Keeps ==
  ASSUME ModeOf(live)' = ModeOf(live), Wanted' = Wanted,
         settled' \in {settled, TRUE},
         settled => ModeOf(disk)' \in {ModeOf(live), ModeOf(disk)}
  PROVE  Mode!Next
BY ModeShape DEF Wanted, Mode!Next, Mode!Keep, Mode!MayKeep

LEMMA ModeInit == Init => Mode!Init
BY ModeShape DEF Init, Mode!Init

LEMMA ModeStep ==
  ASSUME TypeOK, Rest, [Next]_vars
  PROVE  [Mode!Next]_Mode!vars
<1>. USE DEF TypeOK, Rest
<1>1. ASSUME NEW c \in Commands, Start(c) PROVE Mode!Next
  <2>1. WantedBy(c) \in Mode!Modes /\ c # "none"
    BY DEF WantedBy, Commands, Mode!Modes
  <2>2. Mode!Ask(WantedBy(c))
    BY <1>1, <2>1 DEF Start, Mode!Ask
  <2>. QED
    BY <2>1, <2>2 DEF Mode!Next
<1>2. CASE Change
  <2>1. \A mark \in Marks :
          live'[mark] = IF mark = MarkOf(step) THEN Writes(step) ELSE live[mark]
    BY <1>2 DEF Change
  <2>2. /\ command # "none" /\ command' = command /\ disk' = disk
        /\ settled' \in {settled, TRUE}
    BY <1>2 DEF Change, Settle
  <2>3. ModeOf(live)' \in {ModeOf(live), Wanted}
    BY <2>1, <2>2
    DEF ModeOf, Wanted, WantedBy, Marks, MarkOf, Writes, Commands, AtOwnStep,
        OneShotFirst
  <2>4. CASE ModeOf(live)' = ModeOf(live)
    BY <2>2, <2>4, Keeps DEF Wanted
  <2>5. CASE ModeOf(live)' = Wanted
    <3>1. WantedBy(command) # "none"
      BY <2>2 DEF WantedBy, Commands
    <3>2. Mode!Take
      BY <2>2, <2>5, <3>1 DEF Wanted, Mode!Take
    <3>. QED
      BY <3>2 DEF Mode!Next
  <2>. QED
    BY <2>3, <2>4, <2>5
<1>3. CASE NothingToRemove
  <2>1. CASE step = "removeEnable"
    <3>1. command = "disable" /\ ModeOf(live) = "off"
      BY <1>3, <2>1
      DEF NothingToRemove, AtOwnStep, Commands, ModeOf, MarkOf
    <3>2. settled => live = disk
      BY <1>3, <3>1 DEF NothingToRemove, Agree
    <3>3. Mode!Finish
      BY <1>3, <2>1, <3>1, <3>2
      DEF NothingToRemove, Advance, IsLastStep, WantedBy, Mode!Finish
    <3>. QED
      BY <3>3 DEF Mode!Next
  <2>2. CASE step # "removeEnable"
    BY <1>3, <2>2
    DEF NothingToRemove, Advance, IsLastStep, Writes, Steps, Mode!vars
  <2>. QED
    BY <2>1, <2>2
<1>4. CASE Sync
  <2>1. disk' = live /\ live' = live
    BY <1>4, MarksPersist DEF Sync
  <2>2. settled' \in {settled, TRUE}
    BY <1>4 DEF Sync, Settle
  <2>3. CASE IsLastStep(step)
    <3>1. command # "none" /\ command' = "none"
      BY <1>4, <2>3 DEF Sync, Advance
    <3>2. ModeOf(live) = WantedBy(command)
      BY <1>4, <2>3
      DEF Sync, IsLastStep, ModeOf, WantedBy, AtOwnStep, OneShotFirst, Changed,
          MarkOf, Writes, Commands
    <3>3. Mode!Finish
      BY <2>1, <2>2, <3>1, <3>2 DEF Mode!Finish
    <3>. QED
      BY <3>3 DEF Mode!Next
  <2>4. CASE ~IsLastStep(step)
    BY <1>4, <2>1, <2>2, <2>4, Keeps DEF Sync, Advance, Wanted
  <2>. QED
    BY <2>3, <2>4
<1>5. CASE Fail \/ SyncLost
  <2>1. /\ command # "none" /\ command' = "none" /\ live' = live
        /\ disk' = disk /\ settled' \in BOOLEAN
    BY <1>5 DEF Fail, SyncLost, Settle
  <2>2. WantedBy(command) # "none"
    BY <2>1 DEF WantedBy, Commands
  <2>3. Mode!CutShort
    BY <2>1, <2>2 DEF Mode!CutShort
  <2>. QED
    BY <2>3 DEF Mode!Next
<1>6. ASSUME NEW token \in BOOLEAN, Dispatch(token) PROVE UNCHANGED Mode!vars
  BY <1>6 DEF Dispatch, Mode!vars
<1>7. CASE BootFallsBack \/ ConsumeUnlinkFails \/ MenuWithoutConsume
  BY <1>7
  DEF BootFallsBack, ConsumeUnlinkFails, MenuWithoutConsume, Mode!vars
<1>8. CASE ConsumeUnlink
  <2>1. command = "none" /\ command' = "none" /\ disk' = disk
          /\ settled' \in {settled, TRUE}
    BY <1>8 DEF ConsumeUnlink, Settle
  <2>2. ModeOf(live) = "once" /\ ModeOf(live)' = "off"
    BY <1>8 DEF ConsumeUnlink, OneShot, ModeOf, Marks
  <2>3. Mode!Consume
    BY <2>1, <2>2 DEF Mode!Consume
  <2>. QED
    BY <2>3 DEF Mode!Next
<1>9. CASE ConsumeSync
  <2>1. disk' = live /\ live' = live
    BY <1>9, MarksPersist DEF ConsumeSync
  <2>. QED
    BY <1>9, <2>1, Keeps DEF ConsumeSync, Settle, Wanted
<1>10. CASE ConsumeSyncFails
  <2>1. command = "none" /\ command' = "none" /\ live' = live
          /\ disk' = disk /\ settled' \in BOOLEAN
    BY <1>10 DEF ConsumeSyncFails, Settle
  <2>2. ModeOf(live) = "off"
    BY <1>10 DEF ConsumeSyncFails, Consumed, ModeOf
  <2>3. Mode!ConsumeCutShort
    BY <2>1, <2>2 DEF Mode!ConsumeCutShort
  <2>. QED
    BY <2>3 DEF Mode!Next
<1>11. ASSUME NEW next \in {"up", "away"}, Choose(next)
       PROVE  UNCHANGED Mode!vars
  BY <1>11 DEF Choose, Mode!vars
<1>12. CASE Shutdown \/ StartAgain
  BY <1>12, Keeps DEF Shutdown, StartAgain, Wanted
<1>13. CASE Crash
  <2>1. Mode!PowerLoss
    BY <1>13 DEF Crash, Mode!PowerLoss
  <2>. QED
    BY <2>1 DEF Mode!Next
<1>14. ASSUME NEW mark \in Marks, Writeback(mark) PROVE Mode!Next
  <2>1. \A m \in Marks : disk'[m] = IF m = mark THEN live[m] ELSE disk[m]
    BY <1>14, MarksPersist DEF Writeback
  <2>2. live' = live /\ command' = command /\ settled' \in {settled, TRUE}
    BY <1>14 DEF Writeback, Settle
  <2>3. settled => \E m \in Marks : \A n \in Marks \ {m} : live[n] = disk[n]
    BY DEF Agree, Marks
  <2>4. settled => ModeOf(disk)' \in {ModeOf(live), ModeOf(disk)}
    BY <2>1, <2>3 DEF ModeOf, Marks
  <2>. QED
    BY <2>2, <2>4, Keeps DEF Wanted
<1>15. CASE UNCHANGED vars
  BY <1>15 DEF vars, Mode!vars
<1>. QED
  BY <1>1, <1>2, <1>3, <1>4, <1>5, <1>6, <1>7, <1>8, <1>9, <1>10, <1>11,
     <1>12, <1>13, <1>14, <1>15
  DEF Next, CommandStep, BootStep

\* enable, disable and the boots together are one three-valued switch: every
\* step of the marks is a step of the abstract boot mode or none at all.
THEOREM Implements == Spec => ImplementsEnableMode
<1>1. Init => Mode!Init
  BY ModeInit
<1>2. IInv /\ [Next]_vars => [Mode!Next]_Mode!vars
  BY ModeStep DEF IInv
<1>. QED
  BY <1>1, <1>2, Invariance, PTL DEF Spec, Mode!Spec, ImplementsEnableMode
=============================================================================
