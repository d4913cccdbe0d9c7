-------------------------------- MODULE Enable --------------------------------
(***************************************************************************)
(* The two marks that make the machine stop at the recovery menu:          *)
(* /etc/BurningProcess/enable and .../onlyOnce.  `burning-progress enable` *)
(* and `disable` (src/src/burning_progress.c) write and remove them on the *)
(* running system; the dispatcher (src/src/burning_init.c) looks at enable *)
(* on every boot and stage 1 (src/src/runtime.c) uses a one-shot mark up   *)
(* before it shows the menu.                                               *)
(*                                                                         *)
(* A step renames or unlinks, then fsyncs the directory; it may fail or be *)
(* killed in between, and power may fail anywhere.  Commands run one at a  *)
(* time; a command that is refused changes nothing and is left out.        *)
(***************************************************************************)
EXTENDS Disk

CONSTANT
  SyncCanBeLost   \* the steps whose fsync may fail or be killed

VARIABLES
  live,     \* mark -> is it there, as running programs see it
  disk,     \* mark -> is it there after a power failure
  phase,    \* where the machine is
  command,  \* the running command, "none" if there is none
  step,     \* the file operation it is at
  syncing,  \* the live entry is changed and not yet synced
  settled,  \* live and disk agreed since a command was last cut short (history)
  last,     \* the command that last reported success since the boot (history)
  shown     \* what one-shot menus there were since the last `enable` (history)

vars == <<live, disk, phase, command, step, syncing, settled, last, shown>>

Marks == {"enable", "onlyOnce"}
Commands == {"once", "persistent", "disable"}
Steps == {"writeOnce", "removeOnce", "writeEnable", "removeEnable"}
Phases == {"up", "dispatch", "stage1", "consuming", "menu", "away"}

\* No one-shot menu yet; some, and each said that the mark could not be used
\* up; then one that had used it up; then another one.
MenusShown == {"none", "warned", "usedUp", "again"}

ASSUME SyncCanBeLostAssumption == SyncCanBeLost \subseteq Steps

\* What a boot makes of the marks.
ModeOf(marks) ==
  IF ~marks["enable"] THEN "off"
  ELSE IF marks["onlyOnce"] THEN "once" ELSE "persistent"

WantedBy(c) == IF c = "disable" THEN "off" ELSE c

MarkOf(s) == IF s \in {"writeOnce", "removeOnce"} THEN "onlyOnce" ELSE "enable"
Writes(s) == s \in {"writeOnce", "writeEnable"}

\* settled is over as soon as nothing is pending any more.
Settle(before) == settled' = (before \/ live' = disk')

-----------------------------------------------------------------------------
(* Commands on the running system.                                          *)

\* Mutant: the enable mark is written before the one-shot mark is dealt with.
FirstStepOfEnable(c) == IF c = "disable" THEN "removeEnable" ELSE "writeEnable"

FirstStep(c) ==
  CASE c = "once" -> "writeOnce"
    [] c = "persistent" -> "removeOnce"
    [] c = "disable" -> "removeEnable"

IsLastStep(s) == s \in {"writeEnable", "removeEnable"}

Start(c) ==
  /\ phase = "up" /\ command = "none"
  /\ command' = c
  /\ step' = FirstStep(c)
  /\ shown' = IF c = "disable" THEN shown ELSE "none"
  /\ last' = "none"
  /\ UNCHANGED <<live, disk, phase, syncing, settled>>

\* Mutant: the last step reports success before its fsync.
ChangeReportsEarly ==
  /\ command # "none" /\ ~syncing
  /\ Writes(step) \/ live[MarkOf(step)]
  /\ live' = [live EXCEPT ![MarkOf(step)] = Writes(step)]
  /\ syncing' = TRUE
  /\ command' = IF IsLastStep(step) THEN "none" ELSE command
  /\ UNCHANGED <<disk, phase, step, settled, last, shown>>

\* Rename a new mark into place, or unlink one that is there.
Change ==
  /\ command # "none" /\ ~syncing
  /\ Writes(step) \/ live[MarkOf(step)]
  /\ live' = [live EXCEPT ![MarkOf(step)] = Writes(step)]
  /\ syncing' = TRUE
  /\ UNCHANGED <<disk, phase, command, step, last, shown>>
  /\ Settle(settled)

\* Go on, or report success.
Advance ==
  IF IsLastStep(step)
    THEN command' = "none" /\ last' = command /\ step' = step
    ELSE step' = "writeEnable" /\ UNCHANGED <<command, last>>

\* bp_remove_synced takes ENOENT for success and does not sync.
NothingToRemove ==
  /\ command # "none" /\ ~syncing
  /\ ~Writes(step) /\ ~live[MarkOf(step)]
  /\ Advance
  /\ UNCHANGED <<live, disk, phase, syncing, settled, shown>>

\* Mutant: the rename is not followed by an fsync of the directory.
SyncNothing ==
  /\ syncing /\ command # "none"
  /\ syncing' = FALSE
  /\ Advance
  /\ UNCHANGED <<live, disk, phase, shown>>
  /\ Settle(settled)

Sync ==
  /\ syncing /\ command # "none"
  /\ disk' = Persist(live, disk, Marks)
  /\ syncing' = FALSE
  /\ Advance
  /\ UNCHANGED <<live, phase, shown>>
  /\ Settle(settled)

\* The command fails before it changes anything, or is killed there.
Fail ==
  /\ command # "none" /\ ~syncing
  /\ command' = "none"
  /\ UNCHANGED <<live, disk, phase, step, syncing, settled, last, shown>>

\* The fsync fails and the command reports an error, or it is killed.
SyncLost ==
  /\ syncing /\ command # "none"
  /\ step \in SyncCanBeLost
  /\ command' = "none"
  /\ syncing' = FALSE
  /\ UNCHANGED <<live, disk, phase, step, last, shown>>
  /\ Settle(FALSE)

-----------------------------------------------------------------------------
(* Going down and coming up.                                                *)

\* A clean shutdown writes everything back.
Shutdown ==
  /\ phase = "up" /\ command = "none"
  /\ phase' = "dispatch"
  /\ disk' = live
  /\ settled' = TRUE
  /\ last' = "none"
  /\ UNCHANGED <<live, command, step, syncing, shown>>

Crash ==
  /\ live' = disk
  /\ phase' = "dispatch"
  /\ command' = "none"
  /\ syncing' = FALSE
  /\ settled' = TRUE
  /\ last' = "none"
  /\ UNCHANGED <<disk, step, shown>>

\* burning-init: the mark, or the token on the kernel command line or among
\* init's arguments, leads to stage 1 unless that cannot be executed.
Dispatch(token) ==
  /\ phase = "dispatch"
  /\ phase' \in IF live["enable"] \/ token THEN {"stage1", "up"} ELSE {"up"}
  /\ UNCHANGED <<live, disk, command, step, syncing, settled, last, shown>>

\* The console cannot be opened: the original init runs, the mark stays.
BootFallsBack ==
  /\ phase = "stage1"
  /\ phase' = "up"
  /\ UNCHANGED <<live, disk, command, step, syncing, settled, last, shown>>

OneShot(marks) == marks["enable"] /\ marks["onlyOnce"]

\* Stage 1 comes to the menu of a one-shot mark, which it has used up or
\* warns about.
OneShotMenu(worked) ==
  /\ phase' = "menu"
  /\ shown' = IF shown \in {"usedUp", "again"} THEN "again"
              ELSE IF worked THEN "usedUp" ELSE "warned"

ConsumeUnlink ==
  /\ phase = "stage1"
  /\ OneShot(live)
  /\ live' = [live EXCEPT !["enable"] = FALSE]
  /\ phase' = "consuming"
  /\ UNCHANGED <<disk, command, step, syncing, last, shown>>
  /\ Settle(settled)

\* Mutant: the menu is shown before the removal is durable.
ConsumeUnsynced ==
  /\ phase = "consuming"
  /\ OneShotMenu(TRUE)
  /\ UNCHANGED <<live, disk, command, step, syncing, settled, last>>

ConsumeSync ==
  /\ phase = "consuming"
  /\ disk' = Persist(live, disk, Marks)
  /\ OneShotMenu(TRUE)
  /\ UNCHANGED <<live, command, step, syncing, last>>
  /\ Settle(settled)

\* A removal that fails is only warned about; the menu comes all the same.
ConsumeUnlinkFails ==
  /\ phase = "stage1"
  /\ OneShot(live)
  /\ OneShotMenu(FALSE)
  /\ UNCHANGED <<live, disk, command, step, syncing, settled, last>>

ConsumeSyncFails ==
  /\ phase = "consuming"
  /\ OneShotMenu(FALSE)
  /\ UNCHANGED <<live, disk, command, step, syncing, last>>
  /\ Settle(FALSE)

\* The menu of a persistent mark or of the token.
MenuWithoutConsume ==
  /\ phase = "stage1"
  /\ ~OneShot(live)
  /\ phase' = "menu"
  /\ UNCHANGED <<live, disk, command, step, syncing, settled, last, shown>>

\* The choice: the original init, or poweroff or the RAM root, after which
\* the machine starts again some time later.
Choose(next) ==
  /\ phase = "menu"
  /\ phase' = next
  /\ UNCHANGED <<live, disk, command, step, syncing, settled, last, shown>>

\* Poweroff syncs; leaving the RAM root has unmounted the disk or loses it.
StartAgain ==
  /\ phase = "away"
  /\ phase' = "dispatch"
  /\ disk' = live
  /\ settled' = TRUE
  /\ UNCHANGED <<live, command, step, syncing, last, shown>>

\* The kernel writes one entry back on its own.
Writeback(mark) ==
  /\ disk' = Persist(live, disk, {mark})
  /\ UNCHANGED <<live, phase, command, step, syncing, last, shown>>
  /\ Settle(settled)

-----------------------------------------------------------------------------

Init ==
  /\ live \in [Marks -> BOOLEAN]
  /\ disk = live
  /\ phase = "up"
  /\ command = "none"
  /\ step = "writeEnable"
  /\ syncing = FALSE
  /\ settled = TRUE
  /\ last = "none"
  /\ shown = "none"

CommandStep ==
  \/ \E c \in Commands : Start(c)
  \/ Change \/ NothingToRemove \/ Sync \/ Fail \/ SyncLost

BootStep ==
  \/ \E token \in BOOLEAN : Dispatch(token)
  \/ BootFallsBack
  \/ ConsumeUnlink \/ ConsumeSync \/ ConsumeUnlinkFails \/ ConsumeSyncFails
  \/ MenuWithoutConsume
  \/ \E next \in {"up", "away"} : Choose(next)

Next ==
  \/ CommandStep \/ BootStep
  \/ Shutdown \/ StartAgain \/ Crash
  \/ \E mark \in Marks : Writeback(mark)

Spec == Init /\ [][Next]_vars

-----------------------------------------------------------------------------
(* Properties.                                                              *)

\* The shapes of the variables; a command runs only on the running system
\* and only a running command is between a change and its fsync.
TypeOK ==
  /\ live \in [Marks -> BOOLEAN] /\ disk \in [Marks -> BOOLEAN]
  /\ phase \in Phases
  /\ command \in Commands \cup {"none"}
  /\ step \in Steps
  /\ syncing \in BOOLEAN /\ settled \in BOOLEAN
  /\ last \in Commands \cup {"none"}
  /\ shown \in MenusShown
  /\ command # "none" => phase = "up"
  /\ syncing => command # "none"

\* The marks are a boot mode: "one-shot and persistent enable states behave
\* deterministically across power loss at each atomic-write boundary".
Mode == INSTANCE EnableMode WITH
          mode <- ModeOf(live),
          kept <- ModeOf(disk),
          wanted <- IF command = "none" THEN "none" ELSE WantedBy(command),
          settled <- settled

ImplementsEnableMode == Mode!Spec

\* One `enable --once` is good for one menu where the unlink of the mark and
\* its fsync work, however often the power fails on the way there: stage 1
\* has made the removal durable when the menu appears.  Where one of the two
\* fails the menu comes with a warning and may come again, until a removal
\* works: that menu is the last.
OneShotShowsOneMenu == shown # "again"

\* `enable` that reports success is durable, whatever was left over from
\* commands cut short before it: its last step syncs the whole directory.
EnabledIsDurable == last \in {"once", "persistent"} => ModeOf(disk) = last

\* The same for `disable`, as the same sentence of the plan has it.
DisabledIsDurable == last = "disable" => ModeOf(disk) = "off"
=============================================================================
