--------------------------------- MODULE Boot ---------------------------------
(***************************************************************************)
(* One boot, as process 1 lives it until it has become something else: the *)
(* dispatcher (src/src/burning_init.c), stage 1 with its menu, and the way *)
(* into the RAM root (src/src/runtime.c).  Every call may fail where       *)
(* CanFail says so.  The one-shot mark is used up between the              *)
(* configuration and the menu: module Enable has that part.                *)
(***************************************************************************)
EXTENDS Naturals, Sequences

CONSTANTS
  Timeouts,        \* the values `timeout=` has in the configurations tried
  DefaultTimeout,  \* BP_DEFAULT_TIMEOUT
  MaxKeys,         \* bound: keys typed at the menu before it is left alone
  HostMounts,      \* what may be mounted of the sources when stage 1 starts
  Submounts,       \* those of them with another file system mounted inside
  CanFail          \* the steps that may fail

ASSUME BootAssumption ==
  Timeouts \subseteq Nat /\ DefaultTimeout \in Nat /\ MaxKeys \in Nat

VARIABLES
  pc,       \* the step process 1 is at, or what it has become
  file,     \* the host configuration as it is on disk
  config,   \* the one stage 1 goes by
  left,     \* time until the menu's deadline
  waited,   \* time spent at the menu (history)
  typed,    \* keys typed and not read yet
  keys,     \* keys typed in all
  first,    \* the first key typed that is a choice (history)
  choice,   \* what the menu returned
  lost,     \* the console broke at the menu (history)
  found,    \* the sources mounted on the disk's root at the start
  added,    \* those that enter_ram_root has mounted there
  private,  \* it has made the propagation of all mounts private
  root,     \* "disk" or "ram"
  inNewRoot,\* the working directory is the new root, not /
  mounts,   \* the mounts of the new root: the tmpfs and what is bound in it
  mounted,  \* enter_ram_root's local of that name: how many bind mounts
  extracted \* the whole archive is in the new root

menu == <<left, waited, typed, keys, first, choice, lost>>
host == <<found, added, private>>
mnt == <<root, inNewRoot, mounts, mounted, extracted>>
vars == <<pc, file, host, config, menu, mnt>>

-----------------------------------------------------------------------------

Choices == {"shell", "normal", "poweroff"}
Keys == Choices \cup {"junk"}

\* What enter_ram_root binds, in order.
Sources == <<"dev", "proc", "sys", "run">>
SourceSet == {Sources[i] : i \in DOMAIN Sources}

\* In what order prepare_host_runtime_mounts looks at them.
HostOrder == <<"proc", "sys", "dev", "run">>

\* What was mounted before may have something inside; a new mount has not.
Busy == Submounts \cap found

RamSteps == {"verify", "memory", "hostMounts", "mountTmpfs", "extract",
             "oldRootDir", "bind", "private", "enterNewRoot", "pivot",
             "leaveOldRoot", "execStage2"}
UndoSteps == {"backToRoot", "undoBind", "undoTmpfs"}
BootSteps == {"dispatch", "execStage1", "openConsole", "loadConfig", "menu",
              "act", "execOriginal"}
\* What process 1 can end as.  A reboot or poweroff that the kernel refuses
\* ends in pause() for ever: that is "rebooting" or "poweredOff" too.
Ends == {"original", "stage2", "poweredOff", "rebooting", "exited"}

Configs == [valid : BOOLEAN, default : Choices, timeout : Timeouts]
DefaultConfig == [default |-> "normal", timeout |-> DefaultTimeout]

Goto(step) == pc' = step

-----------------------------------------------------------------------------
(* The dispatcher.                                                          *)

\* The enable mark, or the token on the command line or among the arguments.
Dispatch(triggered) ==
  /\ pc = "dispatch"
  /\ Goto(IF triggered THEN "execStage1" ELSE "execOriginal")
  /\ UNCHANGED <<file, host, config, menu, mnt>>

\* A launcher that cannot be executed falls through to the original init.
ExecStage1 ==
  /\ pc = "execStage1"
  /\ \/ Goto("openConsole")
     \/ "execStage1" \in CanFail /\ Goto("execOriginal")
  /\ UNCHANGED <<file, host, config, menu, mnt>>

ExecOriginal ==
  /\ pc = "execOriginal"
  /\ \/ Goto("original")
     \/ "execOriginal" \in CanFail /\ Goto("exited")
  /\ UNCHANGED <<file, host, config, menu, mnt>>

-----------------------------------------------------------------------------
(* Stage 1 and its menu.                                                    *)

OpenConsole ==
  /\ pc = "openConsole"
  /\ \/ Goto("loadConfig")
     \/ "openConsole" \in CanFail /\ Goto("execOriginal")
  /\ UNCHANGED <<file, host, config, menu, mnt>>

\* Mutant: what the parser has read before the invalid line stays in force.
LoadConfigKeepsHalf ==
  /\ pc = "loadConfig"
  /\ config' = [default |-> file.default, timeout |-> file.timeout]
  /\ left' = config'.timeout
  /\ Goto("menu")
  /\ UNCHANGED <<file, host, waited, typed, keys, first, choice, lost, mnt>>

\* The parser writes into the configuration as it goes; a file it rejects,
\* or one that is missing, is replaced by the default as a whole.  The menu
\* starts with its deadline.
LoadConfig ==
  /\ pc = "loadConfig"
  /\ config' = IF file.valid
                 THEN [default |-> file.default, timeout |-> file.timeout]
                 ELSE DefaultConfig
  /\ left' = config'.timeout
  /\ Goto("menu")
  /\ UNCHANGED <<file, host, waited, typed, keys, first, choice, lost, mnt>>

Tick ==
  /\ pc = "menu"
  /\ left > 0
  /\ left' = left - 1
  /\ waited' = waited + 1
  /\ UNCHANGED <<pc, file, host, config, typed, keys, first, choice, lost, mnt>>

Type(key) ==
  /\ pc = "menu"
  /\ keys < MaxKeys
  /\ keys' = keys + 1
  /\ typed' = Append(typed, key)
  /\ first' = IF first = "none" /\ key \in Choices THEN key ELSE first
  /\ UNCHANGED <<pc, file, host, config, left, waited, choice, lost, mnt>>

\* poll finds input; a read takes what is there, the first choice in it wins.
FirstChoice(input) ==
  LET at == {i \in DOMAIN input : input[i] \in Choices}
  IN IF at = {} THEN "none" ELSE input[CHOOSE i \in at : \A j \in at : i <= j]

\* Mutant: every wrong line starts the time-out again.
ReadMenuAgain ==
  /\ pc = "menu"
  /\ typed # <<>>
  /\ typed' = <<>>
  /\ choice' = FirstChoice(typed)
  /\ left' = IF choice' = "none" THEN config.timeout ELSE left
  /\ Goto(IF choice' = "none" THEN "menu" ELSE "act")
  /\ UNCHANGED <<file, host, config, waited, keys, first, lost, mnt>>

ReadMenu ==
  /\ pc = "menu"
  /\ typed # <<>>
  /\ typed' = <<>>
  /\ choice' = FirstChoice(typed)
  /\ Goto(IF choice' = "none" THEN "menu" ELSE "act")
  /\ UNCHANGED <<file, host, config, left, waited, keys, first, lost, mnt>>

\* poll says that the deadline has come and nothing is there to read.
MenuTimesOut ==
  /\ pc = "menu"
  /\ left = 0
  /\ typed = <<>>
  /\ choice' = config.default
  /\ Goto("act")
  /\ UNCHANGED <<file, host, config, left, waited, typed, keys, first, lost, mnt>>

\* A console that poll or read reports as broken.
MenuLosesConsole ==
  /\ pc = "menu"
  /\ "menu" \in CanFail
  /\ choice' = config.default
  /\ lost' = TRUE
  /\ Goto("act")
  /\ UNCHANGED <<file, host, config, left, waited, typed, keys, first, mnt>>

Act ==
  /\ pc = "act"
  /\ Goto([normal |-> "execOriginal", poweroff |-> "poweredOff",
            shell |-> "verify"][choice])
  /\ UNCHANGED <<file, host, config, menu, mnt>>

-----------------------------------------------------------------------------
(* enter_ram_root                                                           *)

\* Verify the archive, ask for the memory.
Prepare ==
  /\ pc \in {"verify", "memory"}
  /\ \/ Goto(IF pc = "verify" THEN "memory" ELSE "hostMounts")
     \/ pc \in CanFail /\ Goto("execOriginal")
  /\ UNCHANGED <<file, host, config, menu, mnt>>

\* /proc, /sys, /dev and /run are mounted on the disk's root where they are
\* missing, one after the other, and the directories for the new root made.
\* Nobody undoes any of this, here or in the rollback.
MountOnHost ==
  /\ pc = "hostMounts"
  /\ \E i \in DOMAIN HostOrder :
       /\ HostOrder[i] \notin found \cup added
       /\ \A j \in 1..(i - 1) : HostOrder[j] \in found \cup added
       /\ added' = added \cup {HostOrder[i]}
  /\ UNCHANGED <<pc, file, found, private, config, menu, mnt>>

HostMountsDone ==
  /\ pc = "hostMounts"
  /\ \/ found \cup added = SourceSet /\ Goto("mountTmpfs")
     \/ "hostMounts" \in CanFail /\ Goto("execOriginal")
  /\ UNCHANGED <<file, host, config, menu, mnt>>

MountTmpfs ==
  /\ pc = "mountTmpfs"
  /\ \/ Goto("extract") /\ mounts' = mounts \cup {"tmpfs"}
     \/ "mountTmpfs" \in CanFail /\ Goto("execOriginal") /\ UNCHANGED mounts
  /\ UNCHANGED <<file, host, config, menu, root, inNewRoot, mounted, extracted>>

\* Mutant: a failed extraction leaves the tmpfs mounted.
ExtractLeavesTmpfs ==
  /\ pc = "extract"
  /\ \/ Goto("oldRootDir") /\ extracted' = TRUE
     \/ "extract" \in CanFail /\ Goto("execOriginal") /\ UNCHANGED extracted
  /\ UNCHANGED <<file, host, config, menu, root, inNewRoot, mounts, mounted>>

Extract ==
  /\ pc = "extract"
  /\ \/ Goto("oldRootDir") /\ extracted' = TRUE
     \/ "extract" \in CanFail /\ Goto("undoTmpfs") /\ UNCHANGED extracted
  /\ UNCHANGED <<file, host, config, menu, root, inNewRoot, mounts, mounted>>

OldRootDir ==
  /\ pc = "oldRootDir"
  /\ \/ Goto("bind")
     \/ "oldRootDir" \in CanFail /\ Goto("undoTmpfs")
  /\ UNCHANGED <<file, host, config, menu, mnt>>

\* Mutant: a bind mount that fails is skipped.
BindSkipsFailures ==
  /\ pc = "bind"
  /\ mounted' = mounted + 1
  /\ \/ mounts' = mounts \cup {Sources[mounted + 1]}
     \/ "bind" \in CanFail /\ UNCHANGED mounts
  /\ Goto(IF mounted' = Len(Sources) THEN "private" ELSE "bind")
  /\ UNCHANGED <<file, host, config, menu, root, inNewRoot, extracted>>

Bind ==
  /\ pc = "bind"
  /\ \/ /\ mounted' = mounted + 1
        /\ mounts' = mounts \cup {Sources[mounted + 1]}
        /\ Goto(IF mounted' = Len(Sources) THEN "private" ELSE "bind")
     \/ /\ "bind" \in CanFail
        /\ Goto("undoBind")
        /\ UNCHANGED <<mounts, mounted>>
  /\ UNCHANGED <<file, host, config, menu, root, inNewRoot, extracted>>

\* Of every mount there is, for good.
MakePrivate ==
  /\ pc = "private"
  /\ \/ Goto("enterNewRoot") /\ private' = TRUE
     \/ "private" \in CanFail /\ Goto("undoBind") /\ UNCHANGED private
  /\ UNCHANGED <<file, found, added, config, menu, mnt>>

EnterNewRoot ==
  /\ pc = "enterNewRoot"
  /\ \/ Goto("pivot") /\ inNewRoot' = TRUE
     \/ "enterNewRoot" \in CanFail /\ Goto("backToRoot") /\ UNCHANGED inNewRoot
  /\ UNCHANGED <<file, host, config, menu, root, mounts, mounted, extracted>>

Pivot ==
  /\ pc = "pivot"
  /\ \/ Goto("leaveOldRoot") /\ root' = "ram"
     \/ "pivot" \in CanFail /\ Goto("backToRoot") /\ UNCHANGED root
  /\ UNCHANGED <<file, host, config, menu, inNewRoot, mounts, mounted, extracted>>

\* Mutant: a stage 2 that cannot be executed is treated like any failure.
AfterPivotFallsBack ==
  /\ pc \in {"leaveOldRoot", "execStage2"}
  /\ \/ Goto(IF pc = "leaveOldRoot" THEN "execStage2" ELSE "stage2")
     \/ pc \in CanFail /\ Goto("undoBind")
  /\ UNCHANGED <<file, host, config, menu, mnt>>

\* chdir("/") and exec of stage 2: what fails here reboots.
AfterPivot ==
  /\ pc \in {"leaveOldRoot", "execStage2"}
  /\ \/ Goto(IF pc = "leaveOldRoot" THEN "execStage2" ELSE "stage2")
     \/ pc \in CanFail /\ Goto("rebooting")
  /\ UNCHANGED <<file, host, config, menu, mnt>>

\* The way back before the pivot: chdir("/"), then the rollback.
BackToRoot ==
  /\ pc = "backToRoot"
  /\ \/ inNewRoot' = FALSE
     \/ "backToRoot" \in CanFail /\ UNCHANGED inNewRoot
  /\ Goto("undoBind")
  /\ UNCHANGED <<file, host, config, menu, root, mounts, mounted, extracted>>

\* Mutant: the rollback retries a bind mount that is busy.
UndoBindRetries ==
  /\ pc = "undoBind"
  /\ IF mounted = 0
       THEN Goto("undoTmpfs") /\ UNCHANGED <<mounts, mounted>>
       ELSE /\ mounts' = mounts \ ({Sources[mounted]} \ Busy)
            /\ mounted' = IF Sources[mounted] \in mounts' THEN mounted
                          ELSE mounted - 1
            /\ UNCHANGED pc
  /\ UNCHANGED <<file, host, config, menu, root, inNewRoot, extracted>>

\* umount of one bind mount, which is recursive: where the source has another
\* mount inside it is busy, and the rollback does not look.
UndoBind ==
  /\ pc = "undoBind"
  /\ IF mounted = 0
       THEN Goto("undoTmpfs") /\ UNCHANGED <<mounts, mounted>>
       ELSE /\ mounted' = mounted - 1
            /\ mounts' = mounts \ ({Sources[mounted]} \ Busy)
            /\ UNCHANGED pc
  /\ UNCHANGED <<file, host, config, menu, root, inNewRoot, extracted>>

UndoTmpfs ==
  /\ pc = "undoTmpfs"
  /\ mounts' = IF mounts = {"tmpfs"} /\ ~inNewRoot THEN {} ELSE mounts
  /\ extracted' = (extracted /\ "tmpfs" \in mounts')
  /\ Goto("execOriginal")
  /\ UNCHANGED <<file, host, config, menu, root, inNewRoot, mounted>>

-----------------------------------------------------------------------------

Init ==
  /\ pc = "dispatch"
  /\ file \in Configs
  /\ config = DefaultConfig
  /\ left = 0 /\ waited = 0
  /\ typed = <<>> /\ keys = 0
  /\ first = "none" /\ choice = "none" /\ lost = FALSE
  /\ found \in HostMounts /\ added = {} /\ private = FALSE
  /\ root = "disk" /\ inNewRoot = FALSE
  /\ mounts = {} /\ mounted = 0
  /\ extracted = FALSE

\* What process 1 does by itself.
Pid1 ==
  \/ \E triggered \in BOOLEAN : Dispatch(triggered)
  \/ ExecStage1 \/ ExecOriginal
  \/ OpenConsole \/ LoadConfig
  \/ ReadMenu \/ MenuTimesOut \/ MenuLosesConsole \/ Act
  \/ Prepare \/ MountOnHost \/ HostMountsDone
  \/ MountTmpfs \/ Extract \/ OldRootDir \/ Bind \/ MakePrivate
  \/ EnterNewRoot \/ Pivot \/ AfterPivot
  \/ BackToRoot \/ UndoBind \/ UndoTmpfs

Done == pc \in Ends /\ UNCHANGED vars

Next == Pid1 \/ Tick \/ (\E key \in Keys : Type(key)) \/ Done

\* The kernel runs process 1, and the clock goes on.
Spec == Init /\ [][Next]_vars /\ WF_vars(Pid1) /\ WF_vars(Tick)

-----------------------------------------------------------------------------
(* Properties.                                                              *)

\* The shapes of the variables; process 1 is on the RAM root exactly after
\* the pivot.
TypeOK ==
  /\ pc \in BootSteps \cup RamSteps \cup UndoSteps \cup Ends
  /\ file \in Configs
  /\ config \in [default : Choices, timeout : Timeouts \cup {DefaultTimeout}]
  /\ left \in Nat /\ waited \in Nat
  /\ typed \in Seq(Keys) /\ keys \in 0..MaxKeys
  /\ first \in Choices \cup {"none"} /\ choice \in Choices \cup {"none"}
  /\ lost \in BOOLEAN
  /\ found \in HostMounts /\ added \subseteq SourceSet \ found
  /\ private \in BOOLEAN
  /\ root \in {"disk", "ram"} /\ inNewRoot \in BOOLEAN
  /\ mounts \subseteq {"tmpfs"} \cup SourceSet
  /\ mounted \in 0..Len(Sources)
  /\ extracted \in BOOLEAN
  /\ root = "ram" <=> pc \in {"leaveOldRoot", "execStage2", "stage2",
                              "rebooting"}

\* Whatever fails on the way into the RAM root, the original init runs on
\* the disk's root, never after the pivot ("failure after pivot_root never
\* attempts to execute the original init").  Of the new root it finds
\* nothing, except bind mounts that were busy with a mount inside them, and
\* the tmpfs below those or where the way back to / was barred.  What no
\* rollback undoes are the mounts of /proc, /sys, /dev and /run that the disk's
\* root lacked (TypeOK) and the private propagation: only a boot that was
\* sent to the shell leaves any, and the latter only with all four there.
FallbackUndoesNewRoot ==
  pc = "original" =>
    /\ root = "disk" /\ mounted = 0
    /\ mounts \subseteq {"tmpfs"} \cup Busy
    /\ mounts # {} => inNewRoot \/ mounts \cap Busy # {}
    /\ added # {} => choice = "shell"
    /\ private => choice = "shell" /\ found \cup added = SourceSet

\* Stage 2 gets a complete RAM root: the archive extracted to the end and
\* /dev, /proc, /sys and /run inside it.
RamRootIsComplete ==
  root = "ram" => extracted /\ mounts = {"tmpfs"} \cup SourceSet

\* "Explicit input overrides the configured default": the first choice
\* typed while the menu is up is the one acted on, even when it comes as
\* the time runs out, and with none typed a default is.  With an invalid
\* configuration that default is the normal boot.
MenuTakesFirstChoice ==
  (choice # "none" /\ ~lost) =>
    IF first # "none" THEN choice = first
    ELSE choice = IF file.valid THEN file.default ELSE "normal"

\* The menu waits as long as its configuration says and no longer, whatever
\* is typed: the deadline is taken once.
MenuWaitsItsTimeout ==
  /\ waited <= config.timeout
  /\ (choice # "none" /\ first = "none" /\ ~lost)
       => waited = config.timeout

\* Every boot ends: process 1 becomes the original init or stage 2, or the
\* machine goes down; nothing on the way waits for ever.
BootEnds == <>(pc \in Ends)
=============================================================================
