------------------------------ MODULE BootProofs ------------------------------
(***************************************************************************)
(* Proofs about Boot, for any time-outs, any number of keys, any file      *)
(* systems that are mounted inside others and any steps that may fail: its *)
(* type invariant, the two promises of the menu and the two of the way     *)
(* into the RAM root.                                                      *)
(***************************************************************************)
EXTENDS Boot, TLAPS

\* An abbreviation of the model, expanded in every proof.
USE DEF host

-----------------------------------------------------------------------------
(* The inductive invariant: the menu ...                                    *)

BeforeMenu == {"dispatch", "execStage1", "openConsole", "loadConfig"}

\* The configuration that counts.
Loaded == IF file.valid
            THEN [default |-> file.default, timeout |-> file.timeout]
            ELSE DefaultConfig

\* Nothing happens before the menu is there.
MenuIsNew ==
  pc \in BeforeMenu =>
    /\ choice = "none" /\ first = "none" /\ ~lost
    /\ typed = <<>> /\ waited = 0

\* While it is, what is typed and not read holds the first choice, if there
\* was one, and the time that is left and the time that is over are all of it.
FirstTyped ==
  IF first = "none" THEN \A i \in DOMAIN typed : typed[i] \notin Choices
  ELSE \E i \in DOMAIN typed :
         /\ typed[i] = first
         /\ \A j \in DOMAIN typed : typed[j] \in Choices => i <= j

MenuGoesOn ==
  pc = "menu" =>
    /\ choice = "none" /\ ~lost
    /\ FirstTyped
    /\ left + waited = config.timeout

\* Afterwards there is a choice.
MenuIsOver ==
  /\ pc = "act" => choice # "none"
  /\ pc = "menu" \/ choice # "none" => config = Loaded

MenuInv ==
  /\ MenuIsNew /\ MenuGoesOn /\ MenuIsOver
  /\ MenuTakesFirstChoice /\ MenuWaitsItsTimeout

-----------------------------------------------------------------------------
(* ... and the mounts.                                                      *)

\* The sources bound when mounted is n.
Bound(n) == {Sources[i] : i \in 1..n}

\* Before the tmpfs there is nothing to undo.
NothingMounted ==
  pc \in BeforeMenu \cup {"menu", "act", "verify", "memory", "hostMounts",
                          "mountTmpfs"}
    => mounts = {} /\ mounted = 0 /\ ~inNewRoot

\* The RAM root grows in order.
Growing ==
  /\ pc \in {"extract", "oldRootDir"} =>
       mounts = {"tmpfs"} /\ mounted = 0 /\ ~inNewRoot
  /\ pc \in {"oldRootDir", "bind"} => extracted
  /\ pc = "bind" => mounts = {"tmpfs"} \cup Bound(mounted) /\ mounted < 4

\* From the last bind mount on it is complete.
Complete ==
  pc \in {"private", "enterNewRoot", "pivot", "leaveOldRoot", "execStage2",
          "stage2", "rebooting"}
    => extracted /\ mounts = {"tmpfs"} \cup SourceSet /\ mounted = 4

\* The rollback leaves what is busy, and counts down all the same.
RollingBack ==
  /\ pc \in UndoSteps => mounts \subseteq {"tmpfs"} \cup Bound(mounted)
                                            \cup Busy
  /\ pc = "undoTmpfs" => mounted = 0

\* What falls back finds nothing that could have been undone.
FallenBack ==
  pc \in {"execOriginal", "original"} =>
    /\ mounted = 0
    /\ mounts \subseteq {"tmpfs"} \cup Busy
    /\ mounts # {} => inNewRoot \/ mounts \cap Busy # {}

\* What stays on the disk's root is of a boot that was sent to the shell, and
\* the propagation is changed with all four sources mounted.
UpToChoice == BeforeMenu \cup {"menu", "act"}
AllOnHost == {"mountTmpfs", "extract", "oldRootDir", "bind", "private"}

HostKept ==
  /\ pc \in UpToChoice => added = {} /\ ~private
  /\ pc \in RamSteps => choice = "shell"
  /\ pc \in AllOnHost => found \cup added = SourceSet
  /\ added # {} => choice = "shell"
  /\ private => choice = "shell" /\ found \cup added = SourceSet

RamInv == NothingMounted /\ Growing /\ Complete /\ RollingBack /\ FallenBack

-----------------------------------------------------------------------------
(* Lemmas.                                                                  *)

\* A read finds the first choice among what was typed, or none.
LEMMA ReadFindsFirst ==
  ASSUME TypeOK, FirstTyped
  PROVE  FirstChoice(typed) = first
<1> DEFINE at == {i \in DOMAIN typed : typed[i] \in Choices}
<1>1. CASE first = "none"
  <2>1. at = {}
    BY <1>1 DEF FirstTyped
  <2> QED
    BY <1>1, <2>1 DEF FirstChoice
<1>2. CASE first # "none"
  <2>1. PICK i \in DOMAIN typed :
          /\ typed[i] = first
          /\ \A j \in DOMAIN typed : typed[j] \in Choices => i <= j
    BY <1>2 DEF FirstTyped
  <2>2. first \in Choices
    BY <1>2 DEF TypeOK
  <2>3. i \in at /\ \A j \in at : i <= j
    BY <2>1, <2>2
  <2>4. at \subseteq Nat
    BY DEF TypeOK
  <2>5. \A k \in at : (\A j \in at : k <= j) => k = i
    BY <2>3, <2>4
  <2>6. (CHOOSE k \in at : \A j \in at : k <= j) = i
    BY <2>3, <2>5
  <2> QED
    BY <2>1, <2>3, <2>6 DEF FirstChoice
<1> QED
  BY <1>1, <1>2

\* One more key is the first choice only if there was none before.
LEMMA TypedMore ==
  ASSUME TypeOK, FirstTyped, NEW key \in Keys,
         typed' = Append(typed, key),
         first' = IF first = "none" /\ key \in Choices THEN key ELSE first
  PROVE  FirstTyped'
<1>1. /\ typed \in Seq(Keys) /\ Len(typed) \in Nat
      /\ DOMAIN typed = 1..Len(typed) /\ DOMAIN typed' = 1..(Len(typed) + 1)
      /\ \A i \in DOMAIN typed : typed'[i] = typed[i]
      /\ typed'[Len(typed) + 1] = key
  BY DEF TypeOK
<1>2. CASE first # "none"
  <2>1. PICK i \in DOMAIN typed :
          /\ typed[i] = first
          /\ \A j \in DOMAIN typed : typed[j] \in Choices => i <= j
    BY <1>2 DEF FirstTyped
  <2>2. /\ i \in DOMAIN typed' /\ typed'[i] = first'
        /\ \A j \in DOMAIN typed' : typed'[j] \in Choices => i <= j
    BY <1>1, <1>2, <2>1
  <2> QED
    BY <1>2, <2>2 DEF FirstTyped
<1>3. CASE first = "none" /\ key \in Choices
  <2>1. first' = key /\ first' # "none"
    BY <1>3 DEF Choices
  <2>2. /\ Len(typed) + 1 \in DOMAIN typed'
        /\ \A j \in DOMAIN typed' : typed'[j] \in Choices => Len(typed) + 1 <= j
    BY <1>1, <1>3 DEF FirstTyped
  <2> QED
    BY <1>1, <2>1, <2>2 DEF FirstTyped
<1>4. CASE first = "none" /\ key \notin Choices
  BY <1>1, <1>4 DEF FirstTyped
<1> QED
  BY <1>2, <1>3, <1>4

\* The steps that the menu has nothing to do with.
Transition ==
  \/ ExecOriginal \/ Prepare \/ MountOnHost \/ HostMountsDone
  \/ MountTmpfs \/ Extract \/ OldRootDir \/ Bind \/ MakePrivate \/ EnterNewRoot \/ Pivot \/ AfterPivot \/ BackToRoot
  \/ UndoBind \/ UndoTmpfs

\* The sources are bound in their order.
LEMMA BoundGrows ==
  /\ Bound(0) = {} /\ Bound(4) = SourceSet /\ Len(Sources) = 4
  /\ \A n \in 0..3 : /\ Sources[n + 1] \in SourceSet
                     /\ Bound(n + 1) = Bound(n) \cup {Sources[n + 1]}
<1>1. Len(Sources) = 4 /\ DOMAIN Sources = 1..4
  BY DEF Sources
<1>2. Bound(0) = {}
  BY DEF Bound
<1>3. Bound(4) = SourceSet
  BY <1>1 DEF Bound, SourceSet
<1>4. ASSUME NEW n \in 0..3
      PROVE  /\ Sources[n + 1] \in SourceSet
             /\ Bound(n + 1) = Bound(n) \cup {Sources[n + 1]}
  <2>1. 1..(n + 1) = (1..n) \cup {n + 1}
    OBVIOUS
  <2>2. n + 1 \in DOMAIN Sources
    BY <1>1
  <2> QED
    BY <2>1, <2>2 DEF Bound, SourceSet
<1> QED
  BY <1>1, <1>2, <1>3, <1>4

\* What is looked at on the disk's root is what is bound.
LEMMA HostSources ==
  /\ DOMAIN HostOrder = 1..4 /\ DOMAIN Sources = 1..4
  /\ \A i \in DOMAIN HostOrder : HostOrder[i] \in SourceSet
<1>1. DOMAIN HostOrder = 1..4 /\ DOMAIN Sources = 1..4
  BY DEF HostOrder, Sources
<1>2. SourceSet = {"dev", "proc", "sys", "run"}
  BY DEF SourceSet, Sources
<1> QED
  BY <1>1, <1>2 DEF HostOrder

-----------------------------------------------------------------------------
(* The types.                                                               *)

LEMMA TypeInit == Init => TypeOK
<1> SUFFICES ASSUME Init PROVE TypeOK
  OBVIOUS
<1>1. config \in [default : Choices, timeout : Timeouts \cup {DefaultTimeout}]
  BY DEF Init, DefaultConfig, Choices
<1>2. typed \in Seq(Keys) /\ mounted \in 0..Len(Sources)
  BY BoundGrows DEF Init
<1>3. /\ pc \in BootSteps /\ file \in Configs
      /\ first = "none" /\ choice = "none" /\ lost \in BOOLEAN
  BY DEF Init, BootSteps
<1>5. left \in Nat /\ waited \in Nat /\ keys \in 0..MaxKeys
  BY BootAssumption DEF Init
<1>4. /\ root = "disk" /\ inNewRoot \in BOOLEAN
      /\ mounts \subseteq {"tmpfs"} \cup SourceSet
      /\ extracted \in BOOLEAN /\ pc = "dispatch"
      /\ found \in HostMounts /\ added \subseteq SourceSet \ found
      /\ private \in BOOLEAN
  BY DEF Init
<1> QED
  BY <1>1, <1>2, <1>3, <1>4, <1>5 DEF TypeOK

\* A configuration in force has a time to wait.
LEMMA TimeoutIsNat == TypeOK => config.timeout \in Nat
BY BootAssumption DEF TypeOK

LEMMA TypeBefore ==
  ASSUME TypeOK, MenuIsOver,
         (\E triggered \in BOOLEAN : Dispatch(triggered)) \/ ExecStage1
           \/ OpenConsole \/ LoadConfig \/ Act
  PROVE  TypeOK'
<1>1. CASE LoadConfig
  <2>1. config' \in [default : Choices,
                     timeout : Timeouts \cup {DefaultTimeout}]
    BY <1>1 DEF LoadConfig, TypeOK, Configs, DefaultConfig, Choices
  <2>2. left' \in Nat
    BY <1>1, <2>1, BootAssumption DEF LoadConfig
  <2> QED
    BY <1>1, <2>1, <2>2 DEF LoadConfig, Goto, TypeOK, BootSteps, mnt
<1>2. CASE Act
  <2>1. choice \in Choices
    BY <1>2 DEF Act, MenuIsOver, TypeOK
  <2>2. pc' \in {"execOriginal", "poweredOff", "verify"}
    BY <1>2, <2>1 DEF Act, Goto, Choices
  <2> QED
    BY <1>2, <2>2 DEF Act, TypeOK, BootSteps, RamSteps, Ends, menu, mnt
<1>3. CASE (\E triggered \in BOOLEAN : Dispatch(triggered)) \/ ExecStage1
             \/ OpenConsole
  BY <1>3
  DEF Dispatch, ExecStage1, OpenConsole, Goto, TypeOK, BootSteps, menu, mnt
<1> QED
  BY <1>1, <1>2, <1>3

LEMMA TypeMenu ==
  ASSUME TypeOK, FirstTyped \/ pc # "menu",
         Tick \/ (\E key \in Keys : Type(key)) \/ ReadMenu \/ MenuTimesOut
           \/ MenuLosesConsole
  PROVE  TypeOK'
<1>1. CASE Tick
  BY <1>1 DEF Tick, TypeOK, mnt
<1>2. ASSUME NEW key \in Keys, Type(key)
      PROVE  TypeOK'
  <2>1. typed' \in Seq(Keys) /\ keys' \in 0..MaxKeys
    BY <1>2, BootAssumption DEF Type, TypeOK
  <2>2. first' \in Choices \cup {"none"}
    BY <1>2 DEF Type, TypeOK
  <2> QED
    BY <1>2, <2>1, <2>2 DEF Type, TypeOK, mnt
<1>3. CASE ReadMenu
  <2>1. choice' = first
    BY <1>3, ReadFindsFirst DEF ReadMenu
  <2>2. typed' \in Seq(Keys)
    BY <1>3 DEF ReadMenu
  <2> QED
    BY <1>3, <2>1, <2>2 DEF ReadMenu, Goto, TypeOK, BootSteps, mnt
<1>4. CASE MenuTimesOut \/ MenuLosesConsole
  BY <1>4 DEF MenuTimesOut, MenuLosesConsole, Goto, TypeOK, BootSteps, mnt
<1> QED
  BY <1>1, <1>2, <1>3, <1>4

LEMMA TypeTransition ==
  ASSUME TypeOK, RamInv, Transition
  PROVE  TypeOK'
<1>1. CASE ExecOriginal \/ Prepare \/ HostMountsDone
  <2>1. pc' \in {"original", "exited", "execOriginal"}
                 \cup {"memory", "hostMounts", "mountTmpfs"}
    BY <1>1 DEF ExecOriginal, Prepare, HostMountsDone, Goto
  <2>2. /\ UNCHANGED <<file, host, config, menu, mnt>>
        /\ pc \in {"execOriginal", "verify", "memory", "hostMounts"}
    BY <1>1 DEF ExecOriginal, Prepare, HostMountsDone
  <2> QED
    BY <2>1, <2>2 DEF TypeOK, BootSteps, RamSteps, Ends, menu, mnt
<1>8. CASE MountOnHost
  <2>1. /\ UNCHANGED <<pc, file, found, private, config, menu, mnt>>
        /\ \E i \in DOMAIN HostOrder : /\ HostOrder[i] \notin found
                                     /\ added' = added \cup {HostOrder[i]}
    BY <1>8 DEF MountOnHost
  <2>2. \A i \in DOMAIN HostOrder : HostOrder[i] \in SourceSet
    BY HostSources
  <2> QED
    BY <2>1, <2>2 DEF TypeOK, menu, mnt
<1>2. CASE MountTmpfs \/ Extract \/ OldRootDir
  <2>1. pc' \in {"extract", "oldRootDir", "bind", "undoTmpfs", "execOriginal"}
    BY <1>2 DEF MountTmpfs, Extract, OldRootDir, Goto
  <2>2. /\ UNCHANGED <<file, host, config, menu, root, inNewRoot, mounted>>
        /\ mounts' \in {mounts, mounts \cup {"tmpfs"}}
        /\ extracted' \in {extracted, TRUE}
        /\ pc \in {"mountTmpfs", "extract", "oldRootDir"}
    BY <1>2 DEF MountTmpfs, Extract, OldRootDir, mnt
  <2>3. extracted' \in BOOLEAN /\ mounts' \subseteq {"tmpfs"} \cup SourceSet
    BY <2>2 DEF TypeOK
  <2> QED
    BY <2>1, <2>2, <2>3 DEF TypeOK, BootSteps, RamSteps, UndoSteps, menu
<1>3. CASE Bind
  <2>1. mounted \in 0..3
    BY <1>3, BoundGrows DEF Bind, RamInv, Growing, TypeOK
  <2>2. Sources[mounted + 1] \in SourceSet /\ mounted + 1 \in 0..4
    BY <2>1, BoundGrows
  <2>3. mounted' \in 0..4 /\ mounts' \subseteq {"tmpfs"} \cup SourceSet
    <3>1. \/ mounted' = mounted + 1
             /\ mounts' = mounts \cup {Sources[mounted + 1]}
          \/ UNCHANGED <<mounts, mounted>>
      BY <1>3 DEF Bind
    <3>2. mounted' \in 0..4
      BY <2>1, <3>1
    <3>3. mounts' \subseteq {"tmpfs"} \cup SourceSet
      BY <2>2, <3>1 DEF TypeOK
    <3> QED BY <3>2, <3>3
  <2>4. pc' \in {"bind", "private", "undoBind"}
    BY <1>3 DEF Bind, Goto
  <2> QED
    BY <1>3, <2>3, <2>4, BoundGrows
    DEF Bind, TypeOK, RamSteps, UndoSteps, menu
<1>4. CASE MakePrivate \/ EnterNewRoot \/ Pivot
  BY <1>4
  DEF MakePrivate, EnterNewRoot, Pivot, Goto, TypeOK, RamSteps, UndoSteps,
      menu, mnt
<1>5. CASE AfterPivot \/ BackToRoot
  BY <1>5
  DEF AfterPivot, BackToRoot, Goto, TypeOK, RamSteps, UndoSteps, Ends, menu,
      mnt
<1>6. CASE UndoBind
  <2>1. mounted' \in 0..4 /\ mounts' \subseteq {"tmpfs"} \cup SourceSet
    <3>1. mounted \in 0..4 /\ mounts \subseteq {"tmpfs"} \cup SourceSet
      BY BoundGrows DEF TypeOK
    <3>2. \/ mounted = 0 /\ UNCHANGED <<mounts, mounted>>
          \/ mounted # 0 /\ mounted' = mounted - 1 /\ mounts' \subseteq mounts
      BY <1>6 DEF UndoBind
    <3>3. mounted' \in 0..4
      BY <3>1, <3>2
    <3>4. mounts' \subseteq {"tmpfs"} \cup SourceSet
      BY <3>1, <3>2
    <3> QED BY <3>3, <3>4
  <2>2. pc' \in {"undoBind", "undoTmpfs"}
    BY <1>6 DEF UndoBind, Goto
  <2> QED
    BY <1>6, <2>1, <2>2, BoundGrows DEF UndoBind, TypeOK, UndoSteps, menu
<1>7. CASE UndoTmpfs
  BY <1>7 DEF UndoTmpfs, Goto, TypeOK, BootSteps, menu
<1> QED
  BY <1>1, <1>2, <1>3, <1>4, <1>5, <1>6, <1>7, <1>8 DEF Transition

-----------------------------------------------------------------------------
(* The menu.                                                                *)

LEMMA MenuInit == Init => MenuInv
BY BootAssumption
DEF Init, MenuInv, MenuIsNew, MenuGoesOn, MenuIsOver, BeforeMenu,
    MenuTakesFirstChoice, MenuWaitsItsTimeout, DefaultConfig

\* The steps that do not go back to the menu.
LEMMA MenuKept ==
  ASSUME TypeOK, MenuInv, UNCHANGED <<file, config, menu>>,
         pc' \in BeforeMenu => pc \in BeforeMenu,
         pc' = "menu" => pc = "menu",
         pc' = "act" => pc = "act"
  PROVE  MenuInv'
<1>1. UNCHANGED <<left, waited, typed, keys, first, choice, lost>>
  BY DEF menu
<1>2. (MenuIsNew /\ MenuIsOver)'
  BY <1>1 DEF MenuInv, MenuIsNew, MenuIsOver, Loaded
<1>3. MenuGoesOn'
  BY <1>1 DEF MenuInv, MenuGoesOn, FirstTyped
<1>4. (MenuTakesFirstChoice /\ MenuWaitsItsTimeout)'
  BY <1>1 DEF MenuInv, MenuTakesFirstChoice, MenuWaitsItsTimeout
<1> QED
  BY <1>2, <1>3, <1>4 DEF MenuInv

LEMMA MenuBefore ==
  ASSUME TypeOK, MenuInv,
         (\E triggered \in BOOLEAN : Dispatch(triggered)) \/ ExecStage1
           \/ OpenConsole \/ Act \/ Transition \/ Done
  PROVE  MenuInv'
<1>1. CASE (\E triggered \in BOOLEAN : Dispatch(triggered)) \/ ExecStage1
             \/ OpenConsole
  BY <1>1, MenuKept
  DEF Dispatch, ExecStage1, OpenConsole, Goto, BeforeMenu
<1>2. CASE Act
  <2>1. pc' \in {"execOriginal", "poweredOff", "verify"}
    BY <1>2 DEF Act, Goto, MenuInv, MenuIsOver, TypeOK, Choices
  <2> QED
    BY <1>2, <2>1, MenuKept DEF Act, BeforeMenu
<1>3. CASE Done
  <2>1. UNCHANGED <<pc, file, config, menu>>
    BY <1>3 DEF Done, vars
  <2> QED
    BY <2>1, MenuKept
<1>4. CASE Transition
  <2>1. UNCHANGED <<file, config, menu>>
    BY <1>4
    DEF Transition, ExecOriginal, Prepare, MountOnHost, HostMountsDone,
        MountTmpfs, Extract, OldRootDir, Bind, MakePrivate, EnterNewRoot,
        Pivot, AfterPivot, BackToRoot, UndoBind, UndoTmpfs
  <2>2. pc' \notin BeforeMenu /\ pc' # "menu" /\ pc' # "act"
    BY <1>4
    DEF Transition, ExecOriginal, Prepare, MountOnHost, HostMountsDone,
        MountTmpfs, Extract, OldRootDir, Bind, MakePrivate, EnterNewRoot,
        Pivot, AfterPivot, BackToRoot, UndoBind, UndoTmpfs, Goto, BeforeMenu
  <2> QED
    BY <2>1, <2>2, MenuKept
<1> QED
  BY <1>1, <1>2, <1>3, <1>4

LEMMA MenuLoads ==
  ASSUME TypeOK, MenuInv, LoadConfig
  PROVE  MenuInv'
<1>1. /\ pc = "loadConfig" /\ pc' = "menu"
      /\ config' = Loaded /\ left' = config'.timeout
      /\ UNCHANGED <<file, waited, typed, keys, first, choice, lost>>
  BY DEF LoadConfig, Goto, Loaded
<1>2. /\ choice = "none" /\ first = "none" /\ ~lost
      /\ typed = <<>> /\ waited = 0
  BY <1>1 DEF MenuInv, MenuIsNew, BeforeMenu
<1>3. config'.timeout \in Nat
  BY <1>1, BootAssumption DEF Loaded, DefaultConfig, TypeOK, Configs
<1>4. MenuGoesOn'
  BY <1>1, <1>2, <1>3 DEF MenuGoesOn, FirstTyped
<1>5. (MenuIsNew /\ MenuIsOver)'
  BY <1>1, <1>2 DEF MenuIsNew, MenuIsOver, BeforeMenu, Loaded
<1>6. (MenuTakesFirstChoice /\ MenuWaitsItsTimeout)'
  BY <1>1, <1>2, <1>3 DEF MenuTakesFirstChoice, MenuWaitsItsTimeout
<1> QED
  BY <1>4, <1>5, <1>6 DEF MenuInv

LEMMA MenuWaits ==
  ASSUME TypeOK, MenuInv, Tick \/ (\E key \in Keys : Type(key))
  PROVE  MenuInv'
<1>1. /\ pc = "menu" /\ UNCHANGED <<pc, file, config, choice, lost>>
  BY DEF Tick, Type
<1>2. /\ choice = "none" /\ ~lost /\ FirstTyped
      /\ left + waited = config.timeout
      /\ left \in Nat /\ waited \in Nat
  BY <1>1 DEF MenuInv, MenuGoesOn, TypeOK
<1>3. /\ left' \in Nat /\ waited' \in Nat
      /\ left' + waited' = config.timeout
  BY <1>2 DEF Tick, Type
<1>4. FirstTyped'
  <2>1. CASE Tick
    BY <1>2, <2>1 DEF Tick, FirstTyped
  <2>2. CASE \E key \in Keys : Type(key)
    BY <1>2, <2>2, TypedMore DEF Type
  <2> QED
    BY <2>1, <2>2
<1>5. MenuGoesOn'
  BY <1>1, <1>2, <1>3, <1>4 DEF MenuGoesOn
<1>6. (MenuIsNew /\ MenuIsOver)'
  BY <1>1, <1>2 DEF MenuInv, MenuIsNew, MenuIsOver, BeforeMenu, Loaded
<1>7. waited' <= config'.timeout
  BY <1>1, <1>3
<1>8. (MenuTakesFirstChoice /\ MenuWaitsItsTimeout)'
  BY <1>1, <1>2, <1>7 DEF MenuTakesFirstChoice, MenuWaitsItsTimeout
<1> QED
  BY <1>5, <1>6, <1>8 DEF MenuInv

\* A choice ends the menu; a read with none in it does not.
LEMMA MenuChooses ==
  ASSUME TypeOK, MenuInv, ReadMenu \/ MenuTimesOut \/ MenuLosesConsole
  PROVE  MenuInv'
<1>1. pc = "menu" /\ UNCHANGED <<file, config, left, waited, first>>
  BY DEF ReadMenu, MenuTimesOut, MenuLosesConsole
<1>2. /\ choice = "none" /\ ~lost /\ FirstTyped /\ config = Loaded
      /\ left + waited = config.timeout /\ waited <= config.timeout
      /\ left \in Nat /\ waited \in Nat
  BY <1>1 DEF MenuInv, MenuGoesOn, MenuIsOver, MenuWaitsItsTimeout, TypeOK
<1>3. config.default \in Choices
  BY DEF TypeOK
<1>4. config.default = IF file.valid THEN file.default ELSE "normal"
  BY <1>2 DEF Loaded, DefaultConfig
<1>5. CASE ReadMenu
  <2>1. /\ choice' = first /\ typed' = <<>> /\ lost' = lost
        /\ pc' = IF first = "none" THEN "menu" ELSE "act"
    BY <1>2, <1>5, ReadFindsFirst DEF ReadMenu, Goto
  <2>2. MenuGoesOn' /\ MenuIsNew'
    BY <1>1, <1>2, <2>1 DEF MenuGoesOn, FirstTyped, MenuIsNew, BeforeMenu
  <2>3. MenuIsOver'
    BY <1>1, <1>2, <2>1 DEF MenuIsOver, Loaded
  <2>4. (MenuTakesFirstChoice /\ MenuWaitsItsTimeout)'
    BY <1>1, <1>2, <2>1 DEF MenuTakesFirstChoice, MenuWaitsItsTimeout
  <2> QED
    BY <2>2, <2>3, <2>4 DEF MenuInv
<1>6. CASE MenuTimesOut
  <2>1. /\ left = 0 /\ typed = <<>> /\ choice' = config.default
        /\ pc' = "act" /\ lost' = lost
    BY <1>6 DEF MenuTimesOut, Goto
  <2>2. first = FirstChoice(<<>>)
    BY <1>2, <2>1, ReadFindsFirst
  <2>3. first = "none"
    BY <2>2 DEF FirstChoice
  <2>4. waited = config.timeout
    BY <1>2, <2>1
  <2>5. (MenuGoesOn /\ MenuIsNew /\ MenuIsOver)'
    BY <1>1, <1>2, <1>3, <2>1
    DEF MenuGoesOn, MenuIsNew, MenuIsOver, BeforeMenu, Loaded, Choices
  <2>6. (MenuTakesFirstChoice /\ MenuWaitsItsTimeout)'
    BY <1>1, <1>2, <1>4, <2>1, <2>3, <2>4
    DEF MenuTakesFirstChoice, MenuWaitsItsTimeout
  <2> QED
    BY <2>5, <2>6 DEF MenuInv
<1>7. CASE MenuLosesConsole
  <2>1. choice' = config.default /\ pc' = "act" /\ lost'
    BY <1>7 DEF MenuLosesConsole, Goto
  <2>2. (MenuGoesOn /\ MenuIsNew /\ MenuIsOver)'
    BY <1>1, <1>2, <1>3, <2>1
    DEF MenuGoesOn, MenuIsNew, MenuIsOver, BeforeMenu, Loaded, Choices
  <2>3. (MenuTakesFirstChoice /\ MenuWaitsItsTimeout)'
    BY <1>1, <1>2, <2>1 DEF MenuTakesFirstChoice, MenuWaitsItsTimeout
  <2> QED
    BY <2>2, <2>3 DEF MenuInv
<1> QED
  BY <1>5, <1>6, <1>7

-----------------------------------------------------------------------------
(* The mounts.                                                              *)

LEMMA RamInit == Init => RamInv
BY DEF Init, RamInv, NothingMounted, Growing, Complete, RollingBack,
       FallenBack, UndoSteps, BeforeMenu

EarlySteps == BeforeMenu \cup {"menu", "act", "verify", "memory", "hostMounts",
                               "mountTmpfs"}

\* Up to the tmpfs process 1 goes on, falls back, or ends.
LEMMA RamEarly ==
  ASSUME RamInv, UNCHANGED mnt, pc \in EarlySteps,
         pc' \in EarlySteps \cup {"execOriginal", "poweredOff"}
  PROVE  RamInv'
<1>1. /\ mounts = {} /\ mounted = 0 /\ ~inNewRoot
      /\ UNCHANGED <<mounts, mounted, inNewRoot, extracted>>
  BY DEF RamInv, NothingMounted, EarlySteps, mnt
<1> QED
  BY <1>1
  DEF RamInv, NothingMounted, Growing, Complete, RollingBack, FallenBack,
      UndoSteps, BeforeMenu, EarlySteps

LEMMA RamBefore ==
  ASSUME TypeOK, RamInv, MenuIsOver,
         \/ (\E triggered \in BOOLEAN : Dispatch(triggered)) \/ ExecStage1
         \/ OpenConsole \/ LoadConfig \/ Act \/ Tick
         \/ (\E key \in Keys : Type(key)) \/ ReadMenu \/ MenuTimesOut
         \/ MenuLosesConsole \/ Prepare \/ MountOnHost \/ HostMountsDone
  PROVE  RamInv'
<1>1. UNCHANGED mnt /\ pc \in EarlySteps
  BY DEF Dispatch, ExecStage1, OpenConsole, LoadConfig, Act, Tick, Type,
         ReadMenu, MenuTimesOut, MenuLosesConsole, Prepare, MountOnHost,
         HostMountsDone, EarlySteps, BeforeMenu
<1>2. CASE Act
  BY <1>1, <1>2, RamEarly
  DEF Act, Goto, MenuIsOver, TypeOK, Choices, EarlySteps
<1>3. CASE Prepare \/ MountOnHost \/ HostMountsDone
  BY <1>1, <1>3, RamEarly
  DEF Prepare, MountOnHost, HostMountsDone, Goto, EarlySteps
<1>4. CASE Tick \/ (\E key \in Keys : Type(key))
  BY <1>1, <1>4, RamEarly DEF Tick, Type
<1>5. CASE \/ (\E triggered \in BOOLEAN : Dispatch(triggered)) \/ ExecStage1
           \/ OpenConsole \/ LoadConfig
  <2>1. pc' \in EarlySteps \cup {"execOriginal", "poweredOff"}
    BY <1>5
    DEF Dispatch, ExecStage1, OpenConsole, LoadConfig, Goto, EarlySteps,
        BeforeMenu
  <2> QED
    BY <1>1, <2>1, RamEarly
<1>6. CASE ReadMenu \/ MenuTimesOut \/ MenuLosesConsole
  BY <1>1, <1>6, RamEarly
  DEF ReadMenu, MenuTimesOut, MenuLosesConsole, Goto, EarlySteps
<1> QED
  BY <1>2, <1>3, <1>4, <1>5, <1>6

\* The end of a boot, and the exec of the original init.
LEMMA RamEnds ==
  ASSUME RamInv, ExecOriginal \/ Done
  PROVE  RamInv'
<1>1. CASE ExecOriginal
  <2>1. /\ pc = "execOriginal" /\ pc' \in {"original", "exited"}
        /\ UNCHANGED <<mounts, mounted, inNewRoot, extracted, found>>
    BY <1>1 DEF ExecOriginal, Goto, mnt
  <2> QED
    BY <2>1
    DEF RamInv, Busy, NothingMounted, Growing, Complete, RollingBack, FallenBack,
        UndoSteps, BeforeMenu
<1>2. CASE Done
  BY <1>2
  DEF Done, vars, mnt, RamInv, NothingMounted, Growing, Complete, RollingBack,
      FallenBack, Busy
<1> QED
  BY <1>1, <1>2

LEMMA RamTmpfs ==
  ASSUME RamInv, MountTmpfs \/ Extract \/ OldRootDir
  PROVE  RamInv'
<1>1. CASE MountTmpfs
  <2>1. /\ pc = "mountTmpfs" /\ UNCHANGED <<inNewRoot, mounted, extracted>>
        /\ mounts = {} /\ mounted = 0 /\ ~inNewRoot
        /\ \/ pc' = "extract" /\ mounts' = {"tmpfs"}
           \/ pc' = "execOriginal" /\ mounts' = {}
    BY <1>1 DEF MountTmpfs, Goto, RamInv, NothingMounted
  <2> QED
    BY <2>1
    DEF RamInv, NothingMounted, Growing, Complete, RollingBack, FallenBack,
        UndoSteps, BeforeMenu
<1>2. CASE Extract \/ OldRootDir
  <2>1. /\ mounts = {"tmpfs"} /\ mounted = 0 /\ ~inNewRoot
        /\ pc = "oldRootDir" => extracted
        /\ UNCHANGED <<inNewRoot, mounts, mounted>>
    BY <1>2 DEF Extract, OldRootDir, RamInv, Growing, mnt
  <2>2. \/ pc' \in {"oldRootDir", "bind"} /\ extracted'
        \/ pc' = "undoTmpfs"
    BY <1>2, <2>1 DEF Extract, OldRootDir, Goto, mnt
  <2> QED
    BY <2>1, <2>2, BoundGrows
    DEF RamInv, NothingMounted, Growing, Complete, RollingBack, FallenBack,
        UndoSteps, BeforeMenu
<1> QED
  BY <1>1, <1>2

LEMMA RamBind ==
  ASSUME TypeOK, RamInv, Bind
  PROVE  RamInv'
<1>1. /\ extracted /\ mounts = {"tmpfs"} \cup Bound(mounted)
      /\ mounted \in 0..3 /\ UNCHANGED <<inNewRoot, extracted>>
  BY BoundGrows DEF Bind, RamInv, Growing, TypeOK
<1>2. Bound(mounted + 1) = Bound(mounted) \cup {Sources[mounted + 1]}
  BY <1>1, BoundGrows
<1>3. CASE pc' = "undoBind" /\ UNCHANGED <<mounts, mounted>>
  BY <1>1, <1>3
  DEF RamInv, NothingMounted, Growing, Complete, RollingBack, FallenBack,
      UndoSteps, BeforeMenu
<1>4. CASE /\ mounted' = mounted + 1
           /\ mounts' = mounts \cup {Sources[mounted + 1]}
           /\ pc' = IF mounted' = 4 THEN "private" ELSE "bind"
  <2>1. mounts' = {"tmpfs"} \cup Bound(mounted')
    BY <1>1, <1>2, <1>4
  <2>2. CASE mounted' = 4
    BY <1>1, <1>4, <2>1, <2>2, BoundGrows
    DEF RamInv, NothingMounted, Growing, Complete, RollingBack, FallenBack,
        UndoSteps, BeforeMenu
  <2>3. CASE mounted' # 4
    <3>1. mounted' < 4
      BY <1>1, <1>4, <2>3
    <3> QED
      BY <1>1, <1>4, <2>1, <2>3, <3>1
      DEF RamInv, NothingMounted, Growing, Complete, RollingBack, FallenBack,
          UndoSteps, BeforeMenu
  <2> QED
    BY <2>2, <2>3
<1> QED
  BY <1>3, <1>4, BoundGrows DEF Bind, Goto

LEMMA RamEnter ==
  ASSUME RamInv,
         MakePrivate \/ EnterNewRoot \/ Pivot \/ AfterPivot \/ BackToRoot
  PROVE  RamInv'
<1>1. UNCHANGED <<mounts, mounted, extracted>> /\ Busy' = Busy
  BY DEF MakePrivate, EnterNewRoot, Pivot, AfterPivot, BackToRoot, mnt, Busy
<1>2. CASE BackToRoot
  BY <1>1, <1>2
  DEF BackToRoot, Goto, RamInv, NothingMounted, Growing, Complete,
      RollingBack, FallenBack, UndoSteps, BeforeMenu
<1>3. CASE MakePrivate \/ EnterNewRoot \/ Pivot \/ AfterPivot
  <2>1. extracted /\ mounts = {"tmpfs"} \cup SourceSet /\ mounted = 4
    BY <1>3
    DEF MakePrivate, EnterNewRoot, Pivot, AfterPivot, RamInv, Complete
  <2>2. pc' \in {"enterNewRoot", "pivot", "leaveOldRoot", "execStage2",
                 "stage2", "rebooting", "undoBind", "backToRoot"}
    BY <1>3 DEF MakePrivate, EnterNewRoot, Pivot, AfterPivot, Goto
  <2> QED
    BY <1>1, <2>1, <2>2, BoundGrows
    DEF RamInv, NothingMounted, Growing, Complete, RollingBack, FallenBack,
        UndoSteps, BeforeMenu
<1> QED
  BY <1>2, <1>3

\* One bind mount less to undo, whether or not it could be undone.
LEMMA RamUndo ==
  ASSUME TypeOK, RamInv, UndoBind
  PROVE  RamInv'
<1>1. /\ mounts \subseteq {"tmpfs"} \cup Bound(mounted) \cup Busy
      /\ mounted \in 0..4 /\ UNCHANGED inNewRoot /\ Busy' = Busy
  BY BoundGrows DEF UndoBind, RamInv, RollingBack, UndoSteps, TypeOK, Busy
<1>2. CASE mounted = 0
  BY <1>1, <1>2
  DEF UndoBind, Goto, RamInv, NothingMounted, Growing, Complete, RollingBack,
      FallenBack, UndoSteps, BeforeMenu
<1>3. CASE mounted # 0
  <2>1. /\ mounted' = mounted - 1 /\ pc' = "undoBind"
        /\ mounts' = mounts \ ({Sources[mounted]} \ Busy)
    BY <1>3 DEF UndoBind
  <2>2. mounted' \in 0..3 /\ mounted = mounted' + 1
    BY <1>1, <1>3, <2>1
  <2>3. Bound(mounted) = Bound(mounted') \cup {Sources[mounted]}
    BY <2>2, BoundGrows
  <2>4. mounts' \subseteq {"tmpfs"} \cup Bound(mounted') \cup Busy
    BY <1>1, <2>1, <2>3
  <2> QED
    BY <1>1, <2>1, <2>4
    DEF RamInv, NothingMounted, Growing, Complete, RollingBack, FallenBack,
        UndoSteps, BeforeMenu
<1> QED
  BY <1>2, <1>3

\* A tmpfs stays only below a mount that stays or if / was not reached.
LEMMA RamUndoTmpfs ==
  ASSUME RamInv, UndoTmpfs
  PROVE  RamInv'
<1>1. /\ mounted = 0 /\ mounts \subseteq {"tmpfs"} \cup Busy
      /\ pc' = "execOriginal" /\ UNCHANGED <<inNewRoot, mounted>>
      /\ Busy' = Busy
      /\ mounts' = IF mounts = {"tmpfs"} /\ ~inNewRoot THEN {} ELSE mounts
  BY BoundGrows DEF UndoTmpfs, Goto, RamInv, RollingBack, UndoSteps, Busy
<1>2. mounts' # {} => inNewRoot' \/ mounts' \cap Busy # {}
  BY <1>1
<1> QED
  BY <1>1, <1>2
  DEF RamInv, NothingMounted, Growing, Complete, RollingBack, FallenBack,
      UndoSteps, BeforeMenu

-----------------------------------------------------------------------------
(* The disk's root.                                                         *)

LEMMA HostInit == Init => HostKept
BY DEF Init, HostKept, UpToChoice, BeforeMenu, RamSteps, AllOnHost

\* The steps up to the choice leave it alone, and the way on is the shell's.
LEMMA HostBefore ==
  ASSUME TypeOK, MenuInv, HostKept,
         \/ (\E triggered \in BOOLEAN : Dispatch(triggered)) \/ ExecStage1
         \/ OpenConsole \/ LoadConfig \/ Act \/ Tick
         \/ (\E key \in Keys : Type(key)) \/ ReadMenu \/ MenuTimesOut
         \/ MenuLosesConsole
  PROVE  HostKept'
<1>1. /\ UNCHANGED <<found, added, private>>
      /\ pc \in UpToChoice
  BY DEF Dispatch, ExecStage1, OpenConsole, LoadConfig, Act, Tick, Type,
         ReadMenu, MenuTimesOut, MenuLosesConsole, UpToChoice, BeforeMenu
<1>2. added = {} /\ ~private
  BY <1>1 DEF HostKept
<1>3. CASE Act
  <2>1. choice \in Choices /\ choice' = choice
    BY <1>3 DEF Act, MenuInv, MenuIsOver, TypeOK, menu
  <2>2. \/ pc' \in {"execOriginal", "poweredOff"}
        \/ pc' = "verify" /\ choice = "shell"
    BY <1>3, <2>1 DEF Act, Goto, Choices
  <2> QED
    BY <1>1, <1>2, <2>1, <2>2
    DEF HostKept, UpToChoice, BeforeMenu, RamSteps, AllOnHost
<1>4. CASE ~Act
  <2>1. pc' \in UpToChoice \cup {"execOriginal"}
    BY <1>4
    DEF Dispatch, ExecStage1, OpenConsole, LoadConfig, Tick, Type, ReadMenu,
        MenuTimesOut, MenuLosesConsole, UpToChoice, BeforeMenu, Goto
  <2> QED
    BY <1>1, <1>2, <2>1
    DEF HostKept, UpToChoice, BeforeMenu, RamSteps, AllOnHost
<1> QED
  BY <1>3, <1>4

LEMMA HostTransition ==
  ASSUME HostKept, Transition
  PROVE  HostKept'
<1>1. UNCHANGED <<found, choice>>
  BY DEF Transition, ExecOriginal, Prepare, MountOnHost, HostMountsDone,
         MountTmpfs, Extract, OldRootDir, Bind, MakePrivate, EnterNewRoot,
         Pivot, AfterPivot, BackToRoot, UndoBind, UndoTmpfs, menu
<1>2. CASE MountOnHost
  <2>1. /\ pc = "hostMounts" /\ pc' = pc /\ private' = private
        /\ \E i \in DOMAIN HostOrder :
             HostOrder[i] \notin found \cup added
      BY <1>2 DEF MountOnHost
  <2>2. choice = "shell"
    BY <2>1 DEF HostKept, RamSteps
  <2>3. \E source : added' = added \cup {source}
    BY <1>2 DEF MountOnHost
  <2>4. ASSUME private PROVE found' \cup added' = SourceSet
    <3>1. found \cup added = SourceSet
      BY <2>4 DEF HostKept
    <3> QED
      BY <2>1, <3>1, HostSources
  <2> QED
    BY <1>1, <2>1, <2>2, <2>4
    DEF HostKept, UpToChoice, BeforeMenu, RamSteps, AllOnHost
<1>3. CASE MakePrivate
  <2>1. /\ pc = "private" /\ pc' \in {"enterNewRoot", "undoBind"}
        /\ added' = added
    BY <1>3 DEF MakePrivate, Goto
  <2>2. choice = "shell" /\ found \cup added = SourceSet
    BY <2>1 DEF HostKept, RamSteps, AllOnHost
  <2> QED
    BY <1>1, <2>1, <2>2
    DEF HostKept, UpToChoice, BeforeMenu, RamSteps, AllOnHost
<1>4. CASE ~MountOnHost /\ ~MakePrivate
  <2>1. UNCHANGED <<added, private>>
    BY <1>4
    DEF Transition, ExecOriginal, Prepare, HostMountsDone, MountTmpfs, Extract,
        OldRootDir, Bind, EnterNewRoot, Pivot, AfterPivot, BackToRoot,
        UndoBind, UndoTmpfs
  <2>2. /\ pc' \notin UpToChoice
        /\ pc' \in RamSteps => pc \in RamSteps
        /\ pc' \in AllOnHost =>
             pc \in AllOnHost \/ found \cup added = SourceSet
    BY <1>4
    DEF Transition, ExecOriginal, Prepare, HostMountsDone, MountTmpfs, Extract,
        OldRootDir, Bind, EnterNewRoot, Pivot, AfterPivot, BackToRoot,
        UndoBind, UndoTmpfs, Goto, UpToChoice, BeforeMenu, RamSteps, AllOnHost
  <2> QED
    BY <1>1, <2>1, <2>2 DEF HostKept
<1> QED
  BY <1>2, <1>3, <1>4

-----------------------------------------------------------------------------
(* The theorems.                                                            *)

Inv == TypeOK /\ MenuInv /\ RamInv /\ HostKept

LEMMA InvStep == Inv /\ [Next]_vars => Inv'
<1> SUFFICES ASSUME Inv, [Next]_vars PROVE Inv'
  OBVIOUS
<1>1. /\ TypeOK /\ MenuInv /\ RamInv /\ HostKept /\ MenuIsOver
      /\ pc = "menu" => FirstTyped
  BY DEF Inv, MenuInv, MenuGoesOn
<1>2. CASE (\E triggered \in BOOLEAN : Dispatch(triggered)) \/ ExecStage1
             \/ OpenConsole \/ Act
  BY <1>1, <1>2, TypeBefore, MenuBefore, RamBefore, HostBefore DEF Inv
<1>3. CASE LoadConfig
  BY <1>1, <1>3, TypeBefore, MenuLoads, RamBefore, HostBefore DEF Inv
<1>4. CASE Tick \/ (\E key \in Keys : Type(key))
  BY <1>1, <1>4, TypeMenu, MenuWaits, RamBefore, HostBefore DEF Inv
<1>5. CASE ReadMenu \/ MenuTimesOut \/ MenuLosesConsole
  BY <1>1, <1>5, TypeMenu, MenuChooses, RamBefore, HostBefore DEF Inv
<1>6. CASE Transition
  <2>1. TypeOK' /\ MenuInv'
    BY <1>1, <1>6, TypeTransition, MenuBefore
  <2>2. RamInv'
    BY <1>1, <1>6, RamBefore, RamEnds, RamTmpfs, RamBind, RamEnter, RamUndo,
       RamUndoTmpfs
    DEF Transition
  <2>3. HostKept'
    BY <1>1, <1>6, HostTransition
  <2> QED
    BY <2>1, <2>2, <2>3 DEF Inv
<1>7. CASE UNCHANGED vars
  BY <1>1, <1>7
  DEF Inv, vars, menu, mnt, TypeOK, MenuInv, MenuIsNew, MenuGoesOn,
      FirstTyped, MenuIsOver, Loaded, MenuTakesFirstChoice,
      MenuWaitsItsTimeout, RamInv, NothingMounted, Growing, Complete,
      RollingBack, FallenBack, HostKept, Busy
<1> QED
  BY <1>2, <1>3, <1>4, <1>5, <1>6, <1>7 DEF Next, Pid1, Done, Transition

THEOREM Invariant == Spec => []Inv
<1>1. Init => Inv
  BY TypeInit, MenuInit, RamInit, HostInit DEF Inv
<1> QED BY <1>1, InvStep, PTL DEF Spec

\* Every variable of a boot keeps its type, and process 1 is on the RAM root
\* exactly after the pivot.
THEOREM TypeCorrect == Spec => []TypeOK
<1>1. Inv => TypeOK
  BY DEF Inv
<1> QED BY <1>1, Invariant, PTL

\* bp_stage1_run's menu acts on the first choice that is typed, and on the
\* default of a valid configuration or the normal boot if none is.
THEOREM FirstChoiceTaken == Spec => []MenuTakesFirstChoice
<1>1. Inv => MenuTakesFirstChoice
  BY DEF Inv, MenuInv
<1> QED BY <1>1, Invariant, PTL

\* The menu's deadline is taken once: what is typed does not put it off.
THEOREM TimeoutKept == Spec => []MenuWaitsItsTimeout
<1>1. Inv => MenuWaitsItsTimeout
  BY DEF Inv, MenuInv
<1> QED BY <1>1, Invariant, PTL

\* enter_ram_root's rollback: the original init runs on the disk and finds a
\* mount of the new root only where it was busy or / was not reached.  What
\* is mounted on the disk's root and the private propagation stay, and only
\* a boot sent to the shell can have left them.
THEOREM Fallback == Spec => []FallbackUndoesNewRoot
<1>1. Inv => FallbackUndoesNewRoot
  BY DEF Inv, TypeOK, RamInv, FallenBack, HostKept, FallbackUndoesNewRoot
<1> QED BY <1>1, Invariant, PTL

\* After the pivot the RAM root has the whole archive and all four mounts.
THEOREM RamRoot == Spec => []RamRootIsComplete
<1>1. Inv => RamRootIsComplete
  BY DEF Inv, TypeOK, RamInv, Complete, RamRootIsComplete
<1> QED BY <1>1, Invariant, PTL
=============================================================================
