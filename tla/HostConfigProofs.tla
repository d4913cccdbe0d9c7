--------------------------- MODULE HostConfigProofs ---------------------------
(***************************************************************************)
(* Proofs about HostConfig and the AtomicFile it is made of, for any       *)
(* number of processes, any texts and any failures.                        *)
(*                                                                         *)
(* The first half is about AtomicFile alone: its type invariant, that the  *)
(* file is never torn, that calls that end leave no temporary file, and    *)
(* that it implements AtomicCell.  The second half shows that the commands *)
(* and boots of HostConfig are such calls, so that all of that holds for   *)
(* them too, and what they make of the configuration.                      *)
(***************************************************************************)
EXTENDS HostConfig, ConfigFileProofs

-----------------------------------------------------------------------------
(* The inductive invariant, in named parts.                                 *)

\* The file has all its data, in both views.
FileIsWhole ==
  \A view \in {live[File], disk[File]} : view.synced /\ view.value # Torn

\* There is something to write until the call is left.
HasArgument ==
  \A p \in Procs :
    IF pc[p] \in Steps THEN given[p] \in Values ELSE given[p] = Missing

\* The temporary file has what it should have before it is renamed.
TemporaryIsReady ==
  \A p \in Procs :
    /\ pc[p] \in {"sync", "rename"} => live[p].value = given[p]
    /\ pc[p] = "rename" => live[p].synced

\* Once it is renamed it is no longer there.
TemporaryIsUsed ==
  \A p \in Procs : pc[p] = "syncParent" => live[p].value = Missing

Rest ==
  /\ FileIsWhole /\ HasArgument /\ TemporaryIsReady /\ TemporaryIsUsed
  /\ TemporaryIsGone
-----------------------------------------------------------------------------
(* Type correctness.                                                        *)

LEMMA NoFileIsContent == NoFile \in Contents
BY DEF NoFile, Content, Contents

LEMMA LeftIsContent ==
  ASSUME NEW c \in Contents, NEW name
  PROVE  Left(name, c) \in Contents /\ AfterCrash(c) \in Contents
BY DEF Left, AfterCrash, Content, Contents

LEMMA EntriesType ==
  ASSUME live \in [Names -> Contents], disk \in [Names -> Contents], NEW names
  PROVE  /\ Persist(Entries, disk, names) \in [Names -> Contents]
         /\ \A name \in Names :
              Persist(Entries, disk, names)[name] =
                IF name \in names THEN Left(name, live[name]) ELSE disk[name]
BY LeftIsContent DEF Entries, Persist

LEMMA TypeInit == Init => FileTypeOK
BY NoFileIsContent
DEF Init, FileTypeOK, Contents, Content, NoFile, Ended, Names

LEMMA TypeStep == FileTypeOK /\ [Next]_vars => FileTypeOK'
<1>. SUFFICES ASSUME FileTypeOK, [Next]_vars PROVE FileTypeOK'
  OBVIOUS
<1>. USE DEF FileTypeOK
<1>0. File \in Names /\ Procs \subseteq Names
  BY DEF Names
<1>1. ASSUME NEW p \in Procs, NEW v \in Values, Begin(p, v) PROVE FileTypeOK'
  BY <1>1 DEF Begin, Steps
<1>2. ASSUME NEW p \in Procs, WriteStep(p) PROVE FileTypeOK'
  <2>1. CASE Open(p)
    <3>1. Content(Torn, FALSE) \in Contents
      BY DEF Content, Contents
    <3>. QED
      BY <2>1, <3>1, <1>0 DEF Open, Leave, Steps
  <2>2. CASE Write(p)
    <3>1. [live[p] EXCEPT !.value = given[p]] \in Contents
      BY <1>0 DEF Contents
    <3>. QED
      BY <2>2, <3>1, <1>0 DEF Write, Steps
  <2>3. CASE SyncFile(p)
    <3>1. [live[p] EXCEPT !.synced = TRUE] \in Contents
      BY <1>0 DEF Contents
    <3>. QED
      BY <2>3, <3>1, <1>0 DEF SyncFile, Steps
  <2>4. CASE Rename(p)
    BY <2>4, <1>0, NoFileIsContent DEF Rename, Steps
  <2>5. CASE SyncParent(p)
    BY <2>5, EntriesType DEF SyncParent, Leave, Ended
  <2>6. CASE Fail(p)
    BY <2>6 DEF Fail, Leave
  <2>7. CASE Cleanup(p)
    BY <2>7, <1>0, NoFileIsContent DEF Cleanup, Ended
  <2>. QED
    BY <1>2, <2>1, <2>2, <2>3, <2>4, <2>5, <2>6, <2>7 DEF WriteStep
<1>3. ASSUME NEW p \in Procs, Killed(p) PROVE FileTypeOK'
  BY <1>3, <1>0, LeftIsContent DEF Killed, Leave, Ended
<1>4. ASSUME NEW name \in Names, Writeback(name) PROVE FileTypeOK'
  BY <1>4, EntriesType DEF Writeback
<1>5. CASE Crash
  BY <1>5, LeftIsContent DEF Crash, Ended
<1>6. CASE UNCHANGED vars
  BY <1>6 DEF vars
<1>. QED
  BY <1>1, <1>2, <1>3, <1>4, <1>5, <1>6 DEF Next

\* Every variable has its shape in every reachable state.
THEOREM TypeCorrect == Spec => []FileTypeOK
<1>. QED
  BY TypeInit, TypeStep, PTL DEF Spec

-----------------------------------------------------------------------------
(* The invariant.                                                           *)

LEMMA RestInit == Init => Rest
BY NamesAssumption
DEF Init, Rest, FileIsWhole, HasArgument, TemporaryIsReady, TemporaryIsUsed,
    TemporaryIsGone, Content, NoFile, Names, Steps

LEMMA RestStep == FileTypeOK /\ Rest /\ [Next]_vars => Rest'
<1>. SUFFICES ASSUME FileTypeOK, Rest, [Next]_vars PROVE Rest'
  OBVIOUS
<1>. USE NamesAssumption
     DEF FileTypeOK, Rest, FileIsWhole, HasArgument, TemporaryIsReady,
         TemporaryIsUsed, TemporaryIsGone, Steps, Ended
<1>0. File \in Names /\ Procs \subseteq Names
  BY DEF Names
<1>1. ASSUME NEW p \in Procs, NEW v \in Values, Begin(p, v) PROVE Rest'
  BY <1>1 DEF Begin
<1>2. ASSUME NEW p \in Procs, WriteStep(p) PROVE Rest'
  <2>1. CASE Open(p)
    BY <2>1, <1>0 DEF Open, Leave, Content
  <2>2. CASE Write(p)
    BY <2>2, <1>0 DEF Write, Contents
  <2>3. CASE SyncFile(p)
    BY <2>3, <1>0 DEF SyncFile, Contents
  <2>4. CASE Rename(p)
    BY <2>4, <1>0 DEF Rename, NoFile, Content
  <2>5. CASE SyncParent(p)
    <3>1. disk'[File] = live[File] /\ UNCHANGED live
      BY <2>5, <1>0, EntriesType DEF SyncParent, Left
    <3>. QED
      BY <2>5, <3>1 DEF SyncParent, Leave
  <2>6. CASE Fail(p)
    BY <2>6 DEF Fail, Leave
  <2>7. CASE Cleanup(p)
    BY <2>7, <1>0 DEF Cleanup, NoFile, Content
  <2>. QED
    BY <1>2, <2>1, <2>2, <2>3, <2>4, <2>5, <2>6, <2>7 DEF WriteStep
<1>3. ASSUME NEW p \in Procs, Killed(p) PROVE Rest'
  BY <1>3, <1>0 DEF Killed, Leave, Left
<1>4. ASSUME NEW name \in Names, Writeback(name) PROVE Rest'
  <2>1. disk'[File] = disk[File] \/ disk'[File] = live[File]
    <3>1. disk'[File] =
            IF File \in {name} THEN Left(File, live[File]) ELSE disk[File]
      BY <1>4, <1>0, EntriesType DEF Writeback
    <3>. QED
      BY <3>1 DEF Left
  <2>2. FileIsWhole'
    BY <1>4, <2>1 DEF Writeback
  <2>3. live' = live /\ pc' = pc /\ given' = given
    BY <1>4 DEF Writeback
  <2>. QED
    BY <2>2, <2>3
<1>5. CASE Crash
  <2>1. live'[File] = disk[File] /\ disk'[File] = disk[File]
    BY <1>5, <1>0 DEF Crash, AfterCrash
  <2>2. \A p \in Procs : pc'[p] = "idle" /\ given'[p] = Missing
    BY <1>5 DEF Crash
  <2>. QED
    BY <2>1, <2>2
<1>6. CASE UNCHANGED vars
  BY <1>6 DEF vars
<1>. QED
  BY <1>1, <1>2, <1>3, <1>4, <1>5, <1>6 DEF Next

LEMMA Invariance == Spec => [](FileTypeOK /\ Rest)
<1>. QED
  BY TypeInit, TypeStep, RestInit, RestStep, PTL DEF Spec

\* bp_atomic_write is atomic: no reader and no power failure ever meets a
\* part of what was to be written.
THEOREM NotTorn == Spec => []NeverTorn
<1>1. FileTypeOK /\ Rest => NeverTorn
  BY NamesAssumption DEF Rest, FileIsWhole, NeverTorn, AfterCrash
<1>. QED
  BY <1>1, Invariance, PTL

\* A call that has ended by itself has no temporary file, also where a killed
\* process had left one in its way.
THEOREM NoTemporaryLeft == Spec => []TemporaryIsGone
<1>1. Rest => TemporaryIsGone
  BY DEF Rest
<1>. QED
  BY <1>1, Invariance, PTL

-----------------------------------------------------------------------------
(* The refinement of AtomicCell.                                            *)

LEMMA CellInit == Init => Cell!Init
<1>. SUFFICES ASSUME Init PROVE Cell!Init
  OBVIOUS
<1>1. \A p \in Procs : StateOf(pc[p]) = "idle"
  BY DEF Init, StateOf, Ended
<1>. QED
  BY <1>1 DEF Init, Cell!Init, Content, Names

\* What changes at one process changes the state of that process only.
LEMMA StateOfProcess ==
  ASSUME FileTypeOK, NEW p \in Procs, NEW step, pc' = [pc EXCEPT ![p] = step]
  PROVE  [q \in Procs |-> StateOf(pc'[q])] =
           [[q \in Procs |-> StateOf(pc[q])] EXCEPT ![p] = StateOf(step)]
BY DEF FileTypeOK

LEMMA CellStep ==
  FileTypeOK /\ Rest /\ [Next]_vars => [Cell!Next]_(Cell!vars)
<1>. SUFFICES ASSUME FileTypeOK, Rest, [Next]_vars
              PROVE  [Cell!Next]_(Cell!vars)
  OBVIOUS
<1>. USE NamesAssumption DEF FileTypeOK
<1>0. File \in Names /\ Procs \subseteq Names
  BY DEF Names
<1>1. ASSUME NEW p \in Procs, NEW v \in Values, Begin(p, v)
      PROVE  [Cell!Next]_(Cell!vars)
  <2>1. Cell!Ask(p, v)
    BY <1>1, StateOfProcess DEF Begin, Cell!Ask, Cell!AtRest, StateOf, Ended
  <2>. QED
    BY <2>1 DEF Cell!Next
<1>2. ASSUME NEW p \in Procs, WriteStep(p) PROVE [Cell!Next]_(Cell!vars)
  <2>1. CASE Open(p)
    <3>1. CASE live[p].value = Missing
      <4>1. UNCHANGED Cell!vars
        BY <2>1, <3>1, <1>0, StateOfProcess
        DEF Open, Cell!vars, StateOf, Ended
      <4>. QED
        BY <4>1
    <3>2. CASE live[p].value # Missing
      <4>1. Cell!GiveUp(p)
        BY <2>1, <3>2, StateOfProcess
        DEF Open, Leave, Cell!GiveUp, Cell!Rest, StateOf, Ended
      <4>. QED
        BY <4>1 DEF Cell!Next
    <3>. QED
      BY <3>1, <3>2
  <2>2. CASE Write(p)
    <3>1. UNCHANGED Cell!vars
      BY <2>2, <1>0, StateOfProcess DEF Write, Cell!vars, StateOf, Ended
    <3>. QED
      BY <3>1
  <2>3. CASE SyncFile(p)
    <3>1. UNCHANGED Cell!vars
      BY <2>3, <1>0, StateOfProcess DEF SyncFile, Cell!vars, StateOf, Ended
    <3>. QED
      BY <3>1
  <2>4. CASE Rename(p)
    <3>1. Cell!Put(p)
      BY <2>4, <1>0, StateOfProcess
      DEF Rename, Cell!Put, StateOf, Ended, Rest, TemporaryIsReady
    <3>. QED
      BY <3>1 DEF Cell!Next
  <2>5. CASE SyncParent(p)
    <3>1. Cell!Finish(p)
      BY <2>5, <1>0, EntriesType, StateOfProcess
      DEF SyncParent, Leave, Cell!Finish, Cell!Rest, StateOf, Ended, Left
    <3>. QED
      BY <3>1 DEF Cell!Next
  <2>6. CASE Fail(p)
    <3>1. Cell!GiveUp(p)
      BY <2>6, StateOfProcess
      DEF Fail, Leave, Cell!GiveUp, Cell!Rest, StateOf, Ended, Steps
    <3>. QED
      BY <3>1 DEF Cell!Next
  <2>7. CASE Cleanup(p)
    <3>1. UNCHANGED Cell!vars
      BY <2>7, <1>0, StateOfProcess DEF Cleanup, Cell!vars, StateOf, Ended
    <3>. QED
      BY <3>1
  <2>. QED
    BY <1>2, <2>1, <2>2, <2>3, <2>4, <2>5, <2>6, <2>7 DEF WriteStep
<1>3. ASSUME NEW p \in Procs, Killed(p) PROVE [Cell!Next]_(Cell!vars)
  <2>1. Cell!Killed(p)
    BY <1>3, <1>0, StateOfProcess
    DEF Killed, Leave, Cell!Killed, Cell!Rest, StateOf, Ended
  <2>. QED
    BY <2>1 DEF Cell!Next
<1>4. ASSUME NEW name \in Names, Writeback(name)
      PROVE  [Cell!Next]_(Cell!vars)
  <2>1. disk'[File] = disk[File] \/ disk'[File] = live[File]
    <3>1. disk'[File] =
            IF File \in {name} THEN Left(File, live[File]) ELSE disk[File]
      BY <1>4, <1>0, EntriesType DEF Writeback
    <3>. QED
      BY <3>1 DEF Left
  <2>2. Cell!Keep \/ UNCHANGED Cell!vars
    BY <1>4, <2>1 DEF Writeback, Cell!Keep, Cell!vars
  <2>. QED
    BY <2>2 DEF Cell!Next
<1>5. ASSUME Crash PROVE [Cell!Next]_(Cell!vars)
  <2>1. disk'[File] = disk[File] /\ live'[File] = disk[File]
    BY <1>5, <1>0 DEF Crash, AfterCrash, Rest, FileIsWhole
  <2>2. \A p \in Procs : StateOf(pc'[p]) = "idle"
    BY <1>5 DEF Crash, StateOf, Ended
  <2>3. Cell!PowerLoss
    BY <1>5, <2>1, <2>2 DEF Crash, Cell!PowerLoss
  <2>. QED
    BY <2>3 DEF Cell!Next
<1>6. CASE UNCHANGED vars
  BY <1>6 DEF vars, Cell!vars
<1>. QED
  BY <1>1, <1>2, <1>3, <1>4, <1>5, <1>6 DEF Next

\* The calls of any number of processes, their failures and power failures
\* implement the cell that changes in one step and keeps what it reports.
THEOREM Implements == Spec => ImplementsCell
<1>. QED
  BY CellInit, CellStep, Invariance, PTL DEF Spec, ImplementsCell, Cell!Spec

-----------------------------------------------------------------------------
(* Configurations and texts of HostConfig.                                  *)

\* What a command or an ensure may write.
Formatted == {HostFormat(config) : config \in HostConfigs}

LEMMA LegalHostConfig ==
  ASSUME NEW config PROVE LegalConfig("host", config) <=> config \in HostConfigs
<1>1. DOMAIN Default("host") = {"version", "timeout", "default"}
  BY DEF Default, HostDefault
<1>2. ASSUME LegalConfig("host", config) PROVE config \in HostConfigs
  <2>1. config = [key \in {"version", "timeout", "default"} |-> config[key]]
    BY <1>1, <1>2 DEF LegalConfig
  <2>2. /\ config["version"] = Version
        /\ config["timeout"] \in Timeouts
        /\ config["default"] \in BootChoices
    BY <1>1, <1>2 DEF LegalConfig, Legal, HostLegal
  <2>. HIDE DEF Timeouts, BootChoices, Version
  <2>3. config = [version |-> config["version"], timeout |-> config["timeout"],
                  default |-> config["default"]]
    BY <2>1
  <2>. QED
    BY <2>2, <2>3 DEF HostConfigs
<1>3. ASSUME config \in HostConfigs PROVE LegalConfig("host", config)
  BY <1>1, <1>3 DEF HostConfigs, LegalConfig, Legal, HostLegal
<1>. QED
  BY <1>2, <1>3

\* What is written for a configuration.
LEMMA FormatFacts ==
  ASSUME NEW config, LegalConfig("host", config)
  PROVE  /\ HostFormat(config) \in Formatted
         /\ WellFormed("host", HostFormat(config))
         /\ Meaning("host", HostFormat(config)) = config
BY LegalHostConfig, FormatMeans DEF Formatted

LEMMA FormattedFacts ==
  ASSUME NEW text \in Formatted
  PROVE  /\ text \in Values /\ text # Missing
         /\ WellFormed("host", text)
BY LegalHostConfig, FormatFacts, TextsAssumption, NamesAssumption DEF Formatted

\* What load_host_config makes of the file.
LEMMA LoadFacts ==
  ASSUME NEW content \in Contents, content.value # Torn
  PROVE  /\ content.value = Missing =>
              Load(content).ok /\ Load(content).config = HostDefault
         /\ content.value # Missing =>
              /\ content.value \in Values
              /\ Load(content).ok <=> WellFormed("host", content.value)
              /\ Load(content).ok =>
                   Load(content).config = Meaning("host", content.value)
         /\ Load(content).ok => LegalConfig("host", Load(content).config)
<1>1. CASE content.value = Missing
  <2>1. LegalConfig("host", HostDefault)
    BY DefaultIsLegal DEF Default
  <2>2. Load(content) = [ok |-> TRUE, seen |-> {}, config |-> HostDefault]
    BY <1>1 DEF Load
  <2>. QED
    BY <1>1, <2>1, <2>2
<1>2. CASE content.value # Missing
  <2>1. content.value \in Values /\ IsText(content.value)
    BY <1>2, TextsAssumption DEF Contents
  <2>2. Load(content) = Parse("host", content.value)
    BY <1>2 DEF Load, HostParse
  <2>3. /\ Load(content).ok <=> WellFormed("host", content.value)
        /\ Load(content).ok =>
             Load(content).config = Meaning("host", content.value)
    BY <2>1, <2>2, ParserIsRight
  <2>. QED
    BY <1>2, <2>1, <2>3, MeaningIsLegal
<1>. QED
  BY <1>1, <1>2

-----------------------------------------------------------------------------
(* The inductive invariant of HostConfig, in named parts.                   *)

HostTypes ==
  /\ phase \in {"booting", "menu", "up"}
  /\ change \in [Procs -> Requests \cup {NoOptions}]
  /\ overtaken \in [Procs -> BOOLEAN]
  /\ reported \in Formatted \cup {Missing}

\* Commands run when the host is up.
OnlyWhenUp == (\E p \in Procs : pc[p] \notin Ended) => phase = "up"

MenuIsRead ==
  /\ LegalConfig("host", menu)
  /\ phase = "menu" => menu = MenuConfig(live[File])

\* A text that changes another one by the options it was asked for only.
Asked(text, new, options) ==
  \/ /\ text = Missing
     /\ Meaning("host", new) = Updated(HostDefault, options)
  \/ /\ options # NoOptions
     /\ WellFormed("host", text)
     /\ Meaning("host", new) = Updated(Meaning("host", text), options)

\* From the call to the rename, unless another process gets in between.
AskedUntilRenamed ==
  \A p \in Procs :
    pc[p] \in Steps => given[p] \in Formatted
                       /\ (pc[p] # "syncParent" /\ ~overtaken[p] =>
                             Asked(live[File].value, given[p], change[p]))

\* From the rename to the report, unless another process gets in between.
ThereOnceRenamed ==
  \A p \in Procs :
    pc[p] = "syncParent" /\ ~overtaken[p] => live[File].value = given[p]

ReportIsThere ==
  reported # Missing =>
    live[File].value = reported /\ disk[File].value = reported

HostRest ==
  /\ HostTypes /\ OnlyWhenUp /\ MenuIsRead /\ AskedUntilRenamed
  /\ ThereOnceRenamed /\ ReportIsThere

HostInvariant == FileTypeOK /\ Rest /\ HostRest

LEMMA HostInitial == HostInit => Init /\ HostRest
<1>. SUFFICES ASSUME HostInit PROVE Init /\ HostRest
  OBVIOUS
<1>1. Init
  BY TextsAssumption DEF HostInit, Init
<1>2. LegalConfig("host", HostDefault)
  BY DefaultIsLegal DEF Default
<1>3. HostTypes /\ OnlyWhenUp /\ AskedUntilRenamed /\ ThereOnceRenamed
      /\ ReportIsThere
  BY DEF HostInit, HostTypes, OnlyWhenUp, AskedUntilRenamed,
         ThereOnceRenamed, ReportIsThere, Ended, Steps
<1>. QED
  BY <1>1, <1>2, <1>3 DEF HostRest, HostInit, MenuIsRead

-----------------------------------------------------------------------------
(* What a step of a call may do to the file and to the calls.               *)

LEMMA StepEffect ==
  ASSUME FileTypeOK, Rest, NEW p \in Procs, WriteStep(p) \/ Killed(p)
  PROVE  /\ pc[p] \notin Ended
         /\ \A q \in Procs : q # p => pc'[q] = pc[q] /\ given'[q] = given[q]
         /\ Rename(p) =>
              /\ pc[p] = "rename" /\ pc'[p] = "syncParent"
              /\ live'[File].value = given[p] /\ given'[p] = given[p]
         /\ ~Rename(p) =>
              /\ live'[File] = live[File]
              /\ pc'[p] \in Steps =>
                   /\ pc[p] \in Steps \ {"syncParent"} /\ pc'[p] # "syncParent"
                   /\ given'[p] = given[p]
              /\ disk'[File] \in {disk[File], live[File]}
              /\ SyncParent(p) =>
                   pc[p] = "syncParent" /\ disk'[File] = live[File]
<1>. USE NamesAssumption DEF FileTypeOK
<1>0. File \in Names /\ Procs \subseteq Names /\ File # p
  BY DEF Names
<1>1. CASE Open(p)
  BY <1>1, <1>0 DEF Open, Leave, Steps, Ended, Rename, SyncParent
<1>2. CASE Write(p)
  BY <1>2, <1>0 DEF Write, Steps, Ended, Rename, SyncParent
<1>3. CASE SyncFile(p)
  BY <1>3, <1>0 DEF SyncFile, Steps, Ended, Rename, SyncParent
<1>4. CASE Rename(p)
  BY <1>4, <1>0 DEF Rename, Steps, Ended, Rest, TemporaryIsReady
<1>5. CASE SyncParent(p)
  <2>1. disk'[File] = live[File] /\ live' = live
    BY <1>5, <1>0, EntriesType DEF SyncParent, Left
  <2>. QED
    BY <1>5, <2>1 DEF SyncParent, Leave, Steps, Ended, Rename
<1>6. CASE Fail(p)
  BY <1>6 DEF Fail, Leave, Steps, Ended, Rename, SyncParent
<1>7. CASE Cleanup(p)
  BY <1>7, <1>0 DEF Cleanup, Steps, Ended, Rename, SyncParent
<1>8. CASE Killed(p)
  BY <1>8, <1>0 DEF Killed, Leave, Steps, Ended, Rename, SyncParent
<1>. QED
  BY <1>1, <1>2, <1>3, <1>4, <1>5, <1>6, <1>7, <1>8 DEF WriteStep

-----------------------------------------------------------------------------
(* The steps.                                                               *)

\* A new call, for options or none: what is true of it and of the others.
LEMMA CallStep ==
  ASSUME HostInvariant, NEW p \in Procs, NEW options, NEW text \in Formatted,
         options \in Requests \cup {NoOptions},
         Asked(live[File].value, text, options), Call(p, options, text)
  PROVE  HostRest' /\ [Next]_vars
<1>. USE DEF HostInvariant, HostRest, FileTypeOK, HostTypes
<1>1. /\ phase = "up" /\ phase' = phase /\ menu' = menu
      /\ reported' = reported /\ live' = live /\ disk' = disk
      /\ pc[p] \in Ended /\ pc' = [pc EXCEPT ![p] = "open"]
      /\ given' = [given EXCEPT ![p] = text]
      /\ change' = [change EXCEPT ![p] = options]
      /\ overtaken' = [overtaken EXCEPT ![p] = FALSE]
  BY DEF Call, Begin, readers
<1>2. [Next]_vars
  <2>1. text \in Values /\ Begin(p, text)
    BY FormattedFacts DEF Call
  <2>. QED
    BY <2>1 DEF Next
<1>3. HostTypes' /\ OnlyWhenUp' /\ ReportIsThere'
  BY <1>1 DEF OnlyWhenUp, ReportIsThere
<1>4. MenuIsRead'
  BY <1>1 DEF MenuIsRead, MenuConfig, Load
<1>5. AskedUntilRenamed'
  BY <1>1 DEF AskedUntilRenamed, Asked
<1>6. ThereOnceRenamed'
  BY <1>1 DEF ThereOnceRenamed
<1>. QED
  BY <1>2, <1>3, <1>4, <1>5, <1>6

LEMMA ConfigStep ==
  ASSUME HostInvariant, NEW p \in Procs, NEW options \in Requests,
         Config(p, options)
  PROVE  HostRest' /\ [Next]_vars
<1>. DEFINE old == Load(live[File]).config
            text == HostFormat(Updated(old, options))
<1>1. live[File] \in Contents /\ live[File].value # Torn
  BY DEF HostInvariant, FileTypeOK, Rest, FileIsWhole, Names
<1>2. Load(live[File]).ok /\ Accepted(options) /\ Call(p, options, text)
  BY DEF Config
<1>3. LegalConfig("host", Updated(old, options))
  BY <1>1, <1>2, LoadFacts, UpdateIsLegal DEF Accepted, Legal
<1>. HIDE DEF old
<1>4. /\ text \in Formatted
      /\ Meaning("host", text) = Updated(old, options)
  BY <1>3, FormatFacts
<1>5. Asked(live[File].value, text, options)
  BY <1>1, <1>2, <1>4, LoadFacts DEF Asked, Accepted, old
<1>. HIDE DEF text
<1>. QED
  BY <1>2, <1>4, <1>5, CallStep

LEMMA EnsureStep ==
  ASSUME HostInvariant, NEW p \in Procs, Ensure(p)
  PROVE  HostRest' /\ [Next]_vars
<1>. DEFINE text == HostFormat(HostDefault)
<1>1. live[File].value = Missing /\ Call(p, NoOptions, text)
  BY DEF Ensure
<1>2. /\ text \in Formatted
      /\ Meaning("host", text) = HostDefault
  BY DefaultIsLegal, FormatFacts DEF Default
<1>3. Updated(HostDefault, NoOptions) = HostDefault
  BY DEF Updated, NoOptions, HostDefault
<1>. HIDE DEF text
<1>4. Asked(live[File].value, text, NoOptions)
  BY <1>1, <1>2, <1>3 DEF Asked
<1>. QED
  BY <1>1, <1>2, <1>4, CallStep

LEMMA FileStepStep ==
  ASSUME HostInvariant, NEW p \in Procs, FileStep(p)
  PROVE  HostRest' /\ [Next]_vars
<1>. USE DEF HostInvariant, HostRest, FileTypeOK, HostTypes
<1>1. /\ WriteStep(p) \/ Killed(p)
      /\ change' = [change EXCEPT ![p] = IF Over(p) THEN NoOptions ELSE @]
      /\ overtaken' = [q \in Procs |->
                         IF Rename(p) THEN q # p /\ pc[q] \notin Ended
                         ELSE overtaken[q] /\ ~(q = p /\ Over(p))]
      /\ reported' = IF Rename(p) THEN Missing
                     ELSE IF SyncParent(p) /\ ~overtaken[p] THEN given[p]
                     ELSE reported
      /\ phase' = phase /\ menu' = menu
  BY DEF FileStep, readers
<1>2. [Next]_vars
  BY <1>1 DEF Next
<1>3. /\ pc[p] \notin Ended
      /\ \A q \in Procs : q # p => pc'[q] = pc[q] /\ given'[q] = given[q]
  BY <1>1, StepEffect
<1>4. phase = "up"
  BY <1>3 DEF OnlyWhenUp
<1>5. \A q \in Procs : q # p => change'[q] = change[q]
  BY <1>1
<1>6. MenuIsRead' /\ OnlyWhenUp'
  BY <1>1, <1>4 DEF MenuIsRead, OnlyWhenUp
<1>7. CASE Rename(p)
  <2>1. /\ pc[p] = "rename" /\ pc'[p] = "syncParent"
        /\ live'[File].value = given[p] /\ given'[p] = given[p]
    BY <1>1, <1>7, StepEffect
  <2>2. /\ \A q \in Procs : overtaken'[q] = (q # p /\ pc[q] \notin Ended)
        /\ reported' = Missing
    BY <1>1, <1>7
  <2>3. HostTypes'
    BY <1>1, <1>7, <2>2
  <2>4. AskedUntilRenamed'
    BY <1>3, <2>1, <2>2 DEF AskedUntilRenamed, Steps, Ended
  <2>5. ThereOnceRenamed'
    BY <1>3, <2>1, <2>2 DEF ThereOnceRenamed, Ended
  <2>6. ReportIsThere'
    BY <2>2 DEF ReportIsThere
  <2>. QED
    BY <1>2, <1>6, <2>3, <2>4, <2>5, <2>6
<1>8. CASE ~Rename(p)
  <2>1. /\ live'[File] = live[File]
        /\ pc'[p] \in Steps =>
             /\ pc[p] \in Steps \ {"syncParent"} /\ pc'[p] # "syncParent"
             /\ given'[p] = given[p]
        /\ disk'[File] \in {disk[File], live[File]}
        /\ SyncParent(p) => pc[p] = "syncParent" /\ disk'[File] = live[File]
    BY <1>1, <1>8, StepEffect
  <2>2. /\ \A q \in Procs : overtaken'[q] = (overtaken[q] /\ ~(q = p /\ Over(p)))
        /\ reported' = IF SyncParent(p) /\ ~overtaken[p] THEN given[p]
                       ELSE reported
    BY <1>1, <1>8
  <2>3. SyncParent(p) /\ ~overtaken[p] =>
          given[p] \in Formatted /\ live[File].value = given[p]
    BY <2>1 DEF AskedUntilRenamed, ThereOnceRenamed, Steps
  <2>4. HostTypes'
    BY <1>1, <1>8, <2>2, <2>3
  <2>5. pc'[p] \in Steps => ~Over(p)
    BY <2>1, NamesAssumption DEF Over, Rest, HasArgument
  <2>6. pc'[p] \in Steps => change'[p] = change[p] /\ overtaken'[p] = overtaken[p]
    BY <1>1, <2>2, <2>5
  <2>7. AskedUntilRenamed'
    BY <1>3, <1>5, <2>1, <2>2, <2>6 DEF AskedUntilRenamed
  <2>8. ThereOnceRenamed'
    BY <1>3, <2>1, <2>2 DEF ThereOnceRenamed, Steps
  <2>9. ReportIsThere'
    BY <2>1, <2>2, <2>3 DEF ReportIsThere
  <2>. QED
    BY <1>2, <1>6, <2>4, <2>7, <2>8, <2>9
<1>. QED
  BY <1>7, <1>8

LEMMA MachineStep ==
  ASSUME HostInvariant, Boot \/ HostUp \/ KernelWrites \/ PowerFails
  PROVE  HostRest' /\ [Next]_vars
<1>. USE DEF HostInvariant, HostRest, FileTypeOK, HostTypes
<1>0. File \in Names /\ live[File] \in Contents /\ live[File].value # Torn
  BY DEF Rest, FileIsWhole, Names
<1>1. CASE Boot
  <2>1. LegalConfig("host", MenuConfig(live[File]))
    BY <1>0, LoadFacts, DefaultIsLegal DEF MenuConfig, Default
  <2>2. UNCHANGED vars /\ UNCHANGED <<change, ghosts>>
        /\ phase = "booting" /\ phase' = "menu" /\ menu' = MenuConfig(live[File])
    BY <1>1 DEF Boot
  <2>3. MenuIsRead'
    BY <2>1, <2>2 DEF MenuIsRead, vars, MenuConfig, Load
  <2>. QED
    BY <2>2, <2>3
    DEF vars, ghosts, OnlyWhenUp, AskedUntilRenamed, ThereOnceRenamed,
        ReportIsThere, Asked
<1>2. CASE HostUp
  <2>1. LegalConfig("host", HostDefault)
    BY DefaultIsLegal DEF Default
  <2>2. MenuIsRead'
    BY <1>2, <2>1 DEF HostUp, MenuIsRead
  <2>. QED
    BY <1>2, <2>2
    DEF HostUp, vars, ghosts, OnlyWhenUp, AskedUntilRenamed, ThereOnceRenamed,
        ReportIsThere, Asked
<1>3. CASE KernelWrites
  <2>1. PICK name \in Names : Writeback(name)
    BY <1>3 DEF KernelWrites
  <2>2. /\ live' = live /\ pc' = pc /\ given' = given
        /\ phase' = phase /\ menu' = menu /\ change' = change
        /\ overtaken' = overtaken /\ reported' = reported
    BY <1>3, <2>1 DEF KernelWrites, Writeback, readers, ghosts
  <2>3. disk'[File] \in {disk[File], live[File]}
    <3>1. disk'[File] =
            IF File \in {name} THEN Left(File, live[File]) ELSE disk[File]
      BY <2>1, <1>0, EntriesType DEF Writeback
    <3>. QED
      BY <3>1 DEF Left
  <2>4. [Next]_vars
    BY <2>1 DEF Next
  <2>. QED
    BY <2>2, <2>3, <2>4
    DEF OnlyWhenUp, AskedUntilRenamed, ThereOnceRenamed, ReportIsThere, Asked,
        MenuIsRead, MenuConfig, Load
<1>4. CASE PowerFails
  <2>1. /\ Crash /\ phase' = "booting" /\ menu' = HostDefault
        /\ change' = [p \in Procs |-> NoOptions]
        /\ overtaken' = [p \in Procs |-> FALSE]
        /\ reported' = reported
    BY <1>4 DEF PowerFails
  <2>2. live'[File] = disk[File] /\ disk'[File] = disk[File]
    BY <2>1, <1>0 DEF Crash, AfterCrash, Rest, FileIsWhole
  <2>3. \A p \in Procs : pc'[p] = "idle"
    BY <2>1 DEF Crash
  <2>4. LegalConfig("host", HostDefault)
    BY DefaultIsLegal DEF Default
  <2>5. [Next]_vars
    BY <2>1 DEF Next
  <2>6. MenuIsRead' /\ OnlyWhenUp' /\ AskedUntilRenamed' /\ ThereOnceRenamed'
    BY <2>1, <2>3, <2>4
    DEF MenuIsRead, OnlyWhenUp, AskedUntilRenamed, ThereOnceRenamed, Ended, Steps
  <2>7. HostTypes' /\ ReportIsThere'
    BY <2>1, <2>2 DEF ReportIsThere
  <2>. QED
    BY <2>5, <2>6, <2>7
<1>. QED
  BY <1>1, <1>2, <1>3, <1>4

LEMMA HostStep == HostInvariant /\ [HostNext]_hostVars => HostInvariant' /\ [Next]_vars
<1>. SUFFICES ASSUME HostInvariant, [HostNext]_hostVars
              PROVE  HostInvariant' /\ [Next]_vars
  OBVIOUS
<1>1. HostRest' /\ [Next]_vars
  <2>1. CASE UNCHANGED hostVars
    BY <2>1
    DEF hostVars, vars, readers, ghosts, HostInvariant, HostRest, HostTypes,
        OnlyWhenUp, MenuIsRead, MenuConfig, Load, AskedUntilRenamed, Asked,
        ThereOnceRenamed, ReportIsThere
  <2>2. CASE HostNext
    BY <2>2, ConfigStep, EnsureStep, FileStepStep, MachineStep DEF HostNext
  <2>. QED
    BY <2>1, <2>2
<1>2. FileTypeOK' /\ Rest'
  BY <1>1, TypeStep, RestStep DEF HostInvariant
<1>. QED
  BY <1>1, <1>2 DEF HostInvariant

-----------------------------------------------------------------------------
(* The theorems about HostConfig.                                           *)

LEMMA HostInvariance == HostSpec => []HostInvariant
<1>1. HostInit => HostInvariant
  BY HostInitial, TypeInit, RestInit DEF HostInvariant
<1>. QED
  BY <1>1, HostStep, PTL DEF HostSpec

\* The commands of any number of processes and the boots between them are
\* calls of bp_atomic_write: whatever holds of AtomicFile holds of them.
THEOREM HostIsFile == HostSpec => Spec
<1>1. HostInit => Init
  BY HostInitial
<1>. QED
  BY <1>1, HostInvariance, HostStep, PTL DEF HostSpec, Spec

\* No reader of /etc/BurningProcess/config and no power failure meets a part
\* of it, no command that ends leaves a temporary file, and the file is an
\* atomic cell.
THEOREM HostFileIsAtomic ==
  HostSpec => [](NeverTorn /\ TemporaryIsGone) /\ ImplementsCell
<1>. QED
  BY HostIsFile, NotTorn, NoTemporaryLeft, Implements, PTL

\* Every variable has its shape, and a command runs only when the host is up.
THEOREM HostTypeCorrect == HostSpec => []TypeOK
<1>1. HostInvariant => TypeOK
  <2>. SUFFICES ASSUME HostInvariant PROVE TypeOK
    OBVIOUS
  <2>1. \A key \in DOMAIN menu : HostLegal(key, menu[key])
    <3>1. LegalConfig("host", menu)
      BY DEF HostInvariant, HostRest, MenuIsRead
    <3>. QED
      BY <3>1 DEF LegalConfig, Legal
  <2>2. reported \in Values \cup {Missing}
    BY FormattedFacts DEF HostInvariant, HostRest, HostTypes
  <2>. QED
    BY <2>1, <2>2 DEF HostInvariant, HostRest, HostTypes, OnlyWhenUp, TypeOK
<1>. QED
  BY <1>1, HostInvariance, PTL

\* Whatever text is in the file, the parser accepts it if it is well formed
\* and gives each key the value written for it or its default.
THEOREM ParserCorrect == HostSpec => []ParserMeetsFormat
<1>1. ParserMeetsFormat
  BY TextsAssumption, ParserIsRight DEF ParserMeetsFormat, HostParse
<1>. QED
  BY <1>1, PTL

\* The menu and `status` go by all of the file or by none of it.
THEOREM WholeOrDefault == HostSpec => []AllOrDefault
<1>1. HostInvariant => AllOrDefault
  <2>. SUFFICES ASSUME HostInvariant, phase = "menu"
                PROVE  AllOrDefault
    BY DEF AllOrDefault
  <2>1. live[File] \in Contents /\ live[File].value # Torn
    BY DEF HostInvariant, FileTypeOK, Rest, FileIsWhole, Names
  <2>2. menu = MenuConfig(live[File])
    BY DEF HostInvariant, HostRest, MenuIsRead
  <2>. QED
    BY <2>1, <2>2, LoadFacts DEF AllOrDefault, MenuConfig, StatusConfig
<1>. QED
  BY <1>1, HostInvariance, PTL

\* A write changes what its command was asked to change and nothing else,
\* unless another command got in between.
THEOREM NothingElseChanges == HostSpec => []OnlyAskedChanges
<1>1. HostInvariant => OnlyAskedChanges
  BY DEF HostInvariant, HostRest, AskedUntilRenamed, Asked, OnlyAskedChanges,
         Steps
<1>. QED
  BY <1>1, HostInvariance, PTL

\* A configuration that was reported as written is the next menu's, also
\* after a power failure, until another one is renamed over it.
THEOREM ReportKept == HostSpec => []ReportedIsKept
<1>1. HostInvariant => ReportedIsKept
  <2>. SUFFICES ASSUME HostInvariant, reported # Missing
                PROVE  /\ live[File].value = reported
                       /\ AfterCrash(disk[File]).value = reported
                       /\ phase = "menu" => menu = Meaning("host", reported)
    BY DEF ReportedIsKept
  <2>1. live[File] \in Contents /\ live[File].value # Torn
    BY DEF HostInvariant, FileTypeOK, Rest, FileIsWhole, Names
  <2>2. live[File].value = reported /\ disk[File].value = reported
    BY DEF HostInvariant, HostRest, ReportIsThere
  <2>3. AfterCrash(disk[File]) = disk[File]
    BY DEF HostInvariant, Rest, FileIsWhole, AfterCrash
  <2>4. reported \in Formatted
    BY DEF HostInvariant, HostRest, HostTypes
  <2>5. MenuConfig(live[File]) = Meaning("host", reported)
    BY <2>1, <2>2, <2>4, FormattedFacts, LoadFacts DEF MenuConfig
  <2>. QED
    BY <2>2, <2>3, <2>5 DEF HostInvariant, HostRest, MenuIsRead
<1>. QED
  BY <1>1, HostInvariance, PTL
=============================================================================
