----------------------------- MODULE HostConfig -----------------------------
(***************************************************************************)
(* /etc/BurningProcess/config and those who use it: `burning-progress      *)
(* config` reads it, changes what it was asked to and writes it back;      *)
(* `install` and `rootfs install` end with bp_host_config_ensure; stage 1  *)
(* and `status` read it.  Several commands may run at once: nothing locks  *)
(* the file, each write is the bp_atomic_write of AtomicFile.  A command   *)
(* that is refused (a bad option, a file it cannot parse) does nothing and *)
(* is left out.                                                            *)
(***************************************************************************)
EXTENDS AtomicFile, ConfigFile

CONSTANTS
  HandWritten,   \* what an administrator may have put into the file
  Requests       \* the options of a `config` command: key -> value

ASSUME TextsAssumption ==
  /\ HandWritten \subseteq Values
  /\ \A text \in Values : IsText(text)
  /\ \A config \in HostConfigs : HostFormat(config) \in Values

ASSUME RequestsAssumption ==
  \A options \in Requests : DOMAIN options \subseteq {"timeout", "default"}

VARIABLES
  phase,      \* "booting", "menu" or "up"
  menu,       \* the configuration of the menu, while it is shown
  change,     \* process -> the options it was given; none for ensure
  overtaken,  \* process -> another one renamed since it read, or since it
              \* renamed (history)
  reported    \* the text whose write was last reported, until the next
              \* rename (history)

readers == <<phase, menu>>
ghosts == <<overtaken, reported>>
hostVars == <<vars, readers, change, ghosts>>

NoOptions == <<>>

\* load_host_config with a default, bp_read_text_file and the parser.
Load(content) ==
  IF content.value = Missing
    THEN [ok |-> TRUE, seen |-> {}, config |-> HostDefault]
  ELSE IF content.value = Torn THEN HostParse(<<Junk>>)
  ELSE HostParse(content.value)

\* Mutant: the options are not checked.
AcceptedUnchecked(options) == options # NoOptions

\* The options that command_config takes.
Accepted(options) ==
  /\ options # NoOptions
  /\ \A key \in DOMAIN options : HostLegal(key, options[key])

\* Mutant: the configuration of stage 1 keeps the lines before the bad one.
MenuConfigHalf(content) == Load(content).config

\* load_boot_config: a file that is not there or cannot be parsed stands for
\* the default.
MenuConfig(content) ==
  IF content.value # Missing /\ Load(content).ok
    THEN Load(content).config ELSE HostDefault

\* command_status: here a missing file is no failure.
StatusConfig(content) ==
  IF Load(content).ok THEN Load(content).config ELSE HostDefault

-----------------------------------------------------------------------------
(* Commands.                                                                *)

Call(p, options, text) ==
  /\ phase = "up"
  /\ Begin(p, text)
  /\ change' = [change EXCEPT ![p] = options]
  /\ overtaken' = [overtaken EXCEPT ![p] = FALSE]
  /\ UNCHANGED <<readers, reported>>

\* Mutant: the configuration is not loaded first.
ConfigFromDefault(p, options) ==
  /\ Accepted(options)
  /\ Call(p, options, HostFormat(Updated(HostDefault, options)))

\* command_config up to save_host_config's bp_atomic_write.
Config(p, options) ==
  /\ Load(live[File]).ok
  /\ Accepted(options)
  /\ Call(p, options, HostFormat(Updated(Load(live[File]).config, options)))

\* bp_host_config_ensure, when lstat finds nothing.
Ensure(p) ==
  /\ live[File].value = Missing
  /\ Call(p, NoOptions, HostFormat(HostDefault))

\* The step that this is leaves the call behind.
Over(p) == given'[p] = Missing

\* The steps of bp_atomic_write, and what they mean to the others.
FileStep(p) ==
  /\ WriteStep(p) \/ Killed(p)
  /\ change' = [change EXCEPT ![p] = IF Over(p) THEN NoOptions ELSE @]
  /\ overtaken' = [q \in Procs |->
                     IF Rename(p) THEN q # p /\ pc[q] \notin Ended
                     ELSE overtaken[q] /\ ~(q = p /\ Over(p))]
  /\ reported' = IF Rename(p) THEN Missing
                 ELSE IF SyncParent(p) /\ ~overtaken[p] THEN given[p]
                 ELSE reported
  /\ UNCHANGED readers

-----------------------------------------------------------------------------
(* The machine.                                                             *)

Boot ==
  /\ phase = "booting"
  /\ phase' = "menu"
  /\ menu' = MenuConfig(live[File])
  /\ UNCHANGED <<vars, change, ghosts>>

\* The menu's "normal": the host comes up.
HostUp ==
  /\ phase = "menu"
  /\ phase' = "up"
  /\ menu' = HostDefault
  /\ UNCHANGED <<vars, change, ghosts>>

KernelWrites ==
  /\ \E name \in Names : Writeback(name)
  /\ UNCHANGED <<readers, change, ghosts>>

PowerFails ==
  /\ Crash
  /\ phase' = "booting"
  /\ menu' = HostDefault
  /\ change' = [p \in Procs |-> NoOptions]
  /\ overtaken' = [p \in Procs |-> FALSE]
  /\ UNCHANGED reported

HostInit ==
  /\ \E v \in HandWritten \cup {Missing} :
       live = [name \in Names |->
                 IF name = File THEN Content(v, TRUE) ELSE NoFile]
  /\ disk = live
  /\ pc = [p \in Procs |-> "idle"]
  /\ given = [p \in Procs |-> Missing]
  /\ phase = "booting" /\ menu = HostDefault
  /\ change = [p \in Procs |-> NoOptions]
  /\ overtaken = [p \in Procs |-> FALSE]
  /\ reported = Missing

HostNext ==
  \/ \E p \in Procs :
       \/ \E options \in Requests : Config(p, options)
       \/ Ensure(p) \/ FileStep(p)
  \/ Boot \/ HostUp
  \/ KernelWrites \/ PowerFails

HostSpec == HostInit /\ [][HostNext]_hostVars

-----------------------------------------------------------------------------
(* Properties.                                                              *)

\* The shapes of the variables.
TypeOK ==
  /\ FileTypeOK
  /\ phase \in {"booting", "menu", "up"}
  /\ (\E p \in Procs : pc[p] \notin Ended) => phase = "up"
  /\ \A key \in DOMAIN menu : HostLegal(key, menu[key])
  /\ change \in [Procs -> Requests \cup {NoOptions}]
  /\ overtaken \in [Procs -> BOOLEAN]
  /\ reported \in Values \cup {Missing}

\* The parser accepts the well-formed texts and no other, whatever the order
\* of the lines, and gives each key the value written for it or its default.
ParserMeetsFormat ==
  LET text == live[File].value
      parsed == HostParse(text)
  IN  text \in Values =>
        /\ parsed.ok <=> WellFormed("host", text)
        /\ parsed.ok => parsed.config = Meaning("host", text)

\* The menu and `status` go by what the file says if all of it is right, and
\* by the default if anything in it is wrong: never by a part of it.
AllOrDefault ==
  LET text == live[File].value
      config == IF text # Missing /\ WellFormed("host", text)
                  THEN Meaning("host", text) ELSE HostDefault
  IN  phase = "menu" => menu = config /\ StatusConfig(live[File]) = config

\* A write that is about to happen changes what its command was asked to
\* change and nothing else, does not replace a file that could not be read,
\* and writes the default only where there is no file - unless another
\* command got in between: config and ensure do not lock the file, so that of
\* two at once the change of the first may be lost.
OnlyAskedChanges ==
  \A p \in Procs : pc[p] = "rename" /\ ~overtaken[p] =>
    LET text == live[File].value
    IN  \/ /\ text = Missing
           /\ Meaning("host", given[p]) = Updated(HostDefault, change[p])
        \/ /\ change[p] # NoOptions
           /\ WellFormed("host", text)
           /\ Meaning("host", given[p]) =
                Updated(Meaning("host", text), change[p])

\* A configuration whose writing was reported is the one that the next menu
\* has, also when power fails, whatever other commands fail or are killed
\* meanwhile, until one of them renames its own into place.
ReportedIsKept ==
  reported # Missing =>
    /\ live[File].value = reported
    /\ AfterCrash(disk[File]).value = reported
    /\ phase = "menu" => menu = Meaning("host", reported)
=============================================================================
