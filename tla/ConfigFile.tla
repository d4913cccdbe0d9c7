----------------------------- MODULE ConfigFile -----------------------------
(***************************************************************************)
(* The two configuration files of Burning Progress (src/src/config.c): the *)
(* host's /etc/BurningProcess/config and /etc/burning-progress.conf of the *)
(* recovery root.  A text is a sequence of lines; a line maps one key to a *)
(* value, with the keys "blank" (nothing or a comment) and "junk" (no      *)
(* equals sign) for the others.  What the parser does with one line, and   *)
(* that it stops at the first bad one with its output half written, is     *)
(* kept.                                                                   *)
(***************************************************************************)
EXTENDS Naturals, SequencesExt

CONSTANTS
  MaxTimeout,      \* BP_MAX_TIMEOUT
  DefaultTimeout   \* BP_DEFAULT_TIMEOUT

ASSUME TimeoutAssumption ==
  MaxTimeout \in Nat /\ DefaultTimeout \in 0..MaxTimeout

\* What is between two slashes with nothing between them, and the components
\* that a path in a tree never has.
Nothing == ""
Special == {Nothing, ".", ".."}

Line(key, value) == [k \in {key} |-> value]
KeyOf(line) == CHOOSE key \in DOMAIN line : TRUE
ValueOf(line) == line[KeyOf(line)]
Blank == Line("blank", Nothing)
Junk == Line("junk", Nothing)

IsText(text) == text \in Seq(ToSet(text))

Version == 1

-----------------------------------------------------------------------------
(* The host's configuration.                                                *)

Timeouts == 0..MaxTimeout
BootChoices == {"normal", "shell", "poweroff"}

HostDefault ==
  [version |-> Version, timeout |-> DefaultTimeout, default |-> "normal"]

HostConfigs ==
  [version : {Version}, timeout : Timeouts, default : BootChoices]

HostLegal(key, value) ==
  \/ key = "version" /\ value = Version
  \/ key = "timeout" /\ value \in Timeouts
  \/ key = "default" /\ value \in BootChoices

\* snprintf of the three lines.
HostFormat(config) ==
  <<Line("version", config.version), Line("timeout", config.timeout),
    Line("default", config.default)>>

-----------------------------------------------------------------------------
(* The runtime configuration.  An entry path is the sequence of what is     *)
(* between its slashes: <<"", "sbin", "entry">> is /sbin/entry.             *)

EntryModes == {"supervised", "handoff"}
DefaultEntry == <<Nothing, "entry.sh">>

RuntimeDefault ==
  [version |-> Version, entryMode |-> "supervised", entry |-> DefaultEntry]

\* bp_validate_entry: absolute, no empty, "." or ".." component; an empty
\* last one is a slash at the end, and "/" itself passes.
ValidEntry(entry) ==
  /\ Len(entry) >= 2 /\ entry[1] = Nothing
  /\ \A i \in 2..Len(entry) :
       entry[i] \in Special => entry[i] = Nothing /\ i = Len(entry)

RuntimeLegal(key, value) ==
  \/ key = "version" /\ value = Version
  \/ key = "entryMode" /\ value \in EntryModes
  \/ key = "entry" /\ ValidEntry(value)

RuntimeFormat(config) ==
  <<Line("version", config.version), Line("entryMode", config.entryMode),
    Line("entry", config.entry)>>

-----------------------------------------------------------------------------
(* The parsers, which do the same with either file: default first, then     *)
(* line by line.                                                            *)

Default(file) == IF file = "host" THEN HostDefault ELSE RuntimeDefault

Legal(file, key, value) ==
  IF file = "host" THEN HostLegal(key, value) ELSE RuntimeLegal(key, value)

\* A known key and a legal value for it.
LegalLine(file, line) == Legal(file, KeyOf(line), ValueOf(line))

\* Mutant: a key that comes again replaces the first one.
ParseLineLast(file, state, line) ==
  IF ~state.ok \/ KeyOf(line) = "blank" THEN state
  ELSE IF ~LegalLine(file, line)
    THEN [state EXCEPT !.ok = FALSE]
    ELSE [state EXCEPT !.config[KeyOf(line)] = ValueOf(line)]

\* One line: ok, the keys seen and the configuration so far.
ParseLine(file, state, line) ==
  IF ~state.ok \/ KeyOf(line) = "blank" THEN state
  ELSE IF ~LegalLine(file, line)
    THEN [state EXCEPT !.ok = FALSE]
    ELSE [ok |-> KeyOf(line) \notin state.seen,
          seen |-> state.seen \cup {KeyOf(line)},
          config |-> [state.config EXCEPT ![KeyOf(line)] = ValueOf(line)]]

ParseStart(file) == [ok |-> TRUE, seen |-> {}, config |-> Default(file)]

\* What there is after each number of lines.
ParseStates(file, text) ==
  LET after[n \in 0..Len(text)] ==
        IF n = 0 THEN ParseStart(file)
        ELSE ParseLine(file, after[n - 1], text[n])
  IN  after

Parse(file, text) == ParseStates(file, text)[Len(text)]

HostParse(text) == Parse("host", text)
RuntimeParse(text) == Parse("runtime", text)

\* The configuration with what was asked for on top of it.
Updated(config, changes) ==
  [key \in DOMAIN config |->
     IF key \in DOMAIN changes THEN changes[key] ELSE config[key]]

-----------------------------------------------------------------------------
(* What the format promises, without an order of lines.                     *)

\* Every line that counts has a known key and a legal value, no key twice.
WellFormed(file, text) ==
  LET counts == {i \in DOMAIN text : KeyOf(text[i]) # "blank"}
  IN  /\ \A i \in counts : LegalLine(file, text[i])
      /\ \A i, j \in counts : KeyOf(text[i]) = KeyOf(text[j]) => i = j

\* What a well-formed text says.
Meaning(file, text) ==
  [key \in DOMAIN Default(file) |->
     IF \E i \in DOMAIN text : KeyOf(text[i]) = key
       THEN ValueOf(text[CHOOSE i \in DOMAIN text : KeyOf(text[i]) = key])
       ELSE Default(file)[key]]
=============================================================================
