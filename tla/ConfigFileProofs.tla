-------------------------- MODULE ConfigFileProofs --------------------------
(***************************************************************************)
(* Proofs about the parsers of ConfigFile, for texts of any length: they   *)
(* accept the well-formed texts and no other, give each key the value      *)
(* written for it or its default, and read back what was formatted.        *)
(*                                                                         *)
(* The parser is a recursive function of the number of lines.  What holds  *)
(* for every number of lines is shown by its least counterexample.         *)
(***************************************************************************)
EXTENDS ConfigFile, SequenceTheorems, FiniteSetTheorems,
        WellFoundedInduction, TLAPS

-----------------------------------------------------------------------------
(* Numbers.                                                                 *)

\* A set of numbers with something in it has a least element.
LEMMA LeastNumber ==
  ASSUME NEW T \in SUBSET Nat, T # {}
  PROVE  \E n \in T : \A m \in T : n <= m
<1>1. PICK k \in T : TRUE
  OBVIOUS
<1>. DEFINE Below == {1..n : n \in {m \in T : m <= k}}
<1>2. IsWellFoundedOn(StrictSubsetOrdering(1..k), SUBSET (1..k))
  <2>1. IsFiniteSet(1..k)
    BY <1>1, FS_Interval
  <2>. QED
    BY <2>1, FS_StrictSubsetOrderingWellFounded, FS_FiniteSubsetsOfFinite
<1>3. Below \subseteq SUBSET (1..k) /\ Below # {}
  <2>1. \A n \in Nat : n <= k => 1..n \subseteq 1..k
    BY <1>1
  <2>. QED
    BY <2>1, <1>1
<1>4. PICK x \in Below :
        \A y \in Below : <<y, x>> \notin StrictSubsetOrdering(1..k)
  BY ONLY <1>2, <1>3, WFMin
<1>5. PICK n \in T : n <= k /\ x = 1..n
  BY <1>4
<1>6. ASSUME NEW m \in T, ~(n <= m)
      PROVE  FALSE
  <2>1. n \in Nat /\ m \in Nat /\ k \in Nat /\ m < n /\ m <= k
    BY <1>1, <1>5, <1>6
  <2>2. 1..m \in Below
    BY <2>1
  <2>3. 1..m \subseteq 1..n /\ n \in 1..n /\ n \notin 1..m
    BY <2>1
  <2>4. 1..m \in SUBSET (1..k) /\ 1..n \in SUBSET (1..k)
    BY <2>1, <1>5
  <2>5. <<1..m, 1..n>> \in StrictSubsetOrdering(1..k)
    BY <2>3, <2>4 DEF StrictSubsetOrdering
  <2>. QED
    BY <2>2, <2>5, <1>4, <1>5
<1>. QED
  BY <1>6

\* The least number that is not in a set has its predecessor in it.
LEMMA LeastOutside ==
  ASSUME NEW T \in SUBSET Nat, 0 \in T, NEW N \in Nat,
         \A n \in 0..(N - 1) : n \in T => n + 1 \in T
  PROVE  0..N \subseteq T
<1>1. SUFFICES ASSUME {n \in 0..N : n \notin T} # {}
               PROVE  FALSE
  OBVIOUS
<1>2. PICK n \in {m \in 0..N : m \notin T} :
        \A m \in {m \in 0..N : m \notin T} : n <= m
  <2>1. {m \in 0..N : m \notin T} \in SUBSET Nat
    OBVIOUS
  <2>. QED
    BY ONLY <2>1, <1>1, LeastNumber
<1>3. n \in 0..N /\ n # 0 /\ n \notin T
  BY <1>2
<1>4. n - 1 \in 0..(N - 1) /\ n - 1 \in 0..N /\ ~(n <= n - 1)
  BY <1>3
<1>5. n - 1 \in T
  BY <1>2, <1>4
<1>6. (n - 1) + 1 = n
  BY <1>3
<1>. QED
  BY <1>3, <1>4, <1>5, <1>6
-----------------------------------------------------------------------------
(* The parser's states.                                                     *)

LEMMA TextFacts ==
  ASSUME NEW text, IsText(text)
  PROVE  Len(text) \in Nat /\ DOMAIN text = 1..Len(text)
BY LenProperties DEF IsText

\* What ParseStates(file, text) is up to a number of lines.
IsParse(file, text, states, N) ==
  states = [n \in 0..N |-> IF n = 0 THEN ParseStart(file)
                           ELSE ParseLine(file, states[n - 1], text[n])]

LEMMA ParseExists ==
  ASSUME NEW file, NEW text, NEW N \in Nat
  PROVE  \E states : IsParse(file, text, states, N)
<1>. DEFINE Good == {n \in Nat : \E states : IsParse(file, text, states, n)}
<1>1. 0 \in Good
  <2>1. IsParse(file, text, [n \in 0..0 |-> ParseStart(file)], 0)
    BY DEF IsParse
  <2>. QED
    BY <2>1
<1>2. ASSUME NEW n \in 0..(N - 1), n \in Good
      PROVE  n + 1 \in Good
  <2>1. PICK old : IsParse(file, text, old, n)
    BY <1>2
  <2>. DEFINE last == ParseLine(file, old[n], text[n + 1])
              new == [i \in 0..(n + 1) |-> IF i = n + 1 THEN last ELSE old[i]]
  <2>2. \A i \in 0..n : old[i] = IF i = 0 THEN ParseStart(file)
                                 ELSE ParseLine(file, old[i - 1], text[i])
    BY <2>1 DEF IsParse
  <2>3. ASSUME NEW i \in 0..(n + 1)
        PROVE  new[i] = IF i = 0 THEN ParseStart(file)
                        ELSE ParseLine(file, new[i - 1], text[i])
    <3>. HIDE DEF last
    <3>1. CASE i = n + 1
      <4>1. i # 0 /\ i - 1 = n /\ n # n + 1 /\ n \in 0..(n + 1)
        BY <1>2, <3>1
      <4>2. new[i] = last /\ new[n] = old[n]
        BY <3>1, <4>1
      <4>. QED
        BY <4>1, <4>2, <3>1 DEF last
    <3>2. CASE i \in 0..n
      <4>1. i # n + 1 /\ (i # 0 => i - 1 \in 0..(n + 1) /\ i - 1 # n + 1)
        BY <1>2, <3>2
      <4>2. new[i] = old[i] /\ (i # 0 => new[i - 1] = old[i - 1])
        BY <4>1
      <4>. QED
        BY <4>2, <3>2, <2>2
    <3>. QED
      BY <1>2, <3>1, <3>2
  <2>4. IsParse(file, text, new, n + 1)
    <3>. HIDE DEF last
    <3>1. new = [i \in 0..(n + 1) |-> new[i]]
      OBVIOUS
    <3>. HIDE DEF new
    <3>. QED
      BY <2>3, <3>1 DEF IsParse
  <2>. QED
    BY <2>4, <1>2
<1>3. Good \in SUBSET Nat
  OBVIOUS
<1>. HIDE DEF Good
<1>4. 0..N \subseteq Good
  BY ONLY <1>1, <1>2, <1>3, LeastOutside
<1>5. N \in Good
  BY <1>4
<1>. QED
  BY <1>5 DEF Good

LEMMA ParseStatesDefined ==
  ASSUME NEW file, NEW text, IsText(text)
  PROVE  IsParse(file, text, ParseStates(file, text), Len(text))
<1>1. Len(text) \in Nat
  BY TextFacts
<1>2. PICK states : IsParse(file, text, states, Len(text))
  BY <1>1, ParseExists
<1>3. ParseStates(file, text) =
        CHOOSE all : IsParse(file, text, all, Len(text))
  BY DEF ParseStates, IsParse
<1>. QED
  BY <1>2, <1>3

-----------------------------------------------------------------------------
(* What the parser has after some of the lines.                             *)

LEMMA LegalKeys ==
  ASSUME NEW file
  PROVE  /\ "blank" \notin DOMAIN Default(file)
         /\ \A key, value : Legal(file, key, value) => key \in DOMAIN Default(file)
BY DEF Default, Legal, HostDefault, RuntimeDefault, HostLegal, RuntimeLegal

Counts(line) == KeyOf(line) # "blank"

\* The first n lines are well formed.
GoodPrefix(file, text, n) ==
  /\ \A i \in 1..n : Counts(text[i]) => LegalLine(file, text[i])
  /\ \A i, j \in 1..n :
       Counts(text[i]) /\ KeyOf(text[i]) = KeyOf(text[j]) => i = j

\* They give these values to the keys.
Gives(file, text, n, config) ==
  /\ config = [key \in DOMAIN Default(file) |-> config[key]]
  /\ \A key \in DOMAIN Default(file) :
       /\ \A i \in 1..n :
            KeyOf(text[i]) = key => config[key] = ValueOf(text[i])
       /\ (\A i \in 1..n : KeyOf(text[i]) # key) =>
            config[key] = Default(file)[key]

Parsed(file, text, n, state) ==
  /\ state = [ok |-> state.ok, seen |-> state.seen, config |-> state.config]
  /\ state.ok \in BOOLEAN
  /\ state.ok <=> GoodPrefix(file, text, n)
  /\ state.ok =>
       /\ state.seen = {KeyOf(text[i]) : i \in {j \in 1..n : Counts(text[j])}}
       /\ Gives(file, text, n, state.config)

LEMMA ParsedStart ==
  ASSUME NEW file, NEW text
  PROVE  Parsed(file, text, 0, ParseStart(file))
<1>1. 1..0 = {}
  OBVIOUS
<1>2. Default(file) = [key \in DOMAIN Default(file) |-> Default(file)[key]]
  BY DEF Default, HostDefault, RuntimeDefault
<1>. QED
  BY <1>1, <1>2 DEF ParseStart, Parsed, GoodPrefix, Gives

LEMMA ParsedLine ==
  ASSUME NEW file, NEW text, NEW n \in Nat, NEW state,
         Parsed(file, text, n, state)
  PROVE  Parsed(file, text, n + 1, ParseLine(file, state, text[n + 1]))
<1>. DEFINE line == text[n + 1]
            key == KeyOf(line)
            next == ParseLine(file, state, line)
<1>1. /\ 1..(n + 1) = (1..n) \cup {n + 1}
      /\ n + 1 \notin 1..n
  OBVIOUS
<1>2. GoodPrefix(file, text, n + 1) => GoodPrefix(file, text, n)
  BY <1>1 DEF GoodPrefix
<1>. HIDE DEF line
<1>3. CASE ~state.ok
  <2>1. next = state
    BY <1>3 DEF ParseLine
  <2>. QED
    BY <2>1, <1>2, <1>3 DEF Parsed, line
<1>4. CASE state.ok /\ key = "blank"
  <2>1. next = state
    BY <1>4 DEF ParseLine
  <2>2. GoodPrefix(file, text, n) => GoodPrefix(file, text, n + 1)
    BY <1>1, <1>4 DEF GoodPrefix, Counts, line
  <2>3. {j \in 1..(n + 1) : Counts(text[j])} = {j \in 1..n : Counts(text[j])}
    BY <1>1, <1>4 DEF Counts, line
  <2>4. Gives(file, text, n, state.config) =>
          Gives(file, text, n + 1, state.config)
    <3>1. key \notin DOMAIN Default(file)
      BY <1>4, LegalKeys
    <3>. QED
      BY <1>1, <3>1 DEF Gives, line
  <2>. QED
    BY <2>1, <2>2, <2>3, <2>4, <1>2, <1>4 DEF Parsed, line
<1>5. CASE state.ok /\ Counts(line) /\ ~LegalLine(file, line)
  <2>1. next = [state EXCEPT !.ok = FALSE]
    BY <1>5 DEF ParseLine, Counts
  <2>2. next = [ok |-> FALSE, seen |-> state.seen, config |-> state.config]
    BY <2>1 DEF Parsed
  <2>3. ~GoodPrefix(file, text, n + 1)
    BY <1>1, <1>5 DEF GoodPrefix, line
  <2>. QED
    BY <2>2, <2>3 DEF Parsed, line
<1>6. CASE state.ok /\ Counts(line) /\ LegalLine(file, line)
  <2>1. next = [ok |-> key \notin state.seen,
                seen |-> state.seen \cup {key},
                config |-> [state.config EXCEPT ![key] = ValueOf(line)]]
    BY <1>6 DEF ParseLine, Counts
  <2>2. /\ GoodPrefix(file, text, n)
        /\ state.seen = {KeyOf(text[i]) : i \in {j \in 1..n : Counts(text[j])}}
        /\ Gives(file, text, n, state.config)
    BY <1>6 DEF Parsed
  <2>3. key \in DOMAIN Default(file)
    BY <1>6, LegalKeys DEF LegalLine
  <2>. DEFINE New == \A i \in 1..n : KeyOf(text[i]) # key
  <2>4. next.ok <=> New
    <3>1. next.ok = (key \notin state.seen)
      BY <2>1
    <3>2. ASSUME NEW i \in 1..n, KeyOf(text[i]) = key
          PROVE  Counts(text[i])
      BY <1>6, <3>2 DEF Counts
    <3>3. key \in state.seen <=> \E i \in 1..n : KeyOf(text[i]) = key
      BY <2>2, <3>2
    <3>. HIDE DEF next, key
    <3>. QED
      BY <3>1, <3>3
  <2>7. New <=> GoodPrefix(file, text, n + 1)
    <3>1. GoodPrefix(file, text, n + 1) => New
      BY <1>1, <1>6 DEF GoodPrefix, line
    <3>2. New => GoodPrefix(file, text, n + 1)
      BY <1>1, <1>6, <2>2 DEF GoodPrefix, line
    <3>. QED
      BY <3>1, <3>2
  <2>5. next.seen =
          {KeyOf(text[i]) : i \in {j \in 1..(n + 1) : Counts(text[j])}}
    BY <1>1, <1>6, <2>1, <2>2 DEF line
  <2>6. next.ok => Gives(file, text, n + 1, next.config)
    <3>. SUFFICES ASSUME next.ok PROVE Gives(file, text, n + 1, next.config)
      OBVIOUS
    <3>0. next.config = [state.config EXCEPT ![key] = ValueOf(line)]
      BY <2>1
    <3>1. \A i \in 1..n : KeyOf(text[i]) # key
      BY <2>4
    <3>2. /\ next.config[key] = ValueOf(line)
          /\ \A k \in DOMAIN Default(file) :
               k # key => next.config[k] = state.config[k]
          /\ next.config = [k \in DOMAIN Default(file) |-> next.config[k]]
      BY <3>0, <2>2, <2>3 DEF Gives
    <3>. HIDE DEF next, key
    <3>3. ASSUME NEW k \in DOMAIN Default(file)
          PROVE  /\ \A i \in 1..(n + 1) :
                      KeyOf(text[i]) = k => next.config[k] = ValueOf(text[i])
                 /\ (\A i \in 1..(n + 1) : KeyOf(text[i]) # k) =>
                      next.config[k] = Default(file)[k]
      BY <1>1, <2>2, <3>1, <3>2 DEF Gives, key, line
    <3>. QED
      BY <3>2, <3>3 DEF Gives
  <2>. QED
    BY <2>1, <2>4, <2>5, <2>6, <2>7 DEF Parsed, line
<1>. QED
  BY <1>3, <1>4, <1>5, <1>6 DEF Counts, Parsed

LEMMA AllParsed ==
  ASSUME NEW file, NEW text, IsText(text)
  PROVE  Parsed(file, text, Len(text), Parse(file, text))
<1>. DEFINE states == ParseStates(file, text)
            N == Len(text)
            Right == {n \in 0..N : Parsed(file, text, n, states[n])}
<1>1. N \in Nat
  BY TextFacts
<1>2. /\ states[0] = ParseStart(file)
      /\ \A n \in 1..N : states[n] = ParseLine(file, states[n - 1], text[n])
  <2>1. states = [n \in 0..N |-> IF n = 0 THEN ParseStart(file)
                                 ELSE ParseLine(file, states[n - 1], text[n])]
    BY ParseStatesDefined DEF IsParse
  <2>. HIDE DEF states, N
  <2>2. 0 \in 0..N /\ \A n \in 1..N : n \in 0..N /\ n # 0
    BY <1>1
  <2>. QED
    BY <2>1, <2>2
<1>. HIDE DEF states, N
<1>3. 0 \in Right
  BY <1>1, <1>2, ParsedStart
<1>4. ASSUME NEW n \in 0..(N - 1), n \in Right
      PROVE  n + 1 \in Right
  <2>1. n \in Nat /\ n + 1 \in 1..N /\ n + 1 \in 0..N /\ (n + 1) - 1 = n
    BY <1>1
  <2>2. states[n + 1] = ParseLine(file, states[n], text[n + 1])
    BY <1>2, <2>1
  <2>3. Parsed(file, text, n, states[n])
    BY <1>4
  <2>. QED
    BY <2>1, <2>2, <2>3, ParsedLine
<1>5. Right \in SUBSET Nat
  BY <1>1
<1>6. 0..N \subseteq Right
  <2>. HIDE DEF Right
  <2>. QED
    BY ONLY <1>1, <1>3, <1>4, <1>5, LeastOutside
<1>7. N \in 0..N
  BY <1>1
<1>. QED
  BY <1>6, <1>7 DEF Parse, states, N

LEMMA GoodIsWellFormed ==
  ASSUME NEW file, NEW text, IsText(text)
  PROVE  GoodPrefix(file, text, Len(text)) <=> WellFormed(file, text)
BY TextFacts DEF GoodPrefix, WellFormed, Counts

LEMMA GivesItsMeaning ==
  ASSUME NEW file, NEW text, IsText(text), NEW config,
         Gives(file, text, Len(text), config)
  PROVE  config = Meaning(file, text)
<1>1. DOMAIN text = 1..Len(text)
  BY TextFacts
<1>2. ASSUME NEW key \in DOMAIN Default(file)
      PROVE  config[key] = Meaning(file, text)[key]
  <2>1. CASE \E i \in DOMAIN text : KeyOf(text[i]) = key
    BY <1>1, <2>1 DEF Gives, Meaning
  <2>2. CASE ~ \E i \in DOMAIN text : KeyOf(text[i]) = key
    BY <1>1, <2>2 DEF Gives, Meaning
  <2>. QED
    BY <2>1, <2>2
<1>3. config = [key \in DOMAIN Default(file) |-> config[key]]
  BY DEF Gives
<1>4. Meaning(file, text) =
        [key \in DOMAIN Default(file) |-> Meaning(file, text)[key]]
  BY DEF Meaning
<1>. QED
  BY <1>2, <1>3, <1>4

\* Either parser accepts the well-formed texts and no other, and gives each
\* key the value written for it or its default, for texts of any length.
THEOREM ParserIsRight ==
  ASSUME NEW file, NEW text, IsText(text)
  PROVE  /\ Parse(file, text).ok <=> WellFormed(file, text)
         /\ Parse(file, text).ok =>
              Parse(file, text).config = Meaning(file, text)
BY AllParsed, GoodIsWellFormed, GivesItsMeaning DEF Parsed

-----------------------------------------------------------------------------
(* Legal configurations, and what is written for them.                      *)

LegalConfig(file, config) ==
  /\ config = [key \in DOMAIN Default(file) |-> config[key]]
  /\ \A key \in DOMAIN Default(file) : Legal(file, key, config[key])

LEMMA DefaultIsLegal ==
  ASSUME NEW file PROVE LegalConfig(file, Default(file))
<1>1. CASE file = "host"
  BY <1>1, TimeoutAssumption
  DEF LegalConfig, Default, HostDefault, Legal, HostLegal, Timeouts, BootChoices
<1>2. CASE file # "host"
  <2>1. ValidEntry(DefaultEntry)
    <3>1. "entry.sh" \notin Special
      BY Zenon DEF Special, Nothing
    <3>2. DefaultEntry[2] = "entry.sh" /\ DefaultEntry[1] = Nothing
          /\ Len(DefaultEntry) = 2
      BY DEF DefaultEntry
    <3>. QED
      BY <3>1, <3>2 DEF ValidEntry
  <2>. QED
    BY <1>2, <2>1
    DEF LegalConfig, Default, RuntimeDefault, Legal, RuntimeLegal, EntryModes
<1>. QED
  BY <1>1, <1>2

LEMMA MeaningIsLegal ==
  ASSUME NEW file, NEW text, IsText(text), WellFormed(file, text)
  PROVE  LegalConfig(file, Meaning(file, text))
<1>1. ASSUME NEW key \in DOMAIN Default(file)
      PROVE  Legal(file, key, Meaning(file, text)[key])
  <2>1. CASE \E i \in DOMAIN text : KeyOf(text[i]) = key
    <3>1. PICK i \in DOMAIN text :
            /\ KeyOf(text[i]) = key
            /\ Meaning(file, text)[key] = ValueOf(text[i])
      BY <2>1 DEF Meaning
    <3>2. KeyOf(text[i]) # "blank"
      BY <3>1, LegalKeys
    <3>3. LegalLine(file, text[i])
      BY <3>2 DEF WellFormed
    <3>. QED
      BY <3>1, <3>3 DEF LegalLine
  <2>2. CASE ~ \E i \in DOMAIN text : KeyOf(text[i]) = key
    BY <2>2, DefaultIsLegal DEF Meaning, LegalConfig
  <2>. QED
    BY <2>1, <2>2
<1>. QED
  BY <1>1 DEF LegalConfig, Meaning

\* An update by legal values is legal.
LEMMA UpdateIsLegal ==
  ASSUME NEW file, NEW config, LegalConfig(file, config), NEW changes,
         \A key \in DOMAIN changes : Legal(file, key, changes[key])
  PROVE  LegalConfig(file, Updated(config, changes))
BY DEF LegalConfig, Updated

LEMMA LineFacts ==
  ASSUME NEW key, NEW value
  PROVE  KeyOf(Line(key, value)) = key /\ ValueOf(Line(key, value)) = value
BY DEF KeyOf, ValueOf, Line

\* A text with one line for each key, in some order.
Spells(file, text, config, keys) ==
  /\ text \in Seq(ToSet(text))
  /\ DOMAIN keys = DOMAIN text
  /\ \A i \in DOMAIN text : text[i] = Line(keys[i], config[keys[i]])
  /\ {keys[i] : i \in DOMAIN keys} = DOMAIN Default(file)
  /\ \A i, j \in DOMAIN keys : keys[i] = keys[j] => i = j

LEMMA SpelledIsRead ==
  ASSUME NEW file, NEW config, LegalConfig(file, config),
         NEW text, NEW keys, Spells(file, text, config, keys)
  PROVE  WellFormed(file, text) /\ Meaning(file, text) = config
<1>1. \A i \in DOMAIN text : /\ KeyOf(text[i]) = keys[i]
                             /\ ValueOf(text[i]) = config[keys[i]]
                             /\ keys[i] \in DOMAIN Default(file)
  BY LineFacts DEF Spells
<1>2. \A i \in DOMAIN text : LegalLine(file, text[i])
  BY <1>1 DEF LegalLine, LegalConfig
<1>3. WellFormed(file, text)
  BY <1>1, <1>2 DEF WellFormed, Spells
<1>4. ASSUME NEW key \in DOMAIN Default(file)
      PROVE  Meaning(file, text)[key] = config[key]
  <2>1. \E i \in DOMAIN text : KeyOf(text[i]) = key
    BY <1>1 DEF Spells
  <2>. QED
    BY <1>1, <2>1 DEF Meaning
<1>5. Meaning(file, text) = config
  BY <1>4 DEF LegalConfig, Meaning
<1>. QED
  BY <1>3, <1>5

LEMMA ThreeLines ==
  ASSUME NEW a, NEW b, NEW c
  PROVE  /\ <<a, b, c>> \in Seq(ToSet(<<a, b, c>>))
         /\ DOMAIN <<a, b, c>> = 1..3
<1>1. <<a, b, c>> \in Seq({a, b, c})
  OBVIOUS
<1>. QED
  BY <1>1, LenProperties DEF ToSet

\* What is written for a legal configuration is well-formed and means it.
LEMMA FormatMeans ==
  /\ \A config : LegalConfig("host", config) =>
       /\ IsText(HostFormat(config))
       /\ WellFormed("host", HostFormat(config))
       /\ Meaning("host", HostFormat(config)) = config
  /\ \A config : LegalConfig("runtime", config) =>
       /\ IsText(RuntimeFormat(config))
       /\ WellFormed("runtime", RuntimeFormat(config))
       /\ Meaning("runtime", RuntimeFormat(config)) = config
<1>1. ASSUME NEW config, LegalConfig("host", config)
      PROVE  /\ IsText(HostFormat(config))
             /\ Spells("host", HostFormat(config), config,
                       <<"version", "timeout", "default">>)
  <2>1. DOMAIN Default("host") = {"version", "timeout", "default"}
    BY DEF Default, HostDefault
  <2>2. IsText(HostFormat(config)) /\ DOMAIN HostFormat(config) = 1..3
    BY ThreeLines DEF HostFormat, IsText
  <2>. QED
    BY <2>1, <2>2, ThreeLines DEF HostFormat, Spells, IsText
<1>2. ASSUME NEW config, LegalConfig("runtime", config)
      PROVE  /\ IsText(RuntimeFormat(config))
             /\ Spells("runtime", RuntimeFormat(config), config,
                       <<"version", "entryMode", "entry">>)
  <2>1. DOMAIN Default("runtime") = {"version", "entryMode", "entry"}
    BY DEF Default, RuntimeDefault
  <2>2. IsText(RuntimeFormat(config)) /\ DOMAIN RuntimeFormat(config) = 1..3
    BY ThreeLines DEF RuntimeFormat, IsText
  <2>. QED
    BY <2>1, <2>2, ThreeLines DEF RuntimeFormat, Spells, IsText
<1>. QED
  BY <1>1, <1>2, SpelledIsRead

\* What is written for a legal configuration is read back as it was, whatever
\* its values: bp_host_config_format and bp_runtime_config_format against the
\* two parsers.
THEOREM FormatIsRead ==
  /\ \A config : LegalConfig("host", config) =>
       /\ HostParse(HostFormat(config)).ok
       /\ HostParse(HostFormat(config)).config = config
  /\ \A config : LegalConfig("runtime", config) =>
       /\ RuntimeParse(RuntimeFormat(config)).ok
       /\ RuntimeParse(RuntimeFormat(config)).config = config
BY FormatMeans, ParserIsRight DEF HostParse, RuntimeParse
=============================================================================
