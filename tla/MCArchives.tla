----------------------------- MODULE MCArchives -----------------------------
(* Every archive of up to MaxTail entries whose names, kinds and order get   *)
(* in one another's way; recovery roots with and without a directory around *)
(* them; seven states of a source directory.                                  *)
EXTENDS Archives

CONSTANT MaxTail

Formats == {"cpio", "tar.gz"}
Archive(form, entries) == [format |-> form, entries |-> entries, cut |-> FALSE]

One == <<Line("one", "")>>
Two == <<Line("two", "")>>
Target == <<Line("target", "")>>

File(name, data) == Entry(name, "file", data, NoName)
Dir(name) == Entry(name, "dir", <<>>, NoName)
Link(name) == Entry(name, "link", Target, NoName)
Hard(name, to) == Entry(name, "hard", <<>>, to)

MCTails ==
  {File(<<"a">>, One), File(<<"a">>, Two), Dir(<<"a">>), Dir(<<"a", "">>),
   Link(<<"a">>), File(<<"a", "b">>, One), Link(<<"a", "b">>),
   File(<<".", "a">>, Two), Hard(<<"c">>, <<"a">>), Hard(<<"c">>, <<"a", "b">>)}

\* What neither format takes.
MCOdd ==
  {File(<<"", "a">>, One), File(<<"..", "a">>, One), Dir(<<".", "">>),
   Entry(<<"a">>, "other", <<>>, NoName), Entry(<<"a">>, "dir", One, NoName)}

MCAnyOrder ==
  {Archive(form, entries) : form \in Formats,
     entries \in UNION {[1..n -> MCTails] : n \in 0..MaxTail}
                 \cup [1..1 -> MCOdd]}

Init_ == <<"init">>
Handoff == RuntimeFormat([RuntimeDefault EXCEPT !.entryMode = "handoff",
                                                !.entry = <<"", "init">>])
Twice == Handoff \o <<Line("entryMode", "supervised")>>

Base == <<File(ShellName, One), Link(ProgressName)>>
Configured == {<<>>} \cup {<<File(ConfigName, text)>> : text \in {Handoff, Twice}}
EntryThere ==
  {<<>>, <<File(Init_, One)>>, <<Link(Init_)>>, <<Hard(Init_, ShellName)>>}

InRoot(entries) ==
  <<Dir(<<"root">>)>> \o
  [i \in DOMAIN entries |->
     [entries[i] EXCEPT
        !.name = <<"root">> \o @,
        !.to = IF entries[i].kind = "hard" THEN <<"root">> \o @ ELSE @]]

Roots == {Base \o config \o entry : config \in Configured, entry \in EntryThere}

MCRoots ==
  {Archive(form, root) : form \in Formats, root \in Roots}
  \cup {Archive("tar.gz", InRoot(root)) : root \in Roots}

MCDownloads ==
  MCAnyOrder \cup MCRoots
  \cup {[Archive(form, Base) EXCEPT !.cut = TRUE] : form \in Formats}
  \cup {NoArchive}

MCReplacements ==
  {Archive("cpio", <<Link(<<"a">>), File(<<"a", "b">>, Two)>>),
   Archive("tar.gz", InRoot(Base) \o <<File(<<"a">>, One)>>), NoArchive}

MCExisting == Archive("cpio", Base)

-----------------------------------------------------------------------------

Shell == Put(EmptyTree, ShellName, One)
Rooted == Put(Put(Shell, ConfigName, Handoff), Init_, One)

MCSources ==
  {Shell, Rooted,
   Put(Shell, ConfigName, Handoff),
   Put(Rooted, ConfigName, Twice),
   WithNode(WithNode(Shell, ShellName, Node("link", Target)),
            <<"dev">>, Node("other", <<>>)),
   WithNode(Rooted, Tail(DefaultEntry), Node("link", Target)),
   Put(Put(EmptyTree, <<"root">> \o ShellName, One),
       <<"root">> \o ProgressName, One)}

MCAnswers ==
  {<<>>, [entry |-> DefaultEntry], [entryMode |-> "handoff"],
   [entryMode |-> "supervised", entry |-> <<"", "..">>]}
=============================================================================
