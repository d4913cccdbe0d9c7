---------------------------- MODULE ArchiveRules ----------------------------
(***************************************************************************)
(* What makes a recovery archive valid: the newc CPIO of src/src/cpio.c    *)
(* and the tar.gz of src/src/tar.c, and what their entries make of a       *)
(* directory tree.                                                         *)
(*                                                                         *)
(* A name is the sequence of what is between its slashes: a slash at the   *)
(* start or at the end gives an empty string there, <<"">> is the empty    *)
(* name.  An entry has a name, a kind, data (the text of a file) and, for  *)
(* a hard link, the name it is a link to.  An archive that is cut has no   *)
(* valid end; sizes and limits are left out.  A tree maps the paths that   *)
(* are there to nodes.                                                     *)
(***************************************************************************)
EXTENDS ConfigFile

Entry(name, kind, data, to) ==
  [name |-> name, kind |-> kind, data |-> data, to |-> to]

NoName == <<>>

Kinds == {"file", "dir", "link"}

ConfigName == <<"etc", "burning-progress.conf">>
ShellName == <<"bin", "sh">>
ProgressName == <<"sbin", "burning-progress">>
RequiredNames == {ShellName, ProgressName}

\* The directories a path goes through.
Parents(path) == {SubSeq(path, 1, k) : k \in 1..(Len(path) - 1)}

Node(kind, data) == [kind |-> kind, data |-> data]
Directory == Node("dir", <<>>)
EmptyTree == <<>>

\* Directories that are not there are made.
WithDirectories(tree, paths) ==
  [path \in DOMAIN tree \cup paths |->
     IF path \in DOMAIN tree THEN tree[path] ELSE Directory]

WithNode(tree, path, node) ==
  [q \in DOMAIN tree \cup {path} |-> IF q = path THEN node ELSE tree[q]]

-----------------------------------------------------------------------------
(* What a verified list of items must contain.  An item is an entry whose   *)
(* name has become a path; a list maps places in the archive to items.      *)

\* The runtime configuration that the file at ConfigName gives.
RuntimeOf(configs) ==
  IF configs = {} THEN [ok |-> TRUE, seen |-> {}, config |-> RuntimeDefault]
  ELSE RuntimeParse((CHOOSE e \in configs : TRUE).data)

HasKind(items, path, kinds) ==
  \E i \in DOMAIN items : items[i].name = path /\ items[i].kind \in kinds

\* bin/sh, sbin/burning-progress and, if it gets the whole machine, the entry.
IsRecoveryRoot(items, runtime) ==
  /\ \A name \in RequiredNames : HasKind(items, name, {"file", "link", "hard"})
  /\ runtime.entryMode = "handoff" =>
       HasKind(items, Tail(runtime.entry), {"file", "hard"})

\* Mutant: the list is not sorted before neighbours are compared.
DistinctNeighbours(items) ==
  \A i \in DOMAIN items :
    i + 1 \in DOMAIN items => items[i].name # items[i + 1].name

Distinct(items) ==
  \A i, j \in DOMAIN items : items[i].name = items[j].name => i = j

Refused == [ok |-> FALSE, runtime |-> RuntimeDefault, prefix |-> NoName]

Verdict(ok, runtime, prefix) ==
  IF ok THEN [ok |-> TRUE, runtime |-> runtime, prefix |-> prefix] ELSE Refused

-----------------------------------------------------------------------------
(* newc CPIO.                                                               *)

\* valid_archive_name: relative, no empty, "." or ".." component; a slash at
\* the end is let through, so that a and a/ are different names.
ValidArchiveName(name) ==
  /\ name[1] # Nothing
  /\ \A i \in DOMAIN name :
       name[i] \in Special => name[i] = Nothing /\ i = Len(name)

\* bp_cpio_verify_internal.
CpioVerify(archive, require) ==
  LET items == archive.entries
      configs == {e \in ToSet(items) : e.name = ConfigName}
      runtime == RuntimeOf(configs)
  IN  Verdict(/\ ~archive.cut
              /\ \A i \in DOMAIN items :
                   /\ ValidArchiveName(items[i].name) /\ items[i].kind \in Kinds
                   /\ items[i].kind = "dir" => items[i].data = <<>>
              /\ Distinct(items)
              /\ \A e \in configs : e.kind = "file"
              /\ runtime.ok
              /\ require => IsRecoveryRoot(items, runtime.config),
              runtime.config, NoName)

-----------------------------------------------------------------------------
(* tar.gz.                                                                  *)

\* What is left of a name without "./" in front and slashes at the end.
Trimmed(name) ==
  LET first == 1 + Cardinality({i \in 1..(Len(name) - 1) :
                                  \A j \in 1..i : name[j] = "."})
      blanks == {i \in first..Len(name) :
                   \A j \in i..Len(name) : name[j] = Nothing}
  IN  SubSeq(name, first, Len(name) - Cardinality(blanks))

\* normalize_tar_path: the entry of the root itself has no path.
IsRootName(name) == Trimmed(name) \in {<<>>, <<".">>}

SafeTarName(name) ==
  IsRootName(name) \/ \A i \in DOMAIN Trimmed(name) :
                        Trimmed(name)[i] \notin Special

TarItem(e) ==
  Entry(Trimmed(e.name), e.kind, e.data,
        IF e.kind = "hard" THEN Trimmed(e.to) ELSE e.to)

\* The checks on an entry while it is read.
SafeTarEntry(e) ==
  /\ SafeTarName(e.name)
  /\ ~IsRootName(e.name) =>
       /\ e.kind \in Kinds \cup {"hard"}
       /\ e.kind \in {"dir", "hard"} => e.data = <<>>
       /\ e.kind = "hard" => SafeTarName(e.to) /\ ~IsRootName(e.to)

TarItems(entries) ==
  [i \in {j \in DOMAIN entries : ~IsRootName(entries[j].name)} |->
     TarItem(entries[i])]

Within(path, prefix) == prefix = NoName \/ IsPrefix(prefix, path)

\* apply_single_root_prefix: the first directory without a slash that all
\* the rest is inside of.
RootCandidates(items) ==
  {i \in DOMAIN items :
     /\ items[i].kind = "dir" /\ Len(items[i].name) = 1
     /\ \A j \in DOMAIN items : Within(items[j].name, items[i].name)}

\* They all have one name, each being inside of the others.
RootPrefix(items) ==
  IF RootCandidates(items) = {} THEN NoName
  ELSE items[CHOOSE i \in RootCandidates(items) : TRUE].name

\* strip_tar_prefix; an entry that repeats the prefix has nothing left.
Stripped(path, prefix) == SubSeq(path, Len(prefix) + 1, Len(path))

\* A repeated prefix stays in the list under its own name.
StrippedItem(item, prefix) ==
  Entry(IF item.name = prefix THEN prefix ELSE Stripped(item.name, prefix),
        item.kind, item.data,
        IF item.kind = "hard" THEN Stripped(item.to, prefix) ELSE item.to)

\* The directory that gives the prefix is taken off the list.
StrippedItems(items, prefix) ==
  IF prefix = NoName THEN items
  ELSE [i \in DOMAIN items \ {Min(RootCandidates(items))} |->
          StrippedItem(items[i], prefix)]

HardLinksStripped(items, prefix) ==
  \A i \in DOMAIN items : items[i].kind = "hard" =>
    Within(items[i].to, prefix) /\ (prefix # NoName => items[i].to # prefix)

\* verify_tar_hardlinks: to a file of the archive that comes before.
HardLinksSafe(items) ==
  \A i \in DOMAIN items : items[i].kind = "hard" =>
    \E j \in DOMAIN items :
      j < i /\ items[j].name = items[i].to /\ items[j].kind = "file"

\* bp_tar_gzip_verify_internal; the configuration counts only where a
\* recovery root is required, only one candidate is allowed, and it is
\* dropped if it is not at its place in the end.
TarVerify(archive, require) ==
  LET items == TarItems(archive.entries)
      candidates == {i \in DOMAIN items :
                       require /\ IsSuffix(ConfigName, items[i].name)}
      prefix == RootPrefix(items)
      list == StrippedItems(items, prefix)
      configs == {items[i] : i \in {j \in candidates :
                    Stripped(items[j].name, prefix) = ConfigName}}
      runtime == RuntimeOf(configs)
  IN  Verdict(/\ ~archive.cut
              /\ \A i \in DOMAIN archive.entries :
                   SafeTarEntry(archive.entries[i])
              /\ Cardinality(candidates) <= 1
              /\ \A i \in candidates : items[i].kind = "file"
              /\ HardLinksStripped(items, prefix)
              /\ Distinct(list)
              /\ HardLinksSafe(list)
              /\ runtime.ok
              /\ require => IsRecoveryRoot(list, runtime.config),
              runtime.config, prefix)

\* bp_rootfs_verify: the format that was detected is the one that is read.
Verify(archive, format, require) ==
  IF format # archive.format \/ format \notin {"cpio", "tar.gz"} THEN Refused
  ELSE IF format = "cpio" THEN CpioVerify(archive, require)
  ELSE TarVerify(archive, require)
=============================================================================
