------------------------------ MODULE Archives ------------------------------
(***************************************************************************)
(* The two sides of a recovery archive, Unpack and SourceDir, at one path: *)
(* what is packed is what is extracted, and a pack may publish while an    *)
(* extraction is under way.                                                *)
(*                                                                         *)
(* The sides share nothing but the archive.  The bounds that follow from   *)
(* it are named: Meets lets the source side move during an extraction only *)
(* where it publishes, Unpublished lets one archive be published, Settled  *)
(* lets the owner change the directory once in a pack.                     *)
(***************************************************************************)
EXTENDS Unpack, SourceDir

CONSTANTS
  Downloads,      \* archives that came from elsewhere, no directory beside
  Replacements,   \* what they may be replaced by
  Existing,       \* the archive that a pack replaces
  Sources         \* what its owner makes of the directory

\* A name is a sequence with something in it, be it nothing between slashes.
IsName(path) == path \in Seq(ToSet(path)) /\ path # NoName

\* A path in a directory.
IsPath(path) == IsName(path) /\ \A i \in 1..Len(path) : path[i] \notin Special

NodeKinds == Kinds \cup {"other"}

IsEntry(e) ==
  /\ e = Entry(e.name, e.kind, e.data, e.to)
  /\ IsName(e.name) /\ e.kind \in NodeKinds \cup {"hard"} /\ IsText(e.data)
  /\ e.kind = "hard" => IsName(e.to)

AreEntries(entries) ==
  entries \in Seq(ToSet(entries)) /\ \A i \in DOMAIN entries : IsEntry(entries[i])

IsArchive(file) ==
  file.format \in {"cpio", "tar.gz", "other"} /\ AreEntries(file.entries)

IsTree(tree) ==
  /\ tree = [path \in DOMAIN tree |-> Node(tree[path].kind, tree[path].data)]
  /\ \A path \in DOMAIN tree :
       IsPath(path) /\ tree[path].kind \in NodeKinds /\ IsText(tree[path].data)

ASSUME ArchivesAssumption ==
  /\ \A file \in Downloads \cup Replacements \cup {Existing} : IsArchive(file)
  /\ \A tree \in Sources : IsTree(tree)

vars == <<archive, unpackVars, sourceVars>>

Init ==
  /\ UnpackInit /\ SourceInit
  /\ \/ archive \in Downloads /\ source = NoSource
     \/ archive = Existing /\ source \in Sources

-----------------------------------------------------------------------------

Meets == unpack = "idle" \/ command = "verify"

Unpublished == command \in CommandEnded => archive = Existing

Settled == command \in PackSteps \ {"launcher"} => ~edited

Extraction == UnpackNext /\ UNCHANGED sourceVars

Command == Meets /\ Unpublished /\ SourceNext /\ NoticeReplaced

OwnerEdits ==
  /\ unpack = "idle" /\ Unpublished /\ Settled
  /\ \E tree \in Sources : Edit(tree)
  /\ UNCHANGED unpackVars

\* Another file is renamed to the path, while that makes a difference.
Replaced ==
  /\ source = NoSource /\ unpack \in {"verify", "reopen"}
  /\ archive' \in Replacements
  /\ NoticeReplaced
  /\ UNCHANGED sourceVars

Next == Extraction \/ Command \/ OwnerEdits \/ Replaced

Spec == Init /\ [][Next]_vars

-----------------------------------------------------------------------------

HasNodes(tree) == \A path \in DOMAIN tree : tree[path].kind \in NodeKinds

\* The shapes of the variables.
TypeOK ==
  /\ HasNodes(dest) /\ HasNodes(source)
  /\ archive.format \in {"cpio", "tar.gz", "other"}
  /\ unpack \in UnpackSteps \cup {"idle", "extracted", "refused"}
  /\ done \in 0..Len(opened.entries) /\ Len(links) <= done
  /\ command \in CommandEnded \cup ConfigureSteps \cup PackSteps
  /\ \A key \in DOMAIN answered : RuntimeLegal(key, answered[key])
  /\ temporary \in {"none", "ours", "stale"}
  /\ {require, swapped, edited} \subseteq BOOLEAN
=============================================================================
