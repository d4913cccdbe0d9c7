------------------------------- MODULE Unpack -------------------------------
(***************************************************************************)
(* Extraction of a recovery archive: bp_rootfs_extract (stage 1, which     *)
(* requires a recovery root) and bp_rootfs_unpack (the command line, which *)
(* does not) of src/src/rootfs.c, with bp_cpio_extract_internal of         *)
(* src/src/cpio.c and bp_tar_gzip_extract_internal of src/src/tar.c.       *)
(*                                                                         *)
(* The archive is opened three times, to find its format, to verify it and *)
(* to extract it, and another file may be renamed to its path in between.  *)
(* The entries are then put into an empty directory one by one; any of     *)
(* that may fail and leave a part (the parents that an entry gets before   *)
(* it is refused are left out).  What libarchive does with a tar entry is  *)
(* external and given by the options the code sets.                        *)
(***************************************************************************)
EXTENDS ArchiveFile

VARIABLES
  dest,       \* the tree in the destination directory
  unpack,     \* the step of the extraction, or how it ended
  require,    \* it must be a recovery root
  format,     \* what detect_format found
  info,       \* what the verification said
  opened,     \* the archive that is extracted
  done,       \* the number of its entries that are extracted
  links,      \* the symbolic links put off, in order
  swapped     \* the archive was replaced since it was verified (history)

unpackVars ==
  <<dest, unpack, require, format, info, opened, done, links, swapped>>

UnpackSteps == {"detect", "verify", "reopen", "entries", "links"}

-----------------------------------------------------------------------------

StartUnpack(required, empty) ==
  /\ unpack = "idle"
  /\ unpack' = "detect"
  /\ require' = required
  /\ dest' = IF empty THEN EmptyTree
             ELSE WithNode(EmptyTree, <<"lost+found">>, Directory)
  /\ UNCHANGED <<archive, format, info, opened, done, links, swapped>>

\* detect_format: the magic of the file; anything else is refused.
Detect ==
  /\ unpack = "detect"
  /\ format' = archive.format
  /\ unpack' = IF archive.format = "other" THEN "refused" ELSE "verify"
  /\ UNCHANGED <<archive, dest, require, info, opened, done, links, swapped>>

VerifyArchive ==
  /\ unpack = "verify"
  /\ info' = Verify(archive, format, require)
  /\ unpack' = IF info'.ok THEN "reopen" ELSE "refused"
  /\ UNCHANGED <<archive, dest, require, format, opened, done, links, swapped>>

\* The destination is made if it is not there and must be empty.
Reopen ==
  /\ unpack = "reopen"
  /\ IF dest = EmptyTree /\ archive.format = format
       THEN unpack' = "entries" /\ opened' = archive
       ELSE unpack' = "refused" /\ UNCHANGED opened
  /\ UNCHANGED <<archive, dest, require, format, info, done, links, swapped>>

-----------------------------------------------------------------------------
(* One entry of a CPIO archive.                                             *)

\* Mutant: any parent that is there will do.
SafeParentsExist(tree, name) == TRUE

\* ensure_safe_parent: no parent may be anything but a directory.
SafeParents(tree, name) ==
  \A parent \in Parents(name) \cap DOMAIN tree : tree[parent].kind = "dir"

\* The node of an entry; no data is written for a directory.
Made(e) == IF e.kind = "dir" THEN Directory ELSE Node(e.kind, e.data)

PathOf(name) == IF Last(name) = Nothing THEN Front(name) ELSE name

\* What the entry makes of the tree; none, if it is refused.  With a slash
\* at the end only a directory can be made.
CpioTrees(tree, e) ==
  LET parents == WithDirectories(tree, Parents(e.name))
      path == PathOf(e.name)
      free == path \notin DOMAIN parents
      fits == \/ e.kind = "dir" /\ (free \/ parents[path].kind = "dir")
              \/ e.kind = "file" /\ free
  IN  IF ValidArchiveName(e.name) /\ SafeParents(tree, e.name) /\ fits
        THEN {IF free THEN WithNode(parents, path, Made(e)) ELSE parents}
        ELSE {}

\* A symbolic link only gets its parents now.
CpioPutOff(tree, e) ==
  IF ValidArchiveName(e.name) /\ SafeParents(tree, e.name)
    THEN {WithDirectories(tree, Parents(e.name))} ELSE {}

-----------------------------------------------------------------------------
(* One entry of a tar archive, by archive_read_extract2 (external) with     *)
(* SECURE_SYMLINKS, SECURE_NODOTDOT and SECURE_NOABSOLUTEPATHS.             *)

TarPath(e) == Stripped(Trimmed(e.name), info.prefix)

\* The root and the prefix are skipped.
TarSkips(e) == IsRootName(e.name) \/ TarPath(e) = NoName

\* Outside of the prefix, or a hard link to what it is not one for.
TarRefuses(e) ==
  \/ ~SafeTarName(e.name)
  \/ ~IsRootName(e.name) /\ ~Within(Trimmed(e.name), info.prefix)
  \/ /\ ~IsRootName(e.name) /\ e.kind = "hard" /\ TarPath(e) # NoName
     /\ \/ ~SafeTarName(e.to) \/ IsRootName(e.to)
        \/ ~Within(Trimmed(e.to), info.prefix)
        \/ Stripped(Trimmed(e.to), info.prefix) = NoName

Without(tree, paths) == [path \in DOMAIN tree \ paths |-> tree[path]]

\* No symbolic link on the way; what else is on the way and no directory may
\* be replaced by one, what is at the path may be replaced unless it is a
\* directory with something in it.
TarTrees(tree, e) ==
  LET path == TarPath(e)
      onTheWay == Parents(path) \cap DOMAIN tree
      files == {p \in onTheWay : tree[p].kind # "dir"}
      parents == WithDirectories(Without(tree, files), Parents(path))
      target == Stripped(Trimmed(e.to), info.prefix)
      node == IF e.kind # "hard" THEN Made(e)
              ELSE Node("file", parents[target].data)
      fits == /\ \A p \in onTheWay : tree[p].kind # "link"
              /\ e.kind = "hard" =>
                   target \in DOMAIN parents /\ parents[target].kind = "file"
              /\ e.kind # "dir" => \A p \in DOMAIN tree : path \notin Parents(p)
  IN  IF fits THEN {WithNode(parents, path, node)} ELSE {}

-----------------------------------------------------------------------------

More == unpack = "entries" /\ done < Len(opened.entries)
Current == opened.entries[done + 1]

\* The entry gives one of the trees, or extraction ends here.
Extract(trees, putOff) ==
  /\ \/ dest' \in trees /\ done' = done + 1 /\ links' = links \o putOff
        /\ UNCHANGED unpack
     \/ trees = {} /\ unpack' = "refused" /\ UNCHANGED <<dest, done, links>>
  /\ UNCHANGED <<archive, require, format, info, opened, swapped>>

CpioEntry ==
  /\ More /\ format = "cpio" /\ Current.kind # "link"
  /\ Extract(CpioTrees(dest, Current), <<>>)

CpioLink ==
  /\ More /\ format = "cpio" /\ Current.kind = "link"
  /\ Extract(CpioPutOff(dest, Current), <<Current>>)

TarEntry ==
  /\ More /\ format = "tar.gz"
  /\ Extract(IF TarRefuses(Current) THEN {}
             ELSE IF TarSkips(Current) THEN {dest}
             ELSE TarTrees(dest, Current), <<>>)

\* The end of the archive: an archive that is cut has none.
EndOfEntries ==
  /\ unpack = "entries" /\ done = Len(opened.entries)
  /\ unpack' = IF opened.cut THEN "refused" ELSE "links"
  /\ UNCHANGED <<archive, dest, require, format, info, opened, done, links,
                 swapped>>

\* symlink() makes a link only where nothing is.
MakeLink ==
  /\ unpack = "links" /\ links # <<>>
  /\ LET path == Head(links).name
     IN  IF Last(path) = Nothing \/ path \in DOMAIN dest
           THEN unpack' = "refused" /\ UNCHANGED <<dest, links>>
           ELSE /\ dest' = WithNode(dest, path, Node("link", Head(links).data))
                /\ links' = Tail(links)
                /\ UNCHANGED unpack
  /\ UNCHANGED <<archive, require, format, info, opened, done, swapped>>

\* The modes of the directories; that changes no node.
FinishUnpack ==
  /\ unpack = "links" /\ links = <<>>
  /\ unpack' = "extracted"
  /\ UNCHANGED <<archive, dest, require, format, info, opened, done, links,
                 swapped>>

\* Any system call may fail, a process may be killed: what is there stays.
UnpackFails ==
  /\ unpack \in UnpackSteps
  /\ unpack' = "refused"
  /\ UNCHANGED <<archive, dest, require, format, info, opened, done, links,
                 swapped>>

\* The next extraction is into another directory.
LeaveDestination ==
  /\ unpack \in {"extracted", "refused"}
  /\ unpack' = "idle" /\ dest' = EmptyTree /\ require' = FALSE
  /\ format' = "other" /\ info' = Refused /\ opened' = NoArchive
  /\ done' = 0 /\ links' = <<>> /\ swapped' = FALSE
  /\ UNCHANGED archive

\* What it means to an extraction that the file at the path changes.
NoticeReplaced ==
  /\ swapped' = (swapped \/ (unpack = "reopen" /\ archive' # archive))
  /\ UNCHANGED <<dest, unpack, require, format, info, opened, done, links>>

UnpackInit ==
  /\ dest = EmptyTree /\ unpack = "idle" /\ require = FALSE
  /\ format = "other" /\ info = Refused /\ opened = NoArchive
  /\ done = 0 /\ links = <<>> /\ swapped = FALSE

UnpackNext ==
  \/ \E required, empty \in BOOLEAN : StartUnpack(required, empty)
  \/ Detect \/ VerifyArchive \/ Reopen
  \/ CpioEntry \/ CpioLink \/ TarEntry
  \/ EndOfEntries \/ MakeLink \/ FinishUnpack \/ UnpackFails
  \/ LeaveDestination

-----------------------------------------------------------------------------
(* Properties.                                                              *)

\* Whatever the archive says, and also when it is not the one that was
\* verified (StartUnpack to MakeLink), every node that is written
\* has real directories of the destination above it, so that nothing is
\* written through a symbolic link or outside of the destination.
StaysInside ==
  \A path \in DOMAIN dest :
    /\ path # NoName
    /\ \A i \in DOMAIN path : path[i] \notin Special
    /\ \A parent \in Parents(path) :
         parent \in DOMAIN dest /\ dest[parent].kind = "dir"

\* The paths that the verified entries have, by the format.  A tar entry that
\* names the wrapper again is none of them, though the verification keeps it
\* under that name: the extraction skips it.
Listed ==
  LET entries == opened.entries
  IN  IF format = "cpio"
        THEN [i \in DOMAIN entries |->
                Entry(PathOf(entries[i].name), entries[i].kind,
                      entries[i].data, NoName)]
        ELSE [i \in {j \in DOMAIN entries : ~TarSkips(entries[j])} |->
                Entry(TarPath(entries[i]), entries[i].kind, entries[i].data,
                      Stripped(Trimmed(entries[i].to), info.prefix))]

\* What a listed entry is a node of.
NodeOf(e) ==
  IF e.kind # "hard" THEN Node(e.kind, e.data)
  ELSE Node("file", (CHOOSE t \in ToSet(Listed) : t.name = e.to).data)

\* An extraction that succeeds, of the archive that was verified, has made
\* exactly its entries and the directories above them, with the kinds and
\* data they have in the archive: no entry hides another, no late one
\* replaces an early one.  In a cpio archive the configuration that the
\* verification read is also the one that is there.  In a tar a file that has
\* entries below it becomes a directory, which libarchive may do: a tar with
\* a file bin/sh and an entry bin/sh/x is verified as a recovery root and is
\* extracted without its shell.  Neither property nor verification sees it.
ExtractedIsVerified ==
  unpack = "extracted" /\ ~swapped =>
    LET above == UNION {Parents(e.name) : e \in ToSet(Listed)}
    IN  /\ DOMAIN dest = {e.name : e \in ToSet(Listed)} \cup above
        /\ \A e \in ToSet(Listed) :
             \/ dest[e.name] = NodeOf(e)
             \/ format = "tar.gz" /\ e.name \in above
        /\ format = "cpio" =>
             info.runtime =
               IF ConfigName \in DOMAIN dest
                 THEN RuntimeParse(dest[ConfigName].data).config
                 ELSE RuntimeDefault
=============================================================================
