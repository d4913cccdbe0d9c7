------------------------------ MODULE SourceDir ------------------------------
(***************************************************************************)
(* The directory a recovery root is made in, and the commands that work on *)
(* it: `rootfs configure` and `rootfs pack` of                             *)
(* src/src/burning_progress.c, with src/src/rootfs.c and the packers of    *)
(* src/src/cpio.c and src/src/tar.c.                                       *)
(*                                                                         *)
(* One command runs at a time; its owner may change the directory at any   *)
(* moment.  Each file is replaced by bp_atomic_write or bp_atomic_copy,    *)
(* which is one step here.  The output of a pack is outside of the source. *)
(* A file is read in one step, and the size check on a file that grows     *)
(* meanwhile is left out, as are mount points.                             *)
(***************************************************************************)
EXTENDS ArchiveFile

CONSTANT Answers   \* runtime configurations that are typed in

VARIABLES
  source,       \* the tree of the directory
  command,      \* the step of the command, or how it ended
  packFormat,   \* what pack makes
  answered,     \* what configure writes
  visited,      \* the paths the packer has collected (cpio) or walked (tar)
  written,      \* the entries in its temporary archive
  temporary,    \* that file: "none", "ours" or "stale"
  edited        \* the owner changed the source since the launcher, or the
                \* entry, was put there, or at all (history)

sourceVars ==
  <<source, command, packFormat, answered, visited, written, temporary, edited>>

CommandEnded == {"idle", "packed", "configured", "failed"}
ConfigureSteps == {"load", "entry", "save", "reload"}
PackSteps == {"launcher", "check", "collect", "create", "write", "verify",
              "sync"}

EntryName == Tail(DefaultEntry)
Launcher == <<Line("launcher", "")>>
DefaultScript == <<Line("exec", "")>>

-----------------------------------------------------------------------------
(* What is there.  In a tree everything has real directories above it.      *)

Is(tree, path, kinds) == path \in DOMAIN tree /\ tree[path].kind \in kinds

\* Not there at all, or one of these.
MayBe(tree, path, kinds) == path \in DOMAIN tree => tree[path].kind \in kinds

\* bp_rootfs_runtime_config_load: no symbolic link for etc or for the file.
RuntimeLoad(tree) ==
  IF ~MayBe(tree, <<"etc">>, {"dir"}) \/ ~MayBe(tree, ConfigName, {"file"})
    THEN [ok |-> FALSE, seen |-> {}, config |-> RuntimeDefault]
  ELSE IF ConfigName \notin DOMAIN tree
    THEN [ok |-> TRUE, seen |-> {}, config |-> RuntimeDefault]
  ELSE RuntimeParse(tree[ConfigName].data)

\* bp_rootfs_source_verify.
SourceVerify(tree) ==
  LET runtime == RuntimeLoad(tree)
  IN  /\ runtime.ok
      /\ \A name \in RequiredNames : Is(tree, name, {"file", "link"})
      /\ runtime.config.entryMode = "handoff" =>
           Is(tree, Tail(runtime.config.entry), {"file"})

\* There is no such directory: nothing but a root that is not one.
NoSource == [path \in {NoName} |-> Node("other", <<>>)]

Put(tree, path, data) ==
  WithNode(WithDirectories(tree, Parents(path)), path, Node("file", data))

-----------------------------------------------------------------------------
(* rootfs configure.                                                        *)

StartConfigure ==
  /\ command \in CommandEnded /\ source # NoSource
  /\ command' = "load"
  /\ visited' = {} /\ written' = <<>>
  /\ UNCHANGED <<archive, source, packFormat, answered, temporary, edited>>

\* Mutant: an answer is taken as it is typed.
LoadAndAskUnchecked ==
  /\ command = "load"
  /\ RuntimeLoad(source).ok
  /\ \E answers \in Answers :
       answered' = Updated(RuntimeLoad(source).config, answers)
  /\ command' = "entry"
  /\ UNCHANGED <<archive, source, packFormat, visited, written, temporary,
                 edited>>

\* The configuration that is there, and the answers on top of it: an answer
\* may be empty, one that is not legal is asked for again.
LoadAndAsk ==
  /\ command = "load"
  /\ RuntimeLoad(source).ok
  /\ \E answers \in Answers :
       /\ \A key \in DOMAIN answers : RuntimeLegal(key, answers[key])
       /\ answered' = Updated(RuntimeLoad(source).config, answers)
  /\ command' = "entry"
  /\ UNCHANGED <<archive, source, packFormat, visited, written, temporary,
                 edited>>

\* Mutant: the default entry is not made.
EnsureEntrySkipped ==
  /\ command = "entry"
  /\ command' = "save"
  /\ edited' = FALSE
  /\ UNCHANGED <<archive, source, packFormat, answered, visited, written,
                 temporary>>

\* bp_rootfs_default_entry_ensure: a file that is there is kept.
EnsureEntry ==
  /\ command = "entry"
  /\ answered.entry = DefaultEntry =>
       MayBe(source, <<"etc">>, {"dir"}) /\ MayBe(source, EntryName, {"file"})
  /\ source' = IF answered.entry = DefaultEntry /\ EntryName \notin DOMAIN source
                 THEN Put(source, EntryName, DefaultScript) ELSE source
  /\ command' = "save"
  /\ edited' = FALSE
  /\ UNCHANGED <<archive, packFormat, answered, visited, written, temporary>>

\* bp_rootfs_runtime_config_save; rename replaces anything but a directory.
SaveConfig ==
  /\ command = "save"
  /\ MayBe(source, <<"etc">>, {"dir"})
  /\ MayBe(source, ConfigName, {"file", "link", "other"})
  /\ source' = Put(source, ConfigName, RuntimeFormat(answered))
  /\ command' = "reload"
  /\ UNCHANGED <<archive, packFormat, answered, visited, written, temporary,
                 edited>>

\* command_rootfs_configure reads what it reports.
ReloadConfig ==
  /\ command = "reload"
  /\ RuntimeLoad(source).ok
  /\ command' = "configured"
  /\ UNCHANGED <<archive, source, packFormat, answered, visited, written,
                 temporary, edited>>

-----------------------------------------------------------------------------
(* rootfs pack.                                                             *)

StartPack(wanted) ==
  /\ command \in CommandEnded /\ source # NoSource
  /\ command' = "launcher"
  /\ packFormat' = wanted
  /\ visited' = {} /\ written' = <<>> /\ answered' = RuntimeDefault
  /\ UNCHANGED <<archive, source, temporary, edited>>

\* ensure_pack_burning_progress: the running program becomes the launcher.
PutLauncher ==
  /\ command = "launcher"
  /\ MayBe(source, <<"sbin">>, {"dir"})
  /\ MayBe(source, ProgressName, {"file", "link"})
  /\ source' = Put(source, ProgressName, Launcher)
  /\ command' = "check"
  /\ edited' = FALSE
  /\ UNCHANGED <<archive, packFormat, answered, visited, written, temporary>>

CheckSource ==
  /\ command = "check"
  /\ SourceVerify(source)
  /\ command' = IF packFormat = "cpio" THEN "collect" ELSE "create"
  /\ UNCHANGED <<archive, source, packFormat, answered, visited, written,
                 temporary, edited>>

\* collect_directory; anything but files, directories and links is refused.
Collect ==
  /\ command = "collect"
  /\ \A path \in DOMAIN source : source[path].kind \in Kinds
  /\ visited' = DOMAIN source
  /\ command' = "create"
  /\ UNCHANGED <<archive, source, packFormat, answered, written, temporary,
                 edited>>

CreateTemporary ==
  /\ command = "create" /\ temporary = "none"
  /\ temporary' = "ours"
  /\ command' = "write"
  /\ UNCHANGED <<archive, source, packFormat, answered, visited, written,
                 edited>>

\* O_EXCL: the file that a killed packer with this process id has left.
TemporaryInTheWay ==
  /\ command = "create" /\ temporary = "stale"
  /\ temporary' = IF packFormat = "cpio" THEN "none" ELSE "stale"
  /\ command' = "failed"
  /\ UNCHANGED <<archive, source, packFormat, answered, visited, written,
                 edited>>

Written == {written[i].name : i \in DOMAIN written}

\* The next path: a directory comes before what is in it.
NextOf(paths) ==
  CHOOSE path \in paths : \A q \in paths : Len(path) <= Len(q)

ToWrite == (IF packFormat = "cpio" THEN visited ELSE DOMAIN source) \ Written

\* A collected path is looked at again, whatever it is by then; a walked one
\* must be of a kind that is packed.
WriteEntry ==
  /\ command = "write" /\ ToWrite # {}
  /\ LET path == NextOf(ToWrite)
     IN  /\ path \in DOMAIN source
         /\ packFormat = "tar.gz" => source[path].kind \in Kinds
         /\ written' = Append(written, Entry(path, source[path].kind,
                                             source[path].data, NoName))
  /\ UNCHANGED <<archive, source, command, packFormat, answered, visited,
                 temporary, edited>>

\* The trailer, fsync, close.
FinishArchive ==
  /\ command = "write" /\ ToWrite = {}
  /\ command' = "verify"
  /\ UNCHANGED <<archive, source, packFormat, answered, visited, written,
                 temporary, edited>>

Packed == [format |-> packFormat, entries |-> written, cut |-> FALSE]

\* Mutant: what was written is not read again.
PublishUnread ==
  /\ command = "verify"
  /\ archive' = Packed
  /\ temporary' = "none"
  /\ command' = "sync"
  /\ UNCHANGED <<source, packFormat, answered, visited, written, edited>>

\* The verification of the temporary archive, and the rename.
Publish ==
  /\ command = "verify"
  /\ Verify(Packed, packFormat, TRUE).ok
  /\ archive' = Packed
  /\ temporary' = "none"
  /\ command' = "sync"
  /\ UNCHANGED <<source, packFormat, answered, visited, written, edited>>

FinishPack ==
  /\ command = "sync"
  /\ command' = "packed"
  /\ UNCHANGED <<archive, source, packFormat, answered, visited, written,
                 temporary, edited>>

-----------------------------------------------------------------------------

\* Mutant: the temporary file of a failed pack stays.
FailKeeps ==
  /\ command \in ConfigureSteps \cup PackSteps
  /\ command = "create" => temporary = "none"
  /\ command' = "failed"
  /\ UNCHANGED <<archive, source, packFormat, answered, visited, written,
                 temporary, edited>>

\* A check that does not hold, or a system call that fails: the temporary
\* file is unlinked.
Fail ==
  /\ command \in ConfigureSteps \cup PackSteps
  /\ command = "create" => temporary = "none"
  /\ command' = "failed"
  /\ temporary' = IF temporary = "ours" THEN "none" ELSE temporary
  /\ UNCHANGED <<archive, source, packFormat, answered, visited, written,
                 edited>>

KilledAtSource ==
  /\ command \notin CommandEnded
  /\ command' = "idle"
  /\ temporary' = IF temporary = "ours" THEN "stale" ELSE temporary
  /\ UNCHANGED <<archive, source, packFormat, answered, visited, written,
                 edited>>

\* The owner of the directory changes it.
Edit(tree) ==
  /\ source # NoSource
  /\ source' = tree
  /\ edited' = TRUE
  /\ UNCHANGED <<archive, command, packFormat, answered, visited, written,
                 temporary>>

SourceInit ==
  /\ command = "idle" /\ packFormat = "cpio" /\ answered = RuntimeDefault
  /\ visited = {} /\ written = <<>> /\ temporary = "none"
  /\ edited = FALSE

SourceNext ==
  \/ StartConfigure \/ LoadAndAsk \/ EnsureEntry \/ SaveConfig
  \/ ReloadConfig
  \/ \E wanted \in {"cpio", "tar.gz"} : StartPack(wanted)
  \/ PutLauncher \/ CheckSource \/ Collect \/ CreateTemporary
  \/ TemporaryInTheWay \/ WriteEntry \/ FinishArchive \/ Publish \/ FinishPack
  \/ Fail \/ KilledAtSource

-----------------------------------------------------------------------------
(* Properties.                                                              *)

TreeOf(entries) ==
  [path \in {e.name : e \in ToSet(entries)} |->
     LET e == CHOOSE e \in ToSet(entries) : e.name = path
     IN  Node(e.kind, e.data)]

\* A pack that reports success has published an archive that a boot would
\* take for a recovery root, even if its owner changed the directory while it
\* was packed; if he did not, the archive holds exactly what is in the
\* directory, and no boot takes its top directory for a wrapper to strip.
PackedIsSource ==
  command = "packed" =>
    LET verdict == Verify(Packed, packFormat, TRUE)
    IN  /\ verdict.ok
        /\ ~edited => TreeOf(written) = source /\ verdict.prefix = NoName

\* Whatever fails at whichever step, a command that ends by itself leaves no
\* temporary archive of its own; and where a killed packer with its process
\* id has left one, no pack reports success with that file still there.
PackCleansUp ==
  /\ command = "packed" => temporary = "none"
  /\ command = "failed" => temporary # "ours"

\* A directory whose configuration can be read names no default entry that
\* is not there as a regular file.
EntryIfNamed(tree) ==
  LET runtime == RuntimeLoad(tree)
  IN  runtime.ok /\ runtime.config.entry = DefaultEntry
        => Is(tree, EntryName, {"file"})

EntryKept ==
  /\ EntryIfNamed(source) => EntryIfNamed(source')
  /\ command' = "configured" => RuntimeLoad(source').ok /\ EntryIfNamed(source')

\* A configure that is killed or fails between its two writes makes no
\* directory that names a missing default entry of one that did not: the
\* entry comes first.  One that reports success leaves a configuration that
\* reads back, with that entry.  Both unless the owner interferes.
ConfigureKeepsEntry ==
  [][~edited' /\ command \in ConfigureSteps => EntryKept]_sourceVars
=============================================================================
