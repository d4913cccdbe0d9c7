# Burning Progress in TLA+

TLA+ modules, TLC runs and TLAPS proofs about Burning Progress, the recovery
manager that puts a dispatcher at `/sbin/init`, shows a boot menu when it is
enabled, and can move the machine into a RAM root to work on its disk. Paths are
those of the repository (`src/install.c` stands for `src/src/install.c` of the
source tree this directory is kept beside).

## 1. Inventory

| Component | State | Operations | Talks to |
|---|---|---|---|
| Dispatcher, `src/burning_init.c` | none of its own; reads the `enable` mark and the kernel command line | decide, exec stage 1, exec the original init | stage 1, the original init |
| Installer, `src/install.c` | `/sbin/init`, its backup, two binaries, `install-state`, the host configuration | `bp_install` with rollback, `bp_uninstall`, `bp_is_installed` | atomic file primitives, SHA-256, configuration |
| Atomic file primitives, `src/common.c` | a temporary file and the directory it is renamed in | write, copy, symlink, hard link, remove, each followed by the fsync of the directory | everything that writes |
| Command line, `src/burning_progress.c` | the marks `enable` and `onlyOnce`; staging directories in `/tmp` | `enable`, `disable`, `config`, `status`, `rootfs ...` | installer, archives, configuration |
| Configuration, `src/config.c` | two structures, parsed from `key=value` text | default, parse, format, ensure | stage 1, stage 2, commands |
| Stage 1, `src/runtime.c` | console, configuration, menu deadline, the mounts made so far | consume a one-shot mark, menu, `enter_ram_root` with rollback | archives, the original init, stage 2 |
| Stage 2, `src/runtime.c` | swap areas, old mounts, processes that use them | swapoff, unmount, terminate holders, supervise or hand off, shell loop | the recovery entry |
| Archives, `src/cpio.c`, `src/tar.c` | an archive at a path; while one is extracted the tree made so far and the links put off; while one is packed the paths collected and the temporary archive | verify, extract, unpack, pack | stage 1, commands |
| Recovery-root helpers, `src/rootfs.c` | the directory a recovery root is made in, with its configuration, entry and launcher | format detection, load and save of the configuration, default entry, verification of a source | commands, archives |
| SHA-256, `src/sha256.c` | - | digest of a file | installer, archives |

What makes them hard:

- Power can fail at any instant, the kernel writes directory entries back when
  it likes, and the same program then has to start the machine from what is
  left. `/sbin/init` is involved, so a wrong order bricks the machine.
- Every fsync comes after a rename that cannot be taken back; a failed fsync
  finds the code with a change made that it does not know to be made.
- No command takes a lock.
- Process 1 must never end or wait for ever, whatever call fails; after
  `pivot_root` the way back is gone.
- Other processes hold the old root while stage 2 wants to let go of it.
- An archive is opened three times by name, and its owner changes the directory
  it is made from while it is packed.
- Names in an archive have several spellings, links lead out of the tree, and
  extraction runs as root.

What makes each component correct: the installer keeps the machine bootable and
tells the truth about what it did; the marks are a three-valued boot mode that a
power failure cannot turn into another one; a boot always ends in some init; the
RAM root is whole or not entered; the recovery entry is not run while the old
root is in the mount table; an archive is accepted only with its own digest; a
file is never seen half written; a configuration counts as a whole or not at
all, and a command changes only what it was asked to; an extraction stays in its
destination and makes exactly what was verified; a pack publishes a recovery
root.

## 2. Modules

| Module | Code | What it is |
|---|---|---|
| `Disk` | `bp_sync_parent` | what a power failure leaves: one operator |
| `Installer` | `src/install.c`, `src/common.c` | install and uninstall, any number at once |
| `EnableMode` | - | abstract specification of the boot mode |
| `Enable` | `command_enable`, `command_disable`, dispatcher, one-shot consumption | the two marks; refines `EnableMode` |
| `Boot` | `src/burning_init.c`, `bp_stage1`, `enter_ram_root` | one boot |
| `Stage2` | `bp_stage2` and what it calls | process 1 on the RAM root |
| `RootfsStore` | `command_rootfs_install`, `bp_rootfs_install`, `bp_rootfs_verify_installed` | the installed archive and its digest |
| `AtomicCell` | - | abstract specification of one file that several write |
| `AtomicFile` | `bp_atomic_write` | one file, any number of processes; refines `AtomicCell` |
| `ConfigFile` | `src/config.c` | the two parsers and formatters, and what the format means; no state |
| `HostConfig` | `command_config`, `bp_host_config_ensure`, `load_boot_config`, `command_status` | `AtomicFile` with its users |
| `ArchiveRules` | `bp_cpio_verify_internal`, `bp_tar_gzip_verify_internal` | what makes an archive valid; no state |
| `ArchiveFile` | `detect_format` | the archive at its path |
| `Unpack` | `bp_rootfs_extract`, `bp_rootfs_unpack` and the extraction of both formats | one extraction |
| `SourceDir` | `rootfs configure`, `rootfs pack`, both packers, `src/rootfs.c` | the directory of a recovery root |
| `Archives` | - | `Unpack` and `SourceDir` at one path |
| `...Proofs` | - | theorems (section 4) |
| `MC...` | - | instances for TLC |

### The disk

`Installer`, `Enable` and `RootfsStore` keep two views of the files, as
functions from path to content: `live`, which programs see, and `disk`, which a
power failure falls back to. A rename or unlink changes `live`; the fsync of the
parent directory is a step of its own (`SyncParent`, `Sync`) that copies the
directory's entries to `disk`; `Writeback` copies any single entry at any time.
`Crash` sets `live` to `disk`. So between a rename and its fsync every
subset of the pending entries may survive. Contents are names (`"binary"`,
`"original"`, an archive): files are fsynced before they are renamed
(`bp_atomic_write`, `bp_atomic_copy`), so an entry has its whole content or is
not there; `AtomicFile` is where that is shown, step by step. One rename of
uninstall changes two names of one directory (`rename(backup, init)`); a journal
commits it as a whole, which `RestorePending` expresses.

### Installer

`stage[p]` is where command `p` is in the list of calls of `bp_install` or
`bp_uninstall`; `Successor` is their order, `Failure` the `goto rollback` of a
failed one. A stage that changes a file is two steps, `Publish` or `Unlink` or
`RestoreInit`, then `SyncParent`; either can fail (`OperationFails`,
`SyncParentFails`), the second with the change already made, as in
`bp_atomic_write`. `inspected`, `backupCreated` and `configCreated` are the
locals of those names. `OwnerReplaces` is the case the digests of
`install-state` are there for. Refused attempts are actions (`InstallRefused`,
`UninstallRefused`).

### Enable

`Start(c)` to `Advance` are `command_enable` and `command_disable` call by call;
`Dispatch`, `ConsumeUnlink`, `ConsumeSync` and their failures are what a boot
does to the marks. `ModeOf` maps two marks to `off`, `once` or `persistent`.
`settled` is a history variable: it is FALSE from the moment a command was cut
short between a change and its fsync until both views agree again. In that time
the abstract mode may fall back to a value that nobody is asking for any more,
which is what the code does and what `DisabledIsDurable` shows. `shown` is the
history of the menus that a one-shot mark has brought since it was written:
`warned` while the unlink or its fsync has failed for every one of them (the
code shows the menu all the same), `usedUp` from the first removal that worked,
`again` if another one follows that.

### Boot, Stage2

`pc` is the call process 1 is at. Every call that can fail has its failing
disjunct, guarded by a constant set `CanFail` of step names. In `Boot` the menu
has a clock (`Tick`), a keyboard (`Type`) and the read that takes all that is
there (`ReadMenu`). `found`, `added` and `private` are the disk's root: which of
/proc, /sys, /dev and /run are mounted there at the start, which of them
`prepare_host_runtime_mounts` has mounted one by one (`MountOnHost`), and that
the propagation has been made private; no rollback undoes these. `mounts`,
`mounted` and `inNewRoot` are the new root, `root` is the one process 1 is on.
In `Stage2` mount points are sequences of names, so that "inside" is a prefix;
`Unmount` is `umount2(m, 0)`, and what it finds busy (`refused`) is taken by
`umount2(m, MNT_DETACH)` in a step of its own (`Detach`), before which a holder
may have left; `Holders` let go on `SIGTERM`, on `SIGKILL`, never, or when they
like.

### RootfsStore

Staging steps of `command_rootfs_install` in their order, each of which may fail
into the clean-up, then the three files `bp_rootfs_install` publishes.
`Accepted` is `bp_rootfs_verify_installed`. `Damage` is storage changing an
archive after its digest was taken; `Boot` is the decision at the start of
`enter_ram_root`.

### AtomicFile, ConfigFile, HostConfig

`AtomicFile` is `bp_atomic_write` call by call for each process: `Open` with
`O_EXCL`, `Write`, `SyncFile`, `Rename`, `SyncParent`, and `Cleanup` after
`Fail`. A content is a value and whether its data are on the disk, so a rename
before the fsync of the file could leave a torn file after a crash. A killed
process leaves a temporary file; the next one with its id fails at `Open`, and
its clean-up removes it. To `AtomicCell` all of it is one step, the rename.

In `ConfigFile` a text is a sequence of lines, a line one key and one value;
`ParseLine` is what the parser does with a line, with the keys seen and the
half-written configuration of a text it will reject, and `Parse` is what a
recursive function of the number of lines (`ParseStates`) gives for all of them.
`WellFormed` and `Meaning` say what a text means without going through it in
order, and `ParserMeetsFormat` compares the two.

`HostConfig` puts the users on top of the file: `Config` reads, changes and
starts a write with what it read, `Ensure` looks and writes the default, `Boot`
is the menu's configuration. Nothing is locked; `overtaken` remembers that
another process renamed between a process's read and its own rename, and
`reported` which text a command last reported as written.

### ArchiveRules, Unpack, SourceDir, Archives

A name is the sequence of what is between its slashes; a slash at the start or
the end gives an empty component, so `a`, `a/` and `./a` are three names.
`CpioVerify` and `TarVerify` are the two verifications as predicates of the list
of entries: safe names, no data in a directory, no two entries of one name (the
code sorts and compares neighbours), one configuration, the required files, and
for tar names that are normalised, a single top directory that is stripped and
hard links backwards to files. What is left of a list when entries are dropped
keeps the places of the others, so that "before" in an archive stays "before". A
tree maps paths to nodes.

`Unpack` opens the archive three times (`Detect`, `VerifyArchive`, `Reopen`);
then each entry is one step, `CpioEntry`, `CpioLink` (which only puts the link
off) or `TarEntry`, and the links come last (`MakeLink`). Every step can fail
and leave what is there. What libarchive does with an entry, `TarTrees`, follows
from the three options the code sets and is external.

`SourceDir` runs `configure` and `pack` step by step on a tree that its owner
may change at any moment (`Edit`): the cpio packer collects the paths first and
reads the files later, the tar packer walks; both write a temporary archive,
verify it and rename it. `edited` remembers that the owner interfered.

`Archives` joins the two at one path: what a pack publishes is extracted, also
while an extraction is under way, and other archives are renamed there.

## 3. Runs

| Run | Instance | Distinct states | Shows |
|---|---|---|---|
| `installer` | one command at a time, `/sbin/init` a regular file | 8 230 | all six properties |
| `enable` | every fsync can be lost | 317 | refinement, no menu after a mark that was removed, durable enable |
| `boot` | time-outs 0, 1 and 2, three keys, every call can fail, none to all of the four sources mounted on the disk's root, a submount in `/dev` if it is | 312 282 | five safety properties, every boot ends |
| `stage2` | three nested mounts, one swap area, one process that keeps files open, every call can fail | 103 056 | order of release, liveness |
| `rootfs` | two archives, every step can fail | 11 592 | digest, durability, damage, clean-up |
| `config` | two processes, every hand-written text of up to two lines, writes and directory fsyncs that fail | 145 650 | parser against its definition, lost updates, durable reports, refinement of `AtomicCell` |
| `archives` | every archive of up to three entries of ten that get in one another's way, recovery roots with and without a top directory, seven states of a source directory | 797 457 | extraction stays inside and makes what was verified, packs publish recovery roots |
| `installer_switch` | only the fsync of the switch can fail | - | violates `AlwaysBootable` |
| `installer_concurrent` | two commands, nothing fails | - | violates `AlwaysBootable` |
| `enable_disable` | every fsync can be lost | - | violates `DisabledIsDurable` |
| `stage2_exit` | only `umount` fails | - | violates `StaysProcessOne` |
| `stage2_detach` | nothing fails, one holder | - | violates `OldRootIsReleased` |

Bounds, and why they are enough. One command at a time visits every stage from
every state an earlier one can have left, since commands follow one another
without a limit. The installer's files are seven names with two to three
contents each, which is all the code tells apart. `MaxKeys = 3` lets junk, a
choice and a second choice be typed in every order around the deadline;
time-outs 0, 1 and 2 cover "no wait", a deadline and a longer one. The sources
mounted at the start (`FewToAll`) are none, `/dev`, all but `/run`, and all.
Three nested old mounts are the least for which the order of unmounting and a
detach that takes inner mounts along both matter. Two archives are the least for
"old digest, new archive".

In `config` two lines (`MaxLines`) are enough for a key that comes twice, a bad
line before or after a good one and comments anywhere, three more come from the
formatter; `MaxTimeout = 1` gives a legal, a default and an illegal time-out.
Only two of the steps of a write fail there (`CanFail`), one before the rename
and one after it: the others fail into the same clean-up. The processes are
symmetric. In `archives` three entries (`MaxTail`) are the least for two
spellings of a name with something in between, for a link, a directory and a
file below one name, and for a hard link to a hard link. An archive is replaced
only where an extraction would notice, between two of its opens (`Replaced`);
the source side moves during an extraction only to publish (`Meets`), one
archive is published (`Unpublished`), and the owner changes the directory once
in a pack (`Settled`); one command runs at the source at a time.

`installer` keeps three fsyncs from failing, those after the backup, the
configuration and the switch (`HandledSyncFailures`): after them the rollback
does not know that the file is in place. What the last one costs is
`installer_switch`; the first two cost an install that leaves a file behind, but
not the boot (section 4). `CHECK_DEADLOCK` is on in every run: where the program
ends (`Boot`, `Stage2`) the end is an explicit stuttering action.

Fairness. `Boot` assumes that process 1 runs and that the clock goes on
(`WF_vars(Pid1)`, `WF_vars(Tick)`), and bounds the keys typed, since a menu fed
for ever reads for ever only until its deadline. A reboot or poweroff that the
kernel refuses is followed by `pause()` for ever (`src/runtime.c:305`, `316`,
`746`); `BootEnds` counts that as an end (`Ends`). `Stage2` assumes that process
1 runs and that `fork` does not fail for ever (`SF_vars(ForkShell)`); that the
entry or a shell ends is not assumed. `ShellForEver` therefore needs that the
shell either lives or is started again. The file modules assume no fairness and
have no liveness: a command that is killed owes nothing.

### What the violations say

- **Switch** (`src/install.c:232`). The link is renamed over `/sbin/init`, the
  fsync fails, the rollback removes `burning-init` and the backup: the link
  leads nowhere and the original init is gone.
- **Two installs** (`src/install.c:208`). Both pass the checks; the second finds
  the first one's backup and rolls back the first one's binary and state.
- **disable again** (`src/common.c:339`). `bp_remove_synced` takes ENOENT for
  success without an fsync, so a repeated `disable` reports what is not durable.
- **Process 1 returns** (`src/runtime.c:779`). `return 1` after a *successful*
  second `unmount_old_root`.
- **Detached is not released** (`src/runtime.c:594`). `MNT_DETACH` counts as
  unmounted while a process goes on using the disk; the plan says that
  `umount -l` proves nothing.

## 4. Proofs

Every invariant and action property that a run checks has a theorem, for every
value of the constants; liveness has none. In the order of the modules:

`InstallerProofs`:

- `TypeCorrect`: `Spec => []TypeOK`, for every set of commands and every choice
  of failures.
- `OneCommandBoots`: `Spec => []AlwaysBootable`, assuming that no two commands
  run at once (`AtMostOneCommand`) and that the fsync of the switch does not
  fail (`SwitchSyncs`). The two assumptions are exactly the two violations
  above; all other failures, kills, write-backs and crashes are allowed, and the
  original init may be a link or a file. `AlwaysBootable` speaks about now; the
  inductive invariant adds what makes it survive: a live dispatcher is served
  by both views (`LiveServed`), a durable one too, and keeps the next install
  away while the restore is pending (`DiskServed`); no dispatcher is anywhere
  in the stages that remove files or come before the switch (`Unswitched`); what
  the stages have published by then (`Copied`, `Saved`); and what a rename has
  just changed (`Renamed`).
- `InstallDurable` (`[]InstalledIsDurable`) and `UninstallPossible`
  (`[]UninstallStaysPossible`), under the same two assumptions. The invariant
  adds what each stage of install has published *and synced* by the time the
  next one starts (`Launcher`, `Recorded`, `Configured`, `Switched`), and that
  the state file serves any view in which a dispatcher is (`RecordServes`).
- `UninstallClean` (`[]UninstalledIsClean`), if moreover the removals do not
  fail (`RemovalsWork`): `bp_uninstall` does not look at their results. The
  invariant lists what each removal has removed (`Removed`).
- `FailedInstallUndone` (`FailedInstallLeavesNoTrace`, an action property), with
  one command at a time, if no fsync fails after which the rollback does not
  know what is there (`RecordingSyncs`: those after the backup, the
  configuration and the switch) and the rollback's own removals work
  (`RollbackWorks`). The invariant compares the files with those the command
  found: an install begins where its names are free (`FoundAbsent`), what it has
  not changed yet is as it was (`Untouched`), what its locals say it created was
  not there (`Created`), and what the rollback has been at is undone (`Undone`).

`EnableProofs`:

- `TypeCorrect`, `EnableDurable` (`[]EnabledIsDurable`), `OneMenu`
  (`[]OneShotShowsOneMenu`) and `Implements` (`Spec => ImplementsEnableMode`),
  all without assumptions besides `SyncCanBeLost \subseteq Steps`. The invariant
  says which step a command may be at and what it has done to the one-shot mark
  by then (`AtOwnStep`, `OneShotFirst`), that in a settled state only the mark
  being changed can differ between the views (`Agree`), and what is left of a
  reported command or a consumed mark (`Reported`, `Consumed`, `Spent`): after a
  menu whose removal worked no view has the mark, until another enable writes
  it. The refinement maps
  each action to one of the abstract switch: a change to `Take` or `Keep`, the
  last fsync to `Finish`, a lost one to `CutShort`, consumption to `Consume`,
  a crash to `PowerLoss`.

`ConfigFileProofs`, about both parsers and texts of any length:

- `ParserIsRight`: `Parse` accepts the well-formed texts and no other, and gives
  each key the value written for it or its default. What holds for every number
  of lines (`Parsed`) cannot be shown with the library's induction theorems,
  which take an operator as a parameter; it is shown by its least
  counterexample: the set of numbers of lines that break it would have a least
  element (`LeastNumber`, from the well-foundedness of strict inclusion between
  finite sets), which is not 0 and does not come after a good one. The same
  argument shows that the recursive function exists and obeys its equation.
- `FormatIsRead`: what the two formatters write for a legal configuration is
  read back as that configuration.

`HostConfigProofs`, for any number of processes, any texts and any steps that
fail; assumed is that `Missing`, `Torn` and the file's name are names of their
own, that the texts there may be contain what the formatter writes, that
`config` has no options but its own two, and that the default time-out is a
legal one:

- About `AtomicFile` alone: `TypeCorrect`, `NotTorn` (`[]NeverTorn`),
  `NoTemporaryLeft` (`[]TemporaryIsGone`) and `Implements`
  (`Spec => ImplementsCell`). The invariant is that what is in place is whole
  and synced (`FileIsWhole`), also on disk, and that from `rename` on so is the
  temporary file. `Rename` maps to `Put`, `SyncParent` to `Finish`, a directory
  entry written back to `Keep`, the steps on the temporary file to nothing.
- `HostIsFile` (`HostSpec => Spec`): the commands and boots are calls of
  `bp_atomic_write`, each step a step of `AtomicFile` or none, so that all of
  the above holds under them (`HostFileIsAtomic`).
- `HostTypeCorrect`, `ParserCorrect` (`[]ParserMeetsFormat`), `WholeOrDefault`
  (`[]AllOrDefault`), `NothingElseChanges` (`[]OnlyAskedChanges`) and
  `ReportKept` (`[]ReportedIsKept`). The invariant says what the menu was read
  from (`MenuIsRead`), that until a process is overtaken what it is about to
  write is what was asked of the file as it is (`AskedUntilRenamed`), and that a
  text that was renamed into place, and then reported, stays
  (`ThereOnceRenamed`, `ReportIsThere`).

`RootfsStoreProofs`, for any archives and any steps that fail: `TypeCorrect`,
`DigestBootable`, `ReportedDurable`, `NoDamage`, `Removed`. The invariant
follows one archive from its copy to its digest (`JustCopied`, `Copied`,
`Digested`, `Recorded`), through both views, and says that nothing is promised
while archive and digest do not belong together (`Promised`). The assumption is
that `none` and `damaged` are no archives.

`Stage2Proofs`, for any finite set of old mounts, swap areas and processes, and
any calls that fail: `TypeCorrect`, `DiskReleased` (`[]EntryAfterUnmount`),
`DetachesHeld` (`DetachedOnlyWhenHeld`). What is still mounted is still on the
list or was just refused (`AllListed`), so the longest path on the list has
nothing inside (`NothingInside`), is refused only if somebody holds it
(`RefusedIsHeld`), and its detach takes no other mount along (`OneMount`).

`BootProofs`, for any time-outs, any number of keys, any steps that fail and any
set of sources with submounts: `TypeCorrect`, `FirstChoiceTaken`, `TimeoutKept`,
`Fallback`, `RamRoot`. The invariant has one part for the menu - the first
choice is among the unread keys or was none, and the time left and the time over
make the time-out (`MenuGoesOn`) -, one for the mounts of the new root, which
grow in the order of the code, with the rollback's counter saying what is still
to be undone (`Growing`, `Complete`, `RollingBack`), and one for the disk's root
(`HostKept`): untouched until the shell is chosen, all four there from the tmpfs
on, private only with all four. `Fallback` (`[]FallbackUndoesNewRoot`) follows:
of the new root the original init finds bind mounts that were busy and the
tmpfs below them, or with the way back to `/` barred; what was mounted on the
disk's root stays, and only a boot that was sent to the shell leaves any.

`ArchivesProofs`, for every archive of any length in either format, every other
archive that may take its place, every source directory and everything its owner
does to it; assumed is only that archives and directories have the shapes of
`IsArchive` and `IsTree` (names with at least one component, hard links with a
target, texts that are sequences), and none of the bounds `Meets`,
`Unpublished` and `Settled` is used:

- `Inside` (`[]StaysInside`). Trees are *closed*: every path is safe and has
  directories above it (`Closed`). Adding directories, adding a node and taking
  a file away keep a tree closed (`AddDirectories`, `AddNode`, `TakeAway`), an
  entry of either format does nothing else (`CpioTreesClosed`,
  `TarTreesClosed`), and a link that was put off still has its directories when
  it is made (`PutOff`). The verification is not used: the extraction would stay
  inside without it.
- `Extracted` (`[]ExtractedIsVerified`). Here it is used. While the archive is
  the one that was verified (`VerifiedInv`), the tree after each entry consists
  of the entries up to it and the directories above them, the links that are put
  off being the last of them (`CpioProgress`, `TarProgress`); for cpio no two
  entries make one path, for tar a later entry may only turn a file into the
  directory it is in. At the end that is all of the archive (`SameTree`), and
  the configuration in it is the one that the verification read (`SameConfig`).
- `PackIsFaithful` (`[]PackedIsSource`), `CleansUp` (`[]PackCleansUp`) and
  `ConfiguredIsThere` (`ConfigureKeepsEntry`, an action property). While the
  owner leaves the directory alone, what is written is from it (`WrittenFrom`,
  `PackInv`), and an archive with `bin/sh` and `sbin/burning-progress` at their
  places has no wrapper (`NoWrapper`); the temporary archive is there while it
  is written and verified and at no other time (`TemporaryInv`); from its two
  writes on the directory has the entry and the configuration, which reads back
  by `FormatMeans` (`ConfiguredInv`), so that neither write leaves a name
  without its entry (`ConfigureWrites`).
- `TypeCorrect` (`[]TypeOK`), and `Invariant` for the part all of these share.

The inductive invariants of `HostConfig`, `Archives` and the last one of
`Installer` were first checked by TLC on the instances of the runs.

Only model-checked: liveness (`BootEnds`, `ComesToSomething`, `ShellForEver`);
the prover has no rules for fairness here. No module uses recursive operators.

## 5. Not modelled

SHA-256 (a digest stands for its content), the bytes of CPIO and tar headers,
padding, sizes, modes, owners and times, zlib and libarchive (external, by the
options that are set), the characters of a configuration line, formatting of
messages, `status` and `verify` beyond what they read, the build and its
vendored zlib.

Left out of components that are modelled:

- `Installer`, `AtomicFile`, `RootfsStore`: a write makes the parent directory
  that is missing (`bp_mkdir_p`, `src/common.c:181`, `232`, `294`), and nobody
  fsyncs the entry of a new `/etc/BurningProcess` in `/etc`. What these modules
  call durable is so on file systems where the fsync of a new directory commits
  its own entry too.
- `Boot`: a mount of another type at one of the four places counts as missing,
  as it does for the code. The plan says that
  a failure before `pivot_root` returns to the menu
  (`docs/IMPLEMENTATION_PLAN.md:130`); the code runs the original init instead
  (`src/runtime.c:751`), and so does the model.
- `Stage2`: children reparented to process 1, mounts hidden below others; a read
  error in the middle of `/proc/swaps` or of the mount table, which the code
  takes for the end of the file (`src/runtime.c:343`, `554`). A missing
  `/proc/swaps` (ENOENT) is a kernel without swap: success (`SwapsAreOff`).
- `Unpack`: the parents an entry gets before it is refused; a tar entry that
  repeats the wrapper directory (`src/tar.c:239`) and names a required file.
  `ExtractedIsVerified` states an exception for tar: a file that an entry below
  it turns into a directory. With it, an archive with a file `bin/sh` and an
  entry `bin/sh/x` is verified and extracted without its shell, and no property
  here objects. Its clause on the configuration is about cpio only.
- `SourceDir`: a file that grows while it is read, mount points in the source.
- `AtomicFile`: an `unlink` that fails in the clean-up.
- Two `rootfs install` at once, and `enable` racing `uninstall`: `Installer`,
  `Enable` and `RootfsStore` each have their own disk.

## 6. Plan

What would come next:

1. A composition of `Installer` and `Enable` on one disk (`enable` racing
   `uninstall`), and two `rootfs install` commands in `RootfsStore`, whose
   digests get mixed up.
2. The sum of sizes at `src/cpio.c:502` and the memory check of
   `src/runtime.c:255`, with the width of their integers.
3. A property that a tar verified as a recovery root is one when extracted,
   which entries that repeat the wrapper's name (`src/tar.c:239`) and a file
   `bin/sh` with an entry below it break.
4. Proofs with more than one installer command at a time: what stays true of
   `AlwaysBootable` when two of them run, besides the types.
