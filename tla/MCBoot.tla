------------------------------- MODULE MCBoot -------------------------------
(* Instances of Boot for TLC.                                               *)
EXTENDS Boot

AllFail == BootSteps \cup RamSteps \cup UndoSteps
BusyDev == {"dev"}

\* No initramfs and a kernel that mounts /dev itself, or not; one that left
\* all but /run; one that left everything.
FewToAll == {{}, {"dev"}, {"dev", "proc", "sys"}, SourceSet}
TimeoutValues == {0, 1, 2}
=============================================================================
