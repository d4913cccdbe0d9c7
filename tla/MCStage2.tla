------------------------------ MODULE MCStage2 ------------------------------
(* Instances of Stage2 for TLC.                                             *)
EXTENDS Stage2

CONSTANTS s1, h1, h2

\* The old root, one file system on it and one on that.
ThreeMounts == {<<>>, <<"boot">>, <<"boot", "efi">>}
TwoMounts == {<<>>, <<"dev">>}

Everything == Steps
OnlyUnmount == {"unmount"}
Nothing == {}
=============================================================================
