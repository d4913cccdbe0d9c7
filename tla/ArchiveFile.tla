----------------------------- MODULE ArchiveFile ----------------------------
(***************************************************************************)
(* The file that commands and stage 1 hand each other: an archive, or      *)
(* something that is none, at one path.                                    *)
(***************************************************************************)
EXTENDS ArchiveRules

VARIABLE archive   \* the file at the archive's path

NoArchive == [format |-> "other", entries |-> <<>>, cut |-> TRUE]
=============================================================================
