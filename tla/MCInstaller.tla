---------------------------- MODULE MCInstaller ----------------------------
(* Instances of Installer for TLC.                                          *)
EXTENDS Installer

CONSTANTS a, b

\* The stages whose failure bp_install and bp_uninstall handle completely:
\* every operation that is not a removal, and every directory fsync but the
\* three after which the rollback does not know what it has to undo.
HandledFailures == PublishStages \cup {"restoreInit"}
HandledSyncFailures ==
  (DOMAIN Target) \ {"saveOriginal", "writeConfig", "switchInit"}

\* Every failure there is.
AllFailures == DOMAIN Target
OnlySwitch == {"switchInit"}
Nothing == {}
=============================================================================
