---------------------------- MODULE MCRootfsStore ----------------------------
(* Instances of RootfsStore for TLC: every step and every fsync may fail.   *)
EXTENDS RootfsStore

CONSTANTS r1, r2

EveryStep == StagingSteps \cup PublishSteps \cup {"digest"}
=============================================================================
