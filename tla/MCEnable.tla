------------------------------ MODULE MCEnable ------------------------------
(* Instances of Enable for TLC: every fsync may fail or be killed.          *)
EXTENDS Enable

AllSteps == Steps
=============================================================================
