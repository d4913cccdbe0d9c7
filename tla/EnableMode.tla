----------------------------- MODULE EnableMode -----------------------------
(***************************************************************************)
(* What the enable switch of Burning Progress promises: the boot mode is   *)
(* one of three values; a command changes it to the one it was asked for,  *)
(* in one step; after a power failure it is the mode that was kept, and    *)
(* only a mode that was in force is ever kept; a one-shot mode turns       *)
(* itself off.  After a command was cut short the kept mode is not known   *)
(* until the kernel has caught up: settled is FALSE in between.            *)
(***************************************************************************)

VARIABLES
  mode,     \* the mode in force
  kept,     \* the mode a power failure falls back to
  wanted,   \* the mode the running command was asked for, or "none"
  settled   \* nothing is left over from a command that was cut short

vars == <<mode, kept, wanted, settled>>

Modes == {"off", "once", "persistent"}

Init ==
  /\ mode \in Modes
  /\ kept = mode
  /\ wanted = "none"
  /\ settled = TRUE

\* Only a mode in force is kept, unless a command was cut short.
MayKeep(m) == settled => m \in {mode, kept}

Ask(m) ==
  /\ wanted = "none"
  /\ wanted' = m
  /\ UNCHANGED <<mode, kept, settled>>

\* The one step that changes the mode; the new one is kept later.
Take ==
  /\ wanted # "none"
  /\ mode' = wanted
  /\ settled' \in {settled, TRUE}
  /\ UNCHANGED <<kept, wanted>>

\* The kernel writes back: what is kept catches up with what is in force.
Keep ==
  /\ MayKeep(kept')
  /\ kept' \in Modes
  /\ settled' \in {settled, TRUE}
  /\ UNCHANGED <<mode, wanted>>

\* A command that reports success, with nothing left over from before it,
\* has its mode kept.
Finish ==
  /\ mode = wanted
  /\ kept' = mode \/ (~settled /\ kept' = kept)
  /\ wanted' = "none"
  /\ settled' \in {settled, TRUE}
  /\ UNCHANGED mode

\* The command fails or is killed.
CutShort ==
  /\ wanted # "none"
  /\ wanted' = "none"
  /\ settled' \in BOOLEAN
  /\ UNCHANGED <<mode, kept>>

\* A boot uses the one-shot mode up.
Consume ==
  /\ mode = "once"
  /\ wanted = "none"
  /\ mode' = "off"
  /\ settled' \in {settled, TRUE}
  /\ UNCHANGED <<kept, wanted>>

\* The boot could not make that durable.
ConsumeCutShort ==
  /\ mode = "off"
  /\ wanted = "none"
  /\ settled' \in BOOLEAN
  /\ UNCHANGED <<mode, kept, wanted>>

PowerLoss ==
  /\ mode' = kept
  /\ wanted' = "none"
  /\ settled' = TRUE
  /\ UNCHANGED kept

Next ==
  \/ \E m \in Modes : Ask(m)
  \/ Take \/ Keep \/ Finish \/ CutShort
  \/ Consume \/ ConsumeCutShort
  \/ PowerLoss

Spec == Init /\ [][Next]_vars
=============================================================================
