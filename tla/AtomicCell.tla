----------------------------- MODULE AtomicCell -----------------------------
(***************************************************************************)
(* What bp_atomic_write (src/src/common.c) promises of one file that       *)
(* several processes write: the value changes in one step, to what some    *)
(* process asked for; a power failure falls back to a value the cell has   *)
(* had; a process that is told "written" knows that the value of that      *)
(* moment, its own or a later one, is kept.                                *)
(***************************************************************************)

CONSTANTS
  Writers, Values,
  Nothing   \* what a writer at rest has asked for

VARIABLES
  value,   \* what a reader gets
  kept,    \* what a power failure falls back to
  asked,   \* writer -> what it wants to write
  state    \* writer -> how far it is

vars == <<value, kept, asked, state>>

AtRest == {"idle", "done", "failed"}

Init ==
  /\ value \in Values
  /\ kept = value
  /\ asked = [w \in Writers |-> Nothing]
  /\ state = [w \in Writers |-> "idle"]

Ask(w, v) ==
  /\ state[w] \in AtRest
  /\ asked' = [asked EXCEPT ![w] = v]
  /\ state' = [state EXCEPT ![w] = "asked"]
  /\ UNCHANGED <<value, kept>>

\* The one step that changes the value.
Put(w) ==
  /\ state[w] = "asked"
  /\ value' = asked[w]
  /\ state' = [state EXCEPT ![w] = "put"]
  /\ UNCHANGED <<kept, asked>>

Keep ==
  /\ kept' = value
  /\ UNCHANGED <<value, asked, state>>

Rest(w, s) ==
  /\ state' = [state EXCEPT ![w] = s]
  /\ asked' = [asked EXCEPT ![w] = Nothing]

Finish(w) ==
  /\ state[w] = "put"
  /\ kept' = value
  /\ Rest(w, "done")
  /\ UNCHANGED value

\* A failure is reported; the value may have been changed all the same.
GiveUp(w) ==
  /\ state[w] \in {"asked", "put"}
  /\ Rest(w, "failed")
  /\ UNCHANGED <<value, kept>>

Killed(w) ==
  /\ Rest(w, "idle")
  /\ UNCHANGED <<value, kept>>

PowerLoss ==
  /\ value' = kept
  /\ state' = [w \in Writers |-> "idle"]
  /\ asked' = [w \in Writers |-> Nothing]
  /\ UNCHANGED kept

Next ==
  \/ \E w \in Writers :
       \/ \E v \in Values : Ask(w, v)
       \/ Put(w) \/ Finish(w) \/ GiveUp(w) \/ Killed(w)
  \/ Keep \/ PowerLoss

Spec == Init /\ [][Next]_vars
=============================================================================
