---------------------------- MODULE EnvRegister ----------------------------
(***************************************************************************)
(* What the two copies of the U-Boot environment promise: the machine      *)
(* always has one environment to start with.  A change replaces it by the  *)
(* new one, for good; on some machines the spare one from before shows up  *)
(* meanwhile.  A change that starts from a damaged copy promises its end   *)
(* only, and where copies are counted even that is open.                   *)
(***************************************************************************)
CONSTANT Envs   \* the environments, damaged ones included

VARIABLES
  boots,   \* what the machine would start with now
  old,     \* what it would have started with before the last change
  spare,   \* the other copy of then
  new,     \* what that change writes
  kind,    \* how the change is made
  sound,   \* both copies were whole before the change
  busy,    \* the change is under way
  ok       \* it has reported success

vars == <<boots, old, spare, new, kind, sound, busy, ok>>

\* Never without the old or the new one; with the spare one at times; or with
\* any of the three, the new one not being there to stay.
Kinds == {"steady", "gap", "loose"}

Init ==
  /\ boots \in Envs /\ old = boots /\ spare \in Envs /\ new \in Envs
  /\ kind \in Kinds /\ sound = TRUE /\ busy = FALSE /\ ok = FALSE

\* A change may be refused.
Begin ==
  /\ ~busy /\ busy' \in BOOLEAN /\ ok' = FALSE
  /\ old' = boots /\ spare' \in Envs /\ new' \in Envs
  /\ kind' \in Kinds /\ sound' \in BOOLEAN
  /\ UNCHANGED boots

Meanwhile ==
  IF kind = "steady" THEN {boots, new}
  ELSE IF kind = "gap" /\ boots = new THEN {new}
  ELSE {old, spare, new}

\* The change goes on, or ends: with success, with an error or with the power.
Write ==
  /\ busy /\ busy' \in BOOLEAN /\ ok' \in BOOLEAN
  /\ boots' \in IF sound THEN Meanwhile ELSE Envs
  /\ ok' => ~busy' /\ (kind # "loose" => boots' = new)
  /\ UNCHANGED <<old, spare, new, kind, sound>>

Next == Begin \/ Write

Spec == Init /\ [][Next]_vars
=============================================================================
