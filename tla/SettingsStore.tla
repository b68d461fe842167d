---------------------------- MODULE SettingsStore ----------------------------
(***************************************************************************)
(* What the saved settings of an OpenBlocks promise: /etc and the userland *)
(* live in a RAM disk, and what the next boot brings back is known except  *)
(* while, or after, a call that changes it was interrupted.  Only a call   *)
(* of flashcfg can take that knowledge away, and only for its own parts,   *)
(* unless another process kept the partition busy meanwhile: such a call   *)
(* can cost the settings of the other part as well.                        *)
(***************************************************************************)
CONSTANTS
  Values,    \* settings a part can have
  Default    \* those of the ramdisk

Parts == {"etc", "user"}

VARIABLES
  live,      \* the settings in use
  saved,     \* what the next boot will restore, or "unknown"
  changing,  \* parts that the running call of flashcfg may change
  busy,      \* another process uses the partition during the running call
  up         \* the machine is running

vars == <<live, saved, changing, busy, up>>

Init ==
  /\ live = [p \in Parts |-> Default]
  /\ saved = [p \in Parts |-> Default]
  /\ changing = {} /\ busy = FALSE /\ up = TRUE

Edit(p) ==
  /\ up /\ changing = {}
  /\ \E v \in Values : live' = [live EXCEPT ![p] = v]
  /\ UNCHANGED <<saved, changing, busy, up>>

Call ==
  /\ up /\ changing = {}
  /\ changing' \in {{"etc"}, Parts} /\ busy' \in BOOLEAN
  /\ UNCHANGED <<live, saved, up>>

AtRisk == IF busy /\ changing # {} THEN Parts ELSE changing

Unsure(p) ==
  /\ p \in AtRisk
  /\ saved' = [saved EXCEPT ![p] = "unknown"]
  /\ UNCHANGED <<live, changing, busy, up>>

\* What was not known may become known: the medium is up to date.  The call
\* may end with it, and so may the power.
Settle ==
  /\ \A p \in Parts : saved'[p] # saved[p] => saved[p] = "unknown"
  /\ changing' \in {changing, {}}
  /\ up' \in {up, FALSE} /\ (up' # up => changing' = {})
  /\ UNCHANGED <<live, busy>>

\* A boot restores what is saved, or, with the INIT switch held, nothing.
Boot ==
  /\ ~up /\ up' = TRUE
  /\ \/ \A p \in Parts : saved[p] # "unknown" => live'[p] = saved[p]
     \/ live' = [p \in Parts |-> Default]
  /\ UNCHANGED <<saved, changing, busy>>

Next ==
  \/ \E p \in Parts : Edit(p) \/ Unsure(p)
  \/ Call \/ Settle \/ Boot

Spec == Init /\ [][Next]_vars
=============================================================================
