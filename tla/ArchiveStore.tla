---------------------------- MODULE ArchiveStore ----------------------------
(***************************************************************************)
(* What the FlashROM promises of the archive that was saved last: a        *)
(* restore reads, from the usable places in their order, its first         *)
(* sectors and nothing in between.  A save appends sector after sector; an *)
(* end of it, with an error or the power, takes nothing away but the       *)
(* sector that was not yet verified; a success means that the archive, or  *)
(* else all the room, is stored.  A deletion takes all or nothing away.    *)
(***************************************************************************)
EXTENDS Naturals, FiniteSets

CONSTANT Places   \* where a sector can be, in the order of a restore

VARIABLES
  room,   \* the usable places
  len,    \* sectors of the archive
  held,   \* the places from which a restore reads its first sectors
  sure,   \* those that the running save has verified
  busy,   \* the running call: "save", "delete" or "no"
  ok      \* the last call has reported success

vars == <<room, len, held, sure, busy, ok>>

Init ==
  /\ room \subseteq Places /\ len \in Nat
  /\ held = {} /\ sure = {} /\ busy = "no" /\ ok = FALSE

\* The archive before is given up; one that is too long is refused.
Save ==
  /\ busy = "no" /\ busy' \in {"no", "save"}
  /\ len' \in Nat /\ held' = {} /\ sure' = {} /\ ok' = FALSE
  /\ UNCHANGED room

IsNext(b) == b \in room \ sure /\ \A c \in room : c < b => c \in sure

\* An attempt at the next sector: it is there afterwards, or not.
Attempt ==
  /\ busy = "save" /\ Cardinality(sure) < len
  /\ \E b \in Places : IsNext(b) /\ held' \in {sure, sure \cup {b}}
  /\ UNCHANGED <<room, len, sure, busy, ok>>

Confirm ==
  /\ busy = "save" /\ sure' = held
  /\ UNCHANGED <<room, len, held, busy, ok>>

End(result) == busy' = "no" /\ sure' = {} /\ ok' = result /\ UNCHANGED <<room, len>>

Succeed ==
  /\ busy = "save" /\ held = sure
  /\ Cardinality(sure) = len \/ sure = room
  /\ End(TRUE) /\ UNCHANGED held

Fail ==
  /\ busy = "save" /\ held' \in {sure, held}
  /\ End(FALSE)

Delete ==
  /\ busy = "no" /\ busy' = "delete" /\ ok' = FALSE
  /\ UNCHANGED <<room, len, held, sure>>

Remove ==
  /\ busy = "delete" /\ held' = {}
  /\ UNCHANGED <<room, len, sure, busy, ok>>

\* A deletion always reports success, unless it is cut off.
EndDelete ==
  /\ busy = "delete" /\ held' \in {held, {}}
  /\ \E result \in BOOLEAN : End(result)

Next ==
  \/ Save \/ Attempt \/ Confirm \/ Succeed \/ Fail
  \/ Delete \/ Remove \/ EndDelete

Spec == Init /\ [][Next]_vars
=============================================================================
