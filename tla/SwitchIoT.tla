----------------------------- MODULE SwitchIoT -----------------------------
(***************************************************************************)
(* The push switch daemon of the IoT models (pshd_bx1.c).  watch_pushsw    *)
(* waits in epoll_wait for edges of the INIT switch and runs the command   *)
(* in /tmp/.pshd when the switch was held for REBOOT.  Only the edge that  *)
(* ends a wait is looked at, and a wait for the release follows in every   *)
(* case: after a release before HALT it ends at the next press.            *)
(***************************************************************************)
EXTENDS Naturals

CONSTANTS
  Reboot, Halt,  \* the two waits, in ticks
  MaxHolds       \* bound: holds counted in one boot

ASSUME SwitchAssumption ==
  Reboot \in Nat \ {0} /\ Halt \in Nat \ {0} /\ MaxHolds \in Nat

VARIABLES
  down,     \* the switch is pressed
  edge,     \* it has had an edge since the last read of its level
  at,       \* the wait of watch_pushsw, or the command it runs
  timer,    \* ticks in this wait
  command,  \* what /tmp/.pshd holds
  held,     \* history: ticks since the press, as far as Reboot
  holds,    \* history: presses held for Reboot
  runs      \* history: commands run

switch == <<down, edge, at, timer, command, held, holds, runs>>

Commands == {"none", "shutdown", "other"}

SwitchTypeOK ==
  /\ down \in BOOLEAN /\ edge \in BOOLEAN
  /\ at \in {"idle", "reboot", "halt", "exec", "release", "last", "gone"}
  /\ timer \in 0 .. Reboot + Halt
  /\ command \in Commands
  /\ held \in 0 .. Reboot /\ holds \in Nat /\ runs \in Nat

SwitchInit ==
  /\ down = FALSE /\ edge = TRUE /\ at = "idle" /\ timer = 0
  /\ command \in Commands
  /\ held = 0 /\ holds = 0 /\ runs = 0

-----------------------------------------------------------------------------
(* The switch and its finger *)

Press ==
  /\ ~down /\ holds < MaxHolds
  /\ down' = TRUE /\ edge' = TRUE /\ held' = 0
  /\ UNCHANGED <<at, timer, command, holds, runs>>

Release ==
  /\ down
  /\ down' = FALSE /\ edge' = TRUE /\ held' = 0
  /\ UNCHANGED <<at, timer, command, holds, runs>>

\* A wait may take longer than was asked for.
Limit == CASE at = "reboot" -> Reboot [] at = "halt" -> Halt [] OTHER -> 0

SwitchTick ==
  /\ timer' = IF timer < Limit THEN timer + 1 ELSE timer
  /\ held' = IF down /\ held < Reboot THEN held + 1 ELSE held
  /\ holds' = IF held' = Reboot /\ held # Reboot THEN holds + 1 ELSE holds
  /\ UNCHANGED <<down, edge, at, command, runs>>

-----------------------------------------------------------------------------
(* watch_pushsw *)

Wait(w) == at' = w /\ timer' = 0 /\ UNCHANGED runs

\* system_exec: nothing without the file.
Exec(w) ==
  /\ at' = w /\ timer' = 0
  /\ runs' = IF command = "none" THEN runs ELSE runs + 1

IdleWake == at = "idle" /\ Wait(IF down THEN "reboot" ELSE "idle")

\* Mutant: the edge that ends the first wait counts as a hold.
HastyWake == at = "reboot" /\ Wait("halt")

\* Any edge ends the first wait, a bounce of the press too.
RebootWake == at = "reboot" /\ Wait("idle")

\* Mutant: a release in the second wait is not told from a bounce, and the
\* wait for the release begins only then.
SilentWake == at = "halt" /\ Wait("release")

HaltWake == at = "halt" /\ IF down THEN Wait("release") ELSE Exec("exec")

ReleaseWake == at = "release" /\ Exec("last")

\* getINITSW with an edge: its read of the level clears it.
Wake ==
  /\ edge /\ edge' = FALSE
  /\ IdleWake \/ RebootWake \/ HaltWake \/ ReleaseWake
  /\ UNCHANGED <<down, command, held, holds>>

TimedOut ==
  /\ ~edge
  /\ \/ at = "reboot" /\ timer = Reboot /\ Wait("halt")
     \/ at = "halt" /\ timer = Halt /\ Wait("release")
  /\ UNCHANGED <<down, edge, command, held, holds>>

\* epoll_wait interrupted (SIGCONT after a stop): -1 ends every wait.
Interrupted ==
  /\ \/ at = "reboot" /\ Wait("idle")
     \/ at = "halt" /\ Wait("release")
     \/ at = "release" /\ Exec("last")
  /\ UNCHANGED <<down, edge, command, held, holds>>

CommandEnds ==
  /\ \/ at = "exec" /\ Wait("release")
     \/ at = "last" /\ Wait("idle")
  /\ UNCHANGED <<down, edge, command, held, holds>>

\* At a boot the first poll returns at once, and /tmp is new.
SwitchBoot ==
  /\ at' = "idle" /\ edge' = TRUE /\ timer' = 0
  /\ command' \in Commands
  /\ holds' = (IF down /\ held = Reboot THEN 1 ELSE 0) /\ runs' = 0
  /\ UNCHANGED <<down, held>>

SwitchGone ==
  /\ at' = "gone" /\ timer' = 0
  /\ UNCHANGED <<down, edge, command, held, holds, runs>>

-----------------------------------------------------------------------------
\* The command runs at most twice for every press of REBOOT or more,
\* whatever shorter presses and bounces come before, between and after.
RunsNeedHolds == runs <= 2 * holds
=============================================================================
