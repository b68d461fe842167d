----------------------------- MODULE PushSwitch -----------------------------
(***************************************************************************)
(* The INIT switch of the OpenBlocks A series: files/pshd.c, which counts  *)
(* how many ticks of 200 ms the switch is held and runs shutdown when it   *)
(* is released, together with files/runled.c, the daemon whose running     *)
(* LEDs it takes over.  This is the build with input events (Linux 3.11    *)
(* and 4.0 on AX3, A6 and A7).                                             *)
(*                                                                         *)
(* Each edge of the switch puts two events in the queue of the kernel, the *)
(* key and a SYN; pshd reads one event per tick, so that what it sees lags *)
(* behind the switch.  The LED files are written one by one.               *)
(***************************************************************************)
EXTENDS Integers, Sequences

CONSTANTS
  Reboot,    \* reboot and halt of pshd.c, in ticks
  Halt,
  Backlog,   \* bound: unread events
  Restarts   \* bound: how often runled is started again

\* What main() makes of -r and -h, unless they are negative; -r 0 is one tick.
ASSUME TimesAssumption ==
  Reboot \in Nat \ {0} /\ Halt \in Nat /\ Halt >= Reboot + 10
ASSUME BoundsAssumption == Backlog \in Nat /\ Restarts \in Nat

Leds == {"green", "yellow", "red"}

VARIABLES
  pressed,   \* the switch
  queue,     \* events that pshd has not read
  flag,      \* static flag of get_push_event
  count,     \* ticks held; beyond Halt it makes no difference
  pc,        \* pshd: "up", "gone", or what it has become by execl
  lit,       \* LEDs that are on
  runled,    \* "none", "forked" (its pid not yet in the file), "up", "term"
  pidfile,   \* /var/run/segled.pid: "none" (also empty), "runled", "stale"
  starts,    \* starts of runled so far
  held,      \* history: ticks of the current press
  longest,   \* history: ticks of the longest press
  prompt,    \* history: the current press found pshd with nothing unread
  due        \* history: what a prompt press that has ended should lead to

vars == <<pressed, queue, flag, count, pc, lit, runled, pidfile, starts,
          held, longest, prompt, due>>

LedVars == <<lit, runled, pidfile, starts>>
PressVars == <<held, longest, prompt, due>>

Capped(n) == IF n < Halt THEN n + 1 ELSE n

\* Types of the switch, the event queue (never above Backlog), the daemon's flag and
\* counter, the lamps and the run-led child.
TypeOK ==
  /\ pressed \in BOOLEAN
  /\ queue \in Seq({"down", "up", "syn"}) /\ Len(queue) <= Backlog
  /\ flag \in {0, 1}
  /\ count \in 0 .. Halt
  /\ pc \in {"up", "gone", "reboot", "halt"}
  /\ lit \subseteq Leds
  /\ runled \in {"none", "forked", "up", "term"}
  /\ pidfile \in {"none", "runled", "stale"}
  /\ starts \in 0 .. Restarts
  /\ held \in 0 .. Halt /\ longest \in 0 .. Halt
  /\ prompt \in BOOLEAN /\ due \in {"none", "reboot", "halt"}

Init ==
  /\ pressed = FALSE /\ queue = <<>> /\ flag = 0 /\ count = 0
  /\ pc = "up"
  /\ lit = {"red"} /\ runled = "up" /\ pidfile = "runled" /\ starts = 0
  /\ held = 0 /\ longest = 0 /\ prompt = FALSE /\ due = "none"

-----------------------------------------------------------------------------
(* The switch *)

Press ==
  /\ ~pressed /\ Len(queue) + 2 <= Backlog
  /\ pressed' = TRUE
  /\ queue' = queue \o <<"down", "syn">>
  /\ held' = 0 /\ prompt' = (queue = <<>> /\ count = 0)
  /\ UNCHANGED <<flag, count, pc, longest, due>> /\ UNCHANGED LedVars

Release ==
  /\ pressed /\ Len(queue) + 2 <= Backlog
  /\ pressed' = FALSE
  /\ queue' = queue \o <<"up", "syn">>
  /\ due' = IF ~prompt \/ held < Reboot \/ pc # "up" \/ due # "none" THEN due
            ELSE IF held < Halt THEN "reboot" ELSE "halt"
  /\ UNCHANGED <<flag, count, pc, held, longest, prompt>> /\ UNCHANGED LedVars

-----------------------------------------------------------------------------
(* pshd *)

\* Mutant: a SYN event counts as a released switch.
FlagOnSyn ==
  IF queue = <<>> THEN flag ELSE IF Head(queue) = "down" THEN 1 ELSE 0

\* get_push_event: without an event of the switch the flag stays.
NextFlag ==
  IF queue = <<>> \/ Head(queue) = "syn" THEN flag
  ELSE IF Head(queue) = "down" THEN 1 ELSE 0

ReadEvent ==
  /\ flag' = NextFlag
  /\ queue' = IF queue = <<>> THEN queue ELSE Tail(queue)

\* Mutants: the count is not reset after a press; -1 stands for no press.
CountKept == count
CountNone == -1

CountAfterRelease == 0

\* Released: execl, or back to zero.
Released ==
  /\ pc' = IF count >= Halt THEN "halt"
           ELSE IF count >= Reboot THEN "reboot"
           ELSE "up"
  /\ count' = CountAfterRelease
  /\ UNCHANGED LedVars

\* Mutant: runled is killed on the first tick only.
KillsOnce(c) == c = Reboot

Kills(c) == c >= Reboot

\* kill(atoi(buf), SIGTERM); a stale pid is taken for a process that is gone.
KillRunled(c) ==
  IF Kills(c) /\ pidfile = "runled" /\ runled # "none"
    THEN runled' = "term" ELSE UNCHANGED runled

\* flash_led: the files of the other LEDs first, "4" and then "2" again.
Flashed(c) ==
  IF c < Reboot THEN lit
  ELSE IF c >= Halt THEN {"red"}
  ELSE IF c >= (Halt - Reboot) \div 2 THEN {"green"}
  ELSE {"yellow"}

Held ==
  /\ count' = Capped(count)
  /\ KillRunled(Capped(count))
  /\ lit' = Flashed(Capped(count))
  /\ UNCHANGED <<pc, pidfile, starts>>

Tick ==
  /\ pc = "up"
  /\ ReadEvent
  /\ \/ NextFlag = 0 /\ count > 0 /\ Released
     \/ NextFlag = 0 /\ count = 0 /\ UNCHANGED <<count, pc>> /\ UNCHANGED LedVars
     \/ NextFlag = 1 /\ Held
  /\ held' = IF pressed THEN Capped(held) ELSE held
  /\ longest' = IF pressed /\ Capped(held) > longest THEN Capped(held) ELSE longest
  /\ UNCHANGED <<pressed, prompt, due>>

\* A signal sets forever to 0, or the input device is gone.
PshdEnds ==
  /\ pc = "up" /\ pc' = "gone"
  /\ UNCHANGED <<pressed, queue, flag, count>>
  /\ UNCHANGED LedVars /\ UNCHANGED PressVars

-----------------------------------------------------------------------------
(* runled *)

PshdUntouched == UNCHANGED <<pressed, queue, flag, count, pc>> /\ UNCHANGED PressVars

\* One write of dancer(); which LED is next is left open.  A signal lets a
\* write that is under way end.
RunledWrite ==
  /\ runled \in {"forked", "up"}
  /\ \E l \in Leds : lit' = lit \cup {l} \/ lit' = lit \ {l}
  /\ UNCHANGED <<runled, pidfile, starts>> /\ PshdUntouched

RunledExits ==
  /\ runled # "none" /\ runled' = "none"
  /\ pidfile' = IF pidfile = "runled" THEN "stale" ELSE pidfile
  /\ UNCHANGED starts /\ PshdUntouched

\* die() by SIGTERM; the file with the pid stays.
RunledDies ==
  /\ runled = "term"
  /\ lit' = lit \/ \E l \in Leds : lit' = lit \cup {l} \/ lit' = lit \ {l}
  /\ RunledExits

\* An LED file or the temperature cannot be read: exit(-1).  That this happens
\* before the parent has written the pid is left out.
RunledFails == runled # "forked" /\ UNCHANGED lit /\ RunledExits

\* fork(): the child dances before the parent has written its pid.
RunledStart ==
  /\ runled = "none" /\ starts < Restarts
  /\ runled' = "forked" /\ starts' = starts + 1
  /\ UNCHANGED <<lit, pidfile>> /\ PshdUntouched

\* The parent opens the file with O_TRUNC, and writes the pid.
RunledTruncates ==
  /\ runled = "forked" /\ pidfile = "stale" /\ pidfile' = "none"
  /\ UNCHANGED <<lit, runled, starts>> /\ PshdUntouched

RunledPid ==
  /\ runled = "forked" /\ pidfile = "none"
  /\ runled' = "up" /\ pidfile' = "runled"
  /\ UNCHANGED <<lit, starts>> /\ PshdUntouched

Parent == RunledTruncates \/ RunledPid

\* Nothing is left to do when the machine goes down or pshd is gone.
Over == pc # "up" /\ UNCHANGED vars

Next ==
  \/ Press \/ Release \/ Tick \/ PshdEnds
  \/ RunledWrite \/ RunledDies \/ RunledFails \/ RunledStart \/ Parent
  \/ Over

\* pshd wakes up from its sleep, a signal is delivered, a parent goes on.
Spec ==
  /\ Init /\ [][Next]_vars
  /\ WF_vars(Tick) /\ WF_vars(RunledDies) /\ WF_vars(Parent)

-----------------------------------------------------------------------------
(* Properties *)

\* Clicks, however many and however late they are read, do not add up: the
\* machine restarts or stops only after a press that really lasted so long.  The
\* two events of an edge make two ticks of a click: with -r 0 that restarts it.
StopNeedsHold ==
  /\ pc = "reboot" => longest >= Reboot \/ Reboot <= 2
  /\ pc = "halt" => longest >= Halt

\* A press that pshd could follow from its beginning and that lasted long
\* enough restarts or stops the machine, whatever is pressed afterwards.
LongHoldStops == \A d \in {"reboot", "halt"} : due = d ~> pc \in {d, "gone"}

\* While the switch stays held, the LEDs end up red and stay so: runled is
\* killed even if it was started again in the middle, before its pid was known.
LedsSettle ==
  <>[](pressed /\ pc = "up") => <>[](lit = {"red"} /\ runled = "none")

=============================================================================
