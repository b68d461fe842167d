------------------------------ MODULE Watchdog ------------------------------
(***************************************************************************)
(* The watchdog daemon (wd-keepalive.c) as a systemd service with          *)
(* Restart=always.  It arms the watchdog, feeds it every INTERVAL, and on  *)
(* SIGTERM disarms it and exits.  The flag of the handler is set once more *)
(* after the handler is installed: a SIGTERM before that is forgotten, and *)
(* systemd kills the daemon later, with the watchdog armed.                *)
(***************************************************************************)
EXTENDS Naturals

CONSTANTS
  Interval,     \* INTERVAL, in ticks
  Timeout,      \* of the watchdog
  StopTimeout,  \* systemd's, from SIGTERM to SIGKILL
  Slack,        \* ticks that the steps between two sleeps may take together
  MaxFaults     \* bound: failing calls in one boot (systemd allows 5 starts)

ASSUME WatchdogAssumption ==
  /\ Interval \in Nat \ {0} /\ Slack \in Nat
  /\ StopTimeout \in Nat /\ StopTimeout > Interval + 2 * Slack
  /\ Timeout \in Nat /\ Timeout > Interval + 2 * Slack
  /\ MaxFaults \in Nat

VARIABLES
  pc,       \* the child of wd-keepalive
  forever,  \* its flag
  nap,      \* ticks left in nanosleep
  lag,      \* ticks since it last began to sleep, the sleep not counted
  armed,    \* the watchdog runs
  left,     \* ticks until it resets the machine
  unit,     \* what systemd does with the service
  waited,   \* ticks since its SIGTERM
  forgotten,  \* history: its SIGTERM came before the flag was set
  orphan,   \* the daemon ended without disarming, and no other has opened the watchdog
  faults    \* failing calls

watchdog == <<pc, forever, nap, lag, armed, left, unit, waited, forgotten, orphan, faults>>

WatchdogTypeOK ==
  /\ pc \in {"none", "start", "handler", "open", "loop", "check", "doze", "sleep"}
  /\ forever \in BOOLEAN /\ armed \in BOOLEAN
  /\ forgotten \in BOOLEAN /\ orphan \in BOOLEAN
  /\ nap \in 0 .. Interval /\ lag \in 0 .. Slack /\ left \in 0 .. Timeout
  /\ unit \in {"start", "active", "restart", "stop", "dead"}
  /\ waited \in 0 .. StopTimeout
  /\ faults \in 0 .. MaxFaults

\* A boot of the machine.
WatchdogInit ==
  /\ pc = "none" /\ forever = FALSE /\ nap = 0 /\ lag = 0
  /\ armed = FALSE /\ left = Timeout
  /\ unit = "start" /\ waited = 0 /\ forgotten = FALSE /\ orphan = FALSE /\ faults = 0

WatchdogBoot ==
  /\ pc' = "none" /\ forever' = FALSE /\ nap' = 0 /\ lag' = 0
  /\ armed' = FALSE /\ left' = Timeout
  /\ unit' = "start" /\ waited' = 0 /\ forgotten' = FALSE /\ orphan' = FALSE /\ faults' = 0

-----------------------------------------------------------------------------
(* systemd *)

\* Type=forking: the parent has written the pid file and exits.
Fork ==
  /\ unit = "start"
  /\ unit' = "active" /\ pc' = "start" /\ forever' = FALSE
  /\ UNCHANGED <<nap, lag, armed, left, waited, forgotten, orphan, faults>>

\* Mutant: without Restart=always.
NoRestart == CASE unit = "restart" -> "start" [] OTHER -> "dead"

\* What becomes of the service when its process ends.
AfterExit == CASE unit \in {"active", "restart"} -> "start" [] OTHER -> "dead"

Exits == pc' = "none" /\ nap' = 0 /\ unit' = AfterExit

\* Mutant: the handler is empty.
IgnoreTerm == forever

\* The handler of SIGTERM.
Die == FALSE

\* systemctl stop and restart.  SIGTERM kills before there is a handler, and
\* it ends nanosleep.
Signal(u) ==
  /\ unit = "active"
  /\ waited' = 0 /\ forgotten' = (pc \in {"handler", "open"})
  /\ IF pc = "start"
     THEN /\ pc' = "none" /\ unit' = (IF u = "restart" THEN "start" ELSE "dead")
          /\ UNCHANGED <<forever, nap>>
     ELSE /\ unit' = u /\ forever' = Die
          /\ IF pc = "sleep" THEN pc' = "loop" /\ nap' = 0 ELSE UNCHANGED <<pc, nap>>
  /\ UNCHANGED <<lag, armed, left, orphan, faults>>

\* A stop while there is no process, or while a restart waits for its end.
StopJob ==
  /\ \/ unit = "start" /\ unit' = "dead"
     \/ unit = "restart" /\ unit' = "stop"
  /\ UNCHANGED <<pc, forever, nap, lag, armed, left, waited, forgotten, orphan, faults>>

Kill ==
  /\ unit \in {"stop", "restart"} /\ waited = StopTimeout
  /\ Exits /\ orphan' = TRUE
  /\ UNCHANGED <<forever, lag, armed, left, waited, forgotten, faults>>

-----------------------------------------------------------------------------
(* wd-keepalive *)

Goto(from, to) == pc = from /\ pc' = to /\ UNCHANGED <<lag, unit, waited, forgotten, faults>>

Step(from, to) == Goto(from, to) /\ UNCHANGED orphan

InstallHandler == Step("start", "handler") /\ UNCHANGED <<forever, nap, armed, left>>

\* Mutant: the watchdog is opened but not started.
OpenOnly ==
  /\ Goto("handler", "open") /\ orphan' = FALSE
  /\ UNCHANGED <<forever, nap, armed, left>>

\* The watchdog runs from the open on.
Open ==
  /\ Goto("handler", "open") /\ orphan' = FALSE
  /\ armed' = TRUE /\ left' = Timeout
  /\ UNCHANGED <<forever, nap>>

SetForever == Step("open", "loop") /\ forever' = TRUE /\ UNCHANGED <<nap, armed, left>>

\* Mutant: the watchdog is fed once, when it is armed.
NoKeepAlive == forever /\ Step("loop", "check") /\ UNCHANGED <<forever, nap, armed, left>>

KeepAlive ==
  /\ forever /\ Step("loop", "check")
  /\ left' = Timeout
  /\ UNCHANGED <<forever, nap, armed>>

Look == forever /\ Step("check", "doze") /\ UNCHANGED <<forever, nap, armed, left>>

\* Mutant: a tick more.
LongSleep ==
  /\ pc = "doze" /\ pc' = "sleep"
  /\ nap' = Interval + 1 /\ lag' = 0
  /\ UNCHANGED <<forever, armed, left, unit, waited, forgotten, orphan, faults>>

\* SIGTERM between the look at the flag and nanosleep does not shorten it.
Sleep ==
  /\ pc = "doze" /\ pc' = "sleep"
  /\ nap' = Interval /\ lag' = 0
  /\ UNCHANGED <<forever, armed, left, unit, waited, forgotten, orphan, faults>>

DontSleep == ~forever /\ Step("check", "loop") /\ UNCHANGED <<forever, nap, armed, left>>

Awake == nap = 0 /\ Step("sleep", "loop") /\ UNCHANGED <<forever, nap, armed, left>>

\* Mutant: the daemon exits without disarming.
JustExit ==
  /\ pc = "loop" /\ ~forever
  /\ Exits
  /\ UNCHANGED <<forever, lag, armed, left, waited, forgotten, orphan, faults>>

\* After the loop: disarm and exit.
Disarm ==
  /\ pc = "loop" /\ ~forever
  /\ Exits /\ armed' = FALSE
  /\ UNCHANGED <<forever, lag, left, waited, forgotten, orphan, faults>>

\* A call of the daemon fails: open of the device (exit 1), arming (2),
\* feeding (3), disarming (4).  The watchdog stays as it is.
Fails ==
  /\ faults < MaxFaults /\ faults' = faults + 1
  /\ pc \in {"handler", "open", "loop"}
  /\ Exits /\ orphan' = TRUE
  /\ UNCHANGED <<forever, lag, armed, left, waited, forgotten>>

Daemon ==
    \/ InstallHandler \/ Open \/ SetForever
  \/ KeepAlive \/ Look \/ DontSleep \/ Sleep \/ Awake \/ Disarm

-----------------------------------------------------------------------------
\* Everything but a nap is over soon.
Busy == unit = "start" \/ pc \notin {"none", "sleep"} \/ (pc = "sleep" /\ nap = 0)

Down1(n) == IF n = 0 THEN 0 ELSE n - 1

\* hung: nothing but the watchdog goes on.
WatchdogTick(hung) ==
  /\ left' = IF armed THEN Down1(left) ELSE left
  /\ IF hung THEN UNCHANGED <<nap, lag, waited>>
     ELSE /\ Busy => lag < Slack
          /\ lag' = IF Busy THEN lag + 1 ELSE lag
          /\ nap' = Down1(nap)
          /\ waited' = IF unit \in {"stop", "restart"} /\ waited < StopTimeout
                       THEN waited + 1 ELSE waited
  /\ UNCHANGED <<pc, forever, armed, unit, forgotten, orphan, faults>>
=============================================================================
