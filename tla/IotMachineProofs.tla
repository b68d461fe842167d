-------------------------- MODULE IotMachineProofs --------------------------
(***************************************************************************)
(* Proofs about IotMachine, for every setting of the waits and timeouts.   *)
(***************************************************************************)
EXTENDS IotMachine, TLAPS

(* The switch *)

SwitchFlags == down \in BOOLEAN /\ edge \in BOOLEAN

SwitchNumbers ==
  /\ at \in {"idle", "reboot", "halt", "exec", "release", "last", "gone"}
  /\ timer \in 0 .. Reboot + Halt
  /\ command \in Commands
  /\ held \in 0 .. Reboot /\ holds \in Nat /\ runs \in Nat

\* In the first wait, without an edge, the switch has been down all along.
FirstWaitIsAHold == at = "reboot" /\ ~edge => down /\ held >= timer

\* A hold that the daemon has not yet seen through: its edge is unread, or
\* the first wait is on it.
PendingRuns == IF down /\ held = Reboot /\ (edge \/ at = "reboot") THEN 2 ELSE 0

\* Runs that follow from where the daemon is.
NextRuns == CASE at = "halt" -> 2 [] at \in {"exec", "release"} -> 1 [] OTHER -> 0

HoldsPay == runs + NextRuns + PendingRuns <= 2 * holds

SwitchInv == SwitchFlags /\ SwitchNumbers /\ FirstWaitIsAHold /\ HoldsPay

(* The watchdog *)

WatchdogFlags ==
  forever \in BOOLEAN /\ armed \in BOOLEAN /\ forgotten \in BOOLEAN /\ orphan \in BOOLEAN

WatchdogNumbers ==
  /\ pc \in {"none", "start", "handler", "open", "loop", "check", "doze", "sleep"}
  /\ nap \in 0 .. Interval /\ lag \in 0 .. Slack /\ left \in 0 .. Timeout
  /\ unit \in {"start", "active", "restart", "stop", "dead"}
  /\ waited \in 0 .. StopTimeout
  /\ faults \in 0 .. MaxFaults

\* Which processes there are in which state of the service.
Units ==
  /\ unit \in {"start", "dead"} <=> pc = "none"
  /\ unit \in {"restart", "stop"} => pc # "start"

\* An armed watchdog that the daemon has not opened was left by another.
LeftBehind == pc \in {"none", "start", "handler"} /\ armed => orphan

\* What is sure to be left of the timeout.
Reserve ==
  CASE pc = "sleep" -> nap
    [] pc \in {"open", "check", "doze"} -> Slack + Interval
    [] OTHER -> 0

FedInTime ==
  Running /\ unit # "dead" /\ armed => left + lag + Slack + Interval >= Timeout + Reserve

\* What may have gone by since a SIGTERM that was not forgotten.
Elapsed ==
  CASE pc = "doze" -> lag
    [] pc = "sleep" -> (Slack + Interval + lag) - nap
    [] OTHER -> Slack + Interval + lag

StopsInTime ==
  unit \in {"stop", "restart"} /\ ~forgotten
    => ~forever /\ pc \notin {"handler", "open"} /\ waited <= Elapsed

WatchdogInv ==
  WatchdogFlags /\ WatchdogNumbers /\ Units /\ LeftBehind /\ FedInTime /\ StopsInTime

IInv == power \in {"up", "stopping", "off", "hung"} /\ SwitchInv /\ WatchdogInv

-----------------------------------------------------------------------------
(* The switch keeps its invariant. *)

LEMMA SwitchInitInv == ASSUME SwitchInit PROVE SwitchInv
<1>1. SwitchFlags
  BY DEF SwitchInit, SwitchFlags
<1>2. SwitchNumbers /\ FirstWaitIsAHold /\ HoldsPay
  BY SwitchAssumption
  DEF SwitchInit, SwitchNumbers, Commands, FirstWaitIsAHold, HoldsPay, PendingRuns,
      NextRuns
<1> QED
  BY <1>1, <1>2 DEF SwitchInv

\* It is about the variables of the switch.
LEMMA SwitchStutter == ASSUME SwitchInv, UNCHANGED switch PROVE SwitchInv'
<1>1. SwitchFlags'
  BY DEF SwitchInv, switch, SwitchFlags
<1>2. SwitchNumbers' /\ FirstWaitIsAHold' /\ HoldsPay'
  BY DEF SwitchInv, switch, SwitchNumbers, Commands, FirstWaitIsAHold, HoldsPay,
         PendingRuns, NextRuns
<1> QED
  BY <1>1, <1>2 DEF SwitchInv

\* A new press or a release ends the hold that was pending.
LEMMA FingerInv == ASSUME SwitchInv, Press \/ Release PROVE SwitchInv'
<1>1. SwitchFlags'
  BY DEF SwitchInv, Press, Release, SwitchFlags
<1>2. SwitchNumbers' /\ FirstWaitIsAHold' /\ HoldsPay'
  BY SwitchAssumption
  DEF Press, Release, SwitchInv, SwitchNumbers, Commands, FirstWaitIsAHold, HoldsPay,
      PendingRuns, NextRuns
<1> QED
  BY <1>1, <1>2 DEF SwitchInv

\* The tick with which a hold becomes pending is the one that counts it.
LEMMA SwitchTickInv == ASSUME SwitchInv, SwitchTick PROVE SwitchInv'
<1>1. SwitchFlags'
  BY DEF SwitchInv, SwitchTick, SwitchFlags
<1>2. SwitchNumbers' /\ FirstWaitIsAHold'
  BY SwitchAssumption
  DEF SwitchInv, SwitchTick, SwitchNumbers, Commands, Limit, FirstWaitIsAHold
<1>3. HoldsPay'
  BY SwitchAssumption
  DEF SwitchInv, SwitchTick, SwitchNumbers, HoldsPay, PendingRuns, NextRuns
<1> QED
  BY <1>1, <1>2, <1>3 DEF SwitchInv

\* Every wake of watch_pushsw spends at most what the hold is worth.
LEMMA WakeInv == ASSUME SwitchInv, Wake PROVE SwitchInv'
<1>1. SwitchFlags'
  BY DEF SwitchInv, SwitchFlags, Wake
<1>2. SwitchNumbers' /\ FirstWaitIsAHold'
  BY SwitchAssumption
  DEF SwitchInv, SwitchNumbers, Commands, Wake, IdleWake, HaltWake, RebootWake,
      ReleaseWake, Wait, Exec, FirstWaitIsAHold
<1>3. HoldsPay'
  BY SwitchAssumption
  DEF SwitchInv, SwitchNumbers, Wake, IdleWake, HaltWake, RebootWake, ReleaseWake,
      Wait, Exec, HoldsPay, PendingRuns, NextRuns
<1> QED
  BY <1>1, <1>2, <1>3 DEF SwitchInv

\* The first wait times out only on a hold that is pending, and a wait that
\* is interrupted is worth less than one that ends.
LEMMA WaitEndsInv == ASSUME SwitchInv, TimedOut \/ Interrupted PROVE SwitchInv'
<1>1. SwitchFlags'
  BY DEF SwitchInv, SwitchFlags, TimedOut, Interrupted
<1>2. SwitchNumbers' /\ FirstWaitIsAHold' /\ HoldsPay'
  BY SwitchAssumption
  DEF SwitchInv, SwitchNumbers, Commands, TimedOut, Interrupted, Wait, Exec,
      FirstWaitIsAHold, HoldsPay, PendingRuns, NextRuns
<1> QED
  BY <1>1, <1>2 DEF SwitchInv

\* The end of the command, the end of the daemon and a boot owe no run.
LEMMA SwitchRestInv ==
  ASSUME SwitchInv, CommandEnds \/ SwitchGone \/ SwitchBoot
  PROVE  SwitchInv'
<1>1. SwitchFlags'
  BY DEF SwitchInv, SwitchFlags, CommandEnds, SwitchGone, SwitchBoot
<1>2. SwitchNumbers' /\ FirstWaitIsAHold' /\ HoldsPay'
  BY SwitchAssumption
  DEF SwitchInv, SwitchNumbers, Commands, CommandEnds, SwitchGone, SwitchBoot, Wait,
      FirstWaitIsAHold, HoldsPay, PendingRuns, NextRuns
<1> QED
  BY <1>1, <1>2 DEF SwitchInv

-----------------------------------------------------------------------------
(* The watchdog and its service keep theirs. *)

LEMMA WatchdogInitInv ==
  ASSUME WatchdogInit
  PROVE  WatchdogInv
<1>1. WatchdogFlags
  BY DEF WatchdogInit, WatchdogFlags
<1>2. WatchdogNumbers /\ Units /\ LeftBehind /\ FedInTime /\ StopsInTime
  BY WatchdogAssumption
  DEF WatchdogInit, WatchdogNumbers, Units, LeftBehind, FedInTime, StopsInTime
<1> QED
  BY <1>1, <1>2 DEF WatchdogInv

\* A boot starts from nothing.
LEMMA WatchdogBootInv == ASSUME WatchdogBoot PROVE WatchdogInv'
<1>1. WatchdogFlags'
  BY DEF WatchdogBoot, WatchdogFlags
<1>2. (WatchdogNumbers /\ Units /\ LeftBehind /\ FedInTime /\ StopsInTime)'
  BY WatchdogAssumption
  DEF WatchdogBoot, WatchdogNumbers, Units, LeftBehind, FedInTime, StopsInTime
<1> QED
  BY <1>1, <1>2 DEF WatchdogInv

\* It is about the variables of the watchdog, and about a machine that runs.
LEMMA WatchdogStutter ==
  ASSUME WatchdogInv, UNCHANGED watchdog, Running' => Running
  PROVE  WatchdogInv'
<1>1. WatchdogFlags'
  BY DEF WatchdogInv, watchdog, WatchdogFlags
<1>2. WatchdogNumbers' /\ Units' /\ LeftBehind' /\ StopsInTime'
  BY DEF WatchdogInv, watchdog, WatchdogNumbers, Units, LeftBehind, StopsInTime, Elapsed
<1>3. FedInTime'
  BY DEF WatchdogInv, watchdog, FedInTime, Reserve
<1> QED
  BY <1>1, <1>2, <1>3 DEF WatchdogInv

\* A daemon that starts finds what another has left.
LEMMA ForkInv ==
  ASSUME WatchdogInv, Fork, UNCHANGED power
  PROVE  WatchdogInv'
<1>1. WatchdogFlags'
  BY DEF WatchdogInv, WatchdogFlags, Fork
<1>2. (WatchdogNumbers /\ Units /\ LeftBehind)'
  BY WatchdogAssumption
  DEF WatchdogInv, WatchdogNumbers, Units, LeftBehind, Fork
<1>3. FedInTime'
  BY WatchdogAssumption
  DEF WatchdogInv, WatchdogNumbers, Units, FedInTime, Running, Reserve, Fork
<1>4. StopsInTime'
  BY WatchdogAssumption
  DEF WatchdogInv, WatchdogNumbers, Units, StopsInTime, Elapsed, Fork
<1> QED
  BY <1>1, <1>2, <1>3, <1>4 DEF WatchdogInv

\* SIGTERM is forgotten, or the flag is down and the daemon on its way.
LEMMA SignalInv ==
  ASSUME WatchdogInv, NEW u \in {"restart", "stop"}, Signal(u), UNCHANGED power
  PROVE  WatchdogInv'
<1>1. WatchdogFlags'
  <2>1. forever' \in BOOLEAN
    BY DEF WatchdogInv, WatchdogFlags, Signal, Die
  <2>2. forgotten' \in BOOLEAN
    BY DEF Signal
  <2> QED
    BY <2>1, <2>2 DEF WatchdogInv, WatchdogFlags, Signal
<1>2. (WatchdogNumbers /\ Units)'
  <2>1. CASE pc = "start"
    BY <2>1, WatchdogAssumption DEF WatchdogInv, WatchdogNumbers, Units, Signal
  <2>2. CASE pc # "start"
    BY <2>2, WatchdogAssumption DEF WatchdogInv, WatchdogNumbers, Units, Signal
  <2> QED
    BY <2>1, <2>2
<1>3. LeftBehind'
  BY DEF WatchdogInv, WatchdogNumbers, LeftBehind, Signal
<1>4. FedInTime'
  BY WatchdogAssumption
  DEF WatchdogInv, WatchdogNumbers, Units, FedInTime, Running, Reserve, Signal, Die
<1>5. pc # "start" /\ ~forgotten' => ~forever' /\ pc \notin {"handler", "open"}
  BY DEF Signal, Die
<1>6. waited' = 0
  BY DEF Signal
<1>7. StopsInTime'
  <2>1. CASE pc = "start"
    BY <2>1 DEF StopsInTime, Signal
  <2>2. CASE pc # "start"
    <3>1. pc' \notin {"handler", "open"} \/ pc' = pc
      BY <2>2 DEF Signal
    <3>2. 0 <= Elapsed'
      BY <2>2, <1>2, WatchdogAssumption DEF WatchdogInv, WatchdogNumbers, Elapsed,
      Signal
    <3> QED
      BY <1>5, <1>6, <2>2, <3>1, <3>2 DEF StopsInTime
  <2> QED
    BY <2>1, <2>2
<1> QED
  BY <1>1, <1>2, <1>3, <1>4, <1>7 DEF WatchdogInv

\* A stop changes only what is waited for.
LEMMA StopJobInv ==
  ASSUME WatchdogInv, StopJob, UNCHANGED power
  PROVE  WatchdogInv'
<1>1. WatchdogFlags'
  BY DEF WatchdogInv, WatchdogFlags, StopJob
<1>2. (WatchdogNumbers /\ Units /\ LeftBehind)'
  BY WatchdogAssumption
  DEF WatchdogInv, WatchdogNumbers, Units, LeftBehind, StopJob
<1>3. FedInTime'
  BY WatchdogAssumption
  DEF WatchdogInv, WatchdogNumbers, Units, FedInTime, Running, Reserve, StopJob
<1>4. StopsInTime'
  BY WatchdogAssumption
  DEF WatchdogInv, WatchdogNumbers, Units, StopsInTime, Elapsed, StopJob
<1> QED
  BY <1>1, <1>2, <1>3, <1>4 DEF WatchdogInv

\* A daemon that is killed, or whose call fails, leaves the watchdog behind.
LEMMA EndsBadlyInv ==
  ASSUME WatchdogInv, Kill \/ Fails, UNCHANGED power
  PROVE  WatchdogInv'
<1>1. WatchdogFlags'
  BY DEF WatchdogInv, WatchdogFlags, Kill, Fails, Exits, AfterExit
<1>2. (WatchdogNumbers /\ Units /\ LeftBehind)'
  BY WatchdogAssumption
  DEF WatchdogInv, WatchdogNumbers, Units, LeftBehind, Kill, Fails, Exits, AfterExit
<1>3. FedInTime'
  <2>1. CASE Kill
    BY <2>1, WatchdogAssumption
    DEF WatchdogInv, WatchdogNumbers, Units, FedInTime, Running, Reserve, Kill,
        Exits, AfterExit
  <2>2. CASE Fails
    BY <2>2, WatchdogAssumption
    DEF WatchdogInv, WatchdogNumbers, Units, FedInTime, Running, Reserve, Fails,
        Exits, AfterExit
  <2> QED
    BY <2>1, <2>2
<1>4. StopsInTime'
  BY WatchdogAssumption
  DEF WatchdogInv, WatchdogNumbers, Units, StopsInTime, Elapsed, Kill, Fails, Exits,
      AfterExit
<1> QED
  BY <1>1, <1>2, <1>3, <1>4 DEF WatchdogInv

\* The watchdog is full when it is opened or fed.
LEMMA ArmInv ==
  ASSUME WatchdogInv, InstallHandler \/ Open \/ SetForever \/ KeepAlive, UNCHANGED power
  PROVE  WatchdogInv'
<1>1. WatchdogFlags'
  BY DEF WatchdogInv, WatchdogFlags, InstallHandler, Open, SetForever, KeepAlive,
         Step, Goto
<1>2. (WatchdogNumbers /\ Units /\ LeftBehind)'
  BY WatchdogAssumption
  DEF WatchdogInv, WatchdogNumbers, Units, LeftBehind, InstallHandler, Open,
      SetForever, KeepAlive, Step, Goto
<1>3. FedInTime'
  <2>1. CASE InstallHandler
    BY <2>1, WatchdogAssumption
    DEF WatchdogInv, WatchdogNumbers, Units, FedInTime, Running, Reserve,
        InstallHandler, Step, Goto
  <2>2. CASE Open
    BY <2>2, WatchdogAssumption
    DEF WatchdogInv, WatchdogNumbers, Units, FedInTime, Running, Reserve, Open, Step,
        Goto
  <2>3. CASE SetForever
    BY <2>3, WatchdogAssumption
    DEF WatchdogInv, WatchdogNumbers, Units, FedInTime, Running, Reserve, SetForever,
        Step, Goto
  <2>4. CASE KeepAlive
    BY <2>4, WatchdogAssumption
    DEF WatchdogInv, WatchdogNumbers, Units, FedInTime, Running, Reserve, KeepAlive,
        Step, Goto
  <2> QED
    BY <2>1, <2>2, <2>3, <2>4
<1>4. StopsInTime'
  BY WatchdogAssumption
  DEF WatchdogInv, WatchdogNumbers, Units, StopsInTime, Elapsed, InstallHandler,
      Open, SetForever, KeepAlive, Step, Goto
<1> QED
  BY <1>1, <1>2, <1>3, <1>4 DEF WatchdogInv

\* A sleep begins within Slack of the feeding.
LEMMA SleepInv ==
  ASSUME WatchdogInv, Look \/ DontSleep \/ Sleep \/ Awake, UNCHANGED power
  PROVE  WatchdogInv'
<1>1. WatchdogFlags'
  BY DEF WatchdogInv, WatchdogFlags, Look, DontSleep, Sleep, Awake, Step, Goto
<1>2. (WatchdogNumbers /\ Units /\ LeftBehind)'
  BY WatchdogAssumption
  DEF WatchdogInv, WatchdogNumbers, Units, LeftBehind, Look, DontSleep, Sleep, Awake,
      Step, Goto
<1>3. FedInTime'
  <2>1. CASE Look
    BY <2>1, WatchdogAssumption
    DEF WatchdogInv, WatchdogNumbers, Units, FedInTime, Running, Reserve, Look, Step,
        Goto
  <2>2. CASE DontSleep
    BY <2>2, WatchdogAssumption
    DEF WatchdogInv, WatchdogNumbers, Units, FedInTime, Running, Reserve, DontSleep,
        Step, Goto
  <2>3. CASE Sleep
    BY <2>3, WatchdogAssumption
    DEF WatchdogInv, WatchdogNumbers, Units, FedInTime, Running, Reserve, Sleep
  <2>4. CASE Awake
    BY <2>4, WatchdogAssumption
    DEF WatchdogInv, WatchdogNumbers, Units, FedInTime, Running, Reserve, Awake,
        Step, Goto
  <2> QED
    BY <2>1, <2>2, <2>3, <2>4
<1>4. StopsInTime'
  BY WatchdogAssumption
  DEF WatchdogInv, WatchdogNumbers, Units, StopsInTime, Elapsed, Look, DontSleep,
      Sleep, Awake, Step, Goto
<1> QED
  BY <1>1, <1>2, <1>3, <1>4 DEF WatchdogInv

\* The daemon that ends in order disarms the watchdog.
LEMMA DisarmInv ==
  ASSUME WatchdogInv, Disarm, UNCHANGED power
  PROVE  WatchdogInv'
<1>1. WatchdogFlags'
  BY DEF WatchdogInv, WatchdogFlags, Disarm, Exits, AfterExit
<1>2. (WatchdogNumbers /\ Units /\ LeftBehind)'
  BY WatchdogAssumption
  DEF WatchdogInv, WatchdogNumbers, Units, LeftBehind, Disarm, Exits, AfterExit
<1>3. FedInTime'
  BY WatchdogAssumption
  DEF WatchdogInv, WatchdogNumbers, Units, FedInTime, Running, Reserve, Disarm,
      Exits, AfterExit
<1>4. StopsInTime'
  BY WatchdogAssumption
  DEF WatchdogInv, WatchdogNumbers, Units, StopsInTime, Elapsed, Disarm, Exits,
      AfterExit
<1> QED
  BY <1>1, <1>2, <1>3, <1>4 DEF WatchdogInv

\* A tick is paid from the nap, or from the slack.
LEMMA WatchdogTickInv ==
  ASSUME WatchdogInv, power # "off", WatchdogTick(power = "hung"), UNCHANGED power
  PROVE  WatchdogInv'
<1>1. WatchdogFlags'
  BY DEF WatchdogInv, WatchdogFlags, WatchdogTick, Busy, Down1
<1>2. (WatchdogNumbers /\ Units /\ LeftBehind)'
  BY WatchdogAssumption
  DEF WatchdogInv, WatchdogNumbers, Units, LeftBehind, WatchdogTick, Busy, Down1
<1>3. FedInTime'
  BY WatchdogAssumption
  DEF WatchdogInv, WatchdogNumbers, Units, FedInTime, Running, Reserve, WatchdogTick,
      Busy, Down1
<1>4. StopsInTime'
  BY WatchdogAssumption
  DEF WatchdogInv, WatchdogNumbers, Units, StopsInTime, Elapsed, WatchdogTick, Busy,
      Down1
<1> QED
  BY <1>1, <1>2, <1>3, <1>4 DEF WatchdogInv

-----------------------------------------------------------------------------
(* The machine. *)

LEMMA InitIInv == Init => IInv
BY SwitchInitInv, WatchdogInitInv DEF Init, IInv

\* A step of the daemon or of systemd leaves the switch alone.
LEMMA ServiceInv ==
  ASSUME IInv, UNCHANGED <<power, switch>>,
         Daemon \/ Fails \/ Fork \/ StopJob \/ Kill
           \/ (\E u \in {"restart", "stop"} : Signal(u))
  PROVE  IInv'
<1>1. SwitchInv'
  BY SwitchStutter DEF IInv
<1>2. WatchdogInv /\ UNCHANGED power
  BY DEF IInv
<1>3. WatchdogInv'
  <2>1. CASE Daemon
    BY <2>1, <1>2, ArmInv, SleepInv, DisarmInv DEF Daemon
  <2>2. CASE Fails \/ Kill
    BY <2>2, <1>2, EndsBadlyInv
  <2>3. CASE Fork
    BY <2>3, <1>2, ForkInv
  <2>4. CASE StopJob
    BY <2>4, <1>2, StopJobInv
  <2>5. CASE \E u \in {"restart", "stop"} : Signal(u)
    BY <2>5, <1>2, SignalInv
  <2> QED
    BY <2>1, <2>2, <2>3, <2>4, <2>5
<1> QED
  BY <1>1, <1>3 DEF IInv

\* A boot brings both daemons back to their start.
LEMMA BootInv == ASSUME IInv, Boot PROVE IInv'
BY SwitchRestInv, WatchdogBootInv DEF Boot, IInv

\* Every step keeps the invariant.
LEMMA NextIInv == ASSUME IInv, [Next]_vars PROVE IInv'
<1>1. CASE Finger
  BY <1>1, FingerInv, WatchdogStutter DEF Finger, IInv, Running
<1>2. CASE Pshd \/ PshdInterrupted
  BY <1>2, WakeInv, WaitEndsInv, SwitchRestInv, WatchdogStutter
  DEF Pshd, PshdInterrupted, IInv, Running
<1>3. CASE Shutdown
  BY <1>3, SwitchRestInv, WatchdogStutter DEF Shutdown, IInv, Running
<1>4. CASE Keepalive \/ KeepaliveFails \/ StartService \/ RestartService
             \/ StopService \/ KillService
  BY <1>4, ServiceInv
  DEF Keepalive, KeepaliveFails, StartService, RestartService, StopService, KillService
<1>5. CASE PowerOff \/ Hang
  BY <1>5, SwitchStutter, WatchdogStutter DEF PowerOff, Hang, IInv, Running
<1>6. CASE PowerOn \/ Reset
  BY <1>6, BootInv DEF PowerOn, Reset
<1>7. CASE Tick
  <2>1. SwitchInv' /\ UNCHANGED power
    BY <1>7, SwitchTickInv DEF Tick, IInv
  <2>2. WatchdogInv'
    BY <1>7, WatchdogTickInv DEF Tick, IInv
  <2> QED
    BY <2>1, <2>2 DEF IInv
<1>8. CASE UNCHANGED vars
  BY <1>8, SwitchStutter, WatchdogStutter DEF vars, switch, watchdog, IInv, Running
<1> QED
  BY <1>1, <1>2, <1>3, <1>4, <1>5, <1>6, <1>7, <1>8 DEF Next

LEMMA Invariant == Spec => []IInv
<1> QED
  BY InitIInv, NextIInv, PTL DEF Spec

-----------------------------------------------------------------------------
\* The variables of both daemons keep their types: pshd_bx1.c, wd-keepalive.c.
THEOREM TypeCorrect == Spec => []TypeOK
<1>1. IInv => SwitchTypeOK
  BY DEF IInv, SwitchInv, SwitchFlags, SwitchNumbers, SwitchTypeOK
<1>2. IInv => WatchdogTypeOK
  BY DEF IInv, WatchdogInv, WatchdogFlags, WatchdogNumbers, WatchdogTypeOK
<1>3. IInv => TypeOK
  BY <1>1, <1>2 DEF IInv, TypeOK
<1> QED
  BY <1>3, Invariant, PTL

\* watch_pushsw runs the command at most twice for every press of REBOOT or
\* more, whatever REBOOT and HALT are.
THEOREM RunsAreHeldFor == Spec => []RunsNeedHolds
<1>1. IInv => RunsNeedHolds
  BY DEF IInv, SwitchInv, SwitchNumbers, HoldsPay, PendingRuns, NextRuns, RunsNeedHolds
<1> QED
  BY <1>1, Invariant, PTL

\* A service that systemd has stopped leaves the watchdog disarmed, unless its
\* daemon was killed or one of its calls failed.
THEOREM StopIsDisarmed == Spec => []StopDisarms
<1>1. IInv => StopDisarms
  BY DEF IInv, WatchdogInv, WatchdogNumbers, Units, LeftBehind, StopDisarms
<1> QED
  BY <1>1, Invariant, PTL

\* As long as TIMEOUT is longer than INTERVAL and twice what the daemon's steps
\* take, the watchdog resets no machine that is up, be the service restarted.
THEOREM ResetIsCaused == Spec => ResetHasCause
<1>1. IInv /\ Reset => power = "hung" \/ unit = "dead"
  <2> SUFFICES ASSUME IInv, Reset, power # "hung", unit # "dead" PROVE FALSE
    OBVIOUS
  <2>1. Running /\ armed /\ left = 0
    BY DEF IInv, Reset, Running
  <2>2. lag + Slack + Interval >= Timeout + Reserve
    BY <2>1 DEF IInv, WatchdogInv, WatchdogNumbers, FedInTime
  <2>3. Reserve \in Nat /\ lag <= Slack
    BY WatchdogAssumption DEF IInv, WatchdogInv, WatchdogNumbers, Reserve
  <2> QED
    BY <2>2, <2>3, WatchdogAssumption DEF IInv, WatchdogInv, WatchdogNumbers
<1>2. IInv /\ [Next]_vars => [Reset => power = "hung" \/ unit = "dead"]_vars
  BY <1>1
<1> QED
  BY <1>2, Invariant, PTL DEF Spec, ResetHasCause

\* systemd kills the daemon only when its SIGTERM came between signal() and
\* forever=1 of wd-keepalive.c, as long as systemd waits longer than INTERVAL
\* and twice what the daemon's steps take.
THEOREM KilledIsForgotten == Spec => KillIsForgotten
<1>1. IInv /\ KillService => forgotten
  <2> SUFFICES ASSUME IInv, KillService, ~forgotten PROVE FALSE
    OBVIOUS
  <2>1. unit \in {"stop", "restart"} /\ waited = StopTimeout
    BY DEF KillService, Kill
  <2>2. waited <= Elapsed
    BY <2>1 DEF IInv, WatchdogInv, StopsInTime
  <2>3. Elapsed \in Nat /\ Elapsed <= Slack + Interval + Slack
    BY WatchdogAssumption DEF IInv, WatchdogInv, WatchdogNumbers, Elapsed
  <2> QED
    BY <2>1, <2>2, <2>3, WatchdogAssumption
<1>2. IInv /\ [Next]_vars => [KillService => forgotten]_vars
  BY <1>1
<1> QED
  BY <1>2, Invariant, PTL DEF Spec, KillIsForgotten
=============================================================================
