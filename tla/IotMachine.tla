----------------------------- MODULE IotMachine -----------------------------
(***************************************************************************)
(* An IoT model with its push switch daemon and its watchdog daemon: the   *)
(* command of the switch may shut the machine down, the shutdown stops the *)
(* daemons, and the watchdog resets a machine that hangs, or one whose     *)
(* daemon ended without disarming it.                                      *)
(***************************************************************************)
EXTENDS SwitchIoT, Watchdog

VARIABLE power

vars == <<power, down, edge, at, timer, command, held, holds, runs,
          pc, forever, nap, lag, armed, left, unit, waited, forgotten, orphan, faults>>

\* Types of the power state and of the state of both daemons.
TypeOK ==
  /\ power \in {"up", "stopping", "off", "hung"}
  /\ SwitchTypeOK /\ WatchdogTypeOK

Init == power = "up" /\ SwitchInit /\ WatchdogInit

Running == power \in {"up", "stopping"}

-----------------------------------------------------------------------------
Finger == (Press \/ Release) /\ UNCHANGED <<power, watchdog>>

Pshd ==
  /\ power = "up" /\ UNCHANGED <<power, watchdog>>
  /\ \/ Wake \/ TimedOut
     \/ CommandEnds /\ command # "shutdown"

PshdInterrupted ==
  power = "up" /\ Interrupted /\ UNCHANGED <<power, watchdog>>

\* By the command of the switch, or by the administrator.  pshd has no
\* handler for SIGTERM.
Shutdown ==
  /\ power = "up" /\ power' = "stopping"
  /\ SwitchGone /\ UNCHANGED watchdog

SwitchShutdown == at \in {"exec", "last"} /\ command = "shutdown" /\ Shutdown

Keepalive == Running /\ Daemon /\ UNCHANGED <<power, switch>>

KeepaliveFails == Running /\ Fails /\ UNCHANGED <<power, switch>>

StartService == power = "up" /\ Fork /\ UNCHANGED <<power, switch>>

\* The postinst script of the package.
RestartService == power = "up" /\ Signal("restart") /\ UNCHANGED <<power, switch>>

StopService ==
  /\ power = "stopping" /\ UNCHANGED <<power, switch>>
  /\ Signal("stop") \/ StopJob

KillService == Running /\ Kill /\ UNCHANGED <<power, switch>>

PowerOff ==
  /\ power = "stopping" /\ unit = "dead" /\ power' = "off"
  /\ UNCHANGED <<switch, watchdog>>

Boot == power' = "up" /\ SwitchBoot /\ WatchdogBoot

PowerOn == power = "off" /\ Boot

Hang == Running /\ power' = "hung" /\ UNCHANGED <<switch, watchdog>>

Reset == power # "off" /\ armed /\ left = 0 /\ Boot

Tick ==
  /\ power # "off" /\ (armed => left > 0)
  /\ SwitchTick /\ WatchdogTick(power = "hung")
  /\ UNCHANGED power

Next ==
  \/ Finger \/ Pshd \/ PshdInterrupted \/ Shutdown
  \/ Keepalive \/ KeepaliveFails
  \/ StartService \/ RestartService \/ StopService \/ KillService
  \/ PowerOff \/ PowerOn \/ Hang \/ Reset \/ Tick

\* Processes that can run do, time passes, the watchdog fires, and nobody
\* holds the switch for ever.  No signal need come to end a wait.
Fairness ==
  /\ WF_vars(Pshd) /\ WF_vars(SwitchShutdown)
  /\ WF_vars(Keepalive) /\ WF_vars(StartService) /\ WF_vars(StopService)
  /\ WF_vars(KillService) /\ WF_vars(PowerOff) /\ WF_vars(Reset) /\ WF_vars(Tick)
  /\ WF_vars(Release /\ UNCHANGED <<power, watchdog>>)

Spec == Init /\ [][Next]_vars /\ Fairness

-----------------------------------------------------------------------------
\* When the service has been stopped the watchdog does not run, but for a
\* daemon that had to be killed or whose calls failed.
StopDisarms == unit = "dead" /\ armed => orphan

\* The watchdog resets a machine that hangs, and one whose shutdown goes on
\* when it is still armed: never one that is up, be its service restarted.
ResetHasCause == [][Reset => power = "hung" \/ unit = "dead"]_vars

\* The daemon is killed only if its SIGTERM came between the installation of
\* the handler and the setting of the flag: any other stop ends in time.
KillIsForgotten == [][KillService => forgotten]_vars

\* A machine that hangs when the daemon has opened the watchdog is reset.
HungIsReset == power = "hung" /\ pc \in {"open", "loop", "check", "doze", "sleep"} ~> power # "hung"

\* As long as the machine is up its watchdog is armed again and again, unless
\* the package is upgraded again and again.
ArmedAgain == []<>(armed \/ power # "up") \/ []<><<RestartService>>_vars

\* The daemon waits for an edge while the switch is down: it does not see this
\* press, be it that a bounce or a signal has ended its first wait, or that a
\* wait of the press before has taken the edge.
Missed == at = "idle" /\ down /\ ~edge

\* For the daemon this press is shorter than REBOOT: it was released, or there
\* was another edge of it, before the first wait was over.
TooShort == (at = "idle" /\ ~down) \/ (at = "reboot" /\ edge)

\* A switch held for REBOOT runs the command, early or late, unless the machine
\* goes down, or the press is one that the daemon has missed or that was too
\* short for it.
HoldRuns ==
  down /\ held = Reboot ~> at \in {"exec", "last"} \/ Missed \/ TooShort \/ power # "up"

\* When the first wait is over, a command that shuts down turns the machine off:
\* the watchdog does not turn that into a reset, but for a daemon that could not
\* disarm it.
HoldTurnsOff ==
  at = "halt" /\ command = "shutdown" ~> power \in {"off", "hung"} \/ orphan
=============================================================================
