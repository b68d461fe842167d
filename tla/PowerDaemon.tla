----------------------------- MODULE PowerDaemon -----------------------------
(***************************************************************************)
(* files/obsiot-power.c: the daemon that watches the power inputs and the  *)
(* battery of an OpenBlocks IoT, stops charging when the power is lost,    *)
(* and runs COMMAND when the loss lasts LIMIT seconds or the battery is    *)
(* low.  One pass of its loop takes INTERVAL seconds; time is counted in   *)
(* passes, and goes on when the daemon is gone.                            *)
(*                                                                         *)
(* The daemon catches every signal with die(), SIGCHLD included: when      *)
(* system() has reaped COMMAND and unblocks SIGCHLD, the pending signal    *)
(* ends the daemon.  The systemd unit has Restart=always and starts it     *)
(* again at once, until systemd gives up a unit that ends too often; what  *)
(* the script in /etc/init.d has started stays away.                       *)
(***************************************************************************)
EXTENDS Integers

CONSTANTS
  Limit,      \* LIMIT / INTERVAL, from option -t
  Commands,   \* what COMMAND may be: "poweroff", as DEF_COMMAND, or "other"
  Starters,   \* what starts the daemon: "systemd", its unit, or the "init" script
  Horizon     \* bound: passes that are counted

Max0(n) == IF n < 0 THEN 0 ELSE n

ASSUME LimitAssumption == Limit \in Int
ASSUME CommandsAssumption == Commands \subseteq {"poweroff", "other"}
ASSUME StartersAssumption == Starters \subseteq {"systemd", "init"}
ASSUME HorizonAssumption == Horizon \in Nat /\ Horizon > Max0(Limit)

VARIABLES
  command,  \* COMMAND; it never changes
  supervised, \* systemd starts the daemon again when it has ended
  power,    \* a power input is present
  low,      \* BAT_L: the battery is low
  input,    \* what the daemon has read of the battery: low, or not
  pc,       \* "start", "read" (at the top of the loop), "act", "command" (in
            \* system()), "failed", "dead", "off"
  count,
  charging, \* PF_L
  i2c,      \* history: an I2C write has failed since charging was last set
  forgot,   \* history: a loss was forgotten since then, COMMAND not forked
  lost,     \* history: passes this daemon has read as without power, since the
            \* last with power or the last COMMAND at the end of a countdown
  down,     \* history: passes the loss has lasted, none of them read as with power
  seenlow,  \* history: a low battery was read in these passes since a COMMAND
  ran       \* history: system() has been called in this loss

vars == <<command, supervised, power, low, input, pc, count, charging, i2c, forgot,
          lost, down, seenlow, ran>>

\* Types of the daemon's inputs, of its poll loop's control state and of its counter,
\* which stays between -1 (mains power) and the configured delay.
TypeOK ==
  /\ command \in Commands /\ supervised \in BOOLEAN
  /\ power \in BOOLEAN /\ low \in BOOLEAN /\ input \in BOOLEAN
  /\ pc \in {"start", "read", "act", "command", "failed", "dead", "off"}
  /\ count \in -1 .. Max0(Limit)
  /\ charging \in BOOLEAN /\ i2c \in BOOLEAN /\ forgot \in BOOLEAN
  /\ lost \in 0 .. Horizon /\ down \in 0 .. Horizon
  /\ seenlow \in BOOLEAN /\ ran \in BOOLEAN

Init ==
  /\ command \in Commands
  /\ \E s \in Starters : supervised = (s = "systemd")
  /\ power \in BOOLEAN /\ low \in BOOLEAN /\ input = FALSE
  /\ pc = "start" /\ count = -1
  /\ charging = FALSE /\ i2c = FALSE /\ forgot = FALSE
  /\ lost = 0 /\ down = 0 /\ seenlow = FALSE /\ ran = FALSE

Capped(n) == IF n < Horizon THEN n + 1 ELSE n

-----------------------------------------------------------------------------
Hardware == <<power, low>>
Fixed == <<command, supervised>>

\* init_gpio, chg_charging and the revision test: each of them may end it.
Start ==
  /\ pc = "start"
  /\ \/ pc' = "read" /\ charging' = TRUE /\ i2c' = FALSE /\ forgot' = FALSE
     \/ pc' = "failed" /\ charging' \in BOOLEAN /\ UNCHANGED <<i2c, forgot>>
  /\ UNCHANGED <<Fixed, Hardware, input, count, lost, down, seenlow, ran>>

\* Restart=always: a new daemon, which knows nothing of the loss it starts in.
Restart ==
  /\ supervised /\ pc \in {"dead", "failed"}
  /\ pc' = "start" /\ count' = -1
  /\ lost' = 0 /\ seenlow' = FALSE
  /\ UNCHANGED <<Fixed, Hardware, input, charging, i2c, forgot, down, ran>>

\* systemd's limit of starts in a time, of which the unit says nothing.
GiveUp ==
  /\ supervised /\ pc \in {"dead", "failed"}
  /\ supervised' = FALSE
  /\ UNCHANGED <<command, Hardware, input, pc, count, charging, i2c, forgot,
                 lost, down, seenlow, ran>>

\* get_input; when the I2C bus fails it returns -1, and BAT_L reads as set.
ReadInput ==
  /\ pc = "read"
  /\ input' \in {low, FALSE}
  /\ pc' = "act"
  /\ UNCHANGED <<Fixed, Hardware, count, charging, i2c, forgot, lost, down, seenlow, ran>>

\* chg_charging(PF_L, stat) in the loop: its result is not looked at.
Charge(stat) ==
  \/ charging' = stat /\ i2c' = FALSE /\ forgot' = FALSE
  \/ i2c' = TRUE /\ UNCHANGED <<charging, forgot>>

\* Mutants: charging goes on in a loss; it does not start again after one.
StillCharge == UNCHANGED <<charging, i2c, forgot>>
NeverResume == UNCHANGED <<charging, i2c, forgot>>

StopCharge == Charge(FALSE)
ResumeCharge == Charge(TRUE)

\* Mutant: the countdown goes on when the power returns.
NoReset(c) == c

Reset(c) == -1

\* The count after get_power_input has returned p.
Counted(p) ==
  IF p THEN Reset(count) ELSE IF count = -1 THEN Max0(Limit) ELSE count

Up(c) == c = 0

\* Mutant: off by one.
LowBatteryStrict(c) == c > 1 /\ input

LowBattery(c) == c > 0 /\ input

\* Mutant: also -1, no loss, is counted down.
NextCountAlways(c) == c - 1

NextCount(c) == IF c > 0 THEN c - 1 ELSE c

\* A pass up to system() or sleep().  get_power_input returns p: with an open()
\* that fails no power, with a read() that fails (0 - '0' is not 0) power.
Act ==
  /\ pc = "act"
  /\ \E p \in BOOLEAN :
       LET c == Counted(p)
           call == Up(c) \/ LowBattery(NextCount(c))
       IN  /\ IF ~p /\ count = -1 THEN StopCharge
              ELSE IF p /\ count # -1 THEN ResumeCharge
              ELSE UNCHANGED <<charging, i2c, forgot>>
           /\ lost' = IF p THEN 0 ELSE Capped(lost)
           /\ seenlow' = (~p /\ (seenlow \/ input))
           /\ pc' = IF call THEN "command" ELSE "read"
           /\ count' = IF Up(c) THEN 0 ELSE NextCount(c)
           /\ down' = IF power \/ p THEN 0 ELSE Capped(down)
           /\ ran' = ((ran \/ call) /\ ~(power \/ p))
  /\ power' \in BOOLEAN /\ low' \in BOOLEAN
  /\ UNCHANGED <<Fixed, input>>

\* system(COMMAND) has forked: the machine stops, or SIGCHLD ends the daemon
\* (after poweroff too, when that fails).
CommandRuns ==
  /\ pc = "command"
  /\ \/ pc' = "dead"
     \/ command = "poweroff" /\ pc' = "off"
  /\ UNCHANGED <<Fixed, Hardware, input, count, charging, i2c, forgot,
                 lost, down, seenlow, ran>>

\* system() could not fork: no SIGCHLD.  Out of time the daemon forgets the
\* loss, with a low battery it tries again in the next pass.
CommandFails ==
  /\ pc = "command"
  /\ pc' = "read" /\ seenlow' = FALSE
  /\ IF count = 0 THEN count' = -1 /\ lost' = 0 /\ forgot' = TRUE
                  ELSE UNCHANGED <<count, lost, forgot>>
  /\ UNCHANGED <<Fixed, Hardware, input, charging, i2c, down, ran>>

\* Ten seconds without the daemon.
Pass ==
  /\ pc = "dead" /\ ~supervised
  /\ power' \in BOOLEAN /\ low' \in BOOLEAN
  /\ down' = IF power THEN 0 ELSE Capped(down)
  /\ ran' = (ran /\ ~power)
  /\ UNCHANGED <<Fixed, input, pc, count, charging, i2c, forgot, lost, seenlow>>

Stopped == (pc = "off" \/ (pc = "failed" /\ ~supervised)) /\ UNCHANGED vars

Next ==
  \/ Start \/ ReadInput \/ Act \/ CommandRuns \/ CommandFails
  \/ Restart \/ GiveUp \/ Pass \/ Stopped

\* The loop sleeps and wakes up again; COMMAND need not return.
Spec == Init /\ [][Next]_vars /\ WF_vars(ReadInput \/ Act \/ Pass)

-----------------------------------------------------------------------------
(* Properties *)

\* While a loss is being counted the battery is not charged, unless the I2C
\* write that should have stopped it failed.
NoChargeInLoss == pc \in {"read", "act", "command"} /\ count # -1 /\ ~i2c => ~charging

\* COMMAND is run for a low battery, or when this daemon has read Limit + 1
\* passes without power, since it was started or has run it last, and none
\* with power in between: restarts and an unforked COMMAND bring no other.
CommandIsDue ==
  [][ (pc = "act" /\ pc' = "command")
        => lost' = Max0(Limit) + 1 \/ (input /\ lost' > 0) ]_vars

\* No daemon reads more passes without power than that before it runs COMMAND,
\* also when an earlier one could not be forked; and a low battery that it has
\* read brings COMMAND within the same or, on the last pass, the next one.
CommandInTime ==
  pc = "read" => lost <= Max0(Limit) /\ (seenlow => count <= 0)

\* While power stays and the daemon lives, charging is on again and again,
\* also after losses, unreadable inputs and restarts, if the I2C writes work
\* and no loss was forgotten: the daemon has set count to -1 then without
\* COMMAND, and power that returns does not look like a return to it.
ChargingResumes ==
  <>[](power /\ pc \in {"read", "act"}) => []<>(charging \/ i2c \/ forgot)

-----------------------------------------------------------------------------
(* What the usage says: it holds under the systemd unit, not without it. *)

\* `-t : Execute command after specified time(in seconds)': a power loss that
\* lasts longer than that has COMMAND run.
LossRunsCommand == pc \in {"read", "dead"} /\ down > Max0(Limit) + 1 => ran

=============================================================================
