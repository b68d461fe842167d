-------------------------- MODULE PowerDaemonProofs --------------------------
(***************************************************************************)
(* Proofs about PowerDaemon for every LIMIT and every COMMAND.             *)
(***************************************************************************)
EXTENDS PowerDaemon, TLAPS

Running == pc \in {"read", "act"}

\* Without a loss nothing is counted or remembered, nor by a new daemon.
NothingBeforeLoss ==
  /\ pc = "start" => count = -1
  /\ pc = "start" \/ (Running /\ count = -1) => lost = 0 /\ ~seenlow

\* system() is called with the countdown at its end, or above for a low battery.
CommandCounts ==
  pc = "command"
    => /\ count # -1
       /\ count > 0 => lost > 0 /\ lost = Max0(Limit) - count

\* In a loss the countdown and the passes of the loss make up Limit; a low
\* battery is remembered only in the last pass, since COMMAND has run otherwise.
CountsTheLoss ==
  Running /\ count # -1
    => /\ lost > 0 /\ lost = Max0(Limit) - count
       /\ seenlow => count = 0

IInv ==
  /\ TypeOK
  /\ NothingBeforeLoss
  /\ CommandCounts
  /\ CountsTheLoss
  /\ NoChargeInLoss

\* The daemon starts in the inductive invariant.
LEMMA InitIInv == Init => IInv
<1> SUFFICES ASSUME Init PROVE IInv
  OBVIOUS
<1>1. 0 \in 0 .. Horizon /\ -1 \in -1 .. Max0(Limit)
  BY LimitAssumption, HorizonAssumption DEF Max0
<1>2. TypeOK
  BY <1>1 DEF Init, TypeOK
<1> QED
  BY <1>2
  DEF Init, IInv, NothingBeforeLoss, CommandCounts, CountsTheLoss, NoChargeInLoss,
      Running

\* What a pass that has read its inputs does, without the I2C bus.
ActDoes(p, c) ==
  /\ c = Counted(p)
  /\ lost' = IF p THEN 0 ELSE Capped(lost)
  /\ seenlow' = (~p /\ (seenlow \/ input))
  /\ \/ /\ c = 0 \/ (NextCount(c) > 0 /\ input)
        /\ pc' = "command"
        /\ count' = IF c = 0 THEN 0 ELSE NextCount(c)
     \/ /\ c # 0 /\ ~(NextCount(c) > 0 /\ input)
        /\ pc' = "read" /\ count' = NextCount(c)

LEMMA ActFacts ==
  ASSUME IInv, Act
  PROVE  \E p \in BOOLEAN, c \in -1 .. Max0(Limit) : ActDoes(p, c)
  BY LimitAssumption
  DEF IInv, TypeOK, Act, ActDoes, Counted, Reset, Up, LowBattery, Max0

\* The variables that say nothing of the countdown keep their types.
LEMMA ActType ==
  ASSUME IInv, Act
  PROVE  /\ UNCHANGED <<Fixed, input>>
         /\ power' \in BOOLEAN /\ low' \in BOOLEAN
         /\ charging' \in BOOLEAN /\ i2c' \in BOOLEAN /\ forgot' \in BOOLEAN
         /\ down' \in 0 .. Horizon /\ ran' \in BOOLEAN
<1>1. UNCHANGED <<Fixed, input>> /\ power' \in BOOLEAN /\ low' \in BOOLEAN
  BY DEF Act
<1>2. charging' \in BOOLEAN /\ i2c' \in BOOLEAN /\ forgot' \in BOOLEAN
  <2>1. StopCharge \/ ResumeCharge \/ UNCHANGED <<charging, i2c, forgot>>
    BY DEF Act
  <2> QED
    BY <2>1 DEF StopCharge, ResumeCharge, Charge, IInv, TypeOK
<1>3. down' \in 0 .. Horizon
  <2>1. down' \in {0, Capped(down)}
    BY DEF Act
  <2> QED
    BY <2>1, HorizonAssumption DEF Capped, IInv, TypeOK
<1>4. ran' \in BOOLEAN
  BY DEF Act
<1> QED
  BY <1>1, <1>2, <1>3, <1>4

\* Charging stops with the first pass of a loss, and stays off.
LEMMA ActCharge ==
  ASSUME IInv, Act
  PROVE  NoChargeInLoss'
  BY LimitAssumption
  DEF IInv, TypeOK, Act, NoChargeInLoss, StopCharge, ResumeCharge, Charge,
      Counted, Reset, Up, LowBattery, NextCount, Max0

\* Every step of the daemon, of systemd and of the hardware keeps the invariant.
LEMMA StepIInv == IInv /\ [Next]_vars => IInv'
<1> SUFFICES ASSUME IInv, [Next]_vars PROVE IInv'
  OBVIOUS
<1> USE DEF IInv, NothingBeforeLoss, CommandCounts, CountsTheLoss, NoChargeInLoss,
            Running
<1>1. CASE Start
  BY <1>1 DEF Start, Fixed, Hardware, TypeOK
<1>2. CASE ReadInput
  BY <1>2 DEF ReadInput, Fixed, Hardware, TypeOK
<1>3. CASE Act
  <2>1. PICK p \in BOOLEAN, c \in -1 .. Max0(Limit) : ActDoes(p, c)
    BY <1>3, ActFacts
  <2>2. pc = "act"
    BY <1>3 DEF Act
  <2>3. TypeOK'
    <3>1. lost' \in 0 .. Horizon
      BY <2>1, HorizonAssumption DEF ActDoes, Capped, TypeOK
    <3>2. count' \in -1 .. Max0(Limit)
      BY <2>1, LimitAssumption DEF ActDoes, NextCount, Max0
    <3>3. seenlow' \in BOOLEAN /\ pc' \in {"command", "read"}
      BY <2>1 DEF ActDoes
    <3> QED
      BY <1>3, <3>1, <3>2, <3>3, ActType DEF TypeOK, Fixed
  <2>4. NothingBeforeLoss' /\ CommandCounts' /\ CountsTheLoss'
    <3>1. CASE p
      <4>1. lost' = 0 /\ ~seenlow'
        BY <2>1, <3>1 DEF ActDoes
      <4>2. c = -1 /\ count' = -1 /\ pc' = "read"
        BY <2>1, <3>1 DEF ActDoes, Counted, Reset, NextCount
      <4> QED
        BY <4>1, <4>2
    <3>2. CASE ~p
      <4>1. CASE count = -1
        BY <2>1, <2>2, <3>2, <4>1, LimitAssumption, HorizonAssumption
        DEF ActDoes, TypeOK, Counted, NextCount, Capped, Max0
      <4>2. CASE count # -1
        BY <2>1, <2>2, <3>2, <4>2, LimitAssumption, HorizonAssumption
        DEF ActDoes, TypeOK, Counted, NextCount, Capped, Max0
      <4> QED
        BY <4>1, <4>2
    <3> QED
      BY <3>1, <3>2
  <2> QED
    BY <1>3, <2>3, <2>4, ActCharge
<1>4. CASE CommandRuns
  BY <1>4 DEF CommandRuns, Fixed, Hardware, TypeOK
<1>5. CASE CommandFails
  <2>1. /\ pc = "command" /\ pc' = "read" /\ seenlow' = FALSE
        /\ UNCHANGED <<Fixed, Hardware, input, charging, i2c, down, ran>>
    BY <1>5 DEF CommandFails
  <2>2. CASE count = 0
    <3>1. count' = -1 /\ lost' = 0 /\ forgot' = TRUE
      BY <1>5, <2>2 DEF CommandFails
    <3>2. -1 \in -1 .. Max0(Limit) /\ 0 \in 0 .. Horizon
      BY LimitAssumption, HorizonAssumption DEF Max0
    <3> QED
      BY <2>1, <3>1, <3>2 DEF Fixed, Hardware, TypeOK
  <2>3. CASE count # 0
    <3>1. UNCHANGED <<count, lost, forgot>>
      BY <1>5, <2>3 DEF CommandFails
    <3>2. count > 0
      BY <2>1, <2>3 DEF TypeOK
    <3> QED
      BY <2>1, <3>1, <3>2 DEF Fixed, Hardware, TypeOK
  <2> QED
    BY <2>2, <2>3
<1>6. CASE Restart
  <2>1. -1 \in -1 .. Max0(Limit) /\ 0 \in 0 .. Horizon
    BY LimitAssumption, HorizonAssumption DEF Max0
  <2> QED
    BY <1>6, <2>1 DEF Restart, Fixed, Hardware, TypeOK
<1>7. CASE GiveUp
  BY <1>7 DEF GiveUp, Hardware, TypeOK
<1>8. CASE Pass
  <2>1. down' \in 0 .. Horizon /\ ran' \in BOOLEAN
    BY <1>8, HorizonAssumption DEF Pass, Capped, TypeOK
  <2> QED
    BY <1>8, <2>1 DEF Pass, Fixed, TypeOK
<1>9. CASE UNCHANGED vars
  BY <1>9 DEF vars, TypeOK
<1> QED
  BY <1>1, <1>2, <1>3, <1>4, <1>5, <1>6, <1>7, <1>8, <1>9 DEF Next, Stopped

\* The inductive invariant relates the daemon's counter to the time since mains power was
\* lost, in every reachable state; the theorems below are read from it.
THEOREM Invariance == Spec => []IInv
  BY InitIInv, StepIInv, PTL DEF Spec

\* The countdown never leaves -1 .. Limit, whatever LIMIT is given with -t.
THEOREM TypeCorrect == Spec => []TypeOK
<1>1. IInv => TypeOK
  BY DEF IInv
<1> QED
  BY <1>1, Invariance, PTL

\* In no loss the battery is charged after the pass that noticed the loss.
THEOREM ChargingStops == Spec => []NoChargeInLoss
<1>1. IInv => NoChargeInLoss
  BY DEF IInv
<1> QED
  BY <1>1, Invariance, PTL

\* The daemon does not let LIMIT go by without power, nor a low battery beyond
\* the next pass, without calling system(), however often that cannot fork.
THEOREM InTime == Spec => []CommandInTime
<1>1. IInv => CommandInTime
  BY LimitAssumption
  DEF IInv, TypeOK, CommandInTime, CountsTheLoss, NothingBeforeLoss, Running, Max0
<1> QED
  BY <1>1, Invariance, PTL

\* COMMAND never runs early: only when this daemon has seen LIMIT go by, every
\* pass of it without power, or for a low battery.
THEOREM OnlyWhenDue == Spec => CommandIsDue
<1> DEFINE Due == (pc = "act" /\ pc' = "command")
                    => lost' = Max0(Limit) + 1 \/ (input /\ lost' > 0)
<1>1. IInv /\ [Next]_vars => [Due]_vars
  <2> SUFFICES ASSUME IInv, Next, pc = "act", pc' = "command"
               PROVE  lost' = Max0(Limit) + 1 \/ (input /\ lost' > 0)
    OBVIOUS
  <2>1. Act
    BY DEF Next, Start, ReadInput, CommandRuns, CommandFails, Restart, GiveUp, Pass,
           Stopped
  <2>2. PICK p \in BOOLEAN, c \in -1 .. Max0(Limit) : ActDoes(p, c)
    BY <2>1, ActFacts
  <2> QED
    BY <2>2, LimitAssumption, HorizonAssumption
    DEF ActDoes, IInv, TypeOK, NothingBeforeLoss, CountsTheLoss, Running, Counted,
        Reset, NextCount, Capped, Max0
<1> QED
  BY <1>1, Invariance, PTL DEF Spec, CommandIsDue

-----------------------------------------------------------------------------
(* What the usage says holds under the systemd unit. *)

\* A daemon that ends or starts anew, or whose COMMAND could not be forked, has
\* called system() in the loss that goes on, or there is none; and a daemon in
\* its loop has counted the passes of a loss in which it has not.
WatchesTheLoss ==
  /\ pc \in {"start", "command"} \/ (supervised /\ pc \in {"dead", "failed"})
       => ran \/ down = 0
  /\ Running => ran \/ down <= lost

LEMMA WatchesStep == IInv /\ WatchesTheLoss /\ [Next]_vars => WatchesTheLoss'
<1> SUFFICES ASSUME IInv, WatchesTheLoss, [Next]_vars PROVE WatchesTheLoss'
  OBVIOUS
<1> USE DEF WatchesTheLoss, Running
<1>1. CASE Act
  <2>1. (ran \/ down <= lost) /\ pc' \in {"command", "read"}
    BY <1>1 DEF Act
  <2>2. down \in Nat /\ lost \in Nat /\ Horizon \in Nat
    BY HorizonAssumption DEF IInv, TypeOK
  <2>3. PICK p \in BOOLEAN :
          /\ lost' = IF p THEN 0 ELSE Capped(lost)
          /\ down' = IF power \/ p THEN 0 ELSE Capped(down)
          /\ ran \/ pc' = "command" => ran' = ~(power \/ p)
    BY <1>1 DEF Act
  <2>4. CASE power \/ p
    <3>1. lost' \in Nat
      BY <2>2, <2>3 DEF Capped
    <3> QED
      BY <2>1, <2>3, <2>4, <3>1
  <2>5. CASE ~(power \/ p)
    <3>1. CASE ran \/ pc' = "command"
      BY <2>1, <2>3, <2>5, <3>1
    <3>2. CASE ~ran /\ pc' = "read"
      <4>1. down' = Capped(down) /\ lost' = Capped(lost) /\ down <= lost
        BY <2>1, <2>3, <2>5, <3>2
      <4>2. Capped(down) <= Capped(lost)
        BY <2>2, <4>1 DEF Capped, IInv, TypeOK
      <4> QED
        BY <3>2, <4>1, <4>2
    <3> QED
      BY <2>1, <3>1, <3>2
  <2> QED
    BY <2>4, <2>5
<1>2. CASE Start
  BY <1>2, HorizonAssumption DEF Start, Fixed, IInv, TypeOK
<1>3. CASE CommandFails
  BY <1>3, HorizonAssumption DEF CommandFails, Fixed, IInv, TypeOK
<1>4. CASE ReadInput \/ CommandRuns \/ Restart
  BY <1>4, HorizonAssumption DEF ReadInput, CommandRuns, Restart, Fixed, IInv, TypeOK
<1>5. CASE GiveUp \/ Pass \/ UNCHANGED vars
  BY <1>5 DEF GiveUp, Pass, Fixed, vars
<1> QED
  BY <1>1, <1>2, <1>3, <1>4, <1>5 DEF Next, Stopped

\* `-t : Execute command after specified time' is true, for every LIMIT and
\* every COMMAND, wherever the daemon looks again, and as long as systemd
\* starts it again: through the death of the daemon with COMMAND, restarts in
\* the middle of a loss, and COMMANDs that are not forked.  system() has been
\* called in every loss older than LIMIT that no failing read() hid.
THEOREM LossRunsIfWatched == Spec => [](pc = "read" \/ supervised => LossRunsCommand)
<1>1. Init => WatchesTheLoss
  BY DEF Init, WatchesTheLoss, Running
<1>2. IInv /\ WatchesTheLoss => (pc = "read" \/ supervised => LossRunsCommand)
  <2> SUFFICES ASSUME IInv, WatchesTheLoss, pc = "read" \/ supervised,
                      pc \in {"read", "dead"}, down > Max0(Limit) + 1
               PROVE  ran
    BY DEF LossRunsCommand
  <2>1. Max0(Limit) \in Nat
    BY LimitAssumption DEF Max0
  <2>2. CASE pc = "read"
    <3>1. lost <= Max0(Limit)
      BY <2>2, LimitAssumption
      DEF IInv, TypeOK, CountsTheLoss, NothingBeforeLoss, Running, Max0
    <3> QED
      BY <2>1, <2>2, <3>1 DEF WatchesTheLoss, Running, IInv, TypeOK
  <2>3. CASE pc = "dead" /\ supervised
    BY <2>1, <2>3 DEF WatchesTheLoss, IInv, TypeOK
  <2> QED
    BY <2>2, <2>3
<1> QED
  BY <1>1, <1>2, Invariance, WatchesStep, PTL DEF Spec

==============================================================================
