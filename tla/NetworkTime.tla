---------------------------- MODULE NetworkTime ----------------------------
(***************************************************************************)
(* The clock of an IoT model with an EHS6 modem: nitz.sh powers the modem  *)
(* on, looks for a SIM card, asks for the network's time until there is    *)
(* one, and sets the system clock and then the RTC (set_time_ehs6).  It    *)
(* does so with atcmd, whose messages of errors go where its answers go.   *)
(* The answers of the modem come late, or in the wait of another command,  *)
(* and chksignal.sh uses the modem at the same time.                       *)
(***************************************************************************)
EXTENDS Naturals, Sequences

CONSTANTS
  Tries,    \* of SIND: 200
  Timeout,  \* TIMEOUT, in ticks
  Retry,    \* RETRY of wait_device, in ticks
  Backlog   \* bound: commands that the modem has not answered

ASSUME NetworkTimeAssumption ==
  /\ Tries \in Nat \ {0} /\ Timeout \in Nat \ {0} /\ Retry \in Nat
  /\ Backlog \in Nat \ {0}

VARIABLES
  up,        \* the machine is up
  modem,     \* its power; "on": there is the device
  pending,   \* commands that the modem has not answered
  tty,       \* answers that nobody has read
  pc,        \* nitz.sh, and the command of atcmd
  io,        \* where the command is
  fd,        \* the device that it has opened is still there
  timer,     \* ticks in wait_device or in select
  j,         \* tries of SIND
  noise,     \* this atcmd has printed an error
  buf,       \* what it read last
  val,       \* the time that it printed
  sys, rtc,  \* the clocks
  fromrtc    \* history: the system clock was set from the RTC at the boot

vars == <<up, modem, pending, tty, pc, io, fd, timer, j, noise, buf, val, sys, rtc, fromrtc>>

clocks == <<sys, rtc, fromrtc>>
link == <<modem, pending, tty>>
atcmd == <<timer, j, noise, buf, val>>

\* "time" becomes "oldtime" when it lies in the tty for a tick.
Times == {"time", "oldtime"}
Answers == Times \cup {"notime", "ccid", "ok", "error"}

\* Types.
TypeOK ==
  /\ up \in BOOLEAN /\ fd \in BOOLEAN /\ noise \in BOOLEAN /\ fromrtc \in BOOLEAN
  /\ modem \in {"off", "powering", "on"}
  /\ pending \in Seq({"at", "ccid", "sind", "other"}) /\ Len(pending) <= Backlog
  /\ tty \subseteq Answers /\ buf \subseteq Answers
  /\ pc \in {"none", "appear", "settle", "at", "ccid", "sind", "date", "systohc",
             "done", "fail"}
  /\ io \in {"open", "send", "select", "read", "got"}
  /\ timer \in 0 .. Timeout + Retry /\ j \in 0 .. Tries - 1
  /\ val \in Times \cup {"none"}
  /\ sys \in {"right", "wrong"} /\ rtc \in {"right", "wrong"}

Init ==
  /\ up = TRUE /\ modem = "off" /\ pending = <<>> /\ tty = {}
  /\ pc = "none" /\ io = "open" /\ fd = FALSE
  /\ timer = 0 /\ j = 0 /\ noise = FALSE /\ buf = {} /\ val = "none"
  /\ rtc \in {"right", "wrong"}
  /\ \/ fromrtc = TRUE /\ sys = rtc
     \/ fromrtc = FALSE /\ sys = "wrong"

-----------------------------------------------------------------------------
(* The modem and its tty *)

\* It answers in order, whenever it likes.
Reply(cmd) ==
  CASE cmd = "at" -> {"ok"}
    [] cmd = "ccid" -> {"ccid", "error"}
    [] cmd = "sind" -> {"time", "notime"}
    [] OTHER -> {"ok", "ccid", "error"}

Answer ==
  /\ modem = "on" /\ pending # <<>>
  /\ \E a \in Reply(Head(pending)) : tty' = tty \cup {a}
  /\ pending' = Tail(pending)
  /\ UNCHANGED <<up, modem, pc, io, fd, atcmd, clocks>>

Appears ==
  /\ modem = "powering" /\ modem' = "on"
  /\ UNCHANGED <<up, pending, tty, pc, io, fd, atcmd, clocks>>

\* POFF of chksignal.sh, or a fall of the modem: the device goes.
Goes ==
  /\ modem # "off" /\ modem' = "off"
  /\ pending' = <<>> /\ tty' = {} /\ fd' = FALSE
  /\ UNCHANGED <<up, pc, io, atcmd, clocks>>

\* The atcmds of chksignal.sh send, and flush or read what is there.
Chksignal ==
  /\ up /\ modem = "on"
  /\ \/ tty # {} /\ tty' = {} /\ UNCHANGED pending
     \/ /\ Len(pending) < Backlog /\ pending' = Append(pending, "other")
        /\ UNCHANGED tty
  /\ UNCHANGED <<up, modem, pc, io, fd, atcmd, clocks>>

-----------------------------------------------------------------------------
(* atcmd *)

Goto(p, i) == pc' = p /\ io' = i /\ UNCHANGED <<up, clocks>>

\* What atcmd knows ends with it; what it has printed does not.
Exit == j' = 0 /\ buf' = {}

Forget == val' = "none" /\ noise' = FALSE

\* PON, after which only the device counts.
PowerOn ==
  /\ up /\ pc \in {"none", "done", "fail"}
  /\ Goto(IF modem = "on" THEN "at" ELSE "appear", "open")
  /\ modem' = IF modem = "off" THEN "powering" ELSE modem
  /\ timer' = 0
  /\ UNCHANGED <<pending, tty, fd, j, noise, buf, val>>

\* wait_device: a sleep follows when the device is there.
WaitDevice ==
  /\ pc = "appear"
  /\ \/ modem = "on" /\ Goto("settle", "open")
     \/ modem # "on" /\ timer >= Retry /\ Goto("fail", "open")
  /\ timer' = 0
  /\ UNCHANGED <<link, fd, j, noise, buf, val>>

Settled ==
  /\ pc = "settle" /\ Goto(IF modem = "on" THEN "at" ELSE "fail", "open")
  /\ UNCHANGED <<link, fd, atcmd>>

\* Mutant: what is left of earlier commands stays.
NoFlush == tty

\* tcflush of init_modem.
Flush == {}

InitModem ==
  /\ pc \in {"at", "sind"} /\ io = "open"
  /\ IF modem = "on" THEN Goto(pc, "send") /\ tty' = Flush /\ fd' = TRUE
                     ELSE Goto("fail", "open") /\ UNCHANGED <<tty, fd>>
  /\ Exit /\ Forget
  /\ UNCHANGED <<modem, pending, timer>>

\* write of send_atcmd; what the modem has no room for is lost.
Send ==
  /\ pc \in {"at", "ccid", "sind"} /\ io = "send"
  /\ IF fd THEN Goto(pc, "select") /\ UNCHANGED noise
           ELSE Goto(pc, "got") /\ noise' = TRUE
  /\ pending' = IF fd /\ Len(pending) < Backlog THEN Append(pending, pc) ELSE pending
  /\ timer' = 0
  /\ UNCHANGED <<modem, tty, fd, j, buf, val>>

\* An answer, an end of the device, or the timeout.
Select ==
  /\ io = "select"
  /\ \/ (tty # {} \/ ~fd) /\ Goto(pc, "read") /\ UNCHANGED noise
     \/ tty = {} /\ fd /\ timer >= Timeout /\ Goto(pc, "got") /\ noise' = TRUE
  /\ timer' = 0
  /\ UNCHANGED <<link, fd, j, buf, val>>

\* All that has come; an error if another has read it, either without a device.
Read ==
  /\ io = "read" /\ Goto(pc, "got")
  /\ \/ fd /\ tty # {} /\ buf' = tty /\ tty' = {} /\ UNCHANGED noise
     \/ (~fd \/ tty = {}) /\ noise' = TRUE /\ UNCHANGED <<buf, tty>>
     \/ ~fd /\ buf' = {} /\ UNCHANGED <<noise, tty>>
  /\ UNCHANGED <<modem, pending, fd, timer, j, val>>

\* The answer to AT is not looked at.
GotAt ==
  /\ pc = "at" /\ io = "got" /\ Goto("ccid", "send")
  /\ UNCHANGED <<link, fd, atcmd>>

\* get_ccid takes any answer with a colon; an unread buffer holds anything.
GotCcid ==
  /\ pc = "ccid" /\ io = "got"
  /\ \/ "error" \notin buf /\ (buf = {} \/ buf \cap (Times \cup {"notime", "ccid"}) # {})
        /\ Goto("sind", "open")
     \/ ("error" \in buf \/ buf \subseteq {"ok"}) /\ Goto("fail", "open")
  /\ Exit /\ Forget
  /\ UNCHANGED <<link, fd, timer>>

\* Mutant: without the look for "nitz".
TimeOfAny(b) ==
  IF "error" \in b \/ b \subseteq {"ok", "ccid"} THEN {"none"}
  ELSE IF "oldtime" \in b \/ "time" \notin b THEN {"oldtime"} ELSE {"time"}

\* get_time: the first time in the buffer, unless an answer without one is
\* before it.  A buffer that was never read has none.
TimeOf(b) ==
  IF "error" \in b \/ b \cap Times = {} THEN {"none"}
  ELSE {IF "oldtime" \in b THEN "oldtime" ELSE "time"}
         \cup (IF "notime" \in b THEN {"none"} ELSE {})

\* Mutant: no try is counted.
TryForEver == j

\* A try that fails.
NextTry == j + 1

\* Mutant: one try more than there are.
OneMore(n) == n = Tries + 1

Exhausted(n) == n = Tries

\* The loop of SIND.  Its end is told by j = Tries - 1: a success at the last
\* try is a failure, and Tries failures are a success.
GotSind ==
  /\ pc = "sind" /\ io = "got"
  /\ \E t \in TimeOf(buf) :
       IF t # "none"
       THEN IF j = Tries - 1 THEN Goto("fail", "open") /\ Exit /\ Forget
            ELSE Goto("date", "open") /\ Exit /\ val' = t /\ UNCHANGED noise
       ELSE /\ UNCHANGED <<val, noise>>
            /\ IF Exhausted(NextTry) THEN Goto("date", "open") /\ Exit
               ELSE Goto("sind", "send") /\ j' = NextTry /\ UNCHANGED buf
  /\ UNCHANGED <<link, fd, timer>>

-----------------------------------------------------------------------------
(* nitz.sh *)

\* date refuses what is not a time alone; its result is not looked at.
SetDate ==
  /\ pc = "date" /\ pc' = "systohc"
  /\ sys' = CASE val = "none" \/ noise -> sys
              [] val = "time" -> "right" [] OTHER -> "wrong"
  /\ UNCHANGED <<up, link, io, fd, atcmd, rtc, fromrtc>>

SysToHc ==
  /\ pc = "systohc" /\ pc' = "done"
  /\ rtc' \in {sys, rtc} /\ Forget
  /\ UNCHANGED <<up, link, io, fd, timer, j, buf, sys, fromrtc>>

Nitz ==
  \/ WaitDevice \/ Settled \/ InitModem \/ Send \/ Select \/ Read
  \/ GotAt \/ GotCcid \/ GotSind \/ SetDate \/ SysToHc

-----------------------------------------------------------------------------
\* disable-modem.sh powers the modem off, if it can.
ShutDown ==
  /\ up /\ up' = FALSE
  /\ modem' \in {"off", modem} /\ pending' = <<>> /\ tty' = {}
  /\ pc' = "none" /\ io' = "open" /\ fd' = FALSE
  /\ Exit /\ Forget
  /\ UNCHANGED <<timer, clocks>>

\* The kernel sets its clock from the RTC, if it can read it.
Boot ==
  /\ ~up /\ up' = TRUE
  /\ \/ fromrtc' = TRUE /\ sys' = rtc
     \/ fromrtc' = FALSE /\ sys' = "wrong"
  /\ UNCHANGED <<link, pc, io, fd, atcmd, rtc>>

\* Between two atcmds and in the sleeps time passes, else only in a wait.
Idle ==
  \/ pc \in {"none", "done", "fail", "appear", "settle"}
  \/ pc \in {"at", "sind"} /\ io = "open"
  \/ io = "select" /\ fd /\ tty = {}

Limit == CASE pc = "appear" -> Retry [] io = "select" -> Timeout [] OTHER -> 0

Tick ==
  /\ up /\ Idle
  /\ timer' = IF timer < Limit THEN timer + 1 ELSE timer
  /\ tty' = IF "time" \in tty THEN (tty \ {"time"}) \cup {"oldtime"} ELSE tty
  /\ UNCHANGED <<up, modem, pending, pc, io, fd, j, noise, buf, val, clocks>>

Next ==
  \/ Answer \/ Appears \/ Goes \/ Chksignal
  \/ PowerOn \/ Nitz \/ ShutDown \/ Boot \/ Tick

\* atcmd goes on, select sees an answer that another reads first, and time passes.
Spec == Init /\ [][Next]_vars /\ SF_vars(Nitz) /\ SF_vars(Tick)

-----------------------------------------------------------------------------
\* nitz.sh never spoils a clock that is right: no time that the modem sent
\* earlier, to whatever command, and no other answer becomes the time.
ClockKept == [][sys = "right" /\ sys' = "wrong" => Boot]_vars

\* The RTC loses the right time only if the clock was not set from it at the
\* boot: nitz.sh without a network writes back what it found.
RtcKept == [][rtc = "right" /\ rtc' = "wrong" => ~fromrtc]_vars

\* nitz.sh ends, whatever the modem does and however chksignal.sh interferes.
NitzEnds == pc \notin {"none", "done", "fail"} ~> pc \in {"none", "done", "fail"}
=============================================================================
