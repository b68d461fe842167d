------------------------- MODULE NetworkTimeProofs -------------------------
(***************************************************************************)
(* Proofs about NetworkTime, for every number of tries and every timeout.  *)
(***************************************************************************)
EXTENDS NetworkTime, TLAPS

Flags == up \in BOOLEAN /\ fd \in BOOLEAN /\ noise \in BOOLEAN /\ fromrtc \in BOOLEAN

Link ==
  /\ modem \in {"off", "powering", "on"}
  /\ pending \in Seq({"at", "ccid", "sind", "other"}) /\ Len(pending) <= Backlog
  /\ tty \subseteq Answers

Process ==
  /\ buf \subseteq Answers
  /\ pc \in {"none", "appear", "settle", "at", "ccid", "sind", "date", "systohc",
             "done", "fail"}
  /\ io \in {"open", "send", "select", "read", "got"}
  /\ timer \in 0 .. Timeout + Retry /\ j \in 0 .. Tries - 1
  /\ val \in Times \cup {"none"}

\* Once SIND has flushed the tty, no time in it grows old: time passes only
\* while there is none.
FreshBuffer ==
  pc = "sind" /\ io # "open" => "oldtime" \notin tty /\ "oldtime" \notin buf

\* So no old time is printed.
FreshVal == val # "oldtime"

\* The clocks: a system clock from a right RTC is right.
RightFromRtc ==
  /\ sys \in {"right", "wrong"} /\ rtc \in {"right", "wrong"}
  /\ fromrtc /\ rtc = "right" => sys = "right"

IInv ==
  Flags /\ Link /\ Process /\ FreshBuffer /\ FreshVal /\ RightFromRtc

LEMMA TypeParts == Flags /\ Link /\ Process /\ RightFromRtc => TypeOK
BY DEF Flags, Link, Process, RightFromRtc, TypeOK

-----------------------------------------------------------------------------
\* nitz.sh starts with clocks that agree, or with a clock not set from the RTC.
LEMMA InitIInv == Init => IInv
<1> SUFFICES ASSUME Init PROVE IInv
  OBVIOUS
<1>1. Flags
  BY DEF Init, Flags
<1>2. Link /\ Process
  BY NetworkTimeAssumption DEF Init, Link, Process, Answers
<1>3. FreshBuffer /\ FreshVal /\ RightFromRtc
  BY DEF Init, FreshBuffer, FreshVal, RightFromRtc
<1> QED
  BY <1>1, <1>2, <1>3 DEF IInv

\* The flags stay flags.
LEMMA FlagsStep == ASSUME IInv, [Next]_vars PROVE Flags'
<1> USE DEF IInv, Flags
<1>1. CASE Answer \/ Appears \/ Goes \/ Chksignal \/ ShutDown \/ Boot \/ Tick \/ PowerOn
  BY <1>1
  DEF Answer, Appears, Goes, Chksignal, ShutDown, Boot, Tick, PowerOn, Goto, Exit, Forget,
      atcmd, clocks, link
<1>2. CASE Nitz
  BY <1>2
  DEF Nitz, WaitDevice, Settled, InitModem, Send, Select, Read, GotAt, GotCcid, GotSind,
      SetDate, SysToHc, Goto, Exit, Forget, atcmd, clocks, link
<1>3. CASE UNCHANGED vars
  BY <1>3 DEF vars
<1> QED
  BY <1>1, <1>2, <1>3 DEF Next

\* What the modem answers is an answer without age.
LEMMA ReplyType == ASSUME NEW cmd PROVE Reply(cmd) \subseteq Answers \ {"oldtime"}
BY DEF Reply, Answers, Times

\* The modem takes a command only if it has room for it.
LEMMA LinkStep == ASSUME IInv, [Next]_vars PROVE Link'
<1> USE DEF IInv, Link
<1>1. CASE Answer
  <2>1. tty' \subseteq Answers /\ UNCHANGED modem
    BY <1>1, ReplyType DEF Answer
  <2>2. pending # <<>> /\ pending' = Tail(pending)
    BY <1>1 DEF Answer
  <2> DEFINE Cmds == {"at", "ccid", "sind", "other"}
  <2>3. pending' \in Seq(Cmds) /\ Len(pending') <= Backlog
    <3> HIDE DEF Cmds
    <3>1. pending \in Seq(Cmds) /\ Len(pending) <= Backlog
      BY DEF Cmds
    <3> QED
      BY <2>2, <3>1, NetworkTimeAssumption
  <2> QED
    BY <2>1, <2>3
<1>2. CASE Appears \/ Goes \/ ShutDown \/ Boot
  <2>1. <<>> \in Seq({"at", "ccid", "sind", "other"}) /\ Len(<<>>) <= Backlog
    BY NetworkTimeAssumption
  <2>2. CASE Goes \/ ShutDown
    BY <2>1, <2>2 DEF Goes, ShutDown
  <2>3. CASE Appears \/ Boot
    BY <2>3 DEF Appears, Boot, link
  <2> QED
    BY <1>2, <2>2, <2>3
<1>3. CASE Chksignal
  <2>1. CASE tty' = {} /\ UNCHANGED pending
    BY <1>3, <2>1 DEF Chksignal
  <2>2. CASE Len(pending) < Backlog /\ pending' = Append(pending, "other") /\ UNCHANGED tty
    BY <1>3, <2>2, NetworkTimeAssumption DEF Chksignal
  <2> QED
    BY <1>3, <2>1, <2>2 DEF Chksignal
<1>4. CASE PowerOn
  BY <1>4 DEF PowerOn
<1>5. CASE Tick
  BY <1>5 DEF Tick, Answers, Times
<1>6. CASE WaitDevice \/ Settled \/ GotAt \/ GotCcid \/ GotSind \/ SetDate \/ SysToHc
             \/ Select
  BY <1>6
  DEF WaitDevice, Settled, GotAt, GotCcid, GotSind, SetDate, SysToHc, Select, link
<1>7. CASE InitModem \/ Read
  BY <1>7 DEF InitModem, Read, Flush
<1>8. CASE Send
  <2>1. CASE fd /\ Len(pending) < Backlog
    <3>1. pc \in {"at", "ccid", "sind", "other"} /\ pending' = Append(pending, pc)
      BY <1>8, <2>1 DEF Send
    <3>2. Append(pending, pc) \in Seq({"at", "ccid", "sind", "other"})
      BY <3>1
    <3>3. Len(Append(pending, pc)) <= Backlog
      BY <2>1, <3>1, NetworkTimeAssumption
    <3> QED
      BY <1>8, <3>1, <3>2, <3>3 DEF Send
  <2>2. CASE ~(fd /\ Len(pending) < Backlog)
    BY <1>8, <2>2 DEF Send
  <2> QED
    BY <2>1, <2>2
<1>9. CASE UNCHANGED vars
  BY <1>9 DEF vars
<1> QED
  BY <1>1, <1>2, <1>3, <1>4, <1>5, <1>6, <1>7, <1>8, <1>9 DEF Next, Nitz

\* Of a buffer without an old time, none is taken.
LEMMA TimeOfType ==
  ASSUME NEW b, NEW t \in TimeOf(b)
  PROVE  t \in Times \cup {"none"} /\ ("oldtime" \notin b => t # "oldtime")
<1>1. CASE "error" \in b \/ b \cap Times = {}
  BY <1>1 DEF TimeOf
<1>2. CASE "error" \notin b /\ b \cap Times # {}
  <2>1. t \in {"none", IF "oldtime" \in b THEN "oldtime" ELSE "time"}
    BY <1>2 DEF TimeOf
  <2> QED
    BY <2>1 DEF Times
<1> QED
  BY <1>1, <1>2

\* The steps of others than atcmd and nitz.sh.
Outside == Answer \/ Appears \/ Goes \/ Chksignal \/ Boot

\* Where the script is, what it counts and what it has read.
LEMMA ProcessStep == ASSUME IInv, [Next]_vars PROVE Process'
<1> USE NetworkTimeAssumption DEF IInv, Process
<1>1. CASE Outside \/ UNCHANGED vars
  BY <1>1 DEF Outside, Answer, Appears, Goes, Chksignal, Boot, atcmd, vars
<1>2. CASE ShutDown \/ PowerOn
  BY <1>2 DEF ShutDown, PowerOn, Goto, Exit, Forget
<1>3. CASE Tick
  BY <1>3 DEF Tick, Limit
<1>4. CASE WaitDevice \/ Settled \/ Send \/ Select \/ GotAt
  BY <1>4 DEF WaitDevice, Settled, Send, Select, GotAt, Goto, atcmd
<1>5. CASE InitModem
  BY <1>5 DEF InitModem, Goto, Exit, Forget
<1>6. CASE Read
  BY <1>6 DEF Read, Goto, Link
<1>7. CASE GotCcid
  BY <1>7 DEF GotCcid, Goto, Exit, Forget
<1>8. CASE GotSind
  <2>1. PICK t \in TimeOf(buf) :
          IF t # "none"
          THEN IF j = Tries - 1 THEN Goto("fail", "open") /\ Exit /\ Forget
               ELSE Goto("date", "open") /\ Exit /\ val' = t /\ UNCHANGED noise
          ELSE /\ UNCHANGED <<val, noise>>
               /\ IF Exhausted(NextTry) THEN Goto("date", "open") /\ Exit
                  ELSE Goto("sind", "send") /\ j' = NextTry /\ UNCHANGED buf
    BY <1>8 DEF GotSind
  <2>2. t \in Times \cup {"none"} /\ UNCHANGED timer
    BY <1>8, TimeOfType DEF GotSind
  <2>3. CASE t # "none"
    BY <2>1, <2>2, <2>3 DEF Goto, Exit, Forget
  <2>4. CASE t = "none"
    BY <2>1, <2>2, <2>4 DEF Goto, Exit, Exhausted, NextTry
  <2> QED
    BY <2>3, <2>4
<1>9. CASE SetDate \/ SysToHc
  BY <1>9 DEF SetDate, SysToHc, atcmd, Forget
<1> QED
  BY <1>1, <1>2, <1>3, <1>4, <1>5, <1>6, <1>7, <1>8, <1>9 DEF Next, Nitz, Outside

\* A time grows old only where the script is not in a SIND that has flushed.
LEMMA FreshBufferStep == ASSUME IInv, [Next]_vars PROVE FreshBuffer'
<1> USE DEF IInv, FreshBuffer
<1>1. CASE Answer
  BY <1>1, ReplyType DEF Answer, atcmd
<1>2. CASE Appears \/ Goes \/ Chksignal \/ Boot \/ UNCHANGED vars
  BY <1>2 DEF Appears, Goes, Chksignal, Boot, atcmd, link, vars
<1>3. CASE ShutDown \/ PowerOn \/ WaitDevice \/ Settled \/ GotAt \/ GotCcid \/ SetDate
             \/ SysToHc
  BY <1>3
  DEF ShutDown, PowerOn, WaitDevice, Settled, GotAt, GotCcid, SetDate, SysToHc, Goto
<1>4. CASE Tick
  BY <1>4 DEF Tick, Idle
<1>5. CASE InitModem
  BY <1>5 DEF InitModem, Flush, Goto, Exit
<1>6. CASE Send \/ Select \/ Read
  BY <1>6 DEF Send, Select, Read, Goto, link
<1>7. CASE GotSind
  BY <1>7 DEF GotSind, Goto, link, Exit
<1> QED
  BY <1>1, <1>2, <1>3, <1>4, <1>5, <1>6, <1>7 DEF Next, Nitz

\* Only SIND prints a time, from a fresh buffer.
LEMMA FreshValStep == ASSUME IInv, [Next]_vars PROVE FreshVal'
<1> USE DEF IInv, FreshVal
<1>1. CASE GotSind
  <2>1. "oldtime" \notin buf
    BY <1>1 DEF GotSind, FreshBuffer
  <2> QED
    BY <1>1, <2>1, TimeOfType DEF GotSind, Forget
<1>2. CASE Nitz /\ ~GotSind
  BY <1>2
  DEF Nitz, WaitDevice, Settled, InitModem, Send, Select, Read, GotAt, GotCcid, SetDate,
      SysToHc, Forget, atcmd
<1>3. CASE ~Nitz
  BY <1>3
  DEF Next, Answer, Appears, Goes, Chksignal, PowerOn, ShutDown, Boot, Tick, Forget, atcmd,
      vars
<1> QED
  BY <1>1, <1>2, <1>3

\* date and hwclock leave a right clock right, if it came from the RTC or not.
LEMMA RightFromRtcStep == ASSUME IInv, [Next]_vars PROVE RightFromRtc'
<1> USE DEF IInv, RightFromRtc
<1>1. CASE SetDate
  BY <1>1 DEF SetDate, FreshVal, Process, Times
<1>2. CASE SysToHc
  BY <1>2 DEF SysToHc
<1>3. CASE Boot
  BY <1>3 DEF Boot
<1>4. CASE Nitz /\ ~SetDate /\ ~SysToHc
  BY <1>4
  DEF Nitz, WaitDevice, Settled, InitModem, Send, Select, Read, GotAt, GotCcid, GotSind,
      Goto, clocks
<1>5. CASE ~Nitz /\ ~Boot
  BY <1>5
  DEF Next, Answer, Appears, Goes, Chksignal, PowerOn, ShutDown, Tick, Goto, clocks, vars
<1> QED
  BY <1>1, <1>2, <1>3, <1>4, <1>5

LEMMA Invariant == Spec => []IInv
<1>1. IInv /\ [Next]_vars => IInv'
  BY FlagsStep, LinkStep, ProcessStep, FreshBufferStep, FreshValStep, RightFromRtcStep
  DEF IInv
<1> QED
  BY <1>1, InitIInv, PTL DEF Spec

-----------------------------------------------------------------------------
\* The variables of nitz.sh, atcmd and the clocks keep their types: the loop of
\* SIND never counts beyond its tries.
THEOREM TypeCorrect == Spec => []TypeOK
<1>1. IInv => TypeOK
  BY TypeParts DEF IInv
<1> QED
  BY <1>1, Invariant, PTL

\* nitz.sh sets no right clock wrong, whatever the modem answers when, for
\* every number of tries: tcflush of init_modem is what it rests on.
THEOREM ClockIsKept == Spec => ClockKept
<1>1. IInv /\ [Next]_vars => [sys = "right" /\ sys' = "wrong" => Boot]_vars
  <2> SUFFICES ASSUME IInv, Next, sys = "right", sys' = "wrong", ~Boot PROVE FALSE
    BY DEF vars
  <2>1. ~SetDate
    BY DEF SetDate, IInv, FreshVal, Process, Times
  <2> QED
    BY <2>1
    DEF Next, Nitz, Answer, Appears, Goes, Chksignal, PowerOn, ShutDown, Tick, WaitDevice,
        Settled, InitModem, Send, Select, Read, GotAt, GotCcid, GotSind, SysToHc, Goto,
        clocks
<1> QED
  BY <1>1, Invariant, PTL DEF Spec, ClockKept

\* The RTC loses the right time only if the system clock was not set from it.
THEOREM RtcIsKept == Spec => RtcKept
<1>1. IInv /\ [Next]_vars => [rtc = "right" /\ rtc' = "wrong" => ~fromrtc]_vars
  <2> SUFFICES ASSUME IInv, Next, rtc = "right", rtc' = "wrong", fromrtc PROVE FALSE
    BY DEF vars
  <2>1. ~SysToHc
    BY DEF SysToHc, IInv, RightFromRtc
  <2> QED
    BY <2>1
    DEF Next, Nitz, Answer, Appears, Goes, Chksignal, PowerOn, ShutDown, Boot, Tick,
        WaitDevice, Settled, InitModem, Send, Select, Read, GotAt, GotCcid, GotSind,
        SetDate, Goto, clocks
<1> QED
  BY <1>1, Invariant, PTL DEF Spec, RtcKept

-----------------------------------------------------------------------------
(* How long nitz.sh can take. *)

Ended == pc \in {"none", "done", "fail"}

InAtcmd == pc \in {"at", "ccid", "sind"}

\* Steps to come in this command of atcmd.
Place ==
  IF io = "open" THEN 5 ELSE IF io = "send" THEN 4 ELSE IF io = "select" THEN 3
  ELSE IF io = "read" THEN 2 ELSE 1

\* Steps that nitz.sh has still to take, if each SIND needs all of its steps
\* and all tries fail.
NitzLeft ==
  IF Ended THEN 0
  ELSE IF pc = "systohc" THEN 1
  ELSE IF pc = "date" THEN 2
  ELSE IF pc = "sind"
       THEN IF io = "open" THEN 3 + 4 * Tries ELSE 2 + 4 * (Tries - 1 - j) + Place
  ELSE IF pc = "ccid" THEN 3 + 4 * Tries + Place
  ELSE IF pc = "at" THEN 7 + 4 * Tries + Place
  ELSE IF pc = "settle" THEN 13 + 4 * Tries
  ELSE 14 + 4 * Tries

\* nitz.sh has at most 4 * Tries + 14 steps to go: 814 with the 200 tries ...
StepsAreFew == NitzLeft \in 0 .. 14 + 4 * Tries

\* ... every step of it or of its atcmds brings it closer to its end, and
\* neither the modem nor chksignal.sh nor the time sets it back.
StepsAreCounted ==
  [][ /\ Nitz => NitzLeft' < NitzLeft
      /\ ~Ended /\ ~Nitz => NitzLeft' <= NitzLeft ]_vars

\* atcmd is at work only where nitz.sh has called it.
InItsCall == ~InAtcmd => io = "open"

LEMMA InItsCallInvariant == Spec => []InItsCall
<1>1. Init => InItsCall
  BY DEF Init, InItsCall
<1>2. InItsCall /\ [Next]_vars => InItsCall'
  <2> SUFFICES ASSUME InItsCall, [Next]_vars PROVE InItsCall'
    OBVIOUS
  <2>1. CASE Nitz
    BY <2>1
    DEF InItsCall, InAtcmd, Nitz, WaitDevice, Settled, InitModem, Send, Select, Read, GotAt,
        GotCcid, GotSind, SetDate, SysToHc, Goto
  <2>2. CASE ~Nitz
    BY <2>2
    DEF InItsCall, InAtcmd, Next, Answer, Appears, Goes, Chksignal, PowerOn, ShutDown, Boot,
        Tick, Goto, vars
  <2> QED
    BY <2>1, <2>2
<1> QED
  BY <1>1, <1>2, PTL DEF Spec

LEMMA NitzLeftType ==
  ASSUME Process
  PROVE  /\ NitzLeft \in 0 .. 14 + 4 * Tries /\ NitzLeft \in Nat
         /\ ~Ended => NitzLeft > 0
<1>1. Tries \in Nat /\ j \in 0 .. Tries - 1
  BY NetworkTimeAssumption DEF Process
<1>2. Place \in 1 .. 5
  BY DEF Place
<1> QED
  BY <1>1, <1>2 DEF NitzLeft

\* One case per command of nitz.sh, one per step of atcmd.
LEMMA NitzCounts ==
  ASSUME Process, InItsCall, Nitz
  PROVE  NitzLeft' < NitzLeft
<1>1. /\ Tries \in Nat /\ Tries > 0 /\ j \in 0 .. Tries - 1 /\ ~Ended
      /\ NitzLeft \in Nat /\ NitzLeft > 0
  <2>1. ~Ended
    BY DEF InItsCall, InAtcmd, Ended, Nitz, WaitDevice, Settled, InitModem, Send, Select, Read,
           GotAt, GotCcid, GotSind, SetDate, SysToHc
  <2> QED
    BY <2>1, NitzLeftType, NetworkTimeAssumption DEF Process
<1>2. CASE Ended'
  BY <1>1, <1>2 DEF NitzLeft
<1>3. CASE ~Ended'
  <2>1. CASE WaitDevice \/ Settled
    BY <1>1, <1>3, <2>1 DEF WaitDevice, Settled, Goto, NitzLeft, Ended, Place
  <2>2. CASE InitModem
    BY <1>1, <1>3, <2>2 DEF InitModem, Goto, Exit, NitzLeft, Ended, Place
  <2>3. CASE Send
    BY <1>1, <1>3, <2>3 DEF Send, Goto, NitzLeft, Ended, Place
  <2>4. CASE Select \/ Read
    <3>1. pc \in {"at", "ccid", "sind"} /\ pc' = pc /\ j' = j
      BY <2>4 DEF Select, Read, Goto, InItsCall, InAtcmd
    <3>2. PICK n \in 1 .. 3, k \in 1 .. 3 :
            k < n /\ Place = n /\ Place' = k /\ io # "open" /\ io' # "open"
      BY <2>4 DEF Select, Read, Goto, Place
    <3>3. CASE pc = "sind"
      <4>1. /\ NitzLeft = 2 + 4 * (Tries - 1 - j) + n
            /\ NitzLeft' = 2 + 4 * (Tries - 1 - j) + k
        BY <3>1, <3>2, <3>3 DEF NitzLeft, Ended
      <4> QED
        BY <1>1, <3>2, <4>1
    <3>4. CASE pc = "ccid"
      <4>1. NitzLeft = 3 + 4 * Tries + n /\ NitzLeft' = 3 + 4 * Tries + k
        BY <3>1, <3>2, <3>4 DEF NitzLeft, Ended
      <4> QED
        BY <1>1, <3>2, <4>1
    <3>5. CASE pc = "at"
      <4>1. NitzLeft = 7 + 4 * Tries + n /\ NitzLeft' = 7 + 4 * Tries + k
        BY <3>1, <3>2, <3>5 DEF NitzLeft, Ended
      <4> QED
        BY <1>1, <3>2, <4>1
    <3> QED
      BY <3>1, <3>3, <3>4, <3>5
  <2>5. CASE GotAt \/ GotCcid
    BY <1>1, <1>3, <2>5 DEF GotAt, GotCcid, Goto, NitzLeft, Ended, Place
  <2>6. CASE GotSind
    <3>1. \/ pc' = "date"
          \/ pc' = "sind" /\ io' = "send" /\ j' = j + 1
      BY <1>3, <2>6 DEF GotSind, Goto, NextTry, Ended
    <3> QED
      BY <1>1, <2>6, <3>1 DEF GotSind, NitzLeft, Ended, Place
  <2>7. CASE SetDate \/ SysToHc
    BY <1>1, <2>7 DEF SetDate, SysToHc, NitzLeft, Ended
  <2> QED
    BY <2>1, <2>2, <2>3, <2>4, <2>5, <2>6, <2>7 DEF Nitz
<1> QED
  BY <1>2, <1>3

\* What NitzEnds needs besides the fairness of atcmd and of the time, for every
\* number of tries and every timeout.
THEOREM NitzIsShort == Spec => []StepsAreFew /\ StepsAreCounted
<1>1. IInv => StepsAreFew
  BY NitzLeftType DEF IInv, StepsAreFew
<1>2. IInv /\ InItsCall /\ [Next]_vars
        => [ /\ Nitz => NitzLeft' < NitzLeft
             /\ ~Ended /\ ~Nitz => NitzLeft' <= NitzLeft ]_vars
  <2> SUFFICES ASSUME IInv, InItsCall, Next
               PROVE  /\ Nitz => NitzLeft' < NitzLeft
                      /\ ~Ended /\ ~Nitz => NitzLeft' <= NitzLeft
    BY DEF vars
  <2>1. Process /\ NitzLeft \in Nat
    BY NitzLeftType DEF IInv
  <2>2. ASSUME Nitz PROVE NitzLeft' < NitzLeft
    BY <2>1, <2>2, NitzCounts
  <2>3. ASSUME ~Ended, ~Nitz PROVE NitzLeft' <= NitzLeft
    <3>1. CASE ShutDown
      BY <2>1, <3>1 DEF ShutDown, NitzLeft, Ended
    <3>2. CASE ~ShutDown
      <4>1. UNCHANGED <<pc, io, j>>
        BY <2>3, <3>2
        DEF Next, Answer, Appears, Goes, Chksignal, PowerOn, Boot, Tick, Ended, atcmd
      <4> QED
        BY <2>1, <4>1 DEF NitzLeft, Ended, Place
    <3> QED
      BY <3>1, <3>2
  <2> QED
    BY <2>2, <2>3
<1> QED
  BY <1>1, <1>2, Invariant, InItsCallInvariant, PTL DEF Spec, StepsAreCounted

==============================================================================
