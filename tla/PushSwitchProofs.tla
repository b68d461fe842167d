-------------------------- MODULE PushSwitchProofs --------------------------
(***************************************************************************)
(* Proofs about PushSwitch, for every setting of the times that main()     *)
(* accepts (-r 0, one tick, included; but for negative ones), and any      *)
(* number of unread events.                                                *)
(***************************************************************************)
EXTENDS PushSwitch, TLAPS

Event == {"down", "up", "syn"}

TypesOfNumbers ==
  /\ queue \in Seq(Event) /\ Len(queue) <= Backlog
  /\ flag \in {0, 1} /\ count \in 0 .. Halt
  /\ starts \in 0 .. Restarts
  /\ held \in 0 .. Halt /\ longest \in 0 .. Halt

TypesOfNames ==
  /\ pc \in {"up", "gone", "reboot", "halt"} /\ lit \subseteq Leds
  /\ runled \in {"none", "forked", "up", "term"}
  /\ pidfile \in {"none", "runled", "stale"}
  /\ due \in {"none", "reboot", "halt"}

TypesOfFlags == pressed \in BOOLEAN /\ prompt \in BOOLEAN

Edge(down) == IF down THEN "down" ELSE "up"

\* The queue holds edges in turn, each with its SYN, and ends with the SYN of
\* the edge that the switch has made last.
EdgesInTurn ==
  /\ \A i \in 1 .. Len(queue) - 1 : queue[i] = "syn" <=> queue[i + 1] # "syn"
  /\ \A i \in 1 .. Len(queue) - 2 :
       /\ queue[i] = "down" => queue[i + 2] = "up"
       /\ queue[i] = "up" => queue[i + 2] = "down"
  /\ Len(queue) >= 1 => queue[Len(queue)] = "syn"
  /\ Len(queue) >= 2 => queue[Len(queue) - 1] = Edge(pressed)

\* What pshd knows is the state before the first edge that it has not read.
FlagBeforeQueue ==
  /\ Len(queue) <= 1 => (pressed <=> flag = 1)
  /\ Len(queue) >= 1 /\ queue[1] # "syn" => queue[1] = Edge(flag = 0)
  /\ Len(queue) >= 2 /\ queue[1] = "syn" => queue[2] = Edge(flag = 0)

\* Two ticks are counted for the two events of the edge itself.  Every further
\* one is a tick in which nothing was left to read and the switch was held.
CountIsHeld ==
  /\ flag = 1 <=> count > 0
  /\ held <= longest
  /\ count = 1 => Len(queue) >= 1 /\ queue[1] = "syn" /\ (Len(queue) = 1 => held >= 1)
  /\ count >= 2 => \/ Len(queue) = 0 /\ held >= count
                   \/ /\ Len(queue) >= 1 /\ queue[1] = "up"
                      /\ count > 2 => longest >= count

IInv ==
  /\ TypesOfNumbers /\ TypesOfNames /\ TypesOfFlags
  /\ EdgesInTurn /\ FlagBeforeQueue /\ CountIsHeld /\ StopNeedsHold

-----------------------------------------------------------------------------
LEMMA CappedType ==
  ASSUME NEW n \in 0 .. Halt
  PROVE  /\ Capped(n) \in 0 .. Halt /\ Capped(n) >= n
         /\ n < Halt => Capped(n) = n + 1
         /\ n = Halt => Capped(n) = n
  <1>1. Halt \in Nat
    BY TimesAssumption
  <1>2. CASE n < Halt
    BY <1>1, <1>2 DEF Capped
  <1>3. CASE n >= Halt
    BY <1>1, <1>3 DEF Capped
  <1> QED BY <1>1, <1>2, <1>3

\* What the queue looks like after an edge.
LEMMA TwoMore ==
  ASSUME NEW q \in Seq(Event), NEW e \in Event
  PROVE  /\ q \o <<e, "syn">> \in Seq(Event)
         /\ Len(q \o <<e, "syn">>) = Len(q) + 2
         /\ \A i \in 1 .. Len(q) : (q \o <<e, "syn">>)[i] = q[i]
         /\ (q \o <<e, "syn">>)[Len(q) + 1] = e
         /\ (q \o <<e, "syn">>)[Len(q) + 2] = "syn"
  <1>1. <<e, "syn">> \in Seq(Event) /\ Len(<<e, "syn">>) = 2
    BY DEF Event
  <1>2. <<e, "syn">>[1] = e /\ <<e, "syn">>[2] = "syn"
    OBVIOUS
  <1> QED BY <1>1, <1>2

LEMMA OneLess ==
  ASSUME NEW q \in Seq(Event), q # <<>>
  PROVE  /\ Tail(q) \in Seq(Event) /\ Len(Tail(q)) = Len(q) - 1 /\ Len(q) >= 1
         /\ \A i \in 1 .. Len(q) - 1 : Tail(q)[i] = q[i + 1]
         /\ Head(q) = q[1] /\ Head(q) \in Event
OBVIOUS

-----------------------------------------------------------------------------
LEMMA InitInvariant == Init => IInv
  <1> SUFFICES ASSUME Init PROVE IInv
    OBVIOUS
  <1> USE TimesAssumption, BoundsAssumption DEF Init
  <1>1. TypesOfNumbers
    BY DEF TypesOfNumbers, Event
  <1>2. TypesOfNames /\ TypesOfFlags
    BY DEF TypesOfNames, TypesOfFlags, Leds
  <1>3. EdgesInTurn /\ FlagBeforeQueue /\ CountIsHeld
    BY DEF EdgesInTurn, FlagBeforeQueue, CountIsHeld
  <1>4. StopNeedsHold
    BY DEF StopNeedsHold
  <1> QED BY <1>1, <1>2, <1>3, <1>4 DEF IInv

\* An edge keeps everything, whichever it is.
LEMMA PressInvariant == IInv /\ Press => IInv'
  <1> SUFFICES ASSUME IInv, Press PROVE IInv'
    OBVIOUS
  <1> USE DEF Press, LedVars
  <1>1. queue \in Seq(Event) /\ pressed = FALSE /\ pressed' = TRUE
    BY DEF IInv, TypesOfNumbers
  <1>2. /\ queue' \in Seq(Event) /\ Len(queue') = Len(queue) + 2
        /\ \A i \in 1 .. Len(queue) : queue'[i] = queue[i]
        /\ queue'[Len(queue) + 1] = "down" /\ queue'[Len(queue) + 2] = "syn"
    BY <1>1, TwoMore DEF Event
  <1>3. TypesOfNumbers'
    BY <1>2, TimesAssumption DEF IInv, TypesOfNumbers
  <1>4. TypesOfNames' /\ TypesOfFlags'
    BY DEF IInv, TypesOfNames, TypesOfFlags
  <1>5. EdgesInTurn'
    BY <1>1, <1>2 DEF IInv, EdgesInTurn, Edge
  <1>6. FlagBeforeQueue'
    BY <1>1, <1>2 DEF IInv, FlagBeforeQueue, EdgesInTurn, Edge, TypesOfNumbers
  <1>7. CountIsHeld'
    BY <1>1, <1>2 DEF IInv, CountIsHeld, FlagBeforeQueue, TypesOfNumbers
  <1>8. StopNeedsHold'
    BY DEF IInv, StopNeedsHold
  <1> QED BY <1>3, <1>4, <1>5, <1>6, <1>7, <1>8 DEF IInv

LEMMA ReleaseInvariant == IInv /\ Release => IInv'
  <1> SUFFICES ASSUME IInv, Release PROVE IInv'
    OBVIOUS
  <1> USE DEF Release, LedVars
  <1>1. queue \in Seq(Event) /\ pressed = TRUE /\ pressed' = FALSE
    BY DEF IInv, TypesOfNumbers, TypesOfFlags
  <1>2. /\ queue' \in Seq(Event) /\ Len(queue') = Len(queue) + 2
        /\ \A i \in 1 .. Len(queue) : queue'[i] = queue[i]
        /\ queue'[Len(queue) + 1] = "up" /\ queue'[Len(queue) + 2] = "syn"
    BY <1>1, TwoMore DEF Event
  <1>3. TypesOfNumbers'
    BY <1>2 DEF IInv, TypesOfNumbers
  <1>4. TypesOfNames' /\ TypesOfFlags'
    BY DEF IInv, TypesOfNames, TypesOfFlags
  <1>5. EdgesInTurn'
    BY <1>1, <1>2 DEF IInv, EdgesInTurn, Edge
  <1>6. FlagBeforeQueue'
    BY <1>1, <1>2 DEF IInv, FlagBeforeQueue, EdgesInTurn, Edge, TypesOfNumbers
  <1>7. CountIsHeld'
    BY <1>1, <1>2 DEF IInv, CountIsHeld, FlagBeforeQueue, TypesOfNumbers
  <1>8. StopNeedsHold'
    BY DEF IInv, StopNeedsHold
  <1> QED BY <1>3, <1>4, <1>5, <1>6, <1>7, <1>8 DEF IInv

-----------------------------------------------------------------------------
\* Reading an event, or none, keeps the order of the queue and what is known.
LEMMA ReadKeepsOrder ==
  ASSUME IInv, ReadEvent, UNCHANGED pressed
  PROVE  /\ queue' \in Seq(Event) /\ Len(queue') <= Len(queue)
         /\ EdgesInTurn' /\ FlagBeforeQueue' /\ flag' \in {0, 1}
  <1>1. queue \in Seq(Event) /\ flag \in {0, 1} /\ EdgesInTurn /\ FlagBeforeQueue
    BY DEF IInv, TypesOfNumbers
  <1>2. CASE queue = <<>>
    BY <1>1, <1>2 DEF ReadEvent, NextFlag, EdgesInTurn, FlagBeforeQueue
  <1>3. CASE queue # <<>>
    <2>1. /\ queue' \in Seq(Event) /\ Len(queue') = Len(queue) - 1 /\ Len(queue) >= 1
          /\ \A i \in 1 .. Len(queue) - 1 : queue'[i] = queue[i + 1]
          /\ queue[1] \in Event
      BY <1>1, <1>3, OneLess DEF ReadEvent
    <2>2. flag' = IF queue[1] = "syn" THEN flag ELSE IF queue[1] = "down" THEN 1 ELSE 0
      BY <1>1, <1>3, OneLess DEF ReadEvent, NextFlag
    <2>3. EdgesInTurn'
      <3>1. \A i \in 1 .. Len(queue') - 1 : queue'[i] = "syn" <=> queue'[i + 1] # "syn"
        BY <1>1, <2>1 DEF EdgesInTurn
      <3>4. \A i \in 1 .. Len(queue') - 2 :
              /\ queue'[i] = "down" => queue'[i + 2] = "up"
              /\ queue'[i] = "up" => queue'[i + 2] = "down"
        <4> SUFFICES ASSUME NEW i \in 1 .. Len(queue') - 2
                     PROVE  /\ queue'[i] = "down" => queue'[i + 2] = "up"
                            /\ queue'[i] = "up" => queue'[i + 2] = "down"
          OBVIOUS
        <4>1. i + 1 \in 1 .. Len(queue) - 2
          BY <1>1, <2>1
        <4>2. queue'[i] = queue[i + 1] /\ queue'[i + 2] = queue[(i + 1) + 2]
          BY <1>1, <2>1
        <4> QED BY <1>1, <4>1, <4>2 DEF EdgesInTurn
      <3>2. Len(queue') >= 1 => queue'[Len(queue')] = "syn"
        BY <1>1, <2>1 DEF EdgesInTurn
      <3>3. Len(queue') >= 2 => queue'[Len(queue') - 1] = queue[Len(queue) - 1]
        BY <1>1, <2>1
      <3>5. Len(queue') >= 2 => queue'[Len(queue') - 1] = Edge(pressed)
        BY <1>1, <2>1, <3>3 DEF EdgesInTurn
      <3> QED BY <3>1, <3>2, <3>4, <3>5 DEF EdgesInTurn, Edge
    <2>4. FlagBeforeQueue'
      <3>1. CASE queue[1] = "syn"
        BY <3>1, <1>1, <2>1, <2>2 DEF FlagBeforeQueue, EdgesInTurn, Edge, Event
      <3>2. CASE queue[1] # "syn"
        BY <3>2, <1>1, <2>1, <2>2 DEF FlagBeforeQueue, EdgesInTurn, Edge, Event
      <3> QED BY <3>1, <3>2
    <2> QED BY <1>1, <2>1, <2>2, <2>3, <2>4
  <1> QED BY <1>2, <1>3

LEMMA TickInvariant == IInv /\ Tick => IInv'
  <1> SUFFICES ASSUME IInv, Tick PROVE IInv'
    OBVIOUS
  <1>1. /\ queue' \in Seq(Event) /\ Len(queue') <= Len(queue)
        /\ EdgesInTurn' /\ FlagBeforeQueue' /\ flag' \in {0, 1}
    BY ReadKeepsOrder DEF Tick
  <1>2. /\ queue \in Seq(Event) /\ flag \in {0, 1} /\ count \in 0 .. Halt
        /\ held \in 0 .. Halt /\ longest \in 0 .. Halt /\ Len(queue) <= Backlog
        /\ EdgesInTurn /\ FlagBeforeQueue /\ CountIsHeld
    BY DEF IInv, TypesOfNumbers
  <1>10. Len(queue) \in Nat
    BY <1>2
  <1>3. /\ held' \in 0 .. Halt /\ longest' \in 0 .. Halt
        /\ longest' >= longest /\ held' <= longest'
        /\ pressed => held' = Capped(held)
    <2>1. held <= longest
      BY <1>2 DEF CountIsHeld
    <2>2. CASE pressed
      BY <2>1, <2>2, <1>2, CappedType DEF Tick
    <2>3. CASE ~pressed
      BY <2>1, <2>3, <1>2 DEF Tick
    <2> QED BY <2>2, <2>3
  <1>4. /\ NextFlag = 0 => count' = 0
        /\ NextFlag = 1 => count' = Capped(count) /\ pc' = pc
        /\ NextFlag \in {0, 1} /\ flag' = NextFlag /\ starts' = starts
    BY <1>1 DEF Tick, Released, Held, ReadEvent, CountAfterRelease, LedVars
  <1>5. TypesOfNumbers'
    <2>1. count' \in 0 .. Halt
      BY <1>2, <1>4, CappedType, TimesAssumption
    <2>2. Len(queue') <= Backlog
      BY <1>1, <1>2, BoundsAssumption
    <2> QED BY <1>1, <1>3, <1>4, <2>1, <2>2 DEF IInv, TypesOfNumbers
  <1>6. TypesOfNames'
    BY DEF IInv, TypesOfNames, Tick, Released, Held, KillRunled, Flashed, LedVars, Leds
  <1>7. TypesOfFlags'
    BY DEF IInv, TypesOfFlags, Tick
  <1>8. CountIsHeld'
    <2>1. CASE NextFlag = 0
      BY <2>1, <1>3, <1>4 DEF CountIsHeld
    <2>2. CASE NextFlag = 1 /\ count = 0
      <3>1. queue # <<>> /\ queue[1] = "down" /\ Len(queue) >= 1
        BY <2>2, <1>2, OneLess DEF NextFlag, CountIsHeld
      <3>2. Len(queue) >= 2 /\ queue[2] = "syn"
        BY <3>1, <1>2 DEF EdgesInTurn
      <3>3. queue'[1] = queue[2] /\ (Len(queue') = 1 => Len(queue) = 2)
        BY <3>1, <3>2, <1>2, OneLess DEF Tick, ReadEvent
      <3>6. Len(queue') >= 1
        BY <3>1, <3>2, <1>2, OneLess DEF Tick, ReadEvent
      <3>4. count' = 1
        BY <2>2, <1>4, TimesAssumption DEF Capped
      <3>5. Len(queue') = 1 => held' >= 1
        <4> SUFFICES ASSUME Len(queue') = 1 PROVE held' >= 1
          OBVIOUS
        <4>1. Len(queue) = 2
          BY <3>3
        <4>2. pressed
          BY <4>1, <3>1 DEF IInv, EdgesInTurn, Edge
        <4> QED BY <4>2, <1>2, <1>3, CappedType, TimesAssumption
      <3> QED BY <3>2, <3>3, <3>4, <3>5, <3>6, <1>3, <1>4, <2>2 DEF CountIsHeld
    <2>3. CASE NextFlag = 1 /\ count = 1
      <3>1. queue # <<>> /\ queue[1] = "syn" /\ Len(queue) >= 1 /\ flag = 1
        BY <2>3, <1>2 DEF CountIsHeld
      <3>2. count' = 2
        BY <2>3, <1>4, TimesAssumption DEF Capped
      <3>3. CASE Len(queue) = 1
        <4>1. Len(queue') = 0
          BY <3>1, <3>3, <1>2, OneLess DEF Tick, ReadEvent
        <4>2. pressed /\ held >= 1
          BY <3>1, <3>3, <2>3, <1>2 DEF FlagBeforeQueue, CountIsHeld
        <4>3. held' >= 2
          BY <4>2, <1>2, <1>3, CappedType, TimesAssumption
        <4> QED BY <4>1, <4>3, <3>2, <1>3, <1>4, <2>3 DEF CountIsHeld
      <3>4. CASE Len(queue) >= 2
        <4>1. Len(queue') >= 1 /\ queue'[1] = queue[2]
          BY <3>1, <3>4, <1>2, OneLess DEF Tick, ReadEvent
        <4>2. queue[2] = "up"
          BY <3>1, <3>4, <1>2 DEF FlagBeforeQueue, Edge
        <4> QED BY <4>1, <4>2, <3>2, <1>3, <1>4, <2>3 DEF CountIsHeld
      <3> QED BY <3>1, <3>3, <3>4, <1>10
    <2>4. CASE NextFlag = 1 /\ count >= 2
      <3>1. Len(queue) = 0 /\ held >= count /\ flag = 1
        <4>1. ~(Len(queue) >= 1 /\ queue[1] = "up")
          BY <2>4, <1>2, OneLess DEF NextFlag
        <4> QED BY <4>1, <2>4, <1>2 DEF CountIsHeld
      <3>2. queue = <<>> /\ queue' = <<>>
        BY <3>1, <1>2 DEF Tick, ReadEvent
      <3>3. pressed
        BY <3>1, <1>2 DEF FlagBeforeQueue
      <3>4. held' >= count' /\ count' >= 2
        BY <3>1, <3>3, <2>4, <1>2, <1>3, <1>4 DEF Capped
      <3> QED BY <3>2, <3>4, <1>3, <1>4, <2>4, <1>5 DEF CountIsHeld, TypesOfNumbers
    <2> QED BY <1>2, <1>4, <2>1, <2>2, <2>3, <2>4
  <1>9. StopNeedsHold'
    <2>1. CASE NextFlag = 0 /\ count > 0 /\ Released
      <3>1. count >= 3 => longest >= count
        <4> SUFFICES ASSUME count >= 3 PROVE longest >= count
          OBVIOUS
        <4>1. Len(queue) # 0
          BY <2>1, <1>2 DEF NextFlag, CountIsHeld
        <4> QED BY <4>1, <1>2 DEF CountIsHeld
      <3> QED BY <3>1, <2>1, <1>2, <1>3, TimesAssumption DEF StopNeedsHold, Released
    <2>2. CASE pc' = pc
      BY <2>2, <1>2, <1>3, TimesAssumption DEF IInv, StopNeedsHold, Tick
    <2> QED BY <2>1, <2>2 DEF Tick, Held
  <1> QED BY <1>1, <1>5, <1>6, <1>7, <1>8, <1>9 DEF IInv

-----------------------------------------------------------------------------
\* runled touches nothing of the switch and of pshd's count.
LEMMA RunledInvariant ==
  ASSUME IInv, PshdUntouched, starts' \in 0 .. Restarts,
         lit' \subseteq Leds, runled' \in {"none", "forked", "up", "term"},
         pidfile' \in {"none", "runled", "stale"}
  PROVE  IInv'
  <1> USE DEF PshdUntouched, PressVars
  <1>1. TypesOfNumbers'
    BY DEF IInv, TypesOfNumbers
  <1>2. TypesOfNames' /\ TypesOfFlags'
    BY DEF IInv, TypesOfNames, TypesOfFlags
  <1>3. EdgesInTurn' /\ FlagBeforeQueue'
    BY DEF IInv, EdgesInTurn, FlagBeforeQueue
  <1>4. CountIsHeld' /\ StopNeedsHold'
    BY DEF IInv, CountIsHeld, StopNeedsHold
  <1> QED BY <1>1, <1>2, <1>3, <1>4 DEF IInv

LEMMA StepInvariant == IInv /\ [Next]_vars => IInv'
  <1> SUFFICES ASSUME IInv, [Next]_vars PROVE IInv'
    OBVIOUS
  <1>1. CASE Press
    BY <1>1, PressInvariant
  <1>2. CASE Release
    BY <1>2, ReleaseInvariant
  <1>3. CASE Tick
    BY <1>3, TickInvariant
  <1>4. CASE PshdEnds
    <2> USE <1>4 DEF PshdEnds, LedVars, PressVars
    <2>1. TypesOfNumbers'
      BY DEF IInv, TypesOfNumbers
    <2>2. TypesOfNames' /\ TypesOfFlags'
      BY DEF IInv, TypesOfNames, TypesOfFlags
    <2>3. EdgesInTurn' /\ FlagBeforeQueue'
      BY DEF IInv, EdgesInTurn, FlagBeforeQueue
    <2>4. CountIsHeld' /\ StopNeedsHold'
      BY DEF IInv, CountIsHeld, StopNeedsHold
    <2> QED BY <2>1, <2>2, <2>3, <2>4 DEF IInv
  <1>5. CASE RunledWrite \/ RunledDies \/ RunledFails
    <2>1. /\ lit \subseteq Leds /\ starts \in 0 .. Restarts
          /\ runled \in {"none", "forked", "up", "term"}
          /\ pidfile \in {"none", "runled", "stale"}
      BY DEF IInv, TypesOfNames, TypesOfNumbers
    <2>2. lit' \subseteq Leds
      BY <1>5, <2>1 DEF RunledWrite, RunledDies, RunledFails
    <2>3. /\ runled' \in {"none", "forked", "up", "term"}
          /\ pidfile' \in {"none", "runled", "stale"}
          /\ starts' = starts /\ PshdUntouched
      BY <1>5, <2>1 DEF RunledWrite, RunledDies, RunledFails, RunledExits
    <2> QED BY <2>1, <2>2, <2>3, RunledInvariant
  <1>6. CASE RunledStart
    BY <1>6, RunledInvariant, BoundsAssumption
    DEF IInv, TypesOfNames, TypesOfNumbers, RunledStart
  <1>7. CASE Parent
    BY <1>7, RunledInvariant
    DEF IInv, TypesOfNames, TypesOfNumbers, Parent, RunledTruncates, RunledPid
  <1>8. CASE UNCHANGED vars
    <2> USE <1>8 DEF vars
    <2>1. PshdUntouched
      BY DEF PshdUntouched, PressVars
    <2>2. /\ starts' \in 0 .. Restarts /\ lit' \subseteq Leds
          /\ runled' \in {"none", "forked", "up", "term"}
          /\ pidfile' \in {"none", "runled", "stale"}
      BY DEF IInv, TypesOfNames, TypesOfNumbers
    <2> QED BY <2>1, <2>2, RunledInvariant
  <1> QED BY <1>1, <1>2, <1>3, <1>4, <1>5, <1>6, <1>7, <1>8 DEF Next, Over

LEMMA Invariance == Spec => []IInv
BY InitInvariant, StepInvariant, PTL DEF Spec

\* The queue, the count and everything else keep their types: the count stays
\* within the times of main(), the queue within its bound.
THEOREM TypeCorrect == Spec => []TypeOK
  <1>1. IInv => TypeOK
    BY DEF IInv, TypesOfNumbers, TypesOfNames, TypesOfFlags, TypeOK, Event
  <1> QED BY <1>1, Invariance, PTL

\* watch_pushsw restarts or stops the machine only after a press that lasted so
\* long, for every -r and -h that main() accepts and that is not negative, and
\* any number of clicks that pshd has not read yet; only with -r 0 (one tick) a
\* click, which makes two, is enough for a restart.
THEOREM StopsNeedHolds == Spec => []StopNeedsHold
  <1>1. IInv => StopNeedsHold
    BY DEF IInv
  <1> QED BY <1>1, Invariance, PTL
=============================================================================
