---------------------------- MODULE UbootEnvProofs ----------------------------
(***************************************************************************)
(* Proofs about UbootEnv for every number of calls, with flags and with    *)
(* counters.                                                               *)
(***************************************************************************)
EXTENDS UbootEnv, TLAPS

\* How far a call is with the two areas: what is written is what it prepared,
\* and what it writes at the moment is torn.
Progress ==
  /\ pc = "write" /\ k = 2 => area[1] = mem[1]
  /\ pc = "writing" => ~area[k].valid
  /\ pc = "writing" /\ k = 2 => area[1] = mem[1]
  /\ result = "ok" => pc = "idle" /\ area = mem

\* A call that started from two whole copies prepares two whole copies, and
\* leaves the one alone that it does not write.
WholeMeanwhile ==
  Healthy =>
    /\ pc # "idle" => \A a \in Area : Whole(mem[a])
    /\ pc = "write" => \A a \in Area : Whole(area[a])
    /\ pc = "writing" => Whole(area[Other(k)])
    /\ \A a \in Area : area[a].valid => Whole(area[a])
    /\ \E a \in Area : Whole(area[a])

\* On the AX3, p_now is active and p_prev obsolete, in this call and after it.
Prepared ==
  ~Serial /\ (pc # "idle" \/ result = "ok")
    => /\ mem[target].valid /\ mem[target].flag = 1
       /\ mem[Other(target)].flag = 0

\* When area 2 was the active one, it is rewritten with what it holds, after
\* area 1 has got the new environment.
FromArea2 ==
  Healthy /\ Before = 2 /\ ~Serial =>
    /\ pc # "idle" => mem[2].env = source.env
    /\ pc = "write" => area[2].env = source.env
    /\ pc = "writing" /\ k = 1 => area[2].env = source.env
    /\ pc = "write" /\ k = 1 => Selected(area) = 2

\* U-Boot finds the environment of before (in mem[2], now obsolete) or the new
\* one.
AtomicFromArea2 ==
  Healthy /\ Before = 2 /\ ~Serial
    => area[Selected(area)].env \in {source.env, mem[1].env}

IInv ==
  /\ TypeOK
  /\ Progress
  /\ WholeMeanwhile
  /\ Prepared
  /\ FromArea2
  /\ AtomicFromArea2

-----------------------------------------------------------------------------
(* What U-Boot selects, now and before the call. *)

LEMMA SameHistory ==
  ASSUME UNCHANGED <<scheme, prior>>
  PROVE  Before' = Before /\ Healthy' = Healthy /\ Serial' = Serial
BY DEF Before, Healthy, Selected, Serial

\* A copy that is valid beats one that is not.
LEMMA ValidIsSelected ==
  ASSUME NEW a \in [Area -> Copy], \E i \in Area : a[i].valid
  PROVE  /\ Selected(a) \in Area
         /\ a[Selected(a)].valid
  BY DEF Selected, Area

\* A valid copy whose twin is damaged is the one U-Boot selects.
LEMMA OnlyValidIsSelected ==
  ASSUME NEW a \in [Area -> Copy], NEW i \in Area, a[i].valid, ~a[Other(i)].valid
  PROVE  Selected(a) = i
  BY DEF Selected, Area, Other

\* The selection is one of the two areas, whatever they hold.
LEMMA SelectedIsArea ==
  ASSUME NEW a
  PROVE  Selected(a) \in Area
  BY DEF Selected, Area

-----------------------------------------------------------------------------
(* The type invariant. *)

\* The initial states have the types of TypeOK.
LEMMA InitType == Init => TypeOK
<1> SUFFICES ASSUME Init PROVE TypeOK
  OBVIOUS
<1>1. /\ 0 \in Envs /\ Older \in Envs
      /\ {0, 1, 2} \subseteq Flags
      /\ 0 \in 0 .. MaxCalls
  BY MaxCallsAssumption DEF Envs, Older, Flags
<1>2. area \in [Area -> Copy]
  BY <1>1 DEF Init, Copy
<1>3. target \in Area
  BY SelectedIsArea DEF Init
<1>4. source \in Copy /\ prior \in [Area -> Copy]
  BY <1>2, <1>3 DEF Init
<1> QED
  BY <1>1, <1>2, <1>3, <1>4 DEF Init, TypeOK, Area

\* Every step keeps the types of TypeOK.
LEMMA StepType == TypeOK /\ [Next]_vars => TypeOK'
<1> SUFFICES ASSUME TypeOK, [Next]_vars PROVE TypeOK'
  OBVIOUS
<1>1. ASSUME NEW o \in Ops, Call(o) PROVE TypeOK'
  <2>1. calls' \in 0 .. MaxCalls /\ calls + 1 \in Envs
    BY <1>1, MaxCallsAssumption DEF Call, TypeOK, Envs, Older
  <2>2. prior' \in [Area -> Copy]
    BY <1>1 DEF Call, TypeOK
  <2>3. CASE NoArea(area[1].flag, area[2].flag)
    BY <1>1, <2>1, <2>2, <2>3 DEF Call, TypeOK, Area
  <2>4. CASE ~NoArea(area[1].flag, area[2].flag)
    <3>1. PICK now \in Area :
            /\ now = NowArea(area[1].flag, area[2].flag)
            /\ target' = NowPlace(o, now)
            /\ mem' = [a \in Area |->
                          IF a = NowPlace(o, now) THEN Edited(o, area[Other(now)])
                          ELSE Obsolete(area[Other(now)])]
            /\ source' = area[Other(now)]
            /\ pc' = "write" /\ result' = "none"
      BY <1>1, <2>4 DEF Call, NowArea, Area
    <3>2. area[Other(now)] \in Copy
      BY DEF TypeOK, Area, Other
    <3>3. Edited(o, area[Other(now)]) \in Copy
      BY <2>1, <3>2 DEF Edited, Copy, Flags, Envs, Torn, Older
    <3>4. Obsolete(area[Other(now)]) \in Copy
      BY <3>2 DEF Obsolete, Copy, Flags
    <3>5. mem' \in [Area -> Copy]
      BY <3>1, <3>3, <3>4
    <3>6. target' \in Area
      BY <3>1 DEF NowPlace, Area
    <3> QED
      BY <1>1, <2>1, <2>2, <3>1, <3>2, <3>5, <3>6 DEF Call, TypeOK, Area
  <2> QED
    BY <2>3, <2>4
<1>2. ASSUME NEW a \in Area, WriteBegin(a) PROVE TypeOK'
  <2>1. PICK f \in {Blank, mem[a].flag} : area' = [area EXCEPT ![a] = TornCopy(a, f)]
    BY <1>2 DEF WriteBegin
  <2>2. TornCopy(a, f) \in Copy
    BY <2>1, MaxCallsAssumption
    DEF TypeOK, TornCopy, Copy, Flags, Envs, Torn, Older, Blank
  <2> QED
    BY <1>2, <2>1, <2>2 DEF WriteBegin, TypeOK
<1>3. ASSUME NEW a \in Area, WriteEnd(a) PROVE TypeOK'
  <2>1. area' \in [Area -> Copy]
    BY <1>3 DEF WriteEnd, TypeOK
  <2> QED
    BY <1>3, <2>1 DEF WriteEnd, TypeOK, Continues, Area
<1>4. CASE PowerCut \/ \E a \in Area : WriteRefused(a)
  BY <1>4 DEF PowerCut, WriteRefused, TypeOK
<1>5. CASE UNCHANGED vars
  BY <1>5 DEF vars, TypeOK
<1> QED
  BY <1>1, <1>2, <1>3, <1>4, <1>5 DEF Next, Rest

-----------------------------------------------------------------------------
(* The inductive invariant. *)

\* The initial states satisfy the inductive invariant.
LEMMA InitIInv == Init => IInv
<1> SUFFICES ASSUME Init PROVE IInv
  OBVIOUS
<1>1. TypeOK
  BY InitType
<1>2. \A a \in Area : Whole(area[a])
  BY DEF Init, Whole, Torn, Older
<1> QED
  BY <1>1, <1>2
  DEF Init, IInv, Progress, WholeMeanwhile, Prepared, FromArea2,
      AtomicFromArea2, Area

\* A call prepares both copies.
LEMMA CallStep ==
  ASSUME IInv, TypeOK', NEW o \in Ops, Call(o)
  PROVE  IInv'
<1>1. /\ pc = "idle" /\ k' = 1 /\ UNCHANGED <<scheme, area>>
      /\ Before' = Selected(area)
      /\ Healthy' => \A a \in Area : Whole(area[a])
  BY DEF Call, Before, Healthy, Selected, Serial
<1>2. CASE NoArea(area[1].flag, area[2].flag)
  <2>1. pc' = "idle" /\ result' = "error" /\ ~Serial
        /\ UNCHANGED <<mem, source, target>>
    BY <1>1, <1>2 DEF Call, NoArea
  <2>2. Healthy' => Before' = 1
    BY <1>1, <1>2 DEF NoArea, Selected, Whole, Blank, Area
  <2> QED
    BY <1>1, <2>1, <2>2
    DEF IInv, Progress, WholeMeanwhile, Prepared, FromArea2, AtomicFromArea2,
        Area, Serial
<1>3. CASE ~NoArea(area[1].flag, area[2].flag)
  <2> DEFINE now == NowArea(area[1].flag, area[2].flag)
             prev == area[Other(now)]
             place == NowPlace(o, now)
  <2>1. /\ target' = place
        /\ mem' = [a \in Area |-> IF a = place THEN Edited(o, prev) ELSE Obsolete(prev)]
        /\ source' = prev
        /\ pc' = "write" /\ result' = "none"
    BY <1>3 DEF Call
  <2>2. now \in Area /\ Other(now) \in Area /\ place \in Area /\ prev \in Copy
    BY DEF NowArea, NowPlace, Other, Area, IInv, TypeOK
  <2>3. Healthy' => \A a \in Area : Whole(mem'[a])
    <3>1. Whole(prev) => Whole(Edited(o, prev)) /\ Whole(Obsolete(prev))
      BY <2>2 DEF Whole, Edited, Obsolete, Copy, Torn, IInv, TypeOK
    <3> QED
      BY <1>1, <2>1, <2>2, <3>1
  <2>4. Prepared'
    BY <1>1, <2>1, <2>2
    DEF Prepared, Serial, Edited, Obsolete, Other, Area, Copy
  <2>5. FromArea2'
    <3>0. Selected(area)' = Selected(area) /\ Serial' = Serial
      BY <1>1 DEF Selected, Serial
    <3> SUFFICES ASSUME Healthy', Selected(area) = 2, ~Serial
                 PROVE  mem'[2].env = prev.env /\ area[2].env = prev.env
      BY <1>1, <2>1, <3>0 DEF FromArea2
    <3>1. area[1].flag = 0 /\ area[2].flag = 1
      BY <1>1 DEF Selected, Whole, Area
    <3>2. now = 1
      BY <3>1 DEF NowArea, Blank
    <3>3. place = 1 /\ prev = area[2]
      BY <3>2 DEF NowPlace, Other
    <3>4. mem'[2] = Obsolete(prev)
      BY <2>1, <3>3 DEF Area
    <3> QED
      BY <2>2, <3>3, <3>4 DEF Obsolete, Copy
  <2>6. AtomicFromArea2'
    BY <1>1, <2>1, <2>5 DEF AtomicFromArea2, FromArea2, Serial, Selected
  <2>7. Progress' /\ WholeMeanwhile'
    BY <1>1, <2>1, <2>3 DEF Progress, WholeMeanwhile, Area
  <2> QED
    BY <2>4, <2>5, <2>6, <2>7 DEF IInv
<1> QED
  BY <1>2, <1>3

\* Beginning to write an area tears it; the other one is whole.
LEMMA WriteBeginStep ==
  ASSUME IInv, TypeOK', NEW a \in Area, WriteBegin(a)
  PROVE  IInv'
<1>1. PICK f \in {Blank, mem[a].flag} : area' = [area EXCEPT ![a] = TornCopy(a, f)]
  BY DEF WriteBegin
<1>2. /\ pc = "write" /\ pc' = "writing" /\ k = a
      /\ UNCHANGED <<scheme, mem, k, calls, result, source, target, prior>>
      /\ UNCHANGED <<Before, Healthy>>
  BY SameHistory DEF WriteBegin
<1>3. /\ ~area'[a].valid
      /\ Other(a) \in Area /\ Other(a) # a /\ area'[Other(a)] = area[Other(a)]
      /\ \A i \in Area : i = a \/ i = Other(a)
  BY <1>1 DEF TornCopy, Other, Area, IInv, TypeOK
<1>4. Progress' /\ Prepared'
  BY <1>2, <1>3 DEF IInv, Progress, Prepared, Other, Area, Serial
<1>5. WholeMeanwhile'
  BY <1>2, <1>3 DEF IInv, WholeMeanwhile, Area
<1>6. FromArea2'
  BY <1>2, <1>3 DEF IInv, FromArea2, Other, Area, Serial
<1>7. AtomicFromArea2'
  <2> SUFFICES ASSUME Healthy, Before = 2, ~Serial
               PROVE  area'[Selected(area')].env \in {source.env, mem[1].env}
    BY <1>2 DEF AtomicFromArea2, Serial, Selected
  <2>1. Selected(area') = Other(a)
    BY <1>2, <1>3, OnlyValidIsSelected
    DEF IInv, WholeMeanwhile, Whole, Other, TypeOK, Area
  <2>2. a = 1 => area[2].env = source.env
    BY <1>2 DEF IInv, FromArea2
  <2>3. a = 2 => area[1].env = mem[1].env
    BY <1>2 DEF IInv, Progress
  <2> QED
    BY <1>3, <2>1, <2>2, <2>3 DEF Other, Area
<1> QED
  BY <1>4, <1>5, <1>6, <1>7 DEF IInv

\* A write that is complete has put a prepared copy there; one that failed
\* leaves the area torn and ends the call.
LEMMA WriteEndStep ==
  ASSUME IInv, TypeOK', NEW a \in Area, WriteEnd(a)
  PROVE  IInv'
<1>1. /\ pc = "writing" /\ k = a
      /\ UNCHANGED <<scheme, mem, calls, source, target, prior>>
      /\ UNCHANGED <<Before, Healthy>>
  BY SameHistory DEF WriteEnd
<1>2. CASE area' = area
           /\ pc' = "idle" /\ result' = "error" /\ UNCHANGED k
  BY <1>1, <1>2
  DEF IInv, Progress, WholeMeanwhile, Prepared, FromArea2, AtomicFromArea2,
      Selected, Serial
<1>3. CASE /\ area' = [area EXCEPT ![a] = mem[a]]
           /\ a = 1 /\ pc' = "write" /\ k' = 2 /\ UNCHANGED result
  <2>1. area'[1] = mem[1] /\ area'[2] = area[2]
    BY <1>3 DEF IInv, TypeOK, Area
  <2>2. Progress' /\ Prepared'
    BY <1>1, <1>3, <2>1 DEF IInv, Progress, Prepared, Serial
  <2>3. WholeMeanwhile'
    BY <1>1, <1>3, <2>1 DEF IInv, WholeMeanwhile, Area, Other
  <2>4. FromArea2'
    BY <1>1, <1>3, <2>1 DEF IInv, FromArea2, Serial
  <2>5. AtomicFromArea2'
    <3>1. Selected(area') \in {1, 2}
      BY SelectedIsArea DEF Area
    <3> QED
      BY <1>1, <1>3, <2>1, <3>1
      DEF IInv, AtomicFromArea2, FromArea2, Serial, Selected
  <2> QED
    BY <2>2, <2>3, <2>4, <2>5 DEF IInv
<1>4. CASE /\ area' = [area EXCEPT ![a] = mem[a]]
           /\ a = 2 /\ pc' = "idle" /\ result' = "ok" /\ UNCHANGED k
  <2>1. area'[1] = mem[1] /\ area'[2] = mem[2]
    BY <1>1, <1>4 DEF IInv, TypeOK, Area, Progress
  <2>2. area' = mem
    BY <2>1 DEF IInv, TypeOK, Area
  <2>3. Progress' /\ Prepared' /\ FromArea2'
    BY <1>1, <1>4, <2>2 DEF IInv, Progress, Prepared, FromArea2, Serial
  <2>4. WholeMeanwhile'
    BY <1>1, <1>4, <2>1 DEF IInv, WholeMeanwhile, Area
  <2>5. AtomicFromArea2'
    <3>1. Selected(area') \in {1, 2}
      BY SelectedIsArea DEF Area
    <3> QED
      BY <1>1, <1>4, <2>1, <3>1
      DEF IInv, AtomicFromArea2, FromArea2, Serial, Selected
  <2> QED
    BY <2>3, <2>4, <2>5 DEF IInv
<1> QED
  BY <1>1, <1>2, <1>3, <1>4 DEF WriteEnd, Continues, Area

\* Every step, a power cut in the middle of a write included, keeps the inductive invariant.
LEMMA StepIInv == IInv /\ [Next]_vars => IInv'
<1> SUFFICES ASSUME IInv, [Next]_vars PROVE IInv'
  OBVIOUS
<1>1. TypeOK'
  BY StepType DEF IInv
<1>2. CASE PowerCut \/ \E a \in Area : WriteRefused(a)
  BY <1>1, <1>2, SameHistory
  DEF PowerCut, WriteRefused, IInv, Progress, WholeMeanwhile, Prepared, FromArea2,
      AtomicFromArea2, Selected, Serial
<1>3. CASE UNCHANGED vars
  BY <1>1, <1>3, SameHistory
  DEF vars, IInv, Progress, WholeMeanwhile, Prepared, FromArea2,
      AtomicFromArea2, Selected, Serial
<1> QED
  BY <1>1, <1>2, <1>3, CallStep, WriteBeginStep, WriteEndStep DEF Next, Rest

\* The inductive invariant of the two environment copies holds in every reachable state;
\* the theorems below are read from it.
THEOREM Invariance == Spec => []IInv
  BY InitIInv, StepIInv, PTL DEF Spec

\* U-Boot finds a whole environment at every moment of a change that starts
\* from two whole copies, however many changes came before.
THEOREM AlwaysBoots == Spec => []HealthyBoots
<1>1. IInv => HealthyBoots
  BY ValidIsSelected DEF IInv, TypeOK, HealthyBoots, WholeMeanwhile, Whole
<1> QED
  BY <1>1, Invariance, PTL

\* On the AX3 what U-Boot selects after a successful change is the change.
THEOREM ChangeTakesEffect == Spec => []ChangeIsSelected
<1>1. IInv => ChangeIsSelected
  <2> SUFFICES ASSUME IInv, result = "ok", ~Serial
               PROVE  Selected(area) = target /\ area[target] = mem[target]
    BY DEF ChangeIsSelected
  <2>1. /\ area = mem /\ target \in Area
        /\ area[1].valid \in BOOLEAN /\ area[2].valid \in BOOLEAN
    BY DEF IInv, TypeOK, Progress, Area, Copy
  <2>2. /\ area[target].valid /\ area[target].flag = 1
        /\ area[Other(target)].flag = 0
    BY <2>1 DEF IInv, Prepared
  <2>3. CASE target = 1
    BY <2>1, <2>2, <2>3 DEF Selected, Other
  <2>4. CASE target = 2
    BY <2>1, <2>2, <2>4 DEF Selected, Other
  <2> QED
    BY <2>1, <2>3, <2>4 DEF Area
<1> QED
  BY <1>1, Invariance, PTL

\* On the AX3 a change is atomic when area 2 was the active one.
THEOREM Atomicity == Spec => []AtomicFromArea2
<1>1. IInv => AtomicFromArea2
  BY DEF IInv
<1> QED
  BY <1>1, Invariance, PTL

\* The areas, the text to be written and the state of the tool always are of
\* their types.
THEOREM TypeCorrect == Spec => []TypeOK
<1>1. IInv => TypeOK
  BY DEF IInv
<1> QED
  BY <1>1, Invariance, PTL


-----------------------------------------------------------------------------
(* The copies are an EnvRegister: each step is one of its steps, or it does
   not see it. *)

\* What of the old copies is still there, and what of the new ones already.
Stages ==
  /\ pc = "write" /\ k = 1 => area = prior
  /\ pc = "writing" /\ k = 1 => area[2] = prior[2] /\ ~area[1].valid
  /\ pc = "write" /\ k = 2 => area[1] = mem[1] /\ area[2] = prior[2]
  /\ pc = "writing" /\ k = 2 => area[1] = mem[1] /\ ~area[2].valid

\* On the AX3 a copy with a right CRC is active or obsolete.
FlagsUsed ==
  ~Serial => \A a \in Area : /\ area[a].valid => area[a].flag \in {0, 1}
                             /\ prior[a].valid => prior[a].flag \in {0, 1}

\* No environment has the number of a call to come; that of the running call
\* is new.
Numbered ==
  /\ \A a \in Area : area[a].env <= calls
  /\ pc # "idle" => \A a \in Area : mem[a].env <= calls /\ prior[a].env < calls

\* A change of whole copies prepares the new environment and one of the old
\* ones, on the AX3 the one that U-Boot would select.
Replaces ==
  pc # "idle" /\ Healthy =>
    /\ mem[target].env = calls /\ mem[Other(target)].env = source.env
    /\ source \in {prior[1], prior[2]}
    /\ ~Serial => source = prior[Before] /\ (Before = 2 => target = 1)

RInv == Stages /\ FlagsUsed /\ Numbered /\ Replaces

LEMMA AreaTwo ==
  ASSUME NEW a \in Area
  PROVE  /\ Other(a) \in Area /\ Other(a) # a /\ Area = {a, Other(a)}
         /\ a = 1 \/ a = 2
         /\ Other(1) = 2 /\ Other(2) = 1
BY DEF Area, Other

LEMMA InitRInv == Init => RInv
  <1> SUFFICES ASSUME Init PROVE RInv
    OBVIOUS
  <1>1. \A a \in Area : area[a].env <= 0 /\ (~Serial => area[a].flag \in {0, 1})
    BY DEF Init, Older
  <1> QED BY <1>1 DEF Init, RInv, Stages, FlagsUsed, Numbered, Replaces

LEMMA CallReplaces ==
  ASSUME IInv, IInv', RInv, NEW o \in Ops, Call(o)
  PROVE  RInv'
  <1>1. /\ pc = "idle" /\ k' = 1 /\ UNCHANGED <<scheme, area>> /\ prior' = area
        /\ calls' = calls + 1 /\ pc' \in {"idle", "write"} /\ calls \in Nat
        /\ area \in [Area -> Copy] /\ Serial' = Serial /\ Before' = Selected(area)
    BY DEF Call, IInv, TypeOK, Serial, Before, Selected
  <1>2. \A a \in Area : area[a].env \in Int /\ area[a].env <= calls
    BY <1>1, MaxCallsAssumption DEF Copy, Envs, Older, RInv, Numbered
  <1>3. Stages' /\ FlagsUsed'
    BY <1>1 DEF Stages, RInv, FlagsUsed
  <1>4. CASE pc' = "idle"
    BY <1>1, <1>2, <1>3, <1>4 DEF RInv, Numbered, Replaces
  <1>5. CASE pc' # "idle"
    <2> DEFINE now == NowArea(area[1].flag, area[2].flag)
               prev == area[Other(now)]
               place == NowPlace(o, now)
    <2>1. /\ target' = place
          /\ mem' = [a \in Area |-> IF a = place THEN Edited(o, prev) ELSE Obsolete(prev)]
          /\ source' = prev
      BY <1>1, <1>5 DEF Call
    <2>2. now \in Area /\ Other(now) \in Area /\ place \in Area /\ Other(place) \in Area
          /\ Other(place) # place /\ prev \in Copy
      BY <1>1 DEF NowArea, NowPlace, Other, Area
    <2>3. Obsolete(prev).env = prev.env /\ Edited(o, prev).env \in {calls + 1, Torn}
          /\ (prev.env # Torn => Edited(o, prev).env = calls + 1)
      BY <2>2 DEF Obsolete, Edited, Copy
    <2>4. Numbered'
      <3>1. \A a \in Area : mem'[a].env \in {calls + 1, Torn, prev.env}
        BY <2>1, <2>3
      <3> QED BY <1>1, <1>2, <2>2, <3>1 DEF Numbered, Torn
    <2>5. Replaces'
      <3> SUFFICES ASSUME Healthy'
                   PROVE  /\ mem'[place].env = calls + 1 /\ mem'[Other(place)].env = prev.env
                          /\ prev \in {area[1], area[2]}
                          /\ ~Serial => prev = area[Selected(area)]
                                        /\ (Selected(area) = 2 => place = 1)
        BY <1>1, <2>1 DEF Replaces
      <3>1. \A a \in Area : Whole(area[a])
        BY <1>1 DEF Healthy
      <3>2. mem'[place].env = calls + 1 /\ mem'[Other(place)].env = prev.env
        BY <2>1, <2>2, <2>3, <3>1 DEF Whole
      <3>3. prev \in {area[1], area[2]}
        BY <2>2 DEF Area
      <3>4. ASSUME ~Serial
            PROVE  prev = area[Selected(area)] /\ (Selected(area) = 2 => place = 1)
        <4>1. area[1].valid /\ area[2].valid
              /\ area[1].flag \in {0, 1} /\ area[2].flag \in {0, 1}
          BY <3>1, <3>4 DEF Whole, Area, RInv, FlagsUsed
        <4> QED BY <3>4, <4>1 DEF Selected, NowArea, NowPlace, Other, Blank
      <3> QED BY <3>2, <3>3, <3>4
    <2> QED BY <1>3, <2>4, <2>5 DEF RInv
  <1> QED BY <1>4, <1>5

LEMMA WriteBeginReplaces ==
  ASSUME IInv, RInv, NEW a \in Area, WriteBegin(a)
  PROVE  RInv'
  <1>1. PICK f \in {Blank, mem[a].flag} : area' = [area EXCEPT ![a] = TornCopy(a, f)]
    BY DEF WriteBegin
  <1>2. /\ pc = "write" /\ pc' = "writing" /\ k = a
        /\ UNCHANGED <<scheme, mem, k, calls, source, target, prior>>
        /\ UNCHANGED <<Before, Healthy, Serial>>
    BY SameHistory DEF WriteBegin
  <1>3. /\ area'[a].env = Torn /\ ~area'[a].valid /\ area'[Other(a)] = area[Other(a)]
        /\ calls \in Nat /\ area \in [Area -> Copy]
    BY <1>1, AreaTwo DEF TornCopy, IInv, TypeOK
  <1>4. Stages'
    BY <1>2, <1>3, AreaTwo DEF RInv, Stages
  <1>5. FlagsUsed'
    BY <1>2, <1>3, AreaTwo DEF RInv, FlagsUsed
  <1>6. Numbered'
    BY <1>2, <1>3, AreaTwo DEF RInv, Numbered, Torn
  <1>7. Replaces'
    BY <1>2 DEF RInv, Replaces
  <1> QED BY <1>4, <1>5, <1>6, <1>7 DEF RInv

LEMMA WriteEndReplaces ==
  ASSUME IInv, RInv, NEW a \in Area, WriteEnd(a)
  PROVE  RInv'
  <1>1. /\ pc = "writing" /\ k = a
        /\ UNCHANGED <<scheme, mem, calls, source, target, prior>>
        /\ UNCHANGED <<Before, Healthy, Serial>>
        /\ area \in [Area -> Copy] /\ target \in Area
    BY SameHistory DEF WriteEnd, IInv, TypeOK
  <1>2. CASE area' = area /\ pc' = "idle"
    BY <1>1, <1>2 DEF RInv, Stages, FlagsUsed, Numbered, Replaces
  <1>3. CASE area' = [area EXCEPT ![a] = mem[a]]
    <2>1. area'[a] = mem[a] /\ area'[Other(a)] = area[Other(a)]
      BY <1>1, <1>3, AreaTwo
    <2>2. Stages'
      <3>1. pc' = "idle" \/ (a = 1 /\ pc' = "write" /\ k' = 2)
        BY DEF WriteEnd, Continues
      <3> QED BY <1>1, <2>1, <3>1, AreaTwo DEF RInv, Stages
    <2>3. FlagsUsed'
      <3>1. ~Serial => mem[a].flag \in {0, 1}
        BY <1>1, AreaTwo DEF IInv, Prepared
      <3> QED BY <1>1, <2>1, <3>1, AreaTwo DEF RInv, FlagsUsed
    <2>4. Numbered'
      BY <1>1, <2>1, AreaTwo DEF RInv, Numbered
    <2>5. Replaces'
      BY <1>1 DEF RInv, Replaces
    <2> QED BY <2>2, <2>3, <2>4, <2>5 DEF RInv
  <1> QED BY <1>2, <1>3 DEF WriteEnd, Continues

LEMMA StepRInv == IInv /\ IInv' /\ RInv /\ [Next]_vars => RInv'
  <1> SUFFICES ASSUME IInv, IInv', RInv, [Next]_vars PROVE RInv'
    OBVIOUS
  <1>1. CASE PowerCut \/ (\E a \in Area : WriteRefused(a)) \/ UNCHANGED vars
    <2>1. UNCHANGED <<scheme, area, mem, calls, source, target, prior>>
          /\ UNCHANGED <<Before, Healthy, Serial>> /\ (pc' = "idle" \/ (pc' = pc /\ k' = k))
      BY <1>1, SameHistory DEF PowerCut, WriteRefused, vars
    <2> QED BY <2>1 DEF RInv, Stages, FlagsUsed, Numbered, Replaces
  <1> QED BY <1>1, CallReplaces, WriteBeginReplaces, WriteEndReplaces DEF Next, Rest

-----------------------------------------------------------------------------
Boots == area[Selected(area)].env

BootsEnv == Boots \in Envs

LEMMA BootsIsEnv == TypeOK => BootsEnv
BY SelectedIsArea DEF TypeOK, Copy, Boots, BootsEnv

\* What the register may hold while a change of whole copies is under way.
LEMMA Threefold ==
  ASSUME IInv, RInv, pc # "idle", Healthy
  PROVE  LET three == {prior[Before].env, prior[Other(Before)].env, mem[target].env}
         IN  /\ \A a \in Area : prior[a].env \in three /\ mem[a].env \in three
             /\ \A a \in Area : prior[a].env # mem[target].env /\ prior[a].valid
             /\ \A a \in Area : mem[a].valid
             /\ mem[Other(target)].env # mem[target].env
  <1>1. Before \in Area /\ target \in Area /\ calls \in Nat
        /\ \A a \in Area : prior[a].env \in Int
    BY SelectedIsArea, MaxCallsAssumption DEF Before, IInv, TypeOK, Copy, Envs, Older
  <1>2. \A a \in Area : prior[a].env < calls /\ prior[a].valid /\ mem[a].valid
    BY DEF RInv, Numbered, Healthy, Whole, IInv, WholeMeanwhile
  <1>3. mem[target].env = calls /\ mem[Other(target)].env \in {prior[1].env, prior[2].env}
    BY DEF RInv, Replaces
  <1>4. \A a \in Area : a = Before \/ a = Other(Before)
    BY <1>1, AreaTwo
  <1>5. \A a \in Area : a = target \/ a = Other(target)
    BY <1>1, AreaTwo
  <1>6. 1 \in Area /\ 2 \in Area
    BY DEF Area
  <1> QED BY <1>1, <1>2, <1>3, <1>4, <1>5, <1>6

\* Where it comes from: the copies that are there, in the order of the writes.
LEMMA BootsWhile ==
  ASSUME IInv, RInv, pc # "idle", Healthy
  PROVE  /\ pc = "write" /\ k = 1 => Boots = prior[Before].env
         /\ pc = "writing" /\ k = 1 => Boots = prior[2].env
         /\ pc = "write" /\ k = 2 => Boots \in {mem[1].env, prior[2].env}
         /\ pc = "writing" /\ k = 2 => Boots = mem[1].env
  <1>1. area \in [Area -> Copy] /\ prior[2].valid /\ mem[1].valid /\ 1 \in Area /\ 2 \in Area
        /\ Other(1) = 2 /\ Other(2) = 1
    BY Threefold DEF IInv, TypeOK, Area, Other
  <1>2. pc = "write" /\ k = 1 => Boots = prior[Before].env
    BY DEF RInv, Stages, Boots, Before
  <1>3. pc = "writing" /\ k = 1 => Selected(area) = 2
    BY <1>1, OnlyValidIsSelected DEF RInv, Stages
  <1>4. pc = "writing" /\ k = 2 => Selected(area) = 1
    BY <1>1, OnlyValidIsSelected DEF RInv, Stages
  <1>5. Selected(area) \in {1, 2}
    BY SelectedIsArea DEF Area
  <1> QED BY <1>2, <1>3, <1>4, <1>5 DEF RInv, Stages, Boots

BootsNew == result = "ok" /\ ~Serial => Boots = mem[target].env

\* And after the write of area 2 has been completed.
LEMMA BootsAfter == IInv => BootsNew
  <1> SUFFICES ASSUME IInv, result = "ok", ~Serial PROVE Boots = mem[target].env
    BY DEF BootsNew
  <1>1. /\ area = mem /\ target \in {1, 2}
        /\ area[1].valid \in BOOLEAN /\ area[2].valid \in BOOLEAN
        /\ area[target].valid /\ area[target].flag = 1 /\ area[Other(target)].flag = 0
    BY DEF IInv, TypeOK, Progress, Area, Copy, Prepared
  <1> QED BY <1>1 DEF Boots, Selected, Other

LEMMA InitRegister == Init => Register!Init
  <1> SUFFICES ASSUME Init PROVE Register!Init
    OBVIOUS
  <1>1. TypeOK /\ Before \in Area /\ 1 \in Area /\ 2 \in Area
    BY InitType, SelectedIsArea DEF Before, Area
  <1>2. /\ prior = area /\ Boots = prior[Before].env /\ Boots \in Envs
        /\ prior[Other(Before)].env \in Envs /\ mem[target].env \in Envs
    BY <1>1, BootsIsEnv, AreaTwo DEF Init, Before, TypeOK, Copy, Boots, BootsEnv
  <1>3. Healthy
    BY DEF Init, Healthy, Whole, Torn, Older
  <1> QED BY <1>2, <1>3 DEF Init, Register!Init, Register!Kinds, Kind, Boots

LEMMA RegisterBegin ==
  ASSUME IInv, IInv', NEW o \in Ops, Call(o)
  PROVE  Register!Begin
  <1>1. /\ pc = "idle" /\ UNCHANGED <<scheme, area>> /\ prior' = area
        /\ result' # "ok" /\ Serial' = Serial /\ Before' = Selected(area)
        /\ Selected(area)' = Selected(area)
    BY DEF Call, Serial, Before, Selected
  <1>2. /\ Before' \in Area /\ Other(Before') \in Area /\ target' \in Area
        /\ prior' \in [Area -> Copy] /\ mem' \in [Area -> Copy]
    BY <1>1, SelectedIsArea, AreaTwo DEF IInv, TypeOK
  <1>3. /\ prior'[Other(Before')].env \in Envs /\ mem'[target'].env \in Envs
    BY <1>2 DEF Copy
  <1>4. Kind' \in {"steady", "gap", "loose"} /\ Healthy' \in BOOLEAN
    BY DEF Kind, Healthy
  <1> QED BY <1>1, <1>3, <1>4 DEF Register!Begin, Register!Kinds, Other

\* A step of the writes as one of the register's.
LEMMA RegisterWrite ==
  ASSUME IInv, IInv', UNCHANGED <<scheme, mem, target, prior>>, pc # "idle",
         Healthy => Boots' \in Register!Meanwhile,
         result' = "ok" => pc' = "idle"
  PROVE  Register!Write
  <1>1. UNCHANGED <<Before, Healthy, Serial>>
    BY SameHistory
  <1>2. Boots' \in Envs
    <2>1. TypeOK'
      BY DEF IInv
    <2>2. BootsEnv'
      BY <2>1, BootsIsEnv, PTL
    <2> QED BY <2>2 DEF BootsEnv
  <1>3. result' = "ok" /\ ~Serial => Boots' = mem[target].env
    <2>1. BootsNew'
      BY BootsAfter, PTL
    <2> QED BY <1>1, <2>1 DEF BootsNew
  <1>4. Kind' = Kind /\ (Kind # "loose" => ~Serial)
    BY <1>1 DEF Kind
  <1> QED BY <1>1, <1>2, <1>3, <1>4 DEF Register!Write, Boots

\* The register never holds the new environment before it is there, and never
\* anything else afterwards.
LEMMA WriteBeginKeeps ==
  ASSUME IInv, RInv, RInv', NEW a \in Area, WriteBegin(a)
  PROVE  Healthy => Boots' \in Register!Meanwhile
  <1> SUFFICES ASSUME Healthy PROVE Boots' \in Register!Meanwhile
    OBVIOUS
  <1>1. PICK f \in {Blank, mem[a].flag} : area' = [area EXCEPT ![a] = TornCopy(a, f)]
    BY DEF WriteBegin
  <1>2. /\ pc = "write" /\ pc' = "writing" /\ k = a /\ area \in [Area -> Copy]
        /\ UNCHANGED <<scheme, mem, k, source, target, prior>>
        /\ UNCHANGED <<Before, Healthy, Serial>> /\ Other(a) \in Area
    BY SameHistory, AreaTwo DEF WriteBegin, IInv, TypeOK
  <1>4. Boots' = area[Other(a)].env
    <2>1. ~area'[a].valid /\ area'[Other(a)] = area[Other(a)] /\ area[Other(a)].valid
      BY <1>1, <1>2, AreaTwo DEF TornCopy, IInv, WholeMeanwhile, Whole
    <2>2. Selected(area') = Other(a)
      BY <1>2, <2>1, AreaTwo DEF Selected
    <2> QED BY <2>1, <2>2, <1>2 DEF Boots, Selected, Serial
  <1>5. /\ \A b \in Area : prior[b].env # mem[target].env
        /\ 1 \in Area /\ 2 \in Area /\ Before \in Area /\ (Before = 1 \/ Before = 2)
        /\ \A b \in Area : prior[b].env \in {prior[Before].env, prior[Other(Before)].env, mem[target].env}
        /\ \A b \in Area : mem[b].env \in {prior[Before].env, prior[Other(Before)].env, mem[target].env}
    BY <1>2, Threefold, SelectedIsArea DEF Area, Before
  <1>6. CASE a = 1
    <2>1. Boots' = prior[2].env /\ Boots = prior[Before].env
      BY <1>2, <1>4, <1>6, BootsWhile, AreaTwo DEF RInv, Stages
    <2>2. Boots # mem[target].env
      BY <1>5, <2>1
    <2>3. Kind = "steady" => Before = 2
      BY DEF Kind
    <2> QED BY <1>5, <2>1, <2>2, <2>3 DEF Register!Meanwhile, Boots
  <1>7. CASE a = 2
    <2>1. Boots' = mem[1].env /\ Boots \in {mem[1].env, prior[2].env}
      BY <1>2, <1>4, <1>7, BootsWhile, AreaTwo DEF RInv, Stages
    <2>2. Boots = mem[target].env => mem[1].env = mem[target].env
      BY <1>5, <2>1
    <2>3. Kind = "steady" => target = 1
      BY <1>2 DEF Kind, RInv, Replaces
    <2> QED BY <1>5, <2>1, <2>2, <2>3 DEF Register!Meanwhile, Boots
  <1> QED BY <1>6, <1>7, AreaTwo

LEMMA Standing ==
  ASSUME IInv, RInv, pc # "idle", Healthy
  PROVE  Boots \in Register!Meanwhile
  <1>1. /\ 1 \in Area /\ 2 \in Area /\ Before \in Area /\ (k = 1 \/ k = 2)
        /\ pc \in {"write", "writing"}
    BY SelectedIsArea DEF Area, Before, IInv, TypeOK
  <1>2. Boots \in {prior[Before].env, prior[2].env, mem[1].env}
    BY <1>1, BootsWhile
  <1>3. Boots \in {prior[Before].env, prior[Other(Before)].env, mem[target].env}
    BY <1>1, <1>2, Threefold
  <1> QED BY <1>3 DEF Register!Meanwhile, Boots

LEMMA WriteEndKeeps ==
  ASSUME IInv, IInv', RInv, NEW a \in Area, WriteEnd(a)
  PROVE  Healthy => Boots' \in Register!Meanwhile
  <1> SUFFICES ASSUME Healthy PROVE Boots' \in Register!Meanwhile
    OBVIOUS
  <1>1. /\ pc = "writing" /\ k = a
        /\ UNCHANGED <<scheme, mem, source, target, prior>>
        /\ area \in [Area -> Copy]
    BY DEF WriteEnd, IInv, TypeOK
  <1>2. /\ \A b \in Area : prior[b].env # mem[target].env
        /\ 1 \in Area /\ 2 \in Area /\ Before \in Area
        /\ \A b \in Area : prior[b].env \in {prior[Before].env, prior[Other(Before)].env, mem[target].env}
        /\ \A b \in Area : mem[b].env \in {prior[Before].env, prior[Other(Before)].env, mem[target].env}
    BY <1>1, Threefold, SelectedIsArea DEF Area, Before
  <1>3. CASE area' = area
    <2>1. Boots' = Boots
      BY <1>1, <1>3 DEF Boots, Selected, Serial
    <2> QED BY <1>1, <2>1, Standing
  <1>4. CASE a = 1 /\ area' = [area EXCEPT ![a] = mem[a]]
    <2>1. Boots = prior[2].env /\ area'[1] = mem[1] /\ area'[2] = prior[2]
      BY <1>1, <1>2, <1>4, BootsWhile DEF RInv, Stages
    <2>2. Boots' \in {mem[1].env, prior[2].env}
      <3>1. Selected(area)' \in {1, 2}
        BY DEF Selected
      <3> QED BY <2>1, <3>1 DEF Boots
    <2>3. Boots # mem[target].env
      BY <1>2, <2>1
    <2>4. Kind = "steady" => target = 1
      BY <1>1 DEF Kind, RInv, Replaces
    <2> QED BY <1>2, <2>1, <2>2, <2>3, <2>4 DEF Register!Meanwhile, Boots
  <1>5. CASE a = 2 /\ area' = [area EXCEPT ![a] = mem[a]] /\ result' = "ok"
    <2>1. Boots' \in {mem[1].env, mem[2].env}
      <3>1. Selected(area)' \in {1, 2}
        BY DEF Selected
      <3>2. area'[1] = mem[1] /\ area'[2] = mem[2]
        BY <1>1, <1>2, <1>5 DEF RInv, Stages
      <3> QED BY <3>1, <3>2 DEF Boots
    <2>2. ~Serial => Boots' = mem[target].env
      <3>1. BootsNew'
        BY BootsAfter, PTL
      <3> QED BY <1>1, <1>5, <3>1 DEF Serial, BootsNew
    <2>3. Kind # "loose" => ~Serial
      BY DEF Kind
    <2>4. Kind \in {"steady", "gap", "loose"}
      BY DEF Kind
    <2> QED BY <1>2, <2>1, <2>2, <2>3, <2>4 DEF Register!Meanwhile, Boots
  <1> QED BY <1>3, <1>4, <1>5, AreaTwo DEF WriteEnd, Continues

LEMMA RegisterStep ==
  ASSUME IInv, IInv', RInv, RInv', [Next]_vars
  PROVE  [Register!Next]_(Register!vars)
  <1>1. ASSUME NEW o \in Ops, Call(o) PROVE Register!Next
    BY <1>1, RegisterBegin DEF Register!Next
  <1>2. ASSUME NEW a \in Area, WriteBegin(a) PROVE Register!Next
    <2>1. UNCHANGED <<scheme, mem, target, prior>> /\ pc # "idle" /\ result' # "ok"
      BY <1>2 DEF WriteBegin, IInv, Progress
    <2> QED BY <1>2, <2>1, WriteBeginKeeps, RegisterWrite DEF Register!Next
  <1>3. ASSUME NEW a \in Area, WriteEnd(a) PROVE Register!Next
    <2>1. UNCHANGED <<scheme, mem, target, prior>> /\ pc # "idle"
          /\ (result' = "ok" => pc' = "idle")
      BY <1>3 DEF WriteEnd, IInv, Progress
    <2> QED BY <1>3, <2>1, WriteEndKeeps, RegisterWrite DEF Register!Next
  <1>4. CASE PowerCut \/ \E a \in Area : WriteRefused(a)
    <2>1. UNCHANGED <<scheme, mem, target, prior>> /\ pc # "idle" /\ result' # "ok"
          /\ area' = area
      BY <1>4 DEF PowerCut, WriteRefused
    <2>2. Boots' = Boots
      BY <2>1 DEF Boots, Selected, Serial
    <2> QED BY <2>1, <2>2, Standing, RegisterWrite DEF Register!Next
  <1>5. CASE UNCHANGED vars
    <2>1. UNCHANGED <<scheme, area, mem, target, prior, pc, result>>
      BY <1>5 DEF vars
    <2>2. UNCHANGED <<Before, Healthy, Serial, Selected(area)>>
      BY <2>1, SameHistory DEF Selected, Serial
    <2> QED BY <2>1, <2>2 DEF Register!vars, Kind, Other
  <1> QED BY <1>1, <1>2, <1>3, <1>4, <1>5 DEF Next, Rest

\* The two copies implement EnvRegister, for every number of changes, with
\* flags and with counters.
THEOREM EnvironmentIsKept == Spec => EnvironmentSurvives
  BY InitRInv, StepRInv, InitRegister, RegisterStep, Invariance, PTL
  DEF Spec, EnvironmentSurvives, Register!Spec
==============================================================================
