------------------------------ MODULE UbootEnv ------------------------------
(***************************************************************************)
(* The two copies of the U-Boot environment, as files/flashcfg.c changes   *)
(* them: flash_set_bootdev (options -c and -E) and flash_set_pmlevel (-p). *)
(* Both read the two areas, take one for p_prev and build p_now from it,   *)
(* and then write area 1 and area 2, in this order, one sector after the   *)
(* other.  U-Boot selects a copy at the next boot; a power cut in the      *)
(* middle of a write leaves the area torn.  The blocks of the partition    *)
(* are good ones, and MEMGETBADBLOCK says so.                              *)
(*                                                                         *)
(* With CONFIG_OBSA6 (A6, A7) byte 4 of an area is a counter; on the AX3   *)
(* it is a flag, 1 (active) or 0 (obsolete).  0xff is an erased byte.      *)
(***************************************************************************)
EXTENDS Integers

CONSTANTS
  Schemes,   \* what byte 4 of an area may be: "flag" or "counter"
  MaxCalls   \* bound: how many times the tool is called

ASSUME SchemesAssumption == Schemes \subseteq {"flag", "counter"}
ASSUME MaxCallsAssumption == MaxCalls \in Nat

Area  == {1, 2}
Blank == 255
Torn  == -1     \* an environment with text that nobody wrote

\* Environments are numbered by the call that made them; 0 and -2 are what
\* the machine started with.
Older == -2
Envs  == Older .. MaxCalls
Flags == {0, 1, 2, Blank}
Copy  == [env : Envs, flag : Flags, valid : BOOLEAN]

VARIABLES
  scheme,  \* the scheme of this machine; it never changes
  area,    \* the flash: two copies, valid if the CRC is that of the text
  mem,     \* env_area1 and env_area2 as they will be written
  pc,      \* "idle", or before and during the write of area k
  k,
  calls,   \* calls so far
  result,  \* how the last call ended
  source,  \* history: p_prev of the last call that wrote anything
  target,  \* history: where that call puts p_now
  prior    \* history: the flash before the last call

vars == <<scheme, area, mem, pc, k, calls, result, source, target, prior>>

Whole(c) == c.valid /\ c.env # Torn

Serial == scheme = "counter"     \* CONFIG_OBSA6

\* Option -p is there for the AX3 only.
Ops == IF Serial THEN {"c", "E"} ELSE {"c", "E", "p"}

\* Types of the two stored copies, of their image in RAM and of the call in progress.
TypeOK ==
  /\ scheme \in Schemes
  /\ area \in [Area -> Copy]
  /\ mem \in [Area -> Copy]
  /\ pc \in {"idle", "write", "writing"} /\ k \in Area
  /\ calls \in 0 .. MaxCalls
  /\ result \in {"none", "ok", "error", "cut"}
  /\ source \in Copy
  /\ target \in Area
  /\ prior \in [Area -> Copy]

\* U-Boot's choice: a valid CRC first, then the flag or the higher counter,
\* area 1 if these do not decide.
Selected(a) ==
  IF a[1].valid # a[2].valid THEN IF a[1].valid THEN 1 ELSE 2
  ELSE IF Serial THEN IF a[2].flag > a[1].flag THEN 2 ELSE 1
  ELSE IF a[1].flag = 0 /\ a[2].flag = 1 THEN 2 ELSE 1

\* As U-Boot's saveenv leaves the areas, whichever it wrote last.
Init ==
  /\ scheme \in Schemes
  /\ \E s \in Area :
       area = [a \in Area |-> [env |-> IF a = s THEN 0 ELSE Older,
                               flag |-> IF Serial THEN IF a = s THEN 2 ELSE 1
                                        ELSE IF a = s THEN 1 ELSE 0,
                               valid |-> TRUE]]
  /\ mem = area
  /\ pc = "idle" /\ k = 1 /\ calls = 0 /\ result = "none"
  /\ prior = area
  /\ target = Selected(area) /\ source = area[target]

-----------------------------------------------------------------------------
(* The choice of p_now.  crc1 and crc2 are the CRCs of what the areas hold,*)
(* not compared with anything: they are zero for no area, torn or not.     *)

Other(a) == 3 - a

\* Mutant: the case of an active area 2 is forgotten.
NowAreaSecond(f1, f2) == IF f1 = Blank THEN 1 ELSE 2

NowArea(f1, f2) ==
  IF Serial THEN IF f1 > f2 THEN 2 ELSE 1
  ELSE IF f1 = Blank \/ (f2 # Blank /\ f1 = 0 /\ f2 = 1) THEN 1 ELSE 2

NoArea(f1, f2) == ~Serial /\ f1 = Blank /\ f2 = Blank

\* Mutant: p_prev stays active.
KeepFlag(prev) == prev

\* p_prev[4] = 0x0 on the AX3.
Obsolete(prev) == IF Serial THEN prev ELSE [prev EXCEPT !.flag = 0]

\* "c" and "p" edit the text of p_prev, header included: on the A6 and A7 the
\* counter is copied.  "E" takes the text from a file, the header is zeroed.
Edited(o, prev) ==
  [env   |-> IF o # "E" /\ prev.env = Torn THEN Torn ELSE calls + 1,
   flag  |-> IF ~Serial THEN 1 ELSE IF o = "E" THEN 0 ELSE prev.flag,
   valid |-> TRUE]

\* Mutant: the offset is taken for the number of the area.
NowPlaceOffset(o, now) == IF o = "p" THEN 0 ELSE now

\* flash_set_pmlevel writes p_now to offset 0 whichever area it is.
NowPlace(o, now) == IF o = "p" THEN 1 ELSE now

Call(o) ==
  /\ pc = "idle" /\ calls < MaxCalls
  /\ calls' = calls + 1
  /\ prior' = area
  /\ IF NoArea(area[1].flag, area[2].flag)
       THEN result' = "error" /\ UNCHANGED <<mem, pc, source, target>>
       ELSE LET now  == NowArea(area[1].flag, area[2].flag)
                prev == area[Other(now)]
            IN  /\ target' = NowPlace(o, now)
                /\ mem' = [a \in Area |->
                             IF a = NowPlace(o, now) THEN Edited(o, prev)
                             ELSE Obsolete(prev)]
                /\ source' = prev
                /\ pc' = "write"
                /\ result' = "none"
  /\ k' = 1
  /\ UNCHANGED <<scheme, area>>

-----------------------------------------------------------------------------
(* flash_prog_bootdev.  The flag is among the first bytes of an area, so it*)
(* may be there when the rest is not.                                      *)

TornCopy(a, f) == [env |-> Torn, flag |-> f, valid |-> FALSE]

\* An open, lseek, malloc or erase that fails: the area stays as it is.
WriteRefused(a) ==
  /\ pc = "write" /\ k = a
  /\ pc' = "idle" /\ result' = "error"
  /\ UNCHANGED <<scheme, area, mem, k, calls, source, target, prior>>

WriteBegin(a) ==
  /\ pc = "write" /\ k = a
  /\ \E f \in {Blank, mem[a].flag} : area' = [area EXCEPT ![a] = TornCopy(a, f)]
  /\ pc' = "writing"
  /\ UNCHANGED <<scheme, mem, k, calls, result, source, target, prior>>

\* Mutant: a write error in area 1 does not stop the call.
GoOn(a) == a = 1

Continues(a) == FALSE

WriteEnd(a) ==
  /\ pc = "writing" /\ k = a
  /\ \/ /\ area' = [area EXCEPT ![a] = mem[a]]
        /\ IF a = 1 THEN pc' = "write" /\ k' = 2 /\ UNCHANGED result
           ELSE pc' = "idle" /\ result' = "ok" /\ UNCHANGED k
     \/ /\ IF Continues(a) THEN pc' = "write" /\ k' = 2 ELSE pc' = "idle" /\ UNCHANGED k
        /\ result' = "error"
        /\ UNCHANGED area
  /\ UNCHANGED <<scheme, mem, calls, source, target, prior>>

PowerCut ==
  /\ pc # "idle"
  /\ pc' = "idle" /\ result' = "cut"
  /\ UNCHANGED <<scheme, area, mem, k, calls, source, target, prior>>

\* So that the bound on the calls is no deadlock.
Rest == pc = "idle" /\ calls = MaxCalls /\ UNCHANGED vars

Next ==
  \/ \E o \in Ops : Call(o)
  \/ \E a \in Area : WriteRefused(a) \/ WriteBegin(a) \/ WriteEnd(a)
  \/ PowerCut
  \/ Rest

Spec == Init /\ [][Next]_vars

-----------------------------------------------------------------------------
(* Properties *)

\* The copies of before the last call: what U-Boot would have selected, and
\* whether both were whole.
Before  == Selected(prior)
Healthy == \A a \in Area : Whole(prior[a])

\* A change that starts from two whole copies leaves a whole one for U-Boot
\* at every moment, also when writes fail or the power goes.
HealthyBoots == Healthy => Whole(area[Selected(area)])

\* On the AX3 a change that reports success is what U-Boot selects.
ChangeIsSelected ==
  result = "ok" /\ ~Serial => Selected(area) = target /\ area[target] = mem[target]

\* On the AX3 a change is atomic if area 2 was the active one, and shows the
\* spare copy for a while otherwise.
Kind == IF Serial THEN "loose" ELSE IF Before = 2 THEN "steady" ELSE "gap"

Register == INSTANCE EnvRegister WITH
  boots <- area[Selected(area)].env,
  old <- prior[Before].env, spare <- prior[Other(Before)].env, new <- mem[target].env,
  kind <- Kind, sound <- Healthy, busy <- pc # "idle", ok <- result = "ok"

\* Whatever fails or is cut off, U-Boot finds the old environment, the spare
\* or the new one as EnvRegister says: on the AX3 the new one stays once it
\* is there, and it is there when the tool reports success.
EnvironmentSurvives == Register!Spec

-----------------------------------------------------------------------------
(* What comments of flashcfg.c say, and does not hold. *)

\* `Invalid area1', `Invalid area2': an invalid area is not what the new
\* environment is made from as long as the other one is valid.
SourceIsValid ==
  [][ \A a \in Area :
        pc = "idle" /\ pc' # "idle" /\ area[a].valid => source'.valid ]_vars

=============================================================================
