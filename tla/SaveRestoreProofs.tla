-------------------------- MODULE SaveRestoreProofs --------------------------
(***************************************************************************)
(* Proofs about SaveRestore for every set of settings: it implements       *)
(* SettingsStore, and where it prints "done" the settings are saved.       *)
(***************************************************************************)
EXTENDS SaveRestore, TLAPS

\* `flashcfg -s' works on /etc alone.
EtcOnly == (pc \notin {"idle", "boot"} /\ op = "etc") => part = "etc"

\* WORK_DIR is the partition only between mount and umount, or when it is
\* removed after an umount that found it busy.
OnPartition ==
  at = "partition" => \/ pc \in {"tar", "tarring", "rm", "umount"}
                      \/ pc = "rmdir" /\ busy

\* While tar writes an archive, what is there of it is cut.
CutMeanwhile == (pc = "tarring" /\ at = "partition") => fs[part] = "cut"

\* "done" is printed for the userland first, and for a part whose archive the
\* running script does not touch again.
DoneInOrder ==
  /\ pc \in {"mount", "rm"} => done = {}
  /\ pc \in {"tar", "tarring"} => done = {} \/ (part = "etc" /\ done = {"user"})

\* What was "done" is in the archive until the umount.
DoneIsArchived ==
  (pc \in {"tar", "tarring", "umount"} /\ at = "partition")
    => \A p \in done : fs[p] = live[p]

IInv ==
  /\ TypeOK
  /\ EtcOnly
  /\ OnPartition
  /\ CutMeanwhile
  /\ DoneInOrder
  /\ DoneIsArchived

-----------------------------------------------------------------------------
(* The archives. *)

\* An archive that is not cut restores settings; these are never "unknown".
LEMMA RestoredIsKnown ==
  ASSUME NEW c \in Content
  PROVE  Restored(c) \in Settings /\ Restored(c) # "unknown"
  BY ValuesAssumption DEF Restored, Content, Settings

\* Put keeps the type and all archives but one.
LEMMA PutOne ==
  ASSUME fs \in [Parts -> Content], part \in Parts,
         NEW c \in Content, Put(c)
  PROVE  /\ fs' \in [Parts -> Content]
         /\ \A p \in Parts : p # part => fs'[p] = fs[p]
         /\ at = "partition" => fs'[part] = c
         /\ at # "partition" => fs' = fs
  BY DEF Put

-----------------------------------------------------------------------------
(* The inductive invariant. *)

\* A machine with nothing saved satisfies the inductive invariant.
LEMMA InitIInv == Init => IInv
  BY ValuesAssumption
  DEF Init, IInv, TypeOK, EtcOnly, OnPartition, CutMeanwhile, DoneInOrder,
      DoneIsArchived, Parts, Settings, Content, PC

\* Every step of a save, a delete, a boot or a power cut keeps the inductive invariant.
LEMMA StepIInv == IInv /\ [Next]_vars => IInv'
<1> SUFFICES ASSUME IInv, [Next]_vars PROVE IInv'
  OBVIOUS
<1> USE DEF IInv, TypeOK, EtcOnly, OnPartition, CutMeanwhile, DoneInOrder,
            DoneIsArchived
<1>1. ASSUME NEW p \in Parts, Edit(p) PROVE IInv'
  BY <1>1 DEF Edit, Settings, PC
<1>2. ASSUME NEW p \in Parts, WriteBack(p) PROVE IInv'
  <2>1. disk' \in [Parts -> Content]
    BY <1>2 DEF WriteBack, Content
  <2> QED
    BY <1>2, <2>1 DEF WriteBack
<1>3. ASSUME NEW o \in {"etc", "user", "delete"}, Call(o) PROVE IInv'
  BY <1>3 DEF Call, Parts, PC
<1>4. CASE Mount
  BY <1>4 DEF Mount, PC
<1>5. CASE TarBegin
  <2>1. /\ Put("cut") /\ pc = "tar" /\ pc' = "tarring"
        /\ UNCHANGED <<live, disk, op, part, at, busy, leaked, done>>
    BY <1>5 DEF TarBegin
  <2>2. "cut" \in Content
    BY DEF Content
  <2> QED
    BY <2>1, <2>2, PutOne DEF Parts, PC
<1>6. CASE TarEnd
  <2>1. PICK ok \in BOOLEAN :
          /\ Put(live[part]) \/ (~ok /\ Put("cut"))
          /\ done' = IF ok THEN done \cup {part} ELSE done
    BY <1>6 DEF TarEnd, PrintsDone
  <2>2. PICK c \in {live[part], "cut"} : Put(c) /\ (ok => c = live[part])
    BY <2>1
  <2>3. c \in Content
    BY DEF Content
  <2>4. /\ fs' \in [Parts -> Content]
        /\ \A p \in Parts : p # part => fs'[p] = fs[p]
        /\ at = "partition" => fs'[part] = c
        /\ at # "partition" => fs' = fs
    BY <2>2, <2>3, PutOne
  <2>5. /\ pc = "tarring" /\ GoOn
        /\ UNCHANGED <<live, disk, op, at, busy, leaked>>
    BY <1>6 DEF TarEnd
  <2> QED
    BY <2>1, <2>2, <2>4, <2>5 DEF GoOn, Parts, PC
<1>7. CASE Remove
  <2>1. /\ Put("none") /\ pc = "rm" /\ pc' \in {"rm", "umount"}
        /\ part' \in {part, "etc"}
        /\ UNCHANGED <<live, disk, op, at, busy, leaked, done>>
    BY <1>7 DEF Remove
  <2>2. "none" \in Content
    BY DEF Content
  <2> QED
    BY <2>1, <2>2, PutOne DEF Parts, PC
<1>8. CASE Umount
  BY <1>8 DEF Umount, AfterUmount, PC
<1>9. CASE RemoveWorkDir
  BY <1>9 DEF RemoveWorkDir, PC
<1>10. CASE Kill
  BY <1>10 DEF Kill, PC
<1>11. CASE Shutdown \/ PowerCut
  BY <1>11 DEF Shutdown, PowerCut, Down, PC
<1>12. CASE Boot
  <2>1. live' \in [Parts -> Settings]
    BY <1>12, RestoredIsKnown, ValuesAssumption DEF Boot, Settings
  <2> QED
    BY <1>12, <2>1 DEF Boot, PC
<1>13. ASSUME NEW p \in Parts, RemoveFile(p) PROVE IInv'
  <2>1. fs' \in [Parts -> Content]
    BY <1>13 DEF RemoveFile, Content
  <2> QED
    BY <1>13, <2>1 DEF RemoveFile
<1>14. CASE UNCHANGED vars
  BY <1>14 DEF vars
<1> QED
  BY <1>1, <1>2, <1>3, <1>4, <1>5, <1>6, <1>7, <1>8, <1>9, <1>10, <1>11,
     <1>12, <1>13, <1>14 DEF Next, Script

\* The inductive invariant of flashcfg's save and delete, and of the restore at boot,
\* holds in every reachable state; the theorems below are read from it.
THEOREM Invariance == Spec => []IInv
  BY InitIInv, StepIInv, PTL DEF Spec

\* The settings, the archives and the state of the script always are of their
\* types: a boot restores settings, those of a cut archive included.
THEOREM TypeCorrect == Spec => []TypeOK
<1>1. IInv => TypeOK
  BY DEF IInv
<1> QED
  BY <1>1, Invariance, PTL

\* Where flashcfg prints "done" and has unmounted the partition, it has saved.
THEOREM DoneMeansSaved == Spec => DoneIsSaved
<1> DEFINE Saves ==
      pc = "umount" /\ pc' = "rmdir" /\ at = "partition" /\ at' = "tmp" /\ ~leaked
        => \A p \in done : disk'[p] = live[p] /\ fs'[p] = live[p]
<1>1. IInv /\ [Next]_vars => [Saves]_vars
  <2> SUFFICES ASSUME IInv, Next, pc = "umount", pc' = "rmdir",
                      at = "partition", at' = "tmp", ~leaked
               PROVE  \A p \in done : disk'[p] = live[p] /\ fs'[p] = live[p]
    OBVIOUS
  <2>1. Umount
    BY DEF Next, Edit, WriteBack, Call, Script, Mount, TarBegin, TarEnd,
           Remove, RemoveFile, RemoveWorkDir, Kill, Shutdown, PowerCut, Down, Boot
  <2>2. disk' = fs /\ fs' = fs
    BY <2>1 DEF Umount, AfterUmount
  <2> QED
    BY <2>2 DEF IInv, DoneIsArchived
<1> QED
  BY <1>1, Invariance, PTL DEF Spec, DoneIsSaved

-----------------------------------------------------------------------------
(* Every step is a step of SettingsStore, or SettingsStore does not see it. *)

Saved(p) == IF Known(p) THEN Restored(disk[p]) ELSE "unknown"

\* The initial states are initial states of the abstract store.
LEMMA InitIsStoreInit == Init => Store!Init
  BY DEF Init, Store!Init, Store!Parts, Changing, Known, Restored, Parts

\* What is known of a part stays known while the system and the medium are
\* only brought to what one of them has.
LEMMA SettleStep ==
  ASSUME \A p \in Parts : /\ fs'[p] \in {fs[p], disk[p]}
                          /\ Known(p) => disk'[p] = disk[p],
         Changing' \in {Changing, {}},
         (pc # "boot")' # (pc # "boot") => pc' = "boot",
         UNCHANGED <<live, busy>>
  PROVE  Store!Settle
<1>1. ASSUME NEW p \in Parts
      PROVE  Saved(p)' # Saved(p) => Saved(p) = "unknown"
  BY <1>1 DEF Saved, Known, Restored
<1>2. pc' = "boot" => Changing' = {}
  BY DEF Changing
<1> QED
  BY <1>1, <1>2 DEF Store!Settle, Store!Parts, Parts, Saved

\* A step that touches the archive of one part that the script may change, or
\* put at risk.
LEMMA ArchiveStep ==
  ASSUME IInv, pc \notin {"idle", "boot"}, pc' \notin {"idle", "boot"},
         NEW q \in Parts, q \in Changing \/ busy,
         \A p \in Parts : p # q => fs'[p] = fs[p],
         UNCHANGED <<live, disk, op, busy>>
  PROVE  [Store!Next]_(Store!vars)
<1>1. \A p \in Parts : p # q => Saved(p)' = Saved(p)
  BY DEF Saved, Known
<1>2. Changing' = Changing /\ (pc # "boot")' = (pc # "boot") /\ Changing # {}
  BY DEF Changing, Parts
<1>3. CASE Saved(q)' = "unknown"
  <2>1. [p \in Parts |-> Saved(p)']
          = [[p \in Parts |-> Saved(p)] EXCEPT ![q] = "unknown"]
    BY <1>1, <1>3
  <2>2. Store!Unsure(q)
    BY <2>1, <1>2 DEF Store!Unsure, Store!AtRisk, Store!Parts, Parts, Saved
  <2> QED
    BY <2>2 DEF Store!Next, Store!Parts, Parts
<1>4. CASE Saved(q)' # "unknown"
  <2>1. Known(q) => fs'[q] = fs[q]
    BY <1>4 DEF Saved, Known
  <2>2. ASSUME NEW p \in Parts
        PROVE  Saved(p)' # Saved(p) => Saved(p) = "unknown"
    BY <1>1, <2>1, <1>4 DEF Saved, Known
  <2>3. Store!Settle
    BY <2>2, <1>2 DEF Store!Settle, Store!Parts, Parts, Saved
  <2> QED
    BY <2>3 DEF Store!Next
<1> QED
  BY <1>3, <1>4

\* The script writes or removes the archive whose turn it is.
LEMMA PutStep ==
  ASSUME IInv, pc \notin {"idle", "boot"}, pc' \notin {"idle", "boot"},
         part \in Changing, NEW c \in Content, Put(c),
         UNCHANGED <<live, disk, op, busy>>
  PROVE  [Store!Next]_(Store!vars)
<1>1. part \in Parts /\ \A p \in Parts : p # part => fs'[p] = fs[p]
  BY PutOne DEF IInv, TypeOK
<1> QED
  BY <1>1, ArchiveStep

\* Every step is a step of the abstract store or leaves it unchanged.
LEMMA StoreStep == IInv /\ [Next]_vars => [Store!Next]_(Store!vars)
<1> SUFFICES ASSUME IInv, [Next]_vars PROVE [Store!Next]_(Store!vars)
  OBVIOUS
<1> USE DEF IInv, TypeOK, EtcOnly, OnPartition, CutMeanwhile
<1>1. ASSUME NEW p \in Parts, Edit(p) PROVE [Store!Next]_(Store!vars)
  <2>1. Store!Edit(p)
    BY <1>1 DEF Edit, Store!Edit, Store!Parts, Parts, Changing, Known, Restored
  <2> QED
    BY <2>1 DEF Store!Next, Store!Parts, Parts
<1>2. ASSUME NEW p \in Parts, WriteBack(p) PROVE [Store!Next]_(Store!vars)
  <2>1. /\ UNCHANGED <<live, fs, op, busy, pc>> /\ disk[p] # fs[p]
        /\ \A q \in Parts : q # p => disk'[q] = disk[q]
    BY <1>2 DEF WriteBack
  <2>2. Store!Settle
    BY <2>1, SettleStep DEF Known, Changing
  <2> QED
    BY <2>2 DEF Store!Next
<1>3. ASSUME NEW o \in {"etc", "user", "delete"}, Call(o)
      PROVE  [Store!Next]_(Store!vars)
  <2>1. Store!Call
    BY <1>3 DEF Call, Store!Call, Store!Parts, Parts, Changing, Known, Restored
  <2> QED
    BY <2>1 DEF Store!Next
<1>4. CASE Mount
  <2>1. UNCHANGED Store!vars
    BY <1>4 DEF Mount, Store!vars, Changing, Known, Restored
  <2> QED
    BY <2>1
<1>5. CASE TarBegin
  <2>1. "cut" \in Content /\ part \in Changing
    BY <1>5 DEF TarBegin, Content, Changing, Parts
  <2> QED
    BY <1>5, <2>1, PutStep DEF TarBegin
<1>6. CASE TarEnd
  <2>1. PICK c \in {live[part], "cut"} : Put(c)
    BY <1>6 DEF TarEnd
  <2>2. c \in Content /\ part \in Changing
    BY <1>6 DEF TarEnd, Content, Changing, Parts
  <2>3. /\ pc \notin {"idle", "boot"} /\ pc' \notin {"idle", "boot"}
        /\ UNCHANGED <<live, disk, op, busy>>
    BY <1>6 DEF TarEnd, GoOn
  <2> QED
    BY <2>1, <2>2, <2>3, PutStep
<1>7. CASE Remove
  <2>1. "none" \in Content /\ part \in Changing /\ Put("none")
    BY <1>7 DEF Remove, Content, Changing, Parts
  <2>2. /\ pc \notin {"idle", "boot"} /\ pc' \notin {"idle", "boot"}
        /\ UNCHANGED <<live, disk, op, busy>>
    BY <1>7 DEF Remove
  <2> QED
    BY <2>1, <2>2, PutStep
<1>8. CASE Umount
  <2>1. UNCHANGED <<live, fs, op>> /\ disk' \in {fs, disk}
    BY <1>8 DEF Umount
  <2>2. Store!Settle
    BY <1>8, <2>1, SettleStep DEF Umount, Known, Changing
  <2> QED
    BY <2>2 DEF Store!Next
<1>9. CASE RemoveWorkDir
  <2>1. Store!Settle
    BY <1>9, SettleStep DEF RemoveWorkDir, Changing
  <2> QED
    BY <2>1 DEF Store!Next
<1>10. CASE Kill
  <2>1. Store!Settle
    BY <1>10, SettleStep DEF Kill, Changing
  <2> QED
    BY <2>1 DEF Store!Next
<1>11. CASE Shutdown \/ PowerCut
  <2>1. PICK medium \in {fs, disk} : Down(medium)
    BY <1>11 DEF Shutdown, PowerCut
  <2>2. Store!Settle
    BY <2>1, SettleStep DEF Down, Known, Changing
  <2> QED
    BY <2>2 DEF Store!Next
<1>12. CASE Boot
  <2>1. Store!Boot
    BY <1>12 DEF Boot, Store!Boot, Store!Parts, Parts, Changing, Known, Restored
  <2> QED
    BY <2>1 DEF Store!Next
<1>13. ASSUME NEW p \in Parts, RemoveFile(p) PROVE [Store!Next]_(Store!vars)
  <2>1. busy /\ \A q \in Parts : q # p => fs'[q] = fs[q]
    BY <1>13 DEF RemoveFile
  <2> QED
    BY <1>13, <2>1, ArchiveStep DEF RemoveFile
<1>14. CASE UNCHANGED vars
  <2>1. UNCHANGED Store!vars
    BY <1>14 DEF vars, Store!vars, Changing, Known, Restored
  <2> QED
    BY <2>1
<1> QED
  BY <1>1, <1>2, <1>3, <1>4, <1>5, <1>6, <1>7, <1>8, <1>9, <1>10, <1>11,
     <1>12, <1>13, <1>14 DEF Next, Script

\* SaveRestore implements SettingsStore: what the next boot restores is known
\* except where a call of flashcfg for that very part was interrupted, or a call
\* for any part could not unmount the partition and removed what is on it.
THEOREM Refinement == Spec => SettingsSurvive
  BY InitIsStoreInit, StoreStep, Invariance, PTL
  DEF Spec, SettingsSurvive, Store!Spec
=============================================================================
