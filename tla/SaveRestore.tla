----------------------------- MODULE SaveRestore -----------------------------
(***************************************************************************)
(* Saving settings on the eMMC models: `flashcfg -s' (save_direct_etc),    *)
(* `flashcfg -S' (save_direct_user), `flashcfg -e' and -E (delete), and    *)
(* the restore at the next boot (restore_func of openblocks-setup).        *)
(*                                                                         *)
(* The archives are written in place, over the ones they replace.  fs is   *)
(* what the running system sees of them, disk what is on the medium; the   *)
(* umount of the last mount brings the two together.  Results of mount and *)
(* umount are not looked at, nor is that of tar after its message: where   *)
(* another process uses the partition when flashcfg unmounts it, rm -rf of *)
(* the mount point removes the archives of both parts.                     *)
(***************************************************************************)
CONSTANTS
  Values,    \* settings a part can have
  Default    \* those of the ramdisk, when nothing is restored

ASSUME ValuesAssumption ==
  /\ Default \in Values
  /\ Values \cap {"none", "cut", "partial", "unknown"} = {}

Parts == {"etc", "user"}

\* "cut": a truncated archive; "partial": what is restored from one.
Settings == Values \cup {"partial"}
Content  == Settings \cup {"none", "cut"}

VARIABLES
  live,     \* the settings in RW_DIR
  fs,       \* etc.tgz and userland.tgz as the system sees them
  disk,     \* and as they are on the medium
  op,       \* "etc", "user" (both parts), "delete"
  part,     \* the part whose archive is next
  at,       \* what WORK_DIR is: the partition, or a directory in /tmp
  busy,     \* another process will use the partition when this call unmounts it
  leaked,   \* the partition has a mount that no running script will undo
  done,     \* parts for which the running script has printed "done"
  pc

vars == <<live, fs, disk, op, part, at, busy, leaked, done, pc>>

PC == {"idle", "mount", "tar", "tarring", "rm", "umount", "rmdir", "boot"}

\* Types of the running settings, of the saved copies in cache and on disk, and of the
\* save or delete call in progress.
TypeOK ==
  /\ live \in [Parts -> Settings]
  /\ fs \in [Parts -> Content] /\ disk \in [Parts -> Content]
  /\ op \in {"etc", "user", "delete"}
  /\ part \in Parts
  /\ at \in {"partition", "tmp"}
  /\ busy \in BOOLEAN /\ leaked \in BOOLEAN
  /\ done \subseteq Parts
  /\ pc \in PC

Init ==
  /\ live = [p \in Parts |-> Default]
  /\ fs = [p \in Parts |-> "none"] /\ disk = fs
  /\ op = "etc" /\ part = "etc" /\ at = "tmp"
  /\ busy = FALSE /\ leaked = FALSE /\ done = {} /\ pc = "idle"

\* The settings are not edited while flashcfg runs.
Edit(p) ==
  /\ pc = "idle"
  /\ \E v \in Values : live' = [live EXCEPT ![p] = v]
  /\ UNCHANGED <<fs, disk, op, part, at, busy, leaked, done, pc>>

-----------------------------------------------------------------------------
(* flashcfg *)

Call(o) ==
  /\ pc = "idle" /\ pc' = "mount"
  /\ op' = o /\ part' = IF o = "etc" THEN "etc" ELSE "user"
  /\ at' = "tmp" /\ done' = {} /\ busy' \in BOOLEAN
  /\ UNCHANGED <<live, fs, disk, leaked>>

Mount ==
  /\ pc = "mount"
  /\ at' \in {"partition", "tmp"}
  /\ pc' = IF op = "delete" THEN "rm" ELSE "tar"
  /\ UNCHANGED <<live, fs, disk, op, part, busy, leaked, done>>

Put(c) == fs' = IF at = "partition" THEN [fs EXCEPT ![part] = c] ELSE fs

\* tar opens and truncates the archive.
TarBegin ==
  /\ pc = "tar" /\ pc' = "tarring"
  /\ Put("cut")
  /\ UNCHANGED <<live, disk, op, part, at, busy, leaked, done>>

\* -S goes on with /etc, whatever came of the userland.
GoOn == IF part = "etc" THEN pc' = "umount" /\ UNCHANGED part
        ELSE pc' = "tar" /\ part' = "etc"

\* Mutant: "done" without a look at the result of tar.
AnyResult(ok) == TRUE

PrintsDone(ok) == ok

\* Without success the archive is cut, or whole but with a warning.
TarEnd ==
  /\ pc = "tarring"
  /\ \E ok \in BOOLEAN :
       /\ Put(live[part]) \/ (~ok /\ Put("cut"))
       /\ done' = IF PrintsDone(ok) THEN done \cup {part} ELSE done
  /\ GoOn
  /\ UNCHANGED <<live, disk, op, at, busy, leaked>>

\* The order of the two rm makes no difference here.
Remove ==
  /\ pc = "rm"
  /\ Put("none")
  /\ IF part = "etc" THEN pc' = "umount" /\ UNCHANGED part
     ELSE part' = "etc" /\ UNCHANGED pc
  /\ UNCHANGED <<live, disk, op, at, busy, leaked, done>>

\* Mutant: without umount, the next command finds the partition in WORK_DIR.
StillMounted == at

\* WORK_DIR after umount, which fails where the partition is busy.
AfterUmount == IF busy THEN at ELSE "tmp"

\* A deletion ends here, and leaves a busy partition mounted.
Umount ==
  /\ pc = "umount"
  /\ IF op = "delete"
       THEN /\ pc' = "idle" /\ at' = "tmp"
            /\ leaked' = (leaked \/ AfterUmount = "partition")
       ELSE pc' = "rmdir" /\ at' = AfterUmount /\ UNCHANGED leaked
  /\ disk' = IF at = "partition" /\ AfterUmount = "tmp" /\ ~leaked THEN fs ELSE disk
  /\ UNCHANGED <<live, fs, op, part, busy, done>>

\* rm -rf WORK_DIR, one file after the other; a mount point it cannot remove.
RemoveFile(p) ==
  /\ pc = "rmdir" /\ at = "partition" /\ fs[p] # "none"
  /\ fs' = [fs EXCEPT ![p] = "none"]
  /\ UNCHANGED <<live, disk, op, part, at, busy, leaked, done, pc>>

RemoveWorkDir ==
  /\ pc = "rmdir" /\ pc' = "idle"
  /\ at = "partition" => \A p \in Parts : fs[p] = "none"
  /\ at' = "tmp" /\ leaked' = (leaked \/ at = "partition")
  /\ UNCHANGED <<live, fs, disk, op, part, busy, done>>

Script ==
  \/ Mount \/ TarBegin \/ TarEnd \/ Remove \/ Umount
  \/ (\E p \in Parts : RemoveFile(p)) \/ RemoveWorkDir

\* SIGINT: the trap unmounts on the MTD models only.
Kill ==
  /\ pc \notin {"idle", "boot"} /\ pc' = "idle"
  /\ leaked' = (leaked \/ at = "partition")
  /\ at' = "tmp"
  /\ UNCHANGED <<live, fs, disk, op, part, busy, done>>

-----------------------------------------------------------------------------
(* The medium, and the next boot *)

WriteBack(p) ==
  /\ pc # "boot" /\ disk[p] # fs[p]
  /\ disk' \in {[disk EXCEPT ![p] = c] :
                  c \in IF fs[p] = "none" THEN {"none"} ELSE {"cut", fs[p]}}
  /\ UNCHANGED <<live, fs, op, part, at, busy, leaked, done, pc>>

Down(medium) ==
  /\ pc' = "boot"
  /\ fs' = medium /\ disk' = medium
  /\ at' = "tmp" /\ leaked' = FALSE /\ done' = {}
  /\ UNCHANGED <<live, op, part, busy>>

Shutdown == pc = "idle" /\ Down(fs)

PowerCut == pc # "boot" /\ Down(disk)

\* Mutant: a truncated archive is as good as any.
RawContent(c) == IF c = "none" THEN Default ELSE c

Restored(c) == IF c = "none" THEN Default ELSE IF c = "cut" THEN "partial" ELSE c

\* With noflashcfg=1, or if the read-only mount fails, nothing is restored.
Boot ==
  /\ pc = "boot" /\ pc' = "idle"
  /\ \/ live' = [p \in Parts |-> Restored(fs[p])]
     \/ live' = [p \in Parts |-> Default]
  /\ UNCHANGED <<fs, disk, op, part, at, busy, leaked, done>>

Next ==
  \/ \E p \in Parts : Edit(p) \/ WriteBack(p)
  \/ \E o \in {"etc", "user", "delete"} : Call(o)
  \/ Script \/ Kill \/ Shutdown \/ PowerCut \/ Boot

Spec == Init /\ [][Next]_vars

-----------------------------------------------------------------------------
(* Properties *)

\* What the next boot restores is known when the system and the medium agree
\* on a whole archive, or on none.
Known(p) == fs[p] = disk[p] /\ disk[p] # "cut"

Changing ==
  IF pc \in {"idle", "boot"} THEN {} ELSE IF op = "etc" THEN {"etc"} ELSE Parts

Store == INSTANCE SettingsStore WITH
  Values   <- Values,
  Default  <- Default,
  live     <- live,
  saved    <- [p \in Parts |-> IF Known(p) THEN Restored(disk[p]) ELSE "unknown"],
  changing <- Changing,
  busy     <- busy,
  up       <- pc # "boot"

\* The settings survive reboots and power cuts as SettingsStore says: what a
\* boot restores changes only by a save or deletion of the same part, or by one
\* whose umount found the partition busy.
SettingsSurvive == Store!Spec

\* Where flashcfg has printed "done", the settings in use are on the medium
\* when it has unmounted the partition, if it had mounted it, and alone.  (A
\* busy partition has its archives removed by the next command.)
DoneIsSaved ==
  [][ pc = "umount" /\ pc' = "rmdir" /\ at = "partition" /\ at' = "tmp" /\ ~leaked
        => \A p \in done : disk'[p] = live[p] /\ fs'[p] = live[p] ]_vars

=============================================================================
