--------------------------- MODULE FirmwareUpdate ---------------------------
(***************************************************************************)
(* `flashcfg -f directory': the firmware branch of files/flashcfg.sh for   *)
(* the eMMC models (obsbx1, obsvx1, obsix9, obshx* and, with Arm, obsa16,  *)
(* obsfx0, obsfx1, obsgx4, obsduo).  It checks the images of a package,    *)
(* mounts the firmware partition, removes the installed files, copies and  *)
(* verifies each image up to Tries times, and puts the release file last.  *)
(*                                                                         *)
(* The partition is seen twice: fs["emmc"] is what the running system      *)
(* reads back, disk is what is on the medium.  Write-back happens file by  *)
(* file, in any order, at any time while the partition is mounted; only    *)
(* the umount of its last mount forces it.  A run may be killed between    *)
(* any two steps, and the power may go at any time.                        *)
(***************************************************************************)
EXTENDS Naturals

CONSTANTS
  Versions,    \* firmware versions a package can carry
  Factory,     \* the version installed at the factory
  Tries,       \* attempts per image: {1..5} in the script
  Arm,         \* the branch of flashcfg.sh that is taken
  Md5Kinds     \* what may become of MD5.<model> in FIRM_FILE

ASSUME VersionsAssumption ==
  /\ Versions \cap {"none", "bad", "unchecked"} = {}
  /\ Factory \in Versions
ASSUME TriesAssumption == Tries \in Nat \ {0}
ASSUME ArmAssumption == Arm \in BOOLEAN
ASSUME Md5Assumption == Md5Kinds \subseteq {"listed", "unlisted", "absent"}

Images == {"kernel", "ramdisk"}
Files  == Images \cup {"release"}
Places == {"emmc", "tmp"}

\* "bad": truncated or corrupt; "unchecked": a release file whose package
\* came without an MD5 file, so that nothing vouches for its images.
Content == Versions \cup {"none", "bad", "unchecked"}

\* What FIRM_FILE may name: any directory, also one with a corrupt or a
\* missing image.  md5 says whether MD5.<model> is there and lists the images.
Package ==
  { p \in [ver : Versions, md5 : Md5Kinds,
           src : [Files -> Content]] :
      /\ \A f \in Images : p.src[f] \in {p.ver, "bad", "none"}
      /\ p.src["release"] \in
           {IF p.md5 = "listed" THEN p.ver ELSE "unchecked", "none"} }

Empty == [f \in Files |-> "none"]

NoPackage == [ver |-> Factory, md5 |-> "absent", src |-> Empty]

PC == {"idle", "check_ramdisk", "check_kernel", "mount",
       "rm_release", "rm_kernel", "rm_ramdisk",
       "copy", "copying", "verify", "release", "umount"}

VARIABLES
  pkg,     \* FIRM_FILE of the running script
  pc,      \* next command of the script
  at,      \* what WORK_DIR is: the partition, or a directory of /tmp
  obj,     \* image of the copy loop
  try,     \* $i of the copy loop
  fs,      \* files seen in the partition and in the unmounted WORK_DIR
  disk,    \* files on the medium of the partition
  leaked,  \* the partition has a mount that no running script will undo
  report,  \* how the last run ended
  promised,\* history: the images a successful run has put on the medium
  torn     \* history: a power cut lost writes and no update completed since

vars == <<pkg, pc, at, obj, try, fs, disk, leaked, report, promised, torn>>

\* Types of the control state, of both file systems and of what the script reported
\* to its caller (the variables of flashcfg.sh's package functions).
TypeOK ==
  /\ pkg \in Package \cup {NoPackage}
  /\ pc \in PC
  /\ at \in Places
  /\ obj \in Images
  /\ try \in 1 .. Tries
  /\ fs \in [Places -> [Files -> Content]]
  /\ disk \in [Files -> Content]
  /\ leaked \in BOOLEAN
  /\ report \in {"none", "ok", "broken", "retry_over", "killed"}
  /\ promised \in SUBSET (Images \X Content)
  /\ torn \in BOOLEAN

Init ==
  /\ pkg = NoPackage
  /\ pc = "idle" /\ at = "tmp" /\ obj = "ramdisk" /\ try = 1
  /\ disk = [f \in Files |-> Factory]
  /\ fs = [q \in Places |-> IF q = "emmc" THEN disk ELSE Empty]
  /\ leaked = FALSE /\ report = "none" /\ promised = {} /\ torn = FALSE

\* The MD5 an image must have: MD5_RET of _get_md5.
Ref(f) == IF pkg.md5 = "listed" THEN pkg.ver ELSE pkg.src[f]

\* The variables of the script, and its WORK_DIR, end with it.
ScriptEnds(emmc) ==
  /\ pc' = "idle" /\ at' = "tmp" /\ obj' = "ramdisk" /\ try' = 1
  /\ pkg' = NoPackage
  /\ fs' = [q \in Places |-> IF q = "emmc" THEN emmc ELSE Empty]

\* exit 1, or a deadly signal: nothing is unmounted, so the mount stays.
Exit(outcome) ==
  /\ ScriptEnds(fs["emmc"])
  /\ report' = outcome
  /\ leaked' = (leaked \/ at = "emmc")

-----------------------------------------------------------------------------
Start ==
  /\ pc = "idle"
  /\ pkg' \in Package
  /\ pc' = "check_ramdisk" /\ report' = "none" /\ promised' = {}
  /\ UNCHANGED <<at, obj, try, fs, disk, leaked, torn>>

\* Mutant: only the ramdisk is checked before the partition is touched.
RamdiskPasses(f) == f = "kernel" \/ pkg.src[f] \in {Ref(f), "none"}

\* [ "$MD5_RET" != $val ] with an empty $val is a syntax error of test(1),
\* hence false: a missing image passes the check.
Passes(f) == pkg.md5 # "unlisted" /\ pkg.src[f] \in {Ref(f), "none"}

CheckSource(f, here, next) ==
  /\ pc = here
  /\ \/ ~Passes(f) /\ Exit("broken")
     \/ /\ Passes(f)
        /\ pc' = next
        /\ UNCHANGED <<pkg, at, obj, try, fs, report, leaked>>
  /\ UNCHANGED <<disk, promised, torn>>

\* The result of mount is not looked at.
Mount ==
  /\ pc = "mount"
  /\ at' \in Places
  /\ pc' = "rm_release"
  /\ UNCHANGED <<pkg, obj, try, fs, disk, leaked, report, promised, torn>>

\* Mutant: the release file stays while the images are replaced.
SparesRelease(f) == f = "release" \/ (Arm /\ f = "kernel")

\* The ARM branch removes "bzImage" although its kernel is "Image".
Spares(f) == Arm /\ f = "kernel"

Remove(f, here, next) ==
  /\ pc = here
  /\ fs' = IF Spares(f) THEN fs ELSE [fs EXCEPT ![at][f] = "none"]
  /\ pc' = next
  /\ obj' = "ramdisk" /\ try' = 1
  /\ UNCHANGED <<pkg, at, disk, leaked, report, promised, torn>>

\* cp opens and truncates the target; without a source it does neither.
CopyBegin ==
  /\ pc = "copy"
  /\ fs' = IF pkg.src[obj] = "none" THEN fs ELSE [fs EXCEPT ![at][obj] = "bad"]
  /\ pc' = "copying"
  /\ UNCHANGED <<pkg, at, obj, try, disk, leaked, report, promised, torn>>

CopyEnd ==
  /\ pc = "copying"
  /\ \/ pkg.src[obj] # "none" /\ fs' = [fs EXCEPT ![at][obj] = pkg.src[obj]]
     \/ fs' = fs
  /\ pc' = "verify"
  /\ UNCHANGED <<pkg, at, obj, try, disk, leaked, report, promised, torn>>

\* Mutant: a copy counts as verified as soon as the file is there.
Present == fs[at][obj] # "none"

Verified == Ref(obj) # "none" /\ fs[at][obj] = Ref(obj)

\* Mutant: one attempt too many.
TriesLeftInclusive == try <= Tries

TriesLeft == try < Tries

\* Mutant: the loop counter does not move.
SameTry == try

NextTry == try + 1

\* The loop is left by break or by running out; `if [ $i == 5 ]' then takes
\* a success of the last attempt for a failure.
Verify ==
  /\ pc = "verify"
  /\ \/ /\ ~Verified /\ TriesLeft
        /\ pc' = "copy" /\ try' = NextTry
        /\ UNCHANGED <<pkg, at, obj, fs, leaked, report>>
     \/ /\ ~TriesLeft
        /\ Exit("retry_over")
     \/ /\ Verified /\ TriesLeft
        /\ pc' = IF obj = "ramdisk" THEN "copy" ELSE "release"
        /\ obj' = "kernel" /\ try' = 1
        /\ UNCHANGED <<pkg, at, fs, leaked, report>>
  /\ UNCHANGED <<disk, promised, torn>>

\* Neither the result nor the content of this copy is checked.
CopyRelease ==
  /\ pc = "release"
  /\ \/ pkg.src["release"] = "none" /\ fs' = fs
     \/ /\ pkg.src["release"] # "none"
        /\ \E c \in {pkg.src["release"], "bad"} :
              fs' = [fs EXCEPT ![at]["release"] = c]
  /\ pc' = "umount"
  /\ UNCHANGED <<pkg, at, obj, try, disk, leaked, report, promised, torn>>

\* umount and exit 0.  With mounts left by earlier runs nothing is forced
\* out; with WORK_DIR not mounted umount and rmdir both fail, unnoticed.
Umount ==
  /\ pc = "umount"
  /\ ScriptEnds(fs["emmc"])
  /\ report' = "ok"
  /\ \/ /\ at = "emmc" /\ ~leaked
        /\ disk' = fs["emmc"]
        /\ promised' = {<<f, Ref(f)>> : f \in Images}
     \/ /\ at = "tmp" \/ leaked
        /\ UNCHANGED <<disk, promised>>
  /\ torn' = (torn /\ at = "tmp")
  /\ UNCHANGED leaked

-----------------------------------------------------------------------------
Script ==
  \/ CheckSource("ramdisk", "check_ramdisk", "check_kernel")
  \/ CheckSource("kernel", "check_kernel", "mount")
  \/ Mount
  \/ Remove("release", "rm_release", "rm_kernel")
  \/ Remove("kernel", "rm_kernel", "rm_ramdisk")
  \/ Remove("ramdisk", "rm_ramdisk", "copy")
  \/ CopyBegin \/ CopyEnd \/ Verify \/ CopyRelease \/ Umount

\* SIGINT or SIGKILL: _umount_wrkdir does nothing for these models.
Kill ==
  /\ pc # "idle"
  /\ Exit("killed")
  /\ UNCHANGED <<disk, promised, torn>>

WriteBack(f) ==
  /\ disk[f] # fs["emmc"][f]
  /\ disk' = [disk EXCEPT ![f] = fs["emmc"][f]]
  /\ UNCHANGED <<pkg, pc, at, obj, try, fs, leaked, report, promised, torn>>

\* An orderly reboot between runs unmounts everything.
Reboot ==
  /\ pc = "idle"
  /\ disk' = fs["emmc"]
  /\ leaked' = FALSE
  /\ UNCHANGED <<pkg, pc, at, obj, try, fs, report, promised, torn>>

PowerCut ==
  /\ ScriptEnds(disk)
  /\ report' = IF pc = "idle" THEN report ELSE "killed"
  /\ leaked' = FALSE
  /\ torn' = (torn \/ fs["emmc"] # disk)
  /\ UNCHANGED <<disk, promised>>

Next ==
  \/ Start \/ Script \/ Kill \/ Reboot \/ PowerCut
  \/ \E f \in Files : WriteBack(f)

\* The shell keeps executing its commands, and each of them ends.
Spec == Init /\ [][Next]_vars /\ WF_vars(Script)

-----------------------------------------------------------------------------
(* Properties *)

\* As long as no power cut has torn the partition, its release file, which
\* is removed first and written last, names the version of both images.
ReleaseVouches ==
  (~torn /\ fs["emmc"]["release"] \in Versions)
    => \A f \in Images : fs["emmc"][f] = fs["emmc"]["release"]

\* A run that reports success and whose umount was the last one leaves the
\* verified images on the medium, where no later power cut can reach them.
OkIsDurable ==
  \A c \in promised : c[2] # "none" /\ disk[c[1]] = c[2] /\ fs["emmc"][c[1]] = c[2]

\* The installed firmware is not touched for a package with a corrupt image:
\* each image of the package matches its MD5 or is missing altogether.
CheckedBeforeTouched ==
  [][ fs'["emmc"] # fs["emmc"] /\ pc # "idle" /\ pc' # "idle"
        => \A f \in Images : pkg.src[f] \in {Ref(f), "none"} ]_vars

\* A run always ends, however often the copies fail.
RunEnds == pc # "idle" ~> pc = "idle"

-----------------------------------------------------------------------------
(* What the script's messages and usage say of it, and does not hold. *)

\* `is broken, write firmware failed' (flashcfg.sh:631): an image without
\* the right MD5 stops the run before the installed firmware is touched.
BrokenStopsRun ==
  [][ fs'["emmc"] # fs["emmc"] /\ pc # "idle" /\ pc' # "idle"
        => \A f \in Images : pkg.src[f] = Ref(f) /\ pkg.src[f] # "none" ]_vars

=============================================================================
