------------------------ MODULE FirmwareUpdateProofs ------------------------
(***************************************************************************)
(* Proofs about FirmwareUpdate for every set of versions, every number of  *)
(* attempts and both branches of the script.                               *)
(***************************************************************************)
EXTENDS FirmwareUpdate, TLAPS

Touching == {"rm_kernel", "rm_ramdisk", "copy", "copying", "verify", "release"}
Copying  == {"copy", "copying", "verify"}

\* WORK_DIR is the partition only between mount and the end of the script.
NotMountedYet ==
  pc \in {"idle", "check_ramdisk", "check_kernel", "mount"} => at = "tmp"

\* From its removal to its copy there is no release file.
NoReleaseMeanwhile ==
  (pc \in Touching /\ at = "emmc") => fs["emmc"]["release"] = "none"

Installed(f) == Ref(f) # "none" /\ fs[at][f] = Ref(f)

\* The ramdisk is in place while the kernel is copied, both are afterwards.
ImagesInOrder ==
  /\ (pc \in Copying /\ obj = "kernel") => Installed("ramdisk")
  /\ pc \in {"release", "umount"} => Installed("ramdisk") /\ Installed("kernel")

\* Before the umount the release file vouches even for a torn partition.
VouchesAtUmount ==
  (pc = "umount" /\ at = "emmc" /\ fs["emmc"]["release"] \in Versions)
    => \A f \in Images : fs["emmc"][f] = fs["emmc"]["release"]

PromisedWhenIdle == promised # {} => pc = "idle"

IInv ==
  /\ TypeOK
  /\ NotMountedYet
  /\ NoReleaseMeanwhile
  /\ ImagesInOrder
  /\ VouchesAtUmount
  /\ PromisedWhenIdle
  /\ ReleaseVouches
  /\ OkIsDurable

-----------------------------------------------------------------------------
(* Facts about packages. *)

\* What is compared with the MD5 of a copy is a version, "bad" or "none"; a
\* release file that names a version comes with that version's MD5 file.
LEMMA PackageFacts ==
  ASSUME pkg \in Package \cup {NoPackage}
  PROVE  /\ \A f \in Images : Ref(f) \in Content
         /\ \A f \in Files : pkg.src[f] \in Content
         /\ pkg.src["release"] \in Versions
              => \A f \in Images : Ref(f) = pkg.src["release"]
  BY VersionsAssumption
  DEF Package, NoPackage, Empty, Ref, Content, Images, Files

\* The two places a script that ends leaves behind.
LEMMA EndedType ==
  ASSUME NEW emmc \in [Files -> Content]
  PROVE  LET g == [q \in Places |-> IF q = "emmc" THEN emmc ELSE Empty]
         IN  g \in [Places -> [Files -> Content]] /\ g["emmc"] = emmc
<1>1. Empty \in [Files -> Content]
  BY DEF Empty, Content
<1> QED
  BY <1>1 DEF Places

\* The machine as delivered, with no package given, satisfies the inductive invariant.
LEMMA InitInvariant == Init => IInv
<1> SUFFICES ASSUME Init PROVE IInv
  OBVIOUS
<1>1. disk \in [Files -> Content]
  BY VersionsAssumption DEF Init, Content
<1>2. fs \in [Places -> [Files -> Content]] /\ fs["emmc"] = disk
  BY <1>1, EndedType DEF Init
<1>3. pkg \in Package \cup {NoPackage} /\ try \in 1 .. Tries
  BY TriesAssumption DEF Init
<1>4. TypeOK
  BY <1>1, <1>2, <1>3 DEF Init, TypeOK, PC, Places, Images
<1>5. NotMountedYet /\ NoReleaseMeanwhile /\ ImagesInOrder /\ VouchesAtUmount
      /\ PromisedWhenIdle /\ OkIsDurable
  BY DEF Init, NotMountedYet, NoReleaseMeanwhile, ImagesInOrder, Touching,
         Copying, VouchesAtUmount, PromisedWhenIdle, OkIsDurable
<1>6. ReleaseVouches
  BY <1>2 DEF Init, ReleaseVouches, Files, Images
<1> QED
  BY <1>4, <1>5, <1>6 DEF IInv

\* Every end of the script: no conjunct of the invariant but the three about
\* the partition and the promises depends on more than the idle state.
LEMMA EndInvariant ==
  ASSUME TypeOK, NEW emmc \in [Files -> Content], ScriptEnds(emmc)
  PROVE  /\ pkg' \in Package \cup {NoPackage} /\ pc' = "idle" /\ pc' \in PC
         /\ at' \in Places /\ obj' \in Images /\ try' \in 1 .. Tries
         /\ fs' \in [Places -> [Files -> Content]] /\ fs'["emmc"] = emmc
         /\ NotMountedYet' /\ NoReleaseMeanwhile' /\ ImagesInOrder'
         /\ VouchesAtUmount' /\ PromisedWhenIdle'
<1>1. fs' \in [Places -> [Files -> Content]] /\ fs'["emmc"] = emmc
  BY EndedType DEF ScriptEnds
<1>2. pc' = "idle" /\ at' = "tmp" /\ obj' = "ramdisk" /\ try' = 1
      /\ pkg' = NoPackage
  BY DEF ScriptEnds
<1>3. NotMountedYet' /\ NoReleaseMeanwhile' /\ ImagesInOrder'
         /\ VouchesAtUmount' /\ PromisedWhenIdle'
  BY <1>2 DEF NotMountedYet, NoReleaseMeanwhile, ImagesInOrder, Touching,
         Copying, VouchesAtUmount, PromisedWhenIdle
<1>4. 1 \in 1 .. Tries
  BY TriesAssumption
<1> QED
  BY <1>1, <1>2, <1>3, <1>4 DEF PC, Places, Images

\* exit 1 and signals change neither the partition nor the promises.
LEMMA ExitInvariant ==
  ASSUME IInv, NEW r \in {"broken", "retry_over", "killed"}, Exit(r),
         UNCHANGED <<disk, promised, torn>>
  PROVE  IInv'
<1>1. TypeOK /\ fs["emmc"] \in [Files -> Content]
  BY DEF IInv, TypeOK, Places
<1>2. ScriptEnds(fs["emmc"])
  BY DEF Exit
<1>3. TypeOK'
  BY <1>1, <1>2, EndInvariant DEF TypeOK, Exit
<1>4. ReleaseVouches' /\ OkIsDurable'
  BY <1>1, <1>2, EndInvariant DEF IInv, ReleaseVouches, OkIsDurable
<1> QED
  BY <1>1, <1>2, <1>3, <1>4, EndInvariant DEF IInv

\* The steps that change neither the partition nor the end of the script.
LEMMA CheckInvariant ==
  ASSUME IInv,
         CheckSource("ramdisk", "check_ramdisk", "check_kernel")
           \/ CheckSource("kernel", "check_kernel", "mount")
  PROVE  IInv'
<1>1. CASE Exit("broken") /\ UNCHANGED <<disk, promised, torn>>
  BY <1>1, ExitInvariant
<1>2. CASE /\ pc \in {"check_ramdisk", "check_kernel"}
           /\ pc' \in {"check_kernel", "mount"}
           /\ UNCHANGED <<pkg, at, obj, try, fs, report, leaked>>
           /\ UNCHANGED <<disk, promised, torn>>
  BY <1>2 DEF IInv, TypeOK, PC, NotMountedYet, NoReleaseMeanwhile,
     ImagesInOrder, Touching, Copying, VouchesAtUmount, PromisedWhenIdle,
     ReleaseVouches, OkIsDurable
<1> QED
  BY <1>1, <1>2 DEF CheckSource

\* Calling the script keeps the inductive invariant.
LEMMA StartInvariant == IInv /\ Start => IInv'
  BY DEF IInv, Start, TypeOK, PC, NotMountedYet, NoReleaseMeanwhile,
     ImagesInOrder, Touching, Copying, VouchesAtUmount, PromisedWhenIdle,
     ReleaseVouches, OkIsDurable

\* Mounting the partition keeps it, a failed mount included.
LEMMA MountInvariant == IInv /\ Mount => IInv'
  BY DEF IInv, Mount, TypeOK, PC, NotMountedYet, NoReleaseMeanwhile,
     ImagesInOrder, Touching, Copying, VouchesAtUmount, PromisedWhenIdle,
     ReleaseVouches, OkIsDurable

-----------------------------------------------------------------------------
(* The steps that write a file. *)

\* Writing one file of WORK_DIR.
LEMMA WriteOneFile ==
  ASSUME TypeOK, NEW f \in Files, NEW c \in Content,
         fs' = [fs EXCEPT ![at][f] = c]
  PROVE  /\ fs' \in [Places -> [Files -> Content]]
         /\ fs'[at][f] = c
         /\ \A g \in Files \ {f} : fs'[at][g] = fs[at][g]
         /\ at = "tmp" => fs'["emmc"] = fs["emmc"]
  BY DEF TypeOK, Places

\* Removing an old file before a copy keeps it, whichever file and place in the script.
LEMMA RemoveInvariant ==
  ASSUME IInv,
         NEW f \in Files, NEW here \in PC, NEW next \in PC,
         Remove(f, here, next),
         <<f, here, next>> \in {<<"release", "rm_release", "rm_kernel">>,
                                <<"kernel", "rm_kernel", "rm_ramdisk">>,
                                <<"ramdisk", "rm_ramdisk", "copy">>}
  PROVE  IInv'
<1>1. TypeOK /\ "none" \in Content
  BY DEF IInv, Content
<1>2. /\ pc = here /\ pc' = next /\ obj' = "ramdisk" /\ try' = 1
      /\ UNCHANGED <<pkg, at, disk, leaked, report, promised, torn>>
  BY DEF Remove
<1>3. promised = {}
  BY <1>2 DEF IInv, PromisedWhenIdle
<1>4. /\ fs' \in [Places -> [Files -> Content]]
      /\ at = "tmp" => fs'["emmc"] = fs["emmc"]
      /\ fs[at]["release"] = "none" => fs'[at]["release"] = "none"
      /\ f = "release" => fs'[at]["release"] = "none"
  <2>1. CASE Spares(f)
    BY <1>1, <2>1 DEF Remove, Spares, TypeOK
  <2>2. CASE ~Spares(f)
    <3>1. fs' = [fs EXCEPT ![at][f] = "none"]
      BY <2>2 DEF Remove
    <3> QED
      BY <1>1, <3>1, WriteOneFile DEF Files
  <2> QED
    BY <2>1, <2>2
<1>5. TypeOK'
  BY <1>1, <1>2, <1>4, TriesAssumption DEF TypeOK, Images
<1>6. NoReleaseMeanwhile'
  BY <1>2, <1>4 DEF IInv, NoReleaseMeanwhile, Touching
<1>7. ReleaseVouches'
  <2>1. CASE at = "tmp"
    BY <1>2, <1>4, <2>1 DEF IInv, ReleaseVouches
  <2>2. CASE at = "emmc"
    BY <1>2, <1>6, <2>2, VersionsAssumption
    DEF NoReleaseMeanwhile, Touching, ReleaseVouches
  <2> QED
    BY <1>1, <2>1, <2>2 DEF TypeOK, Places
<1>8. NotMountedYet' /\ ImagesInOrder' /\ VouchesAtUmount' /\ PromisedWhenIdle'
      /\ OkIsDurable'
  BY <1>2, <1>3 DEF IInv, NotMountedYet, ImagesInOrder, Copying,
     VouchesAtUmount, PromisedWhenIdle, OkIsDurable
<1> QED
  BY <1>5, <1>6, <1>7, <1>8 DEF IInv

\* A copy changes one image, and only when no release file is there.
LEMMA CopyInvariant ==
  ASSUME IInv, CopyBegin \/ CopyEnd
  PROVE  IInv'
<1>1. TypeOK /\ pkg.src[obj] \in Content /\ "bad" \in Content /\ obj \in Files
  BY PackageFacts DEF IInv, TypeOK, Files, Content
<1>2. /\ pc \in {"copy", "copying"} /\ pc' \in {"copying", "verify"}
      /\ UNCHANGED <<pkg, at, obj, try, disk, leaked, report, promised, torn>>
      /\ \/ fs' = fs
         \/ \E c \in Content : fs' = [fs EXCEPT ![at][obj] = c]
  BY <1>1 DEF CopyBegin, CopyEnd
<1>3. promised = {}
  BY <1>2 DEF IInv, PromisedWhenIdle
<1>4. /\ fs' \in [Places -> [Files -> Content]]
      /\ at = "tmp" => fs'["emmc"] = fs["emmc"]
      /\ \A g \in Files \ {obj} : fs'[at][g] = fs[at][g]
  <2>1. CASE fs' = fs
    BY <1>1, <2>1 DEF TypeOK
  <2>2. ASSUME NEW c \in Content, fs' = [fs EXCEPT ![at][obj] = c]
        PROVE  <1>4!1 /\ <1>4!2 /\ <1>4!3
    BY <1>1, <2>2, WriteOneFile
  <2> QED
    BY <1>2, <2>1, <2>2
<1>5. TypeOK'
  BY <1>1, <1>2, <1>4 DEF TypeOK, PC
<1>6. NoReleaseMeanwhile'
  BY <1>1, <1>2, <1>4
  DEF IInv, TypeOK, NoReleaseMeanwhile, Touching, Images, Files
<1>7. ReleaseVouches'
  <2>1. CASE at = "tmp"
    BY <1>2, <1>4, <2>1 DEF IInv, ReleaseVouches
  <2>2. CASE at = "emmc"
    BY <1>2, <1>6, <2>2, VersionsAssumption
    DEF NoReleaseMeanwhile, Touching, ReleaseVouches
  <2> QED
    BY <1>1, <2>1, <2>2 DEF TypeOK, Places
<1>8. ImagesInOrder'
  <2>1. \A f \in Images : Ref(f)' = Ref(f)
    BY <1>2 DEF Ref
  <2>2. obj = "kernel" => Installed("ramdisk") /\ fs'[at]["ramdisk"] = fs[at]["ramdisk"]
    BY <1>2, <1>4 DEF IInv, ImagesInOrder, Copying, Images, Files
  <2> QED
    BY <1>2, <2>1, <2>2 DEF ImagesInOrder, Installed, Images
<1>9. NotMountedYet' /\ VouchesAtUmount' /\ PromisedWhenIdle' /\ OkIsDurable'
  BY <1>2, <1>3 DEF IInv, NotMountedYet, VouchesAtUmount, PromisedWhenIdle,
     OkIsDurable
<1> QED
  BY <1>5, <1>6, <1>7, <1>8, <1>9 DEF IInv

\* Comparing the checksums keeps it: the script reports, retries or gives up.
LEMMA VerifyInvariant ==
  ASSUME IInv, Verify
  PROVE  IInv'
<1>1. TypeOK
  BY DEF IInv
<1>2. CASE Exit("retry_over") /\ UNCHANGED <<disk, promised, torn>>
  BY <1>2, ExitInvariant
<1>3. CASE /\ pc = "verify" /\ UNCHANGED <<pkg, at, fs, leaked, report>>
           /\ UNCHANGED <<disk, promised, torn>>
           /\ \/ pc' = "copy" /\ try' = try + 1 /\ try < Tries /\ obj' = obj
              \/ /\ Verified /\ obj' = "kernel" /\ try' = 1
                 /\ pc' = IF obj = "ramdisk" THEN "copy" ELSE "release"
  <2>1. TypeOK'
    BY <1>1, <1>3, TriesAssumption DEF TypeOK, PC, Images
  <2>2. NoReleaseMeanwhile' /\ NotMountedYet' /\ VouchesAtUmount'
        /\ PromisedWhenIdle' /\ ReleaseVouches' /\ OkIsDurable'
    BY <1>3 DEF IInv, NoReleaseMeanwhile, NotMountedYet, Touching,
       VouchesAtUmount, PromisedWhenIdle, ReleaseVouches, OkIsDurable
  <2>3. \A f \in Images : Installed(f)' = Installed(f)
    BY <1>3 DEF Installed, Ref
  <2>4. Verified => Installed(obj)
    BY DEF Verified, Installed
  <2>5. obj = "kernel" => Installed("ramdisk")
    BY <1>3 DEF IInv, ImagesInOrder, Copying
  <2>6. ImagesInOrder'
    BY <1>1, <1>3, <2>3, <2>4, <2>5 DEF ImagesInOrder, TypeOK, Images, Copying
  <2> QED
    BY <2>1, <2>2, <2>6 DEF IInv
<1> QED
  BY <1>2, <1>3 DEF Verify, TriesLeft, NextTry

\* The release file appears only over two installed images of its version.
LEMMA CopyReleaseInvariant ==
  ASSUME IInv, CopyRelease
  PROVE  IInv'
<1>1. /\ TypeOK /\ "bad" \in Content /\ pkg.src["release"] \in Content
      /\ "release" \in Files /\ "bad" \notin Versions
  BY PackageFacts, VersionsAssumption DEF IInv, TypeOK, Content, Files
<1>2. /\ pc = "release" /\ pc' = "umount"
      /\ UNCHANGED <<pkg, at, obj, try, disk, leaked, report, promised, torn>>
  BY DEF CopyRelease
<1>3. promised = {}
  BY <1>2 DEF IInv, PromisedWhenIdle
<1>4. /\ fs' \in [Places -> [Files -> Content]]
      /\ at = "tmp" => fs'["emmc"] = fs["emmc"]
      /\ \A g \in Images : fs'[at][g] = fs[at][g]
      /\ fs'[at]["release"] \in {fs[at]["release"], pkg.src["release"], "bad"}
  <2>1. CASE fs' = fs
    BY <1>1, <2>1 DEF TypeOK
  <2>2. ASSUME NEW c \in {pkg.src["release"], "bad"},
               fs' = [fs EXCEPT ![at]["release"] = c]
        PROVE  <1>4!1 /\ <1>4!2 /\ <1>4!3 /\ <1>4!4
    BY <1>1, <2>2, WriteOneFile DEF Files, Images
  <2> QED
    BY <2>1, <2>2 DEF CopyRelease
<1>5. TypeOK'
  BY <1>1, <1>2, <1>4 DEF TypeOK, PC
<1>6. \A f \in Images : Installed(f) /\ Ref(f)' = Ref(f)
  BY <1>2 DEF IInv, ImagesInOrder, Images, Ref
<1>7. ImagesInOrder'
  BY <1>2, <1>4, <1>6 DEF ImagesInOrder, Installed, Copying, Images
<1>8. VouchesAtUmount'
  <2> SUFFICES ASSUME at = "emmc", fs'["emmc"]["release"] \in Versions
               PROVE  \A f \in Images : fs'["emmc"][f] = fs'["emmc"]["release"]
    BY <1>2 DEF VouchesAtUmount
  <2>1. fs["emmc"]["release"] = "none"
    BY <1>2 DEF IInv, NoReleaseMeanwhile, Touching
  <2>2. fs'["emmc"]["release"] = pkg.src["release"]
    BY <1>1, <1>4, <2>1, VersionsAssumption
  <2>3. \A f \in Images : Ref(f) = pkg.src["release"]
    BY <1>1, <2>2, PackageFacts DEF TypeOK
  <2> QED
    BY <1>4, <1>6, <2>2, <2>3 DEF Installed
<1>9. ReleaseVouches'
  <2>1. CASE at = "tmp"
    BY <1>2, <1>4, <2>1 DEF IInv, ReleaseVouches
  <2>2. CASE at = "emmc"
    BY <1>2, <1>8, <2>2 DEF VouchesAtUmount, ReleaseVouches
  <2> QED
    BY <1>1, <2>1, <2>2 DEF TypeOK, Places
<1>10. NotMountedYet' /\ NoReleaseMeanwhile' /\ PromisedWhenIdle' /\ OkIsDurable'
  BY <1>2, <1>3 DEF IInv, NotMountedYet, NoReleaseMeanwhile, Touching,
     PromisedWhenIdle, OkIsDurable
<1> QED
  BY <1>5, <1>7, <1>8, <1>9, <1>10 DEF IInv

-----------------------------------------------------------------------------
(* The end of a successful run, and what happens around the runs. *)

\* Unmounting, which makes what was copied durable, keeps it.
LEMMA UmountInvariant ==
  ASSUME IInv, Umount
  PROVE  IInv'
<1>1. /\ TypeOK /\ fs["emmc"] \in [Files -> Content]
      /\ \A f \in Images : Ref(f) \in Content
  BY PackageFacts DEF IInv, TypeOK, Places
<1>2. pc = "umount" /\ ScriptEnds(fs["emmc"]) /\ promised = {}
  BY DEF Umount, IInv, PromisedWhenIdle
<1>3. fs'["emmc"] = fs["emmc"]
  BY <1>1, <1>2, EndInvariant
<1>4. \A f \in Images : Installed(f)
  BY <1>2 DEF IInv, ImagesInOrder, Images
<1>5. TypeOK'
  <2>1. disk' \in [Files -> Content] /\ promised' \in SUBSET (Images \X Content)
        /\ torn' \in BOOLEAN
    BY <1>1 DEF Umount, TypeOK
  <2> QED
    BY <1>1, <1>2, <2>1, EndInvariant DEF TypeOK, Umount
<1>6. ReleaseVouches'
  <2>1. CASE at = "tmp"
    BY <1>3, <2>1 DEF IInv, ReleaseVouches, Umount
  <2>2. CASE at = "emmc"
    BY <1>2, <1>3, <2>2 DEF IInv, VouchesAtUmount, ReleaseVouches
  <2> QED
    BY <1>1, <2>1, <2>2 DEF TypeOK, Places
<1>7. OkIsDurable'
  <2>1. CASE at = "emmc" /\ ~leaked
    BY <1>3, <1>4, <2>1 DEF Umount, OkIsDurable, Installed
  <2>2. CASE at = "tmp" \/ leaked
    BY <1>2, <1>1, <2>2 DEF Umount, OkIsDurable, TypeOK, Places
  <2> QED
    BY <1>1, <2>1, <2>2 DEF TypeOK, Places
<1> QED
  BY <1>1, <1>2, <1>5, <1>6, <1>7, EndInvariant DEF IInv, PromisedWhenIdle

\* A promised image is the same in the partition and on the medium, so that
\* neither write-back nor a power cut can move it.
LEMMA EnvironmentInvariant ==
  ASSUME IInv, Reboot \/ PowerCut \/ \E f \in Files : WriteBack(f)
  PROVE  IInv'
<1>1. /\ TypeOK /\ fs["emmc"] \in [Files -> Content]
      /\ disk \in [Files -> Content] /\ Images \subseteq Files
      /\ promised \subseteq Images \X Content
  BY DEF IInv, TypeOK, Places, Files
<1>2. CASE Reboot
  <2>1. TypeOK'
    BY <1>1, <1>2 DEF Reboot, TypeOK
  <2>2. OkIsDurable'
    BY <1>2 DEF Reboot, IInv, OkIsDurable
  <2>3. ImagesInOrder'
    BY <1>2 DEF Reboot, ImagesInOrder, Copying
  <2> QED
    BY <1>2, <2>1, <2>2, <2>3 DEF Reboot, IInv, NotMountedYet,
       NoReleaseMeanwhile, VouchesAtUmount, PromisedWhenIdle, ReleaseVouches
<1>3. ASSUME NEW f \in Files, WriteBack(f)
      PROVE  IInv'
  <2>1. TypeOK'
    BY <1>1, <1>3 DEF WriteBack, TypeOK
  <2>2. OkIsDurable'
    BY <1>1, <1>3 DEF WriteBack, IInv, OkIsDurable
  <2>3. ImagesInOrder'
    BY <1>3 DEF WriteBack, IInv, ImagesInOrder, Copying, Installed, Ref
  <2> QED
    BY <1>3, <2>1, <2>2, <2>3 DEF WriteBack, IInv, NotMountedYet,
       NoReleaseMeanwhile, VouchesAtUmount, PromisedWhenIdle, ReleaseVouches
<1>4. CASE PowerCut
  <2>1. ScriptEnds(disk)
    BY <1>4 DEF PowerCut
  <2>2. fs'["emmc"] = disk
    BY <1>1, <2>1, EndInvariant
  <2>3. TypeOK'
    BY <1>1, <1>4, <2>1, EndInvariant DEF PowerCut, TypeOK
  <2>4. OkIsDurable'
    BY <1>4, <2>2 DEF PowerCut, IInv, OkIsDurable
  <2>5. ReleaseVouches'
    BY <1>1, <1>4, <2>2 DEF PowerCut, IInv, TypeOK, ReleaseVouches
  <2> QED
    BY <1>1, <2>1, <2>3, <2>4, <2>5, EndInvariant DEF IInv
<1> QED
  BY <1>2, <1>3, <1>4

\* One case per action: every step of the system keeps the inductive invariant.
LEMMA NextInvariant == IInv /\ [Next]_vars => IInv'
<1> SUFFICES ASSUME IInv, [Next]_vars PROVE IInv'
  OBVIOUS
<1>1. CASE Start
  BY <1>1, StartInvariant
<1>2. CASE CheckSource("ramdisk", "check_ramdisk", "check_kernel")
           \/ CheckSource("kernel", "check_kernel", "mount")
  BY <1>2, CheckInvariant
<1>3. CASE Mount
  BY <1>3, MountInvariant
<1>4. CASE Remove("release", "rm_release", "rm_kernel")
  BY <1>4, RemoveInvariant DEF Files, PC
<1>5. CASE Remove("kernel", "rm_kernel", "rm_ramdisk")
  BY <1>5, RemoveInvariant DEF Files, Images, PC
<1>6. CASE Remove("ramdisk", "rm_ramdisk", "copy")
  BY <1>6, RemoveInvariant DEF Files, Images, PC
<1>7. CASE CopyBegin \/ CopyEnd
  BY <1>7, CopyInvariant
<1>8. CASE Verify
  BY <1>8, VerifyInvariant
<1>9. CASE CopyRelease
  BY <1>9, CopyReleaseInvariant
<1>10. CASE Umount
  BY <1>10, UmountInvariant
<1>11. CASE Kill
  BY <1>11, ExitInvariant DEF Kill
<1>12. CASE Reboot \/ PowerCut \/ \E f \in Files : WriteBack(f)
  BY <1>12, EnvironmentInvariant
<1>13. CASE UNCHANGED vars
  BY <1>13 DEF vars, IInv, TypeOK, NotMountedYet, NoReleaseMeanwhile,
     ImagesInOrder, Installed, Ref, VouchesAtUmount, PromisedWhenIdle,
     ReleaseVouches, OkIsDurable
<1> QED
  BY <1>1, <1>2, <1>3, <1>4, <1>5, <1>6, <1>7, <1>8, <1>9, <1>10, <1>11,
     <1>12, <1>13 DEF Next, Script

-----------------------------------------------------------------------------
(* The theorems. *)

\* The strengthened invariant holds of every behaviour of the script under
\* kills, lost writes and power cuts, with or without a mounted partition.
THEOREM Invariance == Spec => []IInv
<1>1. Init => IInv
  BY InitInvariant
<1>2. IInv /\ [Next]_vars => IInv'
  BY NextInvariant
<1> QED
  BY <1>1, <1>2, PTL DEF Spec

\* Every variable stays in its type: the loop counter never leaves 1..Tries.
THEOREM TypeCorrect == Spec => []TypeOK
<1>1. IInv => TypeOK
  BY DEF IInv
<1> QED
  BY <1>1, Invariance, PTL

\* Unless a power cut has torn the partition, a release file in it names the
\* version of both images, at every step of every run.
THEOREM ReleaseIsTruthful == Spec => []ReleaseVouches
<1>1. IInv => ReleaseVouches
  BY DEF IInv
<1> QED
  BY <1>1, Invariance, PTL

\* What a successful run has synced, no later power cut, reboot or
\* write-back takes away.
THEOREM SuccessIsDurable == Spec => []OkIsDurable
<1>1. IInv => OkIsDurable
  BY DEF IInv
<1> QED
  BY <1>1, Invariance, PTL

-----------------------------------------------------------------------------
(* The check of the package comes before the partition is touched. *)

Matches(f) == pkg.src[f] \in {Ref(f), "none"}

\* What the script has checked when it has come so far.
CheckedSoFar ==
  /\ pc \notin {"idle", "check_ramdisk"} => Matches("ramdisk")
  /\ pc \notin {"idle", "check_ramdisk", "check_kernel"} => Matches("kernel")

\* The package of a run does not change, and no step skips a check.
LEMMA CheckedStep == CheckedSoFar /\ [Next]_vars => CheckedSoFar'
<1> SUFFICES ASSUME CheckedSoFar, [Next]_vars PROVE CheckedSoFar'
  OBVIOUS
<1> USE DEF CheckedSoFar, Matches, Ref
<1>1. ASSUME pc' = "idle" \/ pc' = "check_ramdisk" PROVE CheckedSoFar'
  BY <1>1
<1>2. CASE CheckSource("ramdisk", "check_ramdisk", "check_kernel")
  BY <1>1, <1>2 DEF CheckSource, Passes, Exit, ScriptEnds
<1>3. CASE CheckSource("kernel", "check_kernel", "mount")
  BY <1>1, <1>3 DEF CheckSource, Passes, Exit, ScriptEnds
<1>4. CASE Start \/ Umount \/ Kill \/ PowerCut
  BY <1>1, <1>4 DEF Start, Umount, Kill, PowerCut, Exit, ScriptEnds
<1>5. CASE \/ Mount \/ CopyBegin \/ CopyEnd \/ CopyRelease
           \/ Remove("release", "rm_release", "rm_kernel")
           \/ Remove("kernel", "rm_kernel", "rm_ramdisk")
           \/ Remove("ramdisk", "rm_ramdisk", "copy")
  BY <1>5 DEF Mount, CopyBegin, CopyEnd, CopyRelease, Remove
<1>6. CASE Verify
  BY <1>1, <1>6 DEF Verify, Exit, ScriptEnds
<1>7. CASE Reboot \/ (\E f \in Files : WriteBack(f)) \/ UNCHANGED vars
  BY <1>7 DEF Reboot, WriteBack, vars
<1> QED
  BY <1>2, <1>3, <1>4, <1>5, <1>6, <1>7 DEF Next, Script

\* No step of a run touches the installed firmware for a package with a corrupt
\* image, for every set of versions and either branch of the script.
THEOREM CheckComesFirst == Spec => CheckedBeforeTouched
<1> DEFINE Touched == fs'["emmc"] # fs["emmc"] /\ pc # "idle" /\ pc' # "idle"
<1>1. Init => CheckedSoFar
  BY DEF Init, CheckedSoFar
<1>2. CheckedSoFar /\ [Next]_vars
        => [Touched => \A f \in Images : pkg.src[f] \in {Ref(f), "none"}]_vars
  <2> SUFFICES ASSUME CheckedSoFar, Next, Touched
               PROVE  \A f \in Images : Matches(f)
    BY DEF Matches
  <2>1. pc \notin {"idle", "check_ramdisk", "check_kernel"}
    <3>1. ~CheckSource("ramdisk", "check_ramdisk", "check_kernel")
          /\ ~CheckSource("kernel", "check_kernel", "mount")
      BY DEF CheckSource, Exit, ScriptEnds
    <3>2. ~Start /\ ~Kill /\ ~PowerCut /\ ~Reboot /\ ~(\E f \in Files : WriteBack(f))
      BY DEF Start, Kill, Exit, PowerCut, ScriptEnds, Reboot, WriteBack
    <3> QED
      BY <3>1, <3>2
      DEF Next, Script, Mount, Remove, CopyBegin, CopyEnd, Verify, CopyRelease, Umount
  <2> QED
    BY <2>1 DEF CheckedSoFar, Images
<1> QED
  BY <1>1, <1>2, CheckedStep, PTL DEF Spec, CheckedBeforeTouched

-----------------------------------------------------------------------------
(* How long a run can take. *)

\* Commands to come before the copies.
Before ==
  IF pc = "check_ramdisk" THEN 6 ELSE IF pc = "check_kernel" THEN 5
  ELSE IF pc = "mount" THEN 4 ELSE IF pc = "rm_release" THEN 3
  ELSE IF pc = "rm_kernel" THEN 2 ELSE 1

\* Commands to come in this pass of the copy loop.
InPass == IF pc = "copy" THEN 3 ELSE IF pc = "copying" THEN 2 ELSE 1

\* Commands that the script has still to execute, if every image needs all of
\* its attempts.
CommandsLeft ==
  IF pc = "idle" THEN 0
  ELSE IF pc = "umount" THEN 1
  ELSE IF pc = "release" THEN 2
  ELSE IF pc \in Copying
       THEN 2 + 3 * (Tries - try) + InPass + (IF obj = "ramdisk" THEN 3 * Tries ELSE 0)
       ELSE 2 + 6 * Tries + Before

\* A run of `flashcfg -f' has at most 6 * Tries + 8 commands to go (38 with
\* the five attempts of the script) ...
CommandsAreFew == CommandsLeft \in 0 .. 6 * Tries + 8

\* ... every command brings it closer to its end, a failed copy and the way
\* from the ramdisk to the kernel too, and nothing around it sets it back.
CommandsAreCounted ==
  [][ /\ Script => CommandsLeft' < CommandsLeft
      /\ pc # "idle" /\ ~Script => CommandsLeft' <= CommandsLeft ]_vars

LEMMA CommandsLeftType ==
  ASSUME TypeOK
  PROVE  /\ CommandsLeft \in 0 .. 6 * Tries + 8 /\ CommandsLeft \in Nat
         /\ pc # "idle" => CommandsLeft > 0
<1>1. Tries \in Nat /\ try \in 1 .. Tries
  BY TriesAssumption DEF TypeOK
<1>2. Before \in 1 .. 6 /\ InPass \in 1 .. 3
  BY DEF Before, InPass
<1> QED
  BY <1>1, <1>2 DEF CommandsLeft

\* One case per command; the ones of the loop depend on the attempt.
LEMMA CommandCounts ==
  ASSUME TypeOK, Script
  PROVE  CommandsLeft' < CommandsLeft
<1>1. /\ Tries \in Nat /\ try \in 1 .. Tries /\ pc # "idle"
      /\ CommandsLeft \in Nat /\ CommandsLeft > 0
  BY CommandsLeftType, TriesAssumption
  DEF TypeOK, Script, CheckSource, Mount, Remove, CopyBegin, CopyEnd, Verify, CopyRelease, Umount
<1>2. CASE pc' = "idle"
  BY <1>1, <1>2 DEF CommandsLeft
<1>3. CASE pc' # "idle"
  <2>1. CASE CheckSource("ramdisk", "check_ramdisk", "check_kernel")
               \/ CheckSource("kernel", "check_kernel", "mount") \/ Mount
    BY <1>1, <1>3, <2>1
    DEF CheckSource, Mount, Exit, ScriptEnds, CommandsLeft, Copying, Before
  <2>2. CASE Remove("release", "rm_release", "rm_kernel")
               \/ Remove("kernel", "rm_kernel", "rm_ramdisk")
    BY <1>1, <2>2 DEF Remove, CommandsLeft, Copying, Before
  <2>3. CASE Remove("ramdisk", "rm_ramdisk", "copy")
    BY <1>1, <2>3 DEF Remove, CommandsLeft, Copying, Before, InPass
  <2>4. CASE CopyBegin \/ CopyEnd
    BY <1>1, <2>4 DEF CopyBegin, CopyEnd, CommandsLeft, Copying, InPass
  <2>5. CASE Verify
    <3>1. obj \in {"kernel", "ramdisk"}
      BY DEF TypeOK, Images
    <3> QED
      BY <1>1, <1>3, <2>5, <3>1
      DEF Verify, TriesLeft, NextTry, Exit, ScriptEnds, CommandsLeft, Copying, InPass
  <2>6. CASE CopyRelease
    BY <2>6 DEF CopyRelease, CommandsLeft
  <2>7. CASE Umount
    BY <1>3, <2>7 DEF Umount, ScriptEnds
  <2> QED
    BY <2>1, <2>2, <2>3, <2>4, <2>5, <2>6, <2>7 DEF Script
<1> QED
  BY <1>2, <1>3

\* What RunEnds needs besides the fairness of the shell, for every number of
\* attempts and both branches: no package, kill or power cut makes a run long.
THEOREM RunsAreShort == Spec => []CommandsAreFew /\ CommandsAreCounted
<1>1. IInv => CommandsAreFew
  BY CommandsLeftType DEF IInv, CommandsAreFew
<1>2. IInv /\ [Next]_vars
        => [ /\ Script => CommandsLeft' < CommandsLeft
             /\ pc # "idle" /\ ~Script => CommandsLeft' <= CommandsLeft ]_vars
  <2> SUFFICES ASSUME IInv, Next
               PROVE  /\ Script => CommandsLeft' < CommandsLeft
                      /\ pc # "idle" /\ ~Script => CommandsLeft' <= CommandsLeft
    BY DEF vars
  <2>1. TypeOK /\ CommandsLeft \in Nat
    BY CommandsLeftType DEF IInv
  <2>2. ASSUME Script PROVE CommandsLeft' < CommandsLeft
    BY <2>1, <2>2, CommandCounts
  <2>3. ASSUME pc # "idle", ~Script PROVE CommandsLeft' <= CommandsLeft
    <3>1. CASE \E f \in Files : WriteBack(f)
      BY <2>1, <3>1 DEF WriteBack, CommandsLeft, Before, InPass
    <3>2. CASE pc' = "idle"
      BY <2>1, <3>2 DEF CommandsLeft
    <3> QED
      BY <2>3, <3>1, <3>2 DEF Next, Start, Kill, Exit, Reboot, PowerCut, ScriptEnds
  <2> QED
    BY <2>2, <2>3
<1> QED
  BY <1>1, <1>2, Invariance, PTL DEF Spec, CommandsAreCounted

==============================================================================
