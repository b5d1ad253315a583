------------------------------- MODULE Stage1 -------------------------------
(***************************************************************************)
(* Stage 1 of a cnimbus boot: the /init script of the initramfs            *)
(* (internal/rootfs/stage1.go, buildStage1Init), and the part of           *)
(* BuildImages (internal/rootfs/frompieces.go) that decides what it has to *)
(* put in place.                                                           *)
(*                                                                         *)
(* /init looks for the SquashFS root on whole devices (an ISO9660 tree     *)
(* that holds SQUASHFS.IMG), on second partitions (the SquashFS itself)    *)
(* and in .iso files on FAT or exFAT volumes; mounts it; copies the files  *)
(* that belong into the four executable directories, each a fresh tmpfs;   *)
(* and runs switch_root.  Disks may appear at any moment.  What mount,     *)
(* umount and losetup do with a busy device is the kernel's.               *)
(***************************************************************************)
EXTENDS Integers, Sequences, FiniteSets

CONSTANTS
    Wholes,    \* whole devices, in the order /init tries them (6 in the code)
    Parts,     \* second partitions, in order (8 in the code)
    Volumes,   \* block devices with a FAT or exFAT filesystem, in /sys/block order
    Boots,     \* pairs of a machine and an image built for it
    Attempts,  \* passes over all devices, one second apart (10 in the code)
    Page       \* the unit in which tmpfs hands out memory

ExecDirs == {"bin", "sbin", "usr/bin", "usr/sbin"}

\* The devices of a sequence of devices.
Devs(s) == {s[k] : k \in DOMAIN s}
AllDevs == Devs(Wholes) \cup Devs(Parts) \cup Devs(Volumes)

(***************************************************************************)
(* A machine: its disks, the ones that appear late included; what the      *)
(* ISO9660 tree of a whole device holds; whether a partition is a          *)
(* SquashFS; the .iso files of a volume; and which of the four tmpfs       *)
(* mounts succeed.                                                         *)
(*   "none"     no filesystem of the type /init asks for                   *)
(*   "other"    an ISO without SQUASHFS.IMG                                *)
(*   "good"     a SquashFS, or an ISO with one                             *)
(*   "corrupt"  an ISO whose SQUASHFS.IMG does not mount                   *)
(***************************************************************************)
Contents == {"none", "other", "good", "corrupt"}

IsMachine(m) ==
    /\ m.devs \subseteq AllDevs
    /\ m.whole \in [Devs(Wholes) -> Contents]
    /\ m.part \in [Devs(Parts) -> {"none", "good"}]
    /\ m.isos \in [Devs(Volumes) -> Seq(Contents)]
    /\ m.ram \subseteq ExecDirs

(***************************************************************************)
(* An image: the COPY'd and generated files with the directory each goes   *)
(* to ("root" for any other), whether it lies in a subdirectory of it, and *)
(* its size; the size of BusyBox; the TMPSIZE.                             *)
(***************************************************************************)
FileType  == [dir : ExecDirs \cup {"root"}, nested : BOOLEAN, size : Nat]
ImageType == [files : Seq(FileType), busybox : Nat, limit : Nat]

ASSUME OrdersAssumption ==
    /\ Wholes \in Seq(Devs(Wholes)) /\ Parts \in Seq(Devs(Parts))
    /\ Volumes \in Seq(Devs(Volumes))
    /\ Devs(Wholes) \cap Devs(Parts) = {} /\ "none" \notin AllDevs
    /\ \A k, l \in DOMAIN Wholes : Wholes[k] = Wholes[l] => k = l
    /\ \A k, l \in DOMAIN Parts : Parts[k] = Parts[l] => k = l
ASSUME BootsAssumption ==
    \A b \in Boots : b = <<b[1], b[2]>> /\ IsMachine(b[1]) /\ b[2] \in ImageType
ASSUME NumbersAssumption == Attempts \in Nat \ {0} /\ Page \in Nat \ {0}

VARIABLES
    machine,  \* the machine, fixed
    image,    \* the image, fixed
    pc,       \* the part of the build, or the block of /init, that runs
    i,        \* the candidate, directory or file a loop is at
    j,        \* the .iso file on volume i
    attempt,  \* the pass
    present,  \* the devices that have appeared
    seen,     \* the devices that were there when this pass began
    boot,     \* the stack of filesystems mounted on /mnt/boot
    isoscan,  \* the stack of volumes mounted on /mnt/isoscan
    loop0,    \* the filesystem whose SQUASHFS.IMG /dev/loop0 is
    loop1,    \* the .iso file /dev/loop1 is
    root,     \* where the filesystem on /mnt/root comes from
    tmpfs,    \* the executable directories that have their tmpfs
    used,     \* pages used in each
    busybox,  \* has /bin/busybox been copied
    links,    \* the directories that hold BusyBox's links
    staged    \* the numbers of the shadowed files in place

scanVars  == <<boot, isoscan, loop0, loop1, root>>
stageVars == <<tmpfs, used, busybox, links, staged>>
fixedVars == <<machine, image>>
vars == <<fixedVars, pc, i, j, attempt, present, seen, scanVars, stageVars>>

\* A filesystem: a whole device or partition (iso = 0), or an .iso file on a volume.
FS(d, k) == [dev |-> d, iso |-> k]
NoFS     == [dev |-> "none", iso |-> 0]

Holds(f) == IF f.iso = 0 THEN machine.whole[f.dev] ELSE machine.isos[f.dev][f.iso]

FSType  == [dev : Devs(Wholes) \cup Devs(Volumes), iso : Nat]

Blocks == {"build", "refused", "whole", "boot", "parts", "volumes", "isos", "sleep",
           "tmpfs", "busybox", "install", "verify", "shadow", "switched", "fatal"}

TypeOK ==
    /\ IsMachine(machine) /\ image \in ImageType
    /\ pc \in Blocks
    /\ i \in Nat /\ j \in Nat /\ attempt \in 1..Attempts
    /\ present \subseteq AllDevs /\ seen \subseteq present
    /\ boot \in Seq(FSType) /\ isoscan \in Seq(Devs(Volumes))
    /\ loop0 \in FSType \cup {NoFS} /\ loop1 \in FSType \cup {NoFS}
    /\ root \in FSType \cup {FS(p, 0) : p \in Devs(Parts)} \cup {NoFS}
    /\ tmpfs \subseteq ExecDirs /\ links \subseteq tmpfs
    /\ used \in [ExecDirs -> Nat]
    /\ busybox \in BOOLEAN
    /\ staged \subseteq Nat

Init ==
    /\ \E b \in Boots : machine = b[1] /\ image = b[2]
    /\ pc = "build" /\ i = 1 /\ j = 1 /\ attempt = 1
    /\ present = {} /\ seen = {}
    /\ boot = <<>> /\ isoscan = <<>>
    /\ loop0 = NoFS /\ loop1 = NoFS /\ root = NoFS
    /\ tmpfs = {} /\ used = [d \in ExecDirs |-> 0]
    /\ busybox = FALSE /\ links = {} /\ staged = {}

-----------------------------------------------------------------------------
(***************************************************************************)
(* The build.                                                              *)
(***************************************************************************)

\* Mutant: one executable directory is forgotten.
IsShadowedThree(f) == f.dir \in ExecDirs \ {"usr/sbin"}

IsShadowed(f) == f.dir \in ExecDirs

\* powerbtn.sh, which every image carries.
PowerScript == [dir |-> "sbin", nested |-> FALSE, size |-> 1]

\* splitShadowedFiles: the files for the executable directories among the first n.
Split[n \in 0..Len(image.files)] ==
    IF n = 0 THEN <<>>
    ELSE IF IsShadowed(image.files[n]) THEN Append(Split[n - 1], image.files[n])
    ELSE Split[n - 1]

\* Mutant: the scripts the build adds on its own go into the SquashFS root.
ShadowedCopied == Split[Len(image.files)]

\* What has to be copied at boot: those files, and the ones BuildImages adds.
Shadowed == Append(Split[Len(image.files)], PowerScript)

\* totals in checkShadowedFilesFitTmpfs once n files have been counted.
Counted[n \in 0..Len(Shadowed)] ==
    IF n = 0 THEN [d \in ExecDirs |-> IF d = "bin" THEN image.busybox ELSE 0]
    ELSE [Counted[n - 1] EXCEPT ![Shadowed[n].dir] = @ + Shadowed[n].size]

Total(d) == Counted[Len(Shadowed)][d]

\* Mutant: BusyBox itself is not counted.
FitsFiles == \A d \in ExecDirs : Total(d) <= image.limit + image.busybox

Fits == \A d \in ExecDirs : Total(d) <= image.limit

\* The build, and the start of a machine with the image it made.
Build ==
    /\ pc = "build"
    /\ \/ ~Fits /\ pc' = "refused" /\ UNCHANGED <<present, seen>>
       \/ Fits /\ pc' = "whole" /\ present' \in SUBSET machine.devs /\ seen' = present'
    /\ UNCHANGED <<fixedVars, i, j, attempt, scanVars, stageVars>>

-----------------------------------------------------------------------------
(***************************************************************************)
(* What the kernel does.                                                   *)
(***************************************************************************)

\* A disk is enumerated while /init looks for the root.
Plug(d) ==
    /\ pc \in {"whole", "boot", "parts", "volumes", "isos", "sleep"}
    /\ d \in machine.devs \ present
    /\ present' = present \cup {d}
    /\ UNCHANGED <<fixedVars, pc, i, j, attempt, seen, scanVars, stageVars>>

\* The filesystem on top of a stack of mounts at one mountpoint.
IsTop(x, s) == s # <<>> /\ s[Len(s)] = x

\* umount takes the top one away unless a loop device is backed by a file on it.
Unmount(s, busy) ==
    IF s = <<>> \/ s[Len(s)] = busy THEN s ELSE SubSeq(s, 1, Len(s) - 1)

-----------------------------------------------------------------------------
(***************************************************************************)
(* The search for the root.                                                *)
(***************************************************************************)

\* Mutant: a device without SQUASHFS.IMG is left mounted.
WholeKeeps ==
    /\ pc = "whole" /\ i \in DOMAIN Wholes
    /\ LET d == Wholes[i]
           mounts == d \in present /\ machine.whole[d] # "none" /\ ~IsTop(FS(d, 0), boot)
       IN  /\ boot' = IF mounts THEN Append(boot, FS(d, 0)) ELSE boot
           /\ IF mounts /\ machine.whole[d] # "other"
              THEN pc' = "boot" /\ i' = i
              ELSE pc' = pc /\ i' = i + 1
    /\ UNCHANGED <<fixedVars, j, attempt, present, seen, isoscan, loop0, loop1, root, stageVars>>

\* One whole device: mounted if it is there (and not already the one on top),
\* kept if it holds SQUASHFS.IMG, unmounted again otherwise.
Whole ==
    /\ pc = "whole" /\ i \in DOMAIN Wholes
    /\ LET d == Wholes[i]
           mounts == d \in present /\ machine.whole[d] # "none" /\ ~IsTop(FS(d, 0), boot)
       IN  IF mounts /\ machine.whole[d] # "other"
           THEN boot' = Append(boot, FS(d, 0)) /\ pc' = "boot" /\ i' = i
           ELSE boot' = boot /\ pc' = pc /\ i' = i + 1
    /\ UNCHANGED <<fixedVars, j, attempt, present, seen, isoscan, loop0, loop1, root, stageVars>>

WholeEnd ==
    /\ pc = "whole" /\ i \notin DOMAIN Wholes
    /\ pc' = "boot"
    /\ UNCHANGED <<fixedVars, i, j, attempt, present, seen, scanVars, stageVars>>

\* losetup /dev/loop0 and mount: a corrupt SquashFS leaves loop0 attached.
Boot ==
    /\ pc = "boot"
    /\ LET attach == boot # <<>> /\ loop0 = NoFS
           top    == boot[Len(boot)]
       IN  /\ loop0' = IF attach THEN top ELSE loop0
           /\ IF attach /\ Holds(top) = "good"
              THEN root' = top /\ pc' = "tmpfs"
              ELSE root' = root /\ pc' = "parts"
    /\ i' = 1
    /\ UNCHANGED <<fixedVars, j, attempt, present, seen, boot, isoscan, loop1, stageVars>>

\* Mutant: the volumes are searched before the partitions.
PartSkips ==
    /\ pc = "parts" /\ i \in DOMAIN Parts
    /\ pc' = "volumes" /\ i' = 1 /\ root' = root
    /\ UNCHANGED <<fixedVars, j, attempt, present, seen, boot, isoscan, loop0, loop1, stageVars>>

\* One second partition, mounted as it is.
Part ==
    /\ pc = "parts" /\ i \in DOMAIN Parts
    /\ IF Parts[i] \in present /\ machine.part[Parts[i]] = "good"
       THEN root' = FS(Parts[i], 0) /\ pc' = "tmpfs" /\ i' = 1
       ELSE root' = root /\ pc' = pc /\ i' = i + 1
    /\ UNCHANGED <<fixedVars, j, attempt, present, seen, boot, isoscan, loop0, loop1, stageVars>>

PartsEnd ==
    /\ pc = "parts" /\ i \notin DOMAIN Parts
    /\ pc' = "volumes" /\ i' = 1
    /\ UNCHANGED <<fixedVars, j, attempt, present, seen, scanVars, stageVars>>

\* One volume of the scan: mounted if it is there and not already on top.
Volume ==
    /\ pc = "volumes" /\ i \in DOMAIN Volumes
    /\ IF Volumes[i] \in present /\ ~IsTop(Volumes[i], isoscan)
       THEN isoscan' = Append(isoscan, Volumes[i]) /\ pc' = "isos" /\ j' = 1 /\ i' = i
       ELSE isoscan' = isoscan /\ pc' = pc /\ j' = j /\ i' = i + 1
    /\ UNCHANGED <<fixedVars, attempt, present, seen, boot, loop0, loop1, root, stageVars>>

VolumesEnd ==
    /\ pc = "volumes" /\ i \notin DOMAIN Volumes
    /\ pc' = "sleep"
    /\ UNCHANGED <<fixedVars, i, j, attempt, present, seen, scanVars, stageVars>>

\* What the body of the .iso loop leaves, given the mounts and loop devices; losetup -d
\* does nothing to a loop device that is still mounted.
IsoBody(detaches) ==
    /\ pc = "isos" /\ j \in DOMAIN machine.isos[Volumes[i]]
    /\ LET f       == FS(Volumes[i], j)
           bound   == loop1 = NoFS
           mounts  == bound /\ Holds(f) # "none"
           attach  == mounts /\ Holds(f) # "other" /\ loop0 = NoFS
           mounted == IF mounts THEN Append(boot, f) ELSE boot
           L0      == IF attach THEN f ELSE loop0
           L1      == IF bound THEN f ELSE loop1
       IN  /\ loop0' = L0
           /\ IF attach /\ Holds(f) = "good"
              THEN /\ root' = f /\ boot' = mounted /\ loop1' = L1
                   /\ pc' = "tmpfs" /\ i' = 1 /\ j' = j
              ELSE /\ boot' = Unmount(mounted, L0)
                   /\ loop1' = IF detaches /\ ~\E k \in DOMAIN boot' : boot'[k] = L1 THEN NoFS ELSE L1
                   /\ root' = root /\ pc' = pc /\ i' = i /\ j' = j + 1
    /\ UNCHANGED <<fixedVars, attempt, present, seen, isoscan, stageVars>>

\* Mutant: losetup -d is forgotten.
IsoAttached == IsoBody(FALSE)

\* One .iso file of the volume.
Iso == IsoBody(TRUE)

IsosEnd ==
    /\ pc = "isos" /\ j \notin DOMAIN machine.isos[Volumes[i]]
    /\ isoscan' = Unmount(isoscan, loop1.dev)
    /\ pc' = "volumes" /\ i' = i + 1
    /\ UNCHANGED <<fixedVars, j, attempt, present, seen, boot, loop0, loop1, root, stageVars>>

\* Mutant: the passes are not counted.
SleepUncounted ==
    /\ pc = "sleep"
    /\ pc' = "whole" /\ i' = 1 /\ seen' = present /\ attempt' = attempt
    /\ UNCHANGED <<fixedVars, j, present, scanVars, stageVars>>

\* The end of a pass without a root, and of the last one.
Sleep ==
    /\ pc = "sleep"
    /\ IF attempt = Attempts
       THEN pc' = "fatal" /\ i' = i /\ seen' = seen /\ attempt' = attempt
       ELSE pc' = "whole" /\ i' = 1 /\ seen' = present /\ attempt' = attempt + 1
    /\ UNCHANGED <<fixedVars, j, present, scanVars, stageVars>>

-----------------------------------------------------------------------------
(***************************************************************************)
(* Staging.                                                                *)
(***************************************************************************)
ExecDirSeq == <<"bin", "sbin", "usr/bin", "usr/sbin">>

\* mkdir and mount of one tmpfs, neither of them checked.
Tmpfs ==
    /\ pc = "tmpfs"
    /\ tmpfs' = tmpfs \cup ({ExecDirSeq[i]} \cap machine.ram)
    /\ IF i = Len(ExecDirSeq) THEN pc' = "busybox" /\ i' = 1 ELSE pc' = pc /\ i' = i + 1
    /\ UNCHANGED <<fixedVars, j, attempt, present, seen, scanVars, used, busybox, links, staged>>

Pages(n) == (n + Page - 1) \div Page

\* A cp into an executable directory succeeds if it has its tmpfs, which has room.
Room(d, size) == d \in tmpfs /\ used[d] + Pages(size) <= Pages(image.limit)

\* writeStagingCheck: a command that fails ends /init.
CopyBusybox ==
    /\ pc = "busybox"
    /\ IF Room("bin", image.busybox)
       THEN /\ busybox' = TRUE /\ pc' = "install"
            /\ used' = [used EXCEPT !["bin"] = @ + Pages(image.busybox)]
       ELSE busybox' = busybox /\ pc' = "fatal" /\ used' = used
    /\ UNCHANGED <<fixedVars, i, j, attempt, present, seen, scanVars, tmpfs, links, staged>>

\* busybox --install -s makes the links it can, and succeeds whatever it made.
Install ==
    /\ pc = "install"
    /\ links' = tmpfs
    /\ pc' = "verify"
    /\ UNCHANGED <<fixedVars, i, j, attempt, present, seen, scanVars, tmpfs, used, busybox, staged>>

Verify ==
    /\ pc = "verify"
    /\ pc' = IF "bin" \in links THEN "shadow" ELSE "fatal"
    /\ UNCHANGED <<fixedVars, i, j, attempt, present, seen, scanVars, stageVars>>

\* Mutant: a copy that fails is not noticed.
ShadowUnchecked ==
    /\ pc = "shadow" /\ i \in DOMAIN Shadowed
    /\ LET f == Shadowed[i]
       IN  IF ~f.nested /\ Room(f.dir, f.size)
           THEN /\ staged' = staged \cup {i}
                /\ used' = [used EXCEPT ![f.dir] = @ + Pages(f.size)]
           ELSE staged' = staged /\ used' = used
    /\ i' = i + 1 /\ pc' = pc
    /\ UNCHANGED <<fixedVars, j, attempt, present, seen, scanVars, tmpfs, busybox, links>>

\* cp and chmod of one shadowed file: a subdirectory does not exist in the tmpfs.
Shadow ==
    /\ pc = "shadow" /\ i \in DOMAIN Shadowed
    /\ LET f == Shadowed[i]
       IN  IF ~f.nested /\ Room(f.dir, f.size)
           THEN /\ staged' = staged \cup {i} /\ i' = i + 1 /\ pc' = pc
                /\ used' = [used EXCEPT ![f.dir] = @ + Pages(f.size)]
           ELSE staged' = staged /\ i' = i /\ pc' = "fatal" /\ used' = used
    /\ UNCHANGED <<fixedVars, j, attempt, present, seen, scanVars, tmpfs, busybox, links>>

SwitchRoot ==
    /\ pc = "shadow" /\ i \notin DOMAIN Shadowed
    /\ pc' = "switched"
    /\ UNCHANGED <<fixedVars, i, j, attempt, present, seen, scanVars, stageVars>>

-----------------------------------------------------------------------------
Ended == pc \in {"refused", "switched", "fatal"}

\* The build, then /init, one block after the other.
Script ==
    \/ Build
    \/ Whole \/ WholeEnd \/ Boot \/ Part \/ PartsEnd
    \/ Volume \/ VolumesEnd \/ Iso \/ IsosEnd \/ Sleep
    \/ Tmpfs \/ CopyBusybox \/ Install \/ Verify \/ Shadow \/ SwitchRoot

\* The end: the kernel runs /sbin/init, or panics because /init exited.
Done == Ended /\ UNCHANGED vars

Next == Script \/ (\E d \in AllDevs : Plug(d)) \/ Done

Spec == Init /\ [][Next]_vars
FairSpec == Spec /\ WF_vars(Script)

-----------------------------------------------------------------------------
(***************************************************************************)
(* Properties.                                                             *)
(***************************************************************************)

IsoGood(d) == \E k \in DOMAIN machine.isos[d] : machine.isos[d][k] = "good"

\* The passes end without a root only if no medium that was there at the start of
\* the last one could be used: no partition with a root at all, and no good ISO
\* unless loop0 is still attached to a corrupt image (stage1.go:276-281).
Found ==
    pc = "fatal" /\ root = NoFS =>
        /\ \A p \in Devs(Parts) \cap seen : machine.part[p] # "good"
        /\ \/ loop0 # NoFS /\ Holds(loop0) = "corrupt"
           \/ /\ \A d \in Devs(Wholes) \cap seen : machine.whole[d] # "good"
              /\ \A v \in Devs(Volumes) \cap seen : ~IsoGood(v)

\* A whole device is preferred to a partition and a partition to an .iso file, and
\* within a kind the first in order, among the media that were there when the pass
\* began; an image that does not mount gives way to the next kind (stage1.go:160-273).
Preferred ==
    /\ \A k \in DOMAIN Wholes : root = FS(Wholes[k], 0) =>
          \A l \in 1..(k - 1) :
             Wholes[l] \in seen => machine.whole[Wholes[l]] \in {"none", "other"}
    /\ \A k \in DOMAIN Parts : root = FS(Parts[k], 0) =>
          /\ \A l \in 1..(k - 1) : Parts[l] \in seen => machine.part[Parts[l]] = "none"
          /\ loop0 = NoFS =>
                \A d \in Devs(Wholes) \cap seen : machine.whole[d] \in {"none", "other"}
    /\ root.iso # 0 =>
          /\ \A p \in Devs(Parts) \cap seen : machine.part[p] = "none"
          /\ \A d \in Devs(Wholes) \cap seen : machine.whole[d] \in {"none", "other"}

NoCorrupt ==
    /\ \A d \in Devs(Wholes) : machine.whole[d] # "corrupt"
    /\ \A v \in Devs(Volumes) : \A k \in DOMAIN machine.isos[v] : machine.isos[v][k] # "corrupt"

\* Where no image is corrupt, a pass that finds nothing leaves no mount and no loop
\* device behind for the next one to trip over (stage1.go:177, :267-272).
CleanRetry ==
    pc = "sleep" /\ NoCorrupt =>
        boot = <<>> /\ isoscan = <<>> /\ loop0 = NoFS /\ loop1 = NoFS

\* switch_root runs only with every file of the image where the services look for
\* it: BusyBox, /sbin/init among its links, each file for an executable directory
\* copied into the tmpfs there, and none left underneath one (stage1.go:292-385).
Delivered ==
    pc = "switched" =>
        /\ root # NoFS /\ busybox /\ {"bin", "sbin"} \subseteq links
        /\ staged = DOMAIN Shadowed
        /\ \A f \in Devs(image.files) : f.dir \in ExecDirs => f \in Devs(Shadowed)

\* The files for a directory among the first n that are shadowed, and BusyBox (0).
In(d, n) == {k \in 1..n : Shadowed[k].dir = d} \cup {0}

\* Bytes that rounding up to pages can add to what the build counted for a directory.
Slack(d) == Page * Cardinality(In(d, Len(Shadowed)))

\* An image the build accepts runs out of space at boot only where rounding to pages
\* takes the difference, or an unchecked tmpfs mount failed (frompieces.go:389-424).
RoomAtBoot ==
    pc = "fatal" /\ root # NoFS =>
        \/ tmpfs # ExecDirs
        \/ \E k \in DOMAIN Shadowed : Shadowed[k].nested
        \/ \E d \in ExecDirs : image.limit \in Total(d)..(Total(d) + Slack(d) - 1)

\* What frompieces.go:284-288 says of checkShadowedFilesFitTmpfs and build.go:855-856 of
\* subdirectories: an image that was built is staged, on a machine whose tmpfs mounts work.
BuiltImageStages == pc = "fatal" /\ root # NoFS => tmpfs # ExecDirs

\* /init always comes to an end, whatever appears when (stage1.go:151-155).
Ends == <>Ended
=============================================================================
