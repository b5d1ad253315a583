----------------------------- MODULE BuildDisk -----------------------------
(***************************************************************************)
(* cnimbus build-disk (cmd/cnimbus/build.go, runBuild): a Nimbusfile and a *)
(* set of pieces become an image and its .lock file.  Each process builds  *)
(* to an output of its own, again and again; processes share the directory *)
(* of the Secure Boot key pair (module KeyPair).  While a build runs the   *)
(* Nimbusfile can be edited and the pieces published anew; every step may  *)
(* fail, and the process may be killed between any two.  What Resolve      *)
(* returns is one build's pieces (module Pieces).                          *)
(***************************************************************************)
EXTENDS KeyPair, DiskImage, Copies

CONSTANTS
    Nimbusfiles,  \* the contents the Nimbusfile has, one edit after the other
    Sets,         \* the pieces published, one prepare after the other
    Commands,     \* the flags of a run
    SigSize,      \* bytes a signature adds to a PE binary
    MaxRuns       \* bound: runs of each process

(***************************************************************************)
(* A Nimbusfile: what the checks and the assembly look at.  initramfs and  *)
(* squashfs are the sizes of what BuildImages makes of it.                 *)
(***************************************************************************)
Archs    == {"amd64", "arm64"}
Profiles == {"none", "eth", "wifi", "eth+wifi"}
IsNimbusfile(nf) ==
    /\ nf.arch \in Archs /\ nf.vga \in BOOLEAN /\ nf.boot \in Profiles
    /\ nf.format \in {"iso", "raw", "vhd"}
    /\ nf.initramfs \in Nat /\ nf.squashfs \in Nat
    /\ \A c \in ToSet(nf.copies) :
          c.dest \in Seq(STRING) \ {<<>>} /\ \A e \in ToSet(c.items) : e.name \in Seq(STRING)

\* A set of pieces; prov is whether it has a pieces.json, and "" a field an
\* older one does not have.
IsSet(s) ==
    /\ s.prov \in BOOLEAN /\ s.arch \in Archs \cup {""} /\ s.vga \in BOOLEAN
    /\ s.boot \in Profiles \cup {""} /\ s.vmlinuz \in Nat

CommandType == [secure : {"off", "own", "auto"}, uki : BOOLEAN, lock : BOOLEAN]

ASSUME InputsAssumption ==
    /\ Nimbusfiles \in Seq({Nimbusfiles[k] : k \in DOMAIN Nimbusfiles})
    /\ Sets \in Seq({Sets[k] : k \in DOMAIN Sets})
    /\ Nimbusfiles # <<>> /\ Sets # <<>>
    /\ \A k \in DOMAIN Nimbusfiles : IsNimbusfile(Nimbusfiles[k])
    /\ \A k \in DOMAIN Sets : IsSet(Sets[k])
ASSUME CommandsAssumption == Commands \subseteq CommandType
ASSUME SizesAssumption    == SigSize \in Nat /\ MaxRuns \in Nat

VARIABLES
    nimb,   \* the revision of the Nimbusfile on disk
    pub,    \* the set of pieces that is published
    step,   \* where each build is
    job,    \* what each build has read and decided
    temps,  \* the temporary files of each build's present run
    image,  \* the file at each output path: at most one
    lock,   \* the .lock file beside it: at most one
    runs    \* runs each process has begun

buildVars == <<nimb, pub, step, job, temps, image, lock, runs>>
vars      == <<keyVars, buildVars>>

Temps == {"squashfs", "workspace", "rawtmp", "partial", "locktmp"}
Steps == {"off", "parse", "resolve", "check", "assemble", "keys", "workspace",
          "create", "finish", "rename", "lockread", "lockhash", "lockwrite",
          "lockrename", "done", "failed"}

\* The pair a bring-your-own-certificate build signs with, and no pair at all.
OwnPair == [key |-> -1, cert |-> -1]

(***************************************************************************)
(* What a build has read: the flags, the revision it parsed, the set it    *)
(* resolved, the pair it signs with and the revision it read again for the *)
(* lock file.  An image is what it was made from.                          *)
(***************************************************************************)
NewJob(c)     == [cmd |-> c, rev |-> 0, set |-> 0, pair |-> NoPair, whole |-> FALSE,
                  reread |-> 0, hash |-> {}]
NoJob         == NewJob([secure |-> "off", uki |-> FALSE, lock |-> FALSE])
Nimb(p)       == Nimbusfiles[job[p].rev]
Set(p)        == Sets[job[p].set]
ImageOf(p)    == [rev |-> job[p].rev, set |-> job[p].set, cmd |-> job[p].cmd,
                  pair |-> job[p].pair, whole |-> job[p].whole]

TypeOK ==
    /\ KeyTypeOK
    /\ nimb \in DOMAIN Nimbusfiles /\ pub \in DOMAIN Sets
    /\ step \in [Builds -> Steps]
    /\ temps \in [Builds -> SUBSET Temps]
    /\ runs \in [Builds -> 0..MaxRuns]
    /\ \A p \in Builds :
          /\ step[p] \notin {"off", "parse", "failed"} => job[p].rev \in DOMAIN Nimbusfiles
          /\ step[p] \notin {"off", "parse", "resolve", "failed"} => job[p].set \in DOMAIN Sets

Init ==
    /\ KeyInit
    /\ nimb = 1 /\ pub = 1
    /\ step = [p \in Builds |-> "off"]
    /\ job = [p \in Builds |-> NoJob]
    /\ temps = [p \in Builds |-> {}]
    /\ image = [p \in Builds |-> {}]
    /\ lock = [p \in Builds |-> {}]
    /\ runs = [p \in Builds |-> 0]

\* The step a build takes when it goes from step s to step t.
Goes(p, s, t) == step[p] = s /\ step' = [step EXCEPT ![p] = t]

----------------------------------------------------------------------------
(* The world around the builds. *)

Edit ==
    /\ nimb < Len(Nimbusfiles) /\ nimb' = nimb + 1
    /\ UNCHANGED <<keyVars, pub, step, job, temps, image, lock, runs>>

Republish ==
    /\ pub < Len(Sets) /\ pub' = pub + 1
    /\ UNCHANGED <<keyVars, nimb, step, job, temps, image, lock, runs>>

----------------------------------------------------------------------------
(* runBuild. *)

Start(p) ==
    /\ step[p] \in {"off", "done", "failed"}
    /\ runs[p] < MaxRuns
    /\ runs' = [runs EXCEPT ![p] = @ + 1]
    /\ step' = [step EXCEPT ![p] = "parse"]
    /\ \E c \in Commands : job' = [job EXCEPT ![p] = NewJob(c)]
    /\ temps' = [temps EXCEPT ![p] = {}]
    /\ UNCHANGED <<keyVars, nimb, pub, image, lock>>

Parse(p) ==
    /\ Goes(p, "parse", "resolve")
    /\ job' = [job EXCEPT ![p].rev = nimb]
    /\ UNCHANGED <<keyVars, nimb, pub, temps, image, lock, runs>>

Resolve(p) ==
    /\ Goes(p, "resolve", "check")
    /\ job' = [job EXCEPT ![p].set = pub]
    /\ UNCHANGED <<keyVars, nimb, pub, temps, image, lock, runs>>

\* A mutant of Compatible: a field an older pieces.json does not have matches
\* every profile.
CompatibleAnyBoot(nf, s) ==
    s.prov => /\ s.arch \in {"", nf.arch}
              /\ s.vga = nf.vga
              /\ s.boot \in {"", nf.boot}

\* The pieces were prepared for what the Nimbusfile declares, as far as their
\* pieces.json tells.
EffectiveBoot(s) == IF s.boot = "" THEN "none" ELSE s.boot
Compatible(nf, s) ==
    s.prov => /\ s.arch \in {"", nf.arch}
              /\ s.vga = nf.vga
              /\ EffectiveBoot(s) = nf.boot

Check(p) ==
    /\ Goes(p, "check", "assemble")
    /\ Compatible(Nimb(p), Set(p))
    /\ UNCHANGED <<keyVars, nimb, pub, job, temps, image, lock, runs>>

\* resolveCopies and BuildImages: the SquashFS root is a temporary file the run
\* owns from here on.
Assemble(p) ==
    /\ Goes(p, "assemble", IF job[p].cmd.secure = "off" THEN "workspace" ELSE "keys")
    /\ ResolveCopies(Nimb(p).copies).ok
    /\ temps' = [temps EXCEPT ![p] = @ \cup {"squashfs"}]
    /\ UNCHANGED <<keyVars, nimb, pub, job, image, lock, runs>>

\* applySecureboot with --secureboot-key and --secureboot-cert.
SignOwn(p) ==
    /\ job[p].cmd.secure = "own"
    /\ Goes(p, "keys", "workspace")
    /\ job' = [job EXCEPT ![p].pair = OwnPair]
    /\ UNCHANGED <<keyVars, nimb, pub, temps, image, lock, runs>>

\* applySecureboot with the pair of --secureboot-dir: LoadOrGenerate, then sign
\* with what it returned.
AskKeys(p) ==
    /\ step[p] = "keys" /\ job[p].cmd.secure = "auto" /\ kstep[p] = "off"
    /\ Enter(p)
    /\ UNCHANGED buildVars

SignAuto(p) ==
    /\ kstep[p] = "ready"
    /\ Goes(p, "keys", "workspace")
    /\ job' = [job EXCEPT ![p].pair = mem[p]]
    /\ kstep' = [kstep EXCEPT ![p] = "off"]
    /\ mem' = [mem EXCEPT ![p] = NoPair]
    /\ UNCHANGED <<keyFile, certFile, fresh, mishaps, nimb, pub, temps, image, lock, runs>>

\* The bytes that boot: the kernel, with the initramfs in it for a UKI, signed
\* or not.
VmlinuzSize(p) ==
    LET c == job[p].cmd
    IN Set(p).vmlinuz + (IF c.uki THEN Nimb(p).initramfs ELSE 0)
         + (IF c.secure = "off" THEN 0 ELSE SigSize)

\* FORMAT iso builds its tree in a workspace and gives up when the EFI payload
\* is too large for El Torito; FORMAT vhd writes a raw disk beside the output
\* first; FORMAT raw writes the output itself.
Workspace(p) ==
    /\ Goes(p, "workspace", "create")
    /\ Nimb(p).format = "iso" => FitsElTorito(VmlinuzSize(p), Nimb(p).initramfs)
    /\ temps' = [temps EXCEPT ![p] = @ \cup
                   (CASE Nimb(p).format = "iso" -> {"workspace"}
                      [] Nimb(p).format = "vhd" -> {"rawtmp"}
                      [] OTHER                  -> {})]
    /\ UNCHANGED <<keyVars, nimb, pub, job, image, lock, runs>>

Create(p) ==
    /\ Goes(p, "create", "finish")
    /\ temps' = [temps EXCEPT ![p] = @ \cup {"partial"}]
    /\ UNCHANGED <<keyVars, nimb, pub, job, image, lock, runs>>

\* The last byte is written; the deferred RemoveAll of the workspace and the
\* removal of the raw disk have run.
Finish(p) ==
    /\ Goes(p, "finish", "rename")
    /\ job' = [job EXCEPT ![p].whole = TRUE]
    /\ temps' = [temps EXCEPT ![p] = @ \ {"workspace", "rawtmp"}]
    /\ UNCHANGED <<keyVars, nimb, pub, image, lock, runs>>

Rename(p) ==
    /\ Goes(p, "rename", IF job[p].cmd.lock THEN "lockread" ELSE "done")
    /\ image' = [image EXCEPT ![p] = {ImageOf(p)}]
    /\ temps' = [temps EXCEPT ![p] = @ \ (IF job[p].cmd.lock THEN {"partial"}
                                          ELSE {"partial", "squashfs"})]
    /\ UNCHANGED <<keyVars, nimb, pub, job, lock, runs>>

\* The Nimbusfile is read a second time, the image is hashed where it now is,
\* and the lock file replaces the last one in a rename (writeFileAtomic).
LockRead(p) ==
    /\ Goes(p, "lockread", "lockhash")
    /\ job' = [job EXCEPT ![p].reread = nimb]
    /\ UNCHANGED <<keyVars, nimb, pub, temps, image, lock, runs>>

LockHash(p) ==
    /\ Goes(p, "lockhash", "lockwrite")
    /\ job' = [job EXCEPT ![p].hash = image[p]]
    /\ UNCHANGED <<keyVars, nimb, pub, temps, image, lock, runs>>

LockWrite(p) ==
    /\ Goes(p, "lockwrite", "lockrename")
    /\ temps' = [temps EXCEPT ![p] = @ \cup {"locktmp"}]
    /\ UNCHANGED <<keyVars, nimb, pub, job, image, lock, runs>>

\* A mutant of Lock: the pieces are hashed as they are published by then.
LockPublished(p) == [rev |-> job[p].reread, set |-> pub, pair |-> job[p].pair,
                     uki |-> job[p].cmd.uki, hash |-> job[p].hash]

\* BuildLock: the hashes of the Nimbusfile, of the pieces, of the kernel as it
\* was shipped and of the image.
Lock(p) == [rev |-> job[p].reread, set |-> job[p].set, pair |-> job[p].pair,
            uki |-> job[p].cmd.uki, hash |-> job[p].hash]

LockRename(p) ==
    /\ Goes(p, "lockrename", "done")
    /\ lock' = [lock EXCEPT ![p] = {Lock(p)}]
    /\ temps' = [temps EXCEPT ![p] = @ \ {"locktmp", "squashfs"}]
    /\ UNCHANGED <<keyVars, nimb, pub, job, image, runs>>

\* A mutant of Removed: a failed rename leaves the partial image.
RemovedWrite(s) ==
    {"squashfs"}
      \cup (IF s \in {"workspace", "create", "finish"} THEN {"workspace", "rawtmp", "partial"} ELSE {})
      \cup (IF s \in {"lockwrite", "lockrename"} THEN {"locktmp"} ELSE {})

\* What a run removes when a step returns an error: the SquashFS root in every
\* case (defer); what the write of the image left; the temporary lock file.
Removed(s) ==
    {"squashfs"}
      \cup (IF s \in {"workspace", "create", "finish"} THEN {"workspace", "rawtmp"} ELSE {})
      \cup (IF s \in {"workspace", "create", "finish", "rename"} THEN {"partial"} ELSE {})
      \cup (IF s \in {"lockwrite", "lockrename"} THEN {"locktmp"} ELSE {})

\* Any step returns an error; the image and the lock stay.
Fail(p) ==
    /\ step[p] \notin {"off", "done", "failed"}
    /\ kstep[p] \notin Busy
    /\ step' = [step EXCEPT ![p] = "failed"]
    /\ kstep' = [kstep EXCEPT ![p] = "off"]
    /\ temps' = [temps EXCEPT ![p] = @ \ Removed(step[p])]
    /\ mem' = [mem EXCEPT ![p] = NoPair]
    /\ job' = [job EXCEPT ![p] = NoJob]
    /\ UNCHANGED <<keyFile, certFile, fresh, mishaps, nimb, pub, image, lock, runs>>

\* SIGKILL: nothing is cleaned up, and what was renamed stays renamed.
Kill(p) ==
    /\ step[p] \notin {"off", "done", "failed"}
    /\ step' = [step EXCEPT ![p] = "off"]
    /\ kstep' = [kstep EXCEPT ![p] = "off"]
    /\ temps' = [temps EXCEPT ![p] = {}]
    /\ mem' = [mem EXCEPT ![p] = NoPair]
    /\ job' = [job EXCEPT ![p] = NoJob]
    /\ UNCHANGED <<keyFile, certFile, fresh, mishaps, nimb, pub, image, lock, runs>>

----------------------------------------------------------------------------
(* cnimbus keygen --secureboot. *)

Keygen(p) ==
    /\ fresh < MaxPairs
    /\ Enter(p)
    /\ UNCHANGED buildVars

KeygenKill(p) ==
    /\ kstep[p] \in Busy
    /\ kstep' = [kstep EXCEPT ![p] = "off"]
    /\ mem' = [mem EXCEPT ![p] = NoPair]
    /\ UNCHANGED <<keyFile, certFile, fresh, mishaps, buildVars>>

Build(p) ==
    \/ Start(p) \/ Parse(p) \/ Resolve(p) \/ Check(p) \/ Assemble(p)
    \/ SignOwn(p) \/ AskKeys(p) \/ SignAuto(p)
    \/ Workspace(p) \/ Create(p) \/ Finish(p) \/ Rename(p)
    \/ LockRead(p) \/ LockHash(p) \/ LockWrite(p) \/ LockRename(p)

Next ==
    \/ Edit \/ Republish
    \/ \E p \in Builds : Build(p) \/ Fail(p) \/ Kill(p)
    \/ \E p \in Keygens : Keygen(p) \/ KeygenKill(p)
    \/ \E p \in Procs : KeyStep(p) /\ UNCHANGED buildVars

Spec == Init /\ [][Next]_vars

----------------------------------------------------------------------------
(* Properties. *)

Images == UNION {image[p] : p \in Builds}

\* The file at an output path is an image that boots: written to its end, of
\* pieces that fit its Nimbusfile, whose firmware entry loads all of the kernel
\* and the initramfs (16 bits wide), or whose partitions and geometry are sound
\* (build.go "a partial, invalid image at exactly the path a user would next try
\* to boot").
Bootable ==
    \A im \in Images :
        LET nf == Nimbusfiles[im.rev]
            s  == Sets[im.set]
            vm == s.vmlinuz + (IF im.cmd.uki THEN nf.initramfs ELSE 0)
                    + (IF im.cmd.secure = "off" THEN 0 ELSE SigSize)
        IN /\ im.whole
           /\ s.prov => /\ s.arch \in {"", nf.arch} /\ s.vga = nf.vga
                        /\ s.boot = nf.boot \/ (s.boot = "" /\ nf.boot = "none")
           /\ nf.format = "iso" => LoadsAll(vm, nf.initramfs, LoadBlocks(vm, nf.initramfs))
           /\ nf.format # "iso" => LayoutSound(vm, nf.initramfs, nf.squashfs)
           /\ nf.format = "vhd" =>
                 GeometrySound(DiskSize(vm, nf.initramfs, nf.squashfs) \div SectorSize)

\* An image has every regular file its Nimbusfile names (a directive that fails
\* ends the build; a symbolic link in a tarball is dropped with a warning), and no entry of an ADDed tarball lands outside the directory it was added to,
\* however its name climbs and descends, nor outside the image unless the
\* destination in the Nimbusfile already does (build.go, safeImagePath).
StaysInside ==
    \A im \in Images :
        LET r == ResolveCopies(Nimbusfiles[im.rev].copies)
        IN  r.ok /\ Contained(r.files)

\* A lock file that names the image beside it tells what is in it: its pieces,
\* the kernel that was shipped, and a Nimbusfile at least as new as the one it
\* was built from; and a build that succeeds leaves such a lock (lockfile.go,
\* BuildLock).  A build killed after the rename leaves the lock of an older
\* image, which must not pass for the lock of the new one.
LockTells ==
    \A p \in Builds :
        /\ \A l \in lock[p] : \A im \in image[p] :
              im \in l.hash => /\ l.set = im.set /\ l.pair = im.pair /\ l.uki = im.cmd.uki
                               /\ l.rev >= im.rev
        /\ step[p] = "done" /\ job[p].cmd.lock =>
              \E l \in lock[p] : l.hash = image[p] /\ image[p] # {}

\* A run that ends, well or with an error, leaves none of its temporary files:
\* not the SquashFS root, the ISO workspace, the raw disk of a VHD, the partial
\* image or the lock file's (build.go, the deferred and the best-effort Remove).
CleanExit == \A p \in Builds : step[p] \in {"done", "failed"} => temps[p] = {}

\* As long as no two processes have been in the key directory at once and keygen
\* could read what it found, an image that build-disk signed with the pair of
\* --secureboot-dir can be enrolled: the certificate in the directory is the one
\* whose key signed it (build.go "enroll %s/%s into your hypervisor's UEFI db").
Enrollable ==
    mishaps = {} =>
        \A im \in Images :
            im.cmd.secure = "auto" => im.pair = [key |-> keyFile, cert |-> certFile]
                                      /\ keyFile = certFile /\ keyFile # 0
=============================================================================
