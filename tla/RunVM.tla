------------------------------- MODULE RunVM -------------------------------
(***************************************************************************)
(* `cnimbus run` (cmd/cnimbus/run*.go, backend.go): each command makes     *)
(* what its hypervisor needs to boot an image -- a registration, a work    *)
(* directory with a wrapper around the image, a forwarding rule -- one     *)
(* external command after another, any of which may fail, and tidies up    *)
(* after a failure, where the tidying may fail as well.  qemu stays in the *)
(* foreground; the other three return once the guest runs and leave it     *)
(* behind.  Commands run beside one another and beside what earlier ones   *)
(* left, under the same default name, and may be killed.                   *)
(*                                                                         *)
(* The hypervisors are external.  VirtualBox refuses a second VM of a name *)
(* and deletes, with `unregistervm --delete`, the hard disk attached to    *)
(* the VM.  Hyper-V allows a name twice, and its cmdlets act on every VM   *)
(* of the name they are given.                                             *)
(***************************************************************************)
EXTENDS Integers, FiniteSets

CONSTANTS
    Runs,    \* the run commands, each given once
    Specs    \* what a command can ask for (launchSpec)

ASSUME SpecsAssumption ==
    \A s \in Specs :
        /\ s.backend \in {"qemu", "vbox", "vmware", "hyperv"}
        /\ s.arch \in {"amd64", "arm64"} /\ {s.iso, s.keep, s.uefi} \subseteq BOOLEAN
        /\ s.host \in Int /\ s.guest \in Int

VARIABLES
    pc,      \* what a command does next
    spec,    \* what it was asked for
    vms,     \* the registered VMs
    images,  \* the image files there are
    dirs,    \* the commands whose work directory exists
    rules,   \* the portproxy rules of the Hyper-V host
    nvram,   \* the synthesized OVMF variable stores, and who wrote each
    refused  \* history: what a command tried to remove and could not

vars == <<pc, spec, vms, images, dirs, rules, nvram, refused>>

Files == {s.image : s \in Specs}
Ended == {"ok", "failed", "killed"}
Steps == {"workdir", "wrap", "create", "config", "attach", "start", "forward", "probe",
          "ovmf", "qemu", "guest", "cleanup", "rmdir"}
Stores == {[arch |-> s.arch, name |-> s.name] : s \in Specs}

\* A VM: the command that made it, its hypervisor and name, whether it runs, and
\* the command whose image it boots, from a drive, in place or from a wrapper.
VMs == [by : Runs, backend : {"vbox", "vmware", "hyperv"}, name : {s.name : s \in Specs},
        on : BOOLEAN, disk : {"none", "dvd", "image", "wrapper"}, of : Runs]

\* Every variable keeps to the values the code gives it.
TypeOK ==
    /\ pc \in [Runs -> {"idle"} \cup Ended \cup Steps]
    /\ spec \in [Runs -> Specs]
    /\ vms \subseteq VMs /\ images \subseteq Files /\ dirs \subseteq Runs
    /\ rules \subseteq [port : {s.host : s \in Specs}, bind : {s.bind : s \in Specs},
                        guest : {s.guest : s \in Specs}]
    /\ DOMAIN nvram \subseteq Stores /\ \A k \in DOMAIN nvram : nvram[k] \subseteq Runs
    /\ refused \subseteq Runs \X {"vm", "dir", "store"}

Init ==
    /\ pc = [r \in Runs |-> "idle"]
    /\ spec \in [Runs -> Specs]
    /\ vms = {} /\ images = Files /\ dirs = {} /\ rules = {}
    /\ nvram = [k \in {} |-> {}] /\ refused = {}

-----------------------------------------------------------------------------
\* r's next step.
Goto(r, step) == pc' = [pc EXCEPT ![r] = step]

\* The VMs a command of r's hypervisor finds under r's name, and r's own.
Named(r) == {v \in vms : v.backend = spec[r].backend /\ v.name = spec[r].name}
Own(r)   == {v \in vms : v.by = r}

\* validateHostfwd.
ValidateHostfwd(s) == s.host \in 1..65535 /\ s.guest \in 1..65535

\* An arm64 guest has no BIOS; the others boot by UEFI when asked to.
QemuUEFI(s) == s.uefi \/ s.arch = "arm64"

\* The variable store of a VM name and an architecture.
Store(s) == [arch |-> s.arch, name |-> s.name]

\* runRun: flags, the image and the architecture are checked before anything
\* is made.
RunRun(r) ==
    /\ pc[r] = "idle"
    /\ LET s == spec[r]
           first == CASE s.backend = "qemu" -> IF QemuUEFI(s) THEN "ovmf" ELSE "qemu"
                      [] s.backend = "vbox" -> "create"
                      [] s.backend = "vmware" -> "workdir"
                      [] s.backend = "hyperv" -> IF s.iso THEN "create" ELSE "workdir"
       IN  Goto(r, IF \/ ~ValidateHostfwd(s)
                      \/ s.image \notin images
                      \/ s.backend \in {"vmware", "hyperv"} /\ s.arch # "amd64"
                   THEN "failed" ELSE first)
    /\ UNCHANGED <<spec, vms, images, dirs, rules, nvram, refused>>

MkdirTemp(r) ==
    /\ pc[r] = "workdir"
    /\ dirs' = dirs \cup {r}
    /\ Goto(r, "wrap")
    /\ UNCHANGED <<spec, vms, images, rules, nvram, refused>>

\* writeFlatVMDK, whose extent is the image itself, and the .vmx.
WriteVmx(r) ==
    /\ pc[r] = "wrap" /\ spec[r].backend = "vmware" /\ spec[r].image \in images
    /\ Goto(r, "start")
    /\ UNCHANGED <<spec, vms, images, dirs, rules, nvram, refused>>

\* writeFixedVHD: a copy of the image with a footer; the image is only read.
WriteFixedVHD(r) ==
    /\ pc[r] = "wrap" /\ spec[r].backend = "hyperv" /\ spec[r].image \in images
    /\ Goto(r, "create")
    /\ UNCHANGED <<spec, vms, images, dirs, rules, nvram, refused>>

NewVM(r) == [by |-> r, backend |-> spec[r].backend, name |-> spec[r].name, on |-> FALSE,
             disk |-> "none", of |-> r]

\* createvm --register: VirtualBox refuses a name it has.
CreateVbox(r) ==
    /\ pc[r] = "create" /\ spec[r].backend = "vbox" /\ Named(r) = {}
    /\ vms' = vms \cup {NewVM(r)}
    /\ Goto(r, "config")
    /\ UNCHANGED <<spec, images, dirs, rules, nvram, refused>>

\* The elevation check, the switch with its address and its NAT, and New-VM.
CreateHyperV(r) ==
    /\ pc[r] = "create" /\ spec[r].backend = "hyperv"
    /\ vms' = vms \cup {NewVM(r)}
    /\ Goto(r, "attach")
    /\ UNCHANGED <<spec, images, dirs, rules, nvram, refused>>

\* modifyvm (memory, NIC, firmware, port forward) and storagectl.
ConfigureVM(r) ==
    /\ pc[r] = "config"
    /\ Goto(r, "attach")
    /\ UNCHANGED <<spec, vms, images, dirs, rules, nvram, refused>>

\* What an attach command does to the VMs of r's name, none of which may run.
Attached(r, disk) ==
    /\ Own(r) # {} /\ \A v \in Named(r) : ~v.on
    /\ vms' = (vms \ Named(r)) \cup {[v EXCEPT !.disk = disk, !.of = r] : v \in Named(r)}

\* storageattach: a raw image is attached as it is.
AttachVbox(r) ==
    /\ pc[r] = "attach" /\ spec[r].backend = "vbox" /\ spec[r].image \in images
    /\ Attached(r, IF spec[r].iso THEN "dvd" ELSE "image")
    /\ Goto(r, "start")
    /\ UNCHANGED <<spec, images, dirs, rules, nvram, refused>>

\* Set-VMDvdDrive or Add-VMHardDiskDrive, Set-VMFirmware or Set-VMBios and
\* Connect-VMNetworkAdapter, each on every VM of the name.
AttachHyperV(r) ==
    /\ pc[r] = "attach" /\ spec[r].backend = "hyperv" /\ spec[r].image \in images
    /\ Attached(r, IF spec[r].iso THEN "dvd" ELSE "wrapper")
    /\ Goto(r, "start")
    /\ UNCHANGED <<spec, images, dirs, rules, nvram, refused>>

\* startvm, Start-VM: the disk must be there, and serves one running VM.
StartVM(r) ==
    /\ pc[r] = "start" /\ spec[r].backend # "vmware" /\ spec[r].image \in images
    /\ Own(r) # {} /\ (spec[r].iso \/ Cardinality(Named(r)) = 1)
    /\ \A v \in Named(r) : v.disk = "wrapper" => v.of \in dirs
    /\ vms' = (vms \ Named(r)) \cup {[v EXCEPT !.on = TRUE] : v \in Named(r)}
    /\ Goto(r, IF spec[r].backend = "hyperv" THEN "forward" ELSE "ok")
    /\ UNCHANGED <<spec, images, dirs, rules, nvram, refused>>

\* A mutant of VmrunStart: the work directory goes with every return of launch.
VmrunStartTidies(r) ==
    /\ pc[r] = "start" /\ spec[r].backend = "vmware" /\ spec[r].image \in images
    /\ vms' = vms \cup {[NewVM(r) EXCEPT !.on = TRUE,
                                         !.disk = IF spec[r].iso THEN "dvd" ELSE "image"]}
    /\ Goto(r, "rmdir")
    /\ UNCHANGED <<spec, images, dirs, rules, nvram, refused>>

\* vmrun registers nothing: it starts the .vmx it is given, whatever its name.
VmrunStart(r) ==
    /\ pc[r] = "start" /\ spec[r].backend = "vmware" /\ spec[r].image \in images
    /\ vms' = vms \cup {[NewVM(r) EXCEPT !.on = TRUE,
                                         !.disk = IF spec[r].iso THEN "dvd" ELSE "image"]}
    /\ Goto(r, "ok")
    /\ UNCHANGED <<spec, images, dirs, rules, nvram, refused>>

\* netsh portproxy: the rules on the two usual addresses go, then one is added.
Forward(r) ==
    LET s == spec[r]
    IN  /\ pc[r] = "forward"
        /\ rules' = {q \in rules : ~(q.port = s.host /\ q.bind \in {"any", "loopback", s.bind})}
                    \cup {[port |-> s.host, bind |-> s.bind, guest |-> s.guest]}
        /\ Goto(r, "probe")
        /\ UNCHANGED <<spec, vms, images, dirs, nvram, refused>>

\* The guest answers, or thirty probes go unanswered; both leave it running.
Probe(r) ==
    /\ pc[r] = "probe"
    /\ Goto(r, "ok")
    /\ UNCHANGED <<spec, vms, images, dirs, rules, nvram, refused>>

\* resolveWindowsBundledOVMF: a blank store, unless there is one of that name.
WithStore(s) == [k \in DOMAIN nvram \cup {Store(s)} |-> IF k \in DOMAIN nvram THEN nvram[k] ELSE {}]

\* findQEMU finds the program, and resolveOVMF the firmware.
ResolveOVMF(r) ==
    /\ pc[r] = "ovmf"
    /\ nvram' = WithStore(spec[r])
    /\ Goto(r, "qemu")
    /\ UNCHANGED <<spec, vms, images, dirs, rules, refused>>

\* One of the two fails.  describeQEMUCommand, for the command it prints, calls
\* resolveOVMF all the same, and a WriteFile may stop half-way: either leaves
\* a store, whole or short, whose removal nobody has deferred.
ResolveFails(r) ==
    /\ pc[r] = "ovmf"
    /\ nvram' \in {nvram, WithStore(spec[r])}
    /\ Goto(r, "failed")
    /\ UNCHANGED <<spec, vms, images, dirs, rules, refused>>

\* qemu opens its files, and its firmware writes to the store.
StartQemu(r) ==
    /\ pc[r] = "qemu" /\ spec[r].image \in images
    /\ QemuUEFI(spec[r]) => Store(spec[r]) \in DOMAIN nvram
    /\ nvram' = IF QemuUEFI(spec[r])
                THEN [nvram EXCEPT ![Store(spec[r])] = @ \cup {r}] ELSE nvram
    /\ Goto(r, "guest")
    /\ UNCHANGED <<spec, vms, images, dirs, rules, refused>>

\* A mutant of Discards: the store is left for the next command.
DiscardsNever(r) == FALSE

\* The command has deferred the removal of its store.
Discards(r) == QemuUEFI(spec[r]) /\ ~spec[r].keep

\* Another qemu has r's store open, and Windows will not remove it.
StoreOpen(r) == \E q \in Runs \ {r} :
    pc[q] = "guest" /\ QemuUEFI(spec[q]) /\ Store(spec[q]) = Store(spec[r])

\* qemu ends with its guest, or never starts; the command ends with it, and its
\* os.Remove, if it fails, fails silently.
QemuEnds(r) ==
    /\ pc[r] \in {"qemu", "guest"}
    /\ \/ ~Discards(r) /\ UNCHANGED <<nvram, refused>>
       \/ /\ Discards(r) /\ ~StoreOpen(r)
          /\ nvram' = [k \in DOMAIN nvram \ {Store(spec[r])} |-> nvram[k]]
          /\ UNCHANGED refused
       \/ /\ Discards(r) /\ refused' = refused \cup {<<r, "store">>}
          /\ UNCHANGED nvram
    /\ Goto(r, IF pc[r] = "guest" THEN "ok" ELSE "failed")
    /\ UNCHANGED <<spec, vms, images, dirs, rules>>

-----------------------------------------------------------------------------
\* A mutant of Undo: the VM is removed whoever made it.
UndoAny(r) ==
    CASE spec[r].backend = "vbox" -> "cleanup"
      [] spec[r].backend = "hyperv" /\ pc[r] \notin {"workdir", "wrap"} -> "cleanup"
      [] spec[r].backend = "hyperv" /\ pc[r] = "wrap" -> "rmdir"
      [] spec[r].backend = "vmware" /\ pc[r] # "workdir" -> "rmdir"
      [] OTHER -> "failed"

\* What a failed step leads to: vbox registers its clean-up only once createvm
\* has succeeded, and Hyper-V's comes after its script, whatever that has done.
Undo(r) ==
    CASE spec[r].backend = "vbox" /\ pc[r] # "create" -> "cleanup"
      [] spec[r].backend = "hyperv" /\ pc[r] \notin {"workdir", "wrap"} -> "cleanup"
      [] spec[r].backend = "hyperv" /\ pc[r] = "wrap" -> "rmdir"
      [] spec[r].backend = "vmware" /\ pc[r] # "workdir" -> "rmdir"
      [] OTHER -> "failed"

\* Any command may fail; the three-minute limit of the Hyper-V script counts
\* as a failure of the step it cuts short.
StepFails(r) ==
    /\ pc[r] \in Steps \ {"ovmf", "qemu", "guest", "cleanup", "rmdir"}
    /\ Goto(r, Undo(r))
    /\ UNCHANGED <<spec, vms, images, dirs, rules, nvram, refused>>

\* unregistervm --delete takes the attached hard disk with it.
Deleted(gone) == {spec[v.of].image : v \in {w \in gone : w.backend = "vbox" /\ w.disk = "image"}}

\* unregistervm, by the name of the VM.  When it fails, the command says so.
CleanupVbox(r) ==
    /\ pc[r] = "cleanup" /\ spec[r].backend = "vbox"
    /\ \/ spec[r].keep /\ UNCHANGED <<vms, images, refused>>
       \/ /\ ~spec[r].keep
          /\ vms' = vms \ Named(r) /\ images' = images \ Deleted(Named(r))
          /\ UNCHANGED refused
       \/ /\ ~spec[r].keep /\ refused' = refused \cup {<<r, "vm">>}
          /\ UNCHANGED <<vms, images>>
    /\ Goto(r, "failed")
    /\ UNCHANGED <<spec, dirs, rules, nvram>>

\* Stop-VM and Remove-VM by name, whatever --vm-keep says and even if there was
\* a VM before this command.  Their errors are ignored: any VM of the name may
\* stay, stopped or not.
CleanupHyperV(r) ==
    /\ pc[r] = "cleanup" /\ spec[r].backend = "hyperv"
    /\ \E gone \in SUBSET Named(r) : \E stopped \in SUBSET (Named(r) \ gone) :
          /\ vms' = (vms \ (gone \cup stopped)) \cup {[v EXCEPT !.on = FALSE] : v \in stopped}
          /\ refused' = IF gone = Named(r) THEN refused ELSE refused \cup {<<r, "vm">>}
    /\ Goto(r, IF spec[r].iso THEN "failed" ELSE "rmdir")
    /\ UNCHANGED <<spec, images, dirs, rules, nvram>>

\* A mutant of Left: every failed command leaves its directory.
LeftAlways(r) == dirs

\* The work directories there are once r has tidied up: its own only if kept.
Left(r) == IF spec[r].keep THEN dirs ELSE dirs \ {r}

\* A running VM has its disk in r's directory, and Windows will not remove it.
DirOpen(r) == \E v \in vms : v.on /\ v.disk = "wrapper" /\ v.of = r

\* os.RemoveAll, which may fail; the command says so.
RemoveAll(r) ==
    /\ \/ (spec[r].keep \/ ~DirOpen(r)) /\ dirs' = Left(r) /\ UNCHANGED refused
       \/ /\ ~spec[r].keep /\ refused' = refused \cup {<<r, "dir">>}
          /\ UNCHANGED dirs
    /\ Goto(r, "failed")
    /\ UNCHANGED <<spec, vms, images, rules, nvram>>

\* cleanupWorkDir.
CleanupVmware(r) == pc[r] = "rmdir" /\ spec[r].backend = "vmware" /\ RemoveAll(r)

\* The deferred removal of the VHD wrapper.
RemoveWrapper(r) == pc[r] = "rmdir" /\ spec[r].backend = "hyperv" /\ RemoveAll(r)

\* SIGKILL: nothing is tidied up.
Killed(r) ==
    /\ pc[r] \in Steps
    /\ Goto(r, "killed")
    /\ UNCHANGED <<spec, vms, images, dirs, rules, nvram, refused>>

\* The guest shuts down; the VM stays registered.
GuestEnds(v) ==
    /\ v.on
    /\ vms' = (vms \ {v}) \cup {[v EXCEPT !.on = FALSE]}
    /\ UNCHANGED <<pc, spec, images, dirs, rules, nvram, refused>>

\* The user follows the instructions the command printed; a file that is open
\* cannot be deleted.
UserRemoves(v) ==
    /\ ~v.on /\ pc[v.by] \in Ended
    /\ vms' = vms \ {v} /\ images' = images \ Deleted({v})
    /\ dirs' = IF \E w \in vms : w.on /\ w.of = v.by THEN dirs ELSE dirs \ {v.by}
    /\ UNCHANGED <<pc, spec, rules, nvram, refused>>

Run(r) == \/ RunRun(r) \/ MkdirTemp(r) \/ WriteVmx(r) \/ WriteFixedVHD(r)
          \/ CreateVbox(r) \/ CreateHyperV(r) \/ ConfigureVM(r) \/ AttachVbox(r)
          \/ AttachHyperV(r) \/ StartVM(r) \/ VmrunStart(r) \/ Forward(r) \/ Probe(r)
          \/ ResolveOVMF(r) \/ ResolveFails(r) \/ StartQemu(r) \/ QemuEnds(r) \/ StepFails(r)
          \/ CleanupVbox(r) \/ CleanupHyperV(r) \/ CleanupVmware(r) \/ RemoveWrapper(r)
          \/ Killed(r)

Next == \/ \E r \in Runs : Run(r)
        \/ \E v \in vms : GuestEnds(v) \/ UserRemoves(v)

Spec == Init /\ [][Next]_vars

-----------------------------------------------------------------------------
Makers(set) == {v.by : v \in set}

\* A command that failed has left a VM or a work directory of its own behind
\* only if it was told to keep it, or tried to remove it and could not -- at
\* whatever step it failed, and whatever other commands did to VMs of that name
\* meanwhile (cleanupUnlessStartedOrKept, cleanupWorkDir, cleanupVM).
CleanFailure ==
    \A r \in Runs : pc[r] = "failed" =>
        /\ Own(r) = {} \/ (spec[r].keep /\ spec[r].backend = "vbox") \/ <<r, "vm">> \in refused
        /\ r \notin dirs \/ spec[r].keep \/ <<r, "dir">> \in refused

\* A VM that runs has the directory its disk, or its .vmx, is in: no command
\* removes the files of a guest it left running, on purpose or because it could
\* not remove it.
DiskStays ==
    \A v \in vms : v.on /\ (v.backend = "vmware" \/ v.disk = "wrapper") => v.of \in dirs

\* The variables a guest's firmware wrote are in a store only while that guest
\* runs, or because its command was killed, was told to keep them, or could not
\* remove the store: apart from these four, no guest finds those of an earlier one
\* of its name (the deferred os.Remove of launch).
VarsForgotten ==
    \A k \in DOMAIN nvram : \A r \in nvram[k] :
        pc[r] \in {"guest", "killed"} \/ spec[r].keep \/ <<r, "store">> \in refused

\* A vbox or vmware command removes no VM but the one it made, however it ends
\* and whatever VM had the name before.
RemovesOwn ==
    [][\A r \in Runs : spec[r].backend # "hyperv" /\ pc'[r] # pc[r] =>
          Makers(vms) \ {r} \subseteq Makers(vms')]_vars

\* No command stops or removes a running VM that another one made.
LeavesAlone ==
    [][\A r \in Runs : pc'[r] # pc[r] =>
          Makers({v \in vms : v.on}) \ {r} \subseteq Makers({v \in vms' : v.on})]_vars

\* No command deletes the image it was given.
ImagesStay == [][\A r \in Runs : pc'[r] # pc[r] => images' = images]_vars

\* The rule a command adds is the only one on its port.
OneRule == [][\A r \in Runs : Forward(r) =>
                  \A q \in rules' : q.port = spec[r].host => q.bind = spec[r].bind]_vars
=============================================================================
