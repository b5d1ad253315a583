---------------------------- MODULE RunVMProofs ----------------------------
(***************************************************************************)
(* What TLAPS proves about RunVM, for any number of commands of any kind.  *)
(* The inductive invariant says which steps a command of each hypervisor   *)
(* takes, which commands can have a VM or a work directory, and that a     *)
(* VirtualBox command between createvm and its clean-up holds its name.    *)
(***************************************************************************)
EXTENDS RunVM, TLAPS

\* The steps of a command, by its hypervisor.
StepsOf(b) ==
    CASE b = "qemu"   -> {"ovmf", "qemu", "guest"}
      [] b = "vbox"   -> {"create", "config", "attach", "start", "cleanup"}
      [] b = "vmware" -> {"workdir", "wrap", "start", "rmdir"}
      [] b = "hyperv" -> {"workdir", "wrap", "create", "attach", "start", "forward",
                          "probe", "cleanup", "rmdir"}

Paths == \A r \in Runs :
    /\ pc[r] \in {"idle"} \cup Ended \cup StepsOf(spec[r].backend)
    /\ pc[r] = "ovmf" => QemuUEFI(spec[r])
    /\ spec[r].backend = "hyperv" /\ pc[r] = "workdir" => ~spec[r].iso

\* A VM is of the hypervisor and the name of the command that made it, and of
\* the one whose image it boots.
Made == \A v \in vms :
    /\ v.backend = spec[v.by].backend /\ v.name = spec[v.by].name
    /\ v.backend = spec[v.of].backend /\ v.name = spec[v.of].name
    /\ v.backend = "vmware" => v.of = v.by
    /\ v.disk = "wrapper" => v.backend = "hyperv"

\* The steps at which command q, asked for s, can have a VM, F being what could
\* not be removed.
Owns(s, q, p, F) ==
    \/ s.backend = "vbox" /\ p \in {"config", "attach", "start", "cleanup", "ok", "killed"}
    \/ s.backend = "vbox" /\ p = "failed" /\ (s.keep \/ <<q, "vm">> \in F)
    \/ s.backend = "hyperv" /\ p \in {"attach", "start", "forward", "probe", "cleanup", "ok", "killed"}
    \/ s.backend = "hyperv" /\ p \in {"rmdir", "failed"} /\ <<q, "vm">> \in F
    \/ s.backend = "vmware" /\ p = "ok"

Owners == \A v \in vms : Owns(spec[v.by], v.by, pc[v.by], refused)

\* The commands that can have a work directory.
Kept == \A r \in Runs :
    /\ r \in dirs => /\ spec[r].backend = "vmware" \/ (spec[r].backend = "hyperv" /\ ~spec[r].iso)
                     /\ pc[r] \notin {"idle", "workdir"}
                     /\ pc[r] = "failed" => spec[r].keep \/ <<r, "dir">> \in refused
    /\ spec[r].backend = "vmware" /\ pc[r] \in {"wrap", "start"} => r \in dirs

\* A store holds the variables of commands that were given it.
Writers == \A k \in DOMAIN nvram : \A r \in nvram[k] : QemuUEFI(spec[r]) /\ k = Store(spec[r])

\* Between createvm and the clean-up the name is the command's.
Holding == {"config", "attach", "start", "cleanup"}
Held == \A r \in Runs :
    spec[r].backend = "vbox" /\ pc[r] \in Holding =>
        Own(r) # {} /\ \A v \in Named(r) : v.by = r

IInv == TypeOK /\ Paths /\ Made /\ Owners /\ Kept /\ Held /\ Writers /\ DiskStays /\ VarsForgotten

-----------------------------------------------------------------------------
(* The operators the steps are made of. *)

\* What a start or a shutdown leaves of a VM.
LEMMA Switched ==
  ASSUME NEW v \in VMs, NEW b \in BOOLEAN
  PROVE  LET w == [v EXCEPT !.on = b]
         IN  /\ w \in VMs /\ w.by = v.by /\ w.backend = v.backend /\ w.name = v.name
             /\ w.on = b /\ w.disk = v.disk /\ w.of = v.of
  BY DEF VMs

\* A VM just made, and one that vmrun starts.
LEMMA NewVMType ==
  ASSUME TypeOK, NEW r \in Runs, spec[r].backend \in {"vbox", "hyperv", "vmware"}
  PROVE  /\ NewVM(r) \in VMs /\ NewVM(r).by = r /\ NewVM(r).of = r /\ ~NewVM(r).on
         /\ NewVM(r).backend = spec[r].backend /\ NewVM(r).name = spec[r].name
         /\ NewVM(r).disk = "none"
<1>1. spec[r] \in Specs
  BY DEF TypeOK
<1>. QED
  BY <1>1 DEF NewVM, VMs

Started(r) == [NewVM(r) EXCEPT !.on = TRUE, !.disk = IF spec[r].iso THEN "dvd" ELSE "image"]

LEMMA StartedType ==
  ASSUME TypeOK, NEW r \in Runs, spec[r].backend = "vmware"
  PROVE  /\ Started(r) \in VMs /\ Started(r).by = r /\ Started(r).of = r
         /\ Started(r).backend = "vmware" /\ Started(r).name = spec[r].name
         /\ Started(r).disk \in {"dvd", "image"}
<1>1. spec[r] \in Specs
  BY DEF TypeOK
<1>. QED
  BY <1>1 DEF Started, NewVM, VMs

\* What a command was asked for stays.
LEMMA SpecStays == [Next]_vars => spec' = spec
  BY DEF Next, Run, RunRun, MkdirTemp, WriteVmx, WriteFixedVHD, CreateVbox, CreateHyperV,
     ConfigureVM, AttachVbox, AttachHyperV, StartVM, VmrunStart, Forward, Probe, ResolveOVMF,
     ResolveFails, StartQemu, QemuEnds, StepFails, CleanupVbox, CleanupHyperV, CleanupVmware,
     RemoveWrapper, RemoveAll, Killed, GuestEnds, UserRemoves, vars

\* w is v, as far as its maker can tell.
Kin(w, v) == w.by = v.by /\ w.backend = v.backend /\ w.name = v.name

\* The VMs of r's name after an attach.
LEMMA AfterAttach ==
  ASSUME TypeOK, NEW r \in Runs, NEW d \in {"none", "dvd", "image", "wrapper"}, Attached(r, d)
  PROVE  /\ \A w \in vms' : w \in VMs /\ \E v \in vms :
                /\ Kin(w, v) /\ w.on = v.on
                /\ w = v \/ (v \in Named(r) /\ ~w.on /\ w.of = r /\ w.disk = d)
         /\ \A v \in vms : \E w \in vms' : Kin(w, v) /\ w.on = v.on
<1>. DEFINE New(v) == [v EXCEPT !.disk = d, !.of = r]
<1>1. vms \subseteq VMs /\ Named(r) \subseteq vms /\ \A v \in Named(r) : ~v.on
  BY DEF TypeOK, Named, Attached
<1>2. vms' = (vms \ Named(r)) \cup {New(v) : v \in Named(r)}
  BY DEF Attached
<1>3. \A v \in Named(r) : /\ New(v) \in VMs /\ Kin(New(v), v) /\ New(v).on = v.on
                          /\ New(v).disk = d /\ New(v).of = r
  <2>. TAKE v \in Named(r)
  <2>1. v \in VMs
    BY <1>1
  <2>. QED
    BY <2>1 DEF VMs, Kin
<1>. HIDE DEF New
<1>4. ASSUME NEW w \in vms'
      PROVE  w \in VMs /\ \E v \in vms :
                /\ Kin(w, v) /\ w.on = v.on
                /\ w = v \/ (v \in Named(r) /\ ~w.on /\ w.of = r /\ w.disk = d)
  <2>1. CASE w \in vms
    BY <2>1, <1>1 DEF Kin
  <2>2. CASE w \in {New(v) : v \in Named(r)}
    BY <2>2, <1>1, <1>3
  <2>. QED
    BY <1>2, <2>1, <2>2
<1>5. ASSUME NEW v \in vms PROVE \E w \in vms' : Kin(w, v) /\ w.on = v.on
  <2>1. CASE v \in Named(r)
    BY <2>1, <1>2, <1>3
  <2>2. CASE v \notin Named(r)
    BY <2>2, <1>2 DEF Kin
  <2>. QED
    BY <2>1, <2>2
<1>. QED
  BY <1>4, <1>5

\* The VMs of r's name after a start.
LEMMA AfterStart ==
  ASSUME TypeOK, NEW r \in Runs, StartVM(r)
  PROVE  /\ \A w \in vms' : w \in VMs /\ \E v \in vms :
                /\ Kin(w, v) /\ w.of = v.of /\ w.disk = v.disk /\ (w = v \/ v \in Named(r))
         /\ \A v \in vms : \E w \in vms' : Kin(w, v) /\ (w = v \/ w.on)
<1>. DEFINE New(v) == [v EXCEPT !.on = TRUE]
<1>1. vms \subseteq VMs /\ Named(r) \subseteq vms
  BY DEF TypeOK, Named
<1>2. vms' = (vms \ Named(r)) \cup {New(v) : v \in Named(r)}
  BY DEF StartVM
<1>3. \A v \in Named(r) : /\ New(v) \in VMs /\ Kin(New(v), v) /\ New(v).on
                          /\ New(v).disk = v.disk /\ New(v).of = v.of
  BY <1>1, Switched DEF Kin
<1>. HIDE DEF New
<1>4. ASSUME NEW w \in vms'
      PROVE  w \in VMs /\ \E v \in vms :
                /\ Kin(w, v) /\ w.of = v.of /\ w.disk = v.disk /\ (w = v \/ v \in Named(r))
  <2>1. CASE w \in vms
    BY <2>1, <1>1 DEF Kin
  <2>2. CASE w \in {New(v) : v \in Named(r)}
    BY <2>2, <1>1, <1>3
  <2>. QED
    BY <1>2, <2>1, <2>2
<1>5. ASSUME NEW v \in vms PROVE \E w \in vms' : Kin(w, v) /\ (w = v \/ w.on)
  <2>1. CASE v \in Named(r)
    BY <2>1, <1>2, <1>3
  <2>2. CASE v \notin Named(r)
    BY <2>2, <1>2 DEF Kin
  <2>. QED
    BY <2>1, <2>2
<1>. QED
  BY <1>4, <1>5

\* The VMs after a guest shuts down.
LEMMA AfterGuest ==
  ASSUME TypeOK, NEW v \in vms, GuestEnds(v)
  PROVE  /\ \A w \in vms' : w \in VMs /\ \E x \in vms :
                /\ Kin(w, x) /\ w.of = x.of /\ w.disk = x.disk /\ (w = x \/ ~w.on)
         /\ \A x \in vms : \E w \in vms' : Kin(w, x)
<1>. DEFINE off == [v EXCEPT !.on = FALSE]
<1>1. vms \subseteq VMs /\ vms' = (vms \ {v}) \cup {off}
  BY DEF TypeOK, GuestEnds
<1>2. off \in VMs /\ Kin(off, v) /\ ~off.on /\ off.disk = v.disk /\ off.of = v.of
  BY <1>1, Switched DEF Kin
<1>. HIDE DEF off
<1>. QED
  BY <1>1, <1>2 DEF Kin

\* The VMs after Stop-VM and Remove-VM, which may have failed on any of them.
LEMMA AfterHyperV ==
  ASSUME TypeOK, NEW r \in Runs, CleanupHyperV(r)
  PROVE  /\ \A w \in vms' : w \in VMs /\ \E v \in vms :
                /\ Kin(w, v) /\ w.of = v.of /\ w.disk = v.disk
                /\ w = v \/ (v \in Named(r) /\ ~w.on)
         /\ \A v \in vms \ Named(r) : v \in vms'
         /\ vms' = vms \ Named(r) \/ <<r, "vm">> \in refused'
         /\ refused \subseteq refused' /\ refused' \subseteq refused \cup {<<r, "vm">>}
<1>. DEFINE Off(v) == [v EXCEPT !.on = FALSE]
<1>1. PICK gone \in SUBSET Named(r), stopped \in SUBSET Named(r) :
          /\ stopped \subseteq Named(r) \ gone
          /\ vms' = (vms \ (gone \cup stopped)) \cup {Off(v) : v \in stopped}
          /\ refused' = IF gone = Named(r) THEN refused ELSE refused \cup {<<r, "vm">>}
  BY DEF CleanupHyperV
<1>2. vms \subseteq VMs /\ Named(r) \subseteq vms
  BY DEF TypeOK, Named
<1>3. \A v \in stopped : /\ Off(v) \in VMs /\ Kin(Off(v), v) /\ ~Off(v).on
                         /\ Off(v).disk = v.disk /\ Off(v).of = v.of
  BY <1>1, <1>2, Switched DEF Kin
<1>. HIDE DEF Off
<1>4. ASSUME NEW w \in vms'
      PROVE  w \in VMs /\ \E v \in vms :
                /\ Kin(w, v) /\ w.of = v.of /\ w.disk = v.disk
                /\ w = v \/ (v \in Named(r) /\ ~w.on)
  <2>1. CASE w \in vms
    BY <2>1, <1>2 DEF Kin
  <2>2. CASE w \in {Off(v) : v \in stopped}
    BY <2>2, <1>1, <1>2, <1>3
  <2>. QED
    BY <1>1, <2>1, <2>2
<1>5. CASE gone = Named(r)
  <2>1. stopped = {} /\ vms' = vms \ Named(r) /\ refused' = refused
    BY <1>1, <1>5
  <2>. QED
    BY <1>4, <2>1
<1>6. CASE gone # Named(r)
  <2>1. refused' = refused \cup {<<r, "vm">>}
    BY <1>1, <1>6
  <2>2. \A v \in vms \ Named(r) : v \in vms'
    BY <1>1
  <2>. QED
    BY <1>4, <2>1, <2>2
<1>. QED
  BY <1>5, <1>6

\* The directions a failed step takes, by hypervisor.
LEMMA UndoTo ==
  ASSUME NEW r \in Runs
  PROVE  /\ Undo(r) \in {"cleanup", "rmdir", "failed"}
         /\ Undo(r) = "cleanup" <=>
               \/ spec[r].backend = "vbox" /\ pc[r] # "create"
               \/ spec[r].backend = "hyperv" /\ pc[r] \notin {"workdir", "wrap"}
         /\ Undo(r) = "rmdir" <=>
               \/ spec[r].backend = "hyperv" /\ pc[r] = "wrap"
               \/ spec[r].backend = "vmware" /\ pc[r] # "workdir"
  BY DEF Undo

\* The first step of a command, by hypervisor.
LEMMA RunTo ==
  ASSUME TypeOK, NEW r \in Runs, RunRun(r)
  PROVE  \E p : /\ pc' = [pc EXCEPT ![r] = p]
                /\ \/ p = "failed"
                   \/ p = "ovmf" /\ spec[r].backend = "qemu" /\ QemuUEFI(spec[r])
                   \/ p = "qemu" /\ spec[r].backend = "qemu"
                   \/ p = "create" /\ spec[r].backend \in {"vbox", "hyperv"}
                   \/ p = "workdir" /\ spec[r].backend = "vmware"
                   \/ p = "workdir" /\ spec[r].backend = "hyperv" /\ ~spec[r].iso
<1>1. spec[r] \in Specs
  BY DEF TypeOK
<1>2. spec[r].backend \in {"qemu", "vbox", "vmware", "hyperv"}
  BY <1>1, SpecsAssumption
<1>. DEFINE s == spec[r]
            first == CASE s.backend = "qemu" -> IF QemuUEFI(s) THEN "ovmf" ELSE "qemu"
                       [] s.backend = "vbox" -> "create"
                       [] s.backend = "vmware" -> "workdir"
                       [] s.backend = "hyperv" -> IF s.iso THEN "create" ELSE "workdir"
            fails == \/ ~ValidateHostfwd(s) \/ s.image \notin images
                     \/ s.backend \in {"vmware", "hyperv"} /\ s.arch # "amd64"
<1>3. pc' = [pc EXCEPT ![r] = IF fails THEN "failed" ELSE first]
  BY DEF RunRun, Goto
<1>4. \/ first = "ovmf" /\ s.backend = "qemu" /\ QemuUEFI(s)
      \/ first = "qemu" /\ s.backend = "qemu"
      \/ first = "create" /\ s.backend \in {"vbox", "hyperv"}
      \/ first = "workdir" /\ s.backend = "vmware"
      \/ first = "workdir" /\ s.backend = "hyperv" /\ ~s.iso
  BY <1>2
<1>5. CASE fails
  <2>1. pc' = [pc EXCEPT ![r] = "failed"]
    BY <1>3, <1>5
  <2>. QED
    BY <2>1
<1>6. CASE ~fails
  <2>1. pc' = [pc EXCEPT ![r] = first]
    BY <1>3, <1>6
  <2>. HIDE DEF first
  <2>. QED
    BY <2>1, <1>4
<1>. QED
  BY <1>5, <1>6

LEMMA VMsStep ==
  ASSUME TypeOK, [Next]_vars
  PROVE  vms' \subseteq VMs
<1>0. vms \subseteq VMs
  BY DEF TypeOK
<1>. USE <1>0
<1>1. ASSUME NEW r \in Runs, RunRun(r) PROVE vms' \subseteq VMs
  BY <1>1 DEF RunRun
<1>2. ASSUME NEW r \in Runs, MkdirTemp(r) PROVE vms' \subseteq VMs
  BY <1>2 DEF MkdirTemp
<1>3. ASSUME NEW r \in Runs, WriteVmx(r) PROVE vms' \subseteq VMs
  BY <1>3 DEF WriteVmx
<1>4. ASSUME NEW r \in Runs, WriteFixedVHD(r) PROVE vms' \subseteq VMs
  BY <1>4 DEF WriteFixedVHD
<1>5. ASSUME NEW r \in Runs, CreateVbox(r) PROVE vms' \subseteq VMs
  BY <1>5, NewVMType DEF CreateVbox
<1>6. ASSUME NEW r \in Runs, CreateHyperV(r) PROVE vms' \subseteq VMs
  BY <1>6, NewVMType DEF CreateHyperV
<1>7. ASSUME NEW r \in Runs, ConfigureVM(r) PROVE vms' \subseteq VMs
  BY <1>7 DEF ConfigureVM
<1>8. ASSUME NEW r \in Runs, AttachVbox(r) PROVE vms' \subseteq VMs
  BY <1>8, AfterAttach DEF AttachVbox
<1>9. ASSUME NEW r \in Runs, AttachHyperV(r) PROVE vms' \subseteq VMs
  BY <1>9, AfterAttach DEF AttachHyperV
<1>10. ASSUME NEW r \in Runs, StartVM(r) PROVE vms' \subseteq VMs
  BY <1>10, AfterStart
<1>11. ASSUME NEW r \in Runs, VmrunStart(r) PROVE vms' \subseteq VMs
  <2>1. vms' = vms \cup {Started(r)} /\ spec[r].backend = "vmware"
    BY <1>11 DEF VmrunStart, Started
  <2>. QED
    BY <2>1, StartedType
<1>12. ASSUME NEW r \in Runs, Forward(r) PROVE vms' \subseteq VMs
  BY <1>12 DEF Forward
<1>13. ASSUME NEW r \in Runs, Probe(r) PROVE vms' \subseteq VMs
  BY <1>13 DEF Probe
<1>14. ASSUME NEW r \in Runs, ResolveOVMF(r) PROVE vms' \subseteq VMs
  BY <1>14 DEF ResolveOVMF
<1>15. ASSUME NEW r \in Runs, StartQemu(r) PROVE vms' \subseteq VMs
  BY <1>15 DEF StartQemu
<1>16. ASSUME NEW r \in Runs, QemuEnds(r) PROVE vms' \subseteq VMs
  BY <1>16 DEF QemuEnds
<1>17. ASSUME NEW r \in Runs, StepFails(r) PROVE vms' \subseteq VMs
  BY <1>17 DEF StepFails
<1>18. ASSUME NEW r \in Runs, CleanupVbox(r) PROVE vms' \subseteq VMs
  BY <1>18 DEF CleanupVbox
<1>19. ASSUME NEW r \in Runs, CleanupVmware(r) PROVE vms' \subseteq VMs
  BY <1>19 DEF CleanupVmware, RemoveAll
<1>20. ASSUME NEW r \in Runs, CleanupHyperV(r) PROVE vms' \subseteq VMs
  BY <1>20, AfterHyperV
<1>21. ASSUME NEW r \in Runs, Killed(r) PROVE vms' \subseteq VMs
  BY <1>21 DEF Killed
<1>22. ASSUME NEW v \in vms, GuestEnds(v) PROVE vms' \subseteq VMs
  BY <1>22, AfterGuest
<1>23. ASSUME NEW v \in vms, UserRemoves(v) PROVE vms' \subseteq VMs
  BY <1>23 DEF UserRemoves
<1>25. ASSUME NEW r \in Runs, ResolveFails(r) PROVE vms' \subseteq VMs
  BY <1>25 DEF ResolveFails
<1>26. ASSUME NEW r \in Runs, RemoveWrapper(r) PROVE vms' \subseteq VMs
  BY <1>26 DEF RemoveWrapper, RemoveAll
<1>24. CASE UNCHANGED vars
  BY <1>24 DEF vars
<1>. QED
  BY <1>1, <1>2, <1>3, <1>4, <1>5, <1>6, <1>7, <1>8, <1>9, <1>10, <1>11, <1>12, <1>13, <1>14, <1>15, <1>16, <1>17, <1>18, <1>19, <1>20, <1>21, <1>22, <1>23, <1>24, <1>25, <1>26 DEF Next, Run

LEMMA TypeStep ==
  ASSUME TypeOK, [Next]_vars
  PROVE  TypeOK'
<1>0. vms' \subseteq VMs /\ spec' = spec
  BY VMsStep, SpecStays
<1>. USE <1>0 DEF TypeOK, Ended, Steps, Goto
<1>1. ASSUME NEW r \in Runs, RunRun(r) PROVE TypeOK'
  <2>1. PICK p \in {"failed", "ovmf", "qemu", "create", "workdir"} : pc' = [pc EXCEPT ![r] = p]
    BY <1>1, RunTo
  <2>. QED
    BY <1>1, <2>1 DEF RunRun
<1>2. ASSUME NEW r \in Runs, MkdirTemp(r) PROVE TypeOK'
  BY <1>2 DEF MkdirTemp
<1>3. ASSUME NEW r \in Runs, WriteVmx(r) PROVE TypeOK'
  BY <1>3 DEF WriteVmx
<1>4. ASSUME NEW r \in Runs, WriteFixedVHD(r) PROVE TypeOK'
  BY <1>4 DEF WriteFixedVHD
<1>5. ASSUME NEW r \in Runs, CreateVbox(r) PROVE TypeOK'
  BY <1>5 DEF CreateVbox
<1>6. ASSUME NEW r \in Runs, CreateHyperV(r) PROVE TypeOK'
  BY <1>6 DEF CreateHyperV
<1>7. ASSUME NEW r \in Runs, ConfigureVM(r) PROVE TypeOK'
  BY <1>7 DEF ConfigureVM
<1>8. ASSUME NEW r \in Runs, AttachVbox(r) PROVE TypeOK'
  BY <1>8 DEF AttachVbox
<1>9. ASSUME NEW r \in Runs, AttachHyperV(r) PROVE TypeOK'
  BY <1>9 DEF AttachHyperV
<1>10. ASSUME NEW r \in Runs, StartVM(r) PROVE TypeOK'
  BY <1>10 DEF StartVM
<1>11. ASSUME NEW r \in Runs, VmrunStart(r) PROVE TypeOK'
  BY <1>11 DEF VmrunStart
<1>12. ASSUME NEW r \in Runs, Forward(r) PROVE TypeOK'
  BY <1>12 DEF Forward
<1>13. ASSUME NEW r \in Runs, Probe(r) PROVE TypeOK'
  BY <1>13 DEF Probe
<1>14. ASSUME NEW r \in Runs, ResolveOVMF(r) PROVE TypeOK'
  BY <1>14 DEF ResolveOVMF, WithStore, Store, Stores
<1>15. ASSUME NEW r \in Runs, StartQemu(r) PROVE TypeOK'
  BY <1>15 DEF StartQemu
<1>16. ASSUME NEW r \in Runs, QemuEnds(r) PROVE TypeOK'
  BY <1>16 DEF QemuEnds
<1>17. ASSUME NEW r \in Runs, StepFails(r) PROVE TypeOK'
  BY <1>17, UndoTo DEF StepFails
<1>18. ASSUME NEW r \in Runs, CleanupVbox(r) PROVE TypeOK'
  BY <1>18 DEF CleanupVbox
<1>19. ASSUME NEW r \in Runs, CleanupVmware(r) PROVE TypeOK'
  BY <1>19 DEF CleanupVmware, RemoveAll, Left
<1>20. ASSUME NEW r \in Runs, CleanupHyperV(r) PROVE TypeOK'
  BY <1>20 DEF CleanupHyperV
<1>21. ASSUME NEW r \in Runs, Killed(r) PROVE TypeOK'
  BY <1>21 DEF Killed
<1>22. ASSUME NEW v \in vms, GuestEnds(v) PROVE TypeOK'
  BY <1>22 DEF GuestEnds
<1>23. ASSUME NEW v \in vms, UserRemoves(v) PROVE TypeOK'
  BY <1>23 DEF UserRemoves
<1>25. ASSUME NEW r \in Runs, ResolveFails(r) PROVE TypeOK'
  BY <1>25 DEF ResolveFails, WithStore, Store, Stores
<1>26. ASSUME NEW r \in Runs, RemoveWrapper(r) PROVE TypeOK'
  BY <1>26 DEF RemoveWrapper, RemoveAll, Left
<1>24. CASE UNCHANGED vars
  BY <1>24 DEF vars
<1>. QED
  BY <1>1, <1>2, <1>3, <1>4, <1>5, <1>6, <1>7, <1>8, <1>9, <1>10, <1>11, <1>12, <1>13, <1>14, <1>15, <1>16, <1>17, <1>18, <1>19, <1>20, <1>21, <1>22, <1>23, <1>24, <1>25, <1>26 DEF Next, Run

\* The type of what a command was asked for.
LEMMA SpecType ==
  ASSUME TypeOK, NEW r \in Runs
  PROVE  /\ spec[r] \in Specs /\ spec[r].backend \in {"qemu", "vbox", "vmware", "hyperv"}
         /\ spec[r].keep \in BOOLEAN
  BY SpecsAssumption DEF TypeOK

LEMMA PathsStep ==
  ASSUME TypeOK, Paths, [Next]_vars
  PROVE  Paths'
<1>0. /\ spec' = spec /\ pc \in [Runs -> {"idle"} \cup Ended \cup Steps]
      /\ \A r \in Runs : spec[r].backend \in {"qemu", "vbox", "vmware", "hyperv"}
  BY SpecStays, SpecType DEF TypeOK
<1>. USE <1>0 DEF Paths, StepsOf, Ended, Goto
<1>1. ASSUME NEW r \in Runs, RunRun(r) PROVE Paths'
  BY <1>1, RunTo DEF RunRun
<1>2. ASSUME NEW r \in Runs, MkdirTemp(r) PROVE Paths'
  BY <1>2 DEF MkdirTemp
<1>3. ASSUME NEW r \in Runs, WriteVmx(r) PROVE Paths'
  BY <1>3 DEF WriteVmx
<1>4. ASSUME NEW r \in Runs, WriteFixedVHD(r) PROVE Paths'
  BY <1>4 DEF WriteFixedVHD
<1>5. ASSUME NEW r \in Runs, CreateVbox(r) PROVE Paths'
  BY <1>5 DEF CreateVbox
<1>6. ASSUME NEW r \in Runs, CreateHyperV(r) PROVE Paths'
  BY <1>6 DEF CreateHyperV
<1>7. ASSUME NEW r \in Runs, ConfigureVM(r) PROVE Paths'
  BY <1>7 DEF ConfigureVM
<1>8. ASSUME NEW r \in Runs, AttachVbox(r) PROVE Paths'
  BY <1>8 DEF AttachVbox
<1>9. ASSUME NEW r \in Runs, AttachHyperV(r) PROVE Paths'
  BY <1>9 DEF AttachHyperV
<1>10. ASSUME NEW r \in Runs, StartVM(r) PROVE Paths'
  BY <1>10 DEF StartVM
<1>11. ASSUME NEW r \in Runs, VmrunStart(r) PROVE Paths'
  BY <1>11 DEF VmrunStart
<1>12. ASSUME NEW r \in Runs, Forward(r) PROVE Paths'
  BY <1>12 DEF Forward
<1>13. ASSUME NEW r \in Runs, Probe(r) PROVE Paths'
  BY <1>13 DEF Probe
<1>14. ASSUME NEW r \in Runs, ResolveOVMF(r) PROVE Paths'
  BY <1>14 DEF ResolveOVMF
<1>15. ASSUME NEW r \in Runs, StartQemu(r) PROVE Paths'
  BY <1>15 DEF StartQemu
<1>16. ASSUME NEW r \in Runs, QemuEnds(r) PROVE Paths'
  BY <1>16 DEF QemuEnds
<1>17. ASSUME NEW r \in Runs, StepFails(r) PROVE Paths'
  BY <1>17, UndoTo DEF StepFails, Steps
<1>18. ASSUME NEW r \in Runs, CleanupVbox(r) PROVE Paths'
  BY <1>18 DEF CleanupVbox
<1>19. ASSUME NEW r \in Runs, CleanupVmware(r) PROVE Paths'
  BY <1>19 DEF CleanupVmware, RemoveAll
<1>20. ASSUME NEW r \in Runs, CleanupHyperV(r) PROVE Paths'
  BY <1>20 DEF CleanupHyperV
<1>21. ASSUME NEW r \in Runs, Killed(r) PROVE Paths'
  BY <1>21 DEF Killed
<1>22. ASSUME NEW v \in vms, GuestEnds(v) PROVE Paths'
  BY <1>22 DEF GuestEnds
<1>23. ASSUME NEW v \in vms, UserRemoves(v) PROVE Paths'
  BY <1>23 DEF UserRemoves
<1>25. ASSUME NEW r \in Runs, ResolveFails(r) PROVE Paths'
  BY <1>25 DEF ResolveFails
<1>26. ASSUME NEW r \in Runs, RemoveWrapper(r) PROVE Paths'
  BY <1>26 DEF RemoveWrapper, RemoveAll
<1>24. CASE UNCHANGED vars
  BY <1>24 DEF vars
<1>. QED
  BY <1>1, <1>2, <1>3, <1>4, <1>5, <1>6, <1>7, <1>8, <1>9, <1>10, <1>11, <1>12, <1>13, <1>14, <1>15, <1>16, <1>17, <1>18, <1>19, <1>20, <1>21, <1>22, <1>23, <1>24, <1>25, <1>26 DEF Next, Run

LEMMA MadeStep ==
  ASSUME TypeOK, Made, [Next]_vars
  PROVE  Made'
<1>0. /\ spec' = spec
      /\ \A v \in vms : v.by \in Runs /\ v.of \in Runs
      /\ vms' \subseteq vms => Made'
  BY SpecStays DEF TypeOK, VMs, Made
<1>. USE <1>0
<1>1. ASSUME NEW r \in Runs, RunRun(r) PROVE Made'
  BY <1>1 DEF RunRun
<1>2. ASSUME NEW r \in Runs, MkdirTemp(r) PROVE Made'
  BY <1>2 DEF MkdirTemp
<1>3. ASSUME NEW r \in Runs, WriteVmx(r) PROVE Made'
  BY <1>3 DEF WriteVmx
<1>4. ASSUME NEW r \in Runs, WriteFixedVHD(r) PROVE Made'
  BY <1>4 DEF WriteFixedVHD
<1>5. ASSUME NEW r \in Runs, CreateVbox(r) PROVE Made'
  BY <1>5, NewVMType DEF CreateVbox, Made
<1>6. ASSUME NEW r \in Runs, CreateHyperV(r) PROVE Made'
  BY <1>6, NewVMType DEF CreateHyperV, Made
<1>7. ASSUME NEW r \in Runs, ConfigureVM(r) PROVE Made'
  BY <1>7 DEF ConfigureVM
<1>8. ASSUME NEW r \in Runs, AttachVbox(r) PROVE Made'
  <2>1. PICK d \in {"dvd", "image"} : Attached(r, d)
    BY <1>8 DEF AttachVbox
  <2>2. spec[r].backend = "vbox"
    BY <1>8 DEF AttachVbox
  <2>3. SUFFICES ASSUME NEW w \in vms'
                 PROVE  /\ w.backend = spec[w.by].backend /\ w.name = spec[w.by].name
                        /\ w.backend = spec[w.of].backend /\ w.name = spec[w.of].name
                        /\ w.backend = "vmware" => w.of = w.by
                        /\ w.disk = "wrapper" => w.backend = "hyperv"
    BY DEF Made
  <2>4. PICK v \in vms : Kin(w, v) /\ (w = v \/ (v \in Named(r) /\ w.of = r /\ w.disk # "wrapper"))
    BY <2>1, AfterAttach
  <2>5. CASE w = v
    BY <2>5 DEF Made
  <2>6. CASE v \in Named(r) /\ w.of = r /\ w.disk # "wrapper"
    BY <2>2, <2>4, <2>6 DEF Kin, Named, Made
  <2>. QED
    BY <2>4, <2>5, <2>6
<1>9. ASSUME NEW r \in Runs, AttachHyperV(r) PROVE Made'
  <2>1. PICK d \in {"dvd", "wrapper"} : Attached(r, d)
    BY <1>9 DEF AttachHyperV
  <2>2. spec[r].backend = "hyperv"
    BY <1>9 DEF AttachHyperV
  <2>3. SUFFICES ASSUME NEW w \in vms'
                 PROVE  /\ w.backend = spec[w.by].backend /\ w.name = spec[w.by].name
                        /\ w.backend = spec[w.of].backend /\ w.name = spec[w.of].name
                        /\ w.backend = "vmware" => w.of = w.by
                        /\ w.disk = "wrapper" => w.backend = "hyperv"
    BY DEF Made
  <2>4. PICK v \in vms : Kin(w, v) /\ (w = v \/ (v \in Named(r) /\ w.of = r))
    BY <2>1, AfterAttach
  <2>5. CASE w = v
    BY <2>5 DEF Made
  <2>6. CASE v \in Named(r) /\ w.of = r
    BY <2>2, <2>4, <2>6 DEF Kin, Named, Made
  <2>. QED
    BY <2>4, <2>5, <2>6
<1>10. ASSUME NEW r \in Runs, StartVM(r) PROVE Made'
  BY <1>10, AfterStart DEF Kin, Made
<1>11. ASSUME NEW r \in Runs, VmrunStart(r) PROVE Made'
  <2>1. vms' = vms \cup {Started(r)} /\ spec[r].backend = "vmware"
    BY <1>11 DEF VmrunStart, Started
  <2>. QED
    BY <2>1, StartedType DEF Made
<1>12. ASSUME NEW r \in Runs, Forward(r) PROVE Made'
  BY <1>12 DEF Forward
<1>13. ASSUME NEW r \in Runs, Probe(r) PROVE Made'
  BY <1>13 DEF Probe
<1>14. ASSUME NEW r \in Runs, ResolveOVMF(r) PROVE Made'
  BY <1>14 DEF ResolveOVMF
<1>15. ASSUME NEW r \in Runs, StartQemu(r) PROVE Made'
  BY <1>15 DEF StartQemu
<1>16. ASSUME NEW r \in Runs, QemuEnds(r) PROVE Made'
  BY <1>16 DEF QemuEnds
<1>17. ASSUME NEW r \in Runs, StepFails(r) PROVE Made'
  BY <1>17 DEF StepFails
<1>18. ASSUME NEW r \in Runs, CleanupVbox(r) PROVE Made'
  BY <1>18 DEF CleanupVbox
<1>19. ASSUME NEW r \in Runs, CleanupVmware(r) PROVE Made'
  BY <1>19 DEF CleanupVmware, RemoveAll
<1>20. ASSUME NEW r \in Runs, CleanupHyperV(r) PROVE Made'
  <2>1. \A w \in vms' : \E v \in vms : Kin(w, v) /\ w.of = v.of /\ w.disk = v.disk
    BY <1>20, AfterHyperV
  <2>. QED
    BY <2>1 DEF Kin, Made
<1>21. ASSUME NEW r \in Runs, Killed(r) PROVE Made'
  BY <1>21 DEF Killed
<1>22. ASSUME NEW v \in vms, GuestEnds(v) PROVE Made'
  BY <1>22, AfterGuest DEF Kin, Made
<1>23. ASSUME NEW v \in vms, UserRemoves(v) PROVE Made'
  BY <1>23 DEF UserRemoves
<1>25. ASSUME NEW r \in Runs, ResolveFails(r) PROVE Made'
  BY <1>25 DEF ResolveFails
<1>26. ASSUME NEW r \in Runs, RemoveWrapper(r) PROVE Made'
  BY <1>26 DEF RemoveWrapper, RemoveAll
<1>24. CASE UNCHANGED vars
  BY <1>24 DEF vars
<1>. QED
  BY <1>1, <1>2, <1>3, <1>4, <1>5, <1>6, <1>7, <1>8, <1>9, <1>10, <1>11, <1>12, <1>13, <1>14, <1>15, <1>16, <1>17, <1>18, <1>19, <1>20, <1>21, <1>22, <1>23, <1>24, <1>25, <1>26 DEF Next, Run

\* What could not be removed only grows, and with it who can have a VM.
LEMMA OwnsMore ==
  ASSUME NEW s, NEW q, NEW p, NEW F, NEW G, F \subseteq G, Owns(s, q, p, F)
  PROVE  Owns(s, q, p, G)
  BY DEF Owns

LEMMA OwnersStep ==
  ASSUME TypeOK, Paths, Made, Owners, [Next]_vars
  PROVE  Owners'
<1>0. /\ spec' = spec /\ pc \in [Runs -> {"idle"} \cup Ended \cup Steps]
      /\ \A r \in Runs : spec[r].backend \in {"qemu", "vbox", "vmware", "hyperv"}
      /\ \A v \in vms : v.by \in Runs
  BY SpecStays, SpecType DEF TypeOK, VMs
<1>. USE <1>0 DEF Owners, Goto
<1>1. ASSUME NEW r \in Runs, RunRun(r) PROVE Owners'
  <2>1. PICK p : pc' = [pc EXCEPT ![r] = p]
    BY <1>1, RunTo
  <2>2. ~Owns(spec[r], r, pc[r], refused) /\ vms' = vms /\ refused' = refused
    BY <1>1 DEF RunRun, Owns
  <2>. QED
    BY <2>1, <2>2
<1>2. ASSUME NEW r \in Runs, MkdirTemp(r) PROVE Owners'
  <2>1. pc' = [pc EXCEPT ![r] = "wrap"] /\ vms' = vms /\ refused' = refused
    BY <1>2 DEF MkdirTemp
  <2>2. Owns(spec[r], r, pc[r], refused) => Owns(spec[r], r, "wrap", refused)
    BY <1>2 DEF MkdirTemp, Owns
  <2>. QED
    BY <2>1, <2>2
<1>3. ASSUME NEW r \in Runs, WriteVmx(r) PROVE Owners'
  <2>1. pc' = [pc EXCEPT ![r] = "start"] /\ vms' = vms /\ refused' = refused
    BY <1>3 DEF WriteVmx
  <2>2. Owns(spec[r], r, pc[r], refused) => Owns(spec[r], r, "start", refused)
    BY <1>3 DEF WriteVmx, Owns
  <2>. QED
    BY <2>1, <2>2
<1>4. ASSUME NEW r \in Runs, WriteFixedVHD(r) PROVE Owners'
  <2>1. pc' = [pc EXCEPT ![r] = "create"] /\ vms' = vms /\ refused' = refused
    BY <1>4 DEF WriteFixedVHD
  <2>2. Owns(spec[r], r, pc[r], refused) => Owns(spec[r], r, "create", refused)
    BY <1>4 DEF WriteFixedVHD, Owns
  <2>. QED
    BY <2>1, <2>2
<1>5. ASSUME NEW r \in Runs, CreateVbox(r) PROVE Owners'
  <2>1. /\ vms' = vms \cup {NewVM(r)} /\ pc' = [pc EXCEPT ![r] = "config"] /\ refused' = refused
        /\ Owns(spec[r], r, "config", refused) /\ NewVM(r).by = r
    BY <1>5, NewVMType DEF CreateVbox, Owns
  <2>. QED
    BY <2>1
<1>6. ASSUME NEW r \in Runs, CreateHyperV(r) PROVE Owners'
  <2>1. /\ vms' = vms \cup {NewVM(r)} /\ pc' = [pc EXCEPT ![r] = "attach"] /\ refused' = refused
        /\ Owns(spec[r], r, "attach", refused) /\ NewVM(r).by = r
    BY <1>6, NewVMType DEF CreateHyperV, Owns
  <2>. QED
    BY <2>1
<1>7. ASSUME NEW r \in Runs, ConfigureVM(r) PROVE Owners'
  <2>1. pc' = [pc EXCEPT ![r] = "attach"] /\ vms' = vms /\ refused' = refused
    BY <1>7 DEF ConfigureVM
  <2>2. Owns(spec[r], r, pc[r], refused) => Owns(spec[r], r, "attach", refused)
    BY <1>7 DEF ConfigureVM, Owns
  <2>. QED
    BY <2>1, <2>2
<1>8. ASSUME NEW r \in Runs, AttachVbox(r) PROVE Owners'
  <2>1. /\ pc' = [pc EXCEPT ![r] = "start"] /\ refused' = refused /\ Owns(spec[r], r, "start", refused)
        /\ \A w \in vms' : \E v \in vms : w.by = v.by
    BY <1>8, AfterAttach DEF AttachVbox, Owns, Kin
  <2>. QED
    BY <2>1
<1>9. ASSUME NEW r \in Runs, AttachHyperV(r) PROVE Owners'
  <2>1. /\ pc' = [pc EXCEPT ![r] = "start"] /\ refused' = refused /\ Owns(spec[r], r, "start", refused)
        /\ \A w \in vms' : \E v \in vms : w.by = v.by
    BY <1>9, AfterAttach DEF AttachHyperV, Owns, Kin
  <2>. QED
    BY <2>1
<1>10. ASSUME NEW r \in Runs, StartVM(r) PROVE Owners'
  <2>1. PICK p \in {"forward", "ok"} :
            /\ pc' = [pc EXCEPT ![r] = p] /\ refused' = refused
            /\ spec[r].backend = "hyperv" \/ p = "ok"
    BY <1>10 DEF StartVM
  <2>2. \A w \in vms' : \E v \in vms : w.by = v.by
    BY <1>10, AfterStart DEF Kin
  <2>3. Owns(spec[r], r, pc[r], refused) => Owns(spec[r], r, p, refused)
    BY <1>10, <2>1 DEF StartVM, Owns
  <2>4. ASSUME NEW v \in vms PROVE Owns(spec[v.by], v.by, pc'[v.by], refused)
    <3>1. CASE v.by = r
      BY <2>1, <2>3, <3>1
    <3>2. CASE v.by # r
      BY <2>1, <3>2
    <3>. QED
      BY <3>1, <3>2
  <2>. QED
    BY <2>1, <2>2, <2>4
<1>11. ASSUME NEW r \in Runs, VmrunStart(r) PROVE Owners'
  <2>1. vms' = vms \cup {Started(r)} /\ pc' = [pc EXCEPT ![r] = "ok"] /\ refused' = refused
        /\ Owns(spec[r], r, "ok", refused) /\ Started(r).by = r
    BY <1>11, StartedType DEF VmrunStart, Started, Owns
  <2>. QED
    BY <2>1
<1>12. ASSUME NEW r \in Runs, Forward(r) PROVE Owners'
  <2>1. pc' = [pc EXCEPT ![r] = "probe"] /\ vms' = vms /\ refused' = refused
    BY <1>12 DEF Forward
  <2>2. Owns(spec[r], r, pc[r], refused) => Owns(spec[r], r, "probe", refused)
    BY <1>12 DEF Forward, Owns
  <2>. QED
    BY <2>1, <2>2
<1>13. ASSUME NEW r \in Runs, Probe(r) PROVE Owners'
  <2>1. pc' = [pc EXCEPT ![r] = "ok"] /\ vms' = vms /\ refused' = refused
    BY <1>13 DEF Probe
  <2>2. Owns(spec[r], r, pc[r], refused) => Owns(spec[r], r, "ok", refused)
    BY <1>13 DEF Probe, Owns
  <2>. QED
    BY <2>1, <2>2
<1>14. ASSUME NEW r \in Runs, ResolveOVMF(r) PROVE Owners'
  <2>1. pc' = [pc EXCEPT ![r] = "qemu"] /\ vms' = vms /\ refused' = refused
    BY <1>14 DEF ResolveOVMF
  <2>2. Owns(spec[r], r, pc[r], refused) => Owns(spec[r], r, "qemu", refused)
    BY <1>14 DEF ResolveOVMF, Owns
  <2>. QED
    BY <2>1, <2>2
<1>15. ASSUME NEW r \in Runs, StartQemu(r) PROVE Owners'
  <2>1. pc' = [pc EXCEPT ![r] = "guest"] /\ vms' = vms /\ refused' = refused
    BY <1>15 DEF StartQemu
  <2>2. Owns(spec[r], r, pc[r], refused) => Owns(spec[r], r, "guest", refused)
    BY <1>15 DEF StartQemu, Owns
  <2>. QED
    BY <2>1, <2>2
<1>16. ASSUME NEW r \in Runs, QemuEnds(r) PROVE Owners'
  <2>1. PICK p : pc' = [pc EXCEPT ![r] = p] /\ vms' = vms
    BY <1>16 DEF QemuEnds
  <2>2. ~Owns(spec[r], r, pc[r], refused) /\ refused \subseteq refused'
    BY <1>16 DEF QemuEnds, Owns
  <2>. QED
    BY <2>1, <2>2, OwnsMore
<1>17. ASSUME NEW r \in Runs, StepFails(r) PROVE Owners'
  <2>1. pc' = [pc EXCEPT ![r] = Undo(r)] /\ vms' = vms /\ refused' = refused
    BY <1>17 DEF StepFails
  <2>2. Owns(spec[r], r, pc[r], refused) => Owns(spec[r], r, Undo(r), refused)
    BY <1>17, UndoTo DEF StepFails, Owns, Steps
  <2>. QED
    BY <2>1, <2>2
<1>18. ASSUME NEW r \in Runs, CleanupVbox(r) PROVE Owners'
  <2>1. /\ pc' = [pc EXCEPT ![r] = "failed"] /\ vms' \subseteq vms /\ refused \subseteq refused'
        /\ pc[r] = "cleanup" /\ spec[r].backend = "vbox"
        /\ spec[r].keep \/ <<r, "vm">> \in refused' \/ vms' = vms \ Named(r)
    BY <1>18 DEF CleanupVbox
  <2>2. spec[r].keep \/ <<r, "vm">> \in refused' => Owns(spec[r], r, "failed", refused')
    BY <2>1 DEF Owns
  <2>3. \A v \in vms : v.by = r => v \in Named(r)
    BY DEF Named, Made
  <2>4. ASSUME NEW v \in vms' PROVE Owns(spec[v.by], v.by, pc'[v.by], refused')
    <3>1. CASE v.by = r
      BY <2>1, <2>2, <2>3, <3>1
    <3>2. CASE v.by # r
      BY <2>1, <3>2, OwnsMore
    <3>. QED
      BY <3>1, <3>2
  <2>. QED
    BY <2>4
<1>19. ASSUME NEW r \in Runs, CleanupVmware(r) PROVE Owners'
  <2>1. pc' = [pc EXCEPT ![r] = "failed"] /\ vms' = vms /\ refused \subseteq refused'
    BY <1>19 DEF CleanupVmware, RemoveAll
  <2>2. ~Owns(spec[r], r, pc[r], refused)
    BY <1>19 DEF CleanupVmware, Owns
  <2>. QED
    BY <2>1, <2>2, OwnsMore
<1>20. ASSUME NEW r \in Runs, CleanupHyperV(r) PROVE Owners'
  <2>1. PICK p \in {"failed", "rmdir"} :
            pc' = [pc EXCEPT ![r] = p] /\ pc[r] = "cleanup" /\ spec[r].backend = "hyperv"
    BY <1>20 DEF CleanupHyperV
  <2>2. \A v \in vms : v.by = r => v \in Named(r)
    BY DEF Named, Made
  <2>3. ASSUME NEW w \in vms' PROVE Owns(spec[w.by], w.by, pc'[w.by], refused')
    <3>1. PICK v \in vms : w.by = v.by
      BY <1>20, AfterHyperV DEF Kin
    <3>2. CASE w.by # r
      BY <1>20, <2>1, <3>1, <3>2, AfterHyperV, OwnsMore
    <3>3. CASE w.by = r
      <4>1. CASE vms' = vms \ Named(r)
        BY <2>2, <2>3, <3>3, <4>1
      <4>2. CASE <<r, "vm">> \in refused'
        BY <2>1, <3>3, <4>2 DEF Owns
      <4>. QED
        BY <1>20, <4>1, <4>2, AfterHyperV
    <3>. QED
      BY <3>2, <3>3
  <2>. QED
    BY <2>3
<1>21. ASSUME NEW r \in Runs, Killed(r) PROVE Owners'
  <2>1. pc' = [pc EXCEPT ![r] = "killed"] /\ vms' = vms /\ refused' = refused
    BY <1>21 DEF Killed
  <2>2. Owns(spec[r], r, pc[r], refused) => Owns(spec[r], r, "killed", refused)
    BY <1>21 DEF Killed, Owns, Steps
  <2>. QED
    BY <2>1, <2>2
<1>22. ASSUME NEW v \in vms, GuestEnds(v) PROVE Owners'
  <2>1. pc' = pc /\ refused' = refused
    BY <1>22 DEF GuestEnds
  <2>2. \A w \in vms' : \E x \in vms : w.by = x.by
    BY <1>22, AfterGuest DEF Kin
  <2>. QED
    BY <2>1, <2>2
<1>23. ASSUME NEW v \in vms, UserRemoves(v) PROVE Owners'
  BY <1>23 DEF UserRemoves
<1>25. ASSUME NEW r \in Runs, ResolveFails(r) PROVE Owners'
  <2>1. pc' = [pc EXCEPT ![r] = "failed"] /\ vms' = vms /\ refused' = refused
    BY <1>25 DEF ResolveFails
  <2>2. ~Owns(spec[r], r, pc[r], refused)
    BY <1>25 DEF ResolveFails, Owns
  <2>. QED
    BY <2>1, <2>2
<1>26. ASSUME NEW r \in Runs, RemoveWrapper(r) PROVE Owners'
  <2>1. /\ pc' = [pc EXCEPT ![r] = "failed"] /\ vms' = vms /\ refused \subseteq refused'
        /\ pc[r] = "rmdir" /\ spec[r].backend = "hyperv"
    BY <1>26 DEF RemoveWrapper, RemoveAll
  <2>2. Owns(spec[r], r, pc[r], refused) => Owns(spec[r], r, "failed", refused)
    BY <2>1 DEF Owns
  <2>3. ASSUME NEW v \in vms PROVE Owns(spec[v.by], v.by, pc'[v.by], refused')
    <3>1. Owns(spec[v.by], v.by, pc'[v.by], refused)
      BY <2>1, <2>2
    <3>. QED
      BY <2>1, <3>1, OwnsMore
  <2>. QED
    BY <2>1, <2>3
<1>24. CASE UNCHANGED vars
  BY <1>24 DEF vars
<1>. QED
  BY <1>1, <1>2, <1>3, <1>4, <1>5, <1>6, <1>7, <1>8, <1>9, <1>10, <1>11, <1>12, <1>13, <1>14, <1>15, <1>16, <1>17, <1>18, <1>19, <1>20, <1>21, <1>22, <1>23, <1>24, <1>25, <1>26 DEF Next, Run

LEMMA KeptStep ==
  ASSUME TypeOK, Paths, Kept, [Next]_vars
  PROVE  Kept'
<1>0. /\ spec' = spec /\ pc \in [Runs -> {"idle"} \cup Ended \cup Steps]
      /\ \A r \in Runs : spec[r].backend \in {"qemu", "vbox", "vmware", "hyperv"}
      /\ \A v \in vms : v.by \in Runs /\ v.of \in Runs
  BY SpecStays, SpecType DEF TypeOK, VMs
<1>. USE <1>0 DEF Kept, Goto, Ended
<1>1. ASSUME NEW r \in Runs, RunRun(r) PROVE Kept'
  BY <1>1, RunTo DEF RunRun
<1>2. ASSUME NEW r \in Runs, MkdirTemp(r) PROVE Kept'
  BY <1>2 DEF MkdirTemp, Paths, StepsOf
<1>3. ASSUME NEW r \in Runs, WriteVmx(r) PROVE Kept'
  BY <1>3 DEF WriteVmx
<1>4. ASSUME NEW r \in Runs, WriteFixedVHD(r) PROVE Kept'
  BY <1>4 DEF WriteFixedVHD
<1>5. ASSUME NEW r \in Runs, CreateVbox(r) PROVE Kept'
  BY <1>5 DEF CreateVbox
<1>6. ASSUME NEW r \in Runs, CreateHyperV(r) PROVE Kept'
  BY <1>6 DEF CreateHyperV
<1>7. ASSUME NEW r \in Runs, ConfigureVM(r) PROVE Kept'
  BY <1>7 DEF ConfigureVM
<1>8. ASSUME NEW r \in Runs, AttachVbox(r) PROVE Kept'
  BY <1>8 DEF AttachVbox
<1>9. ASSUME NEW r \in Runs, AttachHyperV(r) PROVE Kept'
  BY <1>9 DEF AttachHyperV
<1>10. ASSUME NEW r \in Runs, StartVM(r) PROVE Kept'
  BY <1>10 DEF StartVM
<1>11. ASSUME NEW r \in Runs, VmrunStart(r) PROVE Kept'
  BY <1>11 DEF VmrunStart
<1>12. ASSUME NEW r \in Runs, Forward(r) PROVE Kept'
  BY <1>12 DEF Forward
<1>13. ASSUME NEW r \in Runs, Probe(r) PROVE Kept'
  BY <1>13 DEF Probe
<1>14. ASSUME NEW r \in Runs, ResolveOVMF(r) PROVE Kept'
  BY <1>14 DEF ResolveOVMF
<1>15. ASSUME NEW r \in Runs, StartQemu(r) PROVE Kept'
  BY <1>15 DEF StartQemu
<1>16. ASSUME NEW r \in Runs, QemuEnds(r) PROVE Kept'
  BY <1>16 DEF QemuEnds, Paths, StepsOf
<1>17. ASSUME NEW r \in Runs, StepFails(r) PROVE Kept'
  BY <1>17, UndoTo DEF StepFails
<1>18. ASSUME NEW r \in Runs, CleanupVbox(r) PROVE Kept'
  BY <1>18 DEF CleanupVbox
<1>19. ASSUME NEW r \in Runs, CleanupVmware(r) PROVE Kept'
  BY <1>19 DEF CleanupVmware, RemoveAll, Left
<1>20. ASSUME NEW r \in Runs, CleanupHyperV(r) PROVE Kept'
  <2>1. PICK p \in {"failed", "rmdir"} :
            /\ pc' = [pc EXCEPT ![r] = p] /\ pc[r] = "cleanup" /\ spec[r].backend = "hyperv"
            /\ p = "failed" => spec[r].iso
    BY <1>20 DEF CleanupHyperV
  <2>2. dirs' = dirs /\ refused \subseteq refused'
    BY <1>20, AfterHyperV DEF CleanupHyperV
  <2>. QED
    BY <2>1, <2>2
<1>21. ASSUME NEW r \in Runs, Killed(r) PROVE Kept'
  BY <1>21 DEF Killed
<1>22. ASSUME NEW v \in vms, GuestEnds(v) PROVE Kept'
  BY <1>22 DEF GuestEnds
<1>23. ASSUME NEW v \in vms, UserRemoves(v) PROVE Kept'
  BY <1>23 DEF UserRemoves
<1>25. ASSUME NEW r \in Runs, ResolveFails(r) PROVE Kept'
  BY <1>25 DEF ResolveFails, Paths, StepsOf
<1>26. ASSUME NEW r \in Runs, RemoveWrapper(r) PROVE Kept'
  BY <1>26 DEF RemoveWrapper, RemoveAll, Left
<1>24. CASE UNCHANGED vars
  BY <1>24 DEF vars
<1>. QED
  BY <1>1, <1>2, <1>3, <1>4, <1>5, <1>6, <1>7, <1>8, <1>9, <1>10, <1>11, <1>12, <1>13, <1>14, <1>15, <1>16, <1>17, <1>18, <1>19, <1>20, <1>21, <1>22, <1>23, <1>24, <1>25, <1>26 DEF Next, Run

LEMMA HeldStep ==
  ASSUME TypeOK, Paths, Made, Held, [Next]_vars
  PROVE  Held'
<1>0. /\ spec' = spec /\ pc \in [Runs -> {"idle"} \cup Ended \cup Steps]
      /\ \A v \in vms : v.by \in Runs
  BY SpecStays DEF TypeOK, VMs
\* Nobody's VM is lost, and none appears.
<1>A. ASSUME \A w \in vms' : \E v \in vms : Kin(w, v),
             \A v \in vms : \E w \in vms' : Kin(w, v),
             \A r \in Runs : spec[r].backend = "vbox" /\ pc'[r] \in Holding => pc[r] \in Holding
      PROVE  Held'
  <2>1. SUFFICES ASSUME NEW r \in Runs, spec[r].backend = "vbox", pc'[r] \in Holding
                 PROVE  Own(r)' # {} /\ \A w \in Named(r)' : w.by = r
    BY <1>0 DEF Held
  <2>2. Own(r) # {} /\ \A v \in Named(r) : v.by = r
    BY <1>A, <2>1 DEF Held
  <2>3. Own(r)' # {}
    BY <1>A, <2>2 DEF Own, Kin
  <2>4. \A w \in Named(r)' : w.by = r
    BY <1>0, <1>A, <2>2 DEF Named, Kin
  <2>. QED
    BY <2>3, <2>4
<1>B. ASSUME vms' = vms,
             \A r \in Runs : spec[r].backend = "vbox" /\ pc'[r] \in Holding => pc[r] \in Holding
      PROVE  Held'
  BY <1>0, <1>A, <1>B DEF Kin
\* A step of a command of another hypervisor, or of the user, loses no VM that
\* a VirtualBox command under way holds.
<1>C. ASSUME vms' \subseteq vms, \A v \in vms \ vms' : v.backend # "vbox" \/ pc[v.by] \notin Holding,
             \A r \in Runs : spec[r].backend = "vbox" /\ pc'[r] \in Holding => pc[r] \in Holding
      PROVE  Held'
  <2>1. SUFFICES ASSUME NEW r \in Runs, spec[r].backend = "vbox", pc'[r] \in Holding
                 PROVE  Own(r)' # {} /\ \A w \in Named(r)' : w.by = r
    BY <1>0 DEF Held
  <2>2. Own(r) # {} /\ (\A v \in Named(r) : v.by = r) /\ pc[r] \in Holding
    BY <1>C, <2>1 DEF Held
  <2>3. PICK v \in vms : v.by = r
    BY <2>2 DEF Own
  <2>4. v \in vms'
    BY <1>C, <2>1, <2>2, <2>3 DEF Made
  <2>. QED
    BY <1>0, <1>C, <2>2, <2>3, <2>4 DEF Own, Named
<1>. USE DEF Goto, Holding
<1>1. ASSUME NEW r \in Runs, RunRun(r) PROVE Held'
  <2>1. /\ vms' = vms /\ \A q \in Runs : spec[q].backend = "vbox" /\ pc'[q] \in Holding => pc[q] \in Holding
    BY <1>0, <1>1, RunTo DEF RunRun
  <2>. QED
    BY <2>1, <1>B
<1>2. ASSUME NEW r \in Runs, MkdirTemp(r) PROVE Held'
  <2>1. vms' = vms /\ \A q \in Runs : spec[q].backend = "vbox" /\ pc'[q] \in Holding => pc[q] \in Holding
    BY <1>0, <1>2 DEF MkdirTemp
  <2>. QED
    BY <2>1, <1>B
<1>3. ASSUME NEW r \in Runs, WriteVmx(r) PROVE Held'
  <2>1. vms' = vms /\ \A q \in Runs : spec[q].backend = "vbox" /\ pc'[q] \in Holding => pc[q] \in Holding
    BY <1>0, <1>3 DEF WriteVmx
  <2>. QED
    BY <2>1, <1>B
<1>4. ASSUME NEW r \in Runs, WriteFixedVHD(r) PROVE Held'
  <2>1. vms' = vms /\ \A q \in Runs : spec[q].backend = "vbox" /\ pc'[q] \in Holding => pc[q] \in Holding
    BY <1>0, <1>4 DEF WriteFixedVHD
  <2>. QED
    BY <2>1, <1>B
<1>5. ASSUME NEW r \in Runs, CreateVbox(r) PROVE Held'
  <2>1. /\ vms' = vms \cup {NewVM(r)} /\ Named(r) = {} /\ pc[r] = "create"
        /\ pc' = [pc EXCEPT ![r] = "config"] /\ spec[r].backend = "vbox"
        /\ NewVM(r).by = r /\ NewVM(r).backend = "vbox" /\ NewVM(r).name = spec[r].name
    BY <1>5, NewVMType DEF CreateVbox
  <2>2. SUFFICES ASSUME NEW q \in Runs, spec[q].backend = "vbox", pc'[q] \in Holding
                 PROVE  Own(q)' # {} /\ \A w \in Named(q)' : w.by = q
    BY <1>0 DEF Held
  <2>3. CASE q = r
    BY <1>0, <2>1, <2>3 DEF Own, Named
  <2>4. CASE q # r
    <3>1. Own(q) # {} /\ \A v \in Named(q) : v.by = q
      BY <1>0, <2>1, <2>2, <2>4 DEF Held
    <3>2. spec[q].name # spec[r].name
      BY <2>1, <2>2, <3>1 DEF Own, Named, Made
    <3>. QED
      BY <1>0, <2>1, <3>1, <3>2 DEF Own, Named
  <2>. QED
    BY <2>3, <2>4
<1>6. ASSUME NEW r \in Runs, CreateHyperV(r) PROVE Held'
  <2>1. /\ vms' = vms \cup {NewVM(r)} /\ pc[r] = "create" /\ NewVM(r).backend = "hyperv"
        /\ pc' = [pc EXCEPT ![r] = "attach"] /\ spec[r].backend = "hyperv"
    BY <1>6, NewVMType DEF CreateHyperV
  <2>2. SUFFICES ASSUME NEW q \in Runs, spec[q].backend = "vbox", pc'[q] \in Holding
                 PROVE  Own(q)' # {} /\ \A w \in Named(q)' : w.by = q
    BY <1>0 DEF Held
  <2>3. Own(q) # {} /\ \A v \in Named(q) : v.by = q
    BY <1>0, <2>1, <2>2 DEF Held
  <2>. QED
    BY <1>0, <2>1, <2>2, <2>3 DEF Own, Named
<1>7. ASSUME NEW r \in Runs, ConfigureVM(r) PROVE Held'
  <2>1. vms' = vms /\ \A q \in Runs : spec[q].backend = "vbox" /\ pc'[q] \in Holding => pc[q] \in Holding
    BY <1>0, <1>7 DEF ConfigureVM
  <2>. QED
    BY <2>1, <1>B
<1>8. ASSUME NEW r \in Runs, AttachVbox(r) PROVE Held'
  <2>1. /\ pc[r] = "attach" /\ pc' = [pc EXCEPT ![r] = "start"]
        /\ \E d \in {"dvd", "image", "wrapper"} : Attached(r, d)
    BY <1>8 DEF AttachVbox
  <2>. QED
    BY <1>0, <1>A, <2>1, AfterAttach
<1>9. ASSUME NEW r \in Runs, AttachHyperV(r) PROVE Held'
  <2>1. /\ pc[r] = "attach" /\ pc' = [pc EXCEPT ![r] = "start"]
        /\ \E d \in {"dvd", "image", "wrapper"} : Attached(r, d)
    BY <1>9 DEF AttachHyperV
  <2>. QED
    BY <1>0, <1>A, <2>1, AfterAttach
<1>10. ASSUME NEW r \in Runs, StartVM(r) PROVE Held'
  <2>1. /\ pc[r] = "start" /\ \E p : pc' = [pc EXCEPT ![r] = p]
    BY <1>10 DEF StartVM
  <2>. QED
    BY <1>0, <1>A, <1>10, <2>1, AfterStart
<1>11. ASSUME NEW r \in Runs, VmrunStart(r) PROVE Held'
  <2>1. /\ vms' = vms \cup {Started(r)} /\ pc' = [pc EXCEPT ![r] = "ok"]
        /\ Started(r).backend = "vmware"
    BY <1>11, StartedType DEF VmrunStart, Started
  <2>2. SUFFICES ASSUME NEW q \in Runs, spec[q].backend = "vbox", pc'[q] \in Holding
                 PROVE  Own(q)' # {} /\ \A w \in Named(q)' : w.by = q
    BY <1>0 DEF Held
  <2>3. Own(q) # {} /\ \A v \in Named(q) : v.by = q
    BY <1>0, <2>1, <2>2 DEF Held
  <2>. QED
    BY <1>0, <2>1, <2>2, <2>3 DEF Own, Named
<1>12. ASSUME NEW r \in Runs, Forward(r) PROVE Held'
  <2>1. vms' = vms /\ \A q \in Runs : spec[q].backend = "vbox" /\ pc'[q] \in Holding => pc[q] \in Holding
    BY <1>0, <1>12 DEF Forward
  <2>. QED
    BY <2>1, <1>B
<1>13. ASSUME NEW r \in Runs, Probe(r) PROVE Held'
  <2>1. vms' = vms /\ \A q \in Runs : spec[q].backend = "vbox" /\ pc'[q] \in Holding => pc[q] \in Holding
    BY <1>0, <1>13 DEF Probe
  <2>. QED
    BY <2>1, <1>B
<1>14. ASSUME NEW r \in Runs, ResolveOVMF(r) PROVE Held'
  <2>1. vms' = vms /\ \A q \in Runs : spec[q].backend = "vbox" /\ pc'[q] \in Holding => pc[q] \in Holding
    BY <1>0, <1>14 DEF ResolveOVMF
  <2>. QED
    BY <2>1, <1>B
<1>15. ASSUME NEW r \in Runs, StartQemu(r) PROVE Held'
  <2>1. vms' = vms /\ \A q \in Runs : spec[q].backend = "vbox" /\ pc'[q] \in Holding => pc[q] \in Holding
    BY <1>0, <1>15 DEF StartQemu
  <2>. QED
    BY <2>1, <1>B
<1>16. ASSUME NEW r \in Runs, QemuEnds(r) PROVE Held'
  <2>1. vms' = vms /\ \A q \in Runs : spec[q].backend = "vbox" /\ pc'[q] \in Holding => pc[q] \in Holding
    BY <1>0, <1>16 DEF QemuEnds
  <2>. QED
    BY <2>1, <1>B
<1>17. ASSUME NEW r \in Runs, StepFails(r) PROVE Held'
  <2>1. vms' = vms /\ \A q \in Runs : spec[q].backend = "vbox" /\ pc'[q] \in Holding => pc[q] \in Holding
    BY <1>0, <1>17, UndoTo DEF StepFails, Steps, Paths, StepsOf, Ended
  <2>. QED
    BY <2>1, <1>B
<1>18. ASSUME NEW r \in Runs, CleanupVbox(r) PROVE Held'
  <2>1. /\ pc[r] = "cleanup" /\ spec[r].backend = "vbox" /\ pc' = [pc EXCEPT ![r] = "failed"]
        /\ vms' \subseteq vms /\ vms \ vms' \subseteq Named(r)
    BY <1>18 DEF CleanupVbox
  <2>2. \A v \in Named(r) : v.by = r
    BY <2>1 DEF Held
  <2>3. SUFFICES ASSUME NEW q \in Runs, spec[q].backend = "vbox", pc'[q] \in Holding
                 PROVE  Own(q)' # {} /\ \A w \in Named(q)' : w.by = q
    BY <1>0 DEF Held
  <2>4. q # r /\ Own(q) # {} /\ \A v \in Named(q) : v.by = q
    BY <1>0, <2>1, <2>3 DEF Held
  <2>5. \A v \in Own(q) : v \in vms'
    BY <2>1, <2>2, <2>4 DEF Own
  <2>. QED
    BY <1>0, <2>1, <2>4, <2>5 DEF Own, Named
<1>19. ASSUME NEW r \in Runs, CleanupVmware(r) PROVE Held'
  <2>1. vms' = vms /\ \A q \in Runs : spec[q].backend = "vbox" /\ pc'[q] \in Holding => pc[q] \in Holding
    BY <1>0, <1>19 DEF CleanupVmware, RemoveAll
  <2>. QED
    BY <2>1, <1>B
<1>20. ASSUME NEW r \in Runs, CleanupHyperV(r) PROVE Held'
  <2>1. /\ spec[r].backend = "hyperv" /\ \E p : pc' = [pc EXCEPT ![r] = p]
    BY <1>20 DEF CleanupHyperV
  <2>2. SUFFICES ASSUME NEW q \in Runs, spec[q].backend = "vbox", pc'[q] \in Holding
                 PROVE  Own(q)' # {} /\ \A w \in Named(q)' : w.by = q
    BY <1>0 DEF Held
  <2>3. Own(q) # {} /\ (\A v \in Named(q) : v.by = q)
    BY <1>0, <2>1, <2>2 DEF Held
  <2>4. PICK v \in vms : v.by = q
    BY <2>3 DEF Own
  <2>5. v \in vms \ Named(r)
    BY <2>1, <2>2, <2>4 DEF Made, Named
  <2>6. v \in vms'
    BY <1>20, <2>5, AfterHyperV
  <2>7. \A w \in vms' : \E x \in vms : Kin(w, x)
    BY <1>20, AfterHyperV
  <2>8. \A w \in Named(q)' : w.by = q
    BY <1>0, <2>3, <2>7 DEF Named, Kin
  <2>. QED
    BY <2>4, <2>6, <2>8 DEF Own
<1>21. ASSUME NEW r \in Runs, Killed(r) PROVE Held'
  <2>1. vms' = vms /\ \A q \in Runs : spec[q].backend = "vbox" /\ pc'[q] \in Holding => pc[q] \in Holding
    BY <1>0, <1>21 DEF Killed
  <2>. QED
    BY <2>1, <1>B
<1>22. ASSUME NEW v \in vms, GuestEnds(v) PROVE Held'
  <2>1. pc' = pc
    BY <1>22 DEF GuestEnds
  <2>. QED
    BY <1>A, <1>22, <2>1, AfterGuest
<1>23. ASSUME NEW v \in vms, UserRemoves(v) PROVE Held'
  <2>1. pc' = pc /\ vms' = vms \ {v} /\ pc[v.by] \in Ended
    BY <1>23 DEF UserRemoves
  <2>. QED
    BY <1>C, <2>1 DEF Ended
<1>25. ASSUME NEW r \in Runs, ResolveFails(r) PROVE Held'
  <2>1. vms' = vms /\ \A q \in Runs : spec[q].backend = "vbox" /\ pc'[q] \in Holding => pc[q] \in Holding
    BY <1>0, <1>25 DEF ResolveFails
  <2>. QED
    BY <2>1, <1>B
<1>26. ASSUME NEW r \in Runs, RemoveWrapper(r) PROVE Held'
  <2>1. vms' = vms /\ \A q \in Runs : spec[q].backend = "vbox" /\ pc'[q] \in Holding => pc[q] \in Holding
    BY <1>0, <1>26 DEF RemoveWrapper, RemoveAll
  <2>. QED
    BY <2>1, <1>B
<1>24. CASE UNCHANGED vars
  BY <1>B, <1>24 DEF vars
<1>. QED
  BY <1>1, <1>2, <1>3, <1>4, <1>5, <1>6, <1>7, <1>8, <1>9, <1>10, <1>11, <1>12, <1>13, <1>14, <1>15, <1>16, <1>17, <1>18, <1>19, <1>20, <1>21, <1>22, <1>23, <1>24, <1>25, <1>26 DEF Next, Run

LEMMA DiskStep ==
  ASSUME TypeOK, Paths, Made, Owners, Kept, DiskStays, [Next]_vars
  PROVE  DiskStays'
<1>0. /\ spec' = spec /\ dirs \subseteq Runs
      /\ \A v \in vms : v.by \in Runs /\ v.of \in Runs
  BY SpecStays DEF TypeOK, VMs
<1>A. ASSUME vms' \subseteq vms, dirs \subseteq dirs' PROVE DiskStays'
  BY <1>A DEF DiskStays
<1>1. ASSUME NEW r \in Runs, RunRun(r) PROVE DiskStays'
  BY <1>A, <1>1 DEF RunRun
<1>2. ASSUME NEW r \in Runs, MkdirTemp(r) PROVE DiskStays'
  BY <1>A, <1>2 DEF MkdirTemp
<1>3. ASSUME NEW r \in Runs, WriteVmx(r) PROVE DiskStays'
  BY <1>A, <1>3 DEF WriteVmx
<1>4. ASSUME NEW r \in Runs, WriteFixedVHD(r) PROVE DiskStays'
  BY <1>A, <1>4 DEF WriteFixedVHD
<1>5. ASSUME NEW r \in Runs, CreateVbox(r) PROVE DiskStays'
  <2>1. vms' = vms \cup {NewVM(r)} /\ dirs' = dirs /\ ~NewVM(r).on
    BY <1>5, NewVMType DEF CreateVbox
  <2>. QED
    BY <2>1 DEF DiskStays
<1>6. ASSUME NEW r \in Runs, CreateHyperV(r) PROVE DiskStays'
  <2>1. vms' = vms \cup {NewVM(r)} /\ dirs' = dirs /\ ~NewVM(r).on
    BY <1>6, NewVMType DEF CreateHyperV
  <2>. QED
    BY <2>1 DEF DiskStays
<1>7. ASSUME NEW r \in Runs, ConfigureVM(r) PROVE DiskStays'
  BY <1>A, <1>7 DEF ConfigureVM
<1>8. ASSUME NEW r \in Runs, AttachVbox(r) PROVE DiskStays'
  <2>1. dirs' = dirs /\ \E d \in {"dvd", "image", "wrapper"} : Attached(r, d)
    BY <1>8 DEF AttachVbox
  <2>2. \A w \in vms' : w \in vms \/ ~w.on
    BY <2>1, AfterAttach
  <2>. QED
    BY <2>1, <2>2 DEF DiskStays
<1>9. ASSUME NEW r \in Runs, AttachHyperV(r) PROVE DiskStays'
  <2>1. dirs' = dirs /\ \E d \in {"dvd", "image", "wrapper"} : Attached(r, d)
    BY <1>9 DEF AttachHyperV
  <2>2. \A w \in vms' : w \in vms \/ ~w.on
    BY <2>1, AfterAttach
  <2>. QED
    BY <2>1, <2>2 DEF DiskStays
<1>10. ASSUME NEW r \in Runs, StartVM(r) PROVE DiskStays'
  <2>1. dirs' = dirs /\ \A v \in Named(r) : v.backend # "vmware" /\ (v.disk = "wrapper" => v.of \in dirs)
    BY <1>10 DEF StartVM, Named
  <2>2. \A w \in vms' : \E v \in vms :
            Kin(w, v) /\ w.of = v.of /\ w.disk = v.disk /\ (w = v \/ v \in Named(r))
    BY <1>10, AfterStart
  <2>. QED
    BY <2>1, <2>2 DEF DiskStays, Kin
<1>11. ASSUME NEW r \in Runs, VmrunStart(r) PROVE DiskStays'
  <2>1. vms' = vms \cup {Started(r)} /\ dirs' = dirs /\ Started(r).of = r
    BY <1>11, StartedType DEF VmrunStart, Started
  <2>2. r \in dirs
    BY <1>11 DEF VmrunStart, Kept
  <2>. QED
    BY <2>1, <2>2 DEF DiskStays
<1>12. ASSUME NEW r \in Runs, Forward(r) PROVE DiskStays'
  BY <1>A, <1>12 DEF Forward
<1>13. ASSUME NEW r \in Runs, Probe(r) PROVE DiskStays'
  BY <1>A, <1>13 DEF Probe
<1>14. ASSUME NEW r \in Runs, ResolveOVMF(r) PROVE DiskStays'
  BY <1>A, <1>14 DEF ResolveOVMF
<1>15. ASSUME NEW r \in Runs, StartQemu(r) PROVE DiskStays'
  BY <1>A, <1>15 DEF StartQemu
<1>16. ASSUME NEW r \in Runs, QemuEnds(r) PROVE DiskStays'
  BY <1>A, <1>16 DEF QemuEnds
<1>17. ASSUME NEW r \in Runs, StepFails(r) PROVE DiskStays'
  BY <1>A, <1>17 DEF StepFails
<1>18. ASSUME NEW r \in Runs, CleanupVbox(r) PROVE DiskStays'
  BY <1>A, <1>18 DEF CleanupVbox
<1>19. ASSUME NEW r \in Runs, CleanupVmware(r) PROVE DiskStays'
  <2>1. vms' = vms /\ dirs \ dirs' \subseteq {r} /\ spec[r].backend = "vmware" /\ pc[r] = "rmdir"
    BY <1>19 DEF CleanupVmware, RemoveAll, Left
  <2>2. \A v \in vms : v.backend = "vmware" \/ v.disk = "wrapper" => v.of # r
    BY <2>1 DEF Made, Owners, Owns
  <2>. QED
    BY <2>1, <2>2 DEF DiskStays
<1>20. ASSUME NEW r \in Runs, CleanupHyperV(r) PROVE DiskStays'
  <2>1. dirs' = dirs
    BY <1>20 DEF CleanupHyperV
  <2>2. \A w \in vms' : w \in vms \/ ~w.on
    BY <1>20, AfterHyperV
  <2>. QED
    BY <2>1, <2>2 DEF DiskStays
<1>21. ASSUME NEW r \in Runs, Killed(r) PROVE DiskStays'
  BY <1>A, <1>21 DEF Killed
<1>22. ASSUME NEW v \in vms, GuestEnds(v) PROVE DiskStays'
  <2>1. dirs' = dirs /\ \A w \in vms' : w \in vms \/ ~w.on
    BY <1>22, AfterGuest DEF GuestEnds
  <2>. QED
    BY <2>1 DEF DiskStays
<1>23. ASSUME NEW v \in vms, UserRemoves(v) PROVE DiskStays'
  <2>1. /\ vms' \subseteq vms
        /\ dirs' = IF \E w \in vms : w.on /\ w.of = v.by THEN dirs ELSE dirs \ {v.by}
    BY <1>23 DEF UserRemoves
  <2>. QED
    BY <2>1 DEF DiskStays
<1>25. ASSUME NEW r \in Runs, ResolveFails(r) PROVE DiskStays'
  BY <1>A, <1>25 DEF ResolveFails
<1>26. ASSUME NEW r \in Runs, RemoveWrapper(r) PROVE DiskStays'
  <2>1. /\ vms' = vms /\ spec[r].backend = "hyperv"
        /\ dirs' = dirs \/ (~DirOpen(r) /\ dirs' = dirs \ {r})
    BY <1>26 DEF RemoveWrapper, RemoveAll, Left
  <2>2. \A v \in vms : v.backend = "vmware" => v.of # r
    BY <2>1 DEF Made
  <2>. QED
    BY <2>1, <2>2 DEF DiskStays, DirOpen
<1>24. CASE UNCHANGED vars
  BY <1>A, <1>24 DEF vars
<1>. QED
  BY <1>1, <1>2, <1>3, <1>4, <1>5, <1>6, <1>7, <1>8, <1>9, <1>10, <1>11, <1>12, <1>13, <1>14, <1>15, <1>16, <1>17, <1>18, <1>19, <1>20, <1>21, <1>22, <1>23, <1>24, <1>25, <1>26 DEF Next, Run

\* The variables in the stores, and the commands that answer for them.
LEMMA WritersStep ==
  ASSUME TypeOK, Writers, [Next]_vars
  PROVE  Writers'
<1>0. spec' = spec /\ \A k \in DOMAIN nvram : nvram[k] \subseteq Runs
  BY SpecStays DEF TypeOK
<1>1. ASSUME NEW r \in Runs, ResolveOVMF(r) \/ ResolveFails(r) PROVE Writers'
  <2>1. nvram' = nvram \/ nvram' = WithStore(spec[r])
    BY <1>1 DEF ResolveOVMF, ResolveFails
  <2>. QED
    BY <1>0, <2>1 DEF Writers, WithStore
<1>2. ASSUME NEW r \in Runs, StartQemu(r) PROVE Writers'
  BY <1>0, <1>2 DEF StartQemu, Writers
<1>3. ASSUME NEW r \in Runs, QemuEnds(r) PROVE Writers'
  BY <1>0, <1>3 DEF QemuEnds, Writers
<1>4. CASE UNCHANGED nvram
  BY <1>0, <1>4 DEF Writers
<1>. QED
  BY <1>1, <1>2, <1>3, <1>4 DEF Next, Run, RunRun, MkdirTemp, WriteVmx, WriteFixedVHD, CreateVbox,
     CreateHyperV, ConfigureVM, AttachVbox, AttachHyperV, StartVM, VmrunStart, Forward, Probe,
     StepFails, CleanupVbox, CleanupHyperV, CleanupVmware, RemoveWrapper, RemoveAll, Killed,
     GuestEnds, UserRemoves, vars

\* A command that answers for what its guest's firmware wrote.
Answers(r) == pc[r] \in {"guest", "killed"} \/ spec[r].keep \/ <<r, "store">> \in refused

\* Only the end of qemu takes a command from those that answer.
LEMMA AnswersStep ==
  ASSUME TypeOK, [Next]_vars, NEW q \in Runs, Answers(q)
  PROVE  Answers(q)' \/ (QemuEnds(q) /\ ~spec[q].keep /\ <<q, "store">> \notin refused')
<1>0. spec' = spec /\ pc \in [Runs -> {"idle"} \cup Ended \cup Steps]
  BY SpecStays DEF TypeOK
<1>1. refused \subseteq refused'
  <2>1. ASSUME NEW r \in Runs, CleanupHyperV(r) PROVE refused \subseteq refused'
    BY <2>1, AfterHyperV
  <2>. QED
    BY <2>1 DEF Next, Run, RunRun, MkdirTemp, WriteVmx, WriteFixedVHD, CreateVbox, CreateHyperV,
     ConfigureVM, AttachVbox, AttachHyperV, StartVM, VmrunStart, Forward, Probe, ResolveOVMF,
     ResolveFails, StartQemu, QemuEnds, StepFails, CleanupVbox, CleanupVmware, RemoveWrapper,
     RemoveAll, Killed, GuestEnds, UserRemoves, vars
<1>2. CASE pc[q] \notin {"guest", "killed"}
  BY <1>0, <1>1, <1>2 DEF Answers
<1>3. CASE pc[q] \in {"guest", "killed"}
  <2>1. ASSUME NEW r \in Runs, Run(r) PROVE pc'[q] \in {"guest", "killed"} \/ QemuEnds(q)
    <3>1. pc[r] \in {"idle"} \cup Steps /\ \E p : pc' = [pc EXCEPT ![r] = p]
      BY <2>1 DEF Run, RunRun, MkdirTemp, WriteVmx, WriteFixedVHD, CreateVbox, CreateHyperV,
         ConfigureVM, AttachVbox, AttachHyperV, StartVM, VmrunStart, Forward, Probe, ResolveOVMF,
         ResolveFails, StartQemu, QemuEnds, StepFails, CleanupVbox, CleanupHyperV, CleanupVmware,
         RemoveWrapper, RemoveAll, Killed, Steps, Goto
    <3>2. CASE q # r
      BY <1>0, <1>3, <3>1, <3>2
    <3>3. CASE q = r
      <4>1. pc[r] = "guest"
        BY <1>3, <3>1, <3>3 DEF Steps
      <4>2. QemuEnds(r) \/ Killed(r)
        BY <2>1, <4>1 DEF Run, RunRun, MkdirTemp, WriteVmx, WriteFixedVHD, CreateVbox, CreateHyperV,
           ConfigureVM, AttachVbox, AttachHyperV, StartVM, VmrunStart, Forward, Probe, ResolveOVMF,
           ResolveFails, StartQemu, StepFails, CleanupVbox, CleanupHyperV, CleanupVmware,
           RemoveWrapper, Steps
      <4>. QED
        BY <1>0, <3>3, <4>2 DEF Killed, Goto
    <3>. QED
      BY <3>2, <3>3
  <2>2. pc'[q] \in {"guest", "killed"} \/ QemuEnds(q)
    BY <1>3, <2>1 DEF Next, GuestEnds, UserRemoves, vars
  <2>. QED
    BY <1>0, <2>2 DEF Answers
<1>. QED
  BY <1>2, <1>3

LEMMA VarsStep ==
  ASSUME TypeOK, Writers, VarsForgotten, [Next]_vars
  PROVE  VarsForgotten'
<1>0. /\ spec' = spec /\ pc \in [Runs -> {"idle"} \cup Ended \cup Steps]
      /\ \A k \in DOMAIN nvram : nvram[k] \subseteq Runs /\ \A q \in nvram[k] : Answers(q)
      /\ (\A k \in DOMAIN nvram' : \A q \in nvram'[k] : Answers(q)') => VarsForgotten'
  BY SpecStays DEF TypeOK, VarsForgotten, Answers
<1>A. ASSUME NEW r \in Runs, QemuEnds(r), ~spec[r].keep, <<r, "store">> \notin refused',
             NEW k \in DOMAIN nvram', r \in nvram'[k]
      PROVE  FALSE
  <2>1. CASE ~Discards(r)
    <3>1. nvram' = nvram /\ ~QemuUEFI(spec[r])
      BY <1>A, <2>1 DEF QemuEnds, Discards
    <3>. QED
      BY <1>A, <3>1 DEF Writers
  <2>2. CASE Discards(r)
    <3>1. nvram' = [x \in DOMAIN nvram \ {Store(spec[r])} |-> nvram[x]]
      BY <1>A, <2>2 DEF QemuEnds
    <3>. QED
      BY <1>A, <3>1 DEF Writers
  <2>. QED
    BY <2>1, <2>2
<1>B. ASSUME NEW k \in DOMAIN nvram', NEW q \in nvram'[k], k \in DOMAIN nvram, q \in nvram[k]
      PROVE  Answers(q)'
  BY <1>0, <1>A, <1>B, AnswersStep
<1>C. ASSUME \A k \in DOMAIN nvram' : \A q \in nvram'[k] : k \in DOMAIN nvram /\ q \in nvram[k]
      PROVE  VarsForgotten'
  BY <1>0, <1>B, <1>C
<1>1. ASSUME NEW r \in Runs, ResolveOVMF(r) \/ ResolveFails(r) PROVE VarsForgotten'
  <2>1. nvram' = nvram \/ nvram' = WithStore(spec[r])
    BY <1>1 DEF ResolveOVMF, ResolveFails
  <2>. QED
    BY <1>C, <2>1 DEF WithStore
<1>2. ASSUME NEW r \in Runs, StartQemu(r) PROVE VarsForgotten'
  <2>1. /\ DOMAIN nvram' = DOMAIN nvram /\ pc' = [pc EXCEPT ![r] = "guest"]
        /\ \A k \in DOMAIN nvram : nvram'[k] \subseteq nvram[k] \cup {r}
    BY <1>2 DEF StartQemu, Goto
  <2>2. Answers(r)'
    BY <1>0, <2>1 DEF Answers
  <2>. QED
    BY <1>0, <1>B, <2>1, <2>2
<1>3. ASSUME NEW r \in Runs, QemuEnds(r) PROVE VarsForgotten'
  <2>1. nvram' = nvram \/ nvram' = [k \in DOMAIN nvram \ {Store(spec[r])} |-> nvram[k]]
    BY <1>3 DEF QemuEnds
  <2>. QED
    BY <1>C, <2>1
<1>4. CASE UNCHANGED nvram
  BY <1>C, <1>4
<1>. QED
  BY <1>1, <1>2, <1>3, <1>4 DEF Next, Run, RunRun, MkdirTemp, WriteVmx, WriteFixedVHD, CreateVbox,
     CreateHyperV, ConfigureVM, AttachVbox, AttachHyperV, StartVM, VmrunStart, Forward, Probe,
     StepFails, CleanupVbox, CleanupHyperV, CleanupVmware, RemoveWrapper, RemoveAll, Killed,
     GuestEnds, UserRemoves, vars

-----------------------------------------------------------------------------
LEMMA InitIInv == Init => IInv
  BY DEF Init, IInv, TypeOK, Paths, Made, Owners, Kept, Held, Holding, Writers, DiskStays,
     VarsForgotten

LEMMA NextIInv == IInv /\ [Next]_vars => IInv'
  BY TypeStep, PathsStep, MadeStep, OwnersStep, KeptStep, HeldStep, WritersStep, DiskStep,
     VarsStep DEF IInv

\* Everything above holds in every state of `cnimbus run`, whatever number of
\* commands, of whatever kind, run beside one another.
THEOREM Inductive == Spec => []IInv
  BY InitIInv, NextIInv, PTL DEF Spec

\* Every variable keeps to the values the code gives it.
THEOREM TypeCorrect == Spec => []TypeOK
<1>1. IInv => TypeOK
  BY DEF IInv
<1>. QED
  BY <1>1, Inductive, PTL

\* cleanupUnlessStartedOrKept, cleanupWorkDir and cleanupVM leave no VM and no work
\* directory of a failed command behind but those kept, and those that VirtualBox,
\* Hyper-V or the file system would not remove.
THEOREM CleanFailureAlways == Spec => []CleanFailure
<1>1. ASSUME IInv PROVE CleanFailure
  <2>1. SUFFICES ASSUME NEW r \in Runs, pc[r] = "failed"
                 PROVE  /\ \/ Own(r) = {} \/ (spec[r].keep /\ spec[r].backend = "vbox")
                           \/ <<r, "vm">> \in refused
                        /\ r \notin dirs \/ spec[r].keep \/ <<r, "dir">> \in refused
    BY DEF CleanFailure
  <2>2. \A v \in Own(r) : (spec[r].keep /\ spec[r].backend = "vbox") \/ <<r, "vm">> \in refused
    BY <1>1, <2>1 DEF IInv, Owners, Owns, Own
  <2>3. r \notin dirs \/ spec[r].keep \/ <<r, "dir">> \in refused
    BY <1>1, <2>1 DEF IInv, Kept
  <2>. QED
    BY <2>2, <2>3
<1>. QED
  BY <1>1, Inductive, PTL

\* No command, and no later one of the same name, removes the work directory a
\* running guest has its disk or its .vmx in.
THEOREM DiskStaysAlways == Spec => []DiskStays
<1>1. IInv => DiskStays
  BY DEF IInv
<1>. QED
  BY <1>1, Inductive, PTL

\* The deferred os.Remove of the OVMF variables: what a guest's firmware wrote outlives
\* the guest only where its command was killed, kept it or could not remove it.
THEOREM VarsForgottenAlways == Spec => []VarsForgotten
<1>1. IInv => VarsForgotten
  BY DEF IInv
<1>. QED
  BY <1>1, Inductive, PTL

\* The VMs of the commands other than q stay, and those that run, run on.
OthersStay(q) == \A v \in vms : v.by # q => \E w \in vms' : w.by = v.by /\ (v.on => w.on)

LEMMA OthersStep ==
  ASSUME IInv, Next, NEW q \in Runs, spec[q].backend # "hyperv", pc'[q] # pc[q]
  PROVE  OthersStay(q)
<1>0. /\ TypeOK /\ Held /\ pc \in [Runs -> {"idle"} \cup Ended \cup Steps]
  BY DEF IInv, TypeOK
<1>A. ASSUME \A v \in vms : \E w \in vms' : Kin(w, v) /\ (v.on => w.on)
      PROVE  OthersStay(q)
  BY <1>A DEF Kin, OthersStay
<1>B. ASSUME vms \subseteq vms' PROVE OthersStay(q)
  BY <1>B DEF OthersStay
<1>. USE DEF Goto
<1>1. ASSUME NEW r \in Runs, RunRun(r) PROVE OthersStay(q)
  BY <1>B, <1>1 DEF RunRun
<1>2. ASSUME NEW r \in Runs, MkdirTemp(r) PROVE OthersStay(q)
  BY <1>B, <1>2 DEF MkdirTemp
<1>3. ASSUME NEW r \in Runs, WriteVmx(r) PROVE OthersStay(q)
  BY <1>B, <1>3 DEF WriteVmx
<1>4. ASSUME NEW r \in Runs, WriteFixedVHD(r) PROVE OthersStay(q)
  BY <1>B, <1>4 DEF WriteFixedVHD
<1>5. ASSUME NEW r \in Runs, CreateVbox(r) PROVE OthersStay(q)
  BY <1>B, <1>5 DEF CreateVbox
<1>6. ASSUME NEW r \in Runs, CreateHyperV(r) PROVE OthersStay(q)
  BY <1>B, <1>6 DEF CreateHyperV
<1>7. ASSUME NEW r \in Runs, ConfigureVM(r) PROVE OthersStay(q)
  BY <1>B, <1>7 DEF ConfigureVM
<1>8. ASSUME NEW r \in Runs, AttachVbox(r) PROVE OthersStay(q)
  BY <1>0, <1>A, <1>8, AfterAttach DEF AttachVbox
<1>9. ASSUME NEW r \in Runs, AttachHyperV(r) PROVE OthersStay(q)
  BY <1>0, <1>A, <1>9, AfterAttach DEF AttachHyperV
<1>10. ASSUME NEW r \in Runs, StartVM(r) PROVE OthersStay(q)
  BY <1>0, <1>A, <1>10, AfterStart
<1>11. ASSUME NEW r \in Runs, VmrunStart(r) PROVE OthersStay(q)
  BY <1>B, <1>11 DEF VmrunStart
<1>12. ASSUME NEW r \in Runs, Forward(r) PROVE OthersStay(q)
  BY <1>B, <1>12 DEF Forward
<1>13. ASSUME NEW r \in Runs, Probe(r) PROVE OthersStay(q)
  BY <1>B, <1>13 DEF Probe
<1>14. ASSUME NEW r \in Runs, ResolveOVMF(r) PROVE OthersStay(q)
  BY <1>B, <1>14 DEF ResolveOVMF
<1>15. ASSUME NEW r \in Runs, StartQemu(r) PROVE OthersStay(q)
  BY <1>B, <1>15 DEF StartQemu
<1>16. ASSUME NEW r \in Runs, QemuEnds(r) PROVE OthersStay(q)
  BY <1>B, <1>16 DEF QemuEnds
<1>17. ASSUME NEW r \in Runs, StepFails(r) PROVE OthersStay(q)
  BY <1>B, <1>17 DEF StepFails
<1>18. ASSUME NEW r \in Runs, CleanupVbox(r) PROVE OthersStay(q)
  <2>1. /\ q = r /\ pc[r] = "cleanup" /\ spec[r].backend = "vbox" /\ vms \ vms' \subseteq Named(r)
    BY <1>0, <1>18 DEF CleanupVbox
  <2>2. \A v \in Named(r) : v.by = r
    BY <1>0, <2>1 DEF Held, Holding
  <2>. QED
    BY <2>1, <2>2 DEF OthersStay
<1>19. ASSUME NEW r \in Runs, CleanupVmware(r) PROVE OthersStay(q)
  BY <1>B, <1>19 DEF CleanupVmware, RemoveAll
<1>20. ASSUME NEW r \in Runs, CleanupHyperV(r) PROVE OthersStay(q)
  <2>1. q = r
    BY <1>0, <1>20 DEF CleanupHyperV
  <2>. QED
    BY <1>20, <2>1 DEF CleanupHyperV
<1>21. ASSUME NEW r \in Runs, Killed(r) PROVE OthersStay(q)
  BY <1>B, <1>21 DEF Killed
<1>22. ASSUME NEW v \in vms, GuestEnds(v) PROVE OthersStay(q)
  BY <1>22 DEF GuestEnds
<1>23. ASSUME NEW v \in vms, UserRemoves(v) PROVE OthersStay(q)
  BY <1>23 DEF UserRemoves
<1>25. ASSUME NEW r \in Runs, ResolveFails(r) PROVE OthersStay(q)
  BY <1>B, <1>25 DEF ResolveFails
<1>26. ASSUME NEW r \in Runs, RemoveWrapper(r) PROVE OthersStay(q)
  BY <1>B, <1>26 DEF RemoveWrapper, RemoveAll
<1>. QED
  BY <1>1, <1>2, <1>3, <1>4, <1>5, <1>6, <1>7, <1>8, <1>9, <1>10, <1>11, <1>12, <1>13, <1>14, <1>15, <1>16, <1>17, <1>18, <1>19, <1>20, <1>21, <1>22, <1>23, <1>25, <1>26 DEF Next, Run

\* unregistervm is given a name, yet takes away only the VM its command made:
\* the clean-up is registered after createvm, which refuses a name in use.
THEOREM RemovesOwnAlways == Spec => RemovesOwn
<1>1. ASSUME IInv, [Next]_vars
      PROVE  [\A r \in Runs : spec[r].backend # "hyperv" /\ pc'[r] # pc[r] =>
                 Makers(vms) \ {r} \subseteq Makers(vms')]_vars
  BY <1>1, OthersStep DEF OthersStay, Makers
<1>. QED
  BY <1>1, Inductive, PTL DEF Spec, RemovesOwn

-----------------------------------------------------------------------------
(* Who is left alone: LeavesAlone, without the commands that break it. *)

\* An image is a VirtualBox VM's hard disk only where its command was not given an ISO.
Disks == \A v \in vms : v.backend = "vbox" /\ v.disk = "image" => ~spec[v.by].iso

LEMMA DisksStep ==
  ASSUME IInv, Disks, [Next]_vars
  PROVE  Disks'
<1>0. TypeOK /\ Held /\ Made /\ spec' = spec
  BY SpecStays DEF IInv
<1>A. ASSUME \A w \in vms' : \E v \in vms : Kin(w, v) /\ w.disk = v.disk PROVE Disks'
  BY <1>0, <1>A DEF Disks, Kin
<1>B. ASSUME vms' \subseteq vms PROVE Disks'
  BY <1>0, <1>B DEF Disks
<1>1. ASSUME NEW r \in Runs, CreateVbox(r) \/ CreateHyperV(r) PROVE Disks'
  <2>1. spec[r].backend \in {"vbox", "hyperv", "vmware"} /\ vms' = vms \cup {NewVM(r)}
    BY <1>1 DEF CreateVbox, CreateHyperV
  <2>2. NewVM(r).disk = "none"
    BY <1>0, <2>1, NewVMType
  <2>. QED
    BY <1>0, <2>1, <2>2 DEF Disks
<1>2. ASSUME NEW r \in Runs, AttachVbox(r) PROVE Disks'
  <2>. DEFINE d == IF spec[r].iso THEN "dvd" ELSE "image"
  <2>1. pc[r] = "attach" /\ spec[r].backend = "vbox" /\ Attached(r, d)
        /\ d \in {"none", "dvd", "image", "wrapper"} /\ (d = "image" => ~spec[r].iso)
    BY <1>2 DEF AttachVbox
  <2>. HIDE DEF d
  <2>2. \A v \in Named(r) : v.by = r
    BY <1>0, <2>1 DEF Held, Holding
  <2>3. ASSUME NEW w \in vms', w.backend = "vbox", w.disk = "image" PROVE ~spec[w.by].iso
    <3>1. PICK v \in vms : Kin(w, v) /\ (w = v \/ (v \in Named(r) /\ w.disk = d))
      BY <1>0, <2>1, AfterAttach
    <3>. QED
      BY <2>1, <2>2, <2>3, <3>1 DEF Kin, Disks
  <2>. QED
    BY <1>0, <2>3 DEF Disks
<1>3. ASSUME NEW r \in Runs, AttachHyperV(r) PROVE Disks'
  <2>. DEFINE d == IF spec[r].iso THEN "dvd" ELSE "wrapper"
  <2>1. Attached(r, d) /\ d \in {"none", "dvd", "image", "wrapper"} /\ d # "image"
    BY <1>3 DEF AttachHyperV
  <2>. HIDE DEF d
  <2>2. ASSUME NEW w \in vms', w.backend = "vbox", w.disk = "image" PROVE ~spec[w.by].iso
    <3>1. PICK v \in vms : w = v \/ w.disk = d
      BY <1>0, <2>1, AfterAttach
    <3>. QED
      BY <2>1, <2>2, <3>1 DEF Disks
  <2>. QED
    BY <1>0, <2>2 DEF Disks
<1>4. ASSUME NEW r \in Runs, StartVM(r) PROVE Disks'
  BY <1>0, <1>A, <1>4, AfterStart
<1>5. ASSUME NEW r \in Runs, VmrunStart(r) PROVE Disks'
  <2>1. spec[r].backend = "vmware" /\ vms' = vms \cup {Started(r)}
    BY <1>5 DEF VmrunStart, Started
  <2>2. Started(r).backend = "vmware"
    BY <1>0, <2>1, StartedType
  <2>. QED
    BY <1>0, <2>1, <2>2 DEF Disks
<1>6. ASSUME NEW v \in vms, GuestEnds(v) PROVE Disks'
  BY <1>0, <1>A, <1>6, AfterGuest
<1>7. ASSUME NEW v \in vms, UserRemoves(v) PROVE Disks'
  BY <1>B, <1>7 DEF UserRemoves
<1>8. ASSUME NEW r \in Runs, CleanupVbox(r) \/ CleanupHyperV(r) PROVE Disks'
  <2>1. CASE CleanupVbox(r)
    BY <1>B, <2>1 DEF CleanupVbox
  <2>2. CASE CleanupHyperV(r)
    BY <1>0, <1>A, <2>2, AfterHyperV
  <2>. QED
    BY <1>8, <2>1, <2>2
<1>9. CASE UNCHANGED vms
  BY <1>B, <1>9
<1>. QED
  BY <1>1, <1>2, <1>3, <1>4, <1>5, <1>6, <1>7, <1>8, <1>9 DEF Next, Run, RunRun, MkdirTemp,
     WriteVmx, WriteFixedVHD, ConfigureVM, Forward, Probe, ResolveOVMF, ResolveFails, StartQemu,
     QemuEnds, StepFails, CleanupVmware, RemoveWrapper, RemoveAll, Killed, vars

\* Only unregistervm takes an image away, and only with a hard disk of a VM of its own name.
LEMMA ImagesStep ==
  ASSUME IInv, Disks, Next, NEW q \in Runs, pc'[q] # pc[q],
         spec[q].backend = "vbox" => spec[q].iso \/ spec[q].keep
  PROVE  images' = images
<1>0. TypeOK /\ Held
  BY DEF IInv
<1>1. ASSUME NEW r \in Runs, CleanupVbox(r) PROVE images' = images
  <2>1. /\ q = r /\ pc[r] = "cleanup" /\ spec[r].backend = "vbox"
        /\ images' = images \/ (~spec[r].keep /\ images' = images \ Deleted(Named(r)))
    BY <1>0, <1>1 DEF CleanupVbox, Goto, TypeOK
  <2>2. ASSUME ~spec[r].keep, NEW v \in Named(r) PROVE ~(v.backend = "vbox" /\ v.disk = "image")
    <3>1. v \in vms /\ v.by = r
      BY <1>0, <2>1 DEF Held, Holding, Named
    <3>. QED
      BY <2>1, <2>2, <3>1 DEF Disks
  <2>3. ~spec[r].keep => Deleted(Named(r)) = {}
    BY <2>2 DEF Deleted
  <2>. QED
    BY <2>1, <2>3
<1>2. ASSUME NEW v \in vms, UserRemoves(v) PROVE images' = images
  BY <1>2 DEF UserRemoves
<1>. QED
  BY <1>1, <1>2 DEF Next, Run, RunRun, MkdirTemp, WriteVmx, WriteFixedVHD, CreateVbox, CreateHyperV,
     ConfigureVM, AttachVbox, AttachHyperV, StartVM, VmrunStart, Forward, Probe, ResolveOVMF,
     ResolveFails, StartQemu, QemuEnds, StepFails, CleanupHyperV, CleanupVmware, RemoveWrapper,
     RemoveAll, Killed, GuestEnds

\* The two commands that do not leave others alone are the Hyper-V one, which removes by
\* a name it never held (run_hyperv.go:296), and a VirtualBox one of a raw image without
\* --vm-keep, whose clean-up deletes the image with the VM (run.go:487).  Where neither
\* is used, any number of qemu, VirtualBox and VMware commands leave each other's running
\* VMs and all images alone.
THEOREM OthersLeftAlone ==
  ASSUME \A s \in Specs : /\ s.backend # "hyperv"
                          /\ s.backend = "vbox" => s.iso \/ s.keep
  PROVE  Spec => LeavesAlone /\ ImagesStay
<1>1. Init => Disks
  BY DEF Init, Disks
<1>2. IInv /\ Disks /\ [Next]_vars => Disks'
  BY DisksStep
<1>3. ASSUME IInv, Disks, [Next]_vars
      PROVE  /\ [\A r \in Runs : pc'[r] # pc[r] =>
                    Makers({v \in vms : v.on}) \ {r} \subseteq Makers({v \in vms' : v.on})]_vars
             /\ [\A r \in Runs : pc'[r] # pc[r] => images' = images]_vars
  <2>. SUFFICES ASSUME Next, NEW r \in Runs, pc'[r] # pc[r]
                PROVE  /\ Makers({v \in vms : v.on}) \ {r} \subseteq Makers({v \in vms' : v.on})
                       /\ images' = images
    BY <1>3
  <2>1. spec[r] \in Specs
    BY <1>3 DEF IInv, TypeOK
  <2>2. OthersStay(r) /\ images' = images
    BY <1>3, <2>1, OthersStep, ImagesStep
  <2>. QED
    BY <2>2 DEF OthersStay, Makers
<1>. QED
  BY <1>1, <1>2, <1>3, Inductive, PTL DEF Spec, LeavesAlone, ImagesStay
=============================================================================
