------------------------------ MODULE Thunder ------------------------------
(***************************************************************************)
(* `cnimbus prepare` around its container, and Thunder inside it.          *)
(*                                                                         *)
(* prepare (cmd/cnimbus/prepare.go) builds an image, hands the cache       *)
(* volume to the invoking user, starts `docker run` and, on Ctrl-C, asks   *)
(* the daemon to remove the container before it kills the docker client    *)
(* (internal/dockerrun/dockerrun.go).  Thunder (cmd/thunder/main.go)       *)
(* fetches, checks, unpacks, configures and compiles one source after      *)
(* another (internal/compileagent) in a cache volume that outlives it, and *)
(* exits at the first error.  What a killed run leaves in the volume is    *)
(* what the next one finds.                                                *)
(*                                                                         *)
(* The bytes of a source are "good" (what its authors published) or "bad"  *)
(* (anything else); a prepare is started only when no container is left.   *)
(***************************************************************************)
EXTENDS Kconfig

CONSTANTS
    Requests,   \* what a prepare can be asked for
    Machine,    \* the container's limits
    MaxFaults,  \* bound: bad or failed transfers
    MaxKills    \* bound: interrupted or killed commands and containers

Sources == {"kernel", "busybox", "busybox-other", "iptables", "libnl",
            "wpa_supplicant", "wifi-firmware", "eth-firmware"}

\* The sources with a SHA-256 in Thunder itself; a BusyBox version other than
\* the default one has none, nor has the kernel.
Pinned   == Sources \ {"kernel", "busybox-other"}
Firmware == {"wifi-firmware", "eth-firmware"}
Busyboxes == {"busybox", "busybox-other"}

ASSUME ThunderAssumption ==
    /\ Requests \subseteq
         [profile : {"none", "eth", "wifi", "eth+wifi"}, vga : BOOLEAN, vmware : BOOLEAN,
          busybox : Busyboxes, signed : BOOLEAN, skip : BOOLEAN, jobs : Nat]
    /\ Machine \in [cpus : Nat \ {0}, memory : Nat, quota : Nat, period : Nat \ {0}]
    /\ MaxFaults \in Nat /\ MaxKills \in Nat

VARIABLES
    cli,     \* what cnimbus prepare is doing
    client,  \* its docker run client: "none", "starting" or "attached"
    req,     \* the request of the last prepare (any, before the first)
    owned,   \* does the volume belong to the invoking user
    src,     \* the source the container works on, "none" when there is none
    at,      \* what it does with it
    tar,     \* the downloaded file of each source
    tmp,     \* its <dir>.tmp
    tree,    \* its unpacked directory
    conf,    \* the kernel tree's .config
    bbconf,  \* how far the .config of each BusyBox tree got
    used,    \* history: the tree each source of this run was compiled from
    skipped, \* history: was a kernel ever unpacked without verification
    faults, kills

cliVars   == <<cli, client, req, owned>>
cacheVars == <<tar, tmp, tree>>
confVars  == <<conf, bbconf>>
vars == <<cliVars, src, at, cacheVars, confVars, used, skipped, faults, kills>>

NoConf  == [s \in Symbols |-> "none"]
Phases  == {"idle", "image", "chown", "run", "cancel", "hashes"}
Stages  == {"get", "check", "unpack", "unpacking", "rename", "config", "merge", "edit",
            "make", "export"}

\* What has been done to BusyBox's .config: defconfig, the three edits, oldconfig.
Edits == <<"none", "def", "static", "notc", "hardened", "full">>
Done(e) == CHOOSE i \in 1..Len(Edits) : Edits[i] = e

\* Every variable keeps to the values the code gives it.
TypeOK ==
    /\ cli \in Phases /\ client \in {"none", "starting", "attached"}
    /\ req \in Requests /\ owned \in BOOLEAN
    /\ src \in Sources \cup {"none"} /\ at \in Stages
    /\ tar \in [Sources -> {"none", "good", "bad"}]
    /\ tmp \in [Sources -> {"none", "part", "good", "bad"}]
    /\ tree \in [Sources -> {"none", "part", "good", "bad"}]
    /\ conf \in [Symbols -> Lines]
    /\ bbconf \in [Busyboxes -> {Edits[i] : i \in 1..Len(Edits)}]
    /\ used \in [Sources -> {"none", "part", "good", "bad"}]
    /\ skipped \in BOOLEAN /\ faults \in 0..MaxFaults /\ kills \in 0..MaxKills

Empty == [s \in Sources |-> "none"]

Init ==
    /\ cli = "idle" /\ client = "none" /\ req \in Requests /\ owned = FALSE
    /\ src = "none" /\ at = "get"
    /\ tar = Empty /\ tmp = Empty /\ tree = Empty
    /\ conf = NoConf /\ bbconf = [b \in Busyboxes |-> "none"]
    /\ used = Empty /\ skipped = FALSE
    /\ faults = 0 /\ kills = 0

-----------------------------------------------------------------------------
(***************************************************************************)
(* cnimbus prepare and the docker client.                                  *)
(***************************************************************************)
boxVars  == <<src, at, cacheVars, confVars, used, skipped>>
auxVars  == <<faults, kills>>

\* Flags, the Nimbusfile and kernel.org's release list make the request.
RunPrepare(r) ==
    /\ cli = "idle" /\ src = "none"
    /\ cli' = "image" /\ req' = r
    /\ UNCHANGED <<client, owned, boxVars, auxVars>>

BuildImage ==
    /\ cli = "image"
    /\ cli' = "chown"
    /\ UNCHANGED <<client, req, owned, boxVars, auxVars>>

\* ensureVolumeOwnedByInvokingUser, in a container of its own; the daemon
\* makes a new volume root's.
EnsureVolumeOwned ==
    /\ cli = "chown"
    /\ owned' = TRUE /\ cli' = "run" /\ client' = "starting"
    /\ UNCHANGED <<req, boxVars, auxVars>>

\* The daemon creates and starts the container for a client that still lives,
\* and Thunder begins with the kernel.
Create ==
    /\ client = "starting"
    /\ client' = "attached"
    /\ src' = "kernel" /\ at' = "get" /\ used' = Empty
    /\ UNCHANGED <<cli, req, owned, cacheVars, confVars, skipped, auxVars>>

\* Ctrl-C: before docker run it ends the command; during it, cmd.Cancel first
\* runs `docker rm -f`, which finds the container only if there is one.
Interrupt ==
    /\ kills < MaxKills /\ kills' = kills + 1
    /\ \/ cli \in {"image", "chown"} /\ cli' = "idle" /\ UNCHANGED src
       \/ cli = "run" /\ cli' = "cancel" /\ src' = "none"
    /\ UNCHANGED <<client, req, owned, at, cacheVars, confVars, used, skipped, faults>>

\* ... and then kills the client.
KillClient ==
    /\ cli = "cancel"
    /\ cli' = "idle" /\ client' = "none"
    /\ UNCHANGED <<req, owned, boxVars, auxVars>>

\* writePiecesHashes and signPiecesHashes end the command (see Pieces).
PublishHashes ==
    /\ cli = "hashes"
    /\ cli' = "idle"
    /\ UNCHANGED <<client, req, owned, boxVars, auxVars>>

\* SIGKILL of prepare with its client: the container is the daemon's.
CliKilled ==
    /\ kills < MaxKills /\ kills' = kills + 1
    /\ cli # "idle"
    /\ cli' = "idle" /\ client' = "none"
    /\ UNCHANGED <<req, owned, boxVars, faults>>

\* `cnimbus clean` removes the volume, unless a container uses it.
RunClean ==
    /\ cli = "idle" /\ src = "none" /\ tar # Empty
    /\ kills < MaxKills /\ kills' = kills + 1
    /\ tar' = Empty /\ tmp' = Empty /\ tree' = Empty /\ owned' = FALSE
    /\ conf' = NoConf /\ bbconf' = [b \in Busyboxes |-> "none"]
    /\ skipped' = FALSE
    /\ UNCHANGED <<cli, client, req, src, at, used, faults>>

-----------------------------------------------------------------------------
(***************************************************************************)
(* Thunder.  fatalOn ends the container at the first error; the client     *)
(* reports it to a prepare that still waits.                               *)
(***************************************************************************)
Exit(ok) ==
    /\ src' = "none" /\ client' = "none"
    /\ cli' = IF cli # "run" THEN cli ELSE IF ok THEN "hashes" ELSE "idle"
    /\ UNCHANGED <<req, owned, at>>

\* The source main() turns to after s, "none" when pieces.json is next.
After(s) ==
    LET eth == IF HasEthDriver(req) THEN "eth-firmware" ELSE "none"
    IN  CASE s = "kernel"                        -> req.busybox
          [] s \in Busyboxes                     -> "iptables"
          [] s = "iptables" /\ HasWifiDriver(req) -> "libnl"
          [] s = "libnl"                         -> "wpa_supplicant"
          [] s = "wpa_supplicant"                -> "wifi-firmware"
          [] s = "eth-firmware"                  -> "none"
          [] OTHER                               -> eth

\* On with the next source, or with pieces.json.
Advance ==
    /\ IF After(src) = "none" THEN at' = "export" /\ UNCHANGED src
                              ELSE at' = "get" /\ src' = After(src)
    /\ UNCHANGED cliVars

Goto(stage) == at' = stage /\ UNCHANGED <<src, cliVars>>

Fault == faults < MaxFaults /\ faults' = faults + 1

\* fetchExtract, fetchOneFirmwareFile: a file of that name is not fetched again.
\* downloadFile writes a .tmp and renames it, so a killed one leaves no file.
Download ==
    /\ src # "none" /\ at = "get" /\ owned
    /\ \/ /\ tar[src] # "none"
          /\ UNCHANGED <<tar, faults>>
       \/ /\ tar[src] = "none"
          /\ \/ tar' = [tar EXCEPT ![src] = "good"] /\ UNCHANGED faults
             \/ tar' = [tar EXCEPT ![src] = "bad"] /\ Fault
    /\ Goto("check")
    /\ UNCHANGED <<tmp, tree, confVars, used, skipped, kills>>

\* A transfer that fails, or a volume Thunder may not write to.
DownloadFails ==
    /\ src # "none" /\ at = "get" /\ (owned => tar[src] = "none")
    /\ IF owned THEN Fault ELSE UNCHANGED faults
    /\ Exit(FALSE)
    /\ UNCHANGED <<cacheVars, confVars, used, skipped, kills>>

\* Is the file checked before it is used, on every run and not only the first.
Verifies(s) == s \in Pinned \/ (s = "kernel" /\ req.signed /\ ~req.skip)

Check ==
    /\ src # "none" /\ at = "check"
    /\ Verifies(src) => tar[src] = "good"
    /\ IF src \in Firmware THEN Advance ELSE Goto("unpack")
    /\ UNCHANGED <<cacheVars, confVars, used, skipped, auxVars>>

\* A mutant of CheckFails: the file that failed is left for the next run.
CheckFailsKeeps ==
    /\ src # "none" /\ at = "check" /\ Verifies(src)
    /\ IF tar[src] = "bad" THEN UNCHANGED faults ELSE src = "kernel" /\ Fault
    /\ Exit(FALSE)
    /\ UNCHANGED <<cacheVars, confVars, used, skipped, kills>>

\* The file is removed when it does not match, and also when the signature or
\* the keys to check it with could not be fetched.
CheckFails ==
    /\ src # "none" /\ at = "check" /\ Verifies(src)
    /\ IF tar[src] = "bad" THEN UNCHANGED faults ELSE src = "kernel" /\ Fault
    /\ tar' = [tar EXCEPT ![src] = "none"]
    /\ Exit(FALSE)
    /\ UNCHANGED <<tmp, tree, confVars, used, skipped, kills>>

\* A mutant of Unpack: the archive is unpacked straight into its directory.
UnpackInPlace ==
    /\ src # "none" /\ at = "unpack"
    /\ IF tree[src] # "none" THEN Goto("config") /\ UNCHANGED <<tmp, tree>>
       ELSE /\ tmp' = [tmp EXCEPT ![src] = "part"]
            /\ tree' = [tree EXCEPT ![src] = "part"] /\ Goto("unpacking")
    /\ UNCHANGED <<tar, confVars, used, skipped, auxVars>>

\* A directory of that name is used as it is; else <dir>.tmp is emptied.
Unpack ==
    /\ src # "none" /\ at = "unpack"
    /\ IF tree[src] # "none" THEN Goto("config") /\ UNCHANGED tmp
       ELSE tmp' = [tmp EXCEPT ![src] = "part"] /\ Goto("unpacking")
    /\ UNCHANGED <<tar, tree, confVars, used, skipped, auxVars>>

ExtractTarball ==
    /\ src # "none" /\ at = "unpacking"
    /\ tmp' = [tmp EXCEPT ![src] = tar[src]]
    /\ Goto("rename")
    /\ UNCHANGED <<tar, tree, confVars, used, skipped, auxVars>>

\* A truncated archive, or one with an entry that leaves the directory; the
\* archive stays.
ExtractFails ==
    /\ src # "none" /\ at = "unpacking" /\ tar[src] = "bad"
    /\ tmp' = [tmp EXCEPT ![src] = "none"]
    /\ Exit(FALSE)
    /\ UNCHANGED <<tar, tree, confVars, used, skipped, auxVars>>

Rename ==
    /\ src # "none" /\ at = "rename"
    /\ tree' = [tree EXCEPT ![src] = tmp[src]]
    /\ tmp' = [tmp EXCEPT ![src] = "none"]
    /\ skipped' = (skipped \/ (src = "kernel" /\ ~Verifies(src)))
    /\ Goto("config")
    /\ UNCHANGED <<tar, confVars, used, auxVars>>

\* A mutant of Configure: the kernel is configured only once, as BusyBox is.
ConfigureOnce ==
    /\ src # "none" /\ at = "config"
    /\ CASE src = "kernel" -> /\ conf' = IF conf = NoConf THEN Tiny ELSE conf
                              /\ Goto("merge") /\ UNCHANGED bbconf
         [] src \in Busyboxes /\ bbconf[src] = "none" ->
                bbconf' = [bbconf EXCEPT ![src] = "def"] /\ Goto("edit") /\ UNCHANGED conf
         [] src = "libnl"   -> Advance /\ UNCHANGED confVars
         [] OTHER           -> Goto("make") /\ UNCHANGED confVars
    /\ UNCHANGED <<cacheVars, used, skipped, auxVars>>

\* The kernel starts from tinyconfig on every run, BusyBox from defconfig only
\* when it has no .config; libnl is compiled with wpa_supplicant.
Configure ==
    /\ src # "none" /\ at = "config"
    /\ CASE src = "kernel" -> conf' = Tiny /\ Goto("merge") /\ UNCHANGED bbconf
         [] src \in Busyboxes /\ bbconf[src] = "none" ->
                bbconf' = [bbconf EXCEPT ![src] = "def"] /\ Goto("edit") /\ UNCHANGED conf
         [] src = "libnl"   -> Advance /\ UNCHANGED confVars
         [] OTHER           -> Goto("make") /\ UNCHANGED confVars
    /\ UNCHANGED <<cacheVars, used, skipped, auxVars>>

\* The .config merge_config.sh makes of the current one, and olddefconfig of that.
\* Nothing that prepare does puts a file into /work/fragments.
Fragments == NimbusFragments(req)
Written   == Merged(conf, Fragments, Len(Fragments))
Resolved  == Olddefconfig(Written)

Acceptable == ~Conflicting(conf, Fragments) /\ Applied(Resolved, Fragments)

MergeConfig ==
    /\ src # "none" /\ at = "merge" /\ Acceptable
    /\ conf' = Resolved
    /\ Goto("make")
    /\ UNCHANGED <<bbconf, cacheVars, used, skipped, auxVars>>

\* A conflict is reported before olddefconfig has run.  The next run starts from
\* tinyconfig again.
MergeFails ==
    /\ src # "none" /\ at = "merge" /\ ~Acceptable
    /\ conf' = IF Conflicting(conf, Fragments) THEN Written ELSE Resolved
    /\ Exit(FALSE)
    /\ UNCHANGED <<bbconf, cacheVars, used, skipped, auxVars>>

\* setStaticConfig, disableTCApplet, setHardeningFlags, make oldconfig.
EditBusybox ==
    /\ src # "none" /\ at = "edit"
    /\ LET next == Edits[Done(bbconf[src]) + 1]
       IN  /\ bbconf' = [bbconf EXCEPT ![src] = next]
           /\ Goto(IF next = "full" THEN "make" ELSE "edit")
    /\ UNCHANGED <<conf, cacheVars, used, skipped, auxVars>>

\* Compilers want about a gibibyte each, and tc.c needs headers the builder
\* image no longer has.
Compiles ==
    /\ Machine.memory > 0 => BuildJobs(Machine, req.jobs) <= GbFloor(Machine.memory)
    /\ src \in Busyboxes => Done(bbconf[src]) >= Done("notc")

Make ==
    /\ src # "none" /\ at = "make" /\ Compiles
    /\ used' = [s \in Sources |-> IF s = src \/ (s = "libnl" /\ src = "wpa_supplicant")
                                  THEN tree[s] ELSE used[s]]
    /\ Advance
    /\ UNCHANGED <<cacheVars, confVars, skipped, auxVars>>

MakeFails ==
    /\ src # "none" /\ at = "make" /\ ~Compiles
    /\ Exit(FALSE)
    /\ UNCHANGED <<cacheVars, confVars, used, skipped, auxVars>>

\* writeProvenance, the last thing a run does: what pieces.json says of it.
Provenance ==
    [config   |-> conf,
     tarball  |-> tar,
     verified |-> req.signed /\ ~req.skip]

WriteProvenance ==
    /\ src # "none" /\ at = "export"
    /\ Exit(TRUE)
    /\ UNCHANGED <<cacheVars, confVars, used, skipped, auxVars>>

\* The daemon stops, or the kernel kills, the container.
BoxKilled ==
    /\ src # "none"
    /\ kills < MaxKills /\ kills' = kills + 1
    /\ Exit(FALSE)
    /\ UNCHANGED <<cacheVars, confVars, used, skipped, faults>>

-----------------------------------------------------------------------------
CliStep == \/ BuildImage \/ EnsureVolumeOwned \/ Create \/ KillClient \/ PublishHashes

BoxStep == \/ Download \/ DownloadFails \/ Check \/ CheckFails \/ Unpack \/ ExtractTarball
           \/ ExtractFails \/ Rename \/ Configure \/ MergeConfig \/ MergeFails
           \/ EditBusybox \/ Make \/ MakeFails \/ WriteProvenance

Next == \/ \E r \in Requests : RunPrepare(r)
        \/ CliStep \/ BoxStep
        \/ Interrupt \/ CliKilled \/ RunClean \/ BoxKilled

Spec == Init /\ [][Next]_vars

\* The requests whose every source is checked and whose fragments agree.
Checked == {r \in Requests : /\ r.signed /\ ~r.skip /\ r.busybox = "busybox"
                             /\ ~Conflicting(Tiny, NimbusFragments(r))
                             /\ Applied(Asked(r), NimbusFragments(r))}

\* Processes run on until they are killed, and the user does not give up.
FairSpec ==
    /\ Spec
    /\ WF_vars(CliStep) /\ WF_vars(BoxStep)
    /\ SF_vars(\E r \in Checked : RunPrepare(r))

-----------------------------------------------------------------------------
Exporting == src # "none" /\ at = "export"
Compiled  == {s \in Sources : used[s] # "none"}

\* A run that reaches pieces.json compiled every source from a whole tree, and
\* from the very archive whose hash it records; what it pins, or records as
\* verified, is what the authors published.  The kernel is excepted unless it
\* is recorded as verified and no kernel was ever unpacked without verification
\* in this volume: a tree that is there is never compared with the archive.
BuiltFromRecorded ==
    Exporting => \A s \in Compiled :
        /\ used[s] # "part"
        /\ s \in Pinned => used[s] = "good"
        /\ (s = "kernel" => Provenance.verified /\ ~skipped)
               => used[s] = Provenance.tarball[s] /\ (s = "kernel" => used[s] = "good")

\* The .config that is published is the one the request asks for, whatever
\* earlier runs left in the kernel tree, and has every symbol a fragment set.
KernelAsAsked ==
    Exporting => /\ Provenance.config = Asked(req)
                 /\ Applied(Provenance.config, NimbusFragments(req))

\* A user who repeats a fully checked prepare gets pieces in the end, however
\* many transfers were bad and runs were killed, unless one was killed while
\* it edited BusyBox's .config.
Heals ==
    \/ []<>(cli = "hashes" /\ req \in Checked)
    \/ <>[](Done(bbconf["busybox"]) \in Done("def")..Done("static"))

\* pieces.json says "verified" only of a kernel whose source was.
VerifiedBuild == Exporting /\ Provenance.verified => used["kernel"] = "good"

\* When an interrupted prepare has returned, its container is gone.
NoOrphan == [][KillClient => src' = "none"]_vars
=============================================================================
