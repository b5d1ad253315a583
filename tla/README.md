# A TLA+ model of cnimbus

cnimbus turns a `Nimbusfile` into a bootable single-purpose Linux image: it
compiles or downloads the *pieces* (kernel, BusyBox, iptables, wpa_supplicant,
firmware), generates a root filesystem full of shell scripts, packs it into an
ISO/raw/VHD image and can run it in a hypervisor. The program is Go, but most of
what can go wrong at run time is in the shell scripts it generates and in the
order in which it touches files it shares with other processes.

This directory holds TLA+ models of its parts, the TLC configurations that check
them on small instances, and TLAPS proofs of their safety properties for every
value of the constants. Paths below are relative to the repository's root;
`build.go` alone is `internal/rootfs/build.go` in the guest's sections and
`cmd/cnimbus/build.go` in those of the build.

## Inventory

| Component | Source | State | Operations | What is hard | What makes it correct |
|---|---|---|---|---|---|
| guest supervisor, health check, shutdown | `internal/rootfs/build.go` 60-420 | per-service script position, `$pid`, `$n`, `$failcount`, `$killed`, the pidfile, the processes | start, poll, check, restart with backoff, shutdown | scripts, workloads, shutdown and init interleave; stale pidfile; pid reuse | one instance per service; SIGTERM before SIGKILL; bounded shutdown; wedged workloads replaced |
| rcS, firewall scripts, DHCP clients | `internal/rootfs/build.go` 420-1330 | block, addresses, route, `resolv.conf`, mounts, `$IPTABLES_CMD`, filter tables | one block after the other; leases at any time | background clients beside the script; a rule failing half-way; missing disks | no half firewall; no service without its required volume; bounded boot; DNS directive kept |
| stage 1 `/init` | `internal/rootfs/stage1.go`, `frompieces.go` | mounts, loop devices, pass, tmpfs contents | scan media, mount root, fill tmpfs, switch root | late devices; mounts and loop devices a failed candidate leaves; unchecked mounts | finds a good medium if there is one; never switches to an incomplete root |
| pieces resolution and cache | `internal/pieces` | fetched hashes, pieces in memory, cache files and `.tmp` files | fetch, verify, load from and save to cache | files replaced while read; shared cache; kills; failing reads | a verified Set is one release, signed if a key is pinned |
| publishing pieces (`prepare`) | `cmd/cnimbus/prepare.go`, `cmd/thunder/main.go` | output directory, `pieces.sha256`, `.sig` | overwrite, list, sign | death between two files | readers never take a mixture for a release |
| Thunder and its cache volume | `internal/compileagent`, `cmd/thunder`, `internal/dockerrun` | tarballs, trees, `.config`s, container | download, verify, extract, configure, make, cancel | what an interrupted or unverified run leaves is reused | what is compiled is what is recorded; a repeated prepare succeeds |
| `build-disk`, lock file, key pair | `cmd/cnimbus/build.go`, `lockfile.go`, `atomicwrite.go`, `internal/secureboot/keys.go`, `keygen.go` | image, temporary files, `.lock`, two key files | check, assemble, sign, write, rename, lock | kills and failures between any two steps; inputs edited meanwhile; 16-bit fields | the file at the output boots; the lock tells what is in it; the identity survives |
| run backends | `cmd/cnimbus/run*.go`, `backend.go` | VMs, work directories, forwarding rules, NVRAM stores | create, attach, start, forward, clean up | partial failure of a sequence; several commands of one name | a failure leaves nothing behind and takes nothing else away |
| AGENT poller and kv-serve | `cmd/cnimbusagent`, `cmd/cnimbus/kvserve.go`, `internal/agentruntime` | last good value | poll, serve | half-saved file | a bad answer never replaces a good one |
| parser, byte formats, PE signing, release lookup, assets, init | the rest | none | pure functions or one-shot I/O | formats | unit-tested in the repository |

How they interact: `prepare` runs Thunder in a container and publishes its
pieces; `build-disk` resolves them through the cache, generates the scripts and
writes the image; `run` boots it in a hypervisor; the image boots stage 1, which
hands over to init; init runs rcS to completion and then starts one supervisor
script per service, and the shutdown script when the power button is pressed.
The components share no memory. They meet in files (cache volume, published
directory, cache directory, image, key directory, pidfile, `resolv.conf`) and in
signals. Each module takes the promise of the one before it as its input:
`Thunder` ends where `Pieces`' `prepare` begins to publish, `BuildDisk` starts
from a Set that `Pieces` shows to be one release, `Stage1` and `RunVM` start from
an image that `BuildDisk` completed, `GuestBoot` after a `switch_root` for which
`Stage1` shows that every file is in place, and `Supervisor` after rcS.

## Modules

| Module | What it is |
|---|---|
| `Supervisor` | supervisor scripts, health check, shutdown script, init |
| `ServiceLife` | what a RESTART policy promises, without scripts, polls, signals or an inittab |
| `GuestBoot` | rcS, the WiFi stage, firewall scripts, DHCP clients |
| `Stage1` | the initramfs `/init`, and what the build gives it to put in place |
| `Pieces` | `prepare`'s publishing, `Resolve` and the cache |
| `PieceStore` | what `Resolve` promises, without files, hashes or a cache |
| `Kconfig` | kernel fragments, `merge_config.sh`, the checks of its result, the width of a build |
| `Thunder` | `prepare`'s commands, the container, Thunder and the cache volume (extends `Kconfig`) |
| `KeyPair` | the two files of the Secure Boot identity |
| `DiskImage` | sizes, offsets and field widths of the image formats |
| `Copies` | COPY and ADD: which file ends up where |
| `BuildDisk` | `build-disk` (composes `KeyPair`, `DiskImage` and `Copies`) |
| `RunVM` | `cnimbus run` and its four backends |
| `SupervisorProofs`, `GuestBootProofs`, `Stage1Proofs`, `PiecesProofs`, `ThunderProofs`, `BuildDiskProofs`, `RunVMProofs` | theorems |
| `NatRecursion` | induction and recursion over numbers, as lemmas the other proofs cite |
| `MC*` | small instances for TLC |

### Supervisor

Each script's position is `pc[s]`; its shell variables are model variables of
the same name (`pid`, `n`, `failcount`, `killed`). One action is one shell
statement, or a run of statements that nobody can observe between: `Launch`
starts the workload in the background, `RecordPid` writes the pidfile, `Poll` is
`kill -0`, `HcPass`/`HcFail` the check command with the signal that follows,
`Reap` the `wait` with the restart decision. `Sd*` actions are the lines of the
shutdown script, `InitTerm`/`InitKill` what BusyBox init does after it.
Workloads exit with any status at any time, or wedge (`Wedge`: ignore SIGTERM,
fail all checks). The kernel reuses pids, except a pid whose zombie its script
has not waited for.

Time is in seconds. A statement takes none unless it sleeps or waits; `Tick`
lets a second pass when no script has a statement to run. Within a second
everything interleaves.

Two clocks (`ran`, `sdClock`) are capped one step above the largest value any
guard compares them with, so the cap hides nothing. `MaxCrash` bounds how often
a supervisor script itself is killed.

`ServiceLife` is the abstract specification: a service is idle, up, ended with a
status that its policy still has to judge, or done for good; each end is judged
once; a process that belongs to nobody (a stray) comes about only when a
supervisor is lost or the guest closes down. `LifePromise` says that
`Supervisor` implements it. The mapping (`PhaseOf`, `ProcOf`) reads a service's
phase off what its script waits for: the process of `$pid` if it is alive, its
status if it ended and was not waited for yet, and otherwise whether init would
ever start the script again (`Retired`).

### GuestBoot

rcS is sequential, so `pc` is its block and each block is an action; loops are
actions with a counter. `Init` picks a Nimbusfile and a machine from `Boots`.
The machine says which network cards and disks exist, which iptables binaries
the image has and which rules are rejected; links and servers answer as they
like. DHCP clients of eth0 and wlan0 renew at any time after their first lease
(`Renew`), those of eth1..eth3 get a lease at any time (`SecondaryLease`), and
any of them may give up (`ClientGivesUp`, `udhcpc -n`).

A filter table is its base (the kernel's, or the fallback's policies) and the
set of rules loaded. `Rule` loads the next rule of the running script with
whatever `$IPTABLES_CMD` names, `Trap` is the EXIT trap. The variable is shared
by both blocks as in the script, so a FIREWALL6 block without a binary of its
own inherits the IPv4 one.

`elapsed` counts seconds spent in `sleep`, `timeout` and foreground `udhcpc`.
A DHCP attempt is at most 3 seconds, three tries a second apart as the comment at
`build.go:596` says; a server that offers and then never acknowledges is not
modelled. `LogOpens` is FALSE in the runs: no image has a writable `/var/log`
and wpa_supplicant is built without log-file support
(`internal/compileagent/wpasupplicant.go:198`), so association is never seen and
the wait always times out. The proofs cover both values.

### Stage1

`pc` is the block of `/init`, `i` and `j` the position in its loops, `boot` and
`isoscan` the stacks of filesystems mounted at the two mount points, `loop0` and
`loop1` what the loop devices are attached to. `Whole`, `Boot`, `Part`, `Volume`
and `Iso` each try one candidate: what a failed one leaves mounted or attached is
what the next one finds. `mount` refuses what is on top already; `umount` takes
the top filesystem away, unless a loop device is backed by a file on it; `losetup
-d` does nothing to a mounted device. Those three, and that `Plug` may add a disk
at any moment, are the kernel's part. `Tmpfs`, `CopyBusybox`, `Install`, `Verify`
and `Shadow` fill the four executable directories: only the copies are checked.
`Build` is the check of BuildImages that all of it fits: it adds up bytes
(`Total`), while `Room` hands out pages. The loops of splitShadowedFiles and
checkShadowedFilesFitTmpfs are the recursive functions `Split` and `Counted`, over
the files in their order.

### Pieces and PieceStore

A file's content is the `prepare` run that wrote it, or absent, truncated,
partly transferred, or torn by two writers; a SHA-256 is the content it is the
hash of. Each read of the source, each open, write and rename in the cache and
each overwrite in the published directory is a step. Other processes run in
between, any of them may be killed (`PrepareKilled`, `BuilderKilled`), and reads
may fail (`FetchFault`, `HashesFault`, at most `MaxFaults`). Two builders use
the same `.tmp` name, as `saveToCache` does: `fd` tells which file an open
descriptor refers to after a rename.

`PieceStore` has releases that follow one another and requests that pick the
current one at a single moment and either fail or bring exactly its files.
`StorePromise` says that `Pieces` implements it, with `pieces.sha256` as the
moment of choice.

Left out: the refusal of plain `http://`, the text format of `pieces.sha256`,
two `prepare` runs at once.

### Thunder and Kconfig

A prepare goes through `BuildImage`, `EnsureVolumeOwned`, `Create` and, when the
container has ended well, `PublishHashes`. In the container `src` is the source
Thunder is at and `at` what it does with it; `After` is the order of `main`.
`tar`, `tmp` and `tree` are a source's archive, its `<dir>.tmp` and its unpacked
directory in the volume: bytes are `good` (what the authors published), `bad`, or
`part`. A file that is there is not fetched again, a directory that is there is
not unpacked again, but the file is verified on every run. `Interrupt` and
`KillClient` are the two halves of `cmd.Cancel`; `CliKilled` and `BoxKilled` are
SIGKILL. A prepare is only started when no container is left: two containers in
one volume are not modelled.

`Kconfig` treats a `.config` as a line per symbol. `Merged` is what
`merge_config.sh` makes of fragments in order, `Olddefconfig` drops symbols whose
dependencies are not met. Dependencies are given transitively, selects and
choices are left out, and so are the user's fragments in `/work/fragments`: prepare
mounts `/cache` and `/out` only (`prepare.go:269-272`), so the directory is empty in
every container it starts. `BuildJobs` computes `-j` from the cgroup's quota and memory.

`internal/assets/data/thunder-src` is a copy of the same code that is embedded in
the binary and compiled in the container; a definition's lines in `PROJECT.json`
may name either copy.

### BuildDisk, KeyPair, DiskImage and Copies

A build is a sequence of steps (`step[p]`): parse, resolve, check against the
pieces' provenance, assemble, load or generate the key pair, make the workspace, write
the `.partial`, rename, lock. Every input is a version: an edit of the
Nimbusfile or a newly published Set between two steps is visible to the later
one. `temps[p]` is the set of temporary files there are; each step may fail, and
the error path of the code says which it removes, and its removals succeed; a
kill (SIGKILL) removes none. A power cut is not modelled: the image is renamed
without an fsync of `.partial`, so one can leave an incomplete file at the output.
Two outputs never share a `.partial` (each process has its own output).

`KeyPair` has a step for each stat, read and rename of the two files, by builds
and keygens that take no lock and may fail to read what is there. Two things that
nothing in the code rules out break the identity: two commands inside
`LoadOrGenerate` or keygen at once (two builds that find the directory empty both
generate, `MCBuildDisk_race.cfg`), and a keygen that cannot read a complete pair,
which it takes for none and replaces. The history variable `mishaps` records them;
`PairKept` and `Enrollable` say what holds until then. `DiskImage` computes the sector counts and offsets of
ISO, raw and VHD with the widths of their fields; `Copies` does the path
arithmetic of COPY and ADD, `path.Clean` included (`Walked` goes through a path
component by component). What a directive yields is a set of files: no property
depends on their order. `Contained` holds an entry of a tarball to the destination
of its directive, and to the image unless that destination itself begins with
`..`: safeImagePath keeps entries under their destination, not the destination
under the root.

### RunVM

Each command's step is `pc[r]`. A VM records who made it, its hypervisor, its
name, whether it runs and whose image it boots. VirtualBox refuses a second VM of
a name; Hyper-V does not, and its cmdlets act on all VMs of the name given
(`Attached`, `StartVM`, `CleanupHyperV`); vmrun registers nothing. Any external
command may fail (`StepFails`; the three-minute limit of the Hyper-V script is
one way) and `Undo` says which clean-up the backend has at that point: none, the
work directory (`CleanupVmware`, `RemoveWrapper`), or the VM (`CleanupVbox`, and
`CleanupHyperV` with the directory after it). A clean-up may fail too:
unregistervm and RemoveAll report it, Hyper-V's Stop-VM and Remove-VM ignore it and
may leave any VM of the name, stopped or running. The history variable `refused`
records what could not be removed.

qemu's variable store is created by `ResolveOVMF`, and also by `ResolveFails`:
where the qemu binary is missing, `describeQEMUCommand` calls resolveOVMF for the
text it prints, and a WriteFile may stop half-way. `nvram[k]` is the set of
commands whose firmware wrote into the store; the deferred removal may be refused,
as Windows does while another qemu has the file open. A short store is not told
from a whole one.

Commands may be killed at any step (SIGKILL: main.go intercepts the other signals),
guests shut down at any time, and the user removes a VM that is off as the printed
instructions say. The creation of the Hyper-V switch and NAT, qemu's argument list
and the choice of accelerator are left out.

## Runs

| Run | Instance | Shows |
|---|---|---|
| `sup_entry` | entrypoint with health check, each policy, 2 pids, one script kill, hanging checks | one instance, TERM before KILL, completed services stay down, bounded shutdown, SIGKILL only after the grace, refinement of `ServiceLife` |
| `sup_live` | entrypoint, each policy, fair | a wedged workload is replaced, `always` restarts, a shutdown halts the guest |
| `guest_boot` | every network set-up x 8 sets of cards; 1-2 volumes x 4 sets of disks; 0-2 rules per family x all binaries x up to 2 rejected rules | volumes, firewall, network, DNS and boot time |
| `stage1_boot` | 2 whole devices, 2 partitions, 2 volumes with up to 2 ISOs, up to 3 of them present, 2 passes; images around the limit with each tmpfs mount failing; fair | a usable medium is found, and the first in order; retries start clean; switch_root only with every file in place; the build's sum; `/init` ends |
| `pieces_republish` | 1 builder, 2 resolves, eth+wifi release replaced by a plain one, 1 failing read | one release per Set, quiet source, refinement of `PieceStore` |
| `pieces_signed` | directory source, pinned key, 2 runs | authenticity |
| `thunder` | 5 kinds of prepare in one volume, 2 bad or failed transfers, 1 kill; 6 Kconfig symbols; fair | what is compiled is what is recorded, the `.config` is the request's, repeating a checked prepare succeeds |
| `build` | 1 output built twice, 3 Nimbusfile revisions, 3 Sets, 3 kinds of command, keygen beside it | the output boots, ADD stays inside, the lock tells, nothing temporary is left, images can be enrolled, the identity is kept |
| `runvm` | 3 commands out of 12 kinds with one VM name | failures leave only what was kept or could not be removed, running guests keep their files, a store holds no earlier guest's variables but in four named cases, vbox and vmware remove only their own |
| `pieces_wifi` | violation | a cache hit for a wifi image lacks supplicant and firmware |
| `thunder_verified` | violation | a tree unpacked without verification is compiled and reported as verified |
| `runvm_others` | violation | a failed Hyper-V command turns off and removes the running VM of an earlier one |

Further configurations ask questions of the same modules; each is run with
`tlc -config <cfg> <module>` and all but `MCSupervisor_two.cfg` and
`MCPieces_two.cfg` end with the counterexample described below:
`MCSupervisor_two.cfg` (two services sharing 3 pids), `MCPieces_two.cfg` (two
builders, three resolves, the `.tmp` race), `MCSupervisor_grace.cfg`,
`MCSupervisor_unhealthy.cfg`, `MCSupervisor_hang.cfg`, `MCGuestBoot_dns.cfg`,
`MCStage1_built.cfg`, `MCBuildDisk_race.cfg`, `MCThunder_orphan.cfg`,
`MCRunVM_rule.cfg`, `MCRunVM_image.cfg`.

Bounds. A health check needs two failures in a row to send SIGTERM and a third
to escalate; `Retries` 1 or 2 with `StopGrace` 1 to 3 lets every order of
escalation, restart and shutdown happen. Two pids let a service restart while
its old pid is still in the pidfile; the third lets another service take it.
Two releases and two resolves are what a stale cache needs; three resolves by
two builders let one rename the other's truncated file and a later one read it.
In `guest_boot`, one ICMPv6 rule and two own rules put a rejected rule at every
place of a script, two volumes cover shared mountpoints, and a timeout of 2
leaves the association loop a first, a middle and a last round. In `stage1_boot`
two passes are what state left by an earlier pass needs, two devices of a kind
what an order needs, two ISOs what a leftover loop device needs; `Page` is 2 so
that rounding matters. In `thunder`, two faults and one kill let a bad archive
and a half-done step meet in one volume; a third prepare repairs or trips over
it. In `build`, two runs of one output are what a stale image, lock or temporary
file needs; the sizes put the payload exactly at, and one sector past, 65535
sectors. In `runvm`, two commands are what a shared name needs and the third lets
another one succeed a failure. The largest of these state spaces have a few
million states. `CHECK_DEADLOCK` is off for `Pieces`, `BuildDisk` and
`RunVM`: their processes are bounded and end. Symmetry is used for pids, builders
and run commands, in runs without liveness only.

Fairness. `FairSpec` of `Supervisor` asks that each script and the shutdown keep
being scheduled and that time passes; that of `Stage1` that `/init` does. That is
the kernel's scheduler. Workloads need never exit, checks need never be right,
nobody need press the power button, no disk need appear. A hanging check command
is not covered by it: `HcHang` is possible in `MCSupervisor_hang.cfg` and
excluded in `sup_live`. `FairSpec` of `Thunder` asks that processes run on, and
(strong fairness on `RunPrepare`) that the user repeats a fully checked prepare
as often as it can be started: `Heals` is a statement about such a user.

### Disagreements with comments and documentation

The three violation runs each check one statement of the repository, which
`PROJECT.json` quotes. Further ones, with the configuration that shows them:

- the health check SIGKILLs a process during its STOPGRACE (`build.go:363` against
  `frompieces.go:143`; `MCSupervisor_grace.cfg`);
- an unhealthy process that exits 0 on SIGTERM is not restarted under `on-failure`
  (`build.go:384` against `nimbusfile.go:184`; `MCSupervisor_unhealthy.cfg`);
- a check command that blocks keeps a wedged workload for ever (`build.go:343`
  against `examples/healthcheck-restart/README.md:3`; `MCSupervisor_hang.cfg`);
- a lease renewal overwrites the DNS directive's `resolv.conf` (`build.go:964`
  against 751-755; `MCGuestBoot_dns.cfg`);
- `checkShadowedFilesFitTmpfs` adds up bytes, tmpfs hands out pages: an image is
  built and stops at boot, where `frompieces.go:281-290` says that such a COPY
  "previously only failed at *boot*" (`MCStage1_built.cfg`);
- two builds that find the key directory empty each generate a pair, and the second
  replaces the first (`MCBuildDisk_race.cfg`);
- Ctrl-C while the docker client is still starting its container finds nothing to
  remove and leaves the container running (`dockerrun.go`, `cmd.Cancel`;
  `MCThunder_orphan.cfg`);
- the Hyper-V script deletes the portproxy rules on 0.0.0.0 and 127.0.0.1 only, so a
  rule on another address of the port survives (`run_hyperv.go:224-227`;
  `MCRunVM_rule.cfg`);
- a VirtualBox command that fails after storageattach deletes the raw image it was
  given: `unregistervm --delete` takes the attached disk with it (`run.go:487` against
  `backend.go:67-68`; `MCRunVM_image.cfg`).

Seen while modelling, without a configuration:

- guest: the shutdown's last `kill -9` signals whatever the pidfile names by then
  (`build.go:228`); an ENTRYPOINT without a HEALTHCHECK has no pidfile and gets only
  init's one second, where `README.en.md:366` promises STOPGRACE to every ENTRYPOINT;
  an interval of 0 makes the health check spin (`nimbusfile.go:943`); the lease script
  ignores `deconfig` (`build.go:950`); with only a COPY'd `iptables` the FIREWALL6
  block runs against the IPv4 table (`build.go:926`: "there's no cross-talk";
  `IndependentRulesets` is stated for images with an IPv6 binary); `mountpoint -q`
  accepts a required volume under `/tmp` or `/var/run`, or one whose mountpoint another
  volume uses, without its device (`RequiredMounted` is stated for volumes with a
  mountpoint of their own);
- stage 1: a COPY into a subdirectory of an executable directory is built and fails at
  boot, as the directory does not exist in the tmpfs (`build.go:841-842`); of two files
  with one path `fileTree.addFile` keeps the first; a corrupt `SQUASHFS.IMG` leaves
  `/dev/loop0` attached, so no later ISO is tried (`Found` and `Preferred` except it);
- pieces: a builder killed between two files of `saveToCache` leaves an entry without
  iptables or `pieces.json`, and the next hit is served without them (`pieces.go:458`,
  `:472`); a transfer cut short counts as a missing iptables in the same way (`:273`);
  the shared `.tmp` name lets a truncated file reach its final name (`:508`), which the
  hash check at the next hit catches; two prepares with one output directory list each
  other's files (`prepare.go:306`);
- Thunder: a kill between `make defconfig` and `disableTCApplet` leaves a BusyBox
  `.config` no later run repairs, one a step later leaves no hardening (`Heals` excepts
  kills while that file is edited); `merge_config.sh` prints "redefined" only for symbols
  that are already in the `.config`, so a fragment's `n` under a later `y` can go
  unnoticed, and a `=n` request is never verified (`kernel.go:174-199`,
  `main.go:162-164`); an unverified archive that does not unpack is never removed; a
  signature or key that could not be fetched removes a good archive; `prepare.go:72-74`
  says eth+wifi is "what wifi already builds", which `hasEthDriver` excludes;
- build: the Nimbusfile is read again for the lock, so the lock may tell of an edit made
  during the build (`LockTells` says "at least as new"); keygen takes every error of
  LoadDefault for "no pair" and replaces a complete one it could not read
  (`keygen.go:72` against the comment above it; `mishaps` records "unread");
  `validate` reports every glob COPY as missing and accepts COPY of a URL
  (`README.en.md:371`); `ADD x.tar /` rejects every entry ("escapes destination",
  against `README.en.md:372`); two builds of one output share its `.partial`; error paths
  of `rawimage.go:129-133` remove a file that is still open, which Windows refuses;
  `signal.NotifyContext` in `main.go` swallows Ctrl-C for build-disk, run and kv-serve;
- run: with the qemu binary missing, a failed command creates a variable store that
  nothing removes (`run.go:155`, `:321`, `:413-415`), and so does a WriteFile that
  fails half-way, whose short file the next command of the name takes for a store;
  a failed Stop-VM or Remove-VM goes unreported, and "VM cleaned up" is printed all
  the same (`run_hyperv.go:300-304`); `--vm-name`'s help says the VM is "removed after it shuts down, unless --vm-keep",
  but a VM that was started is never removed; a raw image, which is UEFI-only, boots
  BIOS in qemu and Hyper-V unless `--uefi` is given; thirty probes can take longer than
  the "up to 90s" announced and than the script's limit; the guest's address behind the
  Hyper-V NAT is fixed, so two guests share it; the variable store of a name outlives a
  killed command and reaches the next one.

## Proofs

All theorems hold for every value of the constants the named ASSUMEs allow: any
number of services, pids, builders, releases, volumes, rules, devices, sources'
faults, kernel symbols and run commands, any timeout.
Each module has an inductive invariant `IInv`; `Inductive` proves
`Spec => []IInv` with one step per action, and the other theorems follow.

- `SupervisorProofs`. `IInv` adds to the properties where a script stands and
  what its variables mean there (`ScriptInv`), that `$killed` speaks of the
  process being watched (`KilledInv`), that a live process is the one its script
  waits for (`OwnerInv`: without it nothing rules out a second instance), and that
  the shutdown's counter equals the seconds it slept (`ClockInv`, `GraceInv`).
  Theorems: `TypeCorrect`, `OneInstanceAlways`, `TermBeforeKillAlways`,
  `CompletedStaysDownAlways`, `ShutdownBounded`, `GraceBeforeKill`, and
  `LifeRefinement` (`Spec => LifePromise`). The refinement needs less than `IInv` and
  one thing more, `LInv`: the process a script waits for is its own and has a status
  exactly when it ended (`MineInv`), and no script runs once init has sent its SIGTERM
  (`OverInv`). It holds with killed scripts too, where `OneInstance` says nothing.
- `GuestBootProofs`. `IInv` says which blocks a Nimbusfile has (`BlockInv`), which
  clients may run (`ClientInv`), how much of the time budget a block may have used
  (`TimeInv`), which volumes are settled (`DiskInv`) and, for each position in the
  firewall blocks, what the tables hold and which binary runs (`FirewallInv`: a
  script with the other family's binary is stopped by its first ICMPv6 rule).
  Theorems: `TypeCorrect`, `RequiredMountedAlways`, `FirewallWholeAlways`,
  `NoNetworkAlways`, `DirectiveWinsAlways`, `BootBoundedAlways`, `Independent`.
- `Stage1Proofs`. The search is in one of two states: `/dev/loop0` is free, and then
  only the candidate at hand is mounted (`Clean`); or it is attached to a corrupt
  image for good (`Stuck`). On top of that the invariant says what the pass has been
  over (`WholesDone`, `PartsDone`, `VolumesDone`). Theorems: `FoundAlways`,
  `PreferredAlways`, `CleanRetryAlways`. They assume that no device is listed twice
  within a kind and that no partition is also a whole device, as in the code's lists.
  For the staging the invariant is `SInv` (`StagingInductive`): what is in place at each
  block and in which directories (`Staged`), and that the pages in use are at most the
  bytes counted for the files so far and a page for each (`Spent`); it rests on what
  `Split` and `Counted` are for every list of files. Theorems: `DeliveredAlways`,
  `RoomAlways`. `RunsDown` proves the argument behind `Ends`: `Remaining` (passes,
  blocks, candidates, `.iso` files, in lexicographic order, which is proved
  well-founded) goes down with every step of the script and is untouched by a disk
  that appears. Only the fairness of `/init`'s scheduling is left to TLC.
- `PiecesProofs`. `IInv` says what `prepare` has written at each point
  (`PrepareInv`), that a published listing is complete for its run's profile, that
  a signature is of a run that signed, and what a builder knows of each piece it
  holds (`BuilderInv`). Theorems: `TypeCorrect`, `OneBuildAlways`,
  `AuthenticAlways`, `QuietSourceAlways`, and `Refinement`
  (`Spec => StorePromise`: initial states map to initial states, every step to a
  step or a stutter). `FetchedWhole` bounds what `pieces_wifi` shows: a Set that was
  fetched, not taken from the cache, always has the firmware its `pieces.json` names.
  (The supplicant is not covered: Resolve takes a failed read of it for its absence.)
- `ThunderProofs`. `IInv` says what the volume can hold (`Cached`: a pinned source's
  tree is good, a kernel's unless one was ever unpacked without verification), what
  the run in progress has established about its source at each stage (`Working`) and
  that the `.config` at hand is the request's (`Configured`: without it a tree
  configured by an earlier run would do). Theorems: `TypeCorrect`,
  `BuiltFromRecordedAlways`, `KernelAsAskedAlways`, and `JobsFit` about the width of a
  build. `VerifiedUnlessSkipped` and `VerifiedWhenChecked` bound what
  `thunder_verified` shows: the violation needs a kernel that was once unpacked in the
  volume without verification, and where every prepare verifies its kernel
  `VerifiedBuild` holds.
- `BuildDiskProofs`. `IInv` says which checks a build at each step has passed of the
  inputs it holds (`Known`), what the images and locks at the outputs are
  (`GoodImages`, `GoodLocks`) and which temporary files a step may own (`Tidy`).
  `LoadsWhole`, `LayoutAlwaysSound` and `GeometryAlwaysSound` prove the arithmetic of
  the formats for every size: no truncation of the El Torito count for a payload the
  build accepts, partitions in order and inside the disk, a geometry that does not
  claim more than the disk. `CopiesContained` proves, for every list of directives,
  every path and every tarball, that an entry that passes safeImagePath stays where it
  belongs; it rests on what `path.Clean` leaves of any path (`CleanFacts`: `..` only at
  the start). Theorems: `TypeCorrect`, `BootableAlways`, `StaysInsideAlways`,
  `LockTellsAlways`, `CleanExitAlways`, `PairKeptAlways` and `EnrollableAlways`. The
  last two rest on an invariant of their own, `KeyInv`: while `mishaps` is empty, who is
  inside is alone, and what a process at each step holds agrees with the files (`Turns`).
- `RunVMProofs`. `IInv` says which steps a command of each hypervisor takes (`Paths`),
  whose a VM is and at which steps its maker can be unless a clean-up was refused
  (`Made`, `Owners`), who can have a work directory (`Kept`), whose variables a store
  can hold (`Writers`), and that between createvm and its clean-up a VirtualBox command
  holds its name (`Held`: without it a clean-up by name could take another's VM).
  Theorems: `TypeCorrect`, `CleanFailureAlways`, `DiskStaysAlways`,
  `VarsForgottenAlways`, `RemovesOwnAlways`. `OthersLeftAlone` bounds what
  `runvm_others` and `MCRunVM_image.cfg` show: `LeavesAlone` and `ImagesStay` hold where
  no command is a Hyper-V one or a VirtualBox one of a raw image without `--vm-keep`.
- `NatRecursion`. The library's induction principle takes an operator as a parameter,
  which the provers cannot instantiate. Stated about a set of numbers
  (`UpToInduction`) and about functions (`RecursionUpTo`) it can be cited, and that is
  how the proofs above reach `Split`, `Counted` and `Walked`.

Every safety property a passing run checks is proved. Only model-checked are the
liveness properties `WedgedReplaced`, `AlwaysRestarted`, `GuestHalts`, `Ends` and
`Heals` (fairness is out of the prover's reach), and the counterexamples of the
violation runs.

## Not modelled

- AGENT poller and kv-serve: one read and one answer at a time and no state but the
  last good value; there is no order of steps to get wrong.
- Nimbusfile parser and `validate`: text to records without state. Its results are the
  constants of the modules above.
- The bytes of CPIO, SquashFS, FAT, ISO 9660 and GPT, PE signing, OpenPGP, the
  hypervisors' device protocols: formats and cryptography. Sizes, offsets and field
  widths are in `DiskImage`.
- Kernel release lookup, `init`, the embedded assets, the example workload: one-shot
  I/O.

What a next step could take up: two prepares in one output directory and two
containers in one volume; two builds of one output; `Stage1` and `GuestBoot` composed
through the SquashFS root.
