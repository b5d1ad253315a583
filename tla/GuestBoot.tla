----------------------------- MODULE GuestBoot -----------------------------
(***************************************************************************)
(* The boot of a cnimbus guest from switch_root to the first service: the  *)
(* generated sysinit script rcS (internal/rootfs/build.go, buildRCScript), *)
(* the WiFi stage it includes, the firewall scripts it runs, and the DHCP  *)
(* clients it leaves behind, which go on calling udhcpc.script beside it   *)
(* and after it.                                                           *)
(*                                                                         *)
(* rcS is sequential: pc is the block it is in.  What it finds (network    *)
(* cards, disks, iptables binaries, rules the kernel rejects) is chosen    *)
(* once in Init; what a link or a server answers, whenever it is asked.    *)
(***************************************************************************)
EXTENDS Integers, FiniteSets

CONSTANTS
    Boots,         \* pairs of a Nimbusfile (PiecesSpec) and a machine it boots on
    Mountpoints,   \* the directories a VOLUME may name
    Devices,       \* the block devices a VOLUME may name
    NoMount,       \* nothing is mounted there: the read-only root shows
    Tmpfs,         \* the tmpfs rcS itself mounts on /tmp and /var/run
    Ramdirs,       \* which of the Mountpoints these are
    NDPRules,      \* how many ICMPv6 rules firewall6.sh adds (11 in the code)
    AssocTimeout,  \* wifiAssociateTimeoutSeconds (20 in the code)
    LogOpens       \* can wpa_supplicant open /var/log/wpa_supplicant.log

Families == {4, 6}
NICs     == {"eth0", "wlan0", "eth1", "eth2", "eth3"}
Primary  == {"eth0", "wlan0"}

(***************************************************************************)
(* A Nimbusfile: mode is IP, DHCP (IP wins) or neither; dns says whether   *)
(* there is a DNS directive, ntp whether the servers are named by address; *)
(* volumes lists the `count` VOLUME lines in order; rules gives the number *)
(* of FIREWALL (4) and FIREWALL6 (6) lines.                                *)
(***************************************************************************)
VolumeType == [dev : Devices, mnt : Mountpoints, required : BOOLEAN]

(***************************************************************************)
(* A machine: its network cards; the disks that are attached and formatted *)
(* as the VOLUME says; the iptables programs in the image (COPY'd ones and *)
(* the bundled one); whether every iptables command fails; the rules       *)
(* <<family, number>> that are rejected.                                   *)
(***************************************************************************)
MachineType ==
    [nics : SUBSET NICs, disks : SUBSET Devices,
     tools : SUBSET {"iptables", "ip6tables", "bundled"},
     broken : BOOLEAN, bad : SUBSET (Families \X Nat)]

IsSpec(s) ==
    /\ s.mode \in {"static", "dhcp", "none"}
    /\ s.wifi \in BOOLEAN /\ s.vga \in BOOLEAN /\ s.dns \in BOOLEAN
    /\ s.ntp \in {"none", "literal", "names"}
    /\ s.count \in Nat /\ s.volumes \in [1..s.count -> VolumeType]
    /\ s.rules \in [Families -> Nat] /\ s.onError \in {"open", "closed"}

ASSUME BootsAssumption ==
    \A b \in Boots : b = <<b[1], b[2]>> /\ IsSpec(b[1]) /\ b[2] \in MachineType
ASSUME MountAssumption ==
    /\ Ramdirs \subseteq Mountpoints
    /\ NoMount # Tmpfs /\ {NoMount, Tmpfs} \cap Devices = {}
ASSUME NumbersAssumption == NDPRules \in Nat \ {0} /\ AssocTimeout \in Nat
ASSUME LogAssumption == LogOpens \in BOOLEAN

VARIABLES
    spec,      \* the Nimbusfile, fixed when the image was built
    machine,   \* the machine, fixed
    pc,        \* the block of rcS that runs
    n,         \* the block's loop counter
    elapsed,   \* seconds rcS has spent waiting
    addr,      \* interfaces with an IPv4 address
    route,     \* the interface of the default route that wins
    client,    \* what each interface's DHCP client does
    resolvRW,  \* is the tmpfs file bound over /etc/resolv.conf
    resolv,    \* who wrote the nameservers in /etc/resolv.conf
    wifi,      \* rcS's $WIFI_STATE
    mounted,   \* what is mounted on top at each mountpoint
    logfile,   \* where syslogd writes
    cmd,       \* rcS's $IPTABLES_CMD
    fam,       \* the family whose firewall block runs
    table      \* the kernel's IPv4 and IPv6 filter tables

fixedVars  == <<spec, machine>>
clientVars == <<addr, route, client, resolv>>
netVars    == <<clientVars, resolvRW, wifi>>
diskVars   == <<mounted, logfile>>
fwVars     == <<cmd, fam, table>>
vars == <<fixedVars, pc, n, elapsed, netVars, diskVars, fwVars>>

\* Mutant: every image counts as networked.
NetworkedAlways == TRUE

\* buildRCScript's `networked`, which also gates the other interfaces.
Networked == spec.mode # "none" \/ spec.wifi

(***************************************************************************)
(* firewall.sh and firewall6.sh: rule 1 accepts loopback, rule 2           *)
(* established connections, firewall6.sh goes on with the ICMPv6 rules,    *)
(* then come the Nimbusfile's own.                                         *)
(***************************************************************************)
RuleCount(f) == 2 + (IF f = 6 THEN NDPRules ELSE 0) + spec.rules[f]
IsNDP(f, k)  == f = 6 /\ k \in 3..(2 + NDPRules)

Fallbacks == {"open", "closed"}
TableType == [base : {"boot"} \cup Fallbacks, rules : SUBSET (Families \X Nat)]
Untouched == [base |-> "boot", rules |-> {}]

Blocks == {"mounts", "eth0", "carrier", "udhcpc", "ipv6", "wifi", "assoc", "wlan0", "nics",
           "vga", "dns", "ntp", "volumes", "log", "firewall", "rules", "trap",
           "halted", "started"}
Commands == {"unset", "iptables", "ip6tables", "bundled iptables", "bundled ip6tables"}

TypeOK ==
    /\ <<spec, machine>> \in Boots
    /\ pc \in Blocks
    /\ n \in Nat /\ elapsed \in Nat
    /\ addr \subseteq NICs
    /\ route \in Primary \cup {"none"}
    /\ client \in [NICs -> {"off", "trying", "bound"}]
    /\ resolvRW \in BOOLEAN
    /\ resolv \in {"empty", "lease", "directive"}
    /\ wifi \in {"pending", "connected", "rejected", "timeout"}
    /\ mounted \in [Mountpoints -> Devices \cup {NoMount, Tmpfs}]
    /\ logfile \in Mountpoints \cup {"console"}
    /\ cmd \in Commands
    /\ fam \in Families
    /\ table \in [Families -> TableType]

Init ==
    /\ \E b \in Boots : spec = b[1] /\ machine = b[2]
    /\ pc = "mounts" /\ n = 0 /\ elapsed = 0
    /\ addr = {} /\ route = "none"
    /\ client = [i \in NICs |-> "off"]
    /\ resolvRW = FALSE /\ resolv = "empty"
    /\ wifi = "pending"
    /\ mounted = [m \in Mountpoints |-> NoMount]
    /\ logfile = "console"
    /\ cmd = "unset" /\ fam = 4
    /\ table = [f \in Families |-> Untouched]

-----------------------------------------------------------------------------
(***************************************************************************)
(* udhcpc and its scripts.                                                 *)
(***************************************************************************)

\* Writing nameservers; without the bind mount the file is read-only.
WriteResolv(who) == IF resolvRW THEN who ELSE resolv

\* udhcpc.script on "bound" or "renew": the address, then the default route
\* if the lease has a router, then resolv.conf if it has name servers.
LeaseScript(i) ==
    /\ addr' = addr \cup {i}
    /\ route' \in {route, i}
    /\ resolv' \in {resolv, WriteResolv("lease")}

\* A client in the background renews its lease.
Renew(i) ==
    /\ i \in Primary
    /\ client[i] = "bound"
    /\ LeaseScript(i)
    /\ UNCHANGED <<fixedVars, pc, n, elapsed, client, resolvRW, wifi, diskVars, fwVars>>

\* Mutant: the other interfaces use udhcpc.script too.
SecondaryLeaseFull(i) ==
    /\ i \notin Primary
    /\ client[i] \in {"trying", "bound"}
    /\ client' = [client EXCEPT ![i] = "bound"]
    /\ LeaseScript(i)
    /\ UNCHANGED <<fixedVars, pc, n, elapsed, resolvRW, wifi, diskVars, fwVars>>

\* udhcpc-secondary.script on eth1..eth3: the address and nothing else.
SecondaryLease(i) ==
    /\ i \notin Primary
    /\ client[i] \in {"trying", "bound"}
    /\ client' = [client EXCEPT ![i] = "bound"]
    /\ addr' = addr \cup {i}
    /\ UNCHANGED <<fixedVars, pc, n, elapsed, route, resolv, resolvRW, wifi, diskVars, fwVars>>

\* With -n a client that gets no answer, at first or once its lease has run
\* out, exits.  The scripts ignore "deconfig": the address stays.
ClientGivesUp(i) ==
    /\ client[i] # "off"
    /\ client' = [client EXCEPT ![i] = "off"]
    /\ UNCHANGED <<fixedVars, pc, n, elapsed, addr, route, resolv, resolvRW, wifi, diskVars,
                   fwVars>>

-----------------------------------------------------------------------------
(***************************************************************************)
(* rcS, block by block.                                                    *)
(***************************************************************************)
Goto(block) == pc' = block /\ n' = 0

\* A loop of at most `limit` rounds, a second apart, that goes on to `block`
\* once what it waits for is there (`found` is chosen by the environment).
Wait(here, limit, found, block) ==
    /\ pc = here
    /\ \/ /\ n < limit
          /\ n' = n + 1 /\ elapsed' = elapsed + 1
          /\ UNCHANGED pc
       \/ /\ n = limit \/ found
          /\ Goto(block)
          /\ UNCHANGED elapsed

\* proc, sys, /tmp, /var/run, and the writable /etc/resolv.conf if that works.
Mounts ==
    /\ pc = "mounts"
    /\ mounted' = [m \in Mountpoints |-> IF m \in Ramdirs THEN Tmpfs ELSE mounted[m]]
    /\ resolvRW' \in BOOLEAN
    /\ Goto("eth0")
    /\ UNCHANGED <<fixedVars, elapsed, clientVars, wifi, logfile, fwVars>>

\* ifconfig and route for a static address; both fail without the interface.
StaticUp(i) ==
    /\ addr' = IF i \in machine.nics THEN addr \cup {i} ELSE addr
    /\ route' = IF i \in machine.nics THEN i ELSE route
    /\ UNCHANGED <<resolv, client>>

Eth0 ==
    /\ pc = "eth0"
    /\ \/ spec.mode = "static" /\ StaticUp("eth0") /\ Goto("ipv6")
       \/ spec.mode = "dhcp" /\ Goto("carrier") /\ UNCHANGED clientVars
       \/ spec.mode = "none" /\ Goto("wifi") /\ UNCHANGED clientVars
    /\ UNCHANGED <<fixedVars, elapsed, resolvRW, wifi, diskVars, fwVars>>

Carrier ==
    /\ Wait("carrier", 3, "eth0" \in machine.nics, "udhcpc")
    /\ UNCHANGED <<fixedVars, netVars, diskVars, fwVars>>

\* udhcpc -n -t 3 -T 1 in the foreground: a lease within three seconds, after
\* which the client stays in the background, or none and it exits.
Udhcpc(i) ==
    \/ /\ i \in machine.nics
       /\ \E t \in 0..3 : elapsed' = elapsed + t
       /\ client' = [client EXCEPT ![i] = "bound"]
       /\ LeaseScript(i)
    \/ /\ elapsed' = elapsed + (IF i \in machine.nics THEN 3 ELSE 0)
       /\ UNCHANGED clientVars

Dhcp ==
    /\ pc = "udhcpc"
    /\ Udhcpc("eth0")
    /\ Goto("ipv6")
    /\ UNCHANGED <<fixedVars, resolvRW, wifi, diskVars, fwVars>>

\* A global IPv6 address is waited for; nothing depends on whether it came.
Ipv6 ==
    /\ Wait("ipv6", 5, "eth0" \in machine.nics, "wifi")
    /\ UNCHANGED <<fixedVars, netVars, diskVars, fwVars>>

WifiStart ==
    /\ pc = "wifi"
    /\ Goto(IF spec.wifi /\ "wlan0" \in machine.nics THEN "assoc" ELSE "nics")
    /\ UNCHANGED <<fixedVars, elapsed, netVars, diskVars, fwVars>>

\* The lines grep may find in wpa_supplicant's log.
LogLines == IF LogOpens THEN {"pending", "connected", "rejected"} ELSE {"pending"}

\* Mutant: WIFI_N is not counted.
AssocUncounted ==
    /\ pc = "assoc"
    /\ \E line \in LogLines :
         IF line # "pending"
           THEN wifi' = line /\ Goto("wlan0") /\ UNCHANGED elapsed
           ELSE elapsed' = elapsed + 1 /\ UNCHANGED <<pc, n, wifi>>
    /\ UNCHANGED <<fixedVars, clientVars, resolvRW, diskVars, fwVars>>

\* One round of the wait for an association.
Assoc ==
    /\ pc = "assoc"
    /\ \E line \in LogLines :
         IF n >= AssocTimeout
           THEN wifi' = "timeout" /\ Goto("wlan0") /\ UNCHANGED elapsed
         ELSE IF line # "pending"
           THEN wifi' = line /\ Goto("wlan0") /\ UNCHANGED elapsed
           ELSE /\ n' = n + 1 /\ elapsed' = elapsed + 1
                /\ UNCHANGED <<pc, wifi>>
    /\ UNCHANGED <<fixedVars, clientVars, resolvRW, diskVars, fwVars>>

\* Addresses for wlan0 as for eth0, if it is associated.
Wlan0 ==
    /\ pc = "wlan0"
    /\ IF wifi = "connected" /\ spec.mode = "static" THEN StaticUp("wlan0") /\ UNCHANGED elapsed
       ELSE IF wifi = "connected" /\ spec.mode = "dhcp" THEN Udhcpc("wlan0")
       ELSE UNCHANGED <<clientVars, elapsed>>
    /\ Goto("nics")
    /\ UNCHANGED <<fixedVars, resolvRW, wifi, diskVars, fwVars>>

\* A DHCP client in the background for each further interface there is.
Nics ==
    /\ pc = "nics"
    /\ client' = [i \in NICs |-> IF Networked /\ i \in machine.nics \ Primary
                                 THEN "trying" ELSE client[i]]
    /\ Goto(IF spec.vga THEN "vga" ELSE "dns")
    /\ UNCHANGED <<fixedVars, elapsed, addr, route, resolv, resolvRW, wifi, diskVars, fwVars>>

\* The address banner waits for a global IPv6 address of any interface.
Vga ==
    /\ Wait("vga", 5, machine.nics # {}, "dns")
    /\ UNCHANGED <<fixedVars, netVars, diskVars, fwVars>>

Dns ==
    /\ pc = "dns"
    /\ resolv' = IF spec.dns THEN WriteResolv("directive") ELSE resolv
    /\ Goto("ntp")
    /\ UNCHANGED <<fixedVars, elapsed, addr, route, client, resolvRW, wifi, diskVars, fwVars>>

\* Can ntpd resolve its servers' names, as far as the Nimbusfile tells.
NtpCanResolve == spec.dns \/ spec.mode = "dhcp" \/ spec.ntp = "literal"

\* timeout 3 ntpd in the foreground (then one in the background).
Ntp ==
    /\ pc = "ntp"
    /\ \E t \in (IF Networked /\ spec.ntp # "none" /\ NtpCanResolve THEN 0..3 ELSE {0}) :
         elapsed' = elapsed + t
    /\ Goto("volumes")
    /\ UNCHANGED <<fixedVars, netVars, diskVars, fwVars>>

\* The VOLUME rcS is at, and what mounting its device leaves on top.
Volume == spec.volumes[n + 1]
AfterMount == IF Volume.dev \in machine.disks
              THEN [mounted EXCEPT ![Volume.mnt] = Volume.dev] ELSE mounted

\* Mutant: a required volume that is not there ends rcS with an error.
VolumesExit ==
    /\ pc = "volumes"
    /\ \/ /\ n < spec.count
          /\ mounted' = AfterMount
          /\ IF Volume.required /\ mounted'[Volume.mnt] = NoMount
               THEN Goto("started")
               ELSE n' = n + 1 /\ UNCHANGED pc
       \/ /\ n = spec.count
          /\ Goto("log")
          /\ UNCHANGED mounted
    /\ UNCHANGED <<fixedVars, elapsed, netVars, logfile, fwVars>>

\* mount, then mountpoint -q: a required volume that is not there stops rcS
\* for ever, and with it the boot.
Volumes ==
    /\ pc = "volumes"
    /\ \/ /\ n < spec.count
          /\ mounted' = AfterMount
          /\ IF Volume.required /\ mounted'[Volume.mnt] = NoMount
               THEN Goto("halted")
               ELSE n' = n + 1 /\ UNCHANGED pc
       \/ /\ n = spec.count
          /\ Goto("log")
          /\ UNCHANGED mounted
    /\ UNCHANGED <<fixedVars, elapsed, netVars, logfile, fwVars>>

\* syslogd on the first volume if something is mounted there; then acpid.
Log ==
    /\ pc = "log"
    /\ logfile' = IF spec.count > 0 /\ mounted[spec.volumes[1].mnt] # NoMount
                  THEN spec.volumes[1].mnt ELSE "console"
    /\ Goto("firewall")
    /\ UNCHANGED <<fixedVars, elapsed, netVars, mounted, fwVars>>

-----------------------------------------------------------------------------
(***************************************************************************)
(* The FIREWALL block, then the FIREWALL6 block.                           *)
(***************************************************************************)
OwnTool(f) == IF f = 4 THEN "iptables" ELSE "ip6tables"

\* Mutant: the IPv6 block calls the bundled binary as the IPv4 one does.
BundledIPv4(f) == "bundled iptables"

Bundled(f) == IF f = 4 THEN "bundled iptables" ELSE "bundled ip6tables"

\* The family whose table a command changes.
FamilyOf(c) == IF c \in {"iptables", "bundled iptables"} THEN 4 ELSE 6

\* What follows the block of a family.
BlockDone == /\ fam' = 6
             /\ Goto(IF fam = 4 THEN "firewall" ELSE "started")

\* Choose $IPTABLES_CMD and start the script; with no binary, a message.  The
\* variable keeps what the other block put there.
Firewall ==
    LET chosen == IF spec.rules[fam] = 0 THEN cmd
                  ELSE IF OwnTool(fam) \in machine.tools THEN OwnTool(fam)
                  ELSE IF "bundled" \in machine.tools THEN Bundled(fam)
                  ELSE cmd
    IN  /\ pc = "firewall"
        /\ cmd' = chosen
        /\ \/ spec.rules[fam] > 0 /\ chosen # "unset" /\ Goto("rules") /\ UNCHANGED fam
           \/ (spec.rules[fam] = 0 \/ chosen = "unset") /\ BlockDone
        /\ UNCHANGED <<fixedVars, elapsed, netVars, diskVars, table>>

\* Does command cmd refuse rule k of family f's script?
Refused(f, k) ==
    \/ machine.broken
    \/ <<f, k>> \in machine.bad
    \/ IsNDP(f, k) /\ FamilyOf(cmd) = 4

Added(t, r) == [base |-> t.base, rules |-> t.rules \cup {r}]

\* The next rule of the script; set -e ends it at the first that fails.
Rule ==
    /\ pc = "rules"
    /\ \/ /\ n < RuleCount(fam)
          /\ ~Refused(fam, n + 1)
          /\ table' = [table EXCEPT ![FamilyOf(cmd)] = Added(@, <<fam, n + 1>>)]
          /\ n' = n + 1
          /\ UNCHANGED <<pc, fam>>
       \/ /\ n < RuleCount(fam)
          /\ Refused(fam, n + 1)
          /\ Goto("trap")
          /\ UNCHANGED <<fam, table>>
       \/ /\ n = RuleCount(fam)
          /\ BlockDone
          /\ UNCHANGED table
    /\ UNCHANGED <<fixedVars, elapsed, netVars, diskVars, cmd>>

\* The rules the closed fallback adds after its flush; set -e is still on.
ClosedRules == IF Refused(fam, 1) THEN {}
               ELSE IF Refused(fam, 2) THEN {<<fam, 1>>} ELSE {<<fam, 1>>, <<fam, 2>>}

\* Mutant: the trap sets the policies without flushing.
TrapNoFlush ==
    /\ pc = "trap"
    /\ table' = IF machine.broken THEN table
                ELSE [table EXCEPT ![FamilyOf(cmd)].base = spec.onError]
    /\ BlockDone
    /\ UNCHANGED <<fixedVars, elapsed, netVars, diskVars, cmd>>

\* The EXIT trap after a failed rule: flush, then the fallback's policies.
Trap ==
    /\ pc = "trap"
    /\ table' = IF machine.broken THEN table
                ELSE [table EXCEPT ![FamilyOf(cmd)] =
                        [base  |-> spec.onError,
                         rules |-> IF spec.onError = "closed" THEN ClosedRules ELSE {}]]
    /\ BlockDone
    /\ UNCHANGED <<fixedVars, elapsed, netVars, diskVars, cmd>>

-----------------------------------------------------------------------------
RcS == \/ Mounts \/ Eth0 \/ Carrier \/ Dhcp \/ Ipv6 \/ WifiStart \/ Assoc \/ Wlan0 \/ Nics
       \/ Vga \/ Dns \/ Ntp \/ Volumes \/ Log \/ Firewall \/ Rule \/ Trap

Clients == \E i \in NICs : Renew(i) \/ SecondaryLease(i) \/ ClientGivesUp(i)

\* rcS has returned, and init starts the services, or it blocks for ever.
Over == pc \in {"started", "halted"} /\ UNCHANGED vars

Next == RcS \/ Clients \/ Over

Spec == Init /\ [][Next]_vars

-----------------------------------------------------------------------------
(***************************************************************************)
(* Properties.                                                             *)
(***************************************************************************)

\* No service starts on a machine that lacks a required volume: each has its
\* own device on its mountpoint.  For a mountpoint that is a tmpfs anyway, or
\* that another volume shares, mountpoint -q cannot tell.
OwnMountpoint(i) ==
    /\ spec.volumes[i].mnt \notin Ramdirs
    /\ \A j \in 1..spec.count : spec.volumes[j].mnt = spec.volumes[i].mnt => j = i
RequiredMounted ==
    pc = "started" =>
        \A i \in 1..spec.count :
            spec.volumes[i].required /\ OwnMountpoint(i)
                => mounted[spec.volumes[i].mnt] = spec.volumes[i].dev

\* When the services start, each table holds all the rules declared for it
\* or the fallback FIREWALL_ON_ERROR names, never a part of the rules and
\* never the other fallback, and it is untouched exactly if no rule was
\* declared or nothing in the image could load one (buildFirewallScript's
\* set -e and EXIT trap).
AllRules(f) == [base |-> "boot", rules |-> {<<f, k>> : k \in 1..RuleCount(f)}]
HasTool(f)  == machine.tools \cap {OwnTool(f), "bundled"} # {}
TableWhole(f) ==
    IF spec.rules[f] = 0 \/ ~HasTool(f) \/ machine.broken
      THEN table[f] = Untouched
      ELSE \/ table[f] = AllRules(f)
           \/ /\ table[f].base = spec.onError
              /\ spec.onError = "open" => table[f].rules = {}
FirewallWhole == pc = "started" => \A f \in Families : TableWhole(f)

\* An image with neither IP, DHCP nor WiFi never gets an address, however
\* many cards the machine has (T86).
NoNetwork ==
    spec.mode = "none" /\ ~spec.wifi => addr = {} /\ route = "none"

\* Where no DHCP client of eth0 or wlan0 runs, the DNS directive's servers
\* are the ones in resolv.conf from the moment rcS has written them: leases
\* of further interfaces, which arrive at any time, do not touch the file.
PastDns == {"ntp", "volumes", "log", "firewall", "rules", "trap", "halted", "started"}
DirectiveWins ==
    spec.dns /\ spec.mode # "dhcp" /\ resolvRW /\ pc \in PastDns => resolv = "directive"

\* What rcS may spend waiting, block by block, for the Nimbusfile at hand:
\* no machine, link or server makes a boot take longer.
Budget ==
    (IF spec.mode = "dhcp" THEN 3 + 3 ELSE 0) + (IF spec.mode # "none" THEN 5 ELSE 0)
    + (IF spec.wifi THEN AssocTimeout + 3 ELSE 0) + (IF spec.vga THEN 5 ELSE 0)
    + (IF spec.ntp # "none" THEN 3 ELSE 0)
BootBounded == elapsed <= Budget

\* FIREWALL and FIREWALL6 are independent rulesets: where there is a binary
\* for IPv6 rules, the FIREWALL6 block leaves the IPv4 table alone, although
\* both blocks hand their choice on in the same variable.
IndependentRulesets == [][fam = 6 /\ HasTool(6) => table'[4] = table[4]]_vars

\* What the comment on the DNS block says: the DNS directive is "the last
\* thing to touch /etc/resolv.conf regardless of which networking mode ran".
DirectiveLast == spec.dns /\ resolvRW /\ pc \in PastDns => resolv = "directive"

-----------------------------------------------------------------------------
(***************************************************************************)
(* The inductive invariant behind the safety properties.                   *)
(***************************************************************************)

\* Blocks that only some Nimbusfiles have.
BlockInv ==
    /\ pc \in {"carrier", "udhcpc"} => spec.mode = "dhcp"
    /\ pc = "ipv6" => spec.mode # "none"
    /\ pc \in {"assoc", "wlan0"} => spec.wifi
    /\ pc = "vga" => spec.vga

\* Without DHCP no client ever writes resolv.conf; without a network there is
\* no client at all.
ClientInv ==
    /\ spec.mode # "dhcp" => client["eth0"] = "off" /\ client["wlan0"] = "off"
    /\ ~Networked => \A i \in NICs : client[i] = "off"

\* The part of the budget a block may have used when it is reached.
DhcpTime == IF spec.mode = "dhcp" THEN 6 ELSE 0
Eth0Time == DhcpTime + (IF spec.mode # "none" THEN 5 ELSE 0)
WifiTime == Eth0Time + (IF spec.wifi THEN AssocTimeout + 3 ELSE 0)
VgaTime  == WifiTime + (IF spec.vga THEN 5 ELSE 0)

TimeInv ==
    /\ pc \in {"mounts", "eth0"} => elapsed = 0
    /\ pc = "carrier" => n <= 3 /\ elapsed <= n
    /\ pc = "udhcpc" => elapsed <= 3
    /\ pc = "ipv6"   => n <= 5 /\ elapsed <= DhcpTime + n
    /\ pc = "wifi"   => elapsed <= Eth0Time
    /\ pc = "assoc"  => n <= AssocTimeout /\ elapsed <= Eth0Time + n
    /\ pc = "wlan0"  => elapsed <= Eth0Time + AssocTimeout
    /\ pc = "nics"   => elapsed <= WifiTime
    /\ pc = "vga"    => n <= 5 /\ elapsed <= WifiTime + n
    /\ pc \in {"dns", "ntp"} => elapsed <= VgaTime
    /\ elapsed <= Budget

\* Up to the volumes block only the tmpfs mounts are there; in it, the
\* volumes before the current one are settled and the others not touched.
PastVolumes == {"log", "firewall", "rules", "trap", "started"}
Needed(i)   == spec.volumes[i].required /\ OwnMountpoint(i)
InPlace(i)  == mounted[spec.volumes[i].mnt] = spec.volumes[i].dev

DiskInv ==
    /\ pc \notin PastVolumes \cup {"volumes", "halted"} =>
          \A m \in Mountpoints \ Ramdirs : mounted[m] = NoMount
    /\ pc = "volumes" =>
          /\ n <= spec.count
          /\ \A i \in 1..n : Needed(i) => InPlace(i)
          /\ \A i \in (n + 1)..spec.count :
                OwnMountpoint(i) => mounted[spec.volumes[i].mnt] = NoMount
    /\ pc \in PastVolumes => \A i \in 1..spec.count : Needed(i) => InPlace(i)

FirstRules(f, k) == [base |-> "boot", rules |-> {<<f, j>> : j \in 1..k}]

\* Where the firewall blocks are says what the tables hold and which binary
\* runs; a script that runs the other family's binary is stopped by its
\* first ICMPv6 rule.
FirewallInv ==
    /\ machine.broken => \A f \in Families : table[f] = Untouched
    /\ fam = 4 => table[6] = Untouched /\ pc # "started"
    /\ fam = 6 => pc \in {"firewall", "rules", "trap", "started"}
    /\ fam = 4 /\ pc \notin {"rules", "trap"} => table[4] = Untouched /\ cmd = "unset"
    /\ pc \in {"rules", "trap"} => spec.rules[fam] > 0 /\ cmd # "unset"
    /\ fam = 4 /\ pc \in {"rules", "trap"} => HasTool(4) /\ FamilyOf(cmd) = 4
    /\ fam = 4 /\ pc = "rules" => n <= RuleCount(4) /\ table[4] = FirstRules(4, n)
    /\ fam = 6 /\ pc = "firewall" =>
          /\ table[6] = Untouched /\ TableWhole(4)
          /\ cmd # "unset" => spec.rules[4] > 0 /\ HasTool(4) /\ FamilyOf(cmd) = 4
    /\ fam = 6 /\ pc \in {"rules", "trap"} =>
          IF HasTool(6) THEN FamilyOf(cmd) = 6 /\ TableWhole(4)
          ELSE /\ FamilyOf(cmd) = 4 /\ table[6] = Untouched
               /\ spec.rules[4] > 0 /\ HasTool(4)
    /\ fam = 6 /\ pc = "rules" =>
          IF HasTool(6) THEN n <= RuleCount(6) /\ table[6] = FirstRules(6, n) ELSE n <= 2
    /\ pc = "started" => TableWhole(4) /\ TableWhole(6)

IInv ==
    /\ TypeOK
    /\ BlockInv
    /\ ClientInv
    /\ NoNetwork
    /\ DirectiveWins
    /\ TimeInv
    /\ DiskInv
    /\ FirewallInv
=============================================================================
