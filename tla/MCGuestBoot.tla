---------------------------- MODULE MCGuestBoot ----------------------------
(***************************************************************************)
(* Small instances of GuestBoot for TLC.                                   *)
(***************************************************************************)
EXTENDS GuestBoot

CONSTANTS vda, vdb, data, tmpdir

MCDevices     == {vda, vdb}
MCMountpoints == {data, tmpdir}
MCRamdirs     == {tmpdir}

Plain == [mode |-> "static", wifi |-> FALSE, vga |-> FALSE, dns |-> FALSE, ntp |-> "none",
          count |-> 0, volumes |-> <<>>, rules |-> [f \in Families |-> 0],
          onError |-> "open"]
Vol(d, m, r) == [dev |-> d, mnt |-> m, required |-> r]

\* Every kind of network set-up, without volumes and firewall.
NetSpecs ==
    {[Plain EXCEPT !.mode = mode, !.wifi = w, !.vga = v, !.dns = d, !.ntp = t] :
        mode \in {"static", "dhcp", "none"}, w \in BOOLEAN, v \in BOOLEAN, d \in BOOLEAN,
        t \in {"none", "literal", "names"}}

\* One or two volumes, shared mountpoints and tmpfs ones included.
VolumeSpecs ==
    {[Plain EXCEPT !.count = 1, !.volumes = <<Vol(vda, m, r)>>] :
        m \in Mountpoints, r \in BOOLEAN}
    \cup {[Plain EXCEPT !.count = 2, !.volumes = <<Vol(vda, m, r), Vol(vdb, k, q)>>] :
        m \in Mountpoints, k \in Mountpoints, r \in BOOLEAN, q \in BOOLEAN}

\* Firewalls of both families, with up to two rules each.
FirewallSpecs ==
    {[Plain EXCEPT !.rules = r, !.onError = e] : r \in [Families -> 0..2], e \in Fallbacks}

Box == [nics |-> {"eth0"}, disks |-> {vda}, tools |-> {"bundled"}, broken |-> FALSE,
        bad |-> {}]

\* Every choice of cards among three, of disks, and of firewall tools with at
\* most two rules that are refused.
NetMachines    == {[Box EXCEPT !.nics = c] : c \in SUBSET {"eth0", "wlan0", "eth1"}}
VolumeMachines == {[Box EXCEPT !.disks = d] : d \in SUBSET Devices}
FirewallMachines ==
    LET AnyTools == SUBSET {"iptables", "ip6tables", "bundled"}
        Rules    == Families \X (1..5)
    IN  {[Box EXCEPT !.tools = t, !.bad = {x, y}] : t \in AnyTools, x \in Rules, y \in Rules}
        \cup {[Box EXCEPT !.tools = t, !.broken = b] : t \in AnyTools, b \in BOOLEAN}

NetBoots      == NetSpecs \X NetMachines
VolumeBoots   == VolumeSpecs \X VolumeMachines
FirewallBoots == FirewallSpecs \X FirewallMachines
AllBoots      == NetBoots \cup VolumeBoots \cup FirewallBoots
=============================================================================
