-------------------------- MODULE GuestBootProofs --------------------------
(***************************************************************************)
(* What TLAPS proves about GuestBoot, for every Nimbusfile and machine:    *)
(* IInv is inductive, and the properties follow from it.  Each part of     *)
(* IInv has a lemma that one step preserves it.                            *)
(***************************************************************************)
EXTENDS GuestBoot, TLAPS

\* The Nimbusfile and the machine of a boot have the types they should.
LEMMA Given == ASSUME TypeOK PROVE IsSpec(spec) /\ machine \in MachineType
  BY BootsAssumption DEF TypeOK

LEMMA GivenNumbers ==
  ASSUME TypeOK
  PROVE  /\ spec.count \in Nat
         /\ spec.rules[4] \in Nat /\ spec.rules[6] \in Nat
         /\ spec.onError \in Fallbacks
  BY Given DEF IsSpec, Families, Fallbacks

\* The fields of a VOLUME line.
LEMMA VolumeAt ==
  ASSUME TypeOK, NEW i \in 1..spec.count
  PROVE  /\ spec.volumes[i].dev \in Devices
         /\ spec.volumes[i].mnt \in Mountpoints
         /\ spec.volumes[i].required \in BOOLEAN
<1>1. spec.volumes \in [1..spec.count -> VolumeType]
  BY Given DEF IsSpec
<1>2. spec.volumes[i] \in VolumeType
  BY <1>1
<1>. QED
  BY <1>2 DEF VolumeType

\* A DHCP client's attempt keeps the types of what it changes.
LEMMA UdhcpcType ==
  ASSUME TypeOK, NEW i \in Primary, Udhcpc(i)
  PROVE  /\ addr' \subseteq NICs /\ route' \in Primary \cup {"none"}
         /\ client' \in [NICs -> {"off", "trying", "bound"}]
         /\ resolv' \in {"empty", "lease", "directive"}
         /\ elapsed' \in Nat
<1>1. CASE UNCHANGED clientVars
  BY <1>1 DEF TypeOK, Udhcpc, clientVars
<1>2. CASE LeaseScript(i) /\ client' = [client EXCEPT ![i] = "bound"]
  <2>1. /\ addr' \subseteq NICs /\ route' \in Primary \cup {"none"}
        /\ resolv' \in {"empty", "lease", "directive"}
    BY <1>2 DEF TypeOK, LeaseScript, WriteResolv, Primary, NICs
  <2>2. client' \in [NICs -> {"off", "trying", "bound"}]
    BY <1>2 DEF TypeOK, Primary, NICs
  <2>3. elapsed' \in Nat
    BY DEF Udhcpc, TypeOK
  <2>. QED
    BY <2>1, <2>2, <2>3
<1>. QED
  BY <1>1, <1>2 DEF Udhcpc

\* The Nimbusfile and the machine do not change.
LEMMA FixedStep ==
  ASSUME [Next]_vars
  PROVE  spec' = spec /\ machine' = machine
<1>1. CASE Mounts
  BY <1>1 DEF Mounts, Goto, fixedVars, clientVars, fwVars
<1>2. CASE Eth0
  BY <1>2 DEF Eth0, StaticUp, Goto, fixedVars, clientVars, diskVars, fwVars
<1>3. CASE Carrier
  BY <1>3 DEF Carrier, Wait, Goto, fixedVars, clientVars, netVars, diskVars, fwVars
<1>4. CASE Dhcp
  BY <1>4 DEF Dhcp, Udhcpc, LeaseScript, Goto, fixedVars, clientVars, diskVars, fwVars
<1>5. CASE Ipv6
  BY <1>5 DEF Ipv6, Wait, Goto, fixedVars, clientVars, netVars, diskVars, fwVars
<1>6. CASE WifiStart
  BY <1>6 DEF WifiStart, Goto, fixedVars, clientVars, netVars, diskVars, fwVars
<1>7. CASE Assoc
  BY <1>7 DEF Assoc, LogLines, Goto, fixedVars, clientVars, diskVars, fwVars
<1>8. CASE Wlan0
  BY <1>8
  DEF Wlan0, StaticUp, Udhcpc, LeaseScript, Goto, fixedVars, clientVars, diskVars, fwVars
<1>9. CASE Nics
  BY <1>9 DEF Nics, Goto, fixedVars, diskVars, fwVars
<1>10. CASE Vga
  BY <1>10 DEF Vga, Wait, Goto, fixedVars, clientVars, netVars, diskVars, fwVars
<1>11. CASE Dns
  BY <1>11 DEF Dns, Goto, fixedVars, diskVars, fwVars
<1>12. CASE Ntp
  BY <1>12 DEF Ntp, Goto, fixedVars, clientVars, netVars, diskVars, fwVars
<1>13. CASE Volumes
  BY <1>13 DEF Volumes, Goto, fixedVars, clientVars, netVars, fwVars
<1>14. CASE Log
  BY <1>14 DEF Log, Goto, fixedVars, clientVars, netVars, fwVars
<1>15. CASE Firewall
  BY <1>15 DEF Firewall, BlockDone, Goto, fixedVars, clientVars, netVars, diskVars
<1>16. CASE Rule
  BY <1>16 DEF Rule, BlockDone, Goto, fixedVars, clientVars, netVars, diskVars
<1>17. CASE Trap
  BY <1>17 DEF Trap, BlockDone, Goto, fixedVars, clientVars, netVars, diskVars
<1>18. ASSUME NEW i \in NICs, Renew(i)
      PROVE  spec' = spec /\ machine' = machine
  BY <1>18 DEF Renew, LeaseScript, fixedVars, diskVars, fwVars
<1>19. ASSUME NEW i \in NICs, SecondaryLease(i)
      PROVE  spec' = spec /\ machine' = machine
  BY <1>19 DEF SecondaryLease, fixedVars, diskVars, fwVars
<1>20. ASSUME NEW i \in NICs, ClientGivesUp(i)
      PROVE  spec' = spec /\ machine' = machine
  BY <1>20 DEF ClientGivesUp, fixedVars, diskVars, fwVars
<1>21. CASE UNCHANGED vars
  BY <1>21 DEF vars, fixedVars, clientVars, netVars, diskVars, fwVars
<1>22. CASE Over
  BY <1>21, <1>22 DEF Over
<1>. QED
  BY <1>1, <1>2, <1>3, <1>4, <1>5, <1>6, <1>7, <1>8, <1>9, <1>10, <1>11, <1>12, <1>13, <1>14,
     <1>15, <1>16, <1>17, <1>18, <1>19, <1>20, <1>21, <1>22
  DEF Next, RcS, Clients

\* A step keeps the types.
LEMMA TypeStep ==
  ASSUME TypeOK, [Next]_vars
  PROVE  TypeOK'
<1>1. CASE Mounts
  BY <1>1 DEF Mounts, Goto, fixedVars, clientVars, fwVars, TypeOK, Blocks, Primary, NICs
<1>2. CASE Eth0
  <2>1. CASE spec.mode = "static" /\ StaticUp("eth0") /\ Goto("ipv6")
    BY <1>2, <2>1
    DEF Eth0, StaticUp, Goto, fixedVars, clientVars, diskVars, fwVars, TypeOK, Blocks, Primary,
        NICs
  <2>2. CASE UNCHANGED clientVars /\ (Goto("carrier") \/ Goto("wifi"))
    BY <1>2, <2>2
    DEF Eth0, Goto, fixedVars, clientVars, diskVars, fwVars, TypeOK, Blocks, Primary, NICs
  <2>. QED
    BY <1>2, <2>1, <2>2 DEF Eth0
<1>3. CASE Carrier
  BY <1>3
  DEF Carrier, Wait, Goto, fixedVars, clientVars, netVars, diskVars, fwVars, TypeOK, Blocks,
      Primary, NICs
<1>4. CASE Dhcp
  BY <1>4, UdhcpcType
  DEF Dhcp, Goto, fixedVars, clientVars, diskVars, fwVars, TypeOK, Blocks, Primary
<1>5. CASE Ipv6
  BY <1>5
  DEF Ipv6, Wait, Goto, fixedVars, clientVars, netVars, diskVars, fwVars, TypeOK, Blocks,
      Primary, NICs
<1>6. CASE WifiStart
  BY <1>6
  DEF WifiStart, Goto, fixedVars, clientVars, netVars, diskVars, fwVars, TypeOK, Blocks,
      Primary, NICs
<1>7. CASE Assoc
  BY <1>7
  DEF Assoc, LogLines, Goto, fixedVars, clientVars, diskVars, fwVars, TypeOK, Blocks, Primary,
      NICs
<1>8. CASE Wlan0
  <2>1. CASE Udhcpc("wlan0")
    BY <1>8, <2>1, UdhcpcType
    DEF Wlan0, Goto, fixedVars, diskVars, fwVars, TypeOK, Blocks, Primary
  <2>2. CASE StaticUp("wlan0") /\ UNCHANGED elapsed
    BY <1>8, <2>2
    DEF Wlan0, StaticUp, Goto, fixedVars, clientVars, diskVars, fwVars, TypeOK, Blocks, Primary,
        NICs
  <2>3. CASE UNCHANGED <<clientVars, elapsed>>
    BY <1>8, <2>3
    DEF Wlan0, Goto, fixedVars, clientVars, diskVars, fwVars, TypeOK, Blocks, Primary, NICs
  <2>. QED
    BY <1>8, <2>1, <2>2, <2>3 DEF Wlan0
<1>9. CASE Nics
  BY <1>9 DEF Nics, Goto, fixedVars, clientVars, diskVars, fwVars, TypeOK, Blocks, Primary, NICs
<1>10. CASE Vga
  BY <1>10
  DEF Vga, Wait, Goto, fixedVars, clientVars, netVars, diskVars, fwVars, TypeOK, Blocks,
      Primary, NICs
<1>11. CASE Dns
  BY <1>11
  DEF Dns, Goto, fixedVars, clientVars, diskVars, fwVars, TypeOK, Blocks, Primary, NICs,
      WriteResolv
<1>12. CASE Ntp
  BY <1>12
  DEF Ntp, Goto, fixedVars, clientVars, netVars, diskVars, fwVars, TypeOK, Blocks, Primary, NICs
<1>13. CASE Volumes
  <2>1. CASE n < spec.count
    <3>1. n + 1 \in 1..spec.count
      BY <2>1, GivenNumbers DEF TypeOK
    <3>2. Volume.dev \in Devices /\ Volume.mnt \in Mountpoints
      BY <3>1, VolumeAt DEF Volume
    <3>3. mounted' \in [Mountpoints -> Devices \cup {NoMount, Tmpfs}]
      BY <1>13, <2>1, <3>2 DEF TypeOK, Volumes, AfterMount
    <3>4. pc' \in Blocks /\ n' \in Nat
      BY <1>13, <2>1 DEF TypeOK, Volumes, Goto, Blocks
    <3>. QED
      BY <1>13, <3>3, <3>4 DEF Volumes, TypeOK, fixedVars, netVars, clientVars, fwVars
  <2>2. CASE ~(n < spec.count)
    BY <1>13, <2>2 DEF TypeOK, Volumes, fixedVars, netVars, clientVars, fwVars, Goto, Blocks
  <2>. QED
    BY <2>1, <2>2
<1>14. CASE Log
  BY <1>14, GivenNumbers, VolumeAt
  DEF Log, Goto, fixedVars, clientVars, netVars, fwVars, TypeOK, Blocks, Primary, NICs
<1>15. CASE Firewall
  <2>1. cmd' \in Commands
    BY <1>15 DEF TypeOK, Firewall, Commands, OwnTool, Bundled, Families
  <2>2. pc' \in Blocks /\ n' \in Nat /\ fam' \in Families
    BY <1>15 DEF TypeOK, Firewall, BlockDone, Goto, Blocks, Families
  <2>. QED
    BY <1>15, <2>1, <2>2 DEF Firewall, TypeOK, fixedVars, netVars, clientVars, diskVars
<1>16. CASE Rule
  <2>1. table[FamilyOf(cmd)] \in TableType
    BY DEF TypeOK, FamilyOf, Families
  <2>2. Added(table[FamilyOf(cmd)], <<fam, n + 1>>) \in TableType
    BY <2>1 DEF Added, TableType, TypeOK
  <2>3. table' \in [Families -> TableType]
    BY <1>16, <2>2 DEF TypeOK, Rule
  <2>4. pc' \in Blocks /\ n' \in Nat /\ fam' \in Families
    BY <1>16 DEF TypeOK, Rule, BlockDone, Goto, Blocks, Families
  <2>. QED
    BY <1>16, <2>3, <2>4 DEF Rule, TypeOK, fixedVars, netVars, clientVars, diskVars
<1>17. CASE Trap
  <2>1. [base  |-> spec.onError,
         rules |-> IF spec.onError = "closed" THEN ClosedRules ELSE {}] \in TableType
    BY GivenNumbers DEF ClosedRules, TableType, TypeOK
  <2>2. table' \in [Families -> TableType]
    BY <1>17, <2>1 DEF TypeOK, Trap
  <2>3. pc' \in Blocks /\ n' \in Nat /\ fam' \in Families
    BY <1>17 DEF TypeOK, Trap, BlockDone, Goto, Blocks, Families
  <2>. QED
    BY <1>17, <2>2, <2>3 DEF Trap, TypeOK, fixedVars, netVars, clientVars, diskVars
<1>18. ASSUME NEW i \in NICs, Renew(i)
      PROVE  TypeOK'
  BY <1>18
  DEF Renew, LeaseScript, Goto, fixedVars, clientVars, diskVars, fwVars, TypeOK, Blocks,
      Primary, NICs, WriteResolv
<1>19. ASSUME NEW i \in NICs, SecondaryLease(i)
      PROVE  TypeOK'
  BY <1>19
  DEF SecondaryLease, Goto, fixedVars, clientVars, diskVars, fwVars, TypeOK, Blocks, Primary,
      NICs
<1>20. ASSUME NEW i \in NICs, ClientGivesUp(i)
      PROVE  TypeOK'
  BY <1>20
  DEF ClientGivesUp, Goto, fixedVars, clientVars, diskVars, fwVars, TypeOK, Blocks, Primary,
      NICs
<1>21. CASE UNCHANGED vars
  BY <1>21
  DEF vars, Goto, fixedVars, clientVars, netVars, diskVars, fwVars, TypeOK, Blocks, Primary,
      NICs
<1>22. CASE Over
  BY <1>21, <1>22 DEF Over
<1>. QED
  BY <1>1, <1>2, <1>3, <1>4, <1>5, <1>6, <1>7, <1>8, <1>9, <1>10, <1>11, <1>12, <1>13, <1>14,
     <1>15, <1>16, <1>17, <1>18, <1>19, <1>20, <1>21, <1>22
  DEF Next, RcS, Clients

\* A step keeps what is known of the blocks and of the DHCP clients.
LEMMA NetStep ==
  ASSUME TypeOK, BlockInv, ClientInv, NoNetwork, [Next]_vars
  PROVE  BlockInv' /\ ClientInv' /\ NoNetwork'
<1>1. CASE Mounts
  BY <1>1, FixedStep
  DEF Mounts, Goto, clientVars, TypeOK, BlockInv, ClientInv, NoNetwork, Networked, NICs, Primary
<1>2. CASE Eth0
  BY <1>2, FixedStep
  DEF Eth0, StaticUp, Goto, clientVars, TypeOK, BlockInv, ClientInv, NoNetwork, Networked, NICs,
      Primary
<1>3. CASE Carrier
  BY <1>3, FixedStep
  DEF Carrier, Wait, Goto, clientVars, netVars, TypeOK, BlockInv, ClientInv, NoNetwork,
      Networked, NICs, Primary
<1>4. CASE Dhcp
  BY <1>4, FixedStep
  DEF Dhcp, Udhcpc, LeaseScript, Goto, clientVars, TypeOK, BlockInv, ClientInv, NoNetwork,
      Networked, NICs, Primary
<1>5. CASE Ipv6
  BY <1>5, FixedStep
  DEF Ipv6, Wait, Goto, clientVars, netVars, TypeOK, BlockInv, ClientInv, NoNetwork, Networked,
      NICs, Primary
<1>6. CASE WifiStart
  BY <1>6, FixedStep
  DEF WifiStart, Goto, clientVars, netVars, TypeOK, BlockInv, ClientInv, NoNetwork, Networked,
      NICs, Primary
<1>7. CASE Assoc
  BY <1>7, FixedStep
  DEF Assoc, LogLines, Goto, clientVars, TypeOK, BlockInv, ClientInv, NoNetwork, Networked,
      NICs, Primary
<1>8. CASE Wlan0
  BY <1>8, FixedStep
  DEF Wlan0, StaticUp, Udhcpc, LeaseScript, Goto, clientVars, TypeOK, BlockInv, ClientInv,
      NoNetwork, Networked, NICs, Primary
<1>9. CASE Nics
  BY <1>9, FixedStep
  DEF Nics, Goto, TypeOK, BlockInv, ClientInv, NoNetwork, Networked, NICs, Primary
<1>10. CASE Vga
  BY <1>10, FixedStep
  DEF Vga, Wait, Goto, clientVars, netVars, TypeOK, BlockInv, ClientInv, NoNetwork, Networked,
      NICs, Primary
<1>11. CASE Dns
  BY <1>11, FixedStep
  DEF Dns, Goto, TypeOK, BlockInv, ClientInv, NoNetwork, Networked, NICs, Primary
<1>12. CASE Ntp
  BY <1>12, FixedStep
  DEF Ntp, Goto, clientVars, netVars, TypeOK, BlockInv, ClientInv, NoNetwork, Networked, NICs,
      Primary
<1>13. CASE Volumes
  BY <1>13, FixedStep
  DEF Volumes, Goto, clientVars, netVars, TypeOK, BlockInv, ClientInv, NoNetwork, Networked,
      NICs, Primary
<1>14. CASE Log
  BY <1>14, FixedStep
  DEF Log, Goto, clientVars, netVars, TypeOK, BlockInv, ClientInv, NoNetwork, Networked, NICs,
      Primary
<1>15. CASE Firewall
  BY <1>15, FixedStep
  DEF Firewall, BlockDone, Goto, clientVars, netVars, TypeOK, BlockInv, ClientInv, NoNetwork,
      Networked, NICs, Primary
<1>16. CASE Rule
  BY <1>16, FixedStep
  DEF Rule, BlockDone, Goto, clientVars, netVars, TypeOK, BlockInv, ClientInv, NoNetwork,
      Networked, NICs, Primary
<1>17. CASE Trap
  BY <1>17, FixedStep
  DEF Trap, BlockDone, Goto, clientVars, netVars, TypeOK, BlockInv, ClientInv, NoNetwork,
      Networked, NICs, Primary
<1>18. ASSUME NEW i \in NICs, Renew(i)
      PROVE  BlockInv' /\ ClientInv' /\ NoNetwork'
  BY <1>18, FixedStep
  DEF Renew, LeaseScript, TypeOK, BlockInv, ClientInv, NoNetwork, Networked, NICs, Primary
<1>19. ASSUME NEW i \in NICs, SecondaryLease(i)
      PROVE  BlockInv' /\ ClientInv' /\ NoNetwork'
  BY <1>19, FixedStep
  DEF SecondaryLease, TypeOK, BlockInv, ClientInv, NoNetwork, Networked, NICs, Primary
<1>20. ASSUME NEW i \in NICs, ClientGivesUp(i)
      PROVE  BlockInv' /\ ClientInv' /\ NoNetwork'
  BY <1>20, FixedStep
  DEF ClientGivesUp, TypeOK, BlockInv, ClientInv, NoNetwork, Networked, NICs, Primary
<1>21. CASE UNCHANGED vars
  BY <1>21
  DEF vars, Goto, fixedVars, clientVars, netVars, diskVars, fwVars, TypeOK, BlockInv, ClientInv,
      NoNetwork, Networked, NICs, Primary
<1>22. CASE Over
  BY <1>21, <1>22 DEF Over
<1>. QED
  BY <1>1, <1>2, <1>3, <1>4, <1>5, <1>6, <1>7, <1>8, <1>9, <1>10, <1>11, <1>12, <1>13, <1>14,
     <1>15, <1>16, <1>17, <1>18, <1>19, <1>20, <1>21, <1>22
  DEF Next, RcS, Clients

\* A step keeps the DNS directive's servers in place.
LEMMA DirectiveStep ==
  ASSUME TypeOK, BlockInv, ClientInv, DirectiveWins, [Next]_vars
  PROVE  DirectiveWins'
<1>1. CASE Mounts
  BY <1>1, FixedStep
  DEF Mounts, Goto, clientVars, TypeOK, BlockInv, ClientInv, DirectiveWins, PastDns, NICs,
      Primary
<1>2. CASE Eth0
  BY <1>2, FixedStep
  DEF Eth0, StaticUp, Goto, clientVars, TypeOK, BlockInv, ClientInv, DirectiveWins, PastDns,
      NICs, Primary
<1>3. CASE Carrier
  BY <1>3, FixedStep
  DEF Carrier, Wait, Goto, clientVars, netVars, TypeOK, BlockInv, ClientInv, DirectiveWins,
      PastDns, NICs, Primary
<1>4. CASE Dhcp
  BY <1>4, FixedStep
  DEF Dhcp, Udhcpc, LeaseScript, Goto, clientVars, TypeOK, BlockInv, ClientInv, DirectiveWins,
      PastDns, WriteResolv, NICs, Primary
<1>5. CASE Ipv6
  BY <1>5, FixedStep
  DEF Ipv6, Wait, Goto, clientVars, netVars, TypeOK, BlockInv, ClientInv, DirectiveWins,
      PastDns, NICs, Primary
<1>6. CASE WifiStart
  BY <1>6, FixedStep
  DEF WifiStart, Goto, clientVars, netVars, TypeOK, BlockInv, ClientInv, DirectiveWins, PastDns,
      NICs, Primary
<1>7. CASE Assoc
  BY <1>7, FixedStep
  DEF Assoc, LogLines, Goto, clientVars, TypeOK, BlockInv, ClientInv, DirectiveWins, PastDns,
      NICs, Primary
<1>8. CASE Wlan0
  BY <1>8, FixedStep
  DEF Wlan0, StaticUp, Udhcpc, LeaseScript, Goto, clientVars, TypeOK, BlockInv, ClientInv,
      DirectiveWins, PastDns, WriteResolv, NICs, Primary
<1>9. CASE Nics
  BY <1>9, FixedStep
  DEF Nics, Goto, TypeOK, BlockInv, ClientInv, DirectiveWins, PastDns, NICs, Primary
<1>10. CASE Vga
  BY <1>10, FixedStep
  DEF Vga, Wait, Goto, clientVars, netVars, TypeOK, BlockInv, ClientInv, DirectiveWins, PastDns,
      NICs, Primary
<1>11. CASE Dns
  BY <1>11, FixedStep
  DEF Dns, Goto, TypeOK, BlockInv, ClientInv, DirectiveWins, PastDns, WriteResolv, NICs, Primary
<1>12. CASE Ntp
  BY <1>12, FixedStep
  DEF Ntp, Goto, clientVars, netVars, TypeOK, BlockInv, ClientInv, DirectiveWins, PastDns, NICs,
      Primary
<1>13. CASE Volumes
  BY <1>13, FixedStep
  DEF Volumes, Goto, clientVars, netVars, TypeOK, BlockInv, ClientInv, DirectiveWins, PastDns,
      NICs, Primary
<1>14. CASE Log
  BY <1>14, FixedStep
  DEF Log, Goto, clientVars, netVars, TypeOK, BlockInv, ClientInv, DirectiveWins, PastDns, NICs,
      Primary
<1>15. CASE Firewall
  BY <1>15, FixedStep
  DEF Firewall, BlockDone, Goto, clientVars, netVars, TypeOK, BlockInv, ClientInv,
      DirectiveWins, PastDns, NICs, Primary
<1>16. CASE Rule
  BY <1>16, FixedStep
  DEF Rule, BlockDone, Goto, clientVars, netVars, TypeOK, BlockInv, ClientInv, DirectiveWins,
      PastDns, NICs, Primary
<1>17. CASE Trap
  BY <1>17, FixedStep
  DEF Trap, BlockDone, Goto, clientVars, netVars, TypeOK, BlockInv, ClientInv, DirectiveWins,
      PastDns, NICs, Primary
<1>18. ASSUME NEW i \in NICs, Renew(i)
      PROVE  DirectiveWins'
  BY <1>18, FixedStep
  DEF Renew, LeaseScript, TypeOK, BlockInv, ClientInv, DirectiveWins, PastDns, WriteResolv,
      NICs, Primary
<1>19. ASSUME NEW i \in NICs, SecondaryLease(i)
      PROVE  DirectiveWins'
  BY <1>19, FixedStep
  DEF SecondaryLease, TypeOK, BlockInv, ClientInv, DirectiveWins, PastDns, NICs, Primary
<1>20. ASSUME NEW i \in NICs, ClientGivesUp(i)
      PROVE  DirectiveWins'
  BY <1>20, FixedStep
  DEF ClientGivesUp, TypeOK, BlockInv, ClientInv, DirectiveWins, PastDns, NICs, Primary
<1>21. CASE UNCHANGED vars
  BY <1>21
  DEF vars, Goto, fixedVars, clientVars, netVars, diskVars, fwVars, TypeOK, BlockInv, ClientInv,
      DirectiveWins, PastDns, WriteResolv, NICs, Primary
<1>22. CASE Over
  BY <1>21, <1>22 DEF Over
<1>. QED
  BY <1>1, <1>2, <1>3, <1>4, <1>5, <1>6, <1>7, <1>8, <1>9, <1>10, <1>11, <1>12, <1>13, <1>14,
     <1>15, <1>16, <1>17, <1>18, <1>19, <1>20, <1>21, <1>22
  DEF Next, RcS, Clients

\* A step keeps to the time its block has.
LEMMA TimeStep ==
  ASSUME TypeOK, BlockInv, TimeInv, [Next]_vars
  PROVE  TimeInv'
<1>1. CASE Mounts
  BY <1>1, FixedStep, NumbersAssumption
  DEF Mounts, Goto, TypeOK, BlockInv, TimeInv, Budget, DhcpTime, Eth0Time, WifiTime, VgaTime
<1>2. CASE Eth0
  BY <1>2, FixedStep, NumbersAssumption
  DEF Eth0, StaticUp, Goto, TypeOK, BlockInv, TimeInv, Budget, DhcpTime, Eth0Time, WifiTime,
      VgaTime
<1>3. CASE Carrier
  BY <1>3, FixedStep, NumbersAssumption
  DEF Carrier, Wait, Goto, TypeOK, BlockInv, TimeInv, Budget, DhcpTime, Eth0Time, WifiTime,
      VgaTime
<1>4. CASE Dhcp
  BY <1>4, FixedStep, NumbersAssumption
  DEF Dhcp, Udhcpc, LeaseScript, Goto, TypeOK, BlockInv, TimeInv, Budget, DhcpTime, Eth0Time,
      WifiTime, VgaTime
<1>5. CASE Ipv6
  BY <1>5, FixedStep, NumbersAssumption
  DEF Ipv6, Wait, Goto, TypeOK, BlockInv, TimeInv, Budget, DhcpTime, Eth0Time, WifiTime, VgaTime
<1>6. CASE WifiStart
  BY <1>6, FixedStep, NumbersAssumption
  DEF WifiStart, Goto, TypeOK, BlockInv, TimeInv, Budget, DhcpTime, Eth0Time, WifiTime, VgaTime
<1>7. CASE Assoc
  BY <1>7, FixedStep, NumbersAssumption
  DEF Assoc, LogLines, Goto, TypeOK, BlockInv, TimeInv, Budget, DhcpTime, Eth0Time, WifiTime,
      VgaTime
<1>8. CASE Wlan0
  BY <1>8, FixedStep, NumbersAssumption
  DEF Wlan0, StaticUp, Udhcpc, LeaseScript, Goto, TypeOK, BlockInv, TimeInv, Budget, DhcpTime,
      Eth0Time, WifiTime, VgaTime
<1>9. CASE Nics
  BY <1>9, FixedStep, NumbersAssumption
  DEF Nics, Goto, TypeOK, BlockInv, TimeInv, Budget, DhcpTime, Eth0Time, WifiTime, VgaTime
<1>10. CASE Vga
  BY <1>10, FixedStep, NumbersAssumption
  DEF Vga, Wait, Goto, TypeOK, BlockInv, TimeInv, Budget, DhcpTime, Eth0Time, WifiTime, VgaTime
<1>11. CASE Dns
  BY <1>11, FixedStep, NumbersAssumption
  DEF Dns, Goto, TypeOK, BlockInv, TimeInv, Budget, DhcpTime, Eth0Time, WifiTime, VgaTime
<1>12. CASE Ntp
  BY <1>12, FixedStep, NumbersAssumption
  DEF Ntp, Goto, TypeOK, BlockInv, TimeInv, Budget, DhcpTime, Eth0Time, WifiTime, VgaTime
<1>13. CASE Volumes
  BY <1>13, FixedStep, NumbersAssumption
  DEF Volumes, Goto, TypeOK, BlockInv, TimeInv, Budget, DhcpTime, Eth0Time, WifiTime, VgaTime
<1>14. CASE Log
  BY <1>14, FixedStep, NumbersAssumption
  DEF Log, Goto, TypeOK, BlockInv, TimeInv, Budget, DhcpTime, Eth0Time, WifiTime, VgaTime
<1>15. CASE Firewall
  BY <1>15, FixedStep, NumbersAssumption
  DEF Firewall, BlockDone, Goto, TypeOK, BlockInv, TimeInv, Budget, DhcpTime, Eth0Time,
      WifiTime, VgaTime
<1>16. CASE Rule
  BY <1>16, FixedStep, NumbersAssumption
  DEF Rule, BlockDone, Goto, TypeOK, BlockInv, TimeInv, Budget, DhcpTime, Eth0Time, WifiTime,
      VgaTime
<1>17. CASE Trap
  BY <1>17, FixedStep, NumbersAssumption
  DEF Trap, BlockDone, Goto, TypeOK, BlockInv, TimeInv, Budget, DhcpTime, Eth0Time, WifiTime,
      VgaTime
<1>18. ASSUME NEW i \in NICs, Renew(i)
      PROVE  TimeInv'
  BY <1>18, FixedStep, NumbersAssumption
  DEF Renew, LeaseScript, TypeOK, BlockInv, TimeInv, Budget, DhcpTime, Eth0Time, WifiTime,
      VgaTime
<1>19. ASSUME NEW i \in NICs, SecondaryLease(i)
      PROVE  TimeInv'
  BY <1>19, FixedStep, NumbersAssumption
  DEF SecondaryLease, TypeOK, BlockInv, TimeInv, Budget, DhcpTime, Eth0Time, WifiTime, VgaTime
<1>20. ASSUME NEW i \in NICs, ClientGivesUp(i)
      PROVE  TimeInv'
  BY <1>20, FixedStep, NumbersAssumption
  DEF ClientGivesUp, TypeOK, BlockInv, TimeInv, Budget, DhcpTime, Eth0Time, WifiTime, VgaTime
<1>21. CASE UNCHANGED vars
  BY <1>21
  DEF vars, Goto, fixedVars, clientVars, netVars, diskVars, fwVars, TypeOK, BlockInv, TimeInv,
      Budget, DhcpTime, Eth0Time, WifiTime, VgaTime
<1>22. CASE Over
  BY <1>21, <1>22 DEF Over
<1>. QED
  BY <1>1, <1>2, <1>3, <1>4, <1>5, <1>6, <1>7, <1>8, <1>9, <1>10, <1>11, <1>12, <1>13, <1>14,
     <1>15, <1>16, <1>17, <1>18, <1>19, <1>20, <1>21, <1>22
  DEF Next, RcS, Clients

\* A step keeps what is known of the mounts.
LEMMA DiskStep ==
  ASSUME TypeOK, DiskInv, [Next]_vars
  PROVE  DiskInv'
<1>1. CASE Mounts
  BY <1>1, FixedStep, GivenNumbers
  DEF Mounts, Goto, TypeOK, DiskInv, PastVolumes, Needed, InPlace, OwnMountpoint
<1>2. CASE Eth0
  BY <1>2, FixedStep, GivenNumbers
  DEF Eth0, StaticUp, Goto, diskVars, TypeOK, DiskInv, PastVolumes, Needed, InPlace,
      OwnMountpoint
<1>3. CASE Carrier
  BY <1>3, FixedStep, GivenNumbers
  DEF Carrier, Wait, Goto, diskVars, TypeOK, DiskInv, PastVolumes, Needed, InPlace,
      OwnMountpoint
<1>4. CASE Dhcp
  BY <1>4, FixedStep, GivenNumbers
  DEF Dhcp, Udhcpc, LeaseScript, Goto, diskVars, TypeOK, DiskInv, PastVolumes, Needed, InPlace,
      OwnMountpoint
<1>5. CASE Ipv6
  BY <1>5, FixedStep, GivenNumbers
  DEF Ipv6, Wait, Goto, diskVars, TypeOK, DiskInv, PastVolumes, Needed, InPlace, OwnMountpoint
<1>6. CASE WifiStart
  BY <1>6, FixedStep, GivenNumbers
  DEF WifiStart, Goto, diskVars, TypeOK, DiskInv, PastVolumes, Needed, InPlace, OwnMountpoint
<1>7. CASE Assoc
  BY <1>7, FixedStep, GivenNumbers
  DEF Assoc, LogLines, Goto, diskVars, TypeOK, DiskInv, PastVolumes, Needed, InPlace,
      OwnMountpoint
<1>8. CASE Wlan0
  BY <1>8, FixedStep, GivenNumbers
  DEF Wlan0, StaticUp, Udhcpc, LeaseScript, Goto, diskVars, TypeOK, DiskInv, PastVolumes,
      Needed, InPlace, OwnMountpoint
<1>9. CASE Nics
  BY <1>9, FixedStep, GivenNumbers
  DEF Nics, Goto, diskVars, TypeOK, DiskInv, PastVolumes, Needed, InPlace, OwnMountpoint
<1>10. CASE Vga
  BY <1>10, FixedStep, GivenNumbers
  DEF Vga, Wait, Goto, diskVars, TypeOK, DiskInv, PastVolumes, Needed, InPlace, OwnMountpoint
<1>11. CASE Dns
  BY <1>11, FixedStep, GivenNumbers
  DEF Dns, Goto, diskVars, TypeOK, DiskInv, PastVolumes, Needed, InPlace, OwnMountpoint
<1>12. CASE Ntp
  <2>1. \A i \in 1..spec.count : spec.volumes[i].mnt \in Mountpoints
    BY VolumeAt
  <2>2. \A i \in 1..spec.count :
           OwnMountpoint(i) => mounted[spec.volumes[i].mnt] = NoMount
    BY <1>12, <2>1 DEF Ntp, DiskInv, PastVolumes, OwnMountpoint
  <2>. QED
    BY <1>12, <2>2, FixedStep, GivenNumbers
    DEF Ntp, Goto, diskVars, DiskInv, PastVolumes, OwnMountpoint
<1>13. CASE Volumes
  <2>1. CASE n < spec.count
    <3>. DEFINE v == n + 1
    <3>1. v \in 1..spec.count /\ n \in Nat /\ spec.count \in Nat
      BY <2>1, GivenNumbers DEF TypeOK
    <3>2. Volume = spec.volumes[v]
      BY DEF Volume
    <3>3. \A i \in 1..spec.count : spec.volumes[i].mnt \in Mountpoints
      BY VolumeAt
    <3>4. \A i \in 1..spec.count :
             i # v /\ OwnMountpoint(i) => mounted'[spec.volumes[i].mnt]
                                           = mounted[spec.volumes[i].mnt]
      BY <1>13, <2>1, <3>1, <3>2, <3>3 DEF Volumes, AfterMount, TypeOK, OwnMountpoint
    <3>5. \A i \in (v + 1)..spec.count :
             OwnMountpoint(i) => mounted'[spec.volumes[i].mnt] = NoMount
      <4>. SUFFICES ASSUME NEW i \in (v + 1)..spec.count, OwnMountpoint(i)
                    PROVE  mounted'[spec.volumes[i].mnt] = NoMount
        OBVIOUS
      <4>1. i \in 1..spec.count /\ i # v /\ i \in (n + 1)..spec.count
        BY <3>1
      <4>. QED
        BY <1>13, <3>4, <4>1 DEF Volumes, DiskInv
    <3>6. Needed(v) /\ pc' # "halted" => mounted'[spec.volumes[v].mnt] = spec.volumes[v].dev
      <4>. SUFFICES ASSUME Needed(v), pc' # "halted"
                    PROVE  mounted'[spec.volumes[v].mnt] = spec.volumes[v].dev
        OBVIOUS
      <4>1. mounted[Volume.mnt] = NoMount
        BY <1>13, <3>1, <3>2 DEF Volumes, DiskInv, Needed
      <4>2. mounted'[Volume.mnt] # NoMount
        BY <1>13, <2>1, <3>1, <3>2 DEF Volumes, Needed, Goto
      <4>. QED
        BY <1>13, <2>1, <3>1, <3>2, <3>3, <4>1, <4>2 DEF Volumes, AfterMount, TypeOK
    <3>7. \A i \in 1..n : Needed(i) => mounted'[spec.volumes[i].mnt] = spec.volumes[i].dev
      <4>. SUFFICES ASSUME NEW i \in 1..n, Needed(i)
                    PROVE  mounted'[spec.volumes[i].mnt] = spec.volumes[i].dev
        OBVIOUS
      <4>1. i \in 1..spec.count /\ i # v
        BY <3>1
      <4>. QED
        BY <1>13, <3>4, <4>1 DEF Volumes, DiskInv, Needed, InPlace
    <3>8. CASE pc' = "halted"
      BY <3>8 DEF DiskInv, PastVolumes
    <3>9. CASE pc' = "volumes" /\ n' = n + 1
      <4>1. \A i \in 1..n' : Needed(i) => mounted'[spec.volumes[i].mnt] = spec.volumes[i].dev
        <5>. SUFFICES ASSUME NEW i \in 1..n', Needed(i)
                      PROVE  mounted'[spec.volumes[i].mnt] = spec.volumes[i].dev
          OBVIOUS
        <5>1. CASE i = v
          BY <3>6, <3>9, <5>1
        <5>2. CASE i # v
          <6>1. i \in 1..n
            BY <3>1, <3>9, <5>2
          <6>. QED
            BY <3>7, <6>1
        <5>. QED
          BY <5>1, <5>2
      <4>. QED
        BY <3>1, <3>5, <3>9, <4>1, FixedStep
        DEF DiskInv, PastVolumes, Needed, InPlace, OwnMountpoint
    <3>. QED
      BY <1>13, <2>1, <3>1, <3>8, <3>9 DEF Volumes, Goto
  <2>2. CASE ~(n < spec.count)
    BY <1>13, <2>2, FixedStep, GivenNumbers
    DEF Volumes, Goto, TypeOK, DiskInv, PastVolumes, Needed, InPlace, OwnMountpoint
  <2>. QED
    BY <2>1, <2>2
<1>14. CASE Log
  BY <1>14, FixedStep, GivenNumbers
  DEF Log, Goto, TypeOK, DiskInv, PastVolumes, Needed, InPlace, OwnMountpoint
<1>15. CASE Firewall
  BY <1>15, FixedStep, GivenNumbers
  DEF Firewall, BlockDone, Goto, diskVars, TypeOK, DiskInv, PastVolumes, Needed, InPlace,
      OwnMountpoint
<1>16. CASE Rule
  BY <1>16, FixedStep, GivenNumbers
  DEF Rule, BlockDone, Goto, diskVars, TypeOK, DiskInv, PastVolumes, Needed, InPlace,
      OwnMountpoint
<1>17. CASE Trap
  BY <1>17, FixedStep, GivenNumbers
  DEF Trap, BlockDone, Goto, diskVars, TypeOK, DiskInv, PastVolumes, Needed, InPlace,
      OwnMountpoint
<1>18. ASSUME NEW i \in NICs, Renew(i)
      PROVE  DiskInv'
  BY <1>18, FixedStep, GivenNumbers
  DEF Renew, LeaseScript, diskVars, TypeOK, DiskInv, PastVolumes, Needed, InPlace, OwnMountpoint
<1>19. ASSUME NEW i \in NICs, SecondaryLease(i)
      PROVE  DiskInv'
  BY <1>19, FixedStep, GivenNumbers
  DEF SecondaryLease, diskVars, TypeOK, DiskInv, PastVolumes, Needed, InPlace, OwnMountpoint
<1>20. ASSUME NEW i \in NICs, ClientGivesUp(i)
      PROVE  DiskInv'
  BY <1>20, FixedStep, GivenNumbers
  DEF ClientGivesUp, diskVars, TypeOK, DiskInv, PastVolumes, Needed, InPlace, OwnMountpoint
<1>21. CASE UNCHANGED vars
  BY <1>21
  DEF vars, Goto, fixedVars, clientVars, netVars, diskVars, fwVars, TypeOK, DiskInv,
      PastVolumes, Needed, InPlace, OwnMountpoint
<1>22. CASE Over
  BY <1>21, <1>22 DEF Over
<1>. QED
  BY <1>1, <1>2, <1>3, <1>4, <1>5, <1>6, <1>7, <1>8, <1>9, <1>10, <1>11, <1>12, <1>13, <1>14,
     <1>15, <1>16, <1>17, <1>18, <1>19, <1>20, <1>21, <1>22
  DEF Next, RcS, Clients

\* The first rules of a script, one by one.
LEMMA NoRules == ASSUME NEW f PROVE FirstRules(f, 0) = Untouched
  BY DEF FirstRules, Untouched

LEMMA OneMore ==
  ASSUME NEW f, NEW k \in Nat
  PROVE  Added(FirstRules(f, k), <<f, k + 1>>) = FirstRules(f, k + 1)
<1>1. {<<f, j>> : j \in 1..k} \cup {<<f, k + 1>>} = {<<f, j>> : j \in 1..(k + 1)}
  <2>1. 1..(k + 1) = (1..k) \cup {k + 1}
    OBVIOUS
  <2>. QED
    BY <2>1
<1>. QED
  BY <1>1 DEF Added, FirstRules

LEMMA RuleCountType ==
  ASSUME TypeOK
  PROVE  RuleCount(4) \in Nat /\ RuleCount(6) \in Nat /\ RuleCount(6) > 2
  BY GivenNumbers, NumbersAssumption DEF RuleCount

\* What a firewall step leaves as it is.
LEMMA FirewallFrame ==
  ASSUME [Next]_vars, NEW f \in Families
  PROVE  /\ HasTool(f)' <=> HasTool(f)
         /\ RuleCount(f)' = RuleCount(f)
         /\ table'[f] = table[f] => (TableWhole(f)' <=> TableWhole(f))
  BY FixedStep DEF HasTool, RuleCount, TableWhole, AllRules

\* A step keeps what is known of the firewall.
LEMMA FirewallStep ==
  ASSUME TypeOK, FirewallInv, [Next]_vars
  PROVE  FirewallInv'
<1>1. CASE Mounts
  BY <1>1, FixedStep
  DEF Mounts, Goto, fwVars, TypeOK, FirewallInv, TableWhole, HasTool, AllRules, FirstRules,
      RuleCount, Untouched, OwnTool, Families, FamilyOf
<1>2. CASE Eth0
  BY <1>2, FixedStep
  DEF Eth0, StaticUp, Goto, fwVars, TypeOK, FirewallInv, TableWhole, HasTool, AllRules,
      FirstRules, RuleCount, Untouched, OwnTool, Families, FamilyOf
<1>3. CASE Carrier
  BY <1>3, FixedStep
  DEF Carrier, Wait, Goto, fwVars, TypeOK, FirewallInv, TableWhole, HasTool, AllRules,
      FirstRules, RuleCount, Untouched, OwnTool, Families, FamilyOf
<1>4. CASE Dhcp
  BY <1>4, FixedStep
  DEF Dhcp, Udhcpc, LeaseScript, Goto, fwVars, TypeOK, FirewallInv, TableWhole, HasTool,
      AllRules, FirstRules, RuleCount, Untouched, OwnTool, Families, FamilyOf
<1>5. CASE Ipv6
  BY <1>5, FixedStep
  DEF Ipv6, Wait, Goto, fwVars, TypeOK, FirewallInv, TableWhole, HasTool, AllRules, FirstRules,
      RuleCount, Untouched, OwnTool, Families, FamilyOf
<1>6. CASE WifiStart
  BY <1>6, FixedStep
  DEF WifiStart, Goto, fwVars, TypeOK, FirewallInv, TableWhole, HasTool, AllRules, FirstRules,
      RuleCount, Untouched, OwnTool, Families, FamilyOf
<1>7. CASE Assoc
  BY <1>7, FixedStep
  DEF Assoc, LogLines, Goto, fwVars, TypeOK, FirewallInv, TableWhole, HasTool, AllRules,
      FirstRules, RuleCount, Untouched, OwnTool, Families, FamilyOf
<1>8. CASE Wlan0
  BY <1>8, FixedStep
  DEF Wlan0, StaticUp, Udhcpc, LeaseScript, Goto, fwVars, TypeOK, FirewallInv, TableWhole,
      HasTool, AllRules, FirstRules, RuleCount, Untouched, OwnTool, Families, FamilyOf
<1>9. CASE Nics
  BY <1>9, FixedStep
  DEF Nics, Goto, fwVars, TypeOK, FirewallInv, TableWhole, HasTool, AllRules, FirstRules,
      RuleCount, Untouched, OwnTool, Families, FamilyOf
<1>10. CASE Vga
  BY <1>10, FixedStep
  DEF Vga, Wait, Goto, fwVars, TypeOK, FirewallInv, TableWhole, HasTool, AllRules, FirstRules,
      RuleCount, Untouched, OwnTool, Families, FamilyOf
<1>11. CASE Dns
  BY <1>11, FixedStep
  DEF Dns, Goto, fwVars, TypeOK, FirewallInv, TableWhole, HasTool, AllRules, FirstRules,
      RuleCount, Untouched, OwnTool, Families, FamilyOf
<1>12. CASE Ntp
  BY <1>12, FixedStep
  DEF Ntp, Goto, fwVars, TypeOK, FirewallInv, TableWhole, HasTool, AllRules, FirstRules,
      RuleCount, Untouched, OwnTool, Families, FamilyOf
<1>13. CASE Volumes
  BY <1>13, FixedStep
  DEF Volumes, Goto, fwVars, TypeOK, FirewallInv, TableWhole, HasTool, AllRules, FirstRules,
      RuleCount, Untouched, OwnTool, Families, FamilyOf
<1>14. CASE Log
  BY <1>14, FixedStep
  DEF Log, Goto, fwVars, TypeOK, FirewallInv, TableWhole, HasTool, AllRules, FirstRules,
      RuleCount, Untouched, OwnTool, Families, FamilyOf
<1>15. CASE Firewall
  <2>1. /\ pc = "firewall" /\ table' = table /\ n' = 0
        /\ spec' = spec /\ machine' = machine
    BY <1>15 DEF Firewall, Goto, BlockDone, fixedVars
  <2>2. /\ (HasTool(4)' <=> HasTool(4)) /\ (HasTool(6)' <=> HasTool(6))
        /\ (TableWhole(4)' <=> TableWhole(4)) /\ (TableWhole(6)' <=> TableWhole(6))
        /\ RuleCount(4)' = RuleCount(4) /\ RuleCount(6)' = RuleCount(6)
    BY <2>1, FirewallFrame DEF Families
  <2>3. CASE pc' = "rules" /\ fam' = fam /\ cmd' # "unset" /\ spec.rules[fam] > 0
    <3>1. CASE fam = 4
      <4>1. cmd = "unset" /\ table[4] = Untouched /\ table[6] = Untouched
        BY <2>1, <3>1 DEF FirewallInv
      <4>2. HasTool(4) /\ FamilyOf(cmd') = 4
        BY <1>15, <2>3, <3>1, <4>1 DEF Firewall, HasTool, FamilyOf, OwnTool, Bundled
      <4>. QED
        BY <2>1, <2>2, <2>3, <3>1, <4>1, <4>2, NoRules, RuleCountType DEF FirewallInv, Families
    <3>2. CASE fam = 6
      <4>1. table[6] = Untouched /\ TableWhole(4)
        BY <2>1, <3>2 DEF FirewallInv
      <4>2. IF HasTool(6) THEN FamilyOf(cmd') = 6
            ELSE FamilyOf(cmd') = 4 /\ spec.rules[4] > 0 /\ HasTool(4)
        <5>1. CASE HasTool(6)
          <6>1. cmd' = IF OwnTool(6) \in machine.tools THEN OwnTool(6) ELSE Bundled(6)
            BY <1>15, <2>3, <3>2, <5>1 DEF Firewall, HasTool
          <6>. QED
            BY <5>1, <6>1 DEF FamilyOf, OwnTool, Bundled
        <5>2. CASE ~HasTool(6)
          <6>1. cmd' = cmd
            BY <1>15, <3>2, <5>2 DEF Firewall, HasTool, OwnTool
          <6>. QED
            BY <2>1, <2>3, <3>2, <5>2, <6>1 DEF FirewallInv
        <5>. QED
          BY <5>1, <5>2
      <4>. QED
        BY <2>1, <2>2, <2>3, <3>2, <4>1, <4>2, NoRules, RuleCountType DEF FirewallInv, Families
    <3>. QED
      BY <3>1, <3>2 DEF TypeOK, Families
  <2>4. CASE BlockDone /\ (spec.rules[fam] = 0 \/ cmd' = "unset")
    <3>1. spec.rules[fam] = 0 \/ ~HasTool(fam)
      BY <1>15, <2>4 DEF Firewall, HasTool, OwnTool, Bundled, TypeOK, Families
    <3>2. CASE fam = 4
      <4>1. cmd = "unset" /\ table[4] = Untouched /\ table[6] = Untouched
        BY <2>1, <3>2 DEF FirewallInv
      <4>2. cmd' = "unset" /\ fam' = 6 /\ pc' = "firewall"
        BY <1>15, <2>4, <3>2, <4>1 DEF Firewall, BlockDone, Goto
      <4>3. TableWhole(4)
        BY <3>1, <3>2, <4>1 DEF TableWhole
      <4>. QED
        BY <2>1, <2>2, <4>1, <4>2, <4>3 DEF FirewallInv, Families
    <3>3. CASE fam = 6
      <4>1. table[6] = Untouched /\ TableWhole(4)
        BY <2>1, <3>3 DEF FirewallInv
      <4>2. fam' = 6 /\ pc' = "started"
        BY <2>4, <3>3 DEF BlockDone, Goto
      <4>3. TableWhole(6)
        BY <3>1, <3>3, <4>1 DEF TableWhole
      <4>. QED
        BY <2>1, <2>2, <4>1, <4>2, <4>3 DEF FirewallInv, Families
    <3>. QED
      BY <3>2, <3>3 DEF TypeOK, Families
  <2>. QED
    BY <1>15, <2>3, <2>4 DEF Firewall, Goto
<1>16. CASE Rule
  <2>1. /\ pc = "rules" /\ cmd' = cmd /\ spec' = spec /\ machine' = machine
        /\ spec.rules[fam] > 0 /\ cmd # "unset" /\ n \in Nat
    BY <1>16 DEF Rule, fixedVars, FirewallInv, TypeOK
  <2>2. /\ (HasTool(4)' <=> HasTool(4)) /\ (HasTool(6)' <=> HasTool(6))
        /\ RuleCount(4)' = RuleCount(4) /\ RuleCount(6)' = RuleCount(6)
        /\ table'[4] = table[4] => (TableWhole(4)' <=> TableWhole(4))
        /\ table'[6] = table[6] => (TableWhole(6)' <=> TableWhole(6))
    BY FirewallFrame DEF Families
  <2>3. CASE n < RuleCount(fam) /\ ~Refused(fam, n + 1)
    <3>1. /\ table' = [table EXCEPT ![FamilyOf(cmd)] = Added(@, <<fam, n + 1>>)]
          /\ n' = n + 1 /\ pc' = "rules" /\ fam' = fam /\ ~machine.broken
      BY <1>16, <2>1, <2>3, RuleCountType DEF Rule, Refused, TypeOK, Families
    <3>2. CASE fam = 4
      <4>1. FamilyOf(cmd) = 4 /\ HasTool(4) /\ table[4] = FirstRules(4, n) /\ table[6] = Untouched
        BY <2>1, <3>2 DEF FirewallInv
      <4>2. table'[4] = FirstRules(4, n + 1) /\ table'[6] = Untouched
        BY <2>1, <3>1, <3>2, <4>1, OneMore DEF TypeOK, Families
      <4>. QED
        BY <2>1, <2>2, <2>3, <3>1, <3>2, <4>1, <4>2, RuleCountType DEF FirewallInv
    <3>3. CASE fam = 6 /\ HasTool(6)
      <4>1. FamilyOf(cmd) = 6 /\ table[6] = FirstRules(6, n) /\ TableWhole(4)
        BY <2>1, <3>3 DEF FirewallInv
      <4>2. table'[6] = FirstRules(6, n + 1) /\ table'[4] = table[4]
        BY <2>1, <3>1, <3>3, <4>1, OneMore DEF TypeOK, Families
      <4>. QED
        BY <2>1, <2>2, <2>3, <3>1, <3>3, <4>1, <4>2, RuleCountType DEF FirewallInv, Families
    <3>4. CASE fam = 6 /\ ~HasTool(6)
      <4>1. /\ FamilyOf(cmd) = 4 /\ table[6] = Untouched /\ n <= 2
            /\ spec.rules[4] > 0 /\ HasTool(4)
        BY <2>1, <3>4 DEF FirewallInv
      <4>2. n + 1 <= 2
        BY <2>1, <2>3, <3>4, <4>1, NumbersAssumption DEF Refused, IsNDP
      <4>3. table'[6] = Untouched
        BY <3>1, <4>1 DEF TypeOK, Families
      <4>. QED
        BY <2>1, <2>2, <3>1, <3>4, <4>1, <4>2, <4>3 DEF FirewallInv
    <3>. QED
      BY <3>2, <3>3, <3>4 DEF TypeOK, Families
  <2>4. CASE n < RuleCount(fam) /\ Refused(fam, n + 1)
    <3>1. table' = table /\ pc' = "trap" /\ fam' = fam
      BY <1>16, <2>1, <2>4, RuleCountType DEF Rule, Goto, TypeOK, Families
    <3>. QED
      BY <2>1, <2>2, <3>1 DEF FirewallInv, Families
  <2>5. CASE n = RuleCount(fam)
    <3>1. table' = table /\ BlockDone
      BY <1>16, <2>1, <2>5, RuleCountType DEF Rule, TypeOK, Families
    <3>2. CASE fam = 4
      <4>1. FamilyOf(cmd) = 4 /\ HasTool(4) /\ table[4] = AllRules(4) /\ table[6] = Untouched
        BY <2>1, <2>5, <3>2 DEF FirewallInv, AllRules, FirstRules
      <4>2. TableWhole(4)
        BY <2>1, <3>2, <4>1 DEF TableWhole, FirewallInv, Families
      <4>3. fam' = 6 /\ pc' = "firewall"
        BY <3>1, <3>2 DEF BlockDone, Goto
      <4>. QED
        BY <2>1, <2>2, <3>1, <3>2, <4>1, <4>2, <4>3 DEF FirewallInv, Families
    <3>3. CASE fam = 6
      <4>1. HasTool(6) /\ table[6] = AllRules(6) /\ TableWhole(4)
        BY <2>1, <2>5, <3>3, RuleCountType DEF FirewallInv, AllRules, FirstRules
      <4>2. TableWhole(6)
        BY <2>1, <3>3, <4>1 DEF TableWhole, FirewallInv, Families
      <4>3. fam' = 6 /\ pc' = "started"
        BY <3>1, <3>3 DEF BlockDone, Goto
      <4>. QED
        BY <2>1, <2>2, <3>1, <3>3, <4>1, <4>2, <4>3 DEF FirewallInv, Families
    <3>. QED
      BY <3>2, <3>3 DEF TypeOK, Families
  <2>. QED
    BY <1>16, <2>3, <2>4, <2>5 DEF Rule
<1>17. CASE Trap
  <2>1. /\ pc = "trap" /\ cmd' = cmd /\ spec' = spec /\ machine' = machine /\ BlockDone
        /\ spec.rules[fam] > 0
    BY <1>17 DEF Trap, fixedVars, FirewallInv
  <2>2. /\ (HasTool(4)' <=> HasTool(4)) /\ (HasTool(6)' <=> HasTool(6))
        /\ table'[4] = table[4] => (TableWhole(4)' <=> TableWhole(4))
        /\ table'[6] = table[6] => (TableWhole(6)' <=> TableWhole(6))
    BY FirewallFrame DEF Families
  <2>3. FamilyOf(cmd) \in Families
    BY DEF FamilyOf, Families
  <2>4. \A f \in Families : f # FamilyOf(cmd) => table'[f] = table[f]
    BY <1>17 DEF Trap, TypeOK
  <2>5. machine.broken => \A f \in Families : table'[f] = Untouched
    BY <1>17 DEF Trap, FirewallInv
  <2>6. spec.rules[FamilyOf(cmd)] > 0 /\ HasTool(FamilyOf(cmd)) => TableWhole(FamilyOf(cmd))'
    <3>1. CASE machine.broken
      BY <2>1, <2>3, <2>5, <3>1 DEF TableWhole
    <3>2. CASE ~machine.broken
      <4>1. /\ table'[FamilyOf(cmd)].base = spec.onError
            /\ spec.onError = "open" => table'[FamilyOf(cmd)].rules = {}
        BY <1>17, <2>3, <3>2 DEF Trap, TypeOK
      <4>2. TableWhole(FamilyOf(cmd))' <=>
               IF \/ spec.rules[FamilyOf(cmd)] = 0 \/ ~HasTool(FamilyOf(cmd))' \/ machine.broken
                 THEN table'[FamilyOf(cmd)] = Untouched
                 ELSE \/ table'[FamilyOf(cmd)] = AllRules(FamilyOf(cmd))'
                      \/ /\ table'[FamilyOf(cmd)].base = spec.onError
                         /\ spec.onError = "open" => table'[FamilyOf(cmd)].rules = {}
        BY <2>1 DEF TableWhole
      <4>. QED
        BY <2>1, <2>2, <2>3, <3>2, <4>1, <4>2 DEF Families
    <3>. QED
      BY <3>1, <3>2
  <2>7. CASE fam = 4
    <3>1. FamilyOf(cmd) = 4 /\ HasTool(4) /\ table'[6] = Untouched
      BY <2>1, <2>4, <2>7 DEF FirewallInv, Families
    <3>2. fam' = 6 /\ pc' = "firewall"
      BY <2>1, <2>7 DEF BlockDone, Goto
    <3>. QED
      BY <2>1, <2>2, <2>5, <2>6, <2>7, <3>1, <3>2 DEF FirewallInv, Families
  <2>8. CASE fam = 6
    <3>1. fam' = 6 /\ pc' = "started"
      BY <2>1, <2>8 DEF BlockDone, Goto
    <3>2. CASE HasTool(6)
      <4>1. FamilyOf(cmd) = 6 /\ TableWhole(4) /\ table'[4] = table[4]
        BY <2>1, <2>4, <2>8, <3>2 DEF FirewallInv, Families
      <4>. QED
        BY <2>1, <2>2, <2>5, <2>6, <2>8, <3>1, <3>2, <4>1 DEF FirewallInv, Families
    <3>3. CASE ~HasTool(6)
      <4>1. /\ FamilyOf(cmd) = 4 /\ table'[6] = Untouched
            /\ spec.rules[4] > 0 /\ HasTool(4)
        BY <2>1, <2>4, <2>8, <3>3 DEF FirewallInv, Families
      <4>2. TableWhole(6)'
        BY <2>2, <3>3, <4>1 DEF TableWhole
      <4>. QED
        BY <2>1, <2>5, <2>6, <3>1, <4>1, <4>2 DEF FirewallInv, Families
    <3>. QED
      BY <3>2, <3>3
  <2>. QED
    BY <2>7, <2>8 DEF TypeOK, Families
<1>18. ASSUME NEW i \in NICs, Renew(i)
      PROVE  FirewallInv'
  BY <1>18, FixedStep, GivenNumbers
  DEF Renew, LeaseScript, fwVars, TypeOK, FirewallInv, TableWhole, HasTool, AllRules,
      FirstRules, RuleCount, Untouched, OwnTool, Families, FamilyOf
<1>19. ASSUME NEW i \in NICs, SecondaryLease(i)
      PROVE  FirewallInv'
  BY <1>19, FixedStep, GivenNumbers
  DEF SecondaryLease, fwVars, TypeOK, FirewallInv, TableWhole, HasTool, AllRules, FirstRules,
      RuleCount, Untouched, OwnTool, Families, FamilyOf
<1>20. ASSUME NEW i \in NICs, ClientGivesUp(i)
      PROVE  FirewallInv'
  BY <1>20, FixedStep, GivenNumbers
  DEF ClientGivesUp, fwVars, TypeOK, FirewallInv, TableWhole, HasTool, AllRules, FirstRules,
      RuleCount, Untouched, OwnTool, Families, FamilyOf
<1>21. CASE UNCHANGED vars
  BY <1>21
  DEF vars, Goto, fixedVars, clientVars, netVars, diskVars, fwVars, TypeOK, FirewallInv,
      TableWhole, HasTool, AllRules, FirstRules, RuleCount, Untouched, OwnTool, Families,
      FamilyOf
<1>22. CASE Over
  BY <1>21, <1>22 DEF Over
<1>. QED
  BY <1>1, <1>2, <1>3, <1>4, <1>5, <1>6, <1>7, <1>8, <1>9, <1>10, <1>11, <1>12, <1>13, <1>14,
     <1>15, <1>16, <1>17, <1>18, <1>19, <1>20, <1>21, <1>22
  DEF Next, RcS, Clients


\* rcS starts in a state that satisfies the invariant.
LEMMA InitHolds == Init => IInv
<1>. SUFFICES ASSUME Init PROVE IInv
  OBVIOUS
<1>1. PICK b \in Boots : spec = b[1] /\ machine = b[2]
  BY DEF Init
<1>2. IsSpec(b[1]) /\ <<b[1], b[2]>> \in Boots
  BY BootsAssumption
<1>3. TypeOK
  BY <1>1, <1>2
  DEF Init, TypeOK, Blocks, Primary, NICs, Commands, Families, Untouched, TableType, Fallbacks
<1>4. BlockInv /\ ClientInv /\ NoNetwork /\ DirectiveWins
  BY DEF Init, BlockInv, ClientInv, NoNetwork, DirectiveWins, PastDns, NICs
<1>5. TimeInv
  <2>1. Budget >= 0
    BY NumbersAssumption DEF Budget
  <2>. QED
    BY <2>1 DEF Init, TimeInv
<1>6. DiskInv
  BY DEF Init, DiskInv, PastVolumes
<1>7. FirewallInv
  BY DEF Init, FirewallInv, Families
<1>. QED
  BY <1>3, <1>4, <1>5, <1>6, <1>7 DEF IInv

\* IInv is an invariant of every boot.
THEOREM Inductive == Spec => []IInv
<1>1. IInv /\ [Next]_vars => IInv'
  <2>. SUFFICES ASSUME IInv, [Next]_vars PROVE IInv'
    OBVIOUS
  <2>1. TypeOK'
    BY TypeStep DEF IInv
  <2>2. BlockInv' /\ ClientInv' /\ NoNetwork'
    BY NetStep DEF IInv
  <2>3. DirectiveWins'
    BY DirectiveStep DEF IInv
  <2>4. TimeInv'
    BY TimeStep DEF IInv
  <2>5. DiskInv'
    BY DiskStep DEF IInv
  <2>6. FirewallInv'
    BY FirewallStep DEF IInv
  <2>. QED
    BY <2>1, <2>2, <2>3, <2>4, <2>5, <2>6 DEF IInv
<1>. QED
  BY <1>1, InitHolds, PTL DEF Spec

\* Every variable of rcS keeps its type.
THEOREM TypeCorrect == Spec => []TypeOK
<1>1. IInv => TypeOK
  BY DEF IInv
<1>. QED
  BY <1>1, Inductive, PTL

\* The services of a guest never start without a required volume that has a
\* mountpoint of its own: rcS's `mountpoint -q` check stops the boot instead.
THEOREM RequiredMountedAlways == Spec => []RequiredMounted
<1>1. IInv => RequiredMounted
  BY DEF IInv, DiskInv, RequiredMounted, PastVolumes, Needed, InPlace
<1>. QED
  BY <1>1, Inductive, PTL

\* Whatever rules the kernel rejects, the services start with the declared
\* rules or with the fallback, whole, in both tables.
THEOREM FirewallWholeAlways == Spec => []FirewallWhole
<1>1. IInv => FirewallWhole
  BY DEF IInv, FirewallInv, FirewallWhole, Families
<1>. QED
  BY <1>1, Inductive, PTL

\* An image that declares no network never gets an address.
THEOREM NoNetworkAlways == Spec => []NoNetwork
<1>1. IInv => NoNetwork
  BY DEF IInv
<1>. QED
  BY <1>1, Inductive, PTL

\* The DNS directive stays in force where eth0 and wlan0 run no DHCP client.
THEOREM DirectiveWinsAlways == Spec => []DirectiveWins
<1>1. IInv => DirectiveWins
  BY DEF IInv
<1>. QED
  BY <1>1, Inductive, PTL

\* rcS waits no longer than the budget of its Nimbusfile, whatever
\* AssocTimeout is.
THEOREM BootBoundedAlways == Spec => []BootBounded
<1>1. IInv => BootBounded
  BY DEF IInv, TimeInv, BootBounded
<1>. QED
  BY <1>1, Inductive, PTL

\* The FIREWALL6 block changes the IPv4 table only if there is no binary for
\* IPv6 rules.
THEOREM Independent == Spec => IndependentRulesets
<1>1. IInv /\ [Next]_vars => [fam = 6 /\ HasTool(6) => table'[4] = table[4]]_vars
  <2>. SUFFICES ASSUME IInv, [Next]_vars, fam = 6, HasTool(6)
                PROVE  table'[4] = table[4]
    OBVIOUS
  <2>1. CASE Rule
    <3>1. FamilyOf(cmd) = 6
      BY <2>1 DEF IInv, FirewallInv, Rule
    <3>. QED
      BY <2>1, <3>1 DEF Rule, IInv, TypeOK, Families
  <2>2. CASE Trap
    <3>1. FamilyOf(cmd) = 6
      BY <2>2 DEF IInv, FirewallInv, Trap
    <3>. QED
      BY <2>2, <3>1 DEF Trap, IInv, TypeOK, Families
  <2>3. CASE ~Rule /\ ~Trap
    BY <2>3
    DEF Next, RcS, Clients, Over, vars, fwVars, Mounts, Eth0, Carrier, Dhcp, Ipv6, WifiStart,
        Assoc, Wlan0, Nics, Vga, Dns, Ntp, Volumes, Log, Firewall, Renew, SecondaryLease,
        ClientGivesUp
  <2>. QED
    BY <2>1, <2>2, <2>3
<1>. QED
  BY <1>1, Inductive, PTL DEF Spec, IndependentRulesets
=============================================================================
