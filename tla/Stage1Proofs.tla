---------------------------- MODULE Stage1Proofs ----------------------------
(***************************************************************************)
(* What TLAPS proves about /init, for any list of devices, any machine,    *)
(* any image and any number of passes.  For the search the inductive       *)
(* invariant separates the two states it can be in: nothing corrupt has    *)
(* been met, and no mount and no loop device is left over; or /dev/loop0   *)
(* is attached to a corrupt image, for good.  For the staging it relates   *)
(* the pages used in each tmpfs to the bytes the build counted.  That the  *)
(* script ends is a measure that every step of it lowers.                  *)
(***************************************************************************)
EXTENDS Stage1, NatRecursion, FiniteSetTheorems, TLAPS

Searching == {"whole", "boot", "parts", "volumes", "isos", "sleep"}
Staging   == {"tmpfs", "busybox", "install", "verify", "shadow", "switched"}

Base ==
    /\ IsMachine(machine) /\ pc \in Blocks
    /\ i \in Nat \ {0} /\ j \in Nat \ {0}
    /\ seen \subseteq present
    /\ pc \in {"build", "refused"} \cup Searching => root = NoFS
    /\ pc \in Staging => root # NoFS
    /\ pc = "build" => boot = <<>> /\ isoscan = <<>> /\ loop0 = NoFS /\ loop1 = NoFS /\ i = 1
    /\ pc = "isos" => i \in DOMAIN Volumes

\* As long as /dev/loop0 is free, only the candidate at hand is mounted.
Clean ==
    pc \in Searching /\ loop0 = NoFS =>
        /\ loop1 = NoFS
        /\ pc = "isos" => isoscan = <<Volumes[i]>>
        /\ pc # "isos" => isoscan = <<>>
        /\ boot = <<>> \/ /\ pc = "boot" /\ i \in DOMAIN Wholes
                          /\ boot = <<FS(Wholes[i], 0)>>
                          /\ machine.whole[Wholes[i]] \in {"good", "corrupt"}

Stuck == pc \in Searching /\ loop0 # NoFS => Holds(loop0) = "corrupt" /\ ~NoCorrupt

\* What the pass has been over: the devices that were there when it began.
NotWhole(l) == Wholes[l] \in seen => machine.whole[Wholes[l]] \in {"none", "other"}
NotPart(l)  == Parts[l] \in seen => machine.part[Parts[l]] = "none"

WholesDone ==
    loop0 = NoFS =>
        /\ pc = "whole" \/ (pc = "boot" /\ boot # <<>>) =>
              \A l \in DOMAIN Wholes : l < i => NotWhole(l)
        /\ pc = "boot" /\ boot = <<>> => \A l \in DOMAIN Wholes : NotWhole(l)
        /\ pc \in {"parts", "volumes", "isos", "sleep"} => \A l \in DOMAIN Wholes : NotWhole(l)

PartsDone ==
    /\ pc = "parts" => \A l \in DOMAIN Parts : l < i => NotPart(l)
    /\ pc \in {"volumes", "isos", "sleep"} => \A l \in DOMAIN Parts : NotPart(l)

VolumesDone ==
    loop0 = NoFS =>
        /\ pc \in {"volumes", "isos"} =>
              \A l \in DOMAIN Volumes : l < i /\ Volumes[l] \in seen => ~IsoGood(Volumes[l])
        /\ pc = "isos" => \A k \in DOMAIN machine.isos[Volumes[i]] :
                             k < j => machine.isos[Volumes[i]][k] # "good"
        /\ pc = "sleep" => \A l \in DOMAIN Volumes : Volumes[l] \in seen => ~IsoGood(Volumes[l])

IInv == Base /\ Clean /\ Stuck /\ WholesDone /\ PartsDone /\ VolumesDone /\ Preferred /\ Found


-----------------------------------------------------------------------------
(* Filesystems. *)

LEMMA FSFacts ==
  /\ \A d, k : FS(d, k).dev = d /\ FS(d, k).iso = k
  /\ \A d \in AllDevs, k \in Nat : FS(d, k) # NoFS
  /\ \A d : \A k \in Nat \ {0} : FS(d, k) # NoFS
  /\ NoFS.dev = "none" /\ NoFS.iso = 0
  BY OrdersAssumption DEF FS, NoFS

LEMMA Orders ==
  /\ Len(Wholes) \in Nat /\ DOMAIN Wholes = 1..Len(Wholes)
  /\ Len(Parts) \in Nat /\ DOMAIN Parts = 1..Len(Parts)
  /\ Len(Volumes) \in Nat /\ DOMAIN Volumes = 1..Len(Volumes)
  /\ \A k \in DOMAIN Wholes : Wholes[k] \in Devs(Wholes) /\ Wholes[k] \in AllDevs
  /\ \A k \in DOMAIN Parts : Parts[k] \in Devs(Parts) /\ Parts[k] \in AllDevs
  /\ \A k \in DOMAIN Volumes : Volumes[k] \in Devs(Volumes) /\ Volumes[k] \in AllDevs
<1>1. /\ Len(Wholes) \in Nat /\ DOMAIN Wholes = 1..Len(Wholes)
      /\ Len(Parts) \in Nat /\ DOMAIN Parts = 1..Len(Parts)
      /\ Len(Volumes) \in Nat /\ DOMAIN Volumes = 1..Len(Volumes)
  BY OrdersAssumption
<1>. QED
  BY <1>1 DEF Devs, AllDevs

\* The blocks after the search leave what it found alone.
LEMMA StagingLeaves ==
  ASSUME Tmpfs \/ CopyBusybox \/ Install \/ Verify \/ Shadow \/ SwitchRoot
  PROVE  /\ UNCHANGED <<machine, image, j, seen, present, boot, isoscan, loop0, loop1, root>>
         /\ pc \in Staging \ {"switched"} /\ pc' \in Staging \cup {"fatal"}
  BY DEF Tmpfs, CopyBusybox, Install, Verify, Shadow, SwitchRoot, fixedVars, scanVars, stageVars,
     Staging

-----------------------------------------------------------------------------
(* The two blocks that use loop devices. *)

LEMMA BootOutcome ==
  ASSUME Base, Clean, Stuck, WholesDone, Boot
  PROVE  /\ UNCHANGED <<machine, j, seen, present, boot, isoscan, loop1>> /\ i' = 1
         /\ \/ /\ loop0 # NoFS /\ loop0' = loop0 /\ root' = NoFS /\ pc' = "parts"
            \/ /\ loop0 = NoFS /\ boot = <<>> /\ loop0' = NoFS /\ root' = NoFS /\ pc' = "parts"
            \/ /\ loop0 = NoFS /\ loop0' # NoFS /\ (Holds(loop0) = "corrupt")'
               /\ ~NoCorrupt /\ root' = NoFS /\ pc' = "parts"
            \/ /\ loop0 = NoFS /\ i \in DOMAIN Wholes /\ root' = FS(Wholes[i], 0)
               /\ root' # NoFS /\ pc' = "tmpfs" /\ boot # <<>>
<1>1. /\ UNCHANGED <<machine, j, seen, present, boot, isoscan, loop1>> /\ i' = 1 /\ root = NoFS
      /\ pc = "boot"
  BY DEF Boot, fixedVars, Base, Searching
<1>2. CASE loop0 # NoFS
  BY <1>1, <1>2 DEF Boot
<1>3. CASE loop0 = NoFS /\ boot = <<>>
  BY <1>1, <1>3 DEF Boot
<1>4. CASE loop0 = NoFS /\ boot # <<>>
  <2>1. /\ i \in DOMAIN Wholes /\ boot = <<FS(Wholes[i], 0)>>
        /\ machine.whole[Wholes[i]] \in {"good", "corrupt"}
    BY <1>1, <1>4 DEF Clean, Searching
  <2>2. boot[Len(boot)] = FS(Wholes[i], 0)
    BY <2>1
  <2>3. FS(Wholes[i], 0) # NoFS /\ Holds(FS(Wholes[i], 0)) = machine.whole[Wholes[i]]
    BY <2>1, Orders, FSFacts DEF Holds
  <2>4. loop0' = FS(Wholes[i], 0)
    BY <1>4, <2>2 DEF Boot
  <2>5. CASE machine.whole[Wholes[i]] = "good"
    BY <1>1, <1>4, <2>1, <2>2, <2>3, <2>5 DEF Boot
  <2>6. CASE machine.whole[Wholes[i]] = "corrupt"
    <3>1. (Holds(loop0) = "corrupt")'
      BY <1>1, <2>3, <2>4, <2>6 DEF Holds
    <3>2. ~NoCorrupt
      BY <2>1, <2>6, Orders DEF NoCorrupt
    <3>. QED
      BY <1>1, <1>4, <2>2, <2>3, <2>4, <2>6, <3>1, <3>2 DEF Boot
  <2>. QED
    BY <2>1, <2>5, <2>6
<1>. QED
  BY <1>2, <1>3, <1>4

LEMMA IsoOutcome ==
  ASSUME Base, Clean, Stuck, Iso
  PROVE  /\ UNCHANGED <<machine, seen, present, isoscan>>
         /\ i \in DOMAIN Volumes /\ j \in DOMAIN machine.isos[Volumes[i]]
         /\ \/ /\ loop0 # NoFS /\ loop0' = loop0 /\ root' = NoFS /\ pc' = "isos"
               /\ i' = i /\ j' = j + 1
            \/ /\ loop0 = NoFS /\ loop0' # NoFS /\ (Holds(loop0) = "corrupt")' /\ root' = NoFS
               /\ ~NoCorrupt /\ pc' = "isos" /\ i' = i /\ j' = j + 1
            \/ /\ loop0 = NoFS /\ loop0' = NoFS /\ loop1' = NoFS /\ boot' = <<>> /\ root' = NoFS
               /\ machine.isos[Volumes[i]][j] # "good"
               /\ pc' = "isos" /\ i' = i /\ j' = j + 1
            \/ /\ loop0 = NoFS /\ root' = FS(Volumes[i], j) /\ pc' = "tmpfs" /\ i' = 1 /\ j' = j
<1>. DEFINE f == FS(Volumes[i], j)
<1>1. /\ UNCHANGED <<machine, seen, present, isoscan>> /\ root = NoFS /\ pc = "isos"
      /\ i \in DOMAIN Volumes /\ j \in DOMAIN machine.isos[Volumes[i]] /\ j \in Nat \ {0}
  BY DEF Iso, IsoBody, fixedVars, Base, Searching
<1>2. f # NoFS /\ Holds(f) = machine.isos[Volumes[i]][j] /\ Holds(f) \in Contents
  <2>1. f # NoFS /\ Holds(f) = machine.isos[Volumes[i]][j]
    BY <1>1, FSFacts DEF Holds
  <2>2. machine.isos[Volumes[i]] \in Seq(Contents)
    BY <1>1, Orders DEF Base, IsMachine
  <2>. QED
    BY <1>1, <2>1, <2>2
<1>. HIDE DEF f
<1>3. CASE loop0 # NoFS
  BY <1>1, <1>3 DEF Iso, IsoBody
<1>4. CASE loop0 = NoFS
  <2>1. loop1 = NoFS /\ boot = <<>>
    BY <1>1, <1>4 DEF Clean, Searching
  <2>2. CASE Holds(f) = "good"
    <3>1. root' = f /\ pc' = "tmpfs" /\ i' = 1 /\ j' = j
      BY <1>4, <2>1, <2>2 DEF Iso, IsoBody, f
    <3>. QED
      BY <1>1, <1>4, <3>1 DEF f
  <2>3. CASE Holds(f) = "corrupt"
    <3>1. loop0' = f /\ root' = root /\ pc' = pc /\ i' = i /\ j' = j + 1
      BY <1>4, <2>1, <2>3 DEF Iso, IsoBody, f
    <3>2. (Holds(loop0) = "corrupt")'
      BY <1>1, <2>3, <3>1 DEF Holds
    <3>3. ~NoCorrupt
      BY <1>1, <1>2, <2>3, Orders DEF NoCorrupt
    <3>. QED
      BY <1>1, <1>2, <1>4, <3>1, <3>2, <3>3
  <2>4. CASE Holds(f) = "other"
    <3>1. /\ loop0' = NoFS /\ root' = root /\ pc' = pc /\ i' = i /\ j' = j + 1
          /\ boot' = Unmount(Append(boot, f), NoFS)
          /\ loop1' = IF \E k \in DOMAIN boot' : boot'[k] = f THEN f ELSE NoFS
      BY <1>4, <2>1, <2>4 DEF Iso, IsoBody, f
    <3>2. Append(boot, f) = <<f>> /\ <<f>>[Len(<<f>>)] = f /\ SubSeq(<<f>>, 1, Len(<<f>>) - 1) = <<>>
      BY <2>1
    <3>3. boot' = <<>>
      BY <1>2, <3>1, <3>2 DEF Unmount
    <3>4. loop1' = NoFS
      BY <3>1, <3>3
    <3>. QED
      BY <1>1, <1>2, <1>4, <2>4, <3>1, <3>3, <3>4
  <2>5. CASE Holds(f) = "none"
    <3>1. /\ loop0' = NoFS /\ root' = root /\ pc' = pc /\ i' = i /\ j' = j + 1
          /\ boot' = Unmount(boot, NoFS)
          /\ loop1' = IF \E k \in DOMAIN boot' : boot'[k] = f THEN f ELSE NoFS
      BY <1>4, <2>1, <2>5 DEF Iso, IsoBody, f
    <3>2. boot' = <<>>
      BY <2>1, <3>1 DEF Unmount
    <3>3. loop1' = NoFS
      BY <3>1, <3>2
    <3>. QED
      BY <1>1, <1>2, <1>4, <2>5, <3>1, <3>2, <3>3
  <2>. QED
    BY <1>2, <2>2, <2>3, <2>4, <2>5 DEF Contents
<1>. QED
  BY <1>3, <1>4


-----------------------------------------------------------------------------
(* Every conjunct is kept. *)

LEMMA MachineStays == [Next]_vars => machine' = machine
  BY DEF Next, Script, Done, Plug, vars, fixedVars, scanVars, stageVars, Build, Whole, WholeEnd, Boot,
     Part, PartsEnd, Volume, VolumesEnd, Iso, IsoBody, IsosEnd, Sleep, Tmpfs, CopyBusybox, Install,
     Verify, Shadow, SwitchRoot

LEMMA BaseStep ==
  ASSUME Base, Clean, Stuck, WholesDone, [Next]_vars
  PROVE  Base'
<1>0. machine' = machine
  BY MachineStays
<1>. USE <1>0 DEF Base, Blocks, Searching, Staging
<1>1. CASE Build
  BY <1>1 DEF Build, fixedVars, scanVars, stageVars
<1>2. CASE Whole
  BY <1>2 DEF Whole, fixedVars, scanVars, stageVars
<1>3. CASE WholeEnd
  BY <1>3 DEF WholeEnd, fixedVars, scanVars, stageVars
<1>4. CASE Boot
  BY <1>4, BootOutcome
<1>5. CASE Part
  BY <1>5, Orders, FSFacts DEF Part, fixedVars, scanVars, stageVars
<1>6. CASE PartsEnd
  BY <1>6 DEF PartsEnd, fixedVars, scanVars, stageVars
<1>7. CASE Volume
  BY <1>7 DEF Volume, fixedVars, scanVars, stageVars
<1>8. CASE VolumesEnd
  BY <1>8 DEF VolumesEnd, fixedVars, scanVars, stageVars
<1>9. CASE Iso
  BY <1>9, IsoOutcome, Orders, FSFacts
<1>10. CASE IsosEnd
  BY <1>10 DEF IsosEnd, fixedVars, scanVars, stageVars
<1>11. CASE Sleep
  BY <1>11 DEF Sleep, fixedVars, scanVars, stageVars
<1>12. CASE Tmpfs
  BY <1>12 DEF Tmpfs, fixedVars, scanVars, stageVars
<1>13. CASE CopyBusybox
  BY <1>13 DEF CopyBusybox, fixedVars, scanVars, stageVars
<1>14. CASE Install
  BY <1>14 DEF Install, fixedVars, scanVars, stageVars
<1>15. CASE Verify
  BY <1>15 DEF Verify, fixedVars, scanVars, stageVars
<1>16. CASE Shadow
  BY <1>16 DEF Shadow, fixedVars, scanVars, stageVars
<1>17. CASE SwitchRoot
  BY <1>17 DEF SwitchRoot, fixedVars, scanVars, stageVars
<1>18. ASSUME NEW d \in AllDevs, Plug(d) PROVE Base'
  BY <1>18 DEF Plug, fixedVars, scanVars, stageVars
<1>19. CASE UNCHANGED vars
  BY <1>19 DEF vars, fixedVars, scanVars, stageVars
<1>. QED
  BY <1>1, <1>2, <1>3, <1>4, <1>5, <1>6, <1>7, <1>8, <1>9, <1>10, <1>11, <1>12, <1>13, <1>14, <1>15, <1>16, <1>17, <1>18, <1>19 DEF Next, Script, Done

LEMMA CleanStep ==
  ASSUME Base, Clean, Stuck, WholesDone, [Next]_vars
  PROVE  Clean'
<1>0. machine' = machine
  BY MachineStays
<1>. USE <1>0 DEF Clean, Searching
<1>1. CASE Build
  BY <1>1 DEF Build, Base, fixedVars, scanVars, stageVars
<1>2. CASE Whole
  <2>1. SUFFICES ASSUME loop0 = NoFS
                 PROVE  Clean'
    BY <1>2 DEF Whole
  <2>2. /\ UNCHANGED <<isoscan, loop1, loop0>> /\ pc = "whole" /\ i \in DOMAIN Wholes
        /\ pc' # "isos" /\ isoscan = <<>> /\ loop1 = NoFS /\ boot = <<>>
    BY <1>2, <2>1 DEF Whole
  <2>3. machine.whole[Wholes[i]] \in Contents
    BY <2>2, Orders DEF Base, IsMachine
  <2>4. CASE boot' = boot /\ pc' = pc
    BY <2>2, <2>4
  <2>5. CASE /\ boot' = Append(boot, FS(Wholes[i], 0)) /\ pc' = "boot" /\ i' = i
             /\ machine.whole[Wholes[i]] \notin {"none", "other"}
    BY <2>2, <2>3, <2>5 DEF Contents
  <2>. QED
    BY <1>2, <2>4, <2>5 DEF Whole
<1>3. CASE WholeEnd
  BY <1>3 DEF WholeEnd, fixedVars, scanVars, stageVars
<1>4. CASE Boot
  BY <1>4, BootOutcome DEF Boot
<1>5. CASE Part
  BY <1>5 DEF Part, fixedVars, scanVars, stageVars
<1>6. CASE PartsEnd
  BY <1>6 DEF PartsEnd, fixedVars, scanVars, stageVars
<1>7. CASE Volume
  <2>1. SUFFICES ASSUME loop0 = NoFS
                 PROVE  Clean'
    BY <1>7 DEF Volume
  <2>2. /\ UNCHANGED <<boot, loop1, loop0>> /\ pc = "volumes" /\ isoscan = <<>> /\ loop1 = NoFS
        /\ boot = <<>>
    BY <1>7, <2>1 DEF Volume
  <2>. QED
    BY <1>7, <2>2 DEF Volume
<1>8. CASE VolumesEnd
  BY <1>8 DEF VolumesEnd, fixedVars, scanVars, stageVars
<1>9. CASE Iso
  BY <1>9, IsoOutcome DEF Iso, IsoBody
<1>10. CASE IsosEnd
  <2>1. SUFFICES ASSUME loop0 = NoFS
                 PROVE  Clean'
    BY <1>10 DEF IsosEnd
  <2>2. /\ UNCHANGED <<boot, loop1, loop0>> /\ pc = "isos" /\ pc' = "volumes"
        /\ isoscan = <<Volumes[i]>> /\ loop1 = NoFS /\ boot = <<>> /\ i \in DOMAIN Volumes
    BY <1>10, <2>1 DEF IsosEnd, Base
  <2>3. isoscan' = IF isoscan = <<>> \/ isoscan[Len(isoscan)] = loop1.dev
                   THEN isoscan ELSE SubSeq(isoscan, 1, Len(isoscan) - 1)
    BY <1>10 DEF IsosEnd, Unmount
  <2>4. isoscan[Len(isoscan)] = Volumes[i] /\ SubSeq(isoscan, 1, Len(isoscan) - 1) = <<>>
    BY <2>2
  <2>5. Volumes[i] # loop1.dev
    BY <2>2, Orders, FSFacts, OrdersAssumption
  <2>6. isoscan' = <<>>
    BY <2>3, <2>4, <2>5, <2>2
  <2>. QED
    BY <2>2, <2>6
<1>11. CASE Sleep
  BY <1>11 DEF Sleep, fixedVars, scanVars, stageVars
<1>12. CASE Tmpfs
  BY <1>12, StagingLeaves DEF Staging
<1>13. CASE CopyBusybox
  BY <1>13, StagingLeaves DEF Staging
<1>14. CASE Install
  BY <1>14, StagingLeaves DEF Staging
<1>15. CASE Verify
  BY <1>15, StagingLeaves DEF Staging
<1>16. CASE Shadow
  BY <1>16, StagingLeaves DEF Staging
<1>17. CASE SwitchRoot
  BY <1>17, StagingLeaves DEF Staging
<1>18. ASSUME NEW d \in AllDevs, Plug(d) PROVE Clean'
  BY <1>18 DEF Plug, fixedVars, scanVars, stageVars
<1>19. CASE UNCHANGED vars
  BY <1>19 DEF vars, fixedVars, scanVars, stageVars
<1>. QED
  BY <1>1, <1>2, <1>3, <1>4, <1>5, <1>6, <1>7, <1>8, <1>9, <1>10, <1>11, <1>12, <1>13, <1>14, <1>15, <1>16, <1>17, <1>18, <1>19 DEF Next, Script, Done

LEMMA StuckStep ==
  ASSUME Base, Clean, Stuck, WholesDone, [Next]_vars
  PROVE  Stuck'
<1>0. machine' = machine
  BY MachineStays
<1>. USE <1>0 DEF Stuck, Searching, Holds, NoCorrupt
<1>1. CASE Build
  BY <1>1 DEF Build, Base, fixedVars, scanVars, stageVars
<1>2. CASE Whole
  BY <1>2 DEF Whole, fixedVars, scanVars, stageVars
<1>3. CASE WholeEnd
  BY <1>3 DEF WholeEnd, fixedVars, scanVars, stageVars
<1>4. CASE Boot
  BY <1>4, BootOutcome DEF Boot
<1>5. CASE Part
  BY <1>5 DEF Part, fixedVars, scanVars, stageVars
<1>6. CASE PartsEnd
  BY <1>6 DEF PartsEnd, fixedVars, scanVars, stageVars
<1>7. CASE Volume
  BY <1>7 DEF Volume, fixedVars, scanVars, stageVars
<1>8. CASE VolumesEnd
  BY <1>8 DEF VolumesEnd, fixedVars, scanVars, stageVars
<1>9. CASE Iso
  BY <1>9, IsoOutcome DEF Iso, IsoBody
<1>10. CASE IsosEnd
  BY <1>10 DEF IsosEnd, fixedVars, scanVars, stageVars
<1>11. CASE Sleep
  BY <1>11 DEF Sleep, fixedVars, scanVars, stageVars
<1>12. CASE Tmpfs
  BY <1>12, StagingLeaves DEF Staging
<1>13. CASE CopyBusybox
  BY <1>13, StagingLeaves DEF Staging
<1>14. CASE Install
  BY <1>14, StagingLeaves DEF Staging
<1>15. CASE Verify
  BY <1>15, StagingLeaves DEF Staging
<1>16. CASE Shadow
  BY <1>16, StagingLeaves DEF Staging
<1>17. CASE SwitchRoot
  BY <1>17, StagingLeaves DEF Staging
<1>18. ASSUME NEW d \in AllDevs, Plug(d) PROVE Stuck'
  BY <1>18 DEF Plug, fixedVars, scanVars, stageVars
<1>19. CASE UNCHANGED vars
  BY <1>19 DEF vars, fixedVars, scanVars, stageVars
<1>. QED
  BY <1>1, <1>2, <1>3, <1>4, <1>5, <1>6, <1>7, <1>8, <1>9, <1>10, <1>11, <1>12, <1>13, <1>14, <1>15, <1>16, <1>17, <1>18, <1>19 DEF Next, Script, Done

LEMMA WholesStep ==
  ASSUME Base, Clean, Stuck, WholesDone, [Next]_vars
  PROVE  WholesDone'
<1>0. machine' = machine
  BY MachineStays
<1>. USE <1>0 DEF WholesDone, NotWhole
<1>1. CASE Build
  BY <1>1, Orders DEF Build, Base, fixedVars, scanVars, stageVars
<1>2. CASE Whole
  <2>1. SUFFICES ASSUME loop0 = NoFS
                 PROVE  WholesDone'
    BY <1>2 DEF Whole
  <2>2. /\ UNCHANGED <<seen, loop0>> /\ pc = "whole" /\ i \in DOMAIN Wholes /\ boot = <<>>
        /\ i \in Nat /\ seen \subseteq present
    BY <1>2, <2>1 DEF Whole, Clean, Searching, Base
  <2>3. ~IsTop(FS(Wholes[i], 0), boot)
    BY <2>2 DEF IsTop
  <2>4. CASE boot' = boot /\ pc' = pc /\ i' = i + 1
             /\ (Wholes[i] \notin present \/ machine.whole[Wholes[i]] \in {"none", "other"})
    BY <2>1, <2>2, <2>4, Orders
  <2>5. CASE boot' = Append(boot, FS(Wholes[i], 0)) /\ pc' = "boot" /\ i' = i
    BY <2>1, <2>2, <2>5
  <2>. QED
    BY <1>2, <2>3, <2>4, <2>5 DEF Whole
<1>3. CASE WholeEnd
  <2>1. /\ UNCHANGED <<seen, loop0, boot, i>> /\ pc = "whole" /\ pc' = "boot"
        /\ i \notin DOMAIN Wholes /\ i \in Nat \ {0}
    BY <1>3 DEF WholeEnd, Base, scanVars
  <2>. QED
    BY <2>1, Orders
<1>4. CASE Boot
  BY <1>4, BootOutcome DEF Boot
<1>5. CASE Part
  BY <1>5 DEF Part, fixedVars, scanVars, stageVars
<1>6. CASE PartsEnd
  BY <1>6 DEF PartsEnd, fixedVars, scanVars, stageVars
<1>7. CASE Volume
  BY <1>7 DEF Volume, fixedVars, scanVars, stageVars
<1>8. CASE VolumesEnd
  BY <1>8 DEF VolumesEnd, fixedVars, scanVars, stageVars
<1>9. CASE Iso
  <2>1. UNCHANGED seen /\ pc = "isos" /\ pc' \in {"isos", "tmpfs"} /\ (loop0' = NoFS => loop0 = NoFS \/ pc' = "tmpfs")
    BY <1>9, IsoOutcome DEF Iso, IsoBody
  <2>. QED
    BY <2>1
<1>10. CASE IsosEnd
  BY <1>10 DEF IsosEnd, fixedVars, scanVars, stageVars
<1>11. CASE Sleep
  BY <1>11, Orders DEF Sleep, fixedVars, scanVars, stageVars
<1>12. CASE Tmpfs
  BY <1>12, StagingLeaves DEF Staging
<1>13. CASE CopyBusybox
  BY <1>13, StagingLeaves DEF Staging
<1>14. CASE Install
  BY <1>14, StagingLeaves DEF Staging
<1>15. CASE Verify
  BY <1>15, StagingLeaves DEF Staging
<1>16. CASE Shadow
  BY <1>16, StagingLeaves DEF Staging
<1>17. CASE SwitchRoot
  BY <1>17, StagingLeaves DEF Staging
<1>18. ASSUME NEW d \in AllDevs, Plug(d) PROVE WholesDone'
  BY <1>18 DEF Plug, fixedVars, scanVars, stageVars
<1>19. CASE UNCHANGED vars
  BY <1>19 DEF vars, fixedVars, scanVars, stageVars
<1>. QED
  BY <1>1, <1>2, <1>3, <1>4, <1>5, <1>6, <1>7, <1>8, <1>9, <1>10, <1>11, <1>12, <1>13, <1>14, <1>15, <1>16, <1>17, <1>18, <1>19 DEF Next, Script, Done

LEMMA PartsStep ==
  ASSUME Base, Clean, Stuck, WholesDone, PartsDone, [Next]_vars
  PROVE  PartsDone'
<1>0. machine' = machine
  BY MachineStays
<1>. USE <1>0 DEF PartsDone, NotPart
<1>1. CASE Build
  BY <1>1 DEF Build, fixedVars, scanVars, stageVars
<1>2. CASE Whole
  BY <1>2 DEF Whole, fixedVars, scanVars, stageVars
<1>3. CASE WholeEnd
  BY <1>3 DEF WholeEnd, fixedVars, scanVars, stageVars
<1>4. CASE Boot
  BY <1>4, BootOutcome, Orders DEF Boot
<1>5. CASE Part
  <2>1. /\ UNCHANGED seen /\ pc = "parts" /\ i \in DOMAIN Parts /\ i \in Nat /\ seen \subseteq present
    BY <1>5 DEF Part, Base
  <2>2. machine.part[Parts[i]] \in {"none", "good"}
    BY <2>1, Orders DEF Base, IsMachine
  <2>3. CASE pc' = "tmpfs"
    BY <2>3
  <2>4. CASE pc' = pc /\ i' = i + 1 /\ ~(Parts[i] \in present /\ machine.part[Parts[i]] = "good")
    BY <2>1, <2>2, <2>4, Orders
  <2>. QED
    BY <1>5, <2>3, <2>4 DEF Part
<1>6. CASE PartsEnd
  <2>1. /\ UNCHANGED seen /\ pc = "parts" /\ pc' = "volumes"
        /\ i \notin DOMAIN Parts /\ i \in Nat \ {0}
    BY <1>6 DEF PartsEnd, Base
  <2>. QED
    BY <2>1, Orders
<1>7. CASE Volume
  BY <1>7 DEF Volume, fixedVars, scanVars, stageVars
<1>8. CASE VolumesEnd
  BY <1>8 DEF VolumesEnd, fixedVars, scanVars, stageVars
<1>9. CASE Iso
  <2>1. UNCHANGED seen /\ pc = "isos" /\ pc' \in {"isos", "tmpfs"}
    BY <1>9, IsoOutcome DEF Iso, IsoBody
  <2>. QED
    BY <2>1
<1>10. CASE IsosEnd
  BY <1>10 DEF IsosEnd, fixedVars, scanVars, stageVars
<1>11. CASE Sleep
  BY <1>11 DEF Sleep, fixedVars, scanVars, stageVars
<1>12. CASE Tmpfs
  BY <1>12, StagingLeaves DEF Staging
<1>13. CASE CopyBusybox
  BY <1>13, StagingLeaves DEF Staging
<1>14. CASE Install
  BY <1>14, StagingLeaves DEF Staging
<1>15. CASE Verify
  BY <1>15, StagingLeaves DEF Staging
<1>16. CASE Shadow
  BY <1>16, StagingLeaves DEF Staging
<1>17. CASE SwitchRoot
  BY <1>17, StagingLeaves DEF Staging
<1>18. ASSUME NEW d \in AllDevs, Plug(d) PROVE PartsDone'
  BY <1>18 DEF Plug, fixedVars, scanVars, stageVars
<1>19. CASE UNCHANGED vars
  BY <1>19 DEF vars, fixedVars, scanVars, stageVars
<1>. QED
  BY <1>1, <1>2, <1>3, <1>4, <1>5, <1>6, <1>7, <1>8, <1>9, <1>10, <1>11, <1>12, <1>13, <1>14, <1>15, <1>16, <1>17, <1>18, <1>19 DEF Next, Script, Done

LEMMA VolumesStep ==
  ASSUME Base, Clean, Stuck, WholesDone, VolumesDone, [Next]_vars
  PROVE  VolumesDone'
<1>0. machine' = machine
  BY MachineStays
<1>. USE <1>0 DEF VolumesDone, IsoGood
<1>1. CASE Build
  BY <1>1 DEF Build, fixedVars, scanVars, stageVars
<1>2. CASE Whole
  BY <1>2 DEF Whole, fixedVars, scanVars, stageVars
<1>3. CASE WholeEnd
  BY <1>3 DEF WholeEnd, fixedVars, scanVars, stageVars
<1>4. CASE Boot
  BY <1>4, BootOutcome DEF Boot
<1>5. CASE Part
  BY <1>5 DEF Part, fixedVars, scanVars, stageVars
<1>6. CASE PartsEnd
  BY <1>6, Orders DEF PartsEnd, fixedVars, scanVars, stageVars
<1>7. CASE Volume
  <2>1. SUFFICES ASSUME loop0 = NoFS
                 PROVE  VolumesDone'
    BY <1>7 DEF Volume
  <2>2. /\ UNCHANGED <<seen, loop0>> /\ pc = "volumes" /\ i \in DOMAIN Volumes /\ isoscan = <<>>
        /\ i \in Nat /\ seen \subseteq present
    BY <1>7, <2>1 DEF Volume, Clean, Searching, Base
  <2>3. ~IsTop(Volumes[i], isoscan)
    BY <2>2 DEF IsTop
  <2>4. CASE pc' = pc /\ i' = i + 1 /\ Volumes[i] \notin present
    BY <2>1, <2>2, <2>4, Orders
  <2>5. CASE pc' = "isos" /\ j' = 1 /\ i' = i
    <3>1. machine.isos[Volumes[i]] \in Seq(Contents)
      BY <2>2, Orders DEF Base, IsMachine
    <3>2. \A k \in DOMAIN machine.isos[Volumes[i]] : ~(k < 1)
      BY <3>1
    <3>. QED
      BY <2>1, <2>2, <2>5, <3>2
  <2>. QED
    BY <1>7, <2>3, <2>4, <2>5 DEF Volume
<1>8. CASE VolumesEnd
  <2>1. /\ UNCHANGED <<seen, loop0>> /\ pc = "volumes" /\ pc' = "sleep"
        /\ i \notin DOMAIN Volumes /\ i \in Nat \ {0}
    BY <1>8 DEF VolumesEnd, Base, scanVars
  <2>. QED
    BY <2>1, Orders
<1>9. CASE Iso
  <2>1. /\ UNCHANGED seen /\ pc = "isos" /\ i \in DOMAIN Volumes /\ j \in Nat \ {0}
        /\ j \in DOMAIN machine.isos[Volumes[i]]
    BY <1>9, IsoOutcome DEF Iso, IsoBody, Base
  <2>2. machine.isos[Volumes[i]] \in Seq(Contents)
    BY <2>1, Orders DEF Base, IsMachine
  <2>3. CASE pc' = "tmpfs" \/ loop0' # NoFS
    BY <2>3
  <2>4. CASE /\ loop0 = NoFS /\ loop0' = NoFS /\ machine.isos[Volumes[i]][j] # "good"
             /\ pc' = "isos" /\ i' = i /\ j' = j + 1
    <3>1. \A k \in DOMAIN machine.isos[Volumes[i]] : k < j + 1 => k < j \/ k = j
      BY <2>1, <2>2
    <3>. QED
      BY <2>1, <2>4, <3>1
  <2>. QED
    BY <1>9, <2>3, <2>4, IsoOutcome
<1>10. CASE IsosEnd
  <2>1. SUFFICES ASSUME loop0 = NoFS
                 PROVE  VolumesDone'
    BY <1>10 DEF IsosEnd
  <2>2. /\ UNCHANGED <<seen, loop0>> /\ pc = "isos" /\ pc' = "volumes" /\ i' = i + 1
        /\ i \in DOMAIN Volumes /\ j \in Nat \ {0} /\ j \notin DOMAIN machine.isos[Volumes[i]]
    BY <1>10 DEF IsosEnd, Base
  <2>3. machine.isos[Volumes[i]] \in Seq(Contents)
    BY <2>2, Orders DEF Base, IsMachine
  <2>4. \A k \in DOMAIN machine.isos[Volumes[i]] : k < j
    BY <2>2, <2>3
  <2>5. ~IsoGood(Volumes[i])
    BY <2>1, <2>2, <2>4
  <2>6. \A l \in DOMAIN Volumes : l < i + 1 => l < i \/ l = i
    BY <2>2, Orders
  <2>. QED
    BY <2>1, <2>2, <2>5, <2>6
<1>11. CASE Sleep
  BY <1>11 DEF Sleep, fixedVars, scanVars, stageVars
<1>12. CASE Tmpfs
  BY <1>12, StagingLeaves DEF Staging
<1>13. CASE CopyBusybox
  BY <1>13, StagingLeaves DEF Staging
<1>14. CASE Install
  BY <1>14, StagingLeaves DEF Staging
<1>15. CASE Verify
  BY <1>15, StagingLeaves DEF Staging
<1>16. CASE Shadow
  BY <1>16, StagingLeaves DEF Staging
<1>17. CASE SwitchRoot
  BY <1>17, StagingLeaves DEF Staging
<1>18. ASSUME NEW d \in AllDevs, Plug(d) PROVE VolumesDone'
  BY <1>18 DEF Plug, fixedVars, scanVars, stageVars
<1>19. CASE UNCHANGED vars
  BY <1>19 DEF vars, fixedVars, scanVars, stageVars
<1>. QED
  BY <1>1, <1>2, <1>3, <1>4, <1>5, <1>6, <1>7, <1>8, <1>9, <1>10, <1>11, <1>12, <1>13, <1>14, <1>15, <1>16, <1>17, <1>18, <1>19 DEF Next, Script, Done

LEMMA PreferredStep ==
  ASSUME Base, Clean, Stuck, WholesDone, PartsDone, Preferred, [Next]_vars
  PROVE  Preferred'
<1>0. machine' = machine
  BY MachineStays
<1>A. ASSUME root' = NoFS PROVE Preferred'
  BY <1>A, FSFacts, Orders DEF Preferred
<1>B. ASSUME UNCHANGED <<root, seen, loop0>> PROVE Preferred'
  BY <1>0, <1>B DEF Preferred
<1>C. \A p \in Devs(Parts) : \E l \in DOMAIN Parts : p = Parts[l]
  BY DEF Devs
<1>D. \A d \in Devs(Wholes) : \E l \in DOMAIN Wholes : d = Wholes[l]
  BY DEF Devs
<1>1. CASE Build
  BY <1>A, <1>1 DEF Build, Base, fixedVars, scanVars, stageVars
<1>2. CASE Whole
  BY <1>2, <1>B DEF Whole, fixedVars, scanVars, stageVars
<1>3. CASE WholeEnd
  BY <1>3, <1>B DEF WholeEnd, fixedVars, scanVars, stageVars
<1>4. CASE Boot
  <2>1. CASE root' = NoFS
    BY <1>A, <2>1
  <2>2. CASE /\ loop0 = NoFS /\ i \in DOMAIN Wholes /\ root' = FS(Wholes[i], 0) /\ boot # <<>>
             /\ UNCHANGED seen
    <3>1. \A l \in DOMAIN Wholes : l < i => NotWhole(l)
      BY <1>4, <2>2 DEF WholesDone, Boot
    <3>2. \A k \in DOMAIN Wholes : root' = FS(Wholes[k], 0) => k = i
      BY <2>2, FSFacts, OrdersAssumption
    <3>3. \A k \in DOMAIN Parts : root' # FS(Parts[k], 0)
      BY <2>2, FSFacts, Orders, OrdersAssumption
    <3>4. root'.iso = 0
      BY <2>2, FSFacts
    <3>5. \A l \in 1..(i - 1) : l \in DOMAIN Wholes /\ l < i
      BY <2>2, Orders
    <3>. QED
      BY <1>0, <2>2, <3>1, <3>2, <3>3, <3>4, <3>5 DEF Preferred, NotWhole
  <2>. QED
    BY <1>4, BootOutcome, <2>1, <2>2
<1>5. CASE Part
  <2>1. CASE root' = root
    BY <1>A, <1>5, <2>1 DEF Part, Base, Searching
  <2>2. CASE root' = FS(Parts[i], 0)
    <3>1. pc = "parts" /\ i \in DOMAIN Parts /\ UNCHANGED <<seen, loop0>>
      BY <1>5 DEF Part
    <3>2. \A k \in DOMAIN Parts : root' = FS(Parts[k], 0) => k = i
      BY <2>2, <3>1, FSFacts, OrdersAssumption
    <3>3. \A k \in DOMAIN Wholes : root' # FS(Wholes[k], 0)
      BY <2>2, <3>1, FSFacts, Orders, OrdersAssumption
    <3>4. root'.iso = 0
      BY <2>2, FSFacts
    <3>5. \A l \in 1..(i - 1) : l \in DOMAIN Parts /\ l < i
      BY <3>1, Orders
    <3>6. \A l \in 1..(i - 1) : Parts[l] \in seen => machine.part[Parts[l]] = "none"
      BY <3>1, <3>5 DEF PartsDone, NotPart
    <3>7. loop0 = NoFS => \A d \in Devs(Wholes) \cap seen : machine.whole[d] \in {"none", "other"}
      BY <1>D, <3>1 DEF WholesDone, NotWhole
    <3>. QED
      BY <1>0, <3>1, <3>2, <3>3, <3>4, <3>6, <3>7 DEF Preferred
  <2>. QED
    BY <1>5, <2>1, <2>2 DEF Part
<1>6. CASE PartsEnd
  BY <1>6, <1>B DEF PartsEnd, fixedVars, scanVars, stageVars
<1>7. CASE Volume
  BY <1>7, <1>B DEF Volume, fixedVars, scanVars, stageVars
<1>8. CASE VolumesEnd
  BY <1>8, <1>B DEF VolumesEnd, fixedVars, scanVars, stageVars
<1>9. CASE Iso
  <2>1. CASE root' = NoFS
    BY <1>A, <2>1
  <2>2. CASE loop0 = NoFS /\ root' = FS(Volumes[i], j)
    <3>1. pc = "isos" /\ j \in Nat \ {0} /\ UNCHANGED seen
      BY <1>9, IsoOutcome DEF Iso, IsoBody, Base
    <3>2. /\ \A k \in DOMAIN Wholes : root' # FS(Wholes[k], 0)
          /\ \A k \in DOMAIN Parts : root' # FS(Parts[k], 0)
      BY <2>2, <3>1, FSFacts
    <3>3. \A p \in Devs(Parts) \cap seen : machine.part[p] = "none"
      BY <1>C, <3>1 DEF PartsDone, NotPart
    <3>4. \A d \in Devs(Wholes) \cap seen : machine.whole[d] \in {"none", "other"}
      BY <1>D, <2>2, <3>1 DEF WholesDone, NotWhole
    <3>. QED
      BY <1>0, <3>1, <3>2, <3>3, <3>4 DEF Preferred
  <2>. QED
    BY <1>9, IsoOutcome, <2>1, <2>2
<1>10. CASE IsosEnd
  BY <1>10, <1>B DEF IsosEnd, fixedVars, scanVars, stageVars
<1>11. CASE Sleep
  BY <1>A, <1>11 DEF Sleep, Base, Searching, fixedVars, scanVars, stageVars
<1>12. CASE Tmpfs
  BY <1>B, <1>12, StagingLeaves
<1>13. CASE CopyBusybox
  BY <1>B, <1>13, StagingLeaves
<1>14. CASE Install
  BY <1>B, <1>14, StagingLeaves
<1>15. CASE Verify
  BY <1>B, <1>15, StagingLeaves
<1>16. CASE Shadow
  BY <1>B, <1>16, StagingLeaves
<1>17. CASE SwitchRoot
  BY <1>B, <1>17, StagingLeaves
<1>18. ASSUME NEW d \in AllDevs, Plug(d) PROVE Preferred'
  BY <1>18, <1>B DEF Plug, fixedVars, scanVars, stageVars
<1>19. CASE UNCHANGED vars
  BY <1>19, <1>B DEF vars, fixedVars, scanVars, stageVars
<1>. QED
  BY <1>1, <1>2, <1>3, <1>4, <1>5, <1>6, <1>7, <1>8, <1>9, <1>10, <1>11, <1>12, <1>13, <1>14, <1>15, <1>16, <1>17, <1>18, <1>19 DEF Next, Script, Done

LEMMA FoundStep ==
  ASSUME IInv, [Next]_vars
  PROVE  Found'
<1>0. /\ machine' = machine
      /\ Base /\ Clean /\ Stuck /\ WholesDone /\ PartsDone /\ VolumesDone /\ Found
  BY MachineStays DEF IInv
<1>A. ASSUME pc' # "fatal" \/ root' # NoFS PROVE Found'
  BY <1>A DEF Found
<1>B. ASSUME UNCHANGED <<pc, root, seen, loop0>> PROVE Found'
  BY <1>0, <1>B DEF Found, Holds, IsoGood
<1>1. CASE Build
  BY <1>A, <1>1 DEF Build
<1>2. CASE Whole
  BY <1>A, <1>2 DEF Whole
<1>3. CASE WholeEnd
  BY <1>A, <1>3 DEF WholeEnd
<1>4. CASE Boot
  BY <1>0, <1>A, <1>4, BootOutcome
<1>5. CASE Part
  BY <1>A, <1>5 DEF Part
<1>6. CASE PartsEnd
  BY <1>A, <1>6 DEF PartsEnd
<1>7. CASE Volume
  BY <1>A, <1>7 DEF Volume
<1>8. CASE VolumesEnd
  BY <1>A, <1>8 DEF VolumesEnd
<1>9. CASE Iso
  BY <1>0, <1>A, <1>9, IsoOutcome
<1>10. CASE IsosEnd
  BY <1>A, <1>10 DEF IsosEnd
<1>11. CASE Sleep
  <2>1. CASE pc' = "fatal"
    <3>1. pc = "sleep" /\ UNCHANGED <<seen, root, loop0>>
      BY <1>11, <2>1 DEF Sleep, scanVars
    <3>2. \A p \in Devs(Parts) \cap seen : machine.part[p] # "good"
      BY <1>0, <3>1 DEF PartsDone, NotPart, Devs
    <3>3. CASE loop0 # NoFS
      BY <1>0, <3>1, <3>2, <3>3 DEF Found, Stuck, Searching, Holds
    <3>4. CASE loop0 = NoFS
      <4>1. \A d \in Devs(Wholes) \cap seen : machine.whole[d] # "good"
        BY <1>0, <3>1, <3>4 DEF WholesDone, NotWhole, Devs
      <4>2. \A v \in Devs(Volumes) \cap seen : ~IsoGood(v)
        BY <1>0, <3>1, <3>4 DEF VolumesDone, Devs
      <4>. QED
        BY <1>0, <3>1, <3>2, <4>1, <4>2 DEF Found, IsoGood
    <3>. QED
      BY <3>3, <3>4
  <2>2. CASE pc' # "fatal"
    BY <1>A, <2>2
  <2>. QED
    BY <2>1, <2>2
<1>12. CASE Tmpfs
  BY <1>0, <1>A, <1>12, StagingLeaves DEF Base
<1>13. CASE CopyBusybox
  BY <1>0, <1>A, <1>13, StagingLeaves DEF Base
<1>14. CASE Install
  BY <1>0, <1>A, <1>14, StagingLeaves DEF Base
<1>15. CASE Verify
  BY <1>0, <1>A, <1>15, StagingLeaves DEF Base
<1>16. CASE Shadow
  BY <1>0, <1>A, <1>16, StagingLeaves DEF Base
<1>17. CASE SwitchRoot
  BY <1>0, <1>A, <1>17, StagingLeaves DEF Base
<1>18. ASSUME NEW d \in AllDevs, Plug(d) PROVE Found'
  BY <1>B, <1>18 DEF Plug, fixedVars, scanVars, stageVars
<1>19. CASE UNCHANGED vars
  BY <1>B, <1>19 DEF vars, fixedVars, scanVars, stageVars
<1>. QED
  BY <1>1, <1>2, <1>3, <1>4, <1>5, <1>6, <1>7, <1>8, <1>9, <1>10, <1>11, <1>12, <1>13, <1>14, <1>15, <1>16, <1>17, <1>18, <1>19 DEF Next, Script, Done

-----------------------------------------------------------------------------
LEMMA InitIInv == Init => IInv
<1>. SUFFICES ASSUME Init PROVE IInv
  OBVIOUS
<1>1. IsMachine(machine)
  BY BootsAssumption DEF Init
<1>2. Preferred
  BY FSFacts, Orders DEF Init, Preferred
<1>. QED
  BY <1>1, <1>2 DEF Init, IInv, Base, Blocks, Searching, Staging, Clean, Stuck, WholesDone,
     PartsDone, VolumesDone, Found

LEMMA NextIInv == IInv /\ [Next]_vars => IInv'
  BY BaseStep, CleanStep, StuckStep, WholesStep, PartsStep, VolumesStep, PreferredStep, FoundStep
     DEF IInv

\* The two states of /init's search, and what each pass has been over.
THEOREM Inductive == Spec => []IInv
  BY InitIInv, NextIInv, PTL DEF Spec

\* /init gives up only when no medium that was there could be used, or /dev/loop0
\* is still attached to a corrupt image.
THEOREM FoundAlways == Spec => []Found
<1>1. IInv => Found
  BY DEF IInv
<1>. QED
  BY <1>1, Inductive, PTL

\* The root comes from the first kind of medium, and the first device of it, that
\* has one.
THEOREM PreferredAlways == Spec => []Preferred
<1>1. IInv => Preferred
  BY DEF IInv
<1>. QED
  BY <1>1, Inductive, PTL

\* Where no image is corrupt, every pass begins with all mount points and loop
\* devices free.
THEOREM CleanRetryAlways == Spec => []CleanRetry
<1>1. ASSUME IInv PROVE CleanRetry
  <2>1. SUFFICES ASSUME pc = "sleep", NoCorrupt
                 PROVE  boot = <<>> /\ isoscan = <<>> /\ loop0 = NoFS /\ loop1 = NoFS
    BY DEF CleanRetry
  <2>2. loop0 = NoFS
    BY <1>1, <2>1 DEF IInv, Stuck, Searching
  <2>. QED
    BY <1>1, <2>1, <2>2 DEF IInv, Clean, Searching
<1>. QED
  BY <1>1, Inductive, PTL

-----------------------------------------------------------------------------
(***************************************************************************)
(* The build's two passes over the files, and the staging.  Split and      *)
(* Counted are recursive functions; that they exist, and what they compute *)
(* for an image of any length, is by induction (module NatRecursion).      *)
(***************************************************************************)

LEMMA ImageFacts ==
  ASSUME image \in ImageType
  PROVE  /\ image.files \in Seq(FileType) /\ Len(image.files) \in Nat
         /\ DOMAIN image.files = 1..Len(image.files)
         /\ \A k \in 1..Len(image.files) : image.files[k] \in FileType
         /\ image.busybox \in Nat /\ image.limit \in Nat
  BY DEF ImageType

LEMMA SplitDef ==
  ASSUME image \in ImageType
  PROVE  /\ Split \in [0..Len(image.files) -> Seq(FileType)]
         /\ Split[0] = <<>>
         /\ \A n \in 1..Len(image.files) :
               Split[n] = IF IsShadowed(image.files[n]) THEN Append(Split[n - 1], image.files[n])
                          ELSE Split[n - 1]
<1>. DEFINE N == Len(image.files)
            V == Seq(FileType)
            a == <<>>
            G == [x \in (1..N) \X V |->
                    IF IsShadowed(image.files[x[1]]) THEN Append(x[2], image.files[x[1]]) ELSE x[2]]
<1>1. N \in Nat /\ a \in V /\ \A k \in 1..N : image.files[k] \in FileType
  BY ImageFacts
<1>2. G \in [(1..N) \X V -> V]
  BY <1>1
<1>3. PICK g \in [0..N -> V] : Iterates(g, a, G, N)
  <2>. HIDE DEF N, V, G, a
  <2>. QED
    BY <1>1, <1>2, RecursionUpTo
<1>4. ASSUME NEW k \in 1..N
      PROVE  g[k] = IF IsShadowed(image.files[k]) THEN Append(g[k - 1], image.files[k]) ELSE g[k - 1]
  <2>1. k - 1 \in 0..N
    BY <1>1
  <2>2. <<k, g[k - 1]>> \in (1..N) \X V
    BY <2>1
  <2>. QED
    BY <1>3, <2>2 DEF Iterates
<1>5. g = [n \in 0..N |-> IF n = 0 THEN <<>>
                          ELSE IF IsShadowed(image.files[n]) THEN Append(g[n - 1], image.files[n])
                          ELSE g[n - 1]]
  <2>1. \A n \in 0..N : n = 0 \/ n \in 1..N
    BY <1>1
  <2>2. g[0] = <<>>
    BY <1>3 DEF Iterates
  <2>. QED
    BY <1>4, <2>1, <2>2
<1>6. Split = [n \in 0..N |-> IF n = 0 THEN <<>>
                              ELSE IF IsShadowed(image.files[n]) THEN Append(Split[n - 1], image.files[n])
                              ELSE Split[n - 1]]
  BY <1>5 DEF Split
<1>7. /\ DOMAIN Split = 0..N /\ Split[0] = <<>>
      /\ \A n \in 1..N : Split[n] = IF IsShadowed(image.files[n]) THEN Append(Split[n - 1], image.files[n])
                                    ELSE Split[n - 1]
  <2>1. DOMAIN Split = 0..N
    BY <1>6
  <2>2. \A n \in 0..N : Split[n] = IF n = 0 THEN <<>>
                              ELSE IF IsShadowed(image.files[n]) THEN Append(Split[n - 1], image.files[n])
                              ELSE Split[n - 1]
    BY <1>6, Zenon
  <2>3. 0 \in 0..N /\ \A n \in 1..N : n \in 0..N /\ n # 0
    BY <1>1
  <2>. HIDE DEF N
  <2>. QED
    BY <2>1, <2>2, <2>3
<1>8. \A n \in 0..N : n \in {k \in 0..N : Split[k] \in V}
  <2>. DEFINE S == {k \in 0..N : Split[k] \in V}
  <2>1. 0 \in S
    <3>. HIDE DEF V, N
    <3>. QED
      BY <1>1, <1>7
  <2>2. \A n \in 0..(N - 1) : n \in S => n + 1 \in S
    <3>1. SUFFICES ASSUME NEW n \in 0..(N - 1), n \in S
                   PROVE  n + 1 \in S
      OBVIOUS
    <3>2. n + 1 \in 1..N /\ (n + 1) - 1 = n /\ n + 1 \in 0..N
      BY <1>1
    <3>3. Split[n] \in V /\ image.files[n + 1] \in FileType
      BY <1>1, <3>1, <3>2
    <3>4. Append(Split[n], image.files[n + 1]) \in V
      BY <3>3
    <3>5. Split[n + 1] \in V
      <4>. HIDE DEF V, N
      <4>. QED
        BY <1>7, <3>2, <3>3, <3>4
    <3>. QED
      BY <3>2, <3>5
  <2>. HIDE DEF S
  <2>3. \A n \in 0..N : n \in S
    BY <1>1, <2>1, <2>2, UpToInduction
  <2>. QED
    BY <2>3 DEF S
<1>. QED
  BY <1>6, <1>7, <1>8

\* What splitShadowedFiles keeps: files for executable directories only, and all of them.
LEMMA SplitKeeps ==
  ASSUME image \in ImageType
  PROVE  \A n \in 0..Len(image.files) :
            /\ \A k \in DOMAIN Split[n] : IsShadowed(Split[n][k])
            /\ \A m \in 1..n : IsShadowed(image.files[m]) =>
                  \E k \in DOMAIN Split[n] : Split[n][k] = image.files[m]
<1>. DEFINE N == Len(image.files)
            Keeps(n) == /\ \A k \in DOMAIN Split[n] : IsShadowed(Split[n][k])
                        /\ \A m \in 1..n : IsShadowed(image.files[m]) =>
                              \E k \in DOMAIN Split[n] : Split[n][k] = image.files[m]
            S == {n \in 0..N : Keeps(n)}
<1>1. N \in Nat
  BY ImageFacts
<1>2. 0 \in S
  <2>1. Split[0] = <<>>
    BY SplitDef
  <2>2. Keeps(0)
    BY <2>1
  <2>. QED
    BY <1>1, <2>2
<1>3. \A n \in 0..(N - 1) : n \in S => n + 1 \in S
  <2>1. SUFFICES ASSUME NEW n \in 0..(N - 1), n \in S
                 PROVE  n + 1 \in S
    OBVIOUS
  <2>2. n + 1 \in 1..N /\ (n + 1) - 1 = n /\ n + 1 \in 0..N /\ n \in 0..N /\ n \in Nat
    BY <1>1
  <2>. DEFINE s == Split[n]
              f == image.files[n + 1]
              t == Split[n + 1]
  <2>3. s \in Seq(FileType) /\ f \in FileType /\ Keeps(n)
    BY <2>1, <2>2, SplitDef, ImageFacts
  <2>4. t = IF IsShadowed(f) THEN Append(s, f) ELSE s
    BY <2>2, SplitDef
  <2>5. CASE ~IsShadowed(f)
    <3>1. t = s
      BY <2>4, <2>5
    <3>2. ASSUME NEW m \in 1..(n + 1), IsShadowed(image.files[m])
          PROVE  \E k \in DOMAIN t : t[k] = image.files[m]
      <4>1. m # n + 1
        BY <2>5, <3>2
      <4>2. m \in 1..n
        BY <2>2, <4>1
      <4>. QED
        BY <2>3, <3>1, <3>2, <4>2
    <3>3. \A k \in DOMAIN t : IsShadowed(t[k])
      BY <2>3, <3>1
    <3>. QED
      BY <2>2, <3>2, <3>3
  <2>6. CASE IsShadowed(f)
    <3>. HIDE DEF s, f, t
    <3>1. /\ t = Append(s, f) /\ DOMAIN t = 1..(Len(s) + 1) /\ DOMAIN s = 1..Len(s)
          /\ Len(s) \in Nat /\ t[Len(s) + 1] = f
          /\ \A k \in DOMAIN s : k \in DOMAIN t /\ t[k] = s[k]
      BY <2>3, <2>4, <2>6
    <3>2. ASSUME NEW m \in 1..(n + 1), IsShadowed(image.files[m])
          PROVE  \E k \in DOMAIN t : t[k] = image.files[m]
      <4>1. CASE m = n + 1
        BY <3>1, <4>1 DEF f
      <4>2. CASE m # n + 1
        <5>1. m \in 1..n
          BY <2>2, <4>2
        <5>2. PICK k \in DOMAIN s : s[k] = image.files[m]
          BY <2>3, <3>2, <5>1 DEF s
        <5>. QED
          BY <3>1, <5>2
      <4>. QED
        BY <4>1, <4>2
    <3>3. ASSUME NEW k \in DOMAIN t
          PROVE  IsShadowed(t[k])
      <4>1. CASE k = Len(s) + 1
        BY <2>6, <3>1, <4>1
      <4>2. CASE k # Len(s) + 1
        <5>1. k \in DOMAIN s
          BY <3>1, <3>3, <4>2
        <5>2. IsShadowed(s[k])
          BY <2>3, <5>1 DEF s
        <5>. QED
          BY <3>1, <5>1, <5>2
      <4>. QED
        BY <4>1, <4>2
    <3>. QED
      BY <2>2, <3>2, <3>3 DEF t
  <2>. QED
    BY <2>5, <2>6
<1>. HIDE DEF S
<1>4. \A n \in 0..N : n \in S
  BY <1>1, <1>2, <1>3, UpToInduction
<1>. QED
  BY <1>4 DEF S

LEMMA ShadowedFacts ==
  ASSUME image \in ImageType
  PROVE  /\ Shadowed \in Seq(FileType) /\ Len(Shadowed) \in Nat \ {0}
         /\ DOMAIN Shadowed = 1..Len(Shadowed)
         /\ \A k \in 1..Len(Shadowed) : Shadowed[k] \in FileType /\ Shadowed[k].dir \in ExecDirs
                                        /\ Shadowed[k].size \in Nat
         /\ Shadowed[Len(Shadowed)] = PowerScript
         /\ \A f \in Devs(image.files) : f.dir \in ExecDirs => f \in Devs(Shadowed)
<1>. DEFINE N == Len(image.files)
            s == Split[N]
<1>1. /\ N \in 0..N /\ s \in Seq(FileType)
      /\ \A k \in DOMAIN s : IsShadowed(s[k])
      /\ \A m \in 1..N : IsShadowed(image.files[m]) => \E k \in DOMAIN s : s[k] = image.files[m]
  <2>1. N \in 0..N
    BY ImageFacts
  <2>. HIDE DEF N
  <2>. QED
    BY <2>1, SplitKeeps, SplitDef DEF N
<1>2. PowerScript \in FileType /\ PowerScript.dir \in ExecDirs /\ PowerScript.size \in Nat
  BY DEF PowerScript, FileType, ExecDirs
<1>. HIDE DEF s
<1>3. Shadowed = Append(s, PowerScript)
  BY DEF Shadowed, s
<1>4. /\ Shadowed \in Seq(FileType) /\ Len(Shadowed) = Len(s) + 1 /\ Len(s) \in Nat
      /\ DOMAIN Shadowed = 1..Len(Shadowed) /\ Shadowed[Len(s) + 1] = PowerScript
      /\ DOMAIN s = 1..Len(s)
      /\ \A k \in DOMAIN s : k \in DOMAIN Shadowed /\ Shadowed[k] = s[k]
  BY <1>1, <1>2, <1>3
<1>5. ASSUME NEW k \in 1..Len(Shadowed)
      PROVE  Shadowed[k] \in FileType /\ Shadowed[k].dir \in ExecDirs /\ Shadowed[k].size \in Nat
  <2>1. Shadowed[k] \in FileType
    BY <1>4
  <2>2. CASE k = Len(s) + 1
    BY <1>2, <1>4, <2>2
  <2>3. CASE k # Len(s) + 1
    <3>1. k \in DOMAIN s
      BY <1>4, <2>3
    <3>2. IsShadowed(Shadowed[k])
      BY <1>1, <1>4, <3>1
    <3>. QED
      BY <2>1, <3>2 DEF IsShadowed, FileType
  <2>. QED
    BY <2>2, <2>3
<1>6. ASSUME NEW f \in Devs(image.files), f.dir \in ExecDirs
      PROVE  f \in Devs(Shadowed)
  <2>1. PICK m \in 1..N : f = image.files[m]
    BY ImageFacts DEF Devs
  <2>2. PICK k \in DOMAIN s : s[k] = f
    BY <1>1, <1>6, <2>1 DEF IsShadowed
  <2>. QED
    BY <1>4, <2>2 DEF Devs
<1>. QED
  BY <1>4, <1>5, <1>6

CountZero == [d \in ExecDirs |-> IF d = "bin" THEN image.busybox ELSE 0]

LEMMA CountedDef ==
  ASSUME image \in ImageType
  PROVE  /\ Counted[0] = CountZero
         /\ \A n \in 0..Len(Shadowed) : Counted[n] \in [ExecDirs -> Nat]
         /\ \A n \in 1..Len(Shadowed) :
               Counted[n] = [Counted[n - 1] EXCEPT ![Shadowed[n].dir] = @ + Shadowed[n].size]
<1>. DEFINE N == Len(Shadowed)
            V == [ExecDirs -> Nat]
            a == CountZero
            G == [x \in (1..N) \X V |->
                    [x[2] EXCEPT ![Shadowed[x[1]].dir] = @ + Shadowed[x[1]].size]]
<1>1. N \in Nat /\ a \in V
      /\ \A k \in 1..N : Shadowed[k].dir \in ExecDirs /\ Shadowed[k].size \in Nat
  BY ShadowedFacts, ImageFacts DEF CountZero
<1>2. G \in [(1..N) \X V -> V]
  <2>1. ASSUME NEW x \in (1..N) \X V
        PROVE  [x[2] EXCEPT ![Shadowed[x[1]].dir] = @ + Shadowed[x[1]].size] \in V
    <3>1. x[1] \in 1..N /\ x[2] \in V
      OBVIOUS
    <3>. QED
      BY <1>1, <3>1
  <2>. QED
    BY <2>1
<1>3. PICK g \in [0..N -> V] : Iterates(g, a, G, N)
  <2>. HIDE DEF N, V, G, a
  <2>. QED
    BY <1>1, <1>2, RecursionUpTo
<1>4. ASSUME NEW k \in 1..N
      PROVE  g[k] = [g[k - 1] EXCEPT ![Shadowed[k].dir] = @ + Shadowed[k].size]
  <2>1. k - 1 \in 0..N
    BY <1>1
  <2>2. <<k, g[k - 1]>> \in (1..N) \X V
    BY <2>1
  <2>. QED
    BY <1>3, <2>2 DEF Iterates
<1>5. g = [n \in 0..N |->
             IF n = 0 THEN [d \in ExecDirs |-> IF d = "bin" THEN image.busybox ELSE 0]
             ELSE [g[n - 1] EXCEPT ![Shadowed[n].dir] = @ + Shadowed[n].size]]
  <2>1. \A n \in 0..N : n = 0 \/ n \in 1..N
    BY <1>1
  <2>2. g[0] = [d \in ExecDirs |-> IF d = "bin" THEN image.busybox ELSE 0]
    BY <1>3 DEF Iterates, CountZero
  <2>. QED
    BY <1>4, <2>1, <2>2
<1>6. Counted = [n \in 0..N |->
             IF n = 0 THEN [d \in ExecDirs |-> IF d = "bin" THEN image.busybox ELSE 0]
             ELSE [Counted[n - 1] EXCEPT ![Shadowed[n].dir] = @ + Shadowed[n].size]]
  BY <1>5 DEF Counted
<1>7. /\ Counted[0] = CountZero
      /\ \A n \in 1..N : Counted[n] = [Counted[n - 1] EXCEPT ![Shadowed[n].dir] = @ + Shadowed[n].size]
  <2>1. \A n \in 0..N : Counted[n] =
             IF n = 0 THEN [d \in ExecDirs |-> IF d = "bin" THEN image.busybox ELSE 0]
             ELSE [Counted[n - 1] EXCEPT ![Shadowed[n].dir] = @ + Shadowed[n].size]
    BY <1>6, Zenon
  <2>2. 0 \in 0..N /\ \A n \in 1..N : n \in 0..N /\ n # 0
    BY <1>1
  <2>. HIDE DEF N
  <2>. QED
    BY <2>1, <2>2, Zenon DEF CountZero
<1>8. \A n \in 0..N : n \in {k \in 0..N : Counted[k] \in V}
  <2>. DEFINE S == {k \in 0..N : Counted[k] \in V}
  <2>1. 0 \in S
    <3>. HIDE DEF V, N
    <3>. QED
      BY <1>1, <1>7
  <2>2. \A n \in 0..(N - 1) : n \in S => n + 1 \in S
    <3>1. SUFFICES ASSUME NEW n \in 0..(N - 1), n \in S
                   PROVE  n + 1 \in S
      OBVIOUS
    <3>2. n + 1 \in 1..N /\ (n + 1) - 1 = n /\ n + 1 \in 0..N
      BY <1>1
    <3>3. Counted[n] \in V /\ Shadowed[n + 1].dir \in ExecDirs /\ Shadowed[n + 1].size \in Nat
      BY <1>1, <3>1, <3>2
    <3>4. [Counted[n] EXCEPT ![Shadowed[n + 1].dir] = @ + Shadowed[n + 1].size] \in V
      BY <3>3
    <3>5. Counted[n + 1] \in V
      <4>. HIDE DEF V, N
      <4>. QED
        BY <1>7, <3>2, <3>4
    <3>. QED
      BY <3>2, <3>5
  <2>. HIDE DEF S
  <2>3. \A n \in 0..N : n \in S
    BY <1>1, <2>1, <2>2, UpToInduction
  <2>. QED
    BY <2>3 DEF S
<1>. QED
  BY <1>7, <1>8

\* The counts only grow: none is above the total.
LEMMA CountedGrows ==
  ASSUME image \in ImageType, NEW d \in ExecDirs, NEW n \in 0..Len(Shadowed)
  PROVE  Counted[n][d] \in Nat /\ Total(d) \in Nat /\ Counted[n][d] <= Total(d)
<1>. DEFINE N == Len(Shadowed)
            S == {k \in Nat : k <= N - n => Counted[n][d] <= Counted[n + k][d]}
<1>1. N \in Nat /\ n \in Nat /\ n <= N /\ \A k \in 0..N : Counted[k] \in [ExecDirs -> Nat]
  BY ShadowedFacts, CountedDef
<1>2. 0 \in S
  BY <1>1
<1>3. \A k \in S \cap Nat : k + 1 \in S
  <2>1. SUFFICES ASSUME NEW k \in S, k + 1 <= N - n
                 PROVE  Counted[n][d] <= Counted[n + (k + 1)][d]
    OBVIOUS
  <2>. DEFINE m == n + (k + 1)
  <2>2. k \in Nat /\ k <= N - n /\ m \in 1..N /\ m - 1 = n + k /\ m - 1 \in 0..N
    BY <1>1, <2>1
  <2>3. Counted[n][d] <= Counted[m - 1][d]
    BY <2>2
  <2>. HIDE DEF m, N
  <2>4. /\ Counted[m] = [Counted[m - 1] EXCEPT ![Shadowed[m].dir] = @ + Shadowed[m].size]
        /\ Shadowed[m].size \in Nat
    BY <2>2, CountedDef, ShadowedFacts DEF N
  <2>5. Counted[m - 1][d] <= Counted[m][d] /\ Counted[m][d] \in Nat /\ Counted[m - 1][d] \in Nat
    <3>1. Counted[m - 1] \in [ExecDirs -> Nat]
      BY <1>1, <2>2
    <3>. DEFINE c == Counted[m - 1]
    <3>. HIDE DEF c
    <3>2. Counted[m][d] = IF d = Shadowed[m].dir THEN c[d] + Shadowed[m].size ELSE c[d]
      BY <2>4, <3>1 DEF c
    <3>. QED
      BY <2>4, <3>1, <3>2 DEF c
  <2>6. Counted[n][d] <= Counted[m][d] /\ n \in 0..N
    BY <1>1, <2>3, <2>5
  <2>. QED
    BY <2>6 DEF m
<1>. HIDE DEF S
<1>4. \A k \in Nat : k \in S
  BY <1>2, <1>3, NatSetInduction
<1>5. N - n \in Nat /\ n + (N - n) = N /\ N - n <= N - n
  BY <1>1
<1>6. Counted[n][d] <= Counted[N][d]
  BY <1>4, <1>5 DEF S
<1>. QED
  BY <1>1, <1>6 DEF Total

\* A file takes the pages that hold it, and less than one more.
LEMMA PagesFacts ==
  ASSUME NEW n \in Nat
  PROVE  Pages(n) \in Nat /\ n <= Page * Pages(n) /\ Page * Pages(n) <= n + Page - 1
<1>1. Page \in Nat /\ Page > 0
  BY NumbersAssumption
<1>. DEFINE m == n + Page - 1
<1>2. m \in Nat
  BY <1>1
<1>3. m \div Page \in Nat /\ m = Page * (m \div Page) + (m % Page) /\ m % Page \in 0..(Page - 1)
  BY <1>1, <1>2
<1>. QED
  BY <1>1, <1>3 DEF Pages

-----------------------------------------------------------------------------
\* What has been staged, and which directories it went to.
Staged ==
    /\ image \in ImageType
    /\ pc \in {"install", "verify", "shadow", "switched"} => busybox
    /\ pc \in {"verify", "shadow", "switched"} => links = tmpfs
    /\ pc \in {"shadow", "switched"} => "bin" \in links
    /\ pc \in {"busybox", "install", "verify"} => i = 1
    /\ pc \in {"build", "tmpfs", "busybox", "install", "verify"} \cup Searching => staged = {}
    /\ pc \in {"shadow", "switched"} =>
          /\ staged = 1..(i - 1) /\ i <= Len(Shadowed) + 1
          /\ \A k \in staged : Shadowed[k].dir \in tmpfs
    /\ pc = "switched" => i = Len(Shadowed) + 1

\* The space it took: what the build counted for the files so far, and at most a page for each.
Taken(n) == \A d \in ExecDirs : Page * used[d] <= Counted[n][d] + Page * Cardinality(In(d, n))

Spent ==
    /\ used \in [ExecDirs -> Nat]
    /\ pc \notin {"build", "refused"} => Fits
    /\ pc \in {"build", "tmpfs", "busybox"} \cup Searching => used = [d \in ExecDirs |-> 0]
    /\ pc \in {"install", "verify"} => Taken(0)
    /\ pc = "shadow" => Taken(i - 1)

SInv == Staged /\ Spent /\ RoomAtBoot

LEMMA ImageStays == [Next]_vars => image' = image
  BY DEF Next, Script, Done, Plug, vars, fixedVars, scanVars, stageVars, Build, Whole, WholeEnd, Boot,
     Part, PartsEnd, Volume, VolumesEnd, Iso, IsoBody, IsosEnd, Sleep, Tmpfs, CopyBusybox, Install,
     Verify, Shadow, SwitchRoot

LEMMA SameImage ==
  ASSUME image' = image
  PROVE  /\ Shadowed' = Shadowed /\ Counted' = Counted
         /\ \A d \in ExecDirs : \A n : (In(d, n))' = In(d, n)
         /\ Fits' = Fits
<1>1. Split' = Split
  BY DEF Split
<1>2. Shadowed' = Shadowed
  BY <1>1 DEF Shadowed
<1>3. Counted' = Counted
  BY <1>2 DEF Counted
<1>. QED
  BY <1>2, <1>3 DEF In, Fits, Total

\* The search, and the disks that appear, leave the staging alone.
LEMMA SearchingLeaves ==
  ASSUME \/ Whole \/ WholeEnd \/ Boot \/ Part \/ PartsEnd \/ Volume \/ VolumesEnd \/ Iso \/ IsosEnd
         \/ Sleep \/ \E d \in AllDevs : Plug(d)
  PROVE  /\ UNCHANGED stageVars /\ pc \in Searching
         /\ pc' \in Searching \cup {"tmpfs"} \/ (pc' = "fatal" /\ root' = root)
  BY DEF Plug, scanVars, Whole, WholeEnd, Boot, Part, PartsEnd, Volume, VolumesEnd, Iso, IsoBody,
     IsosEnd, Sleep, Searching

LEMMA StagedStep ==
  ASSUME Base, Staged, [Next]_vars
  PROVE  Staged'
<1>0. image' = image /\ Shadowed' = Shadowed /\ i \in Nat \ {0}
  BY ImageStays, SameImage DEF Base
<1>1. image \in ImageType /\ Len(Shadowed) \in Nat \ {0} /\ DOMAIN Shadowed = 1..Len(Shadowed)
  BY ShadowedFacts DEF Staged
<1>. USE <1>0, <1>1
<1>2. CASE Build
  BY <1>2 DEF Build, Staged, stageVars, Searching
<1>3. CASE \/ Whole \/ WholeEnd \/ Boot \/ Part \/ PartsEnd \/ Volume \/ VolumesEnd \/ Iso \/ IsosEnd
           \/ Sleep \/ \E d \in AllDevs : Plug(d)
  BY <1>3, SearchingLeaves DEF Staged, stageVars, Searching
<1>4. CASE Tmpfs
  BY <1>4 DEF Tmpfs, Staged, Searching
<1>5. CASE CopyBusybox
  BY <1>5 DEF CopyBusybox, Staged, Searching
<1>6. CASE Install
  BY <1>6 DEF Install, Staged, Searching
<1>7. CASE Verify
  BY <1>7 DEF Verify, Staged, Searching, stageVars
<1>8. CASE Shadow
  <2>1. CASE pc' = "fatal"
    BY <1>8, <2>1 DEF Shadow, Staged, Searching
  <2>2. CASE pc' # "fatal"
    <3>1. /\ pc = "shadow" /\ pc' = "shadow" /\ i \in 1..Len(Shadowed) /\ i' = i + 1
          /\ staged' = staged \cup {i} /\ Shadowed[i].dir \in tmpfs
          /\ UNCHANGED <<tmpfs, busybox, links>>
      BY <1>8, <2>2 DEF Shadow, Room
    <3>2. staged = 1..(i - 1) /\ \A k \in staged : Shadowed[k].dir \in tmpfs
      BY <3>1 DEF Staged
    <3>3. staged' = 1..(i' - 1) /\ i' <= Len(Shadowed) + 1
      BY <3>1, <3>2
    <3>4. (\A k \in staged : Shadowed[k].dir \in tmpfs)'
      BY <3>1, <3>2
    <3>. QED
      BY <3>1, <3>3, <3>4 DEF Staged, Searching
  <2>. QED
    BY <2>1, <2>2
<1>9. CASE SwitchRoot
  <2>1. pc = "shadow" /\ pc' = "switched" /\ i \notin 1..Len(Shadowed) /\ i' = i /\ UNCHANGED stageVars
    BY <1>9 DEF SwitchRoot
  <2>2. i = Len(Shadowed) + 1
    BY <2>1 DEF Staged
  <2>. QED
    BY <2>1, <2>2 DEF Staged, stageVars, Searching
<1>10. CASE UNCHANGED vars
  BY <1>10 DEF vars, stageVars, Staged
<1>. QED
  BY <1>2, <1>3, <1>4, <1>5, <1>6, <1>7, <1>8, <1>9, <1>10 DEF Next, Script, Done

\* One file more in a directory is one more to round up.
LEMMA InGrows ==
  ASSUME NEW d, NEW n \in Nat
  PROVE  /\ IsFiniteSet(In(d, n)) /\ Cardinality(In(d, n)) \in Nat
         /\ Cardinality(In(d, 0)) = 1
         /\ Shadowed[n + 1].dir = d => Cardinality(In(d, n + 1)) = Cardinality(In(d, n)) + 1
         /\ Shadowed[n + 1].dir # d => In(d, n + 1) = In(d, n)
         /\ \A m \in Nat : n <= m => Cardinality(In(d, n)) <= Cardinality(In(d, m))
<1>1. \A m \in Nat : IsFiniteSet(In(d, m)) /\ Cardinality(In(d, m)) \in Nat
  <2>1. SUFFICES ASSUME NEW m \in Nat
                 PROVE  IsFiniteSet(In(d, m)) /\ Cardinality(In(d, m)) \in Nat
    OBVIOUS
  <2>2. IsFiniteSet(0..m)
    BY FS_Interval
  <2>3. In(d, m) \subseteq 0..m
    BY DEF In
  <2>4. IsFiniteSet(In(d, m))
    BY <2>2, <2>3, FS_Subset
  <2>. QED
    BY <2>4, FS_CardinalityType
<1>2. Cardinality(In(d, 0)) = 1
  <2>1. In(d, 0) = {0}
    BY DEF In
  <2>. QED
    BY <2>1, FS_Singleton
<1>3. ASSUME Shadowed[n + 1].dir = d
      PROVE  Cardinality(In(d, n + 1)) = Cardinality(In(d, n)) + 1
  <2>1. In(d, n + 1) = In(d, n) \cup {n + 1} /\ n + 1 \notin In(d, n)
    BY <1>3 DEF In
  <2>. QED
    BY <1>1, <2>1, FS_AddElement
<1>4. ASSUME Shadowed[n + 1].dir # d
      PROVE  In(d, n + 1) = In(d, n)
  <2>1. \A k \in 1..(n + 1) : k \in 1..n \/ k = n + 1
    OBVIOUS
  <2>. QED
    BY <1>4, <2>1 DEF In
<1>5. ASSUME NEW m \in Nat, n <= m
      PROVE  Cardinality(In(d, n)) <= Cardinality(In(d, m))
  <2>1. In(d, n) \subseteq In(d, m)
    BY <1>5 DEF In
  <2>. QED
    BY <1>1, <2>1, FS_Subset
<1>. QED
  BY <1>1, <1>2, <1>3, <1>4, <1>5

LEMMA SpentStep ==
  ASSUME Base, Staged, Spent, [Next]_vars
  PROVE  Spent'
<1>0. image' = image /\ Shadowed' = Shadowed /\ Counted' = Counted /\ Fits' = Fits /\ i \in Nat \ {0}
  BY ImageStays, SameImage DEF Base
<1>1. /\ image \in ImageType /\ Len(Shadowed) \in Nat \ {0} /\ DOMAIN Shadowed = 1..Len(Shadowed)
      /\ image.busybox \in Nat /\ image.limit \in Nat /\ Page \in Nat \ {0}
  BY ShadowedFacts, ImageFacts, NumbersAssumption DEF Staged
<1>2. ASSUME NEW n, Taken(n), used' = used
      PROVE  Taken(n)'
  BY <1>0, <1>2, SameImage DEF Taken
<1>3. CASE Build
  BY <1>0, <1>3 DEF Build, Spent, stageVars, Searching
<1>4. CASE \/ Whole \/ WholeEnd \/ Boot \/ Part \/ PartsEnd \/ Volume \/ VolumesEnd \/ Iso \/ IsosEnd
           \/ Sleep \/ \E d \in AllDevs : Plug(d)
  BY <1>0, <1>4, SearchingLeaves DEF Spent, stageVars, Searching
<1>5. CASE Tmpfs
  BY <1>0, <1>5 DEF Tmpfs, Spent, Searching
<1>6. CASE CopyBusybox
  <2>1. CASE pc' = "fatal"
    BY <1>0, <1>6, <2>1 DEF CopyBusybox, Spent, Searching
  <2>2. CASE pc' # "fatal"
    <3>1. /\ pc = "busybox" /\ pc' = "install" /\ used = [d \in ExecDirs |-> 0]
          /\ used' = [used EXCEPT !["bin"] = @ + Pages(image.busybox)]
      BY <1>6, <2>2 DEF CopyBusybox, Spent
    <3>2. ASSUME NEW d \in ExecDirs
          PROVE  Page * used'[d] <= Counted[0][d] + Page * Cardinality(In(d, 0))
      <4>1. Cardinality(In(d, 0)) = 1
        BY InGrows
      <4>2. Counted[0][d] = IF d = "bin" THEN image.busybox ELSE 0
        BY <1>1, CountedDef DEF CountZero
      <4>3. Pages(image.busybox) \in Nat /\ Page * Pages(image.busybox) <= image.busybox + Page - 1
        BY <1>1, PagesFacts
      <4>4. used'[d] = IF d = "bin" THEN Pages(image.busybox) ELSE 0
        BY <3>1, <4>3
      <4>. QED
        BY <1>1, <4>1, <4>2, <4>3, <4>4
    <3>3. Taken(0)'
      BY <1>0, <3>2, SameImage DEF Taken
    <3>4. used' \in [ExecDirs -> Nat]
      <4>1. used \in [ExecDirs -> Nat] /\ Pages(image.busybox) \in Nat
        BY <1>1, PagesFacts DEF Spent
      <4>2. used' = [used EXCEPT !["bin"] = used["bin"] + Pages(image.busybox)] /\ "bin" \in ExecDirs
        BY <3>1 DEF ExecDirs
      <4>3. used["bin"] + Pages(image.busybox) \in Nat
        BY <4>1, <4>2
      <4>. QED
        BY <4>1, <4>2, <4>3
    <3>. QED
      BY <1>0, <3>1, <3>3, <3>4 DEF Spent, Searching
  <2>. QED
    BY <2>1, <2>2
<1>7. CASE Install
  BY <1>0, <1>2, <1>7 DEF Install, Spent, Searching
<1>8. CASE Verify
  <2>1. pc = "verify" /\ i = 1 /\ i' = 1 /\ used' = used /\ pc' \in {"shadow", "fatal"} /\ i' - 1 = 0
    BY <1>8 DEF Verify, stageVars, Staged
  <2>2. Taken(0)'
    BY <1>2, <2>1 DEF Spent
  <2>. QED
    BY <1>0, <2>1, <2>2 DEF Spent, Searching, Taken
<1>9. CASE Shadow
  <2>1. CASE pc' = "fatal"
    BY <1>0, <1>9, <2>1 DEF Shadow, Spent, Searching
  <2>2. CASE pc' # "fatal"
    <3>. DEFINE f == Shadowed[i]
    <3>1. /\ pc = "shadow" /\ pc' = "shadow" /\ i \in 1..Len(Shadowed) /\ i' = i + 1
          /\ used' = [used EXCEPT ![f.dir] = @ + Pages(f.size)]
      BY <1>1, <1>9, <2>2 DEF Shadow
    <3>2. f.dir \in ExecDirs /\ f.size \in Nat /\ Pages(f.size) \in Nat
          /\ Page * Pages(f.size) <= f.size + Page - 1
      BY <1>1, <3>1, ShadowedFacts, PagesFacts
    <3>3. Counted[i] = [Counted[i - 1] EXCEPT ![f.dir] = @ + f.size]
          /\ Counted[i - 1] \in [ExecDirs -> Nat]
      <4>1. i - 1 \in 0..Len(Shadowed)
        BY <1>1, <3>1
      <4>2. Counted[i - 1] \in [ExecDirs -> Nat]
        BY <1>1, <4>1, CountedDef
      <4>3. Counted[i] = [Counted[i - 1] EXCEPT ![Shadowed[i].dir] = @ + Shadowed[i].size]
        BY <1>1, <3>1, CountedDef
      <4>. QED
        BY <4>2, <4>3
    <3>4. used \in [ExecDirs -> Nat] /\ Taken(i - 1)
      BY <3>1 DEF Spent
    <3>. HIDE DEF f
    <3>5. ASSUME NEW d \in ExecDirs
          PROVE  Page * used'[d] <= Counted[i][d] + Page * Cardinality(In(d, i))
      <4>. DEFINE u == used[d]
                  c == Counted[i - 1][d]
                  n == Cardinality(In(d, i - 1))
      <4>1. u \in Nat /\ c \in Nat /\ n \in Nat /\ Page * u <= c + Page * n
        <5>1. i - 1 \in Nat
          BY <3>1
        <5>. QED
          BY <3>3, <3>4, <5>1, InGrows DEF Taken
      <4>2. i - 1 \in Nat /\ (i - 1) + 1 = i
        BY <3>1
      <4>3. CASE d = f.dir
        <5>1. used'[d] = u + Pages(f.size)
          BY <3>1, <3>2, <3>4, <4>3
        <5>2. Counted[i][d] = c + f.size
          BY <3>2, <3>3, <4>3
        <5>3. Cardinality(In(d, i)) = n + 1
          BY <4>2, <4>3, InGrows DEF f
        <5>. HIDE DEF u, c, n
        <5>4. Page * (u + Pages(f.size)) = Page * u + Page * Pages(f.size)
          BY <1>1, <3>2, <4>1
        <5>5. Page * (n + 1) = Page * n + Page
          BY <1>1, <4>1
        <5>. DEFINE U == Page * u
                    M == Page * n
                    F == Page * Pages(f.size)
        <5>6. U \in Nat /\ M \in Nat /\ F \in Nat
          BY <1>1, <3>2, <4>1
        <5>7. U <= c + M /\ F <= f.size + Page - 1
          BY <3>2, <4>1
        <5>8. Page * used'[d] = U + F /\ Page * Cardinality(In(d, i)) = M + Page
          BY <5>1, <5>3, <5>4, <5>5
        <5>9. c \in Nat /\ f.size \in Nat /\ Page \in Nat
          BY <1>1, <3>2, <4>1
        <5>. DEFINE z == f.size
        <5>. HIDE DEF U, M, F, z
        <5>10. U + F <= (c + z) + (M + Page)
          BY <5>6, <5>7, <5>9 DEF z
        <5>. QED
          BY <5>2, <5>8, <5>10 DEF z
      <4>4. CASE d # f.dir
        <5>1. used'[d] = u
          BY <3>1, <3>2, <3>4, <4>4
        <5>2. Counted[i][d] = c
          BY <3>2, <3>3, <4>4
        <5>3. In(d, i) = In(d, i - 1)
          BY <4>2, <4>4, InGrows DEF f
        <5>. QED
          BY <4>1, <5>1, <5>2, <5>3
      <4>. QED
        BY <4>3, <4>4
    <3>6. i' - 1 = i
      BY <3>1
    <3>7. Taken(i - 1)'
      BY <1>0, <3>5, <3>6, SameImage DEF Taken
    <3>8. used' \in [ExecDirs -> Nat]
      BY <3>1, <3>2, <3>4
    <3>. QED
      BY <1>0, <3>1, <3>7, <3>8 DEF Spent, Searching
  <2>. QED
    BY <2>1, <2>2
<1>10. CASE SwitchRoot
  BY <1>0, <1>10 DEF SwitchRoot, Spent, stageVars, Searching
<1>11. CASE UNCHANGED vars
  <2>1. used' = used /\ pc' = pc /\ i' = i
    BY <1>11 DEF vars, stageVars
  <2>. QED
    BY <1>0, <1>2, <2>1 DEF Spent, Searching
<1>. QED
  BY <1>3, <1>4, <1>5, <1>6, <1>7, <1>8, <1>9, <1>10, <1>11 DEF Next, Script, Done

LEMMA RoomStep ==
  ASSUME Base, Staged, Spent, RoomAtBoot, [Next]_vars
  PROVE  RoomAtBoot'
<1>0. image' = image /\ Shadowed' = Shadowed /\ Counted' = Counted /\ i \in Nat \ {0}
  BY ImageStays, SameImage DEF Base
<1>1. /\ image \in ImageType /\ Len(Shadowed) \in Nat \ {0} /\ DOMAIN Shadowed = 1..Len(Shadowed)
      /\ image.busybox \in Nat /\ image.limit \in Nat /\ Page \in Nat \ {0}
  BY ShadowedFacts, ImageFacts, NumbersAssumption DEF Staged
<1>. DEFINE Short(d) == image.limit \in Total(d)..(Total(d) + Slack(d) - 1)
<1>2. \A d \in ExecDirs : Short(d)' = Short(d)
  BY <1>0, SameImage DEF Total, Slack
<1>3. ASSUME pc' # "fatal"
      PROVE  RoomAtBoot'
  BY <1>3 DEF RoomAtBoot
<1>4. ASSUME tmpfs' # ExecDirs \/ \E k \in DOMAIN Shadowed : Shadowed[k].nested
      PROVE  RoomAtBoot'
  BY <1>0, <1>4 DEF RoomAtBoot
<1>5. ASSUME NEW d \in ExecDirs, Short(d)
      PROVE  RoomAtBoot'
  <2>1. Short(d)'
    BY <1>2, <1>5
  <2>. HIDE DEF Short
  <2>2. \E e \in ExecDirs : Short(e)'
    BY <2>1
  <2>. QED
    BY <2>2 DEF RoomAtBoot, Short
<1>6. CASE \/ Whole \/ WholeEnd \/ Boot \/ Part \/ PartsEnd \/ Volume \/ VolumesEnd \/ Iso \/ IsosEnd
           \/ Sleep \/ \E d \in AllDevs : Plug(d)
  <2>1. pc \in Searching /\ (pc' \in Searching \cup {"tmpfs"} \/ (pc' = "fatal" /\ root' = root))
    BY <1>6, SearchingLeaves
  <2>. QED
    BY <2>1, <1>3 DEF Base, Searching, RoomAtBoot
<1>7. CASE Build \/ Tmpfs \/ Install \/ SwitchRoot
  <2>1. pc' # "fatal"
    BY <1>7 DEF Build, Tmpfs, Install, SwitchRoot
  <2>. QED
    BY <1>3, <2>1
<1>8. CASE CopyBusybox
  <2>1. SUFFICES ASSUME pc' = "fatal", tmpfs' = ExecDirs
                 PROVE  FALSE
    BY <1>3, <1>4
  <2>2. ~Room("bin", image.busybox) /\ pc = "busybox" /\ tmpfs' = tmpfs
    BY <1>8, <2>1 DEF CopyBusybox
  <2>3. used["bin"] = 0 /\ Fits /\ "bin" \in ExecDirs
    BY <2>2 DEF Spent, ExecDirs
  <2>4. ~(Pages(image.busybox) <= Pages(image.limit))
    <3>1. Pages(image.busybox) \in Nat
      BY <1>1, PagesFacts
    <3>2. ~(used["bin"] + Pages(image.busybox) <= Pages(image.limit))
      BY <2>1, <2>2, <2>3 DEF Room
    <3>. QED
      BY <2>3, <3>1, <3>2
  <2>5. Counted[0]["bin"] = image.busybox /\ Counted[0]["bin"] <= Total("bin") /\ Total("bin") \in Nat
    <3>1. Counted[0]["bin"] = image.busybox
      BY <1>1, <2>3, CountedDef DEF CountZero
    <3>2. 0 \in 0..Len(Shadowed)
      BY <1>1
    <3>. QED
      BY <1>1, <2>3, <3>1, <3>2, CountedGrows
  <2>6. image.busybox <= image.limit
    BY <1>1, <2>3, <2>5 DEF Fits
  <2>. DEFINE p == Pages(image.busybox)
              q == Pages(image.limit)
  <2>7. /\ p \in Nat /\ q \in Nat /\ image.limit <= Page * q
        /\ Page * p <= image.busybox + Page - 1
    BY <1>1, PagesFacts
  <2>8. p >= q + 1
    BY <2>4, <2>7
  <2>. HIDE DEF p, q
  <2>9. Page * p >= Page * (q + 1) /\ Page * (q + 1) = Page * q + Page
    BY <1>1, <2>7, <2>8
  <2>10. Page * p \in Nat /\ Page * q \in Nat
    BY <1>1, <2>7
  <2>. QED
    BY <1>1, <2>6, <2>7, <2>9, <2>10
<1>9. CASE Verify
  <2>1. SUFFICES ASSUME pc' = "fatal", tmpfs' = ExecDirs
                 PROVE  FALSE
    BY <1>3, <1>4
  <2>2. pc = "verify" /\ "bin" \notin links /\ tmpfs' = tmpfs /\ links = tmpfs
    BY <1>9, <2>1 DEF Verify, stageVars, Staged
  <2>. QED
    BY <2>1, <2>2 DEF ExecDirs
<1>10. CASE Shadow
  <2>. DEFINE f == Shadowed[i]
              d == f.dir
  <2>1. SUFFICES ASSUME pc' = "fatal", tmpfs' = ExecDirs, ~f.nested
                 PROVE  Short(d)
    <3>1. pc = "shadow" /\ i \in DOMAIN Shadowed
      BY <1>10 DEF Shadow
    <3>2. d \in ExecDirs
      BY <1>1, <3>1, ShadowedFacts
    <3>. HIDE DEF Short
    <3>. QED
      BY <1>3, <1>4, <1>5, <3>1, <3>2
  <2>2. pc = "shadow" /\ i \in 1..Len(Shadowed) /\ ~Room(d, f.size) /\ tmpfs = ExecDirs
    BY <1>1, <1>10, <2>1 DEF Shadow
  <2>3. d \in ExecDirs /\ f.size \in Nat /\ Fits /\ used \in [ExecDirs -> Nat] /\ Taken(i - 1)
    BY <1>1, <2>2, ShadowedFacts DEF Spent
  <2>4. i - 1 \in Nat /\ (i - 1) + 1 = i /\ i - 1 \in 0..Len(Shadowed) /\ i \in 0..Len(Shadowed)
        /\ i - 1 <= Len(Shadowed)
    BY <1>1, <2>2
  <2>. DEFINE u == used[d]
              c == Counted[i - 1][d]
              n == Cardinality(In(d, i - 1))
              N == Cardinality(In(d, Len(Shadowed)))
              p == Pages(f.size)
              q == Pages(image.limit)
  <2>5. /\ u \in Nat /\ p \in Nat /\ q \in Nat /\ image.limit <= Page * q
        /\ Page * p <= f.size + Page - 1
    BY <1>1, <2>3, PagesFacts
  <2>6. u + p >= q + 1
    BY <2>2, <2>3, <2>5 DEF Room
  <2>7. c \in Nat /\ c + f.size <= Total(d) /\ Total(d) \in Nat
    <3>1. Counted[i] = [Counted[i - 1] EXCEPT ![Shadowed[i].dir] = @ + Shadowed[i].size]
      BY <1>1, <2>2, CountedDef
    <3>2. Counted[i - 1] \in [ExecDirs -> Nat]
      BY <1>1, <2>4, CountedDef
    <3>3. Counted[i][d] = c + f.size
      BY <2>3, <3>1, <3>2
    <3>4. Counted[i][d] <= Total(d) /\ Total(d) \in Nat
      BY <1>1, <2>3, <2>4, CountedGrows
    <3>. QED
      BY <2>3, <3>2, <3>3, <3>4
  <2>8. n \in Nat /\ N \in Nat /\ n <= N
    BY <1>1, <2>4, InGrows
  <2>9. Page * u <= c + Page * n
    BY <2>3 DEF Taken
  <2>10. Total(d) <= image.limit
    BY <2>3 DEF Fits
  <2>11. Slack(d) = Page * N
    BY DEF Slack
  <2>. DEFINE U == Page * u
              P == Page * p
              Q == Page * q
              A == Page * n
              B == Page * N
              T == Total(d)
              z == f.size
  <2>12. U \in Nat /\ P \in Nat /\ Q \in Nat /\ A \in Nat /\ B \in Nat
    <3>. HIDE DEF u, p, q, n, N
    <3>1. \A x \in Nat : Page * x \in Nat
      BY <1>1
    <3>. QED
      BY <2>5, <2>8, <3>1
  <2>13. U + P >= Q + Page
    <3>. HIDE DEF u, p, q
    <3>1. Page * (u + p) >= Page * (q + 1)
      BY <1>1, <2>5, <2>6
    <3>. QED
      BY <1>1, <2>5, <3>1
  <2>14. A <= B
    <3>. HIDE DEF n, N
    <3>. QED
      BY <1>1, <2>8
  <2>15. U <= c + A /\ P <= z + Page - 1 /\ image.limit <= Q /\ c + z <= T /\ T <= image.limit
         /\ c \in Nat /\ z \in Nat /\ T \in Nat
    BY <2>3, <2>5, <2>7, <2>9, <2>10
  <2>16. image.limit \in T..(T + B - 1)
    <3>. HIDE DEF U, P, Q, A, B, T, z, c
    <3>. QED
      BY <1>1, <2>12, <2>13, <2>14, <2>15
  <2>. QED
    BY <2>11, <2>16
<1>11. CASE UNCHANGED vars
  <2>1. pc' = pc /\ root' = root /\ tmpfs' = tmpfs
    BY <1>11 DEF vars, stageVars, scanVars
  <2>2. CASE pc = "fatal" /\ root # NoFS
    <3>. HIDE DEF Short
    <3>1. \/ tmpfs # ExecDirs \/ \E k \in DOMAIN Shadowed : Shadowed[k].nested
          \/ \E d \in ExecDirs : Short(d)
      BY <2>2 DEF RoomAtBoot, Short
    <3>. QED
      BY <1>4, <1>5, <2>1, <3>1
  <2>3. CASE ~(pc = "fatal" /\ root # NoFS)
    BY <2>1, <2>3 DEF RoomAtBoot
  <2>. QED
    BY <2>2, <2>3
<1>. QED
  BY <1>6, <1>7, <1>8, <1>9, <1>10, <1>11 DEF Next, Script, Done

LEMMA InitSInv == Init => SInv
<1>. SUFFICES ASSUME Init PROVE SInv
  OBVIOUS
<1>1. image \in ImageType
  BY BootsAssumption DEF Init
<1>. QED
  BY <1>1 DEF Init, SInv, Staged, Spent, RoomAtBoot, Searching

\* What has been staged, and the space it took.
THEOREM StagingInductive == Spec => []SInv
<1>1. IInv /\ SInv /\ [Next]_vars => SInv'
  BY StagedStep, SpentStep, RoomStep DEF IInv, SInv
<1>. QED
  BY <1>1, Inductive, InitSInv, PTL DEF Spec

\* switch_root runs only with every file of the image in place.
THEOREM DeliveredAlways == Spec => []Delivered
<1>1. ASSUME IInv, SInv PROVE Delivered
  <2>1. SUFFICES ASSUME pc = "switched"
                 PROVE  /\ root # NoFS /\ busybox /\ {"bin", "sbin"} \subseteq links
                        /\ staged = DOMAIN Shadowed
                        /\ \A f \in Devs(image.files) : f.dir \in ExecDirs => f \in Devs(Shadowed)
    BY DEF Delivered
  <2>2. root # NoFS
    BY <1>1, <2>1 DEF IInv, Base, Staging
  <2>3. /\ image \in ImageType /\ busybox /\ links = tmpfs /\ "bin" \in links
        /\ staged = 1..(i - 1) /\ i = Len(Shadowed) + 1
        /\ \A k \in staged : Shadowed[k].dir \in tmpfs
    BY <1>1, <2>1 DEF SInv, Staged
  <2>4. /\ Len(Shadowed) \in Nat \ {0} /\ DOMAIN Shadowed = 1..Len(Shadowed)
        /\ Shadowed[Len(Shadowed)] = PowerScript
        /\ \A f \in Devs(image.files) : f.dir \in ExecDirs => f \in Devs(Shadowed)
    BY <2>3, ShadowedFacts
  <2>5. staged = DOMAIN Shadowed /\ Len(Shadowed) \in staged
    BY <2>3, <2>4
  <2>6. "sbin" \in tmpfs
    BY <2>3, <2>4, <2>5 DEF PowerScript
  <2>. QED
    BY <2>2, <2>3, <2>4, <2>5, <2>6
<1>. QED
  BY <1>1, Inductive, StagingInductive, PTL

\* An image the build accepted runs out of space only by rounding.
THEOREM RoomAlways == Spec => []RoomAtBoot
<1>1. SInv => RoomAtBoot
  BY DEF SInv
<1>. QED
  BY <1>1, StagingInductive, PTL

-----------------------------------------------------------------------------
(***************************************************************************)
(* Why /init ends: the work it has left, as passes, blocks, candidates and *)
(* .iso files, goes down in lexicographic order with every step.           *)
(***************************************************************************)
Below == OpToRel(<, Nat)

\* Passes, then blocks, then candidates of the block's loop, then files of the candidate.
Inner == LexPairOrdering(Below, Below, Nat, Nat)
Outer == LexPairOrdering(Below, Inner, Nat, Nat \X Nat)
Order == LexPairOrdering(Below, Outer, Nat, Nat \X (Nat \X Nat))
Work  == Nat \X (Nat \X (Nat \X Nat))

\* The order has no infinite descent.
LEMMA OrderDescends == IsWellFoundedOn(Order, Work)
<1>1. IsWellFoundedOn(Below, Nat)
  BY NatLessThanWellFounded DEF Below
<1>2. IsWellFoundedOn(Inner, Nat \X Nat)
  BY <1>1, WFLexPairOrdering DEF Inner
<1>3. IsWellFoundedOn(Outer, Nat \X (Nat \X Nat))
  BY <1>1, <1>2, WFLexPairOrdering DEF Outer
<1>. QED
  BY <1>1, <1>3, WFLexPairOrdering DEF Order, Work

\* A number of things left, none when it is past the last.
Left(k) == IF k \in Nat THEN k ELSE 0

Passes == Left(Attempts - attempt)
BlocksLeft ==
    CASE pc = "build" -> 11 [] pc = "whole" -> 10 [] pc = "boot" -> 9 [] pc = "parts" -> 8
      [] pc \in {"volumes", "isos"} -> 7 [] pc = "sleep" -> 6 [] pc = "tmpfs" -> 5
      [] pc = "busybox" -> 4 [] pc = "install" -> 3 [] pc = "verify" -> 2 [] pc = "shadow" -> 1
      [] OTHER -> 0
Candidates ==
    CASE pc = "whole" -> Left(Len(Wholes) + 1 - i) [] pc = "parts" -> Left(Len(Parts) + 1 - i)
      [] pc \in {"volumes", "isos"} -> Left(Len(Volumes) + 1 - i)
      [] pc = "tmpfs" -> Left(5 - i) [] pc = "shadow" -> Left(Len(Shadowed) + 1 - i)
      [] OTHER -> 0
FilesLeft ==
    CASE pc = "volumes" /\ i \in DOMAIN Volumes -> Len(machine.isos[Volumes[i]]) + 1
      [] pc = "isos" -> Left(Len(machine.isos[Volumes[i]]) + 1 - j)
      [] OTHER -> 0

Remaining == <<Passes, <<BlocksLeft, <<Candidates, FilesLeft>>>>>>

\* When a step lowers the work left: in a pass, a block, a candidate or a file.
LEMMA Lower ==
  ASSUME NEW a \in Nat, NEW b \in Nat, NEW c \in Nat, NEW d \in Nat,
         NEW x \in Nat, NEW y \in Nat, NEW z \in Nat, NEW w \in Nat,
         \/ x < a
         \/ x = a /\ y < b
         \/ x = a /\ y = b /\ z < c
         \/ x = a /\ y = b /\ z = c /\ w < d
  PROVE  <<<<x, <<y, <<z, w>>>>>>, <<a, <<b, <<c, d>>>>>>>> \in Order
<1>1. \A m, n \in Nat : m < n => <<m, n>> \in Below
  BY DEF Below, OpToRel
<1>2. z < c \/ (z = c /\ w < d) => <<<<z, w>>, <<c, d>>>> \in Inner
  BY <1>1 DEF Inner, LexPairOrdering
<1>3. y < b \/ (y = b /\ <<<<z, w>>, <<c, d>>>> \in Inner)
         => <<<<y, <<z, w>>>>, <<b, <<c, d>>>>>> \in Outer
  BY <1>1 DEF Outer, LexPairOrdering
<1>4. x < a \/ (x = a /\ <<<<y, <<z, w>>>>, <<b, <<c, d>>>>>> \in Outer)
         => <<<<x, <<y, <<z, w>>>>>>, <<a, <<b, <<c, d>>>>>>>> \in Order
  BY <1>1 DEF Order, LexPairOrdering
<1>. QED
  BY <1>2, <1>3, <1>4

\* The counters the measure needs beside Base.
Counts == attempt \in 1..Attempts /\ (pc = "tmpfs" => i \in 1..4)

LEMMA CountsStep ==
  ASSUME Base, Counts, [Next]_vars
  PROVE  Counts'
<1>. USE NumbersAssumption DEF Counts
<1>1. CASE Tmpfs
  BY <1>1 DEF Tmpfs, ExecDirSeq
<1>2. CASE Sleep
  BY <1>2 DEF Sleep
<1>3. CASE Boot \/ Part \/ Iso
  BY <1>3 DEF Boot, Part, Iso, IsoBody
<1>4. CASE Build \/ Whole \/ WholeEnd \/ PartsEnd \/ Volume \/ VolumesEnd \/ IsosEnd
  BY <1>4 DEF Build, Whole, WholeEnd, PartsEnd, Volume, VolumesEnd, IsosEnd
<1>5. CASE CopyBusybox \/ Install \/ Verify \/ Shadow \/ SwitchRoot
  BY <1>5 DEF CopyBusybox, Install, Verify, Shadow, SwitchRoot
<1>6. CASE (\E d \in AllDevs : Plug(d)) \/ Done \/ UNCHANGED vars
  BY <1>6 DEF Plug, Done, vars
<1>. QED
  BY <1>1, <1>2, <1>3, <1>4, <1>5, <1>6 DEF Next, Script

LEMMA LeftType == \A k : Left(k) \in Nat
  BY DEF Left

LEMMA IsosLength ==
  ASSUME Base, NEW k \in DOMAIN Volumes
  PROVE  /\ Len(machine.isos[Volumes[k]]) \in Nat
         /\ DOMAIN machine.isos[Volumes[k]] = 1..Len(machine.isos[Volumes[k]])
  BY DEF Base, IsMachine, Devs

\* The measure is made of numbers.
Countable == Passes \in Nat /\ BlocksLeft \in Nat /\ Candidates \in Nat /\ FilesLeft \in Nat

LEMMA WorkType ==
  ASSUME Base
  PROVE  Countable
<1>1. Passes \in Nat
  BY LeftType DEF Passes
<1>2. BlocksLeft \in Nat
  BY DEF BlocksLeft
<1>3. Candidates \in Nat
  BY LeftType DEF Candidates
<1>4. FilesLeft \in Nat
  <2>1. CASE pc = "volumes" /\ i \in DOMAIN Volumes
    BY <2>1, IsosLength DEF FilesLeft
  <2>2. CASE ~(pc = "volumes" /\ i \in DOMAIN Volumes)
    BY <2>2, LeftType DEF FilesLeft
  <2>. QED
    BY <2>1, <2>2
<1>. QED
  BY <1>1, <1>2, <1>3, <1>4 DEF Countable

\* What a step has to show.
Falls ==
    \/ Passes' < Passes
    \/ Passes' = Passes /\ BlocksLeft' < BlocksLeft
    \/ Passes' = Passes /\ BlocksLeft' = BlocksLeft /\ Candidates' < Candidates
    \/ /\ Passes' = Passes /\ BlocksLeft' = BlocksLeft /\ Candidates' = Candidates
       /\ FilesLeft' < FilesLeft

LEMMA ScriptFalls ==
  ASSUME Base, Base', Counts, Counts', image \in ImageType, image' = image, machine' = machine,
         Script
  PROVE  Falls
<1>. USE DEF Falls
<1>0. /\ Len(Wholes) \in Nat /\ DOMAIN Wholes = 1..Len(Wholes)
      /\ Len(Parts) \in Nat /\ DOMAIN Parts = 1..Len(Parts)
      /\ Len(Volumes) \in Nat /\ DOMAIN Volumes = 1..Len(Volumes)
      /\ i \in Nat /\ j \in Nat /\ i' \in Nat /\ j' \in Nat
  BY Orders DEF Base
<1>a. attempt' = attempt => Passes' = Passes
  BY DEF Passes
<1>1. CASE Build
  <2>1. attempt' = attempt /\ BlocksLeft = 11 /\ BlocksLeft' \in {0, 10}
    BY <1>1 DEF Build, BlocksLeft
  <2>. QED
    BY <1>a, <2>1
<1>2. CASE Whole
  <2>1. attempt' = attempt /\ BlocksLeft = 10 /\ i \in 1..Len(Wholes)
    BY <1>0, <1>2 DEF Whole, BlocksLeft
  <2>2. CASE pc' = "boot"
    BY <1>a, <2>1, <2>2 DEF BlocksLeft
  <2>3. CASE pc' # "boot"
    <3>1. pc = "whole" /\ pc' = "whole" /\ i' = i + 1
      BY <1>2, <2>3 DEF Whole
    <3>2. BlocksLeft' = 10 /\ Candidates = Len(Wholes) + 1 - i /\ Candidates' = Len(Wholes) - i
      BY <1>0, <2>1, <3>1 DEF BlocksLeft, Candidates, Left
    <3>3. Candidates' < Candidates
      BY <1>0, <2>1, <3>2
    <3>. QED
      BY <1>a, <2>1, <3>2, <3>3
  <2>. QED
    BY <2>2, <2>3
<1>3. CASE WholeEnd
  <2>1. attempt' = attempt /\ BlocksLeft = 10 /\ BlocksLeft' = 9
    BY <1>3 DEF WholeEnd, BlocksLeft
  <2>. QED
    BY <1>a, <2>1
<1>4. CASE Boot
  <2>1. attempt' = attempt /\ BlocksLeft = 9 /\ BlocksLeft' \in {5, 8}
    BY <1>4 DEF Boot, BlocksLeft
  <2>. QED
    BY <1>a, <2>1
<1>5. CASE Part
  <2>1. attempt' = attempt /\ BlocksLeft = 8 /\ i \in 1..Len(Parts)
    BY <1>0, <1>5 DEF Part, BlocksLeft
  <2>2. CASE pc' = "tmpfs"
    BY <1>a, <2>1, <2>2 DEF BlocksLeft
  <2>3. CASE pc' # "tmpfs"
    <3>1. pc = "parts" /\ pc' = "parts" /\ i' = i + 1
      BY <1>5, <2>3 DEF Part
    <3>2. BlocksLeft' = 8 /\ Candidates = Len(Parts) + 1 - i /\ Candidates' = Len(Parts) - i
      BY <1>0, <2>1, <3>1 DEF BlocksLeft, Candidates, Left
    <3>3. Candidates' < Candidates
      BY <1>0, <2>1, <3>2
    <3>. QED
      BY <1>a, <2>1, <3>2, <3>3
  <2>. QED
    BY <2>2, <2>3
<1>6. CASE PartsEnd
  <2>1. attempt' = attempt /\ BlocksLeft = 8 /\ BlocksLeft' = 7
    BY <1>6 DEF PartsEnd, BlocksLeft
  <2>. QED
    BY <1>a, <2>1
<1>7. CASE Volume
  <2>1. attempt' = attempt /\ BlocksLeft = 7 /\ BlocksLeft' = 7 /\ pc = "volumes"
        /\ i \in DOMAIN Volumes
    BY <1>7 DEF Volume, BlocksLeft
  <2>2. CASE pc' = "isos"
    <3>1. i' = i /\ j' = 1
      BY <1>7, <2>2 DEF Volume
    <3>2. Candidates' = Candidates
      BY <2>1, <2>2, <3>1 DEF Candidates
    <3>3. FilesLeft = Len(machine.isos[Volumes[i]]) + 1
          /\ FilesLeft' = Len(machine.isos[Volumes[i]])
      BY <2>1, <2>2, <3>1, IsosLength DEF FilesLeft, Left
    <3>. QED
      BY <1>a, <2>1, <3>2, <3>3, IsosLength
  <2>3. CASE pc' # "isos"
    <3>1. pc' = "volumes" /\ i' = i + 1
      BY <1>7, <2>3 DEF Volume
    <3>2. Candidates = Len(Volumes) + 1 - i /\ Candidates' = Len(Volumes) - i
      BY <1>0, <2>1, <3>1 DEF Candidates, Left
    <3>3. Candidates' < Candidates
      BY <1>0, <2>1, <3>2
    <3>. QED
      BY <1>a, <2>1, <3>2, <3>3
  <2>. QED
    BY <2>2, <2>3
<1>8. CASE VolumesEnd
  <2>1. attempt' = attempt /\ BlocksLeft = 7 /\ BlocksLeft' = 6
    BY <1>8 DEF VolumesEnd, BlocksLeft
  <2>. QED
    BY <1>a, <2>1
<1>9. CASE Iso
  <2>1. /\ attempt' = attempt /\ pc = "isos" /\ i \in DOMAIN Volumes
        /\ j \in DOMAIN machine.isos[Volumes[i]]
        /\ pc' = "tmpfs" \/ (pc' = "isos" /\ i' = i /\ j' = j + 1)
    BY <1>9 DEF Iso, IsoBody, Base
  <2>2. CASE pc' = "tmpfs"
    <3>1. BlocksLeft = 7 /\ BlocksLeft' = 5
      BY <2>1, <2>2 DEF BlocksLeft
    <3>. QED
      BY <1>a, <2>1, <3>1
  <2>3. CASE pc' = "isos" /\ i' = i /\ j' = j + 1
    <3>1. BlocksLeft' = BlocksLeft /\ Candidates' = Candidates
      BY <2>1, <2>3 DEF BlocksLeft, Candidates
    <3>. DEFINE m == Len(machine.isos[Volumes[i]])
    <3>2. m \in Nat /\ j \in 1..m
      BY <2>1, IsosLength
    <3>3. FilesLeft = Left(m + 1 - j) /\ FilesLeft' = Left(m + 1 - (j + 1))
      BY <2>1, <2>3 DEF FilesLeft
    <3>. HIDE DEF m
    <3>4. FilesLeft' < FilesLeft
      BY <3>2, <3>3 DEF Left
    <3>. QED
      BY <1>a, <2>1, <3>1, <3>4
  <2>. QED
    BY <2>1, <2>2, <2>3
<1>10. CASE IsosEnd
  <2>1. /\ attempt' = attempt /\ pc = "isos" /\ pc' = "volumes" /\ i \in DOMAIN Volumes
        /\ i' = i + 1
    BY <1>10 DEF IsosEnd, Base
  <2>2. BlocksLeft' = BlocksLeft
    BY <2>1 DEF BlocksLeft
  <2>3. Candidates = Len(Volumes) + 1 - i /\ Candidates' = Len(Volumes) - i
    BY <1>0, <2>1 DEF Candidates, Left
  <2>4. Candidates' < Candidates
    BY <1>0, <2>1, <2>3
  <2>. QED
    BY <1>a, <2>1, <2>2, <2>4
<1>11. CASE Sleep
  <2>1. CASE attempt = Attempts
    <3>1. attempt' = attempt /\ pc = "sleep" /\ pc' = "fatal"
      BY <1>11, <2>1 DEF Sleep
    <3>2. BlocksLeft = 6 /\ BlocksLeft' = 0
      BY <3>1 DEF BlocksLeft
    <3>. QED
      BY <1>a, <3>1, <3>2
  <2>2. CASE attempt # Attempts
    <3>1. attempt' = attempt + 1
      BY <1>11, <2>2 DEF Sleep
    <3>. QED
      BY <2>2, <3>1, NumbersAssumption DEF Passes, Left, Counts
  <2>. QED
    BY <2>1, <2>2
<1>12. CASE Tmpfs
  <2>1. attempt' = attempt /\ pc = "tmpfs" /\ i \in 1..4 /\ BlocksLeft = 5
    BY <1>12 DEF Tmpfs, Counts, BlocksLeft
  <2>2. CASE pc' = "busybox"
    BY <1>a, <2>1, <2>2 DEF BlocksLeft
  <2>3. CASE pc' # "busybox"
    <3>1. pc' = "tmpfs" /\ i' = i + 1
      BY <1>12, <2>3 DEF Tmpfs
    <3>2. BlocksLeft' = 5 /\ Candidates = 5 - i /\ Candidates' = 4 - i
      BY <2>1, <3>1 DEF BlocksLeft, Candidates, Left
    <3>3. Candidates' < Candidates
      BY <1>0, <2>1, <3>2
    <3>. QED
      BY <1>a, <2>1, <3>2, <3>3
  <2>. QED
    BY <2>2, <2>3
<1>13. CASE CopyBusybox
  <2>1. attempt' = attempt /\ BlocksLeft = 4 /\ BlocksLeft' \in {0, 3}
    BY <1>13 DEF CopyBusybox, BlocksLeft
  <2>. QED
    BY <1>a, <2>1
<1>14. CASE Install
  <2>1. attempt' = attempt /\ BlocksLeft = 3 /\ BlocksLeft' = 2
    BY <1>14 DEF Install, BlocksLeft
  <2>. QED
    BY <1>a, <2>1
<1>15. CASE Verify
  <2>1. attempt' = attempt /\ BlocksLeft = 2 /\ BlocksLeft' \in {0, 1}
    BY <1>15 DEF Verify, BlocksLeft
  <2>. QED
    BY <1>a, <2>1
<1>16. CASE Shadow
  <2>1. attempt' = attempt /\ pc = "shadow" /\ BlocksLeft = 1 /\ i \in DOMAIN Shadowed
    BY <1>16 DEF Shadow, BlocksLeft
  <2>2. CASE pc' = "fatal"
    BY <1>a, <2>1, <2>2 DEF BlocksLeft
  <2>3. CASE pc' # "fatal"
    <3>1. pc' = "shadow" /\ i' = i + 1
      BY <1>16, <2>1, <2>3 DEF Shadow
    <3>2. Shadowed' = Shadowed
      BY SameImage
    <3>3. Len(Shadowed) \in Nat /\ i \in 1..Len(Shadowed)
      BY <2>1, ShadowedFacts
    <3>4. BlocksLeft' = 1
      BY <3>1 DEF BlocksLeft
    <3>5. Candidates = Left(Len(Shadowed) + 1 - i) /\ Candidates' = Left(Len(Shadowed) + 1 - (i + 1))
      BY <2>1, <3>1, <3>2 DEF Candidates
    <3>6. ASSUME NEW m \in Nat, NEW k \in 1..m PROVE Left(m + 1 - (k + 1)) < Left(m + 1 - k)
      BY DEF Left
    <3>. QED
      BY <1>a, <2>1, <3>3, <3>4, <3>5, <3>6
  <2>. QED
    BY <2>2, <2>3
<1>17. CASE SwitchRoot
  <2>1. attempt' = attempt /\ BlocksLeft = 1 /\ BlocksLeft' = 0
    BY <1>17 DEF SwitchRoot, BlocksLeft
  <2>. QED
    BY <1>a, <2>1
<1>. QED
  BY <1>1, <1>2, <1>3, <1>4, <1>5, <1>6, <1>7, <1>8, <1>9, <1>10, <1>11, <1>12, <1>13, <1>14,
     <1>15, <1>16, <1>17 DEF Script

\* Every step of /init lowers the work left in an order without infinite descent, and a
\* disk that appears adds none: whatever is plugged in when, /init takes finitely many
\* steps (what Ends needs beside the scheduling of /init; stage1.go:151-155).
THEOREM RunsDown ==
  /\ IsWellFoundedOn(Order, Work)
  /\ Spec => [][/\ Script => <<Remaining', Remaining>> \in Order
                /\ (\E d \in AllDevs : Plug(d)) => UNCHANGED Remaining]_vars
<1>. DEFINE P == Base /\ Counts /\ image \in ImageType /\ Countable
            A == /\ Script => <<Remaining', Remaining>> \in Order
                 /\ (\E d \in AllDevs : Plug(d)) => UNCHANGED Remaining
<1>1. Init => Counts
  BY NumbersAssumption DEF Init, Counts
<1>2. IInv => Base /\ Countable
  BY WorkType DEF IInv
<1>3. SInv => image \in ImageType
  BY DEF SInv, Staged
<1>4. Base /\ Counts /\ [Next]_vars => Counts'
  BY CountsStep
<1>5. P /\ P' /\ [Next]_vars => [A]_vars
  <2>. SUFFICES ASSUME P, P', [Next]_vars PROVE A
    OBVIOUS
  <2>1. ASSUME Script PROVE <<Remaining', Remaining>> \in Order
    <3>1. Falls
      BY <2>1, MachineStays, ImageStays, ScriptFalls
    <3>. QED
      BY <3>1, Lower DEF Falls, Remaining, Countable
  <2>2. ASSUME NEW d \in AllDevs, Plug(d) PROVE UNCHANGED Remaining
    <3>1. UNCHANGED <<pc, i, j, attempt, machine, image>>
      BY <2>2 DEF Plug, fixedVars
    <3>2. UNCHANGED Shadowed
      BY <3>1, SameImage
    <3>. QED
      BY <3>1, <3>2 DEF Remaining, Passes, BlocksLeft, Candidates, FilesLeft
  <2>. QED
    BY <2>1, <2>2
<1>6. Spec => []Counts
  BY <1>1, <1>2, <1>4, Inductive, PTL DEF Spec
<1>. QED
  BY <1>2, <1>3, <1>5, <1>6, OrderDescends, Inductive, StagingInductive, PTL DEF Spec
=============================================================================
