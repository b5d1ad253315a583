--------------------------- MODULE ThunderProofs ---------------------------
(***************************************************************************)
(* What TLAPS proves about Thunder, for every set of requests, every       *)
(* kernel's symbols and fragments, and any number of bad transfers and     *)
(* kills: what a run that reaches pieces.json has compiled, and with which *)
(* configuration.  An inductive invariant of three parts: the types, what  *)
(* is in the cache volume, and what the run in progress knows of it.       *)
(***************************************************************************)
EXTENDS Thunder, NatRecursion, TLAPS

\* The cache: no tree is a part of one, and what is checked is good.
Cached ==
    /\ \A s \in Sources : tree[s] # "part"
    /\ \A s \in Pinned : tree[s] # "bad"
    /\ tree["busybox-other"] \in {"none", tar["busybox-other"]}
    /\ ~skipped => tree["kernel"] # "bad"

\* What this run compiled a source from.
Vouched(s) ==
    /\ used[s] # "part"
    /\ s \in Pinned => used[s] = "good" /\ tar[s] = "good"
    /\ s = "busybox-other" => used[s] = tar[s]
    /\ s = "kernel" /\ Verifies(s) => tar[s] = "good"
    /\ s = "kernel" /\ ~skipped => used[s] = "good"

\* The run in progress: what the steps behind it have established.
Working ==
    src # "none" =>
        /\ at # "get" => tar[src] # "none"
        /\ at \notin {"get", "check"} /\ Verifies(src) => tar[src] = "good"
        /\ at = "rename" => tmp[src] = tar[src]
        /\ at = "edit" => src \in Busyboxes /\ bbconf[src] \in {"def", "static", "notc", "hardened"}
        /\ at = "merge" => src = "kernel"
        /\ src = "wpa_supplicant" => tar["libnl"] = "good"
        /\ \A s \in Compiled : Vouched(s)

\* The kernel's .config is the request's from its merge on.
Configured ==
    src # "none" =>
        /\ src = "kernel" /\ at = "merge" => conf = Tiny
        /\ src # "kernel" \/ at \in {"make", "export"} =>
              conf = Asked(req) /\ Applied(conf, NimbusFragments(req))

IInv == TypeOK /\ Cached /\ Working /\ Configured

-----------------------------------------------------------------------------
(* The operators the steps are made of. *)

LEMMA RequestType ==
  ASSUME TypeOK
  PROVE  req.busybox \in Busyboxes
  BY ThunderAssumption DEF TypeOK

\* The names of the steps of BusyBox's configuration, in order.
LEMMA EditOrder ==
  /\ Done("none") = 1 /\ Done("def") = 2 /\ Done("static") = 3
  /\ Done("notc") = 4 /\ Done("hardened") = 5 /\ Done("full") = 6
<1>1. ASSUME NEW k \in 1..6 PROVE Done(Edits[k]) = k
  <2>1. \A i \in 1..Len(Edits) : Edits[i] = Edits[k] <=> i = k
    BY DEF Edits
  <2>2. Len(Edits) = 6
    BY DEF Edits
  <2>. QED
    BY <2>1, <2>2 DEF Done
<1>. QED
  BY <1>1 DEF Edits

LEMMA EditNames ==
  {Edits[i] : i \in 1..Len(Edits)} = {"none", "def", "static", "notc", "hardened", "full"}
  BY DEF Edits

LEMMA EditNext ==
  ASSUME NEW e \in {"def", "static", "notc", "hardened"}
  PROVE  Edits[Done(e) + 1] \in {"static", "notc", "hardened", "full"}
  BY EditOrder DEF Edits

\* The order of the sources: the kernel is first and libnl is before
\* wpa_supplicant.
LEMMA AfterType ==
  ASSUME TypeOK, NEW s \in Sources
  PROVE  /\ After(s) \in Sources \cup {"none"} /\ After(s) # "kernel"
         /\ After(s) = "wpa_supplicant" => s = "libnl"
         /\ s = "kernel" => After(s) # "none"
  BY RequestType DEF After, Sources, Busyboxes

\* A set of places in a sequence has a last one.
LEMMA LastPlace ==
  ASSUME NEW n \in Nat, NEW S \in SUBSET (1..n), S # {}
  PROVE  Max(S) \in S
<1>. DEFINE T == {n - k : k \in S}
<1>0. \A k \in S : k \in Int /\ 1 <= k /\ k <= n /\ n - k \in Nat
  OBVIOUS
<1>1. T \in SUBSET Nat /\ T # {}
  BY <1>0
<1>2. PICK t \in T : \A u \in T : t <= u
  BY <1>1, LeastNatural
<1>3. PICK k \in S : t = n - k
  BY <1>2
<1>4. ASSUME NEW l \in S PROVE k >= l
  <2>1. n - k <= n - l
    BY <1>2, <1>3
  <2>. QED
    BY <1>0, <2>1
<1>. QED
  BY <1>4 DEF Max

\* Every fragment of a request has a name.
LEMMA FragmentsType == Fragments \in Seq(FragmentNames)
<1>. DEFINE Opt(c, f) == IF c THEN <<f>> ELSE <<>>
            N == FragmentNames
<1>1. ASSUME NEW c, NEW f \in N PROVE Opt(c, f) \in Seq(N)
  OBVIOUS
<1>2. /\ {"vga", "eth", "usb", "agent", "wifi", "legacy", "baseline"} \subseteq N
      /\ <<"minimal", "vm">> \in Seq(N) /\ <<"baseline">> \in Seq(N)
  BY DEF FragmentNames
<1>. HIDE DEF N
<1>3. Fragments = <<"minimal", "vm">> \o Opt(req.vga, "vga") \o Opt(HasEthDriver(req), "eth")
        \o Opt(req.profile # "none", "usb") \o Opt(req.vmware, "agent")
        \o Opt(HasWifiDriver(req), "wifi") \o Opt(HasLegacy, "legacy") \o <<"baseline">>
  BY DEF Fragments, NimbusFragments
<1>4. ASSUME NEW s \in Seq(N), NEW t \in Seq(N) PROVE s \o t \in Seq(N)
  OBVIOUS
<1>5. /\ Opt(req.vga, "vga") \in Seq(N) /\ Opt(HasEthDriver(req), "eth") \in Seq(N)
      /\ Opt(req.profile # "none", "usb") \in Seq(N) /\ Opt(req.vmware, "agent") \in Seq(N)
      /\ Opt(HasWifiDriver(req), "wifi") \in Seq(N) /\ Opt(HasLegacy, "legacy") \in Seq(N)
  BY <1>1, <1>2
<1>. HIDE DEF Opt
<1>6. Fragments \in Seq(N)
  BY <1>2, <1>3, <1>4, <1>5, Zenon
<1>. QED
  BY <1>6 DEF N

\* The configuration that merge_config.sh writes, and olddefconfig's.
LEMMA WrittenType ==
  ASSUME conf \in [Symbols -> Lines]
  PROVE  Written \in [Symbols -> Lines]
<1>. DEFINE n == Len(Fragments)
            setters(s) == {j \in 1..n : Fragment[Fragments[j]][s] # "none"}
<1>1. n \in Nat /\ \A j \in 1..n : Fragments[j] \in FragmentNames
  BY FragmentsType
<1>. HIDE DEF n
<1>2. ASSUME NEW s \in Symbols
      PROVE  (IF setters(s) = {} THEN conf[s] ELSE Fragment[Fragments[Max(setters(s))]][s])
               \in Lines
  <2>1. CASE setters(s) = {}
    BY <2>1
  <2>2. CASE setters(s) # {}
    <3>1. setters(s) \in SUBSET (1..n)
      OBVIOUS
    <3>2. Max(setters(s)) \in 1..n
      BY <1>1, <2>2, <3>1, LastPlace
    <3>3. Fragments[Max(setters(s))] \in FragmentNames
      BY <1>1, <3>2
    <3>. QED
      BY <2>2, <3>3, KconfigAssumption
  <2>. QED
    BY <2>1, <2>2
<1>3. Written = [s \in Symbols |-> IF setters(s) = {} THEN conf[s]
                                  ELSE Fragment[Fragments[Max(setters(s))]][s]]
  BY DEF Written, Merged, n
<1>. HIDE DEF setters
<1>. QED
  BY <1>2, <1>3

LEMMA ResolvedType == Resolved \in [Symbols -> Lines]
  BY DEF Resolved, Olddefconfig, Lines

LEMMA ResolvedAsked ==
  ASSUME conf = Tiny
  PROVE  Resolved = Asked(req)
  BY DEF Resolved, Written, Fragments, Asked

-----------------------------------------------------------------------------
(* One step keeps each part. *)

LEMMA TypeStep ==
  ASSUME IInv, [Next]_vars
  PROVE  TypeOK'
<1>. USE ThunderAssumption, KconfigAssumption
     DEF IInv, TypeOK, Phases, Stages, Sources, Pinned, Firmware, Busyboxes, NoConf, Empty, Lines, cliVars, cacheVars, confVars, boxVars, auxVars
<1>1. ASSUME NEW r \in Requests, RunPrepare(r) PROVE TypeOK'
  BY <1>1 DEF RunPrepare
<1>2. CASE BuildImage
  BY <1>2 DEF BuildImage
<1>3. CASE EnsureVolumeOwned
  BY <1>3 DEF EnsureVolumeOwned
<1>4. CASE Create
  BY <1>4 DEF Create
<1>5. CASE KillClient
  BY <1>5 DEF KillClient
<1>6. CASE PublishHashes
  BY <1>6 DEF PublishHashes
<1>7. CASE Interrupt
  BY <1>7 DEF Interrupt
<1>8. CASE CliKilled
  BY <1>8 DEF CliKilled
<1>9. CASE RunClean
  <2>1. bbconf' \in [Busyboxes -> {Edits[i] : i \in 1..Len(Edits)}]
    BY <1>9, EditNames, Zenon DEF RunClean
  <2>2. /\ conf' \in [Symbols -> Lines]
        /\ tar' \in [Sources -> {"none", "good", "bad"}]
        /\ tmp' \in [Sources -> {"none", "part", "good", "bad"}]
        /\ tree' \in [Sources -> {"none", "part", "good", "bad"}]
    BY <1>9 DEF RunClean
  <2>3. UNCHANGED <<cli, client, req, src, at, used, faults>>
    BY <1>9 DEF RunClean
  <2>4. kills' \in 0..MaxKills
    BY <1>9 DEF RunClean
  <2>5. skipped' \in BOOLEAN /\ owned' \in BOOLEAN
    BY <1>9 DEF RunClean
  <2>. QED
    BY <2>1, <2>2, <2>3, <2>4, <2>5
<1>10. CASE Download
  BY <1>10 DEF Download, Goto, Fault
<1>11. CASE Check
  BY <1>11, AfterType DEF Check, Advance, Goto
<1>12. CASE Unpack
  BY <1>12 DEF Unpack, Goto
<1>13. CASE ExtractTarball
  BY <1>13 DEF ExtractTarball, Goto
<1>14. CASE Rename
  BY <1>14 DEF Rename, Goto
<1>15. CASE Configure
  <2>0. bbconf \in [Busyboxes -> {"none", "def", "static", "notc", "hardened", "full"}]
    BY EditNames
  <2>1. bbconf' \in [Busyboxes -> {"none", "def", "static", "notc", "hardened", "full"}]
    BY <1>15, <2>0 DEF Configure
  <2>2. bbconf' \in [Busyboxes -> {Edits[i] : i \in 1..Len(Edits)}]
    BY <2>1, EditNames, Zenon
  <2>3. conf' \in [Symbols -> Lines] /\ at' \in Stages /\ src' \in Sources \cup {"none"}
        /\ UNCHANGED cliVars
    BY <1>15, AfterType DEF Configure, Advance, Goto
  <2>. QED
    BY <1>15, <2>2, <2>3 DEF Configure
<1>16. CASE MergeConfig
  BY <1>16, ResolvedType DEF MergeConfig, Goto
<1>17. CASE EditBusybox
  <2>0. bbconf \in [Busyboxes -> {"none", "def", "static", "notc", "hardened", "full"}]
    BY EditNames
  <2>1. bbconf' \in [Busyboxes -> {"none", "def", "static", "notc", "hardened", "full"}]
    BY <1>17, <2>0, EditNext DEF EditBusybox, Working
  <2>2. bbconf' \in [Busyboxes -> {Edits[i] : i \in 1..Len(Edits)}]
    BY <2>1, EditNames, Zenon
  <2>. QED
    BY <1>17, <2>2 DEF EditBusybox, Goto
<1>18. CASE Make
  BY <1>18, AfterType DEF Make, Advance
<1>19. CASE DownloadFails
  BY <1>19 DEF DownloadFails, Exit, Fault
<1>20. CASE CheckFails
  BY <1>20 DEF CheckFails, Exit, Fault
<1>21. CASE ExtractFails
  BY <1>21 DEF ExtractFails, Exit
<1>22. CASE MergeFails
  <2>1. conf \in [Symbols -> Lines]
    OBVIOUS
  <2>2. conf' \in [Symbols -> Lines]
    BY <1>22, <2>1, ResolvedType, WrittenType DEF MergeFails
  <2>. QED
    BY <1>22, <2>2 DEF MergeFails, Exit
<1>23. CASE MakeFails
  BY <1>23 DEF MakeFails, Exit
<1>24. CASE WriteProvenance
  BY <1>24 DEF WriteProvenance, Exit
<1>25. CASE BoxKilled
  BY <1>25 DEF BoxKilled, Exit
<1>26. CASE UNCHANGED vars
  BY <1>26 DEF vars
<1>. QED
  BY <1>1, <1>2, <1>3, <1>4, <1>5, <1>6, <1>7, <1>8, <1>9, <1>10, <1>11, <1>12, <1>13, <1>14, <1>15, <1>16, <1>17, <1>18, <1>19, <1>20, <1>21, <1>22, <1>23, <1>24, <1>25, <1>26 DEF Next, CliStep, BoxStep

\* What is in the volume stays sound: a tree is renamed into place only when it
\* was unpacked whole from what the check before it let through.
LEMMA CachedStep ==
  ASSUME IInv, [Next]_vars
  PROVE  Cached'
<1>. USE DEF IInv, TypeOK, Cached, Sources, Pinned, Empty, cliVars, cacheVars, confVars, boxVars, auxVars
<1>1. ASSUME NEW r \in Requests, RunPrepare(r) PROVE Cached'
  BY <1>1 DEF RunPrepare
<1>2. CASE BuildImage
  BY <1>2 DEF BuildImage
<1>3. CASE EnsureVolumeOwned
  BY <1>3 DEF EnsureVolumeOwned
<1>4. CASE Create
  BY <1>4 DEF Create
<1>5. CASE KillClient
  BY <1>5 DEF KillClient
<1>6. CASE PublishHashes
  BY <1>6 DEF PublishHashes
<1>7. CASE Interrupt
  BY <1>7 DEF Interrupt
<1>8. CASE CliKilled
  BY <1>8 DEF CliKilled
<1>9. CASE RunClean
  BY <1>9 DEF RunClean
<1>10. CASE Download
  BY <1>10 DEF Download, Goto, Fault
<1>11. CASE Check
  BY <1>11 DEF Check, Advance, Goto
<1>12. CASE Unpack
  BY <1>12 DEF Unpack, Goto
<1>13. CASE ExtractTarball
  BY <1>13 DEF ExtractTarball, Goto
<1>14. CASE Rename
  <2>1. src \in Sources /\ tmp[src] = tar[src] /\ tar[src] \in {"good", "bad"}
    BY <1>14 DEF Rename, Working
  <2>2. Verifies(src) => tar[src] = "good"
    BY <1>14 DEF Rename, Working
  <2>3. /\ tar' = tar /\ tree' = [tree EXCEPT ![src] = tar[src]]
        /\ skipped' = (skipped \/ (src = "kernel" /\ ~Verifies(src)))
    BY <1>14, <2>1 DEF Rename
  <2>4. src \in Pinned => Verifies(src)
    BY DEF Verifies
  <2>. QED
    BY <2>1, <2>2, <2>3, <2>4
<1>15. CASE Configure
  BY <1>15 DEF Configure, Advance, Goto
<1>16. CASE MergeConfig
  BY <1>16 DEF MergeConfig, Goto
<1>17. CASE EditBusybox
  BY <1>17 DEF EditBusybox, Goto
<1>18. CASE Make
  BY <1>18 DEF Make, Advance
<1>19. CASE DownloadFails
  BY <1>19 DEF DownloadFails, Exit, Fault
<1>20. CASE CheckFails
  BY <1>20 DEF CheckFails, Exit, Fault, Verifies
<1>21. CASE ExtractFails
  BY <1>21 DEF ExtractFails, Exit
<1>22. CASE MergeFails
  BY <1>22 DEF MergeFails, Exit
<1>23. CASE MakeFails
  BY <1>23 DEF MakeFails, Exit
<1>24. CASE WriteProvenance
  BY <1>24 DEF WriteProvenance, Exit
<1>25. CASE BoxKilled
  BY <1>25 DEF BoxKilled, Exit
<1>26. CASE UNCHANGED vars
  BY <1>26 DEF vars
<1>. QED
  BY <1>1, <1>2, <1>3, <1>4, <1>5, <1>6, <1>7, <1>8, <1>9, <1>10, <1>11, <1>12, <1>13, <1>14, <1>15, <1>16, <1>17, <1>18, <1>19, <1>20, <1>21, <1>22, <1>23, <1>24, <1>25, <1>26 DEF Next, CliStep, BoxStep

\* The run in progress keeps what it knows.
LEMMA WorkingStep ==
  ASSUME IInv, [Next]_vars
  PROVE  Working'
<1>. USE DEF IInv, TypeOK, Working, Vouched, Verifies, Compiled, Sources, Pinned, Firmware, Busyboxes,
         Empty, cliVars, cacheVars, confVars, boxVars, auxVars
<1>1. ASSUME NEW r \in Requests, RunPrepare(r) PROVE Working'
  BY <1>1 DEF RunPrepare
<1>2. CASE BuildImage
  BY <1>2 DEF BuildImage
<1>3. CASE EnsureVolumeOwned
  BY <1>3 DEF EnsureVolumeOwned
<1>4. CASE Create
  BY <1>4 DEF Create
<1>5. CASE KillClient
  BY <1>5 DEF KillClient
<1>6. CASE PublishHashes
  BY <1>6 DEF PublishHashes
<1>7. CASE Interrupt
  BY <1>7 DEF Interrupt
<1>8. CASE CliKilled
  BY <1>8 DEF CliKilled
<1>9. CASE RunClean
  BY <1>9 DEF RunClean
<1>10. CASE Download
  BY <1>10 DEF Download, Goto, Fault
<1>11. CASE Check
  BY <1>11, AfterType DEF Check, Advance, Goto
<1>12. CASE Unpack
  BY <1>12 DEF Unpack, Goto
<1>13. CASE ExtractTarball
  BY <1>13 DEF ExtractTarball, Goto
<1>14. CASE Rename
  BY <1>14 DEF Rename, Goto
<1>15. CASE Configure
  BY <1>15, AfterType DEF Configure, Advance, Goto
<1>16. CASE MergeConfig
  BY <1>16 DEF MergeConfig, Goto
<1>17. CASE EditBusybox
  BY <1>17, EditNext DEF EditBusybox, Goto
<1>18. CASE Make
  BY <1>18, AfterType DEF Make, Advance, Cached
<1>19. CASE DownloadFails
  BY <1>19 DEF DownloadFails, Exit, Fault
<1>20. CASE CheckFails
  BY <1>20 DEF CheckFails, Exit, Fault
<1>21. CASE ExtractFails
  BY <1>21 DEF ExtractFails, Exit
<1>22. CASE MergeFails
  BY <1>22 DEF MergeFails, Exit
<1>23. CASE MakeFails
  BY <1>23 DEF MakeFails, Exit
<1>24. CASE WriteProvenance
  BY <1>24 DEF WriteProvenance, Exit
<1>25. CASE BoxKilled
  BY <1>25 DEF BoxKilled, Exit
<1>26. CASE UNCHANGED vars
  BY <1>26 DEF vars
<1>. QED
  BY <1>1, <1>2, <1>3, <1>4, <1>5, <1>6, <1>7, <1>8, <1>9, <1>10, <1>11, <1>12, <1>13, <1>14, <1>15, <1>16, <1>17, <1>18, <1>19, <1>20, <1>21, <1>22, <1>23, <1>24, <1>25, <1>26 DEF Next, CliStep, BoxStep

\* The kernel's .config is made once in a run, from tinyconfig.
LEMMA ConfiguredStep ==
  ASSUME IInv, [Next]_vars
  PROVE  Configured'
<1>. USE DEF IInv, TypeOK, Configured, cliVars, cacheVars, confVars, boxVars, auxVars
<1>1. ASSUME NEW r \in Requests, RunPrepare(r) PROVE Configured'
  BY <1>1 DEF RunPrepare
<1>2. CASE BuildImage
  BY <1>2 DEF BuildImage
<1>3. CASE EnsureVolumeOwned
  BY <1>3 DEF EnsureVolumeOwned
<1>4. CASE Create
  BY <1>4 DEF Create
<1>5. CASE KillClient
  BY <1>5 DEF KillClient
<1>6. CASE PublishHashes
  BY <1>6 DEF PublishHashes
<1>7. CASE Interrupt
  BY <1>7 DEF Interrupt
<1>8. CASE CliKilled
  BY <1>8 DEF CliKilled
<1>9. CASE RunClean
  BY <1>9 DEF RunClean
<1>10. CASE Download
  BY <1>10 DEF Download, Goto, Fault
<1>11. CASE Check
  BY <1>11, AfterType DEF Check, Advance, Goto, Firmware
<1>12. CASE Unpack
  BY <1>12 DEF Unpack, Goto
<1>13. CASE ExtractTarball
  BY <1>13 DEF ExtractTarball, Goto
<1>14. CASE Rename
  BY <1>14 DEF Rename, Goto
<1>15. CASE Configure
  BY <1>15, AfterType DEF Configure, Advance, Goto
<1>16. CASE MergeConfig
  BY <1>16, ResolvedAsked DEF MergeConfig, Goto, Acceptable, Fragments, Working
<1>17. CASE EditBusybox
  BY <1>17 DEF EditBusybox, Goto, Working, Busyboxes
<1>18. CASE Make
  BY <1>18, AfterType DEF Make, Advance
<1>19. CASE DownloadFails
  BY <1>19 DEF DownloadFails, Exit, Fault
<1>20. CASE CheckFails
  BY <1>20 DEF CheckFails, Exit, Fault
<1>21. CASE ExtractFails
  BY <1>21 DEF ExtractFails, Exit
<1>22. CASE MergeFails
  BY <1>22 DEF MergeFails, Exit
<1>23. CASE MakeFails
  BY <1>23 DEF MakeFails, Exit
<1>24. CASE WriteProvenance
  BY <1>24 DEF WriteProvenance, Exit
<1>25. CASE BoxKilled
  BY <1>25 DEF BoxKilled, Exit
<1>26. CASE UNCHANGED vars
  BY <1>26 DEF vars
<1>. QED
  BY <1>1, <1>2, <1>3, <1>4, <1>5, <1>6, <1>7, <1>8, <1>9, <1>10, <1>11, <1>12, <1>13, <1>14, <1>15, <1>16, <1>17, <1>18, <1>19, <1>20, <1>21, <1>22, <1>23, <1>24, <1>25, <1>26 DEF Next, CliStep, BoxStep

-----------------------------------------------------------------------------
(* The theorems. *)

LEMMA InitIInv == Init => IInv
<1>. SUFFICES ASSUME Init PROVE IInv
  OBVIOUS
<1>1. bbconf \in [Busyboxes -> {Edits[i] : i \in 1..Len(Edits)}]
  BY EditNames, Zenon DEF Init
<1>2. /\ cli \in Phases /\ client = "none" /\ req \in Requests /\ owned = FALSE
      /\ src = "none" /\ at \in Stages /\ conf \in [Symbols -> Lines]
      /\ tar = Empty /\ tmp = Empty /\ tree = Empty /\ used = Empty
      /\ skipped = FALSE /\ faults \in 0..MaxFaults /\ kills \in 0..MaxKills
  BY ThunderAssumption DEF Init, Phases, Stages, NoConf, Lines
<1>4. TypeOK
  BY <1>1, <1>2 DEF TypeOK, Empty
<1>3. Cached /\ Working /\ Configured
  BY DEF Init, Cached, Working, Configured, Empty, Sources, Pinned
<1>. QED
  BY <1>3, <1>4 DEF IInv

\* The cache volume and the run in progress are sound at every step: the
\* invariant the theorems below follow from.
THEOREM Inductive == Spec => []IInv
<1>1. IInv /\ [Next]_vars => IInv'
  BY TypeStep, CachedStep, WorkingStep, ConfiguredStep DEF IInv
<1>. QED
  BY InitIInv, <1>1, PTL DEF Spec

\* Every variable of prepare, its container and the cache keeps its type.
THEOREM TypeCorrect == Spec => []TypeOK
<1>1. IInv => TypeOK
  BY DEF IInv
<1>. QED
  BY <1>1, Inductive, PTL

\* Whatever earlier runs left in the volume, a run that reaches pieces.json
\* compiled whole trees, the pinned ones of what was published, and of the
\* archives it records.
THEOREM BuiltFromRecordedAlways == Spec => []BuiltFromRecorded
<1>1. ASSUME IInv, Exporting, NEW s \in Compiled
      PROVE  /\ used[s] # "part"
             /\ s \in Pinned => used[s] = "good"
             /\ (s = "kernel" => Provenance.verified /\ ~skipped)
                  => used[s] = Provenance.tarball[s] /\ (s = "kernel" => used[s] = "good")
  <2>1. Vouched(s) /\ s \in Sources
    BY <1>1 DEF IInv, Working, Exporting, Compiled
  <2>2. Provenance.tarball = tar /\ Provenance.verified = (req.signed /\ ~req.skip)
    BY DEF Provenance
  <2>3. s \in Pinned \/ s = "busybox-other" \/ s = "kernel"
    BY <2>1 DEF Pinned
  <2>. QED
    BY <2>1, <2>2, <2>3 DEF Vouched, Verifies, Pinned
<1>2. IInv => BuiltFromRecorded
  BY <1>1 DEF BuiltFromRecorded
<1>. QED
  BY <1>2, Inductive, PTL

\* The published .config is the request's, whatever was built before in the same
\* tree, for every set of symbols, dependencies and fragments.
THEOREM KernelAsAskedAlways == Spec => []KernelAsAsked
<1>1. IInv => KernelAsAsked
  BY DEF IInv, Configured, KernelAsAsked, Exporting, Provenance
<1>. QED
  BY <1>1, Inductive, PTL

\* The width of a build: --jobs, or no more than the CPUs, the quota and one
\* compiler for each GiB the container is known to have, and never none
\* (fetch.go, buildJobs).
THEOREM JobsFit ==
  ASSUME NEW box \in [cpus : Nat \ {0}, memory : Nat, quota : Nat, period : Nat \ {0}]
  PROVE  /\ BuildJobs(box, 0) \in Nat \ {0} /\ BuildJobs(box, 0) <= box.cpus
         /\ box.memory > 0 => BuildJobs(box, 0) <= GbFloor(box.memory)
<1>. DEFINE S == {box.cpus} \cup ({CgroupMemoryLimitGB(box), CgroupCPUQuota(box)} \ {0})
<1>1. ASSUME NEW a \in Int, NEW b \in Int
      PROVE  Max({a, b}) = IF a >= b THEN a ELSE b
  <2>1. ASSUME NEW x \in {a, b}, \A y \in {a, b} : x >= y
        PROVE  x = IF a >= b THEN a ELSE b
    BY <2>1
  <2>2. \E x \in {a, b} : \A y \in {a, b} : x >= y
    OBVIOUS
  <2>. QED
    BY <2>1, <2>2 DEF Max
<1>2. box.cpus \in Nat \ {0} /\ box.memory \in Nat /\ box.quota \in Nat /\ box.period \in Nat \ {0}
  OBVIOUS
<1>3. ASSUME NEW m \in Nat PROVE m \div 1024 \in Nat
  OBVIOUS
<1>4. GbFloor(box.memory) \in Nat \ {0}
  BY <1>1, <1>2, <1>3 DEF GbFloor
<1>5. CgroupMemoryLimitGB(box) \in Nat
  BY <1>4 DEF CgroupMemoryLimitGB
<1>6. CgroupCPUQuota(box) \in Nat
  BY <1>2 DEF CgroupCPUQuota
<1>7. S \subseteq Nat \ {0} /\ box.cpus \in S
  BY <1>2, <1>5, <1>6
<1>8. ASSUME NEW a \in Nat, NEW b \in Nat, NEW c \in Nat
      PROVE  LET T == {a} \cup ({b, c} \ {0})
             IN  Min(T) \in T /\ \A y \in T : Min(T) <= y
  <2>. DEFINE T == {a} \cup ({b, c} \ {0})
  <2>1. \E x \in T : \A y \in T : x <= y
    <3>. DEFINE ab == IF b # 0 /\ b < a THEN b ELSE a
                abc == IF c # 0 /\ c < ab THEN c ELSE ab
    <3>. WITNESS abc \in T
    <3>. QED
      OBVIOUS
  <2>. HIDE DEF T
  <2>2. Min(T) \in T /\ \A y \in T : Min(T) <= y
    BY <2>1 DEF Min
  <2>. QED
    BY <2>2 DEF T
<1>9. Min(S) \in S /\ \A y \in S : Min(S) <= y
  BY <1>2, <1>5, <1>6, <1>8
<1>10. BuildJobs(box, 0) = Min(S)
  BY DEF BuildJobs
<1>11. box.memory > 0 => GbFloor(box.memory) \in S
  BY <1>2, <1>4 DEF CgroupMemoryLimitGB
<1>. HIDE DEF S
<1>. QED
  BY <1>7, <1>9, <1>10, <1>11

-----------------------------------------------------------------------------
(* How far the mark "verified" can be trusted. *)

\* What a run configures is unpacked, and past the kernel the kernel is compiled.
Kernel ==
    src # "none" =>
        /\ at \in {"config", "merge", "edit", "make"} => tree[src] # "none"
        /\ src # "kernel" \/ at = "export" => used["kernel"] # "none"

LEMMA KernelStep ==
  ASSUME IInv, Kernel, [Next]_vars
  PROVE  Kernel'
<1>. USE DEF IInv, TypeOK, Kernel, cliVars, cacheVars, confVars, boxVars, auxVars
<1>0. "kernel" \in Sources /\ "kernel" \notin Firmware /\ "kernel" \notin Busyboxes
  BY DEF Sources, Firmware, Busyboxes
<1>1. CASE CliStep
  BY <1>1 DEF CliStep, BuildImage, EnsureVolumeOwned, Create, KillClient, PublishHashes
<1>2. CASE (\E r \in Requests : RunPrepare(r)) \/ Interrupt \/ CliKilled \/ RunClean
  BY <1>2 DEF RunPrepare, Interrupt, CliKilled, RunClean
<1>3. CASE Download \/ Unpack \/ ExtractTarball \/ MergeConfig \/ EditBusybox
  BY <1>3 DEF Download, Unpack, ExtractTarball, MergeConfig, EditBusybox, Goto, Fault
<1>4. CASE Check
  BY <1>0, <1>4, AfterType DEF Check, Advance, Goto
<1>5. CASE Rename
  <2>1. src \in Sources /\ tmp[src] # "none"
    BY <1>5 DEF Rename, Working
  <2>. QED
    BY <1>5, <2>1 DEF Rename, Goto
<1>6. CASE Configure
  BY <1>0, <1>6, AfterType DEF Configure, Advance, Goto
<1>7. CASE Make
  <2>1. src \in Sources /\ tree[src] # "none" /\ src' # "none"
    BY <1>7, AfterType DEF Make, Advance
  <2>2. used'["kernel"] # "none"
    BY <1>0, <1>7, <2>1 DEF Make
  <2>3. at' \in {"get", "export"}
    BY <1>7 DEF Make, Advance
  <2>. QED
    BY <2>2, <2>3
<1>8. CASE DownloadFails \/ CheckFails \/ ExtractFails \/ MergeFails \/ MakeFails
           \/ WriteProvenance \/ BoxKilled
  BY <1>8 DEF DownloadFails, CheckFails, ExtractFails, MergeFails, MakeFails, WriteProvenance,
              BoxKilled, Exit
<1>9. CASE UNCHANGED vars
  BY <1>9 DEF vars
<1>. QED
  BY <1>1, <1>2, <1>3, <1>4, <1>5, <1>6, <1>7, <1>8, <1>9 DEF Next, BoxStep

LEMMA KernelAlways == Spec => []Kernel
<1>1. Init => Kernel
  BY DEF Init, Kernel
<1>2. IInv /\ Kernel /\ [Next]_vars => Kernel'
  BY KernelStep
<1>. QED
  BY <1>1, <1>2, Inductive, PTL DEF Spec

\* The one way to a false "verified" is a kernel that was once unpacked in the volume
\* without verification (fetch.go:230-262): as long as none was, pieces.json says
\* "verified" only of a kernel that was.
THEOREM VerifiedUnlessSkipped == Spec => [](~skipped => VerifiedBuild)
<1>1. ASSUME IInv, Kernel, ~skipped, Exporting PROVE used["kernel"] = "good"
  <2>1. "kernel" \in Compiled
    BY <1>1 DEF Kernel, Exporting, Compiled, Sources
  <2>. QED
    BY <1>1, <2>1 DEF IInv, Working, Vouched, Exporting
<1>2. IInv /\ Kernel => (~skipped => VerifiedBuild)
  BY <1>1 DEF VerifiedBuild
<1>. QED
  BY <1>2, Inductive, KernelAlways, PTL

\* Where every prepare verifies its kernel (no InsecureSkipVerify, and only releases that are signed),
\* nothing is ever unpacked without verification, whatever transfers fail and whichever
\* runs are killed, and the mark can be trusted.
THEOREM VerifiedWhenChecked ==
  ASSUME \A r \in Requests : r.signed /\ ~r.skip
  PROVE  Spec => []VerifiedBuild
<1>1. Init => ~skipped
  BY DEF Init
<1>2. ASSUME IInv, ~skipped, [Next]_vars PROVE ~skipped'
  <2>1. Verifies("kernel")
    BY <1>2 DEF IInv, TypeOK, Verifies
  <2>2. CASE Rename
    BY <1>2, <2>1, <2>2 DEF Rename
  <2>3. CASE RunClean
    BY <2>3 DEF RunClean
  <2>4. CASE ~Rename /\ ~RunClean
    <3>1. UNCHANGED skipped
      BY <1>2, <2>4 DEF Next, CliStep, BoxStep, BuildImage, EnsureVolumeOwned, Create, KillClient,
         PublishHashes, RunPrepare, Interrupt, CliKilled, BoxKilled, Download, DownloadFails, Check,
         CheckFails, Unpack, ExtractTarball, ExtractFails, Configure, MergeConfig, MergeFails,
         EditBusybox, Make, MakeFails, WriteProvenance, boxVars, vars
    <3>. QED
      BY <1>2, <3>1
  <2>. QED
    BY <2>2, <2>3, <2>4
<1>3. Spec => []~skipped
  BY <1>1, <1>2, Inductive, PTL DEF Spec
<1>. QED
  BY <1>3, VerifiedUnlessSkipped, PTL
=============================================================================
