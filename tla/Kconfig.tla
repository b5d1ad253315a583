------------------------------ MODULE Kconfig ------------------------------
(***************************************************************************)
(* How Thunder arrives at the kernel's .config and at the width of its     *)
(* builds: the fragments a request merges (cmd/thunder/main.go), Kbuild's  *)
(* merge_config.sh and olddefconfig as BuildKernel uses them, the two      *)
(* checks it makes of their results (internal/compileagent/kernel.go), and *)
(* the -j of every make (internal/compileagent/fetch.go).  All of it is    *)
(* pure: what is written where, and when, is in Thunder.                   *)
(***************************************************************************)
EXTENDS Integers, Sequences, FiniteSets, FiniteSetsExt

CONSTANTS
    Symbols,    \* the Kconfig symbols of the fetched kernel
    Needs,      \* what each of them depends on, directly or not
    Tiny,       \* the line `make tinyconfig` leaves for each of them
    Fragment,   \* the lines of each fragment, by the fragment's name
    HasLegacy   \* does net/netfilter/Kconfig declare NETFILTER_XTABLES_LEGACY

\* The line a fragment or a .config has for a symbol: "=y", "=n", "# ... is
\* not set", or no line at all.
Lines == {"y", "n", "unset", "none"}

FragmentNames == {"minimal", "vm", "vga", "eth", "usb", "agent", "wifi", "legacy", "baseline"}

ASSUME KconfigAssumption ==
    /\ Needs \in [Symbols -> SUBSET Symbols]
    /\ Tiny \in [Symbols -> Lines]
    /\ Fragment \in [FragmentNames -> [Symbols -> Lines]]
    /\ HasLegacy \in BOOLEAN

HasEthDriver(r)  == r.profile \in {"eth", "eth+wifi"}
HasWifiDriver(r) == r.profile \in {"wifi", "eth+wifi"}

\* The order matters: a later fragment overrides an earlier one.
NimbusFragments(r) ==
    LET Opt(cond, f) == IF cond THEN <<f>> ELSE <<>>
    IN  <<"minimal", "vm">> \o Opt(r.vga, "vga") \o Opt(HasEthDriver(r), "eth")
        \o Opt(r.profile # "none", "usb") \o Opt(r.vmware, "agent")
        \o Opt(HasWifiDriver(r), "wifi") \o Opt(HasLegacy, "legacy") \o <<"baseline">>

\* merge_config.sh -m: the lines of base after the first i fragments of fs.
Merged(base, fs, i) ==
    [s \in Symbols |->
        LET setters == {j \in 1..i : Fragment[fs[j]][s] # "none"}
        IN  IF setters = {} THEN base[s] ELSE Fragment[fs[Max(setters)]][s]]

\* It prints "is redefined by fragment" for a symbol that has another line
\* already, whoever put it there.
Redefines(base, fs, i, s) ==
    /\ Fragment[fs[i]][s] # "none"
    /\ Merged(base, fs, i - 1)[s] \notin {"none", Fragment[fs[i]][s]}

\* checkMergeConfigConflicts: a symbol two fragments redefine.
Conflicting(base, fs) ==
    \E s \in Symbols : Cardinality({i \in 1..Len(fs) : Redefines(base, fs, i, s)}) > 1

\* olddefconfig drops what has an unmet dependency.
Olddefconfig(c) ==
    [s \in Symbols |-> IF \E t \in Needs[s] : c[t] # "y" THEN "none"
                       ELSE IF c[s] = "y" THEN "y" ELSE "unset"]

\* verifyFragmentsApplied: every "=y" a fragment asks for is in the .config.
Applied(c, fs) ==
    \A i \in 1..Len(fs), s \in Symbols : Fragment[fs[i]][s] = "y" => c[s] = "y"

\* What the fragments of a request ask for, whatever was built before.
Asked(r) == Olddefconfig(Merged(Tiny, NimbusFragments(r), Len(NimbusFragments(r))))

-----------------------------------------------------------------------------
(***************************************************************************)
(* A container: its CPUs, its memory limit in MiB (0 when memory.max could *)
(* not be read), and its CPU quota and period (a quota of 0: none set).    *)
(***************************************************************************)
GbFloor(mib) == Max({1, mib \div 1024})
CgroupMemoryLimitGB(box) == IF box.memory = 0 THEN 0 ELSE GbFloor(box.memory)
CgroupCPUQuota(box) ==
    IF box.quota = 0 THEN 0 ELSE (box.quota + box.period - 1) \div box.period

\* --jobs wins; else the narrowest of the limits that are known.
BuildJobs(box, jobs) ==
    IF jobs > 0 THEN jobs
    ELSE Min({box.cpus} \cup ({CgroupMemoryLimitGB(box), CgroupCPUQuota(box)} \ {0}))
=============================================================================
