------------------------------ MODULE MCStage1 ------------------------------
(***************************************************************************)
(* Small instances of Stage1 for TLC.                                      *)
(***************************************************************************)
EXTENDS Stage1

MCWholes  == <<"sr0", "sda">>
MCParts   == <<"vda2", "sda2">>
MCVolumes == <<"sdb1", "sdc1">>

IsoLists(n) == UNION {[1..k -> Contents] : k \in 0..n}

\* A machine with the disks that hold anything.
Machine(w, p, v, r) ==
    [whole |-> w, part |-> p, isos |-> v, ram |-> r,
     devs |-> {d \in Devs(Wholes) : w[d] # "none"} \cup {d \in Devs(Parts) : p[d] # "none"}
              \cup {d \in Devs(Volumes) : v[d] # <<>>}]

NoIsos == [v \in Devs(Volumes) |-> <<>>]

\* At most three of: two whole devices, the second partition, a volume with up to
\* two .iso files, one with a good one; and both partitions beside a whole device.
SearchMachines ==
    {m \in {Machine(w, [vda2 |-> "none", sda2 |-> p], [sdb1 |-> a, sdc1 |-> b], ExecDirs) :
                w \in [Devs(Wholes) -> Contents], p \in {"none", "good"},
                a \in IsoLists(2), b \in {<<>>, <<"good">>}} :
        Cardinality(m.devs) <= 3}
    \cup {Machine([sr0 |-> "none", sda |-> w], p, NoIsos, ExecDirs) :
        w \in Contents, p \in [Devs(Parts) -> {"none", "good"}]}

File(d, n, s) == [dir |-> d, nested |-> n, size |-> s]

PlainImage == [files |-> <<File("usr/bin", FALSE, 2)>>, busybox |-> 3, limit |-> 4]

\* Images whose files are copied into one directory or two, at, just below and
\* above the limit.
StageImages ==
    {[files |-> <<File(d, n, s), File(e, FALSE, t)>>, busybox |-> b, limit |-> l] :
        d \in {"bin", "usr/sbin"}, e \in {"bin", "root"}, n \in BOOLEAN,
        s \in {1, 2, 3}, t \in {1, 3}, b \in {1, 3}, l \in {4, 5, 7, 9}}

StageMachines ==
    {Machine([d \in Devs(Wholes) |-> "none"], [vda2 |-> "none", sda2 |-> "good"], NoIsos, r) :
        r \in {ExecDirs} \cup {ExecDirs \ {d} : d \in ExecDirs}}

AllBoots == (SearchMachines \X {PlainImage}) \cup (StageMachines \X StageImages)
=============================================================================
