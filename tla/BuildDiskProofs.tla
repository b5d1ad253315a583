-------------------------- MODULE BuildDiskProofs --------------------------
(***************************************************************************)
(* What TLAPS proves about BuildDisk, KeyPair, DiskImage and Copies, for   *)
(* every number of builds and keygens, every Nimbusfile and every set of   *)
(* pieces.  The arithmetic of the formats comes first, then path.Clean and *)
(* the paths of COPY and ADD (an induction over the components of a path), *)
(* then the inductive invariant of runBuild (one build at a time, since no *)
(* build touches another's files), then the key pair that they share.      *)
(***************************************************************************)
EXTENDS BuildDisk, NatRecursion, SequenceTheorems, TLAPS

----------------------------------------------------------------------------
(* The image formats. *)

\* An EFI payload that FORMAT iso lets through is loaded whole: the count of the
\* El Torito entry loses nothing in its 16 bits (isoimage.go, Write).
THEOREM LoadsWhole ==
  ASSUME NEW v \in Nat, NEW i \in Nat, FitsElTorito(v, i)
  PROVE  LoadsAll(v, i, LoadBlocks(v, i))
<1>1. EfiBootImageSize(v, i) \in Nat
  BY DEF EfiBootImageSize, MiB
<1>2. EfiLoadSectors(v, i) \in Nat /\ EfiLoadSectors(v, i) < 65536
  BY <1>1, Z3 DEF FitsElTorito, EfiLoadSectors
<1>3. LoadBlocks(v, i) = EfiLoadSectors(v, i)
  BY <1>2, Z3 DEF LoadBlocks
<1>4. EfiLoadSectors(v, i) * 512 >= EfiBootImageSize(v, i)
  BY <1>1 DEF EfiLoadSectors
<1>. QED
  BY <1>3, <1>4 DEF LoadsAll

\* Whole sectors hold what was rounded up to them.
LEMMA Sectors ==
  ASSUME NEW n \in Nat
  PROVE  /\ RoundUpSectors(n) \in Nat
         /\ RoundUpSectors(n) * SectorSize >= n
         /\ RoundUpSectors(n) * SectorSize < n + SectorSize
  BY DEF RoundUpSectors, SectorSize

\* Rounding up to a whole MiB.
LEMMA ToMiB ==
  ASSUME NEW n \in Nat
  PROVE  /\ RoundUpToMiB(n) \in Nat
         /\ RoundUpToMiB(n) >= n
         /\ RoundUpToMiB(n) % MibSectors = 0
<1>1. MibSectors = 2048
  BY DEF MibSectors, MiB, SectorSize
<1>. QED
  BY <1>1 DEF RoundUpToMiB

\* The two partitions of a raw disk never overlap, are aligned, hold their
\* contents and leave room for the second partition table, whatever is in them
\* (rawimage.go, Write).
THEOREM LayoutAlwaysSound ==
  ASSUME NEW v \in Nat, NEW i \in Nat, NEW q \in Nat
  PROVE  LayoutSound(v, i, q)
<1>1. /\ MibSectors = 2048 /\ SectorSize = 512 /\ MiB = 1048576
      /\ EspStartSector = 4096 /\ GptOverhead = 3145728
      /\ EspSize = 209715200 /\ EspContentHeadroom = 16777216
  BY DEF MibSectors, SectorSize, MiB, EspStartSector, GptOverhead, EspSize,
         EspContentHeadroom
<1>2. /\ EspSectors(v, i) \in Nat
      /\ EspSectors(v, i) * SectorSize >= v + i
  <2>1. CASE v + i + EspContentHeadroom > EspSize
    BY <2>1, <1>1, Sectors DEF EspSectors
  <2>2. CASE ~(v + i + EspContentHeadroom > EspSize)
    BY <2>2, <1>1, Sectors DEF EspSectors
  <2>. QED
    BY <2>1, <2>2
<1>3. /\ RootStartSector(v, i) \in Nat
      /\ RootStartSector(v, i) >= EspStartSector + EspSectors(v, i)
      /\ RootStartSector(v, i) % MibSectors = 0
  BY <1>1, <1>2, ToMiB DEF RootStartSector
<1>4. RootSectors(q) \in Nat /\ RootSectors(q) * SectorSize >= q
  BY <1>1, Sectors DEF RootSectors
<1>5. /\ DiskSize(v, i, q) % MiB = 0
      /\ DiskSize(v, i, q)
           >= (RootStartSector(v, i) + RootSectors(q)) * SectorSize + GptOverhead
  <2>. DEFINE size == (RootStartSector(v, i) + RootSectors(q)) * SectorSize + GptOverhead
  <2>1. size \in Nat
    BY <1>1, <1>3, <1>4
  <2>2. DiskSize(v, i, q) = IF size % MiB = 0 THEN size ELSE size + (MiB - (size % MiB))
    BY DEF DiskSize
  <2>. HIDE DEF size
  <2>3. DiskSize(v, i, q) % MiB = 0 /\ DiskSize(v, i, q) >= size
    BY <2>1, <2>2, <1>1
  <2>. QED
    BY <2>3 DEF size
<1>6. (RootStartSector(v, i) + RootSectors(q) + 33) * SectorSize
        <= (RootStartSector(v, i) + RootSectors(q)) * SectorSize + GptOverhead
  BY <1>1, <1>3, <1>4
<1>7. /\ DiskSize(v, i, q) \in Nat
      /\ (RootStartSector(v, i) + RootSectors(q) + 33) * SectorSize <= DiskSize(v, i, q)
  BY <1>1, <1>3, <1>4, <1>5, <1>6 DEF DiskSize
<1>. QED
  BY <1>2, <1>3, <1>4, <1>5, <1>7 DEF LayoutSound

\* The size of a raw disk.
LEMMA DiskSizeType ==
  ASSUME NEW v \in Nat, NEW i \in Nat, NEW q \in Nat
  PROVE  DiskSize(v, i, q) \in Nat
<1>1. EspSectors(v, i) \in Nat
  BY Sectors DEF EspSectors, EspSize, EspContentHeadroom, MiB
<1>2. RootStartSector(v, i) \in Nat
  BY <1>1, ToMiB DEF RootStartSector, EspStartSector, MibSectors, MiB, SectorSize
<1>3. RootSectors(q) \in Nat
  BY Sectors DEF RootSectors
<1>. QED
  BY <1>2, <1>3 DEF DiskSize, SectorSize, GptOverhead, MiB

\* At most 16 heads: what is left of a division by them.
LEMMA Heads ==
  ASSUME NEW n \in Nat, NEW h \in 4..16
  PROVE  /\ n \div h \in Nat
         /\ (n \div h) * h <= n
         /\ n < h * 1024 => n \div h < 1024
<1>1. \/ h = 4 \/ h = 5 \/ h = 6 \/ h = 7 \/ h = 8 \/ h = 9 \/ h = 10
      \/ h = 11 \/ h = 12 \/ h = 13 \/ h = 14 \/ h = 15 \/ h = 16
  OBVIOUS
<1>. QED
  BY <1>1

\* The geometry written to a VHD footer addresses no sector past the end of the
\* disk and fits its fields, for every size of disk (run_vhd.go, vhdCHSGeometry).
THEOREM GeometryAlwaysSound ==
  ASSUME NEW n \in Nat
  PROVE  GeometrySound(n)
<1>. DEFINE total == IF n > ChsMax THEN ChsMax ELSE n
            G(spt, heads) == [c |-> (total \div spt) \div heads, h |-> heads, s |-> spt]
            tracks == (total \div 17) + 1023
            h17 == IF tracks \div 1024 < 4 THEN 4 ELSE tracks \div 1024
            not17 == (total \div 17) >= h17 * 1024 \/ h17 > 16
<1>1. ChsMax = 267382800
  BY DEF ChsMax
<1>2. total \in Nat /\ total <= n /\ total <= 267382800
  BY <1>1
<1>3. Chs(n) = IF total >= 65535 * 16 * 63 THEN G(255, 16)
               ELSE IF ~not17 THEN G(17, h17)
               ELSE IF (total \div 31) < 16 * 1024 THEN G(31, 16)
               ELSE G(63, 16)
  BY DEF Chs
<1>. HIDE DEF total
<1>4. CASE total >= 65535 * 16 * 63
  <2>1. Chs(n) = G(255, 16)
    BY <1>3, <1>4
  <2>2. /\ ((total \div 255) \div 16) \in Nat
        /\ ((total \div 255) \div 16) * 16 * 255 <= total
        /\ ((total \div 255) \div 16) < 65536
    BY <1>2
  <2>. QED
    BY <2>1, <2>2, <1>2 DEF GeometrySound
<1>5. CASE total < 65535 * 16 * 63 /\ ~not17
  <2>1. Chs(n) = G(17, h17)
    BY <1>2, <1>3, <1>5
  <2>2. h17 \in 4..16
    BY <1>2, <1>5
  <2>3. total \div 17 \in Nat /\ (total \div 17) * 17 <= total
    BY <1>2
  <2>4. total \div 17 < h17 * 1024
    BY <1>5, <2>2, <2>3
  <2>. HIDE DEF h17
  <2>5. /\ ((total \div 17) \div h17) \in Nat
        /\ ((total \div 17) \div h17) * h17 <= total \div 17
        /\ ((total \div 17) \div h17) < 1024
    BY <2>2, <2>3, <2>4, Heads
  <2>6. ((total \div 17) \div h17) * h17 * 17 <= total
    BY <2>2, <2>3, <2>5, <1>2
  <2>. QED
    BY <2>1, <2>2, <2>5, <2>6, <1>2 DEF GeometrySound
<1>6. CASE total < 65535 * 16 * 63 /\ not17 /\ (total \div 31) < 16 * 1024
  <2>1. Chs(n) = G(31, 16)
    BY <1>2, <1>3, <1>6
  <2>2. /\ ((total \div 31) \div 16) \in Nat
        /\ ((total \div 31) \div 16) * 16 * 31 <= total
        /\ ((total \div 31) \div 16) < 65536
    BY <1>2, <1>6, SMT
  <2>. QED
    BY <2>1, <2>2, <1>2 DEF GeometrySound
<1>7. CASE total < 65535 * 16 * 63 /\ not17 /\ ~((total \div 31) < 16 * 1024)
  <2>1. Chs(n) = G(63, 16)
    BY <1>2, <1>3, <1>7
  <2>2. /\ ((total \div 63) \div 16) \in Nat
        /\ ((total \div 63) \div 16) * 16 * 63 <= total
        /\ ((total \div 63) \div 16) < 65536
    BY <1>2, <1>7, SMT
  <2>. QED
    BY <2>1, <2>2, <1>2 DEF GeometrySound
<1>. QED
  BY <1>2, <1>4, <1>5, <1>6, <1>7

----------------------------------------------------------------------------
(* COPY and ADD. *)

\* What path.Clean has after some of the components: ".." only at the start, and
\* only in a path that is not rooted.
Climbs(w, rooted) ==
    \A k \in DOMAIN w : w[k] = ".." => ~rooted /\ \A l \in 1..k : w[l] = ".."

LEMMA CleanStepKeeps ==
  ASSUME NEW C, NEW w \in Seq(C), NEW c \in C, NEW r \in BOOLEAN, Climbs(w, r)
  PROVE  CleanStep(r, w, c) \in Seq(C) /\ Climbs(CleanStep(r, w, c), r)
<1>. DEFINE t == CleanStep(r, w, c)
<1>0. /\ Len(w) \in Nat /\ DOMAIN w = 1..Len(w)
      /\ Append(w, c) \in Seq(C) /\ DOMAIN Append(w, c) = 1..(Len(w) + 1)
      /\ Append(w, c)[Len(w) + 1] = c
      /\ \A k \in 1..Len(w) : Append(w, c)[k] = w[k]
  OBVIOUS
<1>1. CASE t = w
  BY <1>1
<1>2. CASE t = Append(w, c) /\ c # ".."
  <2>1. ASSUME NEW k \in DOMAIN t, t[k] = ".."
        PROVE  ~r /\ \A l \in 1..k : t[l] = ".."
    <3>1. k \in 1..Len(w) /\ w[k] = ".."
      BY <1>0, <1>2, <2>1
    <3>2. ~r /\ \A l \in 1..k : w[l] = ".."
      BY <1>0, <3>1 DEF Climbs
    <3>. HIDE DEF t
    <3>. QED
      BY <1>0, <1>2, <3>1, <3>2
  <2>. HIDE DEF t
  <2>. QED
    BY <1>0, <1>2, <2>1 DEF Climbs, t
<1>3. CASE t = Front(w) /\ w # <<>>
  <2>. DEFINE s == SubSeq(w, 1, Len(w) - 1)
  <2>1. /\ Len(w) - 1 \in Nat /\ s \in Seq(C) /\ DOMAIN s = 1..(Len(w) - 1)
        /\ \A k \in 1..(Len(w) - 1) : s[k] = w[k] /\ k \in DOMAIN w
    BY <1>0, <1>3
  <2>. HIDE DEF s, t
  <2>2. t = s
    BY <1>3 DEF s, Front
  <2>3. Climbs(t, r)
    <3>1. ASSUME NEW k \in DOMAIN t, t[k] = ".."
          PROVE  ~r /\ \A l \in 1..k : t[l] = ".."
      <4>1. k \in 1..(Len(w) - 1) /\ w[k] = ".."
        BY <2>1, <2>2, <3>1
      <4>2. ~r /\ \A l \in 1..k : w[l] = ".."
        BY <2>1, <4>1 DEF Climbs
      <4>3. \A l \in 1..k : l \in 1..(Len(w) - 1)
        BY <2>1, <4>1
      <4>. QED
        BY <2>1, <2>2, <4>2, <4>3
    <3>. QED
      BY <3>1 DEF Climbs
  <2>. QED
    BY <2>1, <2>2, <2>3 DEF t
<1>4. CASE t = Append(w, c) /\ c = ".." /\ ~r /\ (w = <<>> \/ w[Len(w)] = "..")
  <2>1. \A l \in 1..Len(w) : w[l] = ".."
    <3>1. CASE w = <<>>
      BY <3>1
    <3>2. CASE w # <<>>
      <4>1. Len(w) \in DOMAIN w
        BY <1>0, <3>2
      <4>. QED
        BY <1>4, <3>2, <4>1 DEF Climbs
    <3>. QED
      BY <3>1, <3>2
  <2>. HIDE DEF t
  <2>2. \A l \in DOMAIN t : t[l] = ".."
    BY <1>0, <1>4, <2>1
  <2>3. ASSUME NEW k \in DOMAIN t
        PROVE  \A l \in 1..k : l \in DOMAIN t
    BY <1>0, <1>4
  <2>. QED
    BY <1>0, <1>4, <2>2, <2>3 DEF Climbs, t
<1>5. t = w \/ (t = Append(w, c) /\ c # "..") \/ (t = Front(w) /\ w # <<>>)
      \/ (t = Append(w, c) /\ c = ".." /\ ~r /\ (w = <<>> \/ w[Len(w)] = ".."))
  BY DEF CleanStep
<1>. QED
  BY <1>1, <1>2, <1>3, <1>4, <1>5

\* The components path.Clean keeps are the path's own, and climb only at the start.
LEMMA WalkedClimbs ==
  ASSUME NEW C, NEW p \in Seq(C)
  PROVE  Walked(p) \in Seq(C) /\ Climbs(Walked(p), Rooted(p))
<1>. DEFINE N == Len(p)
            V == Seq(C)
            a == <<>>
            r == Rooted(p)
            G == [x \in (1..N) \X V |->
                    IF Climbs(x[2], r) THEN CleanStep(r, x[2], p[x[1]]) ELSE <<>>]
            walk == CHOOSE h : h = [n \in 0..N |-> IF n = 0 THEN <<>>
                                                   ELSE CleanStep(r, h[n - 1], p[n])]
<1>1. N \in Nat /\ a \in V /\ r \in BOOLEAN /\ \A k \in 1..N : p[k] \in C
  BY DEF Rooted
<1>a. Climbs(<<>>, r)
  BY DEF Climbs
<1>. HIDE DEF r
<1>2. G \in [(1..N) \X V -> V]
  <2>1. ASSUME NEW x \in (1..N) \X V
        PROVE  (IF Climbs(x[2], r) THEN CleanStep(r, x[2], p[x[1]]) ELSE <<>>) \in V
    <3>1. x[1] \in 1..N /\ x[2] \in V /\ p[x[1]] \in C
      BY <1>1
    <3>. QED
      BY <1>1, <3>1, CleanStepKeeps
  <2>. QED
    BY <2>1
<1>3. PICK g \in [0..N -> V] : Iterates(g, a, G, N)
  <2>. HIDE DEF N, V, G, a
  <2>. QED
    BY <1>1, <1>2, RecursionUpTo
<1>4. \A n \in 0..N : n \in {k \in 0..N : Climbs(g[k], r)}
  <2>. DEFINE S == {k \in 0..N : Climbs(g[k], r)}
  <2>1. 0 \in S
    BY <1>1, <1>a, <1>3 DEF Iterates
  <2>2. \A n \in 0..(N - 1) : n \in S => n + 1 \in S
    <3>1. SUFFICES ASSUME NEW n \in 0..(N - 1), n \in S
                   PROVE  n + 1 \in S
      OBVIOUS
    <3>2. n + 1 \in 1..N /\ (n + 1) - 1 = n /\ n + 1 \in 0..N /\ n \in 0..N
      BY <1>1
    <3>3. <<n + 1, g[n]>> \in (1..N) \X V
      BY <3>2
    <3>4. g[n + 1] = G[<<n + 1, g[n]>>]
      BY <1>3, <3>2 DEF Iterates
    <3>5. g[n + 1] = CleanStep(r, g[n], p[n + 1])
      BY <3>1, <3>3, <3>4
    <3>6. Climbs(g[n + 1], r)
      BY <1>1, <3>1, <3>2, <3>5, CleanStepKeeps
    <3>. QED
      BY <3>2, <3>6
  <2>. HIDE DEF S
  <2>3. \A n \in 0..N : n \in S
    BY <1>1, <2>1, <2>2, UpToInduction
  <2>. QED
    BY <2>3 DEF S
<1>5. g = [n \in 0..N |-> IF n = 0 THEN <<>> ELSE CleanStep(r, g[n - 1], p[n])]
  <2>1. ASSUME NEW n \in 1..N
        PROVE  g[n] = CleanStep(r, g[n - 1], p[n])
    <3>1. n - 1 \in 0..N
      BY <1>1
    <3>2. <<n, g[n - 1]>> \in (1..N) \X V /\ Climbs(g[n - 1], r)
      BY <1>4, <3>1
    <3>. QED
      BY <1>3, <3>2 DEF Iterates
  <2>2. \A n \in 0..N : n = 0 \/ n \in 1..N
    BY <1>1
  <2>3. g[0] = <<>>
    BY <1>3 DEF Iterates
  <2>. HIDE DEF N, V, G
  <2>. QED
    BY <2>1, <2>2, <2>3
<1>6. walk = [n \in 0..N |-> IF n = 0 THEN <<>> ELSE CleanStep(r, walk[n - 1], p[n])]
  <2>. HIDE DEF N, V, G
  <2>. QED
    BY <1>5
<1>7. walk[N] = Walked(p)
  BY DEF Walked, r
<1>. HIDE DEF walk
<1>8. walk[0] = <<>> /\ \A n \in 1..N : walk[n] = CleanStep(r, walk[n - 1], p[n])
  <2>1. \A n \in 0..N : walk[n] = IF n = 0 THEN <<>> ELSE CleanStep(r, walk[n - 1], p[n])
    BY <1>6, Zenon
  <2>2. 0 \in 0..N /\ \A n \in 1..N : n \in 0..N /\ n # 0
    BY <1>1
  <2>. HIDE DEF N
  <2>. QED
    BY <2>1, <2>2
<1>9. \A n \in 0..N : n \in {k \in 0..N : walk[k] \in V /\ Climbs(walk[k], r)}
  <2>. DEFINE S == {k \in 0..N : walk[k] \in V /\ Climbs(walk[k], r)}
  <2>1. 0 \in S
    <3>1. 0 \in 0..N /\ <<>> \in V
      BY <1>1
    <3>. HIDE DEF N, V
    <3>. QED
      BY <1>a, <1>8, <3>1
  <2>2. \A n \in 0..(N - 1) : n \in S => n + 1 \in S
    <3>1. SUFFICES ASSUME NEW n \in 0..(N - 1), n \in S
                   PROVE  n + 1 \in S
      OBVIOUS
    <3>2. n + 1 \in 1..N /\ (n + 1) - 1 = n /\ n + 1 \in 0..N /\ n \in 0..N
      BY <1>1
    <3>3. walk[n + 1] = CleanStep(r, walk[n], p[n + 1])
      BY <1>8, <3>2
    <3>4. walk[n + 1] \in V /\ Climbs(walk[n + 1], r)
      BY <1>1, <3>1, <3>2, <3>3, CleanStepKeeps
    <3>. QED
      BY <3>2, <3>4
  <2>. HIDE DEF S
  <2>3. \A n \in 0..N : n \in S
    BY <1>1, <2>1, <2>2, UpToInduction
  <2>. QED
    BY <2>3 DEF S
<1>10. N \in 0..N
  BY <1>1
<1>. QED
  BY <1>7, <1>9, <1>10 DEF r

\* The components of a path, the two that path.Clean puts in among them.
Components == STRING \cup {"", "."}

LEMMA One ==
  ASSUME NEW C, NEW c \in C
  PROVE  /\ <<c>> \in Seq(C) /\ Len(<<c>>) = 1 /\ <<c>>[1] = c
         /\ <<c>> # <<>> /\ \A k \in DOMAIN <<c>> : <<c>>[k] = c
OBVIOUS

LEMMA OneComponent ==
  ASSUME NEW c \in {"", "."}
  PROVE  /\ <<c>> \in Seq(Components) /\ Len(<<c>>) = 1 /\ <<c>>[1] = c
         /\ <<c>> # <<>> /\ \A k \in DOMAIN <<c>> : <<c>>[k] # ".."
<1>1. c \in Components
  BY DEF Components
<1>2. c # ".."
  OBVIOUS
<1>3. /\ <<c>> \in Seq(Components) /\ Len(<<c>>) = 1 /\ <<c>>[1] = c
      /\ <<c>> # <<>> /\ \A k \in DOMAIN <<c>> : <<c>>[k] = c
  BY <1>1, One, Zenon
<1>. QED
  BY <1>2, <1>3, Zenon

LEMMA SeqFacts ==
  ASSUME NEW C, NEW s \in Seq(C)
  PROVE  Len(s) \in Nat /\ DOMAIN s = 1..Len(s)
OBVIOUS

LEMMA WiderSeq ==
  ASSUME NEW C, NEW D, C \subseteq D, NEW s \in Seq(C)
  PROVE  s \in Seq(D)
OBVIOUS

\* A cleaned path has a component, and climbs nowhere unless it does at once.
LEMMA CleanFacts ==
  ASSUME NEW p \in Seq(Components)
  PROVE  /\ Clean(p) \in Seq(Components) /\ Clean(p) # <<>>
         /\ Clean(p)[1] # ".." => \A k \in DOMAIN Clean(p) : Clean(p)[k] # ".."
<1>. DEFINE w == Walked(p)
<1>1. w \in Seq(Components) /\ Climbs(w, Rooted(p))
  BY WalkedClimbs
<1>. HIDE DEF w
<1>2. Len(w) \in Nat /\ DOMAIN w = 1..Len(w)
  BY <1>1, SeqFacts
<1>3. CASE ~Rooted(p) /\ w = <<>>
  <2>1. Clean(p) = <<".">>
    BY <1>3 DEF Clean, w
  <2>. QED
    BY <2>1, OneComponent, Zenon
<1>4. CASE ~Rooted(p) /\ w # <<>>
  <2>1. Clean(p) = w
    BY <1>4 DEF Clean, w
  <2>2. ASSUME NEW k \in DOMAIN w, w[k] = ".."
        PROVE  w[1] = ".."
    <3>1. 1 \in 1..k
      BY <1>2
    <3>. QED
      BY <1>1, <2>2, <3>1 DEF Climbs
  <2>. QED
    BY <1>1, <1>4, <2>1, <2>2
<1>5. CASE Rooted(p)
  <2>. DEFINE t == <<"">>
              v == IF w = <<>> THEN <<"">> ELSE w
  <2>1. Clean(p) = t \o v
    BY <1>5 DEF Clean, w
  <2>2. v \in Seq(Components) /\ \A k \in DOMAIN v : v[k] # ".."
    <3>1. CASE w = <<>>
      BY <3>1, OneComponent, Zenon
    <3>2. CASE w # <<>>
      BY <1>1, <1>5, <3>2 DEF Climbs
    <3>. QED
      BY <3>1, <3>2
  <2>3. t \in Seq(Components) /\ Len(t) = 1
    BY OneComponent, Zenon
  <2>a. t[1] # ".."
    BY OneComponent
  <2>. HIDE DEF t, v
  <2>4. /\ t \o v \in Seq(Components) /\ Len(t \o v) = Len(t) + Len(v)
        /\ \A k \in 1..(Len(t) + Len(v)) :
              (t \o v)[k] = IF k <= Len(t) THEN t[k] ELSE v[k - Len(t)]
    BY <2>2, <2>3, ConcatProperties
  <2>5. Len(v) \in Nat /\ DOMAIN v = 1..Len(v) /\ DOMAIN (t \o v) = 1..Len(t \o v)
    BY <2>2, <2>4, SeqFacts
  <2>6. ASSUME NEW k \in DOMAIN (t \o v)
        PROVE  (t \o v)[k] # ".."
    <3>1. CASE k = 1
      <4>1. (t \o v)[k] = t[1]
        BY <2>3, <2>4, <2>5, <3>1
      <4>. QED
        BY <2>a, <4>1
    <3>2. CASE k # 1
      <4>1. k - 1 \in DOMAIN v /\ (t \o v)[k] = v[k - 1]
        BY <2>3, <2>4, <2>5, <3>2
      <4>. QED
        BY <2>2, <4>1
    <3>. QED
      BY <3>1, <3>2
  <2>7. t \o v # <<>>
    BY <2>3, <2>4, <2>5
  <2>. QED
    BY <2>1, <2>4, <2>6, <2>7
<1>. QED
  BY <1>3, <1>4, <1>5

\* What TrimPrefix and TrimSuffix leave of a destination is a path.
LEMMA DestType ==
  ASSUME NEW C, NEW d, d.dest \in Seq(C)
  PROVE  Dest(d) \in Seq(C)
<1>1. ASSUME NEW p \in Seq(C)
      PROVE  TrimPrefix(p) \in Seq(C)
  <2>1. Len(p) > 1 => Tail(p) \in Seq(C)
    OBVIOUS
  <2>. QED
    BY <2>1 DEF TrimPrefix
<1>2. ASSUME NEW p \in Seq(C)
      PROVE  TrimSuffix(p) \in Seq(C)
  <2>1. Len(p) > 1 => SubSeq(p, 1, Len(p) - 1) \in Seq(C)
    OBVIOUS
  <2>. QED
    BY <2>1 DEF TrimSuffix, Front
<1>. QED
  BY <1>1, <1>2 DEF Dest

\* A destination that does not climb leaves no entry that does.
LEMMA EntryContained ==
  ASSUME NEW d, d.dest \in Seq(STRING), NEW name \in Seq(STRING), Inside(Dest(d), name)
  PROVE  LET top  == Clean(Dest(d))
             path == Joined(Dest(d), name)
         IN  /\ IsPrefix(top, path)
             /\ top[1] # ".." => \A c \in DOMAIN path : path[c] # ".."
<1>. DEFINE top  == Clean(Dest(d))
            path == Joined(Dest(d), name)
<1>1. Dest(d) \in Seq(Components) /\ name \in Seq(Components)
  <2>1. \A s \in Seq(STRING) : s \in Seq(Components)
    BY WiderSeq DEF Components
  <2>. QED
    BY <2>1, DestType
<1>2. Dest(d) \o name \in Seq(Components)
  BY <1>1, ConcatProperties
<1>3. /\ top \in Seq(Components) /\ top # <<>>
      /\ path \in Seq(Components) /\ path # <<>>
      /\ path[1] # ".." => \A c \in DOMAIN path : path[c] # ".."
  BY <1>1, <1>2, CleanFacts DEF Joined
<1>4. IsPrefix(top, path)
  BY DEF Inside
<1>. HIDE DEF top, path
<1>5. top[1] = path[1]
  <2>1. Len(top) <= Len(path) /\ top = SubSeq(path, 1, Len(top))
    BY <1>3, <1>4 DEF IsPrefix
  <2>2. Len(top) \in Nat /\ Len(top) >= 1
    BY <1>3
  <2>. QED
    BY <1>3, <2>1, <2>2
<1>. QED
  BY <1>3, <1>4, <1>5 DEF top, path

\* Whatever the directives and the entries of their tarballs are, resolveCopies puts no
\* entry outside the destination it was added to (safeImagePath).
THEOREM CopiesContained ==
  ASSUME NEW copies,
         \A c \in ToSet(copies) :
            c.dest \in Seq(STRING) /\ \A e \in ToSet(c.items) : e.name \in Seq(STRING)
  PROVE  Contained(ResolveCopies(copies).files)
<1>1. SUFFICES ASSUME NEW f \in ResolveCopies(copies).files, f.from.kind = "tar"
               PROVE  LET top == Clean(Dest(f.from))
                      IN  /\ IsPrefix(top, f.path)
                          /\ top[1] # ".." => \A c \in DOMAIN f.path : f.path[c] # ".."
  BY DEF Contained
<1>2. PICK d \in ToSet(copies) : f \in ResolveCopy(d).files
  BY <1>1 DEF ResolveCopies, Found, Failed
<1>3. f.from = d
  <2>1. CASE d.kind = "url"
    BY <1>2, <2>1 DEF ResolveCopy, Found, Failed, File
  <2>2. CASE d.kind = "tar"
    BY <1>2, <2>2 DEF ResolveCopy, ExtractTarball, Found, Failed, File
  <2>3. CASE d.kind \notin {"url", "tar"}
    <3>1. f \in LocalCopy(d).files
      BY <1>2, <2>3 DEF ResolveCopy
    <3>. QED
      BY <3>1 DEF LocalCopy, Found, Failed, File
  <2>. QED
    BY <2>1, <2>2, <2>3
<1>4. f \in ExtractTarball(d).files
  BY <1>1, <1>2, <1>3 DEF ResolveCopy
<1>5. PICK e \in ToSet(d.items) : Inside(Dest(d), e.name)
                                  /\ f = File(Joined(Dest(d), e.name), d)
  BY <1>4 DEF ExtractTarball, Found, Failed
<1>6. f.path = Joined(Dest(d), e.name)
  BY <1>5 DEF File
<1>. QED
  BY <1>2, <1>3, <1>5, <1>6, EntryContained

----------------------------------------------------------------------------
(***************************************************************************)
(* Types.  The run checks TypeOK; a job, an image and a lock file need     *)
(* their fields too.                                                       *)
(***************************************************************************)
Revs      == 0..Len(Nimbusfiles)
SetNos    == 0..Len(Sets)
Numbers   == 0..MaxPairs
PairType  == [key : Int, cert : Int]
ImageType == [rev : Revs, set : SetNos, cmd : CommandType, pair : PairType,
              whole : BOOLEAN]
JobType   == [cmd : CommandType, rev : Revs, set : SetNos, pair : PairType,
              whole : BOOLEAN, reread : Revs, hash : SUBSET ImageType]
LockType  == [rev : Revs, set : SetNos, pair : PairType, uki : BOOLEAN,
              hash : SUBSET ImageType]

BuildTypes ==
    /\ nimb \in 1..Len(Nimbusfiles) /\ pub \in 1..Len(Sets)
    /\ step \in [Builds -> Steps]
    /\ job \in [Builds -> JobType]
    /\ temps \in [Builds -> SUBSET Temps]
    /\ image \in [Builds -> SUBSET ImageType]
    /\ lock \in [Builds -> SUBSET LockType]
    /\ runs \in [Builds -> 0..MaxRuns]

Types == KeyTypeOK /\ BuildTypes

LEMMA Lengths ==
  /\ Len(Nimbusfiles) \in Nat \ {0} /\ DOMAIN Nimbusfiles = 1..Len(Nimbusfiles)
  /\ Len(Sets) \in Nat \ {0} /\ DOMAIN Sets = 1..Len(Sets)
<1>1. ASSUME NEW s, s \in Seq({s[k] : k \in DOMAIN s}), s # <<>>
      PROVE  Len(s) \in Nat \ {0} /\ DOMAIN s = 1..Len(s)
  <2>. DEFINE T == {s[k] : k \in DOMAIN s}
  <2>. HIDE DEF T
  <2>1. s \in Seq(T)
    BY <1>1 DEF T
  <2>. QED
    BY <2>1, <1>1
<1>. QED
  BY <1>1, InputsAssumption

\* A job just begun.
LEMMA NewJobType ==
  ASSUME NEW c \in CommandType
  PROVE  NewJob(c) \in JobType /\ NewJob(c).rev = 0 /\ NewJob(c).cmd = c
  BY Lengths DEF NewJob, JobType, Revs, SetNos, PairType, NoPair

LEMMA NoJobType == NoJob \in JobType
<1>1. [secure |-> "off", uki |-> FALSE, lock |-> FALSE] \in CommandType
  BY DEF CommandType
<1>. QED
  BY <1>1, NewJobType DEF NoJob

LEMMA TypesInit == Init => Types
  BY Lengths, NoJobType, BoundAssumption, SizesAssumption
  DEF Init, KeyInit, Types, KeyTypeOK, BuildTypes, Steps, KeySteps, NoPair, Mishaps

\* LoadOrGenerate and Save keep the types of the pair.
LEMMA KeyStepTypes ==
  ASSUME KeyTypeOK, NEW p \in Procs, KeyStep(p)
  PROVE  KeyTypeOK'
<1>. USE BoundAssumption DEF KeyTypeOK, KeySteps, Mishaps
<1>1. CASE Stat(p)
  BY <1>1 DEF Stat
<1>2. CASE LoadKey(p)
  BY <1>2 DEF LoadKey, LoadFails, NotLoaded
<1>3. CASE LoadCert(p)
  BY <1>3 DEF LoadCert, LoadFails, NotLoaded
<1>4. CASE Generate(p)
  BY <1>4 DEF Generate
<1>5. CASE SaveKey(p)
  BY <1>5 DEF SaveKey
<1>6. CASE SaveCert(p)
  BY <1>6 DEF SaveCert
<1>7. CASE KeyFail(p)
  BY <1>7 DEF KeyFail
<1>. QED
  BY <1>1, <1>2, <1>3, <1>4, <1>5, <1>6, <1>7 DEF KeyStep

\* What a build has decided is typed before and after each of its steps.
LEMMA BuildTypesStep ==
  ASSUME Types, NEW p \in Builds, Build(p)
  PROVE  Types'
<1>. USE Lengths DEF Types, BuildTypes, KeyTypeOK, Goes
<1>0. /\ p \in Procs /\ job[p] \in JobType
      /\ nimb \in Revs /\ pub \in SetNos /\ OwnPair \in PairType
  BY DEF Procs, Revs, SetNos, OwnPair, PairType
<1>a. mem[p] \in PairType
  BY <1>0, BoundAssumption DEF PairType
<1>1. CASE Start(p)
  BY <1>0, <1>1, NewJobType, CommandsAssumption, SizesAssumption DEF Start, keyVars, Steps
<1>2. CASE Parse(p)
  BY <1>0, <1>2 DEF Parse, keyVars, Steps, JobType
<1>3. CASE Resolve(p)
  BY <1>0, <1>3 DEF Resolve, keyVars, Steps, JobType
<1>4. CASE Check(p)
  BY <1>0, <1>4 DEF Check, keyVars, Steps
<1>5. CASE Assemble(p)
  BY <1>0, <1>5 DEF Assemble, keyVars, Steps, Temps
<1>6. CASE SignOwn(p)
  BY <1>0, <1>6 DEF SignOwn, keyVars, Steps, JobType
<1>7. CASE AskKeys(p)
  BY <1>0, <1>7, BoundAssumption DEF AskKeys, Enter, buildVars, KeySteps, NoPair, Mishaps
<1>8. CASE SignAuto(p)
  <2>1. job' \in [Builds -> JobType]
    BY <1>0, <1>a, <1>8 DEF SignAuto, JobType
  <2>2. KeyTypeOK'
    BY <1>0, <1>8, BoundAssumption DEF SignAuto, KeySteps, NoPair
  <2>. QED
    BY <2>1, <2>2, <1>8 DEF SignAuto, Steps
<1>9. CASE Workspace(p)
  BY <1>0, <1>9 DEF Workspace, keyVars, Steps, Temps
<1>10. CASE Create(p)
  BY <1>0, <1>10 DEF Create, keyVars, Steps, Temps
<1>11. CASE Finish(p)
  BY <1>0, <1>11 DEF Finish, keyVars, Steps, JobType
<1>12. CASE Rename(p)
  BY <1>0, <1>12 DEF Rename, ImageOf, keyVars, Steps, JobType, ImageType
<1>13. CASE LockRead(p)
  BY <1>0, <1>13 DEF LockRead, keyVars, Steps, JobType
<1>14. CASE LockHash(p)
  BY <1>0, <1>14 DEF LockHash, keyVars, Steps, JobType
<1>15. CASE LockWrite(p)
  BY <1>0, <1>15 DEF LockWrite, keyVars, Steps, Temps
<1>16. CASE LockRename(p)
  BY <1>0, <1>16 DEF LockRename, Lock, keyVars, Steps, JobType, LockType, CommandType
<1>. QED
  BY <1>1, <1>2, <1>3, <1>4, <1>5, <1>6, <1>7, <1>8, <1>9, <1>10, <1>11, <1>12, <1>13, <1>14, <1>15, <1>16 DEF Build

\* Every step of the system keeps the types.
LEMMA TypesStep == Types /\ [Next]_vars => Types'
<1>. SUFFICES ASSUME Types, [Next]_vars PROVE Types'
  OBVIOUS
<1>. USE Lengths DEF Types, BuildTypes
<1>1. CASE Edit
  BY <1>1 DEF Edit, keyVars, KeyTypeOK
<1>2. CASE Republish
  BY <1>2 DEF Republish, keyVars, KeyTypeOK
<1>3. ASSUME NEW p \in Builds, Build(p) PROVE Types'
  BY <1>3, BuildTypesStep DEF Types
<1>0. NoPair \in [key : 0..MaxPairs, cert : 0..MaxPairs]
  BY BoundAssumption DEF NoPair
<1>4. ASSUME NEW p \in Builds, Fail(p) \/ Kill(p) PROVE Types'
  <2>0. p \in Procs
    BY DEF Procs
  <2>1. CASE Fail(p)
    <3>1. KeyTypeOK'
      BY <1>0, <2>0, <2>1 DEF Fail, KeyTypeOK, KeySteps
    <3>2. BuildTypes'
      BY <2>1, NoJobType DEF Fail, Steps
    <3>. QED
      BY <3>1, <3>2 DEF Types
  <2>2. CASE Kill(p)
    <3>1. KeyTypeOK'
      BY <1>0, <2>0, <2>2 DEF Kill, KeyTypeOK, KeySteps
    <3>2. BuildTypes'
      BY <2>2, NoJobType DEF Kill, Steps
    <3>. QED
      BY <3>1, <3>2 DEF Types
  <2>. QED
    BY <1>4, <2>1, <2>2
<1>5. ASSUME NEW p \in Keygens, Keygen(p) \/ KeygenKill(p) PROVE Types'
  <2>0. p \in Procs
    BY DEF Procs
  <2>1. CASE Keygen(p)
    BY <1>0, <2>0, <2>1 DEF Keygen, Enter, KeyTypeOK, KeySteps, buildVars, Mishaps
  <2>2. CASE KeygenKill(p)
    BY <1>0, <2>0, <2>2 DEF KeygenKill, KeyTypeOK, KeySteps, buildVars
  <2>. QED
    BY <1>5, <2>1, <2>2
<1>6. ASSUME NEW p \in Procs, KeyStep(p), UNCHANGED buildVars PROVE Types'
  BY <1>6, KeyStepTypes DEF buildVars
<1>7. CASE UNCHANGED vars
  BY <1>7 DEF vars, keyVars, buildVars, KeyTypeOK
<1>. QED
  BY <1>1, <1>2, <1>3, <1>4, <1>5, <1>6, <1>7 DEF Next

\* A step is this build's own, or leaves its files and what it has read alone.
Same(p) ==
    /\ nimb' >= nimb
    /\ step'[p] = step[p] /\ job'[p] = job[p] /\ temps'[p] = temps[p]
    /\ image'[p] = image[p] /\ lock'[p] = lock[p]

Own(p) == Build(p) \/ Fail(p) \/ Kill(p)

LEMMA Frame ==
  ASSUME Types, [Next]_vars, NEW p \in Builds
  PROVE  Own(p) \/ Same(p)
<1>. USE Lengths DEF Types, BuildTypes, Same
<1>1. CASE Edit
  BY <1>1 DEF Edit
<1>2. CASE Republish
  BY <1>2 DEF Republish
<1>3. ASSUME NEW q \in Builds, q # p, Build(q) PROVE Same(p)
  <2>. USE <1>3 DEF Goes
  <2>1. CASE Start(q)
    BY <2>1 DEF Start
  <2>2. CASE Parse(q)
    BY <2>2 DEF Parse
  <2>3. CASE Resolve(q)
    BY <2>3 DEF Resolve
  <2>4. CASE Check(q)
    BY <2>4 DEF Check
  <2>5. CASE Assemble(q)
    BY <2>5 DEF Assemble
  <2>6. CASE SignOwn(q)
    BY <2>6 DEF SignOwn
  <2>7. CASE AskKeys(q)
    BY <2>7 DEF AskKeys, buildVars
  <2>8. CASE SignAuto(q)
    BY <2>8 DEF SignAuto
  <2>9. CASE Workspace(q)
    BY <2>9 DEF Workspace
  <2>10. CASE Create(q)
    BY <2>10 DEF Create
  <2>11. CASE Finish(q)
    BY <2>11 DEF Finish
  <2>12. CASE Rename(q)
    BY <2>12 DEF Rename
  <2>13. CASE LockRead(q)
    BY <2>13 DEF LockRead
  <2>14. CASE LockHash(q)
    BY <2>14 DEF LockHash
  <2>15. CASE LockWrite(q)
    BY <2>15 DEF LockWrite
  <2>16. CASE LockRename(q)
    BY <2>16 DEF LockRename
  <2>. QED
    BY <2>1, <2>2, <2>3, <2>4, <2>5, <2>6, <2>7, <2>8, <2>9, <2>10, <2>11, <2>12, <2>13, <2>14, <2>15, <2>16 DEF Build
<1>4. ASSUME NEW q \in Builds, q # p, Fail(q) \/ Kill(q) PROVE Same(p)
  BY <1>4 DEF Fail, Kill
<1>5. CASE UNCHANGED buildVars
  BY <1>5 DEF buildVars
<1>. QED
  BY <1>1, <1>2, <1>3, <1>4, <1>5 DEF Next, Own, Keygen, KeygenKill, vars

----------------------------------------------------------------------------
(***************************************************************************)
(* One build. What it has read and checked, and what it owns.              *)
(***************************************************************************)
Locking      == {"lockread", "lockhash", "lockwrite", "lockrename"}
AfterParse   == Steps \ {"off", "parse", "failed"}
AfterResolve == AfterParse \ {"resolve"}
AfterCheck   == AfterResolve \ {"check"}
AfterCopies  == AfterCheck \ {"assemble"}
AfterSpace   == AfterCheck \ {"assemble", "keys", "workspace"}

\* The size of what boots, of a job or of an image.
Size(r) ==
    Sets[r.set].vmlinuz + (IF r.cmd.uki THEN Nimbusfiles[r.rev].initramfs ELSE 0)
      + (IF r.cmd.secure = "off" THEN 0 ELSE SigSize)

Sound(r) == Nimbusfiles[r.rev].format = "iso"
              => FitsElTorito(Size(r), Nimbusfiles[r.rev].initramfs)

\* The directives were resolved, all of them.
Copied(r) == ResolveCopies(Nimbusfiles[r.rev].copies).ok

\* A build knows what it parsed, resolved and checked.
Known(p) ==
    /\ step[p] \in AfterParse => job[p].rev \in 1..nimb
    /\ step[p] \in AfterResolve => job[p].set \in 1..Len(Sets)
    /\ step[p] \in AfterCheck => Compatible(Nimbusfiles[job[p].rev], Sets[job[p].set])
    /\ step[p] \in AfterCopies => Copied(job[p])
    /\ step[p] \in AfterSpace => Sound(job[p])
    /\ step[p] \in {"rename"} \cup Locking => job[p].whole

LEMMA KnownStep ==
  ASSUME Types, [Next]_vars, NEW p \in Builds, Known(p)
  PROVE  Known(p)'
<1>0. /\ step[p] \in Steps /\ job[p] \in JobType
      /\ nimb \in 1..Len(Nimbusfiles) /\ pub \in 1..Len(Sets)
      /\ nimb' \in 1..Len(Nimbusfiles)
  BY TypesStep DEF Types, BuildTypes
<1>. USE <1>0, Lengths DEF Types, BuildTypes, Known, AfterParse, AfterResolve, AfterCheck,
         AfterCopies, AfterSpace, Locking, Steps, Goes, JobType
<1>1. CASE Start(p)
  BY <1>1 DEF Start, NewJob
<1>2. CASE Parse(p)
  BY <1>2 DEF Parse
<1>3. CASE Resolve(p)
  BY <1>3 DEF Resolve
<1>4. CASE Check(p)
  BY <1>4 DEF Check, Nimb, Set
<1>5. CASE Assemble(p)
  BY <1>5 DEF Assemble, Copied, Nimb
<1>6. CASE SignOwn(p)
  BY <1>6 DEF SignOwn, Sound, Size, Copied
<1>7. CASE AskKeys(p)
  BY <1>7 DEF AskKeys, buildVars
<1>8. CASE SignAuto(p)
  BY <1>8 DEF SignAuto, Sound, Size, Copied
<1>9. CASE Workspace(p)
  BY <1>9 DEF Workspace, Nimb, Set, VmlinuzSize, Sound, Size, Copied
<1>10. CASE Create(p)
  BY <1>10 DEF Create
<1>11. CASE Finish(p)
  BY <1>11 DEF Finish, Sound, Size, Copied
<1>12. CASE Rename(p)
  BY <1>12 DEF Rename
<1>13. CASE LockRead(p)
  BY <1>13 DEF LockRead, Sound, Size, Copied
<1>14. CASE LockHash(p)
  BY <1>14 DEF LockHash, Sound, Size, Copied
<1>15. CASE LockWrite(p)
  BY <1>15 DEF LockWrite
<1>16. CASE LockRename(p)
  BY <1>16 DEF LockRename
<1>17. CASE Fail(p)
  BY <1>17 DEF Fail
<1>18. CASE Kill(p)
  BY <1>18 DEF Kill
<1>19. CASE Same(p)
  BY <1>19 DEF Same
<1>. QED
  BY Frame, <1>1, <1>2, <1>3, <1>4, <1>5, <1>6, <1>7, <1>8, <1>9, <1>10, <1>11, <1>12, <1>13, <1>14, <1>15, <1>16, <1>17, <1>18, <1>19 DEF Own, Build

\* What is at the output was built to its end from what fits together.
GoodImages(p) ==
    \A im \in image[p] :
        /\ im.rev \in 1..Len(Nimbusfiles) /\ im.set \in 1..Len(Sets) /\ im.whole
        /\ Compatible(Nimbusfiles[im.rev], Sets[im.set]) /\ Copied(im) /\ Sound(im)

LEMMA GoodImagesStep ==
  ASSUME Types, [Next]_vars, NEW p \in Builds, Known(p), GoodImages(p)
  PROVE  GoodImages(p)'
<1>0. /\ step[p] \in Steps /\ job[p] \in JobType
      /\ nimb \in 1..Len(Nimbusfiles) /\ pub \in 1..Len(Sets)
  BY DEF Types, BuildTypes
<1>. USE <1>0, Lengths DEF Types, BuildTypes, GoodImages, Goes
<1>1. CASE Start(p)
  BY <1>1 DEF Start
<1>2. CASE Parse(p)
  BY <1>2 DEF Parse
<1>3. CASE Resolve(p)
  BY <1>3 DEF Resolve
<1>4. CASE Check(p)
  BY <1>4 DEF Check
<1>5. CASE Assemble(p)
  BY <1>5 DEF Assemble
<1>6. CASE SignOwn(p)
  BY <1>6 DEF SignOwn
<1>7. CASE AskKeys(p)
  BY <1>7 DEF AskKeys, buildVars
<1>8. CASE SignAuto(p)
  BY <1>8 DEF SignAuto
<1>9. CASE Workspace(p)
  BY <1>9 DEF Workspace
<1>10. CASE Create(p)
  BY <1>10 DEF Create
<1>11. CASE Finish(p)
  BY <1>11 DEF Finish
<1>12. CASE Rename(p)
  BY <1>12 DEF Rename, ImageOf, Known, AfterParse, AfterResolve, AfterCheck,
      AfterCopies, AfterSpace, Locking, Steps, Sound, Size, Copied, JobType
<1>13. CASE LockRead(p)
  BY <1>13 DEF LockRead
<1>14. CASE LockHash(p)
  BY <1>14 DEF LockHash
<1>15. CASE LockWrite(p)
  BY <1>15 DEF LockWrite
<1>16. CASE LockRename(p)
  BY <1>16 DEF LockRename
<1>17. CASE Fail(p)
  BY <1>17 DEF Fail
<1>18. CASE Kill(p)
  BY <1>18 DEF Kill
<1>19. CASE Same(p)
  BY <1>19 DEF Same
<1>. QED
  BY Frame, <1>1, <1>2, <1>3, <1>4, <1>5, <1>6, <1>7, <1>8, <1>9, <1>10, <1>11, <1>12, <1>13, <1>14, <1>15, <1>16, <1>17, <1>18, <1>19 DEF Own, Build

\* While the lock file is written it is written of the image at the output.
GoodLocks(p) ==
    /\ step[p] \in Locking => image[p] = {ImageOf(p)}
    /\ step[p] \in Locking \ {"lockread"} => job[p].reread >= job[p].rev
    /\ step[p] \in {"lockwrite", "lockrename"} => job[p].hash = image[p]
    /\ \A l \in lock[p] : \A im \in l.hash :
          l.set = im.set /\ l.pair = im.pair /\ l.uki = im.cmd.uki /\ l.rev >= im.rev
    /\ step[p] = "done" /\ job[p].cmd.lock =>
          \E l \in lock[p] : l.hash = image[p] /\ image[p] # {}

LEMMA GoodLocksStep ==
  ASSUME Types, [Next]_vars, NEW p \in Builds, Known(p), GoodLocks(p)
  PROVE  GoodLocks(p)'
<1>0. /\ step[p] \in Steps /\ job[p] \in JobType
      /\ nimb \in 1..Len(Nimbusfiles) /\ pub \in 1..Len(Sets)
  BY DEF Types, BuildTypes
<1>. USE <1>0, Lengths DEF Types, BuildTypes, GoodLocks, Locking, ImageOf, Goes, JobType
<1>1. CASE Start(p)
  BY <1>1 DEF Start, NewJob
<1>2. CASE Parse(p)
  BY <1>2 DEF Parse
<1>3. CASE Resolve(p)
  BY <1>3 DEF Resolve
<1>4. CASE Check(p)
  BY <1>4 DEF Check
<1>5. CASE Assemble(p)
  BY <1>5 DEF Assemble
<1>6. CASE SignOwn(p)
  BY <1>6 DEF SignOwn
<1>7. CASE AskKeys(p)
  BY <1>7 DEF AskKeys, buildVars
<1>8. CASE SignAuto(p)
  BY <1>8 DEF SignAuto
<1>9. CASE Workspace(p)
  BY <1>9 DEF Workspace
<1>10. CASE Create(p)
  BY <1>10 DEF Create
<1>11. CASE Finish(p)
  BY <1>11 DEF Finish
<1>12. CASE Rename(p)
  BY <1>12 DEF Rename
<1>13. CASE LockRead(p)
  BY <1>13 DEF LockRead, Known, AfterParse, Steps
<1>14. CASE LockHash(p)
  BY <1>14 DEF LockHash
<1>15. CASE LockWrite(p)
  BY <1>15 DEF LockWrite
<1>16. CASE LockRename(p)
  <2>1. /\ image[p] = {ImageOf(p)} /\ job[p].hash = {ImageOf(p)}
        /\ job[p].reread >= job[p].rev /\ job[p].cmd.uki \in BOOLEAN
    BY <1>16 DEF LockRename, CommandType
  <2>2. /\ lock'[p] = {Lock(p)} /\ image'[p] = image[p] /\ job'[p] = job[p]
        /\ step'[p] = "done"
    BY <1>16 DEF LockRename
  <2>3. /\ Lock(p).hash = {ImageOf(p)} /\ Lock(p).set = ImageOf(p).set
        /\ Lock(p).pair = ImageOf(p).pair /\ Lock(p).uki = ImageOf(p).cmd.uki
        /\ Lock(p).rev >= ImageOf(p).rev
    BY <2>1 DEF Lock
  <2>. QED
    BY <2>1, <2>2, <2>3
<1>17. CASE Fail(p)
  BY <1>17 DEF Fail, NoJob, NewJob
<1>18. CASE Kill(p)
  BY <1>18 DEF Kill, NoJob, NewJob
<1>19. CASE Same(p)
  BY <1>19 DEF Same
<1>. QED
  BY Frame, <1>1, <1>2, <1>3, <1>4, <1>5, <1>6, <1>7, <1>8, <1>9, <1>10, <1>11, <1>12, <1>13, <1>14, <1>15, <1>16, <1>17, <1>18, <1>19 DEF Own, Build

\* The temporary files a build can have at each step.
Allowed(s) ==
    CASE s \in {"keys", "workspace", "lockread", "lockhash", "lockwrite"} -> {"squashfs"}
      [] s = "create"     -> {"squashfs", "workspace", "rawtmp"}
      [] s = "finish"     -> {"squashfs", "workspace", "rawtmp", "partial"}
      [] s = "rename"     -> {"squashfs", "partial"}
      [] s = "lockrename" -> {"squashfs", "locktmp"}
      [] OTHER            -> {}

Tidy(p) == temps[p] \subseteq Allowed(step[p])

LEMMA TidyStep ==
  ASSUME Types, [Next]_vars, NEW p \in Builds, Tidy(p)
  PROVE  Tidy(p)'
<1>0. step[p] \in Steps
  BY DEF Types, BuildTypes
<1>. USE <1>0 DEF Types, BuildTypes, Tidy, Allowed, Goes, Steps
<1>1. CASE Start(p)
  BY <1>1 DEF Start
<1>2. CASE Parse(p)
  BY <1>2 DEF Parse
<1>3. CASE Resolve(p)
  BY <1>3 DEF Resolve
<1>4. CASE Check(p)
  BY <1>4 DEF Check
<1>5. CASE Assemble(p)
  BY <1>5 DEF Assemble
<1>6. CASE SignOwn(p)
  BY <1>6 DEF SignOwn
<1>7. CASE AskKeys(p)
  BY <1>7 DEF AskKeys, buildVars
<1>8. CASE SignAuto(p)
  BY <1>8 DEF SignAuto
<1>9. CASE Workspace(p)
  BY <1>9 DEF Workspace
<1>10. CASE Create(p)
  BY <1>10 DEF Create
<1>11. CASE Finish(p)
  BY <1>11 DEF Finish
<1>12. CASE Rename(p)
  BY <1>12 DEF Rename
<1>13. CASE LockRead(p)
  BY <1>13 DEF LockRead
<1>14. CASE LockHash(p)
  BY <1>14 DEF LockHash
<1>15. CASE LockWrite(p)
  BY <1>15 DEF LockWrite
<1>16. CASE LockRename(p)
  BY <1>16 DEF LockRename
<1>17. CASE Fail(p)
  BY <1>17 DEF Fail, Removed
<1>18. CASE Kill(p)
  BY <1>18 DEF Kill
<1>19. CASE Same(p)
  BY <1>19 DEF Same
<1>. QED
  BY Frame, <1>1, <1>2, <1>3, <1>4, <1>5, <1>6, <1>7, <1>8, <1>9, <1>10, <1>11, <1>12, <1>13, <1>14, <1>15, <1>16, <1>17, <1>18, <1>19 DEF Own, Build

----------------------------------------------------------------------------
(***************************************************************************)
(* The key pair, until two processes are inside LoadOrGenerate or keygen   *)
(* at a time or keygen cannot read a pair.  The certificate is saved last, *)
(* so a directory has nothing, a key, or a pair; only the process that is  *)
(* inside can change that, and not once there is a pair.                   *)
(***************************************************************************)
Signed(pair) == pair.key = keyFile /\ pair.cert = certFile /\ keyFile = certFile
                /\ keyFile # 0

Turn(p) ==
    /\ kstep[p] = "loadkey" => keyFile # 0
    /\ kstep[p] = "loadcert" => mem[p].key = keyFile /\ keyFile # 0
    /\ kstep[p] \in {"generate", "savekey"} => certFile = 0 /\ (p \in Builds => keyFile = 0)
    /\ kstep[p] = "savekey" => mem[p].key # 0 /\ mem[p].cert = mem[p].key
    /\ kstep[p] = "savecert" => /\ mem[p].key = keyFile /\ mem[p].cert = keyFile
                                /\ keyFile # 0 /\ certFile = 0
    /\ p \in Builds /\ kstep[p] = "ready" => Signed(mem[p])

Turns ==
    /\ certFile \in {0, keyFile}
    /\ \A p, q \in Procs : kstep[p] \in Busy /\ kstep[q] \in Busy => p = q
    /\ \A p \in Procs : Turn(p)

\* What has happened stays on record.
LEMMA MishapsStay ==
  ASSUME [Next]_vars
  PROVE  mishaps \subseteq mishaps'
<1>1. ASSUME NEW p \in Builds, Build(p) PROVE mishaps \subseteq mishaps'
  BY <1>1 DEF Build, Start, Parse, Resolve, Check, Assemble, SignOwn, AskKeys, SignAuto,
     Workspace, Create, Finish, Rename, LockRead, LockHash, LockWrite, LockRename,
     Enter, keyVars
<1>2. ASSUME NEW p \in Procs, KeyStep(p) PROVE mishaps \subseteq mishaps'
  BY <1>2 DEF KeyStep, Stat, LoadKey, LoadCert, LoadFails, Generate, SaveKey, SaveCert,
     KeyFail
<1>. QED
  BY <1>1, <1>2 DEF Next, Edit, Republish, Fail, Kill, Keygen, KeygenKill, Enter,
     vars, keyVars

\* What a step does to the files: nothing, or it is one of Save's renames.
LEMMA FilesStep ==
  ASSUME [Next]_vars
  PROVE  \/ UNCHANGED <<keyFile, certFile>>
         \/ \E p \in Procs : SaveKey(p) \/ SaveCert(p)
<1>1. ASSUME NEW p \in Builds, Build(p) PROVE UNCHANGED <<keyFile, certFile>>
  BY <1>1 DEF Build, Start, Parse, Resolve, Check, Assemble, SignOwn, AskKeys, SignAuto,
     Workspace, Create, Finish, Rename, LockRead, LockHash, LockWrite, LockRename,
     Enter, keyVars
<1>2. ASSUME NEW p \in Procs, KeyStep(p)
      PROVE  UNCHANGED <<keyFile, certFile>> \/ SaveKey(p) \/ SaveCert(p)
  BY <1>2 DEF KeyStep, Stat, LoadKey, LoadCert, Generate, KeyFail
<1>. QED
  BY <1>1, <1>2 DEF Next, Edit, Republish, Fail, Kill, Keygen, KeygenKill, Enter,
     vars, keyVars

\* Once there is a pair neither file changes.
LEMMA PairStable ==
  ASSUME Turns, [Next]_vars, certFile # 0
  PROVE  UNCHANGED <<keyFile, certFile>>
<1>1. ASSUME NEW p \in Procs PROVE ~SaveKey(p) /\ ~SaveCert(p)
  BY DEF Turns, Turn, SaveKey, SaveCert
<1>. QED
  BY <1>1, FilesStep

LEMMA SignedStable ==
  ASSUME Turns, [Next]_vars, NEW pair, Signed(pair), Types
  PROVE  Signed(pair)'
<1>1. certFile # 0
  BY DEF Signed
<1>2. UNCHANGED <<keyFile, certFile>>
  BY <1>1, PairStable
<1>. QED
  BY <1>2 DEF Signed

\* A process that only enters, leaves or is stopped.
LEMMA TurnsEnter ==
  ASSUME Types, Turns, NEW p \in Procs, Enter(p), mishaps' = {}
  PROVE  Turns'
<1>. USE DEF Types, KeyTypeOK, Turns, Turn, Enter, Busy, KeySteps, Signed
<1>1. certFile' \in {0, keyFile'}
  OBVIOUS
<1>a. \A q \in Procs : kstep[q] \notin Busy
  OBVIOUS
<1>2. \A q, r \in Procs : kstep'[q] \in Busy /\ kstep'[r] \in Busy => q = r
  BY <1>a
<1>3. ASSUME NEW q \in Procs PROVE Turn(q)'
  <2>1. CASE q = p
    BY <2>1
  <2>2. CASE q # p
    BY <2>2
  <2>. QED
    BY <2>1, <2>2
<1>. QED
  BY <1>1, <1>2, <1>3

Leaves(p) == /\ kstep' = [kstep EXCEPT ![p] = "off"]
             /\ mem' = [mem EXCEPT ![p] = NoPair]
             /\ UNCHANGED <<keyFile, certFile>>

LEMMA TurnsLeave ==
  ASSUME Types, Turns, NEW p \in Procs, Leaves(p)
  PROVE  Turns'
<1>. USE DEF Types, KeyTypeOK, Turns, Turn, Leaves, Busy, KeySteps, Signed
<1>1. certFile' \in {0, keyFile'}
  OBVIOUS
<1>2. \A q, r \in Procs : kstep'[q] \in Busy /\ kstep'[r] \in Busy => q = r
  OBVIOUS
<1>3. ASSUME NEW q \in Procs PROVE Turn(q)'
  <2>1. CASE q = p
    BY <2>1
  <2>2. CASE q # p
    BY <2>2
  <2>. QED
    BY <2>1, <2>2
<1>. QED
  BY <1>1, <1>2, <1>3

\* LoadOrGenerate and keygen.  Whoever is inside is alone, so that what the
\* others rely on is only that a pair stays (Turn's last conjunct).
LEMMA TurnsKeyStep ==
  ASSUME Types, Turns, NEW p \in Procs, KeyStep(p), mishaps' = {}
  PROVE  Turns'
<1>. USE DEF Types, KeyTypeOK
<1>0. kstep[p] \in Busy
  BY DEF KeyStep, Stat, LoadKey, LoadCert, Generate, SaveKey, SaveCert, KeyFail, Busy, KeySteps
<1>1. certFile' \in {0, keyFile'}
  BY DEF KeyStep, Stat, LoadKey, LoadCert, Generate, SaveKey, SaveCert, KeyFail, Turns, Turn
<1>2. ASSUME NEW q \in Procs, q # p
      PROVE  kstep'[q] = kstep[q] /\ mem'[q] = mem[q]
  BY <1>2 DEF KeyStep, Stat, LoadKey, LoadCert, LoadFails, Generate, SaveKey, SaveCert, KeyFail
<1>3. \A q, r \in Procs : kstep'[q] \in Busy /\ kstep'[r] \in Busy => q = r
  BY <1>0, <1>2 DEF Turns
<1>4. ASSUME NEW q \in Procs, q # p PROVE Turn(q)'
  <2>1. kstep[q] \notin Busy
    BY <1>0, <1>4 DEF Turns
  <2>2. kstep'[q] = kstep[q] /\ mem'[q] = mem[q]
    BY <1>2, <1>4
  <2>3. CASE q \in Builds /\ kstep[q] = "ready"
    <3>1. Signed(mem[q]) /\ certFile # 0
      BY <2>3 DEF Turns, Turn, Signed
    <3>2. UNCHANGED <<keyFile, certFile>>
      BY <3>1 DEF KeyStep, Stat, LoadKey, LoadCert, Generate, SaveKey, SaveCert, KeyFail,
         Turns, Turn
    <3>. QED
      BY <2>2, <2>3, <3>1, <3>2 DEF Turn, Signed
  <2>4. CASE ~(q \in Builds /\ kstep[q] = "ready")
    BY <2>1, <2>2, <2>4 DEF Turn, Busy, KeySteps
  <2>. QED
    BY <2>3, <2>4
<1>5. Turn(p)'
  <2>. USE DEF Turns, Turn, Signed
  <2>1. CASE Stat(p)
    BY <2>1 DEF Stat
  <2>2. CASE LoadKey(p)
    BY <2>2 DEF LoadKey, LoadFails, NotLoaded, Procs
  <2>3. CASE LoadCert(p)
    BY <2>3 DEF LoadCert, LoadFails, NotLoaded, Procs
  <2>4. CASE Generate(p)
    BY <2>4 DEF Generate
  <2>5. CASE SaveKey(p)
    BY <2>5 DEF SaveKey
  <2>6. CASE SaveCert(p)
    BY <2>6 DEF SaveCert
  <2>7. CASE KeyFail(p)
    BY <2>7 DEF KeyFail
  <2>. QED
    BY <2>1, <2>2, <2>3, <2>4, <2>5, <2>6, <2>7 DEF KeyStep
<1>. QED
  BY <1>1, <1>3, <1>4, <1>5 DEF Turns

LEMMA TurnsInit == Init => Turns
  BY DEF Init, KeyInit, Turns, Turn, Busy, KeySteps

LEMMA TurnsStep ==
  ASSUME Types, Turns, [Next]_vars, mishaps' = {}
  PROVE  Turns'
<1>1. CASE UNCHANGED keyVars
  BY <1>1 DEF Turns, Turn, Signed, keyVars
<1>2. ASSUME NEW p \in Builds, Build(p) PROVE Turns'
  <2>0. p \in Procs
    BY DEF Procs
  <2>1. CASE AskKeys(p)
    BY <2>0, <2>1, TurnsEnter DEF AskKeys
  <2>2. CASE SignAuto(p)
    BY <2>0, <2>2, TurnsLeave DEF SignAuto, Leaves
  <2>3. CASE UNCHANGED keyVars
    BY <1>1, <2>3
  <2>. QED
    BY <1>2, <2>1, <2>2, <2>3 DEF Build, Start, Parse, Resolve, Check, Assemble, SignOwn,
       Workspace, Create, Finish, Rename, LockRead, LockHash, LockWrite, LockRename
<1>3. ASSUME NEW p \in Builds, Fail(p) \/ Kill(p) PROVE Turns'
  BY <1>3, TurnsLeave DEF Fail, Kill, Leaves, Procs
<1>4. ASSUME NEW p \in Keygens, Keygen(p) \/ KeygenKill(p) PROVE Turns'
  BY <1>4, TurnsEnter, TurnsLeave DEF Keygen, KeygenKill, Leaves, Procs
<1>5. ASSUME NEW p \in Procs, KeyStep(p) PROVE Turns'
  BY <1>5, TurnsKeyStep
<1>. QED
  BY <1>1, <1>2, <1>3, <1>4, <1>5 DEF Next, Edit, Republish, vars

\* A build that signs with the directory's pair holds the pair that is there.
AfterKeys == AfterSpace \cup {"workspace"}

Enrolls(p) ==
    /\ step[p] \in AfterKeys /\ job[p].cmd.secure = "auto" => Signed(job[p].pair)
    /\ \A im \in image[p] : im.cmd.secure = "auto" => Signed(im.pair)

\* Signed's files change only where there is no pair, so that it is enough to
\* look at what a build does to its own records.
LEMMA EnrollsStep ==
  ASSUME Types, [Next]_vars, Turns, NEW p \in Builds, Enrolls(p)
  PROVE  Enrolls(p)'
<1>0. /\ step[p] \in Steps /\ job[p] \in JobType /\ p \in Procs
  BY DEF Types, BuildTypes, Procs
<1>a. ASSUME NEW pair, Signed(pair) PROVE pair.key = keyFile' /\ pair.cert = certFile'
             /\ keyFile' = certFile' /\ keyFile' # 0
  BY <1>a, SignedStable DEF Signed
<1>. USE <1>0 DEF Types, BuildTypes, Enrolls, Signed, Goes, AfterKeys, AfterSpace,
         AfterCheck, AfterResolve, AfterParse, Steps, JobType
<1>1. CASE Start(p)
  BY <1>1, <1>a DEF Start, NewJob
<1>2. CASE Parse(p)
  BY <1>2, <1>a DEF Parse
<1>3. CASE Resolve(p)
  BY <1>3, <1>a DEF Resolve
<1>4. CASE Check(p)
  BY <1>4, <1>a DEF Check
<1>5. CASE Assemble(p)
  BY <1>5, <1>a DEF Assemble
<1>6. CASE SignOwn(p)
  BY <1>6, <1>a DEF SignOwn
<1>7. CASE AskKeys(p)
  BY <1>7, <1>a DEF AskKeys, buildVars
<1>8. CASE SignAuto(p)
  BY <1>8, <1>a DEF SignAuto, Turns, Turn
<1>9. CASE Workspace(p)
  BY <1>9, <1>a DEF Workspace
<1>10. CASE Create(p)
  BY <1>10, <1>a DEF Create
<1>11. CASE Finish(p)
  BY <1>11, <1>a DEF Finish
<1>12. CASE Rename(p)
  BY <1>12, <1>a DEF Rename, ImageOf
<1>13. CASE LockRead(p)
  BY <1>13, <1>a DEF LockRead
<1>14. CASE LockHash(p)
  BY <1>14, <1>a DEF LockHash
<1>15. CASE LockWrite(p)
  BY <1>15, <1>a DEF LockWrite
<1>16. CASE LockRename(p)
  BY <1>16, <1>a DEF LockRename
<1>17. CASE Fail(p)
  BY <1>17, <1>a DEF Fail
<1>18. CASE Kill(p)
  BY <1>18, <1>a DEF Kill
<1>19. CASE Same(p)
  BY <1>19, <1>a DEF Same
<1>. QED
  BY Frame, <1>1, <1>2, <1>3, <1>4, <1>5, <1>6, <1>7, <1>8, <1>9, <1>10, <1>11, <1>12, <1>13, <1>14, <1>15, <1>16, <1>17, <1>18, <1>19 DEF Own, Build

----------------------------------------------------------------------------
(***************************************************************************)
(* The theorems.                                                           *)
(***************************************************************************)
IInv == Types /\ \A p \in Builds : Known(p) /\ GoodImages(p) /\ GoodLocks(p) /\ Tidy(p)

LEMMA InitIInv == Init => IInv
<1>1. Init => Types
  BY TypesInit
<1>2. ASSUME Init, NEW p \in Builds PROVE Known(p) /\ GoodImages(p) /\ GoodLocks(p) /\ Tidy(p)
  BY <1>2 DEF Init, Known, GoodImages, GoodLocks, Tidy, Allowed, AfterParse, AfterResolve,
     AfterCheck, AfterCopies, AfterSpace, Locking, Steps
<1>. QED
  BY <1>1, <1>2 DEF IInv

LEMMA NextIInv == IInv /\ [Next]_vars => IInv'
<1>. SUFFICES ASSUME IInv, [Next]_vars PROVE IInv'
  OBVIOUS
<1>1. Types'
  BY TypesStep DEF IInv
<1>2. ASSUME NEW p \in Builds
      PROVE  (Known(p) /\ GoodImages(p) /\ GoodLocks(p) /\ Tidy(p))'
  BY KnownStep, GoodImagesStep, GoodLocksStep, TidyStep DEF IInv
<1>. QED
  BY <1>1, <1>2 DEF IInv

\* What holds of every build at every step: the checks it has passed, the image
\* and lock it left and the temporary files it owns.
THEOREM Inductive == Spec => []IInv
  BY InitIInv, NextIInv, PTL DEF Spec

\* All variables of build-disk and of the key directory keep their types.
THEOREM TypeCorrect == Spec => []TypeOK
<1>1. IInv => TypeOK
  BY Lengths DEF IInv, Types, BuildTypes, TypeOK, Known, AfterParse, AfterResolve, Steps
<1>. QED
  BY <1>1, Inductive, PTL

\* A sum of sizes is a size.
LEMMA SizeType ==
  ASSUME NEW r \in ImageType, r.rev \in 1..Len(Nimbusfiles), r.set \in 1..Len(Sets)
  PROVE  /\ Size(r) \in Nat
         /\ Nimbusfiles[r.rev].initramfs \in Nat /\ Nimbusfiles[r.rev].squashfs \in Nat
<1>1. IsNimbusfile(Nimbusfiles[r.rev]) /\ IsSet(Sets[r.set])
  BY Lengths, InputsAssumption
<1>2. /\ Nimbusfiles[r.rev].initramfs \in Nat /\ Nimbusfiles[r.rev].squashfs \in Nat
      /\ Sets[r.set].vmlinuz \in Nat
  BY <1>1 DEF IsNimbusfile, IsSet
<1>3. /\ (IF r.cmd.uki THEN Nimbusfiles[r.rev].initramfs ELSE 0) \in Nat
      /\ (IF r.cmd.secure = "off" THEN 0 ELSE SigSize) \in Nat
  BY <1>2, SizesAssumption
<1>4. ASSUME NEW a \in Nat, NEW b \in Nat, NEW c \in Nat PROVE a + b + c \in Nat
  OBVIOUS
<1>5. Size(r) \in Nat
  BY <1>2, <1>3, <1>4, Zenon DEF Size
<1>. QED
  BY <1>2, <1>5

\* Whatever build-disk leaves at an output path boots, for every Nimbusfile, set
\* of pieces and size, and however many runs fail or are killed.
THEOREM BootableAlways == Spec => []Bootable
<1>1. ASSUME IInv PROVE Bootable
  <2>. SUFFICES ASSUME NEW p \in Builds, NEW im \in image[p]
                PROVE
          LET nf == Nimbusfiles[im.rev]
              s  == Sets[im.set]
              vm == s.vmlinuz + (IF im.cmd.uki THEN nf.initramfs ELSE 0)
                      + (IF im.cmd.secure = "off" THEN 0 ELSE SigSize)
          IN /\ im.whole
             /\ s.prov => /\ s.arch \in {"", nf.arch} /\ s.vga = nf.vga
                          /\ s.boot = nf.boot \/ (s.boot = "" /\ nf.boot = "none")
             /\ nf.format = "iso" => LoadsAll(vm, nf.initramfs, LoadBlocks(vm, nf.initramfs))
             /\ nf.format # "iso" => LayoutSound(vm, nf.initramfs, nf.squashfs)
             /\ nf.format = "vhd" =>
                   GeometrySound(DiskSize(vm, nf.initramfs, nf.squashfs) \div SectorSize)
    BY DEF Bootable, Images
  <2>. DEFINE nf == Nimbusfiles[im.rev]
              s  == Sets[im.set]
              vm == s.vmlinuz + (IF im.cmd.uki THEN nf.initramfs ELSE 0)
                      + (IF im.cmd.secure = "off" THEN 0 ELSE SigSize)
  <2>1. /\ im \in ImageType /\ im.rev \in 1..Len(Nimbusfiles) /\ im.set \in 1..Len(Sets)
        /\ im.whole /\ Compatible(nf, s) /\ Sound(im)
    BY <1>1 DEF IInv, GoodImages, Types, BuildTypes
  <2>2. vm = Size(im)
    BY DEF Size
  <2>3. vm \in Nat /\ nf.initramfs \in Nat /\ nf.squashfs \in Nat
    BY <2>1, <2>2, SizeType
  <2>4. s.prov => /\ s.arch \in {"", nf.arch} /\ s.vga = nf.vga
                  /\ s.boot = nf.boot \/ (s.boot = "" /\ nf.boot = "none")
    BY <2>1 DEF Compatible, EffectiveBoot
  <2>5. nf.format = "iso" => LoadsAll(vm, nf.initramfs, LoadBlocks(vm, nf.initramfs))
    <3>1. nf.format = "iso" => FitsElTorito(vm, nf.initramfs)
      BY <2>1, <2>2 DEF Sound
    <3>. HIDE DEF nf, vm
    <3>. QED
      BY <2>3, <3>1, LoadsWhole
  <2>. HIDE DEF nf, vm
  <2>6. LayoutSound(vm, nf.initramfs, nf.squashfs)
    BY <2>3, LayoutAlwaysSound
  <2>7. DiskSize(vm, nf.initramfs, nf.squashfs) \div SectorSize \in Nat
    <3>1. DiskSize(vm, nf.initramfs, nf.squashfs) \in Nat
      BY <2>3, DiskSizeType
    <3>2. ASSUME NEW d \in Nat PROVE d \div 512 \in Nat
      OBVIOUS
    <3>. QED
      BY <3>1, <3>2 DEF SectorSize
  <2>8. GeometrySound(DiskSize(vm, nf.initramfs, nf.squashfs) \div SectorSize)
    BY <2>7, GeometryAlwaysSound
  <2>. QED
    BY <2>1, <2>4, <2>5, <2>6, <2>8 DEF nf, vm
<1>. QED
  BY <1>1, Inductive, PTL

\* Every image at an output path has all of its files, and none of a tarball's
\* outside the directory it was added to, for every Nimbusfile and every entry.
THEOREM StaysInsideAlways == Spec => []StaysInside
<1>1. ASSUME IInv PROVE StaysInside
  <2>. SUFFICES ASSUME NEW p \in Builds, NEW im \in image[p]
                PROVE  LET r == ResolveCopies(Nimbusfiles[im.rev].copies)
                       IN  r.ok /\ Contained(r.files)
    BY DEF StaysInside, Images
  <2>1. im.rev \in 1..Len(Nimbusfiles) /\ Copied(im)
    BY <1>1 DEF IInv, GoodImages
  <2>2. IsNimbusfile(Nimbusfiles[im.rev])
    BY <2>1, Lengths, InputsAssumption
  <2>3. \A c \in ToSet(Nimbusfiles[im.rev].copies) :
           c.dest \in Seq(STRING) /\ \A e \in ToSet(c.items) : e.name \in Seq(STRING)
    BY <2>2 DEF IsNimbusfile
  <2>4. Contained(ResolveCopies(Nimbusfiles[im.rev].copies).files)
    BY <2>3, CopiesContained
  <2>. QED
    BY <2>1, <2>4 DEF Copied
<1>. QED
  BY <1>1, Inductive, PTL

\* A lock file that names the image beside it tells what is in it, and a build
\* that ends well leaves one, for any number of edits, releases and kills.
THEOREM LockTellsAlways == Spec => []LockTells
<1>1. IInv => LockTells
  BY DEF IInv, GoodLocks, LockTells
<1>. QED
  BY <1>1, Inductive, PTL

\* No run that ends, well or with an error, leaves a temporary file.
THEOREM CleanExitAlways == Spec => []CleanExit
<1>1. IInv => CleanExit
  BY DEF IInv, Tidy, Allowed, CleanExit
<1>. QED
  BY <1>1, Inductive, PTL

\* Once something has happened that the code does not rule out nothing is said.
KeyInv == Types /\ (mishaps = {} => Turns /\ \A p \in Builds : Enrolls(p))

LEMMA KeyInductive == Spec => []KeyInv
<1>1. Init => KeyInv
  BY TypesInit, TurnsInit
  DEF Init, KeyInv, Enrolls, AfterKeys, AfterSpace, AfterCheck, AfterResolve, AfterParse, Steps
<1>2. KeyInv /\ [Next]_vars => KeyInv'
  <2>. SUFFICES ASSUME KeyInv, [Next]_vars PROVE KeyInv'
    OBVIOUS
  <2>1. Types'
    BY TypesStep DEF KeyInv
  <2>2. ASSUME mishaps' = {} PROVE Turns' /\ \A p \in Builds : Enrolls(p)'
    <3>1. mishaps = {}
      BY <2>2, MishapsStay
    <3>2. Types /\ Turns /\ \A p \in Builds : Enrolls(p)
      BY <3>1 DEF KeyInv
    <3>. QED
      BY <2>2, <3>2, TurnsStep, EnrollsStep
  <2>. QED
    BY <2>1, <2>2 DEF KeyInv
<1>. QED
  BY <1>1, <1>2, PTL DEF Spec

\* Until two processes are in the key directory at once or keygen cannot read a
\* complete pair, that pair is never replaced, and a key without certificate only
\* by keygen: for any number of builds, keygens, failures and kills.
THEOREM PairKeptAlways == Spec => PairKept
<1>1. ASSUME KeyInv, [Next]_vars
      PROVE  [mishaps' = {} =>
                /\ keyFile # 0 /\ certFile # 0 => UNCHANGED <<keyFile, certFile>>
                /\ keyFile # 0 /\ keyFile' # keyFile =>
                      \E g \in Keygens : kstep[g] = "savekey"]_keyVars
  <2>. SUFFICES ASSUME mishaps' = {}
                PROVE  /\ keyFile # 0 /\ certFile # 0 => UNCHANGED <<keyFile, certFile>>
                       /\ keyFile # 0 /\ keyFile' # keyFile =>
                             \E g \in Keygens : kstep[g] = "savekey"
    OBVIOUS
  <2>0. Turns
    BY <1>1, MishapsStay DEF KeyInv
  <2>1. keyFile # 0 /\ certFile # 0 => UNCHANGED <<keyFile, certFile>>
    BY <1>1, <2>0, PairStable
  <2>2. ASSUME keyFile # 0, keyFile' # keyFile
        PROVE  \E g \in Keygens : kstep[g] = "savekey"
    <3>1. PICK p \in Procs : SaveKey(p)
      BY <1>1, <2>2, FilesStep DEF SaveCert
    <3>2. p \notin Builds /\ kstep[p] = "savekey"
      BY <2>0, <2>2, <3>1 DEF SaveKey, Turns, Turn
    <3>. QED
      BY <3>2 DEF Procs
  <2>. QED
    BY <2>1, <2>2
<1>. QED
  BY <1>1, KeyInductive, PTL DEF Spec, PairKept

\* Until then, every image that was signed with the pair of the key directory can
\* be enrolled with the certificate that is there.
THEOREM EnrollableAlways == Spec => []Enrollable
<1>1. ASSUME KeyInv PROVE Enrollable
  <2>. SUFFICES ASSUME mishaps = {}, NEW p \in Builds, NEW im \in image[p],
                       im.cmd.secure = "auto"
                PROVE  im.pair = [key |-> keyFile, cert |-> certFile]
                       /\ keyFile = certFile /\ keyFile # 0
    BY DEF Enrollable, Images
  <2>1. Signed(im.pair)
    BY <1>1 DEF KeyInv, Enrolls
  <2>2. im.pair \in PairType
    BY <1>1 DEF KeyInv, Types, BuildTypes, ImageType
  <2>. QED
    BY <2>1, <2>2 DEF Signed, PairType
<1>. QED
  BY <1>1, KeyInductive, PTL
=============================================================================
