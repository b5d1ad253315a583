---------------------------- MODULE NatRecursion ----------------------------
(***************************************************************************)
(* Induction and recursion over the natural numbers as statements about    *)
(* sets and functions, so that they can be cited like any other lemma: a   *)
(* set that contains 0 and the successor of each of its members contains   *)
(* every natural number, and a function can be defined by its value at 0   *)
(* and a step.  They are what the proofs about the loops of the build      *)
(* (splitShadowedFiles, checkShadowedFilesFitTmpfs, path.Clean) rest on,   *)
(* which the model writes as recursive functions.                          *)
(***************************************************************************)
EXTENDS Integers, WellFoundedInduction, TLAPS

\* Every nonempty set of natural numbers has a least member.
LEMMA LeastNatural ==
  ASSUME NEW T \in SUBSET Nat, T # {}
  PROVE  \E x \in T : \A y \in T : x <= y
<1>1. PICK x \in T : \A y \in T : ~(<<y, x>> \in OpToRel(<, Nat))
  BY WFMin, NatLessThanWellFounded
<1>2. \A y \in T : ~(y < x)
  BY <1>1 DEF OpToRel
<1>. QED
  BY <1>2

\* Induction: the set of the numbers that have a property is all of Nat.
LEMMA NatSetInduction ==
  ASSUME NEW S, 0 \in S, \A n \in S \cap Nat : n + 1 \in S
  PROVE  \A n \in Nat : n \in S
<1>1. SUFFICES ASSUME NEW n \in Nat, n \notin S
               PROVE  FALSE
  OBVIOUS
<1>2. PICK x \in Nat \ S : \A y \in Nat \ S : x <= y
  <2>1. Nat \ S \in SUBSET Nat /\ Nat \ S # {}
    BY <1>1
  <2>. QED
    BY <2>1, LeastNatural
<1>3. x # 0 /\ x \in Nat
  OBVIOUS
<1>4. x - 1 \in Nat /\ x - 1 < x
  BY <1>3
<1>5. x - 1 \in S
  BY <1>2, <1>4
<1>6. (x - 1) + 1 \in S
  BY <1>4, <1>5
<1>. QED
  BY <1>2, <1>3, <1>6

\* The same below a bound.
LEMMA UpToInduction ==
  ASSUME NEW N \in Nat, NEW S, 0 \in S, \A n \in 0..(N - 1) : n \in S => n + 1 \in S
  PROVE  \A n \in 0..N : n \in S
<1>. DEFINE T == {n \in Nat : n <= N => n \in S}
<1>1. 0 \in T
  OBVIOUS
<1>2. \A n \in T \cap Nat : n + 1 \in T
  <2>1. SUFFICES ASSUME NEW n \in T, n + 1 <= N
                 PROVE  n + 1 \in S
    OBVIOUS
  <2>2. n \in 0..(N - 1) /\ n \in S
    BY <2>1
  <2>. QED
    BY <2>2
<1>3. \A n \in Nat : n \in T
  <2>. HIDE DEF T
  <2>. QED
    BY <1>1, <1>2, NatSetInduction
<1>. QED
  BY <1>3

-----------------------------------------------------------------------------
\* f begins at a and goes on by G.
Follows(f, a, G) == f[0] = a /\ \A n \in Nat : f[n + 1] = G[<<n, f[n]>>]

\* g begins at a, and its value at k up to N is what G makes of k and of the one before.
Iterates(g, a, G, N) == g[0] = a /\ \A k \in 1..N : g[k] = G[<<k, g[k - 1]>>]

\* Primitive recursion: a step on a set of values defines a function.
LEMMA RecursionOnNat ==
  ASSUME NEW V, NEW a \in V, NEW G \in [Nat \X V -> V]
  PROVE  \E f \in [Nat -> V] : Follows(f, a, G)
<1>. DEFINE Ok(g, n) == g[0] = a /\ \A k \in Nat : k < n => g[k + 1] = G[<<k, g[k]>>]
            S == {n \in Nat : \E g \in [Nat -> V] : Ok(g, n)}
<1>1. 0 \in S
  <2>1. [k \in Nat |-> a] \in [Nat -> V] /\ Ok([k \in Nat |-> a], 0)
    OBVIOUS
  <2>. QED
    BY <2>1
<1>2. \A n \in S \cap Nat : n + 1 \in S
  <2>1. SUFFICES ASSUME NEW n \in S
                 PROVE  n + 1 \in S
    OBVIOUS
  <2>2. n \in Nat
    OBVIOUS
  <2>3. PICK g \in [Nat -> V] : Ok(g, n)
    OBVIOUS
  <2>. DEFINE h == [k \in Nat |-> IF k = n + 1 THEN G[<<n, g[n]>>] ELSE g[k]]
  <2>4. h \in [Nat -> V]
    BY <2>2
  <2>5. Ok(h, n + 1)
    BY <2>2, <2>3
  <2>6. \E x \in [Nat -> V] : Ok(x, n + 1)
    <3>. HIDE DEF Ok, h
    <3>. QED
      BY <2>4, <2>5
  <2>. HIDE DEF Ok
  <2>. QED
    BY <2>2, <2>6
<1>3. \A n \in Nat : n \in S
  <2>. HIDE DEF S
  <2>. QED
    BY <1>1, <1>2, NatSetInduction
<1>. DEFINE F(n) == CHOOSE g \in [Nat -> V] : Ok(g, n)
<1>4. \A n \in Nat : F(n) \in [Nat -> V] /\ Ok(F(n), n)
  <2>1. SUFFICES ASSUME NEW n \in Nat
                 PROVE  F(n) \in [Nat -> V] /\ Ok(F(n), n)
    OBVIOUS
  <2>2. \E g \in [Nat -> V] : Ok(g, n)
    BY <1>3
  <2>. HIDE DEF Ok
  <2>. QED
    BY <2>2
<1>. HIDE DEF F
<1>5. \A n \in Nat : F(n + 1)[n] = F(n)[n]
  <2>1. SUFFICES ASSUME NEW n \in Nat
                 PROVE  F(n + 1)[n] = F(n)[n]
    OBVIOUS
  <2>. DEFINE T == {k \in Nat : k <= n => F(n + 1)[k] = F(n)[k]}
  <2>2. 0 \in T
    BY <1>4
  <2>3. \A k \in T \cap Nat : k + 1 \in T
    <3>1. SUFFICES ASSUME NEW k \in Nat, k + 1 <= n, F(n + 1)[k] = F(n)[k]
                   PROVE  F(n + 1)[k + 1] = F(n)[k + 1]
      OBVIOUS
    <3>2. Ok(F(n), n) /\ Ok(F(n + 1), n + 1)
      BY <1>4
    <3>3. k < n /\ k < n + 1
      BY <3>1
    <3>4. F(n)[k + 1] = G[<<k, F(n)[k]>>]
      BY <3>2, <3>3
    <3>5. F(n + 1)[k + 1] = G[<<k, F(n + 1)[k]>>]
      BY <3>2, <3>3
    <3>. QED
      BY <3>1, <3>4, <3>5
  <2>4. \A k \in Nat : k \in T
    <3>. HIDE DEF T
    <3>. QED
      BY <2>2, <2>3, NatSetInduction
  <2>. QED
    BY <2>4
<1>. DEFINE f == [n \in Nat |-> F(n)[n]]
<1>6. f \in [Nat -> V]
  BY <1>4
<1>7. f[0] = a
  BY <1>4
<1>8. \A n \in Nat : f[n + 1] = G[<<n, f[n]>>]
  <2>1. SUFFICES ASSUME NEW n \in Nat
                 PROVE  F(n + 1)[n + 1] = G[<<n, F(n)[n]>>]
    OBVIOUS
  <2>2. Ok(F(n + 1), n + 1)
    BY <1>4
  <2>3. F(n + 1)[n + 1] = G[<<n, F(n + 1)[n]>>]
    BY <2>2
  <2>. QED
    BY <1>5, <2>3
<1>. HIDE DEF f
<1>9. Follows(f, a, G)
  BY <1>7, <1>8 DEF Follows
<1>. QED
  BY <1>6, <1>9

\* The same over 0..N, the form a pass over a sequence of length N has.
LEMMA RecursionUpTo ==
  ASSUME NEW V, NEW a \in V, NEW N \in Nat, NEW G \in [(1..N) \X V -> V]
  PROVE  \E g \in [0..N -> V] : Iterates(g, a, G, N)
<1>. DEFINE H == [x \in Nat \X V |-> IF x[1] < N THEN G[<<x[1] + 1, x[2]>>] ELSE x[2]]
<1>1. H \in [Nat \X V -> V]
  <2>1. ASSUME NEW x \in Nat \X V, x[1] < N
        PROVE  G[<<x[1] + 1, x[2]>>] \in V
    <3>1. x[1] + 1 \in 1..N /\ x[2] \in V
      BY <2>1
    <3>. QED
      BY <3>1
  <2>2. \A x \in Nat \X V : x[2] \in V
    OBVIOUS
  <2>. QED
    BY <2>1, <2>2
<1>2. PICK f \in [Nat -> V] : Follows(f, a, H)
  <2>. HIDE DEF H
  <2>. QED
    BY <1>1, RecursionOnNat
<1>. DEFINE g == [k \in 0..N |-> f[k]]
<1>3. g \in [0..N -> V] /\ g[0] = a
  BY <1>2 DEF Follows
<1>4. ASSUME NEW k \in 1..N
      PROVE  g[k] = G[<<k, g[k - 1]>>]
  <2>1. k - 1 \in Nat /\ (k - 1) + 1 = k /\ k - 1 < N /\ k - 1 \in 0..N /\ k \in 0..N
    OBVIOUS
  <2>2. f[(k - 1) + 1] = H[<<k - 1, f[k - 1]>>]
    BY <1>2, <2>1 DEF Follows
  <2>3. <<k - 1, f[k - 1]>> \in Nat \X V
    BY <2>1
  <2>4. H[<<k - 1, f[k - 1]>>] = G[<<(k - 1) + 1, f[k - 1]>>]
    BY <2>1, <2>3
  <2>. QED
    BY <2>1, <2>2, <2>4
<1>. HIDE DEF g
<1>5. Iterates(g, a, G, N)
  BY <1>3, <1>4 DEF Iterates
<1>. QED
  BY <1>3, <1>5
=============================================================================
