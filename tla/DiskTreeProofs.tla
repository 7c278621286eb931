--------------------------- MODULE DiskTreeProofs ---------------------------
(***************************************************************************)
(* The disks of a replica form a tree and the open files are the path to   *)
(* the head: proved for any set of snapshots, sectors, values and faults.  *)
(* The first half are lemmas about paths, for any parents: what the        *)
(* recursive Path returns, and how paths change with the parents.          *)
(***************************************************************************)
EXTENDS DiskChain, TLAPS, FiniteSetTheorems, SequenceTheorems, WellFoundedInduction

\* Zenon first: encoding a leaf for the SMT solver is what costs.  The limits leave
\* room for a busy machine.
USE ZenonT(3), SMTT(60), ZenonT(60)

-----------------------------------------------------------------------------
(* Least and greatest elements.                                            *)

\* A nonempty set of naturals has a least element.
LEMMA Least ==
    ASSUME NEW T \in SUBSET Nat, T # {}
    PROVE  \E x \in T : \A y \in T : x <= y
<1>1. IsWellFoundedOn(OpToRel(<, Nat), Nat)
  BY NatLessThanWellFounded
<1>2. PICK x \in T : \A y \in T : ~ (<<y, x>> \in OpToRel(<, Nat))
  BY <1>1, WFMin
<1>3. \A y \in T : ~ (y < x)
  BY <1>2 DEF OpToRel
<1> QED BY <1>3

\* A nonempty set of naturals below a bound has a greatest element.
LEMMA Greatest ==
    ASSUME NEW n \in Nat, NEW T \in SUBSET (0..n), T # {}
    PROVE  \E x \in T : \A y \in T : y <= x
<1> DEFINE U == {k \in Nat : n - k \in T}
<1>1. PICK t \in T : TRUE
  OBVIOUS
<1>2. n - t \in U /\ U \subseteq Nat
  BY n - (n - t) = t
<1>3. PICK k \in U : \A j \in U : k <= j
  BY <1>2, Least
<1>4. ASSUME NEW y \in T PROVE y <= n - k
  <2>1. n - y \in U
    BY n - (n - y) = y
  <2>2. k \in Nat /\ y \in Nat /\ k <= n - y
    BY <1>3, <2>1
  <2> QED BY <2>2
<1> QED BY <1>3, <1>4

-----------------------------------------------------------------------------
(* The walk from a disk to the root.                                       *)

\* A path repeats no disk, so it is no longer than there are disks.
LEMMA PathLength ==
    ASSUME NEW par, NEW d, NEW p, IsPath(par, p, d)
    PROVE  /\ Cardinality(Snap) \in Nat
           /\ Len(p) \in Nat /\ 1 <= Len(p) /\ Len(p) <= Cardinality(Snap) + 1
<1>1. IsFiniteSet(Snap) /\ Cardinality(Snap) \in Nat
  BY SnapAssumption, FS_CardinalityType
<1>2. IsFiniteSet(Disk) /\ Cardinality(Disk) = Cardinality(Snap) + 1
  BY <1>1, FS_AddElement, DistinctAssumption DEF Disk
<1>3. p \in Seq(Disk) /\ Len(p) \in Nat /\ Len(p) > 0
  BY DEF IsPath
<1>4. p \in Injection(1..Len(p), Disk)
  <2>1. p \in [1..Len(p) -> Disk] /\ DOMAIN p = 1..Len(p)
    BY <1>3
  <2>2. \A i, j \in 1..Len(p) : p[i] = p[j] => i = j
    BY <2>1 DEF IsPath
  <2> QED BY <2>1, <2>2 DEF Injection, IsInjective
<1>5. Cardinality(1..Len(p)) <= Cardinality(Disk)
  BY <1>2, <1>4, FS_Injection
<1>6. Cardinality(1..Len(p)) = Len(p)
  BY <1>3, FS_Interval
<1> QED BY <1>1, <1>2, <1>3, <1>5, <1>6

\* The walk of Chain from a disk towards the root returns the path of that disk.
\* Of the steps at which it would first go wrong there is no least one.
LEMMA PathUnique ==
    ASSUME NEW par, NEW d, NEW p, IsPath(par, p, d)
    PROVE  PathIn(par, d) = p
<1> DEFINE N == Cardinality(Snap)
           Tail2(n) == SubSeq(p, Len(p) - n, Len(p))
           g == [n \in 0..N |-> IF n < Len(p) THEN Tail2(n) ELSE p]
           F(f) == [n \in 0..N |->
                      IF n = 0 THEN <<d>>
                      ELSE LET q == par[f[n - 1][1]]
                           IN  IF q = None THEN f[n - 1] ELSE <<q>> \o f[n - 1]]
           up == CHOOSE f : f = F(f)
<1>1. PathIn(par, d) = up[N]
  BY DEF PathIn
<1>2. /\ N \in Nat /\ Len(p) \in Nat /\ 1 <= Len(p) /\ Len(p) <= N + 1
      /\ p \in Seq(Disk) /\ \A i \in 1..Len(p) : p[i] \in Disk
  BY PathLength DEF IsPath
<1>3. /\ p[Len(p)] = d /\ par[p[1]] = None
      /\ \A i \in 2..Len(p) : par[p[i]] = p[i - 1] /\ p[i - 1] # None
  BY <1>2, DistinctAssumption DEF IsPath, Disk
<1>4. ASSUME NEW n \in 0..N, n < Len(p)
      PROVE  /\ Tail2(n)[1] = p[Len(p) - n]
             /\ n > 0 => Tail2(n) = <<p[Len(p) - n]>> \o Tail2(n - 1)
  <2>1. /\ n \in Nat /\ Len(p) - n \in 1..Len(p) /\ Len(p) - (n - 1) = Len(p) - n + 1
        /\ Len(p) \in Len(p) - n .. Len(p)
    BY <1>2, <1>4
  <2>2. Tail2(n) = <<p[Len(p) - n]>> \o SubSeq(p, Len(p) - n + 1, Len(p))
    BY <1>2, <2>1, SubSeqRecursiveFirst
  <2>3. Tail2(n)[1] = p[Len(p) - n]
    <3>1. \A i \in 1 .. Len(p) - (Len(p) - n) + 1 : Tail2(n)[i] = p[Len(p) - n + i - 1]
      BY <1>2, <2>1
    <3> QED BY <3>1, <2>1, <1>2
  <2> QED BY <2>1, <2>2, <2>3
<1>5. Tail2(0) = <<d>> /\ Tail2(Len(p) - 1) = p
  <2>1. Tail2(0) = SubSeq(p, Len(p), Len(p)) /\ Tail2(Len(p) - 1) = SubSeq(p, 1, Len(p))
    BY <1>2
  <2>2. SubSeq(p, 1, Len(p)) = p
    BY <1>2, SubSeqFull
  <2>3. SubSeq(p, Len(p), Len(p)) = <<p[Len(p)]>>
    <3>1. SubSeq(p, Len(p), Len(p)) = <<p[Len(p)]>> \o SubSeq(p, Len(p) + 1, Len(p))
      BY <1>2, SubSeqRecursiveFirst
    <3>2. SubSeq(p, Len(p) + 1, Len(p)) = <<>>
      BY <1>2, SubSeqEmpty
    <3>3. <<p[Len(p)]>> \in Seq(Disk)
      BY <1>2
    <3> QED BY <3>1, <3>2, <3>3, ConcatEmptySeq
  <2> QED BY <2>1, <2>2, <2>3, <1>3
<1>6. ASSUME NEW n \in 0..N
      PROVE  g[n] = IF n = 0 THEN <<d>>
                    ELSE LET q == par[g[n - 1][1]]
                         IN  IF q = None THEN g[n - 1] ELSE <<q>> \o g[n - 1]
  <2>a. \A m \in 0..N : g[m] = IF m < Len(p) THEN Tail2(m) ELSE p
    OBVIOUS
  <2> HIDE DEF g, Tail2
  <2>1. CASE n = 0
    BY <2>1, <2>a, <1>2, <1>5
  <2>2. CASE n > 0 /\ n < Len(p)
    <3>1. n - 1 \in 0..N /\ n - 1 < Len(p) /\ Len(p) - (n - 1) \in 2..Len(p)
          /\ Len(p) - (n - 1) - 1 = Len(p) - n
      BY <2>2, <1>2
    <3>2. g[n - 1] = Tail2(n - 1) /\ g[n] = Tail2(n)
      BY <3>1, <2>2, <2>a
    <3>3. g[n - 1][1] = p[Len(p) - (n - 1)]
      BY <3>1, <3>2, <1>4
    <3>4. par[g[n - 1][1]] = p[Len(p) - n] /\ p[Len(p) - n] # None
      BY <3>1, <3>3, <1>3
    <3>5. Tail2(n) = <<p[Len(p) - n]>> \o Tail2(n - 1)
      BY <2>2, <1>4
    <3> QED BY <2>2, <3>2, <3>4, <3>5
  <2>3. CASE n >= Len(p)
    <3>1. n > 0 /\ n - 1 \in 0..N /\ (n - 1 < Len(p) => n - 1 = Len(p) - 1)
      BY <2>3, <1>2
    <3>2. g[n] = p
      BY <2>3, <2>a, <1>2
    <3>3. g[n - 1] = p
      BY <3>1, <2>a, <1>5
    <3> QED BY <3>1, <3>2, <3>3, <1>3
  <2> QED BY <2>1, <2>2, <2>3, <1>2
<1>b. g = F(g)
  <2>1. g = [n \in 0..N |-> g[n]]
    OBVIOUS
  <2> HIDE DEF g
  <2> QED BY <2>1, <1>6
<1> HIDE DEF g
<1>7. up = F(up)
  BY <1>b
<1> HIDE DEF up
<1>8. ASSUME NEW n \in 0..N, n > 0 => up[n - 1] = g[n - 1]
      PROVE  up[n] = g[n]
  <2>1. up[n] = F(up)[n] /\ g[n] = F(g)[n]
    BY <1>b, <1>7
  <2>2. CASE n = 0
    BY <2>1, <2>2
  <2>3. CASE n > 0
    BY <2>1, <2>3, <1>8
  <2> QED BY <2>2, <2>3, <1>2
<1>9. \A n \in 0..N : up[n] = g[n]
  <2> DEFINE T == {n \in 0..N : up[n] # g[n]}
  <2> SUFFICES ASSUME T # {} PROVE FALSE
    OBVIOUS
  <2>1. T \in SUBSET Nat
    BY <1>2
  <2>2. PICK n \in T : \A m \in T : n <= m
    BY <2>1, Least
  <2>3. n > 0 => n - 1 \in 0..N /\ ~ (n <= n - 1)
    BY <1>2
  <2>4. n > 0 => up[n - 1] = g[n - 1]
    BY <2>2, <2>3
  <2> QED BY <2>4, <1>8
<1>10. g[N] = p
  <2>1. N \in 0..N /\ (N < Len(p) => N = Len(p) - 1)
    BY <1>2
  <2> QED BY <2>1, <1>5 DEF g
<1> QED BY <1>1, <1>2, <1>9, <1>10

\* Path p contains disk d.
Passes(p, d) == \E i \in DOMAIN p : p[i] = d

\* What a path is, index by index.
LEMMA PathFacts ==
    ASSUME NEW par, NEW p, NEW d, IsPath(par, p, d)
    PROVE  /\ p \in Seq(Disk) /\ Len(p) \in Nat /\ Len(p) > 0 /\ DOMAIN p = 1..Len(p)
           /\ p[Len(p)] = d /\ d \in Disk
           /\ \A i \in 1..Len(p) : p[i] \in Disk /\ p[i] # None
           /\ \A i \in 1..Len(p) - 1 : par[p[i + 1]] = p[i]
<1>1. p \in Seq(Disk) /\ Len(p) \in Nat /\ Len(p) > 0 /\ DOMAIN p = 1..Len(p) /\ p[Len(p)] = d
  BY DEF IsPath
<1>2. \A i \in 1..Len(p) : p[i] \in Disk /\ p[i] # None
  BY <1>1, DistinctAssumption DEF Disk
<1>3. ASSUME NEW i \in 1..Len(p) - 1 PROVE par[p[i + 1]] = p[i]
  <2>1. i + 1 \in 2..Len(p) /\ i + 1 \in 1..Len(p) /\ i \in 1..Len(p) /\ (i + 1) - 1 = i
    BY <1>1
  <2>2. par[p[i + 1]] = p[i]
    BY <2>1 DEF IsPath
  <2> QED BY <2>1, <2>2, <1>2
<1> QED BY <1>1, <1>2, <1>3

-----------------------------------------------------------------------------
(* Paths of one tree made from those of another.                           *)

\* A path stays one when no disk on it gets another parent.
LEMMA PathKept ==
    ASSUME NEW par, NEW par2, NEW p, NEW d, IsPath(par, p, d),
           \A i \in DOMAIN p : par2[p[i]] = par[p[i]]
    PROVE  IsPath(par2, p, d)
<1>1. p \in Seq(Disk) /\ Len(p) > 0 /\ DOMAIN p = 1..Len(p) /\ Len(p) \in Nat
  BY DEF IsPath
<1> QED BY <1>1 DEF IsPath

\* A path can be extended by a disk whose parent is its last disk.
LEMMA PathGrows ==
    ASSUME NEW par, NEW p, NEW d, IsPath(par, p, d), NEW e \in Disk,
           par[e] = d, ~ Passes(p, e)
    PROVE  IsPath(par, p \o <<e>>, e)
<1> DEFINE q == p \o <<e>>
<1>1. p \in Seq(Disk) /\ Len(p) \in Nat /\ Len(p) > 0 /\ DOMAIN p = 1..Len(p) /\ p[Len(p)] = d
  BY DEF IsPath
<1>2. /\ q \in Seq(Disk) /\ Len(q) = Len(p) + 1 /\ DOMAIN q = 1..Len(p) + 1
      /\ \A i \in 1..Len(p) : q[i] = p[i]
      /\ q[Len(p) + 1] = e
  BY <1>1
<1> HIDE DEF q
<1>3. par[q[1]] = None /\ \A i \in 2..Len(q) : par[q[i]] = q[i - 1]
  BY <1>1, <1>2 DEF IsPath
<1>4. \A i, j \in DOMAIN q : q[i] = q[j] => i = j
  BY <1>1, <1>2 DEF IsPath, Passes
<1>5. IsPath(par, q, e)
  BY <1>1, <1>2, <1>3, <1>4 DEF IsPath
<1> QED BY <1>5 DEF q

\* What RemoveIndex leaves of a list of files.
LEMMA WithoutFacts ==
    ASSUME NEW p \in Seq(Disk), NEW k \in 1..Len(p)
    PROVE  /\ Without(p, k) \in Seq(Disk) /\ Len(Without(p, k)) = Len(p) - 1
           /\ DOMAIN Without(p, k) = 1..Len(p) - 1
           /\ \A i \in 1..Len(p) - 1 : /\ i < k => Without(p, k)[i] = p[i]
                                       /\ ~ (i < k) => Without(p, k)[i] = p[i + 1]
<1> DEFINE a == SubSeq(p, 1, k - 1)
           c == SubSeq(p, k + 1, Len(p))
<1>1. Len(p) \in Nat /\ k \in Nat /\ \A i \in 1..Len(p) : p[i] \in Disk
  OBVIOUS
<1>2. a \in Seq(Disk) /\ Len(a) = k - 1 /\ \A i \in 1..k - 1 : a[i] = p[i]
  BY <1>1
<1>3. c \in Seq(Disk) /\ Len(c) = Len(p) - k /\ \A i \in 1..Len(p) - k : c[i] = p[k + i]
  BY <1>1
<1> HIDE DEF a, c
<1>4. PICK q : q = a \o c
  OBVIOUS
<1>5. /\ q \in Seq(Disk) /\ Len(q) = Len(a) + Len(c)
      /\ \A i \in 1..Len(a) + Len(c) : q[i] = IF i <= Len(a) THEN a[i] ELSE c[i - Len(a)]
  BY <1>2, <1>3, <1>4, ConcatProperties
<1>6. Len(a) + Len(c) = Len(p) - 1
  BY <1>1, <1>2, <1>3
<1>7. DOMAIN q = 1..Len(p) - 1 /\ Len(q) = Len(p) - 1
  BY <1>5, <1>6
<1>8. ASSUME NEW i \in 1..Len(p) - 1
      PROVE  (i < k => q[i] = p[i]) /\ (~ (i < k) => q[i] = p[i + 1])
  <2>1. CASE i < k
    <3>1. i <= k - 1 /\ i \in 1..k - 1
      BY <1>1, <2>1
    <3>2. q[i] = a[i]
      BY <1>2, <1>5, <1>6, <3>1
    <3> QED BY <2>1, <1>2, <3>1, <3>2
  <2>2. CASE ~ (i < k)
    <3>1. ~ (i <= k - 1) /\ i - (k - 1) \in 1..Len(p) - k /\ k + (i - (k - 1)) = i + 1
      BY <1>1, <2>2
    <3>2. q[i] = c[i - (k - 1)]
      BY <1>2, <1>5, <1>6, <3>1
    <3>3. q[i] = p[i + 1]
      BY <1>3, <3>1, <3>2
    <3> QED BY <2>2, <3>3
  <2> QED BY <2>1, <2>2
<1>9. Without(p, k) = q
  BY <1>4 DEF Without, a, c
<1> QED BY <1>5, <1>7, <1>8, <1>9

\* When the disk above place k gets the parent of the one at k, the path without
\* place k is a path.
LEMMA PathShrinks ==
    ASSUME NEW par, NEW par2, NEW p, NEW d, IsPath(par, p, d), NEW k \in 1..Len(p) - 1,
           par2[p[k + 1]] = par[p[k]],
           \A i \in DOMAIN p : i # k /\ i # k + 1 => par2[p[i]] = par[p[i]]
    PROVE  IsPath(par2, Without(p, k), d)
<1>1. /\ p \in Seq(Disk) /\ Len(p) \in Nat /\ Len(p) > 0 /\ DOMAIN p = 1..Len(p)
      /\ p[Len(p)] = d /\ par[p[1]] = None
      /\ \A i \in 2..Len(p) : par[p[i]] = p[i - 1]
      /\ \A i, j \in 1..Len(p) : p[i] = p[j] => i = j
  BY DEF IsPath
<1>2. PICK q : q = Without(p, k)
  OBVIOUS
<1>a. k \in 1..Len(p) /\ k + 1 \in 2..Len(p) /\ k \in Nat
  BY <1>1
<1>b. \A i \in 1..Len(p) : i # k /\ i # k + 1 => par2[p[i]] = par[p[i]]
  BY <1>1
<1>3. /\ q \in Seq(Disk) /\ Len(q) = Len(p) - 1 /\ DOMAIN q = 1..Len(p) - 1
      /\ \A i \in 1..Len(p) - 1 : (i < k => q[i] = p[i]) /\ (~ (i < k) => q[i] = p[i + 1])
  <2>1. p \in Seq(Disk) /\ k \in 1..Len(p)
    BY <1>1, <1>a
  <2>2. /\ Without(p, k) \in Seq(Disk) /\ Len(Without(p, k)) = Len(p) - 1
        /\ DOMAIN Without(p, k) = 1..Len(p) - 1
        /\ \A i \in 1..Len(p) - 1 : /\ i < k => Without(p, k)[i] = p[i]
                                    /\ ~ (i < k) => Without(p, k)[i] = p[i + 1]
    BY <2>1, WithoutFacts
  <2> QED BY <1>2, <2>2
<1>4. Len(q) > 0 /\ q[Len(q)] = d
  <2>1. Len(p) - 1 \in 1..Len(p) - 1 /\ ~ (Len(p) - 1 < k) /\ (Len(p) - 1) + 1 = Len(p)
    BY <1>1, <1>a
  <2> QED BY <1>1, <1>3, <2>1
<1>5. par2[q[1]] = None
  <2>1. CASE k = 1
    BY <1>1, <1>3, <1>a, <2>1
  <2>2. CASE k > 1
    <3>1. q[1] = p[1] /\ 1 \in 1..Len(p) /\ 1 # k /\ 1 # k + 1
      BY <1>1, <1>3, <1>a, <2>2
    <3> QED BY <3>1, <1>1, <1>b
  <2> QED BY <1>a, <2>1, <2>2
<1>6. ASSUME NEW i \in 2..Len(q) PROVE par2[q[i]] = q[i - 1]
  <2>0. i \in 1..Len(p) - 1 /\ i - 1 \in 1..Len(p) - 1 /\ i \in 2..Len(p) /\ i + 1 \in 2..Len(p)
        /\ (i + 1) - 1 = i /\ (i - 1) + 1 = i /\ i + 1 \in 1..Len(p) /\ i \in 1..Len(p)
    BY <1>1, <1>3
  <2>1. CASE i < k
    <3>0. i - 1 < k /\ i # k /\ i # k + 1
      BY <1>a, <2>0, <2>1
    <3>1. q[i] = p[i] /\ q[i - 1] = p[i - 1] /\ i # k /\ i # k + 1
      BY <1>3, <2>0, <2>1, <3>0
    <3> QED BY <3>1, <2>0, <1>1, <1>b
  <2>2. CASE i = k
    <3>1. q[i] = p[k + 1] /\ q[i - 1] = p[k - 1]
      BY <1>3, <1>a, <2>0, <2>2
    <3> QED BY <3>1, <2>0, <2>2, <1>1
  <2>3. CASE i > k
    <3>0. ~ (i < k) /\ ~ (i - 1 < k) /\ i + 1 # k /\ i + 1 # k + 1
      BY <1>a, <2>0, <2>3
    <3>a. q[i] = p[i + 1]
      BY <1>3, <2>0, <3>0
    <3>b. q[i - 1] = p[(i - 1) + 1]
      BY <1>3, <2>0, <3>0
    <3>1. q[i] = p[i + 1] /\ q[i - 1] = p[i] /\ i + 1 # k /\ i + 1 # k + 1
      BY <2>0, <3>0, <3>a, <3>b
    <3> QED BY <3>1, <2>0, <1>1, <1>b
  <2> QED BY <1>a, <2>0, <2>1, <2>2, <2>3
<1>7. ASSUME NEW i \in DOMAIN q, NEW j \in DOMAIN q, q[i] = q[j] PROVE i = j
  <2>0. i \in 1..Len(p) - 1 /\ j \in 1..Len(p) - 1
    BY <1>3
  <2>1. i \in 1..Len(p) /\ i + 1 \in 1..Len(p) /\ j \in 1..Len(p) /\ j + 1 \in 1..Len(p)
    BY <1>1, <2>0
  <2>2. CASE i < k /\ j < k
    BY <1>1, <1>3, <1>7, <2>0, <2>1, <2>2
  <2>3. CASE ~ (i < k) /\ ~ (j < k)
    <3>1. i + 1 = j + 1
      BY <1>1, <1>3, <1>7, <2>0, <2>1, <2>3
    <3> QED BY <3>1, <2>0
  <2>4. CASE i < k /\ ~ (j < k)
    <3>1. i = j + 1
      BY <1>1, <1>3, <1>7, <2>0, <2>1, <2>4
    <3> QED BY <3>1, <2>0, <2>4
  <2>5. CASE ~ (i < k) /\ j < k
    <3>1. i + 1 = j
      BY <1>1, <1>3, <1>7, <2>0, <2>1, <2>5
    <3> QED BY <3>1, <2>0, <2>5
  <2> QED BY <2>2, <2>3, <2>4, <2>5
<1> QED BY <1>2, <1>3, <1>4, <1>5, <1>6, <1>7 DEF IsPath

-----------------------------------------------------------------------------
(* The location of a sector.                                               *)

\* lookup finds the last file with an extent, and file 1 when there is none.
LEMMA LookupFacts ==
    ASSUME NEW files, NEW p, NEW b, Len(p) \in Nat, Len(p) > 0
    PROVE  LET l == Lookup(files, p, b)
           IN  /\ l \in 1..Len(p)
               /\ \A i \in l + 1..Len(p) : files[p[i]][b] = Hole
               /\ l = 1 \/ files[p[l]][b] # Hole
<1>1. PICK I : I = {i \in 2..Len(p) : files[p[i]][b] # Hole}
  OBVIOUS
<1>2. I \in SUBSET (0..Len(p))
  BY <1>1
<1>3. I # {} => \E i \in I : \A j \in I : j <= i
  BY <1>2, Greatest
<1>4. CASE I = {}
  <2>1. Lookup(files, p, b) = 1
    BY <1>1, <1>4 DEF Lookup
  <2> QED BY <1>1, <1>4, <2>1
<1>5. CASE I # {}
  <2>1. PICK l : l = CHOOSE i \in I : \A j \in I : j <= i
    OBVIOUS
  <2>2. l \in I /\ \A j \in I : j <= l
    BY <1>3, <1>5, <2>1
  <2>3. Lookup(files, p, b) = l
    BY <1>1, <1>5, <2>1 DEF Lookup
  <2>4. ASSUME NEW i \in l + 1..Len(p) PROVE files[p[i]][b] = Hole
    <3>1. i \in 2..Len(p) /\ ~ (i <= l)
      BY <1>1, <2>2
    <3> QED BY <1>1, <2>2, <3>1
  <2> QED BY <1>1, <2>2, <2>3, <2>4
<1> QED BY <1>4, <1>5

-----------------------------------------------------------------------------
(* The tree of a replica, step by step.                                    *)

\* The open files end in the head, and all others are snapshots in the directory,
\* as are the disks on the path of a snapshot.
LEMMA ChainFacts ==
    ASSUME Structure
    PROVE  /\ chain \in Seq(Disk) /\ Len(chain) \in Nat /\ Len(chain) > 0
           /\ DOMAIN chain = 1..Len(chain) /\ chain[Len(chain)] = VolumeHead
           /\ \A i \in 1..Len(chain) - 1 : chain[i] \in disks /\ parent[chain[i + 1]] = chain[i]
           /\ IsPath(parent, chain, VolumeHead)
           /\ \A d \in disks : /\ IsPath(parent, Path(d), d)
                               /\ \A i \in DOMAIN Path(d) : Path(d)[i] \in disks
<1>1. IsPath(parent, chain, VolumeHead) /\ parent \in [Disk -> disks \cup {None}]
  BY DEF Structure, Types, Tree, ChainIsPath
<1>2. ASSUME NEW d \in disks
      PROVE  /\ IsPath(parent, Path(d), d)
             /\ \A i \in DOMAIN Path(d) : Path(d)[i] \in disks
  <2>1. PICK p : p = Path(d)
    OBVIOUS
  <2>2. IsPath(parent, p, d)
    BY <2>1 DEF Structure, Tree
  <2>3. /\ Len(p) \in Nat /\ Len(p) > 0 /\ DOMAIN p = 1..Len(p) /\ p[Len(p)] = d
        /\ \A i \in 1..Len(p) - 1 : p[i] \in disks
    <3>1. /\ p \in Seq(Disk) /\ Len(p) \in Nat /\ Len(p) > 0 /\ DOMAIN p = 1..Len(p)
          /\ p[Len(p)] = d
          /\ \A i \in 1..Len(p) : p[i] \in Disk /\ p[i] # None
          /\ \A i \in 1..Len(p) - 1 : parent[p[i + 1]] = p[i]
      BY <2>2, PathFacts
    <3>2. ASSUME NEW i \in 1..Len(p) - 1 PROVE p[i] \in disks
      <4>1. i + 1 \in 1..Len(p) /\ i \in 1..Len(p)
        BY <3>1
      <4> QED BY <1>1, <3>1, <4>1
    <3> QED BY <3>1, <3>2
  <2>4. \A i \in 1..Len(p) : p[i] \in disks
    BY <2>3
  <2> QED BY <2>1, <2>2, <2>3, <2>4
<1>3. /\ chain \in Seq(Disk) /\ Len(chain) \in Nat /\ Len(chain) > 0
      /\ DOMAIN chain = 1..Len(chain) /\ chain[Len(chain)] = VolumeHead
      /\ \A i \in 1..Len(chain) : chain[i] \in Disk /\ chain[i] # None
      /\ \A i \in 1..Len(chain) - 1 : parent[chain[i + 1]] = chain[i]
  BY <1>1, PathFacts
<1>4. ASSUME NEW i \in 1..Len(chain) - 1 PROVE chain[i] \in disks
  <2>1. i + 1 \in 1..Len(chain) /\ i \in 1..Len(chain)
    BY <1>3
  <2> QED BY <1>1, <1>3, <2>1
<1> QED BY <1>1, <1>2, <1>3, <1>4

\* After a step, one path for every disk is all there is to show: it is the one
\* that Chain finds.
LEMMA TreeStep ==
    ASSUME \A d \in disks' \cup {VolumeHead} : \E p : IsPath(parent', p, d),
           IsPath(parent', chain', VolumeHead)
    PROVE  Tree' /\ ChainIsPath'
<1>1. ASSUME NEW d, NEW p, IsPath(parent', p, d) PROVE Path(d)' = p
  BY <1>1, PathUnique DEF Path
<1>2. ChainIsPath'
  BY <1>1 DEF ChainIsPath
<1>3. ASSUME NEW d \in disks' \cup {VolumeHead} PROVE IsPath(parent', Path(d)', d)
  BY <1>1
<1> QED BY <1>2, <1>3 DEF Tree

\* A step that leaves parents, disks and open files alone leaves all paths alone.
LEMMA SameTree ==
    ASSUME Structure, UNCHANGED <<disks, parent, chain>>
    PROVE  /\ Tree' /\ ChainIsPath' /\ \A s : Children(s)' = Children(s)
           /\ \A d : Path(d)' = Path(d)
BY DEF Structure, Tree, ChainIsPath, Path, Children

-----------------------------------------------------------------------------
(* Steps that leave the tree alone.                                        *)

\* I/O, a change of the setting, a mark, a reload and the steps of a purge that
\* remove no disk keep the shape of the tree.
LEMMA QuietShape ==
    ASSUME Structure,
           \/ \E b \in Block : \/ LookupStart(b) \/ LookupEnd(b) \/ PruneFile(b) \/ FoldFile(b)
                               \/ \E v \in Val : WriteAt(b, v)
           \/ SetUnmapMarkDiskChainRemoved \/ PurgeEnds \/ Reload
           \/ \E s \in Snap : MarkDiskAsRemoved(s) \/ PrepareRemoveDisk(s)
           \/ UNCHANGED vars
    PROVE  Structure'
<1> USE DEF dirVars
<1>1. UNCHANGED <<disks, parent, chain>>
  BY DEF Structure, ChainIsPath, LookupStart, LookupEnd, PruneFile, FoldFile, WriteAt,
         SetUnmapMarkDiskChainRemoved, PurgeEnds, Reload, MarkDiskAsRemoved,
         PrepareRemoveDisk, vars
<1>2. Tree' /\ ChainIsPath' /\ \A s : Children(s)' = Children(s)
  BY <1>1, SameTree
<1>a. Len(chain) \in Nat /\ Len(chain) > 0 /\ Len(chain) \in Index /\ 0 \in Index
  BY ChainFacts DEF Index
<1>3. ASSUME NEW b \in Block, NEW v \in Val, WriteAt(b, v) PROVE Types' /\ PurgeShape'
  <2>1. Types'
    BY <1>1, <1>3, <1>a DEF Structure, Types, WriteAt, Disk, Index
  <2>2. PurgeShape'
    BY <1>1, <1>2, <1>3 DEF Structure, PurgeShape, WriteAt
  <2> QED BY <2>1, <2>2
<1>4. ASSUME NEW b \in Block, LookupStart(b) PROVE Types' /\ PurgeShape'
  <2>1. Lookup(content, chain, b) \in Index
    BY <1>a, LookupFacts DEF Index
  <2>2. Types'
    BY <1>1, <1>4, <2>1 DEF Structure, Types, LookupStart, Index
  <2>3. PurgeShape'
    BY <1>1, <1>2, <1>4 DEF Structure, PurgeShape, LookupStart
  <2> QED BY <2>2, <2>3
<1>5. ASSUME NEW b \in Block, LookupEnd(b) PROVE Types' /\ PurgeShape'
  <2>1. Types'
    BY <1>1, <1>5, <1>a DEF Structure, Types, LookupEnd, Index
  <2>2. PurgeShape'
    BY <1>1, <1>2, <1>5 DEF Structure, PurgeShape, LookupEnd
  <2> QED BY <2>1, <2>2
<1>6. ASSUME NEW b \in Block, PruneFile(b) \/ FoldFile(b) PROVE Types' /\ PurgeShape'
  <2>1. /\ purge # None /\ purge.s \in disks \cap removed
        /\ \/ purge \in [op : {"prune"}, s : Snap, todo : SUBSET Block]
           \/ /\ purge \in [op : {"coalesce"}, s : Snap, t : Snap, todo : SUBSET Block]
              /\ purge.t \in disks /\ Children(purge.s) = {purge.t}
    BY <1>6 DEF Structure, PurgeShape, PruneFile, FoldFile
  <2>2. Types'
    <3>1. PICK v \in Val \cup {Zero, Hole} : content' = [content EXCEPT ![purge.s][b] = v]
      <4>1. content \in [Disk -> [Block -> Val \cup {Zero, Hole}]] /\ disks \subseteq Disk
        BY DEF Structure, Types, Disk
      <4>2. CASE PruneFile(b)
        BY <4>2 DEF PruneFile
      <4>3. CASE FoldFile(b)
        <5>1. purge.t \in Disk /\ content[purge.t][b] \in Val \cup {Zero, Hole}
          BY <4>1, <4>3, <2>1 DEF FoldFile
        <5> QED BY <4>3, <5>1 DEF FoldFile
      <4> QED BY <1>6, <4>2, <4>3
    <3>2. content' \in [Disk -> [Block -> Val \cup {Zero, Hole}]]
      BY <2>1, <3>1 DEF Structure, Types, Disk
    <3> QED BY <1>1, <1>6, <2>1, <3>2 DEF Structure, Types, PruneFile, FoldFile, Index, Disk
  <2>3. PurgeShape'
    <3>1. /\ purge'.s = purge.s
          /\ \/ purge' \in [op : {"prune"}, s : Snap, todo : SUBSET Block]
             \/ /\ purge' \in [op : {"coalesce"}, s : Snap, t : Snap, todo : SUBSET Block]
                /\ purge'.t = purge.t /\ purge.op = "coalesce"
      <4>1. purge' = [purge EXCEPT !.todo = @ \ {b}]
        BY <1>6 DEF PruneFile, FoldFile
      <4>2. CASE purge \in [op : {"prune"}, s : Snap, todo : SUBSET Block]
        BY <4>1, <4>2
      <4>3. CASE purge \in [op : {"coalesce"}, s : Snap, t : Snap, todo : SUBSET Block]
        BY <4>1, <4>3
      <4> QED BY <2>1, <4>2, <4>3
    <3>2. removed' = removed
      BY <1>6 DEF PruneFile, FoldFile
    <3> QED BY <1>1, <1>2, <2>1, <3>1, <3>2 DEF PurgeShape
  <2> QED BY <2>2, <2>3
<1>7. CASE SetUnmapMarkDiskChainRemoved \/ UNCHANGED vars
  <2>1. Types'
    BY <1>1, <1>7 DEF Structure, Types, SetUnmapMarkDiskChainRemoved, vars, Index
  <2>2. PurgeShape'
    BY <1>1, <1>2, <1>7 DEF Structure, PurgeShape, SetUnmapMarkDiskChainRemoved, vars
  <2> QED BY <1>2, <2>1, <2>2 DEF Structure
<1>8. CASE Reload \/ PurgeEnds
  <2>1. Types'
    BY <1>1, <1>8, <1>a DEF Structure, Types, Reload, PurgeEnds, Index
  <2>2. PurgeShape'
    BY <1>1, <1>2, <1>8 DEF Structure, PurgeShape, Reload, PurgeEnds
  <2> QED BY <1>2, <2>1, <2>2 DEF Structure
<1>9. ASSUME NEW s \in Snap, MarkDiskAsRemoved(s) PROVE Types' /\ PurgeShape'
  <2>1. Types'
    BY <1>1, <1>9 DEF Structure, Types, MarkDiskAsRemoved, Index
  <2>2. PurgeShape'
    BY <1>1, <1>2, <1>9 DEF Structure, PurgeShape, MarkDiskAsRemoved
  <2> QED BY <2>1, <2>2
<1>10. ASSUME NEW s \in Snap, PrepareRemoveDisk(s) PROVE Types' /\ PurgeShape'
  <2>1. Types'
    BY <1>1, <1>10 DEF Structure, Types, PrepareRemoveDisk, Index
  <2>2. PurgeShape'
    <3> SUFFICES ASSUME purge' # None PROVE PurgeShape'
      BY DEF PurgeShape
    <3>1. CASE Children(s) = {} /\ purge' = [op |-> "remove", s |-> s]
      BY <1>1, <1>2, <1>10, <3>1 DEF PurgeShape, PrepareRemoveDisk
    <3>2. CASE \E T \in SUBSET Block : purge' = [op |-> "prune", s |-> s, todo |-> T]
      BY <1>1, <1>2, <1>10, <3>2 DEF PurgeShape, PrepareRemoveDisk
    <3>3. CASE \E t \in disks : \E T \in SUBSET Block :
                 Children(s) = {t} /\ purge' = [op |-> "coalesce", s |-> s, t |-> t, todo |-> T]
      <4>1. PICK t \in disks, T \in SUBSET Block :
               Children(s) = {t} /\ purge' = [op |-> "coalesce", s |-> s, t |-> t, todo |-> T]
        BY <3>3
      <4>2. t \in Snap /\ s \in disks \cap removed
        BY <1>10 DEF Structure, Types, PrepareRemoveDisk
      <4>3. /\ purge' \in [op : {"coalesce"}, s : Snap, t : Snap, todo : SUBSET Block]
            /\ purge'.s = s /\ purge'.t = t
        BY <4>1, <4>2
      <4>4. removed' = removed
        BY <1>10 DEF PrepareRemoveDisk
      <4> QED BY <1>1, <1>2, <4>1, <4>2, <4>3, <4>4 DEF PurgeShape
    <3> QED BY <1>10, <3>1, <3>2, <3>3 DEF PrepareRemoveDisk
  <2> QED BY <2>1, <2>2
<1> QED BY <1>2, <1>3, <1>4, <1>5, <1>6, <1>7, <1>8, <1>9, <1>10 DEF Structure

\* So does UnmapAt, which may mark disks of the chain as removed.
LEMMA UnmapShape ==
    ASSUME Structure, NEW b \in Block, UnmapAt(b)
    PROVE  Structure'
<1>1. UNCHANGED <<disks, parent, chain, purge, loc, probe, shot>>
  BY DEF UnmapAt
<1>2. Tree' /\ ChainIsPath' /\ \A s : Children(s)' = Children(s)
  BY <1>1, SameTree
<1>3. {chain[i] : i \in Unmappable} \subseteq disks
  BY ChainFacts DEF Unmappable
<1>4. removed \subseteq removed' /\ removed' \subseteq disks
  BY <1>3 DEF UnmapAt, Structure, Types
<1>5. PICK P : content' = [d \in Disk |-> IF d \in P THEN [content[d] EXCEPT ![b] = Hole]
                                          ELSE content[d]]
  BY DEF UnmapAt
<1>6. Types'
  <2>1. content' \in [Disk -> [Block -> Val \cup {Zero, Hole}]]
    BY <1>5 DEF Structure, Types
  <2>2. vol' \in [Block -> Val \cup {Zero, Undefined}]
    BY DEF UnmapAt, Structure, Types
  <2> QED BY <1>1, <1>4, <2>1, <2>2 DEF Structure, Types, Index
<1>7. PurgeShape'
  BY <1>1, <1>2, <1>4 DEF Structure, PurgeShape
<1> QED BY <1>2, <1>6, <1>7 DEF Structure

-----------------------------------------------------------------------------
(* Snapshot and revert.                                                    *)

\* createDisk puts the new disk in the place of the head and the head on top of it;
\* the paths of the other disks stay.
LEMMA SnapshotPaths ==
    ASSUME Structure, NEW s \in Snap, Snapshot(s)
    PROVE  \E q \in Seq(Disk) :
               /\ Len(q) = Len(chain) /\ q[Len(q)] = s
               /\ \A i \in 1..Len(chain) - 1 : q[i] = chain[i]
               /\ IsPath(parent', q, s)
               /\ chain' = q \o <<VolumeHead>> /\ IsPath(parent', chain', VolumeHead)
               /\ \A d \in disks : IsPath(parent', Path(d), d)
<1>0. PICK n : n = Len(chain)
  OBVIOUS
<1>1. /\ chain \in Seq(Disk) /\ n \in Nat /\ n > 0 /\ DOMAIN chain = 1..n
      /\ chain[n] = VolumeHead
      /\ \A i \in 1..n - 1 : chain[i] \in disks /\ parent[chain[i + 1]] = chain[i]
      /\ IsPath(parent, chain, VolumeHead)
      /\ \A d \in disks : /\ IsPath(parent, Path(d), d)
                          /\ \A i \in DOMAIN Path(d) : Path(d)[i] \in disks
  BY <1>0, ChainFacts
<1>2. /\ s \notin disks /\ VolumeHead \notin disks /\ s # VolumeHead
      /\ s \in Disk /\ VolumeHead \in Disk
      /\ parent \in [Disk -> disks \cup {None}]
      /\ parent' = [parent EXCEPT ![s] = parent[VolumeHead], ![VolumeHead] = s]
  BY DistinctAssumption DEF Snapshot, Structure, Types, Disk
<1>3. /\ \A d \in disks : parent'[d] = parent[d]
      /\ parent'[s] = parent[VolumeHead] /\ parent'[VolumeHead] = s
  BY <1>2 DEF Structure, Types, Disk
<1>4. PICK q \in Seq(Disk) : /\ Len(q) = n /\ DOMAIN q = 1..n /\ q[n] = s
                             /\ \A i \in 1..n - 1 : q[i] = chain[i]
  <2>1. PICK f : f = [i \in 1..n |-> IF i = n THEN s ELSE chain[i]]
    OBVIOUS
  <2>2. \A i \in 1..n : chain[i] \in Disk
    BY <1>0, <1>1, ElementOfSeq
  <2>3. f \in [1..n -> Disk]
    BY <1>2, <2>1, <2>2
  <2>4. f \in Seq(Disk) /\ Len(f) = n /\ DOMAIN f = 1..n
    BY <1>1, <2>3
  <2>5. f[n] = s /\ \A i \in 1..n - 1 : f[i] = chain[i]
    BY <1>1, <2>1
  <2> QED BY <2>4, <2>5
<1>a. \A i \in 1..n : i < n => /\ i \in 1..n - 1
                               /\ q[i] = chain[i] /\ chain[i] \in disks
                               /\ parent'[q[i]] = parent[chain[i]]
  BY <1>1, <1>3, <1>4
<1>b. /\ parent[chain[1]] = None
      /\ \A i \in 2..n : parent[chain[i]] = chain[i - 1]
      /\ \A i, j \in 1..n : chain[i] = chain[j] => i = j
  BY <1>0, <1>1 DEF IsPath
<1>5. IsPath(parent', q, s)
  <2>1. parent'[q[1]] = None
    <3>1. CASE n = 1
      BY <3>1, <1>1, <1>3, <1>4, <1>b
    <3>2. CASE n > 1
      BY <3>2, <1>1, <1>a, <1>b
    <3> QED BY <1>1, <3>1, <3>2
  <2>2. ASSUME NEW i \in 2..n PROVE parent'[q[i]] = q[i - 1]
    <3>1. i - 1 \in 1..n /\ i - 1 < n /\ i \in 1..n
      BY <1>1
    <3>2. q[i - 1] = chain[i - 1] /\ parent[chain[i]] = chain[i - 1]
      BY <1>a, <1>b, <3>1
    <3>3. CASE i = n
      BY <3>2, <3>3, <1>1, <1>3, <1>4
    <3>4. CASE i < n
      BY <3>1, <3>2, <3>4, <1>a
    <3> QED BY <1>1, <3>3, <3>4
  <2>3. ASSUME NEW i \in 1..n, NEW j \in 1..n, q[i] = q[j] PROVE i = j
    <3>1. CASE i < n /\ j < n
      BY <2>3, <3>1, <1>a, <1>b
    <3>2. CASE i = n /\ j < n
      BY <2>3, <3>2, <1>2, <1>4, <1>a
    <3>3. CASE i < n /\ j = n
      BY <2>3, <3>3, <1>2, <1>4, <1>a
    <3> QED BY <1>1, <3>1, <3>2, <3>3
  <2> QED BY <1>1, <1>4, <2>1, <2>2, <2>3 DEF IsPath
<1>6. chain' = q \o <<VolumeHead>>
  <2>1. chain' = SubSeq(chain, 1, n - 1) \o <<s, VolumeHead>>
    BY <1>0 DEF Snapshot
  <2>2. PICK a : a = SubSeq(chain, 1, n - 1)
    OBVIOUS
  <2>3. a \in Seq(Disk) /\ Len(a) = n - 1 /\ \A i \in 1..n - 1 : a[i] = chain[i]
    BY <1>0, <1>1, <2>2
  <2>4. /\ a \o <<s, VolumeHead>> \in Seq(Disk) /\ q \o <<VolumeHead>> \in Seq(Disk)
        /\ Len(a \o <<s, VolumeHead>>) = n + 1 /\ Len(q \o <<VolumeHead>>) = n + 1
    BY <1>1, <1>2, <1>4, <2>3
  <2>5. ASSUME NEW i \in 1..n + 1
        PROVE  (a \o <<s, VolumeHead>>)[i] = (q \o <<VolumeHead>>)[i]
    <3>1. CASE i < n
      BY <1>1, <1>2, <1>4, <2>3, <3>1
    <3>2. CASE i = n
      BY <1>1, <1>2, <1>4, <2>3, <3>2
    <3>3. CASE i = n + 1
      BY <1>1, <1>2, <1>4, <2>3, <3>3
    <3>4. i < n \/ i = n \/ i = n + 1
      <4>1. n \in Nat
        BY <1>1
      <4> QED BY <4>1
    <3> QED BY <3>1, <3>2, <3>3, <3>4
  <2> QED BY <2>1, <2>2, <2>4, <2>5, SeqEqual
<1>7. IsPath(parent', chain', VolumeHead)
  <2>1. ~ Passes(q, VolumeHead)
    <3>1. ASSUME NEW i \in 1..n PROVE q[i] # VolumeHead
      <4>1. CASE i = n
        BY <1>2, <1>4, <4>1
      <4>2. CASE i < n
        BY <1>2, <1>a, <4>2
      <4> QED BY <1>1, <4>1, <4>2
    <3> QED BY <1>4, <3>1 DEF Passes
  <2> QED BY <1>2, <1>3, <1>5, <1>6, <2>1, PathGrows
<1>8. ASSUME NEW d \in disks PROVE IsPath(parent', Path(d), d)
  BY <1>1, <1>3, PathKept
<1> QED BY <1>0, <1>4, <1>5, <1>6, <1>7, <1>8

\* Snapshot keeps the shape of the tree: the purged disk gets no new child.
LEMMA SnapshotShape ==
    ASSUME Structure, NEW s \in Snap, Snapshot(s)
    PROVE  Structure'
<1>1. /\ disks' = disks \cup {s} /\ s \notin disks
      /\ UNCHANGED <<removed, loc, probe, purge, vol>>
      /\ shot' = [shot EXCEPT ![s] = vol]
      /\ parent' = [parent EXCEPT ![s] = parent[VolumeHead], ![VolumeHead] = s]
      /\ content' = [content EXCEPT ![s] = content[VolumeHead], ![VolumeHead] = Empty]
  BY DEF Snapshot
<1>2. Tree' /\ ChainIsPath'
  BY <1>1, SnapshotPaths, TreeStep
<1>3. Len(chain') = Len(chain) + 1 /\ Len(chain) \in Nat
  <2>1. chain \in Seq(Disk) /\ Len(chain) \in Nat /\ Len(chain) > 0
    BY ChainFacts
  <2>2. PICK q \in Seq(Disk) : Len(q) = Len(chain) /\ chain' = q \o <<VolumeHead>>
    BY SnapshotPaths
  <2>3. <<VolumeHead>> \in Seq(Disk) /\ Len(<<VolumeHead>>) = 1
    BY DEF Disk
  <2> QED BY <2>1, <2>2, <2>3, ConcatProperties
<1>4. Types'
  <2>1. /\ disks \subseteq Snap /\ removed \subseteq disks
        /\ parent \in [Disk -> disks \cup {None}] /\ \A x \in Snap \ disks : parent[x] = None
        /\ content \in [Disk -> [Block -> Val \cup {Zero, Hole}]]
        /\ loc \in [Block -> 0..Len(chain)] /\ probe \in [Block -> 0..Len(chain)]
        /\ vol \in [Block -> Val \cup {Zero, Undefined}]
        /\ shot \in [Snap -> [Block -> Val \cup {Zero, Undefined}]]
    BY DEF Structure, Types, Index
  <2>2. parent' \in [Disk -> disks' \cup {None}] /\ \A x \in Snap \ disks' : parent'[x] = None
    BY <1>1, <2>1, DistinctAssumption DEF Disk
  <2>3. content' \in [Disk -> [Block -> Val \cup {Zero, Hole}]]
    BY <1>1, <2>1 DEF Disk, Empty
  <2>4. loc' \in [Block -> 0..Len(chain')] /\ probe' \in [Block -> 0..Len(chain')]
    BY <1>1, <1>3, <2>1
  <2> QED BY <1>1, <2>1, <2>2, <2>3, <2>4 DEF Types, Index
<1>5. PurgeShape'
  <2>1. ASSUME NEW x \in disks, VolumeHead \notin Children(x) PROVE Children(x)' = Children(x)
    BY <1>1, <2>1, DistinctAssumption DEF Children, Structure, Types, Disk
  <2>2. VolumeHead \notin disks
    BY DistinctAssumption DEF Structure, Types
  <2> QED BY <1>1, <2>1, <2>2 DEF Structure, PurgeShape
<1> QED BY <1>2, <1>4, <1>5 DEF Structure

\* revertDisk keeps the shape of the tree: the head goes on a disk that is not
\* removed, hence not on the purged one.
LEMMA RevertShape ==
    ASSUME Structure, NEW s \in Snap, Revert(s)
    PROVE  /\ Structure' /\ IsPath(parent', chain', VolumeHead)
           /\ \A d \in disks : IsPath(parent', Path(d), d)
<1>1. /\ s \in disks \ removed
      /\ parent' = [parent EXCEPT ![VolumeHead] = s]
      /\ content' = [content EXCEPT ![VolumeHead] = Empty]
      /\ chain' = Path(s) \o <<VolumeHead>>
      /\ loc' = [b \in Block |-> 0]
      /\ vol' = shot[s]
      /\ UNCHANGED <<disks, removed, probe, purge, shot>>
  BY DEF Revert, CanRevert
<1>2. /\ VolumeHead \notin disks /\ VolumeHead \in Disk /\ disks \subseteq Disk
      /\ parent \in [Disk -> disks \cup {None}]
  BY DistinctAssumption DEF Structure, Types, Disk
<1>3. /\ \A d \in disks : parent'[d] = parent[d]
      /\ parent'[VolumeHead] = s
  BY <1>1, <1>2
<1>4. \A d \in disks : /\ IsPath(parent, Path(d), d)
                       /\ \A i \in DOMAIN Path(d) : Path(d)[i] \in disks
  BY ChainFacts
<1>5. ASSUME NEW d \in disks PROVE IsPath(parent', Path(d), d)
  BY <1>3, <1>4, PathKept
<1>6. IsPath(parent', chain', VolumeHead)
  <2>1. ~ Passes(Path(s), VolumeHead)
    BY <1>1, <1>2, <1>4 DEF Passes
  <2> QED BY <1>1, <1>2, <1>3, <1>5, <2>1, PathGrows
<1>7. Tree' /\ ChainIsPath'
  BY <1>1, <1>5, <1>6, TreeStep
<1>8. Types'
  <2>1. Len(chain') \in Nat
    BY <1>6, PathFacts
  <2>2. /\ parent' \in [Disk -> disks' \cup {None}]
        /\ \A x \in Snap \ disks' : parent'[x] = None
    BY <1>1, <1>2, DistinctAssumption DEF Structure, Types, Disk
  <2>3. content' \in [Disk -> [Block -> Val \cup {Zero, Hole}]]
    BY <1>1, <1>2 DEF Structure, Types, Empty
  <2>4. probe' = [b \in Block |-> 0]
    BY <1>1 DEF Revert, Locked, Structure, Types
  <2>5. loc' \in [Block -> 0..Len(chain')] /\ probe' \in [Block -> 0..Len(chain')]
    BY <1>1, <2>1, <2>4
  <2>6. vol' \in [Block -> Val \cup {Zero, Undefined}]
    BY <1>1 DEF Structure, Types
  <2> QED BY <1>1, <2>2, <2>3, <2>5, <2>6 DEF Structure, Types, Index
<1>9. PurgeShape'
  <2>1. ASSUME NEW x \in disks, VolumeHead \notin Children(x), x # s
        PROVE  Children(x)' = Children(x)
    BY <1>1, <1>2, <2>1 DEF Children
  <2> QED BY <1>1, <1>2, <2>1 DEF Structure, PurgeShape
<1> QED BY <1>5, <1>6, <1>7, <1>8, <1>9 DEF Structure

-----------------------------------------------------------------------------
(* Purge.                                                                  *)

\* On the path of a disk, each disk is a child of the one before it.
LEMMA PathsFacts ==
    ASSUME Structure, NEW d \in disks \cup {VolumeHead}
    PROVE  LET p == Path(d)
           IN  /\ IsPath(parent, p, d) /\ p \in Seq(Disk) /\ Len(p) \in Nat /\ Len(p) > 0
               /\ DOMAIN p = 1..Len(p) /\ p[Len(p)] = d /\ parent[p[1]] = None
               /\ \A i \in 1..Len(p) - 1 : /\ p[i] \in disks
                                           /\ parent[p[i + 1]] = p[i]
                                           /\ p[i + 1] \in Children(p[i])
               /\ \A i, j \in 1..Len(p) : p[i] = p[j] => i = j
<1>1. PICK p : p = Path(d)
  OBVIOUS
<1>2. IsPath(parent, p, d) /\ d \in Disk /\ parent \in [Disk -> disks \cup {None}]
  BY <1>1, DistinctAssumption DEF Structure, Tree, Types, Disk
<1>3. /\ p \in Seq(Disk) /\ Len(p) \in Nat /\ Len(p) > 0 /\ DOMAIN p = 1..Len(p)
      /\ p[Len(p)] = d
      /\ \A i \in 1..Len(p) : p[i] \in Disk /\ p[i] # None
      /\ \A i \in 1..Len(p) - 1 : parent[p[i + 1]] = p[i]
  BY <1>2, PathFacts
<1>4. parent[p[1]] = None /\ \A i, j \in 1..Len(p) : p[i] = p[j] => i = j
  BY <1>2, <1>3 DEF IsPath
<1>5. ASSUME NEW i \in 1..Len(p) - 1 PROVE p[i] \in disks
  <2>1. i + 1 \in 1..Len(p) /\ i \in 1..Len(p)
    BY <1>3
  <2> QED BY <1>2, <1>3, <2>1
<1>6. ASSUME NEW i \in 1..Len(p) - 1 PROVE p[i + 1] \in Children(p[i])
  <2>1. p[i + 1] \in disks \cup {VolumeHead}
    <3>1. CASE i + 1 = Len(p)
      BY <1>3, <3>1
    <3>2. CASE i + 1 \in 1..Len(p) - 1
      BY <1>5, <3>2
    <3>3. i + 1 = Len(p) \/ i + 1 \in 1..Len(p) - 1
      <4>1. \A n \in Nat : \A k \in 1..n - 1 : k + 1 = n \/ k + 1 \in 1..n - 1
        OBVIOUS
      <4> QED BY <1>3, <4>1
    <3> QED BY <3>1, <3>2, <3>3
  <2> QED BY <1>3, <2>1 DEF Children
<1> QED BY <1>1, <1>2, <1>3, <1>4, <1>5, <1>6

\* No disk is its own parent.
LEMMA NotOwnParent ==
    ASSUME Structure, NEW d \in disks \cup {VolumeHead}
    PROVE  parent[d] # d
<1>1. PICK p : p = Path(d)
  OBVIOUS
<1>2. /\ Len(p) \in Nat /\ Len(p) > 0 /\ p[Len(p)] = d /\ parent[p[1]] = None
      /\ \A i \in 1..Len(p) - 1 : parent[p[i + 1]] = p[i]
      /\ \A i, j \in 1..Len(p) : p[i] = p[j] => i = j
  BY <1>1, PathsFacts
<1>3. CASE Len(p) = 1
  <2>1. d # None
    BY DistinctAssumption DEF Structure, Types
  <2> QED BY <1>2, <1>3, <2>1
<1>4. CASE Len(p) > 1
  <2>1. PICK i \in 1..Len(p) - 1 : i + 1 = Len(p) /\ i \in 1..Len(p) /\ Len(p) \in 1..Len(p)
    <3>1. /\ Len(p) - 1 \in 1..Len(p) - 1 /\ (Len(p) - 1) + 1 = Len(p)
          /\ Len(p) - 1 \in 1..Len(p) /\ Len(p) \in 1..Len(p)
      BY <1>2, <1>4
    <3> QED BY <3>1
  <2>2. parent[d] = p[i] /\ i # Len(p)
    BY <1>2, <2>1
  <2> QED BY <1>2, <2>1, <2>2
<1>5. Len(p) = 1 \/ Len(p) > 1
  <2>1. \A n \in Nat : n > 0 => n = 1 \/ n > 1
    OBVIOUS
  <2> QED BY <1>2, <2>1
<1> QED BY <1>3, <1>4, <1>5

\* ReplaceDisk takes the purged disk out of every path: where it is on a path its
\* only child comes next, and a path without it does not have the child either.
LEMMA ReplacePaths ==
    ASSUME Structure, ReplaceDisk
    PROVE  /\ parent' = [parent EXCEPT ![purge.t] = parent[purge.s], ![purge.s] = None]
           /\ purge.s \in disks \cap removed /\ purge.t \in disks /\ purge.s # purge.t
           /\ Children(purge.s) = {purge.t} /\ disks' = disks \ {purge.s}
           /\ \A d \in (disks \cup {VolumeHead}) \ {purge.s} :
                 /\ ~ Passes(Path(d), purge.s) =>
                       IsPath(parent', Path(d), d) /\ ~ Passes(Path(d), purge.t)
                 /\ \A k \in DOMAIN Path(d) : Path(d)[k] = purge.s =>
                       /\ k \in 1..Len(Path(d)) - 1 /\ Path(d)[k + 1] = purge.t
                       /\ IsPath(parent', Without(Path(d), k), d)
<1>1. PICK s, t : s = purge.s /\ t = purge.t
  OBVIOUS
<1>2. /\ s \in disks \cap removed /\ t \in disks /\ Children(s) = {t}
      /\ parent' = [parent EXCEPT ![t] = parent[s], ![s] = None]
      /\ disks' = disks \ {s}
  BY <1>1 DEF ReplaceDisk, RemoveDiskNode, Structure, PurgeShape
<1>3. /\ parent[t] = s /\ s # t /\ disks \subseteq Disk /\ s # None
      /\ parent \in [Disk -> disks \cup {None}]
  <2>1. parent[t] = s
    BY <1>2 DEF Children
  <2> QED BY <2>1, <1>2, NotOwnParent, DistinctAssumption DEF Structure, Types, Disk
<1>4. /\ parent'[t] = parent[s]
      /\ \A d \in Disk : d # s /\ d # t => parent'[d] = parent[d]
  BY <1>2, <1>3
<1>5. ASSUME NEW d \in (disks \cup {VolumeHead}) \ {s}, NEW p, p = Path(d)
      PROVE  /\ ~ Passes(p, s) => IsPath(parent', p, d) /\ ~ Passes(p, t)
             /\ \A k \in DOMAIN p : p[k] = s =>
                   /\ k \in 1..Len(p) - 1 /\ p[k + 1] = t
                   /\ IsPath(parent', Without(p, k), d)
  <2>0. d \in disks \cup {VolumeHead}
    OBVIOUS
  <2>1. /\ IsPath(parent, p, d) /\ p \in Seq(Disk) /\ Len(p) \in Nat /\ Len(p) > 0
        /\ DOMAIN p = 1..Len(p) /\ p[Len(p)] = d /\ parent[p[1]] = None
        /\ \A i \in 1..Len(p) - 1 : parent[p[i + 1]] = p[i] /\ p[i + 1] \in Children(p[i])
        /\ \A i, j \in 1..Len(p) : p[i] = p[j] => i = j
    <3>1. PICK q : q = Path(d)
      OBVIOUS
    <3>2. /\ IsPath(parent, q, d) /\ q \in Seq(Disk) /\ Len(q) \in Nat /\ Len(q) > 0
          /\ DOMAIN q = 1..Len(q) /\ q[Len(q)] = d /\ parent[q[1]] = None
          /\ \A i \in 1..Len(q) - 1 : parent[q[i + 1]] = q[i] /\ q[i + 1] \in Children(q[i])
          /\ \A i, j \in 1..Len(q) : q[i] = q[j] => i = j
      BY <2>0, <3>1, PathsFacts
    <3> QED BY <1>5, <3>1, <3>2
  <2>2. \A i \in 1..Len(p) : p[i] \in Disk
    BY <2>1, ElementOfSeq
  <2>3. ASSUME ~ Passes(p, s) PROVE IsPath(parent', p, d) /\ ~ Passes(p, t)
    <3>1. ASSUME NEW i \in 1..Len(p), p[i] = t PROVE FALSE
      <4>1. CASE i = 1
        BY <4>1, <3>1, <2>1, <1>3
      <4>2. CASE i > 1
        <5>1. i - 1 \in 1..Len(p) - 1 /\ (i - 1) + 1 = i /\ i - 1 \in 1..Len(p)
          BY <2>1, <4>2
        <5>2. p[i - 1] = s
          BY <5>1, <3>1, <2>1, <1>3
        <5> QED BY <5>1, <5>2, <2>1, <2>3 DEF Passes
      <4> QED BY <4>1, <4>2
    <3>2. ~ Passes(p, t)
      BY <3>1, <2>1 DEF Passes
    <3>3. \A i \in DOMAIN p : parent'[p[i]] = parent[p[i]]
      BY <1>4, <2>1, <2>2, <2>3, <3>2 DEF Passes
    <3>4. IsPath(parent', p, d)
      BY <2>1, <3>3, PathKept
    <3> QED BY <3>2, <3>4
  <2>4. ASSUME NEW k \in DOMAIN p, p[k] = s
        PROVE  /\ k \in 1..Len(p) - 1 /\ p[k + 1] = t
               /\ IsPath(parent', Without(p, k), d)
    <3>1. k \in 1..Len(p) - 1 /\ k \in 1..Len(p) /\ k + 1 \in 1..Len(p)
      BY <2>1, <2>4
    <3>2. p[k + 1] = t
      BY <1>2, <2>1, <2>4, <3>1
    <3>3. \A i \in DOMAIN p : i # k /\ i # k + 1 => parent'[p[i]] = parent[p[i]]
      BY <1>4, <2>1, <2>2, <2>4, <3>1, <3>2
    <3>4. parent'[p[k + 1]] = parent[p[k]]
      BY <1>4, <2>4, <3>2
    <3>5. IsPath(parent', Without(p, k), d)
      BY <2>1, <3>1, <3>3, <3>4, PathShrinks
    <3> QED BY <3>1, <3>2, <3>5
  <2> QED BY <2>3, <2>4
<1>6. \A d \in (disks \cup {VolumeHead}) \ {s} :
         /\ ~ Passes(Path(d), s) => IsPath(parent', Path(d), d) /\ ~ Passes(Path(d), t)
         /\ \A k \in DOMAIN Path(d) : Path(d)[k] = s =>
               /\ k \in 1..Len(Path(d)) - 1 /\ Path(d)[k + 1] = t
               /\ IsPath(parent', Without(Path(d), k), d)
  BY <1>5
<1>7. s # t
  BY <1>3
<1> QED BY <1>1, <1>2, <1>6, <1>7

\* RemoveDiffDisk takes out a disk that is on no other path, nor in the chain.
LEMMA RemoveLeafPaths ==
    ASSUME Structure, RemoveDiffDisk
    PROVE  /\ parent' = [parent EXCEPT ![purge.s] = None]
           /\ purge.s \in disks \cap removed
           /\ Children(purge.s) = {} /\ disks' = disks \ {purge.s}
           /\ \A d \in (disks \cup {VolumeHead}) \ {purge.s} :
                 IsPath(parent', Path(d), d) /\ ~ Passes(Path(d), purge.s)
           /\ chain' = chain /\ loc' = loc
<1>1. PICK s : s = purge.s
  OBVIOUS
<1>2. /\ s \in disks \cap removed /\ Children(s) = {}
      /\ parent' = [parent EXCEPT ![s] = None]
      /\ disks' = disks \ {s}
      /\ RemoveDiskNode(s)
  BY <1>1 DEF RemoveDiffDisk, RemoveDiskNode, Structure, PurgeShape
<1>3. parent \in [Disk -> disks \cup {None}] /\ s # VolumeHead
  BY <1>2, DistinctAssumption DEF Structure, Types
<1>5. ASSUME NEW d \in (disks \cup {VolumeHead}) \ {s}, NEW p, p = Path(d)
      PROVE  IsPath(parent', p, d) /\ ~ Passes(p, s)
  <2>1. /\ IsPath(parent, p, d) /\ p \in Seq(Disk) /\ Len(p) \in Nat /\ Len(p) > 0
        /\ DOMAIN p = 1..Len(p) /\ p[Len(p)] = d
        /\ \A i \in 1..Len(p) - 1 : p[i + 1] \in Children(p[i])
    BY <1>5, PathsFacts
  <2>2. \A i \in 1..Len(p) : p[i] \in Disk
    BY <2>1, ElementOfSeq
  <2>3. ~ Passes(p, s)
    <3>1. ASSUME NEW i \in 1..Len(p), p[i] = s PROVE FALSE
      <4>1. i \in 1..Len(p) - 1
        BY <2>1, <3>1
      <4> QED BY <1>2, <2>1, <3>1, <4>1
    <3> QED BY <2>1, <3>1 DEF Passes
  <2>4. \A i \in DOMAIN p : parent'[p[i]] = parent[p[i]]
    BY <1>2, <1>3, <2>1, <2>2, <2>3 DEF Passes
  <2> QED BY <2>1, <2>3, <2>4, PathKept
<1>6. chain = Path(VolumeHead) /\ ~ Passes(chain, s)
  BY <1>3, <1>5 DEF Structure, ChainIsPath
<1>7. chain' = chain /\ loc' = loc
  BY <1>2, <1>6 DEF RemoveDiskNode, Passes
<1> QED BY <1>1, <1>2, <1>5, <1>7

\* removeDiskNode closes the file of the purged disk if it is open.
LEMMA ReplaceChain ==
    ASSUME Structure, ReplaceDisk
    PROVE  \/ /\ ~ Passes(chain, purge.s) /\ chain' = chain /\ loc' = loc
           \/ \E i \in 1..Len(chain) - 1 :
                 /\ chain[i] = purge.s /\ chain[i + 1] = purge.t
                 /\ chain' = Without(chain, i) /\ loc' = [b \in Block |-> Shift(i, loc[b])]
<1>1. /\ chain = Path(VolumeHead) /\ VolumeHead # purge.s
      /\ RemoveDiskNode(purge.s) /\ DOMAIN chain = 1..Len(chain)
  BY ReplacePaths, ChainFacts, DistinctAssumption
     DEF Structure, ChainIsPath, Types, ReplaceDisk
<1>2. CASE ~ Passes(chain, purge.s)
  BY <1>1, <1>2 DEF RemoveDiskNode, Passes
<1>3. CASE Passes(chain, purge.s)
  <2>1. PICK i \in DOMAIN chain : chain[i] = purge.s /\ RemoveIndex(i)
    BY <1>1, <1>3 DEF RemoveDiskNode, Passes
  <2>2. i \in 1..Len(chain) - 1 /\ chain[i + 1] = purge.t
    BY <1>1, <2>1, ReplacePaths
  <2> QED BY <2>1, <2>2 DEF RemoveIndex
<1> QED BY <1>2, <1>3

\* ReplaceDisk keeps the shape of the tree, and the locations within the chain.
LEMMA ReplaceShape ==
    ASSUME Structure, ReplaceDisk
    PROVE  Structure'
<1>1. PICK s, t : s = purge.s /\ t = purge.t
  OBVIOUS
<1>2. /\ parent' = [parent EXCEPT ![t] = parent[s], ![s] = None]
      /\ s \in disks \cap removed /\ t \in disks /\ s # t /\ Children(s) = {t}
      /\ disks' = disks \ {s} /\ removed' = removed \ {s}
      /\ content' = [content EXCEPT ![t] = content[s], ![s] = Empty]
      /\ shot' = [shot EXCEPT ![s] = [b \in Block |-> Undefined]]
      /\ UNCHANGED <<probe, vol>> /\ purge' = None
      /\ \A b \in Block : probe[b] = 0
  BY <1>1, ReplacePaths DEF ReplaceDisk, RemoveDiskNode, Locked
<1>3. /\ disks \subseteq Snap /\ disks \subseteq Disk /\ removed \subseteq disks
      /\ parent \in [Disk -> disks \cup {None}] /\ \A x \in Snap \ disks : parent[x] = None
      /\ content \in [Disk -> [Block -> Val \cup {Zero, Hole}]]
      /\ loc \in [Block -> 0..Len(chain)] /\ probe \in [Block -> 0..Len(chain)]
      /\ vol \in [Block -> Val \cup {Zero, Undefined}]
      /\ shot \in [Snap -> [Block -> Val \cup {Zero, Undefined}]]
      /\ chain \in Seq(Disk) /\ Len(chain) \in Nat /\ Len(chain) > 0
      /\ None \notin Disk /\ chain = Path(VolumeHead)
  BY ChainFacts, DistinctAssumption DEF Structure, Types, Index, Disk, ChainIsPath
<1>4. /\ IsPath(parent', chain', VolumeHead)
      /\ Len(chain') \in Nat /\ loc' \in [Block -> 0..Len(chain')]
  <2>1. VolumeHead \in (disks \cup {VolumeHead}) \ {s}
    BY <1>2, <1>3, DistinctAssumption
  <2>2. CASE ~ Passes(chain, s) /\ chain' = chain /\ loc' = loc
    BY <1>1, <1>3, <2>1, <2>2, ReplacePaths
  <2>3. ASSUME NEW i \in 1..Len(chain) - 1, chain[i] = s,
               chain' = Without(chain, i), loc' = [b \in Block |-> Shift(i, loc[b])]
        PROVE  <1>4!1 /\ <1>4!2
    <3>1. i \in DOMAIN chain /\ i \in 1..Len(chain)
      BY <1>3
    <3>2. IsPath(parent', Without(chain, i), VolumeHead)
      BY <1>1, <1>3, <2>1, <2>3, <3>1, ReplacePaths
    <3>3. Len(chain') = Len(chain) - 1
      BY <1>3, <2>3, <3>1, WithoutFacts
    <3>4. ASSUME NEW b \in Block PROVE Shift(i, loc[b]) \in 0..Len(chain) - 1
      BY <1>3, loc[b] \in 0..Len(chain) DEF Shift
    <3> QED BY <1>3, <2>3, <3>2, <3>3, <3>4
  <2> QED BY <1>1, <2>2, <2>3, ReplaceChain
<1>5. Tree' /\ ChainIsPath'
  <2>1. ASSUME NEW d \in disks' \cup {VolumeHead} PROVE \E p : IsPath(parent', p, d)
    <3>1. d \in (disks \cup {VolumeHead}) \ {s}
      BY <1>2, <1>3, DistinctAssumption
    <3> QED BY <1>1, <3>1, ReplacePaths DEF Passes
  <2> QED BY <1>4, <2>1, TreeStep
<1>6. Types'
  <2>1. ASSUME NEW d \in Disk PROVE parent'[d] \in disks' \cup {None}
    <3>1. CASE d = s
      BY <1>2, <1>3, <3>1
    <3>2. CASE d = t
      <4>1. parent[s] # s /\ parent'[d] = parent[s]
        BY <1>2, <1>3, <3>2, NotOwnParent
      <4> QED BY <1>2, <1>3, <4>1
    <3>3. CASE d # s /\ d # t
      <4>1. parent'[d] = parent[d]
        BY <1>2, <1>3, <3>3
      <4>2. parent[d] # s
        BY <1>2, <1>3, <3>3 DEF Children, Disk
      <4> QED BY <1>2, <1>3, <4>1, <4>2
    <3> QED BY <3>1, <3>2, <3>3
  <2>2. parent' \in [Disk -> disks' \cup {None}]
    BY <1>2, <1>3, <2>1
  <2>3. \A x \in Snap \ disks' : parent'[x] = None
    BY <1>2, <1>3 DEF Disk
  <2>4. content' \in [Disk -> [Block -> Val \cup {Zero, Hole}]]
    BY <1>2, <1>3 DEF Empty
  <2>5. probe' \in [Block -> 0..Len(chain')]
    BY <1>2, <1>3, <1>4
  <2>6. shot' \in [Snap -> [Block -> Val \cup {Zero, Undefined}]]
    BY <1>2, <1>3
  <2>7. disks' \subseteq Snap /\ removed' \subseteq disks'
    BY <1>2, <1>3
  <2> QED BY <1>2, <1>3, <1>4, <2>2, <2>3, <2>4, <2>5, <2>6, <2>7 DEF Types, Index
<1>7. PurgeShape'
  BY <1>2 DEF PurgeShape
<1> QED BY <1>5, <1>6, <1>7 DEF Structure

\* RemoveDiffDisk keeps the shape of the tree.
LEMMA RemoveLeafShape ==
    ASSUME Structure, RemoveDiffDisk
    PROVE  Structure'
<1>1. PICK s : s = purge.s
  OBVIOUS
<1>2. /\ parent' = [parent EXCEPT ![s] = None]
      /\ s \in disks \cap removed /\ Children(s) = {}
      /\ disks' = disks \ {s} /\ removed' = removed \ {s}
      /\ content' = [content EXCEPT ![s] = Empty]
      /\ shot' = [shot EXCEPT ![s] = [b \in Block |-> Undefined]]
      /\ UNCHANGED <<probe, vol, chain, loc>> /\ purge' = None
  BY <1>1, RemoveLeafPaths DEF RemoveDiffDisk, RemoveDiskNode
<1>3. /\ disks \subseteq Snap /\ disks \subseteq Disk /\ removed \subseteq disks
      /\ parent \in [Disk -> disks \cup {None}] /\ \A x \in Snap \ disks : parent[x] = None
      /\ content \in [Disk -> [Block -> Val \cup {Zero, Hole}]]
      /\ loc \in [Block -> 0..Len(chain)] /\ probe \in [Block -> 0..Len(chain)]
      /\ vol \in [Block -> Val \cup {Zero, Undefined}]
      /\ shot \in [Snap -> [Block -> Val \cup {Zero, Undefined}]]
      /\ VolumeHead # s
  BY <1>2, DistinctAssumption DEF Structure, Types, Index, Disk
<1>4. \A d \in (disks \cup {VolumeHead}) \ {s} : IsPath(parent', Path(d), d)
  BY <1>1, RemoveLeafPaths
<1>5. IsPath(parent', chain', VolumeHead)
  BY <1>2, <1>3, <1>4 DEF Structure, ChainIsPath
<1>6. Tree' /\ ChainIsPath'
  BY <1>2, <1>3, <1>4, <1>5, TreeStep
<1>7. Types'
  <2>1. ASSUME NEW d \in Disk PROVE parent'[d] \in disks' \cup {None}
    <3>1. parent[d] # s
      BY <1>2, <1>3, DistinctAssumption DEF Children, Disk
    <3> QED BY <1>2, <1>3, <3>1
  <2>2. parent' \in [Disk -> disks' \cup {None}] /\ \A x \in Snap \ disks' : parent'[x] = None
    BY <1>2, <1>3, <2>1
  <2>3. content' \in [Disk -> [Block -> Val \cup {Zero, Hole}]]
    BY <1>2, <1>3 DEF Empty
  <2>4. shot' \in [Snap -> [Block -> Val \cup {Zero, Undefined}]]
    BY <1>2, <1>3
  <2>5. loc' \in [Block -> 0..Len(chain')] /\ probe' \in [Block -> 0..Len(chain')]
    BY <1>2, <1>3
  <2> QED BY <1>2, <1>3, <2>2, <2>3, <2>4, <2>5 DEF Types, Index
<1>8. PurgeShape'
  BY <1>2 DEF PurgeShape
<1> QED BY <1>6, <1>7, <1>8 DEF Structure

-----------------------------------------------------------------------------
(* The theorems.                                                           *)

\* A new replica is a lone head.
LEMMA InitShape == Init => Structure
<1> SUFFICES ASSUME Init PROVE Structure
  OBVIOUS
<1>1. IsPath(parent, chain, VolumeHead)
  <2>1. chain \in Seq(Disk) /\ Len(chain) = 1 /\ chain[1] = VolumeHead /\ DOMAIN chain = 1..1
    BY DEF Init, Disk
  <2>2. parent[VolumeHead] = None
    BY DEF Init, Disk
  <2>3. \A i \in 1..1 : i = 1
    OBVIOUS
  <2>4. \A i \in 2..Len(chain) : FALSE
    BY <2>1
  <2>5. \A i, j \in DOMAIN chain : i = j
    BY <2>1, <2>3
  <2>6. Len(chain) > 0 /\ chain[Len(chain)] = VolumeHead
    BY <2>1
  <2> QED BY <2>1, <2>2, <2>4, <2>5, <2>6 DEF IsPath
<1>2. chain = Path(VolumeHead)
  BY <1>1, PathUnique DEF Path
<1>3. Len(chain) = 1
  BY DEF Init
<1>4. Types
  BY <1>3 DEF Init, Types, Index, Empty, Disk
<1> QED BY <1>1, <1>2, <1>4 DEF Structure, Tree, ChainIsPath, PurgeShape, Init

\* Every step keeps the shape of the tree, whatever the faults.
LEMMA StructureKept == Structure /\ [Next]_vars => Structure'
<1> SUFFICES ASSUME Structure, [Next]_vars PROVE Structure'
  OBVIOUS
<1>1. ASSUME NEW b \in Block, UnmapAt(b) PROVE Structure'
  BY <1>1, UnmapShape
<1>2. ASSUME NEW s \in Snap, Snapshot(s) PROVE Structure'
  BY <1>2, SnapshotShape
<1>3. ASSUME NEW s \in Snap, Revert(s) PROVE Structure'
  BY <1>3, RevertShape
<1>4. CASE ReplaceDisk
  BY <1>4, ReplaceShape
<1>5. CASE RemoveDiffDisk
  BY <1>5, RemoveLeafShape
<1>6. CASE \/ \E b \in Block : \/ LookupStart(b) \/ LookupEnd(b) \/ PruneFile(b) \/ FoldFile(b)
                               \/ \E v \in Val : WriteAt(b, v)
           \/ SetUnmapMarkDiskChainRemoved \/ PurgeEnds \/ Reload
           \/ \E s \in Snap : MarkDiskAsRemoved(s) \/ PrepareRemoveDisk(s)
           \/ UNCHANGED vars
  BY <1>6, QuietShape
<1> QED BY <1>1, <1>2, <1>3, <1>4, <1>5, <1>6 DEF Next

\* The parents always form a tree with the head as a leaf, the open files are the
\* path to it, locations lie within them, and a disk that is being coalesced keeps
\* its only child (createDisk, revertDisk, UnmapAt, ReplaceDisk, RemoveDiffDisk).
THEOREM ShapeInvariant == Spec => []Structure
BY InitShape, StructureKept, PTL DEF Spec

\* activeDiskData is what a reload would open, in every state, for any set of
\* snapshots and with both faults (removeDiskNode, createDisk, revertDisk).
THEOREM OpenFilesArePath == Spec => []ChainIsPath
<1>1. Structure => ChainIsPath
  BY DEF Structure
<1> QED BY <1>1, ShapeInvariant, PTL

=============================================================================
