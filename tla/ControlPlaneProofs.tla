------------------------- MODULE ControlPlaneProofs -------------------------
(***************************************************************************)
(* Proofs about ControlPlane.  PlaceReplicas picks different hosts and     *)
(* spreads them over the zones; every record that driver, sweep and loop   *)
(* write agrees with its UUID; and IInv is an inductive invariant.  Its    *)
(* core is that a UUID settles on which host a replica or an engine runs   *)
(* (HostOf), so that only the loop of that host starts or stops it,        *)
(* announces it as Running or deletes its record, however stale the        *)
(* records are that drivers and loops write back.                          *)
(***************************************************************************)
EXTENDS ControlPlane, TLAPS, FiniteSetTheorems, WellFoundedInduction

\* Zenon first: encoding a leaf for the SMT solver is what costs.  The limits leave
\* room for a busy machine.
USE ZenonT(3), SMTT(60), ZenonT(60)

----------------------------------------------------------------------------
(* Placement.                                                              *)

\* The order of the two passes is total on hosts with different UUIDs.
LEMMA PickOrder ==
    ASSUME NEW hosts \in SUBSET Int, NEW dc, \A x \in hosts : dc[x] \in Int,
           NEW g \in hosts, NEW h \in hosts, NEW k \in hosts
    PROVE  /\ ~ PickedBefore(hosts, dc, h, h)
           /\ g # h => PickedBefore(hosts, dc, g, h) \/ PickedBefore(hosts, dc, h, g)
           /\ PickedBefore(hosts, dc, k, g) /\ PickedBefore(hosts, dc, g, h)
              => PickedBefore(hosts, dc, k, h)
<1>1. /\ FirstOfZone(hosts, dc, g) \in BOOLEAN
      /\ FirstOfZone(hosts, dc, h) \in BOOLEAN
      /\ FirstOfZone(hosts, dc, k) \in BOOLEAN
  BY DEF FirstOfZone
<1>2. QED
  BY <1>1 DEF PickedBefore, Before

\* Different hosts have different ranks, and ranks count from 1 to the number
\* of hosts.
LEMMA RankType ==
    ASSUME NEW hosts \in SUBSET Int, IsFiniteSet(hosts), NEW dc,
           \A x \in hosts : dc[x] \in Int
    PROVE  /\ \A h \in hosts : Rank(hosts, dc, h) \in 1 .. Cardinality(hosts)
           /\ \A g, h \in hosts : g # h => Rank(hosts, dc, g) # Rank(hosts, dc, h)
<1> DEFINE Earlier(h) == {g \in hosts : PickedBefore(hosts, dc, g, h)}
<1>0. ASSUME NEW h \in hosts
      PROVE  /\ IsFiniteSet(Earlier(h)) /\ Cardinality(Earlier(h)) \in Nat
             /\ Cardinality(Earlier(h)) < Cardinality(hosts)
  <2>1. Earlier(h) \subseteq hosts /\ Earlier(h) # hosts
    BY PickOrder
  <2>2. QED
    BY <2>1, FS_Subset, FS_CardinalityType
<1>1. ASSUME NEW h \in hosts
      PROVE  Rank(hosts, dc, h) \in 1 .. Cardinality(hosts)
  <2>1. Cardinality(hosts) \in Nat
    BY FS_CardinalityType
  <2>2. \A m, n \in Nat : m < n => 1 + m \in 1 .. n
    OBVIOUS
  <2>3. 1 + Cardinality(Earlier(h)) \in 1 .. Cardinality(hosts)
    BY <1>0, <2>1, <2>2
  <2>4. QED
    BY <2>3 DEF Rank
<1>2. ASSUME NEW g \in hosts, NEW h \in hosts, PickedBefore(hosts, dc, g, h)
      PROVE  Rank(hosts, dc, g) # Rank(hosts, dc, h)
  <2>1. Earlier(g) \subseteq Earlier(h) /\ g \in Earlier(h) /\ g \notin Earlier(g)
    BY <1>2, PickOrder
  <2>2. Cardinality(Earlier(g)) < Cardinality(Earlier(h))
    BY <2>1, <1>0, FS_Subset
  <2>3. QED
    BY <2>2, <1>0 DEF Rank
<1>3. QED
  BY <1>1, <1>2, PickOrder

\* Every rank up to the number of hosts is the rank of one host.
LEMMA RankOnto ==
    ASSUME NEW hosts \in SUBSET Int, IsFiniteSet(hosts), NEW dc,
           \A x \in hosts : dc[x] \in Int,
           NEW i \in 1 .. Cardinality(hosts)
    PROVE  Picked(hosts, dc, i) \in hosts /\ Rank(hosts, dc, Picked(hosts, dc, i)) = i
<1> DEFINE rank == [h \in hosts |-> Rank(hosts, dc, h)]
           ranks == 1 .. Cardinality(hosts)
<1>1. Cardinality(hosts) \in Nat
  BY FS_CardinalityType
<1>2. IsFiniteSet(ranks) /\ Cardinality(ranks) = Cardinality(hosts)
  <2>1. PICK n \in Nat : n = Cardinality(hosts)
    BY <1>1
  <2>2. IsFiniteSet(1 .. n) /\ Cardinality(1 .. n) = IF 1 > n THEN 0 ELSE n - 1 + 1
    BY FS_Interval
  <2>3. QED
    BY <2>1, <2>2
<1>3. rank \in Injection(hosts, ranks)
  BY RankType DEF Injection, IsInjective
<1>4. rank \in Surjection(hosts, ranks)
  BY <1>2, <1>3, FS_Injection
<1>5. \E h \in hosts : Rank(hosts, dc, h) = i
  BY <1>4 DEF Surjection
<1>6. QED
  BY <1>5 DEF Picked

\* A nonempty set of naturals has a least element.
LEMMA Least ==
    ASSUME NEW T \in SUBSET Nat, T # {}
    PROVE  \E x \in T : \A y \in T : x <= y
<1>1. IsWellFoundedOn(OpToRel(<, Nat), Nat)
  BY NatLessThanWellFounded
<1>2. PICK x \in T : \A y \in T : ~ (<<y, x>> \in OpToRel(<, Nat))
  BY <1>1, WFMin
<1>3. \A y \in T : ~ (y < x)
  BY <1>2 DEF OpToRel
<1> QED BY <1>3

\* Of two hosts the one the passes come to first has the lower rank.
LEMMA RankOrder ==
    ASSUME NEW hosts \in SUBSET Int, IsFiniteSet(hosts), NEW dc,
           \A x \in hosts : dc[x] \in Int,
           NEW g \in hosts, NEW h \in hosts, PickedBefore(hosts, dc, g, h)
    PROVE  Rank(hosts, dc, g) < Rank(hosts, dc, h)
<1> DEFINE Earlier(x) == {y \in hosts : PickedBefore(hosts, dc, y, x)}
<1>1. Earlier(g) \subseteq Earlier(h) /\ g \in Earlier(h) /\ g \notin Earlier(g)
  BY PickOrder
<1>2. IsFiniteSet(Earlier(h)) /\ Earlier(h) \in SUBSET hosts
  BY FS_Subset
<1>3. Cardinality(Earlier(g)) < Cardinality(Earlier(h))
  <2>1. IsFiniteSet(Earlier(g))
    BY <1>1, <1>2, FS_Subset
  <2>2. /\ Cardinality(Earlier(g)) <= Cardinality(Earlier(h))
        /\ Cardinality(Earlier(h)) = Cardinality(Earlier(g)) => Earlier(h) = Earlier(g)
    BY <1>1, <1>2, FS_Subset
  <2>3. Cardinality(Earlier(g)) \in Nat /\ Cardinality(Earlier(h)) \in Nat
    BY <1>2, <2>1, FS_CardinalityType
  <2>4. QED
    BY <1>1, <2>2, <2>3
<1>4. Cardinality(Earlier(g)) \in Nat /\ Cardinality(Earlier(h)) \in Nat
  BY <1>1, <1>2, FS_Subset, FS_CardinalityType
<1>5. QED
  BY <1>3, <1>4 DEF Rank

\* Every zone has a host that the first pass takes.
LEMMA ZoneHasFirst ==
    ASSUME NEW hosts \in SUBSET Int, IsFiniteSet(hosts), NEW dc,
           \A x \in hosts : dc[x] \in Int, NEW h \in hosts
    PROVE  \E f \in hosts : dc[f] = dc[h] /\ FirstOfZone(hosts, dc, f)
<1> DEFINE zone == {x \in hosts : dc[x] = dc[h]}
           ranks == {Rank(hosts, dc, x) : x \in zone}
<1>1. \A x \in hosts : Rank(hosts, dc, x) \in Nat
  <2>1. Cardinality(hosts) \in Nat
    BY FS_CardinalityType
  <2>2. \A n \in Nat : \A m \in 1 .. n : m \in Nat
    OBVIOUS
  <2>3. QED
    BY <2>1, <2>2, RankType
<1>2. ranks \in SUBSET Nat /\ ranks # {}
  BY <1>1
<1>3. PICK m \in ranks : \A y \in ranks : m <= y
  BY <1>2, Least
<1>4. PICK f \in zone : Rank(hosts, dc, f) = m
  OBVIOUS
<1>5. ASSUME NEW g \in hosts, dc[g] = dc[f], ~ (g >= f)
      PROVE  FALSE
  <2>1. Before(dc, g, f) /\ g # f
    BY <1>5 DEF Before
  <2>2. FirstOfZone(hosts, dc, f) => FALSE
    BY <1>5 DEF FirstOfZone
  <2>3. PickedBefore(hosts, dc, g, f)
    BY <2>1, <2>2 DEF PickedBefore, FirstOfZone
  <2>4. Rank(hosts, dc, g) < Rank(hosts, dc, f)
    BY <2>3, RankOrder
  <2>5. Rank(hosts, dc, f) <= Rank(hosts, dc, g)
    BY <1>3, <1>4, <1>5
  <2>6. Rank(hosts, dc, f) \in Nat /\ Rank(hosts, dc, g) \in Nat
    BY <1>1, <1>5
  <2>7. \A a, b \in Nat : ~ (a < b /\ b <= a)
    OBVIOUS
  <2>8. QED
    BY <2>4, <2>5, <2>6, <2>7
<1>6. FirstOfZone(hosts, dc, f)
  BY <1>5 DEF FirstOfZone
<1>7. QED
  BY <1>6

\* PlaceReplicas, asked for no more replicas than there are hosts, picks as many
\* hosts, never one twice, and takes a second host of a zone only when every
\* zone has one.
THEOREM Placement ==
    ASSUME NEW hosts \in SUBSET Int, IsFiniteSet(hosts), NEW dc,
           \A x \in hosts : dc[x] \in Int,
           NEW count \in 1 .. Cardinality(hosts),
           NEW p, p = PlaceReplicas(hosts, dc, count)
    PROVE  /\ p \in [1 .. count -> hosts]
           /\ \A i, j \in 1 .. count : p[i] = p[j] => i = j
           /\ \A i, j \in 1 .. count :
                i # j /\ dc[p[i]] = dc[p[j]]
                => \A h \in hosts : \E k \in 1 .. count : dc[p[k]] = dc[h]
<1>0. Cardinality(hosts) \in Nat
  BY FS_CardinalityType
<1>1. p = [i \in 1 .. count |-> Picked(hosts, dc, i)]
  BY <1>0 DEF PlaceReplicas
<1>2. \A i \in 1 .. count : p[i] \in hosts /\ Rank(hosts, dc, p[i]) = i
  <2>1. \A i \in 1 .. count : i \in 1 .. Cardinality(hosts)
    BY <1>0
  <2>2. QED
    BY <1>1, <2>1, RankOnto
<1>3. \A g, h \in hosts : Rank(hosts, dc, g) = Rank(hosts, dc, h) => g = h
  BY RankType
<1>4. ASSUME NEW i \in 1 .. count, NEW j \in 1 .. count, i # j, dc[p[i]] = dc[p[j]],
             ~ FirstOfZone(hosts, dc, p[j]), NEW h \in hosts
      PROVE  \E k \in 1 .. count : dc[p[k]] = dc[h]
  <2>1. PICK f \in hosts : dc[f] = dc[h] /\ FirstOfZone(hosts, dc, f)
    BY ZoneHasFirst
  <2>2. p[j] \in hosts /\ Rank(hosts, dc, p[j]) = j
    BY <1>2
  <2>3. PickedBefore(hosts, dc, f, p[j])
    BY <1>4, <2>1 DEF PickedBefore
  <2>4. Rank(hosts, dc, f) < j
    BY <2>2, <2>3, RankOrder
  <2>5. PICK k : k = Rank(hosts, dc, f)
    OBVIOUS
  <2>6. k \in 1 .. Cardinality(hosts)
    BY <2>5, RankType
  <2>7. k \in 1 .. count
    BY <1>0, <2>4, <2>5, <2>6
  <2>8. p[k] = f
    BY <1>2, <1>3, <2>5, <2>7
  <2>9. QED
    BY <2>1, <2>7, <2>8
<1>5. ASSUME NEW i \in 1 .. count, NEW j \in 1 .. count, i # j, dc[p[i]] = dc[p[j]]
      PROVE  ~ FirstOfZone(hosts, dc, p[i]) \/ ~ FirstOfZone(hosts, dc, p[j])
  <2>1. p[i] \in Int /\ p[j] \in Int /\ p[i] # p[j] /\ p[i] \in hosts /\ p[j] \in hosts
    BY <1>2, <1>5
  <2>2. QED
    BY <1>5, <2>1 DEF FirstOfZone
<1>6. QED
  BY <1>1, <1>2, <1>4, <1>5

\* Listing lists members of the set.
LEMMA ListingType ==
    ASSUME NEW S, IsFiniteSet(S)
    PROVE  Listing(S) \in [1 .. Cardinality(S) -> S] /\ Cardinality(S) \in Nat
<1>1. Cardinality(S) \in Nat /\ ExistsBijection(1 .. Cardinality(S), S)
  BY FS_CardinalityType
<1>2. \E f \in [1 .. Cardinality(S) -> S] : IsInjective(f)
  BY <1>1 DEF ExistsBijection, Bijection, Injection
<1>3. QED
  BY <1>1, <1>2 DEF Listing

----------------------------------------------------------------------------
(* UUIDs, records and writes.                                              *)

\* Placed replicas are on hosts of the cluster, whatever the count.
LEMMA PlaceType ==
    ASSUME NEW hosts \in SUBSET Host, NEW dc \in [Host -> Int], NEW count \in Int
    PROVE  /\ PlaceReplicas(hosts, dc, count) = <<>>
              \/ /\ count \in 1 .. Cardinality(hosts)
                 /\ PlaceReplicas(hosts, dc, count) = [i \in 1 .. count |-> Picked(hosts, dc, i)]
                 /\ \A i \in 1 .. count : Picked(hosts, dc, i) \in hosts
<1>1. IsFiniteSet(hosts) /\ hosts \in SUBSET Int /\ Cardinality(hosts) \in Nat
  BY ClusterAssumption, FS_Subset, FS_CardinalityType
<1>2. \A x \in hosts : dc[x] \in Int
  OBVIOUS
<1>3. \A i \in 1 .. Cardinality(hosts) : Picked(hosts, dc, i) \in hosts
  BY <1>1, <1>2, RankOnto
<1>4. CASE count <= 0 \/ Cardinality(hosts) < count
  BY <1>4 DEF PlaceReplicas
<1>5. CASE ~ (count <= 0 \/ Cardinality(hosts) < count)
  <2>1. count \in 1 .. Cardinality(hosts) /\ \A i \in 1 .. count : i \in 1 .. Cardinality(hosts)
    BY <1>1, <1>5
  <2>2. PlaceReplicas(hosts, dc, count) = [i \in 1 .. count |-> Picked(hosts, dc, i)]
    BY <1>5 DEF PlaceReplicas
  <2>3. QED
    BY <1>3, <2>1, <2>2
<1>6. QED
  BY <1>4, <1>5

\* The host of a replica, by its UUID.
LEMMA HostOfType ==
    /\ \A v \in Volume, h \in Host :
        <<v, "replacement", h>> \in ReplicaID /\ HostOf(<<v, "replacement", h>>) = h
    /\ \A v \in Volume, i \in 1 .. Cardinality(Pool) :
        <<v, "r", i - 1>> \in ReplicaID /\ HostOf(<<v, "r", i - 1>>) = Picked(Pool, DC, i)
    /\ \A r \in ReplicaID : r[1] \in Volume /\ HostOf(r) \in Host
<1>1. Pool \in SUBSET Int /\ IsFiniteSet(Pool) /\ Cardinality(Pool) \in Nat
  BY ClusterAssumption, FS_Subset, FS_CardinalityType
<1>2. \A i \in 1 .. Cardinality(Pool) : Picked(Pool, DC, i) \in Host
  BY <1>1, ClusterAssumption, RankOnto
<1>3. ASSUME NEW v \in Volume, NEW h \in Host
      PROVE  <<v, "replacement", h>> \in ReplicaID /\ HostOf(<<v, "replacement", h>>) = h
  BY DEF ReplicaID, HostOf
<1>4. ASSUME NEW v \in Volume, NEW i \in 1 .. Cardinality(Pool)
      PROVE  <<v, "r", i - 1>> \in ReplicaID /\ HostOf(<<v, "r", i - 1>>) = Picked(Pool, DC, i)
  <2>1. i - 1 \in 0 .. Cardinality(Pool) - 1 /\ i - 1 + 1 = i
    BY <1>1
  <2>2. QED
    BY <2>1 DEF ReplicaID, HostOf
<1>5. ASSUME NEW r \in ReplicaID
      PROVE  r[1] \in Volume /\ HostOf(r) \in Host
  <2>1. CASE r \in Volume \X {"replacement"} \X Host
    BY <2>1 DEF HostOf
  <2>2. CASE r \in Volume \X {"r"} \X (0 .. Cardinality(Pool) - 1)
    <3>1. r[1] \in Volume /\ r[2] = "r" /\ r[3] \in 0 .. Cardinality(Pool) - 1
      BY <2>2
    <3>2. r[3] + 1 \in 1 .. Cardinality(Pool)
      BY <1>1, <3>1
    <3>3. QED
      BY <1>2, <3>1, <3>2 DEF HostOf
  <2>3. QED
    BY <2>1, <2>2 DEF ReplicaID
<1>6. QED
  BY <1>3, <1>4, <1>5

\* The parent of a clone is a volume.
LEMMA SrcOfType ==
    ASSUME NEW v \in Volume
    PROVE  SrcOf(v) \in Volume \cup {None}
BY ClusterAssumption DEF SrcOf

\* Writes that agree with their UUIDs.
LEMMA PutVolumeWrite ==
    ASSUME NEW replicas, NEW fronts, NEW v, NEW rec, NEW must \in BOOLEAN, VolumeIs(v, rec)
    PROVE  PutVolume(v, rec, must) \in Write(replicas, fronts)
BY DEF PutVolume, Write, Access, VolumeIs

\* A replica record may say Running where the replica is one of replicas.
LEMMA PutReplicaWrite ==
    ASSUME NEW replicas, NEW fronts, NEW r, NEW rec, NEW must \in BOOLEAN,
           ReplicaIs(r, rec), rec.state = "running" => r \in replicas
    PROVE  PutReplica(r, rec, must) \in Write(replicas, fronts)
BY DEF PutReplica, Write, Access, ReplicaIs

\* An engine record may say Running where the engine is one of fronts.
LEMMA PutEngineWrite ==
    ASSUME NEW replicas, NEW fronts, NEW e, NEW rec,
           EngineIs(e, rec), rec.state = "running" => e \in fronts
    PROVE  PutEngine(e, rec) \in Write(replicas, fronts)
BY DEF PutEngine, Write, Access, EngineIs

\* What a write in progress may be.
LEMMA WriteFacts ==
    ASSUME NEW replicas, NEW fronts, NEW a \in Write(replicas, fronts)
    PROVE  /\ a.must \in BOOLEAN
           /\ a.op \in {"volume", "replica", "engine", "destroy", "detach"}
           /\ a.op = "volume" => VolumeIs(a.key, a.rec)
           /\ a.op = "replica" => ReplicaIs(a.key, a.rec)
           /\ a.op = "replica" /\ a.rec.state = "running" => a.key \in replicas
           /\ a.op = "engine" => EngineIs(a.key, a.rec)
           /\ a.op = "engine" /\ a.rec.state = "running" => a.key \in fronts
           /\ a.op = "destroy" => a.key \in Volume
           /\ a.op = "detach" => a.key \in EngineID
BY DEF Write, Access, EngineIs

\* A record whose state changes still agrees with its UUID.
LEMMA NewState ==
    /\ \A r, rec : \A s \in State :
        ReplicaIs(r, rec) => /\ ReplicaIs(r, [rec EXCEPT !.state = s])
                             /\ [rec EXCEPT !.state = s].state = s
    /\ \A e, rec : \A s \in State :
        EngineIs(e, rec) => /\ EngineIs(e, [rec EXCEPT !.state = s])
                            /\ [rec EXCEPT !.state = s].state = s
<1>1. ASSUME NEW r, NEW rec, NEW s \in State, ReplicaIs(r, rec)
      PROVE  ReplicaIs(r, [rec EXCEPT !.state = s]) /\ [rec EXCEPT !.state = s].state = s
  BY <1>1 DEF ReplicaIs, ReplicaRec
<1>2. ASSUME NEW e, NEW rec, NEW s \in State, EngineIs(e, rec)
      PROVE  EngineIs(e, [rec EXCEPT !.state = s]) /\ [rec EXCEPT !.state = s].state = s
  BY <1>2 DEF EngineIs, EngineRec
<1>3. QED
  BY <1>1, <1>2

\* Sets of replica UUIDs are finite.
LEMMA FiniteIDs ==
    ASSUME NEW S \in SUBSET ReplicaID
    PROVE  IsFiniteSet(S) /\ Cardinality(S) \in Nat
<1>1. IsFiniteSet({"r"}) /\ IsFiniteSet({"replacement"}) /\ IsFiniteSet(Volume)
      /\ IsFiniteSet(Host) /\ Cardinality(Pool) \in Nat
  BY ClusterAssumption, FS_Singleton, FS_Subset, FS_CardinalityType
<1>2. IsFiniteSet(0 .. Cardinality(Pool) - 1)
  <2>1. Cardinality(Pool) - 1 \in Int /\ 0 \in Int
    BY <1>1
  <2>2. QED
    BY <2>1, FS_Interval
<1>3. IsFiniteSet({"r"} \X (0 .. Cardinality(Pool) - 1)) /\ IsFiniteSet({"replacement"} \X Host)
  BY <1>1, <1>2, FS_Product
<1> DEFINE A == Volume \X ({"r"} \X (0 .. Cardinality(Pool) - 1))
           B == Volume \X ({"replacement"} \X Host)
           flat == [x \in A \cup B |-> <<x[1], x[2][1], x[2][2]>>]
<1>4. IsFiniteSet(A \cup B)
  <2>1. IsFiniteSet(A) /\ IsFiniteSet(B)
    BY <1>1, <1>3, FS_Product
  <2>2. QED
    BY <2>1, FS_Union
<1>5. flat \in Surjection(A \cup B, ReplicaID)
  <2>1. \A x \in A \cup B : flat[x] \in ReplicaID
    BY DEF ReplicaID
  <2>2. ASSUME NEW r \in ReplicaID
        PROVE  \E x \in A \cup B : flat[x] = r
    <3>1. CASE r \in Volume \X {"replacement"} \X Host
      <4>1. <<r[1], <<r[2], r[3]>>>> \in B /\ r = <<r[1], r[2], r[3]>>
        BY <3>1
      <4>2. QED
        BY <4>1
    <3>2. CASE r \in Volume \X {"r"} \X (0 .. Cardinality(Pool) - 1)
      <4>1. <<r[1], <<r[2], r[3]>>>> \in A /\ r = <<r[1], r[2], r[3]>>
        BY <3>2
      <4>2. QED
        BY <4>1
    <3>3. QED
      BY <3>1, <3>2 DEF ReplicaID
  <2>3. QED
    BY <2>1, <2>2 DEF Surjection
<1>6. IsFiniteSet(ReplicaID)
  BY <1>4, <1>5, FS_Surjection
<1>7. QED
  BY <1>6, FS_Subset, FS_CardinalityType

\* Lists of writes.
LEMMA Lists ==
    ASSUME NEW S
    PROVE  /\ <<>> \in Seq(S)
           /\ \A a \in S : <<a>> \in Seq(S)
           /\ \A a, b \in S : <<a, b>> \in Seq(S)
           /\ \A s, t \in Seq(S) : s \o t \in Seq(S)
OBVIOUS

\* The writes that create a volume.
LEMMA NewVolumeWrites ==
    ASSUME NEW v \in Volume, NEW count \in Int
    PROVE  NewVolume(v, count, SrcOf(v)) \in Seq(Write({}, {}))
<1> DEFINE picks == PlaceReplicas(Pool, DC, count)
           rec(i) == [host |-> picks[i], state |-> "pending", src |-> SrcOf(v)]
           put(i) == PutReplica(<<v, "r", i - 1>>, rec(i), TRUE)
           first == PutVolume(v, [state |-> "provisioning", attachedTo |-> None,
                                  count |-> count, src |-> SrcOf(v)], TRUE)
<1>1. first \in Write({}, {})
  BY PutVolumeWrite, SrcOfType DEF VolumeIs, VolumeRec
<1>2. [i \in DOMAIN picks |-> put(i)] \in Seq(Write({}, {}))
  <2>1. CASE picks = <<>>
    BY <2>1
  <2>2. CASE picks # <<>>
    <3>1. /\ count \in 1 .. Cardinality(Pool)
          /\ picks = [i \in 1 .. count |-> Picked(Pool, DC, i)]
          /\ \A i \in 1 .. count : Picked(Pool, DC, i) \in Pool
      BY <2>2, PlaceType, ClusterAssumption
    <3>2. Cardinality(Pool) \in Nat
      BY ClusterAssumption, FS_Subset, FS_CardinalityType
    <3>3. ASSUME NEW i \in 1 .. count
          PROVE  put(i) \in Write({}, {})
      <4>1. i \in 1 .. Cardinality(Pool)
        BY <3>1, <3>2
      <4>2. ReplicaIs(<<v, "r", i - 1>>, rec(i))
        BY <3>1, <4>1, HostOfType, SrcOfType, ClusterAssumption
           DEF ReplicaIs, ReplicaRec, State
      <4>3. QED
        BY <4>2, PutReplicaWrite
    <3>4. count \in Nat /\ DOMAIN picks = 1 .. count
      BY <3>1, <3>2
    <3>5. [i \in 1 .. count |-> put(i)] \in Seq(Write({}, {}))
      <4> HIDE DEF put
      <4> QED BY <3>3, <3>4
    <3>6. QED
      BY <3>4, <3>5
  <2>3. QED
    BY <2>1, <2>2
<1>3. QED
  BY <1>1, <1>2, Lists, Zenon DEF NewVolume

\* The replicas listed for a volume have well-formed records of that volume.
LEMMA Listed ==
    ASSUME Tables, NEW v
    PROVE  /\ DOMAIN ListReplicasFor(v) \subseteq DOMAIN reps
           /\ DOMAIN ListReplicasFor(v) \subseteq ReplicaID
           /\ \A r \in DOMAIN ListReplicasFor(v) :
                /\ ListReplicasFor(v)[r] = reps[r]
                /\ ReplicaIs(r, ListReplicasFor(v)[r])
BY DEF ListReplicasFor, Tables, ReplicaIs

\* One write of a new state for each replica of a list.
Rewrites(ids, rs, s) ==
    [i \in DOMAIN ids |-> PutReplica(ids[i], [rs[ids[i]] EXCEPT !.state = s], FALSE)]

\* They agree with their UUIDs.
LEMMA StateWrites ==
    ASSUME NEW rs, NEW S \in SUBSET ReplicaID, \A r \in S : ReplicaIs(r, rs[r]),
           NEW s \in State \ {"running"}, NEW ids, ids = Listing(S),
           NEW replicas, NEW fronts
    PROVE  Rewrites(ids, rs, s) \in Seq(Write(replicas, fronts))
<1> DEFINE put(i) == PutReplica(ids[i], [rs[ids[i]] EXCEPT !.state = s], FALSE)
<1>1. PICK n \in Nat : n = Cardinality(S)
  BY FiniteIDs
<1>2. ids \in [1 .. n -> S]
  BY <1>1, FiniteIDs, ListingType
<1>3. ASSUME NEW i \in 1 .. n
      PROVE  put(i) \in Write(replicas, fronts)
  <2>1. ids[i] \in S
    BY <1>2
  <2>2. ReplicaIs(ids[i], [rs[ids[i]] EXCEPT !.state = s])
        /\ [rs[ids[i]] EXCEPT !.state = s].state = s
    BY <2>1, NewState
  <2>3. QED
    BY <2>2, PutReplicaWrite
<1>4. [i \in 1 .. n |-> put(i)] \in Seq(Write(replicas, fronts))
  <2> HIDE DEF put
  <2> QED BY <1>3
<1>5. QED
  BY <1>2, <1>4 DEF Rewrites

\* The accesses of DestroyVolume.
LEMMA DestroyWrites ==
    ASSUME Tables, NEW v \in Volume, NEW rs, rs \in {ListReplicasFor(v), <<>>},
           NEW ids, ids = Listing(DOMAIN rs)
    PROVE  Rewrites(ids, rs, "deleting")
           \o <<[op |-> "destroy", key |-> v, must |-> TRUE]>> \in Seq(Write({}, {}))
<1>1. DOMAIN rs \in SUBSET ReplicaID /\ \A r \in DOMAIN rs : ReplicaIs(r, rs[r])
  <2>1. CASE rs = ListReplicasFor(v)
    BY <2>1, Listed
  <2>2. CASE rs = <<>>
    BY <2>2
  <2>3. QED
    BY <2>1, <2>2
<1>2. "deleting" \in State \ {"running"}
  BY DEF State
<1>3. Rewrites(ids, rs, "deleting") \in Seq(Write({}, {}))
  BY <1>1, <1>2, StateWrites
<1>4. [op |-> "destroy", key |-> v, must |-> TRUE] \in Write({}, {})
  BY DEF Write, Access
<1>5. QED
  BY <1>3, <1>4, Lists, Zenon

\* The writes of AttachVolume.
LEMMA AttachWrites ==
    ASSUME Tables, NEW v \in DOMAIN vols, NEW target \in Host
    PROVE  <<PutEngine(<<v, target>>, [state |-> "pending", path |-> FALSE]),
             PutVolume(v, [vols[v] EXCEPT !.attachedTo = target, !.state = "attached"], FALSE)>>
           \in Seq(Write({}, {}))
<1> DEFINE rec == [vols[v] EXCEPT !.attachedTo = target, !.state = "attached"]
<1>1. v \in Volume /\ VolumeIs(v, vols[v])
  BY DEF Tables, VolumeIs
<1>2. VolumeIs(v, rec)
  BY <1>1 DEF VolumeIs, VolumeRec
<1>3. PutVolume(v, rec, FALSE) \in Write({}, {})
  BY <1>2, PutVolumeWrite
<1>4. PutEngine(<<v, target>>, [state |-> "pending", path |-> FALSE]) \in Write({}, {})
  BY <1>1, PutEngineWrite DEF EngineIs, EngineID, EngineRec, State
<1>5. QED
  BY <1>3, <1>4, Lists, Zenon

\* The accesses of DetachVolume.
LEMMA DetachWrites ==
    ASSUME Tables, NEW v \in DOMAIN vols, NEW target \in Host, NEW e, e = <<v, target>>,
           NEW listed \in BOOLEAN
    PROVE  (IF listed /\ e \in DOMAIN engs
            THEN <<PutEngine(e, [engs[e] EXCEPT !.state = "deleting"])>> ELSE <<>>)
           \o <<[op |-> "detach", key |-> e, must |-> FALSE]>> \in Seq(Write({}, {}))
<1>1. e \in EngineID
  BY DEF EngineID, Tables, VolumeIs
<1>2. [op |-> "detach", key |-> e, must |-> FALSE] \in Write({}, {})
  BY <1>1 DEF Write, Access
<1>3. ASSUME e \in DOMAIN engs
      PROVE  PutEngine(e, [engs[e] EXCEPT !.state = "deleting"]) \in Write({}, {})
  <2>1. EngineIs(e, engs[e]) /\ "deleting" \in State
    BY <1>3 DEF Tables, State
  <2>2. EngineIs(e, [engs[e] EXCEPT !.state = "deleting"])
        /\ [engs[e] EXCEPT !.state = "deleting"].state = "deleting"
    BY <2>1, NewState
  <2>3. QED
    BY <2>2, PutEngineWrite
<1>4. QED
  BY <1>2, <1>3

\* The write that follows the second read of DestroyVolume and DetachVolume.
LEMMA RereadWrites ==
    ASSUME Tables, NEW item \in Write({}, {}), item.op \in {"destroy", "detach"}
    PROVE  Reread(item) \in Seq(Write({}, {}))
<1> DEFINE v == IF item.op = "destroy" THEN item.key ELSE item.key[1]
<1>1. CASE v \notin DOMAIN vols
  BY <1>1 DEF Reread
<1>2. CASE v \in DOMAIN vols
  <2>1. VolumeIs(v, vols[v])
    BY <1>2 DEF Tables
  <2>2. VolumeIs(v, [vols[v] EXCEPT !.state = "deleting"])
    BY <2>1 DEF VolumeIs, VolumeRec
  <2>3. VolumeIs(v, [vols[v] EXCEPT !.state = "healthy", !.attachedTo = None])
    BY <2>1 DEF VolumeIs, VolumeRec
  <2>4. /\ PutVolume(v, [vols[v] EXCEPT !.state = "deleting"], TRUE) \in Write({}, {})
        /\ PutVolume(v, [vols[v] EXCEPT !.state = "healthy", !.attachedTo = None], FALSE)
           \in Write({}, {})
    BY <2>2, <2>3, PutVolumeWrite
  <2>5. CASE item.op = "destroy"
    BY <1>2, <2>4, <2>5, Lists, Zenon DEF Reread
  <2>6. CASE item.op = "detach"
    <3>1. CASE vols[v].attachedTo = item.key[2]
      BY <1>2, <2>4, <2>6, <3>1, Lists, Zenon DEF Reread
    <3>2. CASE vols[v].attachedTo # item.key[2]
      BY <1>2, <2>6, <3>2 DEF Reread
    <3>3. QED
      BY <3>1, <3>2
  <2>7. QED
    BY <2>5, <2>6
<1>3. QED
  BY <1>1, <1>2

\* The writes of a sweep.
LEMMA SweepList ==
    ASSUME Tables, NEW v \in DOMAIN vols, NEW rs, rs = ListReplicasFor(v),
           NEW replicas, NEW fronts
    PROVE  SweepWrites(v, rs, lease) \in Seq(Write(replicas, fronts))
<1> DEFINE S == {r \in Orphans(rs, lease) : rs[r].state # "faulted"}
           ids == Listing(S)
           free == lease \ {rs[r].host : r \in DOMAIN rs}
           zone == [g \in Host |-> 0]
           deficit == vols[v].count - Cardinality(Alive(rs, lease))
           some == IF deficit < Cardinality(free) THEN deficit ELSE Cardinality(free)
           picks == Replacements(rs, lease, vols[v].count)
           rec(i) == [host |-> picks[i], state |-> "pending", src |-> vols[v].src]
           put(i) == PutReplica(newReplicaUUID(v, picks[i]), rec(i), FALSE)
<1>1. DOMAIN rs \in SUBSET ReplicaID /\ \A r \in DOMAIN rs : ReplicaIs(r, rs[r])
  BY Listed
<1>2. v \in Volume /\ vols[v].count \in Int /\ vols[v].src = SrcOf(v)
  BY DEF Tables, VolumeIs, VolumeRec
<1>3. Rewrites(ids, rs, "faulted") \in Seq(Write(replicas, fronts))
  <2>1. S \in SUBSET ReplicaID /\ \A r \in S : ReplicaIs(r, rs[r])
    BY <1>1 DEF Orphans
  <2>2. "faulted" \in State \ {"running"}
    BY DEF State
  <2> HIDE DEF S
  <2>3. QED
    BY <2>1, <2>2, StateWrites
<1>4. [i \in DOMAIN picks |-> put(i)] \in Seq(Write(replicas, fronts))
  <2>1. free \in SUBSET Host /\ zone \in [Host -> Int] /\ some \in Int
    <3>1. free \in SUBSET Host
      BY DEF Tables
    <3>2. Cardinality(free) \in Int
      BY <3>1, ClusterAssumption, FS_Subset, FS_CardinalityType
    <3>3. Alive(rs, lease) \in SUBSET ReplicaID
      BY <1>1 DEF Alive
    <3>4. Cardinality(Alive(rs, lease)) \in Int
      BY <3>3, FiniteIDs
    <3>5. QED
      BY <1>2, <3>1, <3>2, <3>4
  <2>2. picks = PlaceReplicas(free, zone, some)
    BY DEF Replacements
  <2>3. CASE picks = <<>>
    BY <2>3
  <2>4. CASE picks # <<>>
    <3> HIDE DEF free, zone, some
    <3>1. /\ some \in 1 .. Cardinality(free)
          /\ picks = [i \in 1 .. some |-> Picked(free, zone, i)]
          /\ \A i \in 1 .. some : Picked(free, zone, i) \in free
      BY <2>1, <2>2, <2>4, PlaceType
    <3>2. DOMAIN picks = 1 .. some /\ \A i \in 1 .. some : picks[i] \in Host
      BY <2>1, <3>1
    <3>3. some \in Nat
      <4>1. Cardinality(free) \in Nat
        BY <2>1, ClusterAssumption, FS_Subset, FS_CardinalityType
      <4>2. QED
        BY <3>1, <4>1
    <3> HIDE DEF picks
    <3>4. ASSUME NEW i \in 1 .. some
          PROVE  put(i) \in Write(replicas, fronts)
      <4>1. ReplicaIs(newReplicaUUID(v, picks[i]), rec(i))
        BY <1>2, <3>2, HostOfType, SrcOfType DEF newReplicaUUID, ReplicaIs, ReplicaRec, State
      <4>2. QED
        BY <4>1, PutReplicaWrite
    <3>5. [i \in 1 .. some |-> put(i)] \in Seq(Write(replicas, fronts))
      <4> HIDE DEF put
      <4> QED BY <3>3, <3>4
    <3>6. QED
      BY <3>2, <3>5
  <2>5. QED
    BY <2>3, <2>4
<1>5. SweepWrites(v, rs, lease) = Rewrites(ids, rs, "faulted") \o [i \in DOMAIN picks |-> put(i)]
  BY DEF SweepWrites, Rewrites
<1>6. QED
  BY <1>3, <1>4, <1>5, Lists

\* A position stays right while its host keeps the processes, and the records of
\* its own replicas and engines.
LEMMA PositionKept ==
    ASSUME NEW h, NEW pos, NEW A, NEW B, NEW R, NEW F,
           PositionIs(h, pos, A, B, R, F), NEW A2, NEW B2,
           \A r \in A : HostOf(r) = h => r \in A2,
           \A e \in B : e \in Volume \X {h} => e \in B2
    PROVE  PositionIs(h, pos, A2, B2, R, F)
<1>1. ASSUME NEW p, PassIs(h, p, A) PROVE PassIs(h, p, A2)
  BY <1>1 DEF PassIs
<1>2. ASSUME NEW p, OpenIs(h, p, B) PROVE OpenIs(h, p, B2)
  BY <1>2 DEF OpenIs
<1>3. ASSUME QueueIs(h, pos, A, R, F) PROVE QueueIs(h, pos, A2, R, F)
  BY <1>1, <1>3 DEF QueueIs
<1>4. QED
  BY <1>1, <1>2, <1>3 DEF PositionIs

\* A step of one loop leaves the positions of the others right.
LEMMA PositionsKept ==
    ASSUME Positions, NEW h \in Host,
           \A g \in Host \ {h} : /\ loop'[g] = loop[g] /\ running'[g] = running[g]
                                 /\ engines'[g] = engines[g],
           DOMAIN loop' = Host,
           \A r \in DOMAIN reps : HostOf(r) # h => r \in DOMAIN reps',
           \A e \in DOMAIN engs : e \notin Volume \X {h} => e \in DOMAIN engs',
           PositionIs(h, loop'[h], DOMAIN reps', DOMAIN engs', running'[h], DOMAIN engines'[h])
    PROVE  Positions'
<1>1. ASSUME NEW g \in Host, g # h
      PROVE  PositionIs(g, loop'[g], DOMAIN reps', DOMAIN engs', running'[g], DOMAIN engines'[g])
  <2>1. PICK pos, A, B, R, F :
            /\ pos = loop[g] /\ A = DOMAIN reps /\ B = DOMAIN engs
            /\ R = running[g] /\ F = DOMAIN engines[g]
    OBVIOUS
  <2>2. PositionIs(g, pos, A, B, R, F)
    BY <2>1 DEF Positions
  <2>3. PICK A2, B2 : A2 = DOMAIN reps' /\ B2 = DOMAIN engs'
    OBVIOUS
  <2>4. PositionIs(g, pos, A2, B2, R, F)
    <3>1. \A r \in A : HostOf(r) = g => r \in A2
      BY <1>1, <2>1, <2>3
    <3>2. \A e \in B : e \in Volume \X {g} => e \in B2
      BY <1>1, <2>1, <2>3
    <3>3. QED
      BY <2>2, <3>1, <3>2, PositionKept
  <2>5. QED
    BY <1>1, <2>1, <2>3, <2>4
<1>2. QED
  BY <1>1 DEF Positions

----------------------------------------------------------------------------
(* What the actions preserve.                                              *)

\* The invariant without the calls and passes in progress.
Core == Tables /\ Processes /\ RecordsMatchProcesses /\ ClonesSealed

\* It depends on records and processes only.
LEMMA CoreKept ==
    ASSUME Core, UNCHANGED <<vols, reps, engs, lease, up, running, engines, dir, lost>>,
           DOMAIN open' = DOMAIN open
    PROVE  Core'
BY DEF Core, Tables, Processes, RecordsMatchProcesses, ClonesSealed

\* Records that are added leave the positions right.
LEMMA PositionsGrow ==
    ASSUME Positions, UNCHANGED <<loop, running, engines>>,
           DOMAIN reps \subseteq DOMAIN reps', DOMAIN engs \subseteq DOMAIN engs'
    PROVE  Positions'
<1>1. ASSUME NEW h \in Host
      PROVE  PositionIs(h, loop'[h], DOMAIN reps', DOMAIN engs', running'[h], DOMAIN engines'[h])
  <2>1. PICK pos, A, B, R, F :
            /\ pos = loop[h] /\ A = DOMAIN reps /\ B = DOMAIN engs
            /\ R = running[h] /\ F = DOMAIN engines[h]
    OBVIOUS
  <2>2. PositionIs(h, pos, A, B, R, F)
    BY <2>1 DEF Positions
  <2>3. PICK A2, B2 : A2 = DOMAIN reps' /\ B2 = DOMAIN engs'
    OBVIOUS
  <2>4. A \subseteq A2 /\ B \subseteq B2
    BY <2>1, <2>3
  <2>5. PositionIs(h, pos, A2, B2, R, F)
    BY <2>2, <2>4, PositionKept
  <2>6. QED
    BY <2>1, <2>3, <2>5
<1>2. QED
  BY <1>1 DEF Positions

\* A volume record that is written.
LEMMA PutVolumeCore ==
    ASSUME Core, NEW v, NEW rec, VolumeIs(v, rec), vols' = Put(vols, v, rec),
           UNCHANGED <<reps, engs, lease, up, running, engines, dir, open, lost>>
    PROVE  Core'
<1>1. Tables'
  BY DEF Core, Tables, Put
<1>2. QED
  BY <1>1 DEF Core, Processes, RecordsMatchProcesses, ClonesSealed

\* A replica record that is written says Running only of a process that runs.
LEMMA PutReplicaCore ==
    ASSUME Core, NEW r, NEW rec, ReplicaIs(r, rec),
           rec.state = "running" => r \in running[HostOf(r)],
           reps' = Put(reps, r, rec),
           UNCHANGED <<vols, engs, lease, up, running, engines, dir, open, lost>>
    PROVE  Core' /\ DOMAIN reps \subseteq DOMAIN reps'
<1>1. /\ DOMAIN reps' = DOMAIN reps \cup {r}
      /\ reps'[r] = rec
      /\ \A q \in DOMAIN reps : q # r => reps'[q] = reps[q]
  BY DEF Put
<1>2. /\ r \in ReplicaID /\ rec.host = HostOf(r) /\ rec.src = SrcOf(r[1]) /\ HostOf(r) \in Host
  BY HostOfType DEF ReplicaIs
<1>3. Tables'
  BY <1>1 DEF Core, Tables
<1>4. Processes'
  BY DEF Core, Processes
<1>5. RecordsMatchProcesses'
  BY <1>1, <1>2 DEF Core, RecordsMatchProcesses
<1>6. ClonesSealed'
  BY <1>1, <1>2 DEF Core, ClonesSealed
<1>7. QED
  BY <1>1, <1>3, <1>4, <1>5, <1>6 DEF Core

\* An engine record that is written says Running only of a process that runs.
LEMMA PutEngineCore ==
    ASSUME Core, NEW e, NEW rec, EngineIs(e, rec),
           rec.state = "running" => e \in DOMAIN engines[e[2]],
           engs' = Put(engs, e, rec),
           UNCHANGED <<vols, reps, lease, up, running, engines, dir, open, lost>>
    PROVE  Core' /\ DOMAIN engs \subseteq DOMAIN engs'
<1>1. /\ DOMAIN engs' = DOMAIN engs \cup {e}
      /\ engs'[e] = rec
      /\ \A q \in DOMAIN engs : q # e => engs'[q] = engs[q]
  BY DEF Put
<1>2. Tables'
  BY <1>1 DEF Core, Tables
<1>3. Processes' /\ ClonesSealed'
  BY DEF Core, Processes, ClonesSealed
<1>4. RecordsMatchProcesses'
  BY <1>1 DEF Core, RecordsMatchProcesses
<1>5. QED
  BY <1>1, <1>2, <1>3, <1>4 DEF Core

\* A driver call only queues its accesses.
LEMMA CallStep ==
    ASSUME IInv, NEW h \in Host, NEW queue, queue \in Seq(Write({}, {})), NEW listed \in BOOLEAN,
           Call(h, queue, listed)
    PROVE  IInv'
<1>1. Core'
  BY CoreKept DEF IInv, Core, Call
<1>2. Positions'
  BY PositionsGrow DEF IInv, Call
<1>3. drv' \in [Host -> Seq(Write({}, {}))]
  BY DEF IInv, Call
<1>4. QED
  BY <1>1, <1>2, <1>3 DEF IInv, Core

\* EnsureVolume, CreateFromSnapshot, DestroyVolume, AttachVolume and DetachVolume
\* queue accesses that agree with their UUIDs.
LEMMA DriverCallStep ==
    ASSUME IInv, NEW h \in Caller, DriverCall(h)
    PROVE  IInv'
<1>0. h \in Host /\ Tables
  BY ClusterAssumption DEF IInv
<1>1. PICK v \in Volume :
        \/ EnsureVolume(h, v)
        \/ CreateFromSnapshot(h, v)
        \/ \E listed \in BOOLEAN :
              \/ DestroyVolume(h, v, listed)
              \/ \E target \in Host : \/ AttachVolume(h, v, target, listed)
                                     \/ DetachVolume(h, v, target, listed)
  BY DEF DriverCall
<1>2. CASE EnsureVolume(h, v)
  <2>1. PICK queue : /\ Call(h, queue, TRUE)
                     /\ queue = IF v \in DOMAIN vols THEN <<PutVolume(v, vols[v], TRUE)>>
                                ELSE NewVolume(v, effectiveReplicaCount(Cardinality(Pool)), None)
    BY <1>2 DEF EnsureVolume
  <2>2. CASE v \in DOMAIN vols
    <3>1. PutVolume(v, vols[v], TRUE) \in Write({}, {})
      BY <1>0, <2>2, PutVolumeWrite DEF Tables
    <3>2. queue \in Seq(Write({}, {}))
      BY <2>1, <2>2, <3>1, Lists, Zenon
    <3>3. QED
      BY <1>0, <2>1, <3>2, CallStep
  <2>3. CASE v \notin DOMAIN vols
    <3>1. SrcOf(v) = None
      BY <1>2 DEF EnsureVolume, SrcOf
    <3>2. effectiveReplicaCount(Cardinality(Pool)) \in Int
      <4>1. Cardinality(Pool) \in Nat
        BY ClusterAssumption, FS_Subset, FS_CardinalityType
      <4>2. QED
        BY <4>1 DEF effectiveReplicaCount
    <3>3. queue \in Seq(Write({}, {}))
      BY <2>1, <2>3, <3>1, <3>2, NewVolumeWrites
    <3>4. QED
      BY <1>0, <2>1, <3>3, CallStep
  <2>4. QED
    BY <2>2, <2>3
<1>3. CASE CreateFromSnapshot(h, v)
  <2>1. PICK q : q = NewVolume(v, vols[CloneOf[v]].count, CloneOf[v])
    OBVIOUS
  <2>2. PICK queue : Call(h, queue, TRUE) /\ queue \in {<<>>, q}
    BY <1>3, <2>1 DEF CreateFromSnapshot
  <2>3. SrcOf(v) = CloneOf[v]
    BY <1>3 DEF CreateFromSnapshot, SrcOf
  <2>4. vols[CloneOf[v]].count \in Int
    BY <1>0, <1>3 DEF CreateFromSnapshot, Tables, VolumeIs, VolumeRec
  <2>5. queue \in Seq(Write({}, {}))
    <3>1. q \in Seq(Write({}, {}))
      BY <2>1, <2>3, <2>4, NewVolumeWrites
    <3>2. QED
      BY <2>2, <3>1, Lists
  <2>6. QED
    BY <1>0, <2>2, <2>5, CallStep
<1>4. ASSUME NEW listed \in BOOLEAN, DestroyVolume(h, v, listed)
      PROVE  IInv'
  <2>1. PICK rs, ids : /\ rs = IF listed THEN ListReplicasFor(v) ELSE <<>>
                       /\ ids = Listing(DOMAIN rs)
    OBVIOUS
  <2>2. PICK queue :
          /\ Call(h, queue, listed)
          /\ queue = Rewrites(ids, rs, "deleting")
                     \o <<[op |-> "destroy", key |-> v, must |-> TRUE]>>
    BY <1>4, <2>1 DEF DestroyVolume, Rewrites
  <2>3. queue \in Seq(Write({}, {}))
    BY <1>0, <2>1, <2>2, DestroyWrites
  <2>4. QED
    BY <1>0, <1>4, <2>2, <2>3, CallStep
<1>5. ASSUME NEW listed \in BOOLEAN, NEW target \in Host, AttachVolume(h, v, target, listed)
      PROVE  IInv'
  <2>1. PICK q : q = <<PutEngine(<<v, target>>, [state |-> "pending", path |-> FALSE]),
                       PutVolume(v, [vols[v] EXCEPT !.attachedTo = target,
                                                    !.state = "attached"], FALSE)>>
    OBVIOUS
  <2>2. PICK queue : Call(h, queue, listed) /\ queue \in {<<>>, q}
    BY <1>5, <2>1 DEF AttachVolume
  <2>3. v \in DOMAIN vols
    BY <1>5 DEF AttachVolume
  <2>4. q \in Seq(Write({}, {}))
    BY <1>0, <2>1, <2>3, AttachWrites
  <2>5. queue \in Seq(Write({}, {}))
    BY <2>2, <2>4, Lists
  <2>6. QED
    BY <1>0, <1>5, <2>2, <2>5, CallStep
<1>6. ASSUME NEW listed \in BOOLEAN, NEW target \in Host, DetachVolume(h, v, target, listed)
      PROVE  IInv'
  <2>1. PICK e : e = <<v, target>>
    OBVIOUS
  <2>2. PICK queue :
          /\ Call(h, queue, listed)
          /\ queue = (IF listed /\ e \in DOMAIN engs
                      THEN <<PutEngine(e, [engs[e] EXCEPT !.state = "deleting"])>> ELSE <<>>)
                     \o <<[op |-> "detach", key |-> e, must |-> FALSE]>>
    BY <1>6, <2>1 DEF DetachVolume
  <2>3. v \in DOMAIN vols
    BY <1>6 DEF DetachVolume
  <2>4. queue \in Seq(Write({}, {}))
    BY <1>0, <1>6, <2>1, <2>2, <2>3, DetachWrites
  <2>5. QED
    BY <1>0, <1>6, <2>2, <2>4, CallStep
<1>7. QED
  BY <1>1, <1>2, <1>3, <1>4, <1>5, <1>6

\* An access of a driver call never announces a process.
LEMMA DriverStepStep ==
    ASSUME IInv, NEW h \in Caller, DriverStep(h)
    PROVE  IInv'
<1>0. h \in Host /\ Core /\ Positions /\ drv \in [Host -> Seq(Write({}, {}))]
  BY ClusterAssumption DEF IInv, Core
<1>1. PICK item : item = Head(drv[h])
  OBVIOUS
<1>2. item \in Write({}, {}) /\ Tail(drv[h]) \in Seq(Write({}, {}))
  BY <1>0, <1>1 DEF DriverStep
<1>3. /\ drv' = [drv EXCEPT ![h] =
               (IF item.op \in {"destroy", "detach"} THEN Reread(item) ELSE <<>>) \o Tail(drv[h])]
      /\ vols' = IF item.op = "volume" THEN Put(vols, item.key, item.rec) ELSE vols
      /\ reps' = IF item.op = "replica" THEN Put(reps, item.key, item.rec) ELSE reps
      /\ engs' = IF item.op = "engine" THEN Put(engs, item.key, item.rec) ELSE engs
      /\ UNCHANGED <<lease, up, loop, running, engines, dir, open, lost>>
  BY <1>0, <1>1 DEF DriverStep
<1>4. drv' \in [Host -> Seq(Write({}, {}))]
  <2>1. PICK more : more = IF item.op \in {"destroy", "detach"} THEN Reread(item) ELSE <<>>
    OBVIOUS
  <2>2. more \in Seq(Write({}, {}))
    BY <1>0, <1>2, <2>1, RereadWrites, Lists DEF Core
  <2>3. more \o Tail(drv[h]) \in Seq(Write({}, {}))
    BY <1>2, <2>2, Lists
  <2>4. QED
    BY <1>0, <1>3, <2>1, <2>3
<1>5. Core' /\ DOMAIN reps \subseteq DOMAIN reps' /\ DOMAIN engs \subseteq DOMAIN engs'
  <2>1. CASE item.op = "volume"
    <3>1. VolumeIs(item.key, item.rec)
      BY <1>2, <2>1, WriteFacts
    <3>2. QED
      BY <1>0, <1>3, <2>1, <3>1, PutVolumeCore
  <2>2. CASE item.op = "replica"
    <3>1. ReplicaIs(item.key, item.rec) /\ item.rec.state # "running"
      BY <1>2, <2>2, WriteFacts
    <3>2. QED
      BY <1>0, <1>3, <2>2, <3>1, PutReplicaCore
  <2>3. CASE item.op = "engine"
    <3>1. EngineIs(item.key, item.rec) /\ item.rec.state # "running"
      BY <1>2, <2>3, WriteFacts
    <3>2. QED
      BY <1>0, <1>3, <2>3, <3>1, PutEngineCore
  <2>4. CASE item.op \notin {"volume", "replica", "engine"}
    BY <1>0, <1>3, <2>4, CoreKept
  <2>5. QED
    BY <2>1, <2>2, <2>3, <2>4
<1>6. Positions'
  BY <1>0, <1>3, <1>5, PositionsGrow
<1>7. QED
  BY <1>4, <1>5, <1>6 DEF IInv, Core

\* A failed access drops accesses.
LEMMA DriverFailsStep ==
    ASSUME IInv, NEW h \in Caller, DriverStepFails(h)
    PROVE  IInv'
<1>0. h \in Host /\ Core /\ Positions /\ drv \in [Host -> Seq(Write({}, {}))]
  BY ClusterAssumption DEF IInv, Core
<1>1. Core'
  BY <1>0, CoreKept DEF DriverStepFails
<1>2. Positions'
  BY <1>0, PositionsGrow DEF DriverStepFails
<1>3. PICK rest : /\ rest \in {<<>>, Tail(drv[h])}
                  /\ drv' = [drv EXCEPT ![h] = rest]
  BY DEF DriverStepFails
<1>4. Tail(drv[h]) \in Seq(Write({}, {}))
  BY <1>0 DEF DriverStepFails
<1>5. drv' \in [Host -> Seq(Write({}, {}))]
  BY <1>0, <1>3, <1>4, Lists
<1>6. QED
  BY <1>1, <1>2, <1>5 DEF IInv, Core

\* A step that only moves the loop of a host, to a right position.
LEMMA MoveStep ==
    ASSUME IInv, NEW h \in Host, NEW pos,
           PositionIs(h, pos, DOMAIN reps, DOMAIN engs, running[h], DOMAIN engines[h]),
           Goto(h, pos), DOMAIN open' = DOMAIN open,
           UNCHANGED <<vols, reps, engs, lease, up, drv, running, engines, dir, lost>>
    PROVE  IInv'
<1>0. Core /\ Positions /\ DOMAIN loop = Host
  BY DEF IInv, Core, Positions
<1>1. Core'
  BY <1>0, CoreKept
<1>2. /\ DOMAIN loop' = Host /\ loop'[h] = pos
      /\ \A g \in Host \ {h} : loop'[g] = loop[g]
  BY <1>0 DEF Goto
<1>3. Positions'
  <2>1. PositionIs(h, loop'[h], DOMAIN reps', DOMAIN engs', running'[h], DOMAIN engines'[h])
    BY <1>2
  <2>2. QED
    BY <1>0, <1>2, <2>1, PositionsKept
<1>4. QED
  BY <1>1, <1>3 DEF IInv, Core

\* Positions a loop moves to.
LEMMA QueuePosition ==
    ASSUME NEW h, NEW A, NEW B, NEW R, NEW F, NEW queue \in Seq(Write(R, F)), queue # <<>>,
           NEW next, next = Idle \/ PassIs(h, next, A), NEW pos, pos = Writes(queue, next)
    PROVE  PositionIs(h, pos, A, B, R, F)
<1>1. pos.at = "put" /\ pos.queue = queue /\ pos.then = next
  BY DEF Writes
<1>2. next.at \in {"idle", "replicas"} /\ (next.at = "idle" => next = Idle)
      /\ (next.at = "replicas" => PassIs(h, next, A))
  BY DEF Idle, PassIs
<1>3. pos = [at |-> "put", queue |-> pos.queue, then |-> pos.then]
  BY <1>1 DEF Writes
<1>4. QueueIs(h, pos, A, R, F)
  BY <1>1, <1>2, <1>3 DEF QueueIs
<1>5. QED
  BY <1>1, <1>4 DEF PositionIs

\* The end of a pass.
LEMMA IdlePosition ==
    ASSUME NEW h, NEW A, NEW B, NEW R, NEW F
    PROVE  PositionIs(h, Idle, A, B, R, F)
BY DEF PositionIs, Idle

\* A pass over replicas.
LEMMA PassPosition ==
    ASSUME NEW h, NEW A, NEW B, NEW R, NEW F, NEW pos, PassIs(h, pos, A)
    PROVE  PositionIs(h, pos, A, B, R, F)
<1>1. pos.at = "replicas"
  BY DEF PassIs
<1>2. QED
  BY <1>1 DEF PositionIs

\* An engine that is coming up.
LEMMA OpenPosition ==
    ASSUME NEW h, NEW A, NEW B, NEW R, NEW F, NEW pos, OpenIs(h, pos, B)
    PROVE  PositionIs(h, pos, A, B, R, F)
<1>1. pos.at = "open"
  BY DEF OpenIs
<1>2. QED
  BY <1>1 DEF PositionIs

\* What follows once a replica of a pass is handled.
LEMMA HandledIs ==
    ASSUME NEW h \in Host, NEW r, NEW A, PassIs(h, loop[h], A)
    PROVE  /\ Handled(h, r) = Idle \/ PassIs(h, Handled(h, r), A)
           /\ Handled(h, r) = Idle \/ PassIs(h, Handled(h, r), A \ {r})
<1>1. PICK pos : pos = loop[h]
  OBVIOUS
<1>2. pos = [at |-> "replicas", rs |-> pos.rs, own |-> pos.own]
  BY <1>1 DEF PassIs
<1>3. PICK new : new = [pos EXCEPT !.own = @ \ {r}]
  OBVIOUS
<1>4. new = [at |-> "replicas", rs |-> pos.rs, own |-> pos.own \ {r}]
  BY <1>2, <1>3
<1>5. PassIs(h, new, A) /\ PassIs(h, new, A \ {r})
  BY <1>1, <1>4 DEF PassIs
<1>6. QED
  BY <1>1, <1>3, <1>5 DEF Handled

\* reconcileVolume reads the records of the replicas of its host.
LEMMA ReconcileStep ==
    ASSUME IInv, NEW h \in Host, NEW v \in DOMAIN vols, ReconcileVolume(h, v)
    PROVE  IInv'
<1>0. Tables
  BY DEF IInv
<1>1. PICK rs : rs = ListReplicasFor(v)
  OBVIOUS
<1>2. PICK own, pos : /\ own \subseteq DOMAIN rs /\ \A r \in own : rs[r].host = h
                      /\ pos = [at |-> "replicas", rs |-> rs, own |-> own] /\ Goto(h, pos)
  BY <1>1 DEF ReconcileVolume
<1>3. PassIs(h, pos, DOMAIN reps)
  <2>1. /\ DOMAIN rs \subseteq DOMAIN reps
        /\ \A r \in DOMAIN rs : ReplicaIs(r, rs[r])
    BY <1>0, <1>1, Listed
  <2>2. \A r \in own : HostOf(r) = h
    BY <1>2, <2>1 DEF ReplicaIs
  <2>3. pos.rs = rs /\ pos.own = own
    BY <1>2
  <2>4. QED
    BY <1>2, <2>1, <2>2, <2>3 DEF PassIs
<1>4. UNCHANGED <<vols, reps, engs, lease, up, drv, running, engines, dir, open, lost>>
  BY DEF ReconcileVolume, storeVars, procVars
<1>5. QED
  BY <1>2, <1>3, <1>4, PassPosition, MoveStep

\* The sweep announces no process.
LEMMA SweepStep ==
    ASSUME IInv, NEW h \in Host, NEW v \in DOMAIN vols, SweepVolume(h, v)
    PROVE  IInv'
<1>0. Tables
  BY DEF IInv
<1>1. PICK rs : rs = ListReplicasFor(v)
  OBVIOUS
<1>2. PICK queue, pos : /\ queue = SweepWrites(v, rs, lease) /\ queue # <<>>
                        /\ pos = Writes(queue, Idle) /\ Goto(h, pos)
  BY <1>1 DEF SweepVolume
<1>3. queue \in Seq(Write(running[h], DOMAIN engines[h]))
  BY <1>0, <1>1, <1>2, SweepList
<1>4. PositionIs(h, pos, DOMAIN reps, DOMAIN engs, running[h], DOMAIN engines[h])
  BY <1>2, <1>3, QueuePosition
<1>5. UNCHANGED <<vols, reps, engs, lease, up, drv, running, engines, dir, open, lost>>
  BY DEF SweepVolume, storeVars, procVars
<1>6. QED
  BY <1>2, <1>4, <1>5, MoveStep

\* The write that announces an engine.
LEMMA StartedPosition ==
    ASSUME NEW h, NEW v \in Volume, h \in Host, NEW path \in BOOLEAN, NEW A, NEW B, NEW R, NEW F,
           <<v, h>> \in F
    PROVE  PositionIs(h, Started(<<v, h>>, path), A, B, R, F)
<1>1. PICK e, rec : e = <<v, h>> /\ rec = [state |-> "running", path |-> path]
  OBVIOUS
<1>2. EngineIs(e, rec)
  BY <1>1 DEF EngineIs, EngineID, EngineRec, State
<1>3. PutEngine(e, rec) \in Write(R, F)
  BY <1>1, <1>2, PutEngineWrite
<1>4. PICK queue : queue = <<PutEngine(e, rec)>>
  OBVIOUS
<1>5. queue \in Seq(Write(R, F)) /\ queue # <<>>
  BY <1>3, <1>4
<1>6. Started(e, path) = Writes(queue, Idle)
  BY <1>1, <1>4 DEF Started
<1>7. QED
  BY <1>1, <1>5, <1>6, QueuePosition

\* reconcileEngine finds the engine running, or brings up one that has a record.
LEMMA SpawnEngineStep ==
    ASSUME IInv, NEW h \in Host, NEW v \in DOMAIN vols, NEW listed \in BOOLEAN,
           SpawnEngine(h, v, listed)
    PROVE  IInv'
<1>0. Tables /\ Processes /\ v \in Volume
  BY DEF IInv, Tables, VolumeIs
<1>1. PICK e, rs : /\ e = <<v, h>>
                   /\ rs = IF listed THEN ListReplicasFor(v) ELSE <<>>
  OBVIOUS
<1>2. PICK pos : /\ Goto(h, pos) /\ e \in DOMAIN engs
                 /\ pos = IF e \in DOMAIN engines[h] THEN Started(e, engines[h][e])
                          ELSE [at |-> "open", engine |-> e, left |-> DOMAIN rs,
                                bare |-> DOMAIN rs = {}]
  BY <1>1 DEF SpawnEngine
<1>3. UNCHANGED <<vols, reps, engs, lease, up, drv, running, engines, dir, open, lost>>
  BY DEF SpawnEngine, storeVars, procVars
<1>4. PositionIs(h, pos, DOMAIN reps, DOMAIN engs, running[h], DOMAIN engines[h])
  <2>1. CASE e \in DOMAIN engines[h]
    <3>1. PICK path \in BOOLEAN : path = engines[h][e]
      BY <1>0, <2>1 DEF Processes
    <3>2. pos = Started(<<v, h>>, path)
      BY <1>1, <1>2, <2>1, <3>1
    <3>3. QED
      BY <1>0, <1>1, <2>1, <3>2, StartedPosition
  <2>2. CASE e \notin DOMAIN engines[h]
    <3>1. PICK left, bare : pos = [at |-> "open", engine |-> e, left |-> left, bare |-> bare]
      BY <1>2, <2>2
    <3>2. e \in Volume \X {h} /\ e \in DOMAIN engs
      BY <1>0, <1>1, <1>2
    <3>3. OpenIs(h, pos, DOMAIN engs)
      BY <3>1, <3>2 DEF OpenIs
    <3>4. QED
      BY <3>3, OpenPosition
  <2>3. QED
    BY <2>1, <2>2
<1>5. QED
  BY <1>2, <1>3, <1>4, MoveStep

\* A clone that waits for its parent is passed over.
LEMMA DeferStep ==
    ASSUME IInv, NEW h \in Host, loop[h].at = "replicas", NEW r, DeferReplica(h, r)
    PROVE  IInv'
<1>1. PassIs(h, loop[h], DOMAIN reps)
  BY DEF IInv, Positions, PositionIs
<1>2. PICK pos : pos = Handled(h, r) /\ Goto(h, pos)
  BY DEF DeferReplica
<1>3. pos = Idle \/ PassIs(h, pos, DOMAIN reps)
  BY <1>1, <1>2, HandledIs
<1>4. PositionIs(h, pos, DOMAIN reps, DOMAIN engs, running[h], DOMAIN engines[h])
  BY <1>3, IdlePosition, PassPosition
<1>5. UNCHANGED <<vols, reps, engs, lease, up, drv, running, engines, dir, open, lost>>
  BY DEF DeferReplica, storeVars, procVars
<1>6. QED
  BY <1>2, <1>4, <1>5, MoveStep

\* StopEngine deletes the record together with the engine, which is of this host.
LEMMA StopEngineStep ==
    ASSUME IInv, NEW h \in Host, NEW v \in DOMAIN vols, At(h, "idle"), StopEngine(h, v)
    PROVE  IInv'
<1>0. Core /\ Positions /\ v \in Volume
  BY DEF IInv, Core, Tables, VolumeIs
<1>1. PICK e : e = <<v, h>>
  OBVIOUS
<1>2. /\ engines' = [engines EXCEPT ![h] = Delete(engines[h], e)]
      /\ engs' = Delete(engs, e) /\ DOMAIN open' \subseteq DOMAIN open
      /\ UNCHANGED <<vols, reps, lease, up, drv, loop, running, dir, lost>>
  BY <1>1 DEF StopEngine
<1>3. /\ DOMAIN engines' = Host
      /\ DOMAIN engines'[h] = DOMAIN engines[h] \ {e}
      /\ \A x \in DOMAIN engines'[h] : engines'[h][x] = engines[h][x]
      /\ \A g \in Host \ {h} : engines'[g] = engines[g]
  BY <1>0, <1>2 DEF Core, Processes, Delete
<1>4. DOMAIN engs' = DOMAIN engs \ {e} /\ \A x \in DOMAIN engs' : engs'[x] = engs[x]
  BY <1>2 DEF Delete
<1>5. Tables'
  BY <1>0, <1>2, <1>4 DEF Core, Tables
<1>6. Processes'
  BY <1>0, <1>2, <1>3 DEF Core, Processes
<1>7. ClonesSealed'
  BY <1>0, <1>2 DEF Core, ClonesSealed
<1>8. RecordsMatchProcesses'
  <2>1. ASSUME NEW x \in DOMAIN engs', engs'[x].state = "running"
        PROVE  x \in DOMAIN engines'[x[2]] \cup lost'
    <3>1. x \in EngineID /\ x[2] \in Host /\ x # e
      BY <1>0, <1>4 DEF Core, Tables, EngineIs, EngineID
    <3>2. x \in DOMAIN engines[x[2]] \cup lost
      BY <1>0, <1>4, <2>1 DEF Core, RecordsMatchProcesses
    <3>3. QED
      BY <1>2, <1>3, <3>1, <3>2
  <2>2. ASSUME NEW g \in Host
        PROVE  DOMAIN engines'[g] \subseteq DOMAIN engs'
    <3>1. DOMAIN engines[g] \subseteq DOMAIN engs
      BY <1>0 DEF Core, RecordsMatchProcesses
    <3>2. g # h => e \notin DOMAIN engines[g]
      BY <1>0, <1>1 DEF Core, Processes
    <3>3. QED
      BY <1>3, <1>4, <3>1, <3>2
  <2>3. QED
    BY <1>0, <1>2, <2>1, <2>2 DEF Core, RecordsMatchProcesses
<1>9. Positions'
  <2>1. loop'[h] = Idle
    BY <1>0, <1>2 DEF Positions, PositionIs, At
  <2>2. PositionIs(h, loop'[h], DOMAIN reps', DOMAIN engs', running'[h], DOMAIN engines'[h])
    BY <2>1, IdlePosition
  <2>3. \A x \in DOMAIN engs : x \notin Volume \X {h} => x \in DOMAIN engs'
    BY <1>0, <1>1, <1>4
  <2>4. DOMAIN loop' = Host
    BY <1>0, <1>2 DEF Positions
  <2>5. QED
    BY <1>0, <1>2, <1>3, <2>2, <2>3, <2>4, PositionsKept
<1>10. QED
  BY <1>2, <1>5, <1>6, <1>7, <1>8, <1>9 DEF IInv

\* The record of a spawned replica, and the write of it.
LEMMA SpawnedPosition ==
    ASSUME NEW h \in Host, NEW r, NEW rec, NEW ok \in BOOLEAN, ReplicaIs(r, rec),
           NEW A, NEW B, NEW R, NEW F, ok => r \in R,
           NEW next, next = Idle \/ PassIs(h, next, A)
    PROVE  PositionIs(h, Writes(<<PutReplica(r, Spawned(rec, ok), FALSE)>>, next), A, B, R, F)
<1>1. PICK new : new = Spawned(rec, ok)
  OBVIOUS
<1>2. PICK s \in State : s = (IF ok THEN "running" ELSE "faulted") /\ new = [rec EXCEPT !.state = s]
  BY <1>1 DEF Spawned, State
<1>3. ReplicaIs(r, new) /\ new.state = s
  BY <1>2, NewState
<1>4. PICK item : item = PutReplica(r, new, FALSE)
  OBVIOUS
<1>5. item \in Write(R, F)
  <2>1. new.state = "running" => r \in R
    BY <1>2, <1>3
  <2>2. QED
    BY <1>3, <1>4, <2>1, PutReplicaWrite
<1>6. <<item>> \in Seq(Write(R, F)) /\ <<item>> # <<>>
  BY <1>5
<1>7. PositionIs(h, Writes(<<item>>, next), A, B, R, F)
  BY <1>6, QueuePosition
<1>8. QED
  BY <1>1, <1>4, <1>7, Zenon

\* SpawnReplica starts a replica of this host that has a record, a clone's on a
\* sealed copy.
LEMMA SpawnReplicaStep ==
    ASSUME IInv, NEW h \in Host, At(h, "replicas"), NEW r \in loop[h].own, SpawnReplica(h, r)
    PROVE  IInv'
<1>0. Core /\ Positions /\ PassIs(h, loop[h], DOMAIN reps)
  BY DEF IInv, Core, Positions, PositionIs, At
<1>1. PICK rec : rec = loop[h].rs[r]
  OBVIOUS
<1>2. ReplicaIs(r, rec) /\ HostOf(r) = h /\ r \in DOMAIN reps /\ r \in ReplicaID
  BY <1>0, <1>1 DEF PassIs, ReplicaIs
<1>3. /\ running' = [running EXCEPT ![h] = running[h] \cup {r}]
      /\ Goto(h, Writes(<<PutReplica(r, Spawned(rec, TRUE), FALSE)>>, Handled(h, r)))
      /\ UNCHANGED <<vols, reps, engs, lease, up, drv, engines, open, lost>>
  BY <1>1 DEF SpawnReplica, storeVars
<1>4. /\ running'[h] = running[h] \cup {r} /\ r \in running'[h]
      /\ \A g \in Host \ {h} : running'[g] = running[g]
      /\ running' \in [Host -> SUBSET ReplicaID]
  BY <1>0, <1>2, <1>3 DEF Core, Processes
<1>5. /\ \A q \in DOMAIN dir : q \in DOMAIN dir' /\ (q # r => dir'[q] = dir[q])
      /\ \A q \in DOMAIN dir' : dir'[q] \in {"empty", "sealed"}
      /\ rec.src # None => r \in DOMAIN dir' /\ dir'[r] = "sealed"
  <2>0. \A q \in DOMAIN dir : dir[q] \in {"empty", "sealed"}
    BY <1>0 DEF Core, Processes
  <2>1. CASE r \in running[h] /\ dir' = dir
    <3>1. SrcOf(r[1]) # None => r \in DOMAIN dir /\ dir[r] = "sealed"
      BY <1>0, <1>2, <2>1 DEF Core, ClonesSealed
    <3>2. QED
      BY <1>2, <2>0, <2>1, <3>1 DEF ReplicaIs
  <2>2. CASE rec.src = None /\ dir' = Put(dir, r, "empty")
    BY <2>0, <2>2 DEF Put
  <2>3. ASSUME NEW p, bootstrapFromSnapshot(r, p) # "error",
               dir' = Put(dir, r, bootstrapFromSnapshot(r, p))
        PROVE  dir' = Put(dir, r, "sealed")
    BY <2>3 DEF bootstrapFromSnapshot
  <2>4. CASE dir' = Put(dir, r, "sealed")
    BY <2>0, <2>4 DEF Put
  <2>5. QED
    BY <1>1, <2>1, <2>2, <2>3, <2>4 DEF SpawnReplica
<1>6. Tables'
  BY <1>0, <1>3 DEF Core, Tables
<1>7. Processes'
  <2>1. \A g \in Host : \A q \in running'[g] : HostOf(q) = g
    BY <1>0, <1>2, <1>4 DEF Core, Processes
  <2>2. \A g \in Host : running[g] \subseteq running'[g]
    BY <1>4
  <2>3. \A q \in DOMAIN open' : \E g \in up' : q \in running'[g]
    BY <1>0, <1>3, <2>2 DEF Core, Processes, Tables
  <2>4. QED
    BY <1>0, <1>3, <1>4, <1>5, <2>1, <2>3 DEF Core, Processes
<1>8. RecordsMatchProcesses'
  <2>1. ASSUME NEW q \in DOMAIN reps', reps'[q].state = "running"
        PROVE  q \in running'[reps'[q].host] \cup lost'
    <3>1. q \in running[reps[q].host] \cup lost /\ reps[q].host \in Host
      BY <1>0, <1>3, <2>1 DEF Core, RecordsMatchProcesses, Tables, ReplicaIs, ReplicaRec
    <3>2. QED
      BY <1>3, <1>4, <3>1
  <2>2. \A g \in Host : running'[g] \subseteq DOMAIN reps'
    BY <1>0, <1>2, <1>3, <1>4 DEF Core, RecordsMatchProcesses
  <2>3. QED
    BY <1>0, <1>3, <2>1, <2>2 DEF Core, RecordsMatchProcesses
<1>9. ClonesSealed'
  <2>1. ASSUME NEW q \in ReplicaID, SrcOf(q[1]) # None,
               (\E g \in Host : q \in running'[g])
               \/ (q \in DOMAIN reps' /\ reps'[q].state = "running")
        PROVE  q \in DOMAIN dir' /\ dir'[q] = "sealed"
    <3>1. CASE q = r
      BY <1>2, <1>5, <2>1, <3>1 DEF ReplicaIs
    <3>2. CASE q # r
      <4>1. (\E g \in Host : q \in running[g])
            \/ (q \in DOMAIN reps /\ reps[q].state = "running")
        BY <1>3, <1>4, <2>1, <3>2
      <4>2. q \in DOMAIN dir /\ dir[q] = "sealed"
        BY <1>0, <2>1, <4>1 DEF Core, ClonesSealed
      <4>3. QED
        BY <1>5, <3>2, <4>2
    <3>3. QED
      BY <3>1, <3>2
  <2>2. QED
    BY <2>1 DEF ClonesSealed
<1>10. Positions'
  <2>1. PICK pos, next : /\ next = Handled(h, r)
                         /\ pos = Writes(<<PutReplica(r, Spawned(rec, TRUE), FALSE)>>, next)
                         /\ Goto(h, pos)
    BY <1>3, Zenon
  <2>2. next = Idle \/ PassIs(h, next, DOMAIN reps')
    BY <1>0, <1>3, <2>1, HandledIs
  <2>3. PositionIs(h, pos, DOMAIN reps', DOMAIN engs', running'[h], DOMAIN engines'[h])
    <3>1. PICK A, B, R, F : /\ A = DOMAIN reps' /\ B = DOMAIN engs'
                            /\ R = running'[h] /\ F = DOMAIN engines'[h]
      OBVIOUS
    <3>2. TRUE => r \in R
      BY <1>4, <3>1
    <3>3. PositionIs(h, Writes(<<PutReplica(r, Spawned(rec, TRUE), FALSE)>>, next), A, B, R, F)
      BY <1>2, <2>2, <3>1, <3>2, SpawnedPosition
    <3>4. QED
      BY <2>1, <3>1, <3>3, Zenon
  <2>4. DOMAIN loop' = Host /\ loop'[h] = pos /\ \A g \in Host \ {h} : loop'[g] = loop[g]
    BY <1>0, <2>1 DEF Goto, Positions
  <2>5. PositionIs(h, loop'[h], DOMAIN reps', DOMAIN engs', running'[h], DOMAIN engines'[h])
    BY <2>3, <2>4
  <2>6. /\ \A g \in Host \ {h} : running'[g] = running[g] /\ engines'[g] = engines[g]
        /\ \A q \in DOMAIN reps : HostOf(q) # h => q \in DOMAIN reps'
        /\ \A e \in DOMAIN engs : e \notin Volume \X {h} => e \in DOMAIN engs'
    BY <1>3, <1>4
  <2>7. Positions
    BY <1>0
  <2>8. QED
    BY <2>4, <2>5, <2>6, <2>7, PositionsKept
<1>11. QED
  BY <1>3, <1>6, <1>7, <1>8, <1>9, <1>10 DEF IInv

\* A failed SpawnReplica leaves a directory that exists as it is.
LEMMA SpawnFailsStep ==
    ASSUME IInv, NEW h \in Host, At(h, "replicas"), NEW r \in loop[h].own,
           SpawnReplicaFails(h, r)
    PROVE  IInv'
<1>0. Core /\ Positions /\ PassIs(h, loop[h], DOMAIN reps)
  BY DEF IInv, Core, Positions, PositionIs, At
<1>1. PICK rec : rec = loop[h].rs[r]
  OBVIOUS
<1>2. ReplicaIs(r, rec) /\ HostOf(r) = h /\ r \in DOMAIN reps /\ r \in ReplicaID
  BY <1>0, <1>1 DEF PassIs, ReplicaIs
<1>3. /\ Goto(h, Writes(<<PutReplica(r, Spawned(rec, FALSE), FALSE)>>, Handled(h, r)))
      /\ dir' = IF r \in DOMAIN dir THEN dir ELSE Put(dir, r, "empty")
      /\ UNCHANGED <<vols, reps, engs, lease, up, drv, running, engines, open, lost>>
  BY <1>1 DEF SpawnReplicaFails, storeVars
<1>4. /\ \A q \in DOMAIN dir : q \in DOMAIN dir' /\ dir'[q] = dir[q]
      /\ \A q \in DOMAIN dir' : dir'[q] \in {"empty", "sealed"}
  BY <1>0, <1>3 DEF Put, Core, Processes
<1>5. Core'
  <2>1. Tables' /\ RecordsMatchProcesses'
    BY <1>0, <1>3 DEF Core, Tables, RecordsMatchProcesses
  <2>2. Processes'
    BY <1>0, <1>3, <1>4 DEF Core, Processes
  <2>3. ClonesSealed'
    BY <1>0, <1>3, <1>4 DEF Core, ClonesSealed
  <2>4. QED
    BY <2>1, <2>2, <2>3 DEF Core
<1>6. Positions'
  <2>1. PICK pos, next : /\ next = Handled(h, r)
                         /\ pos = Writes(<<PutReplica(r, Spawned(rec, FALSE), FALSE)>>, next)
                         /\ Goto(h, pos)
    BY <1>3, Zenon
  <2>2. next = Idle \/ PassIs(h, next, DOMAIN reps')
    BY <1>0, <1>3, <2>1, HandledIs
  <2>3. PositionIs(h, pos, DOMAIN reps', DOMAIN engs', running'[h], DOMAIN engines'[h])
    <3>1. PICK A, B, R, F : /\ A = DOMAIN reps' /\ B = DOMAIN engs'
                            /\ R = running'[h] /\ F = DOMAIN engines'[h]
      OBVIOUS
    <3>2. PositionIs(h, Writes(<<PutReplica(r, Spawned(rec, FALSE), FALSE)>>, next), A, B, R, F)
      BY <1>2, <2>2, <3>1, SpawnedPosition
    <3>3. QED
      BY <2>1, <3>1, <3>2, Zenon
  <2>4. DOMAIN loop' = Host /\ loop'[h] = pos /\ \A g \in Host \ {h} : loop'[g] = loop[g]
    BY <1>0, <2>1 DEF Goto, Positions
  <2>5. PositionIs(h, loop'[h], DOMAIN reps', DOMAIN engs', running'[h], DOMAIN engines'[h])
    BY <2>3, <2>4
  <2>6. QED
    BY <1>0, <1>3, <2>4, <2>5, PositionsKept
<1>7. QED
  BY <1>3, <1>5, <1>6 DEF IInv, Core

\* StopReplica deletes the record together with the process, which is of this host.
LEMMA StopReplicaStep ==
    ASSUME IInv, NEW h \in Host, At(h, "replicas"), NEW r \in loop[h].own, StopReplica(h, r)
    PROVE  IInv'
<1>0. Core /\ Positions /\ PassIs(h, loop[h], DOMAIN reps)
  BY DEF IInv, Core, Positions, PositionIs, At
<1>1. HostOf(r) = h
  BY <1>0 DEF PassIs
<1>2. /\ running' = [running EXCEPT ![h] = running[h] \ {r}]
      /\ open' = Delete(open, r) /\ reps' = Delete(reps, r)
      /\ Goto(h, Handled(h, r))
      /\ UNCHANGED <<vols, engs, lease, up, drv, engines, dir, lost>>
  BY DEF StopReplica
<1>3. /\ running'[h] = running[h] \ {r}
      /\ \A g \in Host \ {h} : running'[g] = running[g]
      /\ running' \in [Host -> SUBSET ReplicaID]
  BY <1>0, <1>2 DEF Core, Processes
<1>4. /\ DOMAIN reps' = DOMAIN reps \ {r} /\ \A q \in DOMAIN reps' : reps'[q] = reps[q]
      /\ DOMAIN open' = DOMAIN open \ {r}
  BY <1>2 DEF Delete
<1>5. Tables'
  BY <1>0, <1>2, <1>4 DEF Core, Tables
<1>6. Processes'
  <2>1. \A g \in Host : running'[g] \subseteq running[g] /\ running[g] \ {r} \subseteq running'[g]
    BY <1>3
  <2>2. \A q \in DOMAIN open' : \E g \in up' : q \in running'[g]
    BY <1>0, <1>2, <1>4, <2>1 DEF Core, Processes, Tables
  <2>3. \A g \in Host : \A q \in running'[g] : HostOf(q) = g
    BY <1>0, <2>1 DEF Core, Processes
  <2>4. QED
    BY <1>0, <1>2, <1>3, <2>2, <2>3 DEF Core, Processes
<1>7. RecordsMatchProcesses'
  <2>1. ASSUME NEW q \in DOMAIN reps', reps'[q].state = "running"
        PROVE  q \in running'[reps'[q].host] \cup lost'
    <3>1. q \in running[reps[q].host] \cup lost /\ reps[q].host \in Host /\ q # r
      BY <1>0, <1>4, <2>1 DEF Core, RecordsMatchProcesses, Tables, ReplicaIs, ReplicaRec
    <3>2. QED
      BY <1>2, <1>3, <1>4, <3>1
  <2>2. ASSUME NEW g \in Host
        PROVE  running'[g] \subseteq DOMAIN reps'
    <3>1. running[g] \subseteq DOMAIN reps /\ (g # h => r \notin running[g])
      BY <1>0, <1>1 DEF Core, RecordsMatchProcesses, Processes
    <3>2. QED
      BY <1>3, <1>4, <3>1
  <2>3. QED
    BY <1>0, <1>2, <2>1, <2>2 DEF Core, RecordsMatchProcesses
<1>8. ClonesSealed'
  <2>1. \A g \in Host : running'[g] \subseteq running[g]
    BY <1>3
  <2>2. QED
    BY <1>0, <1>2, <1>4, <2>1 DEF Core, ClonesSealed
<1>9. Positions'
  <2>1. PICK pos : pos = Handled(h, r)
    OBVIOUS
  <2>2. pos = Idle \/ PassIs(h, pos, DOMAIN reps')
    BY <1>0, <1>4, <2>1, HandledIs
  <2>3. PositionIs(h, pos, DOMAIN reps', DOMAIN engs', running'[h], DOMAIN engines'[h])
    BY <2>2, IdlePosition, PassPosition
  <2>4. DOMAIN loop' = Host /\ loop'[h] = pos /\ \A g \in Host \ {h} : loop'[g] = loop[g]
    BY <1>0, <1>2, <2>1 DEF Goto, Positions
  <2>5. PositionIs(h, loop'[h], DOMAIN reps', DOMAIN engs', running'[h], DOMAIN engines'[h])
    BY <2>3, <2>4
  <2>6. \A q \in DOMAIN reps : HostOf(q) # h => q \in DOMAIN reps'
    BY <1>1, <1>4
  <2>7. QED
    BY <1>0, <1>2, <1>3, <2>4, <2>5, <2>6, PositionsKept
<1>10. QED
  BY <1>2, <1>5, <1>6, <1>7, <1>8, <1>9 DEF IInv

\* A write of the loop announces processes of its host only.
LEMMA LoopPutStep ==
    ASSUME IInv, NEW h \in Host, At(h, "put"), LoopPut(h)
    PROVE  IInv'
<1>0. Core /\ Positions
  BY DEF IInv, Core
<1>1. PICK pos, R, F : pos = loop[h] /\ R = running[h] /\ F = DOMAIN engines[h]
  OBVIOUS
<1>2. QueueIs(h, pos, DOMAIN reps, R, F)
  BY <1>0, <1>1 DEF Positions, PositionIs, At
<1>3. PICK item, rest : item = Head(pos.queue) /\ rest = Tail(pos.queue)
  OBVIOUS
<1>4. item \in Write(R, F) /\ rest \in Seq(Write(R, F))
  BY <1>2, <1>3 DEF QueueIs
<1>5. PICK new : /\ new = IF rest = <<>> THEN pos.then ELSE [pos EXCEPT !.queue = rest]
                 /\ Goto(h, new)
  BY <1>1, <1>3 DEF LoopPut
<1>6. /\ \/ /\ reps' = IF item.op = "replica" THEN Put(reps, item.key, item.rec) ELSE reps
            /\ engs' = IF item.op = "engine" THEN Put(engs, item.key, item.rec) ELSE engs
         \/ UNCHANGED <<reps, engs>>
      /\ UNCHANGED <<vols, lease, running, engines, dir, open, up, drv, lost>>
  BY <1>1, <1>3 DEF LoopPut, procVars
<1>7. Core' /\ DOMAIN reps \subseteq DOMAIN reps' /\ DOMAIN engs \subseteq DOMAIN engs'
  <2>1. CASE UNCHANGED <<reps, engs>>
    BY <1>0, <1>6, <2>1, CoreKept
  <2>2. CASE item.op = "replica" /\ reps' = Put(reps, item.key, item.rec) /\ engs' = engs
    <3>1. ReplicaIs(item.key, item.rec) /\ (item.rec.state = "running" => item.key \in R)
      BY <1>4, <2>2, WriteFacts
    <3>2. item.rec.state = "running" => item.key \in running[HostOf(item.key)]
      BY <1>0, <1>1, <3>1 DEF Core, Processes
    <3>3. QED
      BY <1>0, <1>6, <2>2, <3>1, <3>2, PutReplicaCore
  <2>3. CASE item.op = "engine" /\ engs' = Put(engs, item.key, item.rec) /\ reps' = reps
    <3>1. EngineIs(item.key, item.rec) /\ (item.rec.state = "running" => item.key \in F)
      BY <1>4, <2>3, WriteFacts
    <3>2. item.rec.state = "running" => item.key \in DOMAIN engines[item.key[2]]
      BY <1>0, <1>1, <3>1 DEF Core, Processes
    <3>3. QED
      BY <1>0, <1>6, <2>3, <3>1, <3>2, PutEngineCore
  <2>4. QED
    BY <1>6, <2>1, <2>2, <2>3
<1>8. Positions'
  <2>1. PositionIs(h, new, DOMAIN reps, DOMAIN engs, R, F)
    <3>0. pos.then = Idle \/ PassIs(h, pos.then, DOMAIN reps)
      BY <1>2 DEF QueueIs
    <3>1. CASE rest = <<>>
      BY <1>5, <3>0, <3>1, IdlePosition, PassPosition
    <3>2. CASE rest # <<>>
      <4>1. pos = [at |-> "put", queue |-> pos.queue, then |-> pos.then]
        BY <1>2 DEF QueueIs
      <4>2. new = Writes(rest, pos.then)
        BY <1>5, <3>2, <4>1 DEF Writes
      <4>3. QED
        BY <1>4, <3>0, <3>2, <4>2, QueuePosition
    <3>3. QED
      BY <3>1, <3>2
  <2>2. PICK A, B : A = DOMAIN reps /\ B = DOMAIN engs
    OBVIOUS
  <2>3. PICK A2, B2 : A2 = DOMAIN reps' /\ B2 = DOMAIN engs'
    OBVIOUS
  <2>4. PositionIs(h, new, A2, B2, R, F)
    <3>1. PositionIs(h, new, A, B, R, F) /\ A \subseteq A2 /\ B \subseteq B2
      BY <1>7, <2>1, <2>2, <2>3
    <3>2. QED
      BY <3>1, PositionKept
  <2>5. DOMAIN loop' = Host /\ loop'[h] = new /\ \A g \in Host \ {h} : loop'[g] = loop[g]
    BY <1>0, <1>5 DEF Goto, Positions
  <2>6. PositionIs(h, loop'[h], DOMAIN reps', DOMAIN engs', running'[h], DOMAIN engines'[h])
    BY <1>1, <1>6, <2>3, <2>4, <2>5
  <2>7. QED
    BY <1>0, <1>6, <1>7, <2>5, <2>6, PositionsKept
<1>9. QED
  BY <1>6, <1>7, <1>8 DEF IInv, Core

\* Controller.Start opens replicas that run.
LEMMA OpenReplicaStep ==
    ASSUME IInv, NEW h \in Host, At(h, "open"), NEW r, OpenReplica(h, r)
    PROVE  IInv'
<1>0. Core /\ Positions /\ OpenIs(h, loop[h], DOMAIN engs)
  BY DEF IInv, Core, Positions, PositionIs, At
<1>1. PICK pos, new : /\ pos = loop[h] /\ new = [pos EXCEPT !.left = @ \ {r}]
                      /\ Goto(h, new)
  BY DEF OpenReplica
<1>2. UNCHANGED <<vols, reps, engs, lease, up, drv, running, engines, dir, lost>>
  BY DEF OpenReplica, storeVars
<1>3. OpenIs(h, new, DOMAIN engs)
  <2>1. pos = [at |-> "open", engine |-> pos.engine, left |-> pos.left, bare |-> pos.bare]
    BY <1>0, <1>1 DEF OpenIs
  <2>2. new = [at |-> "open", engine |-> pos.engine, left |-> pos.left \ {r}, bare |-> pos.bare]
    BY <1>1, <2>1
  <2>3. QED
    BY <1>0, <1>1, <2>2 DEF OpenIs
<1>4. \A q \in DOMAIN open' : q \in DOMAIN open \/ \E g \in up : q \in running[g]
  BY DEF OpenReplica, Put
<1>5. Core'
  <2>1. Processes'
    BY <1>0, <1>2, <1>4 DEF Core, Processes
  <2>2. QED
    BY <1>0, <1>2, <2>1 DEF Core, Tables, RecordsMatchProcesses, ClonesSealed
<1>6. Positions'
  <2>1. DOMAIN loop' = Host /\ loop'[h] = new /\ \A g \in Host \ {h} : loop'[g] = loop[g]
    BY <1>0, <1>1 DEF Goto, Positions
  <2>2. PositionIs(h, loop'[h], DOMAIN reps', DOMAIN engs', running'[h], DOMAIN engines'[h])
    BY <1>2, <1>3, <2>1, OpenPosition
  <2>3. QED
    BY <1>0, <1>2, <2>1, <2>2, PositionsKept
<1>7. QED
  BY <1>2, <1>5, <1>6 DEF IInv, Core

\* The engine comes up, or is recorded as Faulted.
LEMMA StartEngineStep ==
    ASSUME IInv, NEW h \in Host, At(h, "open"), StartEngine(h)
    PROVE  IInv'
<1>0. Core /\ Positions /\ OpenIs(h, loop[h], DOMAIN engs)
  BY DEF IInv, Core, Positions, PositionIs, At
<1>1. PICK e : e = loop[h].engine
  OBVIOUS
<1>2. e \in Volume \X {h}
  BY <1>0, <1>1 DEF OpenIs
<1>3. e \in DOMAIN engs
  BY <1>0, <1>1 DEF OpenIs
<1>4. /\ UNCHANGED <<vols, reps, engs, lease, up, drv, running, dir, lost>>
      /\ DOMAIN open' = DOMAIN open
  BY DEF StartEngine, storeVars, Left
<1>5. ASSUME NEW opened \in BOOLEAN, engines' = [engines EXCEPT ![h] = Put(engines[h], e, opened)],
             Goto(h, Started(e, opened))
      PROVE  IInv'
  <2>1. /\ DOMAIN engines' = Host
        /\ DOMAIN engines'[h] = DOMAIN engines[h] \cup {e}
        /\ \A x \in DOMAIN engines'[h] : engines'[h][x] \in BOOLEAN
        /\ \A g \in Host \ {h} : engines'[g] = engines[g]
    BY <1>0, <1>5 DEF Core, Processes, Put
  <2>2. Processes'
    <3>1. \A g \in Host : /\ DOMAIN engines'[g] \subseteq Volume \X {g}
                          /\ \A x \in DOMAIN engines'[g] : engines'[g][x] \in BOOLEAN
      BY <1>0, <1>2, <2>1 DEF Core, Processes
    <3>2. QED
      BY <1>0, <1>4, <2>1, <3>1 DEF Core, Processes
  <2>3. RecordsMatchProcesses'
    <3>1. ASSUME NEW x \in DOMAIN engs', engs'[x].state = "running"
          PROVE  x \in DOMAIN engines'[x[2]] \cup lost'
      <4>1. x \in EngineID /\ x[2] \in Host
        BY <1>0, <1>4 DEF Core, Tables, EngineIs, EngineID
      <4>2. x \in DOMAIN engines[x[2]] \cup lost
        BY <1>0, <1>4, <3>1 DEF Core, RecordsMatchProcesses
      <4>3. QED
        BY <1>4, <2>1, <4>1, <4>2
    <3>2. \A g \in Host : DOMAIN engines'[g] \subseteq DOMAIN engs'
      BY <1>0, <1>3, <1>4, <2>1 DEF Core, RecordsMatchProcesses
    <3>3. QED
      BY <1>0, <1>4, <3>1, <3>2 DEF Core, RecordsMatchProcesses
  <2>4. Tables' /\ ClonesSealed'
    BY <1>0, <1>4 DEF Core, Tables, ClonesSealed
  <2>5. Positions'
    <3>0. PICK v \in Volume : e = <<v, h>>
      BY <1>2
    <3>1. PICK pos : pos = Started(<<v, h>>, opened) /\ Goto(h, pos)
      BY <1>5, <3>0
    <3>2. DOMAIN loop' = Host /\ loop'[h] = pos /\ \A g \in Host \ {h} : loop'[g] = loop[g]
      BY <1>0, <3>1 DEF Goto, Positions
    <3>3. PositionIs(h, pos, DOMAIN reps', DOMAIN engs', running'[h], DOMAIN engines'[h])
      BY <2>1, <3>0, <3>1, StartedPosition
    <3>4. PositionIs(h, loop'[h], DOMAIN reps', DOMAIN engs', running'[h], DOMAIN engines'[h])
      BY <3>2, <3>3
    <3>5. QED
      BY <1>0, <1>4, <2>1, <3>2, <3>4, PositionsKept
  <2>6. QED
    BY <1>4, <2>2, <2>3, <2>4, <2>5 DEF IInv
<1>6. ASSUME Goto(h, Writes(<<PutEngine(e, [state |-> "faulted", path |-> FALSE])>>, Idle)),
             engines' = engines
      PROVE  IInv'
  <2>1. PICK rec : rec = [state |-> "faulted", path |-> FALSE]
    OBVIOUS
  <2>2. EngineIs(e, rec) /\ rec.state # "running"
    BY <1>2, <2>1 DEF EngineIs, EngineID, EngineRec, State
  <2>3. PICK R, F : R = running[h] /\ F = DOMAIN engines[h]
    OBVIOUS
  <2>4. PICK queue : queue = <<PutEngine(e, rec)>>
    OBVIOUS
  <2>5. PutEngine(e, rec) \in Write(R, F)
    BY <2>2, PutEngineWrite
  <2>6. queue \in Seq(Write(R, F)) /\ queue # <<>>
    BY <2>4, <2>5
  <2>7. PICK pos : pos = Writes(queue, Idle) /\ Goto(h, pos)
    BY <1>6, <2>1, <2>4
  <2>8. PositionIs(h, pos, DOMAIN reps, DOMAIN engs, R, F)
    BY <2>6, <2>7, QueuePosition
  <2>9. QED
    BY <1>4, <1>6, <2>3, <2>7, <2>8, MoveStep
<1>7. QED
  BY <1>1, <1>5, <1>6 DEF StartEngine

\* The processes of a crashed host are lost, and with them what its driver and loop
\* had in progress.
LEMMA CrashStep ==
    ASSUME IInv, NEW h \in Host, Crash(h)
    PROVE  IInv'
<1>0. Core /\ Positions /\ drv \in [Host -> Seq(Write({}, {}))]
  BY DEF IInv, Core
<1>1. /\ up' = up \ {h} /\ drv' = [drv EXCEPT ![h] = <<>>]
      /\ loop' = [loop EXCEPT ![h] = Idle]
      /\ running' = [running EXCEPT ![h] = {}]
      /\ engines' = [engines EXCEPT ![h] = <<>>]
      /\ DOMAIN open' = DOMAIN open \ running[h]
      /\ lost' = lost \cup running[h] \cup DOMAIN engines[h]
      /\ UNCHANGED <<vols, reps, engs, lease, dir>>
  BY DEF Crash, storeVars
<1>2. /\ running'[h] = {} /\ \A g \in Host \ {h} : running'[g] = running[g]
      /\ running' \in [Host -> SUBSET ReplicaID]
  BY <1>0, <1>1 DEF Core, Processes
<1>3. /\ DOMAIN engines' = Host /\ engines'[h] = <<>> /\ DOMAIN engines'[h] = {}
      /\ \A g \in Host \ {h} : engines'[g] = engines[g]
  BY <1>0, <1>1 DEF Core, Processes
<1>4. Tables'
  BY <1>0, <1>1 DEF Core, Tables
<1>5. Processes'
  <2>1. \A q \in DOMAIN open' : \E g \in up' : q \in running'[g]
    BY <1>0, <1>1, <1>2 DEF Core, Processes, Tables
  <2>2. \A g \in Host : \A r \in running'[g] : HostOf(r) = g
    BY <1>0, <1>2 DEF Core, Processes
  <2>3. \A g \in Host : /\ DOMAIN engines'[g] \subseteq Volume \X {g}
                        /\ \A e \in DOMAIN engines'[g] : engines'[g][e] \in BOOLEAN
    BY <1>0, <1>3 DEF Core, Processes
  <2>4. QED
    BY <1>0, <1>1, <1>2, <1>3, <2>1, <2>2, <2>3 DEF Core, Processes
<1>6. RecordsMatchProcesses'
  <2>1. ASSUME NEW q \in DOMAIN reps', reps'[q].state = "running"
        PROVE  q \in running'[reps'[q].host] \cup lost'
    <3>1. q \in running[reps[q].host] \cup lost /\ reps[q].host \in Host
      BY <1>0, <1>1, <2>1 DEF Core, RecordsMatchProcesses, Tables, ReplicaIs, ReplicaRec
    <3>2. QED
      BY <1>1, <1>2, <3>1
  <2>2. ASSUME NEW x \in DOMAIN engs', engs'[x].state = "running"
        PROVE  x \in DOMAIN engines'[x[2]] \cup lost'
    <3>1. x \in EngineID /\ x[2] \in Host
      BY <1>0, <1>1 DEF Core, Tables, EngineIs, EngineID
    <3>2. x \in DOMAIN engines[x[2]] \cup lost
      BY <1>0, <1>1, <2>2 DEF Core, RecordsMatchProcesses
    <3>3. QED
      BY <1>1, <1>3, <3>1, <3>2
  <2>3. \A g \in Host : running'[g] \subseteq DOMAIN reps' /\ DOMAIN engines'[g] \subseteq DOMAIN engs'
    BY <1>0, <1>1, <1>2, <1>3 DEF Core, RecordsMatchProcesses
  <2>4. QED
    BY <2>1, <2>2, <2>3 DEF RecordsMatchProcesses
<1>7. ClonesSealed'
  <2>1. \A g \in Host : running'[g] \subseteq running[g]
    BY <1>2
  <2>2. QED
    BY <1>0, <1>1, <2>1 DEF Core, ClonesSealed
<1>8. Positions'
  <2>1. DOMAIN loop' = Host /\ loop'[h] = Idle /\ \A g \in Host \ {h} : loop'[g] = loop[g]
    BY <1>0, <1>1 DEF Positions
  <2>2. PositionIs(h, loop'[h], DOMAIN reps', DOMAIN engs', running'[h], DOMAIN engines'[h])
    BY <2>1, IdlePosition
  <2>3. QED
    BY <1>0, <1>1, <1>2, <1>3, <2>1, <2>2, PositionsKept
<1>9. drv' \in [Host -> Seq(Write({}, {}))]
  BY <1>0, <1>1, Lists
<1>10. QED
  BY <1>4, <1>5, <1>6, <1>7, <1>8, <1>9 DEF IInv

\* Restarts and leases.
LEMMA HostStepStep ==
    ASSUME IInv, NEW h \in Host, HostStep(h)
    PROVE  IInv'
<1>0. Core /\ Positions
  BY DEF IInv, Core
<1>1. CASE Crash(h)
  BY <1>1, CrashStep
<1>2. CASE Restart(h) \/ LeaseExpires(h) \/ LeaseReturns(h)
  <2>1. /\ lease' \subseteq lease \cup {h} /\ up' \subseteq Host /\ up \subseteq up'
        /\ UNCHANGED <<vols, reps, engs, drv, loop, running, engines, dir, open, lost>>
    BY <1>0, <1>2 DEF Restart, LeaseExpires, LeaseReturns, storeVars, procVars, Core, Tables
  <2>2. Tables' /\ RecordsMatchProcesses' /\ ClonesSealed'
    BY <1>0, <2>1 DEF Core, Tables, RecordsMatchProcesses, ClonesSealed
  <2>3. Processes'
    BY <1>0, <2>1 DEF Core, Processes
  <2>4. Positions'
    BY <1>0, <2>1, PositionsGrow
  <2>5. QED
    BY <2>1, <2>2, <2>3, <2>4 DEF IInv
<1>3. QED
  BY <1>1, <1>2 DEF HostStep

\* The steps of a reconcile loop.
LEMMA LoopStepStep ==
    ASSUME IInv, NEW h \in Host, LoopStep(h)
    PROVE  IInv'
<1>1. CASE At(h, "idle") /\ \E v \in DOMAIN vols : \/ ReconcileVolume(h, v) \/ SweepVolume(h, v)
                                                   \/ StopEngine(h, v)
                                                   \/ \E listed \in BOOLEAN : SpawnEngine(h, v, listed)
  BY <1>1, ReconcileStep, SweepStep, SpawnEngineStep, StopEngineStep
<1>2. CASE At(h, "replicas") /\ \E r \in loop[h].own :
              \/ SpawnReplica(h, r) \/ SpawnReplicaFails(h, r)
              \/ DeferReplica(h, r) \/ StopReplica(h, r)
  <2>1. loop[h].at = "replicas"
    BY <1>2 DEF At
  <2>2. QED
    BY <1>2, <2>1, SpawnReplicaStep, SpawnFailsStep, DeferStep, StopReplicaStep
<1>3. CASE At(h, "put") /\ LoopPut(h)
  BY <1>3, LoopPutStep
<1>4. CASE At(h, "open") /\ (StartEngine(h) \/ \E r \in loop[h].left : OpenReplica(h, r))
  BY <1>4, OpenReplicaStep, StartEngineStep
<1>5. QED
  BY <1>1, <1>2, <1>3, <1>4 DEF LoopStep

\* An empty store.
LEMMA InitInv == Init => IInv
<1> SUFFICES ASSUME Init PROVE IInv
  OBVIOUS
<1>1. /\ DOMAIN vols = {} /\ DOMAIN reps = {} /\ DOMAIN engs = {} /\ DOMAIN dir = {}
      /\ DOMAIN open = {} /\ lease = Host /\ up = Host
      /\ \A h \in Host : running[h] = {} /\ DOMAIN engines[h] = {} /\ loop[h] = Idle
      /\ running \in [Host -> SUBSET ReplicaID] /\ DOMAIN engines = Host /\ DOMAIN loop = Host
  BY DEF Init
<1>2. drv \in [Host -> Seq(Write({}, {}))]
  BY Lists DEF Init
<1>3. Positions
  BY <1>1, IdlePosition DEF Positions
<1>4. Tables /\ Processes /\ RecordsMatchProcesses /\ ClonesSealed
  BY <1>1 DEF Tables, Processes, RecordsMatchProcesses, ClonesSealed
<1>5. QED
  BY <1>2, <1>3, <1>4 DEF IInv

----------------------------------------------------------------------------
(* The theorems.                                                           *)

\* Whatever the volumes, the hosts and their zones, the number of calls and of
\* crashes, lost leases, failed writes and failed spawns, and in every order in
\* which drivers and loops read and write the store: records, writes in progress,
\* passes of the loops and processes agree with the UUIDs they are for.
THEOREM ControlInductive == Spec => []IInv
<1>1. IInv /\ [Next]_vars => IInv'
  <2> SUFFICES ASSUME IInv, [Next]_vars PROVE IInv'
    OBVIOUS
  <2>1. CASE UNCHANGED vars
    <3>1. Core' /\ Positions'
      BY <2>1, CoreKept, PositionsGrow DEF IInv, Core, vars
    <3>2. QED
      BY <2>1, <3>1 DEF IInv, Core, vars
  <2>2. ASSUME NEW h \in Caller, DriverCall(h) \/ DriverStep(h) \/ DriverStepFails(h)
        PROVE  IInv'
    BY <2>2, DriverCallStep, DriverStepStep, DriverFailsStep
  <2>3. ASSUME NEW h \in Host, LoopStep(h) \/ HostStep(h)
        PROVE  IInv'
    BY <2>3, LoopStepStep, HostStepStep
  <2>4. QED
    BY <2>1, <2>2, <2>3 DEF Next
<1>2. QED
  BY <1>1, InitInv, PTL DEF Spec

\* The records of the store, the processes and the positions of drivers and loops
\* are well formed, the hosts PlaceReplicas picks included.
THEOREM ControlTypes == Spec => []TypeOK
<1>1. IInv => TypeOK
  <2> SUFFICES ASSUME IInv PROVE TypeOK
    OBVIOUS
  <2>1. /\ DOMAIN vols \subseteq Volume /\ DOMAIN reps \subseteq ReplicaID
        /\ DOMAIN engs \subseteq EngineID
        /\ lease \subseteq Host /\ up \subseteq Host
    BY DEF IInv, Tables, VolumeIs, ReplicaIs, EngineIs
  <2>2. \A v \in DOMAIN vols :
          /\ vols[v].state \in {"provisioning", "attached", "healthy", "deleting"}
          /\ vols[v].attachedTo \in Host \cup {None} /\ vols[v].src \in Volume \cup {None}
    BY DEF IInv, Tables, VolumeIs, VolumeRec
  <2>3. \A r \in DOMAIN reps : reps[r].host \in Host /\ reps[r].state \in State
    BY DEF IInv, Tables, ReplicaIs, ReplicaRec
  <2>4. \A e \in DOMAIN engs : engs[e].state \in State /\ engs[e].path \in BOOLEAN
    BY DEF IInv, Tables, EngineIs, EngineRec
  <2>5. \A h \in Host :
          /\ loop[h].at \in {"idle", "replicas", "put", "open"}
          /\ running[h] \subseteq ReplicaID /\ DOMAIN engines[h] \subseteq EngineID
    BY DEF IInv, Positions, PositionIs, Processes, EngineID
  <2>6. /\ DOMAIN open \subseteq UNION {running[h] : h \in up}
        /\ \A r \in DOMAIN dir : dir[r] \in {"empty", "sealed"}
    BY DEF IInv, Processes
  <2>7. QED
    BY <2>1, <2>2, <2>3, <2>4, <2>5, <2>6 DEF TypeOK
<1>2. QED
  BY <1>1, ControlInductive, PTL

\* A record that says Running stands for a process of its host, unless the process
\* ended in a crash, and a process always has the record through which
\* StopReplica and StopEngine find it.
THEOREM RecordsTrue == Spec => []RecordsMatchProcesses
<1>1. IInv => RecordsMatchProcesses
  BY DEF IInv
<1>2. QED
  BY <1>1, ControlInductive, PTL

\* A clone's replica that is announced as Running holds the parent's snapshot:
\* reconcileReplica waits for a source, and a failed bootstrap is not announced.
THEOREM ClonesHaveData == Spec => []CloneHasData
<1>1. IInv => CloneHasData
  <2> SUFFICES ASSUME IInv, NEW r \in DOMAIN reps, reps[r].state = "running", reps[r].src # None
               PROVE  dir[r] = "sealed"
    BY DEF CloneHasData
  <2>1. r \in ReplicaID /\ SrcOf(r[1]) # None
    BY DEF IInv, Tables, ReplicaIs
  <2>2. QED
    BY <2>1 DEF IInv, ClonesSealed
<1>2. QED
  BY <1>1, ControlInductive, PTL
=============================================================================
