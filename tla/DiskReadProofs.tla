--------------------------- MODULE DiskReadProofs ---------------------------
(***************************************************************************)
(* What is read from a list of files, and why I/O, snapshots and reverts leave*)
(* the volume and the snapshots readable.                                  *)
(***************************************************************************)
EXTENDS DiskTreeProofs

\* Zenon first: encoding a leaf for the SMT solver is what costs.  The limits leave
\* room for a busy machine.
USE ZenonT(3), SMTT(60), ZenonT(60)

-----------------------------------------------------------------------------
(* Reading a list of files.                                                *)

\* Only one index has that property.
LEMMA LookupIs ==
    ASSUME NEW files, NEW p, NEW b, Len(p) \in Nat, NEW l \in 1..Len(p),
           \A i \in l + 1..Len(p) : files[p[i]][b] = Hole,
           l = 1 \/ files[p[l]][b] # Hole
    PROVE  Lookup(files, p, b) = l
<1>1. PICK n \in Nat : n = Len(p)
  OBVIOUS
<1>2. PICK m : m = Lookup(files, p, b)
  OBVIOUS
<1>3. /\ n > 0 /\ m \in 1..n /\ \A i \in m + 1..n : files[p[i]][b] = Hole
      /\ m = 1 \/ files[p[m]][b] # Hole
  <2>1. Len(p) > 0
    OBVIOUS
  <2> QED BY <1>1, <1>2, <2>1, LookupFacts
<1>4. ~ (m > l)
  BY <1>1, <1>3
<1>5. ~ (l > m)
  BY <1>1, <1>3
<1> QED BY <1>1, <1>2, <1>3, <1>4, <1>5

\* Two lists of files that agree from the located file upwards read alike.
LEMMA SameReads ==
    ASSUME NEW files, NEW files2, NEW p, NEW q, NEW b,
           Len(p) \in Nat, Len(p) > 0, Len(q) = Len(p),
           \A i \in 1..Len(p) :
               Lookup(files, p, b) <= i => files2[q[i]][b] = files[p[i]][b]
    PROVE  /\ Lookup(files2, q, b) = Lookup(files, p, b)
           /\ ReadPath(files2, q, b) = ReadPath(files, p, b)
<1>1. PICK l : l = Lookup(files, p, b)
  OBVIOUS
<1>2. /\ l \in 1..Len(p) /\ \A i \in l + 1..Len(p) : files[p[i]][b] = Hole
      /\ l = 1 \/ files[p[l]][b] # Hole
  BY <1>1, LookupFacts
<1>3. \A i \in l + 1..Len(q) : files2[q[i]][b] = Hole
  <2>1. ASSUME NEW i \in l + 1..Len(q) PROVE i \in l + 1..Len(p) /\ i \in 1..Len(p) /\ l <= i
    BY <1>2
  <2> QED BY <1>1, <1>2, <2>1
<1>4. l \in 1..Len(q) /\ files2[q[l]][b] = files[p[l]][b]
  BY <1>1, <1>2
<1>5. Lookup(files2, q, b) = l
  BY <1>2, <1>3, <1>4, LookupIs
<1> QED BY <1>1, <1>4, <1>5 DEF ReadPath, Fetch

\* Sector b is the same in all files of q as in those of p.
SameFiles(files, p, files2, q, b) ==
    /\ Len(p) \in Nat /\ Len(p) > 0 /\ Len(q) = Len(p)
    /\ \A i \in 1..Len(p) : files2[q[i]][b] = files[p[i]][b]

\* Lists of files that agree everywhere read alike.
LEMMA SameFilesRead ==
    ASSUME NEW files, NEW files2, NEW p, NEW q, NEW b, SameFiles(files, p, files2, q, b)
    PROVE  /\ Lookup(files2, q, b) = Lookup(files, p, b)
           /\ ReadPath(files2, q, b) = ReadPath(files, p, b)
<1>1. /\ Len(p) \in Nat /\ Len(p) > 0 /\ Len(q) = Len(p)
      /\ \A i \in 1..Len(p) : files2[q[i]][b] = files[p[i]][b]
  BY DEF SameFiles
<1> QED BY <1>1, SameReads

\* List q agrees with p, and file e is empty at sector b.
OnTop(files, p, files2, q, e, b) ==
    /\ SameFiles(files, p, files2, q, b) /\ files2[e][b] = Hole
    /\ p \in Seq(Disk) /\ q \in Seq(Disk) /\ e \in Disk

\* An empty file on top changes nothing that is read.
LEMMA EmptyOnTop ==
    ASSUME NEW files, NEW files2, NEW p, NEW q, NEW e, NEW b, OnTop(files, p, files2, q, e, b)
    PROVE  /\ Lookup(files2, q \o <<e>>, b) = Lookup(files, p, b)
           /\ ReadPath(files2, q \o <<e>>, b) = ReadPath(files, p, b)
<1>0. p \in Seq(Disk) /\ q \in Seq(Disk) /\ e \in Disk /\ files2[e][b] = Hole
  BY DEF OnTop
<1>1. PICK n \in Nat : /\ n = Len(p) /\ n > 0 /\ n = Len(q)
                       /\ \A i \in 1..n : files2[q[i]][b] = files[p[i]][b]
  BY DEF OnTop, SameFiles
<1>2. PICK r : r = q \o <<e>>
  OBVIOUS
<1>3. Len(r) = n + 1 /\ r[n + 1] = e /\ \A i \in 1..n : r[i] = q[i]
  BY <1>0, <1>1, <1>2
<1>4. PICK l : l = Lookup(files, p, b)
  OBVIOUS
<1>5. /\ l \in 1..n /\ \A i \in l + 1..n : files[p[i]][b] = Hole
      /\ l = 1 \/ files[p[l]][b] # Hole
  <2>1. Len(p) \in Nat /\ Len(p) > 0
    BY <1>1
  <2>2. /\ l \in 1..Len(p) /\ \A i \in l + 1..Len(p) : files[p[i]][b] = Hole
        /\ l = 1 \/ files[p[l]][b] # Hole
    BY <1>4, <2>1, LookupFacts
  <2> QED BY <1>1, <2>2
<1>6. \A i \in 1..n : files2[r[i]][b] = files[p[i]][b]
  BY <1>1, <1>3
<1>7. ASSUME NEW i \in l + 1..n + 1 PROVE files2[r[i]][b] = Hole
  <2>1. CASE i = n + 1
    BY <1>0, <1>3, <2>1
  <2>2. CASE i \in l + 1..n
    <3>1. i \in 1..n
      BY <1>1, <1>5, <2>2
    <3> QED BY <1>5, <1>6, <2>2, <3>1
  <2>3. i = n + 1 \/ i \in l + 1..n
    BY <1>1, <1>5
  <2> QED BY <2>1, <2>2, <2>3
<1>8. Lookup(files2, r, b) = l
  <2>1. Len(r) \in Nat /\ l \in 1..Len(r) /\ (l = 1 \/ files2[r[l]][b] # Hole)
    BY <1>1, <1>3, <1>5, <1>6
  <2>2. \A i \in l + 1..Len(r) : files2[r[i]][b] = Hole
    BY <1>3, <1>7
  <2> QED BY <2>1, <2>2, LookupIs
<1>9. files2[r[l]][b] = files[p[l]][b]
  BY <1>5, <1>6
<1> QED BY <1>2, <1>4, <1>8, <1>9 DEF ReadPath, Fetch

\* Of the files of p only s changes, below one with an extent at sector b.
Covered(files, files2, p, s, b) ==
    /\ Len(p) \in Nat /\ Len(p) > 0
    /\ \A i \in 1..Len(p) : p[i] # s => files2[p[i]][b] = files[p[i]][b]
    /\ \A i \in 1..Len(p) : p[i] = s => \E j \in i + 1..Len(p) : files[p[j]][b] # Hole

\* A change that is covered is not read: why PruneFile and FoldFile are safe.
LEMMA CoveredReads ==
    ASSUME NEW files, NEW files2, NEW p, NEW s, NEW b, Covered(files, files2, p, s, b)
    PROVE  /\ Lookup(files2, p, b) = Lookup(files, p, b)
           /\ ReadPath(files2, p, b) = ReadPath(files, p, b)
<1>0. /\ Len(p) \in Nat /\ Len(p) > 0
      /\ \A i \in 1..Len(p) : p[i] # s => files2[p[i]][b] = files[p[i]][b]
      /\ \A i \in 1..Len(p) : p[i] = s => \E j \in i + 1..Len(p) : files[p[j]][b] # Hole
  BY DEF Covered
<1>1. PICK l : l = Lookup(files, p, b)
  OBVIOUS
<1>2. l \in 1..Len(p) /\ \A i \in l + 1..Len(p) : files[p[i]][b] = Hole
  BY <1>0, <1>1, LookupFacts
<1>3. ASSUME NEW i \in 1..Len(p), l <= i PROVE p[i] # s
  <2>1. \A j \in i + 1..Len(p) : j \in l + 1..Len(p)
    BY <1>0, <1>2, <1>3
  <2> QED BY <1>0, <1>2, <2>1
<1>4. \A i \in 1..Len(p) : l <= i => files2[p[i]][b] = files[p[i]][b]
  BY <1>0, <1>3
<1> QED BY <1>0, <1>1, <1>4, SameReads

\* The file at k replaces the one above it, whose data it has.
Folded(files, files2, p, k, b) ==
    /\ p \in Seq(Disk) /\ k \in 1..Len(p) - 1
    /\ files2[p[k + 1]][b] = files[p[k]][b]
    /\ \A i \in 1..Len(p) : i # k /\ i # k + 1 => files2[p[i]][b] = files[p[i]][b]
    /\ files[p[k + 1]][b] # Hole => files[p[k]][b] = files[p[k + 1]][b]

\* Folding changes nothing that is read, and Shift moves the location along with
\* the file or forgets it (RemoveIndex).
LEMMA FoldedReads ==
    ASSUME NEW files, NEW files2, NEW p, NEW k, NEW b, Folded(files, files2, p, k, b)
    PROVE  /\ ReadPath(files2, Without(p, k), b) = ReadPath(files, p, b)
           /\ Shift(k, Lookup(files, p, b)) \in {0, Lookup(files2, Without(p, k), b)}
<1>0. /\ p \in Seq(Disk) /\ k \in 1..Len(p) - 1
      /\ files2[p[k + 1]][b] = files[p[k]][b]
      /\ \A i \in 1..Len(p) : i # k /\ i # k + 1 => files2[p[i]][b] = files[p[i]][b]
      /\ files[p[k + 1]][b] # Hole => files[p[k]][b] = files[p[k + 1]][b]
  BY DEF Folded
<1>1. PICK n \in Nat : n = Len(p) /\ n > 0 /\ k \in 1..n - 1
  BY <1>0
<1>2. PICK q : q = Without(p, k)
  OBVIOUS
<1>3. /\ Len(q) = n - 1
      /\ \A i \in 1..n - 1 : /\ i < k => q[i] = p[i]
                             /\ ~ (i < k) => q[i] = p[i + 1]
  BY <1>0, <1>1, <1>2, k \in 1..Len(p), WithoutFacts
<1>4. PICK l : l = Lookup(files, p, b)
  OBVIOUS
<1>5. /\ l \in 1..n /\ \A i \in l + 1..n : files[p[i]][b] = Hole
      /\ l = 1 \/ files[p[l]][b] # Hole
  BY <1>1, <1>4, LookupFacts
<1>6. PICK m : m = IF l > k THEN l - 1 ELSE l
  OBVIOUS
<1>7. m \in 1..n - 1
  BY <1>1, <1>5, <1>6
<1>8. \A i \in 1..n - 1 : /\ i < k => files2[q[i]][b] = files[p[i]][b]
                          /\ i = k => files2[q[i]][b] = files[p[k]][b]
                          /\ i > k => files2[q[i]][b] = files[p[i + 1]][b]
  <2>1. ASSUME NEW i \in 1..n - 1, i < k PROVE files2[q[i]][b] = files[p[i]][b]
    <3>1. i \in 1..Len(p) /\ i # k /\ i # k + 1
      BY <1>1, <2>1
    <3> QED BY <1>0, <1>3, <2>1, <3>1
  <2>2. ASSUME NEW i \in 1..n - 1, i = k PROVE files2[q[i]][b] = files[p[k]][b]
    BY <1>0, <1>1, <1>3, <2>2
  <2>3. ASSUME NEW i \in 1..n - 1, i > k PROVE files2[q[i]][b] = files[p[i + 1]][b]
    <3>1. i + 1 \in 1..Len(p) /\ i + 1 # k /\ i + 1 # k + 1 /\ ~ (i < k)
      BY <1>1, <2>3
    <3> QED BY <1>0, <1>3, <2>3, <3>1
  <2> QED BY <2>1, <2>2, <2>3
<1>9. files2[q[m]][b] = files[p[l]][b]
  <2>1. CASE l < k
    BY <1>1, <1>5, <1>6, <1>7, <1>8, <2>1
  <2>2. CASE l = k
    BY <1>1, <1>5, <1>6, <1>7, <1>8, <2>2
  <2>3. CASE l = k + 1
    <3>1. m = k /\ files[p[k + 1]][b] # Hole
      BY <1>1, <1>5, <1>6, <2>3
    <3> QED BY <1>0, <1>7, <1>8, <2>3, <3>1
  <2>4. CASE l > k + 1
    <3>1. m > k /\ m + 1 = l
      BY <1>1, <1>5, <1>6, <2>4
    <3> QED BY <1>7, <1>8, <3>1
  <2>5. l < k \/ l = k \/ l = k + 1 \/ l > k + 1
    BY <1>1, <1>5
  <2> QED BY <2>1, <2>2, <2>3, <2>4, <2>5
<1>10. ASSUME NEW i \in m + 1..n - 1 PROVE files2[q[i]][b] = Hole
  <2>1. i \in 1..n - 1 /\ i \in Nat
    BY <1>1, <1>7
  <2>2. CASE i < k
    <3>1. i \in l + 1..n
      BY <1>1, <1>5, <1>6, <1>7, <2>1, <2>2
    <3> QED BY <1>5, <1>8, <2>1, <2>2, <3>1
  <2>3. CASE i = k
    <3>1. k \in l + 1..n
      BY <1>1, <1>5, <1>6, <1>7, <2>1, <2>3
    <3> QED BY <1>5, <1>8, <2>1, <2>3, <3>1
  <2>4. CASE i > k
    <3>1. i + 1 \in l + 1..n
      BY <1>1, <1>5, <1>6, <1>7, <2>1, <2>4
    <3> QED BY <1>5, <1>8, <2>1, <2>4, <3>1
  <2>5. i < k \/ i = k \/ i > k
    BY <1>1, <2>1
  <2> QED BY <2>2, <2>3, <2>4, <2>5
<1>11. m = 1 \/ files2[q[m]][b] # Hole
  <2>1. CASE l = 1
    BY <1>1, <1>6, <2>1
  <2>2. CASE files[p[l]][b] # Hole
    BY <1>9, <2>2
  <2> QED BY <1>5, <2>1, <2>2
<1>12. Lookup(files2, q, b) = m
  <2>1. Len(q) \in Nat /\ m \in 1..Len(q)
    BY <1>1, <1>3, <1>7
  <2>2. \A i \in m + 1..Len(q) : files2[q[i]][b] = Hole
    BY <1>3, <1>10
  <2> QED BY <1>11, <2>1, <2>2, LookupIs
<1>13. Shift(k, l) \in {0, m}
  BY <1>1, <1>5, <1>6 DEF Shift
<1> QED BY <1>2, <1>4, <1>9, <1>12, <1>13 DEF ReadPath, Fetch

-----------------------------------------------------------------------------
(* I/O, snapshots and reverts.                                             *)

\* After a step, too, Chain finds the path that there is.
LEMMA PathNext ==
    ASSUME NEW x, NEW p, IsPath(parent', p, x)
    PROVE  Path(x)' = p
BY PathUnique DEF Path

\* Lookups, marks, a change of the setting, a reload and the end of a purge change
\* no data.
LEMMA QuietContents ==
    ASSUME Structure, Contents,
           \/ \E b \in Block : LookupStart(b) \/ LookupEnd(b)
           \/ SetUnmapMarkDiskChainRemoved \/ PurgeEnds \/ Reload
           \/ \E s \in Snap : MarkDiskAsRemoved(s)
           \/ UNCHANGED vars
    PROVE  Contents'
<1> USE DEF dirVars
<1>1. UNCHANGED <<disks, parent, content, chain, vol, shot>>
  BY DEF Structure, ChainIsPath, LookupStart, LookupEnd, SetUnmapMarkDiskChainRemoved,
         PurgeEnds, Reload, MarkDiskAsRemoved, vars
<1>2. removed \subseteq removed' /\ purge' \in {purge, None}
  BY DEF LookupStart, LookupEnd, SetUnmapMarkDiskChainRemoved,
         PurgeEnds, Reload, MarkDiskAsRemoved, vars
<1>3. \A d : Path(d)' = Path(d)
  BY <1>1 DEF Path
<1>4. ChainReads' /\ SnapshotReads'
  BY <1>1, <1>2, <1>3 DEF Contents, ChainReads, SnapshotReads, ReadSnapshot
<1>5. PurgeData'
  <2>1. CASE purge' = None
    BY <2>1 DEF PurgeData
  <2>2. CASE purge' = purge
    BY <1>1, <1>2, <1>3, <2>2 DEF Contents, PurgeData, TodoHidden, Hidden
  <2> QED BY <1>2, <2>1, <2>2
<1> QED BY <1>4, <1>5 DEF Contents

\* A write changes the head alone, which no snapshot reads and no purge punches.
LEMMA WriteContents ==
    ASSUME Structure, Contents, NEW b \in Block, NEW v \in Val, WriteAt(b, v)
    PROVE  Contents'
<1>1. /\ UNCHANGED <<disks, parent, removed, chain, purge, shot>>
      /\ content' = [content EXCEPT ![VolumeHead][b] = v]
      /\ vol' = [vol EXCEPT ![b] = v]
  BY DEF WriteAt
<1>2. /\ chain \in Seq(Disk) /\ Len(chain) \in Nat /\ Len(chain) > 0
      /\ DOMAIN chain = 1..Len(chain) /\ chain[Len(chain)] = VolumeHead
  BY ChainFacts
<1>3. /\ VolumeHead \in Disk /\ VolumeHead \notin disks /\ disks \subseteq Disk
      /\ content \in [Disk -> [Block -> Val \cup {Zero, Hole}]]
      /\ vol \in [Block -> Val \cup {Zero, Undefined}]
      /\ v # Hole
  BY DistinctAssumption DEF Structure, Types, Disk
<1>4. /\ content'[VolumeHead][b] = v
      /\ \A d \in Disk : \A c \in Block :
            d # VolumeHead \/ c # b => content'[d][c] = content[d][c]
      /\ \A c \in Block : c # b => vol'[c] = vol[c]
      /\ vol'[b] = v
  BY <1>1, <1>3
<1>5. \A d : Path(d)' = Path(d)
  BY <1>1 DEF Path
<1>6. \A i \in 1..Len(chain) : chain[i] \in Disk
  BY <1>2, ElementOfSeq
<1>7. ASSUME NEW c \in Block PROVE Matches(vol[c], ReadPath(content, chain, c))'
  <2>1. CASE c = b
    <3>1. Len(chain) \in 1..Len(chain) /\ \A i \in Len(chain) + 1..Len(chain) : FALSE
      BY <1>2
    <3>2. content'[chain[Len(chain)]][b] # Hole
      BY <1>2, <1>3, <1>4
    <3>3. Lookup(content', chain, b) = Len(chain)
      BY <1>2, <3>1, <3>2, LookupIs
    <3> QED BY <1>1, <1>2, <1>3, <1>4, <2>1, <3>3 DEF Matches, ReadPath, Fetch
  <2>2. CASE c # b
    <3>0. \A d \in Disk : content'[d][c] = content[d][c]
      BY <1>4, <2>2
    <3>1. \A i \in 1..Len(chain) : content'[chain[i]][c] = content[chain[i]][c]
      BY <1>6, <3>0
    <3>2. Len(chain) \in Nat /\ Len(chain) > 0
      BY <1>2
    <3>3. ReadPath(content', chain, c) = ReadPath(content, chain, c)
      BY <3>1, <3>2, SameReads
    <3> QED BY <1>1, <1>4, <2>2, <3>3 DEF Matches, Contents, ChainReads
  <2> QED BY <2>1, <2>2
<1>8. ASSUME NEW x \in disks \ removed, NEW c \in Block
      PROVE  ReadPath(content', Path(x), c) = ReadPath(content, Path(x), c)
  <2>1. PICK p : p = Path(x)
    OBVIOUS
  <2>2. Len(p) \in Nat /\ Len(p) > 0 /\ \A i \in 1..Len(p) : p[i] \in disks
    BY <2>1, ChainFacts, PathFacts
  <2>3. \A i \in 1..Len(p) : content'[p[i]][c] = content[p[i]][c]
    BY <1>3, <1>4, <2>2
  <2> QED BY <2>1, <2>2, <2>3, SameReads
<1>9. ChainReads' /\ SnapshotReads'
  <2>1. ChainReads'
    BY <1>7 DEF ChainReads
  <2>2. ASSUME NEW x \in disks' \ removed', NEW c \in Block
        PROVE  Matches(shot[x][c], ReadSnapshot(x, c))'
    <3>1. x \in disks \ removed /\ shot' = shot
      BY <1>1
    <3>2. Matches(shot[x][c], ReadPath(content, Path(x), c))
      BY <3>1 DEF Contents, SnapshotReads, ReadSnapshot
    <3>3. ReadPath(content', Path(x)', c) = ReadPath(content, Path(x), c)
      BY <1>5, <1>8, <3>1
    <3> QED BY <3>1, <3>2, <3>3 DEF Matches, ReadSnapshot
  <2>3. SnapshotReads'
    BY <2>2 DEF SnapshotReads
  <2> QED BY <2>1, <2>3
<1>10. PurgeData'
  <2> SUFFICES ASSUME purge # None, purge.op # "remove" PROVE PurgeData'
    BY <1>1 DEF PurgeData
  <2>0. PurgeShape /\ TodoHidden
    BY DEF Structure, Contents, PurgeData
  <2>1. \A d \in Disk : \A c \in Block : content[d][c] # Hole => content'[d][c] # Hole
    BY <1>3, <1>4
  <2>2. purge.todo \subseteq Block
    BY <2>0 DEF PurgeShape
  <2>3. ASSUME NEW p, NEW c \in Block, \A i \in 1..Len(p) : p[i] \in Disk,
               DOMAIN p = 1..Len(p), Len(p) \in Nat, Hidden(p, purge.s, c)
        PROVE  Hidden(p, purge.s, c)'
    <3>1. ASSUME NEW i \in DOMAIN p, p[i] = purge.s
          PROVE  \E j \in i + 1..Len(p) : content'[p[j]][c] # Hole
      <4>1. PICK j \in i + 1..Len(p) : content[p[j]][c] # Hole
        BY <2>3, <3>1 DEF Hidden
      <4>2. j \in 1..Len(p)
        BY <2>3
      <4> QED BY <2>1, <2>3, <4>1, <4>2
    <3> QED BY <1>1, <3>1 DEF Hidden
  <2>4. ASSUME NEW c \in purge.todo, vol'[c] # Undefined PROVE Hidden(chain, purge.s, c)'
    <3>1. CASE c = b
      <4>1. ASSUME NEW i \in DOMAIN chain, chain[i] = purge.s
            PROVE  \E j \in i + 1..Len(chain) : content'[chain[j]][c] # Hole
        <5>1. purge.s # VolumeHead
          BY <1>3, <2>0 DEF PurgeShape
        <5>2. Len(chain) \in i + 1..Len(chain)
          BY <1>2, <4>1, <5>1
        <5> QED BY <1>2, <1>3, <1>4, <3>1, <5>2
      <4> QED BY <1>1, <4>1 DEF Hidden
    <3>2. CASE c # b
      BY <1>1, <1>2, <1>4, <1>6, <2>0, <2>2, <2>3, <2>4, <3>2 DEF TodoHidden
    <3> QED BY <3>1, <3>2
  <2>5. ASSUME NEW c \in purge.todo, NEW x \in disks \ removed, shot[x][c] # Undefined
        PROVE  Hidden(Path(x), purge.s, c)'
    <3>1. PICK p : p = Path(x)
      OBVIOUS
    <3>2. /\ Len(p) \in Nat /\ DOMAIN p = 1..Len(p) /\ \A i \in 1..Len(p) : p[i] \in disks
      BY <3>1, ChainFacts, PathFacts
    <3>3. Hidden(p, purge.s, c)
      BY <2>0, <2>5, <3>1 DEF TodoHidden
    <3>4. Hidden(p, purge.s, c)'
      BY <1>3, <2>2, <2>3, <3>2, <3>3
    <3> QED BY <1>5, <3>1, <3>4 DEF Hidden
  <2>6. TodoHidden'
    BY <1>1, <2>4, <2>5 DEF TodoHidden
  <2>7. ASSUME purge.op = "coalesce", NEW c \in Block \ purge.todo
        PROVE  content'[purge.t][c] # Hole => content'[purge.s][c] = content'[purge.t][c]
    <3>1. purge.s \in disks /\ purge.t \in disks
      BY <2>0, <2>7 DEF PurgeShape
    <3>2. content[purge.t][c] # Hole => content[purge.s][c] = content[purge.t][c]
      BY <2>7 DEF Contents, PurgeData
    <3> QED BY <1>3, <1>4, <3>1, <3>2
  <2> QED BY <1>1, <2>6, <2>7 DEF PurgeData
<1> QED BY <1>9, <1>10 DEF Contents

\* A new snapshot reads what the volume read, and the locations stay true.
LEMMA SnapshotContents ==
    ASSUME Structure, Contents, NEW s \in Snap, Snapshot(s)
    PROVE  /\ Contents'
           /\ \A b \in Block : Lookup(content', chain', b) = Lookup(content, chain, b)
<1>1. /\ disks' = disks \cup {s} /\ s \notin disks
      /\ UNCHANGED <<removed, purge, vol>>
      /\ shot' = [shot EXCEPT ![s] = vol]
      /\ content' = [content EXCEPT ![s] = content[VolumeHead], ![VolumeHead] = Empty]
  BY DEF Snapshot
<1>2. /\ VolumeHead \in Disk /\ VolumeHead \notin disks /\ disks \subseteq Disk
      /\ s \in Disk /\ s # VolumeHead
      /\ content \in [Disk -> [Block -> Val \cup {Zero, Hole}]]
      /\ shot \in [Snap -> [Block -> Val \cup {Zero, Undefined}]]
      /\ disks \subseteq Snap /\ removed \subseteq disks
  BY DistinctAssumption DEF Structure, Types, Disk
<1>3. /\ \A d \in disks : content'[d] = content[d]
      /\ content'[s] = content[VolumeHead]
      /\ \A c \in Block : content'[VolumeHead][c] = Hole
      /\ \A d \in disks : shot'[d] = shot[d]
      /\ shot'[s] = vol
  BY <1>1, <1>2 DEF Empty
<1>4. PICK q \in Seq(Disk) :
               /\ Len(q) = Len(chain) /\ q[Len(q)] = s
               /\ \A i \in 1..Len(chain) - 1 : q[i] = chain[i]
               /\ IsPath(parent', q, s)
               /\ chain' = q \o <<VolumeHead>>
               /\ \A d \in disks : IsPath(parent', Path(d), d)
  BY SnapshotPaths
<1>5. /\ chain \in Seq(Disk) /\ Len(chain) \in Nat /\ Len(chain) > 0
      /\ DOMAIN chain = 1..Len(chain) /\ chain[Len(chain)] = VolumeHead
      /\ \A i \in 1..Len(chain) - 1 : chain[i] \in disks
  BY ChainFacts
<1>6. PICK n \in Nat : n = Len(chain) /\ n > 0
  BY <1>5
<1>7. Path(s)' = q /\ \A d \in disks : Path(d)' = Path(d)
  BY <1>4, PathNext
<1>8. \A i \in 1..n : content'[q[i]] = content[chain[i]]
  <2>1. ASSUME NEW i \in 1..n PROVE content'[q[i]] = content[chain[i]]
    <3>1. CASE i = n
      BY <1>3, <1>4, <1>5, <1>6, <3>1
    <3>2. CASE i \in 1..n - 1
      BY <1>3, <1>4, <1>5, <1>6, <3>2
    <3>3. i = n \/ i \in 1..n - 1
      BY <1>6
    <3> QED BY <3>1, <3>2, <3>3
  <2> QED BY <2>1
<1>9. ASSUME NEW b \in Block
      PROVE  /\ Lookup(content', chain', b) = Lookup(content, chain, b)
             /\ ReadPath(content', chain', b) = ReadPath(content, chain, b)
             /\ ReadPath(content', q, b) = ReadPath(content, chain, b)
  <2>1. SameFiles(content, chain, content', q, b)
    BY <1>4, <1>5, <1>6, <1>8 DEF SameFiles
  <2>2. ReadPath(content', q, b) = ReadPath(content, chain, b)
    BY <2>1, SameFilesRead
  <2>3. /\ Lookup(content', q \o <<VolumeHead>>, b) = Lookup(content, chain, b)
        /\ ReadPath(content', q \o <<VolumeHead>>, b) = ReadPath(content, chain, b)
    <3>1. /\ content'[VolumeHead][b] = Hole
          /\ q \in Seq(Disk) /\ chain \in Seq(Disk) /\ VolumeHead \in Disk
      BY <1>2, <1>3, <1>4, <1>5
    <3>2. OnTop(content, chain, content', q, VolumeHead, b)
      BY <2>1, <3>1 DEF OnTop
    <3> QED BY <3>2, EmptyOnTop
  <2> QED BY <1>4, <2>2, <2>3
<1>10. ASSUME NEW x \in disks, NEW b \in Block
       PROVE  ReadPath(content', Path(x), b) = ReadPath(content, Path(x), b)
  <2>1. PICK p : p = Path(x)
    OBVIOUS
  <2>2. Len(p) \in Nat /\ Len(p) > 0 /\ \A i \in 1..Len(p) : p[i] \in disks
    BY <2>1, ChainFacts, PathFacts
  <2>3. SameFiles(content, p, content', p, b)
    BY <1>3, <2>2 DEF SameFiles
  <2> QED BY <2>1, <2>3, SameFilesRead
<1>11. ChainReads'
  BY <1>1, <1>9 DEF ChainReads, Contents
<1>12. SnapshotReads'
  <2>1. ASSUME NEW x \in (disks \ removed)', NEW b \in Block
        PROVE  Matches(shot'[x][b], ReadPath(content', Path(x)', b))
    <3>1. CASE x = s
      <4>1. shot'[x][b] = vol[b] /\ ReadPath(content', Path(x)', b) = ReadPath(content, chain, b)
        BY <1>3, <1>7, <1>9, <3>1
      <4> QED BY <4>1 DEF Contents, ChainReads
    <3>2. CASE x \in disks \ removed
      <4>1. shot'[x] = shot[x] /\ ReadPath(content', Path(x)', b) = ReadPath(content, Path(x), b)
        BY <1>3, <1>7, <1>10, <3>2
      <4> QED BY <3>2, <4>1 DEF Contents, SnapshotReads, ReadSnapshot
    <3> QED BY <1>1, <3>1, <3>2
  <2> QED BY <2>1 DEF SnapshotReads, ReadSnapshot, Matches
<1>13. PurgeData'
  <2> SUFFICES ASSUME purge # None, purge.op # "remove" PROVE PurgeData'
    BY <1>1 DEF PurgeData
  <2>0. PurgeShape /\ TodoHidden
    BY DEF Structure, Contents, PurgeData
  <2>1. PICK u : u = purge.s /\ u \in disks /\ purge.todo \subseteq Block
    BY <2>0 DEF PurgeShape
  <2>2. ASSUME NEW c \in purge.todo, vol[c] # Undefined
        PROVE  Hidden(q, u, c)' /\ Hidden(chain, u, c)'
    <3>1. ASSUME NEW i \in 1..n, q[i] = u
          PROVE  \E j \in i + 1..n : content'[q[j]][c] # Hole
      <4>1. chain[i] = u
        <5>1. i # n
          BY <1>1, <1>4, <1>6, <2>1, <3>1
        <5>2. i \in 1..n - 1
          BY <5>1, <1>6
        <5> QED BY <1>4, <1>6, <3>1, <5>2
      <4>2. PICK j \in i + 1..n : content[chain[j]][c] # Hole
        BY <1>5, <1>6, <2>0, <2>1, <2>2, <4>1 DEF TodoHidden, Hidden
      <4>3. j \in 1..n
        BY <1>6
      <4> QED BY <1>8, <4>2, <4>3
    <3>2. DOMAIN q = 1..n /\ Len(q) = n
      BY <1>4, <1>6
    <3>3. Hidden(q, u, c)'
      BY <3>1, <3>2 DEF Hidden
    <3>4. PICK r : r = chain'
      OBVIOUS
    <3>5. /\ DOMAIN r = 1..n + 1 /\ Len(r) = n + 1 /\ r[n + 1] = VolumeHead
          /\ \A i \in 1..n : r[i] = q[i]
      <4>1. /\ q \in Seq(Disk) /\ Len(q) = n /\ n \in Nat /\ VolumeHead \in Disk
            /\ r = q \o <<VolumeHead>>
        BY <1>2, <1>4, <1>6, <3>4
      <4> QED BY <4>1
    <3>6. ASSUME NEW i \in 1..n + 1, r[i] = u
          PROVE  \E j \in i + 1..n + 1 : content'[r[j]][c] # Hole
      <4>1. i # n + 1
        BY <1>2, <2>1, <3>5, <3>6
      <4>2. i \in 1..n
        BY <1>6, <4>1
      <4>3. PICK j \in i + 1..n : content'[q[j]][c] # Hole
        BY <3>1, <3>5, <3>6, <4>2
      <4>4. j \in 1..n /\ j \in i + 1..n + 1
        BY <1>6, <4>2
      <4> QED BY <3>5, <4>3, <4>4
    <3>7. Hidden(chain, u, c)'
      BY <3>4, <3>5, <3>6 DEF Hidden
    <3> QED BY <3>3, <3>7
  <2>3. ASSUME NEW c \in purge.todo, NEW x \in disks \ removed, shot[x][c] # Undefined
        PROVE  Hidden(Path(x), u, c)'
    <3>1. PICK p : p = Path(x)
      OBVIOUS
    <3>2. /\ Len(p) \in Nat /\ DOMAIN p = 1..Len(p) /\ \A i \in 1..Len(p) : p[i] \in disks
      BY <3>1, ChainFacts, PathFacts
    <3>3. Hidden(p, u, c)
      BY <2>0, <2>1, <2>3, <3>1 DEF TodoHidden
    <3>4. ASSUME NEW i \in 1..Len(p), p[i] = u
          PROVE  \E j \in i + 1..Len(p) : content'[p[j]][c] # Hole
      <4>1. PICK j \in i + 1..Len(p) : content[p[j]][c] # Hole
        BY <3>2, <3>3, <3>4 DEF Hidden
      <4>2. j \in 1..Len(p)
        BY <3>2
      <4> QED BY <1>3, <3>2, <4>1, <4>2
    <3>5. Path(x)' = p
      BY <1>7, <3>1
    <3> QED BY <3>2, <3>4, <3>5 DEF Hidden
  <2>4. TodoHidden'
    <3>1. \A c \in purge.todo : vol[c] # Undefined => Hidden(chain, u, c)'
      BY <2>2
    <3>2. \A c \in purge.todo, x \in (disks \ removed)' :
             shot'[x][c] # Undefined => Hidden(Path(x), u, c)'
      <4>1. ASSUME NEW c \in purge.todo, NEW x \in (disks \ removed)', shot'[x][c] # Undefined
            PROVE  Hidden(Path(x), u, c)'
        <5>1. CASE x = s
          <6>1. Hidden(q, u, c)'
            BY <1>3, <2>2, <4>1, <5>1
          <6> QED BY <1>7, <5>1, <6>1 DEF Hidden
        <5>2. CASE x \in disks \ removed
          BY <1>3, <2>3, <4>1, <5>2
        <5> QED BY <1>1, <5>1, <5>2
      <4> QED BY <4>1
    <3> QED BY <1>1, <2>1, <3>1, <3>2 DEF TodoHidden
  <2>5. ASSUME purge.op = "coalesce", NEW c \in Block \ purge.todo
        PROVE  content'[purge.t][c] # Hole => content'[purge.s][c] = content'[purge.t][c]
    <3>1. purge.s \in disks /\ purge.t \in disks
      BY <2>0, <2>5 DEF PurgeShape
    <3>2. content[purge.t][c] # Hole => content[purge.s][c] = content[purge.t][c]
      BY <2>5 DEF Contents, PurgeData
    <3> QED BY <1>3, <3>1, <3>2
  <2> QED BY <1>1, <2>4, <2>5 DEF PurgeData
<1> QED BY <1>9, <1>11, <1>12, <1>13 DEF Contents

\* After a revert the volume reads what the snapshot read.
LEMMA RevertContents ==
    ASSUME Structure, Contents, NEW s \in Snap, Revert(s)
    PROVE  Contents'
<1>1. /\ s \in disks \ removed
      /\ content' = [content EXCEPT ![VolumeHead] = Empty]
      /\ chain' = Path(s) \o <<VolumeHead>>
      /\ vol' = shot[s]
      /\ UNCHANGED <<disks, removed, purge, shot>>
  BY DEF Revert, CanRevert
<1>2. /\ VolumeHead \in Disk /\ VolumeHead \notin disks /\ disks \subseteq Disk
      /\ content \in [Disk -> [Block -> Val \cup {Zero, Hole}]]
  BY DistinctAssumption DEF Structure, Types, Disk
<1>3. /\ \A d \in disks : content'[d] = content[d]
      /\ \A c \in Block : content'[VolumeHead][c] = Hole
  BY <1>1, <1>2 DEF Empty
<1>4. \A d \in disks : Path(d)' = Path(d)
  BY RevertShape, PathNext
<1>5. ASSUME NEW x \in disks
      PROVE  /\ Path(x) \in Seq(Disk) /\ Len(Path(x)) \in Nat /\ Len(Path(x)) > 0
             /\ DOMAIN Path(x) = 1..Len(Path(x))
             /\ \A i \in 1..Len(Path(x)) : Path(x)[i] \in disks
  BY ChainFacts, PathFacts
<1>6. ASSUME NEW x \in disks, NEW b \in Block
      PROVE  SameFiles(content, Path(x), content', Path(x), b)
  BY <1>3, <1>5 DEF SameFiles
<1>7. ChainReads'
  <2>1. ASSUME NEW b \in Block PROVE Matches(vol'[b], ReadPath(content', chain', b))
    <3>1. /\ content'[VolumeHead][b] = Hole /\ Path(s) \in Seq(Disk) /\ VolumeHead \in Disk
          /\ SameFiles(content, Path(s), content', Path(s), b)
      BY <1>1, <1>2, <1>3, <1>5, <1>6
    <3>2. ReadPath(content', Path(s) \o <<VolumeHead>>, b) = ReadPath(content, Path(s), b)
      <4>1. OnTop(content, Path(s), content', Path(s), VolumeHead, b)
        BY <3>1 DEF OnTop
      <4> QED BY <4>1, EmptyOnTop
    <3>3. Matches(shot[s][b], ReadPath(content, Path(s), b))
      BY <1>1 DEF Contents, SnapshotReads, ReadSnapshot
    <3> QED BY <1>1, <3>2, <3>3
  <2> QED BY <2>1 DEF ChainReads, Matches
<1>8. SnapshotReads'
  <2>1. ASSUME NEW x \in disks \ removed, NEW b \in Block
        PROVE  Matches(shot[x][b], ReadPath(content', Path(x)', b))
    <3>1. ReadPath(content', Path(x)', b) = ReadPath(content, Path(x), b)
      BY <1>4, <1>6, SameFilesRead
    <3> QED BY <3>1 DEF Contents, SnapshotReads, ReadSnapshot
  <2> QED BY <1>1, <2>1 DEF SnapshotReads, ReadSnapshot, Matches
<1>9. PurgeData'
  <2> SUFFICES ASSUME purge # None, purge.op # "remove" PROVE PurgeData'
    BY <1>1 DEF PurgeData
  <2>0. PurgeShape /\ TodoHidden
    BY DEF Structure, Contents, PurgeData
  <2>1. PICK u : u = purge.s /\ u \in disks /\ purge.todo \subseteq Block
    BY <2>0 DEF PurgeShape
  <2>2. ASSUME NEW c \in purge.todo, NEW x \in disks \ removed, shot[x][c] # Undefined,
               NEW i \in 1..Len(Path(x)), Path(x)[i] = u
        PROVE  \E j \in i + 1..Len(Path(x)) : content'[Path(x)[j]][c] # Hole
    <3>1. PICK p : p = Path(x)
      OBVIOUS
    <3>2. Len(p) \in Nat /\ DOMAIN p = 1..Len(p) /\ \A k \in 1..Len(p) : p[k] \in disks
      BY <1>5, <3>1
    <3>3. Hidden(p, u, c)
      BY <2>0, <2>1, <2>2, <3>1 DEF TodoHidden
    <3>4. PICK j \in i + 1..Len(p) : content[p[j]][c] # Hole
      BY <2>2, <3>1, <3>2, <3>3 DEF Hidden
    <3>5. j \in 1..Len(p)
      BY <3>1, <3>2
    <3> QED BY <1>3, <3>1, <3>2, <3>4, <3>5
  <2>3. ASSUME NEW c \in purge.todo, NEW x \in disks \ removed, shot[x][c] # Undefined
        PROVE  Hidden(Path(x), u, c)'
    <3>1. Path(x)' = Path(x) /\ DOMAIN Path(x) = 1..Len(Path(x))
      BY <1>4, <1>5
    <3> QED BY <2>2, <2>3, <3>1 DEF Hidden
  <2>4. ASSUME NEW c \in purge.todo, vol'[c] # Undefined
        PROVE  Hidden(chain, u, c)'
    <3>1. PICK p, r, n : p = Path(s) /\ r = chain' /\ n = Len(p)
      OBVIOUS
    <3>2. /\ p \in Seq(Disk) /\ n \in Nat /\ r = p \o <<VolumeHead>> /\ n = Len(p)
          /\ VolumeHead \in Disk
      BY <1>1, <1>2, <1>5, <3>1
    <3>3. /\ Len(r) = n + 1 /\ DOMAIN r = 1..n + 1 /\ r[n + 1] = VolumeHead
          /\ \A i \in 1..n : r[i] = p[i]
      BY <3>2
    <3>4. ASSUME NEW i \in 1..n + 1, r[i] = u
          PROVE  \E j \in i + 1..n + 1 : content'[r[j]][c] # Hole
      <4>1. i # n + 1
        BY <1>2, <2>1, <3>3, <3>4
      <4>2. i \in 1..n
        BY <3>2, <4>1
      <4>3. PICK j \in i + 1..n : content'[p[j]][c] # Hole
        <5>1. /\ s \in disks \ removed /\ shot[s][c] # Undefined
              /\ i \in 1..Len(Path(s)) /\ Path(s)[i] = u
          BY <1>1, <2>4, <3>1, <3>3, <3>4, <4>2
        <5>2. \E j \in i + 1..Len(Path(s)) : content'[Path(s)[j]][c] # Hole
          BY <2>2, <5>1
        <5> QED BY <3>1, <5>2
      <4>4. j \in 1..n /\ j \in i + 1..n + 1
        BY <3>2, <4>2
      <4> QED BY <3>3, <4>3, <4>4
    <3> QED BY <3>1, <3>3, <3>4 DEF Hidden
  <2>5. TodoHidden'
    BY <1>1, <2>1, <2>3, <2>4 DEF TodoHidden
  <2>6. ASSUME purge.op = "coalesce", NEW c \in Block \ purge.todo
        PROVE  content'[purge.t][c] # Hole => content'[purge.s][c] = content'[purge.t][c]
    <3>1. purge.s \in disks /\ purge.t \in disks
      BY <2>0, <2>6 DEF PurgeShape
    <3>2. content[purge.t][c] # Hole => content[purge.s][c] = content[purge.t][c]
      BY <2>6 DEF Contents, PurgeData
    <3> QED BY <1>3, <3>1, <3>2
  <2> QED BY <1>1, <2>5, <2>6 DEF PurgeData
<1> QED BY <1>7, <1>8, <1>9 DEF Contents

=============================================================================
