-------------------------- MODULE DiskChainProofs ---------------------------
(***************************************************************************)
(* The volume reads what was written to it and a snapshot what it was taken*)
(* from: proved for any set of snapshots, sectors and values.              *)
(***************************************************************************)
EXTENDS DiskReadProofs

\* Zenon first: encoding a leaf for the SMT solver is what costs.  The limits leave
\* room for a busy machine.
USE ZenonT(3), SMTT(60), ZenonT(60)

-----------------------------------------------------------------------------
(* Purge.                                                                  *)

\* What a purge sets out to change lies below the only child of the disk, on every
\* path but its own; and its own is no longer read, as it is removed.
LEMMA PrepareContents ==
    ASSUME Structure, Contents, NEW s \in Snap, PrepareRemoveDisk(s)
    PROVE  Contents'
<1>1. /\ s \in disks \cap removed
      /\ UNCHANGED <<disks, parent, removed, content, chain, vol, shot>>
  BY DEF PrepareRemoveDisk, dirVars
<1>2. \A d : Path(d)' = Path(d)
  BY <1>1 DEF Path
<1>3. ChainReads' /\ SnapshotReads'
  BY <1>1, <1>2 DEF Contents, ChainReads, SnapshotReads, ReadSnapshot
<1>4. ASSUME NEW e, Children(s) = {e}, NEW d \in disks \cup {VolumeHead}, d # s,
             NEW c \in Block, content[e][c] # Hole
      PROVE  Hidden(Path(d), s, c)
  <2>1. PICK p : p = Path(d)
    OBVIOUS
  <2>2. /\ Len(p) \in Nat /\ DOMAIN p = 1..Len(p) /\ p[Len(p)] = d
        /\ \A i \in 1..Len(p) - 1 : p[i + 1] \in Children(p[i])
    BY <2>1, PathsFacts
  <2>3. ASSUME NEW i \in 1..Len(p), p[i] = s
        PROVE  \E j \in i + 1..Len(p) : content[p[j]][c] # Hole
    <3>1. i \in 1..Len(p) - 1 /\ i + 1 \in i + 1..Len(p)
      BY <1>4, <2>2, <2>3
    <3>2. p[i + 1] = e
      BY <1>4, <2>2, <2>3, <3>1
    <3> QED BY <1>4, <3>1, <3>2
  <2> QED BY <2>1, <2>2, <2>3 DEF Hidden
<1>5. ASSUME NEW e, Children(s) = {e}, purge'.s = s,
             purge'.todo = {c \in Block : content[e][c] # Hole}
      PROVE  TodoHidden'
  <2>1. ASSUME NEW c \in purge'.todo
        PROVE  Hidden(chain, s, c) /\ \A x \in disks \ removed : Hidden(Path(x), s, c)
    <3>1. c \in Block /\ content[e][c] # Hole
      BY <1>5
    <3>2. s # VolumeHead /\ chain = Path(VolumeHead)
      BY DistinctAssumption DEF Structure, ChainIsPath
    <3>3. Hidden(chain, s, c)
      BY <1>4, <1>5, <3>1, <3>2
    <3>4. \A x \in disks \ removed : Hidden(Path(x), s, c)
      BY <1>1, <1>4, <1>5, <3>1
    <3> QED BY <3>3, <3>4
  <2> QED BY <1>1, <1>2, <1>5, <2>1 DEF TodoHidden, Hidden
<1>6. CASE purge' = [op |-> "remove", s |-> s]
  BY <1>3, <1>6 DEF Contents, PurgeData
<1>7. CASE /\ Children(s) = {VolumeHead}
           /\ purge' = [op |-> "prune", s |-> s,
                        todo |-> {c \in Block : content[VolumeHead][c] # Hole}]
  <2>1. TodoHidden'
    BY <1>5, <1>7
  <2> QED BY <1>3, <1>7, <2>1 DEF Contents, PurgeData
<1>8. ASSUME NEW t \in disks, Children(s) = {t},
             purge' = [op |-> "coalesce", s |-> s, t |-> t,
                       todo |-> {c \in Block : content[t][c] # Hole}]
      PROVE  Contents'
  <2>1. TodoHidden'
    BY <1>5, <1>8
  <2>2. \A c \in Block \ purge'.todo : content'[purge'.t][c] = Hole
    BY <1>1, <1>8
  <2> QED BY <1>3, <2>1, <2>2 DEF Contents, PurgeData
<1> QED BY <1>6, <1>7, <1>8 DEF PrepareRemoveDisk

\* PruneFile and FoldFile change what is covered, and keep the rest covered.
LEMMA PurgeStepContents ==
    ASSUME Structure, Contents, NEW b \in Block, PruneFile(b) \/ FoldFile(b)
    PROVE  /\ Contents'
           /\ \A c \in Block : vol[c] # Undefined =>
                 Lookup(content', chain, c) = Lookup(content, chain, c)
<1>1. /\ purge # None /\ purge.op # "remove" /\ b \in purge.todo
      /\ UNCHANGED <<disks, parent, removed, chain, vol, shot>>
      /\ purge' = [purge EXCEPT !.todo = @ \ {b}]
      /\ \E v : content' = [content EXCEPT ![purge.s][b] = v]
  BY DEF PruneFile, FoldFile
<1>2. PurgeShape /\ TodoHidden
  BY <1>1 DEF Structure, Contents, PurgeData
<1>3. PICK u : u = purge.s /\ u \in disks /\ purge.todo \subseteq Block
  BY <1>1, <1>2 DEF PurgeShape
<1>4. /\ content \in [Disk -> [Block -> Val \cup {Zero, Hole}]] /\ disks \subseteq Disk
  BY DEF Structure, Types, Disk
<1>5. \A d \in Disk : \A c \in Block : d # u \/ c # b => content'[d][c] = content[d][c]
  BY <1>1, <1>3, <1>4
<1>6. \A d : Path(d)' = Path(d)
  BY <1>1 DEF Path
<1>7. ASSUME NEW d \in disks \cup {VolumeHead}, NEW c \in Block,
             c = b => Hidden(Path(d), u, b)
      PROVE  /\ Lookup(content', Path(d), c) = Lookup(content, Path(d), c)
             /\ ReadPath(content', Path(d), c) = ReadPath(content, Path(d), c)
  <2>1. PICK p : p = Path(d)
    OBVIOUS
  <2>2. p \in Seq(Disk) /\ Len(p) \in Nat /\ Len(p) > 0 /\ DOMAIN p = 1..Len(p)
    BY <2>1, PathsFacts
  <2>3. \A i \in 1..Len(p) : p[i] \in Disk
    BY <2>2, ElementOfSeq
  <2>4. CASE c # b
    <3>1. SameFiles(content, p, content', p, c)
      BY <1>5, <2>2, <2>3, <2>4 DEF SameFiles
    <3> QED BY <2>1, <3>1, SameFilesRead
  <2>5. CASE c = b
    <3>1. \A i \in 1..Len(p) : p[i] # u => content'[p[i]][b] = content[p[i]][b]
      BY <1>5, <2>3
    <3>2. \A i \in 1..Len(p) : p[i] = u => \E j \in i + 1..Len(p) : content[p[j]][b] # Hole
      BY <1>7, <2>1, <2>2, <2>5 DEF Hidden
    <3>a. Covered(content, content', p, u, b)
      BY <2>2, <3>1, <3>2 DEF Covered
    <3>3. /\ Lookup(content', p, b) = Lookup(content, p, b)
          /\ ReadPath(content', p, b) = ReadPath(content, p, b)
      BY <3>a, CoveredReads
    <3> QED BY <2>1, <2>5, <3>3
  <2> QED BY <2>4, <2>5
<1>8. ASSUME NEW c \in Block, vol[c] # Undefined
      PROVE  /\ Lookup(content', chain, c) = Lookup(content, chain, c)
             /\ ReadPath(content', chain, c) = ReadPath(content, chain, c)
  <2>1. c = b => Hidden(chain, u, b)
    BY <1>1, <1>2, <1>3, <1>8 DEF TodoHidden
  <2> QED BY <1>7, <2>1 DEF Structure, ChainIsPath
<1>9. ChainReads'
  BY <1>1, <1>8 DEF Contents, ChainReads, Matches
<1>10. SnapshotReads'
  <2>1. ASSUME NEW x \in disks \ removed, NEW c \in Block
        PROVE  Matches(shot[x][c], ReadPath(content', Path(x), c))
    <3>1. CASE shot[x][c] = Undefined
      BY <3>1 DEF Matches
    <3>2. CASE shot[x][c] # Undefined
      <4>1. c = b => Hidden(Path(x), u, b)
        BY <1>1, <1>2, <1>3, <3>2 DEF TodoHidden
      <4>2. ReadPath(content', Path(x), c) = ReadPath(content, Path(x), c)
        BY <1>7, <4>1
      <4> QED BY <4>2 DEF Contents, SnapshotReads, ReadSnapshot
    <3> QED BY <3>1, <3>2
  <2> QED BY <1>1, <1>6, <2>1 DEF SnapshotReads, ReadSnapshot, Matches
<1>11. /\ purge'.s = u /\ purge'.todo = purge.todo \ {b} /\ purge'.op = purge.op
       /\ purge.op = "coalesce" => purge'.t = purge.t
  <2>1. CASE purge \in [op : {"prune"}, s : Snap, todo : SUBSET Block]
    BY <1>1, <1>3, <2>1
  <2>2. CASE purge \in [op : {"coalesce"}, s : Snap, t : Snap, todo : SUBSET Block]
    BY <1>1, <1>3, <2>2
  <2> QED BY <1>1, <1>2, <2>1, <2>2 DEF PurgeShape
<1>12. ASSUME NEW d \in disks \cup {VolumeHead}, NEW c \in Block, c # b, Hidden(Path(d), u, c)
       PROVE  Hidden(Path(d), u, c)'
  <2>1. PICK p : p = Path(d)
    OBVIOUS
  <2>2. p \in Seq(Disk) /\ Len(p) \in Nat /\ DOMAIN p = 1..Len(p)
    BY <2>1, PathsFacts
  <2>3. \A i \in 1..Len(p) : p[i] \in Disk
    BY <2>2, ElementOfSeq
  <2>4. ASSUME NEW i \in 1..Len(p), p[i] = u
        PROVE  \E j \in i + 1..Len(p) : content'[p[j]][c] # Hole
    <3>1. PICK j \in i + 1..Len(p) : content[p[j]][c] # Hole
      BY <1>12, <2>1, <2>2, <2>4 DEF Hidden
    <3>2. j \in 1..Len(p)
      BY <2>2
    <3> QED BY <1>5, <1>12, <2>3, <3>1, <3>2
  <2>5. Path(d)' = p
    BY <1>6, <2>1
  <2> QED BY <2>2, <2>4, <2>5 DEF Hidden
<1>13. TodoHidden'
  <2>1. ASSUME NEW c \in purge.todo \ {b}, vol[c] # Undefined PROVE Hidden(chain, u, c)'
    <3>1. chain = Path(VolumeHead) /\ chain' = Path(VolumeHead)'
      BY <1>1, <1>6 DEF Structure, ChainIsPath
    <3>2. Hidden(chain, u, c)
      BY <1>2, <1>3, <2>1 DEF TodoHidden
    <3>3. Hidden(Path(VolumeHead), u, c)'
      BY <1>3, <1>12, <2>1, <3>1, <3>2
    <3> QED BY <3>1, <3>3 DEF Hidden
  <2>2. ASSUME NEW c \in purge.todo \ {b}, NEW x \in disks \ removed, shot[x][c] # Undefined
        PROVE  Hidden(Path(x), u, c)'
    <3>1. Hidden(Path(x), u, c)
      BY <1>2, <1>3, <2>2 DEF TodoHidden
    <3> QED BY <1>3, <1>12, <2>2, <3>1
  <2> QED BY <1>1, <1>11, <2>1, <2>2 DEF TodoHidden
<1>14. ASSUME purge.op = "coalesce", NEW c \in Block \ purge'.todo
       PROVE  content'[purge.t][c] # Hole => content'[u][c] = content'[purge.t][c]
  <2>1. purge.t \in disks /\ purge.t # u /\ FoldFile(b)
    <3>1. purge.t \in disks /\ purge.t \in Children(u)
      BY <1>1, <1>2, <1>3, <1>14 DEF PurgeShape
    <3>2. purge.t # u
      BY <1>3, <3>1, NotOwnParent DEF Children
    <3> QED BY <1>14, <3>1, <3>2 DEF PruneFile
  <2>2. CASE c = b
    BY <1>3, <1>4, <2>1, <2>2 DEF FoldFile
  <2>3. CASE c # b
    <3>1. content[purge.t][c] # Hole => content[u][c] = content[purge.t][c]
      BY <1>1, <1>3, <1>11, <1>14, <2>3 DEF Contents, PurgeData
    <3> QED BY <1>3, <1>4, <1>5, <2>1, <2>3, <3>1
  <2> QED BY <2>2, <2>3
<1>15. PurgeData'
  BY <1>11, <1>13, <1>14 DEF PurgeData
<1> QED BY <1>8, <1>9, <1>10, <1>15 DEF Contents

\* ReplaceDisk: once all is folded the child may be replaced by the disk below it.
LEMMA ReplaceContents ==
    ASSUME Structure, Contents, ReplaceDisk
    PROVE  /\ Contents'
           /\ \A b \in Block :
                 \/ loc'[b] = loc[b] /\ Lookup(content', chain', b) = Lookup(content, chain, b)
                 \/ loc[b] = Lookup(content, chain, b) =>
                       loc'[b] \in {0, Lookup(content', chain', b)}
<1>1. PICK s, t : s = purge.s /\ t = purge.t
  OBVIOUS
<1>2. /\ s \in disks \cap removed /\ t \in disks /\ s # t
      /\ disks' = disks \ {s} /\ removed' = removed \ {s}
      /\ content' = [content EXCEPT ![t] = content[s], ![s] = Empty]
      /\ shot' = [shot EXCEPT ![s] = [b \in Block |-> Undefined]]
      /\ vol' = vol /\ purge' = None
      /\ purge # None /\ purge.op = "coalesce" /\ purge.todo = {}
  BY <1>1, ReplacePaths DEF ReplaceDisk, RemoveDiskNode
<1>3. /\ disks \subseteq Snap /\ disks \subseteq Disk /\ s # VolumeHead
      /\ content \in [Disk -> [Block -> Val \cup {Zero, Hole}]]
      /\ shot \in [Snap -> [Block -> Val \cup {Zero, Undefined}]]
  BY <1>2, DistinctAssumption DEF Structure, Types, Disk
<1>4. /\ content'[t] = content[s]
      /\ \A d \in Disk : d # s /\ d # t => content'[d] = content[d]
      /\ \A b \in Block : content[t][b] # Hole => content[s][b] = content[t][b]
  BY <1>1, <1>2, <1>3 DEF Contents, PurgeData
<1>5. ASSUME NEW d \in (disks \cup {VolumeHead}) \ {s}
      PROVE  /\ ~ Passes(Path(d), s) =>
                   /\ IsPath(parent', Path(d), d)
                   /\ \A b \in Block : SameFiles(content, Path(d), content', Path(d), b)
             /\ \A k \in DOMAIN Path(d) : Path(d)[k] = s =>
                   /\ IsPath(parent', Without(Path(d), k), d)
                   /\ \A b \in Block : Folded(content, content', Path(d), k, b)
  <2>1. PICK p : p = Path(d)
    OBVIOUS
  <2>2. /\ p \in Seq(Disk) /\ Len(p) \in Nat /\ Len(p) > 0 /\ DOMAIN p = 1..Len(p)
        /\ \A i, j \in 1..Len(p) : p[i] = p[j] => i = j
    <3>1. d \in disks \cup {VolumeHead}
      OBVIOUS
    <3> QED BY <2>1, <3>1, PathsFacts
  <2>3. \A i \in 1..Len(p) : p[i] \in Disk
    BY <2>2, ElementOfSeq
  <2>4. ASSUME ~ Passes(p, s)
        PROVE  /\ IsPath(parent', p, d)
               /\ \A b \in Block : SameFiles(content, p, content', p, b)
    <3>1. IsPath(parent', p, d) /\ ~ Passes(p, t)
      BY <1>1, <2>1, <2>4, ReplacePaths
    <3>2. \A i \in 1..Len(p) : content'[p[i]] = content[p[i]]
      BY <1>4, <2>2, <2>3, <2>4, <3>1 DEF Passes
    <3> QED BY <2>2, <3>1, <3>2 DEF SameFiles
  <2>5. ASSUME NEW k \in 1..Len(p), p[k] = s
        PROVE  /\ IsPath(parent', Without(p, k), d)
               /\ \A b \in Block : Folded(content, content', p, k, b)
    <3>1. /\ k \in 1..Len(p) - 1 /\ p[k + 1] = t
          /\ IsPath(parent', Without(p, k), d)
      BY <1>1, <2>1, <2>2, <2>5, ReplacePaths
    <3>2. k + 1 \in 1..Len(p)
      BY <2>2, <3>1
    <3>3. \A i \in 1..Len(p) : i # k /\ i # k + 1 => content'[p[i]] = content[p[i]]
      BY <1>4, <2>2, <2>3, <2>5, <3>1, <3>2
    <3> QED BY <1>4, <2>2, <2>5, <3>1, <3>3 DEF Folded
  <2> QED BY <2>1, <2>2, <2>4, <2>5
<1>6. ASSUME NEW d \in (disks \cup {VolumeHead}) \ {s}, NEW b \in Block
      PROVE  ReadPath(content', Path(d)', b) = ReadPath(content, Path(d), b)
  <2>1. CASE ~ Passes(Path(d), s)
    <3>1. Path(d)' = Path(d)
      BY <1>5, <2>1, PathNext
    <3>2. SameFiles(content, Path(d), content', Path(d), b)
      BY <1>5, <2>1
    <3> QED BY <3>1, <3>2, SameFilesRead
  <2>2. CASE Passes(Path(d), s)
    <3>1. PICK k \in DOMAIN Path(d) : Path(d)[k] = s
      BY <2>2 DEF Passes
    <3>2. Path(d)' = Without(Path(d), k)
      BY <1>5, <3>1, PathNext
    <3>3. Folded(content, content', Path(d), k, b)
      BY <1>5, <3>1
    <3> QED BY <3>2, <3>3, FoldedReads
  <2> QED BY <2>1, <2>2
<1>7. chain = Path(VolumeHead) /\ chain' = Path(VolumeHead)'
  BY ReplaceShape DEF Structure, ChainIsPath
<1>8. ChainReads'
  BY <1>2, <1>3, <1>6, <1>7 DEF Contents, ChainReads
<1>9. SnapshotReads'
  <2>1. ASSUME NEW x \in (disks \ removed)', NEW b \in Block
        PROVE  Matches(shot'[x][b], ReadPath(content', Path(x)', b))
    <3>1. x \in disks \ removed /\ x # s
      BY <1>2
    <3>2. shot'[x] = shot[x]
      BY <1>2, <1>3, <3>1
    <3>3. ReadPath(content', Path(x)', b) = ReadPath(content, Path(x), b)
      BY <1>6, <3>1
    <3> QED BY <3>1, <3>2, <3>3 DEF Contents, SnapshotReads, ReadSnapshot
  <2> QED BY <2>1 DEF SnapshotReads, ReadSnapshot, Matches
<1>10. PurgeData'
  BY <1>2 DEF PurgeData
<1>11. ASSUME NEW b \in Block
       PROVE  \/ loc'[b] = loc[b] /\ Lookup(content', chain', b) = Lookup(content, chain, b)
              \/ loc[b] = Lookup(content, chain, b) =>
                    loc'[b] \in {0, Lookup(content', chain', b)}
  <2>1. CASE ~ Passes(chain, s) /\ chain' = chain /\ loc' = loc
    <3>1. SameFiles(content, chain, content', chain, b)
      BY <1>3, <1>5, <1>7, <2>1
    <3> QED BY <2>1, <3>1, SameFilesRead
  <2>2. ASSUME NEW i \in 1..Len(chain) - 1, chain[i] = s, chain' = Without(chain, i),
               loc' = [c \in Block |-> Shift(i, loc[c])]
        PROVE  loc[b] = Lookup(content, chain, b) =>
                    loc'[b] \in {0, Lookup(content', chain', b)}
    <3>1. i \in DOMAIN chain
      BY ChainFacts
    <3>2. Folded(content, content', chain, i, b)
      BY <1>3, <1>5, <1>7, <2>2, <3>1
    <3>3. Shift(i, Lookup(content, chain, b)) \in {0, Lookup(content', Without(chain, i), b)}
      BY <3>2, FoldedReads
    <3> QED BY <2>2, <3>3
  <2> QED BY <1>1, <2>1, <2>2, ReplaceChain
<1> QED BY <1>8, <1>9, <1>10, <1>11 DEF Contents

\* RemoveDiffDisk removes a file that nobody reads.
LEMMA RemoveLeafContents ==
    ASSUME Structure, Contents, RemoveDiffDisk
    PROVE  /\ Contents'
           /\ \A b \in Block : Lookup(content', chain', b) = Lookup(content, chain, b)
<1>1. PICK s : s = purge.s
  OBVIOUS
<1>2. /\ s \in disks \cap removed
      /\ disks' = disks \ {s} /\ removed' = removed \ {s}
      /\ content' = [content EXCEPT ![s] = Empty]
      /\ shot' = [shot EXCEPT ![s] = [b \in Block |-> Undefined]]
      /\ vol' = vol /\ chain' = chain /\ purge' = None
      /\ \A d \in (disks \cup {VolumeHead}) \ {s} :
            IsPath(parent', Path(d), d) /\ ~ Passes(Path(d), s)
  BY <1>1, RemoveLeafPaths DEF RemoveDiffDisk, RemoveDiskNode
<1>3. /\ disks \subseteq Snap /\ disks \subseteq Disk /\ s # VolumeHead
      /\ content \in [Disk -> [Block -> Val \cup {Zero, Hole}]]
      /\ shot \in [Snap -> [Block -> Val \cup {Zero, Undefined}]]
  BY <1>2, DistinctAssumption DEF Structure, Types, Disk
<1>4. ASSUME NEW d \in (disks \cup {VolumeHead}) \ {s}, NEW b \in Block
      PROVE  Path(d)' = Path(d) /\ SameFiles(content, Path(d), content', Path(d), b)
  <2>1. PICK p : p = Path(d)
    OBVIOUS
  <2>2. p \in Seq(Disk) /\ Len(p) \in Nat /\ Len(p) > 0 /\ DOMAIN p = 1..Len(p)
    <3>1. d \in disks \cup {VolumeHead}
      OBVIOUS
    <3> QED BY <2>1, <3>1, PathsFacts
  <2>3. \A i \in 1..Len(p) : p[i] \in Disk /\ p[i] # s
    BY <1>2, <2>1, <2>2, ElementOfSeq DEF Passes
  <2>4. SameFiles(content, p, content', p, b)
    BY <1>2, <1>3, <2>2, <2>3 DEF SameFiles
  <2>5. Path(d)' = Path(d)
    BY <1>2, PathNext
  <2> QED BY <2>1, <2>4, <2>5
<1>5. ASSUME NEW b \in Block
      PROVE  /\ Lookup(content', chain', b) = Lookup(content, chain, b)
             /\ ReadPath(content', chain', b) = ReadPath(content, chain, b)
  <2>1. SameFiles(content, chain, content', chain, b)
    BY <1>3, <1>4 DEF Structure, ChainIsPath
  <2> QED BY <1>2, <2>1, SameFilesRead
<1>6. ChainReads'
  BY <1>2, <1>5 DEF Contents, ChainReads
<1>7. SnapshotReads'
  <2>1. ASSUME NEW x \in (disks \ removed)', NEW b \in Block
        PROVE  Matches(shot'[x][b], ReadPath(content', Path(x)', b))
    <3>1. x \in disks \ removed /\ x # s
      BY <1>2
    <3>2. shot'[x] = shot[x]
      BY <1>2, <1>3, <3>1
    <3>3. ReadPath(content', Path(x)', b) = ReadPath(content, Path(x), b)
      BY <1>4, <3>1, SameFilesRead
    <3> QED BY <3>1, <3>2, <3>3 DEF Contents, SnapshotReads, ReadSnapshot
  <2> QED BY <2>1 DEF SnapshotReads, ReadSnapshot, Matches
<1>8. PurgeData'
  BY <1>2 DEF PurgeData
<1> QED BY <1>5, <1>6, <1>7, <1>8 DEF Contents

-----------------------------------------------------------------------------
(* Unmap.                                                                  *)

\* A disk without several children has at most one.
LEMMA OnlyChild ==
    ASSUME Structure, NEW d, NEW c \in Children(d), NEW e \in Children(d),
           ~ (Cardinality(Children(d)) > 1)
    PROVE  c = e
<1>1. IsFiniteSet(Disk)
  BY SnapAssumption, FS_AddElement DEF Disk
<1>2. Children(d) \subseteq Disk
  BY DEF Children, Structure, Types, Disk
<1>3. IsFiniteSet(Children(d)) /\ Cardinality(Children(d)) \in Nat
  BY <1>1, <1>2, FS_Subset, FS_CardinalityType
<1>4. Cardinality(Children(d)) # 0
  BY <1>3, FS_EmptySet
<1>5. Cardinality(Children(d)) = 1
  BY <1>3, <1>4
<1> QED BY <1>3, <1>5, FS_Singleton

\* How many indices fit in an interval.
LEMMA IntervalSize ==
    ASSUME NEW a \in Int, NEW c \in Int, a <= c + 1, NEW H \in SUBSET (a..c)
    PROVE  IsFiniteSet(H) /\ Cardinality(H) \in Nat /\ Cardinality(H) <= c - a + 1
<1>1. IsFiniteSet(a..c) /\ Cardinality(a..c) = IF a > c THEN 0 ELSE c - a + 1
  BY FS_Interval
<1>2. Cardinality(a..c) = c - a + 1
  BY <1>1
<1>3. Cardinality(H) <= Cardinality(a..c) /\ IsFiniteSet(H)
  BY <1>1, FS_Subset
<1>4. Cardinality(H) \in Nat
  BY <1>3, FS_CardinalityType
<1> QED BY <1>2, <1>3, <1>4

\* The files that diffDisk.UnmapAt punches, counted from the head, are not more than
\* those above the lowest disk with several children.
LEMMA PunchedUnmappable ==
    ASSUME Structure, NEW G \in SUBSET Unmappable,
           NEW i \in Len(chain) - Cardinality(G)..Len(chain), i # Len(chain)
    PROVE  i \in Unmappable /\ i + 1 \in Len(chain) - Cardinality(G)..Len(chain)
<1>1. PICK n \in Nat : n = Len(chain) /\ n > 0
  BY ChainFacts
<1>2. PICK m \in Int : m = n - 1
  OBVIOUS
<1>3. Unmappable \subseteq 1..m
  BY <1>1, <1>2 DEF Unmappable
<1>4. Cardinality(G) \in Nat /\ Cardinality(G) <= m
  <2>1. G \in SUBSET (1..m) /\ 1 \in Int /\ 1 <= m + 1
    BY <1>1, <1>2, <1>3
  <2>2. Cardinality(G) \in Nat /\ Cardinality(G) <= m - 1 + 1
    BY <2>1, IntervalSize
  <2> QED BY <2>2
<1>5. i \in 1..m /\ i >= n - Cardinality(G) /\ i + 1 \in n - Cardinality(G)..n
  BY <1>1, <1>2, <1>4
<1>6. ASSUME NEW j \in 1..m, Cardinality(Children(chain[j])) > 1, ~ (j < i)
      PROVE  FALSE
  <2>1. \A g \in G : g \in 1..m /\ j < g
    BY <1>1, <1>2, <1>6 DEF Unmappable
  <2>2. PICK a \in Int : a = i + 1 /\ a <= m + 1
    BY <1>5
  <2>3. G \in SUBSET (a..m)
    BY <1>5, <1>6, <2>1, <2>2
  <2>4. Cardinality(G) <= m - a + 1
    BY <2>2, <2>3, IntervalSize
  <2> QED BY <1>1, <1>2, <1>4, <1>5, <2>2, <2>4
<1> QED BY <1>1, <1>2, <1>5, <1>6 DEF Unmappable

\* So if they are all marked, no snapshot that is left has one of them on its path:
\* above each there is only the next one, up to the head.
LEMMA UnmapSpares ==
    ASSUME Structure, NEW b \in Block, UnmapAt(b), "unmapGap" \notin Faults
    PROVE  \E P \in SUBSET Disk :
               /\ content' = [d \in Disk |-> IF d \in P THEN [content[d] EXCEPT ![b] = Hole]
                                             ELSE content[d]]
               /\ \A x \in disks \ removed' : \A i \in DOMAIN Path(x) : Path(x)[i] \notin P
               /\ \A d \in P \cap disks : Children(d) \subseteq P
<1>1. PICK n \in Nat : n = Len(chain) /\ n > 0
  BY ChainFacts
<1>2. PICK M, G : /\ M = IF unmapMark
                         THEN removed \cup {chain[i] : i \in Unmappable} ELSE removed
                  /\ G = {i \in Unmappable : chain[i] \in M}
  OBVIOUS
<1>3. PICK P : P = {chain[i] : i \in n - Cardinality(G)..n}
  OBVIOUS
<1>4. /\ P \subseteq M \cup {VolumeHead} /\ removed' = M
      /\ content' = [d \in Disk |-> IF d \in P THEN [content[d] EXCEPT ![b] = Hole]
                                    ELSE content[d]]
  BY <1>1, <1>2, <1>3 DEF UnmapAt
<1>5. /\ chain \in Seq(Disk) /\ DOMAIN chain = 1..n /\ chain[n] = VolumeHead
      /\ \A i \in 1..n - 1 : chain[i] \in disks /\ parent[chain[i + 1]] = chain[i]
      /\ VolumeHead \notin disks
  BY <1>1, ChainFacts, DistinctAssumption DEF Structure, Types
<1>6. ASSUME NEW i \in n - Cardinality(G)..n, i # n
      PROVE  /\ i \in 1..n - 1 /\ i + 1 \in n - Cardinality(G)..n
             /\ Children(chain[i]) = {chain[i + 1]}
  <2>1. i \in Unmappable /\ i + 1 \in n - Cardinality(G)..n
    BY <1>1, <1>2, <1>6, PunchedUnmappable
  <2>2. i \in 1..n - 1 /\ ~ (Cardinality(Children(chain[i])) > 1)
    BY <1>1, <2>1 DEF Unmappable
  <2>4. chain[i + 1] \in Children(chain[i])
    <3>1. chain = Path(VolumeHead)
      BY DEF Structure, ChainIsPath
    <3> QED BY <1>1, <2>2, <3>1, PathsFacts
  <2>5. Children(chain[i]) = {chain[i + 1]}
    BY <2>2, <2>4, OnlyChild
  <2> QED BY <2>1, <2>2, <2>5
<1>7. P \in SUBSET Disk
  <2>1. ASSUME NEW i \in n - Cardinality(G)..n PROVE chain[i] \in Disk
    <3>1. i \in 1..Len(chain)
      BY <1>1, <1>6
    <3> QED BY <1>5, <3>1, ElementOfSeq
  <2> QED BY <1>3, <2>1
<1>8. \A d \in P \cap disks : Children(d) \subseteq P
  <2>1. ASSUME NEW d \in P \cap disks PROVE Children(d) \subseteq P
    <3>1. PICK i \in n - Cardinality(G)..n : chain[i] = d
      BY <1>3
    <3>2. i # n
      BY <1>5, <3>1
    <3> QED BY <1>3, <1>6, <3>1, <3>2
  <2> QED BY <2>1
<1>9. ASSUME NEW x \in disks \ removed', NEW k \in DOMAIN Path(x), Path(x)[k] \in P
      PROVE  FALSE
  <2>1. PICK p : p = Path(x)
    OBVIOUS
  <2>2. /\ Len(p) \in Nat /\ DOMAIN p = 1..Len(p) /\ p[Len(p)] = x
        /\ \A i \in 1..Len(p) : p[i] \in disks
        /\ \A i \in 1..Len(p) - 1 : p[i + 1] \in Children(p[i])
    <3>1. x \in disks
      OBVIOUS
    <3>2. \A i \in DOMAIN p : p[i] \in disks
      BY <2>1, <3>1, ChainFacts
    <3>3. /\ Len(p) \in Nat /\ DOMAIN p = 1..Len(p) /\ p[Len(p)] = x
          /\ \A i \in 1..Len(p) - 1 : p[i + 1] \in Children(p[i])
      BY <2>1, <3>1, PathsFacts
    <3> QED BY <3>2, <3>3
  <2>3. PICK T : T = {i \in 1..Len(p) : p[i] \in P}
    OBVIOUS
  <2>4. k \in T /\ T \in SUBSET (0..Len(p))
    BY <1>9, <2>1, <2>2, <2>3
  <2>5. PICK j \in T : \A i \in T : i <= j
    BY <2>2, <2>4, Greatest
  <2>6. p[j] \in P /\ j \in 1..Len(p) /\ p[j] \in disks
    BY <2>2, <2>3, <2>5
  <2>7. j # Len(p)
    <3>1. x \notin P
      BY <1>4, <1>5
    <3> QED BY <2>2, <2>6, <3>1
  <2>8. j \in 1..Len(p) - 1 /\ j + 1 \in 1..Len(p)
    <3>1. \A n2 \in Nat : \A i \in 1..n2 : i # n2 => i \in 1..n2 - 1 /\ i + 1 \in 1..n2
      OBVIOUS
    <3> QED BY <2>2, <2>6, <2>7, <3>1
  <2>9. p[j + 1] \in P
    BY <1>8, <2>2, <2>6, <2>8
  <2>10. j + 1 <= j
    BY <2>3, <2>5, <2>8, <2>9
  <2> QED BY <2>6, <2>10
<1> QED BY <1>4, <1>7, <1>8, <1>9

\* An unmap changes only what is promised to no one.
LEMMA UnmapContents ==
    ASSUME Structure, Contents, NEW b \in Block, UnmapAt(b), "unmapGap" \notin Faults
    PROVE  /\ Contents' /\ vol' = [vol EXCEPT ![b] = Undefined]
           /\ \A c \in Block : c # b => Lookup(content', chain', c) = Lookup(content, chain, c)
<1>1. PICK P \in SUBSET Disk :
               /\ content' = [d \in Disk |-> IF d \in P THEN [content[d] EXCEPT ![b] = Hole]
                                             ELSE content[d]]
               /\ \A x \in disks \ removed' : \A i \in DOMAIN Path(x) : Path(x)[i] \notin P
               /\ \A d \in P \cap disks : Children(d) \subseteq P
  BY UnmapSpares
<1>2. /\ UNCHANGED <<disks, parent, chain, purge, shot>>
      /\ vol' = [vol EXCEPT ![b] = Undefined] /\ removed \subseteq removed'
  BY DEF UnmapAt
<1>3. /\ content \in [Disk -> [Block -> Val \cup {Zero, Hole}]] /\ disks \subseteq Disk
      /\ vol \in [Block -> Val \cup {Zero, Undefined}]
  BY DEF Structure, Types, Disk
<1>4. /\ \A d \in Disk : \A c \in Block : d \notin P \/ c # b => content'[d][c] = content[d][c]
      /\ \A d \in P : content'[d][b] = Hole
      /\ \A c \in Block : c # b => vol'[c] = vol[c]
      /\ vol'[b] = Undefined
  BY <1>1, <1>2, <1>3
<1>5. \A d : Path(d)' = Path(d)
  BY <1>2 DEF Path
<1>6. ASSUME NEW d \in disks \cup {VolumeHead}, NEW c \in Block, c # b
      PROVE  SameFiles(content, Path(d), content', Path(d), c)
  <2>1. PICK p : p = Path(d)
    OBVIOUS
  <2>2. p \in Seq(Disk) /\ Len(p) \in Nat /\ Len(p) > 0
    BY <2>1, PathsFacts
  <2>3. \A i \in 1..Len(p) : p[i] \in Disk
    BY <2>2, ElementOfSeq
  <2> QED BY <1>4, <1>6, <2>1, <2>2, <2>3 DEF SameFiles
<1>7. ASSUME NEW x \in disks \ removed', NEW c \in Block
      PROVE  SameFiles(content, Path(x), content', Path(x), c)
  <2>1. PICK p : p = Path(x)
    OBVIOUS
  <2>2. p \in Seq(Disk) /\ Len(p) \in Nat /\ Len(p) > 0 /\ DOMAIN p = 1..Len(p)
    BY <2>1, PathsFacts
  <2>3. \A i \in 1..Len(p) : p[i] \in Disk /\ p[i] \notin P
    BY <1>1, <2>1, <2>2, ElementOfSeq
  <2> QED BY <1>4, <2>1, <2>2, <2>3 DEF SameFiles
<1>8. ASSUME NEW c \in Block, c # b
      PROVE  /\ Lookup(content', chain', c) = Lookup(content, chain, c)
             /\ ReadPath(content', chain', c) = ReadPath(content, chain, c)
             /\ SameFiles(content, chain, content', chain, c)
  <2>1. SameFiles(content, chain, content', chain, c)
    BY <1>6, <1>8 DEF Structure, ChainIsPath
  <2> QED BY <1>2, <2>1, SameFilesRead
<1>9. ChainReads'
  BY <1>4, <1>8 DEF Contents, ChainReads, Matches
<1>10. SnapshotReads'
  <2>1. ASSUME NEW x \in (disks \ removed)', NEW c \in Block
        PROVE  Matches(shot'[x][c], ReadPath(content', Path(x)', c))
    <3>1. x \in disks \ removed' /\ x \in disks \ removed
      BY <1>2
    <3>2. ReadPath(content', Path(x)', c) = ReadPath(content, Path(x), c)
      BY <1>5, <1>7, <3>1, SameFilesRead
    <3> QED BY <1>2, <3>1, <3>2 DEF Contents, SnapshotReads, ReadSnapshot
  <2> QED BY <2>1 DEF SnapshotReads, ReadSnapshot, Matches
<1>11. PurgeData'
  <2> SUFFICES ASSUME purge # None, purge.op # "remove" PROVE PurgeData'
    BY <1>2 DEF PurgeData
  <2>0. PurgeShape /\ TodoHidden
    BY DEF Structure, Contents, PurgeData
  <2>1. PICK u : u = purge.s /\ u \in disks /\ purge.todo \subseteq Block
    BY <2>0 DEF PurgeShape
  <2>2. ASSUME NEW p, NEW c, SameFiles(content, p, content', p, c), Hidden(p, u, c),
               DOMAIN p = 1..Len(p)
        PROVE  Hidden(p, u, c)'
    <3>1. ASSUME NEW i \in 1..Len(p), p[i] = u
          PROVE  \E j \in i + 1..Len(p) : content'[p[j]][c] # Hole
      <4>1. PICK j \in i + 1..Len(p) : content[p[j]][c] # Hole
        BY <2>2, <3>1 DEF Hidden
      <4>2. j \in 1..Len(p)
        BY <2>2 DEF SameFiles
      <4> QED BY <2>2, <4>1, <4>2 DEF SameFiles
    <3> QED BY <2>2, <3>1 DEF Hidden
  <2>3. ASSUME NEW c \in purge.todo, vol'[c] # Undefined PROVE Hidden(chain, u, c)'
    <3>1. c \in Block /\ c # b /\ vol[c] # Undefined
      BY <1>4, <2>1, <2>3
    <3>2. Hidden(chain, u, c) /\ SameFiles(content, chain, content', chain, c)
      BY <1>8, <2>0, <2>1, <3>1 DEF TodoHidden
    <3>3. PICK p : p = chain /\ DOMAIN p = 1..Len(p)
      BY ChainFacts
    <3>4. Hidden(p, u, c)'
      BY <2>2, <3>2, <3>3
    <3> QED BY <1>2, <3>3, <3>4 DEF Hidden
  <2>4. ASSUME NEW c \in purge.todo, NEW x \in disks \ removed', shot[x][c] # Undefined
        PROVE  Hidden(Path(x), u, c)'
    <3>1. c \in Block /\ x \in disks \ removed
      BY <1>2, <2>1
    <3>2. Hidden(Path(x), u, c) /\ SameFiles(content, Path(x), content', Path(x), c)
      BY <1>7, <2>0, <2>1, <2>4, <3>1 DEF TodoHidden
    <3>3. PICK p : p = Path(x) /\ DOMAIN p = 1..Len(p)
      BY <3>1, PathsFacts
    <3>4. Hidden(p, u, c)'
      BY <2>2, <3>2, <3>3
    <3> QED BY <1>5, <3>3, <3>4 DEF Hidden
  <2>5. TodoHidden'
    BY <1>2, <2>1, <2>3, <2>4 DEF TodoHidden
  <2>6. ASSUME purge.op = "coalesce", NEW c \in Block \ purge.todo
        PROVE  content'[purge.t][c] # Hole => content'[purge.s][c] = content'[purge.t][c]
    <3>1. u \in disks /\ purge.t \in disks /\ Children(u) = {purge.t}
      BY <2>0, <2>1, <2>6 DEF PurgeShape
    <3>2. content[purge.t][c] # Hole => content[u][c] = content[purge.t][c]
      BY <2>1, <2>6 DEF Contents, PurgeData
    <3>3. CASE c # b
      BY <1>3, <1>4, <2>1, <3>1, <3>2, <3>3
    <3>4. CASE c = b /\ purge.t \in P
      BY <1>4, <3>4
    <3>5. CASE c = b /\ purge.t \notin P
      <4>1. u \notin P
        BY <1>1, <3>1, <3>5
      <4> QED BY <1>3, <1>4, <2>1, <3>1, <3>2, <3>5, <4>1
    <3> QED BY <3>3, <3>4, <3>5
  <2> QED BY <1>2, <2>5, <2>6 DEF PurgeData
<1> QED BY <1>2, <1>8, <1>9, <1>10, <1>11 DEF Contents

-----------------------------------------------------------------------------
(* The theorems.                                                           *)

\* A new replica reads zero.
LEMMA InitContents == Init => Contents /\ LocationTrue
<1> SUFFICES ASSUME Init PROVE Contents /\ LocationTrue
  OBVIOUS
<1>1. Len(chain) = 1 /\ chain[1] = VolumeHead /\ VolumeHead \in Disk
  BY DEF Init, Disk
<1>2. ASSUME NEW b \in Block PROVE ReadPath(content, chain, b) = vol[b]
  <2>1. Lookup(content, chain, b) = 1
    BY <1>1, 2..1 = {} DEF Lookup
  <2> QED BY <1>1, <2>1 DEF ReadPath, Fetch, Init, Empty
<1> QED BY <1>2 DEF Init, Contents, ChainReads, SnapshotReads, PurgeData, LocationTrue, Matches

\* Without an unmap across a gap every step keeps volume and snapshots readable.
LEMMA ContentsKept ==
    "unmapGap" \notin Faults => (Structure /\ Contents /\ [Next]_vars => Contents')
<1> SUFFICES ASSUME "unmapGap" \notin Faults, Structure, Contents, [Next]_vars PROVE Contents'
  OBVIOUS
<1>1. ASSUME NEW b \in Block, UnmapAt(b) PROVE Contents'
  BY <1>1, UnmapContents
<1>2. ASSUME NEW s \in Snap, Snapshot(s) PROVE Contents'
  BY <1>2, SnapshotContents
<1>3. ASSUME NEW s \in Snap, Revert(s) PROVE Contents'
  BY <1>3, RevertContents
<1>4. ASSUME NEW b \in Block, NEW v \in Val, WriteAt(b, v) PROVE Contents'
  BY <1>4, WriteContents
<1>5. ASSUME NEW s \in Snap, PrepareRemoveDisk(s) PROVE Contents'
  BY <1>5, PrepareContents
<1>6. ASSUME NEW b \in Block, PruneFile(b) \/ FoldFile(b) PROVE Contents'
  BY <1>6, PurgeStepContents
<1>7. CASE ReplaceDisk
  BY <1>7, ReplaceContents
<1>8. CASE RemoveDiffDisk
  BY <1>8, RemoveLeafContents
<1>9. CASE \/ \E b \in Block : LookupStart(b) \/ LookupEnd(b)
           \/ SetUnmapMarkDiskChainRemoved \/ PurgeEnds \/ Reload
           \/ \E s \in Snap : MarkDiskAsRemoved(s)
           \/ UNCHANGED vars
  BY <1>9, QuietContents
<1> QED BY <1>1, <1>2, <1>3, <1>4, <1>5, <1>6, <1>7, <1>8, <1>9 DEF Next

\* Without an overlap of a first write and a read, too, every step keeps the
\* locations true.
LEMMA LocationKept ==
    Faults = {} => (IInv /\ [Next]_vars => LocationTrue')
<1> SUFFICES ASSUME Faults = {}, IInv, [Next]_vars PROVE LocationTrue'
  OBVIOUS
<1>1. Structure /\ Contents /\ LocationTrue
  BY DEF IInv
<1>2. /\ loc \in [Block -> Index] /\ probe \in [Block -> Index]
      /\ vol \in [Block -> Val \cup {Zero, Undefined}]
  BY <1>1 DEF Structure, Types
<1>3. ASSUME UNCHANGED <<loc, probe>>,
             \A b \in Block : vol'[b] # Undefined =>
                vol[b] # Undefined /\ Lookup(content', chain', b) = Lookup(content, chain, b)
      PROVE  LocationTrue'
  BY <1>1, <1>3 DEF LocationTrue
<1>4. ASSUME NEW b \in Block, NEW v \in Val, WriteAt(b, v) PROVE LocationTrue'
  <2>1. /\ probe[b] = 0 /\ probe' = probe /\ chain' = chain
        /\ loc' = [loc EXCEPT ![b] = Len(chain)]
        /\ vol' = [vol EXCEPT ![b] = v]
        /\ content' = [content EXCEPT ![VolumeHead][b] = v]
    BY <1>4 DEF WriteAt
  <2>2. /\ chain \in Seq(Disk) /\ Len(chain) \in Nat /\ Len(chain) > 0
        /\ chain[Len(chain)] = VolumeHead
        /\ VolumeHead \in Disk /\ v # Hole
        /\ content \in [Disk -> [Block -> Val \cup {Zero, Hole}]]
    BY <1>1, ChainFacts, DistinctAssumption DEF Structure, Types, Disk
  <2>3. Lookup(content', chain, b) = Len(chain)
    <3>1. Len(chain) \in 1..Len(chain) /\ \A i \in Len(chain) + 1..Len(chain) : FALSE
      BY <2>2
    <3>2. content'[chain[Len(chain)]][b] # Hole
      BY <2>1, <2>2
    <3> QED BY <2>2, <3>1, <3>2, LookupIs
  <2>4. ASSUME NEW c \in Block, c # b
        PROVE  Lookup(content', chain, c) = Lookup(content, chain, c)
    <3>1. \A i \in 1..Len(chain) : chain[i] \in Disk
      BY <2>2, ElementOfSeq
    <3>2. SameFiles(content, chain, content', chain, c)
      BY <2>1, <2>2, <2>4, <3>1 DEF SameFiles
    <3> QED BY <3>2, SameFilesRead
  <2>5. ASSUME NEW c \in Block, vol'[c] # Undefined, NEW i \in {loc'[c], probe'[c]}, i # 0
        PROVE  i = Lookup(content', chain', c)
    <3>1. CASE c = b
      BY <1>2, <2>1, <2>3, <2>5, <3>1
    <3>2. CASE c # b
      BY <1>1, <1>2, <2>1, <2>4, <2>5, <3>2 DEF LocationTrue
    <3> QED BY <3>1, <3>2
  <2> QED BY <2>5 DEF LocationTrue
<1>5. ASSUME NEW b \in Block, LookupStart(b) \/ LookupEnd(b) PROVE LocationTrue'
  <2>1. UNCHANGED <<content, chain, vol>>
    BY <1>5 DEF LookupStart, LookupEnd, dirVars
  <2>2. ASSUME NEW c \in Block, vol[c] # Undefined, NEW i \in {loc'[c], probe'[c]}, i # 0
        PROVE  i = Lookup(content, chain, c)
    <3>1. CASE LookupStart(b)
      <4>1. loc' = loc /\ probe' = [probe EXCEPT ![b] = Lookup(content, chain, b)]
        BY <3>1 DEF LookupStart
      <4> QED BY <1>1, <1>2, <2>2, <4>1 DEF LocationTrue
    <3>2. CASE LookupEnd(b)
      <4>1. loc' = [loc EXCEPT ![b] = probe[b]] /\ probe' = [probe EXCEPT ![b] = 0]
        BY <3>2 DEF LookupEnd
      <4> QED BY <1>1, <1>2, <2>2, <4>1 DEF LocationTrue
    <3> QED BY <1>5, <3>1, <3>2
  <2> QED BY <2>1, <2>2 DEF LocationTrue
<1>6. ASSUME NEW b \in Block, UnmapAt(b) PROVE LocationTrue'
  <2>1. /\ UNCHANGED <<loc, probe>> /\ vol' = [vol EXCEPT ![b] = Undefined]
        /\ \A c \in Block : c # b => Lookup(content', chain', c) = Lookup(content, chain, c)
    BY <1>1, <1>6, UnmapContents DEF UnmapAt
  <2> QED BY <1>2, <1>3, <2>1
<1>7. ASSUME NEW s \in Snap, Snapshot(s) PROVE LocationTrue'
  <2>1. \A c \in Block : Lookup(content', chain', c) = Lookup(content, chain, c)
    BY <1>1, <1>7, SnapshotContents
  <2> QED BY <1>3, <1>7, <2>1 DEF Snapshot
<1>8. CASE Reload \/ \E s \in Snap : Revert(s)
  <2>1. \A c \in Block : loc'[c] = 0 /\ probe'[c] = 0
    BY <1>8 DEF Reload, Revert, Locked
  <2> QED BY <2>1 DEF LocationTrue
<1>9. ASSUME NEW b \in Block, PruneFile(b) \/ FoldFile(b) PROVE LocationTrue'
  <2>1. /\ UNCHANGED <<loc, probe, vol, chain>>
        /\ \A c \in Block : vol[c] # Undefined =>
              Lookup(content', chain, c) = Lookup(content, chain, c)
    BY <1>1, <1>9, PurgeStepContents DEF PruneFile, FoldFile
  <2> QED BY <1>3, <2>1
<1>10. CASE ReplaceDisk
  <2>1. \A c \in Block :
           \/ loc'[c] = loc[c] /\ Lookup(content', chain', c) = Lookup(content, chain, c)
           \/ loc[c] = Lookup(content, chain, c) =>
                 loc'[c] \in {0, Lookup(content', chain', c)}
    BY <1>1, <1>10, ReplaceContents
  <2>2. vol' = vol /\ \A c \in Block : probe'[c] = 0
    BY <1>10 DEF ReplaceDisk, Locked
  <2>3. ASSUME NEW c \in Block, loc[c] = 0 PROVE loc'[c] = 0
    <3>1. CASE loc' = loc
      BY <2>3, <3>1
    <3>2. ASSUME NEW i \in 1..Len(chain) - 1, loc' = [b \in Block |-> Shift(i, loc[b])]
          PROVE  loc'[c] = 0
      BY <2>3, <3>2 DEF Shift
    <3> QED BY <1>1, <1>10, <3>1, <3>2, ReplaceChain
  <2>4. ASSUME NEW c \in Block, vol[c] # Undefined, loc'[c] # 0
        PROVE  loc'[c] = Lookup(content', chain', c)
    <3>1. loc[c] = Lookup(content, chain, c)
      BY <1>1, <2>3, <2>4 DEF LocationTrue
    <3> QED BY <2>1, <2>4, <3>1
  <2> QED BY <2>2, <2>4 DEF LocationTrue
<1>11. CASE RemoveDiffDisk
  <2>1. /\ UNCHANGED <<loc, probe, vol>>
        /\ \A c \in Block : Lookup(content', chain', c) = Lookup(content, chain, c)
    BY <1>1, <1>11, RemoveLeafPaths, RemoveLeafContents DEF RemoveDiffDisk
  <2> QED BY <1>3, <2>1
<1>12. CASE \/ SetUnmapMarkDiskChainRemoved \/ PurgeEnds
            \/ \E s \in Snap : MarkDiskAsRemoved(s) \/ PrepareRemoveDisk(s)
            \/ UNCHANGED vars
  <2>1. UNCHANGED <<content, chain, loc, probe, vol>>
    BY <1>12 DEF SetUnmapMarkDiskChainRemoved, PurgeEnds, MarkDiskAsRemoved,
                 PrepareRemoveDisk, vars, dirVars
  <2> QED BY <1>3, <2>1
<1> QED BY <1>4, <1>5, <1>6, <1>7, <1>8, <1>9, <1>10, <1>11, <1>12 DEF Next

\* A snapshot that is not removed always reads what the volume held when it was
\* taken, for any snapshots, sectors and values, and even if reads overlap writes;
\* only an unmap must meet no gap (UnmapAt, FoldFile, PruneFile, ReplaceDisk).
THEOREM SnapshotsKept ==
    ASSUME "unmapGap" \notin Faults
    PROVE  Spec => []SnapshotReads
<1>1. Init => Structure /\ Contents
  BY InitShape, InitContents
<1>2. (Structure /\ Contents) /\ [Next]_vars => (Structure /\ Contents)'
  BY StructureKept, ContentsKept
<1>3. Structure /\ Contents => SnapshotReads
  BY DEF Contents
<1> QED BY <1>1, <1>2, <1>3, PTL DEF Spec

\* Without faults the inductive invariant holds in every state.
THEOREM DiskInductive ==
    ASSUME Faults = {}
    PROVE  Spec => []IInv
<1>1. Init => IInv
  BY InitShape, InitContents DEF IInv
<1>2. IInv /\ [Next]_vars => IInv'
  BY StructureKept, ContentsKept, LocationKept DEF IInv
<1> QED BY <1>1, <1>2, PTL DEF Spec

\* Without faults the volume always reads what was last written to it, through the
\* location cache or not (lookup, fullWriteAt, RemoveIndex, revertDisk, UnmapAt).
THEOREM VolumeKept ==
    ASSUME Faults = {}
    PROVE  Spec => []VolumeReads
<1>1. IInv => VolumeReads
  <2> SUFFICES ASSUME IInv, NEW b \in Block PROVE Matches(vol[b], ReadAt(b))
    BY DEF VolumeReads
  <2>1. Matches(vol[b], ReadPath(content, chain, b))
    BY DEF IInv, Contents, ChainReads
  <2>2. vol[b] # Undefined /\ loc[b] # 0 => loc[b] = Lookup(content, chain, b)
    BY DEF IInv, LocationTrue
  <2> QED BY <2>1, <2>2 DEF Matches, ReadAt, ReadPath
<1> QED BY <1>1, DiskInductive, PTL

=============================================================================
