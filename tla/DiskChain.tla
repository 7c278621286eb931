------------------------------ MODULE DiskChain ------------------------------
(***************************************************************************)
(* One replica (pkg/replica): a tree of sparse files, of which the path    *)
(* from the root to the volume head is open for I/O, and a cache that maps *)
(* each sector to the file of that path that holds it (diffDisk.location). *)
(* The sync agent folds removed snapshots into their neighbours meanwhile. *)
(*                                                                         *)
(* A sector is one of Block and the bytes in it one of Val; a write covers *)
(* whole sectors (readModifyWrite makes it so, under rmLock).  There is no *)
(* backing file and no size: both only add a file at index 1.              *)
(***************************************************************************)
EXTENDS Naturals, Sequences, FiniteSets

CONSTANTS
    Snap,           \* names of snapshot disks
    Block,          \* sectors
    Val,            \* contents of a sector
    Zero,           \* what a hole reads as
    Hole,           \* no extent at this sector
    Undefined,      \* the client was promised nothing about this sector
    VolumeHead,     \* the volume head
    None,           \* no parent, no purge
    Faults          \* which of the hazards below may happen

HazardKind ==
    {"overlap",     \* a sector is read while it is written for the first time
     "unmapGap"}    \* an unmap meets a removed disk below one that is not

ASSUME FaultsAssumption == Faults \subseteq HazardKind
ASSUME DistinctAssumption ==
    /\ {Zero, Hole, Undefined} \cap Val = {}
    /\ Zero # Hole /\ Zero # Undefined /\ Hole # Undefined
    /\ VolumeHead \notin Snap /\ None \notin Snap \cup {VolumeHead}

\* An entry of diffDisk.location is a byte.  canDoSnapshot keeps the disks below 250.
ASSUME SnapAssumption == IsFiniteSet(Snap) /\ Cardinality(Snap) < 255

VARIABLES
    disks,      \* the snapshot disks in the directory (diskData)
    parent,     \* the parent of every disk, None at the root
    removed,    \* the disks marked as removed
    content,    \* what is in each file
    chain,      \* the open files, root first, the head last (activeDiskData)
    loc,        \* diffDisk.location: an index of chain, 0 when not known
    unmapMark,  \* the setting unmapMarkDiskChainRemoved
    probe,      \* a reader found this index and has yet to store it, 0 if none
    purge,      \* what processRemoveSnapshot is doing
    vol,        \* what the client may expect to read from the volume ...
    shot        \* ... and from each snapshot

dirVars == <<disks, parent, removed, content>>
vars == <<dirVars, chain, loc, unmapMark, probe, purge, vol, shot>>

-----------------------------------------------------------------------------
Disk == Snap \cup {VolumeHead}
Children(d) == {c \in disks \cup {VolumeHead} : parent[c] = d}

\* Chain: from a disk up to the root, here root first.
PathIn(par, d) ==
    LET up[n \in 0..Cardinality(Snap)] ==
          IF n = 0 THEN <<d>>
          ELSE LET p == par[up[n - 1][1]]
               IN  IF p = None THEN up[n - 1] ELSE <<p>> \o up[n - 1]
    IN  up[Cardinality(Snap)]
Path(d) == PathIn(parent, d)

\* diffDisk.lookup for a sector whose location is not known: the last file with
\* an extent there, file 1 if there is none above it.
Lookup(files, path, b) ==
    LET I == {i \in 2..Len(path) : files[path[i]][b] # Hole}
    IN  IF I = {} THEN 1 ELSE CHOOSE i \in I : \A j \in I : j <= i
Fetch(files, path, i, b) ==
    LET v == files[path[i]][b] IN IF v = Hole THEN Zero ELSE v
ReadPath(files, path, b) == Fetch(files, path, Lookup(files, path, b), b)

\* What ReadAt returns, and what a read-only replica opened at d returns.
ReadAt(b) ==
    IF loc[b] = 0 THEN ReadPath(content, chain, b) ELSE Fetch(content, chain, loc[b], b)
ReadSnapshot(d, b) == ReadPath(content, Path(d), b)

\* No I/O holds the replica lock for reading.
Locked == \A b \in Block : probe[b] = 0

Empty == [b \in Block |-> Hole]
Init ==
    /\ disks = {} /\ removed = {}
    /\ parent = [d \in Disk |-> None]
    /\ content = [d \in Disk |-> Empty]
    /\ chain = <<VolumeHead>>
    /\ loc = [b \in Block |-> 0]
    /\ probe = [b \in Block |-> 0]
    /\ unmapMark \in BOOLEAN
    /\ purge = None
    /\ vol = [b \in Block |-> Zero]
    /\ shot = [s \in Snap |-> [b \in Block |-> Undefined]]

-----------------------------------------------------------------------------
(* I/O under the read lock of the replica.                                 *)

\* fullWriteAt: the head is written, then the location is set.
WriteAt(b, v) ==
    /\ probe[b] = 0 \/ "overlap" \in Faults
    /\ content' = [content EXCEPT ![VolumeHead][b] = v]
    /\ loc' = [loc EXCEPT ![b] = Len(chain)]
    /\ vol' = [vol EXCEPT ![b] = v]
    /\ UNCHANGED <<disks, parent, removed, chain, probe, purge, shot, unmapMark>>

\* lookup, first half: the files are asked for their extents ...
LookupStart(b) ==
    /\ loc[b] = 0 /\ probe[b] = 0
    /\ probe' = [probe EXCEPT ![b] = Lookup(content, chain, b)]
    /\ UNCHANGED <<dirVars, chain, loc, purge, vol, shot, unmapMark>>

\* ... and second half: the answer is stored, whatever happened meanwhile.
LookupEnd(b) ==
    /\ probe[b] # 0
    /\ loc' = [loc EXCEPT ![b] = probe[b]]
    /\ probe' = [probe EXCEPT ![b] = 0]
    /\ UNCHANGED <<dirVars, chain, purge, vol, shot, unmapMark>>

-----------------------------------------------------------------------------
(* Operations under the write lock.                                        *)

\* UnmapAt: the disks above the lowest one with several children may be unmapped
\* if they are removed.  diffDisk.UnmapAt punches as many files, counted from the
\* head, as it was given names.
UnmappableShared == 1..Len(chain) - 1
Unmappable ==
    LET stop == {i \in 1..Len(chain) - 1 : Cardinality(Children(chain[i])) > 1}
    IN  {i \in 1..Len(chain) - 1 : \A j \in stop : j < i}
UnmapAt(b) ==
    LET marked == IF unmapMark
                  THEN removed \cup {chain[i] : i \in Unmappable} ELSE removed
        given == {i \in Unmappable : chain[i] \in marked}
        punched == {chain[i] : i \in Len(chain) - Cardinality(given)..Len(chain)}
    IN  /\ Locked
        /\ punched \subseteq marked \cup {VolumeHead} \/ "unmapGap" \in Faults
        /\ removed' = marked
        /\ content' = [d \in Disk |-> IF d \in punched THEN [content[d] EXCEPT ![b] = Hole]
                                      ELSE content[d]]
        /\ vol' = [vol EXCEPT ![b] = Undefined]
        /\ UNCHANGED <<disks, parent, chain, loc, probe, purge, shot, unmapMark>>

\* The setting changes while the replica is open.
SetUnmapMarkDiskChainRemoved ==
    /\ Locked
    /\ unmapMark' = ~unmapMark
    /\ UNCHANGED <<dirVars, chain, loc, probe, purge, vol, shot>>

\* createDisk: the head becomes s, under a new and empty head.  A prune in
\* progress goes on with the file it has open, or fails to open the old name.
Snapshot(s) ==
    /\ Locked /\ s \notin disks
    /\ disks' = disks \cup {s}
    /\ parent' = [parent EXCEPT ![s] = parent[VolumeHead], ![VolumeHead] = s]
    /\ content' = [content EXCEPT ![s] = content[VolumeHead], ![VolumeHead] = Empty]
    /\ chain' = SubSeq(chain, 1, Len(chain) - 1) \o <<s, VolumeHead>>
    /\ shot' = [shot EXCEPT ![s] = vol]
    /\ UNCHANGED <<removed, loc, probe, purge, vol, unmapMark>>

\* markDiskAsRemoved: by DeleteSnapshot, or by a purge for system snapshots.
MarkDiskAsRemoved(s) ==
    /\ Locked /\ s \in disks \ removed
    /\ removed' = removed \cup {s}
    /\ UNCHANGED <<disks, parent, content, chain, loc, probe, purge, vol, shot, unmapMark>>

\* revertDisk: a new head on top of s replaces the old one, and the replica is
\* reloaded from its directory.
CanRevert(s) == s \in disks \ removed
Revert(s) ==
    /\ Locked /\ CanRevert(s)
    /\ parent' = [parent EXCEPT ![VolumeHead] = s]
    /\ content' = [content EXCEPT ![VolumeHead] = Empty]
    /\ chain' = Path(s) \o <<VolumeHead>>
    /\ loc' = [b \in Block |-> 0]
    /\ vol' = shot[s]
    /\ UNCHANGED <<disks, removed, probe, purge, shot, unmapMark>>

\* Server.Reload, or a restart of the process, which also ends the purge.
Reload ==
    /\ Locked
    /\ chain' = Path(VolumeHead)
    /\ loc' = [b \in Block |-> 0]
    /\ purge' \in {purge, None}
    /\ UNCHANGED <<dirVars, probe, vol, shot, unmapMark>>

-----------------------------------------------------------------------------
(* SyncAgentServer.processRemoveSnapshot.                                  *)

\* processPrepareRemoveDisks: a leaf is removed, a disk below the head is pruned,
\* a disk with one other child is coalesced with it, any other disk is left.
PrepareRemoveDisk(s) ==
    LET Todo(d) == {b \in Block : content[d][b] # Hole}
    IN  /\ Locked /\ purge = None /\ s \in disks \cap removed
        /\ \/ /\ Children(s) = {}
              /\ purge' = [op |-> "remove", s |-> s]
           \/ /\ Children(s) = {VolumeHead}
              /\ purge' = [op |-> "prune", s |-> s, todo |-> Todo(VolumeHead)]
           \/ \E t \in disks :
                 /\ Children(s) = {t}
                 /\ purge' = [op |-> "coalesce", s |-> s, t |-> t, todo |-> Todo(t)]
        /\ UNCHANGED <<dirVars, chain, loc, probe, vol, shot, unmapMark>>

\* sparse.PruneFile: sectors that the child holds are punched out of s.
PruneFile(b) ==
    /\ purge # None /\ purge.op = "prune" /\ b \in purge.todo
    /\ content' = [content EXCEPT ![purge.s][b] = Hole]
    /\ purge' = [purge EXCEPT !.todo = @ \ {b}]
    /\ UNCHANGED <<disks, parent, removed, chain, loc, probe, vol, shot, unmapMark>>

\* sparse.FoldFile: sectors that the child t holds are copied into s.
FoldFile(b) ==
    /\ purge # None /\ purge.op = "coalesce" /\ b \in purge.todo
    /\ content' = [content EXCEPT ![purge.s][b] =
                      IF content[purge.t][b] = Hole THEN Zero ELSE content[purge.t][b]]
    /\ purge' = [purge EXCEPT !.todo = @ \ {b}]
    /\ UNCHANGED <<disks, parent, removed, chain, loc, probe, vol, shot, unmapMark>>

\* A prune is over, or any of the operations returned an error.
PurgeEnds ==
    /\ purge # None
    /\ purge' = None
    /\ UNCHANGED <<dirVars, chain, loc, probe, vol, shot, unmapMark>>

\* diffDisk.RemoveIndex: the file is closed, its sectors are not known any more and
\* those of the files above it move down.
ShiftLate(i, l) == IF l = i THEN 0 ELSE IF l > i + 1 THEN l - 1 ELSE l
Shift(i, l) == IF l = i THEN 0 ELSE IF l > i THEN l - 1 ELSE l
Without(files, i) == SubSeq(files, 1, i - 1) \o SubSeq(files, i + 1, Len(files))
RemoveIndex(i) ==
    /\ chain' = Without(chain, i)
    /\ loc' = [b \in Block |-> Shift(i, loc[b])]

\* removeDiskNode: a disk of the open chain is taken out of it.
RemoveDiskNodeOnly(s) ==
    /\ UNCHANGED <<chain, loc>>
    /\ disks' = disks \ {s} /\ removed' = removed \ {s}
RemoveDiskNode(s) ==
    /\ disks' = disks \ {s} /\ removed' = removed \ {s}
    /\ IF \E i \in DOMAIN chain : chain[i] = s
       THEN \E i \in DOMAIN chain : chain[i] = s /\ RemoveIndex(i)
       ELSE UNCHANGED <<chain, loc>>

\* ReplaceDisk: s takes the name and the place of its child t.
ReplaceDisk ==
    /\ purge # None /\ purge.op = "coalesce" /\ purge.todo = {}
    /\ Locked /\ purge.s \in disks /\ purge.t \in disks
    /\ RemoveDiskNode(purge.s)
    /\ content' = [content EXCEPT ![purge.t] = content[purge.s], ![purge.s] = Empty]
    /\ parent' = [parent EXCEPT ![purge.t] = parent[purge.s], ![purge.s] = None]
    /\ purge' = None
    /\ shot' = [shot EXCEPT ![purge.s] = [b \in Block |-> Undefined]]
    /\ UNCHANGED <<probe, vol, unmapMark>>

\* RemoveDiffDisk of a leaf.
RemoveDiffDisk ==
    /\ purge # None /\ purge.op = "remove" /\ Locked
    /\ RemoveDiskNode(purge.s)
    /\ content' = [content EXCEPT ![purge.s] = Empty]
    /\ parent' = [parent EXCEPT ![purge.s] = None]
    /\ purge' = None
    /\ shot' = [shot EXCEPT ![purge.s] = [b \in Block |-> Undefined]]
    /\ UNCHANGED <<probe, vol, unmapMark>>

-----------------------------------------------------------------------------
Next ==
    \/ \E b \in Block, v \in Val : WriteAt(b, v)
    \/ \E b \in Block : LookupStart(b) \/ LookupEnd(b) \/ UnmapAt(b)
    \/ \E s \in Snap : Snapshot(s) \/ MarkDiskAsRemoved(s) \/ Revert(s)
    \/ Reload \/ SetUnmapMarkDiskChainRemoved
    \/ \E s \in Snap : PrepareRemoveDisk(s)
    \/ \E b \in Block : PruneFile(b) \/ FoldFile(b)
    \/ PurgeEnds \/ ReplaceDisk \/ RemoveDiffDisk

Spec == Init /\ [][Next]_vars

-----------------------------------------------------------------------------
(* Properties.                                                             *)

Matches(expected, found) == expected = Undefined \/ found = expected

\* The volume reads what was last written to it, whatever is snapshotted,
\* reverted, purged and reloaded, and whether or not the location of the sector
\* is cached (diffDisk.lookup, fullWriteAt, RemoveIndex).
VolumeReads == \A b \in Block : Matches(vol[b], ReadAt(b))

\* A snapshot that is not removed reads what the volume held when it was taken,
\* through every fold and prune of its neighbours and every unmap.
SnapshotReads ==
    \A s \in disks \ removed, b \in Block : Matches(shot[s][b], ReadSnapshot(s, b))

\* The open files are those that a reload would open (removeDiskNode keeps
\* activeDiskData and the parents in step).
ChainIsPath == chain = Path(VolumeHead)

-----------------------------------------------------------------------------
(* The inductive invariant behind these properties.                        *)

\* p leads from the root to d.
IsPath(par, p, d) ==
    /\ p \in Seq(Disk) /\ Len(p) > 0 /\ p[Len(p)] = d
    /\ par[p[1]] = None
    /\ \A i \in 2..Len(p) : par[p[i]] = p[i - 1]
    /\ \A i, j \in DOMAIN p : p[i] = p[j] => i = j

Index == 0..Len(chain)
Types ==
    /\ disks \subseteq Snap /\ removed \subseteq disks
    /\ parent \in [Disk -> disks \cup {None}] /\ \A s \in Snap \ disks : parent[s] = None
    /\ content \in [Disk -> [Block -> Val \cup {Zero, Hole}]]
    /\ loc \in [Block -> Index] /\ probe \in [Block -> Index]
    /\ vol \in [Block -> Val \cup {Zero, Undefined}]
    /\ shot \in [Snap -> [Block -> Val \cup {Zero, Undefined}]]

\* The disks form a tree whose inner nodes are snapshots.
Tree == \A d \in disks \cup {VolumeHead} : IsPath(parent, Path(d), d)

\* A location, stored or found, is that of the last file with data.
LocationTrue ==
    \A b \in Block : vol[b] # Undefined =>
        \A i \in {loc[b], probe[b]} : i # 0 => i = Lookup(content, chain, b)

\* Without the cache the volume reads right.
ChainReads == \A b \in Block : Matches(vol[b], ReadPath(content, chain, b))

\* Disk s holds nothing of sector b that is read through path p.
Hidden(p, s, b) ==
    \A i \in DOMAIN p : p[i] = s => \E j \in i + 1..Len(p) : content[p[j]][b] # Hole

\* What a purge still has to change is hidden from all who were promised something.
TodoHidden ==
    \A b \in purge.todo :
        /\ vol[b] # Undefined => Hidden(chain, purge.s, b)
        /\ \A x \in disks \ removed :
              shot[x][b] # Undefined => Hidden(Path(x), purge.s, b)

\* The disk that is purged is removed, so no head will be put on it.
PurgeShape ==
    purge # None =>
        /\ purge.s \in disks \cap removed
        /\ \/ purge \in [op : {"remove"}, s : Snap] /\ Children(purge.s) = {}
           \/ purge \in [op : {"prune"}, s : Snap, todo : SUBSET Block]
           \/ /\ purge \in [op : {"coalesce"}, s : Snap, t : Snap, todo : SUBSET Block]
              /\ purge.t \in disks /\ Children(purge.s) = {purge.t}

\* What was folded into the disk is what its child holds.
PurgeData ==
    /\ purge # None /\ purge.op # "remove" => TodoHidden
    /\ purge # None /\ purge.op = "coalesce" =>
          \A b \in Block \ purge.todo :
              content[purge.t][b] # Hole => content[purge.s][b] = content[purge.t][b]

\* The shape of the tree, which no fault disturbs ...
Structure == Types /\ Tree /\ ChainIsPath /\ PurgeShape

\* ... the data in it, which only an unmap across a gap disturbs, and the cache.
Contents == ChainReads /\ SnapshotReads /\ PurgeData
IInv == Structure /\ Contents /\ LocationTrue

=============================================================================
