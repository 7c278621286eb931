----------------------------- MODULE AgentState -----------------------------
(***************************************************************************)
(* What the sync agents and the engine's tasks share: each replica's       *)
(* directory, the bookkeeping of its sync agent and the calls being        *)
(* served.                                                                 *)
(*                                                                         *)
(* A directory is a record D.  D.file gives the inode behind a name (0:    *)
(* no such file), D.meta the contents of a .meta file, D.loaded the disks  *)
(* the replica process knows (none: Server.r is nil, the replica is closed *)
(* and answers every call with success, doing nothing), D.data and D.ctime what an inode holds and   *)
(* when it last changed, D.rot the inodes a medium error has altered       *)
(* without a change of time, D.sum the checksum files, and D.size the size *)
(* in volume.meta.  Inodes matter                                          *)
(* because a hash, an export or a backup keeps reading the inode it opened *)
(* while a purge renames, removes and replaces files under it.             *)
(***************************************************************************)
EXTENDS Integers, Sequences, FiniteSets, FiniteSetsExt

CONSTANTS
  Replica,        \* 1 .. n, in the order of the controller's list
  Block,          \* blocks of the volume
  UserSnap,       \* snapshots the user took, in the initial chains
  CloneSnap,      \* the snapshot a clone copies
  UuidSnap,       \* call -> the snapshot name, a new UUID, it generates
  SizeSnap,       \* size -> the snapshot an expansion to it creates
  Backup,         \* backups in the backup store
  Inode,          \* 1 .. m
  Call,           \* 1 .. k
  Workload,       \* calls to serve, the state they start from, and a bound
                  \* on the steps that fail
  None

VARIABLES
  load,           \* the workload being served
  volume,         \* Controller.size and isExpanding
  mode,           \* Controller.replicas: address -> mode
  rebuilding,     \* replicas whose volume.meta has Rebuilding set
  dir,            \* the directories
  agent,          \* the sync agents
  job,            \* what a call makes an agent do: Call -> Replica -> job
  task,           \* the calls themselves
  faults          \* failed steps so far

vars == <<load, volume, mode, rebuilding, dir, agent, job, task, faults>>

HeadDisk == "head"
Nameless == ""            \* the snapshot the name of no parent stands for
Snap == UserSnap \cup {CloneSnap, Nameless} \cup {SizeSnap[n] : n \in DOMAIN SizeSnap}
        \cup {UuidSnap[c] : c \in DOMAIN UuidSnap}
Disk == Snap \cup {HeadDisk}
File == Disk \cup {"delta", "tmp"}
Empty == [b \in Block |-> 0]

\* A call of the workload, and the replicas the controller lists.
Op(c) == load.calls[c]
Listed == {r \in Replica : mode[r] # "none"}
RWs == {r \in Replica : mode[r] = "RW"}

(***************************************************************************)
(* Directories.                                                            *)
(***************************************************************************)
Over(top, base) == [b \in Block |-> IF top[b] # 0 THEN top[b] ELSE base[b]]

Layer(D, f) == D.data[D.file[f]]

\* Server.r is not nil.
Live(D) == D.loaded # {}

\* Replica.Chain over the .meta files: f and its ancestors, nearest first.
Path(D, f) ==
  LET up[d \in File, n \in 0 .. Cardinality(Disk)] ==
        IF n = 0 \/ D.meta[d] = None \/ D.meta[d].parent = None THEN <<d>>
        ELSE <<d>> \o up[D.meta[d].parent, n - 1]
  IN  up[f, Cardinality(Disk)]

\* What a reader of the inodes fds (nearest layer first) sees in block b.
ReadThrough(D, fds, b) ==
  LET has == {i \in DOMAIN fds : D.data[fds[i]][b] # 0}
  IN  IF has = {} THEN 0 ELSE D.data[fds[Min(has)]][b]

Fds(D, f) == LET p == Path(D, f) IN [i \in DOMAIN p |-> D.file[p[i]]]

\* A chain can be opened when every layer has its file and its metadata.
Openable(D, f) ==
  \A d \in Range(Path(D, f)) : D.meta[d] # None /\ D.file[d] # 0

Content(D, f) == LET fds == Fds(D, f) IN [b \in Block |-> ReadThrough(D, fds, b)]

Children(D, d) == {k \in D.loaded : D.meta[k].parent = d}
AnyChild(D, d) == IF Children(D, d) = {} THEN None
                  ELSE CHOOSE k \in Children(D, d) : TRUE

\* GetSnapshotChangeTime of the file named f.
ChangeTime(D, f) == <<D.file[f], D.ctime[D.file[f]]>>

\* Inodes in use at replica r, by name or by an open descriptor.
Held(r) ==
  {dir[r].file[f] : f \in File} \cup
  UNION {job[c][r].held : c \in Call}

Fresh(r) == Min(Inode \ Held(r))

\* New contents v in inode i: the change time moves.
Write(D, i, v) == [D EXCEPT !.data[i] = v, !.ctime[i] = @ + 1]

\* A new file f with contents v in the unused inode i.
Create(D, f, i, v) ==
  [D EXCEPT !.file[f] = i, !.data[i] = v, !.ctime[i] = @ + 1, !.rot = @ \ {i}]

\* Mutant: the older data wins.
FoldFileUnder(D, from, into) ==
  Write(D, D.file[into], Over(Layer(D, into), Layer(D, from)))

\* sparse.FoldFile: the data of `from` over the data of `into`.
FoldFile(D, from, into) ==
  Write(D, D.file[into], Over(Layer(D, from), Layer(D, into)))

\* sparse.PruneFile: blocks the child `over` holds become holes in d.
PruneFile(D, d, over) ==
  Write(D, D.file[d],
        [b \in Block |-> IF Layer(D, over)[b] # 0 THEN 0 ELSE Layer(D, d)[b]])

\* Mutant: the disk stays in the replica's map.
rmDiskKept(D, d) ==
  [D EXCEPT !.file[d] = 0, !.meta[d] = None, !.sum[d] = None]

\* Replica.rmDisk: the image, its metadata and its checksum file.
rmDisk(D, d) ==
  [D EXCEPT !.file[d] = 0, !.meta[d] = None, !.sum[d] = None,
            !.loaded = @ \ {d}]

\* Replica.removeDiskNode: the child k inherits d's parent.
removeDiskNode(D, d, k) ==
  IF k = None THEN D ELSE [D EXCEPT !.meta[k].parent = D.meta[d].parent]

\* Replica.RemoveDiffDisk of a disk the replica knows.  With several
\* children one of them, any, inherits; the others keep a missing parent.
RemoveDiffDisk(D, d, k) == IF Live(D) THEN rmDisk(removeDiskNode(D, d, k), d) ELSE D

\* Replica.ReplaceDisk: target k becomes a hard link to source d, whose
\* node and name go away.
ReplaceDisk(D, k, d) ==
  LET i == D.file[d]
  IN  IF ~Live(D) THEN D
      ELSE rmDisk(removeDiskNode([D EXCEPT !.file[k] = i, !.ctime[i] = @ + 1], d, k), d)

\* Replica.MarkDiskAsRemoved: nothing to do for a disk that is not there.
MarkDiskAsRemoved(D, d) ==
  IF d \in D.loaded THEN [D EXCEPT !.meta[d].removed = TRUE] ELSE D

\* Server.Reload: the metadata files are read again.
Reload(D) ==
  IF Live(D) THEN [D EXCEPT !.loaded = {d \in Disk : D.meta[d] # None}] ELSE D

\* Replica.Revert to snapshot s: a new empty head, in inode i, on top of it,
\* and a reload.
CanRevert(D, s) == Live(D) => s \in D.loaded /\ ~D.meta[s].removed /\ D.file[s] # 0
Revert(D, s, i) ==
  IF Live(D)
  THEN Reload(Create([D EXCEPT !.meta[HeadDisk].parent = s], HeadDisk, i, Empty))
  ELSE D

\* Server.Revert when volume.meta cannot be written, but the old one can be put
\* back: revertDisk returns neither a replica nor an error, the server drops its
\* replica and answers success.
RevertSwallowed(D) == [D EXCEPT !.loaded = {}]

\* Replica.createDisk: the head becomes snapshot s, not one of the user's,
\* under a new head in inode i.
createDisk(D, s, i) ==
  LET j == D.file[HeadDisk]
  IN  IF ~Live(D) THEN D
      ELSE Create([D EXCEPT !.file[s] = j, !.ctime[j] = @ + 1,
                            !.meta[s] = [parent |-> D.meta[HeadDisk].parent,
                                         removed |-> FALSE, user |-> FALSE],
                            !.meta[HeadDisk].parent = s,
                            !.loaded = @ \cup {s}],
                  HeadDisk, i, Empty)

\* Replica.Expand to size n: a snapshot under a head of that size.
Expand(D, n, i) ==
  IF D.size = n \/ ~Live(D) THEN D ELSE [createDisk(D, SizeSnap[n], i) EXCEPT !.size = n]

\* CreateNewSnapshotMetafile for file f.
NewSnapshotMeta(D, f) ==
  [D EXCEPT !.meta[f] = [parent |-> None, removed |-> FALSE, user |-> FALSE]]

(***************************************************************************)
(* Failures.  A step that can fail does so while the bound allows it.      *)
(***************************************************************************)
Fail == faults < load.faults /\ faults' = faults + 1
NoFail == faults' = faults

(***************************************************************************)
(* Sync agents.  busy holds isPurging, isRebuilding, isCloning and         *)
(* isRestoring; status the State fields of their status objects; restore   *)
(* is RestoreInfo; hashes and backups are SnapshotHashList and BackupList  *)
(* (calls, oldest first); lock is the holder of the host's hash lock.      *)
(***************************************************************************)
NoRestore == [state |-> "", last |-> None, cur |-> None, to |-> None,
              snap |-> None]

NewAgent ==
  [busy |-> {}, restore |-> NoRestore, hashes |-> <<>>, backups |-> <<>>,
   lock |-> None, status |-> [k \in {"purge", "rebuild", "clone"} |-> ""]]

NoJob == [pc |-> "none", held |-> {}]
Done == {"none", "ok", "err"}

\* What an agent answers about its purge, rebuild or clone.
StatusOf(r, k) == [on |-> k \in agent[r].busy, state |-> agent[r].status[k]]

\* A call's job at a replica ends.
End(c, r, how) == job' = [job EXCEPT ![c][r] = [pc |-> how, held |-> {}]]

\* A flag is cleared and its status gets a final state.
Finish(r, k, state) ==
  agent' = [agent EXCEPT ![r].busy = @ \ {k}, ![r].status[k] = state]
=============================================================================
