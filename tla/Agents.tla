------------------------------- MODULE Agents -------------------------------
(***************************************************************************)
(* The sync agents of a volume's replicas, serving one workload of         *)
(* concurrent calls: the specification and its properties.                 *)
(***************************************************************************)
EXTENDS VolumeTask

CONSTANTS
  Chain           \* what a disk chain holds: name -> disk -> contents or None

ASSUME WorkloadAssumption ==
  \A w \in Workload :
    /\ DOMAIN w.calls \subseteq Call /\ w.faults \in Nat /\ w.rot \in BOOLEAN
    /\ w.modes \in [Replica -> {"none", "RW", "WO", "ERR"}]
    /\ w.chain \in DOMAIN Chain /\ w.gone \subseteq UserSnap
    /\ \A r \in w.stale : w.modes[r] = "none"

(***************************************************************************)
(* Initial states.  A replica the controller does not list is new: it has  *)
(* an empty head and nothing else or, in load.stale, what an interrupted    *)
(* rebuild has left.  The snapshots in load.gone have been deleted, and are *)
(* still to be purged.                                                     *)
(***************************************************************************)
ChainOf(r) == CASE load.modes[r] # "none" -> load.chain
                [] load.modes[r] = "none" /\ r \in load.stale -> "part"
                [] OTHER -> "base"

\* The chain from its oldest disk: UserSnap in order, then the head.
InitDir(chain) ==
  LET has(f) == f \in Disk /\ Chain[chain][f] # None
      order == <<"s1", "s2", HeadDisk>>
      Pos(f) == CHOOSE i \in 1 .. 3 : order[i] = f
      Up(f) == {i \in 1 .. Pos(f) - 1 : has(order[i])}
      file == [f \in File |-> IF has(f) THEN Pos(f) ELSE 0]
  IN  [file |-> file,
       meta |-> [f \in File |->
                   IF has(f)
                   THEN [parent |-> IF Up(f) = {} THEN None ELSE order[Max(Up(f))],
                         removed |-> f \in load.gone, user |-> f # HeadDisk]
                   ELSE None],
       loaded |-> {f \in Disk : has(f)},
       data |-> [i \in Inode |-> IF i <= 3 /\ has(order[i])
                                 THEN Chain[chain][order[i]] ELSE Empty],
       ctime |-> [i \in Inode |-> 0],
       rot |-> {},
       sum |-> [f \in Disk |-> None],
       size |-> 1]

Init ==
  /\ load \in Workload
  /\ volume = [size |-> 1, expanding |-> FALSE]
  /\ mode = load.modes
  /\ rebuilding = load.stale
  /\ dir = [r \in Replica |-> InitDir(ChainOf(r))]
  /\ agent = [r \in Replica |-> NewAgent]
  /\ job = [c \in Call |-> [r \in Replica |-> NoJob]]
  /\ task = [c \in Call |-> IF c \in DOMAIN load.calls THEN NewTask(load.calls[c])
                            ELSE [pc |-> "done", err |-> FALSE, kind |-> "none"]]
  /\ faults = 0

(***************************************************************************)
(* Steps.                                                                  *)
(***************************************************************************)
Job(c, r) ==
  \/ PurgeBegin(c, r) \/ PurgeMark(c, r) \/ PurgeLeaf(c, r) \/ PurgeRemove(c, r)
  \/ PurgeOp(c, r)
  \/ HashAdd(c, r) \/ HashBegin(c, r) \/ HashRead(c, r) \/ HashJudge(c, r)
  \/ HashSet(c, r) \/ HashVerify(c, r)
  \/ RestoreData(c, r) \/ PostFull(c, r) \/ RestoreRevert(c, r)
  \/ PostIncremental(c, r)
  \/ CloneCopy(c, r) \/ PostClone(c, r) \/ CloneRevert(c, r)
  \/ BackupAdd(c, r) \/ BackupCompare(c, r) \/ BackupRead(c, r)
  \/ SyncTake(c, r) \/ SyncCopy(c, r) \/ SyncEnd(c, r)

Task(c) ==
  \/ List(c)
  \/ CheckRebuilding(c) \/ CheckPurge(c) \/ CheckHash(c) \/ CheckClone(c)
  \/ CheckRestore(c) \/ PurgeSnapshotStatus(c)
  \/ RestoreStatus(c) \/ RestoreDecide(c) \/ InspectBackup(c)
  \/ \E r \in Replica : \/ CallPurge(c, r) \/ CallHash(c, r) \/ CallCancel(c, r)
                        \/ CallHashStatus(c, r)
                        \/ CallClone(c, r) \/ CallRestore(c, r)
  \/ CallDelete(c) \/ CancelSnapshotHashJob(c) \/ CallReset(c)
  \/ CreateBackup(c) \/ FetchBackupStatus(c) \/ TaskEnd(c)
  \/ AddCheck(c) \/ AddCreate(c) \/ AddSources(c) \/ PrepareRebuildReplica(c) \/ AddFiles(c)
  \/ AddReload(c) \/ VerifyRebuildReplica(c) \/ AddClear(c)
  \/ clientsAndSnapshot(c) \/ ControllerRevert(c)
  \/ startExpansion(c) \/ BackendExpand(c) \/ finishExpansion(c)

Finished == \A c \in Call : /\ task[c].pc = "done"
                        /\ \A r \in Replica : job[c][r].pc \in Done \cup {"refused"}

Idle == Finished /\ UNCHANGED vars

Next ==
  \/ \E c \in Call : Task(c) \/ \E r \in Replica : Job(c, r)
  \/ \E r \in Replica : BitRot(r)
  \/ Idle

\* Tasks and jobs are goroutines: a step that stays possible is taken.
Fairness == WF_vars(\E c \in Call : Task(c) \/ \E r \in Replica : Job(c, r))

Spec == Init /\ [][Next]_vars /\ Fairness

(***************************************************************************)
(* Properties.                                                             *)
(***************************************************************************)
\* Jobs of each kind are at these points, and everything has its type.
TypeOK ==
  /\ mode \in [Replica -> {"none", "RW", "WO", "ERR"}]
  /\ rebuilding \subseteq Replica
  /\ volume \in [size : 1 .. Len(SizeSnap), expanding : BOOLEAN]
  /\ faults \in 0 .. load.faults
  /\ \A r \in Replica :
       /\ dir[r].file \in [File -> Inode \cup {0}]
       /\ dir[r].loaded \subseteq Disk
       /\ \A d \in dir[r].loaded : dir[r].meta[d] # None
       /\ agent[r].busy \subseteq {"purge", "rebuild", "clone", "restore"}
       /\ agent[r].lock \in Call \cup {None}
       /\ Range(agent[r].hashes) \cup Range(agent[r].backups) \subseteq Call

Kind(c, k) == c \in DOMAIN load.calls /\ Op(c).kind = k
NoCall(k) == \A c \in Call : ~Kind(c, k)

ToDelete(s) ==
  \/ s \in load.gone
  \/ \E c \in DOMAIN load.calls : Op(c).kind = "delete" /\ Op(c).snap = s

Sound(D, f) == Range(Fds(D, f)) \cap D.rot = {}

\* Whatever purges, hashes, backups, rebuilds and failures are under way, an open
\* replica that was in service keeps every user snapshot nobody asked to
\* delete, and every snapshot not marked as removed, and the volume itself,
\* read as when the workload started (purgeSnapshots, ReplaceDisk).
SnapshotIntact ==
  \A r \in Replica :
    LET D == dir[r]
        before == InitDir(load.chain)
        As(f) == Sound(D, f) => Content(D, f) = Content(before, f)
    IN  (load.chain # "base" /\ load.modes[r] = "RW" /\ Live(D)) =>
          /\ NoCall("revert") => As(HeadDisk)
          /\ \A s \in before.loaded \ {HeadDisk} :
               /\ s \in D.loaded /\ ~D.meta[s].removed => As(s)
               /\ s \notin D.loaded => ToDelete(s)

Hashing(r) == \E c \in Call : job[c][r].pc \in {"set", "verify"}

\* Once no job is between storing and verifying a checksum, a checksum file
\* whose change time is the snapshot's states the snapshot's data and claims no
\* corruption, unless the medium really altered it (hash.go Execute; a purge may
\* fold or replace the file while it is being read).  And as long as nothing has
\* failed, a checksum file belongs to a snapshot that exists: one whose removal
\* failed is left, for its change time to give it away.
ChecksumTrue ==
  \A r \in Replica, s \in Snap :
    LET D == dir[r]
        sum == D.sum[s]
    IN  (sum # None /\ ~Hashing(r)) =>
          /\ faults = 0 => D.file[s] # 0
          /\ Recorded(D, s) /\ D.file[s] \notin D.rot =>
               sum.val = Layer(D, s) /\ ~sum.bad

\* A replica whose restore is reported complete reads, if it is open, as the
\* backup that is reported as restored last, whichever restores failed, fell back
\* to a full one or were refused before (StartRestore, FinishRestore), and with a
\* purge at any moment.  Left out are replicas at which restores into two
\* different snapshots ended well: a task that decides before an earlier restore
\* has begun, or between its reload and its revert, names a snapshot of its own,
\* or none, and when it falls back to a full restore that snapshot takes the data
\* outside the chain.  Left out too is the target of a rebuild: a restore that
\* asks isRebuilding before SetRebuilding is made there as well, and the rebuild's
\* files then overwrite its own.
RestoredIsBackup ==
  \A r \in Replica :
    LET info == agent[r].restore
    IN  (/\ info.state = "complete" /\ Live(dir[r])
         /\ \A c \in DOMAIN load.calls :
              /\ Kind(c, "restore") /\ At(c, r, "ok") => task[c].snap = info.snap
              /\ Kind(c, "rebuild") => Op(c).target # r) =>
          Content(dir[r], HeadDisk) = BackupData[info.last]

\* A clone reported complete, with no clone at work at the replica, has made
\* the volume read as the cloned snapshot (SnapshotClone), as far as it can be
\* read: a replica that swallowed the error of its revert is closed.  With three
\* clones at once it need not have: the one that is refused lets another one in.
CloneStatusTrue ==
  \A r \in Replica :
    (/\ Cardinality({c \in DOMAIN load.calls : Op(c).kind = "clone"}) <= 2
     /\ r \in DOMAIN CloneStatus /\ Live(dir[r])
     /\ CloneStatus[r] = [on |-> FALSE, state |-> "complete"]) =>
      Content(dir[r], HeadDisk) = CloneData

\* A replica promoted by VerifyRebuildReplica reads as the volume did, and
\* so does each of its snapshots that is not marked as removed.  With a purge
\* at the same time it need not: the files are copied while the source folds
\* one into another, and the purge of the target removes the traces.  Nor with
\* a restore, which may come to the target between its check and SetRebuilding.
RebuildExact ==
  \A r \in Replica :
    LET D == dir[r]
    IN  (/\ load.modes[r] = "none" /\ mode[r] = "RW"
         /\ NoCall("purge") /\ NoCall("revert") /\ NoCall("restore")) =>
          \A d \in {k \in D.loaded : ~D.meta[k].removed} :
            /\ Openable(D, d)
            /\ Content(D, d) = Content(InitDir(load.chain),
                                       IF d \in UserSnap THEN d ELSE HeadDisk)

\* A backup reported complete holds the snapshot as it was taken, although a
\* purge may have replaced its files meanwhile, unless the snapshot itself
\* was to be deleted (BackupCreate, OpenSnapshot, ReadSnapshot).
BackupExact ==
  \A c \in DOMAIN load.calls, r \in Replica :
    (Op(c).kind = "backup" /\ At(c, r, "ok") /\ ~ToDelete(Op(c).snap)) =>
      job[c][r].got = Content(InitDir(load.chain), Op(c).snap)

\* A poll finds what is going on.  A hash at work is reported as it is, one
\* that has ended well is reported complete, from its checksum file once the
\* list has dropped it (the comment in SnapshotHashStatus), a backup at work
\* is always found, and so is a file transfer to a WO replica.  Left out are a
\* hash that is answered but not listed yet, a backup while another one of its
\* name has removed the record and not entered its own (BackupAdd), a rebuild of
\* a replica that a restore has come to, which RebuildStatus skips, and a reset,
\* which empties the lists; after a failure or a purge the checksum file may be
\* missing.
JobsReported ==
  \A c \in DOMAIN load.calls, r \in Replica :
    LET j == job[c][r]
        others == {e \in Call \ {c} : Kind(e, "hash") /\ Op(e).snap = Op(c).snap
                                     /\ job[e][r].pc # "none"}
        status == SnapshotHashStatus(r, Op(c).snap)
    IN  NoCall("reset") =>
          /\ (Kind(c, "hash") /\ j.pc \in {"lock", "read", "set"}) =>
               status = State(j)
          /\ (/\ Kind(c, "hash") /\ j.pc = "ok" /\ faults = 0 /\ NoCall("purge")
              /\ \A e \in others : job[e][r].pc = "ok") => status = "complete"
          /\ (/\ Kind(c, "backup") /\ j.pc \in {"compare", "backup"}
              /\ \A e \in Call : At(e, r, "enter") => Op(e).backup # Op(c).backup) =>
               BackupStatus(r, Op(c).backup) # "not found"
          /\ (/\ Kind(c, "rebuild") /\ j.pc = "sync" /\ mode[r] = "WO"
              /\ agent[r].restore.snap = None) =>
               /\ r \in DOMAIN RebuildStatus
               /\ RebuildStatus[r] = [on |-> TRUE, state |-> "in_progress"]

\* After a Revert that reports success, every replica it was made at that is
\* still RW and open reads as the snapshot, whichever replicas failed and whatever
\* a purge or a rebuild had planned before (Controller.Revert).  A replica that
\* answered success because it swallowed its error stays RW, and is closed: every
\* later read of it fails.  The target of that rebuild need not read so either, as
\* Revert chooses its replicas before the lock.
RevertExact ==
  \A c \in DOMAIN load.calls, r \in Replica :
    (/\ Kind(c, "revert") /\ task[c].pc = "done" /\ ~task[c].err
     /\ r \in task[c].sources /\ mode[r] = "RW" /\ Live(dir[r])
     /\ Sound(dir[r], HeadDisk)) =>
      Content(dir[r], HeadDisk) = Content(InitDir(load.chain), Op(c).snap)

\* No open RW replica is smaller than the size the controller offers, and without
\* an expansion under way all have one size (replicator.Expand, canAdd).  The
\* target of a rebuild is left out: one that passed checkAndExpandReplica
\* before an expansion may be added after it.
ExpandExact ==
  LET old == {r \in RWs : load.modes[r] = "RW" /\ Live(dir[r])}
  IN  /\ \A r \in old : dir[r].size >= volume.size
      /\ (\A c \in Call : Kind(c, "expand") => task[c].pc \notin {"grow", "grown"}) =>
           \A r, q \in old : dir[r].size = dir[q].size

Running(r, pcs) == {c \in Call : job[c][r].pc \in pcs}

\* An agent's flag is set exactly while its one job of that kind runs, so a
\* purge, a rebuild or a restore never runs twice and never blocks the next
\* one for good (PreparePurge, FinishPurge and their like).
OneAtATime ==
  \A r \in Replica :
    LET One(k, pcs) == Cardinality(Running(r, pcs)) =
                       IF k \in agent[r].busy THEN 1 ELSE 0
    IN  /\ One("purge", {"mark", "marks", "leaf", "remove", "op"})
        /\ One("rebuild", {"sync"})
        /\ One("restore", {"data", "post", "revert"})

\* Every task returns and every job ends: no worker waits for a lock or for
\* a file that nobody hands on (Execute, fileSyncRemote).
AllEnd == <>[]Finished
=============================================================================
