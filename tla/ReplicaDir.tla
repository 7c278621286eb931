----------------------------- MODULE ReplicaDir -----------------------------
(***************************************************************************)
(* The directory of one replica (pkg/replica/replica.go), file operation by *)
(* file operation.  A crash may come between any two of them; the replica   *)
(* then opens the chain it finds: volume.meta names the head, the meta file *)
(* of each disk names its parent (construct, readMetadata, openLiveChain).  *)
(* Meta files are replaced by a rename, so each is one step; a snapshot is  *)
(* a hard link to the file of the old head.                                 *)
(*                                                                          *)
(* Writes are to sectors of their own, so that a disk is a set of writes;   *)
(* DiskChain has sectors.                                                   *)
(***************************************************************************)
EXTENDS Naturals, FiniteSets, Sequences

CONSTANTS
    Snap,       \* snapshot names
    Write,      \* writes
    MaxHead,    \* the last volume head, volume-head-<MaxHead>.img
    None,       \* no file, no operation, no promise
    Root,       \* the parent of the first disk
    Faults      \* which of the hazards below may happen

HazardKind == {
    "rollbackCrash",\* the process dies while createDisk rolls back
    "lateFailure",  \* writing the meta file of a snapshot fails, after volume.meta
    "closeFailed"}  \* a replica is closed whose revert failed after volume.meta

ASSUME FaultsAssumption == Faults \subseteq HazardKind
ASSUME MaxHeadAssumption == MaxHead \in Nat
ASSUME NamesAssumption ==
    /\ {None, Root} \cap (Snap \cup 0..MaxHead) = {} /\ None # Root
    /\ Snap \cap 0..MaxHead = {}

VARIABLES
    file,       \* the inode of each name, None if there is no such file
    meta,       \* the parent in the meta file of each disk, None if it has none
    removed,    \* the disks marked as removed in their meta files
    volMeta,    \* the head named by volume.meta
    data,       \* what each inode holds
    up,         \* the replica is open
    fds,        \* the inodes it has open, root first
    hd,         \* the head in memory
    op,         \* the operation that holds the lock of the replica, None if none
    purge,      \* the sync agent folded purge.t into purge.s, None if nothing
    stale,      \* a file of the chain was replaced and not opened again
    told,       \* what the client was told of its last revert: its content, or None
    vol,        \* what the volume holds for its client
    shot        \* what each snapshot holds for its client, None if nothing

dirVars == <<file, meta, removed, volMeta>>
vars == <<dirVars, data, up, fds, hd, op, purge, stale, told, vol, shot>>

Name == Snap \cup 0..MaxHead
Inode == 1..Cardinality(Name) + 1

-----------------------------------------------------------------------------
\* Chain, read from the meta files, root first.
Path(n) ==
    LET p[i \in 0..Cardinality(Name)] ==
          IF i = 0 THEN <<n>>
          ELSE LET q == p[i - 1]
               IN  IF meta[q[1]] \in {Root, None} THEN q ELSE <<meta[q[1]]>> \o q
    IN  p[Cardinality(Name)]
\* Every disk of the chain has its meta file; openFile creates a file that is not
\* there, empty.
Complete(n) == LET p == Path(n) IN \A i \in DOMAIN p : meta[p[i]] # None
Content(n) ==
    LET p == Path(n)
    IN  UNION {data[file[p[i]]] : i \in {j \in DOMAIN p : file[p[j]] # None}}
Unused == CHOOSE i \in Inode :
    i \notin {file[n] : n \in Name} /\ \A k \in DOMAIN fds : fds[k] # i

Init ==
    /\ file = [n \in Name |-> IF n = 0 THEN 1 ELSE None]
    /\ meta = [n \in Name |-> IF n = 0 THEN Root ELSE None]
    /\ removed = {} /\ volMeta = 0
    /\ data = [i \in Inode |-> {}]
    /\ up = TRUE /\ fds = <<1>> /\ hd = 0 /\ op = None /\ purge = None
    /\ stale = FALSE /\ told = None
    /\ vol = {} /\ shot = [s \in Snap |-> None]

-----------------------------------------------------------------------------
\* The replica is open and no operation holds its lock.
Ready == up /\ op = None
Step(k, i) == up /\ op # None /\ op.k = k /\ op.pc = i
Advance == op' = [op EXCEPT !.pc = @ + 1]
\* A revert failed after it wrote volume.meta: the replica is open on the old head,
\* and the engine has set it to ERR, so that it gets no call but Close.
Failed == [k |-> "failed", s |-> None, pc |-> 0]
MemUnchanged == UNCHANGED <<data, up, fds, hd, purge, stale, told, vol, shot>>

\* Replica.WriteAt: to the open head.
WriteAt(w) ==
    /\ Ready /\ w \notin vol
    /\ data' = [data EXCEPT ![fds[Len(fds)]] = @ \cup {w}]
    /\ vol' = vol \cup {w}
    /\ told' = None
    /\ UNCHANGED <<dirVars, up, fds, hd, op, purge, stale, shot>>

\* The process dies, at any time.
Crash ==
    /\ op # None => op.k # "rollback" \/ "rollbackCrash" \in Faults
    /\ up /\ up' = FALSE /\ op' = None /\ fds' = <<>>
    /\ UNCHANGED <<dirVars, data, hd, purge, stale, told, vol, shot>>

\* Server.Close: the head in memory is written to volume.meta.  If that fails, the
\* replica keeps nothing but closed files, which for its directory is a crash.
Close ==
    /\ up /\ up' = FALSE /\ fds' = <<>>
    /\ op = None \/ (op = Failed /\ "closeFailed" \in Faults)
    /\ op' = None /\ volMeta' = hd
    /\ UNCHANGED <<file, meta, removed, data, hd, purge, stale, told, vol, shot>>

\* The replica is opened: missing files of the chain are created.
Open ==
    /\ ~up /\ Complete(volMeta)
    /\ LET p == Path(volMeta)
           missing == {n \in Name : file[n] = None /\ \E i \in DOMAIN p : p[i] = n}
           new == CHOOSE f \in [missing -> Inode \ {file[n] : n \in Name}] :
                      \A m, n \in missing : f[m] = f[n] => m = n
       IN  /\ file' = [n \in Name |-> IF n \in missing THEN new[n] ELSE file[n]]
           /\ data' = [i \in Inode |->
                          IF \E n \in missing : new[n] = i THEN {} ELSE data[i]]
           /\ fds' = [i \in DOMAIN p |-> file'[p[i]]]
    /\ up' = TRUE /\ hd' = volMeta /\ stale' = FALSE
    /\ UNCHANGED <<meta, removed, volMeta, op, purge, told, vol, shot>>

-----------------------------------------------------------------------------
(* createNewHead: the file of the next head, then its meta file.  A name    *)
(* that is taken fails the operation.                                       *)

NewHead(k, s) ==
    /\ Ready /\ hd < MaxHead /\ file[hd + 1] = None
    /\ file' = [file EXCEPT ![hd + 1] = Unused]
    /\ data' = [data EXCEPT ![Unused] = {}]
    /\ op' = [k |-> k, s |-> s, pc |-> 1]
    /\ UNCHANGED <<meta, removed, volMeta, up, fds, hd, purge, stale, told, vol, shot>>
NewHeadMeta(k) ==
    /\ Step(k, 1)
    /\ meta' = [meta EXCEPT ![hd + 1] = op.s]
    /\ Advance /\ UNCHANGED <<file, removed, volMeta>> /\ MemUnchanged

\* encodeToFile(&info, volumeMetaData): from here on a restart finds the new head.
CommitHead(i) ==
    /\ op.pc = i
    /\ volMeta' = hd + 1
    /\ Advance /\ UNCHANGED <<file, meta, removed>>

\* createDisk, for a name the replica does not have.
SnapshotStart(s) == meta[s] = None /\ NewHead("snapshot", s)
LinkDisk ==
    /\ Step("snapshot", 2)
    /\ file' = [file EXCEPT ![op.s] = file[hd]]
    /\ Advance /\ UNCHANGED <<meta, removed, volMeta>> /\ MemUnchanged
LinkMeta ==
    /\ Step("snapshot", 3)
    /\ meta' = [meta EXCEPT ![op.s] = meta[hd]]
    /\ Advance /\ UNCHANGED <<file, removed, volMeta>> /\ MemUnchanged
SnapshotCommit == Step("snapshot", 4) /\ CommitHead(4) /\ MemUnchanged
\* The meta file of the snapshot again, with its labels and its time.
SnapshotMeta == Step("snapshot", 5) /\ Advance /\ UNCHANGED dirVars /\ MemUnchanged
\* rmDisk of the old head: its file, which may fail; for a snapshot this is logged.
RmOldHead(k, i) ==
    /\ Step(k, i)
    /\ file' \in {file, [file EXCEPT ![hd] = None]}
    /\ Advance /\ UNCHANGED <<meta, removed, volMeta>> /\ MemUnchanged
SnapshotEnd ==
    /\ Step("snapshot", 7)
    /\ meta' = [meta EXCEPT ![hd] = None]
    /\ fds' = Append(fds, file[hd + 1])
    /\ hd' = hd + 1 /\ op' = None
    /\ shot' = [shot EXCEPT ![op.s] = vol]
    /\ UNCHANGED <<file, removed, volMeta, data, up, purge, stale, told, vol>>

\* An error before the end of createDisk: the rollback functions run in the order
\* in which they were registered, for the new head, for the snapshot and, if
\* volume.meta was written, for volume.meta.
SnapshotFails ==
    /\ up /\ op # None /\ op.k = "snapshot"
    /\ op.pc <= IF "lateFailure" \in Faults THEN 5 ELSE 4
    /\ op' = [op EXCEPT !.k = "rollback", !.pc = 1]
    /\ UNCHANGED dirVars /\ MemUnchanged
RollbackFiles == {n \in Name : (op.pc = 1 /\ n = hd + 1) \/ (op.pc = 3 /\ n = op.s)}
RollbackMetas == {n \in Name : (op.pc = 2 /\ n = hd + 1) \/ (op.pc = 4 /\ n = op.s)}
Rollback ==
    /\ up /\ op # None /\ op.k = "rollback"
    /\ file' = [n \in Name |-> IF n \in RollbackFiles THEN None ELSE file[n]]
    /\ meta' = [n \in Name |-> IF n \in RollbackMetas THEN None ELSE meta[n]]
    /\ volMeta' = IF op.pc = 5 THEN hd ELSE volMeta
    /\ op' = IF op.pc = 5 THEN None ELSE [op EXCEPT !.pc = @ + 1]
    /\ UNCHANGED removed /\ MemUnchanged

\* revertDisk to a snapshot that is not removed, then Reload.
CanRevertRemoved(s) == file[s] # None /\ meta[s] # None
CanRevert(s) == file[s] # None /\ meta[s] # None /\ s \notin removed
RevertStart(s) == CanRevert(s) /\ NewHead("revert", s)
Reverted(s) == IF shot[s] = None THEN Content(s) ELSE shot[s]
RevertCommit ==
    /\ Step("revert", 2) /\ CommitHead(2)
    /\ vol' = Reverted(op.s) /\ told' = None
    /\ UNCHANGED <<data, up, fds, hd, purge, stale, shot>>
RevertEnd ==
    /\ Step("revert", 4) /\ file[hd] = None
    /\ meta' = [meta EXCEPT ![hd] = None]
    /\ fds' = [i \in DOMAIN Path(hd + 1) |-> file[Path(hd + 1)[i]]]
    /\ hd' = hd + 1 /\ op' = None /\ stale' = FALSE /\ told' = vol
    /\ UNCHANGED <<file, removed, volMeta, data, up, purge, vol, shot>>
\* createNewHead rolls back its own errors.
RevertFails ==
    /\ Step("revert", 1)
    /\ file' = [file EXCEPT ![hd + 1] = None]
    /\ op' = None
    /\ UNCHANGED <<meta, removed, volMeta>> /\ MemUnchanged
\* rmDisk or Reload fails: revertDisk returns the error, and Server.Revert keeps the
\* replica that it had.
RevertLateFails ==
    /\ Step("revert", 4)
    /\ meta' \in {meta, [meta EXCEPT ![hd] = None]}
    /\ op' = Failed
    /\ UNCHANGED <<file, removed, volMeta>> /\ MemUnchanged
\* volume.meta cannot be written, and the old one neither: an error.
RevertRefused == Step("revert", 2) /\ op' = None /\ UNCHANGED dirVars /\ MemUnchanged
\* volume.meta cannot be written, but the old one can: the error of the first
\* attempt is overwritten by the nil of the second, so that Server.Revert drops
\* the replica and reports success.  The new head stays.
RevertMetaFails ==
    /\ Step("revert", 2)
    /\ up' = FALSE /\ op' = None /\ fds' = <<>>
    /\ told' = Reverted(op.s)
    /\ UNCHANGED <<dirVars, data, hd, purge, stale, vol, shot>>

-----------------------------------------------------------------------------
(* Removal of snapshots.                                                    *)

Children(n) == {c \in Name : meta[c] = n}

MarkDiskAsRemoved(s) ==
    /\ Ready /\ meta[s] # None /\ file[s] # None /\ s \notin removed
    /\ removed' = removed \cup {s}
    /\ shot' = [shot EXCEPT ![s] = None]
    /\ UNCHANGED <<file, meta, volMeta, data, up, fds, hd, op, purge, stale, told, vol>>

\* PrepareRemoveDisk: s has one child t, which is not the head; the sync agent
\* then folds t into s, without the lock of the replica.
FoldNothing(s, t) == data
Folded(s, t) == [data EXCEPT ![file[s]] = @ \cup data[file[t]]]
FoldFile(s, t) ==
    /\ Ready /\ purge = None
    /\ s \in removed /\ Children(s) = {t} /\ t # hd
    /\ file[s] # None /\ file[t] # None
    /\ data' = Folded(s, t)
    /\ purge' = [s |-> s, t |-> t]
    /\ UNCHANGED <<dirVars, up, fds, hd, op, stale, told, vol, shot>>

\* The call of the sync agent is lost.
PurgeFails ==
    /\ purge # None /\ purge' = None
    /\ UNCHANGED <<dirVars, data, up, fds, hd, op, stale, told, vol, shot>>

\* ReplaceDisk: hardlinkDisk unlinks t ...
ReplaceStart ==
    /\ Ready /\ purge # None /\ purge.t # hd /\ file[purge.s] # None
    /\ file' = [file EXCEPT ![purge.t] = None]
    /\ op' = [k |-> "replace", s |-> purge.s, t |-> purge.t, pc |-> 1]
    /\ purge' = None
    /\ UNCHANGED <<meta, removed, volMeta, data, up, fds, hd, stale, told, vol, shot>>
\* ... and links it to s;
ReplaceLink ==
    /\ Step("replace", 1)
    /\ file' = [file EXCEPT ![op.t] = file[op.s]]
    /\ Advance /\ UNCHANGED <<meta, removed, volMeta>> /\ MemUnchanged
\* or fails to;
ReplaceFails == Step("replace", 1) /\ op' = None /\ UNCHANGED dirVars /\ MemUnchanged
\* updateParentDisk, after which s is a leaf;
ReplaceParent ==
    /\ Step("replace", 2)
    /\ meta' = [meta EXCEPT ![op.t] = meta[op.s]]
    /\ Advance /\ UNCHANGED <<file, removed, volMeta>> /\ MemUnchanged
\* rmDisk: the file, then its meta file.
RmDisk(k, i) ==
    /\ Step(k, i)
    /\ file' = [file EXCEPT ![op.s] = None]
    /\ Advance /\ UNCHANGED <<meta, removed, volMeta>> /\ MemUnchanged
RmMeta ==
    /\ meta' = [meta EXCEPT ![op.s] = None]
    /\ removed' = removed \ {op.s}
    /\ op' = None
    /\ UNCHANGED <<file, volMeta, data, up, hd, purge, told, vol, shot>>

\* The open files of the chain without that of s: RemoveIndex alone, and with t
\* open again as f.
At(t) == {i \in DOMAIN Path(hd) : Path(hd)[i] = t}
ReopenedStale(t, f) ==
    IF At(t) = {} THEN fds
    ELSE LET i == CHOOSE j \in At(t) : TRUE
         IN  SubSeq(fds, 1, i - 1) \o SubSeq(fds, i + 1, Len(fds))
Reopened(t, f) ==
    IF At(t) = {} THEN fds
    ELSE LET i == CHOOSE j \in At(t) : TRUE
         IN  SubSeq(fds, 1, i - 1) \o <<f>> \o SubSeq(fds, i + 2, Len(fds))
ReplaceEnd == Step("replace", 4) /\ fds' = Reopened(op.t, file[op.t]) /\ RmMeta /\ UNCHANGED stale
\* rmDisk fails to unlink s: ReplaceDisk returns before it opens t again.
ReplaceRmFails ==
    /\ Step("replace", 3)
    /\ fds' = ReopenedStale(op.t, None) /\ RmMeta
    /\ stale' = (stale \/ At(op.t) # {})

\* RemoveDiffDisk of a leaf.
RemoveStart(s) ==
    /\ Ready /\ s \in removed /\ meta[s] # None /\ Children(s) = {}
    /\ op' = [k |-> "remove", s |-> s, pc |-> 1]
    /\ UNCHANGED <<dirVars>> /\ MemUnchanged
RemoveEnd == Step("remove", 2) /\ RmMeta /\ UNCHANGED <<fds, stale>>

-----------------------------------------------------------------------------
Next ==
    \/ \E w \in Write : WriteAt(w)
    \/ Crash \/ Close \/ Open
    \/ \E s \in Snap : SnapshotStart(s) \/ RevertStart(s)
    \/ NewHeadMeta("snapshot") \/ NewHeadMeta("revert")
    \/ LinkDisk \/ LinkMeta \/ SnapshotCommit \/ SnapshotMeta
    \/ RmOldHead("snapshot", 6) \/ SnapshotEnd
    \/ SnapshotFails \/ Rollback
    \/ RevertCommit \/ RmOldHead("revert", 3) \/ RevertEnd
    \/ RevertFails \/ RevertLateFails \/ RevertRefused \/ RevertMetaFails
    \/ \E s \in Snap : MarkDiskAsRemoved(s) \/ RemoveStart(s)
    \/ \E s \in Snap, t \in Name : FoldFile(s, t)
    \/ PurgeFails
    \/ ReplaceStart \/ ReplaceLink \/ ReplaceFails \/ ReplaceParent
    \/ RmDisk("replace", 3) \/ ReplaceEnd \/ ReplaceRmFails
    \/ RmDisk("remove", 1) \/ RemoveEnd

Spec == Init /\ [][Next]_vars

-----------------------------------------------------------------------------
(* Properties.                                                              *)

\* At every moment, also in the middle of an operation, a restart would open a
\* complete chain that holds exactly what the volume holds for its client
\* (construct after a crash in createDisk, revertDisk or ReplaceDisk).
VolumeSurvives == Complete(volMeta) /\ Content(volMeta) = vol

\* The same for every snapshot that was taken and not removed.
SnapshotsSurvive ==
    \A s \in Snap : shot[s] # None => Complete(s) /\ Content(s) = shot[s]

\* While it is open the replica reads, through the files it has open, what the
\* volume holds, unless a ReplaceDisk failed to unlink its source since then, or a
\* revert failed late and the engine has given the replica up.
OpenReads == Ready /\ ~stale => UNION {data[fds[i]] : i \in DOMAIN fds} = vol

\* After a revert that was reported as done, and until the next write, the volume
\* holds what the snapshot held (revertDisk, Server.Revert).
RevertDone == told # None => vol = told
=============================================================================
