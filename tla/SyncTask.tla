------------------------------ MODULE SyncTask ------------------------------
(***************************************************************************)
(* The engine's tasks (pkg/sync): a call reads the controller's list of    *)
(* replicas once, asks the replicas whether the operation may run, and     *)
(* then starts it at each of them.  The answers may be stale by then: the  *)
(* list, the checks and the calls are steps of their own.                  *)
(*                                                                         *)
(* task[c] is the state of call c: kind, the modes as listed, the replicas *)
(* left in the current loop, whether an error is to be returned, and what  *)
(* the call has decided so far.                                            *)
(***************************************************************************)
EXTENDS AgentTransfers

CONSTANTS
  SyncLimit       \* rebuildSyncConcurrentLimit

NewTask(op) ==
  [pc |-> "start", kind |-> op.kind, list |-> [r \in Replica |-> "none"],
   left |-> {}, err |-> FALSE, skip |-> op.skip, fails |-> FALSE,
   snap |-> None, inc |-> FALSE, writing |-> {}, sources |-> {}, files |-> {}]

TaskAt(c, pc) == task[c].pc = pc
Set(c, t) == task' = [task EXCEPT ![c] = t]
Return(c, err) == Set(c, [task[c] EXCEPT !.pc = "done", !.err = err, !.left = {}])
Rest == UNCHANGED <<load, volume, mode, rebuilding, dir, agent, job, faults>>

ListedIn(t) == {r \in Replica : t.list[r] # "none"}
isPurging(r) == SnapshotPurgeStatus(r).on
isRebuilding(r) == r \in rebuilding
isHashingSnapshot(r) == SnapshotHashLockState(r)

\* The next replica of a loop has been dealt with; after the last one the
\* task is at pc.
Advance(t, pc, all) ==
  LET rest == {r \in t.left : r # Min(t.left)}
  IN  IF rest # {} THEN [t EXCEPT !.left = rest]
      ELSE [t EXCEPT !.pc = pc, !.left = all]

(***************************************************************************)
(* Lists and checks.                                                       *)
(***************************************************************************)
\* ReplicaList.  A cancellation and a poll check nothing.
List(c) ==
  /\ TaskAt(c, "start")
  /\ task[c].kind \in {"delete", "purge", "hash", "cancel", "restore",
                       "reset", "clone", "hashstatus"}
  /\ Set(c, [task[c] EXCEPT !.list = mode, !.left = Listed,
               !.pc = IF task[c].kind \in {"cancel", "hashstatus"}
                      THEN "call" ELSE "check"])
  /\ Rest

\* DeleteSnapshot and Reset stop at a replica that is being rebuilt.
CheckRebuilding(c) ==
  LET t == task[c]
  IN  /\ TaskAt(c, "check") /\ t.kind \in {"delete", "reset"}
      /\ IF isRebuilding(Min(t.left)) THEN Return(c, TRUE)
         ELSE Set(c, Advance(t, "call", ListedIn(t)))
      /\ Rest

\* PurgeSnapshots collects errors; a purge in progress ends it at once,
\* without one, if the caller said so.
CheckPurge(c) ==
  LET t == task[c]
      r == Min(t.left)
      a == Advance([t EXCEPT !.err = @ \/ isRebuilding(r) \/ isPurging(r)],
                   "call", ListedIn(t))
  IN  /\ TaskAt(c, "check") /\ t.kind = "purge"
      /\ IF isPurging(r) /\ t.skip THEN Return(c, t.fails)
         ELSE IF a.pc = "call" /\ a.err THEN Return(c, TRUE)
         ELSE Set(c, a)
      /\ Rest

\* HashSnapshot stops at a replica that is not RW, is being rebuilt or
\* holds the hash lock.
CheckHash(c) ==
  LET t == task[c]
      r == Min(t.left)
  IN  /\ TaskAt(c, "check") /\ t.kind = "hash"
      /\ IF t.list[r] # "RW" \/ isRebuilding(r) \/ isHashingSnapshot(r)
         THEN Return(c, TRUE)
         ELSE Set(c, Advance(t, "call", ListedIn(t)))
      /\ Rest

\* CloneSnapshot only looks at the list.
CheckClone(c) ==
  LET t == task[c]
  IN  /\ TaskAt(c, "check") /\ t.kind = "clone"
      /\ IF \E r \in t.left : t.list[r] # "RW" THEN Return(c, TRUE)
         ELSE Set(c, [t EXCEPT !.pc = "call"])
      /\ Rest

\* RestoreBackup: first whether a replica is being rebuilt, collected; then
\* whether one is purging, by a new list, for those not in ERR.
CheckRestore(c) ==
  LET t == task[c]
      a == Advance([t EXCEPT !.err = @ \/ isRebuilding(Min(t.left))], "purging",
                   {r \in Listed : mode[r] # "ERR"})
  IN  /\ TaskAt(c, "check") /\ t.kind = "restore"
      /\ IF a.pc = "purging" /\ a.err THEN Return(c, TRUE) ELSE Set(c, a)
      /\ Rest

PurgeSnapshotStatus(c) ==
  LET t == task[c]
  IN  /\ TaskAt(c, "purging")
      /\ IF t.left # {} /\ isPurging(Min(t.left)) THEN Return(c, TRUE)
         ELSE Set(c, Advance(t, "status", {r \in Listed : mode[r] # "ERR"}))
      /\ Rest

\* Task.RestoreStatus, by a list of its own: whether a backup has been restored,
\* and the snapshots being written.  A replica that does not answer is passed
\* over.
RestoreStatus(c) ==
  LET t == task[c]
      r == Min(t.left)
      info == agent[r].restore
      seen == [t EXCEPT !.inc = @ \/ info.last # None,
                        !.writing = IF "restore" \in agent[r].busy
                                    THEN @ \cup {info.snap} ELSE @]
  IN  /\ TaskAt(c, "status")
      /\ \/ NoFail /\ Set(c, Advance(IF t.left = {} THEN t ELSE seen, "decide", {}))
         \/ t.left # {} /\ Fail /\ Set(c, Advance(t, "decide", {}))
      /\ UNCHANGED <<load, volume, mode, rebuilding, dir, agent, job>>

\* Task.RebuildStatus: the WO replicas, up to one that holds restored data.
RebuildStatus ==
  LET wo == {r \in Replica : mode[r] = "WO"}
      dr == {r \in wo : agent[r].restore.snap # None}
  IN  [r \in {q \in wo : \A d \in dr : q < d} |-> ReplicaRebuildStatus(r)]

CloneStatus == [r \in Listed |-> SnapshotCloneStatus(r)]

getNonBackingDisks(r) == dir[r].loaded

\* GetSnapshotsInfo: the RW replica with the most disks, the first of them.
SnapshotsInfo(t) ==
  LET rw == {r \in Replica : t.list[r] = "RW"}
      n(r) == Cardinality(getNonBackingDisks(r))
      most == {r \in rw : \A q \in rw : n(r) >= n(q)}
  IN  IF rw = {} THEN None ELSE dir[Min(most)]

\* RestoreBackup decides where the data goes: the snapshot another restore is
\* writing or a new one, the only snapshot there is, or nowhere before a purge
\* has left one.
RestoreDecide(c) ==
  LET t == task[c]
      D == SnapshotsInfo(t)
      n == IF D = None THEN 0 ELSE Cardinality(D.loaded)
      Into(s) == Set(c, [t EXCEPT !.pc = "inspect", !.snap = s])
  IN  /\ TaskAt(c, "decide")
      /\ \/ n = 0 /\ Return(c, TRUE)
         \/ n = 1 /\ t.inc /\ Return(c, TRUE)
         \/ n = 1 /\ ~t.inc /\ t.writing = {} /\ Into(UuidSnap[c])
         \/ n = 1 /\ ~t.inc /\ \E s \in t.writing : Into(s)
         \/ n = 2 /\ Into(IF D.meta[HeadDisk].parent = None THEN Nameless
                          ELSE D.meta[HeadDisk].parent)
         \/ n > 2 /\ Set(c, [t EXCEPT !.pc = "start", !.kind = "purge", !.skip = TRUE,
                                      !.fails = TRUE])
      /\ Rest

\* InspectBackup, and the size of the volume the backup is of.
InspectBackup(c) ==
  LET t == task[c]
  IN  /\ TaskAt(c, "inspect")
      /\ \/ NoFail /\ Set(c, [t EXCEPT !.pc = "call", !.left = ListedIn(t)])
         \/ Fail /\ Return(c, TRUE)
      /\ UNCHANGED <<load, volume, mode, rebuilding, dir, agent, job>>

(***************************************************************************)
(* Calls.  Most go to all replicas at once, in any order.                  *)
(***************************************************************************)
\* One call has been answered; the task waits once the last one has.
Called(c, r) ==
  LET t == task[c]
  IN  Set(c, [t EXCEPT !.left = @ \ {r},
                       !.pc = IF t.left = {r} THEN "wait" ELSE @])

Calling(c, r, kind) == TaskAt(c, "call") /\ task[c].kind = kind /\ r \in task[c].left
NoOther == UNCHANGED <<load, volume, mode, rebuilding>>

CallPurge(c, r) ==
  /\ Calling(c, r, "purge") /\ SnapshotPurge(c, r) /\ Called(c, r)
  /\ NoFail /\ NoOther /\ UNCHANGED dir

CallHash(c, r) ==
  /\ Calling(c, r, "hash") /\ SnapshotHash(c, r) /\ Called(c, r)
  /\ NoFail /\ NoOther /\ UNCHANGED dir

CallCancel(c, r) ==
  /\ Calling(c, r, "cancel") /\ SnapshotHashCancel(Op(c).snap, r) /\ Called(c, r)
  /\ NoFail /\ NoOther /\ UNCHANGED dir

\* HashSnapshotStatus asks the RW replicas; at one that is being rebuilt the
\* caller stops with a panic, as its deferred function reads a nil error.
CallHashStatus(c, r) ==
  LET rw == task[c].list[r] = "RW"
  IN  /\ Calling(c, r, "hashstatus")
      /\ agent' = IF rw /\ ~isRebuilding(r)
                  THEN [agent EXCEPT ![r].hashes = Refreshed(@, r)] ELSE agent
      /\ IF rw /\ isRebuilding(r) THEN Return(c, TRUE) ELSE Called(c, r)
      /\ NoFail /\ NoOther /\ UNCHANGED <<dir, job>>

\* FetchBackupStatus at the replica that serves the backup.
FetchBackupStatus(c) ==
  LET r == Op(c).target
  IN  /\ TaskAt(c, "start") /\ task[c].kind = "backupstatus"
      /\ agent' = [agent EXCEPT ![r].backups = Refreshed(@, r)]
      /\ Return(c, BackupStatus(r, Op(c).backup) = "not found")
      /\ NoFail /\ NoOther /\ UNCHANGED <<dir, job>>

CallClone(c, r) ==
  /\ Calling(c, r, "clone") /\ SnapshotClone(c, r) /\ Called(c, r)
  /\ NoFail /\ NoOther /\ UNCHANGED dir

\* restoreBackup: not for a replica in ERR.
CallRestore(c, r) ==
  /\ Calling(c, r, "restore") /\ Called(c, r)
  /\ IF task[c].list[r] = "ERR"
     THEN Refuse(c, r) /\ NoFail /\ UNCHANGED <<agent, dir>>
     ELSE StartRestore(c, r, task[c].snap)
  /\ NoOther

\* DeleteSnapshot goes from replica to replica and stops at one that is not
\* RW; each marks the disk, then cancels the hash of the snapshot.
CallDelete(c) ==
  LET t == task[c]
      r == Min(t.left)
  IN  /\ TaskAt(c, "call") /\ t.kind = "delete"
      /\ IF t.list[r] # "RW" THEN Return(c, TRUE) /\ UNCHANGED dir
         ELSE /\ Update(r, MarkDiskAsRemoved(dir[r], Op(c).snap))
              /\ Set(c, [t EXCEPT !.pc = "unhash"])
      /\ NoFail /\ NoOther /\ UNCHANGED <<agent, job>>

CancelSnapshotHashJob(c) ==
  LET t == task[c]
  IN  /\ TaskAt(c, "unhash")
      /\ SnapshotHashCancel(Op(c).snap, Min(t.left))
      /\ Set(c, [Advance(t, "done", {}) EXCEPT !.pc = IF Cardinality(t.left) = 1
                                                      THEN "done" ELSE "call"])
      /\ NoFail /\ NoOther /\ UNCHANGED dir

\* Task.Reset: one replica after the other, until one refuses.
CallReset(c) ==
  LET t == task[c]
      r == Min(t.left)
  IN  /\ TaskAt(c, "call") /\ t.kind = "reset"
      /\ Reset(c, r)
      /\ IF job'[c][r].pc = "refused" THEN Return(c, TRUE)
         ELSE Set(c, Advance(t, "done", {}))
      /\ NoFail /\ NoOther /\ UNCHANGED dir

\* CreateBackup asks the first RW replica, if there is one.
CreateBackup(c) ==
  /\ TaskAt(c, "start") /\ task[c].kind = "backup"
  /\ IF RWs = {} THEN Return(c, TRUE) /\ UNCHANGED <<agent, job>>
     ELSE /\ BackupCreate(c, Min(RWs))
          /\ Set(c, [task[c] EXCEPT !.pc = "wait"])
  /\ NoFail /\ NoOther /\ UNCHANGED dir

\* The calls have returned; those of a clone return when the job has ended,
\* that of a backup when it is known what to copy.  A purge in progress is no error for a caller
\* that skips it.
TaskEnd(c) ==
  LET t == task[c]
      refused == \E r \in Replica : At(c, r, "refused")
  IN  /\ TaskAt(c, "wait") /\ t.kind # "rebuild"
      /\ \A r \in Replica : job[c][r].pc \notin {"copy", "cloned", "onto", "enter", "compare"}
      /\ Return(c, t.fails \/ (refused /\ ~(t.kind = "purge" /\ t.skip)))
      /\ Rest

(***************************************************************************)
(* AddReplica: the rebuild of a replica.                                   *)
(***************************************************************************)
\* checkAndExpandReplica: a smaller replica gets the volume's size.
checkAndExpandReplica(r) == Expand(dir[r], volume.size, Fresh(r))

\* AddReplica of a volume that has replicas.  checkAndResetFailedRebuild
\* forgets an interrupted rebuild of a replica that is closed.
AddCheck(c) ==
  LET t == Op(c).target
  IN  /\ TaskAt(c, "start") /\ task[c].kind = "rebuild" /\ Listed # {}
      /\ \/ /\ IF dir[t].size > volume.size THEN NoFail ELSE Fail
            /\ Return(c, TRUE) /\ UNCHANGED <<dir, rebuilding>>
         \/ /\ dir[t].size <= volume.size /\ NoFail
            /\ Update(t, checkAndExpandReplica(t))
            /\ rebuilding' = IF mode[t] = "none" THEN rebuilding \ {t} ELSE rebuilding
            /\ Set(c, [task[c] EXCEPT !.pc = "create"])
      /\ UNCHANGED <<load, volume, mode, agent, job>>

\* ReplicaCreate: a snapshot everywhere, then the target is listed in WO;
\* nothing at all for a replica already listed, an error while another one
\* is WO or the volume expands.
AddCreate(c) ==
  LET t == Op(c).target
      no == volume.expanding \/ \E r \in Replica : mode[r] = "WO"
  IN  /\ TaskAt(c, "create")
      /\ \/ /\ mode[t] # "none" /\ NoFail
            /\ Set(c, [task[c] EXCEPT !.pc = "sources"])
            /\ UNCHANGED <<mode, dir>>
         \/ /\ mode[t] = "none" /\ IF no THEN NoFail ELSE Fail
            /\ Return(c, TRUE) /\ UNCHANGED <<mode, dir>>
         \/ /\ mode[t] = "none" /\ ~no /\ NoFail
            /\ Set(c, [task[c] EXCEPT !.pc = "sources"])
            /\ dir' = [r \in Replica |-> IF r \in RWs \cup {t}
                                         THEN createDisk(dir[r], UuidSnap[c], Fresh(r))
                                         ELSE dir[r]]
            /\ mode' = [mode EXCEPT ![t] = "WO"]
      /\ UNCHANGED <<load, volume, rebuilding, agent, job>>

\* getTransferClients and SetRebuilding: the map of sources is cut down to
\* the limit, whichever it drops; a replica that is being rebuilt already is
\* left alone.
AddSources(c) ==
  LET t == Op(c).target
      n == Min({SyncLimit, Cardinality(RWs)})
  IN  /\ TaskAt(c, "sources")
      /\ IF mode[t] # "WO" \/ RWs = {} \/ isRebuilding(t)
         THEN Return(c, TRUE) /\ UNCHANGED rebuilding
         ELSE /\ \E S \in kSubset(n, RWs) :
                   Set(c, [task[c] EXCEPT !.pc = "prepare", !.sources = S])
              /\ rebuilding' = rebuilding \cup {t}
      /\ UNCHANGED <<load, volume, mode, dir, agent, job, faults>>

\* syncFile: the head's metadata of directory S, into D.
syncFile(D, S) == [D EXCEPT !.meta[HeadDisk] = S.meta[HeadDisk]]

\* PrepareRebuildReplica, under the controller's lock: the disks of the last
\* RW replica, each with its metadata; extra disks of the target go, and the
\* head's metadata is copied.
PrepareRebuildReplica(c) ==
  LET t == Op(c).target
      D == dir[Max(RWs \ {t})]
      disks == D.loaded \ {HeadDisk}
      extra == dir[t].loaded \ (disks \cup {HeadDisk})
      kept == FoldSet(LAMBDA d, E : RemoveDiffDisk(E, d, AnyChild(E, d)),
                      dir[t], extra)
  IN  /\ TaskAt(c, "prepare")
      /\ IF mode[t] # "WO" \/ RWs = {} \/ ~Live(D)
         THEN Return(c, TRUE) /\ NoFail /\ UNCHANGED dir
         ELSE \/ /\ NoFail
                 /\ Update(t, syncFile(kept, D))
                 /\ Set(c, [task[c] EXCEPT !.pc = "files",
                                           !.files = disks \X {"img", "meta"}])
              \/ Fail /\ Return(c, TRUE) /\ UNCHANGED dir
      /\ UNCHANGED <<load, volume, mode, rebuilding, agent, job>>

AddFiles(c) ==
  /\ TaskAt(c, "files")
  /\ FilesSync(c, Op(c).target, task[c].sources, task[c].files)
  /\ Set(c, [task[c] EXCEPT !.pc = "wait"])
  /\ NoFail /\ NoOther /\ UNCHANGED dir

\* SyncFiles has returned; the replica is reloaded if its chain can be
\* opened.
AddReload(c) ==
  LET t == Op(c).target
      D == Reload(dir[t])
  IN  /\ TaskAt(c, "wait") /\ task[c].kind = "rebuild"
      /\ job[c][t].pc \in {"ok", "refused"}
      /\ IF At(c, t, "refused") \/ ~Openable(D, HeadDisk)
         THEN Return(c, TRUE) /\ UNCHANGED dir
         ELSE Update(t, D) /\ Set(c, [task[c] EXCEPT !.pc = "verify"])
      /\ NoFail /\ NoOther /\ UNCHANGED <<agent, job>>

\* VerifyRebuildReplica: the target has the disks the last RW replica has.
SameDisks(r, t) == dir[r].loaded = dir[t].loaded

VerifyRebuildReplica(c) ==
  LET t == Op(c).target
      others == RWs \ {t}
      ok == /\ others # {}
            /\ \/ mode[t] = "RW"
               \/ mode[t] = "WO" /\ SameDisks(Max(others), t)
  IN  /\ TaskAt(c, "verify")
      /\ \/ /\ ok /\ NoFail
            /\ mode' = [mode EXCEPT ![t] = "RW"]
            /\ Set(c, [task[c] EXCEPT !.pc = "clear"])
         \/ /\ IF ok THEN Fail ELSE NoFail
            /\ mode' = [mode EXCEPT ![t] = "ERR"]
            /\ Return(c, TRUE)
      /\ UNCHANGED <<load, volume, rebuilding, dir, agent, job>>

\* SetRebuilding(false).
AddClear(c) ==
  /\ TaskAt(c, "clear")
  /\ \/ NoFail /\ rebuilding' = rebuilding \ {Op(c).target} /\ Return(c, FALSE)
     \/ Fail /\ Return(c, TRUE) /\ UNCHANGED rebuilding
  /\ UNCHANGED <<load, volume, mode, dir, agent, job>>
=============================================================================
