--------------------------- MODULE AgentTransfers ---------------------------
(***************************************************************************)
(* The sync agent's jobs that move data in or out of a replica: restore,   *)
(* clone, backup and the file transfer of a rebuild.                       *)
(***************************************************************************)
EXTENDS AgentJobs

(***************************************************************************)
(* Restore.  The first restore goes straight into the snapshot file; later *)
(* ones go into a delta file that is folded into it or, when the backup    *)
(* restored last is gone, into a temporary file that replaces it.          *)
(***************************************************************************)
\* What an incremental restore of b on top of `last` writes.
DeltaOf(b, last) ==
  [k \in Block |-> IF BackupData[b][k] = BackupData[last][k] THEN 0
                   ELSE BackupData[b][k]]

\* Mutant: a failed restore may be followed by another.
RestoreRefusedOnce(r, b) ==
  "restore" \in agent[r].busy \/ agent[r].restore.last = b

RestoreRefused(r, b) ==
  LET info == agent[r].restore
  IN  "restore" \in agent[r].busy \/ info.state = "error" \/ info.last = b

\* NewRestore and StartNewRestore: inc says whether the backup restored last
\* can still be inspected.
RestoreInfoFor(info, b, s, inc) ==
  IF info.last = None /\ info.state = ""
  THEN [state |-> "in_progress", last |-> None, cur |-> b, to |-> s, snap |-> s]
  ELSE [state |-> "in_progress", last |-> IF inc THEN info.last ELSE None,
        cur |-> b, to |-> IF inc THEN "delta" ELSE "tmp", snap |-> s]

\* StartRestore, under the agent's lock.  The target file is created anew
\* (OpenVolumeDev); a restore that cannot be initiated leaves RestoreInfo
\* as it was.
StartRestore(c, r, s) ==
  LET b == Op(c).backup
      old == agent[r].restore
  IN  \/ /\ RestoreRefused(r, b)
         /\ Refuse(c, r) /\ NoFail /\ UNCHANGED <<agent, dir>>
      \/ /\ ~RestoreRefused(r, b) /\ Fail
         /\ Refuse(c, r) /\ UNCHANGED <<agent, dir>>
      \/ /\ ~RestoreRefused(r, b)
         /\ \E inc \in BOOLEAN :
              LET info == RestoreInfoFor(old, b, s, inc)
              IN  /\ inc => old.last # None
                  /\ IF ~inc /\ old.last # None THEN Fail ELSE NoFail
                  /\ agent' = [agent EXCEPT ![r].busy = @ \cup {"restore"},
                                            ![r].restore = info]
                  /\ Update(r, Create(dir[r], info.to, Fresh(r), Empty))
                  /\ Step(c, r, [pc |-> "data", held |-> {}])

\* The deferred removal of the temporary files.
Cleaned(D) ==
  [D EXCEPT !.file["delta"] = 0, !.file["tmp"] = 0, !.meta["tmp"] = None]

\* FinishRestore.
EndRestore(c, r, how, D) ==
  /\ agent' = [agent EXCEPT ![r].busy = @ \ {"restore"},
                 ![r].restore.state = IF how = "ok" THEN "complete" ELSE "error",
                 ![r].restore.last = IF how = "ok" THEN agent[r].restore.cur ELSE @,
                 ![r].restore.cur = None]
  /\ End(c, r, how)
  /\ Update(r, D)

\* The backup store writes the target file; a failed transfer has written
\* some blocks.
RestoreData(c, r) ==
  LET info == agent[r].restore
      data == IF info.last = None THEN BackupData[info.cur]
              ELSE DeltaOf(info.cur, info.last)
      i == dir[r].file[info.to]
  IN  /\ At(c, r, "data")
      /\ \/ /\ NoFail
            /\ Update(r, Write(dir[r], i, data))
            /\ Step(c, r, [pc |-> "post", held |-> {}])
            /\ UNCHANGED agent
         \/ /\ Fail
            /\ \E B \in SUBSET Block : B # Block /\
                 EndRestore(c, r, "err",
                   Write(dir[r], i, [b \in Block |-> IF b \in B THEN data[b] ELSE 0]))
      /\ Elsewhere

\* postFullRestoreOperations: metadata, reload and revert of a first
\* restore, or the two renames and reload of a fallback.
PostFull(c, r) ==
  LET D == dir[r]
      info == agent[r].restore
      swapped == [D EXCEPT !.file[info.snap] = D.file["tmp"],
                           !.ctime[D.file["tmp"]] = @ + 1, !.file["tmp"] = 0]
  IN  /\ At(c, r, "post") /\ info.last = None
      /\ \/ /\ info.to # "tmp" /\ NoFail
            /\ Update(r, Reload(NewSnapshotMeta(D, info.snap)))
            /\ Step(c, r, [pc |-> "revert", held |-> {}])
            /\ UNCHANGED agent
         \/ /\ info.to = "tmp" /\ NoFail
            /\ EndRestore(c, r, "ok",
                          Cleaned(Reload(NewSnapshotMeta(swapped, info.snap))))
         \/ /\ Fail
            /\ \E E \in {D, IF info.to = "tmp" THEN Cleaned(swapped)
                            ELSE NewSnapshotMeta(D, info.snap)} :
                 EndRestore(c, r, "err", E)
      /\ Elsewhere

\* replicaRevert: the replica reverts, answers success without, or fails, which
\* it may do after it has reverted.
RestoreRevert(c, r) ==
  LET s == agent[r].restore.snap
      D == dir[r]
      reverted == Revert(D, s, Fresh(r))
  IN  /\ At(c, r, "revert")
      /\ \/ CanRevert(D, s) /\ NoFail /\ EndRestore(c, r, "ok", reverted)
         \/ CanRevert(D, s) /\ Fail /\ EndRestore(c, r, "ok", RevertSwallowed(D))
         \/ CanRevert(D, s) /\ Fail /\ \E E \in {D, reverted} : EndRestore(c, r, "err", E)
         \/ ~CanRevert(D, s) /\ NoFail /\ EndRestore(c, r, "err", D)
      /\ Elsewhere

\* postIncrementalRestoreOperations: fold the delta, reload.
PostIncremental(c, r) ==
  LET D == dir[r]
      s == agent[r].restore.snap
      folded == FoldFile(D, "delta", s)
  IN  /\ At(c, r, "post") /\ agent[r].restore.last # None
      /\ \/ /\ D.file[s] # 0 /\ NoFail
            /\ EndRestore(c, r, "ok", Cleaned(Reload(folded)))
         \/ /\ D.file[s] = 0 /\ NoFail
            /\ EndRestore(c, r, "err", Cleaned(D))
         \/ /\ D.file[s] # 0 /\ Fail
            /\ \E B \in SUBSET Block :
                 EndRestore(c, r, "err",
                   Cleaned(Write(D, D.file[s], [b \in Block |->
                     Layer(IF b \in B THEN folded ELSE D, s)[b]])))
      /\ Elsewhere

\* Reset: everything the agent remembers, unless it is restoring.
Reset(c, r) ==
  IF "restore" \in agent[r].busy
  THEN Refuse(c, r) /\ UNCHANGED agent
  ELSE /\ agent' = [agent EXCEPT ![r] =
                      [NewAgent EXCEPT !.busy = agent[r].busy,
                                       !.lock = agent[r].lock]]
       /\ End(c, r, "ok")

(***************************************************************************)
(* Clone.                                                                  *)
(***************************************************************************)
\* Mutant: the state is set without looking at the error.
EndCloneComplete(c, r, err) ==
  Finish(r, "clone", "complete") /\ End(c, r, "ok")

\* The deferred function of SnapshotClone.  The error of FinishClone, or
\* its absence, replaces the error of the clone.
EndClone(c, r, err) ==
  /\ Finish(r, "clone", IF err THEN "error" ELSE "complete")
  /\ End(c, r, IF "clone" \in agent[r].busy THEN "ok" ELSE "refused")

\* prepareClone: refused while a clone runs; the deferred function runs all
\* the same.
SnapshotClone(c, r) ==
  IF "clone" \in agent[r].busy
  THEN EndClone(c, r, TRUE)
  ELSE /\ agent' = [agent EXCEPT ![r].busy = @ \cup {"clone"},
                                 ![r].status["clone"] = "in_progress"]
       /\ Step(c, r, [pc |-> "copy", held |-> {}])

SnapshotCloneStatus(r) == StatusOf(r, "clone")

\* VolumeExport at the source: what has arrived once blocks B have been sent.
VolumeExport(B) == [b \in Block |-> IF b \in B THEN CloneData[b] ELSE 0]

\* startCloning: the source exports the snapshot into the receiver's file.
CloneCopy(c, r) ==
  LET D == dir[r]
      Put(v) == IF D.file[CloneSnap] = 0 THEN Create(D, CloneSnap, Fresh(r), v)
                ELSE Write(D, D.file[CloneSnap], v)
  IN  /\ At(c, r, "copy")
      /\ \/ /\ NoFail
            /\ Update(r, Put(VolumeExport(Block)))
            /\ Step(c, r, [pc |-> "cloned", held |-> {}])
            /\ UNCHANGED agent
         \/ /\ Fail
            /\ \E B \in SUBSET Block : B # Block /\
                 Update(r, Put(VolumeExport(B)))
            /\ EndClone(c, r, TRUE)
      /\ Elsewhere

\* postCloning: metadata and reload ...
PostClone(c, r) ==
  LET meta == NewSnapshotMeta(dir[r], CloneSnap)
  IN  /\ At(c, r, "cloned")
      /\ \/ /\ NoFail
            /\ Update(r, Reload(meta))
            /\ Step(c, r, [pc |-> "onto", held |-> {}])
            /\ UNCHANGED agent
         \/ /\ Fail
            /\ \E E \in {dir[r], meta, Reload(meta)} : Update(r, E)
            /\ EndClone(c, r, TRUE)
      /\ Elsewhere

\* ... and replicaRevert, with the outcomes it has for a restore.
CloneRevert(c, r) ==
  LET D == dir[r]
      can == CanRevert(D, CloneSnap)
      reverted == Revert(D, CloneSnap, Fresh(r))
  IN  /\ At(c, r, "onto")
      /\ \/ can /\ NoFail /\ Update(r, reverted) /\ EndClone(c, r, FALSE)
         \/ can /\ Fail /\ Update(r, RevertSwallowed(D)) /\ EndClone(c, r, FALSE)
         \/ /\ can /\ Fail /\ EndClone(c, r, TRUE)
            /\ \E E \in {D, reverted} : Update(r, E)
         \/ ~can /\ NoFail /\ UNCHANGED dir /\ EndClone(c, r, TRUE)
      /\ Elsewhere

(***************************************************************************)
(* Backup.                                                                 *)
(***************************************************************************)
\* NewBackup: the status of a backup, before anything is opened.
NewBackup == [pc |-> "enter", held |-> {}, fds |-> <<>>, got |-> Empty,
              todo |-> {}, path |-> <<>>]

\* BackupList.BackupDelete: a record of the same name gives way to the new one,
\* although its backup may still be running.
BackupDelete(list, name) == SelectSeq(list, LAMBDA e : Op(e).backup # name)

\* BackupList.BackupGet, as the agent's BackupStatus uses it.
BackupGet(r, name) ==
  {c \in Range(Refreshed(agent[r].backups, r)) : Op(c).backup = name}
BackupStatus(r, name) ==
  IF BackupGet(r, name) = {} THEN "not found"
  ELSE State(job[CHOOSE c \in BackupGet(r, name) : TRUE][r])

\* BackupCreate and DoBackupInit; BackupAdd starts by removing a record of the
\* same name.
BackupCreate(c, r) ==
  IF Op(c).snap \notin dir[r].loaded
  THEN Refuse(c, r) /\ UNCHANGED agent
  ELSE /\ Step(c, r, NewBackup)
       /\ agent' = [agent EXCEPT ![r].backups = BackupDelete(@, Op(c).backup)]

\* Mutant: only the snapshot's own file is opened.
BackupAddTop(c, r) ==
  LET s == Op(c).snap
      i == dir[r].file[s]
  IN  /\ At(c, r, "enter")
      /\ agent' = [agent EXCEPT ![r].backups = AddTo(@, c, r)]
      /\ Step(c, r, [NewBackup EXCEPT !.pc = "compare", !.held = {i}, !.fds = <<i>>,
                                      !.path = <<s>>])
      /\ NoFail /\ Elsewhere /\ UNCHANGED dir

\* BackupAdd appends the record, under the list's lock again; then the backup
\* store opens the snapshot read-only.
BackupAdd(c, r) ==
  LET D == dir[r]
      s == Op(c).snap
  IN  /\ At(c, r, "enter")
      /\ agent' = [agent EXCEPT ![r].backups = AddTo(@, c, r)]
      /\ IF Openable(D, s)
         THEN Step(c, r, [NewBackup EXCEPT !.pc = "compare", !.held = Range(Fds(D, s)),
                                           !.fds = Fds(D, s), !.path = Path(D, s)])
         ELSE Refuse(c, r)
      /\ NoFail /\ Elsewhere /\ UNCHANGED dir

\* UpdateBackupStatus: full progress completes a backup, whatever the error.
UpdateBackupStatus(c, r, j, err) ==
  Step(c, r, CASE j.todo = {} -> [pc |-> "ok", held |-> {}, got |-> j.got]
               [] j.todo # {} /\ err -> [pc |-> "err", held |-> {}]
               [] OTHER -> j)

\* HasSnapshot and findIndex: the place of a disk among the opened ones.
findIndex(path, s) == IF s \in Range(path) THEN CHOOSE i \in DOMAIN path : path[i] = s
                      ELSE Len(path) + 1

\* CompareSnapshot: the blocks whose topmost data lies above `last`.
CompareSnapshot(D, fds, last) ==
  {b \in Block : \E i \in DOMAIN fds : i < last /\ D.data[fds[i]][b] # 0}

\* CreateDeltaBlockBackup: the blocks that changed since the last backup, if
\* its snapshot is among the opened disks, on top of what that one holds.
BackupCompare(c, r) ==
  LET j == job[c][r]
      last == findIndex(j.path, Op(c).base)
      inc == last \in DOMAIN j.path
      k == [j EXCEPT !.pc = "backup", !.todo = CompareSnapshot(dir[r], j.fds, last),
                     !.got = IF inc THEN LastBackup[Op(c).base] ELSE @]
  IN  /\ At(c, r, "compare")
      /\ \/ NoFail /\ UpdateBackupStatus(c, r, k, FALSE)
         \/ Fail /\ Refuse(c, r)
      /\ Elsewhere /\ UNCHANGED <<dir, agent>>

\* ReadSnapshot of one changed block after the other.
BackupRead(c, r) ==
  LET j == job[c][r]
  IN  /\ At(c, r, "backup")
      /\ \/ /\ NoFail
            /\ \E b \in j.todo :
                 UpdateBackupStatus(c, r,
                   [j EXCEPT !.todo = @ \ {b},
                             !.got[b] = ReadThrough(dir[r], j.fds, b)], FALSE)
         \/ Fail /\ UpdateBackupStatus(c, r, j, TRUE)
      /\ Elsewhere /\ UNCHANGED <<dir, agent>>

(***************************************************************************)
(* File transfer of a rebuild: one worker per source replica.              *)
(***************************************************************************)
ReplicaRebuildStatus(r) == StatusOf(r, "rebuild")
RebuildRefused(r) == agent[r].busy \cap {"purge", "rebuild"} # {}

\* PrepareRebuild and the start of fileSyncRemote at target r, for the files
\* the controller listed.
FilesSync(c, r, sources, files) ==
  IF RebuildRefused(r)
  THEN Refuse(c, r) /\ UNCHANGED agent
  ELSE /\ agent' = [agent EXCEPT ![r].busy = @ \cup {"rebuild"},
                                 ![r].status["rebuild"] = "in_progress"]
       /\ Step(c, r, [pc |-> "sync", held |-> {}, unsynced |-> files,
                      retry |-> [f \in files |-> 0], quit |-> {}, agg |-> FALSE,
                      take |-> [w \in sources |-> None]])

\* A worker takes a file, or quits when a file has failed too often or none
\* is left to take.
SyncTake(c, r) ==
  LET j == job[c][r]
  IN  /\ At(c, r, "sync")
      /\ \E w \in DOMAIN j.take \ j.quit :
           /\ j.take[w] = None
           /\ \/ /\ j.unsynced = {} \/
                    \E f \in j.unsynced : j.retry[f] >= SyncRetryCount
                 /\ Step(c, r, [j EXCEPT !.quit = @ \cup {w}])
              \/ /\ \A f \in j.unsynced : j.retry[f] < SyncRetryCount
                 /\ \E f \in j.unsynced :
                      Step(c, r, [j EXCEPT !.unsynced = @ \ {f}, !.take[w] = f])
      /\ NoFail /\ Elsewhere /\ UNCHANGED <<dir, agent>>

\* The file f as source w has it now, at the target's directory D.
Received(D, w, f, i) ==
  LET d == f[1]
  IN  CASE f[2] = "meta" -> [D EXCEPT !.meta[d] = dir[w].meta[d]]
        [] D.file[d] = 0 /\ f[2] = "img" -> Create(D, d, i, Layer(dir[w], d))
        [] OTHER -> Write(D, D.file[d], Layer(dir[w], d))

\* SendFile answers; a file that failed is queued again.
SyncCopy(c, r) ==
  LET j == job[c][r]
  IN  /\ At(c, r, "sync")
      /\ \E w \in DOMAIN j.take :
           LET f == j.take[w]
               gone == dir[w].file[f[1]] = 0
               n == j.retry[f] + 1
           IN  /\ f # None
               /\ \/ /\ ~gone /\ NoFail
                     /\ Update(r, Received(dir[r], w, f, Fresh(r)))
                     /\ Step(c, r, [j EXCEPT !.take[w] = None])
                  \/ /\ IF gone THEN NoFail ELSE Fail
                     /\ Step(c, r, [j EXCEPT !.take[w] = None,
                                             !.unsynced = @ \cup {f},
                                             !.retry[f] = n,
                                             !.agg = @ \/ n >= SyncRetryCount])
                     /\ UNCHANGED dir
      /\ Elsewhere /\ UNCHANGED agent

\* Mutant: the errors of the workers are dropped.
SyncEndComplete(c, r) ==
  /\ At(c, r, "sync") /\ job[c][r].quit = DOMAIN job[c][r].take
  /\ Finish(r, "rebuild", "complete") /\ End(c, r, "ok")
  /\ NoFail /\ Elsewhere /\ UNCHANGED dir

\* The workers are done: FinishRebuild.
SyncEnd(c, r) ==
  LET j == job[c][r]
      failed == j.agg \/ j.unsynced # {}
  IN  /\ At(c, r, "sync") /\ j.quit = DOMAIN j.take
      /\ Finish(r, "rebuild", IF failed THEN "error" ELSE "complete")
      /\ End(c, r, IF failed THEN "refused" ELSE "ok")
      /\ NoFail /\ Elsewhere /\ UNCHANGED dir
=============================================================================
