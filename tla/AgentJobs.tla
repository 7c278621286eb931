------------------------------ MODULE AgentJobs ------------------------------
(***************************************************************************)
(* The jobs of a replica's sync agent: purge, hash, rebuild, clone,        *)
(* restore and backup (pkg/sync/rpc, pkg/replica/hash.go, restore.go and   *)
(* backup.go, pkg/backup).  A job belongs to the call c that started it at *)
(* replica r.  Its steps are the points where other jobs, or the replica,  *)
(* can come in between; what an agent computes from one answer is one step.*)
(***************************************************************************)
EXTENDS AgentState, SequencesExt

CONSTANTS
  BackupData,     \* contents of each backup in the store
  LastBackup,     \* contents of the last backup of each snapshot
  CloneData,      \* contents of the snapshot a clone copies
  SyncRetryCount, \* how often a file is tried
  MaxHashJobs     \* MaxSnapshotHashJobSize, and the backup list's limit

At(c, r, pc) == job[c][r].pc = pc
Refuse(c, r) == End(c, r, "refused")
Step(c, r, j) == job' = [job EXCEPT ![c][r] = j]
Update(r, D) == dir' = [dir EXCEPT ![r] = D]
Elsewhere == UNCHANGED <<load, volume, mode, rebuilding, task>>

(***************************************************************************)
(* Purge.                                                                  *)
(***************************************************************************)
\* Mutant: isPurging is not looked at.
SnapshotPurgeAgain(c, r) ==
  /\ agent' = [agent EXCEPT ![r].busy = @ \cup {"purge"},
                            ![r].status["purge"] = "in_progress"]
  /\ Step(c, r, [pc |-> "mark", held |-> {}])

\* PreparePurge: refused only by another purge of the same agent.
SnapshotPurge(c, r) ==
  IF "purge" \in agent[r].busy
  THEN Refuse(c, r) /\ UNCHANGED agent
  ELSE /\ agent' = [agent EXCEPT ![r].busy = @ \cup {"purge"},
                                 ![r].status["purge"] = "in_progress"]
       /\ Step(c, r, [pc |-> "mark", held |-> {}])

EndPurge(c, r, how) ==
  /\ Finish(r, "purge", IF how = "ok" THEN "complete" ELSE "error")
  /\ End(c, r, how)

SnapshotPurgeStatus(r) == StatusOf(r, "purge")

\* The first reading of the chain: its leaves, and the system snapshots to
\* mark as removed.
PurgeBegin(c, r) ==
  LET D == dir[r]
  IN  /\ At(c, r, "mark")
      /\ Step(c, r, [pc |-> "marks", held |-> {}, todo |-> <<>>,
                     ops |-> <<>>, latest |-> None,
                     system |-> {d \in D.loaded \ {HeadDisk} :
                                   ~D.meta[d].user /\ ~D.meta[d].removed},
                     leaves |-> {d \in D.loaded : Children(D, d) = {}}])
      /\ NoFail /\ Elsewhere /\ UNCHANGED <<dir, agent>>

\* markSnapshotAsRemoved, one call of the replica each, in any order.
PurgeMark(c, r) ==
  LET j == job[c][r]
  IN  /\ At(c, r, "marks")
      /\ \/ /\ j.system = {} /\ NoFail
            /\ Step(c, r, [j EXCEPT !.pc = "leaf"])
            /\ UNCHANGED <<dir, agent>>
         \/ /\ \E d \in j.system :
                 /\ Update(r, MarkDiskAsRemoved(dir[r], d))
                 /\ Step(c, r, [j EXCEPT !.system = @ \ {d}])
            /\ NoFail /\ UNCHANGED agent
         \/ /\ j.system # {} /\ Fail
            /\ EndPurge(c, r, "err") /\ UNCHANGED dir
      /\ Elsewhere

\* The snapshots marked as removed on the way from a leaf to the root, by
\* the information read before the walk.
RemovedOnPath(D, leaf) ==
  SelectSeq(Path(D, leaf), LAMBDA d : d \in D.loaded /\ D.meta[d].removed)

\* One leaf after the other; the snapshot right behind the head is kept for
\* the end.
PurgeLeaf(c, r) ==
  LET D == dir[r]
      j == job[c][r]
  IN  /\ At(c, r, "leaf")
      /\ \/ \E leaf \in j.leaves :
              LET path == IF leaf \in D.loaded THEN RemovedOnPath(D, leaf)
                          ELSE <<>>
                  behind == {d \in Range(path) : HeadDisk \in Children(D, d)}
                  first == j.latest = None /\ behind # {}
              IN  /\ Step(c, r,
                       [j EXCEPT !.leaves = @ \ {leaf}, !.pc = "remove",
                          !.latest = IF first THEN CHOOSE d \in behind : TRUE
                                     ELSE @,
                          !.todo = IF first
                                   THEN SelectSeq(path, LAMBDA d : d \notin behind)
                                   ELSE path])
                  /\ UNCHANGED agent
         \/ /\ j.leaves = {} /\ j.latest # None
            /\ Step(c, r, [j EXCEPT !.pc = "remove", !.latest = None,
                                    !.todo = <<j.latest>>])
            /\ UNCHANGED agent
         \/ j.leaves = {} /\ j.latest = None /\ EndPurge(c, r, "ok")
      /\ NoFail /\ Elsewhere /\ UNCHANGED dir

\* processPrepareRemoveDisks: the operations that remove disk d.
PrepareOps(D, d) ==
  LET kids == Children(D, d)
      kid == AnyChild(D, d)
      Do(what) == [what |-> what, disk |-> d, kid |-> kid,
                   head |-> D.file[HeadDisk]]
  IN  IF d \notin D.loaded \/ Cardinality(kids) > 1 THEN <<>>
      ELSE CASE kids = {} -> <<Do("remove")>>
             [] kids = {HeadDisk} -> <<Do("prune")>>
             [] OTHER -> <<Do("coalesce"), Do("replace")>>

\* Mutant: the walk does not advance.
PurgeRemoveAgain(c, r) ==
  LET j == job[c][r]
  IN  /\ At(c, r, "remove")
      /\ Step(c, r, IF j.todo = <<>> THEN [j EXCEPT !.pc = "leaf"]
                    ELSE [j EXCEPT !.pc = "op", !.ops = PrepareOps(dir[r], j.todo[1])])
      /\ NoFail /\ Elsewhere /\ UNCHANGED <<dir, agent>>

\* PrepareRemoveDisk for the next snapshot of the walk.
PurgeRemove(c, r) ==
  LET D == dir[r]
      j == job[c][r]
  IN  /\ At(c, r, "remove")
      /\ IF j.todo = <<>>
         THEN Step(c, r, [j EXCEPT !.pc = "leaf"]) /\ UNCHANGED agent
         ELSE LET d == j.todo[1]
              IN  IF d \in D.loaded /\ ~D.meta[d].removed
                  THEN EndPurge(c, r, "err")
                  ELSE /\ Step(c, r, [j EXCEPT !.pc = "op", !.todo = Tail(@),
                                               !.ops = PrepareOps(D, d)])
                       /\ UNCHANGED agent
      /\ NoFail /\ Elsewhere /\ UNCHANGED dir

\* What an operation does to the directory; o.kid is the child it names.
Operate(D, o) ==
  CASE o.what = "coalesce" -> FoldFile(D, o.kid, o.disk)
    [] o.what = "replace"  -> ReplaceDisk(D, o.kid, o.disk)
    [] o.what = "prune"    -> PruneFile(D, o.disk, o.kid)
    [] o.what = "remove"   -> RemoveDiffDisk(D, o.disk, AnyChild(D, o.disk))

\* A fold that fails has folded some of the blocks.
Partly(D, o, B) ==
  IF o.what # "coalesce" THEN D
  ELSE Write(D, D.file[o.disk],
             [b \in Block |-> Layer(IF b \in B THEN FoldFile(D, o.kid, o.disk)
                                   ELSE D, o.disk)[b]])

\* The file an operation needs may be gone, or have got other children; a
\* new head has another name.
CanOperate(D, o) ==
  /\ D.file[o.disk] # 0
  /\ o.kid = HeadDisk => D.file[HeadDisk] = o.head
  /\ o.kid # None => D.file[o.kid] # 0
  /\ o.what \in {"replace", "remove"} => Cardinality(Children(D, o.disk)) <= 1

\* processRemoveSnapshot carries out the operations in order.
PurgeOp(c, r) ==
  LET D == dir[r]
      j == job[c][r]
  IN  /\ At(c, r, "op")
      /\ \/ /\ j.ops = <<>>
            /\ Step(c, r, [j EXCEPT !.pc = "remove"])
            /\ NoFail /\ UNCHANGED <<agent, dir>>
         \/ /\ j.ops # <<>> /\ CanOperate(D, j.ops[1])
            /\ Update(r, Operate(D, j.ops[1]))
            /\ Step(c, r, [j EXCEPT !.ops = Tail(@)])
            /\ NoFail /\ UNCHANGED agent
         \/ /\ j.ops # <<>>
            /\ IF CanOperate(D, j.ops[1])
               THEN Fail /\ \E B \in SUBSET Block : Update(r, Partly(D, j.ops[1], B))
               ELSE NoFail /\ UNCHANGED dir
            /\ EndPurge(c, r, "err")
      /\ Elsewhere

(***************************************************************************)
(* Lists of jobs: SnapshotHashList and BackupList.                         *)
(***************************************************************************)
\* The State field of a job; a hash job that verifies its checksum file has
\* already set Complete.
State(j) == CASE j.pc \in {"ok", "verify"} -> "complete"
              [] j.pc \in {"err", "refused"} -> "error"
              [] OTHER -> "in_progress"

\* purgePartialRetained (and BackupList.refresh) for one state, where st
\* gives the state of each entry: the newest `limit` entries in that state
\* stay, older ones are dropped from the newest on.  The index is decremented
\* twice after a removal, so the entry before a dropped one is not looked at.
Retained(list, st, state, limit) ==
  LET in == {i \in DOMAIN list : st[list[i]] = state}
      old == {i \in in : Cardinality({k \in in : k > i}) >= limit}
      n == Len(list)
      seen[k \in 0 .. n] ==      \* index n + 1 - k is looked at
        LET i == n + 1 - k
            Hit(m) == m > 0 /\ seen[m] /\ (n + 1 - m) \in old
        IN  /\ k > 0 /\ old # {} /\ i <= Max(old)
            /\ \/ i = Max(old)
               \/ k > 1 /\ seen[k - 1] /\ ~Hit(k - 1)
               \/ k > 2 /\ Hit(k - 2)
      drop == {i \in old : seen[n + 1 - i]}
  IN  SelectSeq([i \in 1 .. n |-> <<i, list[i]>>], LAMBDA e : e[1] \notin drop)

Refresh(list, st) ==
  LET Second(s) == [i \in DOMAIN s |-> s[i][2]]
      kept == Second(Retained(list, st, "complete", MaxHashJobs))
  IN  Second(Retained(kept, st, "error", MaxHashJobs))

\* The list at replica r with the new entry c.
AddTo(list, c, r) ==
  Refresh(Append(list, c), [e \in Range(list) \cup {c} |->
            IF e = c THEN "in_progress" ELSE State(job[e][r])])

\* What every look into a list does to it first.
Refreshed(list, r) == Refresh(list, [e \in Range(list) |-> State(job[e][r])])

(***************************************************************************)
(* Hash.                                                                   *)
(***************************************************************************)
\* The call is answered before the job is entered in the list.
SnapshotHash(c, r) ==
  /\ Step(c, r, [pc |-> "add", held |-> {}, snap |-> Op(c).snap,
                 rehash |-> Op(c).rehash, cancel |-> FALSE, fd |-> 0,
                 got |-> <<>>, ct |-> None, bad |-> FALSE])
  /\ UNCHANGED agent

\* Mutant: a job at work on the same snapshot is not looked for.
HashAddAgain(c, r) ==
  /\ At(c, r, "add")
  /\ agent' = [agent EXCEPT ![r].hashes =
                 AddTo(SelectSeq(@, LAMBDA e : job[e][r].snap # job[c][r].snap), c, r)]
  /\ Step(c, r, [job[c][r] EXCEPT !.pc = "lock"])
  /\ NoFail /\ Elsewhere /\ UNCHANGED dir

\* SnapshotHashList.Add: not while the same snapshot is being hashed.
HashAdd(c, r) ==
  LET s == job[c][r].snap
      Same(e) == job[e][r].snap = s
      list == agent[r].hashes
  IN  /\ At(c, r, "add")
      /\ IF \E i \in DOMAIN list :
              Same(list[i]) /\ State(job[list[i]][r]) = "in_progress"
         THEN Step(c, r, [job[c][r] EXCEPT !.pc = "err"]) /\ UNCHANGED agent
         ELSE /\ agent' = [agent EXCEPT ![r].hashes =
                            AddTo(SelectSeq(@, LAMBDA e : ~Same(e)), c, r)]
              /\ Step(c, r, [job[c][r] EXCEPT !.pc = "lock"])
      /\ NoFail /\ Elsewhere /\ UNCHANGED dir

SnapshotHashLockState(r) == agent[r].lock # None

HashStop(c, r, pc, bad) ==
  /\ Step(c, r, [job[c][r] EXCEPT !.pc = pc, !.held = {}, !.bad = bad])
  /\ agent' = [agent EXCEPT ![r].lock = IF @ = c THEN None ELSE @]

\* The checksum on record was taken at the change time the file has.
Recorded(D, s) ==
  D.sum[s] # None /\ D.file[s] # 0 /\ D.sum[s].ct = ChangeTime(D, s)

isSilentCorruptionAlreadyDetected(D, s) == Recorded(D, s) /\ D.sum[s].bad
isRehashRequired(D, s) == ~Recorded(D, s)
isChangeTimeRemain(D, s, ct) == D.file[s] # 0 /\ ChangeTime(D, s) = ct

\* Execute under the hash lock: the change time, corruption found earlier,
\* and a recorded checksum that is still current end the job early.
HashBegin(c, r) ==
  LET D == dir[r]
      j == job[c][r]
      gone == D.file[j.snap] = 0
      bad == isSilentCorruptionAlreadyDetected(D, j.snap)
      hash == j.rehash \/ isRehashRequired(D, j.snap)
  IN  /\ At(c, r, "lock") /\ ~SnapshotHashLockState(r)
      /\ \/ gone /\ HashStop(c, r, "err", FALSE)
         \/ ~gone /\ bad /\ HashStop(c, r, "ok", TRUE)
         \/ ~gone /\ ~bad /\ ~hash /\ HashStop(c, r, "ok", FALSE)
         \/ /\ ~gone /\ ~bad /\ hash
            /\ agent' = [agent EXCEPT ![r].lock = c]
            /\ Step(c, r, [j EXCEPT !.pc = "read", !.ct = ChangeTime(D, j.snap),
                                    !.fd = D.file[j.snap],
                                    !.held = {D.file[j.snap]}])
      /\ NoFail /\ Elsewhere /\ UNCHANGED dir

\* dataCopyWithExistenceCheck: block after block from the open file, until
\* the job is cancelled, the file is found missing, or a read fails.
HashRead(c, r) ==
  LET j == job[c][r]
      all == Len(j.got) = Cardinality(Block)
  IN  /\ At(c, r, "read") /\ ~all
      /\ \/ /\ ~j.cancel /\ NoFail
            /\ Step(c, r, [j EXCEPT !.got =
                             Append(@, dir[r].data[j.fd][Len(@) + 1])])
            /\ UNCHANGED agent
         \/ /\ IF j.cancel \/ dir[r].file[j.snap] = 0 THEN NoFail ELSE Fail
            /\ HashStop(c, r, "err", FALSE)
      /\ Elsewhere /\ UNCHANGED dir

\* isSnapshotSilentlyCorrupted: another checksum on record for a change
\* time that is still the file's.
SilentlyCorrupted(D, s, got) ==
  Recorded(D, s) /\ D.sum[s].val # got

HashJudge(c, r) ==
  LET D == dir[r]
      j == job[c][r]
      bad == SilentlyCorrupted(D, j.snap, j.got)
      sum == D.sum[j.snap]
  IN  /\ At(c, r, "read") /\ Len(j.got) = Cardinality(Block)
      /\ agent' = [agent EXCEPT ![r].lock = None]
      /\ Step(c, r, [j EXCEPT !.pc = "set", !.held = {}, !.bad = bad,
                              !.got = IF bad THEN sum.val ELSE @,
                              !.ct = IF bad THEN sum.ct ELSE @])
      /\ NoFail /\ Elsewhere /\ UNCHANGED dir

\* The deferred end of Execute, after the lock is released: the checksum
\* file is written; failing to is only logged ...
HashSet(c, r) ==
  LET j == job[c][r]
  IN  /\ At(c, r, "set")
      /\ \/ /\ NoFail
            /\ Update(r, [dir[r] EXCEPT !.sum[j.snap] =
                            [val |-> j.got, ct |-> j.ct, bad |-> j.bad]])
         \/ Fail /\ UNCHANGED dir
      /\ Step(c, r, [j EXCEPT !.pc = "verify"])
      /\ Elsewhere /\ UNCHANGED agent

\* Mutant: the checksum file stays.
HashVerifyKept(c, r) ==
  /\ At(c, r, "verify")
  /\ Step(c, r, [job[c][r] EXCEPT !.pc = "ok"])
  /\ NoFail /\ Elsewhere /\ UNCHANGED <<agent, dir>>

\* ... and removed again when the change time has moved since; failing to is
\* only logged too.
HashVerify(c, r) ==
  LET D == dir[r]
      j == job[c][r]
      remain == isChangeTimeRemain(D, j.snap, j.ct)
  IN  /\ At(c, r, "verify")
      /\ Step(c, r, [j EXCEPT !.pc = IF remain THEN "ok" ELSE "err"])
      /\ \/ NoFail /\ Update(r, IF remain THEN D ELSE [D EXCEPT !.sum[j.snap] = None])
         \/ ~remain /\ Fail /\ UNCHANGED dir
      /\ Elsewhere /\ UNCHANGED agent

\* SnapshotHashList.Get: the job of snapshot s, at most one.
HashGet(r, s) ==
  {c \in Range(Refreshed(agent[r].hashes, r)) : job[c][r].snap = s}

\* SnapshotHashStatus: a job that is not listed any more is known by its
\* checksum file, and has failed without one.
SnapshotHashStatus(r, s) ==
  CASE HashGet(r, s) # {} -> State(job[CHOOSE c \in HashGet(r, s) : TRUE][r])
    [] HashGet(r, s) = {} /\ Recorded(dir[r], s) -> "complete"
    [] OTHER -> "error"

\* SnapshotHashCancel: the listed job of the snapshot, if there is one.
SnapshotHashCancel(s, r) ==
  /\ job' = [c \in Call |-> IF c \in HashGet(r, s)
                            THEN [job[c] EXCEPT ![r].cancel = TRUE] ELSE job[c]]
  /\ agent' = [agent EXCEPT ![r].hashes = Refreshed(@, r)]

\* The medium alters a block of a snapshot; nothing notices.
BitRot(r) ==
  /\ load.rot /\ Fail
  /\ \E s \in UserSnap, b \in Block :
       LET i == dir[r].file[s]
       IN  /\ i \notin {0} \cup dir[r].rot
           /\ Update(r, [dir[r] EXCEPT !.data[i][b] = -1, !.rot = @ \cup {i}])
  /\ Elsewhere /\ UNCHANGED <<agent, job>>
=============================================================================
