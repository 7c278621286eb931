------------------------------- MODULE Engine -------------------------------
(***************************************************************************)
(* The engine (controller + replicator) of one volume, its replicas as it  *)
(* sees them, and the add-replica task that rebuilds one of them.          *)
(*                                                                         *)
(* A client operation is an identifier: the only fact kept about a replica *)
(* is which operations each file of its chain holds.  Identifiers never    *)
(* overlap, as a block frontend never has two outstanding requests for the *)
(* same sector.  One action is one critical section of Controller's        *)
(* RWMutex, or one RPC of the task; writes hold only the read lock, but    *)
(* nothing that holds the write lock can see them half done, and a read    *)
(* that overlaps one sees what it sees in state "failed".                  *)
(***************************************************************************)
EXTENDS Integers, FiniteSets

CONSTANTS
    Replica,    \* addresses
    Write,      \* client writes
    Unmap,      \* client unmaps (discards)
    Snap,       \* snapshot disk names, user names and generated uuids alike
    Task,       \* concurrent runs of the add-replica command
    Bytes,      \* written-byte counts reported with ENOSPC; {}: no ENOSPC
    NoReplica,  \* the target of an idle task
    RevisionCounterDisabled,
    Faults      \* which of the named hazards below may happen

(* "barge": a task picks its sources, or a snapshot is taken between the   *)
(*   choice of sources and the choice of disks, while a failed I/O waits   *)
(*   for the write lock of its handleError.                                *)
(* "addSnapshot": the snapshot that AddReplica takes fails on a replica.   *)
(* "counter": the data and the revision counter of a write that a replica  *)
(*   reports as failed land independently of each other.                   *)
(* "dupName": a snapshot is requested under an existing name during a      *)
(*   rebuild.                                                              *)
(* "snapshotFull": a snapshot finds every RW replica out of space while    *)
(*   the WO replica takes it.                                              *)
(* "forceRW": an operator sets a replica to RW through ReplicaUpdate.      *)
FaultKind == {"barge", "addSnapshot", "counter", "dupName", "snapshotFull",
              "forceRW"}

ASSUME FaultsAssumption == Faults \subseteq FaultKind
ASSUME DisabledAssumption == RevisionCounterDisabled \in BOOLEAN
ASSUME BytesAssumption == Bytes \subseteq Nat
ASSUME OpAssumption == Write \cap Unmap = {}
ASSUME NoReplicaAssumption == NoReplica \notin Replica
ASSUME ReplicaFinite == IsFiniteSet(Replica)

Op == Write \cup Unmap

VARIABLES
    mode,       \* c.replicas and replicator.backends: address -> mode
    head,       \* operations in the volume head of each replica
    disks,      \* snapshot disks in each replica's directory
    live,       \* snapshot disks in the chain each replica process has open
    data,       \* operations in each snapshot disk of each replica
    rev,        \* revision counter of each replica
    rebuilding, \* the Rebuilding flag of volume.meta
    st,         \* state of each client operation
    errs,       \* replicas an operation failed on, as the engine attributes it
    full,       \* those of them that reported ENOSPC
    pc,         \* where each add-replica task is
    tgt,        \* the replica it adds
    src,        \* the replicas it copies from
    todo        \* the snapshot disks it still has to copy

opVars == <<st, errs, full>>
diskVars == <<head, disks, live, data>>
taskVars == <<pc, tgt, src, todo>>
vars == <<mode, diskVars, rev, rebuilding, opVars, taskVars>>

-----------------------------------------------------------------------------
WithMode(m) == {r \in Replica : mode[r] = m}
RW == WithMode("RW")
WritersRWOnly == RW
Writers == {r \in Replica : mode[r] \in {"WO", "RW"}}
HasWOReplica == WithMode("WO") # {}

\* canAdd, and the mode check of VerifyRebuildReplica.
CanAddAny(r) == mode[r] = "none"
CanAdd(r) == mode[r] = "none" /\ ~HasWOReplica
CanBecomeRWFromERR(r) == mode[r] \in {"WO", "ERR"}
CanBecomeRW(r) == mode[r] = "WO"

\* What a read served by r returns: the chain the replica process has open.
Content(r) == head[r] \cup UNION {data[r][s] : s \in live[r]}

\* setReplicaModeNoLock(a, ERR) for every a in S: ERR replicas are left alone.
SetErr(m, S) ==
    [r \in Replica |-> IF r \in S /\ m[r] \in {"WO", "RW"} THEN "ERR" ELSE m[r]]

\* getRetainedReplicasMap: the most numerous group with one written-byte
\* count, the largest count among equally numerous groups.
Retained(S, wb) ==
    LET Group(b) == {r \in S : wb[r] = b}
    IN  {r \in S : \A q \in S :
            \/ Cardinality(Group(wb[q])) < Cardinality(Group(wb[r]))
            \/ /\ Cardinality(Group(wb[q])) = Cardinality(Group(wb[r]))
               /\ wb[q] <= wb[r]}

\* handleErrorNoLock for replicas E that failed, those in N of them with
\* ENOSPC: the modes after it, and whether all RW replicas were out of space.
AfterHard(E, N) == SetErr(mode, E \ N)
RWAfterHard(E, N) == {r \in Replica : AfterHard(E, N)[r] = "RW"}
AllFull(E, N) == N # {} /\ RWAfterHard(E, N) \subseteq N
HandleErrorIgnored(E, N, wb) == mode
HandleErrorNoLock(E, N, wb) ==
    LET rws == RWAfterHard(E, N)
        wos == {r \in N : AfterHard(E, N)[r] = "WO"}
        rwErr == IF ~AllFull(E, N) THEN rws \cap N
                 ELSE IF Cardinality(rws) = 1 THEN {}
                 ELSE rws \ Retained(rws, wb)
    IN  SetErr(AfterHard(E, N), wos \cup rwErr)

-----------------------------------------------------------------------------
\* A volume that was started with some replicas, all of them empty.
Init ==
    /\ \E S \in SUBSET Replica \ {{}} :
          mode = [r \in Replica |-> IF r \in S THEN "RW" ELSE "none"]
    /\ head = [r \in Replica |-> {}]
    /\ disks = [r \in Replica |-> {}]
    /\ live = [r \in Replica |-> {}]
    /\ data = [r \in Replica |-> [s \in Snap |-> {}]]
    /\ rev = [r \in Replica |-> 0]
    /\ rebuilding = [r \in Replica |-> FALSE]
    /\ st = [w \in Op |-> "new"]
    /\ errs = [w \in Op |-> {}]
    /\ full = [w \in Op |-> {}]
    /\ pc = [t \in Task |-> "idle"]
    /\ tgt = [t \in Task |-> NoReplica]
    /\ src = [t \in Task |-> {}]
    /\ todo = [t \in Task |-> {}]

-----------------------------------------------------------------------------
(* Client I/O.                                                             *)

\* The counter of a replica, which stays at 0 when counters are disabled.
CountedMinusOne(n) == IF RevisionCounterDisabled THEN -1 ELSE n
Counted(n) == IF RevisionCounterDisabled THEN 0 ELSE n

\* An operation is stored in the heads of S and counted on K.
Lands(o, S, K) ==
    /\ head' = [r \in Replica |-> IF r \in S THEN head[r] \cup {o} ELSE head[r]]
    /\ rev' = [r \in Replica |-> IF r \in K THEN Counted(rev[r] + 1) ELSE rev[r]]

\* Controller.WriteAt up to its RUnlock: MultiWriterAt sends the write to every
\* writer.  It fails on F, on N of those with ENOSPC.  A replica that failed may
\* hold the data all the same (D), and may have counted it (K): the counter is
\* advanced by a goroutine of its own before the data is known to be written.
WriteAt(w) ==
    /\ st[w] = "new" /\ RW # {}
    /\ \E F \in SUBSET Writers :
       \E N \in SUBSET F, D \in SUBSET F, K \in SUBSET F :
          /\ "counter" \in Faults \/ K = D
          /\ N = {} \/ Bytes # {}
          /\ Lands(w, (Writers \ F) \cup D, (Writers \ F) \cup K)
          /\ errs' = [errs EXCEPT ![w] = F]
          /\ full' = [full EXCEPT ![w] = N]
          /\ st' = [st EXCEPT ![w] = IF F = {} THEN "acked" ELSE "failed"]
    /\ UNCHANGED <<mode, disks, live, data, rebuilding, taskVars>>

\* Controller.UnmapAt.  replicator.UnmapAt looks for a *MultiWriterError, which
\* MultiUnmapperAt never returns, so a failure is attributed to unmapperIndex[0],
\* whichever writer that is.  With a WO replica nothing is unmapped, which the
\* client takes for a success of zero bytes.
UnmapAt(u) ==
    /\ st[u] = "new" /\ RW # {} /\ ~HasWOReplica
    /\ \E F \in SUBSET Writers, first \in Writers :
       \E D \in SUBSET F, K \in SUBSET F :
          /\ "counter" \in Faults \/ K = D
          /\ Lands(u, (Writers \ F) \cup D, (Writers \ F) \cup K)
          /\ errs' = [errs EXCEPT ![u] = IF F = {} THEN {} ELSE {first}]
          /\ st' = [st EXCEPT ![u] = IF F = {} THEN "acked" ELSE "failed"]
    /\ UNCHANGED <<mode, disks, live, data, rebuilding, full, taskVars>>

\* The error is ignored if a good replica is left, unless all are out of space.
AnswerFull(E, N) == IF \E r \in Replica : mode'[r] = "RW" THEN "acked" ELSE "error"
Answer(E, N) ==
    IF ~AllFull(E, N) /\ \E r \in Replica : mode'[r] = "RW" THEN "acked" ELSE "error"

\* handleError, under the write lock, some time after the RUnlock.
HandleError(w) ==
    /\ st[w] = "failed"
    /\ \E wb \in [full[w] -> Bytes] :
          mode' = HandleErrorNoLock(errs[w], full[w], wb)
    /\ st' = [st EXCEPT ![w] = Answer(errs[w], full[w])]
    /\ errs' = [errs EXCEPT ![w] = {}]
    /\ full' = [full EXCEPT ![w] = {}]
    /\ UNCHANGED <<diskVars, rev, rebuilding, taskVars>>

\* Controller.ReadAt whose first readers fail: their addresses reach handleError
\* some time later, in whatever mode the replicas are by then.  A read without
\* failures changes nothing the model keeps.
ReadAt ==
    /\ \E F \in SUBSET Writers \ {{}} : mode' = HandleErrorNoLock(F, {}, <<>>)
    /\ UNCHANGED <<diskVars, rev, rebuilding, opVars, taskVars>>

-----------------------------------------------------------------------------
(* Replica management.                                                     *)

\* createDisk on the replicas of S: the head becomes disk s, a new head is empty.
TakeSnapshot(S, s) ==
    /\ disks' = [r \in Replica |-> IF r \in S THEN disks[r] \cup {s} ELSE disks[r]]
    /\ live' = [r \in Replica |-> IF r \in S THEN live[r] \cup {s} ELSE live[r]]
    /\ data' = [r \in Replica |->
                    IF r \in S THEN [data[r] EXCEPT ![s] = head[r]] ELSE data[r]]
    /\ head' = [r \in Replica |-> IF r \in S THEN {} ELSE head[r]]

\* No failed I/O still waits for its handleError.
Settled == \A w \in Op : st[w] # "failed"

\* Controller.Snapshot: a replica that already has the disk rejects the request
\* and keeps its mode; one that fails otherwise goes through handleErrorNoLock.
\* Those of L took the snapshot although the engine saw an error.
Snapshot(s) ==
    /\ Writers # {}
    /\ \/ "barge" \in Faults \/ Settled
       \/ \A t \in Task : pc[t] \notin {"picked", "flagged"}
    /\ LET exist == {r \in Writers : s \in disks[r]}
       IN  \E F \in SUBSET (Writers \ exist) : \E N \in SUBSET F : \E L \in SUBSET (F \ N) :
             /\ "dupName" \in Faults \/ exist = {} \/ ~HasWOReplica
             /\ "snapshotFull" \in Faults \/ ~AllFull(F, N) \/ ~HasWOReplica
             /\ TakeSnapshot((Writers \ (exist \cup F)) \cup L, s)
             /\ \E wb \in [N -> Bytes] : mode' = HandleErrorNoLock(F, N, wb)
    /\ UNCHANGED <<rev, rebuilding, opVars, taskVars>>

\* monitoring() after a failed ping, or ReplicaUpdate(address, ERR).
SetReplicaModeERR(r) ==
    /\ mode[r] \in {"WO", "RW"}
    /\ mode' = SetErr(mode, {r})
    /\ UNCHANGED <<diskVars, rev, rebuilding, opVars, taskVars>>

\* ReplicaUpdate(address, RW), which checks nothing.
SetReplicaModeRW(r) ==
    /\ "forceRW" \in Faults
    /\ mode[r] = "WO"
    /\ mode' = [mode EXCEPT ![r] = "RW"]
    /\ UNCHANGED <<diskVars, rev, rebuilding, opVars, taskVars>>

\* Controller.RemoveReplica with the frontend up: never the last replica.
RemoveReplica(r) ==
    /\ mode[r] # "none"
    /\ \E q \in Replica \ {r} : mode[q] # "none"
    /\ mode' = [mode EXCEPT ![r] = "none"]
    /\ UNCHANGED <<diskVars, rev, rebuilding, opVars, taskVars>>

-----------------------------------------------------------------------------
(* The add-replica task: sync.Task.AddReplica, one RPC a step.  An error of *)
(* any step ends the task and leaves what was done before in place.         *)

Goto(t, p) == pc' = [pc EXCEPT ![t] = p]
Idle(t) ==
    /\ Goto(t, "idle")
    /\ tgt' = [tgt EXCEPT ![t] = NoReplica]
    /\ src' = [src EXCEPT ![t] = {}]
    /\ todo' = [todo EXCEPT ![t] = {}]

\* checkAndResetFailedRebuild, then ReplicaCreate(address, snapshot, WO).  The
\* replica is opened with the chain its directory has.  A snapshot under a fresh
\* name is taken on every writer, then on the new replica.
AddReplica(t, r, s) ==
    /\ pc[t] = "idle"
    /\ CanAdd(r) /\ Writers # {}
    /\ \A q \in Replica : s \notin disks[q]
    /\ rebuilding' = [rebuilding EXCEPT ![r] = FALSE]
    /\ \/ /\ disks' = [q \in Replica |->
                IF q \in Writers \cup {r} THEN disks[q] \cup {s} ELSE disks[q]]
          /\ live' = [q \in Replica |->
                IF q \in Writers THEN live[q] \cup {s}
                ELSE IF q = r THEN disks[q] \cup {s} ELSE live[q]]
          /\ data' = [q \in Replica |->
                IF q \in Writers \cup {r} THEN [data[q] EXCEPT ![s] = head[q]]
                ELSE data[q]]
          /\ head' = [q \in Replica |-> IF q \in Writers \cup {r} THEN {} ELSE head[q]]
          /\ mode' = [mode EXCEPT ![r] = "WO"]
          /\ Goto(t, "added") /\ tgt' = [tgt EXCEPT ![t] = r]
          /\ UNCHANGED <<src, todo>>
       \* The snapshot failed somewhere: the error is returned as it is, no
       \* replica is set to ERR and the ones that took the snapshot keep it.
       \/ /\ \E S \in SUBSET (Writers \cup {r}) :
                (S = {} \/ "addSnapshot" \in Faults) /\ TakeSnapshot(S, s)
          /\ UNCHANGED <<mode, taskVars>>
    /\ UNCHANGED <<rev, opVars>>

\* ReplicaCreate for a replica that is already there succeeds and does nothing.
AddReplicaAgain(t, r) ==
    /\ pc[t] = "idle" /\ mode[r] = "WO"
    /\ Goto(t, "added") /\ tgt' = [tgt EXCEPT ![t] = r]
    /\ UNCHANGED <<mode, diskVars, rev, rebuilding, opVars, src, todo>>

\* getTransferClients: any of the RW replicas, as many as the limit allows.
GetTransferClients(t) ==
    /\ pc[t] = "added" /\ ("barge" \in Faults \/ Settled)
    /\ mode[tgt[t]] = "WO" /\ RW # {}
    /\ \E S \in SUBSET RW \ {{}} : src' = [src EXCEPT ![t] = S]
    /\ Goto(t, "picked")
    /\ UNCHANGED <<mode, diskVars, rev, rebuilding, opVars, tgt, todo>>

\* SetRebuilding(true) on the replica, which must not be rebuilding yet.
SetRebuilding(t) ==
    /\ pc[t] = "picked" /\ ~rebuilding[tgt[t]]
    /\ rebuilding' = [rebuilding EXCEPT ![tgt[t]] = TRUE]
    /\ Goto(t, "flagged")
    /\ UNCHANGED <<mode, diskVars, rev, opVars, tgt, src, todo>>

\* removeExtraDisks: disks X leave the directory and the open chain of r.
RemoveExtraDisks(r, X) ==
    /\ disks' = [disks EXCEPT ![r] = @ \ X]
    /\ live' = [live EXCEPT ![r] = @ \ X]
    /\ data' = [data EXCEPT ![r] = [s \in Snap |-> IF s \in X THEN {} ELSE @[s]]]

\* PrepareRebuildReplica: the counter is reset before anything is checked; disks
\* that the chosen RW replica q does not have are removed, the rest are to be
\* copied.  It may fail after the reset or after removing some of the disks.
PrepareRebuildReplica(t) ==
    /\ pc[t] = "flagged" /\ mode[tgt[t]] # "none"
    /\ rev' = [rev EXCEPT ![tgt[t]] = 0]
    /\ \/ /\ mode[tgt[t]] = "WO"
          /\ \E q \in RW :
                /\ RemoveExtraDisks(tgt[t], disks[tgt[t]] \ disks[q])
                /\ todo' = [todo EXCEPT ![t] = disks[q]]
          /\ Goto(t, "syncing") /\ UNCHANGED <<tgt, src>>
       \/ /\ \E X \in SUBSET disks[tgt[t]] :
                /\ \/ X = {}
                   \/ /\ mode[tgt[t]] = "WO"
                      /\ \E q \in RW : X \cap disks[q] = {}
                /\ RemoveExtraDisks(tgt[t], X)
          /\ Idle(t)
    /\ UNCHANGED <<mode, head, rebuilding, opVars>>

\* fileSyncRemote copies one disk, with its meta file, from one of the sources.
SyncFile(t, s) ==
    /\ pc[t] = "syncing" /\ s \in todo[t]
    /\ \E q \in src[t] :
          /\ s \in disks[q]
          /\ data' = [data EXCEPT ![tgt[t]][s] = data[q][s]]
    /\ disks' = [disks EXCEPT ![tgt[t]] = @ \cup {s}]
    /\ todo' = [todo EXCEPT ![t] = @ \ {s}]
    /\ UNCHANGED <<mode, head, live, rev, rebuilding, opVars, pc, tgt, src>>

\* ReloadReplica: the replica reopens the chain its directory has now.
ReloadReplica(t) ==
    /\ pc[t] = "syncing" /\ todo[t] = {}
    /\ live' = [live EXCEPT ![tgt[t]] = disks[tgt[t]]]
    /\ Goto(t, "reloaded")
    /\ UNCHANGED <<mode, head, disks, data, rev, rebuilding, opVars,
                   tgt, src, todo>>

\* VerifyRebuildReplica: names of disks are compared with those of one RW
\* replica q; any error sets the replica to ERR.
VerifyRebuildReplica(t) ==
    /\ pc[t] = "reloaded"
    /\ \/ /\ mode[tgt[t]] = "RW" /\ RW # {tgt[t]}
          /\ Goto(t, "verified") /\ UNCHANGED <<mode, rev, tgt, src, todo>>
       \/ /\ CanBecomeRW(tgt[t])
          /\ \E q \in RW :
                /\ disks[tgt[t]] = disks[q]
                /\ rev' = [rev EXCEPT ![tgt[t]] = rev[q]]
          /\ mode' = [mode EXCEPT ![tgt[t]] = "RW"]
          /\ Goto(t, "verified") /\ UNCHANGED <<tgt, src, todo>>
       \/ /\ mode[tgt[t]] # "RW" \/ RW = {tgt[t]}
          /\ mode' = SetErr(mode, {tgt[t]})
          /\ Idle(t) /\ UNCHANGED rev
    /\ UNCHANGED <<diskVars, rebuilding, opVars>>

\* SetRebuilding(false), the last step of the task.
FinishRebuild(t) ==
    /\ pc[t] = "verified"
    /\ rebuilding' = [rebuilding EXCEPT ![tgt[t]] = FALSE]
    /\ Idle(t)
    /\ UNCHANGED <<mode, diskVars, rev, opVars>>

\* A step of the task returns an error before it changes anything.
TaskFails(t) ==
    /\ pc[t] # "idle"
    /\ Idle(t)
    /\ UNCHANGED <<mode, diskVars, rev, rebuilding, opVars>>

-----------------------------------------------------------------------------
ClientNext ==
    \/ \E w \in Write : WriteAt(w)
    \/ \E u \in Unmap : UnmapAt(u)
    \/ \E w \in Op : HandleError(w)
    \/ ReadAt
ReplicaNext ==
    \/ \E s \in Snap : Snapshot(s)
    \/ \E r \in Replica :
          SetReplicaModeERR(r) \/ SetReplicaModeRW(r) \/ RemoveReplica(r)
TaskStep(t) ==
    \/ \E r \in Replica, s \in Snap : AddReplica(t, r, s)
    \/ \E r \in Replica : AddReplicaAgain(t, r)
    \/ GetTransferClients(t) \/ SetRebuilding(t) \/ PrepareRebuildReplica(t)
    \/ \E s \in Snap : SyncFile(t, s)
    \/ ReloadReplica(t) \/ VerifyRebuildReplica(t)
    \/ FinishRebuild(t) \/ TaskFails(t)
Next == ClientNext \/ ReplicaNext \/ \E t \in Task : TaskStep(t)

Spec == Init /\ [][Next]_vars
-----------------------------------------------------------------------------
(* Properties.                                                             *)

Mode == {"none", "WO", "RW", "ERR"}
OpState == {"new", "failed", "acked", "error"}
TaskPC == {"idle", "added", "picked", "flagged", "syncing", "reloaded", "verified"}

\* Every variable has its type.
TypeOK ==
    /\ mode \in [Replica -> Mode]
    /\ head \in [Replica -> SUBSET Op]
    /\ disks \in [Replica -> SUBSET Snap]
    /\ live \in [Replica -> SUBSET Snap]
    /\ data \in [Replica -> [Snap -> SUBSET Op]]
    /\ rev \in [Replica -> Nat]
    /\ rebuilding \in [Replica -> BOOLEAN]
    /\ st \in [Op -> OpState]
    /\ errs \in [Op -> SUBSET Replica]
    /\ full \in [Op -> SUBSET Replica]
    /\ pc \in [Task -> TaskPC]
    /\ tgt \in [Task -> Replica \cup {NoReplica}]
    /\ src \in [Task -> SUBSET Replica]
    /\ todo \in [Task -> SUBSET Snap]

\* Every replica that may serve a read holds every write the client was told
\* is done, whichever replicas failed, were removed or were rebuilt meanwhile
\* (Controller.WriteAt, handleErrorNoLock, VerifyRebuildReplica).
RWHasAcked ==
    \A w \in Write : st[w] = "acked" => \A r \in RW : w \in Content(r)

\* The same for unmaps: a replica that still is RW when the engine ignores an
\* unmap error applied the unmap (replicator.UnmapAt, handleErrorNoLock).
RWHasUnmapped ==
    \A u \in Unmap : st[u] = "acked" => \A r \in RW : u \in Content(r)

\* Any two RW replicas have the same snapshot disks (Controller.Snapshot,
\* addReplicaNoLock, VerifyRebuildReplica).
ChainsInSync == \A a, b \in RW : disks[a] = disks[b]

\* There is never more than one replica being rebuilt (canAdd).
OneWO == \A a, b \in WithMode("WO") : a = b

\* A replica set to ERR takes no further part until it is removed from the
\* engine: whatever is in flight, no late answer brings it back
\* (setReplicaModeNoLock, VerifyRebuildReplica).
ErrSticks ==
    [][\A r \in Replica : mode[r] = "ERR" => mode'[r] \in {"ERR", "none"}]_vars

-----------------------------------------------------------------------------
(* The inductive invariant behind RWHasAcked: for one task and no faults.  *)

\* Replica r must hold w, now or once it is rebuilt: w was acknowledged, or it
\* will be unless the engine is about to give up on r.
Due(w, r) == st[w] = "acked" \/ (st[w] = "failed" /\ r \notin errs[w])
Sent == {w \in Write : st[w] \in {"acked", "failed"}}

\* w is in the head of every replica that must hold it, the WO one included ...
InHeads(w) == \A a \in Writers : Due(w, a) => w \in head[a]
\* ... or in one and the same snapshot disk of every replica of S that must.
InDisk(S, w, s) == \A a \in S : Due(w, a) => s \in disks[a] /\ w \in data[a][s]
Held(S, w) == InHeads(w) \/ \E s \in Snap : InDisk(S, w, s)

\* No source can provide a copy of s that lacks w.
SourcesHold(t, w, s) == \A a \in src[t] : s \in disks[a] => w \in data[a][s]

\* The rebuild of t can still end with an RW replica.
Rebuilds(t) == pc[t] # "idle" /\ mode[tgt[t]] = "WO" /\ RW # {}

Located == \A w \in Sent : Held(RW, w)
RWLive == \A r \in RW : live[r] = disks[r]
ErrsAre ==
    \A w \in Op : full[w] \subseteq errs[w] /\ (st[w] # "failed" => errs[w] = {})
TargetOK ==
    \A t \in Task :
        /\ pc[t] # "idle" => tgt[t] \in Replica \ src[t]
        /\ pc[t] \notin {"idle", "verified"} => mode[tgt[t]] # "RW"
        /\ pc[t] = "idle" => src[t] = {}

\* Between the choice of sources and the choice of disks.
PickedOK(t) ==
    /\ \A a \in src[t], q \in RW : disks[a] \subseteq disks[q]
    /\ \A w \in Sent :
          \/ InHeads(w)
          \/ /\ st[w] = "acked"
             /\ \E s \in Snap : InDisk(RW, w, s) /\ SourcesHold(t, w, s)

\* While disks are copied, and after the reload that follows.
Copied(t, w, s) ==
    \/ s \in todo[t] /\ SourcesHold(t, w, s)
    \/ s \in disks[tgt[t]] \ todo[t] /\ w \in data[tgt[t]][s]
SyncingOK(t) ==
    /\ \A q \in RW : todo[t] \subseteq disks[q]
    /\ \A w \in Sent :
          \/ InHeads(w)
          \/ \E s \in Snap : InDisk(RW, w, s) /\ (Due(w, tgt[t]) => Copied(t, w, s))
ReloadedOK(t) ==
    /\ live[tgt[t]] = disks[tgt[t]]
    /\ \A w \in Sent : Held(RW \cup {tgt[t]}, w)

TaskOK ==
    \A t \in Task : Rebuilds(t) =>
        /\ pc[t] \in {"picked", "flagged"} => PickedOK(t)
        /\ pc[t] = "syncing" => SyncingOK(t)
        /\ pc[t] = "reloaded" => ReloadedOK(t)

\* Every write that was acknowledged, or may still be, is where a reader of any
\* RW replica and a rebuild from any source will find it.
IInv ==
    /\ TypeOK /\ OneWO /\ ChainsInSync /\ RWLive /\ ErrsAre
    /\ Located /\ TargetOK /\ TaskOK
=============================================================================
