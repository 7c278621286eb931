----------------------------- MODULE VolumeTask -----------------------------
(***************************************************************************)
(* Two operations of the controller that change every replica's directory  *)
(* while the sync agents are at work: reverting the volume to a snapshot   *)
(* and expanding it (pkg/controller/revert.go, control.go, replicator.go). *)
(***************************************************************************)
EXTENDS SyncTask

(***************************************************************************)
(* Controller.Revert.  The frontend is down.                               *)
(***************************************************************************)
\* The first RW replica that has the snapshot says whether it is removed.
Revertible(s) ==
  LET have == {r \in RWs : s \in dir[r].loaded}
  IN  /\ \A r \in Replica : mode[r] # "WO"
      /\ have # {} /\ ~dir[Min(have)].meta[s].removed
      /\ \A r \in RWs : r < Min(have) => Live(dir[r])

\* The replicas are chosen without the controller's lock ...
clientsAndSnapshot(c) ==
  /\ TaskAt(c, "start") /\ task[c].kind = "revert"
  /\ \/ /\ Revertible(Op(c).snap) /\ NoFail
        /\ Set(c, [task[c] EXCEPT !.pc = "revert", !.sources = RWs])
     \/ /\ IF Revertible(Op(c).snap) THEN Fail ELSE NoFail
        /\ Return(c, TRUE)
  /\ NoOther /\ UNCHANGED <<dir, agent, job>>

\* Mutant: a replica that fails stays as it is.
ControllerRevertKept(c) ==
  LET t == task[c]
  IN  /\ TaskAt(c, "revert")
      /\ \E bad \in SUBSET t.sources :
           /\ IF bad # {} THEN Fail ELSE NoFail
           /\ dir' = [r \in Replica |-> IF r \in t.sources \ bad
                                        THEN Revert(dir[r], Op(c).snap, Fresh(r))
                                        ELSE dir[r]]
           /\ Return(c, bad = t.sources)
      /\ UNCHANGED <<load, volume, mode, rebuilding, agent, job>>

\* ... and reverted under it; those that fail, or whose answer is lost, are
\* set to ERR.  Those that answer success without having reverted are not.
ControllerRevert(c) ==
  LET t == task[c]
      can == {r \in t.sources : CanRevert(dir[r], Op(c).snap)}
  IN  /\ TaskAt(c, "revert")
      /\ \E done \in SUBSET can : \E good \in SUBSET done, swallowed \in SUBSET (can \ done) :
           /\ IF good # can THEN Fail ELSE NoFail
           /\ dir' = [r \in Replica |->
                        CASE r \in done -> Revert(dir[r], Op(c).snap, Fresh(r))
                          [] r \in swallowed -> RevertSwallowed(dir[r])
                          [] OTHER -> dir[r]]
           /\ mode' = [r \in Replica |->
                         IF r \in (t.sources \ (good \cup swallowed)) \cap Listed
                         THEN "ERR" ELSE mode[r]]
           /\ Return(c, good \cup swallowed = {})
      /\ UNCHANGED <<load, volume, rebuilding, agent, job>>

(***************************************************************************)
(* Controller.Expand.                                                      *)
(***************************************************************************)
\* The call returns here; a goroutine does the rest.  A call for the size the
\* volume has goes on without setting isExpanding.
startExpansion(c) ==
  /\ TaskAt(c, "start") /\ task[c].kind = "expand"
  /\ IF volume.expanding \/ Op(c).size < volume.size
     THEN Return(c, TRUE) /\ UNCHANGED volume
     ELSE /\ volume' = [volume EXCEPT !.expanding = Op(c).size # volume.size]
          /\ Set(c, [task[c] EXCEPT !.pc = "grow"])
  /\ UNCHANGED <<load, mode, rebuilding, dir, agent, job, faults>>

\* Mutant: a rollback is taken for the replica being in sync.
OutOfSyncRolledBack(result) ==
  {r \in DOMAIN result : result[r] \in {"failed", "unknown"}}

\* replicator.Expand: with some replicas expanded, all others are out of
\* sync; with none, only those that could not be rolled back.
OutOfSync(result) ==
  LET failed == {r \in DOMAIN result : result[r] # "ok"}
  IN  IF failed # DOMAIN result THEN failed
      ELSE {r \in failed : result[r] # "rolled back"}

\* Under the lock, at every replica not in ERR; one that is larger already
\* fails without a rollback, and of one that times out it is not known
\* whether it expanded.  canDoSnapshot may forbid it all.
BackendExpand(c) ==
  LET t == task[c]
      all == {r \in Listed : mode[r] # "ERR"}
      larger == {r \in all : dir[r].size > Op(c).size}
      After(done) == Set(c, [t EXCEPT !.pc = "grown", !.skip = done])
  IN  /\ TaskAt(c, "grow")
      /\ \/ Fail /\ After(FALSE) /\ UNCHANGED <<dir, mode>>
         \/ \E result \in [all -> {"ok", "rolled back", "failed", "unknown"}] :
              /\ \A r \in larger : result[r] = "failed"
              /\ IF \E r \in all \ larger : result[r] # "ok" THEN Fail ELSE NoFail
              /\ dir' = [r \in Replica |->
                           IF r \in all /\ result[r] \in {"ok", "unknown"}
                           THEN Expand(dir[r], Op(c).size, Fresh(r)) ELSE dir[r]]
              /\ mode' = [r \in Replica |->
                            IF r \in OutOfSync(result) THEN "ERR" ELSE mode[r]]
              /\ After(\E r \in all : result[r] = "ok")
      /\ UNCHANGED <<load, volume, rebuilding, agent, job>>

\* The frontend grows, or fails to, and finishExpansion.
finishExpansion(c) ==
  LET Finished(done) ==
        volume' = [size |-> IF done THEN Op(c).size ELSE volume.size,
                   expanding |-> FALSE]
  IN  /\ TaskAt(c, "grown")
      /\ \/ NoFail /\ Finished(task[c].skip)
         \/ task[c].skip /\ Fail /\ Finished(FALSE)
      /\ Return(c, FALSE)
      /\ UNCHANGED <<load, mode, rebuilding, dir, agent, job>>
=============================================================================
