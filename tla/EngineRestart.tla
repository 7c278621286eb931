---------------------------- MODULE EngineRestart ----------------------------
(***************************************************************************)
(* The engine of Engine.tla, its crash at any point, and Controller.Start, *)
(* which has to tell from revision counters and rebuilding flags alone     *)
(* which replicas were in sync.  A behaviour ends with the start: what the *)
(* properties say is what the restarted engine begins with.                *)
(***************************************************************************)
EXTENDS Engine

CONSTANT MaxFailures  \* how many writes fail on some replica

ASSUME MaxFailuresAssumption == MaxFailures \in Nat

VARIABLES
    phase,    \* the engine runs, has crashed, or was started again
    failures, \* how many writes have failed so far
    synced,   \* the replicas that were RW when last there were any
    usable    \* the replicas that Start found usable

restartVars == <<vars, phase, failures, synced, usable>>

RInit == Init /\ phase = "running" /\ failures = 0 /\ synced = RW /\ usable = {}

\* The modes live in the engine's memory only.  Operations without an answer
\* have none; a running task ends with the next RPC.
Crash ==
    /\ phase = "running" /\ phase' = "crashed"
    /\ mode' = [r \in Replica |-> "none"]
    /\ st' = [w \in Op |-> IF st[w] = "failed" THEN "error" ELSE st[w]]
    /\ errs' = [w \in Op |-> {}]
    /\ full' = [w \in Op |-> {}]
    /\ pc' = [t \in Task |-> "idle"]
    /\ tgt' = [t \in Task |-> NoReplica]
    /\ src' = [t \in Task |-> {}]
    /\ todo' = [t \in Task |-> {}]
    /\ UNCHANGED <<diskVars, rev, rebuilding, failures, synced, usable>>

\* checkReplicasRevisionCounter: those of A with the largest counter.
CurrentOldest(A) == {r \in A : \A q \in A : rev[r] <= rev[q]}
Current(A) ==
    IF RevisionCounterDisabled THEN A
    ELSE {r \in A : \A q \in A : rev[q] <= rev[r]}

\* Backends of Start that are usable: reachable and not left rebuilding.
AvailableRebuilding(S, reachable, flag) == S \cap reachable
Available(S, reachable, flag) == {r \in S \cap reachable : ~flag[r]}

\* Controller.Start(S), where the replicas of reset answer ResetRebuild, which is
\* called only if there is one address.  A replica that is not usable is set to
\* ERR, in sync or not; without a usable one Start fails.
Start(S, reachable, reset) ==
    LET flag == [r \in Replica |-> rebuilding[r] /\ r \notin reset]
        avail == Available(S, reachable, flag)
    IN  /\ phase = "crashed" /\ S # {}
        /\ reset # {} => S = reset /\ reset \subseteq reachable
        /\ mode' = [r \in Replica |->
                        IF r \notin S THEN "none"
                        ELSE IF r \in Current(avail) THEN "RW" ELSE "ERR"]
        /\ rebuilding' = flag
        /\ live' = [r \in Replica |-> IF r \in reachable THEN disks[r] ELSE live[r]]
        /\ phase' = "started" /\ usable' = avail
        /\ UNCHANGED <<head, disks, data, rev, opVars, taskVars, failures, synced>>

\* A step of the engine, unless one write too many fails in it.
Running ==
    /\ phase = "running" /\ Next
    /\ failures' = failures +
          Cardinality({w \in Write : st[w] = "new" /\ st'[w] = "failed"})
    /\ failures' <= MaxFailures
    /\ synced' = IF RW' = {} THEN synced ELSE RW'
    /\ UNCHANGED <<phase, usable>>

RNext ==
    \/ Running
    \/ Crash
    \/ \E S \in SUBSET Replica : \E reachable \in SUBSET S :
          \E reset \in SUBSET S : Cardinality(reset) <= 1 /\ Start(S, reachable, reset)

RSpec == RInit /\ [][RNext]_restartVars
-----------------------------------------------------------------------------
\* Start could use one of the replicas that were in sync.  Without it a stale
\* replica is all that Start has: those in sync may be unreachable, or be flagged
\* because the crash came between VerifyRebuildReplica and SetRebuilding(false).
SyncedUsable == synced \cap usable # {}

\* If Start could use a replica that was in sync, the restarted engine has every
\* acknowledged write on some RW replica: those with the largest counter are not
\* all stale, although a failed write was counted by the replicas that stored it
\* (Start, checkReplicasRevisionCounter, Replica.WriteAt).
StartFindsAcked ==
    phase = "started" /\ SyncedUsable =>
        \E r \in RW : \A w \in Write : st[w] = "acked" => w \in Content(r)

\* If, besides, no write failed, the counters and flags alone tell Start the
\* replicas that were in sync from those a crash left half rebuilt: whatever it
\* makes RW has every acknowledged write (Start, checkReplicasRevisionCounter,
\* SetRebuilding).
StartRejectsStale ==
    phase = "started" /\ failures = 0 /\ SyncedUsable => RWHasAcked
=============================================================================
