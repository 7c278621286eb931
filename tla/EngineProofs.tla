---------------------------- MODULE EngineProofs ----------------------------
(***************************************************************************)
(* Proofs about Engine for any number of replicas, writes, unmaps and      *)
(* snapshots, any written-byte counts, and one add-replica task at a time. *)
(* The second half shows that IInv is inductive without faults, and that   *)
(* it implies that a readable replica holds every acknowledged write.      *)
(***************************************************************************)
EXTENDS Engine, TLAPS

\* Zenon first: encoding a leaf for the SMT solver is what costs.  The limits leave
\* room for a busy machine.
USE ZenonT(3), SMTT(60), ZenonT(60)

\* One rebuild at a time, and none of the hazards that break the engine.
Undisturbed == Faults = {} /\ \A t, u \in Task : t = u

-----------------------------------------------------------------------------
(* Facts about modes.                                                      *)

\* A step that only takes replicas away: into ERR, or out of the engine.
Demotes ==
    \A r \in Replica : mode'[r] = mode[r] \/ mode'[r] \in {"ERR", "none"}

\* SetErr changes modes of readable and writable replicas only, to ERR.
LEMMA SetErrFacts ==
    ASSUME NEW m \in [Replica -> Mode], NEW S
    PROVE  /\ SetErr(m, S) \in [Replica -> Mode]
           /\ \A r \in Replica :
                /\ SetErr(m, S)[r] = m[r] \/ SetErr(m, S)[r] = "ERR"
                /\ m[r] \notin {"WO", "RW"} => SetErr(m, S)[r] = m[r]
                /\ r \in S => SetErr(m, S)[r] \notin {"WO", "RW"}
BY DEF SetErr, Mode

\* handleErrorNoLock only demotes.  Unless every RW replica is out of space, no
\* replica that failed stays a writer; otherwise only RW replicas that ran out
\* of space stay readable.
LEMMA HandleErrorFacts ==
    ASSUME mode \in [Replica -> Mode], NEW E, NEW N, NEW wb,
           mode' = HandleErrorNoLock(E, N, wb)
    PROVE  /\ mode' \in [Replica -> Mode]
           /\ Demotes
           /\ \A r \in Replica : mode[r] = "ERR" => mode'[r] = "ERR"
           /\ ~AllFull(E, N) => \A r \in E \cap Replica : mode'[r] \notin {"WO", "RW"}
           /\ AllFull(E, N) => \A r \in Replica : mode'[r] = "RW" => r \in N
<1> DEFINE hard == AfterHard(E, N)
           rws == RWAfterHard(E, N)
           wos == {r \in N : hard[r] = "WO"}
           rwErr == IF ~AllFull(E, N) THEN rws \cap N
                    ELSE IF Cardinality(rws) = 1 THEN {}
                    ELSE rws \ Retained(rws, wb)
<1>1. /\ hard \in [Replica -> Mode]
      /\ \A r \in Replica :
            /\ hard[r] = mode[r] \/ hard[r] = "ERR"
            /\ mode[r] \notin {"WO", "RW"} => hard[r] = mode[r]
            /\ r \in E \ N => hard[r] \notin {"WO", "RW"}
  BY SetErrFacts DEF AfterHard
<1>2. mode' = SetErr(hard, wos \cup rwErr)
  BY DEF HandleErrorNoLock
<1> HIDE DEF hard
<1>3. /\ mode' \in [Replica -> Mode]
      /\ \A r \in Replica :
            /\ mode'[r] = hard[r] \/ mode'[r] = "ERR"
            /\ hard[r] \notin {"WO", "RW"} => mode'[r] = hard[r]
            /\ r \in wos \cup rwErr => mode'[r] \notin {"WO", "RW"}
  <2> HIDE DEF wos, rwErr
  <2> QED BY <1>1, <1>2, SetErrFacts
<1>4. rws = {r \in Replica : hard[r] = "RW"}
  BY DEF RWAfterHard, hard
<1>5. ASSUME ~AllFull(E, N), NEW r \in E \cap Replica
      PROVE  mode'[r] \notin {"WO", "RW"}
  <2>1. rwErr = rws \cap N
    BY <1>5
  <2> HIDE DEF rwErr
  <2>2. CASE r \notin N
    BY <2>2, <1>1, <1>3
  <2>3. CASE r \in N
    <3>1. hard[r] = "WO" => r \in wos
      BY <2>3
    <3>2. hard[r] = "RW" => r \in rwErr
      BY <2>1, <2>3, <1>4
    <3> HIDE DEF wos, rws
    <3> QED BY <3>1, <3>2, <1>3
  <2> QED BY <2>2, <2>3
<1>6. ASSUME AllFull(E, N), NEW r \in Replica, mode'[r] = "RW"
      PROVE  r \in N
  <2>1. hard[r] = "RW"
    BY <1>3, <1>6
  <2> QED BY <2>1, <1>4, <1>6 DEF AllFull
<1> QED BY <1>1, <1>3, <1>5, <1>6 DEF Demotes, Mode

-----------------------------------------------------------------------------
(* Type correctness.                                                       *)

\* A started volume has the types.
LEMMA InitType == Init => TypeOK
BY NoReplicaAssumption
DEF Init, TypeOK, Mode, OpState, TaskPC

\* Heads hold operations and counters stay natural numbers.
LEMMA LandsType ==
    ASSUME TypeOK, NEW o \in Op, NEW S, NEW K, Lands(o, S, K)
    PROVE  head' \in [Replica -> SUBSET Op] /\ rev' \in [Replica -> Nat]
<1>1. \A n \in Nat : Counted(n + 1) \in Nat
  BY DEF Counted
<1> QED BY <1>1 DEF TypeOK, Lands

\* An I/O of the client keeps the types.
LEMMA ClientType == TypeOK /\ ClientNext => TypeOK'
<1> SUFFICES ASSUME TypeOK, ClientNext PROVE TypeOK'
  OBVIOUS
<1>1. ASSUME NEW w \in Write, WriteAt(w) PROVE TypeOK'
  <2>1. head' \in [Replica -> SUBSET Op] /\ rev' \in [Replica -> Nat]
    BY <1>1, LandsType DEF WriteAt, Op
  <2>2. errs' \in [Op -> SUBSET Replica] /\ full' \in [Op -> SUBSET Replica]
    BY <1>1 DEF WriteAt, Op, Writers, TypeOK
  <2>3. st' \in [Op -> OpState]
    BY <1>1 DEF WriteAt, Op, OpState, TypeOK
  <2> QED BY <2>1, <2>2, <2>3, <1>1 DEF WriteAt, taskVars, TypeOK
<1>2. ASSUME NEW u \in Unmap, UnmapAt(u) PROVE TypeOK'
  <2>1. head' \in [Replica -> SUBSET Op] /\ rev' \in [Replica -> Nat]
    BY <1>2, LandsType DEF UnmapAt, Op
  <2>2. errs' \in [Op -> SUBSET Replica]
    BY <1>2 DEF UnmapAt, Op, Writers, TypeOK
  <2>3. st' \in [Op -> OpState]
    BY <1>2 DEF UnmapAt, Op, OpState, TypeOK
  <2> QED BY <2>1, <2>2, <2>3, <1>2 DEF UnmapAt, taskVars, TypeOK
<1>3. ASSUME NEW w \in Op, HandleError(w) PROVE TypeOK'
  <2>1. mode' \in [Replica -> Mode]
    BY <1>3, HandleErrorFacts DEF HandleError, TypeOK
  <2> QED BY <2>1, <1>3 DEF HandleError, Answer, OpState, diskVars, taskVars, TypeOK
<1>4. ASSUME ReadAt PROVE TypeOK'
  <2>1. mode' \in [Replica -> Mode]
    BY <1>4, HandleErrorFacts DEF ReadAt, TypeOK
  <2> QED BY <2>1, <1>4 DEF ReadAt, diskVars, opVars, taskVars, TypeOK
<1> QED BY <1>1, <1>2, <1>3, <1>4 DEF ClientNext

\* createDisk keeps the types of the files.
LEMMA TakeSnapshotType ==
    ASSUME TypeOK, NEW S, NEW s \in Snap, TakeSnapshot(S, s)
    PROVE  /\ disks' \in [Replica -> SUBSET Snap] /\ live' \in [Replica -> SUBSET Snap]
           /\ data' \in [Replica -> [Snap -> SUBSET Op]]
           /\ head' \in [Replica -> SUBSET Op]
<1>1. \A r \in Replica : [data[r] EXCEPT ![s] = head[r]] \in [Snap -> SUBSET Op]
  BY DEF TypeOK
<1> QED BY <1>1 DEF TypeOK, TakeSnapshot

\* Snapshots and changes of modes keep the types.
LEMMA ReplicaType == TypeOK /\ ReplicaNext => TypeOK'
<1> SUFFICES ASSUME TypeOK, ReplicaNext PROVE TypeOK'
  OBVIOUS
<1>1. ASSUME NEW s \in Snap, Snapshot(s) PROVE TypeOK'
  <2>1. mode' \in [Replica -> Mode]
    BY <1>1, HandleErrorFacts DEF Snapshot, TypeOK
  <2>2. /\ disks' \in [Replica -> SUBSET Snap] /\ live' \in [Replica -> SUBSET Snap]
        /\ data' \in [Replica -> [Snap -> SUBSET Op]]
        /\ head' \in [Replica -> SUBSET Op]
    BY <1>1, TakeSnapshotType DEF Snapshot
  <2> QED BY <2>1, <2>2, <1>1 DEF Snapshot, opVars, taskVars, TypeOK
<1>2. ASSUME NEW r \in Replica,
             SetReplicaModeERR(r) \/ SetReplicaModeRW(r) \/ RemoveReplica(r)
      PROVE  TypeOK'
  <2>1. mode' \in [Replica -> Mode]
    <3>1. CASE SetReplicaModeERR(r)
      BY <3>1, SetErrFacts DEF SetReplicaModeERR, TypeOK
    <3>2. CASE SetReplicaModeRW(r) \/ RemoveReplica(r)
      BY <3>2 DEF SetReplicaModeRW, RemoveReplica, TypeOK, Mode
    <3> QED BY <1>2, <3>1, <3>2
  <2> QED BY <2>1, <1>2 DEF SetReplicaModeERR, SetReplicaModeRW, RemoveReplica,
                            diskVars, opVars, taskVars, TypeOK
<1> QED BY <1>1, <1>2 DEF ReplicaNext

\* So does the end of a task for its own state.
LEMMA IdleType ==
    ASSUME TypeOK, NEW t \in Task, Idle(t)
    PROVE  /\ pc' \in [Task -> TaskPC] /\ tgt' \in [Task -> Replica \cup {NoReplica}]
           /\ src' \in [Task -> SUBSET Replica] /\ todo' \in [Task -> SUBSET Snap]
BY DEF TypeOK, Idle, Goto, TaskPC

\* And removeExtraDisks for the files.
LEMMA RemoveExtraDisksType ==
    ASSUME TypeOK, NEW r, NEW X, RemoveExtraDisks(r, X)
    PROVE  /\ disks' \in [Replica -> SUBSET Snap] /\ live' \in [Replica -> SUBSET Snap]
           /\ data' \in [Replica -> [Snap -> SUBSET Op]]
<1>1. /\ disks' \in [Replica -> SUBSET Snap] /\ live' \in [Replica -> SUBSET Snap]
  BY DEF TypeOK, RemoveExtraDisks
<1>2. ASSUME r \in Replica
      PROVE  [s \in Snap |-> IF s \in X THEN {} ELSE data[r][s]] \in [Snap -> SUBSET Op]
  BY <1>2 DEF TypeOK
<1>3. data' \in [Replica -> [Snap -> SUBSET Op]]
  BY <1>2 DEF TypeOK, RemoveExtraDisks
<1> QED BY <1>1, <1>3

\* The add-replica task keeps the types.
LEMMA TaskType ==
    ASSUME TypeOK, NEW t \in Task, TaskStep(t)
    PROVE  TypeOK'
<1>1. ASSUME NEW r \in Replica, NEW s \in Snap, AddReplica(t, r, s) PROVE TypeOK'
  <2>1. rebuilding' \in [Replica -> BOOLEAN]
    BY <1>1, Zenon DEF AddReplica, TypeOK
  <2>2. CASE \E S \in SUBSET (Writers \cup {r}) : TakeSnapshot(S, s)
    <3>1. /\ disks' \in [Replica -> SUBSET Snap] /\ live' \in [Replica -> SUBSET Snap]
          /\ data' \in [Replica -> [Snap -> SUBSET Op]]
          /\ head' \in [Replica -> SUBSET Op]
      BY <2>2, TakeSnapshotType
    <3>2. /\ mode' = mode \/ mode' = [mode EXCEPT ![r] = "WO"]
          /\ pc' = pc \/ pc' = [pc EXCEPT ![t] = "added"]
          /\ tgt' = tgt \/ tgt' = [tgt EXCEPT ![t] = r]
          /\ src' = src /\ todo' = todo
      BY <1>1, Zenon DEF AddReplica, taskVars, Goto
    <3>3. mode' \in [Replica -> Mode]
      BY <3>2 DEF TypeOK, Mode
    <3>4. pc' \in [Task -> TaskPC] /\ tgt' \in [Task -> Replica \cup {NoReplica}]
      <4>1. pc' \in [Task -> TaskPC]
        BY <3>2 DEF TypeOK, TaskPC
      <4>2. tgt' \in [Task -> Replica \cup {NoReplica}]
        BY <3>2 DEF TypeOK
      <4> QED BY <4>1, <4>2
    <3> QED BY <2>1, <3>1, <3>2, <3>3, <3>4, <1>1 DEF AddReplica, opVars, TypeOK
  <2>3. CASE ~ \E S \in SUBSET (Writers \cup {r}) : TakeSnapshot(S, s)
    <3>1. /\ disks' = [q \in Replica |->
                IF q \in Writers \cup {r} THEN disks[q] \cup {s} ELSE disks[q]]
          /\ live' = [q \in Replica |->
                IF q \in Writers THEN live[q] \cup {s}
                ELSE IF q = r THEN disks[q] \cup {s} ELSE live[q]]
          /\ data' = [q \in Replica |->
                IF q \in Writers \cup {r} THEN [data[q] EXCEPT ![s] = head[q]]
                ELSE data[q]]
          /\ head' = [q \in Replica |-> IF q \in Writers \cup {r} THEN {} ELSE head[q]]
          /\ mode' = [mode EXCEPT ![r] = "WO"]
          /\ Goto(t, "added") /\ tgt' = [tgt EXCEPT ![t] = r]
          /\ src' = src /\ todo' = todo
      BY <2>3, <1>1 DEF AddReplica
    <3>2. \A q \in Replica : [data[q] EXCEPT ![s] = head[q]] \in [Snap -> SUBSET Op]
      BY DEF TypeOK
    <3>3. /\ disks' \in [Replica -> SUBSET Snap] /\ live' \in [Replica -> SUBSET Snap]
          /\ head' \in [Replica -> SUBSET Op]
      BY <3>1 DEF TypeOK
    <3>4. data' \in [Replica -> [Snap -> SUBSET Op]]
      BY <3>1, <3>2 DEF TypeOK
    <3>5. /\ mode' \in [Replica -> Mode] /\ pc' \in [Task -> TaskPC]
          /\ tgt' \in [Task -> Replica \cup {NoReplica}]
      BY <3>1 DEF TypeOK, Mode, TaskPC, Goto
    <3> QED BY <2>1, <3>1, <3>3, <3>4, <3>5, <1>1 DEF AddReplica, opVars, TypeOK
  <2> QED BY <2>2, <2>3
<1>2. ASSUME \/ \E r \in Replica : AddReplicaAgain(t, r)
             \/ GetTransferClients(t) \/ SetRebuilding(t)
             \/ FinishRebuild(t) \/ TaskFails(t)
      PROVE  TypeOK'
  <2>1. rebuilding' \in [Replica -> BOOLEAN]
    BY <1>2, Zenon DEF AddReplicaAgain, GetTransferClients, SetRebuilding,
                       FinishRebuild, TaskFails, TypeOK
  <2>2. /\ pc' \in [Task -> TaskPC] /\ tgt' \in [Task -> Replica \cup {NoReplica}]
        /\ src' \in [Task -> SUBSET Replica] /\ todo' \in [Task -> SUBSET Snap]
    <3>1. CASE FinishRebuild(t) \/ TaskFails(t)
      BY <3>1, IdleType DEF FinishRebuild, TaskFails
    <3>2. CASE GetTransferClients(t)
      BY <3>2 DEF GetTransferClients, TypeOK, Goto, TaskPC, RW, WithMode
    <3>3. CASE (\E r \in Replica : AddReplicaAgain(t, r)) \/ SetRebuilding(t)
      <4>1. pc' \in [Task -> TaskPC]
        BY <3>3 DEF AddReplicaAgain, SetRebuilding, TypeOK, Goto, TaskPC
      <4>2. tgt' \in [Task -> Replica \cup {NoReplica}]
        BY <3>3 DEF AddReplicaAgain, SetRebuilding, TypeOK
      <4> QED BY <4>1, <4>2, <3>3 DEF AddReplicaAgain, SetRebuilding, TypeOK
    <3> QED BY <1>2, <3>1, <3>2, <3>3
  <2> QED BY <2>1, <2>2, <1>2 DEF AddReplicaAgain, GetTransferClients, SetRebuilding,
        FinishRebuild, TaskFails, TypeOK, diskVars, opVars
<1>3. ASSUME PrepareRebuildReplica(t) PROVE TypeOK'
  <2>1. rev' \in [Replica -> Nat]
    BY <1>3 DEF PrepareRebuildReplica, TypeOK
  <2>2. /\ disks' \in [Replica -> SUBSET Snap] /\ live' \in [Replica -> SUBSET Snap]
        /\ data' \in [Replica -> [Snap -> SUBSET Op]]
    <3>1. PICK X : RemoveExtraDisks(tgt[t], X)
      BY <1>3, Zenon DEF PrepareRebuildReplica
    <3> QED BY <3>1, RemoveExtraDisksType
  <2>3. /\ pc' \in [Task -> TaskPC] /\ tgt' \in [Task -> Replica \cup {NoReplica}]
        /\ src' \in [Task -> SUBSET Replica] /\ todo' \in [Task -> SUBSET Snap]
    <3>1. CASE Idle(t)
      BY <3>1, IdleType
    <3>2. CASE ~Idle(t)
      <4>1. PICK q \in RW :
              /\ todo' = [todo EXCEPT ![t] = disks[q]]
              /\ Goto(t, "syncing") /\ UNCHANGED <<tgt, src>>
        BY <1>3, <3>2 DEF PrepareRebuildReplica
      <4>2. disks[q] \in SUBSET Snap
        BY DEF TypeOK, RW, WithMode
      <4> QED BY <4>1, <4>2 DEF Goto, TypeOK, TaskPC
    <3> QED BY <3>1, <3>2
  <2> QED BY <2>1, <2>2, <2>3, <1>3 DEF PrepareRebuildReplica, TypeOK, opVars
<1>4. ASSUME NEW s \in Snap, SyncFile(t, s) PROVE TypeOK'
  <2>1. disks' \in [Replica -> SUBSET Snap]
    BY <1>4 DEF SyncFile, TypeOK
  <2>4. todo' \in [Task -> SUBSET Snap]
    BY <1>4 DEF SyncFile, TypeOK
  <2>2. \A r \in Replica, q \in Replica :
           [data[r] EXCEPT ![s] = data[q][s]] \in [Snap -> SUBSET Op]
    BY DEF TypeOK
  <2>3. data' \in [Replica -> [Snap -> SUBSET Op]]
    <3>1. PICK q \in src[t] : data' = [data EXCEPT ![tgt[t]][s] = data[q][s]]
      BY <1>4 DEF SyncFile
    <3>2. q \in Replica
      BY DEF TypeOK
    <3> QED BY <3>1, <3>2, <2>2 DEF TypeOK
  <2> QED BY <2>1, <2>3, <2>4, <1>4 DEF SyncFile, TypeOK, opVars
<1>5. ASSUME ReloadReplica(t) PROVE TypeOK'
  BY <1>5 DEF ReloadReplica, TypeOK, opVars, Goto, TaskPC
<1>6. ASSUME VerifyRebuildReplica(t) PROVE TypeOK'
  <2>1. mode' \in [Replica -> Mode] /\ rev' \in [Replica -> Nat]
    <3>1. /\ mode' \in {mode, [mode EXCEPT ![tgt[t]] = "RW"], SetErr(mode, {tgt[t]})}
          /\ rev' = rev \/ \E q \in RW : rev' = [rev EXCEPT ![tgt[t]] = rev[q]]
      BY <1>6 DEF VerifyRebuildReplica
    <3>2. mode' \in [Replica -> Mode]
      <4>1. [mode EXCEPT ![tgt[t]] = "RW"] \in [Replica -> Mode]
        BY DEF TypeOK, Mode
      <4>2. SetErr(mode, {tgt[t]}) \in [Replica -> Mode]
        BY SetErrFacts DEF TypeOK
      <4> QED BY <3>1, <4>1, <4>2 DEF TypeOK
    <3>3. rev' \in [Replica -> Nat]
      BY <3>1 DEF TypeOK, RW, WithMode
    <3> QED BY <3>2, <3>3
  <2>2. /\ pc' \in [Task -> TaskPC] /\ tgt' \in [Task -> Replica \cup {NoReplica}]
        /\ src' \in [Task -> SUBSET Replica] /\ todo' \in [Task -> SUBSET Snap]
    BY <1>6, IdleType DEF VerifyRebuildReplica, TypeOK, Goto, TaskPC
  <2> QED BY <2>1, <2>2, <1>6 DEF VerifyRebuildReplica, TypeOK, diskVars, opVars
<1> QED BY <1>1, <1>2, <1>3, <1>4, <1>5, <1>6 DEF TaskStep

\* Every variable of the engine keeps its type in every behaviour, whatever
\* hazards are allowed and however many tasks run.
THEOREM TypeCorrect == Spec => []TypeOK
<1>1. TypeOK /\ UNCHANGED vars => TypeOK'
  BY DEF TypeOK, vars, diskVars, opVars, taskVars
<1>2. TypeOK /\ [Next]_vars => TypeOK'
  BY <1>1, ClientType, ReplicaType, TaskType DEF Next
<1> QED BY <1>2, InitType, PTL DEF Spec

-----------------------------------------------------------------------------
(* Modes, whatever faults there are and however many tasks.                *)

ErrStep == \A r \in Replica : mode[r] = "ERR" => mode'[r] \in {"ERR", "none"}
NoNewWO == \A r \in Replica : mode'[r] = "WO" => mode[r] = "WO"

\* A replica becomes WO only in AddReplica, while there is no other.
LEMMA ModeSteps ==
    ASSUME TypeOK, [Next]_vars
    PROVE  ErrStep /\ (OneWO => OneWO')
<1>1. NoNewWO => (OneWO => OneWO')
  BY DEF NoNewWO, OneWO, WithMode
<1>2. Demotes => NoNewWO
  BY DEF Demotes, NoNewWO
<1>3. mode' = mode => ErrStep /\ NoNewWO
  BY DEF ErrStep, NoNewWO
<1>4. ASSUME NEW S, mode' = SetErr(mode, S) PROVE ErrStep /\ NoNewWO
  BY <1>4, SetErrFacts DEF TypeOK, ErrStep, NoNewWO
<1>5. ASSUME NEW E, NEW N, NEW wb, mode' = HandleErrorNoLock(E, N, wb)
      PROVE  ErrStep /\ NoNewWO
  BY <1>5, <1>2, HandleErrorFacts DEF TypeOK, ErrStep
<1>6. CASE UNCHANGED vars
  BY <1>1, <1>3, <1>6 DEF vars
<1>7. CASE ClientNext
  <2>1. ASSUME NEW w \in Write, WriteAt(w) PROVE mode' = mode
    BY <2>1 DEF WriteAt
  <2>2. ASSUME NEW u \in Unmap, UnmapAt(u) PROVE mode' = mode
    BY <2>2 DEF UnmapAt
  <2>3. ASSUME NEW w \in Op, HandleError(w) PROVE ErrStep /\ NoNewWO
    <3>1. PICK wb \in [full[w] -> Bytes] :
            mode' = HandleErrorNoLock(errs[w], full[w], wb)
      BY <2>3 DEF HandleError
    <3> QED BY <3>1, <1>5
  <2>4. ASSUME ReadAt PROVE ErrStep /\ NoNewWO
    <3>1. PICK F \in SUBSET Writers \ {{}} : mode' = HandleErrorNoLock(F, {}, <<>>)
      BY <2>4 DEF ReadAt
    <3> QED BY <3>1, <1>5
  <2> QED BY <1>1, <1>3, <1>7, <2>1, <2>2, <2>3, <2>4 DEF ClientNext
<1>8. CASE ReplicaNext
  <2>1. ASSUME NEW s \in Snap, Snapshot(s) PROVE ErrStep /\ NoNewWO
    <3>1. \E F, N, wb : mode' = HandleErrorNoLock(F, N, wb)
      BY <2>1, Zenon DEF Snapshot
    <3> QED BY <3>1, <1>5
  <2>2. ASSUME NEW r \in Replica,
               SetReplicaModeERR(r) \/ SetReplicaModeRW(r) \/ RemoveReplica(r)
        PROVE  ErrStep /\ NoNewWO
    <3>1. CASE SetReplicaModeERR(r)
      BY <3>1, <1>4 DEF SetReplicaModeERR
    <3>2. CASE SetReplicaModeRW(r)
      BY <3>2 DEF SetReplicaModeRW, TypeOK, ErrStep, NoNewWO
    <3>3. CASE RemoveReplica(r)
      BY <3>3 DEF RemoveReplica, TypeOK, ErrStep, NoNewWO
    <3> QED BY <2>2, <3>1, <3>2, <3>3
  <2> QED BY <1>1, <1>8, <2>1, <2>2 DEF ReplicaNext
<1>9. ASSUME NEW t \in Task, TaskStep(t) PROVE ErrStep /\ (OneWO => OneWO')
  <2>1. ASSUME NEW r \in Replica, NEW s \in Snap, AddReplica(t, r, s)
        PROVE  ErrStep /\ (OneWO => OneWO')
    <3>1. CASE mode' = mode
      BY <3>1, <1>1, <1>3
    <3>2. CASE mode' = [mode EXCEPT ![r] = "WO"]
      <4>1. mode[r] = "none" /\ WithMode("WO") = {}
        BY <2>1 DEF AddReplica, CanAdd, HasWOReplica
      <4> QED BY <3>2, <4>1 DEF TypeOK, ErrStep, OneWO, WithMode
    <3> QED BY <2>1, <3>1, <3>2 DEF AddReplica
  <2>2. ASSUME NEW r \in Replica, AddReplicaAgain(t, r) PROVE mode' = mode
    BY <2>2 DEF AddReplicaAgain
  <2>3. ASSUME NEW s \in Snap, SyncFile(t, s) PROVE mode' = mode
    BY <2>3 DEF SyncFile
  <2>4. ASSUME \/ GetTransferClients(t) \/ SetRebuilding(t)
               \/ PrepareRebuildReplica(t) \/ ReloadReplica(t)
               \/ FinishRebuild(t) \/ TaskFails(t)
        PROVE  mode' = mode
    BY <2>4 DEF GetTransferClients, SetRebuilding, PrepareRebuildReplica,
                ReloadReplica, FinishRebuild, TaskFails
  <2>5. ASSUME VerifyRebuildReplica(t) PROVE ErrStep /\ NoNewWO
    <3>1. CASE mode' = SetErr(mode, {tgt[t]})
      BY <3>1, <1>4
    <3>2. CASE mode' = mode
      BY <3>2, <1>3
    <3>3. CASE CanBecomeRW(tgt[t]) /\ mode' = [mode EXCEPT ![tgt[t]] = "RW"]
      BY <3>3 DEF CanBecomeRW, TypeOK, ErrStep, NoNewWO
    <3> QED BY <2>5, <3>1, <3>2, <3>3, Zenon DEF VerifyRebuildReplica
  <2> QED BY <1>1, <1>3, <1>9, <2>1, <2>2, <2>3, <2>4, <2>5 DEF TaskStep
<1> QED BY <1>6, <1>7, <1>8, <1>9 DEF Next

\* canAdd: at most one replica is being rebuilt.
THEOREM OneRebuild == Spec => []OneWO
<1>1. Init => OneWO
  BY DEF Init, OneWO, WithMode
<1>2. TypeOK /\ OneWO /\ [Next]_vars => OneWO'
  BY ModeSteps
<1> QED BY <1>1, <1>2, TypeCorrect, PTL DEF Spec

\* setReplicaModeNoLock, VerifyRebuildReplica: ERR is left by removal only.
THEOREM ErrorsStick == Spec => ErrSticks
<1>1. TypeOK /\ [Next]_vars =>
         [\A r \in Replica : mode[r] = "ERR" => mode'[r] \in {"ERR", "none"}]_vars
  BY ModeSteps DEF ErrStep
<1> QED BY <1>1, TypeCorrect, PTL DEF Spec, ErrSticks

-----------------------------------------------------------------------------
(* Readable replicas hold every acknowledged write.                        *)

\* Membership in RW and Writers, in terms of modes ...
LEMMA ModeSets ==
    /\ \A r \in Replica : r \in RW <=> mode[r] = "RW"
    /\ \A r \in Replica : r \in Writers <=> mode[r] \in {"WO", "RW"}
    /\ RW \subseteq Writers /\ Writers \subseteq Replica
BY DEF RW, WithMode, Writers

\* ... and the same in the next state.
LEMMA ModeSetsNext ==
    /\ \A r \in Replica : r \in RW' <=> mode'[r] = "RW"
    /\ \A r \in Replica : r \in Writers' <=> mode'[r] \in {"WO", "RW"}
    /\ RW' \subseteq Writers' /\ Writers' \subseteq Replica
BY DEF RW, WithMode, Writers

\* A step that only demotes adds no reader and no writer.
LEMMA DemoteSets ==
    ASSUME Demotes
    PROVE  RW' \subseteq RW /\ Writers' \subseteq Writers
BY DEF Demotes, RW, WithMode, Writers

-----------------------------------------------------------------------------
(* Steps that move no data.                                                *)

\* No file changes and replicas are only taken away.
LEMMA QuietChains ==
    ASSUME IInv, Demotes, UNCHANGED diskVars
    PROVE  OneWO' /\ ChainsInSync' /\ RWLive'
<1>1. RW' \subseteq RW
  BY DemoteSets
<1>2. OneWO'
  BY DEF IInv, OneWO, WithMode, Demotes
<1>3. ChainsInSync'
  BY <1>1 DEF IInv, ChainsInSync, diskVars
<1>4. RWLive'
  BY <1>1 DEF IInv, RWLive, diskVars
<1> QED BY <1>2, <1>3, <1>4

\* No write becomes due on a replica that still is a writer.
NoNewDue ==
    \A w \in Sent' :
        /\ w \in Sent
        /\ st[w] = "acked" => st'[w] = "acked"
        /\ \A a \in Writers' : Due(w, a)' => Due(w, a)

\* No task gets further than to be flagged.
TasksStay ==
    \A t \in Task : pc'[t] \notin {"idle", "added", "verified"} =>
        /\ tgt'[t] = tgt[t] /\ src'[t] = src[t] /\ todo'[t] = todo[t]
        /\ pc'[t] = pc[t] \/ (pc[t] = "picked" /\ pc'[t] = "flagged")

\* Writes stay where they were found.
LEMMA QuietHeld ==
    ASSUME Demotes, UNCHANGED diskVars, NoNewDue, NEW w \in Sent'
    PROVE  /\ InHeads(w) => InHeads(w)'
           /\ \A s \in Snap : InDisk(RW, w, s) => InDisk(RW, w, s)'
           /\ \A a \in Writers', s \in Snap :
                InDisk(RW \cup {a}, w, s) => InDisk(RW \cup {a}, w, s)'
<1>1. RW' \subseteq RW /\ Writers' \subseteq Writers /\ RW' \subseteq Writers'
  BY DemoteSets, ModeSetsNext
<1>2. \A a \in Writers' : Due(w, a)' => Due(w, a)
  BY DEF NoNewDue
<1>3. InHeads(w) => InHeads(w)'
  BY <1>1, <1>2 DEF InHeads, diskVars
<1>4. \A s \in Snap : InDisk(RW, w, s) => InDisk(RW, w, s)'
  BY <1>1, <1>2 DEF InDisk, diskVars
<1>5. \A a \in Writers', s \in Snap :
        InDisk(RW \cup {a}, w, s) => InDisk(RW \cup {a}, w, s)'
  BY <1>1, <1>2 DEF InDisk, diskVars
<1> QED BY <1>3, <1>4, <1>5

\* All of the invariant but its types, errors and targets.
LEMMA QuietInv ==
    ASSUME IInv, Demotes, UNCHANGED diskVars, NoNewDue, TasksStay
    PROVE  OneWO' /\ ChainsInSync' /\ RWLive' /\ Located' /\ TaskOK'
<1>1. OneWO' /\ ChainsInSync' /\ RWLive'
  BY QuietChains
<1>2. Located'
  BY QuietHeld DEF IInv, Located, Held, NoNewDue
<1>3. ASSUME NEW t \in Task, Rebuilds(t)' PROVE
        /\ pc'[t] \in {"picked", "flagged"} => PickedOK(t)'
        /\ pc'[t] = "syncing" => SyncingOK(t)'
        /\ pc'[t] = "reloaded" => ReloadedOK(t)'
  <2> SUFFICES ASSUME pc'[t] \in {"picked", "flagged", "syncing", "reloaded"}
               PROVE  /\ pc'[t] \in {"picked", "flagged"} => PickedOK(t)'
                      /\ pc'[t] = "syncing" => SyncingOK(t)'
                      /\ pc'[t] = "reloaded" => ReloadedOK(t)'
    OBVIOUS
  <2>1. /\ tgt'[t] = tgt[t] /\ src'[t] = src[t] /\ todo'[t] = todo[t]
        /\ pc'[t] = pc[t] \/ (pc[t] = "picked" /\ pc'[t] = "flagged")
    BY DEF TasksStay
  <2>2. RW' \subseteq RW /\ RW' # {} /\ Rebuilds(t)
    BY <1>3, <2>1, DemoteSets DEF Rebuilds, Demotes, IInv, TargetOK
  <2>3. PICK r \in Writers' : r = tgt[t] /\ r = tgt'[t]
    BY <1>3, <2>1, <2>2 DEF Rebuilds, IInv, TargetOK, Writers
  <2>4. ASSUME pc'[t] \in {"picked", "flagged"} PROVE PickedOK(t)'
    <3>1. PickedOK(t)
      BY <2>1, <2>2, <2>4 DEF IInv, TaskOK
    <3>2. \A a \in src'[t], q \in RW' : disks'[a] \subseteq disks'[q]
      BY <3>1, <2>1, <2>2 DEF PickedOK, diskVars
    <3>3. \A w, s : SourcesHold(t, w, s) => SourcesHold(t, w, s)'
      BY <2>1 DEF SourcesHold, diskVars
    <3>4. ASSUME NEW w \in Sent'
          PROVE  \/ InHeads(w)'
                 \/ /\ st'[w] = "acked"
                    /\ \E s \in Snap : InDisk(RW, w, s)' /\ SourcesHold(t, w, s)'
      BY <3>1, <3>3, QuietHeld DEF PickedOK, NoNewDue
    <3> QED BY <3>2, <3>4 DEF PickedOK
  <2>5. ASSUME pc'[t] = "syncing" PROVE SyncingOK(t)'
    <3>1. SyncingOK(t)
      BY <2>1, <2>2, <2>5 DEF IInv, TaskOK
    <3>2. \A q \in RW' : todo'[t] \subseteq disks'[q]
      BY <3>1, <2>1, <2>2 DEF SyncingOK, diskVars
    <3>3. \A w, s : Copied(t, w, s) => Copied(t, w, s)'
      BY <2>1 DEF Copied, SourcesHold, diskVars
    <3>4. ASSUME NEW w \in Sent'
          PROVE  \/ InHeads(w)'
                 \/ \E s \in Snap :
                       InDisk(RW, w, s)' /\ (Due(w, r)' => Copied(t, w, s)')
      <4>1. Due(w, r)' => Due(w, r)
        BY DEF NoNewDue
      <4>2. \/ InHeads(w)
            \/ \E s \in Snap : InDisk(RW, w, s) /\ (Due(w, r) => Copied(t, w, s))
        BY <2>3, <3>1 DEF SyncingOK, NoNewDue
      <4> QED BY <4>1, <4>2, <3>3, QuietHeld
    <3> QED BY <3>2, <3>4, <2>3 DEF SyncingOK
  <2>6. ASSUME pc'[t] = "reloaded" PROVE ReloadedOK(t)'
    <3>1. ReloadedOK(t)
      BY <2>1, <2>2, <2>6 DEF IInv, TaskOK
    <3>2. live'[tgt'[t]] = disks'[tgt'[t]]
      BY <3>1, <2>1 DEF ReloadedOK, diskVars
    <3>3. ASSUME NEW w \in Sent' PROVE Held(RW \cup {r}, w)'
      <4>1. Held(RW \cup {r}, w)
        BY <2>3, <3>1 DEF ReloadedOK, NoNewDue
      <4> QED BY <4>1, QuietHeld DEF Held
    <3> QED BY <3>2, <3>3, <2>3 DEF ReloadedOK
  <2> QED BY <2>4, <2>5, <2>6
<1> QED BY <1>1, <1>2, <1>3 DEF TaskOK

-----------------------------------------------------------------------------
(* Client I/O.                                                             *)

\* Heads grow, the new operation x is in all of them if it is a write, and the
\* others are due where they were before.
LEMMA GrowInv ==
    ASSUME IInv, UNCHANGED <<mode, disks, live, data, taskVars>>,
           \A a \in Replica : head[a] \subseteq head'[a],
           NEW x, x \in Write => InHeads(x)',
           \A w \in Sent' :
              w = x \/ (w \in Sent /\ st'[w] = st[w] /\ errs'[w] = errs[w])
    PROVE  OneWO' /\ ChainsInSync' /\ RWLive' /\ Located' /\ TargetOK' /\ TaskOK'
<1>1. RW' = RW /\ Writers' = Writers
  BY DEF RW, WithMode, Writers
<1>2. OneWO' /\ ChainsInSync' /\ RWLive' /\ TargetOK'
  BY <1>1 DEF IInv, OneWO, WithMode, ChainsInSync, RWLive, TargetOK, taskVars
<1>3. ASSUME NEW w \in Sent', ~InHeads(w)'
      PROVE  /\ w \in Sent /\ st'[w] = st[w]
             /\ \A a : Due(w, a)' <=> Due(w, a)
             /\ ~InHeads(w)
             /\ \A s \in Snap : InDisk(RW, w, s) => InDisk(RW, w, s)'
             /\ \A a, s : InDisk(RW \cup {a}, w, s) => InDisk(RW \cup {a}, w, s)'
  <2>1. w \in Sent /\ st'[w] = st[w] /\ errs'[w] = errs[w]
    BY <1>3 DEF Sent
  <2>2. \A a : Due(w, a)' <=> Due(w, a)
    BY <2>1 DEF Due
  <2>3. ~InHeads(w)
    BY <1>1, <1>3, <2>2 DEF InHeads, Writers
  <2>4. \A s \in Snap : InDisk(RW, w, s) => InDisk(RW, w, s)'
    BY <1>1, <2>2 DEF InDisk
  <2>5. \A a, s : InDisk(RW \cup {a}, w, s) => InDisk(RW \cup {a}, w, s)'
    BY <1>1, <2>2 DEF InDisk
  <2> QED BY <2>1, <2>2, <2>3, <2>4, <2>5
<1>4. Located'
  BY <1>3 DEF IInv, Located, Held
<1>5. ASSUME NEW t \in Task, Rebuilds(t)' PROVE
        /\ pc'[t] \in {"picked", "flagged"} => PickedOK(t)'
        /\ pc'[t] = "syncing" => SyncingOK(t)'
        /\ pc'[t] = "reloaded" => ReloadedOK(t)'
  <2>1. pc' = pc /\ tgt' = tgt /\ src' = src /\ todo' = todo /\ Rebuilds(t)
    BY <1>1, <1>5 DEF taskVars, Rebuilds
  <2>2. \A w, s : SourcesHold(t, w, s) => SourcesHold(t, w, s)'
    BY <2>1 DEF SourcesHold
  <2>3. \A w, s : Copied(t, w, s) => Copied(t, w, s)'
    BY <2>1, <2>2 DEF Copied
  <2>4. ASSUME pc[t] \in {"picked", "flagged"} PROVE PickedOK(t)'
    BY <1>1, <1>3, <2>1, <2>2, <2>4 DEF IInv, TaskOK, PickedOK
  <2>5. ASSUME pc[t] = "syncing" PROVE SyncingOK(t)'
    <3>0. PICK r : r = tgt[t] /\ r = tgt'[t]
      BY <2>1
    <3>1. SyncingOK(t)
      BY <2>1, <2>5 DEF IInv, TaskOK
    <3>2. \A q \in RW' : todo'[t] \subseteq disks'[q]
      BY <3>1, <1>1, <2>1 DEF SyncingOK
    <3>3. ASSUME NEW w \in Sent', ~InHeads(w)'
          PROVE  \E s \in Snap : InDisk(RW, w, s)' /\ (Due(w, r)' => Copied(t, w, s)')
      BY <3>0, <3>1, <3>3, <1>3, <2>3 DEF SyncingOK
    <3> QED BY <3>0, <3>2, <3>3 DEF SyncingOK
  <2>6. ASSUME pc[t] = "reloaded" PROVE ReloadedOK(t)'
    <3>0. PICK r : r = tgt[t] /\ r = tgt'[t]
      BY <2>1
    <3>1. ReloadedOK(t)
      BY <2>1, <2>6 DEF IInv, TaskOK
    <3>2. live'[r] = disks'[r]
      BY <3>0, <3>1 DEF ReloadedOK
    <3>3. ASSUME NEW w \in Sent' PROVE Held(RW \cup {r}, w)'
      BY <3>0, <3>1, <1>3 DEF ReloadedOK, Held
    <3> QED BY <3>0, <3>2, <3>3 DEF ReloadedOK
  <2> QED BY <2>1, <2>4, <2>5, <2>6
<1> QED BY <1>2, <1>4, <1>5 DEF TaskOK

\* What Lands does to the heads.
LEMMA LandsHead ==
    ASSUME TypeOK, NEW o, NEW S, NEW K, Lands(o, S, K)
    PROVE  /\ \A a \in Replica : head[a] \subseteq head'[a]
           /\ \A a \in S \cap Replica : o \in head'[a]
BY DEF TypeOK, Lands

\* Controller.WriteAt up to its RUnlock.
LEMMA WriteInv ==
    ASSUME IInv, NEW w \in Write, WriteAt(w)
    PROVE  IInv'
<1>1. TypeOK'
  BY ClientType DEF IInv, ClientNext
<1>2. PICK F \in SUBSET Writers :
        /\ \E N \in SUBSET F : full' = [full EXCEPT ![w] = N]
        /\ \E D, K : Lands(w, (Writers \ F) \cup D, K)
        /\ errs' = [errs EXCEPT ![w] = F]
        /\ st' = [st EXCEPT ![w] = IF F = {} THEN "acked" ELSE "failed"]
  BY DEF WriteAt
<1>3. /\ \A a \in Replica : head[a] \subseteq head'[a]
      /\ \A a \in (Writers \ F) \cap Replica : w \in head'[a]
  BY <1>2, LandsHead DEF IInv
<1>4. w \in Op /\ errs'[w] = F /\ st'[w] = IF F = {} THEN "acked" ELSE "failed"
  BY <1>2 DEF IInv, TypeOK, Op
<1>5. InHeads(w)'
  <2>1. Writers' = Writers /\ Writers \subseteq Replica
    BY DEF WriteAt, Writers
  <2> QED BY <1>3, <1>4, <2>1 DEF InHeads, Due
<1>6. ASSUME NEW v \in Sent', v # w
      PROVE  v \in Sent /\ st'[v] = st[v] /\ errs'[v] = errs[v]
  BY <1>2, <1>6 DEF IInv, TypeOK, Sent, Op
<1>7. ErrsAre'
  BY <1>2 DEF IInv, TypeOK, ErrsAre, Op
<1>8. UNCHANGED <<mode, disks, live, data, taskVars>>
  BY DEF WriteAt
<1>9. OneWO' /\ ChainsInSync' /\ RWLive' /\ Located' /\ TargetOK' /\ TaskOK'
  BY <1>3, <1>5, <1>6, <1>8, GrowInv
<1> QED BY <1>1, <1>7, <1>9 DEF IInv

\* Controller.UnmapAt: unmaps are no writes, the heads only grow.
LEMMA UnmapInv ==
    ASSUME IInv, NEW u \in Unmap, UnmapAt(u)
    PROVE  IInv'
<1>1. TypeOK'
  BY ClientType DEF IInv, ClientNext
<1>2. PICK F, first :
        /\ \E S, K : Lands(u, S, K)
        /\ errs' = [errs EXCEPT ![u] = IF F = {} THEN {} ELSE {first}]
        /\ st' = [st EXCEPT ![u] = IF F = {} THEN "acked" ELSE "failed"]
        /\ full' = full /\ st[u] = "new"
  BY DEF UnmapAt
<1>3. \A a \in Replica : head[a] \subseteq head'[a]
  BY <1>2, LandsHead DEF IInv
<1>4. ASSUME NEW v \in Sent'
      PROVE  v \in Sent /\ st'[v] = st[v] /\ errs'[v] = errs[v]
  <2>1. v # u /\ v \in Op
    BY OpAssumption DEF Sent, Op
  <2> QED BY <1>2, <2>1 DEF IInv, TypeOK, Sent
<1>5. ErrsAre'
  BY <1>2 DEF IInv, TypeOK, ErrsAre, Op
<1>6. UNCHANGED <<mode, disks, live, data, taskVars>>
  BY DEF UnmapAt
<1>7. OneWO' /\ ChainsInSync' /\ RWLive' /\ Located' /\ TargetOK' /\ TaskOK'
  <2>1. u \notin Write
    BY OpAssumption
  <2> QED BY <1>3, <1>4, <1>6, <2>1, GrowInv
<1> QED BY <1>1, <1>5, <1>7 DEF IInv

\* handleError: the replicas that lack the write leave before it is acknowledged.
LEMMA HandleErrorInv ==
    ASSUME IInv, NEW w \in Op, HandleError(w)
    PROVE  IInv'
<1>1. TypeOK'
  BY ClientType DEF IInv, ClientNext
<1>2. PICK wb : mode' = HandleErrorNoLock(errs[w], full[w], wb)
  BY DEF HandleError
<1>3. /\ Demotes
      /\ ~AllFull(errs[w], full[w]) =>
            \A r \in errs[w] \cap Replica : mode'[r] \notin {"WO", "RW"}
  BY <1>2, HandleErrorFacts DEF IInv, TypeOK
<1>4. /\ st[w] = "failed"
      /\ st' = [st EXCEPT ![w] = st'[w]]
      /\ st'[w] = "error" \/ (st'[w] = "acked" /\ ~AllFull(errs[w], full[w]))
      /\ errs' = [errs EXCEPT ![w] = {}]
      /\ full' = [full EXCEPT ![w] = {}]
      /\ UNCHANGED diskVars /\ UNCHANGED taskVars
  BY DEF HandleError, Answer, IInv, TypeOK
<1>5. NoNewDue
  <2> SUFFICES ASSUME NEW v \in Sent'
               PROVE  /\ v \in Sent
                      /\ st[v] = "acked" => st'[v] = "acked"
                      /\ \A a \in Writers' : Due(v, a)' => Due(v, a)
    BY DEF NoNewDue
  <2>1. CASE v # w
    <3>1. v \in Op /\ st'[v] = st[v] /\ errs'[v] = errs[v]
      BY <1>4, <2>1 DEF IInv, TypeOK, Sent, Op
    <3> QED BY <3>1 DEF Sent, Due
  <2>2. CASE v = w
    <3>1. st'[w] = "acked" /\ ~AllFull(errs[w], full[w])
      BY <1>4, <2>2 DEF Sent
    <3>2. \A a \in Writers' : a \notin errs[w]
      BY <3>1, <1>3 DEF Writers, IInv, TypeOK
    <3> QED BY <3>1, <3>2, <2>2, <1>4 DEF Sent, Due
  <2> QED BY <2>1, <2>2
<1>6. TasksStay
  BY <1>4 DEF TasksStay, taskVars
<1>7. OneWO' /\ ChainsInSync' /\ RWLive' /\ Located' /\ TaskOK'
  BY <1>3, <1>4, <1>5, <1>6, QuietInv
<1>8. TargetOK'
  BY <1>3, <1>4 DEF IInv, TargetOK, taskVars, Demotes
<1>9. ErrsAre'
  BY <1>4 DEF IInv, TypeOK, ErrsAre
<1> QED BY <1>1, <1>7, <1>8, <1>9 DEF IInv

\* Steps that only demote replicas and let no task get on.
LEMMA DemoteInv ==
    ASSUME IInv, TypeOK', Demotes, UNCHANGED <<diskVars, opVars>>,
           TasksStay, TargetOK'
    PROVE  IInv'
<1>1. NoNewDue
  BY DEF NoNewDue, Sent, Due, opVars
<1>2. OneWO' /\ ChainsInSync' /\ RWLive' /\ Located' /\ TaskOK'
  BY <1>1, QuietInv
<1>3. ErrsAre'
  BY DEF IInv, ErrsAre, opVars
<1> QED BY <1>2, <1>3 DEF IInv

\* A step that changes no task.
LEMMA IdleTasks ==
    ASSUME IInv, Demotes, UNCHANGED taskVars
    PROVE  TasksStay /\ TargetOK'
BY DEF TasksStay, IInv, TargetOK, taskVars, Demotes

\* Controller.ReadAt.
LEMMA ReadInv ==
    ASSUME IInv, ReadAt
    PROVE  IInv'
<1>1. TypeOK'
  BY ClientType DEF IInv, ClientNext
<1>2. Demotes
  BY HandleErrorFacts DEF ReadAt, IInv, TypeOK
<1> QED BY <1>1, <1>2, IdleTasks, DemoteInv DEF ReadAt

\* Replicas that are set to ERR or removed; ERR to RW needs a fault.
LEMMA ModeInv ==
    ASSUME IInv, Undisturbed, NEW r \in Replica,
           SetReplicaModeERR(r) \/ SetReplicaModeRW(r) \/ RemoveReplica(r)
    PROVE  IInv'
<1>1. TypeOK'
  BY ReplicaType DEF IInv, ReplicaNext
<1>2. SetReplicaModeERR(r) \/ RemoveReplica(r)
  BY DEF Undisturbed, SetReplicaModeRW
<1>3. Demotes
  <2>1. CASE SetReplicaModeERR(r)
    BY <2>1, SetErrFacts DEF SetReplicaModeERR, Demotes, IInv, TypeOK
  <2>2. CASE RemoveReplica(r)
    BY <2>2 DEF RemoveReplica, Demotes, IInv, TypeOK
  <2> QED BY <1>2, <2>1, <2>2
<1>4. UNCHANGED <<diskVars, opVars, taskVars>>
  BY <1>2 DEF SetReplicaModeERR, RemoveReplica
<1> QED BY <1>1, <1>3, <1>4, IdleTasks, DemoteInv

-----------------------------------------------------------------------------
(* The add-replica task.                                                   *)

\* A task that ends disturbs no other.
LEMMA IdleStays ==
    ASSUME IInv, NEW t \in Task, Idle(t), Demotes
    PROVE  TasksStay /\ TargetOK'
<1>1. /\ pc'[t] = "idle" /\ src'[t] = {}
      /\ \A u \in Task \ {t} : /\ pc'[u] = pc[u] /\ tgt'[u] = tgt[u]
                              /\ src'[u] = src[u] /\ todo'[u] = todo[u]
  BY DEF Idle, Goto, IInv, TypeOK
<1> QED BY <1>1 DEF TasksStay, TargetOK, IInv, Demotes

\* Steps of the task that change no file and no operation.
LEMMA QuietTaskInv ==
    ASSUME IInv, NEW t \in Task,
           \/ \E r \in Replica : AddReplicaAgain(t, r)
           \/ SetRebuilding(t) \/ FinishRebuild(t) \/ TaskFails(t)
    PROVE  IInv'
<1>1. TypeOK'
  BY TaskType DEF IInv, TaskStep
<1>2. Demotes /\ UNCHANGED <<diskVars, opVars>>
  BY DEF AddReplicaAgain, SetRebuilding, FinishRebuild, TaskFails, Demotes
<1>3. TasksStay /\ TargetOK'
  <2>1. CASE \E r \in Replica : AddReplicaAgain(t, r)
    <3>1. PICK r \in Replica : AddReplicaAgain(t, r)
      BY <2>1
    <3>2. /\ pc[t] = "idle" /\ pc'[t] = "added" /\ tgt'[t] = r /\ mode'[r] = "WO"
          /\ src' = src /\ todo' = todo
          /\ \A u \in Task \ {t} : pc'[u] = pc[u] /\ tgt'[u] = tgt[u]
      BY <3>1 DEF AddReplicaAgain, Goto, IInv, TypeOK
    <3> QED BY <3>2, <1>2 DEF TasksStay, TargetOK, IInv, Demotes
  <2>2. CASE SetRebuilding(t)
    <3>1. /\ pc[t] = "picked" /\ pc'[t] = "flagged"
          /\ tgt' = tgt /\ src' = src /\ todo' = todo
          /\ \A u \in Task \ {t} : pc'[u] = pc[u]
      BY <2>2 DEF SetRebuilding, Goto, IInv, TypeOK
    <3> QED BY <3>1, <1>2 DEF TasksStay, TargetOK, IInv, Demotes
  <2>3. CASE FinishRebuild(t) \/ TaskFails(t)
    BY <2>3, <1>2, IdleStays DEF FinishRebuild, TaskFails
  <2> QED BY <2>1, <2>2, <2>3
<1> QED BY <1>1, <1>2, <1>3, DemoteInv

\* With one task, a step that lets it be in none of the checked places keeps TaskOK.
LEMMA OnlyTask ==
    ASSUME Undisturbed, NEW t \in Task,
           \/ pc'[t] \in {"idle", "added", "verified"}
           \/ pc'[t] \in {"picked", "flagged"} /\ PickedOK(t)'
           \/ pc'[t] = "syncing" /\ (Rebuilds(t)' => SyncingOK(t)')
           \/ pc'[t] = "reloaded" /\ (Rebuilds(t)' => ReloadedOK(t)')
    PROVE  TaskOK'
<1> SUFFICES ASSUME NEW u \in Task, Rebuilds(u)' PROVE
        /\ pc'[u] \in {"picked", "flagged"} => PickedOK(u)'
        /\ pc'[u] = "syncing" => SyncingOK(u)'
        /\ pc'[u] = "reloaded" => ReloadedOK(u)'
  BY DEF TaskOK
<1>1. u = t
  BY DEF Undisturbed
<1> QED BY <1>1

\* Without failed I/O pending a write is due everywhere or nowhere.
LEMMA SettledDue ==
    ASSUME Settled
    PROVE  /\ \A w \in Sent : st[w] = "acked"
           /\ \A w \in Sent : \A a : Due(w, a)
BY DEF Settled, Sent, Due, Op

\* getTransferClients: the sources hold what is in the disks of the RW replicas.
LEMMA GetTransferClientsInv ==
    ASSUME IInv, Undisturbed, NEW t \in Task, GetTransferClients(t)
    PROVE  IInv'
<1>1. TypeOK'
  BY TaskType DEF IInv, TaskStep
<1>2. PICK S \in SUBSET RW : src' = [src EXCEPT ![t] = S]
  BY DEF GetTransferClients
<1>3. /\ UNCHANGED <<mode, diskVars, rev, rebuilding, opVars, tgt, todo>>
      /\ pc[t] = "added" /\ Settled /\ mode[tgt[t]] = "WO" /\ RW # {}
      /\ pc' = [pc EXCEPT ![t] = "picked"]
  BY DEF GetTransferClients, Undisturbed, Goto
<1>4. /\ src'[t] = S /\ pc'[t] = "picked" /\ t \in Task
      /\ \A u \in Task \ {t} : src'[u] = src[u] /\ pc'[u] = pc[u]
  BY <1>2, <1>3 DEF IInv, TypeOK
<1>5. RW' = RW /\ Writers' = Writers /\ Sent' = Sent
  BY <1>3 DEF RW, WithMode, Writers, Sent, opVars
<1>6. OneWO' /\ ChainsInSync' /\ RWLive' /\ ErrsAre'
  BY <1>3, <1>5 DEF IInv, OneWO, WithMode, ChainsInSync, RWLive, ErrsAre, diskVars, opVars
<1>7. \A w, a : Due(w, a)' <=> Due(w, a)
  BY <1>3 DEF Due, opVars
<1>8. /\ \A w : InHeads(w)' <=> InHeads(w)
      /\ \A w, s : InDisk(RW, w, s)' <=> InDisk(RW, w, s)
  BY <1>3, <1>5, <1>7 DEF InHeads, InDisk, diskVars
<1>9. Located'
  BY <1>5, <1>8 DEF IInv, Located, Held
<1>10. TargetOK'
  <2>1. tgt[t] \in Replica /\ tgt[t] \notin S
    BY <1>3 DEF IInv, TargetOK, RW, WithMode
  <2> QED BY <1>3, <1>4, <2>1 DEF IInv, TargetOK
<1>11. PickedOK(t)'
  <2>1. \A a \in src'[t], q \in RW' : disks'[a] \subseteq disks'[q]
    BY <1>3, <1>4, <1>5 DEF IInv, ChainsInSync, diskVars
  <2>2. ASSUME NEW w \in Sent', ~InHeads(w)'
        PROVE  /\ st'[w] = "acked"
               /\ \E s \in Snap : InDisk(RW, w, s)' /\ SourcesHold(t, w, s)'
    <3>1. w \in Sent /\ st[w] = "acked" /\ \A a : Due(w, a)
      BY <1>3, <1>5, SettledDue
    <3>2. PICK s \in Snap : InDisk(RW, w, s)
      BY <2>2, <1>8, <3>1 DEF IInv, Located, Held
    <3>3. SourcesHold(t, w, s)'
      BY <1>3, <1>4, <3>1, <3>2 DEF SourcesHold, InDisk, diskVars
    <3> QED BY <1>3, <1>8, <3>1, <3>2, <3>3 DEF opVars
  <2> QED BY <2>1, <2>2 DEF PickedOK
<1>12. TaskOK'
  BY <1>4, <1>11, OnlyTask
<1> QED BY <1>1, <1>6, <1>9, <1>10, <1>12 DEF IInv

\* Steps that change the files of one replica, which is not RW, and no mode.
LEMMA TargetFiles ==
    ASSUME IInv, UNCHANGED <<mode, head, opVars>>, NEW r, r \notin RW,
           \A a \in Replica \ {r} :
              disks'[a] = disks[a] /\ live'[a] = live[a] /\ data'[a] = data[a]
    PROVE  /\ RW' = RW /\ Writers' = Writers /\ Sent' = Sent
           /\ OneWO' /\ ChainsInSync' /\ RWLive' /\ ErrsAre' /\ Located'
           /\ \A w, a : Due(w, a)' <=> Due(w, a)
           /\ \A w : InHeads(w)' <=> InHeads(w)
           /\ \A w, s : InDisk(RW, w, s)' <=> InDisk(RW, w, s)
<1>1. RW' = RW /\ Writers' = Writers /\ Sent' = Sent
  BY DEF RW, WithMode, Writers, Sent, opVars
<1>2. \A a \in RW : /\ disks'[a] = disks[a] /\ live'[a] = live[a]
                    /\ data'[a] = data[a]
  BY DEF RW, WithMode
<1>3. OneWO' /\ ChainsInSync' /\ RWLive' /\ ErrsAre'
  BY <1>1, <1>2 DEF IInv, OneWO, WithMode, ChainsInSync, RWLive, ErrsAre, opVars
<1>4. \A w, a : Due(w, a)' <=> Due(w, a)
  BY DEF Due, opVars
<1>5. \A w : InHeads(w)' <=> InHeads(w)
  BY <1>1, <1>4 DEF InHeads
<1>6. \A w, s : InDisk(RW, w, s)' <=> InDisk(RW, w, s)
  BY <1>1, <1>2, <1>4 DEF InDisk
<1>7. Located'
  BY <1>1, <1>5, <1>6 DEF IInv, Located, Held
<1> QED BY <1>1, <1>3, <1>4, <1>5, <1>6, <1>7

\* What removeExtraDisks leaves on its replica.
LEMMA RemoveExtraFacts ==
    ASSUME TypeOK, NEW r, NEW X, RemoveExtraDisks(r, X)
    PROVE  \A a \in Replica \ {r} :
              disks'[a] = disks[a] /\ live'[a] = live[a] /\ data'[a] = data[a]
BY DEF RemoveExtraDisks, TypeOK

\* PrepareRebuildReplica: all that is not in the heads is now to be copied.
LEMMA PrepareInv ==
    ASSUME IInv, Undisturbed, NEW t \in Task, PrepareRebuildReplica(t)
    PROVE  IInv'
<1>1. TypeOK'
  BY TaskType DEF IInv, TaskStep
<1>2. PICK r \in Replica : r = tgt[t]
  BY DEF PrepareRebuildReplica, IInv, TargetOK
<1>3. r \notin src[t] /\ r \notin RW /\ pc[t] = "flagged"
  BY <1>2 DEF PrepareRebuildReplica, IInv, TargetOK, RW, WithMode
<1>4. UNCHANGED <<mode, head, opVars>>
  BY DEF PrepareRebuildReplica
<1>5. \A a \in Replica \ {r} :
         disks'[a] = disks[a] /\ live'[a] = live[a] /\ data'[a] = data[a]
  <2>1. PICK X : RemoveExtraDisks(tgt[t], X)
    BY Zenon DEF PrepareRebuildReplica
  <2> QED BY <2>1, <1>2, RemoveExtraFacts DEF IInv
<1>6. /\ RW' = RW /\ Writers' = Writers /\ Sent' = Sent
      /\ OneWO' /\ ChainsInSync' /\ RWLive' /\ ErrsAre' /\ Located'
      /\ \A w, a : Due(w, a)' <=> Due(w, a)
      /\ \A w : InHeads(w)' <=> InHeads(w)
      /\ \A w, s : InDisk(RW, w, s)' <=> InDisk(RW, w, s)
  BY <1>3, <1>4, <1>5, TargetFiles
<1>7. CASE Idle(t)
  <2>1. TargetOK'
    BY <1>4, <1>7, IdleStays DEF Demotes
  <2>2. pc'[t] = "idle"
    BY <1>7 DEF Idle, Goto, IInv, TypeOK
  <2> QED BY <2>1, <2>2, <1>1, <1>6, OnlyTask DEF IInv
<1>8. CASE ~Idle(t)
  <2>1. PICK q \in RW :
          /\ mode[r] = "WO" /\ todo' = [todo EXCEPT ![t] = disks[q]]
          /\ pc' = [pc EXCEPT ![t] = "syncing"] /\ UNCHANGED <<tgt, src>>
    BY <1>2, <1>8 DEF PrepareRebuildReplica, Goto
  <2>2. /\ todo'[t] = disks[q] /\ pc'[t] = "syncing"
        /\ \A u \in Task \ {t} : pc'[u] = pc[u]
    BY <2>1 DEF IInv, TypeOK
  <2>3. TargetOK'
    BY <1>3, <1>4, <2>1, <2>2 DEF IInv, TargetOK
  <2>4. PickedOK(t)
    BY <1>2, <1>3, <2>1 DEF IInv, TaskOK, Rebuilds
  <2>5. \A p \in RW' : todo'[t] \subseteq disks'[p]
    <3>1. \A p \in RW : disks'[p] = disks[p] /\ disks[p] = disks[q]
      BY <1>3, <1>5, <2>1 DEF IInv, ChainsInSync, RW, WithMode
    <3> QED BY <1>6, <2>2, <3>1
  <2>6. ASSUME NEW w \in Sent', ~InHeads(w)'
        PROVE  \E s \in Snap : InDisk(RW, w, s)' /\ Copied(t, w, s)'
    <3>1. PICK s \in Snap : st[w] = "acked" /\ InDisk(RW, w, s) /\ SourcesHold(t, w, s)
      BY <2>4, <2>6, <1>6 DEF PickedOK
    <3>2. s \in todo'[t]
      BY <2>2, <3>1 DEF InDisk, Due
    <3>3. SourcesHold(t, w, s)'
      BY <1>3, <1>5, <2>1, <3>1 DEF SourcesHold, IInv, TypeOK
    <3> QED BY <3>1, <3>2, <3>3, <1>6 DEF Copied
  <2>7. SyncingOK(t)'
    BY <2>5, <2>6 DEF SyncingOK
  <2>8. TaskOK'
    BY <2>2, <2>7, OnlyTask
  <2> QED BY <1>1, <1>6, <2>3, <2>8 DEF IInv
<1> QED BY <1>7, <1>8

\* fileSyncRemote: a copied disk holds what its source held.
LEMMA SyncFileInv ==
    ASSUME IInv, Undisturbed, NEW t \in Task, NEW s \in Snap, SyncFile(t, s)
    PROVE  IInv'
<1>1. TypeOK'
  BY TaskType DEF IInv, TaskStep
<1>2. PICK r \in Replica : r = tgt[t]
  BY DEF SyncFile, IInv, TargetOK
<1>3. PICK q \in src[t] : s \in disks[q] /\ data' = [data EXCEPT ![r][s] = data[q][s]]
  BY <1>2 DEF SyncFile
<1>4. /\ pc[t] = "syncing" /\ s \in todo[t]
      /\ disks' = [disks EXCEPT ![r] = @ \cup {s}]
      /\ todo' = [todo EXCEPT ![t] = @ \ {s}]
      /\ UNCHANGED <<mode, head, live, opVars, pc, tgt, src>>
  BY <1>2 DEF SyncFile
<1>5. r \notin src[t] /\ r \notin RW /\ q \in Replica /\ q # r
  BY <1>2, <1>4 DEF IInv, TargetOK, RW, WithMode, TypeOK
<1>6. /\ \A a \in Replica \ {r} :
            disks'[a] = disks[a] /\ live'[a] = live[a] /\ data'[a] = data[a]
      /\ disks'[r] = disks[r] \cup {s} /\ data'[r][s] = data[q][s]
      /\ \A x \in Snap \ {s} : data'[r][x] = data[r][x]
      /\ todo'[t] = todo[t] \ {s}
  BY <1>3, <1>4 DEF IInv, TypeOK
<1>7. /\ RW' = RW /\ Writers' = Writers /\ Sent' = Sent
      /\ OneWO' /\ ChainsInSync' /\ RWLive' /\ ErrsAre' /\ Located'
      /\ \A w, a : Due(w, a)' <=> Due(w, a)
      /\ \A w : InHeads(w)' <=> InHeads(w)
      /\ \A w, x : InDisk(RW, w, x)' <=> InDisk(RW, w, x)
  BY <1>4, <1>5, <1>6, TargetFiles
<1>8. TargetOK'
  BY <1>4 DEF IInv, TargetOK
<1>9. ASSUME Rebuilds(t)' PROVE SyncingOK(t)'
  <2>1. SyncingOK(t)
    BY <1>4, <1>7, <1>9 DEF IInv, TaskOK, Rebuilds
  <2>2. \A p \in RW' : todo'[t] \subseteq disks'[p]
    BY <2>1, <1>5, <1>6, <1>7 DEF SyncingOK, RW, WithMode
  <2>3. ASSUME NEW w, NEW x \in Snap, Copied(t, w, x) PROVE Copied(t, w, x)'
    <3>1. \A a \in src[t] : disks'[a] = disks[a] /\ data'[a] = data[a]
      BY <1>5, <1>6 DEF IInv, TypeOK
    <3>2. SourcesHold(t, w, x) => SourcesHold(t, w, x)'
      BY <3>1, <1>4 DEF SourcesHold
    <3>3. CASE x = s
      BY <2>3, <3>3, <1>2, <1>3, <1>4, <1>6 DEF Copied, SourcesHold
    <3>4. CASE x # s
      BY <2>3, <3>2, <3>4, <1>2, <1>4, <1>6 DEF Copied
    <3> QED BY <3>3, <3>4
  <2>4. ASSUME NEW w \in Sent', ~InHeads(w)'
        PROVE  \E x \in Snap : InDisk(RW, w, x)' /\ (Due(w, r)' => Copied(t, w, x)')
    BY <2>1, <2>3, <2>4, <1>2, <1>7 DEF SyncingOK
  <2> QED BY <2>2, <2>4, <1>2, <1>4 DEF SyncingOK
<1>10. TaskOK'
  BY <1>4, <1>9, OnlyTask
<1> QED BY <1>1, <1>7, <1>8, <1>10 DEF IInv

\* ReloadReplica: what was copied can be read.
LEMMA ReloadInv ==
    ASSUME IInv, Undisturbed, NEW t \in Task, ReloadReplica(t)
    PROVE  IInv'
<1>1. TypeOK'
  BY TaskType DEF IInv, TaskStep
<1>2. PICK r \in Replica : r = tgt[t]
  BY DEF ReloadReplica, IInv, TargetOK
<1>3. /\ pc[t] = "syncing" /\ todo[t] = {}
      /\ live' = [live EXCEPT ![r] = disks[r]]
      /\ pc' = [pc EXCEPT ![t] = "reloaded"]
      /\ UNCHANGED <<mode, head, disks, data, opVars, tgt, src, todo>>
  BY <1>2 DEF ReloadReplica, Goto
<1>4. r \notin RW
  BY <1>2, <1>3 DEF IInv, TargetOK, RW, WithMode
<1>5. /\ \A a \in Replica \ {r} :
            disks'[a] = disks[a] /\ live'[a] = live[a] /\ data'[a] = data[a]
      /\ live'[r] = disks[r]
      /\ pc'[t] = "reloaded" /\ \A u \in Task \ {t} : pc'[u] = pc[u]
  BY <1>3 DEF IInv, TypeOK
<1>6. /\ RW' = RW /\ Writers' = Writers /\ Sent' = Sent
      /\ OneWO' /\ ChainsInSync' /\ RWLive' /\ ErrsAre' /\ Located'
      /\ \A w, a : Due(w, a)' <=> Due(w, a)
      /\ \A w : InHeads(w)' <=> InHeads(w)
      /\ \A w, s : InDisk(RW, w, s)' <=> InDisk(RW, w, s)
  BY <1>3, <1>4, <1>5, TargetFiles
<1>7. TargetOK'
  BY <1>3, <1>5 DEF IInv, TargetOK
<1>8. ASSUME Rebuilds(t)' PROVE ReloadedOK(t)'
  <2>1. SyncingOK(t)
    BY <1>3, <1>6, <1>8 DEF IInv, TaskOK, Rebuilds
  <2>2. ASSUME NEW w \in Sent' PROVE Held(RW \cup {r}, w)'
    <3>1. CASE InHeads(w)
      BY <3>1, <1>6 DEF Held
    <3>2. CASE ~InHeads(w)
      <4>1. PICK s \in Snap : InDisk(RW, w, s) /\ (Due(w, r) => Copied(t, w, s))
        BY <3>2, <2>1, <1>2, <1>6 DEF SyncingOK
      <4>2. InDisk(RW \cup {r}, w, s)
        BY <4>1, <1>2, <1>3 DEF InDisk, Copied
      <4>3. InDisk(RW \cup {r}, w, s)'
        BY <4>2, <1>3, <1>6 DEF InDisk
      <4> QED BY <4>3 DEF Held
    <3> QED BY <3>1, <3>2
  <2> QED BY <2>2, <1>2, <1>3, <1>5 DEF ReloadedOK
<1>9. TaskOK'
  BY <1>5, <1>8, OnlyTask
<1> QED BY <1>1, <1>6, <1>7, <1>9 DEF IInv

\* A replica that is verified joins the RW replicas with all it has to hold.
LEMMA PromoteInv ==
    ASSUME IInv, Undisturbed, TypeOK', NEW t \in Task, NEW r \in Replica, r = tgt[t],
           pc[t] = "reloaded", mode[r] = "WO",
           NEW q \in RW, disks[r] = disks[q],
           mode' = [mode EXCEPT ![r] = "RW"],
           pc' = [pc EXCEPT ![t] = "verified"],
           UNCHANGED <<diskVars, opVars, tgt, src, todo>>
    PROVE  IInv'
<1>1. ReloadedOK(t)
  BY DEF IInv, TaskOK, Rebuilds
<1>2. RW' = RW \cup {r} /\ Writers' = Writers /\ Sent' = Sent
  BY DEF IInv, TypeOK, RW, WithMode, Writers, Sent, opVars
<1>3. OneWO' /\ ErrsAre'
  BY DEF IInv, TypeOK, OneWO, WithMode, ErrsAre, opVars
<1>4. ChainsInSync'
  BY <1>2 DEF IInv, ChainsInSync, diskVars
<1>5. RWLive'
  BY <1>1, <1>2 DEF IInv, RWLive, ReloadedOK, diskVars
<1>6. \A w, a : Due(w, a)' <=> Due(w, a)
  BY DEF Due, opVars
<1>7. ASSUME NEW w \in Sent' PROVE Held(RW, w)'
  <2>1. Held(RW \cup {r}, w)
    BY <1>1, <1>2 DEF ReloadedOK
  <2>2. InHeads(w) => InHeads(w)'
    BY <1>2, <1>6 DEF InHeads, diskVars
  <2>3. \A s : InDisk(RW \cup {r}, w, s) => InDisk(RW, w, s)'
    BY <1>2, <1>6 DEF InDisk, diskVars
  <2> QED BY <2>1, <2>2, <2>3 DEF Held
<1>8. pc'[t] = "verified" /\ \A u \in Task \ {t} : pc'[u] = pc[u]
  BY DEF IInv, TypeOK
<1>9. TargetOK'
  BY <1>8 DEF IInv, TargetOK, Undisturbed
<1>10. TaskOK'
  BY <1>8, OnlyTask
<1> QED BY <1>3, <1>4, <1>5, <1>7, <1>9, <1>10 DEF IInv, Located

\* VerifyRebuildReplica promotes, refuses, or finds the work done.
LEMMA VerifyInv ==
    ASSUME IInv, Undisturbed, NEW t \in Task, VerifyRebuildReplica(t)
    PROVE  IInv'
<1>1. TypeOK'
  BY TaskType DEF IInv, TaskStep
<1>2. PICK r \in Replica : r = tgt[t]
  BY DEF VerifyRebuildReplica, IInv, TargetOK
<1>3. pc[t] = "reloaded" /\ mode[r] # "RW" /\ UNCHANGED <<diskVars, opVars>>
  BY <1>2 DEF VerifyRebuildReplica, IInv, TargetOK
<1>4. CASE Idle(t) /\ mode' = SetErr(mode, {r})
  <2>1. Demotes
    BY <1>4, SetErrFacts DEF Demotes, IInv, TypeOK
  <2> QED BY <1>1, <1>3, <1>4, <2>1, IdleStays, DemoteInv
<1>5. CASE ~(Idle(t) /\ mode' = SetErr(mode, {r}))
  <2>1. PICK q \in RW :
          /\ disks[r] = disks[q] /\ mode[r] = "WO"
          /\ mode' = [mode EXCEPT ![r] = "RW"]
          /\ pc' = [pc EXCEPT ![t] = "verified"]
          /\ UNCHANGED <<tgt, src, todo>>
    BY <1>2, <1>3, <1>5 DEF VerifyRebuildReplica, CanBecomeRW, Goto
  <2> QED BY <1>1, <1>2, <1>3, <2>1, PromoteInv
<1> QED BY <1>4, <1>5

\* AddReplica: its snapshot moves every head into one disk on all writers.
LEMMA AddReplicaInv ==
    ASSUME IInv, Undisturbed, NEW t \in Task, NEW r \in Replica, NEW s \in Snap,
           AddReplica(t, r, s)
    PROVE  IInv'
<1>1. TypeOK'
  BY TaskType DEF IInv, TaskStep
<1>2. CASE TakeSnapshot({}, s) /\ UNCHANGED <<mode, taskVars>>
  <2>1. UNCHANGED diskVars /\ UNCHANGED opVars
    BY <1>2 DEF TakeSnapshot, diskVars, IInv, TypeOK, AddReplica
  <2>2. Demotes
    BY <1>2 DEF Demotes
  <2> QED BY <1>1, <1>2, <2>1, <2>2, IdleTasks, DemoteInv
<1>3. CASE ~(TakeSnapshot({}, s) /\ UNCHANGED <<mode, taskVars>>)
  <2>1. /\ disks' = [q \in Replica |->
                IF q \in Writers \cup {r} THEN disks[q] \cup {s} ELSE disks[q]]
        /\ live' = [q \in Replica |->
                IF q \in Writers THEN live[q] \cup {s}
                ELSE IF q = r THEN disks[q] \cup {s} ELSE live[q]]
        /\ data' = [q \in Replica |->
                IF q \in Writers \cup {r} THEN [data[q] EXCEPT ![s] = head[q]]
                ELSE data[q]]
        /\ mode' = [mode EXCEPT ![r] = "WO"]
        /\ pc' = [pc EXCEPT ![t] = "added"] /\ tgt' = [tgt EXCEPT ![t] = r]
        /\ UNCHANGED <<src, todo, opVars>>
    BY <1>3 DEF AddReplica, Goto, Undisturbed
  <2>2. /\ mode[r] = "none" /\ WithMode("WO") = {} /\ pc[t] = "idle"
        /\ \A q \in Replica : s \notin disks[q]
    BY DEF AddReplica, CanAdd, HasWOReplica
  <2>3. RW' = RW /\ Sent' = Sent /\ RW \subseteq Writers /\ RW \subseteq Replica
    BY <2>1, <2>2 DEF IInv, TypeOK, RW, WithMode, Writers, Sent, opVars
  <2>4. OneWO' /\ ErrsAre'
    BY <2>1, <2>2 DEF IInv, TypeOK, OneWO, WithMode, ErrsAre, opVars
  <2>5. \A a \in RW : /\ disks'[a] = disks[a] \cup {s} /\ live'[a] = live[a] \cup {s}
                      /\ data'[a][s] = head[a]
                      /\ \A x \in Snap \ {s} : data'[a][x] = data[a][x]
    BY <2>1, <2>3 DEF IInv, TypeOK
  <2>6. ChainsInSync' /\ RWLive'
    <3>1. \A a, b \in RW : disks[a] = disks[b] /\ live[a] = disks[a]
      BY DEF IInv, ChainsInSync, RWLive
    <3>2. ASSUME NEW a \in RW, NEW b \in RW
          PROVE  disks'[a] = disks'[b] /\ live'[a] = disks'[a]
      <4>1. disks[a] = disks[b] /\ live[a] = disks[a]
        BY <3>1
      <4>2. /\ disks'[a] = disks[a] \cup {s} /\ live'[a] = live[a] \cup {s}
            /\ disks'[b] = disks[b] \cup {s}
        BY <2>5
      <4> QED BY <4>1, <4>2
    <3> QED BY <2>3, <3>2 DEF ChainsInSync, RWLive
  <2>7. \A w, a : Due(w, a)' <=> Due(w, a)
    BY <2>1 DEF Due, opVars
  <2>8. ASSUME NEW w \in Sent' PROVE Held(RW, w)'
    <3>1. CASE InHeads(w)
      <4>1. InDisk(RW, w, s)'
        BY <3>1, <2>3, <2>5, <2>7 DEF InHeads, InDisk
      <4> QED BY <4>1 DEF Held
    <3>2. CASE ~InHeads(w)
      <4>1. PICK x \in Snap : InDisk(RW, w, x)
        BY <3>2, <2>3 DEF IInv, Located, Held
      <4>2. ASSUME NEW a \in RW, Due(w, a)
            PROVE  x \in disks'[a] /\ w \in data'[a][x]
        <5>1. x \in disks[a] /\ w \in data[a][x]
          BY <4>1, <4>2 DEF InDisk
        <5>2. x # s
          BY <5>1, <2>2, <2>3
        <5>3. disks'[a] = disks[a] \cup {s} /\ data'[a][x] = data[a][x]
          BY <5>2, <2>5
        <5> QED BY <5>1, <5>3
      <4>3. InDisk(RW, w, x)'
        BY <4>2, <2>3, <2>7 DEF InDisk
      <4> QED BY <4>3 DEF Held
    <3> QED BY <3>1, <3>2
  <2>9. /\ pc'[t] = "added" /\ tgt'[t] = r /\ mode'[r] = "WO" /\ src' = src
        /\ \A u \in Task : u = t
    BY <2>1 DEF IInv, TypeOK, Undisturbed
  <2>10. TargetOK'
    BY <2>2, <2>9 DEF IInv, TargetOK
  <2>11. TaskOK'
    BY <2>9, OnlyTask
  <2> QED BY <1>1, <2>4, <2>6, <2>8, <2>10, <2>11 DEF IInv, Located
<1> QED BY <1>2, <1>3

-----------------------------------------------------------------------------
(* Snapshots.                                                              *)

\* A replica takes the snapshot s, or its files stay as they are.
Took(a, s) ==
    /\ s \notin disks[a]
    /\ disks'[a] = disks[a] \cup {s} /\ live'[a] = live[a] \cup {s} /\ head'[a] = {}
    /\ data'[a][s] = head[a]
    /\ \A x \in Snap \ {s} : data'[a][x] = data[a][x]
Kept(a) ==
    /\ disks'[a] = disks[a] /\ live'[a] = live[a] /\ head'[a] = head[a]
    /\ data'[a] = data[a]

\* createDisk on the replicas of S, one by one.
LEMMA TakeSnapshotFacts ==
    ASSUME TypeOK, NEW S, NEW s \in Snap, TakeSnapshot(S, s)
    PROVE  /\ \A a \in Replica \cap S : s \notin disks[a] => Took(a, s)
           /\ \A a \in Replica \ S : Kept(a)
BY DEF TypeOK, TakeSnapshot, Took, Kept

\* All replicas that stay writers take the snapshot, or no RW replica does and
\* there is no WO replica.
LEMMA SnapshotCases ==
    ASSUME IInv, Undisturbed, NEW s \in Snap, Snapshot(s)
    PROVE  /\ Demotes
           /\ \A a \in Replica :
                Kept(a) \/ (a \in Writers /\ s \notin disks[a] /\ Took(a, s))
           /\ \/ /\ \A a \in Writers' : Took(a, s)
                 /\ \A a \in Writers : s \notin disks[a]
              \/ WithMode("WO") = {} /\ \A a \in RW' : Kept(a)
<1> DEFINE exist == {r \in Writers : s \in disks[r]}
<1>1. PICK F \in SUBSET (Writers \ exist) :
      \E N \in SUBSET F : \E L \in SUBSET (F \ N) :
         /\ exist = {} \/ ~HasWOReplica
         /\ ~AllFull(F, N) \/ ~HasWOReplica
         /\ TakeSnapshot((Writers \ (exist \cup F)) \cup L, s)
         /\ \E wb \in [N -> Bytes] : mode' = HandleErrorNoLock(F, N, wb)
  BY DEF Snapshot, Undisturbed
<1>2. PICK N \in SUBSET F : \E L \in SUBSET (F \ N) :
         /\ exist = {} \/ ~HasWOReplica
         /\ ~AllFull(F, N) \/ ~HasWOReplica
         /\ TakeSnapshot((Writers \ (exist \cup F)) \cup L, s)
         /\ \E wb \in [N -> Bytes] : mode' = HandleErrorNoLock(F, N, wb)
  BY <1>1
<1>3. PICK L \in SUBSET (F \ N) :
         /\ exist = {} \/ ~HasWOReplica
         /\ ~AllFull(F, N) \/ ~HasWOReplica
         /\ TakeSnapshot((Writers \ (exist \cup F)) \cup L, s)
         /\ \E wb \in [N -> Bytes] : mode' = HandleErrorNoLock(F, N, wb)
  BY <1>2
<1> DEFINE T == (Writers \ (exist \cup F)) \cup L
<1>4. /\ Demotes
      /\ ~AllFull(F, N) => \A r \in F \cap Replica : mode'[r] \notin {"WO", "RW"}
      /\ AllFull(F, N) => \A r \in Replica : mode'[r] = "RW" => r \in N
  BY <1>3, HandleErrorFacts DEF IInv, TypeOK
<1>5. /\ T \subseteq Writers /\ \A a \in T : s \notin disks[a]
      /\ Writers \subseteq Replica
  BY ModeSets
<1>6. /\ \A a \in T : Took(a, s)
      /\ \A a \in Replica \ T : Kept(a)
  <2>1. TakeSnapshot(T, s)
    BY <1>3
  <2> HIDE DEF T
  <2> QED BY <2>1, <1>5, TakeSnapshotFacts DEF IInv
<1>7. \A a \in Replica :
         Kept(a) \/ (a \in Writers /\ s \notin disks[a] /\ Took(a, s))
  <2> HIDE DEF T
  <2> QED BY <1>5, <1>6
<1>8. RW' \subseteq Writers' /\ Writers' \subseteq Writers /\ RW' \subseteq RW
  BY <1>4, DemoteSets, ModeSetsNext
<1>9. CASE AllFull(F, N)
  <2>1. WithMode("WO") = {}
    BY <1>3, <1>9 DEF HasWOReplica
  <2>2. \A a \in RW' : a \in N /\ a \in Replica
    BY <1>4, <1>9, ModeSetsNext
  <2>3. \A a \in RW' : a \in Replica \ T
    BY <2>2
  <2> QED BY <1>4, <1>6, <1>7, <2>1, <2>3
<1>10. CASE ~AllFull(F, N) /\ exist = {}
  <2>1. \A a \in Writers' : a \in Writers /\ a \notin F
    BY <1>4, <1>8, <1>10, ModeSetsNext
  <2>2. \A a \in Writers' : a \in T
    BY <2>1, <1>10
  <2> QED BY <1>4, <1>6, <1>7, <1>10, <2>2
<1>11. CASE ~AllFull(F, N) /\ exist # {}
  <2>1. WithMode("WO") = {}
    BY <1>3, <1>11 DEF HasWOReplica
  <2>2. Writers = RW
    BY <2>1 DEF Writers, RW, WithMode
  <2>3. \A a \in RW : s \in disks[a]
    BY <2>2, <1>11 DEF IInv, ChainsInSync
  <2>4. T = {}
    BY <2>2, <2>3
  <2> QED BY <1>4, <1>6, <1>7, <1>8, <2>1, <2>4, ModeSets
<1> QED BY <1>9, <1>10, <1>11

\* No RW replica takes the snapshot, and there is no WO replica: the replicas
\* that stay keep their files, and no rebuild is under way.
LEMMA SnapshotKept ==
    ASSUME IInv, Demotes, WithMode("WO") = {}, \A a \in RW' : Kept(a),
           UNCHANGED <<opVars, taskVars>>
    PROVE  ChainsInSync' /\ RWLive' /\ Located' /\ TaskOK'
<1>1. /\ RW' \subseteq RW /\ Writers' = RW' /\ Sent' = Sent
      /\ \A w, a : Due(w, a)' <=> Due(w, a)
  BY DemoteSets DEF Demotes, Writers, RW, WithMode, Sent, Due, opVars
<1>2. \A a, b \in RW' : disks[a] = disks[b] /\ live[a] = disks[a]
  BY <1>1 DEF IInv, ChainsInSync, RWLive
<1>3. ChainsInSync' /\ RWLive'
  BY <1>2 DEF ChainsInSync, RWLive, Kept
<1>4. ASSUME NEW w \in Sent' PROVE Held(RW, w)'
  <2>1. CASE InHeads(w)
    BY <2>1, <1>1, ModeSets DEF Held, InHeads, Kept
  <2>2. ASSUME NEW x \in Snap, InDisk(RW, w, x) PROVE Held(RW, w)'
    <3>1. InDisk(RW, w, x)'
      BY <2>2, <1>1 DEF InDisk, Kept
    <3> QED BY <3>1 DEF Held
  <2> QED BY <2>1, <2>2, <1>1 DEF IInv, Located, Held
<1>5. \A t \in Task : ~Rebuilds(t)'
  BY DEF IInv, TargetOK, Rebuilds, Demotes, WithMode, taskVars
<1> QED BY <1>3, <1>4, <1>5 DEF Located, TaskOK

\* Every replica that stays a writer takes the snapshot.
LEMMA SnapshotTook ==
    ASSUME IInv, Demotes, NEW s \in Snap,
           \A a \in Writers' : Took(a, s),
           \A a \in Writers : s \notin disks[a],
           \A a \in Replica : Kept(a) \/ (a \in Writers /\ Took(a, s)),
           Settled \/ \A t \in Task : pc[t] \notin {"picked", "flagged"},
           UNCHANGED <<opVars, taskVars>>
    PROVE  ChainsInSync' /\ RWLive' /\ Located' /\ TaskOK'
<1>1. /\ RW' \subseteq RW /\ Writers' \subseteq Writers /\ RW' \subseteq Writers'
      /\ Sent' = Sent /\ Writers' \subseteq Replica
      /\ \A w, a : Due(w, a)' <=> Due(w, a)
  BY DemoteSets, ModeSetsNext DEF Sent, Due, opVars
<1>2. ChainsInSync' /\ RWLive'
  <2>1. ASSUME NEW a \in RW', NEW b \in RW'
        PROVE  disks'[a] = disks'[b] /\ live'[a] = disks'[a]
    <3>1. disks[a] = disks[b] /\ live[a] = disks[a]
      BY <1>1 DEF IInv, ChainsInSync, RWLive
    <3>2. /\ disks'[a] = disks[a] \cup {s} /\ live'[a] = live[a] \cup {s}
          /\ disks'[b] = disks[b] \cup {s}
      BY <1>1 DEF Took
    <3> QED BY <3>1, <3>2
  <2> QED BY <2>1 DEF ChainsInSync, RWLive
<1>3. ASSUME NEW w, InHeads(w)
      PROVE  /\ InDisk(RW, w, s)'
             /\ \A r \in Writers' : InDisk(RW \cup {r}, w, s)'
  <2>1. \A a \in Writers' : Due(w, a)' => s \in disks'[a] /\ w \in data'[a][s]
    BY <1>1, <1>3 DEF InHeads, Took
  <2> QED BY <2>1, <1>1 DEF InDisk
<1>4. ASSUME NEW w, NEW x \in Snap
      PROVE  /\ InDisk(RW, w, x) => InDisk(RW, w, x)' \/ \A a \in RW' : ~Due(w, a)
             /\ \A r \in Writers' : InDisk(RW \cup {r}, w, x) =>
                    InDisk(RW \cup {r}, w, x)'
  <2>1. \A a \in Writers' : x \in disks[a] /\ w \in data[a][x] =>
            x # s /\ x \in disks'[a] /\ w \in data'[a][x]
    BY <1>1 DEF Took
  <2> QED BY <2>1, <1>1 DEF InDisk
<1>5. \A w, x : (\A a \in RW' : ~Due(w, a)) => InDisk(RW, w, x)'
  BY <1>1 DEF InDisk
<1>6. ASSUME NEW w \in Sent' PROVE Held(RW, w)'
  BY <1>1, <1>3, <1>4, <1>5 DEF IInv, Located, Held
<1>7. ASSUME NEW t \in Task, Rebuilds(t)' PROVE
        /\ pc'[t] \in {"picked", "flagged"} => PickedOK(t)'
        /\ pc'[t] = "syncing" => SyncingOK(t)'
        /\ pc'[t] = "reloaded" => ReloadedOK(t)'
  <2>1. PICK r \in Writers' : r = tgt[t] /\ r = tgt'[t]
    BY <1>7, ModeSetsNext DEF Rebuilds, IInv, TargetOK, taskVars
  <2>2. /\ RW' # {} /\ Rebuilds(t)
        /\ pc'[t] = pc[t] /\ src'[t] = src[t] /\ todo'[t] = todo[t]
    BY <1>1, <1>7 DEF Rebuilds, Demotes, IInv, TargetOK, taskVars
  <2>3. PICK q \in RW' : s \notin disks[q] /\ q \in RW
    BY <1>1, <2>2
  <2>4. ASSUME pc'[t] \in {"picked", "flagged"} PROVE PickedOK(t)'
    <3>1. PickedOK(t)
      BY <2>2, <2>4 DEF IInv, TaskOK
    <3>2. Settled
      BY <2>2, <2>4
    <3>3. \A a \in src[t] : a \in Replica /\ s \notin disks[a]
      BY <3>1, <2>3 DEF PickedOK, IInv, TypeOK
    <3>4. ASSUME NEW a \in src'[t], NEW p \in RW' PROVE disks'[a] \subseteq disks'[p]
      <4>1. disks[a] \subseteq disks[p]
        BY <3>1, <2>2, <1>1 DEF PickedOK
      <4>2. disks'[p] = disks[p] \cup {s}
        BY <1>1 DEF Took
      <4>3. disks'[a] \subseteq disks[a] \cup {s}
        BY <3>3, <2>2 DEF Kept, Took
      <4> QED BY <4>1, <4>2, <4>3
    <3>5. ASSUME NEW w \in Sent'
          PROVE  \/ InHeads(w)'
                 \/ /\ st'[w] = "acked"
                    /\ \E x \in Snap : InDisk(RW, w, x)' /\ SourcesHold(t, w, x)'
      <4>1. st[w] = "acked" /\ st'[w] = "acked" /\ \A a : Due(w, a)
        BY <3>2, <1>1 DEF Settled, Sent, Op, Due, opVars
      <4>2. CASE InHeads(w)
        <5>1. ASSUME NEW a \in src'[t], s \in disks'[a] PROVE w \in data'[a][s]
          BY <5>1, <4>1, <4>2, <3>3, <2>2 DEF InHeads, Kept, Took
        <5> QED BY <5>1, <4>1, <4>2, <1>3 DEF SourcesHold
      <4>3. CASE ~InHeads(w)
        <5>1. PICK x \in Snap : InDisk(RW, w, x) /\ SourcesHold(t, w, x)
          BY <4>3, <3>1, <1>1 DEF PickedOK
        <5>2. x # s
          BY <5>1, <4>1, <2>3 DEF InDisk
        <5>3. \A a \in src[t] : x \in disks'[a] =>
                 x \in disks[a] /\ data'[a][x] = data[a][x]
          BY <5>2, <3>3 DEF Kept, Took
        <5>4. SourcesHold(t, w, x)'
          BY <5>1, <5>3, <2>2 DEF SourcesHold
        <5>5. InDisk(RW, w, x)'
          BY <5>1, <1>4, <1>5
        <5> QED BY <5>4, <5>5, <4>1
      <4> QED BY <4>2, <4>3
    <3> QED BY <3>4, <3>5 DEF PickedOK
  <2>5. ASSUME pc'[t] = "syncing" PROVE SyncingOK(t)'
    <3>1. SyncingOK(t)
      BY <2>2, <2>5 DEF IInv, TaskOK
    <3>2. s \notin todo[t]
      BY <3>1, <2>3 DEF SyncingOK
    <3>3. \A p \in RW' : todo'[t] \subseteq disks'[p]
      BY <3>1, <2>2, <1>1 DEF SyncingOK, Took
    <3>4. r \in Replica /\ Took(r, s)
      BY <1>1, <2>1
    <3>5. ASSUME NEW w \in Sent'
          PROVE  \/ InHeads(w)'
                 \/ \E x \in Snap :
                       InDisk(RW, w, x)' /\ (Due(w, r)' => Copied(t, w, x)')
      <4>1. CASE InHeads(w)
        <5>1. Due(w, r)' => s \in disks'[r] /\ w \in data'[r][s]
          BY <4>1, <3>4, <1>1, <2>1 DEF InHeads, Took
        <5>2. Due(w, r)' => Copied(t, w, s)'
          BY <5>1, <3>2, <2>1, <2>2 DEF Copied
        <5> QED BY <4>1, <5>2, <1>3
      <4>2. CASE ~InHeads(w)
        <5>1. PICK x \in Snap : InDisk(RW, w, x) /\ (Due(w, r) => Copied(t, w, x))
          BY <4>2, <3>1, <2>1, <1>1 DEF SyncingOK
        <5>2. InDisk(RW, w, x)'
          BY <5>1, <1>4, <1>5
        <5>3. ASSUME Due(w, r), x \in todo[t], SourcesHold(t, w, x)
              PROVE  Copied(t, w, x)'
          <6>1. x # s
            BY <5>3, <3>2
          <6>2. \A a \in src[t] : a \in Replica
            BY DEF IInv, TypeOK
          <6>3. \A a \in src[t] : x \in disks'[a] =>
                   x \in disks[a] /\ data'[a][x] = data[a][x]
            BY <6>1, <6>2 DEF Kept, Took
          <6>4. SourcesHold(t, w, x)'
            BY <5>3, <6>3, <2>2 DEF SourcesHold
          <6> QED BY <5>3, <6>4, <2>2 DEF Copied
        <5>4. ASSUME Due(w, r), x \in disks[r] \ todo[t], w \in data[r][x]
              PROVE  Copied(t, w, x)'
          <6>1. x # s /\ x \in disks'[r] /\ w \in data'[r][x]
            BY <5>4, <3>4 DEF Took
          <6> QED BY <5>4, <6>1, <2>1, <2>2 DEF Copied
        <5> QED BY <5>1, <5>2, <5>3, <5>4, <2>1, <1>1 DEF Copied
      <4> QED BY <4>1, <4>2
    <3> QED BY <3>3, <3>5, <2>1 DEF SyncingOK
  <2>6. ASSUME pc'[t] = "reloaded" PROVE ReloadedOK(t)'
    <3>1. ReloadedOK(t)
      BY <2>2, <2>6 DEF IInv, TaskOK
    <3>2. live'[r] = disks'[r]
      <4>1. live[r] = disks[r]
        BY <3>1, <2>1 DEF ReloadedOK
      <4>2. disks'[r] = disks[r] \cup {s} /\ live'[r] = live[r] \cup {s}
        BY <2>1 DEF Took
      <4> QED BY <4>1, <4>2
    <3>3. ASSUME NEW w \in Sent' PROVE Held(RW \cup {r}, w)'
      <4>1. Held(RW \cup {r}, w)
        BY <2>1, <3>1, <1>1 DEF ReloadedOK
      <4> QED BY <4>1, <1>3, <1>4 DEF Held
    <3> QED BY <3>2, <3>3, <2>1 DEF ReloadedOK
  <2> QED BY <2>4, <2>5, <2>6
<1> QED BY <1>2, <1>6, <1>7 DEF Located, TaskOK

\* Controller.Snapshot.
LEMMA SnapshotInv ==
    ASSUME IInv, Undisturbed, NEW s \in Snap, Snapshot(s)
    PROVE  IInv'
<1>1. TypeOK'
  BY ReplicaType DEF IInv, ReplicaNext
<1>2. UNCHANGED <<opVars, taskVars>>
  BY DEF Snapshot
<1>3. Settled \/ \A t \in Task : pc[t] \notin {"picked", "flagged"}
  BY DEF Snapshot, Undisturbed
<1>4. Demotes
  BY SnapshotCases
<1>5. OneWO' /\ ErrsAre' /\ TargetOK'
  BY <1>2, <1>4 DEF IInv, OneWO, WithMode, ErrsAre, TargetOK, Demotes, opVars, taskVars
<1>6. ChainsInSync' /\ RWLive' /\ Located' /\ TaskOK'
  BY <1>2, <1>3, <1>4, SnapshotCases, SnapshotKept, SnapshotTook
<1> QED BY <1>1, <1>5, <1>6 DEF IInv

-----------------------------------------------------------------------------
(* The theorems.                                                           *)

\* The invariant holds in the initial states, where nothing was written.
LEMMA InitInv == Init => IInv
<1> SUFFICES ASSUME Init PROVE IInv
  OBVIOUS
<1>1. TypeOK
  BY InitType
<1>2. OneWO /\ ChainsInSync /\ RWLive
  BY DEF Init, OneWO, ChainsInSync, RWLive, RW, WithMode
<1>3. ErrsAre /\ TargetOK /\ TaskOK
  BY DEF Init, ErrsAre, TargetOK, TaskOK, Rebuilds
<1>4. Located
  BY DEF Init, Located, Sent, Op
<1> QED BY <1>1, <1>2, <1>3, <1>4 DEF IInv

\* Every step preserves it, one case per action.
LEMMA NextInv ==
    ASSUME Undisturbed, IInv, [Next]_vars
    PROVE  IInv'
<1>1. CASE UNCHANGED vars
  <2>1. TypeOK'
    BY <1>1 DEF IInv, TypeOK, vars, diskVars, opVars, taskVars
  <2>2. Demotes /\ UNCHANGED diskVars /\ UNCHANGED opVars
    BY <1>1 DEF Demotes, vars, diskVars, opVars
  <2>3. UNCHANGED taskVars
    BY <1>1 DEF vars
  <2> QED BY <2>1, <2>2, <2>3, IdleTasks, DemoteInv
<1>2. CASE ClientNext
  BY <1>2, WriteInv, UnmapInv, HandleErrorInv, ReadInv DEF ClientNext
<1>3. CASE ReplicaNext
  BY <1>3, SnapshotInv, ModeInv DEF ReplicaNext
<1>4. ASSUME NEW t \in Task, TaskStep(t) PROVE IInv'
  BY <1>4, AddReplicaInv, IdleStays, QuietTaskInv, GetTransferClientsInv, PrepareInv,
     SyncFileInv, ReloadInv, VerifyInv DEF TaskStep
<1> QED BY <1>1, <1>2, <1>3, <1>4 DEF Next

\* IInv is inductive: one rebuild at a time and none of the faults.
THEOREM Inductive ==
    ASSUME Undisturbed
    PROVE  Spec => []IInv
<1>1. IInv /\ [Next]_vars => IInv'
  BY NextInv
<1> QED BY <1>1, InitInv, PTL DEF Spec

\* WriteAt, handleErrorNoLock and the rebuild protocol: an acknowledged write
\* can be read from every RW replica.
THEOREM AckedWritesSurvive ==
    ASSUME Undisturbed
    PROVE  Spec => []RWHasAcked
<1>1. ASSUME IInv PROVE RWHasAcked
  <2> SUFFICES ASSUME NEW w \in Write, st[w] = "acked", NEW r \in RW
               PROVE  w \in Content(r)
    BY DEF RWHasAcked
  <2>1. Held(RW, w) /\ Due(w, r)
    BY <1>1 DEF IInv, Located, Sent, Due
  <2>2. CASE InHeads(w)
    BY <2>1, <2>2, ModeSets DEF InHeads, Content
  <2>3. ASSUME NEW s \in Snap, InDisk(RW, w, s) PROVE w \in Content(r)
    <3>1. s \in disks[r] /\ w \in data[r][s]
      BY <2>1, <2>3 DEF InDisk
    <3>2. live[r] = disks[r]
      BY <1>1 DEF IInv, RWLive
    <3> QED BY <3>1, <3>2 DEF Content
  <2> QED BY <2>1, <2>2, <2>3 DEF Held
<1> QED BY <1>1, Inductive, PTL

\* Snapshot, AddReplica and VerifyRebuildReplica: the RW replicas have the same
\* snapshot disks.
THEOREM ChainsStayInSync ==
    ASSUME Undisturbed
    PROVE  Spec => []ChainsInSync
<1>1. IInv => ChainsInSync
  BY DEF IInv
<1> QED BY <1>1, Inductive, PTL
=============================================================================
