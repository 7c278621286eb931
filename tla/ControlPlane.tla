---------------------------- MODULE ControlPlane ----------------------------
(***************************************************************************)
(* The control plane of weft-block: the records of the store (etcd), the   *)
(* volume driver of every host, which writes the desired state, and the    *)
(* reconcile loop of every host, which turns the records of its host into  *)
(* replica and engine processes and, after the loss of a host, schedules   *)
(* replacement replicas.                                                   *)
(*                                                                         *)
(* The store has no transactions: a call reads records, and writes them    *)
(* back one at a time.  A driver call is the queue of the writes it still  *)
(* has to make (drv), a reconcile pass the snapshot it read and the queue  *)
(* of the writes that follow from it (loop), so every write may land on a  *)
(* record that changed after it was read.                                  *)
(***************************************************************************)
EXTENDS Integers, FiniteSets, Sequences, Functions

CONSTANTS
    Volume,      \* volume UUIDs
    Host,        \* host UUIDs: integers, ordered as the UUIDs are
    DC,          \* Host -> availability zone, an integer
    Caller,      \* hosts whose driver is called
    Pool,        \* the driver's placement candidates
    CloneOf,     \* volumes made by CreateFromSnapshot, each with its parent
    MaxCalls,    \* bound: driver calls
    MaxFaults,   \* bound: host crashes, lost leases, failed writes and spawns
    Fault        \* which of "crash", "lease", "store", "mark", "replica", "engine" happen

\* UUIDs are finitely many, and a clone's parent is a volume.
ASSUME ClusterAssumption ==
    /\ IsFiniteSet(Volume) /\ 0 \notin Volume
    /\ IsFiniteSet(Host) /\ Host \subseteq Int /\ DC \in [Host -> Int]
    /\ Caller \subseteq Host /\ Pool \subseteq Host
    /\ DOMAIN CloneOf \subseteq Volume /\ \A v \in DOMAIN CloneOf : CloneOf[v] \in Volume

VARIABLES
    vols,        \* store: volume -> record
    reps,        \* store: replica UUID -> record
    engs,        \* store: engine UUID -> record
    lease,       \* store: hosts with a liveness lease
    up,          \* hosts whose weft-block process runs
    drv,         \* host -> store accesses left to the driver call in progress
    loop,        \* host -> position of its reconcile loop
    running,     \* host -> replicas its spawner runs
    engines,     \* host -> engine its spawner runs -> is its frontend up
    dir,         \* replica -> what its directory holds, where there is one
    open,        \* replica process that is open -> the engine whose backend it is, if any
    lost,        \* processes that ended in a crash of their host (history)
    data,        \* replicas not destroyed that an engine with a frontend wrote to (history)
    calls, faults

vars == <<vols, reps, engs, lease, up, drv, loop, running, engines,
          dir, open, lost, data, calls, faults>>

None == 0
NoEngine == <<None, None>>
Idle == [at |-> "idle"]

EngineID == Volume \X Host
ReplicaID == (Volume \X {"r"} \X (0 .. Cardinality(Pool) - 1))
             \cup (Volume \X {"replacement"} \X Host)

----------------------------------------------------------------------------
(* The store.  A record that is not there is not in the domain.            *)

\* Put* upsert, Delete* are idempotent.
Put(table, key, rec) ==
    [k \in DOMAIN table \cup {key} |-> IF k = key THEN rec ELSE table[k]]
Delete(table, key) == [k \in DOMAIN table \ {key} |-> table[k]]

ListReplicasFor(v) == [r \in {q \in DOMAIN reps : q[1] = v} |-> reps[r]]

\* The order in which a call goes through what it listed.
Listing(S) == CHOOSE s \in [1 .. Cardinality(S) -> S] : IsInjective(s)

\* newReplicaUUID is a function of volume and host.
newReplicaUUID(v, h) == <<v, "replacement", h>>

\* The pool is sorted by zone, then UUID.
Before(dc, g, h) == dc[g] < dc[h] \/ (dc[g] = dc[h] /\ g < h)

\* The first pass takes the first host of every zone, the second the others.
FirstOfZone(hosts, dc, h) == \A g \in hosts : dc[g] = dc[h] => g >= h
PickedBefore(hosts, dc, g, h) ==
    \/ FirstOfZone(hosts, dc, g) /\ ~ FirstOfZone(hosts, dc, h)
    \/ FirstOfZone(hosts, dc, g) = FirstOfZone(hosts, dc, h) /\ Before(dc, g, h)
Rank(hosts, dc, h) == 1 + Cardinality({g \in hosts : PickedBefore(hosts, dc, g, h)})
Picked(hosts, dc, i) == CHOOSE h \in hosts : Rank(hosts, dc, h) = i

\* <<>> is the error.
PlaceReplicas(hosts, dc, count) ==
    IF count <= 0 \/ Cardinality(hosts) < count THEN <<>>
    ELSE [i \in 1 .. count |-> Picked(hosts, dc, i)]

\* Three replicas, or as many as there are hosts.
effectiveReplicaCount(n) == IF n >= 3 THEN 3 ELSE IF n > 0 THEN n ELSE 1

----------------------------------------------------------------------------
(* The driver.  Every call runs under the mutex of its host's driver.      *)

PutVolume(v, rec, must) == [op |-> "volume", key |-> v, rec |-> rec, must |-> must]
PutReplica(r, rec, must) == [op |-> "replica", key |-> r, rec |-> rec, must |-> must]
PutEngine(e, rec) == [op |-> "engine", key |-> e, rec |-> rec, must |-> TRUE]

\* The Volume and Pending Replica records a new volume starts with.
NewVolume(v, count, src) ==
    LET picks == PlaceReplicas(Pool, DC, count)
        replica(i) == PutReplica(<<v, "r", i - 1>>,
            [host |-> picks[i], state |-> "pending", src |-> src], TRUE)
    IN  <<PutVolume(v, [state |-> "provisioning", attachedTo |-> None,
                        count |-> count, src |-> src], TRUE)>>
        \o [i \in DOMAIN picks |-> replica(i)]

Fails(kind) == kind \in Fault /\ faults < MaxFaults /\ faults' = faults + 1

\* A call that writes nothing is not a step.  The error of a listing (~ listed) is
\* ignored: the call goes on as if there were nothing.
Call(h, queue, listed) ==
    /\ h \in up /\ drv[h] = <<>> /\ queue # <<>> /\ calls < MaxCalls
    /\ calls' = calls + 1
    /\ drv' = [drv EXCEPT ![h] = queue]
    /\ IF listed THEN faults' = faults ELSE Fails("store")
    /\ UNCHANGED <<vols, reps, engs, lease, up, loop, running, engines,
                   dir, open, lost, data>>

\* A volume that exists is written back as it was read (its size may grow).
EnsureVolume(h, v) ==
    /\ v \notin DOMAIN CloneOf
    /\ Call(h, IF v \in DOMAIN vols THEN <<PutVolume(v, vols[v], TRUE)>>
               ELSE NewVolume(v, effectiveReplicaCount(Cardinality(Pool)), None), TRUE)

\* An existing destination makes the call a no-op.  A placement error leaves
\* nothing behind: it is found before the first write.
CreateFromSnapshot(h, v) ==
    /\ v \in DOMAIN CloneOf /\ CloneOf[v] \in DOMAIN vols
    /\ LET queue == NewVolume(v, vols[CloneOf[v]].count, CloneOf[v])
       IN  Call(h, IF v \in DOMAIN vols \/ Len(queue) = 1 THEN <<>> ELSE queue, TRUE)

\* The replicas as listed become Deleting; then the volume is read again.
DestroyVolume(h, v, listed) ==
    LET rs == IF listed THEN ListReplicasFor(v) ELSE <<>>
        ids == Listing(DOMAIN rs)
    IN  /\ v \in DOMAIN vols
        /\ Call(h, [i \in DOMAIN ids |->
                       PutReplica(ids[i], [rs[ids[i]] EXCEPT !.state = "deleting"], FALSE)]
                   \o <<[op |-> "destroy", key |-> v, must |-> TRUE]>>, listed)

\* An engine record of that volume and host is reused, whatever its state.  The
\* poll that follows only reads the record, for attachTimeout.
AttachVolume(h, v, target, listed) ==
    LET e == <<v, target>>
    IN  /\ v \in DOMAIN vols
        /\ Call(h, IF listed /\ e \in DOMAIN engs THEN <<>>
                   ELSE <<PutEngine(e, [state |-> "pending", path |-> FALSE]),
                          PutVolume(v, [vols[v] EXCEPT !.attachedTo = target,
                                                       !.state = "attached"], FALSE)>>,
                listed)

DetachVolume(h, v, target, listed) ==
    LET e == <<v, target>>
    IN  /\ v \in DOMAIN vols
        /\ e \in DOMAIN engs \/ vols[v].attachedTo = target
        /\ Call(h, (IF listed /\ e \in DOMAIN engs
                    THEN <<PutEngine(e, [engs[e] EXCEPT !.state = "deleting"])>> ELSE <<>>)
                   \o <<[op |-> "detach", key |-> e, must |-> FALSE]>>,
                listed)

\* GetVolume of DestroyVolume and DetachVolume: what the call writes next.
Reread(item) ==
    LET v == IF item.op = "destroy" THEN item.key ELSE item.key[1]
    IN  IF v \notin DOMAIN vols THEN <<>>
        ELSE IF item.op = "destroy"
        THEN <<PutVolume(v, [vols[v] EXCEPT !.state = "deleting"], TRUE)>>
        ELSE IF vols[v].attachedTo = item.key[2]
        THEN <<PutVolume(v, [vols[v] EXCEPT !.state = "healthy", !.attachedTo = None],
                         FALSE)>>
        ELSE <<>>

\* The next store access of the call in progress.
DriverStep(h) ==
    /\ drv[h] # <<>>
    /\ LET item == Head(drv[h]) IN
        /\ drv' = [drv EXCEPT ![h] =
               (IF item.op \in {"destroy", "detach"} THEN Reread(item) ELSE <<>>) \o Tail(@)]
        /\ vols' = IF item.op = "volume" THEN Put(vols, item.key, item.rec) ELSE vols
        /\ reps' = IF item.op = "replica" THEN Put(reps, item.key, item.rec) ELSE reps
        /\ engs' = IF item.op = "engine" THEN Put(engs, item.key, item.rec) ELSE engs
    /\ UNCHANGED <<lease, up, loop, running, engines, dir, open, lost, data, calls, faults>>

\* A failed access ends the call, unless the code goes on without it.
DriverStepFails(h) ==
    /\ drv[h] # <<>>
    /\ "store" \in Fault /\ faults < MaxFaults
    /\ faults' = faults + 1
    /\ drv' = [drv EXCEPT ![h] = IF Head(@).must THEN <<>> ELSE Tail(@)]
    /\ UNCHANGED <<vols, reps, engs, lease, up, loop, running, engines,
                   dir, open, lost, data, calls>>

----------------------------------------------------------------------------
(* The reconcile loop of a host.  A tick goes through the volumes and ends *)
(* with the re-replication sweep; a pass that finds nothing to do for a    *)
(* volume is not a step.                                                   *)

storeVars == <<vols, reps, engs, lease>>
procVars == <<running, engines, dir, open>>

At(h, place) == h \in up /\ loop[h].at = place
Goto(h, pos) == loop' = [loop EXCEPT ![h] = pos]

\* Parent replicas a clone may be copied from.
Sources(v) == {p \in DOMAIN reps : p[1] = v /\ reps[p].state = "running"}

\* A clone whose parent has no Running replica waits for another tick.
Waits(rec) == rec.state = "pending" /\ rec.src # None /\ Sources(rec.src) = {}

\* reconcileVolume lists the replicas and handles those of this host.
ReconcileVolume(h, v) ==
    LET rs == ListReplicasFor(v)
        own == {r \in DOMAIN rs : /\ rs[r].host = h
                                  /\ rs[r].state \in {"pending", "deleting"}
                                  /\ ~ Waits(rs[r])}
    IN  /\ own # {}
        /\ Goto(h, [at |-> "replicas", rs |-> rs, own |-> own])
        /\ UNCHANGED <<storeVars, procVars, up, drv, lost, data, calls, faults>>

Handled(h, r) ==
    IF loop[h].own = {r} THEN Idle ELSE [loop[h] EXCEPT !.own = @ \ {r}]
Writes(queue, pos) == [at |-> "put", queue |-> queue, then |-> pos]

\* Mutant: a parent that cannot be read is taken for an empty one.
bootstrapSwallowsError(r, p) == IF p \in DOMAIN open THEN "sealed" ELSE "empty"

\* The snapshot is read from the parent replica p, which has to be open, into the
\* head and sealed under its name, which the directory must not have yet.
bootstrapFromSnapshot(r, p) ==
    IF p \in DOMAIN open /\ (r \in DOMAIN dir => dir[r] # "sealed") THEN "sealed" ELSE "error"

\* Mutant: the outcome of the spawn is not looked at.
SpawnedAnyway(rec, ok) == [rec EXCEPT !.state = "running"]

\* The record as reconcileReplica writes it back after SpawnReplica.
Spawned(rec, ok) == [rec EXCEPT !.state = IF ok THEN "running" ELSE "faulted"]

\* SpawnReplica makes the directory and, for a clone, copies the snapshot from
\* the first parent replica listed; one that runs already is left as it is.
SpawnReplica(h, r) ==
    LET rec == loop[h].rs[r] IN
    /\ rec.state = "pending" /\ ~ Waits(rec)
    /\ \/ r \in running[h] /\ dir' = dir
       \/ r \notin running[h] /\ rec.src = None /\ dir' = Put(dir, r, "empty")
       \/ /\ r \notin running[h] /\ rec.src # None
          /\ \E p \in Sources(rec.src) :
              /\ bootstrapFromSnapshot(r, p) # "error"
              /\ dir' = Put(dir, r, bootstrapFromSnapshot(r, p))
    /\ running' = [running EXCEPT ![h] = @ \cup {r}]
    /\ Goto(h, Writes(<<PutReplica(r, Spawned(rec, TRUE), FALSE)>>, Handled(h, r)))
    /\ UNCHANGED <<storeVars, up, drv, engines, open, lost, data, calls, faults>>

SpawnReplicaFails(h, r) ==
    LET rec == loop[h].rs[r] IN
    /\ rec.state = "pending" /\ ~ Waits(rec)
    /\ r \notin running[h]
    /\ \/ /\ rec.src # None
          /\ \E p \in Sources(rec.src) : bootstrapFromSnapshot(r, p) = "error"
          /\ faults' = faults
       \/ Fails("replica")
    /\ dir' = IF r \in DOMAIN dir THEN dir ELSE Put(dir, r, "empty")
    /\ Goto(h, Writes(<<PutReplica(r, Spawned(rec, FALSE), FALSE)>>, Handled(h, r)))
    /\ UNCHANGED <<storeVars, up, drv, running, engines, open, lost, data, calls>>

DeferReplica(h, r) ==
    /\ Waits(loop[h].rs[r])
    /\ Goto(h, Handled(h, r))
    /\ UNCHANGED <<storeVars, procVars, up, drv, lost, data, calls, faults>>

\* Mutant: the servers stop and the replica stays open.
StopReplicaLeavesOpen(h, r) ==
    /\ loop[h].rs[r].state = "deleting"
    /\ running' = [running EXCEPT ![h] = @ \ {r}]
    /\ reps' = Delete(reps, r)
    /\ Goto(h, Handled(h, r))
    /\ UNCHANGED <<vols, engs, lease, up, drv, engines, dir, open, lost, data, calls, faults>>

\* StopReplica ends the process and DeleteReplica drops the record.
StopReplica(h, r) ==
    /\ loop[h].rs[r].state = "deleting"
    /\ running' = [running EXCEPT ![h] = @ \ {r}]
    /\ open' = Delete(open, r)
    /\ reps' = Delete(reps, r)
    /\ data' = data \ {r}
    /\ Goto(h, Handled(h, r))
    /\ UNCHANGED <<vols, engs, lease, up, drv, engines, dir, lost, calls, faults>>

\* The write with which a sweep marks the orphan of a dead host as Faulted.
Mark(h, item) ==
    item.op = "replica" /\ item.rec.state = "faulted" /\ item.rec.host # h

\* A write of the loop.  A failed one is logged and left.
LoopPut(h) ==
    /\ LET item == Head(loop[h].queue)
           rest == Tail(loop[h].queue)
       IN  /\ \/ /\ reps' = IF item.op = "replica" THEN Put(reps, item.key, item.rec) ELSE reps
                 /\ engs' = IF item.op = "engine" THEN Put(engs, item.key, item.rec) ELSE engs
                 /\ faults' = faults
              \/ /\ Fails(IF Mark(h, item) THEN "mark" ELSE "store")
                 /\ UNCHANGED <<reps, engs>>
           /\ Goto(h, IF rest = <<>> THEN loop[h].then ELSE [loop[h] EXCEPT !.queue = rest])
    /\ UNCHANGED <<vols, lease, procVars, up, drv, lost, data, calls>>

\* SpawnEngine returned the endpoint of its frontend.
Started(e, path) ==
    Writes(<<PutEngine(e, [state |-> "running", path |-> path])>>, Idle)

\* Mutant: the engine waits for three replicas, however many the volume has.
EngineReadyThree(rs) == Cardinality({r \in DOMAIN rs : rs[r].state = "running"}) >= 3

\* Mutant: an engine waits for the replicas that are not Faulted.
EngineReadyUnlessFaulted(rs) == \A r \in DOMAIN rs : rs[r].state \in {"running", "faulted"}

\* An engine waits until every replica of the volume is Running.
EngineReady(rs) == \A r \in DOMAIN rs : rs[r].state = "running"

\* ListEnginesFor and the switch of reconcileEngine, in a pass without replicas
\* to handle (after one that had some, EngineReady does not hold).  The error of
\* ListReplicasFor is ignored: the engine is then spawned without addresses.
SpawnEngine(h, v, listed) ==
    LET e == <<v, h>>
        rs == IF listed THEN ListReplicasFor(v) ELSE <<>>
    IN  /\ e \in DOMAIN engs /\ engs[e].state = "pending" /\ EngineReady(rs)
        /\ Goto(h, IF e \in DOMAIN engines[h] THEN Started(e, engines[h][e])
                   ELSE [at |-> "open", engine |-> e, left |-> DOMAIN rs,
                         bare |-> DOMAIN rs = {}])
        /\ IF listed THEN faults' = faults ELSE Fails("store")
        /\ UNCHANGED <<storeVars, procVars, up, drv, lost, data, calls>>

\* StopEngine shuts frontend and controller down, which closes the replicas.
StopEngine(h, v) ==
    LET e == <<v, h>> IN
    /\ e \in DOMAIN engs /\ engs[e].state = "deleting"
    /\ engines' = [engines EXCEPT ![h] = Delete(@, e)]
    /\ open' = IF e \in DOMAIN engines[h]
               THEN [r \in {q \in DOMAIN open : open[q] # e} |-> open[r]] ELSE open
    /\ engs' = Delete(engs, e)
    /\ UNCHANGED <<vols, reps, lease, up, drv, loop, running, dir, lost, data, calls, faults>>

\* Controller.Start opens the replicas one after the other, and passes over one
\* that does not answer or is open already.
OpenReplica(h, r) ==
    /\ LET answers == \E g \in up : r \in running[g] IN
        open' = IF answers /\ r \notin DOMAIN open THEN Put(open, r, loop[h].engine) ELSE open
    /\ Goto(h, [loop[h] EXCEPT !.left = @ \ {r}])
    /\ UNCHANGED <<storeVars, up, drv, running, engines, dir, lost, data, calls, faults>>

\* Replicas that were backends of e stay open, and no engine can open them again.
Left(e) == [r \in DOMAIN open |-> IF open[r] = e THEN NoEngine ELSE open[r]]

\* Without addresses Start returns at once and no frontend comes up.  It fails
\* when it could open no replica, and may fail later on (frontend): the replicas
\* it opened then stay open.
StartEngine(h) ==
    LET e == loop[h].engine
        backends == {r \in DOMAIN open : open[r] = e}
        opened == backends # {}
    IN  /\ loop[h].left = {}
        /\ \/ /\ loop[h].bare \/ opened
              /\ engines' = [engines EXCEPT ![h] = Put(@, e, opened)]
              /\ data' = data \cup backends
              /\ Goto(h, Started(e, opened))
              /\ UNCHANGED <<open, faults>>
           \/ /\ ~ loop[h].bare
              /\ IF opened THEN Fails("engine") ELSE faults' = faults
              /\ open' = Left(e)
              /\ UNCHANGED <<engines, data>>
              /\ Goto(h, Writes(<<PutEngine(e, [state |-> "faulted", path |-> FALSE])>>, Idle))
        /\ UNCHANGED <<storeVars, up, drv, running, dir, lost, calls>>

Orphans(rs, live) ==
    {r \in DOMAIN rs : rs[r].host \notin live /\ rs[r].state # "deleting"}
Alive(rs, live) ==
    {r \in DOMAIN rs : rs[r].host \in live /\ rs[r].state \in {"running", "pending"}}

\* Mutant: the owner is elected among all hosts of the volume.
OwnerOfAll(rs, live) ==
    LET of == {rs[r].host : r \in DOMAIN rs} IN CHOOSE g \in of : \A k \in of : g <= k

\* The lowest live host with a replica that counts, or the lowest live host.
Owner(rs, live) ==
    LET with == {rs[r].host : r \in Alive(rs, live)}
        of == IF with # {} THEN with ELSE live
    IN  CHOOSE g \in of : \A k \in of : g <= k

\* Hosts without any replica of the volume.  The leases carry no zone.
Replacements(rs, live, count) ==
    LET free == live \ {rs[r].host : r \in DOMAIN rs}
        deficit == count - Cardinality(Alive(rs, live))
        some == IF deficit < Cardinality(free) THEN deficit ELSE Cardinality(free)
    IN  PlaceReplicas(free, [g \in Host |-> 0], some)

\* processVolume: what the owner writes for the replicas as listed.
SweepWrites(v, rs, live) ==
    LET orphans == Listing({r \in Orphans(rs, live) : rs[r].state # "faulted"})
        picks == Replacements(rs, live, vols[v].count)
    IN  [i \in DOMAIN orphans |->
            PutReplica(orphans[i], [rs[orphans[i]] EXCEPT !.state = "faulted"], FALSE)]
        \o [i \in DOMAIN picks |->
               PutReplica(newReplicaUUID(v, picks[i]),
                          [host |-> picks[i], state |-> "pending", src |-> vols[v].src], FALSE)]

\* The owner, by its view of the leases, writes.
SweepVolume(h, v) ==
    LET rs == ListReplicasFor(v)
        queue == SweepWrites(v, rs, lease)
    IN  /\ Orphans(rs, lease) # {} /\ lease # {} /\ Owner(rs, lease) = h
        /\ queue # <<>>
        /\ Goto(h, Writes(queue, Idle))
        /\ UNCHANGED <<storeVars, procVars, up, drv, lost, data, calls, faults>>

----------------------------------------------------------------------------
(* Hosts.  The lease belongs to another process of the host (weft-agent).  *)

\* The weft-block process ends, and with it its driver, loop, replicas and
\* engines.  A replica that an engine here had opened elsewhere stays open, as the
\* backend of none.
Crash(h) ==
    /\ h \in up /\ Fails("crash")
    /\ up' = up \ {h}
    /\ drv' = [drv EXCEPT ![h] = <<>>]
    /\ loop' = [loop EXCEPT ![h] = Idle]
    /\ running' = [running EXCEPT ![h] = {}]
    /\ engines' = [engines EXCEPT ![h] = <<>>]
    /\ open' = [r \in DOMAIN open \ running[h] |->
                   IF open[r] \in Volume \X {h} THEN NoEngine ELSE open[r]]
    /\ lost' = lost \cup running[h] \cup DOMAIN engines[h]
    /\ UNCHANGED <<storeVars, dir, data, calls>>

Restart(h) ==
    /\ h \notin up
    /\ up' = up \cup {h}
    /\ UNCHANGED <<storeVars, procVars, drv, loop, lost, data, calls, faults>>

LeaseExpires(h) ==
    /\ h \in lease
    /\ IF h \in up THEN Fails("lease") ELSE faults' = faults
    /\ lease' = lease \ {h}
    /\ UNCHANGED <<vols, reps, engs, procVars, up, drv, loop, lost, data, calls>>

LeaseReturns(h) ==
    /\ h \notin lease /\ h \in up
    /\ lease' = lease \cup {h}
    /\ UNCHANGED <<vols, reps, engs, procVars, up, drv, loop, lost, data, calls, faults>>

----------------------------------------------------------------------------

Init ==
    /\ vols = <<>> /\ reps = <<>> /\ engs = <<>>
    /\ lease = Host /\ up = Host
    /\ drv = [h \in Host |-> <<>>]
    /\ loop = [h \in Host |-> Idle]
    /\ running = [h \in Host |-> {}]
    /\ engines = [h \in Host |-> <<>>]
    /\ dir = <<>> /\ open = <<>>
    /\ lost = {} /\ data = {} /\ calls = 0 /\ faults = 0

DriverCall(h) ==
    \E v \in Volume :
        \/ EnsureVolume(h, v)
        \/ CreateFromSnapshot(h, v)
        \/ \E listed \in BOOLEAN :
              \/ DestroyVolume(h, v, listed)
              \/ \E target \in Host : \/ AttachVolume(h, v, target, listed)
                                     \/ DetachVolume(h, v, target, listed)

LoopStep(h) ==
    \/ /\ At(h, "idle")
       /\ \E v \in DOMAIN vols : \/ ReconcileVolume(h, v) \/ SweepVolume(h, v)
                                 \/ StopEngine(h, v)
                                 \/ \E listed \in BOOLEAN : SpawnEngine(h, v, listed)
    \/ /\ At(h, "replicas")
       /\ \E r \in loop[h].own : \/ SpawnReplica(h, r) \/ SpawnReplicaFails(h, r)
                                 \/ DeferReplica(h, r) \/ StopReplica(h, r)
    \/ At(h, "put") /\ LoopPut(h)
    \/ /\ At(h, "open")
       /\ \/ \E r \in loop[h].left : OpenReplica(h, r)
          \/ StartEngine(h)

HostStep(h) ==
    \/ Crash(h) \/ Restart(h) \/ LeaseExpires(h) \/ LeaseReturns(h)

Next ==
    \/ \E h \in Caller : DriverCall(h) \/ DriverStep(h) \/ DriverStepFails(h)
    \/ \E h \in Host : LoopStep(h) \/ HostStep(h)

\* The loop of a process that runs ticks for ever, a driver call in progress
\* goes on, and the lease of a process that ended is not renewed for ever.
Spec ==
    /\ Init /\ [][Next]_vars
    /\ \A h \in Host : WF_vars(LoopStep(h))
    /\ \A h \in Caller : WF_vars(DriverStep(h))

----------------------------------------------------------------------------
(* Properties.                                                             *)

State == {"pending", "running", "faulted", "deleting"}

\* The records, the processes and the positions of driver and loop are well formed.
TypeOK ==
    /\ DOMAIN vols \subseteq Volume /\ DOMAIN reps \subseteq ReplicaID
    /\ DOMAIN engs \subseteq EngineID
    /\ \A v \in DOMAIN vols :
        /\ vols[v].state \in {"provisioning", "attached", "healthy", "deleting"}
        /\ vols[v].attachedTo \in Host \cup {None} /\ vols[v].src \in Volume \cup {None}
    /\ \A r \in DOMAIN reps : reps[r].host \in Host /\ reps[r].state \in State
    /\ \A e \in DOMAIN engs : engs[e].state \in State /\ engs[e].path \in BOOLEAN
    /\ lease \subseteq Host /\ up \subseteq Host
    /\ \A h \in Host :
        /\ loop[h].at \in {"idle", "replicas", "put", "open"}
        /\ running[h] \subseteq ReplicaID /\ DOMAIN engines[h] \subseteq EngineID
    /\ DOMAIN open \subseteq UNION {running[h] : h \in up}
    /\ \A r \in DOMAIN dir : dir[r] \in {"empty", "sealed"}

\* A record that says Running, which AttachVolume and the engines of all hosts
\* act on, belongs to a process of its host, unless the process ended in a crash
\* (reconcileReplica and reconcileEngine write Running after the spawn); and a
\* process always has a record through which it can be stopped.
RecordsMatchProcesses ==
    /\ \A r \in DOMAIN reps :
        reps[r].state = "running" => r \in running[reps[r].host] \cup lost
    /\ \A e \in DOMAIN engs :
        engs[e].state = "running" => e \in DOMAIN engines[e[2]] \cup lost
    /\ \A h \in Host :
        running[h] \subseteq DOMAIN reps /\ DOMAIN engines[h] \subseteq DOMAIN engs

\* A clone's replica that is announced as Running holds the parent's snapshot:
\* a spawn without a source is deferred rather than left empty.
CloneHasData ==
    \A r \in DOMAIN reps :
        reps[r].state = "running" /\ reps[r].src # None => dir[r] = "sealed"

\* After at most one crash, lost lease, failed store access or failed spawn, an
\* engine that comes up while no other engine of its volume runs, on a volume that
\* was in use, serves a replica that was written to, never only the empty
\* replacements of lost replicas: this is what waiting for all replicas, Faulted
\* ones included, is for.  The wait does not cover two: a second fault may keep the
\* Faulted mark of the orphan out of the store (processVolume logs the failed write
\* and schedules the replacement), or overwrite it with a Running record read before.
ServesData ==
    [][\A v \in DOMAIN vols, h \in Host :
        LET e == <<v, h>>
            written == {r \in data : r[1] = v}
        IN  /\ faults' <= 1 /\ written # {}
            /\ \A g \in Host : <<v, g>> \notin DOMAIN engines[g]
            /\ e \in DOMAIN engines'[h] /\ engines'[h][e]
            => \E r \in written : r \in DOMAIN open /\ open[r] = e]_vars

\* A volume short of replicas, with an orphan and a live host to put one on.
Short(v) ==
    /\ v \in DOMAIN vols
    /\ LET rs == ListReplicasFor(v) IN
        /\ Orphans(rs, lease) # {}
        /\ Cardinality(Alive(rs, lease)) < vols[v].count
        /\ lease \ {rs[r].host : r \in DOMAIN rs} # {}

\* RereplicateOrphans: once the hosts with a lease are hosts whose loop runs, a
\* volume does not stay short: the elected owner schedules the replacement.
Heals == <>[](lease \subseteq up) => []<>(\A v \in Volume : ~ Short(v))

\* An engine record for which everything AttachVolume waits for is there.
Attachable(e) ==
    /\ e \in DOMAIN engs /\ engs[e].state = "pending"
    /\ e[1] \in DOMAIN vols
    /\ \A r \in DOMAIN reps : r[1] = e[1] => reps[r].state = "running"
    /\ e[2] \in up

\* AttachVolume's poll does not wait in vain: an engine whose replicas are
\* Running is brought up, or marked Faulted, by the loop of its host.
AttachServed == []<>(\A e \in EngineID : ~ Attachable(e))

----------------------------------------------------------------------------
(* The inductive invariant behind TypeOK, RecordsMatchProcesses and        *)
(* CloneHasData.                                                           *)

\* The UUID of a replica settles its host, and its volume what it is cloned from.
HostOf(r) == IF r[2] = "r" THEN Picked(Pool, DC, r[3] + 1) ELSE r[3]
SrcOf(v) == IF v \in DOMAIN CloneOf THEN CloneOf[v] ELSE None

VolumeRec == [state : {"provisioning", "attached", "healthy", "deleting"},
              attachedTo : Host \cup {None}, count : Int, src : Volume \cup {None}]
ReplicaRec == [host : Host, state : State, src : Volume \cup {None}]
EngineRec == [state : State, path : BOOLEAN]

VolumeIs(v, rec) == v \in Volume /\ rec \in VolumeRec /\ rec.src = SrcOf(v)
ReplicaIs(r, rec) ==
    r \in ReplicaID /\ rec \in ReplicaRec /\ rec.host = HostOf(r) /\ rec.src = SrcOf(r[1])
EngineIs(e, rec) == e \in EngineID /\ rec \in EngineRec

Access ==
    [op : {"volume"}, key : Volume, rec : VolumeRec, must : BOOLEAN]
    \cup [op : {"replica"}, key : ReplicaID, rec : ReplicaRec, must : BOOLEAN]
    \cup [op : {"engine"}, key : EngineID, rec : EngineRec, must : BOOLEAN]
    \cup [op : {"destroy"}, key : Volume, must : BOOLEAN]
    \cup [op : {"detach"}, key : EngineID, must : BOOLEAN]

\* A write in progress agrees with the UUID it is for.  It says Running only
\* where the process is one of replicas and fronts.
Write(replicas, fronts) ==
    {a \in Access :
        /\ a.op = "volume" => VolumeIs(a.key, a.rec)
        /\ a.op = "replica" => /\ ReplicaIs(a.key, a.rec)
                               /\ a.rec.state = "running" => a.key \in replicas
        /\ a.op = "engine" /\ a.rec.state = "running" => a.key \in fronts}

\* A pass over replicas deletes and starts only those of its host, which have a
\* record (in replicaKeys) until the pass itself deletes it.
PassIs(h, pos, replicaKeys) ==
    /\ pos = [at |-> "replicas", rs |-> pos.rs, own |-> pos.own]
    /\ \A r \in DOMAIN pos.rs : ReplicaIs(r, pos.rs[r])
    /\ \A r \in pos.own : r \in DOMAIN pos.rs /\ HostOf(r) = h /\ r \in replicaKeys

\* The engine that is coming up on a host keeps its record.
OpenIs(h, pos, engineKeys) ==
    /\ pos = [at |-> "open", engine |-> pos.engine, left |-> pos.left, bare |-> pos.bare]
    /\ pos.engine \in Volume \X {h} /\ pos.engine \in engineKeys

QueueIs(h, pos, replicaKeys, replicas, fronts) ==
    /\ pos = [at |-> "put", queue |-> pos.queue, then |-> pos.then]
    /\ pos.queue \in Seq(Write(replicas, fronts)) /\ pos.queue # <<>>
    /\ pos.then.at \in {"idle", "replicas"}
    /\ pos.then.at = "idle" => pos.then = Idle
    /\ pos.then.at = "replicas" => PassIs(h, pos.then, replicaKeys)

PositionIs(h, pos, replicaKeys, engineKeys, replicas, fronts) ==
    /\ pos.at \in {"idle", "replicas", "put", "open"}
    /\ pos.at = "idle" => pos = Idle
    /\ pos.at = "replicas" => PassIs(h, pos, replicaKeys)
    /\ pos.at = "put" => QueueIs(h, pos, replicaKeys, replicas, fronts)
    /\ pos.at = "open" => OpenIs(h, pos, engineKeys)

Tables ==
    /\ \A v \in DOMAIN vols : VolumeIs(v, vols[v])
    /\ \A r \in DOMAIN reps : ReplicaIs(r, reps[r])
    /\ \A e \in DOMAIN engs : EngineIs(e, engs[e])
    /\ lease \subseteq Host /\ up \subseteq Host

\* Processes run on the host their UUID names.
Processes ==
    /\ running \in [Host -> SUBSET ReplicaID]
    /\ \A h \in Host : \A r \in running[h] : HostOf(r) = h
    /\ DOMAIN engines = Host
    /\ \A h \in Host : /\ DOMAIN engines[h] \subseteq Volume \X {h}
                        /\ \A e \in DOMAIN engines[h] : engines[h][e] \in BOOLEAN
    /\ \A r \in DOMAIN open : \E h \in up : r \in running[h]
    /\ \A r \in DOMAIN dir : dir[r] \in {"empty", "sealed"}

\* A replica of a clone runs only on a sealed copy, and a sealed copy stays one.
ClonesSealed ==
    \A r \in ReplicaID :
        /\ SrcOf(r[1]) # None
        /\ (\E h \in Host : r \in running[h]) \/ (r \in DOMAIN reps /\ reps[r].state = "running")
        => r \in DOMAIN dir /\ dir[r] = "sealed"

Positions ==
    /\ DOMAIN loop = Host
    /\ \A h \in Host :
        PositionIs(h, loop[h], DOMAIN reps, DOMAIN engs, running[h], DOMAIN engines[h])

IInv ==
    /\ Tables /\ Processes
    /\ drv \in [Host -> Seq(Write({}, {}))]
    /\ Positions
    /\ RecordsMatchProcesses
    /\ ClonesSealed

=============================================================================
