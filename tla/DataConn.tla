------------------------------ MODULE DataConn ------------------------------
(***************************************************************************)
(* The data connection between a controller and one of its replicas:       *)
(* dataconn.Client with its loop, writer and reader goroutines, the TCP    *)
(* connections ("wires"), dataconn.Server with one handler goroutine per   *)
(* request, and the ping monitor of backend/remote.                        *)
(*                                                                         *)
(* The replica's data is one block.  A channel followed by a channel, or   *)
(* by a TCP stream, is one queue: s2c[w] stands for Server.responses, the  *)
(* stream and the client's responses channel, whose arrival order is then  *)
(* the order in which the loop picks the wires.  What the loop receives    *)
(* after clientError was set finds no pending request, so s2c is empty     *)
(* from then on.  The handlers of a wire run in any order, so its requests *)
(* under way are a set.                                                    *)
(***************************************************************************)
EXTENDS Integers, Sequences, FiniteSets

CONSTANTS
    IO,          \* the operations the controller calls
    Op,          \* IO -> "read", "write" or "unmap"
    Val,         \* IO -> what a write writes
    Wire,        \* the connections (NumberOfConnections)
    SendCap,     \* capacity of the channel send
    MaxPings,    \* bound: pings sent before the client fails
    MaxFaults    \* bound: broken connections and failed requests of the replica

Ping == "ping"

ASSUME OpAssumption == Op \in [IO -> {"read", "write", "unmap"}]
ASSUME ValAssumption == Val \in [IO -> Nat]
ASSUME PingAssumption == Ping \notin IO
ASSUME SendCapAssumption == SendCap \in Nat

VARIABLES
    called,      \* operations called so far
    answer,      \* operation -> what operation() returned
    requests,    \* the channel requests
    messages,    \* sequence number -> pending request
    seq,         \* last sequence number
    send,        \* the channel send
    stuck,       \* the message the loop waits to put on send, if any
    failed,      \* is clientError set
    inflight,    \* ioInflight
    activity,    \* timeOfLastActivity: "zero", "recent" or "long ago"
    ended,       \* the loop has returned
    alive,       \* wires that are connected
    s2c,         \* wire -> responses under way to the loop
    handling,    \* requests under way to the replica or at work there
    applied,     \* operation -> content of the block once it took effect
    disk,        \* content of the block
    mon,         \* monitorPing: "tick", "ping", "erring", "failed" or "stopped"
    stop,        \* StopMonitoring was called
    closed,      \* Close was called
    pings, faults

serverVars == <<handling, applied, disk>>
clientVars == <<requests, messages, seq, send, stuck, failed, inflight, activity, ended>>
monVars == <<mon, stop, closed, pings>>
vars == <<called, answer, clientVars, alive, s2c, serverVars,
          monVars, faults>>

None == -2
Error == -1
TransportErr == [seq |-> 0, val |-> Error]
NoMsg == [seq |-> 0, req |-> "none"]
Torn == -3

\* The content of the block after operation r found x.
Effect(r, x) ==
    IF Op[r] = "write" THEN Val[r] ELSE IF Op[r] = "unmap" THEN 0 ELSE x

IsWrite(r) == r # Ping /\ Op[r] = "write"

\* The requests that count for ioInflight and the timeout.
IsIO(r) == r # Ping

----------------------------------------------------------------------------
(* operation(): the caller of an I/O waits for its Complete channel.  The  *)
(* controller calls none once it closes the backend.                       *)

Call(r) ==
    /\ r \notin called /\ ~ closed
    /\ called' = called \cup {r}
    /\ requests' = Append(requests, r)
    /\ UNCHANGED <<answer, messages, seq, send, stuck, failed, inflight, activity, ended,
                   alive, s2c, serverVars, monVars, faults>>

\* Mutant: the monitor goes on after a ping that failed.
AfterPingAgain(val) == "tick"

\* monitorPing calls SetError when its ping failed.
AfterPing(val) == IF val = Error THEN "erring" ELSE "tick"

\* What the callers of the requests rs are told.
Reply(rs, val) ==
    /\ answer' = [r \in IO |-> IF r \in rs THEN val ELSE answer[r]]
    /\ mon' = IF Ping \in rs THEN AfterPing(val) ELSE mon

\* A message for the channel responses.
Deliver(w, m) == s2c' = IF failed THEN s2c ELSE [s2c EXCEPT ![w] = Append(@, m)]

----------------------------------------------------------------------------
(* Client.loop: one case of its select at a time.                          *)

Ready == ~ ended /\ stuck = NoMsg

\* Mutant: the failed requests stay counted.
handleClientErrorNoReset ==
    /\ failed' = TRUE
    /\ messages' = <<>>
    /\ inflight' = inflight /\ activity' = "zero"
    /\ s2c' = [w \in Wire |-> <<>>]
    /\ Reply({messages[s] : s \in DOMAIN messages}, Error)

\* handleClientError: every pending request fails, and all later ones will.
handleClientError ==
    /\ failed' = TRUE
    /\ messages' = <<>>
    /\ inflight' = 0 /\ activity' = "zero"
    /\ s2c' = [w \in Wire |-> <<>>]
    /\ Reply({messages[s] : s \in DOMAIN messages}, Error)

\* Mutant: one message too many.
SendOverFull == Len(send) > SendCap

\* The loop blocks on a full channel.
SendFull == Len(send) >= SendCap

LoopRequest ==
    LET r == Head(requests)
        msg == [seq |-> seq + 1, req |-> r]
    IN  /\ Ready /\ requests # <<>>
        /\ requests' = Tail(requests)
        /\ IF failed
           THEN /\ Reply({r}, Error)
                /\ UNCHANGED <<messages, seq, send, stuck, inflight, activity>>
           ELSE /\ inflight' = inflight + (IF IsIO(r) THEN 1 ELSE 0)
                /\ activity' = IF IsIO(r) /\ inflight = 0 THEN "recent" ELSE activity
                /\ seq' = seq + 1
                /\ messages' = [s \in DOMAIN messages \cup {seq'} |->
                                   IF s = seq' THEN r ELSE messages[s]]
                /\ IF SendFull THEN send' = send /\ stuck' = msg
                   ELSE send' = Append(send, msg) /\ stuck' = stuck
                /\ UNCHANGED <<answer, mon>>
        /\ UNCHANGED <<called, failed, ended, alive, s2c, serverVars,
                       stop, closed, pings, faults>>

\* The loop goes on after it found the channel send full.
LoopSend ==
    /\ ~ ended /\ stuck # NoMsg /\ ~ SendFull
    /\ send' = Append(send, stuck)
    /\ stuck' = NoMsg
    /\ UNCHANGED <<called, answer, requests, messages, seq, failed, inflight, activity, ended,
                   alive, s2c, serverVars, monVars, faults>>

\* A message of a reader goroutine, or the error with which it or a writer ended.
LoopResponse(w) ==
    LET resp == Head(s2c[w])
        r == messages[resp.seq]
    IN  /\ Ready /\ s2c[w] # <<>>
        /\ IF resp = TransportErr THEN handleClientError
           ELSE /\ s2c' = [s2c EXCEPT ![w] = Tail(@)]
                /\ inflight' = inflight - (IF IsIO(r) THEN 1 ELSE 0)
                /\ activity' = IF IsIO(r) THEN "recent" ELSE activity
                /\ messages' = [s \in DOMAIN messages \ {resp.seq} |-> messages[s]]
                /\ Reply({r}, resp.val)
                /\ failed' = failed
        /\ UNCHANGED <<called, requests, seq, send, stuck, ended, alive, serverVars,
                       stop, closed, pings, faults>>

\* Mutant: the last operation in flight does not time out.
ExceededTimeoutLast == activity = "long ago" /\ inflight > 1

\* The r/w timeout, the long one or, while CheckAndDecrement finds other replicas'
\* connections left, the short one.  It is counted from the last answer on this
\* connection, or from the first request after a pause.
ExceededTimeout == activity = "long ago" /\ inflight > 0

LoopTick ==
    /\ Ready /\ ExceededTimeout
    /\ handleClientError
    /\ UNCHANGED <<called, requests, seq, send, stuck, ended, alive, serverVars,
                   stop, closed, pings, faults>>

\* The last activity gets older than the timeout.
TimePasses ==
    /\ activity = "recent" /\ activity' = "long ago"
    /\ UNCHANGED <<called, answer, requests, messages, seq, send, stuck, failed, inflight,
                   ended, alive, s2c, serverVars, monVars, faults>>

\* Close put a value on the channel end: the loop returns, wherever its requests are.
LoopEnd ==
    /\ Ready /\ closed
    /\ ended' = TRUE
    /\ UNCHANGED <<called, answer, requests, messages, seq, send, stuck, failed, inflight, activity,
                   alive, s2c, serverVars, monVars, faults>>

\* Wire.Write puts the message on the connection and readFromWire starts its
\* handler.  replyError makes an error message of a request the writer may hold or
\* be writing: readFromWire ignores it, or gets it as it was, or gets a write whose
\* data is the error text.
readFromWire(w, msg, torn) ==
    handling' = handling \cup {[wire |-> w, msg |-> msg, torn |-> torn]}

Write(w, msg) ==
    \/ readFromWire(w, msg, FALSE)
    \/ msg.seq \notin DOMAIN messages /\ handling' = handling
    \/ msg.seq \notin DOMAIN messages /\ IsWrite(msg.req) /\ readFromWire(w, msg, TRUE)

\* Mutant: the writer leaves the message on the channel.
WriterTakesAgain(w) ==
    /\ send # <<>>
    /\ send' = send
    /\ IF w \in alive THEN Write(w, Head(send)) /\ s2c' = s2c
       ELSE handling' = handling /\ Deliver(w, TransportErr)
    /\ UNCHANGED <<called, answer, requests, messages, seq, stuck, failed, inflight,
                   activity, ended, alive, applied, disk, monVars, faults>>

\* The writer goroutine of w: a message it cannot write is gone.
WriterTakes(w) ==
    /\ send # <<>>
    /\ send' = Tail(send)
    /\ IF w \in alive THEN Write(w, Head(send)) /\ s2c' = s2c
       ELSE handling' = handling /\ Deliver(w, TransportErr)
    /\ UNCHANGED <<called, answer, requests, messages, seq, stuck, failed, inflight,
                   activity, ended, alive, applied, disk, monVars, faults>>

----------------------------------------------------------------------------
(* Server: a handler goroutine for every request read from the wire.       *)

\* pushResponse: the response is lost when the connection is.
pushResponse(w, s, val) ==
    IF w \in alive THEN Deliver(w, [seq |-> s, val |-> val]) ELSE s2c' = s2c

\* Mutant: a write is acknowledged without being done.
HandleSkipsWrite(h) ==
    LET r == h.msg.req IN
    /\ h \in handling
    /\ handling' = handling \ {h}
    /\ IF r = Ping \/ IsWrite(r)
       THEN UNCHANGED <<disk, applied>> /\ pushResponse(h.wire, h.msg.seq, 0)
       ELSE /\ disk' = Effect(r, disk)
            /\ applied' = [applied EXCEPT ![r] = disk']
            /\ pushResponse(h.wire, h.msg.seq, disk')
    /\ UNCHANGED <<called, answer, clientVars, alive, monVars, faults>>

Handle(h) ==
    LET r == h.msg.req IN
    /\ h \in handling
    /\ handling' = handling \ {h}
    /\ IF r = Ping THEN UNCHANGED <<disk, applied>> /\ pushResponse(h.wire, h.msg.seq, 0)
       ELSE /\ disk' = IF h.torn THEN Torn ELSE Effect(r, disk)
            /\ applied' = [applied EXCEPT ![r] = disk']
            /\ pushResponse(h.wire, h.msg.seq, disk')
    /\ UNCHANGED <<called, answer, clientVars, alive, monVars, faults>>

\* The replica reports an error; the operation has or has not taken effect.
HandleFails(h) ==
    LET r == h.msg.req IN
    /\ h \in handling /\ faults < MaxFaults
    /\ faults' = faults + 1
    /\ handling' = handling \ {h}
    /\ \/ UNCHANGED <<disk, applied>>
       \/ /\ r # Ping /\ disk' = IF h.torn THEN Torn ELSE Effect(r, disk)
          /\ applied' = [applied EXCEPT ![r] = disk']
    /\ pushResponse(h.wire, h.msg.seq, Error)
    /\ UNCHANGED <<called, answer, clientVars, alive, monVars>>

\* A connection breaks: answers under way may be lost, and the client's reader
\* goroutine reports the error after the last answer it got.  A request that is
\* lost is one that is never handled.
Break(w) ==
    /\ w \in alive /\ faults < MaxFaults
    /\ faults' = faults + 1
    /\ alive' = alive \ {w}
    /\ \E k \in 0 .. Len(s2c[w]) :
          s2c' = IF failed THEN s2c ELSE [s2c EXCEPT ![w] = Append(SubSeq(@, 1, k), TransportErr)]
    /\ UNCHANGED <<called, answer, clientVars, serverVars, monVars>>

----------------------------------------------------------------------------
(* backend/remote: the ping monitor and the end of the connection.         *)

PingStart ==
    /\ mon = "tick" /\ (pings < MaxPings \/ failed)
    /\ mon' = "ping" /\ pings' = IF failed THEN pings ELSE pings + 1
    /\ requests' = Append(requests, Ping)
    /\ UNCHANGED <<called, answer, messages, seq, send, stuck, failed, inflight, activity, ended,
                   alive, s2c, serverVars, stop, closed, faults>>

\* client.SetError, then the error goes to the controller's monitor channel.
MonitorFails ==
    /\ mon = "erring"
    /\ mon' = "failed"
    /\ \E w \in Wire : Deliver(w, TransportErr)
    /\ UNCHANGED <<called, answer, clientVars, alive, serverVars,
                   stop, closed, pings, faults>>

\* The controller holds its lock in StopMonitoring and Close (SetMode,
\* RemoveBackend, replicator.Close): no I/O of its own is in progress.
Locked == \A r \in called : answer[r] # None

StopMonitoring ==
    /\ ~ stop /\ Locked
    /\ stop' = TRUE
    /\ UNCHANGED <<called, answer, clientVars, alive, s2c, serverVars,
                   mon, closed, pings, faults>>

MonitorStops ==
    /\ mon = "tick" /\ stop
    /\ mon' = "stopped"
    /\ UNCHANGED <<called, answer, clientVars, alive, s2c, serverVars,
                   stop, closed, pings, faults>>

\* Remote.Close, after StopMonitoring.
Close ==
    /\ stop /\ ~ closed /\ Locked
    /\ closed' = TRUE
    /\ alive' = {}
    /\ s2c' = [w \in Wire |-> IF w \in alive /\ ~ failed THEN Append(s2c[w], TransportErr) ELSE s2c[w]]
    /\ UNCHANGED <<called, answer, clientVars, serverVars, mon, stop,
                   pings, faults>>

----------------------------------------------------------------------------

\* Factory.Create dials NumberOfConnections times, and the data server handles each.
Connected == Wire

Init ==
    /\ called = {} /\ answer = [r \in IO |-> None]
    /\ requests = <<>> /\ messages = <<>> /\ seq = 0 /\ send = <<>> /\ stuck = NoMsg
    /\ failed = FALSE /\ inflight = 0 /\ activity = "zero" /\ ended = FALSE
    /\ alive = Connected
    /\ s2c = [w \in Wire |-> <<>>]
    /\ handling = {} /\ applied = [r \in IO |-> None] /\ disk = 0
    /\ mon = "tick" /\ stop = FALSE /\ closed = FALSE /\ pings = 0 /\ faults = 0

ClientStep ==
    LoopRequest \/ LoopSend \/ LoopTick \/ LoopEnd \/ \E w \in Wire : LoopResponse(w)

Next ==
    \/ \E r \in IO : Call(r)
    \/ ClientStep \/ TimePasses
    \/ \E w \in Wire : WriterTakes(w) \/ Break(w)
    \/ \E h \in handling : Handle(h) \/ HandleFails(h)
    \/ PingStart \/ MonitorFails \/ StopMonitoring \/ MonitorStops \/ Close

\* The goroutines of the client run, a ready case of its select is taken in the
\* end, and time passes.  Nothing is assumed of the replica or the network: a write
\* on a connection has no deadline, so a writer need go on only on a broken one.
Fairness ==
    /\ WF_vars(LoopRequest) /\ WF_vars(LoopSend) /\ WF_vars(LoopTick) /\ WF_vars(LoopEnd)
    /\ WF_vars(TimePasses)
    /\ WF_vars(PingStart) /\ WF_vars(MonitorFails)
    /\ WF_vars(MonitorStops)
    /\ \A w \in Wire :
          WF_vars(LoopResponse(w)) /\ WF_vars(w \notin alive /\ WriterTakes(w))

Spec == Init /\ [][Next]_vars /\ Fairness

----------------------------------------------------------------------------
(* Properties.                                                             *)

\* The channels, the pending requests and the counters are well formed.
TypeOK ==
    /\ called \subseteq IO /\ alive \subseteq Wire
    /\ \A s \in DOMAIN messages : s \in 1 .. seq /\ messages[s] \in IO \cup {Ping}
    /\ Len(send) <= SendCap
    /\ mon \in {"tick", "ping", "erring", "failed", "stopped"}
    /\ \A h \in handling : h.wire \in Wire /\ h.msg.req \in IO \cup {Ping}

\* ioInflight, on which the r/w timeout depends, is the number of pending reads,
\* writes and unmaps: with more the timeout would hit an idle connection, with
\* less it would never fire.
InflightExact ==
    inflight = Cardinality({s \in DOMAIN messages : messages[s] # Ping})

B == INSTANCE BlockService WITH Req <- IO, Effect <- Effect

\* A connection, with its requests reordered between the wires, its lost answers
\* and its late ones, gives the controller what a backend promises.
RefinesBlockService == B!Spec

\* Every read, write and unmap returns in the end, whatever the replica and the
\* network do: an answer, a broken connection or the r/w timeout ends it.  The
\* exception is a loop that stays blocked in handleRequest, on a channel send that
\* no writer empties: then none of the three is looked at.
IOAnswered == []<>(stuck = NoMsg) => []<>(\A r \in called : answer[r] # None)

\* A connection that failed is reported to the controller, which then marks the
\* replica ERR, unless the backend is being closed.
FailureReported ==
    (failed /\ ~ closed) ~> (mon \in {"failed", "stopped"} \/ closed)

----------------------------------------------------------------------------
(* The inductive invariant behind InflightExact and RefinesBlockService.   *)

\* Requests, messages to the replica and answers.
Request == IO \cup {Ping}
Message == [seq : Nat \ {0}, req : Request]
Response == [seq : Nat, val : Int]

\* What the loop has sent, the message it may be blocked on last.
Outgoing == IF stuck = NoMsg THEN send ELSE Append(send, stuck)

\* The types that the proofs need beyond TypeOK.
Shape ==
    /\ called \subseteq IO /\ answer \in [IO -> Int]
    /\ requests \in Seq(Request) /\ seq \in Nat
    /\ messages \in [DOMAIN messages -> Request] /\ DOMAIN messages \subseteq 1 .. seq
    /\ send \in Seq(Message) /\ stuck \in Message \cup {NoMsg}
    /\ failed \in BOOLEAN
    /\ alive \subseteq Wire /\ s2c \in [Wire -> Seq(Response)]
    /\ handling \subseteq [wire : Wire, msg : Message, torn : BOOLEAN]
    /\ applied \in [IO -> Nat \cup {Torn, None}] /\ disk \in Nat \cup {Torn}

\* The loop has yet to take r; nothing has happened to it.
Fresh(r) == answer[r] = None /\ applied[r] = None

\* Two messages that carry one number, or one operation.
Clash(m, n) == m.seq = n.seq \/ (m.req = n.req /\ m.req # Ping)

\* A message that the replica has not handled: its request is pending, or failed
\* when the client did.
Unhandled(m) ==
    /\ m.seq <= seq
    /\ m.req # Ping => m.req \in called /\ applied[m.req] = None
    /\ \/ m.seq \in DOMAIN messages /\ messages[m.seq] = m.req
       \/ failed /\ (m.req # Ping => answer[m.req] = Error)

\* An answer under way belongs to a pending request, and is an error or what the
\* replica did.
Answers(resp) ==
    /\ resp.seq \in DOMAIN messages
    /\ messages[resp.seq] # Ping =>
          resp.val \in {Error, applied[messages[resp.seq]]} \ {None}

\* Nothing happened to an operation that was not called.
UncalledOK == \A r \in IO \ called : Fresh(r)

\* An operation on the channel requests is fresh, is there once and is not pending.
QueueOK ==
    \A i \in DOMAIN requests : requests[i] # Ping =>
        /\ requests[i] \in called /\ Fresh(requests[i])
        /\ \A j \in DOMAIN requests : requests[j] = requests[i] => i = j
        /\ \A s \in DOMAIN messages : messages[s] # requests[i]

\* A pending operation has no answer and one number; after clientError none is pending.
PendingOK ==
    /\ failed => messages = <<>>
    /\ \A s \in DOMAIN messages : messages[s] # Ping =>
          /\ messages[s] \in called /\ answer[messages[s]] = None
          /\ \A u \in DOMAIN messages : messages[u] = messages[s] => u = s

\* A message on its way is the only one with its number or its operation.
OutgoingOK ==
    \A i \in DOMAIN Outgoing :
        /\ Unhandled(Outgoing[i])
        /\ \A j \in DOMAIN Outgoing : Clash(Outgoing[i], Outgoing[j]) => i = j
        /\ \A h \in handling : ~ Clash(Outgoing[i], h.msg)

\* So is one at the replica; it is torn only if its operation failed.
HandlingOK ==
    \A h \in handling :
        /\ Unhandled(h.msg)
        /\ h.torn => h.msg.req # Ping /\ answer[h.msg.req] = Error
        /\ \A g \in handling : Clash(g.msg, h.msg) => g = h

\* The loop gets nothing after clientError.  An answer under way belongs to a pending
\* request, is the only one, and its message is nowhere any more.
ResponsesOK ==
    \A w \in Wire : \A i \in DOMAIN s2c[w] :
        /\ ~ failed
        /\ s2c[w][i] # TransportErr =>
              /\ Answers(s2c[w][i])
              /\ \A v \in Wire : \A j \in DOMAIN s2c[v] :
                    s2c[v][j].seq = s2c[w][i].seq => v = w /\ j = i
              /\ \A k \in DOMAIN Outgoing : Outgoing[k].seq # s2c[w][i].seq
              /\ \A h \in handling : h.msg.seq # s2c[w][i].seq

\* Every request is in one place: queued, on its way to the replica, at work there,
\* answered, or given up.
IInv ==
    /\ TypeOK /\ Shape /\ InflightExact
    /\ UncalledOK /\ QueueOK /\ PendingOK /\ OutgoingOK /\ HandlingOK /\ ResponsesOK

=============================================================================
