--------------------------- MODULE DataConnProofs ---------------------------
(***************************************************************************)
(* Proofs about DataConn for any number of operations, connections, pings  *)
(* and faults and any capacity of the channel send: ioInflight is exact,   *)
(* and a connection implements BlockService.                               *)
(***************************************************************************)
EXTENDS DataConn, TLAPS, FiniteSetTheorems

\* Zenon first: encoding a leaf for the SMT solver is what costs.  The limits leave
\* room for a busy machine.
USE ZenonT(3), SMTT(60), ZenonT(60)

USE OpAssumption, ValAssumption, PingAssumption, SendCapAssumption

-----------------------------------------------------------------------------
(* What reaches the channel responses.                                     *)

\* A step that loses answers under way or adds errors of a reader, a writer or
\* SetError to them.
OnlyErrors ==
    /\ s2c' \in [Wire -> Seq(Response)]
    /\ failed => s2c' = s2c
    /\ \A v \in Wire : \A i \in DOMAIN s2c'[v] :
          \/ i \in DOMAIN s2c[v] /\ s2c'[v][i] = s2c[v][i]
          \/ s2c'[v][i] = TransportErr

\* What the loop has sent, blocked on a full channel or not, is a sequence of messages.
LEMMA OutgoingFacts ==
    ASSUME Shape
    PROVE  /\ Outgoing \in Seq(Message)
           /\ stuck = NoMsg => Outgoing = send
           /\ stuck # NoMsg => Outgoing = Append(send, stuck)
BY DEF Shape, Outgoing

\* A message for the channel responses goes behind those of its wire, and nowhere
\* once clientError is set.
LEMMA DeliverFacts ==
    ASSUME Shape, NEW w \in Wire, NEW m \in Response, Deliver(w, m)
    PROVE  /\ s2c' \in [Wire -> Seq(Response)]
           /\ failed => s2c' = s2c
           /\ ~ failed =>
                /\ DOMAIN s2c'[w] = 1 .. Len(s2c[w]) + 1
                /\ \A i \in DOMAIN s2c[w] : s2c'[w][i] = s2c[w][i]
                /\ s2c'[w][Len(s2c[w]) + 1] = m
                /\ \A v \in Wire \ {w} : s2c'[v] = s2c[v]
BY DEF Shape, Deliver

\* The error of a reader or a writer is a response as any other.
LEMMA TransportErrType == TransportErr \in Response
BY DEF TransportErr, Response, Error

\* Delivering a transport error adds nothing else.
LEMMA DeliverErr ==
    ASSUME Shape, NEW w \in Wire, Deliver(w, TransportErr)
    PROVE  OnlyErrors
<1>1. /\ s2c' \in [Wire -> Seq(Response)]
      /\ failed => s2c' = s2c
      /\ DOMAIN s2c[w] = 1 .. Len(s2c[w]) /\ Len(s2c[w]) \in Nat
  BY DeliverFacts, TransportErrType DEF Shape
<1>2. CASE failed
  BY <1>1, <1>2 DEF OnlyErrors
<1>3. CASE ~ failed
  <2> SUFFICES ASSUME NEW v \in Wire, NEW i \in DOMAIN s2c'[v]
               PROVE  \/ i \in DOMAIN s2c[v] /\ s2c'[v][i] = s2c[v][i]
                      \/ s2c'[v][i] = TransportErr
    BY <1>1, <1>3 DEF OnlyErrors
  <2>1. CASE v # w
    BY <1>3, <2>1, DeliverFacts, TransportErrType
  <2>2. CASE v = w
    BY <1>1, <1>3, <2>2, DeliverFacts, TransportErrType
  <2> QED BY <2>1, <2>2
<1> QED BY <1>2, <1>3

\* Errors and lost answers leave every answer under way with its pending request, if
\* the messages on their way are among those there were.
LEMMA ErrorsOK ==
    ASSUME Shape, ResponsesOK, OnlyErrors,
           \A h \in handling' : \/ \E g \in handling : g.msg = h.msg
                                \/ \E i \in DOMAIN Outgoing : Outgoing[i] = h.msg,
           \A i \in DOMAIN Outgoing' : \E j \in DOMAIN Outgoing : Outgoing'[i] = Outgoing[j],
           UNCHANGED <<messages, applied, failed>>
    PROVE ResponsesOK'
<1>1. \A w \in Wire : \A i \in DOMAIN s2c'[w] : ~ failed'
  BY DEF ResponsesOK, OnlyErrors
<1>2. ASSUME NEW w \in Wire, NEW i \in DOMAIN s2c'[w], s2c'[w][i] # TransportErr
      PROVE  /\ i \in DOMAIN s2c[w] /\ s2c'[w][i] = s2c[w][i]
             /\ Answers(s2c[w][i])' /\ s2c[w][i].seq # 0
  BY <1>2 DEF OnlyErrors, ResponsesOK, Answers, Shape
<1>3. TransportErr.seq = 0
  BY DEF TransportErr
<1>4. ASSUME NEW w \in Wire, NEW i \in DOMAIN s2c'[w], s2c'[w][i] # TransportErr,
             NEW v \in Wire, NEW j \in DOMAIN s2c'[v], s2c'[v][j].seq = s2c'[w][i].seq
      PROVE  v = w /\ j = i
  BY <1>2, <1>3, <1>4 DEF OnlyErrors, ResponsesOK
<1> QED BY <1>1, <1>2, <1>4 DEF ResponsesOK

-----------------------------------------------------------------------------
(* What a step leaves alone.                                               *)

\* The messages on their way stay so in a step that handles none of them.
LEMMA SameOutgoing ==
    ASSUME Shape, OutgoingOK, Outgoing' = Outgoing, handling' = handling,
           \A m \in Message : Unhandled(m) => Unhandled(m)'
    PROVE  OutgoingOK'
<1>1. \A i \in DOMAIN Outgoing : Outgoing[i] \in Message
  BY OutgoingFacts
<1>2. ASSUME NEW i \in DOMAIN Outgoing PROVE Unhandled(Outgoing[i])'
  <2>1. PICK m \in Message : m = Outgoing[i]
    BY <1>1
  <2>2. Unhandled(m)'
    BY <2>1 DEF OutgoingOK
  <2> QED BY <2>1, <2>2 DEF Unhandled
<1>3. ASSUME NEW i \in DOMAIN Outgoing
      PROVE  /\ \A j \in DOMAIN Outgoing : Clash(Outgoing[i], Outgoing[j]) => i = j
             /\ \A h \in handling : ~ Clash(Outgoing[i], h.msg)
  BY DEF OutgoingOK
<1>4. ASSUME NEW i \in DOMAIN Outgoing
      PROVE  /\ (\A j \in DOMAIN Outgoing : Clash(Outgoing[i], Outgoing[j]) => i = j)'
             /\ (\A h \in handling : ~ Clash(Outgoing[i], h.msg))'
  BY <1>3 DEF Clash
<1> QED BY <1>2, <1>4 DEF OutgoingOK

\* The answers under way stay so as long as they fit what was asked and done.
LEMMA KeptResponses ==
    ASSUME ResponsesOK, UNCHANGED <<s2c, failed>>, Outgoing' = Outgoing,
           handling' \subseteq handling,
           \A w \in Wire : \A i \in DOMAIN s2c[w] :
               s2c[w][i] # TransportErr /\ Answers(s2c[w][i]) => Answers(s2c[w][i])'
    PROVE  ResponsesOK'
<1>1. ASSUME NEW w \in Wire, NEW i \in DOMAIN s2c[w]
      PROVE  /\ ~ failed
             /\ s2c[w][i] # TransportErr =>
                   /\ Answers(s2c[w][i])'
                   /\ \A v \in Wire : \A j \in DOMAIN s2c[v] :
                         s2c[v][j].seq = s2c[w][i].seq => v = w /\ j = i
                   /\ \A k \in DOMAIN Outgoing : Outgoing[k].seq # s2c[w][i].seq
                   /\ \A h \in handling' : h.msg.seq # s2c[w][i].seq
  BY DEF ResponsesOK
<1>2. ASSUME NEW w \in Wire, NEW i \in DOMAIN s2c'[w], s2c'[w][i] # TransportErr
      PROVE  Answers(s2c[w][i])'
  BY <1>1, <1>2
<1> QED BY <1>1, <1>2 DEF ResponsesOK

\* The answers under way stay so in a step that touches no pending request.
LEMMA SameResponses ==
    ASSUME ResponsesOK, UNCHANGED <<s2c, messages, applied, failed, handling>>,
           Outgoing' = Outgoing
    PROVE  ResponsesOK'
<1>1. ASSUME NEW resp PROVE Answers(resp) => Answers(resp)'
  BY DEF Answers
<1> QED BY <1>1, KeptResponses

\* An answer under way is not the one that h will get, nor for the same operation.
LEMMA NotAnswered ==
    ASSUME ResponsesOK, PendingOK, NEW h \in handling, Unhandled(h.msg),
           NEW w \in Wire, NEW i \in DOMAIN s2c[w], s2c[w][i] # TransportErr
    PROVE  /\ s2c[w][i].seq # h.msg.seq /\ s2c[w][i].seq \in DOMAIN messages
           /\ messages[s2c[w][i].seq] # Ping => messages[s2c[w][i].seq] # h.msg.req
<1>1. PICK n, s, r : n = s2c[w][i].seq /\ s = h.msg.seq /\ r = h.msg.req
  OBVIOUS
<1>2. ~ failed /\ n \in DOMAIN messages /\ n # s
  BY <1>1 DEF ResponsesOK, Answers
<1>3. s \in DOMAIN messages /\ messages[s] = r
  BY <1>1, <1>2 DEF Unhandled
<1>4. messages[n] # Ping => messages[n] # r
  BY <1>2, <1>3 DEF PendingOK
<1> QED BY <1>1, <1>2, <1>4

-----------------------------------------------------------------------------
(* Each step keeps the inductive invariant: the calls and the loop.        *)

\* The loop unblocks: the message was sent already as far as IInv can tell.
LEMMA LoopSendInv ==
    ASSUME IInv, LoopSend
    PROVE  IInv'
<1> USE DEF IInv, LoopSend, serverVars, monVars
<1>1. TypeOK' BY DEF TypeOK, Shape, SendFull
<1>b. send' \in Seq(Message) /\ stuck' \in Message \cup {NoMsg}
  BY DEF Shape
<1>2. Shape' BY <1>b DEF Shape
<1>a. Outgoing' = Outgoing
  BY <1>2, OutgoingFacts DEF Outgoing
<1>3. InflightExact' BY DEF InflightExact
<1>4. UncalledOK' BY DEF UncalledOK, Fresh
<1>5. QueueOK' BY DEF QueueOK, Fresh
<1>6. PendingOK' BY DEF PendingOK
<1>u. \A m \in Message : Unhandled(m) => Unhandled(m)'
  BY DEF Unhandled
<1>7. OutgoingOK' BY <1>a, <1>u, SameOutgoing
<1>8. HandlingOK' BY DEF HandlingOK, Unhandled
<1>9. ResponsesOK' BY <1>a, SameResponses
<1> QED BY <1>1, <1>2, <1>3, <1>4, <1>5, <1>6, <1>7, <1>8, <1>9

\* A call puts a fresh operation on the channel requests.
LEMMA CallInv ==
    ASSUME IInv, NEW r \in IO, Call(r)
    PROVE  IInv'
<1> USE DEF IInv, Call, serverVars, monVars
<1>0. r \in Request BY DEF Request
<1>a. /\ requests' \in Seq(Request) /\ Len(requests') = Len(requests) + 1
      /\ \A i \in 1..Len(requests) : requests'[i] = requests[i]
      /\ requests'[Len(requests)+1] = r
  BY <1>0 DEF Shape
<1>1. TypeOK' BY DEF TypeOK
<1>2. Shape' BY <1>a DEF Shape, Message, Request
<1>3. InflightExact' BY DEF InflightExact
<1>4. UncalledOK' BY DEF UncalledOK, Fresh
<1>5. QueueOK' BY <1>a DEF QueueOK, UncalledOK, PendingOK, Fresh, Shape
<1>6. PendingOK' BY DEF PendingOK
<1>b. Outgoing' = Outgoing
  BY DEF Outgoing
<1>u. \A m \in Message : Unhandled(m) => Unhandled(m)'
  BY DEF Unhandled
<1>7. OutgoingOK' BY <1>b, <1>u, SameOutgoing
<1>8. HandlingOK' BY DEF HandlingOK, Unhandled
<1>9. ResponsesOK' BY <1>b, SameResponses
<1> QED BY <1>1, <1>2, <1>3, <1>4, <1>5, <1>6, <1>7, <1>8, <1>9

\* A ping of the monitor goes on the channel requests; pings may repeat.
LEMMA PingStartInv ==
    ASSUME IInv, PingStart
    PROVE  IInv'
<1> USE DEF IInv, PingStart, serverVars, monVars
<1>0. Ping \in Request BY DEF Request
<1>a. /\ requests' \in Seq(Request) /\ Len(requests') = Len(requests) + 1
      /\ \A i \in 1..Len(requests) : requests'[i] = requests[i]
      /\ requests'[Len(requests)+1] = Ping
  BY <1>0 DEF Shape
<1>1. TypeOK' BY DEF TypeOK
<1>2. Shape' BY <1>a DEF Shape, Message, Request
<1>3. InflightExact' BY DEF InflightExact
<1>4. UncalledOK' BY DEF UncalledOK, Fresh
<1>5. QueueOK' BY <1>a DEF QueueOK, Fresh, Shape
<1>6. PendingOK' BY DEF PendingOK
<1>b. Outgoing' = Outgoing
  BY DEF Outgoing
<1>u. \A m \in Message : Unhandled(m) => Unhandled(m)'
  BY DEF Unhandled
<1>7. OutgoingOK' BY <1>b, <1>u, SameOutgoing
<1>8. HandlingOK' BY DEF HandlingOK, Unhandled
<1>9. ResponsesOK' BY <1>b, SameResponses
<1> QED BY <1>1, <1>2, <1>3, <1>4, <1>5, <1>6, <1>7, <1>8, <1>9

\* The sequence numbers that ioInflight counts.
PendingIO == {s \in DOMAIN messages : messages[s] # Ping}

\* There are finitely many pending requests, as they were numbered one by one.
LEMMA PendingFinite ==
    ASSUME Shape
    PROVE  IsFiniteSet(PendingIO) /\ Cardinality(PendingIO) \in Nat
<1>1. seq \in Int /\ 1 \in Int BY DEF Shape
<1>2. IsFiniteSet(1 .. seq) BY <1>1, FS_Interval
<1>3. PendingIO \in SUBSET (1 .. seq) BY DEF Shape, PendingIO
<1>4. IsFiniteSet(PendingIO) BY <1>2, <1>3, FS_Subset
<1> QED BY <1>4, FS_CardinalityType

\* handleRequest: a request gets a new number, becomes pending, is counted and sent;
\* after clientError it is answered with the error.
LEMMA LoopRequestInv ==
    ASSUME IInv, LoopRequest
    PROVE  IInv'
<1> USE DEF IInv, serverVars
<1>0. PICK r \in Request : r = Head(requests)
  BY DEF Shape, LoopRequest
<1>a. /\ requests' \in Seq(Request) /\ Len(requests') = Len(requests) - 1
      /\ r = requests[1] /\ Len(requests) >= 1
      /\ \A i \in 1..Len(requests') : requests'[i] = requests[i + 1]
      /\ DOMAIN requests = 1 .. Len(requests) /\ DOMAIN requests' = 1 .. Len(requests')
      /\ Len(requests) \in Nat
  BY <1>0 DEF Shape, LoopRequest
<1>b. /\ UNCHANGED <<called, failed, alive, s2c, handling, applied, disk>>
      /\ stuck = NoMsg
  BY DEF LoopRequest, Ready
<1>c. \A i \in DOMAIN requests' : /\ i + 1 \in DOMAIN requests /\ requests'[i] = requests[i + 1]
                                  /\ i + 1 # 1 /\ 1 \in DOMAIN requests
  BY <1>a
<1>d. \A i \in DOMAIN requests' : requests'[i] # Ping => requests'[i] # r
  BY <1>a, <1>c DEF QueueOK
<1>1. CASE failed
  <2> USE <1>1, <1>b
  <2>0. /\ answer' = [q \in IO |-> IF q \in {r} THEN Error ELSE answer[q]]
        /\ mon' \in {mon, AfterPing(Error)}
        /\ UNCHANGED <<messages, seq, send, stuck, inflight>>
    BY <1>0 DEF LoopRequest, Reply
  <2>1. TypeOK' BY <2>0 DEF TypeOK, AfterPing
  <2>2. Shape' BY <1>a, <2>0 DEF Shape, Error
  <2>3. InflightExact' BY <2>0 DEF InflightExact
  <2>n. /\ \A q \in IO : q # r => answer'[q] = answer[q]
        /\ UNCHANGED <<called, messages, applied>>
    BY <2>0
  <2>r. r # Ping => r \in called
    BY <1>a DEF QueueOK
  <2>4. UncalledOK' BY <2>n, <2>r DEF UncalledOK, Fresh
  <2>5. QueueOK'
    <3>1. \A i \in DOMAIN requests' : requests'[i] \in Request
      BY <1>a
    <3>2. \A i, j \in DOMAIN requests' : i + 1 = j + 1 => i = j
      BY <1>a
    <3> QED BY <1>c, <1>d, <2>n, <3>1, <3>2 DEF QueueOK, Fresh, Request
  <2>6. PendingOK' BY <2>0 DEF PendingOK
  <2>a. Outgoing' = Outgoing BY <2>0 DEF Outgoing
  <2>7. OutgoingOK' BY <2>a, <2>0 DEF OutgoingOK, Unhandled, Clash, Shape
  <2>8. HandlingOK' BY <2>0 DEF HandlingOK, Unhandled, Shape
  <2>9. ResponsesOK' BY <2>0 DEF ResponsesOK
  <2> QED BY <2>1, <2>2, <2>3, <2>4, <2>5, <2>6, <2>7, <2>8, <2>9
<1>2. CASE ~ failed
  <2> USE <1>2, <1>b
  <2>p. PICK msg \in Message : msg = [seq |-> seq + 1, req |-> r]
    <3>1. [seq |-> seq + 1, req |-> r] \in Message
      BY DEF Shape, Message
    <3> QED BY <3>1
  <2>0. /\ inflight' = inflight + (IF IsIO(r) THEN 1 ELSE 0)
        /\ seq' = seq + 1
        /\ messages' = [s \in DOMAIN messages \cup {seq + 1} |->
                           IF s = seq + 1 THEN r ELSE messages[s]]
        /\ IF SendFull THEN send' = send /\ stuck' = msg
           ELSE send' = Append(send, msg) /\ stuck' = stuck
        /\ UNCHANGED <<answer, mon>>
    BY <1>0, <2>p DEF LoopRequest
  <2>m. /\ msg.seq = seq + 1 /\ msg.req = r /\ msg # NoMsg /\ seq \in Nat
        /\ seq + 1 \notin DOMAIN messages
    BY <2>p DEF Shape, Message, NoMsg
  <2>1. TypeOK' BY <1>a, <2>0, <2>m DEF TypeOK, SendFull, Shape, Request
  <2>2. Shape'
    <3>1. messages' \in [DOMAIN messages' -> Request] /\ DOMAIN messages' \subseteq 1 .. seq'
      <4>1. DOMAIN messages' = DOMAIN messages \cup {seq + 1}
        BY <2>0
      <4>2. \A s \in DOMAIN messages' : messages'[s] \in Request
        BY <2>0, <4>1 DEF Shape
      <4>3. messages' = [s \in DOMAIN messages' |-> messages'[s]]
        BY <2>0
      <4>4. DOMAIN messages' \subseteq 1 .. seq'
        BY <4>1, <2>0, <2>m DEF Shape
      <4> QED BY <4>2, <4>3, <4>4
    <3>2. send' \in Seq(Message) /\ stuck' \in Message \cup {NoMsg} /\ seq' \in Nat
      <4>1. Append(send, msg) \in Seq(Message) /\ send \in Seq(Message) /\ seq + 1 \in Nat
        BY DEF Shape
      <4> QED BY <4>1, <2>0
    <3> QED BY <3>1, <3>2, <1>a, <2>0 DEF Shape
  <2>a. Outgoing' = Append(Outgoing, msg)
    BY <2>0, <2>m DEF Outgoing
  <2>b. /\ Outgoing \in Seq(Message) /\ DOMAIN Outgoing = 1 .. Len(Outgoing)
        /\ Len(Outgoing) \in Nat
        /\ DOMAIN Outgoing' = DOMAIN Outgoing \cup {Len(Outgoing) + 1}
        /\ \A i \in DOMAIN Outgoing : Outgoing'[i] = Outgoing[i]
        /\ Outgoing'[Len(Outgoing) + 1] = msg
    BY <2>a, <2>m, OutgoingFacts
  <2>3. InflightExact'
    <3>1. PendingIO' = IF r # Ping THEN PendingIO \cup {seq + 1} ELSE PendingIO
      BY <2>0, <2>m DEF PendingIO
    <3>2. seq + 1 \notin PendingIO
      BY <2>m DEF PendingIO
    <3>3. IsFiniteSet(PendingIO) /\ Cardinality(PendingIO) \in Nat
      BY PendingFinite
    <3>4. Cardinality(PendingIO \cup {seq + 1}) = Cardinality(PendingIO) + 1
      BY <3>2, <3>3, FS_AddElement
    <3>5. inflight = Cardinality(PendingIO)
      BY DEF InflightExact, PendingIO
    <3>6. inflight' = Cardinality(PendingIO')
      BY <3>1, <3>3, <3>4, <3>5, <2>0 DEF IsIO
    <3> QED BY <3>6 DEF InflightExact, PendingIO
  <2>4. UncalledOK' BY <2>0 DEF UncalledOK, Fresh
  <2>5. QueueOK'
    BY <1>a, <1>c, <1>d, <2>0, <2>m DEF QueueOK, Fresh, Shape
  <2>6. PendingOK' 
    BY <1>a, <2>0, <2>m DEF PendingOK, QueueOK, Fresh
  <2>u. Unhandled(msg)'
    BY <1>a, <2>0, <2>m DEF Unhandled, QueueOK, Fresh
  <2>v. ASSUME NEW m \in Message, Unhandled(m)
        PROVE  Unhandled(m)' /\ ~ Clash(m, msg)
    <3>1. m.seq \in Nat /\ m.seq <= seq /\ m.seq \in DOMAIN messages /\ messages[m.seq] = m.req
      BY <2>v DEF Unhandled, Message
    <3>2. m.seq # seq + 1 /\ (m.req # Ping => m.req # r)
      BY <3>1, <1>a, <2>m DEF QueueOK
    <3> QED BY <2>v, <3>1, <3>2, <2>0, <2>m DEF Unhandled, Clash
  <2>7. OutgoingOK' 
    <3> SUFFICES ASSUME NEW i \in DOMAIN Outgoing'
                 PROVE  /\ Unhandled(Outgoing[i])'
                        /\ \A j \in DOMAIN Outgoing' : Clash(Outgoing'[i], Outgoing'[j]) => i = j
                        /\ \A h \in handling : ~ Clash(Outgoing'[i], h.msg)
      BY DEF OutgoingOK, Clash
    <3>1. \A h \in handling : h.msg \in Message /\ Unhandled(h.msg)
      BY DEF HandlingOK, Shape
    <3>2. \A j \in DOMAIN Outgoing : Outgoing[j] \in Message /\ Unhandled(Outgoing[j])
      BY <2>b DEF OutgoingOK
    <3>3. CASE i \in DOMAIN Outgoing
      BY <3>1, <3>2, <3>3, <2>b, <2>v DEF OutgoingOK
    <3>4. CASE i = Len(Outgoing) + 1
      BY <3>1, <3>2, <3>4, <2>b, <2>u, <2>v DEF Clash
    <3> QED BY <3>3, <3>4, <2>b
  <2>8. HandlingOK' 
    <3>1. \A h \in handling : h.msg \in Message
      BY DEF Shape
    <3> QED BY <2>v, <2>0, <3>1 DEF HandlingOK, Clash
  <2>9. ResponsesOK'
    <3>1. \A resp : Answers(resp) => Answers(resp)' /\ resp.seq # seq + 1
      BY <2>0, <2>m DEF Answers
    <3>2. ASSUME NEW k \in DOMAIN Outgoing'
          PROVE  \/ Outgoing'[k].seq = seq + 1
                 \/ k \in DOMAIN Outgoing /\ Outgoing'[k] = Outgoing[k]
      <4>1. k \in DOMAIN Outgoing \/ k = Len(Outgoing) + 1
        BY <2>b
      <4> QED BY <4>1, <2>b, <2>m
    <3> QED BY <3>1, <3>2 DEF ResponsesOK
  <2> QED BY <2>1, <2>2, <2>3, <2>4, <2>5, <2>6, <2>7, <2>8, <2>9
<1> QED BY <1>1, <1>2

\* handleClientError answers all pending requests with the error and forgets them; what
\* is still on its way to the replica belongs to operations that failed.
LEMMA HandleClientErrorInv ==
    ASSUME IInv, handleClientError,
           UNCHANGED <<called, requests, seq, send, stuck, alive, serverVars>>
    PROVE  IInv'
<1> USE DEF IInv, serverVars
<1> DEFINE rs == {messages[s] : s \in DOMAIN messages}
<1>0. /\ failed' = TRUE /\ messages' = <<>> /\ inflight' = 0
      /\ s2c' = [w \in Wire |-> <<>>] /\ DOMAIN messages' = {}
      /\ \A r \in IO : answer'[r] = IF r \in rs THEN Error ELSE answer[r]
      /\ answer' \in [IO -> Int]
      /\ mon' \in {mon, AfterPing(Error)}
  BY DEF handleClientError, Reply, Shape, Error
<1>1. TypeOK' BY <1>0 DEF TypeOK, AfterPing
<1>2. Shape'
  <2>1. messages' \in [DOMAIN messages' -> Request]
    BY <1>0
  <2>2. s2c' \in [Wire -> Seq(Response)]
    BY <1>0
  <2> QED BY <1>0, <2>1, <2>2 DEF Shape
<1>3. InflightExact'
  BY <1>0, FS_EmptySet DEF InflightExact
<1>4. UncalledOK'
  BY <1>0 DEF UncalledOK, Fresh, PendingOK, Shape
<1>5. QueueOK'
  BY <1>0 DEF QueueOK, Fresh, Shape
<1>6. PendingOK' BY <1>0 DEF PendingOK
<1>a. Outgoing' = Outgoing BY DEF Outgoing
<1>u. \A m \in Message : Unhandled(m) => Unhandled(m)'
  BY <1>0 DEF Unhandled, Shape, Message, Request
<1>7. OutgoingOK'
  <2>1. \A i \in DOMAIN Outgoing : Outgoing[i] \in Message
    BY OutgoingFacts
  <2> QED BY <2>1, <1>a, <1>u DEF OutgoingOK, Clash
<1>8. HandlingOK'
  <2>1. \A h \in handling : h.msg \in Message /\ (h.torn => h.msg.req \in IO)
    BY DEF Shape, Message, Request, HandlingOK
  <2> QED BY <2>1, <1>0, <1>u DEF HandlingOK, Clash
<1>9. ResponsesOK' BY <1>0 DEF ResponsesOK
<1> QED BY <1>1, <1>2, <1>3, <1>4, <1>5, <1>6, <1>7, <1>8, <1>9

\* handleResponse takes the request of an answer off the pending ones, once.
LEMMA LoopResponseInv ==
    ASSUME IInv, NEW w \in Wire, LoopResponse(w)
    PROVE  IInv'
<1> USE DEF IInv, serverVars
<1>a. /\ s2c[w] \in Seq(Response) /\ Len(s2c[w]) \in Nat /\ s2c[w] # <<>>
      /\ DOMAIN s2c[w] = 1 .. Len(s2c[w]) /\ 1 \in DOMAIN s2c[w] /\ Head(s2c[w]) = s2c[w][1]
  BY DEF Shape, LoopResponse
<1>b. UNCHANGED <<called, requests, seq, send, stuck, alive, serverVars>>
  BY DEF LoopResponse
<1>p. PICK resp \in Response : resp = s2c[w][1]
  BY <1>a
<1>1. CASE resp = TransportErr
  BY <1>a, <1>b, <1>p, <1>1, HandleClientErrorInv DEF LoopResponse
<1>2. CASE resp # TransportErr
  <2>0. /\ ~ failed /\ resp.seq \in DOMAIN messages /\ Answers(resp)
        /\ \A v \in Wire : \A j \in DOMAIN s2c[v] :
                    s2c[v][j].seq = resp.seq => v = w /\ j = 1
        /\ \A k \in DOMAIN Outgoing : Outgoing[k].seq # resp.seq
        /\ \A h \in handling : h.msg.seq # resp.seq
    <3>1. /\ ~ failed /\ Answers(resp)
          /\ \A v \in Wire : \A j \in DOMAIN s2c[v] :
                    s2c[v][j].seq = resp.seq => v = w /\ j = 1
          /\ \A k \in DOMAIN Outgoing : Outgoing[k].seq # resp.seq
          /\ \A h \in handling : h.msg.seq # resp.seq
      BY <1>a, <1>p, <1>2 DEF ResponsesOK
    <3>2. resp.seq \in DOMAIN messages
      BY <3>1 DEF Answers
    <3> QED BY <3>1, <3>2
  <2>q. PICK r \in Request : r = messages[resp.seq]
    BY <2>0 DEF Shape
  <2>1. /\ s2c' = [s2c EXCEPT ![w] = Tail(@)]
        /\ inflight' = inflight - (IF IsIO(r) THEN 1 ELSE 0)
        /\ messages' = [s \in DOMAIN messages \ {resp.seq} |-> messages[s]]
        /\ answer' = [q \in IO |-> IF q \in {r} THEN resp.val ELSE answer[q]]
        /\ mon' \in {mon, AfterPing(resp.val)}
        /\ failed' = failed
    BY <1>a, <1>p, <1>2, <2>q DEF LoopResponse, Reply
  <2>2. /\ s2c' \in [Wire -> Seq(Response)]
        /\ \A v \in Wire \ {w} : s2c'[v] = s2c[v]
        /\ s2c'[w] = Tail(s2c[w])
    BY <1>a, <2>1 DEF Shape
  <2>3. /\ DOMAIN s2c'[w] = 1 .. Len(s2c[w]) - 1
        /\ \A i \in DOMAIN s2c'[w] : i + 1 \in DOMAIN s2c[w] /\ s2c'[w][i] = s2c[w][i + 1]
    BY <1>a, <2>2
  <2>4. \A v \in Wire : \A i \in DOMAIN s2c'[v] :
          \E j \in DOMAIN s2c[v] : /\ s2c'[v][i] = s2c[v][j]
                                   /\ IF v = w THEN j = i + 1 ELSE j = i
    BY <2>2, <2>3
  <2>m. /\ DOMAIN messages' = DOMAIN messages \ {resp.seq}
        /\ \A s \in DOMAIN messages' : messages'[s] = messages[s]
        /\ \A s \in DOMAIN messages' : messages[s] # Ping => messages[s] # r
    BY <2>0, <2>1, <2>q DEF PendingOK
  <2>n. answer' \in [IO -> Int] /\ \A q \in IO : q # r => answer'[q] = answer[q]
    BY <2>1 DEF Shape, Response
  <2>5. TypeOK' BY <1>b, <2>1, <2>m DEF TypeOK, AfterPing
  <2>6. Shape'
    <3>1. messages' \in [DOMAIN messages' -> Request] /\ DOMAIN messages' \subseteq 1 .. seq
      BY <2>1, <2>m DEF Shape
    <3> QED BY <1>b, <2>n, <2>1, <2>2, <3>1 DEF Shape
  <2>7. InflightExact'
    <3>1. PendingIO' = IF r # Ping THEN PendingIO \ {resp.seq} ELSE PendingIO
      BY <2>m, <2>q DEF PendingIO
    <3>2. r # Ping => resp.seq \in PendingIO
      BY <2>0, <2>q DEF PendingIO
    <3>3. IsFiniteSet(PendingIO) /\ Cardinality(PendingIO) \in Nat
      BY PendingFinite
    <3>4. r # Ping => Cardinality(PendingIO \ {resp.seq}) = Cardinality(PendingIO) - 1
      BY <3>2, <3>3, FS_RemoveElement
    <3>5. inflight = Cardinality(PendingIO)
      BY DEF InflightExact, PendingIO
    <3>6. inflight' = Cardinality(PendingIO')
      BY <3>1, <3>3, <3>4, <3>5, <2>1 DEF IsIO
    <3> QED BY <3>6 DEF InflightExact, PendingIO
  <2>r. r # Ping => r \in called
    BY <2>0, <2>q DEF PendingOK
  <2>8. UncalledOK'
    BY <1>b, <2>n, <2>r DEF UncalledOK, Fresh
  <2>9. QueueOK'
    BY <1>b, <2>0, <2>q, <2>n, <2>m DEF QueueOK, Fresh, Shape
  <2>10. PendingOK'
    BY <1>b, <2>0, <2>1, <2>n, <2>m DEF PendingOK, Shape
  <2>u. ASSUME NEW m \in Message, Unhandled(m), m.seq # resp.seq PROVE Unhandled(m)'
    BY <2>u, <1>b, <2>0, <2>1, <2>m DEF Unhandled, Shape, Message, Request
  <2>a. Outgoing' = Outgoing BY <1>b DEF Outgoing
  <2>11. OutgoingOK'
    <3>1. \A i \in DOMAIN Outgoing : Outgoing[i] \in Message
      BY OutgoingFacts
    <3> QED BY <3>1, <2>0, <2>a, <2>u, <1>b DEF OutgoingOK, Clash
  <2>12. HandlingOK'
    <3>1. \A h \in handling : h.msg \in Message /\ (h.torn => h.msg.req \in IO)
      BY DEF Shape, Message, Request, HandlingOK
    <3>2. \A h \in handling : h.torn => h.msg.req # r
      BY <2>0, <2>q, <3>1 DEF HandlingOK, PendingOK, None, Error
    <3> QED BY <3>1, <3>2, <2>0, <2>n, <2>u, <1>b DEF HandlingOK, Clash
  <2>13. ResponsesOK'
    <3> SUFFICES ASSUME NEW v \in Wire, NEW i \in DOMAIN s2c'[v], s2c'[v][i] # TransportErr
                 PROVE  /\ Answers(s2c[v][i])'
                        /\ \A u \in Wire : \A j \in DOMAIN s2c'[u] :
                              s2c'[u][j].seq = s2c'[v][i].seq => u = v /\ j = i
                        /\ \A k \in DOMAIN Outgoing : Outgoing[k].seq # s2c'[v][i].seq
                        /\ \A h \in handling : h.msg.seq # s2c'[v][i].seq
      <4>1. ~ failed' /\ handling' = handling
        BY <1>b, <2>0, <2>1
      <4> QED BY <2>a, <4>1 DEF ResponsesOK
    <3>0. PICK e : e = s2c'[v][i]
      OBVIOUS
    <3>1. PICK k \in DOMAIN s2c[v] : /\ e = s2c[v][k]
                                     /\ IF v = w THEN k = i + 1 ELSE k = i
      BY <3>0, <2>4
    <3>2. Answers(e) /\ e.seq # resp.seq
      BY <3>0, <3>1, <2>0, <2>3 DEF ResponsesOK
    <3>3. Answers(e)'
      BY <3>2, <1>b, <2>m DEF Answers
    <3>4. ASSUME NEW u \in Wire, NEW j \in DOMAIN s2c'[u], s2c'[u][j].seq = e.seq
          PROVE  u = v /\ j = i
      <4>1. PICK l \in DOMAIN s2c[u] : /\ s2c'[u][j] = s2c[u][l]
                                       /\ IF u = w THEN l = j + 1 ELSE l = j
        BY <2>4
      <4>2. u = v /\ l = k
        BY <3>0, <3>1, <3>4, <4>1 DEF ResponsesOK
      <4> QED BY <3>1, <4>1, <4>2, <2>2, <2>3, <1>a
    <3>5. Answers(s2c[v][i])'
      BY <3>0, <3>3 DEF Answers
    <3> QED BY <3>0, <3>1, <3>4, <3>5 DEF ResponsesOK
  <2> QED BY <2>5, <2>6, <2>7, <2>8, <2>9, <2>10, <2>11, <2>12, <2>13
<1> QED BY <1>1, <1>2

\* The r/w timeout is a client error.
LEMMA LoopTickInv ==
    ASSUME IInv, LoopTick
    PROVE  IInv'
BY HandleClientErrorInv DEF LoopTick

-----------------------------------------------------------------------------
(* Each step keeps the inductive invariant: wires, replica and monitor.    *)

\* A writer moves a message to the replica, tears it after its request failed, or
\* loses it.
LEMMA WriterTakesInv ==
    ASSUME IInv, NEW w \in Wire, WriterTakes(w)
    PROVE  IInv'
<1> USE DEF IInv
<1>a. /\ send # <<>> /\ send' = Tail(send) /\ send \in Seq(Message) /\ send' \in Seq(Message)
      /\ Len(send') = Len(send) - 1 /\ Len(send) \in Nat /\ Len(send) > 0
      /\ UNCHANGED <<called, answer, requests, messages, seq, stuck, failed, inflight,
                     alive, applied, disk, monVars>>
  BY DEF WriterTakes, Shape
<1>p. PICK msg \in Message : msg = Head(send)
  BY <1>a
<1>b. /\ Outgoing \in Seq(Message) /\ Outgoing # <<>> /\ Outgoing' = Tail(Outgoing)
      /\ Outgoing[1] = msg
  <2>1. CASE stuck = NoMsg
    BY <1>a, <1>p, <2>1, OutgoingFacts DEF Outgoing
  <2>2. CASE stuck # NoMsg
    <3>1. stuck \in Message
      BY <2>2 DEF Shape
    <3>2. Tail(Append(send, stuck)) = Append(Tail(send), stuck)
      BY <1>a, <3>1
    <3>3. Outgoing = Append(send, stuck) /\ Outgoing' = Append(Tail(send), stuck)
      BY <1>a, <2>2 DEF Outgoing
    <3>4. Append(send, stuck)[1] = Head(send) /\ Append(send, stuck) # <<>>
      BY <1>a, <3>1
    <3> QED BY <1>p, <3>2, <3>3, <3>4, OutgoingFacts
  <2> QED BY <2>1, <2>2
<1>c. /\ DOMAIN Outgoing = 1 .. Len(Outgoing) /\ Len(Outgoing) \in Nat /\ 1 \in DOMAIN Outgoing
      /\ DOMAIN Outgoing' = 1 .. Len(Outgoing) - 1
      /\ \A i \in DOMAIN Outgoing' : i + 1 \in DOMAIN Outgoing /\ i + 1 # 1 /\ Outgoing'[i] = Outgoing[i + 1]
  BY <1>b
<1>h. PICK H : /\ H \subseteq {[wire |-> w, msg |-> msg, torn |-> b] : b \in BOOLEAN}
               /\ \A g, h \in H : g = h
               /\ \A h \in H : h.torn => msg.seq \notin DOMAIN messages /\ IsWrite(msg.req)
               /\ handling' = handling \cup H
  <2>1. CASE handling' = handling
    <3> WITNESS {}
    <3> QED BY <2>1
  <2>2. ASSUME NEW b \in BOOLEAN, handling' = handling \cup {[wire |-> w, msg |-> msg, torn |-> b]},
               b => msg.seq \notin DOMAIN messages /\ IsWrite(msg.req)
        PROVE  \E H : /\ H \subseteq {[wire |-> w, msg |-> msg, torn |-> c] : c \in BOOLEAN}
                      /\ \A g, h \in H : g = h
                      /\ \A h \in H : h.torn => msg.seq \notin DOMAIN messages /\ IsWrite(msg.req)
                      /\ handling' = handling \cup H
    <3> WITNESS {[wire |-> w, msg |-> msg, torn |-> b]}
    <3> QED BY <2>2
  <2> QED BY <1>p, <2>1, <2>2 DEF WriterTakes, Write, readFromWire
<1>e. OnlyErrors
  <2>1. CASE s2c' = s2c
    BY <2>1 DEF OnlyErrors, Shape
  <2>2. CASE Deliver(w, TransportErr)
    BY <2>2, DeliverErr
  <2> QED BY <2>1, <2>2 DEF WriterTakes
<1>1. TypeOK'
  BY <1>a, <1>h DEF TypeOK, monVars, Message, Request
<1>2. Shape'
  <2>1. handling' \subseteq [wire : Wire, msg : Message, torn : BOOLEAN]
    BY <1>h DEF Shape
  <2> QED BY <1>a, <1>e, <2>1 DEF Shape, OnlyErrors
<1>3. InflightExact' BY <1>a DEF InflightExact
<1>4. UncalledOK' BY <1>a DEF UncalledOK, Fresh
<1>5. QueueOK' BY <1>a DEF QueueOK, Fresh
<1>6. PendingOK' BY <1>a DEF PendingOK
<1>u. \A m : Unhandled(m) => Unhandled(m)'
  BY <1>a DEF Unhandled
<1>m. Unhandled(msg) /\ \A h \in handling : ~ Clash(msg, h.msg)
  BY <1>b, <1>c DEF OutgoingOK
<1>n. \A i \in DOMAIN Outgoing' : /\ Unhandled(Outgoing[i + 1])
                                  /\ ~ Clash(Outgoing[i + 1], msg)
                                  /\ \A h \in handling : ~ Clash(Outgoing[i + 1], h.msg)
  BY <1>b, <1>c DEF OutgoingOK
<1>o. \A h \in handling' : h \in handling \/ h.msg = msg
  BY <1>h
<1>7. OutgoingOK'
  <2> SUFFICES ASSUME NEW i \in DOMAIN Outgoing', NEW m, m = Outgoing'[i]
               PROVE  /\ Unhandled(m)'
                      /\ \A j \in DOMAIN Outgoing' : Clash(m, Outgoing'[j]) => i = j
                      /\ \A h \in handling' : ~ Clash(m, h.msg)
    BY DEF OutgoingOK, Clash
  <2>1. m = Outgoing[i + 1] /\ i + 1 \in DOMAIN Outgoing /\ i \in Nat
    BY <1>c
  <2>2. Unhandled(m)' BY <2>1, <1>n, <1>u
  <2>3. \A h \in handling' : ~ Clash(m, h.msg)
    BY <2>1, <1>n, <1>o
  <2>4. \A j \in DOMAIN Outgoing' : Clash(m, Outgoing'[j]) => i = j
    BY <2>1, <1>c DEF OutgoingOK
  <2> QED BY <2>2, <2>3, <2>4
<1>8. HandlingOK'
  <2> SUFFICES ASSUME NEW h \in handling'
               PROVE  /\ Unhandled(h.msg)'
                      /\ h.torn => h.msg.req # Ping /\ answer[h.msg.req] = Error
                      /\ \A g \in handling' : Clash(g.msg, h.msg) => g = h
    BY <1>a DEF HandlingOK, Clash
  <2>1. Unhandled(h.msg)'
    BY <1>o, <1>m, <1>u DEF HandlingOK
  <2>2. h.torn => h.msg.req # Ping /\ answer[h.msg.req] = Error
    <3>1. CASE h \in handling
      BY <3>1 DEF HandlingOK
    <3>2. CASE h.msg = msg /\ h.torn /\ h \notin handling
      BY <3>2, <1>h, <1>m DEF IsWrite, Unhandled
    <3> QED BY <3>1, <3>2, <1>o
  <2>3. \A g \in handling' : Clash(g.msg, h.msg) => g = h
    <3>1. \A g, k : Clash(g, k) <=> Clash(k, g)
      BY DEF Clash
    <3> QED BY <3>1, <1>h, <1>m, <1>o DEF HandlingOK
  <2> QED BY <2>1, <2>2, <2>3
<1>9. ResponsesOK'
  <2>1. \A h \in handling' : \/ \E g \in handling : g.msg = h.msg
                             \/ \E i \in DOMAIN Outgoing : Outgoing[i] = h.msg
    BY <1>o, <1>b, <1>c
  <2>2. \A i \in DOMAIN Outgoing' : \E j \in DOMAIN Outgoing : Outgoing'[i] = Outgoing[j]
    BY <1>c
  <2> QED BY <1>a, <1>e, <2>1, <2>2, ErrorsOK
<1> QED BY <1>1, <1>2, <1>3, <1>4, <1>5, <1>6, <1>7, <1>8, <1>9

\* A broken connection loses the last answers and reports the error.
LEMMA BreakErr ==
    ASSUME IInv, NEW w \in Wire, Break(w)
    PROVE  OnlyErrors
<1>a. /\ s2c \in [Wire -> Seq(Response)] /\ s2c[w] \in Seq(Response)
      /\ Len(s2c[w]) \in Nat /\ DOMAIN s2c[w] = 1 .. Len(s2c[w])
  BY DEF IInv, Shape
<1>1. CASE failed
  BY <1>1, <1>a DEF OnlyErrors, Break
<1>2. CASE ~ failed
  <2>1. PICK k \in 0 .. Len(s2c[w]) :
            s2c' = [s2c EXCEPT ![w] = Append(SubSeq(@, 1, k), TransportErr)]
    BY <1>2 DEF Break
  <2>2. SubSeq(s2c[w], 1, k) \in Seq(Response) /\ Len(SubSeq(s2c[w], 1, k)) = k
    BY <1>a
  <2>3. \A i \in 1 .. k : SubSeq(s2c[w], 1, k)[i] = s2c[w][i] /\ i \in DOMAIN s2c[w]
    BY <1>a
  <2>4. /\ s2c'[w] = Append(SubSeq(s2c[w], 1, k), TransportErr)
        /\ \A v \in Wire \ {w} : s2c'[v] = s2c[v]
    BY <1>a, <2>1
  <2>5. /\ s2c'[w] \in Seq(Response) /\ DOMAIN s2c'[w] = 1 .. k + 1
        /\ \A i \in 1 .. k : s2c'[w][i] = s2c[w][i]
        /\ s2c'[w][k + 1] = TransportErr
    BY <2>2, <2>3, <2>4, TransportErrType
  <2>6. s2c' \in [Wire -> Seq(Response)]
    BY <1>a, <2>1, <2>4, <2>5
  <2>7. ASSUME NEW v \in Wire, NEW i \in DOMAIN s2c'[v]
        PROVE  \/ i \in DOMAIN s2c[v] /\ s2c'[v][i] = s2c[v][i]
               \/ s2c'[v][i] = TransportErr
    <3>1. CASE v = w
      BY <3>1, <2>3, <2>5
    <3>2. CASE v # w
      BY <3>2, <2>4
    <3> QED BY <3>1, <3>2
  <2> QED BY <1>2, <2>6, <2>7 DEF OnlyErrors
<1> QED BY <1>1, <1>2

\* Close breaks all connections without losing an answer that arrived.
LEMMA CloseErr ==
    ASSUME IInv, Close
    PROVE  OnlyErrors
<1>a. s2c \in [Wire -> Seq(Response)]
  BY DEF IInv, Shape
<1>1. CASE failed
  BY <1>1, <1>a DEF OnlyErrors, Close
<1>2. CASE ~ failed
  <2>1. ASSUME NEW v \in Wire
        PROVE  /\ s2c'[v] \in Seq(Response)
               /\ \A i \in DOMAIN s2c'[v] : \/ i \in DOMAIN s2c[v] /\ s2c'[v][i] = s2c[v][i]
                                            \/ s2c'[v][i] = TransportErr
    <3>1. s2c[v] \in Seq(Response) /\ s2c'[v] \in {s2c[v], Append(s2c[v], TransportErr)}
      BY <1>a DEF Close
    <3>2. CASE s2c'[v] = s2c[v]
      BY <3>1, <3>2
    <3>3. CASE s2c'[v] = Append(s2c[v], TransportErr)
      BY <3>1, <3>3, TransportErrType
    <3> QED BY <3>1, <3>2, <3>3
  <2> QED BY <1>2, <2>1 DEF OnlyErrors, Close
<1> QED BY <1>1, <1>2

\* Errors of the connections do not disturb the invariant.
LEMMA OnlyErrorsInv ==
    ASSUME IInv, OnlyErrors, UNCHANGED <<called, answer, serverVars>>,
           UNCHANGED <<requests, messages, seq, send, stuck, failed, inflight>>,
           alive' \subseteq Wire, mon' \in {"tick", "ping", "erring", "failed", "stopped"}
    PROVE  IInv'
<1> USE DEF IInv, serverVars
<1>1. TypeOK' BY DEF TypeOK
<1>2. Shape' BY DEF Shape, OnlyErrors
<1>3. InflightExact' BY DEF InflightExact
<1>4. UncalledOK' /\ QueueOK' /\ PendingOK'
  BY DEF UncalledOK, QueueOK, PendingOK, Fresh
<1>5. Outgoing' = Outgoing BY DEF Outgoing
<1>6. OutgoingOK' /\ HandlingOK'
  <2>1. \A m \in Message : Unhandled(m) => Unhandled(m)'
    BY DEF Unhandled
  <2>2. OutgoingOK'
    BY <1>5, <2>1, SameOutgoing
  <2>3. HandlingOK'
    BY DEF HandlingOK, Unhandled, Clash
  <2> QED BY <2>2, <2>3
<1>7. ResponsesOK'
  BY <1>5, ErrorsOK
<1> QED BY <1>1, <1>2, <1>3, <1>4, <1>6, <1>7

\* A step that leaves the channel responses alone adds errors at most.
LEMMA NoResponse == ASSUME Shape, UNCHANGED s2c PROVE OnlyErrors
BY DEF Shape, OnlyErrors

\* The steps of the connections and of the monitor, time, and the end of the loop.
LEMMA WiresInv ==
    ASSUME IInv,
           \/ LoopEnd \/ MonitorFails \/ StopMonitoring \/ MonitorStops \/ Close
           \/ TimePasses \/ \E w \in Wire : Break(w)
    PROVE  IInv'
<1> USE DEF IInv, TypeOK
<1>1. CASE LoopEnd
  BY <1>1, NoResponse, OnlyErrorsInv DEF LoopEnd, clientVars, serverVars, monVars
<1>2. CASE MonitorFails
  BY <1>2, DeliverErr, OnlyErrorsInv DEF MonitorFails, clientVars, serverVars, monVars
<1>3. CASE StopMonitoring
  BY <1>3, NoResponse, OnlyErrorsInv DEF StopMonitoring, clientVars, serverVars, monVars
<1>4. CASE MonitorStops
  BY <1>4, NoResponse, OnlyErrorsInv DEF MonitorStops, clientVars, serverVars, monVars
<1>5. CASE Close
  BY <1>5, CloseErr, OnlyErrorsInv DEF Close, clientVars, serverVars, monVars
<1>6. ASSUME NEW w \in Wire, Break(w) PROVE IInv'
  BY <1>6, BreakErr, OnlyErrorsInv DEF Break, clientVars, serverVars, monVars
<1>7. CASE TimePasses
  BY <1>7, NoResponse, OnlyErrorsInv DEF TimePasses, serverVars, monVars
<1> QED BY <1>1, <1>2, <1>3, <1>4, <1>5, <1>6, <1>7

\* A handler that has done its request, or failed to, takes it off the replica's
\* requests and answers it.
Handled(h, val) ==
    /\ handling' = handling \ {h}
    /\ pushResponse(h.wire, h.msg.seq, val)
    /\ UNCHANGED <<called, answer, clientVars, alive, mon>>
    /\ \/ UNCHANGED <<disk, applied>> /\ (h.msg.req = Ping \/ val = Error)
       \/ /\ h.msg.req # Ping /\ disk' \in Nat \cup {Torn}
          /\ applied' = [applied EXCEPT ![h.msg.req] = disk']
          /\ val \in {Error, disk'}

\* That is the one answer under way with its number.
LEMMA HandledInv ==
    ASSUME IInv, NEW h \in handling, NEW val \in Int, Handled(h, val)
    PROVE  IInv'
<1> USE DEF IInv
<1>h. /\ handling' = handling \ {h} /\ UNCHANGED <<called, answer, alive, mon>>
      /\ UNCHANGED <<requests, messages, seq, send, stuck, failed, inflight, ended>>
  BY DEF Handled, clientVars
<1>a. PICK s, r : s = h.msg.seq /\ r = h.msg.req
  OBVIOUS
<1>b. PICK resp : resp = [seq |-> s, val |-> val]
  OBVIOUS
<1>c. /\ h.wire \in Wire /\ h.msg \in Message /\ s \in Nat \ {0} /\ r \in Request
      /\ resp \in Response /\ resp # TransportErr /\ resp.seq = s /\ resp.val = val
      /\ Unhandled(h.msg)
  BY <1>a, <1>b DEF Shape, Message, Response, TransportErr, HandlingOK
<1>d. /\ applied' \in [IO -> Nat \cup {Torn, None}] /\ disk' \in Nat \cup {Torn}
      /\ \A q \in IO : q # r => applied'[q] = applied[q]
      /\ r # Ping => val \in {Error, applied'[r]} /\ val # None
  <2>1. applied \in [IO -> Nat \cup {Torn, None}] /\ disk \in Nat \cup {Torn}
    BY DEF Shape
  <2>2. Error # None /\ None \notin Nat \cup {Torn}
    BY DEF Torn, None, Error
  <2>a. \/ UNCHANGED <<disk, applied>> /\ (r = Ping \/ val = Error)
        \/ /\ r # Ping /\ disk' \in Nat \cup {Torn}
           /\ applied' = [applied EXCEPT ![r] = disk']
           /\ val \in {Error, disk'}
    BY <1>a DEF Handled
  <2>3. CASE UNCHANGED <<disk, applied>> /\ (r = Ping \/ val = Error)
    BY <2>1, <2>2, <2>3
  <2>4. CASE /\ r # Ping /\ disk' \in Nat \cup {Torn}
             /\ applied' = [applied EXCEPT ![r] = disk']
             /\ val \in {Error, disk'}
    <3>1. r \in IO
      BY <1>c, <2>4 DEF Request
    <3> QED BY <3>1, <2>1, <2>2, <2>4
  <2> QED BY <2>a, <2>3, <2>4
<1>e. Outgoing' = Outgoing
  BY <1>h DEF Outgoing
<1>i. pushResponse(h.wire, s, val)
  BY <1>a DEF Handled
<1>f. s2c' \in [Wire -> Seq(Response)]
  BY <1>b, <1>c, <1>i, DeliverFacts DEF pushResponse, Shape
<1>1. TypeOK' BY <1>h DEF TypeOK
<1>2. Shape' BY <1>d, <1>f, <1>h DEF Shape
<1>3. InflightExact' BY <1>h DEF InflightExact
<1>4. UncalledOK'
  BY <1>a, <1>c, <1>d, <1>h DEF UncalledOK, Fresh, Unhandled
<1>g. \A q \in called : answer[q] = None /\ q = r =>
          s \in DOMAIN messages /\ messages[s] = r
  <2>1. called \subseteq IO /\ Error # None
    BY DEF Shape, None, Error
  <2>2. \/ s \in DOMAIN messages /\ messages[s] = r
        \/ r # Ping => answer[r] = Error
    BY <1>a, <1>c DEF Unhandled
  <2>3. ASSUME NEW q \in called, answer[q] = None, q = r
        PROVE  s \in DOMAIN messages /\ messages[s] = r
    <3>1. r # Ping
      BY <2>1, <2>3, PingAssumption
    <3> QED BY <2>1, <2>2, <2>3, <3>1
  <2> QED BY <2>3
<1>5. QueueOK'
  BY <1>a, <1>c, <1>d, <1>g, <1>h DEF QueueOK, Fresh, Shape
<1>6. PendingOK' BY <1>h DEF PendingOK
<1>7. OutgoingOK'
  <2> SUFFICES ASSUME NEW i \in DOMAIN Outgoing'
               PROVE  /\ Unhandled(Outgoing[i])'
                      /\ \A j \in DOMAIN Outgoing' : Clash(Outgoing'[i], Outgoing'[j]) => i = j
                      /\ \A g \in handling' : ~ Clash(Outgoing'[i], g.msg)
    BY DEF OutgoingOK, Clash
  <2>1. PICK m : m = Outgoing[i]
    OBVIOUS
  <2>a. i \in DOMAIN Outgoing /\ Outgoing \in Seq(Message)
    BY <1>e, OutgoingFacts
  <2>2. Unhandled(m) /\ ~ Clash(m, h.msg)
    BY <2>a, <2>1 DEF OutgoingOK
  <2>b. m \in Message /\ m.req \in Request
    <3>1. m \in Message
      BY <2>a, <2>1
    <3> QED BY <3>1 DEF Message
  <2>3. Unhandled(m)'
    BY <1>a, <1>d, <1>h, <2>2, <2>b DEF Unhandled, Clash, Request
  <2>4. Unhandled(Outgoing[i])'
    BY <1>e, <2>1, <2>3 DEF Unhandled
  <2> QED BY <1>e, <1>h, <2>4 DEF OutgoingOK
<1>8. HandlingOK'
  <2> SUFFICES ASSUME NEW g \in handling'
               PROVE  /\ Unhandled(g.msg)'
                      /\ g.torn => g.msg.req # Ping /\ answer[g.msg.req] = Error
                      /\ \A k \in handling' : Clash(k.msg, g.msg) => k = g
    BY <1>h DEF HandlingOK
  <2>1. Unhandled(g.msg) /\ ~ Clash(g.msg, h.msg) /\ g.msg.req \in Request
    BY <1>h DEF HandlingOK, Shape, Message
  <2>2. Unhandled(g.msg)'
    BY <1>a, <1>d, <1>h, <2>1 DEF Unhandled, Clash, Request
  <2> QED BY <1>h, <2>2 DEF HandlingOK
<1>9. ResponsesOK'
  <2>0. ASSUME NEW w \in Wire, NEW i \in DOMAIN s2c[w], s2c[w][i] # TransportErr
        PROVE  /\ s2c[w][i].seq # s /\ s2c[w][i].seq \in DOMAIN messages
               /\ messages[s2c[w][i].seq] # Ping => messages[s2c[w][i].seq] # r
    <3>1. Unhandled(h.msg)
      BY <1>c
    <3>2. /\ s2c[w][i].seq # h.msg.seq /\ s2c[w][i].seq \in DOMAIN messages
          /\ messages[s2c[w][i].seq] # Ping => messages[s2c[w][i].seq] # h.msg.req
      BY <2>0, <3>1, NotAnswered
    <3> QED BY <1>a, <3>2
  <2>1. \A w \in Wire : \A i \in DOMAIN s2c[w] : s2c[w][i] # TransportErr =>
            /\ s2c[w][i].seq # s /\ s2c[w][i].seq \in DOMAIN messages
    BY <2>0
  <2>2. ASSUME NEW w \in Wire, NEW i \in DOMAIN s2c[w], s2c[w][i] # TransportErr
        PROVE  LET e == s2c[w][i] IN
               messages[e.seq] # Ping => messages[e.seq] # r
    BY <2>0, <2>2
  <2>3. CASE failed \/ h.wire \notin alive
    <3>1. s2c' = s2c /\ failed' = failed /\ handling' \subseteq handling
      BY <1>h, <1>i, <2>3 DEF pushResponse, Deliver
    <3>2. ASSUME NEW w \in Wire, NEW i \in DOMAIN s2c[w], s2c[w][i] # TransportErr
          PROVE  Answers(s2c[w][i])'
      <4>1. PICK e : e = s2c[w][i]
        OBVIOUS
      <4>2. Answers(e) /\ e.seq \in DOMAIN messages
            /\ (messages[e.seq] # Ping => messages[e.seq] # r)
        BY <2>1, <2>2, <3>2, <4>1 DEF ResponsesOK
      <4>3. messages[e.seq] \in Request
        BY <4>2 DEF Shape
      <4>4. Answers(e)'
        BY <4>2, <4>3, <1>d, <1>h DEF Answers, Request
      <4> QED BY <3>1, <4>1, <4>4 DEF Answers
    <3> QED BY <3>1, <3>2, <1>e, KeptResponses
  <2>4. CASE ~ failed /\ h.wire \in alive
    <3>0. PICK w \in Wire : w = h.wire
      BY <1>c
    <3>a. Shape /\ s2c[w] \in Seq(Response)
      BY DEF Shape
    <3>1. PICK n \in Nat : n = Len(s2c[w])
      BY <3>a
    <3>b. Deliver(w, resp)
      BY <1>b, <1>i, <2>4, <3>0 DEF pushResponse
    <3>2. /\ DOMAIN s2c[w] = 1 .. n /\ DOMAIN s2c'[w] = 1 .. n + 1
          /\ \A i \in DOMAIN s2c[w] : s2c'[w][i] = s2c[w][i]
          /\ s2c'[w][n + 1] = resp
          /\ \A v \in Wire \ {w} : s2c'[v] = s2c[v]
      <4>1. resp \in Response /\ ~ failed
        BY <1>c, <2>4
      <4> QED BY <3>a, <3>b, <3>1, <4>1, DeliverFacts
    <3>3. ASSUME NEW v \in Wire, NEW i \in DOMAIN s2c'[v]
          PROVE  \/ /\ i \in DOMAIN s2c[v] /\ s2c'[v][i] = s2c[v][i]
                    /\ v # w \/ i # n + 1
                 \/ v = w /\ i = n + 1 /\ s2c'[v][i] = resp
      <4>1. CASE v # w
        BY <3>2, <4>1
      <4>2. CASE v = w
        <5>1. i \in 1 .. n + 1
          BY <3>2, <4>2
        <5>2. (i \in 1 .. n /\ i # n + 1) \/ i = n + 1
          BY <5>1
        <5> QED BY <3>2, <4>2, <5>2
      <4> QED BY <4>1, <4>2
    <3>4. s \in DOMAIN messages /\ messages[s] = r
      BY <1>a, <1>c, <2>4 DEF Unhandled
    <3>5. \A k \in DOMAIN Outgoing : Outgoing[k].seq # s
      BY <1>a DEF OutgoingOK, Clash
    <3>6. \A g \in handling' : g.msg.seq # s
      BY <1>a, <1>h DEF HandlingOK, Clash
    <3>7. ASSUME NEW v \in Wire, NEW i \in DOMAIN s2c'[v], s2c'[v][i] # TransportErr
          PROVE  /\ Answers(s2c[v][i])'
                 /\ \A u \in Wire : \A j \in DOMAIN s2c'[u] :
                       s2c'[u][j].seq = s2c'[v][i].seq => u = v /\ j = i
                 /\ \A k \in DOMAIN Outgoing : Outgoing[k].seq # s2c'[v][i].seq
                 /\ \A g \in handling' : g.msg.seq # s2c'[v][i].seq
      <4>a. TransportErr.seq = 0 /\ 0 \notin DOMAIN messages
        BY DEF TransportErr, Shape
      <4>1. CASE v = w /\ i = n + 1
        <5>1. s2c'[v][i] = resp
          BY <4>1, <3>2
        <5>2. Answers(s2c[v][i])'
          BY <5>1, <3>4, <1>c, <1>d, <1>h DEF Answers
        <5>3. ASSUME NEW u \in Wire, NEW j \in DOMAIN s2c'[u], s2c'[u][j].seq = s
              PROVE  u = v /\ j = i
          BY <5>3, <4>1, <3>3, <2>1, <4>a, <1>c
        <5> QED BY <5>1, <5>2, <5>3, <3>5, <3>6, <1>c
      <4>2. CASE v # w \/ i # n + 1
        <5>1. i \in DOMAIN s2c[v] /\ s2c'[v][i] = s2c[v][i]
          BY <4>2, <3>3
        <5>2. PICK e : e = s2c[v][i]
          OBVIOUS
        <5>3. Answers(e) /\ (messages[e.seq] # Ping => messages[e.seq] # r) /\ e.seq # s
          BY <5>1, <5>2, <2>1, <2>2, <3>7 DEF ResponsesOK
        <5>4. Answers(e)'
          BY <5>3, <1>d, <1>h DEF Answers, Shape, Request
        <5>5. Answers(s2c[v][i])'
          BY <5>1, <5>2, <5>4 DEF Answers
        <5>6. ASSUME NEW u \in Wire, NEW j \in DOMAIN s2c'[u], s2c'[u][j].seq = e.seq
              PROVE  u = v /\ j = i
          <6>1. j \in DOMAIN s2c[u] /\ s2c'[u][j] = s2c[u][j]
            BY <5>6, <3>3, <5>3, <1>c
          <6> QED BY <6>1, <5>1, <5>2, <5>6, <3>7 DEF ResponsesOK
        <5>7. /\ \A k \in DOMAIN Outgoing : Outgoing[k].seq # e.seq
              /\ \A g \in handling' : g.msg.seq # e.seq
          BY <5>1, <5>2, <3>7, <1>h DEF ResponsesOK
        <5> QED BY <5>1, <5>2, <5>5, <5>6, <5>7
      <4> QED BY <4>1, <4>2
    <3>8. ~ failed'
      BY <1>h, <2>4
    <3>9. ASSUME NEW v \in Wire, NEW i \in DOMAIN s2c'[v]
          PROVE  /\ ~ failed'
                 /\ s2c'[v][i] # TransportErr =>
                       /\ Answers(s2c[v][i])'
                       /\ \A u \in Wire : \A j \in DOMAIN s2c'[u] :
                             s2c'[u][j].seq = s2c'[v][i].seq => u = v /\ j = i
                       /\ \A k \in DOMAIN Outgoing' : Outgoing'[k].seq # s2c'[v][i].seq
                       /\ \A g \in handling' : g.msg.seq # s2c'[v][i].seq
      BY <3>7, <3>8, <1>e
    <3> QED BY <3>9 DEF ResponsesOK
  <2> QED BY <2>3, <2>4
<1> QED BY <1>1, <1>2, <1>3, <1>4, <1>5, <1>6, <1>7, <1>8, <1>9

\* The block holds a value or the text of an error.
LEMMA EffectType ==
    ASSUME NEW r \in IO, NEW x \in Nat \cup {Torn}
    PROVE  Effect(r, x) \in Nat \cup {Torn}
BY DEF Effect

\* Both outcomes of a handler.
LEMMA ServerInv ==
    ASSUME IInv, NEW h \in handling, Handle(h) \/ HandleFails(h)
    PROVE  IInv'
<1>1. /\ h.msg.req \in Request /\ disk \in Nat \cup {Torn} /\ Error \in Int /\ 0 \in Int
      /\ Nat \cup {Torn} \subseteq Int
  BY DEF IInv, Shape, Message, Error, Torn
<1>2. h.msg.req # Ping => (IF h.torn THEN Torn ELSE Effect(h.msg.req, disk)) \in Nat \cup {Torn}
  BY <1>1, EffectType DEF Request
<1>3. CASE Handle(h)
  BY <1>1, <1>2, <1>3, HandledInv DEF Handle, Handled, monVars
<1>4. CASE HandleFails(h)
  BY <1>1, <1>2, <1>4, HandledInv DEF HandleFails, Handled, monVars
<1> QED BY <1>3, <1>4

-----------------------------------------------------------------------------
(* The invariant and what follows.                                         *)

\* A new connection satisfies the invariant.
LEMMA InitInv == Init => IInv
<1> SUFFICES ASSUME Init PROVE IInv
  OBVIOUS
<1> USE DEF Init
<1>1. TypeOK BY DEF TypeOK, Connected
<1>2. Shape
  <2>1. messages \in [DOMAIN messages -> Request] /\ DOMAIN messages = {}
    OBVIOUS
  <2>2. s2c \in [Wire -> Seq(Response)] /\ requests \in Seq(Request) /\ send \in Seq(Message)
    OBVIOUS
  <2>3. answer \in [IO -> Int] /\ applied \in [IO -> Nat \cup {Torn, None}]
    BY DEF None
  <2> QED BY <2>1, <2>2, <2>3 DEF Shape, Connected
<1>3. InflightExact BY FS_EmptySet DEF InflightExact
<1>4. UncalledOK /\ QueueOK /\ PendingOK
  BY DEF UncalledOK, QueueOK, PendingOK, Fresh
<1>5. Outgoing = <<>> BY DEF Outgoing
<1>6. OutgoingOK /\ HandlingOK /\ ResponsesOK
  BY <1>5 DEF OutgoingOK, HandlingOK, ResponsesOK
<1> QED BY <1>1, <1>2, <1>3, <1>4, <1>6 DEF IInv

\* Every step keeps it.
LEMMA NextInv == IInv /\ [Next]_vars => IInv'
<1> SUFFICES ASSUME IInv, [Next]_vars PROVE IInv'
  OBVIOUS
<1>1. ASSUME NEW r \in IO, Call(r) PROVE IInv'
  BY <1>1, CallInv
<1>2. CASE LoopRequest BY <1>2, LoopRequestInv
<1>3. CASE LoopSend BY <1>3, LoopSendInv
<1>4. CASE LoopTick BY <1>4, LoopTickInv
<1>5. ASSUME NEW w \in Wire, LoopResponse(w) PROVE IInv'
  BY <1>5, LoopResponseInv
<1>6. ASSUME NEW w \in Wire, WriterTakes(w) PROVE IInv'
  BY <1>6, WriterTakesInv
<1>7. ASSUME NEW h \in handling, Handle(h) \/ HandleFails(h) PROVE IInv'
  BY <1>7, ServerInv
<1>8. CASE PingStart BY <1>8, PingStartInv
<1>9. CASE \/ LoopEnd \/ MonitorFails \/ StopMonitoring \/ MonitorStops \/ Close
           \/ TimePasses \/ \E w \in Wire : Break(w)
  BY <1>9, WiresInv
<1>10. CASE UNCHANGED vars
  BY <1>10, NoResponse, OnlyErrorsInv
     DEF vars, clientVars, serverVars, monVars, IInv, TypeOK
<1> QED BY <1>1, <1>2, <1>3, <1>4, <1>5, <1>6, <1>7, <1>8, <1>9, <1>10 DEF Next, ClientStep

\* Every request of a client is in one place: on a channel, on a wire, at the replica,
\* answered, or given up with an error.
THEOREM Inductive == Spec => []IInv
BY InitInv, NextInv, PTL DEF Spec

\* The channels, the pending requests and the counters of a client stay well formed, and
\* the channel send within its capacity.
THEOREM WellFormed == Spec => []TypeOK
BY Inductive, PTL DEF IInv

\* ioInflight, which handleRequest, handleResponse and handleClientError keep, is the
\* number of pending reads, writes and unmaps, whatever fails: the r/w timeout depends
\* on nothing else.
THEOREM InflightCounted == Spec => []InflightExact
BY Inductive, PTL DEF IInv

-----------------------------------------------------------------------------
(* The steps of a connection are steps of BlockService, or invisible.      *)

\* Operations in progress that are answered with an error fail.
LEMMA ErrorReply ==
    ASSUME Shape, NEW rs, rs \cap IO \subseteq called,
           \A r \in rs \cap IO : answer[r] = None,
           Reply(rs, Error), UNCHANGED <<called, applied, disk>>
    PROVE  [B!Next]_(B!vars)
<1>1. answer' = [r \in IO |-> IF r \in rs \cap IO THEN Error ELSE answer[r]]
  BY DEF Reply
<1>2. answer \in [IO -> Int]
  BY DEF Shape
<1>3. CASE rs \cap IO = {}
  <2>1. answer' = answer
    BY <1>1, <1>2, <1>3
  <2> QED BY <2>1 DEF B!vars
<1>4. CASE rs \cap IO # {}
  <2>1. B!Fail(rs \cap IO)
    BY <1>1, <1>4 DEF B!Fail, B!None, B!Error, None, Error
  <2>2. rs \cap IO \in SUBSET IO
    OBVIOUS
  <2> QED BY <2>1, <2>2 DEF B!Next
<1> QED BY <1>3, <1>4

\* handleClientError fails every pending operation at once.
LEMMA ClientErrorStep ==
    ASSUME IInv, handleClientError, UNCHANGED <<called, applied, disk>>
    PROVE  [B!Next]_(B!vars)
<1>1. PICK rs : rs = {messages[s] : s \in DOMAIN messages}
  OBVIOUS
<1>2. rs \cap IO \subseteq called /\ \A r \in rs \cap IO : answer[r] = None
  BY <1>1 DEF IInv, PendingOK
<1>3. Reply(rs, Error)
  BY <1>1 DEF handleClientError
<1> QED BY <1>2, <1>3, ErrorReply DEF IInv

\* A request after clientError fails; sending one is invisible.
LEMMA LoopRequestStep ==
    ASSUME IInv, LoopRequest
    PROVE  [B!Next]_(B!vars)
<1>1. PICK r : r = Head(requests)
  OBVIOUS
<1>2. CASE failed
  <2>1. requests \in Seq(Request) /\ 1 \in DOMAIN requests /\ requests[1] = r
    BY <1>1 DEF IInv, Shape, LoopRequest
  <2>2. {r} \cap IO \subseteq called /\ \A q \in {r} \cap IO : answer[q] = None
    BY <2>1 DEF IInv, QueueOK, Fresh
  <2>3. Reply({r}, Error) /\ UNCHANGED <<called, applied, disk>>
    BY <1>1, <1>2 DEF LoopRequest, serverVars
  <2> QED BY <2>2, <2>3, ErrorReply DEF IInv
<1>3. CASE ~ failed
  BY <1>3 DEF LoopRequest, serverVars, B!vars
<1> QED BY <1>2, <1>3

\* An answer ends the operation it belongs to: with what the replica did, or with an
\* error.
LEMMA LoopResponseStep ==
    ASSUME IInv, NEW w \in Wire, LoopResponse(w)
    PROVE  [B!Next]_(B!vars)
<1>1. PICK resp : resp = Head(s2c[w])
  OBVIOUS
<1>2. CASE resp = TransportErr
  BY <1>1, <1>2, ClientErrorStep DEF LoopResponse, serverVars
<1>3. CASE resp # TransportErr
  <2>1. PICK r : r = messages[resp.seq]
    OBVIOUS
  <2>2. s2c[w] \in Seq(Response) /\ 1 \in DOMAIN s2c[w] /\ s2c[w][1] = resp
    BY <1>1 DEF IInv, Shape, LoopResponse
  <2>3. /\ resp.seq \in DOMAIN messages /\ r \in Request
        /\ r # Ping => resp.val \in {Error, applied[r]} \ {None}
    BY <1>3, <2>1, <2>2 DEF IInv, ResponsesOK, Answers, Shape
  <2>4. {r} \cap IO \subseteq called /\ \A q \in {r} \cap IO : answer[q] = None
    BY <2>1, <2>3 DEF IInv, PendingOK
  <2>5. Reply({r}, resp.val) /\ UNCHANGED <<called, applied, disk>>
    BY <1>1, <1>3, <2>1 DEF LoopResponse, serverVars
  <2>6. answer \in [IO -> Int]
    BY DEF IInv, Shape
  <2>7. CASE r = Ping
    <3>1. answer' = answer
      BY <2>5, <2>6, <2>7 DEF Reply
    <3> QED BY <2>5, <3>1 DEF B!vars
  <2>8. CASE r # Ping /\ resp.val = Error
    BY <2>4, <2>5, <2>8, ErrorReply DEF IInv
  <2>9. CASE r # Ping /\ resp.val = applied[r] /\ resp.val # None
    <3>1. r \in IO
      BY <2>3, <2>9 DEF Request
    <3>2. answer' = [answer EXCEPT ![r] = applied[r]]
      BY <2>5, <2>6, <2>9, <3>1 DEF Reply
    <3>3. B!Succeed(r)
      BY <2>4, <2>5, <2>9, <3>1, <3>2 DEF B!Succeed, B!None, None
    <3> QED BY <3>1, <3>3 DEF B!Next
  <2> QED BY <2>3, <2>7, <2>8, <2>9
<1> QED BY <1>2, <1>3

\* A handler applies an operation once, torn only after the operation failed.
LEMMA ServerStep ==
    ASSUME IInv, NEW h \in handling, Handle(h) \/ HandleFails(h)
    PROVE  [B!Next]_(B!vars)
<1>1. UNCHANGED <<called, answer>>
  BY DEF Handle, HandleFails
<1>2. PICK r : r = h.msg.req
  OBVIOUS
<1>3. CASE UNCHANGED <<disk, applied>>
  BY <1>1, <1>3 DEF B!vars
<1>4. CASE /\ r # Ping /\ disk' = IF h.torn THEN Torn ELSE Effect(r, disk)
           /\ applied' = [applied EXCEPT ![r] = disk']
  <2>1. r \in IO
    BY <1>2, <1>4 DEF IInv, Shape, Message, Request
  <2>2. /\ r \in called /\ applied[r] = None
        /\ h.torn => answer[r] = Error
    BY <1>2, <1>4 DEF IInv, HandlingOK, Unhandled
  <2>3. CASE h.torn
    <3>1. B!ApplyTorn(r)
      BY <1>1, <1>4, <2>2, <2>3
         DEF B!ApplyTorn, B!None, B!Error, B!Torn, None, Error, Torn
    <3> QED BY <2>1, <3>1 DEF B!Next
  <2>4. CASE ~ h.torn
    <3>1. B!Apply(r)
      BY <1>1, <1>4, <2>2, <2>4 DEF B!Apply, B!None, None
    <3> QED BY <2>1, <3>1 DEF B!Next
  <2> QED BY <2>3, <2>4
<1> QED BY <1>2, <1>3, <1>4 DEF Handle, HandleFails

\* A data connection gives the controller what a backend promises: an operation takes
\* effect at most once, a success is reported after it took effect, and a read returns
\* what the block held, for any interleaving of loop, writers, readers, handlers and
\* monitor, and any faults.
THEOREM Refinement == Spec => RefinesBlockService
<1>1. Init => B!Init
  BY DEF Init, B!Init, None, B!None
<1>2. IInv /\ [Next]_vars => [B!Next]_(B!vars)
  <2> SUFFICES ASSUME IInv, [Next]_vars PROVE [B!Next]_(B!vars)
    OBVIOUS
  <2>1. ASSUME NEW r \in IO, Call(r) PROVE B!Next
    BY <2>1 DEF Call, serverVars, B!Next, B!Call
  <2>2. CASE LoopRequest
    BY <2>2, LoopRequestStep
  <2>3. CASE LoopTick
    BY <2>3, ClientErrorStep DEF LoopTick, serverVars
  <2>4. ASSUME NEW w \in Wire, LoopResponse(w) PROVE [B!Next]_(B!vars)
    BY <2>4, LoopResponseStep
  <2>5. ASSUME NEW h \in handling, Handle(h) \/ HandleFails(h) PROVE [B!Next]_(B!vars)
    BY <2>5, ServerStep
  <2>6. ASSUME NEW w \in Wire, WriterTakes(w) \/ Break(w) PROVE UNCHANGED B!vars
    BY <2>6 DEF WriterTakes, Break, serverVars, B!vars
  <2>7. CASE \/ LoopSend \/ LoopEnd \/ PingStart \/ MonitorFails \/ StopMonitoring
             \/ MonitorStops \/ Close \/ TimePasses
    BY <2>7 DEF LoopSend, LoopEnd, PingStart, MonitorFails, StopMonitoring, MonitorStops,
                Close, TimePasses, serverVars, B!vars
  <2>8. CASE UNCHANGED vars
    BY <2>8 DEF vars, serverVars, B!vars
  <2> QED BY <2>1, <2>2, <2>3, <2>4, <2>5, <2>6, <2>7, <2>8 DEF Next, ClientStep
<1> QED BY <1>1, <1>2, Inductive, PTL DEF Spec, RefinesBlockService, B!Spec
=============================================================================
