------------------------- MODULE HandshakeProofs -------------------------
(***************************************************************************)
(* Proofs about connection establishment for every set of other callers,   *)
(* every frame they may send, every deadline and strike limit, any skew of *)
(* the two configurations and an interrupt of either side at any point:    *)
(* type correctness, that both sides end up in the same session, that what *)
(* the worker tells its user is true, and that a rightly configured worker *)
(* is served.                                                              *)
(*                                                                         *)
(* The invariant follows PC2's one connection through its life (Conn): not *)
(* yet dialled, queued, served up to the hello, acknowledged, presented,   *)
(* joined, or dropped.  In each of them it says which frames are on their  *)
(* way, because that decides what a late reader will make of them.  The    *)
(* last part adds the clocks: the time the callers ahead of the worker can *)
(* still take against the time the worker has left.                        *)
(***************************************************************************)
EXTENDS Handshake, TLAPS

\* The frames that may be on their way to PC1.
Frame == StrangerFrame \cup {hello(conf)} \cup {caps(conf.version, t, conf.json2) : t \in Nat}

\* An abort says why: the reasons that are true of the two configurations.
TrueReason ==
  {r \in {"auth_failed", "version_mismatch", "capability_missing", "protocol_error"} :
     /\ r = "auth_failed" => ~conf.token
     /\ r = "version_mismatch" => ~conf.version
     /\ r = "capability_missing" => ~conf.json2}

\* What PC1 may have sent on a connection it closes again.
TrueReply == {hello_ack(t) : t \in Nat} \cup {abort(r) : r \in TrueReason}

TypeInv ==
  /\ TypeOK
  /\ toPC1 \in [Caller -> Seq(Frame)]
  /\ coord.cur # NoCaller <=> coord.pc \in {"hello", "caps", "done"}

-----------------------------------------------------------------------------
(* The other callers                                                       *)

\* A stranger's only frame is its hello: one that passed it has nothing more
\* to say, so it never gets through.
StrangerInv ==
  /\ \A s \in Stranger : s \notin spoke => toPC1[s] = << >>
  /\ \A s \in Stranger : Len(toPC1[s]) <= 1
  /\ coord.pc = "caps" /\ coord.cur # PC2 =>
       coord.cur \in spoke /\ toPC1[coord.cur] = << >>
  /\ coord.pc = "done" => coord.cur = PC2

-----------------------------------------------------------------------------
(* The worker's connection                                                 *)

InBacklog == \E i \in 1..Len(backlog) : backlog[i] = PC2

\* The worker calls once.
CalledOnce ==
  \A i, j \in 1..Len(backlog) : backlog[i] = PC2 /\ backlog[j] = PC2 => i = j

\* The hello of the worker passes the checks of PC1.
Through == conf.version /\ conf.token /\ conf.claims

\* The worker has failed, for want of an answer in time.
Fell == worker.pc \in {"failed", "aborted"}
Late == Fell /\ worker.err = "timeout"

\* No connection was made.
NotCalled ==
  /\ worker.pc \in {"dial", "wait"} \/ (Fell /\ worker.err = "dial")
  /\ ~InBacklog /\ coord.cur # PC2 /\ PC2 \notin shut
  /\ toPC1[PC2] = << >> /\ replies = << >>

\* The worker has said hello and PC1 has not read it.
Greeted ==
  /\ worker.pc = "ack" \/ Late
  /\ toPC1[PC2] = <<hello(conf)>> /\ replies = << >> /\ PC2 \notin shut

Queued == Greeted /\ InBacklog /\ coord.cur # PC2

\* PC1 serves the connection.
Serving(pc) == coord.pc = pc /\ coord.cur = PC2 /\ ~InBacklog /\ PC2 \notin shut

Greeting == Greeted /\ Serving("hello")

\* PC1 has acknowledged the hello.
Acked ==
  /\ Serving("caps") /\ Through
  /\ worker.pc = "ack" \/ Late
  /\ toPC1[PC2] = << >> /\ replies = <<hello_ack(coord.testID)>>

\* The worker has read the acknowledgement and sent its capabilities.
Presented ==
  /\ Serving("caps") /\ Through
  /\ worker.pc = "caps" \/ Late
  /\ worker.testID = coord.testID
  /\ toPC1[PC2] = <<caps(conf.version, coord.testID, conf.json2)>> /\ replies = << >>

\* PC1 has accepted them and sent its own.
Joined ==
  /\ Serving("done") /\ Through /\ conf.json2
  /\ worker.testID = coord.testID
  /\ \/ /\ worker.pc = "caps" \/ Late
        /\ replies = <<caps(TRUE, coord.testID, conf.json1)>>
     \/ Fell /\ worker.err = "capability" /\ ~conf.json1
     \/ worker.pc = "done" /\ conf.json1

\* PC1 has closed the connection.
Dropped ==
  /\ PC2 \in shut /\ ~InBacklog /\ coord.cur # PC2
  /\ replies \in Seq(TrueReply)
  /\ worker.pc \in {"ack", "caps"} \/ Fell

Conn == NotCalled \/ Queued \/ Greeting \/ Acked \/ Presented \/ Joined \/ Dropped

\* What the worker says of the configurations is so.
ErrTrue ==
  /\ worker.err = "token_rejected" => ~conf.token
  /\ worker.err = "version" => ~conf.version
  /\ worker.err = "capability" => ~(conf.json1 /\ conf.json2)

HandInv == StrangerInv /\ CalledOnce /\ Conn /\ ErrTrue

-----------------------------------------------------------------------------
(* Lemmas about the operators of the model                                 *)

CoordState ==
  [pc : {"start", "accept", "hello", "caps", "done", "failed", "aborted"},
   cur : Caller \cup {NoCaller}, left : Nat, total : Nat, strikes : Nat,
   retries : Nat, testID : Nat, err : CoordError]
WorkerState ==
  [pc : {"dial", "wait", "ack", "caps", "done", "failed", "aborted"},
   left : Nat, budget : Nat, lag : Nat, testID : Nat, err : WorkerError]

\* The check of the first frame ends in one of these verdicts.
LEMMA HelloErrors ==
  ASSUME NEW f
  PROVE  HelloError(f) \in {"protocol", "version", "auth", "none"}
BY DEF HelloError

\* The check of the second frame ends in one of these verdicts.
LEMMA CapsErrors ==
  ASSUME NEW f, NEW t
  PROVE  CapsError(f, t) \in {"protocol", "version", "capability", "none"}
BY DEF CapsError

\* What the worker makes of a reply is one of its errors.
LEMMA ReplyErrors ==
  ASSUME NEW f, NEW want
  PROVE  ReplyError(f, want) \in WorkerError
<1>1. MapAbort(f.reason) \in {"token_rejected", "version", "capability", "peer_aborted"}
  BY DEF MapAbort
<1>2. ReplyError(f, want) \in {MapAbort(f.reason), "version", "protocol", "none"}
  BY DEF ReplyError
<1>3. QED BY <1>1, <1>2 DEF WorkerError

\* A failed handshake leaves the coordinator without a connection, accepting
\* again or ended.
LEMMA StrikeType ==
  ASSUME coord \in CoordState, NEW err \in CoordError
  PROVE  /\ Strike(err) \in CoordState
         /\ Strike(err).cur = NoCaller
         /\ Strike(err).pc \in {"accept", "failed", "aborted"}
<1> DEFINE n == coord.strikes + IF err = "auth" THEN 1 ELSE 0
           m == coord.retries + IF err \in Retryable \ {"auth"} THEN 1 ELSE 0
           over == \/ err \notin Retryable
                   \/ err = "auth" /\ n >= maxAuthStrikes
                   \/ err # "auth" /\ m >= maxHandshakeRetries
           q == IF over THEN Verdict("PC1") ELSE "accept"
<1>1. n \in Nat /\ m \in Nat BY DEF CoordState
<1>2. q \in {"accept", "failed", "aborted"} BY DEF Verdict
<1>3. Strike(err) = [coord EXCEPT !.pc = q, !.cur = NoCaller, !.left = 0, !.total = 0,
                                  !.testID = 0, !.strikes = n, !.retries = m, !.err = err]
  BY DEF Strike
<1> HIDE DEF n, m, over, q
<1>4. NoCaller \in Caller \cup {NoCaller} /\ 0 \in Nat
      /\ q \in {"start", "accept", "hello", "caps", "done", "failed", "aborted"}
  BY <1>2
<1>5. Strike(err) \in CoordState BY <1>1, <1>3, <1>4 DEF CoordState
<1>6. Strike(err).cur = NoCaller /\ Strike(err).pc = q BY <1>3 DEF CoordState
<1>7. QED BY <1>2, <1>5, <1>6

\* Counting down stays in the naturals.
LEMMA DownType ==
  ASSUME NEW n \in Nat
  PROVE  Down(n) \in Nat
BY DEF Down

-----------------------------------------------------------------------------
(* Type correctness                                                        *)

LEMMA TypeInit == Init => TypeInv
<1> SUFFICES ASSUME Init PROVE TypeInv OBVIOUS
<1>1. conf \in Conf BY DEF Init
<1>2. fromPeer \subseteq Caller BY DEF Init, Caller
<1>3. coord \in CoordState /\ coord.cur = NoCaller /\ coord.pc = "start"
  BY DEF Init, CoordState, CoordError
<1>4. worker \in WorkerState BY TimeAssumption DEF Init, WorkerState, WorkerError
<1>5. backlog \in Seq(Caller) /\ toPC1 \in [Caller -> Seq(Frame)] BY DEF Init
<1>6. /\ listener \in {"unopened", "open", "closed"} /\ shut \subseteq Caller
      /\ gone \subseteq Caller /\ spoke \subseteq Stranger /\ cancelled \subseteq {"PC1", "PC2"}
  BY DEF Init
<1>7. QED BY <1>1, <1>2, <1>3, <1>4, <1>5, <1>6 DEF TypeInv, TypeOK, CoordState, WorkerState

\* The types in the form the steps use them.
LEMMA Types ==
  ASSUME TypeInv
  PROVE  /\ conf \in Conf /\ backlog \in Seq(Caller)
         /\ coord \in CoordState /\ worker \in WorkerState
         /\ toPC1 \in [Caller -> Seq(Frame)]
         /\ shut \subseteq Caller /\ gone \subseteq Caller
         /\ PC2 \in Caller /\ NoCaller \notin Caller /\ PC2 # NoCaller
         /\ backlog # << >> => Head(backlog) \in Caller /\ Tail(backlog) \in Seq(Caller)
         /\ coord.pc \in {"hello", "caps"} => coord.cur \in Caller
BY CallerAssumption DEF TypeInv, TypeOK, CoordState, WorkerState, Caller

\* Closing the listener keeps the types.
LEMMA CloseTypes ==
  ASSUME TypeInv, NEW extra \in SUBSET Caller, CloseListener(extra)
  PROVE  listener' = "closed" /\ backlog' \in Seq(Caller) /\ shut' \subseteq Caller
<1>1. backlog \in Seq(Caller) /\ shut \subseteq Caller BY Types
<1>2. {backlog[i] : i \in DOMAIN backlog} \subseteq Caller BY <1>1
<1>3. QED BY <1>1, <1>2 DEF CloseListener

\* A failed handshake keeps the types.
LEMMA FailTypes ==
  ASSUME TypeInv, coord.pc \in {"hello", "caps"}, NEW err \in CoordError, NEW farewell,
         HandshakeFails(err, farewell)
  PROVE  TypeInv'
<1>1. coord' \in CoordState /\ coord'.cur = NoCaller
      /\ coord'.pc \in {"accept", "failed", "aborted"}
  BY Types, StrikeType DEF HandshakeFails
<1>2. coord.cur \in Caller BY Types
<1>3. listener' \in {"unopened", "open", "closed"} /\ backlog' \in Seq(Caller)
      /\ shut' \subseteq Caller
  <2>1. CASE Ended(coord')
    <3>1. CloseListener({coord.cur}) BY <2>1 DEF HandshakeFails
    <3>2. QED BY <3>1, <1>2, CloseTypes
  <2>2. CASE ~Ended(coord')
    BY <2>2, <1>2 DEF HandshakeFails, TypeInv, TypeOK
  <2>3. QED BY <2>1, <2>2
<1>4. Frame' = Frame BY DEF HandshakeFails, Frame
<1>5. toPC1' \in [Caller -> Seq(Frame)]
  BY <1>2, Types DEF HandshakeFails
<1>6. UNCHANGED <<conf, fromPeer, worker, gone, spoke, cancelled>> BY DEF HandshakeFails
<1>7. QED BY <1>1, <1>3, <1>4, <1>5, <1>6 DEF TypeInv, TypeOK, CoordState

\* A step of the coordinator keeps the types.
LEMMA CoordTypes ==
  ASSUME TypeInv, CoordStep
  PROVE  TypeInv'
<1>1. /\ coord \in CoordState /\ coord.left \in Nat /\ coord.total \in Nat
      /\ coord.strikes \in Nat /\ coord.retries \in Nat
  BY Types DEF CoordState
<1>2. ASSUME conf' = conf PROVE Frame' = Frame BY <1>2 DEF Frame
<1>3. CASE Listen
  <2>1. coord' \in CoordState /\ coord'.cur = coord.cur /\ coord'.pc = "accept"
    BY <1>1, <1>3 DEF Listen, CoordState
  <2>2. conf' = conf /\ coord.pc = "start" BY <1>3 DEF Listen
  <2>3. QED BY <2>1, <2>2, <1>2, <1>3 DEF Listen, TypeInv, TypeOK, CoordState
<1>4. CASE Watch
  <2>1. CloseListener({}) /\ conf' = conf BY <1>4 DEF Watch
  <2>2. listener' = "closed" /\ backlog' \in Seq(Caller) /\ shut' \subseteq Caller
    BY <2>1, CloseTypes
  <2>3. QED BY <2>1, <2>2, <1>2, <1>4 DEF Watch, TypeInv, TypeOK
<1>5. CASE AcceptForeign
  <2>1. /\ backlog' \in Seq(Caller) /\ shut' \subseteq Caller /\ conf' = conf
    BY <1>5, Types DEF AcceptForeign
  <2>2. QED BY <2>1, <1>2, <1>5 DEF AcceptForeign, TypeInv, TypeOK
<1>6. CASE AcceptPeer
  <2> DEFINE h == Head(backlog)
             l == HelloDeadline
  <2>1. h \in Caller /\ h # NoCaller /\ backlog' \in Seq(Caller) /\ conf' = conf
    BY <1>6, Types DEF AcceptPeer
  <2>2. l \in Nat /\ HandshakeTimeout \in Nat BY TimeAssumption DEF HelloDeadline
  <2>3. coord' = [coord EXCEPT !.pc = "hello", !.cur = h, !.left = l,
                                !.total = HandshakeTimeout]
    BY <1>6 DEF AcceptPeer
  <2> HIDE DEF h, l
  <2>4. coord' \in CoordState /\ coord'.cur = h /\ coord'.pc = "hello"
    BY <2>1, <2>2, <2>3, <1>1 DEF CoordState
  <2>5. QED BY <2>1, <2>4, <1>2, <1>6 DEF AcceptPeer, TypeInv, TypeOK, CoordState
<1>7. CASE AcceptFails
  <2>1. Verdict("PC1") \in {"failed", "aborted"} /\ "accept" \in CoordError
    BY DEF Verdict, CoordError
  <2>2. coord' \in CoordState /\ coord'.cur = coord.cur
        /\ coord'.pc \in {"failed", "aborted"} /\ coord.pc = "accept" /\ conf' = conf
    BY <2>1, <1>1, <1>7 DEF AcceptFails, CoordState
  <2>3. QED BY <2>2, <1>2, <1>7 DEF AcceptFails, TypeInv, TypeOK, CoordState
<1>8. ASSUME coord.pc \in {"hello", "caps"} PROVE coord.cur \in Caller
  BY <1>8, Types
<1>9. CASE ReadHello
  <2> DEFINE f == Head(toPC1[coord.cur])
             e == HelloError(f)
  <2>1. coord.pc = "hello" /\ toPC1[coord.cur] # << >> /\ coord.cur \in Caller
    BY <1>8, <1>9 DEF ReadHello, Readable
  <2>2. e \in CoordError BY HelloErrors DEF CoordError
  <2>3. \/ HandshakeFails(e, <<abort(AbortReason(e))>>)
        \/ /\ coord' = [coord EXCEPT !.pc = "caps", !.left = coord.total, !.testID = newTestID]
           /\ toPC1' = [toPC1 EXCEPT ![coord.cur] = Tail(toPC1[coord.cur])]
           /\ UNCHANGED <<conf, fromPeer, listener, backlog, worker, shut, gone, spoke,
                          cancelled>>
    BY <1>9 DEF ReadHello
  <2> HIDE DEF e
  <2>4. CASE HandshakeFails(e, <<abort(AbortReason(e))>>)
    BY <2>1, <2>2, <2>4, FailTypes
  <2>5. CASE /\ coord' = [coord EXCEPT !.pc = "caps", !.left = coord.total,
                                       !.testID = newTestID]
             /\ toPC1' = [toPC1 EXCEPT ![coord.cur] = Tail(toPC1[coord.cur])]
             /\ UNCHANGED <<conf, fromPeer, listener, backlog, worker, shut, gone, spoke,
                            cancelled>>
    <3>1. newTestID \in Nat BY <1>1 DEF newTestID
    <3>2. coord' \in CoordState /\ coord'.cur = coord.cur /\ coord'.pc = "caps"
      BY <3>1, <2>5, <1>1 DEF CoordState
    <3>3. toPC1' \in [Caller -> Seq(Frame)]
      <4>1. toPC1[coord.cur] \in Seq(Frame) BY <2>1, Types
      <4>2. Tail(toPC1[coord.cur]) \in Seq(Frame) BY <4>1, <2>1
      <4>3. QED BY <4>2, <2>5, Types
    <3>4. QED BY <3>2, <3>3, <2>1, <2>5, <1>2 DEF TypeInv, TypeOK, CoordState
  <2>6. QED BY <2>3, <2>4, <2>5
<1>10. CASE ReadCapabilities
  <2> DEFINE f == Head(toPC1[coord.cur])
             e == CapsError(f, coord.testID)
  <2>1. coord.pc = "caps" /\ toPC1[coord.cur] # << >> /\ coord.cur \in Caller
    BY <1>8, <1>10 DEF ReadCapabilities, Readable
  <2>2. e \in CoordError /\ "protocol" \in CoordError BY CapsErrors DEF CoordError
  <2>3. \/ HandshakeFails(e, <<abort(AbortReason(e))>>)
        \/ HandshakeFails("protocol", << >>)
        \/ /\ coord' = [coord EXCEPT !.pc = "done", !.left = 0, !.total = 0]
           /\ toPC1' = [toPC1 EXCEPT ![coord.cur] = Tail(toPC1[coord.cur])]
           /\ CloseListener({})
           /\ UNCHANGED <<conf, fromPeer, worker, gone, spoke, cancelled>>
    BY <1>10 DEF ReadCapabilities
  <2> HIDE DEF e
  <2>4. CASE \/ HandshakeFails(e, <<abort(AbortReason(e))>>)
             \/ HandshakeFails("protocol", << >>)
    BY <2>1, <2>2, <2>4, FailTypes
  <2>5. CASE /\ coord' = [coord EXCEPT !.pc = "done", !.left = 0, !.total = 0]
             /\ toPC1' = [toPC1 EXCEPT ![coord.cur] = Tail(toPC1[coord.cur])]
             /\ CloseListener({})
             /\ UNCHANGED <<conf, fromPeer, worker, gone, spoke, cancelled>>
    <3>1. coord' \in CoordState /\ coord'.cur = coord.cur /\ coord'.pc = "done"
      BY <2>5, <1>1 DEF CoordState
    <3>2. toPC1' \in [Caller -> Seq(Frame)]
      <4>1. toPC1[coord.cur] \in Seq(Frame) BY <2>1, Types
      <4>2. Tail(toPC1[coord.cur]) \in Seq(Frame) BY <4>1, <2>1
      <4>3. QED BY <4>2, <2>5, Types
    <3>3. listener' = "closed" /\ backlog' \in Seq(Caller) /\ shut' \subseteq Caller
      BY <2>5, CloseTypes
    <3>4. QED BY <3>1, <3>2, <3>3, <2>1, <2>5, <1>2 DEF TypeInv, TypeOK, CoordState
  <2>6. QED BY <2>3, <2>4, <2>5
<1>11. CASE ReadEOF \/ ReadTimeout
  <2>1. "protocol" \in CoordError /\ "timeout" \in CoordError BY DEF CoordError
  <2>2. QED BY <2>1, <1>11, FailTypes DEF ReadEOF, ReadTimeout
<1>12. QED
  BY <1>3, <1>4, <1>5, <1>6, <1>7, <1>9, <1>10, <1>11 DEF CoordStep

\* A worker that ends keeps its type.
LEMMA WorkerEndsType ==
  ASSUME TypeInv, NEW err \in WorkerError, WorkerEnds(err)
  PROVE  /\ worker' \in WorkerState
         /\ worker'.pc \in {"failed", "aborted"} /\ worker'.err = err
         /\ worker'.testID = worker.testID
<1>1. Verdict("PC2") \in {"failed", "aborted"} BY DEF Verdict
<1>2. worker \in WorkerState BY Types
<1>3. QED BY <1>1, <1>2 DEF WorkerEnds, WorkerState

\* An acknowledgement on its way to a waiting worker carries a test ID.
LEMMA AckFacts ==
  ASSUME TypeInv, Conn, worker.pc = "ack", replies # << >>
  PROVE  /\ \/ Acked /\ Head(replies) = hello_ack(coord.testID) /\ Tail(replies) = << >>
            \/ Dropped /\ Head(replies) \in TrueReply /\ Tail(replies) \in Seq(TrueReply)
         /\ Head(replies).kind = "hello_ack" => Head(replies).testID \in Nat
<1>1. Acked \/ Dropped
  BY DEF Conn, NotCalled, Queued, Greeted, Greeting, Presented, Joined, Late, Fell
<1>2. coord.testID \in Nat BY Types DEF CoordState
<1>3. CASE Acked
  <2>1. Head(replies) = hello_ack(coord.testID) /\ Tail(replies) = << >>
    BY <1>3 DEF Acked
  <2>2. QED BY <2>1, <1>2, <1>3 DEF hello_ack
<1>4. CASE Dropped
  <2>1. Head(replies) \in TrueReply /\ Tail(replies) \in Seq(TrueReply)
    BY <1>4 DEF Dropped
  <2>2. \A f \in TrueReply : f.kind = "hello_ack" => f.testID \in Nat
    BY DEF TrueReply, hello_ack, abort
  <2>3. QED BY <2>1, <2>2, <1>4
<1>5. QED BY <1>1, <1>3, <1>4

\* A step of the worker keeps the types.
LEMMA WorkerTypes ==
  ASSUME TypeInv, Conn, WorkerStep
  PROVE  TypeInv'
<1>1. worker \in WorkerState /\ PC2 \in Caller BY Types
<1>2. UNCHANGED <<conf, fromPeer, listener, coord, shut, spoke, cancelled>>
  BY DEF WorkerStep, DialSucceeds, DialFails, DialAgain, ReadHelloAck, ReadPeerCapabilities,
         WorkerGivesUp, WorkerFails
<1>3. Frame' = Frame BY <1>2 DEF Frame
<1>4. ASSUME worker' \in WorkerState, backlog' \in Seq(Caller), gone' \subseteq Caller,
             toPC1' \in [Caller -> Seq(Frame)]
      PROVE  TypeInv'
  BY <1>2, <1>3, <1>4 DEF TypeInv, TypeOK, WorkerState
<1>5. ASSUME NEW err \in WorkerError, NEW rest, WorkerFails(err, rest) PROVE TypeInv'
  BY <1>1, <1>4, <1>5, WorkerEndsType, Types DEF WorkerFails
<1>6. "dial" \in WorkerError /\ "protocol" \in WorkerError /\ "capability" \in WorkerError
      /\ "peer_aborted" \in WorkerError /\ "timeout" \in WorkerError
  BY DEF WorkerError
<1>7. ASSUME NEW f \in Frame, toPC1' = [toPC1 EXCEPT ![PC2] = Append(@, f)]
      PROVE  toPC1' \in [Caller -> Seq(Frame)]
  BY <1>1, <1>7, Types
<1>8. CASE DialSucceeds
  <2>1. HandshakeTimeout \in Nat BY TimeAssumption
  <2>2. worker' \in WorkerState BY <2>1, <1>1, <1>8 DEF DialSucceeds, WorkerState
  <2>3. hello(conf) \in Frame BY DEF Frame
  <2>4. toPC1' \in [Caller -> Seq(Frame)] BY <2>3, <1>7, <1>8 DEF DialSucceeds
  <2>5. backlog' \in Seq(Caller) BY <1>1, <1>8, Types DEF DialSucceeds
  <2>6. QED BY <2>2, <2>4, <2>5, <1>4, <1>8, Types DEF DialSucceeds
<1>9. CASE DialFails
  <2>1. worker' \in WorkerState
    <3>1. CASE WorkerEnds("dial") BY <3>1, <1>6, WorkerEndsType
    <3>2. CASE worker' = [worker EXCEPT !.pc = "wait", !.left = dialRetryDelay]
      BY <3>2, <1>1, TimeAssumption DEF WorkerState
    <3>3. QED BY <3>1, <3>2, <1>9 DEF DialFails
  <2>2. QED BY <2>1, <1>4, <1>9, Types DEF DialFails
<1>10. CASE DialAgain
  <2>1. worker' \in WorkerState
    <3>1. CASE WorkerEnds("dial") BY <3>1, <1>6, WorkerEndsType
    <3>2. CASE worker' = [worker EXCEPT !.pc = "dial"]
      BY <3>2, <1>1 DEF WorkerState
    <3>3. QED BY <3>1, <3>2, <1>10 DEF DialAgain
  <2>2. QED BY <2>1, <1>4, <1>10, Types DEF DialAgain
<1>11. CASE WorkerGivesUp BY <1>5, <1>6, <1>11 DEF WorkerGivesUp
<1>12. ASSUME NEW f, NEW want PROVE ReplyError(f, want) \in WorkerError
  BY ReplyErrors
<1>13. CASE ReadPeerCapabilities
  <2>1. CASE worker' = [worker EXCEPT !.pc = "done", !.left = 0]
             /\ UNCHANGED <<backlog, gone, toPC1>>
    <3>1. worker' \in WorkerState BY <2>1, <1>1 DEF WorkerState
    <3>2. QED BY <3>1, <2>1, <1>4, Types
  <2>2. QED BY <2>1, <1>5, <1>6, <1>12, <1>13 DEF ReadPeerCapabilities
<1>14. CASE ReadHelloAck
  <2> DEFINE f == Head(replies)
             t == f.testID
             e == ReplyError(f, "hello_ack")
  <2>1. worker.pc = "ack" /\ replies # << >> BY <1>14 DEF ReadHelloAck, WorkerReadable
  <2>2. \/ WorkerFails(e, Tail(replies))
        \/ /\ e = "none" /\ worker' = [worker EXCEPT !.pc = "caps", !.testID = t]
           /\ toPC1' = [toPC1 EXCEPT ![PC2] =
                          Append(@, caps(conf.version, t, conf.json2))]
           /\ UNCHANGED <<backlog, gone>>
    BY <1>14 DEF ReadHelloAck
  <2>3. e = "none" => f.kind = "hello_ack"
    BY DEF ReplyError, MapAbort
  <2>4. f.kind = "hello_ack" => t \in Nat BY <2>1, AckFacts
  <2>5. e \in WorkerError BY <1>12
  <2> HIDE DEF e, t
  <2>6. CASE WorkerFails(e, Tail(replies)) BY <2>5, <2>6, <1>5
  <2>7. CASE /\ e = "none" /\ worker' = [worker EXCEPT !.pc = "caps", !.testID = t]
             /\ toPC1' = [toPC1 EXCEPT ![PC2] =
                            Append(@, caps(conf.version, t, conf.json2))]
             /\ UNCHANGED <<backlog, gone>>
    <3>1. t \in Nat BY <2>3, <2>4, <2>7
    <3>2. worker' \in WorkerState BY <3>1, <2>7, <1>1 DEF WorkerState
    <3>3. caps(conf.version, t, conf.json2) \in Frame BY <3>1 DEF Frame
    <3>4. toPC1' \in [Caller -> Seq(Frame)] BY <3>3, <2>7, <1>7
    <3>5. QED BY <3>2, <3>4, <2>7, <1>4, Types
  <2>8. QED BY <2>2, <2>6, <2>7
<1>15. QED
  BY <1>8, <1>9, <1>10, <1>11, <1>13, <1>14 DEF WorkerStep

\* The environment keeps the types.
LEMMA EnvTypes ==
  ASSUME TypeInv,
         \/ Tick
         \/ \E s \in Stranger : StrangerConnects(s) \/ StrangerLeaves(s)
         \/ \E s \in Stranger, f \in StrangerFrame : StrangerSends(s, f)
         \/ \E side \in {"PC1", "PC2"} : Cancel(side)
         \/ UNCHANGED vars
  PROVE  TypeInv'
<1>1. conf' = conf
  BY DEF Tick, StrangerConnects, StrangerLeaves, StrangerSends, Cancel, vars
<1>2. Frame' = Frame BY <1>1 DEF Frame
<1>3. CASE Tick
  <2> DEFINE l == Down(coord.left)
             t == Down(coord.total)
             m == Down(worker.left)
             b == IF worker.pc \in {"dial", "wait"} THEN Down(worker.budget) ELSE worker.budget
             g == IF Lagging THEN worker.lag + 1 ELSE worker.lag
  <2>1. coord \in CoordState /\ worker \in WorkerState BY Types
  <2>2. l \in Nat /\ t \in Nat /\ m \in Nat /\ b \in Nat /\ g \in Nat
    BY <2>1, DownType DEF CoordState, WorkerState
  <2>3. /\ coord' = [coord EXCEPT !.left = l, !.total = t]
        /\ worker' = [worker EXCEPT !.left = m, !.lag = g, !.budget = b]
    BY <2>1, <1>3 DEF Tick, CoordState, WorkerState
  <2> HIDE DEF l, t, m, b, g
  <2>4. coord' \in CoordState /\ coord'.pc = coord.pc /\ coord'.cur = coord.cur
    BY <2>1, <2>2, <2>3 DEF CoordState
  <2>5. worker' \in WorkerState BY <2>1, <2>2, <2>3 DEF WorkerState
  <2>6. QED BY <2>4, <2>5, <1>2, <1>3 DEF Tick, TypeInv, TypeOK, CoordState, WorkerState
<1>4. ASSUME NEW s \in Stranger, StrangerConnects(s) PROVE TypeInv'
  <2>1. backlog' \in Seq(Caller) BY <1>4, Types DEF StrangerConnects, Caller
  <2>2. QED BY <2>1, <1>2, <1>4 DEF StrangerConnects, TypeInv, TypeOK
<1>5. ASSUME NEW s \in Stranger, StrangerLeaves(s) PROVE TypeInv'
  BY <1>2, <1>5 DEF StrangerLeaves, TypeInv, TypeOK, Caller
<1>6. ASSUME NEW s \in Stranger, NEW f \in StrangerFrame, StrangerSends(s, f) PROVE TypeInv'
  <2>1. f \in Frame /\ s \in Caller BY DEF Frame, Caller
  <2>2. toPC1' \in [Caller -> Seq(Frame)] BY <2>1, <1>6, Types DEF StrangerSends
  <2>3. QED BY <2>2, <1>2, <1>6 DEF StrangerSends, TypeInv, TypeOK
<1>7. ASSUME NEW side \in {"PC1", "PC2"}, Cancel(side) PROVE TypeInv'
  BY <1>2, <1>7 DEF Cancel, TypeInv, TypeOK
<1>8. CASE UNCHANGED vars BY <1>2, <1>8 DEF vars, TypeInv, TypeOK
<1>9. QED BY <1>3, <1>4, <1>5, <1>6, <1>7, <1>8

\* Every step keeps the types.
LEMMA TypeStep ==
  ASSUME TypeInv, Conn, [Next]_vars
  PROVE  TypeInv'
<1>1. CASE CoordStep BY <1>1, CoordTypes
<1>2. CASE WorkerStep BY <1>2, WorkerTypes
<1>3. QED BY <1>1, <1>2, EnvTypes DEF Next

-----------------------------------------------------------------------------
(* Strangers get no further than the hello                                 *)

\* A failed handshake leaves nobody with an acknowledged hello.
LEMMA FailStrangers ==
  ASSUME TypeInv, StrangerInv, coord.pc \in {"hello", "caps"}, NEW err \in CoordError,
         NEW farewell, HandshakeFails(err, farewell)
  PROVE  StrangerInv'
<1>1. coord'.pc \in {"accept", "failed", "aborted"}
  BY Types, StrikeType DEF HandshakeFails
<1>2. /\ coord.cur \in Caller /\ toPC1 \in [Caller -> Seq(Frame)]
      /\ toPC1' = [toPC1 EXCEPT ![coord.cur] = << >>] /\ spoke' = spoke
  BY Types DEF HandshakeFails
<1>3. \A s \in Stranger : toPC1'[s] = toPC1[s] \/ toPC1'[s] = << >>
  BY <1>2 DEF Caller
<1>4. \A s \in Stranger : s \notin spoke' => toPC1'[s] = << >>
  BY <1>2, <1>3 DEF StrangerInv
<1>5. \A s \in Stranger : Len(toPC1'[s]) <= 1
  <2>1. Len(<< >>) <= 1 OBVIOUS
  <2>2. QED BY <2>1, <1>3 DEF StrangerInv
<1>6. QED BY <1>1, <1>4, <1>5 DEF StrangerInv

\* Every step keeps the strangers out.
LEMMA StrangerStep ==
  ASSUME TypeInv, StrangerInv, [Next]_vars
  PROVE  StrangerInv'
<1>1. coord \in CoordState /\ worker \in WorkerState /\ toPC1 \in [Caller -> Seq(Frame)]
      /\ PC2 \in Caller /\ PC2 \notin Stranger /\ Caller = Stranger \cup {PC2}
  BY Types, CallerAssumption DEF Caller
<1>2. ASSUME \A s \in Stranger : toPC1'[s] = toPC1[s], spoke' = spoke,
             \/ coord'.pc = coord.pc /\ coord'.cur = coord.cur
             \/ coord'.pc \notin {"caps", "done"}
      PROVE  StrangerInv'
  <2>1. coord.pc = "caps" /\ coord.cur # PC2 => coord.cur \in Stranger
    BY <1>1 DEF TypeInv, CoordState
  <2>2. QED BY <2>1, <1>2 DEF StrangerInv
<1>3. CASE Listen \/ Watch \/ AcceptForeign \/ AcceptPeer \/ AcceptFails
  <2>1. toPC1' = toPC1 /\ spoke' = spoke
    BY <1>3 DEF Listen, Watch, AcceptForeign, AcceptPeer, AcceptFails
  <2>2. \/ coord'.pc = coord.pc /\ coord'.cur = coord.cur
        \/ coord'.pc \notin {"caps", "done"}
    BY <1>1, <1>3
       DEF Listen, Watch, AcceptForeign, AcceptPeer, AcceptFails, Verdict, CoordState
  <2>3. QED BY <2>1, <2>2, <1>2
<1>4. ASSUME NEW err \in CoordError, NEW farewell, coord.pc \in {"hello", "caps"},
             HandshakeFails(err, farewell)
      PROVE  StrangerInv'
  BY <1>4, FailStrangers
<1>5. "protocol" \in CoordError /\ "timeout" \in CoordError BY DEF CoordError
<1>6. CASE ReadHello
  <2> DEFINE c == coord.cur
             e == HelloError(Head(toPC1[c]))
  <2>1. coord.pc = "hello" /\ toPC1[c] # << >> /\ c \in Caller
    BY <1>6, Types DEF ReadHello, Readable
  <2>2. e \in CoordError BY HelloErrors DEF CoordError
  <2>3. \/ HandshakeFails(e, <<abort(AbortReason(e))>>)
        \/ /\ coord' = [coord EXCEPT !.pc = "caps", !.left = coord.total, !.testID = newTestID]
           /\ toPC1' = [toPC1 EXCEPT ![c] = Tail(toPC1[c])]
           /\ spoke' = spoke
    BY <1>6 DEF ReadHello
  <2> HIDE DEF e
  <2>4. CASE HandshakeFails(e, <<abort(AbortReason(e))>>) BY <2>1, <2>2, <2>4, <1>4
  <2>5. CASE /\ coord' = [coord EXCEPT !.pc = "caps", !.left = coord.total,
                                       !.testID = newTestID]
             /\ toPC1' = [toPC1 EXCEPT ![c] = Tail(toPC1[c])]
             /\ spoke' = spoke
    <3>1. coord'.pc = "caps" /\ coord'.cur = c BY <2>5, <1>1 DEF CoordState
    <3>2. toPC1[c] \in Seq(Frame) BY <2>1, <1>1
    <3>3. c \in Stranger => c \in spoke /\ Tail(toPC1[c]) = << >>
      <4>1. SUFFICES ASSUME c \in Stranger PROVE c \in spoke /\ Tail(toPC1[c]) = << >>
        OBVIOUS
      <4>2. c \in spoke /\ Len(toPC1[c]) <= 1 BY <4>1, <2>1 DEF StrangerInv
      <4>3. QED BY <4>2, <3>2, <2>1
    <3>4. \A s \in Stranger : toPC1'[s] = toPC1[s] \/ (s = c /\ toPC1'[s] = << >>)
      BY <3>3, <2>5, <1>1
    <3>5. \A s \in Stranger : s \notin spoke' => toPC1'[s] = << >>
      BY <3>4, <2>5 DEF StrangerInv
    <3>6. \A s \in Stranger : Len(toPC1'[s]) <= 1
      <4>1. Len(<< >>) <= 1 OBVIOUS
      <4>2. QED BY <4>1, <3>4 DEF StrangerInv
    <3>7. c # PC2 => c \in spoke' /\ toPC1'[c] = << >>
      BY <3>3, <2>1, <2>5, <1>1
    <3>8. QED BY <3>1, <3>5, <3>6, <3>7 DEF StrangerInv
  <2>6. QED BY <2>3, <2>4, <2>5
<1>7. CASE ReadCapabilities
  <2> DEFINE c == coord.cur
             e == CapsError(Head(toPC1[c]), coord.testID)
  <2>1. coord.pc = "caps" /\ toPC1[c] # << >> /\ c \in Caller
    BY <1>7, Types DEF ReadCapabilities, Readable
  <2>2. e \in CoordError BY CapsErrors DEF CoordError
  <2>3. c = PC2 BY <2>1 DEF StrangerInv
  <2>4. \/ HandshakeFails(e, <<abort(AbortReason(e))>>)
        \/ HandshakeFails("protocol", << >>)
        \/ /\ coord' = [coord EXCEPT !.pc = "done", !.left = 0, !.total = 0]
           /\ toPC1' = [toPC1 EXCEPT ![c] = Tail(toPC1[c])]
           /\ spoke' = spoke
    BY <1>7 DEF ReadCapabilities
  <2> HIDE DEF e
  <2>5. CASE /\ coord' = [coord EXCEPT !.pc = "done", !.left = 0, !.total = 0]
             /\ toPC1' = [toPC1 EXCEPT ![c] = Tail(toPC1[c])]
             /\ spoke' = spoke
    <3>1. coord'.pc = "done" /\ coord'.cur = PC2 BY <2>3, <2>5, <1>1 DEF CoordState
    <3>2. \A s \in Stranger : toPC1'[s] = toPC1[s] BY <2>3, <2>5, <1>1
    <3>3. QED BY <3>1, <3>2, <2>5 DEF StrangerInv
  <2>6. QED BY <2>1, <2>2, <2>4, <2>5, <1>4, <1>5
<1>8. CASE ReadEOF \/ ReadTimeout BY <1>4, <1>5, <1>8 DEF ReadEOF, ReadTimeout
<1>9. CASE WorkerStep
  <2>1. coord' = coord /\ spoke' = spoke
    BY <1>9 DEF WorkerStep, DialSucceeds, DialFails, DialAgain, ReadHelloAck,
                ReadPeerCapabilities, WorkerGivesUp, WorkerFails
  <2>2. toPC1' = toPC1 \/ \E q : toPC1' = [toPC1 EXCEPT ![PC2] = q]
    BY <1>9 DEF WorkerStep, DialSucceeds, DialFails, DialAgain, ReadHelloAck,
                ReadPeerCapabilities, WorkerGivesUp, WorkerFails
  <2>3. \A s \in Stranger : toPC1'[s] = toPC1[s] BY <2>2, <1>1
  <2>4. QED BY <2>1, <2>3, <1>2
<1>10. CASE Tick
  <2>1. toPC1' = toPC1 /\ spoke' = spoke BY <1>10 DEF Tick
  <2>2. coord'.pc = coord.pc /\ coord'.cur = coord.cur BY <1>1, <1>10 DEF Tick, CoordState
  <2>3. QED BY <2>1, <2>2, <1>2
<1>11. ASSUME NEW s \in Stranger, StrangerConnects(s) \/ StrangerLeaves(s) PROVE StrangerInv'
  BY <1>2, <1>11 DEF StrangerConnects, StrangerLeaves
<1>12. ASSUME NEW s \in Stranger, NEW f \in StrangerFrame, StrangerSends(s, f)
       PROVE  StrangerInv'
  <2>1. /\ s \notin spoke /\ spoke' = spoke \cup {s} /\ coord' = coord
        /\ toPC1' = [toPC1 EXCEPT ![s] = Append(toPC1[s], f)]
    BY <1>12 DEF StrangerSends
  <2>2. toPC1[s] = << >> BY <2>1 DEF StrangerInv
  <2>3. toPC1'[s] = <<f>> /\ \A x \in Stranger \ {s} : toPC1'[x] = toPC1[x]
    BY <2>1, <2>2, <1>1
  <2>4. Len(<<f>>) <= 1 OBVIOUS
  <2>5. \A x \in Stranger : x \notin spoke' => toPC1'[x] = << >>
    BY <2>1, <2>3 DEF StrangerInv
  <2>6. \A x \in Stranger : Len(toPC1'[x]) <= 1 BY <2>3, <2>4 DEF StrangerInv
  <2>7. coord.pc = "caps" /\ coord.cur # PC2 =>
          coord.cur \in Stranger \ {s} /\ coord.cur \in spoke' /\ toPC1'[coord.cur] = << >>
    BY <2>1, <2>3, <1>1 DEF StrangerInv, TypeInv, CoordState
  <2>8. QED BY <2>1, <2>5, <2>6, <2>7 DEF StrangerInv
<1>13. ASSUME NEW side \in {"PC1", "PC2"}, Cancel(side) PROVE StrangerInv'
  BY <1>2, <1>13 DEF Cancel
<1>14. CASE UNCHANGED vars BY <1>2, <1>14 DEF vars
<1>15. QED
  BY <1>3, <1>6, <1>7, <1>8, <1>9, <1>10, <1>11, <1>12, <1>13, <1>14 DEF Next, CoordStep

-----------------------------------------------------------------------------
(* The life of the worker's connection                                     *)

\* The head of the accept queue is taken.
LEMMA QueueTail ==
  ASSUME TypeInv, CalledOnce, backlog # << >>, backlog' = Tail(backlog)
  PROVE  /\ CalledOnce'
         /\ Head(backlog) # PC2 => InBacklog' = InBacklog
         /\ Head(backlog) = PC2 => InBacklog /\ ~InBacklog'
<1>1. /\ backlog \in Seq(Caller) /\ Len(backlog) \in Nat /\ Len(backlog) >= 1
      /\ Head(backlog) = backlog[1] /\ Len(backlog') = Len(backlog) - 1
  BY Types
<1>2. \A i \in 1..Len(backlog') :
        backlog'[i] = backlog[i + 1] /\ i + 1 \in 1..Len(backlog) /\ i + 1 # 1
  BY <1>1
<1>3. \A j \in 1..Len(backlog) :
        j # 1 => \E i \in 1..Len(backlog') : backlog'[i] = backlog[j]
  <2> SUFFICES ASSUME NEW j \in 1..Len(backlog), j # 1
               PROVE  \E i \in 1..Len(backlog') : backlog'[i] = backlog[j]
    OBVIOUS
  <2>1. j - 1 \in 1..Len(backlog') /\ (j - 1) + 1 = j BY <1>1
  <2>2. QED BY <2>1, <1>2
<1>4. 1 \in 1..Len(backlog) BY <1>1
<1>5. \A i, j \in 1..Len(backlog') : i + 1 = j + 1 => i = j BY <1>1
<1>6. CalledOnce'
  <2> SUFFICES ASSUME NEW i \in 1..Len(backlog'), NEW j \in 1..Len(backlog'),
                      backlog'[i] = PC2, backlog'[j] = PC2
               PROVE  i = j
    BY DEF CalledOnce
  <2>1. i + 1 = j + 1 BY <1>2 DEF CalledOnce
  <2>2. QED BY <2>1, <1>5
<1>7. Head(backlog) # PC2 => InBacklog' = InBacklog
  <2>1. InBacklog' => InBacklog BY <1>2 DEF InBacklog
  <2>2. Head(backlog) # PC2 /\ InBacklog => InBacklog' BY <1>1, <1>3 DEF InBacklog
  <2>3. InBacklog \in BOOLEAN /\ InBacklog' \in BOOLEAN BY DEF InBacklog
  <2>4. QED BY <2>1, <2>2, <2>3
<1>8. Head(backlog) = PC2 => InBacklog /\ ~InBacklog'
  <2> SUFFICES ASSUME Head(backlog) = PC2 PROVE InBacklog /\ ~InBacklog' OBVIOUS
  <2>1. InBacklog BY <1>1, <1>4 DEF InBacklog
  <2>2. ~InBacklog' BY <1>1, <1>2, <1>4 DEF InBacklog, CalledOnce
  <2>3. QED BY <2>1, <2>2
<1>9. QED BY <1>6, <1>7, <1>8

\* A caller joins the accept queue.
LEMMA QueueAppend ==
  ASSUME TypeInv, CalledOnce, NEW x \in Caller, backlog' = Append(backlog, x),
         x = PC2 => ~InBacklog
  PROVE  /\ CalledOnce'
         /\ x # PC2 => InBacklog' = InBacklog
         /\ x = PC2 => InBacklog'
<1>1. /\ backlog \in Seq(Caller) /\ Len(backlog) \in Nat
      /\ Len(backlog') = Len(backlog) + 1 /\ backlog'[Len(backlog) + 1] = x
  BY Types
<1>2. \A i \in 1..Len(backlog) : backlog'[i] = backlog[i] /\ i \in 1..Len(backlog')
  BY <1>1
<1>3. \A i \in 1..Len(backlog') : i \in 1..Len(backlog) \/ i = Len(backlog) + 1
  BY <1>1
<1>4. Len(backlog) + 1 \in 1..Len(backlog') BY <1>1
<1>5. CASE x # PC2
  <2>1. InBacklog' => InBacklog BY <1>1, <1>2, <1>3, <1>5 DEF InBacklog
  <2>2. InBacklog => InBacklog' BY <1>2 DEF InBacklog
  <2>3. CalledOnce' BY <1>1, <1>2, <1>3, <1>5 DEF CalledOnce
  <2>4. InBacklog \in BOOLEAN /\ InBacklog' \in BOOLEAN BY DEF InBacklog
  <2>5. QED BY <2>1, <2>2, <2>3, <2>4, <1>5
<1>6. CASE x = PC2
  <2>1. InBacklog' BY <1>1, <1>4, <1>6 DEF InBacklog
  <2>2. \A i \in 1..Len(backlog) : backlog[i] # PC2 BY <1>6 DEF InBacklog
  <2>3. CalledOnce' BY <2>2, <1>2, <1>3 DEF CalledOnce
  <2>4. QED BY <2>1, <2>3, <1>6
<1>7. QED BY <1>5, <1>6

\* Closing the listener resets the worker's connection if it is queued, and
\* leaves it alone otherwise.
LEMMA QueueClosed ==
  ASSUME TypeInv, NEW extra, CloseListener(extra)
  PROVE  /\ CalledOnce' /\ ~InBacklog'
         /\ InBacklog \/ PC2 \in extra => PC2 \in shut'
         /\ ~InBacklog /\ PC2 \notin extra => (PC2 \in shut' <=> PC2 \in shut)
<1>1. backlog' = << >> /\ backlog \in Seq(Caller)
      /\ shut' = shut \cup extra \cup {backlog[i] : i \in DOMAIN backlog}
  BY Types DEF CloseListener
<1>2. DOMAIN backlog = 1..Len(backlog) BY <1>1
<1>3. Len(backlog') = 0 BY <1>1
<1>4. CalledOnce' /\ ~InBacklog' BY <1>3 DEF CalledOnce, InBacklog
<1>5. InBacklog <=> PC2 \in {backlog[i] : i \in DOMAIN backlog} BY <1>2 DEF InBacklog
<1>6. QED BY <1>1, <1>4, <1>5

\* A step that leaves the worker's connection alone.
LEMMA Aside ==
  ASSUME Conn, conf' = conf, replies' = replies, toPC1'[PC2] = toPC1[PC2],
         worker'.pc = worker.pc, worker'.err = worker.err, worker'.testID = worker.testID,
         PC2 \in shut' <=> PC2 \in shut, InBacklog' = InBacklog,
         \/ coord'.pc = coord.pc /\ coord'.cur = coord.cur /\ coord'.testID = coord.testID
         \/ coord.cur # PC2 /\ coord'.cur # PC2
  PROVE  Conn'
<1>1. Fell' = Fell /\ Late' = Late /\ Through' = Through BY DEF Fell, Late, Through
<1>2. hello(conf)' = hello(conf) OBVIOUS
<1>3. TrueReply' = TrueReply BY DEF TrueReply, TrueReason
<1>4. CASE coord.cur # PC2 /\ coord'.cur # PC2
  <2>1. NotCalled \/ Queued \/ Dropped
    BY <1>4 DEF Conn, Greeting, Acked, Presented, Joined, Serving
  <2>2. NotCalled => NotCalled' BY <1>1, <1>4 DEF NotCalled
  <2>3. Queued => Queued' BY <1>1, <1>2, <1>4 DEF Queued, Greeted
  <2>4. Dropped => Dropped' BY <1>1, <1>3, <1>4 DEF Dropped
  <2>5. QED BY <2>1, <2>2, <2>3, <2>4 DEF Conn
<1>5. CASE coord'.pc = coord.pc /\ coord'.cur = coord.cur /\ coord'.testID = coord.testID
  <2>1. NotCalled => NotCalled' BY <1>1, <1>5 DEF NotCalled
  <2>2. Greeted => Greeted' BY <1>1, <1>2 DEF Greeted
  <2>3. ASSUME NEW p, Serving(p) PROVE Serving(p)' BY <2>3, <1>5 DEF Serving
  <2>4. Queued => Queued' BY <2>2, <1>5 DEF Queued
  <2>5. Greeting => Greeting' BY <2>2, <2>3 DEF Greeting
  <2>6. Acked => Acked' BY <2>3, <1>1, <1>5 DEF Acked
  <2>7. Presented => Presented' BY <2>3, <1>1, <1>5 DEF Presented
  <2>8. Joined => Joined' BY <2>3, <1>1, <1>5 DEF Joined
  <2>9. Dropped => Dropped' BY <1>1, <1>3, <1>5 DEF Dropped
  <2>10. QED BY <2>1, <2>4, <2>5, <2>6, <2>7, <2>8, <2>9 DEF Conn
<1>6. QED BY <1>4, <1>5

\* A step that closes the worker's connection, before it was joined, and says
\* nothing that is not true.
LEMMA Closed ==
  ASSUME TypeInv, Conn, ~NotCalled, ~Joined, conf' = conf, worker' = worker,
         NEW farewell \in Seq(TrueReply), replies' = replies \o farewell,
         PC2 \in shut', ~InBacklog', coord'.cur # PC2
  PROVE  Conn'
<1>1. Fell' = Fell BY DEF Fell
<1>2. TrueReply' = TrueReply BY DEF TrueReply, TrueReason
<1>3. coord.testID \in Nat BY Types DEF CoordState
<1>4. << >> \in Seq(TrueReply) /\ <<hello_ack(coord.testID)>> \in Seq(TrueReply)
  <2>1. hello_ack(coord.testID) \in TrueReply BY <1>3 DEF TrueReply
  <2>2. QED BY <2>1
<1>5. replies \in Seq(TrueReply)
  BY <1>4 DEF Conn, Queued, Greeted, Greeting, Acked, Presented, Dropped
<1>6. replies' \in Seq(TrueReply) BY <1>5
<1>7. worker.pc \in {"ack", "caps"} \/ Fell
  BY DEF Conn, Queued, Greeted, Greeting, Acked, Presented, Dropped, Late
<1>8. Dropped' BY <1>1, <1>2, <1>6, <1>7 DEF Dropped
<1>9. QED BY <1>8 DEF Conn

\* The connection PC1 serves, while it is the worker's.
LEMMA ServedNow ==
  ASSUME Conn, coord.cur = PC2, coord.pc \in {"hello", "caps"}
  PROVE  /\ Greeting \/ Acked \/ Presented
         /\ coord.pc = "hello" => Greeting
         /\ ~InBacklog /\ ~NotCalled /\ ~Joined
BY DEF Conn, NotCalled, Queued, Dropped, Greeting, Acked, Presented, Joined, Serving

\* A failed handshake, of the worker or of another caller, in which PC1 says
\* nothing to the worker that is not true.
LEMMA FailConn ==
  ASSUME TypeInv, Conn, CalledOnce, coord.pc \in {"hello", "caps"}, NEW err \in CoordError,
         NEW farewell, HandshakeFails(err, farewell),
         coord.cur = PC2 => farewell \in Seq(TrueReply)
  PROVE  Conn' /\ CalledOnce'
<1>1. coord'.cur = NoCaller /\ NoCaller # PC2 BY Types, StrikeType DEF HandshakeFails
<1>2. /\ conf' = conf /\ worker' = worker
      /\ replies' = (IF coord.cur = PC2 THEN replies \o farewell ELSE replies)
      /\ toPC1' = [toPC1 EXCEPT ![coord.cur] = << >>]
  BY DEF HandshakeFails
<1>3. \/ CloseListener({coord.cur})
      \/ shut' = shut \cup {coord.cur} /\ backlog' = backlog
  BY DEF HandshakeFails
<1>4. CASE coord.cur = PC2
  <2>1. ~InBacklog /\ ~NotCalled /\ ~Joined BY <1>4, ServedNow
  <2>2. PC2 \in shut' /\ ~InBacklog' /\ CalledOnce'
    <3>1. CASE CloseListener({coord.cur}) BY <3>1, <1>4, QueueClosed
    <3>2. CASE shut' = shut \cup {coord.cur} /\ backlog' = backlog
      BY <3>2, <2>1, <1>4 DEF InBacklog, CalledOnce
    <3>3. QED BY <3>1, <3>2, <1>3
  <2>3. QED BY <2>1, <2>2, <1>1, <1>2, <1>4, Closed
<1>5. CASE coord.cur # PC2
  <2>1. toPC1'[PC2] = toPC1[PC2] BY <1>2, <1>5, Types
  <2>2. CASE CloseListener({coord.cur}) /\ InBacklog
    <3>1. ~NotCalled /\ ~Joined BY <2>2 DEF NotCalled, Joined, Serving
    <3>2. PC2 \in shut' /\ ~InBacklog' /\ CalledOnce' BY <2>2, QueueClosed
    <3>3. << >> \in Seq(TrueReply) /\ replies' = replies \o << >>
      <4>1. Queued BY <2>2
              DEF Conn, NotCalled, Greeting, Acked, Presented, Joined, Dropped, Serving
      <4>2. QED BY <4>1, <1>2, <1>5 DEF Queued, Greeted
    <3>4. QED BY <3>1, <3>2, <3>3, <1>1, <1>2, Closed
  <2>3. CASE CloseListener({coord.cur}) /\ ~InBacklog
    <3>1. /\ CalledOnce' /\ ~InBacklog' /\ (PC2 \in shut' <=> PC2 \in shut)
      BY <2>3, <1>5, QueueClosed
    <3>2. InBacklog' = InBacklog BY <3>1, <2>3 DEF InBacklog
    <3>3. QED BY <3>1, <3>2, <2>1, <1>1, <1>2, <1>5, Aside
  <2>4. CASE shut' = shut \cup {coord.cur} /\ backlog' = backlog
    <3>1. InBacklog' = InBacklog /\ CalledOnce' BY <2>4 DEF InBacklog, CalledOnce
    <3>2. PC2 \in shut' <=> PC2 \in shut BY <2>4, <1>5
    <3>3. QED BY <3>1, <3>2, <2>1, <1>1, <1>2, <1>5, Aside
  <2>5. QED BY <2>2, <2>3, <2>4, <1>3
<1>6. QED BY <1>4, <1>5

\* PC1 turns the worker's hello away for a reason that is true of it.
LEMMA HelloReason ==
  ASSUME conf \in Conf
  PROVE  /\ AbortReason(HelloError(hello(conf))) \in TrueReason
         /\ HelloError(hello(conf)) = "none" => Through
<1> DEFINE h == hello(conf)
<1>1. h.kind = "hello" /\ h.version = conf.version /\ h.token = conf.token
      /\ h.claims = conf.claims
  BY DEF hello
<1>2. conf.version \in BOOLEAN /\ conf.token \in BOOLEAN /\ conf.claims \in BOOLEAN
  BY DEF Conf
<1> HIDE DEF h
<1>3. /\ ~conf.version => HelloError(h) = "version"
      /\ conf.version /\ ~conf.token => HelloError(h) = "auth"
      /\ conf.version /\ conf.token /\ ~conf.claims => HelloError(h) = "protocol"
      /\ Through => HelloError(h) = "none"
  BY <1>1, <1>2 DEF HelloError, Through
<1>4. /\ AbortReason("version") = "version_mismatch" /\ AbortReason("auth") = "auth_failed"
      /\ AbortReason("protocol") = "protocol_error" /\ AbortReason("none") = "protocol_error"
  BY DEF AbortReason
<1>5. HelloError(h) = "none" => Through BY <1>2, <1>3 DEF Through
<1>6. AbortReason(HelloError(h)) \in TrueReason
  <2>1. CASE ~conf.version BY <2>1, <1>3, <1>4 DEF TrueReason
  <2>2. CASE conf.version /\ ~conf.token BY <2>2, <1>3, <1>4 DEF TrueReason
  <2>3. CASE conf.version /\ conf.token BY <2>3, <1>2, <1>3, <1>4 DEF TrueReason, Through
  <2>4. QED BY <2>1, <2>2, <2>3
<1>7. QED BY <1>5, <1>6 DEF h

\* PC1 turns the worker's capabilities away only for the worker's iperf3.
LEMMA CapsReason ==
  ASSUME conf \in Conf, conf.version, NEW t
  PROVE  /\ AbortReason(CapsError(caps(conf.version, t, conf.json2), t)) \in TrueReason
         /\ CapsError(caps(conf.version, t, conf.json2), t) = "none" => conf.json2
<1> DEFINE f == caps(conf.version, t, conf.json2)
<1>1. f.kind = "capabilities" /\ f.version = conf.version /\ f.testID = t
      /\ f.json = conf.json2
  BY DEF caps
<1>2. conf.json2 \in BOOLEAN BY DEF Conf
<1> HIDE DEF f
<1>3. /\ ~conf.json2 => CapsError(f, t) = "capability"
      /\ conf.json2 => CapsError(f, t) = "none"
  BY <1>1, <1>2 DEF CapsError
<1>4. AbortReason("capability") = "capability_missing"
      /\ AbortReason("none") = "protocol_error"
  BY DEF AbortReason
<1>5. AbortReason(CapsError(f, t)) \in TrueReason
  BY <1>2, <1>3, <1>4 DEF TrueReason
<1>6. QED BY <1>2, <1>3, <1>5 DEF f

\* A step of the coordinator keeps what is known of the connection.
LEMMA CoordConn ==
  ASSUME TypeInv, StrangerInv, Conn, CalledOnce, CoordStep
  PROVE  Conn' /\ CalledOnce'
<1>1. /\ conf \in Conf /\ coord \in CoordState /\ toPC1 \in [Caller -> Seq(Frame)]
      /\ NoCaller # PC2 /\ PC2 \in Caller
      /\ coord.pc \in {"hello", "caps"} => coord.cur \in Caller
  BY Types
<1>2. worker' = worker /\ conf' = conf
  BY DEF CoordStep, Listen, Watch, AcceptForeign, AcceptPeer, AcceptFails, ReadHello,
         ReadCapabilities, ReadEOF, ReadTimeout, HandshakeFails
<1>3. coord.pc \in {"start", "accept"} => coord.cur # PC2
  BY <1>1 DEF TypeInv
<1>4. CASE Listen \/ AcceptFails
  <2>1. /\ coord.cur # PC2 /\ coord'.cur = coord.cur
        /\ UNCHANGED <<replies, toPC1, shut, backlog>>
    BY <1>1, <1>3, <1>4 DEF Listen, AcceptFails, CoordState
  <2>2. InBacklog' = InBacklog /\ CalledOnce' BY <2>1 DEF InBacklog, CalledOnce
  <2>3. QED BY <2>1, <2>2, <1>2, Aside
<1>5. CASE Watch
  <2>1. CloseListener({}) /\ UNCHANGED <<coord, replies, toPC1>> BY <1>5 DEF Watch
  <2>2. CalledOnce' /\ ~InBacklog' BY <2>1, QueueClosed
  <2>3. CASE InBacklog
    <3>1. Queued /\ ~NotCalled /\ ~Joined BY <2>3
      DEF Conn, NotCalled, Greeting, Acked, Presented, Joined, Dropped, Serving
    <3>2. << >> \in Seq(TrueReply) /\ replies' = replies \o << >>
      BY <3>1, <2>1 DEF Queued, Greeted
    <3>3. PC2 \in shut' /\ coord'.cur # PC2 BY <3>1, <2>1, <2>3, QueueClosed DEF Queued
    <3>4. QED BY <3>1, <3>2, <3>3, <2>2, <1>2, Closed
  <2>4. CASE ~InBacklog
    <3>1. PC2 \in shut' <=> PC2 \in shut BY <2>1, <2>4, QueueClosed
    <3>2. InBacklog' = InBacklog BY <2>2, <2>4 DEF InBacklog
    <3>3. QED BY <3>1, <3>2, <2>1, <2>2, <1>2, Aside
  <2>5. QED BY <2>3, <2>4
<1>6. CASE AcceptForeign
  <2>1. /\ backlog # << >> /\ backlog' = Tail(backlog) /\ coord.cur # PC2
        /\ shut' = shut \cup {Head(backlog)} /\ UNCHANGED <<coord, replies, toPC1>>
    BY <1>3, <1>6 DEF AcceptForeign
  <2>2. CalledOnce' BY <2>1, QueueTail
  <2>3. CASE Head(backlog) = PC2
    <3>1. InBacklog /\ ~InBacklog' BY <2>1, <2>3, QueueTail
    <3>2. Queued /\ ~NotCalled /\ ~Joined BY <3>1
      DEF Conn, NotCalled, Greeting, Acked, Presented, Joined, Dropped, Serving
    <3>3. << >> \in Seq(TrueReply) /\ replies' = replies \o << >>
      BY <3>2, <2>1 DEF Queued, Greeted
    <3>4. PC2 \in shut' BY <2>1, <2>3
    <3>5. QED BY <3>1, <3>2, <3>3, <3>4, <2>1, <2>2, <1>2, Closed
  <2>4. CASE Head(backlog) # PC2
    <3>1. InBacklog' = InBacklog /\ (PC2 \in shut' <=> PC2 \in shut)
      BY <2>1, <2>4, QueueTail
    <3>2. QED BY <3>1, <2>1, <2>2, <1>2, Aside
  <2>5. QED BY <2>3, <2>4
<1>7. CASE AcceptPeer
  <2>1. /\ backlog # << >> /\ backlog' = Tail(backlog) /\ coord.cur # PC2
        /\ UNCHANGED <<shut, replies, toPC1>>
    BY <1>3, <1>7 DEF AcceptPeer
  <2>2. coord'.cur = Head(backlog) /\ coord'.pc = "hello"
    BY <1>1, <1>7 DEF AcceptPeer, CoordState
  <2>3. CalledOnce' BY <2>1, QueueTail
  <2>4. CASE Head(backlog) = PC2
    <3>1. InBacklog /\ ~InBacklog' BY <2>1, <2>4, QueueTail
    <3>2. Queued BY <3>1
      DEF Conn, NotCalled, Greeting, Acked, Presented, Joined, Dropped, Serving
    <3>3. Greeted' BY <3>2, <2>1, <1>2 DEF Queued, Greeted, Late, Fell
    <3>4. Serving("hello")' BY <3>1, <3>2, <2>1, <2>2, <2>4 DEF Serving, Queued, Greeted
    <3>5. QED BY <3>3, <3>4, <2>3 DEF Conn, Greeting
  <2>5. CASE Head(backlog) # PC2
    <3>1. InBacklog' = InBacklog BY <2>1, <2>5, QueueTail
    <3>2. QED BY <3>1, <2>1, <2>2, <2>3, <2>5, <1>2, Aside
  <2>6. QED BY <2>4, <2>5
<1>8. ASSUME NEW r \in TrueReason PROVE <<abort(r)>> \in Seq(TrueReply)
  <2>1. abort(r) \in TrueReply BY DEF TrueReply
  <2>2. QED BY <2>1
<1>9. "protocol" \in CoordError /\ "timeout" \in CoordError BY DEF CoordError
<1>10. CASE ReadEOF \/ ReadTimeout
  <2>1. "protocol_error" \in TrueReason BY DEF TrueReason
  <2>2. <<abort("protocol_error")>> \in Seq(TrueReply) /\ << >> \in Seq(TrueReply)
    BY <2>1, <1>8
  <2>3. QED BY <2>2, <1>9, <1>10, FailConn DEF ReadEOF, ReadTimeout
<1>11. CASE ReadHello
  <2> DEFINE c == coord.cur
             f == Head(toPC1[c])
             e == HelloError(f)
  <2>1. coord.pc = "hello" /\ toPC1[c] # << >> /\ c \in Caller
    BY <1>1, <1>11 DEF ReadHello, Readable
  <2>2. e \in CoordError BY HelloErrors DEF CoordError
  <2>3. \/ HandshakeFails(e, <<abort(AbortReason(e))>>)
        \/ /\ e = "none"
           /\ coord' = [coord EXCEPT !.pc = "caps", !.left = coord.total, !.testID = newTestID]
           /\ replies' = (IF c = PC2 THEN Append(replies, hello_ack(newTestID)) ELSE replies)
           /\ toPC1' = [toPC1 EXCEPT ![c] = Tail(toPC1[c])]
           /\ UNCHANGED <<backlog, shut>>
    BY <1>11 DEF ReadHello, Reply
  <2>4. c = PC2 => Greeting /\ f = hello(conf) /\ Tail(toPC1[c]) = << >>
    <3>1. SUFFICES ASSUME c = PC2 PROVE Greeting /\ f = hello(conf) /\ Tail(toPC1[c]) = << >>
      OBVIOUS
    <3>2. Greeting BY <3>1, <2>1, ServedNow
    <3>3. toPC1[c] = <<hello(conf)>> BY <3>1, <3>2 DEF Greeting, Greeted
    <3>4. QED BY <3>2, <3>3
  <2>5. CASE HandshakeFails(e, <<abort(AbortReason(e))>>)
    <3>1. c = PC2 => <<abort(AbortReason(e))>> \in Seq(TrueReply)
      BY <2>4, <1>1, <1>8, HelloReason
    <3> HIDE DEF e
    <3>2. QED BY <3>1, <2>1, <2>2, <2>5, FailConn
  <2>6. CASE /\ e = "none"
             /\ coord' = [coord EXCEPT !.pc = "caps", !.left = coord.total,
                                       !.testID = newTestID]
             /\ replies' = (IF c = PC2 THEN Append(replies, hello_ack(newTestID)) ELSE replies)
             /\ toPC1' = [toPC1 EXCEPT ![c] = Tail(toPC1[c])]
             /\ UNCHANGED <<backlog, shut>>
    <3>1. coord'.pc = "caps" /\ coord'.cur = c /\ coord'.testID = newTestID
      BY <2>6, <1>1 DEF CoordState
    <3>2. InBacklog' = InBacklog /\ CalledOnce' BY <2>6 DEF InBacklog, CalledOnce
    <3>3. CASE c = PC2
      <4>1. Greeting /\ Through BY <3>3, <2>4, <2>6, <1>1, HelloReason
      <4>2. toPC1'[PC2] = << >> BY <3>3, <2>4, <2>6, <1>1
      <4>3. replies' = <<hello_ack(coord'.testID)>>
        <5>1. replies = << >> BY <4>1 DEF Greeting, Greeted
        <5>2. QED BY <5>1, <3>1, <3>3, <2>6
      <4>4. Serving("caps")' BY <4>1, <3>1, <3>2, <3>3, <2>6 DEF Greeting, Serving
      <4>5. Through' /\ (worker.pc = "ack" \/ Late)'
        BY <4>1, <1>2 DEF Through, Greeting, Greeted, Late, Fell
      <4>6. Acked' BY <4>2, <4>3, <4>4, <4>5 DEF Acked
      <4>7. QED BY <4>6, <3>2 DEF Conn
    <3>4. CASE c # PC2
      <4>1. toPC1'[PC2] = toPC1[PC2] BY <3>4, <2>6, <1>1
      <4>2. QED BY <4>1, <3>1, <3>2, <3>4, <2>6, <1>2, Aside
    <3>5. QED BY <3>3, <3>4
  <2>7. QED BY <2>3, <2>5, <2>6
<1>12. CASE ReadCapabilities
  <2> DEFINE c == coord.cur
             f == Head(toPC1[c])
             e == CapsError(f, coord.testID)
  <2>1. coord.pc = "caps" /\ toPC1[c] # << >> /\ c \in Caller
    BY <1>1, <1>12 DEF ReadCapabilities, Readable
  <2>2. e \in CoordError BY CapsErrors DEF CoordError
  <2>3. c = PC2 BY <2>1 DEF StrangerInv
  <2>4. Presented BY <2>1, <2>3, ServedNow DEF Greeting, Serving, Acked
  <2>5. f = caps(conf.version, coord.testID, conf.json2) BY <2>3, <2>4 DEF Presented
  <2>6. conf.version BY <2>4 DEF Presented, Through
  <2>7. \/ HandshakeFails(e, <<abort(AbortReason(e))>>)
        \/ HandshakeFails("protocol", << >>)
        \/ /\ e = "none" /\ coord' = [coord EXCEPT !.pc = "done", !.left = 0, !.total = 0]
           /\ replies' = Append(replies, caps(TRUE, coord.testID, conf.json1))
           /\ CloseListener({})
    BY <2>3, <1>12 DEF ReadCapabilities, Reply
  <2>8. <<abort(AbortReason(e))>> \in Seq(TrueReply) /\ << >> \in Seq(TrueReply)
    <3>1. AbortReason(e) \in TrueReason BY <2>5, <2>6, <1>1, CapsReason
    <3> HIDE DEF e
    <3>2. <<abort(AbortReason(e))>> \in Seq(TrueReply) BY <3>1, <1>8
    <3>3. QED BY <3>2
  <2>9. e = "none" => conf.json2 BY <2>5, <2>6, <1>1, CapsReason
  <2> HIDE DEF e
  <2>10. CASE \/ HandshakeFails(e, <<abort(AbortReason(e))>>)
              \/ HandshakeFails("protocol", << >>)
    BY <2>1, <2>2, <2>8, <2>10, <1>9, FailConn
  <2>11. CASE /\ e = "none" /\ coord' = [coord EXCEPT !.pc = "done", !.left = 0, !.total = 0]
              /\ replies' = Append(replies, caps(TRUE, coord.testID, conf.json1))
              /\ CloseListener({})
    <3>1. coord'.pc = "done" /\ coord'.cur = PC2 /\ coord'.testID = coord.testID
      BY <2>3, <2>11, <1>1 DEF CoordState
    <3>2. ~InBacklog /\ PC2 \notin shut BY <2>4 DEF Presented, Serving
    <3>3. CalledOnce' /\ ~InBacklog' /\ PC2 \notin shut' BY <3>2, <2>11, QueueClosed
    <3>4. replies' = <<caps(TRUE, coord'.testID, conf'.json1)>>
      <4>1. replies = << >> BY <2>4 DEF Presented
      <4>2. QED BY <4>1, <3>1, <2>11, <1>2
    <3>5. Serving("done")' BY <3>1, <3>3 DEF Serving
    <3>6. /\ Through' /\ conf'.json2 /\ worker'.testID = coord'.testID
          /\ (worker.pc = "caps" \/ Late)'
      BY <3>1, <2>4, <2>9, <2>11, <1>2 DEF Presented, Through, Late, Fell
    <3>7. Joined' BY <3>4, <3>5, <3>6 DEF Joined
    <3>8. QED BY <3>3, <3>7 DEF Conn
  <2>12. QED BY <2>7, <2>10, <2>11
<1>13. QED
  BY <1>4, <1>5, <1>6, <1>7, <1>10, <1>11, <1>12 DEF CoordStep

\* What a reply tells the worker: an abort gives a true reason, and nothing
\* else on a connection that was closed lets the worker through.
LEMMA ReplyTrue ==
  ASSUME conf \in Conf, NEW f \in TrueReply, NEW want \in {"hello_ack", "capabilities"}
  PROVE  /\ ReplyError(f, want) = "token_rejected" => ~conf.token
         /\ ReplyError(f, want) = "version" => ~conf.version
         /\ ReplyError(f, want) = "capability" => ~conf.json2
         /\ want = "capabilities" => ReplyError(f, want) # "none"
<1>1. conf.version \in BOOLEAN BY DEF Conf
<1>2. CASE f \in {hello_ack(t) : t \in Nat}
  <2>1. f.kind = "hello_ack" BY <1>2 DEF hello_ack
  <2>2. QED BY <2>1, <1>1 DEF ReplyError
<1>3. CASE f \in {abort(r) : r \in TrueReason}
  <2>1. PICK r \in TrueReason : f = abort(r) BY <1>3
  <2>2. f.kind = "abort" /\ f.reason = r BY <2>1 DEF abort
  <2>3. ReplyError(f, want) = MapAbort(r) BY <2>2 DEF ReplyError
  <2>4. QED BY <2>3 DEF TrueReason, MapAbort
<1>4. QED BY <1>2, <1>3 DEF TrueReply

\* A step of the worker keeps what is known of the connection, and what the
\* worker says is true.
LEMMA WorkerConn ==
  ASSUME TypeInv, StrangerInv, Conn, CalledOnce, ErrTrue, WorkerStep
  PROVE  Conn' /\ CalledOnce' /\ ErrTrue'
<1>1. /\ conf \in Conf /\ worker \in WorkerState /\ toPC1 \in [Caller -> Seq(Frame)]
      /\ PC2 \in Caller /\ coord.testID \in Nat
  BY Types DEF CoordState
<1>2. conf' = conf /\ coord' = coord /\ shut' = shut
  BY DEF WorkerStep, DialSucceeds, DialFails, DialAgain, ReadHelloAck, ReadPeerCapabilities,
         WorkerGivesUp, WorkerFails
<1>3. Through' = Through /\ TrueReply' = TrueReply BY <1>2 DEF Through, TrueReply, TrueReason
<1>4. ASSUME backlog' = backlog PROVE InBacklog' = InBacklog /\ CalledOnce'
  BY <1>4 DEF InBacklog, CalledOnce
<1>5. ASSUME NEW err \in WorkerError, WorkerEnds(err)
      PROVE  /\ Fell' /\ worker'.err = err /\ worker'.testID = worker.testID
             /\ err = "timeout" => Late'
  BY <1>5, WorkerEndsType DEF Fell, Late
<1>6. "dial" \in WorkerError /\ "protocol" \in WorkerError /\ "capability" \in WorkerError
      /\ "peer_aborted" \in WorkerError /\ "timeout" \in WorkerError
  BY DEF WorkerError
<1>7. ASSUME NEW p, Serving(p), backlog' = backlog PROVE Serving(p)'
  BY <1>2, <1>4, <1>7 DEF Serving
<1>8. CASE DialSucceeds
  <2>1. /\ worker.pc = "dial" /\ backlog' = Append(backlog, PC2) /\ replies' = replies
        /\ toPC1' = [toPC1 EXCEPT ![PC2] = Append(toPC1[PC2], hello(conf))]
    BY <1>8 DEF DialSucceeds
  <2>2. worker'.pc = "ack" /\ worker'.err = worker.err BY <1>1, <1>8 DEF DialSucceeds, WorkerState
  <2>3. NotCalled BY <2>1
    DEF Conn, Queued, Greeting, Greeted, Acked, Presented, Joined, Dropped, Late, Fell
  <2>4. CalledOnce' /\ InBacklog' BY <2>1, <2>3, <1>1, QueueAppend DEF NotCalled
  <2>5. toPC1'[PC2] = <<hello(conf')>>
    <3>1. toPC1[PC2] = << >> BY <2>3 DEF NotCalled
    <3>2. QED BY <3>1, <2>1, <1>1, <1>2
  <2>6. Greeted' BY <2>1, <2>2, <2>3, <2>5, <1>2 DEF Greeted, NotCalled
  <2>7. Queued' BY <2>3, <2>4, <2>6, <1>2 DEF Queued, NotCalled
  <2>8. ErrTrue' BY <2>2, <1>2 DEF ErrTrue
  <2>9. QED BY <2>4, <2>7, <2>8 DEF Conn
<1>9. CASE DialFails \/ DialAgain
  <2>1. /\ worker.pc \in {"dial", "wait"} /\ UNCHANGED <<backlog, toPC1, replies>>
    BY <1>9 DEF DialFails, DialAgain
  <2>2. \/ worker'.pc \in {"dial", "wait"} /\ worker'.err = worker.err
        \/ Fell' /\ worker'.err = "dial"
    <3>1. \/ WorkerEnds("dial")
          \/ worker' = [worker EXCEPT !.pc = "wait", !.left = dialRetryDelay]
          \/ worker' = [worker EXCEPT !.pc = "dial"]
      BY <1>9 DEF DialFails, DialAgain
    <3>2. QED BY <3>1, <1>1, <1>5, <1>6 DEF WorkerState
  <2>3. NotCalled BY <2>1
    DEF Conn, Queued, Greeting, Greeted, Acked, Presented, Joined, Dropped, Late, Fell
  <2>4. NotCalled' BY <2>1, <2>2, <2>3, <1>2, <1>4 DEF NotCalled
  <2>5. ErrTrue' BY <2>2, <1>2 DEF ErrTrue
  <2>6. QED BY <2>1, <2>4, <2>5, <1>4 DEF Conn
\* A worker that runs out of time says so whatever the state of its
\* connection.
<1>10. ASSUME worker.pc \in {"ack", "caps"}, WorkerFails("timeout", replies)
       PROVE  Conn' /\ CalledOnce' /\ ErrTrue'
  <2>1. /\ Fell' /\ Late' /\ worker'.err = "timeout" /\ worker'.testID = worker.testID
        /\ UNCHANGED <<backlog, toPC1, replies>>
    BY <1>5, <1>6, <1>10 DEF WorkerFails
  <2>2. InBacklog' = InBacklog /\ CalledOnce' BY <2>1, <1>4
  <2>3. ErrTrue' BY <2>1, <1>2 DEF ErrTrue
  <2>4. ~NotCalled BY <1>10 DEF NotCalled, Fell
  <2>5. Greeted => Greeted' BY <2>1, <1>2 DEF Greeted
  <2>6. Queued => Queued' BY <2>2, <2>5, <1>2 DEF Queued
  <2>7. Greeting => Greeting' BY <2>1, <2>5, <1>7 DEF Greeting
  <2>8. Acked => Acked' BY <2>1, <1>2, <1>3, <1>7 DEF Acked
  <2>9. Presented => Presented' BY <2>1, <1>2, <1>3, <1>7 DEF Presented
  <2>10. Joined => Joined' BY <2>1, <1>2, <1>3, <1>7, <1>10 DEF Joined, Fell
  <2>11. Dropped => Dropped' BY <2>1, <2>2, <1>2, <1>3 DEF Dropped
  <2>12. QED BY <2>2, <2>3, <2>4, <2>6, <2>7, <2>8, <2>9, <2>10, <2>11 DEF Conn
\* On a closed connection only the truth of the error matters.
<1>11. ASSUME Dropped, NEW err \in WorkerError, NEW rest \in Seq(TrueReply),
              WorkerFails(err, rest),
              err = "token_rejected" => ~conf.token,
              err = "version" => ~conf.version,
              err = "capability" => ~conf.json2
       PROVE  Conn' /\ CalledOnce' /\ ErrTrue'
  <2>1. Fell' /\ worker'.err = err /\ UNCHANGED <<backlog>> /\ replies' = rest
    BY <1>5, <1>11 DEF WorkerFails
  <2>2. InBacklog' = InBacklog /\ CalledOnce' BY <2>1, <1>4
  <2>3. Dropped' BY <2>1, <2>2, <1>2, <1>3, <1>11 DEF Dropped
  <2>4. ErrTrue' BY <2>1, <1>2, <1>11 DEF ErrTrue
  <2>5. QED BY <2>2, <2>3, <2>4 DEF Conn
<1>12. CASE WorkerGivesUp
  <2>1. CASE replies = << >> /\ PC2 \in shut /\ WorkerFails("peer_aborted", << >>)
    <3>1. worker.pc \in {"ack", "caps"} BY <1>12 DEF WorkerGivesUp
    <3>2. Dropped BY <2>1, <3>1
      DEF Conn, NotCalled, Queued, Greeting, Greeted, Acked, Presented, Joined, Serving
    <3>3. << >> \in Seq(TrueReply) OBVIOUS
    <3>4. QED BY <3>2, <3>3, <2>1, <1>6, <1>11
  <2>2. QED BY <2>1, <1>10, <1>12 DEF WorkerGivesUp
<1>13. CASE ReadHelloAck
  <2> DEFINE f == Head(replies)
             e == ReplyError(f, "hello_ack")
  <2>1. worker.pc = "ack" /\ replies # << >> BY <1>13 DEF ReadHelloAck, WorkerReadable
  <2>2. \/ e # "none" /\ WorkerFails(e, Tail(replies))
        \/ /\ e = "none" /\ worker' = [worker EXCEPT !.pc = "caps", !.testID = f.testID]
           /\ toPC1' = [toPC1 EXCEPT ![PC2] =
                          Append(toPC1[PC2], caps(conf.version, f.testID, conf.json2))]
           /\ replies' = Tail(replies) /\ backlog' = backlog
    BY <1>13 DEF ReadHelloAck
  <2>3. e \in WorkerError BY ReplyErrors
  <2>4. CASE Acked
    <3>1. f = hello_ack(coord.testID) /\ Tail(replies) = << >> BY <2>4 DEF Acked
    <3>2. f.kind = "hello_ack" /\ f.testID = coord.testID BY <3>1 DEF hello_ack
    <3>3. e = "none" BY <3>2, <2>4 DEF ReplyError, Acked, Through
    <3>4. worker'.pc = "caps" /\ worker'.testID = coord.testID /\ worker'.err = worker.err
      BY <3>2, <3>3, <2>2, <1>1 DEF WorkerState
    <3>5. toPC1'[PC2] = <<caps(conf'.version, coord'.testID, conf'.json2)>>
      <4>1. toPC1[PC2] = << >> BY <2>4 DEF Acked
      <4>2. QED BY <4>1, <3>2, <3>3, <2>2, <1>1, <1>2
    <3>6. backlog' = backlog /\ replies' = << >> BY <3>1, <3>3, <2>2
    <3>7. Presented' BY <3>4, <3>5, <3>6, <2>4, <1>2, <1>3, <1>7 DEF Acked, Presented
    <3>8. ErrTrue' BY <3>4, <1>2 DEF ErrTrue
    <3>9. QED BY <3>6, <3>7, <3>8, <1>4 DEF Conn
  <2>5. CASE Dropped /\ f \in TrueReply /\ Tail(replies) \in Seq(TrueReply)
    <3>1. CASE e # "none" /\ WorkerFails(e, Tail(replies))
      <4>1. /\ e = "token_rejected" => ~conf.token
            /\ e = "version" => ~conf.version
            /\ e = "capability" => ~conf.json2
        BY <2>5, <1>1, ReplyTrue
      <4> HIDE DEF e
      <4>2. QED BY <4>1, <3>1, <2>3, <2>5, <1>11
    <3>2. CASE /\ worker' = [worker EXCEPT !.pc = "caps", !.testID = f.testID]
               /\ replies' = Tail(replies) /\ backlog' = backlog
      <4>1. worker'.pc = "caps" /\ worker'.err = worker.err BY <3>2, <1>1 DEF WorkerState
      <4>2. Dropped' BY <4>1, <3>2, <2>5, <1>2, <1>3, <1>4 DEF Dropped
      <4>3. ErrTrue' BY <4>1, <1>2 DEF ErrTrue
      <4>4. QED BY <4>2, <4>3, <3>2, <1>4 DEF Conn
    <3>3. QED BY <3>1, <3>2, <2>2
  <2>6. QED BY <2>1, <2>4, <2>5, AckFacts
<1>14. CASE ReadPeerCapabilities
  <2> DEFINE f == Head(replies)
             e == ReplyError(f, "capabilities")
  <2>1. worker.pc = "caps" /\ replies # << >> BY <1>14 DEF ReadPeerCapabilities, WorkerReadable
  <2>2. \/ e # "none" /\ WorkerFails(e, Tail(replies))
        \/ e = "none" /\ f.testID # worker.testID /\ WorkerFails("protocol", Tail(replies))
        \/ e = "none" /\ f.testID = worker.testID /\ ~f.json
           /\ WorkerFails("capability", Tail(replies))
        \/ /\ e = "none" /\ f.testID = worker.testID /\ f.json
           /\ worker' = [worker EXCEPT !.pc = "done", !.left = 0]
           /\ backlog' = backlog
    BY <1>14 DEF ReadPeerCapabilities
  <2>3. e \in WorkerError BY ReplyErrors
  <2>4. \/ Joined /\ replies = <<caps(TRUE, coord.testID, conf.json1)>>
        \/ Dropped /\ f \in TrueReply /\ Tail(replies) \in Seq(TrueReply)
    <3>1. Joined \/ Dropped BY <2>1
      DEF Conn, NotCalled, Queued, Greeting, Greeted, Acked, Presented, Late, Fell
    <3>2. Joined => replies = <<caps(TRUE, coord.testID, conf.json1)>>
      BY <2>1 DEF Joined, Fell
    <3>3. Dropped => f \in TrueReply /\ Tail(replies) \in Seq(TrueReply)
      BY <2>1 DEF Dropped
    <3>4. QED BY <3>1, <3>2, <3>3
  <2>5. CASE Joined /\ replies = <<caps(TRUE, coord.testID, conf.json1)>>
    <3>1. f.kind = "capabilities" /\ f.testID = coord.testID /\ f.json = conf.json1
      BY <2>5 DEF caps
    <3>2. e = "none" /\ f.testID = worker.testID
      BY <3>1, <2>5 DEF ReplyError, Joined, Through
    <3>3. CASE ~conf.json1 /\ WorkerFails("capability", Tail(replies))
      <4>1. /\ Fell' /\ worker'.err = "capability" /\ worker'.testID = worker.testID
            /\ backlog' = backlog
        BY <3>3, <1>5, <1>6 DEF WorkerFails
      <4>2. Joined' BY <4>1, <3>3, <2>5, <1>2, <1>3, <1>7 DEF Joined
      <4>3. ErrTrue' BY <4>1, <3>3, <1>2 DEF ErrTrue
      <4>4. QED BY <4>1, <4>2, <4>3, <1>4 DEF Conn
    <3>4. CASE /\ conf.json1 /\ worker' = [worker EXCEPT !.pc = "done", !.left = 0]
               /\ backlog' = backlog
      <4>1. worker'.pc = "done" /\ worker'.err = worker.err /\ worker'.testID = worker.testID
        BY <3>4, <1>1 DEF WorkerState
      <4>2. Joined' BY <4>1, <3>4, <2>5, <1>2, <1>3, <1>7 DEF Joined
      <4>3. ErrTrue' BY <4>1, <1>2 DEF ErrTrue
      <4>4. QED BY <4>2, <4>3, <3>4, <1>4 DEF Conn
    <3>5. QED BY <3>1, <3>2, <3>3, <3>4, <2>2
  <2>6. CASE Dropped /\ f \in TrueReply /\ Tail(replies) \in Seq(TrueReply)
    <3>1. /\ e = "token_rejected" => ~conf.token
          /\ e = "version" => ~conf.version
          /\ e = "capability" => ~conf.json2
          /\ e # "none"
      BY <2>6, <1>1, ReplyTrue
    <3>2. WorkerFails(e, Tail(replies)) BY <3>1, <2>2
    <3> HIDE DEF e
    <3>3. QED BY <3>1, <3>2, <2>3, <2>6, <1>11
  <2>7. QED BY <2>4, <2>5, <2>6
<1>15. QED
  BY <1>8, <1>9, <1>12, <1>13, <1>14 DEF WorkerStep

\* Every step keeps the invariant.
LEMMA HandStep ==
  ASSUME TypeInv, HandInv, [Next]_vars
  PROVE  HandInv'
<1>1. StrangerInv /\ CalledOnce /\ Conn /\ ErrTrue BY DEF HandInv
<1>2. StrangerInv' BY <1>1, StrangerStep
<1>3. CASE CoordStep
  <2>1. Conn' /\ CalledOnce' BY <1>1, <1>3, CoordConn
  <2>2. worker' = worker /\ conf' = conf
    BY <1>3 DEF CoordStep, Listen, Watch, AcceptForeign, AcceptPeer, AcceptFails, ReadHello,
                ReadCapabilities, ReadEOF, ReadTimeout, HandshakeFails
  <2>3. ErrTrue' BY <2>2, <1>1 DEF ErrTrue
  <2>4. QED BY <2>1, <2>3, <1>2 DEF HandInv
<1>4. CASE WorkerStep BY <1>1, <1>2, <1>4, WorkerConn DEF HandInv
<1>5. ASSUME conf' = conf, replies' = replies, shut' = shut, toPC1'[PC2] = toPC1[PC2],
             InBacklog' = InBacklog, CalledOnce',
             coord'.pc = coord.pc, coord'.cur = coord.cur, coord'.testID = coord.testID,
             worker'.pc = worker.pc, worker'.err = worker.err, worker'.testID = worker.testID
      PROVE  HandInv'
  <2>1. Conn' BY <1>1, <1>5, Aside
  <2>2. ErrTrue' BY <1>1, <1>5 DEF ErrTrue
  <2>3. QED BY <2>1, <2>2, <1>2, <1>5 DEF HandInv
<1>6. ASSUME backlog' = backlog PROVE InBacklog' = InBacklog /\ CalledOnce'
  BY <1>1, <1>6 DEF InBacklog, CalledOnce
<1>7. CASE Tick
  <2>1. /\ coord'.pc = coord.pc /\ coord'.cur = coord.cur /\ coord'.testID = coord.testID
        /\ worker'.pc = worker.pc /\ worker'.err = worker.err
        /\ worker'.testID = worker.testID
    BY <1>7, Types DEF Tick, CoordState, WorkerState
  <2>2. QED BY <2>1, <1>5, <1>6, <1>7 DEF Tick
<1>8. ASSUME NEW s \in Stranger, StrangerConnects(s) PROVE HandInv'
  <2>1. s # PC2 /\ s \in Caller BY CallerAssumption DEF Caller
  <2>2. CalledOnce' /\ InBacklog' = InBacklog
    BY <2>1, <1>1, <1>8, QueueAppend DEF StrangerConnects
  <2>3. QED BY <2>2, <1>5, <1>8 DEF StrangerConnects
<1>9. ASSUME NEW s \in Stranger, StrangerLeaves(s) PROVE HandInv'
  BY <1>5, <1>6, <1>9 DEF StrangerLeaves
<1>10. ASSUME NEW s \in Stranger, NEW f \in StrangerFrame, StrangerSends(s, f) PROVE HandInv'
  <2>1. s # PC2 BY CallerAssumption
  <2>2. toPC1'[PC2] = toPC1[PC2] BY <2>1, <1>10, Types DEF StrangerSends
  <2>3. QED BY <2>2, <1>5, <1>6, <1>10 DEF StrangerSends
<1>11. ASSUME NEW side \in {"PC1", "PC2"}, Cancel(side) PROVE HandInv'
  BY <1>5, <1>6, <1>11 DEF Cancel
<1>12. CASE UNCHANGED vars BY <1>5, <1>6, <1>12 DEF vars
<1>13. QED
  BY <1>3, <1>4, <1>7, <1>8, <1>9, <1>10, <1>11, <1>12 DEF Next

\* The invariant before anything has happened.
LEMMA HandInit == Init => HandInv
<1> SUFFICES ASSUME Init PROVE HandInv OBVIOUS
<1>1. coord.pc = "start" /\ coord.cur = NoCaller /\ worker.pc = "dial" /\ worker.err = "none"
  BY DEF Init
<1>2. backlog = << >> /\ replies = << >> /\ shut = {} /\ toPC1 = [c \in Caller |-> << >>]
  BY DEF Init
<1>3. PC2 # NoCaller /\ PC2 \in Caller /\ Stranger \subseteq Caller
  BY CallerAssumption DEF Caller
<1>4. Len(<< >>) = 0 OBVIOUS
<1>5. CalledOnce /\ ~InBacklog BY <1>2, <1>4 DEF CalledOnce, InBacklog
<1>6. StrangerInv BY <1>1, <1>2, <1>3, <1>4 DEF StrangerInv
<1>7. NotCalled BY <1>1, <1>2, <1>3, <1>5 DEF NotCalled
<1>8. ErrTrue BY <1>1 DEF ErrTrue
<1>9. QED BY <1>5, <1>6, <1>7, <1>8 DEF HandInv, Conn

\* Types and connection together are inductive.
LEMMA HandshakeInductive == Spec => [](TypeInv /\ HandInv)
<1>1. TypeInv /\ HandInv /\ [Next]_vars => (TypeInv /\ HandInv)'
  BY TypeStep, HandStep DEF HandInv
<1>2. QED BY TypeInit, HandInit, <1>1, PTL DEF Spec

\* The state of both sides of the handshake, the accept queue and the open
\* connections is typed.
THEOREM TypeCorrect == Spec => []TypeOK
<1>1. TypeInv /\ HandInv => TypeOK BY DEF TypeInv
<1>2. QED BY HandshakeInductive, <1>1, PTL

\* A side that has its connection shares it, and its test ID, with the other:
\* whatever callers came before, whatever they sent and however the deadlines
\* fell, establishCoordinator and establishWorker end in the same session.
THEOREM SameSessionCorrect == Spec => []SameSession
<1>1. TypeInv /\ HandInv => SameSession
  <2> SUFFICES ASSUME TypeInv, HandInv PROVE SameSession OBVIOUS
  <2>1. Conn /\ (coord.pc = "done" => coord.cur = PC2) BY DEF HandInv, StrangerInv
  <2>2. worker.pc = "done" => Joined
    BY <2>1 DEF Conn, NotCalled, Queued, Greeting, Greeted, Acked, Presented, Dropped, Late,
                Fell
  <2>3. coord.pc = "done" => Joined
    BY <2>1 DEF Conn, NotCalled, Queued, Greeting, Acked, Presented, Dropped, Serving
  <2>4. Joined =>
          /\ coord.pc = "done" /\ coord.cur = PC2 /\ worker.testID = coord.testID
          /\ worker.pc \in {"failed", "aborted"} => worker.err \in {"capability", "timeout"}
    BY DEF Joined, Serving, Late, Fell
  <2>5. QED BY <2>2, <2>3, <2>4 DEF SameSession
<1>2. QED BY HandshakeInductive, <1>1, PTL

\* What the worker tells its user of tokens, versions and tools is true of the
\* two configurations, and no pair of sides is connected that fails a check.
THEOREM DiagnosisCorrect == Spec => []DiagnosisTrue
<1>1. TypeInv /\ HandInv => DiagnosisTrue
  <2> SUFFICES ASSUME TypeInv, HandInv PROVE DiagnosisTrue OBVIOUS
  <2>1. Conn /\ ErrTrue /\ (coord.pc = "done" => coord.cur = PC2) BY DEF HandInv, StrangerInv
  <2>2. conf \in Conf BY Types
  <2>3. worker.pc = "done" => Joined
    BY <2>1 DEF Conn, NotCalled, Queued, Greeting, Greeted, Acked, Presented, Dropped, Late,
                Fell
  <2>4. coord.pc = "done" => Joined
    BY <2>1 DEF Conn, NotCalled, Queued, Greeting, Acked, Presented, Dropped, Serving
  <2>5. Joined => conf.version /\ conf.token /\ conf.claims /\ conf.json2
    BY DEF Joined, Through
  <2>6. worker.pc = "done" => conf.json1 BY <2>3 DEF Joined, Late, Fell
  <2>7. DOMAIN conf = {"version", "token", "claims", "json1", "json2"} BY <2>2 DEF Conf
  <2>8. worker.pc = "done" => Matching(conf) BY <2>3, <2>5, <2>6, <2>7 DEF Matching
  <2>9. QED BY <2>1, <2>4, <2>5, <2>8 DEF DiagnosisTrue, ErrTrue
<1>2. QED BY HandshakeInductive, <1>1, PTL

-----------------------------------------------------------------------------
(* The worker's turn                                                       *)

\* The callers PC1 has served in vain.
Failures == coord.strikes + coord.retries

\* How long the caller being served, if it is not the worker, has had.
Held == IF coord.pc = "hello" /\ coord.cur # PC2 THEN HelloDeadline - coord.left ELSE 0

\* A product of naturals, one factor taken down by one.
LEMMA TakeOne ==
  ASSUME NEW n \in Nat, NEW d \in Nat
  PROVE  n * d \in Nat /\ (n + 1) * d = n * d + d
OBVIOUS

\* Fewer times less.
LEMMA FewerTimes ==
  ASSUME NEW m \in Nat, NEW n \in Nat, NEW d \in Nat, m <= n
  PROVE  m * d <= n * d
<1>1. n - m \in Nat /\ (n - m) * d \in Nat OBVIOUS
<1>2. n * d = m * d + (n - m) * d OBVIOUS
<1>3. m * d \in Nat /\ n * d \in Nat OBVIOUS
<1>4. QED BY <1>1, <1>2, <1>3

\* What the coordinator's side of the accept loop keeps to, whoever calls.
Manners ==
  /\ PC2 \in fromPeer
  /\ \A s \in Stranger : toPC1[s] \in Seq(StrangerFrame)
  /\ coord.pc = "caps" => coord.cur = PC2
  /\ coord.pc = "hello" => coord.left <= HelloDeadline

\* The worker may be turned away.
Excused ==
  coord.pc \in {"failed", "aborted"} \/ "PC1" \in cancelled \/ ~Covers(Failures + 1)

\* Where the worker's time went: to the callers before it, at most a hello
\* timeout each, and to delays.
Accounted ==
  HandshakeTimeout <= worker.left + Failures * HelloDeadline + Held + worker.lag

\* The worker's call is on its way to be served, in time.
InTime ==
  /\ PC2 \notin shut \cup gone
  /\ Fell => worker.err = "dial"
  /\ worker.lag <= MaxLag
  /\ worker.pc \in {"ack", "caps"} => Accounted
  /\ coord.pc \in {"hello", "caps"} /\ coord.cur = PC2 =>
       HandshakeTimeout <= coord.total + worker.lag
  /\ coord.pc = "hello" /\ coord.cur = PC2 => HelloDeadline <= coord.left + worker.lag
  /\ coord.pc = "caps" /\ coord.cur = PC2 => HandshakeTimeout <= coord.left + worker.lag

TurnInv == Manners /\ (Matching(conf) => Excused \/ InTime)

\* A failed handshake is counted at most once, and once if the accept loop
\* survives it.
LEMMA Counted ==
  ASSUME coord \in CoordState, NEW err \in CoordError
  PROVE  /\ Strike(err).strikes + Strike(err).retries >= Failures
         /\ Strike(err).pc = "accept" =>
              Strike(err).strikes + Strike(err).retries = Failures + 1
<1> DEFINE n == coord.strikes + IF err = "auth" THEN 1 ELSE 0
           m == coord.retries + IF err \in Retryable \ {"auth"} THEN 1 ELSE 0
           over == \/ err \notin Retryable
                   \/ err = "auth" /\ n >= maxAuthStrikes
                   \/ err # "auth" /\ m >= maxHandshakeRetries
           q == IF over THEN Verdict("PC1") ELSE "accept"
<1>1. n \in Nat /\ m \in Nat /\ coord.strikes \in Nat /\ coord.retries \in Nat
  BY DEF CoordState
<1>2. Verdict("PC1") # "accept" BY DEF Verdict
<1>3. Strike(err) = [coord EXCEPT !.pc = q, !.cur = NoCaller, !.left = 0, !.total = 0,
                                  !.testID = 0, !.strikes = n, !.retries = m, !.err = err]
  BY DEF Strike
<1>4. n + m >= coord.strikes + coord.retries BY <1>1
<1>5. err \in Retryable => n + m = coord.strikes + coord.retries + 1
  <2>1. err = "auth" => n = coord.strikes + 1 /\ m = coord.retries BY <1>1
  <2>2. err \in Retryable \ {"auth"} => n = coord.strikes /\ m = coord.retries + 1 BY <1>1
  <2> HIDE DEF n, m
  <2>3. QED BY <2>1, <2>2, <1>1
<1>6. q = "accept" => err \in Retryable BY <1>2
<1> HIDE DEF n, m, over, q
<1>7. Strike(err).strikes = n /\ Strike(err).retries = m /\ Strike(err).pc = q
  BY <1>3 DEF CoordState
<1>8. QED BY <1>4, <1>5, <1>6, <1>7 DEF Failures

\* A failed handshake keeps to them.
LEMMA FailManners ==
  ASSUME TypeInv, Manners, coord.pc \in {"hello", "caps"}, NEW err \in CoordError,
         NEW farewell, HandshakeFails(err, farewell)
  PROVE  Manners'
<1>1. coord \in CoordState /\ coord.cur \in Caller BY Types
<1>2. coord' = Strike(err) /\ toPC1' = [toPC1 EXCEPT ![coord.cur] = << >>]
      /\ fromPeer' = fromPeer
  BY DEF HandshakeFails
<1>3. coord'.pc \in {"accept", "failed", "aborted"} BY <1>1, <1>2, StrikeType
<1>4. \A s \in Stranger : toPC1'[s] \in Seq(StrangerFrame)
  <2> TAKE s \in Stranger
  <2>1. s \in Caller /\ toPC1[s] \in Seq(StrangerFrame) BY DEF Caller, Manners
  <2>2. QED BY <2>1, <1>2, Types
<1>5. QED BY <1>2, <1>3, <1>4 DEF Manners

\* Every step keeps to them, when no stranger knows
\* the token and the claims PC1 expects.
LEMMA MannersStep ==
  ASSUME TypeInv, StrangerInv, Manners, [Next]_vars,
         \A f \in StrangerFrame : HelloError(f) # "none"
  PROVE  Manners'
<1>1. /\ coord \in CoordState /\ toPC1 \in [Caller -> Seq(Frame)] /\ PC2 \in Caller
      /\ Stranger \subseteq Caller /\ PC2 \notin Stranger
      /\ coord.pc \in {"hello", "caps"} => coord.cur \in Caller
  BY Types, CallerAssumption DEF Caller
<1>2. /\ PC2 \in fromPeer /\ \A s \in Stranger : toPC1[s] \in Seq(StrangerFrame)
      /\ coord.pc = "caps" => coord.cur = PC2
      /\ coord.pc = "hello" => coord.left <= HelloDeadline
  BY DEF Manners
<1>3. fromPeer' = fromPeer
  BY DEF Next, CoordStep, WorkerStep, Listen, Watch, AcceptForeign, AcceptPeer, AcceptFails,
         ReadHello, ReadCapabilities, ReadEOF, ReadTimeout, HandshakeFails, DialSucceeds,
         DialFails, DialAgain, ReadHelloAck, ReadPeerCapabilities, WorkerGivesUp, WorkerFails,
         StrangerConnects, StrangerLeaves, StrangerSends, Cancel, Tick, vars
<1>4. ASSUME toPC1' = toPC1, coord' = coord PROVE Manners'
  BY <1>3, <1>4 DEF Manners
<1>5. ASSUME NEW f, toPC1' = [toPC1 EXCEPT ![PC2] = f], coord' = coord PROVE Manners'
  <2>1. \A s \in Stranger : toPC1'[s] = toPC1[s] BY <1>1, <1>5
  <2>2. QED BY <2>1, <1>3, <1>5 DEF Manners
<1>6. CASE Listen
  <2>1. coord'.pc = "accept" /\ toPC1' = toPC1
    BY <1>1, <1>6 DEF Listen, CoordState
  <2>2. QED BY <2>1, <1>2, <1>3 DEF Manners
<1>7. CASE Watch \/ AcceptForeign BY <1>4, <1>7 DEF Watch, AcceptForeign
<1>8. CASE AcceptPeer
  <2>1. coord'.pc = "hello" /\ coord'.left = HelloDeadline /\ toPC1' = toPC1
    BY <1>1, <1>8 DEF AcceptPeer, CoordState
  <2>2. HelloDeadline <= HelloDeadline BY TimeAssumption DEF HelloDeadline
  <2>3. QED BY <2>1, <2>2, <1>2, <1>3 DEF Manners
<1>9. CASE AcceptFails
  <2>1. coord'.pc \in {"failed", "aborted"} /\ toPC1' = toPC1
    BY <1>1, <1>9 DEF AcceptFails, CoordState, Verdict
  <2>2. QED BY <2>1, <1>2, <1>3 DEF Manners
<1>10. CASE ReadEOF \/ ReadTimeout
  <2>1. "protocol" \in CoordError /\ "timeout" \in CoordError BY DEF CoordError
  <2>2. QED BY <2>1, <1>10, FailManners DEF ReadEOF, ReadTimeout
<1>11. CASE ReadHello
  <2> DEFINE c == coord.cur
             e == HelloError(Head(toPC1[c]))
  <2>1. coord.pc = "hello" /\ toPC1[c] # << >> /\ c \in Caller
    BY <1>1, <1>11 DEF ReadHello, Readable
  <2>2. e \in CoordError BY HelloErrors DEF CoordError
  <2>3. \/ HandshakeFails(e, <<abort(AbortReason(e))>>)
        \/ /\ e = "none"
           /\ coord' = [coord EXCEPT !.pc = "caps", !.left = coord.total, !.testID = newTestID]
           /\ toPC1' = [toPC1 EXCEPT ![c] = Tail(toPC1[c])]
    BY <1>11 DEF ReadHello
  <2>4. c # PC2 => e # "none"
    <3>1. SUFFICES ASSUME c # PC2 PROVE e # "none" OBVIOUS
    <3>2. toPC1[c] \in Seq(StrangerFrame) BY <3>1, <2>1, <1>2 DEF Caller
    <3>3. Head(toPC1[c]) \in StrangerFrame BY <3>2, <2>1
    <3>4. QED BY <3>3
  <2> HIDE DEF e
  <2>5. CASE HandshakeFails(e, <<abort(AbortReason(e))>>)
    BY <2>1, <2>2, <2>5, FailManners
  <2>6. CASE /\ e = "none"
             /\ coord' = [coord EXCEPT !.pc = "caps", !.left = coord.total,
                                       !.testID = newTestID]
             /\ toPC1' = [toPC1 EXCEPT ![c] = Tail(toPC1[c])]
    <3>1. c = PC2 BY <2>4, <2>6
    <3>2. coord'.pc = "caps" /\ coord'.cur = c BY <2>1, <2>6, <1>1 DEF CoordState
    <3>3. \A s \in Stranger : toPC1'[s] = toPC1[s] BY <3>1, <2>6, <1>1
    <3>4. QED BY <3>1, <3>2, <3>3, <1>2, <1>3 DEF Manners
  <2>7. QED BY <2>3, <2>5, <2>6
<1>12. CASE ReadCapabilities
  <2> DEFINE c == coord.cur
             e == CapsError(Head(toPC1[c]), coord.testID)
  <2>1. coord.pc = "caps" /\ c = PC2 BY <1>2, <1>12 DEF ReadCapabilities
  <2>2. e \in CoordError /\ "protocol" \in CoordError BY CapsErrors DEF CoordError
  <2>3. \/ HandshakeFails(e, <<abort(AbortReason(e))>>)
        \/ HandshakeFails("protocol", << >>)
        \/ /\ coord' = [coord EXCEPT !.pc = "done", !.left = 0, !.total = 0]
           /\ toPC1' = [toPC1 EXCEPT ![c] = Tail(toPC1[c])]
    BY <1>12 DEF ReadCapabilities
  <2> HIDE DEF e
  <2>4. CASE \/ HandshakeFails(e, <<abort(AbortReason(e))>>)
             \/ HandshakeFails("protocol", << >>)
    BY <2>1, <2>2, <2>4, FailManners
  <2>5. CASE /\ coord' = [coord EXCEPT !.pc = "done", !.left = 0, !.total = 0]
             /\ toPC1' = [toPC1 EXCEPT ![c] = Tail(toPC1[c])]
    <3>1. coord'.pc = "done" BY <2>5, <1>1 DEF CoordState
    <3>2. \A s \in Stranger : toPC1'[s] = toPC1[s] BY <2>1, <2>5, <1>1
    <3>3. QED BY <3>1, <3>2, <1>2, <1>3 DEF Manners
  <2>6. QED BY <2>3, <2>4, <2>5
<1>13. CASE WorkerStep
  <2>1. coord' = coord
    BY <1>13 DEF WorkerStep, DialSucceeds, DialFails, DialAgain, ReadHelloAck,
                 ReadPeerCapabilities, WorkerGivesUp, WorkerFails
  <2>2. \/ toPC1' = toPC1
        \/ toPC1' = [toPC1 EXCEPT ![PC2] = Append(toPC1[PC2], hello(conf))]
        \/ toPC1' = [toPC1 EXCEPT ![PC2] =
                       Append(toPC1[PC2], caps(conf.version, Head(replies).testID, conf.json2))]
    BY <1>13 DEF WorkerStep, DialSucceeds, DialFails, DialAgain, ReadHelloAck,
                 ReadPeerCapabilities, WorkerGivesUp, WorkerFails
  <2>3. QED BY <2>1, <2>2, <1>4, <1>5
<1>14. CASE Tick
  <2>1. /\ coord'.pc = coord.pc /\ coord'.cur = coord.cur
        /\ coord'.left = Down(coord.left) /\ toPC1' = toPC1
    BY <1>1, <1>14 DEF Tick, CoordState
  <2>2. coord.left \in Nat /\ HelloDeadline \in Nat
    BY <1>1, TimeAssumption DEF CoordState, HelloDeadline
  <2>3. coord.left <= HelloDeadline => Down(coord.left) <= HelloDeadline BY <2>2 DEF Down
  <2>4. QED BY <2>1, <2>3, <1>2, <1>3 DEF Manners
<1>15. ASSUME NEW s \in Stranger, StrangerConnects(s) \/ StrangerLeaves(s) PROVE Manners'
  BY <1>4, <1>15 DEF StrangerConnects, StrangerLeaves
<1>16. ASSUME NEW s \in Stranger, NEW f \in StrangerFrame, StrangerSends(s, f) PROVE Manners'
  <2>1. toPC1' = [toPC1 EXCEPT ![s] = Append(toPC1[s], f)] /\ coord' = coord
    BY <1>16 DEF StrangerSends
  <2>2. \A r \in Stranger : toPC1'[r] \in Seq(StrangerFrame)
    <3> TAKE r \in Stranger
    <3>1. Append(toPC1[s], f) \in Seq(StrangerFrame) BY <1>2
    <3>2. QED BY <3>1, <2>1, <1>1, <1>2
  <2>3. QED BY <2>1, <2>2, <1>2, <1>3 DEF Manners
<1>17. CASE UNCHANGED vars BY <1>4, <1>17 DEF vars
<1>18. ASSUME NEW side \in {"PC1", "PC2"}, Cancel(side) PROVE Manners'
  BY <1>4, <1>18 DEF Cancel
<1>19. QED
  BY <1>6, <1>7, <1>8, <1>9, <1>10, <1>11, <1>12, <1>13, <1>14, <1>15, <1>16, <1>17, <1>18
  DEF Next, CoordStep

\* No step takes a failure back.
LEMMA FailuresGrow ==
  ASSUME TypeInv, [Next]_vars
  PROVE  Failures \in Nat /\ Failures' \in Nat /\ Failures' >= Failures
<1>1. coord \in CoordState /\ coord.strikes \in Nat /\ coord.retries \in Nat
  BY Types DEF CoordState
<1>2. Failures \in Nat BY <1>1 DEF Failures
<1>3. ASSUME NEW err \in CoordError, coord' = Strike(err)
      PROVE  Failures \in Nat /\ Failures' \in Nat /\ Failures' >= Failures
  <2>1. coord' \in CoordState BY <1>1, <1>3, StrikeType
  <2>2. coord'.strikes \in Nat /\ coord'.retries \in Nat BY <2>1 DEF CoordState
  <2>3. Failures' = coord'.strikes + coord'.retries BY DEF Failures
  <2>4. Failures' >= Failures BY <2>3, <1>1, <1>3, Counted
  <2>5. QED BY <2>2, <2>3, <2>4, <1>2
<1>4. ASSUME coord'.strikes = coord.strikes, coord'.retries = coord.retries
      PROVE  Failures \in Nat /\ Failures' \in Nat /\ Failures' >= Failures
  <2>1. Failures' = Failures BY <1>4 DEF Failures
  <2>2. QED BY <2>1, <1>2
<1>5. "protocol" \in CoordError /\ "timeout" \in CoordError BY DEF CoordError
<1>6. CASE ReadEOF \/ ReadTimeout
  BY <1>3, <1>5, <1>6 DEF ReadEOF, ReadTimeout, HandshakeFails
<1>7. CASE ReadHello
  <2> DEFINE e == HelloError(Head(toPC1[coord.cur]))
  <2>1. e \in CoordError BY HelloErrors DEF CoordError
  <2>2. \/ coord' = Strike(e)
        \/ coord' = [coord EXCEPT !.pc = "caps", !.left = coord.total, !.testID = newTestID]
    BY <1>7 DEF ReadHello, HandshakeFails
  <2> HIDE DEF e
  <2>3. CASE coord' = [coord EXCEPT !.pc = "caps", !.left = coord.total, !.testID = newTestID]
    BY <2>3, <1>1, <1>4 DEF CoordState
  <2>4. QED BY <2>1, <2>2, <2>3, <1>3
<1>8. CASE ReadCapabilities
  <2> DEFINE e == CapsError(Head(toPC1[coord.cur]), coord.testID)
  <2>1. e \in CoordError BY CapsErrors DEF CoordError
  <2>2. \/ coord' = Strike(e) \/ coord' = Strike("protocol")
        \/ coord' = [coord EXCEPT !.pc = "done", !.left = 0, !.total = 0]
    BY <1>8 DEF ReadCapabilities, HandshakeFails
  <2> HIDE DEF e
  <2>3. CASE coord' = [coord EXCEPT !.pc = "done", !.left = 0, !.total = 0]
    BY <2>3, <1>1, <1>4 DEF CoordState
  <2>4. QED BY <2>1, <2>2, <2>3, <1>3, <1>5
<1>9. CASE Listen \/ AcceptPeer \/ AcceptFails \/ Tick
  BY <1>1, <1>4, <1>9 DEF Listen, AcceptPeer, AcceptFails, Tick, CoordState
<1>10. ASSUME coord' = coord PROVE Failures \in Nat /\ Failures' \in Nat /\ Failures' >= Failures
  BY <1>4, <1>10
<1>11. CASE Watch \/ AcceptForeign BY <1>10, <1>11 DEF Watch, AcceptForeign
<1>12. CASE WorkerStep
  BY <1>10, <1>12 DEF WorkerStep, DialSucceeds, DialFails, DialAgain, ReadHelloAck,
       ReadPeerCapabilities, WorkerGivesUp, WorkerFails
<1>13. ASSUME NEW s \in Stranger, NEW f \in StrangerFrame, StrangerSends(s, f)
       PROVE  Failures \in Nat /\ Failures' \in Nat /\ Failures' >= Failures
  BY <1>10, <1>13 DEF StrangerSends
<1>14. ASSUME NEW s \in Stranger, StrangerConnects(s) \/ StrangerLeaves(s)
       PROVE  Failures \in Nat /\ Failures' \in Nat /\ Failures' >= Failures
  BY <1>10, <1>14 DEF StrangerConnects, StrangerLeaves
<1>15. ASSUME NEW side \in {"PC1", "PC2"}, Cancel(side)
       PROVE  Failures \in Nat /\ Failures' \in Nat /\ Failures' >= Failures
  BY <1>10, <1>15 DEF Cancel
<1>16. CASE UNCHANGED vars BY <1>10, <1>16 DEF vars
<1>17. QED
  BY <1>2, <1>6, <1>7, <1>8, <1>9, <1>11, <1>12, <1>13, <1>14, <1>15, <1>16 DEF Next, CoordStep

\* A coordinator that has given up does not come back, and an interrupted one
\* stays interrupted.
LEMMA ExcusedStays ==
  ASSUME TypeInv, Excused, [Next]_vars
  PROVE  Excused'
<1>1. CASE "PC1" \in cancelled
  <2>1. cancelled \subseteq cancelled'
    BY DEF Next, CoordStep, WorkerStep, Listen, Watch, AcceptForeign, AcceptPeer, AcceptFails,
           ReadHello, ReadCapabilities, ReadEOF, ReadTimeout, HandshakeFails, DialSucceeds,
           DialFails, DialAgain, ReadHelloAck, ReadPeerCapabilities, WorkerGivesUp,
           WorkerFails, StrangerConnects, StrangerLeaves, StrangerSends, Cancel, Tick, vars
  <2>2. QED BY <2>1, <1>1 DEF Excused
<1>2. CASE coord.pc \in {"failed", "aborted"}
  <2>1. coord \in CoordState BY Types
  <2>2. coord'.pc = coord.pc
    BY <2>1, <1>2 DEF Next, CoordStep, WorkerStep, Listen, Watch, AcceptForeign, AcceptPeer,
       AcceptFails, ReadHello, ReadCapabilities, ReadEOF, ReadTimeout, DialSucceeds, DialFails,
       DialAgain, ReadHelloAck, ReadPeerCapabilities, WorkerGivesUp, WorkerFails,
       StrangerConnects, StrangerLeaves, StrangerSends, Cancel, Tick, vars, CoordState
  <2>3. QED BY <2>2, <1>2 DEF Excused
<1>3. CASE ~Covers(Failures + 1)
  <2> DEFINE k == Failures + 1
             l == Failures' + 1
  <2>1. k \in Nat /\ l \in Nat /\ k <= l BY FailuresGrow
  <2>2. HelloTimeout \in Nat /\ HandshakeTimeout \in Nat /\ MaxLag \in Nat BY TimeAssumption
  <2> HIDE DEF k, l
  <2>3. k * HelloTimeout <= l * HelloTimeout /\ k * HelloTimeout \in Nat
        /\ l * HelloTimeout \in Nat
    BY <2>1, <2>2, FewerTimes, TakeOne
  <2>4. Covers(l) => Covers(k) BY <2>2, <2>3 DEF Covers
  <2>5. ~Covers(l) BY <2>4, <1>3 DEF k
  <2>6. QED BY <2>5 DEF l, Excused, Covers, Failures
<1>4. QED BY <1>1, <1>2, <1>3 DEF Excused

\* While the time of the worker covers the callers before it, it has some left,
\* and the coordinator serving it has some left for it.
LEMMA TimeLeft ==
  ASSUME TypeInv, Manners, InTime, ~Excused
  PROVE  /\ HelloDeadline = HelloTimeout
         /\ worker.pc \in {"ack", "caps"} => worker.left > 0
         /\ coord.pc \in {"hello", "caps"} /\ coord.cur = PC2 => coord.left > 0
<1>1. /\ coord.left \in Nat /\ coord.total \in Nat /\ worker.left \in Nat
      /\ worker.lag \in Nat /\ coord.strikes \in Nat /\ coord.retries \in Nat
  BY Types DEF CoordState, WorkerState
<1>2. HelloTimeout \in Nat /\ HandshakeTimeout \in Nat /\ MaxLag \in Nat BY TimeAssumption
<1> DEFINE k == Failures
<1>3. k \in Nat BY <1>1 DEF Failures
<1>4. MaxLag < HelloTimeout /\ (k + 1) * HelloTimeout + MaxLag < HandshakeTimeout
  BY DEF Excused, Covers
<1> HIDE DEF k
<1> DEFINE p == k * HelloTimeout
<1>5. p \in Nat /\ (k + 1) * HelloTimeout = p + HelloTimeout BY <1>2, <1>3, TakeOne
<1> HIDE DEF p
<1>6. p + HelloTimeout + MaxLag < HandshakeTimeout BY <1>4, <1>5
<1>7. HelloTimeout < HandshakeTimeout BY <1>2, <1>5, <1>6
<1>8. HelloDeadline = HelloTimeout BY <1>7 DEF HelloDeadline
<1>9. Held \in Nat /\ Held <= HelloTimeout BY <1>1, <1>2, <1>8 DEF Held, Manners
<1>10. worker.lag <= MaxLag BY DEF InTime
<1>11. ASSUME worker.pc \in {"ack", "caps"} PROVE worker.left > 0
  <2>1. HandshakeTimeout <= worker.left + p + Held + worker.lag
    BY <1>8, <1>11 DEF InTime, Accounted, k, p
  <2>2. QED BY <2>1, <1>1, <1>2, <1>5, <1>6, <1>9, <1>10
<1>12. ASSUME coord.pc \in {"hello", "caps"}, coord.cur = PC2 PROVE coord.left > 0
  <2>1. CASE coord.pc = "hello"
    <3>1. HelloTimeout <= coord.left + worker.lag BY <2>1, <1>8, <1>12 DEF InTime
    <3>2. QED BY <3>1, <1>1, <1>2, <1>4, <1>10
  <2>2. CASE coord.pc = "caps"
    <3>1. HandshakeTimeout <= coord.left + worker.lag BY <2>2, <1>12 DEF InTime
    <3>2. QED BY <3>1, <1>1, <1>2, <1>5, <1>6, <1>7, <1>10, <1>4
  <2>3. QED BY <2>1, <2>2, <1>12
<1>13. QED BY <1>8, <1>11, <1>12

\* A rightly configured worker passes every check.
LEMMA Welcome ==
  ASSUME conf \in Conf, Matching(conf)
  PROVE  /\ conf.version /\ conf.json1 /\ conf.json2
         /\ HelloError(hello(conf)) = "none"
         /\ \A t : CapsError(caps(conf.version, t, conf.json2), t) = "none"
<1>1. DOMAIN conf = {"version", "token", "claims", "json1", "json2"} BY DEF Conf
<1>2. conf.version /\ conf.token /\ conf.claims /\ conf.json1 /\ conf.json2
  BY <1>1 DEF Matching
<1>3. HelloError(hello(conf)) = "none"
  <2> DEFINE h == hello(conf)
  <2>1. h.kind = "hello" /\ h.version /\ h.token /\ h.claims BY <1>2 DEF hello
  <2> HIDE DEF h
  <2>2. HelloError(h) = "none" BY <2>1 DEF HelloError
  <2>3. QED BY <2>2 DEF h
<1>4. ASSUME NEW t PROVE CapsError(caps(conf.version, t, conf.json2), t) = "none"
  <2> DEFINE f == caps(conf.version, t, conf.json2)
  <2>1. f.kind = "capabilities" /\ f.version /\ f.testID = t /\ f.json BY <1>2 DEF caps
  <2> HIDE DEF f
  <2>2. CapsError(f, t) = "none" BY <2>1 DEF CapsError
  <2>3. QED BY <2>2 DEF f
<1>5. QED BY <1>2, <1>3, <1>4

\* The failure of a caller ahead of the worker costs it no more than a hello
\* timeout.
LEMMA FailInTime ==
  ASSUME TypeInv, Manners, InTime, coord.pc = "hello", coord.cur # PC2,
         NEW err \in CoordError, NEW farewell, HandshakeFails(err, farewell)
  PROVE  Excused' \/ InTime'
<1>1. /\ coord \in CoordState /\ coord.strikes \in Nat /\ coord.retries \in Nat
      /\ coord.left \in Nat /\ worker.left \in Nat /\ worker.lag \in Nat
  BY Types DEF CoordState, WorkerState
<1>2. coord' = Strike(err) /\ worker' = worker /\ gone' = gone BY DEF HandshakeFails
<1>3. coord'.pc \in {"accept", "failed", "aborted"} /\ coord'.cur = NoCaller
  BY <1>1, <1>2, StrikeType
<1>4. CASE coord'.pc # "accept" BY <1>3, <1>4 DEF Excused
<1>5. CASE coord'.pc = "accept"
  <2>1. ~Ended(coord') BY <1>5 DEF Ended
  <2>2. shut' = shut \cup {coord.cur} BY <2>1 DEF HandshakeFails
  <2>3. ASSUME worker.pc \in {"ack", "caps"} PROVE Accounted'
    <3> DEFINE d == HelloDeadline
               k == Failures
               t == HandshakeTimeout
    <3>1. d \in Nat /\ k \in Nat /\ t \in Nat BY <1>1, TimeAssumption DEF HelloDeadline, Failures
    <3>2. coord'.strikes + coord'.retries = k + 1 BY <1>1, <1>2, <1>5, Counted
    <3>3. Held = d - coord.left /\ coord.left <= d BY DEF Held, Manners
    <3>4. t <= worker.left + k * d + Held + worker.lag BY <2>3 DEF InTime, Accounted
    <3>5. Held' = 0 BY <1>5 DEF Held
    <3>6. Failures' = k + 1 BY <3>2 DEF Failures
    <3>7. HelloDeadline' = d BY DEF HelloDeadline
    <3> HIDE DEF d, k, t
    <3>8. k * d \in Nat /\ (k + 1) * d = k * d + d BY <3>1, TakeOne
    <3> DEFINE p == k * d
               q == (k + 1) * d
    <3>9. p \in Nat /\ q = p + d /\ t <= worker.left + p + (d - coord.left) + worker.lag
      BY <3>3, <3>4, <3>8
    <3> HIDE DEF p, q
    <3>10. t <= worker.left + q + 0 + worker.lag BY <3>1, <3>9, <1>1
    <3>11. QED BY <3>5, <3>6, <3>7, <3>10, <1>2 DEF Accounted, q, t
  <2>4. InTime' BY <2>2, <2>3, <1>2, <1>3, <1>5 DEF InTime, Fell
  <2>5. QED BY <2>4
<1>6. QED BY <1>4, <1>5

\* A step of the coordinator serves a rightly configured worker in time.
LEMMA CoordInTime ==
  ASSUME TypeInv, HandInv, Manners, Matching(conf), InTime, ~Excused, CoordStep,
         \A f \in StrangerFrame : HelloError(f) # "none"
  PROVE  Excused' \/ InTime'
<1>1. /\ coord \in CoordState /\ conf \in Conf /\ toPC1 \in [Caller -> Seq(Frame)]
      /\ coord.left \in Nat /\ coord.total \in Nat /\ worker.lag \in Nat
      /\ PC2 \in Caller /\ PC2 # NoCaller
      /\ coord.pc \in {"hello", "caps"} => coord.cur \in Caller
  BY Types DEF CoordState, WorkerState
<1>2. Conn /\ StrangerInv BY DEF HandInv
<1>3. worker' = worker /\ gone' = gone
  BY DEF CoordStep, Listen, Watch, AcceptForeign, AcceptPeer, AcceptFails, ReadHello,
         ReadCapabilities, ReadEOF, ReadTimeout, HandshakeFails
<1>4. coord.pc \in {"start", "accept"} => coord.cur = NoCaller BY DEF TypeInv
<1>5. /\ PC2 \notin shut \cup gone /\ (Fell => worker.err = "dial")
      /\ worker.lag <= MaxLag
      /\ worker.pc \in {"ack", "caps"} => Accounted
      /\ coord.pc \in {"hello", "caps"} /\ coord.cur = PC2 =>
           HandshakeTimeout <= coord.total + worker.lag
  BY DEF InTime
<1>6. ASSUME Failures' = Failures, Held' = Held PROVE Accounted => Accounted'
  BY <1>3, <1>6 DEF Accounted, HelloDeadline
<1>7. CASE Listen
  <2>1. coord'.pc = "accept" /\ coord'.cur = NoCaller /\ coord'.strikes = coord.strikes
        /\ coord'.retries = coord.retries /\ shut' = shut /\ coord.pc = "start"
    BY <1>1, <1>4, <1>7 DEF Listen, CoordState
  <2>2. Accounted => Accounted' BY <2>1, <1>6 DEF Failures, Held
  <2>3. QED BY <2>1, <2>2, <1>1, <1>3, <1>5 DEF InTime, Fell
<1>8. CASE Watch
  <2>1. "PC1" \in cancelled' BY <1>8 DEF Watch, WatchFires
  <2>2. QED BY <2>1 DEF Excused
<1>9. CASE AcceptForeign
  <2>1. PC2 # Head(backlog) BY <1>9 DEF AcceptForeign, Manners
  <2>2. shut' = shut \cup {Head(backlog)} /\ coord' = coord BY <1>9 DEF AcceptForeign
  <2>3. Accounted => Accounted' BY <2>2, <1>6 DEF Failures, Held, HelloDeadline
  <2>4. QED BY <2>1, <2>2, <2>3, <1>3 DEF InTime, Fell, HelloDeadline
<1>10. CASE AcceptPeer
  <2>1. /\ coord.pc = "accept" /\ coord.cur = NoCaller /\ shut' = shut
        /\ coord'.pc = "hello" /\ coord'.cur = Head(backlog) /\ coord'.left = HelloDeadline
        /\ coord'.total = HandshakeTimeout /\ coord'.strikes = coord.strikes
        /\ coord'.retries = coord.retries
    BY <1>1, <1>4, <1>10 DEF AcceptPeer, CoordState
  <2>2. HelloDeadline \in Nat /\ HandshakeTimeout \in Nat BY TimeAssumption DEF HelloDeadline
  <2>3. HelloDeadline <= HelloDeadline + worker.lag
        /\ HandshakeTimeout <= HandshakeTimeout + worker.lag
        /\ HelloDeadline - HelloDeadline = 0
    BY <2>2, <1>1
  <2>4. HelloDeadline' = HelloDeadline BY DEF HelloDeadline
  <2>5. Held' = 0 /\ Held = 0 BY <2>1, <2>3, <2>4 DEF Held
  <2>6. Accounted => Accounted' BY <2>1, <2>5, <1>6 DEF Failures
  <2>7. QED BY <2>1, <2>3, <2>4, <2>6, <1>3, <1>5 DEF InTime, Fell
<1>11. CASE AcceptFails
  <2>1. coord'.pc \in {"failed", "aborted"} BY <1>1, <1>11 DEF AcceptFails, CoordState, Verdict
  <2>2. QED BY <2>1 DEF Excused
<1>12. "protocol" \in CoordError /\ "timeout" \in CoordError BY DEF CoordError
<1>13. CASE ReadEOF \/ ReadTimeout
  <2>1. coord.pc \in {"hello", "caps"} /\ (AtEOF \/ coord.left = 0)
    BY <1>13 DEF ReadEOF, ReadTimeout
  <2>2. coord.cur # PC2
    <3>1. coord.cur = PC2 => coord.left > 0 BY <2>1, TimeLeft
    <3>2. QED BY <3>1, <2>1, <1>1, <1>5 DEF AtEOF
  <2>3. coord.pc = "hello" BY <2>1, <2>2 DEF Manners
  <2>4. QED BY <2>2, <2>3, <1>12, <1>13, FailInTime DEF ReadEOF, ReadTimeout
<1>14. CASE ReadHello
  <2> DEFINE c == coord.cur
             e == HelloError(Head(toPC1[c]))
  <2>1. coord.pc = "hello" /\ toPC1[c] # << >> /\ c \in Caller
    BY <1>1, <1>14 DEF ReadHello, Readable
  <2>2. e \in CoordError BY HelloErrors DEF CoordError
  <2>3. \/ e # "none" /\ HandshakeFails(e, <<abort(AbortReason(e))>>)
        \/ /\ e = "none"
           /\ coord' = [coord EXCEPT !.pc = "caps", !.left = coord.total, !.testID = newTestID]
           /\ shut' = shut
    BY <1>14 DEF ReadHello
  <2>4. CASE c = PC2
    <3>1. Greeting BY <2>1, <2>4, <1>2, ServedNow
    <3>2. toPC1[c] = <<hello(conf)>> BY <3>1, <2>4 DEF Greeting, Greeted
    <3>3. Head(toPC1[c]) = hello(conf) BY <3>2
    <3>4. e = "none" BY <3>3, <1>1, Welcome
    <3>5. /\ coord'.pc = "caps" /\ coord'.cur = PC2 /\ coord'.left = coord.total
          /\ coord'.total = coord.total /\ shut' = shut
          /\ coord'.strikes = coord.strikes /\ coord'.retries = coord.retries
      BY <3>4, <2>3, <2>4, <1>1 DEF CoordState
    <3>6. Accounted => Accounted' BY <3>5, <2>4, <1>6 DEF Failures, Held
    <3>7. InTime' BY <3>5, <3>6, <2>1, <2>4, <1>3, <1>5 DEF InTime, Fell
    <3>8. QED BY <3>7
  <2>5. CASE c # PC2
    <3>1. c \in Stranger BY <2>1, <2>5 DEF Caller
    <3>2. Head(toPC1[c]) \in StrangerFrame BY <3>1, <2>1 DEF Manners
    <3>3. e # "none" BY <3>2
    <3>4. HandshakeFails(e, <<abort(AbortReason(e))>>) BY <3>3, <2>3
    <3> HIDE DEF e
    <3>5. QED BY <3>4, <2>1, <2>2, <2>5, FailInTime
  <2>6. QED BY <2>4, <2>5
<1>15. CASE ReadCapabilities
  <2> DEFINE c == coord.cur
             e == CapsError(Head(toPC1[c]), coord.testID)
  <2>1. coord.pc = "caps" /\ toPC1[c] # << >> /\ c = PC2
    BY <1>15 DEF ReadCapabilities, Readable, Manners
  <2>2. Presented BY <2>1, <1>2, ServedNow DEF Greeting, Serving, Acked
  <2>3. Head(toPC1[c]) = caps(conf.version, coord.testID, conf.json2)
    BY <2>1, <2>2 DEF Presented
  <2>4. e = "none" BY <2>3, <1>1, Welcome
  <2>5. coord' = [coord EXCEPT !.pc = "done", !.left = 0, !.total = 0] /\ CloseListener({})
    BY <2>1, <2>4, <1>5, <1>15 DEF ReadCapabilities
  <2>6. coord'.pc = "done" /\ coord'.cur = PC2 /\ coord'.strikes = coord.strikes
        /\ coord'.retries = coord.retries
    BY <2>1, <2>5, <1>1 DEF CoordState
  <2>7. ~InBacklog BY <2>2 DEF Presented, Serving
  <2>8. PC2 \notin shut' BY <2>5, <2>7, <1>5, QueueClosed
  <2>9. Accounted => Accounted' BY <2>1, <2>6, <1>6 DEF Failures, Held
  <2>10. InTime' BY <2>6, <2>8, <2>9, <1>3, <1>5 DEF InTime, Fell
  <2>11. QED BY <2>10
<1>16. QED
  BY <1>7, <1>8, <1>9, <1>10, <1>11, <1>13, <1>14, <1>15 DEF CoordStep

\* A step of a rightly configured worker keeps its call on its way.
LEMMA WorkerInTime ==
  ASSUME TypeInv, HandInv, Manners, Matching(conf), InTime, ~Excused, WorkerStep
  PROVE  InTime'
<1>1. /\ coord \in CoordState /\ worker \in WorkerState /\ conf \in Conf
      /\ coord.strikes \in Nat /\ coord.retries \in Nat /\ coord.left \in Nat
      /\ worker.left \in Nat /\ worker.lag \in Nat
  BY Types DEF CoordState, WorkerState
<1>2. Conn BY DEF HandInv
<1>3. coord' = coord /\ shut' = shut
  BY DEF WorkerStep, DialSucceeds, DialFails, DialAgain, ReadHelloAck, ReadPeerCapabilities,
         WorkerGivesUp, WorkerFails
<1>4. PC2 \notin shut \cup gone /\ (Fell => worker.err = "dial") BY DEF InTime
<1>5. ~Dropped BY <1>4 DEF Dropped
<1>6. Failures' = Failures /\ Held' = Held /\ HelloDeadline' = HelloDeadline
  BY <1>3 DEF Failures, Held, HelloDeadline
<1>7. ASSUME worker'.lag = worker.lag, gone' = gone, Fell' => worker'.err = "dial",
             worker'.pc \in {"ack", "caps"} => Accounted'
      PROVE  InTime'
  BY <1>3, <1>6, <1>7 DEF InTime
<1>8. CASE DialSucceeds
  <2>1. worker'.pc = "ack" /\ worker'.left = HandshakeTimeout /\ gone' = gone
        /\ worker'.lag = worker.lag
    BY <1>1, <1>8 DEF DialSucceeds, WorkerState
  <2> DEFINE p == Failures * HelloDeadline
  <2>2. HandshakeTimeout \in Nat /\ HelloDeadline \in Nat /\ Failures \in Nat
    BY <1>1, TimeAssumption DEF HelloDeadline, Failures
  <2>3. p \in Nat BY <2>2, TakeOne
  <2>4. Held \in Nat BY <2>2, <1>1 DEF Held, Manners
  <2> HIDE DEF p
  <2>5. HandshakeTimeout <= HandshakeTimeout + p + Held + worker.lag
    BY <2>2, <2>3, <2>4, <1>1
  <2>6. Accounted' BY <2>1, <2>5, <1>6 DEF Accounted, p
  <2>7. QED BY <2>1, <2>6, <1>7 DEF Fell
<1>9. CASE DialFails \/ DialAgain
  <2>1. gone' = gone BY <1>9 DEF DialFails, DialAgain
  <2>2. \/ worker'.pc \in {"dial", "wait"}
        \/ worker'.pc \in {"failed", "aborted"} /\ worker'.err = "dial"
    <3>1. \/ WorkerEnds("dial")
          \/ worker' = [worker EXCEPT !.pc = "wait", !.left = dialRetryDelay]
          \/ worker' = [worker EXCEPT !.pc = "dial"]
      BY <1>9 DEF DialFails, DialAgain
    <3>2. "dial" \in WorkerError BY DEF WorkerError
    <3>3. QED BY <3>1, <3>2, <1>1, WorkerEndsType DEF WorkerState
  <2>3. worker'.lag = worker.lag
    BY <1>1, <1>9 DEF DialFails, DialAgain, WorkerEnds, WorkerState
  <2>4. QED BY <2>1, <2>2, <2>3, <1>7 DEF Fell
<1>10. CASE ReadHelloAck
  <2> DEFINE f == Head(replies)
             e == ReplyError(f, "hello_ack")
  <2>1. worker.pc = "ack" /\ replies # << >> BY <1>10 DEF ReadHelloAck, WorkerReadable
  <2>2. f = hello_ack(coord.testID) BY <2>1, <1>2, <1>5, AckFacts
  <2>3. f.kind = "hello_ack" BY <2>2 DEF hello_ack
  <2>4. e = "none" BY <2>3, <1>1, Welcome DEF ReplyError
  <2>5. worker' = [worker EXCEPT !.pc = "caps", !.testID = f.testID] /\ gone' = gone
    BY <2>4, <1>10 DEF ReadHelloAck
  <2>6. worker'.pc = "caps" /\ worker'.left = worker.left /\ worker'.lag = worker.lag
    BY <2>5, <1>1 DEF WorkerState
  <2>7. Accounted BY <2>1 DEF InTime
  <2>8. Accounted' BY <2>6, <2>7, <1>6 DEF Accounted
  <2>9. QED BY <2>5, <2>6, <2>8, <1>7 DEF Fell
<1>11. CASE ReadPeerCapabilities
  <2> DEFINE f == Head(replies)
             e == ReplyError(f, "capabilities")
  <2>1. worker.pc = "caps" /\ replies # << >>
    BY <1>11 DEF ReadPeerCapabilities, WorkerReadable
  <2>2. Joined BY <2>1, <1>2, <1>5
    DEF Conn, NotCalled, Queued, Greeting, Greeted, Acked, Presented, Late, Fell
  <2>3. replies = <<caps(TRUE, coord.testID, conf.json1)>> BY <2>1, <2>2 DEF Joined, Fell
  <2>4. f.kind = "capabilities" /\ f.testID = coord.testID /\ f.json = conf.json1
    BY <2>3 DEF caps
  <2>5. e = "none" /\ f.testID = worker.testID /\ f.json
    BY <2>2, <2>4, <1>1, Welcome DEF ReplyError, Joined
  <2>6. worker' = [worker EXCEPT !.pc = "done", !.left = 0] /\ gone' = gone
    BY <2>5, <1>11 DEF ReadPeerCapabilities
  <2>7. worker'.pc = "done" /\ worker'.lag = worker.lag BY <2>6, <1>1 DEF WorkerState
  <2>8. QED BY <2>6, <2>7, <1>7 DEF Fell
<1>12. CASE WorkerGivesUp
  <2>1. worker.pc \in {"ack", "caps"} /\ worker.left = 0 BY <1>4, <1>12 DEF WorkerGivesUp
  <2>2. QED BY <2>1, <1>1, TimeLeft
<1>13. QED BY <1>8, <1>9, <1>10, <1>11, <1>12 DEF WorkerStep

\* A tick of delay takes one from a clock and adds one to the delays.
LEMMA DelayTick ==
  ASSUME NEW h \in Nat, NEW a \in Nat, NEW b \in Nat, NEW g \in Nat, a <= b + 1
  PROVE  /\ h <= a + g => h <= b + (g + 1)
         /\ \A p, c, d \in Nat : c <= d /\ h <= a + p + c + g => h <= b + p + d + (g + 1)
OBVIOUS

\* A tick is either a delay, and counted as one, or goes to the caller that is
\* being served and says nothing: a queued or a served worker has something to
\* wait for all the time.
LEMMA TickInTime ==
  ASSUME TypeInv, HandInv, Manners, InTime, ~Excused, Tick, LagBounded
  PROVE  InTime'
<1>1. /\ coord \in CoordState /\ worker \in WorkerState
      /\ coord.strikes \in Nat /\ coord.retries \in Nat /\ coord.left \in Nat
      /\ coord.total \in Nat /\ worker.left \in Nat /\ worker.lag \in Nat
      /\ backlog \in Seq(Caller)
  BY Types DEF CoordState, WorkerState
<1>2. Conn BY DEF HandInv
<1>3. shut' = shut /\ gone' = gone BY DEF Tick
<1>4. /\ PC2 \notin shut \cup gone /\ (Fell => worker.err = "dial")
      /\ worker.lag <= MaxLag
      /\ worker.pc \in {"ack", "caps"} => Accounted
      /\ coord.pc \in {"hello", "caps"} /\ coord.cur = PC2 =>
           HandshakeTimeout <= coord.total + worker.lag
      /\ coord.pc = "hello" /\ coord.cur = PC2 => HelloDeadline <= coord.left + worker.lag
      /\ coord.pc = "caps" /\ coord.cur = PC2 => HandshakeTimeout <= coord.left + worker.lag
  BY DEF InTime
<1>5. /\ coord'.pc = coord.pc /\ coord'.cur = coord.cur /\ coord'.strikes = coord.strikes
      /\ coord'.retries = coord.retries /\ coord'.left = Down(coord.left)
      /\ coord'.total = Down(coord.total)
      /\ worker'.pc = worker.pc /\ worker'.err = worker.err
      /\ worker'.left = Down(worker.left)
      /\ worker'.lag = IF Lagging THEN worker.lag + 1 ELSE worker.lag
  BY <1>1 DEF Tick, CoordState, WorkerState
<1> DEFINE l == Down(coord.left)
           t == Down(coord.total)
           m == Down(worker.left)
<1>6. /\ l \in Nat /\ t \in Nat /\ m \in Nat
      /\ coord.left <= l + 1 /\ l <= coord.left
      /\ coord.total <= t + 1 /\ worker.left <= m + 1
  BY <1>1 DEF Down
<1>7. HelloDeadline \in Nat /\ HandshakeTimeout \in Nat /\ MaxLag \in Nat
  BY TimeAssumption DEF HelloDeadline
<1>8. Failures' = Failures /\ Failures \in Nat /\ HelloDeadline' = HelloDeadline
  BY <1>1, <1>5 DEF Failures, HelloDeadline
<1>9. (Fell' => worker'.err = "dial") BY <1>4, <1>5 DEF Fell
<1> DEFINE p == Failures * HelloDeadline
<1>10. p \in Nat BY <1>7, <1>8, TakeOne
<1>11. Held \in Nat /\ Held' \in Nat /\ Held <= Held'
  <2>1. CASE coord.pc = "hello" /\ coord.cur # PC2
    <3>1. Held = HelloDeadline - coord.left /\ Held' = HelloDeadline - l
      BY <1>5, <1>8, <2>1 DEF Held
    <3>2. coord.left <= HelloDeadline
      BY <2>1 DEF Manners
    <3> HIDE DEF p, l, t, m
    <3> QED BY <1>1, <1>6, <1>7, <3>1, <3>2
  <2>2. CASE ~(coord.pc = "hello" /\ coord.cur # PC2)
    <3>1. Held = 0 /\ Held' = 0
      BY <1>5, <2>2 DEF Held
    <3> QED BY <3>1
  <2> QED BY <2>1, <2>2
<1>12. Accounted <=> HandshakeTimeout <= worker.left + p + Held + worker.lag BY DEF Accounted
<1>13. Accounted' <=> HandshakeTimeout <= m + p + Held' + worker'.lag
  BY <1>5, <1>8 DEF Accounted
<1> HIDE DEF p, l, t, m
<1>14. CASE Lagging
  <2>1. worker'.lag = worker.lag + 1 /\ worker.lag < MaxLag BY <1>5, <1>14 DEF Tick
  <2>2. worker'.lag <= MaxLag BY <2>1, <1>1, <1>7
  <2>3. Accounted => Accounted'
    <3>1. HandshakeTimeout <= worker.left + p + Held + worker.lag =>
            HandshakeTimeout <= m + p + Held' + (worker.lag + 1)
      BY <1>1, <1>6, <1>7, <1>10, <1>11, DelayTick
    <3>2. QED BY <3>1, <2>1, <1>12, <1>13
  <2>4. /\ HandshakeTimeout <= coord.total + worker.lag =>
             HandshakeTimeout <= t + (worker.lag + 1)
        /\ HelloDeadline <= coord.left + worker.lag =>
             HelloDeadline <= l + (worker.lag + 1)
        /\ HandshakeTimeout <= coord.left + worker.lag =>
             HandshakeTimeout <= l + (worker.lag + 1)
    BY <1>1, <1>6, <1>7, DelayTick
  <2>5. QED BY <2>1, <2>2, <2>3, <2>4, <1>3, <1>4, <1>5, <1>8, <1>9 DEF InTime, l, t
<1>15. CASE ~Lagging
  <2>1. worker'.lag = worker.lag BY <1>5, <1>15
  <2>one. \A x : <<x>> # << >> OBVIOUS
  <2>2. ASSUME worker.pc \in {"ack", "caps"}
        PROVE  /\ coord.pc \in {"hello", "caps"} => toPC1[coord.cur] = << >> /\ coord.left # 0
               /\ coord.pc \in {"start", "accept"} => backlog = << >>
               /\ replies = << >>
    BY <2>2, <1>15 DEF Lagging, Due
  <2>3. ASSUME worker.pc \in {"ack", "caps"} PROVE Queued
    <3>1. ~Greeting
      <4>1. Greeting => coord.pc = "hello" /\ toPC1[coord.cur] # << >>
        BY <2>one DEF Greeting, Greeted, Serving
      <4>2. QED BY <4>1, <2>2, <2>3
    <3>2. ~Presented
      <4>1. Presented => coord.pc = "caps" /\ toPC1[coord.cur] # << >>
        BY <2>one DEF Presented, Serving
      <4>2. QED BY <4>1, <2>2, <2>3
    <3>3. ~Acked BY <2>one, <2>2, <2>3 DEF Acked
    <3>4. ~Joined BY <2>one, <2>2, <2>3 DEF Joined, Fell
    <3>5. QED BY <3>1, <3>2, <3>3, <3>4, <2>3, <1>2, <1>4 DEF Conn, Dropped, NotCalled, Fell
  <2>4. worker.pc \notin {"ack", "caps"} =>
          ~(coord.pc \in {"hello", "caps"} /\ coord.cur = PC2)
    <3>1. SUFFICES ASSUME worker.pc \notin {"ack", "caps"}, coord.pc \in {"hello", "caps"},
                          coord.cur = PC2
                   PROVE  FALSE
      OBVIOUS
    <3>2. Greeting \/ Acked \/ Presented BY <3>1, <1>2, ServedNow
    <3>3. Late BY <3>1, <3>2 DEF Greeting, Greeted, Acked, Presented
    <3>4. QED BY <3>3, <1>4 DEF Late
  <2>5. ~(coord.pc \in {"hello", "caps"} /\ coord.cur = PC2)
    BY <2>3, <2>4 DEF Queued
  <2>6. ASSUME worker.pc \in {"ack", "caps"} PROVE Accounted'
    <3>1. Queued /\ Accounted BY <2>3, <2>6, <1>4
    <3>2. backlog # << >> /\ coord.cur # PC2
      BY <3>1, <1>1 DEF Queued, InBacklog
    <3>3. coord.pc = "hello" /\ coord.left # 0
      <4>1. coord.pc \notin {"start", "accept"} BY <3>2, <2>2, <2>6
      <4>2. coord.pc \notin {"failed", "aborted"}
        BY DEF Excused
      <4>3. coord.pc \notin {"caps", "done"} BY <3>2 DEF Manners, HandInv, StrangerInv
      <4>4. coord.pc = "hello" BY <4>1, <4>2, <4>3, <1>1 DEF CoordState
      <4>5. QED BY <4>4, <2>2, <2>6
    <3>4. Held' = Held + 1
      BY <3>2, <3>3, <1>1, <1>5, <1>7, <1>8 DEF Held, Down
    <3>5. HandshakeTimeout <= worker.left + p + Held + worker.lag =>
            HandshakeTimeout <= m + p + (Held + 1) + worker.lag
      BY <1>1, <1>6, <1>7, <1>10, <1>11
    <3>6. QED BY <3>1, <3>4, <3>5, <2>1, <1>12, <1>13
  <2>7. QED BY <2>1, <2>5, <2>6, <1>3, <1>4, <1>5, <1>9 DEF InTime
<1>16. QED BY <1>14, <1>15

\* Every step keeps the worker's turn.
LEMMA TurnStep ==
  ASSUME TypeInv, HandInv, TurnInv, [Next]_vars, LagBounded,
         \A f \in StrangerFrame : HelloError(f) # "none"
  PROVE  TurnInv'
<1>1. Manners /\ StrangerInv BY DEF TurnInv, HandInv
<1>2. Manners' BY <1>1, MannersStep
<1>3. conf' = conf
  BY DEF Next, CoordStep, WorkerStep, Listen, Watch, AcceptForeign, AcceptPeer, AcceptFails,
         ReadHello, ReadCapabilities, ReadEOF, ReadTimeout, HandshakeFails, DialSucceeds,
         DialFails, DialAgain, ReadHelloAck, ReadPeerCapabilities, WorkerGivesUp, WorkerFails,
         StrangerConnects, StrangerLeaves, StrangerSends, Cancel, Tick, vars
<1>4. ASSUME Matching(conf) PROVE Excused' \/ InTime'
  <2>1. CASE Excused BY <2>1, ExcusedStays
  <2>2. CASE ~Excused
    <3>1. InTime BY <2>2, <1>4 DEF TurnInv
    <3>2. CASE CoordStep BY <3>1, <3>2, <2>2, <1>1, <1>4, CoordInTime
    <3>3. CASE WorkerStep BY <3>1, <3>3, <2>2, <1>1, <1>4, WorkerInTime
    <3>4. CASE Tick BY <3>1, <3>4, <2>2, <1>1, TickInTime
    <3>5. ASSUME coord' = coord, worker' = worker, shut' = shut,
                 PC2 \in gone' <=> PC2 \in gone
          PROVE  InTime'
      <4>1. HelloDeadline' = HelloDeadline BY DEF HelloDeadline
      <4>2. Accounted => Accounted' BY <4>1, <3>5 DEF Accounted, Failures, Held
      <4>3. QED BY <4>1, <4>2, <3>1, <3>5 DEF InTime, Fell
    <3>6. ASSUME NEW s \in Stranger, StrangerConnects(s) \/ StrangerLeaves(s) PROVE InTime'
      <4>1. s # PC2 BY CallerAssumption
      <4>2. QED BY <4>1, <3>5, <3>6 DEF StrangerConnects, StrangerLeaves
    <3>7. ASSUME NEW s \in Stranger, NEW f \in StrangerFrame, StrangerSends(s, f)
          PROVE  InTime'
      BY <3>5, <3>7 DEF StrangerSends
    <3>8. ASSUME NEW side \in {"PC1", "PC2"}, Cancel(side) PROVE InTime'
      BY <3>5, <3>8 DEF Cancel
    <3>9. CASE UNCHANGED vars BY <3>5, <3>9 DEF vars
    <3>10. QED BY <3>2, <3>3, <3>4, <3>6, <3>7, <3>8, <3>9 DEF Next
  <2>3. QED BY <2>1, <2>2
<1>5. Matching(conf)' => Matching(conf) BY <1>3 DEF Matching
<1>6. QED BY <1>2, <1>4, <1>5 DEF TurnInv

\* The worker's turn before anything has happened.
LEMMA TurnInit == Init => TurnInv
<1> SUFFICES ASSUME Init PROVE TurnInv OBVIOUS
<1>1. /\ coord.pc = "start" /\ coord.cur = NoCaller
      /\ worker.pc = "dial" /\ worker.lag = 0 /\ shut = {} /\ gone = {}
  BY DEF Init
<1>2. PC2 \in fromPeer BY DEF Init
<1>3. \A s \in Stranger : toPC1[s] \in Seq(StrangerFrame)
  <2> TAKE s \in Stranger
  <2>1. toPC1[s] = << >> BY DEF Init, Caller
  <2>2. QED BY <2>1
<1>4. Manners BY <1>1, <1>2, <1>3 DEF Manners
<1>5. 0 <= MaxLag BY TimeAssumption
<1>6. InTime BY <1>1, <1>5 DEF InTime, Fell
<1>7. QED BY <1>4, <1>6 DEF TurnInv

\* A rightly configured worker is served.  When the delays of frames and local
\* steps stay within MaxLag in all and no stranger passes the check of the
\* hello, no number of other callers can make the worker run out of time or be
\* turned away, unless the coordinator gives up or is interrupted, or so many
\* callers failed that one more could use up the worker's time.  With the 10
\* and 30 seconds of the code that is a worker behind one caller that failed
\* and one being served, and up to 9 seconds of delays.
THEOREM ServedCorrect ==
  ASSUME LagBounded, \A f \in StrangerFrame : HelloError(f) # "none"
  PROVE  Spec => []WorkerServed
<1>1. TypeInv /\ HandInv /\ TurnInv /\ [Next]_vars => TurnInv' BY TurnStep
<1>2. TurnInv => WorkerServed
  BY DEF TurnInv, WorkerServed, Excused, InTime, Fell, Failures
<1>3. QED BY HandshakeInductive, TurnInit, <1>1, <1>2, PTL DEF Spec
=============================================================================
