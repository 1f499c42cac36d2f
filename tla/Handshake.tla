----------------------------- MODULE Handshake -----------------------------
(***************************************************************************)
(* Connection establishment of internal/peer: establishCoordinator with    *)
(* its accept loop and strike counters, coordinatorHandshake, the worker's *)
(* retrying Dial and workerHandshake, up to the point where run() has an   *)
(* authenticated connection or ends.                                       *)
(*                                                                         *)
(* The coordinator serves one accepted connection at a time; the others    *)
(* wait in the accept queue of the kernel, where a dialled connection is   *)
(* already established for its caller.  Every caller makes one connection, *)
(* so a connection is named by its caller.  The worker is PC2; the other   *)
(* callers are whatever else connects to the control port: they send at    *)
(* most one frame, or nothing.                                             *)
(*                                                                         *)
(* A frame carries what the checks look at: whether its protocol version,  *)
(* token and claims (role, peerIp, localIp) are the ones PC1 expects.      *)
(* Frames that cannot be read or decoded, and frames of another type, are  *)
(* "bad": every check answers them alike.  Time is a count of ticks.       *)
(***************************************************************************)
EXTENDS Naturals, Sequences

CONSTANTS
  PC2,                \* the worker
  Stranger,           \* the other callers
  NoCaller,
  StrangerFrame,      \* the frames a stranger may send
  MaySkew,            \* whether the two configurations may disagree
  MayCancel,          \* whether the operator may interrupt a side
  LagBounded,         \* whether frames and local steps take bounded time
  MaxLag,             \* what they take in all, from the worker's call on
  HelloTimeout, HandshakeTimeout, dialRetryDelay, dialTotalBudget,
  maxAuthStrikes, maxHandshakeRetries

ASSUME CallerAssumption == PC2 \notin Stranger /\ NoCaller \notin Stranger \cup {PC2}
ASSUME TimeAssumption ==
  /\ HelloTimeout \in Nat \ {0} /\ HandshakeTimeout \in Nat \ {0}
  /\ dialRetryDelay \in Nat \ {0} /\ dialTotalBudget \in Nat /\ MaxLag \in Nat
ASSUME StrikeAssumption ==
  maxAuthStrikes \in Nat \ {0} /\ maxHandshakeRetries \in Nat \ {0}
ASSUME SwitchAssumption == {MaySkew, MayCancel, LagBounded} \subseteq BOOLEAN

Caller == Stranger \cup {PC2}

VARIABLES
  conf,       \* how PC2's configuration compares with PC1's
  fromPeer,   \* the callers whose address is the configured peer IP
  listener,   \* "unopened", "open", "closed"
  backlog,    \* the accept queue
  coord,      \* the coordinator in establishCoordinator
  worker,     \* the worker in establishWorker
  toPC1,      \* frames sent to PC1, per connection
  replies,    \* frames sent by PC1 to PC2; the strangers' are not looked at
  shut,       \* connections PC1 has closed
  gone,       \* connections their caller has closed
  spoke,      \* strangers that sent their frame
  cancelled   \* the sides whose context is cancelled

vars == <<conf, fromPeer, listener, backlog, coord, worker, toPC1, replies,
          shut, gone, spoke, cancelled>>

CoordError == {"none", "auth", "protocol", "timeout", "version", "capability", "accept"}
WorkerError == {"none", "dial", "token_rejected", "version", "capability",
                "peer_aborted", "protocol", "timeout"}

hello(c)     == [kind |-> "hello", version |-> c.version, token |-> c.token,
                 claims |-> c.claims]
hello_ack(t) == [kind |-> "hello_ack", version |-> TRUE, testID |-> t]
caps(v, t, j) == [kind |-> "capabilities", version |-> v, testID |-> t, json |-> j]
abort(r)     == [kind |-> "abort", version |-> TRUE, reason |-> r]
badFrame     == [kind |-> "bad", version |-> TRUE]

Conf == [version : BOOLEAN, token : BOOLEAN, claims : BOOLEAN,
         json1 : BOOLEAN, json2 : BOOLEAN]

\* Both machines were configured to work together.
Matching(c) == \A k \in DOMAIN c : c[k]

Init ==
  /\ conf \in IF MaySkew THEN Conf ELSE {c \in Conf : Matching(c)}
  /\ fromPeer \in {{PC2} \cup S : S \in SUBSET Stranger}
  /\ listener = "unopened" /\ backlog = << >>
  /\ coord = [pc |-> "start", cur |-> NoCaller, left |-> 0, total |-> 0,
              strikes |-> 0, retries |-> 0, testID |-> 0, err |-> "none"]
  /\ worker = [pc |-> "dial", left |-> 0, budget |-> dialTotalBudget,
               lag |-> 0, testID |-> 0, err |-> "none"]
  /\ toPC1 = [c \in Caller |-> << >>] /\ replies = << >>
  /\ shut = {} /\ gone = {} /\ spoke = {} /\ cancelled = {}

Ended(side) == side.pc \in {"done", "failed", "aborted"}

\* run(): an error of establish ends the side, as an interrupt when its
\* context is cancelled.
Verdict(side) == IF side \in cancelled THEN "aborted" ELSE "failed"

-----------------------------------------------------------------------------
(* The coordinator *)

\* The listener opens; PC2 may have been dialling for a while.
Listen ==
  /\ coord.pc = "start"
  /\ coord' = [coord EXCEPT !.pc = "accept"]
  /\ listener' = "open"
  /\ UNCHANGED <<conf, fromPeer, backlog, worker, toPC1, replies, shut, gone,
                 spoke, cancelled>>

\* Queued connections are reset when the listener closes.
CloseListener(extra) ==
  /\ listener' = "closed" /\ backlog' = << >>
  /\ shut' = shut \cup extra \cup {backlog[i] : i \in DOMAIN backlog}

\* A connection from another address is closed without an answer.
AcceptForeign ==
  /\ coord.pc = "accept" /\ backlog # << >> /\ Head(backlog) \notin fromPeer
  /\ shut' = shut \cup {Head(backlog)}
  /\ backlog' = Tail(backlog)
  /\ UNCHANGED <<conf, fromPeer, listener, coord, worker, toPC1, replies, gone,
                 spoke, cancelled>>

HelloDeadlineDropped == HandshakeTimeout
HelloDeadline == IF HelloTimeout < HandshakeTimeout THEN HelloTimeout ELSE HandshakeTimeout

\* verifyPeerIP passed: the hello is awaited within HelloTimeout, the whole
\* handshake within HandshakeTimeout.
AcceptPeer ==
  /\ coord.pc = "accept" /\ backlog # << >> /\ Head(backlog) \in fromPeer
  /\ coord' = [coord EXCEPT !.pc = "hello", !.cur = Head(backlog),
                 !.left = HelloDeadline, !.total = HandshakeTimeout]
  /\ backlog' = Tail(backlog)
  /\ UNCHANGED <<conf, fromPeer, listener, worker, toPC1, replies, shut, gone,
                 spoke, cancelled>>

\* A blocked Accept ignores the context: the watcher goroutine closes the
\* listener, whatever the accept loop is doing.
StopOnlyOnReturn == Ended(coord)
WatchFires == "PC1" \in cancelled

Watch ==
  /\ WatchFires /\ listener = "open"
  /\ CloseListener({})
  /\ UNCHANGED <<conf, fromPeer, coord, worker, toPC1, replies, gone, spoke, cancelled>>

AcceptFails ==
  /\ coord.pc = "accept" /\ listener = "closed"
  /\ coord' = [coord EXCEPT !.pc = Verdict("PC1"), !.err = "accept"]
  /\ UNCHANGED <<conf, fromPeer, listener, backlog, worker, toPC1, replies, shut,
                 gone, spoke, cancelled>>

Retryable == {"auth", "protocol", "timeout"}

\* The failure policy of the accept loop: three wrong tokens, or two other
\* retryable failures, or one fatal failure end it.
Strike(err) ==
  LET strikes == coord.strikes + IF err = "auth" THEN 1 ELSE 0
      retries == coord.retries + IF err \in Retryable \ {"auth"} THEN 1 ELSE 0
      over    == \/ err \notin Retryable
                 \/ err = "auth" /\ strikes >= maxAuthStrikes
                 \/ err # "auth" /\ retries >= maxHandshakeRetries
  IN [coord EXCEPT !.pc = IF over THEN Verdict("PC1") ELSE "accept",
                   !.cur = NoCaller, !.left = 0, !.total = 0, !.testID = 0,
                   !.strikes = strikes, !.retries = retries, !.err = err]

\* coordinatorHandshake fails: an abort frame when it sends one, then the
\* connection is closed and the failure counted.
HandshakeFails(err, farewell) ==
  LET c == coord.cur IN
  /\ coord' = Strike(err)
  /\ replies' = IF c = PC2 THEN replies \o farewell ELSE replies
  /\ toPC1' = [toPC1 EXCEPT ![c] = << >>]
  /\ IF Ended(coord') THEN CloseListener({c})
     ELSE shut' = shut \cup {c} /\ UNCHANGED <<listener, backlog>>
  /\ UNCHANGED <<conf, fromPeer, worker, gone, spoke, cancelled>>

AbortReasonGuessed(err) == IF err \in Retryable THEN "auth_failed" ELSE "capability_missing"
AbortReason(err) ==
  CASE err = "auth" -> "auth_failed"
    [] err = "version" -> "version_mismatch"
    [] err = "capability" -> "capability_missing"
    [] OTHER -> "protocol_error"

\* The order of the checks on the first frame.
HelloError(f) ==
  CASE f.kind # "hello" -> "protocol"
    [] f.kind = "hello" /\ ~f.version -> "version"
    [] f.kind = "hello" /\ f.version /\ ~f.token -> "auth"
    [] f.kind = "hello" /\ f.version /\ f.token /\ ~f.claims -> "protocol"
    [] OTHER -> "none"

\* The order of the checks on the second frame.
CapsError(f, testID) ==
  CASE ~f.version -> "version"
    [] f.version /\ f.kind # "capabilities" -> "protocol"
    [] f.version /\ f.kind = "capabilities" /\ f.testID # testID -> "protocol"
    [] f.version /\ f.kind = "capabilities" /\ f.testID = testID /\ ~f.json -> "capability"
    [] OTHER -> "none"

\* A frame is there to be read; at the deadline of the read either may win.
Readable == toPC1[coord.cur] # << >>

\* The peer closed its end and everything it sent was read.
AtEOF == toPC1[coord.cur] = << >> /\ coord.cur \in gone

\* Each attempt mints a test ID of its own: the attempts made so far number it.
newTestID == coord.strikes + coord.retries + 1

ReplyEager(f) == replies' = IF coord.cur = PC2
  THEN replies \o <<f, caps(TRUE, f.testID, conf.json1)>> ELSE replies
Reply(f) == replies' = IF coord.cur = PC2 THEN Append(replies, f) ELSE replies

ReadHello ==
  /\ coord.pc = "hello" /\ Readable
  /\ LET c == coord.cur
         f == Head(toPC1[c])
         e == HelloError(f)
         rest == Tail(toPC1[c])
     IN \/ /\ e # "none"
           /\ HandshakeFails(e, <<abort(AbortReason(e))>>)
        \/ /\ e = "none"
           /\ coord' = [coord EXCEPT !.pc = "caps", !.left = coord.total, !.testID = newTestID]
           /\ Reply(hello_ack(newTestID))
           /\ toPC1' = [toPC1 EXCEPT ![c] = rest]
           /\ UNCHANGED <<conf, fromPeer, listener, backlog, worker, shut, gone,
                          spoke, cancelled>>

\* The capabilities of PC1 are written last; to a peer that is gone the
\* write may fail, which is a protocol error like any other.
ReadCapabilities ==
  /\ coord.pc = "caps" /\ Readable
  /\ LET c == coord.cur
         f == Head(toPC1[c])
         e == CapsError(f, coord.testID)
         rest == Tail(toPC1[c])
     IN \/ /\ e # "none"
           /\ HandshakeFails(e, <<abort(AbortReason(e))>>)
        \/ /\ e = "none" /\ c \in gone
           /\ HandshakeFails("protocol", << >>)
        \/ /\ e = "none"
           /\ coord' = [coord EXCEPT !.pc = "done", !.left = 0, !.total = 0]
           /\ Reply(caps(TRUE, coord.testID, conf.json1))
           /\ toPC1' = [toPC1 EXCEPT ![c] = rest]
           /\ CloseListener({})
           /\ UNCHANGED <<conf, fromPeer, worker, gone, spoke, cancelled>>

\* The read ends with the peer's close: an abort is sent, to nobody.
ReadEOF ==
  /\ coord.pc \in {"hello", "caps"} /\ AtEOF
  /\ HandshakeFails("protocol", <<abort("protocol_error")>>)

\* The read deadline passes: only a missing hello is answered with an abort.
ReadTimeout ==
  /\ coord.pc \in {"hello", "caps"} /\ coord.left = 0
  /\ HandshakeFails("timeout",
       IF coord.pc = "hello" THEN <<abort("protocol_error")>> ELSE << >>)

-----------------------------------------------------------------------------
(* The worker *)

WorkerEnds(err) ==
  worker' = [worker EXCEPT !.pc = Verdict("PC2"), !.left = 0, !.err = err]

\* The connection is made when the kernel of PC1 queues it; the hello goes
\* out at once.
DialSucceeds ==
  /\ worker.pc = "dial" /\ listener = "open" /\ "PC2" \notin cancelled
  /\ worker' = [worker EXCEPT !.pc = "ack", !.left = HandshakeTimeout]
  /\ backlog' = Append(backlog, PC2)
  /\ toPC1' = [toPC1 EXCEPT ![PC2] = Append(@, hello(conf))]
  /\ UNCHANGED <<conf, fromPeer, listener, coord, replies, shut, gone, spoke,
                 cancelled>>

AlwaysRetries == FALSE
NoRetryFits == worker.budget < dialRetryDelay

\* A failed attempt ends the dial when the context is cancelled or no retry
\* fits the budget, and waits otherwise.
DialFails ==
  /\ worker.pc = "dial" /\ (listener # "open" \/ "PC2" \in cancelled)
  /\ IF "PC2" \in cancelled \/ NoRetryFits
     THEN WorkerEnds("dial")
     ELSE worker' = [worker EXCEPT !.pc = "wait", !.left = dialRetryDelay]
  /\ UNCHANGED <<conf, fromPeer, listener, backlog, coord, toPC1, replies, shut,
                 gone, spoke, cancelled>>

DialAgain ==
  /\ worker.pc = "wait"
  /\ \/ "PC2" \in cancelled /\ WorkerEnds("dial")
     \/ worker.left = 0 /\ worker' = [worker EXCEPT !.pc = "dial"]
  /\ UNCHANGED <<conf, fromPeer, listener, backlog, coord, toPC1, replies, shut,
                 gone, spoke, cancelled>>

MapAbort(reason) ==
  CASE reason = "auth_failed" -> "token_rejected"
    [] reason = "version_mismatch" -> "version"
    [] reason = "capability_missing" -> "capability"
    [] OTHER -> "peer_aborted"

\* workerReadReply: an abort is mapped before the version and the type are
\* looked at; the worker's own version is the one that may differ.
ReplyError(f, want) ==
  CASE f.kind = "abort" -> MapAbort(f.reason)
    [] f.kind # "abort" /\ ~conf.version -> "version"
    [] f.kind # "abort" /\ conf.version /\ f.kind # want -> "protocol"
    [] OTHER -> "none"

WorkerReadable == replies # << >>

\* A failing worker closes its connection; the abort it may send first finds
\* PC1 at the end of its handshake or past it, and changes nothing here.
WorkerFails(err, rest) ==
  /\ WorkerEnds(err)
  /\ gone' = gone \cup {PC2}
  /\ replies' = rest
  /\ UNCHANGED <<conf, fromPeer, listener, backlog, coord, toPC1, shut, spoke, cancelled>>

ReadHelloAck ==
  /\ worker.pc = "ack" /\ WorkerReadable
  /\ LET f == Head(replies)
         rest == Tail(replies)
         e == ReplyError(f, "hello_ack")
     IN \/ e # "none" /\ WorkerFails(e, rest)
        \/ /\ e = "none"
           /\ worker' = [worker EXCEPT !.pc = "caps", !.testID = f.testID]
           /\ toPC1' = [toPC1 EXCEPT ![PC2] =
                          Append(@, caps(conf.version, f.testID, conf.json2))]
           /\ replies' = rest
           /\ UNCHANGED <<conf, fromPeer, listener, backlog, coord, shut, gone,
                          spoke, cancelled>>

ReadPeerCapabilities ==
  /\ worker.pc = "caps" /\ WorkerReadable
  /\ LET f == Head(replies)
         rest == Tail(replies)
         e == ReplyError(f, "capabilities")
     IN \/ e # "none" /\ WorkerFails(e, rest)
        \/ e = "none" /\ f.testID # worker.testID /\ WorkerFails("protocol", rest)
        \/ e = "none" /\ f.testID = worker.testID /\ ~f.json /\ WorkerFails("capability", rest)
        \/ /\ e = "none" /\ f.testID = worker.testID /\ f.json
           /\ worker' = [worker EXCEPT !.pc = "done", !.left = 0]
           /\ replies' = rest
           /\ UNCHANGED <<conf, fromPeer, listener, backlog, coord, toPC1, shut,
                          gone, spoke, cancelled>>

\* PC1 closed the connection without an answer, or the deadline passed.
WorkerGivesUp ==
  /\ worker.pc \in {"ack", "caps"}
  /\ \/ replies = << >> /\ PC2 \in shut /\ WorkerFails("peer_aborted", << >>)
     \/ worker.left = 0 /\ WorkerFails("timeout", replies)

-----------------------------------------------------------------------------
(* The environment *)

StrangerConnects(s) ==
  /\ listener = "open" /\ s \notin gone \cup shut
  /\ s # coord.cur /\ \A i \in DOMAIN backlog : backlog[i] # s
  /\ backlog' = Append(backlog, s)
  /\ UNCHANGED <<conf, fromPeer, listener, coord, worker, toPC1, replies, shut,
                 gone, spoke, cancelled>>

Connected(s) == s = coord.cur \/ \E i \in DOMAIN backlog : backlog[i] = s

StrangerSends(s, f) ==
  /\ Connected(s) /\ s \notin spoke \cup gone
  /\ toPC1' = [toPC1 EXCEPT ![s] = Append(@, f)]
  /\ spoke' = spoke \cup {s}
  /\ UNCHANGED <<conf, fromPeer, listener, backlog, coord, worker, replies, shut,
                 gone, cancelled>>

StrangerLeaves(s) ==
  /\ Connected(s) /\ s \notin gone
  /\ gone' = gone \cup {s}
  /\ UNCHANGED <<conf, fromPeer, listener, backlog, coord, worker, toPC1, replies,
                 shut, spoke, cancelled>>

\* The operator interrupts a side that has not ended.
Cancel(side) ==
  /\ MayCancel /\ side \notin cancelled
  /\ ~Ended(IF side = "PC1" THEN coord ELSE worker)
  /\ cancelled' = cancelled \cup {side}
  /\ UNCHANGED <<conf, fromPeer, listener, backlog, coord, worker, toPC1, replies,
                 shut, gone, spoke>>

\* Some step is due now.
Due ==
  \/ coord.pc \in {"start", "accept"} /\ (backlog # << >> \/ listener = "closed")
  \/ "PC1" \in cancelled /\ listener = "open"
  \/ coord.pc \in {"hello", "caps"} /\ (toPC1[coord.cur] # << >> \/ AtEOF \/ coord.left = 0)
  \/ worker.pc = "dial"
  \/ worker.pc = "wait" /\ (worker.left = 0 \/ "PC2" \in cancelled)
  \/ worker.pc \in {"ack", "caps"} /\ (replies # << >> \/ PC2 \in shut \/ worker.left = 0)

Down(n) == IF n = 0 THEN 0 ELSE n - 1

\* Time that passes although there is something to do, once PC2 has called.
Lagging == LagBounded /\ worker.pc \in {"ack", "caps"} /\ Due

Tick ==
  /\ Lagging => worker.lag < MaxLag
  /\ coord.left > 0 \/ worker.left > 0
  /\ coord' = [coord EXCEPT !.left = Down(@), !.total = Down(@)]
  /\ worker' = [worker EXCEPT !.left = Down(@), !.lag = IF Lagging THEN @ + 1 ELSE @,
                  !.budget = IF worker.pc \in {"dial", "wait"} THEN Down(@) ELSE @]
  /\ UNCHANGED <<conf, fromPeer, listener, backlog, toPC1, replies, shut, gone,
                 spoke, cancelled>>

-----------------------------------------------------------------------------
CoordStep == Listen \/ Watch \/ AcceptForeign \/ AcceptPeer \/ AcceptFails \/ ReadHello
             \/ ReadCapabilities \/ ReadEOF \/ ReadTimeout

WorkerStep == DialSucceeds \/ DialFails \/ DialAgain \/ ReadHelloAck
              \/ ReadPeerCapabilities \/ WorkerGivesUp

Next ==
  \/ CoordStep \/ WorkerStep \/ Tick
  \/ \E s \in Stranger : StrangerConnects(s) \/ StrangerLeaves(s)
  \/ \E s \in Stranger, f \in StrangerFrame : StrangerSends(s, f)
  \/ \E side \in {"PC1", "PC2"} : Cancel(side)

Spec == Init /\ [][Next]_vars

\* The goroutines run and the clock goes on; nothing obliges a caller to
\* call or the operator to interrupt.
FairSpec == Spec /\ WF_vars(CoordStep) /\ WF_vars(WorkerStep) /\ WF_vars(Tick)

-----------------------------------------------------------------------------
(* Properties *)

TypeOK ==
  /\ conf \in Conf /\ fromPeer \subseteq Caller
  /\ listener \in {"unopened", "open", "closed"}
  /\ backlog \in Seq(Caller)
  /\ coord \in [pc : {"start", "accept", "hello", "caps", "done", "failed", "aborted"},
                cur : Caller \cup {NoCaller}, left : Nat, total : Nat, strikes : Nat,
                retries : Nat, testID : Nat, err : CoordError]
  /\ worker \in [pc : {"dial", "wait", "ack", "caps", "done", "failed", "aborted"},
                 left : Nat, budget : Nat, lag : Nat, testID : Nat, err : WorkerError]
  /\ shut \subseteq Caller /\ gone \subseteq Caller /\ spoke \subseteq Stranger
  /\ cancelled \subseteq {"PC1", "PC2"}

\* A side that has its connection shares it, and its test ID, with the other
\* side: a worker that is through finds the coordinator through on the same
\* connection, and a coordinator that is through serves the worker under the
\* ID the worker was given, whatever attempts of others came before.  The
\* worker may then still fail, but only on PC1's capabilities or its clock.
SameSession ==
  /\ worker.pc = "done" => coord.pc = "done" /\ coord.cur = PC2
  /\ coord.pc = "done" =>
       /\ coord.cur = PC2 /\ worker.testID = coord.testID
       /\ worker.pc \in {"failed", "aborted"} => worker.err \in {"capability", "timeout"}

\* What the worker tells its user is true of the two configurations, and
\* nobody is connected whose configuration fails a check of either side
\* (coordinatorHandshake, mapWorkerAbort): a stranger's mistake is never
\* blamed on the worker's token.
DiagnosisTrue ==
  /\ worker.err = "token_rejected" => ~conf.token
  /\ worker.err = "version" => ~conf.version
  /\ worker.err = "capability" => ~(conf.json1 /\ conf.json2)
  /\ coord.pc = "done" => conf.version /\ conf.token /\ conf.claims /\ conf.json2
  /\ worker.pc = "done" => Matching(conf)

\* What the worker has is more than n callers, each for a whole hello timeout,
\* and all delays can take from it.
Covers(n) == MaxLag < HelloTimeout /\ n * HelloTimeout + MaxLag < HandshakeTimeout

\* A rightly configured worker is served: it waits in the accept queue with its
\* own 30 seconds running, and strangers ahead of it cost it no more than a
\* hello timeout each, also when they speak in the last moment or never
\* (establishCoordinator, coordinatorHandshake).  It is turned away only by a
\* coordinator that has given up or is being interrupted, or when so many
\* callers failed before it that one more could use up its time.
WorkerServed ==
  /\ Matching(conf)
  /\ worker.pc = "failed" /\ worker.err # "dial"
  => \/ coord.pc \in {"failed", "aborted"} \/ "PC1" \in cancelled
     \/ ~Covers(coord.strikes + coord.retries + 1)

\* The worker never hangs: it is connected or it ends.
Settles == <>Ended(worker)

\* Ctrl+C ends the coordinator, also while a silent caller holds the
\* handshake or nobody calls at all.
CancelEnds == "PC1" \in cancelled ~> Ended(coord)
=============================================================================
