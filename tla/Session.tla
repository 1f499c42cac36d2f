------------------------------ MODULE Session ------------------------------
(***************************************************************************)
(* The peer session of internal/peer from the end of the handshake to the  *)
(* terminal state, on both sides: PC1 (coordinator) and PC2 (worker).      *)
(*                                                                         *)
(* Each side runs one event loop that owns the session state; a reader, a  *)
(* plan driver (PC1), an operation executor (PC2) and a report-transfer    *)
(* callback run beside it and reach the loop through its events channel.   *)
(* The channel merges independent producers, so it is modelled by letting  *)
(* the loop take any event that some producer has ready; the order of the  *)
(* events of one producer is kept (frames of the reader, call-expired      *)
(* before plan-done of the plan driver).                                   *)
(*                                                                         *)
(* Left out: heartbeats, test_progress and the 3-2-1 prints, which change  *)
(* no state a property can see, and frames that no well-behaved peer       *)
(* sends (handshake frames inside a session, malformed payloads).          *)
(***************************************************************************)
EXTENDS Naturals, Sequences, FiniteSets, SessionState

CONSTANTS
  NonInteractive,   \* the roles started with --non-interactive
  Interruptible,    \* the roles whose process may get Ctrl+C
  LinkMayFail,      \* whether the TCP connection may die
  BaseOps,          \* the operations the base plan requests
  MaxCalls,         \* bound: RPCs one plan issues
  Soak,             \* whether the base plan is SoakPlan (else quick/standard)
  SetupCalls,       \* answered RPCs that end SoakPlan's set-up phase
  Cable,            \* whether CablePlan wraps the base plan
  SendReports,      \* reports are configured and the peer accepts them
  HasReceiver,      \* whether PC2 has a ReceiveReports hook
  MaxChunks,        \* bound: chunk frames of the report stream
  TransferBuffer    \* capacity of the routed-frame channel

Role == {"PC1", "PC2"}
Peer(r) == IF r = "PC1" THEN "PC2" ELSE "PC1"

ASSUME RolesAssumption == NonInteractive \subseteq Role /\ Interruptible \subseteq Role
ASSUME OpsAssumption == BaseOps \subseteq {"test", "cancel"} /\ "test" \in BaseOps
ASSUME BoundsAssumption ==
  /\ MaxCalls \in Nat /\ SetupCalls \in Nat \ {0}
  /\ MaxChunks \in Nat \ {0} /\ TransferBuffer \in Nat \ {0}
ASSUME FlagsAssumption ==
  /\ LinkMayFail \in BOOLEAN /\ Soak \in BOOLEAN /\ Cable \in BOOLEAN
  /\ SendReports \in BOOLEAN /\ HasReceiver \in BOOLEAN

MaxInvalidState == 3

VARIABLES
  st,           \* session state of each role
  fin,          \* finishSpec of each role
  td,           \* teardown progress: conn open, closed, or Run returned
  interrupted,  \* the caller's context of each role is cancelled
  wire,         \* frames each role will read, oldest first
  link,         \* "up" or "cut"
  localReady, peerReady, countdown,  \* readiness flags, armed countdown
  strikes,      \* invalidState of each role
  plan,         \* the coordinator's plan driver goroutine
  call,         \* its RPC in flight: the entry of the pending registry
  expired,      \* evCallExpired is in the loop's queue
  sentComplete, \* PC1 has written its complete frame
  op,           \* the worker's activeOp
  window,       \* the worker's cableWindowActive
  marked,       \* PC2's link monitor annotates events as self-inflicted
  idle,         \* read timeout of each role's connection
  carrier,      \* physical link, taken down by PC1's cable diagnostic
  ran,          \* history: requests the executor finished with status ok
  xOn, xRan,    \* transferOn and transferRan of each role
  xBuf,         \* the transfer channel of each role
  sender,       \* PC1's SendReports callback
  receiver      \* PC2's ReceiveReports callback

lifeVars  == <<st, fin, td, interrupted>>
netVars   == <<wire, link>>
startVars == <<localReady, peerReady, countdown>>
planVars  == <<plan, call, expired>>
execVars  == <<op, window, marked, ran>>
linkVars  == <<idle, carrier>>
xferVars  == <<xOn, xRan, xBuf, sender, receiver>>
vars == <<lifeVars, netVars, startVars, strikes, planVars, sentComplete,
          execVars, linkVars, xferVars>>

-----------------------------------------------------------------------------
(* Frames, connection and finish specifications                            *)

FrameType == {"ready", "start_confirmation", "test_request", "test_result",
              "warning", "abort", "report", "report_chunk", "report_ack",
              "complete"}
Op == BaseOps \cup {"snapshot", "window_start", "window_end"}
Status == {"ok", "unavailable", "failed", "rejected"}
Reason == {"user_interrupt", "peer_lost", "request_timeout", "internal_error",
           "protocol_error", "handshake"}
FrameArg == Op \cup Status \cup Reason \cup {"none", "more", "last", "declined"}
ArgOf(t) == CASE t = "test_request" -> Op
              [] t = "test_result"  -> Status
              [] t = "abort"        -> Reason \cup {"none"}
              [] OTHER              -> {"none", "more", "last", "declined", "ok"}
Frame == {m \in [type : FrameType, id : Nat, arg : FrameArg] :
            m.arg \in ArgOf(m.type)}

Msg(t, i, a) == [type |-> t, id |-> i, arg |-> a]

NoFin == [state |-> "none", reason |-> "none", farewell |-> FALSE]
FinSpec == [state : {"none", "completed"} \cup Stop, reason : {"none"} \cup Reason,
            farewell : BOOLEAN]

Finishing(r) == fin[r] # NoFin
\* The loop of r selects on its events.
Running(r) == fin[r] = NoFin /\ st[r] # "handshake"
\* The session context, derived from the caller's: done first on interrupt.
CtxDone(r) == interrupted[r] \/ Finishing(r)

\* A write that returns nil reaches the peer while the connection lives;
\* afterwards it may be accepted by the kernel and vanish, or fail.
Put(w, r, m) ==
  IF link = "up" /\ td[Peer(r)] = "open" /\ td[r] = "open"
  THEN [w EXCEPT ![Peer(r)] = Append(@, m)] ELSE w
WriteOutcomes(r) ==
  IF td[r] # "open" THEN {FALSE}
  ELSE IF link = "up" /\ td[Peer(r)] = "open" THEN {TRUE} ELSE BOOLEAN

Finish(r, s, why, bye) ==
  fin' = [fin EXCEPT ![r] = [state |-> s, reason |-> why, farewell |-> bye]]
Goto(r, s) == st' = [st EXCEPT ![r] = Transition(st[r], s)]

NoCall == [id |-> 0, op |-> "test", armed |-> FALSE, reply |-> "none"]
Call == [id : Nat, op : Op, armed : BOOLEAN, reply : Status \cup {"none"}]
NoOp == [id |-> 0, op |-> "test", phase |-> "off", status |-> "ok"]
ActiveOp == [id : Nat, op : Op, phase : {"off", "running", "posted"},
             status : Status]
SenderState == [pc : {"off", "manifest", "stream", "await", "ok", "failed",
                      "handled"}, sent : Nat]
PlanPC == {"off", "base", "call", "boundary", "window", "tdr", "end",
           "returned", "handled"}
PlanErr == {"nil", "error", "cancel"}
Plan == [pc : PlanPC, err : PlanErr, calls : Nat, answered : Nat,
         spent : BOOLEAN]

Init ==
  /\ st = [r \in Role |-> "handshake"]
  /\ fin = [r \in Role |-> NoFin]
  /\ td = [r \in Role |-> "open"]
  /\ interrupted = [r \in Role |-> FALSE]
  /\ wire = [r \in Role |-> <<>>]
  /\ link = "up"
  /\ localReady = [r \in Role |-> FALSE]
  /\ peerReady = [r \in Role |-> FALSE]
  /\ countdown = [r \in Role |-> FALSE]
  /\ strikes = [r \in Role |-> 0]
  /\ plan = [pc |-> "off", err |-> "nil", calls |-> 0, answered |-> 0,
             spent |-> FALSE]
  /\ call = NoCall
  /\ expired = FALSE
  /\ sentComplete = FALSE
  /\ op = NoOp
  /\ window = FALSE
  /\ marked = FALSE
  /\ idle = [r \in Role |-> "normal"]
  /\ carrier = "up"
  /\ ran = {}
  /\ xOn = [r \in Role |-> FALSE]
  /\ xRan = [r \in Role |-> FALSE]
  /\ xBuf = [r \in Role |-> <<>>]
  /\ sender = [pc |-> "off", sent |-> 0]
  /\ receiver = "off"

-----------------------------------------------------------------------------
(* Entering the session, readiness and the synchronized start              *)

\* The coordinator schedules the start; the worker waits for the frame.  A
\* failed write leaves the countdown unarmed.
OnBothReady(r, w) ==
  IF r = "PC1"
  THEN \E ok \in WriteOutcomes(r) :
         /\ wire' = IF ok THEN Put(w, r, Msg("start_confirmation", 0, "none")) ELSE w
         /\ countdown' = [countdown EXCEPT ![r] = ok]
  ELSE wire' = w /\ UNCHANGED countdown

\* From state s: announce readiness once; a failed write changes nothing.
SendLocalReady(r, s) ==
  \E ok \in WriteOutcomes(r) :
    IF ~ok
    THEN /\ st' = [st EXCEPT ![r] = s]
         /\ UNCHANGED <<localReady, countdown, wire>>
    ELSE LET next == IF peerReady[r] THEN "ready" ELSE "waiting_for_peer_start"
             w == Put(wire, r, Msg("ready", 0, "none"))
         IN /\ localReady' = [localReady EXCEPT ![r] = TRUE]
            /\ st' = [st EXCEPT ![r] = Transition(s, next)]
            /\ IF next = "ready" THEN OnBothReady(r, w)
               ELSE wire' = w /\ UNCHANGED countdown

\* run() after establish: enter waiting_for_local_start, start the reader and
\* the loop, and under --non-interactive announce readiness at once.
Launch(r) ==
  /\ st[r] = "handshake" /\ fin[r] = NoFin
  /\ LET s == Transition(st[r], "waiting_for_local_start")
     IN IF r \in NonInteractive THEN SendLocalReady(r, s)
        ELSE st' = [st EXCEPT ![r] = s] /\ UNCHANGED <<localReady, countdown, wire>>
  /\ UNCHANGED <<fin, td, interrupted, link, peerReady, strikes, planVars,
                 sentComplete, execVars, linkVars, xferVars>>

\* The coordinator's handshake is over once its capabilities are written; the
\* worker still validates them and may reject, sending an abort that finds the
\* coordinator in its session, or merely closing.
HandshakeReject ==
  /\ st["PC2"] = "handshake" /\ fin["PC2"] = NoFin
  /\ \E s \in Stop : /\ Goto("PC2", s)
                     /\ Finish("PC2", s, "handshake", TRUE)
  /\ \E w \in {wire, Put(wire, "PC2", Msg("abort", 0, "handshake"))} :
       wire' = [w EXCEPT !["PC2"] = <<>>]
  /\ td' = [td EXCEPT !["PC2"] = "done"]
  /\ UNCHANGED <<interrupted, link, startVars, strikes, planVars,
                 sentComplete, execVars, linkVars, xferVars>>

\* The operator types start.
StartCommand(r) ==
  /\ Running(r) /\ r \notin NonInteractive
  /\ ~localReady[r] /\ st[r] = "waiting_for_local_start"
  /\ SendLocalReady(r, st[r])
  /\ UNCHANGED <<fin, td, interrupted, link, peerReady, strikes, planVars,
                 sentComplete, execVars, linkVars, xferVars>>

\* The operator types quit, or stdin ends.
QuitCommand(r) ==
  /\ Running(r) /\ r \notin NonInteractive
  /\ Finish(r, "aborted", "user_interrupt", TRUE)
  /\ UNCHANGED <<st, td, interrupted, netVars, startVars, strikes, planVars,
                 sentComplete, execVars, linkVars, xferVars>>

\* A state-inappropriate frame: warn the peer, count the strike, give up at
\* the third.
WarnInvalidState(r, w) ==
  /\ strikes' = [strikes EXCEPT ![r] = @ + 1]
  /\ wire' = Put(w, r, Msg("warning", 0, "none"))
  /\ IF strikes[r] + 1 >= MaxInvalidState
     THEN Finish(r, "aborted", "protocol_error", TRUE) ELSE UNCHANGED fin

HandlePeerReady(r, f, w) ==
  /\ f.type = "ready"
  /\ IF peerReady[r]
     THEN wire' = w /\ UNCHANGED <<st, fin, strikes, peerReady, countdown>>
     ELSE IF st[r] = "waiting_for_local_start"
     THEN /\ peerReady' = [peerReady EXCEPT ![r] = TRUE]
          /\ wire' = w
          /\ UNCHANGED <<st, fin, strikes, countdown>>
     ELSE IF st[r] = "waiting_for_peer_start"
     THEN /\ peerReady' = [peerReady EXCEPT ![r] = TRUE]
          /\ Goto(r, "ready")
          /\ OnBothReady(r, w)
          /\ UNCHANGED <<fin, strikes>>
     ELSE WarnInvalidState(r, w) /\ UNCHANGED <<st, peerReady, countdown>>
  /\ UNCHANGED <<td, interrupted, link, localReady, planVars, sentComplete,
                 execVars, linkVars, xferVars>>

\* Only the worker in state ready takes the start; its countdown runs from
\* the arrival of the frame.
HandleStartConfirmation(r, f, w) ==
  /\ f.type = "start_confirmation"
  /\ IF r = "PC2" /\ st[r] = "ready"
     THEN /\ countdown' = [countdown EXCEPT ![r] = TRUE]
          /\ wire' = w
          /\ UNCHANGED <<fin, strikes>>
     ELSE WarnInvalidState(r, w) /\ UNCHANGED countdown
  /\ UNCHANGED <<st, td, interrupted, link, localReady, peerReady, planVars,
                 sentComplete, execVars, linkVars, xferVars>>

\* GO: the last countdown tick.  The coordinator launches its plan driver.
OnCountdownGo(r) ==
  /\ Running(r) /\ countdown[r]
  /\ countdown' = [countdown EXCEPT ![r] = FALSE]
  /\ Goto(r, "testing")
  /\ plan' = IF r = "PC1" /\ "testing" \in validTransitions[st[r]]
             THEN [plan EXCEPT !.pc = "base"] ELSE plan
  /\ UNCHANGED <<fin, td, interrupted, netVars, localReady, peerReady, strikes,
                 call, expired, sentComplete, execVars, linkVars, xferVars>>

-----------------------------------------------------------------------------
(* The coordinator's plan driver.  testsuite's plans are reduced to their  *)
(* control: a base plan of up to MaxCalls sequential RPCs, the detached    *)
(* final-counter boundary, and the optional cable diagnostic after it.     *)

AfterBase(p) ==
  [p EXCEPT !.pc = IF p.err = "nil" /\ Cable THEN "window" ELSE "returned"]
BaseEnds(e) == [plan EXCEPT !.pc = "boundary", !.err = e]

\* SoakPlan: the budget cancels what is in flight; inside a cycle that is the
\* normal end, during set-up the cancellation is returned as the error.
BudgetErr == IF Soak /\ plan.spent /\ plan.answered >= SetupCalls
             THEN "nil" ELSE "cancel"

\* The final boundary: its failure becomes the plan's error only when the plan
\* has none of its own.
BoundaryErrIgnored(outcome) == plan.err
BoundaryErr(outcome) ==
  IF outcome = "ok" \/ plan.err # "nil" THEN plan.err
  ELSE IF outcome = "cancel" THEN "cancel" ELSE "error"

\* What a plan does with the outcome of an RPC for operation o.
PlanAfter(o, outcome) ==
  CASE o \in BaseOps ->
         IF outcome \in {"ok", "unavailable"}
         THEN [plan EXCEPT !.pc = "base", !.answered = @ + 1]
         ELSE BaseEnds(IF outcome = "cancel" THEN BudgetErr ELSE "error")
    [] o = "snapshot" ->
         AfterBase([plan EXCEPT !.err = BoundaryErr(outcome)])
    [] o = "window_start" ->
         [plan EXCEPT !.pc = IF outcome = "ok" THEN "tdr" ELSE "returned"]
    [] o = "window_end" -> [plan EXCEPT !.pc = "returned"]

\* CablePlan's deferred SetIdleTimeout runs when the plan returns.
PlanGoes(p) ==
  /\ plan' = p
  /\ idle' = IF p.pc = "returned" THEN [idle EXCEPT !["PC1"] = "normal"] ELSE idle

\* call(): register and write in one step under the write lock, then block.
\* Registration is refused once teardown closed the registry; a detached call
\* is also refused as soon as the session context is done.
IssueCall(o, armed) ==
  IF td["PC1"] # "open" \/ (~armed /\ CtxDone("PC1"))
  THEN PlanGoes(PlanAfter(o, "cancel")) /\ UNCHANGED <<call, wire>>
  ELSE \E ok \in WriteOutcomes("PC1") :
         IF ok
         THEN LET id == plan.calls + 1 IN
              /\ call' = [id |-> id, op |-> o, armed |-> armed, reply |-> "none"]
              /\ wire' = Put(wire, "PC1", Msg("test_request", id, o))
              /\ plan' = [plan EXCEPT !.pc = "call", !.calls = id]
              /\ idle' = IF o = "window_start"
                         THEN [idle EXCEPT !["PC1"] = "wide"] ELSE idle
         ELSE PlanGoes(PlanAfter(o, "failed")) /\ UNCHANGED <<call, wire>>

PlanFrame == /\ UNCHANGED <<lifeVars, link, startVars, strikes, sentComplete,
                            execVars, xferVars>>

PlanCall ==
  /\ plan.pc = "base" /\ plan.calls < MaxCalls
  /\ \E o \in BaseOps : IssueCall(o, TRUE)
  /\ UNCHANGED <<expired, carrier>> /\ PlanFrame

\* Every plan's first steps query the worker; a plan that succeeds has had
\* those requests answered.
BaseMaySucceed == plan.answered >= IF Soak THEN SetupCalls ELSE 1

\* The base plan ends: nil after some RPC was answered, on a local failure
\* with an error, or with the cancellation a local operation noticed.
PlanBaseEnds ==
  /\ plan.pc = "base"
  /\ \E e \in PlanErr :
       /\ e = "nil" => BaseMaySucceed
       /\ e = "cancel" => CtxDone("PC1") \/ (plan.spent /\ BudgetErr = "cancel")
       /\ PlanGoes(BaseEnds(e))
  /\ UNCHANGED <<call, expired, wire, carrier>> /\ PlanFrame

\* SoakPlan always takes the final counters, the other plans only to salvage
\* them after an error, and then only when the initial ones were captured.
PlanBoundary ==
  /\ plan.pc = "boundary"
  /\ \/ /\ Soak \/ plan.err # "nil"
        /\ IssueCall("snapshot", FALSE)
     \/ /\ Soak \/ plan.err # "nil"     \* the local snapshot fails
        /\ PlanGoes(PlanAfter("snapshot", "failed"))
        /\ UNCHANGED <<call, wire>>
     \/ /\ ~Soak
        /\ PlanGoes(AfterBase(plan))
        /\ UNCHANGED <<call, wire>>
  /\ UNCHANGED <<expired, carrier>> /\ PlanFrame

\* The soak budget timer cancels the budget context.
BudgetExpires ==
  /\ Soak /\ ~plan.spent /\ plan.pc \in {"base", "call"}
  /\ plan.pc = "call" => call.op \in BaseOps
  /\ plan' = [plan EXCEPT !.spent = TRUE]
  /\ UNCHANGED <<call, expired, wire, linkVars>> /\ PlanFrame

\* The blocked call returns: a reply, a cancelled context, or the timer.  An
\* armed timer first posts evCallExpired, which a finished context may drop.
CallReturns ==
  /\ plan.pc = "call"
  /\ \/ /\ call.reply # "none"
        /\ PlanGoes(PlanAfter(call.op, call.reply))
        /\ UNCHANGED expired
     \/ /\ CtxDone("PC1") \/ (plan.spent /\ call.op \in BaseOps)
        /\ PlanGoes(PlanAfter(call.op, "cancel"))
        /\ UNCHANGED expired
     \/ /\ PlanGoes(PlanAfter(call.op, "failed"))
        /\ \E e \in {call.armed} \cup (IF CtxDone("PC1") THEN {FALSE} ELSE {}) :
             expired' = (expired \/ e)
  /\ call' = NoCall
  /\ UNCHANGED <<wire, carrier>> /\ PlanFrame

\* CablePlan: widen the local read timeout and open the worker's window, run
\* the diagnostic, close the window.
CableWindowStart ==
  /\ plan.pc = "window"
  /\ IssueCall("window_start", TRUE)
  /\ UNCHANGED <<expired, carrier>> /\ PlanFrame

CarrierDrops ==
  /\ plan.pc = "tdr" /\ carrier = "up"
  /\ carrier' = "down"
  /\ UNCHANGED <<planVars, wire, idle>> /\ PlanFrame

CarrierReturns ==
  /\ carrier = "down"
  /\ carrier' = "up"
  /\ UNCHANGED <<planVars, wire, idle>> /\ PlanFrame

CableTestReturns ==
  /\ plan.pc = "tdr"
  /\ \/ PlanGoes([plan EXCEPT !.pc = "end"])
     \/ \E e \in {"error"} \cup (IF CtxDone("PC1") THEN {"cancel"} ELSE {}) :
          PlanGoes([plan EXCEPT !.pc = "returned", !.err = e])
  /\ UNCHANGED <<call, expired, wire, carrier>> /\ PlanFrame

CableWindowEnd ==
  /\ plan.pc = "end"
  /\ IssueCall("window_end", TRUE)
  /\ UNCHANGED <<expired, carrier>> /\ PlanFrame

-----------------------------------------------------------------------------
(* RPC handlers of the two loops and the worker's executor                 *)

NotWidened(r) == idle
Widened(r) == [idle EXCEPT ![r] = "wide"]

Reply(w, id, s) == Put(w, "PC2", Msg("test_result", id, s))

\* Only a worker past GO runs operations.
RefusesByRole(r) == r # "PC2"
RefusesRequest(r) == r # "PC2" \/ st[r] # "testing"

\* At most one operation runs; an overlapping request is answered "rejected".
HandleTestRequest(r, f, w) ==
  /\ f.type = "test_request"
  /\ IF RefusesRequest(r)
     THEN WarnInvalidState(r, w) /\ UNCHANGED <<op, window, marked, idle>>
     ELSE /\ UNCHANGED <<fin, strikes>>
          /\ IF f.arg = "cancel"
             THEN /\ wire' = Reply(w, f.id, "ok")
                  /\ UNCHANGED <<op, window, marked, idle>>
             ELSE IF \/ op.phase # "off"
                     \/ f.arg = "window_start" /\ window
                     \/ f.arg = "window_end" /\ ~window
             THEN /\ wire' = Reply(w, f.id, "rejected")
                  /\ UNCHANGED <<op, window, marked, idle>>
             ELSE /\ op' = [id |-> f.id, op |-> f.arg, phase |-> "running",
                            status |-> "ok"]
                  /\ wire' = w
                  /\ IF f.arg = "window_start"
                     THEN /\ idle' = Widened(r)
                          /\ window' = TRUE /\ marked' = TRUE
                     ELSE UNCHANGED <<idle, window, marked>>
  /\ UNCHANGED <<st, td, interrupted, link, startVars, planVars, sentComplete,
                 ran, carrier, xferVars>>

\* The executor's HandleOp returns and evOpDone is posted (or dropped by a
\* finished context; either way the goroutine ends).
OpFinishes ==
  /\ op.phase = "running"
  /\ \E s \in {"ok", "unavailable", "failed"} :
       /\ op' = [op EXCEPT !.phase = "posted", !.status = s]
       /\ ran' = IF s = "ok" THEN ran \cup {op.id} ELSE ran
  /\ UNCHANGED <<lifeVars, netVars, startVars, strikes, planVars, sentComplete,
                 window, marked, linkVars, xferVars>>

\* Release the slot, close the cable window where it ends or failed to open,
\* and answer the coordinator.
HandleOpDone ==
  /\ Running("PC2") /\ op.phase = "posted"
  /\ op' = NoOp
  /\ IF op.op = "window_end" \/ (op.op = "window_start" /\ op.status # "ok")
     THEN /\ window' = FALSE /\ marked' = FALSE
          /\ idle' = [idle EXCEPT !["PC2"] = "normal"]
     ELSE UNCHANGED <<window, marked, idle>>
  /\ wire' = Reply(wire, op.id, op.status)
  /\ UNCHANGED <<lifeVars, link, startVars, strikes, planVars, sentComplete,
                 ran, carrier, xferVars>>

\* takeCall: the registry holds the blocked call until its reply is taken.
AnswersAny(f) == plan.pc = "call" /\ call.reply = "none"
Answers(f) == plan.pc = "call" /\ call.reply = "none" /\ call.id = f.id

\* A result is handed to the call it answers; a late one is dropped.
HandleTestResult(r, f, w) ==
  /\ f.type = "test_result"
  /\ call' = IF r = "PC1" /\ Answers(f)
             THEN [call EXCEPT !.reply = f.arg] ELSE call
  /\ wire' = w
  /\ UNCHANGED <<lifeVars, link, startVars, strikes, plan, expired,
                 sentComplete, execVars, linkVars, xferVars>>

\* evCallExpired: an armed RPC got no result in its budget.
HandleCallExpired ==
  /\ Running("PC1") /\ expired
  /\ expired' = FALSE
  /\ Finish("PC1", "failed", "request_timeout", TRUE)
  /\ UNCHANGED <<st, td, interrupted, netVars, startVars, strikes, plan, call,
                 sentComplete, execVars, linkVars, xferVars>>

-----------------------------------------------------------------------------
(* Plan completion, report transfer and the complete exchange              *)

SendComplete(r, w) ==
  /\ wire' = Put(w, r, Msg("complete", 0, "none"))
  /\ sentComplete' = TRUE

HandlePlanDone ==
  /\ Running("PC1") /\ plan.pc = "returned" /\ ~expired
  /\ plan' = [plan EXCEPT !.pc = "handled"]
  /\ \/ /\ plan.err = "cancel"
        /\ UNCHANGED <<st, fin, wire, sentComplete, xOn, xRan, sender>>
     \/ /\ plan.err = "error"
        /\ Finish("PC1", "failed", "internal_error", TRUE)
        /\ UNCHANGED <<st, wire, sentComplete, xOn, xRan, sender>>
     \/ /\ plan.err = "nil"
        /\ Goto("PC1", "generating_report")
        /\ IF SendReports
           THEN /\ xOn' = [xOn EXCEPT !["PC1"] = TRUE]
                /\ xRan' = [xRan EXCEPT !["PC1"] = TRUE]
                /\ sender' = [sender EXCEPT !.pc = "manifest"]
                /\ UNCHANGED <<wire, sentComplete>>
           ELSE SendComplete("PC1", wire) /\ UNCHANGED <<xOn, xRan, sender>>
        /\ UNCHANGED fin
  /\ UNCHANGED <<td, interrupted, link, startVars, strikes, call, expired,
                 execVars, linkVars, xBuf, receiver>>

\* The loop hands a transfer frame to the running callback without blocking;
\* a straggler after a transfer is dropped, one before any is a strike.
RouteTransferFrame(r, f, w) ==
  IF xOn[r]
  THEN /\ xBuf' = IF Len(xBuf[r]) < TransferBuffer
                  THEN [xBuf EXCEPT ![r] = Append(@, f.arg)] ELSE xBuf
       /\ wire' = w /\ UNCHANGED <<fin, strikes>>
  ELSE /\ UNCHANGED xBuf
       /\ IF xRan[r] THEN wire' = w /\ UNCHANGED <<fin, strikes>>
          ELSE WarnInvalidState(r, w)

HandleTransferFrame(r, f, w) ==
  /\ f.type \in {"report_chunk", "report_ack"}
  /\ RouteTransferFrame(r, f, w)
  /\ UNCHANGED <<st, td, interrupted, link, startVars, planVars, sentComplete,
                 execVars, linkVars, xOn, xRan, sender, receiver>>

\* Without a receiver the manifest is declined, and the transfer counts as
\* having run so that the chunks already streamed are stragglers.
RanOnlyWithReceiver(r) == [xRan EXCEPT ![r] = HasReceiver]
RanAfterManifest(r) == [xRan EXCEPT ![r] = TRUE]

HandleReportManifest(r, f, w) ==
  /\ f.type = "report"
  /\ IF r # "PC2" \/ st[r] \notin {"testing", "generating_report"}
     THEN WarnInvalidState(r, w) /\ UNCHANGED <<st, xOn, xRan, xBuf, receiver>>
     ELSE /\ Goto(r, "generating_report")
          /\ xRan' = RanAfterManifest(r)
          /\ IF HasReceiver
             THEN /\ xOn' = [xOn EXCEPT ![r] = TRUE]
                  /\ receiver' = "recv"
                  /\ xBuf' = [xBuf EXCEPT ![r] = <<f.arg>>]
                  /\ wire' = w
             ELSE /\ wire' = Put(w, r, Msg("report_ack", 0, "declined"))
                  /\ UNCHANGED <<xOn, xBuf, receiver>>
          /\ UNCHANGED <<fin, strikes>>
  /\ UNCHANGED <<td, interrupted, link, startVars, planVars, sentComplete,
                 execVars, linkVars, sender>>

XferFrame == UNCHANGED <<lifeVars, link, startVars, strikes, planVars,
                         sentComplete, execVars, linkVars, xOn, xRan>>

AtLastChunkLate == sender.sent = MaxChunks
AtLastChunk == sender.sent + 1 = MaxChunks

\* SendReports, one file: the manifest, the chunks, then one acknowledgement.
SenderWrites ==
  /\ sender.pc \in {"manifest", "stream"}
  /\ \E ok \in WriteOutcomes("PC1"), last \in BOOLEAN :
       /\ sender.pc = "manifest" => ~last
       /\ sender.pc = "stream" /\ AtLastChunk => last
       /\ wire' = IF ~ok THEN wire
                  ELSE IF sender.pc = "manifest"
                  THEN Put(wire, "PC1", Msg("report", 0, "none"))
                  ELSE Put(wire, "PC1",
                           Msg("report_chunk", 0, IF last THEN "last" ELSE "more"))
       /\ sender' = [pc |-> IF ~ok THEN "failed" ELSE IF last THEN "await" ELSE "stream",
                     sent |-> IF sender.pc = "stream" THEN sender.sent + 1 ELSE 0]
  /\ UNCHANGED <<xBuf, receiver>> /\ XferFrame

\* Any acknowledgement ends the sender; a local failure or a finished context
\* ends it with an error.
SenderEnds ==
  /\ \/ /\ sender.pc = "await" /\ xBuf["PC1"] # <<>>
        /\ sender' = [sender EXCEPT !.pc = "ok"]
        /\ xBuf' = [xBuf EXCEPT !["PC1"] = Tail(@)]
     \/ /\ \/ sender.pc \in {"manifest", "stream"}
           \/ sender.pc = "await" /\ CtxDone("PC1")
        /\ sender' = [sender EXCEPT !.pc = "failed"]
        /\ UNCHANGED xBuf
  /\ UNCHANGED <<wire, receiver>> /\ XferFrame

\* ReceiveReports: take one routed frame.  The last chunk is acknowledged and
\* ends it, a local failure declines the rest.
ReceiverTakes ==
  /\ receiver = "recv" /\ xBuf["PC2"] # <<>>
  /\ xBuf' = [xBuf EXCEPT !["PC2"] = Tail(@)]
  /\ \/ /\ Head(xBuf["PC2"]) # "last"
        /\ UNCHANGED <<receiver, wire>>
     \/ /\ Head(xBuf["PC2"]) = "last"
        /\ receiver' = "ok"
        /\ wire' = Put(wire, "PC2", Msg("report_ack", 0, "ok"))
     \/ /\ receiver' = "failed"
        /\ wire' = Put(wire, "PC2", Msg("report_ack", 0, "declined"))
  /\ UNCHANGED sender /\ XferFrame

ReceiverStops ==
  /\ receiver = "recv" /\ CtxDone("PC2")
  /\ receiver' = "failed"
  /\ UNCHANGED <<wire, xBuf, sender>> /\ XferFrame

AnyoneConcludes(r) == ~sentComplete
ConcludesIfSent(r) == r = "PC1" /\ ~sentComplete /\ sender.pc = "ok"
ConcludesAfterTransfer(r) == r = "PC1" /\ ~sentComplete

\* evTransferDone: stop routing, warn about a failure, and on the coordinator
\* go on to the complete exchange whatever the outcome.
HandleTransferDone(r) ==
  /\ Running(r)
  /\ \E e \in {"ok", "failed"} :
       /\ IF r = "PC1" THEN sender.pc = e ELSE receiver = e
       /\ LET w == IF e = "failed" THEN Put(wire, r, Msg("warning", 0, "none")) ELSE wire
          IN IF ConcludesAfterTransfer(r) THEN SendComplete(r, w)
             ELSE wire' = w /\ UNCHANGED sentComplete
  /\ IF r = "PC1" THEN sender' = [sender EXCEPT !.pc = "handled"] /\ UNCHANGED receiver
     ELSE receiver' = "handled" /\ UNCHANGED sender
  /\ xOn' = [xOn EXCEPT ![r] = FALSE]
  /\ UNCHANGED <<lifeVars, link, startVars, strikes, planVars, execVars,
                 linkVars, xRan, xBuf>>

\* The worker answers the coordinator's complete with its own; each side
\* finishes on the complete it receives.
HandleComplete(r, f, w) ==
  /\ f.type = "complete"
  /\ IF IF r = "PC1" THEN ~sentComplete
        ELSE st[r] \notin {"testing", "generating_report"}
     THEN WarnInvalidState(r, w) /\ UNCHANGED st
     ELSE /\ IF r = "PC2"
             THEN /\ Goto(r, "generating_report")
                  /\ wire' = Put(w, r, Msg("complete", 0, "none"))
             ELSE wire' = w /\ UNCHANGED st
          /\ Finish(r, "completed", "none", FALSE)
          /\ UNCHANGED strikes
  /\ UNCHANGED <<td, interrupted, link, startVars, planVars, sentComplete,
                 execVars, linkVars, xferVars>>

-----------------------------------------------------------------------------
(* Abort, connection loss, interrupt and the ordered teardown              *)

HandlePeerAbort(r, f, w) ==
  /\ f.type = "abort"
  /\ Finish(r, "aborted", f.arg, FALSE)
  /\ wire' = w
  /\ UNCHANGED <<st, td, interrupted, link, startVars, strikes, planVars,
                 sentComplete, execVars, linkVars, xferVars>>

\* The peer's warning is only logged.
HandleWarning(r, f, w) ==
  /\ f.type = "warning"
  /\ wire' = w
  /\ UNCHANGED <<lifeVars, link, startVars, strikes, planVars, sentComplete,
                 execVars, linkVars, xferVars>>

\* The reader forwards the oldest frame and the loop dispatches it.  Nothing
\* arrives while the carrier is down.
HandleFrame(r) ==
  /\ Running(r) /\ wire[r] # <<>> /\ carrier = "up"
  /\ LET f == Head(wire[r])
         w == [wire EXCEPT ![r] = Tail(@)]
     IN \/ HandlePeerReady(r, f, w)
        \/ HandleStartConfirmation(r, f, w)
        \/ HandleTestRequest(r, f, w)
        \/ HandleTestResult(r, f, w)
        \/ HandleWarning(r, f, w)
        \/ HandlePeerAbort(r, f, w)
        \/ HandleReportManifest(r, f, w)
        \/ HandleTransferFrame(r, f, w)
        \/ HandleComplete(r, f, w)

\* The reader fails after the frames that still arrived, or because a silent
\* link outlasts the read timeout; heartbeats keep a live link from doing so
\* and the window's timeout is longer than any diagnostic.
ReadFailsOnLoss(r) ==
  \/ wire[r] = <<>> /\ link = "cut"
  \/ carrier = "down" /\ idle[r] = "normal"
ReadFails(r) ==
  \/ wire[r] = <<>> /\ (link = "cut" \/ td[Peer(r)] # "open")
  \/ carrier = "down" /\ idle[r] = "normal"

HandleConnErr(r) ==
  /\ Running(r) /\ ReadFails(r)
  /\ Finish(r, "aborted", "peer_lost", FALSE)
  /\ UNCHANGED <<st, td, interrupted, netVars, startVars, strikes, planVars,
                 sentComplete, execVars, linkVars, xferVars>>

\* Ctrl+C cancels the caller's context, and with it the session's; the loop
\* notices whenever its select picks that case.
CtrlC(r) ==
  /\ r \in Interruptible /\ ~interrupted[r] /\ Running(r)
  /\ interrupted' = [interrupted EXCEPT ![r] = TRUE]
  /\ UNCHANGED <<st, fin, td, netVars, startVars, strikes, planVars,
                 sentComplete, execVars, linkVars, xferVars>>

HandleInterrupt(r) ==
  /\ Running(r) /\ interrupted[r]
  /\ Finish(r, "aborted", "user_interrupt", TRUE)
  /\ UNCHANGED <<st, td, interrupted, netVars, startVars, strikes, planVars,
                 sentComplete, execVars, linkVars, xferVars>>

\* The connection dies: each direction loses some suffix of what is in flight.
LinkCut ==
  /\ LinkMayFail /\ link = "up"
  /\ link' = "cut"
  /\ \E n1 \in 0..Len(wire["PC1"]), n2 \in 0..Len(wire["PC2"]) :
       wire' = [r \in Role |-> SubSeq(wire[r], 1, IF r = "PC1" THEN n1 ELSE n2)]
  /\ UNCHANGED <<lifeVars, startVars, strikes, planVars, sentComplete,
                 execVars, linkVars, xferVars>>

FarewellSwapped(r) == Msg("abort", 0, st[r])
FarewellGeneric(r) == Msg("abort", 0, "internal_error")
FarewellFrame(r) == Msg("abort", 0, fin[r].reason)

WindowKept(r) == UNCHANGED <<window, marked>>
ReleaseWindow(r) ==
  IF r = "PC2" THEN window' = FALSE /\ marked' = FALSE
  ELSE UNCHANGED <<window, marked>>

\* shutdown, first half: the executor has returned, then the best-effort
\* farewell, the cable window, the connection and the pending calls.
Teardown(r) ==
  /\ Finishing(r) /\ td[r] = "open"
  /\ r = "PC2" => op.phase # "running"
  /\ \E sent \in {FALSE, fin[r].farewell} :
       LET w == IF sent THEN Put(wire, r, FarewellFrame(r)) ELSE wire
       IN wire' = [w EXCEPT ![r] = <<>>]
  /\ td' = [td EXCEPT ![r] = "closed"]
  /\ ReleaseWindow(r)
  /\ UNCHANGED <<st, fin, interrupted, link, startVars, strikes, planVars,
                 sentComplete, op, ran, linkVars, xferVars>>

\* shutdown, second half: the goroutines have drained; enter the final state.
Drained(r) ==
  IF r = "PC1" THEN /\ plan.pc \in {"off", "returned", "handled"}
                    /\ sender.pc \in {"off", "ok", "failed", "handled"}
  ELSE op.phase # "running" /\ receiver # "recv"

Exit(r) ==
  /\ td[r] = "closed" /\ Drained(r)
  /\ Goto(r, fin[r].state)
  /\ td' = [td EXCEPT ![r] = "done"]
  /\ UNCHANGED <<fin, interrupted, netVars, startVars, strikes, planVars,
                 sentComplete, execVars, linkVars, xferVars>>

-----------------------------------------------------------------------------

\* One iteration of the loop of r, other than an operator command.
Loop(r) ==
  \/ HandleFrame(r)
  \/ OnCountdownGo(r)
  \/ HandleConnErr(r)
  \/ HandleInterrupt(r)
  \/ HandleTransferDone(r)
  \/ r = "PC1" /\ (HandleCallExpired \/ HandlePlanDone)
  \/ r = "PC2" /\ HandleOpDone

PlanStep ==
  \/ PlanCall \/ PlanBaseEnds \/ PlanBoundary \/ CallReturns
  \/ CableWindowStart \/ CableTestReturns \/ CableWindowEnd

SenderStep == SenderWrites \/ SenderEnds
ReceiverStep == ReceiverTakes \/ ReceiverStops

AllDone == \A r \in Role : td[r] = "done"
Finished == AllDone /\ UNCHANGED vars

Next ==
  \/ \E r \in Role :
       \/ Launch(r) \/ StartCommand(r) \/ QuitCommand(r) \/ CtrlC(r)
       \/ Loop(r) \/ Teardown(r) \/ Exit(r)
  \/ HandshakeReject
  \/ PlanStep \/ BudgetExpires \/ CarrierDrops \/ CarrierReturns
  \/ OpFinishes \/ SenderStep \/ ReceiverStep \/ LinkCut
  \/ Finished

Spec == Init /\ [][Next]_vars

\* Every goroutine that can run eventually does: the Go scheduler runs the
\* loops, timers fire, operations and local plan steps honour their contexts.
\* Nothing is assumed of the operators, of Ctrl+C or of the link.
Fairness ==
  /\ \A r \in Role : /\ WF_vars(Launch(r))
                     /\ WF_vars(Loop(r))
                     /\ WF_vars(Teardown(r))
                     /\ WF_vars(Exit(r))
  /\ WF_vars(PlanStep) /\ WF_vars(OpFinishes)
  /\ WF_vars(SenderStep) /\ WF_vars(ReceiverStep)
  /\ WF_vars(CarrierReturns)

FairSpec == Spec /\ Fairness

-----------------------------------------------------------------------------
(* Properties                                                              *)

\* Type invariant of the session variables on both sides.
TypeOK ==
  /\ st \in [Role -> PeerState]
  /\ fin \in [Role -> FinSpec]
  /\ td \in [Role -> {"open", "closed", "done"}]
  /\ interrupted \in [Role -> BOOLEAN]
  /\ wire \in [Role -> Seq(Frame)]
  /\ link \in {"up", "cut"}
  /\ localReady \in [Role -> BOOLEAN]
  /\ peerReady \in [Role -> BOOLEAN]
  /\ countdown \in [Role -> BOOLEAN]
  /\ strikes \in [Role -> Nat]
  /\ plan \in Plan
  /\ call \in Call
  /\ expired \in BOOLEAN
  /\ sentComplete \in BOOLEAN
  /\ op \in ActiveOp
  /\ window \in BOOLEAN
  /\ marked \in BOOLEAN
  /\ idle \in [Role -> {"normal", "wide"}]
  /\ carrier \in {"up", "down"}
  /\ ran \subseteq Nat
  /\ xOn \in [Role -> BOOLEAN]
  /\ xRan \in [Role -> BOOLEAN]
  /\ xBuf \in [Role -> Seq(FrameArg)]
  /\ sender \in SenderState
  /\ receiver \in {"off", "recv", "ok", "failed", "handled"}

Completed(r) == fin[r].state = "completed"

\* The complete exchange is an agreement: the coordinator reports a completed
\* session only if the worker does, and the worker only if the coordinator
\* has issued its verdict after a plan that succeeded (handleComplete,
\* handlePlanDone), whatever is interrupted, lost or late.
CompletionAgreed ==
  /\ Completed("PC1") => Completed("PC2")
  /\ Completed("PC2") => sentComplete /\ plan.err = "nil" /\ plan.pc = "handled"

\* A worker completes with nothing running and no cable window open: the
\* coordinator never concludes over an operation it gave up waiting for.  Only
\* when it is interrupted within the cable diagnostic, where CablePlan returns
\* nil and the loop may pick that event first, is something left, and then it
\* is the diagnostic's own request or its window, never a test.
WorkerIdleAtCompletion ==
  Completed("PC2") =>
    \/ op.phase = "off" /\ ~window
    \/ interrupted["PC1"] /\ (op.phase = "off" \/ op.op \in {"window_start", "window_end"})

\* Two well-behaved peers never strike each other out: early requests, the
\* chunks streamed to a receiver that declined or failed, and late frames stay
\* below the invalid-state limit (warnInvalidState, routeTransferFrame).
NoProtocolError == \A r \in Role : fin[r].reason # "protocol_error"

\* The plan gets "ok" for an operation only if the worker ran that very
\* request to its end; a late result never answers a later call.
ResultIsOfThisCall ==
  call.reply = "ok" /\ call.op # "cancel" => call.id \in ran

\* The table lets every teardown enter the state it was asked to enter:
\* shutdown's last Transition is never rejected.
FinalStateEntered == \A r \in Role : td[r] = "done" => st[r] = fin[r].state

\* A side that aborts for a reason it was told (it sends no farewell and has
\* not merely lost the peer) was told by a peer that really ended for that
\* reason: what the two diagnostics report agrees (handlePeerAbort, shutdown).
AbortReasonTrue ==
  \A r \in Role :
    fin[r].state = "aborted" /\ ~fin[r].farewell /\ fin[r].reason # "peer_lost" =>
      fin[Peer(r)].farewell /\ fin[Peer(r)].reason = fin[r].reason

\* The self-inflicted link loss of the cable diagnostic is covered on both
\* sides: while the carrier is down under a session that goes on, neither
\* reader is on its normal timeout.
CarrierLossCovered ==
  carrier = "down" /\ plan.pc \notin {"returned", "handled"} =>
    \A r \in Role : fin[r] = NoFin /\ fin[Peer(r)] = NoFin => idle[r] = "wide"

\* Whatever ends the session, PC2's monitor is not left annotating events as
\* self-inflicted.
WindowReleased == td["PC2"] # "open" => ~marked

\* A verdict or a manifest always finds the worker past GO, although the two
\* countdowns are not synchronized: neither is ever refused.
VerdictNotRefused ==
  Running("PC2") /\ (\E i \in 1..Len(wire["PC2"]) :
                       wire["PC2"][i].type \in {"complete", "report"}) =>
    st["PC2"] \in {"testing", "generating_report"}

\* The routing buffer never drops a frame of a running transfer.
TransferNeverDrops ==
  \A r \in Role :
    xOn[r] /\ Running(r) /\ wire[r] # <<>>
      /\ Head(wire[r]).type \in {"report_chunk", "report_ack"} =>
      Len(xBuf[r]) < TransferBuffer

\* Once one side ends, both processes end: no goroutine, pending call or
\* blocked read survives the teardown, and the peer always notices.
EndSpreads == (\E r \in Role : Finishing(r)) ~> AllDone

\* An unattended session always ends.
SessionEnds == <>AllDone

\* handlePlanDone on a cancelled plan: "the teardown that cancelled the plan
\* is already in flight".
CancelMeansTeardown ==
  plan.pc = "returned" /\ plan.err = "cancel" => CtxDone("PC1")

\* docs/design/proto.md: "The coordinator never legitimately overlaps
\* requests": while no call has expired and both sides go on, a request finds
\* the worker's single operation slot free.
NoOverlap ==
  /\ Running("PC1") /\ ~expired
  /\ Running("PC2") /\ wire["PC2"] # <<>> /\ Head(wire["PC2"]).type = "test_request"
  /\ Head(wire["PC2"]).arg # "cancel"
  => op.phase = "off"
=============================================================================
