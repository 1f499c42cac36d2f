--------------------------- MODULE SessionProofs ---------------------------
(***************************************************************************)
(* Proofs about the session of two peers, for every plan length, transfer  *)
(* length, buffer size and choice of roles that may be interrupted.        *)
(*                                                                         *)
(* First type correctness, that an abort a side was told of names the      *)
(* reason its peer ended for, and that completion is agreed.  They share   *)
(* two facts proved action by action: which frames a step may put on the   *)
(* wires (WritesStep) and on which evidence a side may decide its outcome, *)
(* once (FinStep).                                                         *)
(*                                                                         *)
(* Then the order of events on one side: the final state is the one        *)
(* decided, the annotation window is released, a verdict finds the worker  *)
(* past GO, and a reply belongs to its call.  Four facts carry them: how   *)
(* the life of one side may change in a step (LifeStep), what the plan     *)
(* driver does to its record and its call (PlanSteps, PlanMoves), what the *)
(* executor's slot holds (SlotStep), and what happens to the wires, with   *)
(* the writer of every new frame (WireStep, NewFrame).                     *)
(*                                                                         *)
(* Last the frames in flight between the two peers and the worker they     *)
(* serve.  Whatever the order in which the loops take them, no side is     *)
(* struck out for frames that come too early or too late, no frame of a    *)
(* report transfer is dropped at a full channel, the verdict finds the     *)
(* worker's slot free and its window closed, and the carrier loss of the   *)
(* cable diagnostic is covered on both sides.  All are facts about the     *)
(* order of the wires: a frame is related to the ones before it (Ordered,  *)
(* Preceded), the readiness exchange and GO are delivered in turn, every   *)
(* transfer frame has the state of the sender it came from (SenderOrder,   *)
(* Filled), and requests, operations and results follow one another by     *)
(* their IDs (Turns, Alone, Windows).                                      *)
(***************************************************************************)
EXTENDS Session, TLAPS

-----------------------------------------------------------------------------
(* Lemmas about the operators of the model                                 *)

\* A transition ends in a session state, whatever was asked for.
LEMMA TransitionType ==
  ASSUME NEW s \in PeerState, NEW t
  PROVE  Transition(s, t) \in PeerState
BY DEF Transition, validTransitions, Forward, PeerState, Stop

\* The peer of a role is the other role.
LEMMA PeerType == \A r \in Role : Peer(r) \in Role /\ Peer(r) # r
BY DEF Role, Peer

\* A message with an argument of its kind is a frame.
LEMMA MsgType ==
  ASSUME NEW t \in FrameType, NEW i \in Nat, NEW a \in ArgOf(t)
  PROVE  Msg(t, i, a) \in Frame
<1>1. a \in FrameArg
  BY DEF ArgOf, FrameArg, Status
<1>2. [type |-> t, id |-> i, arg |-> a] \in [type : FrameType, id : Nat, arg : FrameArg]
  BY <1>1
<1>3. QED BY <1>2 DEF Msg, Frame

\* A write keeps the wires well typed.
LEMMA PutType ==
  ASSUME NEW w \in [Role -> Seq(Frame)], NEW r \in Role, NEW m \in Frame
  PROVE  Put(w, r, m) \in [Role -> Seq(Frame)]
BY PeerType DEF Put

\* Taking the oldest frame yields a frame and leaves the wires typed.
LEMMA RestType ==
  ASSUME NEW w \in [Role -> Seq(Frame)], NEW r \in Role, w[r] # <<>>
  PROVE  /\ Head(w[r]) \in Frame
         /\ [w EXCEPT ![r] = Tail(@)] \in [Role -> Seq(Frame)]
OBVIOUS

\* A write succeeds or fails.
LEMMA WriteOutcomesType == \A r : WriteOutcomes(r) \subseteq BOOLEAN
BY DEF WriteOutcomes

\* Scheduling the start keeps its variables typed.
LEMMA OnBothReadyType ==
  ASSUME NEW r \in Role, NEW w \in [Role -> Seq(Frame)],
         countdown \in [Role -> BOOLEAN], OnBothReady(r, w)
  PROVE  wire' \in [Role -> Seq(Frame)] /\ countdown' \in [Role -> BOOLEAN]
<1>1. Put(w, r, Msg("start_confirmation", 0, "none")) \in [Role -> Seq(Frame)]
  BY PutType, MsgType DEF FrameType, ArgOf
<1>2. QED BY <1>1, WriteOutcomesType DEF OnBothReady

\* An invalid-state warning keeps its variables typed.
LEMMA WarnType ==
  ASSUME NEW r \in Role, NEW w \in [Role -> Seq(Frame)],
         strikes \in [Role -> Nat], fin \in [Role -> FinSpec], WarnInvalidState(r, w)
  PROVE  /\ wire' \in [Role -> Seq(Frame)]
         /\ strikes' \in [Role -> Nat]
         /\ fin' \in [Role -> FinSpec]
<1>1. Put(w, r, Msg("warning", 0, "none")) \in [Role -> Seq(Frame)]
  BY PutType, MsgType DEF FrameType, ArgOf
<1>2. wire' \in [Role -> Seq(Frame)]
  BY <1>1 DEF WarnInvalidState
<1>3. strikes' \in [Role -> Nat]
  BY DEF WarnInvalidState
<1>4. [state |-> "aborted", reason |-> "protocol_error", farewell |-> TRUE] \in FinSpec
  BY DEF FinSpec, Reason, Stop
<1>5. fin' \in [Role -> FinSpec]
  BY <1>4 DEF WarnInvalidState, Finish
<1>6. QED BY <1>2, <1>3, <1>5

\* Writing a message keeps the wires well typed.
LEMMA PutMsgType ==
  ASSUME NEW w \in [Role -> Seq(Frame)], NEW r \in Role,
         NEW t \in FrameType, NEW i \in Nat, NEW a \in ArgOf(t)
  PROVE  Put(w, r, Msg(t, i, a)) \in [Role -> Seq(Frame)]
BY PutType, MsgType

\* Announcing readiness keeps its variables typed.
LEMMA SendLocalReadyType ==
  ASSUME TypeOK, NEW r \in Role, NEW s \in PeerState, SendLocalReady(r, s)
  PROVE  /\ wire' \in [Role -> Seq(Frame)]
         /\ countdown' \in [Role -> BOOLEAN]
         /\ localReady' \in [Role -> BOOLEAN]
         /\ st' \in [Role -> PeerState]
<1> DEFINE w == Put(wire, r, Msg("ready", 0, "none"))
           next == IF peerReady[r] THEN "ready" ELSE "waiting_for_peer_start"
<1>1. w \in [Role -> Seq(Frame)]
  BY PutMsgType DEF FrameType, ArgOf, TypeOK
<1>2. PICK ok \in WriteOutcomes(r) :
        IF ~ok
        THEN /\ st' = [st EXCEPT ![r] = s]
             /\ UNCHANGED <<localReady, countdown, wire>>
        ELSE /\ localReady' = [localReady EXCEPT ![r] = TRUE]
             /\ st' = [st EXCEPT ![r] = Transition(s, next)]
             /\ IF next = "ready" THEN OnBothReady(r, w)
                ELSE wire' = w /\ UNCHANGED countdown
  BY DEF SendLocalReady
<1>3. Transition(s, next) \in PeerState
  BY TransitionType
<1>4. OnBothReady(r, w) => wire' \in [Role -> Seq(Frame)] /\ countdown' \in [Role -> BOOLEAN]
  BY <1>1, OnBothReadyType DEF TypeOK
<1> HIDE DEF w, next
<1>5. CASE ~ok
  <2>1. /\ st \in [Role -> PeerState] /\ wire \in [Role -> Seq(Frame)]
        /\ localReady \in [Role -> BOOLEAN] /\ countdown \in [Role -> BOOLEAN]
    BY DEF TypeOK
  <2>2. QED BY <1>2, <1>5, <2>1
<1>6. CASE ok
  <2>1. st' \in [Role -> PeerState] /\ localReady' \in [Role -> BOOLEAN]
    <3>1. st \in [Role -> PeerState] /\ localReady \in [Role -> BOOLEAN]
      BY DEF TypeOK
    <3>2. QED BY <1>2, <1>3, <1>6, <3>1
  <2>2. wire' \in [Role -> Seq(Frame)] /\ countdown' \in [Role -> BOOLEAN]
    BY <1>1, <1>2, <1>4, <1>6 DEF TypeOK
  <2>3. QED BY <2>1, <2>2
<1>7. QED BY <1>5, <1>6

\* The updates of the plan record stay in its type.
LEMMA PlanSetType ==
  ASSUME NEW p \in Plan, NEW c \in PlanPC, NEW e \in PlanErr
  PROVE  /\ [p EXCEPT !.pc = c] \in Plan
         /\ [p EXCEPT !.err = e] \in Plan
         /\ [p EXCEPT !.pc = c, !.err = e] \in Plan
         /\ [p EXCEPT !.pc = c, !.answered = @ + 1] \in Plan
         /\ [p EXCEPT !.pc = c, !.calls = p.calls + 1] \in Plan
         /\ [p EXCEPT !.spent = TRUE] \in Plan
<1>1. [p EXCEPT !.pc = c] \in Plan BY DEF Plan
<1>2. [p EXCEPT !.err = e] \in Plan BY DEF Plan
<1>3. [p EXCEPT !.pc = c, !.err = e] \in Plan BY DEF Plan
<1> DEFINE a == p.answered + 1
           n == p.calls + 1
<1>4. [p EXCEPT !.pc = c, !.answered = @ + 1] \in Plan
  <2>1. a \in Nat BY DEF Plan
  <2> HIDE DEF a
  <2>2. [p EXCEPT !.pc = c, !.answered = a] \in Plan BY <2>1 DEF Plan
  <2>3. QED BY <2>2 DEF a
<1>5. [p EXCEPT !.pc = c, !.calls = p.calls + 1] \in Plan
  <2>1. n \in Nat BY DEF Plan
  <2> HIDE DEF n
  <2>2. [p EXCEPT !.pc = c, !.calls = n] \in Plan BY <2>1 DEF Plan
  <2>3. QED BY <2>2 DEF n
<1>6. [p EXCEPT !.spent = TRUE] \in Plan BY DEF Plan
<1>7. QED BY <1>1, <1>2, <1>3, <1>4, <1>5, <1>6

\* Leaving the base plan yields a plan.
LEMMA AfterBaseType == ASSUME NEW p \in Plan PROVE AfterBase(p) \in Plan
BY DEF AfterBase, PlanPC, Plan

\* What the plan does with an outcome yields a plan.
LEMMA PlanType ==
  ASSUME TypeOK, NEW o \in Op,
         NEW out \in Status \cup {"cancel"}
  PROVE  PlanAfter(o, out) \in Plan
<1>1. plan \in Plan /\ plan.err \in PlanErr
  BY DEF TypeOK, Plan, PlanErr
<1>2. CASE o \in BaseOps
  <2>1. PlanAfter(o, out) = IF out \in {"ok", "unavailable"}
         THEN [plan EXCEPT !.pc = "base", !.answered = @ + 1]
         ELSE BaseEnds(IF out = "cancel" THEN BudgetErr ELSE "error")
    BY <1>2, OpsAssumption DEF PlanAfter
  <2>2. QED BY <1>1, <2>1, PlanSetType DEF BaseEnds, BudgetErr, PlanPC, PlanErr
<1>3. CASE o = "snapshot"
  <2>1. PlanAfter(o, out) = AfterBase([plan EXCEPT !.err = BoundaryErr(out)])
    BY <1>3, OpsAssumption DEF PlanAfter
  <2>2. BoundaryErr(out) \in PlanErr
    BY <1>1 DEF BoundaryErr, PlanErr
  <2>3. [plan EXCEPT !.err = BoundaryErr(out)] \in Plan
    BY <1>1, <2>2 DEF Plan
  <2>4. QED BY <2>1, <2>3, AfterBaseType
<1>4. CASE o = "window_start"
  <2>1. PlanAfter(o, out) = [plan EXCEPT !.pc = IF out = "ok" THEN "tdr" ELSE "returned"]
    BY <1>4, OpsAssumption DEF PlanAfter
  <2>2. QED BY <1>1, <2>1, PlanSetType DEF PlanPC
<1>5. CASE o = "window_end"
  <2>1. PlanAfter(o, out) = [plan EXCEPT !.pc = "returned"]
    BY <1>5, OpsAssumption DEF PlanAfter
  <2>2. QED BY <1>1, <2>1, PlanSetType DEF PlanPC
<1>6. QED BY <1>2, <1>3, <1>4, <1>5 DEF Op

\* Issuing an RPC keeps its variables typed.
LEMMA IssueCallType ==
  ASSUME TypeOK, NEW o \in Op, NEW a \in BOOLEAN, IssueCall(o, a)
  PROVE  /\ wire' \in [Role -> Seq(Frame)]
         /\ call' \in Call
         /\ plan' \in Plan
         /\ idle' \in [Role -> {"normal", "wide"}]
<1> DEFINE id == plan.calls + 1
           w == Put(wire, "PC1", Msg("test_request", id, o))
<1>0. /\ wire \in [Role -> Seq(Frame)] /\ call \in Call /\ plan \in Plan
      /\ idle \in [Role -> {"normal", "wide"}]
  BY DEF TypeOK
<1>1. id \in Nat /\ [plan EXCEPT !.pc = "call", !.calls = id] \in Plan
  <2>1. id \in Nat
    BY <1>0 DEF Plan
  <2> HIDE DEF id
  <2>2. QED BY <1>0, <2>1 DEF Plan, PlanPC
<1>2. w \in [Role -> Seq(Frame)]
  BY <1>0, <1>1, PutMsgType DEF FrameType, ArgOf, Role
<1>3. PlanAfter(o, "cancel") \in Plan /\ PlanAfter(o, "failed") \in Plan
  BY PlanType DEF Status
<1>4. [id |-> id, op |-> o, armed |-> a, reply |-> "none"] \in Call
  BY <1>1 DEF Call
<1>5. ASSUME NEW p \in Plan, PlanGoes(p)
      PROVE  plan' \in Plan /\ idle' \in [Role -> {"normal", "wide"}]
  BY <1>0, <1>5 DEF PlanGoes
<1>6. CASE PlanGoes(PlanAfter(o, "cancel")) /\ UNCHANGED <<call, wire>>
  BY <1>0, <1>3, <1>5, <1>6
<1>7. CASE PlanGoes(PlanAfter(o, "failed")) /\ UNCHANGED <<call, wire>>
  BY <1>0, <1>3, <1>5, <1>7
<1>8. CASE /\ call' = [id |-> id, op |-> o, armed |-> a, reply |-> "none"]
           /\ wire' = w
           /\ plan' = [plan EXCEPT !.pc = "call", !.calls = id]
           /\ idle' = IF o = "window_start" THEN [idle EXCEPT !["PC1"] = "wide"] ELSE idle
  <2> HIDE DEF id, w
  <2>1. QED BY <1>0, <1>1, <1>2, <1>4, <1>8
<1>9. QED BY <1>6, <1>7, <1>8 DEF IssueCall

-----------------------------------------------------------------------------
(* Type correctness                                                        *)

\* The initial state is well typed.
LEMMA TypeInit == Init => TypeOK
<1> SUFFICES ASSUME Init PROVE TypeOK
  OBVIOUS
<1>1. NoFin \in FinSpec
  BY DEF NoFin, FinSpec
<1>2. NoCall \in Call /\ NoOp \in ActiveOp
  BY OpsAssumption DEF NoCall, Call, NoOp, ActiveOp, Op, Status
<1>3. plan \in Plan
  BY DEF Init, Plan, PlanPC, PlanErr
<1>4. "handshake" \in PeerState
  BY DEF PeerState
<1>5. sender \in SenderState
  BY DEF Init, SenderState
<1>6. /\ st \in [Role -> PeerState] /\ fin \in [Role -> FinSpec]
      /\ td \in [Role -> {"open", "closed", "done"}]
      /\ call \in Call /\ op \in ActiveOp
  BY <1>1, <1>2, <1>4 DEF Init
<1>7. wire \in [Role -> Seq(Frame)] /\ xBuf \in [Role -> Seq(FrameArg)]
  BY DEF Init
<1>8. strikes \in [Role -> Nat] /\ ran \subseteq Nat
  BY DEF Init
<1>9. QED BY <1>3, <1>5, <1>6, <1>7, <1>8 DEF Init, TypeOK

\* Dispatching a frame preserves the types.
LEMMA FrameTypeStep ==
  ASSUME TypeOK, NEW r \in Role, HandleFrame(r)
  PROVE  TypeOK'
<1> DEFINE f == Head(wire[r])
           w == [wire EXCEPT ![r] = Tail(@)]
<1> USE DEF lifeVars, netVars, startVars, planVars, execVars, linkVars, xferVars
<1>st.   st \in [Role -> PeerState]          BY DEF TypeOK
<1>fin.  fin \in [Role -> FinSpec]           BY DEF TypeOK
<1>stk.  strikes \in [Role -> Nat]           BY DEF TypeOK
<1>xbuf. xBuf \in [Role -> Seq(FrameArg)]    BY DEF TypeOK
<1>idle. idle \in [Role -> {"normal", "wide"}] BY DEF TypeOK
<1>head. f \in Frame /\ w \in [Role -> Seq(Frame)]
  BY RestType DEF HandleFrame, TypeOK
<1>arg. f.id \in Nat /\ f.arg \in FrameArg /\ f.arg \in ArgOf(f.type)
  BY <1>head DEF Frame
<1>goto. ASSUME NEW s, Goto(r, s) PROVE st' \in [Role -> PeerState]
  <2>1. Transition(st[r], s) \in PeerState
    BY <1>st, TransitionType
  <2>2. QED BY <1>goto, <1>st, <2>1 DEF Goto
<1>warn. ASSUME WarnInvalidState(r, w)
         PROVE  /\ wire' \in [Role -> Seq(Frame)] /\ strikes' \in [Role -> Nat]
                /\ fin' \in [Role -> FinSpec]
  BY <1>warn, <1>head, <1>stk, <1>fin, WarnType
<1> HIDE DEF f, w
<1>1. ASSUME HandlePeerReady(r, f, w) PROVE TypeOK'
  <2>1. countdown \in [Role -> BOOLEAN] /\ peerReady \in [Role -> BOOLEAN]
    BY DEF TypeOK
  <2>2. /\ wire' \in [Role -> Seq(Frame)] /\ strikes' \in [Role -> Nat]
        /\ fin' \in [Role -> FinSpec] /\ st' \in [Role -> PeerState]
        /\ peerReady' \in [Role -> BOOLEAN] /\ countdown' \in [Role -> BOOLEAN]
    <3>1. CASE wire' = w /\ UNCHANGED <<st, fin, strikes, countdown>>
               /\ (UNCHANGED peerReady \/ peerReady' = [peerReady EXCEPT ![r] = TRUE])
      BY <3>1, <2>1, <1>head, <1>st, <1>fin, <1>stk
    <3>2. CASE /\ peerReady' = [peerReady EXCEPT ![r] = TRUE] /\ Goto(r, "ready")
               /\ OnBothReady(r, w) /\ UNCHANGED <<fin, strikes>>
      <4>1. wire' \in [Role -> Seq(Frame)] /\ countdown' \in [Role -> BOOLEAN]
        BY <3>2, <2>1, <1>head, OnBothReadyType
      <4>2. QED BY <3>2, <4>1, <2>1, <1>goto, <1>fin, <1>stk
    <3>3. CASE WarnInvalidState(r, w) /\ UNCHANGED <<st, peerReady, countdown>>
      BY <3>3, <2>1, <1>warn, <1>st
    <3>4. QED BY <1>1, <3>1, <3>2, <3>3 DEF HandlePeerReady
  <2>3. QED BY <1>1, <2>2 DEF HandlePeerReady, TypeOK
<1>2. ASSUME HandleStartConfirmation(r, f, w) PROVE TypeOK'
  <2>1. countdown \in [Role -> BOOLEAN]
    BY DEF TypeOK
  <2>2. /\ wire' \in [Role -> Seq(Frame)] /\ strikes' \in [Role -> Nat]
        /\ fin' \in [Role -> FinSpec] /\ countdown' \in [Role -> BOOLEAN]
    <3>1. CASE WarnInvalidState(r, w) /\ UNCHANGED countdown
      BY <3>1, <2>1, <1>warn
    <3>2. CASE /\ countdown' = [countdown EXCEPT ![r] = TRUE] /\ wire' = w
               /\ UNCHANGED <<fin, strikes>>
      BY <3>2, <2>1, <1>head, <1>fin, <1>stk
    <3>3. QED BY <1>2, <3>1, <3>2 DEF HandleStartConfirmation
  <2>3. QED BY <1>2, <2>2 DEF HandleStartConfirmation, TypeOK
<1>3. ASSUME HandleTestRequest(r, f, w) PROVE TypeOK'
  <2>1. \A s \in Status : Reply(w, f.id, s) \in [Role -> Seq(Frame)]
    BY <1>head, <1>arg, PutMsgType DEF Reply, FrameType, ArgOf, Role
  <2>2. f.arg \in Op
    BY <1>3, <1>arg DEF HandleTestRequest, ArgOf
  <2>3. [id |-> f.id, op |-> f.arg, phase |-> "running", status |-> "ok"] \in ActiveOp
    BY <1>arg, <2>2 DEF ActiveOp, Status
  <2>4. /\ wire' \in [Role -> Seq(Frame)] /\ strikes' \in [Role -> Nat]
        /\ fin' \in [Role -> FinSpec]
    <3>1. CASE WarnInvalidState(r, w)
      BY <3>1, <1>warn
    <3>2. CASE UNCHANGED <<fin, strikes>> /\ (wire' = w \/ \E s \in Status : wire' = Reply(w, f.id, s))
      BY <3>2, <2>1, <1>head, <1>fin, <1>stk
    <3>3. QED BY <1>3, <3>1, <3>2 DEF HandleTestRequest, Status
  <2>5. op' \in ActiveOp
    BY <1>3, <2>3 DEF HandleTestRequest, TypeOK
  <2>6. window' \in BOOLEAN /\ marked' \in BOOLEAN
    BY <1>3 DEF HandleTestRequest, TypeOK
  <2>7. idle' \in [Role -> {"normal", "wide"}]
    BY <1>3, <1>idle DEF HandleTestRequest, Widened
  <2>8. QED BY <1>3, <2>4, <2>5, <2>6, <2>7 DEF HandleTestRequest, TypeOK
<1>4. ASSUME HandleTestResult(r, f, w) PROVE TypeOK'
  <2>1. f.arg \in Status
    BY <1>4, <1>arg DEF HandleTestResult, ArgOf
  <2>2. call \in Call
    BY DEF TypeOK
  <2>3. [call EXCEPT !.reply = f.arg] \in Call
    BY <2>1, <2>2 DEF Call
  <2>4. call' \in Call
    BY <1>4, <2>2, <2>3 DEF HandleTestResult
  <2>5. QED BY <1>4, <1>head, <2>4 DEF HandleTestResult, TypeOK
<1>5. ASSUME HandleWarning(r, f, w) PROVE TypeOK'
  BY <1>5, <1>head DEF HandleWarning, TypeOK
<1>6. ASSUME HandlePeerAbort(r, f, w) PROVE TypeOK'
  <2>1. f.arg \in Reason \cup {"none"}
    BY <1>6, <1>arg DEF HandlePeerAbort, ArgOf
  <2>2. [state |-> "aborted", reason |-> f.arg, farewell |-> FALSE] \in FinSpec
    BY <2>1 DEF FinSpec, Stop
  <2>3. fin' \in [Role -> FinSpec]
    BY <1>6, <1>fin, <2>2 DEF HandlePeerAbort, Finish
  <2>4. QED BY <1>6, <1>head, <2>3 DEF HandlePeerAbort, TypeOK
<1>7. ASSUME HandleReportManifest(r, f, w) PROVE TypeOK'
  <2>1. Put(w, r, Msg("report_ack", 0, "declined")) \in [Role -> Seq(Frame)]
    BY <1>head, PutMsgType DEF FrameType, ArgOf
  <2>2. /\ wire' \in [Role -> Seq(Frame)] /\ strikes' \in [Role -> Nat]
        /\ fin' \in [Role -> FinSpec]
    <3>1. CASE WarnInvalidState(r, w)
      BY <3>1, <1>warn
    <3>2. CASE UNCHANGED <<fin, strikes>>
               /\ wire' \in {w, Put(w, r, Msg("report_ack", 0, "declined"))}
      BY <3>2, <2>1, <1>head, <1>fin, <1>stk
    <3>3. QED BY <1>7, <3>1, <3>2 DEF HandleReportManifest
  <2>3. st' \in [Role -> PeerState]
    BY <1>7, <1>st, <1>goto DEF HandleReportManifest
  <2>4. xBuf' \in [Role -> Seq(FrameArg)]
    <3>1. <<f.arg>> \in Seq(FrameArg)
      BY <1>arg
    <3>2. QED BY <1>7, <1>xbuf, <3>1 DEF HandleReportManifest
  <2>5. /\ xOn' \in [Role -> BOOLEAN] /\ xRan' \in [Role -> BOOLEAN]
        /\ receiver' \in {"off", "recv", "ok", "failed", "handled"}
    BY <1>7 DEF HandleReportManifest, RanAfterManifest, TypeOK
  <2>6. QED BY <1>7, <2>2, <2>3, <2>4, <2>5 DEF HandleReportManifest, TypeOK
<1>8. ASSUME HandleTransferFrame(r, f, w) PROVE TypeOK'
  <2>1. /\ wire' \in [Role -> Seq(Frame)] /\ strikes' \in [Role -> Nat]
        /\ fin' \in [Role -> FinSpec]
    BY <1>8, <1>warn, <1>head, <1>fin, <1>stk DEF HandleTransferFrame, RouteTransferFrame
  <2>2. xBuf' \in [Role -> Seq(FrameArg)]
    <3>1. Append(xBuf[r], f.arg) \in Seq(FrameArg)
      BY <1>xbuf, <1>arg
    <3>2. QED BY <1>8, <1>xbuf, <3>1 DEF HandleTransferFrame, RouteTransferFrame
  <2>3. QED BY <1>8, <2>1, <2>2 DEF HandleTransferFrame, TypeOK
<1>9. ASSUME HandleComplete(r, f, w) PROVE TypeOK'
  <2>1. Put(w, r, Msg("complete", 0, "none")) \in [Role -> Seq(Frame)]
    BY <1>head, PutMsgType DEF FrameType, ArgOf
  <2>2. [state |-> "completed", reason |-> "none", farewell |-> FALSE] \in FinSpec
    BY DEF FinSpec
  <2>3. /\ wire' \in [Role -> Seq(Frame)] /\ strikes' \in [Role -> Nat]
        /\ fin' \in [Role -> FinSpec]
    <3>1. CASE WarnInvalidState(r, w)
      BY <3>1, <1>warn
    <3>2. CASE /\ UNCHANGED strikes /\ Finish(r, "completed", "none", FALSE)
               /\ wire' \in {w, Put(w, r, Msg("complete", 0, "none"))}
      BY <3>2, <2>1, <2>2, <1>head, <1>fin, <1>stk DEF Finish
    <3>3. QED BY <1>9, <3>1, <3>2 DEF HandleComplete
  <2>4. st' \in [Role -> PeerState]
    BY <1>9, <1>st, <1>goto DEF HandleComplete
  <2>5. QED BY <1>9, <2>3, <2>4 DEF HandleComplete, TypeOK
<1>10. QED BY <1>1, <1>2, <1>3, <1>4, <1>5, <1>6, <1>7, <1>8, <1>9 DEF HandleFrame, f, w

\* Every step preserves the types.
LEMMA TypeStep == TypeOK /\ [Next]_vars => TypeOK'
<1> SUFFICES ASSUME TypeOK, [Next]_vars PROVE TypeOK'
  OBVIOUS
<1> USE DEF lifeVars, netVars, startVars, planVars, execVars, linkVars, xferVars
<1>st.     st \in [Role -> PeerState]            BY DEF TypeOK
<1>fin.    fin \in [Role -> FinSpec]             BY DEF TypeOK
<1>wire.   wire \in [Role -> Seq(Frame)]         BY DEF TypeOK
<1>plan.   plan \in Plan /\ call \in Call        BY DEF TypeOK
<1>exp.    expired \in BOOLEAN                   BY DEF TypeOK
<1>op.     op \in ActiveOp                       BY DEF TypeOK
<1>idle.   idle \in [Role -> {"normal", "wide"}] BY DEF TypeOK
<1>xbuf.   xBuf \in [Role -> Seq(FrameArg)]      BY DEF TypeOK
<1>roles.  "PC1" \in Role /\ "PC2" \in Role      BY DEF Role
<1>goes. ASSUME NEW p \in Plan, PlanGoes(p)
         PROVE  plan' \in Plan /\ idle' \in [Role -> {"normal", "wide"}]
  BY <1>goes, <1>idle DEF PlanGoes
<1>goto. ASSUME NEW r \in Role, NEW s, Goto(r, s) PROVE st' \in [Role -> PeerState]
  <2>1. Transition(st[r], s) \in PeerState
    BY <1>st, TransitionType
  <2>2. QED BY <1>goto, <1>st, <2>1 DEF Goto
<1>1. ASSUME NEW r \in Role, Launch(r) PROVE TypeOK'
  <2>1. Transition(st[r], "waiting_for_local_start") \in PeerState
    BY <1>st, TransitionType
  <2>2. /\ wire' \in [Role -> Seq(Frame)] /\ countdown' \in [Role -> BOOLEAN]
        /\ localReady' \in [Role -> BOOLEAN] /\ st' \in [Role -> PeerState]
    <3>1. CASE SendLocalReady(r, Transition(st[r], "waiting_for_local_start"))
      BY <2>1, <3>1, SendLocalReadyType
    <3>2. CASE /\ st' = [st EXCEPT ![r] = Transition(st[r], "waiting_for_local_start")]
               /\ UNCHANGED <<localReady, countdown, wire>>
      BY <2>1, <3>2 DEF TypeOK
    <3>3. QED BY <1>1, <3>1, <3>2 DEF Launch
  <2>3. QED BY <1>1, <2>2 DEF Launch, TypeOK
<1>2. ASSUME NEW r \in Role, StartCommand(r) PROVE TypeOK'
  BY <1>2, SendLocalReadyType DEF StartCommand, TypeOK
<1>3. ASSUME NEW r \in Role, QuitCommand(r) PROVE TypeOK'
  BY <1>3 DEF QuitCommand, Finish, FinSpec, Reason, Stop, TypeOK
<1>4. ASSUME NEW r \in Role, CtrlC(r) PROVE TypeOK'
  BY <1>4 DEF CtrlC, TypeOK
<1>5. ASSUME NEW r \in Role, OnCountdownGo(r) PROVE TypeOK'
  <2>1. st' \in [Role -> PeerState]
    BY <1>5, <1>goto DEF OnCountdownGo
  <2>2. plan' \in Plan
    <3>1. [plan EXCEPT !.pc = "base"] \in Plan
      BY <1>plan DEF Plan, PlanPC
    <3>2. QED BY <1>5, <1>plan, <3>1 DEF OnCountdownGo
  <2>3. QED BY <1>5, <2>1, <2>2 DEF OnCountdownGo, TypeOK
<1>6. ASSUME NEW r \in Role, HandleConnErr(r) PROVE TypeOK'
  BY <1>6 DEF HandleConnErr, Finish, FinSpec, Reason, Stop, TypeOK
<1>7. ASSUME NEW r \in Role, HandleInterrupt(r) PROVE TypeOK'
  BY <1>7 DEF HandleInterrupt, Finish, FinSpec, Reason, Stop, TypeOK
<1>complete. ASSUME NEW r \in Role, NEW w \in [Role -> Seq(Frame)], SendComplete(r, w)
             PROVE  wire' \in [Role -> Seq(Frame)] /\ sentComplete' \in BOOLEAN
  BY <1>complete, PutMsgType DEF SendComplete, FrameType, ArgOf
<1>8. ASSUME NEW r \in Role, HandleTransferDone(r) PROVE TypeOK'
  <2>1. PICK e \in {"ok", "failed"} :
          LET w == IF e = "failed" THEN Put(wire, r, Msg("warning", 0, "none")) ELSE wire
          IN IF ConcludesAfterTransfer(r) THEN SendComplete(r, w)
             ELSE wire' = w /\ UNCHANGED sentComplete
    BY <1>8 DEF HandleTransferDone
  <2> DEFINE w == IF e = "failed" THEN Put(wire, r, Msg("warning", 0, "none")) ELSE wire
  <2>2. w \in [Role -> Seq(Frame)]
    BY <1>wire, PutMsgType DEF FrameType, ArgOf
  <2>3. wire' \in [Role -> Seq(Frame)] /\ sentComplete' \in BOOLEAN
    <3>1. CASE SendComplete(r, w)
      BY <2>2, <3>1, <1>complete
    <3>2. CASE wire' = w /\ UNCHANGED sentComplete
      BY <2>2, <3>2 DEF TypeOK
    <3>3. QED BY <2>1, <3>1, <3>2
  <2>4. /\ sender' \in SenderState
        /\ receiver' \in {"off", "recv", "ok", "failed", "handled"}
    BY <1>8 DEF HandleTransferDone, SenderState, TypeOK
  <2>5. xOn' \in [Role -> BOOLEAN]
    BY <1>8 DEF HandleTransferDone, TypeOK
  <2>6. QED BY <1>8, <2>3, <2>4, <2>5 DEF HandleTransferDone, TypeOK
<1>9. ASSUME HandleCallExpired PROVE TypeOK'
  BY <1>9 DEF HandleCallExpired, Finish, FinSpec, Reason, Stop, Role, TypeOK
<1>10. ASSUME HandlePlanDone PROVE TypeOK'
  <2>1. [plan EXCEPT !.pc = "handled"] \in Plan
    BY <1>plan DEF Plan, PlanPC
  <2>2. /\ st' \in [Role -> PeerState] /\ fin' \in [Role -> FinSpec]
    <3>1. CASE Goto("PC1", "generating_report") /\ UNCHANGED fin
      BY <3>1, <1>goto, <1>fin, <1>roles
    <3>2. CASE UNCHANGED <<st, fin>>
      BY <3>2, <1>st, <1>fin
    <3>3. CASE Finish("PC1", "failed", "internal_error", TRUE) /\ UNCHANGED st
      BY <3>3, <1>st, <1>fin DEF Finish, FinSpec, Reason, Stop
    <3>4. QED BY <1>10, <3>1, <3>2, <3>3 DEF HandlePlanDone
  <2>3. wire' \in [Role -> Seq(Frame)] /\ sentComplete' \in BOOLEAN
    <3>1. CASE SendComplete("PC1", wire)
      BY <3>1, <1>complete, <1>wire, <1>roles
    <3>2. CASE UNCHANGED <<wire, sentComplete>>
      BY <3>2 DEF TypeOK
    <3>3. QED BY <1>10, <3>1, <3>2 DEF HandlePlanDone
  <2>4. sender' \in SenderState
    BY <1>10 DEF HandlePlanDone, SenderState, TypeOK
  <2>5. xOn' \in [Role -> BOOLEAN] /\ xRan' \in [Role -> BOOLEAN]
    BY <1>10 DEF HandlePlanDone, TypeOK
  <2>6. QED BY <1>10, <2>1, <2>2, <2>3, <2>4, <2>5 DEF HandlePlanDone, TypeOK
<1>11. ASSUME HandleOpDone PROVE TypeOK'
  <2>1. op.id \in Nat /\ op.status \in Status /\ NoOp \in ActiveOp
    BY <1>op, OpsAssumption DEF ActiveOp, NoOp, Op, Status
  <2>2. Reply(wire, op.id, op.status) \in [Role -> Seq(Frame)]
    BY <2>1, <1>wire, <1>roles, PutMsgType DEF Reply, FrameType, ArgOf
  <2>3. QED BY <1>11, <2>1, <2>2 DEF HandleOpDone, TypeOK
<1>12. ASSUME NEW r \in Role, Teardown(r) PROVE TypeOK'
  <2>1. fin[r].reason \in Reason \cup {"none"}
    BY <1>fin DEF FinSpec
  <2>2. Put(wire, r, FarewellFrame(r)) \in [Role -> Seq(Frame)]
    BY <2>1, <1>wire, PutMsgType DEF FarewellFrame, FrameType, ArgOf
  <2>3. wire' \in [Role -> Seq(Frame)]
    BY <1>12, <1>wire, <2>2 DEF Teardown
  <2>4. window' \in BOOLEAN /\ marked' \in BOOLEAN
    BY <1>12 DEF Teardown, ReleaseWindow, TypeOK
  <2>5. QED BY <1>12, <2>3, <2>4 DEF Teardown, TypeOK
<1>13. ASSUME NEW r \in Role, Exit(r) PROVE TypeOK'
  BY <1>13, <1>goto DEF Exit, TypeOK
<1>14. ASSUME HandshakeReject PROVE TypeOK'
  <2>1. st' \in [Role -> PeerState]
    BY <1>14, <1>goto, <1>roles DEF HandshakeReject
  <2>2. fin' \in [Role -> FinSpec]
    BY <1>14, <1>fin, <1>roles DEF HandshakeReject, Finish, FinSpec, Reason, Stop
  <2>3. Put(wire, "PC2", Msg("abort", 0, "handshake")) \in [Role -> Seq(Frame)]
    BY <1>wire, <1>roles, PutMsgType DEF FrameType, ArgOf, Reason
  <2>4. wire' \in [Role -> Seq(Frame)]
    <3>1. PICK w \in {wire, Put(wire, "PC2", Msg("abort", 0, "handshake"))} :
            wire' = [w EXCEPT !["PC2"] = <<>>]
      BY <1>14 DEF HandshakeReject
    <3>2. w \in [Role -> Seq(Frame)]
      BY <1>wire, <2>3
    <3>3. <<>> \in Seq(Frame)
      OBVIOUS
    <3>4. QED BY <3>1, <3>2, <3>3
  <2>5. QED BY <1>14, <2>1, <2>2, <2>4 DEF HandshakeReject, TypeOK
<1>issue. ASSUME NEW o \in Op, NEW a \in BOOLEAN, IssueCall(o, a),
                 UNCHANGED <<expired, carrier>>, PlanFrame
          PROVE TypeOK'
  <2>1. /\ wire' \in [Role -> Seq(Frame)] /\ call' \in Call /\ plan' \in Plan
        /\ idle' \in [Role -> {"normal", "wide"}]
    BY <1>issue, IssueCallType
  <2>2. QED BY <2>1, <1>issue DEF PlanFrame, TypeOK
<1>moves. ASSUME plan' \in Plan, idle' \in [Role -> {"normal", "wide"}],
                 call' \in Call, expired' \in BOOLEAN,
                 UNCHANGED <<wire, carrier>>, PlanFrame
          PROVE TypeOK'
  BY <1>moves DEF PlanFrame, TypeOK
<1>15. ASSUME PlanCall PROVE TypeOK'
  BY <1>15, <1>issue DEF PlanCall, Op
<1>16. ASSUME PlanBaseEnds PROVE TypeOK'
  <2>1. \A e \in PlanErr : BaseEnds(e) \in Plan
    BY <1>plan DEF BaseEnds, Plan, PlanPC
  <2>2. plan' \in Plan /\ idle' \in [Role -> {"normal", "wide"}]
    BY <1>16, <1>goes, <2>1 DEF PlanBaseEnds
  <2>3. QED BY <1>16, <1>moves, <1>plan, <1>exp, <2>2 DEF PlanBaseEnds
<1>17. ASSUME PlanBoundary PROVE TypeOK'
  <2>1. PlanAfter("snapshot", "failed") \in Plan /\ AfterBase(plan) \in Plan
    BY <1>plan, PlanType, AfterBaseType DEF Op, Status
  <2>2. CASE IssueCall("snapshot", FALSE)
    BY <1>17, <2>2, <1>issue DEF PlanBoundary, Op
  <2>3. CASE PlanGoes(PlanAfter("snapshot", "failed")) /\ UNCHANGED <<call, wire>>
    BY <1>17, <1>goes, <1>moves, <1>plan, <1>exp, <2>1, <2>3 DEF PlanBoundary
  <2>4. CASE PlanGoes(AfterBase(plan)) /\ UNCHANGED <<call, wire>>
    BY <1>17, <1>goes, <1>moves, <1>plan, <1>exp, <2>1, <2>4 DEF PlanBoundary
  <2>5. QED BY <1>17, <2>2, <2>3, <2>4 DEF PlanBoundary
<1>18. ASSUME CallReturns PROVE TypeOK'
  <2>1. /\ call.op \in Op /\ call.armed \in BOOLEAN
        /\ call.reply # "none" => call.reply \in Status
        /\ NoCall \in Call
    BY <1>plan, OpsAssumption DEF Call, NoCall, Op
  <2>2. /\ PlanAfter(call.op, "cancel") \in Plan
        /\ PlanAfter(call.op, "failed") \in Plan
        /\ call.reply # "none" => PlanAfter(call.op, call.reply) \in Plan
    BY <2>1, PlanType DEF Status
  <2>3. plan' \in Plan /\ idle' \in [Role -> {"normal", "wide"}]
    BY <1>18, <1>goes, <2>2 DEF CallReturns
  <2>4. expired' \in BOOLEAN
    BY <1>18, <1>exp, <2>1 DEF CallReturns
  <2>5. QED BY <1>18, <1>moves, <2>1, <2>3, <2>4 DEF CallReturns
<1>19. ASSUME CableWindowStart PROVE TypeOK'
  BY <1>19, <1>issue DEF CableWindowStart, Op
<1>20. ASSUME CableTestReturns PROVE TypeOK'
  <2>1. /\ [plan EXCEPT !.pc = "end"] \in Plan
        /\ \A e \in PlanErr : [plan EXCEPT !.pc = "returned", !.err = e] \in Plan
    BY <1>plan DEF Plan, PlanPC
  <2>2. plan' \in Plan /\ idle' \in [Role -> {"normal", "wide"}]
    BY <1>20, <1>goes, <2>1 DEF CableTestReturns, PlanErr
  <2>3. QED BY <1>20, <1>moves, <1>plan, <1>exp, <2>2 DEF CableTestReturns
<1>21. ASSUME CableWindowEnd PROVE TypeOK'
  BY <1>21, <1>issue DEF CableWindowEnd, Op
<1>22. ASSUME BudgetExpires PROVE TypeOK'
  <2>1. [plan EXCEPT !.spent = TRUE] \in Plan
    BY <1>plan DEF Plan
  <2>2. QED BY <1>22, <1>moves, <1>plan, <1>exp, <1>idle, <2>1 DEF BudgetExpires
<1>23. ASSUME CarrierDrops \/ CarrierReturns PROVE TypeOK'
  BY <1>23 DEF CarrierDrops, CarrierReturns, PlanFrame, TypeOK
<1>24. ASSUME OpFinishes PROVE TypeOK'
  <2>1. op.id \in Nat
    BY <1>op DEF ActiveOp
  <2>2. op' \in ActiveOp
    BY <1>24, <1>op DEF OpFinishes, ActiveOp, Status
  <2>3. ran' \subseteq Nat
    BY <1>24, <2>1 DEF OpFinishes, TypeOK
  <2>4. QED BY <1>24, <2>2, <2>3 DEF OpFinishes, TypeOK
<1>25. ASSUME SenderWrites PROVE TypeOK'
  <2>1. /\ Put(wire, "PC1", Msg("report", 0, "none")) \in [Role -> Seq(Frame)]
        /\ Put(wire, "PC1", Msg("report_chunk", 0, "last")) \in [Role -> Seq(Frame)]
        /\ Put(wire, "PC1", Msg("report_chunk", 0, "more")) \in [Role -> Seq(Frame)]
    BY <1>wire, <1>roles, PutMsgType DEF FrameType, ArgOf
  <2>2. wire' \in [Role -> Seq(Frame)]
    BY <1>25, <1>wire, <2>1 DEF SenderWrites
  <2>3. sender.sent \in Nat
    BY DEF TypeOK, SenderState
  <2>4. sender' \in SenderState
    BY <1>25, <2>3 DEF SenderWrites, SenderState
  <2>5. QED BY <1>25, <2>2, <2>4 DEF SenderWrites, XferFrame, TypeOK
<1>26. ASSUME SenderEnds PROVE TypeOK'
  <2>1. sender' \in SenderState
    BY <1>26 DEF SenderEnds, SenderState, TypeOK
  <2>2. xBuf' \in [Role -> Seq(FrameArg)]
    <3>1. xBuf["PC1"] # <<>> => Tail(xBuf["PC1"]) \in Seq(FrameArg)
      BY <1>xbuf, <1>roles
    <3>2. QED BY <1>26, <1>xbuf, <3>1 DEF SenderEnds
  <2>3. QED BY <1>26, <2>1, <2>2 DEF SenderEnds, XferFrame, TypeOK
<1>27. ASSUME ReceiverTakes PROVE TypeOK'
  <2>1. /\ Put(wire, "PC2", Msg("report_ack", 0, "ok")) \in [Role -> Seq(Frame)]
        /\ Put(wire, "PC2", Msg("report_ack", 0, "declined")) \in [Role -> Seq(Frame)]
    BY <1>wire, <1>roles, PutMsgType DEF FrameType, ArgOf, Status
  <2>2. wire' \in [Role -> Seq(Frame)]
    BY <1>27, <1>wire, <2>1 DEF ReceiverTakes
  <2>3. xBuf' \in [Role -> Seq(FrameArg)]
    BY <1>27, <1>xbuf, <1>roles DEF ReceiverTakes
  <2>4. QED BY <1>27, <2>2, <2>3 DEF ReceiverTakes, XferFrame, TypeOK
<1>28. ASSUME ReceiverStops PROVE TypeOK'
  BY <1>28 DEF ReceiverStops, XferFrame, TypeOK
<1>29. ASSUME LinkCut PROVE TypeOK'
  <2>1. wire' \in [Role -> Seq(Frame)]
    <3>1. PICK n1 \in 0..Len(wire["PC1"]), n2 \in 0..Len(wire["PC2"]) :
            wire' = [r \in Role |-> SubSeq(wire[r], 1, IF r = "PC1" THEN n1 ELSE n2)]
      BY <1>29 DEF LinkCut
    <3>2. \A r \in Role : SubSeq(wire[r], 1, IF r = "PC1" THEN n1 ELSE n2) \in Seq(Frame)
      BY <1>wire DEF Role
    <3>3. QED BY <3>1, <3>2
  <2>2. QED BY <1>29, <2>1 DEF LinkCut, TypeOK
<1>30. ASSUME UNCHANGED vars PROVE TypeOK'
  BY <1>30 DEF vars, TypeOK
<1>31. ASSUME NEW r \in Role, HandleFrame(r) PROVE TypeOK'
  BY <1>31, FrameTypeStep
<1>32. QED
  BY <1>1, <1>2, <1>3, <1>4, <1>5, <1>6, <1>7, <1>8, <1>9, <1>10, <1>11, <1>12,
     <1>13, <1>14, <1>15, <1>16, <1>17, <1>18, <1>19, <1>20, <1>21, <1>22,
     <1>23, <1>24, <1>25, <1>26, <1>27, <1>28, <1>29, <1>30, <1>31
     DEF Next, Loop, PlanStep, SenderStep, ReceiverStep, Finished
\* Every reachable state is well typed, for every number of calls and chunks:
\* in particular a frame carries an argument of its own kind, so an abort
\* always names a reason and a result always a status.
THEOREM TypeCorrect == Spec => []TypeOK
BY TypeInit, TypeStep, PTL DEF Spec

-----------------------------------------------------------------------------
(* What a step writes                                                      *)

\* The frames waiting for q on the wires w.
In(w, q) == {w[q][i] : i \in 1..Len(w[q])}

\* The step puts only frames of the types T on the wires.
Writes(T) == \A q \in Role : \A m \in In(wire', q) : m \in In(wire, q) \/ m.type \in T

\* The frames that carry neither a verdict nor a farewell.
Ordinary == FrameType \ {"complete", "abort"}

\* A write adds at most its frame, and only to the peer.
LEMMA PutIn ==
  ASSUME NEW w \in [Role -> Seq(Frame)], NEW r \in Role, NEW m \in Frame, NEW q \in Role
  PROVE  In(Put(w, r, m), q) \subseteq In(w, q) \cup (IF q = Peer(r) THEN {m} ELSE {})
<1>1. CASE Put(w, r, m) = w
  BY <1>1
<1>2. CASE Put(w, r, m) = [w EXCEPT ![Peer(r)] = Append(@, m)]
  <2>1. CASE q # Peer(r)
    BY <1>2, <2>1, PeerType DEF In
  <2>2. CASE q = Peer(r)
    <3>1. Put(w, r, m)[q] = Append(w[q], m)
      BY <1>2, <2>2, PeerType
    <3>2. w[q] \in Seq(Frame)
      OBVIOUS
    <3>3. \A i \in 1..Len(Append(w[q], m)) :
            Append(w[q], m)[i] = m \/ (i \in 1..Len(w[q]) /\ Append(w[q], m)[i] = w[q][i])
      BY <3>2
    <3>4. QED BY <2>2, <3>1, <3>3 DEF In
  <2>3. QED BY <2>1, <2>2
<1>3. QED BY <1>1, <1>2 DEF Put

\* Taking the oldest frame adds nothing.
LEMMA TailIn ==
  ASSUME NEW w \in [Role -> Seq(Frame)], NEW r \in Role, w[r] # <<>>, NEW q \in Role
  PROVE  /\ In([w EXCEPT ![r] = Tail(@)], q) \subseteq In(w, q)
         /\ Head(w[r]) \in In(w, r)
<1>1. w[r] \in Seq(Frame) /\ Len(w[r]) > 0
  OBVIOUS
<1>2. /\ Len(Tail(w[r])) = Len(w[r]) - 1
      /\ \A i \in 1..Len(Tail(w[r])) : i + 1 \in 1..Len(w[r]) /\ Tail(w[r])[i] = w[r][i + 1]
  BY <1>1
<1>3. Head(w[r]) \in In(w, r)
  BY <1>1 DEF In
<1>4. CASE q = r
  <2>1. [w EXCEPT ![r] = Tail(@)][q] = Tail(w[r])
    BY <1>4
  <2>2. QED BY <1>2, <1>3, <1>4, <2>1 DEF In
<1>5. CASE q # r
  BY <1>3, <1>5 DEF In
<1>6. QED BY <1>4, <1>5

\* Discarding what a closed side would read adds nothing.
LEMMA DropIn ==
  ASSUME NEW w \in [Role -> Seq(Frame)], NEW r \in Role, NEW q \in Role
  PROVE  In([w EXCEPT ![r] = <<>>], q) \subseteq In(w, q)
<1>1. CASE q = r
  <2>1. [w EXCEPT ![r] = <<>>][q] = <<>>
    BY <1>1
  <2>2. QED BY <2>1 DEF In
<1>2. CASE q # r
  BY <1>2 DEF In
<1>3. QED BY <1>1, <1>2

\* A single write adds at most its own frame.
LEMMA PutWrites ==
  ASSUME TypeOK, NEW w \in [Role -> Seq(Frame)], \A q \in Role : In(w, q) \subseteq In(wire, q),
         NEW r \in Role, NEW t \in FrameType, NEW i \in Nat, NEW a \in ArgOf(t),
         wire' = Put(w, r, Msg(t, i, a))
  PROVE  Writes({t})
<1>1. Msg(t, i, a) \in Frame /\ Msg(t, i, a).type = t
  BY MsgType DEF Msg
<1>2. \A q \in Role : In(wire', q) \subseteq In(w, q) \cup {Msg(t, i, a)}
  BY <1>1, PutIn
<1>3. QED BY <1>1, <1>2 DEF Writes

\* A bound on what is written may be weakened.
LEMMA WritesMore == ASSUME NEW S, NEW T, S \subseteq T, Writes(S) PROVE Writes(T)
BY DEF Writes

\* A strike writes an ordinary frame.
LEMMA WarnWrites ==
  ASSUME TypeOK, NEW w \in [Role -> Seq(Frame)], \A q \in Role : In(w, q) \subseteq In(wire, q),
         NEW r \in Role, WarnInvalidState(r, w)
  PROVE  Writes(Ordinary)
<1>1. Writes({"warning"})
  <2>1. wire' = Put(w, r, Msg("warning", 0, "none"))
    BY DEF WarnInvalidState
  <2>2. QED BY <2>1, PutWrites DEF FrameType, ArgOf
<1>2. QED BY <1>1, WritesMore DEF Ordinary, FrameType

\* Scheduling the start writes at most the start_confirmation.
LEMMA OnBothReadyWrites ==
  ASSUME TypeOK, NEW w \in [Role -> Seq(Frame)], NEW r \in Role, OnBothReady(r, w)
  PROVE  \A q \in Role : \A m \in In(wire', q) : m \in In(w, q) \/ m.type = "start_confirmation"
<1> DEFINE c == Msg("start_confirmation", 0, "none")
<1>1. c \in Frame /\ c.type = "start_confirmation"
  BY MsgType DEF FrameType, ArgOf, Msg
<1>2. wire' = w \/ wire' = Put(w, r, c)
  BY DEF OnBothReady
<1>3. \A q \in Role : In(Put(w, r, c), q) \subseteq In(w, q) \cup {c}
  BY <1>1, PutIn
<1> HIDE DEF c
<1>4. QED BY <1>1, <1>2, <1>3

\* Announcing readiness writes ordinary frames.
LEMMA SendLocalReadyWrites ==
  ASSUME TypeOK, NEW r \in Role, NEW s, SendLocalReady(r, s)
  PROVE  Writes(Ordinary)
<1> DEFINE m == Msg("ready", 0, "none")
           w == Put(wire, r, m)
<1>1. wire \in [Role -> Seq(Frame)] /\ m \in Frame /\ m.type = "ready"
  BY MsgType DEF FrameType, ArgOf, Msg, TypeOK
<1>2. w \in [Role -> Seq(Frame)] /\ \A q \in Role : In(w, q) \subseteq In(wire, q) \cup {m}
  BY <1>1, PutType, PutIn
<1>3. wire' = wire \/ wire' = w \/ OnBothReady(r, w)
  BY DEF SendLocalReady
<1> HIDE DEF m, w
<1>4. \A q \in Role : \A f \in In(wire', q) : f \in In(wire, q) \/ f.type \in {"ready", "start_confirmation"}
  <2>1. CASE wire' = wire
    BY <2>1
  <2>2. CASE wire' = w
    BY <1>1, <1>2, <2>2
  <2>3. CASE OnBothReady(r, w)
    BY <1>1, <1>2, <2>3, OnBothReadyWrites
  <2>4. QED BY <1>3, <2>1, <2>2, <2>3
<1>5. QED BY <1>4 DEF Writes, Ordinary, FrameType

\* Issuing an RPC writes an ordinary frame.
LEMMA IssueCallWrites ==
  ASSUME TypeOK, NEW o \in Op, NEW a \in BOOLEAN, IssueCall(o, a)
  PROVE  Writes(Ordinary)
<1>1. CASE UNCHANGED wire
  BY <1>1 DEF Writes
<1>2. CASE wire' = Put(wire, "PC1", Msg("test_request", plan.calls + 1, o))
  <2>1. plan.calls + 1 \in Nat /\ wire \in [Role -> Seq(Frame)]
    BY DEF TypeOK, Plan
  <2>2. o \in ArgOf("test_request") /\ "test_request" \in FrameType /\ "PC1" \in Role
    BY DEF ArgOf, FrameType, Role
  <2>3. Writes({"test_request"})
    BY <1>2, <2>1, <2>2, PutWrites
  <2>4. QED BY <2>3, WritesMore DEF Ordinary, FrameType
<1>3. QED BY <1>1, <1>2 DEF IssueCall

\* HandleComplete as the dispatch calls it.
TakesComplete(r) ==
  /\ Running(r) /\ wire[r] # <<>>
  /\ HandleComplete(r, Head(wire[r]), [wire EXCEPT ![r] = Tail(@)])

\* Dispatching a frame writes ordinary frames, unless it takes a complete.
LEMMA HandleFrameWrites ==
  ASSUME TypeOK, NEW r \in Role, HandleFrame(r)
  PROVE  Writes(Ordinary) \/ TakesComplete(r)
<1> DEFINE f == Head(wire[r])
           w == [wire EXCEPT ![r] = Tail(@)]
<1>1. /\ f \in Frame /\ w \in [Role -> Seq(Frame)]
      /\ \A q \in Role : In(w, q) \subseteq In(wire, q)
  BY RestType, TailIn DEF HandleFrame, TypeOK
<1>2. f.id \in Nat
  BY <1>1 DEF Frame
<1>same. ASSUME wire' = w PROVE Writes(Ordinary)
  BY <1>same, <1>1 DEF Writes
<1>warn. ASSUME WarnInvalidState(r, w) PROVE Writes(Ordinary)
  BY <1>warn, <1>1, WarnWrites
<1>put. ASSUME NEW t \in Ordinary, NEW i \in Nat, NEW a \in ArgOf(t), NEW p \in Role,
               wire' = Put(w, p, Msg(t, i, a))
        PROVE  Writes(Ordinary)
  <2>1. t \in FrameType
    BY DEF Ordinary
  <2>2. Writes({t})
    BY <1>put, <1>1, <2>1, PutWrites
  <2>3. QED BY <2>2, WritesMore
<1> HIDE DEF f, w
<1>3. CASE HandlePeerReady(r, f, w)
  <2>1. CASE OnBothReady(r, w)
    <3>1. \A q \in Role : \A m \in In(wire', q) : m \in In(w, q) \/ m.type = "start_confirmation"
      BY <1>1, <2>1, OnBothReadyWrites
    <3>2. QED BY <1>1, <3>1 DEF Writes, Ordinary, FrameType
  <2>2. QED BY <1>3, <1>same, <1>warn, <2>1 DEF HandlePeerReady
<1>4. CASE HandleStartConfirmation(r, f, w)
  BY <1>4, <1>same, <1>warn DEF HandleStartConfirmation
<1>5. CASE HandleTestRequest(r, f, w)
  <2>1. ASSUME NEW s \in Status, wire' = Reply(w, f.id, s) PROVE Writes(Ordinary)
    BY <1>put, <1>2, <2>1 DEF Reply, Ordinary, FrameType, ArgOf, Role
  <2>2. QED BY <1>5, <1>same, <1>warn, <2>1 DEF HandleTestRequest, Status
<1>6. CASE HandleTestResult(r, f, w) \/ HandleWarning(r, f, w) \/ HandlePeerAbort(r, f, w)
  BY <1>6, <1>same DEF HandleTestResult, HandleWarning, HandlePeerAbort
<1>7. CASE HandleReportManifest(r, f, w)
  <2>1. ASSUME wire' = Put(w, r, Msg("report_ack", 0, "declined")) PROVE Writes(Ordinary)
    BY <1>put, <2>1 DEF Ordinary, FrameType, ArgOf
  <2>2. QED BY <1>7, <1>same, <1>warn, <2>1 DEF HandleReportManifest
<1>8. CASE HandleTransferFrame(r, f, w)
  BY <1>8, <1>same, <1>warn DEF HandleTransferFrame, RouteTransferFrame
<1>9. CASE HandleComplete(r, f, w)
  BY <1>9 DEF TakesComplete, HandleFrame, f, w
<1>10. QED BY <1>3, <1>4, <1>5, <1>6, <1>7, <1>8, <1>9 DEF HandleFrame, f, w

\* Only the complete exchange and the two farewells write anything else.
LEMMA WritesStep ==
  ASSUME TypeOK, [Next]_vars
  PROVE  \/ Writes(Ordinary)
         \/ HandlePlanDone \/ HandshakeReject
         \/ \E r \in Role : TakesComplete(r) \/ HandleTransferDone(r) \/ Teardown(r)
<1> USE DEF netVars
<1>wire. wire \in [Role -> Seq(Frame)] BY DEF TypeOK
<1>same. ASSUME UNCHANGED wire PROVE Writes(Ordinary)
  BY <1>same DEF Writes
<1>put. ASSUME NEW t \in Ordinary, NEW i \in Nat, NEW a \in ArgOf(t), NEW p \in Role,
               wire' = Put(wire, p, Msg(t, i, a))
        PROVE  Writes(Ordinary)
  <2>1. t \in FrameType
    BY DEF Ordinary
  <2>2. Writes({t})
    BY <1>put, <1>wire, <2>1, PutWrites
  <2>3. QED BY <2>2, WritesMore
<1>1. ASSUME NEW r \in Role, Launch(r) \/ StartCommand(r) PROVE Writes(Ordinary)
  BY <1>1, <1>same, SendLocalReadyWrites DEF Launch, StartCommand
<1>2. ASSUME NEW r \in Role,
             \/ QuitCommand(r) \/ CtrlC(r) \/ OnCountdownGo(r) \/ HandleConnErr(r)
             \/ HandleInterrupt(r) \/ Exit(r)
      PROVE  Writes(Ordinary)
  BY <1>2, <1>same
     DEF QuitCommand, CtrlC, OnCountdownGo, HandleConnErr, HandleInterrupt, Exit
<1>3. ASSUME NEW r \in Role, HandleFrame(r) PROVE Writes(Ordinary) \/ TakesComplete(r)
  BY <1>3, HandleFrameWrites
<1>4. ASSUME HandleCallExpired \/ OpFinishes \/ ReceiverStops \/ SenderEnds PROVE Writes(Ordinary)
  BY <1>4, <1>same DEF HandleCallExpired, OpFinishes, ReceiverStops, SenderEnds
<1>5. ASSUME HandleOpDone PROVE Writes(Ordinary)
  <2>1. op.id \in Nat /\ op.status \in Status
    BY DEF TypeOK, ActiveOp
  <2>2. wire' = Put(wire, "PC2", Msg("test_result", op.id, op.status))
    BY <1>5 DEF HandleOpDone, Reply
  <2>3. QED BY <1>put, <2>1, <2>2 DEF Ordinary, FrameType, ArgOf, Role
<1>6. ASSUME PlanCall \/ PlanBoundary \/ CableWindowStart \/ CableWindowEnd PROVE Writes(Ordinary)
  <2>1. ASSUME NEW o \in Op, NEW a \in BOOLEAN, IssueCall(o, a) PROVE Writes(Ordinary)
    BY <2>1, IssueCallWrites
  <2>2. QED BY <1>6, <1>same, <2>1 DEF PlanCall, PlanBoundary, CableWindowStart, CableWindowEnd, Op
<1>7. ASSUME PlanBaseEnds \/ CallReturns \/ CableTestReturns \/ BudgetExpires
             \/ CarrierDrops \/ CarrierReturns
      PROVE  Writes(Ordinary)
  BY <1>7, <1>same
     DEF PlanBaseEnds, CallReturns, CableTestReturns, BudgetExpires, CarrierDrops, CarrierReturns
<1>8. ASSUME SenderWrites PROVE Writes(Ordinary)
  <2>1. \/ UNCHANGED wire
        \/ wire' = Put(wire, "PC1", Msg("report", 0, "none"))
        \/ wire' = Put(wire, "PC1", Msg("report_chunk", 0, "last"))
        \/ wire' = Put(wire, "PC1", Msg("report_chunk", 0, "more"))
    BY <1>8 DEF SenderWrites
  <2>2. QED BY <1>same, <1>put, <2>1 DEF Ordinary, FrameType, ArgOf, Role
<1>9. ASSUME ReceiverTakes PROVE Writes(Ordinary)
  <2>1. \/ UNCHANGED wire
        \/ wire' = Put(wire, "PC2", Msg("report_ack", 0, "ok"))
        \/ wire' = Put(wire, "PC2", Msg("report_ack", 0, "declined"))
    BY <1>9 DEF ReceiverTakes
  <2>2. QED BY <1>same, <1>put, <2>1 DEF Ordinary, FrameType, ArgOf, Role
<1>10. ASSUME LinkCut PROVE Writes(Ordinary)
  <2>1. PICK n1 \in 0..Len(wire["PC1"]), n2 \in 0..Len(wire["PC2"]) :
          wire' = [r \in Role |-> SubSeq(wire[r], 1, IF r = "PC1" THEN n1 ELSE n2)]
    BY <1>10 DEF LinkCut
  <2>2. ASSUME NEW q \in Role PROVE In(wire', q) \subseteq In(wire, q)
    <3>1. PICK n \in 0..Len(wire[q]) : wire'[q] = SubSeq(wire[q], 1, n)
      BY <2>1 DEF Role
    <3>2. wire[q] \in Seq(Frame)
      BY <1>wire
    <3>3. /\ Len(SubSeq(wire[q], 1, n)) = n
          /\ \A i \in 1..n : SubSeq(wire[q], 1, n)[i] = wire[q][i] /\ i \in 1..Len(wire[q])
      BY <3>2
    <3>4. QED BY <3>1, <3>3 DEF In
  <2>3. QED BY <2>2 DEF Writes
<1>11. ASSUME UNCHANGED vars PROVE Writes(Ordinary)
  BY <1>11, <1>same DEF vars
<1>12. QED
  BY <1>1, <1>2, <1>3, <1>4, <1>5, <1>6, <1>7, <1>8, <1>9, <1>10, <1>11
     DEF Next, Loop, PlanStep, SenderStep, ReceiverStep, Finished

-----------------------------------------------------------------------------
(* How a session gets its outcome                                          *)

\* What the loop of r may decide, and on which evidence.
Decides(r) ==
  \/ fin'[r].state \in Stop /\ fin'[r].farewell
  \/ fin'[r].state = "aborted" /\ fin'[r].reason = "peer_lost"
  \/ /\ fin'[r].state = "aborted"
     /\ \E m \in In(wire, r) : m.type = "abort" /\ m.arg = fin'[r].reason
  \/ /\ fin'[r].state = "completed"
     /\ \E m \in In(wire, r) : m.type = "complete"
     /\ r = "PC1" => sentComplete
     /\ r = "PC2" => st'[r] = Transition(st[r], "generating_report")
                     /\ st[r] \in {"testing", "generating_report"}

\* A strike ends a session only with a farewell.
LEMMA WarnFin ==
  ASSUME TypeOK, NEW r \in Role, NEW w, WarnInvalidState(r, w), NEW q \in Role
  PROVE  \/ fin'[q] = fin[q]
         \/ q = r /\ fin'[q].state \in Stop /\ fin'[q].farewell
BY DEF WarnInvalidState, Finish, TypeOK, Stop

\* A frame decides the outcome of the side that takes it, on its evidence.
LEMMA FrameFin ==
  ASSUME TypeOK, NEW r \in Role, HandleFrame(r), NEW q \in Role
  PROVE  fin'[q] = fin[q] \/ (fin[q] = NoFin /\ Decides(q))
<1> DEFINE f == Head(wire[r])
           w == [wire EXCEPT ![r] = Tail(@)]
<1>1. f \in In(wire, r) /\ fin[r] = NoFin /\ fin \in [Role -> FinSpec]
      /\ st \in [Role -> PeerState]
  BY TailIn DEF HandleFrame, Running, TypeOK
<1>warn. ASSUME WarnInvalidState(r, w)
         PROVE  fin'[q] = fin[q] \/ (fin[q] = NoFin /\ Decides(q))
  BY <1>warn, <1>1, WarnFin DEF Decides
<1>same. ASSUME UNCHANGED fin PROVE fin'[q] = fin[q]
  BY <1>same
<1> HIDE DEF f, w
<1>2. CASE HandlePeerReady(r, f, w) \/ HandleStartConfirmation(r, f, w)
  BY <1>2, <1>warn, <1>same DEF HandlePeerReady, HandleStartConfirmation
<1>3. CASE HandleTestRequest(r, f, w)
  BY <1>3, <1>warn, <1>same DEF HandleTestRequest
<1>4. CASE HandleTestResult(r, f, w) \/ HandleWarning(r, f, w)
  BY <1>4, <1>same DEF HandleTestResult, HandleWarning, lifeVars
<1>5. CASE HandleReportManifest(r, f, w)
  BY <1>5, <1>warn, <1>same DEF HandleReportManifest
<1>6. CASE HandleTransferFrame(r, f, w)
  BY <1>6, <1>warn, <1>same DEF HandleTransferFrame, RouteTransferFrame
<1>7. CASE HandlePeerAbort(r, f, w)
  BY <1>7, <1>1 DEF HandlePeerAbort, Finish, Decides
<1>8. CASE HandleComplete(r, f, w)
  <2>1. CASE WarnInvalidState(r, w)
    BY <2>1, <1>warn
  <2>2. CASE Finish(r, "completed", "none", FALSE) /\ ~WarnInvalidState(r, w)
    <3>1. q # r => fin'[q] = fin[q]
      BY <2>2, <1>1 DEF Finish
    <3>2. fin'[r].state = "completed"
      BY <2>2, <1>1 DEF Finish
    <3>3. r = "PC1" => sentComplete
      BY <1>8, <2>2 DEF HandleComplete
    <3>4. r = "PC2" => /\ st'[r] = Transition(st[r], "generating_report")
                       /\ st[r] \in {"testing", "generating_report"}
      BY <1>8, <1>1, <2>2 DEF HandleComplete, Goto
    <3>5. f.type = "complete"
      BY <1>8 DEF HandleComplete
    <3>6. QED BY <1>1, <3>1, <3>2, <3>3, <3>4, <3>5 DEF Decides
  <2>3. QED BY <1>8, <2>1, <2>2 DEF HandleComplete
<1>9. QED BY <1>2, <1>3, <1>4, <1>5, <1>6, <1>7, <1>8 DEF HandleFrame, f, w

\* An outcome, once decided, is never replaced, and is decided on evidence.
LEMMA FinStep ==
  ASSUME TypeOK, [Next]_vars, NEW q \in Role
  PROVE  fin'[q] = fin[q] \/ (fin[q] = NoFin /\ Decides(q))
<1> USE DEF lifeVars, PlanFrame, XferFrame
<1>fin. fin \in [Role -> FinSpec] BY DEF TypeOK
<1>1. ASSUME NEW r \in Role, HandleFrame(r)
      PROVE  fin'[q] = fin[q] \/ (fin[q] = NoFin /\ Decides(q))
  BY <1>1, FrameFin
<1>2. ASSUME NEW r \in Role, QuitCommand(r) \/ HandleConnErr(r) \/ HandleInterrupt(r)
      PROVE  fin'[q] = fin[q] \/ (fin[q] = NoFin /\ Decides(q))
  BY <1>2, <1>fin DEF QuitCommand, HandleConnErr, HandleInterrupt, Running, Finish, Decides, Stop
<1>3. ASSUME HandleCallExpired
      PROVE  fin'[q] = fin[q] \/ (fin[q] = NoFin /\ Decides(q))
  BY <1>3, <1>fin DEF HandleCallExpired, Running, Finish, Decides, Stop
<1>4. ASSUME HandlePlanDone
      PROVE  fin'[q] = fin[q] \/ (fin[q] = NoFin /\ Decides(q))
  <2>1. CASE UNCHANGED fin
    BY <2>1
  <2>2. CASE Finish("PC1", "failed", "internal_error", TRUE)
    BY <1>4, <1>fin, <2>2 DEF HandlePlanDone, Running, Finish, Decides, Stop
  <2>3. QED BY <1>4, <2>1, <2>2 DEF HandlePlanDone
<1>5. ASSUME HandshakeReject
      PROVE  fin'[q] = fin[q] \/ (fin[q] = NoFin /\ Decides(q))
  BY <1>5, <1>fin DEF HandshakeReject, Finish, Decides
<1>6. ASSUME NEW r \in Role,
             \/ Launch(r) \/ StartCommand(r) \/ CtrlC(r) \/ OnCountdownGo(r)
             \/ HandleTransferDone(r) \/ Teardown(r) \/ Exit(r)
      PROVE  fin'[q] = fin[q]
  BY <1>6 DEF Launch, StartCommand, CtrlC, OnCountdownGo, HandleTransferDone, Teardown, Exit
<1>7. ASSUME \/ PlanStep \/ BudgetExpires \/ CarrierDrops \/ CarrierReturns
             \/ OpFinishes \/ SenderStep \/ ReceiverStep \/ LinkCut \/ HandleOpDone
      PROVE  fin'[q] = fin[q]
  BY <1>7 DEF PlanStep, PlanCall, PlanBaseEnds, PlanBoundary, CallReturns, CableWindowStart,
       CableTestReturns, CableWindowEnd, BudgetExpires, CarrierDrops, CarrierReturns,
       OpFinishes, SenderStep, SenderWrites, SenderEnds, ReceiverStep, ReceiverTakes,
       ReceiverStops, LinkCut, HandleOpDone
<1>8. ASSUME UNCHANGED vars PROVE fin'[q] = fin[q]
  BY <1>8 DEF vars
<1>9. QED BY <1>1, <1>2, <1>3, <1>4, <1>5, <1>6, <1>7, <1>8 DEF Next, Loop, Finished

-----------------------------------------------------------------------------
(* The farewell reason                                                     *)

\* An abort in flight names the reason its sender really ended for.
AbortInFlight ==
  \A r \in Role : \A m \in In(wire, r) :
    m.type = "abort" => fin[Peer(r)].farewell /\ fin[Peer(r)].reason = m.arg

\* The invariant on aborts in flight is inductive.
LEMMA FarewellStep ==
  ASSUME TypeOK, [Next]_vars, AbortInFlight
  PROVE  AbortInFlight'
<1> SUFFICES ASSUME NEW r \in Role, NEW m \in In(wire', r), m.type = "abort"
             PROVE  fin'[Peer(r)].farewell /\ fin'[Peer(r)].reason = m.arg
  BY DEF AbortInFlight, In
<1>wire. wire \in [Role -> Seq(Frame)] /\ fin \in [Role -> FinSpec] BY DEF TypeOK
<1>peer. Peer(r) \in Role /\ \A p \in Role : r = Peer(p) <=> p = Peer(r)
  BY DEF Role, Peer
<1>1. CASE m \in In(wire, r)
  <2>1. fin[Peer(r)].farewell /\ fin[Peer(r)].reason = m.arg
    BY <1>1 DEF AbortInFlight
  <2>2. fin[Peer(r)] # NoFin
    BY <2>1 DEF NoFin
  <2>3. fin'[Peer(r)] = fin[Peer(r)]
    BY <1>peer, <2>2, FinStep
  <2>4. QED BY <2>1, <2>3
<1>2. CASE m \notin In(wire, r)
  <2>1. ~Writes(Ordinary)
    BY <1>2 DEF Writes, Ordinary
  <2>2. ASSUME NEW p \in Role, NEW w \in [Role -> Seq(Frame)],
               \A q \in Role : In(w, q) \subseteq In(wire, q),
               NEW t \in FrameType \ {"abort"}, NEW i \in Nat, NEW a \in ArgOf(t),
               wire' = Put(w, p, Msg(t, i, a))
        PROVE  FALSE
    <3>1. Writes({t})
      BY <2>2, PutWrites
    <3>2. QED BY <1>2, <3>1 DEF Writes
  <2>3. CASE HandlePlanDone
    <3>1. CASE UNCHANGED wire
      BY <1>2, <3>1
    <3>2. CASE wire' = Put(wire, "PC1", Msg("complete", 0, "none"))
      BY <3>2, <2>2, <1>wire DEF FrameType, ArgOf, Role
    <3>3. QED BY <2>3, <3>1, <3>2 DEF HandlePlanDone, SendComplete
  <2>4. ASSUME NEW p \in Role, TakesComplete(p) PROVE FALSE
    <3> DEFINE w == [wire EXCEPT ![p] = Tail(@)]
    <3>1. w \in [Role -> Seq(Frame)] /\ \A q \in Role : In(w, q) \subseteq In(wire, q)
      BY <2>4, <1>wire, RestType, TailIn DEF TakesComplete
    <3> HIDE DEF w
    <3>2. CASE wire' = w
      BY <1>2, <3>1, <3>2
    <3>3. CASE wire' = Put(w, p, Msg("complete", 0, "none"))
      BY <3>1, <3>3, <2>2 DEF FrameType, ArgOf
    <3>4. CASE wire' = Put(w, p, Msg("warning", 0, "none"))
      BY <3>1, <3>4, <2>2 DEF FrameType, ArgOf
    <3>5. QED BY <2>4, <3>2, <3>3, <3>4 DEF TakesComplete, HandleComplete, WarnInvalidState, w
  <2>5. ASSUME NEW p \in Role, HandleTransferDone(p) PROVE FALSE
    <3> DEFINE v == Msg("warning", 0, "none")
               c == Msg("complete", 0, "none")
    <3>1. v \in Frame /\ v.type = "warning" /\ c \in Frame /\ c.type = "complete"
      BY MsgType DEF FrameType, ArgOf, Msg
    <3>2. Put(wire, p, v) \in [Role -> Seq(Frame)]
      BY <1>wire, <3>1, PutType
    <3>3. /\ In(Put(wire, p, v), r) \subseteq In(wire, r) \cup {v}
          /\ In(Put(wire, p, c), r) \subseteq In(wire, r) \cup {c}
          /\ In(Put(Put(wire, p, v), p, c), r) \subseteq In(Put(wire, p, v), r) \cup {c}
      BY <1>wire, <3>1, <3>2, PutIn
    <3>4. \/ wire' = wire \/ wire' = Put(wire, p, v)
          \/ wire' = Put(wire, p, c) \/ wire' = Put(Put(wire, p, v), p, c)
      BY <2>5 DEF HandleTransferDone, SendComplete
    <3> HIDE DEF v, c
    <3>5. QED BY <1>2, <3>1, <3>3, <3>4
  <2>6. ASSUME NEW p \in Role, Teardown(p)
        PROVE  fin'[Peer(r)].farewell /\ fin'[Peer(r)].reason = m.arg
    <3>1. PICK sent \in {FALSE, fin[p].farewell} :
            wire' = [(IF sent THEN Put(wire, p, FarewellFrame(p)) ELSE wire) EXCEPT ![p] = <<>>]
      BY <2>6 DEF Teardown
    <3>2. FarewellFrame(p) \in Frame /\ FarewellFrame(p).arg = fin[p].reason
      <4>1. fin[p].reason \in ArgOf("abort")
        BY <1>wire DEF FinSpec, ArgOf
      <4>2. QED BY <4>1, MsgType DEF FarewellFrame, FrameType, Msg
    <3>3. CASE ~sent
      <4>1. In(wire', r) \subseteq In(wire, r)
        BY <3>1, <3>3, <1>wire, DropIn
      <4>2. QED BY <1>2, <4>1
    <3>4. CASE sent
      <4> DEFINE w == Put(wire, p, FarewellFrame(p))
      <4>1. w \in [Role -> Seq(Frame)]
        BY <1>wire, <3>2, PutType
      <4>2. In(wire', r) \subseteq In(w, r)
        BY <3>1, <3>4, <4>1, DropIn
      <4>3. In(w, r) \subseteq In(wire, r) \cup (IF r = Peer(p) THEN {FarewellFrame(p)} ELSE {})
        BY <1>wire, <3>2, PutIn
      <4>4. r = Peer(p) /\ m = FarewellFrame(p)
        BY <1>2, <4>2, <4>3
      <4>5. p = Peer(r) /\ fin' = fin /\ fin[p].farewell
        BY <2>6, <1>peer, <3>1, <3>4, <4>4 DEF Teardown
      <4>6. QED BY <3>2, <4>4, <4>5
    <3>5. QED BY <3>3, <3>4
  <2>7. CASE HandshakeReject
    <3> DEFINE a == Msg("abort", 0, "handshake")
    <3>1. a \in Frame /\ a.arg = "handshake" /\ "PC2" \in Role
      BY MsgType DEF FrameType, ArgOf, Reason, Msg, Role
    <3>2. PICK w \in {wire, Put(wire, "PC2", a)} : wire' = [w EXCEPT !["PC2"] = <<>>]
      BY <2>7 DEF HandshakeReject
    <3> HIDE DEF a
    <3>3. w \in [Role -> Seq(Frame)]
      BY <1>wire, <3>1, PutType
    <3>4. In(wire', r) \subseteq In(w, r)
      BY <3>1, <3>2, <3>3, DropIn
    <3>5. In(Put(wire, "PC2", a), r)
            \subseteq In(wire, r) \cup (IF r = Peer("PC2") THEN {a} ELSE {})
      BY <1>wire, <3>1, PutIn
    <3>6. r = Peer("PC2") /\ m = a
      BY <1>2, <3>4, <3>5
    <3>7. fin'["PC2"].farewell /\ fin'["PC2"].reason = "handshake"
      BY <2>7, <1>wire, <3>1 DEF HandshakeReject, Finish
    <3>8. QED BY <1>peer, <3>1, <3>6, <3>7
  <2>8. QED BY <2>1, <2>3, <2>4, <2>5, <2>6, <2>7, WritesStep
<1>3. QED BY <1>1, <1>2

\* With it, the agreement on the reason is inductive.
LEMMA AbortStep ==
  ASSUME TypeOK, [Next]_vars, AbortInFlight, AbortReasonTrue
  PROVE  AbortReasonTrue'
<1> SUFFICES ASSUME NEW r \in Role, fin'[r].state = "aborted", ~fin'[r].farewell,
                    fin'[r].reason # "peer_lost"
             PROVE  fin'[Peer(r)].farewell /\ fin'[Peer(r)].reason = fin'[r].reason
  BY DEF AbortReasonTrue
<1>1. Peer(r) \in Role
  BY PeerType
<1>2. fin[Peer(r)].farewell /\ fin[Peer(r)].reason = fin'[r].reason
  <2>1. CASE fin'[r] = fin[r]
    BY <2>1 DEF AbortReasonTrue
  <2>2. CASE Decides(r)
    BY <2>2 DEF Decides, AbortInFlight
  <2>3. QED BY <2>1, <2>2, FinStep
<1>3. fin[Peer(r)] # NoFin
  BY <1>2 DEF NoFin
<1>4. fin'[Peer(r)] = fin[Peer(r)]
  BY <1>1, <1>3, FinStep
<1>5. QED BY <1>2, <1>4

\* A side that reports an abort it was told of reports the reason its peer
\* really ended for (handlePeerAbort against shutdown's farewell), whatever is
\* interrupted, lost or late.
THEOREM AbortReasonCorrect == Spec => []AbortReasonTrue
<1>1. Init => AbortInFlight /\ AbortReasonTrue
  BY DEF Init, AbortInFlight, In, AbortReasonTrue, NoFin
<1>2. TypeOK /\ AbortInFlight /\ AbortReasonTrue /\ [Next]_vars
        => AbortInFlight' /\ AbortReasonTrue'
  BY FarewellStep, AbortStep
<1>3. QED BY <1>1, <1>2, TypeCorrect, PTL DEF Spec

-----------------------------------------------------------------------------
(* The complete exchange                                                   *)

\* The states before GO.
Early == {"initializing", "preflight", "listening", "connecting", "handshake",
          "waiting_for_local_start", "waiting_for_peer_start", "ready"}

\* The plan starts at GO and at most once; the verdict and the transfer before
\* it follow a plan that returned without error and was handled.
PlanBeforeVerdict ==
  /\ st["PC1"] \in Early => plan.pc = "off"
  /\ sentComplete \/ sender.pc # "off" => plan.pc = "handled" /\ plan.err = "nil"

\* A complete in flight or taken has its cause on the other side.
VerdictInFlight ==
  /\ \A m \in In(wire, "PC2") : m.type = "complete" => sentComplete
  /\ \A m \in In(wire, "PC1") : m.type = "complete" => Completed("PC2")

CompletionInv == PlanBeforeVerdict /\ VerdictInFlight /\ CompletionAgreed

\* No transition leads back before GO.
LEMMA EarlyTransition ==
  ASSUME NEW s \in PeerState, NEW t, Transition(s, t) \in Early
  PROVE  s \in Early
BY DEF Transition, validTransitions, Forward, Early, PeerState, Stop

\* A plan driver's step starts from a running plan and leaves one.
LEMMA PlanGoesOn ==
  ASSUME TypeOK, PlanStep \/ BudgetExpires
  PROVE  /\ plan.pc \notin {"off", "handled"}
         /\ UNCHANGED <<st, sentComplete, sender>>
BY DEF PlanStep, PlanCall, PlanBaseEnds, PlanBoundary, CallReturns, CableWindowStart,
       CableTestReturns, CableWindowEnd, BudgetExpires, PlanFrame, lifeVars, xferVars

\* The order of plan and verdict is preserved, and a verdict stays written.
LEMMA PlanOrderStep ==
  ASSUME TypeOK, [Next]_vars, PlanBeforeVerdict
  PROVE  PlanBeforeVerdict' /\ (sentComplete => sentComplete')
<1> USE DEF lifeVars, startVars, planVars, xferVars, PlanFrame
<1>type. st \in [Role -> PeerState] /\ plan \in Plan /\ sender \in SenderState
         /\ "PC1" \in Role /\ "PC2" \in Role
  BY DEF TypeOK, Role
<1>st. ASSUME UNCHANGED <<plan, sentComplete, sender>>,
              st'["PC1"] \in Early => st["PC1"] \in Early
       PROVE  PlanBeforeVerdict' /\ (sentComplete => sentComplete')
  BY <1>st DEF PlanBeforeVerdict
<1>same. ASSUME UNCHANGED <<plan, sentComplete, sender, st>>
         PROVE  PlanBeforeVerdict' /\ (sentComplete => sentComplete')
  BY <1>same DEF PlanBeforeVerdict
<1>goto. ASSUME NEW r \in Role, NEW s, Goto(r, s)
         PROVE  st'["PC1"] \in Early => st["PC1"] \in Early
  <2>1. CASE r = "PC1"
    BY <1>goto, <1>type, <2>1, EarlyTransition DEF Goto
  <2>2. CASE r # "PC1"
    BY <1>goto, <1>type, <2>2 DEF Goto
  <2>3. QED BY <2>1, <2>2
<1>1. ASSUME NEW r \in Role, Launch(r) \/ StartCommand(r)
      PROVE  PlanBeforeVerdict' /\ (sentComplete => sentComplete')
  <2>1. st[r] \in Early /\ UNCHANGED <<plan, sentComplete, sender>>
    BY <1>1 DEF Launch, StartCommand, Early
  <2>2. \A q \in Role : q # r => st'[q] = st[q]
    BY <1>1, <1>type DEF Launch, StartCommand, SendLocalReady
  <2>3. QED BY <1>st, <1>type, <2>1, <2>2
<1>2. ASSUME NEW r \in Role, OnCountdownGo(r)
      PROVE  PlanBeforeVerdict' /\ (sentComplete => sentComplete')
  <2>1. CASE UNCHANGED plan
    BY <1>2, <1>st, <1>goto, <2>1 DEF OnCountdownGo
  <2>2. CASE r = "PC1" /\ "testing" \in validTransitions[st[r]]
    <3>1. st["PC1"] = "ready"
      BY <2>2, <1>type DEF validTransitions, Forward, PeerState, Stop
    <3>2. st'["PC1"] = "testing"
      BY <1>2, <2>2, <1>type DEF OnCountdownGo, Goto, Transition
    <3>3. ~sentComplete /\ sender.pc = "off"
      BY <3>1 DEF PlanBeforeVerdict, Early
    <3>4. UNCHANGED <<sentComplete, sender>>
      BY <1>2 DEF OnCountdownGo
    <3>5. QED BY <3>2, <3>3, <3>4 DEF PlanBeforeVerdict, Early
  <2>3. QED BY <1>2, <2>1, <2>2 DEF OnCountdownGo
<1>3. ASSUME NEW r \in Role, HandleFrame(r)
      PROVE  PlanBeforeVerdict' /\ (sentComplete => sentComplete')
  <2> DEFINE f == Head(wire[r])
             w == [wire EXCEPT ![r] = Tail(@)]
  <2> HIDE DEF f, w
  <2>1. CASE HandlePeerReady(r, f, w)
    BY <2>1, <1>st, <1>goto DEF HandlePeerReady
  <2>2. CASE HandleReportManifest(r, f, w)
    BY <2>2, <1>st, <1>goto DEF HandleReportManifest
  <2>3. CASE HandleComplete(r, f, w)
    BY <2>3, <1>st, <1>goto DEF HandleComplete
  <2>4. CASE HandleStartConfirmation(r, f, w) \/ HandleTestRequest(r, f, w)
    BY <2>4, <1>same DEF HandleStartConfirmation, HandleTestRequest
  <2>5. CASE HandleTestResult(r, f, w) \/ HandleWarning(r, f, w) \/ HandlePeerAbort(r, f, w)
    BY <2>5, <1>same DEF HandleTestResult, HandleWarning, HandlePeerAbort
  <2>6. CASE HandleTransferFrame(r, f, w)
    BY <2>6, <1>same DEF HandleTransferFrame
  <2>7. QED BY <1>3, <2>1, <2>2, <2>3, <2>4, <2>5, <2>6 DEF HandleFrame, f, w
<1>4. ASSUME HandlePlanDone
      PROVE  PlanBeforeVerdict' /\ (sentComplete => sentComplete')
  <2>1. plan.pc = "returned" /\ plan'.pc = "handled" /\ plan'.err = plan.err
    BY <1>4, <1>type DEF HandlePlanDone, Plan
  <2>2. ~sentComplete /\ sender.pc = "off" /\ st["PC1"] \notin Early
    BY <2>1 DEF PlanBeforeVerdict
  <2>3. st'["PC1"] \notin Early
    BY <1>4, <2>2, <1>goto, <1>type DEF HandlePlanDone
  <2>4. CASE plan.err = "nil"
    BY <2>1, <2>2, <2>3, <2>4 DEF PlanBeforeVerdict
  <2>5. CASE plan.err # "nil"
    <3>1. UNCHANGED <<sentComplete, sender>>
      BY <1>4, <2>5 DEF HandlePlanDone
    <3>2. QED BY <2>1, <2>2, <2>3, <3>1 DEF PlanBeforeVerdict
  <2>6. QED BY <2>4, <2>5
<1>5. ASSUME NEW r \in Role, HandleTransferDone(r)
      PROVE  PlanBeforeVerdict' /\ (sentComplete => sentComplete')
  <2>1. CASE r = "PC1"
    <3>1. sender.pc # "off" /\ UNCHANGED <<plan, st>>
      BY <1>5, <2>1 DEF HandleTransferDone
    <3>2. plan.pc = "handled" /\ plan.err = "nil"
      BY <3>1 DEF PlanBeforeVerdict
    <3>3. sentComplete => sentComplete'
      BY <1>5 DEF HandleTransferDone, SendComplete
    <3>4. QED BY <3>1, <3>2, <3>3 DEF PlanBeforeVerdict
  <2>2. CASE r # "PC1"
    BY <1>5, <2>2, <1>same DEF HandleTransferDone, ConcludesAfterTransfer
  <2>3. QED BY <2>1, <2>2
<1>6. ASSUME PlanStep \/ BudgetExpires
      PROVE  PlanBeforeVerdict' /\ (sentComplete => sentComplete')
  BY <1>6, PlanGoesOn DEF PlanBeforeVerdict
<1>7. ASSUME SenderStep
      PROVE  PlanBeforeVerdict' /\ (sentComplete => sentComplete')
  <2>1. sender.pc # "off" /\ UNCHANGED <<plan, sentComplete, st>>
    BY <1>7 DEF SenderStep, SenderWrites, SenderEnds, XferFrame
  <2>2. QED BY <2>1 DEF PlanBeforeVerdict
<1>8. ASSUME NEW r \in Role,
             \/ QuitCommand(r) \/ CtrlC(r) \/ HandleConnErr(r) \/ HandleInterrupt(r)
             \/ Teardown(r)
      PROVE  PlanBeforeVerdict' /\ (sentComplete => sentComplete')
  BY <1>8, <1>same DEF QuitCommand, CtrlC, HandleConnErr, HandleInterrupt, Teardown
<1>9. ASSUME \/ HandleCallExpired \/ HandleOpDone \/ OpFinishes \/ ReceiverStep
             \/ LinkCut \/ CarrierDrops \/ CarrierReturns
      PROVE  PlanBeforeVerdict' /\ (sentComplete => sentComplete')
  BY <1>9, <1>same DEF HandleCallExpired, HandleOpDone, OpFinishes, ReceiverStep,
     ReceiverTakes, ReceiverStops, XferFrame, LinkCut, CarrierDrops, CarrierReturns
<1>10. ASSUME NEW r \in Role, Exit(r)
       PROVE  PlanBeforeVerdict' /\ (sentComplete => sentComplete')
  BY <1>10, <1>st, <1>goto DEF Exit
<1>11. ASSUME HandshakeReject
       PROVE  PlanBeforeVerdict' /\ (sentComplete => sentComplete')
  BY <1>11, <1>st, <1>goto, <1>type DEF HandshakeReject
<1>12. ASSUME UNCHANGED vars
       PROVE  PlanBeforeVerdict' /\ (sentComplete => sentComplete')
  BY <1>12, <1>same DEF vars
<1>13. QED
  BY <1>1, <1>2, <1>3, <1>4, <1>5, <1>6, <1>7, <1>8, <1>9, <1>10, <1>11, <1>12
     DEF Next, Loop, Finished

\* A complete is written only with its cause established.
LEMMA NewComplete ==
  ASSUME TypeOK, [Next]_vars, NEW r \in Role, NEW m \in In(wire', r),
         m.type = "complete", m \notin In(wire, r)
  PROVE  \/ r = "PC2" /\ sentComplete'
         \/ r = "PC1" /\ Completed("PC2")'
<1>wire. wire \in [Role -> Seq(Frame)] /\ fin \in [Role -> FinSpec] BY DEF TypeOK
<1>roles. "PC1" \in Role /\ "PC2" \in Role /\ Peer("PC1") = "PC2" /\ Peer("PC2") = "PC1"
  BY DEF Role, Peer
<1>none. ~Writes(Ordinary)
  BY DEF Writes, Ordinary
<1> DEFINE c == Msg("complete", 0, "none")
           v == Msg("warning", 0, "none")
<1>msg. c \in Frame /\ c.type = "complete" /\ v \in Frame /\ v.type = "warning"
  BY MsgType DEF FrameType, ArgOf, Msg
<1> HIDE DEF c, v
<1>put. ASSUME NEW p \in Role, NEW w \in [Role -> Seq(Frame)],
               In(w, r) \subseteq In(wire, r) \cup {v}, wire' = Put(w, p, c)
        PROVE  r = Peer(p)
  <2>1. In(wire', r) \subseteq In(w, r) \cup (IF r = Peer(p) THEN {c} ELSE {})
    BY <1>put, <1>msg, PutIn
  <2>2. QED BY <1>put, <1>msg, <2>1
<1>1. CASE HandlePlanDone
  <2>1. wire' = Put(wire, "PC1", c) /\ sentComplete'
    BY <1>1 DEF HandlePlanDone, SendComplete, c
  <2>2. QED BY <2>1, <1>put, <1>wire, <1>roles
<1>2. ASSUME NEW p \in Role, HandleTransferDone(p)
      PROVE  r = "PC2" /\ sentComplete'
  <2>1. PICK w \in {wire, Put(wire, p, v)} :
          \/ wire' = w
          \/ p = "PC1" /\ wire' = Put(w, p, c) /\ sentComplete'
    BY <1>2 DEF HandleTransferDone, SendComplete, ConcludesAfterTransfer, c, v
  <2>2. /\ w \in [Role -> Seq(Frame)]
        /\ In(w, r) \subseteq In(wire, r) \cup {v}
    <3>1. /\ Put(wire, p, v) \in [Role -> Seq(Frame)]
          /\ In(Put(wire, p, v), r) \subseteq In(wire, r) \cup {v}
      BY <1>wire, <1>msg, PutType, PutIn
    <3>2. QED BY <1>wire, <3>1
  <2>3. wire' # w
    BY <1>msg, <2>2
  <2>4. QED BY <2>1, <2>2, <2>3, <1>put, <1>roles
<1>3. ASSUME NEW p \in Role, TakesComplete(p)
      PROVE  r = "PC1" /\ Completed("PC2")'
  <2> DEFINE w == [wire EXCEPT ![p] = Tail(@)]
  <2>1. w \in [Role -> Seq(Frame)] /\ In(w, r) \subseteq In(wire, r)
    BY <1>3, <1>wire, RestType, TailIn DEF TakesComplete
  <2> HIDE DEF w
  <2>2. wire' # w
    BY <2>1
  <2>3. wire' # Put(w, p, v)
    <3>1. In(Put(w, p, v), r) \subseteq In(w, r) \cup {v}
      BY <1>msg, <2>1, PutIn
    <3>2. QED BY <1>msg, <2>1, <3>1
  <2>4. p = "PC2" /\ wire' = Put(w, p, c) /\ Finish(p, "completed", "none", FALSE)
    BY <1>3, <2>2, <2>3 DEF TakesComplete, HandleComplete, WarnInvalidState, w, c, v
  <2>5. Completed("PC2")'
    BY <2>4, <1>wire, <1>roles DEF Finish, Completed
  <2>6. QED BY <2>1, <2>4, <2>5, <1>put, <1>roles
<1>4. ASSUME NEW p \in Role, Teardown(p) PROVE FALSE
  <2> DEFINE a == FarewellFrame(p)
  <2>1. a \in Frame /\ a.type = "abort"
    <3>1. fin[p].reason \in ArgOf("abort")
      BY <1>wire DEF FinSpec, ArgOf
    <3>2. QED BY <3>1, MsgType DEF FarewellFrame, FrameType, Msg
  <2>2. PICK w \in {wire, Put(wire, p, a)} : wire' = [w EXCEPT ![p] = <<>>]
    BY <1>4 DEF Teardown
  <2> HIDE DEF a
  <2>3. w \in [Role -> Seq(Frame)] /\ In(w, r) \subseteq In(wire, r) \cup {a}
    <3>1. /\ Put(wire, p, a) \in [Role -> Seq(Frame)]
          /\ In(Put(wire, p, a), r) \subseteq In(wire, r) \cup {a}
      BY <1>wire, <2>1, PutType, PutIn
    <3>2. QED BY <1>wire, <3>1
  <2>4. In(wire', r) \subseteq In(w, r)
    BY <2>2, <2>3, DropIn
  <2>5. QED BY <2>1, <2>3, <2>4
<1>5. CASE HandshakeReject
  <2> DEFINE a == Msg("abort", 0, "handshake")
  <2>1. a \in Frame /\ a.type = "abort"
    BY MsgType DEF FrameType, ArgOf, Reason, Msg
  <2>2. PICK w \in {wire, Put(wire, "PC2", a)} : wire' = [w EXCEPT !["PC2"] = <<>>]
    BY <1>5 DEF HandshakeReject
  <2> HIDE DEF a
  <2>3. w \in [Role -> Seq(Frame)] /\ In(w, r) \subseteq In(wire, r) \cup {a}
    BY <1>wire, <1>roles, <2>1, PutType, PutIn
  <2>4. In(wire', r) \subseteq In(w, r)
    BY <1>roles, <2>2, <2>3, DropIn
  <2>5. QED BY <2>1, <2>3, <2>4
<1>6. QED BY <1>none, <1>1, <1>2, <1>3, <1>4, <1>5, WritesStep

\* The completion invariant is inductive.
LEMMA CompletionStep ==
  ASSUME TypeOK, [Next]_vars, CompletionInv
  PROVE  CompletionInv'
<1>roles. "PC1" \in Role /\ "PC2" \in Role BY DEF Role
<1>1. PlanBeforeVerdict' /\ (sentComplete => sentComplete')
  BY PlanOrderStep DEF CompletionInv
<1>2. ASSUME NEW r \in Role, Completed(r) PROVE Completed(r)'
  <2>1. fin[r] # NoFin
    BY <1>2 DEF Completed, NoFin
  <2>2. QED BY <1>2, <2>1, FinStep DEF Completed
<1>3. ASSUME NEW r \in Role, Completed(r)', ~Completed(r)
      PROVE  \E m \in In(wire, r) : m.type = "complete"
  BY <1>3, FinStep DEF Decides, Completed, Stop
<1>4. VerdictInFlight'
  <2>1. ASSUME NEW m \in In(wire', "PC2"), m.type = "complete" PROVE sentComplete'
    <3>1. CASE m \in In(wire, "PC2")
      BY <1>1, <2>1, <3>1 DEF CompletionInv, VerdictInFlight
    <3>2. CASE m \notin In(wire, "PC2")
      BY <2>1, <3>2, <1>roles, NewComplete
    <3>3. QED BY <3>1, <3>2
  <2>2. ASSUME NEW m \in In(wire', "PC1"), m.type = "complete" PROVE Completed("PC2")'
    <3>1. CASE m \in In(wire, "PC1")
      BY <1>2, <2>2, <3>1, <1>roles DEF CompletionInv, VerdictInFlight
    <3>2. CASE m \notin In(wire, "PC1")
      BY <2>2, <3>2, <1>roles, NewComplete
    <3>3. QED BY <3>1, <3>2
  <2>3. QED BY <2>1, <2>2 DEF VerdictInFlight, In
<1>5. CompletionAgreed'
  <2>1. Completed("PC1")' => Completed("PC2")'
    <3>1. CASE Completed("PC1")
      BY <1>2, <3>1, <1>roles DEF CompletionInv, CompletionAgreed
    <3>2. CASE Completed("PC1")' /\ ~Completed("PC1")
      BY <1>2, <1>3, <3>2, <1>roles DEF CompletionInv, VerdictInFlight
    <3>3. QED BY <3>1, <3>2
  <2>2. Completed("PC2")' => sentComplete'
    <3>1. CASE Completed("PC2")
      BY <1>1, <3>1 DEF CompletionInv, CompletionAgreed
    <3>2. CASE Completed("PC2")' /\ ~Completed("PC2")
      BY <1>1, <1>3, <3>2, <1>roles DEF CompletionInv, VerdictInFlight
    <3>3. QED BY <3>1, <3>2
  <2>3. QED BY <1>1, <2>1, <2>2 DEF PlanBeforeVerdict, CompletionAgreed
<1>6. QED BY <1>1, <1>4, <1>5 DEF CompletionInv

\* The complete exchange is an agreement: a completed coordinator has a
\* completed worker, and a completed worker has a coordinator that handled a
\* plan that succeeded and wrote its verdict (handleComplete, handlePlanDone).
THEOREM CompletionCorrect == Spec => []CompletionAgreed
<1>1. Init => CompletionInv
  BY DEF Init, CompletionInv, PlanBeforeVerdict, VerdictInFlight, CompletionAgreed,
         Completed, In, NoFin, Role
<1>2. TypeOK /\ CompletionInv /\ [Next]_vars => CompletionInv'
  BY CompletionStep
<1>3. CompletionInv => CompletionAgreed
  BY DEF CompletionInv
<1>4. QED BY <1>1, <1>2, <1>3, TypeCorrect, PTL DEF Spec

-----------------------------------------------------------------------------
(* The life of one side                                                    *)

\* The states a session ends in, and the states before both sides are ready.
Over == Stop \cup {"completed"}
Waiting == Early \ {"ready"}

\* The frame r's loop takes, and the wires without it.
Oldest(r) == Head(wire[r])
Rest(r) == [wire EXCEPT ![r] = Tail(@)]

\* How the state of a side that has not decided its outcome may change: it
\* comes nearer to GO, passes GO, or starts to report.
Advances(q) ==
  \/ st'[q] = st[q]
  \/ st[q] \in Waiting /\ st'[q] \in Early
  \/ st[q] = "ready" /\ st'[q] = "testing" /\ OnCountdownGo(q)
  \/ /\ st[q] = "testing" /\ st'[q] = "generating_report"
     /\ q = "PC1" => HandlePlanDone /\ plan.err = "nil"
     /\ q = "PC2" => \E m \in In(wire, q) : m.type \in {"report", "complete"}

\* How state, outcome and teardown of a side may change together.
LifeOf(q) ==
  \/ st'[q] = st[q] /\ fin'[q] = fin[q] /\ td'[q] = td[q]
  \/ fin[q] = NoFin /\ td'[q] = td[q] /\ Advances(q)
  \/ /\ Teardown(q) /\ td[q] = "open" /\ td'[q] = "closed" /\ fin[q] # NoFin
     /\ st'[q] = st[q] /\ fin'[q] = fin[q]
  \/ /\ Exit(q) /\ td[q] = "closed" /\ td'[q] = "done" /\ fin'[q] = fin[q]
     /\ st'[q] = Transition(st[q], fin[q].state)
  \/ /\ q = "PC2" /\ st[q] = "handshake" /\ fin[q] = NoFin
     /\ td'[q] = "done" /\ fin'[q] # NoFin
     /\ st'[q] \in Stop /\ st'[q] = fin'[q].state

\* A transition into a later state of the session does what it says.
LEMMA GotoForward ==
  /\ \A t \in Early : t # "ready" => Transition("ready", t) = "ready"
  /\ \A s \in PeerState : Transition(s, "testing") # s => s = "ready" /\ Transition(s, "testing") = "testing"
  /\ \A s \in PeerState : Transition(s, "generating_report") # s =>
       s = "testing" /\ Transition(s, "generating_report") = "generating_report"
  /\ \A s \in PeerState : Transition(s, "ready") # s => s \in Waiting /\ Transition(s, "ready") = "ready"
  /\ \A s \in PeerState : Transition(s, "waiting_for_peer_start") # s =>
       s \in Waiting /\ Transition(s, "waiting_for_peer_start") = "waiting_for_peer_start"
  /\ Transition("handshake", "waiting_for_local_start") = "waiting_for_local_start"
  /\ \A s \in PeerState \ Over, t \in Stop : Transition(s, t) = t
  /\ Transition("generating_report", "completed") = "completed"
BY DEF Transition, validTransitions, Forward, Early, Waiting, Over, PeerState, Stop

\* Announcing readiness moves only the announcing side, and not past ready.
LEMMA SendLocalReadyLife ==
  ASSUME TypeOK, NEW r \in Role, st[r] \in Waiting, SendLocalReady(r, "waiting_for_local_start"),
         NEW q \in Role
  PROVE  st'[q] = st[q] \/ (q = r /\ st'[q] \in Early)
<1>1. st \in [Role -> PeerState]
  BY DEF TypeOK
<1>2. /\ Transition("waiting_for_local_start", "ready") \in Early
      /\ Transition("waiting_for_local_start", "waiting_for_peer_start") \in Early
      /\ "waiting_for_local_start" \in Early
  BY DEF Transition, validTransitions, Forward, Early, PeerState, Stop
<1>3. \E s \in Early : st' = [st EXCEPT ![r] = s]
  BY <1>2 DEF SendLocalReady
<1>4. QED BY <1>1, <1>3

\* A frame changes the state only of the side that takes it.
LEMMA FrameLife ==
  ASSUME TypeOK, NEW r \in Role, HandleFrame(r), NEW q \in Role
  PROVE  LifeOf(q)
<1> DEFINE f == Oldest(r)
           w == Rest(r)
<1>type. st \in [Role -> PeerState] /\ f \in In(wire, r) /\ fin[r] = NoFin
  BY TailIn DEF HandleFrame, Running, TypeOK, Oldest
<1>fin. q # r => fin'[q] = fin[q]
  <2>1. ASSUME NEW s, NEW y, NEW b, Finish(r, s, y, b) PROVE q # r => fin'[q] = fin[q]
    BY <2>1 DEF Finish, TypeOK
  <2> HIDE DEF f, w
  <2>2. QED BY <2>1 DEF HandleFrame, HandlePeerReady, HandleStartConfirmation, HandleTestRequest,
       HandleTestResult, HandleWarning, HandlePeerAbort, HandleReportManifest,
       HandleTransferFrame, RouteTransferFrame, HandleComplete, WarnInvalidState, lifeVars
<1>same. ASSUME UNCHANGED <<st, td>> PROVE LifeOf(q)
  BY <1>same, <1>type, <1>fin DEF LifeOf, Advances
<1>goto. ASSUME NEW s, Goto(r, s), UNCHANGED td,
                Transition(st[r], s) # st[r] => st[r] \in Waiting /\ s = "ready"
         PROVE  LifeOf(q)
  <2>1. Transition(st[r], s) # st[r] => Transition(st[r], s) \in Early
    BY <1>goto, <1>type, GotoForward DEF Early
  <2>2. QED BY <1>goto, <1>type, <1>fin, <2>1 DEF Goto, LifeOf, Advances
<1>report. ASSUME Goto(r, "generating_report"), UNCHANGED td, r = "PC2",
                  f.type \in {"report", "complete"}
           PROVE  LifeOf(q)
  <2>1. Transition(st[r], "generating_report") # st[r] =>
          st[r] = "testing" /\ Transition(st[r], "generating_report") = "generating_report"
    BY <1>type, GotoForward
  <2>2. QED BY <1>report, <1>type, <1>fin, <2>1 DEF Goto, LifeOf, Advances
<1>frame. \/ HandlePeerReady(r, f, w) \/ HandleStartConfirmation(r, f, w)
          \/ HandleTestRequest(r, f, w) \/ HandleTestResult(r, f, w) \/ HandleWarning(r, f, w)
          \/ HandlePeerAbort(r, f, w) \/ HandleReportManifest(r, f, w)
          \/ HandleTransferFrame(r, f, w) \/ HandleComplete(r, f, w)
  BY DEF HandleFrame, Oldest, Rest
<1> HIDE DEF f, w
<1>1. CASE HandlePeerReady(r, f, w)
  <2>1. CASE UNCHANGED st
    BY <1>1, <1>same, <2>1 DEF HandlePeerReady
  <2>2. CASE st[r] = "waiting_for_peer_start" /\ Goto(r, "ready")
    BY <1>1, <1>goto, <2>2 DEF HandlePeerReady, Waiting, Early
  <2>3. QED BY <1>1, <2>1, <2>2 DEF HandlePeerReady
<1>2. CASE HandleReportManifest(r, f, w)
  BY <1>2, <1>same, <1>report DEF HandleReportManifest
<1>3. CASE HandleComplete(r, f, w)
  BY <1>3, <1>same, <1>report DEF HandleComplete
<1>4. CASE HandleStartConfirmation(r, f, w) \/ HandleTestRequest(r, f, w)
  BY <1>4, <1>same DEF HandleStartConfirmation, HandleTestRequest
<1>5. CASE HandleTestResult(r, f, w) \/ HandleWarning(r, f, w) \/ HandlePeerAbort(r, f, w)
  BY <1>5, <1>same DEF HandleTestResult, HandleWarning, HandlePeerAbort, lifeVars
<1>6. CASE HandleTransferFrame(r, f, w)
  BY <1>6, <1>same DEF HandleTransferFrame
<1>7. QED BY <1>frame, <1>1, <1>2, <1>3, <1>4, <1>5, <1>6

\* Every step moves a side along its life.
LEMMA LifeStep ==
  ASSUME TypeOK, [Next]_vars, NEW q \in Role
  PROVE  LifeOf(q)
<1> USE DEF lifeVars, PlanFrame, XferFrame
<1>type. st \in [Role -> PeerState] /\ fin \in [Role -> FinSpec]
         /\ td \in [Role -> {"open", "closed", "done"}] /\ "PC1" \in Role /\ "PC2" \in Role
  BY DEF TypeOK, Role
<1>same. ASSUME UNCHANGED <<st, fin, td>> PROVE LifeOf(q)
  BY <1>same DEF LifeOf
<1>1. ASSUME NEW r \in Role, HandleFrame(r) PROVE LifeOf(q)
  BY <1>1, FrameLife
<1>2. ASSUME NEW r \in Role, Launch(r) PROVE LifeOf(q)
  <2>1. st[r] = "handshake" /\ fin[r] = NoFin /\ UNCHANGED <<fin, td>>
    BY <1>2 DEF Launch
  <2>2. st'[q] = st[q] \/ (q = r /\ st'[q] \in Early)
    <3>1. Transition(st[r], "waiting_for_local_start") = "waiting_for_local_start"
      BY <2>1, GotoForward
    <3>2. CASE SendLocalReady(r, "waiting_for_local_start")
      BY <2>1, <3>2, SendLocalReadyLife DEF Waiting, Early
    <3>3. CASE st' = [st EXCEPT ![r] = "waiting_for_local_start"]
      BY <1>type, <3>3 DEF Early
    <3>4. QED BY <1>2, <3>1, <3>2, <3>3 DEF Launch
  <2>3. QED BY <2>1, <2>2 DEF LifeOf, Advances, Waiting, Early
<1>3. ASSUME NEW r \in Role, StartCommand(r) PROVE LifeOf(q)
  <2>1. st[r] = "waiting_for_local_start" /\ fin[r] = NoFin /\ UNCHANGED <<fin, td>>
        /\ SendLocalReady(r, "waiting_for_local_start")
    BY <1>3 DEF StartCommand, Running
  <2>2. st'[q] = st[q] \/ (q = r /\ st'[q] \in Early)
    BY <2>1, SendLocalReadyLife DEF Waiting, Early
  <2>3. QED BY <2>1, <2>2 DEF LifeOf, Advances, Waiting, Early
<1>4. ASSUME NEW r \in Role, QuitCommand(r) \/ HandleConnErr(r) \/ HandleInterrupt(r)
      PROVE  LifeOf(q)
  BY <1>4, <1>type DEF QuitCommand, HandleConnErr, HandleInterrupt, Running, Finish, LifeOf, Advances
<1>5. ASSUME HandleCallExpired PROVE LifeOf(q)
  BY <1>5, <1>type DEF HandleCallExpired, Running, Finish, LifeOf, Advances
<1>6. ASSUME NEW r \in Role, OnCountdownGo(r) PROVE LifeOf(q)
  <2>1. Transition(st[r], "testing") # st[r] =>
          st[r] = "ready" /\ Transition(st[r], "testing") = "testing"
    BY <1>type, GotoForward
  <2>2. fin[r] = NoFin /\ UNCHANGED <<fin, td>> /\ st' = [st EXCEPT ![r] = Transition(st[r], "testing")]
    BY <1>6 DEF OnCountdownGo, Running, Goto
  <2>3. QED BY <1>6, <1>type, <2>1, <2>2 DEF LifeOf, Advances
<1>7. ASSUME HandlePlanDone PROVE LifeOf(q)
  <2>1. fin["PC1"] = NoFin /\ UNCHANGED td
    BY <1>7 DEF HandlePlanDone, Running
  <2>2. CASE plan.err = "nil"
    <3>1. Transition(st["PC1"], "generating_report") # st["PC1"] =>
            st["PC1"] = "testing" /\ Transition(st["PC1"], "generating_report") = "generating_report"
      BY <1>type, GotoForward
    <3>2. UNCHANGED fin /\ st' = [st EXCEPT !["PC1"] = Transition(st["PC1"], "generating_report")]
      BY <1>7, <2>2 DEF HandlePlanDone, Goto
    <3>3. QED BY <1>7, <1>type, <2>1, <2>2, <3>1, <3>2 DEF LifeOf, Advances
  <2>3. CASE plan.err # "nil"
    <3>1. UNCHANGED st /\ (UNCHANGED fin \/ Finish("PC1", "failed", "internal_error", TRUE))
      BY <1>7, <2>3 DEF HandlePlanDone
    <3>2. QED BY <1>type, <2>1, <3>1 DEF Finish, LifeOf, Advances
  <2>4. QED BY <2>2, <2>3
<1>8. ASSUME NEW r \in Role, Teardown(r) PROVE LifeOf(q)
  BY <1>8, <1>type DEF Teardown, Finishing, LifeOf
<1>9. ASSUME NEW r \in Role, Exit(r) PROVE LifeOf(q)
  BY <1>9, <1>type DEF Exit, Goto, LifeOf
<1>10. ASSUME HandshakeReject PROVE LifeOf(q)
  <2>1. PICK s \in Stop : Goto("PC2", s) /\ Finish("PC2", s, "handshake", TRUE)
    BY <1>10 DEF HandshakeReject
  <2>2. st["PC2"] = "handshake" /\ fin["PC2"] = NoFin /\ td' = [td EXCEPT !["PC2"] = "done"]
    BY <1>10 DEF HandshakeReject
  <2>3. st' = [st EXCEPT !["PC2"] = s]
    <3>1. Transition(st["PC2"], s) = s
      BY <2>2, GotoForward DEF PeerState, Over, Stop
    <3>2. QED BY <2>1, <3>1 DEF Goto
  <2>4. fin'["PC2"].state = s /\ fin'["PC2"] # NoFin /\ (q # "PC2" => fin'[q] = fin[q])
    BY <2>1, <1>type DEF Finish, NoFin, Stop
  <2>5. QED BY <1>type, <2>2, <2>3, <2>4 DEF LifeOf
<1>11. ASSUME NEW r \in Role, CtrlC(r) \/ HandleTransferDone(r) PROVE LifeOf(q)
  BY <1>11, <1>same DEF CtrlC, HandleTransferDone
<1>12. ASSUME \/ PlanStep \/ BudgetExpires \/ CarrierDrops \/ CarrierReturns
              \/ OpFinishes \/ SenderStep \/ ReceiverStep \/ LinkCut \/ HandleOpDone
       PROVE  LifeOf(q)
  BY <1>12, <1>same DEF PlanStep, PlanCall, PlanBaseEnds, PlanBoundary, CallReturns,
       CableWindowStart, CableTestReturns, CableWindowEnd, BudgetExpires, CarrierDrops,
       CarrierReturns, OpFinishes, SenderStep, SenderWrites, SenderEnds, ReceiverStep,
       ReceiverTakes, ReceiverStops, LinkCut, HandleOpDone
<1>13. ASSUME UNCHANGED vars PROVE LifeOf(q)
  BY <1>13, <1>same DEF vars
<1>14. QED BY <1>1, <1>2, <1>3, <1>4, <1>5, <1>6, <1>7, <1>8, <1>9, <1>10, <1>11, <1>12, <1>13
          DEF Next, Loop, Finished

-----------------------------------------------------------------------------
(* The final state and the annotation window                               *)

\* A side closes only after it decided, ends in the state it decided on, and
\* is ready to enter that state until then.
EndOrder ==
  \A r \in Role :
    /\ td[r] # "open" => Finishing(r)
    /\ Finishing(r) => fin[r].state \in Over
    /\ td[r] # "done" => st[r] \notin Over
    /\ td[r] = "done" => st[r] = fin[r].state
    /\ Completed(r) /\ td[r] # "done" => st[r] = "generating_report"

\* PC1 is testing while its plan runs and reporting once it goes on to the
\* transfer and the verdict.
PlanInState ==
  td["PC1"] # "done" =>
    /\ plan.pc \notin {"off", "handled"} => st["PC1"] = "testing"
    /\ sentComplete \/ sender.pc # "off" => st["PC1"] = "generating_report"

\* The plan, the verdict and the sender have few writers.
LEMMA PlanWriters ==
  ASSUME TypeOK, [Next]_vars
  PROVE  \/ UNCHANGED <<plan, sentComplete, sender>>
         \/ OnCountdownGo("PC1") /\ "testing" \in validTransitions[st["PC1"]]
         \/ HandlePlanDone \/ PlanStep \/ BudgetExpires \/ SenderStep
         \/ HandleTransferDone("PC1")
<1> USE DEF planVars, xferVars
<1>1. ASSUME NEW r \in Role, HandleFrame(r) PROVE UNCHANGED <<plan, sentComplete, sender>>
  BY <1>1 DEF HandleFrame, HandlePeerReady, HandleStartConfirmation, HandleTestRequest,
       HandleTestResult, HandleWarning, HandlePeerAbort, HandleReportManifest,
       HandleTransferFrame, HandleComplete
<1>2. ASSUME NEW r \in Role,
             \/ Launch(r) \/ StartCommand(r) \/ QuitCommand(r) \/ CtrlC(r) \/ HandleConnErr(r)
             \/ HandleInterrupt(r) \/ Teardown(r) \/ Exit(r)
      PROVE  UNCHANGED <<plan, sentComplete, sender>>
  BY <1>2 DEF Launch, StartCommand, QuitCommand, CtrlC, HandleConnErr, HandleInterrupt, Teardown, Exit
<1>3. ASSUME \/ HandleCallExpired \/ HandleOpDone \/ OpFinishes \/ ReceiverStep \/ LinkCut
             \/ CarrierDrops \/ CarrierReturns \/ HandshakeReject
      PROVE  UNCHANGED <<plan, sentComplete, sender>>
  BY <1>3 DEF HandleCallExpired, HandleOpDone, OpFinishes, ReceiverStep, ReceiverTakes,
     ReceiverStops, XferFrame, LinkCut, CarrierDrops, CarrierReturns, HandshakeReject, PlanFrame
<1>4. ASSUME NEW r \in Role, OnCountdownGo(r)
      PROVE  \/ UNCHANGED <<plan, sentComplete, sender>>
             \/ OnCountdownGo("PC1") /\ "testing" \in validTransitions[st["PC1"]]
  BY <1>4 DEF OnCountdownGo
<1>5. ASSUME NEW r \in Role, HandleTransferDone(r)
      PROVE  UNCHANGED <<plan, sentComplete, sender>> \/ HandleTransferDone("PC1")
  BY <1>5 DEF HandleTransferDone, ConcludesAfterTransfer, Role
<1>6. ASSUME UNCHANGED vars PROVE UNCHANGED <<plan, sentComplete, sender>>
  BY <1>6 DEF vars
<1>7. QED BY <1>1, <1>2, <1>3, <1>4, <1>5, <1>6 DEF Next, Loop, Finished

\* The order of the coordinator's plan and state is preserved.
LEMMA PlanInStateStep ==
  ASSUME TypeOK, [Next]_vars, PlanInState
  PROVE  PlanInState'
<1>type. st \in [Role -> PeerState] /\ plan \in Plan /\ "PC1" \in Role
  BY DEF TypeOK, Role
<1>life. LifeOf("PC1")
  BY <1>type, LifeStep
<1> SUFFICES ASSUME td'["PC1"] # "done"
             PROVE  /\ plan'.pc \notin {"off", "handled"} => st'["PC1"] = "testing"
                    /\ sentComplete' \/ sender'.pc # "off" => st'["PC1"] = "generating_report"
  BY DEF PlanInState
<1>open. td["PC1"] # "done"
  BY <1>life DEF LifeOf
<1>1. CASE UNCHANGED <<plan, sentComplete, sender>>
  <2>1. CASE HandlePlanDone
    BY <1>1, <1>type, <2>1 DEF HandlePlanDone, Plan
  <2>2. CASE ~HandlePlanDone
    BY <1>1, <1>open, <1>life, <2>2 DEF LifeOf, Advances, PlanInState, Waiting, Early
  <2>3. QED BY <2>1, <2>2
<1>2. CASE OnCountdownGo("PC1") /\ "testing" \in validTransitions[st["PC1"]]
  <2>1. st["PC1"] = "ready" /\ st'["PC1"] = "testing"
    BY <1>2, <1>type, GotoForward
       DEF OnCountdownGo, Goto, Transition, validTransitions, Forward, PeerState, Stop
  <2>2. UNCHANGED <<sentComplete, sender>>
    BY <1>2 DEF OnCountdownGo, xferVars
  <2>3. QED BY <1>open, <2>1, <2>2 DEF PlanInState
<1>3. CASE HandlePlanDone
  <2>1. plan.pc = "returned" /\ plan'.pc = "handled" /\ st["PC1"] = "testing"
    BY <1>3, <1>type, <1>open DEF HandlePlanDone, Plan, PlanInState
  <2>2. CASE plan.err = "nil"
    <3>1. st' = [st EXCEPT !["PC1"] = Transition(st["PC1"], "generating_report")]
      BY <1>3, <2>2 DEF HandlePlanDone, Goto
    <3>2. Transition("testing", "generating_report") = "generating_report"
      BY DEF Transition, validTransitions, Forward, PeerState, Stop
    <3>3. QED BY <1>type, <2>1, <3>1, <3>2
  <2>3. CASE plan.err # "nil"
    <3>1. UNCHANGED <<st, sentComplete, sender>>
      BY <1>3, <2>3 DEF HandlePlanDone
    <3>2. QED BY <1>open, <2>1, <3>1 DEF PlanInState
  <2>4. QED BY <2>2, <2>3
<1>4. CASE PlanStep \/ BudgetExpires
  BY <1>4, <1>open, PlanGoesOn DEF PlanInState
<1>5. CASE SenderStep
  BY <1>5, <1>open DEF SenderStep, SenderWrites, SenderEnds, XferFrame, lifeVars, planVars, PlanInState
<1>6. CASE HandleTransferDone("PC1")
  <2>1. sender.pc # "off" /\ UNCHANGED <<plan, st>>
    BY <1>6 DEF HandleTransferDone, lifeVars, planVars
  <2>2. QED BY <1>open, <2>1 DEF PlanInState
<1>7. QED BY <1>1, <1>2, <1>3, <1>4, <1>5, <1>6, PlanWriters

\* The order of decision, teardown and final state is preserved.
LEMMA EndOrderStep ==
  ASSUME TypeOK, [Next]_vars, PlanInState, EndOrder
  PROVE  EndOrder'
<1> SUFFICES ASSUME NEW r \in Role
             PROVE  /\ td'[r] # "open" => fin'[r] # NoFin
                    /\ fin'[r] # NoFin => fin'[r].state \in Over
                    /\ td'[r] # "done" => st'[r] \notin Over
                    /\ td'[r] = "done" => st'[r] = fin'[r].state
                    /\ fin'[r].state = "completed" /\ td'[r] # "done" => st'[r] = "generating_report"
  BY DEF EndOrder, Finishing, Completed
<1>old. /\ td[r] # "open" => fin[r] # NoFin
        /\ fin[r] # NoFin => fin[r].state \in Over
        /\ td[r] # "done" => st[r] \notin Over
        /\ td[r] = "done" => st[r] = fin[r].state
        /\ fin[r].state = "completed" /\ td[r] # "done" => st[r] = "generating_report"
  BY DEF EndOrder, Finishing, Completed
<1>type. st[r] \in PeerState /\ td[r] \in {"open", "closed", "done"} /\ NoFin.state = "none"
  BY DEF TypeOK, NoFin
<1>fin. fin'[r] = fin[r] \/ (fin[r] = NoFin /\ Decides(r))
  BY FinStep
<1>1. CASE st'[r] = st[r] /\ fin'[r] = fin[r] /\ td'[r] = td[r]
  BY <1>1, <1>old
<1>2. CASE fin[r] = NoFin /\ td'[r] = td[r] /\ Advances(r)
  <2>1. td[r] = "open" /\ st[r] \notin Over
    BY <1>2, <1>old
  <2>2. st'[r] \notin Over
    BY <1>2, <2>1 DEF Advances, Early, Over, Stop
  <2>3. CASE fin'[r] = fin[r]
    BY <1>2, <1>type, <2>1, <2>2, <2>3
  <2>4. CASE Decides(r) /\ fin'[r] # fin[r]
    <3>1. fin'[r].state \in Over
      BY <2>4 DEF Decides, Over, Stop
    <3>2. fin'[r].state = "completed" => st'[r] = "generating_report"
      <4>1. CASE r = "PC1"
        <5>1. fin'[r].state = "completed" => st[r] = "generating_report"
          BY <2>1, <2>4, <4>1 DEF Decides, PlanInState, Stop
        <5>2. QED BY <1>2, <5>1 DEF Advances, Waiting, Early
      <4>2. CASE r = "PC2"
        BY <2>4, <4>2, GotoForward DEF Decides, Stop, Transition, validTransitions, Forward, PeerState
      <4>3. QED BY <4>1, <4>2 DEF Role
    <3>3. QED BY <1>2, <1>type, <2>1, <2>2, <2>4, <3>1, <3>2
  <2>5. QED BY <1>fin, <2>3, <2>4
<1>3. CASE /\ td[r] = "open" /\ td'[r] = "closed" /\ fin[r] # NoFin
           /\ st'[r] = st[r] /\ fin'[r] = fin[r]
  BY <1>3, <1>old
<1>4. CASE /\ td[r] = "closed" /\ td'[r] = "done" /\ fin'[r] = fin[r]
           /\ st'[r] = Transition(st[r], fin[r].state)
  <2>1. Transition(st[r], fin[r].state) = fin[r].state
    <3>1. CASE fin[r].state = "completed"
      BY <1>4, <1>old, <3>1, GotoForward
    <3>2. CASE fin[r].state \in Stop
      BY <1>4, <1>old, <1>type, <3>2, GotoForward
    <3>3. QED BY <1>4, <1>old, <3>1, <3>2 DEF Over
  <2>2. QED BY <1>4, <1>old, <2>1
<1>5. CASE /\ r = "PC2" /\ st[r] = "handshake" /\ fin[r] = NoFin
           /\ td'[r] = "done" /\ fin'[r] # NoFin
           /\ st'[r] \in Stop /\ st'[r] = fin'[r].state
  BY <1>5 DEF Over
<1>6. QED BY <1>1, <1>2, <1>3, <1>4, <1>5, LifeStep DEF LifeOf

\* Both parts hold in every reachable state.
LEMMA EndOrderCorrect == Spec => [](PlanInState /\ EndOrder)
<1>1. Init => PlanInState /\ EndOrder
  BY DEF Init, PlanInState, EndOrder, Finishing, Completed, NoFin, Role, Over, Stop
<1>2. TypeOK /\ PlanInState /\ EndOrder /\ [Next]_vars => PlanInState' /\ EndOrder'
  BY PlanInStateStep, EndOrderStep
<1>3. QED BY <1>1, <1>2, TypeCorrect, PTL DEF Spec

\* Whatever ends a session, and whenever it does, the state machine accepts
\* the last transition: a process that has returned reports the outcome its
\* loop decided on (shutdown, StateMachine.Transition).
THEOREM FinalStateCorrect == Spec => []FinalStateEntered
<1>1. EndOrder => FinalStateEntered
  BY DEF EndOrder, FinalStateEntered
<1>2. QED BY <1>1, EndOrderCorrect, PTL

\* The worker's loop takes a request that it does not refuse.
TakesRequest ==
  /\ Running("PC2") /\ wire["PC2"] # <<>> /\ carrier = "up" /\ st["PC2"] = "testing"
  /\ HandleTestRequest("PC2", Oldest("PC2"), Rest("PC2"))

\* The worker's executor and window have few writers.
LEMMA WorkerWriters ==
  ASSUME TypeOK, [Next]_vars
  PROVE  \/ UNCHANGED <<op, window, marked, ran>>
         \/ OpFinishes \/ HandleOpDone \/ TakesRequest \/ Teardown("PC2")
<1> USE DEF execVars
<1>1. ASSUME NEW r \in Role, HandleFrame(r)
      PROVE  UNCHANGED <<op, window, marked, ran>> \/ TakesRequest
  <2>1. CASE HandleTestRequest(r, Oldest(r), Rest(r))
    BY <1>1, <2>1 DEF HandleFrame, HandleTestRequest, RefusesRequest, TakesRequest
  <2>2. CASE ~HandleTestRequest(r, Oldest(r), Rest(r))
    BY <1>1, <2>2 DEF HandleFrame, HandlePeerReady, HandleStartConfirmation, Oldest, Rest,
       HandleTestResult, HandleWarning, HandlePeerAbort, HandleReportManifest,
       HandleTransferFrame, HandleComplete
  <2>3. QED BY <2>1, <2>2
<1>2. ASSUME NEW r \in Role,
             \/ Launch(r) \/ StartCommand(r) \/ QuitCommand(r) \/ CtrlC(r) \/ HandleConnErr(r)
             \/ HandleInterrupt(r) \/ Exit(r) \/ OnCountdownGo(r) \/ HandleTransferDone(r)
      PROVE  UNCHANGED <<op, window, marked, ran>>
  BY <1>2 DEF Launch, StartCommand, QuitCommand, CtrlC, HandleConnErr, HandleInterrupt, Exit,
     OnCountdownGo, HandleTransferDone
<1>3. ASSUME \/ HandleCallExpired \/ HandlePlanDone \/ LinkCut \/ CarrierDrops \/ CarrierReturns
             \/ HandshakeReject \/ PlanStep \/ BudgetExpires
      PROVE  UNCHANGED <<op, window, marked, ran>>
  BY <1>3 DEF HandleCallExpired, HandlePlanDone, LinkCut, CarrierDrops, CarrierReturns,
     HandshakeReject, PlanStep, PlanCall, PlanBaseEnds, PlanBoundary, CallReturns,
     CableWindowStart, CableTestReturns, CableWindowEnd, BudgetExpires, PlanFrame
<1>4. ASSUME SenderStep \/ ReceiverStep PROVE UNCHANGED <<op, window, marked, ran>>
  BY <1>4 DEF SenderStep, SenderWrites, SenderEnds, ReceiverStep, ReceiverTakes, ReceiverStops,
     XferFrame
<1>5. ASSUME NEW r \in Role, Teardown(r)
      PROVE  UNCHANGED <<op, window, marked, ran>> \/ Teardown("PC2")
  BY <1>5 DEF Teardown, ReleaseWindow, Role
<1>6. ASSUME UNCHANGED vars PROVE UNCHANGED <<op, window, marked, ran>>
  BY <1>6 DEF vars
<1>7. QED BY <1>1, <1>2, <1>3, <1>4, <1>5, <1>6 DEF Next, Loop, Finished

\* The worker has passed GO.
Past == st["PC2"] \notin Early

\* GO is never taken back.
LEMMA PastStep == ASSUME TypeOK, [Next]_vars, Past PROVE Past'
<1>1. LifeOf("PC2") /\ st["PC2"] \in PeerState
  BY LifeStep DEF Role, TypeOK
<1>2. QED BY <1>1, EarlyTransition DEF LifeOf, Advances, Past, Waiting, Early, Stop

\* Events are annotated only past GO and before the connection is closed.
MarkedWhileOpen == marked => Past /\ td["PC2"] = "open"

\* That is preserved.
LEMMA MarkedStep ==
  ASSUME TypeOK, [Next]_vars, EndOrder, MarkedWhileOpen
  PROVE  MarkedWhileOpen'
<1>type. "PC2" \in Role BY DEF Role
<1>bool. marked \in BOOLEAN /\ marked' \in BOOLEAN
  BY TypeStep DEF TypeOK
<1>1. CASE Teardown("PC2")
  BY <1>1 DEF Teardown, ReleaseWindow, MarkedWhileOpen
<1>2. CASE TakesRequest
  <2>1. td["PC2"] = "open" /\ Past /\ UNCHANGED td
    BY <1>2, <1>type DEF TakesRequest, Running, EndOrder, Finishing, HandleTestRequest, Past, Early
  <2>2. QED BY <2>1, PastStep DEF MarkedWhileOpen
<1>3. CASE ~Teardown("PC2") /\ (marked' => marked)
  <2>1. SUFFICES ASSUME marked' PROVE Past' /\ td'["PC2"] = "open"
    BY DEF MarkedWhileOpen
  <2>2. Past /\ td["PC2"] = "open"
    BY <1>3, <2>1 DEF MarkedWhileOpen
  <2>3. td'["PC2"] = "open"
    BY <1>3, <1>type, <2>2, LifeStep DEF LifeOf, Past, Early
  <2>4. QED BY <2>2, <2>3, PastStep
<1>4. QED
  <2>1. ASSUME HandleOpDone PROVE marked' => marked
    BY <2>1, <1>bool DEF HandleOpDone
  <2>2. ASSUME OpFinishes PROVE marked' => marked
    BY <2>2 DEF OpFinishes
  <2>3. QED BY <1>1, <1>2, <1>3, <2>1, <2>2, WorkerWriters

\* Whatever ends the session (a complete, a farewell, a lost connection, an
\* interrupt inside the window), PC2's link monitor is not left annotating
\* later events as self-inflicted (shutdown, cableWindowActive).
THEOREM WindowReleasedCorrect == Spec => []WindowReleased
<1>1. Init => MarkedWhileOpen
  BY DEF Init, MarkedWhileOpen
<1>2. TypeOK /\ EndOrder /\ MarkedWhileOpen /\ [Next]_vars => MarkedWhileOpen'
  BY MarkedStep
<1>3. MarkedWhileOpen => WindowReleased
  BY DEF MarkedWhileOpen, WindowReleased
<1>4. QED BY <1>1, <1>2, <1>3, TypeCorrect, EndOrderCorrect, PTL DEF Spec

-----------------------------------------------------------------------------
(* What the plan driver does, field by field                               *)

\* Both connections and the link are open: a write arrives.
Live == link = "up" /\ td["PC1"] = "open" /\ td["PC2"] = "open"

\* Where the plan stands when it is about to request o.
PcOf(o) == IF o \in BaseOps THEN "base" ELSE IF o = "snapshot" THEN "boundary"
           ELSE IF o = "window_start" THEN "window" ELSE "end"

\* The plan driver writes the request m and waits for its answer.
Issues(m) ==
  /\ PlanStep /\ plan.pc = PcOf(m.arg) /\ m.arg \in Op
  /\ m.id = plan.calls + 1
  /\ plan' = [plan EXCEPT !.pc = "call", !.calls = plan.calls + 1]
  /\ call' = [id |-> m.id, op |-> m.arg, armed |-> m.arg # "snapshot", reply |-> "none"]
  /\ idle' = IF m.arg = "window_start" THEN [idle EXCEPT !["PC1"] = "wide"] ELSE idle
  /\ UNCHANGED expired

\* What the outcome of a request for o makes of the plan.
Resolved(o, out) ==
  /\ plan'.calls = plan.calls /\ plan'.spent = plan.spent
  /\ \/ /\ o \in BaseOps /\ out \in {"ok", "unavailable"}
        /\ plan'.pc = "base" /\ plan'.err = plan.err /\ plan'.answered = plan.answered + 1
     \/ /\ o \in BaseOps /\ out \notin {"ok", "unavailable"}
        /\ plan'.pc = "boundary" /\ plan'.answered = plan.answered
        /\ plan'.err = IF out = "cancel" THEN BudgetErr ELSE "error"
     \/ /\ o = "snapshot" /\ plan'.answered = plan.answered /\ plan'.err = BoundaryErr(out)
        /\ plan'.pc = IF plan'.err = "nil" /\ Cable THEN "window" ELSE "returned"
     \/ /\ o = "window_start" /\ plan'.answered = plan.answered /\ plan'.err = plan.err
        /\ plan'.pc = IF out = "ok" THEN "tdr" ELSE "returned"
     \/ /\ o = "window_end" /\ plan'.answered = plan.answered /\ plan'.err = plan.err
        /\ plan'.pc = "returned"
  /\ idle' = IF plan'.pc = "returned" THEN [idle EXCEPT !["PC1"] = "normal"] ELSE idle

\* A request for o that is never written.
Skips(o, out) ==
  /\ PlanStep /\ o \in Op /\ plan.pc = PcOf(o)
  /\ Resolved(o, out) /\ UNCHANGED <<call, expired, wire>>
  /\ \/ out = "cancel" /\ (td["PC1"] # "open" \/ CtxDone("PC1"))
     \/ out = "failed" /\ (o = "snapshot" \/ ~Live)

\* The request in flight comes back.
Returns(out) ==
  /\ PlanStep /\ plan.pc = "call" /\ call' = NoCall /\ Resolved(call.op, out) /\ UNCHANGED wire
  /\ \/ out = call.reply /\ out # "none" /\ UNCHANGED expired
     \/ /\ out = "cancel" /\ UNCHANGED expired
        /\ CtxDone("PC1") \/ (plan.spent /\ call.op \in BaseOps)
     \/ out = "failed" /\ (call.armed => expired' \/ CtxDone("PC1")) /\ (expired => expired')

\* PlanAfter does what Resolved says.
LEMMA ResolvedByPlanAfter ==
  ASSUME TypeOK, NEW o \in Op, NEW out \in Status \cup {"cancel"}, PlanGoes(PlanAfter(o, out))
  PROVE  Resolved(o, out)
<1>plan. plan \in Plan /\ plan.err \in PlanErr /\ plan' = PlanAfter(o, out)
  BY DEF TypeOK, Plan, PlanGoes
<1>idle. idle' = IF plan'.pc = "returned" THEN [idle EXCEPT !["PC1"] = "normal"] ELSE idle
  BY DEF PlanGoes
<1>2. CASE o \in BaseOps
  <2>1. PlanAfter(o, out) = IF out \in {"ok", "unavailable"}
         THEN [plan EXCEPT !.pc = "base", !.answered = @ + 1]
         ELSE BaseEnds(IF out = "cancel" THEN BudgetErr ELSE "error")
    BY <1>2, OpsAssumption DEF PlanAfter
  <2>2. CASE out \in {"ok", "unavailable"}
    <3> DEFINE a == plan.answered + 1
    <3>1. plan' = [plan EXCEPT !.pc = "base", !.answered = a]
      BY <1>plan, <2>1, <2>2
    <3> HIDE DEF a
    <3>2. plan'.calls = plan.calls /\ plan'.spent = plan.spent /\ plan'.pc = "base"
          /\ plan'.err = plan.err /\ plan'.answered = a
      BY <1>plan, <3>1 DEF Plan
    <3>3. QED BY <1>2, <1>idle, <2>2, <3>2 DEF Resolved, a
  <2>3. CASE out \notin {"ok", "unavailable"}
    <3> DEFINE e == IF out = "cancel" THEN BudgetErr ELSE "error"
    <3>1. plan' = [plan EXCEPT !.pc = "boundary", !.err = e]
      BY <1>plan, <2>1, <2>3 DEF BaseEnds
    <3> HIDE DEF e
    <3>2. plan'.calls = plan.calls /\ plan'.spent = plan.spent /\ plan'.pc = "boundary"
          /\ plan'.err = e /\ plan'.answered = plan.answered
      BY <1>plan, <3>1 DEF Plan
    <3>3. QED BY <1>2, <1>idle, <2>3, <3>2 DEF Resolved, e
  <2>4. QED BY <2>2, <2>3
<1>3. CASE o = "snapshot"
  <2> DEFINE e == BoundaryErr(out)
             p == [plan EXCEPT !.err = e]
  <2>1. plan' = AfterBase(p)
    BY <1>plan, <1>3, OpsAssumption DEF PlanAfter
  <2> HIDE DEF e
  <2>2. p \in [pc : PlanPC, err : {e}, calls : Nat, answered : Nat, spent : BOOLEAN]
        /\ p.calls = plan.calls /\ p.spent = plan.spent /\ p.answered = plan.answered /\ p.err = e
    BY <1>plan DEF Plan
  <2> HIDE DEF p
  <2>3. plan'.calls = plan.calls /\ plan'.spent = plan.spent
        /\ plan'.err = e /\ plan'.answered = plan.answered
        /\ plan'.pc = IF e = "nil" /\ Cable THEN "window" ELSE "returned"
    BY <2>1, <2>2 DEF AfterBase
  <2>4. QED BY <1>3, <1>idle, <2>3 DEF Resolved, e
<1>4. CASE o \in {"window_start", "window_end"}
  <2> DEFINE c == IF o = "window_start" /\ out = "ok" THEN "tdr" ELSE "returned"
  <2>1. plan' = [plan EXCEPT !.pc = c]
    BY <1>plan, <1>4, OpsAssumption DEF PlanAfter
  <2> HIDE DEF c
  <2>2. plan'.calls = plan.calls /\ plan'.spent = plan.spent /\ plan'.err = plan.err
        /\ plan'.answered = plan.answered /\ plan'.pc = c
    BY <1>plan, <2>1 DEF Plan
  <2>3. QED BY <1>4, <1>idle, <2>2 DEF Resolved, c
<1>6. QED BY <1>2, <1>3, <1>4 DEF Op

\* Issuing an RPC writes it, or ends it with an outcome.
LEMMA IssueCallMoves ==
  ASSUME TypeOK, NEW o \in Op, NEW a \in BOOLEAN, a = (o # "snapshot"), IssueCall(o, a), PlanStep,
         UNCHANGED expired, plan.pc = PcOf(o)
  PROVE  \/ \E m \in Frame : m.type = "test_request" /\ Issues(m) /\ wire' = Put(wire, "PC1", m)
         \/ \E out \in {"cancel", "failed"} : Skips(o, out)
<1>1. CASE /\ td["PC1"] # "open" \/ CtxDone("PC1")
           /\ PlanGoes(PlanAfter(o, "cancel")) /\ UNCHANGED <<call, wire>>
  <2>1. Resolved(o, "cancel")
    BY <1>1, ResolvedByPlanAfter
  <2>2. QED BY <1>1, <2>1 DEF Skips
<1>2. CASE /\ ~Live
           /\ PlanGoes(PlanAfter(o, "failed")) /\ UNCHANGED <<call, wire>>
  <2>1. Resolved(o, "failed")
    BY <1>2, ResolvedByPlanAfter DEF Status
  <2>2. QED BY <1>2, <2>1 DEF Skips
<1>3. CASE LET id == plan.calls + 1 IN
              /\ call' = [id |-> id, op |-> o, armed |-> a, reply |-> "none"]
              /\ wire' = Put(wire, "PC1", Msg("test_request", id, o))
              /\ plan' = [plan EXCEPT !.pc = "call", !.calls = id]
              /\ idle' = IF o = "window_start"
                         THEN [idle EXCEPT !["PC1"] = "wide"] ELSE idle
  <2> DEFINE m == Msg("test_request", plan.calls + 1, o)
  <2>1. plan.calls + 1 \in Nat
    BY DEF TypeOK, Plan
  <2>2. m \in Frame /\ m.id = plan.calls + 1 /\ m.arg = o /\ m.type = "test_request"
    BY <2>1, MsgType DEF FrameType, ArgOf, Msg
  <2>3. Issues(m)
    <3>1. call' = [id |-> m.id, op |-> m.arg, armed |-> m.arg # "snapshot", reply |-> "none"]
      BY <1>3, <2>2
    <3>2. idle' = IF m.arg = "window_start" THEN [idle EXCEPT !["PC1"] = "wide"] ELSE idle
      BY <1>3, <2>2
    <3>3. plan' = [plan EXCEPT !.pc = "call", !.calls = plan.calls + 1]
      BY <1>3
    <3> HIDE DEF m
    <3>4. QED BY <2>2, <3>1, <3>2, <3>3 DEF Issues
  <2>4. QED BY <1>3, <2>2, <2>3
<1>4. QED
  <2>1. ~Live \/ WriteOutcomes("PC1") = {TRUE}
    BY DEF Live, WriteOutcomes, Peer
  <2>2. QED BY <1>1, <1>2, <1>3, <2>1 DEF IssueCall

\* The plan leaves its base part, the boundary, or the cable diagnostic
\* without a request.
GoesOnIdle ==
  idle' = IF plan'.pc = "returned" THEN [idle EXCEPT !["PC1"] = "normal"] ELSE idle
MovesOn(c, e) ==
  /\ PlanStep /\ plan'.pc = c /\ plan'.err = e /\ plan'.calls = plan.calls
  /\ plan'.answered = plan.answered /\ plan'.spent = plan.spent
  /\ GoesOnIdle /\ UNCHANGED <<call, expired, wire>>
EndsBase(e) ==
  /\ plan.pc = "base" /\ MovesOn("boundary", e)
  /\ e = "nil" => plan.answered > 0
EndsBoundary ==
  /\ plan.pc = "boundary" /\ ~Soak
  /\ MovesOn(IF plan.err = "nil" /\ Cable THEN "window" ELSE "returned", plan.err)
EndsTest ==
  /\ plan.pc = "tdr"
  /\ MovesOn("end", plan.err) \/ MovesOn("returned", "error") \/ MovesOn("returned", "cancel")

\* Those are all the steps of the plan driver.
LEMMA PlanMoves ==
  ASSUME TypeOK, PlanStep
  PROVE  \/ \E m \in Frame : m.type = "test_request" /\ Issues(m) /\ wire' = Put(wire, "PC1", m)
         \/ \E o \in Op, out \in {"cancel", "failed"} : Skips(o, out)
         \/ \E out \in Status \cup {"cancel"} : Returns(out)
         \/ \E e \in PlanErr : EndsBase(e)
         \/ EndsBoundary \/ EndsTest
<1>plan. plan \in Plan /\ plan.err \in PlanErr /\ plan.answered \in Nat /\ plan.calls \in Nat
         /\ call \in Call /\ call.op \in Op /\ call.reply \in Status \cup {"none"}
  BY DEF TypeOK, Plan, Call
<1>ops. BaseOps \subseteq Op /\ {"snapshot", "window_start", "window_end"} \subseteq Op
        /\ {"snapshot", "window_start", "window_end"} \cap BaseOps = {}
  BY OpsAssumption DEF Op
<1>set. ASSUME NEW c \in PlanPC, NEW e \in PlanErr, PlanGoes([plan EXCEPT !.pc = c, !.err = e]),
               UNCHANGED <<call, expired, wire>>
        PROVE  MovesOn(c, e)
  <2>1. plan' = [plan EXCEPT !.pc = c, !.err = e]
    BY <1>set DEF PlanGoes
  <2>2. plan'.pc = c /\ plan'.err = e /\ plan'.calls = plan.calls
        /\ plan'.answered = plan.answered /\ plan'.spent = plan.spent
    BY <1>plan, <2>1 DEF Plan
  <2>3. GoesOnIdle
    BY <1>set, <2>1 DEF PlanGoes, GoesOnIdle
  <2>4. QED BY <1>set, <2>2, <2>3 DEF MovesOn
<1>pc. ASSUME NEW c \in PlanPC, PlanGoes([plan EXCEPT !.pc = c]), UNCHANGED <<call, expired, wire>>
       PROVE  MovesOn(c, plan.err)
  <2>1. [plan EXCEPT !.pc = c] = [plan EXCEPT !.pc = c, !.err = plan.err]
    BY <1>plan DEF Plan
  <2>2. QED BY <1>pc, <1>plan, <1>set, <2>1
<1>1. CASE PlanCall
  <2>1. PICK o \in BaseOps : IssueCall(o, TRUE)
    BY <1>1 DEF PlanCall
  <2>2. o \in Op /\ o # "snapshot" /\ plan.pc = PcOf(o) /\ UNCHANGED expired
    BY <1>1, <1>ops DEF PlanCall, PcOf
  <2>3. QED BY <2>1, <2>2, IssueCallMoves
<1>2. CASE PlanBoundary
  <2>1. CASE IssueCall("snapshot", FALSE)
    <3>1. plan.pc = PcOf("snapshot") /\ UNCHANGED expired
      BY <1>2, <1>ops DEF PlanBoundary, PcOf
    <3>2. QED BY <1>ops, <2>1, <3>1, IssueCallMoves
  <2>2. CASE PlanGoes(PlanAfter("snapshot", "failed")) /\ UNCHANGED <<call, wire>>
    <3>1. plan.pc = PcOf("snapshot") /\ UNCHANGED expired
      BY <1>2, <1>ops DEF PlanBoundary, PcOf
    <3>2. Resolved("snapshot", "failed")
      BY <1>ops, <2>2, ResolvedByPlanAfter DEF Status
    <3>3. QED BY <1>ops, <2>2, <3>1, <3>2 DEF Skips
  <2>3. CASE ~Soak /\ PlanGoes(AfterBase(plan)) /\ UNCHANGED <<call, wire>>
    BY <1>2, <1>pc, <2>3 DEF PlanBoundary, AfterBase, EndsBoundary, PlanPC
  <2>4. QED BY <1>2, <2>1, <2>2, <2>3 DEF PlanBoundary
<1>3. CASE CableWindowStart \/ CableWindowEnd
  <2>1. PICK o \in {"window_start", "window_end"} : IssueCall(o, TRUE) /\ plan.pc = PcOf(o)
    BY <1>3, <1>ops DEF CableWindowStart, CableWindowEnd, PcOf
  <2>2. o \in Op /\ UNCHANGED expired /\ o # "snapshot"
    BY <1>3, <1>ops, <2>1 DEF CableWindowStart, CableWindowEnd
  <2>3. QED BY <2>1, <2>2, IssueCallMoves
<1>4. CASE PlanBaseEnds
  <2>1. PICK e \in PlanErr : (e = "nil" => BaseMaySucceed) /\ PlanGoes(BaseEnds(e))
    BY <1>4 DEF PlanBaseEnds
  <2>2. MovesOn("boundary", e)
    BY <1>4, <1>set, <2>1 DEF PlanBaseEnds, BaseEnds, PlanPC
  <2>3. e = "nil" => plan.answered > 0
    BY <1>plan, <2>1, BoundsAssumption DEF BaseMaySucceed
  <2>4. QED BY <1>4, <2>2, <2>3 DEF EndsBase, PlanBaseEnds
<1>5. CASE CableTestReturns
  <2>1. CASE PlanGoes([plan EXCEPT !.pc = "end"])
    BY <1>5, <1>pc, <2>1 DEF CableTestReturns, EndsTest, PlanPC
  <2>2. ASSUME NEW e \in {"error", "cancel"}, PlanGoes([plan EXCEPT !.pc = "returned", !.err = e])
        PROVE  EndsTest
    BY <1>5, <1>set, <2>2 DEF CableTestReturns, EndsTest, PlanPC, PlanErr
  <2>3. QED BY <1>5, <2>1, <2>2 DEF CableTestReturns
<1>6. CASE CallReturns
  <2>1. plan.pc = "call" /\ call' = NoCall /\ UNCHANGED wire
    BY <1>6 DEF CallReturns
  <2>2. CASE call.reply # "none" /\ PlanGoes(PlanAfter(call.op, call.reply)) /\ UNCHANGED expired
    <3>1. Resolved(call.op, call.reply)
      BY <1>plan, <2>2, ResolvedByPlanAfter
    <3>2. QED BY <1>plan, <2>1, <2>2, <3>1 DEF Returns
  <2>3. CASE /\ CtxDone("PC1") \/ (plan.spent /\ call.op \in BaseOps)
             /\ PlanGoes(PlanAfter(call.op, "cancel")) /\ UNCHANGED expired
    <3>1. Resolved(call.op, "cancel")
      BY <1>plan, <2>3, ResolvedByPlanAfter
    <3>2. QED BY <1>plan, <2>1, <2>3, <3>1 DEF Returns
  <2>4. CASE /\ PlanGoes(PlanAfter(call.op, "failed"))
             /\ \E e \in {call.armed} \cup (IF CtxDone("PC1") THEN {FALSE} ELSE {}) :
                  expired' = (expired \/ e)
    <3>1. Resolved(call.op, "failed")
      BY <1>plan, <2>4, ResolvedByPlanAfter DEF Status
    <3>2. (call.armed => expired' \/ CtxDone("PC1")) /\ (expired => expired')
      BY <2>4
    <3>3. QED BY <1>plan, <2>1, <3>1, <3>2 DEF Returns, Status
  <2>5. QED BY <1>6, <2>2, <2>3, <2>4 DEF CallReturns
<1>7. QED BY <1>1, <1>2, <1>3, <1>4, <1>5, <1>6 DEF PlanStep

-----------------------------------------------------------------------------
(* What happens to the wires, frame by frame                               *)

\* The worker's loop takes a manifest.
TakesManifest ==
  /\ Running("PC2") /\ wire["PC2"] # <<>> /\ carrier = "up"
  /\ HandleReportManifest("PC2", Oldest("PC2"), Rest("PC2"))

\* Who writes the frame m to q, and when.
Sends(q, m) ==
  \/ m.type = "ready" /\ localReady'[Peer(q)] /\ st[Peer(q)] \in Waiting
  \/ /\ m.type = "start_confirmation" /\ q = "PC2"
     /\ st["PC1"] \in Waiting /\ st'["PC1"] = "ready" /\ peerReady'["PC1"]
  \/ m.type = "test_request" /\ q = "PC2" /\ Issues(m)
  \/ /\ m.type = "test_result" /\ q = "PC1"
     /\ \/ HandleOpDone /\ m.id = op.id /\ m.arg = op.status
        \/ TakesRequest /\ m.id = Oldest("PC2").id /\ UNCHANGED <<op, window, marked>>
           /\ IF Oldest("PC2").arg = "cancel" THEN m.arg = "ok" ELSE m.arg = "rejected"
  \/ /\ m.type = "warning"
     /\ strikes'[Peer(q)] = strikes[Peer(q)] + 1 \/ HandleTransferDone(Peer(q))
  \/ m.type = "report" /\ q = "PC2" /\ SenderWrites /\ sender.pc = "manifest"
  \/ m.type = "report_chunk" /\ q = "PC2" /\ SenderWrites /\ sender.pc = "stream"
  \/ /\ m.type = "report_ack" /\ q = "PC1"
     /\ \/ ReceiverTakes /\ receiver' # "recv"
        \/ TakesManifest /\ ~HasReceiver /\ xRan'["PC2"]
  \/ /\ m.type = "complete"
     /\ \/ q = "PC2" /\ HandlePlanDone /\ plan.err = "nil" /\ sentComplete'
        \/ q = "PC2" /\ HandleTransferDone("PC1") /\ sentComplete'
        \/ q = "PC1" /\ TakesComplete("PC2")
  \/ m.type = "abort" /\ (Teardown(Peer(q)) \/ (HandshakeReject /\ q = "PC1"))

\* How the wire of q may change.
WireOf(q) ==
  \/ wire'[q] = wire[q]
  \/ wire[q] # <<>> /\ wire'[q] = Tail(wire[q]) /\ HandleFrame(q)
  \/ wire'[q] = <<>> /\ td'[q] # "open"
  \/ LinkCut /\ \E n \in 0..Len(wire[q]) : wire'[q] = SubSeq(wire[q], 1, n)
  \/ /\ Live
     /\ \E m \in Frame :
          /\ wire'[q] = Append(wire[q], m) /\ Sends(q, m)
          /\ m.type = "start_confirmation" => st["PC1"] = "waiting_for_peer_start"
  \/ /\ Live
     /\ \E m, n \in Frame : /\ wire'[q] = Append(Append(wire[q], m), n)
                            /\ Sends(q, m) /\ Sends(q, n)
                            /\ \/ m.type = "ready" /\ n.type = "start_confirmation"
                               \/ m.type = "warning" /\ n.type = "complete"

\* Where a write arrives.
LEMMA PutAt ==
  ASSUME NEW w \in [Role -> Seq(Frame)], NEW r \in Role, NEW m \in Frame, NEW q \in Role
  PROVE  \/ Put(w, r, m)[q] = w[q] /\ (q = r \/ ~Live)
         \/ q = Peer(r) /\ Live /\ Put(w, r, m)[q] = Append(w[q], m)
BY PeerType DEF Put, Live, Role, Peer

\* Dispatching a frame.
LEMMA FrameWire ==
  ASSUME TypeOK, NEW r \in Role, HandleFrame(r), NEW q \in Role
  PROVE  WireOf(q)
<1> DEFINE f == Oldest(r)
           w == Rest(r)
<1>type. /\ f \in Frame /\ w \in [Role -> Seq(Frame)] /\ wire \in [Role -> Seq(Frame)]
         /\ f.id \in Nat /\ f.arg \in ArgOf(f.type)
  BY RestType DEF HandleFrame, TypeOK, Oldest, Rest, Frame
<1>rest. /\ w[r] = Tail(wire[r]) /\ wire[r] # <<>>
         /\ q # r => w[q] = wire[q]
  BY <1>type DEF HandleFrame, TypeOK, Rest
<1>peer. Peer(r) \in Role /\ (q = r \/ q = Peer(r)) /\ r # Peer(r) /\ Peer(Peer(r)) = r
  BY DEF Role, Peer
<1>keep. ASSUME wire' = w PROVE WireOf(q)
  BY <1>keep, <1>rest DEF WireOf
<1>put. ASSUME NEW t \in FrameType, NEW i \in Nat, NEW a \in ArgOf(t),
               wire' = Put(w, r, Msg(t, i, a)), Sends(Peer(r), Msg(t, i, a)),
               t = "start_confirmation" => st["PC1"] = "waiting_for_peer_start"
        PROVE  WireOf(q)
  <2> DEFINE m == Msg(t, i, a)
  <2>1. m \in Frame /\ m.type = t
    BY MsgType DEF Msg
  <2>3. wire' = Put(w, r, m) /\ Sends(Peer(r), m)
    BY <1>put
  <2> HIDE DEF m
  <2>2. \/ wire'[q] = w[q]
        \/ q = Peer(r) /\ Live /\ wire'[q] = Append(w[q], m)
    <3>1. \/ Put(w, r, m)[q] = w[q]
          \/ q = Peer(r) /\ Live /\ Put(w, r, m)[q] = Append(w[q], m)
      <4>1. w \in [Role -> Seq(Frame)] /\ m \in Frame
        BY <1>type, <2>1
      <4> HIDE DEF w
      <4>2. QED BY <4>1, PutAt
    <3>2. QED BY <2>3, <3>1
  <2>4. CASE q = r
    BY <1>rest, <1>peer, <2>2, <2>4 DEF WireOf
  <2>5. CASE q # r
    BY <1>put, <1>rest, <1>peer, <2>1, <2>2, <2>3, <2>5 DEF WireOf
  <2>6. QED BY <2>4, <2>5
<1>warn. ASSUME WarnInvalidState(r, w) PROVE WireOf(q)
  <2>1. strikes'[r] = strikes[r] + 1 /\ wire' = Put(w, r, Msg("warning", 0, "none"))
    BY <1>warn DEF WarnInvalidState, TypeOK
  <2>2. Sends(Peer(r), Msg("warning", 0, "none"))
    BY <1>peer, <2>1 DEF Sends, Msg
  <2>3. QED BY <1>put, <2>1, <2>2 DEF FrameType, ArgOf
<1>frame. \/ HandlePeerReady(r, f, w) \/ HandleStartConfirmation(r, f, w)
          \/ HandleTestRequest(r, f, w) \/ HandleTestResult(r, f, w) \/ HandleWarning(r, f, w)
          \/ HandlePeerAbort(r, f, w) \/ HandleReportManifest(r, f, w)
          \/ HandleTransferFrame(r, f, w) \/ HandleComplete(r, f, w)
  BY DEF HandleFrame, Oldest, Rest
<1>run. Running(r) /\ carrier = "up"
  BY DEF HandleFrame
<1>1. CASE HandlePeerReady(r, f, w)
  <2>1. CASE /\ st[r] = "waiting_for_peer_start" /\ Goto(r, "ready") /\ OnBothReady(r, w)
             /\ peerReady' = [peerReady EXCEPT ![r] = TRUE]
    <3> DEFINE c == Msg("start_confirmation", 0, "none")
    <3>1. CASE wire' = w
      BY <3>1, <1>keep
    <3>2. CASE r = "PC1" /\ wire' = Put(w, r, c)
      <4>1. st'["PC1"] = "ready" /\ st["PC1"] \in Waiting
        <5>1. Transition("waiting_for_peer_start", "ready") = "ready"
          BY DEF Transition, validTransitions, Forward, PeerState, Stop
        <5>2. QED BY <2>1, <3>2, <5>1 DEF Goto, TypeOK, Waiting, Early
      <4>2. peerReady'["PC1"]
        BY <2>1, <3>2 DEF TypeOK
      <4>3. Sends("PC2", c)
        BY <4>1, <4>2 DEF Sends, Msg
      <4>4. QED BY <1>put, <2>1, <3>2, <4>3 DEF FrameType, ArgOf, Peer
    <3>3. QED BY <2>1, <3>1, <3>2 DEF OnBothReady
  <2>2. QED BY <1>1, <1>keep, <1>warn, <2>1 DEF HandlePeerReady
<1>2. CASE HandleStartConfirmation(r, f, w)
  BY <1>2, <1>keep, <1>warn DEF HandleStartConfirmation
<1>3. CASE HandleTestRequest(r, f, w)
  <2>1. CASE RefusesRequest(r)
    BY <1>3, <1>warn, <2>1 DEF HandleTestRequest
  <2>2. CASE ~RefusesRequest(r)
    <3>1. r = "PC2" /\ TakesRequest
      BY <1>3, <1>rest, <1>run, <2>2 DEF RefusesRequest, TakesRequest
    <3>2. ASSUME NEW s \in {"ok", "rejected"}, wire' = Reply(w, f.id, s),
                 UNCHANGED <<op, window, marked>>,
                 IF f.arg = "cancel" THEN s = "ok" ELSE s = "rejected"
          PROVE  WireOf(q)
      <4>1. Sends("PC1", Msg("test_result", f.id, s))
        BY <3>1, <3>2 DEF Sends, Msg
      <4>2. QED BY <1>put, <1>type, <3>1, <3>2, <4>1 DEF Reply, FrameType, ArgOf, Status, Peer
    <3>3. \/ wire' = w
          \/ \E s \in {"ok", "rejected"} :
               /\ wire' = Reply(w, f.id, s) /\ UNCHANGED <<op, window, marked>>
               /\ IF f.arg = "cancel" THEN s = "ok" ELSE s = "rejected"
      <4> HIDE DEF f, w
      <4>1. QED BY <1>3, <2>2 DEF HandleTestRequest
    <3>4. QED BY <1>keep, <3>2, <3>3
  <2>3. QED BY <2>1, <2>2
<1>4. CASE HandleTestResult(r, f, w) \/ HandleWarning(r, f, w) \/ HandlePeerAbort(r, f, w)
  BY <1>4, <1>keep DEF HandleTestResult, HandleWarning, HandlePeerAbort
<1>5. CASE HandleReportManifest(r, f, w)
  <2>1. CASE r = "PC2" /\ ~HasReceiver /\ xRan' = RanAfterManifest(r)
             /\ wire' = Put(w, r, Msg("report_ack", 0, "declined"))
    <3>1. TakesManifest /\ xRan'["PC2"]
      BY <1>5, <1>rest, <1>run, <2>1 DEF TakesManifest, RanAfterManifest, TypeOK
    <3>2. Sends("PC1", Msg("report_ack", 0, "declined"))
      BY <2>1, <3>1 DEF Sends, Msg
    <3>3. QED BY <1>put, <2>1, <3>2 DEF FrameType, ArgOf, Peer
  <2>2. QED BY <1>5, <1>keep, <1>warn, <2>1 DEF HandleReportManifest
<1>6. CASE HandleTransferFrame(r, f, w)
  BY <1>6, <1>keep, <1>warn DEF HandleTransferFrame, RouteTransferFrame
<1>7. CASE HandleComplete(r, f, w)
  <2>1. CASE r = "PC2" /\ wire' = Put(w, r, Msg("complete", 0, "none"))
    <3>1. TakesComplete("PC2")
      BY <1>7, <1>rest, <1>run, <2>1 DEF TakesComplete, Oldest, Rest
    <3>2. Sends("PC1", Msg("complete", 0, "none"))
      BY <3>1 DEF Sends, Msg
    <3>3. QED BY <1>put, <2>1, <3>2 DEF FrameType, ArgOf, Peer
  <2>2. QED BY <1>7, <1>keep, <1>warn, <2>1 DEF HandleComplete
<1>8. QED BY <1>frame, <1>1, <1>2, <1>3, <1>4, <1>5, <1>6, <1>7

\* Announcing readiness, and with the peer ready also the start.
LEMMA SendLocalReadyWire ==
  ASSUME TypeOK, NEW r \in Role, st[r] \in Waiting, SendLocalReady(r, "waiting_for_local_start"),
         UNCHANGED peerReady, NEW q \in Role
  PROVE  WireOf(q)
<1> DEFINE m == Msg("ready", 0, "none")
           c == Msg("start_confirmation", 0, "none")
           w == Put(wire, r, m)
<1>type. /\ wire \in [Role -> Seq(Frame)] /\ m \in Frame /\ m.type = "ready"
         /\ c \in Frame /\ c.type = "start_confirmation" /\ st \in [Role -> PeerState]
         /\ localReady \in [Role -> BOOLEAN]
  BY MsgType DEF FrameType, ArgOf, Msg, TypeOK
<1>w. w \in [Role -> Seq(Frame)]
  BY <1>type, PutType
<1>peer. Peer(r) \in Role /\ (q = r \/ q = Peer(r)) /\ r # Peer(r) /\ Peer(Peer(r)) = r
         /\ Peer("PC1") = "PC2"
  BY DEF Role, Peer
<1>1. CASE wire' = wire
  BY <1>1 DEF WireOf
<1>2. CASE wire' # wire
  <2>1. localReady'[r]
    BY <1>2, <1>type DEF SendLocalReady
  <2>2. Sends(Peer(r), m)
    BY <1>peer, <1>type, <2>1 DEF Sends
  <2>3. \/ wire' = w
        \/ /\ wire' = Put(w, r, c) /\ r = "PC1" /\ peerReady[r]
           /\ st' = [st EXCEPT ![r] = Transition("waiting_for_local_start", "ready")]
    BY <1>2 DEF SendLocalReady, OnBothReady
  <2>4. \/ w[q] = wire[q] /\ (q = r \/ ~Live)
        \/ q = Peer(r) /\ Live /\ w[q] = Append(wire[q], m)
    <3> HIDE DEF m, w
    <3>1. QED BY <1>type, PutAt DEF w
  <2>5. \/ Put(w, r, c)[q] = w[q] /\ (q = r \/ ~Live)
        \/ q = Peer(r) /\ Live /\ Put(w, r, c)[q] = Append(w[q], c)
    <3>1. w \in [Role -> Seq(Frame)] /\ c \in Frame
      BY <1>type, <1>w
    <3> HIDE DEF c, w
    <3>2. QED BY <3>1, PutAt
  <2> HIDE DEF m, c, w
  <2>6. CASE wire' = w
    BY <1>type, <2>2, <2>4, <2>6 DEF WireOf
  <2>7. CASE /\ wire' = Put(w, r, c) /\ r = "PC1" /\ peerReady[r]
             /\ st' = [st EXCEPT ![r] = Transition("waiting_for_local_start", "ready")]
    <3>1. Transition("waiting_for_local_start", "ready") = "ready"
      BY DEF Transition, validTransitions, Forward, PeerState, Stop
    <3>2. Sends("PC2", c)
      BY <1>type, <2>7, <3>1 DEF Sends
    <3>3. CASE q = r \/ ~Live
      BY <1>peer, <2>4, <2>5, <2>7, <3>3 DEF WireOf
    <3>4. CASE q = Peer(r) /\ Live
      <4>1. wire'[q] = Append(Append(wire[q], m), c)
        BY <1>peer, <2>4, <2>5, <2>7, <3>4
      <4>2. QED BY <1>type, <1>peer, <2>2, <2>7, <3>2, <3>4, <4>1 DEF WireOf
    <3>5. QED BY <1>peer, <3>3, <3>4
  <2>8. QED BY <2>3, <2>6, <2>7
<1>3. QED BY <1>1, <1>2

\* Every step changes the wires in one of these ways.
LEMMA WireStep ==
  ASSUME TypeOK, [Next]_vars, NEW q \in Role
  PROVE  WireOf(q)
<1> USE DEF netVars
<1>wire. wire \in [Role -> Seq(Frame)] /\ "PC1" \in Role /\ "PC2" \in Role
         /\ Peer("PC1") = "PC2" /\ Peer("PC2") = "PC1"
  BY DEF TypeOK, Role, Peer
<1>same. ASSUME UNCHANGED wire PROVE WireOf(q)
  BY <1>same DEF WireOf
<1>put. ASSUME NEW t \in FrameType \ {"start_confirmation"}, NEW i \in Nat, NEW a \in ArgOf(t),
               NEW p \in Role, wire' = Put(wire, p, Msg(t, i, a)), Sends(Peer(p), Msg(t, i, a))
        PROVE  WireOf(q)
  <2> DEFINE m == Msg(t, i, a)
  <2>1. m \in Frame /\ m.type # "start_confirmation"
    BY MsgType DEF Msg
  <2>2. wire' = Put(wire, p, m) /\ Sends(Peer(p), m)
    BY <1>put
  <2> HIDE DEF m
  <2>3. \/ Put(wire, p, m)[q] = wire[q]
        \/ q = Peer(p) /\ Live /\ Put(wire, p, m)[q] = Append(wire[q], m)
    <3>1. wire \in [Role -> Seq(Frame)] /\ m \in Frame
      BY <1>wire, <2>1
    <3>2. QED BY <3>1, PutAt
  <2>4. QED BY <2>1, <2>2, <2>3 DEF WireOf
<1>1. ASSUME NEW r \in Role, Launch(r) \/ StartCommand(r) PROVE WireOf(q)
  <2>1. st[r] \in Waiting /\ UNCHANGED peerReady
    BY <1>1 DEF Launch, StartCommand, Waiting, Early
  <2>2. UNCHANGED wire \/ SendLocalReady(r, "waiting_for_local_start")
    BY <1>1, GotoForward DEF Launch, StartCommand
  <2>3. QED BY <1>same, <2>1, <2>2, SendLocalReadyWire
<1>2. ASSUME NEW r \in Role,
             \/ QuitCommand(r) \/ CtrlC(r) \/ OnCountdownGo(r) \/ HandleConnErr(r)
             \/ HandleInterrupt(r) \/ Exit(r)
      PROVE  WireOf(q)
  BY <1>2, <1>same
     DEF QuitCommand, CtrlC, OnCountdownGo, HandleConnErr, HandleInterrupt, Exit
<1>3. ASSUME NEW r \in Role, HandleFrame(r) PROVE WireOf(q)
  BY <1>3, FrameWire
<1>4. ASSUME HandleCallExpired \/ OpFinishes \/ ReceiverStops \/ SenderEnds PROVE WireOf(q)
  BY <1>4, <1>same DEF HandleCallExpired, OpFinishes, ReceiverStops, SenderEnds
<1>5. ASSUME HandleOpDone PROVE WireOf(q)
  <2>1. op.id \in Nat /\ op.status \in Status
    BY DEF TypeOK, ActiveOp
  <2>2. wire' = Put(wire, "PC2", Msg("test_result", op.id, op.status))
    BY <1>5 DEF HandleOpDone, Reply
  <2>3. Sends("PC1", Msg("test_result", op.id, op.status))
    BY <1>5 DEF Sends, Msg
  <2>4. QED BY <1>put, <1>wire, <2>1, <2>2, <2>3 DEF FrameType, ArgOf
<1>6. ASSUME PlanStep PROVE WireOf(q)
  <2>1. CASE UNCHANGED wire
    BY <2>1, <1>same
  <2>2. ASSUME NEW m \in Frame, m.type = "test_request", Issues(m), wire' = Put(wire, "PC1", m)
        PROVE  WireOf(q)
    <3>1. Sends("PC2", m)
      BY <2>2 DEF Sends
    <3>2. \/ Put(wire, "PC1", m)[q] = wire[q]
          \/ q = Peer("PC1") /\ Live /\ Put(wire, "PC1", m)[q] = Append(wire[q], m)
      BY <1>wire, PutAt
    <3>3. QED BY <1>wire, <2>2, <3>1, <3>2 DEF WireOf
  <2>3. QED BY <1>6, <2>1, <2>2, PlanMoves
       DEF Skips, Returns, EndsBase, EndsBoundary, EndsTest, MovesOn
<1>7. ASSUME BudgetExpires \/ CarrierDrops \/ CarrierReturns PROVE WireOf(q)
  BY <1>7, <1>same DEF BudgetExpires, CarrierDrops, CarrierReturns
<1>8. ASSUME SenderWrites PROVE WireOf(q)
  <2>1. CASE UNCHANGED wire
    BY <2>1, <1>same
  <2>2. CASE sender.pc = "manifest" /\ wire' = Put(wire, "PC1", Msg("report", 0, "none"))
    <3>1. Sends("PC2", Msg("report", 0, "none"))
      BY <1>8, <2>2 DEF Sends, Msg
    <3>2. QED BY <1>put, <1>wire, <2>2, <3>1 DEF FrameType, ArgOf
  <2>3. ASSUME NEW a \in {"last", "more"}, sender.pc = "stream",
               wire' = Put(wire, "PC1", Msg("report_chunk", 0, a))
        PROVE  WireOf(q)
    <3>1. Sends("PC2", Msg("report_chunk", 0, a))
      BY <1>8, <2>3 DEF Sends, Msg
    <3>2. QED BY <1>put, <1>wire, <2>3, <3>1 DEF FrameType, ArgOf
  <2>4. QED BY <1>8, <2>1, <2>2, <2>3 DEF SenderWrites
<1>9. ASSUME ReceiverTakes PROVE WireOf(q)
  <2>1. CASE UNCHANGED wire
    BY <2>1, <1>same
  <2>2. ASSUME NEW a \in {"ok", "declined"}, receiver' # "recv",
               wire' = Put(wire, "PC2", Msg("report_ack", 0, a))
        PROVE  WireOf(q)
    <3>1. Sends("PC1", Msg("report_ack", 0, a))
      BY <1>9, <2>2 DEF Sends, Msg
    <3>2. QED BY <1>put, <1>wire, <2>2, <3>1 DEF FrameType, ArgOf
  <2>3. QED BY <1>9, <2>1, <2>2 DEF ReceiverTakes
<1>10. ASSUME LinkCut PROVE WireOf(q)
  <2>1. \E n \in 0..Len(wire[q]) : wire'[q] = SubSeq(wire[q], 1, n)
    BY <1>10 DEF LinkCut, Role
  <2>2. QED BY <1>10, <2>1 DEF WireOf
<1>11. ASSUME HandlePlanDone PROVE WireOf(q)
  <2>1. CASE UNCHANGED wire
    BY <2>1, <1>same
  <2>2. CASE plan.err = "nil" /\ wire' = Put(wire, "PC1", Msg("complete", 0, "none")) /\ sentComplete'
    <3>1. Sends("PC2", Msg("complete", 0, "none"))
      BY <1>11, <2>2 DEF Sends, Msg
    <3>2. QED BY <1>put, <1>wire, <2>2, <3>1 DEF FrameType, ArgOf
  <2>3. QED BY <1>11, <2>1, <2>2 DEF HandlePlanDone, SendComplete
<1>12. ASSUME NEW r \in Role, HandleTransferDone(r) PROVE WireOf(q)
  <2> DEFINE v == Msg("warning", 0, "none")
             c == Msg("complete", 0, "none")
             w == Put(wire, r, v)
  <2>type. v \in Frame /\ v.type = "warning" /\ c \in Frame /\ c.type = "complete"
    BY MsgType DEF FrameType, ArgOf, Msg
  <2>peer. Peer(r) \in Role /\ (q = r \/ q = Peer(r)) /\ r # Peer(r) /\ Peer(Peer(r)) = r
    BY DEF Role, Peer
  <2>1. Sends(Peer(r), v)
    BY <1>12, <2>type, <2>peer DEF Sends
  <2>2. CASE wire' = wire
    BY <1>same, <2>2
  <2>3. CASE wire' = w
    BY <1>put, <2>1, <2>3 DEF FrameType, ArgOf
  <2>4. ASSUME r = "PC1", sentComplete' PROVE Sends("PC2", c)
    BY <1>12, <2>type, <2>4 DEF Sends
  <2>5. CASE r = "PC1" /\ sentComplete' /\ wire' = Put(wire, r, c)
    BY <1>put, <1>wire, <2>4, <2>5 DEF FrameType, ArgOf
  <2>6. CASE r = "PC1" /\ sentComplete' /\ wire' = Put(w, r, c)
    <3>1. w \in [Role -> Seq(Frame)]
      BY <1>wire, <2>type, PutType
    <3>2. \/ w[q] = wire[q] /\ (q = r \/ ~Live)
          \/ q = Peer(r) /\ Live /\ w[q] = Append(wire[q], v)
      <4> HIDE DEF v, w
      <4>1. QED BY <1>wire, <2>type, PutAt DEF w
    <3>3. \/ Put(w, r, c)[q] = w[q] /\ (q = r \/ ~Live)
          \/ q = Peer(r) /\ Live /\ Put(w, r, c)[q] = Append(w[q], c)
      <4> HIDE DEF c, w
      <4>1. QED BY <2>type, <3>1, PutAt
    <3>4. Sends("PC2", c)
      BY <2>4, <2>6
    <3> HIDE DEF v, c, w
    <3>5. CASE q = r \/ ~Live
      BY <2>peer, <2>6, <3>2, <3>3, <3>5 DEF WireOf
    <3>6. CASE q = Peer(r) /\ Live
      <4>1. wire'[q] = Append(Append(wire[q], v), c)
        BY <2>peer, <2>6, <3>2, <3>3, <3>6
      <4>2. QED BY <1>wire, <2>type, <2>1, <2>6, <3>4, <3>6, <4>1 DEF WireOf
    <3>7. QED BY <2>peer, <3>5, <3>6
  <2>7. \/ wire' = wire \/ wire' = w
        \/ r = "PC1" /\ sentComplete' /\ wire' \in {Put(wire, r, c), Put(w, r, c)}
    BY <1>12 DEF HandleTransferDone, ConcludesAfterTransfer, SendComplete
  <2>8. QED BY <2>2, <2>3, <2>5, <2>6, <2>7
<1>close. ASSUME NEW p \in Role, NEW a \in ArgOf("abort"), Teardown(p) \/ (HandshakeReject /\ p = "PC2"),
                 wire' = [wire EXCEPT ![p] = <<>>]
                   \/ wire' = [Put(wire, p, Msg("abort", 0, a)) EXCEPT ![p] = <<>>]
          PROVE  WireOf(q)
  <2> DEFINE m == Msg("abort", 0, a)
  <2>1. m \in Frame /\ m.type = "abort"
    BY MsgType DEF FrameType, Msg
  <2>2. Peer(p) \in Role /\ (q = p \/ q = Peer(p)) /\ p # Peer(p) /\ Peer(Peer(p)) = p
    BY DEF Role, Peer
  <2>3. Sends(Peer(p), m)
    BY <1>close, <1>wire, <2>1, <2>2 DEF Sends
  <2>4. wire' = [wire EXCEPT ![p] = <<>>] \/ wire' = [Put(wire, p, m) EXCEPT ![p] = <<>>]
    BY <1>close
  <2> HIDE DEF m
  <2>5. /\ \/ Put(wire, p, m)[q] = wire[q]
           \/ q = Peer(p) /\ Live /\ Put(wire, p, m)[q] = Append(wire[q], m)
        /\ Put(wire, p, m) \in [Role -> Seq(Frame)]
    <3>1. wire \in [Role -> Seq(Frame)] /\ m \in Frame
      BY <1>wire, <2>1
    <3>2. Put(wire, p, m) \in [Role -> Seq(Frame)]
      BY <3>1, PutType
    <3>3. QED BY <3>1, <3>2, PutAt
  <2>6. CASE q = p
    <3>1. td'[q] # "open"
      BY <1>close, <2>6 DEF Teardown, HandshakeReject, TypeOK
    <3>2. QED BY <1>wire, <2>4, <2>5, <2>6, <3>1 DEF WireOf
  <2>7. CASE q # p
    <3>1. wire'[q] = wire[q] \/ wire'[q] = Put(wire, p, m)[q]
      BY <1>wire, <2>4, <2>5, <2>7
    <3>2. QED BY <2>1, <2>2, <2>3, <2>5, <2>7, <3>1 DEF WireOf
  <2>8. QED BY <2>6, <2>7
<1>13. ASSUME NEW r \in Role, Teardown(r) PROVE WireOf(q)
  <2>1. fin[r].reason \in ArgOf("abort")
    BY DEF TypeOK, FinSpec, ArgOf
  <2>2. \/ wire' = [wire EXCEPT ![r] = <<>>]
        \/ wire' = [Put(wire, r, Msg("abort", 0, fin[r].reason)) EXCEPT ![r] = <<>>]
    BY <1>13 DEF Teardown, FarewellFrame
  <2>3. QED BY <1>close, <1>13, <2>1, <2>2
<1>14. ASSUME HandshakeReject PROVE WireOf(q)
  <2>1. \/ wire' = [wire EXCEPT !["PC2"] = <<>>]
        \/ wire' = [Put(wire, "PC2", Msg("abort", 0, "handshake")) EXCEPT !["PC2"] = <<>>]
    BY <1>14 DEF HandshakeReject
  <2>2. "handshake" \in ArgOf("abort")
    BY DEF ArgOf, Reason
  <2>3. QED BY <1>close, <1>14, <1>wire, <2>1, <2>2
<1>15. ASSUME UNCHANGED vars PROVE WireOf(q)
  BY <1>15, <1>same DEF vars
<1>16. QED
  BY <1>1, <1>2, <1>3, <1>4, <1>5, <1>6, <1>7, <1>8, <1>9, <1>10, <1>11, <1>12, <1>13, <1>14, <1>15
     DEF Next, Loop, SenderStep, ReceiverStep, Finished

\* What waits on a wire is a frame.
LEMMA InFrame ==
  ASSUME TypeOK, NEW q \in Role, NEW m \in In(wire, q)
  PROVE  m \in Frame /\ m.id \in Nat /\ m.type \in FrameType /\ m.arg \in ArgOf(m.type)
<1>1. wire[q] \in Seq(Frame)
  BY DEF TypeOK
<1>2. PICK i \in 1..Len(wire[q]) : m = wire[q][i]
  BY DEF In
<1>3. m \in Frame
  BY <1>1, <1>2
<1>4. QED BY <1>3 DEF Frame

\* A frame that a step finds new on a wire was just written to it.
LEMMA NewFrame ==
  ASSUME TypeOK, [Next]_vars, NEW q \in Role, NEW m \in In(wire', q)
  PROVE  m \in In(wire, q) \/ (m \in Frame /\ Live /\ Sends(q, m))
<1>seq. wire[q] \in Seq(Frame)
  BY DEF TypeOK
<1>app. ASSUME NEW s \in Seq(Frame), NEW n \in Frame, NEW i \in 1..Len(Append(s, n))
        PROVE  Append(s, n)[i] = n \/ (i \in 1..Len(s) /\ Append(s, n)[i] = s[i])
  OBVIOUS
<1>m. PICK i \in 1..Len(wire'[q]) : m = wire'[q][i]
  BY DEF In
<1>1. CASE wire'[q] = wire[q]
  BY <1>1 DEF In
<1>2. CASE wire[q] # <<>> /\ wire'[q] = Tail(wire[q])
  <2>1. i + 1 \in 1..Len(wire[q]) /\ m = wire[q][i + 1]
    BY <1>2, <1>seq, <1>m
  <2>2. QED BY <2>1 DEF In
<1>3. CASE wire'[q] = <<>>
  BY <1>3 DEF In
<1>4. CASE \E n \in 0..Len(wire[q]) : wire'[q] = SubSeq(wire[q], 1, n)
  <2>1. i \in 1..Len(wire[q]) /\ m = wire[q][i]
    BY <1>4, <1>seq, <1>m
  <2>2. QED BY <2>1 DEF In
<1>5. ASSUME NEW n \in Frame, Live, wire'[q] = Append(wire[q], n), Sends(q, n)
      PROVE  m \in In(wire, q) \/ (m \in Frame /\ Live /\ Sends(q, m))
  BY <1>5, <1>seq, <1>m, <1>app DEF In
<1>6. ASSUME NEW n \in Frame, NEW o \in Frame, Live, wire'[q] = Append(Append(wire[q], n), o),
             Sends(q, n), Sends(q, o)
      PROVE  m \in In(wire, q) \/ (m \in Frame /\ Live /\ Sends(q, m))
  <2>1. Append(wire[q], n) \in Seq(Frame)
    BY <1>seq
  <2>2. CASE m = o
    BY <1>6, <2>2
  <2>3. CASE i \in 1..Len(Append(wire[q], n)) /\ m = Append(wire[q], n)[i]
    BY <1>6, <1>seq, <1>app, <2>3 DEF In
  <2>4. QED BY <1>6, <1>m, <1>app, <2>1, <2>2, <2>3
<1>7. QED BY <1>1, <1>2, <1>3, <1>4, <1>5, <1>6, WireStep DEF WireOf

-----------------------------------------------------------------------------
(* A verdict finds the worker past GO                                      *)

\* The coordinator's loop takes a result.
TakesResult ==
  /\ Running("PC1") /\ wire["PC1"] # <<>> /\ carrier = "up"
  /\ HandleTestResult("PC1", Oldest("PC1"), Rest("PC1"))

\* The coordinator's GO, which starts the plan.
PlanStarts ==
  /\ OnCountdownGo("PC1") /\ st["PC1"] = "ready" /\ st'["PC1"] = "testing"
  /\ plan' = [plan EXCEPT !.pc = "base"] /\ UNCHANGED <<call, expired>>

\* Plan and call have these writers.
LEMMA PlanSteps ==
  ASSUME TypeOK, [Next]_vars
  PROVE  \/ UNCHANGED <<plan, call, expired>>
         \/ HandleCallExpired /\ UNCHANGED <<plan, call>>
         \/ TakesResult /\ UNCHANGED <<plan, expired>>
         \/ PlanStarts
         \/ HandlePlanDone /\ UNCHANGED <<call, expired>>
         \/ BudgetExpires /\ UNCHANGED <<call, expired>>
         \/ PlanStep
<1> USE DEF planVars
<1>1. ASSUME NEW r \in Role, HandleFrame(r)
      PROVE  UNCHANGED <<plan, call, expired>> \/ (TakesResult /\ UNCHANGED <<plan, expired>>)
  <2>1. CASE HandleTestResult(r, Oldest(r), Rest(r))
    BY <1>1, <2>1 DEF HandleFrame, HandleTestResult, TakesResult
  <2>2. CASE ~HandleTestResult(r, Oldest(r), Rest(r))
    BY <1>1, <2>2 DEF HandleFrame, HandlePeerReady, HandleStartConfirmation, Oldest, Rest,
       HandleTestRequest, HandleWarning, HandlePeerAbort, HandleReportManifest,
       HandleTransferFrame, HandleComplete
  <2>3. QED BY <2>1, <2>2
<1>2. ASSUME NEW r \in Role,
             \/ Launch(r) \/ StartCommand(r) \/ QuitCommand(r) \/ CtrlC(r) \/ HandleConnErr(r)
             \/ HandleInterrupt(r) \/ Exit(r) \/ Teardown(r) \/ HandleTransferDone(r)
      PROVE  UNCHANGED <<plan, call, expired>>
  BY <1>2 DEF Launch, StartCommand, QuitCommand, CtrlC, HandleConnErr, HandleInterrupt, Exit,
     Teardown, HandleTransferDone
<1>3. ASSUME \/ LinkCut \/ CarrierDrops \/ CarrierReturns \/ HandshakeReject \/ OpFinishes
             \/ HandleOpDone \/ SenderStep \/ ReceiverStep
      PROVE  UNCHANGED <<plan, call, expired>>
  BY <1>3 DEF LinkCut, CarrierDrops, CarrierReturns, HandshakeReject, OpFinishes, HandleOpDone,
     SenderStep, SenderWrites, SenderEnds, ReceiverStep, ReceiverTakes, ReceiverStops, XferFrame
<1>4. ASSUME NEW r \in Role, OnCountdownGo(r) PROVE UNCHANGED <<plan, call, expired>> \/ PlanStarts
  <2>1. UNCHANGED <<call, expired>> /\ Goto(r, "testing")
    BY <1>4 DEF OnCountdownGo
  <2>2. CASE r = "PC1" /\ "testing" \in validTransitions[st[r]]
    <3>1. st \in [Role -> PeerState] /\ r \in Role
      BY DEF TypeOK
    <3>2. Transition(st[r], "testing") = "testing"
      BY <2>2 DEF Transition
    <3>3. st["PC1"] = "ready"
      BY <2>2, <3>1 DEF validTransitions, Forward, PeerState, Stop
    <3>4. st'["PC1"] = "testing"
      BY <2>1, <2>2, <3>1, <3>2 DEF Goto
    <3>5. QED BY <1>4, <2>1, <2>2, <3>3, <3>4 DEF PlanStarts, OnCountdownGo
  <2>3. QED BY <1>4, <2>1, <2>2 DEF OnCountdownGo
<1>5. ASSUME HandlePlanDone PROVE UNCHANGED <<call, expired>>
  BY <1>5 DEF HandlePlanDone
<1>6. ASSUME BudgetExpires PROVE UNCHANGED <<call, expired>>
  BY <1>6 DEF BudgetExpires
<1>7. ASSUME HandleCallExpired PROVE UNCHANGED <<plan, call>>
  BY <1>7 DEF HandleCallExpired
<1>8. ASSUME UNCHANGED vars PROVE UNCHANGED <<plan, call, expired>>
  BY <1>8 DEF vars
<1>9. QED BY <1>1, <1>2, <1>3, <1>4, <1>5, <1>6, <1>7, <1>8 DEF Next, Loop, Finished

\* A sender that was started stays so.
LEMMA SenderStays ==
  ASSUME TypeOK, [Next]_vars, sender.pc # "off"
  PROVE  sender'.pc # "off"
<1>type. sender \in SenderState
  BY DEF TypeOK
<1>1. CASE UNCHANGED sender
  BY <1>1
<1>2. CASE HandlePlanDone \/ SenderStep \/ HandleTransferDone("PC1")
  <2>1. \/ UNCHANGED sender
        \/ \E c \in {"ok", "failed", "manifest", "handled"} : sender' = [sender EXCEPT !.pc = c]
        \/ \E n : \E c \in {"failed", "await", "stream"} : sender' = [pc |-> c, sent |-> n]
    BY <1>2 DEF HandlePlanDone, SenderStep, SenderWrites, SenderEnds, HandleTransferDone
  <2>2. QED BY <1>type, <2>1 DEF SenderState
<1>3. CASE PlanStep \/ BudgetExpires
  BY <1>3, PlanGoesOn
<1>4. CASE OnCountdownGo("PC1")
  BY <1>4 DEF OnCountdownGo, xferVars
<1>5. QED BY <1>1, <1>2, <1>3, <1>4, PlanWriters

\* A result only fills in the reply of the call it answers.
LEMMA ResultFills ==
  ASSUME TypeOK, TakesResult
  PROVE  /\ call'.id = call.id /\ call'.op = call.op /\ call'.armed = call.armed
         /\ Oldest("PC1") \in In(wire, "PC1") /\ Oldest("PC1").type = "test_result"
         /\ \/ call'.reply = call.reply
            \/ /\ plan.pc = "call" /\ call.reply = "none" /\ call.id = Oldest("PC1").id
               /\ call'.reply = Oldest("PC1").arg
<1>1. call \in Call /\ wire \in [Role -> Seq(Frame)] /\ "PC1" \in Role
  BY DEF TypeOK, Role
<1>2. Oldest("PC1") \in In(wire, "PC1") /\ Oldest("PC1") \in Frame
  BY <1>1, TailIn, RestType DEF TakesResult, Oldest
<1>3. Oldest("PC1").type = "test_result"
  BY DEF TakesResult, HandleTestResult
<1>4. Oldest("PC1").arg \in Status
  BY <1>2, <1>3 DEF Frame, ArgOf
<1>5. \/ call' = call
      \/ Answers(Oldest("PC1")) /\ call' = [call EXCEPT !.reply = Oldest("PC1").arg]
  BY DEF TakesResult, HandleTestResult
<1>6. QED BY <1>1, <1>2, <1>3, <1>4, <1>5 DEF Call, Answers

\* The base part of the plan is over.
BaseDone ==
  \/ plan.pc \in {"boundary", "window", "tdr", "end", "returned", "handled"}
  \/ plan.pc = "call" /\ call.op \notin BaseOps

\* Answers come from a worker past GO, and a base plan succeeds only on
\* answers; what ends the session follows such a plan.
Answered ==
  /\ \A m \in In(wire, "PC1") : m.type = "test_result" => Past
  /\ op.phase # "off" => Past
  /\ call.reply # "none" => Past
  /\ plan.answered > 0 => Past
  /\ BaseDone /\ plan.err = "nil" => plan.answered > 0
  /\ \A m \in In(wire, "PC2") :
       m.type \in {"report", "report_chunk", "complete"} => sentComplete \/ sender.pc # "off"

\* A base plan that ends well ends on an answer.
LEMMA BaseDoneStep ==
  ASSUME TypeOK, [Next]_vars, BaseDone /\ plan.err = "nil" => plan.answered > 0
  PROVE  BaseDone' /\ plan'.err = "nil" => plan'.answered > 0
<1>plan. plan \in Plan /\ plan.err \in PlanErr /\ plan.answered \in Nat
  BY DEF TypeOK, Plan
<1>ops. {"snapshot", "window_start", "window_end"} \cap BaseOps = {}
  BY OpsAssumption
<1>1. CASE UNCHANGED <<plan, call>>
  BY <1>1 DEF BaseDone
<1>2. CASE TakesResult /\ UNCHANGED plan
  BY <1>2, ResultFills DEF BaseDone
<1>3. CASE PlanStarts
  BY <1>3, <1>plan DEF PlanStarts, BaseDone, Plan
<1>4. CASE HandlePlanDone
  <2>1. plan' = [plan EXCEPT !.pc = "handled"] /\ plan.pc = "returned"
    BY <1>4 DEF HandlePlanDone
  <2>2. QED BY <1>plan, <2>1 DEF BaseDone, Plan
<1>5. CASE BudgetExpires /\ UNCHANGED call
  <2>1. plan' = [plan EXCEPT !.spent = TRUE]
    BY <1>5 DEF BudgetExpires
  <2>2. QED BY <1>plan, <1>5, <2>1 DEF BaseDone, Plan
<1>budget. BudgetErr = "nil" => plan.answered > 0
  BY <1>plan, BoundsAssumption DEF BudgetErr
<1>resolved. ASSUME NEW o \in Op, NEW out, Resolved(o, out), o \notin BaseOps => BaseDone
             PROVE  BaseDone' /\ plan'.err = "nil" => plan'.answered > 0
  <2>1. CASE o \in BaseOps
    BY <1>resolved, <1>budget, <1>ops, <1>plan, <2>1 DEF Resolved, BaseDone
  <2>2. CASE o \notin BaseOps
    BY <1>resolved, <1>plan, <2>2 DEF Resolved, BoundaryErr
  <2>3. QED BY <2>1, <2>2
<1>6. ASSUME NEW m \in Frame, Issues(m)
      PROVE  BaseDone' /\ plan'.err = "nil" => plan'.answered > 0
  <2>1. plan'.err = plan.err /\ plan'.answered = plan.answered /\ plan'.pc = "call"
    <3> DEFINE n == plan.calls + 1
    <3>1. plan' = [plan EXCEPT !.pc = "call", !.calls = n]
      BY <1>6 DEF Issues
    <3> HIDE DEF n
    <3>2. QED BY <1>plan, <3>1 DEF Plan
  <2>2. m.arg \notin BaseOps => BaseDone
    BY <1>6 DEF Issues, PcOf, BaseDone
  <2>3. call'.op = m.arg
    BY <1>6 DEF Issues
  <2>4. QED BY <2>1, <2>2, <2>3 DEF BaseDone
<1>7. ASSUME NEW o \in Op, NEW out, Skips(o, out)
      PROVE  BaseDone' /\ plan'.err = "nil" => plan'.answered > 0
  BY <1>7, <1>resolved DEF Skips, PcOf, BaseDone
<1>8. ASSUME NEW out, Returns(out)
      PROVE  BaseDone' /\ plan'.err = "nil" => plan'.answered > 0
  <2>1. call.op \in Op
    BY DEF TypeOK, Call
  <2>2. QED BY <1>8, <1>resolved, <2>1 DEF Returns, BaseDone
<1>9. ASSUME EndsBoundary \/ EndsTest \/ \E e \in PlanErr : EndsBase(e)
      PROVE  BaseDone' /\ plan'.err = "nil" => plan'.answered > 0
  BY <1>9, <1>plan DEF EndsBoundary, EndsTest, EndsBase, MovesOn, BaseDone
<1>10. QED BY <1>1, <1>2, <1>3, <1>4, <1>5, <1>6, <1>7, <1>8, <1>9, PlanSteps, PlanMoves

\* The invariant of the answers is preserved.
LEMMA AnsweredStep ==
  ASSUME TypeOK, [Next]_vars, PlanBeforeVerdict, Answered
  PROVE  Answered'
<1>roles. "PC1" \in Role /\ "PC2" \in Role
  BY DEF Role
<1>past. Past => Past'
  BY PastStep
<1>plan. plan \in Plan /\ plan.answered \in Nat /\ call \in Call
  BY DEF TypeOK, Plan
<1>request. TakesRequest => Past
  BY DEF TakesRequest, Past, Early
<1>1. ASSUME NEW m \in In(wire', "PC1"), m.type = "test_result" PROVE Past'
  <2>1. CASE m \in In(wire, "PC1")
    BY <1>1, <1>past, <2>1 DEF Answered
  <2>2. CASE Sends("PC1", m)
    <3>1. HandleOpDone \/ TakesRequest
      BY <1>1, <2>2 DEF Sends
    <3>2. HandleOpDone => Past
      BY DEF HandleOpDone, Answered
    <3>3. QED BY <1>past, <1>request, <3>1, <3>2
  <2>3. QED BY <1>roles, <2>1, <2>2, NewFrame
<1>2. op'.phase # "off" => Past'
  <2>1. CASE UNCHANGED op
    BY <1>past, <2>1 DEF Answered
  <2>2. CASE OpFinishes
    BY <1>past, <2>2 DEF OpFinishes, Answered
  <2>3. CASE HandleOpDone
    BY <2>3 DEF HandleOpDone, NoOp
  <2>4. CASE Teardown("PC2")
    BY <1>past, <2>4 DEF Teardown, Answered
  <2>5. QED BY <1>past, <1>request, <2>1, <2>2, <2>3, <2>4, WorkerWriters
<1>3. call'.reply # "none" => Past'
  <2>1. CASE UNCHANGED call
    BY <1>past, <2>1 DEF Answered
  <2>2. CASE TakesResult
    BY <1>past, <2>2, ResultFills DEF Answered
  <2>3. ASSUME NEW m, Issues(m) PROVE call'.reply = "none"
    BY <2>3 DEF Issues
  <2>4. ASSUME NEW out, Returns(out) PROVE call'.reply = "none"
    BY <2>4 DEF Returns, NoCall
  <2>5. QED BY <2>1, <2>2, <2>3, <2>4, PlanSteps, PlanMoves
       DEF Skips, EndsBase, EndsBoundary, EndsTest, MovesOn, PlanStarts
<1>4. plan'.answered > 0 => Past'
  <2>1. CASE plan'.answered = plan.answered
    BY <1>past, <2>1 DEF Answered
  <2>2. ASSUME NEW out, Returns(out), out \in {"ok", "unavailable"} PROVE Past'
    BY <1>past, <2>2 DEF Returns, Answered
  <2>3. ASSUME NEW out, Returns(out), out \notin {"ok", "unavailable"}
        PROVE  plan'.answered = plan.answered
    BY <2>3 DEF Returns, Resolved
  <2>4. ASSUME NEW o, NEW out, Skips(o, out) PROVE plan'.answered = plan.answered
    BY <2>4 DEF Skips, Resolved
  <2>5. ASSUME NEW m, Issues(m) PROVE plan'.answered = plan.answered
    <3> DEFINE n == plan.calls + 1
    <3>1. plan' = [plan EXCEPT !.pc = "call", !.calls = n]
      BY <2>5 DEF Issues
    <3> HIDE DEF n
    <3>2. QED BY <1>plan, <3>1 DEF Plan
  <2>6. ASSUME HandlePlanDone \/ BudgetExpires \/ PlanStarts PROVE plan'.answered = plan.answered
    BY <1>plan, <2>6 DEF HandlePlanDone, BudgetExpires, PlanStarts, Plan
  <2>7. QED BY <2>1, <2>2, <2>3, <2>4, <2>5, <2>6, PlanSteps, PlanMoves
       DEF EndsBase, EndsBoundary, EndsTest, MovesOn
<1>5. BaseDone' /\ plan'.err = "nil" => plan'.answered > 0
  BY BaseDoneStep DEF Answered
<1>6. ASSUME NEW m \in In(wire', "PC2"), m.type \in {"report", "report_chunk", "complete"}
      PROVE  sentComplete' \/ sender'.pc # "off"
  <2>1. CASE m \in In(wire, "PC2")
    BY <1>6, <2>1, PlanOrderStep, SenderStays DEF Answered
  <2>2. CASE Sends("PC2", m)
    <3>1. sentComplete' \/ SenderWrites
      BY <1>6, <2>2 DEF Sends
    <3>2. SenderWrites => sender.pc # "off"
      BY DEF SenderWrites
    <3>3. QED BY <3>1, <3>2, SenderStays
  <2>3. QED BY <1>roles, <2>1, <2>2, NewFrame
<1>7. QED
  <2>1. \A m \in In(wire', "PC1") : m.type = "test_result" => Past'
    BY <1>1
  <2>2. \A m \in In(wire', "PC2") :
          m.type \in {"report", "report_chunk", "complete"} => sentComplete' \/ sender'.pc # "off"
    BY <1>6
  <2>3. QED BY <1>2, <1>3, <1>4, <1>5, <2>1, <2>2 DEF Answered, In

\* The completion invariant holds in every reachable state.
LEMMA CompletionInvCorrect == Spec => []CompletionInv
<1>1. Init => CompletionInv
  BY DEF Init, CompletionInv, PlanBeforeVerdict, VerdictInFlight, CompletionAgreed,
         Completed, In, NoFin, Role
<1>2. TypeOK /\ CompletionInv /\ [Next]_vars => CompletionInv'
  BY CompletionStep
<1>3. QED BY <1>1, <1>2, TypeCorrect, PTL DEF Spec

\* It holds in every reachable state.
LEMMA AnsweredCorrect == Spec => []Answered
<1>1. Init => Answered
  BY DEF Init, Answered, BaseDone, In, Role, NoOp, NoCall
<1>2. TypeOK /\ CompletionInv /\ Answered /\ [Next]_vars => Answered'
  BY AnsweredStep DEF CompletionInv
<1>3. QED BY <1>1, <1>2, TypeCorrect, CompletionInvCorrect, PTL DEF Spec

\* Although the two countdowns run apart, a verdict or a manifest never
\* reaches a worker before GO or after its end: the plan behind it had a
\* request answered, and only a worker past GO answers (handleComplete,
\* handleReportManifest, onCountdownGo).
THEOREM VerdictCorrect == Spec => []VerdictNotRefused
<1>1. TypeOK /\ CompletionInv /\ EndOrder /\ Answered => VerdictNotRefused
  <2> SUFFICES ASSUME TypeOK, CompletionInv, EndOrder, Answered, Running("PC2"),
                      NEW i \in 1..Len(wire["PC2"]), wire["PC2"][i].type \in {"complete", "report"}
               PROVE  st["PC2"] \in {"testing", "generating_report"}
    BY DEF VerdictNotRefused
  <2>1. wire["PC2"][i] \in In(wire, "PC2")
    BY DEF In
  <2>2. sentComplete \/ sender.pc # "off"
    BY <2>1 DEF Answered
  <2>3. Past
    BY <2>2 DEF CompletionInv, PlanBeforeVerdict, Answered, BaseDone
  <2>4. st["PC2"] \in PeerState /\ st["PC2"] \notin Over
    BY DEF TypeOK, EndOrder, Finishing, Running, Role
  <2>5. QED BY <2>3, <2>4 DEF Past, Early, Over, Stop, PeerState
<1>2. QED BY <1>1, TypeCorrect, CompletionInvCorrect, EndOrderCorrect, AnsweredCorrect, PTL

-----------------------------------------------------------------------------
(* A reply belongs to the call it is handed to                             *)

\* The fields of the plan after a request is issued.
LEMMA IssuedPlan ==
  ASSUME TypeOK, NEW m \in Frame, Issues(m)
  PROVE  /\ plan'.pc = "call" /\ plan'.calls = plan.calls + 1 /\ plan'.answered = plan.answered
         /\ plan'.err = plan.err /\ plan'.spent = plan.spent
         /\ call'.id = m.id /\ call'.op = m.arg /\ call'.reply = "none"
         /\ m.id = plan.calls + 1 /\ plan.calls \in Nat /\ plan.pc = PcOf(m.arg) /\ plan.pc # "call"
<1>1. plan \in Plan
  BY DEF TypeOK
<1> DEFINE n == plan.calls + 1
<1>2. plan' = [plan EXCEPT !.pc = "call", !.calls = n]
  BY DEF Issues
<1>3. call'.id = m.id /\ call'.op = m.arg /\ call'.reply = "none" /\ m.id = n
  BY DEF Issues
<1>4. plan.pc = PcOf(m.arg) /\ plan.pc # "call"
  BY DEF Issues, PcOf
<1> HIDE DEF n
<1>5. /\ plan'.pc = "call" /\ plan'.calls = n /\ plan'.answered = plan.answered
      /\ plan'.err = plan.err /\ plan'.spent = plan.spent /\ plan.calls \in Nat
  BY <1>1, <1>2 DEF Plan
<1>6. QED BY <1>3, <1>4, <1>5 DEF n

\* How plan and call may move together, as far as the numbering goes.
Numbering ==
  \/ plan'.calls = plan.calls /\ plan'.pc # "call"
  \/ plan'.calls = plan.calls /\ plan.pc = "call" /\ plan'.pc = "call" /\ UNCHANGED call
  \/ plan'.calls = plan.calls /\ UNCHANGED plan /\ TakesResult
  \/ \E m \in Frame : Issues(m)

\* Those are all the ways.
LEMMA NumberingStep == ASSUME TypeOK, [Next]_vars PROVE Numbering
<1>plan. plan \in Plan
  BY DEF TypeOK
<1>1. CASE UNCHANGED <<plan, call>>
  BY <1>1 DEF Numbering
<1>2. CASE TakesResult /\ UNCHANGED plan
  BY <1>2 DEF Numbering
<1>3. CASE PlanStarts \/ HandlePlanDone
  BY <1>3, <1>plan DEF PlanStarts, HandlePlanDone, Numbering, Plan
<1>4. CASE BudgetExpires /\ UNCHANGED call
  BY <1>4, <1>plan DEF BudgetExpires, Numbering, Plan
<1>5. ASSUME NEW m \in Frame, Issues(m) PROVE Numbering
  BY <1>5 DEF Numbering
<1>6. ASSUME NEW o, NEW out, Resolved(o, out) PROVE Numbering
  BY <1>6 DEF Resolved, Numbering
<1>7. ASSUME EndsBoundary \/ EndsTest \/ \E e \in PlanErr : EndsBase(e) PROVE Numbering
  BY <1>7 DEF EndsBoundary, EndsTest, EndsBase, MovesOn, Numbering
<1>8. QED BY <1>1, <1>2, <1>3, <1>4, <1>5, <1>6, <1>7, PlanSteps, PlanMoves DEF Skips, Returns

\* What the executor's slot holds after a step.
LEMMA SlotStep ==
  ASSUME TypeOK, [Next]_vars
  PROVE  /\ ran \subseteq ran'
         /\ \/ UNCHANGED op
            \/ HandleOpDone /\ op' = NoOp
            \/ /\ OpFinishes /\ op.phase = "running" /\ op'.phase = "posted" /\ op'.id = op.id
               /\ op'.op = op.op /\ (op'.status = "ok" => op.id \in ran')
            \/ /\ TakesRequest /\ op.phase = "off" /\ op'.phase = "running"
               /\ op'.id = Oldest("PC2").id /\ op'.op = Oldest("PC2").arg
               /\ Oldest("PC2").arg # "cancel" /\ UNCHANGED ran
<1>type. op \in ActiveOp
  BY DEF TypeOK
<1>1. CASE UNCHANGED <<op, ran>>
  BY <1>1
<1>2. CASE OpFinishes
  BY <1>2, <1>type DEF OpFinishes, ActiveOp
<1>3. CASE HandleOpDone
  BY <1>3 DEF HandleOpDone
<1>4. CASE TakesRequest
  <2>1. UNCHANGED ran
    BY <1>4 DEF TakesRequest, HandleTestRequest
  <2>2. \/ UNCHANGED op
        \/ /\ op.phase = "off" /\ Oldest("PC2").arg # "cancel"
           /\ op' = [id |-> Oldest("PC2").id, op |-> Oldest("PC2").arg, phase |-> "running",
                     status |-> "ok"]
    BY <1>4 DEF TakesRequest, HandleTestRequest
  <2>3. QED BY <1>4, <2>1, <2>2
<1>5. CASE Teardown("PC2")
  BY <1>5 DEF Teardown
<1>6. QED BY <1>1, <1>2, <1>3, <1>4, <1>5, WorkerWriters

\* Requests, the executor's slot and results carry ids that were issued, the
\* newest of them being the call in flight; a result that says ok is of a
\* request that ran or was a cancel.
ResultInv ==
  /\ plan.pc = "call" => call.id = plan.calls
  /\ op.id <= plan.calls
  /\ op.phase = "posted" /\ op.status = "ok" => op.id \in ran
  /\ \A m \in In(wire, "PC2") : m.type = "test_request" =>
       m.id <= plan.calls /\ (plan.pc = "call" /\ m.id = call.id => m.arg = call.op)
  /\ \A m \in In(wire, "PC1") : m.type = "test_result" =>
       /\ m.id <= plan.calls
       /\ m.arg = "ok" /\ plan.pc = "call" /\ call.id = m.id /\ call.op # "cancel" => m.id \in ran
  /\ ResultIsOfThisCall

\* That is preserved.
LEMMA ResultStep ==
  ASSUME TypeOK, [Next]_vars, ResultInv
  PROVE  ResultInv'
<1>roles. "PC1" \in Role /\ "PC2" \in Role /\ wire \in [Role -> Seq(Frame)]
  BY DEF Role, TypeOK
<1>plan. plan.calls \in Nat /\ op.id \in Nat /\ call.id \in Nat
         /\ op \in ActiveOp /\ call \in Call
  BY DEF TypeOK, Plan, ActiveOp, Call
<1>id. ASSUME NEW q \in Role, NEW m \in In(wire, q) PROVE m.id \in Nat
  BY <1>id, InFrame
<1>ran. ran \subseteq ran'
  BY SlotStep
<1>calls. plan'.calls = plan.calls \/ plan'.calls = plan.calls + 1
  BY NumberingStep, IssuedPlan DEF Numbering
<1>taken. TakesRequest => /\ Oldest("PC2") \in In(wire, "PC2")
                          /\ Oldest("PC2").type = "test_request"
  <2>1. wire["PC2"] # <<>> => Oldest("PC2") \in In(wire, "PC2")
    BY <1>roles, TailIn DEF Oldest
  <2>2. QED BY <2>1 DEF TakesRequest, HandleTestRequest
<1>1. plan'.pc = "call" => call'.id = plan'.calls
  BY <1>plan, NumberingStep, IssuedPlan, ResultFills DEF Numbering, ResultInv
<1>2. op'.id <= plan'.calls
  <2>1. op'.id <= plan.calls /\ op'.id \in Nat
    <3>1. CASE TakesRequest /\ op'.id = Oldest("PC2").id
      BY <1>id, <1>roles, <1>taken, <3>1 DEF ResultInv
    <3>2. CASE op'.id = op.id
      BY <1>plan, <3>2 DEF ResultInv
    <3>3. CASE op' = NoOp
      BY <1>plan, <3>3 DEF NoOp
    <3>4. QED BY <3>1, <3>2, <3>3, SlotStep
  <2>2. QED BY <1>calls, <1>plan, <2>1
<1>3. op'.phase = "posted" /\ op'.status = "ok" => op'.id \in ran'
  BY <1>ran, SlotStep DEF ResultInv, NoOp
<1>4. ASSUME NEW m \in In(wire', "PC2"), m.type = "test_request"
      PROVE  m.id <= plan'.calls /\ (plan'.pc = "call" /\ m.id = call'.id => m.arg = call'.op)
  <2>1. CASE m \in In(wire, "PC2")
    <3>1. m.id \in Nat /\ m.id <= plan.calls /\ (plan.pc = "call" /\ m.id = call.id => m.arg = call.op)
      BY <1>4, <1>id, <1>roles, <2>1 DEF ResultInv
    <3>2. QED BY <1>calls, <1>plan, <3>1, NumberingStep, IssuedPlan, ResultFills DEF Numbering
  <2>2. CASE m \in Frame /\ Sends("PC2", m)
    <3>1. Issues(m)
      BY <1>4, <2>2 DEF Sends
    <3>2. QED BY <1>plan, <2>2, <3>1, IssuedPlan
  <2>3. QED BY <1>roles, <2>1, <2>2, NewFrame
<1>5. ASSUME NEW m \in In(wire', "PC1"), m.type = "test_result"
      PROVE  /\ m.id <= plan'.calls
             /\ m.arg = "ok" /\ plan'.pc = "call" /\ call'.id = m.id /\ call'.op # "cancel" =>
                  m.id \in ran'
  <2>1. /\ m.id \in Nat /\ m.id <= plan.calls
        /\ m.arg = "ok" /\ plan.pc = "call" /\ call.id = m.id /\ call.op # "cancel" => m.id \in ran
    <3>1. CASE m \in In(wire, "PC1")
      BY <1>5, <1>id, <1>roles, <3>1 DEF ResultInv
    <3>2. CASE HandleOpDone /\ m.id = op.id /\ m.arg = op.status
      BY <1>plan, <3>2 DEF ResultInv, HandleOpDone
    <3>3. CASE /\ TakesRequest /\ m.id = Oldest("PC2").id
               /\ IF Oldest("PC2").arg = "cancel" THEN m.arg = "ok" ELSE m.arg = "rejected"
      BY <1>id, <1>roles, <1>taken, <3>3 DEF ResultInv
    <3>4. CASE Sends("PC1", m)
      BY <1>5, <3>2, <3>3, <3>4 DEF Sends
    <3>5. QED BY <1>roles, <3>1, <3>4, NewFrame
  <2>2. QED BY <1>calls, <1>plan, <1>ran, <2>1, NumberingStep, IssuedPlan, ResultFills DEF Numbering
<1>6. call'.reply = "ok" /\ call'.op # "cancel" => call'.id \in ran'
  <2>1. CASE UNCHANGED call
    BY <1>ran, <2>1 DEF ResultInv, ResultIsOfThisCall
  <2>2. CASE TakesResult
    BY <1>ran, <2>2, ResultFills DEF ResultInv, ResultIsOfThisCall
  <2>3. ASSUME NEW m \in Frame, Issues(m) PROVE call'.reply = "none"
    BY <2>3, IssuedPlan
  <2>4. ASSUME NEW out, Returns(out) PROVE call'.reply = "none"
    BY <2>4 DEF Returns, NoCall
  <2>5. QED BY <2>1, <2>2, <2>3, <2>4, PlanSteps, PlanMoves
       DEF Skips, EndsBase, EndsBoundary, EndsTest, MovesOn, PlanStarts
<1>7. QED
  <2>1. \A m \in In(wire', "PC2") : m.type = "test_request" =>
          m.id <= plan'.calls /\ (plan'.pc = "call" /\ m.id = call'.id => m.arg = call'.op)
    BY <1>4
  <2>2. \A m \in In(wire', "PC1") : m.type = "test_result" =>
          /\ m.id <= plan'.calls
          /\ m.arg = "ok" /\ plan'.pc = "call" /\ call'.id = m.id /\ call'.op # "cancel" =>
               m.id \in ran'
    BY <1>5
  <2>3. QED BY <1>1, <1>2, <1>3, <1>6, <2>1, <2>2 DEF ResultInv, ResultIsOfThisCall, In

\* It holds in every reachable state.
LEMMA ResultInvCorrect == Spec => []ResultInv
<1>1. Init => ResultInv
  BY DEF Init, ResultInv, ResultIsOfThisCall, In, Role, NoOp, NoCall
<1>2. TypeOK /\ ResultInv /\ [Next]_vars => ResultInv'
  BY ResultStep
<1>3. QED BY <1>1, <1>2, TypeCorrect, PTL DEF Spec

\* The plan is told "ok" only for the very request the worker's executor ran
\* to its end: a result that arrives after its call was given up never
\* answers a later one (takeCall, handleTestResult, handleOpDone).
THEOREM ResultCorrect == Spec => []ResultIsOfThisCall
<1>1. ResultInv => ResultIsOfThisCall
  BY DEF ResultInv
<1>2. QED BY <1>1, ResultInvCorrect, PTL

-----------------------------------------------------------------------------
(* Readiness, countdown and strikes, step by step                          *)

\* A loop that dispatches a frame leaves the rest of its wire.
LEMMA FrameTail ==
  ASSUME TypeOK, NEW r \in Role, HandleFrame(r)
  PROVE  /\ wire[r] # <<>> /\ wire'[r] = Tail(wire[r]) /\ Running(r)
         /\ Oldest(r) \in In(wire, r) /\ Oldest(r) \in Frame
<1> DEFINE f == Oldest(r)
           w == Rest(r)
<1>type. /\ f \in In(wire, r) /\ f \in Frame /\ w \in [Role -> Seq(Frame)]
         /\ wire[r] # <<>> /\ Running(r) /\ f.id \in Nat
  BY RestType, TailIn DEF HandleFrame, TypeOK, Oldest, Rest, Frame
<1>rest. w[r] = Tail(wire[r])
  BY DEF TypeOK, Rest
<1>put. ASSUME NEW t \in FrameType, NEW i \in Nat, NEW a \in ArgOf(t), wire' = Put(w, r, Msg(t, i, a))
        PROVE  wire'[r] = w[r]
  <2> DEFINE m == Msg(t, i, a)
  <2>1. m \in Frame
    BY MsgType
  <2>2. wire' = Put(w, r, m)
    BY <1>put
  <2>3. w \in [Role -> Seq(Frame)]
    BY <1>type
  <2> HIDE DEF m, w
  <2>4. Put(w, r, m)[r] = w[r]
    BY <2>1, <2>3, PutAt, PeerType
  <2>5. QED BY <2>2, <2>4
<1>keep. ASSUME wire' = w PROVE wire'[r] = w[r]
  BY <1>keep
<1>warn. ASSUME WarnInvalidState(r, w) PROVE wire'[r] = w[r]
  BY <1>warn, <1>put DEF WarnInvalidState, FrameType, ArgOf
<1>frame. \/ HandlePeerReady(r, f, w) \/ HandleStartConfirmation(r, f, w)
          \/ HandleTestRequest(r, f, w) \/ HandleTestResult(r, f, w) \/ HandleWarning(r, f, w)
          \/ HandlePeerAbort(r, f, w) \/ HandleReportManifest(r, f, w)
          \/ HandleTransferFrame(r, f, w) \/ HandleComplete(r, f, w)
  BY DEF HandleFrame, Oldest, Rest
<1>q. wire'[r] = w[r]
  <2>1. f.id \in Nat
    BY <1>type
  <2> HIDE DEF f, w
  <2>2. CASE HandlePeerReady(r, f, w)
    BY <1>keep, <1>put, <1>warn, <2>2 DEF HandlePeerReady, OnBothReady, FrameType, ArgOf
  <2>3. CASE HandleTestRequest(r, f, w)
    <3>1. CASE WarnInvalidState(r, w) \/ wire' = w
      BY <1>keep, <1>warn, <3>1
    <3>2. ASSUME NEW s \in {"ok", "rejected"}, r = "PC2", wire' = Reply(w, f.id, s)
          PROVE  wire'[r] = w[r]
      BY <1>put, <2>1, <3>2 DEF Reply, FrameType, ArgOf, Status
    <3>3. QED BY <2>3, <3>1, <3>2 DEF HandleTestRequest, RefusesRequest
  <2>4. CASE \/ HandleStartConfirmation(r, f, w) \/ HandleTestResult(r, f, w)
             \/ HandleWarning(r, f, w) \/ HandlePeerAbort(r, f, w)
    BY <1>keep, <1>warn, <2>4
       DEF HandleStartConfirmation, HandleTestResult, HandleWarning, HandlePeerAbort
  <2>5. CASE HandleReportManifest(r, f, w)
    BY <1>keep, <1>put, <1>warn, <2>5 DEF HandleReportManifest, FrameType, ArgOf
  <2>6. CASE HandleTransferFrame(r, f, w)
    BY <1>keep, <1>warn, <2>6 DEF HandleTransferFrame, RouteTransferFrame
  <2>7. CASE HandleComplete(r, f, w)
    BY <1>keep, <1>put, <1>warn, <2>7 DEF HandleComplete, FrameType, ArgOf
  <2>8. QED BY <1>frame, <2>2, <2>3, <2>4, <2>5, <2>6, <2>7
<1>z. QED BY <1>type, <1>rest, <1>q

\* A side announces its readiness.
Announces(q) ==
  /\ st[q] \in {"handshake", "waiting_for_local_start"} /\ fin[q] = NoFin
  /\ localReady'[q] /\ peerReady'[q] = peerReady[q]
  /\ st'[q] = IF peerReady[q] THEN "ready" ELSE "waiting_for_peer_start"

\* A side learns of its peer's.
Hears(q) ==
  /\ HandleFrame(q) /\ Oldest(q).type = "ready" /\ ~peerReady[q] /\ peerReady'[q]
  /\ localReady'[q] = localReady[q]
  /\ \/ st[q] = "waiting_for_local_start" /\ st'[q] = st[q]
     \/ st[q] = "waiting_for_peer_start" /\ st'[q] = "ready"

\* How readiness and state of a side change together.
ReadyOf(q) ==
  \/ Announces(q)
  \/ Hears(q)
  \/ /\ localReady'[q] = localReady[q] /\ peerReady'[q] = peerReady[q]
     /\ \/ st'[q] = st[q]
        \/ st[q] = "handshake" /\ st'[q] = "waiting_for_local_start"
        \/ st[q] = "ready" /\ st'[q] = "testing"
        \/ st[q] = "testing" /\ st'[q] = "generating_report"
        \/ st'[q] \in Over

\* Announcing readiness, as far as the readiness of the two sides goes.
LEMMA SendLocalReadyReady ==
  ASSUME TypeOK, NEW r \in Role, st[r] \in {"handshake", "waiting_for_local_start"}, fin[r] = NoFin,
         SendLocalReady(r, "waiting_for_local_start"), UNCHANGED peerReady, NEW q \in Role
  PROVE  ReadyOf(q)
<1>type. /\ st \in [Role -> PeerState] /\ localReady \in [Role -> BOOLEAN]
         /\ peerReady \in [Role -> BOOLEAN]
  BY DEF TypeOK
<1>next. /\ Transition("waiting_for_local_start", "ready") = "ready"
         /\ Transition("waiting_for_local_start", "waiting_for_peer_start") = "waiting_for_peer_start"
  BY DEF Transition, validTransitions, Forward, PeerState, Stop
<1>1. CASE st' = [st EXCEPT ![r] = "waiting_for_local_start"] /\ UNCHANGED localReady
  BY <1>1, <1>type DEF ReadyOf
<1>2. CASE /\ localReady' = [localReady EXCEPT ![r] = TRUE]
           /\ st' = [st EXCEPT ![r] = IF peerReady[r] THEN "ready" ELSE "waiting_for_peer_start"]
  <2>1. CASE q = r
    BY <1>2, <1>type, <2>1 DEF ReadyOf, Announces
  <2>2. CASE q # r
    BY <1>2, <1>type, <2>2 DEF ReadyOf
  <2>3. QED BY <2>1, <2>2
<1>3. QED BY <1>1, <1>2, <1>next DEF SendLocalReady

\* Every step changes readiness in one of these ways.
LEMMA ReadyStep ==
  ASSUME TypeOK, [Next]_vars, NEW q \in Role
  PROVE  ReadyOf(q)
<1> USE DEF lifeVars, startVars, PlanFrame, XferFrame
<1>type. /\ st \in [Role -> PeerState] /\ localReady \in [Role -> BOOLEAN]
         /\ peerReady \in [Role -> BOOLEAN] /\ "PC1" \in Role /\ "PC2" \in Role
  BY DEF TypeOK, Role
<1>same. ASSUME UNCHANGED <<st, localReady, peerReady>> PROVE ReadyOf(q)
  BY <1>same DEF ReadyOf
<1>goto. ASSUME NEW r \in Role, NEW s \in {"testing", "generating_report"} \cup Over, Goto(r, s),
                UNCHANGED <<localReady, peerReady>>
         PROVE  ReadyOf(q)
  <2>1. /\ s = "testing" /\ Transition(st[r], s) # st[r] => st[r] = "ready"
        /\ s = "generating_report" /\ Transition(st[r], s) # st[r] => st[r] = "testing"
        /\ Transition(st[r], s) \in {st[r], s}
    BY <1>type, GotoForward DEF Transition
  <2>2. QED BY <1>goto, <1>type, <2>1 DEF Goto, ReadyOf
<1>1. ASSUME NEW r \in Role, Launch(r) \/ StartCommand(r) PROVE ReadyOf(q)
  <2>1. st[r] \in {"handshake", "waiting_for_local_start"} /\ fin[r] = NoFin /\ UNCHANGED peerReady
    BY <1>1 DEF Launch, StartCommand, Running
  <2>2. \/ SendLocalReady(r, "waiting_for_local_start")
        \/ /\ st[r] = "handshake" /\ st' = [st EXCEPT ![r] = "waiting_for_local_start"]
           /\ UNCHANGED localReady
    BY <1>1, GotoForward DEF Launch, StartCommand
  <2>3. CASE SendLocalReady(r, "waiting_for_local_start")
    BY <2>1, <2>3, SendLocalReadyReady
  <2>4. CASE /\ st[r] = "handshake" /\ st' = [st EXCEPT ![r] = "waiting_for_local_start"]
             /\ UNCHANGED localReady
    BY <1>type, <2>1, <2>4 DEF ReadyOf
  <2>5. QED BY <2>2, <2>3, <2>4
<1>2. ASSUME NEW r \in Role, HandleFrame(r) PROVE ReadyOf(q)
  <2> DEFINE f == Oldest(r)
             w == Rest(r)
  <2>frame. \/ HandlePeerReady(r, f, w) \/ HandleStartConfirmation(r, f, w)
            \/ HandleTestRequest(r, f, w) \/ HandleTestResult(r, f, w) \/ HandleWarning(r, f, w)
            \/ HandlePeerAbort(r, f, w) \/ HandleReportManifest(r, f, w)
            \/ HandleTransferFrame(r, f, w) \/ HandleComplete(r, f, w)
    BY <1>2 DEF HandleFrame, Oldest, Rest
  <2>type. f.type = "ready" => Oldest(r).type = "ready"
    OBVIOUS
  <2> HIDE DEF f, w
  <2>1. CASE HandlePeerReady(r, f, w)
    <3>1. UNCHANGED localReady /\ f.type = "ready"
      BY <2>1 DEF HandlePeerReady
    <3>2. CASE UNCHANGED <<st, peerReady>>
      BY <1>same, <3>1, <3>2
    <3>3. CASE /\ ~peerReady[r] /\ peerReady' = [peerReady EXCEPT ![r] = TRUE]
               /\ \/ st[r] = "waiting_for_local_start" /\ UNCHANGED st
                  \/ st[r] = "waiting_for_peer_start" /\ Goto(r, "ready")
      <4>1. Transition("waiting_for_peer_start", "ready") = "ready"
        BY DEF Transition, validTransitions, Forward, PeerState, Stop
      <4>2. CASE q = r
        BY <1>2, <1>type, <2>type, <3>1, <3>3, <4>1, <4>2 DEF ReadyOf, Hears, Goto
      <4>3. CASE q # r
        BY <1>type, <3>1, <3>3, <4>3 DEF ReadyOf, Goto
      <4>4. QED BY <4>2, <4>3
    <3>4. QED BY <2>1, <3>2, <3>3 DEF HandlePeerReady
  <2>2. CASE HandleReportManifest(r, f, w)
    BY <1>same, <1>goto, <2>2 DEF HandleReportManifest
  <2>3. CASE HandleComplete(r, f, w)
    BY <1>same, <1>goto, <2>3 DEF HandleComplete
  <2>4. CASE \/ HandleStartConfirmation(r, f, w) \/ HandleTestResult(r, f, w)
             \/ HandleWarning(r, f, w) \/ HandlePeerAbort(r, f, w)
             \/ HandleTestRequest(r, f, w) \/ HandleTransferFrame(r, f, w)
    BY <1>same, <2>4 DEF HandleStartConfirmation, HandleTestResult, HandleWarning,
       HandlePeerAbort, HandleTestRequest, HandleTransferFrame
  <2>5. QED BY <2>frame, <2>1, <2>2, <2>3, <2>4
<1>3. ASSUME NEW r \in Role, OnCountdownGo(r) PROVE ReadyOf(q)
  BY <1>3, <1>goto DEF OnCountdownGo
<1>4. ASSUME HandlePlanDone PROVE ReadyOf(q)
  BY <1>4, <1>goto, <1>same, <1>type DEF HandlePlanDone
<1>5. ASSUME HandshakeReject PROVE ReadyOf(q)
  BY <1>5, <1>goto, <1>type DEF HandshakeReject, Over
<1>6. ASSUME NEW r \in Role, Exit(r) PROVE ReadyOf(q)
  <2>1. fin[r].state \in {"none"} \cup Over
    BY DEF TypeOK, FinSpec, Over
  <2>2. CASE fin[r].state \in Over
    BY <1>6, <1>goto, <2>2 DEF Exit
  <2>3. CASE fin[r].state = "none"
    <3>1. Transition(st[r], "none") = st[r]
      BY <1>type DEF Transition, validTransitions, Forward, PeerState, Stop
    <3>2. st' = [st EXCEPT ![r] = st[r]] /\ UNCHANGED <<localReady, peerReady>>
      BY <1>6, <2>3, <3>1 DEF Exit, Goto
    <3>3. QED BY <1>type, <3>2 DEF ReadyOf
  <2>4. QED BY <2>1, <2>2, <2>3
<1>7. ASSUME NEW r \in Role,
             \/ QuitCommand(r) \/ CtrlC(r) \/ HandleConnErr(r) \/ HandleInterrupt(r)
             \/ HandleTransferDone(r) \/ Teardown(r)
      PROVE  ReadyOf(q)
  BY <1>7, <1>same DEF QuitCommand, CtrlC, HandleConnErr, HandleInterrupt, HandleTransferDone, Teardown
<1>8. ASSUME \/ PlanStep \/ BudgetExpires \/ CarrierDrops \/ CarrierReturns \/ HandleCallExpired
             \/ OpFinishes \/ SenderStep \/ ReceiverStep \/ LinkCut \/ HandleOpDone
      PROVE  ReadyOf(q)
  BY <1>8, <1>same DEF PlanStep, PlanCall, PlanBaseEnds, PlanBoundary, CallReturns,
       CableWindowStart, CableTestReturns, CableWindowEnd, BudgetExpires, CarrierDrops,
       CarrierReturns, OpFinishes, SenderStep, SenderWrites, SenderEnds, ReceiverStep,
       ReceiverTakes, ReceiverStops, LinkCut, HandleOpDone, HandleCallExpired
<1>9. ASSUME UNCHANGED vars PROVE ReadyOf(q)
  BY <1>9, <1>same DEF vars
<1>10. QED BY <1>1, <1>2, <1>3, <1>4, <1>5, <1>6, <1>7, <1>8, <1>9 DEF Next, Loop, Finished

\* A side that takes its peer's announcement knows of it, unless its state
\* is wrong for it.
LEMMA ReadyTaken ==
  ASSUME TypeOK, NEW r \in Role, HandleFrame(r), Oldest(r).type = "ready"
  PROVE  peerReady'[r] \/ st[r] \notin {"waiting_for_local_start", "waiting_for_peer_start"}
<1>1. peerReady \in [Role -> BOOLEAN]
  BY DEF TypeOK
<1>2. HandlePeerReady(r, Oldest(r), Rest(r))
  BY DEF HandleFrame, Oldest, Rest, HandlePeerReady, HandleStartConfirmation, HandleTestRequest,
     HandleTestResult, HandleWarning, HandlePeerAbort, HandleReportManifest,
     HandleTransferFrame, HandleComplete
<1>3. QED BY <1>1, <1>2 DEF HandlePeerReady

\* The worker takes the scheduled start.
TakesStart ==
  HandleFrame("PC2") /\ Oldest("PC2").type = "start_confirmation" /\ st["PC2"] = "ready"

\* Only that arms the worker's countdown.
LEMMA CountdownStep ==
  ASSUME TypeOK, [Next]_vars, countdown'["PC2"]
  PROVE  countdown["PC2"] \/ TakesStart
<1> USE DEF startVars, PlanFrame, XferFrame
<1>type. countdown \in [Role -> BOOLEAN] /\ "PC1" \in Role /\ "PC2" \in Role
  BY DEF TypeOK, Role
<1>same. ASSUME UNCHANGED countdown PROVE countdown["PC2"] \/ TakesStart
  BY <1>same
<1>both. ASSUME NEW r \in Role, NEW w, OnBothReady(r, w) PROVE countdown["PC2"] \/ TakesStart
  BY <1>both, <1>type DEF OnBothReady
<1>1. ASSUME NEW r \in Role, Launch(r) \/ StartCommand(r) PROVE countdown["PC2"] \/ TakesStart
  <2>1. UNCHANGED countdown \/ SendLocalReady(r, "waiting_for_local_start")
    BY <1>1, GotoForward DEF Launch, StartCommand
  <2>2. QED BY <1>same, <1>both, <2>1 DEF SendLocalReady
<1>2. ASSUME NEW r \in Role, HandleFrame(r) PROVE countdown["PC2"] \/ TakesStart
  <2> DEFINE f == Oldest(r)
             w == Rest(r)
  <2>frame. \/ HandlePeerReady(r, f, w) \/ HandleStartConfirmation(r, f, w)
            \/ HandleTestRequest(r, f, w) \/ HandleTestResult(r, f, w) \/ HandleWarning(r, f, w)
            \/ HandlePeerAbort(r, f, w) \/ HandleReportManifest(r, f, w)
            \/ HandleTransferFrame(r, f, w) \/ HandleComplete(r, f, w)
    BY <1>2 DEF HandleFrame, Oldest, Rest
  <2>1. CASE HandleStartConfirmation(r, f, w)
    BY <1>2, <1>same, <2>1 DEF HandleStartConfirmation, TakesStart
  <2> HIDE DEF f, w
  <2>2. CASE HandlePeerReady(r, f, w)
    BY <1>same, <1>both, <2>2 DEF HandlePeerReady
  <2>3. CASE \/ HandleReportManifest(r, f, w) \/ HandleTestResult(r, f, w)
             \/ HandleWarning(r, f, w) \/ HandlePeerAbort(r, f, w) \/ HandleComplete(r, f, w)
             \/ HandleTestRequest(r, f, w) \/ HandleTransferFrame(r, f, w)
    BY <1>same, <2>3 DEF HandleReportManifest, HandleTestResult, HandleWarning,
       HandlePeerAbort, HandleComplete, HandleTestRequest, HandleTransferFrame
  <2>4. QED BY <2>frame, <2>1, <2>2, <2>3
<1>3. ASSUME NEW r \in Role, OnCountdownGo(r) PROVE countdown["PC2"] \/ TakesStart
  BY <1>3, <1>type DEF OnCountdownGo
<1>4. ASSUME NEW r \in Role,
             \/ QuitCommand(r) \/ CtrlC(r) \/ HandleConnErr(r) \/ HandleInterrupt(r)
             \/ HandleTransferDone(r) \/ Teardown(r) \/ Exit(r)
      PROVE  countdown["PC2"] \/ TakesStart
  BY <1>4, <1>same DEF QuitCommand, CtrlC, HandleConnErr, HandleInterrupt, HandleTransferDone,
     Teardown, Exit
<1>5. ASSUME \/ PlanStep \/ BudgetExpires \/ CarrierDrops \/ CarrierReturns \/ HandleCallExpired
             \/ OpFinishes \/ SenderStep \/ ReceiverStep \/ LinkCut \/ HandleOpDone
             \/ HandshakeReject \/ HandlePlanDone
      PROVE  countdown["PC2"] \/ TakesStart
  BY <1>5, <1>same DEF PlanStep, PlanCall, PlanBaseEnds, PlanBoundary, CallReturns,
       CableWindowStart, CableTestReturns, CableWindowEnd, BudgetExpires, CarrierDrops,
       CarrierReturns, OpFinishes, SenderStep, SenderWrites, SenderEnds, ReceiverStep,
       ReceiverTakes, ReceiverStops, LinkCut, HandleOpDone, HandleCallExpired, HandshakeReject,
       HandlePlanDone
<1>6. ASSUME UNCHANGED vars PROVE countdown["PC2"] \/ TakesStart
  BY <1>6, <1>same DEF vars
<1>7. QED BY <1>1, <1>2, <1>3, <1>4, <1>5, <1>6 DEF Next, Loop, Finished

\* The loop of q finds its oldest frame wrong for its state.
Unfit(q) ==
  LET f == Oldest(q) IN
  \/ /\ f.type = "ready" /\ ~peerReady[q]
     /\ st[q] \notin {"waiting_for_local_start", "waiting_for_peer_start"}
  \/ f.type = "start_confirmation" /\ (q = "PC2" => st[q] # "ready")
  \/ f.type = "test_request" /\ (q = "PC2" => st[q] # "testing")
  \/ f.type \in {"report_chunk", "report_ack"} /\ ~xRan[q]
  \/ f.type = "report" /\ (q = "PC2" => st[q] \notin {"testing", "generating_report"})
  \/ f.type = "complete" /\ q = "PC1" /\ ~sentComplete
  \/ f.type = "complete" /\ q = "PC2" /\ st[q] \notin {"testing", "generating_report"}

\* It counts a strike, and only for such a frame; the third ends the session.
Strike(q) == HandleFrame(q) /\ Unfit(q) /\ strikes'[q] = strikes[q] + 1

\* How strikes and the reason of an outcome change together.
StrikeOf(q) ==
  /\ strikes'[q] = strikes[q] \/ Strike(q)
  /\ fin'[q].reason = "protocol_error" =>
       \/ fin[q].reason = "protocol_error"
       \/ Strike(q) /\ strikes[q] + 1 >= MaxInvalidState
       \/ \E m \in In(wire, q) : m.type = "abort" /\ m.arg = "protocol_error"

\* A frame counts against the side that takes it.
LEMMA FrameStrike ==
  ASSUME TypeOK, NEW r \in Role, HandleFrame(r), NEW q \in Role
  PROVE  StrikeOf(q)
<1> DEFINE f == Oldest(r)
           w == Rest(r)
<1>type. /\ strikes \in [Role -> Nat] /\ fin \in [Role -> FinSpec] /\ f \in In(wire, r)
  BY FrameTail DEF TypeOK
<1>same. ASSUME UNCHANGED <<strikes, fin>> PROVE StrikeOf(q)
  BY <1>same DEF StrikeOf
<1>warn. ASSUME WarnInvalidState(r, w), Unfit(r) PROVE StrikeOf(q)
  <2>1. strikes' = [strikes EXCEPT ![r] = @ + 1]
    BY <1>warn DEF WarnInvalidState
  <2>2. UNCHANGED fin
        \/ (strikes[r] + 1 >= MaxInvalidState /\ Finish(r, "aborted", "protocol_error", TRUE))
    BY <1>warn DEF WarnInvalidState
  <2>3. CASE q = r
    <3>1. Strike(q)
      BY <1>type, <1>warn, <2>1, <2>3 DEF Strike
    <3>2. fin'[q] = fin[q] \/ strikes[q] + 1 >= MaxInvalidState
      BY <2>2, <2>3
    <3>3. QED BY <3>1, <3>2 DEF StrikeOf
  <2>4. CASE q # r
    BY <1>type, <2>1, <2>2, <2>4 DEF StrikeOf, Finish
  <2>5. QED BY <2>3, <2>4
<1>frame. \/ HandlePeerReady(r, f, w) \/ HandleStartConfirmation(r, f, w)
          \/ HandleTestRequest(r, f, w) \/ HandleTestResult(r, f, w) \/ HandleWarning(r, f, w)
          \/ HandlePeerAbort(r, f, w) \/ HandleReportManifest(r, f, w)
          \/ HandleTransferFrame(r, f, w) \/ HandleComplete(r, f, w)
  BY DEF HandleFrame, Oldest, Rest
<1>unfit. ASSUME \/ /\ f.type = "ready" /\ ~peerReady[r]
                    /\ st[r] \notin {"waiting_for_local_start", "waiting_for_peer_start"}
                 \/ f.type = "start_confirmation" /\ (r = "PC2" => st[r] # "ready")
                 \/ f.type = "test_request" /\ (r = "PC2" => st[r] # "testing")
                 \/ f.type \in {"report_chunk", "report_ack"} /\ ~xRan[r]
                 \/ f.type = "report" /\ (r = "PC2" => st[r] \notin {"testing", "generating_report"})
                 \/ f.type = "complete" /\ r = "PC1" /\ ~sentComplete
                 \/ f.type = "complete" /\ r = "PC2" /\ st[r] \notin {"testing", "generating_report"}
          PROVE  Unfit(r)
  BY <1>unfit DEF Unfit
<1> HIDE DEF f, w
<1>1. CASE HandlePeerReady(r, f, w)
  BY <1>1, <1>same, <1>warn, <1>unfit DEF HandlePeerReady
<1>2. CASE HandleStartConfirmation(r, f, w)
  BY <1>2, <1>same, <1>warn, <1>unfit DEF HandleStartConfirmation
<1>3. CASE HandleTestRequest(r, f, w)
  BY <1>3, <1>same, <1>warn, <1>unfit DEF HandleTestRequest, RefusesRequest
<1>4. CASE HandleTestResult(r, f, w) \/ HandleWarning(r, f, w)
  BY <1>4, <1>same DEF HandleTestResult, HandleWarning, lifeVars
<1>5. CASE HandlePeerAbort(r, f, w)
  <2>1. UNCHANGED strikes /\ f.type = "abort"
        /\ fin' = [fin EXCEPT ![r] = [state |-> "aborted", reason |-> f.arg, farewell |-> FALSE]]
    BY <1>5 DEF HandlePeerAbort, Finish
  <2>2. fin'[q] = fin[q] \/ (q = r /\ fin'[q].reason = f.arg)
    BY <1>type, <2>1
  <2>3. QED BY <1>type, <2>1, <2>2 DEF StrikeOf
<1>6. CASE HandleReportManifest(r, f, w)
  BY <1>6, <1>same, <1>warn, <1>unfit DEF HandleReportManifest
<1>7. CASE HandleTransferFrame(r, f, w)
  BY <1>7, <1>same, <1>warn, <1>unfit DEF HandleTransferFrame, RouteTransferFrame
<1>8. CASE HandleComplete(r, f, w)
  <2>1. CASE UNCHANGED strikes /\ Finish(r, "completed", "none", FALSE)
    BY <1>type, <2>1 DEF Finish, StrikeOf
  <2>2. QED BY <1>8, <1>warn, <1>unfit, <2>1 DEF HandleComplete, Role
<1>9. QED BY <1>frame, <1>1, <1>2, <1>3, <1>4, <1>5, <1>6, <1>7, <1>8

\* Every step changes strikes and reasons in one of these ways.
LEMMA StrikeStep ==
  ASSUME TypeOK, [Next]_vars, NEW q \in Role
  PROVE  StrikeOf(q)
<1> USE DEF lifeVars, PlanFrame, XferFrame
<1>fin. fin \in [Role -> FinSpec] BY DEF TypeOK
<1>same. ASSUME UNCHANGED <<strikes, fin>> PROVE StrikeOf(q)
  BY <1>same DEF StrikeOf
<1>end. ASSUME NEW r \in Role, NEW s, NEW y \in Reason \ {"protocol_error"}, NEW b, Finish(r, s, y, b),
               UNCHANGED strikes
        PROVE  StrikeOf(q)
  BY <1>end, <1>fin DEF Finish, StrikeOf
<1>1. ASSUME NEW r \in Role, HandleFrame(r) PROVE StrikeOf(q)
  BY <1>1, FrameStrike
<1>2. ASSUME NEW r \in Role, QuitCommand(r) \/ HandleConnErr(r) \/ HandleInterrupt(r)
      PROVE  StrikeOf(q)
  BY <1>2, <1>end DEF QuitCommand, HandleConnErr, HandleInterrupt, Reason
<1>3. ASSUME HandleCallExpired PROVE StrikeOf(q)
  BY <1>3, <1>end DEF HandleCallExpired, Reason, Role
<1>4. ASSUME HandlePlanDone PROVE StrikeOf(q)
  BY <1>4, <1>same, <1>end DEF HandlePlanDone, Reason, Role
<1>5. ASSUME HandshakeReject PROVE StrikeOf(q)
  BY <1>5, <1>end DEF HandshakeReject, Reason, Role
<1>6. ASSUME NEW r \in Role,
             \/ Launch(r) \/ StartCommand(r) \/ CtrlC(r) \/ OnCountdownGo(r)
             \/ HandleTransferDone(r) \/ Teardown(r) \/ Exit(r)
      PROVE  StrikeOf(q)
  BY <1>6, <1>same DEF Launch, StartCommand, CtrlC, OnCountdownGo, HandleTransferDone, Teardown, Exit
<1>7. ASSUME \/ PlanStep \/ BudgetExpires \/ CarrierDrops \/ CarrierReturns
             \/ OpFinishes \/ SenderStep \/ ReceiverStep \/ LinkCut \/ HandleOpDone
      PROVE  StrikeOf(q)
  BY <1>7, <1>same DEF PlanStep, PlanCall, PlanBaseEnds, PlanBoundary, CallReturns,
       CableWindowStart, CableTestReturns, CableWindowEnd, BudgetExpires, CarrierDrops,
       CarrierReturns, OpFinishes, SenderStep, SenderWrites, SenderEnds, ReceiverStep,
       ReceiverTakes, ReceiverStops, LinkCut, HandleOpDone
<1>8. ASSUME UNCHANGED vars PROVE StrikeOf(q)
  BY <1>8, <1>same DEF vars
<1>9. QED BY <1>1, <1>2, <1>3, <1>4, <1>5, <1>6, <1>7, <1>8 DEF Next, Loop, Finished

-----------------------------------------------------------------------------
(* The order of the frames on a wire                                       *)

\* Every frame of s that stands before another is related to it by Rel.
Rel(a, b) ==
  /\ a.type = "start_confirmation" => b.type # "start_confirmation"
  /\ a.type = "test_request" /\ b.type = "test_request" => a.id < b.id
  /\ a.type \in {"report", "report_chunk", "complete", "warning", "abort"} =>
       b.type \notin {"test_request", "report"}
  /\ a.type \in {"complete", "warning", "abort"} => b.type # "report_chunk"
  /\ a.type \in {"report", "report_chunk"} => b.type \notin {"ready", "start_confirmation"}
  /\ a.type = "report_ack" => b.type # "report_ack"
Ordered(s) == \A i, j \in 1..Len(s) : i < j => Rel(s[i], s[j])

\* Every frame of type u stands behind one of type t, or t is known.
Preceded(s, t, u, known) ==
  \A j \in 1..Len(s) : s[j].type = u => known \/ \E i \in 1..Len(s) : i < j /\ s[i].type = t

\* A frame that every waiting one may precede keeps the order.
LEMMA OrderedAppend ==
  ASSUME NEW s \in Seq(Frame), NEW m \in Frame, Ordered(s), \A i \in 1..Len(s) : Rel(s[i], m)
  PROVE  Ordered(Append(s, m))
<1> DEFINE z == Append(s, m)
<1>1. Len(z) = Len(s) + 1 /\ z[Len(s) + 1] = m /\ \A i \in 1..Len(s) : z[i] = s[i]
  OBVIOUS
<1>2. Len(s) \in Nat
  OBVIOUS
<1> HIDE DEF z
<1>3. SUFFICES ASSUME NEW i \in 1..Len(z), NEW j \in 1..Len(z), i < j PROVE Rel(z[i], z[j])
  BY DEF Ordered, z
<1>4. i \in 1..Len(s) /\ (j \in 1..Len(s) \/ j = Len(s) + 1)
  BY <1>1, <1>2, <1>3
<1>5. QED BY <1>1, <1>3, <1>4 DEF Ordered

\* Taking the oldest frame keeps it, and the rest may follow that frame.
LEMMA OrderedTail ==
  ASSUME NEW s \in Seq(Frame), s # <<>>, Ordered(s)
  PROVE  /\ Ordered(Tail(s))
         /\ \A j \in 1..Len(Tail(s)) : Rel(Head(s), Tail(s)[j])
<1>1. /\ Len(Tail(s)) = Len(s) - 1 /\ Len(s) \in Nat /\ Len(s) > 0 /\ Head(s) = s[1]
      /\ \A i \in 1..Len(Tail(s)) : Tail(s)[i] = s[i + 1]
  OBVIOUS
<1>2. \A i, j \in 1..Len(Tail(s)) : i < j => Rel(Tail(s)[i], Tail(s)[j])
  <2>1. SUFFICES ASSUME NEW i \in 1..Len(Tail(s)), NEW j \in 1..Len(Tail(s)), i < j
                 PROVE  Rel(Tail(s)[i], Tail(s)[j])
    OBVIOUS
  <2>2. i + 1 \in 1..Len(s) /\ j + 1 \in 1..Len(s) /\ i + 1 < j + 1
    BY <1>1, <2>1
  <2>3. QED BY <1>1, <2>2 DEF Ordered
<1>3. \A j \in 1..Len(Tail(s)) : Rel(Head(s), Tail(s)[j])
  <2>1. SUFFICES ASSUME NEW j \in 1..Len(Tail(s)) PROVE Rel(Head(s), Tail(s)[j])
    OBVIOUS
  <2>2. 1 \in 1..Len(s) /\ j + 1 \in 1..Len(s) /\ 1 < j + 1
    BY <1>1
  <2>3. QED BY <1>1, <2>2 DEF Ordered
<1>4. QED BY <1>2, <1>3 DEF Ordered

\* Losing the newest frames keeps it.
LEMMA OrderedPrefix ==
  ASSUME NEW s \in Seq(Frame), NEW n \in 0..Len(s), Ordered(s)
  PROVE  Ordered(SubSeq(s, 1, n))
<1>1. /\ Len(SubSeq(s, 1, n)) = n /\ Len(s) \in Nat
      /\ \A i \in 1..n : SubSeq(s, 1, n)[i] = s[i] /\ i \in 1..Len(s)
  OBVIOUS
<1>2. QED BY <1>1 DEF Ordered

\* The same for Preceded.
LEMMA PrecededAppend ==
  ASSUME NEW s \in Seq(Frame), NEW m \in Frame, NEW t, NEW u, NEW k,
         Preceded(s, t, u, k), m.type = u => k \/ \E i \in 1..Len(s) : s[i].type = t
  PROVE  Preceded(Append(s, m), t, u, k)
<1> DEFINE z == Append(s, m)
<1>1. Len(z) = Len(s) + 1 /\ z[Len(s) + 1] = m /\ \A i \in 1..Len(s) : z[i] = s[i]
  OBVIOUS
<1>2. Len(s) \in Nat
  OBVIOUS
<1> HIDE DEF z
<1>3. SUFFICES ASSUME NEW j \in 1..Len(z), z[j].type = u, ~k
               PROVE  \E i \in 1..Len(z) : i < j /\ z[i].type = t
  BY DEF Preceded, z
<1>4. CASE j \in 1..Len(s)
  <2>1. PICK i \in 1..Len(s) : i < j /\ s[i].type = t
    BY <1>1, <1>3, <1>4 DEF Preceded
  <2>2. QED BY <1>1, <1>2, <2>1
<1>5. CASE j = Len(s) + 1
  <2>1. PICK i \in 1..Len(s) : s[i].type = t
    BY <1>1, <1>3, <1>5
  <2>2. QED BY <1>1, <1>2, <1>5, <2>1
<1>6. QED BY <1>1, <1>2, <1>4, <1>5

\* Taking the oldest frame, which becomes known.
LEMMA PrecededTail ==
  ASSUME NEW s \in Seq(Frame), s # <<>>, NEW t, NEW u, NEW k, NEW l,
         Preceded(s, t, u, k), k => l, Head(s).type = t => l
  PROVE  Preceded(Tail(s), t, u, l)
<1>1. /\ Len(Tail(s)) = Len(s) - 1 /\ Len(s) \in Nat /\ Len(s) > 0 /\ Head(s) = s[1]
      /\ \A i \in 1..Len(Tail(s)) : Tail(s)[i] = s[i + 1]
  OBVIOUS
<1>2. SUFFICES ASSUME NEW j \in 1..Len(Tail(s)), Tail(s)[j].type = u, ~l
               PROVE  \E i \in 1..Len(Tail(s)) : i < j /\ Tail(s)[i].type = t
  BY DEF Preceded
<1>3. j + 1 \in 1..Len(s) /\ s[j + 1].type = u
  BY <1>1, <1>2
<1>4. PICK i \in 1..Len(s) : i < j + 1 /\ s[i].type = t
  BY <1>2, <1>3 DEF Preceded
<1>5. i # 1
  BY <1>1, <1>2, <1>4
<1>6. i - 1 \in 1..Len(Tail(s)) /\ i - 1 < j /\ Tail(s)[i - 1] = s[i]
  BY <1>1, <1>2, <1>4, <1>5
<1>7. QED BY <1>4, <1>6

\* Losing the newest frames.
LEMMA PrecededPrefix ==
  ASSUME NEW s \in Seq(Frame), NEW n \in 0..Len(s), NEW t, NEW u, NEW k, Preceded(s, t, u, k)
  PROVE  Preceded(SubSeq(s, 1, n), t, u, k)
<1>1. /\ Len(SubSeq(s, 1, n)) = n /\ Len(s) \in Nat
      /\ \A i \in 1..n : SubSeq(s, 1, n)[i] = s[i] /\ i \in 1..Len(s)
  OBVIOUS
<1>2. SUFFICES ASSUME NEW j \in 1..n, s[j].type = u, ~k
               PROVE  \E i \in 1..n : i < j /\ s[i].type = t
  BY <1>1 DEF Preceded
<1>3. PICK i \in 1..Len(s) : i < j /\ s[i].type = t
  BY <1>1, <1>2 DEF Preceded
<1>4. QED BY <1>3

\* The connection does not come back.
LEMMA LiveStep == ASSUME TypeOK, [Next]_vars, Live' PROVE Live /\ ~LinkCut
<1>1. LifeOf("PC1") /\ LifeOf("PC2")
  BY LifeStep DEF Role
<1>2. td["PC1"] = "open" /\ td["PC2"] = "open"
  BY <1>1 DEF Live, LifeOf
<1>3. link' = link \/ link' = "cut"
  <2> USE DEF netVars, PlanFrame, XferFrame
  <2>1. ASSUME NEW r \in Role, HandleFrame(r) PROVE UNCHANGED link
    BY <2>1 DEF HandleFrame, HandlePeerReady, HandleStartConfirmation, HandleTestRequest,
       HandleTestResult, HandleWarning, HandlePeerAbort, HandleReportManifest,
       HandleTransferFrame, HandleComplete
  <2>2. ASSUME NEW r \in Role,
               \/ Launch(r) \/ StartCommand(r) \/ QuitCommand(r) \/ CtrlC(r) \/ HandleConnErr(r)
               \/ HandleInterrupt(r) \/ Exit(r) \/ Teardown(r) \/ HandleTransferDone(r)
               \/ OnCountdownGo(r)
        PROVE  UNCHANGED link
    BY <2>2 DEF Launch, StartCommand, QuitCommand, CtrlC, HandleConnErr, HandleInterrupt, Exit,
       Teardown, HandleTransferDone, OnCountdownGo
  <2>3. ASSUME \/ CarrierDrops \/ CarrierReturns \/ HandshakeReject \/ OpFinishes \/ HandlePlanDone
               \/ HandleOpDone \/ SenderStep \/ ReceiverStep \/ HandleCallExpired \/ BudgetExpires
        PROVE  UNCHANGED link
    BY <2>3 DEF CarrierDrops, CarrierReturns, HandshakeReject, OpFinishes, HandleOpDone,
       SenderStep, SenderWrites, SenderEnds, ReceiverStep, ReceiverTakes, ReceiverStops,
       HandleCallExpired, BudgetExpires, HandlePlanDone
  <2>4. ASSUME PlanStep PROVE UNCHANGED link
    BY <2>4 DEF PlanStep, PlanCall, PlanBaseEnds, PlanBoundary, CallReturns,
       CableWindowStart, CableTestReturns, CableWindowEnd
  <2>5. ASSUME UNCHANGED vars PROVE UNCHANGED link
    BY <2>5 DEF vars
  <2>6. ASSUME LinkCut PROVE link' = "cut"
    BY <2>6 DEF LinkCut
  <2>7. QED BY <2>1, <2>2, <2>3, <2>4, <2>5, <2>6 DEF Next, Loop, Finished
<1>4. LinkCut => link' = "cut"
  BY DEF LinkCut
<1>5. QED BY <1>2, <1>3, <1>4 DEF Live

\* A frame stays on its wire until it is taken or the connection is gone.
LEMMA StaysIn ==
  ASSUME TypeOK, [Next]_vars, Live', NEW q \in Role, NEW m \in In(wire, q)
  PROVE  \/ m \in In(wire', q)
         \/ HandleFrame(q) /\ m = Oldest(q)
<1>seq. wire[q] \in Seq(Frame) /\ ~LinkCut /\ td'[q] = "open"
  BY LiveStep DEF TypeOK, Live, Role
<1>m. PICK i \in 1..Len(wire[q]) : m = wire[q][i]
  BY DEF In
<1>app. ASSUME NEW s \in Seq(Frame), NEW n \in Frame, NEW k \in 1..Len(s)
        PROVE  k \in 1..Len(Append(s, n)) /\ Append(s, n)[k] = s[k] /\ Append(s, n) \in Seq(Frame)
  OBVIOUS
<1>1. CASE wire'[q] = wire[q]
  BY <1>1 DEF In
<1>2. CASE wire[q] # <<>> /\ wire'[q] = Tail(wire[q]) /\ HandleFrame(q)
  <2>1. CASE i = 1
    BY <1>2, <1>seq, <1>m, <2>1 DEF Oldest
  <2>2. CASE i # 1
    <3>1. i - 1 \in 1..Len(Tail(wire[q])) /\ Tail(wire[q])[i - 1] = wire[q][i]
      BY <1>2, <1>seq, <2>2
    <3>2. QED BY <1>2, <1>m, <3>1 DEF In
  <2>3. QED BY <2>1, <2>2
<1>3. ASSUME NEW n \in Frame, wire'[q] = Append(wire[q], n) PROVE m \in In(wire', q)
  BY <1>3, <1>seq, <1>m, <1>app DEF In
<1>4. ASSUME NEW n \in Frame, NEW o \in Frame, wire'[q] = Append(Append(wire[q], n), o)
      PROVE  m \in In(wire', q)
  <2> DEFINE z == Append(wire[q], n)
  <2>1. z \in Seq(Frame) /\ i \in 1..Len(z) /\ z[i] = wire[q][i]
    BY <1>seq, <1>app
  <2>2. wire'[q] = Append(z, o)
    BY <1>4
  <2> HIDE DEF z
  <2>3. QED BY <1>m, <1>app, <2>1, <2>2 DEF In
<1>5. QED BY <1>seq, <1>1, <1>2, <1>3, <1>4, WireStep DEF WireOf

-----------------------------------------------------------------------------
(* Readiness and the synchronized start                                    *)

\* A side waits for its peer or goes on exactly as the announcements it made
\* and heard say; what it heard was announced.
Readiness ==
  \A r \in Role :
    /\ localReady[r] => st[r] \notin Waiting \ {"waiting_for_peer_start"}
    /\ st[r] = "waiting_for_peer_start" => ~peerReady[r] /\ localReady[r]
    /\ st[r] \in {"ready", "testing", "generating_report"} => peerReady[r]
    /\ st[r] \notin {"initializing", "preflight", "listening", "connecting"}
    /\ peerReady[r] => localReady[Peer(r)]
    /\ \A m \in In(wire, r) : m.type = "ready" => localReady[Peer(r)]

\* That is preserved.
LEMMA ReadinessStep ==
  ASSUME TypeOK, [Next]_vars, Readiness
  PROVE  Readiness'
<1> SUFFICES ASSUME NEW r \in Role
             PROVE  /\ localReady'[r] => st'[r] \notin Waiting \ {"waiting_for_peer_start"}
                    /\ st'[r] = "waiting_for_peer_start" => ~peerReady'[r] /\ localReady'[r]
                    /\ st'[r] \in {"ready", "testing", "generating_report"} => peerReady'[r]
                    /\ st'[r] \notin {"initializing", "preflight", "listening", "connecting"}
                    /\ peerReady'[r] => localReady'[Peer(r)]
                    /\ \A m \in In(wire', r) : m.type = "ready" => localReady'[Peer(r)]
  BY DEF Readiness, In
<1>type. Peer(r) \in Role /\ st[r] \in PeerState /\ localReady \in [Role -> BOOLEAN]
         /\ peerReady \in [Role -> BOOLEAN] /\ localReady' \in [Role -> BOOLEAN]
         /\ peerReady' \in [Role -> BOOLEAN]
  BY PeerType, TypeStep DEF TypeOK
<1>old. /\ localReady[r] => st[r] \notin Waiting \ {"waiting_for_peer_start"}
        /\ st[r] = "waiting_for_peer_start" => ~peerReady[r] /\ localReady[r]
        /\ st[r] \in {"ready", "testing", "generating_report"} => peerReady[r]
        /\ st[r] \notin {"initializing", "preflight", "listening", "connecting"}
        /\ peerReady[r] => localReady[Peer(r)]
        /\ \A m \in In(wire, r) : m.type = "ready" => localReady[Peer(r)]
  BY DEF Readiness
<1>peer. localReady[Peer(r)] => localReady'[Peer(r)]
  <2>1. ReadyOf(Peer(r))
    BY <1>type, ReadyStep
  <2>2. QED BY <2>1 DEF ReadyOf, Announces, Hears
<1>1. \A m \in In(wire', r) : m.type = "ready" => localReady'[Peer(r)]
  <2>1. SUFFICES ASSUME NEW m \in In(wire', r), m.type = "ready" PROVE localReady'[Peer(r)]
    OBVIOUS
  <2>2. CASE m \in In(wire, r)
    BY <1>old, <1>peer, <2>1, <2>2
  <2>3. CASE Sends(r, m)
    BY <2>1, <2>3 DEF Sends
  <2>4. QED BY <2>2, <2>3, NewFrame
<1>2. CASE Announces(r)
  BY <1>1, <1>2, <1>old, <1>peer, <1>type DEF Announces, Waiting, Early
<1>3. CASE Hears(r)
  <2>1. Oldest(r) \in In(wire, r)
    BY <1>3, FrameTail DEF Hears
  <2>2. localReady'[Peer(r)]
    BY <1>3, <1>old, <1>peer, <2>1 DEF Hears
  <2>3. QED BY <1>1, <1>3, <1>old, <1>type, <2>2 DEF Hears, Waiting, Early
<1>4. CASE /\ localReady'[r] = localReady[r] /\ peerReady'[r] = peerReady[r]
           /\ \/ st'[r] = st[r]
              \/ st[r] = "handshake" /\ st'[r] = "waiting_for_local_start"
              \/ st[r] = "ready" /\ st'[r] = "testing"
              \/ st[r] = "testing" /\ st'[r] = "generating_report"
              \/ st'[r] \in Over
  BY <1>1, <1>4, <1>old, <1>peer, <1>type DEF Waiting, Early, Over, Stop
<1>5. QED BY <1>2, <1>3, <1>4, ReadyStep DEF ReadyOf

\* A frame written over a live connection reaches the peer's end of the wire.
LEMMA PutOver ==
  ASSUME NEW w \in [Role -> Seq(Frame)], NEW m \in Frame, Live
  PROVE  Put(w, "PC1", m)["PC2"] = Append(w["PC2"], m) /\ Put(w, "PC1", m) \in [Role -> Seq(Frame)]
<1>1. "PC1" \in Role /\ "PC2" \in Role /\ Peer("PC1") = "PC2"
  BY DEF Role, Peer
<1>2. Put(w, "PC1", m) = [w EXCEPT !["PC2"] = Append(@, m)]
  BY <1>1 DEF Put, Live
<1>3. Append(w["PC2"], m) \in Seq(Frame)
  BY <1>1
<1>4. QED BY <1>1, <1>2, <1>3

\* Announcing readiness over a live connection puts the frame on the wire.
LEMMA AnnounceWritten ==
  ASSUME TypeOK, [Next]_vars, Live, localReady'["PC1"], ~localReady["PC1"]
  PROVE  \E m \in In(wire', "PC2") : m.type = "ready"
<1> USE DEF startVars, PlanFrame, XferFrame
<1>type. /\ localReady \in [Role -> BOOLEAN] /\ "PC1" \in Role /\ "PC2" \in Role
         /\ wire \in [Role -> Seq(Frame)] /\ Peer("PC1") = "PC2"
  BY DEF TypeOK, Role, Peer
<1>1. ASSUME NEW r \in Role, HandleFrame(r) PROVE UNCHANGED localReady
  BY <1>1 DEF HandleFrame, HandlePeerReady, HandleStartConfirmation, HandleTestRequest,
     HandleTestResult, HandleWarning, HandlePeerAbort, HandleReportManifest,
     HandleTransferFrame, HandleComplete
<1>2. ASSUME NEW r \in Role,
             \/ QuitCommand(r) \/ CtrlC(r) \/ HandleConnErr(r) \/ OnCountdownGo(r)
             \/ HandleInterrupt(r) \/ Exit(r) \/ Teardown(r) \/ HandleTransferDone(r)
      PROVE  UNCHANGED localReady
  BY <1>2 DEF QuitCommand, CtrlC, HandleConnErr, HandleInterrupt, Exit,
     Teardown, HandleTransferDone, OnCountdownGo
<1>3. ASSUME \/ CarrierDrops \/ CarrierReturns \/ HandshakeReject \/ OpFinishes \/ HandlePlanDone
             \/ HandleOpDone \/ SenderStep \/ ReceiverStep \/ HandleCallExpired \/ BudgetExpires
             \/ PlanStep \/ LinkCut
      PROVE  UNCHANGED localReady
  BY <1>3 DEF CarrierDrops, CarrierReturns, HandshakeReject, OpFinishes, HandleOpDone,
     SenderStep, SenderWrites, SenderEnds, ReceiverStep, ReceiverTakes, ReceiverStops,
     HandleCallExpired, BudgetExpires, HandlePlanDone, LinkCut, PlanStep, PlanCall, PlanBaseEnds,
     PlanBoundary, CallReturns, CableWindowStart, CableTestReturns, CableWindowEnd
<1>4. ASSUME NEW r \in Role, Launch(r) \/ StartCommand(r)
      PROVE  \E m \in In(wire', "PC2") : m.type = "ready"
  <2>1. SendLocalReady(r, "waiting_for_local_start") \/ UNCHANGED localReady
    BY <1>4, GotoForward DEF Launch, StartCommand
  <2>2. r = "PC1" /\ SendLocalReady(r, "waiting_for_local_start")
    BY <1>type, <2>1 DEF SendLocalReady
  <2> DEFINE m == Msg("ready", 0, "none")
             c == Msg("start_confirmation", 0, "none")
             w == Put(wire, "PC1", m)
  <2>3. m \in Frame /\ m.type = "ready" /\ c \in Frame
    BY MsgType DEF FrameType, ArgOf, Msg
  <2>4. wire' = w \/ wire' = Put(w, "PC1", c)
    BY <1>type, <2>2 DEF SendLocalReady, OnBothReady
  <2>5. w["PC2"] = Append(wire["PC2"], m) /\ w \in [Role -> Seq(Frame)]
    <3>1. m \in Frame BY <2>3
    <3> HIDE DEF m
    <3>2. QED BY <1>type, <3>1, PutOver
  <2>6. Put(w, "PC1", c)["PC2"] = Append(w["PC2"], c)
    <3>1. c \in Frame /\ w \in [Role -> Seq(Frame)] BY <2>3, <2>5
    <3> HIDE DEF c, w
    <3>2. QED BY <3>1, PutOver
  <2>7. m \in In(w, "PC2")
    <3>1. m \in Frame BY <2>3
    <3> HIDE DEF m, w
    <3>2. Append(wire["PC2"], m)[Len(wire["PC2"]) + 1] = m
          /\ Len(wire["PC2"]) + 1 \in 1..Len(Append(wire["PC2"], m))
      BY <1>type, <3>1
    <3>3. QED BY <2>5, <3>2 DEF In
  <2>8. m \in In(Put(w, "PC1", c), "PC2")
    <3>1. c \in Frame /\ w["PC2"] \in Seq(Frame) BY <1>type, <2>3, <2>5
    <3> HIDE DEF m, w, c
    <3>2. PICK i \in 1..Len(w["PC2"]) : m = w["PC2"][i]
      BY <2>7 DEF In
    <3>3. i \in 1..Len(Append(w["PC2"], c)) /\ Append(w["PC2"], c)[i] = m
      BY <3>1, <3>2
    <3>4. QED BY <2>6, <3>3 DEF In
  <2> HIDE DEF m, w, c
  <2>9. QED BY <2>3, <2>4, <2>7, <2>8
<1>5. ASSUME UNCHANGED vars PROVE UNCHANGED localReady
  BY <1>5 DEF vars
<1>6. QED BY <1>type, <1>1, <1>2, <1>3, <1>4, <1>5 DEF Next, Loop, Finished

\* A worker that takes the coordinator's announcement knows of it.
LEMMA ReadyKnown ==
  ASSUME TypeOK, [Next]_vars, EndOrder, Readiness, HandleFrame("PC2"), Oldest("PC2").type = "ready"
  PROVE  peerReady'["PC2"]
<1>type. "PC2" \in Role /\ peerReady' \in [Role -> BOOLEAN] /\ st["PC2"] \in PeerState
  BY TypeStep DEF TypeOK, Role
<1>1. fin["PC2"] = NoFin /\ st["PC2"] # "handshake"
  BY FrameTail, <1>type DEF Running
<1>2. st["PC2"] \notin Over
  BY <1>type, <1>1 DEF EndOrder, Finishing
<1>3. CASE st["PC2"] \in {"waiting_for_local_start", "waiting_for_peer_start"}
  BY <1>type, <1>3, ReadyTaken
<1>4. CASE st["PC2"] \notin {"waiting_for_local_start", "waiting_for_peer_start"}
  <2>1. peerReady["PC2"]
    BY <1>type, <1>1, <1>2, <1>4 DEF Readiness, PeerState, Over, Stop
  <2>2. QED BY <1>type, <2>1, ReadyStep DEF ReadyOf, Announces, Hears
<1>5. QED BY <1>3, <1>4

\* The coordinator's announcement reaches the worker while the connection lives.
ReadyDelivered ==
  localReady["PC1"] /\ Live => peerReady["PC2"] \/ \E m \in In(wire, "PC2") : m.type = "ready"

\* That is preserved.
LEMMA ReadyDeliveredStep ==
  ASSUME TypeOK, [Next]_vars, EndOrder, Readiness, ReadyDelivered
  PROVE  ReadyDelivered'
<1>1. SUFFICES ASSUME localReady'["PC1"], Live'
               PROVE  peerReady'["PC2"] \/ \E m \in In(wire', "PC2") : m.type = "ready"
  BY DEF ReadyDelivered, In
<1>type. "PC1" \in Role /\ "PC2" \in Role /\ peerReady' \in [Role -> BOOLEAN] /\ st["PC2"] \in PeerState
  BY TypeStep DEF TypeOK, Role
<1>live. Live
  BY <1>1, LiveStep
<1>2. CASE ~localReady["PC1"]
  BY <1>1, <1>2, <1>live, AnnounceWritten
<1>3. ASSUME peerReady["PC2"] PROVE peerReady'["PC2"]
  BY <1>3, <1>type, ReadyStep DEF ReadyOf, Announces, Hears
<1>4. ASSUME NEW m \in In(wire, "PC2"), m.type = "ready", m \notin In(wire', "PC2")
      PROVE  peerReady'["PC2"]
  <2>1. HandleFrame("PC2") /\ Oldest("PC2").type = "ready"
    BY <1>1, <1>4, <1>type, StaysIn
  <2>2. QED BY <2>1, ReadyKnown
<1>5. QED BY <1>2, <1>3, <1>4, <1>live DEF ReadyDelivered

\* A side that left the waiting states does not come back to them.
LEMMA WaitingLeft ==
  ASSUME TypeOK, [Next]_vars, NEW q \in Role, st[q] \notin Waiting
  PROVE  st'[q] \notin Waiting
<1>1. /\ {"handshake", "waiting_for_local_start", "waiting_for_peer_start"} \subseteq Waiting
      /\ Waiting \cap ({"testing", "generating_report"} \cup Over) = {}
  BY DEF Waiting, Early, Over, Stop
<1>2. QED BY <1>1, ReadyStep DEF ReadyOf, Announces, Hears

\* The worker tests only after its countdown.
LEMMA TestingEntered ==
  ASSUME TypeOK, [Next]_vars, st'["PC2"] \in {"testing", "generating_report"}
  PROVE  st["PC2"] \in {"testing", "generating_report"} \/ countdown["PC2"]
<1>type. st["PC2"] \in PeerState /\ fin["PC2"].state \in {"none"} \cup Over /\ "PC2" \in Role
  BY DEF TypeOK, Role, FinSpec, Over
<1>early. {"testing", "generating_report"} \cap (Early \cup Stop) = {}
  BY DEF Early, Stop
<1>1. CASE Advances("PC2")
  BY <1>1, <1>early DEF Advances, OnCountdownGo
<1>2. CASE st'["PC2"] = Transition(st["PC2"], fin["PC2"].state)
  <2>1. Transition(st["PC2"], fin["PC2"].state) \in {st["PC2"], fin["PC2"].state}
    BY DEF Transition
  <2>2. fin["PC2"].state \notin {"testing", "generating_report"}
    BY <1>type DEF Over, Stop
  <2>3. QED BY <1>2, <2>1, <2>2
<1>3. QED BY <1>type, <1>early, <1>1, <1>2, LifeStep DEF LifeOf

\* The coordinator schedules the start once: its confirmation waits for a
\* worker that announced itself and has not started, and a worker that starts
\* was told to.
StartOnce ==
  /\ \A m \in In(wire, "PC2") : m.type = "start_confirmation" =>
       /\ st["PC1"] \notin Waiting
       /\ st["PC2"] \notin {"testing", "generating_report"}
       /\ ~countdown["PC2"] /\ localReady["PC2"]
  /\ countdown["PC2"] \/ st["PC2"] \in {"testing", "generating_report"} => st["PC1"] \notin Waiting

\* That is preserved.
LEMMA StartOnceStep ==
  ASSUME TypeOK, [Next]_vars, Ordered(wire["PC2"]), Readiness, Readiness', StartOnce
  PROVE  StartOnce'
<1>type. /\ "PC1" \in Role /\ "PC2" \in Role /\ Peer("PC1") = "PC2" /\ wire["PC2"] \in Seq(Frame)
         /\ localReady' \in [Role -> BOOLEAN] /\ localReady \in [Role -> BOOLEAN]
  BY TypeStep DEF TypeOK, Role, Peer
<1>left. st["PC1"] \notin Waiting => st'["PC1"] \notin Waiting
  BY <1>type, WaitingLeft
<1>told. TakesStart => /\ Oldest("PC2") \in In(wire, "PC2")
                       /\ Oldest("PC2").type = "start_confirmation"
                       /\ st["PC1"] \notin Waiting
  BY <1>type, FrameTail DEF TakesStart, StartOnce
<1>1. countdown'["PC2"] \/ st'["PC2"] \in {"testing", "generating_report"} =>
        st["PC1"] \notin Waiting
  BY <1>told, CountdownStep, TestingEntered DEF StartOnce
<1>2. ASSUME NEW m \in In(wire', "PC2"), m.type = "start_confirmation"
      PROVE  /\ st'["PC1"] \notin Waiting
             /\ st'["PC2"] \notin {"testing", "generating_report"}
             /\ ~countdown'["PC2"] /\ localReady'["PC2"]
  <2>1. CASE m \in In(wire, "PC2")
    <3>1. /\ st["PC1"] \notin Waiting /\ st["PC2"] \notin {"testing", "generating_report"}
          /\ ~countdown["PC2"] /\ localReady["PC2"]
      BY <1>2, <2>1 DEF StartOnce
    <3>2. ~TakesStart
      <4>1. SUFFICES ASSUME TakesStart PROVE FALSE
        OBVIOUS
      <4>2. wire["PC2"] # <<>> /\ wire'["PC2"] = Tail(wire["PC2"])
        BY <1>type, <4>1, FrameTail DEF TakesStart
      <4>3. PICK j \in 1..Len(Tail(wire["PC2"])) : m = Tail(wire["PC2"])[j]
        BY <4>2 DEF In
      <4>4. Rel(Oldest("PC2"), m)
        BY <1>type, <4>2, <4>3, OrderedTail DEF Oldest
      <4>5. QED BY <1>2, <4>1, <4>4 DEF Rel, TakesStart
    <3>3. localReady'["PC2"]
      BY <1>type, <3>1, ReadyStep DEF ReadyOf, Announces, Hears
    <3>4. QED BY <1>left, <3>1, <3>2, <3>3, CountdownStep, TestingEntered
  <2>2. CASE Sends("PC2", m)
    <3>1. st["PC1"] \in Waiting /\ st'["PC1"] = "ready" /\ peerReady'["PC1"]
      BY <1>2, <2>2 DEF Sends
    <3>2. localReady'["PC2"]
      BY <1>type, <3>1 DEF Readiness
    <3>3. QED BY <1>1, <3>1, <3>2 DEF Waiting
  <2>3. QED BY <1>type, <2>1, <2>2, NewFrame
<1>3. QED BY <1>1, <1>2, <1>left DEF StartOnce, In

-----------------------------------------------------------------------------
(* The report transfer, as far as the loops route its frames               *)

\* A loop routes a transfer frame.
Routes(r) == HandleFrame(r) /\ HandleTransferFrame(r, Oldest(r), Rest(r))

\* Only these steps touch the transfer's routing.
LEMMA TransferWriters ==
  ASSUME TypeOK, [Next]_vars
  PROVE  \/ UNCHANGED <<xOn, xRan, xBuf, receiver>>
         \/ HandlePlanDone \/ TakesManifest \/ SenderEnds \/ ReceiverStep
         \/ \E r \in Role : Routes(r) \/ HandleTransferDone(r)
<1> USE DEF xferVars, PlanFrame
<1>1. ASSUME NEW r \in Role, HandleFrame(r)
      PROVE  UNCHANGED <<xOn, xRan, xBuf, receiver>> \/ TakesManifest \/ Routes(r)
  <2>1. wire[r] # <<>> /\ Running(r) /\ carrier = "up"
    BY <1>1 DEF HandleFrame
  <2>2. CASE HandleReportManifest(r, Oldest(r), Rest(r))
    BY <2>1, <2>2 DEF HandleReportManifest, TakesManifest
  <2>3. CASE HandleTransferFrame(r, Oldest(r), Rest(r))
    BY <1>1, <2>3 DEF Routes
  <2>4. QED BY <1>1, <2>2, <2>3 DEF HandleFrame, Oldest, Rest, HandlePeerReady,
       HandleStartConfirmation, HandleTestRequest, HandleTestResult, HandleWarning,
       HandlePeerAbort, HandleComplete
<1>2. ASSUME NEW r \in Role,
             \/ Launch(r) \/ StartCommand(r) \/ QuitCommand(r) \/ CtrlC(r) \/ HandleConnErr(r)
             \/ HandleInterrupt(r) \/ Exit(r) \/ Teardown(r) \/ OnCountdownGo(r)
      PROVE  UNCHANGED <<xOn, xRan, xBuf, receiver>>
  BY <1>2 DEF Launch, StartCommand, QuitCommand, CtrlC, HandleConnErr, HandleInterrupt, Exit,
     Teardown, OnCountdownGo
<1>3. ASSUME \/ CarrierDrops \/ CarrierReturns \/ HandshakeReject \/ OpFinishes
             \/ HandleOpDone \/ SenderWrites \/ HandleCallExpired \/ BudgetExpires \/ LinkCut
      PROVE  UNCHANGED <<xOn, xRan, xBuf, receiver>>
  BY <1>3 DEF CarrierDrops, CarrierReturns, HandshakeReject, OpFinishes, HandleOpDone,
     SenderWrites, HandleCallExpired, BudgetExpires, LinkCut, XferFrame
<1>4. ASSUME PlanStep PROVE UNCHANGED <<xOn, xRan, xBuf, receiver>>
  BY <1>4 DEF PlanStep, PlanCall, PlanBaseEnds, PlanBoundary, CallReturns,
     CableWindowStart, CableTestReturns, CableWindowEnd
<1>5. ASSUME UNCHANGED vars PROVE UNCHANGED <<xOn, xRan, xBuf, receiver>>
  BY <1>5 DEF vars
<1>6. QED BY <1>1, <1>2, <1>3, <1>4, <1>5 DEF Next, Loop, Finished, SenderStep

\* That a transfer ran on a side is never forgotten; on the worker it is
\* started by the manifest.
LEMMA RanStep ==
  ASSUME TypeOK, [Next]_vars
  PROVE  /\ \A r \in Role : xRan[r] => xRan'[r]
         /\ xRan'["PC2"] => xRan["PC2"] \/ TakesManifest
         /\ receiver' # "off" => receiver # "off" \/ TakesManifest
<1>type. xRan \in [Role -> BOOLEAN] /\ "PC1" \in Role /\ "PC2" \in Role /\ "PC1" # "PC2"
  BY DEF TypeOK, Role
<1>1. CASE HandlePlanDone
  BY <1>1, <1>type DEF HandlePlanDone
<1>2. CASE TakesManifest
  BY <1>2, <1>type DEF TakesManifest, HandleReportManifest, RanAfterManifest
<1>3. CASE SenderEnds \/ ReceiverStep
  BY <1>3 DEF SenderEnds, ReceiverStep, ReceiverTakes, ReceiverStops, XferFrame
<1>4. ASSUME NEW r \in Role, Routes(r)
      PROVE  UNCHANGED <<xRan, receiver>>
  BY <1>4 DEF Routes, HandleTransferFrame
<1>5. ASSUME NEW r \in Role, HandleTransferDone(r)
      PROVE  UNCHANGED xRan /\ (receiver' # "off" => receiver # "off")
  BY <1>5 DEF HandleTransferDone
<1>6. QED BY <1>1, <1>2, <1>3, <1>4, <1>5, TransferWriters

\* The sender moves forward through its phases; only the coordinator's verdict
\* starts it, and only its end is followed by the verdict frame.
SenderOf ==
  \/ UNCHANGED <<sender, sentComplete>>
  \/ HandlePlanDone /\ sender'.pc = "manifest" /\ xRan'["PC1"] /\ UNCHANGED sentComplete
  \/ HandlePlanDone /\ UNCHANGED sender
  \/ /\ sender.pc = "manifest" /\ sender'.pc \in {"stream", "failed"} /\ UNCHANGED sentComplete
     /\ sender'.pc = "stream" /\ Live => \E m \in In(wire', "PC2") : m.type = "report"
  \/ sender.pc = "stream" /\ sender'.pc \in {"stream", "await", "failed"} /\ UNCHANGED sentComplete
  \/ sender.pc = "await" /\ sender'.pc \in {"ok", "failed"} /\ UNCHANGED sentComplete
  \/ sender.pc \in {"ok", "failed"} /\ HandleTransferDone("PC1") /\ sender'.pc = "handled"

\* The manifest the sender writes over a live connection is on the wire.
LEMMA ManifestWritten ==
  ASSUME TypeOK, SenderWrites, sender.pc = "manifest"
  PROVE  /\ sender'.pc \in {"stream", "failed"}
         /\ sender'.pc = "stream" /\ Live => \E m \in In(wire', "PC2") : m.type = "report"
<1> DEFINE m == Msg("report", 0, "none")
<1>m. m \in Frame /\ m.type = "report"
  BY MsgType DEF FrameType, ArgOf, Msg
<1>1. \/ sender'.pc = "failed"
      \/ sender'.pc = "stream" /\ wire' = Put(wire, "PC1", m)
  BY DEF SenderWrites
<1>2. ASSUME Live, wire' = Put(wire, "PC1", m) PROVE m \in In(wire', "PC2")
  <2>1. wire \in [Role -> Seq(Frame)] /\ wire["PC2"] \in Seq(Frame)
    BY DEF TypeOK, Role
  <2> HIDE DEF m
  <2>2. wire'["PC2"] = Append(wire["PC2"], m)
    BY <1>m, <1>2, <2>1, PutOver
  <2>3. Append(wire["PC2"], m)[Len(wire["PC2"]) + 1] = m
        /\ Len(wire["PC2"]) + 1 \in 1..Len(Append(wire["PC2"], m))
    BY <1>m, <2>1
  <2>4. QED BY <2>2, <2>3 DEF In
<1> HIDE DEF m
<1>3. QED BY <1>m, <1>1, <1>2

\* Every step moves the sender in one of these ways.
LEMMA SenderMoves == ASSUME TypeOK, [Next]_vars PROVE SenderOf
<1>type. xRan \in [Role -> BOOLEAN] /\ "PC1" \in Role /\ sender \in SenderState
  BY DEF TypeOK, Role
<1>1. CASE HandlePlanDone
  <2>1. CASE UNCHANGED sender
    BY <1>1, <2>1 DEF SenderOf
  <2>2. CASE /\ sender' = [sender EXCEPT !.pc = "manifest"] /\ UNCHANGED sentComplete
             /\ xRan' = [xRan EXCEPT !["PC1"] = TRUE]
    BY <1>1, <1>type, <2>2 DEF SenderOf, SenderState
  <2>3. QED BY <1>1, <2>1, <2>2 DEF HandlePlanDone
<1>2. CASE PlanStep \/ BudgetExpires
  BY <1>2, PlanGoesOn DEF SenderOf
<1>3. CASE OnCountdownGo("PC1")
  BY <1>3 DEF SenderOf, OnCountdownGo, xferVars
<1>4. CASE SenderWrites
  <2>1. UNCHANGED sentComplete
    BY <1>4 DEF SenderWrites, XferFrame
  <2>2. CASE sender.pc = "manifest"
    BY <1>4, <2>1, <2>2, ManifestWritten DEF SenderOf
  <2>3. CASE sender.pc = "stream"
    <3>1. sender'.pc \in {"stream", "await", "failed"}
      BY <1>4, <2>3 DEF SenderWrites
    <3>2. QED BY <2>1, <2>3, <3>1 DEF SenderOf
  <2>4. QED BY <1>4, <2>2, <2>3 DEF SenderWrites
<1>5. CASE SenderEnds
  <2>1. UNCHANGED sentComplete
    BY <1>5 DEF SenderEnds, XferFrame
  <2>2. \/ sender.pc = "await" /\ sender'.pc \in {"ok", "failed"}
        \/ sender.pc \in {"manifest", "stream"} /\ sender'.pc = "failed"
    BY <1>5, <1>type DEF SenderEnds, SenderState
  <2>3. QED BY <2>1, <2>2 DEF SenderOf
<1>6. CASE HandleTransferDone("PC1")
  <2>1. sender.pc \in {"ok", "failed"} /\ sender'.pc = "handled"
    BY <1>6, <1>type DEF HandleTransferDone, SenderState
  <2>2. QED BY <1>6, <2>1 DEF SenderOf
<1>7. QED BY <1>1, <1>2, <1>3, <1>4, <1>5, <1>6, PlanWriters DEF SenderStep, SenderOf

\* Each side writes only the frames of its role.
Directions ==
  /\ \A m \in In(wire, "PC1") :
       m.type \notin {"start_confirmation", "test_request", "report", "report_chunk"}
  /\ \A m \in In(wire, "PC2") : m.type \notin {"test_result", "report_ack"}

\* That is preserved.
LEMMA DirectionsStep ==
  ASSUME TypeOK, [Next]_vars, Directions
  PROVE  Directions'
<1>1. ASSUME NEW m \in In(wire', "PC1")
      PROVE  m.type \notin {"start_confirmation", "test_request", "report", "report_chunk"}
  <2>1. m \in In(wire, "PC1") \/ Sends("PC1", m)
    BY NewFrame DEF Role
  <2>2. QED BY <2>1 DEF Directions, Sends
<1>2. ASSUME NEW m \in In(wire', "PC2") PROVE m.type \notin {"test_result", "report_ack"}
  <2>1. m \in In(wire, "PC2") \/ Sends("PC2", m)
    BY NewFrame DEF Role
  <2>2. QED BY <2>1 DEF Directions, Sends
<1>3. QED BY <1>1, <1>2 DEF Directions, In

\* What is on the worker's wire tells how far the sender is.
SenderOrder ==
  /\ sentComplete /\ sender.pc # "off" => sender.pc = "handled"
  /\ \A m \in In(wire, "PC2") :
       /\ m.type \in {"report", "report_chunk"} => sender.pc \notin {"off", "manifest"}
       /\ m.type = "warning" => sender.pc = "handled"
       /\ m.type = "abort" => td["PC1"] # "open"

\* A transfer on the worker's side, and an acknowledgement, answer a sender;
\* the sender's side accepts what comes back.
Transfers ==
  /\ sender.pc # "off" => xRan["PC1"]
  /\ receiver # "off" => sender.pc # "off"
  /\ \A m \in In(wire, "PC1") : m.type = "report_ack" => sender.pc # "off"

\* The coordinator's loop never finds a frame wrong for its state.
LEMMA CoordinatorFits ==
  ASSUME TypeOK, EndOrder, CompletionInv, Readiness, Directions, Transfers, HandleFrame("PC1")
  PROVE  ~Unfit("PC1")
<1>type. "PC1" \in Role /\ st["PC1"] \in PeerState
  BY DEF TypeOK, Role
<1>f. Oldest("PC1") \in In(wire, "PC1") /\ Running("PC1")
  BY <1>type, FrameTail
<1>1. st["PC1"] \notin {"waiting_for_local_start", "waiting_for_peer_start"} => peerReady["PC1"]
  <2>1. st["PC1"] \notin Over /\ st["PC1"] # "handshake"
    BY <1>type, <1>f DEF EndOrder, Running, Finishing
  <2>2. QED BY <1>type, <2>1 DEF Readiness, PeerState, Over, Stop
<1>2. /\ Oldest("PC1").type # "start_confirmation" /\ Oldest("PC1").type # "test_request"
      /\ Oldest("PC1").type # "report" /\ Oldest("PC1").type # "report_chunk"
  BY <1>f DEF Directions
<1>3. Oldest("PC1").type = "report_ack" => xRan["PC1"]
  BY <1>f DEF Transfers
<1>4. Oldest("PC1").type = "complete" => sentComplete
  BY <1>f DEF CompletionInv, VerdictInFlight, CompletionAgreed
<1>5. QED BY <1>1, <1>2, <1>3, <1>4 DEF Unfit

\* SenderOrder is preserved.
LEMMA SenderOrderStep ==
  ASSUME TypeOK, [Next]_vars, EndOrder, CompletionInv, Readiness, Directions, Transfers, SenderOrder
  PROVE  SenderOrder'
<1>type. "PC1" \in Role /\ "PC2" \in Role /\ Peer("PC2") = "PC1" /\ strikes["PC1"] \in Nat
  BY DEF TypeOK, Role, Peer
<1>off. HandlePlanDone => sender.pc = "off" /\ ~sentComplete
  BY DEF HandlePlanDone, CompletionInv, PlanBeforeVerdict
<1>far. /\ sender.pc \notin {"off", "manifest"} => sender'.pc \notin {"off", "manifest"}
        /\ sender.pc = "handled" => sender'.pc = "handled"
  BY <1>off, SenderMoves DEF SenderOf
<1>td. td["PC1"] # "open" => td'["PC1"] # "open"
  BY <1>type, LifeStep DEF LifeOf
<1>1. sentComplete' /\ sender'.pc # "off" => sender'.pc = "handled"
  BY <1>off, SenderMoves DEF SenderOf, SenderOrder
<1>2. ASSUME NEW m \in In(wire', "PC2")
      PROVE  /\ m.type \in {"report", "report_chunk"} => sender'.pc \notin {"off", "manifest"}
             /\ m.type = "warning" => sender'.pc = "handled"
             /\ m.type = "abort" => td'["PC1"] # "open"
  <2>1. CASE m \in In(wire, "PC2")
    BY <1>far, <1>td, <2>1 DEF SenderOrder
  <2>2. CASE Sends("PC2", m)
    <3>1. ASSUME SenderWrites PROVE sender'.pc \notin {"off", "manifest"}
      BY <3>1 DEF SenderWrites
    <3>2. ASSUME HandleTransferDone("PC1") PROVE sender'.pc = "handled"
      <4>1. sender \in SenderState BY DEF TypeOK
      <4>2. QED BY <3>2, <4>1 DEF HandleTransferDone, SenderState
    <3>3. strikes'["PC1"] # strikes["PC1"] + 1
      <4>1. ~Strike("PC1")
        BY CoordinatorFits DEF Strike
      <4>2. strikes'["PC1"] = strikes["PC1"]
        BY <1>type, <4>1, StrikeStep DEF StrikeOf
      <4>3. QED BY <1>type, <4>2
    <3>4. ASSUME Teardown("PC1") PROVE td'["PC1"] # "open"
      <4>1. td \in [Role -> {"open", "closed", "done"}] BY DEF TypeOK
      <4>2. QED BY <1>type, <3>4, <4>1 DEF Teardown
    <3>5. CASE m.type \in {"report", "report_chunk"}
      BY <2>2, <3>1, <3>5 DEF Sends
    <3>6. CASE m.type = "warning"
      BY <1>type, <2>2, <3>2, <3>3, <3>6 DEF Sends
    <3>7. CASE m.type = "abort"
      BY <1>type, <2>2, <3>4, <3>7 DEF Sends
    <3>8. QED BY <3>5, <3>6, <3>7
  <2>3. QED BY <1>type, <2>1, <2>2, NewFrame
<1>3. QED BY <1>1, <1>2 DEF SenderOrder, In

\* The worker takes a manifest off its wire.
LEMMA ManifestTaken ==
  ASSUME TypeOK, TakesManifest
  PROVE  Oldest("PC2") \in In(wire, "PC2") /\ Oldest("PC2").type = "report"
<1>1. wire \in [Role -> Seq(Frame)] /\ "PC2" \in Role /\ wire["PC2"] # <<>>
  BY DEF TypeOK, Role, TakesManifest
<1>2. Head(wire["PC2"]) \in In(wire, "PC2")
  BY <1>1, TailIn
<1>3. QED BY <1>2 DEF TakesManifest, HandleReportManifest, Oldest

\* Transfers is preserved.
LEMMA TransfersStep ==
  ASSUME TypeOK, [Next]_vars, CompletionInv, SenderOrder, Transfers
  PROVE  Transfers'
<1>type. "PC1" \in Role /\ "PC2" \in Role
  BY DEF Role
<1>off. HandlePlanDone => sender.pc = "off"
  BY DEF HandlePlanDone, CompletionInv, PlanBeforeVerdict
<1>on. sender.pc # "off" => sender'.pc # "off"
  BY SenderStays
<1>m. TakesManifest => sender.pc # "off"
  BY ManifestTaken DEF SenderOrder
<1>1. sender'.pc # "off" => xRan'["PC1"]
  <2>1. sender.pc # "off" => xRan'["PC1"]
    BY <1>type, RanStep DEF Transfers
  <2>2. QED BY <2>1, SenderMoves DEF SenderOf
<1>2. receiver' # "off" => sender'.pc # "off"
  BY <1>on, <1>m, RanStep DEF Transfers
<1>3. ASSUME NEW m \in In(wire', "PC1"), m.type = "report_ack" PROVE sender'.pc # "off"
  <2>1. CASE m \in In(wire, "PC1")
    BY <1>3, <1>on, <2>1 DEF Transfers
  <2>2. CASE Sends("PC1", m)
    <3>1. ReceiverTakes \/ TakesManifest
      BY <1>3, <2>2 DEF Sends
    <3>2. ReceiverTakes => receiver # "off"
      BY DEF ReceiverTakes
    <3>3. QED BY <1>on, <1>m, <3>1, <3>2 DEF Transfers
  <2>3. QED BY <1>type, <2>1, <2>2, NewFrame
<1>4. QED BY <1>1, <1>2, <1>3 DEF Transfers, In

\* While the connection lives the worker knows of the manifest before the
\* chunks, or will read it before them.
ManifestDelivered ==
  sender.pc = "stream" /\ Live => xRan["PC2"] \/ \E m \in In(wire, "PC2") : m.type = "report"

\* A manifest the worker's loop takes starts the transfer on its side.
LEMMA ManifestKnown ==
  ASSUME TypeOK, VerdictNotRefused, HandleFrame("PC2"), Oldest("PC2").type = "report"
  PROVE  xRan'["PC2"]
<1>type. "PC2" \in Role /\ xRan \in [Role -> BOOLEAN] /\ wire["PC2"] \in Seq(Frame)
  BY DEF TypeOK, Role
<1>1. Running("PC2") /\ wire["PC2"] # <<>>
  BY DEF HandleFrame
<1>2. HandleReportManifest("PC2", Oldest("PC2"), Rest("PC2"))
  BY DEF HandleFrame, Oldest, Rest, HandlePeerReady, HandleStartConfirmation, HandleTestRequest,
     HandleTestResult, HandleWarning, HandlePeerAbort, HandleReportManifest,
     HandleTransferFrame, HandleComplete
<1>3. 1 \in 1..Len(wire["PC2"]) /\ wire["PC2"][1] = Oldest("PC2")
  BY <1>type, <1>1 DEF Oldest
<1>4. st["PC2"] \in {"testing", "generating_report"}
  BY <1>1, <1>3 DEF VerdictNotRefused
<1>5. xRan' = RanAfterManifest("PC2")
  BY <1>2, <1>4 DEF HandleReportManifest
<1>6. QED BY <1>type, <1>5 DEF RanAfterManifest

\* ManifestDelivered is preserved.
LEMMA ManifestDeliveredStep ==
  ASSUME TypeOK, [Next]_vars, VerdictNotRefused, ManifestDelivered
  PROVE  ManifestDelivered'
<1>1. SUFFICES ASSUME sender'.pc = "stream", Live'
               PROVE  xRan'["PC2"] \/ \E m \in In(wire', "PC2") : m.type = "report"
  BY DEF ManifestDelivered, In
<1>type. "PC2" \in Role
  BY DEF Role
<1>live. Live
  BY <1>1, LiveStep
<1>ran. xRan["PC2"] => xRan'["PC2"]
  BY <1>type, RanStep
<1>2. ASSUME NEW m \in In(wire, "PC2"), m.type = "report", m \notin In(wire', "PC2")
      PROVE  xRan'["PC2"]
  <2>1. HandleFrame("PC2") /\ Oldest("PC2").type = "report"
    BY <1>1, <1>2, <1>type, StaysIn
  <2>2. QED BY <2>1, ManifestKnown
<1>3. CASE sender.pc = "stream"
  BY <1>2, <1>3, <1>live, <1>ran DEF ManifestDelivered
<1>4. CASE sender.pc # "stream"
  BY <1>1, <1>4, <1>live, SenderMoves DEF SenderOf
<1>5. QED BY <1>3, <1>4

\* The frames on the worker's wire are in the order its loop relies on.
Fifo ==
  /\ Ordered(wire["PC2"])
  /\ Preceded(wire["PC2"], "ready", "start_confirmation", peerReady["PC2"])
  /\ Preceded(wire["PC2"], "report", "report_chunk", xRan["PC2"])

\* What the coordinator writes may follow everything that waits.
LEMMA SendsInOrder ==
  ASSUME TypeOK, CompletionInv, Answered, ResultInv, SenderOrder, StartOnce, Live,
         NEW m \in Frame, Sends("PC2", m), NEW a \in In(wire, "PC2")
  PROVE  Rel(a, m)
<1>type. a.id \in Nat /\ plan.calls \in Nat /\ m.id \in Nat
  BY InFrame DEF TypeOK, Plan, Frame, Role
<1>done. /\ a.type \in {"report", "report_chunk", "complete", "warning"} => plan.pc = "handled"
         /\ a.type \in {"complete", "warning"} => sender.pc \in {"off", "handled"}
         /\ a.type = "warning" => sender.pc = "handled"
         /\ a.type # "abort"
  <2>1. a.type = "abort" => td["PC1"] # "open"
    BY DEF SenderOrder
  <2>2. a.type = "warning" => sender.pc = "handled"
    BY DEF SenderOrder
  <2>3. a.type \in {"report", "report_chunk", "complete"} => sentComplete \/ sender.pc # "off"
    BY DEF Answered
  <2>4. a.type = "complete" => sentComplete
    BY DEF CompletionInv, VerdictInFlight
  <2>5. sentComplete => sender.pc \in {"off", "handled"}
    BY DEF SenderOrder
  <2>6. sentComplete \/ sender.pc # "off" => plan.pc = "handled"
    BY DEF CompletionInv, PlanBeforeVerdict
  <2>7. QED BY <2>1, <2>2, <2>3, <2>4, <2>5, <2>6 DEF Live
<1>1. CASE m.type \in {"ready", "start_confirmation"}
  <2>1. st["PC1"] \in Waiting
    BY <1>1 DEF Sends, Peer
  <2>2. plan.pc # "handled"
    BY <2>1 DEF CompletionInv, PlanBeforeVerdict, Waiting
  <2>3. a.type \notin {"report", "report_chunk"}
    BY <1>done, <2>2
  <2>4. m.type = "start_confirmation" => a.type # "start_confirmation"
    BY <2>1 DEF StartOnce
  <2>5. QED BY <1>1, <2>3, <2>4 DEF Rel
<1>2. CASE m.type = "test_request"
  <2>1. Issues(m)
    BY <1>2 DEF Sends
  <2>2. m.id = plan.calls + 1 /\ plan.pc = PcOf(m.arg)
    BY <2>1 DEF Issues
  <2>3. plan.pc # "handled"
    BY <2>2 DEF PcOf
  <2>4. a.type = "test_request" => a.id <= plan.calls
    BY DEF ResultInv
  <2>5. a.type = "test_request" => a.id < m.id
    BY <1>type, <2>2, <2>4
  <2>6. QED BY <1>2, <1>done, <2>3, <2>5 DEF Rel
<1>3. CASE m.type = "report"
  <2>1. sender.pc = "manifest"
    BY <1>3 DEF Sends
  <2>2. a.type \notin {"report", "report_chunk"}
    BY <2>1 DEF SenderOrder
  <2>3. QED BY <1>3, <1>done, <2>1, <2>2 DEF Rel
<1>4. CASE m.type = "report_chunk"
  <2>1. sender.pc = "stream"
    BY <1>4 DEF Sends
  <2>2. QED BY <1>4, <1>done, <2>1 DEF Rel
<1>5. CASE m.type \notin {"ready", "start_confirmation", "test_request", "report", "report_chunk"}
  <2>1. m.type # "report_ack"
    BY DEF Sends
  <2>2. QED BY <1>5, <2>1 DEF Rel
<1>6. QED BY <1>1, <1>2, <1>3, <1>4, <1>5

\* Fifo is preserved.
LEMMA FifoStep ==
  ASSUME TypeOK, [Next]_vars, EndOrder, CompletionInv, Answered, ResultInv, VerdictNotRefused,
         Readiness, ReadyDelivered, StartOnce, SenderOrder, ManifestDelivered, Fifo
  PROVE  Fifo'
<1> DEFINE s == wire["PC2"]
           k == peerReady'["PC2"]
           x == xRan'["PC2"]
<1>type. s \in Seq(Frame) /\ "PC1" \in Role /\ "PC2" \in Role
  BY DEF TypeOK, Role
<1>know. (peerReady["PC2"] => k) /\ (xRan["PC2"] => x)
  BY <1>type, ReadyStep, RanStep DEF ReadyOf, Announces, Hears
<1>old. /\ Ordered(s) /\ Preceded(s, "ready", "start_confirmation", k)
        /\ Preceded(s, "report", "report_chunk", x)
  BY <1>know DEF Fifo, Preceded
<1>goal. SUFFICES /\ Ordered(wire'["PC2"]) /\ Preceded(wire'["PC2"], "ready", "start_confirmation", k)
                  /\ Preceded(wire'["PC2"], "report", "report_chunk", x)
  BY DEF Fifo, Ordered, Preceded
<1>rel. ASSUME Live, NEW m \in Frame, Sends("PC2", m), NEW i \in 1..Len(s)
        PROVE  Rel(s[i], m)
  <2>1. s[i] \in In(wire, "PC2")
    BY DEF In
  <2>2. QED BY <1>rel, <2>1, SendsInOrder
<1>chunk. ASSUME Live, NEW m \in Frame, Sends("PC2", m), m.type = "report_chunk"
          PROVE  x \/ \E i \in 1..Len(s) : s[i].type = "report"
  <2>1. sender.pc = "stream"
    BY <1>chunk DEF Sends
  <2>2. xRan["PC2"] \/ \E n \in In(wire, "PC2") : n.type = "report"
    BY <1>chunk, <2>1 DEF ManifestDelivered
  <2>3. QED BY <1>know, <2>2 DEF In
<1>start. ASSUME Live, st["PC1"] = "waiting_for_peer_start"
          PROVE  k \/ \E i \in 1..Len(s) : s[i].type = "ready"
  <2>1. localReady["PC1"]
    BY <1>start, <1>type DEF Readiness
  <2>2. peerReady["PC2"] \/ \E n \in In(wire, "PC2") : n.type = "ready"
    BY <1>start, <2>1 DEF ReadyDelivered
  <2>3. QED BY <1>know, <2>2 DEF In
<1>1. CASE wire'["PC2"] = wire["PC2"]
  BY <1>1, <1>old
<1>2. CASE wire["PC2"] # <<>> /\ wire'["PC2"] = Tail(wire["PC2"]) /\ HandleFrame("PC2")
  <2>1. Head(s).type = "ready" => k
    BY <1>2, ReadyKnown DEF Oldest
  <2>2. Head(s).type = "report" => x
    BY <1>2, ManifestKnown DEF Oldest
  <2>3. s # <<>> /\ wire'["PC2"] = Tail(s)
    BY <1>2
  <2> HIDE DEF s, k, x
  <2>4. Ordered(Tail(s))
    BY <1>type, <1>old, <2>3, OrderedTail
  <2>5. Preceded(Tail(s), "ready", "start_confirmation", k)
    BY <1>type, <1>old, <2>1, <2>3, PrecededTail
  <2>6. Preceded(Tail(s), "report", "report_chunk", x)
    BY <1>type, <1>old, <2>2, <2>3, PrecededTail
  <2>7. QED BY <2>3, <2>4, <2>5, <2>6
<1>3. CASE wire'["PC2"] = <<>>
  <2>1. Len(wire'["PC2"]) = 0
    BY <1>3
  <2>2. QED BY <2>1 DEF Ordered, Preceded
<1>4. ASSUME NEW n \in 0..Len(wire["PC2"]), wire'["PC2"] = SubSeq(wire["PC2"], 1, n)
      PROVE  /\ Ordered(wire'["PC2"]) /\ Preceded(wire'["PC2"], "ready", "start_confirmation", k)
             /\ Preceded(wire'["PC2"], "report", "report_chunk", x)
  <2>1. n \in 0..Len(s) /\ wire'["PC2"] = SubSeq(s, 1, n)
    BY <1>4
  <2> HIDE DEF s, k, x
  <2>2. QED BY <1>type, <1>old, <2>1, OrderedPrefix, PrecededPrefix
<1>5. ASSUME NEW m \in Frame, Live, wire'["PC2"] = Append(wire["PC2"], m), Sends("PC2", m),
             m.type = "start_confirmation" => st["PC1"] = "waiting_for_peer_start"
      PROVE  /\ Ordered(wire'["PC2"]) /\ Preceded(wire'["PC2"], "ready", "start_confirmation", k)
             /\ Preceded(wire'["PC2"], "report", "report_chunk", x)
  <2>1. wire'["PC2"] = Append(s, m) /\ m \in Frame
    BY <1>5
  <2>2. \A i \in 1..Len(s) : Rel(s[i], m)
    BY <1>5, <1>rel
  <2>3. m.type = "start_confirmation" => k \/ \E i \in 1..Len(s) : s[i].type = "ready"
    BY <1>5, <1>start
  <2>4. m.type = "report_chunk" => x \/ \E i \in 1..Len(s) : s[i].type = "report"
    BY <1>5, <1>chunk
  <2> HIDE DEF s, k, x
  <2>5. Ordered(Append(s, m))
    BY <1>type, <1>old, <2>1, <2>2, OrderedAppend
  <2>6. Preceded(Append(s, m), "ready", "start_confirmation", k)
    BY <1>type, <1>old, <2>1, <2>3, PrecededAppend
  <2>7. Preceded(Append(s, m), "report", "report_chunk", x)
    BY <1>type, <1>old, <2>1, <2>4, PrecededAppend
  <2>8. QED BY <2>1, <2>5, <2>6, <2>7
<1>6. ASSUME NEW m \in Frame, NEW n \in Frame, Live, Sends("PC2", m), Sends("PC2", n),
             wire'["PC2"] = Append(Append(wire["PC2"], m), n),
             \/ m.type = "ready" /\ n.type = "start_confirmation"
             \/ m.type = "warning" /\ n.type = "complete"
      PROVE  /\ Ordered(wire'["PC2"]) /\ Preceded(wire'["PC2"], "ready", "start_confirmation", k)
             /\ Preceded(wire'["PC2"], "report", "report_chunk", x)
  <2> DEFINE z == Append(s, m)
  <2>1. wire'["PC2"] = Append(z, n) /\ m \in Frame /\ n \in Frame
    BY <1>6
  <2>2. \A i \in 1..Len(s) : Rel(s[i], m) /\ Rel(s[i], n)
    BY <1>6, <1>rel
  <2>3. m.type \notin {"start_confirmation", "report_chunk"} /\ n.type # "report_chunk" /\ Rel(m, n)
        /\ (n.type = "start_confirmation" => m.type = "ready")
    BY <1>6 DEF Rel
  <2> HIDE DEF s, k, x
  <2>4. z \in Seq(Frame) /\ Len(z) = Len(s) + 1 /\ z[Len(s) + 1] = m
        /\ (\A i \in 1..Len(s) : z[i] = s[i]) /\ Len(s) \in Nat
    BY <1>type, <2>1
  <2>5. Ordered(z)
    BY <1>type, <1>old, <2>1, <2>2, OrderedAppend
  <2>6. Preceded(z, "ready", "start_confirmation", k)
    BY <1>type, <1>old, <2>1, <2>3, PrecededAppend
  <2>7. Preceded(z, "report", "report_chunk", x)
    BY <1>type, <1>old, <2>1, <2>3, PrecededAppend
  <2> HIDE DEF z
  <2>8. \A i \in 1..Len(z) : Rel(z[i], n)
    BY <2>2, <2>3, <2>4
  <2>9. Ordered(Append(z, n))
    BY <2>1, <2>4, <2>5, <2>8, OrderedAppend
  <2>10. n.type = "start_confirmation" => \E i \in 1..Len(z) : z[i].type = "ready"
    BY <2>3, <2>4
  <2>11. Preceded(Append(z, n), "ready", "start_confirmation", k)
    BY <2>1, <2>4, <2>6, <2>10, PrecededAppend
  <2>12. Preceded(Append(z, n), "report", "report_chunk", x)
    BY <2>1, <2>3, <2>4, <2>7, PrecededAppend
  <2>13. QED BY <2>1, <2>9, <2>11, <2>12
<1> HIDE DEF s, k, x
<1>7. QED BY <1>type, <1>1, <1>2, <1>3, <1>4, <1>5, <1>6, WireStep DEF WireOf

\* The worker's loop finds only a request wrong for its state.
LEMMA WorkerFits ==
  ASSUME TypeOK, EndOrder, VerdictNotRefused, Readiness, StartOnce, Directions, Fifo,
         HandleFrame("PC2"), Unfit("PC2")
  PROVE  Oldest("PC2").type = "test_request" /\ st["PC2"] # "testing"
<1>type. "PC2" \in Role /\ st["PC2"] \in PeerState /\ wire["PC2"] \in Seq(Frame)
  BY DEF TypeOK, Role
<1>f. Oldest("PC2") \in In(wire, "PC2") /\ Running("PC2") /\ wire["PC2"] # <<>>
  BY <1>type, FrameTail
<1>head. 1 \in 1..Len(wire["PC2"]) /\ wire["PC2"][1] = Oldest("PC2")
         /\ ~\E i \in 1..Len(wire["PC2"]) : i < 1
  BY <1>type, <1>f DEF Oldest
<1>st. st["PC2"] \notin Over /\ st["PC2"] # "handshake"
  BY <1>type, <1>f DEF EndOrder, Running, Finishing
<1>1. st["PC2"] \notin {"waiting_for_local_start", "waiting_for_peer_start"} => peerReady["PC2"]
  BY <1>type, <1>st DEF Readiness, PeerState, Over, Stop
<1>2. Oldest("PC2").type = "start_confirmation" => st["PC2"] = "ready"
  <2>1. SUFFICES ASSUME Oldest("PC2").type = "start_confirmation" PROVE st["PC2"] = "ready"
    OBVIOUS
  <2>2. peerReady["PC2"]
    BY <1>head, <2>1 DEF Fifo, Preceded
  <2>3. localReady["PC2"] /\ st["PC2"] \notin {"testing", "generating_report"}
    BY <1>f, <2>1 DEF StartOnce
  <2>4. st["PC2"] # "waiting_for_peer_start"
    BY <1>type, <2>2 DEF Readiness
  <2>5. st["PC2"] \notin Waiting \ {"waiting_for_peer_start"}
    BY <1>type, <2>3 DEF Readiness
  <2>6. QED BY <1>type, <1>st, <2>3, <2>4, <2>5 DEF Waiting, Early, PeerState, Over, Stop
<1>3. Oldest("PC2").type = "report_chunk" => xRan["PC2"]
  BY <1>head DEF Fifo, Preceded
<1>4. Oldest("PC2").type # "report_ack"
  BY <1>f DEF Directions
<1>5. Oldest("PC2").type \in {"complete", "report"} => st["PC2"] \in {"testing", "generating_report"}
  BY <1>f, <1>head DEF VerdictNotRefused
<1>6. QED BY <1>1, <1>2, <1>3, <1>4, <1>5 DEF Unfit

\* The cable diagnostic runs only after a plan without an error, and a plan
\* that got no answer issued at most one base request and one snapshot.
FewCalls ==
  /\ \/ plan.pc \in {"window", "tdr", "end"}
     \/ plan.pc = "call" /\ call.op \in {"window_start", "window_end"}
     => plan.err = "nil"
  /\ plan.answered = 0 =>
       /\ plan.pc \in {"off", "base"} => plan.calls = 0
       /\ plan.pc = "boundary" \/ (plan.pc = "call" /\ call.op \in BaseOps) => plan.calls <= 1
       /\ plan.calls <= 2

\* That is preserved.
LEMMA FewCallsStep ==
  ASSUME TypeOK, [Next]_vars, CompletionInv, Answered, FewCalls
  PROVE  FewCalls'
<1>type. /\ plan \in Plan /\ plan.pc \in PlanPC /\ plan.err \in PlanErr /\ plan.calls \in Nat
         /\ plan.answered \in Nat /\ call \in Call /\ call.op \in Op
         /\ st["PC1"] \in PeerState
  BY DEF TypeOK, Plan, Call, Role
<1>ops. BaseOps \cap {"snapshot", "window_start", "window_end"} = {} /\ NoCall.op = "test"
  BY OpsAssumption DEF NoCall
<1>done. plan.answered = 0 => plan.pc \notin {"window", "tdr", "end"}
  BY <1>type DEF FewCalls, Answered, BaseDone
<1>1. CASE UNCHANGED <<plan, call>>
  BY <1>1 DEF FewCalls
<1>2. CASE TakesResult /\ UNCHANGED plan
  <2>1. call'.op = call.op
    BY <1>2, ResultFills
  <2>2. QED BY <1>2, <2>1 DEF FewCalls
<1>3. CASE PlanStarts
  <2>1. plan.pc = "off"
    BY <1>3 DEF PlanStarts, CompletionInv, PlanBeforeVerdict, Early
  <2>2. plan'.pc = "base" /\ plan'.calls = plan.calls /\ plan'.answered = plan.answered
    BY <1>3, <1>type DEF PlanStarts, Plan
  <2>3. QED BY <2>1, <2>2 DEF FewCalls
<1>4. CASE HandlePlanDone
  <2>1. plan'.pc = "handled" /\ plan'.calls = plan.calls /\ plan'.answered = plan.answered
    BY <1>4, <1>type DEF HandlePlanDone, Plan
  <2>2. QED BY <2>1 DEF FewCalls
<1>5. CASE BudgetExpires /\ UNCHANGED call
  <2>1. plan'.pc = plan.pc /\ plan'.calls = plan.calls /\ plan'.answered = plan.answered
        /\ plan'.err = plan.err
    BY <1>5, <1>type DEF BudgetExpires, Plan
  <2>2. QED BY <1>5, <2>1 DEF FewCalls
<1>6. CASE PlanStep
  <2>1. ASSUME NEW m \in Frame, Issues(m) PROVE FewCalls'
    <3>1. /\ plan'.pc = "call" /\ plan'.calls = plan.calls + 1 /\ plan'.answered = plan.answered
          /\ plan'.err = plan.err /\ call'.op = m.arg /\ plan.pc = PcOf(m.arg) /\ m.arg \in Op
      BY <2>1, IssuedPlan DEF Issues
    <3>2. m.arg \in {"window_start", "window_end"} => plan.pc \in {"window", "end"}
      BY <1>ops, <3>1 DEF PcOf
    <3>3. m.arg \in BaseOps => plan.pc = "base"
      BY <3>1 DEF PcOf
    <3>4. m.arg = "snapshot" => plan.pc = "boundary"
      BY <1>ops, <3>1 DEF PcOf
    <3>5. m.arg \in BaseOps \cup {"snapshot", "window_start", "window_end"}
      BY <3>1 DEF Op
    <3>6. m.arg \in {"window_start", "window_end"} => plan'.err = "nil"
      BY <3>1, <3>2 DEF FewCalls
    <3>7. plan'.answered = 0 => /\ plan'.calls <= 2
                                /\ m.arg \in BaseOps => plan'.calls <= 1
      BY <1>type, <1>done, <3>1, <3>2, <3>3, <3>4, <3>5 DEF FewCalls
    <3>8. QED BY <3>1, <3>6, <3>7 DEF FewCalls
  <2>2. ASSUME NEW o \in Op, NEW out, Resolved(o, out), call' = NoCall \/ UNCHANGED call,
               o \in BaseOps => \/ plan.pc = "base"
                                \/ plan.pc = "call" /\ call.op = o,
               o \in {"window_start", "window_end"} => plan.err = "nil"
        PROVE  FewCalls'
    <3>1. plan'.calls = plan.calls /\ plan'.pc \in {"base", "boundary", "window", "tdr", "returned"}
      BY <2>2 DEF Resolved
    <3>2. plan'.pc \in {"window", "tdr"} => plan'.err = "nil"
      BY <2>2, <1>ops DEF Resolved
    <3>3. plan'.answered = 0 => plan.answered = 0 /\ plan'.pc # "base"
      BY <2>2, <1>type DEF Resolved
    <3>4. plan'.pc = "boundary" => o \in BaseOps
      BY <2>2, <1>ops DEF Resolved
    <3>5. plan'.answered = 0 => /\ plan'.pc = "boundary" => plan.calls <= 1
                                /\ plan.calls <= 2
      BY <2>2, <1>type, <3>3, <3>4 DEF FewCalls
    <3>6. QED BY <3>1, <3>2, <3>3, <3>5 DEF FewCalls
  <2>3. ASSUME NEW o \in Op, NEW out \in {"cancel", "failed"}, Skips(o, out) PROVE FewCalls'
    <3>1. Resolved(o, out) /\ UNCHANGED call /\ plan.pc = PcOf(o)
      BY <2>3 DEF Skips
    <3>2. o \in BaseOps => plan.pc = "base"
      BY <3>1 DEF PcOf
    <3>3. o \in {"window_start", "window_end"} => plan.err = "nil"
      BY <1>ops, <3>1 DEF PcOf, FewCalls
    <3>4. QED BY <2>2, <3>1, <3>2, <3>3
  <2>4. ASSUME NEW out \in Status \cup {"cancel"}, Returns(out) PROVE FewCalls'
    <3>1. Resolved(call.op, out) /\ call' = NoCall /\ plan.pc = "call"
      BY <2>4 DEF Returns
    <3>2. call.op \in {"window_start", "window_end"} => plan.err = "nil"
      BY <3>1 DEF FewCalls
    <3>3. QED BY <2>2, <1>type, <3>1, <3>2
  <2>5. ASSUME NEW e \in PlanErr, EndsBase(e) PROVE FewCalls'
    <3>1. plan.pc = "base" /\ plan'.pc = "boundary" /\ plan'.calls = plan.calls
          /\ plan'.answered = plan.answered
      BY <2>5 DEF EndsBase, MovesOn
    <3>2. QED BY <1>type, <3>1 DEF FewCalls
  <2>6. CASE EndsBoundary
    <3>1. /\ plan'.pc \in {"window", "returned"} /\ plan'.calls = plan.calls
          /\ plan'.answered = plan.answered /\ plan'.err = plan.err
          /\ plan'.pc = "window" => plan.err = "nil"
      BY <2>6 DEF EndsBoundary, MovesOn
    <3>2. QED BY <1>type, <3>1 DEF FewCalls
  <2>7. CASE EndsTest
    <3>1. /\ plan.pc = "tdr" /\ plan'.pc \in {"end", "returned"} /\ plan'.calls = plan.calls
          /\ plan'.answered = plan.answered /\ (plan'.pc = "end" => plan'.err = plan.err)
      BY <2>7 DEF EndsTest, MovesOn
    <3>2. QED BY <1>type, <3>1 DEF FewCalls
  <2>8. QED BY <1>6, <2>1, <2>3, <2>4, <2>5, <2>6, <2>7, PlanMoves
<1>7. QED BY <1>1, <1>2, <1>3, <1>4, <1>5, <1>6, PlanSteps

\* The worker goes on to its report when it takes a manifest or the verdict.
LEMMA ReportEntered ==
  ASSUME TypeOK, [Next]_vars, st'["PC2"] = "generating_report", st["PC2"] # "generating_report"
  PROVE  HandleFrame("PC2") /\ Oldest("PC2").type \in {"report", "complete"}
<1> USE DEF lifeVars, PlanFrame, XferFrame
<1>type. /\ st \in [Role -> PeerState] /\ "PC1" \in Role /\ "PC2" \in Role /\ "PC1" # "PC2"
  BY DEF TypeOK, Role
<1>goto. ASSUME NEW r \in Role, NEW s, s # "generating_report", Goto(r, s) PROVE FALSE
  <2>1. Transition(st[r], s) \in {st[r], s}
    BY DEF Transition
  <2>2. QED BY <1>goto, <1>type, <2>1 DEF Goto
<1>same. ASSUME NEW r \in Role, r # "PC2", NEW s, Goto(r, s) PROVE FALSE
  BY <1>same, <1>type DEF Goto
<1>1. ASSUME NEW r \in Role, HandleFrame(r)
      PROVE  HandleFrame("PC2") /\ Oldest("PC2").type \in {"report", "complete"}
  <2>1. \/ UNCHANGED st
        \/ Goto(r, "ready")
        \/ Goto(r, "generating_report") /\ Oldest(r).type \in {"report", "complete"}
    BY <1>1 DEF HandleFrame, Oldest, HandlePeerReady, HandleStartConfirmation, HandleTestRequest,
       HandleTestResult, HandleWarning, HandlePeerAbort, HandleReportManifest,
       HandleTransferFrame, HandleComplete
  <2>2. QED BY <1>1, <1>goto, <1>same, <2>1
<1>2. ASSUME NEW r \in Role, Launch(r) \/ StartCommand(r) PROVE FALSE
  <2>1. st[r] \in {"handshake", "waiting_for_local_start"} /\ fin[r] = NoFin /\ UNCHANGED peerReady
    BY <1>2 DEF Launch, StartCommand, Running
  <2>2. \/ SendLocalReady(r, "waiting_for_local_start")
        \/ st' = [st EXCEPT ![r] = "waiting_for_local_start"]
    BY <1>2, GotoForward DEF Launch, StartCommand
  <2>3. CASE SendLocalReady(r, "waiting_for_local_start")
    <3>1. st[r] \in Waiting
      BY <2>1 DEF Waiting, Early
    <3>2. st'["PC2"] = st["PC2"] \/ st'["PC2"] \in Early
      BY <1>type, <2>3, <3>1, SendLocalReadyLife
    <3>3. QED BY <3>2 DEF Early
  <2>4. CASE st' = [st EXCEPT ![r] = "waiting_for_local_start"]
    BY <1>type, <2>4
  <2>5. QED BY <2>2, <2>3, <2>4
<1>3. ASSUME NEW r \in Role, OnCountdownGo(r) \/ Exit(r) PROVE FALSE
  <2>1. fin[r].state # "generating_report"
    BY DEF TypeOK, FinSpec, Stop
  <2>2. QED BY <1>3, <1>goto, <2>1 DEF OnCountdownGo, Exit
<1>4. ASSUME HandlePlanDone PROVE FALSE
  BY <1>4, <1>same, <1>type DEF HandlePlanDone
<1>5. ASSUME HandshakeReject PROVE FALSE
  BY <1>5, <1>goto, <1>type DEF HandshakeReject, Stop
<1>6. ASSUME NEW r \in Role,
             \/ QuitCommand(r) \/ CtrlC(r) \/ HandleConnErr(r) \/ HandleInterrupt(r)
             \/ HandleTransferDone(r) \/ Teardown(r)
      PROVE  FALSE
  BY <1>6 DEF QuitCommand, CtrlC, HandleConnErr, HandleInterrupt, HandleTransferDone, Teardown
<1>7. ASSUME \/ PlanStep \/ BudgetExpires \/ CarrierDrops \/ CarrierReturns \/ HandleCallExpired
             \/ OpFinishes \/ SenderStep \/ ReceiverStep \/ LinkCut \/ HandleOpDone
      PROVE  FALSE
  BY <1>7 DEF PlanStep, PlanCall, PlanBaseEnds, PlanBoundary, CallReturns,
       CableWindowStart, CableTestReturns, CableWindowEnd, BudgetExpires, CarrierDrops,
       CarrierReturns, OpFinishes, SenderStep, SenderWrites, SenderEnds, ReceiverStep,
       ReceiverTakes, ReceiverStops, LinkCut, HandleOpDone, HandleCallExpired
<1>8. ASSUME UNCHANGED vars PROVE FALSE
  BY <1>8 DEF vars
<1>9. QED BY <1>1, <1>2, <1>3, <1>4, <1>5, <1>6, <1>7, <1>8 DEF Next, Loop, Finished

\* A plan the loop has handled stays so.
LEMMA HandledStays ==
  ASSUME TypeOK, [Next]_vars, CompletionInv, plan.pc = "handled"
  PROVE  plan'.pc = "handled"
<1>1. ~PlanStep /\ ~BudgetExpires
  BY PlanGoesOn
<1>2. ~PlanStarts
  BY DEF PlanStarts, CompletionInv, PlanBeforeVerdict, Early
<1>3. ~HandlePlanDone
  BY DEF HandlePlanDone
<1>4. QED BY <1>1, <1>2, <1>3, PlanSteps

\* Only requests count against the worker, one each, and only those it gets
\* before it tests; nothing counts against the coordinator.
Requests ==
  /\ \A m \in In(wire, "PC2") : m.type = "test_request" => strikes["PC2"] < m.id
  /\ strikes["PC2"] <= plan.calls /\ strikes["PC2"] <= 2
  /\ st["PC2"] = "generating_report" =>
       /\ plan.pc = "handled"
       /\ \A m \in In(wire, "PC2") : m.type # "test_request"

\* What the order of the frames makes of a session, as one invariant.
OrderInv ==
  /\ Readiness /\ ReadyDelivered /\ StartOnce /\ Directions /\ SenderOrder /\ Transfers
  /\ ManifestDelivered /\ Fifo /\ FewCalls /\ Requests

\* The part of the earlier results it is preserved under.
Behind ==
  /\ TypeOK /\ EndOrder /\ CompletionInv /\ Answered /\ ResultInv /\ VerdictNotRefused

\* A strike against the worker is one for a request that came before it tested.
LEMMA WorkerStruck ==
  ASSUME Behind, OrderInv, Strike("PC2")
  PROVE  /\ Oldest("PC2").type = "test_request" /\ Oldest("PC2") \in In(wire, "PC2")
         /\ wire["PC2"] # <<>> /\ wire'["PC2"] = Tail(wire["PC2"])
         /\ strikes'["PC2"] = strikes["PC2"] + 1 /\ strikes'["PC2"] <= Oldest("PC2").id
         /\ strikes'["PC2"] <= plan.calls /\ strikes'["PC2"] <= 2
<1> DEFINE f == Oldest("PC2")
<1>0. HandleFrame("PC2") /\ Unfit("PC2") /\ strikes'["PC2"] = strikes["PC2"] + 1
  BY DEF Strike
<1>type. "PC2" \in Role /\ st["PC2"] \in PeerState /\ TypeOK /\ strikes["PC2"] \in Nat
         /\ plan.calls \in Nat /\ plan.answered \in Nat
  BY DEF Behind, TypeOK, Role, Plan
<1>f. /\ f \in In(wire, "PC2") /\ Running("PC2") /\ wire["PC2"] # <<>>
      /\ wire'["PC2"] = Tail(wire["PC2"])
  BY <1>0, <1>type, FrameTail
<1>1. f.type = "test_request" /\ st["PC2"] # "testing"
  BY <1>0, WorkerFits DEF Behind, OrderInv
<1>2. f.id \in Nat
  BY <1>f, <1>type, InFrame
<1>3. strikes["PC2"] < f.id
  BY <1>1, <1>f DEF OrderInv, Requests
<1>4. f.id <= plan.calls
  BY <1>1, <1>f DEF Behind, ResultInv
<1>5. st["PC2"] \in Early
  <2>1. st["PC2"] # "generating_report"
    BY <1>1, <1>f DEF OrderInv, Requests
  <2>2. st["PC2"] \notin Over
    BY <1>f, <1>type DEF Behind, EndOrder, Running, Finishing
  <2>3. QED BY <1>type, <1>1, <2>1, <2>2 DEF PeerState, Early, Over, Stop
<1>6. plan.calls <= 2
  <2>1. ~(plan.answered > 0)
    BY <1>5 DEF Behind, Answered, Past
  <2>2. plan.answered = 0
    BY <1>type, <2>1
  <2>3. QED BY <2>2 DEF OrderInv, FewCalls
<1> HIDE DEF f
<1>7. strikes'["PC2"] <= f.id /\ strikes'["PC2"] <= plan.calls /\ strikes'["PC2"] <= 2
  BY <1>0, <1>type, <1>2, <1>3, <1>4, <1>6
<1>8. QED BY <1>0, <1>1, <1>f, <1>7 DEF f

\* Requests is preserved.
LEMMA RequestsStep ==
  ASSUME Behind, OrderInv, [Next]_vars
  PROVE  Requests'
<1>type. /\ "PC1" \in Role /\ "PC2" \in Role /\ TypeOK /\ strikes["PC2"] \in Nat
         /\ plan.calls \in Nat /\ wire["PC2"] \in Seq(Frame) /\ strikes'["PC2"] \in Nat
         /\ plan'.calls \in Nat
  BY TypeStep DEF Behind, TypeOK, Role, Plan
<1>calls. plan.calls <= plan'.calls
  <2>1. plan'.calls = plan.calls \/ plan'.calls = plan.calls + 1
    BY <1>type, NumberingStep, IssuedPlan DEF Numbering
  <2>2. QED BY <1>type, <2>1
<1>1. strikes'["PC2"] <= plan.calls /\ strikes'["PC2"] <= 2
  <2>1. CASE strikes'["PC2"] = strikes["PC2"]
    BY <2>1 DEF OrderInv, Requests
  <2>2. CASE Strike("PC2")
    BY <2>2, WorkerStruck
  <2>3. QED BY <1>type, <2>1, <2>2, StrikeStep DEF StrikeOf
<1>2. ASSUME NEW m \in In(wire', "PC2"), m.type = "test_request" PROVE strikes'["PC2"] < m.id
  <2>1. CASE Sends("PC2", m) /\ m \in Frame
    <3>1. m.id = plan.calls + 1
      BY <1>2, <2>1 DEF Sends, Issues
    <3>2. QED BY <1>type, <1>1, <3>1
  <2>2. CASE m \in In(wire, "PC2") /\ strikes'["PC2"] = strikes["PC2"]
    BY <1>2, <2>2 DEF OrderInv, Requests
  <2>3. CASE Strike("PC2")
    <3>1. /\ wire["PC2"] # <<>> /\ wire'["PC2"] = Tail(wire["PC2"])
          /\ Oldest("PC2").type = "test_request" /\ Oldest("PC2") \in In(wire, "PC2")
          /\ strikes'["PC2"] <= Oldest("PC2").id
      BY <2>3, WorkerStruck
    <3>2. PICK j \in 1..Len(Tail(wire["PC2"])) : m = Tail(wire["PC2"])[j]
      BY <3>1 DEF In
    <3>3. Rel(Oldest("PC2"), m)
      BY <1>type, <3>1, <3>2, OrderedTail DEF Oldest, OrderInv, Fifo
    <3>4. Oldest("PC2").id < m.id
      BY <1>2, <3>1, <3>3 DEF Rel
    <3>5. Oldest("PC2").id \in Nat
      BY <1>type, <3>1, InFrame
    <3>6. m.id \in Nat
      <4>1. Tail(wire["PC2"]) \in Seq(Frame)
        BY <1>type, <3>1
      <4>2. m \in Frame
        BY <3>2, <4>1
      <4>3. QED BY <4>2 DEF Frame
    <3>7. QED BY <1>type, <3>1, <3>4, <3>5, <3>6
  <2>4. QED BY <1>type, <2>1, <2>2, <2>3, NewFrame, StrikeStep DEF StrikeOf
<1>3. ASSUME st'["PC2"] = "generating_report"
      PROVE  plan'.pc = "handled" /\ \A m \in In(wire', "PC2") : m.type # "test_request"
  <2>1. ASSUME plan.pc = "handled", NEW m \in In(wire', "PC2"), m.type = "test_request"
        PROVE  m \in In(wire, "PC2")
    <3>1. plan.pc # PcOf(m.arg)
      BY <2>1 DEF PcOf
    <3>2. ~Sends("PC2", m)
      BY <2>1, <3>1 DEF Sends, Issues
    <3>3. QED BY <1>type, <3>2, NewFrame
  <2>2. plan.pc = "handled" => plan'.pc = "handled"
    BY <1>type, HandledStays DEF Behind
  <2>3. CASE st["PC2"] = "generating_report"
    BY <2>1, <2>2, <2>3 DEF OrderInv, Requests
  <2>4. CASE st["PC2"] # "generating_report"
    <3>1. HandleFrame("PC2") /\ Oldest("PC2").type \in {"report", "complete"}
      BY <1>3, <1>type, <2>4, ReportEntered
    <3>2. /\ Oldest("PC2") \in In(wire, "PC2") /\ wire["PC2"] # <<>>
          /\ wire'["PC2"] = Tail(wire["PC2"])
      BY <1>type, <3>1, FrameTail
    <3>3. sentComplete \/ sender.pc # "off"
      BY <3>1, <3>2 DEF Behind, Answered
    <3>4. plan.pc = "handled"
      BY <3>3 DEF Behind, CompletionInv, PlanBeforeVerdict
    <3>5. ASSUME NEW m \in In(wire', "PC2") PROVE m.type # "test_request"
      <4>1. PICK j \in 1..Len(Tail(wire["PC2"])) : m = Tail(wire["PC2"])[j]
        BY <3>2 DEF In
      <4>2. Rel(Oldest("PC2"), m)
        BY <1>type, <3>2, <4>1, OrderedTail DEF Oldest, OrderInv, Fifo
      <4>3. QED BY <3>1, <4>2 DEF Rel
    <3>6. QED BY <2>2, <3>4, <3>5
  <2>5. QED BY <2>3, <2>4
<1>4. strikes'["PC2"] <= plan'.calls
  BY <1>type, <1>calls, <1>1
<1>5. QED BY <1>1, <1>2, <1>3, <1>4 DEF Requests, In

\* The earlier results hold together.
LEMMA BehindCorrect == Spec => []Behind
BY TypeCorrect, EndOrderCorrect, CompletionInvCorrect, AnsweredCorrect, ResultInvCorrect,
   VerdictCorrect, PTL DEF Behind

\* OrderInv holds throughout a session.
LEMMA OrderCorrect == Spec => []OrderInv
<1>1. Init => OrderInv
  <2>1. SUFFICES ASSUME Init PROVE OrderInv
    OBVIOUS
  <2>2. /\ "PC1" \in Role /\ "PC2" \in Role /\ In(wire, "PC1") = {} /\ In(wire, "PC2") = {}
        /\ Len(wire["PC2"]) = 0 /\ \A r \in Role : In(wire, r) = {}
    BY <2>1 DEF Init, In, Role
  <2>3. Readiness
    BY <2>1, <2>2 DEF Init, Readiness
  <2>4. ReadyDelivered /\ Directions
    BY <2>1, <2>2 DEF Init, ReadyDelivered, Directions
  <2>5. StartOnce
    BY <2>1, <2>2 DEF Init, StartOnce
  <2>6. SenderOrder /\ Transfers /\ ManifestDelivered
    BY <2>1, <2>2 DEF Init, SenderOrder, Transfers, ManifestDelivered
  <2>7. Fifo
    BY <2>2 DEF Fifo, Ordered, Preceded
  <2>8. FewCalls
    BY <2>1 DEF Init, FewCalls
  <2>9. Requests
    BY <2>1, <2>2 DEF Init, Requests
  <2>10. QED BY <2>3, <2>4, <2>5, <2>6, <2>7, <2>8, <2>9 DEF OrderInv
<1>2. Behind /\ OrderInv /\ [Next]_vars => OrderInv'
  <2>1. SUFFICES ASSUME Behind, OrderInv, [Next]_vars PROVE OrderInv'
    OBVIOUS
  <2>2. Readiness'
    BY <2>1, ReadinessStep DEF Behind, OrderInv
  <2>3. ReadyDelivered'
    BY <2>1, ReadyDeliveredStep DEF Behind, OrderInv
  <2>4. StartOnce'
    BY <2>1, <2>2, StartOnceStep DEF Behind, OrderInv, Fifo
  <2>5. Directions'
    BY <2>1, DirectionsStep DEF Behind, OrderInv
  <2>6. SenderOrder'
    BY <2>1, SenderOrderStep DEF Behind, OrderInv
  <2>7. Transfers'
    BY <2>1, TransfersStep DEF Behind, OrderInv
  <2>8. ManifestDelivered'
    BY <2>1, ManifestDeliveredStep DEF Behind, OrderInv
  <2>9. Fifo'
    BY <2>1, FifoStep DEF Behind, OrderInv
  <2>10. FewCalls'
    BY <2>1, FewCallsStep DEF Behind, OrderInv
  <2>11. Requests'
    BY <2>1, RequestsStep
  <2>12. QED BY <2>2, <2>3, <2>4, <2>5, <2>6, <2>7, <2>8, <2>9, <2>10, <2>11 DEF OrderInv
<1>3. QED BY <1>1, <1>2, BehindCorrect, PTL DEF Spec

\* No session of two correct peers ends with protocol_error: the three strikes
\* of warnInvalidState are never reached (session.go), whatever the order in
\* which the loops take announcements, confirmations, requests, transfer frames
\* and verdicts.  At most two requests can reach a worker that does not test
\* yet, since a plan without an answer issues no third.
THEOREM NoProtocolErrorCorrect == Spec => []NoProtocolError
<1>1. Init => NoProtocolError /\ AbortInFlight
  BY DEF Init, NoProtocolError, AbortInFlight, In, NoFin
<1>2. /\ Behind /\ OrderInv /\ NoProtocolError /\ AbortInFlight /\ [Next]_vars
      => NoProtocolError' /\ AbortInFlight'
  <2>1. SUFFICES ASSUME Behind, OrderInv, NoProtocolError, AbortInFlight, [Next]_vars
                 PROVE  NoProtocolError' /\ AbortInFlight'
    OBVIOUS
  <2>type. TypeOK /\ \A r \in Role : strikes[r] \in Nat
    BY <2>1 DEF Behind, TypeOK
  <2>2. ASSUME NEW q \in Role PROVE fin'[q].reason # "protocol_error"
    <3>1. ~(Strike(q) /\ strikes[q] + 1 >= MaxInvalidState)
      <4>1. CASE q = "PC1"
        BY <2>1, <4>1, CoordinatorFits DEF Strike, Behind, OrderInv
      <4>2. ASSUME q = "PC2", Strike(q) PROVE ~(strikes[q] + 1 >= MaxInvalidState)
        <5>1. strikes'["PC2"] = strikes["PC2"] + 1 /\ strikes'["PC2"] <= 2
          BY <2>1, <4>2, WorkerStruck
        <5>2. strikes["PC2"] \in Nat
          BY <2>type DEF Role
        <5>3. QED BY <4>2, <5>1, <5>2 DEF MaxInvalidState
      <4>3. QED BY <4>1, <4>2 DEF Role
    <3>2. \A m \in In(wire, q) : m.type = "abort" => m.arg # "protocol_error"
      BY <2>1, PeerType DEF AbortInFlight, NoProtocolError
    <3>3. fin[q].reason # "protocol_error"
      BY <2>1 DEF NoProtocolError
    <3>4. QED BY <2>1, <2>type, <3>1, <3>2, <3>3, StrikeStep DEF StrikeOf
  <2>3. AbortInFlight'
    BY <2>1, <2>type, FarewellStep
  <2>4. QED BY <2>2, <2>3 DEF NoProtocolError
<1>3. QED BY <1>1, <1>2, BehindCorrect, OrderCorrect, PTL DEF Spec

-----------------------------------------------------------------------------
(* The routed frames never outgrow their channel                           *)

\* How far a stream can fill the worker's channel.  On its wire s, with b frames
\* in the channel and n chunks written: known says the manifest was taken.
Counted(s, b, n, known) ==
  /\ known => \A j \in 1..Len(s) : s[j].type = "report_chunk" => b + j <= 1 + n
  /\ \A i, j \in 1..Len(s) : s[i].type = "report" /\ s[j].type = "report_chunk" => j <= i + n

\* Fewer frames in the channel, or more written, keep it.
LEMMA CountedMore ==
  ASSUME NEW s \in Seq(Frame), NEW b \in Nat, NEW n \in Nat, NEW c \in Nat, NEW k \in Nat, NEW x,
         Counted(s, b, n, x), c <= b, n <= k
  PROVE  Counted(s, c, k, x)
<1>1. Len(s) \in Nat
  OBVIOUS
<1>2. ASSUME x, NEW j \in 1..Len(s), s[j].type = "report_chunk" PROVE c + j <= 1 + k
  <2>1. b + j <= 1 + n
    BY <1>2 DEF Counted
  <2>2. QED BY <1>1, <2>1
<1>3. ASSUME NEW i \in 1..Len(s), NEW j \in 1..Len(s), s[i].type = "report", s[j].type = "report_chunk"
      PROVE  j <= i + k
  <2>1. j <= i + n
    BY <1>3 DEF Counted
  <2>2. QED BY <1>1, <2>1
<1>4. QED BY <1>2, <1>3 DEF Counted

\* So does the loss of the newest frames.
LEMMA CountedPrefix ==
  ASSUME NEW s \in Seq(Frame), NEW b \in Nat, NEW n \in Nat, NEW x, NEW m \in 0..Len(s),
         Counted(s, b, n, x)
  PROVE  Counted(SubSeq(s, 1, m), b, n, x)
<1>1. /\ Len(SubSeq(s, 1, m)) = m /\ Len(s) \in Nat
      /\ \A i \in 1..m : SubSeq(s, 1, m)[i] = s[i] /\ i \in 1..Len(s)
  OBVIOUS
<1>2. QED BY <1>1 DEF Counted

\* Taking one frame, which may go into the channel.
LEMMA CountedTail ==
  ASSUME NEW s \in Seq(Frame), s # <<>>, NEW b \in Nat, NEW c \in Nat, NEW n \in Nat, NEW x,
         Counted(s, b, n, x), c <= b + 1
  PROVE  Counted(Tail(s), c, n, x)
<1>1. /\ Len(Tail(s)) = Len(s) - 1 /\ Len(s) \in Nat /\ Len(s) > 0
      /\ \A i \in 1..Len(Tail(s)) : Tail(s)[i] = s[i + 1] /\ i + 1 \in 1..Len(s)
  OBVIOUS
<1>2. ASSUME x, NEW j \in 1..Len(Tail(s)), Tail(s)[j].type = "report_chunk" PROVE c + j <= 1 + n
  <2>1. b + (j + 1) <= 1 + n
    BY <1>1, <1>2 DEF Counted
  <2>2. QED BY <1>1, <2>1
<1>3. ASSUME NEW i \in 1..Len(Tail(s)), NEW j \in 1..Len(Tail(s)), Tail(s)[i].type = "report",
             Tail(s)[j].type = "report_chunk"
      PROVE  j <= i + n
  <2>1. j + 1 <= (i + 1) + n
    BY <1>1, <1>3 DEF Counted
  <2>2. QED BY <1>1, <2>1
<1>4. QED BY <1>2, <1>3 DEF Counted

\* Taking the manifest, which is the first frame of the channel.
LEMMA CountedManifest ==
  ASSUME NEW s \in Seq(Frame), s # <<>>, Head(s).type = "report", NEW b \in Nat, NEW c \in Nat,
         NEW n \in Nat, NEW x, Counted(s, b, n, x), c <= 1
  PROVE  Counted(Tail(s), c, n, TRUE)
<1>1. /\ Len(Tail(s)) = Len(s) - 1 /\ Len(s) \in Nat /\ Len(s) > 0 /\ Head(s) = s[1]
      /\ 1 \in 1..Len(s)
      /\ \A i \in 1..Len(Tail(s)) : Tail(s)[i] = s[i + 1] /\ i + 1 \in 1..Len(s)
  OBVIOUS
<1>2. ASSUME NEW j \in 1..Len(Tail(s)), Tail(s)[j].type = "report_chunk" PROVE c + j <= 1 + n
  <2>1. j + 1 <= 1 + n
    BY <1>1, <1>2 DEF Counted
  <2>2. QED BY <1>1, <2>1
<1>3. ASSUME NEW i \in 1..Len(Tail(s)), NEW j \in 1..Len(Tail(s)), Tail(s)[i].type = "report",
             Tail(s)[j].type = "report_chunk"
      PROVE  j <= i + n
  <2>1. j + 1 <= (i + 1) + n
    BY <1>1, <1>3 DEF Counted
  <2>2. QED BY <1>1, <2>1
<1>4. QED BY <1>2, <1>3 DEF Counted

\* A frame that is no chunk.
LEMMA CountedOther ==
  ASSUME NEW s \in Seq(Frame), NEW m \in Frame, m.type # "report_chunk", NEW b \in Nat, NEW n \in Nat,
         NEW x, Counted(s, b, n, x)
  PROVE  Counted(Append(s, m), b, n, x)
<1> DEFINE z == Append(s, m)
<1>1. Len(z) = Len(s) + 1 /\ z[Len(s) + 1] = m /\ \A i \in 1..Len(s) : z[i] = s[i]
  OBVIOUS
<1>2. Len(s) \in Nat
  OBVIOUS
<1> HIDE DEF z
<1>3. ASSUME NEW j \in 1..Len(z), z[j].type = "report_chunk" PROVE j \in 1..Len(s) /\ s[j].type = "report_chunk"
  BY <1>1, <1>2, <1>3
<1>4. ASSUME NEW i \in 1..Len(z), NEW j \in 1..Len(z), z[i].type = "report", z[j].type = "report_chunk"
      PROVE  j <= i + n
  <2>1. j \in 1..Len(s) /\ s[j].type = "report_chunk"
    BY <1>3, <1>4
  <2>2. CASE i \in 1..Len(s)
    BY <1>1, <1>4, <2>1, <2>2 DEF Counted
  <2>3. CASE i = Len(s) + 1
    BY <1>2, <2>1, <2>3
  <2>4. QED BY <1>1, <1>2, <2>2, <2>3
<1>5. ASSUME x, NEW j \in 1..Len(z), z[j].type = "report_chunk" PROVE b + j <= 1 + n
  BY <1>3, <1>5 DEF Counted
<1>6. Counted(z, b, n, x)
  BY <1>4, <1>5 DEF Counted
<1>7. QED BY <1>6 DEF z

\* A chunk, once the channel and the wire together have room for it.
LEMMA CountedChunk ==
  ASSUME NEW s \in Seq(Frame), NEW m \in Frame, m.type = "report_chunk", NEW b \in Nat, NEW n \in Nat,
         NEW x, Counted(s, b, n, x), x => b + Len(s) <= 1 + n,
         \A i \in 1..Len(s) : s[i].type = "report" => Len(s) <= i + n
  PROVE  Counted(Append(s, m), b, n + 1, x)
<1> DEFINE z == Append(s, m)
<1>1. Len(z) = Len(s) + 1 /\ z[Len(s) + 1] = m /\ \A i \in 1..Len(s) : z[i] = s[i]
  OBVIOUS
<1>2. Len(s) \in Nat
  OBVIOUS
<1> HIDE DEF z
<1>3. ASSUME x, NEW j \in 1..Len(z), z[j].type = "report_chunk" PROVE b + j <= 1 + (n + 1)
  <2>1. CASE j \in 1..Len(s)
    <3>1. b + j <= 1 + n
      BY <1>1, <1>3, <2>1 DEF Counted
    <3>2. QED BY <1>2, <3>1
  <2>2. CASE j = Len(s) + 1
    BY <1>2, <1>3, <2>2
  <2>3. QED BY <1>1, <1>2, <2>1, <2>2
<1>4. ASSUME NEW i \in 1..Len(z), NEW j \in 1..Len(z), z[i].type = "report", z[j].type = "report_chunk"
      PROVE  j <= i + (n + 1)
  <2>1. i \in 1..Len(s)
    BY <1>1, <1>2, <1>4
  <2>2. CASE j \in 1..Len(s)
    <3>1. j <= i + n
      BY <1>1, <1>4, <2>1, <2>2 DEF Counted
    <3>2. QED BY <1>2, <2>1, <3>1
  <2>3. CASE j = Len(s) + 1
    <3>1. Len(s) <= i + n
      BY <1>1, <1>4, <2>1
    <3>2. QED BY <1>2, <2>1, <2>3, <3>1
  <2>4. QED BY <1>1, <1>2, <2>2, <2>3
<1>5. Counted(z, b, n + 1, x)
  BY <1>3, <1>4 DEF Counted
<1>6. QED BY <1>5 DEF z

\* How the number of chunks written moves.
LEMMA SentStep ==
  ASSUME TypeOK, [Next]_vars
  PROVE  \/ sender'.sent = sender.sent /\ (sender'.pc = "stream" => sender.pc = "stream")
         \/ SenderWrites /\ sender.pc = "manifest" /\ sender'.sent = 0
         \/ /\ SenderWrites /\ sender.pc = "stream" /\ sender'.sent = sender.sent + 1
            /\ sender'.pc = "stream" => sender.sent + 1 # MaxChunks
<1>type. sender \in SenderState
  BY DEF TypeOK
<1>1. CASE UNCHANGED sender
  BY <1>1
<1>2. CASE HandlePlanDone
  BY <1>2, <1>type DEF HandlePlanDone, SenderState
<1>3. CASE PlanStep \/ BudgetExpires
  BY <1>3, PlanGoesOn
<1>4. CASE OnCountdownGo("PC1")
  BY <1>4 DEF OnCountdownGo, xferVars
<1>5. CASE SenderWrites
  <2>1. CASE sender.pc = "manifest"
    BY <1>5, <2>1 DEF SenderWrites
  <2>2. CASE sender.pc = "stream"
    BY <1>5, <2>2 DEF SenderWrites, AtLastChunk
  <2>3. QED BY <1>5, <2>1, <2>2 DEF SenderWrites
<1>6. CASE SenderEnds \/ HandleTransferDone("PC1")
  BY <1>6, <1>type DEF SenderEnds, HandleTransferDone, SenderState
<1>7. QED BY <1>1, <1>2, <1>3, <1>4, <1>5, <1>6, PlanWriters DEF SenderStep

\* How the worker's channel moves.
WorkerChannel ==
  \/ Len(xBuf'["PC2"]) <= Len(xBuf["PC2"]) /\ xRan'["PC2"] = xRan["PC2"]
     /\ (xOn'["PC2"] => xOn["PC2"])
  \/ /\ HandleFrame("PC2") /\ Oldest("PC2").type = "report" /\ xRan'["PC2"]
     /\ Len(xBuf'["PC2"]) = 1 \/ xBuf'["PC2"] = xBuf["PC2"]
  \/ /\ HandleFrame("PC2") /\ Oldest("PC2").type \in {"report_chunk", "report_ack"} /\ xOn["PC2"]
     /\ Len(xBuf'["PC2"]) = Len(xBuf["PC2"]) + 1 /\ UNCHANGED <<xRan, xOn>>

\* Every step moves it in one of these ways.
LEMMA ChannelStep ==
  ASSUME TypeOK, [Next]_vars, VerdictNotRefused
  PROVE  WorkerChannel
<1>type. /\ xBuf \in [Role -> Seq(FrameArg)] /\ xBuf["PC2"] \in Seq(FrameArg)
         /\ xRan \in [Role -> BOOLEAN] /\ xOn \in [Role -> BOOLEAN]
         /\ "PC1" \in Role /\ "PC2" \in Role /\ "PC1" # "PC2" /\ Len(xBuf["PC2"]) \in Nat
  BY DEF TypeOK, Role
<1>same. ASSUME xBuf'["PC2"] = xBuf["PC2"], xRan'["PC2"] = xRan["PC2"], xOn'["PC2"] => xOn["PC2"]
         PROVE  WorkerChannel
  BY <1>same, <1>type DEF WorkerChannel
<1>1. CASE UNCHANGED <<xOn, xRan, xBuf, receiver>>
  BY <1>1, <1>same
<1>2. CASE HandlePlanDone
  BY <1>2, <1>same, <1>type DEF HandlePlanDone
<1>3. CASE TakesManifest
  <2>1. HandleFrame("PC2") /\ Oldest("PC2").type = "report"
    BY <1>3 DEF TakesManifest, HandleFrame, HandleReportManifest, Oldest, Rest
  <2>2. xRan'["PC2"]
    BY <2>1, ManifestKnown
  <2>3. \/ UNCHANGED xBuf
        \/ xBuf' = [xBuf EXCEPT !["PC2"] = <<Oldest("PC2").arg>>]
    BY <1>3 DEF TakesManifest, HandleReportManifest
  <2>4. Len(xBuf'["PC2"]) = 1 \/ xBuf'["PC2"] = xBuf["PC2"]
    BY <1>type, <2>3
  <2>5. QED BY <2>1, <2>2, <2>4 DEF WorkerChannel
<1>4. CASE SenderEnds
  BY <1>4, <1>same, <1>type DEF SenderEnds, XferFrame
<1>5. CASE ReceiverStep
  <2>1. UNCHANGED <<xOn, xRan>>
    BY <1>5 DEF ReceiverStep, ReceiverTakes, ReceiverStops, XferFrame
  <2>2. CASE UNCHANGED xBuf
    BY <1>same, <2>1, <2>2
  <2>3. CASE xBuf["PC2"] # <<>> /\ xBuf' = [xBuf EXCEPT !["PC2"] = Tail(@)]
    <3>1. xBuf'["PC2"] = Tail(xBuf["PC2"])
      BY <1>type, <2>3
    <3>2. Len(xBuf'["PC2"]) <= Len(xBuf["PC2"])
      BY <1>type, <2>3, <3>1
    <3>3. QED BY <2>1, <3>2 DEF WorkerChannel
  <2>4. QED BY <1>5, <2>2, <2>3 DEF ReceiverStep, ReceiverTakes, ReceiverStops
<1>6. ASSUME NEW r \in Role, Routes(r) PROVE WorkerChannel
  <2>1. UNCHANGED <<xOn, xRan>> /\ HandleFrame(r) /\ Oldest(r).type \in {"report_chunk", "report_ack"}
    BY <1>6 DEF Routes, HandleTransferFrame
  <2>2. UNCHANGED xBuf \/ (xOn[r] /\ xBuf' = [xBuf EXCEPT ![r] = Append(@, Oldest(r).arg)])
    BY <1>6 DEF Routes, HandleTransferFrame, RouteTransferFrame
  <2>3. CASE UNCHANGED xBuf \/ r # "PC2"
    BY <1>same, <1>type, <2>1, <2>2, <2>3
  <2>4. CASE r = "PC2" /\ xOn[r] /\ xBuf' = [xBuf EXCEPT ![r] = Append(@, Oldest(r).arg)]
    <3>1. xBuf'["PC2"] = Append(xBuf["PC2"], Oldest("PC2").arg)
      BY <1>type, <2>4
    <3>2. Len(xBuf'["PC2"]) = Len(xBuf["PC2"]) + 1
      BY <1>type, <3>1
    <3>3. QED BY <2>1, <2>4, <3>2 DEF WorkerChannel
  <2>5. QED BY <2>2, <2>3, <2>4
<1>7. ASSUME NEW r \in Role, HandleTransferDone(r) PROVE WorkerChannel
  <2>1. UNCHANGED <<xBuf, xRan>> /\ xOn' = [xOn EXCEPT ![r] = FALSE]
    BY <1>7 DEF HandleTransferDone
  <2>2. xOn'["PC2"] => xOn["PC2"]
    BY <1>type, <2>1
  <2>3. QED BY <1>same, <2>1, <2>2
<1>8. QED BY <1>1, <1>2, <1>3, <1>4, <1>5, <1>6, <1>7, TransferWriters

\* The worker's side of a transfer: once the manifest is taken the wire holds
\* only what follows it, and before that the channel is empty.
AfterManifest ==
  /\ xRan["PC2"] =>
       /\ sender.pc \notin {"off", "manifest"}
       /\ \A m \in In(wire, "PC2") : m.type \in {"report_chunk", "warning", "complete", "abort"}
  /\ ~xRan["PC2"] => xBuf["PC2"] = <<>>
  /\ xOn["PC2"] => xRan["PC2"]

\* That is preserved.
LEMMA AfterManifestStep ==
  ASSUME Behind, OrderInv, [Next]_vars, AfterManifest
  PROVE  AfterManifest'
<1>type. /\ TypeOK /\ "PC1" \in Role /\ "PC2" \in Role /\ Peer("PC2") = "PC1"
         /\ xBuf["PC2"] \in Seq(FrameArg) /\ xBuf'["PC2"] \in Seq(FrameArg)
         /\ wire["PC2"] \in Seq(Frame) /\ xRan \in [Role -> BOOLEAN] /\ xRan' \in [Role -> BOOLEAN]
  BY TypeStep DEF Behind, TypeOK, Role, Peer
<1>ch. WorkerChannel
  BY <1>type, ChannelStep DEF Behind
<1>1. ~xRan'["PC2"] => xBuf'["PC2"] = <<>>
  <2>1. SUFFICES ASSUME ~xRan'["PC2"] PROVE xBuf'["PC2"] = <<>>
    OBVIOUS
  <2>2. ~xRan["PC2"]
    BY <1>type, <2>1, RanStep
  <2>3. xBuf["PC2"] = <<>> /\ ~xOn["PC2"]
    BY <2>2 DEF AfterManifest
  <2>4. Len(xBuf'["PC2"]) <= Len(xBuf["PC2"])
    BY <1>ch, <2>1, <2>3 DEF WorkerChannel
  <2>5. QED BY <1>type, <2>3, <2>4
<1>2. xOn'["PC2"] => xRan'["PC2"]
  BY <1>ch DEF WorkerChannel, AfterManifest
<1>3. ASSUME xRan'["PC2"] PROVE sender'.pc \notin {"off", "manifest"}
  <2>1. sender.pc \notin {"off", "manifest"}
    <3>1. CASE xRan["PC2"]
      BY <3>1 DEF AfterManifest
    <3>2. CASE TakesManifest
      BY <1>type, <3>2, ManifestTaken DEF OrderInv, SenderOrder
    <3>3. QED BY <1>3, <1>type, <3>1, <3>2, RanStep
  <2>2. HandlePlanDone => sender.pc = "off"
    BY DEF HandlePlanDone, Behind, CompletionInv, PlanBeforeVerdict
  <2>3. QED BY <1>type, <2>1, <2>2, SenderMoves DEF SenderOf
<1>4. ASSUME xRan'["PC2"], NEW m \in In(wire', "PC2")
      PROVE  m.type \in {"report_chunk", "warning", "complete", "abort"}
  <2>1. CASE xRan["PC2"]
    <3>1. CASE m \in In(wire, "PC2")
      BY <2>1, <3>1 DEF AfterManifest
    <3>2. CASE m \in Frame /\ Sends("PC2", m)
      <4>1. sender.pc \notin {"off", "manifest"}
        BY <2>1 DEF AfterManifest
      <4>2. plan.pc = "handled"
        BY <4>1 DEF Behind, CompletionInv, PlanBeforeVerdict
      <4>3. st["PC1"] \notin Waiting
        BY <4>2 DEF Behind, CompletionInv, PlanBeforeVerdict, Waiting
      <4>4. plan.pc # PcOf(m.arg)
        BY <4>2 DEF PcOf
      <4>5. QED BY <1>type, <3>2, <4>1, <4>3, <4>4 DEF Sends, Issues
    <3>3. QED BY <1>type, <3>1, <3>2, NewFrame
  <2>2. CASE TakesManifest
    <3>1. HandleFrame("PC2") /\ Oldest("PC2").type = "report"
      BY <2>2 DEF TakesManifest, HandleFrame, HandleReportManifest, Oldest, Rest
    <3>2. wire["PC2"] # <<>> /\ wire'["PC2"] = Tail(wire["PC2"])
      BY <1>type, <3>1, FrameTail
    <3>3. PICK j \in 1..Len(Tail(wire["PC2"])) : m = Tail(wire["PC2"])[j]
      BY <1>4, <3>2 DEF In
    <3>4. Rel(Oldest("PC2"), m)
      BY <1>type, <3>2, <3>3, OrderedTail DEF Oldest, OrderInv, Fifo
    <3>5. m.type \notin {"test_request", "report", "ready", "start_confirmation"}
      BY <3>1, <3>4 DEF Rel
    <3>6. m \in Frame
      <4>1. Tail(wire["PC2"]) \in Seq(Frame)
        BY <1>type, <3>2
      <4>2. QED BY <3>3, <4>1
    <3>7. m.type \notin {"test_result", "report_ack"}
      <4>1. wire["PC2"] \in Seq(Frame) /\ wire["PC2"] # <<>>
        BY <1>type, <3>2
      <4>2. j + 1 \in 1..Len(wire["PC2"]) /\ wire["PC2"][j + 1] = m
        BY <3>3, <4>1
      <4>3. m \in In(wire, "PC2")
        BY <4>2 DEF In
      <4>4. QED BY <4>3 DEF OrderInv, Directions
    <3>8. QED BY <3>5, <3>6, <3>7 DEF Frame, FrameType
  <2>3. QED BY <1>4, <1>type, <2>1, <2>2, RanStep
<1>5. QED BY <1>1, <1>2, <1>3, <1>4 DEF AfterManifest, In

\* The stream is no longer than MaxChunks, and the worker's channel holds no
\* more of it than was written.
Filled ==
  /\ sender.sent <= MaxChunks /\ (sender.pc = "stream" => sender.sent < MaxChunks)
  /\ Len(xBuf["PC2"]) <= 1 + sender.sent
  /\ Counted(wire["PC2"], Len(xBuf["PC2"]), sender.sent, xRan["PC2"])

\* A loop that takes a frame leaves the sender alone.
LEMMA FrameSender == ASSUME NEW r \in Role, HandleFrame(r) PROVE UNCHANGED sender
BY DEF HandleFrame, HandlePeerReady, HandleStartConfirmation, HandleTestRequest,
   HandleTestResult, HandleWarning, HandlePeerAbort, HandleReportManifest,
   HandleTransferFrame, HandleComplete, xferVars

\* While the sender streams over a live connection its wire holds nothing
\* behind the chunks, so the newest frame tells how much is written.
LEMMA StreamTail ==
  ASSUME Behind, OrderInv, AfterManifest, Filled, Live, sender.pc = "stream"
  PROVE  /\ xRan["PC2"] => Len(xBuf["PC2"]) + Len(wire["PC2"]) <= 1 + sender.sent
         /\ \A i \in 1..Len(wire["PC2"]) :
              wire["PC2"][i].type = "report" => Len(wire["PC2"]) <= i + sender.sent
<1> DEFINE s == wire["PC2"]
           b == Len(xBuf["PC2"])
           n == sender.sent
<1>type. s \in Seq(Frame) /\ Len(s) \in Nat /\ b \in Nat /\ n \in Nat /\ "PC2" \in Role /\ TypeOK
  BY DEF Behind, TypeOK, Role, SenderState
<1>f. b <= 1 + n /\ Counted(s, b, n, xRan["PC2"])
  BY DEF Filled
<1>none. ASSUME NEW i \in 1..Len(s) PROVE s[i].type \notin {"warning", "complete", "abort"}
  <2>1. s[i] \in In(wire, "PC2")
    BY DEF In
  <2>2. s[i].type = "warning" => sender.pc = "handled"
    BY <2>1 DEF OrderInv, SenderOrder
  <2>3. s[i].type = "abort" => td["PC1"] # "open"
    BY <2>1 DEF OrderInv, SenderOrder
  <2>4. s[i].type = "complete" => sentComplete
    BY <2>1 DEF Behind, CompletionInv, VerdictInFlight
  <2>5. ~sentComplete
    BY DEF OrderInv, SenderOrder
  <2>6. QED BY <2>2, <2>3, <2>4, <2>5 DEF Live
<1>1. ASSUME xRan["PC2"] PROVE b + Len(s) <= 1 + n
  <2>1. CASE Len(s) = 0
    BY <1>type, <1>f, <2>1
  <2>2. CASE Len(s) # 0
    <3>1. Len(s) \in 1..Len(s)
      BY <1>type, <2>2
    <3>2. s[Len(s)] \in In(wire, "PC2")
      BY <3>1 DEF In
    <3>3. s[Len(s)].type = "report_chunk"
      BY <1>1, <1>none, <3>1, <3>2 DEF AfterManifest
    <3>4. QED BY <1>1, <1>f, <3>1, <3>3 DEF Counted
  <2>3. QED BY <2>1, <2>2
<1>2. ASSUME NEW i \in 1..Len(s), s[i].type = "report" PROVE Len(s) <= i + n
  <2>1. CASE i = Len(s)
    BY <1>type, <2>1
  <2>2. CASE i # Len(s)
    <3>1. Len(s) \in 1..Len(s) /\ i < Len(s)
      BY <1>type, <2>2
    <3>2. Rel(s[i], s[Len(s)])
      BY <3>1 DEF OrderInv, Fifo, Ordered
    <3>3. s[Len(s)].type \notin {"test_request", "report", "ready", "start_confirmation"}
      BY <1>2, <3>2 DEF Rel
    <3>4. s[Len(s)] \in In(wire, "PC2")
      BY <3>1 DEF In
    <3>5. s[Len(s)].type \in FrameType /\ s[Len(s)].type \notin {"test_result", "report_ack"}
      BY <1>type, <3>4, InFrame DEF OrderInv, Directions
    <3>6. s[Len(s)].type = "report_chunk"
      BY <1>none, <3>1, <3>3, <3>5 DEF FrameType
    <3>7. QED BY <1>2, <1>f, <3>1, <3>6 DEF Counted
  <2>3. QED BY <2>1, <2>2
<1>3. QED BY <1>1, <1>2

\* Filled is preserved.
LEMMA FilledStep ==
  ASSUME Behind, OrderInv, AfterManifest, Filled, [Next]_vars
  PROVE  Filled'
<1> DEFINE s == wire["PC2"]
           t == wire'["PC2"]
           b == Len(xBuf["PC2"])
           c == Len(xBuf'["PC2"])
           n == sender.sent
           k == sender'.sent
           x == xRan["PC2"]
           y == xRan'["PC2"]
<1>type. /\ TypeOK /\ "PC2" \in Role /\ "PC1" \in Role /\ s \in Seq(Frame) /\ t \in Seq(Frame)
         /\ b \in Nat /\ c \in Nat /\ n \in Nat /\ k \in Nat /\ x \in BOOLEAN /\ y \in BOOLEAN
         /\ MaxChunks \in Nat \ {0}
  BY TypeStep, BoundsAssumption DEF Behind, TypeOK, Role, SenderState
<1>f. n <= MaxChunks /\ (sender.pc = "stream" => n < MaxChunks) /\ b <= 1 + n /\ Counted(s, b, n, x)
  BY DEF Filled
<1>ch. WorkerChannel
  BY <1>type, ChannelStep DEF Behind
<1>sent. \/ k = n /\ (sender'.pc = "stream" => sender.pc = "stream")
         \/ SenderWrites /\ sender.pc = "manifest" /\ k = 0
         \/ /\ SenderWrites /\ sender.pc = "stream" /\ k = n + 1
            /\ sender'.pc = "stream" => n + 1 # MaxChunks
  BY <1>type, SentStep
<1>1. k <= MaxChunks /\ (sender'.pc = "stream" => k < MaxChunks)
  <2> HIDE DEF n, k
  <2>1. QED BY <1>type, <1>f, <1>sent
<1>goal. SUFFICES c <= 1 + k /\ Counted(t, c, k, y)
  BY <1>1 DEF Filled, Counted
<1>2. CASE HandleFrame("PC2")
  <2>1. k = n /\ s # <<>> /\ t = Tail(s) /\ Oldest("PC2") = Head(s)
    BY <1>2, <1>type, FrameTail, FrameSender DEF Oldest
  <2>2. CASE c <= b /\ y = x
    <3> HIDE DEF s, t, b, c, n, k, x, y
    <3>1. c <= b + 1 /\ c <= 1 + n
      BY <1>type, <1>f, <2>2
    <3>2. Counted(Tail(s), c, n, x)
      BY <1>type, <1>f, <2>1, <3>1, CountedTail
    <3>3. QED BY <2>1, <2>2, <3>1, <3>2
  <2>3. CASE Oldest("PC2").type = "report" /\ y /\ (c = 1 \/ xBuf'["PC2"] = xBuf["PC2"])
    <3>1. ~x
      <4>1. Oldest("PC2") \in In(wire, "PC2")
        BY <1>2, <1>type, FrameTail
      <4>2. QED BY <2>3, <4>1 DEF AfterManifest
    <3>2. c <= 1
      <4>1. xBuf["PC2"] = <<>>
        BY <3>1 DEF AfterManifest
      <4>2. CASE c = 1 BY <4>2
      <4>3. CASE xBuf'["PC2"] = xBuf["PC2"]
        <5>1. c = 0 BY <4>1, <4>3
        <5>2. QED BY <5>1
      <4>4. QED BY <2>3, <4>2, <4>3
    <3>3. Head(s).type = "report" /\ y
      BY <2>1, <2>3
    <3> HIDE DEF s, t, b, c, n, k, x, y
    <3>4. Counted(Tail(s), c, n, TRUE)
      BY <1>type, <1>f, <2>1, <3>2, <3>3, CountedManifest
    <3>5. y = TRUE
      BY <1>type, <3>3
    <3>6. c <= 1 + k
      BY <1>type, <3>2
    <3>7. QED BY <2>1, <3>4, <3>5, <3>6
  <2>4. CASE /\ Oldest("PC2").type \in {"report_chunk", "report_ack"} /\ xOn["PC2"] /\ c = b + 1
             /\ UNCHANGED <<xRan, xOn>>
    <3>1. x = TRUE /\ y = x
      BY <1>type, <2>4 DEF AfterManifest
    <3>2. Oldest("PC2").type = "report_chunk"
      <4>1. Oldest("PC2") \in In(wire, "PC2")
        BY <1>2, <1>type, FrameTail
      <4>2. QED BY <2>4, <4>1 DEF OrderInv, Directions
    <3>3. c = b + 1 /\ Head(s).type = "report_chunk"
      BY <2>1, <2>4, <3>2
    <3> HIDE DEF s, t, b, c, n, k, x, y
    <3>4. 1 \in 1..Len(s) /\ s[1] = Head(s)
      BY <1>type, <2>1
    <3>5. b + 1 <= 1 + n
      BY <1>f, <3>1, <3>3, <3>4 DEF Counted
    <3>6. c <= 1 + n /\ c <= b + 1
      BY <1>type, <3>3, <3>5
    <3>7. Counted(Tail(s), c, n, x)
      BY <1>type, <1>f, <2>1, <3>6, CountedTail
    <3>8. QED BY <2>1, <3>1, <3>6, <3>7
  <2>5. QED BY <1>ch, <2>2, <2>3, <2>4 DEF WorkerChannel
<1>3. CASE ~HandleFrame("PC2")
  <2>1. c <= b /\ y = x
    BY <1>3, <1>ch DEF WorkerChannel
  <2>2. CASE SenderWrites /\ sender.pc = "manifest" /\ k = 0
    <3>1. x = FALSE /\ c = 0
      <4>1. ~xRan["PC2"] /\ xBuf["PC2"] = <<>>
        BY <2>2 DEF AfterManifest
      <4>2. b = 0 /\ x = FALSE
        BY <1>type, <4>1
      <4>3. QED BY <1>type, <2>1, <4>2
    <3>2. ASSUME NEW j \in 1..Len(t) PROVE t[j].type # "report_chunk"
      <4>1. t[j] \in In(wire', "PC2")
        BY DEF In
      <4>2. t[j] \in In(wire, "PC2") \/ Sends("PC2", t[j])
        BY <1>type, <4>1, NewFrame
      <4>3. QED BY <2>2, <4>2 DEF OrderInv, SenderOrder, Sends
    <3>3. Counted(t, c, k, y)
      BY <2>1, <3>1, <3>2 DEF Counted
    <3>4. c <= 1 + k
      BY <1>type, <3>1
    <3>5. QED BY <3>3, <3>4
  <2>3. CASE k = n \/ (SenderWrites /\ sender.pc = "stream" /\ k = n + 1)
    <3>1. n <= k /\ c <= 1 + k
      <4> HIDE DEF b, c, n, k
      <4>1. QED BY <1>type, <1>f, <2>1, <2>3
    <3>same. ASSUME NEW u \in Seq(Frame), Counted(u, b, n, x) PROVE Counted(u, c, k, y)
      <4> HIDE DEF b, c, n, k, x, y
      <4>1. Counted(u, c, k, x)
        BY <1>type, <2>1, <3>1, <3>same, CountedMore
      <4>2. QED BY <2>1, <4>1
    <3>2. CASE t = s
      BY <1>type, <1>f, <3>1, <3>2, <3>same
    <3>3. CASE t = <<>>
      <4>1. Len(t) = 0
        BY <3>3
      <4>2. QED BY <3>1, <4>1 DEF Counted
    <3>4. ASSUME NEW m \in 0..Len(s), t = SubSeq(s, 1, m) PROVE Counted(t, c, k, y)
      <4> HIDE DEF s, t, b, c, n, k, x, y
      <4>1. Counted(SubSeq(s, 1, m), b, n, x)
        BY <1>type, <1>f, <3>4, CountedPrefix
      <4>2. QED BY <1>type, <3>4, <3>same, <4>1
    <3>5. ASSUME NEW m \in Frame, t = Append(s, m), Sends("PC2", m), Live PROVE Counted(t, c, k, y)
      <4>1. CASE m.type # "report_chunk"
        <5> HIDE DEF s, t, b, c, n, k, x, y
        <5>1. Counted(Append(s, m), b, n, x)
          BY <1>type, <1>f, <4>1, CountedOther
        <5>2. QED BY <1>type, <3>5, <3>same, <5>1
      <4>2. CASE m.type = "report_chunk"
        <5>1. SenderWrites /\ sender.pc = "stream"
          BY <3>5, <4>2 DEF Sends
        <5>2. k = n + 1
          <6>1. sender'.sent = IF sender.pc = "stream" THEN sender.sent + 1 ELSE 0
            BY <5>1 DEF SenderWrites
          <6>2. QED BY <5>1, <6>1
        <5>3. (x => b + Len(s) <= 1 + n) /\ \A i \in 1..Len(s) : s[i].type = "report" => Len(s) <= i + n
          BY <3>5, <5>1, StreamTail
        <5> HIDE DEF s, t, b, c, n, k, x, y
        <5>4. Counted(Append(s, m), b, n + 1, x)
          BY <1>type, <1>f, <4>2, <5>3, CountedChunk
        <5>5. Append(s, m) \in Seq(Frame) /\ n + 1 \in Nat /\ k <= n + 1 /\ n + 1 <= k
          BY <1>type, <5>2
        <5>6. Counted(Append(s, m), c, k, x)
          BY <1>type, <2>1, <5>4, <5>5, CountedMore
        <5>7. QED BY <2>1, <3>5, <5>6
      <4>3. QED BY <4>1, <4>2
    <3>6. ASSUME NEW m \in Frame, NEW o \in Frame, t = Append(Append(s, m), o),
                 m.type # "report_chunk", o.type # "report_chunk"
          PROVE  Counted(t, c, k, y)
      <4> DEFINE z == Append(s, m)
      <4> HIDE DEF s, t, b, c, n, k, x, y
      <4>1. Counted(z, b, n, x) /\ z \in Seq(Frame)
        BY <1>type, <1>f, <3>6, CountedOther
      <4>2. t = Append(z, o)
        BY <3>6
      <4> HIDE DEF z
      <4>3. Counted(Append(z, o), b, n, x) /\ Append(z, o) \in Seq(Frame)
        BY <1>type, <3>6, <4>1, CountedOther
      <4>4. QED BY <3>same, <4>2, <4>3
    <3>7. WireOf("PC2")
      BY <1>type, WireStep
    <3>8. Counted(t, c, k, y)
      BY <1>3, <3>2, <3>3, <3>4, <3>5, <3>6, <3>7 DEF WireOf
    <3>9. QED BY <3>1, <3>8
  <2>4. QED BY <1>sent, <2>2, <2>3
<1>4. QED BY <1>2, <1>3

\* How the worker's receiver moves, and with it the coordinator's channel.
LEMMA ReceiverMoves ==
  ASSUME TypeOK, [Next]_vars
  PROVE  /\ \/ UNCHANGED receiver
            \/ TakesManifest /\ HasReceiver /\ receiver' = "recv"
            \/ receiver = "recv" /\ receiver' \in {"recv", "ok", "failed"}
            \/ receiver \in {"ok", "failed"} /\ receiver' = "handled"
         /\ \/ xBuf'["PC1"] = xBuf["PC1"]
            \/ xBuf["PC1"] # <<>> /\ SenderEnds
            \/ HandleFrame("PC1") /\ Oldest("PC1").type \in {"report_chunk", "report_ack"}
<1>type. /\ xBuf \in [Role -> Seq(FrameArg)] /\ "PC1" \in Role /\ "PC2" \in Role /\ "PC1" # "PC2"
  BY DEF TypeOK, Role
<1>1. CASE HandlePlanDone
  BY <1>1 DEF HandlePlanDone
<1>2. CASE TakesManifest
  BY <1>2, <1>type DEF TakesManifest, HandleReportManifest
<1>3. CASE SenderEnds
  BY <1>3, <1>type DEF SenderEnds
<1>4. CASE ReceiverStep
  BY <1>4, <1>type DEF ReceiverStep, ReceiverTakes, ReceiverStops
<1>5. ASSUME NEW r \in Role, Routes(r)
      PROVE  /\ UNCHANGED receiver
             /\ \/ xBuf'["PC1"] = xBuf["PC1"]
                \/ HandleFrame("PC1") /\ Oldest("PC1").type \in {"report_chunk", "report_ack"}
  <2>1. UNCHANGED receiver /\ HandleFrame(r) /\ Oldest(r).type \in {"report_chunk", "report_ack"}
    BY <1>5 DEF Routes, HandleTransferFrame
  <2>2. UNCHANGED xBuf \/ xBuf' = [xBuf EXCEPT ![r] = Append(@, Oldest(r).arg)]
    BY <1>5 DEF Routes, HandleTransferFrame, RouteTransferFrame
  <2>3. QED BY <1>type, <2>1, <2>2
<1>6. ASSUME NEW r \in Role, HandleTransferDone(r)
      PROVE  /\ xBuf'["PC1"] = xBuf["PC1"]
             /\ \/ UNCHANGED receiver
                \/ receiver \in {"ok", "failed"} /\ receiver' = "handled"
  BY <1>6 DEF HandleTransferDone
<1>7. CASE UNCHANGED <<xOn, xRan, xBuf, receiver>>
  BY <1>7
<1>8. QED BY <1>1, <1>2, <1>3, <1>4, <1>5, <1>6, <1>7, TransferWriters

\* No acknowledgement is on its way or in the coordinator's channel.
NoAck == xBuf["PC1"] = <<>> /\ \A m \in In(wire, "PC1") : m.type # "report_ack"

\* The worker acknowledges once.
AckOnce ==
  /\ receiver # "off" => xRan["PC2"] /\ HasReceiver
  /\ receiver \in {"off", "recv"} /\ (~xRan["PC2"] \/ HasReceiver) => NoAck
  /\ \A m \in In(wire, "PC1") : m.type = "report_ack" => xBuf["PC1"] = <<>>
  /\ Ordered(wire["PC1"])

\* The worker that takes a manifest has no receiver yet.
LEMMA ManifestFirst ==
  ASSUME TypeOK, AfterManifest, AckOnce, TakesManifest
  PROVE  ~xRan["PC2"] /\ receiver = "off" /\ NoAck
<1>1. ~xRan["PC2"]
  BY ManifestTaken DEF AfterManifest
<1>2. QED BY <1>1 DEF AckOnce

\* An acknowledgement is written when there is no other.
LEMMA AckWritten ==
  ASSUME TypeOK, AfterManifest, AckOnce, NEW m, m.type = "report_ack", Sends("PC1", m)
  PROVE  /\ NoAck /\ xBuf'["PC1"] = xBuf["PC1"]
         /\ \/ receiver = "recv" /\ receiver' \in {"ok", "failed"}
            \/ ~HasReceiver /\ xRan'["PC2"]
<1>type. /\ xBuf \in [Role -> Seq(FrameArg)] /\ "PC1" \in Role /\ "PC2" \in Role /\ "PC1" # "PC2"
  BY DEF TypeOK, Role
<1>1. \/ ReceiverTakes /\ receiver' # "recv"
      \/ TakesManifest /\ ~HasReceiver /\ xRan'["PC2"]
  BY DEF Sends
<1>2. CASE ReceiverTakes /\ receiver' # "recv"
  <2>1. /\ receiver = "recv" /\ receiver' \in {"ok", "failed"} /\ xBuf' = [xBuf EXCEPT !["PC2"] = Tail(@)]
    BY <1>2 DEF ReceiverTakes
  <2>2. NoAck
    BY <2>1 DEF AckOnce
  <2>3. QED BY <1>type, <2>1, <2>2
<1>3. CASE TakesManifest /\ ~HasReceiver /\ xRan'["PC2"]
  <2>1. xBuf'["PC1"] = xBuf["PC1"]
    BY <1>3, <1>type DEF TakesManifest, HandleReportManifest
  <2>2. QED BY <1>3, <2>1, ManifestFirst
<1>4. QED BY <1>1, <1>2, <1>3

\* AckOnce is preserved.
LEMMA AckOnceStep ==
  ASSUME Behind, OrderInv, AfterManifest, AckOnce, [Next]_vars
  PROVE  AckOnce'
<1> DEFINE s == wire["PC1"]
           t == wire'["PC1"]
<1>type. /\ TypeOK /\ "PC1" \in Role /\ "PC2" \in Role /\ s \in Seq(Frame) /\ t \in Seq(Frame)
         /\ xRan \in [Role -> BOOLEAN] /\ xRan' \in [Role -> BOOLEAN]
  BY TypeStep DEF Behind, TypeOK, Role
<1>ran. xRan["PC2"] => xRan'["PC2"]
  BY <1>type, RanStep
<1>mv. /\ \/ UNCHANGED receiver
          \/ TakesManifest /\ HasReceiver /\ receiver' = "recv"
          \/ receiver = "recv" /\ receiver' \in {"recv", "ok", "failed"}
          \/ receiver \in {"ok", "failed"} /\ receiver' = "handled"
       /\ \/ xBuf'["PC1"] = xBuf["PC1"]
          \/ xBuf["PC1"] # <<>> /\ SenderEnds
          \/ HandleFrame("PC1") /\ Oldest("PC1").type \in {"report_chunk", "report_ack"}
  BY <1>type, ReceiverMoves
<1>routed. ASSUME HandleFrame("PC1"), Oldest("PC1").type \in {"report_chunk", "report_ack"}
           PROVE  Oldest("PC1") \in In(wire, "PC1") /\ Oldest("PC1").type = "report_ack"
  <2>1. Oldest("PC1") \in In(wire, "PC1")
    BY <1>routed, <1>type, FrameTail
  <2>2. QED BY <1>routed, <2>1 DEF OrderInv, Directions
<1>1. receiver' # "off" => xRan'["PC2"] /\ HasReceiver
  <2>1. CASE receiver # "off"
    BY <1>ran, <2>1 DEF AckOnce
  <2>2. CASE TakesManifest /\ HasReceiver
    <3>1. HandleFrame("PC2") /\ Oldest("PC2").type = "report"
      BY <2>2 DEF TakesManifest, HandleFrame, HandleReportManifest, Oldest, Rest
    <3>2. QED BY <1>type, <2>2, <3>1, ManifestKnown DEF Behind
  <2>3. QED BY <1>mv, <2>1, <2>2
<1>2. ASSUME receiver' \in {"off", "recv"}, ~xRan'["PC2"] \/ HasReceiver
      PROVE  xBuf'["PC1"] = <<>> /\ \A m \in In(wire', "PC1") : m.type # "report_ack"
  <2>1. NoAck
    <3>1. CASE TakesManifest
      BY <1>type, <3>1, ManifestFirst
    <3>2. CASE receiver \in {"off", "recv"}
      BY <1>2, <1>ran, <3>2 DEF AckOnce
    <3>3. QED BY <1>2, <1>mv, <3>1, <3>2
  <2>2. xBuf'["PC1"] = <<>>
    BY <1>mv, <1>routed, <2>1 DEF NoAck
  <2>3. ASSUME NEW m \in In(wire', "PC1"), m.type = "report_ack" PROVE FALSE
    <3>1. Sends("PC1", m)
      BY <1>type, <2>1, <2>3, NewFrame DEF NoAck
    <3>2. QED BY <1>2, <1>type, <2>3, <3>1, AckWritten
  <2>4. QED BY <2>2, <2>3
<1>3. ASSUME NEW m \in In(wire', "PC1"), m.type = "report_ack" PROVE xBuf'["PC1"] = <<>>
  <2>1. CASE m \in In(wire, "PC1")
    <3>1. xBuf["PC1"] = <<>>
      BY <1>3, <2>1 DEF AckOnce
    <3>2. ASSUME HandleFrame("PC1"), Oldest("PC1").type = "report_ack" PROVE FALSE
      <4>1. s # <<>> /\ t = Tail(s)
        BY <1>type, <3>2, FrameTail
      <4>2. PICK j \in 1..Len(Tail(s)) : m = Tail(s)[j]
        BY <1>3, <4>1 DEF In
      <4>3. Rel(Oldest("PC1"), m)
        BY <1>type, <4>1, <4>2, OrderedTail DEF Oldest, AckOnce
      <4>4. QED BY <1>3, <3>2, <4>3 DEF Rel
    <3>3. QED BY <1>mv, <1>routed, <3>1, <3>2
  <2>2. CASE Sends("PC1", m)
    BY <1>3, <1>type, <2>2, AckWritten DEF NoAck
  <2>3. QED BY <1>type, <2>1, <2>2, NewFrame
<1>4. Ordered(t)
  <2>old. Ordered(s)
    BY DEF AckOnce
  <2>rel. ASSUME NEW m \in Frame, Sends("PC1", m), NEW i \in 1..Len(s) PROVE Rel(s[i], m)
    <3>1. s[i] \in In(wire, "PC1")
      BY DEF In
    <3>2. s[i].type \notin {"start_confirmation", "test_request", "report", "report_chunk"}
      BY <3>1 DEF OrderInv, Directions
    <3>3. m.type \notin {"start_confirmation", "test_request", "report", "report_chunk"}
      BY <2>rel DEF Sends
    <3>4. m.type = "report_ack" => s[i].type # "report_ack"
      BY <1>type, <2>rel, <3>1, AckWritten DEF NoAck
    <3>5. QED BY <3>2, <3>3, <3>4 DEF Rel
  <2>1. CASE t = s
    BY <2>old, <2>1
  <2>2. CASE s # <<>> /\ t = Tail(s)
    BY <1>type, <2>old, <2>2, OrderedTail
  <2>3. CASE t = <<>>
    <3>1. Len(t) = 0
      BY <2>3
    <3>2. QED BY <3>1 DEF Ordered
  <2>4. ASSUME NEW n \in 0..Len(s), t = SubSeq(s, 1, n) PROVE Ordered(t)
    <3> HIDE DEF s, t
    <3>1. QED BY <1>type, <2>old, <2>4, OrderedPrefix
  <2>5. ASSUME NEW m \in Frame, t = Append(s, m), Sends("PC1", m) PROVE Ordered(t)
    <3>1. \A i \in 1..Len(s) : Rel(s[i], m)
      BY <2>5, <2>rel
    <3> HIDE DEF s, t
    <3>2. Ordered(Append(s, m))
      BY <1>type, <2>old, <3>1, OrderedAppend
    <3>3. QED BY <2>5, <3>2
  <2>6. ASSUME NEW m \in Frame, NEW n \in Frame, t = Append(Append(s, m), n), Sends("PC1", m),
               Sends("PC1", n), \/ m.type = "ready" /\ n.type = "start_confirmation"
                                \/ m.type = "warning" /\ n.type = "complete"
        PROVE  Ordered(t)
    <3> DEFINE z == Append(s, m)
    <3>1. \A i \in 1..Len(s) : Rel(s[i], m) /\ Rel(s[i], n)
      BY <2>6, <2>rel
    <3>2. Rel(m, n)
      BY <2>6 DEF Rel
    <3>3. t = Append(z, n)
      BY <2>6
    <3> HIDE DEF s, t
    <3>4. Ordered(z) /\ z \in Seq(Frame)
      BY <1>type, <2>old, <3>1, OrderedAppend
    <3>5. Len(z) = Len(s) + 1 /\ z[Len(s) + 1] = m /\ (\A i \in 1..Len(s) : z[i] = s[i])
          /\ Len(s) \in Nat
      BY <1>type
    <3> HIDE DEF z
    <3>6. \A i \in 1..Len(z) : Rel(z[i], n)
      BY <3>1, <3>2, <3>5
    <3>7. Ordered(Append(z, n))
      BY <3>4, <3>6, OrderedAppend
    <3>8. QED BY <3>3, <3>7
  <2>7. WireOf("PC1")
    BY <1>type, WireStep
  <2>8. QED BY <2>1, <2>2, <2>3, <2>4, <2>5, <2>6, <2>7 DEF WireOf
<1>5. QED BY <1>1, <1>2, <1>3, <1>4 DEF AckOnce, NoAck, In, Ordered

\* The transfer invariants hold throughout a session.
LEMMA FilledCorrect == Spec => [](AfterManifest /\ Filled /\ AckOnce)
<1>1. Init => AfterManifest /\ Filled /\ AckOnce
  <2>1. SUFFICES ASSUME Init PROVE AfterManifest /\ Filled /\ AckOnce
    OBVIOUS
  <2>2. /\ In(wire, "PC1") = {} /\ In(wire, "PC2") = {} /\ "PC1" \in Role /\ "PC2" \in Role
        /\ Len(wire["PC2"]) = 0 /\ Len(wire["PC1"]) = 0 /\ Len(xBuf["PC2"]) = 0
    BY <2>1 DEF Init, In, Role
  <2>3. AfterManifest
    BY <2>1, <2>2 DEF Init, AfterManifest
  <2>4. sender.sent = 0 /\ sender.pc = "off"
    BY <2>1 DEF Init
  <2>5. Counted(wire["PC2"], Len(xBuf["PC2"]), sender.sent, xRan["PC2"])
    BY <2>2 DEF Counted
  <2>6. Filled
    BY <2>2, <2>4, <2>5, BoundsAssumption DEF Filled
  <2>7. Ordered(wire["PC1"])
    BY <2>2 DEF Ordered
  <2>8. AckOnce
    BY <2>1, <2>2, <2>7 DEF Init, AckOnce, NoAck
  <2>9. QED BY <2>3, <2>6, <2>8
<1>2. /\ Behind /\ OrderInv /\ AfterManifest /\ Filled /\ AckOnce /\ [Next]_vars
      => AfterManifest' /\ Filled' /\ AckOnce'
  BY AfterManifestStep, FilledStep, AckOnceStep
<1>3. QED BY <1>1, <1>2, BehindCorrect, OrderCorrect, PTL DEF Spec

\* A report stream of fewer chunks than the transfer channel has places never
\* finds it full: routeTransferFrame drops neither a chunk of the stream nor the
\* worker's acknowledgement, however late the callbacks drain their channel.
THEOREM TransferCorrect ==
  ASSUME MaxChunks < TransferBuffer
  PROVE  Spec => []TransferNeverDrops
<1>1. Behind /\ OrderInv /\ AfterManifest /\ Filled /\ AckOnce => TransferNeverDrops
  <2>1. SUFFICES ASSUME Behind, OrderInv, AfterManifest, Filled, AckOnce, NEW r \in Role, xOn[r],
                        wire[r] # <<>>, Head(wire[r]).type \in {"report_chunk", "report_ack"}
                 PROVE  Len(xBuf[r]) < TransferBuffer
    BY DEF TransferNeverDrops
  <2>type. /\ wire[r] \in Seq(Frame) /\ Len(xBuf[r]) \in Nat /\ sender.sent \in Nat
           /\ TransferBuffer \in Nat \ {0} /\ MaxChunks \in Nat
    BY <2>1, BoundsAssumption DEF Behind, TypeOK, SenderState
  <2>2. 1 \in 1..Len(wire[r]) /\ wire[r][1] = Head(wire[r])
    BY <2>1, <2>type
  <2>3. Head(wire[r]) \in In(wire, r)
    BY <2>2 DEF In
  <2>4. CASE r = "PC1"
    <3>1. Head(wire[r]).type = "report_ack"
      BY <2>1, <2>3, <2>4 DEF OrderInv, Directions
    <3>2. xBuf[r] = <<>>
      BY <2>1, <2>3, <2>4, <3>1 DEF AckOnce
    <3>3. Len(xBuf[r]) = 0
      BY <3>2
    <3>4. QED BY <2>type, <3>3
  <2>5. CASE r = "PC2"
    <3>1. Head(wire[r]).type = "report_chunk"
      BY <2>1, <2>3, <2>5 DEF OrderInv, Directions
    <3>2. xRan["PC2"]
      BY <2>1, <2>5 DEF AfterManifest
    <3>3. Len(xBuf[r]) + 1 <= 1 + sender.sent /\ sender.sent <= MaxChunks
      BY <2>1, <2>2, <2>5, <3>1, <3>2 DEF Filled, Counted
    <3>4. QED BY <2>type, <3>3
  <2>6. QED BY <2>4, <2>5 DEF Role
<1>2. QED BY <1>1, BehindCorrect, OrderCorrect, FilledCorrect, PTL
-----------------------------------------------------------------------------
(* The worker between two requests                                         *)

\* The requests and the results in flight.
Pending == {m \in In(wire, "PC2") : m.type = "test_request"}
Replies == {m \in In(wire, "PC1") : m.type = "test_result"}

\* The worker has nothing to do: its slot is free and no request is under way.
Unused == op.phase = "off" /\ Pending = {}

\* Requests are answered once and in turn: what is still under way is younger
\* than what runs and than what is answered, and the result of the pending
\* call, unless it is a refusal, finds the slot free.
Turns ==
  /\ op.phase # "off" => \A m \in Pending : op.id < m.id
  /\ op.phase # "off" /\ plan.pc = "call" /\ op.id = call.id => op.op = call.op
  /\ \A a \in Replies :
       /\ \A m \in Pending : a.id < m.id
       /\ op.phase # "off" => a.id # op.id
       /\ plan.pc = "call" /\ a.id = call.id /\ a.arg # "rejected" /\ call.op # "cancel" =>
            op.phase = "off"
  /\ plan.pc = "call" /\ call.reply # "none" =>
       /\ Pending = {}
       /\ op.phase # "off" => op.id # call.id
       /\ call.reply # "rejected" /\ call.op # "cancel" => op.phase = "off"

\* Nothing is left with the worker when the plan goes on: only a call that was
\* given up leaves an operation behind, and only the final counters follow it.
Alone ==
  /\ plan.pc = "call" /\ call.op # "snapshot" => call.armed
  /\ plan.pc = "call" /\ call.op # "snapshot" =>
       /\ op.phase # "off" => op.id = call.id
       /\ \A m \in Pending : m.id = call.id
  /\ plan.pc \in {"off", "base", "window", "tdr", "end"} => Unused
  /\ plan.pc = "boundary" /\ plan.err = "nil" /\ ~Soak => Unused

\* The requests of the cable diagnostic, and the plan before it.
CableOps == {"window_start", "window_end"}
BeforeCable ==
  \/ plan.pc \in {"off", "base", "boundary", "window"}
  \/ plan.pc = "call" /\ call.op \notin CableOps

\* The window is open exactly between the two requests of the cable diagnostic:
\* it is closed before them, the reply to the first tells whether it is open,
\* the reply to the second that it is closed.
ClosedBefore ==
  BeforeCable => /\ ~window /\ op.op \notin CableOps
                 /\ \A m \in Pending : m.arg \notin CableOps
Opening ==
  plan.pc = "call" /\ call.op = "window_start" =>
    /\ Pending # {} => ~window
    /\ op.phase # "off" /\ fin["PC2"] = NoFin => window
    /\ \A a \in Replies : a.id = call.id =>
         /\ a.arg # "ok" => ~window
         /\ a.arg = "ok" /\ fin["PC2"] = NoFin => window
    /\ call.reply \notin {"none", "ok"} => ~window
    /\ call.reply = "ok" /\ fin["PC2"] = NoFin => window
Closing ==
  plan.pc = "call" /\ call.op = "window_end" =>
    /\ \A a \in Replies : a.id = call.id => ~window
    /\ call.reply # "none" => ~window
OpenDuring == plan.pc \in {"tdr", "end"} /\ fin["PC2"] = NoFin => window

\* While the window is open, and only then, the worker reads with the wide timeout.
WideWhileOpen == fin["PC2"] = NoFin => (window <=> idle["PC2"] = "wide")

Windows == ClosedBefore /\ Opening /\ Closing /\ OpenDuring /\ WideWhileOpen

\* A plan that returned nil in time, and the verdict that follows from it, find
\* the worker unused and the window closed.
Released == Unused /\ ~window
Up == link = "up" /\ td["PC2"] = "open"
Concluded ==
  /\ plan.pc = "returned" /\ plan.err = "nil" /\ ~expired /\ ~CtxDone("PC1") /\ Up => Released
  /\ plan.pc = "handled" /\ plan.err = "nil" /\ ~interrupted["PC1"] /\ Up => Released
  /\ ~interrupted["PC1"] /\ (\E m \in In(wire, "PC2") : m.type \in {"complete", "report"}) => Released

\* All the worker still has to do is the diagnostic's, from its first request on
\* and under every plan that returned nil, interrupted or not.
Diagnosing ==
  /\ \A m \in Pending : m.arg \in CableOps
  /\ op.phase # "off" => op.op \in CableOps
CableLeft ==
  /\ plan.pc = "call" /\ call.op \in CableOps => Diagnosing
  /\ plan.pc \in {"returned", "handled"} /\ plan.err = "nil" => Diagnosing

\* The coordinator reads with the wide timeout throughout the diagnostic, and
\* the carrier is down only where the window is open and the slot is free.
Covered ==
  /\ \/ plan.pc \in {"tdr", "end"}
     \/ plan.pc = "call" /\ call.op \in CableOps
     => idle["PC1"] = "wide"
  /\ carrier = "down" =>
       \/ plan.pc \in {"tdr", "end", "returned", "handled"}
       \/ plan.pc = "call" /\ call.op = "window_end"
  /\ carrier = "down" /\ plan.pc \notin {"returned", "handled"} /\ fin["PC2"] = NoFin =>
       op.phase = "off" /\ window

\* Frames in flight are well typed.
LEMMA PendingType ==
  ASSUME TypeOK
  PROVE  /\ \A m \in Pending : m \in Frame /\ m.type = "test_request" /\ m.id \in Nat /\ m.arg \in Op
         /\ \A a \in Replies : a \in Frame /\ a.type = "test_result" /\ a.id \in Nat /\ a.arg \in Status
<1>1. ASSUME NEW m \in Pending PROVE m \in Frame /\ m.type = "test_request" /\ m.id \in Nat /\ m.arg \in Op
  BY <1>1, InFrame DEF Pending, ArgOf, Role
<1>2. ASSUME NEW m \in Replies PROVE m \in Frame /\ m.type = "test_result" /\ m.id \in Nat /\ m.arg \in Status
  BY <1>2, InFrame DEF Replies, ArgOf, Role
<1>3. QED BY <1>1, <1>2

\* A request that is new was just issued.
LEMMA PendingStep ==
  ASSUME TypeOK, [Next]_vars, NEW m \in Pending', m \notin Pending
  PROVE  Issues(m) /\ m \in Frame
<1>1. m \in In(wire', "PC2") /\ m.type = "test_request" /\ m \notin In(wire, "PC2")
  BY DEF Pending
<1>2. m \in Frame /\ Sends("PC2", m)
  BY <1>1, NewFrame DEF Role
<1>3. QED BY <1>1, <1>2 DEF Sends

\* A result that is new is the answer the worker just wrote.
LEMMA RepliesStep ==
  ASSUME TypeOK, [Next]_vars, NEW a \in Replies', a \notin Replies
  PROVE  \/ HandleOpDone /\ a.id = op.id /\ a.arg = op.status
         \/ TakesRequest /\ a.id = Oldest("PC2").id /\ UNCHANGED <<op, window, marked>>
            /\ IF Oldest("PC2").arg = "cancel" THEN a.arg = "ok" ELSE a.arg = "rejected"
<1>1. a \in In(wire', "PC1") /\ a.type = "test_result" /\ a \notin In(wire, "PC1")
  BY DEF Replies
<1>2. a \in Frame /\ Sends("PC1", a)
  BY <1>1, NewFrame DEF Role
<1>3. QED BY <1>1, <1>2 DEF Sends

\* Without an issued call no request is new.
LEMMA PendingKept ==
  ASSUME TypeOK, [Next]_vars, plan' = plan \/ plan'.calls = plan.calls
  PROVE  Pending' \subseteq Pending
<1>1. SUFFICES ASSUME NEW m \in Pending', m \notin Pending PROVE FALSE
  OBVIOUS
<1>2. Issues(m) /\ m \in Frame
  BY <1>1, PendingStep
<1>3. plan'.calls = plan.calls + 1 /\ plan.calls \in Nat
  BY <1>2, IssuedPlan
<1>4. QED BY <1>3

\* What a step does to the worker's slot and window, and to the results in
\* flight: nothing; an operation starts, a request is answered at once, the
\* operation ends, its end is handled, or the teardown closes the window.
Rests == UNCHANGED <<op, window>> /\ idle'["PC2"] = idle["PC2"] /\ Replies' \subseteq Replies
Taken(f) ==
  /\ f \in Pending /\ \A m \in Pending' : m \in Pending /\ f.id < m.id
  /\ UNCHANGED <<plan, call, expired>> /\ carrier = "up" /\ fin["PC2"] = NoFin
Starts(f) ==
  /\ Taken(f) /\ Replies' \subseteq Replies /\ f.arg # "cancel"
  /\ op.phase = "off" /\ op'.phase = "running" /\ op'.id = f.id /\ op'.op = f.arg
  /\ f.arg = "window_start" => ~window /\ window' /\ idle'["PC2"] = "wide"
  /\ f.arg # "window_start" => UNCHANGED window /\ idle'["PC2"] = idle["PC2"]
  /\ f.arg = "window_end" => window
Refuses(f) ==
  /\ Taken(f) /\ UNCHANGED <<op, window>> /\ idle'["PC2"] = idle["PC2"]
  /\ \A a \in Replies' : \/ a \in Replies
                         \/ a.id = f.id /\ a.arg = IF f.arg = "cancel" THEN "ok" ELSE "rejected"
  /\ \/ f.arg = "cancel" \/ op.phase # "off"
     \/ f.arg = "window_start" /\ window
     \/ f.arg = "window_end" /\ ~window
Works ==
  /\ op.phase = "running" /\ op'.phase = "posted" /\ op'.id = op.id /\ op'.op = op.op
  /\ UNCHANGED <<window, plan, call, expired>> /\ idle'["PC2"] = idle["PC2"]
  /\ Pending' \subseteq Pending /\ Replies' \subseteq Replies
Done ==
  /\ op.phase = "posted" /\ op' = NoOp /\ UNCHANGED <<plan, call, expired>> /\ fin["PC2"] = NoFin
  /\ Pending' \subseteq Pending
  /\ \A a \in Replies' : a \in Replies \/ (a.id = op.id /\ a.arg = op.status)
  /\ IF op.op = "window_end" \/ (op.op = "window_start" /\ op.status # "ok")
     THEN ~window' /\ idle'["PC2"] = "normal"
     ELSE UNCHANGED window /\ idle'["PC2"] = idle["PC2"]
Closes ==
  /\ UNCHANGED <<op, plan, call, expired>> /\ ~window' /\ idle'["PC2"] = idle["PC2"]
  /\ fin["PC2"] # NoFin /\ td'["PC2"] = "closed" /\ Pending' \subseteq Pending /\ Replies' \subseteq Replies
WorkerOf ==
  \/ Rests
  \/ \E f \in Pending : Starts(f) \/ Refuses(f)
  \/ Works \/ Done \/ Closes

\* Who changes a read timeout.
LEMMA IdleWriters ==
  ASSUME TypeOK, [Next]_vars
  PROVE  UNCHANGED idle \/ HandleOpDone \/ TakesRequest \/ PlanStep
<1>2. ASSUME NEW r \in Role, HandleFrame(r), ~TakesRequest PROVE UNCHANGED idle
  <2>1. CASE HandleTestRequest(r, Oldest(r), Rest(r))
    <3>1. RefusesRequest(r)
      BY <1>2, <2>1 DEF TakesRequest, HandleFrame, RefusesRequest, Role
    <3>2. QED BY <2>1, <3>1 DEF HandleTestRequest
  <2>2. CASE ~HandleTestRequest(r, Oldest(r), Rest(r))
    BY <1>2, <2>2 DEF HandleFrame, Oldest, Rest, HandlePeerReady, HandleStartConfirmation, HandleTestResult,
       HandleWarning, HandlePeerAbort, HandleReportManifest, HandleTransferFrame, HandleComplete, linkVars
  <2>3. QED BY <2>1, <2>2
<1>3. CASE UNCHANGED vars
  BY <1>3 DEF vars, linkVars
<1>4. CASE \E r \in Role : Launch(r) \/ StartCommand(r) \/ QuitCommand(r) \/ CtrlC(r) \/ Teardown(r) \/ Exit(r)
  BY <1>4 DEF Launch, StartCommand, QuitCommand, CtrlC, Teardown, Exit, linkVars
<1>5. CASE \E r \in Role : Loop(r)
  <2>1. PICK r \in Role : Loop(r)
    BY <1>5
  <2>2. CASE HandleFrame(r)
    BY <1>2, <2>2
  <2>3. CASE OnCountdownGo(r) \/ HandleConnErr(r) \/ HandleInterrupt(r) \/ HandleTransferDone(r)
             \/ HandleCallExpired \/ HandlePlanDone
    BY <2>3 DEF OnCountdownGo, HandleConnErr, HandleInterrupt, HandleTransferDone, HandleCallExpired,
       HandlePlanDone, linkVars
  <2>4. QED BY <2>1, <2>2, <2>3 DEF Loop
<1>6. CASE HandshakeReject \/ BudgetExpires \/ OpFinishes \/ SenderStep \/ ReceiverStep \/ LinkCut \/ Finished
  BY <1>6 DEF HandshakeReject, BudgetExpires, OpFinishes, SenderStep, SenderWrites, SenderEnds, ReceiverStep,
     ReceiverTakes, ReceiverStops, XferFrame, LinkCut, Finished, vars, linkVars
<1>7. CASE CarrierDrops \/ CarrierReturns
  BY <1>7 DEF CarrierDrops, CarrierReturns
<1>8. QED BY <1>3, <1>4, <1>5, <1>6, <1>7 DEF Next

\* The plan driver changes the coordinator's timeout: it widens it with the
\* first request of the cable diagnostic and restores it when the plan returns.
LEMMA PlanIdle ==
  ASSUME TypeOK, PlanStep
  PROVE  \/ UNCHANGED idle
         \/ idle' = [idle EXCEPT !["PC1"] = "wide"]
         \/ idle' = [idle EXCEPT !["PC1"] = "normal"] /\ plan'.pc = "returned"
<1>1. CASE \E m \in Frame : m.type = "test_request" /\ Issues(m)
  BY <1>1 DEF Issues
<1>2. CASE \E o \in Op, out \in {"cancel", "failed"} : Skips(o, out)
  BY <1>2 DEF Skips, Resolved
<1>3. CASE \E out \in Status \cup {"cancel"} : Returns(out)
  BY <1>3 DEF Returns, Resolved
<1>4. CASE (\E e \in PlanErr : EndsBase(e)) \/ EndsBoundary \/ EndsTest
  BY <1>4 DEF EndsBase, EndsBoundary, EndsTest, MovesOn, GoesOnIdle
<1>5. QED BY <1>1, <1>2, <1>3, <1>4, PlanMoves

\* Of the worker's timeout only the two ends of the window decide, and the
\* coordinator's stays wide until the plan returns.
LEMMA IdleStep ==
  ASSUME TypeOK, [Next]_vars
  PROVE  /\ idle'["PC2"] = idle["PC2"] \/ HandleOpDone \/ TakesRequest
         /\ idle["PC1"] = "wide" /\ plan'.pc # "returned" => idle'["PC1"] = "wide"
<1>type. idle \in [Role -> {"normal", "wide"}]
  BY DEF TypeOK
<1>1. CASE UNCHANGED idle
  BY <1>1
<1>2. CASE HandleOpDone \/ TakesRequest
  <2>1. UNCHANGED idle \/ \E x \in {"normal", "wide"} : idle' = [idle EXCEPT !["PC2"] = x]
    BY <1>2 DEF HandleOpDone, TakesRequest, HandleTestRequest, Widened
  <2>2. idle["PC1"] = idle'["PC1"]
    BY <1>type, <2>1 DEF Role
  <2>3. QED BY <1>2, <2>2
<1>3. CASE PlanStep
  <2>1. \/ UNCHANGED idle
        \/ idle' = [idle EXCEPT !["PC1"] = "wide"]
        \/ idle' = [idle EXCEPT !["PC1"] = "normal"] /\ plan'.pc = "returned"
    BY <1>3, PlanIdle
  <2>2. QED BY <1>type, <2>1 DEF Role
<1>4. QED BY <1>1, <1>2, <1>3, IdleWriters

\* The request the worker takes is older than all that follow it.
LEMMA TakenRequest ==
  ASSUME TypeOK, [Next]_vars, Ordered(wire["PC2"]), TakesRequest
  PROVE  Taken(Oldest("PC2")) /\ Oldest("PC2").type = "test_request"
<1> DEFINE f == Oldest("PC2")
<1>1. HandleFrame("PC2")
  BY DEF TakesRequest, HandleFrame, Oldest, Rest
<1>2. /\ f \in In(wire, "PC2") /\ f \in Frame /\ wire["PC2"] # <<>>
      /\ wire'["PC2"] = Tail(wire["PC2"])
  BY <1>1, FrameTail DEF Role
<1>3. f.type = "test_request" /\ f \in Pending
  BY <1>2 DEF TakesRequest, HandleTestRequest, Pending
<1>4. UNCHANGED <<plan, call, expired>> /\ carrier = "up" /\ fin["PC2"] = NoFin
  BY DEF TakesRequest, HandleTestRequest, planVars, Running
<1>5. ASSUME NEW m \in Pending' PROVE m \in Pending /\ f.id < m.id
  <2>1. m \in Pending
    BY <1>4, <1>5, PendingKept
  <2>2. wire["PC2"] \in Seq(Frame)
    BY DEF TypeOK, Role
  <2>3. \A j \in 1..Len(Tail(wire["PC2"])) : Rel(f, Tail(wire["PC2"])[j])
    BY <1>2, <2>2, OrderedTail DEF Oldest
  <2>4. PICK j \in 1..Len(wire'["PC2"]) : m = wire'["PC2"][j]
    BY <1>5 DEF Pending, In
  <2>5. Rel(f, m) /\ m.type = "test_request"
    BY <1>2, <1>5, <2>3, <2>4 DEF Pending
  <2>6. QED BY <1>3, <2>1, <2>5 DEF Rel
<1>6. QED BY <1>3, <1>4, <1>5 DEF Taken

\* The worker's part of every step.
LEMMA WorkerStep ==
  ASSUME TypeOK, [Next]_vars, Ordered(wire["PC2"])
  PROVE  WorkerOf
<1>type. idle \in [Role -> {"normal", "wide"}]
  BY DEF TypeOK
<1>1. CASE HandleOpDone
  <2>1. op.phase = "posted" /\ op' = NoOp /\ UNCHANGED <<plan, call, expired>> /\ fin["PC2"] = NoFin
    BY <1>1 DEF HandleOpDone, planVars, Running
  <2>2. Pending' \subseteq Pending
    BY <2>1, PendingKept
  <2>3. ASSUME NEW a \in Replies', a \notin Replies PROVE a.id = op.id /\ a.arg = op.status
    <3>1. ~TakesRequest
      <4>1. ASSUME TakesRequest PROVE FALSE
        <5>1. wire["PC2"] # <<>> /\ wire'["PC2"] = Tail(wire["PC2"])
          <6>1. HandleFrame("PC2")
            BY <4>1 DEF TakesRequest, HandleFrame, Oldest, Rest
          <6>2. QED BY <6>1, FrameTail DEF Role
        <5>2. wire'["PC2"] = wire["PC2"]
          BY <1>1 DEF HandleOpDone, Reply, Put, Peer, TypeOK, Role
        <5>3. wire["PC2"] \in Seq(Frame)
          BY DEF TypeOK, Role
        <5>4. Len(wire'["PC2"]) = Len(wire["PC2"]) - 1 /\ Len(wire["PC2"]) \in Nat
          BY <5>1, <5>3
        <5>5. QED BY <5>2, <5>4
      <4>2. QED BY <4>1
    <3>2. QED BY <2>3, <3>1, RepliesStep
  <2>4. IF op.op = "window_end" \/ (op.op = "window_start" /\ op.status # "ok")
        THEN ~window' /\ idle'["PC2"] = "normal"
        ELSE UNCHANGED window /\ idle'["PC2"] = idle["PC2"]
    BY <1>1, <1>type DEF HandleOpDone, Role
  <2>5. Done
    BY <2>1, <2>2, <2>3, <2>4 DEF Done
  <2>6. QED BY <2>5 DEF WorkerOf
<1>2. CASE TakesRequest /\ ~HandleOpDone
  <2> DEFINE f == Oldest("PC2")
  <2>1. Taken(f) /\ f.type = "test_request"
    BY <1>2, TakenRequest
  <2>2. f \in Pending
    BY <2>1 DEF Taken
  <2>3. ~RefusesRequest("PC2") /\ HandleTestRequest("PC2", f, Rest("PC2"))
    BY <1>2 DEF TakesRequest, RefusesRequest
  <2>4. CASE /\ f.arg # "cancel" /\ op.phase = "off"
             /\ ~(f.arg = "window_start" /\ window) /\ ~(f.arg = "window_end" /\ ~window)
    <3>1. /\ op' = [id |-> f.id, op |-> f.arg, phase |-> "running", status |-> "ok"]
          /\ IF f.arg = "window_start" THEN idle' = Widened("PC2") /\ window' = TRUE
             ELSE UNCHANGED <<idle, window>>
      BY <2>3, <2>4 DEF HandleTestRequest
    <3>2. Replies' \subseteq Replies
      <4>1. SUFFICES ASSUME NEW a \in Replies', a \notin Replies PROVE FALSE
        OBVIOUS
      <4>2. UNCHANGED op
        BY <1>2, <4>1, RepliesStep
      <4>3. QED BY <2>4, <3>1, <4>2
    <3>3. f.arg = "window_start" => ~window /\ window' /\ idle'["PC2"] = "wide"
      BY <1>type, <2>4, <3>1 DEF Widened, Role
    <3>4. f.arg # "window_start" => UNCHANGED window /\ idle'["PC2"] = idle["PC2"]
      BY <3>1
    <3>5. op'.phase = "running" /\ op'.id = f.id /\ op'.op = f.arg
      BY <3>1
    <3>6. Starts(f)
      BY <2>1, <2>4, <3>2, <3>3, <3>4, <3>5 DEF Starts
    <3>7. QED BY <2>2, <3>6 DEF WorkerOf
  <2>5. CASE ~(/\ f.arg # "cancel" /\ op.phase = "off"
               /\ ~(f.arg = "window_start" /\ window) /\ ~(f.arg = "window_end" /\ ~window))
    <3>1. UNCHANGED <<op, window, idle>>
      BY <2>3, <2>5 DEF HandleTestRequest
    <3>2. ASSUME NEW a \in Replies', a \notin Replies
          PROVE  a.id = f.id /\ a.arg = IF f.arg = "cancel" THEN "ok" ELSE "rejected"
      BY <1>2, <3>2, RepliesStep
    <3>3. Refuses(f)
      BY <2>1, <2>5, <3>1, <3>2 DEF Refuses
    <3>4. QED BY <2>2, <3>3 DEF WorkerOf
  <2>6. QED BY <2>4, <2>5
<1>3. ASSUME ~HandleOpDone, ~TakesRequest
      PROVE  Replies' \subseteq Replies /\ idle'["PC2"] = idle["PC2"]
  BY <1>3, RepliesStep, IdleStep
<1>4. CASE OpFinishes /\ ~HandleOpDone /\ ~TakesRequest
  <2>1. /\ op.phase = "running" /\ UNCHANGED <<window, plan, call, expired>>
        /\ \E s \in {"ok", "unavailable", "failed"} : op' = [op EXCEPT !.phase = "posted", !.status = s]
    BY <1>4 DEF OpFinishes, planVars
  <2>2. op'.phase = "posted" /\ op'.id = op.id /\ op'.op = op.op
    BY <2>1 DEF TypeOK, ActiveOp
  <2>3. Pending' \subseteq Pending
    BY <2>1, PendingKept
  <2>4. Works
    BY <1>3, <1>4, <2>1, <2>2, <2>3 DEF Works
  <2>5. QED BY <2>4 DEF WorkerOf
<1>5. CASE Teardown("PC2") /\ ~HandleOpDone /\ ~TakesRequest
  <2>1. /\ UNCHANGED <<op, plan, call, expired>> /\ ~window' /\ fin["PC2"] # NoFin
        /\ td'["PC2"] = "closed"
    BY <1>5 DEF Teardown, ReleaseWindow, planVars, Finishing, TypeOK, Role
  <2>2. Pending' \subseteq Pending
    BY <2>1, PendingKept
  <2>3. Closes
    BY <1>3, <1>5, <2>1, <2>2 DEF Closes
  <2>4. QED BY <2>3 DEF WorkerOf
<1>6. CASE UNCHANGED <<op, window, marked, ran>> /\ ~HandleOpDone /\ ~TakesRequest
  BY <1>3, <1>6 DEF Rests, WorkerOf
<1>7. QED BY <1>1, <1>2, <1>4, <1>5, <1>6, WorkerWriters

\* What ResultInv says of the requests and results in flight.
LEMMA Numbers ==
  ASSUME TypeOK, ResultInv
  PROVE  /\ plan.calls \in Nat /\ op.id \in Nat /\ op.id <= plan.calls
         /\ call.id \in Nat /\ (plan.pc = "call" => call.id = plan.calls)
         /\ \A m \in Pending : m.id \in Nat /\ m.id <= plan.calls
         /\ \A m \in Pending : plan.pc = "call" /\ m.id = call.id => m.arg = call.op
         /\ \A a \in Replies : a.id \in Nat /\ a.id <= plan.calls
<1>1. plan.calls \in Nat /\ op.id \in Nat /\ call.id \in Nat
  BY DEF TypeOK, Plan, ActiveOp, Call
<1>2. op.id <= plan.calls /\ (plan.pc = "call" => call.id = plan.calls)
  BY DEF ResultInv
<1>3. ASSUME NEW m \in Pending
      PROVE  m.id \in Nat /\ m.id <= plan.calls /\ (plan.pc = "call" /\ m.id = call.id => m.arg = call.op)
  <2>1. m \in In(wire, "PC2") /\ m.type = "test_request"
    BY <1>3 DEF Pending
  <2>2. QED BY <1>3, <2>1, PendingType DEF ResultInv
<1>4. ASSUME NEW a \in Replies PROVE a.id \in Nat /\ a.id <= plan.calls
  <2>1. a \in In(wire, "PC1") /\ a.type = "test_result"
    BY <1>4 DEF Replies
  <2>2. QED BY <1>4, <2>1, PendingType DEF ResultInv
<1>5. QED BY <1>1, <1>2, <1>3, <1>4

\* A call that is issued is numbered after everything in flight.
LEMMA IssuedLast ==
  ASSUME TypeOK, [Next]_vars, ResultInv, NEW m \in Frame, Issues(m)
  PROVE  /\ plan'.pc = "call" /\ call'.id = plan.calls + 1 /\ call'.op = m.arg /\ call'.reply = "none"
         /\ \A x \in Pending' : x \in Pending \/ (x.id = plan.calls + 1 /\ x.arg = m.arg)
<1>1. /\ plan'.pc = "call" /\ call'.id = plan.calls + 1 /\ call'.op = m.arg /\ call'.reply = "none"
  BY IssuedPlan
<1>2. ASSUME NEW x \in Pending', x \notin Pending PROVE x.id = plan.calls + 1 /\ x.arg = m.arg
  <2>1. x \in Frame /\ Issues(x)
    BY <1>2, PendingStep
  <2>2. call'.op = x.arg /\ x.id = plan.calls + 1
    BY <2>1, IssuedPlan
  <2>3. QED BY <1>1, <2>2
<1>3. QED BY <1>1, <1>2

\* Every step keeps the order of requests, operations and results.
LEMMA TurnsStep ==
  ASSUME TypeOK, [Next]_vars, Ordered(wire["PC2"]), ResultInv, Turns
  PROVE  Turns'
<1>num. /\ plan.calls \in Nat /\ op.id \in Nat /\ op.id <= plan.calls
        /\ call.id \in Nat /\ (plan.pc = "call" => call.id = plan.calls)
        /\ \A m \in Pending : m.id \in Nat /\ m.id <= plan.calls
        /\ \A m \in Pending : plan.pc = "call" /\ m.id = call.id => m.arg = call.op
        /\ \A a \in Replies : a.id \in Nat /\ a.id <= plan.calls
  BY Numbers
<1>1. CASE Rests
  <2>1. UNCHANGED op /\ Replies' \subseteq Replies
    BY <1>1 DEF Rests
  <2>2. CASE plan'.calls = plan.calls /\ plan'.pc # "call"
    <3>1. Pending' \subseteq Pending
      BY <2>2, PendingKept
    <3>2. QED BY <2>1, <2>2, <3>1 DEF Turns
  <2>3. CASE plan'.calls = plan.calls /\ plan.pc = "call" /\ plan'.pc = "call" /\ UNCHANGED call
    <3>1. Pending' \subseteq Pending
      BY <2>3, PendingKept
    <3>2. QED BY <2>1, <2>3, <3>1 DEF Turns
  <2>4. CASE UNCHANGED plan /\ TakesResult
    <3>1. Pending' \subseteq Pending
      BY <2>4, PendingKept
    <3> DEFINE a == Oldest("PC1")
    <3>2. /\ call'.id = call.id /\ call'.op = call.op /\ a \in Replies
          /\ \/ call'.reply = call.reply
             \/ plan.pc = "call" /\ call.reply = "none" /\ call.id = a.id /\ call'.reply = a.arg
      BY <2>4, ResultFills DEF Replies
    <3>3. ASSUME plan.pc = "call", call'.reply # "none", call'.reply # call.reply
          PROVE  /\ Pending = {} /\ (op.phase # "off" => op.id # call.id)
                 /\ call'.reply # "rejected" /\ call.op # "cancel" => op.phase = "off"
      <4>1. a.id = call.id /\ call'.reply = a.arg
        BY <3>2, <3>3
      <4>2. \A m \in Pending : a.id < m.id
        BY <3>2 DEF Turns
      <4>3. Pending = {}
        <5>1. SUFFICES ASSUME NEW m \in Pending PROVE FALSE
          OBVIOUS
        <5>2. a.id < m.id /\ m.id <= plan.calls /\ a.id = plan.calls /\ m.id \in Nat
          BY <1>num, <3>3, <4>1, <4>2
        <5>3. QED BY <1>num, <5>2
      <4>4. QED BY <3>2, <3>3, <4>1, <4>3 DEF Turns
    <3> HIDE DEF a
    <3>4. QED BY <2>1, <2>4, <3>1, <3>2, <3>3 DEF Turns
  <2>5. CASE \E m \in Frame : Issues(m)
    <3>1. PICK m \in Frame : Issues(m)
      BY <2>5
    <3>2. /\ plan'.pc = "call" /\ call'.id = plan.calls + 1 /\ call'.reply = "none"
          /\ \A x \in Pending' : x \in Pending \/ x.id = plan.calls + 1
      BY <3>1, IssuedLast
    <3>3. ASSUME NEW x \in Pending', op.phase # "off" PROVE op.id < x.id
      BY <1>num, <3>2, <3>3 DEF Turns
    <3>4. ASSUME NEW x \in Pending', NEW a \in Replies PROVE a.id < x.id
      BY <1>num, <3>2, <3>4 DEF Turns
    <3>5. op.id # call'.id /\ \A a \in Replies : a.id # call'.id
      BY <1>num, <3>2
    <3>6. QED BY <2>1, <3>2, <3>3, <3>4, <3>5 DEF Turns
  <2>6. QED BY <2>2, <2>3, <2>4, <2>5, NumberingStep DEF Numbering
<1>2. ASSUME NEW f \in Pending, Starts(f) PROVE Turns'
  <2>1. /\ UNCHANGED <<plan, call>> /\ Replies' \subseteq Replies /\ op'.id = f.id /\ op'.op = f.arg
        /\ \A m \in Pending' : m \in Pending /\ f.id < m.id
    BY <1>2 DEF Starts, Taken
  <2>2. \A a \in Replies : a.id < f.id /\ a.id \in Nat
    BY <1>num DEF Turns
  <2>3. f.id \in Nat /\ f.id <= plan.calls /\ (plan.pc = "call" /\ f.id = call.id => f.arg = call.op)
    BY <1>num
  <2>4. plan.pc = "call" => call.reply = "none"
    BY <1>2 DEF Turns
  <2>5. \A a \in Replies : a.id # f.id /\ (plan.pc = "call" => a.id # call.id)
    BY <1>num, <2>2, <2>3
  <2>6. \A a \in Replies', m \in Pending' : a.id < m.id
    BY <2>1 DEF Turns
  <2>7. QED BY <2>1, <2>3, <2>4, <2>5, <2>6 DEF Turns
<1>3. ASSUME NEW f \in Pending, Refuses(f) PROVE Turns'
  <2>1. /\ UNCHANGED <<plan, call, op>>
        /\ \A m \in Pending' : m \in Pending /\ f.id < m.id
        /\ \A a \in Replies' : a \in Replies \/ (a.id = f.id /\ (a.arg # "rejected" => f.arg = "cancel"))
    BY <1>3 DEF Refuses, Taken
  <2>2. plan.pc = "call" => call.reply = "none"
    BY <1>3 DEF Turns
  <2>3. op.phase # "off" => op.id # f.id
    BY <1>num DEF Turns
  <2>4. plan.pc = "call" /\ f.id = call.id => f.arg = call.op
    BY <1>num
  <2>5. \A a \in Replies', m \in Pending' : a.id < m.id
    BY <2>1 DEF Turns
  <2>6. QED BY <2>1, <2>2, <2>3, <2>4, <2>5 DEF Turns
<1>4. CASE Works
  <2>1. op.phase # "off"
    BY <1>4 DEF Works
  <2>2. QED BY <1>4, <2>1 DEF Works, Turns
<1>5. CASE Done
  <2>1. /\ UNCHANGED <<plan, call>> /\ op'.phase = "off" /\ op.phase # "off" /\ Pending' \subseteq Pending
        /\ \A a \in Replies' : a \in Replies \/ a.id = op.id
    BY <1>5 DEF Done, NoOp
  <2>2. QED BY <2>1 DEF Turns
<1>6. CASE Closes
  BY <1>6 DEF Closes, Turns
<1>7. QED BY <1>1, <1>2, <1>3, <1>4, <1>5, <1>6, WorkerStep DEF WorkerOf

-----------------------------------------------------------------------------
(* The plan between two requests                                           *)

\* What excuses a plan that goes on without a reply: its call expired, its
\* context is done, or the connection is gone.
Excused == expired' \/ CtxDone("PC1") \/ ~Live

\* The plan goes on from a place to the next without writing.
Passes(c, d) == plan.pc = c /\ plan'.pc = d /\ Pending' \subseteq Pending
Stays == plan'.pc = plan.pc /\ plan'.err = plan.err /\ UNCHANGED call /\ Pending' \subseteq Pending
Fills ==
  /\ UNCHANGED plan /\ Pending' \subseteq Pending
  /\ call'.id = call.id /\ call'.op = call.op /\ call'.armed = call.armed
  /\ plan.pc = "call" /\ call.reply = "none"
  /\ \E a \in Replies : a.id = call.id /\ call'.reply = a.arg
BaseGoesOn ==
  \/ Passes("off", "base")
  \/ Passes("base", "boundary")
  \/ Passes("call", "base") /\ call.op \in BaseOps /\ call.reply # "none"
  \/ Passes("call", "boundary") /\ call.op \in BaseOps /\ (plan'.err = "nil" => Soak)
BoundaryGoesOn ==
  \/ Passes("boundary", "window") /\ ~Soak /\ plan.err = "nil"
  \/ Passes("boundary", "returned") /\ (plan'.err = "nil" => ~Soak /\ plan.err = "nil")
  \/ Passes("call", "window") /\ call.op = "snapshot" /\ call.reply = "ok"
  \/ Passes("call", "returned") /\ call.op = "snapshot" /\ (plan'.err = "nil" => call.reply = "ok")
CableGoesOn ==
  \/ Passes("window", "returned") /\ Excused
  \/ Passes("call", "tdr") /\ call.op = "window_start" /\ call.reply = "ok"
  \/ Passes("call", "returned") /\ call.op = "window_start" /\ (Excused \/ call.reply \notin {"none", "ok"})
  \/ Passes("tdr", "end")
  \/ Passes("tdr", "returned") /\ plan'.err # "nil"
  \/ Passes("end", "returned") /\ Excused
  \/ Passes("call", "returned") /\ call.op = "window_end" /\ (Excused \/ call.reply # "none")
PlanOf ==
  \/ Stays \/ Fills
  \/ BaseGoesOn \/ BoundaryGoesOn \/ CableGoesOn
  \/ Passes("returned", "handled") /\ plan'.err = plan.err /\ HandlePlanDone
  \/ \E m \in Frame : Issues(m)

\* The operations of a plan are of different kinds.
LEMMA OpKinds ==
  /\ "snapshot" \notin BaseOps /\ "window_start" \notin BaseOps /\ "window_end" \notin BaseOps
  /\ \A o \in Op : o \in BaseOps \/ o \in {"snapshot", "window_start", "window_end"}
BY OpsAssumption DEF Op

\* A call that is not made ends its phase of the plan.
LEMMA SkipsOn ==
  ASSUME TypeOK, [Next]_vars, NEW o \in Op, NEW out \in {"cancel", "failed"}, Skips(o, out)
  PROVE  PlanOf
<1>1. /\ plan.pc = PcOf(o) /\ Resolved(o, out) /\ plan'.calls = plan.calls
      /\ out = "cancel" => CtxDone("PC1") \/ ~Live
      /\ out = "failed" => o = "snapshot" \/ ~Live
  BY DEF Skips, Resolved, Live
<1>2. Pending' \subseteq Pending
  BY <1>1, PendingKept
<1>3. CASE o \in BaseOps
  <2>1. plan.pc = "base" /\ plan'.pc = "boundary"
    BY <1>1, <1>3, OpKinds DEF PcOf, Resolved
  <2>2. QED BY <1>2, <2>1 DEF PlanOf, BaseGoesOn, Passes
<1>4. CASE o = "snapshot"
  <2>1. plan.pc = "boundary" /\ plan'.err = BoundaryErr(out)
        /\ plan'.pc = IF plan'.err = "nil" /\ Cable THEN "window" ELSE "returned"
    BY <1>1, <1>4, OpKinds DEF PcOf, Resolved
  <2>2. plan'.err # "nil"
    BY <2>1 DEF BoundaryErr
  <2>3. QED BY <1>2, <2>1, <2>2 DEF PlanOf, BoundaryGoesOn, Passes
<1>5. CASE o \in {"window_start", "window_end"}
  <2>1. plan.pc \in {"window", "end"} /\ plan'.pc = "returned"
    BY <1>1, <1>5, OpKinds DEF PcOf, Resolved
  <2>2. Excused
    BY <1>1, <1>5 DEF Excused
  <2>3. QED BY <1>2, <2>1, <2>2 DEF PlanOf, CableGoesOn, Passes
<1>6. QED BY <1>3, <1>4, <1>5, OpKinds

\* A call that returns ends its phase of the plan or goes on with it.
LEMMA ReturnsOn ==
  ASSUME TypeOK, [Next]_vars, Alone, NEW out \in Status \cup {"cancel"}, Returns(out)
  PROVE  PlanOf
<1>1. /\ plan.pc = "call" /\ Resolved(call.op, out) /\ plan'.calls = plan.calls
      /\ \/ out = call.reply /\ out # "none"
         \/ out = "cancel" /\ (CtxDone("PC1") \/ call.op \in BaseOps)
         \/ out = "failed" /\ (call.armed => expired' \/ CtxDone("PC1"))
  BY DEF Returns, Resolved
<1>2. Pending' \subseteq Pending
  BY <1>1, PendingKept
<1>3. call.op \in Op
  BY DEF TypeOK, Call
<1>4. CASE call.op \in BaseOps /\ out \in {"ok", "unavailable"}
  <2>1. plan'.pc = "base" /\ call.reply # "none"
    BY <1>1, <1>4, OpKinds DEF Resolved
  <2>2. QED BY <1>1, <1>2, <1>4, <2>1 DEF PlanOf, BaseGoesOn, Passes
<1>5. CASE call.op \in BaseOps /\ out \notin {"ok", "unavailable"}
  <2>1. plan'.pc = "boundary" /\ plan'.err = IF out = "cancel" THEN BudgetErr ELSE "error"
    BY <1>1, <1>5, OpKinds DEF Resolved
  <2>2. plan'.err = "nil" => Soak
    BY <2>1 DEF BudgetErr
  <2>3. QED BY <1>1, <1>2, <1>5, <2>1, <2>2 DEF PlanOf, BaseGoesOn, Passes
<1>6. CASE call.op = "snapshot"
  <2>1. plan'.err = BoundaryErr(out) /\ plan'.pc = IF plan'.err = "nil" /\ Cable THEN "window" ELSE "returned"
    BY <1>1, <1>6, OpKinds DEF Resolved
  <2>2. plan'.err = "nil" => out = "ok"
    BY <2>1 DEF BoundaryErr
  <2>3. plan'.err = "nil" => call.reply = "ok"
    BY <1>1, <2>2
  <2>4. QED BY <1>1, <1>2, <1>6, <2>1, <2>3 DEF PlanOf, BoundaryGoesOn, Passes
<1>7. CASE call.op = "window_start"
  <2>1. plan'.pc = IF out = "ok" THEN "tdr" ELSE "returned"
    BY <1>1, <1>7, OpKinds DEF Resolved
  <2>2. out = "ok" => call.reply = "ok"
    BY <1>1
  <2>3. out # "ok" => Excused \/ call.reply \notin {"none", "ok"}
    BY <1>1, <1>7, OpKinds DEF Excused, Alone
  <2>4. QED BY <1>1, <1>2, <1>7, <2>1, <2>2, <2>3 DEF PlanOf, CableGoesOn, Passes
<1>8. CASE call.op = "window_end"
  <2>1. plan'.pc = "returned"
    BY <1>1, <1>8, OpKinds DEF Resolved
  <2>2. Excused \/ call.reply # "none"
    BY <1>1, <1>8, OpKinds DEF Excused, Alone
  <2>3. QED BY <1>1, <1>2, <1>8, <2>1, <2>2 DEF PlanOf, CableGoesOn, Passes
<1>9. QED BY <1>3, <1>4, <1>5, <1>6, <1>7, <1>8, OpKinds

\* The plan's part of every step.
LEMMA PlanOn ==
  ASSUME TypeOK, [Next]_vars, PlanBeforeVerdict, Alone
  PROVE  PlanOf
<1>1. CASE UNCHANGED <<plan, call, expired>> \/ (HandleCallExpired /\ UNCHANGED <<plan, call>>)
  BY <1>1, PendingKept DEF PlanOf, Stays
<1>2. CASE TakesResult /\ UNCHANGED <<plan, expired>>
  <2>1. Pending' \subseteq Pending
    BY <1>2, PendingKept
  <2> DEFINE a == Oldest("PC1")
  <2>2. /\ call'.id = call.id /\ call'.op = call.op /\ call'.armed = call.armed /\ a \in Replies
        /\ \/ call'.reply = call.reply
           \/ plan.pc = "call" /\ call.reply = "none" /\ call.id = a.id /\ call'.reply = a.arg
    BY <1>2, ResultFills DEF Replies
  <2>3. CASE call'.reply = call.reply
    <3>1. call \in Call /\ call' \in Call
      BY <1>2, TypeStep DEF TypeOK
    <3>2. call' = call
      BY <2>2, <2>3, <3>1 DEF Call
    <3>3. QED BY <1>2, <2>1, <3>2 DEF PlanOf, Stays
  <2>4. CASE call'.reply # call.reply
    BY <1>2, <2>1, <2>2, <2>4 DEF PlanOf, Fills
  <2>5. QED BY <2>3, <2>4
<1>3. CASE PlanStarts
  <2>1. plan'.pc = "base" /\ plan'.calls = plan.calls
    BY <1>3 DEF PlanStarts, TypeOK, Plan
  <2>2. plan.pc = "off"
    BY <1>3 DEF PlanStarts, PlanBeforeVerdict, Early
  <2>3. Pending' \subseteq Pending
    BY <2>1, PendingKept
  <2>4. QED BY <2>1, <2>2, <2>3 DEF PlanOf, BaseGoesOn, Passes
<1>4. CASE HandlePlanDone /\ UNCHANGED <<call, expired>>
  <2>1. plan.pc = "returned" /\ plan' = [plan EXCEPT !.pc = "handled"]
    BY <1>4 DEF HandlePlanDone
  <2>2. plan'.pc = "handled" /\ plan'.err = plan.err /\ plan'.calls = plan.calls
    BY <2>1 DEF TypeOK, Plan
  <2>3. Pending' \subseteq Pending
    BY <2>2, PendingKept
  <2>4. QED BY <1>4, <2>1, <2>2, <2>3 DEF PlanOf, Passes
<1>5. CASE BudgetExpires /\ UNCHANGED <<call, expired>>
  <2>1. plan'.pc = plan.pc /\ plan'.err = plan.err /\ plan'.calls = plan.calls
    BY <1>5 DEF BudgetExpires, TypeOK, Plan
  <2>2. Pending' \subseteq Pending
    BY <2>1, PendingKept
  <2>3. QED BY <1>5, <2>1, <2>2 DEF PlanOf, Stays
<1>6. CASE PlanStep
  <2>1. CASE \E m \in Frame : m.type = "test_request" /\ Issues(m)
    BY <2>1 DEF PlanOf
  <2>2. CASE \E o \in Op, out \in {"cancel", "failed"} : Skips(o, out)
    BY <2>2, SkipsOn
  <2>3. CASE \E out \in Status \cup {"cancel"} : Returns(out)
    BY <2>3, ReturnsOn
  <2>4. CASE (\E e \in PlanErr : EndsBase(e)) \/ EndsBoundary \/ EndsTest
    <3>1. plan'.calls = plan.calls
      BY <2>4 DEF EndsBase, EndsBoundary, EndsTest, MovesOn
    <3>2. Pending' \subseteq Pending
      BY <3>1, PendingKept
    <3>3. CASE \E e \in PlanErr : EndsBase(e)
      BY <3>2, <3>3 DEF EndsBase, MovesOn, PlanOf, BaseGoesOn, Passes
    <3>4. CASE EndsBoundary
      BY <3>2, <3>4 DEF EndsBoundary, MovesOn, PlanOf, BoundaryGoesOn, Passes
    <3>5. CASE EndsTest
      BY <3>2, <3>5 DEF EndsTest, MovesOn, PlanOf, CableGoesOn, Passes
    <3>6. QED BY <2>4, <3>3, <3>4, <3>5
  <2>5. QED BY <1>6, <2>1, <2>2, <2>3, <2>4, PlanMoves
<1>7. QED BY <1>1, <1>2, <1>3, <1>4, <1>5, <1>6, PlanSteps

\* An unused worker does nothing but close its window in the teardown.
LEMMA UnusedRests ==
  ASSUME TypeOK, [Next]_vars, Ordered(wire["PC2"]), Unused
  PROVE  (Rests \/ Closes) /\ op'.phase = "off"
<1>1. Rests \/ Closes
  BY WorkerStep DEF WorkerOf, Works, Done, Unused
<1>2. QED BY <1>1 DEF Rests, Closes, Unused

\* The reply of a call that follows nothing unfinished finds the worker unused.
LEMMA ReplyUnused ==
  ASSUME Turns, Alone, plan.pc = "call", call.reply # "none",
         call.op # "snapshot" \/ call.reply = "ok"
  PROVE  Unused
<1>1. Pending = {}
  BY DEF Turns
<1>2. CASE call.op # "snapshot"
  BY <1>1, <1>2 DEF Turns, Alone, Unused
<1>3. CASE call.op = "snapshot"
  BY <1>1, <1>3 DEF Turns, Unused
<1>4. QED BY <1>2, <1>3

\* Every step leaves nothing with the worker that the plan does not wait for.
LEMMA AloneStep ==
  ASSUME TypeOK, [Next]_vars, Ordered(wire["PC2"]), ResultInv, PlanBeforeVerdict, Turns, Alone
  PROVE  Alone'
<1>num. /\ plan.calls \in Nat /\ (plan.pc = "call" => call.id = plan.calls)
        /\ \A m \in Pending : m.id \in Nat /\ m.id <= plan.calls
  BY Numbers
<1>1. CASE Rests
  <2>1. UNCHANGED op
    BY <1>1 DEF Rests
  <2>2. CASE Stays
    BY <2>1, <2>2 DEF Stays, Alone, Unused
  <2>3. CASE Fills
    BY <2>1, <2>3 DEF Fills, Alone, Unused
  <2>4. CASE BaseGoesOn
    <3>1. CASE Passes("off", "base") \/ Passes("base", "boundary")
      BY <2>1, <3>1 DEF Passes, Alone, Unused
    <3>2. CASE Passes("call", "base") /\ call.op \in BaseOps /\ call.reply # "none"
      <4>1. Unused
        BY <3>2, ReplyUnused, OpKinds DEF Passes
      <4>2. QED BY <2>1, <3>2, <4>1 DEF Passes, Alone, Unused
    <3>3. CASE Passes("call", "boundary") /\ call.op \in BaseOps /\ (plan'.err = "nil" => Soak)
      BY <2>1, <3>3 DEF Passes, Alone, Unused
    <3>4. QED BY <2>4, <3>1, <3>2, <3>3 DEF BaseGoesOn
  <2>5. CASE BoundaryGoesOn
    <3>1. CASE Passes("boundary", "window") /\ ~Soak /\ plan.err = "nil"
      BY <2>1, <3>1 DEF Passes, Alone, Unused
    <3>2. CASE Passes("call", "window") /\ call.op = "snapshot" /\ call.reply = "ok"
      <4>1. Unused
        BY <3>2, ReplyUnused DEF Passes
      <4>2. QED BY <2>1, <3>2, <4>1 DEF Passes, Alone, Unused
    <3>3. CASE plan'.pc = "returned"
      BY <3>3 DEF Alone
    <3>4. QED BY <2>5, <3>1, <3>2, <3>3 DEF BoundaryGoesOn, Passes
  <2>6. CASE CableGoesOn
    <3>1. CASE Passes("call", "tdr") /\ call.op = "window_start" /\ call.reply = "ok"
      <4>1. Unused
        BY <3>1, ReplyUnused DEF Passes
      <4>2. QED BY <2>1, <3>1, <4>1 DEF Passes, Alone, Unused
    <3>2. CASE Passes("tdr", "end")
      BY <2>1, <3>2 DEF Passes, Alone, Unused
    <3>3. CASE plan'.pc = "returned"
      BY <3>3 DEF Alone
    <3>4. QED BY <2>6, <3>1, <3>2, <3>3 DEF CableGoesOn, Passes
  <2>7. CASE plan'.pc = "handled"
    BY <2>7 DEF Alone
  <2>8. CASE \E m \in Frame : Issues(m)
    <3>1. PICK m \in Frame : Issues(m)
      BY <2>8
    <3>2. /\ plan'.pc = "call" /\ call'.id = plan.calls + 1 /\ call'.op = m.arg
          /\ \A x \in Pending' : x \in Pending \/ x.id = plan.calls + 1
      BY <3>1, IssuedLast
    <3>3. call'.armed = (m.arg # "snapshot") /\ plan.pc = PcOf(m.arg) /\ m.arg \in Op
      BY <3>1 DEF Issues
    <3>4. CASE m.arg = "snapshot"
      BY <3>2, <3>4 DEF Alone
    <3>5. CASE m.arg # "snapshot"
      <4>1. plan.pc \in {"base", "window", "end"}
        BY <3>3, <3>5 DEF PcOf
      <4>2. op.phase = "off" /\ Pending = {}
        BY <4>1 DEF Alone, Unused
      <4>3. QED BY <2>1, <3>2, <3>3, <3>5, <4>2 DEF Alone
    <3>6. QED BY <3>4, <3>5
  <2>9. QED BY <2>2, <2>3, <2>4, <2>5, <2>6, <2>7, <2>8, PlanOn DEF PlanOf, Passes
<1>2. ASSUME NEW f \in Pending, Starts(f) \/ Refuses(f) PROVE Alone'
  <2>1. /\ UNCHANGED <<plan, call>> /\ \A m \in Pending' : m \in Pending /\ f.id < m.id
        /\ op'.id = f.id \/ UNCHANGED op
    BY <1>2 DEF Starts, Refuses, Taken
  <2>2. ASSUME plan.pc = "call", call.op # "snapshot" PROVE f.id = call.id
    BY <1>2, <2>2 DEF Alone
  <2>3. Pending # {} /\ ~Unused
    BY <1>2 DEF Unused
  <2>4. QED BY <2>1, <2>2, <2>3 DEF Alone
<1>3. CASE Works \/ Done \/ Closes
  <2>1. /\ UNCHANGED <<plan, call>> /\ Pending' \subseteq Pending
        /\ op'.phase # "off" => op.phase # "off" /\ op'.id = op.id
    BY <1>3 DEF Works, Done, Closes, NoOp
  <2>2. QED BY <2>1 DEF Alone, Unused
<1>4. QED BY <1>1, <1>2, <1>3, WorkerStep DEF WorkerOf

\* Nothing but a request leads back to the plan before the cable diagnostic.
LEMMA CableBegins ==
  ASSUME TypeOK, [Next]_vars, PlanBeforeVerdict, Alone, BeforeCable', ~(\E m \in Frame : Issues(m))
  PROVE  BeforeCable /\ Pending' \subseteq Pending
BY PlanOn, OpKinds DEF PlanOf, Stays, Fills, BaseGoesOn, BoundaryGoesOn, CableGoesOn, Passes, BeforeCable,
   CableOps

\* An outcome that was decided stays.
LEMMA FinKept ==
  ASSUME TypeOK, [Next]_vars, NEW q \in Role, fin'[q] = NoFin
  PROVE  fin[q] = NoFin
BY FinStep

\* The window stays closed until the cable diagnostic asks for it.
LEMMA ClosedBeforeStep ==
  ASSUME TypeOK, [Next]_vars, Ordered(wire["PC2"]), ResultInv, PlanBeforeVerdict, Alone, ClosedBefore
  PROVE  ClosedBefore'
<1>1. SUFFICES ASSUME BeforeCable'
               PROVE  ~window' /\ op'.op \notin CableOps /\ \A m \in Pending' : m.arg \notin CableOps
  BY DEF ClosedBefore
<1>2. CASE Rests
  <2>1. UNCHANGED <<op, window>>
    BY <1>2 DEF Rests
  <2>2. CASE \E m \in Frame : Issues(m)
    <3>1. PICK m \in Frame : Issues(m)
      BY <2>2
    <3>2. /\ plan'.pc = "call" /\ call'.op = m.arg
          /\ \A x \in Pending' : x \in Pending \/ x.arg = m.arg
      BY <3>1, IssuedLast
    <3>3. plan.pc = PcOf(m.arg) /\ m.arg \in Op
      BY <3>1 DEF Issues
    <3>4. m.arg \notin CableOps
      BY <1>1, <3>2 DEF BeforeCable
    <3>5. BeforeCable
      BY <3>3, <3>4, OpKinds DEF BeforeCable, PcOf, CableOps
    <3>6. QED BY <2>1, <3>2, <3>4, <3>5 DEF ClosedBefore
  <2>3. CASE ~(\E m \in Frame : Issues(m))
    <3>1. BeforeCable /\ Pending' \subseteq Pending
      BY <1>1, <2>3, CableBegins
    <3>2. QED BY <2>1, <3>1 DEF ClosedBefore
  <2>4. QED BY <2>2, <2>3
<1>3. ASSUME UNCHANGED <<plan, call>> PROVE BeforeCable
  BY <1>1, <1>3 DEF BeforeCable
<1>4. ASSUME NEW f \in Pending, Starts(f) \/ Refuses(f)
      PROVE  ~window' /\ op'.op \notin CableOps /\ \A m \in Pending' : m.arg \notin CableOps
  <2>1. UNCHANGED <<plan, call>> /\ (\A m \in Pending' : m \in Pending)
    BY <1>4 DEF Starts, Refuses, Taken
  <2>2. ~window /\ op.op \notin CableOps /\ \A m \in Pending : m.arg \notin CableOps
    BY <1>3, <2>1 DEF ClosedBefore
  <2>3. f.arg \notin CableOps
    BY <2>2
  <2>4. window' = window /\ (op'.op = f.arg \/ op' = op)
    BY <1>4, <2>3 DEF Starts, Refuses, CableOps
  <2>5. QED BY <2>1, <2>2, <2>3, <2>4
<1>5. CASE Works \/ Done \/ Closes
  <2>1. UNCHANGED <<plan, call>> /\ Pending' \subseteq Pending
    BY <1>5 DEF Works, Done, Closes
  <2>2. ~window /\ op.op \notin CableOps /\ \A m \in Pending : m.arg \notin CableOps
    BY <1>3, <2>1 DEF ClosedBefore
  <2>3. ~window' /\ (op'.op = op.op \/ op'.op = "test")
    BY <1>5, <2>2 DEF Works, Done, Closes, NoOp, CableOps
  <2>4. QED BY <2>1, <2>2, <2>3 DEF CableOps
<1>6. QED BY <1>2, <1>4, <1>5, WorkerStep DEF WorkerOf

\* The worker's operation is the one the plan waits for, and nothing follows it.
LEMMA OwnRequest ==
  ASSUME TypeOK, ResultInv, Turns, Alone, plan.pc = "call", call.op # "snapshot"
  PROVE  /\ op.phase # "off" =>
              op.id = call.id /\ op.op = call.op /\ Pending = {} /\ call.reply = "none"
              /\ \A a \in Replies : a.id # call.id
         /\ \A f \in Pending :
              f.id = call.id /\ f.arg = call.op /\ op.phase = "off" /\ call.reply = "none"
              /\ \A a \in Replies : a.id # call.id
<1>num. /\ plan.calls \in Nat /\ op.id \in Nat /\ call.id \in Nat
        /\ \A m \in Pending : m.id \in Nat
        /\ \A m \in Pending : plan.pc = "call" /\ m.id = call.id => m.arg = call.op
        /\ \A a \in Replies : a.id \in Nat
  BY Numbers
<1>1. ASSUME NEW f \in Pending
      PROVE  f.id = call.id /\ f.arg = call.op /\ op.phase = "off" /\ call.reply = "none"
             /\ \A a \in Replies : a.id # call.id
  <2>1. f.id = call.id /\ f.arg = call.op
    BY <1>num DEF Alone
  <2>2. op.phase = "off"
    <3>1. SUFFICES ASSUME op.phase # "off" PROVE FALSE
      OBVIOUS
    <3>2. op.id = call.id /\ op.id < f.id
      BY <3>1 DEF Alone, Turns
    <3>3. QED BY <1>num, <2>1, <3>2
  <2>3. call.reply = "none"
    BY <1>1 DEF Turns
  <2>4. ASSUME NEW a \in Replies PROVE a.id # call.id
    <3>1. a.id < f.id
      BY DEF Turns
    <3>2. QED BY <1>num, <2>1, <3>1
  <2>5. QED BY <2>1, <2>2, <2>3, <2>4
<1>2. ASSUME op.phase # "off"
      PROVE  op.id = call.id /\ op.op = call.op /\ Pending = {} /\ call.reply = "none"
             /\ \A a \in Replies : a.id # call.id
  <2>1. op.id = call.id /\ op.op = call.op
    BY <1>2 DEF Alone, Turns
  <2>2. Pending = {}
    BY <1>1, <1>2
  <2>3. QED BY <1>2, <2>1, <2>2 DEF Turns
<1>3. QED BY <1>1, <1>2

\* A plan that waits goes on waiting, is handed its reply, or has just called.
LEMMA Waits ==
  ASSUME TypeOK, [Next]_vars, PlanBeforeVerdict, Alone, plan'.pc = "call"
  PROVE  Stays \/ Fills \/ \E m \in Frame : Issues(m)
BY PlanOn DEF PlanOf, BaseGoesOn, BoundaryGoesOn, CableGoesOn, Passes

\* The reply to the first request tells whether the window is open.
LEMMA OpeningStep ==
  ASSUME TypeOK, [Next]_vars, Ordered(wire["PC2"]), ResultInv, PlanBeforeVerdict, Turns, Alone,
         ClosedBefore, Opening
  PROVE  Opening'
<1>1. SUFFICES ASSUME plan'.pc = "call", call'.op = "window_start"
               PROVE  /\ Pending' # {} => ~window'
                      /\ op'.phase # "off" /\ fin'["PC2"] = NoFin => window'
                      /\ \A a \in Replies' : a.id = call'.id =>
                           /\ a.arg # "ok" => ~window'
                           /\ a.arg = "ok" /\ fin'["PC2"] = NoFin => window'
                      /\ call'.reply \notin {"none", "ok"} => ~window'
                      /\ call'.reply = "ok" /\ fin'["PC2"] = NoFin => window'
  BY DEF Opening
<1>fin. fin'["PC2"] = NoFin => fin["PC2"] = NoFin
  BY FinKept DEF Role
<1>2. CASE Rests
  <2>1. UNCHANGED <<op, window>> /\ Replies' \subseteq Replies
    BY <1>2 DEF Rests
  <2>2. CASE Stays
    <3>1. UNCHANGED call /\ plan.pc = "call" /\ Pending' \subseteq Pending
      BY <1>1, <2>2 DEF Stays
    <3>2. QED BY <1>1, <1>fin, <2>1, <3>1 DEF Opening
  <2>3. CASE Fills
    <3>1. call'.id = call.id /\ call'.op = call.op /\ plan.pc = "call" /\ Pending' \subseteq Pending
      BY <2>3 DEF Fills
    <3>2. PICK a \in Replies : a.id = call.id /\ call'.reply = a.arg
      BY <2>3 DEF Fills
    <3>3. QED BY <1>1, <1>fin, <2>1, <3>1, <3>2 DEF Opening
  <2>4. CASE \E m \in Frame : Issues(m)
    <3>1. PICK m \in Frame : Issues(m)
      BY <2>4
    <3>2. call'.id = plan.calls + 1 /\ call'.op = m.arg /\ call'.reply = "none"
      BY <3>1, IssuedLast
    <3>3. plan.pc = "window"
      BY <1>1, <3>1, <3>2, OpKinds DEF Issues, PcOf
    <3>4. ~window /\ op.phase = "off"
      BY <3>3 DEF ClosedBefore, BeforeCable, Alone, Unused
    <3>5. \A a \in Replies : a.id # call'.id
      BY <3>2, Numbers
    <3>6. QED BY <2>1, <3>2, <3>4, <3>5
  <2>5. QED BY <1>1, <2>2, <2>3, <2>4, Waits
<1>3. ASSUME UNCHANGED <<plan, call>>
      PROVE  plan.pc = "call" /\ call.op = "window_start" /\ call.op # "snapshot"
  BY <1>1, <1>3
<1>4. ASSUME NEW f \in Pending, Starts(f) PROVE Opening'
  <2>1. /\ UNCHANGED <<plan, call>> /\ Replies' \subseteq Replies
        /\ \A m \in Pending' : m \in Pending /\ f.id < m.id
    BY <1>4 DEF Starts, Taken
  <2>2. /\ \A m \in Pending : m.id = call.id /\ m.arg = call.op
        /\ call.reply = "none" /\ \A a \in Replies : a.id # call.id
    BY <1>3, <1>4, <2>1, OwnRequest
  <2>3. window' /\ f.id \in Nat
    BY <1>3, <1>4, <2>1, <2>2, Numbers DEF Starts
  <2>4. Pending' = {}
    <3>1. SUFFICES ASSUME NEW m \in Pending' PROVE FALSE
      OBVIOUS
    <3>2. m.id = f.id /\ f.id < m.id
      BY <2>1, <2>2
    <3>3. QED BY <2>3, <3>2
  <2>5. QED BY <2>1, <2>2, <2>3, <2>4 DEF Opening
<1>5. ASSUME NEW f \in Pending, Refuses(f) PROVE FALSE
  <2>1. UNCHANGED <<plan, call>>
    BY <1>5 DEF Refuses, Taken
  <2>2. f.arg = "window_start" /\ op.phase = "off"
    BY <1>3, <2>1, OwnRequest
  <2>3. window
    BY <1>5, <2>2 DEF Refuses
  <2>4. ~window
    BY <1>3, <1>5, <2>1 DEF Opening
  <2>5. QED BY <2>3, <2>4
<1>6. CASE Works
  <2>1. /\ UNCHANGED <<plan, call, window>> /\ op.phase # "off"
        /\ Pending' \subseteq Pending /\ Replies' \subseteq Replies
    BY <1>6 DEF Works
  <2>2. QED BY <1>1, <1>fin, <2>1 DEF Opening
<1>7. CASE Done
  <2>1. /\ UNCHANGED <<plan, call>> /\ op.phase # "off" /\ op'.phase = "off" /\ fin["PC2"] = NoFin
        /\ Pending' \subseteq Pending
        /\ \A a \in Replies' : a \in Replies \/ (a.id = op.id /\ a.arg = op.status)
    BY <1>7 DEF Done, NoOp
  <2>2. /\ op.op = "window_start" /\ Pending = {} /\ call.reply = "none"
        /\ \A a \in Replies : a.id # call.id
    BY <1>3, <2>1, OwnRequest
  <2>3. window
    BY <1>3, <2>1 DEF Opening
  <2>4. IF op.status # "ok" THEN ~window' ELSE window'
    BY <1>7, <2>2, <2>3 DEF Done
  <2>5. QED BY <2>1, <2>2, <2>4
<1>8. CASE Closes
  <2>1. fin["PC2"] # NoFin /\ ~window'
    BY <1>8 DEF Closes
  <2>2. QED BY <1>fin, <2>1
<1>9. QED BY <1>1, <1>2, <1>4, <1>5, <1>6, <1>7, <1>8, WorkerStep DEF WorkerOf, Opening

\* The reply to the second request tells that the window is closed.
LEMMA ClosingStep ==
  ASSUME TypeOK, [Next]_vars, Ordered(wire["PC2"]), ResultInv, PlanBeforeVerdict, Turns, Alone, Closing
  PROVE  Closing'
<1>1. SUFFICES ASSUME plan'.pc = "call", call'.op = "window_end"
               PROVE  /\ \A a \in Replies' : a.id = call'.id => ~window'
                      /\ call'.reply # "none" => ~window'
  BY DEF Closing
<1>2. CASE Rests
  <2>1. UNCHANGED <<op, window>> /\ Replies' \subseteq Replies
    BY <1>2 DEF Rests
  <2>2. CASE Stays
    BY <1>1, <2>1, <2>2 DEF Stays, Closing
  <2>3. CASE Fills
    BY <1>1, <2>1, <2>3 DEF Fills, Closing
  <2>4. CASE \E m \in Frame : Issues(m)
    <3>1. PICK m \in Frame : Issues(m)
      BY <2>4
    <3>2. call'.id = plan.calls + 1 /\ call'.reply = "none"
      BY <3>1, IssuedLast
    <3>3. \A a \in Replies : a.id # call'.id
      BY <3>2, Numbers
    <3>4. QED BY <2>1, <3>2, <3>3
  <2>5. QED BY <1>1, <2>2, <2>3, <2>4, Waits
<1>3. ASSUME UNCHANGED <<plan, call>>
      PROVE  plan.pc = "call" /\ call.op = "window_end" /\ call.op # "snapshot"
  BY <1>1, <1>3
<1>4. ASSUME NEW f \in Pending, Starts(f) PROVE Closing'
  <2>1. UNCHANGED <<plan, call>> /\ Replies' \subseteq Replies
    BY <1>4 DEF Starts, Taken
  <2>2. call.reply = "none" /\ \A a \in Replies : a.id # call.id
    BY <1>3, <1>4, <2>1, OwnRequest
  <2>3. QED BY <2>1, <2>2 DEF Closing
<1>5. ASSUME NEW f \in Pending, Refuses(f) PROVE Closing'
  <2>1. UNCHANGED <<plan, call, window>>
    BY <1>5 DEF Refuses, Taken
  <2>2. f.arg = "window_end" /\ op.phase = "off"
    BY <1>3, <2>1, OwnRequest
  <2>3. ~window
    BY <1>5, <2>2 DEF Refuses
  <2>4. QED BY <2>1, <2>3 DEF Closing
<1>6. CASE Done
  <2>1. UNCHANGED <<plan, call>> /\ op.phase # "off"
    BY <1>6 DEF Done
  <2>2. op.op = "window_end"
    BY <1>3, <2>1, OwnRequest
  <2>3. ~window'
    BY <1>6, <2>2 DEF Done
  <2>4. QED BY <2>3
<1>7. CASE Works \/ Closes
  <2>1. UNCHANGED <<plan, call>> /\ (~window' \/ UNCHANGED window) /\ Replies' \subseteq Replies
    BY <1>7 DEF Works, Closes
  <2>2. QED BY <1>1, <2>1 DEF Closing
<1>8. QED BY <1>1, <1>2, <1>4, <1>5, <1>6, <1>7, WorkerStep DEF WorkerOf, Closing

\* The window is open while the diagnostic runs.
LEMMA OpenDuringStep ==
  ASSUME TypeOK, [Next]_vars, Ordered(wire["PC2"]), PlanBeforeVerdict, Turns, Alone, Opening, OpenDuring
  PROVE  OpenDuring'
<1>1. SUFFICES ASSUME plan'.pc \in {"tdr", "end"}, fin'["PC2"] = NoFin PROVE window'
  BY DEF OpenDuring
<1>2. fin["PC2"] = NoFin
  BY <1>1, FinKept DEF Role
<1>3. plan'.pc # plan.pc \/ plan.pc \in {"tdr", "end"}
  BY <1>1
<1>4. CASE plan.pc \in {"tdr", "end"}
  <2>1. Unused
    BY <1>4 DEF Alone
  <2>2. Rests \/ Closes
    BY <2>1, UnusedRests
  <2>3. QED BY <1>2, <1>4, <2>2 DEF Rests, Closes, OpenDuring
<1>5. CASE plan.pc \notin {"tdr", "end"}
  <2>1. plan.pc = "call" /\ call.op = "window_start" /\ call.reply = "ok"
    <3>1. ~(\E m \in Frame : Issues(m))
      BY <1>1, IssuedPlan
    <3>2. QED BY <1>1, <1>5, <3>1, PlanOn DEF PlanOf, Stays, Fills, BaseGoesOn, BoundaryGoesOn, CableGoesOn,
             Passes
  <2>2. window /\ Unused
    BY <1>2, <2>1, ReplyUnused DEF Opening
  <2>3. Rests \/ Closes
    BY <2>2, UnusedRests
  <2>4. QED BY <1>2, <2>2, <2>3 DEF Rests, Closes
<1>6. QED BY <1>4, <1>5

\* The worker's read timeout follows its window.
LEMMA WideStep ==
  ASSUME TypeOK, [Next]_vars, Ordered(wire["PC2"]), WideWhileOpen
  PROVE  WideWhileOpen'
<1>1. SUFFICES ASSUME fin'["PC2"] = NoFin PROVE window' <=> idle'["PC2"] = "wide"
  BY DEF WideWhileOpen
<1>2. fin["PC2"] = NoFin
  BY <1>1, FinKept DEF Role
<1>3. window <=> idle["PC2"] = "wide"
  BY <1>2 DEF WideWhileOpen
<1>4. \/ window' = window /\ idle'["PC2"] = idle["PC2"]
      \/ window' /\ idle'["PC2"] = "wide"
      \/ ~window' /\ idle'["PC2"] = "normal"
  BY <1>2, WorkerStep DEF WorkerOf, Rests, Starts, Refuses, Works, Done, Closes
<1>5. QED BY <1>3, <1>4

-----------------------------------------------------------------------------
(* The end of the plan and the loss of the carrier                         *)

\* A lost connection and an interrupt are final, and the carrier is lost only
\* by the diagnostic.
LEMMA LinkStep ==
  ASSUME TypeOK, [Next]_vars
  PROVE  /\ Up' => Up
         /\ interrupted["PC1"] => interrupted'["PC1"]
         /\ carrier' = "down" => carrier = "down" \/ CarrierDrops
<1> DEFINE Quiet == /\ link' = "up" => link = "up"
                    /\ interrupted["PC1"] => interrupted'["PC1"]
                    /\ carrier' = "down" => carrier = "down" \/ CarrierDrops
<1> USE DEF netVars, lifeVars, linkVars, PlanFrame, XferFrame
<1>1. ASSUME NEW r \in Role, HandleFrame(r) PROVE Quiet
  BY <1>1 DEF HandleFrame, HandlePeerReady, HandleStartConfirmation, HandleTestRequest,
     HandleTestResult, HandleWarning, HandlePeerAbort, HandleReportManifest,
     HandleTransferFrame, HandleComplete
<1>2. ASSUME NEW r \in Role,
             \/ Launch(r) \/ StartCommand(r) \/ QuitCommand(r) \/ HandleConnErr(r)
             \/ HandleInterrupt(r) \/ Exit(r) \/ Teardown(r) \/ HandleTransferDone(r)
             \/ OnCountdownGo(r)
      PROVE  Quiet
  BY <1>2 DEF Launch, StartCommand, QuitCommand, HandleConnErr, HandleInterrupt, Exit,
     Teardown, HandleTransferDone, OnCountdownGo
<1>3. ASSUME NEW r \in Role, CtrlC(r) PROVE Quiet
  BY <1>3 DEF CtrlC, TypeOK, Role
<1>4. ASSUME \/ CarrierDrops \/ CarrierReturns \/ HandshakeReject \/ OpFinishes \/ HandlePlanDone
             \/ HandleOpDone \/ SenderStep \/ ReceiverStep \/ HandleCallExpired \/ BudgetExpires \/ LinkCut
      PROVE  Quiet
  BY <1>4 DEF CarrierDrops, CarrierReturns, HandshakeReject, OpFinishes, HandleOpDone,
     SenderStep, SenderWrites, SenderEnds, ReceiverStep, ReceiverTakes, ReceiverStops,
     HandleCallExpired, BudgetExpires, HandlePlanDone, LinkCut
<1>5. ASSUME PlanStep PROVE Quiet
  BY <1>5 DEF PlanStep, PlanCall, PlanBaseEnds, PlanBoundary, CallReturns,
     CableWindowStart, CableTestReturns, CableWindowEnd
<1>6. ASSUME UNCHANGED vars PROVE Quiet
  BY <1>6 DEF vars
<1>7. Quiet
  BY <1>1, <1>2, <1>3, <1>4, <1>5, <1>6 DEF Next, Loop, Finished
<1>8. td'["PC2"] = "open" => td["PC2"] = "open"
  BY LifeStep DEF LifeOf, Role
<1>9. QED BY <1>7, <1>8 DEF Up

\* A plan that has returned asks for nothing.
LEMMA NoMoreRequests ==
  ASSUME TypeOK, [Next]_vars, plan.pc \in {"returned", "handled"}
  PROVE  Pending' \subseteq Pending
<1>1. SUFFICES ASSUME NEW m \in Pending', m \notin Pending PROVE FALSE
  OBVIOUS
<1>2. Issues(m)
  BY <1>1, PendingStep
<1>3. QED BY <1>2 DEF Issues, PcOf

\* A worker that is released stays so.
LEMMA ReleasedKept ==
  ASSUME TypeOK, [Next]_vars, Ordered(wire["PC2"]), Released, Pending' \subseteq Pending
  PROVE  Released'
<1>1. (Rests \/ Closes) /\ op'.phase = "off"
  BY UnusedRests DEF Released
<1>2. ~window'
  BY <1>1 DEF Rests, Closes, Released
<1>3. QED BY <1>1, <1>2 DEF Released, Unused

\* An expired call is forgotten only when it ends the session.
LEMMA ExpiredStep ==
  ASSUME TypeOK, [Next]_vars, plan.pc = "returned", expired, ~expired'
  PROVE  fin'["PC1"] # NoFin
<1>1. ~PlanStep
  BY DEF PlanStep, PlanCall, PlanBaseEnds, PlanBoundary, CallReturns, CableWindowStart, CableTestReturns,
     CableWindowEnd
<1>2. HandleCallExpired
  BY <1>1, PlanSteps DEF PlanStarts
<1>3. QED BY <1>2 DEF HandleCallExpired, Finish, NoFin, TypeOK, Role

\* Only a plan that had all its answers returns without an error and in time.
LEMMA ReturnedReleased ==
  ASSUME TypeOK, [Next]_vars, EndOrder, PlanBeforeVerdict, Turns, Alone, Windows, Concluded,
         plan'.pc = "returned", plan'.err = "nil", ~expired', ~CtxDone("PC1")', Up'
  PROVE  Released /\ Pending' \subseteq Pending
<1>1. Up /\ ~interrupted["PC1"]
  BY LinkStep DEF CtxDone
<1>2. fin["PC1"] = NoFin /\ fin'["PC1"] = NoFin
  BY FinKept DEF CtxDone, Finishing, Role
<1>3. td["PC1"] = "open"
  BY <1>2 DEF EndOrder, Finishing, Role
<1>4. ~CtxDone("PC1") /\ Live /\ ~Excused
  BY <1>1, <1>2, <1>3 DEF CtxDone, Finishing, Live, Up, Excused
<1>5. CASE Stays
  <2>1. plan.pc = "returned" /\ plan.err = "nil" /\ Pending' \subseteq Pending
    BY <1>5 DEF Stays
  <2>2. ~expired
    BY <1>2, <2>1, ExpiredStep
  <2>3. QED BY <1>1, <1>4, <2>1, <2>2 DEF Concluded
<1>6. CASE BoundaryGoesOn
  <2>1. Pending' \subseteq Pending
    BY <1>6 DEF BoundaryGoesOn, Passes
  <2>2. CASE plan.pc = "boundary"
    <3>1. ~Soak /\ plan.err = "nil"
      BY <1>6, <2>2 DEF BoundaryGoesOn, Passes
    <3>2. QED BY <2>1, <2>2, <3>1 DEF Alone, Windows, ClosedBefore, BeforeCable, Released
  <2>3. CASE plan.pc # "boundary"
    <3>1. plan.pc = "call" /\ call.op = "snapshot" /\ call.reply = "ok"
      BY <1>6, <2>3 DEF BoundaryGoesOn, Passes
    <3>2. Unused
      BY <3>1, ReplyUnused
    <3>3. QED BY <2>1, <3>1, <3>2 DEF Windows, ClosedBefore, BeforeCable, CableOps, Released
  <2>4. QED BY <2>2, <2>3
<1>7. CASE CableGoesOn
  <2>1. Pending' \subseteq Pending
    BY <1>7 DEF CableGoesOn, Passes
  <2>2. /\ plan.pc = "call" /\ call.reply # "none"
        /\ \/ call.op = "window_start" /\ call.reply # "ok"
           \/ call.op = "window_end"
    BY <1>4, <1>7 DEF CableGoesOn, Passes
  <2>3. Unused
    BY <2>2, ReplyUnused
  <2>4. ~window
    BY <2>2 DEF Windows, Opening, Closing
  <2>5. QED BY <2>1, <2>3, <2>4 DEF Released
<1>8. ~(\E m \in Frame : Issues(m))
  BY IssuedPlan
<1>9. QED BY <1>5, <1>6, <1>7, <1>8, PlanOn DEF PlanOf, Fills, BaseGoesOn, Passes

\* The verdict follows a plan that found the worker released.
LEMMA VerdictReleased ==
  ASSUME TypeOK, EndOrder, Concluded, HandlePlanDone, plan.err = "nil", ~interrupted["PC1"], Up
  PROVE  Released /\ plan.pc = "returned"
<1>1. plan.pc = "returned" /\ ~expired /\ fin["PC1"] = NoFin
  BY DEF HandlePlanDone, Running
<1>2. QED BY <1>1 DEF Concluded, CtxDone, Finishing

\* Every step of the end keeps the worker released.
LEMMA ConcludedStep ==
  ASSUME TypeOK, [Next]_vars, Ordered(wire["PC2"]), EndOrder, CompletionInv, Answered, Turns, Alone, Windows,
         Concluded
  PROVE  Concluded'
<1>pbv. PlanBeforeVerdict
  BY DEF CompletionInv
<1>1. ASSUME plan'.pc = "returned", plan'.err = "nil", ~expired', ~CtxDone("PC1")', Up'
      PROVE  Released'
  BY <1>1, <1>pbv, ReturnedReleased, ReleasedKept
<1>2. ASSUME plan'.pc = "handled", plan'.err = "nil", ~interrupted'["PC1"], Up'
      PROVE  Released'
  <2>1. Up /\ ~interrupted["PC1"]
    BY <1>2, LinkStep
  <2>2. ~(\E m \in Frame : Issues(m))
    BY <1>2, IssuedPlan
  <2>3. \/ plan.pc = "handled" /\ plan.err = "nil"
        \/ HandlePlanDone /\ plan.err = "nil" /\ plan.pc = "returned"
    BY <1>2, <1>pbv, <2>2, PlanOn
       DEF PlanOf, Stays, Fills, BaseGoesOn, BoundaryGoesOn, CableGoesOn, Passes
  <2>4. Released
    BY <2>1, <2>3, VerdictReleased DEF Concluded
  <2>5. QED BY <2>3, <2>4, NoMoreRequests, ReleasedKept
<1>3. ASSUME ~interrupted'["PC1"], NEW m \in In(wire', "PC2"), m.type \in {"complete", "report"}
      PROVE  Released'
  <2>1. ~interrupted["PC1"]
    BY <1>3, LinkStep
  <2>2. CASE m \in In(wire, "PC2")
    <3>1. Released
      BY <1>3, <2>1, <2>2 DEF Concluded
    <3>2. plan.pc = "handled"
      BY <1>3, <1>pbv, <2>2 DEF Answered, PlanBeforeVerdict
    <3>3. QED BY <3>1, <3>2, NoMoreRequests, ReleasedKept
  <2>3. CASE m \notin In(wire, "PC2")
    <3>1. Up /\ Sends("PC2", m)
      BY <1>3, <2>3, NewFrame DEF Role, Live, Up
    <3>2. CASE HandlePlanDone /\ plan.err = "nil"
      BY <2>1, <3>1, <3>2, VerdictReleased, NoMoreRequests, ReleasedKept
    <3>3. CASE sender.pc # "off"
      <4>1. plan.pc = "handled" /\ plan.err = "nil"
        BY <1>pbv, <3>3 DEF PlanBeforeVerdict
      <4>2. Released
        BY <2>1, <3>1, <4>1 DEF Concluded
      <4>3. QED BY <4>1, <4>2, NoMoreRequests, ReleasedKept
    <3>4. HandleTransferDone("PC1") => sender.pc # "off"
      BY DEF HandleTransferDone
    <3>5. QED BY <1>3, <3>1, <3>2, <3>3, <3>4 DEF Sends
  <2>4. QED BY <2>2, <2>3
<1>4. QED BY <1>1, <1>2, <1>3 DEF Concluded

\* A worker that has no requests but the diagnostic's gets no others.
LEMMA DiagnosingKept ==
  ASSUME TypeOK, [Next]_vars, Ordered(wire["PC2"]), Diagnosing, Pending' \subseteq Pending
  PROVE  Diagnosing'
<1>1. \A m \in Pending' : m.arg \in CableOps
  BY DEF Diagnosing
<1>2. op'.phase # "off" => op'.op \in CableOps
  BY WorkerStep DEF WorkerOf, Rests, Starts, Refuses, Works, Done, Closes, Taken, Diagnosing, NoOp
<1>3. QED BY <1>1, <1>2 DEF Diagnosing

\* Nothing but the diagnostic's requests is left behind by a plan that returns nil.
LEMMA CableLeftStep ==
  ASSUME TypeOK, [Next]_vars, Ordered(wire["PC2"]), PlanBeforeVerdict, Turns, Alone, CableLeft
  PROVE  CableLeft'
<1>1. Unused => Diagnosing
  BY DEF Unused, Diagnosing
<1>2. CASE Stays \/ Fills
  BY <1>2, DiagnosingKept DEF Stays, Fills, CableLeft
<1>3. CASE BaseGoesOn
  BY <1>3 DEF BaseGoesOn, Passes, CableLeft
<1>4. CASE BoundaryGoesOn
  <2>1. SUFFICES ASSUME plan'.pc = "returned", plan'.err = "nil" PROVE Diagnosing'
    BY <1>4 DEF BoundaryGoesOn, Passes, CableLeft
  <2>2. Pending' \subseteq Pending
    BY <1>4 DEF BoundaryGoesOn, Passes
  <2>3. CASE plan.pc = "boundary"
    <3>1. Unused
      BY <1>4, <2>1, <2>3 DEF BoundaryGoesOn, Passes, Alone
    <3>2. QED BY <1>1, <2>2, <3>1, DiagnosingKept
  <2>4. CASE plan.pc # "boundary"
    <3>1. plan.pc = "call" /\ call.op = "snapshot" /\ call.reply = "ok"
      BY <1>4, <2>1, <2>4 DEF BoundaryGoesOn, Passes
    <3>2. QED BY <1>1, <2>2, <3>1, ReplyUnused, DiagnosingKept
  <2>5. QED BY <2>3, <2>4
<1>5. CASE CableGoesOn
  <2>1. SUFFICES ASSUME plan'.pc = "returned", plan'.err = "nil" PROVE Diagnosing'
    BY <1>5 DEF CableGoesOn, Passes, CableLeft
  <2>2. Pending' \subseteq Pending
    BY <1>5 DEF CableGoesOn, Passes
  <2>3. plan.pc \in {"window", "end"} \/ (plan.pc = "call" /\ call.op \in CableOps)
    BY <1>5, <2>1 DEF CableGoesOn, Passes, CableOps
  <2>4. Diagnosing
    BY <1>1, <2>3 DEF Alone, CableLeft
  <2>5. QED BY <2>2, <2>4, DiagnosingKept
<1>6. CASE Passes("returned", "handled") /\ plan'.err = plan.err /\ HandlePlanDone
  BY <1>6, DiagnosingKept DEF Passes, CableLeft
<1>7. CASE \E m \in Frame : Issues(m)
  <2>1. PICK m \in Frame : Issues(m)
    BY <1>7
  <2>2. /\ plan'.pc = "call" /\ call'.op = m.arg /\ plan.pc = PcOf(m.arg)
    BY <2>1, IssuedPlan
  <2>3. SUFFICES ASSUME m.arg \in CableOps PROVE Diagnosing'
    BY <2>2 DEF CableLeft
  <2>4. plan.pc \in {"window", "end"}
    BY <2>2, <2>3, OpKinds DEF PcOf, CableOps
  <2>5. Unused
    BY <2>4 DEF Alone
  <2>6. op'.phase = "off"
    BY <2>5, UnusedRests
  <2>7. ASSUME NEW n \in Pending' PROVE n.arg \in CableOps
    <3>1. n \notin Pending
      BY <2>5 DEF Unused
    <3>2. Issues(n) /\ n \in Frame
      BY <2>7, <3>1, PendingStep
    <3>3. call'.op = n.arg
      BY <3>2, IssuedPlan
    <3>4. QED BY <2>2, <2>3, <3>3
  <2>8. QED BY <2>6, <2>7 DEF Diagnosing
<1>8. QED BY <1>2, <1>3, <1>4, <1>5, <1>6, <1>7, PlanOn DEF PlanOf

\* A completed session leaves the worker as the verdict found it.
LEMMA CompletedStep ==
  ASSUME TypeOK, [Next]_vars, Ordered(wire["PC2"]), CompletionInv, Answered, Concluded, CableLeft,
         WorkerIdleAtCompletion
  PROVE  WorkerIdleAtCompletion'
<1> DEFINE Idle == op.phase = "off" /\ ~window
           Left == interrupted["PC1"] /\ (op.phase = "off" \/ op.op \in CableOps)
<1>1. SUFFICES ASSUME Completed("PC2")' PROVE Idle' \/ Left'
  BY DEF WorkerIdleAtCompletion, CableOps
<1>2. interrupted["PC1"] => interrupted'["PC1"]
  BY LinkStep
<1>3. CASE fin'["PC2"] = fin["PC2"]
  <2>1. Completed("PC2") /\ fin["PC2"] # NoFin
    BY <1>1, <1>3 DEF Completed, NoFin
  <2>2. Idle \/ Left
    BY <2>1 DEF WorkerIdleAtCompletion, CableOps
  <2>3. ~Done /\ \A f \in Pending : ~Starts(f) /\ ~Refuses(f)
    BY <2>1 DEF Done, Starts, Refuses, Taken
  <2>4. Rests \/ Closes \/ Works
    BY <2>3, WorkerStep DEF WorkerOf
  <2>5. QED BY <1>2, <2>2, <2>4 DEF Rests, Closes, Works
<1>4. CASE fin'["PC2"] # fin["PC2"]
  <2>1. Decides("PC2") /\ fin'["PC2"].state = "completed"
    BY <1>1, <1>4, FinStep DEF Completed, Role
  <2>2. PICK m \in In(wire, "PC2") : m.type = "complete"
    BY <2>1 DEF Decides, Stop
  <2>3. CASE ~interrupted["PC1"]
    <3>1. Released
      BY <2>2, <2>3 DEF Concluded
    <3>2. QED BY <3>1, UnusedRests DEF Released, Rests, Closes
  <2>4. CASE interrupted["PC1"]
    <3>1. plan.pc = "handled" /\ plan.err = "nil"
      BY <2>2 DEF CompletionInv, Answered, PlanBeforeVerdict
    <3>2. Diagnosing /\ Pending' \subseteq Pending
      BY <3>1, NoMoreRequests DEF CableLeft
    <3>3. QED BY <1>2, <2>4, <3>2, DiagnosingKept DEF Diagnosing
  <2>5. QED BY <2>3, <2>4
<1>5. QED BY <1>3, <1>4

\* The coordinator's timeout is wide throughout the diagnostic.
LEMMA CoveredStep ==
  ASSUME TypeOK, [Next]_vars, Ordered(wire["PC2"]), PlanBeforeVerdict, Alone, OpenDuring, Covered
  PROVE  Covered'
<1>plan. PlanOf
  BY PlanOn
<1>1. ASSUME plan'.pc \in {"tdr", "end"} \/ (plan'.pc = "call" /\ call'.op \in CableOps)
      PROVE  idle'["PC1"] = "wide"
  <2>1. CASE \E m \in Frame : Issues(m) /\ m.arg = "window_start"
    BY <2>1 DEF Issues, TypeOK, Role
  <2>2. CASE \E m \in Frame : Issues(m) /\ m.arg # "window_start"
    <3>1. PICK m \in Frame : Issues(m) /\ m.arg # "window_start"
      BY <2>2
    <3>2. m.arg \in CableOps
      BY <1>1, <3>1, IssuedPlan
    <3>3. plan.pc = "end" /\ plan'.pc = "call"
      BY <3>1, <3>2, OpKinds, IssuedPlan DEF Issues, PcOf, CableOps
    <3>4. QED BY <3>3, IdleStep DEF Covered
  <2>3. CASE ~(\E m \in Frame : Issues(m))
    <3>1. plan.pc \in {"tdr", "end"} \/ (plan.pc = "call" /\ call.op \in CableOps)
      BY <1>1, <1>plan, <2>3
         DEF PlanOf, Stays, Fills, BaseGoesOn, BoundaryGoesOn, CableGoesOn, Passes, CableOps
    <3>2. plan'.pc # "returned"
      BY <1>1
    <3>3. QED BY <3>1, <3>2, IdleStep DEF Covered
  <2>4. QED BY <2>1, <2>2, <2>3
<1>2. ASSUME carrier' = "down"
      PROVE  plan'.pc \in {"tdr", "end", "returned", "handled"} \/ (plan'.pc = "call" /\ call'.op = "window_end")
  <2>1. CASE CarrierDrops
    BY <2>1 DEF CarrierDrops, planVars
  <2>2. CASE carrier = "down"
    <3>1. plan.pc \in {"tdr", "end", "returned", "handled"} \/ (plan.pc = "call" /\ call.op = "window_end")
      BY <2>2 DEF Covered
    <3>2. CASE \E m \in Frame : Issues(m)
      <4>1. PICK m \in Frame : Issues(m)
        BY <3>2
      <4>2. plan.pc = PcOf(m.arg) /\ m.arg \in Op /\ plan'.pc = "call" /\ call'.op = m.arg
        BY <4>1, IssuedPlan DEF Issues
      <4>3. m.arg = "window_end"
        BY <3>1, <4>2, OpKinds DEF PcOf
      <4>4. QED BY <4>2, <4>3
    <3>3. CASE ~(\E m \in Frame : Issues(m))
      BY <1>plan, <3>1, <3>3, OpKinds
         DEF PlanOf, Stays, Fills, BaseGoesOn, BoundaryGoesOn, CableGoesOn, Passes
    <3>4. QED BY <3>2, <3>3
  <2>3. QED BY <1>2, <2>1, <2>2, LinkStep
<1>3. ASSUME carrier' = "down", plan'.pc \notin {"returned", "handled"}, fin'["PC2"] = NoFin
      PROVE  op'.phase = "off" /\ window'
  <2>1. fin["PC2"] = NoFin
    BY <1>3, FinKept DEF Role
  <2>2. CASE CarrierDrops
    <3>1. plan.pc = "tdr" /\ UNCHANGED <<op, window>>
      BY <2>2 DEF CarrierDrops, PlanFrame, execVars
    <3>2. QED BY <2>1, <3>1 DEF Alone, Unused, OpenDuring
  <2>3. CASE carrier = "down"
    <3>1. plan.pc \notin {"returned", "handled"}
      <4>1. SUFFICES ASSUME plan.pc \in {"returned", "handled"} PROVE FALSE
        OBVIOUS
      <4>2. ~(\E m \in Frame : Issues(m))
        BY <4>1 DEF Issues, PcOf
      <4>3. QED BY <1>plan, <1>3, <4>1, <4>2
         DEF PlanOf, Stays, Fills, BaseGoesOn, BoundaryGoesOn, CableGoesOn, Passes
    <3>2. op.phase = "off" /\ window
      BY <2>1, <2>3, <3>1 DEF Covered
    <3>3. ~Works /\ ~Done /\ ~Closes /\ \A f \in Pending : ~Starts(f) /\ ~Refuses(f)
      BY <2>1, <2>3, <3>2 DEF Works, Done, Closes, Starts, Refuses, Taken
    <3>4. Rests
      BY <3>3, WorkerStep DEF WorkerOf
    <3>5. QED BY <3>2, <3>4 DEF Rests
  <2>4. QED BY <1>3, <2>2, <2>3, LinkStep
<1>4. QED BY <1>1, <1>2, <1>3 DEF Covered

\* The facts about the worker and the window, together.
ServiceInv ==
  Turns /\ Alone /\ Windows /\ Concluded /\ CableLeft /\ Covered /\ WorkerIdleAtCompletion

\* Every reachable state has them.
LEMMA ServiceCorrect == Spec => []ServiceInv
<1>1. Init => ServiceInv
  <2>1. SUFFICES ASSUME Init PROVE ServiceInv
    OBVIOUS
  <2>2. /\ op = NoOp /\ plan.pc = "off" /\ ~window /\ idle["PC2"] = "normal" /\ carrier = "up"
        /\ fin["PC2"] = NoFin
    BY <2>1 DEF Init, Role
  <2>3. In(wire, "PC1") = {} /\ In(wire, "PC2") = {}
    BY <2>1 DEF Init, In, Role
  <2>4. Pending = {} /\ Replies = {}
    BY <2>3 DEF Pending, Replies
  <2>5. op.phase = "off" /\ op.op = "test"
    BY <2>2 DEF NoOp
  <2>6. Turns /\ Alone
    BY <2>2, <2>4, <2>5 DEF Turns, Alone, Unused
  <2>7. Windows
    BY <2>2, <2>4, <2>5 DEF Windows, ClosedBefore, Opening, Closing, OpenDuring, WideWhileOpen, CableOps
  <2>8. Concluded /\ Covered /\ CableLeft
    BY <2>2, <2>3 DEF Concluded, Covered, CableLeft
  <2>9. WorkerIdleAtCompletion
    BY <2>2 DEF WorkerIdleAtCompletion, Completed, NoFin
  <2>10. QED BY <2>6, <2>7, <2>8, <2>9 DEF ServiceInv
<1>2. Behind /\ OrderInv /\ ServiceInv /\ [Next]_vars => ServiceInv'
  <2>1. SUFFICES ASSUME Behind, OrderInv, ServiceInv, [Next]_vars PROVE ServiceInv'
    OBVIOUS
  <2>2. /\ TypeOK /\ EndOrder /\ CompletionInv /\ Answered /\ ResultInv /\ PlanBeforeVerdict
        /\ Ordered(wire["PC2"])
    BY <2>1 DEF Behind, OrderInv, CompletionInv, Fifo
  <2>3. Turns /\ Alone /\ Windows /\ Concluded /\ CableLeft /\ Covered /\ WorkerIdleAtCompletion
    BY <2>1 DEF ServiceInv
  <2>4. Turns' /\ Alone'
    BY <2>1, <2>2, <2>3, TurnsStep, AloneStep
  <2>5. Windows'
    BY <2>1, <2>2, <2>3, ClosedBeforeStep, OpeningStep, ClosingStep, OpenDuringStep, WideStep DEF Windows
  <2>6. Concluded' /\ CableLeft' /\ WorkerIdleAtCompletion'
    BY <2>1, <2>2, <2>3, ConcludedStep, CableLeftStep, CompletedStep
  <2>7. Covered'
    BY <2>1, <2>2, <2>3, CoveredStep DEF Windows
  <2>8. QED BY <2>4, <2>5, <2>6, <2>7 DEF ServiceInv
<1>3. QED BY <1>1, <1>2, BehindCorrect, OrderCorrect, PTL DEF Spec

\* The coordinator never concludes over an operation it gave up waiting for
\* (call, handleOpDone, handlePlanDone): a completed worker has a free slot and a
\* closed window, whatever expired, was refused or was cut short by the soak
\* budget before.  An interrupt of the coordinator within the diagnostic leaves
\* the request it cut short or the window, and nothing else.
THEOREM WorkerIdleCorrect == Spec => []WorkerIdleAtCompletion
<1>1. ServiceInv => WorkerIdleAtCompletion
  BY DEF ServiceInv
<1>2. QED BY <1>1, ServiceCorrect, PTL

\* The link loss the cable diagnostic causes is covered on both sides: while the
\* carrier is down under a session that goes on, both peers read with the wide
\* timeout (CablePlan's SetIdleTimeout, handleTestRequest).
THEOREM CarrierCorrect == Spec => []CarrierLossCovered
<1>1. ServiceInv => CarrierLossCovered
  <2>1. SUFFICES ASSUME ServiceInv, carrier = "down", plan.pc \notin {"returned", "handled"},
                        NEW r \in Role, fin[r] = NoFin, fin[Peer(r)] = NoFin
                 PROVE  idle[r] = "wide"
    BY DEF CarrierLossCovered
  <2>2. fin["PC2"] = NoFin
    BY <2>1 DEF Role, Peer
  <2>3. idle["PC1"] = "wide"
    BY <2>1 DEF ServiceInv, Covered, CableOps
  <2>4. idle["PC2"] = "wide"
    BY <2>1, <2>2 DEF ServiceInv, Covered, Windows, WideWhileOpen
  <2>5. QED BY <2>3, <2>4 DEF Role
<1>2. QED BY <1>1, ServiceCorrect, PTL
=============================================================================
