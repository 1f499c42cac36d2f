---------------------------- MODULE SessionState ----------------------------
(***************************************************************************)
(* The session state machine of internal/peer/state.go: the states, the    *)
(* table of allowed transitions and the two methods of StateMachine that   *)
(* the session uses.  Transition returns an error and leaves the state     *)
(* untouched when the table has no entry; every caller logs that error and *)
(* goes on, which is why the operator below is total.                      *)
(***************************************************************************)

PeerState == {"initializing", "preflight", "listening", "connecting",
              "handshake", "waiting_for_local_start",
              "waiting_for_peer_start", "ready", "testing",
              "generating_report", "completed", "aborted", "failed"}

Stop == {"aborted", "failed"}

\* Successors that lead forward; every non-terminal state may also stop.
Forward(s) ==
  CASE s = "initializing"            -> {"preflight"}
    [] s = "preflight"               -> {"listening", "connecting"}
    [] s \in {"listening", "connecting"} -> {"handshake"}
    [] s = "handshake"               -> {"waiting_for_local_start"}
    [] s = "waiting_for_local_start" -> {"waiting_for_peer_start", "ready"}
    [] s = "waiting_for_peer_start"  -> {"ready"}
    [] s = "ready"                   -> {"testing"}
    [] s = "testing"                 -> {"generating_report"}
    [] s = "generating_report"       -> {"completed"}
    [] OTHER                         -> {}

TableWithoutEnd ==
  [s \in PeerState |->
     IF s \in Stop \cup {"completed"} THEN {}
     ELSE (Forward(s) \ {"completed"}) \cup Stop]
validTransitions ==
  [s \in PeerState |->
     IF s \in Stop \cup {"completed"} THEN {} ELSE Forward(s) \cup Stop]

Terminal(s) == validTransitions[s] = {}

Transition(cur, to) == IF to \in validTransitions[cur] THEN to ELSE cur
=============================================================================
