--------------------------- MODULE CommandProofs ---------------------------
(***************************************************************************)
(* Proofs about Command, for every cap of the live stream: nothing of a    *)
(* cancelled command's group survives its report, and a timeout is blamed  *)
(* only on a deadline that came first.                                     *)
(***************************************************************************)
EXTENDS Command, TLAPS

-----------------------------------------------------------------------------
(* The types the two inductions need: those of the Boolean state.          *)

Flags == hasTimeout \in BOOLEAN /\ expired \in BOOLEAN /\ cancelled \in BOOLEAN

\* The switches start false, the timeout either way.
LEMMA FlagsInit == Init => Flags
BY DEF Init, Flags

\* Only the two events of the context change one.
LEMMA FlagsStep == Flags /\ [Next]_vars => Flags'
<1> SUFFICES ASSUME Flags, [Next]_vars PROVE Flags'
  OBVIOUS
<1>1. CASE CancelParent
  BY <1>1 DEF CancelParent, Flags
<1>2. CASE Expire
  BY <1>2 DEF Expire, Flags
<1>3. CASE UNCHANGED <<hasTimeout, expired, cancelled>>
  BY <1>3 DEF Flags
<1> QED
  BY <1>1, <1>2, <1>3 DEF Next, vars, ctxs, Start, SignalGroup, Fork, Exit, Write, Read,
     Cancel, Escalate, Reap, Collect, Publish, Over

-----------------------------------------------------------------------------
(* The group is empty.                                                     *)

\* Nobody has been started.
LEMMA GroupInit == Init => GroupInv
BY DEF Init, GroupInv

\* A signal starts nobody, and SIGKILL leaves nobody of a group that may be
\* signalled.
LEMMA Delivered ==
  ASSUME NEW sig, Deliver(sig)
  PROVE  /\ child' \in {child, "zombie"} /\ (child' # child => child = "running")
         /\ grand' \in {grand, "gone"} /\ (grand' # grand => grand = "running")
         /\ sig = "KILL" /\ ~traits.privileged => child' # "running" /\ grand' # "running"
BY DEF Deliver

\* Every step keeps the invariant.
LEMMA GroupStep == GroupInv /\ [Next]_vars => GroupInv'
<1> SUFFICES ASSUME GroupInv, [Next]_vars PROVE GroupInv'
  OBVIOUS
<1> USE DEF group, ctxs
<1>1. CASE Start
  BY <1>1 DEF Start, GroupInv
<1>2. CASE CancelParent \/ Expire \/ Write \/ Read \/ Over
  <2>1. UNCHANGED <<child, grand, reaper, flag, escalation, traits>>
    BY <1>2 DEF CancelParent, Expire, Write, Read, Over, vars
  <2> QED
    BY <2>1 DEF GroupInv
<1>3. ASSUME NEW sig, SignalGroup(sig) PROVE GroupInv'
  BY <1>3, Delivered DEF SignalGroup, GroupInv
<1>4. CASE Fork
  BY <1>4 DEF Fork, GroupInv
<1>5. CASE Exit
  BY <1>5 DEF Exit, GroupInv
<1>6. CASE Cancel
  <2>1. Deliver("TERM")
    BY <1>6 DEF Cancel
  <2>2. Answer # "sent" /\ ~traits.privileged => child = "reaped" /\ grand # "running"
    BY DEF Answer, GroupEmpty
  <2>3. /\ UNCHANGED <<traits, reaper>> /\ reaper \in {"wait", "collect"}
        /\ escalation' = IF Answer = "sent" THEN "armed" ELSE "closed"
    BY <1>6 DEF Cancel
  <2>4. child # "none"
    BY <2>3 DEF GroupInv
  <2>5. /\ child' \in {child, "zombie"} /\ (child' # child => child = "running")
        /\ grand' \in {grand, "gone"} /\ (grand' # grand => grand = "running")
    BY <2>1, Delivered
  <2>6. escalation' = "closed" /\ ~traits'.privileged => child' = "reaped" /\ grand' # "running"
    BY <2>2, <2>3, <2>5
  <2>7. escalation' \in {"armed", "closed"}
    BY <2>3
  <2> QED
    BY <2>3, <2>4, <2>5, <2>6, <2>7 DEF GroupInv
<1>7. CASE Escalate
  <2>1. Deliver("KILL") /\ escalation = "armed" /\ escalation' = "closed"
        /\ UNCHANGED <<traits, reaper, flag>>
    BY <1>7 DEF Escalate
  <2>2. /\ child' \in {child, "zombie"} /\ (child' # child => child = "running")
        /\ grand' \in {grand, "gone"} /\ (grand' # grand => grand = "running")
        /\ ~traits.privileged => child' # "running" /\ grand' # "running"
    BY <2>1, Delivered
  <2>3. child # "none"
    BY <2>1 DEF GroupInv
  <2> QED
    BY <2>1, <2>2, <2>3 DEF GroupInv
<1>8. CASE Reap
  BY <1>8 DEF Reap, GroupInv
<1>9. CASE Collect
  BY <1>9 DEF Collect, GroupInv
<1>10. CASE Publish
  BY <1>10 DEF Publish, EscalationOver, GroupInv
<1>11. CASE UNCHANGED vars
  BY <1>11 DEF vars, GroupInv
<1> QED
  BY <1>1, <1>2, <1>3, <1>4, <1>5, <1>6, <1>7, <1>8, <1>9, <1>10, <1>11 DEF Next

\* Once a cancelled or timed-out command is reported as done nothing of its
\* group is left.
THEOREM GroupGoneCorrect == Spec => []GroupGone
<1>1. GroupInv => GroupGone
  BY DEF GroupInv, GroupGone, GroupEmpty
<1> QED
  BY <1>1, GroupInit, GroupStep, PTL DEF Spec

-----------------------------------------------------------------------------
(* A cancellation is not a timeout.                                        *)

\* Nothing has happened yet.
LEMMA CauseInit == Init => CauseInv
BY DEF Init, CauseInv

\* Every step keeps the invariant.
LEMMA CauseStep == Flags /\ CauseInv /\ [Next]_vars => CauseInv'
<1> SUFFICES ASSUME Flags, CauseInv, [Next]_vars PROVE CauseInv'
  OBVIOUS
<1> USE DEF ctxs
<1>1. CASE CancelParent
  BY <1>1 DEF CancelParent, CauseInv, Flags
<1>2. CASE Expire
  BY <1>2 DEF Expire, CauseInv, Flags
<1>3. CASE Cancel
  <2>1. Attribution = "timedOut" => hasTimeout /\ ~cancelled
    BY DEF Attribution
  <2>2. /\ UNCHANGED <<hasTimeout, expired, cancelled, cause, result>>
        /\ flag' = Attribution /\ (expired \/ cancelled)
        /\ reaper' = reaper /\ reaper # "done"
    BY <1>3 DEF Cancel
  <2> QED
    BY <2>1, <2>2 DEF CauseInv, Flags
<1>4. CASE Publish
  BY <1>4 DEF Publish, CauseInv
<1>5. CASE UNCHANGED <<hasTimeout, expired, cancelled, cause, flag, result>>
           /\ (reaper = "done" => reaper' = "done")
  BY <1>5 DEF CauseInv
<1> QED
  BY <1>1, <1>2, <1>3, <1>4, <1>5 DEF Next, vars, Start, SignalGroup, Fork, Exit, Write, Read,
     Escalate, Reap, Collect, Over

\* A command is reported as timed out only when its own deadline passed before
\* its caller gave up.
THEOREM TimeoutIsTimeoutCorrect == Spec => []TimeoutIsTimeout
<1>1. CauseInv => TimeoutIsTimeout
  BY DEF CauseInv, TimeoutIsTimeout
<1> QED
  BY <1>1, FlagsInit, FlagsStep, CauseInit, CauseStep, PTL DEF Spec
=============================================================================
