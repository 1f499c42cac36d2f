------------------------------- MODULE Command -------------------------------
(***************************************************************************)
(* One external command run by internal/runner (Exec.start, its reaper     *)
(* goroutine, cmd.Cancel, the escalation timer, proc.signalGroup and the   *)
(* bounded live stdout).  The child leads a process group of its own and   *)
(* may fork one grandchild into it; either may ignore SIGTERM.             *)
(***************************************************************************)
EXTENDS Naturals

CONSTANTS
  MaxOutputBytes, \* spec.MaxOutputBytes: cap of the live stream
  MaxWritten,     \* bound: bytes the command ever writes
  MayBePrivileged \* the command may run as root under sudo (kill: EPERM)

ASSUME CommandAssumption ==
  /\ MaxOutputBytes \in Nat /\ MaxWritten \in Nat
  /\ MayBePrivileged \in BOOLEAN

VARIABLES
  child,      \* "none", "running", "zombie" or "reaped"
  grand,      \* the grandchild: "none", "running" or "gone"
  traits,     \* the command: which members ignore SIGTERM, pipe, privilege
  hasTimeout, \* spec.Timeout > 0
  expired,    \* the spec's deadline has passed
  cancelled,  \* the caller's ctx is done
  cause,      \* which of the two came first
  watch,      \* os/exec's context goroutine: "armed", "fired", "returned"
  flag,       \* timedOut / canceled of start(): "none", "timedOut", "canceled"
  escalation, \* "none", "armed" or "closed" (escalationDone)
  reaper,     \* the reaper goroutine
  result,     \* what it publishes
  live,       \* streamBuffer: [written, unread, closed]
  reader      \* the readiness scanner: "reading" or "released"

group == <<child, grand>>
ctxs == <<expired, cancelled, cause>>
vars == <<group, traits, hasTimeout, ctxs, watch, flag, escalation, reaper,
          result, live, reader>>

Traits == [childIgnores : BOOLEAN, grandIgnores : BOOLEAN, grandPipe : BOOLEAN,
           privileged : IF MayBePrivileged THEN BOOLEAN ELSE {FALSE}]

TypeOK ==
  /\ child \in {"none", "running", "zombie", "reaped"}
  /\ grand \in {"none", "running", "gone"}
  /\ traits \in Traits /\ hasTimeout \in BOOLEAN
  /\ expired \in BOOLEAN /\ cancelled \in BOOLEAN
  /\ cause \in {"none", "expired", "cancelled"}
  /\ watch \in {"armed", "fired", "returned"}
  /\ flag \in {"none", "timedOut", "canceled"}
  /\ escalation \in {"none", "armed", "closed"}
  /\ reaper \in {"idle", "refused", "wait", "collect", "pipes", "done"}
  /\ result \in {"none", "data", "timedOut", "canceled"}
  /\ live \in [written : 0 .. MaxWritten, unread : 0 .. MaxOutputBytes, closed : BOOLEAN]
  /\ reader \in {"reading", "released"}

Init ==
  /\ child = "none" /\ grand = "none" /\ traits \in Traits
  /\ hasTimeout \in BOOLEAN
  /\ expired = FALSE /\ cancelled = FALSE /\ cause = "none"
  /\ watch = "armed" /\ flag = "none" /\ escalation = "none"
  /\ reaper = "idle" /\ result = "none"
  /\ live = [written |-> 0, unread |-> 0, closed |-> FALSE] /\ reader = "reading"

-----------------------------------------------------------------------------
(* Signals to the negative group number.                                   *)

\* A zombie is still a member: only a reaped child leaves the group.
GroupEmpty == child = "reaped" /\ grand # "running"

\* syscall.Kill(-pgid, sig): reaches every member, or nobody (ESRCH); a root
\* command refuses it (EPERM).
Deliver(sig) ==
  /\ child' = IF child = "running" /\ ~traits.privileged
                   /\ (sig = "KILL" \/ ~traits.childIgnores)
                THEN "zombie" ELSE child
  /\ grand' = IF grand = "running" /\ ~traits.privileged
                   /\ (sig = "KILL" \/ ~traits.grandIgnores)
                THEN "gone" ELSE grand

\* The kernel's answer to that kill.
Answer == IF GroupEmpty THEN "ESRCH"
          ELSE IF traits.privileged THEN "EPERM" ELSE "sent"

-----------------------------------------------------------------------------
(* The caller.                                                             *)

\* start: LookPath, the tee files, then cmd.Start; any of them may fail, and
\* nothing is launched under a context that is done already.
Start ==
  /\ reaper = "idle"
  /\ \/ /\ ~cancelled
        /\ child' = "running" /\ reaper' = "wait" /\ UNCHANGED <<live, reader>>
     \/ /\ reaper' = "refused" /\ live' = [live EXCEPT !.closed = TRUE]
        /\ reader' = "released" /\ UNCHANGED child
  /\ UNCHANGED <<grand, traits, hasTimeout, ctxs, watch, flag, escalation,
                 result>>

\* The caller's context is cancelled, or the spec's own deadline passes.
CancelParent ==
  /\ ~cancelled
  /\ cancelled' = TRUE /\ cause' = IF cause = "none" THEN "cancelled" ELSE cause
  /\ UNCHANGED <<group, traits, hasTimeout, expired, watch, flag, escalation,
                 reaper, result, live, reader>>

Expire ==
  /\ hasTimeout /\ ~expired /\ reaper # "idle"
  /\ expired' = TRUE /\ cause' = IF cause = "none" THEN "expired" ELSE cause
  /\ UNCHANGED <<group, traits, hasTimeout, cancelled, watch, flag, escalation,
                 reaper, result, live, reader>>

\* proc.Terminate and proc.Kill: signalGroup, suppressed once done is closed.
SignalSuppressed == reaper = "done"

SignalGroup(sig) ==
  /\ reaper \in {"wait", "collect", "pipes", "done"} /\ ~SignalSuppressed
  /\ Deliver(sig)
  /\ UNCHANGED <<traits, hasTimeout, ctxs, watch, flag, escalation, reaper,
                 result, live, reader>>

-----------------------------------------------------------------------------
(* The command and the kernel.                                             *)

Fork ==
  /\ child = "running" /\ grand = "none"
  /\ grand' = "running"
  /\ UNCHANGED <<child, traits, hasTimeout, ctxs, watch, flag, escalation,
                 reaper, result, live, reader>>

\* A member leaves on its own account.
Exit ==
  /\ \/ child = "running" /\ child' = "zombie" /\ UNCHANGED grand
     \/ grand = "running" /\ grand' = "gone" /\ UNCHANGED child
  /\ UNCHANGED <<traits, hasTimeout, ctxs, watch, flag, escalation, reaper,
                 result, live, reader>>

-----------------------------------------------------------------------------
(* Output: the tee file and the capped copies never block the command.     *)

\* streamBuffer.Write keeps the first MaxOutputBytes of the stream.
Accepted(n) == IF n < MaxOutputBytes THEN n ELSE MaxOutputBytes

Write ==
  /\ child = "running" \/ (grand = "running" /\ traits.grandPipe)
  /\ reaper \in {"wait", "collect", "pipes"} /\ live.written < MaxWritten
  /\ live' = [live EXCEPT !.written = @ + 1,
                !.unread = @ + (Accepted(live.written + 1) - Accepted(live.written))]
  /\ UNCHANGED <<group, traits, hasTimeout, ctxs, watch, flag, escalation,
                 reaper, result, reader>>

\* streamBuffer.Read blocks until data or Close; scanBanner stops at the banner
\* line, which may be any of the bytes, or at the end of the stream.
Read ==
  /\ reader = "reading"
  /\ \/ /\ live.unread > 0
        /\ live' = [live EXCEPT !.unread = 0] /\ reader' \in {"reading", "released"}
     \/ /\ live.unread = 0 /\ live.closed
        /\ reader' = "released" /\ UNCHANGED live
  /\ UNCHANGED <<group, traits, hasTimeout, ctxs, watch, flag, escalation,
                 reaper, result>>

-----------------------------------------------------------------------------
(* Cancellation and escalation.                                            *)

\* cmd.Cancel's attribution: the deadline of the spec, unless the caller's own
\* context was done as well by then.
AttributionByDeadline == IF expired THEN "timedOut" ELSE "canceled"

Attribution == IF hasTimeout /\ ~cancelled THEN "timedOut" ELSE "canceled"

\* os/exec runs cmd.Cancel when the run context is done before Wait collected
\* it, even if the child was reaped in between.
Cancel ==
  /\ watch = "armed" /\ (expired \/ cancelled)
  /\ reaper \in {"wait", "collect"}
  /\ watch' = "fired"
  /\ flag' = Attribution
  /\ Deliver("TERM")
  /\ escalation' = IF Answer = "sent" THEN "armed" ELSE "closed"
  /\ UNCHANGED <<traits, hasTimeout, ctxs, reaper, result, live, reader>>

\* The grace period ends: SIGKILL to the whole group, whoever is left in it.
EscalateChildOnly ==
  /\ escalation = "armed"
  /\ escalation' = "closed"
  /\ IF child = "reaped" THEN UNCHANGED group ELSE Deliver("KILL")
  /\ UNCHANGED <<traits, hasTimeout, ctxs, watch, flag, reaper, result, live, reader>>

Escalate ==
  /\ escalation = "armed"
  /\ escalation' = "closed"
  /\ Deliver("KILL")
  /\ UNCHANGED <<traits, hasTimeout, ctxs, watch, flag, reaper, result, live, reader>>

-----------------------------------------------------------------------------
(* The reaper goroutine: cmd.Wait, the escalation, the result.             *)

Reap ==
  /\ reaper = "wait" /\ child = "zombie"
  /\ child' = "reaped" /\ reaper' = "collect"
  /\ UNCHANGED <<grand, traits, hasTimeout, ctxs, watch, flag, escalation,
                 result, live, reader>>

\* cmd.Wait takes the context goroutine's verdict (or retires the goroutine).
Collect ==
  /\ reaper = "collect"
  /\ watch' = IF watch = "armed" THEN "returned" ELSE watch
  /\ reaper' = "pipes"
  /\ UNCHANGED <<group, traits, hasTimeout, ctxs, flag, escalation, result, live, reader>>

\* The output pipes are drained, or WaitDelay (longer than the grace period)
\* gives up on a grandchild that keeps one open.
PipesClosed == ~(grand = "running" /\ traits.grandPipe) \/ escalation # "armed"

\* Completion is published only after the delayed group kill.
EscalationOver == flag = "none" \/ escalation = "closed"

PublishLeavesStreamOpen ==
  /\ reaper = "pipes" /\ PipesClosed /\ EscalationOver
  /\ reaper' = "done"
  /\ result' = IF flag = "none" THEN "data" ELSE flag
  /\ UNCHANGED <<group, traits, hasTimeout, ctxs, watch, flag, escalation, live, reader>>

Publish ==
  /\ reaper = "pipes" /\ PipesClosed /\ EscalationOver
  /\ reaper' = "done"
  /\ result' = IF flag = "none" THEN "data" ELSE flag
  /\ live' = [live EXCEPT !.closed = TRUE]
  /\ UNCHANGED <<group, traits, hasTimeout, ctxs, watch, flag, escalation, reader>>

Over ==
  /\ reaper \in {"done", "refused"}
  /\ UNCHANGED vars

Next ==
  \/ Start \/ CancelParent \/ Expire \/ SignalGroup("TERM") \/ SignalGroup("KILL")
  \/ Fork \/ Exit \/ Write \/ Read
  \/ Cancel \/ Escalate \/ Reap \/ Collect \/ Publish \/ Over

Spec == Init /\ [][Next]_vars

\* The goroutines run, and the grace timer fires.  Nothing is assumed of the
\* command: it may run for ever unless it is killed.
Fairness ==
  WF_vars(Start) /\ WF_vars(Cancel) /\ WF_vars(Escalate) /\ WF_vars(Reap)
  /\ WF_vars(Collect) /\ WF_vars(Publish) /\ WF_vars(Read)

FairSpec == Spec /\ Fairness

-----------------------------------------------------------------------------
(* Properties.                                                             *)

\* Once a cancelled or timed-out command is reported as done, nothing of its
\* group is left: neither the child nor a grandchild that ignored SIGTERM and
\* outlived it (process.go: the reaper waits for escalationDone).
GroupGone ==
  (reaper = "done" /\ flag # "none" /\ ~traits.privileged) => GroupEmpty

\* A result says "timed out" only when the spec's deadline passed before the
\* caller's context was cancelled: a cancellation is never reported as a slow
\* link (CommandResult.TimedOut, ErrTimeout).
TimeoutIsTimeout == result = "timedOut" => (hasTimeout /\ cause = "expired")

\* What GroupGone rests on: the reaper is past cmd.Wait only for a reaped child,
\* cmd.Cancel leaves the escalation armed or over, and once it is over nobody of
\* a group that may be signalled is left to fork again.
GroupInv ==
  /\ child = "none" <=> reaper \in {"idle", "refused"}
  /\ reaper \in {"collect", "pipes", "done"} => child = "reaped"
  /\ child = "none" => grand = "none" /\ escalation = "none"
  /\ flag # "none" => escalation # "none"
  /\ reaper = "done" /\ flag # "none" => escalation = "closed"
  /\ escalation = "closed" /\ ~traits.privileged =>
       child \notin {"none", "running"} /\ grand # "running"

\* What TimeoutIsTimeout rests on: the first of the two events is remembered,
\* and a deadline that cmd.Cancel blamed came first.
CauseInv ==
  /\ expired => hasTimeout
  /\ (expired /\ ~cancelled) => cause = "expired"
  /\ (expired \/ cancelled) <=> cause # "none"
  /\ flag = "timedOut" => hasTimeout /\ cause = "expired"
  /\ result = "timedOut" => flag = "timedOut"
  /\ result # "none" => reaper = "done"

\* A command whose context is done is reaped and reported, and the reader of its
\* live output is released (Exec.Run's unconditional wait on done): a command
\* that may be signalled, that is.  One that runs as root under sudo refuses
\* the signals and is waited for as long as it likes.
Ends == ((expired \/ cancelled) /\ reaper # "idle" /\ ~traits.privileged)
          ~> (reaper \in {"done", "refused"} /\ reader = "released")
=============================================================================
