# Verification of cablecheck

TLA+ models of cablecheck, the tool that tests an Ethernet cable between two
PCs: PC1 (the coordinator) drives a test plan, PC2 (the worker) executes the
operations it is asked for, and both end with a report. The models are written
from the Go source; TLC checks them on small instances and TLAPS proves the
main safety properties for every instance.

## 1. Inventory

| part | source | state it keeps | operations | interacts through |
|---|---|---|---|---|
| session state machine | `internal/peer/state.go` | current `State` | `Transition`, `Require` | called by every handler |
| peer session | `internal/peer/{session,loop,ready,exec,rpc,events}.go` | ready flags, countdown, strikes, pending calls, active operation, cable window, `finishSpec` | one handler per event; `Run`, `shutdown` | frames over one TCP connection; an events channel fed by reader, plan driver, executor, transfer callback, stdin |
| handshake | `internal/peer/handshake.go`, `establish*` in `session.go`, `transport.go` | retry and auth strike counters | accept/dial loops, the four-frame exchange | TCP, `protocol.Conn` |
| report transfer | `internal/peer/transfer.go`, `internal/reporting/transfer*.go`, `internal/app/transfer.go` | `transferOn`, `transferRan`, routed channel; file attempt counters | manifest, chunks, acks, decline | frames routed by the loop |
| wire protocol | `internal/protocol` | message ID counter, per-role high-water mark, idle timeout | `WriteEnvelope`, `ReadEnvelope`, `Observe` | `net.Conn` |
| test plans | `internal/testsuite/{suite,standard,soak,cable}.go` | results, soak budget | `Run`: steps made of RPCs and local operations | `peer.RemoteCaller` |
| test operations | `internal/testsuite/{ops,iperf,udp,ping,link,counters,...}.go` | iperf3 servers by port, monitor window | `HandleOp` | runner |
| process runner | `internal/runner` | registry of live children | start, stop, kill-all | operating system |
| link monitor | `internal/network/monitor.go` | last link state, event list, window flag | poll, begin/end window | ticker goroutine, plans, session |
| evaluation | `internal/evaluate` | none (pure) | classification, score, recommendations | called once per run |
| application | `internal/app` | results of the run, exit code | run, finish, write reports | session outcome |
| parsers, model, config, cli, ui, logging, clock, report rendering | the packages of those names | none shared across goroutines except the console | parse, validate, print | — |

What is hard here, and therefore what the properties are about: five kinds of
goroutine per side post into one events channel in any order; the two sides
start their countdowns from different events; a call can be abandoned while
its operation still runs on the other PC; a result, a chunk or a verdict can
be late; the diagnostic takes the very link the session runs over down on
purpose; either operator can interrupt and the link can die between any two
steps; and teardown has to wait for goroutines that may be blocked. Every such
place is listed under `hazards` in `PROJECT.json` at its line.

What makes each part correct:

- session: completion is an agreement, reported reasons are true, teardown
  reaches its terminal state on both sides and always ends, well-behaved peers
  do not strike each other out, a verdict is never refused;
- RPC and executor: a result answers the call it belongs to, at most one
  operation runs, nothing runs when the worker completes;
- transfer: no routed frame is dropped, stragglers are harmless, the outcome
  of the transfer never blocks the verdict;
- cable diagnostic: the self-inflicted loss is covered on both sides and the
  window is always released;
- handshake: a side that is through shares connection and test ID with the
  other, what the user is told is true, nobody hangs, strangers in the accept
  queue do not cost the worker its budget;
- wire: no frame is refused as a duplicate, a healthy link is never given up;
- process runner: nothing of a cancelled command is left running, a timeout is
  told from a cancellation, a scan reports only processes of this program, and
  a crash leaves no server unrecorded;
- link monitor and plans: the changes the cable diagnostic causes, and only
  those, are accounted to it; a step that is skipped, fails or is thrown away is
  never counted as a measurement;
- evaluation: damage is reported, a cable without a fault is not convicted, and
  only a run that measured everything is called EXCELLENT.

## 2. Modules

`SessionState` is `state.go`: the states, `validTransitions` and `Transition`.
`Transition` is total: the Go method returns an error and leaves the state
alone when the table has no entry, and every caller only logs that error.

`Session` is the life of both peers after the coordinator's handshake is over.

| code | model |
|---|---|
| one `select` iteration of `loop()` | one action: `HandleFrame`, `OnCountdownGo`, `HandleConnErr`, `HandleInterrupt`, `HandleTransferDone`, `HandleCallExpired`, `HandlePlanDone`, `HandleOpDone` |
| `handleFrame` and the handlers it calls | `HandleFrame(r)` and one operator per frame type, each with the whole handler including the frame it writes |
| events channel | the loop takes any event some producer has ready; the order of one producer's events is kept (frames; `evCallExpired` before `evPlanDone`) |
| TCP connection | `wire[r]`, a sequence of frames per reader; `LinkCut` loses a suffix in each direction; a closed side discards |
| `send`/`write` | `Put`, with `WriteOutcomes`: on a dead connection a write may still succeed and vanish |
| context of the session | `CtxDone`: the caller's context or the end of the loop |
| plan goroutine | `plan` and the `Plan*`, `Cable*`, `CallReturns`, `BudgetExpires` actions |
| pending-call registry | `call`; `Answers` is `takeCall` |
| executor goroutine | `op` and `OpFinishes` |
| transfer callbacks | `sender`, `receiver`, `xBuf` |
| `shutdown` | `Teardown` (executor joined, farewell, window, close, pending calls) and `Exit` (goroutines drained, final transition) |

A plan is reduced to its control: up to `MaxCalls` sequential calls, the
detached final-counter boundary, and the cable diagnostic after it. Timers are
nondeterministic: an armed call may expire at any time. Heartbeats, progress
frames and the printed countdown change no state the properties see and are
left out, as are frames no well-behaved peer sends.

`MCSession` gives the instances. The theorems are in `SessionProofs`, in three
parts: who may end a session and why, the order of events on one side, and the
order of frames between the two.

`ReportTransfer` is the inside of the two transfer callbacks that `Session`
only starts and ends.

| code | model |
|---|---|
| `SendReports`, `sendOneFile`, `streamFileChunks` | `tx`: `BuildManifest` (one file per step), `SendManifest`, `StreamChunk`, `RecvAck` with `NextFile` and `Retry`, `StreamFails` |
| `ReceiveReports`, `receiveOneFile` | `rx`: one action per outcome of the frame at the head of the queue, in the order of the code's tests: `Swallow`, `WrongName`, `Reject`, `Oversize`, `LocalFailure`, `WritePart`, `Commit` |
| `partWriter` | `part`; `Open` is the file after a restart truncated it; `commit` moves it to `stored` |
| `routeTransferFrame` | `Route`: dropped for a callback that has returned or when the channel is full |
| `ReportChannel.Receive` at the end of the session | `RecvCut`, `StreamFails`, allowed whatever is still queued, as `select` does |
| `finishWorker`, `reportTransferred`, `writeWorkerSummary` | `FinishWorker`, after the callback is joined |

Contents are sequences, so offsets, sizes, the short last chunk and the empty
one after an exact multiple are the code's own; a digest is the content itself.
A file may be rewritten at any time (`Edit`: `cablecheck regenerate` in the same
directory), which is what makes verification fail over a reliable connection.
All three files exist when a transfer starts, because the plan renders the set
first. Should one be removed by hand at that moment, `BuildManifest` leaves it
out and `finishWorker` would write its fallback over a verified `summary.txt`;
this is outside the model.

`FileDelivery` is what the transfer promises, with neither chunks nor acks;
`ReportTransfer` instantiates it with the sender's result as the verdict.
`MCReportTransfer` gives the instances, `ReportTransferProofs` the theorems.

`Handshake` is how the two sides get their connection.

| code | model |
|---|---|
| `establishCoordinator`: accept loop, watcher, two strike counters | `coord`, `backlog`: one caller is served at a time, the others wait in the kernel's queue |
| `coordinatorHandshake`, `workerHandshake`, `workerReadReply`, `mapWorkerAbort` | one action per frame read and per check, in the code's order |
| `Dial` with its retries and 60 s budget | `worker`, which counts ticks |
| configuration of the two sides | `conf`: whether version, token, claims and iperf3's JSON support agree |
| strangers on the control port | callers that send at most one frame, or nothing |

`HandshakeProofs` holds the theorems.

`Wire` is one direction of the connection afterwards: `mintAndWrite` with its
lock, the heartbeater that skips a beat after recent traffic, and at the other
end `DuplicateDetector.Observe` and the read deadline. Time is in seconds; the
link is up and delivers within `MaxDelay`.

`Command` is one external command of `internal/runner`: start, the context
goroutine of `os/exec` (external), `cmd.Cancel`, the escalation timer, the
reaper, `signalGroup` and the bounded live output. The child may fork, either
process may ignore SIGTERM, keep the pipe open, or run as root. The theorems
about the two are in `WireProofs` and `CommandProofs`.

`Registry` is the state directory all runs on a machine share: the scan of the
preflight one file at a time, `NewRegistry`, `Register`, `Stop`, `forget`, `KillAll`,
and a crash between any two steps, while the kernel hands out process numbers
again. `RegistryProofs` holds the theorems.

`Evaluate` is the evaluator as pure operators: `sideFacts` and the other facts, 33
rules, `classify`, the caps and the score, with every threshold of the code. One
counter stands for each class the rules add up. `LinkMonitor` is one monitor as
operators on a record. `TestPlan` composes the two with the plans:

| code | model |
|---|---|
| one step of quick, standard or soak plan | one action; its outcomes are those the code tells apart (clean, tool missing, port unreachable, failed, partial, server not stopped) and the samples that separate the rules' thresholds |
| `stepBidir` | `bidirNative` or, without `--bidir` on both sides or an answer about it, `bidirFallback` with its two clients |
| `recordSkippedTest`, the cycles of `soak.go:240,292` | `recordSkippedTest`: the first reason per test, kept once for each soak cycle |
| `CablePlan`, both windows | `CableWindowStart` ... `EndWindow` after the base plan; a TDR command that fails leaves the pairs it had |
| salvage, detached final snapshot, whole soak cycles | `phase` "salvage" and "boundary"; `kept` |
| `assembleReport`, `finalize`, `PrepareComplete`, `finishCoordinator` | `report`, rendered up to three times |
| kernel and driver counters | `hw`, with what truly happened kept beside what the NIC shows |

The world acts between any two steps: frames are damaged, rings overflow,
counters are reset, the carrier drops, a monitor polls. `faults` records which of
this was the cable's, so the verdict is compared with the truth and not with
another computation of the rules. Each of the cable's faults carries the step and
the soak cycle it fell in, so that two slow trials are two faults. What a link does
because of the diagnostic is no fault, also when it comes back after the window
was closed on it; nor is a full ring, also on a NIC whose driver counts it among
the damaged frames (`folds`, which `facts.go:498` allows for).

`MCTestPlan` gives the machines and plans. The theorems are in `TestPlanProofs`
(what a report may leave out) and `VerdictProofs` (what it may accuse the cable of).

## 3. Runs

| run | environment | shows |
|---|---|---|
| `session_soak` | soak plan of three calls, cancel requests, cable diagnostic, an attended PC1 that may get Ctrl+C, a worker without receiver, the link may die | `TypeOK`, `AbortReasonTrue`, `FinalStateEntered`, `NoProtocolError`, `ResultIsOfThisCall`, `WorkerIdleAtCompletion` |
| `session_cable` | fair, unattended, cable diagnostic and transfer, Ctrl+C on PC2, the link may die | `CompletionAgreed`, `TransferNeverDrops`, `VerdictNotRefused`, `CarrierLossCovered`, `WindowReleased`, `SessionEnds`, `EndSpreads` |
| `transfer` | fair; two files that may be rewritten, local failures, aborts, a channel that can overflow | `TypeOK`, `NothingPartial`, `PartBounded`, `AckOfThisAttempt`, `VerifiedKept`, `Delivery` (refinement of `FileDelivery`), `TransferEnds` |
| `handshake_served` | three strangers before the worker, two failures of each kind allowed, delays of one tick, timeouts that leave time for two callers | `WorkerServed` |
| `handshake_ends` | fair; every disagreement of the configurations, one stranger, timeouts and Ctrl+C anywhere | `SameSession`, `DiagnosisTrue`, `Settles`, `CancelEnds` |
| `wire` | two goroutines and the heartbeater | `NoneDropped`, `NeverIdle` |
| `command` | fair; any command, timeout racing cancellation | `GroupGone`, `TimeoutIsTimeout`, `Ends` |
| `registry` | two runs and a user, three process numbers, five starts | `OnlyOwnReported`, `SurvivorsRecorded`, `EndsClean` |
| `testplan` | nine machines, links and plans, two anomalies each | `TypeOK`, `CleanMeansMeasured`, `CorruptionReported`, `NoFalseConviction`, `OneBadTrial`, `WindowAccounted`, `NeverUpgraded` |
| `session_overlap` | soak plan, no faults | violates `NoOverlap` (finding 1) |
| `session_setup` | soak plan, no faults | violates `CancelMeansTeardown` (finding 2) |
| `testplan_carrier` | cable plan, the carrier is lost once during the traffic | violates `GenuineCarrierReported` (finding 3) |

Bounds. One call (three for soak) is enough for a late result, an abandoned call
and a following one. The routing of a transfer has up to three chunks against a
buffer of one more: the code streams at most 33 frames per file against a buffer
of 64. Each interrupt and the cut happen at most once, as in the code. In
`session_soak` the coordinator may be interrupted while the window opens or
closes, so that the loop takes the plan's nil before it notices: the run reaches
completed workers with a request of the diagnostic still running and with the
window open, and shows that nothing else is left. Roles are
not symmetric, so no symmetry is used.

The file transfer uses chunks of one byte, files of at most four, one file over
the cap and a total that two large files exceed. The channel holds three frames,
too few for the largest file, so that a dropped chunk has stragglers behind it:
the repository's tests drop chunks and the retry exists for that case. A dropped
last chunk leaves both callbacks waiting until the session ends; the comment at
`peer/transfer.go:84` that verification "surfaces the loss" relies on the
channel being large enough, which 64 against 34 is. `TransferEnds` therefore
speaks of runs in which the channel never filled up.

`handshake_served` has a hello timeout of 2, a handshake timeout of 6 ticks and
delays of 1 in all, and gives up at the second wrong token or the second other
failure, so that three strangers are more than the counters tolerate. A stranger
may hold the coordinator for its whole hello timeout, whether it stays silent or
sends its wrong token at the last moment, and frames and local steps may take
time (`MaxLag`). `WorkerServed` counts what that leaves: 6 ticks are two callers
and the delay, so the property speaks while at most one caller has failed and the
next is served. It is the same with the code's 10 s and 30 s: a worker behind one
caller that failed and one that is being served has up to 9 s left for delays. A
coordinator that forgives two wrong tokens or a token and another failure goes on
to a third caller, and 3 times 10 s is all of the worker's 30 s: the code
gives no guarantee there, and the property claims none. `wire` has the code's 5 s
and 20 s, a delay of up to 3 s, and a ring of two IDs so that it wraps. A command
has one grandchild and a stream one byte over its cap. Three process numbers
for two runs and a user force reuse. Two anomalies per run are what the rules
combine: a fault and an excuse, a fault and a lost snapshot, two faults. The
sampled values sit on both sides of each threshold that the properties
distinguish; one loss of the carrier per run is genuine.

`CHECK_DEADLOCK FALSE` is used where the system may stop: both sides connected or
ended (`handshake_*`), all IDs minted (`wire`), all processes started (`registry`).

Fairness. Weak fairness of each goroutine's step and of the timers that drive
them: the Go scheduler runs a runnable goroutine, contexts are honoured by
the local steps of plans and operations, and the interface comes back after the
diagnostic. Nothing is assumed of operators, of Ctrl+C, of the link, of an
external command (it may run for ever unless it is killed) or of a stranger. An
unattended session is needed for `SessionEnds`: an interactive peer may wait
for its operator for ever, which is intended. In the transfer's `FairSpec` both
callbacks run, and a worker whose coordinator is done is torn down, which is what
`EndSpreads` shows of the session. In `Handshake` the clock advances.

### Findings

1. `docs/design/proto.md:457`: "The coordinator never legitimately overlaps
   requests, so this only fires on bugs." The soak plan overlaps them: when
   its budget expires it abandons the call in flight (`rpc.go:187`) and its
   deferred final snapshot (`soak.go:150`) reaches a worker that still runs the
   abandoned operation. The worker answers `rejected`, the snapshot fails, and a
   soak run that was otherwise complete ends as failed with `internal_error`.
2. `exec.go:256`: "The teardown that cancelled the plan is already in flight".
   A soak budget that expires while the plan is still in `stepLink` or the
   initial counters makes the plan return a cancellation with no teardown in
   flight. `handlePlanDone` returns and both sides stay in `testing`. The
   shortest budget is 60 s and a set-up call may take its 30 s plus grace, so a
   slow worker is enough.
3. `evaluate/facts.go:452` subtracts the changes of the diagnostic's window from
   a counter delta that does not contain them: `testsuite/cable.go:119` runs the
   base plan, final snapshot included, before the window opens. A genuine loss
   of the carrier during the traffic is subtracted away and PHY-03 stays silent,
   against `facts_test.go:224` ("want genuine PC2 carrier fault finding") and
   `README.md:318`.
Smaller disagreements met while modelling, without a run of their own. The first
two are the exceptions `NoFalseConviction` states; TLC refuted the property when
either was left out.

- `docs/health-rules.md:187`: "Carrier events caused by the cable test itself are
  annotated separately and removed from the ordinary carrier-event evidence." A
  cable-test command that dies after it took the link down makes `CablePlan`
  return, and the deferred `EndWindow` (`cable.go:132`) closes the window on a
  link that is still down; so does a worker that does not answer in time. The
  link's return is an ordinary event to the monitor. Where neither side's counters
  can be compared (both were reset) it is PHY-03's evidence, and a sound cable is
  convicted. It takes three anomalies, one more than `testplan` allows.
- `docs/health-rules.md:118` says of the driver's aggregate "That ceiling is what
  stops a host-side drop from being scored as a cable fault", and `:174` that the
  ring-drop counters are left out of it, so that "a host-side drop is never
  recharged as corruption". `facts.go:498` deliberately does not subtract them,
  and the ceiling belongs to PHY-02 alone. On a driver that folds its drops in,
  a few full rings on a busy host make PHY-02 a warning, which takes the excuse
  of HOST-01 from a poor throughput (POOR), or fire PHY-10 beside UDP loss (FAILED).
- `Link.After` is never set by a plan, so that the part of PHY-01 that compares the
  link before and after (`README.md:328`, `facts.go:739`) cannot fire.
- `counters.go:95` speaks of a stable key set; the collector's fallback and
  counters that appear only when not zero change it between two snapshots.
- A counter reset makes a delta unreliable but leaves the evidence flag set, so
  that EXCELLENT is possible over deltas that were not usable.
- A UDP run that misses its target rate counts as run and is never judged.
- `docs/design/proto.md:279` lets the coordinator "keep listening";
  `session.go:388` gives up after two failed handshakes.
- `runner.go:186` calls the wait bounded; a child under sudo refuses the signals
  (EPERM) and is waited for as long as it runs. `Ends` excludes it.
- `registry.go:26` promises that a live session's directory is skipped; the scan
  reads the marker first and lists the directory later. `SurvivorsRecorded`
  shows that nothing needed is lost by it.

## 4. Proofs

Every theorem is proved for all values of the constants from the assumptions
the modules state about them; where one needs more, its hypotheses say so. Each
inductive invariant was checked by TLC as an invariant of the run of its module,
except `TypeInv` and `ChainInv` of `TestPlanProofs`, which speak of unbounded sets.
A proof module states first the parts of its invariant, then what each action
changes (one lemma for the many actions that leave a part alone), then one lemma
per action or part, and the theorems at the end.

`SessionProofs` (roles, operation names, natural bounds, Boolean switches):

- `TypeCorrect`: `Spec => []TypeOK`. The types of frames are indexed by kind
  (`ArgOf`): without that an abort could carry a status and the induction
  would fail at `HandlePeerAbort`.
- `AbortReasonCorrect`: `Spec => []AbortReasonTrue`. The inductive
  strengthening is `AbortInFlight`: an abort on the wire names the reason for
  which its sender ended.
- `CompletionCorrect`: `Spec => []CompletionAgreed`. The inductive invariant
  adds `VerdictInFlight` (a complete on the wire has its cause on the other
  side) and `PlanBeforeVerdict` (the plan runs once, after GO; a verdict or a
  transfer follows a plan that succeeded).

Both safety proofs rest on two facts that are proved once, action by action:
`WritesStep` (only the complete exchange and the two farewells write a
`complete` or an `abort`) and `FinStep` (an outcome is decided once, and on
evidence).

The second part of `SessionProofs` is about one side at a time. Four footprints carry it:
`LifeStep` (how state, teardown and outcome of a side may move), `PlanSteps` (the
plan goroutine only goes forward), `SlotStep` (a call is made, answered, expired
or dropped) and `WireStep` (frames are appended at one end and taken at the
other).

- `FinalStateCorrect`: `FinalStateEntered`, from `EndOrder` and `PlanInState`: the
  state a side is in says how far its teardown and its plan are.
- `WindowReleasedCorrect`: `WindowReleased`, from `MarkedWhileOpen`: the
  monitor's events are annotated only past GO and before the side closes.
- `VerdictCorrect`: `VerdictNotRefused`, from `Answered`: a plan that has ended
  well had a call answered, so the worker is past its own GO when the verdict
  arrives, although the two countdowns start at different events.
- `ResultCorrect`: `ResultIsOfThisCall`, from `ResultInv`: IDs of calls grow, and
  a result in flight carries the ID of a request that was taken.

The third part is about what may be on the wire, and in which order.
`OrderInv` follows a session from the ready frames (`Readiness`,
`ReadyDelivered`, `StartOnce`) over the calls (`Directions`, `FewCalls`,
`Requests`) to the transfer (`Transfers`, `ManifestDelivered`, `SenderOrder`), with
the frames to the worker in the order its loop relies on (`Fifo`). `ServiceInv`
says that requests are answered once and in turn and that only an abandoned call
leaves an operation behind (`Turns`, `Alone`), and between which frames the cable
window is open (`Windows`, `Concluded`, `Covered`).

- `NoProtocolErrorCorrect`: `NoProtocolError`: nothing counts against the
  coordinator, and against the worker only requests that arrive before it tests;
  a plan without an answer sends at most two of them, and the third strike ends
  a session.
- `TransferCorrect`: `TransferNeverDrops`, with the hypothesis
  `MaxChunks < TransferBuffer`: the worker's channel holds no more than the
  manifest and the chunks written so far (`Filled`), the
  coordinator's at most one ack (`AckOnce`). The code has 64 (`transfer.go:12`)
  against the 32 chunks of 256 KiB in a file of at most 8 MiB and one empty one,
  and waits for an ack after each file.
- `WorkerIdleCorrect`: `WorkerIdleAtCompletion`: the verdict is behind the answer
  to the last request on the wire. When PC1 is interrupted that does not hold, but
  from the diagnostic's first request on the worker has no request but the
  diagnostic's (`CableLeft`), and a plan that returned nil without the diagnostic
  had its last call answered.
- `CarrierCorrect`: `CarrierLossCovered`: the link goes down only after the
  worker answered the request that opens its window and before it can have seen
  the one that closes it.

`ReportTransferProofs`, for every number of files, set of contents, chunk size,
channel capacity and number of rewrites:

- `TypeCorrect`: `Spec => []TypeOK`, with `FileRange` (the indices of both
  callbacks name files) as the strengthening.
- `NothingPartialCorrect`, `PartBoundedCorrect`: from `PartInv`, a part file
  exists only while a file is received and after the manifest is complete.
- `DeliveryCorrect`: `Spec => Delivery`, the refinement of `FileDelivery`. The
  inductive invariant `DeliveryInv` says that a chunk of a file is in flight only
  when all files before it have arrived, that an ok ack names a file that has
  arrived, and that only the note of a finished worker is not PC1's. This is
  why the order of arrival survives a file the receiver gave up on.
- `VerifiedKeptCorrect`: from the refinement: no step of `FileDelivery`
  replaces a stored file.
- `AckCorrect`: `AckOfThisAttempt`, from `Exchange`: an ack that is not a decline
  answers a chunk of the attempt that is running, because a receiver that drains
  an attempt it gave up takes only the chunk that opens the file again, and after
  the last attempt only chunks of the next file.

`HandshakeProofs`, for any set of strangers and frames:

- `TypeCorrect`: the state of both loops keeps its type.
- `SameSessionCorrect`, `DiagnosisCorrect`: from `Conn`, which says for each place
  the worker's connection can be (not called, queued, greeting, greeted, acked,
  presented, joined, dropped) what either side has written and read, and
  `ErrTrue`, which keeps each error with its cause.
- `ServedCorrect`: `WorkerServed`, under two hypotheses: the delays of frames and
  local steps after the worker's call are bounded by `MaxLag` in all
  (`LagBounded`), and no stranger presents a valid hello. The invariant is
  `TurnInv`: the time the worker has used is accounted for by the callers that
  failed, each with a whole hello timeout, the one that is being served and the
  delays. So the worker can only run out of time when one caller more than those
  that failed could use it up, `~Covers(strikes + retries + 1)`. Nothing is
  assumed about when a stranger speaks.

`RegistryProofs`, for any number of runs and process numbers:

- `TypeCorrect`: the tables keep their types.
- `OwnReportedCorrect`: `OnlyOwnReported`; `SurvivorsCorrect`:
  `SurvivorsRecorded`; `EndsCleanCorrect`: `EndsClean`. All from `RegistryInv`:
  `Owners` (who a process number belongs to now: a run owns its own process and
  at most the server of its handle), `Record` (only servers are on record; a
  marker is of a run past its scan), `Recorded` (a live registered server is in
  the directory of its run) and `Guarded`. The last is for a run that got the
  number, and so the directory, of a crashed one: it is still in its scan, and
  the scan has found something or will come to the survivor's file. Without it
  the new run's registration could remove the survivor's record.

`WireProofs` proves, for any number of goroutines and IDs, any ring and any
interval with `IdleAssumption` (4/5 of the interval, one interval and the delay
are less than the deadline; the code has 4 + 5 s against 20 s):

- `NoneDroppedCorrect`: `Spec => []NoneDropped`, from `IDInv`: whoever has an ID
  that is not yet written has the lock, the ID is the newest, and the wire
  increases from above the peer's maximum up to it. Without the lock in it the
  invariant is not inductive: a second mint would put the older ID behind.
- `NeverIdleCorrect`: `Spec => []NeverIdle`, from `TimeInv`: the idle heartbeater's
  next tick comes before the last frame is `Threshold + Interval` old, and the
  peer has waited no longer than the last frame is old, or than that plus the
  age of the frame that is arriving.

`CommandProofs` proves, for every cap and with or without privilege:

- `GroupGoneCorrect`: from `GroupInv`: completion follows the escalation, and once
  the escalation is over nobody of the group is left to fork.
- `TimeoutIsTimeoutCorrect`: from `CauseInv`: the first of deadline and
  cancellation is remembered, and blamed only when it came first.

`TestPlanProofs` and `VerdictProofs`, for every configuration of NICs, speeds, modes
and options (`ConfsAssumption`: a link has a speed), any number of repeats, cycles
and anomalies, where nothing that can be captured is mistaken for what was not
(`AbsentAssumption`):

- `TypesHold`: `Spec => []TypeOK`. The inductive invariant is `TypeInv`, with one lemma
  per step of the plan; it says of a soak that what is kept beside the running
  cycle is the run's results and that there is room for one more cycle. That a
  report has one of the six classes and a score in 0..100 follows from
  `RenderInv`: a report is the rendering of results that no longer move.
- `WindowsAccounted`: `WindowAccounted`, from `WindowInv`: while a side's window is
  open its count is the number of changes from the start of the window to the
  last reading of the monitor, whichever polls came in between.
- `ReportsNeverUpgraded`: `NeverUpgraded`. The two renderings differ in what is known
  of PC2 and in the failure of the session (`CapsEvidence`, `MoreKnown`): the
  evidence is the same and only markers are added, which take a class away.
- `ExcellentMeasured`: `CleanMeansMeasured`, from `Progress`: as long as there is no
  error, each test whose step is over has been measured in both directions or is
  among the skipped ones, and a soak has a whole cycle behind it or no trial.
- `DamageReported`: `CorruptionReported`, from `ChainInv`: each snapshot shows the
  tallies of a moment, the final one's are not less than the first one's unless the
  driver was reset, and damage is what the tallies of the causes gained.
- `NoConviction`: `NoFalseConviction`, and `OneTrialCapped`: `OneBadTrial`, both from
  `VerdictInv`, which is about runs whose only faults are slow trials.
  `QuietInv`: the link has not changed before the diagnostic, the snapshots come
  before it, and every event of the monitor is marked as the tool's own or is the
  return of a link that the window was closed on (`Excused`). The second is decided
  by the parity of the changes within the window (`LinkKnown`).
  `FineInv`: what was measured is tidy (no echo lost, no datagram of a run that
  counts, a trial slow at worst, all unless a host was busy), and there are no more
  slow trials than faults. The last is only inductive with the dates of the
  faults (`Dated`: a fault lies before the step that is running). `BareInv`: a soak
  without a whole cycle keeps no trial; without it the number of trials due,
  repeats times cycles, could be zero and the cap of `assessThroughput` would not
  apply. The argument about the evaluator is then by cases. Without counters that
  took full rings for damage and without a returning link no physical rule fires,
  no transport rule but the one on retransmissions is worse than a warning, and
  either the hosts were busy, which excuses what is left, or every trial in use was
  cool, so that only a slow one can make the median poor, and it is the one
  deviation. With folded rings PHY-02 is at most a warning, as all of it is
  unclassified and no echo was lost (`MildCable`), and PHY-10 or a poor
  throughput need a busy host, which HOST-01 names. A returned link is evidence
  only where neither side's counters compare. These are the two exceptions that
  `NoFalseConviction` states, and both happen.

No induction over data is needed for these: sums go over the two sides, a median
is one of the measured values (`MedianIsMeasured`, from the well-founded order of
the naturals), and maxima are bounded by the largest sample.

Proving them corrected the model and its properties:

- `NoFalseConviction` was false for three anomalies: when the ethtool command dies
  with the link down, the window closes and the link's return is a genuine event
  to the monitor. That is an exception of the property now.
- `OneBadTrial` was false for a soak whose same step is slow in two cycles, as the
  two were one fault. Faults now carry their cycle.
- `CorruptionReported` promised a conviction beyond ten damaged frames. Ten of each
  cause are warnings by the code's thresholds, so it is beyond twenty, and only for
  a NIC that counts both causes.
- Several rules had been written as `CASE` with guards that overlap, where TLA+ leaves
  the choice open; they follow the order of the code now (`IF ... ELSE IF`).

Only model-checked: liveness under fairness (`SessionEnds`, `EndSpreads`,
`TransferEnds`, `Settles`, `CancelEnds`, `Ends`), which is out of the prover's
reach, and the three violations.

## 5. Plan

Done: `Session`, `Handshake`, `ReportTransfer` with `FileDelivery`, `Wire`, `Command`,
`Registry`, `LinkMonitor`, `Evaluate`, `TestPlan`, and a proof of every safety
property that a passing run checks. What could be added:

1. The parsers of iperf3, ping and ethtool output, against the samples of the
   repository's tests, as the source of the values `TestPlan` draws.
2. A rule-by-rule statement of what each score deduction may cost a class.

## 6. Not modelled

Parsing of tool output, report rendering and comparison, terminal output, flag
parsing, configuration, interface discovery and the commands without a session
(`doctor`, `compare`, `regenerate`, `version`): sequential code without shared
state, whose correctness is about text. The length prefix and JSON of a frame,
argument lists of the tools, the sudo and capability probes, a report file that
cannot be written, and exit codes. `Command` does not reuse a group number
within the grace period: the delayed kill goes to a bare number
(`docs/design/tools.md:92`), and the window for reuse is three seconds. Progress
frames and the stdin pump change no state that the properties see. Except in
`Wire` and `Handshake` time is abstracted to which timer may fire.
