------------------------------ MODULE TestPlan ------------------------------
(***************************************************************************)
(* One run of the coordinator's test plan, from the first link reading to  *)
(* the last rendering of the report: the quick, standard and soak plans,   *)
(* the cable diagnostics wrapped around them, the counter snapshots that   *)
(* bracket the traffic, the link monitors of both ends, and the verdict    *)
(* that the evaluator draws from what was recorded.                        *)
(*                                                                         *)
(* A plan step is one action: it measures, asks the worker, and records.   *)
(* Between steps the world moves: frames are corrupted, rings overflow,    *)
(* counters are reset, the carrier is lost, a monitor polls.  Each step of *)
(* the world and each outcome of a step that is not clean is one of those  *)
(* conf.may and one of at most MaxAnomalies; faults remembers the cable's. *)
(***************************************************************************)
EXTENDS Evaluate, LinkMonitor

CONSTANTS Confs,          \* the runs considered: mode, NICs, speed, options
          Repeats,        \* TCP trials per direction, outside quick mode
          MaxCycles,      \* whole soak cycles at most
          MaxAnomalies    \* what may go wrong in one run

ASSUME BoundsAssumption ==
  Repeats \in Nat \ {0} /\ MaxCycles \in Nat \ {0} /\ MaxAnomalies \in Nat

\* What a NIC counts: exposed by ethtool -S, or tracked by rtnetlink only; and
\* whether its driver folds full rings into its count of damaged frames.
Tallies == {"rx_crc", "rx_length", "rx_missed", "tx_carrier"}
Keys == Tallies \cup {"rx_errors_total"}
NICs == [exposed: SUBSET Keys, tracked: SUBSET Keys, base: Nat, folds: BOOLEAN,
         usb: BOOLEAN, virtual: BOOLEAN]
Modes == {"quick", "standard", "soak"}

ASSUME ConfsAssumption ==
  \A c \in Confs :
    /\ c \in [mode: Modes, nic: [Side -> NICs], speed: Nat, cable: BOOLEAN, bidir: BOOLEAN,
              udpRate: Nat, may: SUBSET STRING]
    /\ c.speed > 0

\* What the tools can measure of the two ends.
Readings == [speed: Nat, half: BOOLEAN, up: BOOLEAN, supported: Nat, partner: Nat]
Counters == UNION {[ks -> Nat] : ks \in SUBSET (Keys \cup {"link_resets"})}
Snapshots == [std: Counters, packets: Nat, at: [corrupt: Nat, missed: Nat, resets: Nat, changes: Nat]]
Loads == [host: Nat, remote: Nat]
Pairs == {"ok", "open", "impedance"}
CableResults == [available: BOOLEAN, pairs: SUBSET Pairs, tdrMissing: BOOLEAN,
                 selfInflicted: [Side -> Int]]

\* Nothing that can be captured is mistaken for what was not.
ASSUME AbsentAssumption ==
  /\ Absent \notin Int /\ Absent \notin Readings /\ Absent \notin Snapshots
  /\ Absent \notin Loads /\ Absent \notin CableResults

VARIABLES conf,     \* the run's configuration
          link,     \* the cable: carrier, speed, carrier changes so far
          hw,       \* the NICs' own tallies, and what truly happened to them
          mon,      \* the link monitors
          plan,     \* where the plan is
          res,      \* SessionResults
          kept,     \* the results of a soak before the cycle that is running
          window,   \* carrier changes at the two ends of each side's window
          report,   \* the report as last rendered
          faults,   \* the faults of the cable so far
          spent     \* anomalies so far
vars == <<conf, link, hw, mon, plan, res, kept, window, report, faults, spent>>

-----------------------------------------------------------------------------
(* Counters.                                                               *)

\* The driver's own aggregate counts the frames it received damaged and, in
\* some drivers, those it had no room for.
Tally(nic, h, key) ==
  IF key = "rx_errors_total" THEN h.rx_crc + h.rx_length + (IF nic.folds THEN h.rx_missed ELSE 0)
  ELSE h[key]

\* A counter of ethtool -S is there even at zero, one that only rtnetlink
\* tracks appears once it is not zero; carrier changes come from sysfs.
NormalizeCounters(nic, h, changes) ==
  [k \in nic.exposed \cup {t \in nic.tracked : Tally(nic, h, t) # 0} \cup {"link_resets"} |->
     IF k = "link_resets" THEN changes ELSE Tally(nic, h, k)]

FramesPerStep == 4000000
\* at: what had truly happened when the snapshot was taken.
Snapshot(s) ==
  [std |-> NormalizeCounters(conf.nic[s], hw[s], link.changes),
   packets |-> FramesPerStep * plan.step,
   at |-> [corrupt |-> hw[s].corrupt, missed |-> hw[s].rx_missed, resets |-> hw[s].resets,
           changes |-> link.changes]]

-----------------------------------------------------------------------------
(* What the tools measure.                                                 *)

Echoes(loss, dups, spikes, gap, frag) ==
  [loss |-> loss, dups |-> dups, spikes |-> spikes, gap |-> gap, frag |-> frag]
Pings == [clean      |-> Echoes(0, 0, 0, 0, 0),
          trickle    |-> Echoes(5, 0, 0, 0, 0),
          lossy      |-> Echoes(200, 0, 0, 0, 0),
          unsteady   |-> Echoes(0, 1, 6, 1500, 0),
          fragmented |-> Echoes(0, 0, 0, 0, 1)]

\* A trial at pct percent of the link's speed.
Trial(pct, retrans, cov, collapses, cpu) ==
  [bps |-> (link.speed * pct) \div 100, retrans |-> retrans, cov |-> cov,
   collapses |-> collapses, host |-> cpu, remote |-> 30, incomplete |-> FALSE]
Trials == [clean |-> Trial(94, 0, 2, 0, 30),
           slow  |-> Trial(30, 0, 2, 0, 30),
           burst |-> Trial(85, 500, 20, 1, 30),
           torn  |-> Trial(60, 20000, 40, 4, 30),
           hot   |-> Trial(30, 20000, 40, 4, 99)]
PartialTrial == [Trial(0, Absent, 0, 0, 0) EXCEPT !.remote = 0, !.incomplete = TRUE]

Datagrams(target, actual, loss, jitter, reorder, cpu) ==
  [target |-> target, actual |-> actual, loss |-> loss, jitter |-> jitter,
   reorder |-> reorder, host |-> cpu, remote |-> 30]
UDPRuns(rate) == [clean   |-> Datagrams(rate, rate, 0, 1, 0, 30),
                  lossy   |-> Datagrams(rate, rate, 300, 1, 0, 30),
                  jittery |-> Datagrams(rate, rate, 60, 6, 20, 30),
                  hot     |-> Datagrams(rate, rate, 300, 1, 0, 99),
                  short   |-> Datagrams(rate, rate \div 2, 300, 6, 0, 30)]
PartialUDP(rate) == [Datagrams(rate, 0, 0, 0, 0, 0) EXCEPT !.remote = 0]

Settings == [speed |-> link.speed, half |-> FALSE, up |-> link.up,
             supported |-> 1000, partner |-> 1000]
LinkReadings == [clean |-> Settings,
                 half |-> [Settings EXCEPT !.half = TRUE],
                 unknown |-> [Settings EXCEPT !.speed = 0, !.supported = 0, !.partner = 0]]

\* A host that is too busy or a tool that says nothing is not the cable's fault.
HostCauses == {"clean", "hot", "short", "unknown", "fragmented"}

-----------------------------------------------------------------------------
(* The plan.                                                               *)

\* n TCP trials each way between what comes before and what comes after.
Trialled(before, n, after) ==
  LET b == Len(before)
  IN [i \in 1..(b + 2 * n + Len(after)) |->
        CASE i <= b                     -> before[i]
          [] i > b /\ i <= b + n        -> "tcpF"
          [] i > b + n /\ i <= b + 2 * n -> "tcpR"
          [] i > b + 2 * n              -> after[i - b - 2 * n]]
StepsOf(c) ==
  CASE c.mode = "quick" ->
         Trialled(<<"link", "initial", "ping", "full">>, 1, <<"bidir", "udp", "final">>)
    [] c.mode = "standard" ->
         Trialled(<<"link", "initial", "ping", "full">>, Repeats,
                  <<"bidir", "udp", "udpReduced", "final">>)
    [] c.mode = "soak" ->
         Trialled(<<"link", "initial", "cycle", "ping">>, Repeats, <<"udp", "cycleEnd">>)

CycleStart == 3
StepName == StepsOf(conf)[plan.step]
At(name) == plan.phase = "base" /\ StepName = name
InCycle == conf.mode = "soak" /\ plan.phase = "base" /\ plan.step > CycleStart

\* The outcomes among S that this run may meet, and what they cost.
May(S) == S \cap (IF spent < MaxAnomalies THEN conf.may \cup {"clean"} ELSE {"clean"})
Spend(outcomes) ==
  LET cost == Cardinality({i \in DOMAIN outcomes : outcomes[i] # "clean"})
  IN spent + cost <= MaxAnomalies /\ spent' = spent + cost
Happens(event) == event \in conf.may /\ Spend(<<event>>)
\* The outcomes that are the cable's doing.
Fault(name, step, cycle) == [name |-> name, step |-> step, cycle |-> cycle]
Blame(names) ==
  faults' = faults \cup {Fault(n, plan.step, res.cycles) : n \in names \ HostCauses}
BlameWorld(name) == faults' = faults \cup {Fault(name, 0, 0)}

\* A soak throws the running cycle away; its deferred boundary comes next.
Failing(p) == [p EXCEPT !.err = TRUE, !.phase = IF conf.mode = "soak" THEN "boundary" ELSE "salvage"]
AfterBase(p) == [p EXCEPT !.phase = IF conf.cable THEN "cable" ELSE "finish"]
StepDone(p) ==
  IF p.step < Len(StepsOf(conf)) THEN [p EXCEPT !.step = @ + 1] ELSE AfterBase(p)

\* How a phase that involves the worker ends.
Errors == {"failed", "partial", "stopFailed"}
Outcomes == {"clean", "unavailable", "unreachable"} \cup Errors
\* An answer comes over the cable.
Reachable(o) == link.up \/ o \in {"failed", "partial"}

\* The first reason a test was skipped for is the one that is kept; every
\* cycle of a soak keeps its own.
recordSkippedTest(r, test, reason) ==
  IF \E x \in r.skipped : x.name = test /\ x.cycle = r.cycles THEN r
  ELSE [r EXCEPT !.skipped = @ \cup {[name |-> test, reason |-> reason, cycle |-> r.cycles]}]

\* A measurement of the direction that dir sends in.
Taken(dir, m) == [dir |-> dir, m |-> m]
\* What one phase of a test leaves in the results.
Recorded(r, field, test, dir, o, sample, partial) ==
  CASE o \in {"clean", "stopFailed"} -> [r EXCEPT ![field] = Append(@, Taken(dir, sample))]
    [] o \in {"unavailable", "unreachable"} -> recordSkippedTest(r, test, o)
    [] o = "partial" -> [r EXCEPT ![field] = Append(@, Taken(dir, partial)), !.incomplete = TRUE]
    [] o = "failed" -> r

\* An error leaves the results of the cycle behind, or marks the run's.
Ends(r, o) ==
  IF o \in Errors
  THEN /\ plan' = Failing(plan)
       /\ res' = [(IF InCycle THEN kept ELSE r) EXCEPT !.incomplete = TRUE]
  ELSE plan' = StepDone(plan) /\ res' = r

Unmoved == UNCHANGED <<conf, link, hw, mon, kept, window, report>>

-----------------------------------------------------------------------------
\* Tallies that all stand at n.
Fresh(n, corrupt, resets) ==
  [rx_crc |-> n, rx_length |-> n, rx_missed |-> n, tx_carrier |-> n,
   corrupt |-> corrupt, resets |-> resets]

Init ==
  /\ conf \in Confs
  /\ link = [up |-> TRUE, speed |-> conf.speed, changes |-> 2]
  /\ hw = [s \in Side |-> Fresh(conf.nic[s].base, 0, 0)]
  /\ mon = [s \in Side |-> NewMonitor(link)]
  /\ plan = [phase |-> "base", step |-> 1, err |-> FALSE]
  /\ res = [link |-> [s \in Side |-> Absent], initial |-> [s \in Side |-> Absent],
            final |-> [s \in Side |-> Absent], ping |-> << >>, fullSizePing |-> << >>,
            tcp |-> << >>, udp |-> << >>, bidir |-> Absent, cable |-> Absent, skipped |-> {},
            udpRateAssumed |-> FALSE, incomplete |-> FALSE, cycles |-> 0]
  /\ kept = Absent
  /\ window = [s \in Side |-> [from |-> Absent, to |-> Absent]]
  /\ report = Absent
  /\ faults = IF conf.speed < 1000 THEN {Fault("reduced", 0, 0)} ELSE {}
  /\ spent = 0

-----------------------------------------------------------------------------
(* The world between the steps.                                            *)

WorldMoves == plan.phase # "done" /\ UNCHANGED <<conf, mon, plan, res, kept, window, report>>

\* Frames arrive damaged.
Corrupt(s, key, n) ==
  /\ WorldMoves /\ plan.phase = "base" /\ Happens(key) /\ BlameWorld(key)
  /\ hw' = [hw EXCEPT ![s][key] = @ + n, ![s].corrupt = @ + n]
  /\ UNCHANGED link

\* The host is too slow to empty its receive ring.
RingDrop(s, n) ==
  /\ WorldMoves /\ plan.phase = "base" /\ Happens("ring")
  /\ hw' = [hw EXCEPT ![s].rx_missed = @ + n]
  /\ UNCHANGED <<link, faults>>

\* The driver starts its tallies again.
Reset(s) ==
  /\ WorldMoves /\ plan.phase = "base" /\ Happens("reset")
  /\ hw' = [hw EXCEPT ![s] = Fresh(0, hw[s].corrupt, hw[s].resets + 1)]
  /\ UNCHANGED <<link, faults>>

\* Bounded: the cable itself loses the carrier once in a run.
LinkDown ==
  /\ WorldMoves /\ link.up /\ Fault("carrier", 0, 0) \notin faults
  /\ Happens("carrier") /\ BlameWorld("carrier")
  /\ link' = [link EXCEPT !.up = FALSE, !.changes = @ + 1]
  /\ UNCHANGED hw

LinkUp ==
  /\ WorldMoves /\ ~link.up
  /\ link' = [link EXCEPT !.up = TRUE, !.changes = @ + 1]
  /\ UNCHANGED <<hw, faults, spent>>

Renegotiate ==
  /\ WorldMoves /\ link.up /\ link.speed = 1000 /\ Happens("speed") /\ BlameWorld("speed")
  /\ link' = [link EXCEPT !.speed = 100]
  /\ UNCHANGED hw

\* The monitor's ticker; it is stopped before the report is assembled.
Poll(s) ==
  /\ plan.phase \notin {"rendering", "done"} /\ PollSees(mon[s], link)
  /\ mon' = [mon EXCEPT ![s] = pollLocked(@, link)]
  /\ UNCHANGED <<conf, link, hw, plan, res, kept, window, report, faults, spent>>

-----------------------------------------------------------------------------
(* The steps.                                                              *)

\* The preflight and the link step read the same settings; PC1 cannot go on
\* without its own.
stepLink ==
  /\ At("link") /\ Unmoved
  /\ \E n \in May(DOMAIN LinkReadings), o \in May({"clean", "unavailable", "failed"}) :
       LET r == [res EXCEPT !.link.PC1 = LinkReadings[n]]
       IN /\ Reachable(o) /\ Spend(<<n, o>>) /\ Blame({n})
          /\ Ends(CASE o = "clean" -> [r EXCEPT !.link.PC2 = LinkReadings[n]]
                    [] o = "unavailable" -> recordSkippedTest(r, "link_settings", o)
                    [] o = "failed" -> r, o)

\* Local side first; the worker's may be unavailable.
snapshotCounters(r, into, o) ==
  LET local == [r EXCEPT ![into].PC1 = Snapshot("PC1")]
  IN CASE o = "clean" -> [local EXCEPT ![into].PC2 = Snapshot("PC2")]
       [] o = "unavailable" -> recordSkippedTest(local, "counters", o)
       [] o = "failed" -> local
       [] o = "stopFailed" -> r      \* PC1's own snapshot failed

CounterOutcomes == {"clean", "unavailable", "failed", "stopFailed"}

stepCounters(name, into) ==
  /\ At(name) /\ Unmoved /\ UNCHANGED faults
  /\ \E o \in May(CounterOutcomes) :
       /\ Reachable(o) \/ o = "stopFailed"
       /\ Spend(<<o>>) /\ Ends(snapshotCounters(res, into, o), o)
stepInitialCounters == stepCounters("initial", "initial")
stepFinalCounters == stepCounters("final", "final")

\* Both directions of a ping test; PC1's own failure is the step's.
PingBoth(field, test, names) ==
  \E n1 \in May(names), n2 \in May(names), o \in May({"clean", "unavailable", "failed"}) :
    LET r1 == Recorded(res, field, test, "PC1", "clean", Pings[n1], << >>)
    IN /\ Reachable(o) /\ (o = "clean" \/ n2 = "clean")
       /\ Spend(<<n1, n2, o>>) /\ Blame({n1, n2})
       /\ Ends(Recorded(r1, field, test, "PC2", o, Pings[n2], << >>), o)
LocalFails == Happens("failed") /\ UNCHANGED faults /\ Ends(res, "failed")

stepPing ==
  At("ping") /\ Unmoved
  /\ (PingBoth("ping", "ping", {"clean", "trickle", "lossy", "unsteady"}) \/ LocalFails)
stepFullSizePing ==
  At("full") /\ Unmoved
  /\ (PingBoth("fullSizePing", "full_size_ping", {"clean", "lossy", "fragmented"}) \/ LocalFails)

\* One TCP trial.  Forward, the worker hosts the server (withRemoteServer);
\* in reverse its client sends, and there is no server of its to stop.
TCPPhase(dir, outcomes) ==
  \E o \in May(outcomes), n \in May(DOMAIN Trials) :
    /\ Reachable(o) /\ (o = "clean" \/ n = "clean")
    /\ Spend(<<o, n>>) /\ Blame({n})
    /\ Ends(Recorded(res, "tcp", "tcp", dir, o, Trials[n], PartialTrial), o)
stepTCPForward == At("tcpF") /\ Unmoved /\ TCPPhase("PC1", Outcomes)
stepTCPReverse == At("tcpR") /\ Unmoved /\ TCPPhase("PC2", Outcomes \ {"stopFailed"})

\* One bidirectional run against the worker's server (withRemoteServer).
WithBidir(r, cpu) == [r EXCEPT !.bidir = [host |-> cpu, remote |-> cpu]]
bidirNative ==
  \E o \in May(Outcomes), n \in May({"clean", "hot"}) :
    /\ Reachable(o) /\ (o = "clean" \/ n = "clean") /\ Spend(<<o, n>>)
    /\ Ends(CASE o \in {"clean", "stopFailed"} -> WithBidir(res, Trials[n].host)
              [] o \in {"unavailable", "unreachable"} -> recordSkippedTest(res, "bidirectional", o)
              [] o = "partial" -> WithBidir(res, 0)
              [] o = "failed" -> res, o)

\* Two one-way runs at once, a server on each side.  Whatever becomes of the
\* two clients a result is kept, with the load of PC1's if that one was whole.
bidirFallback(caps) ==
  LET Skipped(r, o) == IF o \in {"unavailable", "unreachable"}
                       THEN recordSkippedTest(r, "bidirectional", o) ELSE r
  IN \/ /\ link.up /\ "unavailable" \in conf.may /\ Spend(<<caps, "unavailable">>)
        /\ Ends(Skipped(res, "unavailable"), "unavailable")
     \/ \E own \in May({"clean", "unreachable", "partial", "failed"}),
          theirs \in May(Outcomes \ {"stopFailed"}),
          stop \in May({"clean", "stopFailed"}), n \in May({"clean", "hot"}) :
          /\ Reachable(own) /\ Reachable(theirs) /\ (own = "clean" \/ n = "clean")
          /\ Spend(<<caps, own, theirs, stop, n>>)
          /\ Ends(WithBidir(Skipped(Skipped(res, theirs), own),
                            IF own = "clean" THEN Trials[n].host ELSE 0),
                  IF {own, theirs, stop} \cap Errors = {} THEN "clean" ELSE "failed")

\* The worker is asked for its iperf3 first; without an answer, or when either
\* is too old, the test falls back to two runs.  Nothing is kept of a test
\* whose servers could not be started.
stepBidir ==
  /\ At("bidir") /\ Unmoved /\ UNCHANGED faults
  /\ \/ Happens("failed") /\ Ends(res, "failed")
     \/ conf.bidir /\ bidirNative
     \/ ~conf.bidir /\ bidirFallback("clean")
     \/ "unavailable" \in conf.may /\ bidirFallback("unavailable")

\* The lowest speed either end reported, 0 when neither did.
negotiatedBitrate(r) ==
  LET known == {r.link[s].speed : s \in {x \in Side : r.link[x] # Absent}} \ {0}
  IN IF known = {} THEN 0 ELSE Min(known)

AssumedRate == 100
udpRate(r) ==
  IF conf.udpRate > 0 THEN conf.udpRate
  ELSE IF negotiatedBitrate(r) = 0 THEN AssumedRate
  ELSE (negotiatedBitrate(r) * 80) \div 100
reducedRate(rate) == (rate * 50) \div 100

\* Loss at a rate the operator asked for and the link cannot carry is not
\* the cable's.
UDPBlame(names, rate) ==
  Blame(IF rate * 100 > link.speed * 95 THEN {} ELSE names)

\* The reverse run is not tried when the worker could not serve the forward one.
stepUDPAtRate(rate) ==
  \E o1 \in May(Outcomes), o2 \in May(Outcomes \ {"stopFailed"}),
     n1 \in May(DOMAIN UDPRuns(rate)), n2 \in May(DOMAIN UDPRuns(rate)) :
    LET r0 == [res EXCEPT !.udpRateAssumed = @ \/ (conf.udpRate = 0 /\ negotiatedBitrate(res) = 0)]
        r1 == Recorded(r0, "udp", "udp", "PC1", o1, UDPRuns(rate)[n1], PartialUDP(rate))
        r2 == Recorded(r1, "udp", "udp", "PC2", o2, UDPRuns(rate)[n2], PartialUDP(rate))
        over == o1 \in Errors \cup {"unavailable"}
    IN /\ Reachable(o1) /\ Reachable(o2)
       /\ (o1 = "clean" \/ n1 = "clean") /\ (o2 = "clean" \/ n2 = "clean")
       /\ over => o2 = "clean" /\ n2 = "clean"
       /\ Spend(<<o1, n1, o2, n2>>)
       /\ UDPBlame({n1, n2}, rate)
       /\ IF over THEN Ends(r1, o1) ELSE Ends(r2, o2)
stepUDP == At("udp") /\ Unmoved /\ stepUDPAtRate(udpRate(res))
stepReducedUDP == At("udpReduced") /\ Unmoved /\ stepUDPAtRate(reducedRate(udpRate(res)))

-----------------------------------------------------------------------------
(* Soak: whole cycles until the budget is spent.                           *)

\* The cycle's own results start empty and join the run's when it is whole;
\* here they are written over the run's, of which kept is the copy.
cycleCounters ==
  /\ At("cycle") /\ UNCHANGED <<conf, link, hw, mon, window, report, faults>>
  /\ \E o \in May(CounterOutcomes) :
       /\ Reachable(o) \/ o = "stopFailed"
       /\ Spend(<<o>>) /\ kept' = res
       /\ Ends(IF o = "unavailable" THEN recordSkippedTest(res, "counters", o) ELSE res, o)

\* The closing snapshot belongs to the cycle: without it there is none.  Then
\* either the deadline has passed or, after the gap, another cycle starts.
commitCycle ==
  /\ At("cycleEnd") /\ UNCHANGED <<conf, link, hw, mon, window, report, faults>>
  /\ \E o \in May(CounterOutcomes), again \in BOOLEAN :
       /\ Reachable(o) \/ o = "stopFailed"
       /\ Spend(<<o>>)
       /\ again => o \notin Errors /\ res.cycles + 1 < MaxCycles
       /\ LET r == IF o = "unavailable" THEN recordSkippedTest(res, "counters", o) ELSE res
          IN IF o \in Errors THEN Ends(r, o) /\ UNCHANGED kept
             ELSE /\ res' = [r EXCEPT !.cycles = @ + 1, !.incomplete = kept.incomplete]
                  /\ kept' = Absent
                  /\ plan' = IF again THEN [plan EXCEPT !.step = CycleStart]
                                      ELSE [plan EXCEPT !.phase = "boundary"]

\* Mutant: the cut cycle is counted as a whole one.
BudgetCountsCycle ==
  /\ InCycle
  /\ res' = [kept EXCEPT !.cycles = @ + 1] /\ UNCHANGED kept
  /\ plan' = [plan EXCEPT !.phase = "boundary"]
  /\ UNCHANGED <<conf, link, hw, mon, window, report, faults, spent>>

\* The budget's context ends the step in hand: an unfinished cycle is dropped,
\* and this is no error.
BudgetExpires ==
  /\ InCycle
  /\ res' = kept /\ kept' = Absent
  /\ plan' = [plan EXCEPT !.phase = "boundary"]
  /\ UNCHANGED <<conf, link, hw, mon, window, report, faults, spent>>

-----------------------------------------------------------------------------
(* The final snapshots of a soak and of an aborted plan.                   *)

\* The worker is asked through the call that arms no timer; any answer but a
\* good one leaves its snapshot out.
Detached == {"clean", "remoteLost", "localFailed"}
SnapshotDetached(o) ==
  CASE o = "clean" -> [s \in Side |-> Snapshot(s)]
    [] o = "remoteLost" -> [s \in Side |-> IF s = "PC1" THEN Snapshot(s) ELSE Absent]
    [] o = "localFailed" -> [s \in Side |-> Absent]

\* Always taken, by defer; when it fails the soak has failed.
snapshotCountersDetached ==
  /\ plan.phase = "boundary" /\ Unmoved /\ UNCHANGED faults
  /\ \E o \in Detached :
       /\ link.up \/ o # "clean"
       /\ IF plan.err \/ o = "clean" THEN UNCHANGED spent ELSE Happens("failed")
       /\ res' = [res EXCEPT !.final = SnapshotDetached(o), !.incomplete = @ \/ o # "clean"]
       /\ plan' = IF plan.err \/ o # "clean" THEN [plan EXCEPT !.phase = "finish", !.err = TRUE]
                                              ELSE AfterBase(plan)

\* An aborted plan has one more look at the counters, if there is a baseline
\* to compare with and the final snapshots were not begun.
salvageFinalCounters ==
  /\ plan.phase = "salvage" /\ Unmoved /\ UNCHANGED <<faults, spent>>
  /\ plan' = [plan EXCEPT !.phase = "finish"]
  /\ IF (\E s \in Side : res.final[s] # Absent) \/ ~HasCounters(res.initial.PC1)
     THEN res' = res
     ELSE \E o \in Detached :
            /\ link.up \/ o # "clean"
            /\ HasCounters(res.initial.PC2) \/ o # "clean"
            /\ res' = [res EXCEPT !.final = SnapshotDetached(o)]

-----------------------------------------------------------------------------
(* The cable diagnostics, after the plan and its final counters.           *)

CableResult(available, pairs, tdrMissing) ==
  [available |-> available, pairs |-> pairs, tdrMissing |-> tdrMissing,
   selfInflicted |-> [s \in Side |-> 0]]

OpenWindow(s) ==
  /\ mon' = [mon EXCEPT ![s] = SetCableTestWindow(@, TRUE, link)]
  /\ window' = [window EXCEPT ![s].from = link.changes]
CloseWindow(s) ==
  /\ mon' = [mon EXCEPT ![s] = SetCableTestWindow(@, FALSE, link)]
  /\ window' = [window EXCEPT ![s].to = link.changes]

\* Without the worker's consent there is no test, and no error either.
CableWindowStart ==
  /\ plan.phase = "cable" /\ UNCHANGED <<conf, link, hw, kept, report, faults>>
  /\ \/ /\ link.up /\ OpenWindow("PC2")
        /\ plan' = [plan EXCEPT !.phase = "begin"]
        /\ UNCHANGED <<res, spent>>
     \/ /\ Happens("failed")
        /\ res' = [res EXCEPT !.cable = CableResult(FALSE, {}, FALSE)]
        /\ plan' = [plan EXCEPT !.phase = "finish"]
        /\ UNCHANGED <<mon, window>>

BeginWindow ==
  /\ plan.phase = "begin" /\ OpenWindow("PC1")
  /\ plan' = [plan EXCEPT !.phase = "testing"]
  /\ UNCHANGED <<conf, link, hw, res, kept, report, faults, spent>>

\* ethtool takes the link down to measure the pairs.
TesterTakesLinkDown ==
  /\ plan.phase = "testing" /\ link.up
  /\ link' = [link EXCEPT !.up = FALSE, !.changes = @ + 1]
  /\ plan' = [plan EXCEPT !.phase = "measuring"]
  /\ UNCHANGED <<conf, hw, mon, res, kept, window, report, faults, spent>>

PairResults == [clean |-> {"ok"}, open |-> {"ok", "open"}, impedance |-> {"impedance"}]
CableTesterRun ==
  /\ plan.phase \in {"testing", "measuring"} /\ UNCHANGED <<conf, link, hw, mon, kept, window, report>>
  /\ \/ \E n \in May(DOMAIN PairResults), tdr \in May({"clean", "unavailable", "failed"}) :
          /\ Spend(<<n, tdr>>) /\ Blame({n})
          /\ res' = [res EXCEPT !.cable = CableResult(TRUE, PairResults[n], tdr = "unavailable")]
          /\ plan' = IF tdr = "failed" THEN [plan EXCEPT !.phase = "close", !.err = TRUE]
                                       ELSE [plan EXCEPT !.phase = "end"]
     \/ /\ Happens("unavailable") /\ UNCHANGED faults   \* no root, or not supported
        /\ res' = [res EXCEPT !.cable = CableResult(FALSE, {}, FALSE)]
        /\ plan' = [plan EXCEPT !.phase = "end"]
     \/ /\ Happens("failed") /\ UNCHANGED faults        \* the command could not be run
        /\ res' = [res EXCEPT !.cable = CableResult(FALSE, {}, FALSE)]
        /\ plan' = [plan EXCEPT !.phase = "close", !.err = TRUE]

\* The worker ends its window and says what it counted; if the link does not
\* come back in time the local result stands alone.
CableWindowEnd ==
  /\ plan.phase = "end" /\ UNCHANGED <<conf, link, hw, kept, report>>
  /\ plan' = [plan EXCEPT !.phase = "close"]
  /\ \/ /\ link.up /\ CloseWindow("PC2")
        /\ res' = [res EXCEPT !.cable.selfInflicted.PC2 = mon'["PC2"].windowEvents]
        /\ UNCHANGED <<faults, spent>>
     \/ /\ Happens("failed")
        /\ UNCHANGED <<mon, window, res, faults>>

\* A link that is still down then, because the command died or the worker did
\* not answer, comes back outside the window.
EndWindow ==
  /\ plan.phase = "close" /\ CloseWindow("PC1")
  /\ res' = [res EXCEPT !.cable.selfInflicted.PC1 = mon'["PC1"].windowEvents]
  /\ plan' = [plan EXCEPT !.phase = "finish"]
  /\ UNCHANGED <<conf, link, hw, kept, report, faults, spent>>

-----------------------------------------------------------------------------
(* The report.                                                             *)

\* PC2's NIC is known from its capabilities, once the session hands them over.
peerReportFromCaps(c, known) ==
  [known |-> known, usb |-> known /\ c.nic.PC2.usb, virtual |-> known /\ c.nic.PC2.virtual,
   speed |-> IF known THEN c.speed
             ELSE IF res.link.PC2 = Absent THEN 0 ELSE res.link.PC2.speed,
   half |-> FALSE]

\* What a side reports after the run is never filled in.
assembleReport(failure, capsKnown, events) ==
  [ initial |-> res.initial, final |-> res.final, ping |-> res.ping,
    fullSizePing |-> res.fullSizePing, tcp |-> res.tcp, udp |-> res.udp, bidir |-> res.bidir,
    cable |-> res.cable, skipped |-> res.skipped, udpRateAssumed |-> res.udpRateAssumed,
    partial |-> res.incomplete \/ failure, events |-> events,
    mode |-> conf.mode, repeats |-> IF conf.mode = "quick" THEN 1 ELSE Repeats,
    cycles |-> res.cycles,
    link |-> [s \in Side |-> [before |-> res.link[s], after |-> Absent]],
    nic |-> [PC1 |-> [known |-> TRUE, usb |-> conf.nic.PC1.usb, virtual |-> conf.nic.PC1.virtual,
                      speed |-> conf.speed, half |-> FALSE],
             PC2 |-> peerReportFromCaps(conf, capsKnown)] ]

\* Mutant: the provisional rendering is marked partial.
FinalizePartialFirst(failure, capsKnown, events, final) ==
  report' = LET verdict == evaluate(assembleReport(failure \/ ~final, capsKnown, events))
            IN [final |-> final, class |-> verdict.class, score |-> verdict.score,
                findings |-> verdict.findings]

finalize(failure, capsKnown, events, final) ==
  report' = LET verdict == evaluate(assembleReport(failure, capsKnown, events))
            IN [final |-> final, class |-> verdict.class, score |-> verdict.score,
                findings |-> verdict.findings]

\* A plan that succeeded stops the monitor, with a last poll, and renders
\* before the session says complete.
renderProvisional ==
  /\ plan.phase = "finish" /\ ~plan.err
  /\ mon' = [mon EXCEPT !.PC1 = pollLocked(@, link)]
  /\ finalize(FALSE, FALSE, mon'.PC1.history, FALSE)
  /\ plan' = [plan EXCEPT !.phase = "rendering"]
  /\ UNCHANGED <<conf, link, hw, res, kept, window, faults, spent>>

PrepareComplete ==
  /\ plan.phase = "rendering"
  /\ finalize(FALSE, TRUE, mon.PC1.history, TRUE)
  /\ plan' = [plan EXCEPT !.phase = "done"]
  /\ UNCHANGED <<conf, link, hw, mon, res, kept, window, faults, spent>>

\* A failed plan, or a session that fails after a good one, is rendered as
\* partial.
finishCoordinator ==
  /\ \/ plan.phase = "finish" /\ plan.err /\ UNCHANGED spent
     \/ plan.phase = "rendering" /\ Happens("failed")
  /\ mon' = [mon EXCEPT !.PC1 = IF plan.phase = "finish" THEN pollLocked(@, link) ELSE @]
  /\ finalize(TRUE, TRUE, mon'.PC1.history, TRUE)
  /\ plan' = [plan EXCEPT !.phase = "done", !.err = TRUE]
  /\ UNCHANGED <<conf, link, hw, res, kept, window, faults>>

Over == plan.phase = "done" /\ UNCHANGED vars

-----------------------------------------------------------------------------
Corruptions == {<<"rx_crc", 1>>, <<"rx_crc", 11>>, <<"rx_length", 11>>}
World ==
  \/ LinkDown \/ LinkUp \/ Renegotiate
  \/ \E s \in Side : Reset(s) \/ Poll(s) \/ RingDrop(s, 5) \/ RingDrop(s, 200)
  \/ \E s \in Side, c \in Corruptions : Corrupt(s, c[1], c[2])
Plan ==
  \/ stepLink \/ stepInitialCounters \/ stepPing \/ stepFullSizePing \/ stepTCPForward
  \/ stepTCPReverse \/ stepBidir \/ stepUDP \/ stepReducedUDP \/ stepFinalCounters
  \/ cycleCounters \/ commitCycle \/ BudgetExpires
  \/ snapshotCountersDetached \/ salvageFinalCounters
  \/ CableWindowStart \/ BeginWindow \/ TesterTakesLinkDown \/ CableTesterRun
  \/ CableWindowEnd \/ EndWindow
  \/ renderProvisional \/ PrepareComplete \/ finishCoordinator \/ Over
Next == World \/ Plan

Spec == Init /\ [][Next]_vars

-----------------------------------------------------------------------------
(* Properties.                                                             *)

Final == report # Absent /\ report.final
Convicts == Final /\ report.class \in {"POOR", "FAILED"}
Classes == {"EXCELLENT", "GOOD", "WARNING", "POOR", "FAILED", "INCONCLUSIVE"}

\* Type invariant.
TypeOK ==
  /\ conf \in Confs /\ spent \in 0..MaxAnomalies
  /\ link.up \in BOOLEAN /\ link.speed \in Nat /\ link.changes \in Nat
  /\ plan.step \in 1..Len(StepsOf(conf)) /\ plan.err \in BOOLEAN
  /\ res.cycles \in 0..MaxCycles /\ res.incomplete \in BOOLEAN
  /\ kept # Absent => kept.cycles = res.cycles
  /\ report # Absent =>
       /\ report.class \in Classes
       /\ report.score \in (IF report.class = "INCONCLUSIVE" THEN {Absent} ELSE 0..100)

\* Whether both snapshots of a side exist, show the same counters and were not
\* separated by a reset of them.
Comparable(s) ==
  /\ res.initial[s] # Absent /\ res.final[s] # Absent
  /\ DOMAIN res.initial[s].std = DOMAIN res.final[s].std
  /\ res.initial[s].at.resets = res.final[s].at.resets
\* Whether both show a counter of damaged frames.
Measures(s) ==
  /\ res.initial[s] # Absent /\ res.final[s] # Absent
  /\ DOMAIN res.initial[s].std \cap DOMAIN res.final[s].std \cap rxErrorEvidenceKeys # {}

Ran(field, d) == \E i \in DOMAIN res[field] : res[field][i].dir = d
\* EXCELLENT is never said of a run that was cut short or left a test out:
\* both directions of every planned test ran and both ends could see damaged
\* frames (ruleLIM01..05 and the caps of classify over every way the plan's
\* steps can be skipped, fail or be thrown away).
CleanMeansMeasured ==
  Final /\ report.class = "EXCELLENT" =>
    /\ ~plan.err /\ ~res.incomplete
    /\ \A d \in Dir : Ran("ping", d) /\ Ran("tcp", d) /\ Ran("udp", d)
    /\ conf.mode # "soak" => res.bidir # Absent /\ \A d \in Dir : Ran("fullSizePing", d)
    /\ conf.cable => res.cable # Absent /\ res.cable.available /\ ~res.cable.tdrMissing
    /\ \A s \in Side : Measures(s)

Damage(s) == res.final[s].at.corrupt - res.initial[s].at.corrupt
CountsByCause(nic) == {"rx_crc", "rx_length"} \subseteq nic.exposed \cup nic.tracked
CountsDamage(nic) == CountsByCause(nic) \/ "rx_errors_total" \in nic.exposed \cup nic.tracked
\* Frames damaged between a side's two snapshots are never passed over, even
\* when the run was aborted and only the salvaged snapshot saw them: never
\* EXCELLENT or GOOD, and POOR or worse beyond ten of each cause where the NIC
\* counts them by cause (sideFacts, rulePHY02, rulePHY09, salvageFinalCounters).
CorruptionReported ==
  Final => \A s \in Side :
    Comparable(s) /\ CountsDamage(conf.nic[s]) /\ Damage(s) > 0 =>
      /\ report.class \notin {"EXCELLENT", "GOOD"}
      /\ report.class = "INCONCLUSIVE" => report.findings.HOST02 # None
      /\ Damage(s) > 20 /\ CountsByCause(conf.nic[s]) => Convicts

\* Between a side's two snapshots a driver that folds them in charged full
\* rings to the cable.
Recharged(s) ==
  /\ res.initial[s] # Absent /\ res.final[s] # Absent
  /\ conf.nic[s].folds /\ res.final[s].at.missed > res.initial[s].at.missed
\* PC1's window was closed on a link that the diagnostics had left down.
LeftDown == window.PC1.to # Absent /\ (window.PC1.to - window.PC1.from) % 2 = 1

\* Without a fault of the cable a run ends POOR or FAILED in two ways only:
\* full rings that the driver folds into its count of damaged frames, in a run
\* that also finds the host overloaded, and a link that the diagnostics left
\* down, when neither end has counters to go by.  Nothing else convicts it:
\* resets, full rings, busy hosts, missing tools, blocked ports, aborts at any
\* step, datagrams lost to an impossible rate, or the other link changes of the
\* diagnostics (HostExcuses, DeltaReliable, the windows).
NoFalseConviction ==
  faults = {} /\ Convicts =>
    \/ (\E s \in Side : Recharged(s)) /\ report.findings.HOST01 # None
    \/ LeftDown /\ \A s \in Side : ~Comparable(s)

\* One slow trial among several, over counters of both ends that could be
\* compared and took no full ring for damage, is a warning and not a conviction,
\* whatever else was skipped or thrown away (assessThroughput, lowerMedian,
\* expectedTCPTrials).
OneBadTrial ==
  /\ \A f, g \in faults : f = g /\ f.name = "slow"
  /\ conf.mode # "quick" /\ Repeats > 1
  /\ \A s \in Side : Comparable(s) /\ Measures(s) /\ ~Recharged(s)
  => ~Convicts

\* Each side's count of self-inflicted carrier changes is exactly what
\* happened between the two ends of its own window, whenever the monitor
\* polled and whatever the link did just before (SetCableTestWindow).
WindowAccounted ==
  Final /\ res.cable # Absent =>
    \A s \in Side : res.cable.selfInflicted[s] =
      IF window[s].to = Absent THEN 0 ELSE window[s].to - window[s].from

\* A carrier change between a side's two snapshots is found by PHY-03.
GenuineCarrierReported ==
  Final => \A s \in Side :
    Comparable(s) /\ res.final[s].at.changes > res.initial[s].at.changes =>
      report.findings.PHY03 # None

\* A report is never made to sound better by rendering it again: a later one
\* is clean only if the first was (finalize, peerReportFromCaps, LIM-03).
NeverUpgraded ==
  [][report # Absent /\ report'.class \in {"EXCELLENT", "GOOD"} => report'.class = report.class]_report

=============================================================================
