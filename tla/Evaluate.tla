------------------------------ MODULE Evaluate ------------------------------
(***************************************************************************)
(* The evaluator: from a report to facts, from facts to the findings of    *)
(* 33 rules, and from the findings to a health class and a score           *)
(* (internal/evaluate).  Every operator is a pure function of the report.  *)
(*                                                                         *)
(* A finding is its severity alone: Texts and evidence lines are left out. *)
(* Units are integers: losses in hundredths of a percent, rates per        *)
(* million, bitrates in Mbit/s, CPU in percent.  One counter stands for    *)
(* each class that the rules sum: rx_crc for the CRC class, rx_length for  *)
(* the frame-size class, rx_missed for the ring class, tx_carrier for the  *)
(* transmit-carrier class.                                                 *)
(***************************************************************************)
EXTENDS Integers, Sequences, FiniteSetsExt

CONSTANT Absent     \* a value that was not captured

Side == {"PC1", "PC2"}
\* A direction of traffic is named by its sender.
Dir == Side

\* model.Severity: a rule that passed finds nothing.
None == -1
SevInfo == 0
SevWarning == 1
SevPoor == 2
SevFailed == 3
SevMarker == 4

MaxOf(S) == Max(S \cup {0})
MinOf(a, b) == IF a < b THEN a ELSE b
\* What is left of n when m is taken away.
Minus(n, m) == IF n > m THEN n - m ELSE 0
WorstOf(S) == Max(S \cup {None})
\* The sum of g over those of the two sides that are in S.
SumOver(S, g) ==
  (IF "PC1" \in S THEN g["PC1"] ELSE 0) + (IF "PC2" \in S THEN g["PC2"] ELSE 0)

Default ==
  [ CRCPoorAbove |-> 10, CRCFailedAbove |-> 1000, CRCCorroboratingPingLossAbove |-> 100,
    CarrierFailedAt |-> 3, FrameSizePoorAbove |-> 10,
    CarrierPHYPoorAbove |-> 10, CarrierPHYFailedAbove |-> 1000,
    PingLossPoorAbove |-> 10, PingSpikesWarningAbove |-> 5, PingGapPoorAbove |-> 1000,
    TCPRetransWarningAt |-> 100, TCPRetransPoorAbove |-> 10000,
    UDPLossWarningAt |-> 50, UDPLossPoorAbove |-> 200,
    UDPJitterWarningAbove |-> 5, UDPReorderWarningAbove |-> 10,
    TCPCoVWarningAt |-> 15, TCPCoVPoorAbove |-> 30, TCPCollapsePoorAt |-> 3,
    TCPAsymmetryWarnAbove |-> 30, CPUHostLimitedAbove |-> 90, HostRingDropFloor |-> 100 ]

\* The least percentage of the negotiated speed for no finding, for an
\* informational one and for a warning; a slow link never passes in silence.
perfBands(speed) ==
  IF speed <= 100 THEN [PassAt |-> 90, InfoAt |-> 90, WarningAt |-> 70, PassDisabled |-> TRUE]
                  ELSE [PassAt |-> 90, InfoAt |-> 70, WarningAt |-> 40, PassDisabled |-> FALSE]

scoreBand(class) ==
  CASE class = "FAILED"    -> <<0, 25>>
    [] class = "POOR"      -> <<26, 50>>
    [] class = "WARNING"   -> <<51, 79>>
    [] class = "GOOD"      -> <<80, 94>>
    [] class = "EXCELLENT" -> <<95, 100>>

-----------------------------------------------------------------------------
(* Counters: snapshots, deltas and the facts of a side.                    *)

\* A counter that went backwards was reset or wrapped: no data.
CounterDelta(before, after) ==
  [delta |-> IF after < before THEN 0 ELSE after - before, ok |-> after >= before]

\* The deltas of the keys of both snapshots.
DeltaSet(before, after) ==
  IF before = Absent \/ after = Absent THEN << >>
  ELSE [k \in DOMAIN before.std \cap DOMAIN after.std |->
          CounterDelta(before.std[k], after.std[k])]

\* They are reliable when no key came or went and no counter wrapped.
DeltaReliable(before, after) ==
  /\ before # Absent /\ after # Absent
  /\ DOMAIN before.std = DOMAIN after.std
  /\ LET set == DeltaSet(before, after) IN \A k \in DOMAIN set : set[k].ok

sum(set, key) == IF key \in DOMAIN set /\ set[key].ok THEN set[key].delta ELSE 0

rxErrorEvidenceKeys == {"rx_crc", "rx_errors_total"}

\* What the driver's own aggregate counts beyond its per-cause counters.
unclassifiedRXErrors(set) ==
  Minus(sum(set, "rx_errors_total"), sum(set, "rx_crc") + sum(set, "rx_length"))

framesReceived(before, after) ==
  IF before = Absent \/ after = Absent THEN 0
  ELSE CounterDelta(before.packets, after.packets).delta

HasCounters(snap) == snap # Absent /\ DOMAIN snap.std # {}

sideFacts(before, after, selfInflicted) ==
  LET set == DeltaSet(before, after)
      available == HasCounters(before) /\ HasCounters(after)
  IN [ CRCClassErrors       |-> sum(set, "rx_crc"),
       UnclassifiedRXErrors |-> unclassifiedRXErrors(set),
       CarrierEvents        |-> Minus(sum(set, "link_resets"), selfInflicted),
       JabberSizeErrors     |-> sum(set, "rx_length"),
       RingDrops            |-> sum(set, "rx_missed"),
       FramesReceived       |-> framesReceived(before, after),
       CarrierPHYErrors     |-> sum(set, "tx_carrier"),
       DeltaOK              |-> DeltaReliable(before, after) /\ available,
       CountersAvailable    |-> available,
       RXErrorEvidence      |-> rxErrorEvidenceKeys \cap DOMAIN set # {} ]

-----------------------------------------------------------------------------
(* Measurements of a direction.                                            *)

\* The measurements of a direction, as indices of s.
Of(s, d) == {i \in DOMAIN s : s[i].dir = d}
Field(s, I, f) == {s[i].m[f] : i \in I}
CPU(s, I) == Field(s, I, "host") \cup Field(s, I, "remote")

\* The middle one of the values of f, the lower of two.
lowerMedian(s, I, f) ==
  LET half == (Cardinality(I) - 1) \div 2
  IN IF I = {} THEN 0
     ELSE CHOOSE x \in Field(s, I, f) :
            /\ Cardinality({i \in I : s[i].m[f] < x}) <= half
            /\ Cardinality({i \in I : s[i].m[f] <= x}) > half

\* quick and standard repeat a direction; soak does so in every whole cycle.
expectedTCPTrials(r) == IF r.mode = "soak" THEN r.repeats * r.cycles ELSE r.repeats

throughputShortfall(measured, negotiated) ==
  negotiated > 0 /\ measured * 100 < negotiated * perfBands(negotiated).PassAt

\* One incomplete or missing repeat withdraws the whole direction.
tcpFacts(tcp, d, expected, negotiated) ==
  LET trials == Of(tcp, d)
      whole  == {i \in trials : ~tcp[i].m.incomplete}
      used   == IF whole # trials \/ Cardinality(trials) < expected THEN {} ELSE whole
      counted == {i \in used : tcp[i].m.retrans # Absent}
  IN [ TCPAvailable            |-> used # {},
       TCPTrialCount           |-> Cardinality(used),
       TCPThroughputDeviations |->
         Cardinality({i \in used : throughputShortfall(tcp[i].m.bps, negotiated)}),
       TCPBitrate              |-> lowerMedian(tcp, used, "bps"),
       TCPRetransRate          |-> lowerMedian(tcp, counted, "retrans"),
       TCPRetransRateWorst     |-> MaxOf(Field(tcp, counted, "retrans")),
       TCPCoV                  |-> lowerMedian(tcp, used, "cov"),
       TCPCollapses            |-> MaxOf(Field(tcp, used, "collapses")),
       TCPMaxCPUPct            |-> MaxOf(CPU(tcp, used)),
       TCPSenderMaxCPUPct      |-> MaxOf(Field(tcp, used, "host")) ]

\* A UDP run that missed its target rate, or asked for nearly the whole link,
\* shows that UDP ran and nothing else.
Qualifies(u, negotiated) ==
  /\ u.target > 0 /\ u.actual * 100 >= u.target * 90
  /\ ~(negotiated > 0 /\ u.target * 100 > negotiated * 95)
udpFacts(udp, d, negotiated) ==
  LET qualifying == {i \in Of(udp, d) : Qualifies(udp[i].m, negotiated)}
  IN [ UDPAvailable     |-> Of(udp, d) # {},
       UDPTargetReached |-> qualifying # {},
       UDPLossPct       |-> MaxOf(Field(udp, qualifying, "loss")),
       UDPJitterMs      |-> MaxOf(Field(udp, qualifying, "jitter")),
       UDPOutOfOrderPct |-> MaxOf(Field(udp, qualifying, "reorder")),
       UDPMaxCPUPct     |-> MaxOf(CPU(udp, qualifying)) ]

pingFacts(ping, fullSize, d) ==
  LET pings == Of(ping, d)
      full  == Of(fullSize, d)
  IN [ PingLossPct       |-> MaxOf(Field(ping, pings, "loss")),
       PingDuplicates    |-> MaxOf(Field(ping, pings, "dups")),
       PingSpikes        |-> MaxOf(Field(ping, pings, "spikes")),
       PingMaxGap        |-> MaxOf(Field(ping, pings, "gap")),
       FullSizeAvailable |-> full # {},
       FullSizeLossPct   |-> MaxOf(Field(fullSize, full, "loss")),
       FragErrors        |-> MaxOf(Field(fullSize, full, "frag")) ]

-----------------------------------------------------------------------------
(* The link, the machines and the coverage of the run.                     *)

\* The endpoints in the order they are consulted; what a side reports after
\* the run is left empty by every plan.
Endpoints(link) == <<link.PC1.before, link.PC2.before, link.PC1.after, link.PC2.after>>

negotiatedSpeed(r) ==
  LET ends == Endpoints(r.link)
      known == {i \in DOMAIN ends : ends[i] # Absent /\ ends[i].speed > 0}
  IN IF known # {} THEN ends[Min(known)].speed
     ELSE IF r.nic.PC1.speed > 0 THEN r.nic.PC1.speed ELSE r.nic.PC2.speed

\* The best speed both ends can do: what PC1 supports, and what its partner
\* advertises, or what PC2 says of itself (it advertises all it supports).
expectedSpeed(r) ==
  LET own == IF r.link.PC1.before = Absent THEN 0 ELSE r.link.PC1.before.supported
      partner == IF r.link.PC1.before # Absent /\ r.link.PC1.before.partner > 0
                 THEN r.link.PC1.before.partner
                 ELSE IF r.link.PC2.before = Absent THEN 0 ELSE r.link.PC2.before.supported
  IN IF own = 0 \/ partner = 0 THEN 0 ELSE MinOf(own, partner)

halfDuplex(r) ==
  \/ LET ends == Endpoints(r.link) IN \E i \in DOMAIN ends : ends[i] # Absent /\ ends[i].half
  \/ \E s \in Side : r.nic[s].half

linkUpAtEnd(r) == \A s \in Side : r.link[s].after = Absent \/ r.link[s].after.up

\* Events of the diagnostics' own window are no evidence.
EventCount(events, types) ==
  Cardinality({i \in DOMAIN events : ~events[i].selfInflicted /\ events[i].type \in types})
renegotiations(r) == EventCount(r.events, {"renegotiation", "speed_changed"})
monitorCarrierTransitions(r) == EventCount(r.events, {"carrier_lost", "carrier_restored"})

maxCPUPct(r) ==
  MaxOf(CPU(r.tcp, {i \in DOMAIN r.tcp : ~r.tcp[i].m.incomplete}) \cup CPU(r.udp, DOMAIN r.udp)
        \cup (IF r.bidir = Absent THEN {} ELSE {r.bidir.host, r.bidir.remote}))

virtualNIC(nic) == nic.known /\ nic.virtual

throughputUnreachable(r) == \E x \in r.skipped : x.reason = "unreachable"

unavailableTests(r) ==
  {x.name : x \in r.skipped}
  \cup (IF r.cable = Absent THEN {}
        ELSE IF ~r.cable.available THEN {"cable_test"}
        ELSE IF r.cable.tdrMissing THEN {"cable_test_tdr"} ELSE {})

factsFromReport(r) ==
  LET speed == negotiatedSpeed(r)
      window(s) == IF r.cable = Absent THEN 0 ELSE r.cable.selfInflicted[s]
      available == r.cable # Absent /\ r.cable.available
  IN [ side |-> [s \in Side |-> sideFacts(r.initial[s], r.final[s], window(s))],
       tcp  |-> [d \in Dir |-> tcpFacts(r.tcp, d, expectedTCPTrials(r), speed)],
       udp  |-> [d \in Dir |-> udpFacts(r.udp, d, speed)],
       ping |-> [d \in Dir |-> pingFacts(r.ping, r.fullSizePing, d)],
       NegotiatedSpeed |-> speed,
       ExpectedSpeed   |-> expectedSpeed(r),
       HalfDuplex      |-> halfDuplex(r),
       LinkUpAtEnd     |-> linkUpAtEnd(r),
       Renegotiations  |-> renegotiations(r),
       MonitorCarrierTransitions |-> monitorCarrierTransitions(r),
       CablePairs      |-> IF available THEN r.cable.pairs ELSE {},
       MaxCPUPct       |-> maxCPUPct(r),
       USBAdapter      |-> \E s \in Side : r.nic[s].known /\ r.nic[s].usb,
       VirtualInterface |-> \E s \in Side : virtualNIC(r.nic[s]),
       Partial         |-> r.partial,
       UDPRateAssumed  |-> r.udpRateAssumed,
       Unavailable     |-> unavailableTests(r),
       ThroughputUnreachable |-> throughputUnreachable(r) ]

-----------------------------------------------------------------------------
(* The physical rules.                                                     *)

\* A side whose deltas are unreliable contributes nothing.
Reliable(f) == {s \in Side : f.side[s].DeltaOK}
sumReliableSides(f, field) == SumOver(Reliable(f), [s \in Side |-> f.side[s][field]])

unclassifiedRXTotal(f) == sumReliableSides(f, "UnclassifiedRXErrors")
\* Mutant: what only the driver's aggregate shows is left out.
CRCByCause(f) == sumReliableSides(f, "CRCClassErrors")
crcTotal(f) == sumReliableSides(f, "CRCClassErrors") + unclassifiedRXTotal(f)
carrierPHYTotal(f) == sumReliableSides(f, "CarrierPHYErrors")
jabberTotal(f) == sumReliableSides(f, "JabberSizeErrors")

\* Both ends see the same transition, so the worse one counts; without any
\* reliable counters the link monitor's record stands in.
carrierEvents(f) ==
  IF Reliable(f) # {} THEN MaxOf({f.side[s].CarrierEvents : s \in Reliable(f)})
                      ELSE f.MonitorCarrierTransitions

anyPingLossOver(f, pct) == \E d \in Dir : f.ping[d].PingLossPct > pct

phy06cond(f) ==
  f.NegotiatedSpeed > 0 /\ f.ExpectedSpeed > 0 /\ f.NegotiatedSpeed < f.ExpectedSpeed

\* The severity of the highest boundary a positive total has crossed.
Graded(total, poorAbove, failedAbove) ==
  IF total = 0 THEN None
  ELSE IF total > failedAbove THEN SevFailed
  ELSE IF total > poorAbove THEN SevPoor
  ELSE SevWarning
NoBoundary == 1000000000
When(cond, sev) == IF cond THEN sev ELSE None

rulePHY01(f) == When(~f.LinkUpAtEnd, SevFailed)

\* What only a driver's aggregate shows stays a warning whatever the count,
\* unless packets were lost as well.
rulePHY02(f) ==
  LET total == crcTotal(f)
      lossy == anyPingLossOver(f, Default.CRCCorroboratingPingLossAbove)
  IN IF total > Default.CRCPoorAbove /\ lossy THEN SevFailed
     ELSE IF total > 0 /\ total = unclassifiedRXTotal(f) THEN SevWarning
     ELSE Graded(total, Default.CRCPoorAbove, Default.CRCFailedAbove)

rulePHY03(f) ==
  When(carrierEvents(f) > 0,
       IF carrierEvents(f) >= Default.CarrierFailedAt THEN SevFailed ELSE SevPoor)
rulePHY04(f) == When(f.Renegotiations > 0, SevPoor)
rulePHY05(f) == When(f.HalfDuplex, SevPoor)
rulePHY06(f) ==
  When(phy06cond(f), IF 2 * f.NegotiatedSpeed <= f.ExpectedSpeed THEN SevPoor ELSE SevWarning)
rulePHY07(f) == When(phy06cond(f) /\ crcTotal(f) > 0, SevPoor)
rulePHY08(f) ==
  WorstOf({CASE status \in {"open", "short"}  -> SevFailed
             [] status = "impedance"          -> SevPoor
             [] status = "unspecified"        -> SevWarning
             [] OTHER                         -> None : status \in f.CablePairs})
rulePHY09(f) == Graded(jabberTotal(f), Default.FrameSizePoorAbove, NoBoundary)
rulePHY10(f) ==
  When(crcTotal(f) > 0 /\ \E d \in Dir : f.udp[d].UDPLossPct > Default.UDPLossPoorAbove,
       SevFailed)
rulePHY11(f) ==
  Graded(carrierPHYTotal(f), Default.CarrierPHYPoorAbove, Default.CarrierPHYFailedAbove)

PhysicalRules(f) ==
  [ PHY01 |-> rulePHY01(f), PHY02 |-> rulePHY02(f), PHY03 |-> rulePHY03(f),
    PHY04 |-> rulePHY04(f), PHY05 |-> rulePHY05(f), PHY06 |-> rulePHY06(f),
    PHY07 |-> rulePHY07(f), PHY08 |-> rulePHY08(f), PHY09 |-> rulePHY09(f),
    PHY10 |-> rulePHY10(f), PHY11 |-> rulePHY11(f) ]

-----------------------------------------------------------------------------
(* The transport rules.                                                    *)

ruleTR01(f) ==
  WorstOf({Graded(f.ping[d].PingLossPct, Default.PingLossPoorAbove, NoBoundary) : d \in Dir})
ruleTR02(f) ==
  When(\E d \in Dir : f.ping[d].FullSizeLossPct > 0 /\ f.ping[d].PingLossPct = 0, SevPoor)
ruleTR03(f) == When(\E d \in Dir : f.ping[d].FragErrors > 0, SevWarning)
ruleTR04(f) == When(\E d \in Dir : f.ping[d].PingDuplicates > 0, SevWarning)
ruleTR05(f) ==
  IF \E d \in Dir : f.ping[d].PingMaxGap > Default.PingGapPoorAbove THEN SevPoor
  ELSE When(\E d \in Dir : f.ping[d].PingSpikes > Default.PingSpikesWarningAbove, SevWarning)

\* The median convicts, the worst trial only warns.
ruleTR06(f) ==
  WorstOf({LET t == f.tcp[d]
           IN When(t.TCPAvailable /\ MaxOf({t.TCPRetransRate, t.TCPRetransRateWorst})
                                       >= Default.TCPRetransWarningAt,
                   IF t.TCPRetransRate > Default.TCPRetransPoorAbove
                   THEN SevPoor ELSE SevWarning) : d \in Dir})

UDPJudged(f, d) ==
  f.udp[d].UDPTargetReached /\ f.udp[d].UDPMaxCPUPct <= Default.CPUHostLimitedAbove
ruleTR07(f) ==
  WorstOf({When(UDPJudged(f, d) /\ f.udp[d].UDPLossPct >= Default.UDPLossWarningAt,
                IF f.udp[d].UDPLossPct > Default.UDPLossPoorAbove
                THEN SevPoor ELSE SevWarning) : d \in Dir})
Jittery(f) == \E d \in Dir : f.udp[d].UDPJitterMs > Default.UDPJitterWarningAbove
ruleTR08(f) == When(Jittery(f), SevWarning)
ruleTR09(f) ==
  When(\E d \in Dir : f.udp[d].UDPOutOfOrderPct > Default.UDPReorderWarningAbove, SevWarning)

TransportRules(f) ==
  [ TR01 |-> ruleTR01(f), TR02 |-> ruleTR02(f), TR03 |-> ruleTR03(f), TR04 |-> ruleTR04(f),
    TR05 |-> ruleTR05(f), TR06 |-> ruleTR06(f), TR07 |-> ruleTR07(f), TR08 |-> ruleTR08(f),
    TR09 |-> ruleTR09(f) ]

-----------------------------------------------------------------------------
(* Throughput and the performance rules.                                   *)

classifyThroughput(measured, negotiated) ==
  LET bands == perfBands(negotiated)
      atLeast(pct) == measured * 100 >= negotiated * pct
  IN IF negotiated = 0 \/ (atLeast(bands.PassAt) /\ ~bands.PassDisabled) THEN None
     ELSE IF atLeast(bands.InfoAt) THEN SevInfo
     ELSE IF atLeast(bands.WarningAt) THEN SevWarning
     ELSE SevPoor

\* Counters of both ends that could be trusted, could see corruption and saw
\* nothing.
physicalLayerClean(f) ==
  /\ \A s \in Side : f.side[s].DeltaOK /\ f.side[s].RXErrorEvidence
  /\ LET found == PhysicalRules(f) IN \A id \in DOMAIN found : found[id] = None

\* Mutant: no cap.
AssessUncapped(f, d) == classifyThroughput(f.tcp[d].TCPBitrate, f.NegotiatedSpeed)

\* One bad trial among several is capped at a warning over a clean layer.
assessThroughput(f, d) ==
  LET sev == classifyThroughput(f.tcp[d].TCPBitrate, f.NegotiatedSpeed)
      isolated == f.tcp[d].TCPTrialCount >= 2 /\ f.tcp[d].TCPThroughputDeviations = 1
  IN IF sev > SevWarning /\ isolated /\ physicalLayerClean(f) THEN SevWarning ELSE sev

TCPDirs(f) == {d \in Dir : f.tcp[d].TCPAvailable}
asymmetric(f) ==
  LET rates == {f.tcp[d].TCPBitrate : d \in Dir}
  IN TCPDirs(f) = Dir /\ (Max(rates) - Min(rates)) * 100 > Default.TCPAsymmetryWarnAbove * Max(rates)
tcpCollapseTotal(f, dirs) == SumOver(dirs, [d \in Dir |-> f.tcp[d].TCPCollapses])

GradedCoV(cov) ==
  IF cov > Default.TCPCoVPoorAbove THEN SevPoor
  ELSE When(cov >= Default.TCPCoVWarningAt, SevWarning)

rulePERF01(f) == WorstOf({assessThroughput(f, d) : d \in TCPDirs(f)})
rulePERF02(f) == WorstOf({GradedCoV(f.tcp[d].TCPCoV) : d \in TCPDirs(f)})
rulePERF03(f) == Graded(tcpCollapseTotal(f, Dir), Default.TCPCollapsePoorAt - 1, NoBoundary)
rulePERF04(f) == When(asymmetric(f), SevWarning)

PerformanceRules(f) ==
  [ PERF01 |-> rulePERF01(f), PERF02 |-> rulePERF02(f),
    PERF03 |-> rulePERF03(f), PERF04 |-> rulePERF04(f) ]

-----------------------------------------------------------------------------
(* The host and limitation rules: markers, outside the ladder.             *)

\* Drops per frame received, one in a million at most; a large count, or one
\* without a denominator, limits by itself.
limitingDropRate(drops, frames) ==
  drops > 0 /\ (drops > Default.HostRingDropFloor \/ drops * 1000000 > frames)

ruleHOST01(f) == When(f.MaxCPUPct > Default.CPUHostLimitedAbove, SevMarker)
ruleHOST02(f) == When(f.VirtualInterface, SevMarker)
ruleHOST03(f) == When(f.USBAdapter /\ rulePERF01(f) # None, SevMarker)
ruleHOST04(f) ==
  When(\E s \in Reliable(f) :
         limitingDropRate(f.side[s].RingDrops, f.side[s].FramesReceived), SevMarker)

noncriticalTests == {"ping", "udp", "bidirectional", "full_size_ping", "cable_test", "cable_test_tdr"}

Both(f, field) == \A s \in Side : f.side[s][field]
Neither(f, field) == \A s \in Side : ~f.side[s][field]
ruleLIM01(f) ==
  When(TCPDirs(f) = {} \/ Neither(f, "CountersAvailable") \/ Neither(f, "RXErrorEvidence"),
       SevMarker)
\* Mutant: tests that did not run are forgotten.
LIM02WithoutTests(f) ==
  When(\/ TCPDirs(f) \notin {{}, Dir}
       \/ ~Both(f, "RXErrorEvidence") /\ ~Neither(f, "RXErrorEvidence"), SevMarker)
ruleLIM02(f) ==
  When(\/ TCPDirs(f) \notin {{}, Dir}
       \/ f.Unavailable \cap noncriticalTests # {}
       \/ ~Both(f, "RXErrorEvidence") /\ ~Neither(f, "RXErrorEvidence"), SevMarker)
ruleLIM03(f) == When(f.Partial, SevMarker)
ruleLIM04(f) == When(f.UDPRateAssumed, SevInfo)
ruleLIM05(f) == When(f.ThroughputUnreachable, SevMarker)

MarkerRules(f) ==
  [ HOST01 |-> ruleHOST01(f), HOST02 |-> ruleHOST02(f), HOST03 |-> ruleHOST03(f),
    HOST04 |-> ruleHOST04(f), LIM01 |-> ruleLIM01(f), LIM02 |-> ruleLIM02(f),
    LIM03 |-> ruleLIM03(f), LIM04 |-> ruleLIM04(f), LIM05 |-> ruleLIM05(f) ]

Physical == {"PHY01", "PHY02", "PHY03", "PHY04", "PHY05", "PHY06", "PHY07", "PHY08",
             "PHY09", "PHY10", "PHY11"}
Transport == {"TR01", "TR02", "TR03", "TR04", "TR05", "TR06", "TR07", "TR08", "TR09"}
Performance == {"PERF01", "PERF02", "PERF03", "PERF04"}
Markers == {"HOST01", "HOST02", "HOST03", "HOST04", "LIM01", "LIM02", "LIM03", "LIM04", "LIM05"}

\* The findings of a report: the severity of each rule by its ID.
Rules(f) ==
  LET physical == PhysicalRules(f)
      transport == TransportRules(f)
      performance == PerformanceRules(f)
      markers == MarkerRules(f)
  IN [id \in Physical \cup Transport \cup Performance \cup Markers |->
        CASE id \in Physical    -> physical[id]
          [] id \in Transport   -> transport[id]
          [] id \in Performance -> performance[id]
          [] id \in Markers     -> markers[id]]

-----------------------------------------------------------------------------
(* The verdict.                                                            *)

HostSensitive == {"TR06"} \cup Performance

hasFinding(findings, id) == findings[id] # None
worstIn(findings, ids) == WorstOf({findings[id] : id \in ids})
hasHostLimit(findings) ==
  \E id \in {"HOST01", "HOST03", "HOST04"} : hasFinding(findings, id)
allPoorAreHostSensitive(findings) ==
  \A id \in (Physical \cup Transport \cup Performance) \ HostSensitive : findings[id] < SevPoor
anyInfoDeviation(findings) ==
  \E id \in Physical \cup Transport \cup Performance : findings[id] = SevInfo

\* The class before the limitations are applied.
Tentative(findings) ==
  LET worstTP == worstIn(findings, Transport \cup Performance)
  IN IF worstTP >= SevPoor THEN "POOR"
     ELSE IF worstTP = SevWarning \/ worstIn(findings, Physical) = SevWarning THEN "WARNING"
     ELSE IF anyInfoDeviation(findings) THEN "GOOD"
     ELSE "EXCELLENT"

\* Host evidence excuses slow traffic over a clean cable, never the cable.
HostExcuses(findings) ==
  /\ worstIn(findings, Transport \cup Performance) >= SevPoor
  /\ hasHostLimit(findings)
  /\ worstIn(findings, Physical) < SevWarning
  /\ allPoorAreHostSensitive(findings)

\* Missing evidence only ever takes a good class away.
Capped(findings, class) ==
  IF \/ hasFinding(findings, "HOST02")
     \/ /\ \E id \in {"LIM01", "LIM03", "LIM05"} : hasFinding(findings, id)
        /\ class \in {"EXCELLENT", "GOOD"}
  THEN "INCONCLUSIVE"
  ELSE IF hasFinding(findings, "LIM02") /\ class = "EXCELLENT" THEN "GOOD" ELSE class

classify(findings) ==
  LET worstPhys == worstIn(findings, Physical)
  IN IF worstPhys = SevFailed THEN "FAILED"
     ELSE IF worstPhys = SevPoor THEN "POOR"
     ELSE IF HostExcuses(findings) THEN "INCONCLUSIVE"
     ELSE Capped(findings, Tentative(findings))

-----------------------------------------------------------------------------
(* The score, in hundredths until it is rounded.                           *)

Cost(cond, points) == IF cond THEN 100 * points ELSE 0
PerEvent(n, points, most) == 100 * MinOf(MinOf(n, most) * points, most)
GradedCost(sev, poor, warning) ==
  CASE sev = SevPoor -> 100 * poor [] sev = SevWarning -> 100 * warning [] OTHER -> 0

PhysicalCost(f) ==
  PerEvent(crcTotal(f), 2, 40) + PerEvent(carrierEvents(f), 15, 45)
  + Cost(f.Renegotiations > 0, 10) + Cost(f.HalfDuplex, 25) + Cost(phy06cond(f), 15)

\* One direction's ping loss, retransmissions and UDP loss.
TransportCost(f, d) ==
  LET t == f.tcp[d]
      u == f.udp[d]
  IN MinOf(4000, 20 * f.ping[d].PingLossPct)
     + Cost(t.TCPAvailable /\ t.TCPRetransRate > Default.TCPRetransPoorAbove, 15)
     + Cost(/\ t.TCPAvailable /\ t.TCPRetransRate <= Default.TCPRetransPoorAbove
            /\ MaxOf({t.TCPRetransRate, t.TCPRetransRateWorst}) >= Default.TCPRetransWarningAt, 5)
     + Cost(UDPJudged(f, d) /\ u.UDPLossPct > Default.UDPLossPoorAbove, 15)
     + Cost(/\ UDPJudged(f, d) /\ u.UDPLossPct <= Default.UDPLossPoorAbove
            /\ u.UDPLossPct >= Default.UDPLossWarningAt, 5)

\* A direction measured under a saturated CPU costs nothing.
PerformanceCost(f) ==
  LET cool == {d \in TCPDirs(f) : f.tcp[d].TCPMaxCPUPct <= Default.CPUHostLimitedAbove}
  IN GradedCost(GradedCoV(MaxOf({f.tcp[d].TCPCoV : d \in cool})), 15, 5)
     + PerEvent(tcpCollapseTotal(f, cool), 5, 20)
     + GradedCost(WorstOf({assessThroughput(f, d) : d \in cool}), 25, 10)
     + Cost(/\ asymmetric(f)
            /\ \A d \in Dir : f.tcp[d].TCPSenderMaxCPUPct <= Default.CPUHostLimitedAbove, 5)

clampToBand(v, class) ==
  LET band == scoreBand(class)
  IN IF v < band[1] THEN band[1] ELSE MinOf(v, band[2])

\* An INCONCLUSIVE run has no score.
scoreFor(f, findings, class) ==
  LET excused == \E id \in {"HOST03", "HOST04"} : hasFinding(findings, id)
      cost == PhysicalCost(f) + SumOver(Dir, [d \in Dir |-> TransportCost(f, d)])
              + Cost(hasFinding(findings, "TR02"), 20)
              + (IF excused THEN 0 ELSE PerformanceCost(f))
              + Cost(Jittery(f), 5)
  IN IF class = "INCONCLUSIVE" THEN Absent
     ELSE clampToBand((10000 - cost + 50) \div 100, class)

evaluate(r) ==
  LET f == factsFromReport(r)
      findings == Rules(f)
      class == classify(findings)
  IN [class |-> class, score |-> scoreFor(f, findings, class), findings |-> findings]

=============================================================================
