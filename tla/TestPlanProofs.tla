--------------------------- MODULE TestPlanProofs ---------------------------
(***************************************************************************)
(* Proofs about the evaluator and the test plan (Evaluate, TestPlan), for  *)
(* every configuration, number of trials and cycles, and any number of     *)
(* disturbances.  What a report says is related to what the run did:       *)
(*   - a side counts exactly the carrier changes of its own window;        *)
(*   - a report is never made to sound better by rendering it again;       *)
(*   - EXCELLENT is only said of a run that measured all it planned;       *)
(*   - frames damaged between two snapshots are never passed over.         *)
(*                                                                         *)
(* The types come first, one lemma per step (TypeInv).  Then what each     *)
(* theorem needs: the monitor's count against the changes of its window    *)
(* (WindowInv), the report as the rendering of results that no longer move *)
(* (RenderInv) with what the classes mean (GoodMeans, ConvictionMeans),    *)
(* the tests that an error-free plan has behind it (Progress), and the     *)
(* tallies behind each snapshot, in order, as long as the driver was not   *)
(* reset (ChainInv).                                                       *)
(***************************************************************************)
EXTENDS TestPlan, FiniteSetTheorems, WellFoundedInduction, SequenceTheorems, TLAPS

-----------------------------------------------------------------------------
(* Extremes and medians.                                                   *)

\* A set of naturals has a least element: the minimum of a well-founded order.
LEMMA NatLeast ==
  ASSUME NEW S \in SUBSET Nat, S # {}
  PROVE  \E m \in S : \A k \in S : m <= k
<1> DEFINE R == OpToRel(<, Nat)
<1>1. IsWellFoundedOn(R, Nat)
  BY NatLessThanWellFounded
<1> HIDE DEF R
<1>2. PICK m \in S : \A y \in S : ~ (<<y, m>> \in R)
  BY <1>1, WFMin
<1>3. ASSUME NEW k \in S PROVE m <= k
  <2>1. m \in Nat /\ k \in Nat
    OBVIOUS
  <2>2. ~(<<k, m>> \in R)
    BY <1>2
  <2>3. ~(k < m)
    BY <2>1, <2>2 DEF R, OpToRel
  <2> QED BY <2>1, <2>3
<1> QED BY <1>3

\* A bounded set of integers has a greatest element.
LEMMA Greatest ==
  ASSUME NEW A \in Int, NEW B \in Int, NEW S \in SUBSET (A..B), S # {}
  PROVE  Max(S) \in S /\ \A k \in S : k <= Max(S)
<1> DEFINE T == {B - k : k \in S}
<1>1. T \in SUBSET Nat /\ T # {}
  OBVIOUS
<1>2. PICK m \in T : \A k \in T : m <= k
  BY <1>1, NatLeast
<1>3. PICK x \in S : m = B - x
  BY <1>2
<1>4. \A y \in S : x >= y
  <2> TAKE y \in S
  <2>1. B - y \in T
    OBVIOUS
  <2>2. m <= B - y
    BY <1>2, <2>1
  <2> QED BY <1>3, <2>2
<1> HIDE DEF T
<1>5. \E z \in S : \A y \in S : z >= y
  BY <1>4
<1>6. Max(S) \in S /\ \A y \in S : Max(S) >= y
  BY <1>5 DEF Max
<1> QED BY <1>6

\* The least element of a set of naturals.
LEMMA Least ==
  ASSUME NEW S \in SUBSET Nat, S # {}
  PROVE  Min(S) \in S /\ \A k \in S : Min(S) <= k
<1>1. \E z \in S : \A y \in S : z =< y
  BY NatLeast
<1> QED BY <1>1 DEF Min

\* MaxOf is an upper bound that is reached, or zero.
LEMMA MaxOfBound ==
  ASSUME NEW B \in Nat, NEW S \in SUBSET (0..B)
  PROVE  /\ MaxOf(S) \in 0..B /\ MaxOf(S) \in S \cup {0}
         /\ \A k \in S : k <= MaxOf(S)
<1>1. S \cup {0} \in SUBSET (0..B) /\ S \cup {0} # {}
  OBVIOUS
<1>2. Max(S \cup {0}) \in S \cup {0} /\ \A k \in S \cup {0} : k <= Max(S \cup {0})
  BY <1>1, Greatest
<1> QED BY <1>1, <1>2 DEF MaxOf

Severities == -1..4

\* WorstOf is the worst of the severities, None when there is none.
LEMMA WorstOfBound ==
  ASSUME NEW S \in SUBSET Severities
  PROVE  /\ WorstOf(S) \in Severities /\ WorstOf(S) \in S \cup {None}
         /\ \A k \in S : k <= WorstOf(S)
<1>1. S \cup {None} \in SUBSET (-1..4) /\ S \cup {None} # {}
  BY DEF Severities, None
<1>2. Max(S \cup {None}) \in S \cup {None} /\ \A k \in S \cup {None} : k <= Max(S \cup {None})
  BY <1>1, Greatest
<1> QED BY <1>1, <1>2 DEF WorstOf, Severities

\* The lower median of measured values is one of them: the least value that
\* more than half of the measurements do not exceed.
LEMMA MedianIsMeasured ==
  ASSUME NEW B \in Nat, NEW s, NEW I, NEW f, IsFiniteSet(I), I # {},
         \A i \in I : s[i].m[f] \in 0..B
  PROVE  lowerMedian(s, I, f) \in Field(s, I, f)
<1> DEFINE v(i) == s[i].m[f]
           half == (Cardinality(I) - 1) \div 2
           upTo(y) == {i \in I : v(i) <= y}
           T == {y \in 0..B : Cardinality(upTo(y)) > half}
<1>1. Cardinality(I) \in Nat /\ Cardinality(I) # 0
  BY FS_CardinalityType, FS_EmptySet
<1>2. half \in Nat /\ half < Cardinality(I)
  BY <1>1
<1> HIDE DEF half
<1>3. upTo(B) = I
  OBVIOUS
<1>3a. Cardinality(upTo(B)) > half
  BY <1>1, <1>2, <1>3
<1>4. B \in T
  BY <1>3a
<1>4a. T \in SUBSET Nat
  OBVIOUS
<1> HIDE DEF T
<1>5. T \in SUBSET Nat /\ T # {}
  BY <1>4, <1>4a
<1>6. PICK x \in T : \A y \in T : x <= y
  BY <1>5, NatLeast
<1>7. x \in 0..B /\ Cardinality(upTo(x)) > half
  BY <1>6 DEF T
<1>8. IsFiniteSet(upTo(x - 1)) /\ Cardinality(upTo(x - 1)) \in Nat
  <2>1. upTo(x - 1) \in SUBSET I
    OBVIOUS
  <2> QED BY <2>1, FS_Subset, FS_CardinalityType
<1>9. Cardinality(upTo(x - 1)) <= half
  <2>1. CASE x = 0
    <3>1. upTo(x - 1) = {}
      BY <2>1
    <3>2. Cardinality(upTo(x - 1)) = 0
      BY <3>1, FS_EmptySet
    <3> QED BY <3>2, <1>2
  <2>2. CASE x # 0
    <3>1. x - 1 \in 0..B
      BY <2>2, <1>7
    <3>2. x - 1 \notin T
      BY <1>6, <1>7
    <3> QED BY <3>1, <3>2, <1>8, <1>2 DEF T
  <2> QED BY <2>1, <2>2
<1>10. upTo(x - 1) = {i \in I : v(i) < x}
  BY <1>7
<1>11. x \in Field(s, I, f)
  <2> SUFFICES ASSUME x \notin Field(s, I, f) PROVE FALSE
    OBVIOUS
  <2>1. upTo(x) = upTo(x - 1)
    BY <1>7 DEF Field
  <2>2. Cardinality(upTo(x)) = Cardinality(upTo(x - 1))
    BY <2>1
  <2>3. Cardinality(upTo(x)) \in Nat
    BY <2>2, <1>8
  <2> QED BY <2>2, <2>3, <1>7, <1>9, <1>8, <1>2
<1>12. /\ Cardinality({i \in I : s[i].m[f] < x}) <= half
       /\ Cardinality({i \in I : s[i].m[f] <= x}) > half
  BY <1>7, <1>9, <1>10
<1> QED BY <1>11, <1>12 DEF lowerMedian, half


-----------------------------------------------------------------------------
(* The plan's steps.                                                       *)

\* Quick.
LEMMA QuickSteps ==
  ASSUME NEW c \in Confs, c.mode = "quick"
  PROVE  /\ Len(StepsOf(c)) = 9
         /\ StepsOf(c)[1] = "link" /\ StepsOf(c)[2] = "initial" /\ StepsOf(c)[3] = "ping"
         /\ StepsOf(c)[4] = "full" /\ StepsOf(c)[5] = "tcpF" /\ StepsOf(c)[6] = "tcpR"
         /\ StepsOf(c)[7] = "bidir" /\ StepsOf(c)[8] = "udp" /\ StepsOf(c)[9] = "final"
BY DEF StepsOf, Trialled

\* The name of each step of a standard plan.
LEMMA StandardSteps ==
  ASSUME NEW c \in Confs, c.mode = "standard"
  PROVE  /\ Len(StepsOf(c)) = 8 + 2 * Repeats
         /\ StepsOf(c)[1] = "link" /\ StepsOf(c)[2] = "initial" /\ StepsOf(c)[3] = "ping"
         /\ StepsOf(c)[4] = "full"
         /\ \A i \in 5..(4 + Repeats) : StepsOf(c)[i] = "tcpF"
         /\ \A i \in (5 + Repeats)..(4 + 2 * Repeats) : StepsOf(c)[i] = "tcpR"
         /\ StepsOf(c)[5 + 2 * Repeats] = "bidir" /\ StepsOf(c)[6 + 2 * Repeats] = "udp"
         /\ StepsOf(c)[7 + 2 * Repeats] = "udpReduced" /\ StepsOf(c)[8 + 2 * Repeats] = "final"
<1>1. Repeats \in Nat \ {0}
  BY BoundsAssumption
<1> DEFINE b == <<"link", "initial", "ping", "full">>
           a == <<"bidir", "udp", "udpReduced", "final">>
<1>2. StepsOf(c) = Trialled(b, Repeats, a)
  BY DEF StepsOf
<1>3. /\ Len(b) = 4 /\ Len(a) = 4
      /\ b[1] = "link" /\ b[2] = "initial" /\ b[3] = "ping" /\ b[4] = "full"
      /\ a[1] = "bidir" /\ a[2] = "udp" /\ a[3] = "udpReduced" /\ a[4] = "final"
  OBVIOUS
<1> HIDE DEF a, b
<1> DEFINE L == Trialled(b, Repeats, a)
<1>4. DOMAIN L = 1..(8 + 2 * Repeats) /\ Len(L) = 8 + 2 * Repeats
  BY <1>1, <1>3 DEF Trialled
<1>5. \A i \in 1..4 : L[i] = b[i]
  BY <1>1, <1>3 DEF Trialled
<1>6. \A i \in 5..(4 + Repeats) : L[i] = "tcpF"
  BY <1>1, <1>3 DEF Trialled
<1>7. \A i \in (5 + Repeats)..(4 + 2 * Repeats) : L[i] = "tcpR"
  BY <1>1, <1>3 DEF Trialled
<1>8. \A j \in 1..4 : L[4 + 2 * Repeats + j] = a[j]
  BY <1>1, <1>3 DEF Trialled
<1> HIDE DEF L
<1>9. /\ L[4 + 2 * Repeats + 1] = a[1]
      /\ L[4 + 2 * Repeats + 2] = a[2]
      /\ L[4 + 2 * Repeats + 3] = a[3]
      /\ L[4 + 2 * Repeats + 4] = a[4]
  BY <1>8
<1>10. StepsOf(c) = L
  BY <1>2 DEF L
<1> QED BY <1>1, <1>3, <1>4, <1>5, <1>6, <1>7, <1>9, <1>10

\* The name of each step of a soak: what is repeated starts at CycleStart.
LEMMA SoakSteps ==
  ASSUME NEW c \in Confs, c.mode = "soak"
  PROVE  /\ Len(StepsOf(c)) = 6 + 2 * Repeats
         /\ StepsOf(c)[1] = "link" /\ StepsOf(c)[2] = "initial" /\ StepsOf(c)[3] = "cycle"
         /\ StepsOf(c)[4] = "ping"
         /\ \A i \in 5..(4 + Repeats) : StepsOf(c)[i] = "tcpF"
         /\ \A i \in (5 + Repeats)..(4 + 2 * Repeats) : StepsOf(c)[i] = "tcpR"
         /\ StepsOf(c)[5 + 2 * Repeats] = "udp" /\ StepsOf(c)[6 + 2 * Repeats] = "cycleEnd"
<1>1. Repeats \in Nat \ {0}
  BY BoundsAssumption
<1> DEFINE b == <<"link", "initial", "cycle", "ping">>
           a == <<"udp", "cycleEnd">>
<1>2. StepsOf(c) = Trialled(b, Repeats, a)
  BY DEF StepsOf
<1>3. /\ Len(b) = 4 /\ Len(a) = 2
      /\ b[1] = "link" /\ b[2] = "initial" /\ b[3] = "cycle" /\ b[4] = "ping"
      /\ a[1] = "udp" /\ a[2] = "cycleEnd"
  OBVIOUS
<1> HIDE DEF a, b
<1> DEFINE L == Trialled(b, Repeats, a)
<1>4. DOMAIN L = 1..(6 + 2 * Repeats) /\ Len(L) = 6 + 2 * Repeats
  BY <1>1, <1>3 DEF Trialled
<1>5. \A i \in 1..4 : L[i] = b[i]
  BY <1>1, <1>3 DEF Trialled
<1>6. \A i \in 5..(4 + Repeats) : L[i] = "tcpF"
  BY <1>1, <1>3 DEF Trialled
<1>7. \A i \in (5 + Repeats)..(4 + 2 * Repeats) : L[i] = "tcpR"
  BY <1>1, <1>3 DEF Trialled
<1>8. \A j \in 1..2 : L[4 + 2 * Repeats + j] = a[j]
  BY <1>1, <1>3 DEF Trialled
<1> HIDE DEF L
<1>9. /\ L[4 + 2 * Repeats + 1] = a[1]
      /\ L[4 + 2 * Repeats + 2] = a[2]
  BY <1>8
<1>10. StepsOf(c) = L
  BY <1>2 DEF L
<1> QED BY <1>1, <1>3, <1>4, <1>5, <1>6, <1>7, <1>9, <1>10

-----------------------------------------------------------------------------
(* Types.                                                                  *)

Metric == 0..20000
PingM == [loss: Metric, dups: Metric, spikes: Metric, gap: Metric, frag: Metric]
TCPM(c) == [bps: 0..c.speed, retrans: Metric \cup {Absent}, cov: Metric, collapses: Metric,
            host: Metric, remote: Metric, incomplete: BOOLEAN]
UDPM == [target: Nat, actual: Nat, loss: Metric, jitter: Metric, reorder: Metric,
         host: Metric, remote: Metric]
Entry(M) == [dir: Side, m: M]
Load == [host: Metric, remote: Metric]
TestNames == {"link_settings", "counters", "ping", "full_size_ping", "tcp", "udp", "bidirectional"}
Refusals == {"unavailable", "unreachable"}
Skips == [name: TestNames, reason: Refusals, cycle: Nat]

Results(c) ==
  [link: [Side -> Readings \cup {Absent}], initial: [Side -> Snapshots \cup {Absent}],
   final: [Side -> Snapshots \cup {Absent}],
   ping: Seq(Entry(PingM)), fullSizePing: Seq(Entry(PingM)), tcp: Seq(Entry(TCPM(c))),
   udp: Seq(Entry(UDPM)), bidir: Load \cup {Absent}, cable: CableResults \cup {Absent},
   skipped: SUBSET Skips, udpRateAssumed: BOOLEAN, incomplete: BOOLEAN, cycles: 0..MaxCycles]

Phases == {"base", "boundary", "salvage", "cable", "begin", "testing", "measuring", "end",
           "close", "finish", "rendering", "done"}
Link(c) == [up: BOOLEAN, speed: 0..c.speed, changes: Nat]
HW == [rx_crc: Nat, rx_length: Nat, rx_missed: Nat, tx_carrier: Nat, corrupt: Nat, resets: Nat]
Reading == [carrier: BOOLEAN, speed: Int, changes: Nat]
EventTypes == {"carrier_lost", "carrier_restored", "speed_changed", "renegotiation"}
Events == [type: EventTypes, selfInflicted: BOOLEAN]
Monitors == [last: Reading, history: Seq(Events), window: BOOLEAN, windowEvents: Int]
Plans(c) == [phase: Phases, step: 1..Len(StepsOf(c)), err: BOOLEAN]
Ends2 == [from: Int \cup {Absent}, to: Int \cup {Absent}]

\* The fields that a soak cycle never writes.
SameFrame(r, q) ==
  /\ r.link = q.link /\ r.initial = q.initial /\ r.final = q.final /\ r.bidir = q.bidir
  /\ r.fullSizePing = q.fullSizePing /\ r.cable = q.cable /\ r.cycles = q.cycles

\* The types of the variables; what is kept during a cycle is the run's
\* results, and there is room for one more cycle while one runs.
TypeInv ==
  /\ conf \in Confs /\ link \in Link(conf) /\ hw \in [Side -> HW] /\ mon \in [Side -> Monitors]
  /\ plan \in Plans(conf) /\ res \in Results(conf)
  /\ InCycle => kept \in Results(conf) /\ SameFrame(kept, res)
  /\ kept # Absent => kept.cycles = res.cycles
  /\ conf.mode = "soak" /\ plan.phase = "base" => res.cycles < MaxCycles
  /\ plan.phase \in {"end", "close"} => res.cable # Absent
  /\ window \in [Side -> Ends2] /\ spent \in 0..MaxAnomalies

-----------------------------------------------------------------------------
(* What the tools measure.                                                 *)

LEMMA ConfType ==
  ASSUME NEW c \in Confs
  PROVE  /\ c.mode \in Modes /\ c.nic \in [Side -> NICs] /\ c.speed \in Nat /\ c.speed > 0
         /\ c.cable \in BOOLEAN /\ c.bidir \in BOOLEAN /\ c.udpRate \in Nat
BY ConfsAssumption

LEMMA Metrics ==
  /\ 0 \in Metric /\ 1 \in Metric /\ 2 \in Metric /\ 4 \in Metric /\ 5 \in Metric /\ 6 \in Metric
  /\ 20 \in Metric /\ 30 \in Metric /\ 40 \in Metric /\ 60 \in Metric /\ 99 \in Metric
  /\ 200 \in Metric /\ 300 \in Metric /\ 500 \in Metric /\ 1500 \in Metric /\ 20000 \in Metric
BY DEF Metric

LEMMA PingTypes == \A n \in DOMAIN Pings : Pings[n] \in PingM
<1>1. 0 \in Metric /\ 1 \in Metric /\ 5 \in Metric /\ 6 \in Metric /\ 200 \in Metric /\ 1500 \in Metric
  BY Metrics
<1>2. Echoes(0, 0, 0, 0, 0) \in PingM /\ Echoes(5, 0, 0, 0, 0) \in PingM
  BY <1>1 DEF Echoes, PingM
<1>3. Echoes(200, 0, 0, 0, 0) \in PingM /\ Echoes(0, 0, 0, 0, 1) \in PingM
  BY <1>1 DEF Echoes, PingM
<1>4. Echoes(0, 1, 6, 1500, 0) \in PingM
  BY <1>1 DEF Echoes, PingM
<1> QED BY <1>2, <1>3, <1>4 DEF Pings

LEMMA Percent ==
  ASSUME NEW top \in Nat, NEW v \in 0..top, NEW p \in 0..100
  PROVE  (v * p) \div 100 \in 0..top
<1>1. v * p \in Nat /\ v * p <= v * 100
  <2>1. v \in Nat /\ p \in Nat /\ p <= 100
    OBVIOUS
  <2>2. v * p \in Nat
    BY <2>1
  <2>3. v * (100 - p) >= 0
    BY <2>1
  <2>4. v * (100 - p) = v * 100 - v * p
    BY <2>1
  <2> QED BY <2>2, <2>3, <2>4
<1> DEFINE w == v * p
<1>2. w \in Nat /\ w <= 100 * v
  BY <1>1
<1> HIDE DEF w
<1>3. w \div 100 \in Nat /\ w \div 100 <= v
  BY <1>2
<1> QED BY <1>3 DEF w

LEMMA TrialType ==
  ASSUME conf \in Confs, link \in Link(conf), NEW p \in 0..100, NEW retrans \in Metric \cup {Absent},
         NEW cov \in Metric, NEW collapses \in Metric, NEW cpu \in Metric
  PROVE  Trial(p, retrans, cov, collapses, cpu) \in TCPM(conf)
<1>1. conf.speed \in Nat /\ link.speed \in 0..conf.speed
  BY ConfType DEF Link
<1>2. (link.speed * p) \div 100 \in 0..conf.speed
  BY <1>1, Percent
<1>3. 30 \in Metric
  BY DEF Metric
<1> QED BY <1>2, <1>3 DEF Trial, TCPM

LEMMA TrialTypes ==
  ASSUME conf \in Confs, link \in Link(conf)
  PROVE  /\ \A n \in DOMAIN Trials : Trials[n] \in TCPM(conf) /\ Trials[n].host \in Metric
         /\ PartialTrial \in TCPM(conf)
<1>1. 94 \in 0..100 /\ 30 \in 0..100 /\ 85 \in 0..100 /\ 60 \in 0..100 /\ 0 \in 0..100
  OBVIOUS
<1>2. Trial(94, 0, 2, 0, 30) \in TCPM(conf)
  <2>1. 0 \in Metric /\ 2 \in Metric /\ 30 \in Metric
    BY Metrics
  <2> QED BY TrialType, <1>1, <2>1
<1>3. Trial(30, 0, 2, 0, 30) \in TCPM(conf)
  <2>1. 0 \in Metric /\ 2 \in Metric /\ 30 \in Metric
    BY Metrics
  <2> QED BY TrialType, <1>1, <2>1
<1>4. Trial(85, 500, 20, 1, 30) \in TCPM(conf)
  <2>1. 500 \in Metric /\ 20 \in Metric /\ 1 \in Metric /\ 30 \in Metric
    BY Metrics
  <2> QED BY TrialType, <1>1, <2>1
<1>5. Trial(60, 20000, 40, 4, 30) \in TCPM(conf)
  <2>1. 20000 \in Metric /\ 40 \in Metric /\ 4 \in Metric /\ 30 \in Metric
    BY Metrics
  <2> QED BY TrialType, <1>1, <2>1
<1>6. Trial(30, 20000, 40, 4, 99) \in TCPM(conf)
  <2>1. 20000 \in Metric /\ 40 \in Metric /\ 4 \in Metric /\ 99 \in Metric
    BY Metrics
  <2> QED BY TrialType, <1>1, <2>1
<1>7. Trial(0, Absent, 0, 0, 0) \in TCPM(conf)
  <2>1. 0 \in Metric
    BY Metrics
  <2> QED BY TrialType, <1>1, <2>1
<1>8. \A n \in DOMAIN Trials : Trials[n] \in TCPM(conf)
  BY <1>2, <1>3, <1>4, <1>5, <1>6 DEF Trials
<1>9. \A t \in TCPM(conf), k \in Metric, b \in BOOLEAN :
        [t EXCEPT !.remote = k, !.incomplete = b] \in TCPM(conf)
  BY DEF TCPM
<1>10. PartialTrial \in TCPM(conf)
  <2>1. 0 \in Metric
    BY Metrics
  <2> QED BY <1>7, <1>9, <2>1 DEF PartialTrial
<1>11. \A t \in TCPM(conf) : t.host \in Metric
  BY DEF TCPM
<1> QED BY <1>8, <1>10, <1>11

LEMMA UDPTypes ==
  ASSUME NEW rate \in Nat
  PROVE  /\ \A n \in DOMAIN UDPRuns(rate) : UDPRuns(rate)[n] \in UDPM
         /\ PartialUDP(rate) \in UDPM
<1>1. rate \div 2 \in Nat /\ 0 \in Nat
  OBVIOUS
<1>2. \A target, actual \in Nat, loss, jitter, reorder, cpu \in Metric :
        Datagrams(target, actual, loss, jitter, reorder, cpu) \in UDPM
  BY Metrics DEF Datagrams, UDPM
<1>3. Datagrams(rate, rate, 0, 1, 0, 30) \in UDPM
  <2>1. 0 \in Metric /\ 1 \in Metric /\ 30 \in Metric
    BY Metrics
  <2> QED BY <1>2, <2>1
<1>4. Datagrams(rate, rate, 300, 1, 0, 30) \in UDPM
  <2>1. 300 \in Metric /\ 1 \in Metric /\ 0 \in Metric /\ 30 \in Metric
    BY Metrics
  <2> QED BY <1>2, <2>1
<1>5. Datagrams(rate, rate, 60, 6, 20, 30) \in UDPM
  <2>1. 60 \in Metric /\ 6 \in Metric /\ 20 \in Metric /\ 30 \in Metric
    BY Metrics
  <2> QED BY <1>2, <2>1
<1>6. Datagrams(rate, rate, 300, 1, 0, 99) \in UDPM
  <2>1. 300 \in Metric /\ 1 \in Metric /\ 0 \in Metric /\ 99 \in Metric
    BY Metrics
  <2> QED BY <1>2, <2>1
<1>7. Datagrams(rate, rate \div 2, 300, 6, 0, 30) \in UDPM
  <2>1. 300 \in Metric /\ 6 \in Metric /\ 0 \in Metric /\ 30 \in Metric
    BY Metrics
  <2> QED BY <1>1, <1>2, <2>1
<1>8. Datagrams(rate, 0, 0, 0, 0, 0) \in UDPM
  <2>1. 0 \in Metric
    BY Metrics
  <2> QED BY <1>1, <1>2, <2>1
<1>9. \A n \in DOMAIN UDPRuns(rate) : UDPRuns(rate)[n] \in UDPM
  BY <1>3, <1>4, <1>5, <1>6, <1>7 DEF UDPRuns
<1>10. \A t \in UDPM, k \in Metric : [t EXCEPT !.remote = k] \in UDPM
  BY DEF UDPM
<1>11. PartialUDP(rate) \in UDPM
  <2>1. 0 \in Metric
    BY Metrics
  <2> QED BY <1>8, <1>10, <2>1 DEF PartialUDP
<1> QED BY <1>9, <1>11

LEMMA ReadingTypes ==
  ASSUME conf \in Confs, link \in Link(conf)
  PROVE  \A n \in DOMAIN LinkReadings : LinkReadings[n] \in Readings
<1>1. conf.speed \in Nat
  BY ConfType
<1>2. Settings \in Readings
  BY <1>1 DEF Settings, Readings, Link
<1>3. \A r \in Readings, b \in BOOLEAN : [r EXCEPT !.half = b] \in Readings
  BY DEF Readings
<1>4. \A r \in Readings, i, j, k \in Nat :
        [r EXCEPT !.speed = i, !.supported = j, !.partner = k] \in Readings
  BY DEF Readings
<1>5. [Settings EXCEPT !.half = TRUE] \in Readings
  BY <1>2, <1>3
<1>6. [Settings EXCEPT !.speed = 0, !.supported = 0, !.partner = 0] \in Readings
  BY <1>2, <1>4
<1> HIDE DEF Settings
<1>7. DOMAIN LinkReadings = {"clean", "half", "unknown"}
  BY DEF LinkReadings
<1>8. /\ LinkReadings["clean"] = Settings
      /\ LinkReadings["half"] = [Settings EXCEPT !.half = TRUE]
      /\ LinkReadings["unknown"] = [Settings EXCEPT !.speed = 0, !.supported = 0, !.partner = 0]
  BY DEF LinkReadings
<1> QED BY <1>2, <1>5, <1>6, <1>7, <1>8

LEMMA SnapshotType ==
  ASSUME TypeInv, NEW s \in Side
  PROVE  Snapshot(s) \in Snapshots
<1> DEFINE tally(k) == Tally(conf.nic[s], hw[s], k)
           ks == conf.nic[s].exposed \cup {t \in conf.nic[s].tracked : tally(t) # 0}
                 \cup {"link_resets"}
           std == NormalizeCounters(conf.nic[s], hw[s], link.changes)
<1>1. conf.nic[s] \in NICs /\ hw[s] \in HW /\ link.changes \in Nat /\ plan.step \in Nat
  <2>1. conf \in Confs /\ hw \in [Side -> HW] /\ link \in Link(conf) /\ plan \in Plans(conf)
    BY DEF TypeInv
  <2>2. conf.nic \in [Side -> NICs]
    BY <2>1, ConfType
  <2> QED BY <2>1, <2>2 DEF Link, Plans
<1>2. ks \subseteq Keys \cup {"link_resets"}
  BY <1>1 DEF NICs
<1>3. \A k \in Keys : tally(k) \in Nat
  BY <1>1 DEF Keys, Tallies, Tally, HW, NICs
<1>4. std \in [ks -> Nat]
  BY <1>1, <1>2, <1>3 DEF NormalizeCounters
<1> HIDE DEF ks
<1>5. std \in Counters
  BY <1>2, <1>4 DEF Counters
<1>6. FramesPerStep * plan.step \in Nat
  BY <1>1 DEF FramesPerStep
<1> HIDE DEF std
<1>7. /\ Snapshot(s).std \in Counters
      /\ Snapshot(s) = [std |-> std, packets |-> FramesPerStep * plan.step,
           at |-> [corrupt |-> hw[s].corrupt, missed |-> hw[s].rx_missed, resets |-> hw[s].resets,
                   changes |-> link.changes]]
  BY <1>5 DEF Snapshot, std
<1> QED BY <1>1, <1>5, <1>6, <1>7 DEF Snapshots, HW

Logs == {"ping", "fullSizePing", "tcp", "udp"}
EntryOf(c, field) ==
  CASE field \in {"ping", "fullSizePing"} -> Entry(PingM)
    [] field = "tcp" -> Entry(TCPM(c))
    [] field = "udp" -> Entry(UDPM)

\* A record of results with one field replaced.
With(r, field, v) == [r EXCEPT ![field] = v]

LEMMA PutLog ==
  ASSUME NEW c, NEW r \in Results(c), NEW field \in Logs, NEW v \in Seq(EntryOf(c, field))
  PROVE  /\ With(r, field, v) \in Results(c) /\ With(r, field, v)[field] = v
         /\ \A g \in DOMAIN r : g # field => With(r, field, v)[g] = r[g]
<1>1. CASE field = "ping"
  <2>1. v \in Seq(Entry(PingM))
    BY <1>1 DEF EntryOf
  <2> QED BY <1>1, <2>1 DEF Results, With
<1>2. CASE field = "fullSizePing"
  <2>1. v \in Seq(Entry(PingM))
    BY <1>2 DEF EntryOf
  <2> QED BY <1>2, <2>1 DEF Results, With
<1>3. CASE field = "tcp"
  <2>1. v \in Seq(Entry(TCPM(c)))
    BY <1>3 DEF EntryOf
  <2> QED BY <1>3, <2>1 DEF Results, With
<1>4. CASE field = "udp"
  <2>1. v \in Seq(Entry(UDPM))
    BY <1>4 DEF EntryOf
  <2> QED BY <1>4, <2>1 DEF Results, With
<1> QED BY <1>1, <1>2, <1>3, <1>4 DEF Logs

LEMMA SkipType ==
  ASSUME NEW c, NEW r \in Results(c), NEW test \in TestNames, NEW u \in Refusals
  PROVE  /\ recordSkippedTest(r, test, u) \in Results(c)
         /\ \A g \in DOMAIN r : g # "skipped" => recordSkippedTest(r, test, u)[g] = r[g]
         /\ r.skipped \subseteq recordSkippedTest(r, test, u).skipped
         /\ \E x \in recordSkippedTest(r, test, u).skipped : x.name = test
<1> DEFINE told == \E x \in r.skipped : x.name = test /\ x.cycle = r.cycles
<1>1. CASE told
  BY <1>1 DEF recordSkippedTest
<1>2. CASE ~told
  <2> DEFINE x == [name |-> test, reason |-> u, cycle |-> r.cycles]
             v == r.skipped \cup {x}
             q == [r EXCEPT !.skipped = v]
  <2>1. r.skipped \in SUBSET Skips /\ x \in Skips /\ x.name = test
    BY BoundsAssumption DEF Results, Skips
  <2>2. recordSkippedTest(r, test, u) = q
    BY <1>2 DEF recordSkippedTest
  <2>3. v \in SUBSET Skips /\ r.skipped \subseteq v /\ x \in v
    BY <2>1
  <2> HIDE DEF v, x
  <2>4. q \in Results(c) /\ q.skipped = v /\ \A g \in DOMAIN r : g # "skipped" => q[g] = r[g]
    BY <2>3 DEF Results
  <2> HIDE DEF q
  <2> QED BY <2>1, <2>2, <2>3, <2>4
<1> QED BY <1>1, <1>2

LEMMA FlagType ==
  ASSUME NEW c, NEW r \in Results(c), NEW b \in BOOLEAN
  PROVE  /\ With(r, "incomplete", b) \in Results(c)
         /\ With(r, "incomplete", b).incomplete = b
         /\ \A g \in DOMAIN r : g # "incomplete" => With(r, "incomplete", b)[g] = r[g]
BY DEF Results, With

\* What a phase of a test does to the results: at most one entry joins the
\* log of its test, or the test is named among the skipped ones.
LEMMA RecordedType ==
  ASSUME NEW c, NEW r \in Results(c), NEW field \in Logs, NEW test \in TestNames, NEW dir \in Side,
         NEW o \in Outcomes, NEW sample, NEW partial,
         Taken(dir, sample) \in EntryOf(c, field),
         o = "partial" => Taken(dir, partial) \in EntryOf(c, field),
         NEW q, q = Recorded(r, field, test, dir, o, sample, partial)
  PROVE  /\ q \in Results(c)
         /\ \A g \in DOMAIN r : g \notin {field, "skipped", "incomplete"} => q[g] = r[g]
         /\ r.skipped \subseteq q.skipped
         /\ o \in {"clean", "stopFailed"} => q = With(r, field, Append(r[field], Taken(dir, sample)))
         /\ o \in {"unavailable", "unreachable"} =>
              q[field] = r[field] /\ \E x \in q.skipped : x.name = test
         /\ o # "partial" => q.incomplete = r.incomplete
         /\ o \in {"clean", "stopFailed"} => q[field] = Append(r[field], Taken(dir, sample))
         /\ o = "failed" => q = r
<1>0. /\ r[field] \in Seq(EntryOf(c, field))
      /\ "skipped" \in DOMAIN r /\ "incomplete" \in DOMAIN r /\ field \in DOMAIN r
      /\ field # "skipped" /\ field # "incomplete"
  BY DEF Results, EntryOf, Logs
<1>1. CASE o \in {"clean", "stopFailed"}
  <2> DEFINE v == Append(r[field], Taken(dir, sample))
  <2>1. v \in Seq(EntryOf(c, field))
    BY <1>0
  <2>2. q = With(r, field, v)
    BY <1>1 DEF Recorded, With
  <2> HIDE DEF v
  <2>3. /\ q \in Results(c) /\ q[field] = v /\ \A g \in DOMAIN r : g # field => q[g] = r[g]
    BY <2>1, <2>2, PutLog
  <2>4. q.skipped = r.skipped /\ q.incomplete = r.incomplete
    BY <2>3, <1>0
  <2> QED BY <1>1, <2>2, <2>3, <2>4 DEF v
<1>2. CASE o \in {"unavailable", "unreachable"}
  <2>1. q = recordSkippedTest(r, test, o)
    BY <1>2 DEF Recorded
  <2>2. o \in Refusals
    BY <1>2 DEF Refusals
  <2>3. /\ q \in Results(c) /\ \A g \in DOMAIN r : g # "skipped" => q[g] = r[g]
        /\ r.skipped \subseteq q.skipped /\ \E x \in q.skipped : x.name = test
    <3>1. recordSkippedTest(r, test, o) \in Results(c)
      BY <2>2, SkipType
    <3>2. \A g \in DOMAIN r : g # "skipped" => q[g] = r[g]
      BY <2>1, <2>2, SkipType
    <3>3. r.skipped \subseteq q.skipped
      BY <2>1, <2>2, SkipType
    <3>4. \E x \in q.skipped : x.name = test
      BY <2>1, <2>2, SkipType
    <3> QED BY <2>1, <3>1, <3>2, <3>3, <3>4
  <2>4. q.incomplete = r.incomplete /\ q[field] = r[field]
    BY <2>3, <1>0
  <2> QED BY <1>2, <2>3, <2>4
<1>3. CASE o = "partial"
  <2> DEFINE v == Append(r[field], Taken(dir, partial))
             r1 == With(r, field, v)
  <2>1. v \in Seq(EntryOf(c, field))
    BY <1>0, <1>3
  <2>2. q = [r EXCEPT ![field] = v, !.incomplete = TRUE]
    BY <1>3 DEF Recorded
  <2> HIDE DEF v
  <2>3. /\ r1 \in Results(c) /\ r1[field] = v /\ \A g \in DOMAIN r : g # field => r1[g] = r[g]
    BY <2>1, PutLog
  <2>4. q = With(r1, "incomplete", TRUE)
    BY <2>2 DEF With
  <2>5. DOMAIN r1 = DOMAIN r
    BY DEF With
  <2> HIDE DEF r1
  <2>6. q \in Results(c) /\ \A g \in DOMAIN r : g # "incomplete" => q[g] = r1[g]
    <3>1. TRUE \in BOOLEAN
      OBVIOUS
    <3>2. With(r1, "incomplete", TRUE) \in Results(c)
      BY <2>3, <3>1, FlagType
    <3>3. \A g \in DOMAIN r1 : g # "incomplete" => With(r1, "incomplete", TRUE)[g] = r1[g]
      BY <2>3, <3>1, FlagType
    <3> QED BY <2>4, <2>5, <3>2, <3>3
  <2>7. q.skipped = r.skipped
    BY <2>3, <2>6, <1>0
  <2>8. \A g \in DOMAIN r : g \notin {field, "skipped", "incomplete"} => q[g] = r[g]
    BY <2>3, <2>6
  <2> QED BY <1>3, <2>6, <2>7, <2>8
<1>4. CASE o = "failed"
  BY <1>4 DEF Recorded
<1> QED BY <1>1, <1>2, <1>3, <1>4 DEF Outcomes, Errors

LEMMA SpendType ==
  ASSUME spent \in 0..MaxAnomalies, NEW out, NEW n \in Nat, DOMAIN out = 1..n, Spend(out)
  PROVE  spent' \in 0..MaxAnomalies
<1> DEFINE S == {i \in DOMAIN out : out[i] # "clean"}
<1>1. S \in SUBSET (1..n)
  OBVIOUS
<1>2. IsFiniteSet(1..n)
  BY FS_Interval
<1>3. Cardinality(S) \in Nat
  BY <1>1, <1>2, FS_Subset, FS_CardinalityType
<1>4. MaxAnomalies \in Nat
  BY BoundsAssumption
<1> QED BY <1>3, <1>4 DEF Spend

LEMMA HappensType ==
  ASSUME spent \in 0..MaxAnomalies, NEW e, Happens(e)
  PROVE  spent' \in 0..MaxAnomalies
<1>1. DOMAIN <<e>> = 1..1 /\ Spend(<<e>>)
  BY DEF Happens
<1> QED BY <1>1, SpendType

\* Which step of a soak has which name.
LEMMA SoakAt ==
  ASSUME TypeInv, conf.mode = "soak"
  PROVE  /\ Len(StepsOf(conf)) = 6 + 2 * Repeats /\ plan.step \in 1..(6 + 2 * Repeats)
         /\ At("link") => plan.step = 1
         /\ At("initial") => plan.step = 2
         /\ At("cycle") => plan.step = 3
         /\ At("ping") => plan.step = 4
         /\ At("tcpF") => plan.step \in 5..(4 + Repeats)
         /\ At("tcpR") => plan.step \in (5 + Repeats)..(4 + 2 * Repeats)
         /\ At("udp") => plan.step = 5 + 2 * Repeats
         /\ At("cycleEnd") => plan.step = 6 + 2 * Repeats
         /\ ~At("full") /\ ~At("bidir") /\ ~At("udpReduced") /\ ~At("final")
<1> DEFINE L == StepsOf(conf)
<1>1. Repeats \in Nat \ {0}
  BY BoundsAssumption
<1>2. conf \in Confs /\ plan \in Plans(conf)
  BY DEF TypeInv
<1>3. /\ Len(L) = 6 + 2 * Repeats
      /\ L[1] = "link" /\ L[2] = "initial" /\ L[3] = "cycle" /\ L[4] = "ping"
      /\ \A i \in 5..(4 + Repeats) : L[i] = "tcpF"
      /\ \A i \in (5 + Repeats)..(4 + 2 * Repeats) : L[i] = "tcpR"
      /\ L[5 + 2 * Repeats] = "udp" /\ L[6 + 2 * Repeats] = "cycleEnd"
  BY <1>2, SoakSteps
<1>4. StepName = L[plan.step]
  BY DEF StepName
<1>5. plan.step \in 1..Len(L)
  BY <1>2 DEF Plans
<1> HIDE DEF L
<1>6. \/ plan.step = 1 \/ plan.step = 2 \/ plan.step = 3 \/ plan.step = 4
      \/ plan.step \in 5..(4 + Repeats) \/ plan.step \in (5 + Repeats)..(4 + 2 * Repeats)
      \/ plan.step = 5 + 2 * Repeats \/ plan.step = 6 + 2 * Repeats
  BY <1>1, <1>3, <1>5
<1>7. /\ StepName = "link" => plan.step = 1
      /\ StepName = "initial" => plan.step = 2
      /\ StepName = "cycle" => plan.step = 3
      /\ StepName = "ping" => plan.step = 4
      /\ StepName = "tcpF" => plan.step \in 5..(4 + Repeats)
      /\ StepName = "tcpR" => plan.step \in (5 + Repeats)..(4 + 2 * Repeats)
      /\ StepName = "udp" => plan.step = 5 + 2 * Repeats
      /\ StepName = "cycleEnd" => plan.step = 6 + 2 * Repeats
      /\ StepName \notin {"full", "bidir", "udpReduced", "final"}
  BY <1>3, <1>4, <1>6
<1> QED BY <1>3, <1>5, <1>7 DEF At, L

\* The same of a quick plan.
LEMMA QuickAt ==
  ASSUME TypeInv, conf.mode = "quick"
  PROVE  /\ Len(StepsOf(conf)) = 9 /\ plan.step \in 1..9
         /\ At("link") => plan.step = 1
         /\ At("initial") => plan.step = 2
         /\ At("ping") => plan.step = 3
         /\ At("full") => plan.step = 4
         /\ At("tcpF") => plan.step = 5
         /\ At("tcpR") => plan.step = 6
         /\ At("bidir") => plan.step = 7
         /\ At("udp") => plan.step = 8
         /\ At("final") => plan.step = 9
         /\ ~At("cycle") /\ ~At("cycleEnd") /\ ~At("udpReduced")
<1> DEFINE L == StepsOf(conf)
<1>2. conf \in Confs /\ plan \in Plans(conf)
  BY DEF TypeInv
<1>3. /\ Len(L) = 9
      /\ L[1] = "link" /\ L[2] = "initial" /\ L[3] = "ping" /\ L[4] = "full" /\ L[5] = "tcpF"
      /\ L[6] = "tcpR" /\ L[7] = "bidir" /\ L[8] = "udp" /\ L[9] = "final"
  BY <1>2, QuickSteps
<1>4. StepName = L[plan.step]
  BY DEF StepName
<1>5. plan.step \in 1..Len(L)
  BY <1>2 DEF Plans
<1> HIDE DEF L
<1>6. \/ plan.step = 1 \/ plan.step = 2 \/ plan.step = 3 \/ plan.step = 4 \/ plan.step = 5
      \/ plan.step = 6 \/ plan.step = 7 \/ plan.step = 8 \/ plan.step = 9
  BY <1>3, <1>5
<1> QED BY <1>3, <1>4, <1>5, <1>6 DEF At, L

\* The same of a standard plan.
LEMMA StandardAt ==
  ASSUME TypeInv, conf.mode = "standard"
  PROVE  /\ Len(StepsOf(conf)) = 8 + 2 * Repeats /\ plan.step \in 1..(8 + 2 * Repeats)
         /\ At("link") => plan.step = 1
         /\ At("initial") => plan.step = 2
         /\ At("ping") => plan.step = 3
         /\ At("full") => plan.step = 4
         /\ At("tcpF") => plan.step \in 5..(4 + Repeats)
         /\ At("tcpR") => plan.step \in (5 + Repeats)..(4 + 2 * Repeats)
         /\ At("bidir") => plan.step = 5 + 2 * Repeats
         /\ At("udp") => plan.step = 6 + 2 * Repeats
         /\ At("udpReduced") => plan.step = 7 + 2 * Repeats
         /\ At("final") => plan.step = 8 + 2 * Repeats
         /\ ~At("cycle") /\ ~At("cycleEnd")
<1> DEFINE L == StepsOf(conf)
<1>1. Repeats \in Nat \ {0}
  BY BoundsAssumption
<1>2. conf \in Confs /\ plan \in Plans(conf)
  BY DEF TypeInv
<1>3. /\ Len(L) = 8 + 2 * Repeats
      /\ L[1] = "link" /\ L[2] = "initial" /\ L[3] = "ping" /\ L[4] = "full"
      /\ \A i \in 5..(4 + Repeats) : L[i] = "tcpF"
      /\ \A i \in (5 + Repeats)..(4 + 2 * Repeats) : L[i] = "tcpR"
      /\ L[5 + 2 * Repeats] = "bidir" /\ L[6 + 2 * Repeats] = "udp"
      /\ L[7 + 2 * Repeats] = "udpReduced" /\ L[8 + 2 * Repeats] = "final"
  BY <1>2, StandardSteps
<1>4. StepName = L[plan.step]
  BY DEF StepName
<1>5. plan.step \in 1..Len(L)
  BY <1>2 DEF Plans
<1> HIDE DEF L
<1>6. \/ plan.step = 1 \/ plan.step = 2 \/ plan.step = 3 \/ plan.step = 4
      \/ plan.step \in 5..(4 + Repeats) \/ plan.step \in (5 + Repeats)..(4 + 2 * Repeats)
      \/ plan.step = 5 + 2 * Repeats \/ plan.step = 6 + 2 * Repeats
      \/ plan.step = 7 + 2 * Repeats \/ plan.step = 8 + 2 * Repeats
  BY <1>1, <1>3, <1>5
<1> QED BY <1>1, <1>3, <1>4, <1>5, <1>6 DEF At, L

LEMMA ModeCases ==
  ASSUME TypeInv
  PROVE  conf.mode = "quick" \/ conf.mode = "standard" \/ conf.mode = "soak"
<1>1. conf \in Confs
  BY DEF TypeInv
<1>2. conf.mode \in Modes
  BY <1>1, ConfType
<1> QED BY <1>2 DEF Modes

\* Where the plan goes after a step.
LEMMA PlanMoves ==
  ASSUME TypeInv, plan.phase = "base"
  PROVE  /\ Failing(plan) \in Plans(conf) /\ Failing(plan).err /\ Failing(plan).step = plan.step
         /\ Failing(plan).phase = IF conf.mode = "soak" THEN "boundary" ELSE "salvage"
         /\ AfterBase(plan) \in Plans(conf) /\ AfterBase(plan).phase \in {"cable", "finish"}
         /\ AfterBase(plan).step = plan.step /\ AfterBase(plan).err = plan.err
         /\ StepDone(plan) \in Plans(conf) /\ StepDone(plan).err = plan.err
         /\ plan.step < Len(StepsOf(conf)) =>
              StepDone(plan).phase = "base" /\ StepDone(plan).step = plan.step + 1
         /\ plan.step = Len(StepsOf(conf)) => StepDone(plan) = AfterBase(plan)
<1>1. plan \in Plans(conf) /\ Len(StepsOf(conf)) \in Nat
  <2>1. plan \in Plans(conf)
    BY DEF TypeInv
  <2>2. Repeats \in Nat
    BY BoundsAssumption
  <2> QED BY <2>1, <2>2, ModeCases, QuickAt, StandardAt, SoakAt
<1> DEFINE N == Len(StepsOf(conf))
<1>2. plan \in [phase: Phases, step: 1..N, err: BOOLEAN] /\ N \in Nat
  BY <1>1 DEF Plans
<1>3. Plans(conf) = [phase: Phases, step: 1..N, err: BOOLEAN]
  BY DEF Plans
<1> HIDE DEF N
<1>4. /\ Failing(plan) \in [phase: Phases, step: 1..N, err: BOOLEAN] /\ Failing(plan).err
      /\ Failing(plan).step = plan.step
      /\ Failing(plan).phase = IF conf.mode = "soak" THEN "boundary" ELSE "salvage"
  BY <1>2 DEF Failing, Phases
<1>5. /\ AfterBase(plan) \in [phase: Phases, step: 1..N, err: BOOLEAN]
      /\ AfterBase(plan).phase \in {"cable", "finish"}
      /\ AfterBase(plan).step = plan.step /\ AfterBase(plan).err = plan.err
  BY <1>2 DEF AfterBase, Phases
<1>6. plan.step < N => /\ StepDone(plan) \in [phase: Phases, step: 1..N, err: BOOLEAN]
                       /\ StepDone(plan).err = plan.err /\ StepDone(plan).phase = "base"
                       /\ StepDone(plan).step = plan.step + 1
  BY <1>2 DEF StepDone, N
<1>7. ~(plan.step < N) => StepDone(plan) = AfterBase(plan)
  BY DEF StepDone, N
<1> QED BY <1>2, <1>3, <1>4, <1>5, <1>6, <1>7 DEF N

LEMMA ResType ==
  ASSUME TypeInv
  PROVE  /\ conf \in Confs /\ link \in Link(conf) /\ plan \in Plans(conf) /\ res \in Results(conf)
         /\ hw \in [Side -> HW] /\ mon \in [Side -> Monitors] /\ window \in [Side -> Ends2]
         /\ spent \in 0..MaxAnomalies
BY DEF TypeInv

\* The types after a step of the base phase that leaves r.
LEMMA EndsType ==
  ASSUME TypeInv, plan.phase = "base", NEW r \in Results(conf), NEW o,
         r.cycles = res.cycles, InCycle => SameFrame(kept, r),
         conf.mode = "soak" => o \in Errors \/ plan.step < Len(StepsOf(conf)),
         Ends(r, o),
         IF At("cycle") THEN kept' = res /\ SameFrame(res, r) ELSE kept' = kept,
         conf.mode = "soak" /\ plan.step = CycleStart => At("cycle"),
         UNCHANGED <<conf, link, hw, mon, window>>, spent' \in 0..MaxAnomalies
  PROVE  TypeInv'
<1>1. /\ conf' = conf /\ link' = link /\ hw' = hw /\ mon' = mon /\ window' = window
  OBVIOUS
<1>2. res.cycles < MaxCycles \/ conf.mode # "soak"
  BY DEF TypeInv
<1>3. /\ conf.mode \in Modes /\ plan.step \in Nat
  BY ResType, ConfType DEF Plans
<1>4. CASE o \in Errors
  <2> DEFINE q == IF InCycle THEN kept ELSE r
  <2>1. plan' = Failing(plan) /\ res' = With(q, "incomplete", TRUE)
    BY <1>4 DEF Ends, With
  <2>2. q \in Results(conf) /\ q.cycles = res.cycles
    BY DEF TypeInv, SameFrame
  <2> HIDE DEF q
  <2>3. res' \in Results(conf)
    <3>1. TRUE \in BOOLEAN
      OBVIOUS
    <3> QED BY <2>1, <2>2, <3>1, FlagType
  <2>4. res'.cycles = res.cycles
    <3>1. res'.cycles = q.cycles
      BY <2>1, <2>2 DEF With, Results
    <3> QED BY <3>1, <2>2
  <2>5. plan' \in Plans(conf) /\ plan'.phase # "base" /\ plan'.phase \notin {"end", "close"}
    BY <2>1, PlanMoves
  <2>6. kept' # Absent => kept'.cycles = res'.cycles
    BY <2>4 DEF TypeInv
  <2>7. ~InCycle'
    BY <2>5 DEF InCycle
  <2> QED BY <1>1, <2>3, <2>5, <2>6, <2>7, ResType DEF TypeInv
<1>5. CASE o \notin Errors
  <2>1. plan' = StepDone(plan) /\ res' = r
    BY <1>5 DEF Ends
  <2>2. plan' \in Plans(conf) /\ plan'.phase \notin {"end", "close"}
    <3>1. plan.step \in 1..Len(StepsOf(conf))
      BY ResType DEF Plans
    <3>2. CASE plan.step < Len(StepsOf(conf))
      BY <2>1, <3>2, PlanMoves
    <3>3. CASE ~(plan.step < Len(StepsOf(conf)))
      <4>1. plan' = AfterBase(plan)
        BY <2>1, <3>3 DEF StepDone
      <4> QED BY <4>1, PlanMoves
    <3> QED BY <3>2, <3>3
  <2>3. kept' # Absent => kept'.cycles = res'.cycles
    BY <2>1 DEF TypeInv
  <2>4. conf'.mode = "soak" /\ plan'.phase = "base" => res'.cycles < MaxCycles
    BY <1>1, <1>2, <2>1
  <2>5. ASSUME InCycle' PROVE kept' \in Results(conf) /\ SameFrame(kept', res')
    <3>1. conf.mode = "soak" /\ plan'.phase = "base" /\ plan'.step > CycleStart
      BY <2>5, <1>1 DEF InCycle
    <3>2. plan'.step = plan.step + 1
      BY <3>1, <2>1, <1>5, PlanMoves
    <3>3. CASE At("cycle")
      BY <3>3, <2>1, ResType
    <3>4. CASE ~At("cycle")
      <4>1. plan.step # CycleStart
        BY <3>1, <3>4
      <4>2. InCycle
        BY <3>1, <3>2, <4>1, <1>3 DEF InCycle, CycleStart
      <4> QED BY <4>2, <3>4, <2>1 DEF TypeInv
    <3> QED BY <3>3, <3>4
  <2> QED BY <1>1, <2>1, <2>2, <2>3, <2>4, <2>5, ResType DEF TypeInv
<1> QED BY <1>4, <1>5

FieldNames == {"link", "initial", "final", "ping", "fullSizePing", "tcp", "udp", "bidir", "cable",
               "skipped", "udpRateAssumed", "incomplete", "cycles"}
LEMMA ResultFields ==
  ASSUME NEW c, NEW r \in Results(c)
  PROVE  DOMAIN r = FieldNames
BY DEF Results, FieldNames

\* All fields but those of S are the same.
Same(r, q, S) == \A g \in FieldNames \ S : r[g] = q[g]
SameButEnd(r, q, field) == Same(r, q, {field})
SameButLog(r, q, field) == Same(r, q, {field, "skipped", "incomplete"})

\* The results with one end's reading, or one end's snapshot, put in.
WithEnd(r, field, s, v) == [r EXCEPT ![field][s] = v]
EndOf(field) == IF field = "link" THEN Readings ELSE Snapshots
LEMMA PutEnd ==
  ASSUME NEW c, NEW r \in Results(c), NEW s \in Side, NEW field \in {"link", "initial", "final"},
         NEW v \in EndOf(field), NEW q, q = WithEnd(r, field, s, v)
  PROVE  /\ q \in Results(c) /\ q[field][s] = v /\ SameButEnd(q, r, field)
         /\ \A t \in Side : t # s => q[field][t] = r[field][t]
<1>1. CASE field = "link"
  <2> DEFINE w == [r.link EXCEPT ![s] = v]
  <2>1. q = [r EXCEPT !.link = w]
    BY <1>1 DEF WithEnd
  <2>2. w \in [Side -> Readings \cup {Absent}] /\ w[s] = v /\ \A t \in Side : t # s => w[t] = r.link[t]
    BY <1>1 DEF Results, EndOf
  <2> HIDE DEF w
  <2>3. q \in Results(c) /\ q.link = w /\ \A g \in FieldNames \ {"link"} : q[g] = r[g]
    BY <2>1, <2>2 DEF Results, FieldNames
  <2> QED BY <1>1, <2>2, <2>3 DEF Same, SameButEnd
<1>2. CASE field = "initial"
  <2> DEFINE w == [r.initial EXCEPT ![s] = v]
  <2>1. q = [r EXCEPT !.initial = w]
    BY <1>2 DEF WithEnd
  <2>2. w \in [Side -> Snapshots \cup {Absent}] /\ w[s] = v /\ \A t \in Side : t # s => w[t] = r.initial[t]
    BY <1>2 DEF Results, EndOf
  <2> HIDE DEF w
  <2>3. q \in Results(c) /\ q.initial = w /\ \A g \in FieldNames \ {"initial"} : q[g] = r[g]
    BY <2>1, <2>2 DEF Results, FieldNames
  <2> QED BY <1>2, <2>2, <2>3 DEF Same, SameButEnd
<1>3. CASE field = "final"
  <2> DEFINE w == [r.final EXCEPT ![s] = v]
  <2>1. q = [r EXCEPT !.final = w]
    BY <1>3 DEF WithEnd
  <2>2. w \in [Side -> Snapshots \cup {Absent}] /\ w[s] = v /\ \A t \in Side : t # s => w[t] = r.final[t]
    BY <1>3 DEF Results, EndOf
  <2> HIDE DEF w
  <2>3. q \in Results(c) /\ q.final = w /\ \A g \in FieldNames \ {"final"} : q[g] = r[g]
    BY <2>1, <2>2 DEF Results, FieldNames
  <2> QED BY <1>3, <2>2, <2>3 DEF Same, SameButEnd
<1> QED BY <1>1, <1>2, <1>3

LEMMA Skipping ==
  ASSUME NEW c, NEW r \in Results(c), NEW test \in TestNames, NEW u \in Refusals,
         NEW q, q = recordSkippedTest(r, test, u)
  PROVE  /\ q \in Results(c) /\ Same(q, r, {"skipped"}) /\ r.skipped \subseteq q.skipped
         /\ \E x \in q.skipped : x.name = test
<1>1. q \in Results(c)
  BY SkipType
<1>2. \A g \in DOMAIN r : g # "skipped" => q[g] = r[g]
  BY SkipType
<1>3. r.skipped \subseteq q.skipped
  BY SkipType
<1>4. \E x \in q.skipped : x.name = test
  BY SkipType
<1> QED BY <1>1, <1>2, <1>3, <1>4, ResultFields DEF Same

LEMMA Recording ==
  ASSUME NEW c, NEW r \in Results(c), NEW field \in Logs, NEW test \in TestNames, NEW dir \in Side,
         NEW o \in Outcomes, NEW sample, NEW partial,
         Taken(dir, sample) \in EntryOf(c, field),
         o = "partial" => Taken(dir, partial) \in EntryOf(c, field),
         NEW q, q = Recorded(r, field, test, dir, o, sample, partial)
  PROVE  /\ q \in Results(c) /\ SameButLog(q, r, field)
         /\ r.skipped \subseteq q.skipped
         /\ o \in {"clean", "stopFailed"} => q[field] = Append(r[field], Taken(dir, sample))
         /\ o = "partial" => q[field] = Append(r[field], Taken(dir, partial))
         /\ o \in Refusals => q[field] = r[field] /\ \E x \in q.skipped : x.name = test
         /\ o # "partial" => q.incomplete = r.incomplete
         /\ o \notin Refusals => q.skipped = r.skipped
         /\ o = "failed" => q = r
<1>1. q \in Results(c)
  BY RecordedType
<1>2. /\ \A g \in DOMAIN r : g \notin {field, "skipped", "incomplete"} => q[g] = r[g]
      /\ r.skipped \subseteq q.skipped /\ (o # "partial" => q.incomplete = r.incomplete)
  BY RecordedType
<1>3. /\ o \in {"clean", "stopFailed"} => q[field] = Append(r[field], Taken(dir, sample))
      /\ o \in {"unavailable", "unreachable"} => q[field] = r[field] /\ \E x \in q.skipped : x.name = test
      /\ o = "failed" => q = r
  BY RecordedType
<1>4. "skipped" \in DOMAIN r /\ field \in DOMAIN r /\ field # "skipped" /\ field # "incomplete"
  BY DEF Results, Logs
<1>5. o = "partial" => q[field] = Append(r[field], Taken(dir, partial))
  <2> SUFFICES ASSUME o = "partial" PROVE q[field] = Append(r[field], Taken(dir, partial))
    OBVIOUS
  <2>1. q = [r EXCEPT ![field] = Append(@, Taken(dir, partial)), !.incomplete = TRUE]
    BY DEF Recorded
  <2> QED BY <2>1, <1>4
<1>6. o \notin Refusals => q.skipped = r.skipped
  <2> SUFFICES ASSUME o \notin Refusals PROVE q.skipped = r.skipped
    OBVIOUS
  <2>1. CASE o \in {"clean", "stopFailed"}
    <3>1. q = [r EXCEPT ![field] = Append(@, Taken(dir, sample))]
      BY <2>1 DEF Recorded
    <3> QED BY <3>1, <1>4
  <2>2. CASE o = "partial"
    <3>1. q = [r EXCEPT ![field] = Append(@, Taken(dir, partial)), !.incomplete = TRUE]
      BY <2>2 DEF Recorded
    <3> QED BY <3>1, <1>4
  <2>3. CASE o = "failed"
    BY <2>3, <1>3
  <2> QED BY <2>1, <2>2, <2>3 DEF Outcomes, Errors, Refusals
<1> QED BY <1>1, <1>2, <1>3, <1>5, <1>6, ResultFields DEF Same, SameButLog, Refusals

LEMMA MayIn ==
  ASSUME NEW S, NEW x \in May(S) PROVE x \in S
BY DEF May

LEMMA LinkStep ==
  ASSUME TypeInv, stepLink
  PROVE  \E n \in May(DOMAIN LinkReadings), o \in {"clean", "unavailable", "failed"},
            r \in Results(conf) :
           /\ At("link") /\ Unmoved /\ Blame({n}) /\ Ends(r, o) /\ spent' \in 0..MaxAnomalies
           /\ Same(r, res, {"link", "skipped"}) /\ res.skipped \subseteq r.skipped
           /\ r.link.PC1 = LinkReadings[n]
           /\ r.link.PC2 = IF o = "clean" THEN LinkReadings[n] ELSE res.link.PC2
<1> DEFINE r1(n) == [res EXCEPT !.link.PC1 = LinkReadings[n]]
           r2(n, o) == CASE o = "clean" -> [r1(n) EXCEPT !.link.PC2 = LinkReadings[n]]
                         [] o = "unavailable" -> recordSkippedTest(r1(n), "link_settings", o)
                         [] o = "failed" -> r1(n)
<1>1. PICK n \in May(DOMAIN LinkReadings), o \in May({"clean", "unavailable", "failed"}) :
         Reachable(o) /\ Spend(<<n, o>>) /\ Blame({n}) /\ Ends(r2(n, o), o)
  BY DEF stepLink
<1>2. At("link") /\ Unmoved
  BY DEF stepLink
<1>3. n \in DOMAIN LinkReadings /\ o \in {"clean", "unavailable", "failed"}
  BY <1>1, MayIn
<1>4. LinkReadings[n] \in Readings
  BY <1>3, ReadingTypes, ResType
<1>5. spent' \in 0..MaxAnomalies
  <2>1. DOMAIN <<n, o>> = 1..2 /\ 2 \in Nat
    OBVIOUS
  <2> QED BY <2>1, <1>1, SpendType, ResType
<1> DEFINE q == r1(n)
<1>6. q = WithEnd(res, "link", "PC1", LinkReadings[n])
  BY DEF WithEnd
<1>6a. "PC1" \in Side /\ "PC2" \in Side /\ res \in Results(conf) /\ "PC1" # "PC2"
  BY ResType DEF Side
<1>7. /\ q \in Results(conf) /\ q.link.PC1 = LinkReadings[n] /\ SameButEnd(q, res, "link")
      /\ q.link.PC2 = res.link.PC2
  <2> HIDE DEF q
  <2>1. "link" \in {"link", "initial", "final"} /\ LinkReadings[n] \in EndOf("link")
    BY <1>4 DEF EndOf
  <2>2. q \in Results(conf) /\ q["link"]["PC1"] = LinkReadings[n]
    BY <2>1, <1>4, <1>6, <1>6a, PutEnd
  <2>3. SameButEnd(q, res, "link")
    BY <2>1, <1>4, <1>6, <1>6a, PutEnd
  <2>4. \A t \in Side : t # "PC1" => q["link"][t] = res["link"][t]
    BY <2>1, <1>4, <1>6, <1>6a, PutEnd
  <2> QED BY <2>2, <2>3, <2>4, <1>6a
<1> DEFINE r == r2(n, o)
<1>8. CASE o = "clean"
  <2>1. r = WithEnd(q, "link", "PC2", LinkReadings[n])
    BY <1>8 DEF WithEnd
  <2> HIDE DEF q, r
  <2>2. /\ r \in Results(conf) /\ r.link.PC2 = LinkReadings[n] /\ SameButEnd(r, q, "link")
        /\ r.link.PC1 = q.link.PC1
    <3>1. "link" \in {"link", "initial", "final"} /\ LinkReadings[n] \in EndOf("link")
      BY <1>4 DEF EndOf
    <3>2. r \in Results(conf) /\ r["link"]["PC2"] = LinkReadings[n]
      BY <3>1, <1>4, <2>1, <1>6a, <1>7, PutEnd
    <3>3. SameButEnd(r, q, "link")
      BY <3>1, <1>4, <2>1, <1>6a, <1>7, PutEnd
    <3>4. \A t \in Side : t # "PC2" => r["link"][t] = q["link"][t]
      BY <3>1, <1>4, <2>1, <1>6a, <1>7, PutEnd
    <3> QED BY <3>2, <3>3, <3>4, <1>6a
  <2>3. Same(r, res, {"link", "skipped"}) /\ res.skipped \subseteq r.skipped
    BY <1>7, <2>2 DEF Same, SameButEnd, FieldNames
  <2>4. Ends(r, o)
    BY <1>1 DEF r
  <2> QED BY <1>1, <1>2, <1>3, <1>5, <1>7, <1>8, <2>2, <2>3, <2>4
<1>9. CASE o = "unavailable"
  <2>1. r = recordSkippedTest(q, "link_settings", o)
    BY <1>9
  <2>2. Ends(r, o)
    BY <1>1
  <2>2a. "link_settings" \in TestNames /\ o \in Refusals
    BY <1>9 DEF TestNames, Refusals
  <2> HIDE DEF q, r
  <2>3. r \in Results(conf) /\ Same(r, q, {"skipped"}) /\ q.skipped \subseteq r.skipped
    BY <2>1, <2>2a, <1>7, Skipping
  <2>4. Same(r, res, {"link", "skipped"}) /\ res.skipped \subseteq r.skipped /\ r.link = q.link
    BY <1>7, <2>3 DEF Same, SameButEnd, FieldNames
  <2> QED BY <1>1, <1>2, <1>3, <1>5, <1>7, <1>9, <2>2, <2>3, <2>4
<1>10. CASE o = "failed"
  <2>1. r = q
    BY <1>10
  <2>2. Ends(q, o)
    BY <1>1, <2>1
  <2> HIDE DEF q, r
  <2>4. Same(q, res, {"link", "skipped"}) /\ res.skipped \subseteq q.skipped
    BY <1>7 DEF Same, SameButEnd, FieldNames
  <2> QED BY <1>1, <1>2, <1>3, <1>5, <1>7, <1>10, <2>2, <2>4
<1> QED BY <1>3, <1>8, <1>9, <1>10

\* The two snapshots of one boundary.
LEMMA SnapshotsTaken ==
  ASSUME TypeInv, NEW into \in {"initial", "final"}, NEW o \in CounterOutcomes,
         NEW r, r = snapshotCounters(res, into, o)
  PROVE  /\ r \in Results(conf) /\ Same(r, res, {into, "skipped"}) /\ res.skipped \subseteq r.skipped
         /\ r[into]["PC1"] = IF o = "stopFailed" THEN res[into]["PC1"] ELSE Snapshot("PC1")
         /\ r[into]["PC2"] = IF o = "clean" THEN Snapshot("PC2") ELSE res[into]["PC2"]
<1> DEFINE q == [res EXCEPT ![into].PC1 = Snapshot("PC1")]
<1>1. "PC1" \in Side /\ "PC2" \in Side /\ res \in Results(conf) /\ "PC1" # "PC2"
  BY ResType DEF Side
<1>2. Snapshot("PC1") \in Snapshots /\ Snapshot("PC2") \in Snapshots
  BY <1>1, SnapshotType
<1>3. /\ into \in {"link", "initial", "final"} /\ into # "link"
      /\ Snapshot("PC1") \in EndOf(into) /\ Snapshot("PC2") \in EndOf(into)
  BY <1>2 DEF EndOf
<1>4. q = WithEnd(res, into, "PC1", Snapshot("PC1"))
  BY DEF WithEnd
<1>5. /\ o = "clean" => r = WithEnd(q, into, "PC2", Snapshot("PC2"))
      /\ o = "unavailable" => r = recordSkippedTest(q, "counters", o)
      /\ o = "failed" => r = q
      /\ o = "stopFailed" => r = res
  BY DEF WithEnd, snapshotCounters
<1> HIDE DEF q
<1>6. q \in Results(conf) /\ q[into]["PC1"] = Snapshot("PC1")
  BY <1>1, <1>2, <1>3, <1>4, PutEnd
<1>7. SameButEnd(q, res, into)
  BY <1>1, <1>2, <1>3, <1>4, PutEnd
<1>8. q[into]["PC2"] = res[into]["PC2"]
  BY <1>1, <1>2, <1>3, <1>4, PutEnd
<1>9. CASE o = "clean"
  <2>1. r \in Results(conf) /\ r[into]["PC2"] = Snapshot("PC2")
    BY <1>1, <1>2, <1>3, <1>5, <1>6, <1>9, PutEnd
  <2>2. SameButEnd(r, q, into)
    BY <1>1, <1>2, <1>3, <1>5, <1>6, <1>9, PutEnd
  <2>3. r[into]["PC1"] = q[into]["PC1"]
    BY <1>1, <1>2, <1>3, <1>5, <1>6, <1>9, PutEnd
  <2> QED BY <1>3, <1>6, <1>7, <1>9, <2>1, <2>2, <2>3 DEF Same, SameButEnd, SameButLog, FieldNames
<1>10. CASE o = "unavailable"
  <2>1. "counters" \in TestNames /\ o \in Refusals
    BY <1>10 DEF TestNames, Refusals
  <2>2. r \in Results(conf) /\ Same(r, q, {"skipped"}) /\ q.skipped \subseteq r.skipped
    BY <1>5, <1>6, <1>10, <2>1, Skipping
  <2>3. r[into] = q[into]
    BY <1>3, <2>2 DEF Same, SameButEnd, SameButLog, FieldNames
  <2> QED BY <1>3, <1>6, <1>7, <1>8, <1>10, <2>2, <2>3 DEF Same, SameButEnd, SameButLog, FieldNames
<1>11. CASE o = "failed"
  <2>1. r = q
    BY <1>5, <1>11
  <2> QED BY <1>3, <1>6, <1>7, <1>8, <1>11, <2>1 DEF Same, SameButEnd, SameButLog, FieldNames
<1>12. CASE o = "stopFailed"
  <2>1. r = res
    BY <1>5, <1>12
  <2> QED BY <1>1, <1>12, <2>1 DEF Same
<1> QED BY <1>9, <1>10, <1>11, <1>12 DEF CounterOutcomes

LEMMA CounterStep ==
  ASSUME TypeInv, NEW into \in {"initial", "final"}, stepCounters(into, into)
  PROVE  \E o \in CounterOutcomes, r \in Results(conf) :
           /\ At(into) /\ Unmoved /\ faults' = faults /\ Ends(r, o) /\ spent' \in 0..MaxAnomalies
           /\ Same(r, res, {into, "skipped"}) /\ res.skipped \subseteq r.skipped
           /\ r[into]["PC1"] = IF o = "stopFailed" THEN res[into]["PC1"] ELSE Snapshot("PC1")
           /\ r[into]["PC2"] = IF o = "clean" THEN Snapshot("PC2") ELSE res[into]["PC2"]
<1>1. At(into) /\ Unmoved /\ faults' = faults
  BY DEF stepCounters
<1>2. PICK o \in May(CounterOutcomes) : Spend(<<o>>) /\ Ends(snapshotCounters(res, into, o), o)
  BY DEF stepCounters
<1>3. o \in CounterOutcomes
  BY <1>2, MayIn
<1>4. spent' \in 0..MaxAnomalies
  <2>1. DOMAIN <<o>> = 1..1 /\ 1 \in Nat
    OBVIOUS
  <2> QED BY <2>1, <1>2, SpendType, ResType
<1> DEFINE r == snapshotCounters(res, into, o)
<1>5. Ends(r, o)
  BY <1>2
<1>6. /\ r \in Results(conf) /\ Same(r, res, {into, "skipped"}) /\ res.skipped \subseteq r.skipped
  BY <1>3, SnapshotsTaken
<1>7. /\ r[into]["PC1"] = IF o = "stopFailed" THEN res[into]["PC1"] ELSE Snapshot("PC1")
      /\ r[into]["PC2"] = IF o = "clean" THEN Snapshot("PC2") ELSE res[into]["PC2"]
  BY <1>3, SnapshotsTaken
<1> HIDE DEF r
<1> QED BY <1>1, <1>3, <1>4, <1>5, <1>6, <1>7

LEMMA PingStep ==
  ASSUME TypeInv, NEW field \in {"ping", "fullSizePing"}, NEW test \in {"ping", "full_size_ping"},
         NEW names \in SUBSET DOMAIN Pings, PingBoth(field, test, names)
  PROVE  \E n1, n2 \in May(names), o \in {"clean", "unavailable", "failed"}, r \in Results(conf) :
           /\ Blame({n1, n2}) /\ Ends(r, o) /\ spent' \in 0..MaxAnomalies
           /\ Same(r, res, {field, "skipped"}) /\ res.skipped \subseteq r.skipped
           /\ LET one == Append(res[field], Taken("PC1", Pings[n1]))
              IN r[field] = IF o = "clean" THEN Append(one, Taken("PC2", Pings[n2])) ELSE one
           /\ o = "unavailable" => \E x \in r.skipped : x.name = test
<1> DEFINE q(n) == Recorded(res, field, test, "PC1", "clean", Pings[n], << >>)
<1>1. PICK n1 \in May(names), n2 \in May(names), o \in May({"clean", "unavailable", "failed"}) :
        /\ Spend(<<n1, n2, o>>) /\ Blame({n1, n2})
        /\ Ends(Recorded(q(n1), field, test, "PC2", o, Pings[n2], << >>), o)
  BY DEF PingBoth
<1>2. /\ n1 \in DOMAIN Pings /\ n2 \in DOMAIN Pings /\ o \in {"clean", "unavailable", "failed"}
      /\ n1 \in names /\ n2 \in names
  BY <1>1, MayIn
<1>3. spent' \in 0..MaxAnomalies
  <2>1. DOMAIN <<n1, n2, o>> = 1..3 /\ 3 \in Nat
    OBVIOUS
  <2> QED BY <2>1, <1>1, SpendType, ResType
<1>4. res \in Results(conf) /\ field \in Logs /\ test \in TestNames /\ o \in Outcomes
      /\ "clean" \in Outcomes /\ "PC1" \in Side /\ "PC2" \in Side
  BY <1>2, ResType DEF Logs, TestNames, Outcomes, Side, Errors
<1> DEFINE e1 == Taken("PC1", Pings[n1])
           e2 == Taken("PC2", Pings[n2])
<1>5. e1 \in EntryOf(conf, field) /\ e2 \in EntryOf(conf, field)
  <2>1. Pings[n1] \in PingM /\ Pings[n2] \in PingM
    BY <1>2, PingTypes
  <2>2. e1 \in Entry(PingM) /\ e2 \in Entry(PingM)
    BY <1>4, <2>1 DEF Entry, Taken
  <2>3. EntryOf(conf, field) = Entry(PingM)
    BY DEF EntryOf
  <2> QED BY <2>2, <2>3
<1> DEFINE r1 == q(n1)
           r == Recorded(r1, field, test, "PC2", o, Pings[n2], << >>)
<1>6. Ends(r, o)
  BY <1>1
<1>7. /\ r1 \in Results(conf) /\ SameButLog(r1, res, field)
      /\ r1[field] = Append(res[field], e1) /\ r1.incomplete = res.incomplete /\ res.skipped = r1.skipped
  <2>1. "clean" # "partial" /\ "clean" \notin Refusals
    BY DEF Refusals
  <2>2. /\ r1 \in Results(conf) /\ SameButLog(r1, res, field)
    BY <1>4, <1>5, <2>1, Recording
  <2>3. r1[field] = Append(res[field], e1) /\ r1.incomplete = res.incomplete /\ res.skipped = r1.skipped
    BY <1>4, <1>5, <2>1, Recording
  <2> QED BY <2>2, <2>3
<1> HIDE DEF r1
<1>8. /\ r \in Results(conf) /\ SameButLog(r, r1, field) /\ r1.skipped \subseteq r.skipped
      /\ o = "clean" => r[field] = Append(r1[field], e2)
      /\ o = "unavailable" => r[field] = r1[field] /\ \E x \in r.skipped : x.name = test
      /\ r.incomplete = r1.incomplete
      /\ o = "failed" => r = r1
  <2>1. o # "partial"
    BY <1>2
  <2>2. /\ r \in Results(conf) /\ SameButLog(r, r1, field) /\ r1.skipped \subseteq r.skipped
    BY <1>4, <1>5, <1>7, <2>1, Recording
  <2>3. o = "clean" => r[field] = Append(r1[field], e2)
    BY <1>4, <1>5, <1>7, <2>1, Recording
  <2>4. o = "unavailable" => r[field] = r1[field] /\ \E x \in r.skipped : x.name = test
    BY <1>4, <1>5, <1>7, <2>1, Recording DEF Refusals
  <2>5. r.incomplete = r1.incomplete /\ (o = "failed" => r = r1)
    BY <1>4, <1>5, <1>7, <2>1, Recording
  <2> QED BY <2>2, <2>3, <2>4, <2>5
<1> HIDE DEF r
<1>9. Same(r, res, {field, "skipped"}) /\ res.skipped \subseteq r.skipped
  BY <1>7, <1>8 DEF Same, SameButEnd, SameButLog, FieldNames
<1>10. r[field] = IF o = "clean" THEN Append(Append(res[field], e1), e2) ELSE Append(res[field], e1)
  BY <1>2, <1>7, <1>8
<1> QED BY <1>1, <1>2, <1>3, <1>6, <1>8, <1>9, <1>10

LEMMA TCPStep ==
  ASSUME TypeInv, NEW dir \in Side, NEW outcomes \in SUBSET Outcomes, TCPPhase(dir, outcomes)
  PROVE  \E o \in outcomes, n \in DOMAIN Trials, r \in Results(conf) :
           /\ Blame({n}) /\ Ends(r, o) /\ spent' \in 0..MaxAnomalies /\ (o = "clean" \/ n = "clean")
           /\ SameButLog(r, res, "tcp") /\ res.skipped \subseteq r.skipped
           /\ o # "partial" => r.incomplete = res.incomplete
           /\ o \in {"clean", "stopFailed"} => r.tcp = Append(res.tcp, Taken(dir, Trials[n]))
           /\ o = "partial" => r.tcp = Append(res.tcp, Taken(dir, PartialTrial))
           /\ o \in Refusals \cup {"failed"} => r.tcp = res.tcp
<1>1. PICK o \in May(outcomes), n \in May(DOMAIN Trials) :
        /\ (o = "clean" \/ n = "clean") /\ Spend(<<o, n>>) /\ Blame({n})
        /\ Ends(Recorded(res, "tcp", "tcp", dir, o, Trials[n], PartialTrial), o)
  BY DEF TCPPhase
<1>2. n \in DOMAIN Trials /\ o \in outcomes
  BY <1>1, MayIn
<1>3. spent' \in 0..MaxAnomalies
  <2>1. DOMAIN <<o, n>> = 1..2 /\ 2 \in Nat
    OBVIOUS
  <2> QED BY <2>1, <1>1, SpendType, ResType
<1>4. res \in Results(conf) /\ "tcp" \in Logs /\ "tcp" \in TestNames /\ o \in Outcomes
  BY <1>2, ResType DEF Logs, TestNames
<1>5. /\ Taken(dir, Trials[n]) \in EntryOf(conf, "tcp")
      /\ Taken(dir, PartialTrial) \in EntryOf(conf, "tcp")
  <2>1. Trials[n] \in TCPM(conf) /\ PartialTrial \in TCPM(conf)
    BY <1>2, ResType, TrialTypes
  <2>2. EntryOf(conf, "tcp") = Entry(TCPM(conf))
    BY DEF EntryOf
  <2> QED BY <2>1, <2>2 DEF Entry, Taken
<1> DEFINE r == Recorded(res, "tcp", "tcp", dir, o, Trials[n], PartialTrial)
<1>6. Ends(r, o)
  BY <1>1
<1>7. r \in Results(conf) /\ SameButLog(r, res, "tcp") /\ res.skipped \subseteq r.skipped
  BY <1>4, <1>5, Recording
<1>8. /\ o \in {"clean", "stopFailed"} => r["tcp"] = Append(res["tcp"], Taken(dir, Trials[n]))
      /\ o = "partial" => r["tcp"] = Append(res["tcp"], Taken(dir, PartialTrial))
  BY <1>4, <1>5, Recording
<1>9. o \in Refusals => r["tcp"] = res["tcp"]
  BY <1>4, <1>5, Recording
<1>10. (o # "partial" => r.incomplete = res.incomplete) /\ (o = "failed" => r = res)
  BY <1>4, <1>5, Recording
<1> HIDE DEF r
<1> QED BY <1>1, <1>2, <1>3, <1>6, <1>7, <1>8, <1>9, <1>10

LEMMA WithBidirType ==
  ASSUME NEW c, NEW r \in Results(c), NEW k \in Metric, NEW q, q = WithBidir(r, k)
  PROVE  /\ q \in Results(c) /\ Same(q, r, {"bidir"})
         /\ q.bidir = [host |-> k, remote |-> k] /\ q.bidir # Absent
<1> DEFINE l == [host |-> k, remote |-> k]
<1>1. l \in Load /\ l \in Loads
  BY DEF Load, Loads, Metric
<1>2. l # Absent
  BY <1>1, AbsentAssumption
<1>3. q = [r EXCEPT !.bidir = l]
  BY DEF WithBidir
<1> HIDE DEF l
<1>4. q \in Results(c) /\ (\A g \in FieldNames \ {"bidir"} : q[g] = r[g]) /\ q.bidir = l
  BY <1>1, <1>3 DEF Results, FieldNames
<1> QED BY <1>2, <1>4 DEF l, Same

\* What the bidirectional test leaves: r, after the outcome o.
BidirLeaves(o, n, r) ==
  /\ Ends(r, o) /\ spent' \in 0..MaxAnomalies
  /\ Same(r, res, {"bidir", "skipped"}) /\ res.skipped \subseteq r.skipped
  /\ r.bidir = res.bidir \/ \E k \in {0, Trials[n].host} : r.bidir = [host |-> k, remote |-> k]
  /\ o \notin Errors =>
       r.bidir # Absent \/ \E x \in r.skipped : x.name = "bidirectional"

LEMMA BidirLoad ==
  ASSUME TypeInv, NEW n \in {"clean", "hot"}
  PROVE  /\ res \in Results(conf) /\ "bidirectional" \in TestNames /\ 0 \in Metric
         /\ Trials[n].host \in Metric
<1>1. n \in DOMAIN Trials
  BY DEF Trials
<1> QED BY <1>1, ResType, TrialTypes, Metrics DEF TestNames

LEMMA BidirSkipped ==
  ASSUME TypeInv, NEW o \in Refusals, NEW n, NEW r, r = recordSkippedTest(res, "bidirectional", o),
         Ends(r, o), spent' \in 0..MaxAnomalies
  PROVE  r \in Results(conf) /\ BidirLeaves(o, n, r)
<1>1. res \in Results(conf) /\ "bidirectional" \in TestNames
  BY ResType DEF TestNames
<1>2. r \in Results(conf) /\ Same(r, res, {"skipped"}) /\ res.skipped \subseteq r.skipped
  BY <1>1, Skipping
<1>3. \E x \in r.skipped : x.name = "bidirectional"
  BY <1>1, Skipping
<1>4. Same(r, res, {"bidir", "skipped"}) /\ r.bidir = res.bidir
  BY <1>2 DEF Same, FieldNames
<1> QED BY <1>2, <1>3, <1>4 DEF BidirLeaves

LEMMA BidirKept ==
  ASSUME TypeInv, NEW o \in Outcomes, NEW n \in {"clean", "hot"}, NEW k \in {0, Trials[n].host},
         NEW q \in Results(conf), Same(q, res, {"skipped"}), res.skipped \subseteq q.skipped,
         NEW r, r = WithBidir(q, k), Ends(r, o), spent' \in 0..MaxAnomalies
  PROVE  r \in Results(conf) /\ BidirLeaves(o, n, r)
<1>1. k \in Metric
  BY BidirLoad
<1>2. /\ r \in Results(conf) /\ Same(r, q, {"bidir"})
      /\ r.bidir = [host |-> k, remote |-> k] /\ r.bidir # Absent
  BY <1>1, WithBidirType
<1>3. Same(r, res, {"bidir", "skipped"}) /\ r.skipped = q.skipped
  BY <1>2 DEF Same, FieldNames
<1> QED BY <1>2, <1>3 DEF BidirLeaves

LEMMA NativeLeaves ==
  ASSUME TypeInv, bidirNative
  PROVE  \E o \in Outcomes, n \in {"clean", "hot"}, r \in Results(conf) : BidirLeaves(o, n, r)
<1> DEFINE rr(o, n) == CASE o \in {"clean", "stopFailed"} -> WithBidir(res, Trials[n].host)
                         [] o \in {"unavailable", "unreachable"} ->
                              recordSkippedTest(res, "bidirectional", o)
                         [] o = "partial" -> WithBidir(res, 0)
                         [] o = "failed" -> res
<1>1. PICK o \in May(Outcomes), n \in May({"clean", "hot"}) : Spend(<<o, n>>) /\ Ends(rr(o, n), o)
  BY DEF bidirNative
<1>2. n \in {"clean", "hot"} /\ o \in Outcomes
  BY <1>1, MayIn
<1>3. spent' \in 0..MaxAnomalies
  <2>1. DOMAIN <<o, n>> = 1..2 /\ 2 \in Nat
    OBVIOUS
  <2> QED BY <2>1, <1>1, SpendType, ResType
<1>4. res \in Results(conf) /\ Same(res, res, {"skipped"})
  BY ResType DEF Same
<1> DEFINE r == rr(o, n)
<1>5. Ends(r, o)
  BY <1>1
<1>6. CASE o \in {"clean", "stopFailed"}
  <2>1. r = WithBidir(res, Trials[n].host)
    BY <1>6
  <2> HIDE DEF r
  <2>2. r \in Results(conf) /\ BidirLeaves(o, n, r)
    BY <1>2, <1>3, <1>4, <1>5, <2>1, BidirKept
  <2> QED BY <1>2, <2>2
<1>7. CASE o = "partial"
  <2>1. r = WithBidir(res, 0)
    BY <1>7
  <2> HIDE DEF r
  <2>2. r \in Results(conf) /\ BidirLeaves(o, n, r)
    BY <1>2, <1>3, <1>4, <1>5, <2>1, BidirKept
  <2> QED BY <1>2, <2>2
<1>8. CASE o = "failed"
  <2>1. r = res
    BY <1>8
  <2> HIDE DEF r
  <2>2. Same(r, res, {"bidir", "skipped"}) /\ res.skipped \subseteq r.skipped
    BY <2>1 DEF Same
  <2> QED BY <1>2, <1>3, <1>4, <1>5, <1>8, <2>1, <2>2 DEF Errors, BidirLeaves
<1>9. CASE o \in Refusals
  <2>1. r = recordSkippedTest(res, "bidirectional", o)
    BY <1>9 DEF Refusals
  <2> HIDE DEF r
  <2>2. r \in Results(conf) /\ BidirLeaves(o, n, r)
    BY <1>3, <1>5, <1>9, <2>1, BidirSkipped
  <2> QED BY <1>2, <2>2
<1> QED BY <1>2, <1>6, <1>7, <1>8, <1>9 DEF Outcomes, Errors, Refusals

LEMMA FallbackLeaves ==
  ASSUME TypeInv, NEW caps, bidirFallback(caps)
  PROVE  \E o \in Outcomes, n \in {"clean", "hot"}, r \in Results(conf) : BidirLeaves(o, n, r)
<1> DEFINE sk(r, o) == IF o \in {"unavailable", "unreachable"}
                       THEN recordSkippedTest(r, "bidirectional", o) ELSE r
           load(own, n) == IF own = "clean" THEN Trials[n].host ELSE 0
           end(own, theirs, stop) ==
             IF {own, theirs, stop} \cap Errors = {} THEN "clean" ELSE "failed"
           served == Spend(<<caps, "unavailable">>) /\ Ends(sk(res, "unavailable"), "unavailable")
<1>1. \/ served
      \/ \E own \in May({"clean", "unreachable", "partial", "failed"}),
           theirs \in May(Outcomes \ {"stopFailed"}),
           stop \in May({"clean", "stopFailed"}), n \in May({"clean", "hot"}) :
           /\ Spend(<<caps, own, theirs, stop, n>>)
           /\ Ends(WithBidir(sk(sk(res, theirs), own), load(own, n)), end(own, theirs, stop))
  BY DEF bidirFallback
<1>2. res \in Results(conf) /\ "bidirectional" \in TestNames
  BY ResType DEF TestNames
<1>3. ASSUME NEW q \in Results(conf), NEW o
      PROVE  /\ sk(q, o) \in Results(conf) /\ Same(sk(q, o), q, {"skipped"})
             /\ q.skipped \subseteq sk(q, o).skipped
  <2>1. CASE o \in Refusals
    <3> DEFINE p == sk(q, o)
    <3>1. p = recordSkippedTest(q, "bidirectional", o)
      BY <2>1 DEF Refusals
    <3> HIDE DEF p
    <3>2. p \in Results(conf) /\ Same(p, q, {"skipped"}) /\ q.skipped \subseteq p.skipped
      BY <1>2, <2>1, <3>1, Skipping
    <3> QED BY <3>2 DEF p
  <2>2. CASE o \notin Refusals
    BY <2>2 DEF Refusals, Same
  <2> QED BY <2>1, <2>2
<1>4. CASE served
  <2> DEFINE r == sk(res, "unavailable")
  <2>1. spent' \in 0..MaxAnomalies
    <3>1. DOMAIN <<caps, "unavailable">> = 1..2 /\ 2 \in Nat
      OBVIOUS
    <3> QED BY <3>1, <1>4, SpendType, ResType
  <2>2. r = recordSkippedTest(res, "bidirectional", "unavailable") /\ Ends(r, "unavailable")
    BY <1>4
  <2> HIDE DEF r
  <2>3. r \in Results(conf) /\ BidirLeaves("unavailable", "clean", r)
    BY <2>1, <2>2, BidirSkipped DEF Refusals
  <2> QED BY <2>3 DEF Outcomes
<1>5. CASE ~served
  <2>1. PICK own \in May({"clean", "unreachable", "partial", "failed"}),
             theirs \in May(Outcomes \ {"stopFailed"}),
             stop \in May({"clean", "stopFailed"}), n \in May({"clean", "hot"}) :
             /\ Spend(<<caps, own, theirs, stop, n>>)
             /\ Ends(WithBidir(sk(sk(res, theirs), own), load(own, n)), end(own, theirs, stop))
    BY <1>1, <1>5
  <2>2. n \in {"clean", "hot"}
    BY MayIn
  <2>3. spent' \in 0..MaxAnomalies
    <3>1. DOMAIN <<caps, own, theirs, stop, n>> = 1..5 /\ 5 \in Nat
      OBVIOUS
    <3> QED BY <3>1, <2>1, SpendType, ResType
  <2> DEFINE p == sk(res, theirs)
             q == sk(p, own)
             k == load(own, n)
             o == end(own, theirs, stop)
             r == WithBidir(q, k)
  <2>4. p \in Results(conf) /\ Same(p, res, {"skipped"}) /\ res.skipped \subseteq p.skipped
    BY <1>2, <1>3
  <2>5. q \in Results(conf) /\ Same(q, p, {"skipped"}) /\ p.skipped \subseteq q.skipped
    <3> HIDE DEF p
    <3> QED BY <1>3, <2>4
  <2>6. k \in {0, Trials[n].host} /\ o \in Outcomes /\ Ends(r, o) /\ r = WithBidir(q, k)
    BY <2>1 DEF Outcomes, Errors
  <2> HIDE DEF p, q, k, o, r
  <2>7. Same(q, res, {"skipped"}) /\ res.skipped \subseteq q.skipped
    BY <2>4, <2>5 DEF Same
  <2>8. r \in Results(conf) /\ BidirLeaves(o, n, r)
    BY <2>2, <2>3, <2>5, <2>6, <2>7, BidirKept
  <2> QED BY <2>2, <2>6, <2>8
<1> QED BY <1>4, <1>5

LEMMA BidirStep ==
  ASSUME TypeInv, stepBidir
  PROVE  \E o \in Outcomes, n \in {"clean", "hot"}, r \in Results(conf) :
           /\ At("bidir") /\ Unmoved /\ faults' = faults
           /\ Ends(r, o) /\ spent' \in 0..MaxAnomalies
           /\ Same(r, res, {"bidir", "skipped"}) /\ res.skipped \subseteq r.skipped
           /\ r.bidir = res.bidir \/ \E k \in {0, Trials[n].host} : r.bidir = [host |-> k, remote |-> k]
           /\ o \notin Errors =>
                r.bidir # Absent \/ \E x \in r.skipped : x.name = "bidirectional"
<1>1. At("bidir") /\ Unmoved /\ faults' = faults
  BY DEF stepBidir
<1>2. \E o \in Outcomes, n \in {"clean", "hot"}, r \in Results(conf) : BidirLeaves(o, n, r)
  <2>1. CASE Happens("failed") /\ Ends(res, "failed")
    <3>1. spent' \in 0..MaxAnomalies
      BY <2>1, HappensType, ResType
    <3>2. res \in Results(conf) /\ Same(res, res, {"bidir", "skipped"})
      BY ResType DEF Same
    <3> QED BY <2>1, <3>1, <3>2 DEF BidirLeaves, Outcomes, Errors
  <2>2. CASE bidirNative
    BY <2>2, NativeLeaves
  <2>3. CASE \E caps \in {"clean", "unavailable"} : bidirFallback(caps)
    BY <2>3, FallbackLeaves
  <2> QED BY <2>1, <2>2, <2>3 DEF stepBidir
<1> QED BY <1>1, <1>2 DEF BidirLeaves

LEMMA RateType ==
  ASSUME TypeInv
  PROVE  udpRate(res) \in Nat /\ reducedRate(udpRate(res)) \in Nat
<1> DEFINE known == {res.link[s].speed : s \in {x \in Side : res.link[x] # Absent}} \ {0}
<1>1. res.link \in [Side -> Readings \cup {Absent}] /\ conf.udpRate \in Nat
  BY ResType, ConfType DEF Results
<1>2. known \in SUBSET Nat
  BY <1>1 DEF Readings
<1> HIDE DEF known
<1>3. known # {} => Min(known) \in Nat
  BY <1>2, Least
<1>4. negotiatedBitrate(res) \in Nat
  BY <1>3 DEF negotiatedBitrate, known
<1> DEFINE b == negotiatedBitrate(res)
<1>5. b \in Nat
  BY <1>4
<1>6. udpRate(res) = IF conf.udpRate > 0 THEN conf.udpRate ELSE IF b = 0 THEN AssumedRate ELSE (b * 80) \div 100
  BY DEF udpRate
<1> HIDE DEF b
<1>7. udpRate(res) \in Nat
  BY <1>1, <1>5, <1>6 DEF AssumedRate
<1> QED BY <1>7 DEF reducedRate

\* One UDP phase at a rate: the forward run, and the reverse one unless the
\* forward one was refused.
LEMMA UDPStep ==
  ASSUME TypeInv, NEW rate \in Nat, stepUDPAtRate(rate)
  PROVE  \E o \in Outcomes, n1, n2 \in DOMAIN UDPRuns(rate), r, q \in Results(conf) :
           /\ UDPBlame({n1, n2}, rate) /\ Ends(r, o) /\ spent' \in 0..MaxAnomalies
           /\ Same(r, res, {"udp", "skipped", "incomplete", "udpRateAssumed"})
           /\ res.skipped \subseteq r.skipped
           /\ q.udp \in {res.udp, Append(res.udp, Taken("PC1", UDPRuns(rate)[n1])),
                         Append(res.udp, Taken("PC1", PartialUDP(rate)))}
           /\ r.udp \in {q.udp, Append(q.udp, Taken("PC2", UDPRuns(rate)[n2])),
                         Append(q.udp, Taken("PC2", PartialUDP(rate)))}
           /\ o \notin Errors =>
                /\ r.incomplete = res.incomplete
                /\ \/ \E x \in r.skipped : x.name = "udp"
                   \/ r.udp = Append(Append(res.udp, Taken("PC1", UDPRuns(rate)[n1])),
                                     Taken("PC2", UDPRuns(rate)[n2]))
<1> DEFINE b == res.udpRateAssumed \/ (conf.udpRate = 0 /\ negotiatedBitrate(res) = 0)
           r0 == [res EXCEPT !.udpRateAssumed = b]
           r1(o1, n1) == Recorded(r0, "udp", "udp", "PC1", o1, UDPRuns(rate)[n1], PartialUDP(rate))
           r2(o1, n1, o2, n2) ==
             Recorded(r1(o1, n1), "udp", "udp", "PC2", o2, UDPRuns(rate)[n2], PartialUDP(rate))
<1>1. PICK o1 \in May(Outcomes), o2 \in May(Outcomes \ {"stopFailed"}),
           n1 \in May(DOMAIN UDPRuns(rate)), n2 \in May(DOMAIN UDPRuns(rate)) :
         /\ Spend(<<o1, n1, o2, n2>>) /\ UDPBlame({n1, n2}, rate)
         /\ IF o1 \in Errors \cup {"unavailable"} THEN Ends(r1(o1, n1), o1)
                                                  ELSE Ends(r2(o1, n1, o2, n2), o2)
  BY DEF stepUDPAtRate
<1>2. /\ n1 \in DOMAIN UDPRuns(rate) /\ n2 \in DOMAIN UDPRuns(rate)
      /\ o1 \in Outcomes /\ o2 \in Outcomes
  BY <1>1, MayIn
<1>3. spent' \in 0..MaxAnomalies
  <2>1. DOMAIN <<o1, n1, o2, n2>> = 1..4 /\ 4 \in Nat
    OBVIOUS
  <2> QED BY <2>1, <1>1, SpendType, ResType
<1>4. res \in Results(conf) /\ "udp" \in Logs /\ "udp" \in TestNames /\ "PC1" \in Side /\ "PC2" \in Side
  BY ResType DEF Logs, TestNames, Side
<1>5. /\ r0 \in Results(conf) /\ Same(r0, res, {"udpRateAssumed"})
  <2>1. b \in BOOLEAN
    OBVIOUS
  <2> HIDE DEF b
  <2> QED BY <1>4, <2>1 DEF Results, Same, FieldNames
<1> HIDE DEF r0
<1>6. r0.udp = res.udp /\ r0.skipped = res.skipped /\ r0.incomplete = res.incomplete
  BY <1>5 DEF Same, FieldNames
<1>7. ASSUME NEW d \in Side, NEW n \in DOMAIN UDPRuns(rate)
      PROVE  /\ Taken(d, UDPRuns(rate)[n]) \in EntryOf(conf, "udp")
             /\ Taken(d, PartialUDP(rate)) \in EntryOf(conf, "udp")
  <2>1. UDPRuns(rate)[n] \in UDPM /\ PartialUDP(rate) \in UDPM
    BY UDPTypes
  <2>2. EntryOf(conf, "udp") = Entry(UDPM)
    BY DEF EntryOf
  <2> QED BY <2>1, <2>2 DEF Entry, Taken
<1> DEFINE q == r1(o1, n1)
           e1 == Taken("PC1", UDPRuns(rate)[n1])
           p1 == Taken("PC1", PartialUDP(rate))
           e2 == Taken("PC2", UDPRuns(rate)[n2])
           p2 == Taken("PC2", PartialUDP(rate))
<1>8. /\ e1 \in EntryOf(conf, "udp") /\ p1 \in EntryOf(conf, "udp")
      /\ e2 \in EntryOf(conf, "udp") /\ p2 \in EntryOf(conf, "udp")
  BY <1>2, <1>4, <1>7
<1>9. q \in Results(conf) /\ SameButLog(q, r0, "udp") /\ r0.skipped \subseteq q.skipped
  BY <1>2, <1>4, <1>5, <1>8, Recording
<1>10. /\ o1 \in {"clean", "stopFailed"} => q["udp"] = Append(r0["udp"], e1)
       /\ o1 = "partial" => q["udp"] = Append(r0["udp"], p1)
  BY <1>2, <1>4, <1>5, <1>8, Recording
<1>11. o1 \in Refusals => q["udp"] = r0["udp"] /\ \E x \in q.skipped : x.name = "udp"
  BY <1>2, <1>4, <1>5, <1>8, Recording
<1>12. (o1 # "partial" => q.incomplete = r0.incomplete) /\ (o1 = "failed" => q = r0)
  BY <1>2, <1>4, <1>5, <1>8, Recording
<1> HIDE DEF e1, e2, p1, p2
<1>13. q.udp \in {res.udp, Append(res.udp, e1), Append(res.udp, p1)}
  BY <1>2, <1>6, <1>10, <1>11, <1>12 DEF Outcomes, Errors, Refusals
<1>14. Same(q, res, {"udp", "skipped", "incomplete", "udpRateAssumed"}) /\ res.skipped \subseteq q.skipped
  BY <1>5, <1>6, <1>9 DEF Same, SameButLog, FieldNames
<1>15. CASE o1 \in Errors \cup {"unavailable"}
  <2>1. Ends(q, o1)
    BY <1>1, <1>15
  <2>2. o1 \notin Errors => q.incomplete = res.incomplete /\ \E x \in q.skipped : x.name = "udp"
    BY <1>6, <1>11, <1>12, <1>15 DEF Errors, Refusals
  <2> HIDE DEF q
  <2> QED BY <1>1, <1>2, <1>3, <1>9, <1>13, <1>14, <2>1, <2>2 DEF e1, e2, p1, p2
<1>16. CASE o1 \notin Errors \cup {"unavailable"}
  <2> DEFINE r == r2(o1, n1, o2, n2)
  <2>1. Ends(r, o2)
    BY <1>1, <1>16
  <2>1a. r = Recorded(q, "udp", "udp", "PC2", o2, UDPRuns(rate)[n2], PartialUDP(rate))
    OBVIOUS
  <2> HIDE DEF q, r
  <2> USE DEF e2, p2
  <2>2. r \in Results(conf) /\ SameButLog(r, q, "udp") /\ q.skipped \subseteq r.skipped
    BY <1>2, <1>4, <1>8, <1>9, <2>1a, Recording
  <2>3. /\ o2 \in {"clean", "stopFailed"} => r["udp"] = Append(q["udp"], e2)
        /\ o2 = "partial" => r["udp"] = Append(q["udp"], p2)
    BY <1>2, <1>4, <1>8, <1>9, <2>1a, Recording
  <2>4. o2 \in Refusals => r["udp"] = q["udp"] /\ \E x \in r.skipped : x.name = "udp"
    BY <1>2, <1>4, <1>8, <1>9, <2>1a, Recording
  <2>5. (o2 # "partial" => r.incomplete = q.incomplete) /\ (o2 = "failed" => r = q)
    BY <1>2, <1>4, <1>8, <1>9, <2>1a, Recording
  <2> HIDE DEF e2, p2
  <2>6. r.udp \in {q.udp, Append(q.udp, e2), Append(q.udp, p2)}
    BY <1>2, <2>3, <2>4, <2>5 DEF Outcomes, Errors, Refusals
  <2>7. Same(r, res, {"udp", "skipped", "incomplete", "udpRateAssumed"}) /\ res.skipped \subseteq r.skipped
    BY <1>14, <2>2 DEF Same, SameButLog, FieldNames
  <2>8. ASSUME o2 \notin Errors
        PROVE  /\ r.incomplete = res.incomplete
               /\ \/ \E x \in r.skipped : x.name = "udp"
                  \/ r.udp = Append(Append(res.udp, e1), e2)
    <3>1. o1 \in {"clean", "unreachable"} /\ o2 \in {"clean"} \cup Refusals
      BY <1>2, <1>16, <2>8 DEF Outcomes, Errors, Refusals
    <3>2. r.incomplete = res.incomplete
      BY <3>1, <1>6, <1>12, <2>5 DEF Refusals
    <3>3. CASE o1 = "unreachable"
      BY <3>2, <3>3, <1>11, <2>2 DEF Refusals
    <3>4. CASE o1 = "clean" /\ o2 \in Refusals
      BY <3>2, <3>4, <2>4
    <3>5. CASE o1 = "clean" /\ o2 = "clean"
      BY <3>2, <3>5, <1>6, <1>10, <2>3
    <3> QED BY <3>1, <3>3, <3>4, <3>5
  <2> QED BY <1>1, <1>2, <1>3, <1>9, <1>13, <2>1, <2>2, <2>6, <2>7, <2>8 DEF e1, e2, p1, p2
<1> QED BY <1>15, <1>16

-----------------------------------------------------------------------------
(* The types of the world and of the monitors.                             *)

LEMMA ReadingType ==
  ASSUME TypeInv
  PROVE  /\ ReadLinkSnapshot(link) \in Reading /\ ReadLinkSnapshot(link).changes = link.changes
         /\ link.up \in BOOLEAN /\ link.speed \in 0..conf.speed /\ link.changes \in Nat
         /\ conf.speed \in Nat
<1>1. link \in Link(conf) /\ conf.speed \in Nat
  BY ResType, ConfType
<1> QED BY <1>1 DEF Link, Reading, ReadLinkSnapshot

LEMMA EventsTyped ==
  ASSUME NEW before, NEW after
  PROVE  detectEvents(before, after) \in Seq(EventTypes)
<1> DEFINE If(cond, type) == IF cond THEN <<type>> ELSE << >>
<1>1. ASSUME NEW type \in EventTypes, NEW cond PROVE If(cond, type) \in Seq(EventTypes)
  <2>1. <<type>> \in Seq(EventTypes) /\ << >> \in Seq(EventTypes)
    OBVIOUS
  <2> QED BY <2>1
<1>2. /\ "carrier_lost" \in EventTypes /\ "carrier_restored" \in EventTypes
      /\ "speed_changed" \in EventTypes /\ "renegotiation" \in EventTypes
  BY DEF EventTypes
<1> DEFINE sc == before.speed >= 0 /\ after.speed >= 0 /\ before.speed # after.speed
           fl == after.changes >= before.changes + 2
           rn == before.carrier /\ after.carrier /\ sc
           a == If(before.carrier /\ ~after.carrier, "carrier_lost")
           b == If(~before.carrier /\ after.carrier, "carrier_restored")
           d == If(sc, "speed_changed")
           e == If(fl \/ rn, "renegotiation")
<1>3. a \in Seq(EventTypes)
  BY <1>1, <1>2
<1>4. b \in Seq(EventTypes)
  BY <1>1, <1>2
<1>5. d \in Seq(EventTypes)
  BY <1>1, <1>2
<1>6. e \in Seq(EventTypes)
  BY <1>1, <1>2
<1>7. detectEvents(before, after) = a \o b \o d \o e
  BY DEF detectEvents
<1> HIDE DEF a, b, d, e
<1>8. a \o b \in Seq(EventTypes)
  BY <1>3, <1>4
<1>9. a \o b \o d \in Seq(EventTypes)
  BY <1>5, <1>8
<1> QED BY <1>6, <1>7, <1>9

\* What a poll does to a monitor.
LEMMA PollType ==
  ASSUME TypeInv, NEW m \in Monitors
  PROVE  /\ pollLocked(m, link) \in Monitors
         /\ pollLocked(m, link).last = ReadLinkSnapshot(link)
         /\ pollLocked(m, link).window = m.window
         /\ pollLocked(m, link).windowEvents =
              IF m.window THEN m.windowEvents + (link.changes - m.last.changes) ELSE m.windowEvents
<1> DEFINE types == detectEvents(m.last, ReadLinkSnapshot(link))
           events == [i \in DOMAIN types |-> [type |-> types[i], selfInflicted |-> m.window]]
           h == m.history \o events
           w == IF m.window THEN m.windowEvents + (link.changes - m.last.changes) ELSE m.windowEvents
<1>1. types \in Seq(EventTypes)
  BY EventsTyped
<1> HIDE DEF types
<1>2. DOMAIN types = 1..Len(types) /\ Len(types) \in Nat /\ \A i \in DOMAIN types : types[i] \in EventTypes
  BY <1>1
<1>3. /\ m.last \in Reading /\ m.history \in Seq(Events) /\ m.window \in BOOLEAN
      /\ m.windowEvents \in Int /\ m.last.changes \in Nat
  BY DEF Monitors, Reading
<1>4. events \in Seq(Events)
  <2>1. \A i \in DOMAIN types : [type |-> types[i], selfInflicted |-> m.window] \in Events
    BY <1>2, <1>3 DEF Events
  <2>2. events \in [1..Len(types) -> Events]
    BY <1>2, <2>1
  <2> HIDE DEF events
  <2> QED BY <1>2, <2>2, SeqDef
<1> HIDE DEF events
<1>5. h \in Seq(Events)
  BY <1>3, <1>4
<1>6. w \in Int
  BY <1>3, ReadingType
<1>7. pollLocked(m, link) = [m EXCEPT !.last = ReadLinkSnapshot(link), !.history = h, !.windowEvents = w]
  BY ReadingType DEF pollLocked, h, events, types, w
<1> HIDE DEF h, w
<1>8. /\ pollLocked(m, link) \in Monitors /\ pollLocked(m, link).last = ReadLinkSnapshot(link)
      /\ pollLocked(m, link).window = m.window /\ pollLocked(m, link).windowEvents = w
  BY <1>5, <1>6, <1>7, ReadingType DEF Monitors
<1> QED BY <1>8 DEF w

\* What opening or closing a window does to a monitor.
LEMMA WindowType ==
  ASSUME TypeInv, NEW m \in Monitors, NEW active \in BOOLEAN,
         NEW n, n = SetCableTestWindow(m, active, link)
  PROVE  /\ n \in Monitors /\ n.window = active
         /\ active = m.window => n = m
         /\ active # m.window => n.last = ReadLinkSnapshot(link)
         /\ active /\ ~m.window => n.windowEvents = 0
         /\ ~active /\ m.window => n.windowEvents = m.windowEvents + (link.changes - m.last.changes)
<1>0. m.window \in BOOLEAN
  BY DEF Monitors
<1>1. CASE active = m.window
  BY <1>0, <1>1 DEF SetCableTestWindow
<1>2. CASE active # m.window
  <2> DEFINE p == pollLocked(m, link)
             w == IF active THEN 0 ELSE p.windowEvents
  <2>1. n = [p EXCEPT !.window = active, !.windowEvents = w]
    BY <1>2 DEF SetCableTestWindow
  <2>2. p \in Monitors /\ p.last = ReadLinkSnapshot(link)
    BY PollType
  <2>3. p.windowEvents = IF m.window THEN m.windowEvents + (link.changes - m.last.changes) ELSE m.windowEvents
    BY PollType
  <2> HIDE DEF p
  <2>4. w \in Int
    BY <2>2 DEF Monitors
  <2>5. w = IF active THEN 0 ELSE p.windowEvents
    OBVIOUS
  <2> HIDE DEF w
  <2>6. n \in Monitors /\ n.window = active /\ n.windowEvents = w /\ n.last = ReadLinkSnapshot(link)
    BY <2>1, <2>2, <2>4 DEF Monitors
  <2> QED BY <1>0, <1>2, <2>3, <2>5, <2>6
<1> QED BY <1>1, <1>2

\* The counters at the start of a cycle.
LEMMA CycleStep ==
  ASSUME TypeInv, cycleCounters
  PROVE  \E o \in CounterOutcomes, r \in Results(conf) :
           /\ At("cycle") /\ UNCHANGED <<conf, link, hw, mon, window, report, faults>>
           /\ kept' = res /\ Ends(r, o) /\ spent' \in 0..MaxAnomalies
           /\ Same(r, res, {"skipped"}) /\ res.skipped \subseteq r.skipped
<1> DEFINE rr(o) == IF o = "unavailable" THEN recordSkippedTest(res, "counters", o) ELSE res
<1>1. At("cycle") /\ UNCHANGED <<conf, link, hw, mon, window, report, faults>>
  BY DEF cycleCounters
<1>2. PICK o \in May(CounterOutcomes) : Spend(<<o>>) /\ kept' = res /\ Ends(rr(o), o)
  BY DEF cycleCounters
<1>3. o \in CounterOutcomes
  BY <1>2, MayIn
<1>4. spent' \in 0..MaxAnomalies
  <2>1. DOMAIN <<o>> = 1..1 /\ 1 \in Nat
    OBVIOUS
  <2> QED BY <2>1, <1>2, SpendType, ResType
<1> DEFINE r == rr(o)
<1>5. Ends(r, o)
  BY <1>2
<1>6. /\ r \in Results(conf) /\ Same(r, res, {"skipped"}) /\ res.skipped \subseteq r.skipped
  <2>1. CASE o = "unavailable"
    <3>1. r = recordSkippedTest(res, "counters", o)
      BY <2>1
    <3>2. "counters" \in TestNames /\ o \in Refusals /\ res \in Results(conf)
      BY <2>1, ResType DEF TestNames, Refusals
    <3> HIDE DEF r
    <3> QED BY <3>1, <3>2, Skipping
  <2>2. CASE o # "unavailable"
    <3>1. r = res
      BY <2>2
    <3> QED BY <3>1, ResType DEF Same
  <2> QED BY <2>1, <2>2
<1> HIDE DEF r
<1> QED BY <1>1, <1>2, <1>3, <1>4, <1>5, <1>6

\* The end of a cycle: it joins the run's results, or its last snapshot fails.
LEMMA CommitStep ==
  ASSUME TypeInv, commitCycle
  PROVE  \E o \in CounterOutcomes, r \in Results(conf) :
           /\ At("cycleEnd") /\ UNCHANGED <<conf, link, hw, mon, window, report, faults>>
           /\ spent' \in 0..MaxAnomalies
           /\ Same(r, res, {"skipped"}) /\ res.skipped \subseteq r.skipped
           /\ \/ o \in Errors /\ Ends(r, o) /\ kept' = kept
              \/ /\ o \notin Errors /\ kept' = Absent
                 /\ res' = [r EXCEPT !.cycles = @ + 1, !.incomplete = kept.incomplete]
                 /\ \/ res.cycles + 1 < MaxCycles /\ plan' = [plan EXCEPT !.step = CycleStart]
                    \/ plan' = [plan EXCEPT !.phase = "boundary"]
<1> DEFINE rr(o) == IF o = "unavailable" THEN recordSkippedTest(res, "counters", o) ELSE res
<1>1. At("cycleEnd") /\ UNCHANGED <<conf, link, hw, mon, window, report, faults>>
  BY DEF commitCycle
<1>2. PICK o \in May(CounterOutcomes), again \in BOOLEAN :
        /\ Spend(<<o>>)
        /\ again => o \notin Errors /\ res.cycles + 1 < MaxCycles
        /\ IF o \in Errors THEN Ends(rr(o), o) /\ UNCHANGED kept
           ELSE /\ res' = [rr(o) EXCEPT !.cycles = @ + 1, !.incomplete = kept.incomplete]
                /\ kept' = Absent
                /\ plan' = IF again THEN [plan EXCEPT !.step = CycleStart]
                                    ELSE [plan EXCEPT !.phase = "boundary"]
  BY DEF commitCycle
<1>3. o \in CounterOutcomes
  BY <1>2, MayIn
<1>4. spent' \in 0..MaxAnomalies
  <2>1. DOMAIN <<o>> = 1..1 /\ 1 \in Nat
    OBVIOUS
  <2> QED BY <2>1, <1>2, SpendType, ResType
<1> DEFINE r == rr(o)
<1>6. /\ r \in Results(conf) /\ Same(r, res, {"skipped"}) /\ res.skipped \subseteq r.skipped
  <2>1. CASE o = "unavailable"
    <3>1. r = recordSkippedTest(res, "counters", o)
      BY <2>1
    <3>2. "counters" \in TestNames /\ o \in Refusals /\ res \in Results(conf)
      BY <2>1, ResType DEF TestNames, Refusals
    <3> HIDE DEF r
    <3> QED BY <3>1, <3>2, Skipping
  <2>2. CASE o # "unavailable"
    <3>1. r = res
      BY <2>2
    <3> QED BY <3>1, ResType DEF Same
  <2> QED BY <2>1, <2>2
<1>7. CASE o \in Errors
  <2>1. Ends(r, o) /\ kept' = kept
    BY <1>2, <1>7
  <2> HIDE DEF r
  <2> QED BY <1>1, <1>3, <1>4, <1>6, <1>7, <2>1
<1>8. CASE o \notin Errors
  <2>1. /\ res' = [r EXCEPT !.cycles = @ + 1, !.incomplete = kept.incomplete] /\ kept' = Absent
        /\ \/ res.cycles + 1 < MaxCycles /\ plan' = [plan EXCEPT !.step = CycleStart]
           \/ plan' = [plan EXCEPT !.phase = "boundary"]
    BY <1>2, <1>8
  <2> HIDE DEF r
  <2> QED BY <1>1, <1>3, <1>4, <1>6, <1>8, <2>1
<1> QED BY <1>7, <1>8

\* What a committed cycle leaves.
LEMMA CommitFields ==
  ASSUME TypeInv, InCycle, NEW r \in Results(conf), Same(r, res, {"skipped"}),
         NEW q, q = [r EXCEPT !.cycles = @ + 1, !.incomplete = kept.incomplete]
  PROVE  /\ q \in Results(conf) /\ Same(q, r, {"cycles", "incomplete"})
         /\ q.cycles = res.cycles + 1 /\ q.incomplete = kept.incomplete
<1>1. kept \in Results(conf) /\ res.cycles < MaxCycles
  BY DEF TypeInv, InCycle
<1>2. kept.incomplete \in BOOLEAN /\ r.cycles = res.cycles /\ res.cycles \in 0..MaxCycles
  BY <1>1, ResType DEF Results, Same, FieldNames
<1>3. MaxCycles \in Nat
  BY BoundsAssumption
<1> DEFINE n == r.cycles + 1
           b == kept.incomplete
<1>4. n \in 0..MaxCycles /\ b \in BOOLEAN /\ n = res.cycles + 1
  BY <1>1, <1>2, <1>3
<1>5. q = [r EXCEPT !.cycles = n, !.incomplete = b]
  OBVIOUS
<1> HIDE DEF n, b
<1>6. q \in Results(conf) /\ q.cycles = n /\ q.incomplete = b
  BY <1>4, <1>5 DEF Results
<1>7. \A g \in FieldNames : g \notin {"cycles", "incomplete"} => q[g] = r[g]
  BY <1>5 DEF Results, FieldNames
<1> QED BY <1>4, <1>6, <1>7 DEF Same, b

CycleSteps == {"ping", "tcpF", "tcpR", "udp"}
OtherSteps == {"link", "initial", "full", "bidir", "udpReduced", "final"}
CycleFields == {"ping", "tcp", "udp", "skipped", "incomplete", "udpRateAssumed"}

LEMMA StepPlace ==
  ASSUME TypeInv, NEW name \in CycleSteps \cup OtherSteps, At(name)
  PROVE  /\ plan.phase = "base" /\ ~At("cycle") /\ Len(StepsOf(conf)) \in Nat
         /\ plan.step \in 1..Len(StepsOf(conf))
         /\ conf.mode = "soak" => plan.step < Len(StepsOf(conf)) /\ plan.step # CycleStart
         /\ InCycle => name \in CycleSteps
         /\ conf.mode = "soak" /\ name \in CycleSteps => InCycle
<1>1. plan.phase = "base" /\ StepName = name
  BY DEF At
<1>2. ~At("cycle")
  BY <1>1 DEF At, CycleSteps, OtherSteps
<1>3. Repeats \in Nat \ {0}
  BY BoundsAssumption
<1>3a. plan.step \in 1..Len(StepsOf(conf)) /\ Len(StepsOf(conf)) \in Nat
  <2>1. CASE conf.mode = "quick"
    <3>1. Len(StepsOf(conf)) = 9 /\ plan.step \in 1..9
      BY <2>1, QuickAt
    <3> QED BY <3>1
  <2>2. CASE conf.mode = "standard"
    BY <1>3, <2>2, StandardAt
  <2>3. CASE conf.mode = "soak"
    BY <1>3, <2>3, SoakAt
  <2> QED BY <2>1, <2>2, <2>3, ModeCases
<1>4. CASE conf.mode = "soak"
  <2>1. /\ Len(StepsOf(conf)) = 6 + 2 * Repeats
        /\ name = "link" => plan.step = 1
        /\ name = "initial" => plan.step = 2
        /\ name = "ping" => plan.step = 4
        /\ name = "tcpF" => plan.step \in 5..(4 + Repeats)
        /\ name = "tcpR" => plan.step \in (5 + Repeats)..(4 + 2 * Repeats)
        /\ name = "udp" => plan.step = 5 + 2 * Repeats
        /\ name \notin {"full", "bidir", "udpReduced", "final"}
    BY <1>4, SoakAt
  <2>2. name \in {"link", "initial", "ping", "tcpF", "tcpR", "udp"}
    BY <2>1 DEF CycleSteps, OtherSteps
  <2>3. plan.step < Len(StepsOf(conf)) /\ plan.step # 3 /\ (plan.step > 3 <=> name \in CycleSteps)
    <3>1. CASE name = "link"
      BY <1>3, <2>1, <3>1 DEF CycleSteps
    <3>2. CASE name = "initial"
      BY <1>3, <2>1, <3>2 DEF CycleSteps
    <3>3. CASE name = "ping"
      BY <1>3, <2>1, <3>3 DEF CycleSteps
    <3>4. CASE name = "tcpF"
      BY <1>3, <2>1, <3>4 DEF CycleSteps
    <3>5. CASE name = "tcpR"
      BY <1>3, <2>1, <3>5 DEF CycleSteps
    <3>6. CASE name = "udp"
      BY <1>3, <2>1, <3>6 DEF CycleSteps
    <3> QED BY <2>2, <3>1, <3>2, <3>3, <3>4, <3>5, <3>6
  <2> QED BY <1>1, <1>2, <1>3a, <1>4, <2>3 DEF InCycle, CycleStart
<1> QED BY <1>1, <1>2, <1>3a, <1>4 DEF InCycle

LEMMA BaseStepType ==
  ASSUME TypeInv, NEW name \in CycleSteps \cup OtherSteps, At(name), NEW r \in Results(conf), NEW o,
         r.cycles = res.cycles, name \in CycleSteps => Same(r, res, CycleFields),
         Ends(r, o), Unmoved, spent' \in 0..MaxAnomalies
  PROVE  TypeInv'
<1>1. /\ plan.phase = "base" /\ ~At("cycle")
      /\ conf.mode = "soak" => plan.step < Len(StepsOf(conf)) /\ plan.step # CycleStart
      /\ InCycle => name \in CycleSteps
  BY StepPlace
<1>2. InCycle => SameFrame(kept, r)
  BY <1>1 DEF TypeInv, SameFrame, Same, CycleFields, FieldNames
<1>3. UNCHANGED <<conf, link, hw, mon, window>> /\ kept' = kept
  BY DEF Unmoved
<1> QED BY <1>1, <1>2, <1>3, EndsType

LEMMA TypeLink == ASSUME TypeInv, stepLink PROVE TypeInv'
<1>1. PICK o \in {"clean", "unavailable", "failed"}, r \in Results(conf) :
        At("link") /\ Unmoved /\ Ends(r, o) /\ spent' \in 0..MaxAnomalies /\ Same(r, res, {"link", "skipped"})
  BY LinkStep
<1>2. r.cycles = res.cycles
  BY <1>1 DEF Same, FieldNames
<1>3. "link" \in CycleSteps \cup OtherSteps /\ "link" \notin CycleSteps
  BY DEF OtherSteps, CycleSteps
<1> QED BY <1>1, <1>2, <1>3, BaseStepType

LEMMA TypeCounters ==
  ASSUME TypeInv, NEW into \in {"initial", "final"}, stepCounters(into, into) PROVE TypeInv'
<1>1. PICK o \in CounterOutcomes, r \in Results(conf) :
        At(into) /\ Unmoved /\ Ends(r, o) /\ spent' \in 0..MaxAnomalies /\ Same(r, res, {into, "skipped"})
  BY CounterStep
<1>2. r.cycles = res.cycles
  BY <1>1 DEF Same, FieldNames
<1>3. into \in CycleSteps \cup OtherSteps /\ into \notin CycleSteps
  BY DEF OtherSteps, CycleSteps
<1> QED BY <1>1, <1>2, <1>3, BaseStepType

LEMMA TypePing == ASSUME TypeInv, stepPing PROVE TypeInv'
<1> DEFINE names == {"clean", "trickle", "lossy", "unsteady"}
<1>0. At("ping") /\ Unmoved
  BY DEF stepPing
<1>1. "ping" \in CycleSteps \cup OtherSteps /\ "ping" \in CycleSteps
  BY DEF CycleSteps
<1>2. CASE PingBoth("ping", "ping", names)
  <2>1. names \in SUBSET DOMAIN Pings
    BY DEF Pings
  <2> HIDE DEF names
  <2>2. PICK o \in {"clean", "unavailable", "failed"}, r \in Results(conf) :
          Ends(r, o) /\ spent' \in 0..MaxAnomalies /\ Same(r, res, {"ping", "skipped"})
    BY <1>2, <2>1, PingStep
  <2>3. Same(r, res, CycleFields) /\ r.cycles = res.cycles
    BY <2>2 DEF Same, FieldNames, CycleFields
  <2> QED BY <1>0, <1>1, <2>2, <2>3, BaseStepType
<1>3. CASE LocalFails
  <2>1. Ends(res, "failed") /\ spent' \in 0..MaxAnomalies
    BY <1>3, HappensType, ResType DEF LocalFails
  <2>2. Same(res, res, CycleFields) /\ res.cycles = res.cycles /\ res \in Results(conf)
    BY ResType DEF Same
  <2> QED BY <1>0, <1>1, <2>1, <2>2, BaseStepType
<1> QED BY <1>2, <1>3 DEF stepPing

LEMMA TypeFull == ASSUME TypeInv, stepFullSizePing PROVE TypeInv'
<1> DEFINE names == {"clean", "lossy", "fragmented"}
<1>0. At("full") /\ Unmoved
  BY DEF stepFullSizePing
<1>1. "full" \in CycleSteps \cup OtherSteps /\ "full" \notin CycleSteps
  BY DEF CycleSteps, OtherSteps
<1>2. CASE PingBoth("fullSizePing", "full_size_ping", names)
  <2>1. names \in SUBSET DOMAIN Pings
    BY DEF Pings
  <2> HIDE DEF names
  <2>2. PICK o \in {"clean", "unavailable", "failed"}, r \in Results(conf) :
          Ends(r, o) /\ spent' \in 0..MaxAnomalies /\ Same(r, res, {"fullSizePing", "skipped"})
    BY <1>2, <2>1, PingStep
  <2>3. r.cycles = res.cycles
    BY <2>2 DEF Same, FieldNames
  <2> QED BY <1>0, <1>1, <2>2, <2>3, BaseStepType
<1>3. CASE LocalFails
  <2>1. Ends(res, "failed") /\ spent' \in 0..MaxAnomalies
    BY <1>3, HappensType, ResType DEF LocalFails
  <2>2. res.cycles = res.cycles /\ res \in Results(conf)
    BY ResType
  <2> QED BY <1>0, <1>1, <2>1, <2>2, BaseStepType
<1> QED BY <1>2, <1>3 DEF stepFullSizePing

LEMMA TypeTCP == ASSUME TypeInv, stepTCPForward \/ stepTCPReverse PROVE TypeInv'
<1>1. PICK name \in {"tcpF", "tcpR"}, dir \in Side, outcomes \in SUBSET Outcomes :
        At(name) /\ Unmoved /\ TCPPhase(dir, outcomes)
  <2>1. "PC1" \in Side /\ "PC2" \in Side /\ Outcomes \in SUBSET Outcomes
        /\ Outcomes \ {"stopFailed"} \in SUBSET Outcomes
    BY DEF Side
  <2>2. CASE stepTCPForward
    <3>1. At("tcpF") /\ Unmoved /\ TCPPhase("PC1", Outcomes)
      BY <2>2 DEF stepTCPForward
    <3> QED BY <3>1, <2>1
  <2>3. CASE stepTCPReverse
    <3>1. At("tcpR") /\ Unmoved /\ TCPPhase("PC2", Outcomes \ {"stopFailed"})
      BY <2>3 DEF stepTCPReverse
    <3> QED BY <3>1, <2>1
  <2> QED BY <2>2, <2>3
<1>2. PICK o \in outcomes, r \in Results(conf) :
         Ends(r, o) /\ spent' \in 0..MaxAnomalies /\ SameButLog(r, res, "tcp")
  BY <1>1, TCPStep
<1>3. Same(r, res, CycleFields) /\ r.cycles = res.cycles
  BY <1>2 DEF Same, SameButLog, FieldNames, CycleFields
<1>4. name \in CycleSteps \cup OtherSteps
  BY DEF CycleSteps
<1> QED BY <1>1, <1>2, <1>3, <1>4, BaseStepType

LEMMA TypeBidir == ASSUME TypeInv, stepBidir PROVE TypeInv'
<1>1. PICK o \in Outcomes, r \in Results(conf) :
        At("bidir") /\ Unmoved /\ Ends(r, o) /\ spent' \in 0..MaxAnomalies
        /\ Same(r, res, {"bidir", "skipped"})
  BY BidirStep
<1>2. r.cycles = res.cycles
  BY <1>1 DEF Same, FieldNames
<1>3. "bidir" \in CycleSteps \cup OtherSteps /\ "bidir" \notin CycleSteps
  BY DEF OtherSteps, CycleSteps
<1> QED BY <1>1, <1>2, <1>3, BaseStepType

LEMMA TypeUDP == ASSUME TypeInv, stepUDP \/ stepReducedUDP PROVE TypeInv'
<1>1. PICK name \in {"udp", "udpReduced"}, rate \in Nat : At(name) /\ Unmoved /\ stepUDPAtRate(rate)
  BY RateType DEF stepUDP, stepReducedUDP
<1>2. PICK o \in Outcomes, r \in Results(conf) :
         /\ Ends(r, o) /\ spent' \in 0..MaxAnomalies
         /\ Same(r, res, {"udp", "skipped", "incomplete", "udpRateAssumed"})
  BY <1>1, UDPStep
<1>3. Same(r, res, CycleFields) /\ r.cycles = res.cycles
  BY <1>2 DEF Same, FieldNames, CycleFields
<1>4. name \in CycleSteps \cup OtherSteps
  BY DEF CycleSteps, OtherSteps
<1> QED BY <1>1, <1>2, <1>3, <1>4, BaseStepType

LEMMA TypeCycle == ASSUME TypeInv, cycleCounters PROVE TypeInv'
<1>1. PICK o \in CounterOutcomes, r \in Results(conf) :
        /\ At("cycle") /\ UNCHANGED <<conf, link, hw, mon, window, report, faults>>
        /\ kept' = res /\ Ends(r, o) /\ spent' \in 0..MaxAnomalies /\ Same(r, res, {"skipped"})
  BY CycleStep
<1>2. SameFrame(res, r) /\ r.cycles = res.cycles
  BY <1>1 DEF Same, SameFrame, FieldNames
<1>3. plan.phase = "base"
  BY <1>1 DEF At
<1>4. conf.mode = "soak"
  BY <1>1, ModeCases, QuickAt, StandardAt
<1>5. plan.step = 3 /\ plan.step < Len(StepsOf(conf))
  <2>1. plan.step = 3 /\ Len(StepsOf(conf)) = 6 + 2 * Repeats
    BY <1>1, <1>4, SoakAt
  <2>2. Repeats \in Nat
    BY BoundsAssumption
  <2> QED BY <2>1, <2>2
<1>6. ~InCycle
  BY <1>5 DEF InCycle, CycleStart
<1> QED BY <1>1, <1>2, <1>3, <1>5, <1>6, EndsType

LEMMA CommitPlace ==
  ASSUME TypeInv, At("cycleEnd")
  PROVE  InCycle /\ plan.phase = "base" /\ ~At("cycle") /\ plan.step = Len(StepsOf(conf)) /\ plan.step # CycleStart
<1>1. conf.mode = "soak"
  BY ModeCases, QuickAt, StandardAt
<1>2. plan.step = 6 + 2 * Repeats /\ Len(StepsOf(conf)) = 6 + 2 * Repeats
  BY <1>1, SoakAt
<1>3. Repeats \in Nat
  BY BoundsAssumption
<1>4. plan.phase = "base" /\ ~At("cycle")
  BY DEF At
<1> QED BY <1>1, <1>2, <1>3, <1>4 DEF InCycle, CycleStart

LEMMA TypeCommit == ASSUME TypeInv, commitCycle PROVE TypeInv'
<1>1. PICK o \in CounterOutcomes, r \in Results(conf) :
           /\ At("cycleEnd") /\ UNCHANGED <<conf, link, hw, mon, window, report, faults>>
           /\ spent' \in 0..MaxAnomalies
           /\ Same(r, res, {"skipped"}) /\ res.skipped \subseteq r.skipped
           /\ \/ o \in Errors /\ Ends(r, o) /\ kept' = kept
              \/ /\ o \notin Errors /\ kept' = Absent
                 /\ res' = [r EXCEPT !.cycles = @ + 1, !.incomplete = kept.incomplete]
                 /\ \/ res.cycles + 1 < MaxCycles /\ plan' = [plan EXCEPT !.step = CycleStart]
                    \/ plan' = [plan EXCEPT !.phase = "boundary"]
  BY CommitStep
<1>2. SameFrame(res, r) /\ r.cycles = res.cycles
  BY <1>1 DEF Same, SameFrame, FieldNames
<1>3. InCycle /\ plan.phase = "base" /\ ~At("cycle") /\ plan.step = Len(StepsOf(conf)) /\ plan.step # CycleStart
  BY <1>1, CommitPlace
<1>4. CASE o \in Errors
  <2>1. SameFrame(kept, r)
    BY <1>2, <1>3 DEF TypeInv, SameFrame
  <2>2. Ends(r, o) /\ kept' = kept
    BY <1>1, <1>4
  <2> QED BY <1>1, <1>2, <1>3, <1>4, <2>1, <2>2, EndsType
<1>5. CASE o \notin Errors
  <2>1. /\ kept' = Absent
        /\ res' = [r EXCEPT !.cycles = @ + 1, !.incomplete = kept.incomplete]
        /\ \/ res.cycles + 1 < MaxCycles /\ plan' = [plan EXCEPT !.step = CycleStart]
           \/ plan' = [plan EXCEPT !.phase = "boundary"]
    BY <1>1, <1>5
  <2>2. res' \in Results(conf) /\ res'.cycles = res.cycles + 1
    BY <1>1, <1>3, <2>1, CommitFields
  <2>3. plan' \in Plans(conf) /\ plan'.phase \in {"base", "boundary"}
        /\ (plan'.phase = "base" => plan'.step = CycleStart /\ res.cycles + 1 < MaxCycles)
    <3>1. plan \in Plans(conf) /\ plan.step > CycleStart
      BY <1>3, ResType DEF InCycle
    <3>2. Len(StepsOf(conf)) \in Nat /\ plan.step \in Nat
      <4>1. plan.step \in 1..Len(StepsOf(conf))
        BY <3>1 DEF Plans
      <4> QED BY <4>1, <1>3
    <3>3. CycleStart \in 1..Len(StepsOf(conf))
      BY <1>3, <3>1, <3>2 DEF CycleStart
    <3> QED BY <1>3, <2>1, <3>1, <3>3 DEF Plans, Phases
  <2>4. ~InCycle'
    BY <2>3 DEF InCycle, CycleStart
  <2> QED BY <1>1, <2>1, <2>2, <2>3, <2>4, ResType DEF TypeInv
<1> QED BY <1>4, <1>5

LEMMA TypeBudget == ASSUME TypeInv, BudgetExpires PROVE TypeInv'
<1>1. kept \in Results(conf) /\ plan \in Plans(conf)
  BY ResType DEF TypeInv, BudgetExpires
<1>2. plan' \in Plans(conf) /\ plan'.phase = "boundary"
  BY <1>1 DEF BudgetExpires, Plans, Phases
<1>3. ~InCycle'
  BY <1>2 DEF InCycle
<1> QED BY <1>1, <1>2, <1>3, ResType DEF BudgetExpires, TypeInv

\* A step past the base phase.
LEMMA PastType ==
  ASSUME TypeInv, conf' = conf, link' \in Link(conf), hw' = hw, mon' \in [Side -> Monitors],
         plan' \in Plans(conf), plan'.phase # "base", res' \in Results(conf), kept' = kept,
         res'.cycles = res.cycles, plan'.phase \in {"end", "close"} => res'.cable # Absent,
         window' \in [Side -> Ends2], spent' \in 0..MaxAnomalies
  PROVE  TypeInv'
<1>1. ~InCycle'
  BY DEF InCycle
<1> QED BY <1>1, ResType DEF TypeInv

LEMMA DetachedType ==
  ASSUME TypeInv, NEW o \in Detached
  PROVE  /\ SnapshotDetached(o) \in [Side -> Snapshots \cup {Absent}]
         /\ \A s \in Side : SnapshotDetached(o)[s] \in {Snapshot(s), Absent}
<1>1. \A s \in Side : Snapshot(s) \in Snapshots
  BY SnapshotType
<1> QED BY <1>1 DEF SnapshotDetached, Detached

LEMMA FinalPut ==
  ASSUME TypeInv, NEW o \in Detached, NEW b \in BOOLEAN,
         NEW q, q = [res EXCEPT !.final = SnapshotDetached(o), !.incomplete = b]
  PROVE  /\ q \in Results(conf) /\ Same(q, res, {"final", "incomplete"})
         /\ q.final = SnapshotDetached(o) /\ q.incomplete = b
<1> DEFINE f == SnapshotDetached(o)
<1>1. f \in [Side -> Snapshots \cup {Absent}] /\ res \in Results(conf)
  BY DetachedType, ResType
<1> HIDE DEF f
<1>2. q = [res EXCEPT !.final = f, !.incomplete = b]
  BY DEF f
<1>3. q \in Results(conf) /\ q.final = f /\ q.incomplete = b
  BY <1>1, <1>2 DEF Results
<1>4. \A g \in FieldNames : g \notin {"final", "incomplete"} => q[g] = res[g]
  BY <1>1, <1>2 DEF Results, FieldNames
<1> QED BY <1>3, <1>4 DEF Same, f

\* The final snapshots of a soak.
LEMMA BoundaryStep ==
  ASSUME TypeInv, snapshotCountersDetached
  PROVE  \E o \in Detached :
           /\ plan.phase = "boundary" /\ Unmoved /\ faults' = faults /\ spent' \in 0..MaxAnomalies
           /\ res' \in Results(conf) /\ Same(res', res, {"final", "incomplete"})
           /\ res'.final = SnapshotDetached(o) /\ res'.incomplete = (res.incomplete \/ o # "clean")
           /\ plan' \in Plans(conf) /\ plan'.phase \in {"finish", "cable"}
           /\ IF plan.err \/ o # "clean" THEN plan'.err /\ plan'.phase = "finish"
              ELSE plan'.err = plan.err /\ plan' = AfterBase(plan)
<1>1. plan.phase = "boundary" /\ Unmoved /\ faults' = faults
  BY DEF snapshotCountersDetached
<1>2. PICK o \in Detached :
        /\ IF plan.err \/ o = "clean" THEN UNCHANGED spent ELSE Happens("failed")
        /\ res' = [res EXCEPT !.final = SnapshotDetached(o), !.incomplete = @ \/ o # "clean"]
        /\ plan' = IF plan.err \/ o # "clean" THEN [plan EXCEPT !.phase = "finish", !.err = TRUE]
                                               ELSE AfterBase(plan)
  BY DEF snapshotCountersDetached
<1>3. spent' \in 0..MaxAnomalies
  BY <1>2, HappensType, ResType
<1> DEFINE b == res.incomplete \/ o # "clean"
<1>4. b \in BOOLEAN /\ b = (res.incomplete \/ o # "clean")
  OBVIOUS
<1>5. res' = [res EXCEPT !.final = SnapshotDetached(o), !.incomplete = b]
  BY <1>2
<1> HIDE DEF b
<1>6. /\ res' \in Results(conf) /\ Same(res', res, {"final", "incomplete"})
      /\ res'.final = SnapshotDetached(o) /\ res'.incomplete = b
  BY <1>4, <1>5, FinalPut
<1>7. /\ plan' \in Plans(conf) /\ plan'.phase \in {"finish", "cable"}
      /\ IF plan.err \/ o # "clean" THEN plan'.err /\ plan'.phase = "finish"
         ELSE plan'.err = plan.err /\ plan' = AfterBase(plan)
  BY <1>2, ResType DEF Plans, Phases, AfterBase
<1>8. res'.incomplete = (res.incomplete \/ o # "clean")
  BY <1>4, <1>6
<1> QED BY <1>1, <1>3, <1>6, <1>7, <1>8

LEMMA TypeBoundary == ASSUME TypeInv, snapshotCountersDetached PROVE TypeInv'
<1>1. /\ Unmoved /\ spent' \in 0..MaxAnomalies /\ res' \in Results(conf)
      /\ Same(res', res, {"final", "incomplete"}) /\ plan' \in Plans(conf)
      /\ plan'.phase \in {"finish", "cable"}
  BY BoundaryStep
<1>2. res'.cycles = res.cycles
  BY <1>1 DEF Same, FieldNames
<1> QED BY <1>1, <1>2, PastType, ResType DEF Unmoved

\* The last look at the counters of an aborted plan.
LEMMA SalvageStep ==
  ASSUME TypeInv, salvageFinalCounters
  PROVE  /\ plan.phase = "salvage" /\ Unmoved /\ faults' = faults /\ spent' = spent
         /\ plan' = [plan EXCEPT !.phase = "finish"] /\ plan' \in Plans(conf)
         /\ plan'.phase = "finish" /\ plan'.err = plan.err
         /\ \/ res' = res
            \/ \E o \in Detached :
                 /\ res' \in Results(conf) /\ Same(res', res, {"final"})
                 /\ res'.final = SnapshotDetached(o) /\ \A s \in Side : res.final[s] = Absent
<1>1. /\ plan.phase = "salvage" /\ Unmoved /\ faults' = faults /\ spent' = spent
      /\ plan' = [plan EXCEPT !.phase = "finish"]
  BY DEF salvageFinalCounters
<1>2. plan' \in Plans(conf) /\ plan'.phase = "finish" /\ plan'.err = plan.err
  BY <1>1, ResType DEF Plans, Phases
<1>3. CASE (\E s \in Side : res.final[s] # Absent) \/ ~HasCounters(res.initial.PC1)
  BY <1>1, <1>2, <1>3 DEF salvageFinalCounters
<1>4. CASE ~((\E s \in Side : res.final[s] # Absent) \/ ~HasCounters(res.initial.PC1))
  <2>1. PICK o \in Detached : res' = [res EXCEPT !.final = SnapshotDetached(o)]
    BY <1>4 DEF salvageFinalCounters
  <2> DEFINE f == SnapshotDetached(o)
  <2>2. f \in [Side -> Snapshots \cup {Absent}] /\ res \in Results(conf)
    BY DetachedType, ResType
  <2>3. res' = [res EXCEPT !.final = f]
    BY <2>1
  <2> HIDE DEF f
  <2>4. res' \in Results(conf) /\ res'.final = f
    BY <2>2, <2>3 DEF Results
  <2>5. \A g \in FieldNames : g # "final" => res'[g] = res[g]
    BY <2>2, <2>3 DEF Results, FieldNames
  <2> QED BY <1>1, <1>2, <1>4, <2>4, <2>5 DEF Same, f
<1> QED BY <1>3, <1>4

LEMMA TypeSalvage == ASSUME TypeInv, salvageFinalCounters PROVE TypeInv'
<1>1. /\ Unmoved /\ spent' = spent /\ plan' \in Plans(conf) /\ plan'.phase = "finish"
      /\ res' \in Results(conf) /\ (res' = res \/ Same(res', res, {"final"}))
  BY SalvageStep, ResType
<1>2. res'.cycles = res.cycles
  BY <1>1 DEF Same, FieldNames
<1> QED BY <1>1, <1>2, PastType, ResType DEF Unmoved

LEMMA CableTyped ==
  ASSUME NEW a \in BOOLEAN, NEW p \in SUBSET Pairs, NEW t \in BOOLEAN
  PROVE  /\ CableResult(a, p, t) \in CableResults /\ CableResult(a, p, t) # Absent
         /\ CableResult(a, p, t).selfInflicted = [s \in Side |-> 0]
         /\ CableResult(a, p, t).pairs = p /\ CableResult(a, p, t).available = a
<1>1. [s \in Side |-> 0] \in [Side -> Int]
  OBVIOUS
<1>2. CableResult(a, p, t) \in CableResults
  BY <1>1 DEF CableResult, CableResults
<1>3. CableResult(a, p, t) # Absent
  BY <1>2, AbsentAssumption
<1> QED BY <1>2, <1>3 DEF CableResult

LEMMA CablePut ==
  ASSUME TypeInv, NEW v \in CableResults, NEW q, q = With(res, "cable", v)
  PROVE  q \in Results(conf) /\ q.cable = v /\ q.cable # Absent /\ Same(q, res, {"cable"})
<1>1. v # Absent
  BY AbsentAssumption
<1>2. q \in Results(conf) /\ q.cable = v
  BY ResType DEF With, Results
<1>3. \A g \in FieldNames : g # "cable" => q[g] = res[g]
  BY ResType DEF With, Results, FieldNames
<1> QED BY <1>1, <1>2, <1>3 DEF Same

\* The window's changes of one side are written into the cable result.
WithInflicted(r, s, n) == [r EXCEPT !.cable.selfInflicted[s] = n]
LEMMA InflictedPut ==
  ASSUME TypeInv, res.cable # Absent, NEW s \in Side, NEW n \in Int,
         NEW q, q = WithInflicted(res, s, n)
  PROVE  /\ q \in Results(conf) /\ Same(q, res, {"cable"}) /\ q.cable # Absent
         /\ q.cable.selfInflicted[s] = n
         /\ \A t \in Side : t # s => q.cable.selfInflicted[t] = res.cable.selfInflicted[t]
         /\ q.cable.available = res.cable.available /\ q.cable.pairs = res.cable.pairs
         /\ q.cable.tdrMissing = res.cable.tdrMissing
<1>1. res.cable \in CableResults
  BY ResType DEF Results
<1> DEFINE w == [res.cable.selfInflicted EXCEPT ![s] = n]
           v == [res.cable EXCEPT !.selfInflicted = w]
<1>2. w \in [Side -> Int] /\ w[s] = n /\ \A t \in Side : t # s => w[t] = res.cable.selfInflicted[t]
  BY <1>1 DEF CableResults
<1>3. q = With(res, "cable", v)
  BY DEF With, WithInflicted
<1> HIDE DEF w
<1>4. /\ v \in CableResults /\ v.selfInflicted = w
      /\ v.available = res.cable.available /\ v.pairs = res.cable.pairs
      /\ v.tdrMissing = res.cable.tdrMissing
  BY <1>1, <1>2 DEF CableResults
<1> HIDE DEF v
<1>5. q \in Results(conf) /\ q.cable = v /\ q.cable # Absent /\ Same(q, res, {"cable"})
  BY <1>3, <1>4, CablePut
<1> QED BY <1>2, <1>4, <1>5

\* A window of one side is opened.
LEMMA Opening ==
  ASSUME TypeInv, NEW s \in Side, OpenWindow(s)
  PROVE  /\ mon' \in [Side -> Monitors] /\ window' \in [Side -> Ends2]
         /\ mon'[s] = SetCableTestWindow(mon[s], TRUE, link)
         /\ window'[s].from = link.changes /\ window'[s].to = window[s].to
         /\ \A t \in Side : t # s => mon'[t] = mon[t] /\ window'[t] = window[t]
<1> DEFINE m == SetCableTestWindow(mon[s], TRUE, link)
           w == [window[s] EXCEPT !.from = link.changes]
<1>1. mon \in [Side -> Monitors] /\ window \in [Side -> Ends2] /\ link.changes \in Int
  BY ResType, ReadingType
<1>2. m \in Monitors
  <2>1. TRUE \in BOOLEAN /\ mon[s] \in Monitors
    BY <1>1
  <2> QED BY <2>1, WindowType
<1>3. mon' = [mon EXCEPT ![s] = m] /\ window' = [window EXCEPT ![s] = w]
  BY DEF OpenWindow
<1> HIDE DEF m
<1>4. w \in Ends2 /\ w.from = link.changes /\ w.to = window[s].to
  BY <1>1 DEF Ends2
<1> HIDE DEF w
<1> QED BY <1>1, <1>2, <1>3, <1>4 DEF m

\* A window of one side is closed.
LEMMA Closing ==
  ASSUME TypeInv, NEW s \in Side, CloseWindow(s)
  PROVE  /\ mon' \in [Side -> Monitors] /\ window' \in [Side -> Ends2]
         /\ mon'[s] = SetCableTestWindow(mon[s], FALSE, link) /\ mon'[s].windowEvents \in Int
         /\ window'[s].to = link.changes /\ window'[s].from = window[s].from
         /\ \A t \in Side : t # s => mon'[t] = mon[t] /\ window'[t] = window[t]
<1> DEFINE m == SetCableTestWindow(mon[s], FALSE, link)
           w == [window[s] EXCEPT !.to = link.changes]
<1>1. mon \in [Side -> Monitors] /\ window \in [Side -> Ends2] /\ link.changes \in Int
  BY ResType, ReadingType
<1>2. m \in Monitors
  <2>1. FALSE \in BOOLEAN /\ mon[s] \in Monitors
    BY <1>1
  <2> QED BY <2>1, WindowType
<1>3. mon' = [mon EXCEPT ![s] = m] /\ window' = [window EXCEPT ![s] = w]
  BY DEF CloseWindow
<1> HIDE DEF m
<1>4. w \in Ends2 /\ w.from = window[s].from /\ w.to = link.changes
  BY <1>1 DEF Ends2
<1>5. m.windowEvents \in Int
  BY <1>2 DEF Monitors
<1> HIDE DEF w
<1> QED BY <1>1, <1>2, <1>3, <1>4, <1>5 DEF m

\* The consent of the worker, or its refusal.
LEMMA TypeWindowStart == ASSUME TypeInv, CableWindowStart PROVE TypeInv'
<1>0. plan.phase = "cable" /\ UNCHANGED <<conf, link, hw, kept, report, faults>> /\ plan \in Plans(conf)
  BY ResType DEF CableWindowStart
<1>1. CASE OpenWindow("PC2") /\ plan' = [plan EXCEPT !.phase = "begin"] /\ UNCHANGED <<res, spent>>
  <2>1. plan' \in Plans(conf) /\ plan'.phase = "begin"
    BY <1>0, <1>1 DEF Plans, Phases
  <2>2. mon' \in [Side -> Monitors] /\ window' \in [Side -> Ends2]
    BY <1>1, Opening DEF Side
  <2> QED BY <1>0, <1>1, <2>1, <2>2, PastType, ResType
<1>2. CASE /\ Happens("failed")
           /\ res' = [res EXCEPT !.cable = CableResult(FALSE, {}, FALSE)]
           /\ plan' = [plan EXCEPT !.phase = "finish"]
           /\ UNCHANGED <<mon, window>>
  <2>1. plan' \in Plans(conf) /\ plan'.phase = "finish"
    BY <1>0, <1>2 DEF Plans, Phases
  <2>2. res' \in Results(conf) /\ Same(res', res, {"cable"})
    <3> DEFINE v == CableResult(FALSE, {}, FALSE)
    <3>1. FALSE \in BOOLEAN /\ {} \in SUBSET Pairs
      OBVIOUS
    <3>2. v \in CableResults
      BY <3>1, CableTyped
    <3>3. res' = With(res, "cable", v)
      BY <1>2 DEF With
    <3> HIDE DEF v
    <3> QED BY <3>2, <3>3, CablePut
  <2>3. res'.cycles = res.cycles
    BY <2>2 DEF Same, FieldNames
  <2>4. spent' \in 0..MaxAnomalies
    BY <1>2, HappensType, ResType
  <2> QED BY <1>0, <1>2, <2>1, <2>2, <2>3, <2>4, PastType, ResType
<1> QED BY <1>1, <1>2 DEF CableWindowStart

LEMMA TypeBegin == ASSUME TypeInv, BeginWindow PROVE TypeInv'
<1>1. plan' \in Plans(conf) /\ plan'.phase = "testing"
  BY ResType DEF BeginWindow, Plans, Phases
<1>2. mon' \in [Side -> Monitors] /\ window' \in [Side -> Ends2]
  BY Opening DEF BeginWindow, Side
<1> QED BY <1>1, <1>2, PastType, ResType DEF BeginWindow

\* The link with one more carrier change.
LEMMA FlipType ==
  ASSUME TypeInv, NEW b \in BOOLEAN, link' = [link EXCEPT !.up = b, !.changes = @ + 1]
  PROVE  link' \in Link(conf) /\ link'.changes = link.changes + 1 /\ link'.up = b /\ link'.speed = link.speed
<1>1. link \in Link(conf) /\ link.changes \in Nat
  BY ResType, ReadingType
<1> DEFINE n == link.changes + 1
<1>2. n \in Nat /\ link' = [link EXCEPT !.up = b, !.changes = n]
  BY <1>1
<1> HIDE DEF n
<1>3. link' \in Link(conf) /\ link'.changes = n /\ link'.up = b /\ link'.speed = link.speed
  BY <1>1, <1>2 DEF Link
<1> QED BY <1>3 DEF n

LEMMA TypeTesterDown == ASSUME TypeInv, TesterTakesLinkDown PROVE TypeInv'
<1>1. plan' \in Plans(conf) /\ plan'.phase = "measuring"
  BY ResType DEF TesterTakesLinkDown, Plans, Phases
<1>2. link' \in Link(conf)
  <2>1. FALSE \in BOOLEAN /\ link' = [link EXCEPT !.up = FALSE, !.changes = @ + 1]
    BY DEF TesterTakesLinkDown
  <2> QED BY <2>1, FlipType
<1> QED BY <1>1, <1>2, PastType, ResType DEF TesterTakesLinkDown

\* The cable test ends with a result, whatever becomes of the command.
LEMMA TesterStep ==
  ASSUME TypeInv, CableTesterRun
  PROVE  \E a, t \in BOOLEAN, p \in SUBSET Pairs :
           /\ plan.phase \in {"testing", "measuring"}
           /\ UNCHANGED <<conf, link, hw, mon, kept, window, report>> /\ spent' \in 0..MaxAnomalies
           /\ res' \in Results(conf) /\ Same(res', res, {"cable"}) /\ res'.cable # Absent
           /\ res'.cable = CableResult(a, p, t)
           /\ plan' \in Plans(conf)
           /\ \/ plan'.phase = "end" /\ plan'.err = plan.err
              \/ plan'.phase = "close" /\ plan'.err = TRUE
           /\ \/ ~a /\ faults' = faults
              \/ a /\ \E n \in DOMAIN PairResults : p = PairResults[n] /\ Blame({n})
<1>0. /\ plan.phase \in {"testing", "measuring"} /\ plan \in Plans(conf) /\ res \in Results(conf)
      /\ UNCHANGED <<conf, link, hw, mon, kept, window, report>>
  BY ResType DEF CableTesterRun
<1>1. ASSUME NEW a \in BOOLEAN, NEW t \in BOOLEAN, NEW p \in SUBSET Pairs,
             res' = [res EXCEPT !.cable = CableResult(a, p, t)]
      PROVE  res' \in Results(conf) /\ Same(res', res, {"cable"}) /\ res'.cable # Absent
             /\ res'.cable = CableResult(a, p, t)
  <2> DEFINE v == CableResult(a, p, t)
  <2>1. v \in CableResults
    BY CableTyped
  <2>2. res' = With(res, "cable", v)
    BY <1>1 DEF With
  <2> HIDE DEF v
  <2>3. res' \in Results(conf) /\ Same(res', res, {"cable"}) /\ res'.cable # Absent /\ res'.cable = v
    BY <2>1, <2>2, CablePut
  <2> QED BY <2>3 DEF v
<1>2. ASSUME NEW n \in May(DOMAIN PairResults), NEW tdr \in May({"clean", "unavailable", "failed"}),
             Spend(<<n, tdr>>), Blame({n}),
             res' = [res EXCEPT !.cable = CableResult(TRUE, PairResults[n], tdr = "unavailable")],
             plan' = IF tdr = "failed" THEN [plan EXCEPT !.phase = "close", !.err = TRUE]
                                       ELSE [plan EXCEPT !.phase = "end"]
      PROVE  \E a, t \in BOOLEAN, p \in SUBSET Pairs :
           /\ spent' \in 0..MaxAnomalies
           /\ res' \in Results(conf) /\ Same(res', res, {"cable"}) /\ res'.cable # Absent
           /\ res'.cable = CableResult(a, p, t)
           /\ plan' \in Plans(conf)
           /\ \/ plan'.phase = "end" /\ plan'.err = plan.err
              \/ plan'.phase = "close" /\ plan'.err = TRUE
           /\ \/ ~a /\ faults' = faults
              \/ a /\ \E k \in DOMAIN PairResults : p = PairResults[k] /\ Blame({k})
  <2>1. n \in DOMAIN PairResults
    BY MayIn
  <2>2. PairResults[n] \in SUBSET Pairs
    BY <2>1 DEF PairResults, Pairs
  <2>3. PICK t \in BOOLEAN : t = (tdr = "unavailable")
    OBVIOUS
  <2>4. spent' \in 0..MaxAnomalies
    <3>1. DOMAIN <<n, tdr>> = 1..2 /\ 2 \in Nat
      OBVIOUS
    <3> QED BY <3>1, <1>2, SpendType, ResType
  <2>5. TRUE \in BOOLEAN /\ res' = [res EXCEPT !.cable = CableResult(TRUE, PairResults[n], t)]
    BY <1>2, <2>3
  <2>6. /\ res' \in Results(conf) /\ Same(res', res, {"cable"}) /\ res'.cable # Absent
        /\ res'.cable = CableResult(TRUE, PairResults[n], t)
    BY <1>1, <2>2, <2>5
  <2>7. plan' \in Plans(conf) /\ ((plan'.phase = "end" /\ plan'.err = plan.err) \/ (plan'.phase = "close" /\ plan'.err = TRUE))
    <3>1. CASE tdr = "failed"
      BY <1>0, <1>2, <3>1 DEF Plans, Phases
    <3>2. CASE tdr # "failed"
      <4>1. plan' \in Plans(conf) /\ plan'.phase = "end" /\ plan'.err = plan.err
        BY <1>0, <1>2, <3>2 DEF Plans, Phases
      <4> QED BY <4>1
    <3> QED BY <3>1, <3>2
  <2> QED BY <1>2, <2>1, <2>2, <2>4, <2>5, <2>6, <2>7
<1>3. ASSUME NEW e, Happens(e), UNCHANGED faults,
             res' = [res EXCEPT !.cable = CableResult(FALSE, {}, FALSE)],
             \/ plan' = [plan EXCEPT !.phase = "end"]
             \/ plan' = [plan EXCEPT !.phase = "close", !.err = TRUE]
      PROVE  \E a, t \in BOOLEAN, p \in SUBSET Pairs :
           /\ spent' \in 0..MaxAnomalies
           /\ res' \in Results(conf) /\ Same(res', res, {"cable"}) /\ res'.cable # Absent
           /\ res'.cable = CableResult(a, p, t)
           /\ plan' \in Plans(conf)
           /\ \/ plan'.phase = "end" /\ plan'.err = plan.err
              \/ plan'.phase = "close" /\ plan'.err = TRUE
           /\ \/ ~a /\ faults' = faults
              \/ a /\ \E k \in DOMAIN PairResults : p = PairResults[k] /\ Blame({k})
  <2>1. spent' \in 0..MaxAnomalies
    BY <1>3, HappensType, ResType
  <2>2. FALSE \in BOOLEAN /\ {} \in SUBSET Pairs
    OBVIOUS
  <2>3. /\ res' \in Results(conf) /\ Same(res', res, {"cable"}) /\ res'.cable # Absent
        /\ res'.cable = CableResult(FALSE, {}, FALSE)
    <3> DEFINE v == CableResult(FALSE, {}, FALSE)
    <3>1. v \in CableResults
      BY <2>2, CableTyped
    <3>2. res' = With(res, "cable", v)
      BY <1>3 DEF With
    <3> HIDE DEF v
    <3>3. res' \in Results(conf) /\ Same(res', res, {"cable"}) /\ res'.cable # Absent /\ res'.cable = v
      BY <3>1, <3>2, CablePut
    <3> QED BY <3>3 DEF v
  <2>4. plan' \in Plans(conf) /\ ((plan'.phase = "end" /\ plan'.err = plan.err) \/ (plan'.phase = "close" /\ plan'.err = TRUE))
    <3>1. CASE plan' = [plan EXCEPT !.phase = "end"]
      <4>1. plan' \in Plans(conf) /\ plan'.phase = "end" /\ plan'.err = plan.err
        BY <1>0, <3>1 DEF Plans, Phases
      <4> QED BY <4>1
    <3>2. CASE plan' = [plan EXCEPT !.phase = "close", !.err = TRUE]
      BY <1>0, <3>2 DEF Plans, Phases
    <3> QED BY <1>3, <3>1, <3>2
  <2> QED BY <1>3, <2>1, <2>2, <2>3, <2>4
<1> QED BY <1>0, <1>2, <1>3 DEF CableTesterRun

LEMMA TypeTester == ASSUME TypeInv, CableTesterRun PROVE TypeInv'
<1>1. /\ UNCHANGED <<conf, link, hw, mon, kept, window, report>> /\ spent' \in 0..MaxAnomalies
      /\ res' \in Results(conf) /\ Same(res', res, {"cable"}) /\ res'.cable # Absent
      /\ plan' \in Plans(conf) /\ plan'.phase \in {"end", "close"}
  BY TesterStep
<1>2. res'.cycles = res.cycles
  BY <1>1 DEF Same, FieldNames
<1> QED BY <1>1, <1>2, PastType, ResType

LEMMA WindowEndStep ==
  ASSUME TypeInv, CableWindowEnd
  PROVE  /\ plan.phase = "end" /\ UNCHANGED <<conf, link, hw, kept, report>> /\ spent' \in 0..MaxAnomalies
         /\ plan' \in Plans(conf) /\ plan'.phase = "close" /\ plan'.err = plan.err
         /\ res' \in Results(conf) /\ Same(res', res, {"cable"}) /\ res'.cable # Absent
         /\ mon' \in [Side -> Monitors] /\ window' \in [Side -> Ends2] /\ faults' = faults
         /\ \/ UNCHANGED <<mon, window, res>>
            \/ /\ CloseWindow("PC2") /\ link.up
               /\ res'.cable.selfInflicted["PC2"] = mon'["PC2"].windowEvents
               /\ res'.cable.selfInflicted["PC1"] = res.cable.selfInflicted["PC1"]
               /\ res'.cable.available = res.cable.available /\ res'.cable.pairs = res.cable.pairs
               /\ res'.cable.tdrMissing = res.cable.tdrMissing
<1>0. plan.phase = "end" /\ UNCHANGED <<conf, link, hw, kept, report>> /\ plan \in Plans(conf)
      /\ plan' = [plan EXCEPT !.phase = "close"] /\ res.cable # Absent
  BY ResType DEF CableWindowEnd, TypeInv
<1>1. plan' \in Plans(conf) /\ plan'.phase = "close" /\ plan'.err = plan.err
  BY <1>0 DEF Plans, Phases
<1>2. CASE /\ link.up /\ CloseWindow("PC2")
           /\ res' = [res EXCEPT !.cable.selfInflicted.PC2 = mon'["PC2"].windowEvents]
           /\ UNCHANGED <<faults, spent>>
  <2>1. "PC2" \in Side /\ "PC1" \in Side /\ "PC1" # "PC2"
    BY DEF Side
  <2>2. mon' \in [Side -> Monitors] /\ window' \in [Side -> Ends2] /\ mon'["PC2"].windowEvents \in Int
    BY <1>2, <2>1, Closing
  <2> DEFINE n == mon'["PC2"].windowEvents
  <2>3. res' = [res EXCEPT !.cable.selfInflicted["PC2"] = n]
    BY <1>2
  <2>4. n \in Int
    BY <2>2
  <2> HIDE DEF n
  <2>5. /\ res' \in Results(conf) /\ Same(res', res, {"cable"}) /\ res'.cable # Absent
        /\ res'.cable.selfInflicted["PC2"] = n
        /\ res'.cable.selfInflicted["PC1"] = res.cable.selfInflicted["PC1"]
        /\ res'.cable.available = res.cable.available /\ res'.cable.pairs = res.cable.pairs
        /\ res'.cable.tdrMissing = res.cable.tdrMissing
    <3>1. res' = WithInflicted(res, "PC2", n)
      BY <2>3 DEF WithInflicted
    <3>2. res' \in Results(conf) /\ Same(res', res, {"cable"}) /\ res'.cable # Absent
      BY <3>1, <2>1, <2>4, <1>0, InflictedPut
    <3>3. /\ res'.cable.selfInflicted["PC2"] = n
          /\ res'.cable.selfInflicted["PC1"] = res.cable.selfInflicted["PC1"]
      BY <3>1, <2>1, <2>4, <1>0, InflictedPut
    <3>4. /\ res'.cable.available = res.cable.available /\ res'.cable.pairs = res.cable.pairs
          /\ res'.cable.tdrMissing = res.cable.tdrMissing
      BY <3>1, <2>1, <2>4, <1>0, InflictedPut
    <3> QED BY <3>2, <3>3, <3>4
  <2> QED BY <1>0, <1>1, <1>2, <2>2, <2>5, ResType DEF n
<1>3. CASE Happens("failed") /\ UNCHANGED <<mon, window, res, faults>>
  <2>1. spent' \in 0..MaxAnomalies
    BY <1>3, HappensType, ResType
  <2>2. Same(res', res, {"cable"})
    BY <1>3 DEF Same
  <2> QED BY <1>0, <1>1, <1>3, <2>1, <2>2, ResType
<1> QED BY <1>2, <1>3 DEF CableWindowEnd

LEMMA EndWindowStep ==
  ASSUME TypeInv, EndWindow
  PROVE  /\ plan.phase = "close" /\ UNCHANGED <<conf, link, hw, kept, report, spent>>
         /\ plan' \in Plans(conf) /\ plan'.phase = "finish" /\ plan'.err = plan.err
         /\ res' \in Results(conf) /\ Same(res', res, {"cable"}) /\ res'.cable # Absent
         /\ mon' \in [Side -> Monitors] /\ window' \in [Side -> Ends2] /\ CloseWindow("PC1")
         /\ res'.cable.selfInflicted["PC1"] = mon'["PC1"].windowEvents
         /\ res'.cable.selfInflicted["PC2"] = res.cable.selfInflicted["PC2"]
         /\ res'.cable.available = res.cable.available /\ res'.cable.pairs = res.cable.pairs
         /\ res'.cable.tdrMissing = res.cable.tdrMissing
         /\ faults' = faults
<1>0. plan.phase = "close" /\ UNCHANGED <<conf, link, hw, kept, report, spent>> /\ plan \in Plans(conf)
      /\ plan' = [plan EXCEPT !.phase = "finish"] /\ res.cable # Absent /\ CloseWindow("PC1")
      /\ res' = [res EXCEPT !.cable.selfInflicted.PC1 = mon'["PC1"].windowEvents]
      /\ faults' = faults
  BY ResType DEF EndWindow, TypeInv
<1>1. plan' \in Plans(conf) /\ plan'.phase = "finish" /\ plan'.err = plan.err
  BY <1>0 DEF Plans, Phases
<1>2. "PC2" \in Side /\ "PC1" \in Side /\ "PC1" # "PC2"
  BY DEF Side
<1>3. mon' \in [Side -> Monitors] /\ window' \in [Side -> Ends2] /\ mon'["PC1"].windowEvents \in Int
  BY <1>0, <1>2, Closing
<1> DEFINE n == mon'["PC1"].windowEvents
<1>3a. n \in Int /\ res.cable # Absent
  BY <1>0, <1>3
<1>4. res' = WithInflicted(res, "PC1", n)
  BY <1>0 DEF WithInflicted
<1> HIDE DEF n
<1>5. res' \in Results(conf) /\ Same(res', res, {"cable"}) /\ res'.cable # Absent
  BY <1>2, <1>3a, <1>4, InflictedPut
<1>6. /\ res'.cable.selfInflicted["PC1"] = n
      /\ res'.cable.selfInflicted["PC2"] = res.cable.selfInflicted["PC2"]
  BY <1>2, <1>3a, <1>4, InflictedPut
<1>7. /\ res'.cable.available = res.cable.available /\ res'.cable.pairs = res.cable.pairs
      /\ res'.cable.tdrMissing = res.cable.tdrMissing
  BY <1>2, <1>3a, <1>4, InflictedPut
<1> QED BY <1>0, <1>1, <1>3, <1>5, <1>6, <1>7 DEF n

LEMMA TypeWindowEnd == ASSUME TypeInv, CableWindowEnd \/ EndWindow PROVE TypeInv'
<1>1. CASE CableWindowEnd
  <2>1. /\ UNCHANGED <<conf, link, hw, kept>> /\ spent' \in 0..MaxAnomalies
        /\ plan' \in Plans(conf) /\ plan'.phase = "close"
        /\ res' \in Results(conf) /\ Same(res', res, {"cable"}) /\ res'.cable # Absent
        /\ mon' \in [Side -> Monitors] /\ window' \in [Side -> Ends2]
    BY <1>1, WindowEndStep
  <2>2. res'.cycles = res.cycles
    BY <2>1 DEF Same, FieldNames
  <2> QED BY <2>1, <2>2, PastType, ResType
<1>2. CASE EndWindow
  <2>1. /\ UNCHANGED <<conf, link, hw, kept, spent>>
        /\ plan' \in Plans(conf) /\ plan'.phase = "finish"
        /\ res' \in Results(conf) /\ Same(res', res, {"cable"})
        /\ mon' \in [Side -> Monitors] /\ window' \in [Side -> Ends2]
    BY <1>2, EndWindowStep
  <2>2. res'.cycles = res.cycles
    BY <2>1 DEF Same, FieldNames
  <2> QED BY <2>1, <2>2, PastType, ResType
<1> QED BY <1>1, <1>2

LEMMA TypeRender ==
  ASSUME TypeInv, renderProvisional \/ PrepareComplete \/ finishCoordinator
  PROVE  TypeInv'
<1>1. /\ UNCHANGED <<conf, link, hw, res, kept, window>>
      /\ plan' \in Plans(conf) /\ plan'.phase \in {"rendering", "done"}
  BY ResType DEF renderProvisional, PrepareComplete, finishCoordinator, Plans, Phases
<1>2. mon' \in [Side -> Monitors]
  <2>1. mon \in [Side -> Monitors] /\ "PC1" \in Side
    BY ResType DEF Side
  <2>2. pollLocked(mon["PC1"], link) \in Monitors
    BY <2>1, PollType
  <2>3. \/ mon' = [mon EXCEPT !["PC1"] = pollLocked(mon["PC1"], link)]
        \/ mon' = [mon EXCEPT !["PC1"] = mon["PC1"]] \/ mon' = mon
    BY DEF renderProvisional, PrepareComplete, finishCoordinator
  <2> QED BY <2>1, <2>2, <2>3
<1>3. spent' \in 0..MaxAnomalies
  BY HappensType, ResType DEF renderProvisional, PrepareComplete, finishCoordinator
<1> QED BY <1>1, <1>2, <1>3, PastType, ResType

-----------------------------------------------------------------------------
(* The world between the steps.                                            *)

\* What the world moves leaves the plan and its results alone.
LEMMA WorldType ==
  ASSUME TypeInv, UNCHANGED <<conf, plan, res, kept, window>>, link' \in Link(conf),
         hw' \in [Side -> HW], mon' \in [Side -> Monitors], spent' \in 0..MaxAnomalies
  PROVE  TypeInv'
<1>1. InCycle' = InCycle
  BY DEF InCycle
<1> QED BY <1>1 DEF TypeInv

\* The tallies of one side after n more of one kind.
Damaged(s, key, n) ==
  /\ hw'[s][key] = hw[s][key] + n /\ hw'[s].corrupt = hw[s].corrupt + n
  /\ \A k \in DOMAIN hw[s] : k \notin {key, "corrupt"} => hw'[s][k] = hw[s][k]
LEMMA CorruptType ==
  ASSUME TypeInv, NEW s \in Side, NEW key \in {"rx_crc", "rx_length"}, NEW n \in Nat,
         hw' = [hw EXCEPT ![s][key] = @ + n, ![s].corrupt = @ + n]
  PROVE  hw' \in [Side -> HW] /\ (\A t \in Side : t # s => hw'[t] = hw[t]) /\ Damaged(s, key, n)
<1>1. hw \in [Side -> HW]
  BY ResType
<1> DEFINE h == [hw[s] EXCEPT ![key] = @ + n]
           g == [h EXCEPT !.corrupt = @ + n]
<1>2. hw[s] \in HW
  BY <1>1
<1>3. h \in HW /\ h[key] = hw[s][key] + n /\ \A k \in DOMAIN hw[s] : k # key => h[k] = hw[s][k]
  BY <1>2 DEF HW
<1>4. h.corrupt = hw[s].corrupt /\ DOMAIN h = DOMAIN hw[s]
  BY <1>2, <1>3 DEF HW
<1>5. hw' = [hw EXCEPT ![s] = g]
  BY <1>1
<1> HIDE DEF h
<1>6. g \in HW /\ g.corrupt = hw[s].corrupt + n /\ \A k \in DOMAIN h : k # "corrupt" => g[k] = h[k]
  BY <1>3, <1>4 DEF HW
<1>7. "corrupt" # key /\ key \in DOMAIN h
  BY <1>3 DEF HW
<1> HIDE DEF g
<1> QED BY <1>1, <1>3, <1>4, <1>5, <1>6, <1>7 DEF Damaged

LEMMA RingType ==
  ASSUME TypeInv, NEW s \in Side, NEW n \in Nat, hw' = [hw EXCEPT ![s].rx_missed = @ + n]
  PROVE  /\ hw' \in [Side -> HW] /\ \A t \in Side : t # s => hw'[t] = hw[t]
         /\ hw'[s].rx_missed = hw[s].rx_missed + n
         /\ \A k \in DOMAIN hw[s] : k # "rx_missed" => hw'[s][k] = hw[s][k]
<1>1. hw \in [Side -> HW]
  BY ResType
<1> DEFINE h == [hw[s] EXCEPT !.rx_missed = @ + n]
<1>2. hw[s] \in HW
  BY <1>1
<1>3. h \in HW /\ h.rx_missed = hw[s].rx_missed + n /\ \A k \in DOMAIN hw[s] : k # "rx_missed" => h[k] = hw[s][k]
  BY <1>2 DEF HW
<1>5. hw' = [hw EXCEPT ![s] = h]
  BY <1>1
<1> HIDE DEF h
<1> QED BY <1>1, <1>3, <1>5

LEMMA ResetType ==
  ASSUME TypeInv, NEW s \in Side, hw' = [hw EXCEPT ![s] = Fresh(0, hw[s].corrupt, hw[s].resets + 1)]
  PROVE  /\ hw' \in [Side -> HW] /\ \A t \in Side : t # s => hw'[t] = hw[t]
         /\ hw'[s] = Fresh(0, hw[s].corrupt, hw[s].resets + 1)
<1>1. hw \in [Side -> HW]
  BY ResType
<1>2. hw[s] \in HW
  BY <1>1
<1>3. Fresh(0, hw[s].corrupt, hw[s].resets + 1) \in HW
  BY <1>2 DEF HW, Fresh
<1> QED BY <1>1, <1>3

LEMMA SlowedType ==
  ASSUME TypeInv, link.speed = 1000, link' = [link EXCEPT !.speed = 100]
  PROVE  link' \in Link(conf) /\ link'.up = link.up /\ link'.changes = link.changes /\ link'.speed = 100
<1>1. link \in Link(conf) /\ conf \in Confs
  BY ResType
<1>2. conf.speed \in Nat
  BY <1>1, ConfType
<1> QED BY <1>1, <1>2 DEF Link

LEMMA TypeWorld == ASSUME TypeInv, World PROVE TypeInv'
<1>0. /\ link \in Link(conf) /\ hw \in [Side -> HW] /\ mon \in [Side -> Monitors]
      /\ spent \in 0..MaxAnomalies
  BY ResType
<1>1. CASE LinkDown
  <2>1. link' \in Link(conf)
    BY <1>1, FlipType DEF LinkDown
  <2>2. spent' \in 0..MaxAnomalies
    BY <1>0, <1>1, HappensType DEF LinkDown
  <2> QED BY <1>0, <1>1, <2>1, <2>2, WorldType DEF LinkDown, WorldMoves
<1>2. CASE LinkUp
  <2>1. link' \in Link(conf)
    BY <1>2, FlipType DEF LinkUp
  <2> QED BY <1>0, <1>2, <2>1, WorldType DEF LinkUp, WorldMoves
<1>3. CASE Renegotiate
  <2>1. link' \in Link(conf)
    BY <1>3, SlowedType DEF Renegotiate
  <2>2. spent' \in 0..MaxAnomalies
    BY <1>0, <1>3, HappensType DEF Renegotiate
  <2> QED BY <1>0, <1>3, <2>1, <2>2, WorldType DEF Renegotiate, WorldMoves
<1>4. ASSUME NEW s \in Side, Reset(s) PROVE TypeInv'
  <2>1. hw' \in [Side -> HW]
    BY <1>4, ResetType DEF Reset
  <2>2. spent' \in 0..MaxAnomalies
    BY <1>0, <1>4, HappensType DEF Reset
  <2> QED BY <1>0, <1>4, <2>1, <2>2, WorldType DEF Reset, WorldMoves
<1>5. ASSUME NEW s \in Side, Poll(s) PROVE TypeInv'
  <2>1. pollLocked(mon[s], link) \in Monitors
    BY <1>0, PollType
  <2>2. mon' \in [Side -> Monitors]
    BY <1>0, <1>5, <2>1 DEF Poll
  <2> QED BY <1>0, <1>5, <2>2, WorldType DEF Poll
<1>6. ASSUME NEW s \in Side, NEW n \in Nat, RingDrop(s, n) PROVE TypeInv'
  <2>1. hw' \in [Side -> HW]
    BY <1>6, RingType DEF RingDrop
  <2>2. spent' \in 0..MaxAnomalies
    BY <1>0, <1>6, HappensType DEF RingDrop
  <2> QED BY <1>0, <1>6, <2>1, <2>2, WorldType DEF RingDrop, WorldMoves
<1>7. ASSUME NEW s \in Side, NEW key \in {"rx_crc", "rx_length"}, NEW n \in Nat, Corrupt(s, key, n)
      PROVE  TypeInv'
  <2>1. hw' \in [Side -> HW]
    BY <1>7, CorruptType DEF Corrupt
  <2>2. spent' \in 0..MaxAnomalies
    BY <1>0, <1>7, HappensType DEF Corrupt
  <2> QED BY <1>0, <1>7, <2>1, <2>2, WorldType DEF Corrupt, WorldMoves
<1>8. \A c \in Corruptions : c[1] \in {"rx_crc", "rx_length"} /\ c[2] \in Nat
  BY DEF Corruptions
<1> QED BY <1>1, <1>2, <1>3, <1>4, <1>5, <1>6, <1>7, <1>8 DEF World

LEMMA TypeInit == Init => TypeInv
<1> SUFFICES ASSUME Init PROVE TypeInv
  OBVIOUS
<1>1. conf \in Confs
  BY DEF Init
<1>2. conf.speed \in Nat /\ conf.nic \in [Side -> NICs] /\ conf.speed > 0 /\ conf.mode \in Modes
  BY <1>1, ConfType
<1>3. link = [up |-> TRUE, speed |-> conf.speed, changes |-> 2]
  BY DEF Init
<1>4. link \in Link(conf)
  BY <1>2, <1>3 DEF Link
<1>5. hw \in [Side -> HW]
  <2>1. \A s \in Side : conf.nic[s].base \in Nat
    BY <1>2 DEF NICs
  <2>2. \A n \in Nat : Fresh(n, 0, 0) \in HW
    BY DEF Fresh, HW
  <2> QED BY <2>1, <2>2 DEF Init
<1>6. mon \in [Side -> Monitors]
  <2>1. NewMonitor(link) \in Monitors
    BY <1>2, <1>3 DEF NewMonitor, Monitors, ReadLinkSnapshot, Reading
  <2> QED BY <2>1 DEF Init
<1>7. plan \in Plans(conf) /\ plan.phase = "base" /\ plan.step = 1
  <2>1. plan = [phase |-> "base", step |-> 1, err |-> FALSE]
    BY DEF Init
  <2>2. 1 \in 1..Len(StepsOf(conf))
    BY <1>1, <1>2, QuickSteps, StandardSteps, SoakSteps, BoundsAssumption DEF Modes
  <2> QED BY <2>1, <2>2 DEF Plans, Phases
<1>8. res \in Results(conf) /\ res.cycles = 0
  <2>1. 0 \in 0..MaxCycles
    BY BoundsAssumption
  <2> QED BY <2>1 DEF Init, Results
<1>9. window \in [Side -> Ends2]
  BY DEF Init, Ends2
<1>10. kept = Absent /\ spent \in 0..MaxAnomalies
  BY BoundsAssumption DEF Init
<1>11. ~InCycle /\ res.cycles < MaxCycles
  BY <1>7, <1>8, BoundsAssumption DEF InCycle, CycleStart
<1> QED BY <1>1, <1>4, <1>5, <1>6, <1>7, <1>8, <1>9, <1>10, <1>11 DEF TypeInv

LEMMA TypeNext == ASSUME TypeInv, [Next]_vars PROVE TypeInv'
<1>1. CASE World
  BY <1>1, TypeWorld
<1>2. CASE UNCHANGED vars
  <2>1. UNCHANGED <<conf, link, hw, mon, plan, res, kept, window, spent>>
    BY <1>2 DEF vars
  <2> QED BY <2>1, WorldType, ResType
<1>3. CASE Plan
  <2>1. CASE stepInitialCounters
    BY <2>1, TypeCounters DEF stepInitialCounters
  <2>2. CASE stepFinalCounters
    BY <2>2, TypeCounters DEF stepFinalCounters
  <2>3. CASE Over
    BY <2>3, <1>2 DEF Over
  <2> QED BY <1>3, <2>1, <2>2, <2>3, TypeLink, TypePing, TypeFull, TypeTCP, TypeBidir, TypeUDP, TypeCycle,
             TypeCommit, TypeBudget, TypeBoundary, TypeSalvage, TypeWindowStart, TypeBegin, TypeTesterDown,
             TypeTester, TypeWindowEnd, TypeRender DEF Plan
<1> QED BY <1>1, <1>2, <1>3 DEF Next

\* The types of the variables hold throughout.
LEMMA Typed == Spec => []TypeInv
BY TypeInit, TypeNext, PTL DEF Spec

-----------------------------------------------------------------------------
(* The steps of the plan proper.                                           *)

BaseStep ==
  \/ stepLink \/ stepInitialCounters \/ stepPing \/ stepFullSizePing \/ stepTCPForward
  \/ stepTCPReverse \/ stepBidir \/ stepUDP \/ stepReducedUDP \/ stepFinalCounters
  \/ cycleCounters \/ commitCycle \/ BudgetExpires
CableStep ==
  \/ CableWindowStart \/ BeginWindow \/ TesterTakesLinkDown \/ CableTesterRun
  \/ CableWindowEnd \/ EndWindow
Rendering == renderProvisional \/ PrepareComplete \/ finishCoordinator

LEMMA NextCases ==
  ASSUME [Next]_vars
  PROVE  \/ World \/ UNCHANGED vars \/ BaseStep \/ snapshotCountersDetached
         \/ salvageFinalCounters \/ CableStep \/ Rendering
BY DEF Next, Plan, BaseStep, CableStep, Rendering, Over

AfterPhases == {"base", "boundary", "salvage", "cable", "finish"}

\* How the step that measured r ends; a cycle that fails leaves no trace.
LEMMA EndsShape ==
  ASSUME TypeInv, plan.phase = "base", NEW r \in Results(conf), NEW o, Ends(r, o)
  PROVE  /\ plan' \in Plans(conf) /\ plan'.phase \in AfterPhases
         /\ o \notin Errors => plan' = StepDone(plan) /\ res' = r
         /\ o \in Errors =>
              /\ plan' = Failing(plan) /\ plan'.err /\ plan'.phase \in {"boundary", "salvage"}
              /\ res' = With(IF InCycle THEN kept ELSE r, "incomplete", TRUE)
              /\ Same(res', IF InCycle THEN kept ELSE r, {"incomplete"}) /\ res'.incomplete
<1>1. CASE o \in Errors
  <2> DEFINE q == IF InCycle THEN kept ELSE r
  <2>1. plan' = Failing(plan) /\ res' = With(q, "incomplete", TRUE)
    BY <1>1 DEF Ends, With
  <2>2. q \in Results(conf)
    BY DEF TypeInv
  <2> HIDE DEF q
  <2>3. res'.incomplete /\ \A g \in DOMAIN q : g # "incomplete" => res'[g] = q[g]
    <3>1. TRUE \in BOOLEAN
      OBVIOUS
    <3> QED BY <2>1, <2>2, <3>1, FlagType
  <2>4. Same(res', q, {"incomplete"})
    BY <2>2, <2>3, ResultFields DEF Same
  <2>5. plan' \in Plans(conf) /\ plan'.phase \in {"boundary", "salvage"} /\ plan'.err
    BY <2>1, PlanMoves
  <2>6. plan'.phase \in AfterPhases
    BY <2>5 DEF AfterPhases
  <2> QED BY <1>1, <2>1, <2>3, <2>4, <2>5, <2>6 DEF q
<1>2. CASE o \notin Errors
  <2>1. plan' = StepDone(plan) /\ res' = r
    BY <1>2 DEF Ends
  <2>2. plan' \in Plans(conf)
    BY <2>1, PlanMoves
  <2>3. plan'.phase \in AfterPhases
    <3>1. plan.step \in 1..Len(StepsOf(conf))
      BY ResType DEF Plans
    <3>2. CASE plan.step < Len(StepsOf(conf))
      <4>1. plan'.phase = "base"
        BY <2>1, <3>2, PlanMoves
      <4> QED BY <4>1 DEF AfterPhases
    <3>3. CASE ~(plan.step < Len(StepsOf(conf)))
      <4>1. plan' = AfterBase(plan)
        BY <2>1, <3>3 DEF StepDone
      <4>2. plan'.phase \in {"cable", "finish"}
        BY <4>1, PlanMoves
      <4> QED BY <4>2 DEF AfterPhases
    <3> QED BY <3>2, <3>3
  <2> QED BY <1>2, <2>1, <2>2, <2>3
<1> QED BY <1>1, <1>2

\* What no step of the plan proper touches.
LEMMA BaseFrame ==
  ASSUME TypeInv, BaseStep
  PROVE  /\ UNCHANGED <<conf, link, hw, mon, window, report>>
         /\ plan.phase = "base" /\ plan'.phase \in AfterPhases /\ res'.cable = res.cable
<1>1. ASSUME NEW r \in Results(conf), NEW o, NEW S \in SUBSET FieldNames, "cable" \notin S,
             plan.phase = "base", Ends(r, o), Same(r, res, S)
      PROVE  plan.phase = "base" /\ plan'.phase \in AfterPhases /\ res'.cable = res.cable
  <2>1. r.cable = res.cable
    BY <1>1 DEF Same, FieldNames
  <2>2. InCycle => kept.cable = res.cable
    BY DEF TypeInv, SameFrame
  <2>3. plan'.phase \in AfterPhases
    BY <1>1, EndsShape
  <2>4. CASE o \notin Errors
    <3>1. res' = r
      BY <1>1, <2>4, EndsShape
    <3> QED BY <1>1, <2>1, <2>3, <3>1
  <2>5. CASE o \in Errors
    <3>1. Same(res', IF InCycle THEN kept ELSE r, {"incomplete"})
      BY <1>1, <2>5, EndsShape
    <3>2. CASE InCycle
      <4>1. Same(res', kept, {"incomplete"})
        BY <3>1, <3>2
      <4>2. res'.cable = kept.cable
        BY <4>1 DEF Same, FieldNames
      <4> QED BY <1>1, <2>2, <2>3, <3>2, <4>2
    <3>3. CASE ~InCycle
      <4>1. Same(res', r, {"incomplete"})
        BY <3>1, <3>3
      <4>2. res'.cable = r.cable
        BY <4>1 DEF Same, FieldNames
      <4> QED BY <1>1, <2>1, <2>3, <4>2
    <3> QED BY <3>2, <3>3
  <2> QED BY <2>4, <2>5
<1> USE DEF FieldNames
<1>2. CASE stepLink
  <2>1. PICK r \in Results(conf), o \in {"clean", "unavailable", "failed"} :
          At("link") /\ Unmoved /\ Ends(r, o) /\ Same(r, res, {"link", "skipped"})
    BY <1>2, LinkStep
  <2> QED BY <2>1, <1>1 DEF Unmoved, At
<1>3. ASSUME NEW into \in {"initial", "final"}, stepCounters(into, into)
      PROVE  /\ UNCHANGED <<conf, link, hw, mon, window, report>>
             /\ plan.phase = "base" /\ plan'.phase \in AfterPhases /\ res'.cable = res.cable
  <2>1. PICK o \in CounterOutcomes, r \in Results(conf) :
          At(into) /\ Unmoved /\ Ends(r, o) /\ Same(r, res, {into, "skipped"})
    BY <1>3, CounterStep
  <2> QED BY <2>1, <1>1 DEF Unmoved, At
<1>4. ASSUME LocalFails, plan.phase = "base"
      PROVE  plan.phase = "base" /\ plan'.phase \in AfterPhases /\ res'.cable = res.cable
  <2>1. Ends(res, "failed") /\ Same(res, res, {}) /\ res \in Results(conf)
    BY <1>4, ResType DEF LocalFails, Same
  <2> QED BY <1>4, <2>1, <1>1
<1>5. CASE stepPing
  <2> DEFINE names == {"clean", "trickle", "lossy", "unsteady"}
  <2>0. Unmoved /\ plan.phase = "base"
    BY <1>5 DEF stepPing, At
  <2>1. CASE PingBoth("ping", "ping", names)
    <3>1. names \in SUBSET DOMAIN Pings
      BY DEF Pings
    <3> HIDE DEF names
    <3>2. PICK o \in {"clean", "unavailable", "failed"}, r \in Results(conf) :
            Ends(r, o) /\ Same(r, res, {"ping", "skipped"})
      BY <2>1, <3>1, PingStep
    <3> QED BY <2>0, <3>2, <1>1 DEF Unmoved
  <2>2. CASE LocalFails
    BY <2>0, <2>2, <1>4 DEF Unmoved
  <2> QED BY <1>5, <2>1, <2>2 DEF stepPing
<1>6. CASE stepFullSizePing
  <2> DEFINE names == {"clean", "lossy", "fragmented"}
  <2>0. Unmoved /\ plan.phase = "base"
    BY <1>6 DEF stepFullSizePing, At
  <2>1. CASE PingBoth("fullSizePing", "full_size_ping", names)
    <3>1. names \in SUBSET DOMAIN Pings
      BY DEF Pings
    <3> HIDE DEF names
    <3>2. PICK o \in {"clean", "unavailable", "failed"}, r \in Results(conf) :
            Ends(r, o) /\ Same(r, res, {"fullSizePing", "skipped"})
      BY <2>1, <3>1, PingStep
    <3> QED BY <2>0, <3>2, <1>1 DEF Unmoved
  <2>2. CASE LocalFails
    BY <2>0, <2>2, <1>4 DEF Unmoved
  <2> QED BY <1>6, <2>1, <2>2 DEF stepFullSizePing
<1>7. CASE stepTCPForward \/ stepTCPReverse
  <2>1. PICK dir \in Side, outcomes \in SUBSET Outcomes : TCPPhase(dir, outcomes) /\ Unmoved
    BY <1>7 DEF stepTCPForward, stepTCPReverse, Side
  <2>2. PICK o \in outcomes, r \in Results(conf) : Ends(r, o) /\ SameButLog(r, res, "tcp")
    BY <2>1, TCPStep
  <2>3. plan.phase = "base"
    BY <1>7 DEF stepTCPForward, stepTCPReverse, At
  <2> QED BY <2>1, <2>2, <2>3, <1>1 DEF Unmoved, SameButLog
<1>8. CASE stepBidir
  <2>1. PICK o \in Outcomes, r \in Results(conf) :
          At("bidir") /\ Unmoved /\ Ends(r, o) /\ Same(r, res, {"bidir", "skipped"})
    BY <1>8, BidirStep
  <2> QED BY <2>1, <1>1 DEF Unmoved, At
<1>9. CASE stepUDP \/ stepReducedUDP
  <2>1. PICK rate \in Nat : stepUDPAtRate(rate) /\ Unmoved /\ plan.phase = "base"
    BY <1>9, RateType DEF stepUDP, stepReducedUDP, At
  <2>2. PICK o \in Outcomes, r \in Results(conf) :
          Ends(r, o) /\ Same(r, res, {"udp", "skipped", "incomplete", "udpRateAssumed"})
    BY <2>1, UDPStep
  <2> QED BY <2>1, <2>2, <1>1 DEF Unmoved
<1>10. CASE cycleCounters
  <2>1. PICK o \in CounterOutcomes, r \in Results(conf) :
           /\ At("cycle") /\ UNCHANGED <<conf, link, hw, mon, window, report, faults>>
           /\ Ends(r, o) /\ Same(r, res, {"skipped"})
    BY <1>10, CycleStep
  <2> QED BY <2>1, <1>1 DEF At
<1>11. CASE commitCycle
  <2>1. PICK o \in CounterOutcomes, r \in Results(conf) :
           /\ At("cycleEnd") /\ UNCHANGED <<conf, link, hw, mon, window, report, faults>>
           /\ Same(r, res, {"skipped"})
           /\ \/ o \in Errors /\ Ends(r, o)
              \/ /\ res' = [r EXCEPT !.cycles = @ + 1, !.incomplete = kept.incomplete]
                 /\ \/ plan' = [plan EXCEPT !.step = CycleStart]
                    \/ plan' = [plan EXCEPT !.phase = "boundary"]
    BY <1>11, CommitStep
  <2>2. InCycle /\ plan.phase = "base"
    BY <2>1, CommitPlace
  <2>3. CASE Ends(r, o)
    BY <2>1, <2>2, <2>3, <1>1
  <2>4. CASE /\ res' = [r EXCEPT !.cycles = @ + 1, !.incomplete = kept.incomplete]
             /\ \/ plan' = [plan EXCEPT !.step = CycleStart]
                \/ plan' = [plan EXCEPT !.phase = "boundary"]
    <3>1. Same(res', r, {"cycles", "incomplete"})
      BY <2>1, <2>2, <2>4, CommitFields
    <3>2. res'.cable = r.cable /\ r.cable = res.cable
      BY <2>1, <3>1 DEF Same
    <3>3. plan'.phase \in {"base", "boundary"}
      BY <2>2, <2>4, ResType DEF Plans
    <3> QED BY <2>1, <2>2, <3>2, <3>3 DEF AfterPhases
  <2> QED BY <2>1, <2>3, <2>4
<1>12. CASE BudgetExpires
  <2>1. InCycle /\ res' = kept /\ plan' = [plan EXCEPT !.phase = "boundary"]
        /\ UNCHANGED <<conf, link, hw, mon, window, report>>
    BY <1>12 DEF BudgetExpires
  <2>2. kept.cable = res.cable /\ plan.phase = "base"
    BY <2>1 DEF TypeInv, SameFrame, InCycle
  <2>3. plan'.phase = "boundary"
    BY <2>1, ResType DEF Plans
  <2> QED BY <2>1, <2>2, <2>3 DEF AfterPhases
<1> QED BY <1>2, <1>3, <1>5, <1>6, <1>7, <1>8, <1>9, <1>10, <1>11, <1>12
        DEF BaseStep, stepInitialCounters, stepFinalCounters

-----------------------------------------------------------------------------
(* The windows of the cable diagnostics.                                   *)

Open(s) ==
  /\ mon[s].window /\ window[s].from \in Int /\ window[s].to = Absent
  /\ mon[s].windowEvents = mon[s].last.changes - window[s].from
Closed(s) == ~mon[s].window
Inflicted(s) == IF window[s].to = Absent THEN 0 ELSE window[s].to - window[s].from

\* While a window is open its monitor has counted every change up to its last
\* reading; the count in the results is that of a window that was closed.
WindowInv ==
  /\ \A s \in Side : Open(s) \/ Closed(s)
  /\ res.cable # Absent => \A s \in Side : res.cable.selfInflicted[s] = Inflicted(s)
  /\ plan.phase \in {"base", "boundary", "salvage", "cable"} =>
       \A s \in Side : Closed(s) /\ window[s].to = Absent
  /\ plan.phase \in {"base", "boundary", "salvage", "cable", "begin", "testing", "measuring"} =>
       res.cable = Absent
  /\ plan.phase = "begin" => Open("PC2") /\ Closed("PC1") /\ window["PC1"].to = Absent
  /\ plan.phase \in {"testing", "measuring", "end"} => Open("PC1") /\ Open("PC2")
  /\ plan.phase = "close" => Open("PC1")

LEMMA WindowSame ==
  ASSUME WindowInv, window' = window, res'.cable = res.cable, plan'.phase = plan.phase,
         \A s \in Side : /\ mon'[s].window = mon[s].window
                         /\ Open(s) => Open(s)'
  PROVE  WindowInv'
BY DEF WindowInv, Closed, Inflicted, Side

LEMMA PollKeeps ==
  ASSUME TypeInv, NEW s \in Side,
         mon' = [mon EXCEPT ![s] = pollLocked(mon[s], link)] \/ mon' = mon, window' = window
  PROVE  \A t \in Side : mon'[t].window = mon[t].window /\ (Open(t) => Open(t)')
<1>1. mon \in [Side -> Monitors] /\ window \in [Side -> Ends2]
  BY ResType
<1>2. CASE mon' = mon
  BY <1>2 DEF Open
<1>3. CASE mon' = [mon EXCEPT ![s] = pollLocked(mon[s], link)]
  <2>1. mon[s] \in Monitors /\ mon'[s] = pollLocked(mon[s], link) /\ \A t \in Side : t # s => mon'[t] = mon[t]
    BY <1>1, <1>3
  <2>2. mon'[s].window = mon[s].window
    BY <2>1, PollType
  <2>3. mon'[s].last.changes = link.changes
    <3>1. mon'[s].last = ReadLinkSnapshot(link)
      BY <2>1, PollType
    <3> QED BY <3>1, ReadingType
  <2>4. mon[s].window => mon'[s].windowEvents = mon[s].windowEvents + (link.changes - mon[s].last.changes)
    BY <2>1, PollType
  <2>5. link.changes \in Int /\ mon[s].last.changes \in Int
    BY <2>1, ReadingType DEF Monitors, Reading
  <2>6. Open(s) => Open(s)'
    BY <2>2, <2>3, <2>4, <2>5 DEF Open
  <2>7. \A t \in Side : t # s => mon'[t].window = mon[t].window /\ (Open(t) => Open(t)')
    BY <2>1 DEF Open
  <2> QED BY <2>2, <2>6, <2>7
<1> QED BY <1>2, <1>3

LEMMA WindowWorld == ASSUME TypeInv, WindowInv, World \/ UNCHANGED vars PROVE WindowInv'
<1>1. PICK s \in Side :
        /\ mon' = [mon EXCEPT ![s] = pollLocked(mon[s], link)] \/ mon' = mon
        /\ UNCHANGED <<window, res, plan>>
  <2>1. ASSUME NEW s \in Side, Poll(s)
        PROVE  mon' = [mon EXCEPT ![s] = pollLocked(mon[s], link)] /\ UNCHANGED <<window, res, plan>>
    BY <2>1 DEF Poll
  <2>2. ASSUME WorldMoves PROVE mon' = mon /\ UNCHANGED <<window, res, plan>>
    BY <2>2 DEF WorldMoves
  <2>3. "PC1" \in Side
    BY DEF Side
  <2> QED BY <2>1, <2>2, <2>3 DEF World, LinkDown, LinkUp, Renegotiate, Reset, RingDrop, Corrupt, vars
<1>2. \A t \in Side : mon'[t].window = mon[t].window /\ (Open(t) => Open(t)')
  BY <1>1, PollKeeps
<1> QED BY <1>1, <1>2, WindowSame

LEMMA WindowBase ==
  ASSUME TypeInv, WindowInv, BaseStep \/ snapshotCountersDetached \/ salvageFinalCounters
  PROVE  WindowInv'
<1>1. /\ UNCHANGED <<mon, window>> /\ plan.phase \in {"base", "boundary", "salvage"}
      /\ plan'.phase \in AfterPhases /\ res'.cable = res.cable
  <2>1. CASE BaseStep
    BY <2>1, BaseFrame
  <2>2. CASE snapshotCountersDetached
    <3>1. /\ plan.phase = "boundary" /\ Unmoved /\ Same(res', res, {"final", "incomplete"})
          /\ plan'.phase \in {"finish", "cable"}
      BY <2>2, BoundaryStep
    <3>2. res'.cable = res.cable
      BY <3>1 DEF Same, FieldNames
    <3> QED BY <3>1, <3>2 DEF Unmoved, AfterPhases
  <2>3. CASE salvageFinalCounters
    <3>1. /\ plan.phase = "salvage" /\ Unmoved /\ plan'.phase = "finish"
          /\ res' = res \/ Same(res', res, {"final"})
      BY <2>3, SalvageStep
    <3>2. res'.cable = res.cable
      BY <3>1 DEF Same, FieldNames
    <3> QED BY <3>1, <3>2 DEF Unmoved, AfterPhases
  <2> QED BY <2>1, <2>2, <2>3
<1> QED BY <1>1 DEF WindowInv, Closed, AfterPhases

LEMMA WindowOpens ==
  ASSUME TypeInv, NEW s \in Side, OpenWindow(s), Closed(s), window[s].to = Absent
  PROVE  Open(s)' /\ \A t \in Side : t # s => mon'[t] = mon[t] /\ window'[t] = window[t]
<1>1. mon[s] \in Monitors /\ ~mon[s].window /\ TRUE \in BOOLEAN
  BY ResType DEF Closed
<1>2. mon'[s] = SetCableTestWindow(mon[s], TRUE, link)
      /\ window'[s].from = link.changes /\ window'[s].to = window[s].to
      /\ \A t \in Side : t # s => mon'[t] = mon[t] /\ window'[t] = window[t]
  BY Opening
<1>2a. PICK a \in BOOLEAN : a
  OBVIOUS
<1>2b. mon'[s] = SetCableTestWindow(mon[s], a, link)
  BY <1>2, <1>2a
<1>3. mon'[s].window /\ mon'[s].last = ReadLinkSnapshot(link) /\ mon'[s].windowEvents = 0
  <2>1. mon'[s].window = a
    BY <1>1, <1>2b, WindowType
  <2>2. a # mon[s].window => mon'[s].last = ReadLinkSnapshot(link)
    BY <1>1, <1>2b, WindowType
  <2>3. a /\ ~mon[s].window => mon'[s].windowEvents = 0
    BY <1>1, <1>2b, WindowType
  <2> QED BY <1>1, <1>2a, <2>1, <2>2, <2>3
<1>4. mon'[s].last.changes = link.changes /\ link.changes \in Int
  BY <1>3, ReadingType
<1>5. mon'[s].windowEvents = mon'[s].last.changes - window'[s].from /\ window'[s].from \in Int
  <2>1. /\ window'[s].from = link.changes /\ mon'[s].windowEvents = 0
        /\ mon'[s].last.changes = link.changes /\ link.changes \in Int
    BY <1>2, <1>3, <1>4
  <2>2. \A x \in Int : x - x = 0
    OBVIOUS
  <2> QED BY <2>1, <2>2
<1>6. Open(s)'
  BY <1>2, <1>3, <1>5 DEF Open
<1> QED BY <1>2, <1>6

LEMMA WindowCloses ==
  ASSUME TypeInv, NEW s \in Side, CloseWindow(s), Open(s)
  PROVE  /\ Closed(s)' /\ mon'[s].windowEvents = Inflicted(s)'
         /\ \A t \in Side : t # s => mon'[t] = mon[t] /\ window'[t] = window[t]
<1>1. mon[s] \in Monitors /\ mon[s].window /\ FALSE \in BOOLEAN /\ window[s].from \in Int
      /\ mon[s].windowEvents = mon[s].last.changes - window[s].from
  BY ResType DEF Open
<1>2. mon'[s] = SetCableTestWindow(mon[s], FALSE, link)
      /\ window'[s].from = window[s].from /\ window'[s].to = link.changes
      /\ \A t \in Side : t # s => mon'[t] = mon[t] /\ window'[t] = window[t]
  BY Closing
<1>3. ~mon'[s].window
  BY <1>1, <1>2, WindowType
<1>4. mon'[s].windowEvents = mon[s].windowEvents + (link.changes - mon[s].last.changes)
  BY <1>1, <1>2, WindowType
<1>5. link.changes \in Int /\ mon[s].last.changes \in Int
  BY <1>1, ReadingType DEF Monitors, Reading
<1>6. window'[s].to # Absent
  BY <1>2, <1>5, AbsentAssumption
<1>7. mon'[s].windowEvents = window'[s].to - window'[s].from
  <2>1. /\ window'[s].from = window[s].from /\ window'[s].to = link.changes
        /\ mon'[s].windowEvents = (mon[s].last.changes - window[s].from) + (link.changes - mon[s].last.changes)
        /\ window[s].from \in Int /\ link.changes \in Int /\ mon[s].last.changes \in Int
    BY <1>1, <1>2, <1>4, <1>5
  <2>2. \A x, y, z \in Int : (z - y) + (x - z) = x - y
    OBVIOUS
  <2> QED BY <2>1, <2>2
<1>8. mon'[s].windowEvents = Inflicted(s)'
  BY <1>6, <1>7 DEF Inflicted
<1>9. Closed(s)'
  BY <1>3 DEF Closed
<1> QED BY <1>2, <1>8, <1>9

LEMMA WindowCable == ASSUME TypeInv, WindowInv, CableStep PROVE WindowInv'
<1>0. "PC1" \in Side /\ "PC2" \in Side /\ "PC1" # "PC2" /\ \A s \in Side : s = "PC1" \/ s = "PC2"
  BY DEF Side
<1>1. CASE CableWindowStart
  <2>1. plan.phase = "cable" /\ \A s \in Side : Closed(s) /\ window[s].to = Absent
    BY <1>1 DEF CableWindowStart, WindowInv
  <2>2. CASE OpenWindow("PC2") /\ plan' = [plan EXCEPT !.phase = "begin"] /\ res' = res
    <3>1. plan'.phase = "begin"
      BY <2>2, ResType DEF Plans
    <3>2. Open("PC2")' /\ mon'["PC1"] = mon["PC1"] /\ window'["PC1"] = window["PC1"]
      BY <1>0, <2>1, <2>2, WindowOpens
    <3>3. res'.cable = Absent
      BY <2>1, <2>2 DEF WindowInv
    <3> QED BY <1>0, <2>1, <3>1, <3>2, <3>3 DEF WindowInv, Closed
  <2>3. CASE /\ res' = [res EXCEPT !.cable = CableResult(FALSE, {}, FALSE)]
             /\ plan' = [plan EXCEPT !.phase = "finish"] /\ UNCHANGED <<mon, window>>
    <3>1. plan'.phase = "finish"
      BY <2>3, ResType DEF Plans
    <3>2. res'.cable = CableResult(FALSE, {}, FALSE)
      BY <2>3, ResType DEF Results
    <3>3. res'.cable.selfInflicted = [s \in Side |-> 0]
      <4>1. FALSE \in BOOLEAN /\ {} \in SUBSET Pairs
        OBVIOUS
      <4> QED BY <3>2, <4>1, CableTyped
    <3> QED BY <2>1, <2>3, <3>1, <3>3 DEF WindowInv, Closed, Inflicted
  <2> QED BY <1>1, <2>2, <2>3 DEF CableWindowStart
<1>2. CASE BeginWindow
  <2>1. plan.phase = "begin" /\ OpenWindow("PC1") /\ plan' = [plan EXCEPT !.phase = "testing"] /\ res' = res
    BY <1>2 DEF BeginWindow
  <2>2. plan'.phase = "testing"
    BY <2>1, ResType DEF Plans
  <2>3. Open("PC2") /\ Closed("PC1") /\ window["PC1"].to = Absent /\ res'.cable = Absent
    BY <2>1 DEF WindowInv
  <2>4. Open("PC1")' /\ mon'["PC2"] = mon["PC2"] /\ window'["PC2"] = window["PC2"]
    BY <1>0, <2>1, <2>3, WindowOpens
  <2>5. Open("PC2")'
    BY <2>3, <2>4 DEF Open
  <2> QED BY <1>0, <2>2, <2>3, <2>4, <2>5 DEF WindowInv
<1>3. CASE TesterTakesLinkDown
  <2>1. plan.phase = "testing" /\ plan' = [plan EXCEPT !.phase = "measuring"] /\ UNCHANGED <<res, mon, window>>
    BY <1>3 DEF TesterTakesLinkDown
  <2>2. plan'.phase = "measuring"
    BY <2>1, ResType DEF Plans
  <2> QED BY <1>0, <2>1, <2>2 DEF WindowInv, Open, Closed, Inflicted
<1>4. CASE CableTesterRun
  <2>1. PICK a \in BOOLEAN, t \in BOOLEAN, p \in SUBSET Pairs :
          /\ plan.phase \in {"testing", "measuring"} /\ UNCHANGED <<mon, window>>
          /\ res'.cable = CableResult(a, p, t) /\ plan'.phase \in {"end", "close"}
    BY <1>4, TesterStep
  <2>2. Open("PC1") /\ Open("PC2")
    BY <2>1 DEF WindowInv
  <2>3. Open("PC1")' /\ Open("PC2")'
    BY <2>1, <2>2 DEF Open
  <2>4. res'.cable.selfInflicted = [s \in Side |-> 0]
    BY <2>1, CableTyped
  <2>5. \A s \in Side : Inflicted(s)' = 0
    BY <1>0, <2>3 DEF Open, Inflicted
  <2> QED BY <1>0, <2>1, <2>3, <2>4, <2>5 DEF WindowInv
<1>5. CASE CableWindowEnd
  <2>1. /\ plan.phase = "end" /\ plan'.phase = "close" /\ res.cable # Absent
    BY <1>5, WindowEndStep DEF TypeInv
  <2>2. Open("PC1") /\ Open("PC2") /\ \A s \in Side : res.cable.selfInflicted[s] = Inflicted(s)
    BY <2>1 DEF WindowInv
  <2>3. CASE UNCHANGED <<mon, window, res>>
    BY <2>1, <2>2, <2>3 DEF WindowInv, Open, Closed, Inflicted
  <2>4. CASE /\ CloseWindow("PC2")
             /\ res'.cable.selfInflicted["PC2"] = mon'["PC2"].windowEvents
             /\ res'.cable.selfInflicted["PC1"] = res.cable.selfInflicted["PC1"]
    <3>1. Closed("PC2")' /\ mon'["PC2"].windowEvents = Inflicted("PC2")'
          /\ mon'["PC1"] = mon["PC1"] /\ window'["PC1"] = window["PC1"]
      BY <1>0, <2>2, <2>4, WindowCloses
    <3>2. Open("PC1")' /\ Inflicted("PC1")' = Inflicted("PC1")
      BY <2>2, <3>1 DEF Open, Inflicted
    <3> QED BY <1>0, <2>1, <2>2, <2>4, <3>1, <3>2 DEF WindowInv
  <2> QED BY <1>5, <2>3, <2>4, WindowEndStep
<1>6. CASE EndWindow
  <2>1. /\ plan.phase = "close" /\ plan'.phase = "finish" /\ res.cable # Absent /\ CloseWindow("PC1")
        /\ res'.cable.selfInflicted["PC1"] = mon'["PC1"].windowEvents
        /\ res'.cable.selfInflicted["PC2"] = res.cable.selfInflicted["PC2"]
    BY <1>6, EndWindowStep DEF TypeInv
  <2>2. /\ Open("PC1") /\ res.cable.selfInflicted["PC2"] = Inflicted("PC2")
        /\ Open("PC2") \/ Closed("PC2")
    BY <1>0, <2>1 DEF WindowInv
  <2>3. Closed("PC1")' /\ mon'["PC1"].windowEvents = Inflicted("PC1")'
        /\ mon'["PC2"] = mon["PC2"] /\ window'["PC2"] = window["PC2"]
    BY <1>0, <2>1, <2>2, WindowCloses
  <2>4. Inflicted("PC2")' = Inflicted("PC2") /\ (Open("PC2")' \/ Closed("PC2")')
    BY <2>2, <2>3 DEF Open, Closed, Inflicted
  <2> QED BY <1>0, <2>1, <2>2, <2>3, <2>4 DEF WindowInv
<1> QED BY <1>1, <1>2, <1>3, <1>4, <1>5, <1>6 DEF CableStep

LEMMA WindowRender == ASSUME TypeInv, WindowInv, Rendering PROVE WindowInv'
<1>1. /\ UNCHANGED <<window, res>> /\ plan.phase \in {"finish", "rendering"}
      /\ mon' = [mon EXCEPT !["PC1"] = pollLocked(mon["PC1"], link)] \/ mon' = mon
      /\ plan'.phase \in {"rendering", "done"}
  <2>1. mon = [mon EXCEPT !["PC1"] = mon["PC1"]]
    BY ResType
  <2>2. plan \in Plans(conf)
    BY ResType
  <2>3. plan'.phase \in {"rendering", "done"}
    BY <2>2 DEF Rendering, renderProvisional, PrepareComplete, finishCoordinator, Plans
  <2> QED BY <2>1, <2>3 DEF Rendering, renderProvisional, PrepareComplete, finishCoordinator
<1>2. \A t \in Side : mon'[t].window = mon[t].window /\ (Open(t) => Open(t)')
  <2>1. "PC1" \in Side
    BY DEF Side
  <2> QED BY <1>1, <2>1, PollKeeps
<1> QED BY <1>1, <1>2 DEF WindowInv, Closed, Inflicted

LEMMA WindowStart == Init => WindowInv
<1> SUFFICES ASSUME Init PROVE WindowInv
  OBVIOUS
<1>1. \A s \in Side : mon[s].window = FALSE /\ window[s].to = Absent
  BY DEF Init, NewMonitor
<1>2. res.cable = Absent /\ plan.phase = "base"
  BY DEF Init
<1> QED BY <1>1, <1>2 DEF WindowInv, Closed

\* WindowAccounted, for runs of any number of cycles, repeats and anomalies.
THEOREM WindowsAccounted == Spec => []WindowAccounted
<1>1. TypeInv /\ WindowInv /\ [Next]_vars => WindowInv'
  BY NextCases, WindowWorld, WindowBase, WindowCable, WindowRender
<1>2. WindowInv => WindowAccounted
  BY DEF WindowInv, WindowAccounted, Inflicted
<1> QED BY <1>1, <1>2, WindowStart, Typed, PTL DEF Spec

-----------------------------------------------------------------------------
(* The evaluator: findings and classes.                                    *)

AllRules == Physical \cup Transport \cup Performance \cup Markers

\* The severities of the ladder, on which a marker has no place.
Ladder == -1..3
LEMMA SeverityNames ==
  /\ None \in Ladder /\ SevInfo \in Ladder /\ SevWarning \in Ladder
  /\ SevPoor \in Ladder /\ SevFailed \in Ladder
BY DEF Ladder, None, SevInfo, SevWarning, SevPoor, SevFailed

LEMMA WorstLadder ==
  ASSUME NEW S \in SUBSET Ladder
  PROVE  WorstOf(S) \in Ladder /\ WorstOf(S) \in S \cup {None} /\ \A k \in S : k <= WorstOf(S)
<1>1. S \in SUBSET Severities
  BY DEF Severities, Ladder
<1>2. WorstOf(S) \in S \cup {None} /\ \A k \in S : k <= WorstOf(S)
  BY <1>1, WorstOfBound
<1> QED BY <1>2, SeverityNames

LEMMA GradedSeverity ==
  ASSUME NEW total, NEW p, NEW q
  PROVE  Graded(total, p, q) \in {None, SevWarning, SevPoor, SevFailed}
BY DEF Graded

LEMMA ThroughputSeverity ==
  ASSUME NEW f, NEW d PROVE assessThroughput(f, d) \in Ladder
<1> DEFINE s == classifyThroughput(f.tcp[d].TCPBitrate, f.NegotiatedSpeed)
<1>1. s \in Ladder
  BY SeverityNames DEF classifyThroughput
<1> HIDE DEF s
<1>2. assessThroughput(f, d) \in {s, SevWarning}
  BY DEF assessThroughput, s
<1> QED BY <1>1, <1>2, SeverityNames

LEMMA PhysicalSeverity ==
  ASSUME NEW f
  PROVE  /\ rulePHY01(f) \in Ladder /\ rulePHY02(f) \in Ladder /\ rulePHY03(f) \in Ladder
         /\ rulePHY04(f) \in Ladder /\ rulePHY05(f) \in Ladder /\ rulePHY06(f) \in Ladder
         /\ rulePHY07(f) \in Ladder /\ rulePHY08(f) \in Ladder /\ rulePHY09(f) \in Ladder
         /\ rulePHY10(f) \in Ladder /\ rulePHY11(f) \in Ladder
<1> USE SeverityNames
<1>1. rulePHY01(f) \in Ladder /\ rulePHY03(f) \in Ladder /\ rulePHY04(f) \in Ladder
      /\ rulePHY05(f) \in Ladder /\ rulePHY06(f) \in Ladder /\ rulePHY07(f) \in Ladder
      /\ rulePHY10(f) \in Ladder
  BY DEF rulePHY01, rulePHY03, rulePHY04, rulePHY05, rulePHY06, rulePHY07, rulePHY10, When
<1>2. rulePHY02(f) \in Ladder
  BY GradedSeverity DEF rulePHY02
<1>3. rulePHY09(f) \in Ladder /\ rulePHY11(f) \in Ladder
  BY GradedSeverity DEF rulePHY09, rulePHY11
<1>4. rulePHY08(f) \in Ladder
  <2> DEFINE S == {CASE status \in {"open", "short"}  -> SevFailed
             [] status = "impedance"          -> SevPoor
             [] status = "unspecified"        -> SevWarning
             [] OTHER                         -> None : status \in f.CablePairs}
  <2>1. S \in SUBSET Ladder
    OBVIOUS
  <2>2. rulePHY08(f) = WorstOf(S)
    BY DEF rulePHY08
  <2> HIDE DEF S
  <2> QED BY <2>1, <2>2, WorstLadder
<1> QED BY <1>1, <1>2, <1>3, <1>4

LEMMA TransportSeverity ==
  ASSUME NEW f
  PROVE  /\ ruleTR01(f) \in Ladder /\ ruleTR02(f) \in Ladder /\ ruleTR03(f) \in Ladder
         /\ ruleTR04(f) \in Ladder /\ ruleTR05(f) \in Ladder /\ ruleTR06(f) \in Ladder
         /\ ruleTR07(f) \in Ladder /\ ruleTR08(f) \in Ladder /\ ruleTR09(f) \in Ladder
<1> USE SeverityNames
<1>1. ruleTR02(f) \in Ladder /\ ruleTR03(f) \in Ladder /\ ruleTR04(f) \in Ladder
      /\ ruleTR08(f) \in Ladder /\ ruleTR09(f) \in Ladder
  BY DEF ruleTR02, ruleTR03, ruleTR04, ruleTR08, ruleTR09, When
<1>2. ruleTR05(f) \in Ladder
  BY DEF ruleTR05, When
<1>3. ruleTR01(f) \in Ladder
  <2> DEFINE S == {Graded(f.ping[d].PingLossPct, Default.PingLossPoorAbove, NoBoundary) : d \in Dir}
  <2>1. S \in SUBSET Ladder
    BY GradedSeverity
  <2>2. ruleTR01(f) = WorstOf(S)
    BY DEF ruleTR01
  <2> HIDE DEF S
  <2> QED BY <2>1, <2>2, WorstLadder
<1>4. ruleTR06(f) \in Ladder
  <2> DEFINE S == {LET t == f.tcp[d]
           IN When(t.TCPAvailable /\ MaxOf({t.TCPRetransRate, t.TCPRetransRateWorst})
                                       >= Default.TCPRetransWarningAt,
                   IF t.TCPRetransRate > Default.TCPRetransPoorAbove
                   THEN SevPoor ELSE SevWarning) : d \in Dir}
  <2>1. S \in SUBSET Ladder
    BY DEF When
  <2>2. ruleTR06(f) = WorstOf(S)
    BY DEF ruleTR06
  <2> HIDE DEF S
  <2> QED BY <2>1, <2>2, WorstLadder
<1>5. ruleTR07(f) \in Ladder
  <2> DEFINE S == {When(UDPJudged(f, d) /\ f.udp[d].UDPLossPct >= Default.UDPLossWarningAt,
                IF f.udp[d].UDPLossPct > Default.UDPLossPoorAbove
                THEN SevPoor ELSE SevWarning) : d \in Dir}
  <2>1. S \in SUBSET Ladder
    BY DEF When
  <2>2. ruleTR07(f) = WorstOf(S)
    BY DEF ruleTR07
  <2> HIDE DEF S
  <2> QED BY <2>1, <2>2, WorstLadder
<1> QED BY <1>1, <1>2, <1>3, <1>4, <1>5

LEMMA PerformanceSeverity ==
  ASSUME NEW f
  PROVE  /\ rulePERF01(f) \in Ladder /\ rulePERF02(f) \in Ladder
         /\ rulePERF03(f) \in Ladder /\ rulePERF04(f) \in Ladder
<1> USE SeverityNames
<1>1. rulePERF01(f) \in Ladder
  <2> DEFINE S == {assessThroughput(f, d) : d \in TCPDirs(f)}
  <2>1. S \in SUBSET Ladder
    BY ThroughputSeverity
  <2>2. rulePERF01(f) = WorstOf(S)
    BY DEF rulePERF01
  <2> HIDE DEF S
  <2> QED BY <2>1, <2>2, WorstLadder
<1>2. rulePERF02(f) \in Ladder
  <2> DEFINE S == {GradedCoV(f.tcp[d].TCPCoV) : d \in TCPDirs(f)}
  <2>1. S \in SUBSET Ladder
    BY DEF GradedCoV, When
  <2>2. rulePERF02(f) = WorstOf(S)
    BY DEF rulePERF02
  <2> HIDE DEF S
  <2> QED BY <2>1, <2>2, WorstLadder
<1>3. rulePERF03(f) \in Ladder
  BY GradedSeverity DEF rulePERF03
<1>4. rulePERF04(f) \in Ladder
  BY DEF rulePERF04, When
<1> QED BY <1>1, <1>2, <1>3, <1>4

\* The findings of a report are those of its rules, by name.
LEMMA RuleFamilies ==
  ASSUME NEW f
  PROVE  /\ \A id \in Physical : Rules(f)[id] = PhysicalRules(f)[id]
         /\ \A id \in Transport : Rules(f)[id] = TransportRules(f)[id]
         /\ \A id \in Performance : Rules(f)[id] = PerformanceRules(f)[id]
         /\ \A id \in Markers : Rules(f)[id] = MarkerRules(f)[id]
<1> DEFINE P == PhysicalRules(f)  T == TransportRules(f)  E == PerformanceRules(f)  M == MarkerRules(f)
<1>1. /\ \A id \in Transport : id \notin Physical
      /\ \A id \in Performance : id \notin Physical /\ id \notin Transport
      /\ \A id \in Markers : id \notin Physical /\ id \notin Transport /\ id \notin Performance
  BY DEF Physical, Transport, Performance, Markers
<1>2. Rules(f) = [id \in Physical \cup Transport \cup Performance \cup Markers |->
        CASE id \in Physical    -> P[id]
          [] id \in Transport   -> T[id]
          [] id \in Performance -> E[id]
          [] id \in Markers     -> M[id]]
  BY DEF Rules
<1> HIDE DEF P, T, E, M
<1>3. \A id \in Physical : Rules(f)[id] = P[id]
  BY <1>1, <1>2
<1>4. \A id \in Transport : Rules(f)[id] = T[id]
  BY <1>1, <1>2
<1>5. \A id \in Performance : Rules(f)[id] = E[id]
  BY <1>1, <1>2
<1>6. \A id \in Markers : Rules(f)[id] = M[id]
  BY <1>1, <1>2
<1> QED BY <1>3, <1>4, <1>5, <1>6 DEF P, T, E, M

LEMMA RuleValues ==
  ASSUME NEW f, NEW F, F = Rules(f)
  PROVE  /\ F.PHY01 = rulePHY01(f) /\ F.PHY02 = rulePHY02(f) /\ F.PHY03 = rulePHY03(f)
         /\ F.PHY04 = rulePHY04(f) /\ F.PHY05 = rulePHY05(f) /\ F.PHY06 = rulePHY06(f)
         /\ F.PHY07 = rulePHY07(f) /\ F.PHY08 = rulePHY08(f) /\ F.PHY09 = rulePHY09(f)
         /\ F.PHY10 = rulePHY10(f) /\ F.PHY11 = rulePHY11(f)
         /\ F.TR01 = ruleTR01(f) /\ F.TR02 = ruleTR02(f) /\ F.TR03 = ruleTR03(f)
         /\ F.TR04 = ruleTR04(f) /\ F.TR05 = ruleTR05(f) /\ F.TR06 = ruleTR06(f)
         /\ F.TR07 = ruleTR07(f) /\ F.TR08 = ruleTR08(f) /\ F.TR09 = ruleTR09(f)
         /\ F.PERF01 = rulePERF01(f) /\ F.PERF02 = rulePERF02(f)
         /\ F.PERF03 = rulePERF03(f) /\ F.PERF04 = rulePERF04(f)
         /\ F.HOST01 = ruleHOST01(f) /\ F.HOST02 = ruleHOST02(f) /\ F.HOST03 = ruleHOST03(f)
         /\ F.HOST04 = ruleHOST04(f) /\ F.LIM01 = ruleLIM01(f) /\ F.LIM02 = ruleLIM02(f)
         /\ F.LIM03 = ruleLIM03(f) /\ F.LIM04 = ruleLIM04(f) /\ F.LIM05 = ruleLIM05(f)
<1>1. /\ F.PHY01 = rulePHY01(f) /\ F.PHY02 = rulePHY02(f) /\ F.PHY03 = rulePHY03(f)
      /\ F.PHY04 = rulePHY04(f) /\ F.PHY05 = rulePHY05(f) /\ F.PHY06 = rulePHY06(f)
      /\ F.PHY07 = rulePHY07(f) /\ F.PHY08 = rulePHY08(f) /\ F.PHY09 = rulePHY09(f)
      /\ F.PHY10 = rulePHY10(f) /\ F.PHY11 = rulePHY11(f)
  <2>1. \A id \in Physical : F[id] = PhysicalRules(f)[id]
    BY RuleFamilies
  <2> QED BY <2>1 DEF Physical, PhysicalRules
<1>2. /\ F.TR01 = ruleTR01(f) /\ F.TR02 = ruleTR02(f) /\ F.TR03 = ruleTR03(f)
      /\ F.TR04 = ruleTR04(f) /\ F.TR05 = ruleTR05(f) /\ F.TR06 = ruleTR06(f)
      /\ F.TR07 = ruleTR07(f) /\ F.TR08 = ruleTR08(f) /\ F.TR09 = ruleTR09(f)
  <2>1. \A id \in Transport : F[id] = TransportRules(f)[id]
    BY RuleFamilies
  <2> QED BY <2>1 DEF Transport, TransportRules
<1>3. /\ F.PERF01 = rulePERF01(f) /\ F.PERF02 = rulePERF02(f)
      /\ F.PERF03 = rulePERF03(f) /\ F.PERF04 = rulePERF04(f)
  <2>1. \A id \in Performance : F[id] = PerformanceRules(f)[id]
    BY RuleFamilies
  <2> QED BY <2>1 DEF Performance, PerformanceRules
<1>4. /\ F.HOST01 = ruleHOST01(f) /\ F.HOST02 = ruleHOST02(f) /\ F.HOST03 = ruleHOST03(f)
      /\ F.HOST04 = ruleHOST04(f) /\ F.LIM01 = ruleLIM01(f) /\ F.LIM02 = ruleLIM02(f)
      /\ F.LIM03 = ruleLIM03(f) /\ F.LIM04 = ruleLIM04(f) /\ F.LIM05 = ruleLIM05(f)
  <2>1. \A id \in Markers : F[id] = MarkerRules(f)[id]
    BY RuleFamilies
  <2> QED BY <2>1 DEF Markers, MarkerRules
<1> QED BY <1>1, <1>2, <1>3, <1>4

\* Findings of the ladder, and markers.
Sound(F) == \A id \in Physical \cup Transport \cup Performance : F[id] \in Ladder

LEMMA RulesSound ==
  ASSUME NEW f, NEW F, F = Rules(f) PROVE Sound(F)
<1>1. \A id \in Physical : F[id] \in Ladder
  <2>1. \A id \in Physical : F[id] = PhysicalRules(f)[id]
    BY RuleFamilies
  <2>2. \A id \in Physical : PhysicalRules(f)[id] \in Ladder
    BY PhysicalSeverity DEF Physical, PhysicalRules
  <2> QED BY <2>1, <2>2
<1>2. \A id \in Transport : F[id] \in Ladder
  <2>1. \A id \in Transport : F[id] = TransportRules(f)[id]
    BY RuleFamilies
  <2>2. \A id \in Transport : TransportRules(f)[id] \in Ladder
    BY TransportSeverity DEF Transport, TransportRules
  <2> QED BY <2>1, <2>2
<1>3. \A id \in Performance : F[id] \in Ladder
  <2>1. \A id \in Performance : F[id] = PerformanceRules(f)[id]
    BY RuleFamilies
  <2>2. \A id \in Performance : PerformanceRules(f)[id] \in Ladder
    BY PerformanceSeverity DEF Performance, PerformanceRules
  <2> QED BY <2>1, <2>2
<1> QED BY <1>1, <1>2, <1>3 DEF Sound

LEMMA WorstIn ==
  ASSUME NEW F, NEW ids, \A id \in ids : F[id] \in Ladder, NEW w, w = worstIn(F, ids)
  PROVE  /\ w \in Ladder /\ \A id \in ids : F[id] <= w
         /\ w = None \/ \E id \in ids : w = F[id]
<1> DEFINE S == {F[id] : id \in ids}
<1>1. S \in SUBSET Ladder /\ w = WorstOf(S)
  BY DEF worstIn
<1>2. \A id \in ids : F[id] \in S
  OBVIOUS
<1>3. \A x \in S : \E id \in ids : x = F[id]
  OBVIOUS
<1> HIDE DEF S
<1>4. w \in Ladder /\ w \in S \cup {None} /\ \A k \in S : k <= w
  BY <1>1, WorstLadder
<1> QED BY <1>2, <1>3, <1>4

LEMMA ClassTyped == ASSUME NEW F PROVE classify(F) \in Classes
<1>1. Tentative(F) \in Classes
  BY DEF Tentative, Classes
<1>2. \A c \in Classes : Capped(F, c) \in Classes
  BY DEF Capped, Classes
<1>3. Capped(F, Tentative(F)) \in Classes
  BY <1>1, <1>2
<1> QED BY <1>3 DEF classify, Classes

Worst(F, ids, sev) == \A id \in ids : F[id] <= sev

LEMMA TentativeMeans ==
  ASSUME NEW F, Sound(F)
  PROVE  /\ Tentative(F) \in {"EXCELLENT", "GOOD", "WARNING", "POOR"}
         /\ Tentative(F) = "POOR" <=> \E id \in Transport \cup Performance : F[id] >= SevPoor
         /\ Worst(F, Physical, SevWarning) /\ Tentative(F) \in {"EXCELLENT", "GOOD"} =>
              Worst(F, Physical \cup Transport \cup Performance, SevInfo)
         /\ (\E id \in Transport \cup Performance : F[id] = SevWarning) => Tentative(F) \notin {"EXCELLENT", "GOOD"}
         /\ Worst(F, Physical, SevWarning) /\ (\E id \in Physical : F[id] = SevWarning)
              => Tentative(F) \notin {"EXCELLENT", "GOOD"}
<1> DEFINE w == worstIn(F, Transport \cup Performance)
           p == worstIn(F, Physical)
<1>1. /\ \A id \in Transport \cup Performance : F[id] \in Ladder
      /\ \A id \in Physical : F[id] \in Ladder
  BY DEF Sound
<1>2. /\ w \in Ladder /\ \A id \in Transport \cup Performance : F[id] <= w
      /\ w = None \/ \E id \in Transport \cup Performance : w = F[id]
  BY <1>1, WorstIn
<1>3. /\ p \in Ladder /\ \A id \in Physical : F[id] <= p
      /\ p = None \/ \E id \in Physical : p = F[id]
  BY <1>1, WorstIn
<1>4. Tentative(F) =
        IF w >= SevPoor THEN "POOR"
        ELSE IF w = SevWarning \/ p = SevWarning THEN "WARNING"
        ELSE IF anyInfoDeviation(F) THEN "GOOD"
        ELSE "EXCELLENT"
  BY DEF Tentative
<1> HIDE DEF w, p
<1> USE DEF Ladder, None, SevInfo, SevWarning, SevPoor, SevFailed
<1>5. Tentative(F) = "POOR" <=> w >= SevPoor
  BY <1>4
<1>6. w >= SevPoor <=> \E id \in Transport \cup Performance : F[id] >= SevPoor
  BY <1>1, <1>2
<1>7. Tentative(F) \in {"EXCELLENT", "GOOD", "WARNING", "POOR"}
  BY <1>4
<1>8. Tentative(F) \in {"EXCELLENT", "GOOD"} => w <= SevInfo /\ p # SevWarning
  BY <1>2, <1>4
<1>9. ASSUME Worst(F, Physical, SevWarning), Tentative(F) \in {"EXCELLENT", "GOOD"}
      PROVE  Worst(F, Physical \cup Transport \cup Performance, SevInfo)
  <2>1. p <= SevWarning
    BY <1>3, <1>9 DEF Worst
  <2>2. p <= SevInfo /\ w <= SevInfo
    BY <2>1, <1>3, <1>8, <1>9
  <2> QED BY <2>2, <1>1, <1>2, <1>3 DEF Worst
<1>10. (\E id \in Transport \cup Performance : F[id] = SevWarning) => Tentative(F) \notin {"EXCELLENT", "GOOD"}
  BY <1>1, <1>2, <1>8
<1>11. Worst(F, Physical, SevWarning) /\ (\E id \in Physical : F[id] = SevWarning)
              => Tentative(F) \notin {"EXCELLENT", "GOOD"}
  BY <1>1, <1>3, <1>8 DEF Worst
<1> QED BY <1>5, <1>6, <1>7, <1>9, <1>10, <1>11

\* EXCELLENT and GOOD: nothing worse than informational was found, and no
\* limitation takes the class away.
LEMMA GoodMeans ==
  ASSUME NEW F, Sound(F), NEW c, c = classify(F), c \in {"EXCELLENT", "GOOD"}
  PROVE  /\ Worst(F, Physical \cup Transport \cup Performance, SevInfo)
         /\ F.HOST02 = None /\ F.LIM01 = None /\ F.LIM03 = None /\ F.LIM05 = None
         /\ c = "EXCELLENT" => F.LIM02 = None
         /\ c = Capped(F, Tentative(F))
<1> DEFINE p == worstIn(F, Physical)
<1>1. \A id \in Physical : F[id] \in Ladder
  BY DEF Sound
<1>2. p \in Ladder /\ \A id \in Physical : F[id] <= p
  BY <1>1, WorstIn
<1>3. c = IF p = SevFailed THEN "FAILED" ELSE IF p = SevPoor THEN "POOR"
          ELSE IF HostExcuses(F) THEN "INCONCLUSIVE" ELSE Capped(F, Tentative(F))
  BY DEF classify
<1> HIDE DEF p
<1>4. c = Capped(F, Tentative(F)) /\ p # SevFailed /\ p # SevPoor
  BY <1>3
<1>5. Worst(F, Physical, SevWarning)
  BY <1>1, <1>2, <1>4 DEF Ladder, SevFailed, SevPoor, SevWarning, Worst
<1>6. Tentative(F) \in {"EXCELLENT", "GOOD"}
  BY <1>4 DEF Capped
<1>7. Worst(F, Physical \cup Transport \cup Performance, SevInfo)
  BY <1>5, <1>6, TentativeMeans
<1>8. F["HOST02"] = None /\ F["LIM01"] = None /\ F["LIM03"] = None /\ F["LIM05"] = None
  BY <1>4, <1>6 DEF Capped, hasFinding
<1>9. c = "EXCELLENT" => F["LIM02"] = None
  BY <1>4, <1>6 DEF Capped, hasFinding
<1> QED BY <1>4, <1>7, <1>8, <1>9

\* A clean class is that of the limitations alone.
LEMMA GoodFrom ==
  ASSUME NEW F, Sound(F), Worst(F, Physical \cup Transport \cup Performance, SevInfo),
         NEW c, c = classify(F)
  PROVE  c = Capped(F, Tentative(F))
<1> DEFINE p == worstIn(F, Physical)
           w == worstIn(F, Transport \cup Performance)
<1> USE DEF Ladder, None, SevInfo, SevWarning, SevPoor, SevFailed
<1>1. /\ \A id \in Physical : F[id] \in Ladder /\ F[id] <= SevInfo
      /\ \A id \in Transport \cup Performance : F[id] \in Ladder /\ F[id] <= SevInfo
  BY DEF Sound, Worst
<1>2. p <= SevInfo
  <2>1. p \in Ladder /\ (p = None \/ \E id \in Physical : p = F[id])
    BY <1>1, WorstIn
  <2> HIDE DEF p
  <2> QED BY <1>1, <2>1
<1>3. w <= SevInfo
  <2>1. w \in Ladder /\ (w = None \/ \E id \in Transport \cup Performance : w = F[id])
    BY <1>1, WorstIn
  <2> HIDE DEF w
  <2> QED BY <1>1, <2>1
<1>3a. p \in Int /\ w \in Int
  <2>1. p \in Ladder
    BY <1>1, WorstIn
  <2>2. w \in Ladder
    BY <1>1, WorstIn
  <2> QED BY <2>1, <2>2
<1>4. ~HostExcuses(F)
  <2>1. HostExcuses(F) => w >= SevPoor
    BY DEF HostExcuses
  <2> HIDE DEF w
  <2> QED BY <2>1, <1>3, <1>3a
<1>5. c = IF p = SevFailed THEN "FAILED" ELSE IF p = SevPoor THEN "POOR"
          ELSE IF HostExcuses(F) THEN "INCONCLUSIVE" ELSE Capped(F, Tentative(F))
  BY DEF classify
<1> HIDE DEF p
<1> QED BY <1>2, <1>3a, <1>4, <1>5

\* A POOR or FAILED class: something of the cable was found, or something of
\* the traffic that the host does not excuse.
LEMMA ConvictionMeans ==
  ASSUME NEW F, Sound(F), NEW c, c = classify(F), c \in {"POOR", "FAILED"}
  PROVE  \/ \E id \in Physical : F[id] >= SevPoor
         \/ /\ \E id \in Transport \cup Performance : F[id] >= SevPoor
            /\ ~HostExcuses(F)
<1> DEFINE p == worstIn(F, Physical)
<1>1. \A id \in Physical : F[id] \in Ladder
  BY DEF Sound
<1>2. p \in Ladder /\ (p = None \/ \E id \in Physical : p = F[id])
  BY <1>1, WorstIn
<1>3. c = IF p = SevFailed THEN "FAILED" ELSE IF p = SevPoor THEN "POOR"
          ELSE IF HostExcuses(F) THEN "INCONCLUSIVE" ELSE Capped(F, Tentative(F))
  BY DEF classify
<1> HIDE DEF p
<1>4. CASE p = SevFailed \/ p = SevPoor
  BY <1>2, <1>4 DEF None, SevPoor, SevFailed
<1>5. CASE ~(p = SevFailed \/ p = SevPoor)
  <2>1. ~HostExcuses(F) /\ c = Capped(F, Tentative(F))
    BY <1>3, <1>5
  <2>2. Tentative(F) = "POOR"
    <3>1. Tentative(F) \in {"EXCELLENT", "GOOD", "WARNING", "POOR"}
      BY TentativeMeans
    <3> QED BY <2>1, <3>1 DEF Capped
  <2>3. \E id \in Transport \cup Performance : F[id] >= SevPoor
    BY <2>2, TentativeMeans
  <2> QED BY <2>1, <2>3
<1> QED BY <1>4, <1>5

\* What the physical rules find POOR convicts; a finding of the ladder that is
\* a warning is never passed over.
LEMMA PhysicalConvicts ==
  ASSUME NEW F, Sound(F), NEW id \in Physical, F[id] >= SevPoor
  PROVE  classify(F) \in {"POOR", "FAILED"}
<1> DEFINE p == worstIn(F, Physical)
<1>1. \A x \in Physical : F[x] \in Ladder
  BY DEF Sound
<1>2. p \in Ladder /\ \A x \in Physical : F[x] <= p
  BY <1>1, WorstIn
<1>3. classify(F) = IF p = SevFailed THEN "FAILED" ELSE IF p = SevPoor THEN "POOR"
          ELSE IF HostExcuses(F) THEN "INCONCLUSIVE" ELSE Capped(F, Tentative(F))
  BY DEF classify
<1> HIDE DEF p
<1>4. p = SevPoor \/ p = SevFailed
  BY <1>1, <1>2 DEF Ladder, SevPoor, SevFailed
<1> QED BY <1>3, <1>4

LEMMA PhysicalWarns ==
  ASSUME NEW F, Sound(F), NEW id \in Physical, F[id] >= SevWarning
  PROVE  /\ classify(F) \notin {"EXCELLENT", "GOOD"}
         /\ classify(F) = "INCONCLUSIVE" => F.HOST02 # None
<1> DEFINE p == worstIn(F, Physical)
<1>1. \A x \in Physical : F[x] \in Ladder
  BY DEF Sound
<1>2. p \in Ladder /\ \A x \in Physical : F[x] <= p
  BY <1>1, WorstIn
<1>3. classify(F) = IF p = SevFailed THEN "FAILED" ELSE IF p = SevPoor THEN "POOR"
          ELSE IF HostExcuses(F) THEN "INCONCLUSIVE" ELSE Capped(F, Tentative(F))
  BY DEF classify
<1>4. p >= SevWarning
  <2> HIDE DEF p
  <2> QED BY <1>1, <1>2 DEF Ladder, SevWarning
<1>5. ~HostExcuses(F)
  <2>1. HostExcuses(F) => p < SevWarning
    BY DEF HostExcuses
  <2> HIDE DEF p
  <2> QED BY <2>1, <1>2, <1>4 DEF SevWarning, Ladder
<1> HIDE DEF p
<1>6. CASE p = SevFailed \/ p = SevPoor
  BY <1>3, <1>6
<1>7. CASE ~(p = SevFailed \/ p = SevPoor)
  <2>1. p = SevWarning
    BY <1>2, <1>4, <1>7 DEF Ladder, SevWarning, SevPoor, SevFailed
  <2>2. Tentative(F) \in {"WARNING", "POOR"}
    BY <2>1 DEF Tentative, p
  <2>3. classify(F) = Capped(F, Tentative(F))
    BY <1>3, <1>5, <1>7
  <2> QED BY <2>2, <2>3 DEF Capped, hasFinding
<1> QED BY <1>6, <1>7

-----------------------------------------------------------------------------
(* The report.                                                             *)

\* The rendering of a run's results: findings, class and score.
Facts(failure, caps) == factsFromReport(assembleReport(failure, caps, mon["PC1"].history))
Findings(failure, caps) == Rules(Facts(failure, caps))
Rendered(failure, caps, final) ==
  [final |-> final, class |-> classify(Findings(failure, caps)),
   score |-> scoreFor(Facts(failure, caps), Findings(failure, caps), classify(Findings(failure, caps))),
   findings |-> Findings(failure, caps)]

\* The report is the rendering of the results as they are: nothing moves
\* under it.
RenderInv ==
  /\ report # Absent => plan.phase \in {"rendering", "done"}
  /\ plan.phase = "rendering" => report = Rendered(FALSE, FALSE, FALSE) /\ ~plan.err
  /\ plan.phase = "done" => report = Rendered(plan.err, TRUE, TRUE)

LEMMA FinalizeIs ==
  ASSUME UNCHANGED <<conf, res>>, NEW failure \in BOOLEAN, NEW caps \in BOOLEAN, NEW final \in BOOLEAN,
         finalize(failure, caps, mon'["PC1"].history, final)
  PROVE  report' = Rendered(failure, caps, final)'
<1>1. \A ev : assembleReport(failure, caps, ev)' = assembleReport(failure, caps, ev)
  BY DEF assembleReport, peerReportFromCaps
<1> DEFINE ev == mon'["PC1"].history
           a == assembleReport(failure, caps, ev)
<1>2. Facts(failure, caps)' = factsFromReport(a)
  BY <1>1 DEF Facts
<1>3. report' = [final |-> final, class |-> evaluate(a).class, score |-> evaluate(a).score,
                 findings |-> evaluate(a).findings]
  BY DEF finalize
<1> HIDE DEF a
<1> DEFINE f == factsFromReport(a)  F == Rules(f)  c == classify(F)
<1>4. evaluate(a) = [class |-> c, score |-> scoreFor(f, F, c), findings |-> F]
  BY DEF evaluate
<1>5. Findings(failure, caps)' = F
  BY <1>2 DEF Findings
<1> HIDE DEF f, F, c
<1>6. report' = [final |-> final, class |-> c, score |-> scoreFor(f, F, c), findings |-> F]
  BY <1>3, <1>4
<1>7. Rendered(failure, caps, final)' = [final |-> final, class |-> c, score |-> scoreFor(f, F, c), findings |-> F]
  BY <1>2, <1>5 DEF Rendered, c, f
<1> QED BY <1>6, <1>7

LEMMA SameRendering ==
  ASSUME UNCHANGED <<conf, res>>, mon' = mon
  PROVE  \A failure, caps, final :
           /\ Rendered(failure, caps, final)' = Rendered(failure, caps, final)
           /\ Facts(failure, caps)' = Facts(failure, caps)
           /\ Findings(failure, caps)' = Findings(failure, caps)
<1>1. \A failure, caps, ev : assembleReport(failure, caps, ev)' = assembleReport(failure, caps, ev)
  BY DEF assembleReport, peerReportFromCaps
<1> QED BY <1>1 DEF Rendered, Facts, Findings

LEMMA RenderStep ==
  ASSUME TypeInv, RenderInv, Rendering
  PROVE  /\ UNCHANGED <<conf, link, hw, res, kept, window, faults>>
         /\ \/ /\ plan.phase = "finish" /\ ~plan.err /\ plan'.phase = "rendering" /\ plan'.err = plan.err
               /\ report' = Rendered(FALSE, FALSE, FALSE)' /\ renderProvisional
            \/ /\ plan.phase = "rendering" /\ mon' = mon /\ plan'.phase = "done" /\ plan'.err = plan.err
               /\ report' = Rendered(FALSE, TRUE, TRUE)'
            \/ /\ plan.phase = "finish" /\ plan.err /\ plan'.phase = "done" /\ plan'.err = TRUE
               /\ report' = Rendered(TRUE, TRUE, TRUE)'
            \/ /\ plan.phase = "rendering" /\ mon' = mon /\ plan'.phase = "done" /\ plan'.err = TRUE
               /\ report' = Rendered(TRUE, TRUE, TRUE)'
<1>0. plan \in Plans(conf) /\ mon \in [Side -> Monitors] /\ TRUE \in BOOLEAN /\ FALSE \in BOOLEAN
  BY ResType
<1>1. CASE renderProvisional
  <2>1. UNCHANGED <<conf, link, hw, res, kept, window, faults>> /\ plan.phase = "finish" /\ ~plan.err
        /\ plan' = [plan EXCEPT !.phase = "rendering"]
        /\ finalize(FALSE, FALSE, mon'["PC1"].history, FALSE)
    BY <1>1 DEF renderProvisional
  <2>2. report' = Rendered(FALSE, FALSE, FALSE)'
    BY <1>0, <2>1, FinalizeIs
  <2>3. plan'.phase = "rendering" /\ plan'.err = plan.err
    BY <1>0, <2>1 DEF Plans
  <2> QED BY <1>1, <2>1, <2>2, <2>3
<1>2. CASE PrepareComplete
  <2>1. UNCHANGED <<conf, link, hw, mon, res, kept, window, faults>> /\ plan.phase = "rendering"
        /\ plan' = [plan EXCEPT !.phase = "done"]
        /\ finalize(FALSE, TRUE, mon'["PC1"].history, TRUE)
    BY <1>2 DEF PrepareComplete
  <2>2. report' = Rendered(FALSE, TRUE, TRUE)'
    BY <1>0, <2>1, FinalizeIs
  <2>3. plan'.phase = "done" /\ plan'.err = plan.err
    BY <1>0, <2>1 DEF Plans
  <2> QED BY <2>1, <2>2, <2>3
<1>3. CASE finishCoordinator
  <2>1. /\ UNCHANGED <<conf, link, hw, res, kept, window, faults>>
        /\ (plan.phase = "finish" /\ plan.err) \/ plan.phase = "rendering"
        /\ mon' = [mon EXCEPT !["PC1"] = IF plan.phase = "finish" THEN pollLocked(@, link) ELSE @]
        /\ plan' = [plan EXCEPT !.phase = "done", !.err = TRUE]
        /\ finalize(TRUE, TRUE, mon'["PC1"].history, TRUE)
    BY <1>3 DEF finishCoordinator
  <2>2. report' = Rendered(TRUE, TRUE, TRUE)'
    BY <1>0, <2>1, FinalizeIs
  <2>3. plan'.phase = "done" /\ plan'.err = TRUE
    BY <1>0, <2>1 DEF Plans
  <2>4. plan.phase = "rendering" => mon' = mon
    BY <1>0, <2>1
  <2> QED BY <2>1, <2>2, <2>3, <2>4
<1> QED BY <1>1, <1>2, <1>3 DEF Rendering

\* Before the first rendering there is no report.
LEMMA NotRendering ==
  ASSUME TypeInv, BaseStep \/ snapshotCountersDetached \/ salvageFinalCounters \/ CableStep
  PROVE  /\ report' = report /\ conf' = conf /\ plan.phase \notin {"rendering", "done"}
         /\ plan'.phase \notin {"rendering", "done"}
<1>0. plan \in Plans(conf)
  BY ResType
<1>1. CASE BaseStep
  BY <1>1, BaseFrame DEF AfterPhases
<1>2. CASE snapshotCountersDetached
  BY <1>2, BoundaryStep DEF Unmoved
<1>3. CASE salvageFinalCounters
  BY <1>3, SalvageStep DEF Unmoved
<1>4. CASE CableWindowStart \/ BeginWindow \/ TesterTakesLinkDown
  BY <1>0, <1>4 DEF CableWindowStart, BeginWindow, TesterTakesLinkDown, Plans
<1>5. CASE CableTesterRun
  BY <1>5, TesterStep
<1>6. CASE CableWindowEnd
  BY <1>6, WindowEndStep
<1>7. CASE EndWindow
  BY <1>7, EndWindowStep
<1> QED BY <1>1, <1>2, <1>3, <1>4, <1>5, <1>6, <1>7 DEF CableStep

LEMMA WorldRendering ==
  ASSUME World \/ UNCHANGED vars
  PROVE  /\ UNCHANGED <<conf, plan, res, report, kept, window>>
         /\ plan.phase \in {"rendering", "done"} => mon' = mon
BY DEF World, WorldMoves, LinkDown, LinkUp, Renegotiate, Reset, RingDrop, Corrupt, Poll, vars

LEMMA RenderNext == ASSUME TypeInv, RenderInv, [Next]_vars PROVE RenderInv'
<1>1. CASE World \/ UNCHANGED vars
  <2>1. UNCHANGED <<conf, plan, res, report>> /\ (plan.phase \in {"rendering", "done"} => mon' = mon)
    BY <1>1, WorldRendering
  <2>2. CASE plan.phase \in {"rendering", "done"}
    <3>1. \A failure, caps, final : Rendered(failure, caps, final)' = Rendered(failure, caps, final)
      BY <2>1, <2>2, SameRendering
    <3> QED BY <2>1, <3>1 DEF RenderInv
  <2>3. CASE plan.phase \notin {"rendering", "done"}
    BY <2>1, <2>3 DEF RenderInv
  <2> QED BY <2>2, <2>3
<1>2. CASE BaseStep \/ snapshotCountersDetached \/ salvageFinalCounters \/ CableStep
  BY <1>2, NotRendering DEF RenderInv
<1>3. CASE Rendering
  <2>1. CASE plan'.phase = "rendering"
    BY <1>3, <2>1, RenderStep DEF RenderInv
  <2>2. CASE plan'.phase = "done"
    <3>1. \/ plan'.err = FALSE /\ report' = Rendered(FALSE, TRUE, TRUE)'
          \/ plan'.err = TRUE /\ report' = Rendered(TRUE, TRUE, TRUE)'
      <4>1. plan.phase = "rendering" => plan.err = FALSE
        BY ResType DEF RenderInv, Plans
      <4> QED BY <1>3, <2>2, <4>1, RenderStep
    <3> QED BY <2>2, <3>1 DEF RenderInv
  <2> QED BY <1>3, <2>1, <2>2, RenderStep
<1> QED BY <1>1, <1>2, <1>3, NextCases

LEMMA RenderInit == Init => RenderInv
BY DEF Init, RenderInv

LEMMA Renderings == Spec => [](TypeInv /\ RenderInv)
<1>1. TypeInv /\ RenderInv /\ [Next]_vars => (TypeInv /\ RenderInv)'
  BY TypeNext, RenderNext
<1> QED BY <1>1, TypeInit, RenderInit, PTL DEF Spec

\* A final report is the rendering of the results of a run that is over.
LEMMA FinalIs ==
  ASSUME TypeInv, RenderInv, Final
  PROVE  /\ plan.phase = "done" /\ plan.err \in BOOLEAN /\ report = Rendered(plan.err, TRUE, TRUE)
         /\ report.class = classify(Findings(plan.err, TRUE))
         /\ report.findings = Findings(plan.err, TRUE)
<1>1. plan.err \in BOOLEAN
  BY ResType DEF Plans
<1>2. plan.phase # "rendering"
  <2>1. Rendered(FALSE, FALSE, FALSE).final = FALSE
    BY DEF Rendered
  <2>2. plan.phase = "rendering" => report = Rendered(FALSE, FALSE, FALSE)
    BY DEF RenderInv
  <2>3. report.final
    BY DEF Final
  <2> QED BY <2>1, <2>2, <2>3
<1>3. plan.phase = "done" /\ report = Rendered(plan.err, TRUE, TRUE)
  BY <1>2 DEF RenderInv, Final
<1> QED BY <1>1, <1>3 DEF Rendered

\* The same facts of the cable and of the traffic.
SameEvidence(f, g) ==
  /\ f.side = g.side /\ f.tcp = g.tcp /\ f.udp = g.udp /\ f.ping = g.ping
  /\ f.NegotiatedSpeed = g.NegotiatedSpeed /\ f.ExpectedSpeed = g.ExpectedSpeed
  /\ f.HalfDuplex = g.HalfDuplex /\ f.LinkUpAtEnd = g.LinkUpAtEnd
  /\ f.Renegotiations = g.Renegotiations
  /\ f.MonitorCarrierTransitions = g.MonitorCarrierTransitions
  /\ f.CablePairs = g.CablePairs /\ f.MaxCPUPct = g.MaxCPUPct /\ f.Partial = g.Partial
  /\ f.UDPRateAssumed = g.UDPRateAssumed /\ f.Unavailable = g.Unavailable
  /\ f.ThroughputUnreachable = g.ThroughputUnreachable

LEMMA SameTotals ==
  ASSUME NEW f, NEW g, SameEvidence(f, g)
  PROVE  /\ Reliable(f) = Reliable(g) /\ crcTotal(f) = crcTotal(g)
         /\ unclassifiedRXTotal(f) = unclassifiedRXTotal(g)
         /\ carrierPHYTotal(f) = carrierPHYTotal(g) /\ jabberTotal(f) = jabberTotal(g)
         /\ carrierEvents(f) = carrierEvents(g)
<1> DEFINE R(x) == {s \in Side : x[s].DeltaOK}
           E(x) == MaxOf({x[s].CarrierEvents : s \in R(x)})
<1>1. \A h : Reliable(h) = R(h.side)
  BY DEF Reliable
<1>2. \A h : carrierEvents(h) = IF Reliable(h) # {} THEN E(h.side) ELSE h.MonitorCarrierTransitions
  BY DEF carrierEvents, Reliable
<1> HIDE DEF R, E
<1>3. f.side = g.side /\ f.MonitorCarrierTransitions = g.MonitorCarrierTransitions
  BY DEF SameEvidence
<1>4. Reliable(f) = Reliable(g)
  BY <1>1, <1>3
<1>5. carrierEvents(f) = carrierEvents(g)
  BY <1>2, <1>3, <1>4
<1>6. \A field : sumReliableSides(f, field) = sumReliableSides(g, field)
  BY <1>3, <1>4 DEF sumReliableSides, SumOver
<1> QED BY <1>4, <1>5, <1>6 DEF crcTotal, unclassifiedRXTotal, carrierPHYTotal, jabberTotal

LEMMA SamePhysical ==
  ASSUME NEW f, NEW g, SameEvidence(f, g)
  PROVE  PhysicalRules(f) = PhysicalRules(g)
<1>1. crcTotal(f) = crcTotal(g) /\ unclassifiedRXTotal(f) = unclassifiedRXTotal(g)
      /\ carrierPHYTotal(f) = carrierPHYTotal(g) /\ jabberTotal(f) = jabberTotal(g)
      /\ carrierEvents(f) = carrierEvents(g)
  BY SameTotals
<1>2. f.ping = g.ping /\ f.udp = g.udp /\ f.CablePairs = g.CablePairs
      /\ f.NegotiatedSpeed = g.NegotiatedSpeed /\ f.ExpectedSpeed = g.ExpectedSpeed
      /\ f.HalfDuplex = g.HalfDuplex /\ f.LinkUpAtEnd = g.LinkUpAtEnd
      /\ f.Renegotiations = g.Renegotiations
  BY DEF SameEvidence
<1>3. rulePHY01(f) = rulePHY01(g)
  BY <1>2 DEF rulePHY01
<1>4. rulePHY02(f) = rulePHY02(g)
  BY <1>1, <1>2 DEF rulePHY02, anyPingLossOver
<1>5. rulePHY03(f) = rulePHY03(g)
  BY <1>1 DEF rulePHY03
<1>6. rulePHY04(f) = rulePHY04(g) /\ rulePHY05(f) = rulePHY05(g)
  BY <1>2 DEF rulePHY04, rulePHY05
<1>7. rulePHY06(f) = rulePHY06(g) /\ rulePHY07(f) = rulePHY07(g)
  BY <1>1, <1>2 DEF rulePHY06, rulePHY07, phy06cond
<1>8. rulePHY08(f) = rulePHY08(g)
  <2> DEFINE W(S) == WorstOf({CASE status \in {"open", "short"}  -> SevFailed
             [] status = "impedance"          -> SevPoor
             [] status = "unspecified"        -> SevWarning
             [] OTHER                         -> None : status \in S})
  <2>1. \A h : rulePHY08(h) = W(h.CablePairs)
    BY DEF rulePHY08
  <2> HIDE DEF W
  <2> QED BY <1>2, <2>1
<1>9. rulePHY09(f) = rulePHY09(g) /\ rulePHY11(f) = rulePHY11(g)
  BY <1>1 DEF rulePHY09, rulePHY11
<1>10. rulePHY10(f) = rulePHY10(g)
  BY <1>1, <1>2 DEF rulePHY10
<1> QED BY <1>3, <1>4, <1>5, <1>6, <1>7, <1>8, <1>9, <1>10 DEF PhysicalRules

LEMMA SameTransport ==
  ASSUME NEW f, NEW g, SameEvidence(f, g)
  PROVE  TransportRules(f) = TransportRules(g)
<1>1. f.ping = g.ping /\ f.udp = g.udp /\ f.tcp = g.tcp
  BY DEF SameEvidence
<1>2. ruleTR01(f) = ruleTR01(g)
  <2> DEFINE W(p) == WorstOf({Graded(p[d].PingLossPct, Default.PingLossPoorAbove, NoBoundary) : d \in Dir})
  <2>1. \A h : ruleTR01(h) = W(h.ping)
    BY DEF ruleTR01
  <2> HIDE DEF W
  <2> QED BY <1>1, <2>1
<1>3. ruleTR02(f) = ruleTR02(g) /\ ruleTR03(f) = ruleTR03(g) /\ ruleTR04(f) = ruleTR04(g)
      /\ ruleTR05(f) = ruleTR05(g)
  BY <1>1 DEF ruleTR02, ruleTR03, ruleTR04, ruleTR05
<1>4. ruleTR06(f) = ruleTR06(g)
  <2> DEFINE W(x) == WorstOf({LET t == x[d]
           IN When(t.TCPAvailable /\ MaxOf({t.TCPRetransRate, t.TCPRetransRateWorst})
                                       >= Default.TCPRetransWarningAt,
                   IF t.TCPRetransRate > Default.TCPRetransPoorAbove
                   THEN SevPoor ELSE SevWarning) : d \in Dir})
  <2>1. \A h : ruleTR06(h) = W(h.tcp)
    BY DEF ruleTR06
  <2> HIDE DEF W
  <2> QED BY <1>1, <2>1
<1>5. ruleTR07(f) = ruleTR07(g)
  <2> DEFINE W(u) == WorstOf({When((u[d].UDPTargetReached /\ u[d].UDPMaxCPUPct <= Default.CPUHostLimitedAbove)
                                    /\ u[d].UDPLossPct >= Default.UDPLossWarningAt,
                IF u[d].UDPLossPct > Default.UDPLossPoorAbove
                THEN SevPoor ELSE SevWarning) : d \in Dir})
  <2>1. \A h : ruleTR07(h) = W(h.udp)
    BY DEF ruleTR07, UDPJudged
  <2> HIDE DEF W
  <2> QED BY <1>1, <2>1
<1>6. ruleTR08(f) = ruleTR08(g) /\ ruleTR09(f) = ruleTR09(g)
  BY <1>1 DEF ruleTR08, ruleTR09, Jittery
<1> QED BY <1>2, <1>3, <1>4, <1>5, <1>6 DEF TransportRules

LEMMA SamePerformance ==
  ASSUME NEW f, NEW g, SameEvidence(f, g)
  PROVE  PerformanceRules(f) = PerformanceRules(g) /\ TCPDirs(f) = TCPDirs(g)
<1>1. f.tcp = g.tcp /\ f.side = g.side /\ f.NegotiatedSpeed = g.NegotiatedSpeed
  BY DEF SameEvidence
<1>2. TCPDirs(f) = TCPDirs(g)
  <2> DEFINE D(t) == {d \in Dir : t[d].TCPAvailable}
  <2>1. \A h : TCPDirs(h) = D(h.tcp)
    BY DEF TCPDirs
  <2> HIDE DEF D
  <2> QED BY <1>1, <2>1
<1>3. physicalLayerClean(f) <=> physicalLayerClean(g)
  BY <1>1, SamePhysical DEF physicalLayerClean
<1>4. \A d : assessThroughput(f, d) = assessThroughput(g, d)
  <2> DEFINE A(t, n, clean, d) ==
        LET sev == classifyThroughput(t[d].TCPBitrate, n)
            isolated == t[d].TCPTrialCount >= 2 /\ t[d].TCPThroughputDeviations = 1
        IN IF sev > SevWarning /\ isolated /\ clean THEN SevWarning ELSE sev
  <2>1. \A h, d : assessThroughput(h, d) = A(h.tcp, h.NegotiatedSpeed, physicalLayerClean(h), d)
    BY DEF assessThroughput
  <2>2. ASSUME NEW d PROVE assessThroughput(f, d) = assessThroughput(g, d)
    BY <1>1, <1>3, <2>1
  <2> QED BY <2>2
<1>5. rulePERF01(f) = rulePERF01(g)
  <2> DEFINE S(h) == {assessThroughput(h, d) : d \in TCPDirs(h)}
  <2>1. S(f) = S(g)
    BY <1>2, <1>4
  <2>2. rulePERF01(f) = WorstOf(S(f)) /\ rulePERF01(g) = WorstOf(S(g))
    BY DEF rulePERF01
  <2> HIDE DEF S
  <2> QED BY <2>1, <2>2
<1>6. rulePERF02(f) = rulePERF02(g)
  <2> DEFINE S(h) == {GradedCoV(h.tcp[d].TCPCoV) : d \in TCPDirs(h)}
  <2>1. S(f) = S(g)
    BY <1>1, <1>2
  <2>2. rulePERF02(f) = WorstOf(S(f)) /\ rulePERF02(g) = WorstOf(S(g))
    BY DEF rulePERF02
  <2> HIDE DEF S
  <2> QED BY <2>1, <2>2
<1>7. rulePERF03(f) = rulePERF03(g)
  BY <1>1 DEF rulePERF03, tcpCollapseTotal, SumOver
<1>8. rulePERF04(f) = rulePERF04(g)
  <2> DEFINE R(h) == {h.tcp[d].TCPBitrate : d \in Dir}
  <2>1. R(f) = R(g)
    BY <1>1
  <2>2. \A h : asymmetric(h) <=> (TCPDirs(h) = Dir
              /\ (Max(R(h)) - Min(R(h))) * 100 > Default.TCPAsymmetryWarnAbove * Max(R(h)))
    BY DEF asymmetric
  <2> HIDE DEF R
  <2> QED BY <1>2, <2>1, <2>2 DEF rulePERF04, When
<1> QED BY <1>2, <1>5, <1>6, <1>7, <1>8 DEF PerformanceRules

LEMMA SameLimits ==
  ASSUME NEW f, NEW g, SameEvidence(f, g)
  PROVE  /\ ruleLIM01(f) = ruleLIM01(g) /\ ruleLIM02(f) = ruleLIM02(g) /\ ruleLIM03(f) = ruleLIM03(g)
         /\ ruleLIM05(f) = ruleLIM05(g)
<1>1. TCPDirs(f) = TCPDirs(g) /\ f.side = g.side /\ f.Unavailable = g.Unavailable /\ f.Partial = g.Partial
      /\ f.ThroughputUnreachable = g.ThroughputUnreachable
  BY SamePerformance DEF SameEvidence
<1> QED BY <1>1 DEF ruleLIM01, ruleLIM02, ruleLIM03, ruleLIM05, Neither, Both

\* With the same evidence, knowing more of the machines never improves a class.
LEMMA MoreKnown ==
  ASSUME NEW f, NEW g, SameEvidence(f, g), f.VirtualInterface => g.VirtualInterface,
         classify(Rules(g)) \in {"EXCELLENT", "GOOD"}
  PROVE  classify(Rules(f)) = classify(Rules(g))
<1> DEFINE F == Rules(f)  G == Rules(g)
<1>1. Sound(F) /\ Sound(G)
  BY RulesSound
<1>2. \A id \in Physical \cup Transport \cup Performance : F[id] = G[id]
  BY RuleFamilies, SamePhysical, SameTransport, SamePerformance
<1>3. F.LIM01 = G.LIM01 /\ F.LIM02 = G.LIM02 /\ F.LIM03 = G.LIM03 /\ F.LIM05 = G.LIM05
  BY RuleValues, SameLimits
<1>4. G.HOST02 = None => F.HOST02 = None
  <2>1. F.HOST02 = ruleHOST02(f) /\ G.HOST02 = ruleHOST02(g)
    BY RuleValues
  <2> QED BY <2>1 DEF ruleHOST02, When, None, SevMarker
<1> HIDE DEF F, G
<1>5. classify(G) \in {"EXCELLENT", "GOOD"}
  BY DEF G
<1>6. /\ Worst(G, Physical \cup Transport \cup Performance, SevInfo)
      /\ G.HOST02 = None /\ classify(G) = Capped(G, Tentative(G))
  BY <1>1, <1>5, GoodMeans
<1>7. Worst(F, Physical \cup Transport \cup Performance, SevInfo)
  BY <1>2, <1>6 DEF Worst
<1>8. classify(F) = Capped(F, Tentative(F))
  BY <1>1, <1>7, GoodFrom
<1>9. Tentative(F) = Tentative(G)
  <2>1. {F[id] : id \in Transport \cup Performance} = {G[id] : id \in Transport \cup Performance}
    BY <1>2
  <2>2. {F[id] : id \in Physical} = {G[id] : id \in Physical}
    BY <1>2
  <2>3. worstIn(F, Transport \cup Performance) = worstIn(G, Transport \cup Performance)
        /\ worstIn(F, Physical) = worstIn(G, Physical)
    BY <2>1, <2>2 DEF worstIn
  <2>4. anyInfoDeviation(F) <=> anyInfoDeviation(G)
    BY <1>2 DEF anyInfoDeviation
  <2> QED BY <2>3, <2>4 DEF Tentative
<1>10. F.HOST02 = None
  BY <1>4, <1>6
<1>11. Capped(F, Tentative(F)) = Capped(G, Tentative(G))
  BY <1>3, <1>6, <1>9, <1>10 DEF Capped, hasFinding
<1> QED BY <1>6, <1>8, <1>11 DEF F, G

\* The fields of a report.
LEMMA ReportFields ==
  ASSUME TypeInv, NEW failure \in BOOLEAN, NEW caps \in BOOLEAN, NEW ev,
         NEW r, r = assembleReport(failure, caps, ev)
  PROVE  /\ r.initial = res.initial /\ r.final = res.final /\ r.ping = res.ping
         /\ r.fullSizePing = res.fullSizePing /\ r.tcp = res.tcp /\ r.udp = res.udp
         /\ r.bidir = res.bidir /\ r.cable = res.cable /\ r.skipped = res.skipped
         /\ r.udpRateAssumed = res.udpRateAssumed /\ r.partial = (res.incomplete \/ failure)
         /\ r.events = ev /\ r.mode = conf.mode
         /\ r.repeats = (IF conf.mode = "quick" THEN 1 ELSE Repeats) /\ r.cycles = res.cycles
         /\ r.link = [s \in Side |-> [before |-> res.link[s], after |-> Absent]]
         /\ r.nic.PC1 = [known |-> TRUE, usb |-> conf.nic.PC1.usb, virtual |-> conf.nic.PC1.virtual,
                         speed |-> conf.speed, half |-> FALSE]
         /\ r.nic.PC2 = peerReportFromCaps(conf, caps)
BY DEF assembleReport

LEMMA SpeedKnown ==
  ASSUME TypeInv, NEW failure \in BOOLEAN, NEW caps \in BOOLEAN, NEW ev,
         NEW r, r = assembleReport(failure, caps, ev)
  PROVE  negotiatedSpeed(r) =
           LET ends == Endpoints([s \in Side |-> [before |-> res.link[s], after |-> Absent]])
               known == {i \in DOMAIN ends : ends[i] # Absent /\ ends[i].speed > 0}
           IN IF known # {} THEN ends[Min(known)].speed ELSE conf.speed
<1>1. r.link = [s \in Side |-> [before |-> res.link[s], after |-> Absent]] /\ r.nic.PC1.speed = conf.speed
  BY ReportFields
<1>2. conf.speed > 0
  BY ResType, ConfType
<1> QED BY <1>1, <1>2 DEF negotiatedSpeed

\* The facts of a report, in terms of the results of the run.
LinkEnds == [s \in Side |-> [before |-> res.link[s], after |-> Absent]]
NegSpeed ==
  LET ends == Endpoints(LinkEnds)
      known == {i \in DOMAIN ends : ends[i] # Absent /\ ends[i].speed > 0}
  IN IF known # {} THEN ends[Min(known)].speed ELSE conf.speed
TrialsDue == IF conf.mode = "soak" THEN Repeats * res.cycles ELSE IF conf.mode = "quick" THEN 1 ELSE Repeats
SelfInflicted(s) == IF res.cable = Absent THEN 0 ELSE res.cable.selfInflicted[s]
Skipped ==
  {x.name : x \in res.skipped}
  \cup (IF res.cable = Absent THEN {}
        ELSE IF ~res.cable.available THEN {"cable_test"}
        ELSE IF res.cable.tdrMissing THEN {"cable_test_tdr"} ELSE {})
HostLoad ==
  MaxOf(CPU(res.tcp, {i \in DOMAIN res.tcp : ~res.tcp[i].m.incomplete}) \cup CPU(res.udp, DOMAIN res.udp)
        \cup (IF res.bidir = Absent THEN {} ELSE {res.bidir.host, res.bidir.remote}))
BestSpeed ==
  LET own == IF res.link["PC1"] = Absent THEN 0 ELSE res.link["PC1"].supported
      partner == IF res.link["PC1"] # Absent /\ res.link["PC1"].partner > 0
                 THEN res.link["PC1"].partner
                 ELSE IF res.link["PC2"] = Absent THEN 0 ELSE res.link["PC2"].supported
  IN IF own = 0 \/ partner = 0 THEN 0 ELSE MinOf(own, partner)

LEMMA FactFields ==
  ASSUME TypeInv, NEW failure \in BOOLEAN, NEW caps \in BOOLEAN, NEW f, f = Facts(failure, caps)
  PROVE  /\ f.side = [s \in Side |-> sideFacts(res.initial[s], res.final[s], SelfInflicted(s))]
         /\ f.tcp = [d \in Dir |-> tcpFacts(res.tcp, d, TrialsDue, NegSpeed)]
         /\ f.udp = [d \in Dir |-> udpFacts(res.udp, d, NegSpeed)]
         /\ f.ping = [d \in Dir |-> pingFacts(res.ping, res.fullSizePing, d)]
         /\ f.NegotiatedSpeed = NegSpeed /\ f.ExpectedSpeed = BestSpeed
         /\ f.HalfDuplex <=> (\E s \in Side : res.link[s] # Absent /\ res.link[s].half)
         /\ f.LinkUpAtEnd
         /\ f.Renegotiations = EventCount(mon["PC1"].history, {"renegotiation", "speed_changed"})
         /\ f.MonitorCarrierTransitions =
              EventCount(mon["PC1"].history, {"carrier_lost", "carrier_restored"})
         /\ f.CablePairs = IF res.cable # Absent /\ res.cable.available THEN res.cable.pairs ELSE {}
         /\ f.MaxCPUPct = HostLoad /\ (f.Partial <=> (res.incomplete \/ failure))
         /\ (f.UDPRateAssumed <=> res.udpRateAssumed) /\ f.Unavailable = Skipped
         /\ f.ThroughputUnreachable <=> (\E x \in res.skipped : x.reason = "unreachable")
         /\ f.VirtualInterface <=> (conf.nic["PC1"].virtual \/ (caps /\ conf.nic["PC2"].virtual))
         /\ f.USBAdapter <=> (conf.nic["PC1"].usb \/ (caps /\ conf.nic["PC2"].usb))
<1> DEFINE r == assembleReport(failure, caps, mon["PC1"].history)
<1>0. "PC1" \in Side /\ "PC2" \in Side /\ \A s \in Side : s = "PC1" \/ s = "PC2"
  BY DEF Side
<1>1. f = factsFromReport(r)
  BY DEF Facts
<1>2. /\ r.initial = res.initial /\ r.final = res.final /\ r.ping = res.ping
      /\ r.fullSizePing = res.fullSizePing /\ r.tcp = res.tcp /\ r.udp = res.udp
      /\ r.bidir = res.bidir /\ r.cable = res.cable /\ r.skipped = res.skipped
      /\ r.udpRateAssumed = res.udpRateAssumed /\ r.partial = (res.incomplete \/ failure)
      /\ r.events = mon["PC1"].history /\ r.mode = conf.mode
      /\ r.repeats = (IF conf.mode = "quick" THEN 1 ELSE Repeats) /\ r.cycles = res.cycles
      /\ r.link = LinkEnds
  BY ReportFields DEF LinkEnds
<1>3. /\ r.nic["PC1"].known /\ ~r.nic["PC1"].half
      /\ (r.nic["PC1"].virtual <=> conf.nic["PC1"].virtual) /\ (r.nic["PC1"].usb <=> conf.nic["PC1"].usb)
      /\ (r.nic["PC2"].known <=> caps) /\ ~r.nic["PC2"].half
      /\ (r.nic["PC2"].virtual <=> (caps /\ conf.nic["PC2"].virtual))
      /\ (r.nic["PC2"].usb <=> (caps /\ conf.nic["PC2"].usb))
  <2>1. r.nic = [PC1 |-> [known |-> TRUE, usb |-> conf.nic.PC1.usb, virtual |-> conf.nic.PC1.virtual,
                      speed |-> conf.speed, half |-> FALSE],
                 PC2 |-> peerReportFromCaps(conf, caps)]
    BY DEF assembleReport
  <2> HIDE DEF r
  <2>2. r.nic["PC1"].known = TRUE /\ r.nic["PC1"].half = FALSE
        /\ r.nic["PC1"].virtual = conf.nic["PC1"].virtual /\ r.nic["PC1"].usb = conf.nic["PC1"].usb
    BY <2>1
  <2> DEFINE p == r.nic["PC2"]
  <2>3. p = peerReportFromCaps(conf, caps)
    BY <2>1
  <2>4. p.known = caps /\ p.half = FALSE
        /\ p.virtual = (caps /\ conf.nic["PC2"].virtual)
        /\ p.usb = (caps /\ conf.nic["PC2"].usb)
    BY <2>3 DEF peerReportFromCaps
  <2> QED BY <2>2, <2>4
<1>4. negotiatedSpeed(r) = NegSpeed
  BY SpeedKnown DEF NegSpeed, LinkEnds
<1> HIDE DEF r
<1>5. expectedTCPTrials(r) = TrialsDue
  BY <1>2 DEF expectedTCPTrials, TrialsDue
<1>6. f.side = [s \in Side |-> sideFacts(res.initial[s], res.final[s], SelfInflicted(s))]
  BY <1>1, <1>2 DEF factsFromReport, SelfInflicted
<1>7. f.tcp = [d \in Dir |-> tcpFacts(res.tcp, d, TrialsDue, NegSpeed)]
      /\ f.udp = [d \in Dir |-> udpFacts(res.udp, d, NegSpeed)]
      /\ f.ping = [d \in Dir |-> pingFacts(res.ping, res.fullSizePing, d)]
  BY <1>1, <1>2, <1>4, <1>5 DEF factsFromReport
<1>8. LinkEnds["PC1"].before = res.link["PC1"] /\ LinkEnds["PC2"].before = res.link["PC2"]
      /\ LinkEnds["PC1"].after = Absent /\ LinkEnds["PC2"].after = Absent
  BY <1>0 DEF LinkEnds
<1>9. f.NegotiatedSpeed = NegSpeed /\ f.ExpectedSpeed = expectedSpeed(r)
  BY <1>1, <1>4 DEF factsFromReport
<1>10. expectedSpeed(r) = BestSpeed
  BY <1>2, <1>8 DEF expectedSpeed, BestSpeed
<1>11. halfDuplex(r) <=> \E s \in Side : res.link[s] # Absent /\ res.link[s].half
  <2>1. ~r.nic["PC1"].half /\ ~r.nic["PC2"].half
    BY <1>3
  <2>2. Endpoints(r.link) = <<res.link["PC1"], res.link["PC2"], Absent, Absent>>
    BY <1>2, <1>8 DEF Endpoints
  <2> DEFINE ends == Endpoints(r.link)
  <2>3. DOMAIN ends = 1..4 /\ ends[1] = res.link["PC1"] /\ ends[2] = res.link["PC2"] /\ ends[3] = Absent /\ ends[4] = Absent
    BY <2>2
  <2>4. halfDuplex(r) <=> \/ \E i \in DOMAIN ends : ends[i] # Absent /\ ends[i].half
                          \/ \E s \in Side : r.nic[s].half
    BY DEF halfDuplex
  <2> HIDE DEF ends
  <2> QED BY <1>0, <2>1, <2>3, <2>4
<1>12. linkUpAtEnd(r)
  BY <1>0, <1>2, <1>8 DEF linkUpAtEnd
<1>13. /\ f.Renegotiations = EventCount(mon["PC1"].history, {"renegotiation", "speed_changed"})
       /\ f.MonitorCarrierTransitions = EventCount(mon["PC1"].history, {"carrier_lost", "carrier_restored"})
  BY <1>1, <1>2 DEF factsFromReport, renegotiations, monitorCarrierTransitions
<1>23. f.CablePairs = (IF res.cable # Absent /\ res.cable.available THEN res.cable.pairs ELSE {})
  BY <1>1, <1>2 DEF factsFromReport
<1>14. (f.Partial <=> (res.incomplete \/ failure)) /\ (f.UDPRateAssumed <=> res.udpRateAssumed)
  <2>1. f.Partial = r.partial /\ f.UDPRateAssumed = r.udpRateAssumed
    BY <1>1 DEF factsFromReport
  <2> QED BY <1>2, <2>1
<1>15. f.Unavailable = Skipped
  BY <1>1, <1>2 DEF factsFromReport, unavailableTests, Skipped
<1>16. f.ThroughputUnreachable <=> (\E x \in res.skipped : x.reason = "unreachable")
  BY <1>1, <1>2 DEF factsFromReport, throughputUnreachable
<1>17. f.MaxCPUPct = HostLoad
  <2> DEFINE H(tcp, udp, bidir) ==
      MaxOf(CPU(tcp, {i \in DOMAIN tcp : ~tcp[i].m.incomplete}) \cup CPU(udp, DOMAIN udp)
        \cup (IF bidir = Absent THEN {} ELSE {bidir.host, bidir.remote}))
  <2>1. maxCPUPct(r) = H(r.tcp, r.udp, r.bidir)
    BY DEF maxCPUPct
  <2>2. HostLoad = H(res.tcp, res.udp, res.bidir)
    BY DEF HostLoad
  <2> HIDE DEF H
  <2>3. f.MaxCPUPct = maxCPUPct(r)
    BY <1>1 DEF factsFromReport
  <2> QED BY <1>2, <2>1, <2>2, <2>3
<1>18. /\ f.VirtualInterface <=> (\E s \in Side : virtualNIC(r.nic[s]))
       /\ f.USBAdapter <=> (\E s \in Side : r.nic[s].known /\ r.nic[s].usb)
  BY <1>1 DEF factsFromReport
<1>19. f.VirtualInterface <=> (conf.nic["PC1"].virtual \/ (caps /\ conf.nic["PC2"].virtual))
  BY <1>0, <1>3, <1>18 DEF virtualNIC
<1>20. f.USBAdapter <=> (conf.nic["PC1"].usb \/ (caps /\ conf.nic["PC2"].usb))
  BY <1>0, <1>3, <1>18
<1>21. (f.HalfDuplex <=> halfDuplex(r)) /\ (f.LinkUpAtEnd <=> linkUpAtEnd(r))
  BY <1>1 DEF factsFromReport
<1>22. (f.HalfDuplex <=> (\E s \in Side : res.link[s] # Absent /\ res.link[s].half)) /\ f.LinkUpAtEnd
  BY <1>11, <1>12, <1>21
<1> QED BY <1>6, <1>7, <1>9, <1>10, <1>13, <1>14, <1>23, <1>15, <1>16, <1>17, <1>19, <1>20, <1>22

-----------------------------------------------------------------------------
(* Rendering again.                                                        *)

LEMMA FactFlags ==
  ASSUME TypeInv, NEW failure \in BOOLEAN, NEW caps \in BOOLEAN, NEW f, f = Facts(failure, caps)
  PROVE  /\ f.HalfDuplex \in BOOLEAN /\ f.LinkUpAtEnd \in BOOLEAN /\ f.Partial \in BOOLEAN
         /\ f.UDPRateAssumed \in BOOLEAN /\ f.ThroughputUnreachable \in BOOLEAN
<1> DEFINE r == assembleReport(failure, caps, mon["PC1"].history)
<1>1. f = factsFromReport(r)
  BY DEF Facts
<1>2. r.partial = (res.incomplete \/ failure) /\ r.udpRateAssumed = res.udpRateAssumed
  BY DEF assembleReport
<1>3. res.udpRateAssumed \in BOOLEAN
  BY ResType DEF Results
<1> HIDE DEF r
<1>4. f.HalfDuplex = halfDuplex(r) /\ f.LinkUpAtEnd = linkUpAtEnd(r) /\ f.Partial = r.partial
      /\ f.UDPRateAssumed = r.udpRateAssumed /\ f.ThroughputUnreachable = throughputUnreachable(r)
  BY <1>1 DEF factsFromReport
<1>5. halfDuplex(r) \in BOOLEAN /\ linkUpAtEnd(r) \in BOOLEAN /\ throughputUnreachable(r) \in BOOLEAN
  BY DEF halfDuplex, linkUpAtEnd, throughputUnreachable
<1> QED BY <1>2, <1>3, <1>4, <1>5

\* Handing the worker's capabilities over changes no fact of the cable or of
\* the traffic.
LEMMA CapsEvidence ==
  ASSUME TypeInv
  PROVE  /\ SameEvidence(Facts(FALSE, FALSE), Facts(FALSE, TRUE))
         /\ Facts(FALSE, FALSE).VirtualInterface => Facts(FALSE, TRUE).VirtualInterface
<1> DEFINE f == Facts(FALSE, FALSE)  g == Facts(FALSE, TRUE)
<1>0. TRUE \in BOOLEAN /\ FALSE \in BOOLEAN
  OBVIOUS
<1>1. /\ f.side = g.side /\ f.tcp = g.tcp /\ f.udp = g.udp /\ f.ping = g.ping
      /\ f.NegotiatedSpeed = g.NegotiatedSpeed /\ f.ExpectedSpeed = g.ExpectedSpeed
      /\ f.Renegotiations = g.Renegotiations /\ f.MonitorCarrierTransitions = g.MonitorCarrierTransitions
      /\ f.CablePairs = g.CablePairs /\ f.MaxCPUPct = g.MaxCPUPct /\ f.Unavailable = g.Unavailable
  <2> HIDE DEF f, g
  <2>1. f = Facts(FALSE, FALSE) /\ g = Facts(FALSE, TRUE)
    BY DEF f, g
  <2> DEFINE X == [s \in Side |-> sideFacts(res.initial[s], res.final[s], SelfInflicted(s))]
             T == [d \in Dir |-> tcpFacts(res.tcp, d, TrialsDue, NegSpeed)]
             U == [d \in Dir |-> udpFacts(res.udp, d, NegSpeed)]
             P == [d \in Dir |-> pingFacts(res.ping, res.fullSizePing, d)]
  <2>2. f.side = X /\ f.tcp = T /\ f.udp = U /\ f.ping = P
    BY <1>0, <2>1, FactFields
  <2>3. g.side = X /\ g.tcp = T /\ g.udp = U /\ g.ping = P
    BY <1>0, <2>1, FactFields
  <2> HIDE DEF X, T, U, P
  <2>4. f.NegotiatedSpeed = NegSpeed /\ f.ExpectedSpeed = BestSpeed /\ f.MaxCPUPct = HostLoad /\ f.Unavailable = Skipped
    BY <1>0, <2>1, FactFields
  <2>7. g.NegotiatedSpeed = NegSpeed /\ g.ExpectedSpeed = BestSpeed /\ g.MaxCPUPct = HostLoad /\ g.Unavailable = Skipped
    BY <1>0, <2>1, FactFields
  <2>5. f.Renegotiations = g.Renegotiations /\ f.MonitorCarrierTransitions = g.MonitorCarrierTransitions
    BY <1>0, <2>1, FactFields
  <2> DEFINE C == IF res.cable # Absent /\ res.cable.available THEN res.cable.pairs ELSE {}
  <2>6. f.CablePairs = C
    BY <1>0, <2>1, FactFields
  <2>8. g.CablePairs = C
    BY <1>0, <2>1, FactFields
  <2> HIDE DEF C
  <2> QED BY <2>2, <2>3, <2>4, <2>5, <2>6, <2>7, <2>8
<1>2. /\ f.HalfDuplex <=> g.HalfDuplex
      /\ f.LinkUpAtEnd <=> g.LinkUpAtEnd
      /\ f.Partial <=> g.Partial
      /\ f.UDPRateAssumed <=> g.UDPRateAssumed
      /\ f.ThroughputUnreachable <=> g.ThroughputUnreachable
      /\ f.VirtualInterface => g.VirtualInterface
  <2> HIDE DEF f, g
  <2>1. f = Facts(FALSE, FALSE) /\ g = Facts(FALSE, TRUE)
    BY DEF f, g
  <2> QED BY <1>0, <2>1, FactFields
<1>3. /\ f.HalfDuplex \in BOOLEAN /\ f.LinkUpAtEnd \in BOOLEAN /\ f.Partial \in BOOLEAN
      /\ f.UDPRateAssumed \in BOOLEAN /\ f.ThroughputUnreachable \in BOOLEAN
  BY <1>0, FactFlags
<1>4. /\ g.HalfDuplex \in BOOLEAN /\ g.LinkUpAtEnd \in BOOLEAN /\ g.Partial \in BOOLEAN
      /\ g.UDPRateAssumed \in BOOLEAN /\ g.ThroughputUnreachable \in BOOLEAN
  BY <1>0, FactFlags
<1> HIDE DEF f, g
<1>5. SameEvidence(f, g)
  BY <1>1, <1>2, <1>3, <1>4 DEF SameEvidence
<1> QED BY <1>2, <1>5 DEF f, g

\* A clean class is given to no failed run.
LEMMA CleanNotFailed ==
  ASSUME TypeInv, NEW failure \in BOOLEAN, NEW caps \in BOOLEAN,
         classify(Findings(failure, caps)) \in {"EXCELLENT", "GOOD"}
  PROVE  ~failure /\ ~res.incomplete
<1> DEFINE f == Facts(failure, caps)  F == Rules(f)
<1>1. F = Findings(failure, caps)
  BY DEF Findings
<1>2. Sound(F)
  BY RulesSound
<1>3. F.LIM03 = ruleLIM03(f)
  BY RuleValues
<1>4. f.Partial <=> (res.incomplete \/ failure)
  BY FactFields
<1> HIDE DEF f, F
<1>5. F.LIM03 = None
  BY <1>1, <1>2, GoodMeans
<1> QED BY <1>3, <1>4, <1>5 DEF ruleLIM03, When, SevMarker, None

\* Rendering again never makes a report sound better: the last rendering is
\* clean only if the first was.
LEMMA RenderedAgain ==
  ASSUME TypeInv, RenderInv, [Next]_vars, report # Absent, report' # report,
         report'.class \in {"EXCELLENT", "GOOD"}
  PROVE  report'.class = report.class
<1>0. TRUE \in BOOLEAN /\ FALSE \in BOOLEAN
  OBVIOUS
<1>1. ~(World \/ UNCHANGED vars)
  BY WorldRendering
<1>2. ~(BaseStep \/ snapshotCountersDetached \/ salvageFinalCounters \/ CableStep)
  BY NotRendering
<1>3. Rendering /\ plan.phase = "rendering"
  <2>1. Rendering
    BY <1>1, <1>2, NextCases
  <2>2. plan.phase \in {"rendering", "done"}
    BY DEF RenderInv
  <2> QED BY <2>1, <2>2, RenderStep
<1>4. UNCHANGED <<conf, res>> /\ mon' = mon
      /\ (report' = Rendered(FALSE, TRUE, TRUE)' \/ report' = Rendered(TRUE, TRUE, TRUE)')
  BY <1>3, RenderStep
<1>5. report' = Rendered(FALSE, TRUE, TRUE) \/ report' = Rendered(TRUE, TRUE, TRUE)
  BY <1>4, SameRendering
<1>6. report = Rendered(FALSE, FALSE, FALSE)
  BY <1>3 DEF RenderInv
<1>7. \A failure, caps, final : Rendered(failure, caps, final).class = classify(Findings(failure, caps))
  BY DEF Rendered
<1>8. report'.class = classify(Findings(FALSE, TRUE)) \/ report'.class = classify(Findings(TRUE, TRUE))
  BY <1>5, <1>7
<1>9. report.class = classify(Findings(FALSE, FALSE))
  BY <1>6, <1>7
<1>10. classify(Findings(TRUE, TRUE)) \notin {"EXCELLENT", "GOOD"}
  BY <1>0, CleanNotFailed
<1>11. classify(Findings(FALSE, TRUE)) \in {"EXCELLENT", "GOOD"}
  BY <1>8, <1>10
<1>12. classify(Findings(FALSE, FALSE)) = classify(Findings(FALSE, TRUE))
  BY <1>11, CapsEvidence, MoreKnown DEF Findings
<1> QED BY <1>8, <1>9, <1>10, <1>12

\* A report is never made to sound better by rendering it again, in any run of
\* any configuration: what the session adds between the two renderings, the
\* worker's capabilities or its failure, can only take a clean class away.
THEOREM ReportsNeverUpgraded == Spec => NeverUpgraded
<1>1. TypeInv /\ RenderInv /\ [Next]_vars =>
        [report # Absent /\ report'.class \in {"EXCELLENT", "GOOD"} => report'.class = report.class]_report
  BY RenderedAgain
<1> QED BY <1>1, Renderings, PTL DEF Spec, NeverUpgraded

-----------------------------------------------------------------------------
(* What two snapshots of a side show.                                      *)

LEMMA CountersTyped == ASSUME NEW c \in Counters PROVE \A k \in DOMAIN c : c[k] \in Nat
BY DEF Counters

\* The delta of a counter: what it gained, where both snapshots show it.
LEMMA SumIs ==
  ASSUME NEW b \in Snapshots \cup {Absent}, NEW a \in Snapshots \cup {Absent}, NEW key
  PROVE  /\ sum(DeltaSet(b, a), key) \in Nat
         /\ sum(DeltaSet(b, a), key) =
              IF b # Absent /\ a # Absent /\ key \in DOMAIN b.std /\ key \in DOMAIN a.std
              THEN Minus(a.std[key], b.std[key]) ELSE 0
         /\ key \in DOMAIN DeltaSet(b, a) <=>
              (b # Absent /\ a # Absent /\ key \in DOMAIN b.std /\ key \in DOMAIN a.std)
<1> DEFINE set == DeltaSet(b, a)
<1>1. CASE b = Absent \/ a = Absent
  <2>1. set = << >>
    BY <1>1 DEF DeltaSet
  <2>2. DOMAIN set = {}
    BY <2>1
  <2> QED BY <1>1, <2>2 DEF sum
<1>2. CASE b # Absent /\ a # Absent
  <2> DEFINE D == DOMAIN b.std \cap DOMAIN a.std
  <2>1. set = [k \in D |-> CounterDelta(b.std[k], a.std[k])]
    BY <1>2 DEF DeltaSet
  <2>2. b.std \in Counters /\ a.std \in Counters
    BY <1>2 DEF Snapshots
  <2>3. CASE key \in D
    <3>1. b.std[key] \in Nat /\ a.std[key] \in Nat
      BY <2>2, <2>3, CountersTyped
    <3>2. set[key] = CounterDelta(b.std[key], a.std[key]) /\ key \in DOMAIN set
      BY <2>1, <2>3
    <3> HIDE DEF set
    <3>3. set[key].delta = Minus(a.std[key], b.std[key]) /\ (set[key].ok <=> a.std[key] >= b.std[key])
      <4>1. \A i, j \in Nat : CounterDelta(i, j).delta = Minus(j, i)
        BY DEF CounterDelta, Minus
      <4>2. \A i, j \in Nat : CounterDelta(i, j).ok = (j >= i)
        BY DEF CounterDelta
      <4> QED BY <3>1, <3>2, <4>1, <4>2
    <3>4. sum(set, key) = Minus(a.std[key], b.std[key])
      BY <3>1, <3>2, <3>3 DEF sum, Minus
    <3>5. Minus(a.std[key], b.std[key]) \in Nat
      BY <3>1 DEF Minus
    <3> QED BY <1>2, <2>3, <3>2, <3>4, <3>5 DEF set
  <2>4. CASE key \notin D
    <3>1. key \notin DOMAIN set
      BY <2>1, <2>4
    <3> QED BY <1>2, <2>4, <3>1 DEF sum
  <2> QED BY <2>3, <2>4
<1> QED BY <1>1, <1>2

\* The facts of a side are numbers and flags.
LEMMA SideTyped ==
  ASSUME NEW b \in Snapshots \cup {Absent}, NEW a \in Snapshots \cup {Absent}, NEW n \in Int,
         NEW x, x = sideFacts(b, a, n)
  PROVE  /\ x.CRCClassErrors \in Nat /\ x.UnclassifiedRXErrors \in Nat /\ x.CarrierEvents \in Nat
         /\ x.JabberSizeErrors \in Nat /\ x.CarrierPHYErrors \in Nat
<1> DEFINE set == DeltaSet(b, a)
<1>1. /\ sum(set, "rx_crc") \in Nat /\ sum(set, "rx_length") \in Nat /\ sum(set, "tx_carrier") \in Nat
      /\ sum(set, "link_resets") \in Nat /\ sum(set, "rx_errors_total") \in Nat
  BY SumIs
<1>2. /\ x.CRCClassErrors = sum(set, "rx_crc") /\ x.UnclassifiedRXErrors = unclassifiedRXErrors(set)
      /\ x.CarrierEvents = Minus(sum(set, "link_resets"), n) /\ x.JabberSizeErrors = sum(set, "rx_length")
      /\ x.CarrierPHYErrors = sum(set, "tx_carrier")
  BY DEF sideFacts
<1> HIDE DEF set
<1>3. \A i, j \in Int : i \in Nat => Minus(i, j) \in Nat
  BY DEF Minus
<1>4. sum(set, "rx_crc") + sum(set, "rx_length") \in Int
  BY <1>1
<1>5. unclassifiedRXErrors(set) \in Nat
  BY <1>1, <1>3, <1>4 DEF unclassifiedRXErrors
<1> QED BY <1>1, <1>2, <1>3, <1>5

LEMMA SidesTyped ==
  ASSUME TypeInv, NEW failure \in BOOLEAN, NEW caps \in BOOLEAN, NEW f, f = Facts(failure, caps)
  PROVE  \A s \in Side :
           /\ f.side[s] = sideFacts(res.initial[s], res.final[s], SelfInflicted(s))
           /\ res.initial[s] \in Snapshots \cup {Absent} /\ res.final[s] \in Snapshots \cup {Absent}
           /\ SelfInflicted(s) \in Int
           /\ f.side[s].CRCClassErrors \in Nat /\ f.side[s].UnclassifiedRXErrors \in Nat
           /\ f.side[s].CarrierEvents \in Nat
           /\ f.side[s].JabberSizeErrors \in Nat /\ f.side[s].CarrierPHYErrors \in Nat
<1> SUFFICES ASSUME NEW s \in Side
             PROVE /\ f.side[s] = sideFacts(res.initial[s], res.final[s], SelfInflicted(s))
                   /\ res.initial[s] \in Snapshots \cup {Absent} /\ res.final[s] \in Snapshots \cup {Absent}
                   /\ SelfInflicted(s) \in Int
                   /\ f.side[s].CRCClassErrors \in Nat /\ f.side[s].UnclassifiedRXErrors \in Nat
                   /\ f.side[s].CarrierEvents \in Nat
                   /\ f.side[s].JabberSizeErrors \in Nat /\ f.side[s].CarrierPHYErrors \in Nat
  OBVIOUS
<1>1. f.side = [x \in Side |-> sideFacts(res.initial[x], res.final[x], SelfInflicted(x))]
  BY FactFields
<1>2. f.side[s] = sideFacts(res.initial[s], res.final[s], SelfInflicted(s))
  BY <1>1
<1>3. res \in Results(conf)
  BY ResType
<1>4. res.initial[s] \in Snapshots \cup {Absent} /\ res.final[s] \in Snapshots \cup {Absent}
  BY <1>3 DEF Results
<1>5. SelfInflicted(s) \in Int
  BY <1>3 DEF Results, CableResults, SelfInflicted
<1> QED BY <1>2, <1>4, <1>5, SideTyped

LEMMA TotalsTyped ==
  ASSUME NEW f,
         \A s \in Side : /\ f.side[s].CRCClassErrors \in Nat /\ f.side[s].UnclassifiedRXErrors \in Nat
                         /\ f.side[s].CarrierEvents \in Nat
                         /\ f.side[s].JabberSizeErrors \in Nat /\ f.side[s].CarrierPHYErrors \in Nat,
         f.MonitorCarrierTransitions \in Nat
  PROVE  /\ crcTotal(f) \in Nat /\ unclassifiedRXTotal(f) \in Nat /\ jabberTotal(f) \in Nat
         /\ carrierPHYTotal(f) \in Nat /\ carrierEvents(f) \in Nat
         /\ \A s \in Reliable(f) : f.side[s].CarrierEvents <= carrierEvents(f)
         /\ Reliable(f) # {} => carrierEvents(f) \in {f.side[s].CarrierEvents : s \in Reliable(f)} \cup {0}
<1>0. "PC1" \in Side /\ "PC2" \in Side /\ \A s \in Side : s = "PC1" \/ s = "PC2"
  BY DEF Side
<1>1. \A g : f.side["PC1"][g] \in Nat /\ f.side["PC2"][g] \in Nat => sumReliableSides(f, g) \in Nat
  BY DEF sumReliableSides, SumOver, Side
<1>2. unclassifiedRXTotal(f) \in Nat /\ jabberTotal(f) \in Nat /\ carrierPHYTotal(f) \in Nat
      /\ sumReliableSides(f, "CRCClassErrors") \in Nat
  BY <1>0, <1>1 DEF unclassifiedRXTotal, jabberTotal, carrierPHYTotal
<1>3. crcTotal(f) \in Nat
  BY <1>2 DEF crcTotal
<1> DEFINE E == {f.side[s].CarrierEvents : s \in Reliable(f)}
           B == f.side["PC1"].CarrierEvents + f.side["PC2"].CarrierEvents
<1>4. B \in Nat /\ f.side["PC1"].CarrierEvents <= B /\ f.side["PC2"].CarrierEvents <= B
  BY <1>0
<1>5. Reliable(f) \subseteq Side
  BY DEF Reliable
<1> HIDE DEF B
<1>6. \A s \in Side : f.side[s].CarrierEvents \in 0..B
  BY <1>0, <1>4
<1>7. E \in SUBSET (0..B)
  BY <1>5, <1>6
<1>8. \A s \in Reliable(f) : f.side[s].CarrierEvents \in E
  OBVIOUS
<1> HIDE DEF E
<1>9. MaxOf(E) \in 0..B /\ MaxOf(E) \in E \cup {0} /\ \A k \in E : k <= MaxOf(E)
  BY <1>4, <1>7, MaxOfBound
<1>10. carrierEvents(f) = IF Reliable(f) # {} THEN MaxOf(E) ELSE f.MonitorCarrierTransitions
  BY DEF carrierEvents, E
<1>11. carrierEvents(f) \in Nat
  BY <1>4, <1>9, <1>10
<1>12. \A s \in Reliable(f) : f.side[s].CarrierEvents <= carrierEvents(f)
  BY <1>8, <1>9, <1>10
<1>13. Reliable(f) # {} => carrierEvents(f) \in E \cup {0}
  BY <1>9, <1>10
<1> QED BY <1>2, <1>3, <1>11, <1>12, <1>13 DEF E

\* An event count is a number.
LEMMA EventCountType ==
  ASSUME NEW h \in Seq(Events), NEW T
  PROVE  /\ EventCount(h, T) \in Nat
         /\ EventCount(h, T) # 0 => \E i \in DOMAIN h : ~h[i].selfInflicted /\ h[i].type \in T
<1> DEFINE I == {i \in DOMAIN h : ~h[i].selfInflicted /\ h[i].type \in T}
<1>1. DOMAIN h = 1..Len(h) /\ Len(h) \in Nat
  OBVIOUS
<1>2. IsFiniteSet(1..Len(h))
  BY <1>1, FS_Interval
<1>3. IsFiniteSet(I) /\ (I = {} => Cardinality(I) = 0)
  <2>1. I \subseteq 1..Len(h)
    BY <1>1
  <2> QED BY <1>2, <2>1, FS_Subset, FS_EmptySet
<1>4. Cardinality(I) \in Nat
  BY <1>3, FS_CardinalityType
<1> QED BY <1>3, <1>4 DEF EventCount

LEMMA MetricIs == Metric \subseteq Nat /\ \E B \in Nat : Metric = 0..B
<1> DEFINE n == 20000
<1>1. Metric = 0..n
  BY DEF Metric
<1>2. n \in Nat
  OBVIOUS
<1> HIDE DEF n
<1>3. \E B \in Nat : Metric = 0..B
  BY <1>1, <1>2
<1> QED BY <1>3

\* The greatest of the metrics of some entries of a log.
LEMMA WorstMetric ==
  ASSUME NEW s, NEW I, NEW g, \A i \in I : s[i].m[g] \in Metric
  PROVE  /\ MaxOf(Field(s, I, g)) \in Metric
         /\ MaxOf(Field(s, I, g)) # 0 => \E i \in I : s[i].m[g] = MaxOf(Field(s, I, g))
         /\ \A i \in I : s[i].m[g] <= MaxOf(Field(s, I, g))
<1> DEFINE v(i) == s[i].m[g]
           F == Field(s, I, g)
<1>0. PICK B \in Nat : Metric = 0..B
  BY MetricIs
<1>1. F = {v(i) : i \in I}
  BY DEF Field
<1>a. \A i \in I : v(i) \in 0..B
  BY <1>0
<1> HIDE DEF v, F
<1>2. F \in SUBSET (0..B) /\ \A i \in I : v(i) \in F
  BY <1>1, <1>a
<1>3. \A x \in F : \E i \in I : x = v(i)
  BY <1>1
<1>5. MaxOf(F) \in 0..B /\ MaxOf(F) \in F \cup {0} /\ \A k \in F : k <= MaxOf(F)
  BY <1>2, MaxOfBound
<1>6. MaxOf(F) # 0 => \E i \in I : v(i) = MaxOf(F)
  BY <1>3, <1>5
<1>7. \A i \in I : v(i) <= MaxOf(F)
  BY <1>2, <1>5
<1> QED BY <1>0, <1>5, <1>6, <1>7 DEF v, F

LEMMA LogsTyped ==
  ASSUME TypeInv
  PROVE  /\ \A i \in DOMAIN res.tcp : res.tcp[i] \in Entry(TCPM(conf))
         /\ \A i \in DOMAIN res.udp : res.udp[i] \in Entry(UDPM)
         /\ \A i \in DOMAIN res.ping : res.ping[i] \in Entry(PingM)
         /\ \A i \in DOMAIN res.fullSizePing : res.fullSizePing[i] \in Entry(PingM)
<1>1. /\ res.tcp \in Seq(Entry(TCPM(conf))) /\ res.udp \in Seq(Entry(UDPM))
      /\ res.ping \in Seq(Entry(PingM)) /\ res.fullSizePing \in Seq(Entry(PingM))
  BY ResType DEF Results
<1>2. \A S : \A q \in Seq(S) : \A i \in DOMAIN q : q[i] \in S
  OBVIOUS
<1> QED BY <1>1, <1>2

LEMMA TrafficTyped ==
  ASSUME TypeInv, NEW failure \in BOOLEAN, NEW caps \in BOOLEAN, NEW f, f = Facts(failure, caps)
  PROVE  /\ \A d \in Dir : f.tcp[d].TCPCollapses \in Nat /\ f.ping[d].PingLossPct \in Nat
         /\ f.MonitorCarrierTransitions \in Nat /\ f.Renegotiations \in Nat
<1>1. f.MonitorCarrierTransitions = EventCount(mon["PC1"].history, {"carrier_lost", "carrier_restored"})
      /\ f.Renegotiations = EventCount(mon["PC1"].history, {"renegotiation", "speed_changed"})
  BY FactFields
<1>2. mon["PC1"].history \in Seq(Events)
  BY ResType DEF Monitors, Side
<1>3. f.MonitorCarrierTransitions \in Nat /\ f.Renegotiations \in Nat
  BY <1>1, <1>2, EventCountType
<1>4. f.tcp = [d \in Dir |-> tcpFacts(res.tcp, d, TrialsDue, NegSpeed)]
      /\ f.ping = [d \in Dir |-> pingFacts(res.ping, res.fullSizePing, d)]
  BY FactFields
<1>5. ASSUME NEW d \in Dir PROVE f.tcp[d].TCPCollapses \in Nat
  <2> DEFINE trials == Of(res.tcp, d)
             whole  == {i \in trials : ~res.tcp[i].m.incomplete}
             used   == IF whole # trials \/ Cardinality(trials) < TrialsDue THEN {} ELSE whole
  <2>1. tcpFacts(res.tcp, d, TrialsDue, NegSpeed).TCPCollapses = MaxOf(Field(res.tcp, used, "collapses"))
    BY DEF tcpFacts
  <2>2. used \subseteq DOMAIN res.tcp
    BY DEF Of
  <2> HIDE DEF used
  <2>3. \A i \in used : res.tcp[i].m["collapses"] \in Metric
    BY <2>2, LogsTyped DEF Entry, TCPM
  <2>4. MaxOf(Field(res.tcp, used, "collapses")) \in Metric
    BY <2>3, WorstMetric
  <2>5. f.tcp[d] = tcpFacts(res.tcp, d, TrialsDue, NegSpeed)
    BY <1>4
  <2>6. f.tcp[d].TCPCollapses \in Metric
    BY <2>1, <2>4, <2>5
  <2> QED BY <2>6, MetricIs
<1>6. ASSUME NEW d \in Dir PROVE f.ping[d].PingLossPct \in Nat
  <2> DEFINE pings == Of(res.ping, d)
  <2>1. pingFacts(res.ping, res.fullSizePing, d).PingLossPct = MaxOf(Field(res.ping, pings, "loss"))
    BY DEF pingFacts
  <2>2. pings \subseteq DOMAIN res.ping
    BY DEF Of
  <2> HIDE DEF pings
  <2>3. \A i \in pings : res.ping[i].m["loss"] \in Metric
    BY <2>2, LogsTyped DEF Entry, PingM
  <2>4. MaxOf(Field(res.ping, pings, "loss")) \in Metric
    BY <2>3, WorstMetric
  <2>5. f.ping[d] = pingFacts(res.ping, res.fullSizePing, d)
    BY <1>4
  <2>6. f.ping[d].PingLossPct \in Metric
    BY <2>1, <2>4, <2>5
  <2> QED BY <2>6, MetricIs
<1> QED BY <1>3, <1>5, <1>6

LEMMA RunTotals ==
  ASSUME TypeInv, NEW failure \in BOOLEAN, NEW caps \in BOOLEAN, NEW f, f = Facts(failure, caps)
  PROVE  /\ crcTotal(f) \in Nat /\ unclassifiedRXTotal(f) \in Nat /\ jabberTotal(f) \in Nat
         /\ carrierPHYTotal(f) \in Nat /\ carrierEvents(f) \in Nat
         /\ \A s \in Reliable(f) : f.side[s].CarrierEvents <= carrierEvents(f)
         /\ Reliable(f) # {} => carrierEvents(f) \in {f.side[s].CarrierEvents : s \in Reliable(f)} \cup {0}
<1>1. f.MonitorCarrierTransitions \in Nat
  BY TrafficTyped
<1>2. \A s \in Side : /\ f.side[s].CRCClassErrors \in Nat /\ f.side[s].UnclassifiedRXErrors \in Nat
                      /\ f.side[s].CarrierEvents \in Nat
                      /\ f.side[s].JabberSizeErrors \in Nat /\ f.side[s].CarrierPHYErrors \in Nat
  BY SidesTyped
<1> QED BY <1>1, <1>2, TotalsTyped

-----------------------------------------------------------------------------
(* The score.                                                              *)

LEMMA CostTyped ==
  /\ \A cond : \A p \in Nat : Cost(cond, p) \in Int
  /\ \A n, p, most \in Nat : PerEvent(n, p, most) \in Int
  /\ \A sev : \A p, w \in Nat : GradedCost(sev, p, w) \in Int
<1>1. \A i, j \in Int : MinOf(i, j) \in Int
  BY DEF MinOf
<1>2. \A i \in Int : 100 * i \in Int
  OBVIOUS
<1>3. ASSUME NEW n \in Nat, NEW p \in Nat, NEW most \in Nat PROVE PerEvent(n, p, most) \in Int
  <2>1. MinOf(n, most) \in Int
    BY <1>1
  <2>2. MinOf(n, most) * p \in Int
    BY <2>1
  <2>3. MinOf(MinOf(n, most) * p, most) \in Int
    BY <1>1, <2>2
  <2> QED BY <1>2, <2>3 DEF PerEvent
<1>4. \A cond : \A p \in Nat : Cost(cond, p) \in Int
  BY DEF Cost
<1>5. ASSUME NEW sev, NEW p \in Nat, NEW w \in Nat PROVE GradedCost(sev, p, w) \in Int
  BY DEF GradedCost, SevPoor, SevWarning
<1> QED BY <1>3, <1>4, <1>5

\* A score stays in the band of its class, whatever it was made of.
LEMMA ClampedScore ==
  ASSUME NEW v \in Int, NEW c \in Classes \ {"INCONCLUSIVE"}
  PROVE  clampToBand(v, c) \in 0..100
<1>1. scoreBand(c)[1] \in 0..100 /\ scoreBand(c)[2] \in 0..100 /\ scoreBand(c)[1] <= scoreBand(c)[2]
  BY DEF Classes, scoreBand
<1> QED BY <1>1 DEF clampToBand, MinOf

LEMMA TransportCostTyped ==
  ASSUME NEW f, NEW d, f.ping[d].PingLossPct \in Nat
  PROVE  TransportCost(f, d) \in Int
<1> DEFINE t == f.tcp[d]  u == f.udp[d]
           a == MinOf(4000, 20 * f.ping[d].PingLossPct)
           b == Cost(t.TCPAvailable /\ t.TCPRetransRate > Default.TCPRetransPoorAbove, 15)
           c == Cost(/\ t.TCPAvailable /\ t.TCPRetransRate <= Default.TCPRetransPoorAbove
                     /\ MaxOf({t.TCPRetransRate, t.TCPRetransRateWorst}) >= Default.TCPRetransWarningAt, 5)
           e == Cost(UDPJudged(f, d) /\ u.UDPLossPct > Default.UDPLossPoorAbove, 15)
           g == Cost(/\ UDPJudged(f, d) /\ u.UDPLossPct <= Default.UDPLossPoorAbove
                     /\ u.UDPLossPct >= Default.UDPLossWarningAt, 5)
<1>1. TransportCost(f, d) = a + b + c + e + g
  BY DEF TransportCost
<1>2. \A cond : Cost(cond, 15) \in Int /\ Cost(cond, 5) \in Int
  BY DEF Cost
<1>3. b \in Int /\ c \in Int /\ e \in Int /\ g \in Int
  BY <1>2
<1>4. a \in Int
  BY DEF MinOf
<1> HIDE DEF a, b, c, e, g
<1>5. a + b + c + e + g \in Int
  BY <1>3, <1>4
<1> QED BY <1>1, <1>5

LEMMA ScoreTyped ==
  ASSUME TypeInv, NEW failure \in BOOLEAN, NEW caps \in BOOLEAN, NEW f, f = Facts(failure, caps),
         NEW F, NEW class \in Classes
  PROVE  scoreFor(f, F, class) \in (IF class = "INCONCLUSIVE" THEN {Absent} ELSE 0..100)
<1>0. "PC1" \in Side /\ "PC2" \in Side /\ Dir = Side
  BY DEF Side, Dir
<1>1. \A d \in Dir : f.tcp[d].TCPCollapses \in Nat /\ f.ping[d].PingLossPct \in Nat
  BY TrafficTyped
<1>2. crcTotal(f) \in Nat /\ carrierEvents(f) \in Nat
  BY RunTotals
<1>3. PhysicalCost(f) \in Int
  <2>1. PerEvent(crcTotal(f), 2, 40) \in Int /\ PerEvent(carrierEvents(f), 15, 45) \in Int
    BY <1>2, CostTyped
  <2>2. Cost(f.Renegotiations > 0, 10) \in Int /\ Cost(f.HalfDuplex, 25) \in Int /\ Cost(phy06cond(f), 15) \in Int
    BY DEF Cost
  <2> QED BY <2>1, <2>2 DEF PhysicalCost
<1>4. TransportCost(f, "PC1") \in Int /\ TransportCost(f, "PC2") \in Int
  BY <1>0, <1>1, TransportCostTyped
<1>5. SumOver(Dir, [d \in Dir |-> TransportCost(f, d)]) \in Int
  BY <1>0, <1>4 DEF SumOver
<1>6. PerformanceCost(f) \in Int
  <2> DEFINE cool == {d \in TCPDirs(f) : f.tcp[d].TCPMaxCPUPct <= Default.CPUHostLimitedAbove}
             a == GradedCost(GradedCoV(MaxOf({f.tcp[d].TCPCoV : d \in cool})), 15, 5)
             b == PerEvent(tcpCollapseTotal(f, cool), 5, 20)
             c == GradedCost(WorstOf({assessThroughput(f, d) : d \in cool}), 25, 10)
             e == Cost(/\ asymmetric(f)
                       /\ \A d \in Dir : f.tcp[d].TCPSenderMaxCPUPct <= Default.CPUHostLimitedAbove, 5)
  <2>1. PerformanceCost(f) = a + b + c + e
    BY DEF PerformanceCost
  <2>2. \A sev : GradedCost(sev, 15, 5) \in Int /\ GradedCost(sev, 25, 10) \in Int
    BY CostTyped
  <2>3. a \in Int /\ c \in Int
    BY <2>2
  <2>4. tcpCollapseTotal(f, cool) \in Nat
    BY <1>0, <1>1 DEF tcpCollapseTotal, SumOver
  <2>5. b \in Int
    BY <2>4, CostTyped
  <2>6. e \in Int
    BY DEF Cost
  <2> HIDE DEF a, b, c, e
  <2>7. a + b + c + e \in Int
    BY <2>3, <2>5, <2>6
  <2> QED BY <2>1, <2>7
<1>7. CASE class = "INCONCLUSIVE"
  BY <1>7 DEF scoreFor
<1>8. CASE class # "INCONCLUSIVE"
  <2> DEFINE excused == \E id \in {"HOST03", "HOST04"} : hasFinding(F, id)
             p == PhysicalCost(f)
             q == SumOver(Dir, [d \in Dir |-> TransportCost(f, d)])
             x == Cost(hasFinding(F, "TR02"), 20)
             y == IF excused THEN 0 ELSE PerformanceCost(f)
             z == Cost(Jittery(f), 5)
             v == (10000 - (p + q + x + y + z) + 50) \div 100
  <2>1. scoreFor(f, F, class) = clampToBand(v, class)
    BY <1>8 DEF scoreFor
  <2>2. x \in Int /\ z \in Int
    BY DEF Cost
  <2>3. p \in Int /\ q \in Int /\ y \in Int
    BY <1>3, <1>5, <1>6
  <2> HIDE DEF p, q, x, y, z
  <2>4. v \in Int
    BY <2>2, <2>3
  <2> HIDE DEF v
  <2> QED BY <1>8, <2>1, <2>4, ClampedScore
<1> QED BY <1>7, <1>8

LEMMA TypesImplied == ASSUME TypeInv, RenderInv PROVE TypeOK
<1>1. /\ conf \in Confs /\ spent \in 0..MaxAnomalies
      /\ link.up \in BOOLEAN /\ link.speed \in Nat /\ link.changes \in Nat
      /\ plan.step \in 1..Len(StepsOf(conf)) /\ plan.err \in BOOLEAN
      /\ res.cycles \in 0..MaxCycles /\ res.incomplete \in BOOLEAN
      /\ kept # Absent => kept.cycles = res.cycles
  <2>1. conf.speed \in Nat
    BY ResType, ConfType
  <2> QED BY <2>1, ResType DEF TypeInv, Link, Plans, Results
<1>2. ASSUME report # Absent
      PROVE /\ report.class \in Classes
            /\ report.score \in (IF report.class = "INCONCLUSIVE" THEN {Absent} ELSE 0..100)
  <2>1. PICK failure \in BOOLEAN, caps \in BOOLEAN, final \in BOOLEAN : report = Rendered(failure, caps, final)
    <3>1. plan.err \in BOOLEAN /\ TRUE \in BOOLEAN /\ FALSE \in BOOLEAN
      BY <1>1
    <3>2. report = Rendered(FALSE, FALSE, FALSE) \/ report = Rendered(plan.err, TRUE, TRUE)
      BY <1>2 DEF RenderInv
    <3> QED BY <3>1, <3>2
  <2> DEFINE f == Facts(failure, caps)  F == Findings(failure, caps)  c == classify(F)
  <2>2. report = [final |-> final, class |-> c, score |-> scoreFor(f, F, c), findings |-> F]
    BY <2>1 DEF Rendered
  <2>3. c \in Classes
    BY ClassTyped
  <2>4. scoreFor(f, F, c) \in (IF c = "INCONCLUSIVE" THEN {Absent} ELSE 0..100)
    BY <2>3, ScoreTyped
  <2> HIDE DEF f, F, c
  <2> QED BY <2>2, <2>3, <2>4
<1> QED BY <1>1, <1>2 DEF TypeOK

\* Every variable keeps its type in every run: what a soak keeps aside belongs
\* to the cycle that is running, and every report has one of the six classes
\* with a score in 0..100 exactly when it is not INCONCLUSIVE.
THEOREM TypesHold == Spec => []TypeOK
BY TypesImplied, Renderings, PTL

-----------------------------------------------------------------------------
(* What the plan has covered.                                              *)

Has(s, d) == \E i \in DOMAIN s : s[i].dir = d
Left(r, test) == \E x \in r.skipped : x.name = test
\* Both directions of a test ran, or the test is among those left out.
Covered(r, field, test) == (\A d \in Dir : Has(r[field], d)) \/ Left(r, test)
BidirCovered(r) == r.bidir # Absent \/ Left(r, "bidirectional")
\* Nothing is taken back.
Keeps(q, r) ==
  /\ \A field \in Logs : \A d : Has(r[field], d) => Has(q[field], d)
  /\ r.skipped \subseteq q.skipped
  /\ r.bidir # Absent => q.bidir # Absent

LEMMA Appended ==
  ASSUME NEW S, NEW s \in Seq(S), NEW dir, NEW m
  PROVE  /\ \A d : Has(s, d) => Has(Append(s, Taken(dir, m)), d)
         /\ Has(Append(s, Taken(dir, m)), dir)
         /\ Append(s, Taken(dir, m)) \in Seq(S \cup {Taken(dir, m)})
<1> DEFINE e == Taken(dir, m)  q == Append(s, e)
<1>1. s \in Seq(S \cup {e}) /\ e.dir = dir
  BY DEF Taken
<1> HIDE DEF e
<1>2. /\ q \in Seq(S \cup {e}) /\ DOMAIN s = 1..Len(s) /\ Len(s) \in Nat /\ DOMAIN q = 1..(Len(s) + 1)
      /\ q[Len(s) + 1] = e /\ \A i \in 1..Len(s) : q[i] = s[i]
  BY <1>1
<1> HIDE DEF q
<1>3. \A d : Has(s, d) => Has(q, d)
  BY <1>2 DEF Has
<1>4. Has(q, dir)
  BY <1>1, <1>2 DEF Has
<1> QED BY <1>2, <1>3, <1>4 DEF e, q

LEMMA KeepsCovered ==
  ASSUME NEW q, NEW r, Keeps(q, r)
  PROVE  /\ \A field \in Logs : \A test : Covered(r, field, test) => Covered(q, field, test)
         /\ BidirCovered(r) => BidirCovered(q)
BY DEF Keeps, Covered, BidirCovered, Left

\* Two results that differ in one log, which grew, and in what was left out.
LEMMA KeepsFrom ==
  ASSUME NEW q, NEW r, NEW field \in Logs, Same(q, r, {field, "skipped", "incomplete", "udpRateAssumed"}),
         r.skipped \subseteq q.skipped, \A d : Has(r[field], d) => Has(q[field], d)
  PROVE  Keeps(q, r)
BY DEF Keeps, Same, FieldNames, Logs

LEMMA KeepsSame ==
  ASSUME NEW q, NEW r, Same(q, r, {"link", "initial", "final", "skipped", "incomplete", "cycles", "cable"}),
         r.skipped \subseteq q.skipped
  PROVE  Keeps(q, r) /\ q.tcp = r.tcp
BY DEF Keeps, Same, FieldNames, Logs

LEMMA EndsClean ==
  ASSUME TypeInv, plan.phase = "base", NEW r \in Results(conf), NEW o, Ends(r, o), ~plan'.err
  PROVE  o \notin Errors /\ plan' = StepDone(plan) /\ res' = r
BY EndsShape

\* A step of the base phase after which the plan goes on.
Grown(name) ==
  /\ At(name) /\ plan' = StepDone(plan) /\ Keeps(res', res) /\ res'.cycles = res.cycles
  /\ name = "ping" => Covered(res', "ping", "ping")
  /\ name = "full" => Covered(res', "fullSizePing", "full_size_ping")
  /\ name = "udp" => Covered(res', "udp", "udp")
  /\ name = "bidir" => BidirCovered(res')
  /\ name \notin {"tcpF", "tcpR"} => res'.tcp = res.tcp
  /\ kept' = IF name = "cycle" THEN res ELSE kept

LEMMA GrownLink == ASSUME TypeInv, stepLink, ~plan'.err PROVE Grown("link")
<1>1. PICK n \in May(DOMAIN LinkReadings), o \in {"clean", "unavailable", "failed"},
            r \in Results(conf) :
           /\ At("link") /\ Unmoved /\ Blame({n}) /\ Ends(r, o) /\ spent' \in 0..MaxAnomalies
           /\ Same(r, res, {"link", "skipped"}) /\ res.skipped \subseteq r.skipped
           /\ r.link.PC1 = LinkReadings[n]
           /\ r.link.PC2 = IF o = "clean" THEN LinkReadings[n] ELSE res.link.PC2
  BY LinkStep
<1>2. plan' = StepDone(plan) /\ res' = r
  BY <1>1, EndsClean DEF At
<1>3. Keeps(r, res) /\ r.tcp = res.tcp /\ r.cycles = res.cycles
  <2>1. Same(r, res, {"link", "initial", "final", "skipped", "incomplete", "cycles", "cable"}) /\ r.cycles = res.cycles
    BY <1>1 DEF Same, FieldNames
  <2> QED BY <1>1, <2>1, KeepsSame
<1> QED BY <1>1, <1>2, <1>3 DEF Grown, Unmoved

LEMMA GrownCounters ==
  ASSUME TypeInv, NEW into \in {"initial", "final"}, stepCounters(into, into), ~plan'.err
  PROVE  Grown(into)
<1>1. PICK o \in CounterOutcomes, r \in Results(conf) :
           /\ At(into) /\ Unmoved /\ Ends(r, o)
           /\ Same(r, res, {into, "skipped"}) /\ res.skipped \subseteq r.skipped
  BY CounterStep
<1>2. plan' = StepDone(plan) /\ res' = r
  BY <1>1, EndsClean DEF At
<1>3. Keeps(r, res) /\ r.tcp = res.tcp /\ r.cycles = res.cycles
  <2>1. Same(r, res, {"link", "initial", "final", "skipped", "incomplete", "cycles", "cable"}) /\ r.cycles = res.cycles
    BY <1>1 DEF Same, FieldNames
  <2> QED BY <1>1, <2>1, KeepsSame
<1> QED BY <1>1, <1>2, <1>3 DEF Grown, Unmoved

LEMMA GrownCycle == ASSUME TypeInv, cycleCounters, ~plan'.err PROVE Grown("cycle")
<1>1. PICK o \in CounterOutcomes, r \in Results(conf) :
           /\ At("cycle") /\ kept' = res /\ Ends(r, o)
           /\ Same(r, res, {"skipped"}) /\ res.skipped \subseteq r.skipped
  BY CycleStep
<1>2. plan' = StepDone(plan) /\ res' = r
  BY <1>1, EndsClean DEF At
<1>3. Keeps(r, res) /\ r.tcp = res.tcp /\ r.cycles = res.cycles
  <2>1. Same(r, res, {"link", "initial", "final", "skipped", "incomplete", "cycles", "cable"}) /\ r.cycles = res.cycles
    BY <1>1 DEF Same, FieldNames
  <2> QED BY <1>1, <2>1, KeepsSame
<1> QED BY <1>1, <1>2, <1>3 DEF Grown

LEMMA GrownTCP ==
  ASSUME TypeInv, NEW dir \in Side, NEW outcomes \in SUBSET Outcomes, TCPPhase(dir, outcomes), Unmoved,
         NEW name \in {"tcpF", "tcpR"}, At(name), ~plan'.err
  PROVE  Grown(name)
<1>1. PICK o \in outcomes, n \in DOMAIN Trials, r \in Results(conf) :
           /\ Blame({n}) /\ Ends(r, o) /\ spent' \in 0..MaxAnomalies /\ (o = "clean" \/ n = "clean")
           /\ SameButLog(r, res, "tcp") /\ res.skipped \subseteq r.skipped
           /\ o # "partial" => r.incomplete = res.incomplete
           /\ o \in {"clean", "stopFailed"} => r.tcp = Append(res.tcp, Taken(dir, Trials[n]))
           /\ o = "partial" => r.tcp = Append(res.tcp, Taken(dir, PartialTrial))
           /\ o \in Refusals \cup {"failed"} => r.tcp = res.tcp
  BY TCPStep
<1>2. plan' = StepDone(plan) /\ res' = r
  BY <1>1, EndsClean DEF At
<1>3. res.tcp \in Seq(Entry(TCPM(conf)))
  BY ResType DEF Results
<1>4. \A d : Has(res.tcp, d) => Has(r.tcp, d)
  <2>1. \A m, d : Has(res.tcp, d) => Has(Append(res.tcp, Taken(dir, m)), d)
    BY <1>3, Appended
  <2>2. \/ r.tcp = res.tcp \/ r.tcp = Append(res.tcp, Taken(dir, PartialTrial))
        \/ r.tcp = Append(res.tcp, Taken(dir, Trials[n]))
    BY <1>1 DEF Outcomes, Errors, Refusals
  <2> QED BY <2>1, <2>2
<1>5. Same(r, res, {"tcp", "skipped", "incomplete", "udpRateAssumed"}) /\ r.cycles = res.cycles
  BY <1>1 DEF Same, SameButLog, FieldNames
<1>6. Keeps(r, res)
  BY <1>1, <1>4, <1>5, KeepsFrom DEF Logs
<1> QED BY <1>2, <1>5, <1>6 DEF Grown, Unmoved

LEMMA GrownBidir == ASSUME TypeInv, stepBidir, ~plan'.err PROVE Grown("bidir")
<1>1. PICK o \in Outcomes, n \in {"clean", "hot"}, r \in Results(conf) :
           /\ At("bidir") /\ Unmoved /\ Ends(r, o)
           /\ Same(r, res, {"bidir", "skipped"}) /\ res.skipped \subseteq r.skipped
           /\ r.bidir = res.bidir \/ \E k \in {0, Trials[n].host} : r.bidir = [host |-> k, remote |-> k]
           /\ o \notin Errors =>
                r.bidir # Absent \/ \E x \in r.skipped : x.name = "bidirectional"
  BY BidirStep
<1>2. plan' = StepDone(plan) /\ res' = r /\ o \notin Errors
  BY <1>1, EndsClean DEF At
<1>3. BidirCovered(r)
  BY <1>1, <1>2 DEF BidirCovered, Left
<1>4. res.bidir # Absent => r.bidir # Absent
  <2>1. r.bidir \in Load \cup {Absent}
    BY DEF Results
  <2>3. n \in {"clean", "hot"} => Trials[n].host \in Nat
    BY DEF Trials, Trial
  <2>4. ASSUME NEW k \in Nat PROVE [host |-> k, remote |-> k] # Absent
    BY AbsentAssumption DEF Loads
  <2> QED BY <1>1, <2>3, <2>4
<1>5. Keeps(r, res) /\ r.tcp = res.tcp /\ r.cycles = res.cycles
  BY <1>1, <1>4 DEF Keeps, Same, FieldNames, Logs
<1> QED BY <1>1, <1>2, <1>3, <1>5 DEF Grown, Unmoved

LEMMA AppendedTwice ==
  ASSUME NEW S, NEW s \in Seq(S), NEW m1, NEW m2
  PROVE  /\ \A d : Has(s, d) => Has(Append(Append(s, Taken("PC1", m1)), Taken("PC2", m2)), d)
         /\ \A d \in Dir : Has(Append(Append(s, Taken("PC1", m1)), Taken("PC2", m2)), d)
<1> DEFINE one == Append(s, Taken("PC1", m1))
           T == S \cup {Taken("PC1", m1)}
           two == Append(one, Taken("PC2", m2))
<1>1. (\A d : Has(s, d) => Has(one, d)) /\ Has(one, "PC1") /\ one \in Seq(T)
  BY Appended
<1> HIDE DEF one, T
<1>2. (\A d : Has(one, d) => Has(two, d)) /\ Has(two, "PC2")
  BY <1>1, Appended
<1>3. \A d \in Dir : d = "PC1" \/ d = "PC2"
  BY DEF Dir, Side
<1> HIDE DEF two
<1>4. (\A d : Has(s, d) => Has(two, d)) /\ \A d \in Dir : Has(two, d)
  BY <1>1, <1>2, <1>3
<1> QED BY <1>4 DEF one, two

LEMMA PingGrows ==
  ASSUME TypeInv, NEW field \in {"ping", "fullSizePing"}, NEW r, NEW m1, NEW m2, NEW o,
         LET one == Append(res[field], Taken("PC1", m1))
         IN r[field] = IF o = "clean" THEN Append(one, Taken("PC2", m2)) ELSE one
  PROVE  /\ \A d : Has(res[field], d) => Has(r[field], d)
         /\ o = "clean" => \A d \in Dir : Has(r[field], d)
<1>1. res[field] \in Seq(Entry(PingM))
  BY ResType DEF Results
<1> DEFINE one == Append(res[field], Taken("PC1", m1))  two == Append(one, Taken("PC2", m2))
<1>2. (\A d : Has(res[field], d) => Has(one, d)) /\ (\A d : Has(res[field], d) => Has(two, d))
      /\ \A d \in Dir : Has(two, d)
  BY <1>1, Appended, AppendedTwice
<1>3. r[field] = IF o = "clean" THEN two ELSE one
  OBVIOUS
<1> HIDE DEF one, two
<1> QED BY <1>2, <1>3

LEMMA PingKeeps ==
  ASSUME NEW field \in {"ping", "fullSizePing"}, NEW test, NEW q, NEW r,
         NEW o, o \notin Errors, o \in {"clean", "unavailable", "failed"},
         Same(r, q, {field, "skipped"}), q.skipped \subseteq r.skipped,
         \A d : Has(q[field], d) => Has(r[field], d), o = "clean" => \A d \in Dir : Has(r[field], d),
         o = "unavailable" => \E x \in r.skipped : x.name = test
  PROVE  Keeps(r, q) /\ Covered(r, field, test) /\ r.tcp = q.tcp /\ r.cycles = q.cycles
<1>4. Covered(r, field, test)
  BY DEF Covered, Left, Errors
<1>6. Same(r, q, {field, "skipped", "incomplete", "udpRateAssumed"}) /\ r.tcp = q.tcp /\ r.cycles = q.cycles
  BY DEF Same, FieldNames
<1>7. Keeps(r, q)
  BY <1>6, KeepsFrom DEF Logs
<1> QED BY <1>4, <1>6, <1>7

LEMMA LocalFailed == ASSUME TypeInv, plan.phase = "base", LocalFails PROVE plan'.err
<1>1. Ends(res, "failed") /\ res \in Results(conf)
  BY ResType DEF LocalFails
<1> QED BY <1>1, EndsShape DEF Errors

LEMMA GrownPing == ASSUME TypeInv, stepPing, ~plan'.err PROVE Grown("ping")
<1>0. At("ping") /\ Unmoved /\ plan.phase = "base"
  BY DEF stepPing, At
<1> DEFINE N == {"clean", "trickle", "lossy", "unsteady"}
<1>1. PingBoth("ping", "ping", N)
  BY <1>0, LocalFailed DEF stepPing
<1>2. N \in SUBSET DOMAIN Pings
  BY DEF Pings
<1> HIDE DEF N
<1>3. PICK n1, n2 \in May(N), o \in {"clean", "unavailable", "failed"}, r \in Results(conf) :
           /\ Blame({n1, n2}) /\ Ends(r, o) /\ spent' \in 0..MaxAnomalies
           /\ Same(r, res, {"ping", "skipped"}) /\ res.skipped \subseteq r.skipped
           /\ LET one == Append(res["ping"], Taken("PC1", Pings[n1]))
              IN r["ping"] = IF o = "clean" THEN Append(one, Taken("PC2", Pings[n2])) ELSE one
           /\ o = "unavailable" => \E x \in r.skipped : x.name = "ping"
  BY <1>1, <1>2, PingStep
<1>4. o \notin Errors /\ plan' = StepDone(plan) /\ res' = r
  BY <1>0, <1>3, EndsClean
<1>7. (\A d : Has(res["ping"], d) => Has(r["ping"], d)) /\ (o = "clean" => \A d \in Dir : Has(r["ping"], d))
  BY <1>3, PingGrows
<1>6. Keeps(r, res) /\ Covered(r, "ping", "ping") /\ r.tcp = res.tcp /\ r.cycles = res.cycles
  BY <1>3, <1>4, <1>7, PingKeeps
<1> QED BY <1>0, <1>4, <1>6 DEF Grown, Unmoved

LEMMA GrownFull == ASSUME TypeInv, stepFullSizePing, ~plan'.err PROVE Grown("full")
<1>0. At("full") /\ Unmoved /\ plan.phase = "base"
  BY DEF stepFullSizePing, At
<1> DEFINE N == {"clean", "lossy", "fragmented"}
<1>1. PingBoth("fullSizePing", "full_size_ping", N)
  BY <1>0, LocalFailed DEF stepFullSizePing
<1>2. N \in SUBSET DOMAIN Pings
  BY DEF Pings
<1> HIDE DEF N
<1>3. PICK n1, n2 \in May(N), o \in {"clean", "unavailable", "failed"}, r \in Results(conf) :
           /\ Blame({n1, n2}) /\ Ends(r, o) /\ spent' \in 0..MaxAnomalies
           /\ Same(r, res, {"fullSizePing", "skipped"}) /\ res.skipped \subseteq r.skipped
           /\ LET one == Append(res["fullSizePing"], Taken("PC1", Pings[n1]))
              IN r["fullSizePing"] = IF o = "clean" THEN Append(one, Taken("PC2", Pings[n2])) ELSE one
           /\ o = "unavailable" => \E x \in r.skipped : x.name = "full_size_ping"
  BY <1>1, <1>2, PingStep
<1>4. o \notin Errors /\ plan' = StepDone(plan) /\ res' = r
  BY <1>0, <1>3, EndsClean
<1>7. /\ \A d : Has(res["fullSizePing"], d) => Has(r["fullSizePing"], d)
      /\ o = "clean" => \A d \in Dir : Has(r["fullSizePing"], d)
  BY <1>3, PingGrows
<1>6. Keeps(r, res) /\ Covered(r, "fullSizePing", "full_size_ping") /\ r.tcp = res.tcp /\ r.cycles = res.cycles
  BY <1>3, <1>4, <1>7, PingKeeps
<1> QED BY <1>0, <1>4, <1>6 DEF Grown, Unmoved

LEMMA GrownUDP ==
  ASSUME TypeInv, NEW rate \in Nat, stepUDPAtRate(rate), Unmoved, NEW name \in {"udp", "udpReduced"},
         At(name), ~plan'.err
  PROVE  Grown(name)
<1>1. PICK o \in Outcomes, n1, n2 \in DOMAIN UDPRuns(rate), r, q \in Results(conf) :
           /\ UDPBlame({n1, n2}, rate) /\ Ends(r, o) /\ spent' \in 0..MaxAnomalies
           /\ Same(r, res, {"udp", "skipped", "incomplete", "udpRateAssumed"})
           /\ res.skipped \subseteq r.skipped
           /\ q.udp \in {res.udp, Append(res.udp, Taken("PC1", UDPRuns(rate)[n1])),
                         Append(res.udp, Taken("PC1", PartialUDP(rate)))}
           /\ r.udp \in {q.udp, Append(q.udp, Taken("PC2", UDPRuns(rate)[n2])),
                         Append(q.udp, Taken("PC2", PartialUDP(rate)))}
           /\ o \notin Errors =>
                /\ r.incomplete = res.incomplete
                /\ \/ \E x \in r.skipped : x.name = "udp"
                   \/ r.udp = Append(Append(res.udp, Taken("PC1", UDPRuns(rate)[n1])),
                                     Taken("PC2", UDPRuns(rate)[n2]))
  BY UDPStep
<1>2. o \notin Errors /\ plan' = StepDone(plan) /\ res' = r
  BY <1>1, EndsClean DEF At
<1>3. res.udp \in Seq(Entry(UDPM)) /\ q.udp \in Seq(Entry(UDPM))
  BY ResType DEF Results
<1>4. \A d : Has(res.udp, d) => Has(q.udp, d)
  <2>1. \A m, d : Has(res.udp, d) => Has(Append(res.udp, Taken("PC1", m)), d)
    BY <1>3, Appended
  <2> QED BY <1>1, <2>1
<1>5. \A d : Has(q.udp, d) => Has(r.udp, d)
  <2>1. \A m, d : Has(q.udp, d) => Has(Append(q.udp, Taken("PC2", m)), d)
    BY <1>3, Appended
  <2> QED BY <1>1, <2>1
<1>6. Covered(r, "udp", "udp")
  <2>1. \A m1, m2 : \A d \in Dir : Has(Append(Append(res.udp, Taken("PC1", m1)), Taken("PC2", m2)), d)
    BY <1>3, AppendedTwice
  <2>2. (\E x \in r.skipped : x.name = "udp") \/ \A d \in Dir : Has(r.udp, d)
    <3> DEFINE two == Append(Append(res.udp, Taken("PC1", UDPRuns(rate)[n1])), Taken("PC2", UDPRuns(rate)[n2]))
    <3>1. (\E x \in r.skipped : x.name = "udp") \/ r.udp = two
      BY <1>1, <1>2
    <3>2. \A d \in Dir : Has(two, d)
      BY <2>1
    <3> HIDE DEF two
    <3> QED BY <3>1, <3>2
  <2> QED BY <2>2 DEF Covered, Left
<1>7. Keeps(r, res)
  BY <1>1, <1>4, <1>5, KeepsFrom DEF Logs
<1>8. r.tcp = res.tcp /\ r.cycles = res.cycles
  BY <1>1 DEF Same, FieldNames
<1> QED BY <1>2, <1>6, <1>7, <1>8 DEF Grown, Unmoved

\* What lies behind the plan's place in it was covered.
Past(n) == plan.phase # "base" \/ plan.step > n
BidirAt == IF conf.mode = "quick" THEN 7 ELSE 5 + 2 * Repeats
OnceThrough ==
  /\ Past(3) => Covered(res, "ping", "ping")
  /\ Past(4) => Covered(res, "fullSizePing", "full_size_ping")
  /\ Past(BidirAt) => BidirCovered(res)
  /\ Past(BidirAt + 1) => Covered(res, "udp", "udp")
\* A soak without a whole cycle has measured no throughput, one with a whole
\* cycle has covered its tests.
Whole(r) ==
  \/ r.cycles = 0 /\ r.tcp = << >>
  \/ Covered(r, "ping", "ping") /\ Covered(r, "udp", "udp")
InCycles ==
  /\ ~InCycle => Whole(res)
  /\ InCycle => /\ Whole(kept)
                /\ plan.step > 4 => Covered(res, "ping", "ping")
                /\ plan.step > 5 + 2 * Repeats => Covered(res, "udp", "udp")
\* A plan that has not failed has covered what it has passed.
Progress ==
  /\ plan.phase = "salvage" => plan.err
  /\ plan.phase = "base" => ~plan.err
  /\ ~plan.err =>
       /\ conf.mode # "soak" => OnceThrough
       /\ conf.mode = "soak" => InCycles
       /\ conf.cable /\ plan.phase \in {"finish", "rendering", "done"} => res.cable # Absent

LEMMA KeepsWhole ==
  ASSUME NEW q, NEW r, Keeps(q, r), q.cycles = r.cycles, q.tcp = r.tcp, Whole(r) PROVE Whole(q)
<1>1. \A field \in Logs : \A test : Covered(r, field, test) => Covered(q, field, test)
  BY KeepsCovered
<1> QED BY <1>1 DEF Whole, Logs

LEMMA NamedSteps ==
  ASSUME TypeInv, plan.phase = "base"
  PROVE  /\ plan.step \in Nat /\ Len(StepsOf(conf)) \in Nat /\ plan.step \in 1..Len(StepsOf(conf))
         /\ conf.mode # "soak" =>
              /\ plan.step = 3 => At("ping")
              /\ plan.step = 4 => At("full")
              /\ plan.step = BidirAt => At("bidir")
              /\ plan.step = BidirAt + 1 => At("udp")
              /\ BidirAt \in Nat /\ BidirAt > 4 /\ BidirAt + 1 < Len(StepsOf(conf))
         /\ conf.mode = "soak" =>
              /\ plan.step = 4 => At("ping")
              /\ plan.step = 5 + 2 * Repeats => At("udp")
              /\ Len(StepsOf(conf)) = 6 + 2 * Repeats
<1>0. Repeats \in Nat /\ Repeats > 0 /\ conf \in Confs
  BY BoundsAssumption, ResType
<1>1. CASE conf.mode = "quick"
  <2>1. /\ Len(StepsOf(conf)) = 9 /\ plan.step \in 1..9
    BY <1>1, QuickAt
  <2>2. StepsOf(conf)[3] = "ping" /\ StepsOf(conf)[4] = "full" /\ StepsOf(conf)[7] = "bidir" /\ StepsOf(conf)[8] = "udp"
    BY <1>0, <1>1, QuickSteps
  <2> QED BY <1>0, <1>1, <2>1, <2>2 DEF BidirAt, At, StepName
<1>2. CASE conf.mode = "standard"
  <2>1. /\ Len(StepsOf(conf)) = 8 + 2 * Repeats /\ plan.step \in 1..(8 + 2 * Repeats)
    BY <1>2, StandardAt
  <2>2. StepsOf(conf)[3] = "ping" /\ StepsOf(conf)[4] = "full" /\ StepsOf(conf)[5 + 2 * Repeats] = "bidir"
        /\ StepsOf(conf)[6 + 2 * Repeats] = "udp"
    BY <1>0, <1>2, StandardSteps
  <2>3. BidirAt = 5 + 2 * Repeats /\ BidirAt + 1 = 6 + 2 * Repeats
    BY <1>0, <1>2 DEF BidirAt
  <2> QED BY <1>0, <1>2, <2>1, <2>2, <2>3 DEF At, StepName
<1>3. CASE conf.mode = "soak"
  <2>1. /\ Len(StepsOf(conf)) = 6 + 2 * Repeats /\ plan.step \in 1..(6 + 2 * Repeats)
    BY <1>3, SoakAt
  <2>2. StepsOf(conf)[4] = "ping" /\ StepsOf(conf)[5 + 2 * Repeats] = "udp"
    BY <1>0, <1>3, SoakSteps
  <2> QED BY <1>0, <1>3, <2>1, <2>2 DEF At, StepName
<1> QED BY <1>1, <1>2, <1>3, ModeCases

\* A step forward passes at most the step the plan was at.
LEMMA StepsPast ==
  ASSUME TypeInv, plan.phase = "base", plan' = StepDone(plan), NEW n \in Nat, n < Len(StepsOf(conf))
  PROVE  Past(n)' => Past(n) \/ plan.step = n
<1>1. plan.step \in 1..Len(StepsOf(conf)) /\ Len(StepsOf(conf)) \in Nat
  BY NamedSteps
<1>2. CASE plan.step < Len(StepsOf(conf))
  BY <1>1, <1>2, PlanMoves DEF Past
<1>3. CASE plan.step = Len(StepsOf(conf))
  BY <1>1, <1>3 DEF Past
<1> QED BY <1>1, <1>2, <1>3

LEMMA OnceGrows ==
  ASSUME TypeInv, conf.mode # "soak", conf' = conf, OnceThrough, NEW name, Grown(name)
  PROVE  OnceThrough'
<1>1. plan.phase = "base" /\ plan' = StepDone(plan) /\ Keeps(res', res) /\ At(name)
  BY DEF Grown, At
<1>2. BidirAt' = BidirAt
  BY DEF BidirAt
<1>3. /\ plan.step = 3 => At("ping")
      /\ plan.step = 4 => At("full")
      /\ plan.step = BidirAt => At("bidir")
      /\ plan.step = BidirAt + 1 => At("udp")
      /\ BidirAt \in Nat /\ BidirAt > 4 /\ BidirAt + 1 < Len(StepsOf(conf)) /\ Len(StepsOf(conf)) \in Nat
  BY <1>1, NamedSteps
<1>4. \A n \in Nat : n < Len(StepsOf(conf)) => (Past(n)' => Past(n) \/ plan.step = n)
  BY <1>1, StepsPast
<1>5. \A x, y : At(x) /\ At(y) => x = y
  BY DEF At
<1>6. /\ Covered(res, "ping", "ping") => Covered(res', "ping", "ping")
      /\ Covered(res, "fullSizePing", "full_size_ping") => Covered(res', "fullSizePing", "full_size_ping")
      /\ Covered(res, "udp", "udp") => Covered(res', "udp", "udp")
      /\ BidirCovered(res) => BidirCovered(res')
  BY <1>1, KeepsCovered DEF Logs
<1>7. Past(3)' => Covered(res', "ping", "ping")
  <2>1. Past(3)' => Past(3) \/ At("ping")
    BY <1>3, <1>4
  <2> QED BY <1>1, <1>5, <1>6, <2>1 DEF OnceThrough, Grown
<1>8. Past(4)' => Covered(res', "fullSizePing", "full_size_ping")
  <2>1. Past(4)' => Past(4) \/ At("full")
    BY <1>3, <1>4
  <2> QED BY <1>1, <1>5, <1>6, <2>1 DEF OnceThrough, Grown
<1>9. Past(BidirAt)' => BidirCovered(res')
  <2>1. Past(BidirAt)' => Past(BidirAt) \/ At("bidir")
    BY <1>2, <1>3, <1>4 DEF Past
  <2> QED BY <1>1, <1>5, <1>6, <2>1 DEF OnceThrough, Grown
<1>10. Past(BidirAt + 1)' => Covered(res', "udp", "udp")
  <2>1. Past(BidirAt + 1)' => Past(BidirAt + 1) \/ At("udp")
    BY <1>2, <1>3, <1>4 DEF Past
  <2> QED BY <1>1, <1>5, <1>6, <2>1 DEF OnceThrough, Grown
<1>11. /\ Covered(res, "ping", "ping")' <=> Covered(res', "ping", "ping")
       /\ Covered(res, "fullSizePing", "full_size_ping")' <=> Covered(res', "fullSizePing", "full_size_ping")
       /\ Covered(res, "udp", "udp")' <=> Covered(res', "udp", "udp")
       /\ BidirCovered(res)' <=> BidirCovered(res')
  OBVIOUS
<1> QED BY <1>7, <1>8, <1>9, <1>10, <1>11 DEF OnceThrough

\* A whole cycle joins the run, or the running one is dropped.
Committed ==
  /\ At("cycleEnd") /\ InCycle /\ Keeps(res', res) /\ res'.cycles = res.cycles + 1 /\ res'.cycles # 0
  /\ (plan'.phase = "base" /\ plan'.step = CycleStart) \/ plan'.phase = "boundary"
Dropped == InCycle /\ res' = kept /\ plan'.phase = "boundary"

LEMMA CommitGrows == ASSUME TypeInv, commitCycle, ~plan'.err PROVE Committed
<1>1. PICK o \in CounterOutcomes, r \in Results(conf) :
           /\ At("cycleEnd") /\ UNCHANGED <<conf, link, hw, mon, window, report, faults>>
           /\ spent' \in 0..MaxAnomalies
           /\ Same(r, res, {"skipped"}) /\ res.skipped \subseteq r.skipped
           /\ \/ o \in Errors /\ Ends(r, o) /\ kept' = kept
              \/ /\ o \notin Errors /\ kept' = Absent
                 /\ res' = [r EXCEPT !.cycles = @ + 1, !.incomplete = kept.incomplete]
                 /\ \/ res.cycles + 1 < MaxCycles /\ plan' = [plan EXCEPT !.step = CycleStart]
                    \/ plan' = [plan EXCEPT !.phase = "boundary"]
  BY CommitStep
<1>2. plan \in Plans(conf) /\ res.cycles \in Nat /\ plan.phase = "base"
  BY <1>1, ResType, BoundsAssumption DEF Results, At
<1>3. InCycle
  BY <1>1, CommitPlace
<1>4. ~(o \in Errors /\ Ends(r, o))
  BY <1>2, EndsShape
<1>5. Same(res', r, {"cycles", "incomplete"}) /\ res'.cycles = res.cycles + 1
  BY <1>1, <1>3, <1>4, CommitFields
<1>6. Same(res', res, {"link", "initial", "final", "skipped", "incomplete", "cycles", "cable"})
      /\ res.skipped \subseteq res'.skipped
  BY <1>1, <1>5 DEF Same, FieldNames
<1>7. Keeps(res', res)
  BY <1>6, KeepsSame
<1>8. (plan'.phase = "base" /\ plan'.step = CycleStart) \/ plan'.phase = "boundary"
  BY <1>1, <1>2, <1>4 DEF Plans
<1> QED BY <1>1, <1>2, <1>3, <1>5, <1>7, <1>8 DEF Committed

\* A step of the base phase covers its test, ends the cycle or drops it.
LEMMA BaseGrows ==
  ASSUME TypeInv, BaseStep, ~plan'.err
  PROVE  \/ \E name \in {"link", "initial", "ping", "full", "tcpF", "tcpR", "bidir", "udp", "udpReduced",
                         "final", "cycle"} : Grown(name)
         \/ Committed \/ Dropped
<1>1. CASE stepLink
  BY <1>1, GrownLink
<1>2. CASE stepInitialCounters
  BY <1>2, GrownCounters DEF stepInitialCounters
<1>3. CASE stepFinalCounters
  BY <1>3, GrownCounters DEF stepFinalCounters
<1>4. CASE stepPing
  BY <1>4, GrownPing
<1>5. CASE stepFullSizePing
  BY <1>5, GrownFull
<1>6. CASE stepTCPForward
  <2>1. TCPPhase("PC1", Outcomes) /\ Unmoved /\ At("tcpF") /\ "PC1" \in Side /\ Outcomes \in SUBSET Outcomes
    BY <1>6 DEF stepTCPForward, Side
  <2> QED BY <2>1, GrownTCP
<1>7. CASE stepTCPReverse
  <2>1. TCPPhase("PC2", Outcomes \ {"stopFailed"}) /\ Unmoved /\ At("tcpR") /\ "PC2" \in Side
        /\ Outcomes \ {"stopFailed"} \in SUBSET Outcomes
    BY <1>7 DEF stepTCPReverse, Side
  <2> QED BY <2>1, GrownTCP
<1>8. CASE stepBidir
  BY <1>8, GrownBidir
<1>9. CASE stepUDP
  <2>1. stepUDPAtRate(udpRate(res)) /\ Unmoved /\ At("udp") /\ udpRate(res) \in Nat
    BY <1>9, RateType DEF stepUDP
  <2> QED BY <2>1, GrownUDP
<1>10. CASE stepReducedUDP
  <2>1. stepUDPAtRate(reducedRate(udpRate(res))) /\ Unmoved /\ At("udpReduced") /\ reducedRate(udpRate(res)) \in Nat
    BY <1>10, RateType DEF stepReducedUDP
  <2> QED BY <2>1, GrownUDP
<1>11. CASE cycleCounters
  BY <1>11, GrownCycle
<1>12. CASE commitCycle
  BY <1>12, CommitGrows
<1>13. CASE BudgetExpires
  BY <1>13, ResType DEF BudgetExpires, Dropped, Plans
<1> QED BY <1>1, <1>2, <1>3, <1>4, <1>5, <1>6, <1>7, <1>8, <1>9, <1>10, <1>11, <1>12, <1>13 DEF BaseStep

\* Where a step of the base phase leaves the plan.
LEMMA BasePlan ==
  ASSUME BaseStep
  PROVE  \/ plan' = Failing(plan) \/ plan' = StepDone(plan)
         \/ plan' = [plan EXCEPT !.step = CycleStart] \/ plan' = [plan EXCEPT !.phase = "boundary"]
<1>1. \A r, o : Ends(r, o) => plan' = Failing(plan) \/ plan' = StepDone(plan)
  BY DEF Ends
<1>2. CASE stepLink \/ stepInitialCounters \/ stepFinalCounters
  BY <1>1, <1>2 DEF stepLink, stepInitialCounters, stepFinalCounters, stepCounters
<1>3. CASE stepPing \/ stepFullSizePing
  BY <1>1, <1>3 DEF stepPing, stepFullSizePing, PingBoth, LocalFails
<1>4. CASE stepTCPForward \/ stepTCPReverse
  BY <1>1, <1>4 DEF stepTCPForward, stepTCPReverse, TCPPhase
<1>5. CASE stepBidir
  <2>1. CASE bidirNative
    <3>1. \E r, o : Ends(r, o)
      BY <2>1 DEF bidirNative
    <3> QED BY <1>1, <3>1
  <2>2. ASSUME NEW caps, bidirFallback(caps) PROVE \E r, o : Ends(r, o)
    BY <2>2 DEF bidirFallback
  <2>3. CASE \E caps : bidirFallback(caps)
    BY <1>1, <2>2, <2>3
  <2>4. CASE Ends(res, "failed")
    BY <1>1, <2>4
  <2> QED BY <1>5, <2>1, <2>3, <2>4 DEF stepBidir
<1>6. CASE stepUDP \/ stepReducedUDP
  BY <1>1, <1>6 DEF stepUDP, stepReducedUDP, stepUDPAtRate
<1>7. CASE cycleCounters \/ commitCycle
  BY <1>1, <1>7 DEF cycleCounters, commitCycle
<1>8. CASE BudgetExpires
  BY <1>8 DEF BudgetExpires
<1> QED BY <1>2, <1>3, <1>4, <1>5, <1>6, <1>7, <1>8 DEF BaseStep

LEMMA BaseErr ==
  ASSUME TypeInv, BaseStep
  PROVE  \/ plan'.err = plan.err /\ plan'.phase # "salvage" /\ (plan'.phase = "finish" => ~conf.cable)
         \/ plan'.err /\ plan'.phase \in {"boundary", "salvage"}
<1>1. plan \in Plans(conf) /\ plan.phase = "base"
  BY ResType, BaseFrame
<1>2. plan' = Failing(plan) => plan'.err /\ plan'.phase \in {"boundary", "salvage"}
  BY <1>1, PlanMoves
<1>3. plan' = StepDone(plan) => plan'.err = plan.err /\ plan'.phase # "salvage" /\ (plan'.phase = "finish" => ~conf.cable)
  <2>1. AfterBase(plan).phase = IF conf.cable THEN "cable" ELSE "finish"
    BY <1>1 DEF AfterBase, Plans
  <2>2. StepDone(plan) = AfterBase(plan) \/ StepDone(plan).phase = "base"
    BY <1>1 DEF StepDone, Plans
  <2> QED BY <1>1, <2>1, <2>2, PlanMoves
<1>4. plan' = [plan EXCEPT !.step = CycleStart] \/ plan' = [plan EXCEPT !.phase = "boundary"] =>
        plan'.err = plan.err /\ plan'.phase \in {"base", "boundary"}
  BY <1>1 DEF Plans
<1> QED BY <1>2, <1>3, <1>4, BasePlan

LEMMA CyclesGrow ==
  ASSUME TypeInv, conf.mode = "soak", conf' = conf, InCycles, NEW name, Grown(name)
  PROVE  InCycles'
<1>0. Repeats \in Nat /\ Repeats > 0
  BY BoundsAssumption
<1>1. plan.phase = "base" /\ plan' = StepDone(plan) /\ Keeps(res', res) /\ At(name) /\ res'.cycles = res.cycles
  BY DEF Grown, At
<1>2. /\ plan.step = 4 => At("ping")
      /\ plan.step = 5 + 2 * Repeats => At("udp")
      /\ Len(StepsOf(conf)) = 6 + 2 * Repeats /\ plan.step \in 1..(6 + 2 * Repeats)
  BY <1>1, NamedSteps
<1>3. \A x, y : At(x) /\ At(y) => x = y
  BY DEF At
<1>4. /\ Covered(res, "ping", "ping") => Covered(res', "ping", "ping")
      /\ Covered(res, "udp", "udp") => Covered(res', "udp", "udp")
  BY <1>1, KeepsCovered DEF Logs
<1>5. CASE plan.step < 6 + 2 * Repeats
  <2>1. plan'.phase = "base" /\ plan'.step = plan.step + 1
    BY <1>1, <1>2, <1>5, PlanMoves
  <2>2. CASE plan.step < CycleStart
    <3>1. ~InCycle /\ ~(InCycle')
      BY <1>2, <2>1, <2>2 DEF InCycle, CycleStart
    <3>2. ~At("tcpF") /\ ~At("tcpR")
      BY <1>0, <1>2, <2>2, SoakAt DEF CycleStart
    <3>3. res'.tcp = res.tcp
      BY <1>1, <3>2 DEF Grown
    <3>4. Whole(res')
      BY <1>1, <3>1, <3>3, KeepsWhole DEF InCycles
    <3> QED BY <3>1, <3>4 DEF InCycles
  <2>3. CASE plan.step = CycleStart
    <3>1. ~InCycle /\ plan'.step = 4
      BY <1>2, <2>1, <2>3 DEF InCycle, CycleStart
    <3>2. At("cycle")
      BY <1>1, <2>3, ResType, SoakSteps DEF At, StepName, CycleStart
    <3>3. kept' = res
      BY <1>1, <1>3, <3>2 DEF Grown
    <3>4. Whole(res)
      BY <3>1 DEF InCycles
    <3>5. Whole(kept')
      BY <3>3, <3>4
    <3>6. InCycle'
      BY <2>1, <3>1 DEF InCycle, CycleStart
    <3>7. ~(plan'.step > 4) /\ ~(plan'.step > 5 + 2 * Repeats)
      BY <1>0, <3>1
    <3> QED BY <3>5, <3>6, <3>7 DEF InCycles
  <2>4. CASE plan.step > CycleStart
    <3>1. InCycle /\ InCycle'
      BY <1>1, <1>2, <2>1, <2>4 DEF InCycle, CycleStart
    <3>2. ~At("cycle")
      BY <2>4, SoakAt DEF CycleStart
    <3>3. kept' = kept
      BY <1>1, <3>2 DEF Grown
    <3>4. Whole(kept')
      BY <3>1, <3>3 DEF InCycles
    <3>5. plan'.step > 4 => Covered(res', "ping", "ping")
      <4>1. CASE plan.step > 4
        BY <1>4, <3>1, <4>1 DEF InCycles
      <4>2. CASE plan.step = 4
        BY <1>1, <1>2, <1>3, <4>2 DEF Grown
      <4> QED BY <1>2, <2>1, <4>1, <4>2
    <3>6. plan'.step > 5 + 2 * Repeats => Covered(res', "udp", "udp")
      <4>1. CASE plan.step > 5 + 2 * Repeats
        BY <1>4, <3>1, <4>1 DEF InCycles
      <4>2. CASE plan.step = 5 + 2 * Repeats
        BY <1>1, <1>2, <1>3, <4>2 DEF Grown
      <4> QED BY <1>0, <1>2, <2>1, <4>1, <4>2
    <3>7. /\ Covered(res, "ping", "ping")' <=> Covered(res', "ping", "ping")
          /\ Covered(res, "udp", "udp")' <=> Covered(res', "udp", "udp")
          /\ Whole(kept)' <=> Whole(kept')
      OBVIOUS
    <3> QED BY <3>1, <3>4, <3>5, <3>6, <3>7 DEF InCycles
  <2> QED BY <1>2, <2>2, <2>3, <2>4 DEF CycleStart
<1>6. CASE plan.step = 6 + 2 * Repeats
  <2>1. At("cycleEnd")
    BY <1>1, <1>6, ResType, SoakSteps DEF At, StepName
  <2>2. name = "cycleEnd"
    BY <1>1, <1>3, <2>1
  <2>3. plan' = AfterBase(plan) /\ ~(InCycle')
    BY <1>1, <1>2, <1>6, PlanMoves DEF InCycle
  <2>4. InCycle
    BY <2>1, CommitPlace
  <2>5. Covered(res, "ping", "ping") /\ Covered(res, "udp", "udp")
    BY <1>0, <1>6, <2>4 DEF InCycles
  <2>6. Whole(res')
    BY <1>4, <2>5 DEF Whole
  <2> QED BY <2>3, <2>6 DEF InCycles
<1> QED BY <1>2, <1>5, <1>6

LEMMA CyclesEnd ==
  ASSUME TypeInv, conf.mode = "soak", conf' = conf, InCycles, Committed \/ Dropped
  PROVE  InCycles'
<1>1. CASE Committed
  <2>1. At("cycleEnd") /\ InCycle /\ Keeps(res', res) /\ ~(InCycle')
    <3>1. At("cycleEnd") /\ InCycle /\ Keeps(res', res)
      BY <1>1 DEF Committed
    <3>2. (plan'.phase = "base" /\ plan'.step = CycleStart) \/ plan'.phase = "boundary"
      BY <1>1 DEF Committed
    <3>3. ~(InCycle')
      BY <3>2 DEF InCycle, CycleStart
    <3> QED BY <3>1, <3>3
  <2>2. plan.step = 6 + 2 * Repeats /\ Repeats \in Nat /\ Repeats > 0
    BY <2>1, SoakAt, BoundsAssumption
  <2>3. Covered(res, "ping", "ping") /\ Covered(res, "udp", "udp")
    BY <2>1, <2>2 DEF InCycles
  <2>4. Covered(res', "ping", "ping") /\ Covered(res', "udp", "udp")
    BY <2>1, <2>3, KeepsCovered DEF Logs
  <2>5. Whole(res')
    BY <2>4 DEF Whole
  <2> QED BY <2>1, <2>5 DEF InCycles
<1>2. CASE Dropped
  <2>1. InCycle /\ res' = kept /\ ~(InCycle')
    BY <1>2 DEF Dropped, InCycle
  <2>2. Whole(res')
    BY <2>1 DEF InCycles
  <2> QED BY <2>1, <2>2 DEF InCycles
<1> QED BY <1>1, <1>2

\* After the base phase the results of the tests stay as they are.
LEMMA LaterKeeps ==
  ASSUME TypeInv, Progress, conf' = conf, plan.phase # "base", plan'.phase # "base",
         Same(res', res, {"final", "incomplete", "cable"}), ~plan.err
  PROVE  (conf.mode # "soak" => OnceThrough') /\ (conf.mode = "soak" => InCycles')
<1>1. Same(res', res, {"link", "initial", "final", "skipped", "incomplete", "cycles", "cable"})
      /\ res.skipped \subseteq res'.skipped /\ res'.cycles = res.cycles
  BY DEF Same, FieldNames
<1>2. Keeps(res', res) /\ res'.tcp = res.tcp
  BY <1>1, KeepsSame
<1>3. CASE conf.mode # "soak"
  <2>1. \A n : Past(n)
    BY DEF Past
  <2>2. Covered(res, "ping", "ping") /\ Covered(res, "fullSizePing", "full_size_ping")
        /\ Covered(res, "udp", "udp") /\ BidirCovered(res)
    BY <1>3, <2>1 DEF Progress, OnceThrough
  <2>3. Covered(res', "ping", "ping") /\ Covered(res', "fullSizePing", "full_size_ping")
        /\ Covered(res', "udp", "udp") /\ BidirCovered(res')
    BY <1>2, <2>2, KeepsCovered DEF Logs
  <2> QED BY <1>3, <2>3 DEF OnceThrough
<1>4. CASE conf.mode = "soak"
  <2>1. ~InCycle /\ ~(InCycle')
    BY DEF InCycle
  <2>2. Whole(res)
    BY <1>4, <2>1 DEF Progress, InCycles
  <2>3. Whole(res')
    BY <1>1, <1>2, <2>2, KeepsWhole
  <2> QED BY <1>4, <2>1, <2>3 DEF InCycles
<1> QED BY <1>3, <1>4

LEMMA ProgressBase == ASSUME TypeInv, Progress, BaseStep PROVE Progress'
<1>1. conf' = conf /\ plan.phase = "base" /\ plan'.phase \in AfterPhases /\ ~plan.err
  BY BaseFrame DEF Progress
<1>2. CASE plan'.err
  BY <1>1, <1>2, BaseErr DEF Progress
<1>3. CASE ~plan'.err
  <2>1. plan'.phase # "salvage" /\ (plan'.phase = "finish" => ~conf.cable)
    BY <1>3, BaseErr
  <2>2. \/ \E name \in {"link", "initial", "ping", "full", "tcpF", "tcpR", "bidir", "udp", "udpReduced",
                         "final", "cycle"} : Grown(name)
        \/ Committed \/ Dropped
    BY <1>3, BaseGrows
  <2>3. ASSUME conf.mode # "soak" PROVE OnceThrough'
    <3>1. ~InCycle
      BY <2>3 DEF InCycle
    <3>2. PICK name : Grown(name)
      BY <2>2, <3>1 DEF Committed, Dropped
    <3>3. OnceThrough
      BY <1>1, <2>3 DEF Progress
    <3> QED BY <1>1, <2>3, <3>2, <3>3, OnceGrows
  <2>4. ASSUME conf.mode = "soak" PROVE InCycles'
    <3>1. InCycles
      BY <1>1, <2>4 DEF Progress
    <3>2. CASE Committed \/ Dropped
      BY <1>1, <2>4, <3>1, <3>2, CyclesEnd
    <3>3. CASE \E name : Grown(name)
      BY <1>1, <2>4, <3>1, <3>3, CyclesGrow
    <3> QED BY <2>2, <3>2, <3>3
  <2> QED BY <1>1, <1>3, <2>1, <2>3, <2>4 DEF Progress, AfterPhases
<1> QED BY <1>2, <1>3

\* A later step that ends a plan without an error leaves the diagnostics' result.
LEMMA ProgressLater ==
  ASSUME TypeInv, Progress, conf' = conf, plan.phase # "base", plan'.phase \notin {"base", "salvage"},
         ~plan'.err => ~plan.err, Same(res', res, {"final", "incomplete", "cable"}),
         ~plan'.err /\ conf.cable /\ plan'.phase \in {"finish", "rendering", "done"} => res'.cable # Absent
  PROVE  Progress'
<1>1. ~plan'.err => (conf.mode # "soak" => OnceThrough') /\ (conf.mode = "soak" => InCycles')
  BY LaterKeeps
<1> QED BY <1>1 DEF Progress

LEMMA SameAll == ASSUME NEW r, NEW S PROVE Same(r, r, S)
BY DEF Same

LEMMA ProgressCable == ASSUME TypeInv, Progress, CableStep PROVE Progress'
<1>0. plan \in Plans(conf) /\ res \in Results(conf) /\ \A r, q : Same(r, q, {"cable"}) => Same(r, q, {"final", "incomplete", "cable"})
  BY ResType DEF Same
<1>1. CASE CableWindowStart
  <2>1. conf' = conf /\ plan.phase = "cable"
    BY <1>1 DEF CableWindowStart
  <2>2. CASE plan' = [plan EXCEPT !.phase = "begin"] /\ res' = res
    BY <1>0, <2>1, <2>2, SameAll, ProgressLater DEF Plans
  <2>3. CASE plan' = [plan EXCEPT !.phase = "finish"] /\ res' = [res EXCEPT !.cable = CableResult(FALSE, {}, FALSE)]
    <3>1. CableResult(FALSE, {}, FALSE) \in CableResults
      BY CableTyped
    <3>2. res' = With(res, "cable", CableResult(FALSE, {}, FALSE))
      BY <1>0, <2>3 DEF With
    <3>3. res'.cable # Absent /\ Same(res', res, {"cable"})
      BY <3>1, <3>2, CablePut
    <3>4. plan'.phase = "finish" /\ plan'.err = plan.err
      BY <1>0, <2>3 DEF Plans
    <3>5. Same(res', res, {"final", "incomplete", "cable"})
      BY <1>0, <3>3
    <3> QED BY <2>1, <3>3, <3>4, <3>5, ProgressLater
  <2> QED BY <1>1, <2>2, <2>3 DEF CableWindowStart
<1>2. CASE BeginWindow \/ TesterTakesLinkDown
  <2>1. conf' = conf /\ res' = res /\ plan.phase \in {"begin", "testing"} /\ plan'.phase \in {"testing", "measuring"}
        /\ plan'.err = plan.err
    BY <1>0, <1>2 DEF BeginWindow, TesterTakesLinkDown, Plans
  <2> QED BY <2>1, SameAll, ProgressLater
<1>3. CASE CableTesterRun
  <2>1. conf' = conf /\ plan.phase \in {"testing", "measuring"} /\ plan'.phase \in {"end", "close"}
        /\ Same(res', res, {"cable"}) /\ (plan'.err = plan.err \/ plan'.err)
    BY <1>3, TesterStep
  <2> QED BY <1>0, <2>1, ProgressLater
<1>4. CASE CableWindowEnd
  <2>1. conf' = conf /\ plan.phase = "end" /\ plan'.phase = "close" /\ Same(res', res, {"cable"}) /\ plan'.err = plan.err
    BY <1>4, WindowEndStep
  <2> QED BY <1>0, <2>1, ProgressLater
<1>5. CASE EndWindow
  <2>1. conf' = conf /\ plan.phase = "close" /\ plan'.phase = "finish" /\ Same(res', res, {"cable"}) /\ plan'.err = plan.err
        /\ res'.cable # Absent
    BY <1>5, EndWindowStep
  <2> QED BY <1>0, <2>1, ProgressLater
<1> QED BY <1>1, <1>2, <1>3, <1>4, <1>5 DEF CableStep

LEMMA ProgressNext == ASSUME TypeInv, RenderInv, Progress, [Next]_vars PROVE Progress'
<1>0. plan \in Plans(conf)
  BY ResType
<1>1. CASE World \/ UNCHANGED vars
  <2>1. UNCHANGED <<conf, plan, res, kept>>
    BY <1>1, WorldRendering
  <2>2. (Progress' <=> Progress)
    BY <2>1 DEF Progress, OnceThrough, InCycles, Past, BidirAt, Whole, Covered, BidirCovered, Left, Has, InCycle
  <2> QED BY <2>2
<1>2. CASE BaseStep
  BY <1>2, ProgressBase
<1>3. CASE snapshotCountersDetached
  <2>1. PICK o \in Detached :
           /\ plan.phase = "boundary" /\ Unmoved
           /\ res' \in Results(conf) /\ Same(res', res, {"final", "incomplete"})
           /\ plan' \in Plans(conf) /\ plan'.phase \in {"finish", "cable"}
           /\ IF plan.err \/ o # "clean" THEN plan'.err /\ plan'.phase = "finish"
              ELSE plan'.err = plan.err /\ plan' = AfterBase(plan)
    BY <1>3, BoundaryStep
  <2>2. conf' = conf /\ Same(res', res, {"final", "incomplete", "cable"})
    BY <2>1 DEF Unmoved, Same
  <2>3. ~plan'.err => ~plan.err /\ (plan'.phase = "finish" => ~conf.cable)
    BY <1>0, <2>1 DEF AfterBase, Plans
  <2> QED BY <2>1, <2>2, <2>3, ProgressLater
<1>4. CASE salvageFinalCounters
  <2>1. plan.phase = "salvage" /\ plan'.err = plan.err /\ plan'.phase = "finish"
    BY <1>4, SalvageStep
  <2>2. plan'.err
    BY <2>1 DEF Progress
  <2> QED BY <2>1, <2>2 DEF Progress
<1>5. CASE CableStep
  BY <1>5, ProgressCable
<1>6. CASE Rendering
  <2>1. conf' = conf /\ res' = res /\ plan.phase \in {"finish", "rendering"} /\ plan'.phase \in {"rendering", "done"}
        /\ (plan'.err = plan.err \/ plan'.err)
    BY <1>6, RenderStep
  <2>2. ~plan'.err /\ conf.cable => res'.cable # Absent
    BY <2>1 DEF Progress
  <2> QED BY <2>1, <2>2, SameAll, ProgressLater
<1> QED BY <1>1, <1>2, <1>3, <1>4, <1>5, <1>6, NextCases

LEMMA ProgressInit == Init => Progress
<1> SUFFICES ASSUME Init PROVE Progress
  OBVIOUS
<1>1. /\ plan.phase = "base" /\ plan.step = 1 /\ plan.err = FALSE
      /\ res.cycles = 0 /\ res.tcp = << >>
  BY DEF Init
<1>2. ~InCycle /\ Whole(res)
  BY <1>1 DEF InCycle, CycleStart, Whole
<1>3. ~Past(3) /\ ~Past(4) /\ ~Past(BidirAt) /\ ~Past(BidirAt + 1)
  <2>1. BidirAt \in Nat /\ BidirAt > 4
    BY BoundsAssumption DEF BidirAt
  <2> QED BY <1>1, <2>1 DEF Past
<1> QED BY <1>1, <1>2, <1>3 DEF Progress, OnceThrough, InCycles

LEMMA Progresses == Spec => [](TypeInv /\ RenderInv /\ Progress)
<1>1. TypeInv /\ RenderInv /\ Progress /\ [Next]_vars => Progress'
  BY ProgressNext
<1> QED BY <1>1, ProgressInit, Renderings, PTL DEF Spec

\* An EXCELLENT report: throughput was measured in both directions, both ends
\* could see damaged frames, and no test was left out.
LEMMA ExcellentMeans ==
  ASSUME NEW f, NEW F, F = Rules(f), classify(F) = "EXCELLENT"
  PROVE  /\ TCPDirs(f) = Dir /\ \A s \in Side : f.side[s].RXErrorEvidence
         /\ f.Unavailable \cap noncriticalTests = {}
<1>1. Sound(F)
  BY RulesSound
<1>2. F.LIM01 = None /\ F.LIM02 = None
  BY <1>1, GoodMeans
<1>3. F.LIM01 = ruleLIM01(f) /\ F.LIM02 = ruleLIM02(f)
  BY RuleValues
<1>4. ~(TCPDirs(f) = {}) /\ ~Neither(f, "RXErrorEvidence")
  BY <1>2, <1>3 DEF ruleLIM01, When, SevMarker, None
<1>5. /\ TCPDirs(f) \in {{}, Dir} /\ f.Unavailable \cap noncriticalTests = {}
      /\ Both(f, "RXErrorEvidence") \/ Neither(f, "RXErrorEvidence")
  BY <1>2, <1>3 DEF ruleLIM02, When, SevMarker, None
<1> QED BY <1>4, <1>5 DEF Both

LEMMA CleanMeasured == ASSUME TypeInv, RenderInv, Progress PROVE CleanMeansMeasured
<1> SUFFICES ASSUME Final, report.class = "EXCELLENT"
             PROVE  /\ ~plan.err /\ ~res.incomplete
                    /\ \A d \in Dir : Ran("ping", d) /\ Ran("tcp", d) /\ Ran("udp", d)
                    /\ conf.mode # "soak" => res.bidir # Absent /\ \A d \in Dir : Ran("fullSizePing", d)
                    /\ conf.cable => res.cable # Absent /\ res.cable.available /\ ~res.cable.tdrMissing
                    /\ \A s \in Side : Measures(s)
  BY DEF CleanMeansMeasured
<1> DEFINE f == Facts(plan.err, TRUE)
           F == Findings(plan.err, TRUE)
<1>1. plan.phase = "done" /\ plan.err \in BOOLEAN /\ classify(F) = "EXCELLENT" /\ TRUE \in BOOLEAN
  BY FinalIs
<1>2. ~plan.err /\ ~res.incomplete
  BY <1>1, CleanNotFailed
<1>3. F = Rules(f)
  BY DEF Findings
<1>4. /\ TCPDirs(f) = Dir /\ \A s \in Side : f.side[s].RXErrorEvidence
      /\ f.Unavailable \cap noncriticalTests = {}
  BY <1>1, <1>3, ExcellentMeans
<1>5. f.Unavailable = Skipped
  BY <1>1, FactFields
<1>6. \A x \in noncriticalTests : x \notin Skipped
  BY <1>4, <1>5
<1>7. /\ "ping" \in noncriticalTests /\ "udp" \in noncriticalTests /\ "bidirectional" \in noncriticalTests
      /\ "full_size_ping" \in noncriticalTests /\ "cable_test" \in noncriticalTests
      /\ "cable_test_tdr" \in noncriticalTests
  BY DEF noncriticalTests
<1>8. \A x \in noncriticalTests : ~Left(res, x)
  BY <1>6 DEF Skipped, Left
<1>9. conf.cable => res.cable # Absent /\ res.cable.available /\ ~res.cable.tdrMissing
  <2>1. conf.cable => res.cable # Absent
    BY <1>1, <1>2 DEF Progress
  <2>2. res.cable # Absent => res.cable.available /\ ~res.cable.tdrMissing
    BY <1>6, <1>7 DEF Skipped
  <2> QED BY <2>1, <2>2
<1>10. \A field, d : Ran(field, d) <=> Has(res[field], d)
  BY DEF Ran, Has
<1>11. \A d \in Dir : Ran("tcp", d)
  <2> SUFFICES ASSUME NEW d \in Dir PROVE Ran("tcp", d)
    OBVIOUS
  <2>1. f.tcp = [x \in Dir |-> tcpFacts(res.tcp, x, TrialsDue, NegSpeed)]
    BY <1>1, FactFields
  <2>2. f.tcp[d].TCPAvailable
    BY <1>4 DEF TCPDirs
  <2>3. tcpFacts(res.tcp, d, TrialsDue, NegSpeed).TCPAvailable
    BY <2>1, <2>2
  <2>4. Of(res.tcp, d) # {}
    BY <2>3 DEF tcpFacts
  <2> QED BY <1>10, <2>4 DEF Of, Has
<1>12. Covered(res, "ping", "ping") /\ Covered(res, "udp", "udp")
  <2>1. CASE conf.mode # "soak"
    BY <1>1, <1>2, <2>1 DEF Progress, OnceThrough, Past
  <2>2. CASE conf.mode = "soak"
    <3>1. Whole(res)
      BY <1>1, <1>2, <2>2 DEF Progress, InCycles, InCycle
    <3>2. res.tcp # << >>
      BY <1>11 DEF Ran, Dir, Side
    <3> QED BY <3>1, <3>2 DEF Whole
  <2> QED BY <2>1, <2>2
<1>13. \A d \in Dir : Ran("ping", d) /\ Ran("udp", d)
  BY <1>7, <1>8, <1>10, <1>12 DEF Covered
<1>14. conf.mode # "soak" => res.bidir # Absent /\ \A d \in Dir : Ran("fullSizePing", d)
  <2>1. conf.mode # "soak" => Covered(res, "fullSizePing", "full_size_ping") /\ BidirCovered(res)
    BY <1>1, <1>2 DEF Progress, OnceThrough, Past
  <2> QED BY <1>7, <1>8, <1>10, <2>1 DEF Covered, BidirCovered
<1>15. \A s \in Side : Measures(s)
  <2> SUFFICES ASSUME NEW s \in Side PROVE Measures(s)
    OBVIOUS
  <2> DEFINE b == res.initial[s]  a == res.final[s]  x == f.side[s]
  <2>1. x = sideFacts(b, a, SelfInflicted(s)) /\ b \in Snapshots \cup {Absent} /\ a \in Snapshots \cup {Absent}
    BY <1>1, SidesTyped
  <2>2. x.RXErrorEvidence
    BY <1>4
  <2> HIDE DEF x
  <2>3. rxErrorEvidenceKeys \cap DOMAIN DeltaSet(b, a) # {}
    BY <2>1, <2>2 DEF sideFacts
  <2>4. PICK k \in rxErrorEvidenceKeys : k \in DOMAIN DeltaSet(b, a)
    BY <2>3
  <2>5. b # Absent /\ a # Absent /\ k \in DOMAIN b.std /\ k \in DOMAIN a.std
    BY <2>1, <2>4, SumIs
  <2> QED BY <2>4, <2>5 DEF Measures
<1> QED BY <1>2, <1>9, <1>11, <1>13, <1>14, <1>15

\* EXCELLENT is never said of a run that was cut short or left a test out,
\* whatever the configuration, the number of trials and of soak cycles, and
\* whatever was skipped, failed or thrown away on the way.
THEOREM ExcellentMeasured == Spec => []CleanMeansMeasured
BY CleanMeasured, Progresses, PTL

-----------------------------------------------------------------------------
(* What the snapshots show of the NICs.                                    *)

\* The tallies of one NIC at two moments: damage and resets only accumulate,
\* tallies fall only by a reset, and without one the damage is what the two
\* tallies of damaged frames gained.
Leq(h, g) ==
  /\ h.corrupt <= g.corrupt /\ h.resets <= g.resets /\ g.tx_carrier <= h.tx_carrier
  /\ h.corrupt = g.corrupt => g.rx_crc <= h.rx_crc /\ g.rx_length <= h.rx_length
  /\ h.resets = g.resets =>
       /\ h.rx_crc <= g.rx_crc /\ h.rx_length <= g.rx_length
       /\ h.rx_missed <= g.rx_missed /\ h.tx_carrier <= g.tx_carrier
       /\ (g.rx_crc - h.rx_crc) + (g.rx_length - h.rx_length) = g.corrupt - h.corrupt

LEMMA HWTyped ==
  ASSUME NEW h \in HW
  PROVE  /\ h.rx_crc \in Nat /\ h.rx_length \in Nat /\ h.rx_missed \in Nat /\ h.tx_carrier \in Nat
         /\ h.corrupt \in Nat /\ h.resets \in Nat
BY DEF HW

LEMMA LeqSame == ASSUME NEW h \in HW PROVE Leq(h, h)
BY HWTyped DEF Leq

LEMMA LeqLater ==
  ASSUME NEW h \in HW, NEW g \in HW, NEW k \in HW, Leq(h, g), Leq(g, k)
  PROVE  Leq(h, k)
<1>1. /\ h.corrupt \in Nat /\ h.resets \in Nat /\ h.rx_crc \in Nat /\ h.rx_length \in Nat
      /\ h.rx_missed \in Nat /\ h.tx_carrier \in Nat
  BY HWTyped
<1>2. /\ g.corrupt \in Nat /\ g.resets \in Nat /\ g.rx_crc \in Nat /\ g.rx_length \in Nat
      /\ g.rx_missed \in Nat /\ g.tx_carrier \in Nat
  BY HWTyped
<1>3. /\ k.corrupt \in Nat /\ k.resets \in Nat /\ k.rx_crc \in Nat /\ k.rx_length \in Nat
      /\ k.rx_missed \in Nat /\ k.tx_carrier \in Nat
  BY HWTyped
<1>4. h.corrupt <= k.corrupt /\ h.resets <= k.resets /\ k.tx_carrier <= h.tx_carrier
  BY <1>1, <1>2, <1>3 DEF Leq
<1>5. h.corrupt = k.corrupt => h.corrupt = g.corrupt /\ g.corrupt = k.corrupt
  BY <1>1, <1>2, <1>3 DEF Leq
<1>6. h.corrupt = k.corrupt => k.rx_crc <= h.rx_crc /\ k.rx_length <= h.rx_length
  BY <1>1, <1>2, <1>3, <1>5 DEF Leq
<1>7. h.resets = k.resets => h.resets = g.resets /\ g.resets = k.resets
  BY <1>1, <1>2, <1>3 DEF Leq
<1>8. h.resets = k.resets =>
       /\ h.rx_crc <= k.rx_crc /\ h.rx_length <= k.rx_length
       /\ h.rx_missed <= k.rx_missed /\ h.tx_carrier <= k.tx_carrier
  BY <1>1, <1>2, <1>3, <1>7 DEF Leq
<1>9. h.resets = k.resets =>
       /\ (k.rx_crc - h.rx_crc) + (k.rx_length - h.rx_length) = k.corrupt - h.corrupt
  <2>1. h.resets = k.resets =>
          /\ (g.rx_crc - h.rx_crc) + (g.rx_length - h.rx_length) = g.corrupt - h.corrupt
          /\ (k.rx_crc - g.rx_crc) + (k.rx_length - g.rx_length) = k.corrupt - g.corrupt
    BY <1>7 DEF Leq
  <2>2. \A a, b, c, d, e, f, x, y, z \in Int :
          /\ (b - a) + (e - d) = y - x
          /\ (c - b) + (f - e) = z - y
          => (c - a) + (f - d) = z - x
    OBVIOUS
  <2>3. /\ h.rx_crc \in Int /\ g.rx_crc \in Int /\ k.rx_crc \in Int /\ h.rx_length \in Int
        /\ g.rx_length \in Int /\ k.rx_length \in Int /\ h.corrupt \in Int /\ g.corrupt \in Int
        /\ k.corrupt \in Int
    BY <1>1, <1>2, <1>3
  <2> QED BY <2>1, <2>2, <2>3
<1> QED BY <1>4, <1>6, <1>8, <1>9 DEF Leq

\* Every step of the world moves the tallies on.
LEMMA WorldLeq ==
  ASSUME TypeInv, World \/ UNCHANGED vars
  PROVE  /\ \A s \in Side : hw'[s] \in HW /\ Leq(hw[s], hw'[s])
         /\ link'.changes \in Nat /\ link.changes <= link'.changes
         /\ \A s \in Side : hw'[s].corrupt # hw[s].corrupt =>
              \E f \in faults' : f.name \in {"rx_crc", "rx_length"}
<1>0. /\ hw \in [Side -> HW] /\ link.changes \in Nat
  BY ResType DEF Link
<1>00. \A s \in Side : hw[s] \in HW /\ Leq(hw[s], hw[s])
  BY <1>0, LeqSame
<1>1. CASE hw' = hw
  <2>1. link'.changes \in Nat /\ link.changes <= link'.changes
    <3>1. CASE LinkDown \/ LinkUp
      <4>1. PICK b \in BOOLEAN : link' = [link EXCEPT !.up = b, !.changes = @ + 1]
        BY <3>1 DEF LinkDown, LinkUp
      <4>2. link'.changes = link.changes + 1
        BY <4>1, FlipType
      <4> QED BY <4>2, <1>0
    <3>3. CASE Renegotiate
      BY <3>3, <1>0, SlowedType DEF Renegotiate
    <3>4. CASE link' = link
      BY <3>4, <1>0
    <3> QED BY <3>1, <3>3, <3>4 DEF World, Reset, Poll, RingDrop, Corrupt, vars
  <2> QED BY <1>1, <1>00, <2>1
<1>2. ASSUME NEW s \in Side, Reset(s) PROVE /\ \A t \in Side : hw'[t] \in HW /\ Leq(hw[t], hw'[t])
                                            /\ hw'[s].corrupt = hw[s].corrupt
                                            /\ \A t \in Side : t # s => hw'[t] = hw[t]
  <2>1. hw' \in [Side -> HW] /\ hw'[s] = Fresh(0, hw[s].corrupt, hw[s].resets + 1)
        /\ \A t \in Side : t # s => hw'[t] = hw[t]
    BY <1>2, ResetType DEF Reset
  <2> DEFINE g == hw'[s]  h == hw[s]
  <2>2. /\ g.rx_crc = 0 /\ g.rx_length = 0 /\ g.tx_carrier = 0 /\ g.corrupt = h.corrupt /\ g.resets = h.resets + 1
    BY <2>1 DEF Fresh
  <2>3. /\ h.rx_crc \in Nat /\ h.rx_length \in Nat /\ h.tx_carrier \in Nat /\ h.corrupt \in Nat /\ h.resets \in Nat
    BY <1>0, HWTyped
  <2> HIDE DEF g, h
  <2>4. Leq(h, g)
    BY <2>2, <2>3 DEF Leq
  <2> QED BY <1>00, <2>1, <2>2, <2>4 DEF g, h
<1>3. ASSUME NEW s \in Side, NEW n \in Nat, RingDrop(s, n)
      PROVE /\ \A t \in Side : hw'[t] \in HW /\ Leq(hw[t], hw'[t])
            /\ hw'[s].corrupt = hw[s].corrupt
            /\ \A t \in Side : t # s => hw'[t] = hw[t]
  <2>1. hw' \in [Side -> HW] /\ hw'[s].rx_missed = hw[s].rx_missed + n
        /\ (\A t \in Side : t # s => hw'[t] = hw[t])
        /\ \A k \in DOMAIN hw[s] : k # "rx_missed" => hw'[s][k] = hw[s][k]
    BY <1>3, RingType DEF RingDrop
  <2> DEFINE g == hw'[s]  h == hw[s]
  <2>3. /\ h.rx_crc \in Nat /\ h.rx_length \in Nat /\ h.tx_carrier \in Nat /\ h.corrupt \in Nat /\ h.resets \in Nat
        /\ h.rx_missed \in Nat
    BY <1>0, HWTyped
  <2>5. DOMAIN h = {"rx_crc", "rx_length", "rx_missed", "tx_carrier", "corrupt", "resets"}
    BY <1>0 DEF HW
  <2>2. /\ g.rx_crc = h.rx_crc /\ g.rx_length = h.rx_length /\ g.tx_carrier = h.tx_carrier
        /\ g.corrupt = h.corrupt /\ g.resets = h.resets /\ g.rx_missed = h.rx_missed + n
    BY <2>1, <2>5
  <2> HIDE DEF g, h
  <2>4. Leq(h, g)
    BY <2>2, <2>3 DEF Leq
  <2> QED BY <1>00, <2>1, <2>2, <2>4 DEF g, h
<1>4. ASSUME NEW s \in Side, NEW key \in {"rx_crc", "rx_length"}, NEW n \in Nat, Corrupt(s, key, n), n > 0
      PROVE /\ \A t \in Side : hw'[t] \in HW /\ Leq(hw[t], hw'[t])
            /\ \E f \in faults' : f.name \in {"rx_crc", "rx_length"}
  <2>1. hw' \in [Side -> HW] /\ hw'[s][key] = hw[s][key] + n /\ hw'[s].corrupt = hw[s].corrupt + n
        /\ (\A t \in Side : t # s => hw'[t] = hw[t])
        /\ \A k \in DOMAIN hw[s] : k \notin {key, "corrupt"} => hw'[s][k] = hw[s][k]
    <3>1. hw' = [hw EXCEPT ![s][key] = @ + n, ![s].corrupt = @ + n]
      BY <1>4 DEF Corrupt
    <3>2. hw' \in [Side -> HW] /\ (\A t \in Side : t # s => hw'[t] = hw[t]) /\ Damaged(s, key, n)
      BY <1>4, <3>1, CorruptType
    <3> QED BY <3>2 DEF Damaged
  <2> DEFINE g == hw'[s]  h == hw[s]
  <2>3. /\ h.rx_crc \in Nat /\ h.rx_length \in Nat /\ h.tx_carrier \in Nat /\ h.corrupt \in Nat /\ h.resets \in Nat
        /\ h.rx_missed \in Nat
    BY <1>0, HWTyped
  <2>5. DOMAIN h = {"rx_crc", "rx_length", "rx_missed", "tx_carrier", "corrupt", "resets"}
    BY <1>0 DEF HW
  <2>2. /\ g.tx_carrier = h.tx_carrier /\ g.corrupt = h.corrupt + n /\ g.resets = h.resets
        /\ g.rx_missed = h.rx_missed
        /\ \/ g.rx_crc = h.rx_crc + n /\ g.rx_length = h.rx_length
           \/ g.rx_crc = h.rx_crc /\ g.rx_length = h.rx_length + n
    BY <2>1, <2>5
  <2> HIDE DEF g, h
  <2>4. Leq(h, g)
    BY <1>4, <2>2, <2>3 DEF Leq
  <2>6. Fault(key, 0, 0) \in faults' /\ Fault(key, 0, 0).name = key
    BY <1>4 DEF Corrupt, BlameWorld, Fault
  <2> QED BY <1>00, <2>1, <2>4, <2>6 DEF g, h
<1>5. CASE \E s \in Side : Reset(s)
  <2>1. PICK s \in Side : Reset(s)
    BY <1>5
  <2>8. (\A t \in Side : hw'[t] \in HW /\ Leq(hw[t], hw'[t]))
        /\ hw'[s].corrupt = hw[s].corrupt /\ \A t \in Side : t # s => hw'[t] = hw[t]
    BY <2>1, <1>2
  <2>9. link' = link
    BY <2>1 DEF Reset
  <2>10. \A t \in Side : hw'[t].corrupt # hw[t].corrupt => \E f \in faults' : f.name \in {"rx_crc", "rx_length"}
    BY <2>8
  <2> QED BY <1>0, <2>8, <2>9, <2>10
<1>6. CASE \E s \in Side : RingDrop(s, 5) \/ RingDrop(s, 200)
  <2>1. PICK s \in Side, n \in Nat : RingDrop(s, n)
    BY <1>6
  <2>8. (\A t \in Side : hw'[t] \in HW /\ Leq(hw[t], hw'[t]))
        /\ hw'[s].corrupt = hw[s].corrupt /\ \A t \in Side : t # s => hw'[t] = hw[t]
    BY <2>1, <1>3
  <2>9. link' = link
    BY <2>1 DEF RingDrop
  <2>10. \A t \in Side : hw'[t].corrupt # hw[t].corrupt => \E f \in faults' : f.name \in {"rx_crc", "rx_length"}
    BY <2>8
  <2> QED BY <1>0, <2>8, <2>9, <2>10
<1>7. CASE \E s \in Side, c \in Corruptions : Corrupt(s, c[1], c[2])
  <2>1. \A c \in Corruptions : c[1] \in {"rx_crc", "rx_length"} /\ c[2] \in Nat /\ c[2] > 0
    BY DEF Corruptions
  <2>2. PICK s \in Side, key \in {"rx_crc", "rx_length"}, n \in Nat : Corrupt(s, key, n) /\ n > 0
    BY <1>7, <2>1
  <2>8. (\A t \in Side : hw'[t] \in HW /\ Leq(hw[t], hw'[t]))
        /\ \E f \in faults' : f.name \in {"rx_crc", "rx_length"}
    BY <2>2, <1>4
  <2>9. link' = link
    BY <2>2 DEF Corrupt
  <2>10. \A t \in Side : hw'[t].corrupt # hw[t].corrupt => \E f \in faults' : f.name \in {"rx_crc", "rx_length"}
    BY <2>8
  <2> QED BY <1>0, <2>8, <2>9, <2>10
<1> QED BY <1>1, <1>5, <1>6, <1>7 DEF World, LinkDown, LinkUp, Renegotiate, Poll, vars

\* A snapshot of a NIC whose tallies stood at h, with the carrier's changes.
Shows(snap, nic, h, changes) ==
  /\ snap.std = NormalizeCounters(nic, h, changes)
  /\ snap.at.corrupt = h.corrupt /\ snap.at.missed = h.rx_missed /\ snap.at.resets = h.resets
  /\ snap.at.changes = changes

LEMMA SnapshotShows ==
  ASSUME NEW s \in Side
  PROVE  Shows(Snapshot(s), conf.nic[s], hw[s], link.changes)
BY DEF Shows, Snapshot

\* What the two snapshots of a side show, in the order it happened.
Chain(initial, final, nic, now, changes) ==
  \E h, g \in HW, c, d \in Nat :
    /\ initial # Absent => Shows(initial, nic, h, c)
    /\ final # Absent => Shows(final, nic, g, d)
    /\ Leq(h, g) /\ Leq(g, now) /\ c <= d /\ d <= changes
Chained(s) == Chain(res.initial[s], res.final[s], conf.nic[s], hw[s], link.changes)
\* Every final snapshot is later than the initial one of its side; none is
\* taken before the plan's last step.
ChainInv ==
  /\ \A s \in Side : Chained(s)
  /\ plan.phase = "base" => \A s \in Side : res.final[s] = Absent

\* The chain grows at its end: the tallies move on, a first snapshot is taken
\* when there is no final one, or a final one is taken or given up.
LEMMA ChainGrows ==
  ASSUME NEW i, NEW f, NEW nic, NEW now \in HW, NEW n \in Nat, Chain(i, f, nic, now, n),
         NEW later \in HW, NEW m \in Nat, Leq(now, later), n <= m
  PROVE  Chain(i, f, nic, later, m)
<1>1. PICK h, g \in HW, c, d \in Nat :
        /\ i # Absent => Shows(i, nic, h, c)
        /\ f # Absent => Shows(f, nic, g, d)
        /\ Leq(h, g) /\ Leq(g, now) /\ c <= d /\ d <= n
  BY DEF Chain
<1>2. Leq(g, later) /\ d <= m
  BY <1>1, LeqLater
<1> QED BY <1>1, <1>2 DEF Chain

LEMMA ChainStarts ==
  ASSUME NEW i, NEW nic, NEW now \in HW, NEW n \in Nat, Shows(i, nic, now, n)
  PROVE  Chain(i, Absent, nic, now, n)
BY LeqSame DEF Chain

LEMMA ChainEnds ==
  ASSUME NEW i, NEW f, NEW nic, NEW now \in HW, NEW n \in Nat, Chain(i, f, nic, now, n),
         NEW x, x = Absent \/ Shows(x, nic, now, n)
  PROVE  Chain(i, x, nic, now, n)
<1>1. PICK h, g \in HW, c, d \in Nat :
        /\ i # Absent => Shows(i, nic, h, c)
        /\ Leq(h, g) /\ Leq(g, now) /\ c <= d /\ d <= n
  BY DEF Chain
<1>2. Leq(h, now) /\ Leq(now, now) /\ c <= n /\ n <= n
  BY <1>1, LeqLater, LeqSame
<1> QED BY <1>1, <1>2 DEF Chain

\* Only the two counter steps write the snapshots of the run.
LEMMA BaseSnapshots ==
  ASSUME TypeInv, BaseStep, ~stepInitialCounters, ~stepFinalCounters
  PROVE  res'.initial = res.initial /\ res'.final = res.final
<1>1. ASSUME NEW r \in Results(conf), NEW o, NEW S \in SUBSET (FieldNames \ {"initial", "final"}),
             plan.phase = "base", Ends(r, o), Same(r, res, S)
      PROVE  res'.initial = res.initial /\ res'.final = res.final
  <2>1. r.initial = res.initial /\ r.final = res.final
    BY <1>1 DEF Same, FieldNames
  <2>2. InCycle => kept.initial = res.initial /\ kept.final = res.final
    BY DEF TypeInv, SameFrame
  <2>4. CASE o \notin Errors
    <3>1. res' = r
      BY <1>1, <2>4, EndsShape
    <3> QED BY <2>1, <3>1
  <2>5. CASE o \in Errors
    <3>1. Same(res', IF InCycle THEN kept ELSE r, {"incomplete"})
      BY <1>1, <2>5, EndsShape
    <3>2. CASE InCycle
      <4>1. Same(res', kept, {"incomplete"})
        BY <3>1, <3>2
      <4> QED BY <2>2, <3>2, <4>1 DEF Same, FieldNames
    <3>3. CASE ~InCycle
      <4>1. Same(res', r, {"incomplete"})
        BY <3>1, <3>3
      <4> QED BY <2>1, <4>1 DEF Same, FieldNames
    <3> QED BY <3>2, <3>3
  <2> QED BY <2>4, <2>5
<1> USE DEF FieldNames
<1>2. CASE stepLink
  <2>1. PICK r \in Results(conf), o \in {"clean", "unavailable", "failed"} :
          At("link") /\ Unmoved /\ Ends(r, o) /\ Same(r, res, {"link", "skipped"})
    BY <1>2, LinkStep
  <2> QED BY <2>1, <1>1 DEF At
<1>4. ASSUME LocalFails, plan.phase = "base"
      PROVE  res'.initial = res.initial /\ res'.final = res.final
  <2>1. Ends(res, "failed") /\ Same(res, res, {}) /\ res \in Results(conf)
    BY <1>4, ResType DEF LocalFails, Same
  <2> QED BY <1>4, <2>1, <1>1
<1>5. CASE stepPing
  <2> DEFINE names == {"clean", "trickle", "lossy", "unsteady"}
  <2>0. plan.phase = "base"
    BY <1>5 DEF stepPing, At
  <2>1. CASE PingBoth("ping", "ping", names)
    <3>1. names \in SUBSET DOMAIN Pings
      BY DEF Pings
    <3> HIDE DEF names
    <3>2. PICK o \in {"clean", "unavailable", "failed"}, r \in Results(conf) :
            Ends(r, o) /\ Same(r, res, {"ping", "skipped"})
      BY <2>1, <3>1, PingStep
    <3> QED BY <2>0, <3>2, <1>1
  <2>2. CASE LocalFails
    BY <2>0, <2>2, <1>4
  <2> QED BY <1>5, <2>1, <2>2 DEF stepPing
<1>6. CASE stepFullSizePing
  <2> DEFINE names == {"clean", "lossy", "fragmented"}
  <2>0. plan.phase = "base"
    BY <1>6 DEF stepFullSizePing, At
  <2>1. CASE PingBoth("fullSizePing", "full_size_ping", names)
    <3>1. names \in SUBSET DOMAIN Pings
      BY DEF Pings
    <3> HIDE DEF names
    <3>2. PICK o \in {"clean", "unavailable", "failed"}, r \in Results(conf) :
            Ends(r, o) /\ Same(r, res, {"fullSizePing", "skipped"})
      BY <2>1, <3>1, PingStep
    <3> QED BY <2>0, <3>2, <1>1
  <2>2. CASE LocalFails
    BY <2>0, <2>2, <1>4
  <2> QED BY <1>6, <2>1, <2>2 DEF stepFullSizePing
<1>7. CASE stepTCPForward \/ stepTCPReverse
  <2>1. PICK dir \in Side, outcomes \in SUBSET Outcomes : TCPPhase(dir, outcomes)
    BY <1>7 DEF stepTCPForward, stepTCPReverse, Side
  <2>2. PICK o \in outcomes, r \in Results(conf) : Ends(r, o) /\ SameButLog(r, res, "tcp")
    BY <2>1, TCPStep
  <2>3. plan.phase = "base"
    BY <1>7 DEF stepTCPForward, stepTCPReverse, At
  <2> QED BY <2>2, <2>3, <1>1 DEF SameButLog
<1>8. CASE stepBidir
  <2>1. PICK o \in Outcomes, r \in Results(conf) :
          At("bidir") /\ Unmoved /\ Ends(r, o) /\ Same(r, res, {"bidir", "skipped"})
    BY <1>8, BidirStep
  <2> QED BY <2>1, <1>1 DEF At
<1>9. CASE stepUDP \/ stepReducedUDP
  <2>1. PICK rate \in Nat : stepUDPAtRate(rate) /\ plan.phase = "base"
    BY <1>9, RateType DEF stepUDP, stepReducedUDP, At
  <2>2. PICK o \in Outcomes, r \in Results(conf) :
          Ends(r, o) /\ Same(r, res, {"udp", "skipped", "incomplete", "udpRateAssumed"})
    BY <2>1, UDPStep
  <2> QED BY <2>1, <2>2, <1>1
<1>10. CASE cycleCounters
  <2>1. PICK o \in CounterOutcomes, r \in Results(conf) :
           /\ At("cycle") /\ UNCHANGED <<conf, link, hw, mon, window, report, faults>>
           /\ Ends(r, o) /\ Same(r, res, {"skipped"})
    BY <1>10, CycleStep
  <2> QED BY <2>1, <1>1 DEF At
<1>11. CASE commitCycle
  <2>1. PICK o \in CounterOutcomes, r \in Results(conf) :
           /\ At("cycleEnd") /\ UNCHANGED <<conf, link, hw, mon, window, report, faults>>
           /\ Same(r, res, {"skipped"})
           /\ \/ o \in Errors /\ Ends(r, o)
              \/ /\ res' = [r EXCEPT !.cycles = @ + 1, !.incomplete = kept.incomplete]
                 /\ \/ plan' = [plan EXCEPT !.step = CycleStart]
                    \/ plan' = [plan EXCEPT !.phase = "boundary"]
    BY <1>11, CommitStep
  <2>2. InCycle /\ plan.phase = "base"
    BY <2>1, CommitPlace
  <2>3. CASE Ends(r, o)
    BY <2>1, <2>2, <2>3, <1>1
  <2>4. CASE /\ res' = [r EXCEPT !.cycles = @ + 1, !.incomplete = kept.incomplete]
             /\ \/ plan' = [plan EXCEPT !.step = CycleStart]
                \/ plan' = [plan EXCEPT !.phase = "boundary"]
    <3>1. Same(res', r, {"cycles", "incomplete"})
      BY <2>1, <2>2, <2>4, CommitFields
    <3> QED BY <2>1, <3>1 DEF Same
  <2> QED BY <2>1, <2>3, <2>4
<1>12. CASE BudgetExpires
  <2>1. InCycle /\ res' = kept
    BY <1>12 DEF BudgetExpires
  <2> QED BY <2>1 DEF TypeInv, SameFrame
<1> QED BY <1>2, <1>5, <1>6, <1>7, <1>8, <1>9, <1>10, <1>11, <1>12 DEF BaseStep

\* What a step that takes the snapshots of the run leaves.
LEMMA CountersTaken ==
  ASSUME TypeInv, NEW into \in {"initial", "final"}, stepCounters(into, into)
  PROVE  /\ UNCHANGED <<conf, link, hw>> /\ plan.phase = "base"
         /\ \A s \in Side : res'[into][s] = res[into][s] \/ res'[into][s] = Snapshot(s)
         /\ into = "initial" => res'.final = res.final
         /\ into = "final" => res'.initial = res.initial /\ plan'.phase # "base"
<1>1. PICK o \in CounterOutcomes, r \in Results(conf) :
           /\ At(into) /\ Unmoved /\ faults' = faults /\ Ends(r, o) /\ spent' \in 0..MaxAnomalies
           /\ Same(r, res, {into, "skipped"}) /\ res.skipped \subseteq r.skipped
           /\ r[into]["PC1"] = IF o = "stopFailed" THEN res[into]["PC1"] ELSE Snapshot("PC1")
           /\ r[into]["PC2"] = IF o = "clean" THEN Snapshot("PC2") ELSE res[into]["PC2"]
  BY CounterStep
<1>2. plan.phase = "base" /\ UNCHANGED <<conf, link, hw>>
  BY <1>1 DEF At, Unmoved
<1>3. ~InCycle
  <2>1. conf.mode = "soak" => plan.step = 2
    BY <1>1, SoakAt
  <2> QED BY <2>1 DEF InCycle, CycleStart
<1>4. res' = r \/ Same(res', r, {"incomplete"})
  BY <1>1, <1>2, <1>3, EndsShape
<1>5. res'.initial = r.initial /\ res'.final = r.final
  BY <1>4 DEF Same, FieldNames
<1>6. res'[into] = r[into]
  BY <1>5
<1>7. \A s \in Side : r[into][s] = res[into][s] \/ r[into][s] = Snapshot(s)
  BY <1>1 DEF Side
<1>8. into = "initial" => r.final = res.final
  BY <1>1 DEF Same, FieldNames
<1>9. into = "final" => r.initial = res.initial
  BY <1>1 DEF Same, FieldNames
<1>10. into = "final" => plan'.phase # "base"
  <2> SUFFICES ASSUME into = "final" PROVE plan'.phase # "base"
    OBVIOUS
  <2>1. plan.step = Len(StepsOf(conf)) /\ plan.step \in Nat
    <3>1. At("final")
      BY <1>1
    <3>2. CASE conf.mode = "quick"
      BY <3>1, <3>2, QuickAt
    <3>3. CASE conf.mode = "standard"
      BY <3>1, <3>3, StandardAt
    <3>4. CASE conf.mode = "soak"
      BY <3>1, <3>4, SoakAt
    <3> QED BY <3>2, <3>3, <3>4, ModeCases
  <2>2. CASE o \in Errors
    BY <1>1, <1>2, <2>2, EndsShape
  <2>3. CASE o \notin Errors
    <3>1. plan' = StepDone(plan)
      BY <1>1, <1>2, <2>3, EndsShape
    <3>2. plan' = AfterBase(plan)
      BY <2>1, <3>1 DEF StepDone
    <3> QED BY <1>2, <3>2, PlanMoves
  <2> QED BY <2>2, <2>3
<1> QED BY <1>2, <1>5, <1>6, <1>7, <1>8, <1>9, <1>10

LEMMA ChainBase == ASSUME TypeInv, ChainInv, BaseStep PROVE ChainInv'
<1>0. hw \in [Side -> HW] /\ link.changes \in Nat
  BY ResType DEF Link
<1>1. UNCHANGED <<conf, link, hw>> /\ plan.phase = "base"
  BY BaseFrame
<1>2. \A s \in Side : res.final[s] = Absent
  BY <1>1 DEF ChainInv
<1>3. CASE ~stepInitialCounters /\ ~stepFinalCounters
  <2>1. res'.initial = res.initial /\ res'.final = res.final
    BY <1>3, BaseSnapshots
  <2> QED BY <1>1, <1>2, <2>1 DEF ChainInv, Chained
<1>4. CASE stepInitialCounters
  <2>1. stepCounters("initial", "initial")
    BY <1>4 DEF stepInitialCounters
  <2>2. res'.final = res.final /\ \A s \in Side : res'.initial[s] = res.initial[s] \/ res'.initial[s] = Snapshot(s)
    BY <2>1, CountersTaken
  <2>3. ASSUME NEW s \in Side PROVE Chained(s)'
    <3>1. CASE res'.initial[s] = res.initial[s]
      BY <1>1, <2>2, <3>1 DEF ChainInv, Chained
    <3>2. CASE res'.initial[s] = Snapshot(s)
      <4>1. Shows(Snapshot(s), conf.nic[s], hw[s], link.changes) /\ hw[s] \in HW
        BY <1>0, SnapshotShows
      <4>2. Chain(Snapshot(s), Absent, conf.nic[s], hw[s], link.changes)
        BY <1>0, <4>1, ChainStarts
      <4> QED BY <1>1, <1>2, <2>2, <3>2, <4>2 DEF Chained
    <3> QED BY <2>2, <3>1, <3>2
  <2> QED BY <1>2, <2>2, <2>3 DEF ChainInv
<1>5. CASE stepFinalCounters
  <2>1. stepCounters("final", "final")
    BY <1>5 DEF stepFinalCounters
  <2>2. /\ res'.initial = res.initial /\ plan'.phase # "base"
        /\ \A s \in Side : res'.final[s] = res.final[s] \/ res'.final[s] = Snapshot(s)
    BY <2>1, CountersTaken
  <2>3. ASSUME NEW s \in Side PROVE Chained(s)'
    <3>1. Shows(Snapshot(s), conf.nic[s], hw[s], link.changes) /\ hw[s] \in HW
      BY <1>0, SnapshotShows
    <3>2. res'.final[s] = Absent \/ Shows(res'.final[s], conf.nic[s], hw[s], link.changes)
      BY <1>2, <2>2, <3>1
    <3>3. Chain(res.initial[s], res.final[s], conf.nic[s], hw[s], link.changes)
      BY DEF ChainInv, Chained
    <3>4. Chain(res.initial[s], res'.final[s], conf.nic[s], hw[s], link.changes)
      BY <1>0, <3>1, <3>2, <3>3, ChainEnds
    <3> QED BY <1>1, <2>2, <3>4 DEF Chained
  <2> QED BY <2>2, <2>3 DEF ChainInv
<1> QED BY <1>3, <1>4, <1>5

\* The detached snapshots are final ones too.
LEMMA ChainDetached ==
  ASSUME TypeInv, ChainInv, UNCHANGED <<conf, link, hw>>, plan'.phase # "base", res'.initial = res.initial,
         NEW o \in Detached, res'.final = SnapshotDetached(o)
  PROVE  ChainInv'
<1>0. hw \in [Side -> HW] /\ link.changes \in Nat
  BY ResType DEF Link
<1>1. ASSUME NEW s \in Side PROVE Chained(s)'
  <2>1. Shows(Snapshot(s), conf.nic[s], hw[s], link.changes) /\ hw[s] \in HW
    BY <1>0, SnapshotShows
  <2>2. SnapshotDetached(o)[s] \in {Snapshot(s), Absent}
    BY DetachedType
  <2>3. res'.final[s] = Absent \/ Shows(res'.final[s], conf.nic[s], hw[s], link.changes)
    BY <2>1, <2>2
  <2>4. Chain(res.initial[s], res.final[s], conf.nic[s], hw[s], link.changes)
    BY DEF ChainInv, Chained
  <2>5. Chain(res.initial[s], res'.final[s], conf.nic[s], hw[s], link.changes)
    BY <1>0, <2>1, <2>3, <2>4, ChainEnds
  <2> QED BY <2>5 DEF Chained
<1> QED BY <1>1 DEF ChainInv

\* The diagnostics and the renderings change the carrier at most.
LEMMA CableFrame ==
  ASSUME TypeInv, CableStep
  PROVE  /\ UNCHANGED <<conf, hw>> /\ plan.phase # "base" /\ plan'.phase # "base"
         /\ Same(res', res, {"cable"}) /\ link'.changes \in Nat /\ link.changes <= link'.changes
<1>0. plan \in Plans(conf) /\ res \in Results(conf) /\ link.changes \in Nat
  BY ResType DEF Link
<1>1. CASE CableWindowStart
  <2>1. UNCHANGED <<conf, hw, link>> /\ plan.phase = "cable"
    BY <1>1 DEF CableWindowStart
  <2>2. CASE plan' = [plan EXCEPT !.phase = "begin"] /\ res' = res
    BY <1>0, <2>1, <2>2, SameAll DEF Plans
  <2>3. CASE plan' = [plan EXCEPT !.phase = "finish"] /\ res' = [res EXCEPT !.cable = CableResult(FALSE, {}, FALSE)]
    <3>1. CableResult(FALSE, {}, FALSE) \in CableResults
      BY CableTyped
    <3>2. res' = With(res, "cable", CableResult(FALSE, {}, FALSE))
      BY <1>0, <2>3 DEF With
    <3>3. Same(res', res, {"cable"})
      BY <3>1, <3>2, CablePut
    <3> QED BY <1>0, <2>1, <2>3, <3>3 DEF Plans
  <2> QED BY <1>1, <2>2, <2>3 DEF CableWindowStart
<1>2. CASE BeginWindow
  <2>1. UNCHANGED <<conf, hw, link, res>> /\ plan.phase = "begin" /\ plan'.phase = "testing"
    BY <1>0, <1>2 DEF BeginWindow, Plans
  <2> QED BY <1>0, <2>1, SameAll
<1>3. CASE TesterTakesLinkDown
  <2>1. UNCHANGED <<conf, hw, res>> /\ plan.phase = "testing" /\ plan'.phase = "measuring"
    BY <1>0, <1>3 DEF TesterTakesLinkDown, Plans
  <2>2. PICK b \in BOOLEAN : link' = [link EXCEPT !.up = b, !.changes = @ + 1]
    BY <1>3 DEF TesterTakesLinkDown
  <2>3. link'.changes = link.changes + 1
    BY <2>2, FlipType
  <2> QED BY <1>0, <2>1, <2>3, SameAll
<1>4. CASE CableTesterRun
  <2>1. plan.phase \in {"testing", "measuring"} /\ plan'.phase \in {"end", "close"} /\ Same(res', res, {"cable"})
    BY <1>4, TesterStep
  <2>2. UNCHANGED <<conf, hw, link>>
    BY <1>4 DEF CableTesterRun
  <2> QED BY <1>0, <2>1, <2>2
<1>5. CASE CableWindowEnd
  <2>1. plan.phase = "end" /\ plan'.phase = "close" /\ Same(res', res, {"cable"})
    BY <1>5, WindowEndStep
  <2>2. UNCHANGED <<conf, hw, link>>
    BY <1>5 DEF CableWindowEnd
  <2> QED BY <1>0, <2>1, <2>2
<1>6. CASE EndWindow
  <2>1. plan.phase = "close" /\ plan'.phase = "finish" /\ Same(res', res, {"cable"})
    BY <1>6, EndWindowStep
  <2>2. UNCHANGED <<conf, hw, link>>
    BY <1>6 DEF EndWindow
  <2> QED BY <1>0, <2>1, <2>2
<1> QED BY <1>1, <1>2, <1>3, <1>4, <1>5, <1>6 DEF CableStep

LEMMA ChainMoves ==
  ASSUME TypeInv, ChainInv, conf' = conf, res'.initial = res.initial, res'.final = res.final,
         plan'.phase = "base" => plan.phase = "base",
         \A s \in Side : hw'[s] \in HW /\ Leq(hw[s], hw'[s]),
         link'.changes \in Nat, link.changes <= link'.changes
  PROVE  ChainInv'
<1>0. hw \in [Side -> HW] /\ link.changes \in Nat
  BY ResType DEF Link
<1>1. ASSUME NEW s \in Side PROVE Chained(s)'
  <2>1. Chain(res.initial[s], res.final[s], conf.nic[s], hw[s], link.changes) /\ hw[s] \in HW
    BY <1>0 DEF ChainInv, Chained
  <2>2. Chain(res.initial[s], res.final[s], conf.nic[s], hw'[s], link'.changes)
    BY <1>0, <2>1, ChainGrows
  <2> QED BY <2>2 DEF Chained
<1> QED BY <1>1 DEF ChainInv

LEMMA ChainNext == ASSUME TypeInv, RenderInv, ChainInv, [Next]_vars PROVE ChainInv'
<1>0. hw \in [Side -> HW] /\ link.changes \in Nat /\ \A s \in Side : Leq(hw[s], hw[s])
  BY ResType, LeqSame DEF Link
<1>1. CASE World \/ UNCHANGED vars
  <2>1. UNCHANGED <<conf, plan, res, kept>>
    BY <1>1, WorldRendering
  <2>2. /\ \A s \in Side : hw'[s] \in HW /\ Leq(hw[s], hw'[s])
        /\ link'.changes \in Nat /\ link.changes <= link'.changes
    BY <1>1, WorldLeq
  <2> QED BY <2>1, <2>2, ChainMoves
<1>2. CASE BaseStep
  BY <1>2, ChainBase
<1>3. CASE snapshotCountersDetached
  <2>1. PICK o \in Detached :
           /\ plan.phase = "boundary" /\ Unmoved
           /\ Same(res', res, {"final", "incomplete"}) /\ res'.final = SnapshotDetached(o)
           /\ plan'.phase \in {"finish", "cable"}
    BY <1>3, BoundaryStep
  <2>2. UNCHANGED <<conf, link, hw>> /\ plan'.phase # "base"
    BY <2>1 DEF Unmoved
  <2>3. res'.initial = res.initial
    BY <2>1 DEF Same, FieldNames
  <2> QED BY <2>1, <2>2, <2>3, ChainDetached
<1>4. CASE salvageFinalCounters
  <2>1. Unmoved /\ plan'.phase = "finish"
    BY <1>4, SalvageStep
  <2>2. UNCHANGED <<conf, link, hw>> /\ plan'.phase # "base"
    BY <2>1 DEF Unmoved
  <2>3. CASE res' = res
    BY <1>0, <2>2, <2>3, ChainMoves
  <2>4. CASE res' # res
    <3>1. PICK o \in Detached : Same(res', res, {"final"}) /\ res'.final = SnapshotDetached(o)
      BY <1>4, <2>4, SalvageStep
    <3>2. res'.initial = res.initial
      BY <3>1 DEF Same, FieldNames
    <3> QED BY <2>2, <3>1, <3>2, ChainDetached
  <2> QED BY <2>3, <2>4
<1>5. CASE CableStep
  <2>1. /\ UNCHANGED <<conf, hw>> /\ plan'.phase # "base"
        /\ Same(res', res, {"cable"}) /\ link'.changes \in Nat /\ link.changes <= link'.changes
    BY <1>5, CableFrame
  <2>2. res'.initial = res.initial /\ res'.final = res.final
    BY <2>1 DEF Same, FieldNames
  <2> QED BY <1>0, <2>1, <2>2, ChainMoves
<1>6. CASE Rendering
  <2>1. conf' = conf /\ res' = res /\ plan'.phase \in {"rendering", "done"}
    BY <1>6, RenderStep
  <2>2. UNCHANGED <<hw, link>>
    BY <1>6 DEF Rendering, renderProvisional, PrepareComplete, finishCoordinator
  <2> QED BY <1>0, <2>1, <2>2, ChainMoves
<1> QED BY <1>1, <1>2, <1>3, <1>4, <1>5, <1>6, NextCases

LEMMA ChainInit == Init => ChainInv
<1> SUFFICES ASSUME Init PROVE ChainInv
  OBVIOUS
<1>1. TypeInv
  BY TypeInit
<1>2. hw \in [Side -> HW] /\ link.changes \in Nat
  BY <1>1, ResType DEF Link
<1>3. \A s \in Side : res.initial[s] = Absent /\ res.final[s] = Absent
  BY DEF Init
<1>4. ASSUME NEW s \in Side PROVE Chained(s)
  <2>1. hw[s] \in HW /\ Leq(hw[s], hw[s])
    BY <1>2, LeqSame
  <2>2. link.changes <= link.changes
    BY <1>2
  <2> QED BY <1>2, <1>3, <2>1, <2>2 DEF Chained, Chain
<1> QED BY <1>3, <1>4 DEF ChainInv

LEMMA Chains == Spec => [](TypeInv /\ RenderInv /\ ChainInv)
<1>1. TypeInv /\ RenderInv /\ ChainInv /\ [Next]_vars => ChainInv'
  BY ChainNext
<1> QED BY <1>1, ChainInit, Renderings, PTL DEF Spec

-----------------------------------------------------------------------------
(* Damaged frames.                                                         *)

\* The counters that a snapshot shows, and where they stand.
LEMMA ShownKeys ==
  ASSUME NEW nic \in NICs, NEW h, NEW c, NEW b, Shows(b, nic, h, c)
  PROVE  /\ "link_resets" \in DOMAIN b.std /\ b.std["link_resets"] = c
         /\ \A k : k # "link_resets" =>
              /\ k \in DOMAIN b.std <=> (k \in nic.exposed \/ (k \in nic.tracked /\ Tally(nic, h, k) # 0))
              /\ k \in DOMAIN b.std => b.std[k] = Tally(nic, h, k) /\ k \in Keys
<1> DEFINE D == nic.exposed \cup {t \in nic.tracked : Tally(nic, h, t) # 0} \cup {"link_resets"}
<1>1. b.std = [k \in D |-> IF k = "link_resets" THEN c ELSE Tally(nic, h, k)]
  BY DEF Shows, NormalizeCounters
<1>2. DOMAIN b.std = D /\ \A k \in D : b.std[k] = IF k = "link_resets" THEN c ELSE Tally(nic, h, k)
  BY <1>1
<1>3. nic.exposed \subseteq Keys /\ nic.tracked \subseteq Keys
  BY DEF NICs
<1> QED BY <1>2, <1>3

\* The full rings that a driver counts as damage.
Folded(nic, h) == IF nic.folds THEN h.rx_missed ELSE 0

LEMMA TallyTyped ==
  ASSUME NEW nic, NEW h \in HW
  PROVE  /\ \A k \in Keys : Tally(nic, h, k) \in Nat
         /\ Tally(nic, h, "rx_crc") = h.rx_crc /\ Tally(nic, h, "rx_length") = h.rx_length
         /\ Tally(nic, h, "rx_errors_total") = h.rx_crc + h.rx_length + Folded(nic, h)
         /\ Tally(nic, h, "rx_missed") = h.rx_missed /\ Tally(nic, h, "tx_carrier") = h.tx_carrier
         /\ Folded(nic, h) \in Nat
<1>1. /\ h.rx_crc \in Nat /\ h.rx_length \in Nat /\ h.rx_missed \in Nat /\ h.tx_carrier \in Nat
  BY HWTyped
<1>2. /\ Tally(nic, h, "rx_crc") = h.rx_crc /\ Tally(nic, h, "rx_length") = h.rx_length
      /\ Tally(nic, h, "rx_errors_total") = h.rx_crc + h.rx_length + Folded(nic, h)
      /\ Tally(nic, h, "rx_missed") = h.rx_missed /\ Tally(nic, h, "tx_carrier") = h.tx_carrier
  BY DEF Tally, Folded
<1>3. Folded(nic, h) \in Nat
  BY <1>1 DEF Folded
<1>4. h.rx_crc + h.rx_length + Folded(nic, h) \in Nat
  BY <1>1, <1>3
<1> QED BY <1>1, <1>2, <1>3, <1>4 DEF Keys, Tallies

\* A counter that the NIC has and that did not fall shows what it gained, even
\* one that appears with its first error, if the same counters are shown.
LEMMA Gained ==
  ASSUME NEW nic \in NICs, NEW h \in HW, NEW g \in HW, NEW c \in Nat, NEW d \in Nat,
         NEW b \in Snapshots, NEW a \in Snapshots, Shows(b, nic, h, c), Shows(a, nic, g, d),
         DOMAIN b.std = DOMAIN a.std, NEW key \in Keys
  PROVE  /\ key \in nic.exposed \cup nic.tracked /\ Tally(nic, h, key) <= Tally(nic, g, key) =>
              sum(DeltaSet(b, a), key) = Tally(nic, g, key) - Tally(nic, h, key)
         /\ key \notin nic.exposed \cup nic.tracked => sum(DeltaSet(b, a), key) = 0
         /\ Tally(nic, g, key) <= Tally(nic, h, key) => sum(DeltaSet(b, a), key) = 0
<1>0. b # Absent /\ a # Absent /\ b \in Snapshots \cup {Absent} /\ a \in Snapshots \cup {Absent}
  BY AbsentAssumption
<1>1. key # "link_resets" /\ Tally(nic, h, key) \in Nat /\ Tally(nic, g, key) \in Nat
  BY TallyTyped DEF Keys, Tallies
<1>2. /\ key \in DOMAIN b.std <=> (key \in nic.exposed \/ (key \in nic.tracked /\ Tally(nic, h, key) # 0))
      /\ key \in DOMAIN b.std => b.std[key] = Tally(nic, h, key)
  BY <1>1, ShownKeys
<1>3. /\ key \in DOMAIN a.std <=> (key \in nic.exposed \/ (key \in nic.tracked /\ Tally(nic, g, key) # 0))
      /\ key \in DOMAIN a.std => a.std[key] = Tally(nic, g, key)
  BY <1>1, ShownKeys
<1>4. sum(DeltaSet(b, a), key) =
        IF b # Absent /\ a # Absent /\ key \in DOMAIN b.std /\ key \in DOMAIN a.std
        THEN Minus(a.std[key], b.std[key]) ELSE 0
  BY <1>0, SumIs
<1> DEFINE x == sum(DeltaSet(b, a), key)  u == Tally(nic, h, key)  v == Tally(nic, g, key)
<1>5. x = IF key \in DOMAIN b.std THEN Minus(v, u) ELSE 0
  BY <1>0, <1>2, <1>3, <1>4
<1>6. (key \in DOMAIN b.std <=> key \in DOMAIN a.std) /\ u \in Nat /\ v \in Nat
  BY <1>1
<1> HIDE DEF x, u, v
<1>7. Minus(v, u) = IF v > u THEN v - u ELSE 0
  BY DEF Minus
<1>8. (key \in nic.exposed \cup nic.tracked /\ u <= v) => x = v - u
  BY <1>2, <1>3, <1>5, <1>6, <1>7 DEF u, v
<1>9. key \notin nic.exposed \cup nic.tracked => x = 0
  BY <1>2, <1>5
<1>10. v <= u => x = 0
  BY <1>5, <1>6, <1>7
<1> QED BY <1>8, <1>9, <1>10 DEF x, u, v

LEMMA ReliableSide ==
  ASSUME NEW b, NEW a, NEW n, NEW x, x = sideFacts(b, a, n), DeltaReliable(b, a), HasCounters(b), HasCounters(a)
  PROVE  x.DeltaOK
BY DEF sideFacts

\* The facts of a side whose snapshots can be compared: reliable, and true to
\* what the NIC could count of the damage.
LEMMA SideDamage ==
  ASSUME TypeInv, ChainInv, NEW s \in Side, Comparable(s), NEW n,
         NEW x, x = sideFacts(res.initial[s], res.final[s], n)
  PROVE  /\ x.DeltaOK /\ Damage(s) \in Nat
         /\ CountsByCause(conf.nic[s]) => x.CRCClassErrors + x.JabberSizeErrors = Damage(s)
         /\ CountsDamage(conf.nic[s]) /\ Damage(s) > 0 =>
              x.CRCClassErrors > 0 \/ x.UnclassifiedRXErrors > 0 \/ x.JabberSizeErrors > 0
<1> DEFINE b == res.initial[s]  a == res.final[s]  nic == conf.nic[s]
<1>1. /\ b # Absent /\ a # Absent /\ DOMAIN b.std = DOMAIN a.std /\ b.at.resets = a.at.resets
      /\ res \in Results(conf) /\ conf \in Confs
  BY ResType DEF Comparable
<1>2. b \in Snapshots /\ a \in Snapshots /\ nic \in NICs
  BY <1>1, ConfType DEF Results
<1>3. PICK h, g \in HW, c, d \in Nat :
        /\ Shows(b, nic, h, c) /\ Shows(a, nic, g, d) /\ Leq(h, g) /\ c <= d
  <2>1. Chain(b, a, nic, hw[s], link.changes)
    BY DEF ChainInv, Chained
  <2> QED BY <1>1, <2>1 DEF Chain
<1>4. h.resets = g.resets /\ Damage(s) = g.corrupt - h.corrupt
  BY <1>1, <1>3 DEF Shows, Damage
<1>5. x = sideFacts(b, a, n)
  OBVIOUS
<1> HIDE DEF b, a, nic
<1>6. /\ h.rx_crc \in Nat /\ h.rx_length \in Nat /\ h.rx_missed \in Nat /\ h.tx_carrier \in Nat
      /\ g.rx_crc \in Nat /\ g.rx_length \in Nat /\ g.rx_missed \in Nat /\ g.tx_carrier \in Nat
      /\ h.corrupt \in Nat /\ g.corrupt \in Nat
  BY HWTyped
<1>7. /\ h.rx_crc <= g.rx_crc /\ h.rx_length <= g.rx_length
      /\ h.rx_missed <= g.rx_missed /\ h.tx_carrier <= g.tx_carrier /\ h.corrupt <= g.corrupt
      /\ (g.rx_crc - h.rx_crc) + (g.rx_length - h.rx_length) = g.corrupt - h.corrupt
  BY <1>3, <1>4 DEF Leq
<1>7a. Folded(nic, h) \in Nat /\ Folded(nic, g) \in Nat /\ Folded(nic, h) <= Folded(nic, g)
  BY <1>6, <1>7 DEF Folded
<1>8. \A k \in Keys : Tally(nic, h, k) <= Tally(nic, g, k)
  <2>1. h.rx_crc + h.rx_length + Folded(nic, h) <= g.rx_crc + g.rx_length + Folded(nic, g)
    BY <1>6, <1>7, <1>7a
  <2> QED BY <1>7, <2>1, TallyTyped DEF Keys, Tallies
<1>9. \A k \in DOMAIN b.std : b.std[k] \in Nat /\ a.std[k] \in Nat /\ b.std[k] <= a.std[k]
  <2> SUFFICES ASSUME NEW k \in DOMAIN b.std
               PROVE  b.std[k] \in Nat /\ a.std[k] \in Nat /\ b.std[k] <= a.std[k]
    OBVIOUS
  <2>1. CASE k = "link_resets"
    <3>1. b.std[k] = c /\ a.std[k] = d
      BY <1>2, <1>3, <2>1, ShownKeys
    <3> QED BY <1>3, <3>1
  <2>2. CASE k # "link_resets"
    <3>1. b.std[k] = Tally(nic, h, k) /\ k \in Keys
      BY <1>2, <1>3, <2>2, ShownKeys
    <3>2. a.std[k] = Tally(nic, g, k)
      BY <1>1, <1>2, <1>3, <2>2, ShownKeys
    <3> QED BY <1>8, <3>1, <3>2, TallyTyped
  <2> QED BY <2>1, <2>2
<1>10. DeltaReliable(b, a)
  <2>1. DeltaSet(b, a) = [k \in DOMAIN b.std \cap DOMAIN a.std |-> CounterDelta(b.std[k], a.std[k])]
    BY <1>1 DEF DeltaSet
  <2>2. \A k \in DOMAIN b.std : CounterDelta(b.std[k], a.std[k]).ok
    BY <1>9 DEF CounterDelta
  <2> QED BY <1>1, <2>1, <2>2 DEF DeltaReliable
<1>11. HasCounters(b) /\ HasCounters(a)
  <2>1. "link_resets" \in DOMAIN b.std
    BY <1>2, <1>3, ShownKeys
  <2> QED BY <1>1, <2>1 DEF HasCounters
<1>12. x.DeltaOK
  BY <1>5, <1>10, <1>11, ReliableSide
<1>13. \A k \in Keys : sum(DeltaSet(b, a), k) =
         IF k \in nic.exposed \cup nic.tracked THEN Tally(nic, g, k) - Tally(nic, h, k) ELSE 0
  BY <1>1, <1>2, <1>3, <1>8, Gained
<1> DEFINE y == sum(DeltaSet(b, a), "rx_crc")  z == sum(DeltaSet(b, a), "rx_length")
           w == sum(DeltaSet(b, a), "rx_errors_total")
<1>14. /\ x.CRCClassErrors = y /\ x.JabberSizeErrors = z /\ x.UnclassifiedRXErrors = Minus(w, y + z)
  BY <1>5 DEF sideFacts, unclassifiedRXErrors
<1> DEFINE E == nic.exposed \cup nic.tracked
<1>15. /\ y = IF "rx_crc" \in E THEN g.rx_crc - h.rx_crc ELSE 0
       /\ z = IF "rx_length" \in E THEN g.rx_length - h.rx_length ELSE 0
       /\ w = IF "rx_errors_total" \in E
              THEN (g.rx_crc + g.rx_length + Folded(nic, g)) - (h.rx_crc + h.rx_length + Folded(nic, h))
              ELSE 0
  <2>1. "rx_crc" \in Keys /\ "rx_length" \in Keys /\ "rx_errors_total" \in Keys
    BY DEF Keys, Tallies
  <2> QED BY <1>13, <2>1, TallyTyped
<1> HIDE DEF y, z, w, E
<1>16. Damage(s) \in Nat
  BY <1>4, <1>6, <1>7
<1>17. CountsByCause(conf.nic[s]) => y + z = Damage(s)
  <2>1. CountsByCause(conf.nic[s]) => "rx_crc" \in E /\ "rx_length" \in E
    BY DEF CountsByCause, E, nic
  <2> QED BY <1>4, <1>6, <1>7, <1>15, <2>1
<1>18. CountsDamage(conf.nic[s]) /\ Damage(s) > 0 => y > 0 \/ z > 0 \/ Minus(w, y + z) > 0
  <2>1. CASE CountsByCause(conf.nic[s])
    <3>1. y \in Nat /\ z \in Nat
      BY <1>6, <1>7, <1>15
    <3> QED BY <1>16, <1>17, <2>1, <3>1
  <2>2. CASE "rx_errors_total" \in E
    <3>1. y \in Nat /\ z \in Nat
      BY <1>6, <1>7, <1>15
    <3>2. w \in Nat /\ w >= Damage(s)
      BY <1>4, <1>6, <1>7, <1>7a, <1>15, <2>2
    <3> QED BY <1>16, <3>1, <3>2 DEF Minus
  <2> QED BY <2>1, <2>2 DEF CountsDamage, E, nic
<1> QED BY <1>12, <1>14, <1>16, <1>17, <1>18

\* A total over the reliable sides is at least what one of them shows.
LEMMA TotalAtLeast ==
  ASSUME NEW f, NEW field, \A t \in Side : f.side[t][field] \in Nat, NEW s \in Reliable(f)
  PROVE  sumReliableSides(f, field) \in Nat /\ f.side[s][field] <= sumReliableSides(f, field)
<1>1. f.side["PC1"][field] \in Nat /\ f.side["PC2"][field] \in Nat /\ s \in {"PC1", "PC2"}
  BY DEF Side, Reliable
<1> DEFINE u == f.side["PC1"][field]  v == f.side["PC2"][field]
<1>2. sumReliableSides(f, field) = (IF "PC1" \in Reliable(f) THEN u ELSE 0) + (IF "PC2" \in Reliable(f) THEN v ELSE 0)
  BY DEF sumReliableSides, SumOver, Side
<1>3. CASE s = "PC1"
  BY <1>1, <1>2, <1>3
<1>4. CASE s = "PC2"
  BY <1>1, <1>2, <1>4
<1> QED BY <1>1, <1>3, <1>4

\* The rules about damaged frames.
LEMMA DamageGraded ==
  ASSUME NEW f, crcTotal(f) \in Nat, unclassifiedRXTotal(f) \in Nat, jabberTotal(f) \in Nat
  PROVE  /\ crcTotal(f) > 0 => rulePHY02(f) >= SevWarning
         /\ crcTotal(f) > 10 /\ crcTotal(f) > unclassifiedRXTotal(f) => rulePHY02(f) >= SevPoor
         /\ jabberTotal(f) > 0 => rulePHY09(f) >= SevWarning
         /\ jabberTotal(f) > 10 => rulePHY09(f) >= SevPoor
<1> DEFINE lossy == anyPingLossOver(f, Default.CRCCorroboratingPingLossAbove)
<1>1. Default.CRCPoorAbove = 10 /\ Default.CRCFailedAbove = 1000 /\ Default.FrameSizePoorAbove = 10
  BY DEF Default
<1>2. rulePHY02(f) = IF crcTotal(f) > 10 /\ lossy THEN SevFailed
     ELSE IF crcTotal(f) > 0 /\ crcTotal(f) = unclassifiedRXTotal(f) THEN SevWarning
     ELSE Graded(crcTotal(f), 10, 1000)
  BY <1>1 DEF rulePHY02
<1>3. rulePHY09(f) = Graded(jabberTotal(f), 10, NoBoundary)
  BY <1>1 DEF rulePHY09
<1> HIDE DEF lossy
<1>4. \A t \in Nat : t > 0 => Graded(t, 10, 1000) >= SevWarning /\ Graded(t, 10, NoBoundary) >= SevWarning
  BY DEF Graded, SevWarning, SevPoor, SevFailed, None, NoBoundary
<1>5. \A t \in Nat : t > 10 => Graded(t, 10, 1000) >= SevPoor /\ Graded(t, 10, NoBoundary) >= SevPoor
  BY DEF Graded, SevWarning, SevPoor, SevFailed, None, NoBoundary
<1>6. SevFailed >= SevPoor /\ SevFailed >= SevWarning /\ SevWarning >= SevWarning
  BY DEF SevWarning, SevPoor, SevFailed
<1>7. crcTotal(f) > 0 => rulePHY02(f) >= SevWarning
  BY <1>2, <1>4, <1>6
<1>8. crcTotal(f) > 10 /\ crcTotal(f) > unclassifiedRXTotal(f) => rulePHY02(f) >= SevPoor
  BY <1>2, <1>5, <1>6
<1>9. jabberTotal(f) > 0 => rulePHY09(f) >= SevWarning
  BY <1>3, <1>4
<1>10. jabberTotal(f) > 10 => rulePHY09(f) >= SevPoor
  BY <1>3, <1>5
<1> QED BY <1>7, <1>8, <1>9, <1>10

LEMMA DamageFound ==
  ASSUME TypeInv, RenderInv, ChainInv, Final, NEW s \in Side, Comparable(s), CountsDamage(conf.nic[s]),
         Damage(s) > 0
  PROVE  /\ report.class \notin {"EXCELLENT", "GOOD"}
         /\ report.class = "INCONCLUSIVE" => report.findings.HOST02 # None
         /\ Damage(s) > 20 /\ CountsByCause(conf.nic[s]) => Convicts
<1> DEFINE f == Facts(plan.err, TRUE)  F == Findings(plan.err, TRUE)
<1>1. plan.err \in BOOLEAN /\ report.class = classify(F) /\ report.findings = F /\ F = Rules(f) /\ TRUE \in BOOLEAN
  BY FinalIs DEF Findings
<1>2. f = Facts(plan.err, TRUE)
  OBVIOUS
<1> HIDE DEF f, F
<1>3. Sound(F)
  BY <1>1, RulesSound
<1>4. /\ crcTotal(f) \in Nat /\ unclassifiedRXTotal(f) \in Nat /\ jabberTotal(f) \in Nat
  BY <1>1, <1>2, RunTotals
<1>5. \A t \in Side :
        /\ f.side[t] = sideFacts(res.initial[t], res.final[t], SelfInflicted(t))
        /\ f.side[t].CRCClassErrors \in Nat /\ f.side[t].UnclassifiedRXErrors \in Nat
        /\ f.side[t].JabberSizeErrors \in Nat
  BY <1>1, <1>2, SidesTyped
<1> DEFINE x == f.side[s]
<1>6. x = sideFacts(res.initial[s], res.final[s], SelfInflicted(s))
  BY <1>5
<1>7. x.DeltaOK /\ Damage(s) \in Nat
  BY <1>6, SideDamage
<1>8. CountsByCause(conf.nic[s]) => x.CRCClassErrors + x.JabberSizeErrors = Damage(s)
  BY <1>6, SideDamage
<1>9. x.CRCClassErrors > 0 \/ x.UnclassifiedRXErrors > 0 \/ x.JabberSizeErrors > 0
  BY <1>6, SideDamage
<1>10. s \in Reliable(f)
  BY <1>7 DEF Reliable
<1>11. sumReliableSides(f, "CRCClassErrors") \in Nat /\ x.CRCClassErrors <= sumReliableSides(f, "CRCClassErrors")
  BY <1>5, <1>10, TotalAtLeast
<1>12. x.UnclassifiedRXErrors <= unclassifiedRXTotal(f)
  BY <1>5, <1>10, TotalAtLeast DEF unclassifiedRXTotal
<1>13. x.JabberSizeErrors <= jabberTotal(f)
  BY <1>5, <1>10, TotalAtLeast DEF jabberTotal
<1>14. crcTotal(f) = sumReliableSides(f, "CRCClassErrors") + unclassifiedRXTotal(f)
  BY DEF crcTotal
<1>15. x.CRCClassErrors \in Nat /\ x.UnclassifiedRXErrors \in Nat /\ x.JabberSizeErrors \in Nat
  BY <1>5
<1> HIDE DEF x
<1>16. crcTotal(f) > 0 \/ jabberTotal(f) > 0
  BY <1>4, <1>9, <1>11, <1>12, <1>13, <1>14, <1>15
<1>17. F["PHY02"] = rulePHY02(f) /\ F["PHY09"] = rulePHY09(f) /\ "PHY02" \in Physical /\ "PHY09" \in Physical
  BY <1>1, RuleValues DEF Physical
<1>18. F["PHY02"] >= SevWarning \/ F["PHY09"] >= SevWarning
  BY <1>4, <1>16, <1>17, DamageGraded
<1>19. classify(F) \notin {"EXCELLENT", "GOOD"} /\ (classify(F) = "INCONCLUSIVE" => F.HOST02 # None)
  BY <1>3, <1>17, <1>18, PhysicalWarns
<1>20. ASSUME Damage(s) > 20, CountsByCause(conf.nic[s]) PROVE Convicts
  <2>1. x.CRCClassErrors > 10 \/ x.JabberSizeErrors > 10
    BY <1>7, <1>8, <1>15, <1>20
  <2>2. (crcTotal(f) > 10 /\ crcTotal(f) > unclassifiedRXTotal(f)) \/ jabberTotal(f) > 10
    BY <1>4, <1>11, <1>13, <1>14, <1>15, <2>1
  <2>3. F["PHY02"] >= SevPoor \/ F["PHY09"] >= SevPoor
    BY <1>4, <1>17, <2>2, DamageGraded
  <2>4. classify(F) \in {"POOR", "FAILED"}
    BY <1>3, <1>17, <2>3, PhysicalConvicts
  <2> QED BY <1>1, <2>4 DEF Convicts
<1> QED BY <1>1, <1>19, <1>20

\* Frames damaged between a side's two snapshots are never passed over, for
\* every kind of NIC, any number of them, and whatever else happens to the run.
THEOREM DamageReported == Spec => []CorruptionReported
<1>1. TypeInv /\ RenderInv /\ ChainInv => CorruptionReported
  BY DamageFound DEF CorruptionReported
<1> QED BY <1>1, Chains, PTL
=============================================================================
