---------------------------- MODULE VerdictProofs ----------------------------
(***************************************************************************)
(* Proofs that the cable is not convicted without cause (TestPlan,         *)
(* Evaluate), for every plan, every NIC and any number of disturbances:    *)
(*   - a run without a fault of the cable is POOR or FAILED only over full *)
(*     rings taken for damage on a busy host, or over a link that the      *)
(*     diagnostics left down where no counters say better;                 *)
(*   - one slow trial among several is a warning and no conviction.        *)
(*                                                                         *)
(* Both are about runs whose only faults are slow trials.  In such a run   *)
(* the world is quiet: the link changes after the snapshots and inside the *)
(* diagnostics' window, where the monitor marks the change as the tool's   *)
(* own, but for the return of a link that the window was closed on         *)
(* (QuietInv, Spans).  What it measures is tidy: no echo is lost, no       *)
(* datagram of a run that counts, and a trial is slow at worst, unless the *)
(* host was busy (FineInv); two slow trials are two faults, as each        *)
(* carries its step and cycle (Dated); and a soak without a whole cycle    *)
(* keeps no trial (BareInv).  The rules then find nothing physical         *)
(* (SoundFacts, PhysicalNone) or, where full rings pass for damage, a      *)
(* warning at most (PhysicalMild); a busy host excuses what is left of a   *)
(* sound cable (BusyExcuses), and with cool hosts only a slow trial could  *)
(* weigh (CoolRules, PoorIsSlow), which the cap takes away (SlowDeviates). *)
(***************************************************************************)
EXTENDS TestPlanProofs

-----------------------------------------------------------------------------
(* Runs whose only faults are slow trials.                                 *)

AllSlow(F) == \A f \in F : f.name = "slow"
OneSlow(F) == \A f, g \in F : f = g /\ f.name = "slow"

\* The phases in which PC1's window is open.
Diagnosing == plan.phase \in {"testing", "measuring", "end", "close"}
Untouched(snap) == snap # Absent => snap.at.changes = 2
\* The monitor does not hold an event against the cable, unless it is the
\* return of a link that the window was closed on.
Excused(e) == e.selfInflicted \/ (LeftDown /\ e.type = "carrier_restored")
Returned(m) ==
  LeftDown /\ link.up /\ m.last = [carrier |-> FALSE, speed |-> -1, changes |-> link.changes - 1]
\* The changes since n were taken in pairs, or not.
Even(n) == n % 2 = 0

\* What the world looks like in such a run: the link is as it was at the start
\* until the diagnostics take it down, which the snapshots do not see and the
\* monitor records as the tool's own doing; only its return may come later.
LinkKnown ==
  /\ Diagnosing => (link.up <=> Even(link.changes - window["PC1"].from))
  /\ ~Diagnosing => \/ mon["PC1"].last = ReadLinkSnapshot(link) /\ (link.up \/ LeftDown)
                    \/ Returned(mon["PC1"])
AllExcused == \A i \in DOMAIN mon["PC1"].history : Excused(mon["PC1"].history[i])
Quiet ==
  /\ conf.speed >= 1000 /\ link.speed = conf.speed
  /\ \A s \in Side : hw[s].corrupt = 0
  /\ plan.phase \in {"base", "boundary", "salvage"} => link.changes = 2
  /\ LinkKnown /\ AllExcused
  /\ \A s \in Side : Untouched(res.initial[s]) /\ Untouched(res.final[s])
QuietInv == AllSlow(faults) => Quiet

\* A window ends after it began.
Spans ==
  \A s \in Side :
    /\ window[s].from # Absent => window[s].from <= link.changes
    /\ window[s].to # Absent => window[s].from # Absent /\ window[s].from <= window[s].to

\* A step that blames nothing new, or only slow trials, was quiet before.
LEMMA FewerFaults ==
  ASSUME faults \subseteq faults'
  PROVE  /\ AllSlow(faults') => AllSlow(faults)
         /\ OneSlow(faults') => OneSlow(faults)
BY DEF AllSlow, OneSlow

\* One change more, or fewer, is one of the other kind.
LEMMA Parity ==
  /\ Even(0)
  /\ \A a, b \in Int : Even(a + 1 - b) <=> ~Even(a - b)
  /\ \A a \in Int : ~Even(a) <=> a % 2 = 1
<1>1. \A a \in Int : Even(a + 1) <=> ~Even(a)
  BY DEF Even
<1>2. \A a, b \in Int : a - b \in Int /\ a + 1 - b = (a - b) + 1
  OBVIOUS
<1> QED BY <1>1, <1>2 DEF Even

\* A link that comes back in one change is a restored carrier and nothing else.
LEMMA ReturnSeen ==
  ASSUME NEW before, NEW after, before.carrier = FALSE, after.carrier = TRUE, ~(before.speed >= 0),
         ~(after.changes >= before.changes + 2)
  PROVE  detectEvents(before, after) = << "carrier_restored" >>
<1>1. detectEvents(before, after) = ((<< >> \o << "carrier_restored" >>) \o << >>) \o << >>
  BY DEF detectEvents
<1>2. << "carrier_restored" >> \in Seq(EventTypes)
  BY DEF EventTypes
<1>3. << >> \o << "carrier_restored" >> = << "carrier_restored" >>
  BY <1>2, ConcatEmptySeq
<1>4. << "carrier_restored" >> \o << >> = << "carrier_restored" >>
  BY <1>2, ConcatEmptySeq
<1> QED BY <1>1, <1>3, <1>4

\* A poll records nothing against the cable inside the window, or when the
\* link is as it was, or when it is back up after the diagnostics.
LEMMA PolledEvents ==
  ASSUME TypeInv, NEW m \in Monitors, \A i \in DOMAIN m.history : Excused(m.history[i]),
         m.window \/ m.last = ReadLinkSnapshot(link) \/ Returned(m), NEW n, n = pollLocked(m, link)
  PROVE  \A i \in DOMAIN n.history : Excused(n.history[i])
<1> DEFINE snap == ReadLinkSnapshot(link)
           types == detectEvents(m.last, snap)
           events == [i \in DOMAIN types |-> [type |-> types[i], selfInflicted |-> m.window]]
<1>1. types \in Seq(EventTypes) /\ snap \in Reading
  BY EventsTyped, ReadingType
<1>2. m.history \in Seq(Events) /\ m.window \in BOOLEAN
  BY DEF Monitors
<1>3a. DOMAIN types = 1..Len(types) /\ Len(types) \in Nat /\ \A i \in DOMAIN types : types[i] \in EventTypes
  <2> HIDE DEF types
  <2> QED BY <1>1
<1>3b. \A i \in DOMAIN types : [type |-> types[i], selfInflicted |-> m.window] \in Events
  <2> HIDE DEF types
  <2> QED BY <1>2, <1>3a DEF Events
<1>3. events \in Seq(Events) /\ Len(events) = Len(types) /\ DOMAIN types = 1..Len(types)
  <2> HIDE DEF types
  <2> QED BY <1>3a, <1>3b
<1>4. n.history = m.history \o events
  BY DEF pollLocked, Monitors
<1>5. SUFFICES \A i \in DOMAIN events : Excused(events[i])
  <2> HIDE DEF events
  <2> QED BY <1>2, <1>3, <1>4
<1>6. \A i \in DOMAIN events : events[i].selfInflicted = m.window /\ events[i].type = types[i] /\ i \in DOMAIN types
  <2> HIDE DEF types
  <2> QED OBVIOUS
<1>7. CASE m.window
  <2> HIDE DEF events
  <2> QED BY <1>6, <1>7 DEF Excused
<1>8. CASE m.last = snap
  <2>1. types = << >>
    <3>1. snap.changes \in Nat
      BY <1>1 DEF Reading
    <3> HIDE DEF snap
    <3> QED BY <1>8, <3>1 DEF detectEvents
  <2> HIDE DEF events, types
  <2> QED BY <1>6, <2>1
<1>9. CASE Returned(m)
  <2>1. /\ LeftDown /\ m.last = [carrier |-> FALSE, speed |-> -1, changes |-> link.changes - 1]
        /\ snap = [carrier |-> TRUE, speed |-> link.speed, changes |-> link.changes]
        /\ link.changes \in Nat
    BY <1>9, ResType DEF Returned, ReadLinkSnapshot, Link
  <2>2. /\ m.last.carrier = FALSE /\ snap.carrier = TRUE /\ ~(m.last.speed >= 0)
        /\ ~(snap.changes >= m.last.changes + 2)
    <3> HIDE DEF snap
    <3> QED BY <2>1
  <2>3. types = << "carrier_restored" >>
    <3> HIDE DEF snap
    <3> QED BY <2>2, ReturnSeen
  <2> HIDE DEF events, types
  <2> QED BY <1>6, <2>1, <2>3 DEF Excused
<1> QED BY <1>7, <1>8, <1>9

\* So does a boundary of the window.
LEMMA WindowedEvents ==
  ASSUME TypeInv, NEW m \in Monitors, \A i \in DOMAIN m.history : Excused(m.history[i]),
         m.window \/ m.last = ReadLinkSnapshot(link) \/ Returned(m), NEW active \in BOOLEAN,
         NEW n, n = SetCableTestWindow(m, active, link)
  PROVE  \A i \in DOMAIN n.history : Excused(n.history[i])
<1>1. CASE active = m.window
  BY <1>1 DEF SetCableTestWindow
<1>2. CASE active # m.window
  <2> DEFINE p == pollLocked(m, link)
  <2>1. \A i \in DOMAIN p.history : Excused(p.history[i])
    BY PolledEvents
  <2>2. p \in Monitors
    BY PollType
  <2>3. n.history = p.history
    <3> HIDE DEF p
    <3>1. n = [p EXCEPT !.window = active, !.windowEvents = IF active THEN 0 ELSE @]
      BY <1>2 DEF SetCableTestWindow, p
    <3> QED BY <3>1, <2>2 DEF Monitors
  <2> QED BY <2>1, <2>3
<1> QED BY <1>1, <1>2

\* No fault is forgotten.
LEMMA FaultsGrow == ASSUME [Next]_vars PROVE faults \subseteq faults'
<1>1. CASE World \/ UNCHANGED vars
  <2>1. CASE LinkDown \/ LinkUp \/ Renegotiate \/ UNCHANGED vars
    BY <2>1 DEF LinkDown, LinkUp, Renegotiate, BlameWorld, vars
  <2>2. ASSUME NEW s \in Side, NEW n, Reset(s) \/ Poll(s) \/ RingDrop(s, n) PROVE faults \subseteq faults'
    BY <2>2 DEF Reset, Poll, RingDrop
  <2>3. ASSUME NEW s \in Side, NEW key, NEW n, Corrupt(s, key, n) PROVE faults \subseteq faults'
    BY <2>3 DEF Corrupt, BlameWorld
  <2> QED BY <1>1, <2>1, <2>2, <2>3 DEF World
<1>2. CASE BaseStep
  <2>1. CASE stepLink
    BY <2>1 DEF stepLink, Blame
  <2>2. CASE stepInitialCounters \/ stepFinalCounters
    BY <2>2 DEF stepInitialCounters, stepFinalCounters, stepCounters
  <2>3. CASE stepPing \/ stepFullSizePing
    BY <2>3 DEF stepPing, stepFullSizePing, PingBoth, Blame, LocalFails
  <2>4. CASE stepTCPForward \/ stepTCPReverse
    BY <2>4 DEF stepTCPForward, stepTCPReverse, TCPPhase, Blame
  <2>5. CASE stepBidir
    BY <2>5 DEF stepBidir
  <2>6. CASE stepUDP \/ stepReducedUDP
    <3>1. PICK rate : stepUDPAtRate(rate)
      BY <2>6 DEF stepUDP, stepReducedUDP
    <3>2. PICK n1, n2 : UDPBlame({n1, n2}, rate)
      BY <3>1 DEF stepUDPAtRate
    <3>3. \A N : Blame(N) => faults \subseteq faults'
      BY DEF Blame
    <3> QED BY <3>2, <3>3 DEF UDPBlame
  <2>7. CASE cycleCounters \/ commitCycle \/ BudgetExpires
    BY <2>7 DEF cycleCounters, commitCycle, BudgetExpires
  <2> QED BY <1>2, <2>1, <2>2, <2>3, <2>4, <2>5, <2>6, <2>7 DEF BaseStep
<1>3. CASE snapshotCountersDetached \/ salvageFinalCounters
  BY <1>3 DEF snapshotCountersDetached, salvageFinalCounters
<1>4. CASE CableStep
  BY <1>4 DEF CableStep, CableWindowStart, BeginWindow, TesterTakesLinkDown, CableTesterRun, CableWindowEnd,
              EndWindow, Blame
<1>5. CASE Rendering
  BY <1>5 DEF Rendering, renderProvisional, PrepareComplete, finishCoordinator
<1> QED BY <1>1, <1>2, <1>3, <1>4, <1>5, NextCases

\* The steps of the diagnostics: what they do to the windows and the link.
Opens(s, at, next) == plan.phase = at /\ plan'.phase = next /\ link' = link /\ OpenWindow(s)
Idles(at, next) == plan.phase \in at /\ plan'.phase \in next /\ UNCHANGED <<link, mon, window>>
Closes(s, at, next) == plan.phase = at /\ plan'.phase = next /\ link' = link /\ CloseWindow(s)
Drops ==
  /\ plan.phase = "testing" /\ plan'.phase = "measuring" /\ link.up /\ UNCHANGED <<mon, window>>
  /\ link' = [link EXCEPT !.up = FALSE, !.changes = @ + 1]
LEMMA CableMoves ==
  ASSUME TypeInv, CableStep
  PROVE  \/ Opens("PC2", "cable", "begin") \/ Opens("PC1", "begin", "testing") \/ Drops
         \/ Idles({"cable"}, {"finish"}) \/ Idles({"testing", "measuring"}, {"end", "close"})
         \/ Idles({"end"}, {"close"}) \/ Closes("PC2", "end", "close")
         \/ Closes("PC1", "close", "finish")
<1>0. plan \in Plans(conf)
  BY ResType
<1>1. CASE CableWindowStart
  <2>1. CASE OpenWindow("PC2") /\ plan' = [plan EXCEPT !.phase = "begin"]
    BY <1>0, <1>1, <2>1 DEF CableWindowStart, Opens, Plans
  <2>2. CASE plan' = [plan EXCEPT !.phase = "finish"] /\ UNCHANGED <<mon, window>>
    BY <1>0, <1>1, <2>2 DEF CableWindowStart, Idles, Plans
  <2> QED BY <1>1, <2>1, <2>2 DEF CableWindowStart
<1>2. CASE BeginWindow
  BY <1>0, <1>2 DEF BeginWindow, Opens, Plans
<1>3. CASE TesterTakesLinkDown
  BY <1>0, <1>3 DEF TesterTakesLinkDown, Drops, Plans
<1>4. CASE CableTesterRun
  BY <1>4, TesterStep DEF Idles
<1>5. CASE CableWindowEnd
  BY <1>5, WindowEndStep DEF Idles, Closes
<1>6. CASE EndWindow
  BY <1>6, EndWindowStep DEF Closes
<1> QED BY <1>1, <1>2, <1>3, <1>4, <1>5, <1>6 DEF CableStep

\* Windows that stay as they are, one that is opened, one that is closed.
LEMMA SpansStay ==
  ASSUME TypeInv, Spans, window' = window, link'.changes \in Nat, link.changes <= link'.changes
  PROVE  Spans'
<1>1. \A s \in Side : window[s].from # Absent => window[s].from \in Int
  BY ResType DEF Ends2
<1>2. link.changes \in Nat
  BY ResType DEF Link
<1> QED BY <1>1, <1>2 DEF Spans

LEMMA SpansOpen ==
  ASSUME TypeInv, Spans, NEW s \in Side, OpenWindow(s), window[s].to = Absent, link' = link
  PROVE  Spans'
<1>1. /\ window'[s].from = link.changes /\ window'[s].to = Absent
      /\ \A t \in Side : t # s => window'[t] = window[t]
  BY Opening
<1>2. link.changes \in Nat
  BY ResType DEF Link
<1> QED BY <1>1, <1>2 DEF Spans

LEMMA SpansClose ==
  ASSUME TypeInv, Spans, NEW s \in Side, CloseWindow(s), Open(s), link' = link
  PROVE  Spans'
<1>1. /\ window'[s].to = link.changes /\ window'[s].from = window[s].from
      /\ \A t \in Side : t # s => window'[t] = window[t]
  BY Closing
<1>2. window[s].from # Absent
  BY AbsentAssumption DEF Open
<1> QED BY <1>1, <1>2 DEF Spans

LEMMA SpansNext == ASSUME TypeInv, RenderInv, WindowInv, Spans, [Next]_vars PROVE Spans'
<1>0. link.changes \in Nat /\ "PC1" \in Side /\ "PC2" \in Side
  BY ResType DEF Link, Side
<1>1. CASE World \/ UNCHANGED vars
  BY <1>1, WorldRendering, WorldLeq, SpansStay
<1>2. CASE BaseStep
  <2>1. UNCHANGED <<link, window>>
    BY <1>2, BaseFrame
  <2> QED BY <1>0, <2>1, SpansStay
<1>3. CASE snapshotCountersDetached \/ salvageFinalCounters
  <2>1. UNCHANGED <<link, window>>
    BY <1>3 DEF snapshotCountersDetached, salvageFinalCounters, Unmoved
  <2> QED BY <1>0, <2>1, SpansStay
<1>4. CASE CableStep
  <2>1. CASE Opens("PC2", "cable", "begin") \/ Opens("PC1", "begin", "testing")
    BY <1>0, <2>1, SpansOpen DEF Opens, WindowInv
  <2>2. CASE Drops \/ UNCHANGED <<link, window>>
    <3>1. window' = window /\ link'.changes \in Nat /\ link.changes <= link'.changes
      BY <1>4, <2>2, CableFrame DEF Drops
    <3> QED BY <3>1, SpansStay
  <2>3. CASE Closes("PC2", "end", "close") \/ Closes("PC1", "close", "finish")
    BY <1>0, <2>3, SpansClose DEF Closes, WindowInv
  <2> QED BY <1>4, <2>1, <2>2, <2>3, CableMoves DEF Idles
<1>5. CASE Rendering
  <2>1. UNCHANGED <<link, window>>
    BY <1>5, RenderStep
  <2> QED BY <1>0, <2>1, SpansStay
<1> QED BY <1>1, <1>2, <1>3, <1>4, <1>5, NextCases

\* What the world blames is not a slow trial.
LEMMA WorldBlamed == ASSUME NEW name, name # "slow", BlameWorld(name) PROVE ~AllSlow(faults')
<1>1. Fault(name, 0, 0) \in faults'
  BY DEF BlameWorld
<1>2. Fault(name, 0, 0).name = name
  BY DEF Fault
<1> QED BY <1>1, <1>2 DEF AllSlow

LEMMA QuietTypes ==
  ASSUME TypeInv
  PROVE  /\ mon["PC1"] \in Monitors /\ "PC1" \in Side /\ plan.phase \in Phases
         /\ link.changes \in Nat /\ link.up \in BOOLEAN
BY ResType DEF Side, Plans, Link

\* Inside the window its last boundary is not known yet.
LEMMA WindowOpen ==
  ASSUME WindowInv
  PROVE  /\ Diagnosing => Open("PC1") /\ ~LeftDown
         /\ plan.phase \in {"base", "boundary", "salvage", "cable", "begin"} => ~LeftDown
BY DEF WindowInv, Diagnosing, Open, LeftDown, Side

\* When the link may be down, the window is open or was closed on it.
LEMMA QuietOrOpen ==
  ASSUME TypeInv, WindowInv, Quiet
  PROVE  mon["PC1"].window \/ mon["PC1"].last = ReadLinkSnapshot(link) \/ Returned(mon["PC1"])
BY WindowOpen DEF Quiet, LinkKnown, Open

\* What a poll of the monitor leaves of them.
LEMMA QuietPoll ==
  ASSUME TypeInv, WindowInv, Quiet, UNCHANGED <<link, window>>, Diagnosing' <=> Diagnosing,
         mon'["PC1"] = pollLocked(mon["PC1"], link)
  PROVE  LinkKnown' /\ AllExcused'
<1> DEFINE n == pollLocked(mon["PC1"], link)
<1>1. \A i \in DOMAIN n.history : Excused(n.history[i])
  BY QuietOrOpen, QuietTypes, PolledEvents DEF Quiet, AllExcused
<1>2. n.last = ReadLinkSnapshot(link)
  BY QuietTypes, PollType
<1>3. (LeftDown' <=> LeftDown) /\ mon'["PC1"] = n
  BY DEF LeftDown
<1>4. ~Diagnosing => link.up \/ LeftDown
  BY DEF Quiet, LinkKnown, Returned
<1> HIDE DEF n
<1>5. AllExcused'
  BY <1>1, <1>3 DEF AllExcused, Excused
<1>6. LinkKnown'
  BY <1>2, <1>3, <1>4 DEF LinkKnown, Quiet
<1> QED BY <1>5, <1>6

\* Nothing that they speak of has changed.
LEMMA QuietStays ==
  ASSUME Quiet, UNCHANGED <<link, window>>, mon'["PC1"] = mon["PC1"], Diagnosing' <=> Diagnosing
  PROVE  LinkKnown' /\ AllExcused'
<1>1. LeftDown' <=> LeftDown
  BY DEF LeftDown
<1> QED BY <1>1 DEF Quiet, LinkKnown, AllExcused, Excused, Returned

\* The facts of the run that are not the link's or the monitor's.
Steady == UNCHANGED <<conf, hw>> /\ res'.initial = res.initial /\ res'.final = res.final
LEMMA QuietMoves ==
  ASSUME TypeInv, Quiet, Steady, link'.speed = link.speed,
         plan'.phase \in {"base", "boundary", "salvage"} => link'.changes = 2,
         LinkKnown', AllExcused'
  PROVE  Quiet'
BY DEF Quiet, Steady, Untouched

LEMMA QuietWorld ==
  ASSUME TypeInv, WindowInv, QuietInv, World \/ UNCHANGED vars, faults \subseteq faults' PROVE QuietInv'
<1> SUFFICES ASSUME AllSlow(faults') PROVE Quiet'
  BY DEF QuietInv
<1>1. Quiet
  BY FewerFaults DEF QuietInv
<1>2. UNCHANGED <<conf, plan, res, window>> /\ (Diagnosing' <=> Diagnosing) /\ (LeftDown' <=> LeftDown)
  BY WorldRendering DEF Diagnosing, LeftDown
<1>3. ~(\E s \in Side, c \in Corruptions : Corrupt(s, c[1], c[2]))
  <2>1. SUFFICES ASSUME NEW s \in Side, NEW c \in Corruptions, Corrupt(s, c[1], c[2]) PROVE FALSE
    OBVIOUS
  <2>2. c[1] # "slow"
    BY DEF Corruptions
  <2> QED BY <2>1, <2>2, WorldBlamed DEF Corrupt
<1>4. ~LinkDown /\ ~Renegotiate
  BY WorldBlamed DEF LinkDown, Renegotiate
<1>5. CASE UNCHANGED vars
  <2>1. UNCHANGED <<link, mon, hw>>
    BY <1>5 DEF vars
  <2> QED BY <1>1, <1>2, <2>1, QuietStays, QuietMoves DEF Steady, Quiet
<1>6. CASE LinkUp
  <2>1. ~link.up /\ link' = [link EXCEPT !.up = TRUE, !.changes = @ + 1] /\ UNCHANGED <<hw, mon>>
    BY <1>6 DEF LinkUp, WorldMoves
  <2>2. Diagnosing \/ (LeftDown /\ mon["PC1"].last = ReadLinkSnapshot(link))
    BY <1>1, <2>1 DEF Quiet, LinkKnown, Returned
  <2>3. plan.phase \notin {"base", "boundary", "salvage"}
    BY <2>2, WindowOpen DEF Diagnosing
  <2>4. link'.speed = link.speed /\ link'.up /\ link'.changes = link.changes + 1 /\ link.changes \in Nat
    BY <2>1, ResType DEF Link
  <2>5. AllExcused'
    BY <1>1, <1>2, <2>1 DEF Quiet, AllExcused, Excused
  <2>6. Diagnosing => Even(link'.changes - window["PC1"].from)
    <3>1. SUFFICES ASSUME Diagnosing PROVE Even(link'.changes - window["PC1"].from)
      OBVIOUS
    <3>2. ~Even(link.changes - window["PC1"].from)
      BY <1>1, <2>1, <3>1 DEF Quiet, LinkKnown
    <3>3. window["PC1"].from \in Int
      BY <3>1, WindowOpen, ResType DEF Open, Ends2
    <3> QED BY <2>4, <3>2, <3>3, Parity
  <2>7. ~Diagnosing => Returned(mon["PC1"])'
    <3>1. SUFFICES ASSUME LeftDown, mon["PC1"].last = ReadLinkSnapshot(link) PROVE Returned(mon["PC1"])'
      BY <2>2
    <3>2. link.up = FALSE /\ link.changes = link'.changes - 1
      BY <2>1, <2>4, QuietTypes
    <3>3. mon["PC1"].last = [carrier |-> FALSE, speed |-> -1, changes |-> link'.changes - 1]
      BY <3>1, <3>2 DEF ReadLinkSnapshot
    <3> QED BY <1>2, <2>1, <2>4, <3>1, <3>3 DEF Returned
  <2>8. LinkKnown'
    BY <1>2, <2>4, <2>6, <2>7 DEF LinkKnown
  <2> QED BY <1>1, <1>2, <2>1, <2>3, <2>4, <2>5, <2>8, QuietMoves DEF Steady
<1>7. CASE \E s \in Side : Reset(s) \/ RingDrop(s, 5) \/ RingDrop(s, 200)
  <2>1. UNCHANGED <<link, mon>> /\ \A s \in Side : hw'[s].corrupt = hw[s].corrupt
    <3>1. PICK s \in Side : Reset(s) \/ RingDrop(s, 5) \/ RingDrop(s, 200)
      BY <1>7
    <3>2. UNCHANGED <<link, mon>>
      BY <3>1 DEF Reset, RingDrop, WorldMoves
    <3>3. \A f \in faults' : f.name \notin {"rx_crc", "rx_length"}
      BY DEF AllSlow
    <3>4. \A t \in Side : hw'[t].corrupt = hw[t].corrupt
      BY <3>3, WorldLeq
    <3> QED BY <3>2, <3>4
  <2>2. LinkKnown' /\ AllExcused'
    BY <1>1, <1>2, <2>1, QuietStays
  <2> QED BY <1>1, <1>2, <2>1, <2>2 DEF Quiet, Untouched
<1>8. CASE \E s \in Side : Poll(s)
  <2>1. PICK s \in Side : Poll(s)
    BY <1>8
  <2>2. UNCHANGED <<hw, link>> /\ mon' = [mon EXCEPT ![s] = pollLocked(mon[s], link)]
    BY <2>1 DEF Poll
  <2>3. CASE s # "PC1"
    <3>1. mon'["PC1"] = mon["PC1"]
      BY <2>2, <2>3, ResType DEF Side
    <3> QED BY <1>1, <1>2, <2>2, <3>1, QuietStays, QuietMoves DEF Steady, Quiet
  <2>4. CASE s = "PC1"
    <3>1. mon'["PC1"] = pollLocked(mon["PC1"], link)
      BY <2>2, <2>4, ResType
    <3> QED BY <1>1, <1>2, <2>2, <3>1, QuietPoll, QuietMoves DEF Steady, Quiet
  <2> QED BY <2>3, <2>4
<1> QED BY <1>3, <1>4, <1>5, <1>6, <1>7, <1>8 DEF World

\* A snapshot taken before the diagnostics.
LEMMA SnapshotUntouched ==
  ASSUME NEW s, link.changes = 2 PROVE Untouched(Snapshot(s))
BY DEF Untouched, Snapshot

LEMMA QuietBase ==
  ASSUME TypeInv, QuietInv, BaseStep, faults \subseteq faults' PROVE QuietInv'
<1> SUFFICES ASSUME AllSlow(faults') PROVE Quiet'
  BY DEF QuietInv
<1>1. Quiet
  BY FewerFaults DEF QuietInv
<1>2. UNCHANGED <<conf, link, hw, mon, window>> /\ plan.phase = "base" /\ plan'.phase \in AfterPhases
  BY BaseFrame
<1>3. ~Diagnosing /\ ~Diagnosing' /\ link.changes = 2
  BY <1>1, <1>2 DEF Diagnosing, AfterPhases, Quiet
<1>4. \A s \in Side : Untouched(res'.initial[s]) /\ Untouched(res'.final[s])
  <2>1. CASE ~stepInitialCounters /\ ~stepFinalCounters
    BY <1>1, <2>1, BaseSnapshots DEF Quiet
  <2>2. CASE stepInitialCounters
    <3>1. stepCounters("initial", "initial")
      BY <2>2 DEF stepInitialCounters
    <3>2. \A s \in Side : res'["initial"][s] = res["initial"][s] \/ res'["initial"][s] = Snapshot(s)
      BY <3>1, CountersTaken
    <3>3. res'.final = res.final
      BY <3>1, CountersTaken
    <3> QED BY <1>1, <1>3, <3>2, <3>3, SnapshotUntouched DEF Quiet
  <2>3. CASE stepFinalCounters
    <3>1. stepCounters("final", "final")
      BY <2>3 DEF stepFinalCounters
    <3>2. \A s \in Side : res'["final"][s] = res["final"][s] \/ res'["final"][s] = Snapshot(s)
      BY <3>1, CountersTaken
    <3>3. res'.initial = res.initial
      BY <3>1, CountersTaken
    <3> QED BY <1>1, <1>3, <3>2, <3>3, SnapshotUntouched DEF Quiet
  <2> QED BY <2>1, <2>2, <2>3
<1>5. LinkKnown' /\ AllExcused'
  BY <1>1, <1>2, <1>3, QuietStays
<1> QED BY <1>1, <1>2, <1>3, <1>4, <1>5 DEF Quiet

\* The detached snapshots come before the diagnostics too.
LEMMA QuietDetached ==
  ASSUME TypeInv, QuietInv, snapshotCountersDetached \/ salvageFinalCounters, faults \subseteq faults'
  PROVE  QuietInv'
<1> SUFFICES ASSUME AllSlow(faults') PROVE Quiet'
  BY DEF QuietInv
<1>1. Quiet
  BY FewerFaults DEF QuietInv
<1>2. /\ UNCHANGED <<conf, link, hw, mon, window>> /\ plan.phase \in {"boundary", "salvage"}
      /\ plan'.phase \in {"finish", "cable"}
  BY BoundaryStep, SalvageStep DEF Unmoved
<1>3. ~Diagnosing /\ ~Diagnosing' /\ link.changes = 2
  BY <1>1, <1>2 DEF Diagnosing, Quiet
<1>4. \A o \in Detached : \A s \in Side : Untouched(SnapshotDetached(o)[s])
  <2>1. Untouched(Absent)
    BY DEF Untouched
  <2> QED BY <1>3, <2>1, DetachedType, SnapshotUntouched
<1>5. res'.initial = res.initial /\ \A s \in Side : Untouched(res'.final[s])
  <2>1. CASE snapshotCountersDetached
    <3>1. PICK o \in Detached :
            Same(res', res, {"final", "incomplete"}) /\ res'.final = SnapshotDetached(o)
      BY <2>1, BoundaryStep
    <3> QED BY <1>4, <3>1 DEF Same, FieldNames
  <2>2. CASE salvageFinalCounters /\ res' = res
    BY <1>1, <2>2 DEF Quiet
  <2>3. CASE salvageFinalCounters /\ res' # res
    <3>1. PICK o \in Detached : Same(res', res, {"final"}) /\ res'.final = SnapshotDetached(o)
      BY <2>3, SalvageStep
    <3> QED BY <1>4, <3>1 DEF Same, FieldNames
  <2> QED BY <2>1, <2>2, <2>3
<1>6. LinkKnown' /\ AllExcused'
  BY <1>1, <1>2, <1>3, QuietStays
<1> QED BY <1>1, <1>2, <1>3, <1>5, <1>6 DEF Quiet

LEMMA QuietCable ==
  ASSUME TypeInv, WindowInv, QuietInv, CableStep, faults \subseteq faults' PROVE QuietInv'
<1> SUFFICES ASSUME AllSlow(faults') PROVE Quiet'
  BY DEF QuietInv
<1>1. Quiet
  BY FewerFaults DEF QuietInv
<1>2. Steady
  BY CableFrame DEF Steady, Same, FieldNames
<1>3. link.changes \in Nat /\ link.up \in BOOLEAN /\ "PC1" \in Side /\ mon["PC1"] \in Monitors
  BY QuietTypes
<1>4. CASE Opens("PC2", "cable", "begin") \/ Closes("PC2", "end", "close")
  <2>1. mon'["PC1"] = mon["PC1"] /\ window'["PC1"] = window["PC1"] /\ link' = link
    BY <1>4, Opening, Closing DEF Opens, Closes, Side
  <2>2. plan'.phase \notin {"base", "boundary", "salvage"} /\ (Diagnosing' <=> Diagnosing)
    BY <1>4 DEF Opens, Closes, Diagnosing
  <2>3. LeftDown' <=> LeftDown
    BY <2>1 DEF LeftDown
  <2>4. LinkKnown' /\ AllExcused'
    BY <1>1, <2>1, <2>2, <2>3 DEF Quiet, LinkKnown, AllExcused, Excused, Returned
  <2> QED BY <1>1, <1>2, <2>1, <2>2, <2>4, QuietMoves
<1>5. CASE Opens("PC1", "begin", "testing")
  <2> DEFINE n == SetCableTestWindow(mon["PC1"], TRUE, link)
  <2>1. mon'["PC1"] = n /\ link' = link /\ window'["PC1"].from = link.changes
    BY <1>3, <1>5, Opening DEF Opens
  <2>2. ~LeftDown /\ ~Diagnosing
    BY <1>5, WindowOpen DEF Opens, Diagnosing
  <2>3. link.up /\ mon["PC1"].last = ReadLinkSnapshot(link)
    BY <1>1, <2>2 DEF Quiet, LinkKnown, Returned
  <2>4. \A i \in DOMAIN n.history : Excused(n.history[i])
    BY <1>1, <1>3, <2>3, WindowedEvents DEF Quiet, AllExcused
  <2>5. plan'.phase \notin {"base", "boundary", "salvage"} /\ Diagnosing'
    BY <1>5 DEF Opens, Diagnosing
  <2> HIDE DEF n
  <2>6. AllExcused'
    BY <2>1, <2>2, <2>4 DEF AllExcused, Excused
  <2>7. link.changes - link.changes = 0
    BY <1>3
  <2>8. LinkKnown'
    BY <2>1, <2>3, <2>5, <2>7, Parity DEF LinkKnown
  <2> QED BY <1>1, <1>2, <2>1, <2>5, <2>6, <2>8, QuietMoves
<1>6. CASE Drops
  <2>1. /\ UNCHANGED <<mon, window>> /\ link'.speed = link.speed /\ ~link'.up
        /\ link'.changes = link.changes + 1
    BY <1>6, ResType DEF Drops, Link
  <2>2. plan'.phase \notin {"base", "boundary", "salvage"} /\ Diagnosing' /\ Diagnosing
    BY <1>6 DEF Drops, Diagnosing
  <2>3. window["PC1"].from \in Int
    BY <1>3, <2>2, WindowOpen, ResType DEF Open, Ends2
  <2>4. Even(link.changes - window["PC1"].from)
    BY <1>1, <1>6, <2>2 DEF Quiet, LinkKnown, Drops
  <2>5. LinkKnown'
    BY <1>3, <2>1, <2>2, <2>3, <2>4, Parity DEF LinkKnown
  <2>6. AllExcused'
    <3>1. LeftDown' <=> LeftDown
      BY <2>1 DEF LeftDown
    <3> QED BY <1>1, <2>1, <3>1 DEF Quiet, AllExcused, Excused
  <2> QED BY <1>1, <1>2, <2>1, <2>2, <2>5, <2>6, QuietMoves
<1>7. CASE \/ Idles({"cable"}, {"finish"}) \/ Idles({"testing", "measuring"}, {"end", "close"})
           \/ Idles({"end"}, {"close"})
  <2>1. UNCHANGED <<link, mon, window>>
    BY <1>7 DEF Idles
  <2>2. plan'.phase \notin {"base", "boundary", "salvage"} /\ (Diagnosing' <=> Diagnosing)
    BY <1>7 DEF Idles, Diagnosing
  <2> QED BY <1>1, <1>2, <2>1, <2>2, QuietStays, QuietMoves
<1>8. CASE Closes("PC1", "close", "finish")
  <2> DEFINE n == SetCableTestWindow(mon["PC1"], FALSE, link)
  <2>1. /\ mon'["PC1"] = n /\ link' = link /\ window'["PC1"].from = window["PC1"].from
        /\ window'["PC1"].to = link.changes
    BY <1>3, <1>8, Closing DEF Closes
  <2>2. Diagnosing /\ ~Diagnosing' /\ plan'.phase \notin {"base", "boundary", "salvage"}
    BY <1>8 DEF Closes, Diagnosing
  <2>3. mon["PC1"].window /\ ~LeftDown /\ window["PC1"].from \in Int
    BY <1>3, <2>2, WindowOpen, ResType DEF Open, Ends2
  <2>4. \A i \in DOMAIN n.history : Excused(n.history[i])
    BY <1>1, <1>3, <2>3, WindowedEvents DEF Quiet, AllExcused
  <2>5. n.last = ReadLinkSnapshot(link)
    BY <1>3, <2>3, WindowType
  <2> HIDE DEF n
  <2>6. AllExcused'
    BY <2>1, <2>3, <2>4 DEF AllExcused, Excused
  <2>7. link.up \/ LeftDown'
    <3>1. SUFFICES ASSUME ~link.up PROVE LeftDown'
      OBVIOUS
    <3>2. ~Even(link.changes - window["PC1"].from)
      BY <1>1, <2>2, <3>1 DEF Quiet, LinkKnown
    <3>3. link.changes # Absent /\ link.changes - window["PC1"].from \in Int
      BY <1>3, <2>3, AbsentAssumption
    <3>4. (link.changes - window["PC1"].from) % 2 = 1
      BY <3>2, <3>3, Parity
    <3> QED BY <2>1, <3>3, <3>4 DEF LeftDown
  <2>8. LinkKnown'
    BY <2>1, <2>2, <2>5, <2>7 DEF LinkKnown
  <2> QED BY <1>1, <1>2, <2>1, <2>2, <2>6, <2>8, QuietMoves
<1> QED BY <1>4, <1>5, <1>6, <1>7, <1>8, CableMoves

LEMMA QuietRender == ASSUME TypeInv, RenderInv, WindowInv, QuietInv, Rendering PROVE QuietInv'
<1> SUFFICES ASSUME AllSlow(faults') PROVE Quiet'
  BY DEF QuietInv
<1>1. UNCHANGED <<conf, link, hw, res, faults, window>> /\ plan'.phase \in {"rendering", "done"}
      /\ plan.phase \in {"finish", "rendering"}
  BY RenderStep
<1>2. Quiet
  BY <1>1 DEF QuietInv
<1>3. ~Diagnosing /\ ~Diagnosing' /\ Steady /\ plan'.phase \notin {"base", "boundary", "salvage"}
  BY <1>1 DEF Diagnosing, Steady
<1>4. mon' = mon \/ mon'["PC1"] = pollLocked(mon["PC1"], link)
  <2>1. mon = [mon EXCEPT !["PC1"] = mon["PC1"]]
    BY ResType
  <2> QED BY <2>1, QuietTypes, ResType DEF Rendering, renderProvisional, PrepareComplete, finishCoordinator
<1>5. LinkKnown' /\ AllExcused'
  BY <1>1, <1>2, <1>3, <1>4, QuietStays, QuietPoll
<1> QED BY <1>1, <1>2, <1>3, <1>5, QuietMoves

LEMMA QuietInit == Init => QuietInv
<1> SUFFICES ASSUME Init, AllSlow(faults) PROVE Quiet
  BY DEF QuietInv
<1>1. conf.speed >= 1000
  <2>1. Fault("reduced", 0, 0).name = "reduced"
    BY DEF Fault
  <2>2. conf.speed \in Nat
    BY ConfType DEF Init
  <2> QED BY <2>1, <2>2 DEF Init, AllSlow
<1>2. link.speed = conf.speed /\ link.up /\ link.changes = 2 /\ plan.phase = "base"
  BY DEF Init
<1>3. mon["PC1"].last = ReadLinkSnapshot(link) /\ mon["PC1"].history = << >>
  BY DEF Init, NewMonitor, Side
<1>4. \A s \in Side : hw[s].corrupt = 0 /\ Untouched(res.initial[s]) /\ Untouched(res.final[s])
  BY DEF Init, Fresh, Untouched
<1> QED BY <1>1, <1>2, <1>3, <1>4 DEF Quiet, LinkKnown, AllExcused, Diagnosing

LEMMA SpansInit == Init => Spans
BY DEF Init, Spans

\* The world of a run, and its windows.
RunInv == TypeInv /\ RenderInv /\ WindowInv /\ ChainInv /\ Spans /\ QuietInv
LEMMA QuietNext == ASSUME TypeInv, RenderInv, WindowInv, QuietInv, [Next]_vars PROVE QuietInv'
BY FaultsGrow, NextCases, QuietWorld, QuietBase, QuietDetached, QuietCable, QuietRender

LEMMA RunNext == ASSUME RunInv, [Next]_vars PROVE RunInv'
<1>1. TypeInv' /\ RenderInv'
  BY TypeNext, RenderNext DEF RunInv
<1>2. WindowInv'
  BY NextCases, WindowWorld, WindowBase, WindowCable, WindowRender DEF RunInv
<1>3. ChainInv' /\ Spans' /\ QuietInv'
  BY ChainNext, SpansNext, QuietNext DEF RunInv
<1> QED BY <1>1, <1>2, <1>3 DEF RunInv
LEMMA RunInit == Init => RunInv
BY TypeInit, RenderInit, WindowStart, ChainInit, SpansInit, QuietInit DEF RunInv

-----------------------------------------------------------------------------
(* What such a run measures.                                               *)

\* Echoes that came back, datagrams that arrived wherever the run counts, and
\* TCP trials that are slow at worst, unless the host was too busy.
TidyPing == {e \in Entry(PingM) : e.m.loss = 0 /\ e.m.gap = 0}
TidyUDP(c) == {e \in Entry(UDPM) : Qualifies(e.m, c.speed) => e.m.loss = 0 \/ e.m.host > 90}
TidyTCP(c) ==
  {e \in Entry(TCPM(c)) : \/ e.m.incomplete \/ e.m.host > 90
                          \/ e.m.retrans = 0 /\ e.m.cov <= 30 /\ e.m.collapses = 0}
TidyLink(l, c) ==
  l # Absent => ~l.half /\ l.speed \in {0, c.speed} /\ l.supported <= 1000 /\ l.partner <= 1000
TidyCable(v) == v # Absent /\ v.available => v.pairs \subseteq {"ok"}
Tidy(r, c) ==
  /\ \A s \in Side : TidyLink(r.link[s], c)
  /\ r.ping \in Seq(TidyPing) /\ r.fullSizePing \in Seq(TidyPing)
  /\ r.tcp \in Seq(TidyTCP(c)) /\ r.udp \in Seq(TidyUDP(c)) /\ TidyCable(r.cable)

\* The trials that were slow for no reason of the host's.
Slow(e, c) == ~e.m.incomplete /\ e.m.host <= 90 /\ e.m.bps * 100 < c.speed * 90
SlowOnes(s, c) == {i \in DOMAIN s : Slow(s[i], c)}
Sluggish(s, c, F) ==
  /\ OneSlow(F) => \A i, j \in SlowOnes(s, c) : i = j
  /\ F = {} => SlowOnes(s, c) = {}
Fine(r, c, F) == Tidy(r, c) /\ Sluggish(r.tcp, c, F)

\* A slow trial is remembered with the step and the cycle it was made in.
Before(f) == f.cycle < res.cycles \/ (f.cycle = res.cycles /\ f.step < plan.step)
Dated ==
  \A f \in faults : f.name = "slow" =>
    f.step \in Nat /\ f.cycle \in Nat /\ (plan.phase = "base" => Before(f))

\* A soak without a whole cycle keeps no trial.
Bare(r) == r.cycles = 0 => r.tcp = << >>
BareInv == conf.mode = "soak" => (IF InCycle THEN Bare(kept) ELSE Bare(res))

FineInv == AllSlow(faults) => Fine(res, conf, faults) /\ (InCycle => Fine(kept, conf, faults))

\* More faults make fewer demands.
LEMMA SluggishMore ==
  ASSUME NEW s, NEW c, NEW F, NEW G, F \subseteq G, Sluggish(s, c, F) PROVE Sluggish(s, c, G)
<1>1. OneSlow(G) => OneSlow(F)
  BY DEF OneSlow
<1>2. G = {} => F = {}
  OBVIOUS
<1> QED BY <1>1, <1>2 DEF Sluggish

\* One more trial that is not slow.
LEMMA SluggishAppend ==
  ASSUME NEW S, NEW s \in Seq(S), NEW e, NEW c, NEW F, Sluggish(s, c, F), ~Slow(e, c)
  PROVE  Sluggish(Append(s, e), c, F)
<1>1. SlowOnes(Append(s, e), c) \subseteq SlowOnes(s, c)
  <2> SUFFICES ASSUME NEW i \in DOMAIN Append(s, e), Slow(Append(s, e)[i], c)
               PROVE  i \in DOMAIN s /\ Slow(s[i], c)
    BY DEF SlowOnes
  <2>1. Len(s) \in Nat /\ DOMAIN s = 1..Len(s) /\ i \in 1..(Len(s) + 1)
    OBVIOUS
  <2>2. i # Len(s) + 1
    <3>1. Append(s, e)[Len(s) + 1] = e
      OBVIOUS
    <3> QED BY <3>1
  <2>3. Append(s, e)[i] = s[i]
    BY <2>1, <2>2
  <2> QED BY <2>1, <2>2, <2>3
<1> QED BY <1>1 DEF Sluggish

\* A slow trial is the first one, if only one fault is known.
LEMMA SluggishFirst ==
  ASSUME NEW S, NEW s \in Seq(S), NEW e, NEW c, NEW F, Sluggish(s, c, F), NEW x, x \notin F
  PROVE  Sluggish(Append(s, e), c, F \cup {x})
<1>1. SUFFICES ASSUME OneSlow(F \cup {x}) PROVE \A i, j \in SlowOnes(Append(s, e), c) : i = j
  BY DEF Sluggish
<1>2. F = {}
  <2>1. ASSUME NEW f \in F PROVE FALSE
    <3>1. f = x
      BY <1>1 DEF OneSlow
    <3> QED BY <3>1
  <2> QED BY <2>1
<1>3. SlowOnes(s, c) = {}
  BY <1>2 DEF Sluggish
<1>4. SlowOnes(Append(s, e), c) \subseteq {Len(s) + 1}
  <2> SUFFICES ASSUME NEW i \in DOMAIN Append(s, e), Slow(Append(s, e)[i], c)
               PROVE  i = Len(s) + 1
    BY DEF SlowOnes
  <2>1. Len(s) \in Nat /\ DOMAIN s = 1..Len(s) /\ i \in 1..(Len(s) + 1)
    OBVIOUS
  <2>2. CASE i # Len(s) + 1
    <3>1. Append(s, e)[i] = s[i] /\ i \in DOMAIN s
      BY <2>1, <2>2
    <3> QED BY <1>3, <3>1 DEF SlowOnes
  <2> QED BY <2>2
<1> QED BY <1>4

\* The results r after q, with the same trials.
LEMMA FineFrom ==
  ASSUME NEW c, NEW q, NEW r, NEW F, NEW G, F \subseteq G, Fine(q, c, F), r.tcp = q.tcp,
         \A s \in Side : TidyLink(q.link[s], c) => TidyLink(r.link[s], c),
         q.ping \in Seq(TidyPing) => r.ping \in Seq(TidyPing),
         q.fullSizePing \in Seq(TidyPing) => r.fullSizePing \in Seq(TidyPing),
         q.udp \in Seq(TidyUDP(c)) => r.udp \in Seq(TidyUDP(c)),
         TidyCable(q.cable) => TidyCable(r.cable)
  PROVE  Fine(r, c, G)
BY SluggishMore DEF Fine, Tidy

NoEvidence == {"initial", "final", "skipped", "incomplete", "udpRateAssumed", "bidir", "cycles"}
LEMMA FineSame ==
  ASSUME NEW c, NEW q, NEW r, NEW F, NEW G, F \subseteq G, Fine(q, c, F), Same(r, q, NoEvidence)
  PROVE  Fine(r, c, G)
<1>1. /\ r.link = q.link /\ r.ping = q.ping /\ r.fullSizePing = q.fullSizePing /\ r.tcp = q.tcp
      /\ r.udp = q.udp /\ r.cable = q.cable
  BY DEF Same, FieldNames, NoEvidence
<1> QED BY <1>1, FineFrom

\* What is blamed is a step's own doing.
LEMMA Blamed ==
  ASSUME NEW N, Blame(N)
  PROVE  /\ AllSlow(faults') => \A n \in N : n \in HostCauses \cup {"slow"}
         /\ \A f \in faults' \ faults : f = Fault(f.name, plan.step, res.cycles) /\ f.name \in N
         /\ "slow" \in N => faults' = faults \cup {Fault(n, plan.step, res.cycles) : n \in N \ HostCauses}
         /\ N \subseteq HostCauses => faults' = faults
<1>1. faults' = faults \cup {Fault(n, plan.step, res.cycles) : n \in N \ HostCauses}
  BY DEF Blame
<1>2. \A n : Fault(n, plan.step, res.cycles).name = n
  BY DEF Fault
<1>3. AllSlow(faults') => \A n \in N : n \in HostCauses \cup {"slow"}
  <2> SUFFICES ASSUME AllSlow(faults'), NEW n \in N, n \notin HostCauses PROVE n = "slow"
    OBVIOUS
  <2>1. Fault(n, plan.step, res.cycles) \in faults'
    BY <1>1
  <2> QED BY <1>2, <2>1 DEF AllSlow
<1>4. ASSUME NEW f \in faults' \ faults PROVE f = Fault(f.name, plan.step, res.cycles) /\ f.name \in N
  <2>1. PICK n \in N \ HostCauses : f = Fault(n, plan.step, res.cycles)
    BY <1>1
  <2> QED BY <1>2, <2>1
<1> QED BY <1>1, <1>3, <1>4

\* What can be measured without blaming the cable for more than a slow trial.
Blameless == HostCauses \cup {"slow"}

LEMMA TidyEchoes ==
  ASSUME NEW n \in DOMAIN Pings, n \in Blameless, NEW d \in Side PROVE Taken(d, Pings[n]) \in TidyPing
<1>1. n = "clean" \/ n = "fragmented"
  BY DEF Pings, Blameless, HostCauses
<1>2. Pings[n].loss = 0 /\ Pings[n].gap = 0
  BY <1>1 DEF Pings, Echoes
<1>3. Pings[n] \in PingM
  BY PingTypes
<1>4. \A m \in PingM : Taken(d, m) \in Entry(PingM) /\ Taken(d, m).m = m
  BY DEF Taken, Entry
<1> QED BY <1>2, <1>3, <1>4 DEF TidyPing

LEMMA Rounded == ASSUME NEW x \in Nat PROVE (x \div 100) \in Nat /\ (x \div 100) * 100 > x - 100
OBVIOUS

LEMMA TidyTrials ==
  ASSUME TypeInv, Quiet, NEW n \in DOMAIN Trials, n \in Blameless, NEW d \in Side
  PROVE  /\ Taken(d, Trials[n]) \in TidyTCP(conf)
         /\ n # "slow" => ~Slow(Taken(d, Trials[n]), conf)
<1>0. conf.speed \in Nat /\ conf.speed >= 1000 /\ link.speed = conf.speed
  BY ConfType, ResType DEF Quiet
<1>1. n = "clean" \/ n = "slow" \/ n = "hot"
  BY DEF Trials, Blameless, HostCauses
<1>2. Trials[n] \in TCPM(conf)
  BY ResType, TrialTypes
<1>3. \A m : m \in TCPM(conf) => Taken(d, m) \in Entry(TCPM(conf)) /\ Taken(d, m).m = m
  BY DEF Taken, Entry
<1>4. CASE n = "hot"
  <2>1. Trials[n].host = 99
    BY <1>4 DEF Trials, Trial
  <2>2. 99 > 90 /\ ~(99 <= 90)
    OBVIOUS
  <2> QED BY <1>2, <1>3, <2>1, <2>2 DEF TidyTCP, Slow
<1>5. CASE n # "hot"
  <2>1. Trials[n].retrans = 0 /\ Trials[n].cov = 2 /\ Trials[n].collapses = 0
    BY <1>1, <1>5 DEF Trials, Trial
  <2>2. 2 <= 30
    OBVIOUS
  <2>3. Taken(d, Trials[n]) \in TidyTCP(conf)
    BY <1>2, <1>3, <2>1, <2>2 DEF TidyTCP
  <2>4. ASSUME n = "clean" PROVE ~Slow(Taken(d, Trials[n]), conf)
    <3>1. Trials[n].bps = (link.speed * 94) \div 100
      BY <2>4 DEF Trials, Trial
    <3>2. conf.speed * 94 \in Nat /\ conf.speed * 94 - 100 >= conf.speed * 90
      BY <1>0
    <3> DEFINE b == (conf.speed * 94) \div 100
    <3>3. b \in Nat /\ b * 100 > conf.speed * 94 - 100
      <4> DEFINE x == conf.speed * 94
      <4>1. x \in Nat
        BY <3>2
      <4> HIDE DEF x
      <4>2. (x \div 100) \in Nat /\ (x \div 100) * 100 > x - 100
        BY <4>1, Rounded
      <4> QED BY <4>2 DEF x
    <3> HIDE DEF b
    <3>4. ~(b * 100 < conf.speed * 90)
      BY <1>0, <3>2, <3>3
    <3>5. Trials[n].bps = b
      BY <1>0, <3>1 DEF b
    <3> QED BY <1>2, <1>3, <3>4, <3>5 DEF Slow
  <2> QED BY <1>1, <1>5, <2>3, <2>4
<1> QED BY <1>4, <1>5

LEMMA TidyPartial ==
  ASSUME TypeInv, NEW d \in Side
  PROVE  Taken(d, PartialTrial) \in TidyTCP(conf) /\ ~Slow(Taken(d, PartialTrial), conf)
<1>1. PartialTrial \in TCPM(conf)
  BY ResType, TrialTypes
<1>2. PartialTrial.incomplete = TRUE
  BY DEF PartialTrial, Trial
<1>3. Taken(d, PartialTrial) \in Entry(TCPM(conf)) /\ Taken(d, PartialTrial).m = PartialTrial
  BY <1>1 DEF Taken, Entry
<1> QED BY <1>2, <1>3 DEF TidyTCP, Slow

\* A UDP run that counts for the evaluator and lost datagrams is the cable's.
LEMMA TidyDatagrams ==
  ASSUME TypeInv, Quiet, NEW rate \in Nat, NEW n \in DOMAIN UDPRuns(rate), NEW d \in Side,
         rate * 100 > link.speed * 95 \/ n \in Blameless
  PROVE  Taken(d, UDPRuns(rate)[n]) \in TidyUDP(conf) /\ Taken(d, PartialUDP(rate)) \in TidyUDP(conf)
<1>0. conf.speed \in Nat /\ conf.speed >= 1000 /\ link.speed = conf.speed
  BY ConfType, ResType DEF Quiet
<1>1. UDPRuns(rate)[n] \in UDPM /\ PartialUDP(rate) \in UDPM
  BY UDPTypes
<1>2. \A m : m \in UDPM => Taken(d, m) \in Entry(UDPM) /\ Taken(d, m).m = m
  BY DEF Taken, Entry
<1>3. UDPRuns(rate)[n].target = rate
  BY DEF UDPRuns, Datagrams
<1>4. Taken(d, PartialUDP(rate)) \in TidyUDP(conf)
  <2>1. PartialUDP(rate).loss = 0
    BY DEF PartialUDP, Datagrams
  <2> QED BY <1>1, <1>2, <2>1 DEF TidyUDP
<1>5. Qualifies(UDPRuns(rate)[n], conf.speed) => UDPRuns(rate)[n].loss = 0 \/ UDPRuns(rate)[n].host > 90
  <2>1. CASE rate * 100 > link.speed * 95
    BY <1>0, <1>3, <2>1 DEF Qualifies
  <2>2. CASE n = "clean"
    <3>1. UDPRuns(rate)[n].loss = 0
      BY <2>2 DEF UDPRuns, Datagrams
    <3> QED BY <3>1
  <2>3. CASE n = "hot"
    <3>1. UDPRuns(rate)[n].host = 99
      BY <2>3 DEF UDPRuns, Datagrams
    <3>2. 99 > 90
      OBVIOUS
    <3> QED BY <3>1, <3>2
  <2>4. CASE n = "short"
    <3>1. UDPRuns(rate)[n].actual = rate \div 2
      BY <2>4 DEF UDPRuns, Datagrams
    <3>2. rate > 0 => ~((rate \div 2) * 100 >= rate * 90)
      <4>1. (rate \div 2) \in Nat /\ (rate \div 2) * 2 <= rate
        OBVIOUS
      <4> DEFINE h == rate \div 2
      <4> HIDE DEF h
      <4>2. h \in Nat /\ h * 2 <= rate
        BY <4>1 DEF h
      <4>3. rate > 0 => ~(h * 100 >= rate * 90)
        BY <4>2
      <4> QED BY <4>3 DEF h
    <3> QED BY <1>3, <3>1, <3>2 DEF Qualifies
  <2>5. n \in Blameless => n = "clean" \/ n = "hot" \/ n = "short"
    <3>1. DOMAIN UDPRuns(rate) = {"clean", "lossy", "jittery", "hot", "short"}
      BY DEF UDPRuns
    <3> QED BY <3>1 DEF Blameless, HostCauses
  <2> QED BY <2>1, <2>2, <2>3, <2>4, <2>5
<1> QED BY <1>1, <1>2, <1>4, <1>5 DEF TidyUDP

LEMMA TidySettings ==
  ASSUME Quiet, NEW n \in DOMAIN LinkReadings, n \in Blameless PROVE TidyLink(LinkReadings[n], conf)
<1>1. n = "clean" \/ n = "unknown"
  BY DEF LinkReadings, Blameless, HostCauses
<1>2. link.speed = conf.speed
  BY DEF Quiet
<1>3. /\ LinkReadings[n].half = FALSE /\ LinkReadings[n].speed \in {0, link.speed}
      /\ LinkReadings[n].supported \in {0, 1000} /\ LinkReadings[n].partner \in {0, 1000}
  <2>1. CASE n = "clean"
    <3>1. LinkReadings[n] = Settings
      BY <2>1 DEF LinkReadings
    <3> QED BY <3>1 DEF Settings
  <2>2. CASE n = "unknown"
    <3>1. LinkReadings[n] = [Settings EXCEPT !.speed = 0, !.supported = 0, !.partner = 0]
      BY <2>2 DEF LinkReadings
    <3>2. LinkReadings[n].speed = 0 /\ LinkReadings[n].supported = 0 /\ LinkReadings[n].partner = 0
          /\ LinkReadings[n].half = Settings.half
      BY <3>1 DEF Settings
    <3> QED BY <3>2 DEF Settings
  <2> QED BY <1>1, <2>1, <2>2
<1>4. 0 <= 1000 /\ 1000 <= 1000
  OBVIOUS
<1> QED BY <1>2, <1>3, <1>4 DEF TidyLink

\* A step of the base phase has measured r: new faults carry its date, and r is
\* fine in a run that has at most slow trials.
NewDated == \A f \in faults' \ faults : f = Fault(f.name, plan.step, res.cycles)
Measured(r, o) ==
  /\ plan.phase = "base" /\ Ends(r, o) /\ r.cycles = res.cycles
  /\ kept' = (IF At("cycle") THEN res ELSE kept)
  /\ conf.mode = "soak" /\ ~InCycle => r.tcp = res.tcp
  /\ NewDated
  /\ AllSlow(faults') => Fine(r, conf, faults')
SomeMeasured == \E r \in Results(conf) : \E o : Measured(r, o)

LEMMA WasFine ==
  ASSUME QuietInv, FineInv, faults \subseteq faults', AllSlow(faults')
  PROVE  Quiet /\ Fine(res, conf, faults) /\ (InCycle => Fine(kept, conf, faults))
BY FewerFaults DEF QuietInv, FineInv

\* A step that measured nothing of the cable.
LEMMA MeasuredNothing ==
  ASSUME TypeInv, QuietInv, FineInv, faults' = faults, plan.phase = "base",
         NEW r \in Results(conf), NEW o, Ends(r, o), Same(r, res, NoEvidence), r.cycles = res.cycles,
         kept' = (IF At("cycle") THEN res ELSE kept)
  PROVE  SomeMeasured
<1>1. r.tcp = res.tcp
  BY DEF Same, NoEvidence, FieldNames
<1>2. NewDated
  BY DEF NewDated
<1>3. AllSlow(faults') => Fine(r, conf, faults')
  BY FineSame, WasFine
<1> QED BY <1>1, <1>2, <1>3 DEF Measured, SomeMeasured

LEMMA StepKept ==
  ASSUME TypeInv, NEW name \in CycleSteps \cup OtherSteps, At(name), Unmoved
  PROVE  kept' = (IF At("cycle") THEN res ELSE kept) /\ plan.phase = "base"
BY StepPlace DEF Unmoved

LEMMA MeasuredLink ==
  ASSUME TypeInv, QuietInv, FineInv, stepLink, faults \subseteq faults' PROVE SomeMeasured
<1>1. PICK n \in May(DOMAIN LinkReadings), o \in {"clean", "unavailable", "failed"}, r \in Results(conf) :
         /\ At("link") /\ Unmoved /\ Blame({n}) /\ Ends(r, o)
         /\ Same(r, res, {"link", "skipped"})
         /\ r.link.PC1 = LinkReadings[n]
         /\ r.link.PC2 = IF o = "clean" THEN LinkReadings[n] ELSE res.link.PC2
  BY LinkStep
<1>2. "link" \in CycleSteps \cup OtherSteps
  BY DEF OtherSteps
<1>3. kept' = (IF At("cycle") THEN res ELSE kept) /\ plan.phase = "base"
  BY <1>1, <1>2, StepKept
<1>4. /\ r.tcp = res.tcp /\ r.cycles = res.cycles /\ r.ping = res.ping /\ r.udp = res.udp
      /\ r.fullSizePing = res.fullSizePing /\ r.cable = res.cable
  BY <1>1 DEF Same, FieldNames
<1>5. NewDated
  BY <1>1, Blamed DEF NewDated
<1>6. ASSUME AllSlow(faults') PROVE Fine(r, conf, faults')
  <2>1. n \in DOMAIN LinkReadings /\ n \in Blameless
    BY <1>1, <1>6, Blamed, MayIn DEF Blameless
  <2>2. TidyLink(LinkReadings[n], conf)
    BY <1>6, <2>1, WasFine, TidySettings
  <2>3. \A s \in Side : TidyLink(res.link[s], conf) => TidyLink(r.link[s], conf)
    BY <1>1, <2>2 DEF Side
  <2> QED BY <1>4, <1>6, <2>3, WasFine, FineFrom
<1> QED BY <1>1, <1>3, <1>4, <1>5, <1>6 DEF Measured, SomeMeasured

LEMMA MeasuredCounters ==
  ASSUME TypeInv, QuietInv, FineInv, NEW into \in {"initial", "final"}, stepCounters(into, into)
  PROVE  SomeMeasured
<1>1. PICK o \in CounterOutcomes, r \in Results(conf) :
         At(into) /\ Unmoved /\ faults' = faults /\ Ends(r, o) /\ Same(r, res, {into, "skipped"})
  BY CounterStep
<1>2. into \in CycleSteps \cup OtherSteps
  BY DEF OtherSteps
<1>3. Same(r, res, NoEvidence) /\ r.cycles = res.cycles
  BY <1>1 DEF Same, FieldNames, NoEvidence
<1> QED BY <1>1, <1>2, <1>3, StepKept, MeasuredNothing

LEMMA MeasuredBidir == ASSUME TypeInv, QuietInv, FineInv, stepBidir PROVE SomeMeasured
<1>1. PICK o \in Outcomes, r \in Results(conf) :
         At("bidir") /\ Unmoved /\ faults' = faults /\ Ends(r, o) /\ Same(r, res, {"bidir", "skipped"})
  BY BidirStep
<1>2. "bidir" \in CycleSteps \cup OtherSteps
  BY DEF OtherSteps
<1>3. Same(r, res, NoEvidence) /\ r.cycles = res.cycles
  BY <1>1 DEF Same, FieldNames, NoEvidence
<1> QED BY <1>1, <1>2, <1>3, StepKept, MeasuredNothing

LEMMA MeasuredCycle == ASSUME TypeInv, QuietInv, FineInv, cycleCounters PROVE SomeMeasured
<1>1. PICK o \in CounterOutcomes, r \in Results(conf) :
         /\ At("cycle") /\ UNCHANGED <<conf, link, hw, mon, window, report, faults>>
         /\ kept' = res /\ Ends(r, o) /\ Same(r, res, {"skipped"})
  BY CycleStep
<1>2. Same(r, res, NoEvidence) /\ r.cycles = res.cycles
  BY <1>1 DEF Same, FieldNames, NoEvidence
<1>3. plan.phase = "base" /\ faults' = faults
  BY <1>1 DEF At
<1> QED BY <1>1, <1>2, <1>3, MeasuredNothing

LEMMA MeasuredLocal ==
  ASSUME TypeInv, QuietInv, FineInv, NEW name \in CycleSteps \cup OtherSteps, At(name), Unmoved, LocalFails
  PROVE  SomeMeasured
<1>1. Ends(res, "failed") /\ faults' = faults /\ res \in Results(conf)
  BY ResType DEF LocalFails
<1>2. Same(res, res, NoEvidence)
  BY SameAll
<1> QED BY <1>1, <1>2, StepKept, MeasuredNothing

LEMMA AppendTidy ==
  ASSUME NEW S, NEW s \in Seq(S), NEW e \in S PROVE Append(s, e) \in Seq(S)
OBVIOUS

\* What one ping test, or the other, leaves behind.
LEMMA MeasuredEchoes ==
  ASSUME TypeInv, QuietInv, FineInv, faults \subseteq faults',
         NEW name \in CycleSteps \cup OtherSteps, At(name), Unmoved,
         NEW n1 \in DOMAIN Pings, NEW n2 \in DOMAIN Pings, NEW r \in Results(conf), NEW o,
         Blame({n1, n2}), Ends(r, o),
         NEW e1, NEW e2, e1 = Taken("PC1", Pings[n1]), e2 = Taken("PC2", Pings[n2]),
         NEW new, NEW old, new = Append(Append(old, e1), e2) \/ new = Append(old, e1),
         \/ Same(r, res, {"ping", "skipped"}) /\ new = r.ping /\ old = res.ping
         \/ Same(r, res, {"fullSizePing", "skipped"}) /\ new = r.fullSizePing /\ old = res.fullSizePing
  PROVE  SomeMeasured
<1>2. /\ r.tcp = res.tcp /\ r.cycles = res.cycles /\ r.link = res.link /\ r.udp = res.udp
      /\ r.cable = res.cable
      /\ \/ new = r.ping /\ old = res.ping /\ r.fullSizePing = res.fullSizePing
         \/ new = r.fullSizePing /\ old = res.fullSizePing /\ r.ping = res.ping
  BY DEF Same, FieldNames
<1>3. NewDated
  BY Blamed DEF NewDated
<1>4. ASSUME AllSlow(faults') PROVE Fine(r, conf, faults')
  <2>1. \A n \in {n1, n2} : n \in Blameless
    BY <1>4, Blamed DEF Blameless
  <2>2. e1 \in TidyPing /\ e2 \in TidyPing
    BY <2>1, TidyEchoes DEF Side
  <2>3. old \in Seq(TidyPing) => new \in Seq(TidyPing)
    BY <2>2, AppendTidy
  <2>4. /\ res.ping \in Seq(TidyPing) => r.ping \in Seq(TidyPing)
        /\ res.fullSizePing \in Seq(TidyPing) => r.fullSizePing \in Seq(TidyPing)
    BY <1>2, <2>3
  <2>5. Fine(res, conf, faults)
    BY <1>4, WasFine
  <2> QED BY <1>2, <2>4, <2>5, FineFrom
<1> QED BY <1>2, <1>3, <1>4, StepKept DEF Measured, SomeMeasured

LEMMA MeasuredPing == ASSUME TypeInv, QuietInv, FineInv, faults \subseteq faults', stepPing PROVE SomeMeasured
<1>0. At("ping") /\ Unmoved /\ "ping" \in CycleSteps \cup OtherSteps
  BY DEF stepPing, CycleSteps
<1> DEFINE N == {"clean", "trickle", "lossy", "unsteady"}
<1>1. CASE PingBoth("ping", "ping", N)
  <2>1. N \in SUBSET DOMAIN Pings
    BY DEF Pings
  <2> HIDE DEF N
  <2>2. PICK n1, n2 \in May(N), o \in {"clean", "unavailable", "failed"}, r \in Results(conf) :
           /\ Blame({n1, n2}) /\ Ends(r, o) /\ spent' \in 0..MaxAnomalies
           /\ Same(r, res, {"ping", "skipped"}) /\ res.skipped \subseteq r.skipped
           /\ LET one == Append(res["ping"], Taken("PC1", Pings[n1]))
              IN r["ping"] = IF o = "clean" THEN Append(one, Taken("PC2", Pings[n2])) ELSE one
           /\ o = "unavailable" => \E x \in r.skipped : x.name = "ping"
    BY <1>1, <2>1, PingStep
  <2>3. n1 \in DOMAIN Pings /\ n2 \in DOMAIN Pings
    BY <2>1, MayIn
  <2> DEFINE e1 == Taken("PC1", Pings[n1])
             e2 == Taken("PC2", Pings[n2])
             new == r.ping
             old == res.ping
  <2>4. new = Append(Append(old, e1), e2) \/ new = Append(old, e1)
    BY <2>2
  <2>5. /\ e1 = Taken("PC1", Pings[n1]) /\ e2 = Taken("PC2", Pings[n2])
        /\ Same(r, res, {"ping", "skipped"}) /\ new = r.ping /\ old = res.ping
    BY <2>2
  <2>6. Blame({n1, n2}) /\ Ends(r, o) /\ r \in Results(conf)
    BY <2>2
  <2> HIDE DEF e1, e2, new, old
  <2> QED BY <1>0, <2>3, <2>4, <2>5, <2>6, MeasuredEchoes
<1>2. CASE LocalFails
  BY <1>0, <1>2, MeasuredLocal
<1> QED BY <1>1, <1>2 DEF stepPing

LEMMA MeasuredFull ==
  ASSUME TypeInv, QuietInv, FineInv, faults \subseteq faults', stepFullSizePing PROVE SomeMeasured
<1>0. At("full") /\ Unmoved /\ "full" \in CycleSteps \cup OtherSteps
  BY DEF stepFullSizePing, OtherSteps
<1> DEFINE N == {"clean", "lossy", "fragmented"}
<1>1. CASE PingBoth("fullSizePing", "full_size_ping", N)
  <2>1. N \in SUBSET DOMAIN Pings
    BY DEF Pings
  <2> HIDE DEF N
  <2>2. PICK n1, n2 \in May(N), o \in {"clean", "unavailable", "failed"}, r \in Results(conf) :
           /\ Blame({n1, n2}) /\ Ends(r, o) /\ spent' \in 0..MaxAnomalies
           /\ Same(r, res, {"fullSizePing", "skipped"}) /\ res.skipped \subseteq r.skipped
           /\ LET one == Append(res["fullSizePing"], Taken("PC1", Pings[n1]))
              IN r["fullSizePing"] = IF o = "clean" THEN Append(one, Taken("PC2", Pings[n2])) ELSE one
           /\ o = "unavailable" => \E x \in r.skipped : x.name = "full_size_ping"
    BY <1>1, <2>1, PingStep
  <2>3. n1 \in DOMAIN Pings /\ n2 \in DOMAIN Pings
    BY <2>1, MayIn
  <2> DEFINE e1 == Taken("PC1", Pings[n1])
             e2 == Taken("PC2", Pings[n2])
             new == r.fullSizePing
             old == res.fullSizePing
  <2>4. new = Append(Append(old, e1), e2) \/ new = Append(old, e1)
    BY <2>2
  <2>5. /\ e1 = Taken("PC1", Pings[n1]) /\ e2 = Taken("PC2", Pings[n2])
        /\ Same(r, res, {"fullSizePing", "skipped"}) /\ new = r.fullSizePing /\ old = res.fullSizePing
    BY <2>2
  <2>6. Blame({n1, n2}) /\ Ends(r, o) /\ r \in Results(conf)
    BY <2>2
  <2> HIDE DEF e1, e2, new, old
  <2> QED BY <1>0, <2>3, <2>4, <2>5, <2>6, MeasuredEchoes
<1>2. CASE LocalFails
  BY <1>0, <1>2, MeasuredLocal
<1> QED BY <1>1, <1>2 DEF stepFullSizePing

LEMMA MeasuredTCP ==
  ASSUME TypeInv, QuietInv, FineInv, Dated, faults \subseteq faults', NEW name \in {"tcpF", "tcpR"}, At(name), Unmoved,
         NEW dir \in Side, NEW outcomes \in SUBSET Outcomes, TCPPhase(dir, outcomes)
  PROVE  SomeMeasured
<1>1. PICK o \in outcomes, n \in DOMAIN Trials, r \in Results(conf) :
         /\ Blame({n}) /\ Ends(r, o) /\ spent' \in 0..MaxAnomalies /\ (o = "clean" \/ n = "clean")
         /\ SameButLog(r, res, "tcp") /\ res.skipped \subseteq r.skipped
         /\ o # "partial" => r.incomplete = res.incomplete
         /\ o \in {"clean", "stopFailed"} => r.tcp = Append(res.tcp, Taken(dir, Trials[n]))
         /\ o = "partial" => r.tcp = Append(res.tcp, Taken(dir, PartialTrial))
         /\ o \in Refusals \cup {"failed"} => r.tcp = res.tcp
  BY TCPStep
<1>2. /\ r.ping = res.ping /\ r.cycles = res.cycles /\ r.link = res.link /\ r.udp = res.udp
      /\ r.cable = res.cable /\ r.fullSizePing = res.fullSizePing
  BY <1>1 DEF Same, SameButLog, FieldNames
<1>3. NewDated
  BY <1>1, Blamed DEF NewDated
<1>4. name \in CycleSteps \cup OtherSteps /\ name \in CycleSteps
  BY DEF CycleSteps
<1>5. kept' = (IF At("cycle") THEN res ELSE kept) /\ plan.phase = "base" /\ (conf.mode = "soak" => InCycle)
  BY <1>4, StepKept, StepPlace
<1>6. o = "clean" \/ o = "stopFailed" \/ o = "partial" \/ o \in Refusals \cup {"failed"}
  BY DEF Outcomes, Errors, Refusals
<1>7. ASSUME AllSlow(faults') PROVE Fine(r, conf, faults')
  <2>1. Quiet /\ Tidy(res, conf) /\ Sluggish(res.tcp, conf, faults) /\ res.tcp \in Seq(TidyTCP(conf))
    BY <1>7, WasFine DEF Fine, Tidy
  <2>2. n \in Blameless
    BY <1>1, <1>7, Blamed DEF Blameless
  <2> DEFINE t == Taken(dir, Trials[n])
             p == Taken(dir, PartialTrial)
  <2>3. /\ t \in TidyTCP(conf) /\ p \in TidyTCP(conf) /\ ~Slow(p, conf)
        /\ n # "slow" => ~Slow(t, conf)
    BY <2>1, <2>2, TidyTrials, TidyPartial
  <2>4. r.tcp = Append(res.tcp, t) \/ (n # "slow" /\ (r.tcp = Append(res.tcp, p) \/ r.tcp = res.tcp))
    <3>1. CASE o = "clean" \/ o = "stopFailed"
      BY <1>1, <3>1
    <3>2. CASE o = "partial"
      BY <1>1, <3>2
    <3>3. CASE o \in Refusals \cup {"failed"}
      <4>1. o # "clean"
        BY <3>3 DEF Refusals
      <4>2. r.tcp = res.tcp
        BY <1>1, <3>3
      <4> QED BY <1>1, <4>1, <4>2
    <3> QED BY <1>6, <3>1, <3>2, <3>3
  <2> HIDE DEF t, p
  <2>5. r.tcp \in Seq(TidyTCP(conf))
    BY <2>1, <2>3, <2>4, AppendTidy
  <2>6. Tidy(r, conf)
    BY <1>2, <2>1, <2>5 DEF Tidy
  <2>7. CASE n # "slow"
    <3>1. Sluggish(r.tcp, conf, faults)
      BY <2>1, <2>3, <2>4, <2>7, SluggishAppend
    <3> QED BY <2>6, <3>1, SluggishMore DEF Fine
  <2>8. CASE n = "slow"
    <3> DEFINE x == Fault("slow", plan.step, res.cycles)
    <3>1. faults' = faults \cup {x}
      <4>1. {n} \ HostCauses = {"slow"}
        BY <2>8 DEF HostCauses
      <4> QED BY <1>1, <4>1 DEF Blame
    <3>2. x \notin faults
      <4>1. x.name = "slow" /\ x.step = plan.step /\ x.cycle = res.cycles
        BY DEF Fault
      <4>2. plan.step \in Int /\ res.cycles \in Int
        <5>1. plan.step \in 1..Len(StepsOf(conf)) /\ res.cycles \in 0..MaxCycles
          BY ResType DEF Plans, Results
        <5> QED BY <5>1
      <4> HIDE DEF x
      <4> QED BY <1>5, <4>1, <4>2 DEF Dated, Before
    <3> HIDE DEF x
    <3>3. r.tcp = Append(res.tcp, t)
      BY <2>4, <2>8
    <3>4. Sluggish(r.tcp, conf, faults')
      BY <2>1, <3>1, <3>2, <3>3, SluggishFirst
    <3> QED BY <2>6, <3>4 DEF Fine
  <2> QED BY <2>7, <2>8
<1> QED BY <1>1, <1>2, <1>3, <1>5, <1>7 DEF Measured, SomeMeasured

LEMMA MeasuredUDP ==
  ASSUME TypeInv, QuietInv, FineInv, faults \subseteq faults', NEW name \in {"udp", "udpReduced"}, At(name), Unmoved,
         NEW rate \in Nat, stepUDPAtRate(rate)
  PROVE  SomeMeasured
<1>1. PICK o \in Outcomes, n1, n2 \in DOMAIN UDPRuns(rate), r, q \in Results(conf) :
         /\ UDPBlame({n1, n2}, rate) /\ Ends(r, o) /\ spent' \in 0..MaxAnomalies
         /\ Same(r, res, {"udp", "skipped", "incomplete", "udpRateAssumed"})
         /\ res.skipped \subseteq r.skipped
         /\ q.udp \in {res.udp, Append(res.udp, Taken("PC1", UDPRuns(rate)[n1])),
                       Append(res.udp, Taken("PC1", PartialUDP(rate)))}
         /\ r.udp \in {q.udp, Append(q.udp, Taken("PC2", UDPRuns(rate)[n2])),
                       Append(q.udp, Taken("PC2", PartialUDP(rate)))}
         /\ o \notin Errors =>
              /\ r.incomplete = res.incomplete
              /\ \/ \E x \in r.skipped : x.name = "udp"
                 \/ r.udp = Append(Append(res.udp, Taken("PC1", UDPRuns(rate)[n1])),
                                   Taken("PC2", UDPRuns(rate)[n2]))
  BY UDPStep
<1>2. /\ r.ping = res.ping /\ r.cycles = res.cycles /\ r.link = res.link /\ r.tcp = res.tcp
      /\ r.cable = res.cable /\ r.fullSizePing = res.fullSizePing
  BY <1>1 DEF Same, FieldNames
<1>3. NewDated /\ (AllSlow(faults') => rate * 100 > link.speed * 95 \/ \A n \in {n1, n2} : n \in Blameless)
  <2>1. CASE rate * 100 > link.speed * 95
    <3>1. Blame({})
      BY <1>1, <2>1 DEF UDPBlame
    <3> QED BY <2>1, <3>1, Blamed DEF NewDated
  <2>2. CASE ~(rate * 100 > link.speed * 95)
    <3>1. Blame({n1, n2})
      BY <1>1, <2>2 DEF UDPBlame
    <3> QED BY <3>1, Blamed DEF NewDated, Blameless
  <2> QED BY <2>1, <2>2
<1>4. name \in CycleSteps \cup OtherSteps
  BY DEF CycleSteps, OtherSteps
<1>5. kept' = (IF At("cycle") THEN res ELSE kept) /\ plan.phase = "base"
  BY <1>4, StepKept
<1>6. ASSUME AllSlow(faults') PROVE Fine(r, conf, faults')
  <2>1. Quiet /\ Fine(res, conf, faults)
    BY <1>6, WasFine
  <2> DEFINE e1 == Taken("PC1", UDPRuns(rate)[n1])
             e2 == Taken("PC2", UDPRuns(rate)[n2])
             p1 == Taken("PC1", PartialUDP(rate))
             p2 == Taken("PC2", PartialUDP(rate))
  <2>2. e1 \in TidyUDP(conf) /\ p1 \in TidyUDP(conf)
    BY <1>3, <1>6, <2>1, TidyDatagrams DEF Side
  <2>3. e2 \in TidyUDP(conf) /\ p2 \in TidyUDP(conf)
    BY <1>3, <1>6, <2>1, TidyDatagrams DEF Side
  <2>4. /\ q.udp = res.udp \/ q.udp = Append(res.udp, e1) \/ q.udp = Append(res.udp, p1)
        /\ r.udp = q.udp \/ r.udp = Append(q.udp, e2) \/ r.udp = Append(q.udp, p2)
    BY <1>1
  <2> HIDE DEF e1, e2, p1, p2
  <2>5. res.udp \in Seq(TidyUDP(conf)) => q.udp \in Seq(TidyUDP(conf))
    BY <2>2, <2>4, AppendTidy
  <2>6. res.udp \in Seq(TidyUDP(conf)) => r.udp \in Seq(TidyUDP(conf))
    BY <2>3, <2>4, <2>5, AppendTidy
  <2> QED BY <1>2, <2>1, <2>6, FineFrom
<1> QED BY <1>1, <1>2, <1>3, <1>5, <1>6 DEF Measured, SomeMeasured

\* A soak's cycle goes from its first step on, and its last step is not like
\* the others.
Placed ==
  conf.mode = "soak" => plan.step < Len(StepsOf(conf)) /\ (plan.step = CycleStart => At("cycle"))
LEMMA StepPlaced ==
  ASSUME TypeInv, NEW name \in CycleSteps \cup OtherSteps, At(name) PROVE Placed
BY StepPlace DEF Placed
LEMMA CyclePlaced == ASSUME TypeInv, At("cycle") PROVE Placed
<1>1. conf.mode = "soak" => plan.step = 3 /\ Len(StepsOf(conf)) = 6 + 2 * Repeats
  BY SoakAt
<1>2. Repeats \in Nat
  BY BoundsAssumption
<1> QED BY <1>1, <1>2 DEF Placed

LEMMA BaseMeasured ==
  ASSUME TypeInv, QuietInv, FineInv, Dated, BaseStep, faults \subseteq faults'
  PROVE  (SomeMeasured /\ Placed) \/ commitCycle \/ BudgetExpires
<1>0. \A name \in {"link", "initial", "final", "ping", "full", "tcpF", "tcpR", "bidir", "udp", "udpReduced"} :
        name \in CycleSteps \cup OtherSteps
  BY DEF CycleSteps, OtherSteps
<1>1. CASE stepLink
  <2>1. At("link")
    BY <1>1 DEF stepLink
  <2> QED BY <1>0, <1>1, <2>1, StepPlaced, MeasuredLink
<1>2. CASE stepInitialCounters \/ stepFinalCounters
  <2>1. PICK into \in {"initial", "final"} : stepCounters(into, into)
    BY <1>2 DEF stepInitialCounters, stepFinalCounters
  <2>2. At(into)
    BY <2>1 DEF stepCounters
  <2> QED BY <1>0, <2>1, <2>2, StepPlaced, MeasuredCounters
<1>3. CASE stepPing
  <2>1. At("ping")
    BY <1>3 DEF stepPing
  <2> QED BY <1>0, <1>3, <2>1, StepPlaced, MeasuredPing
<1>4. CASE stepFullSizePing
  <2>1. At("full")
    BY <1>4 DEF stepFullSizePing
  <2> QED BY <1>0, <1>4, <2>1, StepPlaced, MeasuredFull
<1>5. CASE stepTCPForward \/ stepTCPReverse
  <2>1. PICK name \in {"tcpF", "tcpR"}, dir \in Side, outcomes \in SUBSET Outcomes :
          At(name) /\ Unmoved /\ TCPPhase(dir, outcomes)
    <3>1. "PC1" \in Side /\ "PC2" \in Side /\ Outcomes \in SUBSET Outcomes
          /\ Outcomes \ {"stopFailed"} \in SUBSET Outcomes
      BY DEF Side
    <3>2. CASE stepTCPForward
      <4>1. At("tcpF") /\ Unmoved /\ TCPPhase("PC1", Outcomes)
        BY <3>2 DEF stepTCPForward
      <4> QED BY <4>1, <3>1
    <3>3. CASE stepTCPReverse
      <4>1. At("tcpR") /\ Unmoved /\ TCPPhase("PC2", Outcomes \ {"stopFailed"})
        BY <3>3 DEF stepTCPReverse
      <4> QED BY <4>1, <3>1
    <3> QED BY <1>5, <3>2, <3>3
  <2> QED BY <1>0, <2>1, StepPlaced, MeasuredTCP
<1>6. CASE stepBidir
  <2>1. At("bidir")
    BY <1>6 DEF stepBidir
  <2> QED BY <1>0, <1>6, <2>1, StepPlaced, MeasuredBidir
<1>7. CASE stepUDP \/ stepReducedUDP
  <2>1. PICK name \in {"udp", "udpReduced"}, rate \in Nat : At(name) /\ Unmoved /\ stepUDPAtRate(rate)
    BY <1>7, RateType DEF stepUDP, stepReducedUDP
  <2> QED BY <1>0, <2>1, StepPlaced, MeasuredUDP
<1>8. CASE cycleCounters
  <2>1. At("cycle")
    BY <1>8 DEF cycleCounters
  <2> QED BY <1>8, <2>1, CyclePlaced, MeasuredCycle
<1> QED BY <1>1, <1>2, <1>3, <1>4, <1>5, <1>6, <1>7, <1>8 DEF BaseStep

\* Where the step that measured r leads.
LEMMA MeasuredEnd ==
  ASSUME TypeInv, NEW r \in Results(conf), NEW o, Measured(r, o), Placed
  PROVE  \/ /\ plan'.phase \notin {"base"} /\ Same(res', IF InCycle THEN kept ELSE r, {"incomplete"})
         \/ /\ res' = r /\ (plan'.phase = "base" => plan'.step = plan.step + 1)
            /\ conf.mode = "soak" => plan'.phase = "base"
<1>1. plan.phase = "base" /\ Ends(r, o)
  BY DEF Measured
<1>2. CASE o \in Errors
  <2>1. plan'.phase \in {"boundary", "salvage"} /\ Same(res', IF InCycle THEN kept ELSE r, {"incomplete"})
    BY <1>1, <1>2, EndsShape
  <2> QED BY <2>1
<1>3. CASE o \notin Errors
  <2>1. plan' = StepDone(plan) /\ res' = r
    BY <1>1, <1>3, EndsShape
  <2>2. CASE plan.step < Len(StepsOf(conf))
    BY <1>1, <2>1, <2>2, PlanMoves
  <2>3. CASE ~(plan.step < Len(StepsOf(conf)))
    <3>1. plan' = AfterBase(plan)
      BY <2>1, <2>3 DEF StepDone
    <3>2. plan'.phase \in {"cable", "finish"}
      BY <1>1, <3>1, PlanMoves
    <3> QED BY <2>1, <2>3, <3>2 DEF Placed
  <2> QED BY <2>2, <2>3
<1> QED BY <1>2, <1>3

LEMMA SameIncomplete ==
  ASSUME NEW r, NEW q, Same(r, q, {"incomplete"})
  PROVE  Same(r, q, NoEvidence) /\ r.tcp = q.tcp /\ r.cycles = q.cycles
BY DEF Same, FieldNames, NoEvidence

\* What begins with the step after this one.
LEMMA CycleBegins ==
  ASSUME TypeInv, Placed, plan.phase = "base", conf' = conf,
         plan'.phase = "base" => plan'.step = plan.step + 1
  PROVE  /\ InCycle' => InCycle \/ At("cycle")
         /\ At("cycle") => ~InCycle
<1>1. plan.step \in 1..Len(StepsOf(conf))
  BY ResType DEF Plans
<1>2. plan.step \in Nat
  BY <1>1
<1>3. InCycle' => InCycle \/ At("cycle")
  BY <1>2 DEF InCycle, CycleStart, Placed
<1>4. At("cycle") => ~InCycle
  <2>1. conf.mode = "soak" /\ At("cycle") => plan.step = 3
    BY SoakAt
  <2> QED BY <2>1 DEF InCycle, CycleStart
<1> QED BY <1>3, <1>4

\* The end of a cycle, and of the budget.
LEMMA CycleOver ==
  ASSUME TypeInv, commitCycle \/ BudgetExpires
  PROVE  /\ InCycle /\ ~InCycle' /\ faults' = faults /\ conf' = conf
         /\ \/ plan'.phase = "boundary" /\ Same(res', kept, {"incomplete"})
            \/ Same(res', res, NoEvidence) /\ res'.cycles = res.cycles + 1
<1>0. plan \in Plans(conf)
  BY ResType
<1>1. CASE commitCycle
  <2>1. PICK o \in CounterOutcomes, r \in Results(conf) :
           /\ At("cycleEnd") /\ UNCHANGED <<conf, link, hw, mon, window, report, faults>>
           /\ spent' \in 0..MaxAnomalies
           /\ Same(r, res, {"skipped"}) /\ res.skipped \subseteq r.skipped
           /\ \/ o \in Errors /\ Ends(r, o) /\ kept' = kept
              \/ /\ o \notin Errors /\ kept' = Absent
                 /\ res' = [r EXCEPT !.cycles = @ + 1, !.incomplete = kept.incomplete]
                 /\ \/ res.cycles + 1 < MaxCycles /\ plan' = [plan EXCEPT !.step = CycleStart]
                    \/ plan' = [plan EXCEPT !.phase = "boundary"]
    BY <1>1, CommitStep
  <2>2. InCycle /\ plan.phase = "base" /\ conf.mode = "soak"
    BY <2>1, CommitPlace DEF InCycle
  <2>3. CASE o \in Errors
    <3>1. Ends(r, o)
      BY <2>1, <2>3
    <3>2. plan' = Failing(plan) /\ Same(res', IF InCycle THEN kept ELSE r, {"incomplete"})
      BY <2>2, <2>3, <3>1, EndsShape
    <3>3. plan'.phase = "boundary"
      BY <2>2, <3>2, PlanMoves
    <3> QED BY <2>1, <2>2, <3>2, <3>3 DEF InCycle
  <2>4. CASE o \notin Errors
    <3> DEFINE q == res'
    <3>1. q = [r EXCEPT !.cycles = @ + 1, !.incomplete = kept.incomplete]
          /\ (plan' = [plan EXCEPT !.step = CycleStart] \/ plan' = [plan EXCEPT !.phase = "boundary"])
      BY <2>1, <2>4
    <3> HIDE DEF q
    <3>2. Same(q, r, {"cycles", "incomplete"}) /\ q.cycles = res.cycles + 1
      BY <2>1, <2>2, <3>1, CommitFields
    <3>3. Same(q, res, NoEvidence)
      BY <2>1, <3>2 DEF Same, NoEvidence, FieldNames
    <3>4. plan'.step = CycleStart \/ plan'.phase = "boundary"
      BY <1>0, <3>1 DEF Plans
    <3>5. ~InCycle'
      BY <3>4 DEF InCycle, CycleStart
    <3> QED BY <2>1, <2>2, <3>2, <3>3, <3>5 DEF q
  <2> QED BY <2>3, <2>4
<1>2. CASE BudgetExpires
  <2>1. plan'.phase = "boundary"
    BY <1>0, <1>2 DEF BudgetExpires, Plans
  <2> QED BY <1>2, <2>1 DEF BudgetExpires, Same, InCycle
<1> QED BY <1>1, <1>2

\* What is evidence of a fine run stays so.
LEMMA StillFine ==
  ASSUME NEW q, NEW r, NEW F, NEW G, F \subseteq G, NEW c, Fine(q, c, F),
         r = q \/ Same(r, q, {"incomplete"}) \/ Same(r, q, NoEvidence)
  PROVE  Fine(r, c, G)
<1>1. Same(r, q, NoEvidence)
  BY SameIncomplete DEF Same
<1> QED BY <1>1, FineSame

LEMMA FineBase ==
  ASSUME TypeInv, QuietInv, FineInv, Dated, BaseStep, faults \subseteq faults' PROVE FineInv'
<1> SUFFICES ASSUME AllSlow(faults') PROVE Fine(res', conf', faults') /\ (InCycle' => Fine(kept', conf', faults'))
  BY DEF FineInv
<1>0. conf' = conf /\ plan.phase = "base"
  BY BaseFrame
<1>1. Fine(res, conf, faults) /\ (InCycle => Fine(kept, conf, faults))
  BY WasFine
<1>2. CASE SomeMeasured /\ Placed
  <2>0. PICK r \in Results(conf) : \E o : Measured(r, o)
    BY <1>2 DEF SomeMeasured
  <2>1. PICK o : Measured(r, o)
    BY <2>0
  <2>2. Fine(r, conf, faults') /\ kept' = (IF At("cycle") THEN res ELSE kept)
    BY <2>1 DEF Measured
  <2>3. CASE plan'.phase \notin {"base"} /\ Same(res', IF InCycle THEN kept ELSE r, {"incomplete"})
    <3>1. ~InCycle'
      BY <2>3 DEF InCycle
    <3>2. Fine(IF InCycle THEN kept ELSE r, conf, faults')
      BY <1>1, <2>2, StillFine
    <3>3. Fine(res', conf, faults')
      BY <2>3, <3>2, StillFine
    <3> QED BY <1>0, <3>1, <3>3
  <2>4. CASE res' = r /\ (plan'.phase = "base" => plan'.step = plan.step + 1)
    <3>1. InCycle' => InCycle \/ At("cycle")
      BY <1>0, <1>2, <2>4, CycleBegins
    <3>2. InCycle' => Fine(kept', conf, faults')
      <4>1. CASE At("cycle")
        BY <1>1, <2>2, <4>1, StillFine
      <4>2. CASE ~At("cycle")
        BY <1>1, <2>2, <3>1, <4>2, StillFine
      <4> QED BY <4>1, <4>2
    <3> QED BY <1>0, <2>2, <2>4, <3>2
  <2> QED BY <1>2, <2>1, <2>3, <2>4, MeasuredEnd
<1>3. CASE commitCycle \/ BudgetExpires
  BY <1>1, <1>3, CycleOver, StillFine
<1> QED BY <1>2, <1>3, BaseMeasured

LEMMA BareBase ==
  ASSUME TypeInv, QuietInv, FineInv, Dated, BareInv, BaseStep, faults \subseteq faults' PROVE BareInv'
<1>0. conf' = conf /\ plan.phase = "base"
  BY BaseFrame
<1> SUFFICES ASSUME conf.mode = "soak" PROVE IF InCycle' THEN Bare(kept') ELSE Bare(res')
  BY <1>0 DEF BareInv
<1>1. IF InCycle THEN Bare(kept) ELSE Bare(res)
  BY DEF BareInv
<1>2. CASE SomeMeasured /\ Placed
  <2>0. PICK r \in Results(conf) : \E o : Measured(r, o)
    BY <1>2 DEF SomeMeasured
  <2>1. PICK o : Measured(r, o)
    BY <2>0
  <2>2. /\ kept' = (IF At("cycle") THEN res ELSE kept)
        /\ ~InCycle => r.tcp = res.tcp /\ r.cycles = res.cycles
    BY <2>1 DEF Measured
  <2>2a. ~InCycle => Bare(r)
    BY <1>1, <2>2 DEF Bare
  <2>3. CASE plan'.phase \notin {"base"} /\ Same(res', IF InCycle THEN kept ELSE r, {"incomplete"})
    <3>1. ~InCycle'
      BY <2>3 DEF InCycle
    <3>2. Bare(IF InCycle THEN kept ELSE r)
      BY <1>1, <2>2a
    <3>3. Bare(res')
      BY <2>3, <3>2, SameIncomplete DEF Bare
    <3> QED BY <3>1, <3>3
  <2>4. CASE res' = r /\ plan'.phase = "base" /\ plan'.step = plan.step + 1
    <3>1. (InCycle' => InCycle \/ At("cycle")) /\ (At("cycle") => ~InCycle)
      BY <1>0, <1>2, <2>4, CycleBegins
    <3>2. InCycle => InCycle'
      <4>1. plan.step \in 1..Len(StepsOf(conf))
        BY ResType DEF Plans
      <4>2. plan.step \in Nat
        BY <4>1
      <4> QED BY <1>0, <2>4, <4>2 DEF InCycle, CycleStart
    <3> QED BY <1>1, <2>2, <2>2a, <2>4, <3>1, <3>2
  <2> QED BY <1>2, <2>1, <2>3, <2>4, MeasuredEnd
<1>3. CASE commitCycle \/ BudgetExpires
  <2>1. CASE Same(res', kept, {"incomplete"})
    BY <1>1, <1>3, <2>1, CycleOver, SameIncomplete DEF Bare
  <2>2. CASE res'.cycles = res.cycles + 1
    <3>1. res.cycles \in 0..MaxCycles
      BY ResType DEF Results
    <3>2. res'.cycles # 0
      BY <2>2, <3>1
    <3> QED BY <1>3, <3>2, CycleOver DEF Bare
  <2> QED BY <1>3, <2>1, <2>2, CycleOver
<1> QED BY <1>2, <1>3, BaseMeasured

LEMMA DatedBase ==
  ASSUME TypeInv, QuietInv, FineInv, Dated, BaseStep, faults \subseteq faults' PROVE Dated'
<1>0. conf' = conf /\ plan.phase = "base"
  BY BaseFrame
<1>1. plan.step \in Nat /\ res.cycles \in Nat
  <2>1. plan.step \in 1..Len(StepsOf(conf)) /\ res.cycles \in 0..MaxCycles
    BY ResType DEF Plans, Results
  <2> QED BY <2>1
<1>2. CASE SomeMeasured /\ Placed
  <2>0. PICK r \in Results(conf) : \E o : Measured(r, o)
    BY <1>2 DEF SomeMeasured
  <2>1. PICK o : Measured(r, o)
    BY <2>0
  <2>2. r.cycles = res.cycles /\ \A f \in faults' \ faults : f = Fault(f.name, plan.step, res.cycles)
    BY <2>1 DEF Measured, NewDated
  <2>3. ASSUME NEW f \in faults', f.name = "slow"
        PROVE  /\ f.step \in Nat /\ f.cycle \in Nat
               /\ f.cycle < res.cycles \/ (f.cycle = res.cycles /\ f.step <= plan.step)
    <3>1. CASE f \in faults
      BY <1>0, <1>1, <2>3, <3>1 DEF Dated, Before
    <3>2. CASE f \notin faults
      <4>1. f = Fault(f.name, plan.step, res.cycles)
        BY <2>2, <3>2
      <4>2. f.step = plan.step /\ f.cycle = res.cycles
        BY <4>1 DEF Fault
      <4> QED BY <1>1, <4>2
    <3> QED BY <3>1, <3>2
  <2>4. plan'.phase = "base" => res'.cycles = res.cycles /\ plan'.step = plan.step + 1
    BY <1>2, <2>1, <2>2, MeasuredEnd
  <2> QED BY <1>1, <2>3, <2>4 DEF Dated, Before
<1>3. CASE commitCycle \/ BudgetExpires
  <2>1. faults' = faults /\ (plan'.phase = "base" => res'.cycles = res.cycles + 1)
    BY <1>3, CycleOver
  <2> QED BY <1>0, <1>1, <2>1 DEF Dated, Before
<1> QED BY <1>2, <1>3, BaseMeasured

\* Outside the base phase only what the diagnostics say is added.
LEMMA EvidenceKept ==
  ASSUME TypeInv, FineInv, Dated, BareInv, faults \subseteq faults', conf' = conf, plan.phase # "base", plan'.phase # "base",
         res'.tcp = res.tcp, res'.cycles = res.cycles,
         AllSlow(faults') => Fine(res', conf, faults'),
         \A f \in faults' \ faults : f.name = "slow" => f.step \in Nat /\ f.cycle \in Nat
  PROVE  FineInv' /\ Dated' /\ BareInv'
<1>1. ~InCycle /\ ~InCycle'
  BY DEF InCycle
<1>2. FineInv'
  BY <1>1 DEF FineInv
<1>3. Dated'
  BY DEF Dated
<1>4. BareInv'
  BY <1>1 DEF BareInv, Bare
<1> QED BY <1>2, <1>3, <1>4

LEMMA EvidenceWorld ==
  ASSUME TypeInv, FineInv, Dated, BareInv, World \/ UNCHANGED vars, faults \subseteq faults'
  PROVE  FineInv' /\ Dated' /\ BareInv'
<1>1. UNCHANGED <<conf, plan, res, kept>> /\ (InCycle' <=> InCycle)
  BY WorldRendering DEF InCycle, StepName
<1>2. \A f \in faults' \ faults : f.name # "slow"
  <2>1. ASSUME NEW name, name # "slow", BlameWorld(name) PROVE \A f \in faults' \ faults : f.name # "slow"
    <3>1. faults' \ faults \subseteq {Fault(name, 0, 0)} /\ Fault(name, 0, 0).name = name
      BY <2>1 DEF BlameWorld, Fault
    <3> QED BY <2>1, <3>1
  <2>2. CASE LinkDown \/ Renegotiate
    BY <2>1, <2>2 DEF LinkDown, Renegotiate
  <2>3. CASE \E s \in Side, c \in Corruptions : Corrupt(s, c[1], c[2])
    <3>1. PICK s \in Side, c \in Corruptions : Corrupt(s, c[1], c[2])
      BY <2>3
    <3>2. c[1] # "slow"
      BY DEF Corruptions
    <3> QED BY <2>1, <3>1, <3>2 DEF Corrupt
  <2>4. CASE faults' = faults
    BY <2>4
  <2>5. CASE LinkUp \/ UNCHANGED vars
    BY <2>4, <2>5 DEF LinkUp, vars
  <2>6. ASSUME NEW s, NEW n, Reset(s) \/ Poll(s) \/ RingDrop(s, n) PROVE faults' = faults
    BY <2>6 DEF Reset, Poll, RingDrop
  <2> QED BY <2>2, <2>3, <2>4, <2>5, <2>6 DEF World
<1>3. FineInv'
  <2>1. SUFFICES ASSUME AllSlow(faults')
                 PROVE  Fine(res', conf', faults') /\ (InCycle' => Fine(kept', conf', faults'))
    BY DEF FineInv
  <2>2. Fine(res, conf, faults) /\ (InCycle => Fine(kept, conf, faults))
    BY <2>1, FewerFaults DEF FineInv
  <2> QED BY <1>1, <2>2, StillFine
<1>4. Dated'
  BY <1>1, <1>2 DEF Dated, Before
<1>5. BareInv'
  BY <1>1 DEF BareInv
<1> QED BY <1>3, <1>4, <1>5

LEMMA EvidenceDetached ==
  ASSUME TypeInv, FineInv, Dated, BareInv, snapshotCountersDetached \/ salvageFinalCounters
  PROVE  FineInv' /\ Dated' /\ BareInv'
<1>1. /\ plan.phase # "base" /\ plan'.phase # "base" /\ conf' = conf /\ faults' = faults
      /\ Same(res', res, {"final", "incomplete"})
  <2>1. CASE snapshotCountersDetached
    BY <2>1, BoundaryStep DEF Unmoved
  <2>2. CASE salvageFinalCounters
    <3>1. plan.phase = "salvage" /\ plan'.phase = "finish" /\ Unmoved /\ faults' = faults
      BY <2>2, SalvageStep
    <3>2. res' = res \/ Same(res', res, {"final"})
      BY <2>2, SalvageStep
    <3> QED BY <3>1, <3>2 DEF Same, Unmoved
  <2> QED BY <2>1, <2>2
<1>2. Same(res', res, NoEvidence) /\ res'.tcp = res.tcp /\ res'.cycles = res.cycles
  BY <1>1 DEF Same, FieldNames, NoEvidence
<1>3. AllSlow(faults') => Fine(res', conf, faults')
  BY <1>1, <1>2, StillFine DEF FineInv
<1> QED BY <1>1, <1>2, <1>3, EvidenceKept

\* The diagnostics find the pairs in order, or are themselves a fault.
LEMMA CableTidy ==
  ASSUME TypeInv, CableStep, AllSlow(faults'), TidyCable(res.cable) PROVE TidyCable(res'.cable)
<1>1. CASE CableWindowStart
  <2>1. CASE res' = res
    BY <2>1
  <2>2. CASE res' = [res EXCEPT !.cable = CableResult(FALSE, {}, FALSE)]
    <3>1. res'.cable = CableResult(FALSE, {}, FALSE)
      BY <2>2, ResType, ResultFields DEF FieldNames
    <3>2. CableResult(FALSE, {}, FALSE).available = FALSE
      BY DEF CableResult
    <3> QED BY <3>1, <3>2 DEF TidyCable
  <2> QED BY <1>1, <2>1, <2>2 DEF CableWindowStart
<1>2. CASE BeginWindow \/ TesterTakesLinkDown
  BY <1>2 DEF BeginWindow, TesterTakesLinkDown
<1>3. CASE CableTesterRun
  <2>1. PICK a, t \in BOOLEAN, p \in SUBSET Pairs :
           /\ res'.cable = CableResult(a, p, t)
           /\ \/ ~a /\ faults' = faults
              \/ a /\ \E n \in DOMAIN PairResults : p = PairResults[n] /\ Blame({n})
    BY <1>3, TesterStep
  <2>2. res'.cable.available = a /\ res'.cable.pairs = p
    BY <2>1 DEF CableResult
  <2>3. ASSUME a PROVE p \subseteq {"ok"}
    <3>1. PICK n \in DOMAIN PairResults : p = PairResults[n] /\ Blame({n})
      BY <2>1, <2>3
    <3>2. n \in HostCauses \cup {"slow"}
      BY <3>1, Blamed
    <3>3. n = "clean"
      BY <3>2 DEF PairResults, HostCauses
    <3> QED BY <3>1, <3>3 DEF PairResults
  <2> QED BY <2>2, <2>3 DEF TidyCable
<1>4. CASE CableWindowEnd
  <2>1. plan.phase = "end"
    BY <1>4, WindowEndStep
  <2>2. res.cable # Absent
    BY <2>1 DEF TypeInv
  <2>3. res' = res \/ (res'.cable.available = res.cable.available /\ res'.cable.pairs = res.cable.pairs)
    BY <1>4, WindowEndStep
  <2> QED BY <2>2, <2>3 DEF TidyCable
<1>5. CASE EndWindow
  <2>1. plan.phase = "close"
    BY <1>5, EndWindowStep
  <2>2. res.cable # Absent
    BY <2>1 DEF TypeInv
  <2>3. res'.cable.available = res.cable.available /\ res'.cable.pairs = res.cable.pairs
    BY <1>5, EndWindowStep
  <2> QED BY <2>2, <2>3 DEF TidyCable
<1> QED BY <1>1, <1>2, <1>3, <1>4, <1>5 DEF CableStep

LEMMA EvidenceCable ==
  ASSUME TypeInv, FineInv, Dated, BareInv, CableStep, faults \subseteq faults'
  PROVE  FineInv' /\ Dated' /\ BareInv'
<1>1. conf' = conf /\ plan.phase # "base" /\ plan'.phase # "base" /\ Same(res', res, {"cable"})
  BY CableFrame
<1>2. /\ res'.tcp = res.tcp /\ res'.cycles = res.cycles /\ res'.link = res.link /\ res'.ping = res.ping
      /\ res'.fullSizePing = res.fullSizePing /\ res'.udp = res.udp
  BY <1>1 DEF Same, FieldNames
<1>3. ASSUME AllSlow(faults') PROVE Fine(res', conf, faults')
  <2>1. Fine(res, conf, faults)
    BY <1>3, FewerFaults DEF FineInv
  <2>2. TidyCable(res.cable) => TidyCable(res'.cable)
    BY <1>3, CableTidy
  <2> QED BY <1>2, <2>1, <2>2, FineFrom
<1>4. \A f \in faults' \ faults : f.name # "slow"
  <2>1. CASE faults' = faults
    BY <2>1
  <2>3. CASE \E n \in DOMAIN PairResults : Blame({n})
    <3>1. PICK n \in DOMAIN PairResults : Blame({n})
      BY <2>3
    <3>2. n # "slow"
      BY DEF PairResults
    <3>3. \A f \in faults' \ faults : f.name \in {n}
      BY <3>1, Blamed
    <3> QED BY <3>2, <3>3
  <2>4. CASE CableTesterRun
    BY <2>1, <2>3, <2>4, TesterStep
  <2>5. CASE CableWindowStart \/ BeginWindow \/ TesterTakesLinkDown \/ CableWindowEnd \/ EndWindow
    <3>1. faults' = faults
      BY <2>5 DEF CableWindowStart, BeginWindow, TesterTakesLinkDown, CableWindowEnd, EndWindow
    <3> QED BY <2>1, <3>1
  <2> QED BY <2>4, <2>5 DEF CableStep
<1> QED BY <1>1, <1>2, <1>3, <1>4, EvidenceKept

LEMMA EvidenceRender ==
  ASSUME TypeInv, RenderInv, FineInv, Dated, BareInv, Rendering
  PROVE  FineInv' /\ Dated' /\ BareInv'
<1>1. UNCHANGED <<conf, res, faults>> /\ plan.phase # "base" /\ plan'.phase # "base"
  BY RenderStep
<1>2. AllSlow(faults') => Fine(res', conf, faults')
  BY <1>1 DEF FineInv
<1> QED BY <1>1, <1>2, EvidenceKept

LEMMA EvidenceInit == Init => FineInv /\ Dated /\ BareInv
<1> SUFFICES ASSUME Init PROVE FineInv /\ Dated /\ BareInv
  OBVIOUS
<1>1. /\ res.tcp = << >> /\ res.ping = << >> /\ res.fullSizePing = << >> /\ res.udp = << >>
      /\ res.cable = Absent /\ \A s \in Side : res.link[s] = Absent
  BY DEF Init
<1>2. ~InCycle
  BY DEF Init, InCycle, CycleStart
<1>3. Dated
  <2>1. faults \subseteq {Fault("reduced", 0, 0)} /\ Fault("reduced", 0, 0).name = "reduced"
    BY DEF Init, Fault
  <2> QED BY <2>1 DEF Dated
<1>4. BareInv
  BY <1>1, <1>2 DEF BareInv, Bare
<1>5. Fine(res, conf, faults)
  <2>1. SlowOnes(<< >>, conf) = {}
    BY DEF SlowOnes
  <2>2. << >> \in Seq(TidyPing) /\ << >> \in Seq(TidyTCP(conf)) /\ << >> \in Seq(TidyUDP(conf))
    OBVIOUS
  <2> QED BY <1>1, <2>1, <2>2 DEF Fine, Tidy, TidyLink, TidyCable, Sluggish
<1> QED BY <1>2, <1>3, <1>4, <1>5 DEF FineInv

LEMMA EvidenceNext ==
  ASSUME TypeInv, RenderInv, QuietInv, FineInv, Dated, BareInv, [Next]_vars PROVE FineInv' /\ Dated' /\ BareInv'
<1>1. faults \subseteq faults'
  BY FaultsGrow
<1>2. CASE World \/ UNCHANGED vars
  BY <1>1, <1>2, EvidenceWorld
<1>3. CASE BaseStep
  BY <1>1, <1>3, FineBase, BareBase, DatedBase
<1>4. CASE snapshotCountersDetached \/ salvageFinalCounters
  BY <1>4, EvidenceDetached
<1>5. CASE CableStep
  BY <1>1, <1>5, EvidenceCable
<1>6. CASE Rendering
  BY <1>6, EvidenceRender
<1> QED BY <1>2, <1>3, <1>4, <1>5, <1>6, NextCases

-----------------------------------------------------------------------------
(* The verdict on such a run.                                              *)

\* The diagnostics are never said to have caused a negative number of changes.
LEMMA InflictedNat ==
  ASSUME TypeInv, WindowInv, Spans, NEW s \in Side PROVE SelfInflicted(s) \in Nat
<1>1. CASE res.cable = Absent
  BY <1>1 DEF SelfInflicted
<1>2. CASE res.cable # Absent
  <2>1. SelfInflicted(s) = IF window[s].to = Absent THEN 0 ELSE window[s].to - window[s].from
    BY <1>2 DEF SelfInflicted, WindowInv, Inflicted
  <2>2. window[s].to \in Int \cup {Absent} /\ window[s].from \in Int \cup {Absent}
    BY ResType DEF Ends2
  <2>3. window[s].to # Absent => window[s].from # Absent /\ window[s].from <= window[s].to
    BY DEF Spans
  <2> QED BY <2>1, <2>2, <2>3
<1> QED BY <1>1, <1>2

\* A counter of damage that did not rise between two snapshots of a side.
LEMMA NothingGained ==
  ASSUME NEW nic \in NICs, NEW h \in HW, NEW g \in HW, NEW c \in Nat, NEW d \in Nat,
         NEW b \in Snapshots \cup {Absent}, NEW a \in Snapshots \cup {Absent},
         b # Absent => Shows(b, nic, h, c), a # Absent => Shows(a, nic, g, d),
         NEW key \in Keys, Tally(nic, g, key) <= Tally(nic, h, key)
  PROVE  sum(DeltaSet(b, a), key) = 0
<1>1. key # "link_resets"
  BY DEF Keys, Tallies
<1>2. Tally(nic, g, key) \in Nat /\ Tally(nic, h, key) \in Nat
  BY TallyTyped
<1>3. CASE b # Absent /\ a # Absent /\ key \in DOMAIN b.std /\ key \in DOMAIN a.std
  <2>1. a.std[key] = Tally(nic, g, key) /\ b.std[key] = Tally(nic, h, key)
    BY <1>1, <1>3, ShownKeys
  <2>2. sum(DeltaSet(b, a), key) = Minus(a.std[key], b.std[key])
    BY <1>3, SumIs
  <2> QED BY <1>2, <2>1, <2>2 DEF Minus
<1>4. CASE ~(b # Absent /\ a # Absent /\ key \in DOMAIN b.std /\ key \in DOMAIN a.std)
  BY <1>4, SumIs
<1> QED BY <1>3, <1>4

\* Nothing that the counters of a quiet run show is damage or a lost carrier.
LEMMA QuietSide ==
  ASSUME TypeInv, WindowInv, ChainInv, Spans, Quiet, NEW s \in Side,
         NEW x, x = sideFacts(res.initial[s], res.final[s], SelfInflicted(s))
  PROVE  /\ x.CRCClassErrors = 0 /\ (~Recharged(s) => x.UnclassifiedRXErrors = 0)
         /\ x.JabberSizeErrors = 0 /\ x.CarrierPHYErrors = 0 /\ x.CarrierEvents = 0
<1> DEFINE b == res.initial[s]  a == res.final[s]  nic == conf.nic[s]  set == DeltaSet(b, a)  n == SelfInflicted(s)
<1>1. b \in Snapshots \cup {Absent} /\ a \in Snapshots \cup {Absent} /\ nic \in NICs
  BY ResType, ConfType DEF Results
<1>2. PICK h, g \in HW, c, d \in Nat :
        /\ b # Absent => Shows(b, nic, h, c)
        /\ a # Absent => Shows(a, nic, g, d)
        /\ Leq(h, g) /\ Leq(g, hw[s]) /\ c <= d /\ d <= link.changes
  BY DEF ChainInv, Chained, Chain
<1>3. h.corrupt = 0 /\ g.corrupt = 0
  <2>1. h.corrupt \in Nat /\ g.corrupt \in Nat
    BY HWTyped
  <2>2. h.corrupt <= g.corrupt /\ g.corrupt <= hw[s].corrupt
    BY <1>2 DEF Leq
  <2>3. hw[s].corrupt = 0
    BY DEF Quiet
  <2> QED BY <2>1, <2>2, <2>3
<1>4. g.rx_crc <= h.rx_crc /\ g.rx_length <= h.rx_length /\ g.tx_carrier <= h.tx_carrier
  BY <1>2, <1>3 DEF Leq
<1>5. (b # Absent => b.at.changes = 2) /\ (a # Absent => a.at.changes = 2)
  BY DEF Quiet, Untouched
<1>6. n \in Nat
  BY InflictedNat
<1>7. x = sideFacts(b, a, n)
  OBVIOUS
<1>7a. Recharged(s) <=> b # Absent /\ a # Absent /\ nic.folds /\ a.at.missed > b.at.missed
  BY DEF Recharged
<1> HIDE DEF b, a, nic, n
<1>8. sum(set, "rx_crc") = 0 /\ sum(set, "rx_length") = 0 /\ sum(set, "tx_carrier") = 0
  <2>1. \A k \in {"rx_crc", "rx_length", "tx_carrier"} : k \in Keys
    BY DEF Keys, Tallies
  <2>2. \A k \in {"rx_crc", "rx_length", "tx_carrier"} : Tally(nic, g, k) <= Tally(nic, h, k)
    BY <1>1, <1>4, TallyTyped
  <2> QED BY <1>1, <1>2, <2>1, <2>2, NothingGained
<1>8a. ASSUME ~Recharged(s) PROVE sum(set, "rx_errors_total") = 0
  <2>1. CASE b = Absent \/ a = Absent
    BY <1>1, <2>1, SumIs
  <2>2. CASE b # Absent /\ a # Absent
    <3>1. /\ h.rx_crc \in Nat /\ g.rx_crc \in Nat /\ h.rx_length \in Nat /\ g.rx_length \in Nat
          /\ h.rx_missed \in Nat /\ g.rx_missed \in Nat
      BY HWTyped
    <3>2. b.at.missed = h.rx_missed /\ a.at.missed = g.rx_missed
      BY <1>2, <2>2 DEF Shows
    <3>3. nic.folds => g.rx_missed <= h.rx_missed
      BY <1>7a, <1>8a, <2>2, <3>1, <3>2
    <3>4. "rx_errors_total" \in Keys
      BY DEF Keys
    <3>5. Tally(nic, g, "rx_errors_total") <= Tally(nic, h, "rx_errors_total")
      <4>1. CASE nic.folds
        BY <1>4, <3>1, <3>3, <4>1 DEF Tally
      <4>2. CASE ~nic.folds
        BY <1>4, <3>1, <4>2 DEF Tally
      <4> QED BY <4>1, <4>2
    <3> QED BY <1>1, <1>2, <3>4, <3>5, NothingGained
  <2> QED BY <2>1, <2>2
<1>9. sum(set, "link_resets") = 0
  <2>1. CASE b # Absent /\ a # Absent
    <3>1. c = 2 /\ d = 2
      BY <1>2, <1>5, <2>1 DEF Shows
    <3>2. b.std["link_resets"] = 2 /\ a.std["link_resets"] = 2
      BY <1>1, <1>2, <2>1, <3>1, ShownKeys
    <3>3. sum(set, "link_resets") = 0 \/ sum(set, "link_resets") = Minus(2, 2)
      BY <1>1, <3>2, SumIs
    <3> QED BY <3>3 DEF Minus
  <2>2. CASE ~(b # Absent /\ a # Absent)
    BY <1>1, <2>2, SumIs
  <2> QED BY <2>1, <2>2
<1> HIDE DEF set
<1>10. /\ x.CRCClassErrors = sum(set, "rx_crc") /\ x.JabberSizeErrors = sum(set, "rx_length")
       /\ x.CarrierPHYErrors = sum(set, "tx_carrier") /\ x.UnclassifiedRXErrors = unclassifiedRXErrors(set)
       /\ x.CarrierEvents = Minus(sum(set, "link_resets"), n)
  BY <1>7 DEF sideFacts, set
<1>11. ~Recharged(s) => unclassifiedRXErrors(set) = 0
  BY <1>8, <1>8a DEF unclassifiedRXErrors, Minus
<1>12. Minus(0, n) = 0
  BY <1>6 DEF Minus
<1> QED BY <1>8, <1>9, <1>10, <1>11, <1>12

\* The speeds that the ends report.
LEMMA QuietSpeeds ==
  ASSUME TypeInv, Quiet, Tidy(res, conf)
  PROVE  /\ NegSpeed = conf.speed /\ conf.speed \in Nat /\ conf.speed >= 1000
         /\ BestSpeed \in Nat /\ BestSpeed <= 1000
<1>1. conf.speed \in Nat /\ conf.speed >= 1000
  BY ResType, ConfType DEF Quiet
<1>2. \A s \in Side : res.link[s] # Absent =>
         /\ res.link[s].speed = 0 \/ res.link[s].speed = conf.speed
         /\ res.link[s].supported \in Nat /\ res.link[s].partner \in Nat
         /\ res.link[s].supported <= 1000 /\ res.link[s].partner <= 1000
  <2>1. \A s \in Side : res.link[s] # Absent => res.link[s] \in Readings
    BY ResType DEF Results
  <2>2. \A s \in Side : res.link[s] # Absent =>
           res.link[s].speed \in {0, conf.speed} /\ res.link[s].supported <= 1000 /\ res.link[s].partner <= 1000
    BY DEF Tidy, TidyLink
  <2> QED BY <2>1, <2>2 DEF Readings
<1>3. "PC1" \in Side /\ "PC2" \in Side
  BY DEF Side
<1>4. NegSpeed = conf.speed
  <2> DEFINE ends == Endpoints(LinkEnds)
             known == {i \in DOMAIN ends : ends[i] # Absent /\ ends[i].speed > 0}
  <2>1. DOMAIN ends = 1..4 /\ ends[1] = res.link["PC1"] /\ ends[2] = res.link["PC2"] /\ ends[3] = Absent /\ ends[4] = Absent
    BY <1>3 DEF Endpoints, LinkEnds
  <2>2. CASE known = {}
    BY <2>2 DEF NegSpeed
  <2>3. CASE known # {}
    <3>1. NegSpeed = ends[Min(known)].speed
      BY <2>3 DEF NegSpeed
    <3> HIDE DEF ends
    <3>2. known \subseteq 1..4 /\ known \in SUBSET Nat
      BY <2>1
    <3> HIDE DEF known
    <3>3. Min(known) \in known
      BY <2>3, <3>2, Least
    <3>4. Min(known) \in 1..4 /\ ends[Min(known)] # Absent /\ ends[Min(known)].speed > 0
      BY <3>2, <3>3 DEF known
    <3>5. Min(known) = 1 \/ Min(known) = 2
      BY <2>1, <3>4
    <3> QED BY <1>1, <1>2, <1>3, <2>1, <3>1, <3>4, <3>5
  <2> QED BY <2>2, <2>3
<1>5. BestSpeed \in Nat /\ BestSpeed <= 1000
  <2> DEFINE own == IF res.link["PC1"] = Absent THEN 0 ELSE res.link["PC1"].supported
             partner == IF res.link["PC1"] # Absent /\ res.link["PC1"].partner > 0
                        THEN res.link["PC1"].partner
                        ELSE IF res.link["PC2"] = Absent THEN 0 ELSE res.link["PC2"].supported
  <2>1. own \in Nat /\ partner \in Nat /\ own <= 1000 /\ partner <= 1000
    BY <1>2, <1>3
  <2>2. BestSpeed = IF own = 0 \/ partner = 0 THEN 0 ELSE MinOf(own, partner)
    BY DEF BestSpeed
  <2> HIDE DEF own, partner
  <2> QED BY <2>1, <2>2 DEF MinOf
<1> QED BY <1>1, <1>4, <1>5

\* Facts that speak of a sound cable, whatever the throughput was, but for what
\* only a driver's aggregate counts.
MildCable(f) ==
  /\ \A s \in Side : /\ f.side[s].CRCClassErrors = 0 /\ f.side[s].UnclassifiedRXErrors \in Nat
                     /\ f.side[s].JabberSizeErrors = 0 /\ f.side[s].CarrierPHYErrors = 0
                     /\ f.side[s].CarrierEvents = 0
  /\ f.LinkUpAtEnd /\ ~f.HalfDuplex /\ f.Renegotiations = 0
  /\ Reliable(f) = {} => f.MonitorCarrierTransitions = 0
  /\ f.CablePairs \subseteq {"ok"}
  /\ f.NegotiatedSpeed \in Nat /\ f.NegotiatedSpeed >= 1000
  /\ f.ExpectedSpeed \in Nat /\ f.ExpectedSpeed <= 1000
  /\ \A d \in Dir : f.ping[d].PingLossPct = 0 /\ f.ping[d].FullSizeLossPct = 0 /\ f.ping[d].PingMaxGap = 0
  /\ \A d \in Dir : UDPJudged(f, d) => f.udp[d].UDPLossPct = 0
\* Nor does the aggregate count anything.
SoundCable(f) == MildCable(f) /\ \A s \in Side : f.side[s].UnclassifiedRXErrors = 0

LEMMA ZeroTotals ==
  ASSUME NEW f, MildCable(f)
  PROVE  /\ jabberTotal(f) = 0 /\ carrierPHYTotal(f) = 0 /\ carrierEvents(f) = 0
         /\ unclassifiedRXTotal(f) \in Nat /\ crcTotal(f) = unclassifiedRXTotal(f)
         /\ SoundCable(f) => crcTotal(f) = 0
<1>0. "PC1" \in Side /\ "PC2" \in Side
  BY DEF Side
<1>1. \A g : f.side["PC1"][g] = 0 /\ f.side["PC2"][g] = 0 => sumReliableSides(f, g) = 0
  BY DEF sumReliableSides, SumOver, Side
<1>2. /\ sumReliableSides(f, "CRCClassErrors") = 0
      /\ sumReliableSides(f, "CarrierPHYErrors") = 0 /\ sumReliableSides(f, "JabberSizeErrors") = 0
  BY <1>0, <1>1 DEF MildCable
<1>3. carrierEvents(f) = 0
  <2>1. CASE Reliable(f) = {}
    BY <2>1 DEF carrierEvents, MildCable
  <2>2. CASE Reliable(f) # {}
    <3>1. {f.side[s].CarrierEvents : s \in Reliable(f)} \cup {0} = {0}
      BY DEF Reliable, MildCable
    <3>2. Max({0}) = 0
      <4>1. 0 \in Int /\ {0} \in SUBSET (0..0) /\ {0} # {}
        OBVIOUS
      <4>2. Max({0}) \in {0}
        BY <4>1, Greatest
      <4> QED BY <4>2
    <3> QED BY <2>2, <3>1, <3>2 DEF carrierEvents, MaxOf
  <2> QED BY <2>1, <2>2
<1>4. unclassifiedRXTotal(f) \in Nat
  <2>1. \A g : f.side["PC1"][g] \in Nat /\ f.side["PC2"][g] \in Nat => sumReliableSides(f, g) \in Nat
    BY DEF sumReliableSides, SumOver, Side
  <2> QED BY <1>0, <2>1 DEF unclassifiedRXTotal, MildCable
<1>5. SoundCable(f) => unclassifiedRXTotal(f) = 0
  BY <1>0, <1>1 DEF unclassifiedRXTotal, SoundCable
<1>6. crcTotal(f) = unclassifiedRXTotal(f)
  BY <1>2, <1>4 DEF crcTotal
<1> QED BY <1>2, <1>3, <1>4, <1>5, <1>6 DEF jabberTotal, carrierPHYTotal

\* Whatever the aggregate counts, these rules find nothing.
LEMMA PhysicalQuiet ==
  ASSUME NEW f, MildCable(f)
  PROVE  /\ rulePHY01(f) = None /\ rulePHY03(f) = None
         /\ rulePHY04(f) = None /\ rulePHY05(f) = None /\ rulePHY06(f) = None
         /\ rulePHY07(f) = None /\ rulePHY08(f) = None /\ rulePHY09(f) = None
         /\ rulePHY11(f) = None
<1>1. jabberTotal(f) = 0 /\ carrierPHYTotal(f) = 0 /\ carrierEvents(f) = 0
  BY ZeroTotals
<1>2. \A p, q : Graded(0, p, q) = None
  BY DEF Graded
<1>6. rulePHY09(f) = None /\ rulePHY11(f) = None
  BY <1>1, <1>2 DEF rulePHY09, rulePHY11
<1>7. rulePHY03(f) = None
  <2>1. ~(carrierEvents(f) > 0)
    BY <1>1
  <2> QED BY <2>1 DEF rulePHY03, When
<1>8. rulePHY01(f) = None /\ rulePHY05(f) = None
  BY DEF rulePHY01, rulePHY05, When, MildCable
<1>9. rulePHY04(f) = None
  <2>1. ~(f.Renegotiations > 0)
    BY DEF MildCable
  <2> QED BY <2>1 DEF rulePHY04, When
<1>10. rulePHY06(f) = None /\ rulePHY07(f) = None
  <2>1. ~phy06cond(f)
    BY DEF MildCable, phy06cond
  <2> QED BY <2>1 DEF rulePHY06, rulePHY07, When
<1>11. rulePHY08(f) = None
  <2> DEFINE grade(status) == CASE status \in {"open", "short"}  -> SevFailed
                                [] status = "impedance"          -> SevPoor
                                [] status = "unspecified"        -> SevWarning
                                [] OTHER                         -> None
  <2>1. grade("ok") = None
    OBVIOUS
  <2>2. f.CablePairs \subseteq {"ok"}
    BY DEF MildCable
  <2>3. rulePHY08(f) = Max({grade(status) : status \in f.CablePairs} \cup {None})
    BY DEF rulePHY08, WorstOf
  <2> HIDE DEF grade
  <2>4. {grade(status) : status \in f.CablePairs} \cup {None} = {None}
    BY <2>1, <2>2
  <2>5. Max({None}) = None
    <3>1. -1 \in Int /\ {None} \in SUBSET (-1..-1) /\ {None} # {}
      BY DEF None
    <3>2. Max({None}) \in {None}
      BY <3>1, Greatest
    <3> QED BY <3>2
  <2> QED BY <2>3, <2>4, <2>5
<1> QED BY <1>6, <1>7, <1>8, <1>9, <1>10, <1>11

\* Without a lost echo the rule on damaged frames goes by their number.
LEMMA NoEchoLost ==
  ASSUME NEW f, MildCable(f)
  PROVE  rulePHY02(f) = IF crcTotal(f) > 0 THEN SevWarning ELSE None
<1> DEFINE lossy == anyPingLossOver(f, Default.CRCCorroboratingPingLossAbove)
           p == Default.CRCPoorAbove
           q == Default.CRCFailedAbove
<1>1. rulePHY02(f) = IF crcTotal(f) > p /\ lossy THEN SevFailed
                     ELSE IF crcTotal(f) > 0 /\ crcTotal(f) = unclassifiedRXTotal(f) THEN SevWarning
                     ELSE Graded(crcTotal(f), p, q)
  BY DEF rulePHY02
<1>2. ~lossy
  <2>1. Default.CRCCorroboratingPingLossAbove = 100 /\ ~(0 > 100)
    BY DEF Default
  <2>2. \A d \in Dir : f.ping[d].PingLossPct = 0
    BY DEF MildCable
  <2> QED BY <2>1, <2>2 DEF anyPingLossOver
<1>3. crcTotal(f) = unclassifiedRXTotal(f) /\ crcTotal(f) \in Nat
  BY ZeroTotals
<1>4. Graded(0, p, q) = None
  BY DEF Graded
<1> HIDE DEF lossy, p, q
<1>5. CASE crcTotal(f) > 0
  BY <1>1, <1>2, <1>3, <1>5
<1>6. CASE ~(crcTotal(f) > 0)
  <2>1. crcTotal(f) = 0
    BY <1>3, <1>6
  <2> QED BY <1>1, <1>2, <1>4, <1>6, <2>1
<1> QED BY <1>5, <1>6

LEMMA PhysicalNone ==
  ASSUME NEW f, SoundCable(f)
  PROVE  /\ rulePHY01(f) = None /\ rulePHY02(f) = None /\ rulePHY03(f) = None
         /\ rulePHY04(f) = None /\ rulePHY05(f) = None /\ rulePHY06(f) = None
         /\ rulePHY07(f) = None /\ rulePHY08(f) = None /\ rulePHY09(f) = None
         /\ rulePHY10(f) = None /\ rulePHY11(f) = None
<1>0. MildCable(f)
  BY DEF SoundCable
<1>1. ~(crcTotal(f) > 0)
  <2>1. crcTotal(f) = 0
    BY <1>0, ZeroTotals
  <2> QED BY <2>1
<1>2. rulePHY02(f) = None /\ rulePHY10(f) = None
  BY <1>0, <1>1, NoEchoLost DEF rulePHY10, When
<1> QED BY <1>0, <1>2, PhysicalQuiet

\* What only the aggregate shows is a warning where no datagram was lost.
LEMMA PhysicalMild ==
  ASSUME NEW f, MildCable(f), \A d \in Dir : f.udp[d].UDPLossPct = 0, NEW F, F = Rules(f)
  PROVE  \A id \in Physical : F[id] < SevPoor
<1>0. None < SevPoor /\ SevWarning < SevPoor
  BY DEF None, SevWarning, SevPoor
<1>1. rulePHY10(f) = None
  <2>1. Default.UDPLossPoorAbove = 200 /\ ~(0 > 200)
    BY DEF Default
  <2>2. ~(\E d \in Dir : f.udp[d].UDPLossPct > Default.UDPLossPoorAbove)
    BY <2>1
  <2> QED BY <2>2 DEF rulePHY10, When
<1>2. rulePHY02(f) < SevPoor
  BY <1>0, NoEchoLost
<1>3. /\ F["PHY01"] < SevPoor /\ F["PHY02"] < SevPoor /\ F["PHY03"] < SevPoor /\ F["PHY04"] < SevPoor
      /\ F["PHY05"] < SevPoor /\ F["PHY06"] < SevPoor /\ F["PHY07"] < SevPoor /\ F["PHY08"] < SevPoor
      /\ F["PHY09"] < SevPoor /\ F["PHY10"] < SevPoor /\ F["PHY11"] < SevPoor
  BY <1>0, <1>1, <1>2, PhysicalQuiet, RuleValues
<1> QED BY <1>3 DEF Physical

\* The worst of severities that are all milder than a bound.
LEMMA WorstMild ==
  ASSUME NEW S \in SUBSET Ladder, \A k \in S : k < SevPoor
  PROVE  WorstOf(S) < SevPoor
<1>1. S \in SUBSET Severities
  BY DEF Ladder, Severities
<1>2. WorstOf(S) \in S \cup {None}
  BY <1>1, WorstOfBound
<1>3. None < SevPoor
  BY DEF None, SevPoor
<1> QED BY <1>2, <1>3

LEMMA TransportMild ==
  ASSUME NEW f, MildCable(f)
  PROVE  /\ ruleTR01(f) < SevPoor /\ ruleTR02(f) < SevPoor /\ ruleTR03(f) < SevPoor /\ ruleTR04(f) < SevPoor
         /\ ruleTR05(f) < SevPoor /\ ruleTR07(f) < SevPoor /\ ruleTR08(f) < SevPoor /\ ruleTR09(f) < SevPoor
<1>0. None < SevPoor /\ SevWarning < SevPoor /\ None \in Ladder /\ SevWarning \in Ladder
  BY SeverityNames DEF None, SevWarning, SevPoor
<1>1. \A c : When(c, SevWarning) < SevPoor
  BY <1>0 DEF When
<1>2. ruleTR03(f) < SevPoor /\ ruleTR04(f) < SevPoor /\ ruleTR08(f) < SevPoor /\ ruleTR09(f) < SevPoor
  BY <1>0 DEF ruleTR03, ruleTR04, ruleTR08, ruleTR09, When
<1>3. ruleTR01(f) < SevPoor
  <2> DEFINE S == {Graded(f.ping[d].PingLossPct, Default.PingLossPoorAbove, NoBoundary) : d \in Dir}
  <2>1. \A d \in Dir : Graded(f.ping[d].PingLossPct, Default.PingLossPoorAbove, NoBoundary) = None
    BY DEF MildCable, Graded
  <2>2. S \in SUBSET Ladder /\ \A k \in S : k < SevPoor
    BY <1>0, <2>1
  <2>3. ruleTR01(f) = WorstOf(S)
    BY DEF ruleTR01
  <2> HIDE DEF S
  <2> QED BY <2>2, <2>3, WorstMild
<1>4. ruleTR02(f) < SevPoor
  <2>1. ~(\E d \in Dir : f.ping[d].FullSizeLossPct > 0 /\ f.ping[d].PingLossPct = 0)
    BY DEF MildCable
  <2> QED BY <1>0, <2>1 DEF ruleTR02, When
<1>5. ruleTR05(f) < SevPoor
  <2>1. Default.PingGapPoorAbove = 1000
    BY DEF Default
  <2>2. ~(\E d \in Dir : f.ping[d].PingMaxGap > Default.PingGapPoorAbove)
    <3>1. ~(0 > 1000)
      OBVIOUS
    <3> QED BY <2>1, <3>1 DEF MildCable
  <2> QED BY <1>0, <2>2 DEF ruleTR05, When
<1>6. ruleTR07(f) < SevPoor
  <2> DEFINE w(d) == When(UDPJudged(f, d) /\ f.udp[d].UDPLossPct >= Default.UDPLossWarningAt,
                          IF f.udp[d].UDPLossPct > Default.UDPLossPoorAbove THEN SevPoor ELSE SevWarning)
             S == {w(d) : d \in Dir}
  <2>1. Default.UDPLossWarningAt = 50 /\ ~(0 >= 50)
    BY DEF Default
  <2>2. \A d \in Dir : w(d) = None
    BY <2>1 DEF MildCable, When
  <2>3. ruleTR07(f) = WorstOf(S)
    BY DEF ruleTR07
  <2> HIDE DEF w
  <2>4. S \in SUBSET Ladder /\ \A k \in S : k < SevPoor
    BY <1>0, <2>2
  <2> HIDE DEF S
  <2> QED BY <2>3, <2>4, WorstMild
<1> QED BY <1>2, <1>3, <1>4, <1>5, <1>6

\* Metrics that are all zero.
LEMMA WorstZero ==
  ASSUME NEW s, NEW I, NEW g, \A i \in I : s[i].m[g] \in Metric /\ s[i].m[g] = 0
  PROVE  MaxOf(Field(s, I, g)) = 0
BY WorstMetric

LEMMA TidyLogs ==
  ASSUME TypeInv, Tidy(res, conf)
  PROVE  /\ \A i \in DOMAIN res.tcp : res.tcp[i] \in TidyTCP(conf)
         /\ \A i \in DOMAIN res.udp : res.udp[i] \in TidyUDP(conf)
         /\ \A i \in DOMAIN res.ping : res.ping[i] \in TidyPing
         /\ \A i \in DOMAIN res.fullSizePing : res.fullSizePing[i] \in TidyPing
<1>1. /\ res.tcp \in Seq(TidyTCP(conf)) /\ res.udp \in Seq(TidyUDP(conf))
      /\ res.ping \in Seq(TidyPing) /\ res.fullSizePing \in Seq(TidyPing)
  BY DEF Tidy
<1>2. \A S : \A q \in Seq(S) : \A i \in DOMAIN q : q[i] \in S
  OBVIOUS
<1> QED BY <1>1, <1>2

LEMMA SoundPing ==
  ASSUME TypeInv, Tidy(res, conf), NEW d, NEW p, p = pingFacts(res.ping, res.fullSizePing, d)
  PROVE  p.PingLossPct = 0 /\ p.FullSizeLossPct = 0 /\ p.PingMaxGap = 0
<1> DEFINE I == Of(res.ping, d)  J == Of(res.fullSizePing, d)
<1>1. /\ p.PingLossPct = MaxOf(Field(res.ping, I, "loss")) /\ p.PingMaxGap = MaxOf(Field(res.ping, I, "gap"))
      /\ p.FullSizeLossPct = MaxOf(Field(res.fullSizePing, J, "loss"))
  BY DEF pingFacts
<1>2. I \subseteq DOMAIN res.ping /\ J \subseteq DOMAIN res.fullSizePing
  BY DEF Of
<1> HIDE DEF I, J
<1>3. \A i \in I : res.ping[i].m["loss"] \in Metric /\ res.ping[i].m["loss"] = 0
  BY <1>2, TidyLogs DEF TidyPing, Entry, PingM
<1>4. \A i \in I : res.ping[i].m["gap"] \in Metric /\ res.ping[i].m["gap"] = 0
  BY <1>2, TidyLogs DEF TidyPing, Entry, PingM
<1>5. \A i \in J : res.fullSizePing[i].m["loss"] \in Metric /\ res.fullSizePing[i].m["loss"] = 0
  BY <1>2, TidyLogs DEF TidyPing, Entry, PingM
<1>6. MaxOf(Field(res.ping, I, "loss")) = 0
  BY <1>3, WorstZero
<1>7. MaxOf(Field(res.ping, I, "gap")) = 0
  BY <1>4, WorstZero
<1>8. MaxOf(Field(res.fullSizePing, J, "loss")) = 0
  BY <1>5, WorstZero
<1> QED BY <1>1, <1>6, <1>7, <1>8

\* What was measured of the hosts' CPU is at most the greatest of it.
LEMMA BusiestHost ==
  ASSUME NEW s, NEW I, \A i \in I : s[i].m["host"] \in Metric /\ s[i].m["remote"] \in Metric
  PROVE  /\ CPU(s, I) \subseteq Metric
         /\ \A i \in I : s[i].m["host"] \in CPU(s, I)
         /\ \A i \in I : s[i].m["host"] <= MaxOf(CPU(s, I))
<1>1. CPU(s, I) \subseteq Metric /\ \A i \in I : s[i].m["host"] \in CPU(s, I)
  BY DEF CPU, Field
<1>2. PICK B \in Nat : Metric = 0..B
  BY MetricIs
<1> DEFINE C == CPU(s, I)
<1> HIDE DEF C
<1>3. C \in SUBSET (0..B)
  BY <1>1, <1>2 DEF C
<1>4. \A k \in C : k <= MaxOf(C)
  BY <1>3, MaxOfBound
<1> QED BY <1>1, <1>4 DEF C

\* Where the hosts had time, no datagram of a run that counts was lost.
LEMMA SoundUDP ==
  ASSUME TypeInv, Tidy(res, conf), NEW d, NEW u, u = udpFacts(res.udp, d, conf.speed), u.UDPMaxCPUPct <= 90
  PROVE  u.UDPLossPct = 0
<1> DEFINE I == {i \in Of(res.udp, d) : Qualifies(res.udp[i].m, conf.speed)}
<1>1. u.UDPLossPct = MaxOf(Field(res.udp, I, "loss")) /\ u.UDPMaxCPUPct = MaxOf(CPU(res.udp, I))
  BY DEF udpFacts
<1>2. I \subseteq DOMAIN res.udp /\ \A i \in I : Qualifies(res.udp[i].m, conf.speed)
  BY DEF Of
<1> HIDE DEF I
<1>3. \A i \in I : /\ res.udp[i].m["host"] \in Metric /\ res.udp[i].m["remote"] \in Metric
                   /\ res.udp[i].m["loss"] \in Metric
                   /\ res.udp[i].m["loss"] = 0 \/ res.udp[i].m["host"] > 90
  BY <1>2, TidyLogs DEF TidyUDP, Entry, UDPM
<1>4. \A i \in I : res.udp[i].m["host"] <= MaxOf(CPU(res.udp, I))
  BY <1>3, BusiestHost
<1> DEFINE top == MaxOf(CPU(res.udp, I))
<1>5. top <= 90 /\ top \in Nat
  <2>1. PICK B \in Nat : Metric = 0..B
    BY MetricIs
  <2>2. CPU(res.udp, I) \in SUBSET (0..B)
    BY <1>3, <2>1, BusiestHost
  <2>3. top \in 0..B
    BY <2>2, MaxOfBound
  <2> QED BY <1>1, <2>3
<1> HIDE DEF top
<1>6. \A i \in I : res.udp[i].m["loss"] = 0
  <2> TAKE i \in I
  <2>1. res.udp[i].m["host"] <= top /\ res.udp[i].m["host"] \in Nat
    BY <1>3, <1>4, MetricIs DEF top
  <2>2. ~(res.udp[i].m["host"] > 90)
    BY <1>5, <2>1
  <2> QED BY <1>3, <2>2
<1>7. MaxOf(Field(res.udp, I, "loss")) = 0
  BY <1>3, <1>6, WorstZero
<1> QED BY <1>1, <1>7

\* The facts of a run whose only faults are slow trials.
LEMMA SoundFacts ==
  ASSUME TypeInv, WindowInv, ChainInv, Spans, Quiet, Tidy(res, conf),
         NEW failure \in BOOLEAN, NEW caps \in BOOLEAN, NEW f, f = Facts(failure, caps),
         LeftDown => \E s \in Side : Comparable(s)
  PROVE  MildCable(f) /\ ((\A s \in Side : ~Recharged(s)) => SoundCable(f))
<1>1. \A s \in Side : /\ f.side[s].CRCClassErrors = 0 /\ f.side[s].UnclassifiedRXErrors \in Nat
                      /\ ~Recharged(s) => f.side[s].UnclassifiedRXErrors = 0
                      /\ f.side[s].JabberSizeErrors = 0 /\ f.side[s].CarrierPHYErrors = 0
                      /\ f.side[s].CarrierEvents = 0
  <2> TAKE s \in Side
  <2>1. f.side = [t \in Side |-> sideFacts(res.initial[t], res.final[t], SelfInflicted(t))]
    BY FactFields
  <2> DEFINE x == f.side[s]
  <2>2. x = sideFacts(res.initial[s], res.final[s], SelfInflicted(s))
    BY <2>1
  <2> HIDE DEF x
  <2>3. /\ x.CRCClassErrors = 0 /\ (~Recharged(s) => x.UnclassifiedRXErrors = 0)
        /\ x.JabberSizeErrors = 0 /\ x.CarrierPHYErrors = 0 /\ x.CarrierEvents = 0
    BY <2>2, QuietSide
  <2>4. x.UnclassifiedRXErrors \in Nat
    BY SidesTyped DEF x
  <2> QED BY <2>3, <2>4 DEF x
<1>2. f.LinkUpAtEnd /\ ~f.HalfDuplex
  <2>1. f.LinkUpAtEnd /\ (f.HalfDuplex <=> (\E s \in Side : res.link[s] # Absent /\ res.link[s].half))
    BY FactFields
  <2>2. \A s \in Side : res.link[s] # Absent => ~res.link[s].half
    BY DEF Tidy, TidyLink
  <2> QED BY <2>1, <2>2
<1>3. f.Renegotiations = 0 /\ (~LeftDown => f.MonitorCarrierTransitions = 0)
  <2>1. /\ f.Renegotiations = EventCount(mon["PC1"].history, {"renegotiation", "speed_changed"})
        /\ f.MonitorCarrierTransitions = EventCount(mon["PC1"].history, {"carrier_lost", "carrier_restored"})
    BY FactFields
  <2> DEFINE h == mon["PC1"].history
  <2>2. h \in Seq(Events)
    BY QuietTypes DEF Monitors
  <2>3. \A i \in DOMAIN h : h[i].selfInflicted \/ (LeftDown /\ h[i].type = "carrier_restored")
    BY DEF Quiet, AllExcused, Excused
  <2> HIDE DEF h
  <2>4. EventCount(h, {"renegotiation", "speed_changed"}) = 0
    <3> DEFINE T == {"renegotiation", "speed_changed"}
    <3>1. ~(\E i \in DOMAIN h : ~h[i].selfInflicted /\ h[i].type \in T)
      BY <2>3
    <3> HIDE DEF T
    <3>2. EventCount(h, T) = 0
      BY <2>2, <3>1, EventCountType
    <3> QED BY <3>2 DEF T
  <2>5. ASSUME ~LeftDown PROVE \A T : EventCount(h, T) = 0
    BY <2>2, <2>3, <2>5, EventCountType
  <2> QED BY <2>1, <2>4, <2>5 DEF h
<1>3a. Reliable(f) = {} => f.MonitorCarrierTransitions = 0
  <2> SUFFICES ASSUME LeftDown PROVE Reliable(f) # {}
    BY <1>3
  <2>1. PICK s \in Side : Comparable(s)
    OBVIOUS
  <2> DEFINE x == f.side[s]
  <2>2. x = sideFacts(res.initial[s], res.final[s], SelfInflicted(s))
    BY SidesTyped
  <2> HIDE DEF x
  <2>3. x.DeltaOK
    BY <2>1, <2>2, SideDamage
  <2> QED BY <2>1, <2>3 DEF x, Reliable
<1>4. f.CablePairs \subseteq {"ok"}
  <2>1. f.CablePairs = IF res.cable # Absent /\ res.cable.available THEN res.cable.pairs ELSE {}
    BY FactFields
  <2> QED BY <2>1 DEF Tidy, TidyCable
<1>5. f.NegotiatedSpeed = conf.speed /\ conf.speed \in Nat /\ conf.speed >= 1000
      /\ f.ExpectedSpeed \in Nat /\ f.ExpectedSpeed <= 1000
  <2>1. f.NegotiatedSpeed = NegSpeed /\ f.ExpectedSpeed = BestSpeed
    BY FactFields
  <2>2. NegSpeed = conf.speed /\ conf.speed \in Nat /\ conf.speed >= 1000 /\ BestSpeed \in Nat /\ BestSpeed <= 1000
    BY QuietSpeeds
  <2> QED BY <2>1, <2>2
<1>6. \A d \in Dir : f.ping[d].PingLossPct = 0 /\ f.ping[d].FullSizeLossPct = 0 /\ f.ping[d].PingMaxGap = 0
  <2> TAKE d \in Dir
  <2>1. f.ping = [e \in Dir |-> pingFacts(res.ping, res.fullSizePing, e)]
    BY FactFields
  <2> DEFINE p == f.ping[d]
  <2>2. p = pingFacts(res.ping, res.fullSizePing, d)
    BY <2>1
  <2> HIDE DEF p
  <2>3. p.PingLossPct = 0 /\ p.FullSizeLossPct = 0 /\ p.PingMaxGap = 0
    BY <2>2, SoundPing
  <2> QED BY <2>3 DEF p
<1>7. \A d \in Dir : UDPJudged(f, d) => f.udp[d].UDPLossPct = 0
  <2> TAKE d \in Dir
  <2> HAVE UDPJudged(f, d)
  <2>0. NegSpeed = conf.speed
    BY QuietSpeeds
  <2>1. f.udp = [e \in Dir |-> udpFacts(res.udp, e, NegSpeed)]
    BY FactFields
  <2> DEFINE u == f.udp[d]
  <2>2. u = udpFacts(res.udp, d, conf.speed)
    BY <2>0, <2>1
  <2>3. Default.CPUHostLimitedAbove = 90
    BY DEF Default
  <2>4. u.UDPMaxCPUPct <= 90
    BY <2>3 DEF UDPJudged
  <2> HIDE DEF u
  <2>5. u.UDPLossPct = 0
    BY <2>2, <2>4, SoundUDP
  <2> QED BY <2>5 DEF u
<1>8. MildCable(f)
  BY <1>1, <1>2, <1>3, <1>3a, <1>4, <1>5, <1>6, <1>7 DEF MildCable
<1> QED BY <1>1, <1>8 DEF SoundCable

\* Only what a busy host may cause as well is worse than a warning.
LEMMA TrafficMild ==
  ASSUME NEW f, MildCable(f), NEW F, F = Rules(f)
  PROVE  \A id \in (Transport \cup Performance) \ {"TR06", "PERF01", "PERF02", "PERF03"} : F[id] < SevPoor
<1>1. /\ F["TR01"] < SevPoor /\ F["TR02"] < SevPoor /\ F["TR03"] < SevPoor /\ F["TR04"] < SevPoor
      /\ F["TR05"] < SevPoor /\ F["TR07"] < SevPoor /\ F["TR08"] < SevPoor /\ F["TR09"] < SevPoor
  BY TransportMild, RuleValues
<1>2. F["PERF04"] < SevPoor
  <2>1. F["PERF04"] = rulePERF04(f)
    BY RuleValues
  <2> QED BY <2>1 DEF rulePERF04, When, None, SevWarning, SevPoor
<1> QED BY <1>1, <1>2 DEF Transport, Performance

\* The findings on a sound cable: nothing physical.
LEMMA SoundFindings ==
  ASSUME NEW f, SoundCable(f), NEW F, F = Rules(f)
  PROVE  \A id \in Physical : F[id] = None
<1>1. /\ F["PHY01"] = None /\ F["PHY02"] = None /\ F["PHY03"] = None /\ F["PHY04"] = None
      /\ F["PHY05"] = None /\ F["PHY06"] = None /\ F["PHY07"] = None /\ F["PHY08"] = None
      /\ F["PHY09"] = None /\ F["PHY10"] = None /\ F["PHY11"] = None
  BY PhysicalNone, RuleValues
<1> QED BY <1>1 DEF Physical

\* Slow traffic over a sound cable is excused by a busy host.
LEMMA BusyExcuses ==
  ASSUME NEW f, SoundCable(f), NEW F, F = Rules(f), f.MaxCPUPct > 90
  PROVE  classify(F) \notin {"POOR", "FAILED"}
<1> SUFFICES ASSUME NEW c, c = classify(F), c \in {"POOR", "FAILED"} PROVE FALSE
  OBVIOUS
<1>1. Sound(F)
  BY RulesSound
<1>2. \A id \in Physical : F[id] = None
  BY SoundFindings
<1>3. \A id \in (Transport \cup Performance) \ {"TR06", "PERF01", "PERF02", "PERF03"} : F[id] < SevPoor
  BY TrafficMild DEF SoundCable
<1>0. None < SevPoor /\ None < SevWarning /\ None \in Ladder /\ SevPoor \in Ladder
  BY DEF None, SevPoor, SevWarning, Ladder
<1>4. (\E id \in Transport \cup Performance : F[id] >= SevPoor) /\ ~HostExcuses(F)
  <2>1. \/ \E id \in Physical : F[id] >= SevPoor
        \/ /\ \E id \in Transport \cup Performance : F[id] >= SevPoor
           /\ ~HostExcuses(F)
    BY <1>1, ConvictionMeans
  <2>2. ~(None >= SevPoor)
    BY DEF None, SevPoor
  <2> QED BY <1>2, <2>1, <2>2
<1>5. hasHostLimit(F)
  <2>1. F["HOST01"] = ruleHOST01(f)
    BY RuleValues
  <2>2. Default.CPUHostLimitedAbove = 90
    BY DEF Default
  <2>3. ruleHOST01(f) = SevMarker
    BY <2>2 DEF ruleHOST01, When
  <2>4. SevMarker # None
    BY DEF SevMarker, None
  <2> QED BY <2>1, <2>3, <2>4 DEF hasHostLimit, hasFinding
<1>6. allPoorAreHostSensitive(F)
  <2>1. {"TR06", "PERF01", "PERF02", "PERF03"} \subseteq HostSensitive
    BY DEF HostSensitive, Performance
  <2>2. \A id \in (Physical \cup Transport \cup Performance) \ HostSensitive : F[id] < SevPoor
    BY <1>0, <1>2, <1>3, <2>1
  <2> QED BY <2>2 DEF allPoorAreHostSensitive
<1>7. worstIn(F, Physical) < SevWarning
  <2> DEFINE w == worstIn(F, Physical)
  <2>1. \A id \in Physical : F[id] \in Ladder
    BY <1>0, <1>2
  <2>2. w = None \/ \E id \in Physical : w = F[id]
    BY <2>1, WorstIn
  <2> QED BY <1>0, <1>2, <2>2
<1>8. worstIn(F, Transport \cup Performance) >= SevPoor
  <2> DEFINE T == Transport \cup Performance
             w == worstIn(F, T)
  <2>1. \A id \in T : F[id] \in Ladder
    BY <1>1 DEF Sound
  <2>2. PICK id \in T : F[id] >= SevPoor
    BY <1>4
  <2> HIDE DEF T
  <2>3. w \in Ladder /\ \A i \in T : F[i] <= w
    BY <2>1, WorstIn
  <2>4. F[id] \in Ladder /\ F[id] <= w
    BY <2>1, <2>3
  <2> HIDE DEF w
  <2>5. w >= SevPoor
    BY <1>0, <2>2, <2>3, <2>4 DEF Ladder
  <2> QED BY <2>5 DEF w, T
<1> QED BY <1>4, <1>5, <1>6, <1>7, <1>8 DEF HostExcuses

\* A cable that is good enough and whose traffic was is not convicted.
LEMMA MildAcquits ==
  ASSUME NEW f, MildCable(f), NEW F, F = Rules(f), \A id \in Physical : F[id] < SevPoor,
         ruleTR06(f) < SevPoor, rulePERF01(f) < SevPoor, rulePERF02(f) < SevPoor, rulePERF03(f) < SevPoor
  PROVE  classify(F) \notin {"POOR", "FAILED"}
<1> SUFFICES ASSUME NEW c, c = classify(F), c \in {"POOR", "FAILED"} PROVE FALSE
  OBVIOUS
<1>0. None < SevPoor /\ SevPoor \in Ladder
  BY DEF None, SevPoor, Ladder
<1>1. Sound(F)
  BY RulesSound
<1>2. F["TR06"] < SevPoor /\ F["PERF01"] < SevPoor /\ F["PERF02"] < SevPoor /\ F["PERF03"] < SevPoor
  BY RuleValues
<1>4. \A id \in (Transport \cup Performance) \ {"TR06", "PERF01", "PERF02", "PERF03"} : F[id] < SevPoor
  BY TrafficMild
<1>5. \A id \in Physical \cup Transport \cup Performance : F[id] < SevPoor
  BY <1>2, <1>4
<1>6. \E id \in Physical \cup Transport \cup Performance : F[id] >= SevPoor
  <2>1. \/ \E id \in Physical : F[id] >= SevPoor
        \/ /\ \E id \in Transport \cup Performance : F[id] >= SevPoor
           /\ ~HostExcuses(F)
    BY <1>1, ConvictionMeans
  <2> QED BY <2>1
<1>7. PICK id \in Physical \cup Transport \cup Performance : F[id] >= SevPoor
  BY <1>6
<1>8. F[id] \in Ladder /\ F[id] < SevPoor
  BY <1>1, <1>5 DEF Sound
<1> QED BY <1>0, <1>7, <1>8 DEF Ladder

\* The busiest moment of the run covers every whole trial and every UDP run.
LEMMA HostLoadTop ==
  ASSUME TypeInv
  PROVE  /\ HostLoad \in Nat
         /\ \A i \in DOMAIN res.tcp : ~res.tcp[i].m.incomplete => res.tcp[i].m.host <= HostLoad
         /\ \A i \in DOMAIN res.udp : res.udp[i].m.host <= HostLoad
<1> DEFINE W == {i \in DOMAIN res.tcp : ~res.tcp[i].m.incomplete}
           rest == IF res.bidir = Absent THEN {} ELSE {res.bidir.host, res.bidir.remote}
           C == CPU(res.tcp, W) \cup CPU(res.udp, DOMAIN res.udp) \cup rest
<1>1. HostLoad = MaxOf(C)
  BY DEF HostLoad
<1>2. \A i \in W : res.tcp[i].m["host"] \in Metric /\ res.tcp[i].m["remote"] \in Metric
  BY LogsTyped DEF Entry, TCPM
<1>3. \A i \in DOMAIN res.udp : res.udp[i].m["host"] \in Metric /\ res.udp[i].m["remote"] \in Metric
  BY LogsTyped DEF Entry, UDPM
<1>4. rest \subseteq Metric
  <2>1. res.bidir \in Load \cup {Absent}
    BY ResType DEF Results
  <2>2. CASE res.bidir = Absent
    BY <2>2
  <2>3. CASE res.bidir # Absent
    <3>1. res.bidir.host \in Metric /\ res.bidir.remote \in Metric
      BY <2>1, <2>3 DEF Load
    <3>2. rest = {res.bidir.host, res.bidir.remote}
      BY <2>3
    <3> QED BY <3>1, <3>2
  <2> QED BY <2>2, <2>3
<1> HIDE DEF rest
<1>5. /\ CPU(res.udp, DOMAIN res.udp) \subseteq Metric
      /\ \A i \in DOMAIN res.udp : res.udp[i].m["host"] \in CPU(res.udp, DOMAIN res.udp)
  <2> DEFINE J == DOMAIN res.udp
  <2>1. \A i \in J : res.udp[i].m["host"] \in Metric /\ res.udp[i].m["remote"] \in Metric
    BY <1>3
  <2> HIDE DEF J
  <2>2. CPU(res.udp, J) \subseteq Metric /\ \A i \in J : res.udp[i].m["host"] \in CPU(res.udp, J)
    BY <2>1, BusiestHost
  <2> QED BY <2>2 DEF J
<1>6. CPU(res.tcp, W) \subseteq Metric /\ \A i \in W : res.tcp[i].m["host"] \in CPU(res.tcp, W)
  <2> HIDE DEF W
  <2> QED BY <1>2, BusiestHost
<1>7. PICK B \in Nat : Metric = 0..B
  BY MetricIs
<1>8. /\ C \in SUBSET (0..B) /\ \A i \in W : res.tcp[i].m["host"] \in C
      /\ \A i \in DOMAIN res.udp : res.udp[i].m["host"] \in C
  BY <1>4, <1>5, <1>6, <1>7
<1> HIDE DEF C
<1>9. MaxOf(C) \in 0..B /\ \A k \in C : k <= MaxOf(C)
  BY <1>8, MaxOfBound
<1>10. /\ \A i \in W : res.tcp[i].m["host"] <= HostLoad
       /\ \A i \in DOMAIN res.udp : res.udp[i].m["host"] <= HostLoad
  BY <1>1, <1>8, <1>9
<1>11. HostLoad \in Nat
  BY <1>1, <1>9
<1> QED BY <1>10, <1>11

\* Where no host was ever busy, no datagram of a run that counts was lost.
LEMMA CoolUDP ==
  ASSUME TypeInv, Quiet, Tidy(res, conf), HostLoad <= 90,
         NEW failure \in BOOLEAN, NEW caps \in BOOLEAN, NEW f, f = Facts(failure, caps)
  PROVE  \A d \in Dir : f.udp[d].UDPLossPct = 0
<1> TAKE d \in Dir
<1>0. NegSpeed = conf.speed
  BY QuietSpeeds
<1>1. f.udp = [e \in Dir |-> udpFacts(res.udp, e, NegSpeed)]
  BY FactFields
<1> DEFINE I == {i \in Of(res.udp, d) : Qualifies(res.udp[i].m, conf.speed)}
<1>2. f.udp[d].UDPLossPct = MaxOf(Field(res.udp, I, "loss"))
  BY <1>0, <1>1 DEF udpFacts
<1>3. I \subseteq DOMAIN res.udp /\ \A i \in I : Qualifies(res.udp[i].m, conf.speed)
  BY DEF Of
<1> HIDE DEF I
<1>4. \A i \in I : /\ res.udp[i].m["host"] \in Metric /\ res.udp[i].m["loss"] \in Metric
                   /\ res.udp[i].m["loss"] = 0 \/ res.udp[i].m["host"] > 90
  BY <1>3, TidyLogs DEF TidyUDP, Entry, UDPM
<1>5. \A i \in I : res.udp[i].m["loss"] = 0
  <2> TAKE i \in I
  <2>1. res.udp[i].m["host"] \in Nat /\ HostLoad \in Nat /\ res.udp[i].m["host"] <= HostLoad
    BY <1>3, <1>4, MetricIs, HostLoadTop
  <2>2. ~(res.udp[i].m["host"] > 90)
    BY <2>1
  <2> QED BY <1>4, <2>2
<1>6. MaxOf(Field(res.udp, I, "loss")) = 0
  BY <1>4, <1>5, WorstZero
<1> QED BY <1>2, <1>6

\* The trials of a direction that the evaluator uses.
Used(d) ==
  LET trials == Of(res.tcp, d)
      whole  == {i \in trials : ~res.tcp[i].m.incomplete}
  IN IF whole # trials \/ Cardinality(trials) < TrialsDue THEN {} ELSE whole
Counted(d) == {i \in Used(d) : res.tcp[i].m.retrans # Absent}

LEMMA UsedIs ==
  ASSUME TypeInv, NEW d
  PROVE  /\ Used(d) \subseteq DOMAIN res.tcp /\ IsFiniteSet(Used(d)) /\ Cardinality(Used(d)) \in Nat
         /\ \A i \in Used(d) : ~res.tcp[i].m.incomplete
         /\ Counted(d) \subseteq Used(d) /\ IsFiniteSet(Counted(d))
         /\ TrialsDue \in Nat /\ Used(d) # {} => Cardinality(Used(d)) >= TrialsDue
<1> DEFINE trials == Of(res.tcp, d)
           whole  == {i \in trials : ~res.tcp[i].m.incomplete}
<1>1. Used(d) = IF whole # trials \/ Cardinality(trials) < TrialsDue THEN {} ELSE whole
  BY DEF Used
<1>2. trials \subseteq DOMAIN res.tcp
  BY DEF Of
<1>3. Used(d) \subseteq DOMAIN res.tcp /\ (\A i \in Used(d) : ~res.tcp[i].m.incomplete) /\ Counted(d) \subseteq Used(d)
  BY <1>1, <1>2 DEF Counted
<1>4. IsFiniteSet(DOMAIN res.tcp)
  <2>1. res.tcp \in Seq(Entry(TCPM(conf)))
    BY ResType DEF Results
  <2>2. DOMAIN res.tcp = 1..Len(res.tcp) /\ Len(res.tcp) \in Nat /\ 1 \in Int
    BY <2>1
  <2>3. IsFiniteSet(1..Len(res.tcp))
    BY <2>2, FS_Interval
  <2> QED BY <2>2, <2>3
<1>5. IsFiniteSet(Used(d)) /\ IsFiniteSet(trials)
  BY <1>2, <1>3, <1>4, FS_Subset
<1>6. IsFiniteSet(Counted(d))
  BY <1>3, <1>5, FS_Subset
<1>7. Cardinality(Used(d)) \in Nat /\ Cardinality(trials) \in Nat
  BY <1>5, FS_CardinalityType
<1>8. TrialsDue \in Nat /\ Used(d) # {} => Cardinality(Used(d)) >= TrialsDue
  <2> HAVE TrialsDue \in Nat /\ Used(d) # {}
  <2>1. Used(d) = trials /\ ~(Cardinality(trials) < TrialsDue)
    BY <1>1
  <2> HIDE DEF trials
  <2> QED BY <1>7, <2>1
<1> QED BY <1>3, <1>5, <1>6, <1>7, <1>8

\* The facts of a direction's trials.
LEMMA UsedFacts ==
  ASSUME TypeInv, NEW d, NEW t, t = tcpFacts(res.tcp, d, TrialsDue, conf.speed)
  PROVE  /\ (t.TCPAvailable <=> Used(d) # {}) /\ t.TCPTrialCount = Cardinality(Used(d))
         /\ t.TCPThroughputDeviations =
              Cardinality({i \in Used(d) : throughputShortfall(res.tcp[i].m.bps, conf.speed)})
         /\ t.TCPBitrate = lowerMedian(res.tcp, Used(d), "bps")
         /\ t.TCPRetransRate = lowerMedian(res.tcp, Counted(d), "retrans")
         /\ t.TCPCoV = lowerMedian(res.tcp, Used(d), "cov")
         /\ t.TCPCollapses = MaxOf(Field(res.tcp, Used(d), "collapses"))
<1> DEFINE trials == Of(res.tcp, d)
           whole  == {i \in trials : ~res.tcp[i].m.incomplete}
           used   == IF whole # trials \/ Cardinality(trials) < TrialsDue THEN {} ELSE whole
           counted == {i \in used : res.tcp[i].m.retrans # Absent}
<1>1. used = Used(d) /\ counted = Counted(d)
  BY DEF Used, Counted
<1>2. /\ t.TCPAvailable = (used # {}) /\ t.TCPTrialCount = Cardinality(used)
      /\ t.TCPThroughputDeviations =
           Cardinality({i \in used : throughputShortfall(res.tcp[i].m.bps, conf.speed)})
      /\ t.TCPBitrate = lowerMedian(res.tcp, used, "bps")
      /\ t.TCPRetransRate = lowerMedian(res.tcp, counted, "retrans")
      /\ t.TCPCoV = lowerMedian(res.tcp, used, "cov")
      /\ t.TCPCollapses = MaxOf(Field(res.tcp, used, "collapses"))
  BY DEF tcpFacts
<1> HIDE DEF used, counted
<1> QED BY <1>1, <1>2

\* Where the hosts had time, the trials show no trouble but a low bitrate.
LEMMA CoolTrials ==
  ASSUME TypeInv, Tidy(res, conf), HostLoad <= 90, NEW d,
         NEW t, t = tcpFacts(res.tcp, d, TrialsDue, conf.speed)
  PROVE  t.TCPRetransRate = 0 /\ t.TCPCoV \in Nat /\ t.TCPCoV <= 30 /\ t.TCPCollapses = 0
<1>1. \A i \in Used(d) : i \in DOMAIN res.tcp /\ ~res.tcp[i].m.incomplete
  BY UsedIs
<1>2. \A i \in Used(d) : res.tcp[i].m["host"] \in Nat /\ ~(res.tcp[i].m["host"] > 90)
  <2> TAKE i \in Used(d)
  <2>1. res.tcp[i].m["host"] \in Metric
    BY <1>1, LogsTyped DEF Entry, TCPM
  <2>2. res.tcp[i].m["host"] <= HostLoad /\ HostLoad \in Nat
    BY <1>1, HostLoadTop
  <2>3. res.tcp[i].m["host"] \in Nat
    BY <2>1, MetricIs
  <2> QED BY <2>2, <2>3
<1>3. \A i \in Used(d) : res.tcp[i].m["retrans"] = 0 /\ res.tcp[i].m["cov"] <= 30 /\ res.tcp[i].m["collapses"] = 0
  BY <1>1, <1>2, TidyLogs DEF TidyTCP
<1>4. \A i \in Used(d) : res.tcp[i].m["cov"] \in Metric /\ res.tcp[i].m["collapses"] \in Metric
  BY <1>1, LogsTyped DEF Entry, TCPM
<1>5. PICK B \in Nat : Metric = 0..B
  BY MetricIs
<1>6. t.TCPCollapses = 0
  <2>1. MaxOf(Field(res.tcp, Used(d), "collapses")) = 0
    BY <1>3, <1>4, WorstZero
  <2> QED BY <2>1, UsedFacts
<1>7. t.TCPCoV \in Nat /\ t.TCPCoV <= 30
  <2>1. t.TCPCoV = lowerMedian(res.tcp, Used(d), "cov")
    BY UsedFacts
  <2>2. CASE Used(d) = {}
    <3>1. t.TCPCoV = 0
      BY <2>1, <2>2 DEF lowerMedian
    <3> QED BY <3>1
  <2>3. CASE Used(d) # {}
    <3>1. IsFiniteSet(Used(d)) /\ \A i \in Used(d) : res.tcp[i].m["cov"] \in 0..B
      BY <1>4, <1>5, UsedIs
    <3>2. t.TCPCoV \in Field(res.tcp, Used(d), "cov")
      BY <2>1, <2>3, <3>1, MedianIsMeasured
    <3>3. PICK i \in Used(d) : t.TCPCoV = res.tcp[i].m["cov"]
      BY <3>2 DEF Field
    <3>4. t.TCPCoV \in 0..B
      BY <3>1, <3>3
    <3> QED BY <1>3, <3>3, <3>4
  <2> QED BY <2>2, <2>3
<1>8. t.TCPRetransRate = 0
  <2>1. t.TCPRetransRate = lowerMedian(res.tcp, Counted(d), "retrans")
    BY UsedFacts
  <2>2. CASE Counted(d) = {}
    BY <2>1, <2>2 DEF lowerMedian
  <2>3. CASE Counted(d) # {}
    <3>1. IsFiniteSet(Counted(d)) /\ Counted(d) \subseteq Used(d)
      BY UsedIs
    <3>2. \A i \in Counted(d) : res.tcp[i].m["retrans"] \in 0..B
      BY <1>3, <3>1
    <3>3. t.TCPRetransRate \in Field(res.tcp, Counted(d), "retrans")
      BY <2>1, <2>3, <3>1, <3>2, MedianIsMeasured
    <3>4. PICK i \in Counted(d) : t.TCPRetransRate = res.tcp[i].m["retrans"]
      BY <3>3 DEF Field
    <3> QED BY <1>3, <3>1, <3>4
  <2> QED BY <2>2, <2>3
<1> QED BY <1>6, <1>7, <1>8

LEMMA TCPFactsOf ==
  ASSUME TypeInv, Quiet, Tidy(res, conf), NEW failure \in BOOLEAN, NEW caps \in BOOLEAN,
         NEW f, f = Facts(failure, caps), NEW d \in Dir
  PROVE  f.tcp[d] = tcpFacts(res.tcp, d, TrialsDue, conf.speed) /\ f.NegotiatedSpeed = conf.speed
<1>1. f.tcp = [e \in Dir |-> tcpFacts(res.tcp, e, TrialsDue, NegSpeed)] /\ f.NegotiatedSpeed = NegSpeed
  BY FactFields
<1>2. NegSpeed = conf.speed
  BY QuietSpeeds
<1> QED BY <1>1, <1>2

\* So the rules about retransmissions, variation and collapses are content.
LEMMA CoolRules ==
  ASSUME TypeInv, Quiet, Tidy(res, conf), HostLoad <= 90,
         NEW failure \in BOOLEAN, NEW caps \in BOOLEAN, NEW f, f = Facts(failure, caps)
  PROVE  ruleTR06(f) < SevPoor /\ rulePERF02(f) < SevPoor /\ rulePERF03(f) < SevPoor
<1>0. None < SevPoor /\ SevWarning < SevPoor /\ None \in Ladder /\ SevWarning \in Ladder
  BY SeverityNames DEF None, SevWarning, SevPoor
<1>1. \A d \in Dir : f.tcp[d].TCPRetransRate = 0 /\ f.tcp[d].TCPCollapses = 0
                     /\ f.tcp[d].TCPCoV \in Nat /\ f.tcp[d].TCPCoV <= 30
  <2> TAKE d \in Dir
  <2> DEFINE t == f.tcp[d]
  <2>1. t = tcpFacts(res.tcp, d, TrialsDue, conf.speed)
    BY TCPFactsOf
  <2> HIDE DEF t
  <2>2. t.TCPRetransRate = 0 /\ t.TCPCoV \in Nat /\ t.TCPCoV <= 30 /\ t.TCPCollapses = 0
    BY <2>1, CoolTrials
  <2> QED BY <2>2 DEF t
<1>2. ruleTR06(f) < SevPoor
  <2> DEFINE g(d) == LET t == f.tcp[d]
                     IN When(t.TCPAvailable /\ MaxOf({t.TCPRetransRate, t.TCPRetransRateWorst})
                                                 >= Default.TCPRetransWarningAt,
                             IF t.TCPRetransRate > Default.TCPRetransPoorAbove
                             THEN SevPoor ELSE SevWarning)
             S == {g(d) : d \in Dir}
  <2>1. Default.TCPRetransPoorAbove = 10000 /\ ~(0 > 10000)
    BY DEF Default
  <2>2. \A d \in Dir : g(d) \in {None, SevWarning}
    BY <1>1, <2>1 DEF When
  <2>3. ruleTR06(f) = WorstOf(S)
    BY DEF ruleTR06
  <2> HIDE DEF g
  <2>4. S \in SUBSET Ladder /\ \A k \in S : k < SevPoor
    BY <1>0, <2>2
  <2> HIDE DEF S
  <2> QED BY <2>3, <2>4, WorstMild
<1>3. rulePERF02(f) < SevPoor
  <2> DEFINE S == {GradedCoV(f.tcp[d].TCPCoV) : d \in TCPDirs(f)}
  <2>1. Default.TCPCoVPoorAbove = 30
    BY DEF Default
  <2>2. \A c \in Nat : c <= 30 => GradedCoV(c) \in {None, SevWarning}
    BY <2>1 DEF GradedCoV, When
  <2>3. TCPDirs(f) \subseteq Dir
    BY DEF TCPDirs
  <2>4. \A d \in TCPDirs(f) : GradedCoV(f.tcp[d].TCPCoV) \in {None, SevWarning}
    BY <1>1, <2>2, <2>3
  <2>5. S \in SUBSET Ladder /\ \A k \in S : k < SevPoor
    BY <1>0, <2>4
  <2>6. rulePERF02(f) = WorstOf(S)
    BY DEF rulePERF02
  <2> HIDE DEF S
  <2> QED BY <2>5, <2>6, WorstMild
<1>4. rulePERF03(f) < SevPoor
  <2>1. "PC1" \in Dir /\ "PC2" \in Dir /\ Dir = Side
    BY DEF Dir, Side
  <2>2. f.tcp["PC1"].TCPCollapses = 0 /\ f.tcp["PC2"].TCPCollapses = 0
    BY <1>1, <2>1
  <2>3. tcpCollapseTotal(f, Dir) = 0
    BY <2>1, <2>2 DEF tcpCollapseTotal, SumOver
  <2>4. \A p, q : Graded(0, p, q) = None
    BY DEF Graded
  <2> QED BY <1>0, <2>3, <2>4 DEF rulePERF03
<1> QED BY <1>2, <1>3, <1>4

\* A gigabit link is slow below nine tenths of its speed and poor below four.
LEMMA ThroughputBands ==
  ASSUME NEW b \in Nat, NEW n \in Nat, n >= 1000
  PROVE  /\ throughputShortfall(b, n) <=> b * 100 < n * 90
         /\ classifyThroughput(b, n) >= SevPoor => b * 100 < n * 90
<1>1. ~(n <= 100) /\ n > 0
  OBVIOUS
<1>2. perfBands(n).PassAt = 90 /\ ~perfBands(n).PassDisabled
  BY <1>1 DEF perfBands
<1>3. throughputShortfall(b, n) <=> b * 100 < n * 90
  BY <1>1, <1>2 DEF throughputShortfall
<1>4. b * 100 >= n * 90 => classifyThroughput(b, n) = None
  BY <1>2 DEF classifyThroughput
<1>5. ~(None >= SevPoor)
  BY DEF None, SevPoor
<1>6. b * 100 >= n * 90 \/ b * 100 < n * 90
  OBVIOUS
<1> QED BY <1>3, <1>4, <1>5, <1>6

\* A poor throughput of cool hosts is that of a slow trial.
LEMMA PoorIsSlow ==
  ASSUME TypeInv, Quiet, Tidy(res, conf), HostLoad <= 90, NEW d \in Dir,
         NEW t, t = tcpFacts(res.tcp, d, TrialsDue, conf.speed), t.TCPAvailable,
         classifyThroughput(t.TCPBitrate, conf.speed) >= SevPoor
  PROVE  \E i \in Used(d) : i \in SlowOnes(res.tcp, conf)
<1>1. Used(d) # {} /\ t.TCPBitrate = lowerMedian(res.tcp, Used(d), "bps")
  BY UsedFacts
<1>2. conf.speed \in Nat /\ conf.speed >= 1000
  BY QuietSpeeds
<1>3. \A i \in Used(d) : i \in DOMAIN res.tcp /\ ~res.tcp[i].m.incomplete
  BY UsedIs
<1>4. \A i \in Used(d) : res.tcp[i].m["bps"] \in 0..conf.speed
  BY <1>3, LogsTyped DEF Entry, TCPM
<1>5. IsFiniteSet(Used(d))
  BY UsedIs
<1>6. t.TCPBitrate \in Field(res.tcp, Used(d), "bps")
  BY <1>1, <1>2, <1>4, <1>5, MedianIsMeasured
<1>7. PICK i \in Used(d) : t.TCPBitrate = res.tcp[i].m["bps"]
  BY <1>6 DEF Field
<1>8. t.TCPBitrate \in Nat
  BY <1>2, <1>4, <1>7
<1>9. t.TCPBitrate * 100 < conf.speed * 90
  BY <1>2, <1>8, ThroughputBands
<1>10. res.tcp[i].m.host <= 90
  <2>1. res.tcp[i].m.host \in Metric
    BY <1>3, LogsTyped DEF Entry, TCPM
  <2>2. res.tcp[i].m.host \in Nat /\ HostLoad \in Nat /\ res.tcp[i].m.host <= HostLoad
    BY <1>3, <2>1, MetricIs, HostLoadTop
  <2> QED BY <2>2
<1>11. Slow(res.tcp[i], conf)
  BY <1>3, <1>7, <1>9, <1>10 DEF Slow
<1> QED BY <1>3, <1>11 DEF SlowOnes

\* The throughput rule is as mild as every direction.
LEMMA ThroughputMild ==
  ASSUME NEW f, \A d \in TCPDirs(f) : assessThroughput(f, d) < SevPoor PROVE rulePERF01(f) < SevPoor
<1> DEFINE S == {assessThroughput(f, d) : d \in TCPDirs(f)}
<1>1. S \in SUBSET Ladder /\ \A k \in S : k < SevPoor
  BY ThroughputSeverity
<1>2. rulePERF01(f) = WorstOf(S)
  BY DEF rulePERF01
<1> HIDE DEF S
<1> QED BY <1>1, <1>2, WorstMild

\* A run with at most slow trials, whose counters took no full ring for damage
\* and whose link came back in time or was counted, is convicted by the
\* throughput of a direction alone, and only where the hosts had time.
LEMMA OnlyThroughput ==
  ASSUME RunInv, FineInv, AllSlow(faults), Final, NEW f, f = Facts(plan.err, TRUE),
         \A s \in Side : ~Recharged(s), LeftDown => \E s \in Side : Comparable(s),
         HostLoad <= 90 => \A d \in TCPDirs(f) : assessThroughput(f, d) < SevPoor
  PROVE  ~Convicts
<1>0. TypeInv /\ RenderInv /\ WindowInv /\ ChainInv /\ Spans /\ Quiet /\ Tidy(res, conf)
  BY DEF RunInv, QuietInv, FineInv, Fine
<1>1. plan.err \in BOOLEAN /\ report.class = classify(Findings(plan.err, TRUE)) /\ TRUE \in BOOLEAN
  BY <1>0, FinalIs
<1> DEFINE F == Rules(f)
<1>2. report.class = classify(F)
  BY <1>1 DEF Findings
<1>3. SoundCable(f) /\ MildCable(f)
  BY <1>0, <1>1, SoundFacts
<1>4. F = Rules(f)
  OBVIOUS
<1> HIDE DEF F
<1>5. f.MaxCPUPct = HostLoad
  BY <1>0, <1>1, FactFields
<1>6. HostLoad \in Nat
  BY <1>0, HostLoadTop
<1>7. CASE HostLoad > 90
  <2>1. classify(F) \notin {"POOR", "FAILED"}
    BY <1>3, <1>4, <1>5, <1>7, BusyExcuses
  <2> QED BY <1>2, <2>1 DEF Convicts
<1>8. CASE HostLoad <= 90
  <2>1. ruleTR06(f) < SevPoor /\ rulePERF02(f) < SevPoor /\ rulePERF03(f) < SevPoor
    BY <1>0, <1>1, <1>8, CoolRules
  <2>2. rulePERF01(f) < SevPoor
    BY <1>8, ThroughputMild
  <2>3. \A id \in Physical : F[id] < SevPoor
    <3>1. None < SevPoor
      BY DEF None, SevPoor
    <3>2. \A id \in Physical : F[id] = None
      BY <1>3, <1>4, SoundFindings
    <3> QED BY <3>1, <3>2
  <2>4. classify(F) \notin {"POOR", "FAILED"}
    BY <1>3, <1>4, <2>1, <2>2, <2>3, MildAcquits
  <2> QED BY <1>2, <2>4 DEF Convicts
<1> QED BY <1>6, <1>7, <1>8

\* What a poor throughput of cool hosts shows.
LEMMA PoorShows ==
  ASSUME TypeInv, Quiet, Tidy(res, conf), HostLoad <= 90, NEW failure \in BOOLEAN, NEW caps \in BOOLEAN,
         NEW f, f = Facts(failure, caps), NEW d \in TCPDirs(f), ~(assessThroughput(f, d) < SevPoor)
  PROVE  /\ d \in Dir /\ \E i \in Used(d) : i \in SlowOnes(res.tcp, conf)
         /\ ~(f.tcp[d].TCPTrialCount >= 2 /\ f.tcp[d].TCPThroughputDeviations = 1 /\ physicalLayerClean(f))
<1>1. d \in Dir /\ f.tcp[d].TCPAvailable
  BY DEF TCPDirs
<1> DEFINE t == f.tcp[d]
           sev == classifyThroughput(t.TCPBitrate, f.NegotiatedSpeed)
<1>2. t = tcpFacts(res.tcp, d, TrialsDue, conf.speed) /\ f.NegotiatedSpeed = conf.speed
  BY <1>1, TCPFactsOf
<1>3. sev \in {None, SevInfo, SevWarning, SevPoor}
  BY DEF classifyThroughput
<1>4. assessThroughput(f, d) =
        IF sev > SevWarning /\ (t.TCPTrialCount >= 2 /\ t.TCPThroughputDeviations = 1) /\ physicalLayerClean(f)
        THEN SevWarning ELSE sev
  BY DEF assessThroughput
<1> HIDE DEF sev
<1>5. sev = SevPoor /\ ~(t.TCPTrialCount >= 2 /\ t.TCPThroughputDeviations = 1 /\ physicalLayerClean(f))
  BY <1>3, <1>4 DEF None, SevInfo, SevWarning, SevPoor
<1>6. classifyThroughput(t.TCPBitrate, conf.speed) >= SevPoor
  BY <1>2, <1>5 DEF sev, SevPoor
<1> HIDE DEF t
<1>7. t.TCPAvailable
  BY <1>1 DEF t
<1>8. \E i \in Used(d) : i \in SlowOnes(res.tcp, conf)
  BY <1>1, <1>2, <1>6, <1>7, PoorIsSlow
<1> QED BY <1>1, <1>5, <1>8 DEF t

\* Without a fault no trial was slow, so that only full rings taken for damage
\* on a busy host, or the return of the link after the diagnostics, convict.
LEMMA Acquitted == ASSUME RunInv, FineInv PROVE NoFalseConviction
<1> SUFFICES ASSUME faults = {}, Convicts, LeftDown => \E s \in Side : Comparable(s)
             PROVE  (\E s \in Side : Recharged(s)) /\ report.findings.HOST01 # None
  BY DEF NoFalseConviction
<1>0. /\ TypeInv /\ RenderInv /\ WindowInv /\ ChainInv /\ Spans /\ Quiet /\ Tidy(res, conf)
      /\ AllSlow(faults) /\ SlowOnes(res.tcp, conf) = {} /\ Final
  BY DEF RunInv, QuietInv, FineInv, Fine, AllSlow, Sluggish, Convicts
<1>1. /\ plan.err \in BOOLEAN /\ TRUE \in BOOLEAN /\ report.class = classify(Findings(plan.err, TRUE))
      /\ report.findings = Findings(plan.err, TRUE)
  BY <1>0, FinalIs
<1> DEFINE f == Facts(plan.err, TRUE)
           F == Rules(f)
<1>2. f = Facts(plan.err, TRUE) /\ report.class = classify(F) /\ report.findings = F
  BY <1>1 DEF Findings
<1> HIDE DEF f
<1>3. ASSUME HostLoad <= 90, NEW d \in TCPDirs(f), ~(assessThroughput(f, d) < SevPoor) PROVE FALSE
  <2>1. \E i \in Used(d) : i \in SlowOnes(res.tcp, conf)
    BY <1>0, <1>1, <1>2, <1>3, PoorShows
  <2> QED BY <1>0, <2>1
<1>4. HostLoad <= 90 => \A d \in TCPDirs(f) : assessThroughput(f, d) < SevPoor
  BY <1>3
<1>5. \E s \in Side : Recharged(s)
  <2>1. ASSUME \A s \in Side : ~Recharged(s) PROVE ~Convicts
    BY <1>0, <1>2, <1>4, <2>1, OnlyThroughput
  <2> QED BY <2>1
<1>6. F = Rules(f)
  OBVIOUS
<1> HIDE DEF F
<1>7. ~(HostLoad <= 90)
  <2> SUFFICES ASSUME HostLoad <= 90 PROVE FALSE
    OBVIOUS
  <2>1. MildCable(f)
    BY <1>0, <1>1, <1>2, SoundFacts
  <2>2. ruleTR06(f) < SevPoor /\ rulePERF02(f) < SevPoor /\ rulePERF03(f) < SevPoor
    BY <1>0, <1>1, <1>2, CoolRules
  <2>3. rulePERF01(f) < SevPoor
    BY <1>4, ThroughputMild
  <2>4. \A d \in Dir : f.udp[d].UDPLossPct = 0
    BY <1>0, <1>1, <1>2, CoolUDP
  <2>5. \A id \in Physical : F[id] < SevPoor
    BY <1>6, <2>1, <2>4, PhysicalMild
  <2>6. classify(F) \notin {"POOR", "FAILED"}
    BY <1>6, <2>1, <2>2, <2>3, <2>5, MildAcquits
  <2> QED BY <1>2, <2>6 DEF Convicts
<1>8. F["HOST01"] # None
  <2>1. f.MaxCPUPct = HostLoad
    BY <1>0, <1>1, <1>2, FactFields
  <2>2. HostLoad \in Nat
    BY <1>0, HostLoadTop
  <2>3. f.MaxCPUPct > Default.CPUHostLimitedAbove
    BY <1>7, <2>1, <2>2 DEF Default
  <2>4. ruleHOST01(f) = SevMarker
    BY <2>3 DEF ruleHOST01, When
  <2>5. F["HOST01"] = ruleHOST01(f)
    BY <1>6, RuleValues
  <2> QED BY <2>4, <2>5 DEF SevMarker, None
<1> QED BY <1>2, <1>5, <1>8

\* Both sides' counters could be compared, could see damage and saw none.
LEMMA LayerClean ==
  ASSUME TypeInv, ChainInv, NEW failure \in BOOLEAN, NEW caps \in BOOLEAN, NEW f, f = Facts(failure, caps),
         SoundCable(f), \A s \in Side : Comparable(s) /\ Measures(s)
  PROVE  physicalLayerClean(f)
<1>1. \A s \in Side : f.side[s].DeltaOK /\ f.side[s].RXErrorEvidence
  <2> TAKE s \in Side
  <2>1. f.side = [t \in Side |-> sideFacts(res.initial[t], res.final[t], SelfInflicted(t))]
    BY FactFields
  <2> DEFINE x == f.side[s]
  <2>2. x = sideFacts(res.initial[s], res.final[s], SelfInflicted(s))
    BY <2>1
  <2> HIDE DEF x
  <2>3. x.DeltaOK
    BY <2>2, SideDamage
  <2>4. DeltaSet(res.initial[s], res.final[s]) =
          [k \in DOMAIN res.initial[s].std \cap DOMAIN res.final[s].std |->
             CounterDelta(res.initial[s].std[k], res.final[s].std[k])]
    BY DEF Measures, DeltaSet
  <2>5. DOMAIN DeltaSet(res.initial[s], res.final[s]) = DOMAIN res.initial[s].std \cap DOMAIN res.final[s].std
    BY <2>4
  <2>6. rxErrorEvidenceKeys \cap DOMAIN DeltaSet(res.initial[s], res.final[s]) # {}
    BY <2>5 DEF Measures
  <2>7. x.RXErrorEvidence = (rxErrorEvidenceKeys \cap DOMAIN DeltaSet(res.initial[s], res.final[s]) # {})
    BY <2>2 DEF sideFacts
  <2> QED BY <2>3, <2>6, <2>7 DEF x
<1>2. /\ rulePHY01(f) = None /\ rulePHY02(f) = None /\ rulePHY03(f) = None
      /\ rulePHY04(f) = None /\ rulePHY05(f) = None /\ rulePHY06(f) = None
      /\ rulePHY07(f) = None /\ rulePHY08(f) = None /\ rulePHY09(f) = None
      /\ rulePHY10(f) = None /\ rulePHY11(f) = None
  BY PhysicalNone
<1>3. \A id \in DOMAIN PhysicalRules(f) : PhysicalRules(f)[id] = None
  BY <1>2 DEF PhysicalRules
<1> QED BY <1>1, <1>3 DEF physicalLayerClean

\* Where a run of several trials a direction has any, it has several.
LEMMA SeveralDue ==
  ASSUME TypeInv, BareInv, plan.phase = "done", conf.mode # "quick", Repeats > 1, NEW d, Used(d) # {}
  PROVE  TrialsDue \in Nat /\ TrialsDue >= 2 /\ Cardinality(Used(d)) >= 2
<1>1. Repeats \in Nat /\ res.cycles \in Nat
  BY BoundsAssumption, ResType DEF Results
<1>2. conf.mode = "soak" => res.cycles >= 1
  <2> HAVE conf.mode = "soak"
  <2>1. ~InCycle
    BY DEF InCycle
  <2>2. Bare(res)
    BY <2>1 DEF BareInv
  <2>3. res.tcp # << >>
    BY UsedIs
  <2>4. res.cycles # 0
    BY <2>2, <2>3 DEF Bare
  <2> QED BY <1>1, <2>4
<1> DEFINE n == res.cycles
<1>3. \A r, c \in Nat : r > 1 /\ c >= 1 => r * c \in Nat /\ r * c >= 2
  <2> SUFFICES ASSUME NEW r \in Nat, NEW c \in Nat, r > 1, c >= 1 PROVE r * c \in Nat /\ r * c >= 2
    OBVIOUS
  <2>1. r * c = r + r * (c - 1) /\ c - 1 \in Nat /\ r * (c - 1) \in Nat
    OBVIOUS
  <2> QED BY <2>1
<1>4. TrialsDue \in Nat /\ TrialsDue >= 2
  <2>1. CASE conf.mode = "soak"
    <3>1. TrialsDue = Repeats * n
      BY <2>1 DEF TrialsDue
    <3>2. n \in Nat /\ n >= 1
      BY <1>1, <1>2, <2>1
    <3> HIDE DEF n
    <3> QED BY <1>1, <1>3, <3>1, <3>2
  <2>2. CASE conf.mode # "soak"
    <3>1. TrialsDue = Repeats
      BY <2>2 DEF TrialsDue
    <3> QED BY <1>1, <3>1
  <2> QED BY <2>1, <2>2
<1>5. Cardinality(Used(d)) \in Nat /\ Cardinality(Used(d)) >= TrialsDue
  BY <1>4, UsedIs
<1> QED BY <1>4, <1>5

\* The trials of cool hosts that fall short are the slow ones.
LEMMA SlowDeviates ==
  ASSUME TypeInv, Quiet, Tidy(res, conf), HostLoad <= 90, NEW d,
         \A i, j \in SlowOnes(res.tcp, conf) : i = j, NEW i \in Used(d), i \in SlowOnes(res.tcp, conf),
         NEW t, t = tcpFacts(res.tcp, d, TrialsDue, conf.speed)
  PROVE  t.TCPThroughputDeviations = 1
<1> DEFINE D == {j \in Used(d) : throughputShortfall(res.tcp[j].m.bps, conf.speed)}
<1>1. conf.speed \in Nat /\ conf.speed >= 1000
  BY QuietSpeeds
<1>2. \A j \in Used(d) : j \in DOMAIN res.tcp /\ ~res.tcp[j].m.incomplete
  BY UsedIs
<1>3. \A j \in Used(d) : res.tcp[j].m.bps \in Nat
  <2> TAKE j \in Used(d)
  <2>1. res.tcp[j].m.bps \in 0..conf.speed
    BY <1>2, LogsTyped DEF Entry, TCPM
  <2> QED BY <1>1, <2>1
<1>4. \A j \in Used(d) : throughputShortfall(res.tcp[j].m.bps, conf.speed)
                           <=> res.tcp[j].m.bps * 100 < conf.speed * 90
  BY <1>1, <1>3, ThroughputBands
<1>5. \A j \in Used(d) : res.tcp[j].m.host <= 90
  <2> TAKE j \in Used(d)
  <2>1. res.tcp[j].m.host \in Metric
    BY <1>2, LogsTyped DEF Entry, TCPM
  <2>2. res.tcp[j].m.host \in Nat /\ HostLoad \in Nat /\ res.tcp[j].m.host <= HostLoad
    BY <1>2, <2>1, MetricIs, HostLoadTop
  <2> QED BY <2>2
<1>6. \A j \in Used(d) : j \in D <=> j \in SlowOnes(res.tcp, conf)
  BY <1>2, <1>4, <1>5 DEF SlowOnes, Slow
<1>7. D = {i}
  BY <1>6
<1>8. Cardinality(D) = 1
  BY <1>7, FS_Singleton
<1>9. t.TCPThroughputDeviations = Cardinality(D)
  BY UsedFacts
<1> QED BY <1>8, <1>9

\* One slow trial among several is capped.
LEMMA OneAcquitted == ASSUME RunInv, FineInv, BareInv PROVE OneBadTrial
<1> SUFFICES ASSUME \A f, g \in faults : f = g /\ f.name = "slow", conf.mode # "quick", Repeats > 1,
                    \A s \in Side : Comparable(s) /\ Measures(s) /\ ~Recharged(s), Convicts
             PROVE  FALSE
  BY DEF OneBadTrial
<1>0. OneSlow(faults) /\ AllSlow(faults) /\ Final
  BY DEF OneSlow, AllSlow, Convicts
<1>1. TypeInv /\ RenderInv /\ WindowInv /\ ChainInv /\ Spans /\ Quiet /\ Tidy(res, conf)
  BY <1>0 DEF RunInv, QuietInv, FineInv, Fine
<1>2. \A i, j \in SlowOnes(res.tcp, conf) : i = j
  BY <1>0 DEF FineInv, Fine, Sluggish
<1>3. plan.phase = "done" /\ plan.err \in BOOLEAN /\ TRUE \in BOOLEAN
  BY <1>0, <1>1, FinalIs
<1> DEFINE f == Facts(plan.err, TRUE)
<1>4. f = Facts(plan.err, TRUE)
  OBVIOUS
<1> HIDE DEF f
<1>4a. \E s \in Side : Comparable(s)
  BY DEF Side
<1>5. SoundCable(f)
  BY <1>1, <1>3, <1>4, <1>4a, SoundFacts
<1>6. physicalLayerClean(f)
  BY <1>1, <1>3, <1>4, <1>5, LayerClean
<1>7. ASSUME HostLoad <= 90, NEW d \in TCPDirs(f), ~(assessThroughput(f, d) < SevPoor) PROVE FALSE
  <2>1. d \in Dir /\ \E i \in Used(d) : i \in SlowOnes(res.tcp, conf)
    BY <1>1, <1>3, <1>4, <1>7, PoorShows
  <2>2. ~(f.tcp[d].TCPTrialCount >= 2 /\ f.tcp[d].TCPThroughputDeviations = 1 /\ physicalLayerClean(f))
    BY <1>1, <1>3, <1>4, <1>7, PoorShows
  <2>3. PICK i \in Used(d) : i \in SlowOnes(res.tcp, conf)
    BY <2>1
  <2> DEFINE t == f.tcp[d]
  <2>4. t = tcpFacts(res.tcp, d, TrialsDue, conf.speed)
    BY <1>1, <1>3, <1>4, <2>1, TCPFactsOf
  <2> HIDE DEF t
  <2>5. t.TCPThroughputDeviations = 1
    BY <1>1, <1>2, <1>7, <2>3, <2>4, SlowDeviates
  <2>6. t.TCPTrialCount = Cardinality(Used(d))
    BY <1>1, <2>4, UsedFacts
  <2>7. Cardinality(Used(d)) >= 2
    BY <1>1, <1>3, <2>3, SeveralDue
  <2> QED BY <1>6, <2>2, <2>5, <2>6, <2>7 DEF t
<1>8. HostLoad <= 90 => \A d \in TCPDirs(f) : assessThroughput(f, d) < SevPoor
  BY <1>7
<1> QED BY <1>0, <1>4, <1>4a, <1>8, OnlyThroughput

-----------------------------------------------------------------------------
\* The inductive invariant of both theorems: types, the report, the monitor's
\* windows, the chain of snapshots, the quiet world of a run whose only faults
\* are slow trials, what such a run has measured, and when.
VerdictInv == RunInv /\ FineInv /\ Dated /\ BareInv

LEMMA Verdicts == Spec => []VerdictInv
<1>1. Init => VerdictInv
  BY RunInit, EvidenceInit DEF VerdictInv
<1>2. VerdictInv /\ [Next]_vars => VerdictInv'
  <2> SUFFICES ASSUME RunInv, FineInv, Dated, BareInv, [Next]_vars PROVE VerdictInv'
    BY DEF VerdictInv
  <2>1. RunInv'
    BY RunNext
  <2>2. FineInv' /\ Dated' /\ BareInv'
    BY EvidenceNext DEF RunInv
  <2> QED BY <2>1, <2>2 DEF VerdictInv
<1> QED BY <1>1, <1>2, PTL DEF Spec

\* Without a fault of the cable a run ends POOR or FAILED in two ways only,
\* whatever the hosts, the tools, the worker and the diagnostics do, in every
\* plan and for any number of such disturbances: over full rings that the driver
\* counts as damaged frames, on a busy host, or over the return of a link that
\* the diagnostics left down, where neither end has counters to go by
\* (unclassifiedRXErrors, HostExcuses, DeltaReliable, SetCableTestWindow).
THEOREM NoConviction == Spec => []NoFalseConviction
<1>1. VerdictInv => NoFalseConviction
  BY Acquitted DEF VerdictInv
<1> QED BY <1>1, Verdicts, PTL

\* One slow trial among several, over counters that could be compared and took
\* no full ring for damage, is a warning and not a conviction, for any number of
\* trials and cycles (assessThroughput, lowerMedian, expectedTCPTrials).
THEOREM OneTrialCapped == Spec => []OneBadTrial
<1>1. VerdictInv => OneBadTrial
  BY OneAcquitted DEF VerdictInv
<1> QED BY <1>1, Verdicts, PTL
=============================================================================
