----------------------------- MODULE WireProofs -----------------------------
(***************************************************************************)
(* Proofs about Wire, for any number of writers and message IDs, any ring  *)
(* and any interval: no frame is refused as a duplicate, and the read      *)
(* deadline of a peer on a healthy link never expires.                     *)
(***************************************************************************)
EXTENDS Wire, SequenceTheorems, TLAPS

Frame == [id : Nat, age : Nat]

-----------------------------------------------------------------------------
(* What the operations on the wire do to it.                               *)

\* Append adds one frame at the end.
LEMMA Appended ==
  ASSUME NEW s \in Seq(Frame), NEW f \in Frame
  PROVE  /\ Append(s, f) \in Seq(Frame)
         /\ DOMAIN s = 1..Len(s) /\ Len(s) \in Nat
         /\ DOMAIN Append(s, f) = 1..(Len(s) + 1)
         /\ \A i \in 1..Len(s) : Append(s, f)[i] = s[i]
         /\ Append(s, f)[Len(s) + 1] = f
         /\ Append(s, f) # << >>
BY AppendProperties, LenProperties

\* Tail shifts the frames by one.
LEMMA Tailed ==
  ASSUME NEW s \in Seq(Frame), s # << >>
  PROVE  /\ Tail(s) \in Seq(Frame)
         /\ DOMAIN s = 1..Len(s) /\ Len(s) \in Nat \ {0}
         /\ DOMAIN Tail(s) = 1..(Len(s) - 1)
         /\ \A i \in 1..(Len(s) - 1) : Tail(s)[i] = s[i + 1]
         /\ Head(s) = s[1] /\ s[1] \in Frame
         /\ Tail(s) # << >> => Len(s) > 1
BY HeadTailProperties, LenProperties, EmptySeq

Aged(s) == [i \in DOMAIN s |-> [s[i] EXCEPT !.age = @ + 1]]

\* A second makes every frame one second older and moves none.
LEMMA AgedFrames ==
  ASSUME NEW s \in Seq(Frame)
  PROVE  /\ Aged(s) \in Seq(Frame)
         /\ DOMAIN Aged(s) = DOMAIN s /\ DOMAIN s = 1..Len(s) /\ Len(s) \in Nat
         /\ \A i \in DOMAIN s : s[i] \in Frame /\ Aged(s)[i].id = s[i].id
                                /\ Aged(s)[i].age = s[i].age + 1
         /\ Aged(s) = << >> <=> s = << >>
<1>1. DOMAIN s = 1..Len(s) /\ Len(s) \in Nat /\ \A i \in DOMAIN s : s[i] \in Frame
  BY LenProperties
<1>2. \A i \in DOMAIN s : /\ [s[i] EXCEPT !.age = @ + 1] \in Frame
                          /\ [s[i] EXCEPT !.age = @ + 1].id = s[i].id
                          /\ [s[i] EXCEPT !.age = @ + 1].age = s[i].age + 1
  BY <1>1 DEF Frame
<1>3. Aged(s) \in [1..Len(s) -> Frame]
  BY <1>1, <1>2 DEF Aged
<1>4. Aged(s) \in Seq(Frame)
  BY <1>1, <1>3, SeqDef
<1>5. Len(Aged(s)) = Len(s)
  BY <1>1, <1>3, <1>4, LenProperties
<1>6. Aged(s) = << >> <=> s = << >>
  BY <1>4, <1>5, EmptySeq
<1> QED
  BY <1>1, <1>2, <1>3, <1>4, <1>6 DEF Aged

-----------------------------------------------------------------------------
(* Type correctness.                                                       *)

\* The state a session starts from has the right types.
LEMMA TypeInit == Init => TypeOK
<1> SUFFICES ASSUME Init PROVE TypeOK
  OBVIOUS
<1>1. wire \in Seq([id : Nat, age : Nat])
  BY EmptySeq DEF Init
<1> QED
  BY <1>1, CountAssumption, TimeAssumption, WriterAssumption
     DEF Init, TypeOK, Goroutine, Never

\* Every step keeps the types.
LEMMA TypeStep == TypeOK /\ [Next]_vars => TypeOK'
<1> SUFFICES ASSUME TypeOK, [Next]_vars PROVE TypeOK'
  OBVIOUS
<1> USE DEF mintVars, peerVars
<1>t. wire \in Seq(Frame)
  BY DEF TypeOK, Frame
<1>1. CASE HeartbeatTick
  BY <1>1, TimeAssumption DEF HeartbeatTick, TypeOK, Goroutine
<1>2. CASE Observe
  <2>1. Tail(wire) \in Seq(Frame) /\ Head(wire) \in Frame
    BY <1>2, <1>t, Tailed DEF Observe
  <2>2. Head(wire).id \in Nat
    BY <2>1 DEF Frame
  <2>3. /\ maxSeq' \in Nat
        /\ dropped' \subseteq Nat
        /\ ring' \subseteq Nat
    BY <1>2, <2>2 DEF Observe, TypeOK, Remember
  <2> QED
    BY <1>2, <2>1, <2>3 DEF Observe, TypeOK, Frame
<1>3. CASE Second
  <2>1. wire' \in Seq(Frame)
    BY <1>3, <1>t, AgedFrames DEF Second, Aged
  <2>2. lastSend' \in Nat
    BY <1>3, TimeAssumption DEF Second, TypeOK, Never
  <2>3. toTick' \in 0..Interval /\ silence' \in Nat
    <3>1. toTick \in 0..Interval /\ silence \in Nat
      BY DEF TypeOK
    <3>2. toTick > 0 /\ toTick' = toTick - 1 /\ silence' = silence + 1
      BY <1>3 DEF Second
    <3> QED
      BY <3>1, <3>2, TimeAssumption
  <2>4. UNCHANGED <<seq, writeMu, minted, pc, ring, maxSeq, dropped>>
    BY <1>3 DEF Second
  <2> QED
    BY <2>1, <2>2, <2>3, <2>4 DEF TypeOK, Frame
<1>4. ASSUME NEW w \in Goroutine, Mint(w) PROVE TypeOK'
  <2>1. seq' \in Nat /\ writeMu' \in Goroutine /\ seq + 1 \in Nat
    BY <1>4 DEF Mint, TypeOK
  <2>2. minted' \in [Goroutine -> Nat]
    BY <1>4, <2>1 DEF Mint, TypeOK
  <2>3. pc' \in [Goroutine -> {"idle", "send", "write"}]
    BY <1>4 DEF Mint, TypeOK
  <2>4. UNCHANGED <<wire, ring, maxSeq, dropped, toTick, lastSend, silence>>
    BY <1>4 DEF Mint
  <2> QED
    BY <2>1, <2>2, <2>3, <2>4 DEF TypeOK
<1>5. ASSUME NEW w \in Goroutine, Write(w) PROVE TypeOK'
  <2>1. [id |-> minted[w], age |-> 0] \in Frame
    BY DEF TypeOK, Frame
  <2>2. wire' \in Seq(Frame) /\ lastSend' \in Nat
    <3>1. CASE wire' = Append(wire, [id |-> minted[w], age |-> 0]) /\ lastSend' = 0
      BY <3>1, <1>t, <2>1, Appended
    <3>2. CASE UNCHANGED <<wire, lastSend>>
      BY <3>2, <1>t DEF TypeOK
    <3> QED
      BY <1>5, <3>1, <3>2 DEF Write
  <2> QED
    BY <1>5, <2>2 DEF Write, TypeOK, Frame
<1>6. CASE UNCHANGED vars
  BY <1>6 DEF vars, TypeOK
<1> QED
  BY <1>1, <1>2, <1>3, <1>4, <1>5, <1>6 DEF Next

-----------------------------------------------------------------------------
(* IDs reach the wire, and the peer, in the order they were minted.        *)

\* The handshake's IDs are behind both counters.
LEMMA IDInit == Init => IDInv
<1> SUFFICES ASSUME Init PROVE IDInv
  OBVIOUS
<1>1. TypeOK
  BY TypeInit
<1>2. DOMAIN wire = {}
  BY DEF Init
<1>3. Holding /\ WireBelowMinted
  BY DEF Init, Holding, WireBelowMinted
<1>4. WireIncreases
  BY <1>2 DEF WireIncreases
<1>5. RingBelowMax
  BY CountAssumption DEF Init, RingBelowMax
<1> QED
  BY <1>1, <1>3, <1>4, <1>5, CountAssumption DEF Init, IDInv, NoneDropped

\* A minted ID is above all that went before, and its owner has the lock
\* until it is on the wire.
LEMMA IDStep == IDInv /\ [Next]_vars => IDInv'
<1> SUFFICES ASSUME IDInv, [Next]_vars PROVE IDInv'
  OBVIOUS
<1> USE DEF mintVars, peerVars
<1>t. TypeOK /\ TypeOK'
  BY TypeStep DEF IDInv
<1>w. wire \in Seq(Frame)
  BY <1>t DEF TypeOK, Frame
<1>n. seq \in Nat /\ maxSeq \in Nat /\ minted \in [Goroutine -> Nat] /\ maxSeq <= seq
      /\ \A i \in DOMAIN wire : wire[i].id \in Nat
  <2>1. \A i \in DOMAIN wire : wire[i] \in Frame
    BY <1>w, LenProperties
  <2> QED
    BY <1>t, <2>1 DEF TypeOK, IDInv, Frame
<1>1. CASE HeartbeatTick
  <2>1. \A w \in Goroutine : pc'[w] = "write" => pc[w] = "write"
    BY <1>1, <1>t DEF HeartbeatTick, TypeOK
  <2> QED
    BY <1>1, <1>t, <2>1 DEF HeartbeatTick, IDInv, Holding, WireIncreases,
       WireBelowMinted, RingBelowMax, NoneDropped
<1>2. CASE Observe
  <2>1. /\ DOMAIN wire = 1..Len(wire) /\ Len(wire) \in Nat \ {0}
        /\ DOMAIN wire' = 1..(Len(wire) - 1)
        /\ \A i \in 1..(Len(wire) - 1) : wire'[i] = wire[i + 1]
        /\ Head(wire) = wire[1]
    BY <1>2, <1>w, Tailed DEF Observe
  <2>2. Head(wire).id > maxSeq /\ Head(wire).id <= seq /\ Head(wire).id \in Nat
    BY <2>1, <1>n DEF IDInv, WireIncreases
  <2>3. Head(wire).id \notin ring
    BY <2>2, <1>n, <1>t DEF IDInv, RingBelowMax, TypeOK
  <2>4. /\ dropped' = dropped
        /\ maxSeq' = wire[1].id
        /\ ring' \subseteq ring \cup {wire[1].id}
        /\ UNCHANGED <<seq, minted, pc, writeMu>>
    BY <1>2, <2>1, <2>2, <2>3, <1>n DEF Observe, Remember
  <2>5. WireIncreases'
    <3>1. \A i \in DOMAIN wire' : i + 1 \in DOMAIN wire /\ 1 \in DOMAIN wire /\ 1 < i + 1
                                 /\ wire'[i] = wire[i + 1]
      BY <2>1
    <3>2. \A i \in DOMAIN wire' : wire'[i].id > maxSeq' /\ wire'[i].id <= seq'
      BY <3>1, <2>4 DEF IDInv, WireIncreases
    <3>3. \A i, j \in DOMAIN wire' : i < j => i + 1 < j + 1
      BY <2>1
    <3> QED
      BY <3>1, <3>2, <3>3 DEF IDInv, WireIncreases
  <2>6. WireBelowMinted'
    <3>1. \A i \in DOMAIN wire' : i + 1 \in DOMAIN wire /\ wire'[i] = wire[i + 1]
      BY <2>1
    <3>2. 1 \in DOMAIN wire
      BY <2>1
    <3>3. ASSUME NEW w \in Goroutine, pc'[w] = "write"
          PROVE  minted[w] > wire[1].id /\ \A i \in DOMAIN wire' : wire'[i].id < minted[w]
      BY <3>1, <3>2, <3>3, <2>4, <1>n DEF IDInv, WireBelowMinted
    <3> QED
      BY <3>3, <2>4 DEF WireBelowMinted
  <2>7. RingBelowMax'
    BY <2>1, <2>2, <2>4, <1>n, <1>t DEF IDInv, RingBelowMax, TypeOK
  <2> QED
    BY <1>t, <2>1, <2>2, <2>4, <2>5, <2>6, <2>7 DEF IDInv, Holding, NoneDropped
<1>3. CASE Second
  <2>1. DOMAIN wire' = DOMAIN wire /\ \A i \in DOMAIN wire : wire'[i].id = wire[i].id
    BY <1>3, <1>w, AgedFrames DEF Second, Aged
  <2> QED
    BY <1>3, <1>t, <2>1 DEF Second, IDInv, Holding, WireIncreases, WireBelowMinted,
       RingBelowMax, NoneDropped
<1>4. ASSUME NEW w \in Goroutine, Mint(w) PROVE IDInv'
  <2>1. /\ writeMu = NoWriter /\ seq' = seq + 1 /\ writeMu' = w
        /\ UNCHANGED <<wire, ring, maxSeq, dropped>>
        /\ pc'[w] = "write" /\ minted'[w] = seq + 1
        /\ \A v \in Goroutine : v # w => pc'[v] = pc[v] /\ minted'[v] = minted[v]
    BY <1>4, <1>t DEF Mint, MayMint, TypeOK
  <2>2. \A v \in Goroutine : pc[v] # "write"
    BY <2>1, WriterAssumption DEF IDInv, Holding
  <2>3. \A i \in DOMAIN wire : wire[i].id <= seq
    BY DEF IDInv, WireIncreases
  <2>4. Holding'
    BY <2>1, <2>2 DEF Holding
  <2>5. WireIncreases'
    BY <2>1, <1>n DEF IDInv, WireIncreases
  <2>6. WireBelowMinted'
    BY <2>1, <2>2, <2>3, <1>n DEF WireBelowMinted
  <2> QED
    BY <1>t, <2>1, <2>4, <2>5, <2>6, <1>n DEF IDInv, RingBelowMax, NoneDropped
<1>5. ASSUME NEW w \in Goroutine, Write(w) PROVE IDInv'
  <2>1. /\ pc[w] = "write" /\ UNCHANGED <<seq, minted, ring, maxSeq, dropped>>
        /\ pc'[w] = "idle" /\ \A v \in Goroutine : v # w => pc'[v] = pc[v]
    BY <1>5, <1>t DEF Write, TypeOK
  <2>2. \A v \in Goroutine : pc'[v] # "write"
    BY <2>1 DEF IDInv, Holding
  <2>3. minted[w] = seq /\ minted[w] > maxSeq /\ minted[w] \in Nat
        /\ \A i \in DOMAIN wire : wire[i].id < minted[w]
    BY <2>1, <1>n DEF IDInv, Holding, WireBelowMinted
  <2>4. WireIncreases'
    <3>1. CASE UNCHANGED wire
      BY <3>1, <2>1 DEF IDInv, WireIncreases
    <3>2. CASE wire' = Append(wire, [id |-> minted[w], age |-> 0])
      <4>1. [id |-> minted[w], age |-> 0] \in Frame
        BY <2>3 DEF Frame
      <4>2. /\ DOMAIN wire = 1..Len(wire) /\ Len(wire) \in Nat
            /\ DOMAIN wire' = 1..(Len(wire) + 1)
            /\ \A i \in 1..Len(wire) : wire'[i] = wire[i]
            /\ wire'[Len(wire) + 1].id = minted[w]
        BY <3>2, <4>1, <1>w, Appended
      <4>3. \A i \in DOMAIN wire' : i \in DOMAIN wire \/ i = Len(wire) + 1
        BY <4>2
      <4>4. \A i \in DOMAIN wire' : wire'[i].id > maxSeq' /\ wire'[i].id <= seq'
        BY <4>2, <4>3, <2>1, <2>3, <1>n DEF IDInv, WireIncreases
      <4>5. ASSUME NEW i \in DOMAIN wire', NEW j \in DOMAIN wire', i < j
            PROVE  wire'[i].id < wire'[j].id
        <5>1. i \in DOMAIN wire
          BY <4>2, <4>3, <4>5
        <5> QED
          BY <4>2, <4>3, <4>5, <5>1, <2>3 DEF IDInv, WireIncreases
      <4> QED
        BY <4>4, <4>5 DEF WireIncreases
    <3> QED
      BY <1>5, <3>1, <3>2 DEF Write
  <2> QED
    BY <1>t, <2>1, <2>2, <2>4, <1>n DEF IDInv, Holding, WireBelowMinted, RingBelowMax,
       NoneDropped
<1>6. CASE UNCHANGED vars
  BY <1>6, <1>t DEF vars, IDInv, Holding, WireIncreases, WireBelowMinted, RingBelowMax,
     NoneDropped
<1> QED
  BY <1>1, <1>2, <1>3, <1>4, <1>5, <1>6 DEF Next

\* No frame is refused by the peer's duplicate check, however many goroutines
\* write through mintAndWrite.
THEOREM NoneDroppedCorrect == Spec => []NoneDropped
<1>1. IDInv => NoneDropped
  BY DEF IDInv
<1> QED
  BY <1>1, IDInit, IDStep, PTL DEF Spec

-----------------------------------------------------------------------------
(* The peer never waits for the whole of its deadline.                     *)

\* The threshold is a number below an interval.
LEMMA ThresholdNat == Threshold \in Nat /\ Threshold <= Interval /\ Interval \in Nat \ {0}
                      /\ Never \in Nat /\ Threshold + Interval < Never
<1> DEFINE t == (Interval * 4) \div 5
<1>1. t \in Nat /\ t <= Interval
  BY TimeAssumption
<1> QED
  BY <1>1, TimeAssumption DEF Threshold, Never

\* The session starts with a fresh ticker and a fresh deadline.
LEMMA TimeInit == Init => TimeInv
<1> SUFFICES ASSUME Init PROVE TimeInv
  OBVIOUS
<1>1. TypeOK
  BY TypeInit
<1>2. DOMAIN wire = {}
  BY DEF Init
<1> QED
  BY <1>1, <1>2, TimeAssumption
     DEF Init, TimeInv, Recent, QuietBefore, QuietSince, Coming, Ages

\* Time passes only while the heartbeater waits for its tick, and a tick that
\* sends nothing finds the last frame younger than the threshold.
LEMMA TimeStep == TimeInv /\ [Next]_vars => TimeInv'
<1> SUFFICES ASSUME TimeInv, [Next]_vars PROVE TimeInv'
  OBVIOUS
<1> USE DEF mintVars, peerVars
<1>t. TypeOK /\ TypeOK'
  BY TypeStep DEF TimeInv
<1>w. wire \in Seq(Frame)
  BY <1>t DEF TypeOK, Frame
<1>n. /\ toTick \in Nat /\ toTick <= Interval /\ lastSend \in Nat /\ silence \in Nat
      /\ Threshold \in Nat /\ Interval \in Nat \ {0} /\ Never \in Nat
      /\ Threshold + Interval < Never
      /\ MaxDelay \in Nat
      /\ pc \in [Goroutine -> {"idle", "send", "write"}] /\ Heartbeater \in Goroutine
  BY <1>t, ThresholdNat, TimeAssumption DEF TypeOK, Goroutine
<1>a. \A i \in DOMAIN wire : wire[i].age \in Nat
  <2>1. \A i \in DOMAIN wire : wire[i] \in Frame
    BY <1>w, LenProperties
  <2> QED
    BY <2>1 DEF Frame
<1>i. Recent /\ QuietBefore /\ QuietSince /\ Coming /\ Ages
  BY DEF TimeInv
<1>1. CASE HeartbeatTick
  <2>1. /\ pc[Heartbeater] = "idle" /\ toTick' = Interval
        /\ UNCHANGED <<wire, lastSend, silence>>
        /\ pc'[Heartbeater] = "idle" => lastSend # Never /\ lastSend < Threshold
    BY <1>1, <1>n DEF HeartbeatTick
  <2>2. Recent'
    BY <1>i, <1>n, <2>1 DEF Recent
  <2>3. QuietBefore' /\ QuietSince'
    BY <1>i, <1>n, <2>1 DEF QuietBefore, QuietSince
  <2> QED
    BY <1>i, <1>t, <2>1, <2>2, <2>3 DEF TimeInv, Coming, Ages
<1>2. CASE Observe
  <2>1. /\ DOMAIN wire = 1..Len(wire) /\ Len(wire) \in Nat \ {0}
        /\ DOMAIN wire' = 1..(Len(wire) - 1)
        /\ \A i \in 1..(Len(wire) - 1) : wire'[i] = wire[i + 1]
        /\ wire' # << >> => Len(wire) > 1
    BY <1>2, <1>w, Tailed DEF Observe
  <2>2. UNCHANGED <<pc, toTick, lastSend>> /\ silence' = 0
    BY <1>2 DEF Observe
  <2>3. Ages'
    BY <1>i, <2>1 DEF Ages
  <2>4. wire' # << >> => wire'[1].age \in Nat
    BY <1>a, <2>1
  <2>5. Coming'
    BY <2>2, <2>4, <1>n DEF Coming
  <2>6. Recent'
    BY <1>i, <2>2 DEF Recent
  <2>7. QuietBefore' /\ QuietSince'
    BY <2>2, <1>n DEF QuietBefore, QuietSince
  <2> QED
    BY <1>t, <2>3, <2>5, <2>6, <2>7 DEF TimeInv
<1>3. CASE Second
  <2>1. /\ DOMAIN wire' = DOMAIN wire /\ DOMAIN wire = 1..Len(wire) /\ Len(wire) \in Nat
        /\ \A i \in DOMAIN wire : wire'[i].age = wire[i].age + 1
        /\ wire' = << >> <=> wire = << >>
    BY <1>3, <1>w, AgedFrames DEF Second, Aged
  <2>2. /\ toTick > 0 /\ toTick' = toTick - 1 /\ silence' = silence + 1
        /\ pc[Heartbeater] = "idle" /\ pc' = pc
        /\ \A i \in DOMAIN wire : wire[i].age < MaxDelay
        /\ lastSend' = IF lastSend = Never THEN Never ELSE lastSend + 1
    BY <1>3 DEF Second
  <2>3. lastSend # Never => lastSend + toTick <= Threshold + Interval
    BY <1>i, <2>2 DEF Recent
  <2>4. lastSend' = Never <=> lastSend = Never
    BY <2>2, <2>3, <1>n
  <2>5. Ages'
    BY <2>1, <2>2, <1>a, <1>n DEF Ages
  <2>6. Recent'
    BY <2>2, <2>3, <2>4, <1>n DEF Recent
  <2>7. QuietBefore' /\ QuietSince'
    BY <1>i, <2>1, <2>2, <2>4, <1>n DEF QuietBefore, QuietSince
  <2>8. wire # << >> => 1 \in DOMAIN wire
    BY <1>w, <2>1, EmptySeq
  <2>9. Coming'
    BY <1>i, <1>a, <1>n, <2>1, <2>2, <2>8 DEF Coming
  <2> QED
    BY <1>t, <2>5, <2>6, <2>7, <2>9 DEF TimeInv
<1>4. ASSUME NEW w \in Goroutine, Mint(w) PROVE TimeInv'
  <2>1. UNCHANGED <<wire, toTick, lastSend, silence>>
        /\ (pc'[Heartbeater] = "idle" => pc[Heartbeater] = "idle")
    BY <1>4, <1>n DEF Mint
  <2> QED
    BY <1>i, <1>t, <2>1 DEF TimeInv, Recent, QuietBefore, QuietSince, Coming, Ages
<1>5. ASSUME NEW w \in Goroutine, Write(w) PROVE TimeInv'
  <2>1. CASE w # Heartbeater /\ UNCHANGED <<wire, lastSend>>
    <3>1. UNCHANGED <<wire, toTick, lastSend, silence>> /\ pc'[Heartbeater] = pc[Heartbeater]
      BY <1>5, <1>n, <2>1 DEF Write
    <3> QED
      BY <1>i, <1>t, <3>1 DEF TimeInv, Recent, QuietBefore, QuietSince, Coming, Ages
  <2>2. CASE wire' = Append(wire, [id |-> minted[w], age |-> 0]) /\ lastSend' = 0
    <3>1. [id |-> minted[w], age |-> 0] \in Frame
      BY <1>t DEF TypeOK, Frame
    <3>2. /\ DOMAIN wire = 1..Len(wire) /\ Len(wire) \in Nat
          /\ DOMAIN wire' = 1..(Len(wire) + 1)
          /\ \A i \in 1..Len(wire) : wire'[i] = wire[i]
          /\ wire'[Len(wire) + 1].age = 0
          /\ wire' # << >>
      BY <2>2, <3>1, <1>w, Appended
    <3>3. toTick' = toTick /\ silence' = silence /\ lastSend' # Never
      BY <1>5, <2>2, ThresholdNat, <1>n DEF Write
    <3>4. Ages'
      <4>1. \A i \in DOMAIN wire' : i \in DOMAIN wire \/ i = Len(wire) + 1
        BY <3>2
      <4> QED
        BY <1>i, <3>2, <4>1, <1>n DEF Ages
    <3>5. Recent'
      BY <2>2, <3>3, <1>n DEF Recent
    <3>6. Coming'
      <4>1. CASE wire = << >>
        <5>1. silence <= Threshold + Interval
          BY <1>i, <4>1, <1>n DEF QuietBefore, QuietSince, Recent
        <5>2. Len(wire) = 0
          BY <4>1
        <5>3. wire'[1].age = 0
          BY <3>2, <5>2
        <5> QED
          BY <5>1, <5>3, <3>3, <1>n DEF Coming
      <4>2. CASE wire # << >>
        <5>1. Len(wire) \in Nat \ {0}
          BY <4>2, <1>w, EmptySeq
        <5>2. wire'[1] = wire[1]
          BY <3>2, <5>1
        <5> QED
          BY <1>i, <4>2, <5>2, <3>3 DEF Coming
      <4> QED
        BY <4>1, <4>2
    <3> QED
      BY <1>t, <3>2, <3>3, <3>4, <3>5, <3>6 DEF TimeInv, QuietBefore, QuietSince
  <2> QED
    BY <1>5, <2>1, <2>2 DEF Write
<1>6. CASE UNCHANGED vars
  BY <1>6, <1>t, <1>i DEF vars, TimeInv, Recent, QuietBefore, QuietSince, Coming, Ages
<1> QED
  BY <1>1, <1>2, <1>3, <1>4, <1>5, <1>6 DEF Next

\* Although recent traffic replaces a heartbeat, the peer's read deadline never
\* expires on a healthy link: it would take Threshold + Interval + MaxDelay.
THEOREM NeverIdleCorrect == Spec => []NeverIdle
<1>1. TimeInv => NeverIdle
  <2> SUFFICES ASSUME TimeInv PROVE NeverIdle
    OBVIOUS
  <2>n. /\ Threshold \in Nat /\ Interval \in Nat /\ MaxDelay \in Nat /\ IdleTimeout \in Nat
        /\ Threshold + Interval + MaxDelay < IdleTimeout
        /\ silence \in Nat /\ lastSend \in Nat
    BY ThresholdNat, TimeAssumption, IdleAssumption DEF Threshold, TimeInv, TypeOK
  <2>1. CASE wire = << >>
    BY <2>1, <2>n DEF TimeInv, QuietBefore, QuietSince, Recent, NeverIdle
  <2>2. CASE wire # << >>
    <3>0. wire \in Seq(Frame)
      BY DEF TimeInv, TypeOK, Frame
    <3>1. 1 \in DOMAIN wire /\ wire[1] \in Frame
      BY <2>2, <3>0, EmptySeq, LenProperties
    <3>2. wire[1].age \in Nat /\ wire[1].age <= MaxDelay
      BY <3>1 DEF TimeInv, Ages, Frame
    <3> QED
      BY <2>2, <2>n, <3>2 DEF TimeInv, Coming, NeverIdle
  <2> QED
    BY <2>1, <2>2
<1> QED
  BY <1>1, TimeInit, TimeStep, PTL DEF Spec
=============================================================================
