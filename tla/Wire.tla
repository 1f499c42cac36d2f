-------------------------------- MODULE Wire --------------------------------
(***************************************************************************)
(* One direction of the control connection of internal/peer: the           *)
(* goroutines of a session that write frames through mintAndWrite (event   *)
(* loop, plan, transfer callback), the heartbeater among them, and at the  *)
(* other end the read deadline of Conn and the DuplicateDetector, which    *)
(* drops a frame whose sequence number does not increase.  The link is up  *)
(* and delivers within MaxDelay; local steps take no time.                 *)
(***************************************************************************)
EXTENDS Naturals, Sequences, FiniteSets

CONSTANTS
  Writer,          \* the goroutines that write frames, but the heartbeater
  Heartbeater,
  NoWriter,
  HandshakeFrames, \* frames minted before the session starts
  dedupRingSize,   \* IDs the detector remembers verbatim
  Interval,        \* HeartbeatInterval, in seconds
  IdleTimeout,     \* the peer's read deadline
  MaxDelay,        \* bound: the delay of a frame on a healthy link
  MaxSeq           \* bound: message IDs minted

Goroutine == Writer \cup {Heartbeater}

ASSUME WriterAssumption == NoWriter \notin Goroutine /\ Heartbeater \notin Writer
ASSUME CountAssumption ==
  HandshakeFrames \in Nat /\ dedupRingSize \in Nat \ {0} /\ MaxSeq \in Nat
ASSUME TimeAssumption ==
  Interval \in Nat \ {0} /\ IdleTimeout \in Nat /\ MaxDelay \in Nat

\* The margin of the constants in protocol (5 s against 20 s): a tick skipped
\* after a frame of almost 80% of an interval, the next one, and the delay.
ASSUME IdleAssumption == (Interval * 4) \div 5 + Interval + MaxDelay < IdleTimeout

VARIABLES
  seq,       \* MessageIDMaker.seq
  writeMu,   \* the goroutine that holds the lock
  pc,        \* where each goroutine is
  minted,    \* the ID it holds
  wire,      \* the frames on their way: [id, age]
  ring,      \* the last IDs accepted
  maxSeq,    \* the highest sequence number accepted
  dropped,   \* IDs of frames the detector refused
  toTick,    \* time until the heartbeat ticker fires
  lastSend,  \* age of the last frame written; Never before the first
  silence    \* time since the peer read a frame

mintVars == <<seq, writeMu, minted>>
peerVars == <<ring, maxSeq, dropped>>
vars == <<mintVars, pc, wire, peerVars, toTick, lastSend, silence>>

ThresholdTimesFour == Interval * 4
Threshold == (Interval * 4) \div 5

\* No age reaches it: a heartbeat goes out long before.
Never == 3 * Interval

\* The ID maker and the detector are the ones the handshake used, and its last
\* frame has just been read.
Init ==
  /\ seq = HandshakeFrames /\ maxSeq = HandshakeFrames
  /\ writeMu = NoWriter
  /\ pc = [w \in Goroutine |-> "idle"] /\ minted = [w \in Goroutine |-> 0]
  /\ wire = << >> /\ dropped = {}
  /\ ring = {i \in 1..HandshakeFrames : i + dedupRingSize > HandshakeFrames}
  /\ toTick = Interval /\ lastSend = Never /\ silence = 0

\* The ticker fires: recent traffic already proves liveness.
HeartbeatTick ==
  /\ toTick = 0 /\ pc[Heartbeater] = "idle"
  /\ toTick' = Interval
  /\ pc' = IF lastSend = Never \/ lastSend >= Threshold
           THEN [pc EXCEPT ![Heartbeater] = "send"] ELSE pc
  /\ UNCHANGED <<mintVars, wire, peerVars, lastSend, silence>>

\* send: the goroutine waits for the lock before it mints.
MayMintUnlocked(w) == pc[w] = IF w = Heartbeater THEN "send" ELSE "idle"
MayMint(w) ==
  /\ pc[w] = IF w = Heartbeater THEN "send" ELSE "idle"
  /\ writeMu = NoWriter

Mint(w) ==
  /\ MayMint(w) /\ seq < MaxSeq
  /\ writeMu' = w
  /\ seq' = seq + 1
  /\ minted' = [minted EXCEPT ![w] = seq + 1]
  /\ pc' = [pc EXCEPT ![w] = "write"]
  /\ UNCHANGED <<wire, peerVars, toTick, lastSend, silence>>

\* The frame is built and written, and the time of the write recorded; or
\* building it fails, and the ID is spent all the same.
Write(w) ==
  /\ pc[w] = "write"
  /\ \/ wire' = Append(wire, [id |-> minted[w], age |-> 0]) /\ lastSend' = 0
     \/ w # Heartbeater /\ UNCHANGED <<wire, lastSend>>
  /\ writeMu' = NoWriter
  /\ pc' = [pc EXCEPT ![w] = "idle"]
  /\ UNCHANGED <<seq, minted, peerVars, toTick, silence>>

\* The ring's slots are reused in turn: when full, the oldest ID, which is the
\* lowest, makes room.
Remember(id) ==
  (IF Cardinality(ring) < dedupRingSize THEN ring
   ELSE ring \ {CHOOSE i \in ring : \A j \in ring : i <= j}) \cup {id}

\* A frame is read, which renews the deadline, and Observe decides on it: known
\* IDs and non-increasing ones are refused.
Observe ==
  /\ wire # << >>
  /\ LET id == Head(wire).id
         refused == id \in ring \/ id <= maxSeq
     IN /\ dropped' = IF refused THEN dropped \cup {id} ELSE dropped
        /\ maxSeq' = IF refused THEN maxSeq ELSE id
        /\ ring' = IF refused THEN ring ELSE Remember(id)
  /\ wire' = Tail(wire)
  /\ silence' = 0
  /\ UNCHANGED <<mintVars, pc, toTick, lastSend>>

Second ==
  /\ toTick > 0 /\ writeMu = NoWriter /\ pc[Heartbeater] = "idle"
  /\ \A i \in DOMAIN wire : wire[i].age < MaxDelay
  /\ toTick' = toTick - 1
  /\ lastSend' = IF lastSend = Never THEN Never ELSE lastSend + 1
  /\ wire' = [i \in DOMAIN wire |-> [wire[i] EXCEPT !.age = @ + 1]]
  /\ silence' = silence + 1
  /\ UNCHANGED <<mintVars, pc, peerVars>>

Next == HeartbeatTick \/ Observe \/ Second
        \/ \E w \in Goroutine : Mint(w) \/ Write(w)

Spec == Init /\ [][Next]_vars

-----------------------------------------------------------------------------
TypeOK ==
  /\ seq \in Nat /\ maxSeq \in Nat
  /\ writeMu \in Goroutine \cup {NoWriter}
  /\ pc \in [Goroutine -> {"idle", "send", "write"}]
  /\ minted \in [Goroutine -> Nat]
  /\ wire \in Seq([id : Nat, age : Nat])
  /\ ring \subseteq Nat /\ dropped \subseteq Nat
  /\ toTick \in 0..Interval /\ lastSend \in Nat /\ silence \in Nat

\* No frame of a well-behaved session is lost to the duplicate check
\* (mintAndWrite against DuplicateDetector.Observe): IDs reach the wire in
\* the order they were minted, although four goroutines write.
NoneDropped == dropped = {}

\* A peer whose link is healthy is never declared lost: although a heartbeat
\* is skipped after recent traffic, so that almost two intervals may pass
\* without a frame, the read deadline does not expire.
NeverIdle == silence < IdleTimeout

\* The strengthening NoneDropped rests on: the lock is held while an ID is
\* minted and not yet written, that ID is the newest, and what is on the
\* wire increases from above the peer's maximum up to it.
Holding == \A w \in Goroutine : pc[w] = "write" => writeMu = w /\ minted[w] = seq
WireIncreases ==
  /\ \A i \in DOMAIN wire : wire[i].id > maxSeq /\ wire[i].id <= seq
  /\ \A i, j \in DOMAIN wire : i < j => wire[i].id < wire[j].id
WireBelowMinted ==
  \A w \in Goroutine : pc[w] = "write" =>
    minted[w] > maxSeq /\ \A i \in DOMAIN wire : wire[i].id < minted[w]
RingBelowMax == \A i \in ring : i <= maxSeq
IDInv == TypeOK /\ Holding /\ WireIncreases /\ WireBelowMinted /\ RingBelowMax
         /\ maxSeq <= seq /\ NoneDropped

\* The strengthening NeverIdle rests on: an idle heartbeater will tick before
\* the last frame is Threshold + Interval old; with nothing on its way the
\* peer has been waiting no longer than that frame is old (or, before the
\* first frame, than the ticker has run); otherwise the frame at the head
\* ends a wait that was short when it left.
Recent ==
  lastSend # Never =>
    /\ lastSend <= Threshold + Interval
    /\ pc[Heartbeater] = "idle" => lastSend + toTick <= Threshold + Interval
QuietBefore ==
  wire = << >> /\ lastSend = Never =>
    /\ silence <= Interval
    /\ pc[Heartbeater] = "idle" => silence + toTick <= Interval
QuietSince == wire = << >> /\ lastSend # Never => silence <= lastSend
Coming == wire # << >> => silence <= Threshold + Interval + wire[1].age
Ages == \A i \in DOMAIN wire : wire[i].age <= MaxDelay
TimeInv == TypeOK /\ Recent /\ QuietBefore /\ QuietSince /\ Coming /\ Ages
=============================================================================
