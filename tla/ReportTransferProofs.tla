------------------------ MODULE ReportTransferProofs ------------------------
(***************************************************************************)
(* Proofs about the report transfer for every number of files, every set   *)
(* of contents, every chunk and buffer size and any number of rewrites,    *)
(* local failures, dropped frames and session ends: type correctness, no   *)
(* .part left behind, a bounded .part, that the transfer implements        *)
(* FileDelivery, and that an ack is for the attempt the sender is making.  *)
(***************************************************************************)
EXTENDS ReportTransfer, SequenceTheorems, TLAPS

\* The indices of both callbacks name files of the manifest.
FileRange ==
  /\ tx.file \in 1..(NumFiles + 1)
  /\ tx.pc \in {"stream", "await"} => tx.file \in File
  /\ rx.file \in File

TypeInv == TypeOK /\ FileRange

-----------------------------------------------------------------------------
(* Lemmas about the operators of the model                                 *)

\* A chunk read from a report file is a chunk frame.
LEMMA ReadChunkType ==
  ASSUME TypeInv, tx.pc = "stream"
  PROVE  ReadChunk \in Chunk
<1> DEFINE d == disk[tx.file]
           upto == IF Len(d) < tx.off + ChunkSize THEN Len(d) ELSE tx.off + ChunkSize
           data == SubSeq(d, tx.off + 1, upto)
<1>1. tx.file \in File /\ tx.file \in Nat /\ tx.seq \in Nat /\ tx.off \in Nat
      /\ tx.attempt \in Nat
  BY DEF TypeInv, TypeOK, FileRange, TxState, maxFileRetries
<1>2. d \in Seq(Nat)
  BY <1>1, ContentAssumption DEF TypeInv, TypeOK
<1>3. upto \in Int /\ upto <= Len(d) /\ tx.off + 1 \in Int /\ tx.off + 1 >= 1
  BY <1>1, <1>2, SizeAssumption
<1>4. \A i \in (tx.off + 1)..upto : d[i] \in Nat
  <2> HIDE DEF d, upto
  <2> QED BY <1>2, <1>3, <1>1, ElementOfSeq
<1>5. data \in Seq(Nat)
  <2> HIDE DEF d, upto
  <2> QED BY <1>3, <1>4, SubSeqProperties
<1>6. ReadChunk = [name |-> tx.file, seq |-> tx.seq, off |-> tx.off, data |-> data,
                   last |-> Len(data) < ChunkSize, try |-> <<tx.file, tx.attempt>>]
  BY DEF ReadChunk
<1>7. QED
  <2> HIDE DEF data
  <2> QED BY <1>1, <1>5, <1>6 DEF Chunk, Attempt

\* Routing keeps the channel typed.
LEMMA RouteType ==
  ASSUME frames \in Seq(Chunk), NEW f \in Chunk, Route(f)
  PROVE  frames' \in Seq(Chunk)
BY DEF Route

\* The opening frame is typed like a chunk.
LEMMA ManifestFrameType == ManifestFrame \in Chunk
BY DEF ManifestFrame, Chunk, Attempt

\* Sending an ack keeps the ack queue and the receiver typed.
LEMMA SendAckType ==
  ASSUME TypeInv, NEW a \in Ack, NEW next \in RxState, next.file \in File,
         SendAck(a, next)
  PROVE  acks' \in Seq(Ack) /\ rx' \in RxState /\ rx'.file \in File
<1>1. acks \in Seq(Ack) /\ rx \in RxState /\ rx.file \in File
  BY DEF TypeInv, TypeOK, FileRange
<1>2. [rx EXCEPT !.pc = "error"] \in RxState /\ [rx EXCEPT !.pc = "error"].file = rx.file
  BY <1>1 DEF RxState
<1>3. QED BY <1>1, <1>2 DEF SendAck

\* The successor of the receiver's file is a file.
LEMMA RxNextFileType ==
  ASSUME TypeInv
  PROVE  RxNextFile \in RxState /\ RxNextFile.file \in File
<1>1. rx \in RxState /\ rx.file \in File
  BY DEF TypeInv, TypeOK, FileRange
<1>2. CASE rx.file = NumFiles
  BY <1>1, <1>2 DEF RxNextFile, RxState
<1>3. CASE rx.file # NumFiles
  <2>1. rx.file + 1 \in File /\ rx.file + 1 \in Nat
    BY <1>1, <1>3, FilesAssumption DEF File
  <2>2. QED BY <2>1, <1>3 DEF RxNextFile, RxState
<1>4. QED BY <1>2, <1>3

\* A failed receiver keeps its other fields.
LEMMA RxFailedType ==
  ASSUME TypeInv
  PROVE  RxFailed \in RxState /\ RxFailed.file \in File
BY DEF TypeInv, TypeOK, FileRange, RxFailed, RxState

\* The successor of the sender's file, or its next attempt.
LEMMA NextFileType ==
  ASSUME TypeInv, tx.pc = "await"
  PROVE  /\ NextFile \in TxState
         /\ NextFile.file \in File
         /\ Retry \in TxState
         /\ Retry.file \in File
<1>1. tx \in TxState /\ tx.file \in File
  BY DEF TypeInv, TypeOK, FileRange
<1>2. tx.file # NumFiles => tx.file + 1 \in File /\ tx.file + 1 \in Nat
  BY <1>1, FilesAssumption DEF File
<1>3. NextFile \in TxState /\ NextFile.file \in File
  <2>1. CASE tx.file = NumFiles
    BY <2>1, <1>1 DEF NextFile, TxState
  <2>2. CASE tx.file # NumFiles
    <3> DEFINE n == tx.file + 1
    <3>1. n \in Nat /\ n \in File /\ 0 \in 0..maxFileRetries /\ 0 \in Nat
      BY <2>2, <1>2 DEF maxFileRetries
    <3>2. NextFile = [tx EXCEPT !.pc = "stream", !.file = n, !.attempt = 0, !.seq = 0,
                                !.off = 0]
      BY <2>2, <1>1 DEF NextFile, TxState
    <3> HIDE DEF n
    <3>3. QED BY <3>1, <3>2, <1>1 DEF TxState
  <2>3. QED BY <2>1, <2>2
<1>4. Retry \in TxState /\ Retry.file \in File
  <2>1. CASE ~(tx.attempt < maxFileRetries)
    BY <2>1, <1>1 DEF Retry, TxState
  <2>2. CASE tx.attempt < maxFileRetries
    <3> DEFINE n == tx.attempt + 1
    <3>1. n \in 0..maxFileRetries BY <2>2, <1>1 DEF TxState, maxFileRetries
    <3>2. Retry = [tx EXCEPT !.pc = "stream", !.attempt = n, !.seq = 0, !.off = 0]
      BY <2>2, <1>1 DEF Retry, TxState
    <3> HIDE DEF n
    <3>3. QED BY <3>1, <3>2, <1>1 DEF TxState
  <2>3. QED BY <2>1, <2>2
<1>5. QED BY <1>3, <1>4

\* The chunk at the head of the channel and the part file it meets.
LEMMA ChunkFacts ==
  ASSUME TypeInv, frames # <<>>
  PROVE  /\ Head(frames) \in Chunk
         /\ chunk \in Chunk
         /\ Tail(frames) \in Seq(Chunk)
         /\ Open \in Seq(Nat) \cup {Absent}
         /\ InOrder => Open \o chunk.data \in Seq(Nat)
         /\ InOrder => Len(Open \o chunk.data) = Len(Open) + Len(chunk.data)
<1>1. frames \in Seq(Chunk) /\ part \in Seq(Nat) \cup {Absent}
  BY DEF TypeInv, TypeOK
<1>2. Head(frames) \in Chunk /\ Tail(frames) \in Seq(Chunk)
  BY <1>1
<1>3. chunk \in Chunk /\ chunk.data \in Seq(Nat)
  BY <1>2 DEF chunk, Chunk
<1>4. Open \in Seq(Nat) \cup {Absent}
  BY <1>1 DEF Open
<1>5. InOrder => Open \in Seq(Nat)
  BY <1>4 DEF InOrder
<1>6. InOrder => /\ Open \o chunk.data \in Seq(Nat)
                 /\ Len(Open \o chunk.data) = Len(Open) + Len(chunk.data)
  BY <1>3, <1>5, ConcatProperties
<1>7. QED BY <1>2, <1>3, <1>4, <1>6

-----------------------------------------------------------------------------
(* Type correctness                                                        *)

LEMMA TypeInit == Init => TypeInv
<1>1. SUFFICES ASSUME Init PROVE TypeInv OBVIOUS
<1>2. tx \in TxState /\ rx \in RxState
  BY <1>1 DEF Init, TxState, RxState, maxFileRetries
<1>3. tx.file = 1 /\ tx.pc = "build" /\ rx.file = 1 BY <1>1 DEF Init
<1>4. FileRange BY <1>3, FilesAssumption DEF FileRange, File
<1>5. /\ disk \in [File -> Content] /\ edits \in Nat
      /\ declared \in [File -> Content \cup {Absent}]
      /\ stored \in [File -> Content \cup {Absent, Fallback}]
      /\ part \in Seq(Nat) \cup {Absent} /\ over \in SUBSET Side
      /\ finished \in BOOLEAN
  BY <1>1 DEF Init
<1>6. frames \in Seq(Chunk) /\ acks \in Seq(Ack) BY <1>1 DEF Init
<1>7. QED BY <1>2, <1>4, <1>5, <1>6 DEF TypeInv, TypeOK

\* A step of the sender keeps the types.
LEMMA TxTypes ==
  ASSUME TypeInv, TxStep
  PROVE  TypeInv'
<1> USE DEF TypeInv
<1>1. /\ tx \in TxState /\ tx.file \in 1..(NumFiles + 1) /\ tx.file \in Nat
      /\ tx.pc \in {"stream", "await"} => tx.file \in File
      /\ rx.file \in File
      /\ frames \in Seq(Chunk) /\ acks \in Seq(Ack)
      /\ disk \in [File -> Content] /\ declared \in [File -> Content \cup {Absent}]
  BY FilesAssumption DEF TypeOK, FileRange, TxState
<1>2. ASSUME NEW p \in {"failed", "await", "declined"}
      PROVE  [tx EXCEPT !.pc = p] \in TxState /\ [tx EXCEPT !.pc = p].file = tx.file
             /\ [tx EXCEPT !.pc = p].pc = p
  BY <1>1 DEF TxState
<1>3. ASSUME BuildManifest PROVE TypeInv'
  <2>1. tx.file \in File /\ disk[tx.file] \in Content /\ disk[tx.file] \in Seq(Nat)
    BY <1>1, <1>3, ContentAssumption, FilesAssumption DEF BuildManifest, File
  <2>2. CASE Len(disk[tx.file]) > MaxTransferFileSize
    <3>1. tx' = [tx EXCEPT !.pc = "failed"] /\ UNCHANGED declared
      BY <1>3, <2>2 DEF BuildManifest
    <3>2. QED BY <3>1, <1>1, <1>2, <1>3 DEF BuildManifest, TypeOK, FileRange
  <2>3. CASE ~(Len(disk[tx.file]) > MaxTransferFileSize)
    <3> DEFINE n == tx.file + 1
               t == tx.total + Len(disk[tx.file])
    <3>1. n \in Nat /\ n \in 1..(NumFiles + 1) /\ t \in Nat
      BY <2>1, <1>1, FilesAssumption DEF File, TxState
    <3>2. tx' = [tx EXCEPT !.file = n, !.total = t]
          /\ declared' = [declared EXCEPT ![tx.file] = disk[tx.file]]
      BY <1>3, <2>3, <1>1 DEF BuildManifest, TxState
    <3> HIDE DEF n, t
    <3>3. tx' \in TxState /\ tx'.file = n /\ tx'.pc = "build"
      BY <3>1, <3>2, <1>1, <1>3 DEF TxState, BuildManifest
    <3>4. declared' \in [File -> Content \cup {Absent}] BY <3>2, <2>1, <1>1
    <3>5. QED BY <3>1, <3>3, <3>4, <1>3 DEF BuildManifest, TypeOK, FileRange
  <2>4. QED BY <2>2, <2>3
<1>4. ASSUME SendManifest PROVE TypeInv'
  <2>1. CASE tx.total > MaxTransferTotal
    BY <2>1, <1>1, <1>2, <1>4 DEF SendManifest, TypeOK, FileRange
  <2>2. CASE ~(tx.total > MaxTransferTotal)
    <3>1. tx' = [tx EXCEPT !.pc = "stream", !.file = 1] /\ Route(ManifestFrame)
      BY <2>2, <1>4 DEF SendManifest
    <3>2. tx' \in TxState /\ tx'.file = 1 BY <3>1, <1>1 DEF TxState
    <3>3. 1 \in File /\ 1 \in 1..(NumFiles + 1) BY FilesAssumption DEF File
    <3>4. frames' \in Seq(Chunk) BY <3>1, <1>1, RouteType, ManifestFrameType
    <3>5. QED BY <3>2, <3>3, <3>4, <1>4 DEF SendManifest, TypeOK, FileRange
  <2>3. QED BY <2>1, <2>2
<1>5. ASSUME StreamChunk PROVE TypeInv'
  <2>1. tx.pc = "stream" /\ tx.file \in File /\ Route(ReadChunk)
    BY <1>5, <1>1 DEF StreamChunk
  <2>2. ReadChunk \in Chunk BY <2>1, ReadChunkType
  <2>3. frames' \in Seq(Chunk) BY <2>1, <2>2, <1>1, RouteType
  <2>4. tx' \in TxState /\ tx'.file = tx.file
    <3>1. CASE ReadChunk.last BY <3>1, <1>2, <1>5 DEF StreamChunk
    <3>2. CASE ~ReadChunk.last
      <4> DEFINE q == tx.seq + 1
                 o == tx.off + Len(ReadChunk.data)
      <4>1. q \in Nat /\ o \in Nat
        BY <2>2, <1>1 DEF TxState, Chunk
      <4>2. tx' = [tx EXCEPT !.seq = q, !.off = o]
        BY <3>2, <1>5, <1>1 DEF StreamChunk, TxState
      <4> HIDE DEF q, o
      <4>3. QED BY <4>1, <4>2, <1>1 DEF TxState
    <3>3. QED BY <3>1, <3>2
  <2>5. QED BY <2>1, <2>3, <2>4, <1>1, <1>5 DEF StreamChunk, TypeOK, FileRange
<1>6. ASSUME RecvAck PROVE TypeInv'
  <2>1. tx.pc = "await" /\ acks # <<>> /\ tx.file \in File
    BY <1>6, <1>1 DEF RecvAck
  <2>2. acks' \in Seq(Ack) BY <2>1, <1>1, <1>6 DEF RecvAck
  <2>3. tx' \in TxState /\ tx'.file \in File
    <3>1. tx' \in {[tx EXCEPT !.pc = "declined"], NextFile, Retry}
      BY <1>6 DEF RecvAck
    <3>2. QED BY <3>1, <2>1, <1>2, NextFileType
  <2>4. tx'.file \in 1..(NumFiles + 1) BY <2>3, FilesAssumption DEF File
  <2>5. QED BY <2>2, <2>3, <2>4, <1>6 DEF RecvAck, TypeOK, FileRange
<1>7. ASSUME StreamFails PROVE TypeInv'
  BY <1>7, <1>1, <1>2 DEF StreamFails, TypeOK, FileRange
<1>8. QED BY <1>3, <1>4, <1>5, <1>6, <1>7 DEF TxStep

\* A step of the receiver keeps the types.
LEMMA RxTypes ==
  ASSUME TypeInv, RxStep
  PROVE  TypeInv'
<1> USE DEF TypeInv
<1>1. /\ rx \in RxState /\ rx.file \in File /\ rx.file \in Nat
      /\ frames \in Seq(Chunk) /\ acks \in Seq(Ack)
      /\ stored \in [File -> Content \cup {Absent, Fallback}]
      /\ declared \in [File -> Content \cup {Absent}]
  BY FilesAssumption DEF TypeOK, FileRange, RxState
<1>2. RxFailed \in RxState /\ RxFailed.file \in File BY RxFailedType
<1>3. RxNextFile \in RxState /\ RxNextFile.file \in File BY RxNextFileType
<1>4. ASSUME NEW t \in Attempt, NEW next \in RxState, next.file \in File, Decline(t, next)
      PROVE  acks' \in Seq(Ack) /\ rx' \in RxState /\ rx'.file \in File
  <2> DEFINE a == [name |-> 0, ok |-> FALSE, declined |-> TRUE, try |-> t]
  <2>1. a \in Ack BY DEF Ack
  <2>2. SendAck(a, next) BY <1>4 DEF Decline
  <2> HIDE DEF a
  <2>3. QED BY <2>1, <2>2, <1>4, SendAckType
<1>5. frames # <<>> => chunk \in Chunk /\ chunk.try \in Attempt
                       /\ Tail(frames) \in Seq(Chunk)
  BY ChunkFacts DEF Chunk
<1>6. ASSUME NEW v \in BOOLEAN, NEW t \in Attempt
      PROVE  [name |-> rx.file, ok |-> v, declined |-> FALSE, try |-> t] \in Ack
  BY <1>1 DEF Ack
<1>7. ASSUME RecvManifest PROVE TypeInv'
  <2>1. frames # <<>> /\ frames' = Tail(frames) BY <1>7 DEF RecvManifest
  <2>2. ASSUME NEW p \in {"file", "ok"}
        PROVE  [rx EXCEPT !.pc = p] \in RxState /\ [rx EXCEPT !.pc = p].file \in File
    BY <1>1 DEF RxState
  <2>3. Head(frames).try \in Attempt BY <2>1, ChunkFacts DEF Chunk
  <2>4. acks' \in Seq(Ack) /\ rx' \in RxState /\ rx'.file \in File
    BY <1>1, <1>4, <1>7, <2>2, <2>3 DEF RecvManifest
  <2>5. QED BY <2>1, <2>4, <1>5, <1>7 DEF RecvManifest, TypeOK, FileRange
<1>8. ASSUME Swallow PROVE TypeInv'
  BY <1>8, <1>5 DEF Swallow, HasChunk, TypeOK, FileRange
<1>9. ASSUME WrongName \/ Oversize \/ LocalFailure PROVE TypeInv'
  <2>1. frames # <<>> /\ frames' = Tail(frames) /\ Decline(chunk.try, RxFailed)
        /\ part' = Absent
        /\ UNCHANGED <<disk, edits, declared, tx, stored, over, finished>>
    BY <1>9 DEF WrongName, Oversize, LocalFailure, Accepted, HasChunk
  <2>2. acks' \in Seq(Ack) /\ rx' \in RxState /\ rx'.file \in File
    BY <2>1, <1>2, <1>4, <1>5
  <2>3. QED BY <2>1, <2>2, <1>5 DEF TypeOK, FileRange
<1>10. ASSUME Reject PROVE TypeInv'
  <2> DEFINE a == [name |-> rx.file, ok |-> FALSE, declined |-> FALSE, try |-> chunk.try]
             next == IF rx.rejections + 1 > maxFileRetries THEN RxNextFile
                     ELSE [rx EXCEPT !.rejections = @ + 1, !.draining = TRUE]
  <2>1. frames # <<>> /\ frames' = Tail(frames) /\ SendAck(a, next) /\ part' = Absent
        /\ UNCHANGED <<disk, edits, declared, tx, stored, over, finished>>
    BY <1>10 DEF Reject, Accepted, HasChunk
  <2>2. a \in Ack BY <2>1, <1>5, <1>6
  <2>3. next \in RxState /\ next.file \in File
    <3> DEFINE n == rx.rejections + 1
               again == [rx EXCEPT !.rejections = n, !.draining = TRUE]
    <3>1. n \in Nat BY <1>1 DEF RxState
    <3>2. next = IF n > maxFileRetries THEN RxNextFile ELSE again
      BY <1>1 DEF RxState
    <3>3. again \in RxState /\ again.file \in File
      <4> HIDE DEF n
      <4> QED BY <3>1, <1>1 DEF RxState
    <3> HIDE DEF n, again, next
    <3>4. QED BY <3>2, <3>3, <1>3
  <2> HIDE DEF a, next
  <2>4. acks' \in Seq(Ack) /\ rx' \in RxState /\ rx'.file \in File
    BY <2>1, <2>2, <2>3, SendAckType
  <2>5. QED BY <2>1, <2>4, <1>5 DEF TypeOK, FileRange
<1>11. ASSUME WritePart PROVE TypeInv'
  <2>1. frames # <<>> /\ frames' = Tail(frames) /\ InOrder /\ part' = Open \o chunk.data
    BY <1>11 DEF WritePart, Accepted, HasChunk
  <2>2. part' \in Seq(Nat) BY <2>1, ChunkFacts
  <2>3. rx' \in RxState /\ rx'.file = rx.file BY <1>1, <1>11 DEF WritePart, RxState
  <2>4. QED BY <2>1, <2>2, <2>3, <1>1, <1>5, <1>11 DEF WritePart, TypeOK, FileRange
<1>12. ASSUME Commit PROVE TypeInv'
  <2> DEFINE a == [name |-> rx.file, ok |-> TRUE, declined |-> FALSE, try |-> chunk.try]
  <2>1. frames # <<>> /\ frames' = Tail(frames) /\ InOrder /\ Verified /\ part' = Absent
        /\ SendAck(a, RxNextFile)
        /\ stored' = [stored EXCEPT ![rx.file] = Open \o chunk.data]
        /\ UNCHANGED <<disk, edits, declared, tx, over, finished>>
    BY <1>12 DEF Commit, Accepted, HasChunk
  <2>2. Open \o chunk.data \in Content
    BY <2>1, <1>1, ChunkFacts, SentinelAssumption DEF Verified
  <2>3. stored' \in [File -> Content \cup {Absent, Fallback}] BY <2>1, <2>2, <1>1
  <2>4. a \in Ack BY <2>1, <1>5, <1>6
  <2> HIDE DEF a
  <2>5. acks' \in Seq(Ack) /\ rx' \in RxState /\ rx'.file \in File
    BY <2>1, <2>4, <1>3, SendAckType
  <2>6. QED BY <2>1, <2>3, <2>5, <1>5 DEF TypeOK, FileRange
<1>13. ASSUME RecvCut PROVE TypeInv'
  BY <1>13, <1>2 DEF RecvCut, TypeOK, FileRange
<1>14. QED
  BY <1>7, <1>8, <1>9, <1>10, <1>11, <1>12, <1>13 DEF RxStep

\* The steps around the callbacks keep the types.
LEMMA EnvTypes ==
  ASSUME TypeInv,
         (\E s \in Side : SessionOver(s)) \/ FinishWorker \/ Edit \/ Done \/ UNCHANGED vars
  PROVE  TypeInv'
<1> USE DEF TypeInv
<1>1. ASSUME NEW s \in Side, SessionOver(s) PROVE TypeInv'
  BY <1>1 DEF SessionOver, TypeOK, FileRange
<1>2. ASSUME FinishWorker PROVE TypeInv'
  <2>1. NumFiles \in File BY FilesAssumption DEF File
  <2>2. stored' \in [File -> Content \cup {Absent, Fallback}]
    BY <2>1, <1>2 DEF FinishWorker, writeWorkerSummary, TypeOK
  <2>3. QED BY <2>2, <1>2 DEF FinishWorker, TypeOK, FileRange
<1>3. ASSUME Edit PROVE TypeInv'
  BY <1>3 DEF Edit, TypeOK, FileRange
<1>4. ASSUME UNCHANGED vars PROVE TypeInv'
  BY <1>4 DEF vars, TypeOK, FileRange, TxEnded, RxEnded
<1>5. QED BY <1>1, <1>2, <1>3, <1>4 DEF Done

LEMMA TypeStep == TypeInv /\ [Next]_vars => TypeInv'
BY TxTypes, RxTypes, EnvTypes DEF Next

\* Every reachable state of SendReports, ReceiveReports and the channel
\* between them is well typed.
THEOREM TypeCorrect == Spec => []TypeOK
<1>1. TypeInv => TypeOK BY DEF TypeInv
<1>2. QED BY TypeInit, TypeStep, <1>1, PTL DEF Spec

-----------------------------------------------------------------------------
(* The part file                                                           *)

\* A .part exists only while a file is being received, after the manifest
\* was built, and never exceeds the declared size.
PartInv ==
  /\ part # Absent => rx.pc = "file"
  /\ tx.pc = "build" => part = Absent /\ frames = <<>> /\ rx.pc \in {"manifest", "error"}
  /\ PartBounded

LEMMA PartInit == Init => PartInv
BY DEF Init, PartInv, PartBounded

LEMMA PartStep == TypeInv /\ PartInv /\ [Next]_vars => PartInv'
<1> SUFFICES ASSUME TypeInv, PartInv, [Next]_vars PROVE PartInv'
  OBVIOUS
<1> USE DEF PartInv
<1>1. CASE TxStep
  <2>1. UNCHANGED <<rx, part>>
    BY <1>1 DEF TxStep, BuildManifest, SendManifest, StreamChunk, RecvAck, StreamFails
  <2>2. CASE tx.pc = "build"
    <3>1. BuildManifest \/ SendManifest \/ StreamFails
      BY <1>1, <2>2 DEF TxStep, StreamChunk, RecvAck
    <3>2. tx'.pc = "build" => frames' = frames
      <4>1. tx \in TxState BY DEF TypeInv, TypeOK
      <4>2. SendManifest => tx'.pc # "build" BY <4>1 DEF SendManifest, TxState
      <4>3. QED BY <3>1, <4>2 DEF BuildManifest, StreamFails
    <3>3. QED BY <2>1, <2>2, <3>2 DEF PartBounded
  <2>3. CASE tx.pc # "build"
    <3>1. declared' = declared
      BY <1>1, <2>3 DEF TxStep, BuildManifest, SendManifest, StreamChunk, RecvAck, StreamFails
    <3>2. tx'.pc # "build"
      <4>1. tx \in TxState BY DEF TypeInv, TypeOK
      <4>2. QED
        BY <1>1, <2>3, <4>1 DEF TxStep, BuildManifest, SendManifest, StreamChunk, RecvAck,
                                StreamFails, NextFile, Retry, TxState
    <3>3. QED BY <2>1, <3>1, <3>2 DEF PartBounded
  <2>4. QED BY <2>2, <2>3
<1>2. CASE RxStep
  <2>1. CASE RecvCut
    <3>1. rx'.pc = "error" BY <2>1 DEF RecvCut, RxFailed, TypeInv, TypeOK, RxState
    <3>2. QED BY <2>1, <3>1 DEF RecvCut, PartBounded
  <2>2. CASE RecvManifest
    <3>1. part = Absent /\ tx.pc # "build" /\ UNCHANGED <<tx, part>>
      BY <2>2 DEF RecvManifest
    <3>2. QED BY <3>1 DEF PartBounded
  <2>3. CASE Swallow
    BY <2>3 DEF Swallow, HasChunk, PartBounded
  <2>4. CASE WrongName \/ Reject \/ Oversize \/ LocalFailure \/ Commit
    BY <2>4 DEF WrongName, Reject, Oversize, LocalFailure, Commit, Accepted, HasChunk,
                PartBounded
  <2>5. CASE WritePart
    <3>1. frames # <<>> /\ InOrder /\ Fits /\ part' = Open \o chunk.data /\ rx.pc = "file"
          /\ UNCHANGED <<tx, declared>>
      BY <2>5 DEF WritePart, Accepted, HasChunk
    <3>2. rx'.file = rx.file /\ rx'.pc = rx.pc
      BY <2>5 DEF WritePart, TypeInv, TypeOK, RxState
    <3>3. Len(part') <= Len(declared[rx.file]) BY <3>1, ChunkFacts DEF Fits
    <3>4. QED BY <3>1, <3>2, <3>3 DEF PartBounded
  <2>6. QED BY <1>2, <2>1, <2>2, <2>3, <2>4, <2>5 DEF RxStep
<1>3. CASE (\E s \in Side : SessionOver(s)) \/ FinishWorker \/ Edit
  BY <1>3 DEF SessionOver, FinishWorker, Edit, PartBounded
<1>4. CASE Done \/ UNCHANGED vars
  BY <1>4 DEF Done, vars, PartBounded
<1>5. QED BY <1>1, <1>2, <1>3, <1>4 DEF Next

\* However ReceiveReports returns, its cleanup has removed the .part file.
THEOREM NothingPartialCorrect == Spec => []NothingPartial
<1>1. PartInv => NothingPartial BY DEF PartInv, NothingPartial, RxEnded
<1>2. QED BY TypeInit, TypeStep, PartInit, PartStep, <1>1, PTL DEF Spec

\* The size fence holds on every chunk, so the .part never grows past the
\* declared size.
THEOREM PartBoundedCorrect == Spec => []PartBounded
<1>1. PartInv => PartBounded BY DEF PartInv
<1>2. QED BY TypeInit, TypeStep, PartInit, PartStep, <1>1, PTL DEF Spec

-----------------------------------------------------------------------------
(* Implementation of FileDelivery                                          *)

\* The files PC2 has, with the content PC1 declared.
Arrived == {k \in File : declared[k] # Absent /\ stored[k] = declared[k]}

\* What PC2 stores is what was declared, file after file; only the note that
\* finishWorker writes once the receiver is joined is its own.
StoredInv ==
  /\ \A k \in File : stored[k] = Absent \/ k \in Arrived
                     \/ (finished /\ k = NumFiles /\ stored[k] = Fallback)
  /\ \A k \in Arrived : 1..(k - 1) \subseteq Arrived
  /\ finished => RxEnded

\* A chunk of a file is in flight, and the sender is at a file, only when the
\* files before it have arrived; so has the file an ok ack names.
FlightInv ==
  /\ \A i \in 1..Len(frames) : 1..(frames[i].name - 1) \subseteq Arrived
  /\ \A i \in 1..Len(acks) :
       acks[i].ok => acks[i].name \in Arrived
  /\ tx.pc \in {"stream", "await"} => 1..(tx.file - 1) \subseteq Arrived
  /\ tx.pc = "ok" => File \subseteq Arrived

\* While the manifest is built nothing was sent and nothing has arrived.
BuildInv ==
  tx.pc = "build" =>
    /\ frames = <<>> /\ acks = <<>>
    /\ \A k \in File : k >= tx.file => declared[k] = Absent
    /\ Arrived = {}

DeliveryInv == StoredInv /\ FlightInv /\ BuildInv

LEMMA DeliveryInit == Init => DeliveryInv
<1> SUFFICES ASSUME Init PROVE DeliveryInv
  OBVIOUS
<1>1. \A k \in File : declared[k] = Absent /\ stored[k] = Absent BY DEF Init
<1>2. frames = <<>> /\ acks = <<>> /\ tx.pc = "build" /\ finished = FALSE BY DEF Init
<1>3. Arrived = {} BY <1>1 DEF Arrived
<1>4. StoredInv BY <1>1, <1>2, <1>3 DEF StoredInv
<1>5. FlightInv BY <1>2 DEF FlightInv
<1>6. BuildInv BY <1>1, <1>2, <1>3 DEF BuildInv
<1>7. QED BY <1>4, <1>5, <1>6 DEF DeliveryInv

\* Arrival depends on the declaration and the worker's directory alone.
LEMMA ArrivedSame ==
  ASSUME UNCHANGED <<declared, stored>>
  PROVE  Arrived' = Arrived
BY DEF Arrived

\* A step of the sender that leaves declaration and directory alone keeps the
\* verdict open or concludes it.
LEMMA VerdictStep ==
  ASSUME TypeInv, ~TxEnded, UNCHANGED <<declared, stored>>,
         tx'.pc = "ok" => \A k \in File : stored[k] = declared[k]
  PROVE  [FD!Next]_FD!vars
<1>1. CASE ~TxEnded'
  BY <1>1 DEF FD!vars, TxEnded
<1>2. CASE TxEnded'
  <2>1. tx'.pc \in {"ok", "declined", "failed"} BY <1>2 DEF TxEnded
  <2>2. FD!Conclude(tx'.pc) BY <1>2 DEF FD!Conclude, FD!File, File, TxEnded
  <2>3. QED BY <2>1, <2>2 DEF FD!Next
<1>3. QED BY <1>1, <1>2

\* The manifest gives each file one content, while nothing has arrived.
LEMMA BuildStep ==
  ASSUME TypeInv, DeliveryInv, BuildManifest
  PROVE  DeliveryInv' /\ [FD!Next]_FD!vars
<1>1. /\ tx \in TxState /\ tx.file \in File /\ tx.pc = "build" /\ tx.file \in Nat
      /\ declared \in [File -> Content \cup {Absent}]
      /\ disk[tx.file] \in Content /\ frames = <<>> /\ acks = <<>>
      /\ \A k \in File : k >= tx.file => declared[k] = Absent
      /\ Arrived = {}
  BY FilesAssumption
  DEF TypeInv, TypeOK, FileRange, BuildManifest, File, DeliveryInv, BuildInv, TxState
<1>2. UNCHANGED <<rx, stored, frames, acks, finished>>
  BY DEF BuildManifest
<1>3. CASE Len(disk[tx.file]) > MaxTransferFileSize
  <2>1. tx' = [tx EXCEPT !.pc = "failed"] /\ UNCHANGED declared
    BY <1>3 DEF BuildManifest
  <2>2. tx'.pc = "failed" BY <2>1, <1>1 DEF TxState
  <2>3. Arrived' = Arrived BY <2>1, <1>2, ArrivedSame
  <2>4. [FD!Next]_FD!vars BY <2>1, <2>2, <1>1, <1>2, VerdictStep DEF TxEnded
  <2>5. StoredInv' BY <2>3, <1>2 DEF DeliveryInv, StoredInv, RxEnded
  <2>6. FlightInv' /\ BuildInv' BY <2>2, <1>1, <1>2 DEF FlightInv, BuildInv
  <2>7. QED BY <2>4, <2>5, <2>6 DEF DeliveryInv
<1>4. CASE ~(Len(disk[tx.file]) > MaxTransferFileSize)
  <2>1. /\ declared' = [declared EXCEPT ![tx.file] = disk[tx.file]]
        /\ tx' = [tx EXCEPT !.file = @ + 1, !.total = @ + Len(disk[tx.file])]
    BY <1>4 DEF BuildManifest
  <2>2. tx'.pc = "build" /\ tx'.file = tx.file + 1 BY <2>1, <1>1 DEF TxState
  <2>3. \A k \in File : stored[k] \in {Absent, Fallback}
    BY <1>1 DEF DeliveryInv, StoredInv
  <2>4. \A k \in File : declared'[k] \in Content \cup {Absent}
    BY <2>1, <1>1
  <2>5. Arrived' = {}
    BY <2>3, <2>4, <1>2, SentinelAssumption, ContentAssumption DEF Arrived
  <2>6. StoredInv'
    BY <2>5, <1>2, <1>1 DEF DeliveryInv, StoredInv, RxEnded
  <2>7. FlightInv' BY <2>2, <1>1, <1>2 DEF FlightInv
  <2>8. \A k \in File : k >= tx.file + 1 => declared'[k] = Absent
    <3> SUFFICES ASSUME NEW k \in File, k >= tx.file + 1 PROVE declared'[k] = Absent
      OBVIOUS
    <3>1. k # tx.file /\ k >= tx.file BY <1>1 DEF File
    <3>2. QED BY <3>1, <2>1, <1>1
  <2>9. BuildInv' BY <2>2, <2>5, <2>8, <1>1, <1>2 DEF BuildInv
  <2>10. FD!Declare(tx.file)
    <3>1. (IF TxEnded THEN tx.pc ELSE "open") = "open"
          /\ (IF TxEnded THEN tx.pc ELSE "open")' = "open"
      BY <1>1, <2>2 DEF TxEnded
    <3>2. declared[tx.file] = Absent BY <1>1
    <3>3. \E v \in Content : declared' = [declared EXCEPT ![tx.file] = v]
      BY <2>1, <1>1
    <3>4. QED BY <3>1, <3>2, <3>3, <2>3, <1>2 DEF FD!Declare, FD!File, File
  <2>11. FD!Next BY <2>10, <1>1 DEF FD!Next, FD!File, File
  <2>12. QED BY <2>6, <2>7, <2>9, <2>11 DEF DeliveryInv
<1>5. QED BY <1>3, <1>4

\* The other steps of the sender move on only on an ok ack for its file.
LEMMA SenderStep ==
  ASSUME TypeInv, DeliveryInv, TxStep, ~BuildManifest
  PROVE  DeliveryInv' /\ [FD!Next]_FD!vars
<1>1. /\ tx \in TxState /\ frames \in Seq(Chunk) /\ acks \in Seq(Ack)
      /\ tx.pc \in {"stream", "await"} => tx.file \in File
      /\ NumFiles \in Nat \ {0}
  BY FilesAssumption DEF TypeInv, TypeOK, FileRange
<1>2. UNCHANGED <<declared, stored, rx, finished>> /\ ~TxEnded
  BY DEF TxStep, SendManifest, StreamChunk, RecvAck, StreamFails, TxEnded
<1>3. Arrived' = Arrived BY <1>2, ArrivedSame
<1>4. StoredInv' BY <1>2, <1>3 DEF DeliveryInv, StoredInv, RxEnded
<1>5. SUFFICES FlightInv' /\ BuildInv'
  <2>1. tx'.pc = "ok" => \A k \in File : stored[k] = declared[k]
    BY <1>3, <1>5 DEF FlightInv, Arrived
  <2>2. QED BY <2>1, <1>2, <1>4, <1>5, VerdictStep DEF DeliveryInv
<1>6. CASE StreamFails
  <2>1. tx'.pc = "failed" /\ UNCHANGED <<frames, acks>>
    BY <1>6, <1>1 DEF StreamFails, TxState
  <2>2. QED BY <2>1, <1>3 DEF DeliveryInv, FlightInv, BuildInv
<1>7. CASE SendManifest
  <2>1. tx.pc = "build" /\ frames = <<>> /\ acks = <<>> /\ acks' = acks
    BY <1>7 DEF SendManifest, DeliveryInv, BuildInv
  <2>2. tx'.pc = "failed" \/ (tx'.pc = "stream" /\ tx'.file = 1)
    BY <1>7, <1>1 DEF SendManifest, TxState
  <2>3. frames' = <<>> \/ frames' = <<ManifestFrame>>
    BY <1>7, <2>1 DEF SendManifest, Route
  <2>4. \A i \in 1..Len(frames') : frames'[i].name = 0
    BY <2>3 DEF ManifestFrame
  <2>5. \A i \in 1..Len(frames') : 1..(frames'[i].name - 1) = {} BY <2>4
  <2>6. QED BY <2>1, <2>2, <2>5 DEF FlightInv, BuildInv
<1>8. CASE StreamChunk
  <2>1. tx.pc = "stream" /\ tx.file \in File /\ acks' = acks /\ Route(ReadChunk)
    BY <1>8, <1>1 DEF StreamChunk
  <2>2. tx'.pc \in {"stream", "await"} /\ tx'.file = tx.file
    BY <1>8, <1>1 DEF StreamChunk, TxState
  <2>3. ReadChunk.name = tx.file BY DEF ReadChunk
  <2>4. frames' = frames \/ frames' = Append(frames, ReadChunk)
    BY <2>1 DEF Route
  <2>5. \A i \in 1..Len(frames') : 1..(frames'[i].name - 1) \subseteq Arrived
    <3>1. CASE frames' = frames BY <3>1 DEF DeliveryInv, FlightInv
    <3>2. CASE frames' = Append(frames, ReadChunk)
      <4> SUFFICES ASSUME NEW i \in 1..Len(frames')
                   PROVE  1..(frames'[i].name - 1) \subseteq Arrived
        OBVIOUS
      <4>1. CASE i \in 1..Len(frames)
        <5>1. frames'[i] = frames[i] BY <3>2, <4>1, <1>1
        <5>2. QED BY <5>1, <4>1 DEF DeliveryInv, FlightInv
      <4>2. CASE i = Len(frames) + 1
        <5>1. frames'[i] = ReadChunk BY <3>2, <4>2, <1>1
        <5>2. QED BY <5>1, <2>1, <2>3 DEF DeliveryInv, FlightInv
      <4>3. Len(frames') = Len(frames) + 1 /\ Len(frames) \in Nat BY <3>2, <1>1
      <4>4. QED BY <4>1, <4>2, <4>3
    <3>3. QED BY <2>4, <3>1, <3>2
  <2>6. QED BY <2>1, <2>2, <2>5, <1>3 DEF DeliveryInv, FlightInv, BuildInv
<1>9. CASE RecvAck
  <2> DEFINE a == Head(acks)
  <2>1. tx.pc = "await" /\ tx.file \in File /\ acks # <<>> /\ acks' = Tail(acks)
        /\ frames' = frames
    BY <1>9, <1>1 DEF RecvAck
  <2>2. a = acks[1] /\ 1 \in 1..Len(acks) BY <2>1, <1>1
  <2>3. \A i \in 1..Len(acks') : acks'[i] = acks[i + 1] /\ i + 1 \in 1..Len(acks)
    BY <2>1, <1>1
  <2>4. \A i \in 1..Len(acks') : acks'[i].ok => acks'[i].name \in Arrived
    BY <2>3 DEF DeliveryInv, FlightInv
  <2>5. 1..(tx.file - 1) \subseteq Arrived BY <2>1 DEF DeliveryInv, FlightInv
  <2>6. tx'.pc \in {"stream", "ok", "failed", "declined"}
    BY <1>9, <1>1 DEF RecvAck, NextFile, Retry, TxState
  <2>7. ASSUME a.ok, a.name = tx.file, ~a.declined
        PROVE  /\ tx'.pc = "ok" => File \subseteq Arrived
               /\ tx'.pc = "stream" => 1..(tx'.file - 1) \subseteq Arrived
    <3>1. tx.file \in Arrived BY <2>7, <2>2 DEF DeliveryInv, FlightInv
    <3>2. tx' = NextFile BY <2>7, <1>9 DEF RecvAck
    <3>3. 1..tx.file \subseteq Arrived
      <4>1. \A j \in 1..tx.file : j = tx.file \/ j \in 1..(tx.file - 1)
        BY <2>1 DEF File
      <4>2. QED BY <4>1, <3>1, <2>5
    <3>4. CASE tx.file = NumFiles
      <4>1. tx'.pc = "ok" BY <3>2, <3>4, <1>1 DEF NextFile, TxState
      <4>2. QED BY <4>1, <3>3, <3>4 DEF File
    <3>5. CASE tx.file # NumFiles
      <4>1. tx'.pc = "stream" /\ tx'.file = tx.file + 1
        BY <3>2, <3>5, <1>1 DEF NextFile, TxState
      <4>2. tx'.file - 1 = tx.file BY <4>1, <2>1 DEF File
      <4>3. QED BY <4>1, <4>2, <3>3
    <3>6. QED BY <3>4, <3>5
  <2>8. ASSUME ~(a.ok /\ a.name = tx.file /\ ~a.declined)
        PROVE  tx'.pc # "ok" /\ tx'.file = tx.file
    BY <2>8, <1>9, <1>1 DEF RecvAck, Retry, TxState
  <2> HIDE DEF a
  <2>9. FlightInv'
    BY <2>1, <2>4, <2>5, <2>6, <2>7, <2>8, <1>3 DEF DeliveryInv, FlightInv
  <2>10. QED BY <2>6, <2>9 DEF BuildInv
<1>10. QED BY <1>6, <1>7, <1>8, <1>9 DEF TxStep

\* Consuming a frame keeps what is known of the frames in flight.
LEMMA TailFrames ==
  ASSUME TypeInv, DeliveryInv, frames # <<>>
  PROVE  /\ \A i \in 1..Len(Tail(frames)) :
              1..(Tail(frames)[i].name - 1) \subseteq Arrived
         /\ 1..(chunk.name - 1) \subseteq Arrived
<1>1. frames \in Seq(Chunk) BY DEF TypeInv, TypeOK
<1>2. \A i \in 1..Len(Tail(frames)) :
        Tail(frames)[i] = frames[i + 1] /\ i + 1 \in 1..Len(frames)
  BY <1>1
<1>3. chunk = frames[1] /\ 1 \in 1..Len(frames) BY <1>1 DEF chunk
<1>4. QED BY <1>2, <1>3 DEF DeliveryInv, FlightInv

\* An ack that is not ok, or that names an arrived file, keeps what is known
\* of the acks in flight.
LEMMA AppendAck ==
  ASSUME TypeInv, DeliveryInv, NEW a \in Ack,
         acks' = acks \/ acks' = Append(acks, a),
         Arrived \subseteq Arrived',
         a.ok => a.name \in Arrived'
  PROVE  \A i \in 1..Len(acks') :
           acks'[i].ok => acks'[i].name \in Arrived'
<1>1. acks \in Seq(Ack) BY DEF TypeInv, TypeOK
<1>2. \A i \in 1..Len(acks) : acks[i].ok => acks[i].name \in Arrived'
  BY DEF DeliveryInv, FlightInv
<1>3. CASE acks' = acks BY <1>2, <1>3
<1>4. CASE acks' = Append(acks, a)
  <2>1. Len(acks') = Len(acks) + 1 /\ Len(acks) \in Nat BY <1>1, <1>4
  <2>2. \A i \in 1..Len(acks) : acks'[i] = acks[i] BY <1>1, <1>4
  <2>3. acks'[Len(acks) + 1] = a BY <1>1, <1>4
  <2>4. \A i \in 1..Len(acks') : i \in 1..Len(acks) \/ i = Len(acks) + 1 BY <2>1
  <2>5. QED BY <2>2, <2>3, <2>4, <1>2
<1>5. QED BY <1>3, <1>4

\* The receiver's steps other than Commit store nothing and say ok to nothing.
LEMMA QuietStep ==
  ASSUME TypeInv, DeliveryInv, RxStep, ~Commit
  PROVE  DeliveryInv' /\ [FD!Next]_FD!vars
<1>1. UNCHANGED <<declared, stored, tx, finished>> /\ ~RxEnded
  BY DEF RxStep, RecvManifest, Swallow, WrongName, Reject, Oversize, LocalFailure, WritePart,
         RecvCut, Accepted, HasChunk, RxEnded
<1>2. Arrived' = Arrived BY <1>1, ArrivedSame
<1>3. ~finished BY <1>1 DEF DeliveryInv, StoredInv
<1>4. StoredInv' BY <1>1, <1>2, <1>3 DEF DeliveryInv, StoredInv
<1>5. (frames' = frames /\ acks' = acks) \/ (frames # <<>> /\ frames' = Tail(frames))
  BY DEF RxStep, RecvManifest, Swallow, WrongName, Reject, Oversize, LocalFailure, WritePart,
         RecvCut, Accepted, HasChunk
<1>6. \E a \in Ack : ~a.ok /\ (acks' = acks \/ acks' = Append(acks, a))
  <2>1. rx.file \in Nat
    BY FilesAssumption DEF TypeInv, FileRange, File
  <2>2. frames # <<>> => Head(frames).try \in Attempt /\ chunk.try \in Attempt
    BY ChunkFacts DEF Chunk
  <2>3. ASSUME NEW t \in Attempt, NEW n \in Nat, NEW d \in BOOLEAN
        PROVE  [name |-> n, ok |-> FALSE, declined |-> d, try |-> t] \in Ack
               /\ ~[name |-> n, ok |-> FALSE, declined |-> d, try |-> t].ok
    BY DEF Ack
  <2>4. CASE acks' = acks
    <3>1. <<0, 0>> \in Attempt BY DEF Attempt
    <3>2. QED BY <2>3, <2>4, <3>1
  <2>5. ASSUME NEW t \in Attempt, NEW next, Decline(t, next)
        PROVE  \E a \in Ack : ~a.ok /\ (acks' = acks \/ acks' = Append(acks, a))
    BY <2>3, <2>5 DEF Decline, SendAck
  <2>6. CASE RecvManifest BY <2>2, <2>4, <2>5, <2>6 DEF RecvManifest
  <2>7. CASE WrongName \/ Oversize \/ LocalFailure
    BY <2>2, <2>5, <2>7 DEF WrongName, Oversize, LocalFailure, Accepted, HasChunk
  <2>8. CASE Reject
    BY <2>1, <2>2, <2>3, <2>8 DEF Reject, SendAck, Accepted, HasChunk
  <2>9. QED
    BY <2>4, <2>6, <2>7, <2>8 DEF RxStep, Swallow, WritePart, RecvCut
<1>7. \A i \in 1..Len(acks') :
        acks'[i].ok => acks'[i].name \in Arrived'
  BY <1>2, <1>6, AppendAck
<1>8. \A i \in 1..Len(frames') : 1..(frames'[i].name - 1) \subseteq Arrived
  BY <1>5, TailFrames DEF DeliveryInv, FlightInv
<1>9. FlightInv' BY <1>1, <1>2, <1>7, <1>8 DEF DeliveryInv, FlightInv
<1>10. BuildInv' BY <1>1, <1>2, <1>5 DEF DeliveryInv, BuildInv
<1>11. FD!vars' = FD!vars BY <1>1 DEF FD!vars, TxEnded
<1>12. QED BY <1>4, <1>9, <1>10, <1>11 DEF DeliveryInv

\* Commit stores the declared content, after the files before it.
LEMMA CommitStep ==
  ASSUME TypeInv, DeliveryInv, Commit
  PROVE  DeliveryInv' /\ [FD!Next]_FD!vars
<1> DEFINE a == [name |-> rx.file, ok |-> TRUE, declined |-> FALSE, try |-> chunk.try]
<1>1. /\ frames # <<>> /\ frames' = Tail(frames) /\ InOrder /\ Verified
      /\ chunk.name = rx.file /\ rx.pc = "file"
      /\ SendAck(a, RxNextFile)
      /\ stored' = [stored EXCEPT ![rx.file] = Open \o chunk.data]
      /\ UNCHANGED <<declared, tx, finished>>
  BY DEF Commit, Accepted, HasChunk
<1>2. /\ stored \in [File -> Content \cup {Absent, Fallback}] /\ rx.file \in File
      /\ rx.file \in Nat
  BY FilesAssumption DEF TypeInv, TypeOK, FileRange, File
<1>3. declared[rx.file] # Absent /\ Open \o chunk.data = declared[rx.file]
  BY <1>1, ChunkFacts, SentinelAssumption DEF Verified
<1>4. rx.file \in Arrived' BY <1>1, <1>2, <1>3 DEF Arrived
<1>5. \A k \in File : k # rx.file => stored'[k] = stored[k] BY <1>1, <1>2
<1>6. \A k \in File : k # rx.file => (k \in Arrived' <=> k \in Arrived)
  BY <1>1, <1>5 DEF Arrived
<1>7. Arrived \subseteq Arrived' /\ Arrived' \subseteq File
  <2>1. Arrived \subseteq File /\ Arrived' \subseteq File BY DEF Arrived
  <2>2. QED BY <2>1, <1>4, <1>6
<1>8. 1..(rx.file - 1) \subseteq Arrived BY <1>1, TailFrames
<1>9. ~finished BY <1>1 DEF DeliveryInv, StoredInv, RxEnded
<1>10. StoredInv'
  <2>1. \A k \in File : stored'[k] = Absent \/ k \in Arrived'
    BY <1>4, <1>5, <1>6, <1>9 DEF DeliveryInv, StoredInv
  <2>2. ASSUME NEW k \in File, k \in Arrived', NEW j \in 1..(k - 1) PROVE j \in Arrived'
    <3>1. j \in File BY FilesAssumption DEF File
    <3>2. j \in Arrived
      BY <2>2, <1>6, <1>8 DEF DeliveryInv, StoredInv
    <3>3. QED BY <3>1, <3>2, <1>7
  <2>3. ~finished' BY <1>1, <1>9
  <2>4. \A k \in Arrived' : 1..(k - 1) \subseteq Arrived' BY <2>2, <1>7
  <2>5. QED BY <2>1, <2>3, <2>4 DEF StoredInv
<1>11. a \in Ack BY <1>1, <1>2, ChunkFacts DEF Ack, Chunk
<1>12. acks' = acks \/ acks' = Append(acks, a) BY <1>1 DEF SendAck
<1>13. a.ok => a.name \in Arrived' BY <1>2, <1>4
<1> HIDE DEF a
<1>14. \A i \in 1..Len(acks') :
         acks'[i].ok => acks'[i].name \in Arrived'
  BY <1>7, <1>11, <1>12, <1>13, AppendAck
<1>15. \A i \in 1..Len(frames') : 1..(frames'[i].name - 1) \subseteq Arrived
  BY <1>1, TailFrames
<1>16. FlightInv'
  <2>1. File \subseteq Arrived => File \subseteq Arrived' BY <1>7
  <2>2. QED BY <1>1, <1>7, <1>14, <1>15, <2>1 DEF DeliveryInv, FlightInv
<1>17. tx'.pc # "build" BY <1>1 DEF DeliveryInv, BuildInv
<1>18. BuildInv' BY <1>17 DEF BuildInv
<1>19. [FD!Next]_FD!vars
  <2>1. UNCHANGED (IF TxEnded THEN tx.pc ELSE "open") BY <1>1 DEF TxEnded
  <2>2. CASE stored[rx.file] = Absent
    <3>1. \A j \in 1..(rx.file - 1) : stored[j] = declared[j] BY <1>8 DEF Arrived
    <3>2. FD!Store(rx.file) BY <1>1, <1>3, <2>1, <2>2, <3>1 DEF FD!Store
    <3>3. QED BY <3>2, <1>2 DEF FD!Next, FD!File, File
  <2>3. CASE stored[rx.file] # Absent
    <3>1. stored[rx.file] = declared[rx.file]
      BY <2>3, <1>2, <1>9 DEF DeliveryInv, StoredInv, Arrived
    <3>2. stored' = stored BY <3>1, <1>1, <1>2, <1>3
    <3>3. QED BY <3>2, <2>1, <1>1 DEF FD!vars
  <2>4. QED BY <2>2, <2>3
<1>20. QED BY <1>10, <1>16, <1>18, <1>19 DEF DeliveryInv

\* finishWorker writes its note only where no summary has arrived: the files
\* arrive in order, so a summary that is there means that all are.
LEMMA FinishStep ==
  ASSUME TypeInv, DeliveryInv, FinishWorker
  PROVE  DeliveryInv' /\ [FD!Next]_FD!vars
<1>1. /\ stored \in [File -> Content \cup {Absent, Fallback}]
      /\ declared \in [File -> Content \cup {Absent}]
      /\ NumFiles \in File /\ ~finished /\ RxEnded /\ finished'
      /\ UNCHANGED <<declared, tx, rx, frames, acks>>
  BY FilesAssumption DEF TypeInv, TypeOK, File, FinishWorker
<1>2. RxEnded' /\ UNCHANGED (IF TxEnded THEN tx.pc ELSE "open")
  BY <1>1 DEF RxEnded, TxEnded
<1>3. CASE stored' = stored
  <2>1. stored' = stored BY <1>3
  <2>2. Arrived' = Arrived BY <2>1, <1>1, ArrivedSame
  <2>3. StoredInv' BY <2>1, <2>2, <1>1, <1>2 DEF DeliveryInv, StoredInv
  <2>4. FlightInv' BY <2>2, <1>1 DEF DeliveryInv, FlightInv
  <2>5. BuildInv' BY <2>2, <1>1 DEF DeliveryInv, BuildInv
  <2>6. FD!vars' = FD!vars BY <2>1, <1>1, <1>2 DEF FD!vars
  <2>7. QED BY <2>3, <2>4, <2>5, <2>6 DEF DeliveryInv
<1>4. CASE ~reportTransferred /\ writeWorkerSummary
  <2>1. stored' = [stored EXCEPT ![NumFiles] = Fallback] BY <1>4 DEF writeWorkerSummary
  <2>2. NumFiles \notin Arrived
    <3> SUFFICES ASSUME NumFiles \in Arrived PROVE FALSE OBVIOUS
    <3>1. 1..(NumFiles - 1) \subseteq Arrived BY DEF DeliveryInv, StoredInv
    <3>2. \A k \in File : k = NumFiles \/ k \in 1..(NumFiles - 1)
      BY FilesAssumption DEF File
    <3>3. \A k \in File : k \in Arrived BY <3>1, <3>2
    <3>4. QED BY <3>3, <1>4 DEF reportTransferred, Arrived
  <2>3. stored[NumFiles] = Absent BY <2>2, <1>1 DEF DeliveryInv, StoredInv
  <2>4. \A k \in File : k # NumFiles => stored'[k] = stored[k] BY <2>1, <1>1
  <2>5. stored'[NumFiles] = Fallback BY <2>1, <1>1
  <2>6. declared'[NumFiles] # Fallback
    BY <1>1, ContentAssumption, SentinelAssumption
  <2>7. NumFiles \notin Arrived' BY <2>5, <2>6 DEF Arrived
  <2>8. Arrived' = Arrived
    <3>1. \A k \in File : k # NumFiles => (k \in Arrived' <=> k \in Arrived)
      BY <2>4, <1>1 DEF Arrived
    <3>2. \A k : k \in Arrived' <=> k \in Arrived
      BY <3>1, <2>2, <2>7 DEF Arrived
    <3>3. QED BY <3>2
  <2>9. StoredInv'
    <3>1. \A k \in File : stored'[k] = Absent \/ k \in Arrived'
                          \/ (finished' /\ k = NumFiles /\ stored'[k] = Fallback)
      BY <2>4, <2>5, <2>8, <1>1 DEF DeliveryInv, StoredInv
    <3>2. QED BY <3>1, <2>8, <1>2 DEF DeliveryInv, StoredInv
  <2>10. FlightInv' BY <2>8, <1>1 DEF DeliveryInv, FlightInv
  <2>11. BuildInv' BY <2>8, <1>1 DEF DeliveryInv, BuildInv
  <2>12. FD!Note BY <2>1, <2>3, <1>1, <1>2 DEF FD!Note
  <2>13. QED BY <2>9, <2>10, <2>11, <2>12 DEF DeliveryInv, FD!Next
<1>5. QED BY <1>3, <1>4 DEF FinishWorker

\* Every step keeps the invariant and maps to a step of FileDelivery.
LEMMA DeliveryStep ==
  TypeInv /\ DeliveryInv /\ [Next]_vars => DeliveryInv' /\ [FD!Next]_FD!vars
<1> SUFFICES ASSUME TypeInv, DeliveryInv, [Next]_vars
             PROVE  DeliveryInv' /\ [FD!Next]_FD!vars
  OBVIOUS
<1>1. ASSUME UNCHANGED <<declared, stored, tx, rx, frames, acks, finished>>
      PROVE  DeliveryInv' /\ [FD!Next]_FD!vars
  <2>1. Arrived' = Arrived BY <1>1, ArrivedSame
  <2>2. StoredInv' BY <2>1, <1>1 DEF DeliveryInv, StoredInv, RxEnded
  <2>3. FlightInv' BY <2>1, <1>1 DEF DeliveryInv, FlightInv
  <2>4. BuildInv' BY <2>1, <1>1 DEF DeliveryInv, BuildInv
  <2>5. FD!vars' = FD!vars BY <1>1 DEF FD!vars, TxEnded
  <2>6. QED BY <2>2, <2>3, <2>4, <2>5 DEF DeliveryInv
<1>2. CASE TxStep BY <1>2, BuildStep, SenderStep
<1>3. CASE RxStep BY <1>3, QuietStep, CommitStep
<1>4. CASE FinishWorker BY <1>4, FinishStep
<1>5. CASE (\E s \in Side : SessionOver(s)) \/ Edit \/ Done \/ UNCHANGED vars
  BY <1>5, <1>1 DEF SessionOver, Edit, Done, vars
<1>6. QED BY <1>2, <1>3, <1>4, <1>5 DEF Next

\* The report transfer implements FileDelivery: a file PC2 has is the one PC1
\* declared, files arrive in order and are never replaced, and SendReports
\* succeeds only when PC2 has them all.
THEOREM DeliveryCorrect == Spec => Delivery
<1>1. Init => FD!Init
  <2> SUFFICES ASSUME Init PROVE FD!Init OBVIOUS
  <2>1. tx.pc = "build" BY DEF Init
  <2>2. QED BY <2>1 DEF Init, FD!Init, FD!File, File, TxEnded
<1>2. QED
  BY TypeInit, TypeStep, DeliveryInit, DeliveryStep, <1>1, PTL DEF Spec, Delivery, FD!Spec

\* A step of FileDelivery never replaces a stored file.
LEMMA StoredStep ==
  ASSUME TypeInv, [FD!Next]_FD!vars
  PROVE  \A k \in File : stored[k] # Absent => stored'[k] = stored[k]
<1>1. stored \in [File -> Content \cup {Absent, Fallback}] BY DEF TypeInv, TypeOK
<1>2. CASE FD!vars' = FD!vars BY <1>2 DEF FD!vars
<1>3. CASE FD!Note BY <1>1, <1>3 DEF FD!Note
<1>4. CASE \E j \in FD!File : FD!Declare(j) \/ FD!Store(j)
  BY <1>1, <1>4 DEF FD!Declare, FD!Store
<1>5. CASE \E v \in {"ok", "declined", "failed"} : FD!Conclude(v)
  BY <1>5 DEF FD!Conclude
<1>6. QED BY <1>2, <1>3, <1>4, <1>5 DEF FD!Next

\* A file PC2 has received is never replaced, in particular not by the
\* fallback summary of finishWorker.
THEOREM VerifiedKeptCorrect == Spec => VerifiedKept
<1>1. TypeInv /\ DeliveryInv /\ [Next]_vars =>
        [\A k \in File : stored[k] # Absent => stored'[k] = stored[k]]_vars
  BY DeliveryStep, StoredStep
<1>2. QED
  BY TypeInit, TypeStep, DeliveryInit, DeliveryStep, <1>1, PTL DEF Spec, VerifiedKept

-----------------------------------------------------------------------------
(* Acknowledgements                                                        *)

\* The chunks on their way to a receiver that still runs; the manifest goes
\* before them.
Chunks == IF rx.pc = "manifest" /\ frames # <<>> THEN Tail(frames) ELSE frames

\* The attempt a sender is making.
Try(t) == <<t.file, t.attempt>>

\* What may be on its way when the sender is t: chunks of its attempt, of which
\* only the first opens the file and only the last ends it, behind leftovers of
\* the rejected attempt, which do not open a file.
FlowNames(s, t) ==
  \A i \in 1..Len(s) :
    s[i].name = t.file /\ (s[i].try = Try(t) \/ (t.attempt = 1 /\ s[i].seq > 0))
FlowOrder(s, t) ==
  \A i, j \in 1..Len(s) :
    i < j /\ s[i].try = Try(t) => s[j].try = Try(t) /\ s[j].seq > 0 /\ ~s[i].last
FlowEnd(s, t) ==
  \A i \in 1..Len(s) : s[i].try = Try(t) /\ s[i].last => t.pc = "await"
FlowStart(s, t) ==
  t.pc = "stream" /\ t.seq = 0 => \A i \in 1..Len(s) : s[i].try # Try(t)
Flow(s, t) ==
  FlowNames(s, t) /\ FlowOrder(s, t) /\ FlowEnd(s, t) /\ FlowStart(s, t)

\* The chunks all belong to the sender's attempt and none of them opens it.
RestOf(s, t) == \A i \in 1..Len(s) : s[i].try = Try(t) /\ s[i].seq > 0

\* The receiver has not answered the attempt: it expects the same file, and
\* drains until the attempt opens it when an earlier one was rejected.
Unanswered ==
  /\ acks = <<>> /\ rx.file = tx.file /\ rx.rejections = tx.attempt
  /\ rx.draining => tx.attempt = 1
  /\ ~rx.draining => \A i \in 1..Len(Chunks) : Chunks[i].try = Try(tx)

\* It has rejected the first attempt and drains the rest of it.
RejectedFirst ==
  /\ rx.pc = "file" /\ rx.file = tx.file /\ rx.rejections = 1 /\ rx.draining
  /\ tx.attempt = 0 /\ ~acks[1].ok /\ RestOf(frames, tx)

\* It has committed the file, or has rejected the last attempt at it.
WentOn ==
  /\ rx.pc = "file" /\ rx.file = tx.file + 1 /\ rx.rejections = 0 /\ ~rx.draining
  /\ \/ acks[1].ok /\ acks[1].name = tx.file /\ frames = <<>> /\ tx.pc = "await"
     \/ ~acks[1].ok /\ tx.attempt = 1

\* It has answered an attempt whose first chunk, at least, was sent.
Answered ==
  acks # <<>> /\ ~(tx.pc = "stream" /\ tx.seq = 0) /\ (RejectedFirst \/ WentOn)

\* Until the manifest is sent nothing is on its way.
Silent ==
  /\ frames = <<>> /\ acks = <<>> /\ tx.attempt = 0 /\ tx.seq = 0
  /\ rx.pc # "file" /\ rx.rejections = 0 /\ ~rx.draining /\ rx.file = 1

\* A verdict may be followed by a decline, never by another verdict.
OneVerdict == \A i, j \in 1..Len(acks) : i < j => acks[j].declined

\* The exchange between a sender and a receiver that both run.
Talk ==
  /\ \A i \in 1..Len(acks) : ~acks[i].declined
  /\ rx.pc = "manifest" => frames # <<>>
  /\ Flow(Chunks, tx)
  /\ Unanswered \/ Answered

Streaming == tx.pc \in {"stream", "await"}

Exchange ==
  /\ tx.pc = "build" => Silent
  /\ ~TxEnded => OneVerdict
  /\ AckOfThisAttempt
  /\ Streaming /\ ~RxEnded => Talk

\* The exchange before it has begun.
LEMMA ExchangeInit == Init => Exchange
<1> SUFFICES ASSUME Init PROVE Exchange OBVIOUS
<1>1. tx.pc = "build" /\ tx.attempt = 0 /\ tx.seq = 0 BY DEF Init
<1>2. rx.pc = "manifest" /\ rx.rejections = 0 /\ ~rx.draining /\ rx.file = 1 BY DEF Init
<1>3. frames = <<>> /\ acks = <<>> BY DEF Init
<1>4. Silent BY <1>1, <1>2, <1>3 DEF Silent
<1>5. OneVerdict /\ AckOfThisAttempt BY <1>3 DEF OneVerdict, AckOfThisAttempt
<1>6. QED BY <1>1, <1>4, <1>5 DEF Exchange, Streaming

\* What is left after the first chunk of a flow is a flow; behind a chunk of
\* the attempt there is only the rest of it, and nothing behind its last one.
LEMMA FlowTail ==
  ASSUME NEW s \in Seq(Chunk), s # <<>>, NEW t, Flow(s, t)
  PROVE  /\ Flow(Tail(s), t)
         /\ Head(s).name = t.file
         /\ Head(s).try = Try(t) \/ (t.attempt = 1 /\ Head(s).seq > 0)
         /\ Head(s).try = Try(t) =>
              /\ RestOf(Tail(s), t)
              /\ ~(t.pc = "stream" /\ t.seq = 0)
              /\ Head(s).last => Tail(s) = <<>> /\ t.pc = "await"
<1>1. /\ Len(s) \in Nat /\ Len(s) >= 1 /\ Head(s) = s[1]
      /\ Len(Tail(s)) = Len(s) - 1 /\ Tail(s) \in Seq(Chunk)
  OBVIOUS
<1>2. \A i \in 1..Len(Tail(s)) :
        Tail(s)[i] = s[i + 1] /\ i + 1 \in 1..Len(s) /\ i \in Nat /\ 1 < i + 1
  BY <1>1
<1>3. 1 \in 1..Len(s) BY <1>1
<1>4. \A i, j \in 1..Len(Tail(s)) : i < j => i + 1 < j + 1 BY <1>1
<1>5. FlowNames(Tail(s), t) BY <1>2 DEF Flow, FlowNames
<1>6. FlowOrder(Tail(s), t) BY <1>2, <1>4 DEF Flow, FlowOrder
<1>7. FlowEnd(Tail(s), t) BY <1>2 DEF Flow, FlowEnd
<1>8. FlowStart(Tail(s), t) BY <1>2 DEF Flow, FlowStart
<1>9. ASSUME Head(s).try = Try(t)
      PROVE  /\ RestOf(Tail(s), t)
             /\ ~(t.pc = "stream" /\ t.seq = 0)
             /\ Head(s).last => Tail(s) = <<>> /\ t.pc = "await"
  <2>1. RestOf(Tail(s), t)
    BY <1>1, <1>2, <1>3, <1>9 DEF Flow, FlowOrder, RestOf
  <2>2. ~(t.pc = "stream" /\ t.seq = 0) BY <1>1, <1>3, <1>9 DEF Flow, FlowStart
  <2>3. Head(s).last => t.pc = "await" BY <1>1, <1>3, <1>9 DEF Flow, FlowEnd
  <2>4. Head(s).last => Tail(s) = <<>>
    <3>1. SUFFICES ASSUME Head(s).last, Tail(s) # <<>> PROVE FALSE OBVIOUS
    <3>2. 1 \in 1..Len(Tail(s)) BY <1>1, <3>1
    <3>3. QED BY <3>1, <3>2, <1>1, <1>2, <1>3, <1>9 DEF Flow, FlowOrder
  <2>5. QED BY <2>1, <2>2, <2>3, <2>4
<1>10. QED
  BY <1>1, <1>3, <1>5, <1>6, <1>7, <1>8, <1>9 DEF Flow, FlowNames

\* Routing a frame changes the chunks on their way as it changes the channel.
LEMMA ChunksRouted ==
  ASSUME TypeInv, rx' = rx, rx.pc = "manifest" => frames # <<>>, NEW f \in Chunk, Route(f)
  PROVE  /\ Chunks \in Seq(Chunk)
         /\ Chunks' = Chunks \/ Chunks' = Append(Chunks, f)
         /\ frames # <<>> => frames' # <<>>
<1>1. frames \in Seq(Chunk) BY DEF TypeInv, TypeOK
<1>2. frames # <<>> => Tail(frames) \in Seq(Chunk) BY <1>1
<1>3. Chunks \in Seq(Chunk) BY <1>1, <1>2 DEF Chunks
<1>4. CASE frames' = frames BY <1>3, <1>4 DEF Chunks
<1>5. CASE frames' = Append(frames, f)
  <2>1. frames' # <<>> BY <1>1, <1>5
  <2>2. frames # <<>> => Tail(frames') = Append(Tail(frames), f) BY <1>1, <1>5
  <2>3. QED BY <2>1, <2>2, <1>3, <1>5 DEF Chunks
<1>6. QED BY <1>4, <1>5 DEF Route

\* Appending to a sequence: which elements there are afterwards.
LEMMA Appended ==
  ASSUME NEW S, NEW s \in Seq(S), NEW e \in S
  PROVE  /\ Len(Append(s, e)) = Len(s) + 1 /\ Len(s) \in Nat
         /\ \A i \in 1..Len(s) : Append(s, e)[i] = s[i] /\ i < Len(s) + 1
         /\ Append(s, e)[Len(s) + 1] = e
         /\ \A i \in 1..Len(Append(s, e)) : i \in 1..Len(s) \/ i = Len(s) + 1
         /\ \A i, j \in 1..Len(Append(s, e)) :
              i < j => i \in 1..Len(s) /\ (j \in 1..Len(s) \/ j = Len(s) + 1)
<1>1. Len(Append(s, e)) = Len(s) + 1 /\ Len(s) \in Nat OBVIOUS
<1>2. \A i \in 1..Len(s) : Append(s, e)[i] = s[i] /\ i < Len(s) + 1 OBVIOUS
<1>3. Append(s, e)[Len(s) + 1] = e OBVIOUS
<1>4. QED BY <1>1, <1>2, <1>3

\* The chunk StreamChunk sends extends the flow, whether it is routed or
\* dropped.
LEMMA FlowSent ==
  ASSUME NEW s \in Seq(Chunk), TypeInv, TypeInv', StreamChunk, Flow(s, tx)
  PROVE  /\ Flow(s, tx') /\ Flow(Append(s, ReadChunk), tx')
         /\ tx'.file = tx.file /\ tx'.attempt = tx.attempt
         /\ ReadChunk.try = Try(tx) /\ ReadChunk.seq = tx.seq
         /\ ReadChunk \in Chunk
         /\ tx.pc = "stream" /\ ~(tx'.pc = "stream" /\ tx'.seq = 0)
<1>1. tx.pc = "stream" BY DEF StreamChunk
<1>2. tx \in TxState /\ tx.seq \in Nat BY DEF TypeInv, TypeOK, TxState
<1>3. ReadChunk \in Chunk BY <1>1, ReadChunkType
<1>4. /\ ReadChunk.name = tx.file /\ ReadChunk.try = Try(tx) /\ ReadChunk.seq = tx.seq
  BY DEF ReadChunk, Try
<1> DEFINE c == ReadChunk
           u == Append(s, c)
<1>5. \/ c.last /\ tx' = [tx EXCEPT !.pc = "await"]
      \/ ~c.last /\ tx' = [tx EXCEPT !.seq = tx.seq + 1, !.off = tx.off + Len(c.data)]
  BY <1>2 DEF StreamChunk, TxState
<1> HIDE DEF c
<1>6. /\ tx'.file = tx.file /\ tx'.attempt = tx.attempt
      /\ c.last => tx'.pc = "await"
      /\ ~c.last => tx'.pc = "stream" /\ tx'.seq = tx.seq + 1
  BY <1>1, <1>2, <1>5 DEF TxState
<1>7. ~(tx'.pc = "stream" /\ tx'.seq = 0) BY <1>2, <1>6
<1>8. Try(tx') = Try(tx) BY <1>6 DEF Try
<1>9. c \in Chunk /\ c.name = tx.file /\ c.try = Try(tx) /\ c.seq = tx.seq
  BY <1>3, <1>4 DEF c
<1>10. \A i \in 1..Len(s) : s[i].try = Try(tx) => ~s[i].last /\ tx.seq > 0
  BY <1>1, <1>2 DEF Flow, FlowEnd, FlowStart
<1>11. Flow(s, tx')
  <2>1. FlowNames(s, tx') BY <1>6, <1>8 DEF Flow, FlowNames
  <2>2. FlowOrder(s, tx') BY <1>8 DEF Flow, FlowOrder
  <2>3. FlowEnd(s, tx') BY <1>8, <1>10 DEF FlowEnd
  <2>4. FlowStart(s, tx') BY <1>7 DEF FlowStart
  <2>5. QED BY <2>1, <2>2, <2>3, <2>4 DEF Flow
<1>12. /\ \A i \in 1..Len(s) : u[i] = s[i]
       /\ u[Len(s) + 1] = c
       /\ \A i \in 1..Len(u) : i \in 1..Len(s) \/ i = Len(s) + 1
       /\ \A i, j \in 1..Len(u) :
            i < j => i \in 1..Len(s) /\ (j \in 1..Len(s) \/ j = Len(s) + 1)
  BY <1>9, Appended
<1> HIDE DEF u
<1>13. Flow(u, tx')
  <2>1. FlowNames(u, tx') BY <1>6, <1>8, <1>9, <1>11, <1>12 DEF Flow, FlowNames
  <2>2. FlowOrder(u, tx')
    <3> SUFFICES ASSUME NEW i \in 1..Len(u), NEW j \in 1..Len(u), i < j, u[i].try = Try(tx')
                 PROVE  u[j].try = Try(tx') /\ u[j].seq > 0 /\ ~u[i].last
      BY DEF FlowOrder
    <3>1. i \in 1..Len(s) /\ u[i] = s[i] BY <1>12
    <3>2. CASE j \in 1..Len(s) BY <3>1, <3>2, <1>11, <1>12 DEF Flow, FlowOrder
    <3>3. CASE j = Len(s) + 1 BY <3>1, <3>3, <1>8, <1>9, <1>10, <1>12
    <3>4. QED BY <3>2, <3>3, <1>12
  <2>3. FlowEnd(u, tx') BY <1>6, <1>8, <1>10, <1>12 DEF FlowEnd
  <2>4. FlowStart(u, tx') BY <1>7 DEF FlowStart
  <2>5. QED BY <2>1, <2>2, <2>3, <2>4 DEF Flow
<1>14. QED BY <1>1, <1>6, <1>7, <1>9, <1>11, <1>13 DEF u, c

\* Streaming a chunk keeps the exchange.
LEMMA StreamExchange ==
  ASSUME TypeInv, TypeInv', Exchange, StreamChunk
  PROVE  Exchange'
<1>1. tx.pc = "stream" /\ Route(ReadChunk) /\ UNCHANGED <<rx, acks>>
  BY DEF StreamChunk
<1>2. tx \in TxState /\ tx.seq \in Nat /\ frames \in Seq(Chunk)
  BY DEF TypeInv, TypeOK, TxState
<1>3. <<>> \in Seq(Chunk) /\ Flow(<<>>, tx)
  BY DEF Flow, FlowNames, FlowOrder, FlowEnd, FlowStart
<1>4. /\ tx'.file = tx.file /\ tx'.attempt = tx.attempt /\ ReadChunk \in Chunk
      /\ ReadChunk.try = Try(tx) /\ ReadChunk.seq = tx.seq
      /\ ~(tx'.pc = "stream" /\ tx'.seq = 0)
  BY <1>3, FlowSent
<1>5. Try(tx') = Try(tx) BY <1>4 DEF Try
<1>6. tx'.pc # "build"
  BY <1>1, <1>2 DEF StreamChunk, TxState
<1>7. OneVerdict' /\ AckOfThisAttempt'
  <2>1. ~TxEnded BY <1>1 DEF TxEnded
  <2>2. QED BY <2>1, <1>1, <1>4 DEF Exchange, OneVerdict, AckOfThisAttempt
<1>8. ASSUME ~RxEnded PROVE Talk'
  <2>1. Talk BY <1>1, <1>8 DEF Exchange, Streaming
  <2>2. /\ Chunks \in Seq(Chunk)
        /\ Chunks' = Chunks \/ Chunks' = Append(Chunks, ReadChunk)
        /\ frames # <<>> => frames' # <<>>
    BY <2>1, <1>1, <1>4, ChunksRouted DEF Talk
  <2>3. Flow(Chunks, tx') /\ Flow(Append(Chunks, ReadChunk), tx')
    BY <2>1, <2>2, FlowSent DEF Talk
  <2>4. Flow(Chunks, tx)' BY <2>2, <2>3
  <2>5. CASE Unanswered
    <3>1. ~rx.draining => \A i \in 1..Len(Chunks') : Chunks'[i].try = Try(tx)
      <4>1. CASE Chunks' = Chunks BY <4>1, <2>5 DEF Unanswered
      <4>2. CASE Chunks' = Append(Chunks, ReadChunk)
        <5>1. \A i \in 1..Len(Chunks') :
                (i \in 1..Len(Chunks) /\ Chunks'[i] = Chunks[i]) \/ Chunks'[i] = ReadChunk
          BY <4>2, <2>2, <1>4, Appended
        <5>2. QED BY <5>1, <2>5, <1>4 DEF Unanswered
      <4>3. QED BY <4>1, <4>2, <2>2
    <3>2. Unanswered' BY <3>1, <2>5, <1>1, <1>4, <1>5 DEF Unanswered
    <3>3. QED BY <3>2, <2>1, <2>2, <2>4, <1>1 DEF Talk
  <2>6. CASE Answered
    <3>1. tx.seq > 0 BY <2>6, <1>1, <1>2 DEF Answered
    <3>2. ASSUME RejectedFirst PROVE RejectedFirst'
      <4>1. RestOf(frames, tx)'
        <5>1. CASE frames' = frames BY <5>1, <3>2, <1>5 DEF RejectedFirst, RestOf
        <5>2. CASE frames' = Append(frames, ReadChunk)
          <6>1. \A i \in 1..Len(frames') :
                  (i \in 1..Len(frames) /\ frames'[i] = frames[i]) \/ frames'[i] = ReadChunk
            BY <5>2, <1>2, <1>4, Appended
          <6>2. QED BY <6>1, <3>1, <3>2, <1>4, <1>5 DEF RejectedFirst, RestOf
        <5>3. QED BY <5>1, <5>2, <1>1 DEF Route
      <4>2. QED BY <4>1, <3>2, <1>1, <1>4 DEF RejectedFirst
    <3>3. ASSUME WentOn PROVE WentOn' BY <3>3, <1>1, <1>4 DEF WentOn
    <3>4. Answered' BY <3>2, <3>3, <2>6, <1>1, <1>4 DEF Answered
    <3>5. QED BY <3>4, <2>1, <2>2, <2>4, <1>1 DEF Talk
  <2>7. QED BY <2>1, <2>5, <2>6 DEF Talk
<1>9. RxEnded' = RxEnded BY <1>1 DEF RxEnded
<1>10. QED BY <1>6, <1>7, <1>8, <1>9 DEF Exchange

\* Building and sending the manifest keeps the exchange: the channel is empty,
\* so the manifest is routed if the receiver still runs.
LEMMA ManifestExchange ==
  ASSUME TypeInv, Exchange, BuildManifest \/ SendManifest
  PROVE  Exchange'
<1>1. tx.pc = "build" /\ UNCHANGED <<rx, acks>> BY DEF BuildManifest, SendManifest
<1>2. Silent BY <1>1 DEF Exchange
<1>3. tx \in TxState /\ rx \in RxState BY DEF TypeInv, TypeOK
<1>4. OneVerdict' /\ AckOfThisAttempt'
  <2>1. acks' = <<>> BY <1>1, <1>2 DEF Silent
  <2>2. QED BY <2>1 DEF OneVerdict, AckOfThisAttempt
<1>5. CASE BuildManifest
  <2>1. frames' = frames /\ tx'.attempt = tx.attempt /\ tx'.seq = tx.seq
        /\ ~(tx'.pc \in {"stream", "await"})
    BY <1>1, <1>3, <1>5 DEF BuildManifest, TxState
  <2>2. Silent' BY <2>1, <1>1, <1>2 DEF Silent
  <2>3. QED BY <2>1, <2>2, <1>4 DEF Exchange, Streaming
<1>6. CASE SendManifest
  <2>1. CASE tx.total > MaxTransferTotal
    <3>1. tx'.pc = "failed" BY <2>1, <1>3, <1>6 DEF SendManifest, TxState
    <3>2. QED BY <3>1, <1>4 DEF Exchange, Streaming
  <2>2. CASE ~(tx.total > MaxTransferTotal)
    <3>1. tx' = [tx EXCEPT !.pc = "stream", !.file = 1] /\ Route(ManifestFrame)
      BY <2>2, <1>6 DEF SendManifest
    <3>2. tx'.pc = "stream" /\ tx'.file = 1 /\ tx'.attempt = 0
      BY <3>1, <1>2, <1>3 DEF TxState, Silent
    <3>3. ASSUME ~RxEnded PROVE Talk'
      <4>1. frames' = <<ManifestFrame>>
        <5>1. frames = <<>> /\ ~(0 >= transferBufferSize) BY <1>2, SizeAssumption DEF Silent
        <5>2. frames' = Append(<<>>, ManifestFrame) BY <5>1, <3>1, <3>3 DEF Route
        <5>3. QED BY <5>2
      <4>2. rx.pc = "manifest" BY <1>2, <1>3, <3>3 DEF Silent, RxEnded, RxState
      <4>3. Chunks' = <<>> BY <4>1, <4>2, <1>1 DEF Chunks
      <4>4. Flow(Chunks, tx)'
        BY <4>3 DEF Flow, FlowNames, FlowOrder, FlowEnd, FlowStart
      <4>5. Unanswered' BY <4>3, <3>2, <1>1, <1>2 DEF Unanswered, Silent
      <4>6. acks' = <<>> /\ frames' # <<>> BY <4>1, <1>1, <1>2 DEF Silent
      <4>7. QED BY <4>4, <4>5, <4>6 DEF Talk
    <3>4. RxEnded' = RxEnded BY <1>1 DEF RxEnded
    <3>5. QED BY <3>2, <3>3, <3>4, <1>4 DEF Exchange
  <2>3. QED BY <2>1, <2>2
<1>7. QED BY <1>5, <1>6

\* Reading the ack keeps the exchange: the sender goes on to the next file
\* exactly when the receiver has, and tries again while the receiver drains.
LEMMA AckExchange ==
  ASSUME TypeInv, TypeInv', Exchange, RecvAck
  PROVE  Exchange'
<1> DEFINE a == acks[1]
<1>1. /\ tx.pc = "await" /\ acks # <<>> /\ acks' = Tail(acks) /\ UNCHANGED <<rx, frames>>
  BY DEF RecvAck
<1>2. /\ tx \in TxState /\ rx \in RxState /\ acks \in Seq(Ack) /\ frames \in Seq(Chunk)
      /\ tx.attempt \in 0..1 /\ tx.file \in Nat
  BY DEF TypeInv, TypeOK, TxState, maxFileRetries
<1>3. Head(acks) = a /\ Len(acks) \in Nat /\ Len(acks) >= 1 /\ Len(acks') = Len(acks) - 1
  BY <1>1, <1>2
<1>4. \A i \in 1..Len(acks') :
        acks'[i] = acks[i + 1] /\ i + 1 \in 1..Len(acks) /\ 1 < i + 1 /\ 1 \in 1..Len(acks)
  BY <1>1, <1>2, <1>3
<1>5. ~TxEnded BY <1>1 DEF TxEnded
<1>6. \A i \in 1..Len(acks') : acks'[i].declined
  BY <1>4, <1>5 DEF Exchange, OneVerdict
<1>7. OneVerdict' /\ AckOfThisAttempt' BY <1>6 DEF OneVerdict, AckOfThisAttempt
<1>8. tx'.pc # "build"
  <2>1. tx' \in {[tx EXCEPT !.pc = "declined"], NextFile, Retry} BY DEF RecvAck
  <2>2. QED BY <2>1, <1>2 DEF NextFile, Retry, TxState
<1>9. ASSUME ~RxEnded, Streaming' PROVE Talk'
  <2>1. Talk BY <1>1, <1>9 DEF Exchange, Streaming
  <2>2. ~a.declined /\ acks' = <<>>
    <3>1. \A i \in 1..Len(acks) : ~acks[i].declined BY <2>1 DEF Talk
    <3>2. ~a.declined BY <3>1, <1>3
    <3>3. Len(acks') = 0
      <4>1. SUFFICES ASSUME Len(acks') # 0 PROVE FALSE OBVIOUS
      <4>2. 1 \in 1..Len(acks') BY <4>1, <1>3
      <4>3. QED BY <4>2, <3>1, <1>4, <1>6
    <3>4. acks' \in Seq(Ack) BY <1>1, <1>2
    <3>5. QED BY <3>2, <3>3, <3>4
  <2>3. Answered BY <2>1, <1>1 DEF Talk, Unanswered
  <2>4. rx.pc = "file" BY <2>3 DEF Answered, RejectedFirst, WentOn
  <2>5. Chunks = frames /\ Chunks' = frames BY <2>4, <1>1 DEF Chunks
  <2>6. CASE a.ok /\ a.name = tx.file
    <3>1. tx' = NextFile BY <2>2, <2>6, <1>3 DEF RecvAck
    <3>2. tx.file # NumFiles
      BY <3>1, <1>2, <1>9 DEF NextFile, TxState, Streaming
    <3>3. tx'.pc = "stream" /\ tx'.file = tx.file + 1 /\ tx'.attempt = 0
      BY <3>1, <3>2, <1>2 DEF NextFile, TxState
    <3>4. WentOn /\ frames = <<>> BY <2>3, <2>6 DEF Answered, RejectedFirst, WentOn
    <3>5. Flow(Chunks, tx)'
      BY <3>4, <2>5 DEF Flow, FlowNames, FlowOrder, FlowEnd, FlowStart
    <3>6. Unanswered' BY <3>3, <3>4, <2>2, <2>5, <1>1 DEF Unanswered, WentOn
    <3>7. QED BY <3>5, <3>6, <2>2, <2>4, <1>1 DEF Talk
  <2>7. CASE ~(a.ok /\ a.name = tx.file)
    <3>1. tx' = Retry BY <2>2, <2>7, <1>3 DEF RecvAck
    <3>2. tx.attempt = 0
      BY <3>1, <1>2, <1>9 DEF Retry, TxState, Streaming, maxFileRetries
    <3>3. tx'.pc = "stream" /\ tx'.file = tx.file /\ tx'.attempt = 1
      BY <3>1, <3>2, <1>2 DEF Retry, TxState, maxFileRetries
    <3>4. RejectedFirst BY <2>3, <2>7, <3>2 DEF Answered, WentOn
    <3>5. \A i \in 1..Len(frames) :
            frames[i].try = Try(tx) /\ frames[i].seq > 0 /\ frames[i].name = tx.file
      BY <3>4, <2>1, <2>5 DEF RejectedFirst, RestOf, Talk, Flow, FlowNames
    <3>6. Try(tx) # Try(tx') BY <3>2, <3>3 DEF Try
    <3>7. Flow(Chunks, tx)'
      BY <3>3, <3>5, <3>6, <2>5 DEF Flow, FlowNames, FlowOrder, FlowEnd, FlowStart
    <3>8. Unanswered' BY <3>3, <3>4, <2>2, <1>1 DEF Unanswered, RejectedFirst
    <3>9. QED BY <3>7, <3>8, <2>2, <2>4, <1>1 DEF Talk
  <2>8. QED BY <2>6, <2>7
<1>10. RxEnded' = RxEnded BY <1>1 DEF RxEnded
<1>11. QED BY <1>7, <1>8, <1>9, <1>10 DEF Exchange

\* A step that ends the receiver and declines, or says nothing, keeps the
\* exchange.
LEMMA EndExchange ==
  ASSUME TypeInv, Exchange, tx' = tx, frames' = frames \/ frames # <<>>,
         rx' = RxFailed \/ rx' = [rx EXCEPT !.pc = "ok"],
         NEW a \in Ack, a.declined, acks' = acks \/ acks' = Append(acks, a),
         frames = <<>> => acks' = acks
  PROVE  Exchange'
<1>1. rx \in RxState /\ acks \in Seq(Ack) BY DEF TypeInv, TypeOK
<1>2. /\ RxEnded' /\ rx'.pc # "file" /\ rx'.file = rx.file /\ rx'.draining = rx.draining
      /\ rx'.rejections = rx.rejections
  BY <1>1 DEF RxEnded, RxFailed, RxState
<1>3. \A i \in 1..Len(acks') :
        acks'[i].declined \/ (i \in 1..Len(acks) /\ acks'[i] = acks[i])
  <2>1. CASE acks' = acks BY <2>1
  <2>2. CASE acks' = Append(acks, a) BY <2>2, <1>1, Appended
  <2>3. QED BY <2>1, <2>2
<1>4. \A i, j \in 1..Len(acks') :
        i < j => acks'[j].declined \/ (i \in 1..Len(acks) /\ j \in 1..Len(acks) /\ acks'[j] = acks[j])
  <2>1. CASE acks' = acks BY <2>1
  <2>2. CASE acks' = Append(acks, a) BY <2>2, <1>1, Appended
  <2>3. QED BY <2>1, <2>2
<1>5. TxEnded' = TxEnded BY DEF TxEnded
<1>6. ~TxEnded => OneVerdict' BY <1>4 DEF Exchange, OneVerdict
<1>7. AckOfThisAttempt' BY <1>3, <1>5 DEF Exchange, AckOfThisAttempt
<1>8. tx.pc = "build" => Silent' BY <1>2 DEF Exchange, Silent
<1>9. QED BY <1>2, <1>5, <1>6, <1>7, <1>8 DEF Exchange

\* The chunk a receiver accepts belongs to the attempt the sender is making,
\* which has not been answered: a draining receiver accepts only a chunk that
\* opens the file, and after the last attempt only chunks of the next file.
LEMMA AcceptedChunk ==
  ASSUME TypeInv, Exchange, Streaming, Accepted
  PROVE  /\ Talk /\ Unanswered
         /\ chunk.try = Try(tx)
         /\ Flow(Tail(frames), tx) /\ RestOf(Tail(frames), tx)
         /\ ~(tx.pc = "stream" /\ tx.seq = 0)
         /\ chunk.last => Tail(frames) = <<>> /\ tx.pc = "await"
<1>1. rx.pc = "file" /\ frames # <<>> /\ ~Straggler /\ chunk.name = rx.file
  BY DEF Accepted, HasChunk
<1>2. Talk BY <1>1 DEF Exchange, RxEnded
<1>3. Chunks = frames BY <1>1 DEF Chunks
<1>4. frames \in Seq(Chunk) /\ Flow(frames, tx) BY <1>2, <1>3 DEF TypeInv, TypeOK, Talk
<1>5. /\ Flow(Tail(frames), tx)
      /\ chunk.name = tx.file
      /\ chunk.try = Try(tx) \/ (tx.attempt = 1 /\ chunk.seq > 0)
      /\ chunk.try = Try(tx) =>
           /\ RestOf(Tail(frames), tx)
           /\ ~(tx.pc = "stream" /\ tx.seq = 0)
           /\ chunk.last => Tail(frames) = <<>> /\ tx.pc = "await"
  BY <1>1, <1>4, FlowTail DEF chunk
<1>6. chunk = frames[1] /\ 1 \in 1..Len(frames) BY <1>1, <1>4 DEF chunk
<1>7. tx.file \in Nat BY DEF TypeInv, TypeOK, TxState
<1>8. ~RejectedFirst
  BY <1>1, <1>6 DEF RejectedFirst, RestOf, Straggler, restart
<1>9. ~WentOn BY <1>1, <1>5, <1>7 DEF WentOn
<1>10. Unanswered BY <1>2, <1>8, <1>9 DEF Talk, Answered
<1>11. chunk.try = Try(tx)
  <2>1. CASE rx.draining
    <3>1. chunk.seq = 0 BY <2>1, <1>1 DEF Straggler, restart
    <3>2. QED BY <3>1, <1>5
  <2>2. CASE ~rx.draining BY <2>2, <1>3, <1>6, <1>10 DEF Unanswered
  <2>3. QED BY <2>1, <2>2
<1>12. QED BY <1>2, <1>5, <1>10, <1>11

\* The first answer to an attempt keeps the acks in order.
LEMMA FirstAnswer ==
  ASSUME TypeInv, Exchange, tx' = tx, acks = <<>>, NEW a \in Ack,
         a.try = Try(tx), ~a.declined, acks' = acks \/ acks' = Append(acks, a)
  PROVE  /\ OneVerdict' /\ AckOfThisAttempt'
         /\ acks' # acks => acks' # <<>> /\ acks'[1] = a
         /\ \A i \in 1..Len(acks') : ~acks'[i].declined
<1>1. CASE acks' = acks BY <1>1 DEF OneVerdict, AckOfThisAttempt
<1>2. CASE acks' = Append(acks, a)
  <2>1. acks' = <<a>> BY <1>2
  <2>2. Len(acks') = 1 /\ acks'[1] = a /\ acks' # <<>> BY <2>1
  <2>3. \A i \in 1..Len(acks') : i = 1 BY <2>2
  <2>4. OneVerdict' BY <2>3 DEF OneVerdict
  <2>5. AckOfThisAttempt' BY <2>2, <2>3 DEF AckOfThisAttempt, Try
  <2>6. QED BY <2>2, <2>3, <2>4, <2>5
<1>3. QED BY <1>1, <1>2

\* Rejecting an attempt keeps the exchange.
LEMMA RejectExchange ==
  ASSUME TypeInv, Exchange, Streaming, Reject
  PROVE  Exchange'
<1> DEFINE a == [name |-> rx.file, ok |-> FALSE, declined |-> FALSE, try |-> chunk.try]
           again == [rx EXCEPT !.rejections = rx.rejections + 1, !.draining = TRUE]
<1>1. /\ Accepted /\ tx' = tx /\ frames' = Tail(frames) /\ frames # <<>> /\ rx.pc = "file"
      /\ SendAck(a, IF rx.rejections + 1 > maxFileRetries THEN RxNextFile ELSE again)
  BY DEF Reject, Accepted, HasChunk, TypeInv, TypeOK, RxState
<1>2. /\ Talk /\ Unanswered /\ chunk.try = Try(tx)
      /\ Flow(Tail(frames), tx) /\ RestOf(Tail(frames), tx)
      /\ ~(tx.pc = "stream" /\ tx.seq = 0)
  BY <1>1, AcceptedChunk
<1>3. /\ tx \in TxState /\ rx \in RxState /\ tx.attempt \in 0..1 /\ tx.file \in Nat
      /\ rx.file \in Nat
  BY DEF TypeInv, TypeOK, TxState, RxState, maxFileRetries
<1>4. a \in Ack /\ ~a.ok /\ ~a.declined /\ a.try = Try(tx)
  <2>1. chunk.try \in Attempt BY <1>1, ChunkFacts DEF Chunk
  <2>2. QED BY <2>1, <1>2, <1>3 DEF Ack
<1>5. \/ acks' = acks /\ rx' = RxFailed
      \/ /\ acks' = Append(acks, a)
         /\ rx' = IF rx.rejections + 1 > maxFileRetries THEN RxNextFile ELSE again
  BY <1>1 DEF SendAck, RxFailed
<1> HIDE DEF a
<1>6. acks = <<>> /\ rx.file = tx.file /\ rx.rejections = tx.attempt
  BY <1>2 DEF Unanswered
<1>7. /\ OneVerdict' /\ AckOfThisAttempt'
      /\ acks' # acks => acks' # <<>> /\ acks'[1] = a
      /\ \A i \in 1..Len(acks') : ~acks'[i].declined
  BY <1>1, <1>4, <1>5, <1>6, FirstAnswer
<1>8. acks' = Append(acks, a) => acks' # acks BY <1>6
<1>9. ASSUME ~RxEnded' PROVE Talk'
  <2>1. acks' = Append(acks, a) /\ acks' # <<>> /\ acks'[1] = a
        /\ rx' = IF rx.rejections + 1 > maxFileRetries THEN RxNextFile ELSE again
    BY <1>3, <1>5, <1>7, <1>8, <1>9 DEF RxFailed, RxEnded, RxState
  <2>2. CASE tx.attempt = 0
    <3>1. rx' = again BY <2>1, <2>2, <1>6 DEF maxFileRetries
    <3>2. rx'.pc = "file" /\ rx'.file = rx.file /\ rx'.rejections = 1 /\ rx'.draining
      BY <3>1, <2>2, <1>1, <1>3, <1>6 DEF RxState
    <3>3. Chunks' = Tail(frames) BY <3>2, <1>1 DEF Chunks
    <3>4. RejectedFirst'
      BY <3>2, <2>1, <2>2, <1>1, <1>2, <1>4, <1>6 DEF RejectedFirst
    <3>5. Answered' BY <3>4, <2>1, <1>1, <1>2 DEF Answered
    <3>6. QED BY <3>2, <3>3, <3>5, <1>1, <1>2, <1>7 DEF Talk
  <2>3. CASE tx.attempt = 1
    <3>1. rx' = RxNextFile BY <2>1, <2>3, <1>6 DEF maxFileRetries
    <3>2. rx.file # NumFiles BY <3>1, <1>3, <1>9 DEF RxNextFile, RxEnded, RxState
    <3>3. /\ rx'.pc = "file" /\ rx'.file = tx.file + 1 /\ rx'.rejections = 0
          /\ ~rx'.draining
      BY <3>1, <3>2, <1>6 DEF RxNextFile
    <3>4. Chunks' = Tail(frames) BY <3>3, <1>1 DEF Chunks
    <3>5. WentOn' BY <3>3, <2>1, <2>3, <1>1, <1>4 DEF WentOn
    <3>6. Answered' BY <3>5, <2>1, <1>1, <1>2 DEF Answered
    <3>7. QED BY <3>3, <3>4, <3>6, <1>1, <1>2, <1>7 DEF Talk
  <2>4. QED BY <2>2, <2>3, <1>3
<1>10. tx'.pc # "build" BY <1>1 DEF Streaming
<1>11. QED BY <1>7, <1>9, <1>10 DEF Exchange

\* Committing a file keeps the exchange: it was the last chunk on its way.
LEMMA CommitExchange ==
  ASSUME TypeInv, Exchange, Streaming, Commit
  PROVE  Exchange'
<1> DEFINE a == [name |-> rx.file, ok |-> TRUE, declined |-> FALSE, try |-> chunk.try]
<1>1. /\ Accepted /\ tx' = tx /\ frames' = Tail(frames) /\ frames # <<>> /\ rx.pc = "file"
      /\ SendAck(a, RxNextFile) /\ chunk.last
  BY DEF Commit, Accepted, HasChunk
<1>2. /\ Talk /\ Unanswered /\ chunk.try = Try(tx)
      /\ ~(tx.pc = "stream" /\ tx.seq = 0)
      /\ Tail(frames) = <<>> /\ tx.pc = "await"
  BY <1>1, AcceptedChunk
<1>3. /\ tx \in TxState /\ rx \in RxState /\ tx.file \in Nat /\ rx.file \in Nat
  BY DEF TypeInv, TypeOK, TxState, RxState
<1>4. a \in Ack /\ a.ok /\ ~a.declined /\ a.try = Try(tx) /\ a.name = rx.file
  <2>1. chunk.try \in Attempt BY <1>1, ChunkFacts DEF Chunk
  <2>2. QED BY <2>1, <1>2, <1>3 DEF Ack
<1>5. \/ acks' = acks /\ rx' = RxFailed
      \/ acks' = Append(acks, a) /\ rx' = RxNextFile
  BY <1>1 DEF SendAck, RxFailed
<1> HIDE DEF a
<1>6. acks = <<>> /\ rx.file = tx.file BY <1>2 DEF Unanswered
<1>7. /\ OneVerdict' /\ AckOfThisAttempt'
      /\ acks' # acks => acks' # <<>> /\ acks'[1] = a
      /\ \A i \in 1..Len(acks') : ~acks'[i].declined
  BY <1>1, <1>4, <1>5, <1>6, FirstAnswer
<1>8. acks' = Append(acks, a) => acks' # acks BY <1>6
<1>9. ASSUME ~RxEnded' PROVE Talk'
  <2>1. acks' # <<>> /\ acks'[1] = a /\ rx' = RxNextFile
    BY <1>3, <1>5, <1>7, <1>8, <1>9 DEF RxFailed, RxEnded, RxState
  <2>2. rx.file # NumFiles BY <2>1, <1>3, <1>9 DEF RxNextFile, RxEnded, RxState
  <2>3. rx'.pc = "file" /\ rx'.file = tx.file + 1 /\ rx'.rejections = 0 /\ ~rx'.draining
    BY <2>1, <2>2, <1>6 DEF RxNextFile
  <2>4. Chunks' = <<>> BY <2>3, <1>1, <1>2 DEF Chunks
  <2>5. WentOn' BY <2>1, <2>3, <1>1, <1>2, <1>4, <1>6 DEF WentOn
  <2>6. Answered' BY <2>1, <2>5, <1>1, <1>2 DEF Answered
  <2>7. Flow(Chunks, tx)'
    BY <2>4 DEF Flow, FlowNames, FlowOrder, FlowEnd, FlowStart
  <2>8. QED BY <2>3, <2>6, <2>7, <1>7 DEF Talk
<1>10. tx'.pc # "build" BY <1>1 DEF Streaming
<1>11. QED BY <1>7, <1>9, <1>10 DEF Exchange

\* Writing a chunk and swallowing a straggler keep the exchange.
LEMMA ConsumeExchange ==
  ASSUME TypeInv, Exchange, Streaming, Swallow \/ WritePart
  PROVE  Exchange'
<1>1. /\ tx' = tx /\ acks' = acks /\ frames' = Tail(frames) /\ frames # <<>>
      /\ rx.pc = "file"
  BY DEF Swallow, WritePart, Accepted, HasChunk
<1>2. rx \in RxState /\ frames \in Seq(Chunk) BY DEF TypeInv, TypeOK
<1>3. rx'.pc = "file" /\ rx'.file = rx.file /\ rx'.rejections = rx.rejections
  BY <1>1, <1>2 DEF Swallow, WritePart, RxState
<1>4. Talk BY <1>1 DEF Exchange, RxEnded
<1>5. Chunks = frames /\ Chunks' = Tail(frames) BY <1>1, <1>3 DEF Chunks
<1>6. Flow(Tail(frames), tx) BY <1>1, <1>2, <1>4, <1>5, FlowTail DEF Talk
<1>7. OneVerdict' /\ AckOfThisAttempt'
  BY <1>1 DEF Exchange, OneVerdict, AckOfThisAttempt, TxEnded, Streaming
<1>8. Unanswered' \/ Answered'
  <2>1. CASE WritePart
    <3>1. Unanswered /\ RestOf(Tail(frames), tx)
      BY <2>1, AcceptedChunk DEF WritePart
    <3>2. ~rx'.draining BY <2>1, <1>2 DEF WritePart, RxState
    <3>3. QED BY <3>1, <3>2, <1>1, <1>3, <1>5 DEF Unanswered, RestOf
  <2>2. CASE Swallow
    <3>1. rx.draining /\ rx' = rx BY <2>2 DEF Swallow, Straggler
    <3>2. CASE Unanswered BY <3>1, <3>2, <1>1 DEF Unanswered
    <3>3. CASE Answered
      <4>1. RejectedFirst BY <3>1, <3>3 DEF Answered, WentOn
      <4>2. \A i \in 1..Len(Tail(frames)) :
              Tail(frames)[i] = frames[i + 1] /\ i + 1 \in 1..Len(frames)
        BY <1>1, <1>2
      <4>3. RestOf(Tail(frames), tx) BY <4>1, <4>2 DEF RejectedFirst, RestOf
      <4>4. RejectedFirst' BY <4>1, <4>3, <3>1, <1>1 DEF RejectedFirst
      <4>5. QED BY <4>4, <3>3, <1>1 DEF Answered
    <3>4. QED BY <3>2, <3>3, <1>4 DEF Talk
  <2>3. QED BY <2>1, <2>2
<1>9. Talk' BY <1>1, <1>3, <1>4, <1>5, <1>6, <1>8 DEF Talk
<1>10. tx'.pc # "build" BY <1>1 DEF Streaming
<1>11. QED BY <1>7, <1>9, <1>10 DEF Exchange

\* Accepting the manifest keeps the exchange.
LEMMA OpenExchange ==
  ASSUME TypeInv, Exchange, Streaming, rx.pc = "manifest", frames # <<>>,
         rx' = [rx EXCEPT !.pc = "file"], acks' = acks, tx' = tx, frames' = Tail(frames)
  PROVE  Exchange'
<1>1. rx \in RxState BY DEF TypeInv, TypeOK
<1>2. /\ rx'.pc = "file" /\ rx'.file = rx.file /\ rx'.rejections = rx.rejections
      /\ rx'.draining = rx.draining
  BY <1>1 DEF RxState
<1>3. Talk BY DEF Exchange, RxEnded
<1>4. Chunks' = Chunks BY <1>2 DEF Chunks
<1>5. Unanswered BY <1>3 DEF Talk, Answered, RejectedFirst, WentOn
<1>6. Unanswered' BY <1>2, <1>4, <1>5 DEF Unanswered
<1>7. Talk' BY <1>2, <1>3, <1>4, <1>6 DEF Talk
<1>8. OneVerdict' /\ AckOfThisAttempt'
  BY DEF Exchange, OneVerdict, AckOfThisAttempt, TxEnded, Streaming
<1>9. QED BY <1>7, <1>8 DEF Exchange, Streaming

\* A step of the receiver keeps the exchange.
LEMMA RxExchange ==
  ASSUME TypeInv, Exchange, RxStep
  PROVE  Exchange'
<1>1. tx' = tx /\ ~RxEnded
  BY DEF RxStep, RecvManifest, Swallow, WrongName, Reject, Oversize, LocalFailure,
         WritePart, Commit, RecvCut, Accepted, HasChunk, RxEnded
<1>2. RecvCut \/ frames # <<>>
  BY DEF RxStep, RecvManifest, Swallow, WrongName, Reject, Oversize, LocalFailure,
         WritePart, Commit, Accepted, HasChunk
<1>3. ASSUME NEW t \in Attempt, NEW next, Decline(t, next),
             next = RxFailed \/ next = [rx EXCEPT !.pc = "ok"], frames # <<>>
      PROVE  Exchange'
  <2> DEFINE a == [name |-> 0, ok |-> FALSE, declined |-> TRUE, try |-> t]
  <2>1. a \in Ack /\ a.declined BY DEF Ack
  <2>2. acks' = acks \/ acks' = Append(acks, a) BY <1>3 DEF Decline, SendAck
  <2>3. rx' = RxFailed \/ rx' = [rx EXCEPT !.pc = "ok"]
    BY <1>3 DEF Decline, SendAck, RxFailed
  <2> HIDE DEF a
  <2>4. QED BY <2>1, <2>2, <2>3, <1>1, <1>3, EndExchange
<1>4. frames # <<>> => Head(frames).try \in Attempt /\ chunk.try \in Attempt
  BY ChunkFacts DEF Chunk
<1>5. CASE RecvCut
  <2> DEFINE a == [name |-> 0, ok |-> FALSE, declined |-> TRUE, try |-> <<0, 0>>]
  <2>1. a \in Ack /\ a.declined BY DEF Ack, Attempt
  <2> HIDE DEF a
  <2>2. QED BY <2>1, <1>1, <1>5, EndExchange DEF RecvCut
<1>6. CASE WrongName \/ Oversize \/ LocalFailure
  BY <1>3, <1>4, <1>6 DEF WrongName, Oversize, LocalFailure, Accepted, HasChunk
<1>7. CASE ~Streaming /\ ~RecvCut
  <2>1. TxEnded
    <3>1. tx.pc # "build" BY <1>2, <1>7 DEF Exchange, Silent
    <3>2. QED BY <3>1, <1>7 DEF TypeInv, TypeOK, TxState, Streaming, TxEnded
  <2>2. TxEnded' BY <2>1, <1>1 DEF TxEnded
  <2>3. QED BY <2>2 DEF Exchange, TxEnded, AckOfThisAttempt, Streaming
<1>8. CASE Streaming /\ (Reject \/ Commit \/ Swallow \/ WritePart)
  BY <1>8, RejectExchange, CommitExchange, ConsumeExchange
<1>9. CASE Streaming /\ RecvManifest
  <2>1. /\ rx.pc = "manifest" /\ frames # <<>> /\ frames' = Tail(frames)
        /\ \/ rx' = [rx EXCEPT !.pc = "file"] /\ acks' = acks
           \/ Decline(Head(frames).try, [rx EXCEPT !.pc = "ok"])
    BY <1>9 DEF RecvManifest
  <2>2. QED BY <2>1, <1>1, <1>3, <1>4, <1>9, OpenExchange
<1>10. QED BY <1>5, <1>6, <1>7, <1>8, <1>9 DEF RxStep

\* Every step keeps the exchange.
LEMMA ExchangeStep == TypeInv /\ Exchange /\ [Next]_vars => Exchange'
<1> SUFFICES ASSUME TypeInv, Exchange, [Next]_vars PROVE Exchange' OBVIOUS
<1>1. TypeInv' BY TypeStep
<1>2. CASE BuildManifest \/ SendManifest BY <1>2, ManifestExchange
<1>3. CASE StreamChunk BY <1>1, <1>3, StreamExchange
<1>4. CASE RecvAck BY <1>1, <1>4, AckExchange
<1>5. CASE StreamFails
  <2>1. tx'.pc = "failed" BY <1>5 DEF StreamFails, TypeInv, TypeOK, TxState
  <2>2. QED BY <2>1 DEF Exchange, TxEnded, AckOfThisAttempt, Streaming
<1>6. CASE RxStep BY <1>6, RxExchange
<1>7. CASE UNCHANGED <<tx, rx, frames, acks>>
  <2>1. Chunks' = Chunks /\ RxEnded' = RxEnded BY <1>7 DEF Chunks, RxEnded
  <2>2. Unanswered' = Unanswered BY <2>1, <1>7 DEF Unanswered
  <2>3. Answered' = Answered BY <1>7 DEF Answered, RejectedFirst, WentOn
  <2>4. Talk' = Talk BY <2>1, <2>2, <2>3, <1>7 DEF Talk
  <2>5. QED
    BY <2>1, <2>4, <1>7 DEF Exchange, Silent, OneVerdict, AckOfThisAttempt, Streaming, TxEnded
<1>8. QED
  BY <1>2, <1>3, <1>4, <1>5, <1>6, <1>7
     DEF Next, TxStep, SessionOver, FinishWorker, Edit, Done, vars

\* An ack on its way to a running SendReports is for the attempt it is making,
\* however many chunks the routing channel dropped and wherever a receiver
\* rejected, gave up or was cut off.
THEOREM AckCorrect == Spec => []AckOfThisAttempt
<1>1. Exchange => AckOfThisAttempt BY DEF Exchange
<1>2. QED BY TypeInit, TypeStep, ExchangeInit, ExchangeStep, <1>1, PTL DEF Spec
=============================================================================
