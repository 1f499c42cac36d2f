--------------------------- MODULE ReportTransfer ---------------------------
(***************************************************************************)
(* The report transfer of internal/reporting: SendReports on PC1, which    *)
(* builds a manifest and streams each file in chunks, and ReceiveReports   *)
(* on PC2, which verifies each file and acks it, with the one retry per    *)
(* file.  Both run as callbacks beside their session loops; the frames     *)
(* reach PC2's callback through the bounded routing channel of             *)
(* peer/transfer.go.                                                       *)
(*                                                                         *)
(* A file is named by its position in allowedReportFiles; all of them      *)
(* exist, because the plan renders the whole set before the session may    *)
(* start a transfer.  The last one is summary.txt.  The digest of a        *)
(* content is the content itself: SHA-256 is taken to be injective.  The   *)
(* wire and the routing channel are one queue.  Frames that SendReports    *)
(* never sends (a second manifest, a foreign name) are left out.           *)
(***************************************************************************)
EXTENDS Naturals, Sequences

CONSTANTS
  NumFiles,             \* length of allowedReportFiles
  Content,              \* the contents a report file may have
  Absent,               \* "no such file"
  Fallback,             \* content of the worker's own summary.txt
  ChunkSize, MaxTransferFileSize, MaxTransferTotal,
  transferBufferSize,   \* capacity of the routing channel
  MaxEdits,             \* bound: rewrites of PC1's files by another process
  MayFail,              \* whether a local file operation may fail
  MayAbort              \* whether the session may end in mid-transfer

ASSUME FilesAssumption == NumFiles \in Nat \ {0}
ASSUME ContentAssumption == Content # {} /\ Content \subseteq Seq(Nat)
ASSUME SentinelAssumption ==
  Absent \notin Seq(Nat) /\ Fallback \notin Seq(Nat) /\ Absent # Fallback
ASSUME SizeAssumption ==
  /\ ChunkSize \in Nat \ {0} /\ transferBufferSize \in Nat \ {0}
  /\ MaxTransferFileSize \in Nat /\ MaxTransferTotal \in Nat /\ MaxEdits \in Nat
ASSUME SwitchAssumption == MayFail \in BOOLEAN /\ MayAbort \in BOOLEAN

File == 1..NumFiles
Side == {"PC1", "PC2"}
maxFileRetries == 1

VARIABLES
  disk,      \* PC1's report directory
  edits,     \* rewrites of it so far
  declared,  \* Manifest.Files: size and digest of each file, as its content
  tx,        \* the SendReports goroutine
  rx,        \* the ReceiveReports goroutine
  part,      \* the open <name>.part, or Absent
  stored,    \* PC2's report directory
  frames,    \* manifest and chunks on their way to rx
  acks,      \* acks on their way to tx
  over,      \* the sides whose session context has ended
  finished   \* PC2 has left finishWorker

vars == <<disk, edits, declared, tx, rx, part, stored, frames, acks, over,
          finished>>

\* "try" is history: the file and attempt a frame or an ack belongs to.
Attempt == Nat \X Nat
Chunk == [name : Nat, seq : Nat, off : Nat, data : Seq(Nat), last : BOOLEAN,
          try : Attempt]
Ack == [name : Nat, ok : BOOLEAN, declined : BOOLEAN, try : Attempt]
ManifestFrame == [name |-> 0, seq |-> 0, off |-> 0, data |-> <<>>,
                  last |-> FALSE, try |-> <<0, 0>>]

TxState == [pc : {"build", "stream", "await", "ok", "declined", "failed"},
            file : Nat, attempt : 0..maxFileRetries, seq : Nat, off : Nat,
            total : Nat]
RxState == [pc : {"manifest", "file", "ok", "error"}, file : Nat,
            draining : BOOLEAN, rejections : Nat]

TxEnded == tx.pc \in {"ok", "declined", "failed"}
RxEnded == rx.pc \in {"ok", "error"}

Init ==
  /\ disk \in [File -> Content]
  /\ edits = 0
  /\ declared = [k \in File |-> Absent]
  /\ tx = [pc |-> "build", file |-> 1, attempt |-> 0, seq |-> 0, off |-> 0,
           total |-> 0]
  /\ rx = [pc |-> "manifest", file |-> 1, draining |-> FALSE, rejections |-> 0]
  /\ part = Absent
  /\ stored = [k \in File |-> Absent]
  /\ frames = <<>>
  /\ acks = <<>>
  /\ over = {}
  /\ finished = FALSE

-----------------------------------------------------------------------------
(* PC1: SendReports                                                        *)

\* routeTransferFrame: a frame for a callback that has returned is dropped as
\* a straggler, one that finds the channel full is dropped with a warning.
Route(f) ==
  frames' = IF RxEnded \/ Len(frames) >= transferBufferSize THEN frames
            ELSE Append(frames, f)

\* BuildManifest, one file per step: size and digest, and the per-file cap.
BuildManifest ==
  /\ tx.pc = "build" /\ tx.file <= NumFiles
  /\ LET size == Len(disk[tx.file])
     IN IF size > MaxTransferFileSize
        THEN tx' = [tx EXCEPT !.pc = "failed"] /\ UNCHANGED declared
        ELSE /\ declared' = [declared EXCEPT ![tx.file] = disk[tx.file]]
             /\ tx' = [tx EXCEPT !.file = @ + 1, !.total = @ + size]
  /\ UNCHANGED <<disk, edits, rx, part, stored, frames, acks, over, finished>>

\* The total cap, then the manifest goes out.
SendManifest ==
  /\ tx.pc = "build" /\ tx.file > NumFiles
  /\ IF tx.total > MaxTransferTotal
     THEN tx' = [tx EXCEPT !.pc = "failed"] /\ UNCHANGED frames
     ELSE /\ tx' = [tx EXCEPT !.pc = "stream", !.file = 1]
          /\ Route(ManifestFrame)
  /\ UNCHANGED <<disk, edits, declared, rx, part, stored, acks, over, finished>>

\* io.ReadFull of one chunk; a short read marks the last one, so a file of an
\* exact multiple of ChunkSize ends with an empty chunk.
ReadChunk ==
  LET upto == IF Len(disk[tx.file]) < tx.off + ChunkSize
              THEN Len(disk[tx.file]) ELSE tx.off + ChunkSize
      data == SubSeq(disk[tx.file], tx.off + 1, upto)
  IN [name |-> tx.file, seq |-> tx.seq, off |-> tx.off, data |-> data,
      last |-> Len(data) < ChunkSize, try |-> <<tx.file, tx.attempt>>]

StreamChunk ==
  /\ tx.pc = "stream"
  /\ Route(ReadChunk)
  /\ tx' = IF ReadChunk.last THEN [tx EXCEPT !.pc = "await"]
           ELSE [tx EXCEPT !.seq = @ + 1, !.off = @ + Len(ReadChunk.data)]
  /\ UNCHANGED <<disk, edits, declared, rx, part, stored, acks, over, finished>>

\* os.Open or a read fails, or the context is done: the transfer is given up.
StreamFails ==
  /\ \/ MayFail /\ tx.pc = "stream"
     \/ "PC1" \in over /\ ~TxEnded
  /\ tx' = [tx EXCEPT !.pc = "failed"]
  /\ UNCHANGED <<disk, edits, declared, rx, part, stored, frames, acks, over,
                 finished>>

NextFile ==
  IF tx.file = NumFiles THEN [tx EXCEPT !.pc = "ok"]
  ELSE [tx EXCEPT !.pc = "stream", !.file = @ + 1, !.attempt = 0, !.seq = 0,
                  !.off = 0]
RetryTwice ==
  IF tx.attempt <= maxFileRetries
  THEN [tx EXCEPT !.pc = "stream", !.attempt = @ + 1, !.seq = 0, !.off = 0]
  ELSE [tx EXCEPT !.pc = "failed"]
\* streamFileChunks starts over: sequence and offset are its locals.
Retry ==
  IF tx.attempt < maxFileRetries
  THEN [tx EXCEPT !.pc = "stream", !.attempt = @ + 1, !.seq = 0, !.off = 0]
  ELSE [tx EXCEPT !.pc = "failed"]

\* sendOneFile after the stream: exactly one ack is read per attempt.
RecvAck ==
  /\ tx.pc = "await" /\ acks # <<>>
  /\ LET a == Head(acks)
     IN tx' = IF a.declined THEN [tx EXCEPT !.pc = "declined"]
              ELSE IF a.ok /\ a.name = tx.file THEN NextFile ELSE Retry
  /\ acks' = Tail(acks)
  /\ UNCHANGED <<disk, edits, declared, rx, part, stored, frames, over, finished>>

-----------------------------------------------------------------------------
(* PC2: ReceiveReports                                                     *)

\* SendAck; once the session has ended the write may fail, which ends the
\* callback with an error.
SendAck(a, next) ==
  \E sent \in (IF "PC2" \in over THEN BOOLEAN ELSE {TRUE}) :
    /\ acks' = IF sent THEN Append(acks, a) ELSE acks
    /\ rx' = IF sent THEN next ELSE [rx EXCEPT !.pc = "error"]

RxFailed == [rx EXCEPT !.pc = "error"]
RxNextFile ==
  IF rx.file = NumFiles THEN [rx EXCEPT !.pc = "ok"]
  ELSE [pc |-> "file", file |-> rx.file + 1, draining |-> FALSE, rejections |-> 0]

Decline(try, next) ==
  SendAck([name |-> 0, ok |-> FALSE, declined |-> TRUE, try |-> try], next)

\* The receiver's own check of the caps; the declared total is the sum.
validateManifest ==
  /\ \A k \in File : Len(declared[k]) <= MaxTransferFileSize
  /\ tx.total <= MaxTransferTotal

\* The opening frame: an invalid manifest or a directory that is not writable
\* is declined, which is a clean end of the callback.
RecvManifest ==
  /\ rx.pc = "manifest" /\ frames # <<>>
  /\ \/ validateManifest /\ rx' = [rx EXCEPT !.pc = "file"] /\ UNCHANGED acks
     \/ /\ ~validateManifest \/ MayFail
        /\ Decline(Head(frames).try, [rx EXCEPT !.pc = "ok"])
  /\ frames' = Tail(frames)
  /\ UNCHANGED <<disk, edits, declared, tx, part, stored, over, finished>>

\* receiveOneFile: the chunk at the head of the channel, and what it means.
chunk == Head(frames)
HasChunk == rx.pc = "file" /\ frames # <<>>
restart == chunk.seq = 0 /\ chunk.off = 0
Straggler == rx.draining /\ ~restart
\* The .part after a restart has truncated it.
Open == IF restart THEN <<>> ELSE part
InOrder == Open # Absent /\ chunk.off = Len(Open)
FitsAtLast == ~chunk.last \/ Len(Open) + Len(chunk.data) <= Len(declared[rx.file])
Fits == Len(chunk.data) <= ChunkSize /\ Len(Open) + Len(chunk.data) <= Len(declared[rx.file])
SizeVerified == Len(Open) + Len(chunk.data) = Len(declared[rx.file])
Verified == Open \o chunk.data = declared[rx.file]

Swallow ==
  /\ HasChunk /\ Straggler
  /\ frames' = Tail(frames)
  /\ UNCHANGED <<disk, edits, declared, tx, rx, part, stored, acks, over, finished>>

\* A chunk of another file: fatal, the whole manifest is declined.
WrongName ==
  /\ HasChunk /\ ~Straggler /\ chunk.name # rx.file
  /\ Decline(chunk.try, RxFailed)
  /\ part' = Absent
  /\ frames' = Tail(frames)
  /\ UNCHANGED <<disk, edits, declared, tx, stored, over, finished>>

Accepted == HasChunk /\ ~Straggler /\ chunk.name = rx.file

RejectNoDrain ==
  /\ Accepted /\ (~InOrder \/ (InOrder /\ Fits /\ chunk.last /\ ~Verified))
  /\ SendAck([name |-> rx.file, ok |-> FALSE, declined |-> FALSE, try |-> chunk.try],
             IF rx.rejections + 1 > maxFileRetries THEN RxNextFile
             ELSE [rx EXCEPT !.rejections = @ + 1])
  /\ part' = Absent
  /\ frames' = Tail(frames)
  /\ UNCHANGED <<disk, edits, declared, tx, stored, over, finished>>
\* reject: one ack for the attempt, then its stragglers are drained; after
\* the sender's last attempt the next manifest file is expected.
Reject ==
  /\ Accepted
  /\ ~InOrder \/ (InOrder /\ Fits /\ chunk.last /\ ~Verified)
  /\ SendAck([name |-> rx.file, ok |-> FALSE, declined |-> FALSE, try |-> chunk.try],
             IF rx.rejections + 1 > maxFileRetries THEN RxNextFile
             ELSE [rx EXCEPT !.rejections = @ + 1, !.draining = TRUE])
  /\ part' = Absent
  /\ frames' = Tail(frames)
  /\ UNCHANGED <<disk, edits, declared, tx, stored, over, finished>>

\* More bytes than declared: fatal.
Oversize ==
  /\ Accepted /\ InOrder /\ ~Fits
  /\ Decline(chunk.try, RxFailed)
  /\ part' = Absent
  /\ frames' = Tail(frames)
  /\ UNCHANGED <<disk, edits, declared, tx, stored, over, finished>>

FailSilently ==
  /\ MayFail /\ Accepted /\ (restart \/ (InOrder /\ Fits))
  /\ rx' = RxFailed
  /\ part' = Absent
  /\ frames' = Tail(frames)
  /\ UNCHANGED <<disk, edits, declared, tx, stored, acks, over, finished>>
\* declineOnLocalFailure: the .part cannot be opened, written or committed.
LocalFailure ==
  /\ MayFail /\ Accepted
  /\ restart \/ (InOrder /\ Fits)
  /\ Decline(chunk.try, RxFailed)
  /\ part' = Absent
  /\ frames' = Tail(frames)
  /\ UNCHANGED <<disk, edits, declared, tx, stored, over, finished>>

WritePart ==
  /\ Accepted /\ InOrder /\ Fits /\ ~chunk.last
  /\ part' = Open \o chunk.data
  /\ rx' = [rx EXCEPT !.draining = FALSE]
  /\ frames' = Tail(frames)
  /\ UNCHANGED <<disk, edits, declared, tx, stored, acks, over, finished>>

\* The last chunk of an intact file: rename the .part, then ack.
Commit ==
  /\ Accepted /\ InOrder /\ Fits /\ chunk.last /\ Verified
  /\ stored' = [stored EXCEPT ![rx.file] = Open \o chunk.data]
  /\ part' = Absent
  /\ SendAck([name |-> rx.file, ok |-> TRUE, declined |-> FALSE, try |-> chunk.try],
             RxNextFile)
  /\ frames' = Tail(frames)
  /\ UNCHANGED <<disk, edits, declared, tx, over, finished>>

AbandonPart ==
  /\ "PC2" \in over /\ ~RxEnded
  /\ rx' = RxFailed
  /\ UNCHANGED <<disk, edits, declared, tx, part, stored, frames, acks, over, finished>>
\* RecvFrame returns because the session ended, whatever is still queued.
RecvCut ==
  /\ "PC2" \in over /\ ~RxEnded
  /\ rx' = RxFailed
  /\ part' = Absent
  /\ UNCHANGED <<disk, edits, declared, tx, stored, frames, acks, over, finished>>

RxStep == \/ RecvManifest \/ Swallow \/ WrongName \/ Reject \/ Oversize
          \/ LocalFailure \/ WritePart \/ Commit \/ RecvCut
TxStep == BuildManifest \/ SendManifest \/ StreamChunk \/ RecvAck \/ StreamFails

-----------------------------------------------------------------------------
(* The sessions around the callbacks                                       *)

\* A session context ends: after the sender is done PC1 sends its complete
\* and both sides tear down; before that, on Ctrl+C or a lost connection.
SessionOver(s) ==
  /\ s \notin over
  /\ MayAbort \/ TxEnded
  /\ over' = over \cup {s}
  /\ UNCHANGED <<disk, edits, declared, tx, rx, part, stored, frames, acks, finished>>

reportTransferred == \A k \in File : stored[k] # Absent
writeWorkerSummary == stored' = [stored EXCEPT ![NumFiles] = Fallback]

FinishUnjoined ==
  /\ ~finished /\ "PC2" \in over
  /\ finished' = TRUE
  /\ \/ (reportTransferred \/ MayFail) /\ UNCHANGED stored
     \/ ~reportTransferred /\ writeWorkerSummary
  /\ UNCHANGED <<disk, edits, declared, tx, rx, part, frames, acks, over>>
\* finishWorker: Run has returned, so the callback is joined; the fallback
\* summary is written unless the whole set is there, and a failure to write it
\* is only logged.
FinishWorker ==
  /\ ~finished /\ "PC2" \in over /\ RxEnded
  /\ finished' = TRUE
  /\ \/ (reportTransferred \/ MayFail) /\ UNCHANGED stored
     \/ ~reportTransferred /\ writeWorkerSummary
  /\ UNCHANGED <<disk, edits, declared, tx, rx, part, frames, acks, over>>

\* Another process (regenerate) rewrites one of PC1's report files.
Edit ==
  /\ edits < MaxEdits /\ ~TxEnded
  /\ edits' = edits + 1
  /\ \E k \in File, v \in Content : disk' = [disk EXCEPT ![k] = v]
  /\ UNCHANGED <<declared, tx, rx, part, stored, frames, acks, over, finished>>

Done == TxEnded /\ RxEnded /\ finished /\ UNCHANGED vars

Next == TxStep \/ RxStep \/ (\E s \in Side : SessionOver(s)) \/ FinishWorker
        \/ Edit \/ Done

Spec == Init /\ [][Next]_vars

\* Both callbacks run, a cancelled stream is noticed, and a session that ended
\* on one side ends on the other (EndSpreads of Session).
FairSpec ==
  /\ Spec
  /\ WF_vars(BuildManifest \/ SendManifest \/ StreamChunk \/ RecvAck)
  /\ WF_vars("PC1" \in over /\ StreamFails)
  /\ WF_vars(RxStep)
  /\ WF_vars(over # {} /\ SessionOver("PC1"))
  /\ WF_vars((over # {} \/ TxEnded) /\ SessionOver("PC2"))
  /\ WF_vars(FinishWorker)

-----------------------------------------------------------------------------
(* Properties                                                              *)

TypeOK ==
  /\ disk \in [File -> Content]
  /\ edits \in Nat
  /\ declared \in [File -> Content \cup {Absent}]
  /\ tx \in TxState
  /\ rx \in RxState
  /\ part \in Seq(Nat) \cup {Absent}
  /\ stored \in [File -> Content \cup {Absent, Fallback}]
  /\ frames \in Seq(Chunk)
  /\ acks \in Seq(Ack)
  /\ over \in SUBSET Side
  /\ finished \in BOOLEAN

\* However ReceiveReports ends, it leaves no .part file behind: every early
\* return of receiveOneFile runs cleanup first.
NothingPartial == RxEnded => part = Absent

\* The .part on disk never exceeds the declared size, on any chunk and not
\* only on the last, also when PC1's file grows while it is streamed.
PartBounded == part # Absent => Len(part) <= Len(declared[rx.file])

\* An ack on its way to a running sender is for the very attempt the sender is
\* making: stragglers of a rejected attempt are not acked again, so the
\* verdict of one attempt is never taken for that of the next.
AckOfThisAttempt ==
  ~TxEnded => \A i \in 1..Len(acks) :
                acks[i].declined \/ acks[i].try = <<tx.file, tx.attempt>>

\* A file of PC1 that was verified and stored at PC2 is never replaced, in
\* particular not by finishWorker's fallback summary.
VerifiedKept == [][\A k \in File : stored[k] # Absent => stored'[k] = stored[k]]_vars

\* The transfer and the worker end: a retry, a decline or a local failure on
\* either side never leaves the sender waiting for an ack that will not come.
\* Only a frame that found the channel full could (TransferNeverDrops of
\* Session: with the channel's real size none does).
TransferEnds ==
  <>(Len(frames) >= transferBufferSize) \/ <>(TxEnded /\ RxEnded /\ finished)

\* The transfer implements FileDelivery: what arrives is what was declared,
\* in order, and the sender succeeds only if everything arrived.
FD == INSTANCE FileDelivery WITH
        verdict <- IF TxEnded THEN tx.pc ELSE "open"
Delivery == FD!Spec
=============================================================================
