SPECIFICATION FairSpec
CONSTANTS
  NumFiles = 2
  Content <- Contents
  Absent = Absent
  Fallback = Fallback
  ChunkSize = 1
  MaxTransferFileSize = 4
  MaxTransferTotal = 7
  transferBufferSize = 3
  MaxEdits = 1
  MayFail = TRUE
  MayAbort = TRUE
INVARIANTS
  TypeOK
  NothingPartial
  PartBounded
  AckOfThisAttempt
PROPERTIES
  VerifiedKept
  Delivery
  TransferEnds
