SPECIFICATION Spec
CONSTANTS
  NonInteractive <- OnlyPC2
  Interruptible <- OnlyPC1
  LinkMayFail = TRUE
  BaseOps <- TestAndCancel
  MaxCalls = 3
  Soak = TRUE
  SetupCalls = 1
  Cable = TRUE
  SendReports = TRUE
  HasReceiver = FALSE
  MaxChunks = 3
  TransferBuffer = 4
INVARIANTS
  TypeOK
  AbortReasonTrue
  FinalStateEntered
  NoProtocolError
  ResultIsOfThisCall
  WorkerIdleAtCompletion
