SPECIFICATION FairSpec
CONSTANTS
  NonInteractive <- BothRoles
  Interruptible <- OnlyPC2
  LinkMayFail = TRUE
  BaseOps <- OnlyTest
  MaxCalls = 1
  Soak = FALSE
  SetupCalls = 1
  Cable = TRUE
  SendReports = TRUE
  HasReceiver = TRUE
  MaxChunks = 2
  TransferBuffer = 3
INVARIANTS
  CompletionAgreed
  TransferNeverDrops
  VerdictNotRefused
  CarrierLossCovered
  WindowReleased
PROPERTIES
  SessionEnds
  EndSpreads
