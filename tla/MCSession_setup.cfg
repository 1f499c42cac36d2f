SPECIFICATION Spec
CONSTANTS
  NonInteractive <- BothRoles
  Interruptible <- NoRole
  LinkMayFail = FALSE
  BaseOps <- OnlyTest
  MaxCalls = 2
  Soak = TRUE
  SetupCalls = 2
  Cable = FALSE
  SendReports = FALSE
  HasReceiver = FALSE
  MaxChunks = 1
  TransferBuffer = 1
INVARIANTS
  CancelMeansTeardown
