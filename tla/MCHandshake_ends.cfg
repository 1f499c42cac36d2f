SPECIFICATION FairSpec
CONSTANTS
  PC2 = PC2
  NoCaller = NoCaller
  s1 = s1
  s2 = s2
  s3 = s3
  Stranger = {s1}
  StrangerFrame <- MCFrames
  MaySkew = TRUE
  MayCancel = TRUE
  LagBounded = FALSE
  MaxLag = 0
  HelloTimeout = 1
  HandshakeTimeout = 1
  dialRetryDelay = 1
  dialTotalBudget = 1
  maxAuthStrikes = 2
  maxHandshakeRetries = 2
CHECK_DEADLOCK FALSE
INVARIANTS
  SameSession
  DiagnosisTrue
PROPERTIES
  Settles
  CancelEnds
