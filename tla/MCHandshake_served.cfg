SPECIFICATION Spec
CONSTANTS
  PC2 = PC2
  NoCaller = NoCaller
  s1 = s1
  s2 = s2
  s3 = s3
  Stranger = {s1, s2, s3}
  StrangerFrame <- MCFrames
  MaySkew = FALSE
  MayCancel = FALSE
  LagBounded = TRUE
  MaxLag = 1
  HelloTimeout = 2
  HandshakeTimeout = 6
  dialRetryDelay = 1
  dialTotalBudget = 3
  maxAuthStrikes = 2
  maxHandshakeRetries = 2
SYMMETRY MCSymmetry
CHECK_DEADLOCK FALSE
INVARIANTS
  WorkerServed
