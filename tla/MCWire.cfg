SPECIFICATION Spec
CONSTANTS
  w1 = w1
  w2 = w2
  Writer = {w1, w2}
  Heartbeater = Heartbeater
  NoWriter = NoWriter
  HandshakeFrames = 2
  dedupRingSize = 2
  Interval = 5
  IdleTimeout = 20
  MaxDelay = 3
  MaxSeq = 7
SYMMETRY MCSymmetry
CHECK_DEADLOCK FALSE
INVARIANTS
  NoneDropped
  NeverIdle
