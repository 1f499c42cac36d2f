\* Any command: a grandchild, ignored signals, sudo, a timeout racing a cancel.
CONSTANTS
  MaxOutputBytes = 1
  MaxWritten = 2
  MayBePrivileged = TRUE
SPECIFICATION FairSpec
INVARIANTS GroupGone TimeoutIsTimeout
PROPERTY Ends
