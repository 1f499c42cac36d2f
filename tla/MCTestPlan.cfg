SPECIFICATION Spec
CONSTANTS
  Absent = Absent
  Confs <- MCConfs
  Repeats = 2
  MaxCycles = 2
  MaxAnomalies = 2
INVARIANTS
  TypeOK
  CleanMeansMeasured
  CorruptionReported
  NoFalseConviction
  OneBadTrial
  WindowAccounted
PROPERTY NeverUpgraded
