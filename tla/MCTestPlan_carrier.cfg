SPECIFICATION Spec
CONSTANTS
  Absent = Absent
  Confs <- MCCarrierConfs
  Repeats = 2
  MaxCycles = 2
  MaxAnomalies = 2
INVARIANT GenuineCarrierReported
