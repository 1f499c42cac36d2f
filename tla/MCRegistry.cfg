\* Two runs and a user, every step of a scan interleaved with the others.
CONSTANTS
  r1 = r1
  r2 = r2
  Runs = {r1, r2}
  p1 = p1
  p2 = p2
  p3 = p3
  Pids = {p1, p2, p3}
  MaxStarts = 5
SPECIFICATION Spec
SYMMETRY Symmetry
INVARIANTS OnlyOwnReported SurvivorsRecorded EndsClean
CHECK_DEADLOCK FALSE
