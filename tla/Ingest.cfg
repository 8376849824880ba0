CONSTANTS
  p = p  b = b  j1 = j1  j2 = j2  x = x  y = y
  Held = {p}
  Booked = {b}
  Job = {j1, j2}
  Call = {x, y}
  Faults = {"crash", "outrun", "partial", "failed", "unacked"}
  MaxContent = 2
  MaxFaults = 1
SYMMETRY Alike
CHECK_DEADLOCK FALSE
SPECIFICATION Spec
INVARIANT TypeOK
PROPERTIES AckedIsFiled NeverBackwards OnlyGoneDies PersonStands
