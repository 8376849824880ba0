CONSTANTS
  p = p  b = b  j1 = j1  j2 = j2  x = x  y = y
  Held = {p}
  Booked = {b}
  Job = {j1, j2}
  Call = {x, y}
  Faults = {"outrun"}
  MaxContent = 1
  MaxFaults = 1
CHECK_DEADLOCK FALSE
SPECIFICATION Spec
INVARIANT MirrorRemembered
