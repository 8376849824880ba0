CONSTANTS
  p = p  b = b  j1 = j1  j2 = j2  j3 = j3  x = x  y = y
  Held = {p}
  Booked = {b}
  Job = {j1, j2, j3}
  Call = {x}
  Faults = {"crash", "outrun", "partial", "failed", "unacked"}
  MaxContent = 2
  MaxFaults = 2
CHECK_DEADLOCK FALSE
SPECIFICATION FairSpec
PROPERTIES EveryRowLands GoneGoes
