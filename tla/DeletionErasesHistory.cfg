CONSTANTS
  User = {1, 2}
  Space = {s}
  Feed = {f}
  NoSpace = NoSpace
  Befriended = {{1, 2}}
  Assignable = {"owner", "contributor"}
  Overlap = {}
  MayVanish = {1}
  InviteId = {1}
  MaxInFlight = 1
  MaxSeq = 1
CHECK_DEADLOCK FALSE
SPECIFICATION Spec
PROPERTY KeepsReadHistory
