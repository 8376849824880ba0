CONSTANTS
  User = {1, 2, 3}
  Space = {s}
  Feed = {}
  NoSpace = NoSpace
  Befriended = {{1, 2}, {1, 3}}
  Assignable = {"owner", "contributor"}
  MayVanish = {2}
  InviteId = {1}
  Overlap = {"role", "remove"}
  MaxInFlight = 2
  MaxSeq = 0
CHECK_DEADLOCK FALSE
SPECIFICATION Spec
PROPERTIES NeverOwnerless GoneIsGone
