CONSTANTS
  User = {1, 2}
  Space = {s}
  Feed = {f}
  NoSpace = NoSpace
  Befriended = {{1, 2}}
  Assignable = {"owner"}
  Overlap = {"attach", "saved", "leave", "erase"}
  MayVanish = {}
  InviteId = {1}
  MaxInFlight = 2
  MaxSeq = 1
CHECK_DEADLOCK FALSE
SPECIFICATION Spec
INVARIANT TypeOK
PROPERTIES FrozenAfterLeave NothingNewWhenArchived StaysCoherent RevokesMineOnly DeletionTold
