CONSTANTS
  p = p  t = t  ann = ann  bob = bob
  space = space  account = account  name = name  amount = amount
  Entity = {space, account}
  Field = {name, amount}
  DELETED_FIELD = deleted
  MaxHlc = 4
  Device = {p, t}
  User = {ann}
  UserOf <- OneUser
  Op <- Joining
  SpaceRow = space
  Creation <- Create
  PushChunk = 2
  PageSize = 1
  PushTries = 2
  Pullers = {t}
  Flushers = {}
  Refusable = {}
  LeaveMidRound = FALSE
  MaxMoves = 0
  MaxFaults = 0
SPECIFICATION Spec
INVARIANTS CursorSound
