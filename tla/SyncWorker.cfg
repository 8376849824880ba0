CONSTANTS
  p = p  t = t  ann = ann  bob = bob
  space = space  account = account  name = name  amount = amount
  Entity = {space, account}
  Field = {name, amount}
  DELETED_FIELD = deleted
  MaxHlc = 4
  Device = {p, t}
  User = {ann}
  UserOf <- OneUser
  Op <- Small
  SpaceRow = space
  Creation <- Create
  PushChunk = 2
  PageSize = 2
  PushTries = 2
  Pullers = {p}
  Flushers = {p}
  Refusable <- TitleOnly
  LeaveMidRound = FALSE
  MaxMoves = 0
  MaxFaults = 1
SPECIFICATION Spec
INVARIANTS NothingLost CursorSound Converged
PROPERTY LogAppendOnly
