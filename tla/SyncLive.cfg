CONSTANTS
  p = p  t = t  ann = ann  bob = bob
  space = space  account = account  name = name  amount = amount
  Entity = {space, account}
  Field = {name, amount}
  DELETED_FIELD = deleted
  MaxHlc = 4
  Device = {p, t}
  User = {ann, bob}
  UserOf <- TwoUsers
  Op <- Small
  SpaceRow = space
  Creation <- Create
  PushChunk = 2
  PageSize = 1
  PushTries = 2
  Pullers = {}
  Flushers = {}
  Refusable <- TitleOnly
  LeaveMidRound = FALSE
  MaxMoves = 3
  MaxFaults = 1
SPECIFICATION FairSpec
PROPERTIES OutboxDrains EventuallyConsistent
