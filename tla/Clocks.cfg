CONSTANTS
  a = a  b = b
  Device = {1, 2}
  Tab = {a, b}
  DeviceOf <- Apart
  MaxCounter = 1
  MaxWall = 2
  MaxStamps = 3
SPECIFICATION Spec
INVARIANTS TypeOK StampsUnique
PROPERTIES DeviceStampsIncrease FuturePassed
