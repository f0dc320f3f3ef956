CONSTANTS
  TIME_INDEX = 3
  SmRouterCount = 2
  TcpPacket = {p1, p2, p3}
  NoTcpPacket = NoTcpPacket
  EodSec = 4
  EodSlots = 4
  SleepSec = 6
  MaxWriteDelay = 1
  MaxReadLag = 1
  FirstSec = 3
  MaxSec = 19
SPECIFICATION SmRingSpec
INVARIANTS SmRingInv NothingLost SecondsInOrder
SYMMETRY PacketSymmetry
CHECK_DEADLOCK FALSE
