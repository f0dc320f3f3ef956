CONSTANTS
  TIME_INDEX = 4
  RouterCount = 1
  maxPktPerRouter = 2
  Packet = {p1, p2, p3}
  NoPacket = NoPacket
  MaxWriteDelay = 1
  MaxReadLag = 2
  FirstSec = 2
  LastSendSec = 6
  MaxSec = 9
SPECIFICATION FairSpec
INVARIANTS SlotExclusion DrainsOnlyThePast
PROPERTIES DropOnlyWhenFull ImplementsChannel EveryPacketRouted
CHECK_DEADLOCK FALSE
