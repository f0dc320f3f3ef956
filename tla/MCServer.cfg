CONSTANTS
  Line <- MCLine
  FileLen = 3
  Numeral <- MCNumeral
  Subnet <- MCSubnet
  Kind = {"timer", "router", "tcpSM", "udpSM", "unmSM", "tcpFl", "unmFl",
          "tcpAgent", "stats", "log"}
  MaxLate = 1
  MaxSignals = 2
  Payload = {2}
  HeaderSize = 1
  SmallSize = 2
  MinCleanFrames = 2
  SeriesLen = 4
  VPS_PACKET_PER_SEC = 0
  SESSION_PKT_LIMIT = 3
  SESSION_TIME_LIMIT = 2
  MaxLag = 1
  FirstSec = 3
  LastSec = 6
SPECIFICATION Spec
\* The server exits, a file has been read, the clock stops: the runs end.
CHECK_DEADLOCK FALSE
INVARIANTS StopsDownstream LoadedAsWritten SeriesAddUp TimesInOrder
PROPERTIES StopsWhenTold
