CONSTANTS
  Flow = {f1, f2}
  NoFlow = NoFlow
  PoolSize = 1
  SESSION_PKT_LIMIT = 3
  SESSION_TIME_LIMIT = 2
  UDP_CLEAN_UP_TIMEOUT_SEC = 1
  VPS_PACKET_PER_SEC = 0
  MaxLag = 1
  MaxSkew = 1
  FirstSec = 3
  LastPktSec = 4
  MaxSec = 7
  MaxFrames = 3
SPECIFICATION Spec
PROPERTIES PayloadDropsEarned ImplementsLedger
CHECK_DEADLOCK FALSE
SYMMETRY FlowSymmetry
