CONSTANTS
  Flow = {f1, f2}
  NoFlow = NoFlow
  PoolSize = 1
  SESSION_PKT_LIMIT = 3
  SESSION_TIME_LIMIT = 2
  TCP_CLEAN_UP_TIMEOUT_SEC = 1
  CHECK_DUPLICATE_PKT = TRUE
  MinCleanFrames = 2
  SeqNo = {s1, s2}
  Flags = {"DATA"}
  MaxLag = 1
  MaxSkew = 1
  FirstSec = 4
  LastPktSec = 5
  MaxSec = 8
  MaxFrames = 4
SPECIFICATION FairSpec
INVARIANTS SearchEnds FramesAccounted
PROPERTIES ImplementsLedger ActiveFramesKept SessionsEnd
CHECK_DEADLOCK FALSE
