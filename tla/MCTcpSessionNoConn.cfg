CONSTANTS
  Flow = {f1}
  NoFlow = NoFlow
  PoolSize = 1
  SESSION_PKT_LIMIT = 3
  SESSION_TIME_LIMIT = 2
  TCP_CLEAN_UP_TIMEOUT_SEC = 1
  CHECK_DUPLICATE_PKT = TRUE
  MinCleanFrames = 2
  SeqNo = {s1, s2, s3}
  Flags = {"SYN", "SYN_ACK", "ACK", "DATA"}
  MaxLag = 0
  MaxSkew = 0
  FirstSec = 3
  LastPktSec = 5
  MaxSec = 7
  MaxFrames = 4
SPECIFICATION Spec
INVARIANTS UnconnectedNotFlushed
CHECK_DEADLOCK FALSE
