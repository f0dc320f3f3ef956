CONSTANTS
  x1 = x1
  x2 = x2
  x3 = x3
  k1 = k1
  k2 = k2
  Tx <- Transactions
  Flow <- Keys
  KeyOf <- KeyOfTx
  NoTx = NoTx
  NoFlow = NoFlow
  NoUrl = {x3}
  PoolSize = 1
  DNS_CLEAN_UP_TIMEOUT_SEC = 1
  SESSION_SCAN_FREQ_SEC = 1
  MaxLag = 0
  MaxSkew = 1
  FirstSec = 3
  LastPktSec = 5
  MaxSec = 6
SPECIFICATION Spec
INVARIANTS NoStaleHalf AnswersReported
PROPERTIES ImplementsHalfJoin
SYMMETRY TxSymmetry
CHECK_DEADLOCK FALSE
