CONSTANTS
  x1 = x1
  x2 = x2
  x3 = x3
  x4 = x4
  Tx = {x1, x2, x3}
  Key <- Keys
  KeyOf <- KeyOfTx
  NoTx = NoTx
  AAA_CLEAN_UP_TIMEOUT_SEC = 2
  SESSION_SCAN_FREQ_SEC = 1
  MaxLag = 0
  MaxSkew = 1
  FirstSec = 4
  LastPktSec = 6
  MaxSec = 9
SPECIFICATION Spec
INVARIANTS NoStaleHalf AnswersReported
PROPERTIES ImplementsHalfJoin
SYMMETRY TxSymmetry
CHECK_DEADLOCK FALSE
