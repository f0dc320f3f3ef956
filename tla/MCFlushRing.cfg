CONSTANTS
  TIME_INDEX = 4
  Manager = {0, 1}
  SM_INSTANCES = 2
  Report = {r1, r2}
  NoReport = NoReport
  SecPerMin = 4
  MinPerHour = 2
  HourPerDay = 2
  MaxWriteDelay = 1
  MaxReadLag = 2
  FirstSec = 14
  LastFlushSec = 17
  MaxSec = 20
SPECIFICATION FairFlushSpec
INVARIANTS FlushRingInv NoReportLost InItsFile
PROPERTIES EveryReportWritten
CHECK_DEADLOCK FALSE
