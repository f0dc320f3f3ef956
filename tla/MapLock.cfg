CONSTANTS
  Thread = {t1, t2, t3, t4}
  NoThread = NoThread
SPECIFICATION FairLockSpec
INVARIANTS MutualExclusion NoLostWakeup
PROPERTIES SomebodyGetsIn
