CONSTANTS
  Threads = {t1, t2, t3}
  Elements = {e1, e2}
  Capacity = 2
  None = None
SPECIFICATION FairSpec
INVARIANT NoLostWakeup
PROPERTY ImplementsQueue
PROPERTY TimedCallReturns
PROPERTY SleepersServed
