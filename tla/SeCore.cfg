SPECIFICATION FairSpec
CONSTANTS
  t1 = t1
  t2 = t2
  t3 = t3
  Main = Main
  Threads <- Three
  MaxGo = 2
INVARIANTS OneWakeup WaitersArmed CacheFreed
PROPERTIES ImplementsCoroutines TimeoutWakes
CHECK_DEADLOCK FALSE
