CONSTANTS
  N = 3
  MaxTake = 1
  Mutators = {m1, m2}
  Collector = gc
  NoThread = none
SPECIFICATION FairSpec
INVARIANTS TypeOK NoUnitShared NoUnitLost NeverFatal TakenMemoryIsZero LiveMemoryKept StoppedWorldHoldsNoMutex
PROPERTIES CollectorFinishes StopGranted
