SPECIFICATION FairSpec
CONSTANTS
  Messages = {m1, m2}
  MaxHandles = 2
CHECK_DEADLOCK FALSE
INVARIANTS TypeOK CodeInUseStaysLoaded
PROPERTIES EveryClosureFreed
