SPECIFICATION FairSpec
CONSTANTS
  t1 = t1  t2 = t2  w1 = w1  w2 = w2  w3 = w3
  Client = Client  NoWork = NoWork
  Threads <- TwoThreads
  Works <- TwoWorks
  Keepers = {}
  Delays <- Now
  Horizon = 0
CHECK_DEADLOCK FALSE
PROPERTY DestructorReturns
