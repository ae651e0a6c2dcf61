SPECIFICATION FairSpec
CONSTANTS
  t1 = t1  t2 = t2  w1 = w1  w2 = w2  w3 = w3
  Client = Client  NoWork = NoWork
  Threads <- TwoThreads
  Works <- ThreeWorks
  Keepers <- TwoWorks
  Delays <- NowOrLater
  Horizon = 2
CHECK_DEADLOCK FALSE
INVARIANTS TypeOK NoLostWakeup WorkConserving DestroyedUnowned CountZeroMeansQuiet NoWorkerDestroys
PROPERTIES ImplementsFairPool PatientReturns
