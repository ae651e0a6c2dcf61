SPECIFICATION FairSpec
CONSTANTS
  t1 = t1  t2 = t2  w1 = w1  w2 = w2  w3 = w3
  Client = Client  Nobody = Nobody  NoWork = NoWork
  Threads <- TwoThreads
  Works <- ThreeWorks
  Keepers <- Messages
  Kept <- First
  Delayed <- Timer
  Capturing <- Callers
  MaxValues = 1
CHECK_DEADLOCK FALSE
INVARIANTS LeftQuiet
PROPERTIES ProgramEnds OnlyKnownWaits
