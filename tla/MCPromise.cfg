SPECIFICATION FairSpec
CONSTANTS
  t1 = t1  t2 = t2  p1 = p1  p2 = p2  p3 = p3  h1 = h1  v = v  e = e
  Client = Client  Undefined = Undefined  NoPromise = NoPromise  NoJob = NoJob
  Threads <- TwoThreads
  Promises <- ThreePromises
  Roots <- OneRoot
  Handlers <- OneHandler
  Values <- OneValue
  Errors <- OneError
  Returned <- AnyResult
CHECK_DEADLOCK FALSE
INVARIANTS TypeOK RunsOnce ResultsFlow
PROPERTIES EveryCallbackRuns FollowersSettle
