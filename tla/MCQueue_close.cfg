SPECIFICATION FairSpec
CONSTANTS
  c1 = c1  c2 = c2  v1 = v1  v2 = v2  v3 = v3
  Consumers <- TwoConsumers
  Values <- ThreeValues
CHECK_DEADLOCK FALSE
PROPERTY CloseEnds
