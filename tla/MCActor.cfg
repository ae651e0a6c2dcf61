SPECIFICATION FairSpec
CONSTANTS
  t1 = t1  t2 = t2  s1 = s1  s2 = s2
  m1 = m1  m2 = m2  m3 = m3
  get = get  put = put  other = other
  EXCLUSIVE = EXCLUSIVE  SHARED = SHARED  Undefined = Undefined
  NoMessage = NoMessage  NoAnswer = NoAnswer  Error = Error
  Threads <- TwoThreads
  Senders <- TwoSenders
  Messages <- ThreeMessages
  Names <- GetPutOther
  Defined <- OtherMissing
  Late <- Redefined
CHECK_DEADLOCK FALSE
INVARIANTS TypeOK WriterAlone EnoughDrainers NoDrainerLeak
PROPERTY ImplementsFairActor
