SPECIFICATION Spec
CONSTANTS
  r1 = r1  r2 = r2  q1 = q1  q2 = q2
  Unset = Unset  Null = Null  Sent = Sent  Stopped = Stopped  Failed = Failed
  Requests <- TwoRequests
  Requesters <- TwoRequesters
  Setups <- OneSetup
  RequestMark = 1
  ResponseMark = 1
  MaxFaults = 0
CHECK_DEADLOCK FALSE
INVARIANTS AnswersAreOwn
