CONSTANTS
  e1 = e1 e2 = e2 s1 = s1 s2 = s2 r1 = r1 r2 = r2
  Events = {e1}
  Subs = {s1, s2}
  Matches <- EveryPair
  RequestedRetries <- OneRetry
  DefaultMaxRetries = 1
  MaxDeadLetters = 2
  Retriers = {r1, r2}
  MaxPasses = 2
SPECIFICATION FairSpec
INVARIANTS TypeOK NothingLost AtMostOnceWithoutRetry
PROPERTIES GoneRunsDown CallsReturn
CHECK_DEADLOCK FALSE
