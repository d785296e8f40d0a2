CONSTANTS
  e1 = e1 e2 = e2 s1 = s1 s2 = s2 r1 = r1 r2 = r2
  Events = {e1, e2}
  Subs = {s1, s2}
  Matches <- EveryPair
  RequestedRetries <- OneRetry
  DefaultMaxRetries = 1
  MaxDeadLetters = 1
  Retriers = {r1}
  MaxPasses = 1
SPECIFICATION Spec
INVARIANT OrderedDelivery
CHECK_DEADLOCK FALSE
