CONSTANTS
  MaxRequests = 2
  WindowMs = 3
  Costs = {1, 2, 3}
  MaxTime = 6
SPECIFICATION LimiterSpec
INVARIANTS LimiterTypeOK RateBounded RefusedOverLimit PromiseKept
