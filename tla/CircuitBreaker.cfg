CONSTANTS
  c1 = c1 c2 = c2 c3 = c3 c4 = c4
  Calls = {c1, c2, c3, c4}
  FailureThreshold = 3
  SuccessThreshold = 2
SPECIFICATION FairSpec
INVARIANTS TypeOK NothingCarriedOver
PROPERTIES TransitionsEarned Recovers
