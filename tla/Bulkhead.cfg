CONSTANTS
  c1 = c1 c2 = c2 c3 = c3 c4 = c4 c5 = c5
  Calls <- FiveCalls
  MaxConcurrent = 2
  MaxQueue = 2
  MaxResets = 1
SPECIFICATION TimedSpec
INVARIANTS TypeOK QueueSound OverrunBounded
PROPERTIES FirstComeFirstServed QueuedLeaves ImplementsAdmissionControl
CHECK_DEADLOCK FALSE
