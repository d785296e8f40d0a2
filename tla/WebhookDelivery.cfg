CONSTANTS
  order = order user = user any = any
  MaxPublished = 2
  Types = {order, user, any}
  Wildcard = any
  TypeOf <- Typing
  Registrations <- Lists
  Filters <- AllOrNotTwo
  AttemptLimits = {1, 2}
  MaxAttempts = 2
  FailureLimit = 3
  MaxBufferSize = 1
  BackpressureThreshold = 1
  Touchy <- OfTheOrder
  ReplayLimit = 1
SPECIFICATION FairSpec
INVARIANTS TypeOK StatusFollowsCircuit
PROPERTIES ImplementsLedger ClosedForGood RetriesEnd
CHECK_DEADLOCK FALSE
