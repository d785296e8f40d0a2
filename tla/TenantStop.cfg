CONSTANTS
  p1 = p1 p2 = p2 p3 = p3 client = client
  Offers <- TwoAndTwo
  Priorities = {1, 2}
  Clients = {client}
  MaxRegistrations = 2
SPECIFICATION Spec
INVARIANT StopHolds
CHECK_DEADLOCK FALSE
