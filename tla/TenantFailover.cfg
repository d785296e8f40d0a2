CONSTANTS
  p1 = p1 p2 = p2 p3 = p3 client = client
  Offers <- TwoAndTwo
  Priorities = {1, 2, 3}
  Clients = {client}
  MaxRegistrations = 4
SPECIFICATION FairSpec
INVARIANTS TypeOK OrderStaysStrict MonitoringGoesOn
PROPERTY StoppedStaysStopped Converges
CHECK_DEADLOCK FALSE
