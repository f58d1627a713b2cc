\* The local disk with two Puts of the same bytes at once, one of which may be lost.
SPECIFICATION Spec
CONSTANTS
  Caller = {"h1", "h2"}
  Worker = {}
  Content = {"a"}
  Backends = {"local"}
  Overlap = TRUE
  MaxOrders = 1
  TicketTTL = 1
  MaxRequests = 4
  Horizon = 1
  MaxFaults = 1
INVARIANTS RetryMayDoNothing
CHECK_DEADLOCK FALSE
