\* Two handlers and a worker, two contents, a cap of one order; either backend.
SPECIFICATION Spec
CONSTANTS
  Caller = {"h1", "h2", "w1"}
  Worker = {"w1"}
  Content = {"a", "b"}
  Backends = {"local", "gcs"}
  Overlap = FALSE
  MaxOrders = 1
  TicketTTL = 1
  MaxRequests = 5
  Horizon = 3
  MaxFaults = 2
INVARIANTS RowsNameTheirBytes CapHolds PutFailsOnlyByFault
PROPERTIES StoreSpec ReadOnlyDriesUp
CHECK_DEADLOCK FALSE
