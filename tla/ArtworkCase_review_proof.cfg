\* A rejected repair of a resolved border design.
SPECIFICATION Spec
CONSTANTS
  w1 = w1
  w2 = w2
  c1 = c1
  c2 = c2
  k1 = k1
  k2 = k2
  Worker = {w1}
  Agentic = {w1}
  Client = {c1}
  ClientKey = {k1}
  Intents = {"border"}
  Artworks <- GoodOnly
  ServicesFail = FALSE
  MaxJobs = 8
  MaxAssets = 5
  MaxClars = 2
  MaxRequests = 3
  MaxFaults = 0
INVARIANTS NoProofUnderReview
CHECK_DEADLOCK FALSE
