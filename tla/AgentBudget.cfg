\* A tick is six seconds: a lease of 5, a deadline of 3, attempts of up to 2. Two calls
\* and one retry per upload, so that budgets run out and are renewed.
SPECIFICATION FairSpec
CONSTANTS
  Worker = {w1, w2}
  MaxAgentToolCalls = 2
  MaxAgentTransientRetries = 1
  LeaseDuration = 5
  AgentDecisionDeadline = 3
  GroqHTTPTimeout = 2
  DbTime = 1
  MaxJobs = 2
  MaxUploads = 1
  MaxFaults = 1
INVARIANTS TypeOK CallsUnderLease
PROPERTIES CallsArePaid DecisionsEnd
CHECK_DEADLOCK FALSE
