\* Two workers, two sessions that may share a key, and one fault on one full-bleed order:
\* a lease can run out under one worker while the other repeats its job and the customers
\* upload, confirm, restart or ask for a repair.
SPECIFICATION Spec
CONSTANTS
  w1 = w1
  w2 = w2
  c1 = c1
  c2 = c2
  k1 = k1
  k2 = k2
  Worker = {w1, w2}
  Agentic = {w1, w2}
  Client = {c1, c2}
  ClientKey = {k1}
  Intents = {"full_bleed"}
  Artworks <- GoodAndBusy
  ServicesFail = FALSE
  MaxJobs = 12
  MaxAssets = 5
  MaxClars = 4
  MaxRequests = 4
  MaxFaults = 1
SYMMETRY WorkerSymmetry
INVARIANTS OneRepairPerKey CurrentIsLatestUpload TrimDescribesCurrent QuestionCanBeAnswered AutoRepairIsConfirmed InspectionLeadsOn
PROPERTIES CommitsWhatStillHolds
CHECK_DEADLOCK FALSE
