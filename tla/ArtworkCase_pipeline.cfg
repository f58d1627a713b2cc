\* Artworks that resolve, stay BLOCKED or need review, and both intents, fair workers, one of them without a provider
\* key, services that fail, one fault, and a customer who stops after three requests.
SPECIFICATION FairSpec
CONSTANTS
  w1 = w1
  w2 = w2
  c1 = c1
  c2 = c2
  k1 = k1
  k2 = k2
  Worker = {w1, w2}
  Agentic = {w1}
  Client = {c1}
  ClientKey = {k1}
  Intents = {"border", "full_bleed"}
  Artworks <- GoodLowOdd
  ServicesFail = TRUE
  MaxJobs = 8
  MaxAssets = 5
  MaxClars = 2
  MaxRequests = 3
  MaxFaults = 1
INVARIANTS TypeOK ResolvedIsEarned ProofShowsCurrentArtwork ResolvedHasProofJob
PROPERTIES VersionStampsChanges QueueSpec ResolvedGetsProof EveryJobFinishes
CHECK_DEADLOCK FALSE
