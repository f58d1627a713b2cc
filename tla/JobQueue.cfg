\* Two workers, three rows, two faults: one job can be claimed by one worker,
\* reclaimed by the other, superseded and still be in the first one's hands.
SPECIFICATION FairSpec
CONSTANTS
  w1 = w1
  w2 = w2
  a1 = a1
  Worker = {w1, w2}
  Asset = {a1}
  Version <- Versions
  Key <- OneKey
  MaxJobs = 3
  MaxFaults = 2
INVARIANTS TypeOK OneActivePerType
PROPERTIES TerminalIsFinal OnlyHolderCommits SupersededIsReplaced JobsFinish
CHECK_DEADLOCK FALSE
