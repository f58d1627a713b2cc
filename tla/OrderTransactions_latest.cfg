\* Two customers who upload at the same time.
SPECIFICATION Spec
CONSTANTS
  Customer = {"c1", "c2"}
  Worker = {"w1"}
  NoOne = "no one"
  MaxRequests = 3
  MaxQuestions = 3
  MaxFaults = 0
INVARIANTS LatestOriginalIsCurrent
CHECK_DEADLOCK FALSE
