\* Two customers and two workers, four requests, one fault.
SPECIFICATION FairSpec
CONSTANTS
  Customer = {"c1", "c2"}
  Worker = {"w1", "w2"}
  NoOne = "no one"
  MaxRequests = 4
  MaxQuestions = 3
  MaxFaults = 1
PROPERTIES AtomicSpec AnswerMeetsItsUpload EveryTransactionEnds
CHECK_DEADLOCK FALSE
