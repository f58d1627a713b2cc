\* Every report of up to four findings, one more than the longest honest one.
SPECIFICATION Spec
CONSTANTS
  OtherCheck = OtherCheck
  OtherResult = OtherResult
  MaxFindings = 4
INVARIANTS PassComputesRule ResolvedIsComplete
CHECK_DEADLOCK FALSE
