CONSTANTS
  Workers = {w1}
  MaxApprovals = 3
  MaxClaims = 1
SPECIFICATION CaseSpec
INVARIANT AtMostOnePending
CHECK_DEADLOCK FALSE
