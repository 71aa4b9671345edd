CONSTANTS
  Workers = {w1}
  MaxApprovals = 2
  MaxClaims = 1
SPECIFICATION CaseSpec
INVARIANT OneReviewPerRoute
CHECK_DEADLOCK FALSE
