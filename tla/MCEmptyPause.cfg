CONSTANTS
  Workers = {w1}
  MaxApprovals = 2
  MaxClaims = 2
SPECIFICATION CaseSpec
INVARIANT PauseHasReview
CHECK_DEADLOCK FALSE
