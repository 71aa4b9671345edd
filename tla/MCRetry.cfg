CONSTANTS
  Workers = {w1, w2}
  MaxApprovals = 2
  MaxClaims = 2
SPECIFICATION Spec
INVARIANT FailedIsRetryable
CHECK_DEADLOCK FALSE
