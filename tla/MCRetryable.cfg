CONSTANTS
  Workers = {w1}
  Customers = {c1}
  MaxApprovals = 2
  MaxClaims = 2
  MaxTurns = 2
SPECIFICATION FollowupSpec
INVARIANT RetryableIsRestored
CHECK_DEADLOCK FALSE
