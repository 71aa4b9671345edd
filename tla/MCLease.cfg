CONSTANTS
  Workers = {w1, w2}
  MaxApprovals = 2
  MaxClaims = 3
SPECIFICATION Spec
PROPERTY HeartbeatKeepsClaim
CHECK_DEADLOCK FALSE
