CONSTANTS
  Workers = {w1}
  MaxApprovals = 2
  MaxClaims = 2
SPECIFICATION StatusSpec
INVARIANTS
  HandsOver
  InitialRefundIsLast
  CompletedIsTold
  HeldIsBlocked
  ReadsWhatWasReviewed
CHECK_DEADLOCK FALSE
