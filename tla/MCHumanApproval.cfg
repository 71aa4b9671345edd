CONSTANTS
  Workers = {w1, w2}
  MaxApprovals = 3
  MaxClaims = 3
SPECIFICATION Spec
INVARIANTS
  TypeOK
  AtMostOneRefund
  RefundAuthorised
  RefundDelivered
  RefundNotReissued
  OneOwner
  AtMostOnePending
  TerminalAgreement
  NoStuckReview
  PolicyOnce
PROPERTIES
  ImplementsContract
  HistoryIsFinal
SYMMETRY Symmetry
CHECK_DEADLOCK FALSE
