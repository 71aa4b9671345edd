CONSTANTS
  Workers = {w1}
  Customers = {c1, c2}
  MaxApprovals = 2
  MaxClaims = 1
  MaxTurns = 2
SPECIFICATION FollowupSpec
INVARIANTS
  FollowupTypeOK
  AnswerStands
  RetryStartsClean
  OneTurnOwner
PROPERTIES
  AnswerIsFinal
  LeaseRespected
  ImplementsFollowup
SYMMETRY Symmetry
CHECK_DEADLOCK FALSE
