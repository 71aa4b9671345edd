CONSTANTS
  None = None
  MaxCents = 2
  Grain = 3
  Asked = {3, 5}
  Signatures = {s1, s2}
  Rules = {"R-APPROVE", "R-DENY", "R-REVIEW", "R-REQUEST"}
  Citations <- MCCitations
SPECIFICATION PolicySpec
INVARIANTS
  TypeOK
  AmountWithinMeans
  ReplayRecognised
  ReviewIsDecidable
  RulingRestsOnRules
  ReleasableInCents
  PaymentIsCovered
  AnswerExists
CHECK_DEADLOCK FALSE
