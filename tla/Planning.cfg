SPECIFICATION FairSpec
CONSTANTS
  A = A
  B = B
  C = C
  D = D
  b1 = b1
  b2 = b2
  Requests = {r1}
  Addresses = {A, B, C, D}
  StartBlocks = {b1, b2}
  PlannerErrors <- MCErrors
  Replies <- MCReplies
  Overrides <- MCOverrides
  MaxCrashes = 1
  None = None
CHECK_DEADLOCK FALSE
INVARIANTS
  TypeOK
  RecordedPlanIsSound
  ReadyHasPlan
  AnswerMatchesRow
  CallerIsBlamedForHisFields
  PlanInv
PROPERTIES
  PlanningEnds
