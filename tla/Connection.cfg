CONSTANTS
  Requests = 2
  BodyMax = 2
  AnswerMax = 2
  Limits = {0, 1}
  DumpMax = 1
SPECIFICATION FairSpec
INVARIANTS TypeOK BodyIntact WholeIsWhole DumpedOnce
PROPERTIES ConnectionEnds RequestsEnd
CHECK_DEADLOCK FALSE
