CONSTANTS
  Requests = 2
  BodyMax = 2
SPECIFICATION LiveUpstreamSpec
PROPERTIES EveryAnswerCompletes
CHECK_DEADLOCK FALSE
