CONSTANTS
  Chunks = 2
  Window = 1
SPECIFICATION ReadingSpec
INVARIANTS TypeOK NothingLostWhileOpen
PROPERTIES OneEndEndsBoth AnswerDelivered
CHECK_DEADLOCK FALSE
