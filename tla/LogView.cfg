CONSTANTS
  Key <- MCKey
  Kind <- MCKind
  Presses <- MCPresses
  Buffer = 1
  Keep = 2
  MaxLogged = 3
SPECIFICATION FairSpec
INVARIANTS TypeOK AllAccounted ViewCurrent
PROPERTIES ImplementsFeed EveryEventArrives
CHECK_DEADLOCK FALSE
