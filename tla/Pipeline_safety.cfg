CONSTANTS
  Name <- MCName
  Value <- MCValue
  Listed <- MCListed
  Flows <- MCFlows
  RequestHeaders <- MCRequestHeaders
  Answers <- MCAnswers
  Html <- MCHtml
  Identity <- MCIdentity
  Decoded <- MCDecoded
  MaxChanges = 1
SPECIFICATION Spec
INVARIANTS TypeOK FirstMatchWins TargetOK HeaderRulesApplied HopByHopNotSent LengthIsOfBody BodiesClosed
CHECK_DEADLOCK FALSE
