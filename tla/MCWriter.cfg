SPECIFICATION LogSpec
CONSTANTS
  text = text
  HTML = HTML
  OtherType <- MCOtherType
  NoType = NoType
  ClientMayLeave = TRUE
  MaxChunks = 4
INVARIANTS
  LogTypeOK
  EndCountsAll
  InOrder
  CompleteOnReturn
PROPERTIES
  ServedRequestReturns
CHECK_DEADLOCK FALSE
