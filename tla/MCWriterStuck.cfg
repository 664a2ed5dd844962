SPECIFICATION LogSpec
CONSTANTS
  text = text
  HTML = HTML
  OtherType <- MCOtherType
  NoType = NoType
  ClientMayLeave = TRUE
  MaxChunks = 4
PROPERTIES
  RequestReturns
CHECK_DEADLOCK FALSE
