SPECIFICATION Spec
CONSTANTS
  Chars <- MCChars
  Routes <- PlainRoutes
  TypedURLs <- PlainURLs
  ProxyLinks <- PlainLinks
  Tree <- MCTree
  Cwd <- Root
  SftpHome <- rx
  NoLink = NoLink
  MaxNest = 2
  PieceCount = 2
  MaxConns = 2
INVARIANTS
  TypeOK
  RouteStripped
  FileInPlace
  LinksLead
  EntriesLead
  StreamExact
  
