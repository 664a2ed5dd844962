SPECIFICATION Spec
CONSTANTS
  Chars <- MCChars
  Routes <- WasmRoutes
  TypedURLs <- WasmURLs
  ProxyLinks <- NoLinks
  Tree <- MCTree
  Cwd <- Root
  SftpHome <- rx
  NoLink = NoLink
  MaxNest = 2
  PieceCount = 2
  MaxConns = 2
INVARIANTS
  WasmServed
