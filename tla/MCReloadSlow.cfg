SPECIFICATION Spec
CONSTANTS
  h1 = h1
  h2 = h2
  t1 = t1
  t2 = t2
  tx = tx
  Hostname = {h1, h2}
  Target = {t1, t2, tx}
  BadTarget = BadTarget
  BadTemplate = BadTemplate
  Missing = Missing
  Unsure = {tx}
  Contents <- Few
  InitialFiles <- OnlyOne
  Edits = {"write"}
  EarlyEdits = FALSE
  Prompt = FALSE
  MaxEdits = 2
INVARIANTS
  SettledMatchesFile
CHECK_DEADLOCK FALSE
