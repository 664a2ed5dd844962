SPECIFICATION FairSpec
CONSTANTS
  h1 = h1
  h2 = h2
  t1 = t1
  t2 = t2
  tx = tx
  Hostname = {h1, h2}
  Target = {t1, t2, tx}
  BadTarget = BadTarget
  BadTemplate = BadTemplate
  Missing = Missing
  Unsure = {tx}
  Contents <- Distinct
  InitialFiles <- DistinctOrMissing
  Edits = {"write", "replace", "unlink", "create"}
  EarlyEdits = FALSE
  Prompt = TRUE
  MaxEdits = 2
INVARIANTS
  TypeOK
  WatchedMatchesFile
  EventsLeadToPrev
PROPERTIES
  NoGap
  WatchSurvives
  EditsGetServed
CHECK_DEADLOCK FALSE
