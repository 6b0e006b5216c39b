SPECIFICATION FairSpec
CONSTANTS
  p1 = p1  p2 = p2  p3 = p3  h1 = h1  h2 = h2  o1 = o1
  Offenders = {o1}
  Penalizations = {p1, p2}  Penalizable = {p1, p2}  RepeatedNonce = {p1}
  OffenderOf <- TwoOfOne  Handlers = {h1, h2}
  PenalizeBlockDelay = 1  PenalizeBlockExpiration = 2  MaxBlock = 4  MaxRepeats = 1  MaxCrashes = 1
CHECK_DEADLOCK FALSE
INVARIANTS TooSoonOnlyByOthers EachCommitSlashesOnce
PROPERTIES CommitLeadsToReveal
