SPECIFICATION Spec
CONSTANTS
  p1 = p1  p2 = p2  p3 = p3  h1 = h1  h2 = h2  o1 = o1
  Offenders = {o1}
  Penalizations = {p1, p2, p3}  Penalizable = {p1, p2, p3}  RepeatedNonce = {p1}
  OffenderOf <- OneOffender  Handlers = {h1, h2}
  PenalizeBlockDelay = 1  PenalizeBlockExpiration = 2  MaxBlock = 2  MaxRepeats = 0  MaxCrashes = 0
CHECK_DEADLOCK FALSE
PROPERTIES OnlyReadyRemoved
