SPECIFICATION ReputationSpec
CONSTANTS
  r1 = r1 
  NoEntry = NoEntry  NoRequest = NoRequest
  ColdScanBlocks = 2
  RelayRequests = {r1}
  InitialReputation = 2  MaximumReputation = 3  ThrottleReputation = 2  ThrottleDelay = 0
  BlockReputation = 0  AbuseTimeoutReputation = 1
  AbuseReputationChange = 1  AbuseTimeWindowBlocks = 1
  MaxBlock = 4  MaxEvents = 2  MaxTime = 1  MaxCrashes = 1
CHECK_DEADLOCK FALSE
INVARIANTS NoEventSkipped NoAbuseWithoutLosses
