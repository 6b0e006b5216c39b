SPECIFICATION FairSpec
CONSTANTS
  u1 = u1
  NoUrl = noUrl  Urls = {u1}
  UnstakeDelay = 1  RecentBlocks = 0  RescanDepth = 1  RefreshTimeout = 0
  RegistrationMaxAge = 1  MaxLag = 1
  MaxTrouble = 1  MaxAttempts = 1
INVARIANTS AtMostOnePending KnowsUnauthorized
PROPERTIES SweepOnlyWhenDue  WithdrawalReturnsFunds DelayedWithdrawalHappens
