SPECIFICATION FairSpec
CONSTANTS
  r1 = r1  r2 = r2  r3 = r3  Manager = manager  Worker = worker  Free = free
  SendFees = {1}  BaseFees = {1}  MaxMaxFee = 1  RetryNum = 2  RetryDen = 1
  Requests = {r1, r2}  SignerOf <- OneKey  MaxCrashes = 1
CHECK_DEADLOCK FALSE
PROPERTIES StoredEventuallyMined
