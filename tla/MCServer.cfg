SPECIFICATION FairSpec
CONSTANTS
  MaxRequests = 2
  WorkerMin = 2  WorkerTarget = 3  ManagerMin = 4  ManagerTarget = 5
  WithdrawToOwnerOn = 9  TxCost = 1  Charge = 1  InitialFunds <- FundsOffered
  RequestMinValid = 2  AlertedDelay = 1  RecentBlocks = 0  RefreshTimeout = 0
  RescanDepth = 1  MaxLag = 1  MaxPending = 2  MaxTrouble = 1
CHECK_DEADLOCK FALSE
INVARIANTS LossExplained AlertHolds NoDoubleRefill
PROPERTIES WorkerRefilled
