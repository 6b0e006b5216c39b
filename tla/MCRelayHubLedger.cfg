SPECIFICATION Spec
CONSTANTS
  m1 = m1  m2 = m2  hubA = hubA  hubB = hubB  tokA = tokA
  own = own  ben = ben  burn = burn  dev = dev  sm = sm  zero = zero
  zeroToken = zeroToken  w1 = w1  w2 = w2  pm1 = pm1  hubDev = hubDev
  Tokens = {tokA}  Owners = {own}
  BurnAddresses = {burn}  DevAddresses = {dev}  Self = sm
  NoAddress = zero  NoToken = zeroToken  Hub = hubA
  HubDevAddresses = {hubDev}  MaxUint = 100
  Managers = {m1}  Hubs = {hubA}  Accounts = {own, burn, dev}
  Workers = {w1, w2}  Paymasters = {pm1}
  UnstakeDelays = {0}  StakeAmounts = {1}  InitialTokens = 1
  MaxUnstakeDelay = 0  AbandonmentDelay = 0  EscheatmentDelay = 0
  StartTime = 1  MaxTime = 2
  Configs <- LedgerConfigs  MinimumStakes = {1}  DeprecationTimes = {2, 3}
  EtherAmounts = {1, 3}  GasLimits = {1}  GasPrices = {1}
  CalldataGas = 0  AcceptanceBudget = 0  MaxNewWorkers = 2  MaxEther = 5
INVARIANTS TypeOK HubSolvent WorkerCountExact AcceptedCallIsCharged
