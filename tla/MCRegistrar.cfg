SPECIFICATION RegistrarSpec
CONSTANTS
  m1 = m1  m2 = m2  hubA = hubA  hubB = hubB  tokA = tokA
  own = own  burn = burn  dev = dev  sm = sm  zero = zero
  zeroToken = zeroToken  w1 = w1  pm1 = pm1  hubDev = hubDev
  Tokens = {tokA}  Owners = {own}
  BurnAddresses = {burn}  DevAddresses = {dev}  Self = sm
  NoAddress = zero  NoToken = zeroToken  Hub = hubA
  HubDevAddresses = {hubDev}  MaxUint = 100
  Managers = {m1}  Hubs = {hubA, hubB}  Accounts = {own, burn, dev}
  Workers = {w1}  Paymasters = {pm1}
  UnstakeDelays = {1, 2}  StakeAmounts = {3}  InitialTokens = 3
  MaxUnstakeDelay = 2  AbandonmentDelay = 1  EscheatmentDelay = 1
  StartTime = 2  MaxTime = 5
  Configs <- StakeConfigs  MinimumStakes = {2}  DeprecationTimes = {5}
  EtherAmounts = {}  GasLimits = {0}  GasPrices = {0}
  CalldataGas = 0  AcceptanceBudget = 0  MaxNewWorkers = 1  MaxEther = 0
  RegistrationMaxAges = {1, 2}  MaxRelaysReturned = 1
INVARIANTS PenalizationWindow EscheatableOnlyAfterSilence StakesBacked IndexExact ListedIsAlive
PROPERTIES SlashHalvesStake
