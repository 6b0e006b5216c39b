SPECIFICATION Spec
CONSTANTS
  ta = ta  tb = tb  Tokens = {ta, tb}  TokenLists <- TwoLists
  Quotes = {1, 3}  Scale = 2  Slippage = 100  MinSwapAmount = 1
  Configs <- TwoConfigs  Charges = {1, 2}  EtherAmounts = {2}
  MaxEther = 6  MaxPurse = 2  MaxHeld = 3  MaxBlock = 2  MaxInner = 1
CHECK_DEADLOCK FALSE
INVARIANTS TypeOK PayerCoversCharge ChargedForNothing
PROPERTIES RefilledAfterCall
