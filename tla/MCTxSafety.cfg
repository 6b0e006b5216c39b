SPECIFICATION Spec
CONSTANTS
  r1 = r1  r2 = r2  r3 = r3  Manager = manager  Worker = worker  Free = free
  SendFees = {1}  BaseFees = {1}  MaxMaxFee = 2  RetryNum = 2  RetryDen = 1
  Requests = {r1, r2, r3}  SignerOf <- BothKeys  MaxCrashes = 1
SYMMETRY RequestSymmetry
CHECK_DEADLOCK FALSE
INVARIANTS IInv NoPenalizableConflict BoostFindsOldest
PROPERTIES OnlyMinedArePruned ImplementsNonceLog
