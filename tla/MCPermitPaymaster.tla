-------------------------- MODULE MCPermitPaymaster --------------------------
(* A small instance of PermitPaymaster for TLC. *)
EXTENDS PermitPaymaster

CONSTANTS ta, tb

Config(minHub, target, minWithdrawal, fee) ==
    [minHubBalance |-> minHub, targetHubBalance |-> target,
     minWithdrawalAmount |-> minWithdrawal, paymasterFee |-> fee]

(* A target well above the minimum, and one that is not.                   *)
TwoConfigs == {Config(2, 4, 1, 0), Config(2, 2, 2, 50)}

(* A token is dropped, or swapped after the other one.                     *)
TwoLists == {<<ta, tb>>, <<tb>>}
==============================================================================
