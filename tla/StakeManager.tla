--------------------------- MODULE StakeManager ---------------------------
(***************************************************************************)
(* The StakeManager contract (packages/contracts/src/StakeManager.sol).    *)
(*                                                                         *)
(* A relay owner locks ERC-20 tokens for a relay manager, authorizes relay *)
(* hubs to slash them, and gets them back only after an unstake delay.     *)
(* Each action is one external function of the contract: its conjuncts     *)
(* before the primed variables are the modifiers and `require`s, a call    *)
(* that reverts is a step that is not taken.  Block time is a variable.    *)
(***************************************************************************)
EXTENDS Integers, FiniteSets, Functions

CONSTANTS
    Managers,           \* relay manager addresses
    Hubs,               \* RelayHub contracts that may be authorized
    Tokens,             \* ERC-20 staking tokens
    Accounts,           \* other token holders: owners, beneficiaries, ...
    Owners,             \* accounts that act as relay owners
    BurnAddresses,      \* values setBurnAddress is called with
    DevAddresses,       \* values setDevAddress is called with
    Self,               \* the StakeManager's own token account
    NoAddress,          \* address(0)
    NoToken,            \* IERC20(address(0))
    UnstakeDelays,      \* delays offered to stakeForRelayManager
    StakeAmounts,       \* amounts offered to stake and to penalize
    MaxUnstakeDelay, AbandonmentDelay, EscheatmentDelay,
    InitialTokens,      \* tokens minted to each owner at the start
    StartTime,          \* block timestamp at deployment
    MaxTime,            \* bound: the last block timestamp explored
    MaxUint             \* type(uint256).max

(* Addresses are distinct, there are finitely many, and zero is nobody's.  *)
(* No timestamp the contract computes reaches type(uint256).max.  The      *)
(* chain's clock is past the abandonment delay counted from zero, as any   *)
(* real timestamp is.                                                      *)
ASSUME AddressAssumption ==
    /\ Owners \subseteq Accounts
    /\ BurnAddresses \subseteq Accounts /\ DevAddresses \subseteq Accounts
    /\ BurnAddresses # {} /\ DevAddresses # {}
    /\ Owners \cap (BurnAddresses \union DevAddresses) = {}
    /\ Self \notin Accounts
    /\ NoAddress \notin Accounts
    /\ NoToken \notin Tokens
    /\ IsFiniteSet(Managers)

ASSUME NumberAssumption ==
    /\ UnstakeDelays \subseteq Nat /\ StakeAmounts \subseteq Nat
    /\ MaxUnstakeDelay \in Nat /\ AbandonmentDelay \in Nat
    /\ EscheatmentDelay \in Nat /\ InitialTokens \in Nat
    /\ StartTime \in Nat /\ MaxTime \in Nat /\ MaxUint \in Nat
    /\ AbandonmentDelay < StartTime /\ StartTime <= MaxTime
    /\ MaxTime + MaxUnstakeDelay < MaxUint

VARIABLES
    stakes,             \* stakes: relay manager -> StakeInfo
    authorizedHubs,     \* relay manager -> hub -> removalTime
    burnAddress,        \* burnAddress
    devAddress,         \* abandonedRelayServerConfig.devAddress
    tokenBalance,       \* ERC-20 ledgers: token -> holder -> amount
    now                 \* block.timestamp

smVars == <<stakes, authorizedHubs, burnAddress, devAddress, tokenBalance, now>>

Holders == Accounts \union {Self}

StakeInfo == [stake : Nat, unstakeDelay : Nat, withdrawTime : Nat,
              abandonedTime : Nat, keepaliveTime : Nat,
              token : Tokens \union {NoToken}, owner : Owners \union {NoAddress}]

SMTypeOK ==
    /\ stakes \in [Managers -> StakeInfo]
    /\ authorizedHubs \in [Managers -> [Hubs -> Nat]]
    /\ burnAddress \in BurnAddresses
    /\ devAddress \in DevAddresses
    /\ tokenBalance \in [Tokens -> [Holders -> Nat]]
    /\ now \in StartTime..MaxTime

EmptyStake == [stake |-> 0, unstakeDelay |-> 0, withdrawTime |-> 0,
               abandonedTime |-> 0, keepaliveTime |-> 0,
               token |-> NoToken, owner |-> NoAddress]

SMInit ==
    /\ stakes = [m \in Managers |-> EmptyStake]
    /\ authorizedHubs = [m \in Managers |-> [h \in Hubs |-> 0]]
    /\ burnAddress \in BurnAddresses
    /\ devAddress \in DevAddresses
    /\ tokenBalance = [t \in Tokens |->
                        [a \in Holders |-> IF a \in Owners THEN InitialTokens ELSE 0]]
    /\ now = StartTime

----------------------------------------------------------------------------
(* token.safeTransfer / safeTransferFrom: needs a token contract and the   *)
(* sender's balance, and reverts otherwise.                                *)
CanTransfer(t, from, amount) ==
    /\ t # NoToken
    /\ tokenBalance[t][from] >= amount

Moved(ledger, from, to, amount) ==
    [a \in Holders |-> ledger[a] + (IF a = to THEN amount ELSE 0)
                                 - (IF a = from THEN amount ELSE 0)]

(* modifier relayOwnerOnly: the caller is the recorded owner, and address  *)
(* zero calls nothing, so some owner must be recorded.                     *)
RelayOwnerOnly(m) == stakes[m].owner # NoAddress

(* modifier managerOnly, for the manager m as the caller *)
ManagerOnly(m) == stakes[m].owner # NoAddress

IsHubAuthorized(m, h) == authorizedHubs[m][h] = MaxUint

IsRelayEscheatable(m) ==
    /\ stakes[m].abandonedTime # 0
    /\ stakes[m].abandonedTime + EscheatmentDelay < now

----------------------------------------------------------------------------
SetBurnAddress(a) ==
    /\ burnAddress' = a
    /\ UNCHANGED <<stakes, authorizedHubs, devAddress, tokenBalance, now>>

SetDevAddress(a) ==
    /\ devAddress' = a
    /\ UNCHANGED <<stakes, authorizedHubs, burnAddress, tokenBalance, now>>

SetRelayManagerOwner(m, owner) ==
    /\ owner # NoAddress
    /\ stakes[m].owner = NoAddress
    /\ stakes' = [stakes EXCEPT ![m].owner = owner]
    /\ UNCHANGED <<authorizedHubs, burnAddress, devAddress, tokenBalance, now>>

(* withdrawTime is left as it is: staking does not cancel an unlock.       *)
StakeForRelayManager(m, token, unstakeDelay, amount) ==
    /\ RelayOwnerOnly(m)
    /\ unstakeDelay >= stakes[m].unstakeDelay
    /\ unstakeDelay <= MaxUnstakeDelay
    /\ token # NoToken
    /\ stakes[m].token \in {NoToken, token}
    /\ CanTransfer(token, stakes[m].owner, amount)
    /\ tokenBalance' = [tokenBalance EXCEPT ![token] =
                          Moved(@, stakes[m].owner, Self, amount)]
    /\ stakes' = [stakes EXCEPT ![m].token = token,
                                ![m].stake = @ + amount,
                                ![m].unstakeDelay = unstakeDelay]
    /\ UNCHANGED <<authorizedHubs, burnAddress, devAddress, now>>

UnlockStake(m) ==
    /\ RelayOwnerOnly(m)
    /\ stakes[m].withdrawTime = 0
    /\ stakes' = [stakes EXCEPT ![m].withdrawTime = now + stakes[m].unstakeDelay]
    /\ UNCHANGED <<authorizedHubs, burnAddress, devAddress, tokenBalance, now>>

(* Mutant: withdrawStake pays out and forgets to clear the stake. *)
WithdrawStakeUncleared(m) ==
    /\ RelayOwnerOnly(m)
    /\ stakes[m].withdrawTime > 0
    /\ stakes[m].withdrawTime <= now
    /\ CanTransfer(stakes[m].token, Self, stakes[m].stake)
    /\ tokenBalance' = [tokenBalance EXCEPT ![stakes[m].token] =
                          Moved(@, Self, stakes[m].owner, stakes[m].stake)]
    /\ stakes' = [stakes EXCEPT ![m].withdrawTime = 0]
    /\ UNCHANGED <<authorizedHubs, burnAddress, devAddress, now>>

WithdrawStake(m) ==
    /\ RelayOwnerOnly(m)
    /\ stakes[m].withdrawTime > 0
    /\ stakes[m].withdrawTime <= now
    /\ CanTransfer(stakes[m].token, Self, stakes[m].stake)
    /\ tokenBalance' = [tokenBalance EXCEPT ![stakes[m].token] =
                          Moved(@, Self, stakes[m].owner, stakes[m].stake)]
    /\ stakes' = [stakes EXCEPT ![m].stake = 0, ![m].withdrawTime = 0]
    /\ UNCHANGED <<authorizedHubs, burnAddress, devAddress, now>>

AuthorizeHub(m, h) ==
    /\ authorizedHubs' = [authorizedHubs EXCEPT ![m][h] = MaxUint]
    /\ UNCHANGED <<stakes, burnAddress, devAddress, tokenBalance, now>>

AuthorizeHubByOwner(m, h) == RelayOwnerOnly(m) /\ AuthorizeHub(m, h)

AuthorizeHubByManager(m, h) == ManagerOnly(m) /\ AuthorizeHub(m, h)

UnauthorizeHub(m, h) ==
    /\ IsHubAuthorized(m, h)
    /\ authorizedHubs' = [authorizedHubs EXCEPT
                            ![m][h] = now + stakes[m].unstakeDelay]
    /\ UNCHANGED <<stakes, burnAddress, devAddress, tokenBalance, now>>

UnauthorizeHubByOwner(m, h) == RelayOwnerOnly(m) /\ UnauthorizeHub(m, h)

UnauthorizeHubByManager(m, h) == ManagerOnly(m) /\ UnauthorizeHub(m, h)

(* Mutant: the reporter gets everything. *)
NothingToBurn(amount) == 0

(* Half of the penalty, rounded down, is burned.                           *)
ToBurn(amount) == amount \div 2

CoversPenalty(m, amount) == stakes[m].stake >= amount

(* Called by the hub h. *)
PenalizeRelayManager(h, m, beneficiary, amount) ==
    LET token  == stakes[m].token
        toBurn == ToBurn(amount)
        reward == amount - toBurn
    IN  /\ authorizedHubs[m][h] # 0
        /\ authorizedHubs[m][h] > now
        /\ CoversPenalty(m, amount)
        /\ CanTransfer(token, Self, amount)
        /\ tokenBalance' = [tokenBalance EXCEPT ![token] =
                              Moved(Moved(@, Self, burnAddress, toBurn),
                                    Self, beneficiary, reward)]
        /\ stakes' = [stakes EXCEPT ![m].stake = @ - amount]
        /\ UNCHANGED <<authorizedHubs, burnAddress, devAddress, now>>

(* Called by the contract's owner. *)
MarkRelayAbandoned(m) ==
    /\ stakes[m].stake > 0
    /\ stakes[m].abandonedTime = 0
    /\ stakes[m].keepaliveTime + AbandonmentDelay < now
    /\ stakes' = [stakes EXCEPT ![m].abandonedTime = now]
    /\ UNCHANGED <<authorizedHubs, burnAddress, devAddress, tokenBalance, now>>

(* Called by the contract's owner.  abandonedTime keeps its value. *)
EscheatAbandonedRelayStake(m) ==
    /\ IsRelayEscheatable(m)
    /\ CanTransfer(stakes[m].token, Self, stakes[m].stake)
    /\ tokenBalance' = [tokenBalance EXCEPT ![stakes[m].token] =
                          Moved(@, Self, devAddress, stakes[m].stake)]
    /\ stakes' = [stakes EXCEPT ![m].stake = 0, ![m].withdrawTime = 0]
    /\ UNCHANGED <<authorizedHubs, burnAddress, devAddress, now>>

(* Mutant: a keepalive leaves the abandonment mark in place. *)
KeepaliveKeepsMark(m) ==
    /\ stakes' = [stakes EXCEPT ![m].keepaliveTime = now]
    /\ UNCHANGED <<authorizedHubs, burnAddress, devAddress, tokenBalance, now>>

RecordKeepalive(m) ==
    /\ stakes' = [stakes EXCEPT ![m].abandonedTime = 0, ![m].keepaliveTime = now]
    /\ UNCHANGED <<authorizedHubs, burnAddress, devAddress, tokenBalance, now>>

UpdateRelayKeepaliveTimeByHub(m, h) == IsHubAuthorized(m, h) /\ RecordKeepalive(m)

UpdateRelayKeepaliveTimeByOwner(m) == RelayOwnerOnly(m) /\ RecordKeepalive(m)

(* A later block. *)
Tick ==
    /\ now < MaxTime
    /\ now' = now + 1
    /\ UNCHANGED <<stakes, authorizedHubs, burnAddress, devAddress, tokenBalance>>

----------------------------------------------------------------------------
(* What relay managers, their owners and the contract's owner may call.    *)
AdministrationNext ==
    \/ \E a \in BurnAddresses : SetBurnAddress(a)
    \/ \E a \in DevAddresses : SetDevAddress(a)
    \/ \E m \in Managers :
        \/ \E owner \in Owners : SetRelayManagerOwner(m, owner)
        \/ \E token \in Tokens, d \in UnstakeDelays, amount \in StakeAmounts :
              StakeForRelayManager(m, token, d, amount)
        \/ UnlockStake(m)
        \/ WithdrawStake(m)
        \/ \E h \in Hubs : AuthorizeHubByOwner(m, h)
        \/ \E h \in Hubs : AuthorizeHubByManager(m, h)
        \/ \E h \in Hubs : UnauthorizeHubByOwner(m, h)
        \/ \E h \in Hubs : UnauthorizeHubByManager(m, h)
        \/ MarkRelayAbandoned(m)
        \/ EscheatAbandonedRelayStake(m)
        \/ UpdateRelayKeepaliveTimeByOwner(m)

(* What the hub h may call, whatever code is deployed at its address. *)
HubNext(h) ==
    \E m \in Managers :
        \/ \E b \in Accounts, amount \in StakeAmounts :
              PenalizeRelayManager(h, m, b, amount)
        \/ UpdateRelayKeepaliveTimeByHub(m, h)

SMNext == AdministrationNext \/ (\E h \in Hubs : HubNext(h)) \/ Tick

SMSpec == SMInit /\ [][SMNext]_smVars

----------------------------------------------------------------------------
(* Safety. *)

(* A manager's funds can be escheated only when both delays have passed    *)
(* since its last keepalive, whatever happened in between.                 *)
EscheatableOnlyAfterSilence ==
    \A m \in Managers :
        IsRelayEscheatable(m) =>
            stakes[m].keepaliveTime + AbandonmentDelay + EscheatmentDelay < now

(* Why: whatever set the mark saw a silent manager, and every keepalive     *)
(* clears it.                                                              *)
SilenceInv ==
    \A m \in Managers : stakes[m].abandonedTime # 0 =>
        stakes[m].keepaliveTime + AbandonmentDelay < stakes[m].abandonedTime

(* The StakeManager holds exactly the tokens it owes to the relay owners.  *)
StakesBacked ==
    \A t \in Tokens :
        tokenBalance[t][Self] =
            SumFunction([m \in {n \in Managers : stakes[n].token = t} |->
                           stakes[m].stake])
===========================================================================
