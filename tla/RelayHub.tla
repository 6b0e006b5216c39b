----------------------------- MODULE RelayHub -----------------------------
(***************************************************************************)
(* The RelayHub contract (packages/contracts/src/RelayHub.sol) on top of   *)
(* the StakeManager it queries and slashes through.                        *)
(*                                                                         *)
(* `Hub` is this contract; the other members of Hubs are foreign hubs with *)
(* arbitrary code.  Ether amounts and gas are natural numbers.  The inner  *)
(* call of relayCall, where paymaster and recipient code runs, is an       *)
(* outcome chosen by the environment together with the change it makes to  *)
(* the paymaster's deposit by calling back into the hub.                   *)
(***************************************************************************)
EXTENDS StakeManager, Sequences

CONSTANTS
    Hub,                \* this RelayHub
    Workers,            \* relay worker addresses
    Paymasters,         \* contracts that implement IPaymaster
    HubDevAddresses,    \* dev addresses a configuration may name
    Configs,            \* configurations offered to setConfiguration
    MinimumStakes,      \* values offered to setMinimumStakes
    DeprecationTimes,   \* values offered to deprecateHub
    EtherAmounts,       \* deposits and withdrawals
    GasLimits,          \* gas at the entry of relayCall
    GasPrices,          \* chargeable gas prices
    CalldataGas,        \* relayData.transactionCalldataGasUsed
    AcceptanceBudget,   \* the paymasters' acceptanceBudget
    MaxNewWorkers,      \* bound: length of an addRelayWorkers list
    MaxEther            \* bound: ether deposited in the hub

HubAccounts == Paymasters \union Managers \union HubDevAddresses

RelayHubConfig == [maxWorkerCount : Nat, minimumUnstakeDelay : Nat,
                   devFee : 0..99, baseRelayFee : Nat, pctRelayFee : Nat,
                   gasOverhead : Nat, devAddress : HubDevAddresses]

(* setConfiguration refuses a devFee of 100 or more, also in the           *)
(* constructor, so only the configurations it accepts are offered.         *)
ASSUME HubAssumption ==
    /\ Hub \in Hubs
    /\ NoAddress \notin Managers
    /\ IsFiniteSet(Workers) /\ IsFiniteSet(Paymasters) /\ IsFiniteSet(HubDevAddresses)
    /\ Configs # {} /\ Configs \subseteq RelayHubConfig
    /\ MinimumStakes \subseteq Nat /\ DeprecationTimes \subseteq Nat
    /\ EtherAmounts \subseteq Nat /\ GasLimits \subseteq Nat
    /\ GasPrices \subseteq Nat /\ CalldataGas \in Nat
    /\ AcceptanceBudget \in Nat /\ MaxNewWorkers \in Nat /\ MaxEther \in Nat

VARIABLES
    config,                 \* config
    minimumStakePerToken,   \* minimumStakePerToken
    workerToManager,        \* workerToManager
    workerCount,            \* workerCount
    balances,               \* balances
    deprecationTime,        \* deprecationTime
    ether,                  \* address(this).balance
    penalizableUntil        \* history: end of the last penalization window
                            \* opened by a relayCall of each manager

hubVars == <<config, minimumStakePerToken, workerToManager, workerCount,
             balances, deprecationTime, ether, penalizableUntil>>
vars == <<stakes, authorizedHubs, burnAddress, devAddress, tokenBalance, now,
          config, minimumStakePerToken, workerToManager, workerCount,
          balances, deprecationTime, ether, penalizableUntil>>

HubTypeOK ==
    /\ config \in Configs
    /\ minimumStakePerToken \in [Tokens -> Nat]
    /\ workerToManager \in [Workers -> Managers \union {NoAddress}]
    /\ workerCount \in [Managers -> Nat]
    /\ balances \in [HubAccounts -> Nat]
    /\ deprecationTime \in Nat
    /\ ether \in Nat
    /\ penalizableUntil \in [Managers -> Nat]

(* Every variable of the two contracts has its declared Solidity type.     *)
TypeOK == SMTypeOK /\ HubTypeOK

HubInit ==
    /\ config \in Configs
    /\ minimumStakePerToken = [t \in Tokens |-> 0]
    /\ workerToManager = [w \in Workers |-> NoAddress]
    /\ workerCount = [m \in Managers |-> 0]
    /\ balances = [a \in HubAccounts |-> 0]
    /\ deprecationTime = MaxUint
    /\ ether = 0
    /\ penalizableUntil = [m \in Managers |-> 0]

Init == SMInit /\ HubInit

----------------------------------------------------------------------------
Maximum(a, b) == IF a >= b THEN a ELSE b

IsDeprecated == now >= deprecationTime

(* Mutant: a pending withdrawal is not looked at. *)
VerifyIgnoresUnlock(m) ==
    /\ stakes[m].token # NoToken
    /\ stakes[m].stake >= minimumStakePerToken[stakes[m].token]
    /\ minimumStakePerToken[stakes[m].token] # 0
    /\ stakes[m].unstakeDelay >= config.minimumUnstakeDelay
    /\ IsHubAuthorized(m, Hub)

VerifyRelayManagerStaked(m) ==
    /\ stakes[m].token # NoToken
    /\ stakes[m].stake >= minimumStakePerToken[stakes[m].token]
    /\ minimumStakePerToken[stakes[m].token] # 0
    /\ stakes[m].unstakeDelay >= config.minimumUnstakeDelay
    /\ stakes[m].withdrawTime = 0
    /\ IsHubAuthorized(m, Hub)

(* chargeableGasPrice, the least of the signed caps and the transaction's  *)
(* own price, is the argument `price`.                                     *)
CalculateCharge(gasUsed, price) ==
    config.baseRelayFee + (gasUsed * price * (config.pctRelayFee + 100)) \div 100

(* verifyGasAndDataLimits looks at the most a call can cost before the     *)
(* inner call; what is charged after it is computed from the gas used.     *)
MaxPossibleCharge(gas, price) == CalculateCharge(CalldataGas + gas.initial, price)

GasUsed(gas) == CalldataGas + (gas.initial - gas.left) + config.gasOverhead

(* Mutant: the percentage is divided by ten. *)
DevChargePerTen(charge) ==
    IF config.devFee = 0 THEN 0 ELSE (charge * config.devFee) \div 10

CalculateDevCharge(charge) ==
    IF config.devFee = 0 THEN 0 ELSE (charge * config.devFee) \div 100

RevertStatuses == {"RejectedByPreRelayed", "RejectedByForwarder",
                   "RejectedByRecipientRevert", "PostRelayedFailed"}
InnerOutcomes == RevertStatuses \union {"OK", "RelayedCallFailed"}

(* Mutant: the paymaster's deposit is not compared with what it was. *)
InnerRelayCallUnchecked(pm, outcome, delta) ==
    IF outcome \in RevertStatuses
    THEN [success |-> FALSE, status |-> outcome, delta |-> 0]
    ELSE [success |-> TRUE, status |-> outcome, delta |-> delta]

(* innerRelayCall: what the paymaster and the recipient do, unless they    *)
(* revert; `delta` is the change of the paymaster's deposit they make by   *)
(* calling depositFor or withdraw, undone with everything else on revert.  *)
InnerRelayCall(pm, outcome, delta) ==
    IF outcome \in RevertStatuses
    THEN [success |-> FALSE, status |-> outcome, delta |-> 0]
    ELSE IF balances[pm] + delta < balances[pm]
    THEN [success |-> FALSE, status |-> "PaymasterBalanceChanged", delta |-> 0]
    ELSE [success |-> TRUE, status |-> outcome, delta |-> delta]

PaymasterDoesNotPay(inner, innerGasUsed) ==
    /\ ~inner.success
    /\ \/ inner.status = "RejectedByPreRelayed"
       \/ /\ innerGasUsed <= AcceptanceBudget + CalldataGas
          /\ inner.status \in {"RejectedByForwarder", "RejectedByRecipientRevert"}

----------------------------------------------------------------------------
SetConfiguration(c) ==
    /\ c.devFee < 100
    /\ config' = c
    /\ UNCHANGED <<minimumStakePerToken, workerToManager, workerCount, balances,
                   deprecationTime, ether, penalizableUntil, smVars>>

SetMinimumStakes(token, minimumStake) ==
    /\ minimumStakePerToken' = [minimumStakePerToken EXCEPT ![token] = minimumStake]
    /\ UNCHANGED <<config, workerToManager, workerCount, balances,
                   deprecationTime, ether, penalizableUntil, smVars>>

(* The RelayRegistrar's callback, with the manager as its sender. *)
OnRelayServerRegistered(m) ==
    /\ VerifyRelayManagerStaked(m)
    /\ workerCount[m] > 0
    /\ UpdateRelayKeepaliveTimeByHub(m, Hub)
    /\ UNCHANGED hubVars

(* Mutant: every worker is checked before any is added. *)
CheckedBeforeLoop(newRelayWorkers) ==
    \A i \in 1..Len(newRelayWorkers) : workerToManager[newRelayWorkers[i]] = NoAddress

(* The loop refuses a worker that has a manager, and so also one that the  *)
(* same list has already added.                                            *)
NoneHasManager(newRelayWorkers) ==
    /\ \A i \in 1..Len(newRelayWorkers) : workerToManager[newRelayWorkers[i]] = NoAddress
    /\ IsInjective(newRelayWorkers)

AddRelayWorkers(m, newRelayWorkers) ==
    LET n == Len(newRelayWorkers)
    IN  /\ workerCount[m] + n <= config.maxWorkerCount
        /\ VerifyRelayManagerStaked(m)
        /\ NoneHasManager(newRelayWorkers)
        /\ workerCount' = [workerCount EXCEPT ![m] = @ + n]
        /\ workerToManager' = [w \in Workers |->
              IF \E i \in 1..n : newRelayWorkers[i] = w THEN m ELSE workerToManager[w]]
        /\ UNCHANGED <<config, minimumStakePerToken, balances, deprecationTime,
                       ether, penalizableUntil, smVars>>

DepositFor(target, amount) ==
    /\ target \in Paymasters
    /\ ether + amount <= MaxEther
    /\ balances' = [balances EXCEPT ![target] = @ + amount]
    /\ ether' = ether + amount
    /\ UNCHANGED <<config, minimumStakePerToken, workerToManager, workerCount,
                   deprecationTime, penalizableUntil, smVars>>

(* withdraw and withdrawMultiple: each iteration debits the running        *)
(* balance before it sends, and one failure reverts them all, so the call  *)
(* needs, takes and pays the total.                                        *)
WithdrawMultiple(account, total) ==
    /\ balances[account] >= total
    /\ ether >= total
    /\ balances' = [balances EXCEPT ![account] = @ - total]
    /\ ether' = ether - total
    /\ UNCHANGED <<config, minimumStakePerToken, workerToManager, workerCount,
                   deprecationTime, penalizableUntil, smVars>>

(* relayCall by a worker (or for it by the batch gateway).  gasLeft is the *)
(* gas left when the charge is computed.  The checked subtraction of the   *)
(* charge reverts the call when the paymaster's deposit does not cover it. *)
RelayCall(worker, pm, outcome, delta, gas, price) ==
    LET m     == workerToManager[worker]
        inner == InnerRelayCall(pm, outcome, delta)
        charge    == CalculateCharge(GasUsed(gas), price)
        devCharge == CalculateDevCharge(charge)
        debited(a)  == IF a = pm THEN charge ELSE 0
        credited(a) == (IF a = pm THEN inner.delta ELSE 0)
                       + (IF a = m THEN charge - devCharge ELSE 0)
                       + (IF a = config.devAddress THEN devCharge ELSE 0)
    IN  /\ ~IsDeprecated
        /\ m # NoAddress
        /\ VerifyRelayManagerStaked(m)
        /\ MaxPossibleCharge(gas, price) <= balances[pm]
        /\ ether + inner.delta <= MaxEther
        /\ balances[pm] + delta >= 0
        /\ \/ /\ PaymasterDoesNotPay(inner, gas.inner)
              /\ UNCHANGED <<balances, ether>>
           \/ /\ ~PaymasterDoesNotPay(inner, gas.inner)
              /\ charge <= balances[pm] + inner.delta
              /\ balances' = [a \in HubAccounts |->
                                 balances[a] + credited(a) - debited(a)]
              /\ ether' = ether + inner.delta
        /\ penalizableUntil' = [penalizableUntil EXCEPT
              ![m] = Maximum(@, now + config.minimumUnstakeDelay)]
        /\ UNCHANGED <<config, minimumStakePerToken, workerToManager, workerCount,
                       deprecationTime, smVars>>

DeprecateHub(t) ==
    /\ ~IsDeprecated
    /\ deprecationTime' = t
    /\ UNCHANGED <<config, minimumStakePerToken, workerToManager, workerCount,
                   balances, ether, penalizableUntil, smVars>>

(* Called by the Penalizer: the whole stake of the worker's manager goes.  *)
Penalize(worker, beneficiary) ==
    LET m == workerToManager[worker]
    IN  /\ m # NoAddress
        /\ stakes[m].stake > 0
        /\ PenalizeRelayManager(Hub, m, beneficiary, stakes[m].stake)
        /\ UNCHANGED hubVars

(* Mutant: the manager keeps the balance that is escheated. *)
EscheatCopiesBalance(m) ==
    /\ IsRelayEscheatable(m)
    /\ balances' = [balances EXCEPT ![config.devAddress] = @ + balances[m]]
    /\ UNCHANGED <<config, minimumStakePerToken, workerToManager, workerCount,
                   deprecationTime, ether, penalizableUntil, smVars>>

EscheatAbandonedRelayBalance(m) ==
    /\ IsRelayEscheatable(m)
    /\ balances' = [a \in HubAccounts |->
                      (IF a = m THEN 0 ELSE balances[a])
                      + (IF a = config.devAddress THEN balances[m] ELSE 0)]
    /\ UNCHANGED <<config, minimumStakePerToken, workerToManager, workerCount,
                   deprecationTime, ether, penalizableUntil, smVars>>

----------------------------------------------------------------------------
(* Gas on entry, left when the charge is computed, used by the inner call. *)
GasMeasures ==
    UNION {{g \in [initial : {limit}, left : 0..limit, inner : 0..limit] :
               g.inner <= g.initial - g.left} : limit \in GasLimits}

DepositChanges == {0} \union EtherAmounts \union {-x : x \in EtherAmounts}

WorkerLists == UNION {[1..n -> Workers] : n \in 0..MaxNewWorkers}

RelayNext ==
    \E w \in Workers, pm \in Paymasters, outcome \in InnerOutcomes,
       delta \in DepositChanges, gas \in GasMeasures, price \in GasPrices :
          RelayCall(w, pm, outcome, delta, gas, price)

HubOwnerNext ==
    \/ \E c \in Configs : SetConfiguration(c)
    \/ \E t \in Tokens, s \in MinimumStakes : SetMinimumStakes(t, s)
    \/ \E t \in DeprecationTimes : DeprecateHub(t)
    \/ \E m \in Managers : EscheatAbandonedRelayBalance(m)

HubUsersNext ==
    \/ \E m \in Managers, ws \in WorkerLists : AddRelayWorkers(m, ws)
    \/ \E pm \in Paymasters, x \in EtherAmounts : DepositFor(pm, x)
    \/ \E a \in HubAccounts, x \in EtherAmounts : WithdrawMultiple(a, x)
    \/ \E w \in Workers, b \in Accounts : Penalize(w, b)

HubCallsNext == (\E m \in Managers : OnRelayServerRegistered(m)) \/ HubUsersNext

(* Direct calls to the StakeManager; this hub makes none of its own accord. *)
StakeManagerNext ==
    /\ \/ AdministrationNext
       \/ \E h \in Hubs \ {Hub} : HubNext(h)
       \/ Tick
    /\ UNCHANGED hubVars

Next == RelayNext \/ HubOwnerNext \/ HubCallsNext \/ StakeManagerNext

Spec == Init /\ [][Next]_vars

----------------------------------------------------------------------------
(* Safety.                                                                 *)

(* For as long as a relayCall that this hub accepted can still be punished *)
(* (minimumUnstakeDelay after it), the hub's right to slash the manager    *)
(* has not expired and the owner has no stake withdrawal that is due.      *)
PenalizationWindow ==
    \A m \in Managers :
        now < penalizableUntil[m] =>
            /\ authorizedHubs[m][Hub] > now
            /\ stakes[m].withdrawTime = 0 \/ stakes[m].withdrawTime > now

(* Why: a window never outlasts the unstake delay that unlocking, and      *)
(* taking the hub's authorization away, would have to wait for.            *)
WindowInv ==
    \A m \in Managers :
        /\ penalizableUntil[m] <= now + stakes[m].unstakeDelay
        /\ stakes[m].unstakeDelay <= MaxUnstakeDelay
        /\ stakes[m].withdrawTime # 0 => stakes[m].withdrawTime >= penalizableUntil[m]
        /\ authorizedHubs[m][Hub] >= penalizableUntil[m]

(* While the window is open and only this hub may slash, a stake that      *)
(* shrinks goes as a whole, and its owner, reporting its own manager, gets *)
(* back at most half of it, rounded up: a lost stake of two units or more  *)
(* costs something.  A foreign hub that the owner authorized may slash     *)
(* unit by unit, and nothing is burned of one unit.                        *)
OnlyThisHubMaySlash(m) == \A h \in Hubs \ {Hub} : authorizedHubs[m][h] <= now

SlashHalvesStakeStep ==
    \A m \in Managers :
        LET before == stakes[m].stake
            t      == stakes[m].token
            o      == stakes[m].owner
        IN  /\ now < penalizableUntil[m] /\ OnlyThisHubMaySlash(m)
            /\ stakes'[m].stake < before
            => /\ stakes'[m].stake = 0
               /\ tokenBalance'[t][o] - tokenBalance[t][o] <= (before + 1) \div 2
SlashHalvesStake == [][SlashHalvesStakeStep]_vars

(* The hub holds exactly the ether it owes to paymasters, relay managers   *)
(* and the dev address, after any mix of charges, call-backs made during   *)
(* relayed calls, withdrawals and escheats.                                *)
HubSolvent == ether = SumFunction(balances)

(* workerCount, which bounds and gates registration, counts the workers    *)
(* that really map to the manager, duplicate lists included.               *)
WorkerCountExact ==
    \A m \in Managers :
        workerCount[m] = Cardinality({w \in Workers : workerToManager[w] = m})

(* A relayed call that passed the check at its entry can always be charged *)
(* for, so that the relay is paid and not reverted: nothing the paymaster  *)
(* does by calling the hub back in between makes the deposit too small.    *)
(* The configured overhead is not part of the entry check, so this needs   *)
(* as much gas left over when the charge is computed.                      *)
AcceptedCallIsCharged ==
    \A pm \in Paymasters, outcome \in InnerOutcomes, delta \in DepositChanges,
       gas \in GasMeasures, price \in GasPrices :
        /\ MaxPossibleCharge(gas, price) <= balances[pm]
        /\ config.gasOverhead <= gas.left
        => CalculateCharge(GasUsed(gas), price)
              <= balances[pm] + InnerRelayCall(pm, outcome, delta).delta
===========================================================================
