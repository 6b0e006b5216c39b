--------------------------- MODULE PermitPaymaster ---------------------------
(***************************************************************************)
(* PermitERC20UniswapV3Paymaster (packages/paymasters/contracts/) on top   *)
(* of BasePaymaster, with the part of a relayCall that concerns it: the    *)
(* payer is charged in tokens, the paymaster is charged in ether by the    *)
(* RelayHub, and tokens are swapped to keep the deposit in the hub up.     *)
(*                                                                         *)
(* A relayCall is one transaction, in two steps: preRelayedCall, and       *)
(* postRelayedCall with the hub's charge.  What the paymaster's functions  *)
(* and its environment do in between is done by the relayed call.  Charges *)
(* are in wei, a quote is the wei that Scale units of a token are worth.   *)
(***************************************************************************)
EXTENDS Integers, Sequences, Functions

CONSTANTS
    Tokens,             \* ERC-20 tokens
    TokenLists,         \* token lists offered to setUniswapConfig
    Quotes,             \* answers of the price feeds, as actual quotes
    Scale,              \* 1e36
    Slippage,           \* slippage of every token, in thousandths
    MinSwapAmount,      \* minSwapAmount
    Configs,            \* configurations offered to setGasAndEthConfig
    Charges,            \* charges in wei
    EtherAmounts,       \* deposits, gifts and withdrawals
    MaxEther,           \* bound: ether of the paymaster in the hub
    MaxPurse,           \* bound: ether it holds itself
    MaxHeld,            \* bound: tokens of one kind that the paymaster holds
    MaxBlock,           \* bound: the last block explored
    MaxInner            \* bound: what one relayed call does to the paymaster

GasAndEthConfig == [minHubBalance : Nat, targetHubBalance : Nat,
                    minWithdrawalAmount : Nat, paymasterFee : Nat]

ASSUME PaymasterAssumption ==
    /\ TokenLists \subseteq Seq(Tokens) /\ TokenLists # {}
    /\ Quotes \subseteq Nat \ {0} /\ Quotes # {} /\ Scale \in Nat \ {0}
    /\ Slippage \in 0..1000 /\ MinSwapAmount \in Nat
    /\ Configs \subseteq GasAndEthConfig /\ Configs # {}
    /\ Charges \subseteq Nat /\ EtherAmounts \subseteq Nat
    /\ MaxEther \in Nat /\ MaxPurse \in Nat /\ MaxHeld \in Nat /\ MaxBlock \in Nat \ {0}
    /\ MaxInner \in Nat

VARIABLES
    deposit,            \* the hub's balances[paymaster]
    purse,              \* address(this).balance
    held,               \* tokens that the paymaster holds
    tokens,             \* tokens
    validFrom,          \* tokensSwapData[t].validFromBlockNumber
    tokensBlockNumber,  \* tokensBlockNumber
    gasAndEth,          \* what setGasAndEthConfig stored
    quote,              \* the price feeds
    block,              \* block.number
    frame,              \* the innerRelayCall under way, if there is one
    relayed             \* history: how the relayCall just made went

configVars == <<tokens, validFrom, tokensBlockNumber, gasAndEth>>
chainVars == <<quote, block>>
vars == <<deposit, purse, held, tokens, validFrom, tokensBlockNumber, gasAndEth,
          quote, block, frame, relayed>>

(* What the reversal of an innerRelayCall restores. *)
Paymaster == [deposit |-> deposit, purse |-> purse, held |-> held, tokens |-> tokens,
              validFrom |-> validFrom, tokensBlockNumber |-> tokensBlockNumber,
              gasAndEth |-> gasAndEth, quote |-> quote]

Paymasters == [deposit : Nat, purse : Nat, held : [Tokens -> Nat], tokens : Seq(Tokens),
               validFrom : [Tokens -> 0..MaxBlock], tokensBlockNumber : 1..MaxBlock,
               gasAndEth : Configs, quote : [Tokens -> Quotes]]

(* The context of preRelayedCall, the charge for maxPossibleGas, the state *)
(* before, and what the relayed call has done: how much, whether through a *)
(* function of the owner, and whether with setRelayHub.                    *)
Frames == [token : Tokens, quote : Quotes, preCharge : Nat, maxCharge : Charges,
           before : Paymasters, inner : Nat, byOwner : BOOLEAN, moved : BOOLEAN]

NoCall == [status |-> "none", overestimated |-> FALSE, underestimated |-> FALSE,
           surplus |-> FALSE, byOwner |-> FALSE, outOfGas |-> FALSE, covered |-> TRUE,
           soldOut |-> TRUE, toOwner |-> 0]

Statuses == {"none", "OK", "RejectedByForwarder", "PostRelayedFailed",
             "PaymasterBalanceChanged"}

(* Balances never wrap below zero, wherever the code subtracts.            *)
TypeOK ==
    /\ deposit \in Nat /\ purse \in Nat
    /\ held \in [Tokens -> Nat]
    /\ tokens \in Seq(Tokens)
    /\ validFrom \in [Tokens -> 0..MaxBlock] /\ tokensBlockNumber \in 1..MaxBlock
    /\ gasAndEth \in Configs
    /\ quote \in [Tokens -> Quotes]
    /\ block \in 1..MaxBlock
    /\ frame \subseteq Frames
    /\ relayed.status \in Statuses
    /\ relayed.toOwner \in Nat

(* The constructor runs setUniswapConfig and setGasAndEthConfig.           *)
Init ==
    /\ deposit = 0 /\ purse = 0
    /\ held = [t \in Tokens |-> 0]
    /\ tokens \in TokenLists
    /\ validFrom = [t \in Tokens |-> IF t \in Range(tokens) THEN 1 ELSE 0]
    /\ tokensBlockNumber = 1
    /\ gasAndEth \in Configs
    /\ quote \in [Tokens -> Quotes]
    /\ block = 1
    /\ frame = {}
    /\ relayed = NoCall

----------------------------------------------------------------------------
(* Conversions, with the rounding of Solidity's division.                  *)

TokenToWei(amount, q) == (amount * q) \div Scale

(* Mutant: the factors are swapped. *)
WeiToTokenInverted(amount, q) == (amount * q) \div Scale

WeiToToken(amount, q) == (amount * Scale) \div q

AddPaymasterFee(charge) == (charge * (100 + gasAndEth.paymasterFee)) \div 100

AddSlippage(amount) == (amount * (1000 - Slippage)) \div 1000

TokenCharge(ethCharge, q) == AddPaymasterFee(WeiToToken(ethCharge, q))

IsTokenSupported(t) == validFrom[t] = tokensBlockNumber

----------------------------------------------------------------------------
(* _refillHubDeposit.                                                      *)

AmountOutMin(holding, t) == AddSlippage(TokenToWei(holding[t], quote[t]))

(* A swap that Uniswap refuses, for a pool that is not liquid, counts as   *)
(* zero; one that goes through yields the least amount accepted.           *)
IsSwapped(holding, t, liquid) ==
    /\ holding[t] > 0
    /\ AmountOutMin(holding, t) >= MinSwapAmount
    /\ t \in liquid

(* The loop: what was obtained and what is still held after each token.    *)
Swaps(holding, wanted, liquid) ==
    LET after[i \in 0..Len(tokens)] ==
          IF i = 0 THEN [wei |-> 0, holding |-> holding]
          ELSE LET prev == after[i - 1]
                   t == tokens[i]
               IN  IF prev.wei < wanted /\ IsSwapped(prev.holding, t, liquid)
                   THEN [wei |-> prev.wei + AmountOutMin(prev.holding, t),
                         holding |-> [prev.holding EXCEPT ![t] = 0]]
                   ELSE prev
    IN  after[Len(tokens)]

(* Everything there is goes to the hub, though depositAmount was wanted.   *)
Refilled(hubBalance, wallet, holding, depositAmount, liquid) ==
    LET swaps == IF wallet < depositAmount
                 THEN Swaps(holding, depositAmount - wallet, liquid)
                 ELSE [wei |-> 0, holding |-> holding]
    IN  [hubBalance |-> hubBalance + wallet + swaps.wei, purse |-> 0,
         held |-> swaps.holding]

(* Mutant: the charge that the hub is about to make is forgotten. *)
NeedsRefillNow(hubBalance, ethCharge) == hubBalance < gasAndEth.minHubBalance

NeedsRefill(hubBalance, ethCharge) == hubBalance < gasAndEth.minHubBalance + ethCharge

(* targetHubBalance - hubBalance is evaluated first, and checked. *)
RefillReverts(hubBalance, ethCharge) ==
    /\ NeedsRefill(hubBalance, ethCharge)
    /\ gasAndEth.targetHubBalance < hubBalance

RefillHubDepositIfNeeded(hubBalance, holding, ethCharge, liquid) ==
    IF NeedsRefill(hubBalance, ethCharge)
    THEN Refilled(hubBalance, purse, holding,
                  gasAndEth.targetHubBalance - hubBalance + ethCharge, liquid)
    ELSE [hubBalance |-> hubBalance, purse |-> purse, held |-> holding]

(* Mutant: the minimum withdrawal is not looked at. *)
WithdrawnUnguarded(hubBalance) == hubBalance - gasAndEth.targetHubBalance

(* Mutant: everything is withdrawn. *)
WithdrawnAll(hubBalance) ==
    IF hubBalance >= gasAndEth.minWithdrawalAmount + gasAndEth.targetHubBalance
    THEN hubBalance ELSE 0

(* _withdrawToOwnerIfNeeded *)
WithdrawnToOwner(hubBalance) ==
    IF hubBalance >= gasAndEth.minWithdrawalAmount + gasAndEth.targetHubBalance
    THEN hubBalance - gasAndEth.targetHubBalance ELSE 0

----------------------------------------------------------------------------
(* A relayCall.                                                            *)

(* The hub's checks and preRelayedCall for a request that names the token  *)
(* t and is accepted; maxCharge is the charge for maxPossibleGas.          *)
PreRelayedCall(t, maxCharge) ==
    LET preCharge == TokenCharge(maxCharge, quote[t])
    IN  /\ frame = {}
        /\ maxCharge <= deposit
        /\ IsTokenSupported(t)
        /\ held' = [held EXCEPT ![t] = @ + preCharge]
        /\ frame' = {[token |-> t, quote |-> quote[t], preCharge |-> preCharge,
                      maxCharge |-> maxCharge, before |-> Paymaster, inner |-> 0,
                      byOwner |-> FALSE, moved |-> FALSE]}
        /\ relayed' = NoCall
        /\ UNCHANGED <<deposit, purse, configVars, chainVars>>

(* innerRelayCall reverts and the hub takes its charge all the same.       *)
ChargeUndone(f, hubCharge) ==
    /\ hubCharge <= f.maxCharge
    /\ deposit' = f.before.deposit - hubCharge
    /\ purse' = f.before.purse
    /\ held' = f.before.held
    /\ tokens' = f.before.tokens
    /\ validFrom' = f.before.validFrom
    /\ tokensBlockNumber' = f.before.tokensBlockNumber
    /\ gasAndEth' = f.before.gasAndEth
    /\ quote' = f.before.quote
    /\ frame' = {}
    /\ UNCHANGED block

(* The Forwarder rejects the call when the acceptance budget is used up.   *)
RejectedByForwarder(f, hubCharge) ==
    /\ f.inner = 0
    /\ ChargeUndone(f, hubCharge)
    /\ relayed' = [NoCall EXCEPT !.status = "RejectedByForwarder"]

(* postRelayedCall needs more gas than the limit the paymaster declares.   *)
PostRunsOutOfGas(f, hubCharge) ==
    /\ ChargeUndone(f, hubCharge)
    /\ relayed' = [NoCall EXCEPT !.status = "PostRelayedFailed", !.byOwner = f.byOwner,
                                 !.outOfGas = TRUE]

(* postRelayedCall, innerRelayCall's comparison of the deposit with the    *)
(* one before, and the charge.  ethCharge is the charge for the gas        *)
(* estimate of postRelayedCall, hubCharge what the hub takes in the end.   *)
PostRelayedCall(f, ethCharge, hubCharge, liquid) ==
    LET charged   == TokenCharge(ethCharge, f.quote)
        refund    == f.preCharge - charged
        postFails == \/ f.moved
                     \/ charged > f.preCharge
                     \/ held[f.token] < refund
                     \/ RefillReverts(deposit, ethCharge)
        refill    == RefillHubDepositIfNeeded(deposit,
                         [held EXCEPT ![f.token] = @ - refund], ethCharge, liquid)
        toOwner   == WithdrawnToOwner(refill.hubBalance)
        result    == IF postFails THEN "PostRelayedFailed"
                     ELSE IF refill.hubBalance - toOwner < f.before.deposit
                     THEN "PaymasterBalanceChanged" ELSE "OK"
        record(sold, sent) ==
            [status |-> result,
             overestimated |-> ethCharge > f.maxCharge,
             underestimated |-> hubCharge > ethCharge,
             surplus |-> deposit > gasAndEth.targetHubBalance,
             byOwner |-> f.byOwner, outOfGas |-> FALSE,
             covered |-> TokenToWei(charged + 1, f.quote) >= ethCharge,
             soldOut |-> sold, toOwner |-> sent]
    IN  \/ /\ result = "OK"
           /\ hubCharge <= f.maxCharge
           /\ refill.hubBalance <= MaxEther
           /\ \A t \in Tokens : refill.held[t] <= MaxHeld
           /\ deposit' = refill.hubBalance - toOwner - hubCharge
           /\ purse' = refill.purse
           /\ held' = refill.held
           /\ frame' = {}
           /\ relayed' = record(\A k \in Range(tokens) : ~IsSwapped(refill.held, k, liquid),
                                toOwner)
           /\ UNCHANGED <<configVars, chainVars>>
        \/ /\ result # "OK"
           /\ ChargeUndone(f, hubCharge)
           /\ relayed' = record(FALSE, 0)

----------------------------------------------------------------------------
(* The owner.                                                              *)

(* setUniswapConfig and its setTokens; data of a token that is no longer   *)
(* listed stays, with its block number.                                    *)
SetUniswapConfig(list) ==
    /\ tokens' = list
    /\ tokensBlockNumber' = block
    /\ validFrom' = [t \in Tokens |-> IF t \in Range(list) THEN block ELSE validFrom[t]]
    /\ UNCHANGED <<deposit, purse, held, gasAndEth, chainVars>>

SetGasAndEthConfig(c) ==
    /\ gasAndEth' = c
    /\ UNCHANGED <<deposit, purse, held, tokens, validFrom, tokensBlockNumber,
                   chainVars>>

(* Payable: `value` is in the purse when the call starts. *)
RefillHubDeposit(amount, value, liquid) ==
    LET refill == Refilled(deposit, purse + value, held, amount, liquid)
    IN  /\ refill.hubBalance <= MaxEther
        /\ deposit' = refill.hubBalance
        /\ purse' = refill.purse
        /\ held' = refill.held
        /\ UNCHANGED <<configVars, chainVars>>

WithdrawTokens(t, amount) ==
    /\ amount <= held[t]
    /\ held' = [held EXCEPT ![t] = @ - amount]
    /\ UNCHANGED <<deposit, purse, configVars, chainVars>>

WithdrawRelayHubDepositTo(amount) ==
    /\ amount <= deposit
    /\ deposit' = deposit - amount
    /\ UNCHANGED <<purse, held, configVars, chainVars>>

(* As a relayed call; postRelayedCall then refuses the hub of the frame.   *)
(* The paymaster of another hub is not followed further.                   *)
SetRelayHub ==
    /\ frame # {}
    /\ UNCHANGED <<deposit, purse, held, configVars, chainVars>>

----------------------------------------------------------------------------
(* Everybody else.                                                         *)

(* receive() keeps the ether, unlike the one it overrides. *)
Receive(value) ==
    /\ purse + value <= MaxPurse
    /\ purse' = purse + value
    /\ UNCHANGED <<deposit, held, configVars, chainVars>>

(* The hub's depositFor, which anybody may call for the paymaster. *)
DepositFor(value) ==
    /\ deposit + value <= MaxEther
    /\ deposit' = deposit + value
    /\ UNCHANGED <<purse, held, configVars, chainVars>>

PriceMoves(t, q) ==
    /\ quote' = [quote EXCEPT ![t] = q]
    /\ UNCHANGED <<deposit, purse, held, configVars, block>>

NextBlock ==
    /\ frame = {}
    /\ block < MaxBlock
    /\ block' = block + 1
    /\ UNCHANGED <<deposit, purse, held, configVars, quote>>

RelayNext ==
    \/ \E t \in Tokens, maxCharge \in Charges : PreRelayedCall(t, maxCharge)
    \/ \E f \in frame, hubCharge \in Charges :
          \/ RejectedByForwarder(f, hubCharge)
          \/ PostRunsOutOfGas(f, hubCharge)
          \/ \E ethCharge \in Charges, liquid \in SUBSET Tokens :
                PostRelayedCall(f, ethCharge, hubCharge, liquid)

(* Functions of the owner.  onlyOwner reads the ERC-2771 sender, so they   *)
(* may be relayed, and these may then make postRelayedCall fail or the     *)
(* deposit smaller.                                                        *)
OwnerNext ==
    \/ \E c \in Configs : SetGasAndEthConfig(c)
    \/ \E amount, value \in EtherAmounts, liquid \in SUBSET Tokens :
          RefillHubDeposit(amount, value, liquid)
    \/ \E t \in Tokens, amount \in EtherAmounts : WithdrawTokens(t, amount)
    \/ \E amount \in EtherAmounts : WithdrawRelayHubDepositTo(amount)

OthersNext ==
    \/ \E value \in EtherAmounts : Receive(value) \/ DepositFor(value)
    \/ \E t \in Tokens, q \in Quotes : PriceMoves(t, q)
    \/ NextBlock

(* The frame after one more call made from within.                         *)
Touched(f, byOwner, moved) ==
    [f EXCEPT !.inner = @ + 1, !.byOwner = @ \/ byOwner, !.moved = @ \/ moved]

(* The call is made by itself, or by the relayed call of the frame.        *)
Inside(byOwner, moved) ==
    /\ \A f \in frame : f.inner < MaxInner
    /\ frame' = {Touched(f, byOwner, moved) : f \in frame}
    /\ relayed' = NoCall

Next ==
    \/ RelayNext
    \/ OwnerNext /\ Inside(TRUE, FALSE)
    \/ SetRelayHub /\ Inside(TRUE, TRUE)
    \/ (\E list \in TokenLists : SetUniswapConfig(list)) /\ Inside(FALSE, FALSE)
    \/ OthersNext /\ Inside(FALSE, FALSE)

Spec == Init /\ [][Next]_vars

----------------------------------------------------------------------------
(* Properties.                                                             *)

(* The tokens of a call that went through are worth the ether charge at    *)
(* the quote they were charged at, short of one unit lost in rounding.     *)
PayerCoversCharge == relayed.status = "OK" => relayed.covered

(* The paymaster pays the hub for a call that the Forwarder executed and   *)
(* whose effects were then undone only if its deposit was above the        *)
(* target, the estimate of the gas used above the most gas the call could  *)
(* use, postRelayedCall out of gas, or the call the owner's own            *)
(* interference: what anybody else relays, and setUniswapConfig, never     *)
(* makes it pay for nothing.                                               *)
ChargedForNothing ==
    relayed.status \in {"PostRelayedFailed", "PaymasterBalanceChanged"} =>
        \/ relayed.overestimated \/ relayed.surplus
        \/ relayed.outOfGas \/ relayed.byOwner

(* A call that went through leaves minHubBalance in the hub, unless the    *)
(* paymaster has spent all ether and found none of its listed tokens worth *)
(* swapping or liquid.  It needs an estimate of the gas that is not short, *)
(* and a target that is above the minimum by any charge.                   *)
RefilledAfterCallStep ==
    (/\ relayed'.status = "OK" /\ ~relayed'.underestimated
     /\ \A c \in Charges : gasAndEth.targetHubBalance >= gasAndEth.minHubBalance + c)
    => \/ deposit' >= gasAndEth.minHubBalance
       \/ purse' = 0 /\ relayed'.soldOut
RefilledAfterCall == [][RefilledAfterCallStep]_vars

(* "Minimum eth amount, above targetHubBalance, to send to the owner": a   *)
(* relayed call that finds that much in the hub sends it.                  *)
SurplusGoesToOwnerStep ==
    (/\ relayed'.status \in {"OK", "PostRelayedFailed", "PaymasterBalanceChanged"}
     /\ ~relayed'.overestimated /\ ~relayed'.outOfGas /\ ~relayed'.byOwner
     /\ deposit >= gasAndEth.minWithdrawalAmount + gasAndEth.targetHubBalance)
    => relayed'.toOwner > 0
SurplusGoesToOwner == [][SurplusGoesToOwnerStep]_vars
==============================================================================
