------------------------ MODULE PermitPaymasterProofs ------------------------
(***************************************************************************)
(* Proofs about PermitPaymaster for any tokens, prices, charges and        *)
(* configurations, and any division Scale.                                 *)
(***************************************************************************)
EXTENDS PermitPaymaster, InductionLemmas, TLAPS

(* Solidity's division rounds down.                                        *)
LEMMA DivBounds ==
    ASSUME NEW a \in Nat, NEW b \in Nat \ {0}
    PROVE  /\ a \div b \in Nat
           /\ (a \div b) * b <= a
           /\ a < (a \div b + 1) * b
  OBVIOUS

LEMMA DivAtLeast ==
    ASSUME NEW a \in Nat, NEW b \in Nat \ {0}, NEW n \in Nat, n * b <= a
    PROVE  n <= a \div b
  <1>1. a \div b \in Nat /\ a < (a \div b + 1) * b
    BY DivBounds
  <1> DEFINE d == a \div b
  <1> HIDE DEF d
  <1>2. n * b < (d + 1) * b /\ d \in Nat
    BY <1>1 DEF d
  <1>3. n < d + 1
    BY <1>2
  <1> QED BY <1>2, <1>3 DEF d

LEMMA DivMonotone ==
    ASSUME NEW a \in Nat, NEW c \in Nat, a <= c, NEW b \in Nat \ {0}
    PROVE  a \div b <= c \div b
  <1>1. a \div b \in Nat /\ (a \div b) * b <= a
    BY DivBounds
  <1> QED BY <1>1, DivAtLeast

LEMMA TimesMonotone ==
    ASSUME NEW a \in Nat, NEW c \in Nat, a <= c, NEW b \in Nat
    PROVE  a * b <= c * b /\ a * b \in Nat /\ c * b \in Nat
  OBVIOUS

----------------------------------------------------------------------------
(* Conversions.                                                            *)

LEMMA WeiToTokenType ==
    ASSUME NEW e \in Nat, NEW q \in Quotes
    PROVE  WeiToToken(e, q) \in Nat
  <1>1. e * Scale \in Nat /\ q \in Nat \ {0}
    BY PaymasterAssumption, TimesMonotone DEF PaymasterAssumption
  <1> QED BY <1>1, DivBounds DEF WeiToToken

LEMMA TokenToWeiType ==
    ASSUME NEW n \in Nat, NEW q \in Quotes
    PROVE  TokenToWei(n, q) \in Nat
  <1>1. q \in Nat /\ Scale \in Nat \ {0}
    BY PaymasterAssumption DEF PaymasterAssumption
  <1>2. n * q \in Nat
    BY <1>1, TimesMonotone
  <1> QED BY <1>1, <1>2, DivBounds DEF TokenToWei

LEMMA FeeIsAdded ==
    ASSUME NEW n \in Nat, gasAndEth.paymasterFee \in Nat
    PROVE  AddPaymasterFee(n) \in Nat /\ n <= AddPaymasterFee(n)
  <1> DEFINE k == 100 + gasAndEth.paymasterFee
  <1>1. k \in Nat /\ 100 <= k
    OBVIOUS
  <1> HIDE DEF k
  <1>2. n * 100 <= n * k /\ n * k \in Nat
    BY <1>1
  <1>3. n <= (n * k) \div 100 /\ (n * k) \div 100 \in Nat
    BY <1>2, DivAtLeast, DivBounds
  <1> QED BY <1>3 DEF AddPaymasterFee, k

LEMMA FeeIsMonotone ==
    ASSUME NEW n \in Nat, NEW m \in Nat, n <= m, gasAndEth.paymasterFee \in Nat
    PROVE  AddPaymasterFee(n) <= AddPaymasterFee(m)
  <1> DEFINE k == 100 + gasAndEth.paymasterFee
  <1>1. k \in Nat
    OBVIOUS
  <1> HIDE DEF k
  <1>2. n * k <= m * k /\ n * k \in Nat /\ m * k \in Nat
    BY <1>1, TimesMonotone
  <1>3. (n * k) \div 100 <= (m * k) \div 100
    BY <1>2, DivMonotone
  <1> QED BY <1>3 DEF AddPaymasterFee, k

LEMMA TokenChargeType ==
    ASSUME NEW e \in Nat, NEW q \in Quotes, gasAndEth.paymasterFee \in Nat
    PROVE  TokenCharge(e, q) \in Nat
  BY WeiToTokenType, FeeIsAdded DEF TokenCharge

LEMMA TokenChargeIsMonotone ==
    ASSUME NEW e \in Nat, NEW f \in Nat, e <= f, NEW q \in Quotes,
           gasAndEth.paymasterFee \in Nat
    PROVE  TokenCharge(e, q) <= TokenCharge(f, q)
  <1>1. e * Scale <= f * Scale /\ e * Scale \in Nat /\ f * Scale \in Nat /\ q \in Nat \ {0}
    BY PaymasterAssumption, TimesMonotone DEF PaymasterAssumption
  <1>2. WeiToToken(e, q) <= WeiToToken(f, q)
    BY <1>1, DivMonotone DEF WeiToToken
  <1>3. WeiToToken(e, q) \in Nat /\ WeiToToken(f, q) \in Nat
    BY WeiToTokenType
  <1> QED BY <1>2, <1>3, FeeIsMonotone DEF TokenCharge

(* The tokens charged, and one unit more, are worth the charge in wei: two *)
(* divisions round down, the fee only adds.                                *)
LEMMA ChargeIsCovered ==
    ASSUME NEW e \in Nat, NEW q \in Quotes, gasAndEth.paymasterFee \in Nat
    PROVE  TokenToWei(TokenCharge(e, q) + 1, q) >= e
  <1> DEFINE w == WeiToToken(e, q)
             c == TokenCharge(e, q)
  <1>1. q \in Nat \ {0} /\ Scale \in Nat \ {0}
    BY PaymasterAssumption DEF PaymasterAssumption
  <1>2. w \in Nat /\ c \in Nat /\ w <= c
    BY WeiToTokenType, FeeIsAdded DEF TokenCharge
  <1>3. e * Scale \in Nat
    BY <1>1, TimesMonotone
  <1>4. e * Scale < (w + 1) * q
    BY <1>1, <1>3, DivBounds DEF WeiToToken
  <1> HIDE DEF w, c
  <1>5. (w + 1) * q <= (c + 1) * q /\ (c + 1) * q \in Nat /\ (w + 1) * q \in Nat
    BY <1>1, <1>2, TimesMonotone
  <1>6. e * Scale <= (c + 1) * q
    BY <1>3, <1>4, <1>5
  <1>7. e <= ((c + 1) * q) \div Scale
    BY <1>1, <1>5, <1>6, DivAtLeast
  <1>8. TokenToWei(c + 1, q) \in Nat
    BY <1>2, TokenToWeiType
  <1> QED BY <1>7, <1>8 DEF TokenToWei, c

----------------------------------------------------------------------------
(* The loop of _refillHubDeposit, with its turns named.                    *)
SwapTurn(prev, wanted, t, liquid) ==
    IF prev.wei < wanted /\ IsSwapped(prev.holding, t, liquid)
    THEN [wei |-> prev.wei + AmountOutMin(prev.holding, t),
          holding |-> [prev.holding EXCEPT ![t] = 0]]
    ELSE prev

AreTurns(after, n, holding, wanted, liquid) ==
    after = [i \in 0..n |->
               IF i = 0 THEN [wei |-> 0, holding |-> holding]
               ELSE SwapTurn(after[i - 1], wanted, tokens[i], liquid)]

LEMMA TurnsExist ==
    ASSUME NEW n \in Nat, NEW holding, NEW wanted, NEW liquid
    PROVE  \E after : AreTurns(after, n, holding, wanted, liquid)
  <1> DEFINE B == {m \in Nat : ~\E after : AreTurns(after, m, holding, wanted, liquid)}
             start == [wei |-> 0, holding |-> holding]
  <1> SUFFICES ASSUME B # {} PROVE FALSE
    OBVIOUS
  <1>1. PICK m \in B : \A j \in B : m <= j
    <2>1. B \in SUBSET Nat
      OBVIOUS
    <2> HIDE DEF B
    <2> QED BY <2>1, LeastNumber
  <1>2. m # 0
    <2> HIDE DEF start
    <2>1. AreTurns([i \in 0..0 |-> start], 0, holding, wanted, liquid)
      BY DEF AreTurns, start
    <2> QED BY <1>1, <2>1
  <1>3. PICK a : AreTurns(a, m - 1, holding, wanted, liquid)
    BY <1>1, <1>2
  <1> HIDE DEF start
  <1> DEFINE e == [i \in 0..m |->
                     IF i # m THEN a[i] ELSE SwapTurn(a[m - 1], wanted, tokens[m], liquid)]
  <1>4. ASSUME NEW i \in 0..m
        PROVE  e[i] = IF i = 0 THEN start ELSE SwapTurn(e[i - 1], wanted, tokens[i], liquid)
    <2>1. CASE i = m
      <3>1. e[i - 1] = a[m - 1] /\ i # 0
        BY <1>2, <2>1
      <3> QED BY <2>1, <3>1
    <2>2. CASE i # m
      <3>1. i \in 0..(m - 1) /\ m - 1 \in Nat
        BY <1>2, <2>2
      <3>2. e[i] = a[i] /\ (i # 0 => e[i - 1] = a[i - 1])
        BY <2>2
      <3> HIDE DEF e
      <3>3. a[i] = IF i = 0 THEN start ELSE SwapTurn(a[i - 1], wanted, tokens[i], liquid)
        BY <1>3, <3>1, Zenon DEF AreTurns, start
      <3> QED BY <3>2, <3>3, Zenon
    <2> QED BY <2>1, <2>2
  <1>5. AreTurns(e, m, holding, wanted, liquid)
    <2>1. e = [i \in 0..m |-> e[i]]
      OBVIOUS
    <2> HIDE DEF e
    <2> QED BY <1>4, <2>1, Zenon DEF AreTurns, start
  <1> QED BY <1>1, <1>5

(* After the turns of a set of tokens, the loop has what it wanted or none *)
(* of them is left to be swapped.                                          *)
Sold(state, done, wanted, liquid) ==
    /\ state.wei \in Nat /\ state.holding \in [Tokens -> Nat]
    /\ state.wei < wanted => \A t \in done : ~IsSwapped(state.holding, t, liquid)

LEMMA AmountOutMinType ==
    ASSUME NEW holding \in [Tokens -> Nat], NEW t \in Tokens, quote \in [Tokens -> Quotes]
    PROVE  AmountOutMin(holding, t) \in Nat
  <1> DEFINE w == TokenToWei(holding[t], quote[t])
  <1>1. w \in Nat
    BY TokenToWeiType
  <1> HIDE DEF w
  <1>2. 1000 - Slippage \in Nat
    BY PaymasterAssumption DEF PaymasterAssumption
  <1>3. w * (1000 - Slippage) \in Nat
    BY <1>1, <1>2, TimesMonotone
  <1> QED BY <1>3, DivBounds DEF AmountOutMin, AddSlippage, w

LEMMA TurnSells ==
    ASSUME quote \in [Tokens -> Quotes], NEW state, NEW done \in SUBSET Tokens,
           NEW wanted \in Int, NEW liquid, Sold(state, done, wanted, liquid), NEW t \in Tokens
    PROVE  Sold(SwapTurn(state, wanted, t, liquid), done \union {t}, wanted, liquid)
  <1> DEFINE w == AmountOutMin(state.holding, t)
             sold == [state.holding EXCEPT ![t] = 0]
  <1>1. w \in Nat
    BY AmountOutMinType DEF Sold
  <1> HIDE DEF w
  <1>2. CASE state.wei < wanted /\ IsSwapped(state.holding, t, liquid)
    <2>1. SwapTurn(state, wanted, t, liquid) = [wei |-> state.wei + w, holding |-> sold]
      BY <1>2, Zenon DEF SwapTurn, w
    <2>2. sold \in [Tokens -> Nat] /\ state.wei \in Nat /\ sold[t] = 0
      BY DEF Sold
    <2>3. ASSUME NEW u \in done \union {t} PROVE ~IsSwapped(sold, u, liquid)
      <3>1. CASE u = t
        BY <2>2, <3>1 DEF IsSwapped
      <3>2. CASE u # t
        <4>1. sold[u] = state.holding[u] /\ ~IsSwapped(state.holding, u, liquid)
          BY <1>2, <3>2 DEF Sold
        <4> HIDE DEF sold
        <4> QED BY <4>1 DEF IsSwapped, AmountOutMin
      <3> QED BY <3>1, <3>2
    <2> HIDE DEF sold
    <2> QED BY <1>1, <2>1, <2>2, <2>3 DEF Sold
  <1>3. CASE ~(state.wei < wanted /\ IsSwapped(state.holding, t, liquid))
    <2>1. SwapTurn(state, wanted, t, liquid) = state
      BY <1>3, Zenon DEF SwapTurn
    <2> QED BY <1>3, <2>1 DEF Sold
  <1> QED BY <1>2, <1>3

LEMMA TurnsSell ==
    ASSUME tokens \in Seq(Tokens), quote \in [Tokens -> Quotes],
           NEW holding \in [Tokens -> Nat], NEW wanted \in Int, NEW liquid,
           NEW a, AreTurns(a, Len(tokens), holding, wanted, liquid), NEW i \in 0..Len(tokens)
    PROVE  Sold(a[i], {tokens[j] : j \in 1..i}, wanted, liquid)
  <1> DEFINE n == Len(tokens)
             B == {m \in 0..n : ~Sold(a[m], {tokens[j] : j \in 1..m}, wanted, liquid)}
  <1>0. n \in Nat
    OBVIOUS
  <1>t. \A j \in 1..n : tokens[j] \in Tokens
    OBVIOUS
  <1>a. ASSUME NEW m \in 0..n
        PROVE  a[m] = IF m = 0 THEN [wei |-> 0, holding |-> holding]
                      ELSE SwapTurn(a[m - 1], wanted, tokens[m], liquid)
    <2> HIDE DEF B
    <2> QED BY Zenon DEF AreTurns
  <1> HIDE DEF n
  <1> SUFFICES ASSUME B # {} PROVE FALSE
    BY DEF n
  <1>1. PICK m \in B : \A j \in B : m <= j
    <2>1. B \in SUBSET Nat
      BY <1>0
    <2> HIDE DEF B
    <2> QED BY <2>1, LeastNumber
  <1>2. m \in 0..n /\ ~Sold(a[m], {tokens[j] : j \in 1..m}, wanted, liquid)
    OBVIOUS
  <1>3. m # 0
    <2>1. SUFFICES ASSUME m = 0 PROVE FALSE
      OBVIOUS
    <2>2. a[m] = [wei |-> 0, holding |-> holding] /\ 1..m = {}
      BY <1>a, <1>2, <2>1
    <2> HIDE DEF B
    <2>3. a[m].wei = 0 /\ a[m].holding = holding /\ {tokens[j] : j \in 1..m} = {}
      BY <2>2
    <2>4. Sold(a[m], {}, wanted, liquid)
      BY <2>3 DEF Sold
    <2> QED BY <1>2, <2>3, <2>4, Zenon
  <1>4. m - 1 \in 0..n /\ m \in 1..n
    BY <1>0, <1>2, <1>3
  <1>5. Sold(a[m - 1], {tokens[j] : j \in 1..(m - 1)}, wanted, liquid)
    <2>1. m - 1 \notin B
      <3> HIDE DEF B
      <3> QED BY <1>0, <1>1, <1>2, <1>4
    <2> QED BY <1>4, <2>1
  <1>6. a[m] = SwapTurn(a[m - 1], wanted, tokens[m], liquid)
    BY <1>a, <1>2, <1>3, Zenon
  <1> HIDE DEF B
  <1>7. /\ {tokens[j] : j \in 1..m} = {tokens[j] : j \in 1..(m - 1)} \union {tokens[m]}
        /\ {tokens[j] : j \in 1..(m - 1)} \in SUBSET Tokens /\ tokens[m] \in Tokens
    BY <1>0, <1>t, <1>4
  <1> DEFINE done == {tokens[j] : j \in 1..(m - 1)}
             prev == a[m - 1]
  <1> HIDE DEF done, prev
  <1>8. Sold(SwapTurn(prev, wanted, tokens[m], liquid), done \union {tokens[m]}, wanted, liquid)
    <2>1. Sold(prev, done, wanted, liquid) /\ done \in SUBSET Tokens /\ tokens[m] \in Tokens
      BY <1>5, <1>7 DEF done, prev
    <2> QED BY <2>1, TurnSells
  <1> QED BY <1>2, <1>6, <1>7, <1>8, Zenon DEF done, prev

(* What the loop returns.                                                  *)
LEMMA SwapsSell ==
    ASSUME tokens \in Seq(Tokens), quote \in [Tokens -> Quotes],
           NEW holding \in [Tokens -> Nat], NEW wanted \in Int, NEW liquid
    PROVE  Sold(Swaps(holding, wanted, liquid), Range(tokens), wanted, liquid)
  <1> DEFINE a == CHOOSE a : AreTurns(a, Len(tokens), holding, wanted, liquid)
  <1>1. Swaps(holding, wanted, liquid) = a[Len(tokens)]
    BY Zenon DEF Swaps, AreTurns, SwapTurn
  <1>2. AreTurns(a, Len(tokens), holding, wanted, liquid)
    <2>1. Len(tokens) \in Nat
      OBVIOUS
    <2> QED BY <2>1, TurnsExist, Zenon
  <1> HIDE DEF a
  <1>3. Len(tokens) \in 0..Len(tokens)
    OBVIOUS
  <1>4. Range(tokens) = {tokens[j] : j \in 1..Len(tokens)}
    BY DEF Range
  <1> QED BY <1>1, <1>2, <1>3, <1>4, TurnsSell

----------------------------------------------------------------------------
(* A refill takes nothing from the hub, and it falls short of what was     *)
(* wanted only when nothing is left to be swapped.                         *)
LEMMA RefilledEnough ==
    ASSUME tokens \in Seq(Tokens), quote \in [Tokens -> Quotes],
           NEW hubBalance \in Nat, NEW wallet \in Nat, NEW holding \in [Tokens -> Nat],
           NEW amount \in Int, NEW liquid,
           NEW refill, refill = Refilled(hubBalance, wallet, holding, amount, liquid)
    PROVE  /\ refill.hubBalance \in Nat /\ refill.hubBalance >= hubBalance
           /\ refill.purse = 0 /\ refill.held \in [Tokens -> Nat]
           /\ \/ refill.hubBalance >= hubBalance + amount
              \/ \A k \in Range(tokens) : ~IsSwapped(refill.held, k, liquid)
  <1>1. CASE wallet < amount
    <2> DEFINE swaps == Swaps(holding, amount - wallet, liquid)
    <2>1. Sold(swaps, Range(tokens), amount - wallet, liquid)
      BY SwapsSell
    <2>2. /\ refill.hubBalance = hubBalance + wallet + swaps.wei
          /\ refill.purse = 0 /\ refill.held = swaps.holding
      BY <1>1 DEF Refilled
    <2> HIDE DEF swaps
    <2> QED BY <2>1, <2>2 DEF Sold
  <1>2. CASE ~(wallet < amount)
    <2>1. /\ refill.hubBalance = hubBalance + wallet + 0
          /\ refill.purse = 0 /\ refill.held = holding
      BY <1>2 DEF Refilled
    <2> QED BY <1>2, <2>1
  <1> QED BY <1>1, <1>2

LEMMA ConfigType ==
    ASSUME gasAndEth \in Configs
    PROVE  /\ gasAndEth.minHubBalance \in Nat /\ gasAndEth.targetHubBalance \in Nat
           /\ gasAndEth.minWithdrawalAmount \in Nat /\ gasAndEth.paymasterFee \in Nat
  BY PaymasterAssumption DEF PaymasterAssumption, GasAndEthConfig

LEMMA RefillIfNeeded ==
    ASSUME TypeOK, NEW hubBalance \in Nat, NEW holding \in [Tokens -> Nat],
           NEW ethCharge \in Nat, NEW liquid,
           NEW refill, refill = RefillHubDepositIfNeeded(hubBalance, holding, ethCharge, liquid)
    PROVE  /\ refill.hubBalance \in Nat /\ refill.hubBalance >= hubBalance
           /\ refill.purse \in Nat /\ refill.held \in [Tokens -> Nat]
           /\ \/ refill.hubBalance = hubBalance /\ ~NeedsRefill(hubBalance, ethCharge)
              \/ refill.hubBalance >= gasAndEth.targetHubBalance + ethCharge
              \/ /\ refill.purse = 0
                 /\ \A k \in Range(tokens) : ~IsSwapped(refill.held, k, liquid)
  <1>1. CASE NeedsRefill(hubBalance, ethCharge)
    <2> DEFINE amount == gasAndEth.targetHubBalance - hubBalance + ethCharge
    <2>1. amount \in Int /\ hubBalance + amount = gasAndEth.targetHubBalance + ethCharge
      BY ConfigType DEF TypeOK
    <2>2. refill = Refilled(hubBalance, purse, holding, amount, liquid)
      BY <1>1 DEF RefillHubDepositIfNeeded
    <2> HIDE DEF amount
    <2>3. /\ tokens \in Seq(Tokens) /\ quote \in [Tokens -> Quotes] /\ purse \in Nat
      BY DEF TypeOK
    <2>4. /\ refill.hubBalance \in Nat /\ refill.hubBalance >= hubBalance
          /\ refill.purse = 0 /\ refill.held \in [Tokens -> Nat]
          /\ \/ refill.hubBalance >= hubBalance + amount
             \/ \A k \in Range(tokens) : ~IsSwapped(refill.held, k, liquid)
      BY <2>1, <2>2, <2>3, RefilledEnough
    <2> QED BY <2>1, <2>4
  <1>2. CASE ~NeedsRefill(hubBalance, ethCharge)
    <2>1. refill = [hubBalance |-> hubBalance, purse |-> purse, held |-> holding]
      BY <1>2 DEF RefillHubDepositIfNeeded
    <2> QED BY <1>2, <2>1 DEF TypeOK
  <1> QED BY <1>1, <1>2

(* What is sent to the owner leaves the target in the hub.                 *)
LEMMA TargetIsLeft ==
    ASSUME gasAndEth \in Configs, NEW hubBalance \in Nat
    PROVE  /\ WithdrawnToOwner(hubBalance) \in Nat
           /\ \/ WithdrawnToOwner(hubBalance) = 0
              \/ hubBalance - WithdrawnToOwner(hubBalance) = gasAndEth.targetHubBalance
  BY ConfigType DEF WithdrawnToOwner

----------------------------------------------------------------------------
(* Between the steps of a relayCall.  The state to return to can pay the   *)
(* charge; and while the owner has not interfered, the deposit has not     *)
(* shrunk, the fee is the one of the pre-charge and the tokens taken for   *)
(* it are still there to be given back.                                    *)
Untouched(f) ==
    /\ deposit >= f.before.deposit
    /\ f.preCharge = TokenCharge(f.maxCharge, f.quote)
    /\ held[f.token] >= f.preCharge
    /\ ~f.moved

FrameInv ==
    \A f \in frame : /\ f.maxCharge <= f.before.deposit
                     /\ f.byOwner \/ Untouched(f)

LEMMA FrameType ==
    ASSUME NEW f \in Frames
    PROVE  /\ f.token \in Tokens /\ f.quote \in Quotes /\ f.preCharge \in Nat
           /\ f.maxCharge \in Nat /\ f.inner \in Nat
           /\ f.byOwner \in BOOLEAN /\ f.moved \in BOOLEAN /\ f.before \in Paymasters
  BY PaymasterAssumption DEF PaymasterAssumption, Frames

LEMMA BeforeType ==
    ASSUME NEW s \in Paymasters
    PROVE  /\ s.deposit \in Nat /\ s.purse \in Nat /\ s.held \in [Tokens -> Nat]
           /\ s.tokens \in Seq(Tokens) /\ s.validFrom \in [Tokens -> 0..MaxBlock]
           /\ s.tokensBlockNumber \in 1..MaxBlock /\ s.gasAndEth \in Configs
           /\ s.quote \in [Tokens -> Quotes]
  BY DEF Paymasters

LEMMA PaymasterType ==
    ASSUME TypeOK
    PROVE  Paymaster \in Paymasters
  BY DEF TypeOK, Paymaster, Paymasters

LEMMA PreRelayedCallStep ==
    ASSUME TypeOK, NEW t \in Tokens, NEW maxCharge \in Charges, PreRelayedCall(t, maxCharge)
    PROVE  TypeOK' /\ FrameInv' /\ relayed' = NoCall
  <1> DEFINE preCharge == TokenCharge(maxCharge, quote[t])
             f == [token |-> t, quote |-> quote[t], preCharge |-> preCharge,
                   maxCharge |-> maxCharge, before |-> Paymaster, inner |-> 0,
                   byOwner |-> FALSE, moved |-> FALSE]
  <1>1. /\ maxCharge <= deposit /\ held' = [held EXCEPT ![t] = @ + preCharge]
        /\ frame' = {f} /\ relayed' = NoCall
        /\ UNCHANGED <<deposit, purse, tokens, validFrom, tokensBlockNumber, gasAndEth,
                       quote, block>>
    BY Zenon DEF PreRelayedCall, configVars, chainVars
  <1>2. /\ maxCharge \in Nat /\ quote[t] \in Quotes /\ gasAndEth \in Configs
        /\ held \in [Tokens -> Nat]
    BY PaymasterAssumption DEF PaymasterAssumption, TypeOK
  <1>3. preCharge \in Nat
    BY <1>2, ConfigType, TokenChargeType
  <1>4. preCharge = TokenCharge(maxCharge, quote[t])'
    BY <1>1 DEF TokenCharge, AddPaymasterFee, WeiToToken
  <1> DEFINE q == quote[t]
  <1>q. q \in Quotes /\ q' = q /\ preCharge' = preCharge
    BY <1>1, <1>2, <1>4
  <1>5. f \in Frames
    <2>1. 0 \in Nat /\ Paymaster \in Paymasters
      BY PaymasterType
    <2> HIDE DEF preCharge
    <2> QED BY <1>2, <1>3, <2>1 DEF Frames
  <1>6. held' \in [Tokens -> Nat] /\ held'[t] >= preCharge
    <2> HIDE DEF preCharge
    <2> QED BY <1>1, <1>2, <1>3
  <1>7. /\ f.maxCharge = maxCharge /\ f.quote = q /\ f.token = t /\ f.preCharge = preCharge
        /\ ~f.moved /\ f.before = Paymaster
    OBVIOUS
  <1>8. Paymaster.deposit = deposit
    BY DEF Paymaster
  <1> HIDE DEF preCharge, f
  <1>9. TypeOK'
    <2>1. relayed'.status \in Statuses /\ relayed'.toOwner \in Nat
      BY <1>1 DEF NoCall, Statuses
    <2> QED BY <1>1, <1>5, <1>6, <2>1 DEF TypeOK
  <1>10. \A h \in frame' : h = f
    BY <1>1
  <1>11. f.maxCharge <= f.before.deposit /\ f.before.deposit = deposit
    BY <1>1, <1>7, <1>8
  <1>12. deposit' >= f.before.deposit
    BY <1>1, <1>11 DEF TypeOK
  <1>13. FrameInv'
    BY <1>4, <1>6, <1>7, <1>10, <1>11, <1>12, <1>q, Zenon DEF FrameInv, Untouched, preCharge
  <1> QED BY <1>1, <1>9, <1>13

(* The paymaster is as before, less the charge.                            *)
LEMMA ChargeUndoneStep ==
    ASSUME TypeOK, FrameInv, NEW f \in frame, NEW hubCharge \in Charges,
           ChargeUndone(f, hubCharge), relayed'.status \in Statuses, relayed'.toOwner \in Nat
    PROVE  TypeOK' /\ FrameInv'
  <1>1. f \in Frames /\ f.maxCharge <= f.before.deposit /\ f.maxCharge \in Nat
    BY FrameType DEF TypeOK, FrameInv
  <1> DEFINE s == f.before
  <1>2. s \in Paymasters
    BY <1>1, FrameType
  <1>3. /\ s.deposit \in Nat /\ s.purse \in Nat /\ s.held \in [Tokens -> Nat]
        /\ s.tokens \in Seq(Tokens) /\ s.validFrom \in [Tokens -> 0..MaxBlock]
        /\ s.tokensBlockNumber \in 1..MaxBlock /\ s.gasAndEth \in Configs
        /\ s.quote \in [Tokens -> Quotes]
    BY <1>2, BeforeType
  <1>4. hubCharge \in Nat
    BY PaymasterAssumption DEF PaymasterAssumption
  <1>5. /\ hubCharge <= f.maxCharge /\ deposit' = s.deposit - hubCharge
        /\ purse' = s.purse /\ held' = s.held /\ tokens' = s.tokens
        /\ validFrom' = s.validFrom /\ tokensBlockNumber' = s.tokensBlockNumber
        /\ gasAndEth' = s.gasAndEth /\ quote' = s.quote /\ frame' = {} /\ block' = block
    BY DEF ChargeUndone
  <1> HIDE DEF s
  <1>6. deposit' \in Nat
    BY <1>1, <1>3, <1>4, <1>5 DEF s
  <1> QED BY <1>3, <1>5, <1>6 DEF TypeOK, FrameInv

(* postRelayedCall, from what it reads to what it leaves behind.           *)
LEMMA PostRelayedCallStep ==
    ASSUME TypeOK, FrameInv, NEW f \in frame, NEW ethCharge \in Charges,
           NEW hubCharge \in Charges, NEW liquid,
           PostRelayedCall(f, ethCharge, hubCharge, liquid)
    PROVE  /\ TypeOK' /\ FrameInv'
           /\ PayerCoversCharge' /\ ChargedForNothing' /\ RefilledAfterCallStep
  <1> DEFINE charged   == TokenCharge(ethCharge, f.quote)
             refund    == f.preCharge - charged
             postFails == \/ f.moved
                          \/ charged > f.preCharge
                          \/ held[f.token] < refund
                          \/ RefillReverts(deposit, ethCharge)
             holding   == [held EXCEPT ![f.token] = @ - refund]
             refill    == RefillHubDepositIfNeeded(deposit, holding, ethCharge, liquid)
             toOwner   == WithdrawnToOwner(refill.hubBalance)
             result    == IF postFails THEN "PostRelayedFailed"
                          ELSE IF refill.hubBalance - toOwner < f.before.deposit
                          THEN "PaymasterBalanceChanged" ELSE "OK"
             record(sold, sent) ==
                 [status |-> result,
                  overestimated |-> ethCharge > f.maxCharge,
                  underestimated |-> hubCharge > ethCharge,
                  surplus |-> deposit > gasAndEth.targetHubBalance,
                  byOwner |-> f.byOwner, outOfGas |-> FALSE,
                  covered |-> TokenToWei(charged + 1, f.quote) >= ethCharge,
                  soldOut |-> sold, toOwner |-> sent]
             allSold   == \A k \in Range(tokens) : ~IsSwapped(refill.held, k, liquid)
  <1>1. /\ ethCharge \in Nat /\ hubCharge \in Nat
        /\ deposit \in Nat /\ purse \in Nat /\ held \in [Tokens -> Nat]
        /\ gasAndEth \in Configs
    BY PaymasterAssumption DEF PaymasterAssumption, TypeOK
  <1>f. /\ f.token \in Tokens /\ f.quote \in Quotes /\ f.preCharge \in Nat
        /\ f.maxCharge \in Nat /\ f.before.deposit \in Nat
        /\ f.maxCharge <= f.before.deposit /\ (f.byOwner \/ Untouched(f))
    BY FrameType, BeforeType DEF TypeOK, FrameInv
  <1>2. /\ gasAndEth.minHubBalance \in Nat /\ gasAndEth.targetHubBalance \in Nat
        /\ gasAndEth.minWithdrawalAmount \in Nat /\ gasAndEth.paymasterFee \in Nat
    BY <1>1, ConfigType
  <1>3. \/ /\ result = "OK" /\ hubCharge <= f.maxCharge
           /\ deposit' = refill.hubBalance - toOwner - hubCharge
           /\ purse' = refill.purse /\ held' = refill.held /\ frame' = {}
           /\ relayed' = record(allSold, toOwner)
           /\ UNCHANGED <<tokens, validFrom, tokensBlockNumber, gasAndEth, quote, block>>
        \/ /\ result # "OK"
           /\ ChargeUndone(f, hubCharge)
           /\ relayed' = record(FALSE, 0)
    BY Zenon DEF PostRelayedCall, configVars, chainVars
  <1>4. charged \in Nat
    BY <1>1, <1>2, <1>f, TokenChargeType
  <1>5. TokenToWei(charged + 1, f.quote) >= ethCharge
    BY <1>1, <1>2, <1>f, ChargeIsCovered
  <1>6. ethCharge <= f.maxCharge /\ ~f.byOwner => charged <= f.preCharge
    <2>1. ethCharge <= f.maxCharge => charged <= TokenCharge(f.maxCharge, f.quote)
      BY <1>1, <1>2, <1>f, TokenChargeIsMonotone
    <2> QED BY <1>f, <2>1 DEF Untouched
  <1> HIDE DEF charged
  <1>7. ~postFails => holding \in [Tokens -> Nat]
    <2> SUFFICES ASSUME charged <= f.preCharge, held[f.token] >= f.preCharge - charged
                 PROVE  holding \in [Tokens -> Nat]
      BY <1>1, <1>4, <1>f
    <2> QED BY <1>1, <1>4, <1>f
  <1> HIDE DEF holding
  <1>8. ~postFails =>
           /\ refill.hubBalance \in Nat /\ refill.hubBalance >= deposit
           /\ refill.purse \in Nat /\ refill.held \in [Tokens -> Nat]
           /\ \/ refill.hubBalance = deposit /\ ~NeedsRefill(deposit, ethCharge)
              \/ refill.hubBalance >= gasAndEth.targetHubBalance + ethCharge
              \/ refill.purse = 0 /\ allSold
    <2> HIDE DEF postFails
    <2> QED BY <1>1, <1>7, RefillIfNeeded
  <1> HIDE DEF refill, allSold
  <1>9. ~postFails =>
           /\ toOwner \in Nat
           /\ toOwner = 0 \/ refill.hubBalance - toOwner = gasAndEth.targetHubBalance
    <2> HIDE DEF postFails
    <2> QED BY <1>1, <1>8, TargetIsLeft
  <1> HIDE DEF toOwner
  <1>10. /\ result = "OK" => ~postFails /\ ~(refill.hubBalance - toOwner < f.before.deposit)
         /\ result = "PostRelayedFailed" => postFails
         /\ result = "PaymasterBalanceChanged" =>
               ~postFails /\ refill.hubBalance - toOwner < f.before.deposit
         /\ result \in Statuses /\ result # "none"
    <2> HIDE DEF postFails
    <2> QED BY Zenon DEF Statuses
  <1>11. postFails => \/ ethCharge > f.maxCharge \/ deposit > gasAndEth.targetHubBalance
                      \/ f.byOwner
    <2> SUFFICES ASSUME postFails, ethCharge <= f.maxCharge, ~f.byOwner
                 PROVE  deposit > gasAndEth.targetHubBalance
      BY <1>1, <1>f
    <2>1. ~f.moved /\ charged <= f.preCharge /\ held[f.token] >= f.preCharge
      BY <1>6, <1>f DEF Untouched
    <2>2. held[f.token] \in Nat
      BY <1>1, <1>f
    <2> QED BY <1>1, <1>2, <1>4, <1>f, <2>1, <2>2 DEF RefillReverts
  <1>12. ~postFails /\ refill.hubBalance - toOwner < f.before.deposit
            => deposit > gasAndEth.targetHubBalance \/ f.byOwner
    <2> HIDE DEF postFails
    <2>1. f.byOwner \/ deposit >= f.before.deposit
      BY <1>f DEF Untouched
    <2> QED BY <1>1, <1>2, <1>8, <1>9, <1>f, <2>1
  <1> HIDE DEF postFails, result
  <1>13. /\ relayed'.status = result
         /\ relayed'.covered = (TokenToWei(charged + 1, f.quote) >= ethCharge)
         /\ relayed'.overestimated = (ethCharge > f.maxCharge)
         /\ relayed'.underestimated = (hubCharge > ethCharge)
         /\ relayed'.surplus = (deposit > gasAndEth.targetHubBalance)
         /\ relayed'.byOwner = f.byOwner
         /\ relayed'.toOwner \in Nat
         /\ result = "OK" => relayed'.soldOut = allSold
    <2>1. CASE result = "OK"
      <3>1. relayed' = record(allSold, toOwner)
        BY <1>3, <2>1, Zenon
      <3> QED BY <1>9, <1>10, <2>1, <3>1, Zenon
    <2>2. CASE result # "OK"
      <3>1. relayed' = record(FALSE, 0)
        BY <1>3, <2>2, Zenon
      <3>2. 0 \in Nat
        OBVIOUS
      <3> QED BY <2>2, <3>1, <3>2, Zenon
    <2> QED BY <2>1, <2>2
  <1>14. CASE result = "OK"
    <2>1. /\ hubCharge <= f.maxCharge
          /\ deposit' = refill.hubBalance - toOwner - hubCharge
          /\ purse' = refill.purse /\ held' = refill.held /\ frame' = {}
          /\ UNCHANGED <<tokens, validFrom, tokensBlockNumber, gasAndEth, quote, block>>
      BY <1>3, <1>14, Zenon
    <2>2. ~postFails
      BY <1>10, <1>14
    <2>3. deposit' \in Nat /\ purse' \in Nat /\ held' \in [Tokens -> Nat]
      BY <1>1, <1>8, <1>9, <1>10, <1>14, <1>f, <2>1, <2>2
    <2>4. TypeOK'
      BY <1>10, <1>13, <2>1, <2>3 DEF TypeOK
    <2>5. FrameInv' /\ ChargedForNothing'
      BY <1>13, <1>14, <2>1 DEF FrameInv, ChargedForNothing
    <2>6. PayerCoversCharge'
      BY <1>5, <1>13, Zenon DEF PayerCoversCharge
    <2>7. RefilledAfterCallStep
      <3> SUFFICES ASSUME ~(hubCharge > ethCharge),
                          \A c \in Charges :
                              gasAndEth.targetHubBalance >= gasAndEth.minHubBalance + c
                   PROVE  deposit' >= gasAndEth.minHubBalance \/ (purse' = 0 /\ allSold)
        BY <1>13, <1>14 DEF RefilledAfterCallStep
      <3>2. gasAndEth.targetHubBalance >= gasAndEth.minHubBalance + hubCharge
        OBVIOUS
      <3>3. CASE refill.purse = 0 /\ allSold
        BY <2>1, <3>3
      <3>4. CASE refill.hubBalance >= gasAndEth.targetHubBalance + ethCharge
        BY <1>1, <1>2, <1>8, <1>9, <2>1, <2>2, <3>2, <3>4
      <3>5. CASE refill.hubBalance = deposit /\ ~NeedsRefill(deposit, ethCharge)
        BY <1>1, <1>2, <1>9, <2>1, <2>2, <3>2, <3>5 DEF NeedsRefill
      <3> QED BY <1>8, <2>2, <3>3, <3>4, <3>5
    <2> QED BY <2>4, <2>5, <2>6, <2>7
  <1>15. CASE result # "OK"
    <2>1. ChargeUndone(f, hubCharge)
      BY <1>3, <1>15, Zenon
    <2>2. TypeOK' /\ FrameInv'
      BY <1>10, <1>13, <2>1, ChargeUndoneStep
    <2>3. PayerCoversCharge' /\ RefilledAfterCallStep
      BY <1>13, <1>15 DEF PayerCoversCharge, RefilledAfterCallStep
    <2>4. ChargedForNothing'
      BY <1>10, <1>11, <1>12, <1>13 DEF ChargedForNothing
    <2> QED BY <2>2, <2>3, <2>4
  <1> QED BY <1>14, <1>15

LEMMA RelayNextStep ==
    ASSUME TypeOK, FrameInv, RelayNext
    PROVE  /\ TypeOK' /\ FrameInv'
           /\ PayerCoversCharge' /\ ChargedForNothing' /\ RefilledAfterCallStep
  <1>1. ASSUME NEW t \in Tokens, NEW maxCharge \in Charges, PreRelayedCall(t, maxCharge)
        PROVE  /\ TypeOK' /\ FrameInv'
               /\ PayerCoversCharge' /\ ChargedForNothing' /\ RefilledAfterCallStep
    <2>1. TypeOK' /\ FrameInv' /\ relayed' = NoCall
      BY <1>1, PreRelayedCallStep
    <2>2. relayed'.status = "none"
      BY <2>1 DEF NoCall
    <2> QED BY <2>1, <2>2 DEF PayerCoversCharge, ChargedForNothing, RefilledAfterCallStep
  <1>2. ASSUME NEW f \in frame, NEW hubCharge \in Charges,
               \/ RejectedByForwarder(f, hubCharge) \/ PostRunsOutOfGas(f, hubCharge)
        PROVE  /\ TypeOK' /\ FrameInv'
               /\ PayerCoversCharge' /\ ChargedForNothing' /\ RefilledAfterCallStep
    <2>1. ChargeUndone(f, hubCharge)
      BY <1>2 DEF RejectedByForwarder, PostRunsOutOfGas
    <2>2. /\ relayed'.status \in {"RejectedByForwarder", "PostRelayedFailed"}
          /\ relayed'.toOwner = 0
          /\ relayed'.status = "PostRelayedFailed" => relayed'.outOfGas
      BY <1>2 DEF RejectedByForwarder, PostRunsOutOfGas, NoCall
    <2>3. relayed'.status \in Statuses /\ relayed'.toOwner \in Nat
      BY <2>2 DEF Statuses
    <2>4. TypeOK' /\ FrameInv'
      BY <2>1, <2>3, ChargeUndoneStep
    <2> QED BY <2>2, <2>4 DEF PayerCoversCharge, ChargedForNothing, RefilledAfterCallStep
  <1> QED BY <1>1, <1>2, PostRelayedCallStep DEF RelayNext

----------------------------------------------------------------------------
(* The other calls, by themselves or made by the relayed call.             *)
(* g is the frame f after one more call.                                   *)
Follows(g, f, byOwner, moved) ==
    /\ g \in Frames
    /\ g.token = f.token /\ g.quote = f.quote /\ g.preCharge = f.preCharge
    /\ g.maxCharge = f.maxCharge /\ g.before = f.before
    /\ g.byOwner = (f.byOwner \/ byOwner) /\ g.moved = (f.moved \/ moved)

LEMMA InsideFrame ==
    ASSUME NEW f \in Frames, NEW byOwner \in BOOLEAN, NEW moved \in BOOLEAN
    PROVE  Follows(Touched(f, byOwner, moved), f, byOwner, moved)
  <1> DEFINE g == Touched(f, byOwner, moved)
             i == f.inner + 1
             b == f.byOwner \/ byOwner
             m == f.moved \/ moved
  <1>1. i \in Nat /\ b \in BOOLEAN /\ m \in BOOLEAN
    BY DEF Frames
  <1>2. g = [f EXCEPT !.inner = i, !.byOwner = b, !.moved = m]
    BY DEF Touched
  <1> HIDE DEF g, i, b, m
  <1>3. /\ g.token = f.token /\ g.quote = f.quote /\ g.preCharge = f.preCharge
        /\ g.maxCharge = f.maxCharge /\ g.before = f.before
        /\ g.byOwner = b /\ g.moved = m
    BY <1>2, Zenon DEF Frames
  <1>4. g \in Frames
    BY <1>1, <1>2 DEF Frames
  <1> QED BY <1>3, <1>4, Zenon DEF Follows, g, b, m

LEMMA InsideStep ==
    ASSUME TypeOK, FrameInv, NEW byOwner \in BOOLEAN, NEW moved \in BOOLEAN,
           Inside(byOwner, moved),
           \/ byOwner
           \/ /\ ~moved /\ deposit' \in Nat /\ deposit' >= deposit
              /\ held' = held /\ gasAndEth' = gasAndEth
    PROVE  frame' \subseteq Frames /\ FrameInv' /\ relayed' = NoCall
  <1>1. frame' = {Touched(f, byOwner, moved) : f \in frame} /\ relayed' = NoCall
    BY DEF Inside
  <1>2. ASSUME NEW g \in frame'
        PROVE  \E f \in frame : f \in Frames /\ Follows(g, f, byOwner, moved)
    <2>1. PICK f \in frame : g = Touched(f, byOwner, moved)
      BY <1>1, Zenon
    <2>2. f \in Frames
      BY DEF TypeOK
    <2>3. Follows(g, f, byOwner, moved)
      BY <2>1, <2>2, InsideFrame, Zenon
    <2> QED BY <2>2, <2>3, Zenon
  <1>3. frame' \subseteq Frames
    BY <1>2 DEF Follows
  <1>4. ASSUME NEW g \in frame'
        PROVE  /\ g.maxCharge <= g.before.deposit
               /\ g.byOwner \/ Untouched(g)'
    <2>a. PICK f \in frame : f \in Frames /\ Follows(g, f, byOwner, moved)
      BY <1>2
    <2>1. /\ g \in Frames /\ f \in Frames
          /\ g.token = f.token /\ g.quote = f.quote /\ g.preCharge = f.preCharge
          /\ g.maxCharge = f.maxCharge /\ g.before = f.before
          /\ g.byOwner = (f.byOwner \/ byOwner) /\ g.moved = (f.moved \/ moved)
      BY <2>a, Zenon DEF Follows
    <2>2. f.maxCharge <= f.before.deposit /\ (f.byOwner \/ Untouched(f))
      BY DEF FrameInv
    <2>3. SUFFICES ASSUME ~g.byOwner PROVE Untouched(g)'
      BY <2>1, <2>2
    <2>4. ~f.byOwner /\ ~byOwner
      BY <2>1, <2>3, Zenon
    <2>5. /\ ~moved /\ deposit' \in Nat /\ deposit' >= deposit /\ held' = held
          /\ gasAndEth' = gasAndEth /\ deposit \in Nat
      BY <2>4 DEF TypeOK
    <2>6. ~g.moved
      BY <2>1, <2>2, <2>4, <2>5, Zenon DEF Untouched
    <2>7. g.before.deposit \in Nat /\ deposit' >= g.before.deposit
      BY <2>1, <2>2, <2>4, <2>5, FrameType, BeforeType DEF Untouched
    <2>8. held'[g.token] >= g.preCharge
      BY <2>1, <2>2, <2>4, <2>5 DEF Untouched
    <2>9. g.preCharge = TokenCharge(g.maxCharge, g.quote)'
      BY <2>1, <2>2, <2>4, <2>5, Zenon DEF Untouched, TokenCharge, AddPaymasterFee, WeiToToken
    <2> QED BY <2>6, <2>7, <2>8, <2>9 DEF Untouched
  <1>5. FrameInv'
    BY <1>4 DEF FrameInv
  <1> QED BY <1>1, <1>3, <1>5

LEMMA UniswapConfigType ==
    ASSUME TypeOK, NEW list \in TokenLists, SetUniswapConfig(list),
           frame' \subseteq Frames, relayed' = NoCall
    PROVE  TypeOK'
  <1> USE DEF TypeOK, configVars, chainVars
  <1>0. relayed'.status \in Statuses /\ relayed'.toOwner \in Nat
    BY DEF NoCall, Statuses
  <1>1. list \in Seq(Tokens)
    BY PaymasterAssumption DEF PaymasterAssumption
  <1>2. /\ tokens' = list /\ tokensBlockNumber' = block
        /\ validFrom' = [t \in Tokens |-> IF t \in Range(list) THEN block ELSE validFrom[t]]
        /\ UNCHANGED <<deposit, purse, held, gasAndEth, quote, block>>
    BY Zenon DEF SetUniswapConfig
  <1>3. validFrom' \in [Tokens -> 0..MaxBlock]
    BY <1>2
  <1> QED BY <1>0, <1>1, <1>2, <1>3

LEMMA OwnerType ==
    ASSUME TypeOK, OwnerNext, frame' \subseteq Frames, relayed' = NoCall
    PROVE  TypeOK'
  <1> USE DEF TypeOK, configVars, chainVars
  <1>0. relayed'.status \in Statuses /\ relayed'.toOwner \in Nat
    BY DEF NoCall, Statuses
  <1>2. ASSUME NEW c \in Configs, SetGasAndEthConfig(c) PROVE TypeOK'
    BY <1>0, <1>2 DEF SetGasAndEthConfig
  <1>3. ASSUME NEW amount \in EtherAmounts, NEW value \in EtherAmounts, NEW liquid,
               RefillHubDeposit(amount, value, liquid)
        PROVE  TypeOK'
    <2> DEFINE refill == Refilled(deposit, purse + value, held, amount, liquid)
    <2>1. amount \in Nat /\ value \in Nat
      BY PaymasterAssumption DEF PaymasterAssumption
    <2>2. /\ deposit' = refill.hubBalance /\ purse' = refill.purse /\ held' = refill.held
          /\ UNCHANGED <<tokens, validFrom, tokensBlockNumber, gasAndEth, quote, block>>
      BY <1>3, Zenon DEF RefillHubDeposit
    <2> DEFINE wallet == purse + value
    <2>3. /\ wallet \in Nat /\ amount \in Int /\ deposit \in Nat /\ held \in [Tokens -> Nat]
          /\ tokens \in Seq(Tokens) /\ quote \in [Tokens -> Quotes]
      BY <2>1
    <2>4. refill = Refilled(deposit, wallet, held, amount, liquid)
      OBVIOUS
    <2> HIDE DEF wallet, refill, TypeOK
    <2>5. refill.hubBalance \in Nat /\ refill.purse = 0 /\ refill.held \in [Tokens -> Nat]
      BY <2>3, <2>4, RefilledEnough
    <2> USE DEF TypeOK
    <2> QED BY <1>0, <2>2, <2>5
  <1>4. ASSUME NEW t \in Tokens, NEW amount \in EtherAmounts, WithdrawTokens(t, amount)
        PROVE  TypeOK'
    BY <1>0, <1>4, PaymasterAssumption DEF PaymasterAssumption, WithdrawTokens
  <1>5. ASSUME NEW amount \in EtherAmounts, WithdrawRelayHubDepositTo(amount) PROVE TypeOK'
    BY <1>0, <1>5, PaymasterAssumption DEF PaymasterAssumption, WithdrawRelayHubDepositTo
  <1> QED BY <1>2, <1>3, <1>4, <1>5 DEF OwnerNext

LEMMA OthersType ==
    ASSUME TypeOK, OthersNext, frame' \subseteq Frames, relayed' = NoCall
    PROVE  TypeOK'
  <1> USE DEF TypeOK, configVars, chainVars
  <1>0. relayed'.status \in Statuses /\ relayed'.toOwner \in Nat
    BY DEF NoCall, Statuses
  <1>a. EtherAmounts \subseteq Nat /\ MaxBlock \in Nat \ {0}
    BY PaymasterAssumption DEF PaymasterAssumption
  <1>1. ASSUME NEW value \in EtherAmounts, Receive(value) PROVE TypeOK'
    <2>1. purse' \in Nat
      BY <1>a, <1>1 DEF Receive
    <2>2. UNCHANGED <<deposit, held, tokens, validFrom, tokensBlockNumber, gasAndEth, quote,
                      block>>
      BY <1>1 DEF Receive
    <2> QED BY <1>0, <2>1, <2>2
  <1>2. ASSUME NEW value \in EtherAmounts, DepositFor(value) PROVE TypeOK'
    <2>1. deposit' \in Nat
      BY <1>a, <1>2 DEF DepositFor
    <2>2. UNCHANGED <<purse, held, tokens, validFrom, tokensBlockNumber, gasAndEth, quote,
                      block>>
      BY <1>2 DEF DepositFor
    <2> QED BY <1>0, <2>1, <2>2
  <1>3. ASSUME NEW t \in Tokens, NEW q \in Quotes, PriceMoves(t, q) PROVE TypeOK'
    BY <1>0, <1>3 DEF PriceMoves
  <1>4. CASE NextBlock
    BY <1>0, <1>a, <1>4 DEF NextBlock
  <1> QED BY <1>1, <1>2, <1>3, <1>4 DEF OthersNext

(* They leave the deposit, the fee and the tokens of a frame alone.        *)
LEMMA OthersKeep ==
    ASSUME TypeOK, OthersNext
    PROVE  /\ deposit' \in Nat /\ deposit' >= deposit
           /\ held' = held /\ gasAndEth' = gasAndEth
  <1> USE DEF configVars, chainVars
  <1>1. EtherAmounts \subseteq Nat /\ deposit \in Nat
    BY PaymasterAssumption DEF PaymasterAssumption, TypeOK
  <1>2. ASSUME NEW value \in EtherAmounts, Receive(value) \/ DepositFor(value)
        PROVE  /\ deposit' \in Nat /\ deposit' >= deposit
               /\ held' = held /\ gasAndEth' = gasAndEth
    BY <1>1, <1>2 DEF Receive, DepositFor
  <1>3. ASSUME NEW t \in Tokens, NEW q \in Quotes, PriceMoves(t, q) \/ NextBlock
        PROVE  /\ deposit' \in Nat /\ deposit' >= deposit
               /\ held' = held /\ gasAndEth' = gasAndEth
    BY <1>1, <1>3 DEF PriceMoves, NextBlock
  <1>4. CASE NextBlock
    BY <1>1, <1>4 DEF NextBlock
  <1> QED BY <1>2, <1>3, <1>4 DEF OthersNext

LEMMA OtherStep ==
    ASSUME TypeOK, FrameInv,
           \/ OwnerNext /\ Inside(TRUE, FALSE)
           \/ SetRelayHub /\ Inside(TRUE, TRUE)
           \/ (\E list \in TokenLists : SetUniswapConfig(list)) /\ Inside(FALSE, FALSE)
           \/ OthersNext /\ Inside(FALSE, FALSE)
    PROVE  TypeOK' /\ FrameInv' /\ relayed' = NoCall
  <1>1. CASE OwnerNext /\ Inside(TRUE, FALSE)
    BY <1>1, InsideStep, OwnerType
  <1>2. CASE SetRelayHub /\ Inside(TRUE, TRUE)
    <2>1. frame' \subseteq Frames /\ FrameInv' /\ relayed' = NoCall
      BY <1>2, InsideStep
    <2>2. UNCHANGED <<deposit, purse, held, tokens, validFrom, tokensBlockNumber, gasAndEth,
                      quote, block>>
      BY <1>2 DEF SetRelayHub, configVars, chainVars
    <2>3. relayed'.status \in Statuses /\ relayed'.toOwner \in Nat
      BY <2>1 DEF NoCall, Statuses
    <2> QED BY <2>1, <2>2, <2>3 DEF TypeOK
  <1>3. CASE (\E list \in TokenLists : SetUniswapConfig(list)) /\ Inside(FALSE, FALSE)
    <2>1. PICK list \in TokenLists : SetUniswapConfig(list)
      BY <1>3
    <2>2. deposit' = deposit /\ held' = held /\ gasAndEth' = gasAndEth
      BY <2>1 DEF SetUniswapConfig
    <2>3. deposit' \in Nat /\ deposit' >= deposit
      BY <2>2 DEF TypeOK
    <2>4. frame' \subseteq Frames /\ FrameInv' /\ relayed' = NoCall
      BY <1>3, <2>2, <2>3, InsideStep
    <2> QED BY <2>1, <2>4, UniswapConfigType
  <1>4. CASE OthersNext /\ Inside(FALSE, FALSE)
    <2>1. frame' \subseteq Frames /\ FrameInv' /\ relayed' = NoCall
      BY <1>4, OthersKeep, InsideStep
    <2> QED BY <1>4, <2>1, OthersType
  <1> QED BY <1>1, <1>2, <1>3, <1>4

IInv == TypeOK /\ FrameInv /\ PayerCoversCharge /\ ChargedForNothing

LEMMA InitInv == Init => IInv
  <1> SUFFICES ASSUME Init PROVE IInv
    OBVIOUS
  <1>1. /\ relayed.status = "none" /\ relayed.toOwner = 0 /\ "none" \in Statuses
    BY DEF Init, NoCall, Statuses
  <1>2. tokens \in Seq(Tokens)
    BY PaymasterAssumption DEF PaymasterAssumption, Init
  <1>3. TypeOK
    BY <1>1, <1>2, PaymasterAssumption DEF PaymasterAssumption, Init, TypeOK
  <1> QED BY <1>1, <1>3 DEF Init, IInv, FrameInv, PayerCoversCharge, ChargedForNothing

LEMMA NextInv ==
    ASSUME IInv, [Next]_vars
    PROVE  IInv'
  <1>1. CASE RelayNext
    BY <1>1, RelayNextStep DEF IInv
  <1>2. CASE Next /\ ~RelayNext
    <2>1. TypeOK' /\ FrameInv' /\ relayed' = NoCall
      BY <1>2, OtherStep DEF Next, IInv
    <2>2. relayed'.status = "none"
      BY <2>1 DEF NoCall
    <2> QED BY <2>1, <2>2 DEF IInv, PayerCoversCharge, ChargedForNothing
  <1>3. CASE UNCHANGED vars
    <2>1. UNCHANGED <<deposit, purse, held, tokens, validFrom, tokensBlockNumber, gasAndEth,
                      quote, block, frame, relayed>>
      BY <1>3 DEF vars
    <2>2. TypeOK' /\ PayerCoversCharge' /\ ChargedForNothing'
      BY <2>1 DEF IInv, TypeOK, PayerCoversCharge, ChargedForNothing
    <2>3. FrameInv'
      BY <2>1, Zenon DEF IInv, FrameInv, Untouched, TokenCharge, AddPaymasterFee, WeiToToken
    <2> QED BY <2>2, <2>3 DEF IInv
  <1> QED BY <1>1, <1>2, <1>3 DEF Next

LEMMA Invariance == Spec => []IInv
  BY InitInv, NextInv, PTL DEF Spec

(* No balance is ever taken below zero: not by the hub's charge after a    *)
(* withdrawal to the owner, not by a swap, and not by any combination of   *)
(* refills and withdrawals.                                                *)
THEOREM PaymasterTypeCorrect == Spec => []TypeOK
  BY Invariance, PTL DEF IInv

(* The payer covers the ether charge at the quote it was charged at,       *)
(* whatever the three divisions round off.                                 *)
THEOREM ChargeCovered == Spec => []PayerCoversCharge
  BY Invariance, PTL DEF IInv

(* With any prices, any configuration, any refill and any relayed call,    *)
(* the paymaster pays for an undone call only when its deposit was above   *)
(* the target, the gas was overestimated, postRelayedCall ran out of gas   *)
(* or the owner interfered from within the call.                           *)
THEOREM PaysForNothingOnlyIf == Spec => []ChargedForNothing
  BY Invariance, PTL DEF IInv

(* However the loop of swaps ends, a call that went through leaves the     *)
(* minimum in the hub or nothing that could be swapped for it.             *)
THEOREM MinimumIsKept == Spec => RefilledAfterCall
  <1>1. IInv /\ [Next]_vars => [RefilledAfterCallStep]_vars
    <2> SUFFICES ASSUME IInv, Next PROVE RefilledAfterCallStep
      OBVIOUS
    <2>1. CASE RelayNext
      BY <2>1, RelayNextStep DEF IInv
    <2>2. CASE ~RelayNext
      <3>1. relayed' = NoCall
        BY <2>2, OtherStep DEF Next, IInv
      <3> QED BY <3>1 DEF NoCall, RefilledAfterCallStep
    <2> QED BY <2>1, <2>2
  <1> QED BY <1>1, Invariance, PTL DEF Spec, RefilledAfterCall
==============================================================================
