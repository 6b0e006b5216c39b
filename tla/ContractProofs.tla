--------------------------- MODULE ContractProofs ---------------------------
(***************************************************************************)
(* Proofs about StakeManager, RelayHub and RelayRegistrar: each contract   *)
(* with those it calls, for any number of managers, workers, paymasters,   *)
(* hubs, tokens and owners, any configurations and any delays.             *)
(***************************************************************************)
EXTENDS RelayRegistrar, InductionLemmas, TLAPS

----------------------------------------------------------------------------
(* The StakeManager.                                                       *)

(* A transfer that the sender's balance covers leaves a ledger of naturals *)
(* and takes nothing from anybody else.                                    *)
LEMMA MovedFacts ==
    ASSUME NEW ledger \in [Holders -> Nat], NEW from \in Holders, NEW to \in Holders,
           NEW amount \in Nat, ledger[from] >= amount
    PROVE  /\ Moved(ledger, from, to, amount) \in [Holders -> Nat]
           /\ \A a \in Holders \ {from, to} : Moved(ledger, from, to, amount)[a] = ledger[a]
           /\ to # from => /\ Moved(ledger, from, to, amount)[from] = ledger[from] - amount
                           /\ Moved(ledger, from, to, amount)[to] = ledger[to] + amount
  BY DEF Moved

(* Parties of a transfer are holders, and the contract is none of them. *)
LEMMA HolderFacts ==
    /\ Self \in Holders /\ Owners \subseteq Holders /\ Accounts \subseteq Holders
    /\ BurnAddresses \subseteq Holders /\ DevAddresses \subseteq Holders
    /\ Self \notin Accounts /\ Self \notin Owners
    /\ Self \notin BurnAddresses /\ Self \notin DevAddresses
    /\ NoAddress \notin Owners
    /\ Owners \cap BurnAddresses = {} /\ Owners \cap DevAddresses = {}
  BY AddressAssumption DEF AddressAssumption, Holders

LEMMA InitType == SMInit => SMTypeOK
  BY NumberAssumption, AddressAssumption
     DEF NumberAssumption, AddressAssumption, SMInit, SMTypeOK, StakeInfo, EmptyStake, Holders

LEMMA StakeForRelayManagerType ==
    ASSUME SMTypeOK, NEW m \in Managers, NEW token \in Tokens, NEW d \in UnstakeDelays,
           NEW amount \in StakeAmounts, StakeForRelayManager(m, token, d, amount)
    PROVE  SMTypeOK'
  <1> DEFINE o == stakes[m].owner
  <1>1. o \in Owners /\ amount \in Nat /\ d \in Nat /\ stakes[m] \in StakeInfo
    BY NumberAssumption
       DEF NumberAssumption, SMTypeOK, StakeInfo, StakeForRelayManager, RelayOwnerOnly
  <1>2. /\ tokenBalance' = [tokenBalance EXCEPT ![token] =
                              Moved(tokenBalance[token], o, Self, amount)]
        /\ stakes' = [stakes EXCEPT ![m] =
             [stakes[m] EXCEPT !.token = token, !.stake = stakes[m].stake + amount,
                               !.unstakeDelay = d]]
        /\ tokenBalance[token][o] >= amount
        /\ UNCHANGED <<authorizedHubs, burnAddress, devAddress, now>>
    BY DEF StakeForRelayManager, CanTransfer, SMTypeOK
  <1> HIDE DEF o
  <1>3. Moved(tokenBalance[token], o, Self, amount) \in [Holders -> Nat]
    BY <1>1, <1>2, HolderFacts, MovedFacts DEF SMTypeOK
  <1>4. [stakes[m] EXCEPT !.token = token, !.stake = stakes[m].stake + amount,
                          !.unstakeDelay = d] \in StakeInfo
    <2>1. stakes[m].stake + amount \in Nat
      BY <1>1 DEF StakeInfo
    <2> QED BY <2>1, <1>1 DEF StakeInfo
  <1> QED BY <1>2, <1>3, <1>4 DEF SMTypeOK

LEMMA PayOutType ==
    ASSUME SMTypeOK, NEW m \in Managers, NEW to \in Accounts,
           CanTransfer(stakes[m].token, Self, stakes[m].stake),
           tokenBalance' = [tokenBalance EXCEPT ![stakes[m].token] =
                              Moved(@, Self, to, stakes[m].stake)],
           stakes' = [stakes EXCEPT ![m].stake = 0, ![m].withdrawTime = 0],
           UNCHANGED <<authorizedHubs, burnAddress, devAddress, now>>
    PROVE  SMTypeOK'
  <1> DEFINE t == stakes[m].token
  <1>1. t \in Tokens /\ stakes[m].stake \in Nat /\ tokenBalance[t] \in [Holders -> Nat]
        /\ tokenBalance[t][Self] >= stakes[m].stake
    BY DEF SMTypeOK, StakeInfo, CanTransfer
  <1>2. Moved(tokenBalance[t], Self, to, stakes[m].stake) \in [Holders -> Nat]
    BY <1>1, HolderFacts, MovedFacts
  <1>3. tokenBalance' \in [Tokens -> [Holders -> Nat]]
    BY <1>1, <1>2 DEF SMTypeOK
  <1>4. stakes' \in [Managers -> StakeInfo]
    BY DEF SMTypeOK, StakeInfo
  <1> QED BY <1>3, <1>4 DEF SMTypeOK

LEMMA PenalizeType ==
    ASSUME SMTypeOK, NEW h \in Hubs, NEW m \in Managers, NEW b \in Accounts,
           NEW amount \in Nat, PenalizeRelayManager(h, m, b, amount)
    PROVE  SMTypeOK'
  <1> DEFINE t == stakes[m].token
             toBurn == amount \div 2
             burned == Moved(tokenBalance[t], Self, burnAddress, toBurn)
  <1>1. /\ t \in Tokens /\ tokenBalance[t] \in [Holders -> Nat]
        /\ tokenBalance[t][Self] >= amount /\ stakes[m].stake >= amount
        /\ stakes[m] \in StakeInfo /\ burnAddress \in BurnAddresses
    BY DEF SMTypeOK, StakeInfo, CanTransfer, CoversPenalty, PenalizeRelayManager
  <1>2. toBurn \in Nat /\ toBurn <= amount /\ amount - toBurn \in Nat
    OBVIOUS
  <1>3. burned \in [Holders -> Nat] /\ burned[Self] = tokenBalance[t][Self] - toBurn
    <2> HIDE DEF toBurn, t
    <2>1. /\ burnAddress \in Holders /\ Self \in Holders /\ burnAddress # Self
          /\ tokenBalance[t][Self] \in Nat
      BY <1>1, HolderFacts
    <2>2. tokenBalance[t][Self] >= toBurn
      BY <1>1, <1>2, <2>1
    <2> QED BY <1>1, <1>2, <2>1, <2>2, MovedFacts
  <1>4. Moved(burned, Self, b, amount - toBurn) \in [Holders -> Nat]
    <2>1. burned[Self] >= amount - toBurn
      BY <1>1, <1>2, <1>3, HolderFacts
    <2> HIDE DEF burned, toBurn
    <2> QED BY <1>2, <1>3, <2>1, HolderFacts, MovedFacts
  <1>5. /\ tokenBalance' = [tokenBalance EXCEPT ![t] = Moved(burned, Self, b, amount - toBurn)]
        /\ stakes' = [stakes EXCEPT ![m].stake = stakes[m].stake - amount]
        /\ UNCHANGED <<authorizedHubs, burnAddress, devAddress, now>>
    BY DEF PenalizeRelayManager, ToBurn
  <1> HIDE DEF t, burned, toBurn
  <1>6. tokenBalance' \in [Tokens -> [Holders -> Nat]]
    BY <1>1, <1>4, <1>5 DEF SMTypeOK
  <1>7. stakes' \in [Managers -> StakeInfo]
    <2>1. stakes[m].stake - amount \in Nat
      BY <1>1 DEF StakeInfo
    <2> QED BY <2>1, <1>5 DEF SMTypeOK, StakeInfo
  <1> QED BY <1>5, <1>6, <1>7 DEF SMTypeOK

LEMMA AuthorizationType ==
    ASSUME SMTypeOK, NEW m \in Managers, NEW h \in Hubs,
           AuthorizeHub(m, h) \/ UnauthorizeHub(m, h)
    PROVE  SMTypeOK'
  <1>1. MaxUint \in Nat /\ now + stakes[m].unstakeDelay \in Nat
    BY NumberAssumption DEF NumberAssumption, SMTypeOK, StakeInfo
  <1> QED BY <1>1 DEF SMTypeOK, AuthorizeHub, UnauthorizeHub

(* The steps that only touch the record of one manager, or the settings. *)
LEMMA RecordType ==
    ASSUME SMTypeOK, NEW m \in Managers,
           \/ \E owner \in Owners : SetRelayManagerOwner(m, owner)
           \/ UnlockStake(m)
           \/ MarkRelayAbandoned(m)
           \/ RecordKeepalive(m)
    PROVE  SMTypeOK'
  <1>2. stakes[m] \in StakeInfo /\ now \in Nat
    BY NumberAssumption DEF NumberAssumption, SMTypeOK
  <1>3. ASSUME NEW owner \in Owners, SetRelayManagerOwner(m, owner) PROVE SMTypeOK'
    BY <1>3, <1>2 DEF SMTypeOK, StakeInfo, SetRelayManagerOwner
  <1>4. CASE UnlockStake(m)
    <2>1. now + stakes[m].unstakeDelay \in Nat
      BY <1>2 DEF StakeInfo
    <2> QED BY <1>4, <2>1 DEF SMTypeOK, StakeInfo, UnlockStake
  <1>5. CASE MarkRelayAbandoned(m)
    BY <1>5, <1>2 DEF SMTypeOK, StakeInfo, MarkRelayAbandoned
  <1>6. CASE RecordKeepalive(m)
    BY <1>6, <1>2 DEF SMTypeOK, StakeInfo, RecordKeepalive
  <1> QED BY <1>3, <1>4, <1>5, <1>6

LEMMA AdministrationType ==
    ASSUME SMTypeOK, AdministrationNext
    PROVE  SMTypeOK'
  <1>1. ASSUME NEW m \in Managers, WithdrawStake(m) PROVE SMTypeOK'
    <2>1. stakes[m].owner \in Accounts
      BY <1>1, AddressAssumption
         DEF AddressAssumption, SMTypeOK, StakeInfo, WithdrawStake, RelayOwnerOnly
    <2> QED BY <1>1, <2>1, PayOutType DEF WithdrawStake
  <1>2. ASSUME NEW m \in Managers, EscheatAbandonedRelayStake(m) PROVE SMTypeOK'
    <2>1. devAddress \in Accounts
      BY AddressAssumption DEF AddressAssumption, SMTypeOK
    <2> QED BY <1>2, <2>1, PayOutType DEF EscheatAbandonedRelayStake
  <1>3. ASSUME NEW a \in BurnAddresses, SetBurnAddress(a) PROVE SMTypeOK'
    BY <1>3 DEF SMTypeOK, SetBurnAddress
  <1>4. ASSUME NEW a \in DevAddresses, SetDevAddress(a) PROVE SMTypeOK'
    BY <1>4 DEF SMTypeOK, SetDevAddress
  <1> QED BY <1>1, <1>2, <1>3, <1>4, RecordType, AuthorizationType, StakeForRelayManagerType
     DEF AdministrationNext, AuthorizeHubByOwner, AuthorizeHubByManager,
         UnauthorizeHubByOwner, UnauthorizeHubByManager, UpdateRelayKeepaliveTimeByOwner

LEMMA HubNextType ==
    ASSUME SMTypeOK, NEW h \in Hubs, HubNext(h)
    PROVE  SMTypeOK'
  BY NumberAssumption, PenalizeType, RecordType
     DEF NumberAssumption, HubNext, UpdateRelayKeepaliveTimeByHub

LEMMA TickType ==
    ASSUME SMTypeOK, Tick
    PROVE  SMTypeOK'
  BY NumberAssumption DEF NumberAssumption, SMTypeOK, Tick

(* No call of the contract moves the clock. *)
LEMMA ClockStep ==
    /\ AdministrationNext => UNCHANGED now
    /\ \A h \in Hubs : HubNext(h) => UNCHANGED now
  <1>1. ASSUME NEW m \in Managers, NEW owner, SetRelayManagerOwner(m, owner)
        PROVE  UNCHANGED now
    BY <1>1 DEF SetRelayManagerOwner
  <1>2. ASSUME NEW m \in Managers, NEW token, NEW d, NEW amount,
               StakeForRelayManager(m, token, d, amount)
        PROVE  UNCHANGED now
    BY <1>2 DEF StakeForRelayManager
  <1>3. ASSUME NEW m \in Managers,
               \/ UnlockStake(m) \/ WithdrawStake(m) \/ MarkRelayAbandoned(m)
               \/ EscheatAbandonedRelayStake(m) \/ RecordKeepalive(m)
        PROVE  UNCHANGED now
    BY <1>3 DEF UnlockStake, WithdrawStake, MarkRelayAbandoned,
                EscheatAbandonedRelayStake, RecordKeepalive
  <1>4. ASSUME NEW m \in Managers, NEW h, AuthorizeHub(m, h) \/ UnauthorizeHub(m, h)
        PROVE  UNCHANGED now
    BY <1>4 DEF AuthorizeHub, UnauthorizeHub
  <1>5. ASSUME NEW m \in Managers, NEW h, NEW b, NEW amount,
               PenalizeRelayManager(h, m, b, amount)
        PROVE  UNCHANGED now
    BY <1>5 DEF PenalizeRelayManager
  <1>6. ASSUME NEW a, SetBurnAddress(a) \/ SetDevAddress(a) PROVE UNCHANGED now
    BY <1>6 DEF SetBurnAddress, SetDevAddress
  <1> QED BY <1>1, <1>2, <1>3, <1>4, <1>5, <1>6
     DEF AdministrationNext, HubNext, AuthorizeHubByOwner, AuthorizeHubByManager,
         UnauthorizeHubByOwner, UnauthorizeHubByManager, UpdateRelayKeepaliveTimeByOwner,
         UpdateRelayKeepaliveTimeByHub

(* Every variable of the contract keeps its Solidity type; in particular   *)
(* no checked subtraction of a stake or a token balance goes below zero.   *)
THEOREM SMTypeCorrect == SMSpec => []SMTypeOK
  <1>1. SMTypeOK /\ [SMNext]_smVars => SMTypeOK'
    <2>1. CASE UNCHANGED smVars
      BY <2>1 DEF smVars, SMTypeOK
    <2> QED BY <2>1, AdministrationType, HubNextType, TickType DEF SMNext
  <1> QED BY <1>1, InitType, PTL DEF SMSpec

(* One step keeps SilenceInv: only markRelayAbandoned sets abandonedTime,  *)
(* and only after the delay; only a keepalive moves keepaliveTime, and it  *)
(* clears abandonedTime.                                                   *)
LEMMA SilenceStep ==
    ASSUME SMTypeOK, SilenceInv, [SMNext]_smVars
    PROVE  SilenceInv'
  <1>1. ASSUME NEW m \in Managers, stakes'[m].abandonedTime = stakes[m].abandonedTime,
               stakes'[m].keepaliveTime = stakes[m].keepaliveTime,
               stakes'[m].abandonedTime # 0
        PROVE  stakes'[m].keepaliveTime + AbandonmentDelay < stakes'[m].abandonedTime
    BY <1>1 DEF SilenceInv
  <1>2. ASSUME NEW m \in Managers, MarkRelayAbandoned(m) \/ RecordKeepalive(m)
        PROVE  SilenceInv'
    BY <1>2 DEF SilenceInv, MarkRelayAbandoned, RecordKeepalive, SMTypeOK, StakeInfo
  <1>3. CASE \A m \in Managers :
                /\ stakes'[m].abandonedTime = stakes[m].abandonedTime
                /\ stakes'[m].keepaliveTime = stakes[m].keepaliveTime
    BY <1>1, <1>3 DEF SilenceInv
  <1>4. CASE UNCHANGED stakes
    BY <1>3, <1>4
  <1>5. ASSUME AdministrationNext PROVE SilenceInv'
    <2>1. ASSUME NEW m \in Managers, NEW owner \in Owners, SetRelayManagerOwner(m, owner)
          PROVE  SilenceInv'
      BY <2>1, <1>3 DEF SetRelayManagerOwner, SMTypeOK, StakeInfo
    <2>2. ASSUME NEW m \in Managers, NEW token \in Tokens, NEW d \in UnstakeDelays,
                 NEW amount \in StakeAmounts, StakeForRelayManager(m, token, d, amount)
          PROVE  SilenceInv'
      BY <2>2, <1>3 DEF StakeForRelayManager, SMTypeOK, StakeInfo
    <2>3. ASSUME NEW m \in Managers, UnlockStake(m) PROVE SilenceInv'
      BY <2>3, <1>3 DEF UnlockStake, SMTypeOK, StakeInfo
    <2>4. ASSUME NEW m \in Managers, WithdrawStake(m) \/ EscheatAbandonedRelayStake(m)
          PROVE  SilenceInv'
      <3>1. stakes' = [stakes EXCEPT ![m].stake = 0, ![m].withdrawTime = 0]
        BY <2>4 DEF WithdrawStake, EscheatAbandonedRelayStake
      <3> QED BY <3>1, <1>3 DEF SMTypeOK, StakeInfo
    <2> QED BY <1>2, <1>4, <1>5, <2>1, <2>2, <2>3, <2>4
       DEF AdministrationNext, SetBurnAddress, SetDevAddress, AuthorizeHubByOwner,
           AuthorizeHubByManager, AuthorizeHub, UnauthorizeHubByOwner,
           UnauthorizeHubByManager, UnauthorizeHub, UpdateRelayKeepaliveTimeByOwner
  <1>6. ASSUME NEW h \in Hubs, HubNext(h) PROVE SilenceInv'
    <2>1. ASSUME NEW m \in Managers, NEW b \in Accounts, NEW amount \in StakeAmounts,
                 PenalizeRelayManager(h, m, b, amount)
          PROVE  SilenceInv'
      BY <2>1, <1>3 DEF PenalizeRelayManager, SMTypeOK, StakeInfo
    <2> QED BY <1>2, <1>6, <2>1 DEF HubNext, UpdateRelayKeepaliveTimeByHub
  <1> QED BY <1>4, <1>5, <1>6 DEF SMNext, Tick, smVars

(* Escheating takes the full two delays of silence after the last          *)
(* keepalive, for any interleaving of marks, keepalives and restaking.     *)
THEOREM EscheatAfterSilence == SMSpec => []EscheatableOnlyAfterSilence
  <1>1. SMInit => SilenceInv
    BY DEF SMInit, SilenceInv, EmptyStake
  <1>2. SMTypeOK /\ SilenceInv /\ [SMNext]_smVars => SilenceInv'
    BY SilenceStep
  <1>3. SMTypeOK /\ SilenceInv => EscheatableOnlyAfterSilence
    BY NumberAssumption
       DEF NumberAssumption, SMTypeOK, StakeInfo, SilenceInv,
           EscheatableOnlyAfterSilence, IsRelayEscheatable
  <1> QED BY <1>1, <1>2, <1>3, SMTypeCorrect, PTL DEF SMSpec

----------------------------------------------------------------------------
(* What the StakeManager owes: the stakes in each token add up to what it  *)
(* holds of it.                                                            *)
Owed(info, t) ==
    SumFunction([m \in {n \in Managers : info[n].token = t} |-> info[m].stake])

(* Only owned stakes with a token are worth anything.                      *)
StakeInv ==
    /\ StakesBacked
    /\ \A m \in Managers :
          stakes[m].owner = NoAddress \/ stakes[m].token = NoToken => stakes[m].stake = 0

LEMMA StakesBackedIs ==
    StakesBacked <=> \A t \in Tokens : tokenBalance[t][Self] = Owed(stakes, t)
  BY DEF StakesBacked, Owed

(* What is owed depends on tokens and stakes only.                         *)
LEMMA OwedSame ==
    ASSUME NEW old, NEW new, NEW t,
           \A n \in Managers : new[n].token = old[n].token /\ new[n].stake = old[n].stake
    PROVE  Owed(new, t) = Owed(old, t)
  <1>1. {n \in Managers : new[n].token = t} = {n \in Managers : old[n].token = t}
    OBVIOUS
  <1>2. [m \in {n \in Managers : new[n].token = t} |-> new[m].stake]
          = [m \in {n \in Managers : old[n].token = t} |-> old[m].stake]
    BY <1>1
  <1> QED BY <1>2, Zenon DEF Owed

(* One manager's stake changes; it may only now choose its token.          *)
LEMMA OwedChange ==
    ASSUME NEW old \in [Managers -> StakeInfo], NEW new \in [Managers -> StakeInfo],
           NEW m \in Managers, \A n \in Managers \ {m} : new[n] = old[n],
           \/ new[m].token = old[m].token
           \/ old[m].token = NoToken /\ old[m].stake = 0,
           NEW t \in Tokens
    PROVE  /\ Owed(old, t) \in Int
           /\ new[m].token = t => Owed(new, t) = Owed(old, t) - old[m].stake + new[m].stake
           /\ new[m].token # t => Owed(new, t) = Owed(old, t)
  <1> DEFINE Of(info) == {n \in Managers : info[n].token = t}
             f == [n \in Of(old) |-> old[n].stake]
             e == [n \in Of(new) |-> new[n].stake]
  <1>1. IsFiniteSet(Of(old)) /\ IsFiniteSet(Of(new))
    BY AddressAssumption, FS_Subset DEF AddressAssumption
  <1>2. f \in [Of(old) -> Int] /\ e \in [Of(new) -> Int]
    BY DEF StakeInfo
  <1>3. Owed(old, t) = SumFunction(f) /\ Owed(new, t) = SumFunction(e)
    BY Zenon DEF Owed
  <1>4. SumFunction(f) \in Int
    <2> HIDE DEF f, Of
    <2> QED BY <1>1, <1>2, SumType
  <1>5. CASE new[m].token = t /\ old[m].token = t
    <2>1. Of(new) = Of(old) /\ m \in Of(old) /\ \A n \in Of(old) \ {m} : e[n] = f[n]
      BY <1>5
    <2>2. f[m] = old[m].stake /\ e[m] = new[m].stake
      BY <1>5
    <2> HIDE DEF f, e, Of
    <2>3. SumFunction(e) = SumFunction(f) - f[m] + e[m]
      BY <1>1, <1>2, <2>1, SumChange
    <2> QED BY <1>3, <1>4, <1>5, <2>2, <2>3
  <1>6. CASE new[m].token = t /\ old[m].token # t
    <2>1. /\ Of(new) = Of(old) \union {m} /\ m \notin Of(old)
          /\ \A n \in Of(old) : e[n] = f[n]
      BY <1>6
    <2>2. old[m].stake = 0 /\ e[m] = new[m].stake /\ new[m].stake \in Int
      BY <1>6 DEF StakeInfo
    <2>4. e \in [Of(old) \union {m} -> Int]
      BY <1>2, <2>1
    <2> HIDE DEF f, e, Of
    <2>3. SumFunction(e) = SumFunction(f) + e[m]
      BY <1>1, <1>2, <2>1, <2>4, SumInsert
    <2> QED BY <1>3, <1>4, <1>6, <2>2, <2>3
  <1>7. CASE new[m].token # t
    <2>1. old[m].token # t
      BY <1>7, AddressAssumption DEF AddressAssumption
    <2>2. Of(new) = Of(old)
      BY <1>7, <2>1
    <2>3. \A n \in Of(old) : new[n].stake = old[n].stake
      BY <2>1
    <2>4. e = f
      BY <2>2, <2>3
    <2> QED BY <1>3, <1>4, <1>7, <2>4
  <1> QED BY <1>5, <1>6, <1>7, <1>3, <1>4

(* A step that touches one manager's stake keeps the books in order when   *)
(* the contract receives, or pays, what the stake grows, or shrinks, by.   *)
LEMMA StakeStep ==
    ASSUME SMTypeOK, SMTypeOK', StakeInv, NEW m \in Managers,
           \A n \in Managers \ {m} : stakes'[n] = stakes[n],
           \/ stakes'[m].token = stakes[m].token
           \/ stakes[m].token = NoToken,
           stakes'[m].owner = NoAddress \/ stakes'[m].token = NoToken => stakes'[m].stake = 0,
           \A t \in Tokens :
              /\ t = stakes'[m].token => tokenBalance'[t][Self] =
                    tokenBalance[t][Self] - stakes[m].stake + stakes'[m].stake
              /\ t # stakes'[m].token => tokenBalance'[t][Self] = tokenBalance[t][Self]
    PROVE  StakeInv'
  <1>1. stakes \in [Managers -> StakeInfo] /\ stakes' \in [Managers -> StakeInfo]
    BY DEF SMTypeOK
  <1>2. stakes[m].token = NoToken => stakes[m].stake = 0
    BY DEF StakeInv
  <1>3. ASSUME NEW t \in Tokens PROVE tokenBalance'[t][Self] = Owed(stakes', t)
    <2>1. tokenBalance[t][Self] = Owed(stakes, t)
      BY StakesBackedIs DEF StakeInv
    <2>2. /\ stakes'[m].token = t =>
                Owed(stakes', t) = Owed(stakes, t) - stakes[m].stake + stakes'[m].stake
          /\ stakes'[m].token # t => Owed(stakes', t) = Owed(stakes, t)
      BY <1>1, <1>2, OwedChange
    <2> QED BY <2>1, <2>2
  <1>4. StakesBacked'
    BY <1>3 DEF StakesBacked, Owed
  <1> QED BY <1>4 DEF StakeInv

(* The steps in which no tokens move                                       *)
LEMMA StakeSameStep ==
    ASSUME SMTypeOK, SMTypeOK', StakeInv, UNCHANGED tokenBalance,
           \A n \in Managers :
              /\ stakes'[n].token = stakes[n].token /\ stakes'[n].stake = stakes[n].stake
              /\ stakes'[n].owner = NoAddress => stakes[n].owner = NoAddress
    PROVE  StakeInv'
  <1>1. ASSUME NEW t \in Tokens PROVE tokenBalance'[t][Self] = Owed(stakes', t)
    BY StakesBackedIs, OwedSame DEF StakeInv
  <1>2. StakesBacked'
    BY <1>1 DEF StakesBacked, Owed
  <1> QED BY <1>2 DEF StakeInv

(* The contract's own account in a transfer                                *)
LEMMA SelfMoved ==
    ASSUME NEW ledger \in [Holders -> Nat], NEW a \in Accounts, NEW amount \in Nat
    PROVE  /\ Moved(ledger, a, Self, amount)[Self] = ledger[Self] + amount
           /\ Moved(ledger, Self, a, amount)[Self] = ledger[Self] - amount
  <1>1. a # Self /\ Self \in Holders /\ ledger[Self] \in Nat
    BY HolderFacts
  <1> QED BY <1>1 DEF Moved

LEMMA StakeBooks ==
    ASSUME SMTypeOK, SMTypeOK', StakeInv, NEW m \in Managers, NEW token \in Tokens,
           NEW d \in UnstakeDelays, NEW amount \in StakeAmounts,
           StakeForRelayManager(m, token, d, amount)
    PROVE  StakeInv'
  <1> DEFINE o == stakes[m].owner
  <1>1. o \in Accounts /\ o # NoAddress /\ amount \in Nat /\ stakes[m] \in StakeInfo
    BY NumberAssumption, AddressAssumption
       DEF NumberAssumption, AddressAssumption, SMTypeOK, StakeInfo, StakeForRelayManager,
           RelayOwnerOnly
  <1>2. /\ tokenBalance' = [tokenBalance EXCEPT ![token] =
                              Moved(tokenBalance[token], o, Self, amount)]
        /\ stakes' = [stakes EXCEPT ![m] =
             [stakes[m] EXCEPT !.token = token, !.stake = stakes[m].stake + amount,
                               !.unstakeDelay = d]]
        /\ stakes[m].token \in {NoToken, token}
    BY DEF StakeForRelayManager, SMTypeOK
  <1> HIDE DEF o
  <1>3. tokenBalance'[token][Self] = tokenBalance[token][Self] + amount
    BY <1>1, <1>2, SelfMoved DEF SMTypeOK
  <1>4. \A t \in Tokens \ {token} : tokenBalance'[t] = tokenBalance[t]
    BY <1>2 DEF SMTypeOK
  <1>5. /\ stakes'[m].token = token /\ stakes'[m].stake = stakes[m].stake + amount
        /\ stakes'[m].owner = o
        /\ \A n \in Managers \ {m} : stakes'[n] = stakes[n]
    BY <1>1, <1>2 DEF SMTypeOK, StakeInfo, o
  <1>6. stakes[m].stake \in Nat /\ tokenBalance[token][Self] \in Nat /\ token # NoToken
    BY <1>1, HolderFacts, AddressAssumption DEF StakeInfo, SMTypeOK, AddressAssumption
  <1> QED BY <1>1, <1>2, <1>3, <1>4, <1>5, <1>6, StakeStep

LEMMA PayOutBooks ==
    ASSUME SMTypeOK, SMTypeOK', StakeInv, NEW m \in Managers, NEW to \in Accounts,
           CanTransfer(stakes[m].token, Self, stakes[m].stake),
           tokenBalance' = [tokenBalance EXCEPT ![stakes[m].token] =
                              Moved(@, Self, to, stakes[m].stake)],
           stakes' = [stakes EXCEPT ![m].stake = 0, ![m].withdrawTime = 0]
    PROVE  StakeInv'
  <1> DEFINE t == stakes[m].token
  <1>1. /\ t \in Tokens /\ stakes[m].stake \in Nat
        /\ tokenBalance[t] \in [Holders -> Nat] /\ tokenBalance[t][Self] \in Nat
    BY HolderFacts DEF SMTypeOK, StakeInfo, CanTransfer
  <1>2. tokenBalance'[t][Self] = tokenBalance[t][Self] - stakes[m].stake
    <2>1. tokenBalance'[t] = Moved(tokenBalance[t], Self, to, stakes[m].stake)
      BY <1>1 DEF SMTypeOK
    <2> HIDE DEF t
    <2> QED BY <1>1, <2>1, SelfMoved
  <1>3. \A u \in Tokens \ {t} : tokenBalance'[u] = tokenBalance[u]
    BY <1>1 DEF SMTypeOK
  <1>4. /\ stakes'[m].token = t /\ stakes'[m].stake = 0
        /\ \A n \in Managers \ {m} : stakes'[n] = stakes[n]
    BY DEF SMTypeOK, StakeInfo
  <1> HIDE DEF t
  <1>5. tokenBalance'[t][Self] = tokenBalance[t][Self] - stakes[m].stake + stakes'[m].stake
    BY <1>1, <1>2, <1>4
  <1>6. stakes'[m].token = stakes[m].token
    BY <1>4 DEF t
  <1> HIDE DEF t
  <1>7. \A u \in Tokens :
           /\ u = stakes'[m].token => tokenBalance'[u][Self] =
                 tokenBalance[u][Self] - stakes[m].stake + stakes'[m].stake
           /\ u # stakes'[m].token => tokenBalance'[u][Self] = tokenBalance[u][Self]
    BY <1>3, <1>4, <1>5
  <1> QED BY <1>4, <1>6, <1>7, StakeStep

LEMMA PenalizeBooks ==
    ASSUME SMTypeOK, SMTypeOK', StakeInv, NEW h \in Hubs, NEW m \in Managers,
           NEW b \in Accounts, NEW amount \in Nat, PenalizeRelayManager(h, m, b, amount)
    PROVE  /\ StakeInv'
           /\ \A n \in Managers \ {m} : stakes'[n] = stakes[n]
           /\ stakes'[m].stake = stakes[m].stake - amount
           /\ stakes[m].token \in Tokens
           /\ \A a \in Owners : tokenBalance'[stakes[m].token][a] <=
                tokenBalance[stakes[m].token][a] + (amount + 1) \div 2
  <1> DEFINE t == stakes[m].token
             toBurn == amount \div 2
             ledger == tokenBalance[t]
             burned == Moved(ledger, Self, burnAddress, toBurn)
             paid == Moved(burned, Self, b, amount - toBurn)
  <1>1. /\ t \in Tokens /\ ledger \in [Holders -> Nat]
        /\ ledger[Self] >= amount /\ stakes[m].stake >= amount
        /\ stakes[m] \in StakeInfo /\ burnAddress \in BurnAddresses
        /\ stakes[m].stake \in Nat
    BY DEF SMTypeOK, StakeInfo, CanTransfer, CoversPenalty, PenalizeRelayManager
  <1>2. /\ tokenBalance' = [tokenBalance EXCEPT ![t] = paid]
        /\ stakes' = [stakes EXCEPT ![m].stake = stakes[m].stake - amount]
    BY DEF PenalizeRelayManager, ToBurn
  <1>3. /\ toBurn \in Nat /\ toBurn <= amount /\ amount - toBurn \in Nat
        /\ amount - toBurn = (amount + 1) \div 2
    OBVIOUS
  <1>4. burnAddress \in Accounts
    BY <1>1, AddressAssumption DEF AddressAssumption
  <1>5. /\ stakes'[m].token = t /\ stakes'[m].stake = stakes[m].stake - amount
        /\ stakes'[m].owner = stakes[m].owner
        /\ \A n \in Managers \ {m} : stakes'[n] = stakes[n]
    BY <1>1, <1>2 DEF SMTypeOK, StakeInfo
  <1>6. tokenBalance'[t] = paid /\ \A u \in Tokens \ {t} : tokenBalance'[u] = tokenBalance[u]
    BY <1>1, <1>2 DEF SMTypeOK
  <1> HIDE DEF t, toBurn, paid, ledger
  <1>7. burned[Self] = ledger[Self] - toBurn /\ burned \in [Holders -> Nat]
    <2>1. ledger[Self] \in Nat /\ burnAddress \in Holders /\ Self \in Holders
      BY <1>1, <1>4, HolderFacts
    <2>2. ledger[Self] >= toBurn
      BY <1>1, <1>3, <2>1
    <2> QED BY <1>1, <1>3, <1>4, <2>1, <2>2, SelfMoved, MovedFacts
  <1>8. \A a \in Owners : burned[a] = ledger[a]
    <2>1. ledger[Self] \in Nat /\ burnAddress \in Holders /\ Self \in Holders
      BY <1>1, <1>4, HolderFacts
    <2>2. ledger[Self] >= toBurn
      BY <1>1, <1>3, <2>1
    <2> QED BY <1>1, <1>3, <2>1, <2>2, HolderFacts, MovedFacts
  <1> HIDE DEF burned
  <1>9. paid[Self] = ledger[Self] - amount
    <2>1. paid[Self] = burned[Self] - (amount - toBurn)
      BY <1>3, <1>7, SelfMoved DEF paid
    <2> QED BY <1>1, <1>3, <1>7, <2>1, HolderFacts
  <1>10. \A a \in Owners : paid[a] <= burned[a] + (amount - toBurn)
    <2>1. ASSUME NEW a \in Owners PROVE paid[a] <= burned[a] + (amount - toBurn)
      <3>1. a \in Holders /\ a # Self /\ burned[a] \in Nat
        BY <1>7, HolderFacts
      <3> QED BY <1>3, <3>1 DEF paid, Moved
    <2> QED BY <2>1
  <1>11. StakeInv'
    <2>1. stakes[m].owner = NoAddress \/ t = NoToken => stakes[m].stake = 0
      BY DEF StakeInv, t
    <2>2. ledger[Self] \in Nat
      BY <1>1, HolderFacts
    <2>3. tokenBalance'[t][Self] = ledger[Self] - stakes[m].stake + stakes'[m].stake
      BY <1>1, <1>5, <1>6, <1>9, <2>2
    <2>4. stakes'[m].owner = NoAddress \/ stakes'[m].token = NoToken => stakes'[m].stake = 0
      BY <1>1, <1>5, <2>1
    <2> QED BY <1>5, <1>6, <2>3, <2>4, StakeStep DEF t, ledger
  <1>12. \A a \in Owners : tokenBalance'[t][a] <= tokenBalance[t][a] + (amount + 1) \div 2
    BY <1>3, <1>6, <1>8, <1>10 DEF ledger
  <1> QED BY <1>1, <1>5, <1>11, <1>12 DEF t

(* All steps of the StakeManager, and what a hub makes of them             *)
LEMMA AdministrationBooks ==
    ASSUME SMTypeOK, SMTypeOK', StakeInv, AdministrationNext
    PROVE  StakeInv'
  <1> USE DEF SMTypeOK, StakeInfo
  <1>1. CASE UNCHANGED <<stakes, tokenBalance>>
    BY <1>1, StakeSameStep
  <1>2. ASSUME NEW m \in Managers, NEW owner \in Owners, SetRelayManagerOwner(m, owner)
        PROVE  StakeInv'
    <2>1. UNCHANGED tokenBalance /\ stakes' = [stakes EXCEPT ![m].owner = owner]
          /\ owner # NoAddress
      BY <1>2 DEF SetRelayManagerOwner
    <2> QED BY <2>1, StakeSameStep
  <1>3. ASSUME NEW m \in Managers, WithdrawStake(m) PROVE StakeInv'
    <2>1. stakes[m].owner \in Accounts
      BY <1>3, AddressAssumption DEF AddressAssumption, WithdrawStake, RelayOwnerOnly
    <2> QED BY <1>3, <2>1, PayOutBooks DEF WithdrawStake
  <1>4. ASSUME NEW m \in Managers, EscheatAbandonedRelayStake(m) PROVE StakeInv'
    <2>1. devAddress \in Accounts
      BY AddressAssumption DEF AddressAssumption
    <2> QED BY <1>4, <2>1, PayOutBooks DEF EscheatAbandonedRelayStake
  <1>5. ASSUME NEW m \in Managers, UnlockStake(m) \/ MarkRelayAbandoned(m) \/ RecordKeepalive(m)
        PROVE  StakeInv'
    <2>1. UNCHANGED tokenBalance
      BY <1>5 DEF UnlockStake, MarkRelayAbandoned, RecordKeepalive
    <2>2. \A n \in Managers :
             /\ stakes'[n].token = stakes[n].token /\ stakes'[n].stake = stakes[n].stake
             /\ stakes'[n].owner = stakes[n].owner
      <3>1. CASE UnlockStake(m)
        BY <3>1 DEF UnlockStake
      <3>2. CASE MarkRelayAbandoned(m)
        BY <3>2 DEF MarkRelayAbandoned
      <3>3. CASE RecordKeepalive(m)
        BY <3>3 DEF RecordKeepalive
      <3> QED BY <1>5, <3>1, <3>2, <3>3
    <2> QED BY <2>1, <2>2, StakeSameStep
  <1> QED BY <1>1, <1>2, <1>3, <1>4, <1>5, StakeBooks
     DEF AdministrationNext, SetBurnAddress, SetDevAddress, AuthorizeHubByOwner,
         AuthorizeHubByManager, AuthorizeHub, UnauthorizeHubByOwner,
         UnauthorizeHubByManager, UnauthorizeHub, UpdateRelayKeepaliveTimeByOwner

LEMMA KeepaliveBooks ==
    ASSUME SMTypeOK, SMTypeOK', StakeInv, NEW m \in Managers, RecordKeepalive(m)
    PROVE  StakeInv'
  <1>1. \A n \in Managers :
           /\ stakes'[n].token = stakes[n].token /\ stakes'[n].stake = stakes[n].stake
           /\ stakes'[n].owner = stakes[n].owner
    BY DEF RecordKeepalive, SMTypeOK, StakeInfo
  <1>2. UNCHANGED tokenBalance
    BY DEF RecordKeepalive
  <1> QED BY <1>1, <1>2, StakeSameStep

LEMMA HubNextBooks ==
    ASSUME SMTypeOK, SMTypeOK', StakeInv, NEW h \in Hubs, HubNext(h)
    PROVE  StakeInv'
  BY NumberAssumption, PenalizeBooks, KeepaliveBooks
     DEF NumberAssumption, HubNext, UpdateRelayKeepaliveTimeByHub

LEMMA InitBooks == SMInit => StakeInv
  <1> SUFFICES ASSUME SMInit PROVE StakeInv
    OBVIOUS
  <1>1. ASSUME NEW t \in Tokens PROVE tokenBalance[t][Self] = Owed(stakes, t)
    <2> DEFINE none == [m \in {n \in Managers : stakes[n].token = t} |-> stakes[m].stake]
    <2>1. {n \in Managers : stakes[n].token = t} = {}
      BY AddressAssumption DEF AddressAssumption, SMInit, EmptyStake
    <2>2. IsFiniteSet({}) /\ none \in [{} -> Int]
      BY <2>1, FS_EmptySet
    <2>3. SumFunction(none) = 0
      <3> HIDE DEF none
      <3> QED BY <2>2, SumZero
    <2>4. Owed(stakes, t) = 0
      BY <2>3, Zenon DEF Owed
    <2>5. tokenBalance[t][Self] = 0
      BY HolderFacts DEF SMInit
    <2> QED BY <2>4, <2>5
  <1>2. StakesBacked
    BY <1>1, StakesBackedIs
  <1> QED BY <1>2 DEF StakeInv, SMInit, EmptyStake

(* The contract can always pay back exactly what was staked: nothing that  *)
(* stake, withdraw, penalize and escheat do in any order takes from one    *)
(* manager's deposit to pay for another's.                                 *)
THEOREM StakesAreBacked == SMSpec => []StakesBacked
  <1>1. SMTypeOK /\ SMTypeOK' /\ StakeInv /\ [SMNext]_smVars => StakeInv'
    <2> SUFFICES ASSUME SMTypeOK, SMTypeOK', StakeInv, [SMNext]_smVars PROVE StakeInv'
      OBVIOUS
    <2>1. CASE UNCHANGED <<stakes, tokenBalance>>
      BY <2>1, StakeSameStep
    <2> QED BY <2>1, AdministrationBooks, HubNextBooks DEF SMNext, Tick, smVars
  <1>2. StakeInv => StakesBacked
    BY DEF StakeInv
  <1> QED BY <1>1, <1>2, InitBooks, SMTypeCorrect, PTL DEF SMSpec

----------------------------------------------------------------------------
(* The RelayHub with the StakeManager.                                     *)

(* Arithmetic of relayCall's charge. *)
LEMMA ChargeNat ==
    ASSUME config \in RelayHubConfig, NEW g \in Nat, NEW price \in Nat
    PROVE  CalculateCharge(g, price) \in Nat
  <1>1. config.baseRelayFee \in Nat /\ config.pctRelayFee \in Nat
    BY DEF RelayHubConfig
  <1>2. ASSUME NEW a \in Nat, NEW b \in Nat PROVE a * b \in Nat
    OBVIOUS
  <1>3. g * price * (config.pctRelayFee + 100) \in Nat
    BY <1>1, <1>2
  <1>4. ASSUME NEW a \in Nat PROVE a \div 100 \in Nat
    OBVIOUS
  <1> QED BY <1>1, <1>3, <1>4 DEF CalculateCharge

(* A dev fee below 100 percent never takes more than the charge. *)
LEMMA DevChargeBound ==
    ASSUME config \in RelayHubConfig, NEW c \in Nat
    PROVE  CalculateDevCharge(c) \in 0..c
  <1>1. config.devFee \in 0..99
    BY DEF RelayHubConfig
  <1>2. ASSUME NEW f \in 0..99 PROVE c * f \in Nat /\ c * f <= c * 100
    OBVIOUS
  <1>3. ASSUME NEW a \in Nat, a <= c * 100 PROVE a \div 100 \in 0..c
    BY <1>3
  <1> QED BY <1>1, <1>2, <1>3 DEF CalculateDevCharge

LEMMA ConfigFacts == HubTypeOK => config \in RelayHubConfig
  BY HubAssumption DEF HubAssumption, HubTypeOK

LEMMA HubInitType == HubInit => HubTypeOK
  BY HubAssumption, NumberAssumption DEF HubAssumption, NumberAssumption, HubInit, HubTypeOK

(* What relayCall computes with: naturals, and the dev's share is part of  *)
(* the charge.                                                             *)
LEMMA RelayCallNumbers ==
    ASSUME HubTypeOK, NEW pm \in Paymasters, NEW outcome, NEW delta \in DepositChanges,
           NEW gas \in GasMeasures, NEW price \in GasPrices
    PROVE  LET used   == GasUsed(gas)
               charge == CalculateCharge(used, price)
           IN  /\ InnerRelayCall(pm, outcome, delta).delta \in Nat
               /\ charge \in Nat /\ CalculateDevCharge(charge) \in 0..charge
  <1> DEFINE used  == GasUsed(gas)
             charge    == CalculateCharge(used, price)
             devCharge == CalculateDevCharge(charge)
             credit == InnerRelayCall(pm, outcome, delta).delta
  <1>2. delta \in Int /\ balances[pm] \in Nat /\ ether \in Nat
    <2>1. EtherAmounts \subseteq Nat
      BY HubAssumption DEF HubAssumption
    <2>2. CASE delta \in {-x : x \in EtherAmounts}
      <3>1. PICK x \in EtherAmounts : delta = -x
        BY <2>2
      <3>2. delta \in Int
        BY <2>1, <3>1
      <3> QED BY <3>2 DEF HubTypeOK, HubAccounts
    <2>3. CASE delta \in {0} \union EtherAmounts
      BY <2>1, <2>3 DEF HubTypeOK, HubAccounts
    <2> QED BY <2>2, <2>3 DEF DepositChanges
  <1>3. credit \in Nat
    BY <1>2 DEF InnerRelayCall
  <1>4. used \in Nat /\ price \in Nat
    <2>1. gas.initial \in Nat /\ gas.left \in 0..gas.initial
      BY HubAssumption DEF HubAssumption, GasMeasures
    <2>2. config.gasOverhead \in Nat /\ CalldataGas \in Nat /\ price \in Nat
      BY HubAssumption, ConfigFacts DEF HubAssumption, RelayHubConfig
    <2> QED BY <2>1, <2>2 DEF GasUsed
  <1>5. charge \in Nat /\ devCharge \in 0..charge
    <2> HIDE DEF used
    <2>1. charge \in Nat
      BY <1>4, ConfigFacts, ChargeNat
    <2> HIDE DEF charge
    <2> QED BY <2>1, ConfigFacts, DevChargeBound
  <1> QED BY <1>3, <1>5

(* Charging and crediting leaves natural balances: the checked subtraction *)
(* of the charge cannot fail after the guard, and the inner call cannot    *)
(* lower the deposit.                                                      *)
LEMMA RelayCallType ==
    ASSUME HubTypeOK, SMTypeOK, NEW w \in Workers, NEW pm \in Paymasters,
           NEW outcome \in InnerOutcomes, NEW delta \in DepositChanges,
           NEW gas \in GasMeasures, NEW price \in GasPrices,
           RelayCall(w, pm, outcome, delta, gas, price)
    PROVE  HubTypeOK'
  <1> DEFINE m     == workerToManager[w]
             inner == InnerRelayCall(pm, outcome, delta)
             used  == GasUsed(gas)
             charge    == CalculateCharge(used, price)
             devCharge == CalculateDevCharge(charge)
             credit == inner.delta
  <1>1. m \in Managers
    BY DEF RelayCall, HubTypeOK
  <1>2. credit \in Nat /\ charge \in Nat /\ devCharge \in 0..charge
    BY RelayCallNumbers
  <1>6. /\ \/ UNCHANGED <<balances, ether>>
           \/ /\ charge <= balances[pm] + credit
              /\ balances' = [a \in HubAccounts |-> balances[a]
                     + ((IF a = pm THEN credit ELSE 0)
                        + (IF a = m THEN charge - devCharge ELSE 0)
                        + (IF a = config.devAddress THEN devCharge ELSE 0))
                     - (IF a = pm THEN charge ELSE 0)]
              /\ ether' = ether + credit
        /\ penalizableUntil' = [penalizableUntil EXCEPT
              ![m] = Maximum(@, now + config.minimumUnstakeDelay)]
        /\ UNCHANGED <<config, minimumStakePerToken, workerToManager, workerCount,
                       deprecationTime, smVars>>
    BY DEF RelayCall
  <1> HIDE DEF m, inner, used, charge, devCharge, credit
  <1>7. balances' \in [HubAccounts -> Nat] /\ ether' \in Nat
    BY <1>1, <1>2, <1>6 DEF HubTypeOK
  <1>8. penalizableUntil' \in [Managers -> Nat]
    <2>1. now + config.minimumUnstakeDelay \in Nat
      BY ConfigFacts, NumberAssumption DEF NumberAssumption, SMTypeOK, RelayHubConfig
    <2> QED BY <1>1, <1>6, <2>1 DEF HubTypeOK, Maximum
  <1> QED BY <1>6, <1>7, <1>8 DEF HubTypeOK

LEMMA HubOwnerType ==
    ASSUME HubTypeOK, HubOwnerNext
    PROVE  HubTypeOK'
  <1>1. ASSUME NEW c \in Configs, SetConfiguration(c) PROVE HubTypeOK'
    BY <1>1 DEF HubTypeOK, SetConfiguration
  <1>2. ASSUME NEW t \in Tokens, NEW s \in MinimumStakes, SetMinimumStakes(t, s)
        PROVE  HubTypeOK'
    BY <1>2, HubAssumption DEF HubAssumption, HubTypeOK, SetMinimumStakes
  <1>3. ASSUME NEW t \in DeprecationTimes, DeprecateHub(t) PROVE HubTypeOK'
    BY <1>3, HubAssumption DEF HubAssumption, HubTypeOK, DeprecateHub
  <1>4. ASSUME NEW m \in Managers, EscheatAbandonedRelayBalance(m) PROVE HubTypeOK'
    BY <1>4 DEF HubTypeOK, EscheatAbandonedRelayBalance, HubAccounts
  <1> QED BY <1>1, <1>2, <1>3, <1>4 DEF HubOwnerNext

LEMMA HubCallsType ==
    ASSUME HubTypeOK, HubCallsNext
    PROVE  HubTypeOK'
  <1>1. ASSUME NEW m \in Managers, NEW ws \in WorkerLists, AddRelayWorkers(m, ws)
        PROVE  HubTypeOK'
    <2>1. Len(ws) \in Nat
      BY HubAssumption DEF HubAssumption, WorkerLists
    <2> QED BY <1>1, <2>1 DEF HubTypeOK, AddRelayWorkers
  <1>2. ASSUME NEW pm \in Paymasters, NEW x \in EtherAmounts, DepositFor(pm, x)
        PROVE  HubTypeOK'
    BY <1>2, HubAssumption DEF HubAssumption, HubTypeOK, DepositFor, HubAccounts
  <1>3. ASSUME NEW a \in HubAccounts, NEW x \in EtherAmounts, WithdrawMultiple(a, x)
        PROVE  HubTypeOK'
    BY <1>3, HubAssumption DEF HubAssumption, HubTypeOK, WithdrawMultiple
  <1>4. CASE UNCHANGED hubVars
    BY <1>4 DEF hubVars, HubTypeOK
  <1> QED BY <1>1, <1>2, <1>3, <1>4 DEF HubCallsNext, HubUsersNext, OnRelayServerRegistered, Penalize

(* The callbacks of this hub into the StakeManager, and nothing else, are  *)
(* the steps that change the stakes outside StakeManagerNext.              *)
LEMMA StakeTypeStep ==
    ASSUME HubTypeOK, SMTypeOK, [Next]_vars
    PROVE  SMTypeOK'
  <1>1. CASE UNCHANGED smVars
    BY <1>1 DEF smVars, SMTypeOK
  <1>2. CASE RelayNext
    BY <1>1, <1>2 DEF RelayNext, RelayCall
  <1>3. CASE HubOwnerNext
    BY <1>1, <1>3 DEF HubOwnerNext, SetConfiguration, SetMinimumStakes, DeprecateHub,
                      EscheatAbandonedRelayBalance
  <1>4. CASE HubCallsNext
    <2>1. ASSUME NEW w \in Workers, NEW b \in Accounts, Penalize(w, b) PROVE SMTypeOK'
      <3>1. workerToManager[w] \in Managers /\ Hub \in Hubs
        BY <2>1, HubAssumption DEF HubAssumption, HubTypeOK, Penalize
      <3>2. stakes[workerToManager[w]].stake \in Nat
        BY <3>1 DEF SMTypeOK, StakeInfo
      <3> QED BY <2>1, <3>1, <3>2, PenalizeType DEF Penalize
    <2>2. ASSUME NEW m \in Managers, OnRelayServerRegistered(m) PROVE SMTypeOK'
      BY <2>2, RecordType DEF OnRelayServerRegistered, UpdateRelayKeepaliveTimeByHub
    <2> QED BY <1>1, <1>4, <2>1, <2>2
       DEF HubCallsNext, HubUsersNext, AddRelayWorkers, DepositFor, WithdrawMultiple
  <1>5. CASE StakeManagerNext
    BY <1>5, AdministrationType, HubNextType, TickType DEF StakeManagerNext
  <1>6. CASE UNCHANGED vars
    BY <1>1, <1>6 DEF vars, smVars
  <1> QED BY <1>2, <1>3, <1>4, <1>5, <1>6 DEF Next

LEMMA TypeStep ==
    ASSUME TypeOK, [Next]_vars
    PROVE  TypeOK'
  <1>1. SMTypeOK'
    BY StakeTypeStep DEF TypeOK
  <1>2. ASSUME UNCHANGED hubVars PROVE HubTypeOK'
    BY <1>2 DEF hubVars, HubTypeOK, TypeOK
  <1>3. ASSUME UNCHANGED vars PROVE HubTypeOK'
    BY <1>2, <1>3 DEF vars, hubVars
  <1>4. HubTypeOK'
    BY <1>2, <1>3, RelayCallType, HubOwnerType, HubCallsType
       DEF Next, RelayNext, StakeManagerNext, TypeOK
  <1> QED BY <1>1, <1>4 DEF TypeOK

(* Every variable of the two contracts keeps its Solidity type.            *)
THEOREM TypeCorrect == Spec => []TypeOK
  <1>1. Init => TypeOK
    BY InitType, HubInitType DEF Init, TypeOK
  <1>2. TypeOK /\ [Next]_vars => TypeOK'
    BY TypeStep
  <1> QED BY <1>1, <1>2, PTL DEF Spec

----------------------------------------------------------------------------
(* The penalization window.                                                *)

(* What WindowInv says of one manager, from the values it depends on. *)
Window(until, t, info, removalTime) ==
    /\ until <= t + info.unstakeDelay
    /\ info.unstakeDelay <= MaxUnstakeDelay
    /\ info.withdrawTime # 0 => info.withdrawTime >= until
    /\ removalTime >= until

LEMMA WindowInvIs ==
    WindowInv <=> \A m \in Managers :
        Window(penalizableUntil[m], now, stakes[m], authorizedHubs[m][Hub])
  BY DEF WindowInv, Window

LEMMA ManagerTypes ==
    ASSUME TypeOK, NEW m \in Managers
    PROVE  /\ now \in Nat /\ penalizableUntil[m] \in Nat /\ authorizedHubs[m][Hub] \in Nat
           /\ stakes[m] \in StakeInfo /\ stakes[m].unstakeDelay \in Nat
           /\ stakes[m].withdrawTime \in Nat /\ stakes[m].stake \in Nat
           /\ now + MaxUnstakeDelay < MaxUint /\ MaxUnstakeDelay \in Nat /\ MaxUint \in Nat
  BY NumberAssumption, HubAssumption
     DEF NumberAssumption, HubAssumption, TypeOK, SMTypeOK, HubTypeOK, StakeInfo

(* The open window keeps until the clock reaches its end: authorization is *)
(* taken away, and a withdrawal scheduled, at least the unstake delay      *)
(* ahead, which relayCall found to be no shorter than the window.          *)
LEMMA AdministrationWindow ==
    ASSUME TypeOK, WindowInv, AdministrationNext, UNCHANGED penalizableUntil
    PROVE  WindowInv'
  <1> DEFINE WindowAfter(n) ==
        Window(penalizableUntil[n], now, stakes'[n], authorizedHubs'[n][Hub])
  <1>0. /\ UNCHANGED now
        /\ \A n \in Managers : Window(penalizableUntil[n], now, stakes[n], authorizedHubs[n][Hub])
    <2>1. \A n \in Managers : Window(penalizableUntil[n], now, stakes[n], authorizedHubs[n][Hub])
      BY WindowInvIs
    <2>2. UNCHANGED now
      BY ClockStep
    <2> QED BY <2>1, <2>2
  <1>1. SUFFICES ASSUME NEW n \in Managers PROVE WindowAfter(n)
    BY <1>0 DEF WindowInv, Window
  <1>2. CASE stakes'[n] = stakes[n] /\ authorizedHubs'[n] = authorizedHubs[n]
    BY <1>0, <1>2
  <1>3. CASE UNCHANGED <<stakes, authorizedHubs>>
    BY <1>2, <1>3
  <1>4. ASSUME NEW m \in Managers, NEW owner \in Owners, SetRelayManagerOwner(m, owner)
        PROVE  WindowAfter(n)
    BY <1>0, <1>4, ManagerTypes DEF SetRelayManagerOwner, TypeOK, SMTypeOK, StakeInfo, Window
  <1>5. ASSUME NEW m \in Managers, NEW token \in Tokens, NEW d \in UnstakeDelays,
               NEW amount \in StakeAmounts, StakeForRelayManager(m, token, d, amount)
        PROVE  WindowAfter(n)
    <2>1. /\ stakes' = [stakes EXCEPT ![m].token = token,
                                     ![m].stake = @ + amount,
                                     ![m].unstakeDelay = d]
          /\ d >= stakes[m].unstakeDelay /\ d <= MaxUnstakeDelay /\ d \in Nat
          /\ UNCHANGED authorizedHubs
      BY <1>5, NumberAssumption DEF NumberAssumption, StakeForRelayManager
    <2>2. CASE n = m
      <3>1. stakes'[n].unstakeDelay = d /\ stakes'[n].withdrawTime = stakes[n].withdrawTime
        BY <2>1, <2>2 DEF TypeOK, SMTypeOK, StakeInfo
      <3> QED BY <1>0, <2>1, <2>2, <3>1, ManagerTypes DEF Window
    <2>3. CASE n # m
      BY <1>2, <2>1, <2>3 DEF TypeOK, SMTypeOK
    <2> QED BY <2>2, <2>3
  <1>6. ASSUME NEW m \in Managers, UnlockStake(m) PROVE WindowAfter(n)
    <2>1. CASE n = m
      <3>1. /\ stakes'[n].unstakeDelay = stakes[n].unstakeDelay
            /\ stakes'[n].withdrawTime = now + stakes[n].unstakeDelay
            /\ UNCHANGED authorizedHubs
        BY <1>6, <2>1 DEF UnlockStake, TypeOK, SMTypeOK, StakeInfo
      <3> QED BY <1>0, <3>1, ManagerTypes DEF Window
    <2>2. CASE n # m
      BY <1>2, <1>6, <2>2 DEF UnlockStake, TypeOK, SMTypeOK
    <2> QED BY <2>1, <2>2
  <1>7. ASSUME NEW m \in Managers,
               stakes' = [stakes EXCEPT ![m].stake = 0, ![m].withdrawTime = 0],
               UNCHANGED authorizedHubs
        PROVE  WindowAfter(n)
    BY <1>0, <1>7, ManagerTypes DEF TypeOK, SMTypeOK, StakeInfo, Window
  <1>8. ASSUME NEW m \in Managers, MarkRelayAbandoned(m) \/ RecordKeepalive(m)
        PROVE  WindowAfter(n)
    <2>1. CASE MarkRelayAbandoned(m)
      BY <1>0, <2>1, ManagerTypes
         DEF MarkRelayAbandoned, TypeOK, SMTypeOK, StakeInfo, Window
    <2>2. CASE RecordKeepalive(m)
      BY <1>0, <2>2, ManagerTypes
         DEF RecordKeepalive, TypeOK, SMTypeOK, StakeInfo, Window
    <2> QED BY <1>8, <2>1, <2>2
  <1>9. ASSUME NEW m \in Managers, NEW h \in Hubs, AuthorizeHub(m, h)
        PROVE  WindowAfter(n)
    <2>1. /\ authorizedHubs'[n][Hub] \in {authorizedHubs[n][Hub], MaxUint}
          /\ UNCHANGED stakes
      BY <1>9, HubAssumption DEF HubAssumption, AuthorizeHub, TypeOK, SMTypeOK
    <2>2. penalizableUntil[n] <= MaxUint
      BY <1>0, ManagerTypes DEF Window
    <2> QED BY <1>0, <2>1, <2>2, ManagerTypes DEF Window
  <1>10. ASSUME NEW m \in Managers, NEW h \in Hubs, UnauthorizeHub(m, h)
         PROVE  WindowAfter(n)
    <2>1. /\ \/ authorizedHubs'[n][Hub] = authorizedHubs[n][Hub]
             \/ authorizedHubs'[n][Hub] = now + stakes[n].unstakeDelay
          /\ UNCHANGED stakes
      BY <1>10, HubAssumption DEF HubAssumption, UnauthorizeHub, TypeOK, SMTypeOK
    <2> QED BY <1>0, <2>1, ManagerTypes DEF Window
  <1> QED
    BY <1>3, <1>4, <1>5, <1>6, <1>7, <1>8, <1>9, <1>10
       DEF AdministrationNext, SetBurnAddress, SetDevAddress, WithdrawStake,
           EscheatAbandonedRelayStake, AuthorizeHubByOwner, AuthorizeHubByManager,
           UnauthorizeHubByOwner, UnauthorizeHubByManager, UpdateRelayKeepaliveTimeByOwner

(* A hub may only take stake away, or record a keepalive. *)
LEMMA HubActionWindow ==
    ASSUME TypeOK, WindowInv, UNCHANGED <<penalizableUntil, authorizedHubs, now>>,
           NEW m \in Managers, NEW h, NEW b, NEW amount,
           PenalizeRelayManager(h, m, b, amount) \/ RecordKeepalive(m)
    PROVE  WindowInv'
  <1>1. \A n \in Managers : /\ stakes'[n].unstakeDelay = stakes[n].unstakeDelay
                           /\ stakes'[n].withdrawTime = stakes[n].withdrawTime
    <2>1. CASE PenalizeRelayManager(h, m, b, amount)
      BY <2>1 DEF PenalizeRelayManager, TypeOK, SMTypeOK, StakeInfo
    <2>2. CASE RecordKeepalive(m)
      BY <2>2 DEF RecordKeepalive, TypeOK, SMTypeOK, StakeInfo
    <2> QED BY <2>1, <2>2
  <1> QED BY <1>1 DEF WindowInv

LEMMA RelayCallWindow ==
    ASSUME TypeOK, WindowInv, NEW w \in Workers, NEW pm \in Paymasters,
           NEW outcome, NEW delta, NEW gas, NEW price,
           RelayCall(w, pm, outcome, delta, gas, price)
    PROVE  WindowInv'
  <1> DEFINE m == workerToManager[w]
  <1>1. /\ m \in Managers /\ VerifyRelayManagerStaked(m) /\ UNCHANGED smVars
        /\ penalizableUntil' = [penalizableUntil EXCEPT
              ![m] = Maximum(@, now + config.minimumUnstakeDelay)]
    BY DEF RelayCall, TypeOK, HubTypeOK
  <1> HIDE DEF m
  <1>2. config.minimumUnstakeDelay \in Nat
    BY ConfigFacts DEF TypeOK, RelayHubConfig
  <1>3. \A n \in Managers : Window(penalizableUntil[n], now, stakes[n], authorizedHubs[n][Hub])
    BY WindowInvIs
  <1>4. ASSUME NEW n \in Managers
        PROVE  Window(penalizableUntil'[n], now, stakes[n], authorizedHubs[n][Hub])
    <2>1. CASE n = m
      <3>1. /\ stakes[n].unstakeDelay >= config.minimumUnstakeDelay
            /\ stakes[n].withdrawTime = 0 /\ authorizedHubs[n][Hub] = MaxUint
        BY <1>1, <2>1 DEF VerifyRelayManagerStaked, IsHubAuthorized
      <3>2. \/ penalizableUntil'[n] = penalizableUntil[n]
            \/ penalizableUntil'[n] = now + config.minimumUnstakeDelay
        BY <1>1, <2>1 DEF Maximum, TypeOK, HubTypeOK
      <3> QED BY <1>2, <1>3, <3>1, <3>2, ManagerTypes DEF Window
    <2>2. CASE n # m
      BY <1>1, <1>3, <2>2 DEF TypeOK, HubTypeOK
    <2> QED BY <2>1, <2>2
  <1> QED BY <1>1, <1>4 DEF WindowInv, Window, smVars

LEMMA WindowStep ==
    ASSUME TypeOK, WindowInv, [Next]_vars
    PROVE  WindowInv'
  <1>1. CASE UNCHANGED <<stakes, authorizedHubs, now, penalizableUntil>>
    BY <1>1 DEF WindowInv
  <1>2. CASE RelayNext
    BY <1>2, RelayCallWindow DEF RelayNext
  <1>3. CASE HubOwnerNext
    BY <1>1, <1>3 DEF HubOwnerNext, SetConfiguration, SetMinimumStakes, DeprecateHub,
                      EscheatAbandonedRelayBalance, smVars
  <1>4. CASE HubCallsNext
    <2>1. ASSUME NEW w \in Workers, NEW b \in Accounts, Penalize(w, b) PROVE WindowInv'
      <3>1. workerToManager[w] \in Managers
        BY <2>1 DEF Penalize, TypeOK, HubTypeOK
      <3>2. UNCHANGED <<penalizableUntil, authorizedHubs, now>>
        BY <2>1 DEF Penalize, PenalizeRelayManager, hubVars
      <3> QED BY <2>1, <3>1, <3>2, HubActionWindow DEF Penalize
    <2>2. ASSUME NEW m \in Managers, OnRelayServerRegistered(m) PROVE WindowInv'
      <3>1. UNCHANGED <<penalizableUntil, authorizedHubs, now>> /\ RecordKeepalive(m)
        BY <2>2 DEF OnRelayServerRegistered, UpdateRelayKeepaliveTimeByHub, RecordKeepalive,
                    hubVars
      <3> QED BY <3>1, HubActionWindow
    <2> QED BY <1>1, <1>4, <2>1, <2>2
       DEF HubCallsNext, HubUsersNext, AddRelayWorkers, DepositFor, WithdrawMultiple, smVars
  <1>5. CASE StakeManagerNext
    <2>1. UNCHANGED penalizableUntil
      BY <1>5 DEF StakeManagerNext, hubVars
    <2>2. CASE AdministrationNext
      BY <2>1, <2>2, AdministrationWindow
    <2>3. ASSUME NEW h \in Hubs, HubNext(h) PROVE WindowInv'
      <3>1. UNCHANGED <<penalizableUntil, authorizedHubs, now>>
        BY <2>1, <2>3 DEF HubNext, PenalizeRelayManager, UpdateRelayKeepaliveTimeByHub,
                          RecordKeepalive
      <3> QED BY <2>3, <3>1, HubActionWindow DEF HubNext, UpdateRelayKeepaliveTimeByHub
    <2>4. CASE Tick
      <3>1. \A n \in Managers : now \in Nat /\ stakes[n].unstakeDelay \in Nat
                                /\ penalizableUntil[n] \in Nat
        BY ManagerTypes
      <3> QED BY <2>1, <2>4, <3>1 DEF Tick, WindowInv
    <2> QED BY <1>5, <2>2, <2>3, <2>4 DEF StakeManagerNext
  <1>6. CASE UNCHANGED vars
    BY <1>1, <1>6 DEF vars
  <1> QED BY <1>2, <1>3, <1>4, <1>5, <1>6 DEF Next

(* A manager stays slashable through this hub, and its owner has no        *)
(* withdrawal that is due, for minimumUnstakeDelay after every relayCall.  *)
THEOREM SlashableThroughoutWindow == Spec => []PenalizationWindow
  <1>1. Init => WindowInv
    BY NumberAssumption, HubAssumption
       DEF NumberAssumption, HubAssumption, Init, SMInit, HubInit, WindowInv, EmptyStake
  <1>2. TypeOK /\ WindowInv /\ [Next]_vars => WindowInv'
    BY WindowStep
  <1>3. TypeOK /\ WindowInv => PenalizationWindow
    <2>1. SUFFICES ASSUME TypeOK, WindowInv, NEW m \in Managers, now < penalizableUntil[m]
                   PROVE  /\ authorizedHubs[m][Hub] > now
                          /\ stakes[m].withdrawTime = 0 \/ stakes[m].withdrawTime > now
      BY DEF PenalizationWindow
    <2> QED BY <2>1, ManagerTypes DEF WindowInv
  <1> QED BY <1>1, <1>2, <1>3, TypeCorrect, PTL DEF Spec

(* Charges grow with the gas they are for. *)
LEMMA ChargeMonotone ==
    ASSUME config \in RelayHubConfig, NEW g \in Nat, NEW k \in Nat, g <= k,
           NEW price \in Nat
    PROVE  CalculateCharge(g, price) <= CalculateCharge(k, price)
  <1>1. config.baseRelayFee \in Nat /\ config.pctRelayFee + 100 \in Nat
    BY DEF RelayHubConfig
  <1>2. ASSUME NEW a \in Nat, NEW b \in Nat, NEW c \in Nat, a <= b
        PROVE  a * c \in Nat /\ b * c \in Nat /\ a * c <= b * c
    <2>1. PICK d \in Nat : b = a + d
      <3>1. b - a \in Nat /\ b = a + (b - a)
        BY <1>2
      <3> QED BY <3>1
    <2>2. b * c = a * c + d * c /\ a * c \in Nat /\ d * c \in Nat
      BY <2>1
    <2> QED BY <2>2
  <1>3. ASSUME NEW a \in Nat, NEW b \in Nat, a <= b PROVE a \div 100 <= b \div 100
    BY <1>3
  <1> DEFINE f == config.pctRelayFee + 100
             x == g * price
             y == k * price
  <1>4. x \in Nat /\ y \in Nat /\ x <= y
    BY <1>2
  <1>5. x * f \in Nat /\ y * f \in Nat /\ x * f <= y * f
    <2> HIDE DEF x, y, f
    <2>1. f \in Nat
      BY <1>1 DEF f
    <2> QED BY <1>2, <1>4, <2>1
  <1>6. (x * f) \div 100 <= (y * f) \div 100
    <2> HIDE DEF x, y, f
    <2> QED BY <1>3, <1>5
  <1>7. (x * f) \div 100 \in Int /\ (y * f) \div 100 \in Int
    <2> HIDE DEF x, y, f
    <2> QED BY <1>5
  <1>8. /\ CalculateCharge(g, price) = config.baseRelayFee + (x * f) \div 100
        /\ CalculateCharge(k, price) = config.baseRelayFee + (y * f) \div 100
    BY DEF CalculateCharge
  <1> HIDE DEF x, y, f
  <1> QED BY <1>1, <1>6, <1>7, <1>8

(* The entry check covers the charge: the gas used does not exceed what    *)
(* the check counted with, as long as the overhead is left over, and the   *)
(* inner call cannot lower the deposit.                                    *)
THEOREM AcceptedCallsPay == Spec => []AcceptedCallIsCharged
  <1>1. HubTypeOK => AcceptedCallIsCharged
    <2>1. SUFFICES ASSUME HubTypeOK, NEW pm \in Paymasters, NEW outcome \in InnerOutcomes,
                          NEW delta \in DepositChanges, NEW gas \in GasMeasures,
                          NEW price \in GasPrices,
                          MaxPossibleCharge(gas, price) <= balances[pm],
                          config.gasOverhead <= gas.left
                   PROVE  CalculateCharge(GasUsed(gas), price)
                             <= balances[pm] + InnerRelayCall(pm, outcome, delta).delta
      BY DEF AcceptedCallIsCharged
    <2>2. /\ InnerRelayCall(pm, outcome, delta).delta \in Nat
          /\ CalculateCharge(GasUsed(gas), price) \in Nat
      BY <2>1, RelayCallNumbers
    <2>3. /\ gas.initial \in Nat /\ gas.left \in 0..gas.initial
          /\ CalldataGas \in Nat /\ price \in Nat
      BY HubAssumption DEF HubAssumption, GasMeasures
    <2>4. config \in RelayHubConfig /\ config.gasOverhead \in Nat
      BY <2>1, ConfigFacts DEF RelayHubConfig
    <2>5. /\ GasUsed(gas) \in Nat /\ CalldataGas + gas.initial \in Nat
          /\ GasUsed(gas) <= CalldataGas + gas.initial
      BY <2>1, <2>3, <2>4 DEF GasUsed
    <2>6. CalculateCharge(GasUsed(gas), price) <= MaxPossibleCharge(gas, price)
      BY <2>3, <2>4, <2>5, ChargeMonotone DEF MaxPossibleCharge
    <2>7. MaxPossibleCharge(gas, price) \in Nat /\ balances[pm] \in Nat
      BY <2>1, <2>3, <2>4, <2>5, ChargeNat DEF MaxPossibleCharge, HubTypeOK, HubAccounts
    <2> QED BY <2>1, <2>2, <2>6, <2>7
  <1> QED BY <1>1, TypeCorrect, PTL DEF TypeOK

----------------------------------------------------------------------------
(* The hub's ether.                                                        *)
LEMMA HubAccountsFinite == IsFiniteSet(HubAccounts)
  <1>1. IsFiniteSet(Paymasters \union Managers)
    BY AddressAssumption, HubAssumption, FS_Union DEF AddressAssumption, HubAssumption
  <1> QED BY <1>1, HubAssumption, FS_Union DEF HubAssumption, HubAccounts

(* A charge: credits to three accounts and a debit of one.                 *)
Charged(S, f, new, a, b, c, d, charge, fee) ==
    \A x \in S : new[x] = f[x]
        + ((IF x = a THEN d ELSE 0) + (IF x = b THEN charge - fee ELSE 0)
           + (IF x = c THEN fee ELSE 0))
        - (IF x = a THEN charge ELSE 0)

LEMMA ChargedSum ==
    ASSUME NEW S, IsFiniteSet(S), NEW f \in [S -> Int], NEW new \in [S -> Int],
           NEW a \in S, NEW b \in S, NEW c \in S,
           NEW d \in Int, NEW charge \in Int, NEW fee \in Int,
           Charged(S, f, new, a, b, c, d, charge, fee)
    PROVE  SumFunction(new) = SumFunction(f) + d
  <1> DEFINE f1 == [x \in S |-> IF x = a THEN f[x] + (d - charge) ELSE f[x]]
             f2 == [x \in S |-> IF x = b THEN f1[x] + (charge - fee) ELSE f1[x]]
  <1>1. d - charge \in Int /\ charge - fee \in Int
    OBVIOUS
  <1>2. /\ f1 \in [S -> Int] /\ f1[a] = f[a] + (d - charge)
        /\ \A x \in S \ {a} : f1[x] = f[x]
    OBVIOUS
  <1>3. /\ f2 \in [S -> Int] /\ f2[b] = f1[b] + (charge - fee)
        /\ \A x \in S \ {b} : f2[x] = f1[x]
    BY <1>2
  <1>4. new[c] = f2[c] + fee /\ \A x \in S \ {c} : new[x] = f2[x]
    BY DEF Charged
  <1> HIDE DEF f1, f2
  <1>5. SumFunction(f1) = SumFunction(f) + (d - charge)
    BY <1>1, <1>2, SumAdd
  <1>6. SumFunction(f2) = SumFunction(f1) + (charge - fee)
    BY <1>1, <1>2, <1>3, SumAdd
  <1>7. SumFunction(new) = SumFunction(f2) + fee
    BY <1>3, <1>4, SumAdd
  <1>8. SumFunction(f) \in Int
    BY SumType
  <1> QED BY <1>5, <1>6, <1>7, <1>8

(* What is taken from one account goes to another.                         *)
Escheated(S, f, new, a, b) ==
    \A x \in S : new[x] = (IF x = a THEN 0 ELSE f[x]) + (IF x = b THEN f[a] ELSE 0)

LEMMA EscheatedSum ==
    ASSUME NEW S, IsFiniteSet(S), NEW f \in [S -> Int], NEW new \in [S -> Int],
           NEW a \in S, NEW b \in S, Escheated(S, f, new, a, b)
    PROVE  SumFunction(new) = SumFunction(f)
  <1> DEFINE f1 == [x \in S |-> IF x = a THEN 0 ELSE f[x]]
  <1>1. f1 \in [S -> Int] /\ f1[a] = 0 /\ f[a] \in Int /\ \A x \in S \ {a} : f1[x] = f[x]
    OBVIOUS
  <1>2. new[b] = f1[b] + f[a] /\ \A x \in S \ {b} : new[x] = f1[x]
    BY DEF Escheated
  <1> HIDE DEF f1
  <1>3. SumFunction(f1) = SumFunction(f) - f[a] + f1[a]
    BY <1>1, SumChange
  <1>4. SumFunction(new) = SumFunction(f1) + f[a]
    BY <1>1, <1>2, SumAdd
  <1>5. SumFunction(f) \in Int
    BY SumType
  <1> QED BY <1>1, <1>3, <1>4, <1>5

LEMMA SolventStep ==
    ASSUME TypeOK, TypeOK', HubSolvent, [Next]_vars
    PROVE  HubSolvent'
  <1>1. /\ IsFiniteSet(HubAccounts) /\ balances \in [HubAccounts -> Int]
        /\ balances' \in [HubAccounts -> Int] /\ ether \in Nat /\ SumFunction(balances) \in Int
    BY HubAccountsFinite, SumType DEF TypeOK, HubTypeOK
  <1>2. CASE UNCHANGED <<balances, ether>>
    BY <1>2 DEF HubSolvent
  <1>3. ASSUME NEW w \in Workers, NEW pm \in Paymasters, NEW outcome \in InnerOutcomes,
               NEW delta \in DepositChanges, NEW gas \in GasMeasures, NEW price \in GasPrices,
               RelayCall(w, pm, outcome, delta, gas, price)
        PROVE  HubSolvent'
    <2> DEFINE m == workerToManager[w]
               inner == InnerRelayCall(pm, outcome, delta)
               used == GasUsed(gas)
               charge == CalculateCharge(used, price)
               fee == CalculateDevCharge(charge)
    <2>1. m \in Managers
      BY <1>3 DEF RelayCall, TypeOK, HubTypeOK
    <2>2. inner.delta \in Int /\ charge \in Int /\ fee \in Int
      BY RelayCallNumbers DEF TypeOK
    <2>3. \/ UNCHANGED <<balances, ether>>
          \/ /\ balances' = [a \in HubAccounts |-> balances[a]
                  + ((IF a = pm THEN inner.delta ELSE 0)
                     + (IF a = m THEN charge - fee ELSE 0)
                     + (IF a = config.devAddress THEN fee ELSE 0))
                  - (IF a = pm THEN charge ELSE 0)]
             /\ ether' = ether + inner.delta
      BY <1>3, Zenon DEF RelayCall
    <2>4. pm \in HubAccounts /\ m \in HubAccounts /\ config.devAddress \in HubAccounts
      BY <2>1, ConfigFacts DEF HubAccounts, TypeOK, RelayHubConfig
    <2> HIDE DEF m, inner, charge, fee
    <2>5. CASE ~UNCHANGED <<balances, ether>>
      <3>1. Charged(HubAccounts, balances, balances', pm, m, config.devAddress,
                    inner.delta, charge, fee)
        BY <2>3, <2>5, Zenon DEF Charged
      <3>2. SumFunction(balances') = SumFunction(balances) + inner.delta
        BY <1>1, <2>2, <2>4, <3>1, ChargedSum
      <3> QED BY <2>3, <2>5, <3>2 DEF HubSolvent
    <2> QED BY <1>2, <2>5
  <1>4. ASSUME NEW m \in Managers, EscheatAbandonedRelayBalance(m) PROVE HubSolvent'
    <2>1. m \in HubAccounts /\ config.devAddress \in HubAccounts
      BY ConfigFacts DEF HubAccounts, TypeOK, RelayHubConfig
    <2>2. UNCHANGED ether /\ balances' = [a \in HubAccounts |->
             (IF a = m THEN 0 ELSE balances[a])
             + (IF a = config.devAddress THEN balances[m] ELSE 0)]
      BY <1>4 DEF EscheatAbandonedRelayBalance
    <2>3. Escheated(HubAccounts, balances, balances', m, config.devAddress)
      BY <2>2 DEF Escheated
    <2>4. SumFunction(balances') = SumFunction(balances)
      BY <1>1, <2>1, <2>3, EscheatedSum
    <2> QED BY <2>2, <2>4 DEF HubSolvent
  <1>5. ASSUME NEW a \in HubAccounts, NEW d \in Int, ether' = ether + d,
               balances' = [balances EXCEPT ![a] = @ + d]
        PROVE  HubSolvent'
    <2>1. /\ balances'[a] = balances[a] + d /\ balances[a] \in Int
          /\ \A x \in HubAccounts \ {a} : balances'[x] = balances[x]
      BY <1>1, <1>5
    <2>2. SumFunction(balances') = SumFunction(balances) - balances[a] + balances'[a]
      BY <1>1, <2>1, SumChange
    <2> QED BY <1>1, <1>5, <2>1, <2>2 DEF HubSolvent
  <1>6. ASSUME NEW pm \in Paymasters, NEW x \in EtherAmounts, DepositFor(pm, x) PROVE HubSolvent'
    <2>1. x \in Int /\ pm \in HubAccounts
      BY HubAssumption DEF HubAssumption, HubAccounts
    <2>2. ether' = ether + x /\ balances' = [balances EXCEPT ![pm] = @ + x]
      BY <1>6 DEF DepositFor
    <2> QED BY <1>5, <2>1, <2>2
  <1>7. ASSUME NEW a \in HubAccounts, NEW x \in EtherAmounts, WithdrawMultiple(a, x)
        PROVE  HubSolvent'
    <2>1. x \in Nat /\ -x \in Int
      BY HubAssumption DEF HubAssumption
    <2>2. ether - x = ether + (-x) /\ balances[a] - x = balances[a] + (-x)
      BY <1>1, <2>1
    <2> QED BY <1>5, <1>7, <2>1, <2>2 DEF WithdrawMultiple
  <1>8. CASE RelayNext
    BY <1>3, <1>8 DEF RelayNext
  <1>9. CASE HubOwnerNext
    BY <1>2, <1>4, <1>9 DEF HubOwnerNext, SetConfiguration, SetMinimumStakes, DeprecateHub
  <1>10. CASE HubCallsNext
    BY <1>2, <1>6, <1>7, <1>10 DEF HubCallsNext, HubUsersNext, AddRelayWorkers, Penalize,
       OnRelayServerRegistered, hubVars
  <1>11. CASE StakeManagerNext
    BY <1>2, <1>11 DEF StakeManagerNext, hubVars
  <1>12. CASE UNCHANGED vars
    BY <1>2, <1>12 DEF vars
  <1> QED BY <1>8, <1>9, <1>10, <1>11, <1>12 DEF Next

(* The hub can always pay out all it owes, whatever is charged, deposited  *)
(* during a relayed call, withdrawn or escheated: no ether is credited     *)
(* twice and none is lost.                                                 *)
THEOREM HubIsSolvent == Spec => []HubSolvent
  <1>1. Init => HubSolvent
    <2> SUFFICES ASSUME Init PROVE ether = SumFunction(balances)
      BY DEF HubSolvent
    <2>1. balances \in [HubAccounts -> Int] /\ \A a \in HubAccounts : balances[a] = 0
      BY DEF Init, HubInit
    <2>2. SumFunction(balances) = 0
      BY <2>1, HubAccountsFinite, SumZero
    <2> QED BY <2>2 DEF Init, HubInit
  <1>2. TypeOK /\ TypeOK' /\ HubSolvent /\ [Next]_vars => HubSolvent'
    BY SolventStep
  <1> QED BY <1>1, <1>2, TypeCorrect, PTL DEF Spec

----------------------------------------------------------------------------
(* The workers of a manager.                                               *)
WorkersOf(m) == {w \in Workers : workerToManager[w] = m}

(* A list without duplicates has as many elements as its length.           *)
LEMMA ListSize ==
    ASSUME NEW S, NEW n \in Nat, NEW ws \in [1..n -> S], IsInjective(ws)
    PROVE  /\ IsFiniteSet({ws[i] : i \in 1..n}) /\ Cardinality({ws[i] : i \in 1..n}) = n
  <1> DEFINE T == {ws[i] : i \in 1..n}
  <1>1. ws \in Surjection(1..n, T) /\ ws \in Injection(1..n, T)
    BY DEF Surjection, Injection, IsInjective
  <1>2. IsFiniteSet(1..n) /\ Cardinality(1..n) = n
    BY FS_Interval
  <1> HIDE DEF T
  <1>3. IsFiniteSet(T) /\ Cardinality(T) = Cardinality(1..n)
    BY <1>1, <1>2, FS_Surjection
  <1> QED BY <1>2, <1>3 DEF T

LEMMA AddWorkersCount ==
    ASSUME HubTypeOK, WorkerCountExact, NEW m \in Managers, NEW ws \in WorkerLists,
           AddRelayWorkers(m, ws)
    PROVE  WorkerCountExact'
  <1>1. PICK n \in 0..MaxNewWorkers : ws \in [1..n -> Workers]
    BY DEF WorkerLists
  <1>2. n \in Nat
    BY HubAssumption DEF HubAssumption
  <1>3. Len(ws) = n
    BY <1>1, <1>2
  <1> DEFINE added == {ws[i] : i \in 1..n}
  <1>4. /\ IsInjective(ws) /\ \A w \in added : workerToManager[w] = NoAddress
        /\ workerCount' = [workerCount EXCEPT ![m] = @ + n]
        /\ workerToManager' = [w \in Workers |-> IF w \in added THEN m ELSE workerToManager[w]]
    BY <1>3, Zenon DEF AddRelayWorkers, NoneHasManager
  <1>5. /\ IsFiniteSet(added) /\ Cardinality(added) = n /\ added \subseteq Workers
    BY <1>1, <1>2, <1>4, ListSize
  <1> HIDE DEF added
  <1>6. ASSUME NEW k \in Managers PROVE workerCount'[k] = Cardinality(WorkersOf(k)')
    <2>1. k # NoAddress
      BY HubAssumption DEF HubAssumption
    <2>2. WorkersOf(k) \cap added = {}
      BY <1>4, <2>1 DEF WorkersOf
    <2>3. workerCount[k] = Cardinality(WorkersOf(k)) /\ IsFiniteSet(WorkersOf(k))
      BY HubAssumption, FS_Subset DEF HubAssumption, WorkerCountExact, WorkersOf
    <2>4. CASE k = m
      <3>1. WorkersOf(k)' = WorkersOf(k) \union added
        BY <1>4, <1>5, <2>4 DEF WorkersOf
      <3>2. Cardinality(WorkersOf(k) \union added) = Cardinality(WorkersOf(k)) + n
        <4>1. Cardinality(WorkersOf(k) \cap added) = 0
          BY <2>2, FS_EmptySet
        <4>2. Cardinality(WorkersOf(k)) \in Nat
          BY <2>3, FS_CardinalityType
        <4> DEFINE old == WorkersOf(k)
        <4> HIDE DEF old
        <4>3. IsFiniteSet(old)
          BY <2>3 DEF old
        <4>4. Cardinality(old \union added) =
                Cardinality(old) + Cardinality(added) - Cardinality(old \cap added)
          BY <1>5, <4>3, FS_Union
        <4> QED BY <1>2, <1>5, <4>1, <4>2, <4>4 DEF old
      <3>3. workerCount'[k] = workerCount[k] + n
        BY <1>4, <2>4 DEF HubTypeOK
      <3> QED BY <2>3, <3>1, <3>2, <3>3
    <2>5. CASE k # m
      <3>1. WorkersOf(k)' = WorkersOf(k)
        BY <1>4, <2>2, <2>5 DEF WorkersOf
      <3>2. workerCount'[k] = workerCount[k]
        BY <1>4, <2>5 DEF HubTypeOK
      <3> QED BY <2>3, <3>1, <3>2
    <2> QED BY <2>4, <2>5
  <1> QED BY <1>6 DEF WorkerCountExact, WorkersOf

(* addRelayWorkers counts exactly the workers it adds: its loop refuses a  *)
(* worker that has a manager, also one that the same list has just added.  *)
THEOREM WorkersAreCounted == Spec => []WorkerCountExact
  <1>1. Init => WorkerCountExact
    <2> SUFFICES ASSUME Init, NEW m \in Managers PROVE workerCount[m] = Cardinality(WorkersOf(m))
      BY DEF WorkerCountExact, WorkersOf
    <2>1. WorkersOf(m) = {}
      BY HubAssumption DEF HubAssumption, Init, HubInit, WorkersOf
    <2> QED BY <2>1, FS_EmptySet DEF Init, HubInit
  <1>2. TypeOK /\ WorkerCountExact /\ [Next]_vars => WorkerCountExact'
    <2> SUFFICES ASSUME TypeOK, WorkerCountExact, [Next]_vars PROVE WorkerCountExact'
      OBVIOUS
    <2>1. CASE UNCHANGED <<workerToManager, workerCount>>
      BY <2>1 DEF WorkerCountExact
    <2>2. ASSUME NEW m \in Managers, NEW ws \in WorkerLists, AddRelayWorkers(m, ws)
          PROVE  WorkerCountExact'
      BY <2>2, AddWorkersCount DEF TypeOK
    <2>3. CASE RelayNext
      BY <2>1, <2>3 DEF RelayNext, RelayCall
    <2>4. CASE HubOwnerNext
      BY <2>1, <2>4 DEF HubOwnerNext, SetConfiguration, SetMinimumStakes, DeprecateHub,
                        EscheatAbandonedRelayBalance
    <2>5. CASE HubCallsNext
      BY <2>1, <2>2, <2>5 DEF HubCallsNext, HubUsersNext, DepositFor, WithdrawMultiple,
         Penalize, OnRelayServerRegistered, hubVars
    <2>6. CASE StakeManagerNext
      BY <2>1, <2>6 DEF StakeManagerNext, hubVars
    <2>7. CASE UNCHANGED vars
      BY <2>1, <2>7 DEF vars
    <2> QED BY <2>3, <2>4, <2>5, <2>6, <2>7 DEF Next
  <1> QED BY <1>1, <1>2, TypeCorrect, PTL DEF Spec

----------------------------------------------------------------------------
(* The books of the StakeManager with the hub calling it, and who loses.   *)
LEMMA BooksStep ==
    ASSUME TypeOK, TypeOK', StakeInv, [Next]_vars
    PROVE  StakeInv'
  <1> USE DEF TypeOK
  <1>1. CASE UNCHANGED <<stakes, tokenBalance>>
    BY <1>1, StakeSameStep
  <1>2. CASE RelayNext
    BY <1>1, <1>2 DEF RelayNext, RelayCall, smVars
  <1>3. CASE HubOwnerNext
    BY <1>1, <1>3 DEF HubOwnerNext, SetConfiguration, SetMinimumStakes, DeprecateHub,
                      EscheatAbandonedRelayBalance, smVars
  <1>4. CASE HubCallsNext
    <2>1. ASSUME NEW w \in Workers, NEW b \in Accounts, Penalize(w, b) PROVE StakeInv'
      <3>1. workerToManager[w] \in Managers /\ Hub \in Hubs
        BY <2>1, HubAssumption DEF HubAssumption, HubTypeOK, Penalize
      <3>2. stakes[workerToManager[w]].stake \in Nat
        BY <3>1 DEF SMTypeOK, StakeInfo
      <3> QED BY <2>1, <3>1, <3>2, PenalizeBooks DEF Penalize
    <2>2. ASSUME NEW m \in Managers, OnRelayServerRegistered(m) PROVE StakeInv'
      BY <2>2, KeepaliveBooks DEF OnRelayServerRegistered, UpdateRelayKeepaliveTimeByHub
    <2> QED BY <1>1, <1>4, <2>1, <2>2
       DEF HubCallsNext, HubUsersNext, AddRelayWorkers, DepositFor, WithdrawMultiple, smVars
  <1>5. CASE StakeManagerNext
    BY <1>1, <1>5, AdministrationBooks, HubNextBooks DEF StakeManagerNext, Tick
  <1>6. CASE UNCHANGED vars
    BY <1>1, <1>6 DEF vars
  <1> QED BY <1>2, <1>3, <1>4, <1>5, <1>6 DEF Next

(* The only calls on the StakeManager itself that take a manager's stake.  *)
LEMMA AdministrationLoss ==
    ASSUME SMTypeOK, AdministrationNext, NEW m \in Managers,
           stakes'[m].stake < stakes[m].stake
    PROVE  WithdrawStake(m) \/ EscheatAbandonedRelayStake(m)
  <1> USE DEF SMTypeOK, StakeInfo
  <1>1. ~ UNCHANGED stakes /\ ~(stakes'[m].stake = stakes[m].stake)
    OBVIOUS
  <1>2. ASSUME NEW n \in Managers,
               \/ \E owner \in Owners : SetRelayManagerOwner(n, owner)
               \/ UnlockStake(n) \/ MarkRelayAbandoned(n) \/ RecordKeepalive(n)
        PROVE  FALSE
    <2>1. ASSUME NEW owner \in Owners, SetRelayManagerOwner(n, owner) PROVE FALSE
      BY <1>1, <2>1 DEF SetRelayManagerOwner
    <2>2. CASE UnlockStake(n)
      BY <1>1, <2>2 DEF UnlockStake
    <2>3. CASE MarkRelayAbandoned(n)
      BY <1>1, <2>3 DEF MarkRelayAbandoned
    <2>4. CASE RecordKeepalive(n)
      BY <1>1, <2>4 DEF RecordKeepalive
    <2> QED BY <1>2, <2>1, <2>2, <2>3, <2>4
  <1>3. ASSUME NEW n \in Managers, NEW token \in Tokens, NEW d \in UnstakeDelays,
               NEW amount \in StakeAmounts, StakeForRelayManager(n, token, d, amount)
        PROVE  FALSE
    <2>1. amount \in Nat
      BY NumberAssumption DEF NumberAssumption
    <2>2. stakes'[m].stake \in {stakes[m].stake, stakes[m].stake + amount}
      BY <1>3 DEF StakeForRelayManager
    <2> QED BY <2>1, <2>2
  <1>4. ASSUME NEW n \in Managers, WithdrawStake(n) \/ EscheatAbandonedRelayStake(n)
        PROVE  n = m
    BY <1>1, <1>4 DEF WithdrawStake, EscheatAbandonedRelayStake
  <1> QED BY <1>1, <1>2, <1>3, <1>4
     DEF AdministrationNext, SetBurnAddress, SetDevAddress, AuthorizeHubByOwner,
         AuthorizeHubByManager, AuthorizeHub, UnauthorizeHubByOwner,
         UnauthorizeHubByManager, UnauthorizeHub, UpdateRelayKeepaliveTimeByOwner

(* Whoever is punished during the window cannot have the stake back.       *)
LEMMA SlashStep ==
    ASSUME TypeOK, TypeOK', StakeInv, WindowInv, [Next]_vars
    PROVE  [SlashHalvesStakeStep]_vars
  <1> USE DEF TypeOK
  <1> DEFINE Halved(m) ==
        /\ stakes'[m].stake = 0
        /\ tokenBalance'[stakes[m].token][stakes[m].owner]
              - tokenBalance[stakes[m].token][stakes[m].owner]
                <= (stakes[m].stake + 1) \div 2
  <1> SUFFICES ASSUME NEW m \in Managers, Next, now < penalizableUntil[m],
                      OnlyThisHubMaySlash(m), stakes'[m].stake < stakes[m].stake
               PROVE  Halved(m)
    BY Zenon DEF SlashHalvesStakeStep
  <1> DEFINE t == stakes[m].token
             o == stakes[m].owner
  <1>1. /\ stakes[m].stake \in Nat /\ stakes'[m].stake \in Nat
        /\ o \in Owners /\ t \in Tokens
        /\ stakes'[m].stake < stakes[m].stake
        /\ tokenBalance[t][o] \in Int /\ tokenBalance'[t][o] \in Int
    BY HolderFacts DEF SMTypeOK, StakeInfo, StakeInv
  <1>2. ASSUME NEW w \in Workers, NEW b \in Accounts, Penalize(w, b)
        PROVE  Halved(m)
    <2> DEFINE n == workerToManager[w]
               amount == stakes[n].stake
    <2>1. /\ n \in Managers /\ Hub \in Hubs /\ amount \in Nat
          /\ PenalizeRelayManager(Hub, n, b, amount)
      BY <1>2, HubAssumption DEF HubAssumption, HubTypeOK, Penalize, SMTypeOK, StakeInfo
    <2> HIDE DEF n, amount
    <2>2. /\ \A k \in Managers \ {n} : stakes'[k] = stakes[k]
          /\ stakes'[n].stake = stakes[n].stake - amount
          /\ \A a \in Owners : tokenBalance'[stakes[n].token][a] <=
                tokenBalance[stakes[n].token][a] + (amount + 1) \div 2
      BY <2>1, PenalizeBooks
    <2>3. n = m
      BY <1>1, <2>2
    <2>4. amount = stakes[m].stake
      BY <2>3 DEF amount
    <2>5. tokenBalance'[t][o] <= tokenBalance[t][o] + (stakes[m].stake + 1) \div 2
      BY <1>1, <2>2, <2>3, <2>4
    <2>6. stakes'[m].stake = 0
      BY <1>1, <2>2, <2>3, <2>4
    <2> HIDE DEF t, o
    <2>7. tokenBalance'[t][o] - tokenBalance[t][o] <= (stakes[m].stake + 1) \div 2
      BY <1>1, <2>5
    <2> QED BY <2>6, <2>7 DEF t, o
  <1>3. CASE AdministrationNext
    <2>1. WithdrawStake(m) \/ EscheatAbandonedRelayStake(m)
      BY <1>1, <1>3, AdministrationLoss
    <2>2. ~WithdrawStake(m)
      BY ManagerTypes DEF WindowInv, WithdrawStake
    <2>3. EscheatAbandonedRelayStake(m)
      BY <2>1, <2>2
    <2>4. /\ devAddress \in Holders /\ Self \in Holders /\ o \in Holders
          /\ o # Self /\ o # devAddress
      BY <1>1, HolderFacts DEF SMTypeOK
    <2>5. tokenBalance'[t] = Moved(tokenBalance[t], Self, devAddress, stakes[m].stake)
      BY <1>1, <2>3 DEF EscheatAbandonedRelayStake, SMTypeOK
    <2>6. tokenBalance'[t][o] = tokenBalance[t][o]
      BY <1>1, <2>4, <2>5 DEF Moved
    <2>7. tokenBalance'[t][o] - tokenBalance[t][o] = 0
      BY <1>1, <2>6
    <2>8. (stakes[m].stake + 1) \div 2 >= 0
      BY <1>1
    <2>9. stakes'[m].stake = 0
      BY <2>3 DEF EscheatAbandonedRelayStake, SMTypeOK, StakeInfo
    <2> QED BY <2>7, <2>8, <2>9
  <1>4. CASE UNCHANGED stakes
    BY <1>1, <1>4
  <1>5. ASSUME NEW n \in Managers, RecordKeepalive(n) PROVE FALSE
    <2>1. stakes'[m].stake = stakes[m].stake
      BY <1>5 DEF RecordKeepalive, SMTypeOK, StakeInfo
    <2> QED BY <1>1, <2>1
  <1>6. CASE RelayNext
    BY <1>4, <1>6 DEF RelayNext, RelayCall, smVars
  <1>7. CASE HubOwnerNext
    BY <1>4, <1>7 DEF HubOwnerNext, SetConfiguration, SetMinimumStakes, DeprecateHub,
                      EscheatAbandonedRelayBalance, smVars
  <1>8. CASE HubCallsNext
    <2>1. ASSUME NEW n \in Managers, OnRelayServerRegistered(n) PROVE FALSE
      BY <1>5, <2>1 DEF OnRelayServerRegistered, UpdateRelayKeepaliveTimeByHub
    <2> QED BY <1>2, <1>4, <1>8, <2>1
       DEF HubCallsNext, HubUsersNext, AddRelayWorkers, DepositFor, WithdrawMultiple, smVars
  <1>9. CASE StakeManagerNext
    (* A foreign hub has no right to slash m, and of another manager it    *)
    (* takes nothing of m's stake.                                         *)
    <2>1. ASSUME NEW h \in Hubs \ {Hub}, NEW n \in Managers, NEW b \in Accounts,
                 NEW amount \in Nat, PenalizeRelayManager(h, n, b, amount)
          PROVE  FALSE
      <3>1. /\ \A k \in Managers \ {n} : stakes'[k] = stakes[k]
            /\ authorizedHubs[n][h] > now
        BY <2>1, PenalizeBooks DEF PenalizeRelayManager
      <3>2. n = m
        BY <1>1, <3>1
      <3>3. authorizedHubs[m][h] <= now /\ authorizedHubs[m][h] \in Nat /\ now \in Nat
        BY <2>1, NumberAssumption DEF NumberAssumption, OnlyThisHubMaySlash, SMTypeOK
      <3> QED BY <3>1, <3>2, <3>3
    <2>2. ASSUME NEW h \in Hubs \ {Hub}, HubNext(h) PROVE FALSE
      BY <1>5, <2>1, <2>2, NumberAssumption
         DEF NumberAssumption, HubNext, UpdateRelayKeepaliveTimeByHub
    <2> QED BY <1>3, <1>4, <1>9, <2>2 DEF StakeManagerNext, Tick
  <1> QED BY <1>6, <1>7, <1>8, <1>9 DEF Next

----------------------------------------------------------------------------
(* The RelayRegistrar with both.                                           *)

allVars == <<vars, registrarVars>>

(* Every step of the three contracts is a step, or a stutter, of the hub.  *)
LEMMA RegistrarStepIsHubStep == [RegistrarNext]_allVars => [Next]_vars
  <1>1. ASSUME NEW m \in Managers, RegisterRelayServer(m) PROVE Next
    BY <1>1 DEF RegisterRelayServer, Next, HubCallsNext
  <1>2. ASSUME NEW age \in RegistrationMaxAges, SetRelayRegistrationMaxAge(age)
        PROVE  UNCHANGED vars
    BY <1>2 DEF SetRelayRegistrationMaxAge
  <1>3. RelayNext \/ HubOwnerNext \/ HubUsersNext \/ StakeManagerNext => Next
    BY DEF Next, HubCallsNext
  <1>4. UNCHANGED allVars => UNCHANGED vars
    BY DEF allVars
  <1> QED BY <1>1, <1>2, <1>3, <1>4 DEF RegistrarNext

LEMMA RegistrarTypeStep ==
    ASSUME TypeOK, RegistrarTypeOK, [RegistrarNext]_allVars
    PROVE  RegistrarTypeOK'
  <1> USE DEF RegistrarTypeOK
  <1>1. ASSUME NEW m \in Managers, RegisterRelayServer(m) PROVE RegistrarTypeOK'
    <2>1. now \in Nat
      BY NumberAssumption DEF NumberAssumption, TypeOK, SMTypeOK
    <2> QED BY <1>1, <2>1 DEF RegisterRelayServer, StoreRelayServerRegistration, AddItem
  <1>2. ASSUME NEW age \in RegistrationMaxAges, SetRelayRegistrationMaxAge(age)
        PROVE  RegistrarTypeOK'
    BY <1>2 DEF SetRelayRegistrationMaxAge
  <1>3. CASE UNCHANGED registrarVars
    BY <1>3 DEF registrarVars
  <1>4. CASE UNCHANGED allVars
    BY <1>3, <1>4 DEF allVars, registrarVars
  <1> QED BY <1>1, <1>2, <1>3, <1>4 DEF RegistrarNext

(* The registrar's storage and that of the contracts behind it keep their  *)
(* Solidity types.                                                         *)
THEOREM RegistrarTypeCorrect == RegistrarSpec => [](TypeOK /\ RegistrarTypeOK)
  <1>1. RegistrarInit => TypeOK /\ RegistrarTypeOK
    BY InitType, HubInitType DEF RegistrarInit, Init, TypeOK, RegistrarTypeOK
  <1>2. TypeOK /\ RegistrarTypeOK /\ [RegistrarNext]_allVars => (TypeOK /\ RegistrarTypeOK)'
    BY RegistrarTypeStep, RegistrarStepIsHubStep, TypeStep
  <1> QED BY <1>1, <1>2, PTL DEF RegistrarSpec, allVars

----------------------------------------------------------------------------
(* The index.                                                              *)

LEMMA IndexStep ==
    ASSUME TypeOK, RegistrarTypeOK, IndexExact, [RegistrarNext]_allVars
    PROVE  IndexExact'
  <1> USE DEF IndexExact, RegistrarTypeOK, IsInjective
  <1>1. CASE UNCHANGED <<lastSeen, indexedValues>>
    BY <1>1
  <1>2. ASSUME NEW m \in Managers, RegisterRelayServer(m) PROVE IndexExact'
    <2>1. /\ lastSeen' = [lastSeen EXCEPT ![m] = now]
          /\ now \in Nat /\ now # 0
      BY <1>2, NumberAssumption, RegistrarAssumption
         DEF NumberAssumption, RegistrarAssumption, RegisterRelayServer,
             StoreRelayServerRegistration, TypeOK, SMTypeOK
    <2>2. CASE lastSeen[m] # 0
      <3>1. UNCHANGED indexedValues
        BY <1>2, <2>2 DEF RegisterRelayServer, StoreRelayServerRegistration, AddItem
      <3> QED BY <2>1, <2>2, <3>1
    <2>3. CASE lastSeen[m] = 0
      <3>1. indexedValues' = Append(indexedValues, m)
        BY <1>2, <2>3 DEF RegisterRelayServer, StoreRelayServerRegistration, AddItem
      <3>2. /\ Len(indexedValues') = Len(indexedValues) + 1
            /\ \A i \in 1..Len(indexedValues) : indexedValues'[i] = indexedValues[i]
            /\ indexedValues'[Len(indexedValues) + 1] = m
            /\ DOMAIN indexedValues = 1..Len(indexedValues)
            /\ DOMAIN indexedValues' = 1..(Len(indexedValues) + 1)
            /\ Len(indexedValues) \in Nat
        BY <3>1
      <3>3. \A i \in 1..Len(indexedValues) : indexedValues[i] # m
        BY <2>3
      <3>4. IsInjective(indexedValues)'
        BY <3>2, <3>3
      <3>5. ASSUME NEW n \in Managers
            PROVE  lastSeen'[n] # 0
                     <=> \E i \in 1..Len(indexedValues') : indexedValues'[i] = n
        <4>1. CASE n = m
          BY <2>1, <3>2, <4>1
        <4>2. CASE n # m
          <5>1. lastSeen'[n] # 0 <=> \E i \in 1..Len(indexedValues) : indexedValues[i] = n
            BY <2>1, <4>2
          <5>2. (\E i \in 1..Len(indexedValues) : indexedValues[i] = n)
                  <=> \E i \in 1..(Len(indexedValues) + 1) : indexedValues'[i] = n
            <6> HIDE DEF IndexExact, RegistrarTypeOK
            <6> QED BY <3>2, <4>2
          <5> QED BY <3>2, <5>1, <5>2
        <4> QED BY <4>1, <4>2
      <3> QED BY <3>4, <3>5
    <2> QED BY <2>2, <2>3
  <1>3. ASSUME NEW age \in RegistrationMaxAges, SetRelayRegistrationMaxAge(age)
        PROVE  IndexExact'
    BY <1>1, <1>3 DEF SetRelayRegistrationMaxAge
  <1>4. UNCHANGED registrarVars => UNCHANGED <<lastSeen, indexedValues>>
    BY DEF registrarVars
  <1> QED BY <1>1, <1>2, <1>3, <1>4 DEF RegistrarNext, allVars

(* The list of relays has each registered manager once and nobody else.    *)
THEOREM IndexIsExact == RegistrarSpec => []IndexExact
  <1>1. RegistrarInit => IndexExact
    BY DEF RegistrarInit, IndexExact, IsInjective
  <1> QED BY <1>1, IndexStep, RegistrarTypeCorrect, PTL DEF RegistrarSpec, allVars

----------------------------------------------------------------------------
(* Listed relays.                                                          *)

(* The hub's own calls into the StakeManager change a mark of abandonment  *)
(* or a keepalive only together.                                           *)
LEMMA HubSilenceStep ==
    ASSUME TypeOK, SilenceInv, [Next]_vars
    PROVE  SilenceInv'
  <1>1. SMTypeOK
    BY DEF TypeOK
  <1>2. CASE UNCHANGED smVars
    BY <1>1, <1>2, SilenceStep
  <1>3. CASE RelayNext
    BY <1>2, <1>3 DEF RelayNext, RelayCall
  <1>4. CASE HubOwnerNext
    BY <1>2, <1>4 DEF HubOwnerNext, SetConfiguration, SetMinimumStakes, DeprecateHub,
                      EscheatAbandonedRelayBalance
  <1>5. ASSUME NEW m \in Managers, OnRelayServerRegistered(m) PROVE SilenceInv'
    <2>1. HubNext(Hub) /\ Hub \in Hubs
      BY <1>5, HubAssumption DEF HubAssumption, OnRelayServerRegistered, HubNext
    <2> QED BY <1>1, <2>1, SilenceStep DEF SMNext
  <1>6. ASSUME NEW w \in Workers, NEW b \in Accounts, Penalize(w, b) PROVE SilenceInv'
    BY <1>1, <1>6 DEF Penalize, PenalizeRelayManager, SilenceInv, SMTypeOK, StakeInfo
  <1>7. CASE HubUsersNext
    BY <1>2, <1>6, <1>7 DEF HubUsersNext, AddRelayWorkers, DepositFor, WithdrawMultiple
  <1>8. CASE StakeManagerNext
    BY <1>1, <1>8, SilenceStep DEF StakeManagerNext, SMNext
  <1>9. CASE UNCHANGED vars
    BY <1>2, <1>9 DEF vars, smVars
  <1> QED BY <1>3, <1>4, <1>5, <1>7, <1>8, <1>9 DEF Next, HubCallsNext

(* Keepalives only come closer, and workers are never taken away.          *)
LEMMA AliveStep ==
    ASSUME TypeOK, [Next]_vars, NEW n \in Managers
    PROVE  /\ stakes'[n].keepaliveTime \in {stakes[n].keepaliveTime, now}
           /\ workerCount'[n] >= workerCount[n]
           /\ now' >= now
  <1>0. now \in Nat /\ \A k \in Managers : workerCount[k] \in Nat
    BY NumberAssumption DEF NumberAssumption, TypeOK, SMTypeOK, HubTypeOK
  <1> DEFINE P == stakes'[n].keepaliveTime \in {stakes[n].keepaliveTime, now}
             W == workerCount'[n] >= workerCount[n]
             T == now' >= now
  <1>1. CASE UNCHANGED <<stakes, now, workerCount>>
    BY <1>0, <1>1
  <1>2. CASE RelayNext
    BY <1>1, <1>2 DEF RelayNext, RelayCall, smVars
  <1>3. CASE HubOwnerNext
    BY <1>1, <1>3 DEF HubOwnerNext, SetConfiguration, SetMinimumStakes, DeprecateHub,
                      EscheatAbandonedRelayBalance, smVars
  <1>4. ASSUME NEW m \in Managers, OnRelayServerRegistered(m) PROVE P /\ W /\ T
    BY <1>0, <1>4 DEF OnRelayServerRegistered, UpdateRelayKeepaliveTimeByHub,
                      RecordKeepalive, hubVars, TypeOK, SMTypeOK, StakeInfo
  <1>5. CASE HubUsersNext
    <2>1. ASSUME NEW m \in Managers, NEW ws \in WorkerLists, AddRelayWorkers(m, ws)
          PROVE  P /\ W /\ T
      <3>1. Len(ws) \in Nat
        BY HubAssumption DEF HubAssumption, WorkerLists
      <3> QED BY <1>0, <2>1, <3>1 DEF AddRelayWorkers, smVars, TypeOK, HubTypeOK
    <2>2. ASSUME NEW w \in Workers, NEW b \in Accounts, Penalize(w, b)
          PROVE  P /\ W /\ T
      BY <1>0, <2>2 DEF Penalize, PenalizeRelayManager, hubVars, TypeOK, SMTypeOK, StakeInfo
    <2> QED BY <1>1, <1>5, <2>1, <2>2
       DEF HubUsersNext, DepositFor, WithdrawMultiple, smVars
  <1>6. CASE StakeManagerNext
    <2>1. UNCHANGED workerCount
      BY <1>6 DEF StakeManagerNext, hubVars
    <2>2. now' = now \/ Tick
      BY <1>6, ClockStep DEF StakeManagerNext
    <2>3. T /\ W
      BY <1>0, <2>1, <2>2 DEF Tick
    <2>4. CASE Tick
      BY <2>3, <2>4 DEF Tick
    <2>5. CASE AdministrationNext
      <3>1. ASSUME NEW m \in Managers, RecordKeepalive(m) PROVE P
        BY <3>1 DEF RecordKeepalive, TypeOK, SMTypeOK, StakeInfo
      <3>2. ASSUME NEW m \in Managers, NEW token \in Tokens, NEW d \in UnstakeDelays,
                   NEW amount \in StakeAmounts, StakeForRelayManager(m, token, d, amount)
            PROVE  P
        BY <3>2 DEF StakeForRelayManager, TypeOK, SMTypeOK, StakeInfo
      <3>3. ASSUME NEW m \in Managers,
                   \/ \E owner \in Owners : SetRelayManagerOwner(m, owner)
                   \/ UnlockStake(m) \/ WithdrawStake(m)
                   \/ MarkRelayAbandoned(m) \/ EscheatAbandonedRelayStake(m)
            PROVE  P
        <4> USE DEF TypeOK, SMTypeOK, StakeInfo
        <4>1. CASE \E owner \in Owners : SetRelayManagerOwner(m, owner)
          BY <4>1 DEF SetRelayManagerOwner
        <4>2. CASE UnlockStake(m)
          BY <4>2 DEF UnlockStake
        <4>3. CASE WithdrawStake(m)
          BY <4>3 DEF WithdrawStake
        <4>4. CASE MarkRelayAbandoned(m)
          BY <4>4 DEF MarkRelayAbandoned
        <4>5. CASE EscheatAbandonedRelayStake(m)
          BY <4>5 DEF EscheatAbandonedRelayStake
        <4> QED BY <3>3, <4>1, <4>2, <4>3, <4>4, <4>5
      <3>4. ASSUME UNCHANGED stakes PROVE P
        BY <3>4
      <3>5. P
        BY <2>5, <3>1, <3>2, <3>3, <3>4
           DEF AdministrationNext, SetBurnAddress, SetDevAddress, AuthorizeHubByOwner,
               AuthorizeHubByManager, UnauthorizeHubByOwner, UnauthorizeHubByManager,
               AuthorizeHub, UnauthorizeHub, UpdateRelayKeepaliveTimeByOwner
      <3> QED BY <2>3, <3>5
    <2>6. ASSUME NEW h \in Hubs, HubNext(h) PROVE P /\ W /\ T
      <3>1. P
        BY <2>6 DEF HubNext, PenalizeRelayManager, UpdateRelayKeepaliveTimeByHub,
                    RecordKeepalive, TypeOK, SMTypeOK, StakeInfo
      <3> QED BY <2>3, <3>1
    <2> QED BY <1>6, <2>4, <2>5, <2>6 DEF StakeManagerNext
  <1>7. CASE UNCHANGED vars
    BY <1>1, <1>7 DEF vars
  <1> QED BY <1>2, <1>3, <1>4, <1>5, <1>6, <1>7 DEF Next, HubCallsNext

(* KeptAliveInv with what makes it inductive: no registration is in the    *)
(* future.                                                                 *)
SeenInv == KeptAliveInv /\ \A m \in Managers : lastSeen[m] <= now

LEMMA SeenStep ==
    ASSUME TypeOK, RegistrarTypeOK, SeenInv, [RegistrarNext]_allVars
    PROVE  SeenInv'
  <1>1. /\ now \in Nat /\ now' \in Nat
        /\ \A n \in Managers :
              /\ now' >= now
              /\ stakes'[n].keepaliveTime \in {stakes[n].keepaliveTime, now}
              /\ stakes[n].keepaliveTime \in Nat
              /\ workerCount'[n] >= workerCount[n] /\ workerCount[n] \in Nat
              /\ workerCount'[n] \in Nat /\ lastSeen[n] \in Nat
    <2>1. TypeOK' /\ [Next]_vars
      BY RegistrarStepIsHubStep, TypeStep
    <2>2. \A n \in Managers :
              /\ stakes'[n].keepaliveTime \in {stakes[n].keepaliveTime, now}
              /\ workerCount'[n] >= workerCount[n]
              /\ now' >= now
      BY <2>1, AliveStep
    <2>3. now \in Nat /\ now' \in Nat
      BY <2>1, NumberAssumption DEF NumberAssumption, TypeOK, SMTypeOK
    <2> QED BY <2>1, <2>2, <2>3
         DEF TypeOK, SMTypeOK, HubTypeOK, StakeInfo, RegistrarTypeOK
  <1>2. CASE UNCHANGED lastSeen
    BY <1>1, <1>2 DEF SeenInv, KeptAliveInv
  <1>3. ASSUME NEW m \in Managers, RegisterRelayServer(m) PROVE SeenInv'
    <2>1. /\ lastSeen' = [lastSeen EXCEPT ![m] = now]
          /\ stakes'[m].keepaliveTime = now /\ workerCount[m] > 0
      BY <1>3 DEF RegisterRelayServer, StoreRelayServerRegistration,
         OnRelayServerRegistered, UpdateRelayKeepaliveTimeByHub, RecordKeepalive,
         TypeOK, SMTypeOK, StakeInfo
    <2>2. ASSUME NEW n \in Managers
          PROVE  /\ lastSeen'[n] # 0 => /\ stakes'[n].keepaliveTime >= lastSeen'[n]
                                        /\ workerCount'[n] > 0
                 /\ lastSeen'[n] <= now'
      <3>1. CASE n = m
        BY <1>1, <2>1, <3>1 DEF RegistrarTypeOK
      <3>2. CASE n # m
        <4>1. lastSeen'[n] = lastSeen[n]
          BY <2>1, <3>2 DEF RegistrarTypeOK
        <4> QED BY <1>1, <4>1 DEF SeenInv, KeptAliveInv
      <3> QED BY <3>1, <3>2
    <2> QED BY <2>2 DEF SeenInv, KeptAliveInv
  <1>4. ASSUME NEW age \in RegistrationMaxAges, SetRelayRegistrationMaxAge(age)
        PROVE  UNCHANGED lastSeen
    BY <1>4 DEF SetRelayRegistrationMaxAge
  <1> QED BY <1>2, <1>3, <1>4 DEF RegistrarNext, allVars, registrarVars

(* A manager's funds can be escheated only after the two delays of silence *)
(* also when it is the hub and its registrar that keep it alive, slash it  *)
(* and escheat its balance.                                                *)
THEOREM EscheatAfterSilenceWithHub == RegistrarSpec => []EscheatableOnlyAfterSilence
  <1>1. RegistrarInit => SilenceInv
    BY DEF RegistrarInit, Init, SMInit, SilenceInv, EmptyStake
  <1>2. TypeOK /\ SilenceInv /\ [RegistrarNext]_allVars => SilenceInv'
    BY RegistrarStepIsHubStep, HubSilenceStep
  <1>3. TypeOK /\ SilenceInv => EscheatableOnlyAfterSilence
    BY NumberAssumption
       DEF NumberAssumption, TypeOK, SMTypeOK, StakeInfo, SilenceInv,
           EscheatableOnlyAfterSilence, IsRelayEscheatable
  <1> QED BY <1>1, <1>2, <1>3, RegistrarTypeCorrect, PTL DEF RegistrarSpec, allVars

(* Every relay server that clients are offered has a worker, and nobody    *)
(* can escheat it, when registrations expire no later than the two delays. *)
THEOREM ListedRelaysAreAlive == RegistrarSpec => []ListedIsAlive
  <1>1. RegistrarInit => SeenInv
    BY NumberAssumption
       DEF NumberAssumption, RegistrarInit, Init, SMInit, SeenInv, KeptAliveInv
  <1>2. TypeOK /\ RegistrarTypeOK /\ SeenInv /\ [RegistrarNext]_allVars => SeenInv'
    BY SeenStep
  <1>3. TypeOK /\ RegistrarTypeOK /\ IndexExact /\ SeenInv
          /\ EscheatableOnlyAfterSilence => ListedIsAlive
    <2>1. SUFFICES ASSUME TypeOK, RegistrarTypeOK, IndexExact, SeenInv,
                          EscheatableOnlyAfterSilence, NEW m \in ReadRelayInfos
                   PROVE  /\ workerCount[m] > 0
                          /\ maxAge <= AbandonmentDelay + EscheatmentDelay
                                => ~IsRelayEscheatable(m)
      BY DEF ListedIsAlive
    <2>2. /\ m \in Managers /\ lastSeen[m] # 0 /\ lastSeen[m] >= OldestTimestamp
      <3>1. PICK i \in ListedIndices : m = indexedValues[i]
        BY <2>1 DEF ReadRelayInfos
      <3>2. i \in 1..Len(indexedValues) /\ m \in Managers
        BY <2>1, <3>1 DEF ListedIndices, RegistrarTypeOK
      <3> QED BY <2>1, <3>1, <3>2 DEF ListedIndices, IsListed, IndexExact
    <2>3. /\ now \in Nat /\ maxAge \in Nat /\ AbandonmentDelay \in Nat
          /\ EscheatmentDelay \in Nat /\ lastSeen[m] \in Nat
          /\ stakes[m].keepaliveTime \in Nat
      BY <2>1, <2>2, NumberAssumption, RegistrarAssumption
         DEF NumberAssumption, RegistrarAssumption, TypeOK, SMTypeOK, StakeInfo,
             RegistrarTypeOK
    <2>4. stakes[m].keepaliveTime >= lastSeen[m] /\ workerCount[m] > 0
      BY <2>1, <2>2 DEF SeenInv, KeptAliveInv
    <2>5. ASSUME maxAge <= AbandonmentDelay + EscheatmentDelay, IsRelayEscheatable(m)
          PROVE  FALSE
      <3>1. stakes[m].keepaliveTime + AbandonmentDelay + EscheatmentDelay < now
        BY <2>1, <2>2, <2>5 DEF EscheatableOnlyAfterSilence
      <3> QED BY <2>2, <2>3, <2>4, <2>5, <3>1 DEF OldestTimestamp
    <2> QED BY <2>4, <2>5
  <1> QED BY <1>1, <1>2, <1>3, RegistrarTypeCorrect, IndexIsExact,
             EscheatAfterSilenceWithHub, PTL DEF RegistrarSpec, allVars

(* The hub's penalization window holds with the registrar too.             *)
THEOREM WindowWithRegistrar == RegistrarSpec => []PenalizationWindow
  <1>1. RegistrarSpec => Spec
    BY RegistrarStepIsHubStep, PTL DEF RegistrarSpec, Spec, RegistrarInit, allVars
  <1> QED BY <1>1, SlashableThroughoutWindow, PTL

(* The books are right with the hub and the registrar calling, too.        *)
THEOREM StakesBackedWithHub == RegistrarSpec => []StakesBacked
  <1>1. RegistrarInit => StakeInv
    BY InitBooks DEF RegistrarInit, Init
  <1>2. TypeOK /\ TypeOK' /\ StakeInv /\ [RegistrarNext]_allVars => StakeInv'
    BY RegistrarStepIsHubStep, BooksStep
  <1>3. StakeInv => StakesBacked
    BY DEF StakeInv
  <1> QED BY <1>1, <1>2, <1>3, RegistrarTypeCorrect, PTL DEF RegistrarSpec, allVars

(* While a relayCall can still be punished and no foreign hub may slash,   *)
(* a stake is lost as a whole and its owner gets back at most half of it,  *)
(* rounded up, even as the beneficiary of the penalty.                     *)
THEOREM SlashLosesHalf == RegistrarSpec => SlashHalvesStake
  <1>1. RegistrarInit => StakeInv /\ WindowInv
    BY InitBooks, NumberAssumption, HubAssumption
       DEF NumberAssumption, HubAssumption, RegistrarInit, Init, SMInit, HubInit, WindowInv,
           EmptyStake
  <1>2. TypeOK /\ TypeOK' /\ StakeInv /\ WindowInv /\ [RegistrarNext]_allVars
           => StakeInv' /\ WindowInv'
    BY RegistrarStepIsHubStep, BooksStep, WindowStep
  <1>3. TypeOK /\ TypeOK' /\ StakeInv /\ WindowInv /\ [RegistrarNext]_allVars
           => [SlashHalvesStakeStep]_vars
    BY RegistrarStepIsHubStep, SlashStep
  <1> QED BY <1>1, <1>2, <1>3, RegistrarTypeCorrect, PTL
     DEF RegistrarSpec, allVars, SlashHalvesStake
=============================================================================
