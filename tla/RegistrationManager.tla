------------------------ MODULE RegistrationManager ------------------------
(***************************************************************************)
(* How a relay server gets registered and stays so                         *)
(* (relay/src/RegistrationManager.ts and the worker of RelayServer.ts),    *)
(* with the chain it watches and the owner who runs `gsn relayer-register` *)
(* (cli/src/CommandsLogic.ts).                                             *)
(*                                                                         *)
(* A pass of the worker is one process whose steps are the code between    *)
(* two awaits; blocks come at any time.  Only distances between blocks     *)
(* matter to the code, so the state holds ages (blocks since) and          *)
(* countdowns (blocks until) instead of block numbers; both saturate.      *)
(* Block numbers and timestamps advance together.                          *)
(***************************************************************************)
EXTENDS Integers, Sequences, FiniteSets, SequencesExt, Filtering

CONSTANTS
    Urls, NoUrl,        \* values of config.url; no registration
    UnstakeDelay,       \* of the stake, in blocks
    RecentBlocks,       \* config.recentActionAvoidRepeatDistanceBlocks
    RescanDepth,        \* blocks a started server looks back, 10 in init
    RefreshTimeout,     \* config.refreshStateTimeoutBlocks
    RegistrationMaxAge, \* of the RelayRegistrar
    MaxLag,             \* bound: blocks mined during one pass
    MaxAttempts,        \* bound: runs of the registration command
    MaxTrouble          \* bound: exceptions, restarts, split queries, calls of
                        \* the owner and blocks mined during a pass, in all

ASSUME RegistrationAssumption ==
    /\ NoUrl \notin Urls /\ Urls # {}
    /\ UnstakeDelay \in Nat /\ RecentBlocks \in Nat /\ RescanDepth \in Nat
    /\ RefreshTimeout \in Nat /\ RegistrationMaxAge \in Nat /\ MaxLag \in Nat
    /\ MaxTrouble \in Nat /\ MaxAttempts \in Nat

VARIABLES
    chain,      \* what the contracts and accounts hold
    log,        \* StakeManager events about this manager, oldest first
    store,      \* TxStoreManager: transactions of the server in nonce order
    mem,        \* what RegistrationManager and RelayServer remember
    pass,       \* the worker's current pass
    ready,      \* RelayServer.ready
    scanned,    \* how many events are in blocks up to lastScannedBlock
    newBlock,   \* the latest block is above lastScannedBlock
    url,        \* config.url
    cli,        \* the registration command
    budget      \* what the bounds have left

vars == <<chain, log, store, mem, pass, ready, scanned, newBlock, url, cli, budget>>

Smaller(a, b) == IF a < b THEN a ELSE b
Later(countdown) == IF countdown > -MaxLag THEN countdown - 1 ELSE countdown
MaxTxAge == RecentBlocks + MaxLag + 1
MaxRegAge == RegistrationMaxAge + MaxLag

ManagerActions == {"SET_OWNER", "AUTHORIZE_HUB", "ADD_WORKER", "REGISTER_SERVER",
                   "DEPOSIT_WITHDRAWAL", "MANAGER_TRANSFER"}
WorkerActions == {"WORKER_TRANSFER"}
Actions == ManagerActions \union WorkerActions
Transfers == {"MANAGER_TRANSFER", "WORKER_TRANSFER"}
Events == {"OwnerSet", "StakeAdded", "HubAuthorized", "HubUnauthorized",
           "StakeUnlocked", "StakeWithdrawn"}
Purses == {"deposit", "worker", "manager"}

(* A transfer is short if its signer cannot pay both its sum and the gas of *)
(* what it sent before.                                                    *)
Transactions == [action : Actions, url : Urls, age : 0..MaxTxAge,
                 state : {"pending", "mined", "known"}, short : BOOLEAN]

TypeOK ==
    /\ chain \in [ownerSet : BOOLEAN, staked : BOOLEAN, unlocked : BOOLEAN,
                  left : -MaxLag..UnstakeDelay, hub : BOOLEAN, worker : BOOLEAN,
                  relayUrl : Urls \union {NoUrl}, regAge : 0..MaxRegAge,
                  deposit : BOOLEAN, workerEth : BOOLEAN, managerEth : BOOLEAN]
    /\ log \in Seq([event : Events, age : 0..RescanDepth, left : -MaxLag..UnstakeDelay])
    /\ store \in Seq(Transactions)
    /\ mem \in [hubAuthorized : BOOLEAN, stakeLocked : BOOLEAN, staked : BOOLEAN,
                funded : BOOLEAN, ownerSet : BOOLEAN, setOwnerCalled : BOOLEAN,
                owner : BOOLEAN, relayUrl : Urls \union {NoUrl},
                delayed : Seq(-MaxLag..UnstakeDelay), checkBalances : BOOLEAN,
                refreshAge : 0..RefreshTimeout]
    /\ pass \in [pc : {"idle", "fetch", "setOwner", "events", "register", "attempt",
                       "registerFirst", "registerTx", "finish"},
                 lag : 0..MaxLag, seen : 0..Len(log), todo : Seq(1..Len(log)),
                 sweep : Seq(Purses), force : BOOLEAN]
    /\ ready \in BOOLEAN /\ newBlock \in BOOLEAN
    /\ scanned \in 0..Len(log) /\ url \in Urls
    /\ cli \in [pc : {"idle", "fund", "waitOwner", "stake", "authorize"},
                sawOwner : BOOLEAN, sawStake : BOOLEAN]
    /\ budget \in [trouble : 0..MaxTrouble, attempts : 0..MaxAttempts]

----------------------------------------------------------------------------
(* The chain *)

(* verifyRelayManagerStaked, whose last requirement is the authorization   *)
StakeAccepted == chain.staked /\ ~chain.unlocked
StakedOnHub == StakeAccepted /\ chain.hub

Older == [chain EXCEPT !.left = Later(@), !.regAge = Smaller(@ + 1, MaxRegAge)]
OlderStore == [i \in DOMAIN store |->
                 [store[i] EXCEPT !.age = IF store[i].state = "pending" THEN 0
                                          ELSE Smaller(@ + 1, MaxTxAge)]]

(* New ether makes good what the transfers of these actions lack.          *)
FundedStore(actions) ==
    [i \in DOMAIN store |-> [OlderStore[i] EXCEPT
                               !.short = @ /\ store[i].action \notin actions]]

(* Bounds: each disturbance costs one, a block counts as one in a pass.    *)
Trouble(n) == n <= budget.trouble /\ budget' = [budget EXCEPT !.trouble = @ - n]
InPass == IF pass.pc = "idle" THEN 0 ELSE 1

(* A block that leaves the contracts as c, emits the events and leaves the *)
(* transactions as s.  What is old and known is no longer looked at.       *)
Block(c, events, s) ==
    /\ pass.lag < MaxLag
    /\ chain' = c
    /\ log' = [i \in DOMAIN log |-> [log[i] EXCEPT !.age = Smaller(@ + 1, RescanDepth),
                                                   !.left = Later(@)]]
            \o [i \in DOMAIN events |-> [event |-> events[i], age |-> 0,
                    left |-> IF events[i] = "HubUnauthorized" THEN UnstakeDelay ELSE -MaxLag]]
    /\ store' = Filtered(s, {t \in Transactions : ~(t.state = "known" /\ t.age = MaxTxAge)})
    /\ mem' = [mem EXCEPT !.delayed = [i \in DOMAIN @ |-> Later(@[i])],
                          !.refreshAge = Smaller(@ + 1, RefreshTimeout)]
    /\ pass' = [pass EXCEPT !.lag = @ + InPass]
    /\ newBlock' = TRUE

NextBlock ==
    /\ Block(Older, <<>>, OlderStore) /\ Trouble(InPass)
    /\ UNCHANGED <<ready, scanned, url, cli>>

(* What the contracts require of the manager's calls: setRelayManagerOwner, *)
(* managerOnly, addRelayWorkers, onRelayServerRegistered.                  *)
Reverts(action) ==
    CASE action = "SET_OWNER" -> chain.ownerSet
      [] action = "AUTHORIZE_HUB" -> ~chain.ownerSet
      [] action = "ADD_WORKER" -> ~StakedOnHub \/ chain.worker
      [] action = "REGISTER_SERVER" -> ~StakedOnHub \/ ~chain.worker
      [] OTHER -> FALSE

(* What a transaction of the server does when it is mined, and the events  *)
(* it emits.                                                               *)
Effect(t) ==
    LET becomes(c, events) == [chain |-> c, events |-> events] IN
    IF Reverts(t.action) THEN becomes(Older, <<>>)
    ELSE CASE t.action = "SET_OWNER" ->
                becomes([Older EXCEPT !.ownerSet = TRUE], <<"OwnerSet">>)
           [] t.action = "AUTHORIZE_HUB" ->
                becomes([Older EXCEPT !.hub = TRUE], <<"HubAuthorized">>)
           [] t.action = "ADD_WORKER" -> becomes([Older EXCEPT !.worker = TRUE], <<>>)
           [] t.action = "REGISTER_SERVER" ->
                becomes([Older EXCEPT !.relayUrl = t.url, !.regAge = 0], <<>>)
           [] t.action = "DEPOSIT_WITHDRAWAL" ->
                becomes([Older EXCEPT !.deposit = FALSE], <<>>)
           [] t.action = "MANAGER_TRANSFER" ->
                becomes([Older EXCEPT !.managerEth = FALSE], <<>>)
           [] t.action = "WORKER_TRANSFER" ->
                becomes([Older EXCEPT !.workerEth = FALSE], <<>>)

(* The signer's oldest pending transaction is mined if it can pay its gas  *)
(* and its sum.                                                            *)
Mine(actions, paid) ==
    /\ paid
    /\ \E i \in DOMAIN store :
        /\ store[i].state = "pending" /\ store[i].action \in actions
        /\ ~store[i].short
        /\ \A j \in 1..(i - 1) :
              store[j].action \in actions => store[j].state # "pending"
        /\ LET e == Effect(store[i])
           IN  Block(e.chain, e.events, [OlderStore EXCEPT ![i].state = "mined"])
    /\ Trouble(InPass)
    /\ UNCHANGED <<ready, scanned, url, cli>>

MineManager == Mine(ManagerActions, chain.managerEth)
MineWorker == Mine(WorkerActions, chain.workerEth)

(* A ready server relays: it earns on the hub and its worker gets funded.  *)
Earn ==
    /\ ready /\ StakedOnHub
    /\ Block([Older EXCEPT !.deposit = TRUE, !.workerEth = TRUE], <<>>,
             FundedStore(WorkerActions))
    /\ Trouble(InPass)
    /\ UNCHANGED <<ready, scanned, url, cli>>

(* The worker's relay calls are not in this store: one that was still      *)
(* pending when its transfer was sent is mined first.                      *)
MineRelayCall ==
    /\ \E i \in DOMAIN store :
        /\ store[i].state = "pending" /\ store[i].action \in WorkerActions
        /\ ~store[i].short
        /\ Block(Older, <<>>, [OlderStore EXCEPT ![i].short = TRUE])
    /\ Trouble(InPass)
    /\ UNCHANGED <<ready, scanned, url, cli>>

----------------------------------------------------------------------------
(* What the server reads and sends *)

(* Mutant: only the transactions already mined are looked at. *)
IsActionRecentlyMined(action) ==
    \E i \in DOMAIN store :
        store[i].action = action /\ store[i].state = "known"

(* isActionPendingOrRecentlyMined, counted from the pass's block *)
IsActionPendingOrRecentlyMined(action) ==
    \E i \in DOMAIN store :
        /\ store[i].action = action
        /\ \/ store[i].state # "known"
           \/ store[i].age - pass.lag <= RecentBlocks

Idle == [pc |-> "idle", lag |-> 0, seen |-> 0, todo |-> <<>>, sweep |-> <<>>,
         force |-> FALSE]

(* A transfer is of all the latest block says the signer has, less its own *)
(* gas; what the signer has pending is not paid for in that block.         *)
CountsOnTooMuch(action) ==
    LET actions == IF action \in ManagerActions THEN ManagerActions ELSE WorkerActions
    IN  /\ action \in Transfers
        /\ \E i \in DOMAIN store :
              store[i].state = "pending" /\ store[i].action \in actions

SentTransaction(action) ==
    Append(store, [action |-> action, url |-> url, age |-> 0, state |-> "pending",
                   short |-> CountsOnTooMuch(action)])

(* An exception anywhere in a pass ends it: intervalHandler.               *)
PassThrows ==
    /\ pass' = Idle /\ ready' = FALSE /\ newBlock' = TRUE
    /\ UNCHANGED <<chain, log, store, scanned, url, cli>>

(* A step of the pass that sends nothing *)
Proceed(m, p) ==
    /\ mem' = m /\ pass' = p
    /\ UNCHANGED <<chain, log, store, ready, scanned, newBlock, url, cli>>

(* A step that calls sendTransaction, which throws when the signer cannot  *)
(* pay or, if no gas limit is given, when the call would revert.           *)
Send(action, gasLimitGiven, m, p, thrown) ==
    IF /\ IF action = "WORKER_TRANSFER" THEN chain.workerEth ELSE chain.managerEth
       /\ gasLimitGiven \/ ~Reverts(action)
    THEN /\ store' = SentTransaction(action)
         /\ mem' = [m EXCEPT !.checkBalances = TRUE] /\ pass' = p
         /\ UNCHANGED <<chain, log, ready, scanned, newBlock, url, cli>>
    ELSE mem' = thrown /\ PassThrows

(* refreshStake authorizes the hub when that is all that is missing, and   *)
(* leaves the remembered stake alone when there is none on the chain.      *)
MustAuthorize ==
    /\ StakeAccepted /\ ~chain.hub
    /\ ~IsActionPendingOrRecentlyMined("AUTHORIZE_HUB")

RefreshedStake(m) ==
    LET read == [m EXCEPT !.hubAuthorized = @ \/ StakedOnHub, !.ownerSet = chain.ownerSet]
    IN  IF ~chain.staked THEN read
        ELSE [read EXCEPT !.stakeLocked = ~chain.unlocked, !.staked = TRUE, !.owner = TRUE]

RefreshStake(m, p) ==
    IF MustAuthorize
    THEN Send("AUTHORIZE_HUB", FALSE, RefreshedStake(m), p, mem)
    ELSE Proceed(RefreshedStake(m), p)

Started == [hubAuthorized |-> FALSE, stakeLocked |-> FALSE, staked |-> FALSE,
            funded |-> FALSE, ownerSet |-> FALSE, setOwnerCalled |-> FALSE,
            owner |-> FALSE, relayUrl |-> NoUrl, delayed |-> <<>>,
            checkBalances |-> TRUE, refreshAge |-> RefreshTimeout]

(* A server is started before or after its manager was funded.             *)
Init ==
    /\ url \in Urls
    /\ \E eth \in BOOLEAN :
        /\ chain = [ownerSet |-> FALSE, staked |-> FALSE, unlocked |-> FALSE, left |-> 0,
                    hub |-> FALSE, worker |-> FALSE, relayUrl |-> NoUrl,
                    regAge |-> MaxRegAge, deposit |-> FALSE, workerEth |-> FALSE,
                    managerEth |-> eth]
        /\ mem = [Started EXCEPT !.funded = eth]
    /\ log = <<>> /\ store = <<>> /\ pass = Idle
    /\ ready = FALSE /\ scanned = 0 /\ newBlock = TRUE
    /\ cli = [pc |-> "idle", sawOwner |-> FALSE, sawStake |-> FALSE]
    /\ budget = [trouble |-> MaxTrouble, attempts |-> MaxAttempts]

----------------------------------------------------------------------------
(* The worker *)

(* Any await may throw, and the calls after it are not made; that the      *)
(* owner was set is remembered before it is sent.                          *)
WorkerFails ==
    /\ Trouble(1)
    /\ \/ UNCHANGED mem
       \/ /\ pass.pc = "setOwner" /\ mem.funded /\ ~mem.ownerSet
          /\ mem' = [mem EXCEPT !.setOwnerCalled = TRUE]
    /\ PassThrows

(* intervalHandler and _worker; the option to send surplus to the owner is *)
(* not configured.  Balances are read again only if something was sent or  *)
(* was low, and a server whose manager is poor does nothing else.          *)
StartPass ==
    /\ pass.pc = "idle" /\ newBlock
    /\ ~ready \/ mem.refreshAge = RefreshTimeout
    /\ mem' = [mem EXCEPT !.refreshAge = 0,
                 !.funded = IF mem.checkBalances THEN chain.managerEth ELSE @,
                 !.checkBalances = @ /\ ~(chain.managerEth /\ chain.workerEth)]
    /\ ready' = (ready /\ (mem.checkBalances => chain.managerEth /\ chain.workerEth))
    /\ IF mem.checkBalances /\ ~chain.managerEth
       THEN UNCHANGED <<pass, newBlock>>
       ELSE pass' = [Idle EXCEPT !.pc = "fetch", !.seen = Len(log)] /\ newBlock' = FALSE
    /\ UNCHANGED <<chain, log, store, scanned, url, cli, budget>>

(* _getPastEventsPaginated: when the node refuses a page for its size, the *)
(* whole range is asked for again in smaller pages, and the pages received *)
(* so far stay in the result.                                              *)
PastEvents(from) ==
    LET all == [i \in 1..(Len(log) - from) |-> from + i]
        split == IF budget.trouble > 0 THEN 1..(Len(all) - 1) ELSE {}
    IN  {[todo |-> all, trouble |-> 0]} \union
        {[todo |-> SubSeq(all, 1, k) \o all, trouble |-> 1] : k \in split}

ShouldRegisterAgain ==
    /\ chain.regAge - pass.lag >= RegistrationMaxAge
    /\ ~IsActionPendingOrRecentlyMined("REGISTER_SERVER")

(* The query of handlePastEvents *)
FetchEvents ==
    /\ pass.pc = "fetch"
    /\ \E r \in PastEvents(scanned) :
        /\ pass' = [pass EXCEPT !.pc = "setOwner", !.todo = r.todo,
                             !.force = ShouldRegisterAgain]
        /\ Trouble(r.trouble)
    /\ UNCHANGED <<chain, log, store, mem, ready, scanned, newBlock, url, cli>>

OwnerIsToBeSet == mem.funded /\ ~mem.ownerSet /\ ~mem.setOwnerCalled

SetOwnerInStakeManager ==
    /\ pass.pc = "setOwner"
    /\ LET p == [pass EXCEPT !.pc = "events"]
           called == [mem EXCEPT !.setOwnerCalled = TRUE]
       IN  IF OwnerIsToBeSet
           THEN Send("SET_OWNER", FALSE, called, p, called)
           ELSE Proceed(mem, p)
    /\ UNCHANGED budget

(* Mutant: the manager's own ether is always left to a later pass. *)
AllFundsButManagers(withdrawManager) == <<"deposit", "worker">>

(* withdrawAllFunds *)
AllFunds(withdrawManager) ==
    IF withdrawManager THEN <<"deposit", "worker", "manager">> ELSE <<"deposit", "worker">>

HandleEvent ==
    /\ pass.pc = "events" /\ pass.sweep = <<>> /\ pass.todo # <<>>
    /\ LET e == log[Head(pass.todo)]
           p == [pass EXCEPT !.todo = Tail(@)]
       IN  CASE e.event = "HubAuthorized" ->
                    Proceed([mem EXCEPT !.hubAuthorized = TRUE], p)
             [] e.event = "HubUnauthorized" ->
                    Proceed([mem EXCEPT !.hubAuthorized = FALSE,
                                        !.delayed = Append(@, e.left)], p)
             [] e.event = "StakeWithdrawn" ->
                    RefreshStake(mem, [p EXCEPT !.sweep = AllFunds(TRUE)])
             [] OTHER -> RefreshStake(mem, p)
    /\ UNCHANGED budget

(* Mutants: a delayed event is due at once, or only in its own block. *)
AlwaysDue(countdown) == TRUE
DueExactly(countdown) == countdown + pass.lag = 0

(* Due by the time of the pass's block *)
Due(countdown) == countdown + pass.lag <= 0

(* _extractDuePendingEvents; each due event has its own withdrawAllFunds   *)
ExtractDuePendingEvents ==
    /\ pass.pc = "events" /\ pass.sweep = <<>> /\ pass.todo = <<>>
    /\ LET left == -MaxLag..UnstakeDelay
           due == Filtered(mem.delayed, {d \in left : Due(d)})
       IN  Proceed([mem EXCEPT !.delayed = Filtered(@, {d \in left : ~Due(d)})],
                   [pass EXCEPT !.pc = "register",
                      !.sweep = FlattenSeq([i \in DOMAIN due |-> AllFunds(FALSE)])])
    /\ UNCHANGED budget

(* The parts of withdrawAllFunds: a balance is read, and sent to the owner *)
(* if there is any.  Withdrawing the deposit needs the owner's address.    *)
SweepPurse(purse, holds, action) ==
    /\ pass.sweep # <<>> /\ Head(pass.sweep) = purse
    /\ LET p == [pass EXCEPT !.sweep = Tail(@)] IN
        IF holds THEN Send(action, TRUE, mem, p, mem) ELSE Proceed(mem, p)
    /\ UNCHANGED budget

SendManagerHubBalanceToOwner ==
    \/ mem.owner /\ SweepPurse("deposit", chain.deposit, "DEPOSIT_WITHDRAWAL")
    \/ /\ ~mem.owner /\ pass.sweep # <<>> /\ Head(pass.sweep) = "deposit"
       /\ PassThrows /\ UNCHANGED <<mem, budget>>

SendWorkersEthBalancesToOwner == SweepPurse("worker", chain.workerEth, "WORKER_TRANSFER")

SendManagerEthBalanceToOwner == SweepPurse("manager", chain.managerEth, "MANAGER_TRANSFER")

Sweep ==
    SendManagerHubBalanceToOwner \/ SendWorkersEthBalancesToOwner
        \/ SendManagerEthBalanceToOwner

(* refreshRegistrarRelayInfo treats any error as not registered.           *)
RefreshRegistrarRelayInfo ==
    /\ pass.pc = "register" /\ pass.sweep = <<>>
    /\ \E failed \in {0, 1} :
        LET info == IF failed = 1 THEN NoUrl ELSE chain.relayUrl
            pending == IsActionPendingOrRecentlyMined("REGISTER_SERVER")
        IN  /\ Proceed([mem EXCEPT !.relayUrl = info],
                       [pass EXCEPT !.pc = IF pass.force \/ (info # url /\ ~pending)
                                           THEN "attempt" ELSE "finish"])
            /\ Trouble(failed)


AllPrerequisitesOk ==
    mem.hubAuthorized /\ mem.stakeLocked /\ mem.staked /\ mem.funded /\ StakedOnHub

(* attemptRegistration: a server that lacks something looks again, and one *)
(* that lacks nothing adds its worker and then registers.                  *)
AttemptRegistration ==
    /\ pass.pc = "attempt"
    /\ CASE ~AllPrerequisitesOk ->
               RefreshStake([mem EXCEPT !.funded = chain.managerEth],
                            [pass EXCEPT !.pc = "finish"])
         [] AllPrerequisitesOk /\
            (chain.worker \/ IsActionPendingOrRecentlyMined("ADD_WORKER")) ->
               Proceed(mem, [pass EXCEPT !.pc = "registerTx"])
         [] OTHER -> Send("ADD_WORKER", FALSE, mem, [pass EXCEPT !.pc = "registerFirst"], mem)
    /\ UNCHANGED budget

(* The gas of the registration is estimated unless the worker was only now *)
(* sent to the hub.                                                        *)
RegisterRelayServer ==
    /\ pass.pc \in {"registerFirst", "registerTx"}
    /\ Send("REGISTER_SERVER", pass.pc = "registerFirst", mem,
            [pass EXCEPT !.pc = "finish"], mem)
    /\ UNCHANGED budget

IsRegistered ==
    mem.staked /\ mem.stakeLocked /\ mem.hubAuthorized /\ mem.relayUrl = url

(* Mutant: everything up to the latest block counts as scanned. *)
ScannedUpToLatest == scanned' = Len(log)

SetLastScannedBlock == scanned' = pass.seen

(* The end of _handleChanges: transactions are marked as mined, the block  *)
(* is scanned, and a registered server is ready.  Its hub events belong to *)
(* ReputationManager, its balances to RelayServer.                         *)
FinishPass ==
    /\ pass.pc = "finish"
    /\ pass' = Idle
    /\ SetLastScannedBlock
    /\ store' = [i \in DOMAIN store |->
                   [store[i] EXCEPT !.state = IF @ = "mined" THEN "known" ELSE @]]
    /\ ready' = IsRegistered
    /\ mem' = IF IsRegistered /\ mem.checkBalances
              THEN [mem EXCEPT !.funded = chain.managerEth,
                               !.checkBalances = ~(chain.managerEth /\ chain.workerEth)]
              ELSE mem
    /\ UNCHANGED <<chain, log, newBlock, url, cli, budget>>

(* The process dies and is started again, perhaps with another url.  init  *)
(* looks back RescanDepth blocks, reads balance and stake, and may have to *)
(* authorize the hub; a start that throws is no start.                     *)
Restart ==
    /\ Trouble(1)
    /\ url' \in Urls
    /\ scanned' = Cardinality({i \in DOMAIN log : log[i].age >= RescanDepth})
    /\ mem' = [Started EXCEPT !.funded = chain.managerEth,
                              !.hubAuthorized = StakedOnHub,
                              !.ownerSet = chain.ownerSet,
                              !.stakeLocked = chain.staked /\ ~chain.unlocked,
                              !.staked = chain.staked, !.owner = chain.staked]
    /\ LET pending == \E i \in DOMAIN store :
              /\ store[i].action = "AUTHORIZE_HUB"
              /\ store[i].state # "known" \/ store[i].age <= RecentBlocks
       IN  IF StakeAccepted /\ ~chain.hub /\ ~pending
           THEN /\ chain.managerEth
                /\ store' = Append(store, [action |-> "AUTHORIZE_HUB", url |-> url',
                                          age |-> 0, state |-> "pending",
                                          short |-> FALSE])
           ELSE UNCHANGED store
    /\ pass' = Idle /\ ready' = FALSE /\ newBlock' = TRUE
    /\ UNCHANGED <<chain, log, cli>>

----------------------------------------------------------------------------
(* The owner: registerRelay of the command line, and direct calls of the   *)
(* StakeManager.  The command reads owner and stake once, before it waits; *)
(* it funds the manager up to the sum it was given, gas paid or not.       *)
Cli(pc) == cli' = [cli EXCEPT !.pc = pc]
ServerUnchanged == UNCHANGED <<ready, scanned, url>>

CliStart ==
    /\ cli.pc = "idle" /\ budget.attempts > 0 /\ ~ready
    /\ cli' = [pc |-> "fund", sawOwner |-> chain.ownerSet, sawStake |-> chain.staked]
    /\ budget' = [budget EXCEPT !.attempts = @ - 1]
    /\ UNCHANGED <<chain, log, store, mem, pass, ready, scanned, newBlock, url>>

CliFund ==
    /\ cli.pc = "fund"
    /\ Cli(IF cli.sawOwner THEN "stake" ELSE "waitOwner")
    /\ \/ /\ chain.managerEth
          /\ UNCHANGED <<chain, log, store, mem, pass, newBlock, budget>>
       \/ /\ Block([Older EXCEPT !.managerEth = TRUE], <<>>, FundedStore(ManagerActions))
          /\ Trouble(InPass)
    /\ ServerUnchanged

(* sleepCount polls for the owner and gives up in the end; the waitForRelay *)
(* that follows the authorization only reads.                              *)
CliWaits ==
    /\ \/ cli.pc = "waitOwner" /\ chain.ownerSet /\ Cli("stake")
       \/ cli.pc = "waitOwner" /\ ~chain.ownerSet /\ Cli("idle")
    /\ UNCHANGED <<chain, log, store, mem, pass, ready, scanned, newBlock, url, budget>>

CliStake ==
    /\ cli.pc = "stake"
    /\ Cli("authorize")
    /\ IF cli.sawStake
       THEN UNCHANGED <<chain, log, store, mem, pass, newBlock, budget>>
       ELSE Block([Older EXCEPT !.staked = TRUE], <<"StakeAdded">>, OlderStore) /\ Trouble(InPass)
    /\ ServerUnchanged

CliAuthorize ==
    /\ cli.pc = "authorize"
    /\ Cli("idle")
    /\ IF StakedOnHub
       THEN UNCHANGED <<chain, log, store, mem, pass, newBlock, budget>>
       ELSE Block([Older EXCEPT !.hub = TRUE], <<"HubAuthorized">>, OlderStore) /\ Trouble(InPass)
    /\ ServerUnchanged

UnauthorizeHubByOwner ==
    /\ chain.hub
    /\ Trouble(1) /\ ServerUnchanged /\ UNCHANGED cli
    /\ Block([Older EXCEPT !.hub = FALSE], <<"HubUnauthorized">>, OlderStore)

UnlockStake ==
    /\ chain.staked /\ ~chain.unlocked
    /\ Trouble(1) /\ ServerUnchanged /\ UNCHANGED cli
    /\ Block([Older EXCEPT !.unlocked = TRUE, !.left = UnstakeDelay],
             <<"StakeUnlocked">>, OlderStore)

WithdrawStake ==
    /\ chain.unlocked /\ Older.left <= 0
    /\ Trouble(InPass) /\ ServerUnchanged /\ UNCHANGED cli
    /\ Block([Older EXCEPT !.staked = FALSE, !.unlocked = FALSE],
             <<"StakeWithdrawn">>, OlderStore)

----------------------------------------------------------------------------
WorkerStep ==
    \/ StartPass \/ FetchEvents \/ SetOwnerInStakeManager \/ HandleEvent
    \/ ExtractDuePendingEvents \/ Sweep \/ RefreshRegistrarRelayInfo
    \/ AttemptRegistration \/ RegisterRelayServer \/ FinishPass

ChainStep == NextBlock \/ MineManager \/ MineWorker \/ Earn \/ MineRelayCall
OwnerStep ==
    \/ CliStart \/ CliFund \/ CliWaits \/ CliStake \/ CliAuthorize
    \/ UnauthorizeHubByOwner \/ UnlockStake \/ WithdrawStake

Next == WorkerStep \/ WorkerFails \/ Restart \/ ChainStep \/ OwnerStep

Spec == Init /\ [][Next]_vars

(* The worker's timer keeps running, blocks keep coming, and transactions  *)
(* that can pay for their gas are mined (TransactionManager boosts them);  *)
(* strongly, for MaxLag only in the model holds blocks back during a pass. *)
(* Nothing is assumed of the owner, who may stop anywhere.                 *)
FairSpec ==
    /\ Spec
    /\ WF_vars(WorkerStep) /\ WF_vars(NextBlock)
    /\ SF_vars(MineManager) /\ SF_vars(MineWorker)

----------------------------------------------------------------------------
(* The hub is not authorized, the worker not added and the server not      *)
(* registered again while the store holds an earlier such transaction that *)
(* is pending, whatever was restarted in between:                          *)
(* TxStoreManager.isActionPendingOrRecentlyMined.  The owner's setting is  *)
(* not among them: only the process remembers that it was sent             *)
(* (_isSetOwnerCalled of handlePastEvents), and a restarted one sends it   *)
(* again.                                                                  *)
AtMostOnePending ==
    \A action \in {"AUTHORIZE_HUB", "ADD_WORKER", "REGISTER_SERVER"} :
        Cardinality({i \in DOMAIN store : store[i].action = action
                                        /\ store[i].state = "pending"}) <= 1

(* Once the blocks that took the hub's authorization away are scanned, the *)
(* server knows, unless it was authorized again: RegistrationManager's     *)
(* isHubAuthorized follows the last of the events and reads.               *)
Unauthorized(i) ==
    /\ log[i].event = "HubUnauthorized"
    /\ \A j \in DOMAIN log : j > i => log[j].event # "HubAuthorized"
KnowsUnauthorized ==
    \A i \in DOMAIN log : i <= scanned /\ Unauthorized(i) => ~mem.hubAuthorized

(* The server sends the deposit to the owner only after a stake withdrawal *)
(* or once an unauthorization has taken effect: "handle HubUnauthorized    *)
(* only after the due time" in handlePastEvents.                           *)
SweepOnlyWhenDue ==
    [][\A i \in (Len(store) + 1)..Len(store') :
          store'[i].action = "DEPOSIT_WITHDRAWAL" =>
            \E j \in DOMAIN log :
                \/ log[j].event = "StakeWithdrawn"
                \/ (log[j].event = "HubUnauthorized" /\ log[j].left <= 0)]_vars


(* A stake withdrawal that a server which knows its owner is still to read *)
(* ends with the deposit withdrawn and the ether of worker and manager     *)
(* gone to the owner, unless a transfer counted on gas that another        *)
(* transaction was yet to pay, such as a relay call or the withdrawal of   *)
(* the deposit: _handleStakeWithdrawnEvent.  A manager without ether gets  *)
(* nothing done.                                                           *)
TransferIsShort(action) ==
    \E i \in DOMAIN store : /\ store[i].action = action
                            /\ store[i].state = "pending" /\ store[i].short
WithdrawalReturnsFunds ==
    LET withdrawn == /\ \E i \in (scanned + 1)..Len(log) : log[i].event = "StakeWithdrawn"
                     /\ mem.owner /\ chain.managerEth /\ budget.trouble = 0
                     /\ \A i \in DOMAIN store : store[i].state # "pending"
    IN  withdrawn ~> /\ ~chain.deposit
                     /\ ~chain.workerEth \/ TransferIsShort("WORKER_TRANSFER")
                     /\ ~chain.managerEth \/ TransferIsShort("MANAGER_TRANSFER")

(* An unauthorization the server holds back leads to a withdrawal of its   *)
(* deposit, if nothing throws or restarts: _handleHubUnauthorizedEvent.    *)
DelayedWithdrawalHappens ==
    (/\ mem.delayed # <<>> /\ mem.owner
     /\ budget.trouble = 0)
        ~> (~chain.deposit \/ ~chain.managerEth)
===========================================================================
