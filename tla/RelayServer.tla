---------------------------- MODULE RelayServer ----------------------------
(***************************************************************************)
(* A relay server serving requests while its worker runs                   *)
(* (relay/src/RelayServer.ts), with the accounts, mempool and blocks of    *)
(* the chain it reads.                                                     *)
(*                                                                         *)
(* Each HTTP request and the worker's pass is a process; a step is the     *)
(* code between two awaits whose results another process can change.       *)
(* Blocks carry at most one of the server's transactions and come one time *)
(* unit apart; the state holds ages (blocks since), which saturate.  The   *)
(* paymaster accepts a number of further calls, its quota, which stands    *)
(* for its deposit and for whatever its preRelayedCall reads.              *)
(***************************************************************************)
EXTENDS Integers, Sequences, FiniteSets, SequencesExt

CONSTANTS
    MaxRequests,        \* bound: relay requests, in the order of their arrival
    WorkerMin, WorkerTarget, ManagerMin, ManagerTarget, WithdrawToOwnerOn,
                        \* config: balances to keep
    TxCost, Charge,     \* ether a transaction costs, a relayed call earns
    InitialFunds,       \* what the accounts may hold at the start
    RequestMinValid,    \* config.requestMinValidSeconds
    AlertedDelay,       \* config.alertedDelaySeconds
    RecentBlocks,       \* config.recentActionAvoidRepeatDistanceBlocks
    RefreshTimeout,     \* config.refreshStateTimeoutBlocks
    RescanDepth,        \* blocks a started server looks back, 10 in init
    MaxLag,             \* bound: blocks between two passes
    MaxPending,         \* bound: unmined transactions of the manager when a
                        \* pass starts
    MaxTrouble          \* bound: exceptions, restarts, changes of the paymaster
                        \* and blocks mined while a pass or request runs, in all

Smaller(a, b) == IF a < b THEN a ELSE b
Larger(a, b) == IF a > b THEN a ELSE b

MaxTxAge == RecentBlocks + MaxLag + MaxTrouble + 1
MaxWait == Larger(MaxTxAge, RequestMinValid + 1)
MaxAlertAge == AlertedDelay + MaxLag + MaxTrouble + 1
MaxEventAge == MaxLag + MaxPending + MaxTrouble

Accounts == {"worker", "manager", "hub", "quota"}
ManagerActions == {"VALUE_TRANSFER", "DEPOSIT_WITHDRAWAL"}

(* validateConfigBalances (init of the server's configuration)             *)
ASSUME ServerAssumption ==
    /\ {MaxRequests, WorkerMin, ManagerMin, TxCost, Charge, RequestMinValid, AlertedDelay,
        RecentBlocks, RefreshTimeout, RescanDepth, MaxLag, MaxPending,
        MaxTrouble} \subseteq Nat
    /\ WorkerTarget \in Nat /\ WorkerTarget >= WorkerMin
    /\ ManagerTarget \in Nat /\ ManagerTarget >= ManagerMin
    /\ WithdrawToOwnerOn \in Nat /\ WithdrawToOwnerOn > ManagerTarget + WorkerTarget
    /\ InitialFunds \subseteq [Accounts -> Nat] /\ RescanDepth <= MaxLag

VARIABLES
    funds,      \* ether on chain; calls the paymaster still accepts
    outbox,     \* the manager's unmined transactions, in nonce order
    calls,      \* the worker's unmined relay calls, in nonce order
    rejections, \* ages of the blocks with a TransactionRejectedByPaymaster
    mined,      \* the manager's last mined transaction of each action, as the
                \* store knows it
    lag,        \* latest block - lastScannedBlock
    server,     \* what RelayServer remembers
    pass,       \* the worker's current pass
    req,        \* requests being served
    plan,       \* what each replenishServer under way is about to send
    trouble,    \* what the bound has left
    handled,    \* history: age of the newest rejection handled since the process
                \* started or the handling of one threw
    overlap,    \* history: two replenishServer decided on the same state
    unexplained \* history: a call was rejected that nothing interfered with

vars == <<funds, outbox, calls, rejections, mined, lag, server, pass, req, plan,
          trouble, handled, overlap, unexplained>>

Requests == 1..MaxRequests
Worker == 0
Actors == Requests \union {Worker}
NoPlan == [withdraw |-> 0, refill |-> 0, manager |-> 0]
Unsent == [pc |-> "unsent", left |-> 0, waited |-> 0, clean |-> FALSE]
Done == [Unsent EXCEPT !.pc = "done"]

TypeOK ==
    /\ funds \in [Accounts -> Nat]
    /\ outbox \in Seq([action : ManagerActions, to : {"worker", "manager", "owner"},
                       amount : Nat])
    /\ calls \in Seq(Requests)
    /\ rejections \subseteq 0..MaxEventAge
    /\ mined \in [ManagerActions -> [age : 0..MaxTxAge, noted : BOOLEAN]]
    /\ lag \in Nat
    /\ server \in [ready : BOOLEAN, alerted : BOOLEAN, alertAge : 0..MaxAlertAge,
                   refreshAge : 0..RefreshTimeout, checkBalances : BOOLEAN,
                   worker : Nat, manager : Nat]
    /\ pass \in [pc : {"idle", "balances", "changes", "plan", "fill", "finish"},
                 behind : Nat]
    /\ req \in [Requests -> [pc : {"unsent", "accepted", "viewed", "plan", "fill", "done"},
                             left : 0..RequestMinValid, waited : 0..MaxWait,
                             clean : BOOLEAN]]
    /\ plan \in [Actors -> [withdraw : Nat, refill : Nat, manager : Nat]]
    /\ trouble \in 0..MaxTrouble
    /\ handled \in 0..MaxAlertAge
    /\ overlap \in BOOLEAN /\ unexplained \in BOOLEAN

(* A constructed RelayServer after init                                    *)
Started == [ready |-> FALSE, alerted |-> FALSE, alertAge |-> MaxAlertAge,
            refreshAge |-> RefreshTimeout, checkBalances |-> TRUE,
            worker |-> 0, manager |-> 0]
IdlePass == [pc |-> "idle", behind |-> 0]

Init ==
    /\ funds \in InitialFunds
    /\ outbox = <<>> /\ calls = <<>> /\ rejections = {}
    /\ mined = [a \in ManagerActions |-> [age |-> MaxTxAge, noted |-> TRUE]]
    /\ lag = RescanDepth
    /\ server = Started /\ pass = IdlePass
    /\ req = [r \in Requests |-> Unsent]
    /\ plan = [a \in Actors |-> NoPlan]
    /\ trouble = MaxTrouble
    /\ handled = MaxAlertAge /\ overlap = FALSE /\ unexplained = FALSE

Trouble(n) == n <= trouble /\ trouble' = trouble - n

----------------------------------------------------------------------------
(* The chain *)

Serving(r) == req[r].pc \notin {"unsent", "done"}
InFlight(r) == r \in ToSet(calls)
Older(age, limit) == Smaller(age + 1, limit)

(* Bounds: a pass starts when the outbox has room and at most MaxLag       *)
(* blocks after the last one.  A block counts while something runs, unless *)
(* it makes room.                                                          *)
Room == Len(outbox) < MaxPending
Quiet == pass.pc = "idle" /\ ~\E r \in Requests : Serving(r)

AgeAll(makesRoom) ==
    /\ lag < MaxLag \/ pass.pc # "idle" \/ (makesRoom /\ ~Room)
    /\ lag' = lag + 1
    /\ Trouble(IF Quiet \/ (makesRoom /\ ~Room) THEN 0 ELSE 1)
    /\ server' = [server EXCEPT !.alertAge = Older(@, MaxAlertAge),
                                !.refreshAge = Older(@, RefreshTimeout)]
    /\ pass' = [pass EXCEPT !.behind = IF pass.pc = "idle" THEN 0 ELSE @ + 1]
    /\ handled' = Older(handled, MaxAlertAge)
    /\ UNCHANGED <<plan, overlap>>

OlderRequests == [r \in Requests |->
    IF Serving(r) THEN [req[r] EXCEPT !.waited = Older(@, MaxWait)]
    ELSE IF InFlight(r) THEN [req[r] EXCEPT !.waited = Older(@, RequestMinValid + 1)]
    ELSE req[r]]
OlderRejections == {a + 1 : a \in rejections} \intersect (0..MaxEventAge)
OlderMined == [a \in ManagerActions |-> [mined[a] EXCEPT !.age = Older(@, MaxTxAge)]]

EmptyBlock ==
    /\ AgeAll(FALSE)
    /\ req' = OlderRequests /\ rejections' = OlderRejections /\ mined' = OlderMined
    /\ UNCHANGED <<funds, outbox, calls, unexplained>>

(* A transfer to the worker, or RelayHub.withdraw, which reverts when the  *)
(* manager's deposit is too small.                                         *)
AfterManagerTx(tx) ==
    LET paid == [funds EXCEPT !["manager"] = @ - TxCost] IN
    IF tx.action = "VALUE_TRANSFER"
      THEN [paid EXCEPT !["manager"] = @ - tx.amount, !["worker"] = @ + tx.amount]
    ELSE IF tx.amount > funds["hub"] THEN paid
    ELSE IF tx.to = "owner" THEN [paid EXCEPT !["hub"] = @ - tx.amount]
    ELSE [paid EXCEPT !["hub"] = @ - tx.amount, !["manager"] = @ + tx.amount]

Affordable(tx) ==
    funds["manager"] >= TxCost + (IF tx.action = "VALUE_TRANSFER" THEN tx.amount ELSE 0)

MineManager ==
    /\ outbox # <<>> /\ Affordable(Head(outbox))
    /\ AgeAll(TRUE)
    /\ funds' = AfterManagerTx(Head(outbox))
    /\ outbox' = Tail(outbox)
    /\ mined' = [OlderMined EXCEPT ![Head(outbox).action] = [age |-> 0, noted |-> FALSE]]
    /\ req' = OlderRequests /\ rejections' = OlderRejections
    /\ UNCHANGED <<calls, unexplained>>

Expired(r) == req[r].waited > req[r].left

(* relayCall: the paymaster accepts and pays, or rejects and the worker    *)
(* has paid for the gas.                                                   *)
MineRelayCall ==
    /\ calls # <<>> /\ funds["worker"] >= TxCost
    /\ AgeAll(FALSE)
    /\ LET r == Head(calls)
           late == Older(req[r].waited, MaxWait)
           rejected == funds["quota"] = 0 \/ late > req[r].left
       IN /\ funds' = IF rejected THEN [funds EXCEPT !["worker"] = @ - TxCost]
                      ELSE [funds EXCEPT !["worker"] = @ - TxCost, !["hub"] = @ + Charge,
                                         !["quota"] = @ - 1]
          /\ rejections' = IF rejected THEN OlderRejections \union {0} ELSE OlderRejections
          /\ unexplained' = (unexplained \/ (/\ rejected /\ req[r].clean
                                             /\ late <= RequestMinValid))
          /\ req' = [OlderRequests EXCEPT ![r] = IF Serving(r) THEN @ ELSE Done]
    /\ calls' = Tail(calls) /\ mined' = OlderMined
    /\ UNCHANGED outbox

(* Requests of other relays, or the paymaster's owner, change what the     *)
(* paymaster accepts.                                                      *)
PaymasterChanges ==
    /\ Trouble(1)
    /\ \E q \in 0..funds["quota"] : funds' = [funds EXCEPT !["quota"] = q]
    /\ req' = [r \in Requests |-> [req[r] EXCEPT !.clean = FALSE]]
    /\ UNCHANGED <<outbox, calls, rejections, mined, lag, server, pass, plan, handled,
                   overlap, unexplained>>

(* Balances read on the pending block                                      *)
PendingTransfers ==
    FoldSeq(LAMBDA tx, sum : IF tx.action = "VALUE_TRANSFER" THEN sum + tx.amount ELSE sum,
            0, outbox)
PendingWorker ==
    Larger(0, funds["worker"] + PendingTransfers - TxCost * Len(calls))
(* Mutant: the view call runs on the latest block.                         *)
LatestQuota == funds["quota"]

PendingQuota ==
    funds["quota"] - Cardinality({r \in Requests : InFlight(r) /\ ~Expired(r)})

----------------------------------------------------------------------------
(* The store and sendTransaction *)

(* Mutant: pending transactions are not looked for.                        *)
IsActionRecentlyMined(action, behind) ==
    mined[action].noted /\ mined[action].age - behind <= RecentBlocks

IsActionPendingOrRecentlyMined(action, behind) ==
    \/ \E i \in DOMAIN outbox : outbox[i].action = action
    \/ ~mined[action].noted
    \/ mined[action].age - behind <= RecentBlocks

Transfer(amount) == [action |-> "VALUE_TRANSFER", to |-> "worker", amount |-> amount]
Withdrawal(to, amount) == [action |-> "DEPOSIT_WITHDRAWAL", to |-> to, amount |-> amount]

(* estimateGas and validateBalance, on the latest block; the balance is    *)
(* compared with the cost of the gas alone.                                *)
SendSucceeds(tx) ==
    /\ funds["manager"] >= TxCost
    /\ tx.amount <= funds[IF tx.action = "VALUE_TRANSFER" THEN "manager" ELSE "hub"]

----------------------------------------------------------------------------
(* replenishServer: what it decides from the balances it reads, then what  *)
(* it sends                                                                *)

(* Mutant: a worker is satisfied with what makes the server ready. *)
WorkerSatisfiedWithHalf == server.worker >= WorkerMin \div 2

(* workerBalanceRequired.isSatisfied                                       *)
WorkerSatisfied == server.worker >= WorkerMin

MustReplenishWorker(behind) ==
    ~WorkerSatisfied /\ ~IsActionPendingOrRecentlyMined("VALUE_TRANSFER", behind)

MustReplenishManager(behind) ==
    /\ server.manager < ManagerMin
    /\ ~IsActionPendingOrRecentlyMined("DEPOSIT_WITHDRAWAL", behind)

WorkerReplenishAmount == WorkerTarget - server.worker

(* The second reason does not ask for a withdrawal that is pending.        *)
MustWithdrawHubDeposit(behind) ==
    \/ MustReplenishManager(behind) /\ funds["hub"] >= ManagerTarget - server.manager
    \/ /\ MustReplenishWorker(behind)
       /\ server.manager - ManagerMin < WorkerReplenishAmount
       /\ funds["hub"] + server.manager - ManagerMin >= WorkerReplenishAmount

Decision(behind) ==
    [withdraw |-> IF MustWithdrawHubDeposit(behind) THEN funds["hub"] ELSE 0,
     refill |-> IF MustReplenishWorker(behind) THEN WorkerReplenishAmount ELSE 0,
     manager |-> server.manager]

Decide(a, behind) ==
    LET d == Decision(behind) IN
    /\ plan' = [plan EXCEPT ![a] = IF d.withdraw + d.refill = 0 THEN NoPlan ELSE d]
    /\ overlap' = (overlap \/ \E b \in Actors \ {a} : NoPlan \notin {plan[b], plan'[a]})

(* _withdrawHubDeposit, refreshBalance and _replenishWorker, up to the     *)
(* first send that throws                                                  *)
Managed(a) == IF plan[a].withdraw > 0 THEN funds["manager"] ELSE plan[a].manager
Outgoing(a) ==
    (IF plan[a].withdraw > 0 THEN <<Withdrawal("manager", plan[a].withdraw)>> ELSE <<>>)
 \o (IF plan[a].refill > 0 /\ plan[a].refill < Managed(a) - ManagerMin
        THEN <<Transfer(plan[a].refill)>> ELSE <<>>)
ReplenishSucceeds(a) == \A i \in DOMAIN Outgoing(a) : SendSucceeds(Outgoing(a)[i])
Sent(a) ==
    LET n == CHOOSE n \in 0..Len(Outgoing(a)) :
               /\ \A i \in 1..n : SendSucceeds(Outgoing(a)[i])
               /\ n < Len(Outgoing(a)) => ~SendSucceeds(Outgoing(a)[n + 1])
    IN SubSeq(Outgoing(a), 1, n)

Replenish(a, isReady) ==
    /\ outbox' = outbox \o Sent(a)
    /\ server' = [server EXCEPT !.ready = isReady,
                                !.checkBalances = @ \/ Sent(a) # <<>>,
                                !.manager = IF plan[a].withdraw > 0 /\ Sent(a) # <<>>
                                            THEN funds["manager"] ELSE @]
    /\ plan' = [plan EXCEPT ![a] = NoPlan]

----------------------------------------------------------------------------
(* createRelayTransaction *)

(* validateInput: what it refuses for hub, worker, fees or lists leaves no *)
(* trace, and a request that lasts longer lasts long enough.               *)
ValidateInput(left) == left >= RequestMinValid

(* isReady and validateInput; a request that is refused changes nothing.   *)
Request(r) ==
    /\ req[r].pc = "unsent" /\ (r > 1 => req[r - 1].pc # "unsent")
    /\ server.ready
    /\ \E left \in 0..RequestMinValid :
         /\ ValidateInput(left)
         /\ req' = [req EXCEPT ![r] = [Unsent EXCEPT !.pc = "accepted", !.left = left]]
    /\ UNCHANGED <<funds, outbox, calls, rejections, mined, lag, server, pass, plan,
                   trouble, handled, overlap, unexplained>>

Answered(r) == [req EXCEPT ![r] = IF InFlight(r) THEN [@ EXCEPT !.pc = "done"]
                                  ELSE Done]

(* validatePaymasterGasAndDataLimits asks for the paymaster's balance on   *)
(* the latest block, validateViewCallSucceeds for its verdict on the       *)
(* pending one.                                                            *)
PaymasterCanPay == funds["quota"] > 0
ViewCallSucceeds(r) == PendingQuota > 0 /\ ~Expired(r)

ViewCall(r) ==
    /\ req[r].pc = "accepted"
    /\ req' = IF PaymasterCanPay /\ ViewCallSucceeds(r)
               THEN [req EXCEPT ![r].pc = "viewed", ![r].clean = TRUE]
               ELSE Answered(r)
    /\ UNCHANGED <<funds, outbox, calls, rejections, mined, lag, server, pass, plan,
                   trouble, handled, overlap, unexplained>>

(* A relay call sent meanwhile makes the verdict for another request stale. *)
Stale(r) == [s \in Requests |-> IF s # r /\ req[s].pc = "viewed"
                                THEN [req[s] EXCEPT !.clean = FALSE] ELSE req[s]]

SendRelayCall(r) ==
    /\ req[r].pc = "viewed"
    /\ IF funds["worker"] >= TxCost
         THEN /\ calls' = Append(calls, r)
              /\ server' = [server EXCEPT !.checkBalances = TRUE]
              /\ req' = [Stale(r) EXCEPT ![r].pc = "plan"]
         ELSE /\ req' = Answered(r)
              /\ UNCHANGED <<calls, server>>
    /\ UNCHANGED <<funds, outbox, rejections, mined, lag, pass, plan, trouble, handled,
                   overlap, unexplained>>

RequestDecides(r) ==
    /\ req[r].pc = "plan" /\ Decide(r, req[r].waited)
    /\ req' = IF plan'[r] = NoPlan THEN Answered(r) ELSE [req EXCEPT ![r].pc = "fill"]
    /\ UNCHANGED <<funds, outbox, calls, rejections, mined, lag, server, pass, trouble,
                   handled, unexplained>>

(* The answer to the client, or the error of a replenishServer that threw  *)
RequestReplenishes(r) ==
    /\ req[r].pc = "fill" /\ Replenish(r, server.ready)
    /\ req' = Answered(r)
    /\ UNCHANGED <<funds, calls, rejections, mined, lag, pass, trouble, handled, overlap,
                   unexplained>>

RequestThrows(r) ==
    /\ Serving(r) /\ Trouble(1)
    /\ req' = Answered(r) /\ plan' = [plan EXCEPT ![r] = NoPlan]
    /\ UNCHANGED <<funds, outbox, calls, rejections, mined, lag, server, pass, handled,
                   overlap, unexplained>>

RequestStep(r) ==
    ViewCall(r) \/ SendRelayCall(r) \/ RequestDecides(r) \/ RequestReplenishes(r)

----------------------------------------------------------------------------
(* intervalHandler and _worker *)

(* withdrawToOwnerIfNeeded, which catches what its send throws             *)
OwnerWithdrawal ==
    LET reserve == ManagerTarget + WorkerTarget
        tx == Withdrawal("owner", funds["hub"] - reserve)
    IN IF /\ server.ready /\ funds["hub"] >= WithdrawToOwnerOn + reserve
          /\ tx.amount >= TxCost /\ SendSucceeds(tx)
       THEN <<tx>> ELSE <<>>

(* _shouldRefreshState                                                     *)
StartPass ==
    /\ pass.pc = "idle" /\ lag > 0
    /\ server.refreshAge >= RefreshTimeout \/ ~server.ready
    /\ Room
    /\ outbox' = outbox \o OwnerWithdrawal
    /\ server' = [server EXCEPT !.refreshAge = 0,
                                !.checkBalances = @ \/ OwnerWithdrawal # <<>>]
    /\ pass' = [IdlePass EXCEPT !.pc = "balances"]
    /\ UNCHANGED <<funds, calls, rejections, mined, lag, req, plan, trouble, handled,
                   overlap, unexplained>>

(* _refreshAndCheckBalances; the manager is read on the latest block.      *)
ManagerReady == ~server.checkBalances \/ funds["manager"] >= ManagerMin \div 2
WorkerReady == ~server.checkBalances \/ PendingWorker >= WorkerMin \div 2

Refreshed ==
    IF ~server.checkBalances THEN server
    ELSE [server EXCEPT !.manager = funds["manager"], !.worker = PendingWorker,
                        !.ready = @ /\ ManagerReady /\ WorkerReady,
                        !.checkBalances = \/ funds["manager"] < ManagerMin
                                          \/ PendingWorker < WorkerMin]

CheckBalances ==
    /\ pass.pc = "balances"
    /\ server' = Refreshed
    /\ pass' = IF ManagerReady THEN [pass EXCEPT !.pc = "changes"] ELSE IdlePass
    /\ UNCHANGED <<funds, outbox, calls, rejections, mined, lag, req, plan, trouble,
                   handled, overlap, unexplained>>

AllNoted == [a \in ManagerActions |-> [mined[a] EXCEPT !.noted = TRUE]]

(* getAllHubEventsSinceLastScan, whose range ends at the latest block      *)
EventsSinceLastScan == {a \in rejections : a < lag}

(* Mutant: a later rejection does not extend the alert.                    *)
AlertedOnce(age) ==
    [server EXCEPT !.alerted = TRUE,
                   !.alertAge = IF server.alerted THEN @ ELSE Smaller(age, MaxAlertAge)]

(* _handleTransactionRejectedByPaymasterEvent                              *)
AlertedBy(age) ==
    [server EXCEPT !.alerted = TRUE, !.alertAge = Smaller(age, MaxAlertAge)]

(* handlePastHubEvents, oldest event first: the newest one is the last.    *)
HandlePastHubEvents(events) ==
    \/ events = {} /\ UNCHANGED <<server, handled>>
    \/ \E newest \in events :
         /\ \A e \in events : newest <= e
         /\ server' = AlertedBy(newest)
         /\ handled' = Smaller(handled, newest)

(* _handleChanges up to handlePastHubEvents.  Nobody else reads the alert, *)
(* so handling the events that were read is part of the same step.         *)
HandleChanges ==
    /\ pass.pc = "changes"
    /\ mined' = AllNoted /\ lag' = pass.behind
    /\ HandlePastHubEvents(EventsSinceLastScan)
    /\ pass' = [pass EXCEPT !.pc = "plan"]
    /\ UNCHANGED <<funds, outbox, calls, rejections, req, plan, trouble, overlap,
                   unexplained>>

(* isRegistered is false: the events just read are not handled.            *)
FindUnregistered ==
    /\ pass.pc = "changes" /\ Trouble(1)
    /\ mined' = AllNoted /\ lag' = pass.behind
    /\ server' = [server EXCEPT !.ready = FALSE] /\ pass' = IdlePass
    /\ UNCHANGED <<funds, outbox, calls, rejections, req, plan, handled, overlap,
                   unexplained>>

(* The alert is raised before getBlock(eventBlockNumber) can throw, and    *)
(* keeps the time of the event before, which may be older than what an     *)
(* earlier pass has handled; by then lastScannedBlock is set.              *)
HandleEventsThrows ==
    /\ pass.pc = "changes" /\ Trouble(1)
    /\ mined' = AllNoted /\ lag' = pass.behind
    /\ \E failed \in EventsSinceLastScan :
         LET done == {e \in EventsSinceLastScan : e > failed} IN
         \/ done = {} /\ server' = [server EXCEPT !.alerted = TRUE, !.ready = FALSE]
         \/ \E last \in done :
              /\ \A e \in done : last <= e
              /\ server' = [AlertedBy(last) EXCEPT !.ready = FALSE]
    /\ handled' = MaxAlertAge
    /\ pass' = IdlePass
    /\ UNCHANGED <<funds, outbox, calls, rejections, req, plan, overlap, unexplained>>

PassDecides ==
    /\ pass.pc = "plan" /\ Decide(Worker, pass.behind)
    /\ pass' = [pass EXCEPT !.pc = IF plan'[Worker] = NoPlan THEN "finish" ELSE "fill"]
    /\ UNCHANGED <<funds, outbox, calls, rejections, mined, lag, server, req, trouble,
                   handled, unexplained>>

PassReplenishes ==
    /\ pass.pc = "fill"
    /\ Replenish(Worker, server.ready /\ ReplenishSucceeds(Worker))
    /\ pass' = IF ReplenishSucceeds(Worker) THEN [pass EXCEPT !.pc = "finish"]
               ELSE IdlePass
    /\ UNCHANGED <<funds, calls, rejections, mined, lag, req, trouble, handled, overlap,
                   unexplained>>

(* The end of _handleChanges                                               *)
AlertOver == server.alertAge - pass.behind > AlertedDelay
FinishPass ==
    /\ pass.pc = "finish"
    /\ server' = [Refreshed EXCEPT !.ready = TRUE, !.alerted = @ /\ ~AlertOver]
    /\ pass' = IdlePass
    /\ UNCHANGED <<funds, outbox, calls, rejections, mined, lag, req, plan, trouble,
                   handled, overlap, unexplained>>

(* intervalHandler catches whatever a pass throws.                         *)
PassThrows ==
    /\ pass.pc # "idle" /\ Trouble(1)
    /\ mined' \in (IF pass.pc = "changes" THEN {mined, AllNoted} ELSE {mined})
    /\ server' = [server EXCEPT !.ready = FALSE]
    /\ pass' = IdlePass /\ plan' = [plan EXCEPT ![Worker] = NoPlan]
    /\ UNCHANGED <<funds, outbox, calls, rejections, lag, req, handled, overlap,
                   unexplained>>

PassStep ==
    \/ StartPass \/ CheckBalances \/ HandleChanges
    \/ PassDecides \/ PassReplenishes \/ FinishPass

(* A new process on the same store                                         *)
Restart ==
    /\ Trouble(1)
    /\ server' = Started /\ pass' = IdlePass /\ lag' = RescanDepth
    /\ req' = [r \in Requests |-> IF Serving(r) THEN Answered(r)[r] ELSE req[r]]
    /\ plan' = [a \in Actors |-> NoPlan] /\ handled' = MaxAlertAge
    /\ UNCHANGED <<funds, outbox, calls, rejections, mined, overlap, unexplained>>

----------------------------------------------------------------------------
NextBlock == EmptyBlock \/ MineManager \/ MineRelayCall

Next ==
    \/ NextBlock \/ PaymasterChanges
    \/ \E r \in Requests : Request(r) \/ RequestStep(r) \/ RequestThrows(r)
    \/ PassStep \/ FindUnregistered \/ HandleEventsThrows \/ PassThrows \/ Restart

Spec == Init /\ [][Next]_vars

(* The interval timer and started requests go on, blocks come, and the     *)
(* miners take an affordable transaction sooner or later.                  *)
FairSpec ==
    /\ Spec
    /\ WF_vars(PassStep) /\ \A r \in Requests : WF_vars(RequestStep(r))
    /\ WF_vars(NextBlock) /\ SF_vars(MineManager) /\ SF_vars(MineRelayCall)

----------------------------------------------------------------------------
(* A relay call is only rejected on chain, at the worker's expense, when   *)
(* another call was sent or the paymaster changed after the view call      *)
(* (validateViewCallSucceeds, on the pending block), or when it waited     *)
(* longer than the validity validateInput asked for.                       *)
LossExplained == ~unexplained

(* While not alerted, the newest rejection handled since the process       *)
(* started, or since handling one last threw, is longer ago than           *)
(* alertedDelaySeconds, though events are handled in blocks of their own   *)
(* and again (_handleTransactionRejectedByPaymasterEvent, _handleChanges). *)
AlertHolds == server.alerted \/ handled > AlertedDelay

(* Only overlapping runs of replenishServer send the worker two transfers  *)
(* (isActionPendingOrRecentlyMined, shouldRefreshBalances).                *)
NoDoubleRefill ==
    ~overlap => Cardinality({i \in DOMAIN outbox : outbox[i].action = "VALUE_TRANSFER"}) <= 1

(* A worker below its minimum is refilled while the manager and its        *)
(* deposit hold enough (replenishServer).                                  *)
Enough ==
    /\ funds["manager"] >= ManagerMin \div 2 + 2 * TxCost
    /\ funds["manager"] + funds["hub"] > ManagerMin + WorkerTarget + 2 * TxCost
WorkerRefilled ==
    funds["worker"] < WorkerMin /\ Enough ~> funds["worker"] >= WorkerMin \/ ~Enough
============================================================================
