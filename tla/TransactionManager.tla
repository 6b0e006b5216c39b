------------------------- MODULE TransactionManager -------------------------
(***************************************************************************)
(* The relay server's transaction pipeline                                 *)
(* (packages/relay/src/TransactionManager.ts, TxStoreManager.ts, and the   *)
(* worker steps of RelayServer.ts that drive it) against an Ethereum node. *)
(*                                                                         *)
(* Every sendTransaction call is a process r \in Requests whose steps are  *)
(* the code between two awaits.  The server's worker loop is one more      *)
(* process: it fills in mined blocks, prunes the store and boosts stuck    *)
(* transactions, for the manager's key and then for the worker's.  The     *)
(* store is on disk; everything else of the server is lost in a crash.     *)
(*                                                                         *)
(* A transaction is identified by what its hash depends on: signer, nonce, *)
(* content (destination, value, gas limit and data) and fee, where the fee *)
(* stands for maxFeePerGas and maxPriorityFeePerGas together.  Timeouts    *)
(* (pendingTransactionTimeoutSeconds, dbPruneTxAfterBlocks and -Seconds)   *)
(* elapse nondeterministically.                                            *)
(***************************************************************************)
EXTENDS Integers, FiniteSets, Sequences

CONSTANTS
    Requests,           \* calls of sendTransaction, each with its content
    Manager, Worker,    \* the two signing keys of a server
    SignerOf,           \* the key that signs each request
    Free,               \* nobody holds nonceMutex
    SendFees,           \* fees of newly sent transactions
    BaseFees,           \* base fees the node reports while boosting
    MaxMaxFee,          \* config.maxMaxFeePerGas
    RetryNum, RetryDen, \* config.retryGasPriceFactor as a fraction
    MaxCrashes          \* bound: crashes explored

Signers == {Manager, Worker}

ASSUME SignerAssumption ==
    /\ Manager # Worker
    /\ SignerOf \in [Requests -> Signers]
    /\ Free \notin Requests

ASSUME FeeAssumption ==
    /\ SendFees \subseteq Nat /\ BaseFees \subseteq Nat
    /\ MaxMaxFee \in Nat /\ RetryNum \in Nat /\ RetryDen \in Nat \ {0}
    /\ MaxCrashes \in Nat

VARIABLES
    nonces,         \* this.nonces, per signer
    mutex,          \* the holder of nonceMutex
    pc,             \* where each sendTransaction call is
    txNonce,        \* the nonce each call has been given
    txFee,          \* the fee each call was made with
    txstore,        \* TxStoreManager: the stored transactions, on disk
    wpc,            \* where the worker loop is
    wsigner,        \* the key being boosted
    wnonce,         \* the account nonce read at the start of boosting
    wtodo,          \* the stored transactions the current pass iterates over
    wfee,           \* newMaxFee of the current boosting pass
    network,        \* transactions that have reached the network
    mined,          \* transactions included in the chain
    accountNonce,   \* the chain's transaction count of each signer
    crashes,        \* crashes so far
    log             \* history: the contents stored for nonces 0, 1, ...

sendVars   == <<nonces, mutex, pc, txNonce, txFee>>
workerVars == <<wpc, wsigner, wnonce, wtodo, wfee>>
chainVars  == <<network, mined, accountNonce>>
vars == <<nonces, mutex, pc, txNonce, txFee, txstore, wpc, wsigner, wnonce,
          wtodo, wfee, network, mined, accountNonce, crashes, log>>

Tx == [signer : Signers, nonce : Nat, content : Requests, fee : Nat]
StoredTx == [signer : Signers, nonce : Nat, content : Requests, fee : Nat,
             mined : BOOLEAN]

(* Every variable has the type of the field or table it models.            *)
TypeOK ==
    /\ nonces \in [Signers -> Nat]
    /\ mutex \in Requests \union {Free}
    /\ pc \in [Requests -> {"idle", "polling", "putting", "sending", "done"}]
    /\ txNonce \in [Requests -> Nat]
    /\ txFee \in [Requests -> Nat]
    /\ txstore \subseteq StoredTx
    /\ wpc \in {"idle", "fill", "count", "load", "resend", "rebroadcast"}
    /\ wsigner \in Signers
    /\ wnonce \in Nat
    /\ wtodo \subseteq StoredTx
    /\ wfee \in Nat
    /\ network \subseteq Tx
    /\ mined \subseteq Tx
    /\ accountNonce \in [Signers -> Nat]
    /\ crashes \in Nat
    /\ log \in [Signers -> Seq(Requests)]

Init ==
    /\ nonces = [s \in Signers |-> 0]
    /\ mutex = Free
    /\ pc = [r \in Requests |-> "idle"]
    /\ txNonce = [r \in Requests |-> 0]
    /\ txFee = [r \in Requests |-> 0]
    /\ txstore = {}
    /\ wpc = "idle" /\ wsigner = Manager /\ wnonce = 0 /\ wtodo = {} /\ wfee = 0
    /\ network = {} /\ mined = {}
    /\ accountNonce = [s \in Signers |-> 0]
    /\ crashes = 0
    /\ log = [s \in Signers |-> << >>]

----------------------------------------------------------------------------
TxOf(e) == [signer |-> e.signer, nonce |-> e.nonce, content |-> e.content,
            fee |-> e.fee]

SameSlot(a, b) == a.signer = b.signer /\ a.nonce = b.nonce

(* The unique index on nonceSigner. *)
IsStored(s, n) == \E e \in txstore : e.signer = s /\ e.nonce = n

(* putTx with updateExisting: the entry of the same nonce is overwritten.  *)
Overwritten(e) == {f \in txstore : ~SameSlot(f, e)} \union {e}

(* getTransactionCount(signer, 'pending'): the node may have evicted any   *)
(* transaction it was sent, so it counts some run of known nonces that     *)
(* starts at the account's.                                                *)
PendingCounts(s) ==
    {p \in accountNonce[s]..(accountNonce[s] + Cardinality(network)) :
        \A k \in accountNonce[s]..(p - 1) :
            \E x \in network : x.signer = s /\ x.nonce = k}

(* broadcastTransaction: the node's answer and whether the transaction got *)
(* through are independent, except that an accepted one did and that a     *)
(* node refuses a nonce it has already executed.                           *)
Broadcast(tx, reached, ok) ==
    /\ ok => reached /\ tx.nonce >= accountNonce[tx.signer]
    /\ network' = IF reached THEN network \union {tx} ELSE network
    /\ UNCHANGED <<mined, accountNonce>>

(* _resolveNewGasPrice: Math.round of the boosted fee, raised to the       *)
(* network's minimum and then cut to the configured maximum.               *)
ResolveNewGasPrice(oldFee, minFee) ==
    LET boosted == (2 * oldFee * RetryNum + RetryDen) \div (2 * RetryDen)
        raised  == IF boosted < minFee THEN minFee ELSE boosted
    IN  IF raised > MaxMaxFee THEN MaxMaxFee ELSE raised

----------------------------------------------------------------------------
(* sendTransaction.  Gas estimation and validateBalance come before the    *)
(* mutex and change nothing when they throw.                               *)

AcquireMutex(r) ==
    /\ pc[r] = "idle"
    /\ mutex = Free
    /\ mutex' = r
    /\ pc' = [pc EXCEPT ![r] = "polling"]
    /\ UNCHANGED <<nonces, txNonce, txFee, txstore, workerVars, chainVars, crashes, log>>

(* pollNonce, signing and nonces++ : no await between the node's answer    *)
(* and the call of putTx.                                                  *)
PollNonce(r, pending, fee) ==
    LET s == SignerOf[r]
        n == IF pending > nonces[s] THEN pending ELSE nonces[s]
    IN  /\ pc[r] = "polling"
        /\ txNonce' = [txNonce EXCEPT ![r] = n]
        /\ txFee' = [txFee EXCEPT ![r] = fee]
        /\ nonces' = [nonces EXCEPT ![s] = n + 1]
        /\ pc' = [pc EXCEPT ![r] = "putting"]
        /\ UNCHANGED <<mutex, txstore, workerVars, chainVars, crashes, log>>

(* validateMaxNonce, at every relay request: pollNonce of the worker's key *)
(* without nonceMutex, so also between another call's poll and its putTx.  *)
(* Only a request's limit is compared with what it returns.  The answer    *)
(* may be older than the chain is by now.                                  *)
ValidateMaxNonce(pending) ==
    /\ pending > nonces[Worker]
    /\ nonces' = [nonces EXCEPT ![Worker] = pending]
    /\ UNCHANGED <<mutex, pc, txNonce, txFee, txstore, workerVars, chainVars, crashes, log>>

(* Mutant: the nonce is taken before the node has answered. *)
PollFailsTakesNonce(r) ==
    /\ pc[r] = "polling"
    /\ mutex' = Free
    /\ nonces' = [nonces EXCEPT ![SignerOf[r]] = @ + 1]
    /\ pc' = [pc EXCEPT ![r] = "done"]
    /\ UNCHANGED <<txNonce, txFee, txstore, workerVars, chainVars, crashes, log>>

(* Mutant: no finally clause. *)
PollFailsHoldsMutex(r) ==
    /\ pc[r] = "polling"
    /\ pc' = [pc EXCEPT ![r] = "done"]
    /\ UNCHANGED <<nonces, mutex, txNonce, txFee, txstore, workerVars, chainVars, crashes, log>>

(* The node does not answer: the finally clause releases the mutex. *)
PollFails(r) ==
    /\ pc[r] = "polling"
    /\ mutex' = Free
    /\ pc' = [pc EXCEPT ![r] = "done"]
    /\ UNCHANGED <<nonces, txNonce, txFee, txstore, workerVars, chainVars, crashes, log>>

(* Mutant: the exception of the insert is swallowed. *)
PutTxSwallowed(r) ==
    LET s == SignerOf[r]
        e == [signer |-> s, nonce |-> txNonce[r], content |-> r,
              fee |-> txFee[r], mined |-> FALSE]
    IN  /\ pc[r] = "putting"
        /\ IF IsStored(s, txNonce[r])
           THEN UNCHANGED <<txstore, log>>
           ELSE /\ txstore' = txstore \union {e}
                /\ log' = [log EXCEPT ![s] = Append(@, r)]
        /\ pc' = [pc EXCEPT ![r] = "sending"]
        /\ mutex' = Free
        /\ UNCHANGED <<nonces, txNonce, txFee, workerVars, chainVars, crashes>>

(* Mutant: putTx with updateExisting. *)
PutTxOverwrites(r) ==
    /\ pc[r] = "putting"
    /\ txstore' = Overwritten([signer |-> SignerOf[r], nonce |-> txNonce[r],
                               content |-> r, fee |-> txFee[r], mined |-> FALSE])
    /\ pc' = [pc EXCEPT ![r] = "sending"]
    /\ mutex' = Free
    /\ log' = [log EXCEPT ![SignerOf[r]] = Append(@, r)]
    /\ UNCHANGED <<nonces, txNonce, txFee, workerVars, chainVars, crashes>>

(* putTx without updateExisting: the insert throws when the nonce is taken, *)
(* and the signed transaction is dropped with the exception.               *)
PutTx(r) ==
    LET s == SignerOf[r]
        e == [signer |-> s, nonce |-> txNonce[r], content |-> r,
              fee |-> txFee[r], mined |-> FALSE]
    IN  /\ pc[r] = "putting"
        /\ IF IsStored(s, txNonce[r])
           THEN /\ pc' = [pc EXCEPT ![r] = "done"]
                /\ UNCHANGED <<txstore, log>>
           ELSE /\ pc' = [pc EXCEPT ![r] = "sending"]
                /\ txstore' = txstore \union {e}
                /\ log' = [log EXCEPT ![s] = Append(@, r)]
        /\ mutex' = Free
        /\ UNCHANGED <<nonces, txNonce, txFee, workerVars, chainVars, crashes>>

(* After the mutex is released; the caller sees the outcome, no state does. *)
SendTx(r, reached, ok) ==
    /\ pc[r] = "sending"
    /\ Broadcast([signer |-> SignerOf[r], nonce |-> txNonce[r], content |-> r,
                  fee |-> txFee[r]], reached, ok)
    /\ pc' = [pc EXCEPT ![r] = "done"]
    /\ UNCHANGED <<nonces, mutex, txNonce, txFee, txstore, workerVars, crashes, log>>

----------------------------------------------------------------------------
(* The worker loop.                                                        *)

(* fillMinedBlockDetailsForTransactions, L349: the entries to check. *)
StartFill ==
    /\ wpc = "idle"
    /\ wpc' = "fill"
    /\ wtodo' = {e \in txstore : ~e.mined}
    /\ UNCHANGED <<sendVars, txstore, wsigner, wnonce, wfee, chainVars, crashes, log>>

(* Mutant: an executed nonce is taken for a mined transaction. *)
FillMinedByNonce(e) ==
    /\ wpc = "fill"
    /\ \A f \in wtodo : e.nonce <= f.nonce
    /\ wtodo' = wtodo \ {e}
    /\ txstore' = IF e.nonce < accountNonce[e.signer]
                  THEN Overwritten([e EXCEPT !.mined = TRUE])
                  ELSE txstore
    /\ UNCHANGED <<sendVars, wpc, wsigner, wnonce, wfee, chainVars, crashes, log>>

(* One iteration: the receipt is looked up by the stored hash. *)
FillMined(e) ==
    /\ wpc = "fill"
    /\ \A f \in wtodo : e.nonce <= f.nonce
    /\ wtodo' = wtodo \ {e}
    /\ txstore' = IF TxOf(e) \in mined
                  THEN Overwritten([e EXCEPT !.mined = TRUE])
                  ELSE txstore
    /\ UNCHANGED <<sendVars, wpc, wsigner, wnonce, wfee, chainVars, crashes, log>>

(* removeArchivedTransactions: some of the transactions marked as mined    *)
(* are old enough.  No transaction gets that old while one sendTransaction *)
(* call is between pollNonce and putTx on its nonce (PruneWindow).         *)
PruneWindow(e) ==
    \A r \in Requests :
        ~(pc[r] = "putting" /\ SignerOf[r] = e.signer /\ txNonce[r] = e.nonce)

RemoveArchivedTransactions(old) ==
    /\ wpc = "fill"
    /\ wtodo = {}
    /\ \A e \in old : e.mined /\ PruneWindow(e)
    /\ txstore' = txstore \ old
    /\ wpc' = "count"
    /\ wsigner' = Manager
    /\ UNCHANGED <<sendVars, wnonce, wtodo, wfee, chainVars, crashes, log>>

(* boostUnderpricedPendingTransactionsForSigner, L391: 'latest' count. *)
BoostCount ==
    /\ wpc = "count"
    /\ wnonce' = accountNonce[wsigner]
    /\ wpc' = "load"
    /\ UNCHANGED <<sendVars, txstore, wsigner, wtodo, wfee, chainVars, crashes, log>>

(* Mutant: the range starts after the account's nonce. *)
PendingTxsAfter == {e \in txstore : e.signer = wsigner /\ e.nonce > wnonce}

PendingTxs == {e \in txstore : e.signer = wsigner /\ e.nonce >= wnonce}

(* The manager's key is boosted first, then the worker's. *)
NextSigner ==
    /\ wpc' = IF wsigner = Manager THEN "count" ELSE "idle"
    /\ wsigner' = IF wsigner = Manager THEN Worker ELSE Manager

(* L394-L426: nothing to do unless the oldest transaction is the one the   *)
(* chain waits for and has timed out; a missing one aborts the worker.     *)
BoostLoad(elapsed, baseFee) ==
    /\ wpc = "load"
    /\ IF PendingTxs # {} /\ ~\E e \in PendingTxs : e.nonce = wnonce
       THEN wpc' = "idle" /\ wsigner' = Manager /\ UNCHANGED <<wtodo, wfee>>
       ELSE IF PendingTxs = {} \/ ~elapsed
       THEN NextSigner /\ UNCHANGED <<wtodo, wfee>>
       ELSE \E oldest \in PendingTxs :
              /\ oldest.nonce = wnonce
              /\ wfee' = ResolveNewGasPrice(oldest.fee, baseFee)
              /\ wtodo' = PendingTxs
              /\ wpc' = "resend"
              /\ UNCHANGED wsigner
    /\ UNCHANGED <<sendVars, txstore, wnonce, chainVars, crashes, log>>

Lowest(e) == e \in wtodo /\ \A f \in wtodo : e.nonce <= f.nonce

(* resendTransaction up to its store update: the boosted, or the same, fee. *)
ResendFee(e) == IF e.fee < wfee THEN wfee ELSE e.fee

ResendTransaction(e) ==
    /\ wpc = "resend"
    /\ Lowest(e)
    /\ txstore' = Overwritten([e EXCEPT !.fee = ResendFee(e)])
    /\ wpc' = "rebroadcast"
    /\ UNCHANGED <<sendVars, wsigner, wnonce, wtodo, wfee, chainVars, crashes, log>>

(* What follows one iteration.  A failure to boost an underpriced          *)
(* transaction ends the worker's pass; a failure to rebroadcast one that   *)
(* is priced well is only logged.                                          *)
AfterResend(e, ok) ==
    IF ~ok /\ e.fee < wfee
    THEN wpc' = "idle" /\ wsigner' = Manager /\ wtodo' = {}
    ELSE /\ wtodo' = wtodo \ {e}
         /\ IF wtodo = {e} THEN NextSigner
                           ELSE wpc' = "resend" /\ UNCHANGED wsigner

(* ... and its broadcast *)
Rebroadcast(e, reached, ok) ==
    /\ wpc = "rebroadcast"
    /\ Lowest(e)
    /\ Broadcast([TxOf(e) EXCEPT !.fee = ResendFee(e)], reached, ok)
    /\ AfterResend(e, ok)
    /\ UNCHANGED <<sendVars, txstore, wnonce, wfee, crashes, log>>

(* ... or validateBalance throws before anything is stored. *)
ResendRefused(e) ==
    /\ wpc = "resend"
    /\ Lowest(e)
    /\ AfterResend(e, FALSE)
    /\ UNCHANGED <<sendVars, txstore, wnonce, wfee, chainVars, crashes, log>>

(* A node call throws elsewhere in the pass. *)
WorkerFails ==
    /\ wpc \in {"fill", "count", "load"}
    /\ wpc' = "idle" /\ wsigner' = Manager /\ wtodo' = {}
    /\ UNCHANGED <<sendVars, txstore, wnonce, wfee, chainVars, crashes, log>>

----------------------------------------------------------------------------
(* The environment.                                                        *)

(* Any version that reached the network may be the one included. *)
Mine(tx) ==
    /\ tx.nonce = accountNonce[tx.signer]
    /\ mined' = mined \union {tx}
    /\ accountNonce' = [accountNonce EXCEPT ![tx.signer] = @ + 1]
    /\ UNCHANGED <<sendVars, txstore, workerVars, network, crashes, log>>

(* The process dies and starts again: calls in progress are lost, the      *)
(* constructor sets every nonce to zero.                                   *)
Restart ==
    /\ crashes < MaxCrashes
    /\ crashes' = crashes + 1
    /\ nonces' = [s \in Signers |-> 0]
    /\ mutex' = Free
    /\ pc' = [r \in Requests |-> IF pc[r] = "idle" THEN "idle" ELSE "done"]
    /\ wpc' = "idle" /\ wsigner' = Manager /\ wnonce' = 0 /\ wtodo' = {} /\ wfee' = 0
    /\ UNCHANGED <<txNonce, txFee, txstore, chainVars, log>>

SendNext(r) ==
    \/ AcquireMutex(r)
    \/ \E p \in PendingCounts(SignerOf[r]), fee \in SendFees : PollNonce(r, p, fee)
    \/ PollFails(r)
    \/ PutTx(r)
    \/ \E reached, ok \in BOOLEAN : SendTx(r, reached, ok)

WorkerNext ==
    \/ StartFill
    \/ \E e \in wtodo : FillMined(e)
    \/ \E old \in SUBSET {e \in txstore : e.mined} : RemoveArchivedTransactions(old)
    \/ BoostCount
    \/ \E elapsed \in BOOLEAN, baseFee \in BaseFees : BoostLoad(elapsed, baseFee)
    \/ \E e \in wtodo : ResendTransaction(e)
    \/ \E e \in wtodo, reached, ok \in BOOLEAN : Rebroadcast(e, reached, ok)
    \/ \E e \in wtodo : ResendRefused(e)
    \/ WorkerFails

Next ==
    \/ \E r \in Requests : SendNext(r)
    \/ \E p \in PendingCounts(Worker) : \E old \in 0..p : ValidateMaxNonce(old)
    \/ WorkerNext
    \/ \E tx \in network : Mine(tx)
    \/ Restart

Spec == Init /\ [][Next]_vars

(* Fairness, for liveness only: the chain includes what waits for its      *)
(* turn, the interval timer keeps starting passes, timeouts elapse, and    *)
(* the transaction the chain waits for is not refused by the node forever. *)
Fairness ==
    /\ WF_vars(WorkerNext)
    /\ \A k \in 1..Cardinality(Requests) :
          SF_vars(Cardinality(wtodo) = k /\ \E e \in wtodo : FillMined(e))
    /\ SF_vars(\E old \in SUBSET {e \in txstore : e.mined} :
                  RemoveArchivedTransactions(old))
    /\ \A s \in Signers :
        /\ WF_vars(\E tx \in network : tx.signer = s /\ Mine(tx))
        /\ SF_vars(wsigner = s /\ BoostCount)
        /\ SF_vars(wsigner = s /\ \E b \in BaseFees : BoostLoad(TRUE, b))
        /\ SF_vars(\E e \in wtodo : /\ e.signer = s /\ e.nonce = accountNonce[s]
                                    /\ ResendTransaction(e))
        /\ SF_vars(\E e \in wtodo : /\ e.signer = s /\ e.nonce = accountNonce[s]
                                    /\ Rebroadcast(e, TRUE, TRUE))

FairSpec == Spec /\ Fairness

----------------------------------------------------------------------------
(* Properties.                                                             *)

(* The server never publishes what Penalizer.penalizeRepeatedNonce         *)
(* punishes, two transactions of one key with one nonce and different      *)
(* contents: not through concurrent sends, failed broadcasts, boosting,    *)
(* pruning, or nonces restarting from zero after a crash.                  *)
NoPenalizableConflict ==
    \A x, y \in network : SameSlot(x, y) => x.content = y.content

(* Boosting never meets its own error "Boosting: missing nonce": when      *)
(* anything is pending, the transaction the chain waits for is stored.     *)
BoostFindsOldest ==
    wpc = "load" => (PendingTxs = {} \/ \E e \in PendingTxs : e.nonce = wnonce)

(* Only a transaction that the chain has executed leaves the store: one    *)
(* that could still need a resend is never pruned.                         *)
OnlyMinedArePrunedStep ==
    \A e \in txstore :
        (\A f \in txstore' : ~SameSlot(e, f)) => TxOf(e) \in mined
OnlyMinedArePruned == [][OnlyMinedArePrunedStep]_vars

(* Nothing stays unexecuted: again and again every stored transaction has  *)
(* been mined, even when the process died, or the node failed, before the  *)
(* transaction was ever sent.                                              *)
StoredEventuallyMined ==
    []<>(\A e \in txstore : e.nonce < accountNonce[e.signer])

----------------------------------------------------------------------------
(* The inductive invariant behind the safety properties.                   *)

LogHolds(s, n, c) == n < Len(log[s]) /\ log[s][n + 1] = c

(* nonceMutex is held exactly from the poll to the end of putTx. *)
MutexInv == \A r \in Requests : pc[r] \in {"polling", "putting"} <=> mutex = r

(* Whatever is stored, being resent, about to be sent or on the network    *)
(* has the content its nonce was first stored with.                        *)
AgreeInv ==
    /\ \A e \in txstore : LogHolds(e.signer, e.nonce, e.content)
    /\ \A e \in wtodo : LogHolds(e.signer, e.nonce, e.content)
    /\ \A x \in network : LogHolds(x.signer, x.nonce, x.content)
    /\ \A r \in Requests :
          pc[r] = "sending" => LogHolds(SignerOf[r], txNonce[r], r)

(* Every assigned nonce is executed or still stored. *)
CoverInv ==
    \A s \in Signers :
        /\ accountNonce[s] <= Len(log[s])
        /\ \A k \in 0..(Len(log[s]) - 1) : k < accountNonce[s] \/ IsStored(s, k)

(* The in-memory nonce never runs past the log but for the one nonce a     *)
(* call in the critical section has taken, whatever polls from outside it  *)
(* raise; one that was overtaken by the chain will find its nonce taken.   *)
NonceInv ==
    /\ \A r \in Requests : pc[r] = "putting" =>
          /\ txNonce[r] <= Len(log[SignerOf[r]])
          /\ nonces[SignerOf[r]] > txNonce[r]
          /\ \/ nonces[SignerOf[r]] = txNonce[r] + 1
             \/ nonces[SignerOf[r]] <= Len(log[SignerOf[r]])
          /\ txNonce[r] < accountNonce[SignerOf[r]] => IsStored(SignerOf[r], txNonce[r])
    /\ \A s \in Signers :
          (\A r \in Requests : pc[r] = "putting" => SignerOf[r] # s)
             => nonces[s] <= Len(log[s])

(* An entry marked as mined is executed under exactly the stored hash. *)
MarkInv ==
    /\ \A e \in txstore : e.mined => TxOf(e) \in mined
    /\ \A x \in mined : x.nonce < accountNonce[x.signer]

(* While a pass is boosting, nothing below its account nonce is resent and *)
(* nothing from it on is marked; when it loads, its account nonce is       *)
(* stored or not assigned yet.                                             *)
BoostInv ==
    /\ wpc \in {"load", "resend", "rebroadcast"} =>
          \A e \in txstore : e.signer = wsigner /\ e.mined => e.nonce < wnonce
    /\ wpc \in {"resend", "rebroadcast"} => \A e \in wtodo : ~e.mined
    /\ wpc = "load" => IsStored(wsigner, wnonce) \/ wnonce >= Len(log[wsigner])

(* The strengthening that every step preserves.                            *)
IInv == TypeOK /\ MutexInv /\ AgreeInv /\ CoverInv /\ NonceInv /\ MarkInv /\ BoostInv

(* The pipeline implements an append-only log per key: store, boosting,    *)
(* pruning and restarts never move, replace or skip an assigned nonce.     *)
Published == {[signer |-> x.signer, nonce |-> x.nonce, content |-> x.content] :
                 x \in network}
NL == INSTANCE NonceLog WITH Keys <- Signers, Contents <- Requests,
                             published <- Published, executed <- accountNonce
ImplementsNonceLog == NL!LogSpec
=============================================================================
