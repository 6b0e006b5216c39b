---------------------- MODULE TransactionManagerProofs ----------------------
(***************************************************************************)
(* Proofs about TransactionManager for any number of requests, any fees    *)
(* and any number of crashes.  IInv is inductive; it implies the safety    *)
(* properties, and the refinement of NonceLog follows step by step.        *)
(***************************************************************************)
EXTENDS TransactionManager, SequenceTheorems, TLAPS

(* Appending changes no earlier position of a log and adds one at its end. *)
LEMMA AppendLog ==
    ASSUME NEW q \in Seq(Requests), NEW c \in Requests
    PROVE  /\ Append(q, c) \in Seq(Requests)
           /\ Len(Append(q, c)) = Len(q) + 1
           /\ Len(q) \in Nat
           /\ \A i \in 1..Len(q) : Append(q, c)[i] = q[i]
           /\ Append(q, c)[Len(q) + 1] = c
  OBVIOUS

LEMMA InitIInv == Init => IInv
  BY SignerAssumption DEF SignerAssumption, Init, IInv, TypeOK, MutexInv, AgreeInv, CoverInv, NonceInv,
     MarkInv, BoostInv, IsStored, LogHolds, Signers

LEMMA AcquireMutexIInv ==
    ASSUME IInv, NEW r \in Requests, AcquireMutex(r)
    PROVE  IInv'
  <1> USE DEF AcquireMutex, workerVars, chainVars
  <1>1. TypeOK'
    BY DEF IInv, TypeOK
  <1>2. MutexInv'
    BY SignerAssumption DEF SignerAssumption, IInv, TypeOK, MutexInv
  <1>3. AgreeInv'
    BY DEF IInv, TypeOK, AgreeInv, LogHolds
  <1>4. CoverInv'
    BY DEF IInv, TypeOK, CoverInv, IsStored
  <1>5. NonceInv'
    BY DEF IInv, TypeOK, NonceInv, IsStored
  <1>6. MarkInv' /\ BoostInv'
    BY DEF IInv, TypeOK, MarkInv, BoostInv, IsStored, TxOf
  <1> QED BY <1>1, <1>2, <1>3, <1>4, <1>5, <1>6 DEF IInv

(* The node's pending count never runs past the log: what it knows of was  *)
(* stored first.                                                           *)
LEMMA PendingBounded ==
    ASSUME IInv, NEW s \in Signers, NEW p \in PendingCounts(s)
    PROVE  /\ p \in Nat /\ accountNonce[s] \in Nat /\ Len(log[s]) \in Nat
           /\ p >= accountNonce[s] /\ p <= Len(log[s])
  <1>1. accountNonce[s] \in Nat /\ Len(log[s]) \in Nat
    BY DEF IInv, TypeOK
  <1>2. p \in Nat /\ p >= accountNonce[s]
    BY <1>1 DEF PendingCounts
  <1>3. CASE p = accountNonce[s]
    BY <1>1, <1>2, <1>3 DEF IInv, CoverInv
  <1>4. CASE p > accountNonce[s]
    <2>1. p - 1 \in accountNonce[s]..(p - 1)
      BY <1>1, <1>2, <1>4
    <2>2. PICK x \in network : x.signer = s /\ x.nonce = p - 1
      BY <2>1 DEF PendingCounts
    <2>3. p - 1 < Len(log[s])
      BY <2>2 DEF IInv, AgreeInv, LogHolds
    <2> QED BY <2>3, <1>1, <1>2
  <1> QED BY <1>1, <1>2, <1>3, <1>4

LEMMA PollNonceIInv ==
    ASSUME IInv, NEW r \in Requests, NEW p \in PendingCounts(SignerOf[r]),
           NEW fee \in SendFees, PollNonce(r, p, fee)
    PROVE  IInv'
  <1> USE DEF PollNonce, workerVars, chainVars
  <1> DEFINE s == SignerOf[r]
             n == IF p > nonces[s] THEN p ELSE nonces[s]
  <1>s. s \in Signers /\ fee \in Nat
    BY SignerAssumption, FeeAssumption DEF SignerAssumption, FeeAssumption
  <1>t. nonces[s] \in Nat
    BY <1>s DEF IInv, TypeOK
  <1>b. p \in Nat /\ accountNonce[s] \in Nat /\ p >= accountNonce[s] /\ p <= Len(log[s])
    BY <1>s, PendingBounded
  <1>a. /\ s \in Signers /\ p \in Nat /\ p >= accountNonce[s] /\ fee \in Nat
        /\ n \in Nat /\ nonces[s] \in Nat /\ accountNonce[s] \in Nat
    BY <1>s, <1>t, <1>b
  <1>c. \A q \in Requests : pc[q] # "putting"
    BY DEF IInv, MutexInv
  <1>d. n <= Len(log[s]) /\ n >= accountNonce[s]
    BY <1>a, <1>b, <1>c DEF IInv, NonceInv
  <1>e. /\ pc' = [pc EXCEPT ![r] = "putting"] /\ txNonce' = [txNonce EXCEPT ![r] = n]
        /\ nonces' = [nonces EXCEPT ![s] = n + 1] /\ txFee' = [txFee EXCEPT ![r] = fee]
    BY Zenon
  <1>f. UNCHANGED <<mutex, txstore, workerVars, chainVars, crashes, log>>
    BY Zenon
  <1>g. mutex = r
    BY DEF IInv, MutexInv
  <1> HIDE DEF s, n, PollNonce
  <1>1. TypeOK'
    BY <1>a, <1>e, <1>f DEF IInv, TypeOK
  <1>2. MutexInv'
    BY <1>e, <1>f, <1>g DEF IInv, TypeOK, MutexInv
  <1>3. AgreeInv'
    BY <1>e, <1>f DEF IInv, TypeOK, AgreeInv, LogHolds
  <1>4. CoverInv'
    BY <1>f DEF IInv, TypeOK, CoverInv, IsStored
  <1>5. NonceInv'
    <2>1. ASSUME NEW q \in Requests, pc'[q] = "putting"
          PROVE  q = r
      BY <2>1, <1>c, <1>e DEF IInv, TypeOK
    <2>2. /\ txNonce'[r] = n /\ nonces'[s] = n + 1 /\ SignerOf[r] = s
          /\ pc'[r] = "putting"
      BY <1>a, <1>e DEF IInv, TypeOK, s
    <2>3. ASSUME NEW t \in Signers, t # s
          PROVE  nonces'[t] <= Len(log'[t])
      BY <2>3, <1>c, <1>e, <1>f DEF IInv, TypeOK, NonceInv
    <2> QED BY <2>1, <2>2, <2>3, <1>a, <1>d, <1>f DEF NonceInv
  <1>6. MarkInv'
    BY <1>f DEF IInv, TypeOK, MarkInv, TxOf
  <1>7. BoostInv'
    BY <1>f DEF IInv, TypeOK, BoostInv, IsStored
  <1> QED BY <1>1, <1>2, <1>3, <1>4, <1>5, <1>6, <1>7 DEF IInv

(* A poll outside the mutex raises the nonce at most to the length of the  *)
(* log, which is past what a call in the critical section has been given   *)
(* only when that nonce is logged already.                                 *)
LEMMA ValidateMaxNonceIInv ==
    ASSUME IInv, NEW p \in PendingCounts(Worker), NEW old \in 0..p,
           ValidateMaxNonce(old)
    PROVE  IInv'
  <1> USE DEF ValidateMaxNonce, workerVars, chainVars
  <1>w. Worker \in Signers
    BY DEF Signers
  <1>a. /\ p \in Nat /\ Len(log[Worker]) \in Nat /\ p <= Len(log[Worker])
    BY <1>w, PendingBounded
  <1>b. /\ old \in Nat /\ old <= Len(log[Worker]) /\ nonces[Worker] \in Nat
        /\ old > nonces[Worker]
    BY <1>a, <1>w DEF IInv, TypeOK
  <1>c. /\ nonces'[Worker] = old
        /\ \A t \in Signers : t # Worker => nonces'[t] = nonces[t]
    BY <1>w DEF IInv, TypeOK
  <1>1. TypeOK'
    BY <1>b DEF IInv, TypeOK
  <1>2. MutexInv'
    BY DEF IInv, TypeOK, MutexInv
  <1>3. AgreeInv'
    BY DEF IInv, TypeOK, AgreeInv, LogHolds
  <1>4. CoverInv'
    BY DEF IInv, TypeOK, CoverInv, IsStored
  <1>5. NonceInv'
    <2>1. ASSUME NEW r \in Requests, pc[r] = "putting"
          PROVE  /\ txNonce[r] <= Len(log[SignerOf[r]])
                 /\ nonces'[SignerOf[r]] > txNonce[r]
                 /\ \/ nonces'[SignerOf[r]] = txNonce[r] + 1
                    \/ nonces'[SignerOf[r]] <= Len(log[SignerOf[r]])
                 /\ txNonce[r] < accountNonce[SignerOf[r]]
                       => IsStored(SignerOf[r], txNonce[r])
      <3>1. SignerOf[r] \in Signers /\ txNonce[r] \in Nat
        BY SignerAssumption DEF SignerAssumption, IInv, TypeOK
      <3>2. CASE SignerOf[r] = Worker
        BY <2>1, <3>1, <3>2, <1>b, <1>c DEF IInv, NonceInv
      <3>3. CASE SignerOf[r] # Worker
        BY <2>1, <3>1, <3>3, <1>c DEF IInv, NonceInv
      <3> QED BY <3>2, <3>3
    <2>2. ASSUME NEW t \in Signers,
                 \A r \in Requests : pc[r] = "putting" => SignerOf[r] # t
          PROVE  nonces'[t] <= Len(log[t])
      BY <2>2, <1>b, <1>c DEF IInv, NonceInv
    <2> QED BY <2>1, <2>2 DEF NonceInv, IsStored
  <1>6. MarkInv'
    BY DEF IInv, TypeOK, MarkInv, TxOf
  <1>7. BoostInv'
    BY DEF IInv, TypeOK, BoostInv, IsStored
  <1> QED BY <1>1, <1>2, <1>3, <1>4, <1>5, <1>6, <1>7 DEF IInv

LEMMA PollFailsIInv ==
    ASSUME IInv, NEW r \in Requests, PollFails(r)
    PROVE  IInv'
  <1> USE DEF PollFails, workerVars, chainVars
  <1>1. TypeOK'
    BY DEF IInv, TypeOK
  <1>2. MutexInv'
    BY SignerAssumption DEF SignerAssumption, IInv, TypeOK, MutexInv
  <1>3. AgreeInv'
    BY DEF IInv, TypeOK, AgreeInv, LogHolds
  <1>4. CoverInv'
    BY DEF IInv, TypeOK, CoverInv, IsStored
  <1>5. NonceInv'
    BY DEF IInv, TypeOK, NonceInv, IsStored
  <1>6. MarkInv'
    BY DEF IInv, TypeOK, MarkInv, TxOf
  <1>7. BoostInv'
    BY DEF IInv, TypeOK, BoostInv, IsStored
  <1> QED BY <1>1, <1>2, <1>3, <1>4, <1>5, <1>6, <1>7 DEF IInv

LEMMA PutTxIInv ==
    ASSUME IInv, NEW r \in Requests, PutTx(r)
    PROVE  IInv'
  <1> USE DEF PutTx, workerVars, chainVars
  <1> DEFINE s == SignerOf[r]
             n == txNonce[r]
             e == [signer |-> s, nonce |-> n, content |-> r, fee |-> txFee[r],
                   mined |-> FALSE]
             HoldsAfter(t, k, c) == k < Len(log'[t]) /\ log'[t][k + 1] = c
             StoredAfter(t, k) == \E f \in txstore' : f.signer = t /\ f.nonce = k
  <1>y. /\ s \in Signers /\ n \in Nat /\ log[s] \in Seq(Requests)
        /\ Len(log[s]) \in Nat /\ accountNonce[s] \in Nat /\ nonces[s] \in Nat
        /\ e \in StoredTx
    BY SignerAssumption DEF SignerAssumption, IInv, TypeOK, StoredTx
  <1>z. /\ n <= Len(log[s])
        /\ nonces[s] > n /\ (nonces[s] = n + 1 \/ nonces[s] <= Len(log[s]))
        /\ n < accountNonce[s] => IsStored(s, n)
    BY DEF IInv, NonceInv
  <1>a. /\ s \in Signers /\ n \in Nat /\ log[s] \in Seq(Requests)
        /\ Len(log[s]) \in Nat /\ accountNonce[s] \in Nat /\ nonces[s] \in Nat
        /\ e \in StoredTx /\ n <= Len(log[s])
        /\ nonces[s] > n /\ (nonces[s] = n + 1 \/ nonces[s] <= Len(log[s]))
        /\ n < accountNonce[s] => IsStored(s, n)
    BY <1>y, <1>z
  <1>b. mutex = r /\ \A q \in Requests : pc[q] = "putting" => q = r
    BY DEF IInv, MutexInv
  <1>c. CASE IsStored(s, n)
    <2>1. /\ UNCHANGED <<txstore, log, nonces, txNonce, txFee, workerVars, chainVars, crashes>>
          /\ pc' = [pc EXCEPT ![r] = "done"] /\ mutex' = Free
      BY <1>c
    <2>2. n < Len(log[s])
      BY <1>a, <1>c DEF IInv, AgreeInv, IsStored, LogHolds
    <2> HIDE DEF PutTx, s, n, e
    <2>3. TypeOK'
      BY <2>1 DEF IInv, TypeOK
    <2>4. MutexInv'
      BY <2>1, <1>b, SignerAssumption DEF IInv, TypeOK, MutexInv, SignerAssumption
    <2>5. AgreeInv' /\ CoverInv' /\ MarkInv' /\ BoostInv'
      <3>1. AgreeInv'
        BY <2>1 DEF IInv, TypeOK, AgreeInv, LogHolds
      <3>2. CoverInv'
        BY <2>1 DEF IInv, TypeOK, CoverInv, IsStored
      <3>3. MarkInv'
        BY <2>1 DEF IInv, TypeOK, MarkInv, TxOf
      <3>4. BoostInv'
        BY <2>1 DEF IInv, TypeOK, BoostInv, IsStored
      <3> QED BY <3>1, <3>2, <3>3, <3>4
    <2>6. NonceInv'
      <3>1. \A q \in Requests : pc'[q] # "putting"
        BY <2>1, <1>b DEF IInv, TypeOK
      <3>2. ASSUME NEW t \in Signers
            PROVE  nonces'[t] <= Len(log'[t])
        <4>1. CASE t = s
          BY <4>1, <2>1, <2>2, <1>a
        <4>2. CASE t # s
          BY <4>2, <2>1, <1>b DEF IInv, NonceInv, s
        <4> QED BY <4>1, <4>2
      <3> QED BY <3>1, <3>2 DEF NonceInv
    <2> QED BY <2>3, <2>4, <2>5, <2>6 DEF IInv
  <1>d. CASE ~IsStored(s, n)
    <2>1. /\ UNCHANGED <<nonces, txNonce, txFee, workerVars, chainVars, crashes>>
          /\ pc' = [pc EXCEPT ![r] = "sending"] /\ mutex' = Free
          /\ txstore' = txstore \union {e}
          /\ log' = [log EXCEPT ![s] = Append(log[s], r)]
      BY <1>d
    <2>2. n = Len(log[s])
      BY <1>a, <1>d DEF IInv, CoverInv
    <2>e. /\ e.signer = s /\ e.nonce = n /\ e.content = r /\ ~e.mined
          /\ e \in StoredTx
      BY <1>a
    <2>n. s \in Signers /\ n \in Nat /\ SignerOf[r] = s /\ txNonce[r] = n
      BY <1>a
    <2> HIDE DEF PutTx, s, n, e
    <2>3. /\ log' \in [Signers -> Seq(Requests)]
          /\ \A t \in Signers : t # s => log'[t] = log[t]
          /\ Len(log'[s]) = n + 1
          /\ \A i \in 1..n : log'[s][i] = log[s][i]
          /\ log'[s][n + 1] = r
      BY <2>1, <2>2, <1>a, AppendLog DEF IInv, TypeOK
    <2>4. ASSUME NEW t \in Signers, NEW k \in Nat, NEW c, LogHolds(t, k, c)
          PROVE  HoldsAfter(t, k, c)
      <3>1. CASE t = s
        BY <3>1, <2>2, <2>3, <2>4, <2>n DEF LogHolds
      <3>2. CASE t # s
        BY <3>2, <2>3, <2>4 DEF LogHolds
      <3> QED BY <3>1, <3>2
    <2>5. HoldsAfter(s, n, r)
      BY <2>3, <2>n
    <2>6. TypeOK'
      BY <2>1, <2>3, <2>e DEF IInv, TypeOK
    <2>7. MutexInv'
      BY <2>1, <1>b, SignerAssumption DEF IInv, TypeOK, MutexInv, SignerAssumption
    <2>8. AgreeInv'
      <3>1. \A f \in txstore' : HoldsAfter(f.signer, f.nonce, f.content)
        <4>1. SUFFICES ASSUME NEW f \in txstore' PROVE HoldsAfter(f.signer, f.nonce, f.content)
          OBVIOUS
        <4>2. CASE f = e
          BY <4>2, <2>5, <2>e
        <4>3. CASE f \in txstore
          BY <4>3, <2>4 DEF IInv, TypeOK, StoredTx, AgreeInv
        <4> QED BY <4>2, <4>3, <2>1
      <3>2. \A f \in wtodo' : HoldsAfter(f.signer, f.nonce, f.content)
        BY <2>1, <2>4 DEF IInv, TypeOK, StoredTx, AgreeInv
      <3>3. \A x \in network' : HoldsAfter(x.signer, x.nonce, x.content)
        BY <2>1, <2>4 DEF IInv, TypeOK, Tx, AgreeInv
      <3>4. ASSUME NEW q \in Requests, pc'[q] = "sending"
            PROVE  HoldsAfter(SignerOf[q], txNonce'[q], q)
        <4>1. CASE q = r
          BY <4>1, <2>1, <2>5, <2>n
        <4>2. CASE q # r
          <5>1. /\ LogHolds(SignerOf[q], txNonce[q], q)
                /\ SignerOf[q] \in Signers /\ txNonce[q] \in Nat
            BY <3>4, <4>2, <2>1, SignerAssumption
               DEF IInv, TypeOK, AgreeInv, SignerAssumption
          <5> QED BY <5>1, <2>1, <2>4
        <4> QED BY <4>1, <4>2
      <3> QED BY <3>1, <3>2, <3>3, <3>4 DEF AgreeInv, LogHolds
    <2>9. \A t \in Signers, k \in Nat : IsStored(t, k) => StoredAfter(t, k)
      BY <2>1 DEF IsStored
    <2>10. StoredAfter(s, n)
      BY <2>1, <2>e
    <2>11. CoverInv'
      <3>1. ASSUME NEW t \in Signers
            PROVE  /\ accountNonce'[t] <= Len(log'[t])
                   /\ \A k \in 0..(Len(log'[t]) - 1) :
                         k < accountNonce'[t] \/ StoredAfter(t, k)
        <4>1. CASE t = s
          <5>1. accountNonce[s] <= n /\ \A k \in 0..(n - 1) : k < accountNonce[s] \/ IsStored(s, k)
            BY <2>2, <1>a DEF IInv, CoverInv
          <5> QED BY <4>1, <5>1, <2>1, <2>3, <2>9, <2>10, <1>a
        <4>2. CASE t # s
          BY <4>2, <2>1, <2>3, <2>9 DEF IInv, CoverInv, TypeOK
        <4> QED BY <4>1, <4>2
      <3> QED BY <3>1 DEF CoverInv, IsStored
    <2>12. NonceInv'
      <3>1. \A q \in Requests : pc'[q] # "putting"
        BY <2>1, <1>b DEF IInv, TypeOK
      <3>2. ASSUME NEW t \in Signers
            PROVE  nonces'[t] <= Len(log'[t])
        <4>1. CASE t = s
          BY <4>1, <2>1, <2>3, <1>a
        <4>2. CASE t # s
          BY <4>2, <2>1, <2>3, <1>b DEF IInv, NonceInv, s
        <4> QED BY <4>1, <4>2
      <3> QED BY <3>1, <3>2 DEF NonceInv
    <2>13. MarkInv'
      BY <2>1, <2>e DEF IInv, TypeOK, MarkInv, TxOf
    <2>14. BoostInv'
      <3>1. wsigner \in Signers /\ wnonce \in Nat
        BY DEF IInv, TypeOK
      <3>2. wpc = "load" => StoredAfter(wsigner, wnonce) \/ wnonce >= Len(log'[wsigner])
        <4>1. CASE wsigner = s
          BY <4>1, <3>1, <2>2, <2>3, <2>9, <2>10, <1>a DEF IInv, BoostInv
        <4>2. CASE wsigner # s
          BY <4>2, <3>1, <2>3, <2>9 DEF IInv, BoostInv
        <4> QED BY <4>1, <4>2
      <3> QED BY <3>1, <3>2, <2>1, <2>e DEF IInv, BoostInv, IsStored
    <2> QED BY <2>6, <2>7, <2>8, <2>11, <2>12, <2>13, <2>14 DEF IInv
  <1> QED BY <1>c, <1>d

(* A store update replaces the entry of one nonce and keeps all the others. *)
LEMMA OverwrittenFacts ==
    ASSUME NEW e \in StoredTx, txstore \subseteq StoredTx
    PROVE  /\ Overwritten(e) \subseteq StoredTx
           /\ \A f \in Overwritten(e) : f = e \/ f \in txstore
           /\ \A s \in Signers, n \in Nat :
                 IsStored(s, n) => \E f \in Overwritten(e) : f.signer = s /\ f.nonce = n
  BY DEF Overwritten, SameSlot, IsStored

(* Updating an entry with its logged content disturbs neither the log, nor *)
(* the cover of the pending nonces, nor the marks.                         *)
LEMMA StoreUpdate ==
    ASSUME IInv, NEW e \in StoredTx, LogHolds(e.signer, e.nonce, e.content),
           e.mined => TxOf(e) \in mined, txstore' = Overwritten(e),
           wtodo' \subseteq wtodo, UNCHANGED <<sendVars, chainVars, log>>
    PROVE  /\ txstore' \subseteq StoredTx
           /\ AgreeInv' /\ CoverInv' /\ NonceInv' /\ MarkInv'
  <1> USE DEF sendVars, chainVars
  <1> DEFINE StoredAfter(t, k) == \E f \in txstore' : f.signer = t /\ f.nonce = k
  <1>0. /\ txstore' \subseteq StoredTx
        /\ \A f \in txstore' : f = e \/ f \in txstore
        /\ \A s \in Signers, n \in Nat : IsStored(s, n) => StoredAfter(s, n)
    BY OverwrittenFacts DEF IInv, TypeOK
  <1>1. AgreeInv'
    BY <1>0 DEF IInv, AgreeInv, LogHolds
  <1>2. CoverInv'
    <2>1. ASSUME NEW s \in Signers, NEW k \in 0..(Len(log[s]) - 1)
          PROVE  k < accountNonce[s] \/ StoredAfter(s, k)
      BY <1>0 DEF IInv, CoverInv
    <2> QED BY <2>1 DEF IInv, CoverInv, IsStored
  <1>3. NonceInv'
    <2>1. ASSUME NEW q \in Requests, pc[q] = "putting",
                 txNonce[q] < accountNonce[SignerOf[q]]
          PROVE  StoredAfter(SignerOf[q], txNonce[q])
      <3>1. SignerOf[q] \in Signers /\ txNonce[q] \in Nat
        BY SignerAssumption DEF SignerAssumption, IInv, TypeOK
      <3> QED BY <2>1, <3>1, <1>0 DEF IInv, NonceInv
    <2> QED BY <2>1 DEF IInv, NonceInv, IsStored
  <1>4. MarkInv'
    BY <1>0 DEF IInv, MarkInv, TxOf
  <1> QED BY <1>0, <1>1, <1>2, <1>3, <1>4

LEMMA SendTxIInv ==
    ASSUME IInv, NEW r \in Requests, NEW reached \in BOOLEAN, NEW ok \in BOOLEAN,
           SendTx(r, reached, ok)
    PROVE  IInv'
  <1> USE DEF SendTx, Broadcast, workerVars
  <1> DEFINE x == [signer |-> SignerOf[r], nonce |-> txNonce[r], content |-> r,
                  fee |-> txFee[r]]
  <1>a. UNCHANGED <<nonces, mutex, txNonce, txFee, txstore, workerVars, crashes, log,
                    mined, accountNonce>>
    OBVIOUS
  <1>b. x \in Tx
    BY SignerAssumption DEF SignerAssumption, IInv, TypeOK, Tx
  <1>c. network' \subseteq network \union {x}
    OBVIOUS
  <1>1. TypeOK'
    BY <1>a, <1>b, <1>c DEF IInv, TypeOK
  <1>2. MutexInv'
    BY SignerAssumption DEF IInv, TypeOK, MutexInv, SignerAssumption
  <1>3. AgreeInv'
    BY DEF IInv, TypeOK, AgreeInv, LogHolds
  <1>4. CoverInv'
    BY <1>a DEF IInv, CoverInv, IsStored
  <1>5. NonceInv'
    BY DEF IInv, TypeOK, NonceInv, IsStored
  <1>6. MarkInv'
    BY DEF IInv, TypeOK, MarkInv, TxOf
  <1>7. BoostInv'
    BY DEF IInv, TypeOK, BoostInv, IsStored
  <1> QED BY <1>1, <1>2, <1>3, <1>4, <1>5, <1>6, <1>7 DEF IInv

LEMMA StartFillIInv ==
    ASSUME IInv, StartFill
    PROVE  IInv'
  <1> USE DEF StartFill, chainVars, sendVars
  <1>1. TypeOK'
    BY DEF IInv, TypeOK
  <1>2. MutexInv'
    BY SignerAssumption DEF IInv, TypeOK, MutexInv, SignerAssumption
  <1>3. AgreeInv'
    BY DEF IInv, TypeOK, AgreeInv, LogHolds
  <1>4. CoverInv'
    BY DEF IInv, TypeOK, CoverInv, IsStored
  <1>5. NonceInv'
    BY DEF IInv, TypeOK, NonceInv, IsStored
  <1>6. MarkInv'
    BY DEF IInv, TypeOK, MarkInv, TxOf
  <1>7. BoostInv'
    BY DEF IInv, TypeOK, BoostInv, IsStored
  <1> QED BY <1>1, <1>2, <1>3, <1>4, <1>5, <1>6, <1>7 DEF IInv

LEMMA FillMinedIInv ==
    ASSUME IInv, NEW e \in wtodo, FillMined(e)
    PROVE  IInv'
  <1> DEFINE f == [e EXCEPT !.mined = TRUE]
  <1>a. /\ wpc = "fill" /\ wtodo' = wtodo \ {e}
        /\ txstore' = IF TxOf(e) \in mined THEN Overwritten(f) ELSE txstore
        /\ UNCHANGED <<sendVars, wpc, wsigner, wnonce, wfee, chainVars, crashes, log>>
    BY DEF FillMined
  <1>b. /\ f \in StoredTx /\ TxOf(f) = TxOf(e)
        /\ f.signer = e.signer /\ f.nonce = e.nonce /\ f.content = e.content
    BY DEF IInv, TypeOK, StoredTx, TxOf
  <1>c. LogHolds(f.signer, f.nonce, f.content)
    BY <1>b DEF IInv, AgreeInv
  <1> HIDE DEF f
  <1>1. /\ txstore' \subseteq StoredTx
        /\ AgreeInv' /\ CoverInv' /\ NonceInv' /\ MarkInv'
    <2>1. CASE TxOf(e) \in mined
      BY <2>1, <1>a, <1>b, <1>c, StoreUpdate
    <2>2. CASE TxOf(e) \notin mined
      BY <2>2, <1>a DEF IInv, TypeOK, AgreeInv, CoverInv, NonceInv, MarkInv, LogHolds,
         IsStored, TxOf, sendVars, chainVars
    <2> QED BY <2>1, <2>2
  <1>2. TypeOK' /\ MutexInv' /\ BoostInv'
    BY <1>1, <1>a DEF IInv, TypeOK, MutexInv, BoostInv, sendVars, chainVars
  <1> QED BY <1>1, <1>2 DEF IInv

LEMMA RemoveArchivedIInv ==
    ASSUME IInv, NEW old \in SUBSET {e \in txstore : e.mined},
           RemoveArchivedTransactions(old)
    PROVE  IInv'
  <1> USE DEF RemoveArchivedTransactions, chainVars, sendVars
  <1> DEFINE StoredAfter(t, k) == \E f \in txstore' : f.signer = t /\ f.nonce = k
  <1>a. \A e \in old : e.nonce < accountNonce[e.signer]
    BY DEF IInv, MarkInv, TxOf
  <1>b. \A e \in old : PruneWindow(e)
    OBVIOUS
  <1>1. TypeOK'
    BY DEF IInv, TypeOK, Signers
  <1>2. MutexInv'
    BY SignerAssumption DEF IInv, TypeOK, MutexInv, SignerAssumption
  <1>3. AgreeInv'
    BY DEF IInv, TypeOK, AgreeInv, LogHolds
  <1>4. CoverInv'
    <2>1. ASSUME NEW s \in Signers, NEW k \in 0..(Len(log[s]) - 1)
          PROVE  k < accountNonce[s] \/ StoredAfter(s, k)
      BY <1>a DEF IInv, CoverInv, IsStored
    <2> QED BY <2>1 DEF IInv, CoverInv, IsStored
  <1>5. NonceInv'
    <2>1. ASSUME NEW q \in Requests, pc[q] = "putting",
                 txNonce[q] < accountNonce[SignerOf[q]]
          PROVE  StoredAfter(SignerOf[q], txNonce[q])
      <3>1. PICK f \in txstore : f.signer = SignerOf[q] /\ f.nonce = txNonce[q]
        BY <2>1 DEF IInv, NonceInv, IsStored
      <3> QED BY <2>1, <3>1, <1>b DEF PruneWindow
    <2> QED BY <2>1 DEF IInv, NonceInv, IsStored
  <1>6. MarkInv'
    BY DEF IInv, TypeOK, MarkInv, TxOf
  <1>7. BoostInv'
    BY DEF IInv, TypeOK, BoostInv, IsStored
  <1> QED BY <1>1, <1>2, <1>3, <1>4, <1>5, <1>6, <1>7 DEF IInv

LEMMA BoostCountIInv ==
    ASSUME IInv, BoostCount
    PROVE  IInv'
  <1> USE DEF BoostCount, chainVars, sendVars
  <1>1. TypeOK'
    BY DEF IInv, TypeOK
  <1>2. MutexInv'
    BY SignerAssumption DEF IInv, TypeOK, MutexInv, SignerAssumption
  <1>3. AgreeInv'
    BY DEF IInv, TypeOK, AgreeInv, LogHolds
  <1>4. CoverInv'
    BY DEF IInv, TypeOK, CoverInv, IsStored
  <1>5. NonceInv'
    BY DEF IInv, TypeOK, NonceInv, IsStored
  <1>6. MarkInv'
    BY DEF IInv, TypeOK, MarkInv, TxOf
  <1>7. BoostInv'
    <2>1. wsigner \in Signers /\ accountNonce[wsigner] \in Nat
          /\ Len(log[wsigner]) \in Nat
      BY DEF IInv, TypeOK
    <2>2. \A e \in txstore : e.signer = wsigner /\ e.mined => e.nonce < accountNonce[wsigner]
      BY DEF IInv, MarkInv, TxOf
    <2>3. \/ IsStored(wsigner, accountNonce[wsigner])
          \/ accountNonce[wsigner] >= Len(log[wsigner])
      BY <2>1 DEF IInv, CoverInv
    <2> QED BY <2>1, <2>2, <2>3 DEF BoostInv, IsStored
  <1> QED BY <1>1, <1>2, <1>3, <1>4, <1>5, <1>6, <1>7 DEF IInv

LEMMA BoostLoadIInv ==
    ASSUME IInv, NEW elapsed \in BOOLEAN, NEW b \in BaseFees, BoostLoad(elapsed, b)
    PROVE  IInv'
  <1> USE DEF BoostLoad, NextSigner, PendingTxs, chainVars, sendVars
  <1>a. \A f \in Nat : ResolveNewGasPrice(f, b) \in Nat
    BY FeeAssumption DEF FeeAssumption, ResolveNewGasPrice
  <1>b. wfee' \in Nat /\ wtodo' \subseteq StoredTx /\ wsigner' \in Signers
        /\ wpc' \in {"idle", "count", "resend"}
    BY <1>a DEF IInv, TypeOK, StoredTx, Signers
  <1>c. wpc' = "resend" =>
           /\ wsigner' = wsigner /\ wpc = "load"
           /\ wtodo' = {e \in txstore : e.signer = wsigner /\ e.nonce >= wnonce}
    OBVIOUS
  <1>1. TypeOK'
    BY <1>b DEF IInv, TypeOK
  <1>2. MutexInv'
    BY SignerAssumption DEF IInv, TypeOK, MutexInv, SignerAssumption
  <1>3. AgreeInv'
    BY DEF IInv, TypeOK, AgreeInv, LogHolds
  <1>4. CoverInv'
    BY DEF IInv, TypeOK, CoverInv, IsStored
  <1>5. NonceInv'
    BY DEF IInv, TypeOK, NonceInv, IsStored
  <1>6. MarkInv'
    BY DEF IInv, TypeOK, MarkInv, TxOf
  <1>7. BoostInv'
    BY <1>b, <1>c DEF IInv, TypeOK, StoredTx, BoostInv
  <1> QED BY <1>1, <1>2, <1>3, <1>4, <1>5, <1>6, <1>7 DEF IInv

LEMMA ResendTransactionIInv ==
    ASSUME IInv, NEW e \in wtodo, ResendTransaction(e)
    PROVE  IInv'
  <1> DEFINE f == [e EXCEPT !.fee = ResendFee(e)]
  <1>a. /\ wpc = "resend" /\ wpc' = "rebroadcast" /\ txstore' = Overwritten(f)
        /\ UNCHANGED <<sendVars, wsigner, wnonce, wtodo, wfee, chainVars, crashes, log>>
    BY DEF ResendTransaction
  <1>b. ~e.mined
    BY <1>a DEF IInv, BoostInv
  <1>c. /\ f \in StoredTx /\ ~f.mined
        /\ f.signer = e.signer /\ f.nonce = e.nonce /\ f.content = e.content
    BY <1>b DEF IInv, TypeOK, StoredTx, ResendFee
  <1>d. LogHolds(f.signer, f.nonce, f.content)
    BY <1>c DEF IInv, AgreeInv
  <1> HIDE DEF f
  <1>1. /\ txstore' \subseteq StoredTx
        /\ AgreeInv' /\ CoverInv' /\ NonceInv' /\ MarkInv'
    BY <1>a, <1>c, <1>d, StoreUpdate
  <1>2. TypeOK' /\ MutexInv'
    BY <1>1, <1>a DEF IInv, TypeOK, MutexInv, sendVars, chainVars
  <1>3. \A g \in txstore' : g = f \/ g \in txstore
    BY <1>a, <1>c, OverwrittenFacts DEF IInv, TypeOK
  <1>4. BoostInv'
    BY <1>a, <1>c, <1>3 DEF IInv, BoostInv
  <1> QED BY <1>1, <1>2, <1>4 DEF IInv

LEMMA RebroadcastIInv ==
    ASSUME IInv, NEW e \in wtodo, NEW reached \in BOOLEAN, NEW ok \in BOOLEAN,
           Rebroadcast(e, reached, ok)
    PROVE  IInv'
  <1> USE DEF Rebroadcast, Broadcast, AfterResend, NextSigner, sendVars
  <1> DEFINE x == [TxOf(e) EXCEPT !.fee = ResendFee(e)]
  <1>a. UNCHANGED <<sendVars, txstore, wnonce, wfee, crashes, log, mined, accountNonce>>
    OBVIOUS
  <1>b. /\ x \in Tx
        /\ x.signer = e.signer /\ x.nonce = e.nonce /\ x.content = e.content
    BY DEF IInv, TypeOK, StoredTx, Tx, TxOf, ResendFee
  <1>c. network' \subseteq network \union {x}
    OBVIOUS
  <1>d. /\ wpc' \in {"idle", "count", "resend"} /\ wsigner' \in Signers
        /\ wtodo' \subseteq wtodo
        /\ wpc' = "resend" => wpc \in {"resend", "rebroadcast"} /\ wsigner' = wsigner
    BY DEF IInv, TypeOK, Signers
  <1> HIDE DEF x, Rebroadcast, Broadcast, AfterResend, NextSigner
  <1>1. TypeOK'
    BY <1>a, <1>b, <1>c, <1>d DEF IInv, TypeOK
  <1>2. MutexInv'
    BY <1>a DEF IInv, MutexInv
  <1>3. AgreeInv'
    BY <1>a, <1>b, <1>c, <1>d DEF IInv, AgreeInv, LogHolds
  <1>4. CoverInv'
    BY <1>a DEF IInv, CoverInv, IsStored
  <1>5. NonceInv'
    BY <1>a DEF IInv, NonceInv, IsStored
  <1>6. MarkInv'
    BY <1>a DEF IInv, MarkInv, TxOf
  <1>7. BoostInv'
    BY <1>a, <1>d DEF IInv, BoostInv
  <1> QED BY <1>1, <1>2, <1>3, <1>4, <1>5, <1>6, <1>7 DEF IInv

LEMMA ResendRefusedIInv ==
    ASSUME IInv, NEW e \in wtodo, ResendRefused(e)
    PROVE  IInv'
  <1> USE DEF ResendRefused, AfterResend, NextSigner, chainVars, sendVars
  <1>a. /\ wpc' \in {"idle", "count", "resend"} /\ wsigner' \in Signers
        /\ wtodo' \subseteq wtodo
        /\ wpc' = "resend" => wpc \in {"resend", "rebroadcast"} /\ wsigner' = wsigner
    BY DEF IInv, TypeOK, Signers
  <1>1. TypeOK'
    BY <1>a DEF IInv, TypeOK
  <1>2. MutexInv'
    BY SignerAssumption DEF IInv, TypeOK, MutexInv, SignerAssumption
  <1>3. AgreeInv'
    BY DEF IInv, TypeOK, AgreeInv, LogHolds
  <1>4. CoverInv'
    BY DEF IInv, TypeOK, CoverInv, IsStored
  <1>5. NonceInv'
    BY DEF IInv, TypeOK, NonceInv, IsStored
  <1>6. MarkInv'
    BY DEF IInv, TypeOK, MarkInv, TxOf
  <1>7. BoostInv'
    BY DEF IInv, TypeOK, BoostInv, IsStored
  <1> QED BY <1>1, <1>2, <1>3, <1>4, <1>5, <1>6, <1>7 DEF IInv

LEMMA WorkerFailsIInv ==
    ASSUME IInv, WorkerFails
    PROVE  IInv'
  <1> USE DEF WorkerFails, chainVars, sendVars
  <1>1. TypeOK'
    BY DEF IInv, TypeOK, Signers
  <1>2. MutexInv'
    BY SignerAssumption DEF IInv, TypeOK, MutexInv, SignerAssumption
  <1>3. AgreeInv'
    BY DEF IInv, TypeOK, AgreeInv, LogHolds
  <1>4. CoverInv'
    BY DEF IInv, TypeOK, CoverInv, IsStored
  <1>5. NonceInv'
    BY DEF IInv, TypeOK, NonceInv, IsStored
  <1>6. MarkInv'
    BY DEF IInv, TypeOK, MarkInv, TxOf
  <1>7. BoostInv'
    BY DEF IInv, TypeOK, BoostInv, IsStored
  <1> QED BY <1>1, <1>2, <1>3, <1>4, <1>5, <1>6, <1>7 DEF IInv

LEMMA MineIInv ==
    ASSUME IInv, NEW tx \in network, Mine(tx)
    PROVE  IInv'
  <1> USE DEF Mine, workerVars, sendVars
  <1> DEFINE s == tx.signer
             n == accountNonce[s]
  <1>a. s \in Signers /\ n \in Nat /\ Len(log[s]) \in Nat /\ tx \in Tx
    BY DEF IInv, TypeOK, Tx
  <1>b. n < Len(log[s])
    BY DEF IInv, AgreeInv, LogHolds
  <1>c. /\ accountNonce' \in [Signers -> Nat] /\ accountNonce'[s] = n + 1
        /\ \A t \in Signers : t # s => accountNonce'[t] = accountNonce[t]
        /\ \A t \in Signers : accountNonce[t] <= accountNonce'[t]
    BY <1>a DEF IInv, TypeOK
  <1>d. IsStored(s, n)
    BY <1>a, <1>b DEF IInv, CoverInv
  <1>e. /\ UNCHANGED <<sendVars, txstore, workerVars, network, crashes, log>>
        /\ mined' = mined \union {tx} /\ tx.nonce = n
    OBVIOUS
  <1> HIDE DEF Mine, s, n
  <1>1. TypeOK'
    BY <1>a, <1>c, <1>e DEF IInv, TypeOK
  <1>2. MutexInv'
    BY <1>e DEF IInv, MutexInv
  <1>3. AgreeInv'
    BY <1>e DEF IInv, AgreeInv, LogHolds
  <1>4. CoverInv'
    <2>1. ASSUME NEW t \in Signers
          PROVE  /\ accountNonce'[t] <= Len(log[t])
                 /\ \A k \in 0..(Len(log[t]) - 1) : k < accountNonce'[t] \/ IsStored(t, k)
      <3>1. CASE t = s
        BY <3>1, <1>a, <1>b, <1>c DEF IInv, CoverInv, n
      <3>2. CASE t # s
        BY <3>2, <1>c DEF IInv, CoverInv
      <3> QED BY <3>1, <3>2
    <2> QED BY <2>1, <1>e DEF CoverInv, IsStored
  <1>5. NonceInv'
    <2>1. ASSUME NEW q \in Requests, pc[q] = "putting",
                 txNonce[q] < accountNonce'[SignerOf[q]]
          PROVE  IsStored(SignerOf[q], txNonce[q])
      <3>1. SignerOf[q] \in Signers /\ txNonce[q] \in Nat
        BY SignerAssumption DEF SignerAssumption, IInv, TypeOK
      <3>2. CASE txNonce[q] < accountNonce[SignerOf[q]]
        BY <2>1, <3>2 DEF IInv, NonceInv
      <3>3. CASE ~(txNonce[q] < accountNonce[SignerOf[q]])
        <4>1. SignerOf[q] = s
          BY <2>1, <3>1, <3>3, <1>c
        <4>2. txNonce[q] = n
          BY <2>1, <3>1, <3>3, <4>1, <1>a, <1>c DEF n
        <4> QED BY <4>1, <4>2, <1>d
      <3> QED BY <3>2, <3>3
    <2> QED BY <2>1, <1>e DEF IInv, NonceInv, IsStored
  <1>6. MarkInv'
    <2>1. \A x \in mined' : x.nonce < accountNonce'[x.signer]
      <3>1. ASSUME NEW x \in mined PROVE x.nonce < accountNonce'[x.signer]
        <4>1. /\ x.signer \in Signers /\ x.nonce \in Nat
              /\ x.nonce < accountNonce[x.signer] /\ accountNonce[x.signer] \in Nat
          BY DEF IInv, TypeOK, Tx, MarkInv
        <4>2. accountNonce[x.signer] <= accountNonce'[x.signer] /\ accountNonce'[x.signer] \in Nat
          BY <4>1, <1>c
        <4> QED BY <4>1, <4>2
      <3>2. tx.nonce < accountNonce'[tx.signer]
        BY <1>a, <1>c, <1>e DEF s
      <3> QED BY <3>1, <3>2, <1>e
    <2> QED BY <2>1, <1>e DEF IInv, MarkInv, TxOf
  <1>7. BoostInv'
    BY <1>e DEF IInv, BoostInv, IsStored
  <1> QED BY <1>1, <1>2, <1>3, <1>4, <1>5, <1>6, <1>7 DEF IInv

LEMMA RestartIInv ==
    ASSUME IInv, Restart
    PROVE  IInv'
  <1> USE DEF Restart, chainVars
  <1>1. TypeOK'
    BY FeeAssumption DEF FeeAssumption, IInv, TypeOK, Signers
  <1>2. MutexInv'
    BY SignerAssumption DEF IInv, TypeOK, MutexInv, SignerAssumption
  <1>3. AgreeInv'
    BY DEF IInv, TypeOK, AgreeInv, LogHolds
  <1>4. CoverInv'
    BY DEF IInv, TypeOK, CoverInv, IsStored
  <1>5. NonceInv'
    BY DEF IInv, TypeOK, NonceInv, IsStored
  <1>6. MarkInv'
    BY DEF IInv, TypeOK, MarkInv, TxOf
  <1>7. BoostInv'
    BY DEF IInv, TypeOK, BoostInv, IsStored
  <1> QED BY <1>1, <1>2, <1>3, <1>4, <1>5, <1>6, <1>7 DEF IInv

(* Every step of the pipeline preserves the inductive invariant. *)
LEMMA NextIInv ==
    ASSUME IInv, [Next]_vars
    PROVE  IInv'
  <1>1. ASSUME NEW r \in Requests, SendNext(r)
        PROVE  IInv'
    BY <1>1, AcquireMutexIInv, PollNonceIInv, PollFailsIInv, PutTxIInv, SendTxIInv
       DEF SendNext
  <1>2. CASE WorkerNext
    BY <1>2, StartFillIInv, FillMinedIInv, RemoveArchivedIInv, BoostCountIInv,
       BoostLoadIInv, ResendTransactionIInv, RebroadcastIInv, ResendRefusedIInv,
       WorkerFailsIInv
       DEF WorkerNext
  <1>3. ASSUME NEW tx \in network, Mine(tx)
        PROVE  IInv'
    BY <1>3, MineIInv
  <1>4. CASE Restart
    BY <1>4, RestartIInv
  <1>6. ASSUME NEW p \in PendingCounts(Worker), NEW old \in 0..p, ValidateMaxNonce(old)
        PROVE  IInv'
    BY <1>6, ValidateMaxNonceIInv
  <1>5. CASE UNCHANGED vars
    BY <1>5 DEF vars, IInv, TypeOK, MutexInv, AgreeInv, CoverInv, NonceInv, MarkInv,
       BoostInv, LogHolds, IsStored, TxOf
  <1> QED BY <1>1, <1>2, <1>3, <1>4, <1>5, <1>6 DEF Next

(* The inductive invariant holds in every reachable state, whatever the    *)
(* number of sendTransaction calls, crashes, boosts and failed broadcasts. *)
THEOREM Invariance == Spec => []IInv
  <1>1. Init => IInv
    BY InitIInv
  <1>2. IInv /\ [Next]_vars => IInv'
    BY NextIInv
  <1> QED BY <1>1, <1>2, PTL DEF Spec

(* Every field of the server, its store and the chain keeps its type. *)
THEOREM TypeCorrect == Spec => []TypeOK
  <1>1. IInv => TypeOK
    BY DEF IInv
  <1> QED BY <1>1, Invariance, PTL

(* The server never makes itself penalizable: no two transactions of one   *)
(* key and nonce with different contents ever reach the network.           *)
THEOREM NeverPenalizable == Spec => []NoPenalizableConflict
  <1>1. IInv => NoPenalizableConflict
    BY DEF IInv, AgreeInv, LogHolds, NoPenalizableConflict, SameSlot
  <1> QED BY <1>1, Invariance, PTL

(* "Boosting: missing nonce" is never thrown: the nonce a boosting pass    *)
(* read from the chain is stored whenever a later one is.                  *)
THEOREM BoostNeverMisses == Spec => []BoostFindsOldest
  <1>1. IInv => BoostFindsOldest
    <2>1. SUFFICES ASSUME IInv, wpc = "load", NEW e \in PendingTxs
                   PROVE  \E f \in PendingTxs : f.nonce = wnonce
      BY DEF BoostFindsOldest
    <2>2. /\ e.signer = wsigner /\ e.nonce >= wnonce /\ e.nonce < Len(log[wsigner])
          /\ e.nonce \in Nat /\ wnonce \in Nat /\ Len(log[wsigner]) \in Nat
      BY <2>1 DEF PendingTxs, IInv, AgreeInv, LogHolds, TypeOK, StoredTx
    <2>3. IsStored(wsigner, wnonce)
      BY <2>1, <2>2 DEF IInv, BoostInv
    <2> QED BY <2>2, <2>3 DEF IsStored, PendingTxs
  <1> QED BY <1>1, Invariance, PTL

(* A step that takes a nonce out of the store is a pruning step, and what  *)
(* it prunes was executed under the stored hash.                           *)
LEMMA PruneStep ==
    ASSUME IInv, [Next]_vars
    PROVE  OnlyMinedArePrunedStep
  <1>1. SUFFICES ASSUME NEW e \in txstore, \A f \in txstore' : ~SameSlot(e, f)
                 PROVE  TxOf(e) \in mined
    BY DEF OnlyMinedArePrunedStep
  <1>2. ASSUME txstore \subseteq txstore' PROVE FALSE
    BY <1>1, <1>2 DEF SameSlot
  <1>3. ASSUME NEW f, txstore' = Overwritten(f) PROVE FALSE
    BY <1>1, <1>3 DEF SameSlot, Overwritten
  <1>4. ASSUME NEW r \in Requests, SendNext(r) PROVE FALSE
    BY <1>4, <1>2 DEF SendNext, AcquireMutex, PollNonce, PollFails, PutTx, SendTx
  <1>5. CASE WorkerNext
    <2>1. ASSUME NEW old \in SUBSET {f \in txstore : f.mined},
                 RemoveArchivedTransactions(old)
          PROVE  TxOf(e) \in mined
      <3>1. e \in old
        BY <1>1, <2>1 DEF RemoveArchivedTransactions, SameSlot
      <3> QED BY <3>1 DEF IInv, MarkInv
    <2>2. ASSUME NEW f \in wtodo, FillMined(f) PROVE FALSE
      BY <2>2, <1>2, <1>3 DEF FillMined
    <2>3. ASSUME NEW f \in wtodo, ResendTransaction(f) PROVE FALSE
      BY <2>3, <1>3 DEF ResendTransaction
    <2>4. CASE UNCHANGED txstore
      BY <2>4, <1>2
    <2> QED BY <1>5, <2>1, <2>2, <2>3, <2>4
       DEF WorkerNext, StartFill, BoostCount, BoostLoad, Rebroadcast, ResendRefused,
           WorkerFails
  <1>6. CASE UNCHANGED txstore
    BY <1>6, <1>2
  <1> QED BY <1>4, <1>5, <1>6 DEF Next, ValidateMaxNonce, Mine, Restart, vars

(* Nothing that could still need a resend leaves the store. *)
THEOREM PruningIsSafe == Spec => OnlyMinedArePruned
  <1>1. IInv /\ [Next]_vars => [OnlyMinedArePrunedStep]_vars
    BY PruneStep
  <1> QED BY <1>1, Invariance, PTL DEF Spec, OnlyMinedArePruned

(* A broadcast of a logged transaction is a Publish step of the log, or    *)
(* changes nothing the log specification sees.                             *)
LEMMA BroadcastPublishes ==
    ASSUME IInv, NEW x \in Tx, LogHolds(x.signer, x.nonce, x.content),
           NEW reached \in BOOLEAN, NEW ok \in BOOLEAN, Broadcast(x, reached, ok),
           UNCHANGED log
    PROVE  NL!LogNext \/ UNCHANGED NL!logVars
  <1> DEFINE p == [signer |-> x.signer, nonce |-> x.nonce, content |-> x.content]
  <1>1. /\ network' = IF reached THEN network \union {x} ELSE network
        /\ UNCHANGED accountNonce
    BY DEF Broadcast
  <1>2. CASE ~reached
    BY <1>1, <1>2 DEF NL!logVars, Published
  <1>3. CASE reached
    <2>1. Published' = Published \union {p}
      BY <1>1, <1>3 DEF Published
    <2>2. /\ x.signer \in Signers /\ x.nonce \in 0..(Len(log[x.signer]) - 1)
          /\ log[x.signer][x.nonce + 1] = x.content
      BY DEF LogHolds, Tx, IInv, TypeOK
    <2>3. NL!Publish(x.signer, x.nonce)
      BY <1>1, <2>1, <2>2 DEF NL!Publish, LogHolds
    <2> QED BY <2>2, <2>3 DEF NL!LogNext
  <1> QED BY <1>2, <1>3

LEMMA StepRefines ==
    ASSUME IInv, [Next]_vars
    PROVE  [NL!LogNext]_(NL!logVars)
  <1>0. CASE UNCHANGED <<log, network, accountNonce>>
    BY <1>0 DEF NL!logVars, Published
  <1>1. ASSUME NEW r \in Requests, SendNext(r)
        PROVE  [NL!LogNext]_(NL!logVars)
    <2>1. SignerOf[r] \in Signers
      BY SignerAssumption DEF SignerAssumption
    <2>2. CASE PutTx(r)
      <3>1. CASE UNCHANGED log
        BY <2>2, <3>1, <1>0 DEF PutTx, chainVars
      <3>2. CASE log' = [log EXCEPT ![SignerOf[r]] = Append(@, r)]
        <4>1. UNCHANGED <<network, accountNonce>>
          BY <2>2 DEF PutTx, chainVars
        <4>2. NL!AppendTo(SignerOf[r], r)
          BY <3>2, <4>1 DEF NL!AppendTo, Published
        <4> QED BY <2>1, <4>2 DEF NL!LogNext
      <3> QED BY <2>2, <3>1, <3>2 DEF PutTx
    <2>3. ASSUME NEW reached \in BOOLEAN, NEW ok \in BOOLEAN, SendTx(r, reached, ok)
          PROVE  [NL!LogNext]_(NL!logVars)
      <3> DEFINE x == [signer |-> SignerOf[r], nonce |-> txNonce[r], content |-> r,
                       fee |-> txFee[r]]
      <3>1. Broadcast(x, reached, ok) /\ pc[r] = "sending" /\ UNCHANGED log
        BY <2>3 DEF SendTx
      <3>2. /\ x \in Tx
            /\ x.signer = SignerOf[r] /\ x.nonce = txNonce[r] /\ x.content = r
        BY <2>1 DEF IInv, TypeOK, Tx
      <3>3. LogHolds(x.signer, x.nonce, x.content)
        BY <3>1, <3>2 DEF IInv, AgreeInv
      <3> HIDE DEF x
      <3> QED BY <3>1, <3>2, <3>3, BroadcastPublishes
    <2> QED BY <1>0, <1>1, <2>2, <2>3
       DEF SendNext, AcquireMutex, PollNonce, PollFails, chainVars
  <1>2. CASE WorkerNext
    <2>1. ASSUME NEW e \in wtodo, NEW reached \in BOOLEAN, NEW ok \in BOOLEAN,
                 Rebroadcast(e, reached, ok)
          PROVE  [NL!LogNext]_(NL!logVars)
      <3> DEFINE x == [TxOf(e) EXCEPT !.fee = ResendFee(e)]
      <3>1. Broadcast(x, reached, ok) /\ UNCHANGED log
        BY <2>1 DEF Rebroadcast
      <3>2. /\ x \in Tx
            /\ x.signer = e.signer /\ x.nonce = e.nonce /\ x.content = e.content
        BY DEF IInv, TypeOK, StoredTx, Tx, TxOf, ResendFee
      <3>3. LogHolds(x.signer, x.nonce, x.content)
        BY <3>2 DEF IInv, AgreeInv
      <3> HIDE DEF x
      <3> QED BY <3>1, <3>2, <3>3, BroadcastPublishes
    <2> QED BY <1>0, <1>2, <2>1
       DEF WorkerNext, StartFill, FillMined, RemoveArchivedTransactions, BoostCount,
           BoostLoad, ResendTransaction, ResendRefused, WorkerFails, chainVars
  <1>3. ASSUME NEW tx \in network, Mine(tx)
        PROVE  [NL!LogNext]_(NL!logVars)
    <2> DEFINE p == [signer |-> tx.signer, nonce |-> tx.nonce, content |-> tx.content]
    <2>0. p \in Published
      BY DEF Published
    <2>1. tx.signer \in Signers /\ p.signer = tx.signer /\ p.nonce = accountNonce[tx.signer]
      BY <1>3 DEF IInv, TypeOK, Tx, Mine
    <2>2. NL!Execute(tx.signer)
      BY <1>3, <2>0, <2>1 DEF NL!Execute, Mine, Published
    <2> QED BY <2>1, <2>2 DEF NL!LogNext
  <1> QED BY <1>0, <1>1, <1>2, <1>3 DEF Next, ValidateMaxNonce, Restart, vars, chainVars

(* The pipeline implements NonceLog: an append-only log per key of which   *)
(* only logged contents are published and executed in order.               *)
THEOREM RefinesNonceLog == Spec => ImplementsNonceLog
  <1>1. Init => NL!LogInit
    BY DEF Init, NL!LogInit, Published
  <1>2. IInv /\ [Next]_vars => [NL!LogNext]_(NL!logVars)
    BY StepRefines
  <1> QED BY <1>1, <1>2, Invariance, PTL DEF Spec, ImplementsNonceLog, NL!LogSpec
=============================================================================
