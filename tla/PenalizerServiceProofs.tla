---------------------- MODULE PenalizerServiceProofs ----------------------
(***************************************************************************)
(* Proofs about PenalizerService for any number of penalizations,          *)
(* offenders, handlers and crashes, any delay and any expiration.          *)
(***************************************************************************)
EXTENDS PenalizerService, InductionLemmas, TLAPS

(* The service's commit is mined once, and a hash that has a commit        *)
(* standing has slashed less often than it was committed: the contract's   *)
(* delete uses a commit up.                                                *)
Standing(p) == IF commits[p] # 0 THEN 1 ELSE 0

CommitInv ==
    \A p \in Penalizations :
        /\ p \in commitTxs \/ phase[p] # "done" => commitEvents[p] = 0
        /\ p \in commitTxs => phase[p] = "done"
        /\ revealed[p] + Standing(p) <= Mined(p) + repeats[p]

LEMMA InitCommitInv == Init => CommitInv
  BY DEF Init, CommitInv, Standing, Mined

LEMMA RequestCommitInv ==
    ASSUME TypeOK, CommitInv, NEW p \in Penalizations, NEW ok \in BOOLEAN,
           ValidateTransaction(p) \/ ScheduleReveal(p) \/ SendCommit(p, ok)
    PROVE  CommitInv'
  <1> USE DEF CommitInv, TypeOK, contractVars, Standing, Mined
  <1>1. CASE ValidateTransaction(p)
    BY <1>1 DEF ValidateTransaction
  <1>2. CASE ScheduleReveal(p)
    BY <1>2 DEF ScheduleReveal
  <1>3. CASE SendCommit(p, ok)
    BY <1>3 DEF SendCommit
  <1> QED BY <1>1, <1>2, <1>3

LEMMA ReadyBlockType ==
    ASSUME TypeOK PROVE ReadyBlock \in Nat /\ ReadyBlock # 0
  BY BlockAssumption DEF BlockAssumption, TypeOK, ReadyBlock

LEMMA ContractCommitInv ==
    ASSUME TypeOK, CommitInv, NEW p \in Penalizations,
           Commit(p) \/ CommitByOther(p) \/ Reveal(p)
    PROVE  CommitInv'
  <1>0. /\ ReadyBlock \in Nat /\ ReadyBlock # 0
        /\ commits \in [Penalizations -> Nat] /\ commitEvents \in [Penalizations -> Nat]
        /\ repeats \in [Penalizations -> Nat] /\ revealed \in [Penalizations -> Nat]
    BY ReadyBlockType DEF TypeOK
  <1> USE DEF CommitInv, Standing, Mined
  <1>1. CASE Commit(p)
    <2>1. /\ commits' = [commits EXCEPT ![p] = ReadyBlock] /\ p \in commitTxs
          /\ commitEvents' = [commitEvents EXCEPT ![p] = ReadyBlock]
          /\ commitTxs' = commitTxs \ {p} /\ UNCHANGED <<phase, repeats, revealed>>
      BY <1>1 DEF Commit
    <2>2. phase[p] = "done" /\ commitEvents[p] = 0
      BY <2>1
    <2> QED BY <1>0, <2>1, <2>2
  <1>2. CASE CommitByOther(p)
    <2>1. /\ commits' = [commits EXCEPT ![p] = ReadyBlock]
          /\ repeats' = [repeats EXCEPT ![p] = @ + 1]
          /\ UNCHANGED <<phase, commitTxs, commitEvents, revealed>>
      BY <1>2 DEF CommitByOther
    <2> QED BY <1>0, <2>1
  <1>3. CASE Reveal(p) /\ CanPenalize(p)
    <2>1. /\ commits' = [commits EXCEPT ![p] = 0]
          /\ revealed' = [revealed EXCEPT ![p] = @ + 1]
          /\ UNCHANGED <<commitEvents, repeats, phase, commitTxs>>
      BY <1>3 DEF Reveal, Penalize
    <2>2. commits[p] # 0
      BY <1>3 DEF CanPenalize
    <2> QED BY <1>0, <2>1, <2>2
  <1>4. CASE Reveal(p) /\ ~CanPenalize(p)
    BY <1>4 DEF Reveal
  <1> QED BY <1>1, <1>2, <1>3, <1>4

LEMMA HandlerCommitInv ==
    ASSUME CommitInv, NEW h \in Handlers, HandlerNext(h)
    PROVE  CommitInv'
  <1>1. UNCHANGED <<commits, commitEvents, repeats, revealed, phase, commitTxs>>
    BY DEF HandlerNext, StartHandler, QueryReadyBlocks, GetBlockNumber, HandlerFails,
       ExecuteDelayedPenalization, contractVars
  <1> QED BY <1>1 DEF CommitInv, Standing, Mined

LEMMA NextCommitInv ==
    ASSUME TypeOK, CommitInv, [Next]_vars
    PROVE  CommitInv'
  <1> USE DEF CommitInv, Standing, Mined
  <1>1. ASSUME NEW p \in Penalizations,
               \/ ValidateTransaction(p) \/ ScheduleReveal(p)
               \/ \E ok \in BOOLEAN : SendCommit(p, ok)
        PROVE  CommitInv'
    BY <1>1, RequestCommitInv
  <1>2. ASSUME NEW p \in Penalizations, Commit(p) \/ CommitByOther(p) \/ Reveal(p)
        PROVE  CommitInv'
    BY <1>2, ContractCommitInv
  <1>3. ASSUME NEW h \in Handlers, HandlerNext(h) PROVE CommitInv'
    BY <1>3, HandlerCommitInv
  <1>4. ASSUME NEW o \in Offenders, Restake(o) PROVE CommitInv'
    BY <1>4 DEF Restake
  <1>5. CASE NextBlock
    BY <1>5 DEF NextBlock
  <1>6. CASE Restart
    BY <1>6 DEF Restart, contractVars
  <1>7. CASE UNCHANGED vars
    BY <1>7 DEF vars
  <1> QED BY <1>1, <1>2, <1>3, <1>4, <1>5, <1>6, <1>7 DEF Next

----------------------------------------------------------------------------
(* The schedule and the handlers keep their types.                         *)
LEMMA SpliceType ==
    ASSUME NEW s \in Seq(Penalizations), scheduled = s, NEW p
    PROVE  Splice(p) \in Seq(Penalizations)
  <1>1. Filtered(s, Penalizations \ {p}) \in Seq(Penalizations)
    BY FilteredElements
  <1>2. s # << >> => Front(s) \in Seq(Penalizations)
    BY DEF Front
  <1>3. << >> \in Seq(Penalizations)
    OBVIOUS
  <1> QED BY <1>1, <1>2, <1>3, Zenon DEF Splice

LEMMA NextPenalizationType ==
    ASSUME TypeOK, NEW h \in Handlers, NEW todo \in Seq(Penalizations),
           NextPenalization(h, todo)
    PROVE  /\ htodo' \in [Handlers -> Seq(Penalizations)]
           /\ hpc' \in [Handlers -> {"idle", "query", "block", "loop", "sending"}]
           /\ \A g \in Handlers : hpc'[g] = "sending" <=> htodo'[g] # << >>
           /\ scheduled' \in Seq(Penalizations)
  <1>1. /\ scheduled \in Seq(Penalizations) /\ htodo \in [Handlers -> Seq(Penalizations)]
        /\ hpc \in [Handlers -> {"idle", "query", "block", "loop", "sending"}]
        /\ \A g \in Handlers : hpc[g] = "sending" <=> htodo[g] # << >>
    BY DEF TypeOK
  <1>2. /\ htodo' = [htodo EXCEPT ![h] = todo]
        /\ todo = << >> => hpc' = [hpc EXCEPT ![h] = "idle"] /\ scheduled' = scheduled
        /\ todo # << >> => /\ hpc' = [hpc EXCEPT ![h] = "sending"]
                           /\ scheduled' = Splice(Head(todo))
    BY Zenon DEF NextPenalization
  <1>3. scheduled' \in Seq(Penalizations)
    BY <1>1, <1>2, SpliceType
  <1>4. htodo'[h] = todo /\ \A g \in Handlers \ {h} : htodo'[g] = htodo[g] /\ hpc'[g] = hpc[g]
    BY <1>1, <1>2
  <1>5. hpc'[h] = "sending" <=> todo # << >>
    BY <1>1, <1>2
  <1> QED BY <1>1, <1>2, <1>3, <1>4, <1>5

LEMMA InitTypeOK == Init => TypeOK
  <1>1. << >> \in Seq(Penalizations)
    OBVIOUS
  <1> QED BY <1>1, BlockAssumption DEF Init, TypeOK, BlockAssumption

LEMMA HandlerType ==
    ASSUME TypeOK, NEW h \in Handlers, HandlerNext(h)
    PROVE  TypeOK'
  <1> USE DEF TypeOK, contractVars
  <1>1. CASE StartHandler(h)
    <2>1. ToSet(scheduled) \subseteq Penalizations
      BY DEF ToSet
    <2> QED BY <1>1, <2>1 DEF StartHandler
  <1>2. CASE QueryReadyBlocks(h)
    BY <1>2 DEF QueryReadyBlocks
  <1>3. CASE GetBlockNumber(h)
    <2> DEFINE due == Filtered(scheduled, {p \in Penalizations : IsReady(p)})
    <2>1. due \in Seq(Penalizations)
      BY FilteredElements
    <2> HIDE DEF due
    <2>2. NextPenalization(h, due)
      BY <1>3 DEF GetBlockNumber, due
    <2>3. UNCHANGED <<contractVars, ready, phase, hset, commitTxs, revealTxs, attempts, crashes>>
      BY <1>3 DEF GetBlockNumber
    <2> QED BY <2>1, <2>2, <2>3, NextPenalizationType
  <1>4. ASSUME NEW sent \in BOOLEAN, NEW throws \in BOOLEAN,
               ExecuteDelayedPenalization(h, sent, throws)
        PROVE  TypeOK'
    <2>1. /\ htodo[h] \in Seq(Penalizations) /\ htodo[h] # << >>
          /\ Head(htodo[h]) \in Penalizations /\ Tail(htodo[h]) \in Seq(Penalizations)
      BY <1>4 DEF ExecuteDelayedPenalization
    <2> DEFINE p == Head(htodo[h])
    <2>2. /\ attempts' = [attempts EXCEPT ![p] = @ + 1]
          /\ revealTxs' \in {[revealTxs EXCEPT ![p] = @ + 1], revealTxs}
          /\ UNCHANGED <<contractVars, ready, phase, hset, commitTxs, crashes>>
      BY <1>4 DEF ExecuteDelayedPenalization
    <2>3. p \in Penalizations
      BY <2>1
    <2> HIDE DEF p
    <2>6. attempts' \in [Penalizations -> Nat]
      BY <2>2, <2>3
    <2>7. revealTxs' \in [Penalizations -> Nat]
      <3>1. CASE revealTxs' = revealTxs
        BY <3>1
      <3>2. CASE revealTxs' = [revealTxs EXCEPT ![p] = @ + 1]
        BY <2>3, <3>2
      <3> QED BY <2>2, <3>1, <3>2, Zenon
    <2>4. CASE throws
      <3>1. /\ hpc' = [hpc EXCEPT ![h] = "idle"] /\ htodo' = [htodo EXCEPT ![h] = << >>]
            /\ UNCHANGED scheduled
        BY <1>4, <2>4 DEF ExecuteDelayedPenalization
      <3>2. << >> \in Seq(Penalizations)
        OBVIOUS
      <3> QED BY <2>2, <2>6, <2>7, <3>1, <3>2
    <2>5. CASE ~throws
      <3>1. NextPenalization(h, Tail(htodo[h]))
        BY <1>4, <2>5 DEF ExecuteDelayedPenalization
      <3> QED BY <2>1, <2>2, <2>6, <2>7, <3>1, NextPenalizationType
    <2> QED BY <2>4, <2>5
  <1>5. CASE HandlerFails(h)
    BY <1>5 DEF HandlerFails
  <1> QED BY <1>1, <1>2, <1>3, <1>4, <1>5 DEF HandlerNext

LEMMA NextType ==
    ASSUME TypeOK, [Next]_vars
    PROVE  TypeOK'
  <1> USE DEF TypeOK, contractVars, handlerVars
  <1>1. ASSUME NEW p \in Penalizations, ValidateTransaction(p) PROVE TypeOK'
    BY <1>1 DEF ValidateTransaction
  <1>2. ASSUME NEW p \in Penalizations, ScheduleReveal(p) PROVE TypeOK'
    <2>1. scheduled' \in Seq(Penalizations)
      BY <1>2 DEF ScheduleReveal
    <2> QED BY <1>2, <2>1 DEF ScheduleReveal
  <1>3. ASSUME NEW p \in Penalizations, NEW ok \in BOOLEAN, SendCommit(p, ok) PROVE TypeOK'
    BY <1>3 DEF SendCommit
  <1>4. ASSUME NEW p \in Penalizations, Commit(p) PROVE TypeOK'
    BY <1>4, ReadyBlockType DEF Commit
  <1>10. ASSUME NEW p \in Penalizations, CommitByOther(p) PROVE TypeOK'
    <2>1. /\ repeats' = [repeats EXCEPT ![p] = @ + 1]
          /\ commits' = [commits EXCEPT ![p] = ReadyBlock]
          /\ foreign' = foreign \union {p}
          /\ UNCHANGED <<block, commitEvents, slashed, revealed, scheduled, ready, phase,
                         handlerVars, commitTxs, revealTxs, attempts, crashes>>
      BY <1>10 DEF CommitByOther
    <2>2. repeats' \in [Penalizations -> Nat]
      BY <2>1
    <2>3. ReadyBlock \in Nat
      BY ReadyBlockType
    <2>4. commits' \in [Penalizations -> Nat]
      BY <2>1, <2>3
    <2> QED BY <2>1, <2>2, <2>4
  <1>5. ASSUME NEW p \in Penalizations, Reveal(p) PROVE TypeOK'
    <2>1. revealTxs' \in [Penalizations -> Nat]
      BY <1>5 DEF Reveal
    <2>2. /\ slashed' \subseteq Offenders /\ revealed' \in [Penalizations -> Nat]
          /\ commits' \in [Penalizations -> Nat]
      <3>1. CASE CanPenalize(p)
        <4>1. Penalize(p)
          BY <1>5, <3>1 DEF Reveal
        <4>2. OffenderOf[p] \in Offenders
          BY PenalizationAssumption DEF PenalizationAssumption
        <4> QED BY <4>1, <4>2 DEF Penalize
      <3>2. CASE ~CanPenalize(p)
        BY <1>5, <3>2 DEF Reveal
      <3> QED BY <3>1, <3>2
    <2> QED BY <1>5, <2>1, <2>2 DEF Reveal
  <1>6. ASSUME NEW o \in Offenders, Restake(o) PROVE TypeOK'
    BY <1>6 DEF Restake
  <1>7. CASE NextBlock
    BY <1>7, BlockAssumption DEF BlockAssumption, NextBlock
  <1>8. CASE Restart
    <2>1. << >> \in Seq(Penalizations)
      OBVIOUS
    <2> QED BY <1>8, <2>1 DEF Restart
  <1>9. CASE UNCHANGED vars
    BY <1>9 DEF vars
  <1> QED BY <1>1, <1>2, <1>3, <1>4, <1>5, <1>6, <1>7, <1>8, <1>9, <1>10,
             HandlerType DEF Next

(* The schedule and the handlers that share it stay well formed: what is   *)
(* spliced off, even at index -1, leaves a list of penalizations.          *)
THEOREM TypeCorrect == Spec => []TypeOK
  BY InitTypeOK, NextType, PTL DEF Spec

(* However often handlers, retries and restarts send the reveal of one     *)
(* commit, and even when the offender stakes again in between, each commit *)
(* that is mined slashes at most once: commitRevealOnly deletes it, the    *)
(* service sends it once, and a second slash needs a second commit, which  *)
(* another sender has made.                                                *)
THEOREM OneSlashPerCommit == Spec => []EachCommitSlashesOnce
  <1>1. TypeOK /\ CommitInv => EachCommitSlashesOnce
    <2>1. SUFFICES ASSUME TypeOK, CommitInv, NEW p \in Penalizations
                   PROVE  revealed[p] <= Mined(p) + repeats[p]
      BY DEF EachCommitSlashesOnce
    <2>2. /\ revealed[p] \in Nat /\ repeats[p] \in Nat /\ Mined(p) \in Nat
          /\ Standing(p) \in Nat
      BY <2>1 DEF TypeOK, Mined, Standing
    <2>3. revealed[p] + Standing(p) <= Mined(p) + repeats[p]
      BY <2>1 DEF CommitInv
    <2> QED BY <2>2, <2>3
  <1> QED BY <1>1, InitTypeOK, NextType, InitCommitInv, NextCommitInv, PTL DEF Spec

----------------------------------------------------------------------------
(* The ready block of a commit, from its event to its reveal.  What may be *)
(* revealed is a commit whose event names a block that has been mined.     *)
Due(p) == commitEvents[p] # 0 /\ commitEvents[p] <= block

DueInv ==
    /\ \A p \in Penalizations :
        /\ commits[p] # 0 /\ p \notin foreign => commits[p] = commitEvents[p]
        /\ ready[p] # 0 => ready[p] = commitEvents[p]
        /\ revealTxs[p] > 0 => Due(p)
    /\ \A h \in Handlers : \A i \in DOMAIN htodo[h] : Due(htodo[h][i])

LEMMA InitDueInv == Init => DueInv
  BY DEF Init, DueInv

LEMMA RequestDueInv ==
    ASSUME DueInv, NEW p \in Penalizations, NEW ok \in BOOLEAN,
           ValidateTransaction(p) \/ ScheduleReveal(p) \/ SendCommit(p, ok)
    PROVE  DueInv'
  <1>1. UNCHANGED <<block, commits, commitEvents, foreign, ready, revealTxs, htodo>>
    BY DEF ValidateTransaction, ScheduleReveal, SendCommit, contractVars, handlerVars
  <1> QED BY <1>1 DEF DueInv, Due

(* A commit is mined once, so a new ready block replaces none that the     *)
(* service has read or acted upon.                                         *)
LEMMA CommitDueInv ==
    ASSUME TypeOK, CommitInv, DueInv, NEW p \in Penalizations, Commit(p)
    PROVE  DueInv'
  <1> DEFINE r == ReadyBlock
  <1>1. /\ r \in Nat /\ r # 0
        /\ commitEvents \in [Penalizations -> Nat] /\ commits \in [Penalizations -> Nat]
        /\ htodo \in [Handlers -> Seq(Penalizations)]
    BY ReadyBlockType DEF TypeOK
  <1>2. /\ commitEvents' = [commitEvents EXCEPT ![p] = r] /\ commits' = [commits EXCEPT ![p] = r]
        /\ foreign' = foreign \ {p} /\ p \in commitTxs
        /\ UNCHANGED <<block, ready, htodo, revealTxs>>
    BY DEF Commit, handlerVars
  <1> HIDE DEF r
  <1>3. commitEvents[p] = 0
    BY <1>2 DEF CommitInv
  <1>4. ready[p] = 0 /\ ~(revealTxs[p] > 0)
    BY <1>3 DEF DueInv, Due
  <1>5. \A q \in Penalizations : Due(q) => q # p /\ Due(q)'
    BY <1>1, <1>2, <1>3 DEF Due
  <1>6. \A q \in Penalizations : revealTxs'[q] > 0 => Due(q)'
    BY <1>2, <1>5 DEF DueInv
  <1>7. \A h \in Handlers : \A i \in DOMAIN htodo'[h] : Due(htodo[h][i])'
    BY <1>1, <1>2, <1>5 DEF DueInv
  <1>8. \A q \in Penalizations :
          /\ commits'[q] # 0 /\ q \notin foreign' => commits'[q] = commitEvents'[q]
          /\ ready'[q] # 0 => ready'[q] = commitEvents'[q]
    BY <1>1, <1>2, <1>3, <1>4 DEF DueInv
  <1> QED BY <1>2, <1>6, <1>7, <1>8 DEF DueInv, Due

(* A commit of another sender leaves the manager's events alone. *)
LEMMA OtherDueInv ==
    ASSUME TypeOK, DueInv, NEW p \in Penalizations, CommitByOther(p)
    PROVE  DueInv'
  <1>1. /\ commits' = [commits EXCEPT ![p] = ReadyBlock] /\ foreign' = foreign \union {p}
        /\ UNCHANGED <<block, commitEvents, ready, htodo, revealTxs>>
    BY DEF CommitByOther, handlerVars
  <1>2. commits \in [Penalizations -> Nat]
    BY DEF TypeOK
  <1> QED BY <1>1, <1>2 DEF DueInv, Due

LEMMA RevealDueInv ==
    ASSUME TypeOK, DueInv, NEW p \in Penalizations, Reveal(p)
    PROVE  DueInv'
  <1>1. /\ revealTxs[p] > 0 /\ revealTxs' = [revealTxs EXCEPT ![p] = @ - 1]
        /\ UNCHANGED <<block, commitEvents, foreign, ready, htodo>>
    BY DEF Reveal, handlerVars
  <1>2. revealTxs \in [Penalizations -> Nat] /\ commits \in [Penalizations -> Nat]
    BY DEF TypeOK
  <1>3. \A q \in Penalizations : commits'[q] \in {0, commits[q]}
    BY <1>2 DEF Reveal, Penalize
  <1>4. \A q \in Penalizations : revealTxs'[q] > 0 => revealTxs[q] > 0
    BY <1>1, <1>2
  <1> QED BY <1>1, <1>3, <1>4 DEF DueInv, Due

(* What a handler still has to send stays due while it splices and sends.  *)
LEMMA NextPenalizationDue ==
    ASSUME TypeOK, DueInv, NEW h \in Handlers, NEW todo \in Seq(Penalizations),
           \A i \in DOMAIN todo : Due(todo[i]),
           NextPenalization(h, todo), UNCHANGED <<block, commitEvents>>
    PROVE  \A g \in Handlers : \A i \in DOMAIN htodo'[g] : Due(htodo[g][i])'
  <1>1. htodo \in [Handlers -> Seq(Penalizations)] /\ htodo' = [htodo EXCEPT ![h] = todo]
    BY Zenon DEF TypeOK, NextPenalization
  <1>2. htodo'[h] = todo /\ \A g \in Handlers \ {h} : htodo'[g] = htodo[g]
    BY <1>1
  <1> QED BY <1>2 DEF DueInv, Due

LEMMA HandlerDueInv ==
    ASSUME TypeOK, DueInv, NEW h \in Handlers, HandlerNext(h)
    PROVE  DueInv'
  <1> USE DEF contractVars
  <1>1. UNCHANGED <<contractVars, phase, commitTxs>>
    BY DEF HandlerNext, StartHandler, QueryReadyBlocks, GetBlockNumber, HandlerFails,
       ExecuteDelayedPenalization
  <1>2. CASE StartHandler(h) \/ HandlerFails(h)
    BY <1>1, <1>2 DEF DueInv, Due, StartHandler, HandlerFails
  <1>3. CASE QueryReadyBlocks(h)
    <2>1. \A q \in Penalizations : ready'[q] \in {ready[q], commitEvents[q]}
      BY <1>3 DEF QueryReadyBlocks
    <2>2. UNCHANGED <<htodo, revealTxs>>
      BY <1>3 DEF QueryReadyBlocks
    <2> QED BY <1>1, <2>1, <2>2 DEF DueInv, Due
  <1>4. CASE GetBlockNumber(h)
    <2> DEFINE T == {p \in Penalizations : IsReady(p)}
               due == Filtered(scheduled, T)
    <2>1. scheduled \in Seq(Penalizations)
      BY DEF TypeOK
    <2>2. NextPenalization(h, due) /\ UNCHANGED <<ready, revealTxs>>
      BY <1>4 DEF GetBlockNumber
    <2>3. \A p \in T : Due(p)
      BY DEF IsReady, Due, DueInv
    <2> HIDE DEF T
    <2>4. due \in Seq(Penalizations) /\ \A i \in DOMAIN due : due[i] \in T
      BY <2>1, FilteredElements
    <2> HIDE DEF due
    <2>5. \A g \in Handlers : \A i \in DOMAIN htodo'[g] : Due(htodo[g][i])'
      BY <1>1, <2>2, <2>3, <2>4, NextPenalizationDue
    <2> QED BY <1>1, <2>2, <2>5 DEF DueInv, Due
  <1>5. ASSUME NEW sent \in BOOLEAN, NEW throws \in BOOLEAN,
               ExecuteDelayedPenalization(h, sent, throws)
        PROVE  DueInv'
    <2> DEFINE p == Head(htodo[h])
    <2>1. /\ htodo \in [Handlers -> Seq(Penalizations)] /\ htodo[h] # << >>
          /\ revealTxs \in [Penalizations -> Nat]
      BY <1>5 DEF ExecuteDelayedPenalization, TypeOK
    <2>2. /\ p \in Penalizations /\ Due(p) /\ Tail(htodo[h]) \in Seq(Penalizations)
          /\ \A i \in DOMAIN Tail(htodo[h]) : Due(Tail(htodo[h])[i])
      BY <2>1 DEF DueInv
    <2>3. /\ revealTxs' = [revealTxs EXCEPT ![p] = @ + 1] \/ revealTxs' = revealTxs
          /\ UNCHANGED ready
          /\ \/ htodo' = [htodo EXCEPT ![h] = << >>]
             \/ NextPenalization(h, Tail(htodo[h]))
      BY <1>5 DEF ExecuteDelayedPenalization
    <2> HIDE DEF p
    <2>4. \A q \in Penalizations : revealTxs'[q] > 0 => Due(q)
      BY <2>1, <2>2, <2>3 DEF DueInv
    <2>5. \A g \in Handlers : \A i \in DOMAIN htodo'[g] : Due(htodo[g][i])'
      <3>1. CASE htodo' = [htodo EXCEPT ![h] = << >>]
        BY <1>1, <2>1, <3>1 DEF DueInv, Due
      <3>2. CASE NextPenalization(h, Tail(htodo[h]))
        BY <1>1, <2>2, <3>2, NextPenalizationDue
      <3> QED BY <2>3, <3>1, <3>2
    <2> QED BY <1>1, <2>3, <2>4, <2>5 DEF DueInv, Due
  <1> QED BY <1>2, <1>3, <1>4, <1>5 DEF HandlerNext

LEMMA NextDueInv ==
    ASSUME TypeOK, CommitInv, DueInv, [Next]_vars
    PROVE  DueInv'
  <1> USE DEF DueInv, Due, contractVars, handlerVars
  <1>1. ASSUME NEW p \in Penalizations,
               \/ ValidateTransaction(p) \/ ScheduleReveal(p)
               \/ \E ok \in BOOLEAN : SendCommit(p, ok)
        PROVE  DueInv'
    BY <1>1, RequestDueInv
  <1>2. ASSUME NEW p \in Penalizations, Commit(p) \/ CommitByOther(p) \/ Reveal(p)
        PROVE  DueInv'
    BY <1>2, CommitDueInv, OtherDueInv, RevealDueInv
  <1>3. ASSUME NEW h \in Handlers, HandlerNext(h) PROVE DueInv'
    BY <1>3, HandlerDueInv
  <1>4. ASSUME NEW o \in Offenders, Restake(o) PROVE DueInv'
    BY <1>4 DEF Restake
  <1>5. CASE NextBlock
    <2>1. block \in Int /\ commitEvents \in [Penalizations -> Nat]
      BY DEF TypeOK
    <2>2. /\ block' = block + 1
          /\ UNCHANGED <<commits, commitEvents, foreign, ready, htodo, revealTxs>>
      BY <1>5 DEF NextBlock
    <2>3. htodo \in [Handlers -> Seq(Penalizations)]
      BY DEF TypeOK
    <2>4. \A p \in Penalizations : Due(p) => Due(p)'
      BY <2>1, <2>2
    <2> HIDE DEF Due
    <2>5. \A h \in Handlers : \A i \in DOMAIN htodo[h] : htodo[h][i] \in Penalizations
      BY <2>3
    <2> QED BY <2>2, <2>4, <2>5
  <1>6. CASE Restart
    <2>1. /\ ready' = [p \in Penalizations |-> 0] /\ htodo' = [h \in Handlers |-> << >>]
          /\ phase' = [p \in Penalizations |-> IF phase[p] = "new" THEN "new" ELSE "done"]
          /\ UNCHANGED <<contractVars, commitTxs, revealTxs>>
      BY <1>6 DEF Restart
    <2> QED BY <2>1
  <1>7. CASE UNCHANGED vars
    BY <1>7 DEF vars
  <1> QED BY <1>1, <1>2, <1>3, <1>4, <1>5, <1>6, <1>7 DEF Next

(* Only a commit of the same hash by another sender makes a reveal too     *)
(* soon: from the event that a handler reads, through the shared schedule  *)
(* and the list it works off, to the transaction, the block it was         *)
(* computed for has been mined, and the transaction runs in a later one.   *)
THEOREM RevealsAreOnTime == Spec => []TooSoonOnlyByOthers
  <1>1. TypeOK /\ DueInv => TooSoonOnlyByOthers
    BY BlockAssumption DEF TypeOK, DueInv, Due, TooSoonOnlyByOthers, TooSoon, BlockAssumption
  <1> QED BY <1>1, InitTypeOK, NextType, InitCommitInv, NextCommitInv, InitDueInv, NextDueInv,
             PTL DEF Spec
===========================================================================
