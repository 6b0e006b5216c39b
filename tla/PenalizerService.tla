------------------------- MODULE PenalizerService -------------------------
(***************************************************************************)
(* The penalizer of a relay server                                         *)
(* (packages/relay/src/penalizer/PenalizerService.ts) and the commit and   *)
(* reveal steps of the Penalizer contract (packages/contracts/src/         *)
(* Penalizer.sol) that it goes through.                                    *)
(*                                                                         *)
(* A penalization is one audit request with its random value, and so also  *)
(* its commit hash, which binds the manager as the sender of the reveal;   *)
(* once the commit is sent anybody may commit the same hash.  setInterval  *)
(* starts a handler whether or not the previous one has ended: h \in       *)
(* Handlers are the handlers that may be active at once, and their steps   *)
(* are the code between two awaits.                                        *)
(***************************************************************************)
EXTENDS Integers, Sequences, SequencesExt, Filtering

CONSTANTS
    Penalizations,      \* audit requests with their commit hashes
    Penalizable,        \* those that penalize would accept in view mode
    RepeatedNonce,      \* those of type REPEATED_NONCE
    Offenders,          \* relay workers
    OffenderOf,         \* the worker each penalization is about
    Handlers,           \* invocations of intervalHandler
    PenalizeBlockDelay, PenalizeBlockExpiration,
    MaxBlock,           \* bound: the last block explored
    MaxRepeats,         \* bound: commits by other senders, in all
    MaxCrashes          \* bound: crashes explored

ASSUME PenalizationAssumption ==
    /\ Penalizable \subseteq Penalizations /\ RepeatedNonce \subseteq Penalizations
    /\ OffenderOf \in [Penalizations -> Offenders]

ASSUME BlockAssumption ==
    /\ PenalizeBlockDelay \in Nat /\ PenalizeBlockExpiration \in Nat
    /\ MaxBlock \in Nat /\ MaxRepeats \in Nat /\ MaxCrashes \in Nat

VARIABLES
    block,          \* the latest block; transactions run in the next one
    commits,        \* Penalizer.commits, by penalization
    commitEvents,   \* CommitAdded events of the manager: the ready block or 0
    foreign,        \* history: hashes last committed by another sender
    repeats,        \* history: commits of each hash by other senders
    slashed,        \* workers whose manager has lost its stake
    revealed,       \* history: reveals that succeeded, by penalization
    scheduled,      \* scheduledPenalizations
    ready,          \* readyBlockNumber of each, 0 for undefined
    phase,          \* of each penalization's audit request
    hpc,            \* where each handler is
    hset,           \* its unconfirmedPenalizations
    htodo,          \* its readyPenalizations still to be executed
    commitTxs,      \* commit transactions sent and not mined
    revealTxs,      \* reveal transactions sent and not mined, by penalization
    attempts,       \* history: reveals that were attempted, by penalization
    crashes         \* crashes so far

contractVars == <<block, commits, commitEvents, foreign, repeats, slashed, revealed>>
handlerVars  == <<hpc, hset, htodo>>
vars == <<block, commits, commitEvents, foreign, repeats, slashed, revealed,
          scheduled, ready, phase, hpc, hset, htodo, commitTxs, revealTxs, attempts, crashes>>

(* The schedule, the handlers and the chain hold what their types say, and *)
(* a handler is sending exactly while it has something left to send.       *)
TypeOK ==
    /\ block \in 0..MaxBlock
    /\ commits \in [Penalizations -> Nat]
    /\ commitEvents \in [Penalizations -> Nat]
    /\ foreign \subseteq Penalizations
    /\ repeats \in [Penalizations -> Nat]
    /\ slashed \subseteq Offenders
    /\ revealed \in [Penalizations -> Nat]
    /\ scheduled \in Seq(Penalizations)
    /\ ready \in [Penalizations -> Nat]
    /\ phase \in [Penalizations -> {"new", "validated", "committing", "done"}]
    /\ hpc \in [Handlers -> {"idle", "query", "block", "loop", "sending"}]
    /\ hset \in [Handlers -> SUBSET Penalizations]
    /\ htodo \in [Handlers -> Seq(Penalizations)]
    /\ \A h \in Handlers : hpc[h] = "sending" <=> htodo[h] # << >>
    /\ commitTxs \subseteq Penalizations
    /\ revealTxs \in [Penalizations -> Nat]
    /\ attempts \in [Penalizations -> Nat]
    /\ crashes \in Nat

Init ==
    /\ block = 0
    /\ commits = [p \in Penalizations |-> 0]
    /\ commitEvents = [p \in Penalizations |-> 0]
    /\ foreign = {}
    /\ repeats = [p \in Penalizations |-> 0]
    /\ slashed = {}
    /\ revealed = [p \in Penalizations |-> 0]
    /\ scheduled = << >>
    /\ ready = [p \in Penalizations |-> 0]
    /\ phase = [p \in Penalizations |-> "new"]
    /\ hpc = [h \in Handlers |-> "idle"]
    /\ hset = [h \in Handlers |-> {}]
    /\ htodo = [h \in Handlers |-> << >>]
    /\ commitTxs = {}
    /\ revealTxs = [p \in Penalizations |-> 0]
    /\ attempts = [p \in Penalizations |-> 0]
    /\ crashes = 0

----------------------------------------------------------------------------
(* The contract, in the block that follows `block`.  A commit is explored  *)
(* only when its ready block is within the bound.                          *)

ReadyBlock == block + 1 + PenalizeBlockDelay

Commit(p) ==
    /\ p \in commitTxs
    /\ ReadyBlock <= MaxBlock
    /\ commitTxs' = commitTxs \ {p}
    /\ commits' = [commits EXCEPT ![p] = ReadyBlock]
    /\ commitEvents' = [commitEvents EXCEPT ![p] = ReadyBlock]
    /\ foreign' = foreign \ {p}
    /\ UNCHANGED <<block, repeats, slashed, revealed, scheduled, ready, phase,
                   handlerVars, revealTxs, attempts, crashes>>

(* commit is open to any sender: it overwrites the ready block, also that  *)
(* of a commit already revealed.  The event carries its sender, and the    *)
(* service asks for the manager's only.                                    *)
CommitByOther(p) ==
    /\ p \in commitTxs \/ commitEvents[p] # 0
    /\ SumFunction(repeats) < MaxRepeats /\ ReadyBlock <= MaxBlock
    /\ repeats' = [repeats EXCEPT ![p] = @ + 1]
    /\ commits' = [commits EXCEPT ![p] = ReadyBlock]
    /\ foreign' = foreign \union {p}
    /\ UNCHANGED <<block, commitEvents, slashed, revealed, scheduled, ready, phase,
                   handlerVars, commitTxs, revealTxs, attempts, crashes>>

(* modifier commitRevealOnly: requires that end the window on both sides   *)
TooSoon(p) == ~(commits[p] < block + 1)
TooLate(p) == ~(commits[p] + PenalizeBlockExpiration > block + 1)

CanPenalize(p) ==
    /\ commits[p] # 0 /\ ~TooSoon(p) /\ ~TooLate(p)
    /\ p \in Penalizable
    /\ OffenderOf[p] \notin slashed

(* Mutant: the commit is not deleted. *)
PenalizeKeepsCommit(p) ==
    /\ slashed' = slashed \union {OffenderOf[p]}
    /\ revealed' = [revealed EXCEPT ![p] = @ + 1]
    /\ UNCHANGED commits

(* penalizeRepeatedNonce or penalizeIllegalTransaction, and the hub's      *)
(* penalize, which refuses a manager without stake.                        *)
Penalize(p) ==
    /\ slashed' = slashed \union {OffenderOf[p]}
    /\ revealed' = [revealed EXCEPT ![p] = @ + 1]
    /\ commits' = [commits EXCEPT ![p] = 0]

(* A reveal is mined; one that reverts leaves the contract as it was.      *)
Reveal(p) ==
    /\ revealTxs[p] > 0
    /\ revealTxs' = [revealTxs EXCEPT ![p] = @ - 1]
    /\ IF CanPenalize(p) THEN Penalize(p) ELSE UNCHANGED <<commits, slashed, revealed>>
    /\ UNCHANGED <<block, commitEvents, foreign, repeats, scheduled, ready, phase, handlerVars,
                   commitTxs, attempts, crashes>>

(* The owner of a slashed manager stakes again. *)
Restake(o) ==
    /\ o \in slashed
    /\ slashed' = slashed \ {o}
    /\ UNCHANGED <<block, commits, commitEvents, foreign, repeats, revealed, scheduled, ready, phase,
                   handlerVars, commitTxs, revealTxs, attempts, crashes>>

NextBlock ==
    /\ block < MaxBlock
    /\ block' = block + 1
    /\ UNCHANGED <<commits, commitEvents, foreign, repeats, slashed, revealed, scheduled, ready, phase,
                   handlerVars, commitTxs, revealTxs, attempts, crashes>>

----------------------------------------------------------------------------
(* An audit request.                                                       *)

(* validateTransaction: the worker is known and its manager is staked.     *)
ValidateTransaction(p) ==
    /\ phase[p] = "new"
    /\ OffenderOf[p] \notin slashed
    /\ phase' = [phase EXCEPT ![p] = "validated"]
    /\ UNCHANGED <<contractVars, scheduled, ready, handlerVars, commitTxs, revealTxs,
                   attempts, crashes>>

(* validatePenalization runs the reveal in view mode, without a commit.    *)
(* penalizeRepeatedNonce then looks at the result of the earlier check     *)
(* instead, penalizeIllegalTransaction refuses what would revert.          *)
PassesViewCall(p) ==
    p \in RepeatedNonce \/ (p \in Penalizable /\ OffenderOf[p] \notin slashed)

ScheduleReveal(p) ==
    /\ phase[p] = "validated"
    /\ PassesViewCall(p)
    /\ phase' = [phase EXCEPT ![p] = "committing"]
    /\ scheduled' = Append(scheduled, p)
    /\ UNCHANGED <<contractVars, ready, handlerVars, commitTxs, revealTxs, attempts, crashes>>

(* The commit is handed to the transaction manager, or that fails before   *)
(* the transaction is stored.                                              *)
SendCommit(p, ok) ==
    /\ phase[p] = "committing"
    /\ phase' = [phase EXCEPT ![p] = "done"]
    /\ commitTxs' = IF ok THEN commitTxs \union {p} ELSE commitTxs
    /\ UNCHANGED <<contractVars, scheduled, ready, handlerVars, revealTxs, attempts, crashes>>

----------------------------------------------------------------------------
(* intervalHandler.                                                        *)

StartHandler(h) ==
    /\ hpc[h] = "idle"
    /\ scheduled # << >>
    /\ LET unconfirmed == {p \in ToSet(scheduled) : ready[p] = 0}
       IN  /\ hset' = [hset EXCEPT ![h] = unconfirmed]
           /\ hpc' = [hpc EXCEPT ![h] = IF unconfirmed = {} THEN "block" ELSE "query"]
    /\ UNCHANGED <<contractVars, scheduled, ready, phase, htodo, commitTxs, revealTxs,
                   attempts, crashes>>

(* The CommitAdded event of p is in a block that the node reports. *)
CommitIsMined(p) ==
    commitEvents[p] # 0 /\ commitEvents[p] - PenalizeBlockDelay <= block

QueryReadyBlocks(h) ==
    /\ hpc[h] = "query"
    /\ ready' = [p \in Penalizations |->
                   IF p \in hset[h] /\ CommitIsMined(p) THEN commitEvents[p] ELSE ready[p]]
    /\ hpc' = [hpc EXCEPT ![h] = "block"]
    /\ hset' = [hset EXCEPT ![h] = {}]
    /\ UNCHANGED <<contractVars, scheduled, phase, htodo, commitTxs, revealTxs,
                   attempts, crashes>>

(* Mutant: the last one is taken off the schedule. *)
SpliceLast(p) == Front(scheduled)

(* splice(indexOf(p), 1): an index of -1 counts from the end. *)
Splice(p) ==
    IF p \in ToSet(scheduled) THEN Filtered(scheduled, Penalizations \ {p})
    ELSE IF scheduled = << >> THEN << >> ELSE Front(scheduled)

(* The loop over readyPenalizations up to its next broadcast. *)
NextPenalization(h, todo) ==
    /\ htodo' = [htodo EXCEPT ![h] = todo]
    /\ IF todo = << >>
       THEN /\ hpc' = [hpc EXCEPT ![h] = "idle"]
            /\ UNCHANGED scheduled
       ELSE /\ hpc' = [hpc EXCEPT ![h] = "sending"]
            /\ scheduled' = Splice(Head(todo))

(* Mutant: one block early. *)
ReadyNextBlock(p) == ready[p] # 0 /\ ready[p] <= block + 1

IsReady(p) == ready[p] # 0 /\ ready[p] <= block

GetBlockNumber(h) ==
    /\ hpc[h] = "block"
    /\ NextPenalization(h, Filtered(scheduled, {p \in Penalizations : IsReady(p)}))
    /\ UNCHANGED <<contractVars, ready, phase, hset, commitTxs, revealTxs, attempts, crashes>>

(* executeDelayedPenalization: an exception ends the handler, and the      *)
(* transaction may have been stored, to be sent again, before it.          *)
ExecuteDelayedPenalization(h, sent, throws) ==
    LET p == Head(htodo[h])
    IN  /\ hpc[h] = "sending"
        /\ sent \/ throws
        /\ attempts' = [attempts EXCEPT ![p] = @ + 1]
        /\ revealTxs' = IF sent THEN [revealTxs EXCEPT ![p] = @ + 1] ELSE revealTxs
        /\ IF throws
           THEN /\ hpc' = [hpc EXCEPT ![h] = "idle"]
                /\ htodo' = [htodo EXCEPT ![h] = << >>]
                /\ UNCHANGED scheduled
           ELSE NextPenalization(h, Tail(htodo[h]))
        /\ UNCHANGED <<contractVars, ready, phase, hset, commitTxs, crashes>>

(* The node does not answer a handler's query. *)
HandlerFails(h) ==
    /\ hpc[h] \in {"query", "block"}
    /\ hpc' = [hpc EXCEPT ![h] = "idle"]
    /\ hset' = [hset EXCEPT ![h] = {}]
    /\ UNCHANGED <<contractVars, scheduled, ready, phase, htodo, commitTxs, revealTxs,
                   attempts, crashes>>

(* The schedule is in memory only; sent transactions survive. *)
Restart ==
    /\ crashes < MaxCrashes
    /\ crashes' = crashes + 1
    /\ scheduled' = << >>
    /\ ready' = [p \in Penalizations |-> 0]
    /\ phase' = [p \in Penalizations |-> IF phase[p] = "new" THEN "new" ELSE "done"]
    /\ hpc' = [h \in Handlers |-> "idle"]
    /\ hset' = [h \in Handlers |-> {}]
    /\ htodo' = [h \in Handlers |-> << >>]
    /\ UNCHANGED <<contractVars, commitTxs, revealTxs, attempts>>

HandlerNext(h) ==
    \/ StartHandler(h)
    \/ QueryReadyBlocks(h)
    \/ GetBlockNumber(h)
    \/ \E sent, throws \in BOOLEAN : ExecuteDelayedPenalization(h, sent, throws)
    \/ HandlerFails(h)

Next ==
    \/ \E p \in Penalizations :
        \/ ValidateTransaction(p)
        \/ ScheduleReveal(p)
        \/ \E ok \in BOOLEAN : SendCommit(p, ok)
        \/ Commit(p)
        \/ CommitByOther(p)
        \/ Reveal(p)
    \/ \E h \in Handlers : HandlerNext(h)
    \/ \E o \in Offenders : Restake(o)
    \/ NextBlock
    \/ Restart

Spec == Init /\ [][Next]_vars

(* Blocks are mined, the timer keeps firing, and the node does not fail    *)
(* every query.                                                            *)
Fairness ==
    /\ WF_vars(NextBlock)
    /\ \A h \in Handlers :
        /\ WF_vars(StartHandler(h))
        /\ SF_vars(QueryReadyBlocks(h))
        /\ SF_vars(GetBlockNumber(h))
        /\ WF_vars(\E sent, throws \in BOOLEAN : ExecuteDelayedPenalization(h, sent, throws))

FairSpec == Spec /\ Fairness

----------------------------------------------------------------------------
(* Properties.                                                             *)

(* A reveal is refused as too soon only when another sender has committed  *)
(* the same hash after the service: never because the service sends it     *)
(* when the block it has read equals the ready block and the contract asks *)
(* for a later one, nor because the schedule is shared by handlers that    *)
(* read events and blocks at different times.                              *)
TooSoonOnlyByOthers ==
    \A p \in Penalizations :
        revealTxs[p] > 0 =>
            commitEvents[p] # 0 /\ (commits[p] # 0 /\ p \notin foreign => ~TooSoon(p))

(* Every commit that is mined is worth one slash, however often the reveal *)
(* is sent and even when the offender stakes again: a penalization that    *)
(* slashes twice has been committed twice, the second time by others.      *)
Mined(p) == IF commitEvents[p] # 0 THEN 1 ELSE 0

EachCommitSlashesOnce ==
    \A p \in Penalizations : revealed[p] <= Mined(p) + repeats[p]

(* As long as setInterval never starts a handler while another is active,  *)
(* every commit that is mined leads to an attempt to reveal it, whatever   *)
(* else is scheduled, removed or failing, unless the process restarts.     *)
OneHandlerAtATime == \A h, g \in Handlers : hpc[h] # "idle" /\ hpc[g] # "idle" => h = g

CommitLeadsToReveal ==
    []OneHandlerAtATime =>
        \A p \in Penalizations :
            (commitEvents[p] # 0) ~> (attempts[p] > 0 \/ crashes > 0)

(* "Remove ready penalizations from memory": what an interval handler      *)
(* takes off the schedule is ready.                                        *)
OnlyReadyRemovedStep ==
    \A p \in ToSet(scheduled) : p \notin ToSet(scheduled') => IsReady(p)
OnlyReadyRemoved == [][OnlyReadyRemovedStep]_vars
===========================================================================
