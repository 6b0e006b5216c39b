---------------------------- MODULE RelayClient ----------------------------
(***************************************************************************)
(* The client side of a relayed call: RelayClient.relayTransaction with    *)
(* RelaySelectionManager, KnownRelaysManager, RelayedTransactionValidator, *)
(* and the receipts that RelayProvider makes up for its users              *)
(* (packages/provider).  The relay servers may answer anything or nothing; *)
(* the chain is the Forwarder's nonce and the events of the RelayHub.      *)
(*                                                                         *)
(* All calls are of one sender and have the same content, so that they     *)
(* compete for the Forwarder's nonce; what is signed differs in nonce,     *)
(* expiration and worker, and these make the RelayRequestID.  Times are in *)
(* seconds, of which each has a block, and worker nonces are counted from  *)
(* relayLastKnownNonce.                                                    *)
(***************************************************************************)
EXTENDS Integers, Sequences, FiniteSets, SequencesExt, Filtering, TLC

CONSTANTS
    Calls,               \* calls of relayTransaction, which run concurrently
    Urls,                \* urls of relay servers
    Preferred,           \* config.preferredRelays, in its order
    Registered,          \* the urls RelayRegistrar knows
    Blacklisted,         \* the urls config.blacklistedRelays matches
    ManagerOf,           \* the relay manager (and worker) behind each url
    NoUrl,
    SliceSize,           \* config.waitForSuccessSliceSize
    RelayTimeoutGrace,   \* config.relayTimeoutGrace
    RequestValidSeconds, \* config.requestValidSeconds
    MaxRelayNonceGap,    \* config.maxRelayNonceGap
    BlocksForLookup,     \* BLOCKS_FOR_LOOKUP of RelayProvider
    StartTime, MaxTime,  \* bounds of the clock
    MaxEvents            \* bound: the hub's events explored

ASSUME ClientAssumption ==
    /\ IsFiniteSet(Urls) /\ NoUrl \notin Urls
    /\ Registered \subseteq Urls /\ Blacklisted \subseteq Urls
    /\ Preferred \in Seq(Urls) /\ DOMAIN ManagerOf = Urls
    /\ SliceSize \in Nat \ {0} /\ MaxRelayNonceGap \in Nat /\ BlocksForLookup \in Nat
    /\ RelayTimeoutGrace \in Nat /\ RequestValidSeconds \in Nat
    /\ StartTime \in Nat /\ MaxTime \in Nat /\ MaxEvents \in Nat

VARIABLES
    now,        \* seconds since the epoch
    failures,   \* KnownRelaysManager.relayFailures, a Map
    call,       \* what each relayTransaction remembers
    pool,       \* relayed transactions that may still be mined
    nonce,      \* the sender's nonce in the Forwarder
    events,     \* the hub's events for these requests, oldest first
    cached      \* RelayProvider.submittedRelayRequests: the block each began at

vars == <<now, failures, call, pool, nonce, events, cached>>

Times == StartTime..MaxTime
AllUrls(lists) == UNION {ToSet(lists[i]) : i \in DOMAIN lists}

TypeOK ==
    /\ now \in Times
    /\ DOMAIN failures \subseteq Urls
    /\ \A u \in DOMAIN failures : failures[u] \subseteq Times
    /\ call \in [Calls -> [pc : {"idle", "prepare", "dryRun", "init", "select", "attempt",
                                 "http", "done"},
                           nonce : 0..Cardinality(Calls),
                           until : 0..(MaxTime + RequestValidSeconds),
                           submitted : 0..MaxTime,
                           remaining : Seq(Seq(Urls)), tried : Seq(Urls),
                           url : Urls \union {NoUrl}]]
    /\ pool \subseteq [call : Calls, url : Urls, minable : BOOLEAN]
    /\ nonce \in 0..Cardinality(Calls)
    /\ events \in Seq([id : [nonce : 0..Cardinality(Calls), until : Nat,
                             worker : {ManagerOf[u] : u \in Urls}],
                       kind : {"relayed", "reverted", "undone", "rejected"},
                       block : Times])
    /\ \A id \in DOMAIN cached : cached[id] \in Times

Init ==
    /\ now = StartTime /\ failures = <<>> /\ pool = {} /\ nonce = 0
    /\ events = <<>> /\ cached = <<>>
    /\ call = [c \in Calls |-> [pc |-> "idle", nonce |-> 0, until |-> 0, submitted |-> 0,
                                remaining |-> <<>>, tried |-> <<>>, url |-> NoUrl]]

(* Bound: time stops at MaxTime. *)
Tick ==
    /\ now < MaxTime /\ now' = now + 1
    /\ UNCHANGED <<failures, call, pool, nonce, events, cached>>

ChainUnchanged == UNCHANGED <<now, pool, nonce, events>>

----------------------------------------------------------------------------
(* KnownRelaysManager *)

RefreshedFailures ==
    [u \in DOMAIN failures |-> {t \in failures[u] : now - t < RelayTimeoutGrace}]

SaveRelayFailure(url) ==
    failures' = (url :> ({now} \union IF url \in DOMAIN failures THEN failures[url]
                                      ELSE {})) @@ failures

HasFailure(url) == url \in DOMAIN failures

AllRelayers == Registered \ Blacklisted

(* getRelaysShuffledForTransaction: preferred ones, then those without and *)
(* those with failures, shuffled.                                          *)
RelaysShuffledForTransaction ==
    {<<Preferred, clean, failing>> :
        clean \in SetToSeqs({u \in AllRelayers : ~HasFailure(u)}),
        failing \in SetToSeqs({u \in AllRelayers : HasFailure(u)})}

----------------------------------------------------------------------------
(* RelaySelectionManager *)

NextSlice(remaining) ==
    LET left == {i \in DOMAIN remaining : remaining[i] # <<>>}
        list == remaining[CHOOSE i \in left : \A j \in left : i <= j]
    IN  IF left = {} THEN <<>>
        ELSE SubSeq(list, 1, IF SliceSize < Len(list) THEN SliceSize ELSE Len(list))

(* _waitForSuccess: every url of the slice is pinged once, and may fail.   *)
Pinged(slice) == ToSet(slice)

(* waitForSuccess: one of the relays that answered well, if any did, and   *)
(* those that failed by then.                                              *)
RaceResults(slice) ==
    LET pinged == Pinged(slice) IN
    {[winner |-> w, errors |-> e] : w \in pinged, e \in SUBSET pinged}
        \union {[winner |-> NoUrl, errors |-> pinged]}

(* Mutant: the winner is left in the lists. *)
KeepWinner(remaining, race) ==
    [i \in DOMAIN remaining |-> Filtered(remaining[i], Urls \ race.errors)]

HandleWaitForSuccessResults(remaining, race) ==
    [i \in DOMAIN remaining |->
        Filtered(remaining[i], Urls \ ({race.winner} \union race.errors))]

(* A preferred relay has to be registered, under whatever url.             *)
HasRelayInfo(url) == \E u \in AllRelayers : ManagerOf[u] = ManagerOf[url]

----------------------------------------------------------------------------
(* RelayedTransactionValidator *)

(* What a relay may hand back as the transaction it signed: whether target,*)
(* sender, data and fees are as requested, its nonce, and the transactions *)
(* said to precede it.                                                     *)
Responses ==
    [asRequested : BOOLEAN, nonce : -1..(MaxRelayNonceGap + 1),
     gap : UNION {[1..n -> [nonce : 0..MaxRelayNonceGap, relayCall : BOOLEAN]] :
                     n \in 0..MaxRelayNonceGap}]

NonceGapIsValid(gap) == \A i \in DOMAIN gap : gap[i].nonce = i - 1 /\ gap[i].relayCall

(* Mutant: the length of the gap is not compared with the nonce.           *)
IsTransactionValidAnyGap(r) ==
    r.asRequested /\ r.nonce <= MaxRelayNonceGap /\ NonceGapIsValid(r.gap)

IsTransactionValid(r) ==
    /\ r.asRequested
    /\ Len(r.gap) = r.nonce
    /\ r.nonce <= MaxRelayNonceGap
    /\ NonceGapIsValid(r.gap)

(* The transaction can be mined: it and all before it are known.           *)
IsMinable(r) == r.asRequested /\ {r.gap[i].nonce : i \in DOMAIN r.gap} = 0..(r.nonce - 1)
                /\ r.nonce >= 0

----------------------------------------------------------------------------
(* relayTransaction *)

Step(c, rec) == call' = [call EXCEPT ![c] = rec]
Goto(c, pc) == Step(c, [call[c] EXCEPT !.pc = pc])

(* The call returns: its result is the request id, made of the url, if any *)
Return(c, url) ==
    Step(c, [call[c] EXCEPT !.pc = "done", !.url = url, !.remaining = <<>>, !.tried = <<>>])

RefreshRelays(c) ==
    /\ call[c].pc = "idle"
    /\ failures' = RefreshedFailures
    /\ Goto(c, "prepare")
    /\ ChainUnchanged /\ UNCHANGED cached

ValidUntil == now + RequestValidSeconds

(* Reading the nonce, or the paymaster's data, may throw.                  *)
PrepareRelayRequest(c) ==
    /\ call[c].pc = "prepare"
    /\ \/ Return(c, NoUrl)
       \/ Step(c, [call[c] EXCEPT !.pc = "dryRun", !.nonce = nonce, !.until = ValidUntil])
    /\ ChainUnchanged /\ UNCHANGED <<failures, cached>>

(* Mutant: any nonce does. *)
ForwarderAcceptsAnyNonce(c) == now < call[c].until

(* Forwarder.execute: the nonce is the sender's next, and not expired.     *)
ForwarderAccepts(c) == call[c].nonce = nonce /\ now < call[c].until

(* validateRelayCall runs relayCall on the latest block: the hub reverts,  *)
(* the paymaster rejects (also for the Forwarder), or the recipient fails. *)
ValidateRelayCall(c) ==
    IF ForwarderAccepts(c)
    THEN {"hubReverted", "paymasterRejected", "recipientReverted", "accepted"}
    ELSE {"hubReverted", "paymasterRejected"}

VerifyViewCallSuccessful(outcome) == outcome = "accepted"

DryRun(c) ==
    /\ call[c].pc = "dryRun"
    /\ \E outcome \in ValidateRelayCall(c) :
        IF VerifyViewCallSuccessful(outcome) THEN Goto(c, "init") ELSE Return(c, NoUrl)
    /\ ChainUnchanged /\ UNCHANGED <<failures, cached>>

(* The relays are listed, and the block looked up that "is used to look up *)
(* relayed events".                                                        *)
InitRelaySelection(c) ==
    /\ call[c].pc = "init"
    /\ \/ Return(c, NoUrl)
       \/ /\ Preferred # <<>> \/ AllRelayers # {}
          /\ \E lists \in RelaysShuffledForTransaction :
                Step(c, [call[c] EXCEPT !.pc = "select", !.remaining = lists,
                                        !.submitted = now])
    /\ ChainUnchanged /\ UNCHANGED <<failures, cached>>

SelectNextRelay(c) ==
    /\ call[c].pc = "select"
    /\ LET slice == NextSlice(call[c].remaining) IN
        IF slice = <<>> THEN Return(c, NoUrl)
        ELSE \E race \in RaceResults(slice) :
            /\ race.winner \notin race.errors
            /\ LET left == [call[c] EXCEPT
                    !.remaining = HandleWaitForSuccessResults(@, race)]
               IN  IF race.winner # NoUrl /\ HasRelayInfo(race.winner)
                   THEN Step(c, [left EXCEPT !.pc = "attempt", !.url = race.winner,
                                             !.tried = Append(@, race.winner)])
                   ELSE Step(c, left)
    /\ ChainUnchanged /\ UNCHANGED <<failures, cached>>

(* _attemptRelay up to the request: an error of the local view call is not *)
(* the relay's, and ends the call.                                         *)
AttemptRelay(c) ==
    /\ call[c].pc = "attempt"
    /\ \E outcome \in ValidateRelayCall(c) :
        IF VerifyViewCallSuccessful(outcome) THEN Goto(c, "http")
        ELSE Return(c, NoUrl)
    /\ ChainUnchanged /\ UNCHANGED <<failures, cached>>

(* getRelayRequestID: calls that agree in all that is signed share it.     *)
RequestId(c, url) ==
    [nonce |-> call[c].nonce, until |-> call[c].until, worker |-> ManagerOf[url]]

Tx(c, minable) == [call |-> c, url |-> call[c].url, minable |-> minable]

(* Mutant: a relay that failed is asked again. *)
AttemptAgain(c) == Goto(c, "attempt")

TryNextRelay(c) == Step(c, [call[c] EXCEPT !.pc = "select", !.url = NoUrl])

(* The relay refuses, or does not answer in time: then it may have relayed *)
(* the request all the same.                                               *)
RelayRefuses(c) ==
    /\ call[c].pc = "http"
    /\ TryNextRelay(c)
    /\ ChainUnchanged /\ UNCHANGED <<failures, cached>>

RelayTimesOut(c) ==
    /\ call[c].pc = "http"
    /\ pool' \in {pool, pool \union {Tx(c, TRUE)}}
    /\ SaveRelayFailure(call[c].url)
    /\ TryNextRelay(c)
    /\ UNCHANGED <<now, nonce, events, cached>>

(* The client sends a valid transaction too, unless the node has it; that  *)
(* the node refuses it is ignored.                                         *)
BroadcastRawTx(tx) == pool' \in {pool, pool \union {tx}}

CacheSubmittedTransactionDetails(c) ==
    LET id == RequestId(c, call[c].url)
    IN  cached' = [i \in DOMAIN cached \union {id} |->
                      IF i = id THEN call[c].submitted ELSE cached[i]]

(* The relay answers with a transaction, which it may have broadcast;      *)
(* RelayProvider remembers a valid one.                                    *)
RelayAnswers(c) ==
    /\ call[c].pc = "http"
    /\ \E r \in Responses :
        IF IsTransactionValid(r)
        THEN /\ BroadcastRawTx(Tx(c, IsMinable(r)))
             /\ CacheSubmittedTransactionDetails(c)
             /\ Return(c, call[c].url) /\ UNCHANGED failures
        ELSE /\ pool' \in {pool, IF r.asRequested THEN pool \union {Tx(c, IsMinable(r))}
                                 ELSE pool}
             /\ SaveRelayFailure(call[c].url)
             /\ TryNextRelay(c) /\ UNCHANGED cached
    /\ UNCHANGED <<now, nonce, events>>

----------------------------------------------------------------------------
(* The chain *)

(* What becomes of a relayCall: it reverts as a whole ("none"); is         *)
(* rejected, by preRelayedCall or within the acceptance budget; is charged *)
(* for, though whatever the inner call did is "undone" (a late rejection,  *)
(* PostRelayedFailed, PaymasterBalanceChanged); or the Forwarder executes  *)
(* the request and the recipient returns or reverts.                       *)
Outcomes(c) ==
    {"none", "rejected", "undone"}
        \union IF ForwarderAccepts(c) THEN {"relayed", "reverted"} ELSE {}

(* The recipient was called by the Forwarder, and nothing was undone.      *)
Executed(event) == event.kind \in {"relayed", "reverted"}

RelayCallEvent(c, url, kind) == [id |-> RequestId(c, url), kind |-> kind, block |-> now]

(* relayCall is mined: only what was executed keeps the nonce it used up.  *)
Mine ==
    /\ \E t \in pool : \E kind \in Outcomes(t.call) :
        LET event == RelayCallEvent(t.call, t.url, kind) IN
        /\ t.minable /\ Len(events) < MaxEvents
        /\ pool' = pool \ {t}
        /\ events' = IF kind = "none" THEN events ELSE Append(events, event)
        /\ nonce' = IF Executed(event) THEN nonce + 1 ELSE nonce
    /\ UNCHANGED <<now, failures, call, cached>>

----------------------------------------------------------------------------
(* RelayProvider *)

(* TransactionRelayed is logged for every call that is charged for, with   *)
(* its RelayCallStatus, TransactionRejectedByPaymaster for the others.     *)
TransactionRelayed(event) == event.kind # "rejected"
Status(event) == IF event.kind = "relayed" THEN "success" ELSE "failed"

(* Mutant: the latest event counts. *)
PickLatestEvent(found) == Status(Last(found))

(* _pickSingleEvent, and the status of the translated receipt              *)
PickSingleEvent(found) ==
    LET successes == Filtered(found, {e \in ToSet(found) : TransactionRelayed(e)}) IN
    IF successes = <<>> THEN Status(Last(found))
    ELSE IF Len(successes) = 1 THEN Status(successes[1])
    ELSE "error"

(* A request the provider does not remember is looked up in the last       *)
(* blocks, and counts as valid for ever.  validUntilTime is in seconds,    *)
(* Date.now() in milliseconds.                                             *)
IsRemembered(c) == RequestId(c, call[c].url) \in DOMAIN cached

SubmissionBlock(c) ==
    IF IsRemembered(c) THEN cached[RequestId(c, call[c].url)] ELSE now - BlocksForLookup

CanStillBeMined(c) == IsRemembered(c) => call[c].until > 1000 * now

(* _createTransactionReceiptForRelayRequestID: it reads and tells          *)
Receipt(c) ==
    LET found == Filtered(events,
            {e \in ToSet(events) : /\ e.id = RequestId(c, call[c].url)
                                  /\ e.block >= SubmissionBlock(c)})
    IN  IF found # <<>> THEN PickSingleEvent(found)
        ELSE IF CanStillBeMined(c) THEN "null" ELSE "failed"

(* The page is loaded again between calls: client and provider start anew. *)
Reload ==
    /\ \A c \in Calls : call[c].pc \in {"idle", "done"}
    /\ failures' = <<>> /\ cached' = <<>>
    /\ ChainUnchanged /\ UNCHANGED call

ClientStep(c) ==
    \/ RefreshRelays(c) \/ PrepareRelayRequest(c) \/ DryRun(c) \/ InitRelaySelection(c)
    \/ SelectNextRelay(c) \/ AttemptRelay(c) \/ RelayRefuses(c) \/ RelayTimesOut(c) \/ RelayAnswers(c)

Next ==
    \/ Tick \/ Mine \/ Reload
    \/ \E c \in Calls : ClientStep(c)

Spec == Init /\ [][Next]_vars

(* The client's promises settle: its http requests have a time limit.      *)
FairSpec == Spec /\ \A c \in Calls : WF_vars(ClientStep(c))

----------------------------------------------------------------------------
(* However many relays were handed the same request, and however many      *)
(* calls read the same nonce, a nonce is executed once: "Nonces of senders,*)
(* used to prevent replay attacks", Forwarder.sol.  Only calls of the hub  *)
(* whose effects were undone may be charged for more than once.            *)
ExecutedOnce ==
    \A i, j \in DOMAIN events :
        Executed(events[i]) /\ Executed(events[j]) /\ events[i].id.nonce = events[j].id.nonce
            => i = j

(* selectNextRelay "will never return the same relay twice", though a url  *)
(* can be in two of its lists and slices overlap.                          *)
NeverSameRelayTwice == \A c \in Calls : IsInjective(call[c].tried)

(* No call ends with a request id whose transaction was published and can  *)
(* never be mined: the checks of validateRelayResponse leave no gap of     *)
(* nonces, whatever the relay answered before.                             *)
ReturnedIsMinable ==
    \A c \in Calls :
        call[c].pc = "done" /\ call[c].url # NoUrl => Tx(c, FALSE) \notin pool

(* Once a request was executed well its receipt says so, even if the same  *)
(* request was relayed again and rejected.  The exceptions: a charge for   *)
(* the same request that was undone, on which _pickSingleEvent throws, and *)
(* a request that is forgotten and too old for the lookup.                 *)
ExecutedReportedSuccessful ==
    \A c \in Calls : \A i \in DOMAIN events :
        (/\ call[c].pc = "done" /\ call[c].url # NoUrl
         /\ events[i].id = RequestId(c, call[c].url) /\ events[i].kind = "relayed")
            => \/ Receipt(c) = "success"
               \/ /\ Receipt(c) = "error"
                  /\ \E j \in DOMAIN events :
                        events[j].id = events[i].id /\ events[j].kind = "undone"
               \/ ~IsRemembered(c) /\ events[i].block < now - BlocksForLookup

(* Every relayTransaction comes to an end, whatever the relays answer: the *)
(* loops of relayTransaction and selectNextRelay run out of relays.        *)
EveryCallEnds == \A c \in Calls : call[c].pc # "idle" ~> call[c].pc = "done"
===========================================================================
