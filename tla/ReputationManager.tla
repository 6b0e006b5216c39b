------------------------- MODULE ReputationManager -------------------------
(***************************************************************************)
(* How a relay server judges a paymaster                                   *)
(* (packages/relay/src/ReputationManager.ts and ReputationStoreManager.ts) *)
(* and where RelayServer.ts calls it: relay requests ask for the status    *)
(* and note that they were accepted, and the worker loop turns the hub's   *)
(* events into changes of the reputation.                                  *)
(*                                                                         *)
(* One paymaster.  Steps are the code between two awaits.  updateEntry     *)
(* reads the entry, merges and writes the whole of it: `pending` is what   *)
(* it is going to write.  Only getPaymasterStatus holds the mutex.         *)
(*                                                                         *)
(* The server owns its reputation manager: the names here are not those of *)
(* RelayServer, so that one module can reason about both.                  *)
(***************************************************************************)
EXTENDS Integers, Sequences, SequencesExt, Filtering

CONSTANTS
    RelayRequests,                  \* relay requests for the paymaster
    NoEntry, NoRequest,
    InitialReputation, MaximumReputation, ThrottleReputation, ThrottleDelay,
    BlockReputation, AbuseTimeoutReputation,
    AbuseReputationChange, AbuseTimeWindowBlocks,
    ColdScanBlocks,                 \* how far back a fresh server scans
    MaxBlock, MaxEvents, MaxTime, MaxCrashes    \* bounds

ASSUME ReputationAssumption ==
    /\ NoRequest \notin RelayRequests
    /\ {InitialReputation, MaximumReputation, ThrottleReputation, ThrottleDelay,
        BlockReputation, AbuseTimeoutReputation,
        ColdScanBlocks, MaxBlock, MaxEvents, MaxTime, MaxCrashes} \subseteq Nat
    /\ {AbuseReputationChange, AbuseTimeWindowBlocks} \subseteq Nat \ {0}

VARIABLES
    block, time,    \* the latest block, and the clock
    hubEvents,      \* TransactionRelayed (1) and TransactionRejectedByPaymaster (-1)
    entry,          \* the paymaster's entry in the store
    mutex,          \* the request that holds it
    pc,             \* where each request is
    asked,          \* the block number each request passed
    read,           \* the entry getPaymasterStatus read
    pending,        \* what a request is going to write
    wpc,            \* where the worker is
    wblock,         \* the block of its pass
    lastScannedBlock,
    events,         \* events still to be handled, as positions in hubEvents
    wpending,       \* the fields, then the entry, the worker is going to write
    turns,          \* history: how often each event was handled
    cut,            \* history: events of passes that were cut short, or behind a restart
    flags,          \* history: the blocks at which the paymaster was flagged
    crashes,
    trusted         \* the paymaster is one of config.trustedPaymasters

requestVars == <<mutex, pc, asked, read, pending>>
workerVars  == <<wpc, wblock, lastScannedBlock, events, wpending, turns, cut, flags>>
chainVars   == <<block, time, hubEvents>>
processVars == <<crashes, trusted>>
reputationVars == <<chainVars, entry, requestVars, workerVars, processVars>>

Change == [blockNumber : Nat, change : {1, -1}]
ReputationEntry ==
    [reputation : Int, lastAcceptedRelayRequestTs : Int, abuseStartedBlock : Nat,
     changes : Seq(Change)]

(* Requests, worker and store hold what their types say, the mutex is held *)
(* by the one request that is inside getPaymasterStatus, and the worker    *)
(* has an event in hand while it updates the store.                        *)
ReputationTypeOK ==
    /\ block \in Nat /\ time \in Nat /\ hubEvents \in Seq(Change)
    /\ entry \in ReputationEntry \union {NoEntry}
    /\ pc \in [RelayRequests -> {"new", "waiting", "create", "clear", "clearWrite",
                                  "validating", "acceptWrite", "served", "refused", "failed"}]
    /\ \A r \in RelayRequests : mutex = r <=> pc[r] \in {"create", "clear", "clearWrite"}
    /\ asked \in [RelayRequests -> Nat]
    /\ read \in [RelayRequests -> ReputationEntry \union {NoEntry}]
    /\ pending \in [RelayRequests -> ReputationEntry \union {NoEntry}]
    /\ wpc \in {"idle", "scan", "scanned", "loop", "create", "flag", "flagWrite",
                "reputation", "update", "updateWrite"}
    /\ wblock \in Nat /\ lastScannedBlock \in 0..block
    /\ events \in Seq(1..Len(hubEvents))
    /\ wpc \in {"create", "flag", "flagWrite", "reputation", "update", "updateWrite"}
         => events # << >>
    /\ turns \in Seq(Nat) /\ Len(turns) = Len(hubEvents)
    /\ cut \subseteq 1..Len(hubEvents)
    /\ crashes \in 0..MaxCrashes /\ trusted \in BOOLEAN

(* createEntry: the last acceptance was in 1970 *)
FreshEntry ==
    [reputation |-> InitialReputation, lastAcceptedRelayRequestTs |-> -(ThrottleDelay + 1),
     abuseStartedBlock |-> 0, changes |-> << >>]

ReputationInit ==
    /\ block = 1 /\ time = 0 /\ hubEvents = << >>
    /\ entry = NoEntry
    /\ mutex = NoRequest
    /\ pc = [r \in RelayRequests |-> "new"]
    /\ asked = [r \in RelayRequests |-> 0]
    /\ read = [r \in RelayRequests |-> NoEntry]
    /\ pending = [r \in RelayRequests |-> NoEntry]
    /\ wpc = "idle" /\ wblock = 0 /\ lastScannedBlock = 0
    /\ events = << >> /\ wpending = NoEntry
    /\ turns = << >> /\ cut = {}
    /\ flags = {} /\ crashes = 0 /\ trusted \in BOOLEAN

----------------------------------------------------------------------------
(* The chain: the events of a block are relayed and rejected calls.        *)
MineEvents ==
    /\ block < MaxBlock
    /\ block' = block + 1
    /\ \E changes \in BoundedSeq({1, -1}, MaxEvents - Len(hubEvents)) :
        /\ hubEvents' = hubEvents \o [i \in DOMAIN changes |->
                                        [blockNumber |-> block + 1, change |-> changes[i]]]
        /\ turns' = turns \o [i \in DOMAIN changes |-> 0]
    /\ UNCHANGED <<time, entry, requestVars, wpc, wblock, lastScannedBlock, events,
                   wpending, cut, flags, processVars>>

Tick ==
    /\ time < MaxTime
    /\ time' = time + 1
    /\ UNCHANGED <<block, hubEvents, entry, requestVars, workerVars, processVars>>

----------------------------------------------------------------------------
(* A relay request: getPaymasterStatus, and onRelayRequestAccepted when    *)
(* the checks that follow it have passed.                                  *)

(* A trusted paymaster is not judged. *)
ValidatePaymasterReputation(r) ==
    /\ pc[r] = "new"
    /\ IF trusted
       THEN pc' = [pc EXCEPT ![r] = "validating"] /\ UNCHANGED asked
       ELSE /\ pc' = [pc EXCEPT ![r] = "waiting"]
            /\ asked' = [asked EXCEPT ![r] = lastScannedBlock]
    /\ UNCHANGED <<chainVars, entry, mutex, read, pending, workerVars, processVars>>

Throttled(e) ==
    /\ e.reputation < ThrottleReputation
    /\ time - e.lastAcceptedRelayRequestTs <= ThrottleDelay

(* The answer of a request that read e, and the end of the critical        *)
(* section.                                                                *)
Answer(r, status) ==
    /\ pc' = [pc EXCEPT ![r] = status]
    /\ mutex' = NoRequest

(* Is the paymaster flagged, at this block number? *)
InAbuse(e, b) ==
    e.abuseStartedBlock # 0 /\ b - e.abuseStartedBlock <= AbuseTimeWindowBlocks

DecideStatus(r, e) ==
    \/ /\ e.reputation <= BlockReputation \/ InAbuse(e, asked[r])
       /\ Answer(r, "refused")
    \/ /\ e.reputation > BlockReputation /\ ~InAbuse(e, asked[r])
       /\ e.abuseStartedBlock # 0
       /\ pc' = [pc EXCEPT ![r] = "clear"]
       /\ mutex' = r
    \/ /\ e.reputation > BlockReputation /\ e.abuseStartedBlock = 0
       /\ Answer(r, IF Throttled(e) THEN "refused" ELSE "validating")

GetPaymasterStatus(r) ==
    /\ pc[r] = "waiting" /\ mutex = NoRequest
    /\ read' = [read EXCEPT ![r] = entry]
    /\ IF entry = NoEntry
       THEN pc' = [pc EXCEPT ![r] = "create"] /\ mutex' = r
       ELSE DecideStatus(r, entry)
    /\ UNCHANGED <<chainVars, entry, asked, pending, workerVars, processVars>>

(* createEntry: an entry that the worker has inserted since violates the   *)
(* unique index.                                                           *)
CreateEntry(r) ==
    /\ pc[r] = "create"
    /\ IF entry = NoEntry
       THEN /\ entry' = FreshEntry
            /\ read' = [read EXCEPT ![r] = FreshEntry]
            /\ DecideStatus(r, FreshEntry)
       ELSE Answer(r, "failed") /\ UNCHANGED <<entry, read>>
    /\ UNCHANGED <<chainVars, asked, pending, workerVars, processVars>>

ClearAbuseFlag(r) ==
    /\ pc[r] = "clear"
    /\ pending' = [pending EXCEPT ![r] = [entry EXCEPT !.reputation = AbuseTimeoutReputation,
                                                       !.abuseStartedBlock = 0]]
    /\ pc' = [pc EXCEPT ![r] = "clearWrite"]
    /\ UNCHANGED <<chainVars, entry, mutex, asked, read, workerVars, processVars>>

(* The write, and the throttling of the entry as it was read at first. *)
ClearAbuseFlagWrite(r) ==
    /\ pc[r] = "clearWrite"
    /\ entry' = pending[r]
    /\ pending' = [pending EXCEPT ![r] = NoEntry]
    /\ Answer(r, IF Throttled(read[r]) THEN "refused" ELSE "validating")
    /\ UNCHANGED <<chainVars, asked, read, workerVars, processVars>>

(* updateLastAcceptedTimestamp: updateEntry throws if there is no entry,   *)
(* as there may be none of a trusted paymaster.                            *)
OnRelayRequestAccepted(r) ==
    /\ pc[r] = "validating"
    /\ IF entry = NoEntry
       THEN pc' = [pc EXCEPT ![r] = "failed"] /\ UNCHANGED pending
       ELSE /\ pending' = [pending EXCEPT
                             ![r] = [entry EXCEPT !.lastAcceptedRelayRequestTs = time]]
            /\ pc' = [pc EXCEPT ![r] = "acceptWrite"]
    /\ asked' = [asked EXCEPT ![r] = 0]
    /\ read' = [read EXCEPT ![r] = NoEntry]
    /\ UNCHANGED <<chainVars, entry, mutex, workerVars, processVars>>

OnRelayRequestAcceptedWrite(r) ==
    /\ pc[r] = "acceptWrite"
    /\ entry' = pending[r]
    /\ pending' = [pending EXCEPT ![r] = NoEntry]
    /\ pc' = [pc EXCEPT ![r] = "served"]
    /\ UNCHANGED <<chainVars, mutex, asked, read, workerVars, processVars>>

----------------------------------------------------------------------------
(* A pass of the worker: _handleChanges and handlePastHubEvents.           *)

GetBlock ==
    /\ wpc = "idle" /\ block > lastScannedBlock
    /\ wpc' = "scan"
    /\ wblock' = block
    /\ UNCHANGED <<chainVars, entry, requestVars, lastScannedBlock, events, wpending,
                   turns, cut, flags, processVars>>

(* getAllHubEventsSinceLastScan: up to the latest block, which may be a    *)
(* later one than the block of the pass.                                   *)
GetAllHubEventsSinceLastScan ==
    /\ wpc = "scan"
    /\ wpc' = "scanned"
    /\ events' = Filtered([i \in DOMAIN hubEvents |-> i],
                          {i \in DOMAIN hubEvents :
                             hubEvents[i].blockNumber > lastScannedBlock})
    /\ UNCHANGED <<chainVars, entry, requestVars, wblock, lastScannedBlock, wpending,
                   turns, cut, flags, processVars>>

(* Mutant: the pass counts as one up to the block that is latest by now. *)
SetLastScannedLatest ==
    /\ wpc = "scanned"
    /\ wpc' = "loop"
    /\ lastScannedBlock' = block
    /\ wblock' = 0
    /\ UNCHANGED <<chainVars, entry, requestVars, events, wpending, turns, cut, flags,
                   processVars>>

SetLastScanned ==
    /\ wpc = "scanned"
    /\ wpc' = "loop"
    /\ lastScannedBlock' = wblock
    /\ wblock' = 0
    /\ UNCHANGED <<chainVars, entry, requestVars, events, wpending, turns, cut, flags,
                   processVars>>

(* The pass ends: all events are handled, the server is not registered, or *)
(* an exception was thrown.  What is left is not kept.  (Before the scan,  *)
(* ending the pass is the same as taking the block later.)                 *)
EndPass ==
    /\ wpc' = "idle"
    /\ wblock' = 0
    /\ events' = << >>
    /\ cut' = cut \union ToSet(events)

PassEnds ==
    /\ wpc \in {"scanned", "loop"}
    /\ EndPass
    /\ UNCHANGED <<chainVars, entry, requestVars, lastScannedBlock, wpending,
                   turns, flags, processVars>>

EventBlock == hubEvents[Head(events)].blockNumber
EventChange == hubEvents[Head(events)].change

NextEvent ==
    /\ wpc' = "loop"
    /\ events' = Tail(events)

(* Mutant: changes count whenever they happened. *)
ChangeInAnyWindow(e) ==
    SumFunction([j \in DOMAIN e.changes |-> e.changes[j].change])

ChangeInAbuseWindow(e) ==
    SumFunctionOnSet([j \in DOMAIN e.changes |-> e.changes[j].change],
                     {j \in DOMAIN e.changes :
                        EventBlock - e.changes[j].blockNumber < AbuseTimeWindowBlocks})

(* updatePaymasterStatus, once it has the entry *)
Judge(e) ==
    IF e.reputation + EventChange > MaximumReputation
    THEN NextEvent
    ELSE /\ wpc' = IF -ChangeInAbuseWindow(e) >= AbuseReputationChange
                   THEN "flag" ELSE "reputation"
         /\ UNCHANGED events

UpdatePaymasterStatus ==
    /\ wpc = "loop" /\ events # << >>
    /\ turns' = [turns EXCEPT ![Head(events)] = @ + 1]
    /\ IF entry = NoEntry
       THEN wpc' = "create" /\ UNCHANGED events
       ELSE Judge(entry)
    /\ UNCHANGED <<chainVars, entry, requestVars, wblock, lastScannedBlock, wpending, cut,
                   flags, processVars>>

(* The worker's createEntry; a violated index ends the pass. *)
CreateEntryByWorker ==
    /\ wpc = "create"
    /\ IF entry = NoEntry
       THEN entry' = FreshEntry /\ Judge(FreshEntry) /\ UNCHANGED <<wblock, cut>>
       ELSE EndPass /\ UNCHANGED entry
    /\ UNCHANGED <<chainVars, requestVars, lastScannedBlock, wpending, turns,
                   flags, processVars>>

SetAbuseFlag ==
    /\ wpc = "flag"
    /\ wpc' = "flagWrite"
    /\ wpending' = [entry EXCEPT !.abuseStartedBlock = EventBlock]
    /\ UNCHANGED <<chainVars, entry, requestVars, wblock, lastScannedBlock, events,
                   turns, cut, flags, processVars>>

SetAbuseFlagWrite ==
    /\ wpc = "flagWrite"
    /\ wpc' = "reputation"
    /\ entry' = wpending
    /\ wpending' = NoEntry
    /\ flags' = flags \union {EventBlock}
    /\ UNCHANGED <<chainVars, requestVars, wblock, lastScannedBlock, events, turns, cut,
                   processVars>>

Recent(changes) ==
    Filtered(changes, {c \in ToSet(changes) :
                         c.blockNumber > EventBlock - AbuseTimeWindowBlocks})

(* updatePaymasterReputation: the new reputation and changes, from one     *)
(* read of the entry; updateEntry merges them into another.                *)
UpdatePaymasterReputation ==
    /\ wpc = "reputation"
    /\ wpc' = "update"
    /\ wpending' =
         [reputation |-> entry.reputation + EventChange,
          changes |-> Recent(
              Append(entry.changes, [blockNumber |-> EventBlock, change |-> EventChange]))]
    /\ UNCHANGED <<chainVars, entry, requestVars, wblock, lastScannedBlock, events,
                   turns, cut, flags, processVars>>

UpdateEntry ==
    /\ wpc = "update"
    /\ wpc' = "updateWrite"
    /\ wpending' = [entry EXCEPT !.reputation = wpending.reputation,
                                 !.changes = wpending.changes]
    /\ UNCHANGED <<chainVars, entry, requestVars, wblock, lastScannedBlock, events,
                   turns, cut, flags, processVars>>

UpdateEntryWrite ==
    /\ wpc = "updateWrite"
    /\ entry' = wpending
    /\ wpending' = NoEntry
    /\ NextEvent
    /\ UNCHANGED <<chainVars, requestVars, wblock, lastScannedBlock, turns, cut, flags,
                   processVars>>

(* A restart keeps the store and scans the last blocks again; what it      *)
(* trusts is configured anew.                                              *)
RestartWorker ==
    /\ crashes < MaxCrashes
    /\ crashes' = crashes + 1
    /\ lastScannedBlock' = IF block > ColdScanBlocks THEN block - ColdScanBlocks ELSE 0
    /\ wpc' = "idle"
    /\ events' = << >>
    /\ cut' = cut \union ToSet(events)
                  \union {i \in DOMAIN hubEvents : hubEvents[i].blockNumber <= lastScannedBlock'}
    /\ mutex' = NoRequest
    /\ pc' = [r \in RelayRequests |-> IF pc[r] \in {"new", "served", "refused"} THEN pc[r]
                                      ELSE "failed"]
    /\ asked' = [r \in RelayRequests |-> 0]
    /\ read' = [r \in RelayRequests |-> NoEntry]
    /\ pending' = [r \in RelayRequests |-> NoEntry]
    /\ wblock' = 0 /\ wpending' = NoEntry
    /\ trusted' \in BOOLEAN
    /\ UNCHANGED <<chainVars, entry, turns, flags>>

ReputationNext ==
    \/ \E r \in RelayRequests :
        \/ ValidatePaymasterReputation(r)
        \/ GetPaymasterStatus(r)
        \/ CreateEntry(r)
        \/ ClearAbuseFlag(r)
        \/ ClearAbuseFlagWrite(r)
        \/ OnRelayRequestAccepted(r)
        \/ OnRelayRequestAcceptedWrite(r)
    \/ GetBlock
    \/ GetAllHubEventsSinceLastScan
    \/ SetLastScanned
    \/ PassEnds
    \/ UpdatePaymasterStatus
    \/ CreateEntryByWorker
    \/ SetAbuseFlag
    \/ SetAbuseFlagWrite
    \/ UpdatePaymasterReputation
    \/ UpdateEntry
    \/ UpdateEntryWrite
    \/ MineEvents
    \/ Tick
    \/ RestartWorker

ReputationSpec == ReputationInit /\ [][ReputationNext]_reputationVars

----------------------------------------------------------------------------
(* Properties.                                                             *)

(* No event falls between two scans: what lies behind lastScannedBlock was *)
(* handled, is about to be, or belonged to a pass that was cut short,      *)
(* although events of later blocks than the pass's are scanned too.        *)
NoEventSkipped ==
    wpc # "scanned" =>
        \A i \in DOMAIN hubEvents :
            hubEvents[i].blockNumber <= lastScannedBlock =>
                turns[i] > 0 \/ i \in ToSet(events) \/ i \in cut

(* A paymaster is flagged as abusive only for losses within the window     *)
(* before the flag, each counted as often as it was handled, whatever      *)
(* entries were overwritten by stale ones, cleared, or scanned again.      *)
LossesBefore(f) ==
    {i \in DOMAIN hubEvents : hubEvents[i].change = -1
                              /\ f - hubEvents[i].blockNumber < AbuseTimeWindowBlocks}
NoAbuseWithoutLosses ==
    \A f \in flags :
        SumFunctionOnSet(turns, LossesBefore(f)) >= AbuseReputationChange
============================================================================
