--------------------------- MODULE RelayRegistrar ---------------------------
(***************************************************************************)
(* The RelayRegistrar contract (packages/contracts/src/utils/              *)
(* RelayRegistrar.sol) with the RelayHub and the StakeManager behind it:   *)
(* the list from which every client takes its relay servers.  Only the     *)
(* entries of `Hub` are kept; a foreign hub has a list of its own.         *)
(***************************************************************************)
EXTENDS RelayHub

CONSTANTS
    RegistrationMaxAges,    \* values of setRelayRegistrationMaxAge
    MaxRelaysReturned       \* MAX_RELAYS_RETURNED_COUNT

ASSUME RegistrarAssumption ==
    /\ RegistrationMaxAges \subseteq Nat /\ RegistrationMaxAges # {}
    /\ MaxRelaysReturned \in Nat
    /\ StartTime > 0

VARIABLES
    lastSeen,       \* values[Hub][m].lastSeenTimestamp, 0 for no entry
    indexedValues,  \* indexedValues[Hub]
    maxAge          \* relayRegistrationMaxAge

registrarVars == <<lastSeen, indexedValues, maxAge>>

RegistrarTypeOK ==
    /\ lastSeen \in [Managers -> Nat]
    /\ indexedValues \in Seq(Managers)
    /\ maxAge \in RegistrationMaxAges

RegistrarInit ==
    /\ Init
    /\ lastSeen = [m \in Managers |-> 0]
    /\ indexedValues = << >>
    /\ maxAge \in RegistrationMaxAges

----------------------------------------------------------------------------
SetRelayRegistrationMaxAge(age) ==
    /\ maxAge' = age
    /\ UNCHANGED <<lastSeen, indexedValues, vars>>

(* Mutant: a manager is indexed at each registration. *)
AddItemAgain(m) == indexedValues' = Append(indexedValues, m)

AddItem(m) ==
    indexedValues' = IF lastSeen[m] = 0 THEN Append(indexedValues, m) ELSE indexedValues

StoreRelayServerRegistration(m) ==
    /\ AddItem(m)
    /\ lastSeen' = [lastSeen EXCEPT ![m] = now]
    /\ UNCHANGED maxAge

(* Mutant: the hub is not asked. *)
RegisterUnasked(m) ==
    /\ StoreRelayServerRegistration(m)
    /\ UNCHANGED vars

(* Called by the manager m; the hub may refuse. *)
RegisterRelayServer(m) ==
    /\ OnRelayServerRegistered(m)
    /\ StoreRelayServerRegistration(m)

----------------------------------------------------------------------------
(* readRelayInfos: the registrations that are neither too old nor made by  *)
(* a manager whose stake the hub no longer accepts, the first              *)
(* MaxRelaysReturned of them in the order of their first registration.     *)

OldestTimestamp == IF now >= maxAge THEN now - maxAge ELSE 0

IsListed(m) == lastSeen[m] >= OldestTimestamp /\ VerifyRelayManagerStaked(m)

ListedIndices == {i \in 1..Len(indexedValues) : IsListed(indexedValues[i])}

ReadRelayInfos ==
    {indexedValues[i] : i \in
        {j \in ListedIndices :
            Cardinality({k \in ListedIndices : k <= j}) <= MaxRelaysReturned}}

----------------------------------------------------------------------------
RegistrarNext ==
    \/ \E m \in Managers : RegisterRelayServer(m)
    \/ \E age \in RegistrationMaxAges : SetRelayRegistrationMaxAge(age)
    \/ (RelayNext \/ HubOwnerNext \/ HubUsersNext \/ StakeManagerNext)
       /\ UNCHANGED registrarVars

RegistrarSpec == RegistrarInit /\ [][RegistrarNext]_<<vars, registrarVars>>

----------------------------------------------------------------------------
(* Safety.                                                                 *)

(* Each registered manager is indexed once and nobody else is: a client    *)
(* gets no relay twice, misses none, and no index without an entry makes   *)
(* getRelayInfo revert the reading of the whole list.                      *)
IndexExact ==
    /\ IsInjective(indexedValues)
    /\ \A m \in Managers :
          lastSeen[m] # 0 <=> \E i \in 1..Len(indexedValues) : indexedValues[i] = m

(* A relay that clients are offered has a worker to relay with, and its    *)
(* funds cannot be escheated, as long as registrations age no slower than  *)
(* abandoned relays: registering is also the keepalive.                    *)
ListedIsAlive ==
    \A m \in ReadRelayInfos :
        /\ workerCount[m] > 0
        /\ maxAge <= AbandonmentDelay + EscheatmentDelay => ~IsRelayEscheatable(m)

(* Why: what the registrar saw, the StakeManager saw too. *)
KeptAliveInv ==
    \A m \in Managers :
        lastSeen[m] # 0 => /\ stakes[m].keepaliveTime >= lastSeen[m]
                           /\ workerCount[m] > 0
=============================================================================
