--------------------- MODULE RegistrationManagerProofs ---------------------
(***************************************************************************)
(* Proofs about RegistrationManager for any urls and delays, any number    *)
(* of events, exceptions, split queries and restarts.                      *)
(***************************************************************************)
EXTENDS RegistrationManager, InductionLemmas, TLAPS

Entry == [event : Events, age : Nat, left : Int]
ChainFields == {"ownerSet", "staked", "unlocked", "left", "hub", "worker", "relayUrl",
                "regAge", "deposit", "workerEth", "managerEth"}
BeforeEvents == {"idle", "fetch"}
AfterEvents == {"register", "attempt", "registerFirst", "registerTx", "finish"}

Shape ==
    /\ log \in Seq(Entry)
    /\ DOMAIN chain = ChainFields
    /\ DOMAIN mem = DOMAIN Started /\ mem.hubAuthorized \in BOOLEAN
    /\ DOMAIN pass = DOMAIN Idle
    /\ pass.todo \in Seq(Nat)
    /\ \A p \in DOMAIN pass.todo : pass.todo[p] \in (scanned + 1)..Len(log)
    /\ pass.seen \in 0..Len(log) /\ scanned \in 0..Len(log)

(* The chain agrees with the last of the events.                           *)
UnauthorizedOnChain == \A i \in DOMAIN log : Unauthorized(i) => ~chain.hub

(* From every event to be handled, all later ones that this pass has seen  *)
(* are still to be handled, also when a query was split.                   *)
NoneSkipped ==
    \A p \in DOMAIN pass.todo : \A i \in pass.todo[p]..pass.seen :
        \E q \in DOMAIN pass.todo : q >= p /\ pass.todo[q] = i

(* An unauthorization this pass has seen is known or still to be handled.  *)
ToldInPass ==
    pass.pc \notin BeforeEvents =>
        \A i \in DOMAIN log : i <= pass.seen /\ Unauthorized(i) =>
            \/ ~mem.hubAuthorized
            \/ \E q \in DOMAIN pass.todo : pass.todo[q] = i

AllHandled == pass.pc \in AfterEvents => pass.todo = <<>>

AuthorizationInv ==
    /\ Shape /\ UnauthorizedOnChain /\ NoneSkipped /\ ToldInPass /\ AllHandled
    /\ KnowsUnauthorized

----------------------------------------------------------------------------
LEMMA Numbers ==
    /\ UnstakeDelay \in Nat /\ RescanDepth \in Nat /\ MaxLag \in Nat
  BY RegistrationAssumption DEF RegistrationAssumption

LEMMA Fields ==
    /\ DOMAIN Started = {"hubAuthorized", "stakeLocked", "staked", "funded", "ownerSet",
                         "setOwnerCalled", "owner", "relayUrl", "delayed",
                         "checkBalances", "refreshAge"}
    /\ DOMAIN Idle = {"pc", "lag", "seen", "todo", "sweep", "force"}
    /\ Idle.pc = "idle" /\ Idle.seen = 0 /\ Idle.todo = <<>>
    /\ Idle.todo \in Seq(Nat) /\ DOMAIN Idle.todo = {}
  BY DEF Started, Idle

LEMMA InitAuthorizationInv == Init => AuthorizationInv
  <1> SUFFICES ASSUME Init PROVE AuthorizationInv
    OBVIOUS
  <1>1. /\ log = <<>> /\ DOMAIN log = {} /\ Len(log) = 0 /\ log \in Seq(Entry)
        /\ pass = Idle /\ scanned = 0
    BY DEF Init
  <1>2. DOMAIN chain = ChainFields
    BY DEF Init, ChainFields
  <1>3. DOMAIN mem = DOMAIN Started /\ mem.hubAuthorized \in BOOLEAN
    BY DEF Init, Started
  <1> QED BY <1>1, <1>2, <1>3, Fields
          DEF AuthorizationInv, Shape, UnauthorizedOnChain, NoneSkipped, ToldInPass,
              AllHandled, KnowsUnauthorized, BeforeEvents, AfterEvents

(* Steps of the worker that handle no event: what is remembered of the     *)
(* authorization stays or comes from the chain.                            *)
LEMMA WorkerAuthorizationInv ==
    ASSUME AuthorizationInv, UNCHANGED <<log, chain, scanned>>,
           DOMAIN mem' = DOMAIN Started, mem'.hubAuthorized \in BOOLEAN,
           mem'.hubAuthorized => mem.hubAuthorized \/ chain.hub,
           \/ pass' = Idle
           \/ /\ DOMAIN pass' = DOMAIN Idle
              /\ pass'.todo = pass.todo /\ pass'.seen = pass.seen
              /\ pass'.pc \in BeforeEvents \/ pass.pc \notin BeforeEvents
              /\ pass'.pc \in AfterEvents => pass.pc \in AfterEvents \/ pass.todo = <<>>
    PROVE  AuthorizationInv'
  <1>1. \A i : Unauthorized(i)' <=> Unauthorized(i)
    BY DEF Unauthorized
  <1>2. KnowsUnauthorized' /\ UnauthorizedOnChain'
    BY <1>1 DEF AuthorizationInv, KnowsUnauthorized, UnauthorizedOnChain
  <1>3. CASE pass' = Idle
    BY <1>2, <1>3, Fields DEF AuthorizationInv, Shape, NoneSkipped, ToldInPass,
                              AllHandled, BeforeEvents, AfterEvents
  <1>4. CASE /\ DOMAIN pass' = DOMAIN Idle
             /\ pass'.todo = pass.todo /\ pass'.seen = pass.seen
             /\ pass'.pc \in BeforeEvents \/ pass.pc \notin BeforeEvents
             /\ pass'.pc \in AfterEvents => pass.pc \in AfterEvents \/ pass.todo = <<>>
    <2>1. Shape' /\ NoneSkipped' /\ AllHandled'
      BY <1>4 DEF AuthorizationInv, Shape, NoneSkipped, AllHandled
    <2>2. ToldInPass'
      BY <1>1, <1>4 DEF AuthorizationInv, ToldInPass, UnauthorizedOnChain
    <2> QED BY <1>2, <2>1, <2>2 DEF AuthorizationInv
  <1> QED BY <1>3, <1>4

(* Sending changes neither, and when it throws the pass is over.           *)
LEMMA SendEffect ==
    ASSUME NEW action, NEW given, NEW m, NEW p, NEW thrown,
           Send(action, given, m, p, thrown)
    PROVE  /\ UNCHANGED <<log, chain, scanned>>
           /\ \/ mem' = [m EXCEPT !.checkBalances = TRUE] /\ pass' = p
              \/ mem' = thrown /\ pass' = Idle
  BY DEF Send, PassThrows

LEMMA RefreshedHub ==
    ASSUME NEW m, DOMAIN m = DOMAIN Started, m.hubAuthorized \in BOOLEAN
    PROVE  /\ DOMAIN RefreshedStake(m) = DOMAIN Started
           /\ RefreshedStake(m).hubAuthorized \in BOOLEAN
           /\ RefreshedStake(m).hubAuthorized => m.hubAuthorized \/ chain.hub
  <1> DEFINE read == [m EXCEPT !.hubAuthorized = m.hubAuthorized \/ StakedOnHub,
                               !.ownerSet = chain.ownerSet]
  <1>1. /\ DOMAIN read = DOMAIN Started
        /\ read.hubAuthorized = (m.hubAuthorized \/ StakedOnHub)
    BY Fields
  <1>2. \/ RefreshedStake(m) = read
        \/ RefreshedStake(m) = [read EXCEPT !.stakeLocked = ~chain.unlocked,
                                            !.staked = TRUE, !.owner = TRUE]
    BY DEF RefreshedStake
  <1>3. /\ DOMAIN RefreshedStake(m) = DOMAIN Started
        /\ RefreshedStake(m).hubAuthorized = read.hubAuthorized
    <2> HIDE DEF read
    <2> QED BY <1>1, <1>2, Fields
  <1>4. StakedOnHub => chain.hub
    BY DEF StakedOnHub
  <1> QED BY <1>1, <1>3, <1>4

LEMMA RefreshEffect ==
    ASSUME NEW m, NEW p, DOMAIN m = DOMAIN Started, m.hubAuthorized \in BOOLEAN,
           DOMAIN mem = DOMAIN Started, mem.hubAuthorized \in BOOLEAN,
           RefreshStake(m, p)
    PROVE  /\ UNCHANGED <<log, chain, scanned>>
           /\ DOMAIN mem' = DOMAIN Started /\ mem'.hubAuthorized \in BOOLEAN
           /\ \/ pass' = p /\ (mem'.hubAuthorized => m.hubAuthorized \/ chain.hub)
              \/ pass' = Idle /\ mem' = mem
  <1> DEFINE r == RefreshedStake(m)
  <1>1. /\ DOMAIN r = DOMAIN Started /\ r.hubAuthorized \in BOOLEAN
        /\ r.hubAuthorized => m.hubAuthorized \/ chain.hub
    BY RefreshedHub
  <1>2. /\ UNCHANGED <<log, chain, scanned>>
        /\ \/ mem' \in {r, [r EXCEPT !.checkBalances = TRUE]} /\ pass' = p
           \/ mem' = mem /\ pass' = Idle
    BY SendEffect DEF RefreshStake, Proceed
  <1> HIDE DEF r
  <1>3. CASE mem' \in {r, [r EXCEPT !.checkBalances = TRUE]} /\ pass' = p
    <2>1. DOMAIN mem' = DOMAIN r /\ mem'.hubAuthorized = r.hubAuthorized
      BY <1>1, <1>3, Fields
    <2> QED BY <1>1, <1>2, <1>3, <2>1
  <1>4. CASE mem' = mem /\ pass' = Idle
    BY <1>2, <1>4
  <1> QED BY <1>2, <1>3, <1>4

----------------------------------------------------------------------------
(* The steps of a pass                                                     *)

LEMMA StartAuthorizationInv == AuthorizationInv /\ StartPass => AuthorizationInv'
  <1> SUFFICES ASSUME AuthorizationInv, StartPass PROVE AuthorizationInv'
    OBVIOUS
  <1>1. /\ UNCHANGED <<log, chain, scanned>>
        /\ DOMAIN mem' = DOMAIN Started /\ mem'.hubAuthorized = mem.hubAuthorized
        /\ pass.pc = "idle"
    BY Fields DEF StartPass, AuthorizationInv, Shape
  <1>2. CASE UNCHANGED pass
    BY <1>1, <1>2, WorkerAuthorizationInv DEF AuthorizationInv, Shape
  <1>3. CASE pass' = [Idle EXCEPT !.pc = "fetch", !.seen = Len(log)]
    <2>1. /\ DOMAIN pass' = DOMAIN Idle /\ pass'.pc = "fetch" /\ pass'.seen = Len(log)
          /\ pass'.todo = <<>> /\ pass'.todo \in Seq(Nat) /\ DOMAIN pass'.todo = {}
      BY <1>3, Fields
    <2>2. \A i : Unauthorized(i)' <=> Unauthorized(i)
      BY <1>1 DEF Unauthorized
    <2>3. KnowsUnauthorized' /\ UnauthorizedOnChain'
      BY <1>1, <2>2 DEF AuthorizationInv, KnowsUnauthorized, UnauthorizedOnChain
    <2>4. Shape'
      BY <1>1, <2>1 DEF AuthorizationInv, Shape
    <2> QED BY <2>1, <2>3, <2>4 DEF AuthorizationInv, NoneSkipped, ToldInPass, AllHandled,
            BeforeEvents, AfterEvents
  <1> QED BY <1>2, <1>3 DEF StartPass

(* The n numbers after from, the first k of them once more in front        *)
IsSplit(t, from, n, k) ==
    /\ DOMAIN t = 1..(k + n)
    /\ \A p \in 1..k : t[p] = from + p
    /\ \A p \in (k + 1)..(k + n) : t[p] = from + p - k

(* All numbers after from up to last, and none is the last before a later  *)
(* one has come.                                                           *)
IsComplete(t, from, last) ==
    /\ \A p \in DOMAIN t : t[p] \in (from + 1)..last
    /\ \A i \in (from + 1)..last : \E q \in DOMAIN t : t[q] = i
    /\ \A p \in DOMAIN t : \A i \in t[p]..last : \E q \in DOMAIN t : q >= p /\ t[q] = i

IsConcat(w, u, v) ==
    /\ w \in Seq(Nat) /\ Len(w) = Len(u) + Len(v)
    /\ \A p \in 1..(Len(u) + Len(v)) : w[p] = IF p <= Len(u) THEN u[p] ELSE v[p - Len(u)]

LEMMA ConcatNumbers ==
    ASSUME NEW u \in Seq(Nat), NEW v \in Seq(Nat)
    PROVE  IsConcat(u \o v, u, v)
  BY DEF IsConcat

LEMMA Consecutive ==
    ASSUME NEW from \in Nat, NEW n \in Nat, NEW k \in Nat, k <= n,
           NEW all, all = [i \in 1..n |-> from + i],
           NEW t, t = SubSeq(all, 1, k) \o all
    PROVE  t \in Seq(Nat) /\ IsSplit(t, from, n, k)
  <1>1. all \in Seq(Nat) /\ Len(all) = n /\ \A i \in 1..n : all[i] = from + i
    OBVIOUS
  <1> DEFINE first == SubSeq(all, 1, k)
  <1>2. first \in Seq(Nat) /\ Len(first) = k /\ \A p \in 1..k : first[p] = all[p]
    BY <1>1
  <1>3. IsConcat(t, first, all)
    BY <1>1, <1>2, ConcatNumbers DEF first
  <1> HIDE DEF first
  <1>4. /\ t \in Seq(Nat) /\ Len(t) = k + n
        /\ \A p \in 1..(k + n) : t[p] = IF p <= k THEN first[p] ELSE all[p - k]
    BY <1>1, <1>2, <1>3 DEF IsConcat
  <1>5. ASSUME NEW p \in 1..k PROVE t[p] = from + p
    <2>1. p \in 1..(k + n) /\ p \in 1..n
      OBVIOUS
    <2> QED BY <1>1, <1>2, <1>4, <2>1
  <1>6. ASSUME NEW p \in (k + 1)..(k + n) PROVE t[p] = from + p - k
    <2>1. p \in 1..(k + n) /\ p - k \in 1..n
      OBVIOUS
    <2>2. t[p] = all[p - k] /\ all[p - k] = from + (p - k)
      BY <1>1, <1>4, <2>1
    <2> QED BY <2>2
  <1>7. DOMAIN t = 1..(k + n)
    BY <1>4
  <1> QED BY <1>4, <1>5, <1>6, <1>7 DEF IsSplit

(* From each of them all later ones follow.                                *)
LEMMA LaterFollow ==
    ASSUME NEW from \in Nat, NEW n \in Nat, NEW k \in Nat, k <= n, NEW t,
           IsSplit(t, from, n, k)
    PROVE  IsComplete(t, from, from + n)
  <1> USE DEF IsSplit
  <1>1. ASSUME NEW i \in (from + 1)..(from + n)
        PROVE  /\ k + i - from \in DOMAIN t /\ t[k + i - from] = i
               /\ \A p \in DOMAIN t : t[p] <= i => k + i - from >= p
    OBVIOUS
  <1>2. \A p \in DOMAIN t : t[p] \in (from + 1)..(from + n)
    OBVIOUS
  <1>3. ASSUME NEW p \in DOMAIN t, NEW i \in t[p]..(from + n)
        PROVE  \E q \in DOMAIN t : q >= p /\ t[q] = i
    <2>1. i \in (from + 1)..(from + n) /\ t[p] <= i
      BY <1>2
    <2> QED BY <1>1, <2>1
  <1> QED BY <1>1, <1>2, <1>3 DEF IsComplete

(* The query returns every event after lastScannedBlock in order, perhaps  *)
(* with the first of them once more in front.                              *)
LEMMA EventsFetched ==
    ASSUME Shape, NEW r \in PastEvents(scanned)
    PROVE  r.todo \in Seq(Nat) /\ IsComplete(r.todo, scanned, Len(log))
  <1> DEFINE n == Len(log) - scanned
             all == [i \in 1..n |-> scanned + i]
  <1>1. n \in Nat /\ scanned \in Nat /\ scanned + n = Len(log)
    <2>1. Len(log) \in Nat
      BY DEF Shape
    <2> QED BY <2>1 DEF Shape
  <1>2. all \in Seq(Nat) /\ Len(all) = n
    BY <1>1
  <1>3. PICK k \in Nat : k <= n /\ r.todo = SubSeq(all, 1, k) \o all
    <2>1. \/ r = [todo |-> all, trouble |-> 0]
          \/ \E k \in 1..(Len(all) - 1) :
                 r = [todo |-> SubSeq(all, 1, k) \o all, trouble |-> 1]
      BY DEF PastEvents
    <2>2. CASE r = [todo |-> all, trouble |-> 0]
      <3>1. SubSeq(all, 1, 0) = <<>> /\ <<>> \o all = all
        BY <1>2
      <3>2. r.todo = all
        BY <2>2
      <3>3. r.todo = SubSeq(all, 1, 0) \o all
        BY <3>1, <3>2
      <3>4. 0 \in Nat /\ 0 <= n
        BY <1>1
      <3> HIDE DEF all, n
      <3> QED BY <3>3, <3>4
    <2>3. ASSUME NEW k \in 1..(Len(all) - 1),
                 r = [todo |-> SubSeq(all, 1, k) \o all, trouble |-> 1]
          PROVE  k \in Nat /\ k <= n /\ r.todo = SubSeq(all, 1, k) \o all
      <3> HIDE DEF all, n
      <3> QED BY <1>1, <1>2, <2>3
    <2> QED BY <2>1, <2>2, <2>3
  <1>4. all = [i \in 1..n |-> scanned + i]
    OBVIOUS
  <1> HIDE DEF n, all
  <1>5. r.todo \in Seq(Nat) /\ IsSplit(r.todo, scanned, n, k)
    BY <1>1, <1>3, <1>4, Consecutive
  <1> QED BY <1>1, <1>3, <1>5, LaterFollow

LEMMA FetchAuthorizationInv == AuthorizationInv /\ FetchEvents => AuthorizationInv'
  <1> SUFFICES ASSUME AuthorizationInv, FetchEvents PROVE AuthorizationInv'
    OBVIOUS
  <1>1. PICK r \in PastEvents(scanned) :
          pass' = [pass EXCEPT !.pc = "setOwner", !.todo = r.todo,
                               !.force = ShouldRegisterAgain]
    BY DEF FetchEvents
  <1>2. /\ UNCHANGED <<log, chain, mem, scanned>>
        /\ DOMAIN pass' = DOMAIN Idle /\ pass'.pc = "setOwner"
        /\ pass'.todo = r.todo /\ pass'.seen = pass.seen
    BY <1>1, Fields DEF FetchEvents, AuthorizationInv, Shape
  <1>3. \A i : Unauthorized(i)' <=> Unauthorized(i)
    BY <1>2 DEF Unauthorized
  <1>4. KnowsUnauthorized' /\ UnauthorizedOnChain'
    BY <1>2, <1>3 DEF AuthorizationInv, KnowsUnauthorized, UnauthorizedOnChain
  <1>5. Shape
    BY DEF AuthorizationInv
  <1>6. Shape'
    BY <1>2, <1>5, EventsFetched DEF Shape, IsComplete
  <1>7. NoneSkipped'
    <2> SUFFICES ASSUME NEW p \in DOMAIN r.todo, NEW i \in r.todo[p]..pass.seen
                 PROVE  \E q \in DOMAIN r.todo : q >= p /\ r.todo[q] = i
      BY <1>2 DEF NoneSkipped
    <2>1. r.todo[p] \in (scanned + 1)..Len(log)
      BY <1>5, EventsFetched DEF IsComplete
    <2>2. i \in r.todo[p]..Len(log)
      BY <1>5, <2>1 DEF Shape
    <2> QED BY <1>5, <2>2, EventsFetched DEF IsComplete
  <1>8. ToldInPass'
    <2> SUFFICES ASSUME NEW i \in DOMAIN log, i <= pass.seen, Unauthorized(i)
                 PROVE  ~mem.hubAuthorized \/ \E q \in DOMAIN r.todo : r.todo[q] = i
      BY <1>2, <1>3 DEF ToldInPass
    <2>1. CASE i <= scanned
      BY <2>1 DEF AuthorizationInv, KnowsUnauthorized
    <2>2. CASE i > scanned
      <3>1. i \in (scanned + 1)..Len(log)
        BY <1>5, <2>2 DEF Shape
      <3> QED BY <1>5, <3>1, EventsFetched DEF IsComplete
    <2> QED BY <1>5, <2>1, <2>2 DEF Shape
  <1> QED BY <1>2, <1>4, <1>6, <1>7, <1>8 DEF AuthorizationInv, AllHandled, AfterEvents

(* What is left of a sequence after its head                               *)
IsTail(r, t) ==
    /\ \A q \in DOMAIN r : q \in Nat /\ q + 1 \in DOMAIN t /\ r[q] = t[q + 1]
    /\ \A q \in DOMAIN t \ {1} : q \in Nat /\ q - 1 \in DOMAIN r /\ r[q - 1] = t[q]

LEMMA TailFacts ==
    ASSUME NEW t \in Seq(Nat), t # <<>>
    PROVE  /\ t[1] = Head(t) /\ 1 \in DOMAIN t /\ Tail(t) \in Seq(Nat)
           /\ IsTail(Tail(t), t)
  <1>1. /\ Len(t) \in Nat /\ DOMAIN t = 1..Len(t) /\ Len(t) >= 1
        /\ DOMAIN Tail(t) = 1..(Len(t) - 1)
        /\ \A q \in 1..(Len(t) - 1) : Tail(t)[q] = t[q + 1]
    OBVIOUS
  <1>2. \A q \in DOMAIN Tail(t) : q \in Nat /\ q + 1 \in DOMAIN t /\ Tail(t)[q] = t[q + 1]
    BY <1>1
  <1>3. ASSUME NEW q \in DOMAIN t \ {1}
        PROVE  q \in Nat /\ q - 1 \in DOMAIN Tail(t) /\ Tail(t)[q - 1] = t[q]
    <2>1. q - 1 \in 1..(Len(t) - 1) /\ q - 1 + 1 = q
      BY <1>1
    <2> QED BY <1>1, <2>1
  <1> QED BY <1>1, <1>2, <1>3 DEF IsTail

(* The event at the head is handled: an unauthorization is remembered, an  *)
(* authorization only hides one whose turn is still to come.               *)
LEMMA HandleAuthorizationInv == AuthorizationInv /\ HandleEvent => AuthorizationInv'
  <1> SUFFICES ASSUME AuthorizationInv, HandleEvent PROVE AuthorizationInv'
    OBVIOUS
  <1> DEFINE k == Head(pass.todo)
             e == log[k]
             p == [pass EXCEPT !.todo = Tail(pass.todo)]
  <1>1. Shape /\ pass.pc = "events" /\ pass.todo # <<>>
    BY DEF AuthorizationInv, HandleEvent
  <1>2. /\ pass.todo[1] = k /\ 1 \in DOMAIN pass.todo /\ Tail(pass.todo) \in Seq(Nat)
        /\ IsTail(Tail(pass.todo), pass.todo)
    BY <1>1, TailFacts DEF Shape
  <1>3. k \in DOMAIN log /\ k \in Nat /\ k > scanned
    BY <1>1, <1>2 DEF Shape
  <1> HIDE DEF k
  <1>4. /\ UNCHANGED <<log, chain, scanned>>
        /\ DOMAIN mem' = DOMAIN Started /\ mem'.hubAuthorized \in BOOLEAN
        /\ \/ pass' = Idle /\ mem' = mem
           \/ /\ pass' \in {p, [p EXCEPT !.sweep = AllFunds(TRUE)]}
              /\ \/ e.event = "HubAuthorized"
                 \/ e.event = "HubUnauthorized" /\ ~mem'.hubAuthorized
                 \/ /\ e.event \notin {"HubAuthorized", "HubUnauthorized"}
                    /\ mem'.hubAuthorized => mem.hubAuthorized \/ chain.hub
    <2>1. CASE e.event = "HubAuthorized"
      <3>1. Proceed([mem EXCEPT !.hubAuthorized = TRUE], p)
        BY <2>1 DEF HandleEvent, k
      <3> QED BY <1>1, <2>1, <3>1, Fields DEF Proceed, Shape
    <2>2. CASE e.event = "HubUnauthorized"
      <3>1. Proceed([mem EXCEPT !.hubAuthorized = FALSE,
                                !.delayed = Append(mem.delayed, e.left)], p)
        BY <2>2 DEF HandleEvent, k
      <3>2. /\ UNCHANGED <<log, chain, scanned>> /\ pass' = p
            /\ mem' = [mem EXCEPT !.hubAuthorized = FALSE,
                                  !.delayed = Append(mem.delayed, e.left)]
        BY <3>1 DEF Proceed
      <3>3. DOMAIN mem' = DOMAIN Started /\ mem'.hubAuthorized = FALSE
        BY <1>1, <3>2, Fields DEF Shape
      <3> QED BY <2>2, <3>2, <3>3
    <2>3. CASE e.event \notin {"HubAuthorized", "HubUnauthorized"}
      <3>1. \E s \in {p, [p EXCEPT !.sweep = AllFunds(TRUE)]} : RefreshStake(mem, s)
        BY <2>3 DEF HandleEvent, k
      <3> HIDE DEF p, e
      <3> QED BY <1>1, <2>3, <3>1, RefreshEffect DEF Shape
    <2> QED BY <2>1, <2>2, <2>3
  <1>5. CASE pass' = Idle /\ mem' = mem
    BY <1>4, <1>5, WorkerAuthorizationInv
  <1>6. CASE /\ pass' \in {p, [p EXCEPT !.sweep = AllFunds(TRUE)]}
             /\ \/ e.event = "HubAuthorized"
                \/ e.event = "HubUnauthorized" /\ ~mem'.hubAuthorized
                \/ /\ e.event \notin {"HubAuthorized", "HubUnauthorized"}
                   /\ mem'.hubAuthorized => mem.hubAuthorized \/ chain.hub
    <2>1. /\ DOMAIN pass' = DOMAIN Idle /\ pass'.pc = "events"
          /\ pass'.todo = Tail(pass.todo) /\ pass'.seen = pass.seen
      BY <1>1, <1>6, Fields DEF Shape
    <2>2. Shape'
      <3>1. \A q \in DOMAIN pass'.todo : pass'.todo[q] \in (scanned + 1)..Len(log)
        BY <1>1, <1>2, <2>1 DEF Shape, IsTail
      <3> QED BY <1>1, <1>2, <1>4, <2>1, <3>1 DEF Shape
    <2>3. NoneSkipped'
      <3> SUFFICES ASSUME NEW q \in DOMAIN Tail(pass.todo),
                          NEW i \in Tail(pass.todo)[q]..pass.seen
                   PROVE  \E j \in DOMAIN Tail(pass.todo) : j >= q /\ Tail(pass.todo)[j] = i
        BY <2>1 DEF NoneSkipped
      <3>1. q + 1 \in DOMAIN pass.todo /\ i \in pass.todo[q + 1]..pass.seen
        BY <1>2 DEF IsTail
      <3>2. PICK j \in DOMAIN pass.todo : j >= q + 1 /\ pass.todo[j] = i
        BY <3>1 DEF AuthorizationInv, NoneSkipped
      <3>3. j \in DOMAIN pass.todo \ {1} /\ j \in Nat /\ q \in Nat
        <4>1. q \in Nat
          BY <1>2 DEF IsTail
        <4>2. j # 1
          BY <3>2, <4>1
        <4> QED BY <1>2, <4>1, <4>2 DEF IsTail
      <3>4. j - 1 \in DOMAIN Tail(pass.todo) /\ Tail(pass.todo)[j - 1] = pass.todo[j]
        BY <1>2, <3>3 DEF IsTail
      <3>5. j - 1 >= q
        BY <3>2, <3>3
      <3> QED BY <3>2, <3>4, <3>5
    <2>4. \A i \in DOMAIN log : Unauthorized(i)' <=> Unauthorized(i)
      BY <1>4 DEF Unauthorized
    <2>5. ASSUME NEW i \in DOMAIN log, Unauthorized(i), i <= pass.seen, i # k,
                 \E q \in DOMAIN pass.todo : pass.todo[q] = i
          PROVE  \E q \in DOMAIN Tail(pass.todo) : Tail(pass.todo)[q] = i
      <3>1. PICK q \in DOMAIN pass.todo : pass.todo[q] = i
        BY <2>5
      <3>2. q \in DOMAIN pass.todo \ {1}
        BY <1>2, <2>5, <3>1
      <3>3. q - 1 \in DOMAIN Tail(pass.todo) /\ Tail(pass.todo)[q - 1] = i
        BY <1>2, <3>1, <3>2 DEF IsTail
      <3> QED BY <3>3
    <2>6. ASSUME NEW i \in DOMAIN log, Unauthorized(i), e.event = "HubAuthorized",
                 i <= pass.seen
          PROVE  \E q \in DOMAIN Tail(pass.todo) : Tail(pass.todo)[q] = i
      <3>1. i # k /\ ~(k > i)
        BY <1>3, <2>6 DEF Unauthorized
      <3>2. i \in pass.todo[1]..pass.seen /\ 1 \in DOMAIN pass.todo
        BY <1>1, <1>2, <1>3, <2>6, <3>1 DEF Shape
      <3>3. \E q \in DOMAIN pass.todo : pass.todo[q] = i
        BY <3>2 DEF AuthorizationInv, NoneSkipped
      <3> QED BY <2>5, <2>6, <3>1, <3>3
    <2>7. ASSUME NEW i \in DOMAIN log, Unauthorized(i), i <= pass.seen
          PROVE  ~mem'.hubAuthorized \/ \E q \in DOMAIN pass'.todo : pass'.todo[q] = i
      <3>1. CASE e.event = "HubAuthorized"
        BY <2>1, <2>6, <2>7, <3>1
      <3>2. CASE e.event = "HubUnauthorized" /\ ~mem'.hubAuthorized
        BY <3>2
      <3>3. CASE /\ e.event \notin {"HubAuthorized", "HubUnauthorized"}
                 /\ mem'.hubAuthorized => mem.hubAuthorized \/ chain.hub
        <4>1. ~chain.hub /\ i # k
          BY <2>7, <3>3 DEF AuthorizationInv, UnauthorizedOnChain, Unauthorized
        <4>2. ~mem.hubAuthorized \/ \E q \in DOMAIN pass.todo : pass.todo[q] = i
          BY <1>1, <2>7 DEF AuthorizationInv, ToldInPass, BeforeEvents
        <4> QED BY <2>1, <2>5, <2>7, <3>3, <4>1, <4>2
      <3> QED BY <1>6, <3>1, <3>2, <3>3
    <2>8. ToldInPass'
      BY <1>4, <2>1, <2>4, <2>7 DEF ToldInPass
    <2>9. KnowsUnauthorized'
      <3> SUFFICES ASSUME NEW i \in DOMAIN log, i <= scanned, Unauthorized(i)
                   PROVE  ~mem'.hubAuthorized
        BY <1>4, <2>4 DEF KnowsUnauthorized
      <3>1. ~mem.hubAuthorized /\ ~chain.hub
        BY DEF AuthorizationInv, KnowsUnauthorized, UnauthorizedOnChain
      <3>2. e.event # "HubAuthorized"
        BY <1>1, <1>3 DEF Unauthorized, Shape
      <3> QED BY <1>6, <3>1, <3>2
    <2> QED BY <1>4, <2>1, <2>2, <2>3, <2>4, <2>8, <2>9
            DEF AuthorizationInv, UnauthorizedOnChain, AllHandled, AfterEvents
  <1> QED BY <1>4, <1>5, <1>6

LEMMA FinishAuthorizationInv == AuthorizationInv /\ FinishPass => AuthorizationInv'
  <1> SUFFICES ASSUME AuthorizationInv, FinishPass PROVE AuthorizationInv'
    OBVIOUS
  <1>1. /\ UNCHANGED <<log, chain>> /\ scanned' = pass.seen /\ pass' = Idle
        /\ pass.pc = "finish"
    BY DEF FinishPass, SetLastScannedBlock
  <1>2. DOMAIN mem' = DOMAIN Started /\ mem'.hubAuthorized = mem.hubAuthorized
    BY Fields DEF FinishPass, AuthorizationInv, Shape
  <1>3. \A i : Unauthorized(i)' <=> Unauthorized(i)
    BY <1>1 DEF Unauthorized
  <1>4. pass.todo = <<>> /\ DOMAIN pass.todo = {}
    BY <1>1 DEF AuthorizationInv, AllHandled, AfterEvents
  <1>5. KnowsUnauthorized'
    BY <1>1, <1>2, <1>3, <1>4
       DEF KnowsUnauthorized, AuthorizationInv, ToldInPass, BeforeEvents
  <1>6. UnauthorizedOnChain'
    BY <1>1, <1>3 DEF AuthorizationInv, UnauthorizedOnChain
  <1> QED BY <1>1, <1>2, <1>5, <1>6, Fields
          DEF AuthorizationInv, Shape, NoneSkipped, ToldInPass, AllHandled,
              BeforeEvents, AfterEvents

LEMMA FirstNumbers ==
    ASSUME NEW n \in Nat
    PROVE  IsFiniteSet(1..n) /\ Cardinality(1..n) = n
  <1>1. 1 \in Int /\ n \in Int
    OBVIOUS
  <1>2. IsFiniteSet(1..n) /\ Cardinality(1..n) = IF 1 > n THEN 0 ELSE n - 1 + 1
    BY <1>1, FS_Interval
  <1> QED BY <1>2

(* A started process knows what the chain says.                            *)
LEMMA RestartAuthorizationInv == AuthorizationInv /\ Restart => AuthorizationInv'
  <1> SUFFICES ASSUME AuthorizationInv, Restart PROVE AuthorizationInv'
    OBVIOUS
  <1>1. /\ UNCHANGED <<log, chain>> /\ pass' = Idle
        /\ scanned' = Cardinality({i \in DOMAIN log : log[i].age >= RescanDepth})
    BY DEF Restart
  <1>2. DOMAIN mem' = DOMAIN Started /\ mem'.hubAuthorized = StakedOnHub
    BY Fields DEF Restart
  <1>3. scanned' \in 0..Len(log)
    <2>1. Len(log) \in Nat /\ DOMAIN log = 1..Len(log)
      BY DEF AuthorizationInv, Shape
    <2>2. IsFiniteSet(1..Len(log)) /\ Cardinality(1..Len(log)) = Len(log)
      BY <2>1, FirstNumbers
    <2>3. /\ IsFiniteSet({i \in DOMAIN log : log[i].age >= RescanDepth})
          /\ Cardinality({i \in DOMAIN log : log[i].age >= RescanDepth}) <= Len(log)
      BY <2>1, <2>2, FS_Subset
    <2> QED BY <1>1, <2>1, <2>3, FS_CardinalityType
  <1>4. \A i : Unauthorized(i)' <=> Unauthorized(i)
    BY <1>1 DEF Unauthorized
  <1>5. mem'.hubAuthorized \in BOOLEAN /\ (mem'.hubAuthorized => chain.hub)
    BY <1>2 DEF StakedOnHub
  <1>6. KnowsUnauthorized' /\ UnauthorizedOnChain'
    BY <1>1, <1>4, <1>5 DEF AuthorizationInv, KnowsUnauthorized, UnauthorizedOnChain
  <1> QED BY <1>1, <1>2, <1>3, <1>5, <1>6, Fields
          DEF AuthorizationInv, Shape, NoneSkipped, ToldInPass, AllHandled,
              BeforeEvents, AfterEvents

(* The other steps of a pass                                               *)
LEMMA OtherWorkerAuthorizationInv ==
    ASSUME AuthorizationInv,
           \/ SetOwnerInStakeManager \/ ExtractDuePendingEvents \/ Sweep
           \/ RefreshRegistrarRelayInfo \/ AttemptRegistration \/ RegisterRelayServer
           \/ WorkerFails
    PROVE  AuthorizationInv'
  <1> DEFINE Kept(m) == DOMAIN m = DOMAIN Started /\ m.hubAuthorized = mem.hubAuthorized
             Moved(p) == /\ DOMAIN p = DOMAIN Idle /\ p.todo = pass.todo /\ p.seen = pass.seen
                         /\ p.pc \in BeforeEvents \/ pass.pc \notin BeforeEvents
                         /\ p.pc \in AfterEvents => pass.pc \in AfterEvents \/ pass.todo = <<>>
  <1>1. Shape
    BY DEF AuthorizationInv
  <1>2. Kept(mem) /\ \A m : Kept(m) => Kept([m EXCEPT !.checkBalances = TRUE])
    BY <1>1, Fields DEF Shape
  <1>3. ASSUME UNCHANGED <<log, chain, scanned>>, Kept(mem'), pass' = Idle \/ Moved(pass')
        PROVE  AuthorizationInv'
    BY <1>1, <1>3, WorkerAuthorizationInv DEF Shape
  <1>4. ASSUME NEW action, NEW given, NEW m, NEW p, NEW thrown, Kept(m), Kept(thrown),
               Moved(p), Send(action, given, m, p, thrown)
        PROVE  AuthorizationInv'
    <2>1. /\ UNCHANGED <<log, chain, scanned>>
          /\ \/ mem' = [m EXCEPT !.checkBalances = TRUE] /\ pass' = p
             \/ mem' = thrown /\ pass' = Idle
      BY <1>4, SendEffect
    <2> QED BY <1>2, <1>3, <1>4, <2>1
  <1>5. ASSUME NEW m, NEW p, Kept(m), Moved(p), Proceed(m, p) PROVE AuthorizationInv'
    BY <1>3, <1>5 DEF Proceed
  <1>6. ASSUME NEW m, NEW p, Kept(m), Moved(p), RefreshStake(m, p) PROVE AuthorizationInv'
    <2>1. m.hubAuthorized \in BOOLEAN
      BY <1>1, <1>6 DEF Shape
    <2>2. /\ UNCHANGED <<log, chain, scanned>>
          /\ DOMAIN mem' = DOMAIN Started /\ mem'.hubAuthorized \in BOOLEAN
          /\ \/ pass' = p /\ (mem'.hubAuthorized => m.hubAuthorized \/ chain.hub)
             \/ pass' = Idle /\ mem' = mem
      BY <1>1, <1>6, <2>1, RefreshEffect DEF Shape
    <2> QED BY <1>2, <1>3, <1>6, <2>2, WorkerAuthorizationInv
  <1>7. CASE SetOwnerInStakeManager
    <2>1. Moved([pass EXCEPT !.pc = "events"])
      BY <1>1, <1>7, Fields DEF SetOwnerInStakeManager, Shape, BeforeEvents, AfterEvents
    <2>2. Kept([mem EXCEPT !.setOwnerCalled = TRUE])
      BY <1>1, Fields DEF Shape
    <2> HIDE DEF Kept, Moved
    <2> QED BY <1>2, <1>4, <1>5, <1>7, <2>1, <2>2 DEF SetOwnerInStakeManager
  <1>8. CASE ExtractDuePendingEvents
    <2>1. PICK d, w : Proceed([mem EXCEPT !.delayed = d],
                              [pass EXCEPT !.pc = "register", !.sweep = w])
      BY <1>8 DEF ExtractDuePendingEvents
    <2>2. Moved([pass EXCEPT !.pc = "register", !.sweep = w])
      BY <1>1, <1>8, Fields DEF ExtractDuePendingEvents, Shape, BeforeEvents, AfterEvents
    <2>3. Kept([mem EXCEPT !.delayed = d])
      BY <1>1, Fields DEF Shape
    <2> HIDE DEF Kept, Moved
    <2> QED BY <1>5, <2>1, <2>2, <2>3
  <1>9. CASE Sweep
    <2>1. Moved([pass EXCEPT !.sweep = Tail(pass.sweep)])
      BY <1>1, Fields DEF Shape
    <2>2. ASSUME NEW purse, NEW holds, NEW action, SweepPurse(purse, holds, action)
          PROVE  AuthorizationInv'
      <3> HIDE DEF Kept, Moved
      <3> QED BY <1>2, <1>4, <1>5, <2>1, <2>2 DEF SweepPurse
    <2>3. CASE PassThrows /\ UNCHANGED mem
      BY <1>2, <1>3, <2>3 DEF PassThrows
    <2> HIDE DEF Kept, Moved
    <2> QED BY <1>9, <2>2, <2>3
            DEF Sweep, SendManagerHubBalanceToOwner, SendWorkersEthBalancesToOwner,
                SendManagerEthBalanceToOwner
  <1>10. CASE RefreshRegistrarRelayInfo
    <2> DEFINE Reaches(info, pc) ==
                 Proceed([mem EXCEPT !.relayUrl = info], [pass EXCEPT !.pc = pc])
    <2>1. \E info, pc : pc \in {"attempt", "finish"} /\ Reaches(info, pc)
      <3>1. ASSUME NEW info, NEW force,
                   Reaches(info, IF force THEN "attempt" ELSE "finish")
            PROVE  \E i, pc : pc \in {"attempt", "finish"} /\ Reaches(i, pc)
        <4> HIDE DEF Reaches
        <4> QED BY <3>1
      <3> QED BY <1>10, <3>1 DEF RefreshRegistrarRelayInfo
    <2>1a. PICK info, pc : pc \in {"attempt", "finish"} /\ Reaches(info, pc)
      <3> HIDE DEF Reaches
      <3> QED BY <2>1
    <2>2. Moved([pass EXCEPT !.pc = pc])
      BY <1>1, <1>10, Fields DEF RefreshRegistrarRelayInfo, Shape, BeforeEvents, AfterEvents
    <2>3. Kept([mem EXCEPT !.relayUrl = info])
      BY <1>1, Fields DEF Shape
    <2> HIDE DEF Kept, Moved
    <2> QED BY <1>5, <2>1a, <2>2, <2>3
  <1>11. CASE AttemptRegistration
    <2>1. \A pc \in AfterEvents : Moved([pass EXCEPT !.pc = pc])
      BY <1>1, <1>11, Fields DEF AttemptRegistration, Shape, BeforeEvents, AfterEvents
    <2>2. Kept([mem EXCEPT !.funded = chain.managerEth])
      BY <1>1, Fields DEF Shape
    <2>3. {"finish", "registerTx", "registerFirst"} \subseteq AfterEvents
      BY DEF AfterEvents
    <2> HIDE DEF Kept, Moved
    <2>4. \/ RefreshStake([mem EXCEPT !.funded = chain.managerEth],
                          [pass EXCEPT !.pc = "finish"])
          \/ Proceed(mem, [pass EXCEPT !.pc = "registerTx"])
          \/ Send("ADD_WORKER", FALSE, mem, [pass EXCEPT !.pc = "registerFirst"], mem)
      BY <1>11 DEF AttemptRegistration
    <2> QED BY <1>2, <1>4, <1>5, <1>6, <2>1, <2>2, <2>3, <2>4
  <1>12. CASE RegisterRelayServer
    <2>1. Moved([pass EXCEPT !.pc = "finish"])
      BY <1>1, <1>12, Fields DEF RegisterRelayServer, Shape, BeforeEvents, AfterEvents
    <2> HIDE DEF Kept, Moved
    <2> QED BY <1>2, <1>4, <1>12, <2>1 DEF RegisterRelayServer
  <1>13. CASE WorkerFails
    <2>1. Kept([mem EXCEPT !.setOwnerCalled = TRUE])
      BY <1>1, Fields DEF Shape
    <2>2. Kept(mem')
      BY <1>2, <1>13, <2>1 DEF WorkerFails
    <2> QED BY <1>3, <1>13, <2>2 DEF WorkerFails, PassThrows
  <1> QED BY <1>7, <1>8, <1>9, <1>10, <1>11, <1>12, <1>13

----------------------------------------------------------------------------
(* Blocks                                                                  *)

LEMMA SameLength ==
    ASSUME NEW S, NEW T, NEW u \in Seq(S), NEW f, f = [i \in DOMAIN u |-> f[i]],
           \A i \in DOMAIN u : f[i] \in T
    PROVE  f \in Seq(T) /\ Len(f) = Len(u)
  <1>1. Len(u) \in Nat /\ DOMAIN u = 1..Len(u)
    OBVIOUS
  <1>2. f \in [1..Len(u) -> T]
    BY <1>1
  <1> QED BY <1>1, <1>2

(* What a block does to the log: the old events stay, the block's follow.  *)
IsLogOf(new, events) ==
    /\ new \in Seq(Entry) /\ Len(new) = Len(log) + Len(events)
    /\ \A i \in 1..Len(log) :
          new[i].event = log[i].event /\ new[i].left = Later(log[i].left)
    /\ \A i \in (Len(log) + 1)..(Len(log) + Len(events)) :
          new[i].event = events[i - Len(log)]

LEMMA BlockLog ==
    ASSUME log \in Seq(Entry), NEW c, NEW events \in Seq(Events), NEW s,
           Block(c, events, s)
    PROVE  IsLogOf(log', events)
  <1> DEFINE old == [i \in DOMAIN log |->
                      [log[i] EXCEPT !.age = Smaller(log[i].age + 1, RescanDepth),
                                     !.left = Later(log[i].left)]]
             added == [i \in DOMAIN events |-> [event |-> events[i], age |-> 0,
                        left |-> IF events[i] = "HubUnauthorized" THEN UnstakeDelay
                                 ELSE -MaxLag]]
  <1>1. log' = old \o added
    BY DEF Block
  <1>2. \A a \in Nat : Smaller(a + 1, RescanDepth) \in Nat
    BY Numbers DEF Smaller
  <1>3. \A d \in Int : Later(d) \in Int
    BY Numbers DEF Later
  <1>4. ASSUME NEW i \in DOMAIN log
        PROVE  /\ old[i] \in Entry /\ old[i].event = log[i].event
               /\ old[i].left = Later(log[i].left)
    <2>1. log[i] \in Entry
      OBVIOUS
    <2>2. log[i].age \in Nat /\ log[i].left \in Int /\ log[i].event \in Events
      BY <2>1 DEF Entry
    <2>3. Smaller(log[i].age + 1, RescanDepth) \in Nat /\ Later(log[i].left) \in Int
      BY <1>2, <1>3, <2>2
    <2>4. old[i] = [log[i] EXCEPT !.age = Smaller(log[i].age + 1, RescanDepth),
                                  !.left = Later(log[i].left)]
      OBVIOUS
    <2> QED BY <2>1, <2>2, <2>3, <2>4 DEF Entry
  <1>5. old \in Seq(Entry) /\ Len(old) = Len(log)
    <2>1. old = [i \in DOMAIN log |-> old[i]]
      OBVIOUS
    <2> HIDE DEF old
    <2> QED BY <1>4, <2>1, SameLength
  <1>6. ASSUME NEW i \in DOMAIN events
        PROVE  added[i] \in Entry /\ added[i].event = events[i]
    BY Numbers DEF Entry
  <1>7. added \in Seq(Entry) /\ Len(added) = Len(events)
    <2>1. added = [i \in DOMAIN events |-> added[i]]
      OBVIOUS
    <2> HIDE DEF added
    <2> QED BY <1>6, <2>1, SameLength
  <1> HIDE DEF old, added
  <1>8. /\ log' \in Seq(Entry) /\ Len(log') = Len(log) + Len(events)
        /\ \A i \in 1..Len(log) : log'[i] = old[i]
        /\ \A i \in (Len(log) + 1)..(Len(log) + Len(events)) :
              log'[i] = added[i - Len(log)]
    <2> DEFINE n == Len(log) m == Len(events) w == log'
    <2>1. /\ w \in Seq(Entry) /\ Len(w) = Len(old) + Len(added)
          /\ \A i \in 1..Len(old) : w[i] = old[i]
          /\ \A i \in (Len(old) + 1)..(Len(old) + Len(added)) : w[i] = added[i - Len(old)]
      BY <1>1, <1>5, <1>7, SeqAppended
    <2> QED BY <1>5, <1>7, <2>1
  <1>9. ASSUME NEW i \in (Len(log) + 1)..(Len(log) + Len(events))
        PROVE  log'[i].event = events[i - Len(log)]
    <2>1. i - Len(log) \in DOMAIN events
      BY <1>5, <1>7
    <2> QED BY <1>6, <1>8, <2>1
  <1>10. \A i \in 1..Len(log) : i \in DOMAIN log
    OBVIOUS
  <1> QED BY <1>4, <1>8, <1>9, <1>10 DEF IsLogOf

(* A block emits at most one event, and the chain it leaves agrees with it. *)
Emits(c, events) ==
    /\ DOMAIN c = ChainFields
    /\ events \in Seq(Events) /\ Len(events) \in 0..1
    /\ c.hub => chain.hub \/ (Len(events) = 1 /\ events[1] = "HubAuthorized")
    /\ Len(events) = 1 /\ events[1] = "HubUnauthorized" => ~c.hub

LEMMA EmitsNothing ==
    ASSUME NEW c, DOMAIN c = ChainFields, c.hub = chain.hub
    PROVE  Emits(c, <<>>)
  <1>1. <<>> \in Seq(Events) /\ Len(<<>>) = 0
    OBVIOUS
  <1> QED BY <1>1 DEF Emits

LEMMA EmitsOne ==
    ASSUME NEW c, NEW e \in Events, DOMAIN c = ChainFields,
           c.hub => chain.hub \/ e = "HubAuthorized", e = "HubUnauthorized" => ~c.hub
    PROVE  Emits(c, <<e>>)
  <1>1. <<e>> \in Seq(Events) /\ Len(<<e>>) = 1 /\ <<e>>[1] = e
    OBVIOUS
  <1> QED BY <1>1 DEF Emits

(* Such a block keeps what the server knows.                               *)
LEMMA BlockAuthorizationInv ==
    ASSUME AuthorizationInv, NEW c, NEW events, NEW s, Block(c, events, s),
           UNCHANGED scanned, Emits(c, events)
    PROVE  AuthorizationInv'
  <1>1. Shape
    BY DEF AuthorizationInv
  <1>2. events \in Seq(Events) /\ Len(events) \in 0..1
    BY DEF Emits
  <1>3. IsLogOf(log', events)
    BY <1>1, <1>2, BlockLog DEF Shape
  <1>4. chain' = c /\ DOMAIN c = ChainFields
    BY DEF Block, Emits
  <1>5. /\ DOMAIN mem' = DOMAIN Started /\ mem'.hubAuthorized = mem.hubAuthorized
        /\ DOMAIN pass' = DOMAIN Idle /\ pass'.pc = pass.pc
        /\ pass'.todo = pass.todo /\ pass'.seen = pass.seen
    BY <1>1, Fields DEF Block, Shape
  <1>6. /\ Len(log) \in Nat /\ DOMAIN log = 1..Len(log)
        /\ DOMAIN log' = 1..Len(log') /\ Len(log') = Len(log) + Len(events)
    BY <1>1, <1>3 DEF Shape, IsLogOf
  <1>7. ASSUME NEW i \in DOMAIN log, Unauthorized(i)'
        PROVE  Unauthorized(i) /\ ~c.hub
    <2>1. Unauthorized(i)
      <3>1. log[i].event = "HubUnauthorized"
        BY <1>3, <1>6, <1>7 DEF Unauthorized, IsLogOf
      <3>2. ASSUME NEW j \in DOMAIN log, j > i PROVE log[j].event # "HubAuthorized"
        <4>1. j \in DOMAIN log' /\ log'[j].event = log[j].event
          BY <1>2, <1>3, <1>6 DEF IsLogOf
        <4> QED BY <1>7, <3>2, <4>1 DEF Unauthorized
      <3> QED BY <3>1, <3>2 DEF Unauthorized
    <2>2. c.hub => chain.hub
      <3>0. SUFFICES ~(Len(events) = 1 /\ events[1] = "HubAuthorized")
        BY DEF Emits
      <3>1. SUFFICES ASSUME Len(events) = 1, events[1] = "HubAuthorized" PROVE FALSE
        OBVIOUS
      <3>2. /\ Len(log) + 1 \in DOMAIN log' /\ Len(log) + 1 > i
            /\ log'[Len(log) + 1].event = events[1]
        BY <1>3, <1>6, <3>1 DEF IsLogOf
      <3> QED BY <1>7, <3>1, <3>2 DEF Unauthorized
    <2> QED BY <2>1, <2>2 DEF AuthorizationInv, UnauthorizedOnChain
  <1>8. ASSUME NEW i \in DOMAIN log', Unauthorized(i)' PROVE ~c.hub
    <2>1. CASE i \in DOMAIN log
      BY <1>7, <1>8, <2>1
    <2>2. CASE i \notin DOMAIN log
      <3>1. Len(events) = 1 /\ i = Len(log) + 1
        <4> DEFINE n == Len(log) m == Len(events)
        <4>1. n \in Nat /\ m \in 0..1 /\ i \in 1..(n + m) /\ i \notin 1..n
          BY <1>2, <1>6, <2>2
        <4> HIDE DEF n, m
        <4>2. m = 1 /\ i = n + 1
          BY <4>1
        <4> QED BY <4>2 DEF n, m
      <3>2. log'[i].event = events[i - Len(log)] /\ i - Len(log) = 1
        BY <1>3, <1>6, <3>1 DEF IsLogOf
      <3>3. Len(events) = 1 /\ events[1] = "HubUnauthorized"
        BY <1>8, <3>1, <3>2 DEF Unauthorized
      <3> QED BY <3>3 DEF Emits
    <2> QED BY <2>1, <2>2
  <1>9. UnauthorizedOnChain'
    BY <1>4, <1>8 DEF UnauthorizedOnChain
  <1>10. Shape'
    <2>1. Len(log') >= Len(log) /\ Len(log') \in Nat
      BY <1>2, <1>6
    <2>2. \A p \in DOMAIN pass.todo : pass.todo[p] \in (scanned + 1)..Len(log')
      BY <1>1, <1>6, <2>1 DEF Shape
    <2>3. pass.seen \in 0..Len(log') /\ scanned \in 0..Len(log')
      BY <1>1, <1>6, <2>1 DEF Shape
    <2>4. log' \in Seq(Entry)
      BY <1>3 DEF IsLogOf
    <2> QED BY <1>1, <1>4, <1>5, <2>2, <2>3, <2>4 DEF Shape
  <1>11. NoneSkipped'
    BY <1>5 DEF AuthorizationInv, NoneSkipped
  <1>12. ToldInPass'
    <2>1. \A i \in DOMAIN log' : i <= pass.seen => i \in DOMAIN log
      BY <1>1, <1>6 DEF Shape
    <2> QED BY <1>5, <1>7, <2>1 DEF AuthorizationInv, ToldInPass
  <1>13. KnowsUnauthorized'
    <2>1. \A i \in DOMAIN log' : i <= scanned => i \in DOMAIN log
      BY <1>1, <1>6 DEF Shape
    <2> QED BY <1>5, <1>7, <2>1 DEF AuthorizationInv, KnowsUnauthorized
  <1>14. AllHandled'
    BY <1>5 DEF AuthorizationInv, AllHandled
  <1> QED BY <1>9, <1>10, <1>11, <1>12, <1>13, <1>14 DEF AuthorizationInv

(* What a block makes of the transactions                                  *)
Leaves(s) ==
    \/ s = OlderStore
    \/ \E i \in DOMAIN store : s = [OlderStore EXCEPT ![i].state = "mined"]
    \/ \E i \in DOMAIN store : s = [OlderStore EXCEPT ![i].short = TRUE]
    \/ \E actions : s = FundedStore(actions)

(* The chain and the owner act in blocks, or leave the server alone.       *)
IsBlock == \E c, events, s : Block(c, events, s) /\ Emits(c, events) /\ Leaves(s)

LEMMA OthersActInBlocks ==
    ASSUME Shape, ChainStep \/ OwnerStep
    PROVE  /\ UNCHANGED <<scanned, url>>
           /\ IsBlock \/ UNCHANGED <<chain, log, store, mem, pass>>
  <1> DEFINE Goal == /\ UNCHANGED <<scanned, url>>
                     /\ IsBlock \/ UNCHANGED <<chain, log, store, mem, pass>>
  <1> SUFFICES Goal
    OBVIOUS
  <1>2. DOMAIN Older = ChainFields /\ Older.hub = chain.hub
    BY DEF Shape, Older, ChainFields
  <1>5. /\ "OwnerSet" \in Events /\ "StakeAdded" \in Events /\ "HubAuthorized" \in Events
        /\ "HubUnauthorized" \in Events /\ "StakeUnlocked" \in Events
        /\ "StakeWithdrawn" \in Events
    BY DEF Events
  <1>6. ASSUME NEW c, NEW s, Block(c, <<>>, s), UNCHANGED <<scanned, url>>, Leaves(s),
               DOMAIN c = ChainFields, c.hub = chain.hub
        PROVE  Goal
    <2>1. Emits(c, <<>>)
      BY <1>6, EmitsNothing
    <2> QED BY <1>6, <2>1, Zenon DEF IsBlock
  <1>7. ASSUME NEW c, NEW e \in Events, NEW s, Block(c, <<e>>, s),
               UNCHANGED <<scanned, url>>, Leaves(s),
               DOMAIN c = ChainFields, c.hub => chain.hub \/ e = "HubAuthorized",
               e = "HubUnauthorized" => ~c.hub
        PROVE  Goal
    <2>1. Emits(c, <<e>>)
      BY <1>7, EmitsOne
    <2> QED BY <1>7, <2>1, Zenon DEF IsBlock
  <1>7a. /\ Leaves(OlderStore)
         /\ \A actions : Leaves(FundedStore(actions))
         /\ \A i \in DOMAIN store : Leaves([OlderStore EXCEPT ![i].short = TRUE])
    BY Zenon DEF Leaves
  <1> HIDE DEF Goal
  <1>8. CASE NextBlock
    BY <1>7a, <1>2, <1>6, <1>8 DEF NextBlock
  <1>9. ASSUME NEW actions \in SUBSET Actions, NEW paid, Mine(actions, paid)
        PROVE  Goal
    <2>1. PICK i \in DOMAIN store :
                   /\ store[i].action \in actions
                   /\ Block(Effect(store[i]).chain, Effect(store[i]).events,
                            [OlderStore EXCEPT ![i].state = "mined"])
      BY <1>9 DEF Mine
    <2>2. UNCHANGED <<scanned, url>> /\ Leaves([OlderStore EXCEPT ![i].state = "mined"])
      BY <1>9 DEF Mine, Leaves
    <2> DEFINE e == Effect(store[i])
    <2>3. \/ e.events = <<>> /\ DOMAIN e.chain = ChainFields /\ e.chain.hub = chain.hub
          \/ /\ e.events = <<"OwnerSet">>
             /\ DOMAIN e.chain = ChainFields /\ e.chain.hub = chain.hub
          \/ e.events = <<"HubAuthorized">> /\ DOMAIN e.chain = ChainFields
      <3>1. store[i].action \in Actions
        BY <2>1
      <3>2. CASE Reverts(store[i].action)
        <4>1. e = [chain |-> Older, events |-> <<>>]
          BY <3>2 DEF Effect
        <4> HIDE DEF e
        <4> QED BY <1>2, <4>1
      <3>3. CASE ~Reverts(store[i].action)
        <4> HIDE DEF e
        <4>1. CASE store[i].action = "SET_OWNER"
          BY <1>2, <3>3, <4>1 DEF Effect, ChainFields, e
        <4>2. CASE store[i].action = "AUTHORIZE_HUB"
          BY <1>2, <3>3, <4>2 DEF Effect, ChainFields, e
        <4>3. CASE store[i].action = "ADD_WORKER"
          BY <1>2, <3>3, <4>3 DEF Effect, ChainFields, e
        <4>4. CASE store[i].action = "REGISTER_SERVER"
          BY <1>2, <3>3, <4>4 DEF Effect, ChainFields, e
        <4>5. CASE store[i].action = "DEPOSIT_WITHDRAWAL"
          BY <1>2, <3>3, <4>5 DEF Effect, ChainFields, e
        <4>6. CASE store[i].action = "MANAGER_TRANSFER"
          BY <1>2, <3>3, <4>6 DEF Effect, ChainFields, e
        <4>7. CASE store[i].action = "WORKER_TRANSFER"
          BY <1>2, <3>3, <4>7 DEF Effect, ChainFields, e
        <4> QED BY <3>1, <4>1, <4>2, <4>3, <4>4, <4>5, <4>6, <4>7
                DEF Actions, ManagerActions, WorkerActions
      <3> QED BY <3>2, <3>3
    <2> HIDE DEF e, Goal
    <2> QED BY <1>5, <1>6, <1>7, <2>1, <2>2, <2>3 DEF e
  <1>10. CASE MineManager \/ MineWorker
    BY <1>9, <1>10 DEF MineManager, MineWorker, Actions
  <1>10a. CASE MineRelayCall
    BY <1>7a, <1>2, <1>6, <1>10a DEF MineRelayCall
  <1>11. CASE Earn
    <2>1. /\ DOMAIN [Older EXCEPT !.deposit = TRUE, !.workerEth = TRUE] = ChainFields
          /\ [Older EXCEPT !.deposit = TRUE, !.workerEth = TRUE].hub = chain.hub
      BY <1>2 DEF ChainFields
    <2> QED BY <1>7a, <1>6, <1>11, <2>1 DEF Earn
  <1>12. ASSUME UNCHANGED <<chain, log, store, mem, pass, scanned, url>>
         PROVE  Goal
    BY <1>12 DEF Goal
  <1>13. CASE CliStart \/ CliWaits
    BY <1>12, <1>13 DEF CliStart, CliWaits
  <1>14. CASE CliFund
    <2>1. /\ DOMAIN [Older EXCEPT !.managerEth = TRUE] = ChainFields
          /\ [Older EXCEPT !.managerEth = TRUE].hub = chain.hub
      BY <1>2 DEF ChainFields
    <2>2. CASE UNCHANGED <<chain, log, store, mem, pass>>
      BY <1>12, <1>14, <2>2 DEF CliFund, ServerUnchanged
    <2>3. CASE Block([Older EXCEPT !.managerEth = TRUE], <<>>, FundedStore(ManagerActions))
      <3>1. UNCHANGED <<scanned, url>>
        BY <1>14 DEF CliFund, ServerUnchanged
      <3> QED BY <1>7a, <1>6, <2>1, <2>3, <3>1
    <2> QED BY <1>14, <2>2, <2>3 DEF CliFund
  <1>15. CASE CliStake
    <2>1. /\ DOMAIN [Older EXCEPT !.staked = TRUE] = ChainFields
          /\ [Older EXCEPT !.staked = TRUE].hub = chain.hub
      BY <1>2 DEF ChainFields
    <2> QED BY <1>7a, <1>5, <1>7, <1>12, <1>15, <2>1 DEF CliStake, ServerUnchanged
  <1>16. CASE CliAuthorize
    <2>1. DOMAIN [Older EXCEPT !.hub = TRUE] = ChainFields
      BY <1>2 DEF ChainFields
    <2> QED BY <1>7a, <1>5, <1>7, <1>12, <1>16, <2>1 DEF CliAuthorize, ServerUnchanged
  <1>17. CASE UnauthorizeHubByOwner
    <2>1. /\ DOMAIN [Older EXCEPT !.hub = FALSE] = ChainFields
          /\ ~[Older EXCEPT !.hub = FALSE].hub
      BY <1>2 DEF ChainFields
    <2> QED BY <1>7a, <1>5, <1>7, <1>17, <2>1 DEF UnauthorizeHubByOwner, ServerUnchanged
  <1>18. CASE UnlockStake
    <2>1. /\ DOMAIN [Older EXCEPT !.unlocked = TRUE, !.left = UnstakeDelay] = ChainFields
          /\ [Older EXCEPT !.unlocked = TRUE, !.left = UnstakeDelay].hub = chain.hub
      BY <1>2 DEF ChainFields
    <2> QED BY <1>7a, <1>5, <1>7, <1>18, <2>1 DEF UnlockStake, ServerUnchanged
  <1>19. CASE WithdrawStake
    <2>1. /\ DOMAIN [Older EXCEPT !.staked = FALSE, !.unlocked = FALSE] = ChainFields
          /\ [Older EXCEPT !.staked = FALSE, !.unlocked = FALSE].hub = chain.hub
      BY <1>2 DEF ChainFields
    <2> QED BY <1>7a, <1>5, <1>7, <1>19, <2>1 DEF WithdrawStake, ServerUnchanged
  <1> QED BY <1>8, <1>10, <1>10a, <1>11, <1>13, <1>14, <1>15, <1>16, <1>17, <1>18, <1>19
          DEF ChainStep, OwnerStep, Goal

LEMMA OtherAuthorizationInv ==
    ASSUME AuthorizationInv, ChainStep \/ OwnerStep
    PROVE  AuthorizationInv'
  <1>1. Shape
    BY DEF AuthorizationInv
  <1>2. UNCHANGED scanned /\ (IsBlock \/ UNCHANGED <<chain, log, mem, pass>>)
    BY <1>1, OthersActInBlocks
  <1>3. CASE IsBlock
    BY <1>2, <1>3, BlockAuthorizationInv DEF IsBlock
  <1>4. CASE UNCHANGED <<chain, log, mem, pass>>
    BY <1>1, <1>2, <1>4, WorkerAuthorizationInv DEF Shape
  <1> QED BY <1>2, <1>3, <1>4

LEMMA NextAuthorizationInv == AuthorizationInv /\ [Next]_vars => AuthorizationInv'
  <1> SUFFICES ASSUME AuthorizationInv, [Next]_vars PROVE AuthorizationInv'
    OBVIOUS
  <1>1. CASE UNCHANGED vars
    <2>1. UNCHANGED <<chain, log, mem, pass, scanned>>
      BY <1>1 DEF vars
    <2>2. \A i : Unauthorized(i)' <=> Unauthorized(i)
      BY <2>1 DEF Unauthorized
    <2> QED BY <2>1, <2>2
            DEF AuthorizationInv, Shape, UnauthorizedOnChain, NoneSkipped, ToldInPass,
                AllHandled, KnowsUnauthorized
  <1>2. CASE WorkerStep
    BY <1>2, StartAuthorizationInv, FetchAuthorizationInv, HandleAuthorizationInv,
       FinishAuthorizationInv, OtherWorkerAuthorizationInv DEF WorkerStep
  <1>3. CASE WorkerFails
    BY <1>3, OtherWorkerAuthorizationInv
  <1>4. CASE Restart
    BY <1>4, RestartAuthorizationInv
  <1>5. CASE ChainStep \/ OwnerStep
    BY <1>5, OtherAuthorizationInv
  <1> QED BY <1>1, <1>2, <1>3, <1>4, <1>5 DEF Next

(* A server never believes its hub authorized once it has scanned the      *)
(* event that took the authorization away and none that gave it back:      *)
(* handlePastEvents handles what was emitted after lastScannedBlock, and   *)
(* neither an exception in the middle of it, a query split in pages, a     *)
(* refreshStake in between nor a restart makes it skip or reorder events.  *)
THEOREM UnauthorizationIsKnown == Spec => []KnowsUnauthorized
  <1>1. AuthorizationInv => KnowsUnauthorized
    BY DEF AuthorizationInv
  <1> QED BY <1>1, InitAuthorizationInv, NextAuthorizationInv, PTL DEF Spec

----------------------------------------------------------------------------
(* The transactions of the server.  A registration step is sent only when  *)
(* none is under way, but between the look at the store and the sending of *)
(* REGISTER_SERVER are other awaits of the pass, and blocks.               *)
Steps == {"AUTHORIZE_HUB", "ADD_WORKER", "REGISTER_SERVER"}

IsPending(t, action) == t.action = action /\ t.state = "pending"
Underway(action) == \E i \in DOMAIN store : IsPending(store[i], action)

(* A pass that may still send REGISTER_SERVER without another look         *)
WillRegister(p) ==
    \/ p.force /\ p.pc # "finish"
    \/ p.pc \in {"attempt", "registerFirst", "registerTx"}

StoreInv ==
    /\ url \in Urls /\ store \in Seq(Transactions)
    /\ \A a \in Steps : \A i, j \in DOMAIN store :
          IsPending(store[i], a) /\ IsPending(store[j], a) => i = j
    /\ WillRegister(pass) => ~Underway("REGISTER_SERVER")

LEMMA IdleSendsNothing == ~WillRegister(Idle)
  BY DEF WillRegister, Idle

LEMMA InitStoreInv == Init => StoreInv
  <1> SUFFICES ASSUME Init PROVE StoreInv
    OBVIOUS
  <1>1. store = <<>> /\ store \in Seq(Transactions) /\ DOMAIN store = {}
    BY DEF Init
  <1> QED BY <1>1, IdleSendsNothing DEF Init, StoreInv

LEMMA MaxTxAgeType == MaxTxAge \in Nat
  BY RegistrationAssumption DEF RegistrationAssumption, MaxTxAge

LEMMA StoreUntouched ==
    ASSUME StoreInv, UNCHANGED store, url' \in Urls,
           WillRegister(pass)' => ~Underway("REGISTER_SERVER")
    PROVE  StoreInv'
  BY DEF StoreInv, Underway

LEMMA Appended ==
    ASSUME NEW S, NEW s \in Seq(S), NEW t \in S
    PROVE  /\ Append(s, t) \in Seq(S) /\ Len(s) \in Nat
           /\ DOMAIN Append(s, t) = DOMAIN s \union {Len(s) + 1}
           /\ \A i \in DOMAIN s : Append(s, t)[i] = s[i]
           /\ Append(s, t)[Len(s) + 1] = t
  OBVIOUS

LEMMA StoreAppended ==
    ASSUME StoreInv, NEW t \in Transactions, t.action \in Steps => ~Underway(t.action),
           store' = Append(store, t), url' \in Urls,
           WillRegister(pass)' => ~Underway("REGISTER_SERVER") /\ t.action # "REGISTER_SERVER"
    PROVE  StoreInv'
  <1> DEFINE n == Len(store) + 1
  <1>1. /\ store' \in Seq(Transactions) /\ DOMAIN store' = DOMAIN store \union {n}
        /\ \A i \in DOMAIN store : store'[i] = store[i]
        /\ store'[n] = t
    BY Appended DEF StoreInv
  <1> HIDE DEF n
  <1>2. ASSUME NEW a \in Steps, NEW i \in DOMAIN store', NEW j \in DOMAIN store',
               IsPending(store'[i], a), IsPending(store'[j], a)
        PROVE  i = j
    <2>1. CASE i \in DOMAIN store /\ j \in DOMAIN store
      BY <1>1, <1>2, <2>1 DEF StoreInv
    <2>2. CASE i = n \/ j = n
      <3>1. t.action = a /\ a \in Steps
        BY <1>1, <1>2, <2>2 DEF IsPending
      <3>2. \A l \in DOMAIN store : ~IsPending(store[l], a)
        BY <3>1 DEF Underway
      <3> QED BY <1>1, <1>2, <3>2
    <2> QED BY <1>1, <2>1, <2>2
  <1>3. Underway("REGISTER_SERVER")' => Underway("REGISTER_SERVER") \/ t.action = "REGISTER_SERVER"
    BY <1>1 DEF Underway, IsPending
  <1> QED BY <1>1, <1>2, <1>3 DEF StoreInv

LEMMA ProceedStoreInv ==
    ASSUME StoreInv, NEW m, NEW p, Proceed(m, p),
           WillRegister(p) => ~Underway("REGISTER_SERVER")
    PROVE  StoreInv'
  BY StoreUntouched DEF Proceed, StoreInv, WillRegister

LEMMA ThrownStoreInv ==
    ASSUME StoreInv, UNCHANGED <<store, url>>, pass' = Idle
    PROVE  StoreInv'
  BY StoreUntouched, IdleSendsNothing DEF StoreInv, WillRegister

LEMMA CountsIsBoolean == \A action : CountsOnTooMuch(action) \in BOOLEAN
  BY Zenon DEF CountsOnTooMuch

LEMMA SendStoreInv ==
    ASSUME StoreInv, NEW action \in Actions, NEW given, NEW m, NEW p, NEW thrown,
           Send(action, given, m, p, thrown), action \in Steps => ~Underway(action),
           WillRegister(p) => ~Underway("REGISTER_SERVER") /\ action # "REGISTER_SERVER"
    PROVE  StoreInv'
  <1> DEFINE t == [action |-> action, url |-> url, age |-> 0, state |-> "pending",
                   short |-> CountsOnTooMuch(action)]
  <1>1. \/ store' = Append(store, t) /\ pass' = p /\ url' = url
        \/ UNCHANGED <<store, url>> /\ pass' = Idle
    BY DEF Send, SentTransaction, PassThrows
  <1>2. t \in Transactions /\ t.action = action
    BY MaxTxAgeType, CountsIsBoolean DEF StoreInv, Transactions
  <1> HIDE DEF t
  <1>3. CASE store' = Append(store, t) /\ pass' = p /\ url' = url
    BY <1>2, <1>3, StoreAppended DEF StoreInv, WillRegister
  <1>4. CASE UNCHANGED <<store, url>> /\ pass' = Idle
    BY <1>4, ThrownStoreInv
  <1> QED BY <1>1, <1>3, <1>4

(* isActionPendingOrRecentlyMined sees all that is under way.              *)
LEMMA UnderwayIsSeen ==
    ASSUME NEW action, ~IsActionPendingOrRecentlyMined(action)
    PROVE  ~Underway(action)
  BY DEF IsActionPendingOrRecentlyMined, Underway, IsPending

LEMMA RefreshStakeStoreInv ==
    ASSUME StoreInv, NEW m, NEW p, RefreshStake(m, p),
           WillRegister(p) => ~Underway("REGISTER_SERVER")
    PROVE  StoreInv'
  <1>1. CASE MustAuthorize
    <2>1. Send("AUTHORIZE_HUB", FALSE, RefreshedStake(m), p, mem)
      BY <1>1 DEF RefreshStake
    <2>2. ~Underway("AUTHORIZE_HUB")
      BY <1>1, UnderwayIsSeen DEF MustAuthorize
    <2>3. "AUTHORIZE_HUB" \in Actions
      BY DEF Actions, ManagerActions
    <2> QED BY <2>1, <2>2, <2>3, SendStoreInv
  <1>2. CASE ~MustAuthorize
    BY <1>2, ProceedStoreInv DEF RefreshStake
  <1> QED BY <1>1, <1>2

(* The steps of a pass keep the promise that FetchEvents and               *)
(* RefreshRegistrarRelayInfo make when they look at the store.             *)
LEMMA WorkerStoreInv ==
    ASSUME StoreInv, DOMAIN pass = DOMAIN Idle, WorkerStep \/ WorkerFails
    PROVE  StoreInv'
  <1> DEFINE At(pc) == [pass EXCEPT !.pc = pc]
  <1>1. /\ "SET_OWNER" \in Actions \ Steps /\ "DEPOSIT_WITHDRAWAL" \in Actions \ Steps
        /\ "WORKER_TRANSFER" \in Actions \ Steps /\ "MANAGER_TRANSFER" \in Actions \ Steps
        /\ "ADD_WORKER" \in Actions /\ "REGISTER_SERVER" \in Actions
        /\ "REGISTER_SERVER" \in Steps
    BY DEF Actions, ManagerActions, WorkerActions, Steps
  <1>2. /\ \A pc : At(pc).pc = pc /\ At(pc).force = pass.force
        /\ \A pc \in {"idle", "fetch", "setOwner", "events", "register"} :
              pass.pc # "finish" => (WillRegister(At(pc)) => WillRegister(pass))
        /\ ~WillRegister(At("finish"))
    BY Fields DEF WillRegister
  <1>3. WillRegister(pass) => ~Underway("REGISTER_SERVER")
    BY DEF StoreInv
  <1>4. CASE StartPass
    <2>1. ~WillRegister([Idle EXCEPT !.pc = "fetch", !.seen = Len(log)])
      BY DEF WillRegister, Idle
    <2>2. UNCHANGED <<store, url>>
      BY <1>4 DEF StartPass
    <2>3. \/ UNCHANGED pass
          \/ pass' = [Idle EXCEPT !.pc = "fetch", !.seen = Len(log)]
      BY <1>4 DEF StartPass
    <2> QED BY <2>1, <2>2, <2>3, StoreUntouched DEF StoreInv, WillRegister
  <1>5. CASE FetchEvents
    <2>1. PICK todo : pass' = [pass EXCEPT !.pc = "setOwner", !.todo = todo,
                                           !.force = ShouldRegisterAgain]
      BY <1>5 DEF FetchEvents
    <2>2. WillRegister(pass') => ShouldRegisterAgain
      BY <2>1, Fields DEF WillRegister
    <2>3. WillRegister(pass') => ~Underway("REGISTER_SERVER")
      BY <2>2, UnderwayIsSeen DEF ShouldRegisterAgain
    <2> QED BY <1>5, <2>3, StoreUntouched DEF FetchEvents, StoreInv, WillRegister
  <1>6. CASE SetOwnerInStakeManager
    <2>1. pass.pc = "setOwner"
      BY <1>6 DEF SetOwnerInStakeManager
    <2>2. WillRegister(At("events")) => ~Underway("REGISTER_SERVER")
      BY <1>2, <1>3, <2>1
    <2>3. \E m, called : \/ Send("SET_OWNER", FALSE, m, At("events"), called)
                         \/ Proceed(m, At("events"))
      BY <1>6, Zenon DEF SetOwnerInStakeManager
    <2> HIDE DEF At
    <2> QED BY <1>1, <2>2, <2>3, SendStoreInv, ProceedStoreInv
  <1>7. CASE HandleEvent
    <2> DEFINE p == [pass EXCEPT !.todo = Tail(pass.todo)]
               q == [p EXCEPT !.sweep = AllFunds(TRUE)]
    <2>1. WillRegister(p) => WillRegister(pass)
      BY Fields DEF WillRegister
    <2>2. WillRegister(q) => WillRegister(pass)
      BY Fields DEF WillRegister
    <2>3. \/ \E m : Proceed(m, p)
          \/ RefreshStake(mem, q) \/ RefreshStake(mem, p)
      BY <1>7 DEF HandleEvent
    <2> HIDE DEF p, q
    <2> QED BY <1>3, <2>1, <2>2, <2>3, ProceedStoreInv, RefreshStakeStoreInv
  <1>8. CASE ExtractDuePendingEvents
    <2>1. PICK m, w : Proceed(m, [pass EXCEPT !.pc = "register", !.sweep = w])
      BY <1>8, Zenon DEF ExtractDuePendingEvents
    <2>2. pass.pc = "events"
      BY <1>8 DEF ExtractDuePendingEvents
    <2>3. WillRegister([pass EXCEPT !.pc = "register", !.sweep = w]) => WillRegister(pass)
      BY <2>2, Fields DEF WillRegister
    <2> QED BY <1>3, <2>1, <2>3, ProceedStoreInv
  <1>9. CASE Sweep
    <2> DEFINE p == [pass EXCEPT !.sweep = Tail(pass.sweep)]
    <2>1. WillRegister(p) => WillRegister(pass)
      BY Fields DEF WillRegister
    <2>2. \/ \E action \in Actions \ Steps : Send(action, TRUE, mem, p, mem)
          \/ Proceed(mem, p)
          \/ PassThrows
      BY <1>1, <1>9 DEF Sweep, SendManagerHubBalanceToOwner, SendWorkersEthBalancesToOwner,
                        SendManagerEthBalanceToOwner, SweepPurse
    <2> HIDE DEF p
    <2> QED BY <1>1, <1>3, <2>1, <2>2, SendStoreInv, ProceedStoreInv, ThrownStoreInv
            DEF PassThrows
  <1>10. CASE RefreshRegistrarRelayInfo
    <2>1. PICK m, pc : /\ Proceed(m, At(pc))
                       /\ \/ pc = "finish"
                          \/ pc = "attempt" /\ pass.force
                          \/ /\ pc = "attempt"
                             /\ ~IsActionPendingOrRecentlyMined("REGISTER_SERVER")
      <3> HIDE DEF At
      <3>1. PICK failed \in {0, 1} :
              LET info == IF failed = 1 THEN NoUrl ELSE chain.relayUrl
                  pending == IsActionPendingOrRecentlyMined("REGISTER_SERVER")
              IN  Proceed([mem EXCEPT !.relayUrl = info],
                          At(IF pass.force \/ (info # url /\ ~pending)
                             THEN "attempt" ELSE "finish"))
        BY <1>10, Zenon DEF RefreshRegistrarRelayInfo, At
      <3> DEFINE info == IF failed = 1 THEN NoUrl ELSE chain.relayUrl
                 m == [mem EXCEPT !.relayUrl = info]
                 goes == \/ pass.force
                         \/ /\ info # url
                            /\ ~IsActionPendingOrRecentlyMined("REGISTER_SERVER")
      <3>2. Proceed(m, At(IF goes THEN "attempt" ELSE "finish"))
        BY <3>1, Zenon
      <3>3. goes => \/ pass.force
                    \/ ~IsActionPendingOrRecentlyMined("REGISTER_SERVER")
        OBVIOUS
      <3> HIDE DEF m, goes
      <3>4. CASE goes
        <4>1. Proceed(m, At("attempt"))
          BY <3>2, <3>4
        <4> QED BY <3>3, <3>4, <4>1
      <3>5. CASE ~goes
        <4>1. Proceed(m, At("finish"))
          BY <3>2, <3>5
        <4> QED BY <4>1
      <3> QED BY <3>4, <3>5
    <2>2. pass.pc = "register"
      BY <1>10 DEF RefreshRegistrarRelayInfo
    <2>3. pass.force => WillRegister(pass)
      BY <2>2 DEF WillRegister
    <2>4. WillRegister(At(pc)) => ~Underway("REGISTER_SERVER")
      BY <1>2, <1>3, <2>1, <2>3, UnderwayIsSeen
    <2> HIDE DEF At
    <2> QED BY <2>1, <2>4, ProceedStoreInv
  <1>11. CASE AttemptRegistration
    <2>1. ~Underway("REGISTER_SERVER")
      BY <1>3, <1>11 DEF AttemptRegistration, WillRegister
    <2>2. \/ \E m : RefreshStake(m, At("finish"))
          \/ Proceed(mem, At("registerTx"))
          \/ /\ Send("ADD_WORKER", FALSE, mem, At("registerFirst"), mem)
             /\ ~(chain.worker \/ IsActionPendingOrRecentlyMined("ADD_WORKER"))
      BY <1>11 DEF AttemptRegistration
    <2> HIDE DEF At
    <2> QED BY <1>1, <2>1, <2>2, UnderwayIsSeen, RefreshStakeStoreInv, ProceedStoreInv,
               SendStoreInv
  <1>12. CASE RegisterRelayServer
    <2>1. ~Underway("REGISTER_SERVER")
      BY <1>3, <1>12 DEF RegisterRelayServer, WillRegister
    <2>2. Send("REGISTER_SERVER", pass.pc = "registerFirst", mem, At("finish"), mem)
      BY <1>12 DEF RegisterRelayServer
    <2>3. ~WillRegister(At("finish"))
      BY <1>2
    <2> HIDE DEF At
    <2> QED BY <1>1, <2>1, <2>2, <2>3, SendStoreInv
  <1>13. CASE FinishPass
    <2>1. /\ store' = [i \in DOMAIN store |->
                        [store[i] EXCEPT !.state = IF store[i].state = "mined" THEN "known"
                                                   ELSE store[i].state]]
          /\ pass' = Idle /\ url' = url
      BY <1>13 DEF FinishPass
    <2>2. store \in Seq(Transactions) /\ url \in Urls
      BY DEF StoreInv
    <2>3. \A i \in DOMAIN store : store[i] \in Transactions
      BY <2>2
    <2>4. ASSUME NEW i \in DOMAIN store
          PROVE  /\ store'[i] \in Transactions
                 /\ \A a : IsPending(store'[i], a) => IsPending(store[i], a)
      BY <2>1, <2>3 DEF Transactions, IsPending
    <2>5. store' \in Seq(Transactions) /\ DOMAIN store' = DOMAIN store
      <3> DEFINE f == store'
      <3>1. f = [i \in DOMAIN store |-> f[i]]
        BY <2>1
      <3>2. f \in Seq(Transactions) /\ DOMAIN f = DOMAIN store
        <4> HIDE DEF f
        <4> QED BY <2>2, <2>4, <3>1, SameLength DEF f
      <3> QED BY <3>2
    <2>6. ~WillRegister(pass')
      BY <2>1, IdleSendsNothing
    <2> QED BY <2>1, <2>2, <2>4, <2>5, <2>6 DEF StoreInv, WillRegister
  <1>14. CASE WorkerFails
    BY <1>14, ThrownStoreInv DEF WorkerFails, PassThrows
  <1> QED BY <1>4, <1>5, <1>6, <1>7, <1>8, <1>9, <1>10, <1>11, <1>12, <1>13, <1>14
          DEF WorkerStep

(* A block leaves the transactions in their order and drops old ones.      *)
NoneSentIn(s) ==
    /\ s \in Seq(Transactions) /\ DOMAIN s = DOMAIN store
    /\ \A i \in DOMAIN store : \A a : IsPending(s[i], a) => IsPending(store[i], a)

LEMMA OlderStoreIsOlder == StoreInv => NoneSentIn(OlderStore)
  <1> SUFFICES ASSUME StoreInv PROVE NoneSentIn(OlderStore)
    OBVIOUS
  <1>1. store \in Seq(Transactions)
    BY DEF StoreInv
  <1>2. \A a \in Nat : Smaller(a + 1, MaxTxAge) \in 0..MaxTxAge
    BY MaxTxAgeType DEF Smaller
  <1>3. ASSUME NEW i \in DOMAIN store
        PROVE  /\ OlderStore[i] \in Transactions
               /\ \A a : IsPending(OlderStore[i], a) => IsPending(store[i], a)
    <2> DEFINE age == IF store[i].state = "pending" THEN 0
                      ELSE Smaller(store[i].age + 1, MaxTxAge)
    <2>1. store[i] \in Transactions
      BY <1>1
    <2>2. age \in 0..MaxTxAge
      BY <1>2, <2>1, MaxTxAgeType DEF Transactions
    <2>3. OlderStore[i] = [store[i] EXCEPT !.age = age]
      BY DEF OlderStore
    <2> HIDE DEF age
    <2> QED BY <2>1, <2>2, <2>3 DEF Transactions, IsPending
  <1>4. OlderStore = [i \in DOMAIN store |-> OlderStore[i]]
    BY DEF OlderStore
  <1>5. OlderStore \in Seq(Transactions) /\ DOMAIN OlderStore = DOMAIN store
    BY <1>1, <1>3, <1>4, SameLength
  <1> QED BY <1>3, <1>5 DEF NoneSentIn

(* What may happen to a transaction of it besides getting older            *)
Altered(t) == {t} \union {[t EXCEPT !.state = "mined"]}
                  \union {[t EXCEPT !.short = b] : b \in BOOLEAN}

LEMMA AlteredTransaction ==
    ASSUME NEW t \in Transactions, NEW u \in Altered(t)
    PROVE  u \in Transactions /\ \A a : IsPending(u, a) => IsPending(t, a)
  <1>1. CASE u = t
    BY <1>1
  <1>2. CASE u = [t EXCEPT !.state = "mined"]
    BY <1>2 DEF Transactions, IsPending
  <1>3. ASSUME NEW b \in BOOLEAN, u = [t EXCEPT !.short = b]
        PROVE  u \in Transactions /\ \A a : IsPending(u, a) => IsPending(t, a)
    BY <1>3 DEF Transactions, IsPending
  <1> QED BY <1>1, <1>2, <1>3 DEF Altered

LEMMA LeavesAltered ==
    ASSUME NEW s, Leaves(s)
    PROVE  /\ DOMAIN s = DOMAIN store /\ s = [j \in DOMAIN store |-> s[j]]
           /\ \A j \in DOMAIN store : s[j] \in Altered(OlderStore[j])
  <1>1. DOMAIN OlderStore = DOMAIN store /\ OlderStore = [j \in DOMAIN store |-> OlderStore[j]]
    BY DEF OlderStore
  <1>2. CASE s = OlderStore
    BY <1>1, <1>2 DEF Altered
  <1>3. ASSUME NEW i \in DOMAIN store, s = [OlderStore EXCEPT ![i].state = "mined"]
        PROVE  /\ s = [j \in DOMAIN store |-> s[j]]
               /\ \A j \in DOMAIN store : s[j] \in Altered(OlderStore[j])
    <2>1. /\ s = [j \in DOMAIN store |-> s[j]]
          /\ \A j \in DOMAIN store :
                s[j] = IF j = i THEN [OlderStore[j] EXCEPT !.state = "mined"] ELSE OlderStore[j]
      BY <1>1, <1>3
    <2> QED BY <2>1 DEF Altered
  <1>4. ASSUME NEW i \in DOMAIN store, s = [OlderStore EXCEPT ![i].short = TRUE]
        PROVE  /\ s = [j \in DOMAIN store |-> s[j]]
               /\ \A j \in DOMAIN store : s[j] \in Altered(OlderStore[j])
    <2>1. /\ s = [j \in DOMAIN store |-> s[j]]
          /\ \A j \in DOMAIN store :
                s[j] = IF j = i THEN [OlderStore[j] EXCEPT !.short = TRUE] ELSE OlderStore[j]
      BY <1>1, <1>4
    <2> QED BY <2>1 DEF Altered
  <1>5. ASSUME NEW actions, s = FundedStore(actions)
        PROVE  /\ s = [j \in DOMAIN store |-> s[j]]
               /\ \A j \in DOMAIN store : s[j] \in Altered(OlderStore[j])
    <2>1. s = [j \in DOMAIN store |-> s[j]]
      BY <1>5 DEF FundedStore
    <2>2. ASSUME NEW j \in DOMAIN store PROVE s[j] \in Altered(OlderStore[j])
      <3> DEFINE b == OlderStore[j].short /\ store[j].action \notin actions
      <3>1. s[j] = [OlderStore[j] EXCEPT !.short = b]
        BY <1>5 DEF FundedStore
      <3>2. b \in BOOLEAN
        BY Zenon DEF b
      <3> HIDE DEF b
      <3> QED BY <3>1, <3>2 DEF Altered
    <2> QED BY <2>1, <2>2
  <1> QED BY <1>1, <1>2, <1>3, <1>4, <1>5 DEF Leaves

LEMMA LeavesNoneSent ==
    ASSUME StoreInv, NEW s, Leaves(s)
    PROVE  NoneSentIn(s)
  <1>1. /\ OlderStore \in Seq(Transactions) /\ DOMAIN OlderStore = DOMAIN store
        /\ \A j \in DOMAIN store : \A a :
              IsPending(OlderStore[j], a) => IsPending(store[j], a)
    BY OlderStoreIsOlder DEF NoneSentIn
  <1>2. /\ DOMAIN s = DOMAIN store /\ s = [j \in DOMAIN store |-> s[j]]
        /\ \A j \in DOMAIN store : s[j] \in Altered(OlderStore[j])
    BY LeavesAltered
  <1>3. \A j \in DOMAIN store : OlderStore[j] \in Transactions
    BY <1>1
  <1>4. \A j \in DOMAIN store :
          s[j] \in Transactions /\ \A a : IsPending(s[j], a) => IsPending(store[j], a)
    BY <1>1, <1>2, <1>3, AlteredTransaction
  <1>5. s \in Seq(Transactions)
    BY <1>1, <1>2, <1>4, SameLength
  <1> QED BY <1>2, <1>4, <1>5 DEF NoneSentIn

LEMMA BlockStoreInv ==
    ASSUME StoreInv, DOMAIN pass = DOMAIN Idle, NEW c, NEW events, NEW s,
           Block(c, events, s), NoneSentIn(s), UNCHANGED url
    PROVE  StoreInv'
  <1> DEFINE kept == {t \in Transactions : ~(t.state = "known" /\ t.age = MaxTxAge)}
             pending(a) == {t \in Transactions : IsPending(t, a)}
  <1>1. store' = Filtered(s, kept) /\ pass' = [pass EXCEPT !.lag = pass.lag + InPass]
    BY DEF Block
  <1>2. s \in Seq(Transactions) /\ DOMAIN s = DOMAIN store
    BY DEF NoneSentIn
  <1>3. WillRegister(pass') <=> WillRegister(pass)
    BY <1>1, Fields DEF WillRegister
  <1> HIDE DEF kept
  <1>4. /\ store' \in Seq(Transactions)
        /\ \A j \in DOMAIN store' : \E i \in DOMAIN s : s[i] = store'[j]
    BY <1>1, <1>2, FilteredElements
  <1>5. \A i \in DOMAIN s : s[i] \in Transactions
    BY <1>2
  <1>6. \A j \in DOMAIN store' : store'[j] \in Transactions
    BY <1>4
  <1>7. ASSUME NEW a \in Steps, NEW i \in DOMAIN store', NEW j \in DOMAIN store',
               IsPending(store'[i], a), IsPending(store'[j], a)
        PROVE  i = j
    <2>1. ASSUME NEW k \in DOMAIN s, NEW l \in DOMAIN s,
                 s[k] \in pending(a), s[l] \in pending(a)
          PROVE  k = l
      BY <1>2, <2>1 DEF NoneSentIn, StoreInv
    <2>2. store'[i] \in pending(a) /\ store'[j] \in pending(a)
      BY <1>6, <1>7
    <2> HIDE DEF pending
    <2>3. \A k, l \in DOMAIN store' :
             store'[k] \in pending(a) /\ store'[l] \in pending(a) => k = l
      <3>1. \A k, l \in DOMAIN Filtered(s, kept) :
               Filtered(s, kept)[k] \in pending(a) /\ Filtered(s, kept)[l] \in pending(a)
                  => k = l
        BY <1>2, <2>1, FilteredUnique
      <3> QED BY <1>1, <3>1
    <2> QED BY <2>2, <2>3
  <1>8. Underway("REGISTER_SERVER")' => Underway("REGISTER_SERVER")
    BY <1>2, <1>4 DEF Underway, NoneSentIn
  <1> QED BY <1>3, <1>4, <1>7, <1>8 DEF StoreInv, WillRegister

LEMMA RestartStoreInv == StoreInv /\ Restart => StoreInv'
  <1> SUFFICES ASSUME StoreInv, Restart PROVE StoreInv'
    OBVIOUS
  <1> DEFINE t == [action |-> "AUTHORIZE_HUB", url |-> url', age |-> 0, state |-> "pending",
                   short |-> FALSE]
  <1>1. pass' = Idle /\ url' \in Urls
    BY DEF Restart
  <1>2. \/ UNCHANGED store
        \/ /\ store' = Append(store, t)
           /\ ~\E i \in DOMAIN store :
                 /\ store[i].action = "AUTHORIZE_HUB"
                 /\ store[i].state # "known" \/ store[i].age <= RecentBlocks
    BY DEF Restart
  <1>3. t \in Transactions /\ t.action = "AUTHORIZE_HUB"
    BY <1>1, MaxTxAgeType DEF Transactions, Actions, ManagerActions
  <1>4. ~WillRegister(pass')
    BY <1>1, IdleSendsNothing
  <1> HIDE DEF t
  <1>5. CASE UNCHANGED store
    BY <1>1, <1>4, <1>5, StoreUntouched DEF WillRegister
  <1>6. CASE /\ store' = Append(store, t)
             /\ ~\E i \in DOMAIN store :
                   /\ store[i].action = "AUTHORIZE_HUB"
                   /\ store[i].state # "known" \/ store[i].age <= RecentBlocks
    <2>1. ~Underway("AUTHORIZE_HUB")
      BY <1>6 DEF Underway, IsPending
    <2> QED BY <1>1, <1>3, <1>4, <1>6, <2>1, StoreAppended DEF WillRegister
  <1> QED BY <1>2, <1>5, <1>6

LEMMA OtherStoreInv ==
    ASSUME AuthorizationInv, StoreInv, ChainStep \/ OwnerStep
    PROVE  StoreInv'
  <1>1. Shape /\ DOMAIN pass = DOMAIN Idle
    BY DEF AuthorizationInv, Shape
  <1>2. UNCHANGED url /\ (IsBlock \/ UNCHANGED <<store, pass>>)
    BY <1>1, OthersActInBlocks
  <1>3. CASE IsBlock
    <2>1. PICK c, events, s : Block(c, events, s) /\ Leaves(s)
      BY <1>3 DEF IsBlock
    <2>2. NoneSentIn(s)
      BY <2>1, LeavesNoneSent
    <2> QED BY <1>1, <1>2, <2>1, <2>2, BlockStoreInv
  <1>4. CASE UNCHANGED <<store, pass>>
    BY <1>2, <1>4, StoreUntouched DEF StoreInv, WillRegister
  <1> QED BY <1>2, <1>3, <1>4

LEMMA NextStoreInv == AuthorizationInv /\ StoreInv /\ [Next]_vars => StoreInv'
  <1> SUFFICES ASSUME AuthorizationInv, StoreInv, [Next]_vars PROVE StoreInv'
    OBVIOUS
  <1>1. DOMAIN pass = DOMAIN Idle
    BY DEF AuthorizationInv, Shape
  <1>2. CASE UNCHANGED vars
    BY <1>2, StoreUntouched DEF vars, StoreInv, WillRegister
  <1>3. CASE WorkerStep \/ WorkerFails
    BY <1>1, <1>3, WorkerStoreInv
  <1>4. CASE Restart
    BY <1>4, RestartStoreInv
  <1>5. CASE ChainStep \/ OwnerStep
    BY <1>5, OtherStoreInv
  <1> QED BY <1>2, <1>3, <1>4, <1>5 DEF Next

(* The server never has two of the same registration step under way: every *)
(* path that sends one looks at the store first, and no other await of the *)
(* pass, no exception and no restart comes between the look and the        *)
(* sending in a way that lets a second one in (attemptRegistration,        *)
(* refreshStake, isActionPendingOrRecentlyMined).                          *)
THEOREM StepsAreSentOnce == Spec => []AtMostOnePending
  <1>1. StoreInv => AtMostOnePending
    <2> SUFFICES ASSUME StoreInv, NEW a \in Steps
                 PROVE  Cardinality({i \in DOMAIN store : store[i].action = a
                                              /\ store[i].state = "pending"}) <= 1
      BY DEF AtMostOnePending, Steps
    <2> QED BY OneAtMost DEF StoreInv, IsPending
  <1> QED BY <1>1, InitAuthorizationInv, NextAuthorizationInv, InitStoreInv, NextStoreInv,
             PTL DEF Spec

----------------------------------------------------------------------------
(* The reasons to send the server's funds away.  A withdrawal that is      *)
(* delayed counts down with the event that caused it, and a pass that has  *)
(* purses to empty has met a reason.                                       *)
Unauthorizes(left) ==
    \E j \in DOMAIN log : log[j].event = "HubUnauthorized" /\ log[j].left = left

MaySweep ==
    \E j \in DOMAIN log :
        \/ log[j].event = "StakeWithdrawn"
        \/ log[j].event = "HubUnauthorized" /\ log[j].left <= 0

SweepInv ==
    /\ pass.lag \in Nat
    /\ mem.delayed \in Seq(Int)
    /\ \A d \in DOMAIN mem.delayed : Unauthorizes(mem.delayed[d])
    /\ pass.sweep # <<>> => MaySweep

LEMMA SweepFields ==
    /\ Idle.lag = 0 /\ Idle.lag \in Nat /\ Idle.sweep = <<>>
    /\ Started.delayed = <<>> /\ Started.delayed \in Seq(Int)
    /\ DOMAIN Started.delayed = {}
  BY DEF Idle, Started

LEMMA InitSweepInv == Init => SweepInv
  <1> SUFFICES ASSUME Init PROVE SweepInv
    OBVIOUS
  <1>1. pass = Idle /\ mem.delayed = Started.delayed
    BY Fields DEF Init
  <1> QED BY <1>1, SweepFields DEF SweepInv

LEMMA WorkerSweepInv ==
    ASSUME SweepInv, UNCHANGED log, mem'.delayed \in Seq(Int),
           \A d \in DOMAIN mem'.delayed : Unauthorizes(mem'.delayed[d]),
           pass' = Idle \/ (pass'.lag = pass.lag /\ (pass'.sweep # <<>> => MaySweep))
    PROVE  SweepInv'
  <1>1. /\ \A left : Unauthorizes(left)' <=> Unauthorizes(left)
        /\ MaySweep' <=> MaySweep
    BY DEF Unauthorizes, MaySweep
  <1> QED BY <1>1, SweepFields DEF SweepInv

LEMMA RefreshedDelayed ==
    ASSUME NEW m, DOMAIN m = DOMAIN Started
    PROVE  /\ DOMAIN RefreshedStake(m) = DOMAIN Started
           /\ RefreshedStake(m).delayed = m.delayed
  <1> DEFINE read == [m EXCEPT !.hubAuthorized = m.hubAuthorized \/ StakedOnHub,
                               !.ownerSet = chain.ownerSet]
  <1>1. DOMAIN read = DOMAIN Started /\ read.delayed = m.delayed
    BY Fields
  <1>2. \/ RefreshedStake(m) = read
        \/ RefreshedStake(m) = [read EXCEPT !.stakeLocked = ~chain.unlocked,
                                            !.staked = TRUE, !.owner = TRUE]
    BY DEF RefreshedStake
  <1> HIDE DEF read
  <1> QED BY <1>1, <1>2, Fields

LEMMA NothingFlattened ==
    ASSUME NEW due, due = <<>>, NEW x
    PROVE  FlattenSeq([i \in DOMAIN due |-> x]) = <<>>
  <1>1. [i \in DOMAIN due |-> x] = <<>>
    OBVIOUS
  <1>2. FlattenSeq(<<>>) = <<>>
    BY DEF FlattenSeq
  <1> QED BY <1>1, <1>2

(* A delayed withdrawal that is due belongs to an unauthorization that has *)
(* taken effect, however long the pass has lasted.                         *)
LEMMA ExtractSweepInv ==
    AuthorizationInv /\ SweepInv /\ ExtractDuePendingEvents => SweepInv'
  <1> SUFFICES ASSUME AuthorizationInv, SweepInv, ExtractDuePendingEvents PROVE SweepInv'
    OBVIOUS
  <1> DEFINE later == {d \in -MaxLag..UnstakeDelay : ~Due(d)}
             now == {d \in -MaxLag..UnstakeDelay : Due(d)}
             due == Filtered(mem.delayed, now)
             w == FlattenSeq([i \in DOMAIN due |-> AllFunds(FALSE)])
             kept == Filtered(mem.delayed, later)
  <1>1. Proceed([mem EXCEPT !.delayed = kept], [pass EXCEPT !.pc = "register", !.sweep = w])
    BY Zenon DEF ExtractDuePendingEvents
  <1>2. /\ UNCHANGED log /\ mem'.delayed = kept
        /\ pass'.lag = pass.lag /\ pass'.sweep = w
    <2> HIDE DEF kept, w
    <2> QED BY <1>1, Fields DEF Proceed, AuthorizationInv, Shape
  <1>3. mem.delayed \in Seq(Int)
    BY DEF SweepInv
  <1>4. /\ kept \in Seq(Int)
        /\ \A j \in DOMAIN kept : \E i \in DOMAIN mem.delayed : mem.delayed[i] = kept[j]
    <2> HIDE DEF later
    <2> QED BY <1>3, FilteredElements
  <1>5. \A d \in DOMAIN kept : Unauthorizes(kept[d])
    <2> HIDE DEF kept
    <2> QED BY <1>4 DEF SweepInv
  <1>6. w # <<>> => MaySweep
    <2> SUFFICES ASSUME w # <<>> PROVE MaySweep
      OBVIOUS
    <2>1. due # <<>>
      <3> HIDE DEF due
      <3> QED BY NothingFlattened
    <2>2. PICK i \in DOMAIN mem.delayed : mem.delayed[i] \in now
      <3> HIDE DEF now
      <3> QED BY <1>3, <2>1, FilteredEmpty
    <2>3. mem.delayed[i] \in Int /\ mem.delayed[i] <= 0
      BY <1>3, <2>2 DEF Due, SweepInv
    <2>4. Unauthorizes(mem.delayed[i])
      BY DEF SweepInv
    <2> QED BY <2>3, <2>4 DEF Unauthorizes, MaySweep
  <1> HIDE DEF kept, w
  <1> QED BY <1>2, <1>4, <1>5, <1>6, WorkerSweepInv

LEMMA RefreshStakeDelayed ==
    ASSUME NEW m, NEW p, DOMAIN m = DOMAIN Started, RefreshStake(m, p)
    PROVE  /\ UNCHANGED log
           /\ \/ pass' = p /\ mem'.delayed = m.delayed
              \/ pass' = Idle /\ mem' = mem
  <1> DEFINE r == RefreshedStake(m)
  <1>1. DOMAIN r = DOMAIN Started /\ r.delayed = m.delayed
    BY RefreshedDelayed
  <1>2. /\ UNCHANGED log
        /\ \/ (mem' = r \/ mem' = [r EXCEPT !.checkBalances = TRUE]) /\ pass' = p
           \/ mem' = mem /\ pass' = Idle
    BY SendEffect DEF RefreshStake, Proceed
  <1> HIDE DEF r
  <1>3. [r EXCEPT !.checkBalances = TRUE].delayed = r.delayed
    BY <1>1, Fields
  <1> QED BY <1>1, <1>2, <1>3

LEMMA HandleSweepInv == AuthorizationInv /\ SweepInv /\ HandleEvent => SweepInv'
  <1> SUFFICES ASSUME AuthorizationInv, SweepInv, HandleEvent PROVE SweepInv'
    OBVIOUS
  <1> DEFINE k == Head(pass.todo)
             p == [pass EXCEPT !.todo = Tail(pass.todo)]
             q == [p EXCEPT !.sweep = AllFunds(TRUE)]
  <1>1. Shape /\ pass.todo # <<>> /\ DOMAIN mem = DOMAIN Started /\ mem.delayed \in Seq(Int)
    BY DEF AuthorizationInv, HandleEvent, Shape, SweepInv
  <1>2. k \in DOMAIN log /\ log[k] \in Entry
    BY <1>1, TailFacts DEF Shape
  <1>3. p.lag = pass.lag /\ p.sweep = pass.sweep /\ q.lag = pass.lag
    BY <1>1, Fields DEF Shape
  <1>4. \A d \in DOMAIN mem.delayed : Unauthorizes(mem.delayed[d])
    BY DEF SweepInv
  <1>5. pass.sweep # <<>> => MaySweep
    BY DEF SweepInv
  <1>6. \/ Proceed([mem EXCEPT !.hubAuthorized = TRUE], p)
        \/ /\ log[k].event = "HubUnauthorized"
           /\ Proceed([mem EXCEPT !.hubAuthorized = FALSE,
                                  !.delayed = Append(mem.delayed, log[k].left)], p)
        \/ log[k].event = "StakeWithdrawn" /\ RefreshStake(mem, q)
        \/ RefreshStake(mem, p)
    BY DEF HandleEvent
  <1> HIDE DEF k, p, q
  <1>7. CASE Proceed([mem EXCEPT !.hubAuthorized = TRUE], p)
    <2>1. UNCHANGED log /\ mem'.delayed = mem.delayed /\ pass' = p
      BY <1>1, <1>7, Fields DEF Proceed
    <2> QED BY <1>1, <1>3, <1>4, <1>5, <2>1, WorkerSweepInv
  <1>8. CASE /\ log[k].event = "HubUnauthorized"
             /\ Proceed([mem EXCEPT !.hubAuthorized = FALSE,
                                    !.delayed = Append(mem.delayed, log[k].left)], p)
    <2> DEFINE ds == Append(mem.delayed, log[k].left)
               n == Len(mem.delayed) + 1
    <2>1. UNCHANGED log /\ mem'.delayed = ds /\ pass' = p
      <3> HIDE DEF ds
      <3>1. /\ UNCHANGED log /\ pass' = p
            /\ mem' = [mem EXCEPT !.hubAuthorized = FALSE, !.delayed = ds]
        BY <1>8 DEF Proceed, ds
      <3> QED BY <1>1, <3>1, Fields
    <2>2. log[k].left \in Int
      BY <1>2 DEF Entry
    <2>3. /\ ds \in Seq(Int) /\ DOMAIN ds = DOMAIN mem.delayed \union {n}
          /\ \A d \in DOMAIN mem.delayed : ds[d] = mem.delayed[d]
          /\ ds[n] = log[k].left
      BY <1>1, <2>2, Appended
    <2>4. Unauthorizes(log[k].left)
      BY <1>2, <1>8 DEF Unauthorizes
    <2> HIDE DEF ds, n
    <2> QED BY <1>3, <1>4, <1>5, <2>1, <2>3, <2>4, WorkerSweepInv
  <1>9. CASE log[k].event = "StakeWithdrawn" /\ RefreshStake(mem, q)
    <2>1. MaySweep
      BY <1>2, <1>9 DEF MaySweep
    <2>2. UNCHANGED log /\ mem'.delayed = mem.delayed /\ (pass' = q \/ pass' = Idle)
      BY <1>1, <1>9, RefreshStakeDelayed
    <2> QED BY <1>1, <1>3, <1>4, <2>1, <2>2, WorkerSweepInv
  <1>10. CASE RefreshStake(mem, p)
    <2>2. UNCHANGED log /\ mem'.delayed = mem.delayed /\ (pass' = p \/ pass' = Idle)
      BY <1>1, <1>10, RefreshStakeDelayed
    <2> QED BY <1>1, <1>3, <1>4, <1>5, <2>2, WorkerSweepInv
  <1> QED BY <1>6, <1>7, <1>8, <1>9, <1>10

LEMMA OtherWorkerSweepInv ==
    ASSUME AuthorizationInv, SweepInv,
           \/ StartPass \/ FetchEvents \/ SetOwnerInStakeManager \/ Sweep
           \/ RefreshRegistrarRelayInfo \/ AttemptRegistration \/ RegisterRelayServer
           \/ FinishPass \/ WorkerFails
    PROVE  SweepInv'
  <1> DEFINE Kept(m) == DOMAIN m = DOMAIN Started /\ m.delayed = mem.delayed
             Moved(p) == p.lag = pass.lag /\ (p.sweep # <<>> => MaySweep)
  <1>1. /\ DOMAIN mem = DOMAIN Started /\ DOMAIN pass = DOMAIN Idle
        /\ pass.sweep # <<>> => MaySweep
    BY DEF AuthorizationInv, Shape, SweepInv
  <1>2. Kept(mem) /\ \A m : Kept(m) => Kept([m EXCEPT !.checkBalances = TRUE])
    BY <1>1, Fields
  <1>3. ASSUME UNCHANGED log, mem'.delayed = mem.delayed, pass' = Idle \/ Moved(pass')
        PROVE  SweepInv'
    BY <1>3, WorkerSweepInv DEF SweepInv
  <1>4. ASSUME NEW action, NEW given, NEW m, NEW p, NEW thrown, Kept(m), Kept(thrown),
               Moved(p), Send(action, given, m, p, thrown)
        PROVE  SweepInv'
    <2>1. /\ UNCHANGED log
          /\ \/ mem' = [m EXCEPT !.checkBalances = TRUE] /\ pass' = p
             \/ mem' = thrown /\ pass' = Idle
      BY <1>4, SendEffect
    <2>2. [m EXCEPT !.checkBalances = TRUE].delayed = mem.delayed
      BY <1>2, <1>4
    <2> QED BY <1>3, <1>4, <2>1, <2>2
  <1>5. ASSUME NEW m, NEW p, Kept(m), Moved(p), Proceed(m, p) PROVE SweepInv'
    BY <1>3, <1>5 DEF Proceed
  <1>6. ASSUME NEW m, NEW p, Kept(m), Moved(p), RefreshStake(m, p) PROVE SweepInv'
    <2>1. /\ UNCHANGED log
          /\ \/ pass' = p /\ mem'.delayed = m.delayed
             \/ pass' = Idle /\ mem' = mem
      BY <1>6, RefreshStakeDelayed
    <2> QED BY <1>3, <1>6, <2>1
  <1>7. \A pc : Moved([pass EXCEPT !.pc = pc])
    BY <1>1, Fields
  <1>8. CASE StartPass
    <2>1. UNCHANGED log /\ mem'.delayed = mem.delayed
      BY <1>1, <1>8, Fields DEF StartPass
    <2>2. CASE UNCHANGED pass
      BY <1>1, <1>3, <2>1, <2>2
    <2>3. CASE pass' = [Idle EXCEPT !.pc = "fetch", !.seen = Len(log)]
      <3>1. pass'.lag = 0 /\ pass'.sweep = <<>>
        BY <2>3, Fields, SweepFields
      <3>2. \A left : Unauthorizes(left)' <=> Unauthorizes(left)
        BY <2>1 DEF Unauthorizes
      <3> QED BY <2>1, <3>1, <3>2 DEF SweepInv
    <2> QED BY <1>8, <2>2, <2>3 DEF StartPass
  <1>9. CASE FetchEvents
    <2>1. PICK todo : pass' = [pass EXCEPT !.pc = "setOwner", !.todo = todo,
                                           !.force = ShouldRegisterAgain]
      BY <1>9 DEF FetchEvents
    <2>2. Moved(pass')
      BY <1>1, <2>1, Fields
    <2> QED BY <1>3, <1>9, <2>2 DEF FetchEvents
  <1>10. CASE SetOwnerInStakeManager
    <2>1. Kept([mem EXCEPT !.setOwnerCalled = TRUE])
      BY <1>1, Fields
    <2> HIDE DEF Kept, Moved
    <2> QED BY <1>2, <1>4, <1>5, <1>7, <1>10, <2>1 DEF SetOwnerInStakeManager
  <1>11. CASE Sweep
    <2>1. ASSUME pass.sweep # <<>> PROVE Moved([pass EXCEPT !.sweep = Tail(pass.sweep)])
      BY <1>1, <2>1, Fields
    <2>2. ASSUME NEW purse, NEW holds, NEW action, SweepPurse(purse, holds, action)
          PROVE  SweepInv'
      <3> HIDE DEF Kept, Moved
      <3> QED BY <1>2, <1>4, <1>5, <2>1, <2>2 DEF SweepPurse
    <2>3. CASE PassThrows /\ UNCHANGED mem
      BY <1>3, <2>3 DEF PassThrows
    <2> HIDE DEF Kept, Moved
    <2> QED BY <1>11, <2>2, <2>3
            DEF Sweep, SendManagerHubBalanceToOwner, SendWorkersEthBalancesToOwner,
                SendManagerEthBalanceToOwner
  <1>12. CASE RefreshRegistrarRelayInfo
    <2> DEFINE Reaches(info, pc) ==
                 Proceed([mem EXCEPT !.relayUrl = info], [pass EXCEPT !.pc = pc])
    <2>1. PICK info, pc : Reaches(info, pc)
      <3>1. ASSUME NEW i, NEW force, Reaches(i, IF force THEN "attempt" ELSE "finish")
            PROVE  \E info, pc : Reaches(info, pc)
        <4> HIDE DEF Reaches
        <4> QED BY <3>1
      <3> QED BY <1>12, <3>1 DEF RefreshRegistrarRelayInfo
    <2>2. Kept([mem EXCEPT !.relayUrl = info])
      BY <1>1, Fields
    <2> HIDE DEF Kept, Moved
    <2> QED BY <1>5, <1>7, <2>1, <2>2
  <1>13. CASE AttemptRegistration
    <2>1. Kept([mem EXCEPT !.funded = chain.managerEth])
      BY <1>1, Fields
    <2> HIDE DEF Kept, Moved
    <2>2. \/ RefreshStake([mem EXCEPT !.funded = chain.managerEth],
                          [pass EXCEPT !.pc = "finish"])
          \/ Proceed(mem, [pass EXCEPT !.pc = "registerTx"])
          \/ Send("ADD_WORKER", FALSE, mem, [pass EXCEPT !.pc = "registerFirst"], mem)
      BY <1>13 DEF AttemptRegistration
    <2> QED BY <1>2, <1>4, <1>5, <1>6, <1>7, <2>1, <2>2
  <1>14. CASE RegisterRelayServer
    <2> HIDE DEF Kept, Moved
    <2> QED BY <1>2, <1>4, <1>7, <1>14 DEF RegisterRelayServer
  <1>15. CASE FinishPass
    <2>1. UNCHANGED log /\ pass' = Idle /\ mem'.delayed = mem.delayed
      BY <1>1, <1>15, Fields DEF FinishPass
    <2> QED BY <1>3, <2>1
  <1>16. CASE WorkerFails
    <2>1. mem'.delayed = mem.delayed
      BY <1>1, <1>16, Fields DEF WorkerFails
    <2> QED BY <1>3, <1>16, <2>1 DEF WorkerFails, PassThrows
  <1> QED BY <1>8, <1>9, <1>10, <1>11, <1>12, <1>13, <1>14, <1>15, <1>16

(* A block brings the delayed withdrawals and their events one nearer.     *)
LEMMA BlockSweepInv ==
    ASSUME AuthorizationInv, SweepInv, NEW c, NEW events, NEW s, Block(c, events, s),
           Emits(c, events)
    PROVE  SweepInv'
  <1>1. /\ log \in Seq(Entry) /\ DOMAIN mem = DOMAIN Started /\ DOMAIN pass = DOMAIN Idle
        /\ pass.lag \in Nat /\ mem.delayed \in Seq(Int)
    BY DEF AuthorizationInv, Shape, SweepInv
  <1>2. events \in Seq(Events) /\ Len(events) \in 0..1
    BY DEF Emits
  <1>3. IsLogOf(log', events)
    BY <1>1, <1>2, BlockLog
  <1>4. \A j \in DOMAIN log : /\ j \in DOMAIN log' /\ log'[j].event = log[j].event
                              /\ log'[j].left = Later(log[j].left)
    <2>1. Len(log) \in Nat /\ DOMAIN log = 1..Len(log) /\ DOMAIN log' = 1..Len(log')
      BY <1>1, <1>3 DEF IsLogOf
    <2>2. Len(log') = Len(log) + Len(events)
      BY <1>3 DEF IsLogOf
    <2> QED BY <1>2, <1>3, <2>1, <2>2 DEF IsLogOf
  <1>5. \A d \in Int : Later(d) \in Int /\ (d <= 0 => Later(d) <= 0)
    BY Numbers DEF Later
  <1>6. \A j \in DOMAIN log : log[j].left \in Int
    <2>1. \A j \in DOMAIN log : log[j] \in Entry
      BY <1>1
    <2> QED BY <2>1 DEF Entry
  <1>7. MaySweep => MaySweep'
    BY <1>4, <1>5, <1>6 DEF MaySweep
  <1> DEFINE NowUnauthorizes(left) ==
               \E j \in DOMAIN log' : /\ log'[j].event = "HubUnauthorized"
                                      /\ log'[j].left = left
  <1>8. ASSUME NEW left, Unauthorizes(left) PROVE NowUnauthorizes(Later(left))
    BY <1>4, <1>8 DEF Unauthorizes
  <1> DEFINE ds == [i \in DOMAIN mem.delayed |-> Later(mem.delayed[i])]
  <1>9. mem'.delayed = ds /\ pass'.lag = pass.lag + InPass /\ pass'.sweep = pass.sweep
    <2>1. /\ mem' = [mem EXCEPT !.delayed = ds,
                                !.refreshAge = Smaller(mem.refreshAge + 1, RefreshTimeout)]
          /\ pass' = [pass EXCEPT !.lag = pass.lag + InPass]
      BY DEF Block
    <2> HIDE DEF ds
    <2> QED BY <1>1, <2>1, Fields
  <1>10. \A i \in DOMAIN mem.delayed : mem.delayed[i] \in Int
    BY <1>1
  <1>11. ds \in Seq(Int) /\ DOMAIN ds = DOMAIN mem.delayed
    <2> DEFINE old == mem.delayed
    <2>1. ds = [i \in DOMAIN old |-> ds[i]] /\ DOMAIN ds = DOMAIN old
      OBVIOUS
    <2>2. \A i \in DOMAIN old : ds[i] \in Int
      BY <1>5, <1>10
    <2>3. old \in Seq(Int)
      BY <1>1
    <2> HIDE DEF ds, old
    <2>4. ds \in Seq(Int)
      BY <2>1, <2>2, <2>3, SameLength
    <2> QED BY <2>1, <2>4 DEF old
  <1>12. \A d \in DOMAIN ds : NowUnauthorizes(ds[d])
    <2> HIDE DEF NowUnauthorizes
    <2> QED BY <1>8 DEF SweepInv
  <1>13. pass'.lag \in Nat
    BY <1>1, <1>9 DEF InPass
  <1> HIDE DEF ds
  <1> QED BY <1>7, <1>9, <1>11, <1>12, <1>13 DEF SweepInv, Unauthorizes

LEMMA RestartSweepInv == SweepInv /\ Restart => SweepInv'
  <1> SUFFICES ASSUME SweepInv, Restart PROVE SweepInv'
    OBVIOUS
  <1>1. UNCHANGED log /\ pass' = Idle /\ mem'.delayed = Started.delayed
    BY Fields DEF Restart
  <1> QED BY <1>1, SweepFields, WorkerSweepInv

LEMMA NextSweepInv == AuthorizationInv /\ SweepInv /\ [Next]_vars => SweepInv'
  <1> SUFFICES ASSUME AuthorizationInv, SweepInv, [Next]_vars PROVE SweepInv'
    OBVIOUS
  <1>1. ASSUME UNCHANGED <<log, mem, pass>> PROVE SweepInv'
    BY <1>1, WorkerSweepInv DEF SweepInv
  <1>2. CASE UNCHANGED vars
    BY <1>1, <1>2 DEF vars
  <1>3. CASE WorkerStep \/ WorkerFails
    BY <1>3, ExtractSweepInv, HandleSweepInv, OtherWorkerSweepInv DEF WorkerStep
  <1>4. CASE Restart
    BY <1>4, RestartSweepInv
  <1>5. CASE ChainStep \/ OwnerStep
    <2>1. IsBlock \/ UNCHANGED <<log, mem, pass>>
      BY <1>5, OthersActInBlocks DEF AuthorizationInv
    <2> QED BY <1>1, <2>1, BlockSweepInv DEF IsBlock
  <1> QED BY <1>2, <1>3, <1>4, <1>5 DEF Next

(* The transactions a step adds to the store are of these actions.         *)
Adds(actions) ==
    \A i \in (Len(store) + 1)..Len(store') : store'[i].action \in actions

LEMMA AddsOne ==
    ASSUME store \in Seq(Transactions), NEW t \in Transactions, store' = Append(store, t)
    PROVE  Adds({t.action})
  <1>1. Len(store) \in Nat /\ Len(store') = Len(store) + 1 /\ store'[Len(store) + 1] = t
    <2> HIDE DEF Transactions
    <2> QED OBVIOUS
  <1> QED BY <1>1 DEF Adds

LEMMA AddsNothing ==
    ASSUME store \in Seq(Transactions), Len(store') \in Nat, Len(store') <= Len(store)
    PROVE  Adds({})
  <1>1. Len(store) \in Nat
    OBVIOUS
  <1> QED BY <1>1 DEF Adds

LEMMA BlockAddsNothing ==
    ASSUME StoreInv, NEW c, NEW events, NEW s, Block(c, events, s), NoneSentIn(s)
    PROVE  Adds({})
  <1>1. PICK kept : store' = Filtered(s, kept)
    BY DEF Block
  <1>2. s \in Seq(Transactions) /\ store \in Seq(Transactions) /\ DOMAIN s = DOMAIN store
    BY DEF NoneSentIn, StoreInv
  <1>3. Len(s) = Len(store)
    BY <1>2
  <1>4. Len(store') \in Nat /\ Len(store') <= Len(store)
    BY <1>1, <1>2, <1>3, FilteredLength
  <1> QED BY <1>2, <1>4, AddsNothing

(* Only a pass with purses to empty asks for the deposit.                  *)
LEMMA WorkerAdds ==
    ASSUME StoreInv, WorkerStep \/ WorkerFails \/ Restart
    PROVE  Adds(Actions \ {"DEPOSIT_WITHDRAWAL"}) \/ pass.sweep # <<>>
  <1> DEFINE Others == Actions \ {"DEPOSIT_WITHDRAWAL"}
  <1> SUFFICES Adds(Others) \/ pass.sweep # <<>>
    OBVIOUS
  <1>1. store \in Seq(Transactions) /\ url \in Urls
    BY DEF StoreInv
  <1>2. ASSUME UNCHANGED store PROVE Adds(Others)
    <2>1. Len(store') \in Nat /\ Len(store') <= Len(store)
      BY <1>1, <1>2
    <2> QED BY <1>1, <2>1, AddsNothing DEF Adds
  <1>3. ASSUME NEW action \in Others, NEW u \in Urls, NEW short \in BOOLEAN,
               store' = Append(store, [action |-> action, url |-> u, age |-> 0,
                                       state |-> "pending", short |-> short])
        PROVE  Adds(Others)
    <2> DEFINE t == [action |-> action, url |-> u, age |-> 0, state |-> "pending",
                     short |-> short]
    <2>1. t \in Transactions /\ t.action = action
      BY MaxTxAgeType DEF Transactions
    <2> HIDE DEF t
    <2>2. Adds({t.action})
      BY <1>1, <1>3, <2>1, AddsOne DEF t
    <2> QED BY <2>1, <2>2 DEF Adds
  <1>4. ASSUME NEW action \in Others, NEW given, NEW m, NEW p, NEW thrown,
               Send(action, given, m, p, thrown)
        PROVE  Adds(Others)
    <2>1. \/ UNCHANGED store
          \/ store' = Append(store, [action |-> action, url |-> url, age |-> 0,
                                     state |-> "pending", short |-> CountsOnTooMuch(action)])
      BY <1>4 DEF Send, SentTransaction, PassThrows
    <2> QED BY <1>1, <1>2, <1>3, <2>1, CountsIsBoolean
  <1>5. {"SET_OWNER", "AUTHORIZE_HUB", "ADD_WORKER", "REGISTER_SERVER"} \subseteq Others
    BY DEF Actions, ManagerActions
  <1>6. ASSUME NEW m, NEW p, RefreshStake(m, p) PROVE Adds(Others)
    BY <1>2, <1>4, <1>5, <1>6 DEF RefreshStake, Proceed
  <1>7. ASSUME NEW m, NEW p, Proceed(m, p) PROVE Adds(Others)
    BY <1>2, <1>7 DEF Proceed
  <1> HIDE DEF Others
  <1>8. CASE StartPass \/ FetchEvents \/ WorkerFails
    BY <1>2, <1>8 DEF StartPass, FetchEvents, WorkerFails, PassThrows
  <1>9. CASE SetOwnerInStakeManager
    BY <1>4, <1>5, <1>7, <1>9 DEF SetOwnerInStakeManager
  <1>10. CASE HandleEvent
    <2>1. (\E m, p : Proceed(m, p)) \/ (\E m, p : RefreshStake(m, p))
      BY <1>10 DEF HandleEvent
    <2> QED BY <1>6, <1>7, <2>1
  <1>11. CASE ExtractDuePendingEvents
    <2>1. \E m, p : Proceed(m, p)
      BY <1>11, Zenon DEF ExtractDuePendingEvents
    <2> QED BY <1>7, <2>1
  <1>12. CASE Sweep
    BY <1>12 DEF Sweep, SendManagerHubBalanceToOwner, SendWorkersEthBalancesToOwner,
                 SendManagerEthBalanceToOwner, SweepPurse
  <1>13. CASE RefreshRegistrarRelayInfo
    <2>1. \E m, p : Proceed(m, p)
      BY <1>13, Zenon DEF RefreshRegistrarRelayInfo
    <2> QED BY <1>7, <2>1
  <1>14. CASE AttemptRegistration
    <2>1. \/ \E m, p : RefreshStake(m, p)
          \/ \E m, p : Proceed(m, p)
          \/ \E m, p : Send("ADD_WORKER", FALSE, m, p, m)
      BY <1>14 DEF AttemptRegistration
    <2> QED BY <1>4, <1>5, <1>6, <1>7, <2>1
  <1>15. CASE RegisterRelayServer
    BY <1>4, <1>5, <1>15 DEF RegisterRelayServer
  <1>16. CASE FinishPass
    <2> DEFINE f == store'
    <2>3. f = [i \in DOMAIN store |-> f[i]]
      <3>1. f = [i \in DOMAIN store |->
               [store[i] EXCEPT !.state = IF store[i].state = "mined" THEN "known"
                                          ELSE store[i].state]]
        BY <1>16 DEF FinishPass
      <3> QED BY <3>1
    <2>4. f \in Seq({f[j] : j \in DOMAIN store}) /\ Len(f) = Len(store)
      <3> HIDE DEF f
      <3> QED BY <1>1, <2>3, SameLength
    <2>5. Len(store') = Len(store) /\ Len(store) \in Nat
      BY <1>1, <2>4
    <2> QED BY <1>1, <2>5, AddsNothing DEF Adds
  <1>17. CASE Restart
    <2>1. url' \in Urls
      BY <1>17 DEF Restart
    <2>2. \/ UNCHANGED store
          \/ store' = Append(store, [action |-> "AUTHORIZE_HUB", url |-> url', age |-> 0,
                                     state |-> "pending", short |-> FALSE])
      BY <1>17 DEF Restart
    <2> QED BY <1>2, <1>3, <1>5, <2>1, <2>2
  <1> QED BY <1>8, <1>9, <1>10, <1>11, <1>12, <1>13, <1>14, <1>15, <1>16, <1>17
          DEF WorkerStep, Others

(* The server sends its deposit away only once its stake was withdrawn or  *)
(* an unauthorization has taken effect by the age of its event: a pass     *)
(* that takes long, a query split in pages, exceptions and the blocks      *)
(* between handlePastEvents and withdrawAllFunds never make it early       *)
(* (_extractDuePendingEvents, _handleStakeWithdrawnEvent).                 *)
THEOREM FundsLeaveWhenDue == Spec => SweepOnlyWhenDue
  <1> DEFINE Inv == AuthorizationInv /\ StoreInv /\ SweepInv
             Step == \A i \in (Len(store) + 1)..Len(store') :
                        store'[i].action = "DEPOSIT_WITHDRAWAL" =>
                          \E j \in DOMAIN log :
                              \/ log[j].event = "StakeWithdrawn"
                              \/ (log[j].event = "HubUnauthorized" /\ log[j].left <= 0)
  <1>1. Init => Inv
    BY InitAuthorizationInv, InitStoreInv, InitSweepInv
  <1>2. Inv /\ [Next]_vars => Inv'
    BY NextAuthorizationInv, NextStoreInv, NextSweepInv
  <1>3. Inv /\ [Next]_vars => [Step]_vars
    <2> SUFFICES ASSUME Inv, Next PROVE Step
      OBVIOUS
    <2>1. Adds(Actions \ {"DEPOSIT_WITHDRAWAL"}) \/ pass.sweep # <<>>
          => Step
      BY DEF Adds, SweepInv, MaySweep
    <2>2. CASE WorkerStep \/ WorkerFails \/ Restart
      BY <2>1, <2>2, WorkerAdds
    <2>3. CASE ChainStep \/ OwnerStep
      <3>1. IsBlock \/ UNCHANGED store
        BY <2>3, OthersActInBlocks DEF AuthorizationInv
      <3>2. CASE IsBlock
        <4>1. PICK c, events, s : Block(c, events, s) /\ NoneSentIn(s)
          BY <3>2, LeavesNoneSent DEF IsBlock
        <4> QED BY <4>1, <2>1, BlockAddsNothing DEF Adds
      <3>3. CASE UNCHANGED store
        <4>1. store \in Seq(Transactions) /\ Len(store') \in Nat /\ Len(store') <= Len(store)
          BY <3>3 DEF StoreInv
        <4> QED BY <2>1, <4>1, AddsNothing DEF Adds
      <3> QED BY <3>1, <3>2, <3>3
    <2> QED BY <2>2, <2>3 DEF Next
  <1> HIDE DEF Inv
  <1>4. Spec => [][Step]_vars
    BY <1>1, <1>2, <1>3, PTL DEF Spec
  <1> QED BY <1>4 DEF SweepOnlyWhenDue
=============================================================================
