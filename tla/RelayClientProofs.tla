------------------------- MODULE RelayClientProofs -------------------------
(***************************************************************************)
(* Proofs about RelayClient for any number of concurrent calls, any        *)
(* relays and lists of relays, and any clock.                              *)
(***************************************************************************)
EXTENDS RelayClient, InductionLemmas, TLAPS

(* What was executed used up its nonce.                                    *)
NonceInv ==
    /\ nonce \in Nat
    /\ \E S : events \in Seq(S)
    /\ \A i \in DOMAIN events :
          Executed(events[i]) => events[i].id.nonce \in 0..(nonce - 1)
    /\ ExecutedOnce

LEMMA InitNonceInv == Init => NonceInv
  <1>1. Init => events \in Seq({})
    BY DEF Init
  <1> QED BY <1>1 DEF Init, NonceInv, ExecutedOnce

(* What Append does to a sequence of anything                              *)
LEMMA AppendAnything ==
    ASSUME NEW S, NEW s \in Seq(S), NEW e
    PROVE  /\ Append(s, e) \in Seq(S \union {e})
           /\ DOMAIN Append(s, e) = DOMAIN s \union {Len(s) + 1}
           /\ Len(s) + 1 \notin DOMAIN s
           /\ \A i \in DOMAIN s : Append(s, e)[i] = s[i]
           /\ Append(s, e)[Len(s) + 1] = e
  <1>1. s \in Seq(S \union {e}) /\ Len(s) \in Nat /\ DOMAIN s = 1..Len(s)
    OBVIOUS
  <1> QED BY <1>1

Kinds == {"relayed", "reverted", "undone", "rejected"}

(* A mined call leaves no event; or one, and it was executed with the      *)
(* sender's next nonce or not at all.                                      *)
LEMMA MineCases ==
    ASSUME nonce \in Nat, Mine
    PROVE  /\ UNCHANGED <<now, failures, call, cached>> /\ pool' \subseteq pool
           /\ \/ UNCHANGED <<nonce, events>>
              \/ \E e : /\ events' = Append(events, e) /\ e.block = now /\ e.kind \in Kinds
                        /\ nonce' \in Nat /\ nonce' >= nonce
                        /\ Executed(e) => e.id.nonce = nonce /\ nonce' = nonce + 1
  <1>0. PICK t \in pool : \E kind \in Outcomes(t.call) :
           LET event == RelayCallEvent(t.call, t.url, kind) IN
           /\ pool' = pool \ {t}
           /\ events' = IF kind = "none" THEN events ELSE Append(events, event)
           /\ nonce' = IF Executed(event) THEN nonce + 1 ELSE nonce
    BY Zenon DEF Mine
  <1>1. PICK kind \in Outcomes(t.call) :
           LET event == RelayCallEvent(t.call, t.url, kind) IN
           /\ pool' = pool \ {t}
           /\ events' = IF kind = "none" THEN events ELSE Append(events, event)
           /\ nonce' = IF Executed(event) THEN nonce + 1 ELSE nonce
    BY <1>0
  <1> DEFINE event == RelayCallEvent(t.call, t.url, kind)
  <1>2. /\ event.kind = kind /\ event.block = now /\ event.id = RequestId(t.call, t.url)
        /\ event.id.nonce = call[t.call].nonce
    BY DEF RelayCallEvent, RequestId
  <1>3. /\ events' = IF kind = "none" THEN events ELSE Append(events, event)
        /\ nonce' = IF Executed(event) THEN nonce + 1 ELSE nonce
    BY <1>1
  <1> HIDE DEF event
  <1>4. Executed(event) => event.id.nonce = nonce /\ nonce' = nonce + 1 /\ kind # "none"
    BY <1>2, <1>3 DEF Executed, Outcomes, ForwarderAccepts
  <1>5. ~Executed(event) => nonce' = nonce
    BY <1>3
  <1>6. kind = "none" => UNCHANGED <<nonce, events>>
    BY <1>3, <1>4, <1>5
  <1>7. kind # "none" =>
           /\ events' = Append(events, event) /\ event.block = now /\ event.kind \in Kinds
           /\ nonce' \in Nat /\ nonce' >= nonce
           /\ Executed(event) => event.id.nonce = nonce /\ nonce' = nonce + 1
    BY <1>2, <1>3, <1>4, <1>5 DEF Outcomes, Kinds
  <1>8. UNCHANGED <<now, failures, call, cached>> /\ pool' \subseteq pool
    BY <1>1 DEF Mine
  <1> QED BY <1>6, <1>7, <1>8

LEMMA MineNonceInv == NonceInv /\ Mine => NonceInv'
  <1> SUFFICES ASSUME NonceInv, Mine PROVE NonceInv'
    OBVIOUS
  <1>1. CASE UNCHANGED <<nonce, events>>
    BY <1>1 DEF NonceInv, ExecutedOnce, Executed
  <1> SUFFICES ASSUME ~UNCHANGED <<nonce, events>> PROVE NonceInv'
    BY <1>1
  <1>2. PICK S : events \in Seq(S)
    BY DEF NonceInv
  <1>3. PICK e : /\ events' = Append(events, e)
                 /\ nonce' \in Nat /\ nonce' >= nonce
                 /\ Executed(e) => e.id.nonce = nonce /\ nonce' = nonce + 1
    BY MineCases DEF NonceInv
  <1>4. events' \in Seq(S \union {e})
    BY <1>2, <1>3, AppendAnything
  <1>5. /\ DOMAIN events' = DOMAIN events \union {Len(events) + 1}
        /\ Len(events) + 1 \notin DOMAIN events
        /\ \A i \in DOMAIN events : events'[i] = events[i]
        /\ events'[Len(events) + 1] = e
    BY <1>2, <1>3, AppendAnything
  <1>6. nonce \in Nat
    BY DEF NonceInv
  <1>7. ASSUME NEW i \in DOMAIN events', Executed(events'[i])
        PROVE  events'[i].id.nonce \in 0..(nonce' - 1)
    BY <1>3, <1>5, <1>6, <1>7 DEF NonceInv
  <1>8. ASSUME NEW i \in DOMAIN events', NEW j \in DOMAIN events',
               Executed(events'[i]), Executed(events'[j]),
               events'[i].id.nonce = events'[j].id.nonce
        PROVE  i = j
    <2>1. CASE i \in DOMAIN events /\ j \in DOMAIN events
      BY <1>5, <1>8, <2>1 DEF NonceInv, ExecutedOnce
    <2>2. CASE i = Len(events) + 1 /\ j \in DOMAIN events
      BY <1>3, <1>5, <1>6, <1>8, <2>2 DEF NonceInv
    <2>3. CASE i \in DOMAIN events /\ j = Len(events) + 1
      BY <1>3, <1>5, <1>6, <1>8, <2>3 DEF NonceInv
    <2> QED BY <1>5, <2>1, <2>2, <2>3
  <1>9. ExecutedOnce'
    BY <1>8 DEF ExecutedOnce, Executed
  <1> QED BY <1>3, <1>4, <1>7, <1>9 DEF NonceInv, Executed

LEMMA NextNonceInv == NonceInv /\ [Next]_vars => NonceInv'
  <1> SUFFICES ASSUME NonceInv, [Next]_vars PROVE NonceInv'
    OBVIOUS
  <1>1. CASE UNCHANGED <<nonce, events>>
    BY <1>1 DEF NonceInv, ExecutedOnce, Executed
  <1>2. CASE Tick
    BY <1>1, <1>2 DEF Tick
  <1>3. CASE Mine
    BY <1>3, MineNonceInv
  <1>4. CASE Reload
    BY <1>1, <1>4 DEF Reload, ChainUnchanged
  <1>5. ASSUME NEW c \in Calls, ClientStep(c) PROVE NonceInv'
    BY <1>1, <1>5 DEF ClientStep, RefreshRelays, PrepareRelayRequest, DryRun,
       InitRelaySelection, SelectNextRelay, AttemptRelay, RelayRefuses, RelayTimesOut, RelayAnswers,
       ChainUnchanged
  <1>6. CASE UNCHANGED vars
    BY <1>1, <1>6 DEF vars
  <1> QED BY <1>2, <1>3, <1>4, <1>5, <1>6 DEF Next

(* No nonce is executed twice, however many calls read it and however many *)
(* relays were handed each request: _verifyAndUpdateNonce of the Forwarder *)
(* is all it takes, whatever client and relays do.                         *)
THEOREM NoReplay == Spec => []ExecutedOnce
  <1>1. NonceInv => ExecutedOnce
    BY DEF NonceInv
  <1> QED BY <1>1, InitNonceInv, NextNonceInv, PTL DEF Spec

----------------------------------------------------------------------------
(* What each call remembers.  The urls it was handed are gone from all its *)
(* lists: RelaySelectionManager removes the winner and the relays that     *)
(* failed wherever they are.                                               *)
CallStates ==
    [pc : {"idle", "prepare", "dryRun", "init", "select", "attempt", "http", "done"},
     nonce : Nat, until : Int, submitted : Int, remaining : Seq(Seq(Urls)), tried : Seq(Urls),
     url : Urls \union {NoUrl}]

IsIn(list, u) == \E k \in DOMAIN list : list[k] = u

SelectionOK(rec) ==
    /\ IsInjective(rec.tried)
    /\ \A i \in DOMAIN rec.remaining, u \in Urls :
          IsIn(rec.remaining[i], u) => ~IsIn(rec.tried, u)
    /\ rec.pc \in {"idle", "prepare", "dryRun", "init"} => rec.tried = << >>
    /\ rec.pc \in {"attempt", "http"} => IsIn(rec.tried, rec.url)
    /\ rec.pc \in {"idle", "prepare", "dryRun", "init", "select"} => rec.url = NoUrl

(* A transaction that can never be mined came from a relay that was asked  *)
(* before the one the call is with now, or ends with.                      *)
Discarded(rec, t) ==
    /\ rec.url # t.url /\ t.url \in Urls
    /\ \/ rec.pc = "done"
       \/ rec.pc \in {"select", "attempt", "http"} /\ IsIn(rec.tried, t.url)

SelectionInv ==
    /\ call \in [Calls -> CallStates]
    /\ now \in Int /\ nonce \in Nat
    /\ \A c \in Calls : SelectionOK(call[c])
    /\ \A t \in pool : t.call \in Calls /\ (~t.minable => Discarded(call[t.call], t))

LEMMA NothingIsIn ==
    /\ \A u : ~IsIn(<< >>, u)
    /\ IsInjective(<< >>)
    /\ \A S : << >> \in Seq(S)
  BY DEF IsIn, IsInjective

LEMMA InitSelection == Init => SelectionInv
  <1> SUFFICES ASSUME Init PROVE SelectionInv
    OBVIOUS
  <1> DEFINE rec == [pc |-> "idle", nonce |-> 0, until |-> 0, submitted |-> 0,
                     remaining |-> <<>>, tried |-> <<>>, url |-> NoUrl]
  <1>1. rec \in CallStates
    BY NothingIsIn DEF CallStates
  <1>2. SelectionOK(rec)
    BY NothingIsIn DEF SelectionOK
  <1>3. /\ call = [c \in Calls |-> rec] /\ pool = {} /\ now \in Int /\ nonce \in Nat
    BY ClientAssumption DEF Init, ClientAssumption
  <1> QED BY <1>1, <1>2, <1>3 DEF SelectionInv

(* One call takes a step; transactions that are new are its own.           *)
LEMMA StepSelection ==
    ASSUME SelectionInv, NEW c \in Calls, NEW rec \in CallStates,
           SelectionOK(rec), Step(c, rec), now' \in Int, nonce' \in Nat,
           \A t \in pool' : t \in pool \/ (t.call = c /\ (~t.minable => Discarded(rec, t))),
           \A t \in pool : Discarded(call[c], t) => Discarded(rec, t)
    PROVE  SelectionInv'
  <1>1. /\ call' \in [Calls -> CallStates] /\ call'[c] = rec
        /\ \A d \in Calls : d # c => call'[d] = call[d]
    BY DEF SelectionInv, Step
  <1>2. \A d \in Calls : SelectionOK(call'[d])
    BY <1>1 DEF SelectionInv
  <1>3. ASSUME NEW t \in pool'
        PROVE  t.call \in Calls /\ (~t.minable => Discarded(call'[t.call], t))
    <2>1. CASE t \in pool /\ t.call = c
      BY <1>1, <2>1 DEF SelectionInv
    <2>2. CASE t \in pool /\ t.call # c
      BY <1>1, <2>2 DEF SelectionInv
    <2>3. CASE t \notin pool
      BY <1>1, <2>3
    <2> QED BY <2>1, <2>2, <2>3
  <1> QED BY <1>1, <1>2, <1>3 DEF SelectionInv

(* A call moves on without another relay, or returns.                      *)
LEMMA GotoSelection ==
    ASSUME NEW rec \in CallStates, SelectionOK(rec)
    PROVE  /\ rec.pc \in {"idle"} =>
                 LET new == [rec EXCEPT !.pc = "prepare"]
                 IN  /\ new \in CallStates /\ SelectionOK(new)
                     /\ \A t : Discarded(rec, t) => Discarded(new, t)
           /\ rec.pc = "dryRun" =>
                 LET new == [rec EXCEPT !.pc = "init"]
                 IN  /\ new \in CallStates /\ SelectionOK(new)
                     /\ \A t : Discarded(rec, t) => Discarded(new, t)
           /\ rec.pc = "attempt" =>
                 LET new == [rec EXCEPT !.pc = "http"]
                 IN  /\ new \in CallStates /\ SelectionOK(new)
                     /\ \A t : Discarded(rec, t) => Discarded(new, t)
  <1>1. CASE rec.pc = "idle"
    <2> DEFINE new == [rec EXCEPT !.pc = "prepare"]
    <2>1. /\ new.remaining = rec.remaining /\ new.tried = rec.tried /\ new.url = rec.url
          /\ new.pc = "prepare" /\ new \in CallStates
      BY DEF CallStates
    <2> HIDE DEF new
    <2>2. SelectionOK(new) /\ \A t : Discarded(rec, t) => Discarded(new, t)
      BY <1>1, <2>1 DEF SelectionOK, Discarded
    <2> QED BY <1>1, <2>1, <2>2 DEF new
  <1>2. CASE rec.pc = "attempt"
    <2> DEFINE new == [rec EXCEPT !.pc = "http"]
    <2>1. /\ new.remaining = rec.remaining /\ new.tried = rec.tried /\ new.url = rec.url
          /\ new.pc = "http" /\ new \in CallStates
      BY DEF CallStates
    <2> HIDE DEF new
    <2>2. SelectionOK(new) /\ \A t : Discarded(rec, t) => Discarded(new, t)
      BY <1>2, <2>1 DEF SelectionOK, Discarded
    <2> QED BY <1>2, <2>1, <2>2 DEF new
  <1>3. CASE rec.pc = "dryRun"
    <2> DEFINE new == [rec EXCEPT !.pc = "init"]
    <2>1. /\ new.remaining = rec.remaining /\ new.tried = rec.tried /\ new.url = rec.url
          /\ new.pc = "init" /\ new \in CallStates
      BY DEF CallStates
    <2> HIDE DEF new
    <2>2. SelectionOK(new) /\ \A t : Discarded(rec, t) => Discarded(new, t)
      BY <1>3, <2>1 DEF SelectionOK, Discarded
    <2> QED BY <1>3, <2>1, <2>2 DEF new
  <1> QED BY <1>1, <1>2, <1>3

LEMMA ReturnSelection ==
    ASSUME NEW rec \in CallStates, SelectionOK(rec), NEW u \in {rec.url, NoUrl}
    PROVE  LET new == [rec EXCEPT !.pc = "done", !.url = u, !.remaining = <<>>,
                                       !.tried = <<>>]
           IN  /\ new \in CallStates /\ SelectionOK(new)
               /\ \A t : Discarded(rec, t) => Discarded(new, t)
  <1> DEFINE new == [rec EXCEPT !.pc = "done", !.url = u, !.remaining = <<>>,
                                       !.tried = <<>>]
  <1>1. /\ new.remaining = << >> /\ new.tried = << >> /\ new.url = u
        /\ new.pc = "done" /\ new \in CallStates
    BY NothingIsIn DEF CallStates
  <1> HIDE DEF new
  <1>2. SelectionOK(new)
    BY <1>1, NothingIsIn DEF SelectionOK
  <1>3. \A t : Discarded(rec, t) => Discarded(new, t)
    BY <1>1, ClientAssumption DEF Discarded, ClientAssumption
  <1> QED BY <1>1, <1>2, <1>3 DEF new

LEMMA TryNextSelection ==
    ASSUME NEW rec \in CallStates, SelectionOK(rec), rec.pc = "http"
    PROVE  LET new == [rec EXCEPT !.pc = "select", !.url = NoUrl]
           IN  /\ new \in CallStates /\ SelectionOK(new)
               /\ \A t : Discarded(rec, t) => Discarded(new, t)
               /\ \A t : t.url = rec.url /\ rec.url \in Urls => Discarded(new, t)
  <1> DEFINE new == [rec EXCEPT !.pc = "select", !.url = NoUrl]
  <1>1. /\ new.remaining = rec.remaining /\ new.tried = rec.tried /\ new.url = NoUrl
        /\ new.pc = "select" /\ new \in CallStates
    BY DEF CallStates
  <1> HIDE DEF new
  <1>2. SelectionOK(new)
    BY <1>1 DEF SelectionOK
  <1>3. \A t : Discarded(rec, t) => Discarded(new, t)
    BY <1>1, ClientAssumption DEF Discarded, ClientAssumption
  <1>4. \A t : t.url = rec.url /\ rec.url \in Urls => Discarded(new, t)
    BY <1>1, ClientAssumption DEF Discarded, ClientAssumption, SelectionOK
  <1> QED BY <1>1, <1>2, <1>3, <1>4 DEF new

LEMMA SliceListed ==
    ASSUME NEW remaining \in Seq(Seq(Urls)), NEW u \in ToSet(NextSlice(remaining))
    PROVE  u \in Urls /\ \E i \in DOMAIN remaining : IsIn(remaining[i], u)
  <1> DEFINE left == {i \in DOMAIN remaining : remaining[i] # <<>>}
             first == CHOOSE i \in left : \A j \in left : i <= j
             list == remaining[first]
             n == IF SliceSize < Len(list) THEN SliceSize ELSE Len(list)
  <1>1. left # {}
    BY DEF NextSlice, ToSet
  <1>2. first \in DOMAIN remaining
    <2>1. left \in SUBSET Nat
      OBVIOUS
    <2>2. first \in left
      <3> HIDE DEF left
      <3> QED BY <1>1, <2>1, LeastNumber
    <2> QED BY <2>2
  <1>3. NextSlice(remaining) = SubSeq(list, 1, n)
    BY <1>1, Zenon DEF NextSlice
  <1> HIDE DEF first
  <1>4. list \in Seq(Urls)
    BY <1>2
  <1>5. n \in Nat /\ n <= Len(list)
    BY <1>4, ClientAssumption DEF ClientAssumption
  <1> HIDE DEF list, n
  <1>6. PICK k \in DOMAIN SubSeq(list, 1, n) : u = SubSeq(list, 1, n)[k]
    BY <1>3 DEF ToSet
  <1>7. k \in DOMAIN list /\ u = list[k]
    BY <1>4, <1>5, <1>6
  <1> QED BY <1>2, <1>4, <1>7 DEF IsIn, list

LEMMA ResultsHandled ==
    ASSUME NEW remaining \in Seq(Seq(Urls)), NEW race
    PROVE  LET new == HandleWaitForSuccessResults(remaining, race)
           IN  /\ new \in Seq(Seq(Urls)) /\ DOMAIN new = DOMAIN remaining
               /\ \A i \in DOMAIN new, u \in Urls :
                     IsIn(new[i], u) => IsIn(remaining[i], u) /\ u # race.winner
  <1> DEFINE T == Urls \ ({race.winner} \union race.errors)
             new == [i \in DOMAIN remaining |-> Filtered(remaining[i], T)]
  <1>1. HandleWaitForSuccessResults(remaining, race) = new
    BY DEF HandleWaitForSuccessResults
  <1>2. ASSUME NEW i \in DOMAIN remaining
        PROVE  /\ Filtered(remaining[i], T) \in Seq(Urls)
               /\ \A u \in Urls : IsIn(Filtered(remaining[i], T), u) =>
                     IsIn(remaining[i], u) /\ u # race.winner
    <2>1. remaining[i] \in Seq(Urls)
      OBVIOUS
    <2>2. /\ Filtered(remaining[i], T) \in Seq(Urls)
          /\ \A j \in DOMAIN Filtered(remaining[i], T) :
                /\ Filtered(remaining[i], T)[j] \in T
                /\ \E l \in DOMAIN remaining[i] :
                      remaining[i][l] = Filtered(remaining[i], T)[j]
      <3> HIDE DEF T
      <3> QED BY <2>1, FilteredElements
    <2> QED BY <2>2 DEF IsIn
  <1>3. new \in Seq(Seq(Urls)) /\ DOMAIN new = DOMAIN remaining
    <2>1. DOMAIN remaining = 1..Len(remaining) /\ Len(remaining) \in Nat
      OBVIOUS
    <2> HIDE DEF T
    <2>2. new \in [1..Len(remaining) -> Seq(Urls)]
      BY <1>2, <2>1
    <2> QED BY <2>1, <2>2
  <1> HIDE DEF T
  <1> QED BY <1>1, <1>2, <1>3

LEMMA WinnerTried ==
    ASSUME NEW tried \in Seq(Urls), NEW w \in Urls, IsInjective(tried), ~IsIn(tried, w)
    PROVE  /\ Append(tried, w) \in Seq(Urls) /\ IsInjective(Append(tried, w))
           /\ \A u : IsIn(Append(tried, w), u) <=> IsIn(tried, u) \/ u = w
  <1>1. /\ Append(tried, w) \in Seq(Urls)
        /\ DOMAIN Append(tried, w) = DOMAIN tried \union {Len(tried) + 1}
        /\ Len(tried) + 1 \notin DOMAIN tried
        /\ \A i \in DOMAIN tried : Append(tried, w)[i] = tried[i]
        /\ Append(tried, w)[Len(tried) + 1] = w
    OBVIOUS
  <1> DEFINE new == Append(tried, w)
             l == Len(tried) + 1
  <1> HIDE DEF new, l
  <1>2. IsInjective(new)
    BY <1>1, Zenon DEF IsInjective, IsIn, new, l
  <1>3. \A u : IsIn(new, u) <=> IsIn(tried, u) \/ u = w
    BY <1>1 DEF IsIn, new, l
  <1> QED BY <1>1, <1>2, <1>3 DEF new

(* selectNextRelay: the winner was in a list, so the call did not have it. *)
LEMMA SelectedSelection ==
    ASSUME NEW rec \in CallStates, SelectionOK(rec), rec.pc = "select",
           NEW race, race.winner \in ToSet(NextSlice(rec.remaining)) \union {NoUrl}
    PROVE  LET left == [rec EXCEPT !.remaining = HandleWaitForSuccessResults(@, race)]
               new == [left EXCEPT !.pc = "attempt", !.url = race.winner,
                                   !.tried = Append(@, race.winner)]
           IN  /\ left \in CallStates /\ SelectionOK(left)
               /\ \A t : Discarded(rec, t) => Discarded(left, t)
               /\ race.winner # NoUrl =>
                     /\ new \in CallStates /\ SelectionOK(new)
                     /\ \A t : Discarded(rec, t) => Discarded(new, t)
  <1> DEFINE w == race.winner
             lists == HandleWaitForSuccessResults(rec.remaining, race)
             left == [rec EXCEPT !.remaining = HandleWaitForSuccessResults(@, race)]
             new == [left EXCEPT !.pc = "attempt", !.url = w, !.tried = Append(@, w)]
  <1>1. rec.remaining \in Seq(Seq(Urls)) /\ rec.tried \in Seq(Urls)
    BY DEF CallStates
  <1>2. /\ lists \in Seq(Seq(Urls)) /\ DOMAIN lists = DOMAIN rec.remaining
        /\ \A i \in DOMAIN lists, u \in Urls :
              IsIn(lists[i], u) => IsIn(rec.remaining[i], u) /\ u # w
    BY <1>1, ResultsHandled
  <1>3. w # NoUrl => w \in Urls /\ ~IsIn(rec.tried, w)
    BY <1>1, SliceListed DEF SelectionOK
  <1> HIDE DEF w, lists
  <1>4. /\ left \in CallStates /\ left.remaining = lists /\ left.tried = rec.tried
        /\ left.url = rec.url /\ left.pc = "select"
    BY <1>2 DEF CallStates, lists
  <1>5. ASSUME w # NoUrl
        PROVE  /\ Append(rec.tried, w) \in Seq(Urls) /\ IsInjective(Append(rec.tried, w))
               /\ \A u : IsIn(Append(rec.tried, w), u) <=> IsIn(rec.tried, u) \/ u = w
    BY <1>1, <1>3, <1>5, WinnerTried DEF SelectionOK
  <1>6. ASSUME w # NoUrl
        PROVE  /\ new \in CallStates /\ new.remaining = lists
               /\ new.tried = Append(rec.tried, w) /\ new.url = w /\ new.pc = "attempt"
    BY <1>3, <1>4, <1>5, <1>6 DEF CallStates
  <1>7. SelectionOK(left) /\ \A t : Discarded(rec, t) => Discarded(left, t)
    <2> HIDE DEF left
    <2> QED BY <1>2, <1>4 DEF SelectionOK, Discarded
  <1>8. ASSUME w # NoUrl
        PROVE  SelectionOK(new) /\ \A t : Discarded(rec, t) => Discarded(new, t)
    <2> HIDE DEF new
    <2>1. SelectionOK(new)
      BY <1>2, <1>5, <1>6, <1>8 DEF SelectionOK
    <2>2. \A t : Discarded(rec, t) => Discarded(new, t)
      BY <1>3, <1>5, <1>6, <1>8 DEF SelectionOK, Discarded
    <2> QED BY <2>1, <2>2
  <1> QED BY <1>4, <1>6, <1>7, <1>8 DEF w

(* What the checks of the gap are worth.                                   *)
LEMMA ValidIsMinable == \A r \in Responses : IsTransactionValid(r) => IsMinable(r)
  <1> SUFFICES ASSUME NEW r \in Responses, IsTransactionValid(r) PROVE IsMinable(r)
    OBVIOUS
  <1>1. PICK n \in 0..MaxRelayNonceGap :
           r.gap \in [1..n -> [nonce : 0..MaxRelayNonceGap, relayCall : BOOLEAN]]
    BY DEF Responses
  <1>2. n \in Nat /\ r.asRequested /\ DOMAIN r.gap = 1..n
        /\ \A i \in 1..n : r.gap[i].nonce = i - 1
    BY <1>1, ClientAssumption DEF IsTransactionValid, NonceGapIsValid, ClientAssumption
  <1>3. Len(r.gap) = n
    BY <1>1, <1>2
  <1>4. r.nonce = n
    BY <1>3 DEF IsTransactionValid
  <1> DEFINE before == {r.gap[i].nonce : i \in DOMAIN r.gap}
  <1>5. ASSUME NEW x \in before PROVE x \in 0..(n - 1)
    BY <1>2
  <1>6. ASSUME NEW x \in 0..(n - 1) PROVE x \in before
    <2>1. x + 1 \in DOMAIN r.gap /\ r.gap[x + 1].nonce = (x + 1) - 1
      BY <1>2
    <2>2. r.gap[x + 1].nonce = x
      BY <1>2, <2>1
    <2> QED BY <2>1, <2>2
  <1> HIDE DEF before
  <1>7. before = 0..(r.nonce - 1)
    BY <1>4, <1>5, <1>6
  <1>8. r.nonce >= 0
    BY <1>2, <1>4
  <1> QED BY <1>2, <1>7, <1>8, Zenon DEF IsMinable, before

LEMMA ListsType == RelaysShuffledForTransaction \subseteq Seq(Seq(Urls))
  <1>1. ASSUME NEW S \in SUBSET Urls, NEW s \in SetToSeqs(S)
        PROVE  s \in Seq(Urls)
    <2>1. IsFiniteSet(S)
      BY ClientAssumption, FS_Subset DEF ClientAssumption
    <2>2. Cardinality(S) \in Nat
      BY <2>1, FS_CardinalityType
    <2>3. s \in [1..Cardinality(S) -> Urls]
      BY Zenon DEF SetToSeqs
    <2> QED BY <2>2, <2>3
  <1>2. AllRelayers \subseteq Urls
    BY ClientAssumption DEF ClientAssumption, AllRelayers
  <1>3. ASSUME NEW lists \in RelaysShuffledForTransaction
        PROVE  lists \in Seq(Seq(Urls))
    <2>1. PICK s \in SetToSeqs({u \in AllRelayers : ~HasFailure(u)}),
               q \in SetToSeqs({u \in AllRelayers : HasFailure(u)}) :
             lists = <<Preferred, s, q>>
      BY DEF RelaysShuffledForTransaction
    <2>2. s \in Seq(Urls) /\ q \in Seq(Urls)
      BY <1>1, <1>2
    <2>3. Preferred \in Seq(Urls)
      BY ClientAssumption DEF ClientAssumption
    <2> QED BY <2>1, <2>2, <2>3
  <1> QED BY <1>3

----------------------------------------------------------------------------
(* The steps of a call                                                     *)
LEMMA RequestKeepsSelection ==
    ASSUME SelectionInv, NEW c \in Calls,
           \/ RefreshRelays(c) \/ PrepareRelayRequest(c) \/ DryRun(c)
           \/ InitRelaySelection(c) \/ AttemptRelay(c)
    PROVE  SelectionInv'
  <1> DEFINE rec == call[c]
  <1>1. /\ rec \in CallStates /\ SelectionOK(rec) /\ now \in Int /\ nonce \in Nat
        /\ UNCHANGED <<now, nonce, pool>>
        /\ \A t \in pool : t.call \in Calls
    BY DEF SelectionInv, RefreshRelays, PrepareRelayRequest, DryRun, InitRelaySelection,
       AttemptRelay, ChainUnchanged
  <1>2. ASSUME NEW u \in {rec.url, NoUrl}, Return(c, u) PROVE SelectionInv'
    BY <1>1, <1>2, ReturnSelection, StepSelection DEF Return
  <1>3. ASSUME NEW new \in CallStates, SelectionOK(new), Step(c, new),
               \A t : Discarded(rec, t) => Discarded(new, t)
        PROVE  SelectionInv'
    BY <1>1, <1>3, StepSelection
  <1>4. CASE RefreshRelays(c)
    BY <1>1, <1>3, <1>4, GotoSelection DEF RefreshRelays, Goto
  <1>5. CASE AttemptRelay(c)
    <2>1. rec.pc = "attempt" /\ (Goto(c, "http") \/ Return(c, NoUrl))
      BY <1>5, Zenon DEF AttemptRelay
    <2> QED BY <1>1, <1>2, <1>3, <2>1, GotoSelection DEF Goto
  <1>6. CASE PrepareRelayRequest(c)
    <2> DEFINE new == [rec EXCEPT !.pc = "dryRun", !.nonce = nonce, !.until = ValidUntil]
    <2>1. rec.pc = "prepare" /\ (Return(c, NoUrl) \/ Step(c, new))
      BY <1>6, Zenon DEF PrepareRelayRequest
    <2>2. /\ new.remaining = rec.remaining /\ new.tried = rec.tried /\ new.url = rec.url
          /\ new.pc = "dryRun" /\ new \in CallStates
      <3>1. ValidUntil \in Int
        BY <1>1, ClientAssumption DEF ValidUntil, ClientAssumption
      <3> HIDE DEF rec
      <3> QED BY <1>1, <3>1 DEF CallStates
    <2> HIDE DEF new
    <2>3. SelectionOK(new) /\ \A t : Discarded(rec, t) => Discarded(new, t)
      BY <1>1, <2>1, <2>2 DEF SelectionOK, Discarded
    <2> QED BY <1>2, <1>3, <2>1, <2>2, <2>3
  <1>7. CASE DryRun(c)
    <2>1. rec.pc = "dryRun" /\ (Goto(c, "init") \/ Return(c, NoUrl))
      BY <1>7, Zenon DEF DryRun
    <2> QED BY <1>1, <1>2, <1>3, <2>1, GotoSelection DEF Goto
  <1>8. CASE InitRelaySelection(c)
    <2>1. /\ rec.pc = "init"
          /\ \/ Return(c, NoUrl)
             \/ \E lists \in RelaysShuffledForTransaction :
                   Step(c, [rec EXCEPT !.pc = "select", !.remaining = lists,
                                       !.submitted = now])
      BY <1>8, Zenon DEF InitRelaySelection
    <2>2. CASE Return(c, NoUrl)
      BY <1>2, <2>2
    <2>3. ASSUME NEW lists \in RelaysShuffledForTransaction,
                 Step(c, [rec EXCEPT !.pc = "select", !.remaining = lists,
                                     !.submitted = now])
          PROVE  SelectionInv'
      <3> DEFINE new == [rec EXCEPT !.pc = "select", !.remaining = lists,
                                    !.submitted = now]
      <3>1. /\ new.remaining = lists /\ new.tried = rec.tried /\ new.url = rec.url
            /\ new.pc = "select" /\ new \in CallStates
        BY <1>1, ListsType DEF CallStates
      <3>2. Step(c, new)
        BY <2>3
      <3> HIDE DEF new
      <3>3. SelectionOK(new) /\ \A t : Discarded(rec, t) => Discarded(new, t)
        BY <1>1, <2>1, <3>1, NothingIsIn DEF SelectionOK, Discarded
      <3> QED BY <1>3, <3>1, <3>2, <3>3
    <2> QED BY <2>1, <2>2, <2>3
  <1> QED BY <1>4, <1>5, <1>6, <1>7, <1>8

LEMMA SelectKeepsSelection ==
    ASSUME SelectionInv, NEW c \in Calls, SelectNextRelay(c)
    PROVE  SelectionInv'
  <1> DEFINE rec == call[c]
             slice == NextSlice(rec.remaining)
  <1>1. /\ rec \in CallStates /\ SelectionOK(rec) /\ now \in Int /\ nonce \in Nat
        /\ UNCHANGED <<now, nonce, pool>> /\ rec.pc = "select"
    BY DEF SelectionInv, SelectNextRelay, ChainUnchanged
  <1>2. ASSUME NEW new \in CallStates, SelectionOK(new), Step(c, new),
               \A t : Discarded(rec, t) => Discarded(new, t)
        PROVE  SelectionInv'
    BY <1>1, <1>2, StepSelection
  <1>3. CASE slice = << >>
    <2>1. Return(c, NoUrl)
      BY <1>3, Zenon DEF SelectNextRelay
    <2> QED BY <1>1, <1>2, <2>1, ReturnSelection DEF Return
  <1>4. CASE slice # << >>
    <2>1. PICK race \in RaceResults(slice) :
             LET left == [rec EXCEPT !.remaining = HandleWaitForSuccessResults(@, race)]
                 new == [left EXCEPT !.pc = "attempt", !.url = race.winner,
                                     !.tried = Append(@, race.winner)]
             IN  Step(c, left) \/ (race.winner # NoUrl /\ Step(c, new))
      BY <1>4, Zenon DEF SelectNextRelay
    <2>2. race.winner \in ToSet(slice) \union {NoUrl}
      BY DEF RaceResults, Pinged
    <2> HIDE DEF slice
    <2> DEFINE left == [rec EXCEPT !.remaining = HandleWaitForSuccessResults(@, race)]
               new == [left EXCEPT !.pc = "attempt", !.url = race.winner,
                                   !.tried = Append(@, race.winner)]
    <2>3. Step(c, left) \/ (race.winner # NoUrl /\ Step(c, new))
      BY <2>1
    <2>4. /\ left \in CallStates /\ SelectionOK(left)
          /\ \A t : Discarded(rec, t) => Discarded(left, t)
          /\ race.winner # NoUrl =>
                /\ new \in CallStates /\ SelectionOK(new)
                /\ \A t : Discarded(rec, t) => Discarded(new, t)
      BY <1>1, <2>2, SelectedSelection DEF slice
    <2> HIDE DEF left, new, rec
    <2> QED BY <1>2, <2>3, <2>4
  <1> QED BY <1>3, <1>4

LEMMA HttpKeepsSelection ==
    ASSUME SelectionInv, NEW c \in Calls,
           RelayRefuses(c) \/ RelayTimesOut(c) \/ RelayAnswers(c)
    PROVE  SelectionInv'
  <1> DEFINE rec == call[c]
             next == [rec EXCEPT !.pc = "select", !.url = NoUrl]
             done == [rec EXCEPT !.pc = "done", !.url = rec.url, !.remaining = <<>>,
                                       !.tried = <<>>]
  <1>1. /\ rec \in CallStates /\ SelectionOK(rec) /\ now \in Int /\ nonce \in Nat
        /\ UNCHANGED <<now, nonce>> /\ rec.pc = "http"
    BY DEF SelectionInv, RelayRefuses, RelayTimesOut, RelayAnswers, ChainUnchanged
  <1>2. /\ next \in CallStates /\ SelectionOK(next)
        /\ \A t : Discarded(rec, t) => Discarded(next, t)
        /\ \A t : t.url = rec.url /\ rec.url \in Urls => Discarded(next, t)
    BY <1>1, TryNextSelection
  <1>3. /\ done \in CallStates /\ SelectionOK(done)
        /\ \A t : Discarded(rec, t) => Discarded(done, t)
    BY <1>1, ReturnSelection
  <1>4. TryNextRelay(c) <=> Step(c, next)
    BY DEF TryNextRelay
  <1>5. Return(c, rec.url) <=> Step(c, done)
    BY DEF Return
  <1>6. rec.url \in Urls
    BY <1>1 DEF SelectionOK, IsIn, CallStates
  <1>7. \A m : Tx(c, m).call = c /\ Tx(c, m).url = rec.url /\ Tx(c, m).minable = m
    BY DEF Tx
  <1> HIDE DEF rec, next, done
  <1>8. ASSUME Step(c, next), NEW m \in BOOLEAN, pool' \in {pool, pool \union {Tx(c, m)}}
        PROVE  SelectionInv'
    <2>1. \A t \in pool' : t \in pool \/ (t.call = c /\ (~t.minable => Discarded(next, t)))
      BY <1>2, <1>6, <1>7, <1>8
    <2> QED BY <1>1, <1>2, <1>8, <2>1, StepSelection DEF rec
  <1>9. ASSUME Step(c, done), pool' \in {pool, pool \union {Tx(c, TRUE)}}
        PROVE  SelectionInv'
    <2>1. \A t \in pool' : t \in pool \/ (t.call = c /\ (~t.minable => Discarded(done, t)))
      BY <1>7, <1>9
    <2> QED BY <1>1, <1>3, <1>9, <2>1, StepSelection DEF rec
  <1>10. CASE RelayRefuses(c)
    BY <1>4, <1>8, <1>10, Zenon DEF RelayRefuses, ChainUnchanged
  <1>11. CASE RelayTimesOut(c)
    <2>1. Step(c, next) /\ pool' \in {pool, pool \union {Tx(c, TRUE)}}
      BY <1>4, <1>11 DEF RelayTimesOut
    <2> QED BY <1>8, <2>1
  <1>12. CASE RelayAnswers(c)
    <2>1. PICK r \in Responses :
             \/ /\ IsTransactionValid(r) /\ BroadcastRawTx(Tx(c, IsMinable(r)))
                /\ Return(c, call[c].url)
             \/ /\ pool' \in {pool, IF r.asRequested THEN pool \union {Tx(c, IsMinable(r))}
                                    ELSE pool}
                /\ TryNextRelay(c)
      BY <1>12, Zenon DEF RelayAnswers
    <2>2. IsMinable(r) \in BOOLEAN /\ (IsTransactionValid(r) => IsMinable(r) = TRUE)
      BY ValidIsMinable DEF IsMinable
    <2>3. CASE /\ IsTransactionValid(r) /\ BroadcastRawTx(Tx(c, IsMinable(r)))
               /\ Return(c, call[c].url)
      <3>1. Step(c, done) /\ pool' \in {pool, pool \union {Tx(c, TRUE)}}
        BY <1>5, <2>2, <2>3 DEF BroadcastRawTx, rec
      <3> QED BY <1>9, <3>1
    <2>4. ASSUME TryNextRelay(c),
                 pool' \in {pool, IF r.asRequested THEN pool \union {Tx(c, IsMinable(r))}
                                  ELSE pool}
          PROVE  SelectionInv'
      <3>1. Step(c, next) /\ pool' \in {pool, pool \union {Tx(c, IsMinable(r))}}
        BY <1>4, <2>4
      <3> QED BY <1>8, <2>2, <3>1
    <2> QED BY <2>1, <2>3, <2>4
  <1> QED BY <1>10, <1>11, <1>12

LEMMA NextSelection == SelectionInv /\ [Next]_vars => SelectionInv'
  <1> SUFFICES ASSUME SelectionInv, [Next]_vars PROVE SelectionInv'
    OBVIOUS
  <1>1. ASSUME UNCHANGED call, pool' \subseteq pool, now' \in Int, nonce' \in Nat
        PROVE  SelectionInv'
    BY <1>1 DEF SelectionInv
  <1>2. CASE Tick
    BY <1>1, <1>2 DEF Tick, SelectionInv
  <1>3. CASE Mine
    <2>1. UNCHANGED <<call, now>> /\ pool' \subseteq pool /\ nonce' \in Nat
      BY <1>3, MineCases DEF SelectionInv
    <2> QED BY <1>1, <2>1 DEF SelectionInv
  <1>4. CASE Reload
    BY <1>1, <1>4 DEF Reload, ChainUnchanged, SelectionInv
  <1>5. CASE UNCHANGED vars
    BY <1>1, <1>5 DEF vars, SelectionInv
  <1>6. ASSUME NEW c \in Calls, ClientStep(c) PROVE SelectionInv'
    BY <1>6, RequestKeepsSelection, SelectKeepsSelection, HttpKeepsSelection DEF ClientStep
  <1> QED BY <1>2, <1>3, <1>4, <1>5, <1>6 DEF Next

(* No relay is asked twice by a call, though its lists may name a relay    *)
(* more than once: selectNextRelay removes the winner from all of them.    *)
THEOREM RelaysAreAskedOnce == Spec => []NeverSameRelayTwice
  <1>1. SelectionInv => NeverSameRelayTwice
    BY DEF SelectionInv, SelectionOK, NeverSameRelayTwice
  <1> QED BY <1>1, InitSelection, NextSelection, PTL DEF Spec

(* A transaction returned to the user can be mined as far as its nonce     *)
(* goes, whatever the relays answered before: the checks of                *)
(* validateRelayResponse leave no gap.                                     *)
THEOREM ReturnedCanBeMined == Spec => []ReturnedIsMinable
  <1>1. SelectionInv => ReturnedIsMinable
    BY DEF SelectionInv, ReturnedIsMinable, Discarded, Tx
  <1> QED BY <1>1, InitSelection, NextSelection, PTL DEF Spec

----------------------------------------------------------------------------
(* Receipts.  A call that waits for a relay, and a request remembered,     *)
(* began before anything was executed with their nonce: the view call in   *)
(* _attemptRelay saw to that, after the block was read.                    *)
Since(evs, block, n) ==
    \A i \in DOMAIN evs : Executed(evs[i]) /\ evs[i].id.nonce = n => evs[i].block >= block

LookupInv ==
    /\ now \in Nat
    /\ \A i \in DOMAIN events : events[i].block \in Int /\ events[i].kind \in Kinds
    /\ \A c \in Calls : call[c].submitted <= now /\ call[c].submitted \in Int
    /\ \A c \in Calls : call[c].pc = "http" => Since(events, call[c].submitted, call[c].nonce)
    /\ \A id \in DOMAIN cached :
          cached[id] \in Int /\ cached[id] <= now /\ Since(events, cached[id], id.nonce)

LEMMA InitLookup == Init => LookupInv
  <1> SUFFICES ASSUME Init PROVE LookupInv
    OBVIOUS
  <1>1. /\ now \in Nat /\ 0 <= now
        /\ \A c \in Calls : call[c].submitted = 0 /\ call[c].pc = "idle"
    BY ClientAssumption DEF Init, ClientAssumption
  <1>2. DOMAIN cached = {} /\ DOMAIN events = {}
    BY DEF Init
  <1> QED BY <1>1, <1>2 DEF LookupInv

(* Events are only added, and those of executions are of now.              *)
LEMMA SinceKept ==
    ASSUME NonceInv, now \in Int, NEW b \in Int, b <= now, NEW n, Since(events, b, n),
           UNCHANGED events \/ Mine
    PROVE  Since(events', b, n)
  <1>1. CASE UNCHANGED events
    BY <1>1 DEF Since, Executed
  <1>2. CASE Mine /\ ~UNCHANGED events
    <2>1. PICK e : events' = Append(events, e) /\ e.block = now
      BY <1>2, MineCases DEF NonceInv
    <2>2. PICK S : events \in Seq(S)
      BY DEF NonceInv
    <2>3. /\ DOMAIN events' = DOMAIN events \union {Len(events) + 1}
          /\ \A i \in DOMAIN events : events'[i] = events[i]
          /\ events'[Len(events) + 1] = e
      BY <2>1, <2>2, AppendAnything
    <2>4. ASSUME NEW i \in DOMAIN events', Executed(events'[i]), events'[i].id.nonce = n
          PROVE  events'[i].block >= b
      <3>1. CASE i \in DOMAIN events
        BY <2>3, <2>4, <3>1 DEF Since
      <3>2. CASE i = Len(events) + 1
        BY <2>1, <2>3, <3>2
      <3> QED BY <2>3, <3>1, <3>2
    <2> QED BY <2>4 DEF Since, Executed
  <1> QED BY <1>1, <1>2

(* A step of a call waits for a relay only after a view call that the      *)
(* Forwarder accepted.                                                     *)
LEMMA StepSince ==
    ASSUME NonceInv, LookupInv, UNCHANGED <<now, events>>,
           NEW c \in Calls, call \in [Calls -> CallStates],
           NEW rec \in CallStates, Step(c, rec), rec.submitted <= now,
           rec.pc = "http" => Since(events, rec.submitted, rec.nonce),
           \/ UNCHANGED cached
           \/ \E id, b : /\ cached' = [x \in DOMAIN cached \union {id} |-> IF x = id THEN b ELSE cached[x]]
                         /\ b \in Int /\ b <= now /\ Since(events, b, id.nonce)
    PROVE  LookupInv'
  <1>2. call'[c] = rec /\ \A d \in Calls : d # c => call'[d] = call[d]
    BY DEF Step
  <1>3. rec.submitted \in Int
    BY DEF CallStates
  <1>4. ASSUME NEW d \in Calls
        PROVE  /\ call'[d].submitted <= now /\ call'[d].submitted \in Int
               /\ call'[d].pc = "http" => Since(events, call'[d].submitted, call'[d].nonce)
    BY <1>2, <1>3 DEF LookupInv
  <1>5. ASSUME NEW i \in DOMAIN cached'
        PROVE  cached'[i] \in Int /\ cached'[i] <= now /\ Since(events, cached'[i], i.nonce)
    <2>1. CASE UNCHANGED cached
      BY <1>5, <2>1 DEF LookupInv
    <2>2. CASE ~UNCHANGED cached
      <3>1. PICK id, b : /\ cached' = [x \in DOMAIN cached \union {id} |-> IF x = id THEN b ELSE cached[x]]
                         /\ b \in Int /\ b <= now /\ Since(events, b, id.nonce)
        BY <2>2
      <3>2. \/ i = id /\ cached'[i] = b
            \/ i \in DOMAIN cached /\ cached'[i] = cached[i]
        BY <1>5, <3>1
      <3> QED BY <3>1, <3>2 DEF LookupInv
    <2> QED BY <2>1, <2>2
  <1>6. /\ now' \in Nat /\ now' = now
        /\ \A i \in DOMAIN events' : events'[i].block \in Int /\ events'[i].kind \in Kinds
    BY DEF LookupInv
  <1>7. \A d \in Calls : call'[d].submitted <= now' /\ call'[d].submitted \in Int
    BY <1>4, <1>6
  <1>8. \A d \in Calls :
          call'[d].pc = "http" => Since(events', call'[d].submitted, call'[d].nonce)
    BY <1>4
  <1>9. \A i \in DOMAIN cached' :
          cached'[i] \in Int /\ cached'[i] <= now' /\ Since(events', cached'[i], i.nonce)
    BY <1>5, <1>6
  <1> QED BY <1>6, <1>7, <1>8, <1>9 DEF LookupInv

LEMMA NothingExecutedYet == NonceInv => \A b : Since(events, b, nonce)
  <1> SUFFICES ASSUME NonceInv, NEW i \in DOMAIN events, Executed(events[i]),
                      events[i].id.nonce = nonce
               PROVE  FALSE
    BY DEF Since
  <1> QED BY DEF NonceInv

(* What a call returns with, and what it goes on with                      *)
LEMMA StepRecords ==
    ASSUME NEW rec \in CallStates, now \in Int, rec.submitted <= now, 0 <= now
    PROVE  /\ \A u \in Urls \union {NoUrl} :
                 LET new == [rec EXCEPT !.pc = "done", !.url = u, !.remaining = <<>>,
                                       !.tried = <<>>]
                 IN  new \in CallStates /\ new.submitted <= now /\ new.pc = "done"
           /\ \A p \in {"prepare", "init", "http"} :
                 LET new == [rec EXCEPT !.pc = p]
                 IN  /\ new \in CallStates /\ new.submitted = rec.submitted
                     /\ new.nonce = rec.nonce /\ new.pc = p
           /\ LET new == [rec EXCEPT !.pc = "select", !.url = NoUrl]
              IN  new \in CallStates /\ new.submitted <= now /\ new.pc = "select"
  <1>1. << >> \in Seq(Seq(Urls)) /\ << >> \in Seq(Urls)
    BY NothingIsIn
  <1>2. ASSUME NEW u \in Urls \union {NoUrl}
        PROVE  LET new == [rec EXCEPT !.pc = "done", !.url = u, !.remaining = <<>>,
                                       !.tried = <<>>]
               IN  new \in CallStates /\ new.submitted <= now /\ new.pc = "done"
    BY <1>1, <1>2 DEF CallStates
  <1>3. ASSUME NEW p \in {"prepare", "init", "http"}
        PROVE  LET new == [rec EXCEPT !.pc = p]
               IN  /\ new \in CallStates /\ new.submitted = rec.submitted
                   /\ new.nonce = rec.nonce /\ new.pc = p
    BY <1>3 DEF CallStates
  <1>4. LET new == [rec EXCEPT !.pc = "select", !.url = NoUrl]
        IN  new \in CallStates /\ new.submitted <= now /\ new.pc = "select"
    BY DEF CallStates
  <1> QED BY <1>2, <1>3, <1>4, Zenon

LEMMA ClientLookup ==
    ASSUME NonceInv, SelectionInv, LookupInv, NEW c \in Calls, ClientStep(c)
    PROVE  LookupInv'
  <1> DEFINE rec == call[c]
  <1>1. /\ rec \in CallStates /\ call \in [Calls -> CallStates] /\ now \in Int /\ 0 <= now
        /\ rec.submitted <= now /\ rec.submitted \in Int /\ nonce \in Nat /\ SelectionOK(rec)
    BY DEF SelectionInv, LookupInv
  <1>2. UNCHANGED <<now, events>>
    BY DEF ClientStep, RefreshRelays, PrepareRelayRequest, DryRun, InitRelaySelection,
       SelectNextRelay, AttemptRelay, RelayRefuses, RelayTimesOut, RelayAnswers, ChainUnchanged
  <1>3. ASSUME NEW new \in CallStates, Step(c, new), new.submitted <= now, new.pc # "http",
               UNCHANGED cached
        PROVE  LookupInv'
    BY <1>1, <1>2, <1>3, StepSince
  <1>4. ASSUME Return(c, NoUrl), UNCHANGED cached PROVE LookupInv'
    BY <1>1, <1>3, <1>4, StepRecords DEF Return
  <1>5. ASSUME TryNextRelay(c), UNCHANGED cached PROVE LookupInv'
    BY <1>1, <1>3, <1>5, StepRecords DEF TryNextRelay
  <1>6. ASSUME NEW p \in {"prepare", "init"}, Goto(c, p), UNCHANGED cached PROVE LookupInv'
    BY <1>1, <1>3, <1>6, StepRecords DEF Goto
  <1>7. CASE RefreshRelays(c) \/ DryRun(c)
    <2>1. UNCHANGED cached /\ (Goto(c, "prepare") \/ Goto(c, "init") \/ Return(c, NoUrl))
      BY <1>7, Zenon DEF RefreshRelays, DryRun
    <2> QED BY <1>4, <1>6, <2>1
  <1>8. CASE PrepareRelayRequest(c)
    <2> DEFINE new == [rec EXCEPT !.pc = "dryRun", !.nonce = nonce, !.until = ValidUntil]
    <2>1. UNCHANGED cached /\ (Return(c, NoUrl) \/ Step(c, new))
      BY <1>8, Zenon DEF PrepareRelayRequest
    <2>2. new \in CallStates /\ new.submitted = rec.submitted /\ new.pc = "dryRun"
      <3>1. ValidUntil \in Int
        BY <1>1, ClientAssumption DEF ValidUntil, ClientAssumption
      <3> HIDE DEF rec
      <3> QED BY <1>1, <3>1 DEF CallStates
    <2> HIDE DEF new
    <2> QED BY <1>1, <1>3, <1>4, <2>1, <2>2
  <1>9. CASE InitRelaySelection(c)
    <2>1. /\ UNCHANGED cached
          /\ \/ Return(c, NoUrl)
             \/ \E lists \in RelaysShuffledForTransaction :
                   Step(c, [rec EXCEPT !.pc = "select", !.remaining = lists,
                                       !.submitted = now])
      BY <1>9, Zenon DEF InitRelaySelection
    <2>2. ASSUME NEW lists \in RelaysShuffledForTransaction,
                 Step(c, [rec EXCEPT !.pc = "select", !.remaining = lists,
                                     !.submitted = now])
          PROVE  LookupInv'
      <3> DEFINE new == [rec EXCEPT !.pc = "select", !.remaining = lists, !.submitted = now]
      <3>1. new \in CallStates /\ new.submitted = now /\ new.pc # "http"
        BY <1>1, ListsType DEF CallStates
      <3>2. Step(c, new)
        BY <2>2
      <3> HIDE DEF new
      <3>3. UNCHANGED cached
        BY <1>9, Zenon DEF InitRelaySelection
      <3>4. new.submitted <= now
        BY <1>1, <3>1
      <3> QED BY <1>3, <3>1, <3>2, <3>3, <3>4
    <2> QED BY <1>4, <2>1, <2>2
  <1>10. CASE SelectNextRelay(c)
    <2> DEFINE slice == NextSlice(rec.remaining)
    <2>1. rec.pc = "select" /\ UNCHANGED cached
      BY <1>10 DEF SelectNextRelay
    <2>2. CASE slice = << >>
      <3>1. Return(c, NoUrl)
        BY <1>10, <2>2, Zenon DEF SelectNextRelay
      <3> QED BY <1>4, <2>1, <3>1
    <2>3. CASE slice # << >>
      <3>1. PICK race \in RaceResults(slice) :
               LET left == [rec EXCEPT !.remaining = HandleWaitForSuccessResults(@, race)]
                   new == [left EXCEPT !.pc = "attempt", !.url = race.winner,
                                       !.tried = Append(@, race.winner)]
               IN  Step(c, left) \/ (race.winner # NoUrl /\ Step(c, new))
        BY <1>10, <2>3, Zenon DEF SelectNextRelay
      <3>2. race.winner \in ToSet(slice) \union {NoUrl}
        BY DEF RaceResults, Pinged
      <3> DEFINE left == [rec EXCEPT !.remaining = HandleWaitForSuccessResults(@, race)]
                 new == [left EXCEPT !.pc = "attempt", !.url = race.winner,
                                     !.tried = Append(@, race.winner)]
      <3>3. Step(c, left) \/ (race.winner # NoUrl /\ Step(c, new))
        BY <3>1
      <3>4. left \in CallStates /\ (race.winner # NoUrl => new \in CallStates)
        BY <1>1, <2>1, <3>2, SelectedSelection
      <3>5. left.submitted = rec.submitted /\ left.pc = "select"
        BY <1>1, <2>1 DEF CallStates
      <3>6. new.submitted = rec.submitted /\ new.pc = "attempt"
        <4> HIDE DEF left
        <4> QED BY <3>4, <3>5 DEF CallStates
      <3> HIDE DEF left, new, rec
      <3> QED BY <1>1, <1>3, <2>1, <3>3, <3>4, <3>5, <3>6
    <2> QED BY <2>2, <2>3
  <1>11. CASE AttemptRelay(c)
    <2>1. PICK outcome \in ValidateRelayCall(c) :
             IF VerifyViewCallSuccessful(outcome) THEN Goto(c, "http") ELSE Return(c, NoUrl)
      BY <1>11 DEF AttemptRelay
    <2>2. UNCHANGED cached
      BY <1>11 DEF AttemptRelay
    <2>3. CASE VerifyViewCallSuccessful(outcome)
      <3>1. rec.nonce = nonce
        BY <2>3 DEF VerifyViewCallSuccessful, ValidateRelayCall, ForwarderAccepts
      <3> DEFINE new == [rec EXCEPT !.pc = "http"]
      <3>2. /\ new \in CallStates /\ new.submitted = rec.submitted
            /\ new.nonce = rec.nonce
        BY <1>1, StepRecords
      <3>3. Step(c, new)
        BY <2>1, <2>3 DEF Goto
      <3>4. Since(events, new.submitted, new.nonce)
        BY <3>1, <3>2, NothingExecutedYet
      <3> HIDE DEF new
      <3> QED BY <1>1, <1>2, <2>2, <3>2, <3>3, <3>4, StepSince
    <2>4. CASE ~VerifyViewCallSuccessful(outcome)
      BY <1>4, <2>1, <2>2, <2>4
    <2> QED BY <2>3, <2>4
  <1>12. CASE RelayRefuses(c) \/ RelayTimesOut(c)
    BY <1>5, <1>12 DEF RelayRefuses, RelayTimesOut
  <1>13. CASE RelayAnswers(c)
    <2>1. \/ CacheSubmittedTransactionDetails(c) /\ Return(c, call[c].url)
          \/ TryNextRelay(c) /\ UNCHANGED cached
      BY <1>13, Zenon DEF RelayAnswers
    <2>2. rec.pc = "http"
      BY <1>13 DEF RelayAnswers
    <2>3. CASE CacheSubmittedTransactionDetails(c) /\ Return(c, call[c].url)
      <3> DEFINE id == RequestId(c, call[c].url)
                 new == [rec EXCEPT !.pc = "done", !.url = rec.url, !.remaining = <<>>,
                                    !.tried = <<>>]
      <3>1. Step(c, new)
        BY <2>3 DEF Return
      <3>2. new \in CallStates /\ new.submitted <= now /\ new.pc = "done"
        <4>1. rec.url \in Urls \union {NoUrl}
          BY <1>1 DEF CallStates
        <4> QED BY <1>1, <4>1, StepRecords
      <3>3. id.nonce = rec.nonce
        BY DEF RequestId
      <3>4. Since(events, rec.submitted, id.nonce)
        BY <2>2, <3>3 DEF LookupInv
      <3>5. cached' = [i \in DOMAIN cached \union {id} |->
                          IF i = id THEN rec.submitted ELSE cached[i]]
        BY <2>3 DEF CacheSubmittedTransactionDetails
      <3> HIDE DEF new, id, rec
      <3> QED BY <1>1, <1>2, <3>1, <3>2, <3>4, <3>5, StepSince
    <2> QED BY <1>5, <2>1, <2>3
  <1> QED BY <1>7, <1>8, <1>9, <1>10, <1>11, <1>12, <1>13 DEF ClientStep

LEMMA NextLookup ==
    NonceInv /\ SelectionInv /\ LookupInv /\ [Next]_vars => LookupInv'
  <1> SUFFICES ASSUME NonceInv, SelectionInv, LookupInv, [Next]_vars
               PROVE  LookupInv'
    OBVIOUS
  <1>1. ASSUME UNCHANGED <<call, cached>>, UNCHANGED events \/ Mine, now' \in Nat, now' >= now
        PROVE  LookupInv'
    <2>1. \A c \in Calls : call'[c] = call[c]
      BY <1>1
    <2>2. \A c \in Calls : call[c].submitted <= now' /\ call[c].submitted \in Int
      BY <1>1 DEF LookupInv
    <2>3. ASSUME NEW c \in Calls, call[c].pc = "http"
          PROVE  Since(events', call[c].submitted, call[c].nonce)
      BY <1>1, <2>3, SinceKept DEF LookupInv
    <2>4. ASSUME NEW id \in DOMAIN cached
          PROVE  /\ cached[id] \in Int /\ cached[id] <= now'
                 /\ Since(events', cached[id], id.nonce)
      BY <1>1, <2>4, SinceKept DEF LookupInv
    <2>5. ASSUME NEW i \in DOMAIN events'
          PROVE  events'[i].block \in Int /\ events'[i].kind \in Kinds
      <3>1. CASE UNCHANGED events
        BY <2>5, <3>1 DEF LookupInv
      <3>2. CASE Mine /\ ~UNCHANGED events
        <4>1. PICK e : events' = Append(events, e) /\ e.block = now /\ e.kind \in Kinds
          BY <3>2, MineCases DEF NonceInv
        <4>2. PICK S : events \in Seq(S)
          BY DEF NonceInv
        <4>3. /\ DOMAIN events' = DOMAIN events \union {Len(events) + 1}
              /\ \A l \in DOMAIN events : events'[l] = events[l]
              /\ events'[Len(events) + 1] = e
          BY <4>1, <4>2, AppendAnything
        <4> QED BY <2>5, <4>1, <4>3 DEF LookupInv
      <3> QED BY <1>1, <3>1, <3>2
    <2> QED BY <1>1, <2>1, <2>2, <2>3, <2>4, <2>5 DEF LookupInv
  <1>2. CASE Tick
    <2>1. UNCHANGED <<call, cached, events>> /\ now' = now + 1
      BY <1>2 DEF Tick
    <2> QED BY <1>1, <2>1 DEF LookupInv
  <1>3. CASE Mine
    <2>1. UNCHANGED <<call, cached, now>>
      BY <1>3, MineCases DEF NonceInv
    <2> QED BY <1>1, <1>3, <2>1 DEF LookupInv
  <1>4. CASE Reload
    <2>1. UNCHANGED <<call, now, events>> /\ cached' = << >>
      BY <1>4 DEF Reload, ChainUnchanged
    <2>2. DOMAIN cached' = {}
      BY <2>1
    <2> QED BY <2>1, <2>2 DEF LookupInv
  <1>5. CASE UNCHANGED vars
    <2>1. UNCHANGED <<call, cached, events, now>>
      BY <1>5 DEF vars
    <2> QED BY <1>1, <2>1 DEF LookupInv
  <1>6. ASSUME NEW c \in Calls, ClientStep(c) PROVE LookupInv'
    BY <1>6, ClientLookup
  <1> QED BY <1>2, <1>3, <1>4, <1>5, <1>6 DEF Next

LEMMA FilteredHas ==
    ASSUME NEW S, NEW s \in Seq(S), NEW T, NEW k \in DOMAIN s, s[k] \in T
    PROVE  \E m \in DOMAIN Filtered(s, T) : Filtered(s, T)[m] = s[k]
  BY FilteredElements

(* What is found of a request that was executed well, unless it is         *)
(* forgotten and old.                                                      *)
LEMMA ReceiptOfExecuted ==
    ASSUME NonceInv, LookupInv, NEW c \in Calls, NEW i \in DOMAIN events,
           events[i].id = RequestId(c, call[c].url), events[i].kind = "relayed",
           IsRemembered(c) \/ events[i].block >= now - BlocksForLookup
    PROVE  \/ Receipt(c) = "success"
           \/ /\ Receipt(c) = "error"
              /\ \E j \in DOMAIN events :
                    events[j].id = events[i].id /\ events[j].kind = "undone"
  <1> DEFINE id == RequestId(c, call[c].url)
             mine == {e \in ToSet(events) : e.id = id /\ e.block >= SubmissionBlock(c)}
             found == Filtered(events, mine)
             relayed == {e \in ToSet(found) : TransactionRelayed(e)}
             successes == Filtered(found, relayed)
  <1>1. PICK S : events \in Seq(S)
    BY DEF NonceInv
  <1>2. events[i].block >= SubmissionBlock(c)
    <2>1. CASE IsRemembered(c)
      <3>1. id \in DOMAIN cached /\ SubmissionBlock(c) = cached[id]
        BY <2>1 DEF IsRemembered, SubmissionBlock
      <3>2. Since(events, cached[id], id.nonce)
        BY <3>1 DEF LookupInv
      <3> HIDE DEF id
      <3>3. Executed(events[i]) /\ events[i].id.nonce = id.nonce
        BY DEF Executed, id
      <3> QED BY <3>1, <3>2, <3>3 DEF Since
    <2>2. CASE ~IsRemembered(c)
      BY <2>2 DEF SubmissionBlock
    <2> QED BY <2>1, <2>2
  <1>3. /\ events[i] \in mine /\ TransactionRelayed(events[i])
        /\ Executed(events[i]) /\ Status(events[i]) = "success"
    BY <1>2 DEF ToSet, Executed, Status, TransactionRelayed
  <1>4. \A e \in mine : e.id = events[i].id
    OBVIOUS
  <1>5. Receipt(c) = IF found # << >> THEN PickSingleEvent(found)
                     ELSE IF CanStillBeMined(c) THEN "null" ELSE "failed"
    BY Zenon DEF Receipt
  <1> HIDE DEF mine
  <1>6. PICK h : found \in Seq(S) /\ Picks(events, mine, Len(events), found, h)
    BY <1>1, FilteredPicks
  <1>7. DOMAIN events = 1..Len(events) /\ DOMAIN found = 1..Len(found) /\ Len(found) \in Nat
    BY <1>1, <1>6
  <1>8. PickSingleEvent(found) =
          IF successes = << >> THEN Status(Last(found))
          ELSE IF Len(successes) = 1 THEN Status(successes[1]) ELSE "error"
    BY Zenon DEF PickSingleEvent
  <1> HIDE DEF found
  <1>9. PICK j \in DOMAIN found : h[j] = i
    BY <1>3, <1>6, <1>7 DEF Picks
  <1>10. found[j] = events[i]
    BY <1>6, <1>9 DEF Picks
  <1>11. found[j] \in relayed
    BY <1>3, <1>10 DEF ToSet
  <1>12. Receipt(c) = PickSingleEvent(found)
    <2>1. found # << >>
      BY <1>6, <1>7, <1>9
    <2> QED BY <1>5, <2>1
  <1>13. PICK l \in DOMAIN successes : successes[l] = events[i]
    <2> HIDE DEF relayed
    <2>0. found \in Seq(S)
      BY <1>6
    <2>1. \E m \in DOMAIN Filtered(found, relayed) : Filtered(found, relayed)[m] = found[j]
      BY <1>9, <1>11, <2>0, FilteredHas
    <2> QED BY <1>10, <2>1
  <1>14. successes \in Seq(S)
    <2> HIDE DEF relayed
    <2> QED BY <1>6, FilteredElements
  <1>15. Receipt(c) \in {"success", "error"}
    <2> HIDE DEF successes
    <2>1. DOMAIN successes = 1..Len(successes) /\ Len(successes) \in Nat
      BY <1>14
    <2>2. successes # << >>
      BY <1>13, <2>1
    <2>3. CASE Len(successes) = 1
      <3>1. l = 1
        BY <1>13, <2>1, <2>3
      <3> QED BY <1>3, <1>8, <1>12, <1>13, <2>2, <2>3, <3>1
    <2>4. CASE Len(successes) # 1
      BY <1>8, <1>12, <2>2, <2>4
    <2> QED BY <2>3, <2>4
  <1>16. ASSUME \A k \in DOMAIN events :
                   events[k].id = events[i].id => events[k].kind # "undone"
         PROVE  Receipt(c) = "success"
    <2>1. ASSUME NEW k \in DOMAIN found, found[k] \in relayed PROVE k = j
      <3>1. /\ h[k] \in DOMAIN events /\ found[k] = events[h[k]] /\ events[h[k]] \in mine
            /\ TransactionRelayed(events[h[k]])
        BY <1>6, <1>7, <2>1 DEF Picks
      <3>2. events[h[k]].id = events[i].id
        BY <1>4, <3>1
      <3>3. Executed(events[h[k]])
        BY <1>16, <3>1, <3>2 DEF LookupInv, Kinds, Executed, TransactionRelayed
      <3>4. h[k] = i
        BY <1>3, <3>1, <3>2, <3>3 DEF NonceInv, ExecutedOnce
      <3>5. ~(k < j) /\ ~(j < k)
        BY <1>6, <1>7, <1>9, <3>1, <3>4 DEF Picks
      <3> QED BY <1>7, <3>5
    <2>2. successes = << events[i] >>
      <3> HIDE DEF relayed
      <3> QED BY <1>6, <1>10, <1>11, <2>1, FilteredSingle
    <2>3. successes # << >> /\ Len(successes) = 1 /\ successes[1] = events[i]
      <3> HIDE DEF successes
      <3> QED BY <2>2
    <2> HIDE DEF successes
    <2> QED BY <1>3, <1>8, <1>12, <2>3
  <1> QED BY <1>15, <1>16

(* A request that was executed well has a receipt that says so, however    *)
(* often it was relayed and rejected besides: _pickSingleEvent finds the   *)
(* one event of its execution, as the Forwarder used up its nonce and the  *)
(* lookup starts before it.  The two exceptions are those of the property. *)
THEOREM ReceiptsTellSuccess == Spec => []ExecutedReportedSuccessful
  <1>1. NonceInv /\ LookupInv => ExecutedReportedSuccessful
    <2> SUFFICES ASSUME NonceInv, LookupInv, NEW c \in Calls, NEW i \in DOMAIN events,
                        events[i].id = RequestId(c, call[c].url), events[i].kind = "relayed"
                 PROVE  \/ Receipt(c) = "success"
                        \/ /\ Receipt(c) = "error"
                           /\ \E j \in DOMAIN events :
                                 events[j].id = events[i].id /\ events[j].kind = "undone"
                        \/ ~IsRemembered(c) /\ events[i].block < now - BlocksForLookup
      BY DEF ExecutedReportedSuccessful
    <2>1. CASE IsRemembered(c) \/ events[i].block >= now - BlocksForLookup
      BY <2>1, ReceiptOfExecuted
    <2>2. events[i].block \in Int /\ now - BlocksForLookup \in Int
      BY ClientAssumption DEF LookupInv, ClientAssumption
    <2> QED BY <2>1, <2>2
  <1> QED BY <1>1, InitNonceInv, NextNonceInv, InitSelection, NextSelection,
             InitLookup, NextLookup, PTL DEF Spec
=============================================================================
