------------------------- MODULE RelayServerProofs -------------------------
(***************************************************************************)
(* Proofs about RelayServer for any configuration, any number of requests  *)
(* and any bound of the model, and about the ReputationManager it owns.    *)
(***************************************************************************)
EXTENDS RelayServer, ReputationManager, InductionLemmas, TLAPS

AlertShape ==
    /\ DOMAIN server = DOMAIN Started
    /\ DOMAIN pass = DOMAIN IdlePass
    /\ server.alerted \in BOOLEAN
    /\ server.alertAge \in 0..MaxAlertAge
    /\ handled \in 0..MaxAlertAge
    /\ rejections \subseteq 0..MaxEventAge
    /\ pass.behind \in Nat /\ lag \in Nat

(* The newest rejection handled is still in sight of the events, or too    *)
(* old for them.                                                           *)
HandledInSight ==
    handled = MaxAlertAge \/ handled > MaxEventAge \/ handled \in rejections

(* The alert never counts from before the newest rejection handled.        *)
AlertInv ==
    /\ AlertShape /\ HandledInSight
    /\ server.alertAge <= handled
    /\ AlertHolds

LEMMA Bounds ==
    /\ AlertedDelay \in Nat /\ RescanDepth \in Nat
    /\ MaxAlertAge \in Nat /\ MaxAlertAge > AlertedDelay
    /\ MaxEventAge \in Nat
  BY ServerAssumption DEF ServerAssumption, MaxAlertAge, MaxEventAge

LEMMA StartedShape ==
    /\ DOMAIN Started = {"ready", "alerted", "alertAge", "refreshAge", "checkBalances",
                         "worker", "manager"}
    /\ Started.alerted \in BOOLEAN /\ Started.alertAge = MaxAlertAge
    /\ DOMAIN IdlePass = {"pc", "behind"} /\ IdlePass.behind = 0
  BY DEF Started, IdlePass

(* A process that knows of no rejection                                    *)
LEMMA NothingHandled ==
    ASSUME server = Started, pass = IdlePass, handled = MaxAlertAge, lag = RescanDepth,
           rejections \subseteq 0..MaxEventAge
    PROVE  AlertInv
  <1>1. AlertShape
    BY Bounds, StartedShape DEF AlertShape
  <1>2. HandledInSight /\ server.alertAge <= handled
    BY Bounds, StartedShape DEF HandledInSight
  <1>3. AlertHolds
    BY Bounds DEF AlertHolds
  <1> QED BY <1>1, <1>2, <1>3 DEF AlertInv

LEMMA InitAlertInv == Init => AlertInv
  BY NothingHandled, Bounds DEF Init

(* Steps that leave the alert, the events and their ages alone             *)
LEMMA AlertUntouched ==
    ASSUME AlertInv,
           DOMAIN server' = DOMAIN server, DOMAIN pass' = DOMAIN IdlePass,
           server'.alerted = server.alerted, server'.alertAge = server.alertAge,
           UNCHANGED <<handled, rejections>>, pass'.behind \in Nat, lag' \in Nat
    PROVE  AlertInv'
  BY DEF AlertInv, AlertShape, HandledInSight, AlertHolds

(* A block ages the alert and the rejections together.                     *)
LEMMA AgeAlertInv ==
    ASSUME AlertInv, NEW makesRoom \in BOOLEAN, AgeAll(makesRoom),
           rejections' \in {OlderRejections, OlderRejections \union {0}}
    PROVE  AlertInv'
  <1> USE Bounds
  <1>1. /\ DOMAIN server' = DOMAIN Started /\ DOMAIN pass' = DOMAIN IdlePass
        /\ server'.alerted = server.alerted
        /\ server'.alertAge = Older(server.alertAge, MaxAlertAge)
        /\ handled' = Older(handled, MaxAlertAge)
        /\ pass'.behind \in Nat /\ lag' \in Nat
    <2>1. /\ server' = [server EXCEPT !.alertAge = Older(server.alertAge, MaxAlertAge),
                                      !.refreshAge = Older(server.refreshAge, RefreshTimeout)]
          /\ pass' = [pass EXCEPT !.behind = IF pass.pc = "idle" THEN 0
                                             ELSE pass.behind + 1]
          /\ handled' = Older(handled, MaxAlertAge) /\ lag' = lag + 1
      BY DEF AgeAll
    <2> QED BY <2>1, StartedShape DEF AlertInv, AlertShape
  <1>2. AlertShape'
    <2>1. \A age \in 0..MaxAlertAge : Older(age, MaxAlertAge) \in 0..MaxAlertAge
      BY DEF Older, Smaller
    <2>2. rejections' \subseteq 0..MaxEventAge
      BY DEF OlderRejections
    <2> QED BY <1>1, <2>1, <2>2 DEF AlertInv, AlertShape
  <1>3. HandledInSight'
    <2>1. CASE handled \in rejections /\ handled + 1 <= MaxEventAge
      <3>1. handled + 1 \in rejections'
        BY <2>1 DEF OlderRejections, AlertInv, AlertShape
      <3> QED BY <1>1, <3>1 DEF HandledInSight, Older, Smaller, AlertInv, AlertShape
    <2>2. CASE handled = MaxAlertAge \/ handled + 1 > MaxEventAge
      BY <1>1, <2>2 DEF HandledInSight, Older, Smaller, AlertInv, AlertShape
    <2> QED BY <2>1, <2>2 DEF AlertInv, AlertShape, HandledInSight
  <1>4. server'.alertAge <= handled' /\ AlertHolds'
    BY <1>1 DEF AlertInv, AlertShape, AlertHolds, Older, Smaller
  <1> QED BY <1>2, <1>3, <1>4 DEF AlertInv

LEMMA ChainAlertInv == AlertInv /\ (NextBlock \/ PaymasterChanges) => AlertInv'
  <1> SUFFICES ASSUME AlertInv, NextBlock \/ PaymasterChanges PROVE AlertInv'
    OBVIOUS
  <1>1. CASE EmptyBlock
    BY <1>1, AgeAlertInv DEF EmptyBlock
  <1>2. CASE MineManager
    BY <1>2, AgeAlertInv DEF MineManager
  <1>3. CASE MineRelayCall
    <2>1. rejections' \in {OlderRejections, OlderRejections \union {0}}
      BY <1>3 DEF MineRelayCall
    <2> QED BY <1>3, <2>1, AgeAlertInv DEF MineRelayCall
  <1>4. CASE PaymasterChanges
    BY <1>4, AlertUntouched DEF PaymasterChanges, AlertInv, AlertShape
  <1> QED BY <1>1, <1>2, <1>3, <1>4 DEF NextBlock

LEMMA ReplenishKeepsAlert ==
    ASSUME AlertInv, NEW a \in Actors, NEW ready, Replenish(a, ready)
    PROVE  /\ DOMAIN server' = DOMAIN server
           /\ server'.alerted = server.alerted /\ server'.alertAge = server.alertAge
  BY StartedShape DEF Replenish, AlertInv, AlertShape

LEMMA RequestAlertInv ==
    ASSUME AlertInv, NEW r \in Requests, Request(r) \/ RequestStep(r) \/ RequestThrows(r)
    PROVE  AlertInv'
  <1>1. r \in Actors
    BY DEF Actors
  <1>2. UNCHANGED <<handled, rejections, pass, lag>>
    BY DEF Request, RequestStep, ViewCall, SendRelayCall, RequestDecides,
           RequestReplenishes, RequestThrows
  <1>3. /\ DOMAIN server' = DOMAIN server
        /\ server'.alerted = server.alerted /\ server'.alertAge = server.alertAge
    <2>1. CASE UNCHANGED server
      BY <2>1
    <2>2. CASE RequestReplenishes(r)
      BY <1>1, <2>2, ReplenishKeepsAlert DEF RequestReplenishes
    <2>3. CASE server' = [server EXCEPT !.checkBalances = TRUE]
      BY <2>3, StartedShape DEF AlertInv, AlertShape
    <2> QED BY <2>1, <2>2, <2>3 DEF Request, RequestStep, ViewCall, SendRelayCall,
            RequestDecides, RequestThrows
  <1> QED BY <1>2, <1>3, AlertUntouched DEF AlertInv, AlertShape

----------------------------------------------------------------------------
(* The pass of the worker                                                  *)

(* The newest event of a scan is at most as old as any handled before.     *)
LEMMA HandledAlertInv ==
    ASSUME AlertInv, HandlePastHubEvents(EventsSinceLastScan), UNCHANGED rejections,
           DOMAIN pass' = DOMAIN IdlePass, pass'.behind \in Nat, lag' \in Nat
    PROVE  AlertInv'
  <1>1. CASE UNCHANGED <<server, handled>>
    BY <1>1, AlertUntouched
  <1>2. ASSUME NEW newest \in EventsSinceLastScan,
               \A e \in EventsSinceLastScan : newest <= e,
               server' = AlertedBy(newest), handled' = Smaller(handled, newest)
        PROVE  AlertInv'
    <2> USE Bounds
    <2>1. newest \in rejections /\ newest \in 0..MaxEventAge /\ newest < lag
      BY DEF EventsSinceLastScan, AlertInv, AlertShape
    <2>2. handled = MaxAlertAge \/ newest <= handled
      <3>1. CASE handled \in rejections /\ handled < lag
        BY <1>2, <3>1 DEF EventsSinceLastScan
      <3> QED BY <2>1, <3>1 DEF AlertInv, AlertShape, HandledInSight
    <2>3. /\ DOMAIN server' = DOMAIN Started /\ server'.alerted = TRUE
          /\ server'.alertAge = Smaller(newest, MaxAlertAge)
      BY <1>2, StartedShape DEF AlertedBy, AlertInv, AlertShape
    <2>4. server'.alertAge = handled' /\ handled' \in 0..MaxAlertAge
      BY <1>2, <2>1, <2>2, <2>3 DEF Smaller, AlertInv, AlertShape
    <2>5. HandledInSight'
      BY <1>2, <2>1, <2>2 DEF Smaller, HandledInSight, AlertInv, AlertShape
    <2>6. AlertHolds'
      BY <2>3 DEF AlertHolds
    <2>7. server'.alerted \in BOOLEAN
      BY <2>3
    <2>8. AlertShape'
      BY <2>3, <2>4, <2>7 DEF AlertInv, AlertShape
    <2> QED BY <2>4, <2>5, <2>6, <2>8 DEF AlertInv
  <1> QED BY <1>1, <1>2 DEF HandlePastHubEvents

(* A pass that ends early keeps an alert that may have too old a time, but *)
(* then nothing counts as handled.                                         *)
LEMMA ThrownAlertInv == AlertInv /\ HandleEventsThrows => AlertInv'
  <1> SUFFICES ASSUME AlertInv, HandleEventsThrows PROVE AlertInv'
    OBVIOUS
  <1> USE Bounds, StartedShape
  <1>1. /\ handled' = MaxAlertAge /\ UNCHANGED rejections
        /\ pass' = IdlePass /\ lag' = pass.behind
    BY DEF HandleEventsThrows
  <1> DEFINE Raised == /\ DOMAIN server' = DOMAIN Started /\ server'.alerted = TRUE
                       /\ server'.alertAge \in 0..MaxAlertAge
  <1>2. Raised
    <2>1. CASE server' = [server EXCEPT !.alerted = TRUE, !.ready = FALSE]
      BY <2>1 DEF AlertInv, AlertShape
    <2>2. ASSUME NEW last \in EventsSinceLastScan,
                 server' = [AlertedBy(last) EXCEPT !.ready = FALSE]
          PROVE  Raised
      <3>1. last \in 0..MaxEventAge
        BY DEF EventsSinceLastScan, AlertInv, AlertShape
      <3>2. /\ DOMAIN AlertedBy(last) = DOMAIN Started
            /\ AlertedBy(last).alerted = TRUE
            /\ AlertedBy(last).alertAge = Smaller(last, MaxAlertAge)
        BY DEF AlertedBy, AlertInv, AlertShape
      <3>3. /\ DOMAIN server' = DOMAIN Started
            /\ server'.alerted = AlertedBy(last).alerted
            /\ server'.alertAge = AlertedBy(last).alertAge
        BY <2>2, <3>2
      <3> QED BY <3>1, <3>2, <3>3 DEF Smaller
    <2> QED BY <2>1, <2>2 DEF HandleEventsThrows
  <1>3. AlertHolds'
    BY <1>2 DEF AlertHolds
  <1>4. server'.alerted \in BOOLEAN
    BY <1>2
  <1>5. AlertShape'
    BY <1>1, <1>2, <1>4 DEF AlertInv, AlertShape
  <1>6. HandledInSight' /\ server'.alertAge <= handled'
    BY <1>1, <1>2 DEF HandledInSight
  <1> QED BY <1>3, <1>5, <1>6 DEF AlertInv

LEMMA RefreshedKeepsAlert ==
    AlertInv => /\ DOMAIN Refreshed = DOMAIN Started
                /\ Refreshed.alerted = server.alerted
                /\ Refreshed.alertAge = server.alertAge
  BY StartedShape DEF Refreshed, AlertInv, AlertShape

(* An alert that is over is over for the newest rejection handled too.     *)
LEMMA FinishAlertInv == AlertInv /\ FinishPass => AlertInv'
  <1> SUFFICES ASSUME AlertInv, FinishPass PROVE AlertInv'
    OBVIOUS
  <1> USE Bounds, StartedShape
  <1>1. /\ server' = [Refreshed EXCEPT !.ready = TRUE,
                                       !.alerted = Refreshed.alerted /\ ~AlertOver]
        /\ pass' = IdlePass /\ UNCHANGED <<handled, rejections, lag>>
    BY DEF FinishPass
  <1>2. /\ DOMAIN server' = DOMAIN Started
        /\ server'.alerted = (server.alerted /\ ~AlertOver)
        /\ server'.alertAge = server.alertAge
    <2>1. /\ DOMAIN server' = DOMAIN Refreshed
          /\ server'.alerted = (Refreshed.alerted /\ ~AlertOver)
          /\ server'.alertAge = Refreshed.alertAge
      BY <1>1, RefreshedKeepsAlert
    <2> QED BY <2>1, RefreshedKeepsAlert
  <1>3. AlertOver => handled > AlertedDelay
    BY DEF AlertOver, AlertInv, AlertShape
  <1>4. AlertHolds'
    BY <1>1, <1>2, <1>3 DEF AlertHolds, AlertInv
  <1>5. server'.alerted \in BOOLEAN
    BY <1>2
  <1> QED BY <1>1, <1>2, <1>4, <1>5 DEF AlertInv, AlertShape, HandledInSight

LEMMA PassAlertInv ==
    AlertInv /\ (PassStep \/ FindUnregistered \/ PassThrows \/ Restart) => AlertInv'
  <1> SUFFICES ASSUME AlertInv, PassStep \/ FindUnregistered \/ PassThrows \/ Restart
               PROVE  AlertInv'
    OBVIOUS
  <1> USE StartedShape
  <1>1. CASE StartPass
    <2>1. DOMAIN server' = DOMAIN server /\ server'.alerted = server.alerted
          /\ server'.alertAge = server.alertAge
      BY <1>1 DEF StartPass, AlertInv, AlertShape
    <2>2. DOMAIN pass' = DOMAIN IdlePass /\ pass'.behind = 0
      BY <1>1 DEF StartPass
    <2>3. UNCHANGED <<handled, rejections, lag>>
      BY <1>1 DEF StartPass
    <2> QED BY <2>1, <2>2, <2>3, AlertUntouched DEF AlertInv, AlertShape
  <1>2. CASE CheckBalances
    <2>1. DOMAIN server' = DOMAIN server /\ server'.alerted = server.alerted
          /\ server'.alertAge = server.alertAge
      BY <1>2, RefreshedKeepsAlert DEF CheckBalances, AlertInv, AlertShape
    <2>2. DOMAIN pass' = DOMAIN IdlePass /\ pass'.behind \in Nat
      BY <1>2 DEF CheckBalances, AlertInv, AlertShape
    <2>3. UNCHANGED <<handled, rejections, lag>>
      BY <1>2 DEF CheckBalances
    <2> QED BY <2>1, <2>2, <2>3, AlertUntouched DEF AlertInv, AlertShape
  <1>3. CASE HandleChanges
    <2>1. /\ DOMAIN pass' = DOMAIN IdlePass /\ pass'.behind \in Nat /\ lag' \in Nat
          /\ HandlePastHubEvents(EventsSinceLastScan) /\ UNCHANGED rejections
      BY <1>3 DEF HandleChanges, AlertInv, AlertShape
    <2> QED BY <2>1, HandledAlertInv
  <1>4. CASE PassDecides
    <2>1. DOMAIN pass' = DOMAIN IdlePass /\ pass'.behind \in Nat
      BY <1>4 DEF PassDecides, AlertInv, AlertShape
    <2> QED BY <1>4, <2>1, AlertUntouched DEF PassDecides, AlertInv, AlertShape
  <1>5. CASE PassReplenishes
    <2>1. Worker \in Actors
      BY DEF Actors
    <2>2. DOMAIN server' = DOMAIN server /\ server'.alerted = server.alerted
          /\ server'.alertAge = server.alertAge
      BY <1>5, <2>1, ReplenishKeepsAlert DEF PassReplenishes
    <2>3. DOMAIN pass' = DOMAIN IdlePass /\ pass'.behind \in Nat
      BY <1>5 DEF PassReplenishes, AlertInv, AlertShape
    <2> QED BY <1>5, <2>2, <2>3, AlertUntouched DEF PassReplenishes, AlertInv, AlertShape
  <1>6. CASE FinishPass
    BY <1>6, FinishAlertInv
  <1>7. CASE FindUnregistered
    <2>1. DOMAIN server' = DOMAIN server /\ server'.alerted = server.alerted
          /\ server'.alertAge = server.alertAge
      BY <1>7 DEF FindUnregistered, AlertInv, AlertShape
    <2> QED BY <1>7, <2>1, AlertUntouched DEF FindUnregistered, AlertInv, AlertShape
  <1>8. CASE PassThrows
    <2>1. DOMAIN server' = DOMAIN server /\ server'.alerted = server.alerted
          /\ server'.alertAge = server.alertAge
      BY <1>8 DEF PassThrows, AlertInv, AlertShape
    <2> QED BY <1>8, <2>1, AlertUntouched DEF PassThrows, AlertInv, AlertShape
  <1>9. CASE Restart
    <2>1. /\ server' = Started /\ pass' = IdlePass /\ handled' = MaxAlertAge
          /\ lag' = RescanDepth /\ UNCHANGED rejections
      BY <1>9 DEF Restart
    <2>2. AlertShape'
      BY <2>1, Bounds DEF AlertInv, AlertShape
    <2>3. HandledInSight' /\ server'.alertAge <= handled'
      BY <2>1, Bounds DEF HandledInSight
    <2>4. AlertHolds'
      BY <2>1, Bounds DEF AlertHolds
    <2> QED BY <2>2, <2>3, <2>4 DEF AlertInv
  <1> QED BY <1>1, <1>2, <1>3, <1>4, <1>5, <1>6, <1>7, <1>8, <1>9 DEF PassStep

LEMMA NextAlertInv == AlertInv /\ [Next]_vars => AlertInv'
  <1> SUFFICES ASSUME AlertInv, [Next]_vars PROVE AlertInv'
    OBVIOUS
  <1>1. CASE UNCHANGED vars
    BY <1>1, AlertUntouched DEF vars, AlertInv, AlertShape
  <1> QED BY <1>1, ChainAlertInv, RequestAlertInv, PassAlertInv, ThrownAlertInv DEF Next

(* The alert outlasts alertedDelaySeconds after every rejection handled,   *)
(* for any delay, any overlap of scans, any number of exceptions and       *)
(* restarts: _handleTransactionRejectedByPaymasterEvent, _handleChanges.   *)
THEOREM AlertLasts == Spec => []AlertHolds
  <1>1. AlertInv => AlertHolds
    BY DEF AlertInv
  <1> QED BY <1>1, InitAlertInv, NextAlertInv, PTL DEF Spec

----------------------------------------------------------------------------
(* One refill at a time                                                    *)

IsList(s) == Len(s) \in Nat /\ s = [i \in 1..Len(s) |-> s[i]]
NoTransfer(s) == \A i \in DOMAIN s : s[i].action # "VALUE_TRANSFER"
OneTransfer(s) ==
    \A i, j \in DOMAIN s :
        s[i].action = "VALUE_TRANSFER" /\ s[j].action = "VALUE_TRANSFER" => i = j

(* As long as no two runs of replenishServer overlap, a refill is decided  *)
(* while none is pending, and none gets pending until it is sent.          *)
RefillInv ==
    /\ IsList(outbox) /\ DOMAIN plan = Actors /\ overlap \in BOOLEAN
    /\ ~overlap =>
          /\ \A a, b \in Actors : a # b => plan[a] = NoPlan \/ plan[b] = NoPlan
          /\ \A a \in Actors : plan[a].refill > 0 => NoTransfer(outbox)
          /\ OneTransfer(outbox)

LEMMA NoPlanFields == NoPlan.refill = 0 /\ NoPlan.withdraw = 0 /\ ~(NoPlan.refill > 0)
  BY DEF NoPlan

LEMMA InitRefillInv == Init => RefillInv
  <1> SUFFICES ASSUME Init PROVE RefillInv
    OBVIOUS
  <1>1. outbox = <<>> /\ IsList(outbox) /\ DOMAIN outbox = {}
    BY DEF Init, IsList
  <1>2. DOMAIN plan = Actors /\ \A a \in Actors : plan[a] = NoPlan
    BY DEF Init
  <1> QED BY <1>1, <1>2, NoPlanFields DEF RefillInv, NoTransfer, OneTransfer, Init

LEMMA Joined ==
    ASSUME NEW u, IsList(u), NEW v, IsList(v)
    PROVE  /\ IsList(u \o v)
           /\ NoTransfer(u) /\ NoTransfer(v) => NoTransfer(u \o v)
           /\ NoTransfer(u) /\ OneTransfer(v) => OneTransfer(u \o v)
           /\ OneTransfer(u) /\ NoTransfer(v) => OneTransfer(u \o v)
  <1> DEFINE m == Len(u) n == Len(v) w == u \o v
  <1>1. /\ m \in Nat /\ n \in Nat /\ DOMAIN u = 1..m /\ DOMAIN v = 1..n
        /\ Len(w) = m + n /\ w = [i \in 1..(m + n) |-> w[i]] /\ DOMAIN w = 1..(m + n)
        /\ \A i \in 1..m : w[i] = u[i]
        /\ \A i \in (m + 1)..(m + n) : w[i] = v[i - m]
    <2> DEFINE S == {u[i] : i \in 1..m} \union {v[i] : i \in 1..n}
    <2>1. u \in Seq(S) /\ v \in Seq(S)
      BY DEF IsList
    <2> HIDE DEF S
    <2>2. /\ w \in Seq(S) /\ Len(w) = m + n /\ m \in Nat /\ n \in Nat
          /\ \A i \in 1..m : w[i] = u[i]
          /\ \A i \in (m + 1)..(m + n) : w[i] = v[i - m]
      BY <2>1, SeqAppended
    <2> HIDE DEF w
    <2>3. DOMAIN u = 1..m /\ DOMAIN v = 1..n
      BY <2>1
    <2> HIDE DEF m, n
    <2>4. w = [i \in 1..(m + n) |-> w[i]] /\ DOMAIN w = 1..(m + n)
      BY <2>2
    <2> QED BY <2>2, <2>3, <2>4
  <1> HIDE DEF m, n, w
  <1>2. \A i \in DOMAIN w : i \in DOMAIN u \/ (i \in (m + 1)..(m + n) /\ i - m \in DOMAIN v)
    BY <1>1
  <1>3. IsList(w)
    BY <1>1 DEF IsList
  <1>4. NoTransfer(u) /\ NoTransfer(v) => NoTransfer(w)
    BY <1>1, <1>2 DEF NoTransfer
  <1>5. NoTransfer(u) /\ OneTransfer(v) => OneTransfer(w)
    <2> SUFFICES ASSUME NoTransfer(u), OneTransfer(v), NEW i \in DOMAIN w, NEW j \in DOMAIN w,
                        w[i].action = "VALUE_TRANSFER", w[j].action = "VALUE_TRANSFER"
                 PROVE  i = j
      BY DEF OneTransfer
    <2>1. /\ i \in (m + 1)..(m + n) /\ i - m \in DOMAIN v /\ w[i] = v[i - m]
          /\ j \in (m + 1)..(m + n) /\ j - m \in DOMAIN v /\ w[j] = v[j - m]
      BY <1>1, <1>2 DEF NoTransfer
    <2>2. i - m = j - m
      BY <2>1 DEF OneTransfer
    <2> QED BY <1>1, <2>1, <2>2
  <1>6. OneTransfer(u) /\ NoTransfer(v) => OneTransfer(w)
    <2> SUFFICES ASSUME OneTransfer(u), NoTransfer(v), NEW i \in DOMAIN w, NEW j \in DOMAIN w,
                        w[i].action = "VALUE_TRANSFER", w[j].action = "VALUE_TRANSFER"
                 PROVE  i = j
      BY DEF OneTransfer
    <2>1. /\ i \in DOMAIN u /\ w[i] = u[i]
          /\ j \in DOMAIN u /\ w[j] = u[j]
      BY <1>1, <1>2 DEF NoTransfer
    <2> QED BY <2>1 DEF OneTransfer
  <1> QED BY <1>3, <1>4, <1>5, <1>6 DEF w

LEMMA SameList ==
    ASSUME NEW S, NEW u \in Seq(S), NEW v \in Seq(S), Len(u) = Len(v),
           \A i \in 1..Len(u) : u[i] = v[i]
    PROVE  u = v
  OBVIOUS

LEMMA Prefix ==
    ASSUME NEW S, NEW u \in Seq(S), NEW n \in 0..Len(u)
    PROVE  /\ SubSeq(u, 1, n) \in Seq(S) /\ Len(SubSeq(u, 1, n)) = n
           /\ \A i \in 1..n : SubSeq(u, 1, n)[i] = u[i]
  <1>1. n \in Nat /\ Len(u) \in Nat
    OBVIOUS
  <1>2. SubSeq(u, 1, n) = [i \in 1..n |-> u[i]]
    BY <1>1
  <1> QED BY <1>1, <1>2

LEMMA ShortLists ==
    ASSUME NEW x, NEW y
    PROVE  /\ <<>> \o <<>> = <<>> /\ <<x>> \o <<>> = <<x>> /\ <<>> \o <<y>> = <<y>>
           /\ <<x>> \o <<y>> = <<x, y>>
           /\ SubSeq(<<>>, 1, 0) = <<>> /\ SubSeq(<<x>>, 1, 0) = <<>>
           /\ SubSeq(<<x>>, 1, 1) = <<x>> /\ SubSeq(<<x, y>>, 1, 0) = <<>>
           /\ SubSeq(<<x, y>>, 1, 1) = <<x>> /\ SubSeq(<<x, y>>, 1, 2) = <<x, y>>
           /\ Len(<<>>) = 0 /\ Len(<<x>>) = 1 /\ Len(<<x, y>>) = 2
  <1> DEFINE S == {x, y}
  <1>1. <<>> \in Seq(S) /\ <<x>> \in Seq(S) /\ <<y>> \in Seq(S) /\ <<x, y>> \in Seq(S)
    OBVIOUS
  <1>2. <<>> \o <<>> = <<>> /\ <<x>> \o <<>> = <<x>> /\ <<>> \o <<y>> = <<y>>
    BY <1>1
  <1>3. <<x>> \o <<y>> = <<x, y>>
    <2> DEFINE w == <<x>> \o <<y>> v == <<x, y>>
    <2>1. w \in Seq(S) /\ Len(w) = 2 /\ w[1] = x /\ w[2] = y
      BY <1>1
    <2>2. v \in Seq(S) /\ Len(v) = 2 /\ v[1] = x /\ v[2] = y
      BY <1>1
    <2> HIDE DEF w, v, S
    <2>3. \A i \in 1..Len(w) : w[i] = v[i]
      BY <2>1, <2>2
    <2>4. w = v
      BY <2>1, <2>2, <2>3, SameList
    <2> QED BY <2>4 DEF w, v
  <1>4. /\ SubSeq(<<>>, 1, 0) = <<>> /\ SubSeq(<<x>>, 1, 0) = <<>>
        /\ SubSeq(<<x, y>>, 1, 0) = <<>>
    OBVIOUS
  <1>5. ASSUME NEW u \in Seq(S), Len(u) \in {1, 2}, u[1] = x
        PROVE  SubSeq(u, 1, 1) = <<x>>
    <2> DEFINE w == SubSeq(u, 1, 1)
    <2>0. 1 \in 0..Len(u)
      BY <1>5
    <2>1. w \in Seq(S) /\ Len(w) = 1 /\ w[1] = x
      <3> HIDE DEF S
      <3> QED BY <1>5, <2>0, Prefix
    <2> DEFINE v == <<x>>
    <2>2. v \in Seq(S) /\ Len(v) = 1 /\ v[1] = x
      OBVIOUS
    <2> HIDE DEF w, v, S
    <2>3. \A i \in 1..Len(w) : w[i] = v[i]
      BY <2>1, <2>2
    <2>4. w = v
      BY <2>1, <2>2, <2>3, SameList
    <2> QED BY <2>4 DEF w, v
  <1>6. SubSeq(<<x, y>>, 1, 2) = <<x, y>>
    <2> DEFINE v == <<x, y>> w == SubSeq(v, 1, 2)
    <2>1. v \in Seq(S) /\ Len(v) = 2
      BY <1>1
    <2> HIDE DEF v, S
    <2>2. w \in Seq(S) /\ Len(w) = 2 /\ \A i \in 1..2 : w[i] = v[i]
      <3>1. 2 \in 0..Len(v)
        BY <2>1
      <3> QED BY <2>1, <3>1, Prefix
    <2> HIDE DEF w
    <2>3. w = v
      BY <2>1, <2>2, SameList
    <2> QED BY <2>3 DEF w, v
  <1>7. Len(<<>>) = 0 /\ Len(<<x>>) = 1 /\ Len(<<x, y>>) = 2
    OBVIOUS
  <1>8. SubSeq(<<x>>, 1, 1) = <<x>> /\ SubSeq(<<x, y>>, 1, 1) = <<x>>
    BY <1>1, <1>5
  <1> QED BY <1>2, <1>3, <1>4, <1>6, <1>7, <1>8

(* Both sends of a run, up to the first that throws                        *)
LEMMA SentShape ==
    ASSUME NEW a
    PROVE  LET w == Withdrawal("manager", plan[a].withdraw)
               t == Transfer(plan[a].refill)
           IN  \/ Sent(a) = <<>>
               \/ plan[a].withdraw > 0 /\ Sent(a) = <<w>>
               \/ plan[a].refill > 0 /\ (Sent(a) = <<t>> \/ Sent(a) = <<w, t>>)
  <1> DEFINE w == Withdrawal("manager", plan[a].withdraw)
             t == Transfer(plan[a].refill)
             o == Outgoing(a)
             P(n) == /\ \A i \in 1..n : SendSucceeds(o[i])
                     /\ n < Len(o) => ~SendSucceeds(o[n + 1])
             k == CHOOSE n \in 0..Len(o) : P(n)
  <1>1. \/ o = <<>>
        \/ plan[a].withdraw > 0 /\ o = <<w>>
        \/ plan[a].refill > 0 /\ o = <<t>>
        \/ plan[a].withdraw > 0 /\ plan[a].refill > 0 /\ o = <<w, t>>
    <2> DEFINE first == IF plan[a].withdraw > 0 THEN <<w>> ELSE <<>>
               second == IF plan[a].refill > 0 /\ plan[a].refill < Managed(a) - ManagerMin
                         THEN <<t>> ELSE <<>>
    <2>1. o = first \o second
      BY DEF Outgoing
    <2>2. \/ plan[a].withdraw > 0 /\ first = <<w>>
          \/ first = <<>>
      OBVIOUS
    <2>3. \/ plan[a].refill > 0 /\ second = <<t>>
          \/ second = <<>>
      OBVIOUS
    <2> HIDE DEF o, first, second, w, t
    <2> QED BY <2>1, <2>2, <2>3, ShortLists, Zenon
  <1>2. Sent(a) = SubSeq(o, 1, k)
    BY Zenon DEF Sent
  <1> HIDE DEF o, w, t
  <1>3. Len(o) \in {0, 1, 2}
    BY <1>1
  <1>4. \E n \in 0..Len(o) : P(n)
    <2>1. CASE Len(o) >= 1 /\ ~SendSucceeds(o[1])
      <3>1. 0 \in 0..Len(o) /\ P(0)
        BY <1>3, <2>1
      <3> QED BY <3>1
    <2>2. CASE Len(o) = 2 /\ SendSucceeds(o[1]) /\ ~SendSucceeds(o[2])
      <3>1. 1 \in 0..Len(o) /\ P(1)
        BY <1>3, <2>2
      <3> QED BY <3>1
    <2>3. CASE \A i \in 1..Len(o) : SendSucceeds(o[i])
      <3>1. Len(o) \in 0..Len(o) /\ P(Len(o))
        BY <1>3, <2>3
      <3> QED BY <3>1
    <2> QED BY <1>3, <2>1, <2>2, <2>3
  <1>5. k \in 0..Len(o)
    <2> HIDE DEF P
    <2> QED BY <1>4
  <1> HIDE DEF k
  <1>6. k \in {0, 1, 2}
    BY <1>3, <1>5
  <1>7. \/ Sent(a) = <<>>
        \/ plan[a].withdraw > 0 /\ Sent(a) = <<w>>
        \/ plan[a].refill > 0 /\ (Sent(a) = <<t>> \/ Sent(a) = <<w, t>>)
    <2>1. CASE o = <<>>
      <3>1. Len(o) = 0
        BY <2>1, ShortLists
      <3>2. k = 0
        BY <1>5, <1>6, <3>1
      <3> QED BY <1>2, <2>1, <3>2, ShortLists, Zenon
    <2>2. ASSUME NEW x, o = <<x>> PROVE Sent(a) = <<>> \/ Sent(a) = <<x>>
      <3>1. Len(o) = 1
        BY <2>2, ShortLists
      <3>2. k = 0 \/ k = 1
        BY <1>5, <1>6, <3>1
      <3> QED BY <1>2, <2>2, <3>2, ShortLists, Zenon
    <2>3. CASE plan[a].withdraw > 0 /\ plan[a].refill > 0 /\ o = <<w, t>>
      <3>1. k = 0 \/ k = 1 \/ k = 2
        BY <1>6
      <3> QED BY <1>2, <2>3, <3>1, ShortLists, Zenon
    <2> QED BY <1>1, <2>1, <2>2, <2>3, Zenon
  <1> QED BY <1>7 DEF w, t

LEMMA SingleLists ==
    /\ IsList(<<>>) /\ NoTransfer(<<>>)
    /\ \A x : /\ IsList(<<x>>) /\ OneTransfer(<<x>>)
              /\ x.action # "VALUE_TRANSFER" => NoTransfer(<<x>>)
    /\ \A x, y : /\ IsList(<<x, y>>)
                 /\ x.action # "VALUE_TRANSFER" => OneTransfer(<<x, y>>)
  BY DEF IsList, NoTransfer, OneTransfer

LEMMA ActionsOfTransactions ==
    \A to, amount : /\ Withdrawal(to, amount).action = "DEPOSIT_WITHDRAWAL"
                    /\ Transfer(amount).action = "VALUE_TRANSFER"
  BY DEF Withdrawal, Transfer

(* Steps that send no transfer and decide nothing                          *)
LEMMA RefillUntouched ==
    ASSUME RefillInv, UNCHANGED overlap, DOMAIN plan' = Actors,
           \A a \in Actors : plan'[a] = plan[a] \/ plan'[a] = NoPlan,
           IsList(outbox'), NoTransfer(outbox) => NoTransfer(outbox'),
           OneTransfer(outbox) => OneTransfer(outbox')
    PROVE  RefillInv'
  BY NoPlanFields DEF RefillInv, NoTransfer, OneTransfer, IsList

LEMMA DecideRefillInv ==
    ASSUME RefillInv, NEW a \in Actors, NEW behind, Decide(a, behind), UNCHANGED outbox
    PROVE  RefillInv'
  <1> DEFINE d == Decision(behind)
  <1>1. plan' = [plan EXCEPT ![a] = IF d.withdraw + d.refill = 0 THEN NoPlan ELSE d]
    BY DEF Decide
  <1>2. d.refill > 0 => NoTransfer(outbox)
    BY DEF Decision, MustReplenishWorker, IsActionPendingOrRecentlyMined, NoTransfer
  <1>3. overlap' = (overlap \/ \E b \in Actors \ {a} : NoPlan \notin {plan[b], plan'[a]})
    BY DEF Decide
  <1> HIDE DEF d
  <1>4. /\ DOMAIN plan' = Actors /\ \A b \in Actors \ {a} : plan'[b] = plan[b]
        /\ plan'[a] = NoPlan \/ plan'[a] = d
    BY <1>1 DEF RefillInv
  <1>5. overlap' \in BOOLEAN /\ (~overlap' => ~overlap)
        /\ (~overlap' => \A b \in Actors \ {a} : plan[b] = NoPlan \/ plan'[a] = NoPlan)
    BY <1>3
  <1> QED BY <1>2, <1>4, <1>5, NoPlanFields DEF RefillInv, NoTransfer, OneTransfer, IsList

LEMMA ReplenishRefillInv ==
    ASSUME RefillInv, NEW a \in Actors, NEW ready, Replenish(a, ready), UNCHANGED overlap
    PROVE  RefillInv'
  <1>1. outbox' = outbox \o Sent(a) /\ plan' = [plan EXCEPT ![a] = NoPlan]
    BY DEF Replenish
  <1>2. /\ DOMAIN plan' = Actors /\ plan'[a] = NoPlan
        /\ \A b \in Actors \ {a} : plan'[b] = plan[b]
    BY <1>1 DEF RefillInv
  <1>3. /\ IsList(Sent(a)) /\ OneTransfer(Sent(a))
        /\ plan[a].refill > 0 \/ NoTransfer(Sent(a))
        /\ plan[a] = NoPlan => Sent(a) = <<>>
    BY SentShape, SingleLists, ActionsOfTransactions, NoPlanFields
       DEF OneTransfer, NoTransfer
  <1>4. IsList(outbox)
    BY DEF RefillInv
  <1>5. /\ IsList(outbox')
        /\ NoTransfer(outbox) /\ NoTransfer(Sent(a)) => NoTransfer(outbox')
        /\ NoTransfer(outbox) /\ OneTransfer(Sent(a)) => OneTransfer(outbox')
        /\ OneTransfer(outbox) /\ NoTransfer(Sent(a)) => OneTransfer(outbox')
    BY <1>1, <1>3, <1>4, Joined
  <1>6. ~overlap => OneTransfer(outbox')
    BY <1>3, <1>5 DEF RefillInv
  <1>7. ASSUME ~overlap, NEW b \in Actors, plan'[b].refill > 0 PROVE NoTransfer(outbox')
    <2>1. b # a /\ plan[b].refill > 0 /\ plan[b] # NoPlan
      BY <1>2, <1>7, NoPlanFields
    <2>2. plan[a] = NoPlan /\ NoTransfer(outbox)
      BY <1>7, <2>1 DEF RefillInv
    <2> QED BY <1>3, <1>5, <2>2, SingleLists
  <1>8. ~overlap => \A b, c \in Actors : b # c => plan'[b] = NoPlan \/ plan'[c] = NoPlan
    BY <1>2 DEF RefillInv
  <1> QED BY <1>2, <1>5, <1>6, <1>7, <1>8 DEF RefillInv, NoTransfer, OneTransfer, IsList

LEMMA MineManagerRefill ==
    ASSUME RefillInv, MineManager PROVE RefillInv'
  <1> DEFINE n == Len(outbox) t == Tail(outbox)
  <1>1. outbox' = t /\ outbox # <<>> /\ UNCHANGED <<overlap, plan>>
    BY DEF MineManager, AgeAll
  <1>2. n \in Nat /\ outbox = [i \in 1..n |-> outbox[i]]
    BY DEF RefillInv, IsList
  <1>3. /\ n >= 1 /\ Len(t) = n - 1 /\ t = [i \in 1..(n - 1) |-> t[i]]
        /\ \A i \in 1..(n - 1) : t[i] = outbox[i + 1]
        /\ DOMAIN outbox = 1..n /\ DOMAIN t = 1..(n - 1)
    <2> DEFINE S == {outbox[i] : i \in 1..n}
    <2>1. outbox \in Seq(S)
      BY <1>2
    <2> HIDE DEF S
    <2>2. /\ t \in Seq(S) /\ Len(t) = n - 1 /\ n \in Nat \ {0}
          /\ \A i \in 1..(n - 1) : t[i] = outbox[i + 1]
      BY <1>1, <2>1, SeqTail
    <2> HIDE DEF t
    <2>3. DOMAIN outbox = 1..n
      BY <2>1
    <2> QED BY <2>2, <2>3
  <1> HIDE DEF n, t
  <1>4. \A i \in DOMAIN t : i + 1 \in DOMAIN outbox /\ t[i] = outbox[i + 1] /\ i \in Int
    <2>1. \A i \in 1..(n - 1) : i + 1 \in 1..n /\ i \in Int
      BY <1>2
    <2> QED BY <1>3, <2>1
  <1>5. IsList(t)
    BY <1>2, <1>3 DEF IsList
  <1>6. NoTransfer(outbox) => NoTransfer(t)
    BY <1>4 DEF NoTransfer
  <1>7. OneTransfer(outbox) => OneTransfer(t)
    <2> SUFFICES ASSUME OneTransfer(outbox), NEW i \in DOMAIN t, NEW j \in DOMAIN t,
                        t[i].action = "VALUE_TRANSFER", t[j].action = "VALUE_TRANSFER"
                 PROVE  i = j
      BY DEF OneTransfer
    <2>1. i + 1 = j + 1
      BY <1>4 DEF OneTransfer
    <2> QED BY <1>4, <2>1
  <1> QED BY <1>1, <1>5, <1>6, <1>7, RefillUntouched DEF RefillInv

LEMMA NextRefillInv == RefillInv /\ [Next]_vars => RefillInv'
  <1> SUFFICES ASSUME RefillInv, [Next]_vars PROVE RefillInv'
    OBVIOUS
  <1>1. IsList(outbox) /\ DOMAIN plan = Actors
    BY DEF RefillInv
  <1>2. ASSUME UNCHANGED <<outbox, overlap>>, DOMAIN plan' = Actors,
               \A a \in Actors : plan'[a] = plan[a] \/ plan'[a] = NoPlan
        PROVE  RefillInv'
    BY <1>1, <1>2, RefillUntouched DEF IsList, NoTransfer, OneTransfer
  <1>3. CASE UNCHANGED vars
    BY <1>1, <1>2, <1>3 DEF vars
  <1>4. CASE EmptyBlock \/ MineRelayCall \/ PaymasterChanges
    BY <1>1, <1>2, <1>4 DEF EmptyBlock, MineRelayCall, PaymasterChanges, AgeAll
  <1>5. CASE MineManager
    BY <1>5, MineManagerRefill
  <1>6. ASSUME NEW r \in Requests, Request(r) \/ RequestStep(r) \/ RequestThrows(r)
        PROVE  RefillInv'
    <2>1. r \in Actors
      BY DEF Actors
    <2>2. CASE Request(r) \/ ViewCall(r) \/ SendRelayCall(r)
      BY <1>1, <1>2, <2>2 DEF Request, ViewCall, SendRelayCall
    <2>3. CASE RequestDecides(r)
      BY <2>1, <2>3, DecideRefillInv DEF RequestDecides
    <2>4. CASE RequestReplenishes(r)
      BY <2>1, <2>4, ReplenishRefillInv DEF RequestReplenishes
    <2>5. CASE RequestThrows(r)
      BY <1>1, <1>2, <2>1, <2>5 DEF RequestThrows
    <2> QED BY <1>6, <2>2, <2>3, <2>4, <2>5 DEF RequestStep
  <1>7. Worker \in Actors
    BY DEF Actors
  <1>8. CASE StartPass
    <2>1. /\ outbox' = outbox \o OwnerWithdrawal /\ UNCHANGED <<plan, overlap>>
      BY <1>8 DEF StartPass
    <2>2. OwnerWithdrawal = <<>> \/ \E amount : OwnerWithdrawal = <<Withdrawal("owner", amount)>>
      BY DEF OwnerWithdrawal
    <2>3. IsList(OwnerWithdrawal) /\ NoTransfer(OwnerWithdrawal)
      BY <2>2, SingleLists, ActionsOfTransactions
    <2>4. /\ IsList(outbox') /\ (NoTransfer(outbox) => NoTransfer(outbox'))
          /\ OneTransfer(outbox) => OneTransfer(outbox')
      BY <1>1, <2>1, <2>3, Joined
    <2> QED BY <1>1, <2>1, <2>4, RefillUntouched
  <1>9. CASE PassDecides
    BY <1>7, <1>9, DecideRefillInv DEF PassDecides
  <1>10. CASE PassReplenishes
    BY <1>7, <1>10, ReplenishRefillInv DEF PassReplenishes
  <1>11. CASE CheckBalances \/ HandleChanges \/ FinishPass \/ FindUnregistered
              \/ HandleEventsThrows
    BY <1>1, <1>2, <1>11 DEF CheckBalances, HandleChanges, FinishPass, FindUnregistered,
                             HandleEventsThrows
  <1>12. CASE PassThrows
    BY <1>1, <1>2, <1>7, <1>12 DEF PassThrows
  <1>13. CASE Restart
    BY <1>1, <1>2, <1>13 DEF Restart
  <1> QED BY <1>3, <1>4, <1>5, <1>6, <1>8, <1>9, <1>10, <1>11, <1>12, <1>13
          DEF Next, NextBlock, PassStep

(* Without two overlapping runs of replenishServer the worker never has    *)
(* two refills under way, whatever exceptions, restarts and blocks come    *)
(* between the decision and the sending (isActionPendingOrRecentlyMined,   *)
(* _replenishWorker).                                                      *)
THEOREM RefillsAreSentOnce == Spec => []NoDoubleRefill
  <1>1. RefillInv => NoDoubleRefill
    <2> SUFFICES ASSUME OneTransfer(outbox)
                 PROVE  Cardinality({i \in DOMAIN outbox : outbox[i].action = "VALUE_TRANSFER"})
                          <= 1
      BY DEF RefillInv, NoDoubleRefill
    <2> QED BY OneAtMost DEF OneTransfer
  <1> QED BY <1>1, InitRefillInv, NextRefillInv, PTL DEF Spec

----------------------------------------------------------------------------
(* Losses.  A verdict that nothing has touched leaves the paymaster enough *)
(* for the calls that come before it.                                      *)
RequestState == [pc : {"unsent", "accepted", "viewed", "plan", "fill", "done"},
                 left : Nat, waited : Nat, clean : BOOLEAN]
NotSent == {"unsent", "accepted", "viewed"}
LiveCalls == {r \in Requests : InFlight(r) /\ ~Expired(r)}
Ahead(i) == {calls[j] : j \in 1..(i - 1)}

CallShape ==
    /\ calls \in Seq(Requests)
    /\ \A i, j \in DOMAIN calls : calls[i] = calls[j] => i = j
    /\ DOMAIN funds = Accounts /\ funds["quota"] \in Nat
    /\ req \in [Requests -> RequestState]
    /\ \A r \in Requests : req[r].pc \in NotSent => ~InFlight(r)
    /\ \A r \in Requests : Serving(r) \/ InFlight(r) => req[r].left = RequestMinValid

LossInv ==
    /\ CallShape
    /\ \A i \in DOMAIN calls :
          req[calls[i]].clean => funds["quota"] > Cardinality(LiveCalls \intersect Ahead(i))
    /\ \A r \in Requests :
          req[r].pc = "viewed" /\ req[r].clean => funds["quota"] > Cardinality(LiveCalls)
    /\ unexplained = FALSE

LEMMA Waits == RequestMinValid \in Nat /\ MaxWait \in Nat /\ MaxWait >= RequestMinValid + 1
  <1>1. /\ RequestMinValid \in Nat /\ RecentBlocks \in Nat /\ MaxLag \in Nat
        /\ MaxTrouble \in Nat
    BY ServerAssumption DEF ServerAssumption
  <1> QED BY <1>1 DEF MaxWait, MaxTxAge, Larger

LEMMA FewRequests ==
    /\ IsFiniteSet(Requests)
    /\ \A S : S \subseteq Requests => IsFiniteSet(S) /\ Cardinality(S) \in Nat
    /\ \A S, T : S \subseteq T /\ T \subseteq Requests => Cardinality(S) <= Cardinality(T)
  <1>1. MaxRequests \in Nat
    BY ServerAssumption DEF ServerAssumption
  <1>2. IsFiniteSet(Requests)
    <2>1. 1 \in Int /\ MaxRequests \in Int
      BY <1>1
    <2> QED BY <2>1, FS_Interval DEF Requests
  <1> QED BY <1>2, FS_Subset, FS_CardinalityType

LEMMA RequestFields ==
    /\ Unsent \in RequestState /\ Unsent.pc = "unsent" /\ ~Unsent.clean
    /\ Done \in RequestState /\ Done.pc = "done" /\ ~Done.clean
  BY DEF Unsent, Done, RequestState

LEMMA InitLossInv == Init => LossInv
  <1> SUFFICES ASSUME Init PROVE LossInv
    OBVIOUS
  <1>1. /\ calls = <<>> /\ calls \in Seq(Requests) /\ DOMAIN calls = {}
        /\ \A r : ~InFlight(r)
    BY DEF Init, InFlight, ToSet
  <1>2. DOMAIN funds = Accounts /\ funds["quota"] \in Nat
    BY ServerAssumption DEF Init, ServerAssumption, Accounts
  <1>3. \A r \in Requests : req[r] = Unsent
    BY DEF Init
  <1>4. req \in [Requests -> RequestState]
    BY RequestFields DEF Init
  <1>5. \A r \in Requests : ~Serving(r) /\ req[r].pc # "viewed"
    BY <1>3, RequestFields DEF Serving
  <1>6. CallShape
    BY <1>1, <1>2, <1>4, <1>5 DEF CallShape
  <1> QED BY <1>1, <1>5, <1>6 DEF LossInv, Init

(* Steps that send no call and mine none                                   *)
LEMMA LossKept ==
    ASSUME LossInv, UNCHANGED <<calls, unexplained>>,
           DOMAIN funds' = Accounts, funds'["quota"] \in Nat,
           req' \in [Requests -> RequestState],
           \A r \in Requests : req'[r].pc \in NotSent => req[r].pc \in NotSent,
           \A r \in Requests : Serving(r)' \/ InFlight(r) => req'[r].left = RequestMinValid,
           \A r \in Requests : InFlight(r) /\ Expired(r) => Expired(r)',
           \A r \in Requests : req'[r].clean => /\ funds'["quota"] = funds["quota"]
                                                /\ InFlight(r) => req[r].clean,
           \A r \in Requests : req'[r].pc = "viewed" /\ req'[r].clean
              => funds["quota"] > Cardinality(LiveCalls)
    PROVE  LossInv'
  <1>1. \A r \in Requests : InFlight(r)' <=> InFlight(r)
    BY DEF InFlight
  <1>2. CallShape'
    BY <1>1 DEF LossInv, CallShape
  <1>3. LiveCalls' \subseteq LiveCalls /\ \A i : Ahead(i)' = Ahead(i)
    BY <1>1 DEF LiveCalls, Ahead
  <1>4. LiveCalls \subseteq Requests
    BY DEF LiveCalls
  <1>5. /\ Cardinality(LiveCalls') <= Cardinality(LiveCalls)
        /\ Cardinality(LiveCalls) \in Nat /\ Cardinality(LiveCalls') \in Nat
    BY <1>3, <1>4, FewRequests
  <1>6. ASSUME NEW i \in DOMAIN calls, req'[calls[i]].clean
        PROVE  funds'["quota"] > Cardinality(LiveCalls' \intersect Ahead(i)')
    <2>1. calls[i] \in Requests /\ InFlight(calls[i])
      BY DEF LossInv, CallShape, InFlight, ToSet
    <2>2. funds'["quota"] = funds["quota"] /\ req[calls[i]].clean
      BY <1>6, <2>1
    <2>3. funds["quota"] > Cardinality(LiveCalls \intersect Ahead(i))
      BY <2>2 DEF LossInv
    <2>4. /\ LiveCalls' \intersect Ahead(i)' \subseteq LiveCalls \intersect Ahead(i)
          /\ LiveCalls \intersect Ahead(i) \subseteq Requests
      BY <1>3, <1>4
    <2>5. /\ Cardinality(LiveCalls' \intersect Ahead(i)')
               <= Cardinality(LiveCalls \intersect Ahead(i))
          /\ Cardinality(LiveCalls \intersect Ahead(i)) \in Nat
          /\ Cardinality(LiveCalls' \intersect Ahead(i)') \in Nat
      BY <2>4, FewRequests
    <2> QED BY <2>2, <2>3, <2>5
  <1>7. ASSUME NEW r \in Requests, req'[r].pc = "viewed", req'[r].clean
        PROVE  funds'["quota"] > Cardinality(LiveCalls')
    <2>1. funds'["quota"] = funds["quota"] /\ funds["quota"] > Cardinality(LiveCalls)
      BY <1>7
    <2> QED BY <1>5, <2>1
  <1> QED BY <1>2, <1>6, <1>7 DEF LossInv

(* Steps that only move requests on, or answer them                        *)
LEMMA MovedOnLoss ==
    ASSUME LossInv, UNCHANGED <<calls, unexplained>>,
           DOMAIN funds' = Accounts, funds'["quota"] = funds["quota"],
           req' = [r \in Requests |-> req'[r]],
           \A r \in Requests :
              \/ req'[r] = req[r]
              \/ ~InFlight(r) /\ req'[r] = Done
              \/ /\ Serving(r)
                 /\ \E to \in {"plan", "fill", "done"} : req'[r] = [req[r] EXCEPT !.pc = to]
    PROVE  LossInv'
  <1>1. req \in [Requests -> RequestState] /\ funds["quota"] \in Nat
    BY DEF LossInv, CallShape
  <1> DEFINE Kept(r) == /\ req'[r] \in RequestState
                        /\ req'[r].pc \in NotSent => req[r].pc \in NotSent
                        /\ Serving(r)' \/ InFlight(r) => req'[r].left = RequestMinValid
                        /\ InFlight(r) /\ Expired(r) => Expired(r)'
                        /\ req'[r].clean => (InFlight(r) => req[r].clean)
                        /\ req'[r].pc = "viewed" /\ req'[r].clean
                              => req[r].pc = "viewed" /\ req[r].clean
  <1>2. ASSUME NEW r \in Requests PROVE Kept(r)
    <2>1. req[r] \in RequestState /\ (Serving(r) \/ InFlight(r) => req[r].left = RequestMinValid)
      BY <1>1 DEF LossInv, CallShape
    <2>2. CASE req'[r] = req[r]
      BY <2>1, <2>2 DEF Serving, Expired
    <2>3. CASE ~InFlight(r) /\ req'[r] = Done
      BY <2>3, RequestFields DEF Serving, NotSent
    <2>4. ASSUME NEW to \in {"plan", "fill", "done"}, req'[r] = [req[r] EXCEPT !.pc = to],
                 Serving(r)
          PROVE  Kept(r)
      <3>1. /\ req'[r] \in RequestState /\ req'[r].pc = to
            /\ req'[r].left = req[r].left /\ req'[r].waited = req[r].waited
            /\ req'[r].clean = req[r].clean
        BY <2>1, <2>4 DEF RequestState
      <3> QED BY <2>1, <2>4, <3>1 DEF Serving, Expired, NotSent
    <2> QED BY <2>2, <2>3, <2>4
  <1>3. req' \in [Requests -> RequestState]
    <2>1. \A r \in Requests : req'[r] \in RequestState
      BY <1>2
    <2> HIDE DEF Kept
    <2> QED BY <2>1, Zenon
  <1>4. \A r \in Requests : req'[r].pc = "viewed" /\ req'[r].clean
              => funds["quota"] > Cardinality(LiveCalls)
    BY <1>2 DEF LossInv
  <1> QED BY <1>1, <1>2, <1>3, <1>4, LossKept

(* A block ages the requests; none becomes mineable again.                 *)
LEMMA AgedRequests ==
    ASSUME LossInv, NEW r \in Requests
    PROVE  LET q == OlderRequests[r]
           IN  /\ q \in RequestState
               /\ q.pc = req[r].pc /\ q.left = req[r].left /\ q.clean = req[r].clean
               /\ InFlight(r) /\ Expired(r) => q.waited > q.left
  <1> DEFINE q == OlderRequests[r]
             Aged == /\ q \in RequestState
                     /\ q.pc = req[r].pc /\ q.left = req[r].left /\ q.clean = req[r].clean
                     /\ InFlight(r) /\ Expired(r) => q.waited > q.left
  <1>1. req[r] \in RequestState /\ (Serving(r) \/ InFlight(r) => req[r].left = RequestMinValid)
    BY DEF LossInv, CallShape
  <1>2. \/ q = req[r]
        \/ Serving(r) /\ q = [req[r] EXCEPT !.waited = Older(req[r].waited, MaxWait)]
        \/ InFlight(r) /\ q = [req[r] EXCEPT !.waited = Older(req[r].waited, RequestMinValid + 1)]
    BY DEF OlderRequests
  <1> SUFFICES Aged
    OBVIOUS
  <1> HIDE DEF q
  <1>3. CASE q = req[r]
    BY <1>1, <1>3 DEF Expired
  <1>4. ASSUME NEW limit \in Nat, limit >= RequestMinValid + 1, Serving(r) \/ InFlight(r),
               q = [req[r] EXCEPT !.waited = Older(req[r].waited, limit)]
        PROVE  Aged
    <2>1. Older(req[r].waited, limit) \in Nat
      BY <1>1 DEF RequestState, Older, Smaller
    <2>2. /\ q \in RequestState
          /\ q.pc = req[r].pc /\ q.left = req[r].left /\ q.clean = req[r].clean
          /\ q.waited = Older(req[r].waited, limit)
      BY <1>1, <1>4, <2>1 DEF RequestState
    <2>3. req[r].waited \in Nat /\ req[r].left = RequestMinValid
      BY <1>1, <1>4 DEF RequestState
    <2> QED BY <1>4, <2>2, <2>3, Waits DEF Expired, Older, Smaller
  <1> QED BY <1>2, <1>3, <1>4, Waits

LEMMA AgedLoss ==
    ASSUME LossInv, UNCHANGED <<calls, unexplained>>,
           DOMAIN funds' = Accounts, funds'["quota"] = funds["quota"],
           req' = OlderRequests
    PROVE  LossInv'
  <1>1. req \in [Requests -> RequestState] /\ funds["quota"] \in Nat
    BY DEF LossInv, CallShape
  <1>2. ASSUME NEW r \in Requests
        PROVE  /\ req'[r] \in RequestState
               /\ req'[r].pc = req[r].pc /\ req'[r].left = req[r].left
               /\ req'[r].clean = req[r].clean
               /\ InFlight(r) /\ Expired(r) => Expired(r)'
    BY AgedRequests DEF Expired
  <1>3. req' \in [Requests -> RequestState]
    BY <1>2 DEF OlderRequests
  <1>4. \A r \in Requests : req'[r].pc \in NotSent => req[r].pc \in NotSent
    BY <1>2
  <1>5. \A r \in Requests : Serving(r)' \/ InFlight(r) => req'[r].left = RequestMinValid
    BY <1>2 DEF LossInv, CallShape, Serving
  <1>6. \A r \in Requests : req'[r].clean => (InFlight(r) => req[r].clean)
    BY <1>2
  <1>7. \A r \in Requests : req'[r].pc = "viewed" /\ req'[r].clean
              => funds["quota"] > Cardinality(LiveCalls)
    BY <1>2 DEF LossInv
  <1> QED BY <1>1, <1>2, <1>3, <1>4, <1>5, <1>6, <1>7, LossKept

LEMMA PaymasterLoss == LossInv /\ PaymasterChanges => LossInv'
  <1> SUFFICES ASSUME LossInv, PaymasterChanges PROVE LossInv'
    OBVIOUS
  <1>1. req \in [Requests -> RequestState] /\ funds["quota"] \in Nat /\ DOMAIN funds = Accounts
    BY DEF LossInv, CallShape
  <1>2. DOMAIN funds' = Accounts /\ funds'["quota"] \in Nat
    BY <1>1 DEF PaymasterChanges, Accounts
  <1>3. ASSUME NEW r \in Requests
        PROVE  /\ req'[r] \in RequestState /\ ~req'[r].clean
               /\ req'[r].pc = req[r].pc /\ req'[r].left = req[r].left
               /\ req'[r].waited = req[r].waited
    <2>1. req'[r] = [req[r] EXCEPT !.clean = FALSE] /\ req[r] \in RequestState
      BY <1>1 DEF PaymasterChanges
    <2> QED BY <2>1 DEF RequestState
  <1>4. req' \in [Requests -> RequestState]
    BY <1>3 DEF PaymasterChanges
  <1>5. \A r \in Requests : Serving(r)' \/ InFlight(r) => req'[r].left = RequestMinValid
    BY <1>3 DEF LossInv, CallShape, Serving
  <1>6. \A r \in Requests : InFlight(r) /\ Expired(r) => Expired(r)'
    BY <1>3 DEF Expired
  <1>7. UNCHANGED <<calls, unexplained>>
    BY DEF PaymasterChanges
  <1> QED BY <1>2, <1>3, <1>4, <1>5, <1>6, <1>7, LossKept

(* Steps of a request before its call is sent                              *)
LEMMA EarlyLoss ==
    ASSUME LossInv, UNCHANGED <<calls, unexplained, funds>>, NEW r \in Requests,
           req[r].pc \in NotSent, NEW q \in RequestState, req' = [req EXCEPT ![r] = q],
           q.left = RequestMinValid,
           q.pc = "viewed" /\ q.clean => funds["quota"] > Cardinality(LiveCalls)
    PROVE  LossInv'
  <1>1. /\ req \in [Requests -> RequestState] /\ funds["quota"] \in Nat
        /\ DOMAIN funds = Accounts /\ ~InFlight(r)
    BY DEF LossInv, CallShape
  <1>2. req' \in [Requests -> RequestState] /\ req'[r] = q
        /\ \A s \in Requests : s # r => req'[s] = req[s]
    BY <1>1
  <1>3. \A s \in Requests : req'[s].pc \in NotSent => req[s].pc \in NotSent
    BY <1>2
  <1>4. \A s \in Requests : Serving(s)' \/ InFlight(s) => req'[s].left = RequestMinValid
    BY <1>1, <1>2 DEF LossInv, CallShape, Serving
  <1>5. \A s \in Requests : InFlight(s) /\ Expired(s) => Expired(s)'
    BY <1>1, <1>2 DEF Expired
  <1>6. \A s \in Requests : req'[s].clean => (InFlight(s) => req[s].clean)
    BY <1>1, <1>2
  <1>7. \A s \in Requests : req'[s].pc = "viewed" /\ req'[s].clean
              => funds["quota"] > Cardinality(LiveCalls)
    BY <1>2 DEF LossInv
  <1> QED BY <1>1, <1>2, <1>3, <1>4, <1>5, <1>6, <1>7, LossKept

LEMMA AnsweredLoss ==
    ASSUME LossInv, UNCHANGED <<calls, unexplained, funds>>, NEW r \in Requests,
           Serving(r), req' = Answered(r)
    PROVE  LossInv'
  <1>1. /\ req \in [Requests -> RequestState] /\ funds["quota"] \in Nat
        /\ DOMAIN funds = Accounts
    BY DEF LossInv, CallShape
  <1>2. \A s \in Requests :
              \/ req'[s] = req[s]
              \/ ~InFlight(s) /\ req'[s] = Done
              \/ Serving(s) /\ req'[s] = [req[s] EXCEPT !.pc = "done"]
    BY <1>1 DEF Answered
  <1>3. req' = [s \in Requests |-> req'[s]]
    BY <1>1 DEF Answered
  <1>4. "done" \in {"plan", "fill", "done"}
    OBVIOUS
  <1> QED BY <1>1, <1>2, <1>3, <1>4, MovedOnLoss

(* The verdict counts every call that is on its way and can be mined.      *)
LEMMA ViewCallLoss ==
    ASSUME LossInv, NEW r \in Requests, ViewCall(r)
    PROVE  LossInv'
  <1>1. /\ req[r].pc = "accepted" /\ UNCHANGED <<calls, unexplained, funds>>
        /\ req' = IF PaymasterCanPay /\ ViewCallSucceeds(r)
                    THEN [req EXCEPT ![r].pc = "viewed", ![r].clean = TRUE]
                  ELSE Answered(r)
    BY DEF ViewCall
  <1>2. Serving(r) /\ req[r].pc \in NotSent
    BY <1>1 DEF Serving, NotSent
  <1>3. CASE req' = Answered(r)
    BY <1>1, <1>2, <1>3, AnsweredLoss
  <1>4. CASE ViewCallSucceeds(r) /\ req' = [req EXCEPT ![r].pc = "viewed", ![r].clean = TRUE]
    <2>1. req \in [Requests -> RequestState] /\ req[r].left = RequestMinValid
      BY <1>2 DEF LossInv, CallShape
    <2> DEFINE q == [req[r] EXCEPT !.pc = "viewed", !.clean = TRUE]
    <2>2. req' = [req EXCEPT ![r] = q] /\ q \in RequestState /\ q.left = RequestMinValid
      BY <1>4, <2>1 DEF RequestState
    <2>3. funds["quota"] > Cardinality(LiveCalls)
      <3>1. funds["quota"] - Cardinality(LiveCalls) > 0
        BY <1>4 DEF ViewCallSucceeds, PendingQuota, LiveCalls
      <3>2. LiveCalls \subseteq Requests
        BY DEF LiveCalls
      <3>3. Cardinality(LiveCalls) \in Nat /\ funds["quota"] \in Nat
        BY <3>2, FewRequests DEF LossInv, CallShape
      <3> QED BY <3>1, <3>3
    <2> HIDE DEF q
    <2> QED BY <1>1, <1>2, <2>2, <2>3, EarlyLoss
  <1> QED BY <1>1, <1>3, <1>4

LEMMA SeqPushed ==
    ASSUME NEW S, NEW u \in Seq(S), NEW x \in S
    PROVE  /\ Append(u, x) \in Seq(S) /\ Len(u) \in Nat
           /\ DOMAIN u = 1..Len(u) /\ DOMAIN Append(u, x) = 1..(Len(u) + 1)
           /\ \A i \in 1..Len(u) : Append(u, x)[i] = u[i]
           /\ Append(u, x)[Len(u) + 1] = x
  OBVIOUS

LEMMA Unclean ==
    ASSUME NEW q \in RequestState
    PROVE  LET p == [q EXCEPT !.clean = FALSE]
           IN  /\ p \in RequestState /\ ~p.clean
               /\ p.pc = q.pc /\ p.left = q.left /\ p.waited = q.waited
  BY DEF RequestState

(* A call goes behind those its verdict counted, and makes the verdicts    *)
(* that did not count it stale.                                            *)
LEMMA SentLoss ==
    ASSUME LossInv, NEW r \in Requests, req[r].pc = "viewed",
           UNCHANGED <<funds, unexplained>>,
           calls' = Append(calls, r), req' = [Stale(r) EXCEPT ![r].pc = "plan"]
    PROVE  LossInv'
  <1> DEFINE n == Len(calls)
  <1>1. CallShape /\ req \in [Requests -> RequestState]
    BY DEF LossInv, CallShape
  <1>2. ~InFlight(r) /\ req[r].left = RequestMinValid
    BY <1>1 DEF CallShape, NotSent, Serving
  <1>3. /\ calls' \in Seq(Requests) /\ n \in Nat
        /\ DOMAIN calls = 1..n /\ DOMAIN calls' = 1..(n + 1)
        /\ \A i \in 1..n : calls'[i] = calls[i] /\ calls[i] \in Requests
        /\ calls'[n + 1] = r
    BY <1>1, SeqPushed DEF CallShape
  <1>4. \A i \in 1..n : calls[i] # r
    BY <1>2, <1>3 DEF InFlight, ToSet
  <1> HIDE DEF n
  <1>5. \A s : InFlight(s)' => InFlight(s) \/ s = r
    BY <1>3 DEF InFlight, ToSet
  <1>6. ASSUME NEW s \in Requests
        PROVE  /\ req'[s] \in RequestState
               /\ req'[s].left = req[s].left /\ req'[s].waited = req[s].waited
               /\ req'[s].clean => req[s].clean
               /\ s = r => req'[s].pc = "plan"
               /\ s # r => req'[s].pc = req[s].pc
               /\ req'[s].pc = "viewed" => ~req'[s].clean
    <2>1. CASE s = r
      <3>1. req'[s] = [req[s] EXCEPT !.pc = "plan"] /\ req[s] \in RequestState
        BY <1>1, <2>1 DEF Stale
      <3> QED BY <2>1, <3>1 DEF RequestState
    <2>2. CASE s # r /\ req[s].pc = "viewed"
      <3>1. req'[s] = [req[s] EXCEPT !.clean = FALSE] /\ req[s] \in RequestState
        BY <1>1, <2>2 DEF Stale
      <3>2. /\ req'[s] \in RequestState /\ ~req'[s].clean /\ req'[s].pc = req[s].pc
            /\ req'[s].left = req[s].left /\ req'[s].waited = req[s].waited
        BY <3>1, Unclean
      <3> QED BY <2>2, <3>2
    <2>3. CASE s # r /\ req[s].pc # "viewed"
      <3>1. req'[s] = req[s] /\ req[s] \in RequestState
        BY <1>1, <2>3 DEF Stale
      <3> QED BY <2>3, <3>1
    <2> QED BY <2>1, <2>2, <2>3
  <1>7. CallShape'
    <2>1. \A i, j \in DOMAIN calls' : calls'[i] = calls'[j] => i = j
      <3>1. \A i \in DOMAIN calls' : i \in 1..n \/ i = n + 1
        BY <1>3
      <3> QED BY <1>1, <1>3, <1>4, <3>1 DEF CallShape
    <2>2. DOMAIN funds' = Accounts /\ funds'["quota"] \in Nat
      BY <1>1 DEF CallShape
    <2>3. req' \in [Requests -> RequestState]
      BY <1>6 DEF Stale
    <2>4. \A s \in Requests : req'[s].pc \in NotSent => ~InFlight(s)'
      BY <1>1, <1>5, <1>6 DEF CallShape, NotSent
    <2>5. \A s \in Requests : Serving(s)' \/ InFlight(s)' => req'[s].left = RequestMinValid
      BY <1>1, <1>2, <1>5, <1>6 DEF CallShape, Serving
    <2> QED BY <1>3, <2>1, <2>2, <2>3, <2>4, <2>5 DEF CallShape
  <1>8. LiveCalls' \subseteq LiveCalls \union {r} /\ LiveCalls \subseteq Requests
    BY <1>5, <1>6 DEF LiveCalls, Expired
  <1>9. \A i \in 1..(n + 1) : LiveCalls' \intersect Ahead(i)' \subseteq LiveCalls \intersect Ahead(i)
    <2>1. \A i \in 1..(n + 1) : \A j \in 1..(i - 1) : j \in 1..n
      BY <1>3
    <2>2. \A i \in 1..(n + 1) : Ahead(i)' = Ahead(i) /\ r \notin Ahead(i)
      BY <1>3, <1>4, <2>1 DEF Ahead
    <2> QED BY <1>8, <2>2
  <1>10. ASSUME NEW i \in 1..(n + 1), req'[calls'[i]].clean
         PROVE  funds'["quota"] > Cardinality(LiveCalls' \intersect Ahead(i)')
    <2> DEFINE X == LiveCalls' \intersect Ahead(i)'
    <2>1. \A Y : X \subseteq Y /\ Y \subseteq Requests /\ funds["quota"] > Cardinality(Y)
                  => funds["quota"] > Cardinality(X)
      <3>1. funds["quota"] \in Nat
        BY <1>1 DEF CallShape
      <3> HIDE DEF X
      <3>2. \A Y : X \subseteq Y /\ Y \subseteq Requests =>
                /\ Cardinality(X) \in Nat /\ Cardinality(Y) \in Nat
                /\ Cardinality(X) <= Cardinality(Y)
        <4>1. \A Y : X \subseteq Y /\ Y \subseteq Requests => X \subseteq Requests
          OBVIOUS
        <4> QED BY <4>1, FewRequests
      <3> QED BY <3>1, <3>2
    <2>2. CASE i \in 1..n
      <3>1. calls'[i] = calls[i] /\ i \in DOMAIN calls /\ req[calls[i]].clean
        BY <1>3, <1>6, <1>10, <2>2
      <3>2. funds["quota"] > Cardinality(LiveCalls \intersect Ahead(i))
        BY <3>1 DEF LossInv
      <3>3. LiveCalls \intersect Ahead(i) \subseteq Requests
        BY <1>8
      <3> QED BY <1>9, <2>1, <3>2, <3>3
    <2>3. CASE i = n + 1
      <3>1. req[r].clean
        BY <1>3, <1>6, <1>10, <2>3
      <3>2. funds["quota"] > Cardinality(LiveCalls)
        BY <3>1 DEF LossInv
      <3>3. X \subseteq LiveCalls
        BY <1>9
      <3> QED BY <1>8, <2>1, <3>2, <3>3
    <2> QED BY <1>3, <2>2, <2>3
  <1> QED BY <1>3, <1>6, <1>7, <1>10 DEF LossInv

(* A call is mined before those that counted it; a verdict nothing has     *)
(* touched is kept.                                                        *)
LEMMA MinedLoss == LossInv /\ MineRelayCall => LossInv'
  <1> SUFFICES ASSUME LossInv, MineRelayCall PROVE LossInv'
    OBVIOUS
  <1> DEFINE n == Len(calls)
             r == Head(calls)
             late == Older(req[r].waited, MaxWait)
             rejected == funds["quota"] = 0 \/ late > req[r].left
  <1>1. CallShape /\ req \in [Requests -> RequestState] /\ calls # <<>>
    BY DEF LossInv, CallShape, MineRelayCall
  <1>2. /\ calls' = Tail(calls)
        /\ funds' = IF rejected THEN [funds EXCEPT !["worker"] = funds["worker"] - TxCost]
                    ELSE [funds EXCEPT !["worker"] = funds["worker"] - TxCost,
                                       !["hub"] = funds["hub"] + Charge,
                                       !["quota"] = funds["quota"] - 1]
        /\ unexplained' = (unexplained \/ (rejected /\ req[r].clean /\ late <= RequestMinValid))
        /\ req' = [OlderRequests EXCEPT ![r] = IF Serving(r) THEN OlderRequests[r] ELSE Done]
    BY DEF MineRelayCall
  <1>3. /\ n \in Nat \ {0} /\ DOMAIN calls = 1..n /\ DOMAIN calls' = 1..(n - 1)
        /\ calls' \in Seq(Requests)
        /\ \A i \in 1..(n - 1) : calls'[i] = calls[i + 1] /\ i + 1 \in 1..n
        /\ r = calls[1] /\ r \in Requests
    <2>1. calls \in Seq(Requests)
      BY <1>1 DEF CallShape
    <2>2. DOMAIN calls = 1..n /\ \A i \in DOMAIN calls : calls[i] \in Requests
      BY <2>1
    <2>3. \A u : u \in Seq(Requests) => DOMAIN u = 1..Len(u)
      OBVIOUS
    <2> QED BY <1>1, <1>2, <2>1, <2>2, <2>3, SeqTail
  <1>4. \A i \in 1..(n - 1) : calls'[i] # r
    BY <1>1, <1>3 DEF CallShape
  <1>5. \A s : InFlight(s)' => InFlight(s) /\ s # r
    BY <1>3, <1>4 DEF InFlight, ToSet
  <1> HIDE DEF n, r
  <1>6. InFlight(r) /\ req[r].left = RequestMinValid /\ req[r].waited \in Nat
    <2>1. InFlight(r)
      BY <1>3 DEF InFlight, ToSet
    <2>2. req[r] \in RequestState
      BY <1>1, <1>3
    <2> QED BY <1>1, <1>3, <2>1, <2>2 DEF CallShape, RequestState
  <1>7. ASSUME NEW s \in Requests
        PROVE  /\ req'[s] \in RequestState
               /\ \/ s = r /\ ~Serving(r) /\ req'[s] = Done
                  \/ /\ req'[s].pc = req[s].pc /\ req'[s].left = req[s].left
                     /\ req'[s].clean = req[s].clean
                     /\ InFlight(s) /\ Expired(s) => req'[s].waited > req'[s].left
    <2>1. DOMAIN OlderRequests = Requests
      BY DEF OlderRequests
    <2>2. \/ s = r /\ ~Serving(r) /\ req'[s] = Done
          \/ req'[s] = OlderRequests[s]
      BY <1>2, <2>1
    <2> QED BY <2>2, AgedRequests, RequestFields
  <1>8. DOMAIN funds' = Accounts /\ funds["quota"] \in Nat
        /\ funds'["quota"] = IF rejected THEN funds["quota"] ELSE funds["quota"] - 1
    BY <1>1, <1>2 DEF CallShape, Accounts
  <1>9. CallShape'
    <2>1. \A i, j \in DOMAIN calls' : calls'[i] = calls'[j] => i = j
      <3>1. \A i \in 1..(n - 1) : i + 1 \in 1..n /\ i \in Int
        BY <1>3
      <3>2. \A i, j \in 1..(n - 1) : calls'[i] = calls'[j] => i + 1 = j + 1
        BY <1>1, <1>3, <3>1 DEF CallShape
      <3> QED BY <1>3, <3>1, <3>2
    <2>2. funds'["quota"] \in Nat
      BY <1>8
    <2>3. req' \in [Requests -> RequestState]
      BY <1>2, <1>7 DEF OlderRequests
    <2>4. \A s \in Requests : req'[s].pc \in NotSent => ~InFlight(s)'
      BY <1>1, <1>5, <1>7, RequestFields DEF CallShape, NotSent
    <2>5. \A s \in Requests : Serving(s)' \/ InFlight(s)' => req'[s].left = RequestMinValid
      BY <1>1, <1>5, <1>7, RequestFields DEF CallShape, Serving
    <2> QED BY <1>3, <1>8, <2>1, <2>2, <2>3, <2>4, <2>5 DEF CallShape
  <1>10. LiveCalls' \subseteq LiveCalls \ {r} /\ LiveCalls \subseteq Requests
    <2>1. ASSUME NEW s \in LiveCalls' PROVE s \in LiveCalls \ {r}
      <3>1. s \in Requests /\ InFlight(s) /\ s # r /\ ~(req'[s].waited > req'[s].left)
        BY <1>5 DEF LiveCalls, Expired
      <3>2. ~Expired(s)
        BY <1>7, <3>1
      <3> QED BY <3>1, <3>2 DEF LiveCalls
    <2> QED BY <2>1 DEF LiveCalls
  <1>11. ~rejected => r \in LiveCalls
    <2>1. ~rejected => ~Expired(r)
      BY <1>6, Waits DEF Expired, Older, Smaller
    <2> QED BY <1>3, <1>6, <2>1 DEF LiveCalls
  <1>12. ASSUME NEW X, X \subseteq Requests, NEW Y, Y \subseteq X \ {r},
                ~rejected => r \in X, funds["quota"] > Cardinality(X)
         PROVE  funds'["quota"] > Cardinality(Y)
    <2>1. /\ Cardinality(X) \in Nat /\ Cardinality(Y) \in Nat /\ Cardinality(X \ {r}) \in Nat
          /\ Cardinality(Y) <= Cardinality(X) /\ Cardinality(Y) <= Cardinality(X \ {r})
          /\ IsFiniteSet(X)
      <3>1. Y \subseteq X /\ X \ {r} \subseteq Requests /\ Y \subseteq Requests
        BY <1>12
      <3> QED BY <1>12, <3>1, FewRequests
    <2>2. CASE rejected
      BY <1>8, <1>12, <2>1, <2>2
    <2>3. CASE ~rejected
      <3>1. Cardinality(X \ {r}) = Cardinality(X) - 1
        BY <1>12, <2>1, <2>3, FS_RemoveElement
      <3> QED BY <1>8, <1>12, <2>1, <2>3, <3>1
    <2> QED BY <2>2, <2>3
  <1>13. ASSUME NEW i \in DOMAIN calls', req'[calls'[i]].clean
         PROVE  funds'["quota"] > Cardinality(LiveCalls' \intersect Ahead(i)')
    <2>1. /\ i \in 1..(n - 1) /\ i + 1 \in DOMAIN calls /\ calls'[i] = calls[i + 1]
          /\ calls'[i] \in Requests /\ calls'[i] # r /\ i \in Int
      BY <1>3, <1>4
    <2>2. req[calls[i + 1]].clean
      BY <1>7, <1>13, <2>1
    <2>3. funds["quota"] > Cardinality(LiveCalls \intersect Ahead(i + 1))
      BY <2>1, <2>2 DEF LossInv
    <2>4. Ahead(i)' \subseteq Ahead(i + 1)
      <3>1. \A j \in 1..(i - 1) : j \in 1..(n - 1) /\ j + 1 \in 1..((i + 1) - 1)
        BY <1>3, <2>1
      <3> QED BY <1>3, <3>1 DEF Ahead
    <2>5. r \in Ahead(i + 1)
      <3>1. 1 \in 1..((i + 1) - 1)
        BY <2>1
      <3> QED BY <1>3, <3>1 DEF Ahead
    <2> QED BY <1>10, <1>11, <1>12, <2>3, <2>4, <2>5
  <1>14. ASSUME NEW s \in Requests, req'[s].pc = "viewed", req'[s].clean
         PROVE  funds'["quota"] > Cardinality(LiveCalls')
    <2>1. req[s].pc = "viewed" /\ req[s].clean
      BY <1>7, <1>14, RequestFields
    <2>2. funds["quota"] > Cardinality(LiveCalls)
      BY <2>1 DEF LossInv
    <2> QED BY <1>10, <1>11, <1>12, <2>2
  <1>15. unexplained' = FALSE
    <2>1. rejected /\ req[r].clean /\ late <= RequestMinValid => FALSE
      <3> SUFFICES ASSUME rejected, req[r].clean, late <= RequestMinValid PROVE FALSE
        OBVIOUS
      <3>1. late \in Nat
        BY <1>6, Waits DEF Older, Smaller
      <3>2. funds["quota"] = 0
        BY <1>6, <3>1, Waits
      <3>3. 1 \in DOMAIN calls
        BY <1>3
      <3>4. funds["quota"] > Cardinality(LiveCalls \intersect Ahead(1))
        BY <1>3, <3>3 DEF LossInv
      <3>5. Cardinality(LiveCalls \intersect Ahead(1)) \in Nat
        <4>1. LiveCalls \intersect Ahead(1) \subseteq Requests
          BY <1>10
        <4> QED BY <4>1, FewRequests
      <3> QED BY <3>2, <3>4, <3>5
    <2> QED BY <1>2, <2>1 DEF LossInv
  <1> QED BY <1>9, <1>13, <1>14, <1>15 DEF LossInv

LEMMA RequestLossInv ==
    ASSUME LossInv, NEW r \in Requests, Request(r) \/ RequestStep(r) \/ RequestThrows(r)
    PROVE  LossInv'
  <1>1. /\ req \in [Requests -> RequestState] /\ funds["quota"] \in Nat
        /\ DOMAIN funds = Accounts
    BY DEF LossInv, CallShape
  <1>2. CASE Request(r)
    <2>1. PICK left \in 0..RequestMinValid :
             /\ left >= RequestMinValid
             /\ req' = [req EXCEPT ![r] = [Unsent EXCEPT !.pc = "accepted", !.left = left]]
      BY <1>2 DEF Request, ValidateInput
    <2> DEFINE q == [Unsent EXCEPT !.pc = "accepted", !.left = left]
    <2>2. q \in RequestState /\ q.left = RequestMinValid /\ ~q.clean
      <3>1. left = RequestMinValid /\ left \in Nat
        BY <2>1, Waits
      <3> QED BY <3>1, RequestFields DEF RequestState
    <2>3. req[r].pc \in NotSent /\ UNCHANGED <<calls, unexplained, funds>>
      BY <1>2 DEF Request, NotSent
    <2>4. req' = [req EXCEPT ![r] = q]
      BY <2>1
    <2> HIDE DEF q
    <2> QED BY <2>2, <2>3, <2>4, EarlyLoss
  <1>3. CASE ViewCall(r)
    BY <1>3, ViewCallLoss
  <1>4. CASE req' = Answered(r) /\ Serving(r) /\ UNCHANGED <<calls, unexplained, funds>>
    BY <1>4, AnsweredLoss
  <1>5. CASE SendRelayCall(r)
    <2>1. req[r].pc = "viewed" /\ Serving(r)
      BY <1>5 DEF SendRelayCall, Serving
    <2>2. CASE calls' = Append(calls, r) /\ req' = [Stale(r) EXCEPT ![r].pc = "plan"]
      BY <1>5, <2>1, <2>2, SentLoss DEF SendRelayCall
    <2>3. CASE req' = Answered(r) /\ UNCHANGED calls
      BY <1>4, <1>5, <2>1, <2>3 DEF SendRelayCall
    <2> QED BY <1>5, <2>2, <2>3 DEF SendRelayCall
  <1>6. CASE RequestDecides(r)
    <2>1. req[r].pc = "plan" /\ Serving(r) /\ UNCHANGED <<calls, unexplained, funds>>
          /\ (req' = Answered(r) \/ req' = [req EXCEPT ![r].pc = "fill"])
      BY <1>6 DEF RequestDecides, Serving
    <2>2. CASE req' = [req EXCEPT ![r].pc = "fill"]
      <3>1. \A s \in Requests :
               \/ req'[s] = req[s]
               \/ Serving(s) /\ req'[s] = [req[s] EXCEPT !.pc = "fill"]
        BY <1>1, <2>1, <2>2
      <3>2. req' = [s \in Requests |-> req'[s]]
        BY <1>1, <2>2
      <3>3. "fill" \in {"plan", "fill", "done"}
        OBVIOUS
      <3> QED BY <1>1, <2>1, <3>1, <3>2, <3>3, MovedOnLoss
    <2> QED BY <1>4, <2>1, <2>2
  <1>7. CASE RequestReplenishes(r)
    BY <1>4, <1>7 DEF RequestReplenishes, Serving
  <1>8. CASE RequestThrows(r)
    BY <1>4, <1>8 DEF RequestThrows
  <1> QED BY <1>2, <1>3, <1>5, <1>6, <1>7, <1>8 DEF RequestStep

LEMMA BlockLossInv == LossInv /\ NextBlock => LossInv'
  <1> SUFFICES ASSUME LossInv, NextBlock PROVE LossInv'
    OBVIOUS
  <1>1. CASE EmptyBlock
    BY <1>1, AgedLoss DEF EmptyBlock, LossInv, CallShape
  <1>2. CASE MineManager
    <2>1. DOMAIN funds' = Accounts /\ funds'["quota"] = funds["quota"]
      <3>1. funds' = AfterManagerTx(Head(outbox)) /\ DOMAIN funds = Accounts
        BY <1>2 DEF MineManager, LossInv, CallShape
      <3> QED BY <3>1 DEF AfterManagerTx, Accounts
    <2> QED BY <1>2, <2>1, AgedLoss DEF MineManager
  <1> QED BY <1>1, <1>2, MinedLoss DEF NextBlock

(* The pass touches no request, a restart ends them all.                   *)
LEMMA OtherLossInv ==
    LossInv /\ (PassStep \/ FindUnregistered \/ HandleEventsThrows \/ PassThrows \/ Restart)
       => LossInv'
  <1> SUFFICES ASSUME LossInv,
                      PassStep \/ FindUnregistered \/ HandleEventsThrows \/ PassThrows \/ Restart
               PROVE  LossInv'
    OBVIOUS
  <1>1. /\ req \in [Requests -> RequestState] /\ funds["quota"] \in Nat
        /\ DOMAIN funds = Accounts
    BY DEF LossInv, CallShape
  <1>2. UNCHANGED <<calls, unexplained, funds>>
    BY DEF PassStep, StartPass, CheckBalances, HandleChanges, PassDecides, PassReplenishes,
           FinishPass, FindUnregistered, HandleEventsThrows, PassThrows, Restart
  <1>3. CASE UNCHANGED req
    BY <1>1, <1>2, <1>3, MovedOnLoss
  <1>4. CASE Restart
    <2>1. req' = [s \in Requests |-> IF Serving(s) THEN Answered(s)[s] ELSE req[s]]
      BY <1>4 DEF Restart
    <2>2. ASSUME NEW s \in Requests
          PROVE  \/ req'[s] = req[s]
                 \/ ~InFlight(s) /\ req'[s] = Done
                 \/ Serving(s) /\ req'[s] = [req[s] EXCEPT !.pc = "done"]
      BY <1>1, <2>1 DEF Answered
    <2>3. "done" \in {"plan", "fill", "done"} /\ req' = [s \in Requests |-> req'[s]]
      BY <2>1
    <2> QED BY <1>1, <1>2, <2>2, <2>3, MovedOnLoss
  <1> QED BY <1>3, <1>4 DEF PassStep, StartPass, CheckBalances, HandleChanges, PassDecides,
          PassReplenishes, FinishPass, FindUnregistered, HandleEventsThrows, PassThrows

LEMMA NextLossInv == LossInv /\ [Next]_vars => LossInv'
  <1> SUFFICES ASSUME LossInv, [Next]_vars PROVE LossInv'
    OBVIOUS
  <1>1. CASE UNCHANGED vars
    <2>1. UNCHANGED <<calls, unexplained, funds, req>>
      BY <1>1 DEF vars
    <2> QED BY <2>1, MovedOnLoss DEF LossInv, CallShape
  <1> QED BY <1>1, BlockLossInv, PaymasterLoss, RequestLossInv, OtherLossInv DEF Next

(* A relay call is rejected on chain only after another call was sent, the *)
(* paymaster changed, or its time was up, for any number of requests, any  *)
(* order of their steps and any quota: validateViewCallSucceeds counts     *)
(* every call on its way, and nonces keep them in order.                   *)
THEOREM LossesAreExplained == Spec => []LossExplained
  <1>1. LossInv => LossExplained
    BY DEF LossInv, LossExplained
  <1> QED BY <1>1, InitLossInv, NextLossInv, PTL DEF Spec

----------------------------------------------------------------------------
(* How the server judges a paymaster: the proofs about ReputationManager.  *)
LEMMA Windows ==
    /\ ColdScanBlocks \in Nat
    /\ AbuseTimeWindowBlocks \in Nat \ {0} /\ AbuseReputationChange \in Nat \ {0}
  BY ReputationAssumption DEF ReputationAssumption

(* The worker has an event in hand that has had its turn.                  *)
InHand == {"create", "flag", "flagWrite", "reputation", "update", "updateWrite"}

EventShape ==
    /\ block \in Nat /\ lastScannedBlock \in 0..block /\ wblock \in 0..block
    /\ hubEvents \in Seq(Change) /\ turns \in Seq(Nat) /\ Len(turns) = Len(hubEvents)
    /\ \A i \in DOMAIN hubEvents : hubEvents[i].blockNumber <= block
    /\ events \in Seq(DOMAIN hubEvents)
    /\ wpc \in InHand => events # << >> /\ turns[Head(events)] > 0
    /\ wpc \in {"idle", "scan"} => events = << >>

Covered(b) ==
    \A i \in DOMAIN hubEvents :
        hubEvents[i].blockNumber <= b => turns[i] > 0 \/ i \in ToSet(events) \/ i \in cut

(* What is behind the last scan stays covered, and what a scan brings      *)
(* covers the blocks of its pass before they count as scanned.             *)
ScanInv ==
    /\ EventShape
    /\ Covered(lastScannedBlock)
    /\ wpc = "scanned" => Covered(wblock)

LEMMA Scanned == ScanInv => NoEventSkipped
  BY DEF ScanInv, Covered, NoEventSkipped, ToSet

LEMMA InitScanInv == ReputationInit => ScanInv
  <1> SUFFICES ASSUME ReputationInit PROVE ScanInv
    OBVIOUS
  <1>1. /\ hubEvents = << >> /\ turns = << >> /\ events = << >> /\ DOMAIN hubEvents = {}
        /\ block = 1 /\ lastScannedBlock = 0 /\ wblock = 0 /\ wpc = "idle"
    BY DEF ReputationInit
  <1>2. EventShape
    BY <1>1 DEF EventShape, InHand
  <1> QED BY <1>1, <1>2 DEF ScanInv, Covered

LEMMA EventFacts ==
    ASSUME EventShape
    PROVE  /\ Len(hubEvents) \in Nat
           /\ DOMAIN hubEvents = 1..Len(hubEvents) /\ DOMAIN turns = 1..Len(hubEvents)
           /\ \A i \in DOMAIN hubEvents : /\ hubEvents[i] \in Change
                                          /\ hubEvents[i].blockNumber \in Nat
                                          /\ turns[i] \in Nat
           /\ events # << >> => /\ Head(events) \in DOMAIN hubEvents
                                /\ Tail(events) \in Seq(DOMAIN hubEvents)
           /\ \A i \in ToSet(events) : i = Head(events) \/ i \in ToSet(Tail(events))
  <1>1. hubEvents \in Seq(Change) /\ turns \in Seq(Nat) /\ Len(turns) = Len(hubEvents)
    BY DEF EventShape
  <1>2. /\ Len(hubEvents) \in Nat
        /\ DOMAIN hubEvents = 1..Len(hubEvents) /\ DOMAIN turns = 1..Len(hubEvents)
    BY <1>1
  <1>3. \A i \in DOMAIN hubEvents : hubEvents[i] \in Change /\ turns[i] \in Nat
    <2>1. \A i \in DOMAIN hubEvents : hubEvents[i] \in Change
      BY <1>1
    <2>2. \A i \in DOMAIN turns : turns[i] \in Nat
      BY <1>1
    <2> QED BY <1>2, <2>1, <2>2
  <1>4. \A c \in Change : c.blockNumber \in Nat
    BY DEF Change
  <1> DEFINE D == DOMAIN hubEvents
  <1>5. events \in Seq(D)
    BY DEF EventShape
  <1> HIDE DEF D
  <1>6. events # << >> => Head(events) \in D /\ Tail(events) \in Seq(D)
    BY <1>5
  <1>7. \A i \in ToSet(events) : i = Head(events) \/ i \in ToSet(Tail(events))
    <2> SUFFICES ASSUME NEW j \in DOMAIN events, j # 1
                 PROVE  events[j] \in ToSet(Tail(events))
      BY <1>5 DEF ToSet
    <2>1. events # << >> /\ Len(events) \in Nat /\ j \in 1..Len(events)
      BY <1>5
    <2>2. /\ Len(Tail(events)) = Len(events) - 1 /\ Tail(events) \in Seq(D)
          /\ \A i \in 1..(Len(events) - 1) : Tail(events)[i] = events[i + 1]
      BY <1>5, <2>1, SeqTail
    <2>3. j - 1 \in 1..(Len(events) - 1) /\ (j - 1) + 1 = j
      BY <2>1
    <2>4. Tail(events)[j - 1] = events[j] /\ j - 1 \in DOMAIN Tail(events)
      BY <2>2, <2>3
    <2> QED BY <2>4 DEF ToSet
  <1> QED BY <1>2, <1>3, <1>4, <1>6, <1>7 DEF D

(* Steps in which no event, no block and no scan is new                    *)
LEMMA ScanKept ==
    ASSUME ScanInv, UNCHANGED <<block, hubEvents, lastScannedBlock>>, wblock' \in {wblock, 0},
           turns' \in Seq(Nat), Len(turns') = Len(turns),
           \A i \in DOMAIN hubEvents : turns[i] > 0 => turns'[i] > 0,
           events' \in Seq(DOMAIN hubEvents), cut \subseteq cut',
           \A i \in ToSet(events) : turns'[i] > 0 \/ i \in ToSet(events') \/ i \in cut',
           wpc' \in InHand => events' # << >> /\ turns'[Head(events')] > 0,
           wpc' \in {"idle", "scan"} => events' = << >>,
           wpc' = "scanned" => wpc = "scanned" /\ wblock' = wblock
    PROVE  ScanInv'
  <1>1. EventShape'
    BY DEF ScanInv, EventShape
  <1>2. \A b : Covered(b) => Covered(b)'
    BY DEF Covered, ToSet
  <1> QED BY <1>1, <1>2 DEF ScanInv

LEMMA RequestScanInv ==
    ASSUME ScanInv, NEW r \in RelayRequests,
           \/ ValidatePaymasterReputation(r) \/ GetPaymasterStatus(r)
           \/ CreateEntry(r) \/ ClearAbuseFlag(r) \/ ClearAbuseFlagWrite(r)
           \/ OnRelayRequestAccepted(r) \/ OnRelayRequestAcceptedWrite(r)
    PROVE  ScanInv'
  <1>1. UNCHANGED <<block, hubEvents, lastScannedBlock, wblock, turns, events, cut, wpc>>
    BY DEF ValidatePaymasterReputation, GetPaymasterStatus, CreateEntry,
           ClearAbuseFlag, ClearAbuseFlagWrite, OnRelayRequestAccepted,
           OnRelayRequestAcceptedWrite, chainVars, workerVars
  <1> QED BY <1>1, ScanKept DEF ScanInv, EventShape

(* What judging does to the worker: the next event, or this one's flag or  *)
(* reputation.                                                             *)
LEMMA Judged ==
    ASSUME NEW e, Judge(e)
    PROVE  \/ wpc' = "loop" /\ events' = Tail(events)
           \/ wpc' \in {"flag", "reputation"} /\ events' = events
  <1>1. \/ NextEvent
        \/ wpc' \in {"flag", "reputation"} /\ events' = events
    BY DEF Judge
  <1> QED BY <1>1 DEF NextEvent

(* An event that has had its turn may leave the queue.                     *)
LEMMA TurnKept ==
    ASSUME ScanInv, UNCHANGED <<block, hubEvents, lastScannedBlock, wblock, turns, cut>>,
           wpc \in InHand,
           \/ wpc' = "loop" /\ events' = Tail(events)
           \/ wpc' \in {"flag", "flagWrite", "reputation", "update", "updateWrite"}
              /\ events' = events
    PROVE  ScanInv'
  <1>1. /\ EventShape /\ events \in Seq(DOMAIN hubEvents)
        /\ events # << >> /\ turns[Head(events)] > 0 /\ turns \in Seq(Nat)
    BY DEF ScanInv, EventShape
  <1>2. /\ Tail(events) \in Seq(DOMAIN hubEvents)
        /\ \A i \in ToSet(events) : i = Head(events) \/ i \in ToSet(Tail(events))
    BY <1>1, EventFacts
  <1>3. /\ events' \in Seq(DOMAIN hubEvents)
        /\ \A i \in ToSet(events) : turns'[i] > 0 \/ i \in ToSet(events') \/ i \in cut'
        /\ wpc' \in InHand => events' # << >> /\ turns'[Head(events')] > 0
        /\ wpc' \notin {"idle", "scan", "scanned"}
    <2>1. CASE wpc' = "loop" /\ events' = Tail(events)
      BY <1>1, <1>2, <2>1 DEF InHand
    <2>2. CASE wpc' \in {"flag", "flagWrite", "reputation", "update", "updateWrite"}
               /\ events' = events
      BY <1>1, <1>2, <2>2 DEF InHand
    <2> QED BY <2>1, <2>2
  <1> QED BY <1>1, <1>3, ScanKept

(* The pass ends and what is left is cut.                                  *)
LEMMA EndKept ==
    ASSUME ScanInv, UNCHANGED <<block, hubEvents, lastScannedBlock, turns>>,
           wblock' = 0, wpc' = "idle", events' = << >>, cut' = cut \union ToSet(events)
    PROVE  ScanInv'
  <1>1. events' \in Seq(DOMAIN hubEvents)
    <2> DEFINE D == DOMAIN hubEvents
    <2> HIDE DEF D
    <2> events' \in Seq(D)
      OBVIOUS
    <2> QED BY DEF D
  <1>2. turns \in Seq(Nat) /\ EventShape
    BY DEF ScanInv, EventShape
  <1> QED BY <1>1, <1>2, ScanKept DEF InHand

LEMMA WorkerScanInv ==
    ASSUME ScanInv,
           \/ PassEnds \/ CreateEntryByWorker \/ SetAbuseFlag
           \/ SetAbuseFlagWrite \/ UpdatePaymasterReputation \/ UpdateEntry
           \/ UpdateEntryWrite
    PROVE  ScanInv'
  <1>1. CASE PassEnds
    <2>1. /\ UNCHANGED <<block, hubEvents, lastScannedBlock, turns>>
          /\ wblock' = 0 /\ wpc' = "idle" /\ events' = << >>
          /\ cut' = cut \union ToSet(events)
      BY <1>1 DEF PassEnds, EndPass, chainVars
    <2> QED BY <2>1, EndKept
  <1>2. CASE CreateEntryByWorker
    <2>1. /\ UNCHANGED <<block, hubEvents, lastScannedBlock, turns>> /\ wpc = "create"
          /\ \/ Judge(FreshEntry) /\ UNCHANGED <<wblock, cut>>
             \/ /\ wblock' = 0 /\ wpc' = "idle" /\ events' = << >>
                /\ cut' = cut \union ToSet(events)
      BY <1>2 DEF CreateEntryByWorker, EndPass, chainVars
    <2>2. wpc \in InHand
      BY <2>1 DEF InHand
    <2> QED BY <2>1, <2>2, EndKept, Judged, TurnKept
  <1>3. CASE \/ SetAbuseFlag \/ SetAbuseFlagWrite
             \/ UpdatePaymasterReputation \/ UpdateEntry
    <2>1. /\ UNCHANGED <<block, hubEvents, lastScannedBlock, wblock, turns, cut, events>>
          /\ wpc \in InHand
          /\ wpc' \in {"flag", "flagWrite", "reputation", "update", "updateWrite"}
      BY <1>3 DEF SetAbuseFlag, SetAbuseFlagWrite, UpdatePaymasterReputation,
                  UpdateEntry, chainVars, InHand
    <2> QED BY <2>1, TurnKept
  <1>4. CASE UpdateEntryWrite
    <2>1. /\ UNCHANGED <<block, hubEvents, lastScannedBlock, wblock, turns, cut>>
          /\ wpc \in InHand /\ wpc' = "loop" /\ events' = Tail(events)
      BY <1>4 DEF UpdateEntryWrite, NextEvent, chainVars, InHand
    <2> QED BY <2>1, TurnKept
  <1> QED BY <1>1, <1>2, <1>3, <1>4

(* The event at the head of the queue gets its turn.                       *)
LEMMA TurnsTaken ==
    ASSUME ScanInv, UpdatePaymasterStatus
    PROVE  /\ EventShape /\ Head(events) \in DOMAIN hubEvents
           /\ turns' \in Seq(Nat) /\ Len(turns') = Len(turns)
           /\ turns'[Head(events)] = turns[Head(events)] + 1
           /\ \A i \in DOMAIN hubEvents \ {Head(events)} : turns'[i] = turns[i]
  <1>1. EventShape /\ turns \in Seq(Nat)
    BY DEF ScanInv, EventShape
  <1>2. /\ events # << >>
        /\ turns' = [turns EXCEPT ![Head(events)] = @ + 1]
    BY DEF UpdatePaymasterStatus
  <1>3. Head(events) \in DOMAIN hubEvents /\ DOMAIN turns = DOMAIN hubEvents
    BY <1>1, <1>2, EventFacts
  <1> DEFINE a == Head(events)
  <1>4. a \in DOMAIN turns
    BY <1>3
  <1> HIDE DEF a
  <1>5. /\ turns' = [turns EXCEPT ![a] = @ + 1]
        /\ turns[a] \in Nat
    BY <1>1, <1>2, <1>4 DEF a
  <1>6. turns' \in Seq(Nat) /\ Len(turns') = Len(turns) /\ turns'[a] = turns[a] + 1
    BY <1>1, <1>4, <1>5
  <1>7. \A i \in DOMAIN turns \ {a} : turns'[i] = turns[i]
    BY <1>5
  <1> QED BY <1>1, <1>3, <1>6, <1>7 DEF a

LEMMA UpdateScanInv ==
    ASSUME ScanInv, UpdatePaymasterStatus
    PROVE  ScanInv'
  <1>1. /\ EventShape /\ Head(events) \in DOMAIN hubEvents
        /\ turns' \in Seq(Nat) /\ Len(turns') = Len(turns)
        /\ turns'[Head(events)] = turns[Head(events)] + 1
        /\ \A i \in DOMAIN hubEvents \ {Head(events)} : turns'[i] = turns[i]
    BY TurnsTaken
  <1>2. /\ UNCHANGED <<block, hubEvents, lastScannedBlock, wblock, cut>>
        /\ wpc = "loop" /\ events # << >>
        /\ \/ wpc' = "create" /\ events' = events
           \/ wpc' = "loop" /\ events' = Tail(events)
           \/ wpc' \in {"flag", "reputation"} /\ events' = events
    BY Judged DEF UpdatePaymasterStatus, chainVars
  <1>3. /\ events \in Seq(DOMAIN hubEvents) /\ Tail(events) \in Seq(DOMAIN hubEvents)
        /\ \A i \in ToSet(events) : i = Head(events) \/ i \in ToSet(Tail(events))
        /\ \A i \in DOMAIN hubEvents : turns[i] \in Nat
    BY <1>1, <1>2, EventFacts DEF EventShape
  <1>4. turns'[Head(events)] > 0
    BY <1>1, <1>3
  <1>5. \A i \in DOMAIN hubEvents : turns[i] > 0 => turns'[i] > 0
    BY <1>1, <1>4
  <1>6. /\ events' \in Seq(DOMAIN hubEvents)
        /\ \A i \in ToSet(events) : turns'[i] > 0 \/ i \in ToSet(events') \/ i \in cut'
        /\ wpc' \in InHand => events' # << >> /\ turns'[Head(events')] > 0
        /\ wpc' \notin {"idle", "scan", "scanned"}
    <2>1. CASE wpc' = "loop" /\ events' = Tail(events)
      BY <1>3, <1>4, <2>1 DEF InHand
    <2>2. CASE wpc' \in {"create", "flag", "reputation"} /\ events' = events
      BY <1>2, <1>3, <1>4, <2>2 DEF InHand
    <2> QED BY <1>2, <2>1, <2>2
  <1> QED BY <1>1, <1>2, <1>5, <1>6, ScanKept

LEMMA GetBlockScanInv ==
    ASSUME ScanInv, GetBlock
    PROVE  ScanInv'
  <1>1. /\ UNCHANGED <<block, hubEvents, lastScannedBlock, events, turns, cut>>
        /\ wpc = "idle" /\ wpc' = "scan" /\ wblock' = block
    BY DEF GetBlock, chainVars
  <1>2. EventShape'
    BY <1>1 DEF ScanInv, EventShape, InHand
  <1>3. Covered(lastScannedBlock)'
    BY <1>1 DEF ScanInv, Covered
  <1> QED BY <1>1, <1>2, <1>3 DEF ScanInv

(* What a scan finds: every event after the last scan, so that nothing up  *)
(* to any later block is missing.                                          *)
LEMMA GetAllScanInv ==
    ASSUME ScanInv, GetAllHubEventsSinceLastScan
    PROVE  ScanInv'
  <1> DEFINE D == DOMAIN hubEvents
             q == [i \in D |-> i]
             U == {i \in D : hubEvents[i].blockNumber > lastScannedBlock}
  <1>1. /\ UNCHANGED <<block, hubEvents, lastScannedBlock, wblock, turns, cut>>
        /\ wpc = "scan" /\ wpc' = "scanned"
        /\ events' = Filtered(q, U)
    BY Zenon DEF GetAllHubEventsSinceLastScan, chainVars
  <1>2. /\ EventShape /\ Len(hubEvents) \in Nat /\ D = 1..Len(hubEvents)
        /\ \A i \in D : hubEvents[i].blockNumber \in Nat
        /\ events = << >> /\ lastScannedBlock \in Nat
    BY <1>1, EventFacts DEF ScanInv, EventShape
  <1>3. q \in Seq(D) /\ DOMAIN q = D /\ \A i \in D : q[i] = i
    <2> DEFINE n == Len(hubEvents)
    <2> HIDE DEF n
    <2>1. n \in Nat /\ D = 1..n
      BY <1>2 DEF n
    <2> HIDE DEF D
    <2> QED BY <2>1
  <1> HIDE DEF q
  <1>4. /\ Filtered(q, U) \in Seq(D)
        /\ \A i \in DOMAIN q : q[i] \in U =>
              \E j \in DOMAIN Filtered(q, U) : Filtered(q, U)[j] = q[i]
    <2> HIDE DEF D, U
    <2> QED BY <1>3, FilteredElements
  <1>5. \A i \in U : i \in ToSet(events')
    BY <1>1, <1>3, <1>4, Zenon DEF ToSet, U
  <1>6. events' \in Seq(DOMAIN hubEvents)
    BY <1>1, <1>4
  <1>7. \A i \in D : hubEvents[i].blockNumber <= lastScannedBlock \/ i \in U
    BY <1>2
  <1>8. ~(\E i \in ToSet(events) : TRUE)
    BY <1>2 DEF ToSet
  <1>9. \A i \in D : turns[i] > 0 \/ i \in ToSet(events') \/ i \in cut
    <2> SUFFICES ASSUME NEW i \in D, hubEvents[i].blockNumber <= lastScannedBlock
                 PROVE  turns[i] > 0 \/ i \in cut
      BY <1>5, <1>7
    <2>1. turns[i] > 0 \/ i \in ToSet(events) \/ i \in cut
      BY DEF ScanInv, Covered
    <2> QED BY <1>8, <2>1
  <1>10. \A b : Covered(b)'
    BY <1>1, <1>9 DEF Covered
  <1>11. EventShape'
    BY <1>1, <1>2, <1>6 DEF ScanInv, EventShape, InHand
  <1> QED BY <1>1, <1>10, <1>11 DEF ScanInv

LEMMA SetScanInv ==
    ASSUME ScanInv, SetLastScanned
    PROVE  ScanInv'
  <1>1. /\ UNCHANGED <<block, hubEvents, events, turns, cut>>
        /\ wpc = "scanned" /\ wpc' = "loop" /\ lastScannedBlock' = wblock /\ wblock' = 0
    BY DEF SetLastScanned, chainVars
  <1>2. EventShape'
    BY <1>1 DEF ScanInv, EventShape, InHand
  <1>3. Covered(lastScannedBlock)'
    BY <1>1 DEF ScanInv, Covered
  <1> QED BY <1>1, <1>2, <1>3 DEF ScanInv

(* A block's events are new, later than every scan, and have had no turn.  *)
LEMMA Appended ==
    ASSUME EventShape, MineEvents
    PROVE  /\ UNCHANGED <<entry, pc, pending, wpc, wblock, lastScannedBlock, events,
                          wpending, cut, flags>>
           /\ block' = block + 1
           /\ hubEvents' \in Seq(Change) /\ turns' \in Seq(Nat)
           /\ Len(turns') = Len(hubEvents')
           /\ DOMAIN hubEvents \subseteq DOMAIN hubEvents'
           /\ \A i \in DOMAIN hubEvents : hubEvents'[i] = hubEvents[i] /\ turns'[i] = turns[i]
           /\ \A i \in DOMAIN hubEvents' \ DOMAIN hubEvents :
                 hubEvents'[i].blockNumber = block + 1 /\ turns'[i] = 0
  <1>1. /\ UNCHANGED <<entry, pc, pending, wpc, wblock, lastScannedBlock, events,
                       wpending, cut, flags>>
        /\ block' = block + 1 /\ block \in Nat
    BY DEF MineEvents, requestVars, EventShape
  <1>2. PICK c \in BoundedSeq({1, -1}, MaxEvents - Len(hubEvents)) :
           /\ hubEvents' = hubEvents \o [i \in DOMAIN c |->
                              [blockNumber |-> block + 1, change |-> c[i]]]
           /\ turns' = turns \o [i \in DOMAIN c |-> 0]
    BY DEF MineEvents
  <1>3. PICK n \in Nat : c \in [1..n -> {1, -1}]
    BY <1>2 DEF BoundedSeq, SeqOf
  <1> DEFINE h == [i \in 1..n |-> [blockNumber |-> block + 1, change |-> c[i]]]
             z == [i \in 1..n |-> 0]
             C == Change
  <1>4. hubEvents' = hubEvents \o h /\ turns' = turns \o z
    BY <1>2, <1>3
  <1>5. \A i \in 1..n : h[i] \in C /\ h[i].blockNumber = block + 1
    BY <1>1, <1>3 DEF Change
  <1>6. h \in Seq(C) /\ Len(h) = n /\ z \in Seq(Nat) /\ Len(z) = n /\ \A i \in 1..n : z[i] = 0
    <2>1. z \in Seq(Nat) /\ Len(z) = n /\ \A i \in 1..n : z[i] = 0
      OBVIOUS
    <2>2. h \in [1..n -> C]
      BY <1>5
    <2> HIDE DEF h, C
    <2> QED BY <2>1, <2>2
  <1>7. hubEvents \in Seq(C) /\ turns \in Seq(Nat) /\ Len(turns) = Len(hubEvents)
    BY DEF EventShape
  <1> HIDE DEF h, z, C
  <1>8. /\ hubEvents' \in Seq(C) /\ Len(hubEvents') = Len(hubEvents) + n
        /\ Len(hubEvents) \in Nat
        /\ \A i \in 1..Len(hubEvents) : hubEvents'[i] = hubEvents[i]
        /\ \A i \in (Len(hubEvents) + 1)..(Len(hubEvents) + n) :
              hubEvents'[i] = h[i - Len(hubEvents)]
    <2> DEFINE r == hubEvents \o h
    <2>1. /\ r \in Seq(C) /\ Len(r) = Len(hubEvents) + Len(h) /\ Len(hubEvents) \in Nat
          /\ \A i \in 1..Len(hubEvents) : r[i] = hubEvents[i]
          /\ \A i \in (Len(hubEvents) + 1)..(Len(hubEvents) + Len(h)) :
                r[i] = h[i - Len(hubEvents)]
      BY <1>6, <1>7, SeqAppended
    <2>2. r = hubEvents'
      BY <1>4
    <2> HIDE DEF r
    <2> QED BY <1>6, <2>1, <2>2
  <1>9. /\ turns' \in Seq(Nat) /\ Len(turns') = Len(hubEvents) + n
        /\ \A i \in 1..Len(hubEvents) : turns'[i] = turns[i]
        /\ \A i \in (Len(hubEvents) + 1)..(Len(hubEvents) + n) :
              turns'[i] = z[i - Len(hubEvents)]
    <2> DEFINE r == turns \o z
    <2>1. /\ r \in Seq(Nat) /\ Len(r) = Len(turns) + Len(z)
          /\ \A i \in 1..Len(turns) : r[i] = turns[i]
          /\ \A i \in (Len(turns) + 1)..(Len(turns) + Len(z)) : r[i] = z[i - Len(turns)]
      BY <1>6, <1>7, SeqAppended
    <2>2. r = turns'
      BY <1>4
    <2> HIDE DEF r
    <2> QED BY <1>6, <1>7, <2>1, <2>2
  <1>10. /\ DOMAIN hubEvents = 1..Len(hubEvents)
         /\ DOMAIN hubEvents' = 1..(Len(hubEvents) + n)
    BY <1>7, <1>8
  <1>11. \A i \in DOMAIN hubEvents' \ DOMAIN hubEvents :
            /\ i \in (Len(hubEvents) + 1)..(Len(hubEvents) + n)
            /\ i - Len(hubEvents) \in 1..n
    BY <1>8, <1>10
  <1>12. \A i \in DOMAIN hubEvents' \ DOMAIN hubEvents :
            hubEvents'[i].blockNumber = block + 1 /\ turns'[i] = 0
    BY <1>5, <1>6, <1>8, <1>9, <1>11
  <1>13. DOMAIN hubEvents \subseteq DOMAIN hubEvents'
    BY <1>8, <1>10
  <1> QED BY <1>1, <1>8, <1>9, <1>10, <1>12, <1>13 DEF C

LEMMA BlockScanInv ==
    ASSUME ScanInv, MineEvents
    PROVE  ScanInv'
  <1>1. EventShape /\ events \in Seq(DOMAIN hubEvents)
    BY DEF ScanInv, EventShape
  <1>2. /\ UNCHANGED <<wpc, wblock, lastScannedBlock, events, cut>>
        /\ block' = block + 1
        /\ hubEvents' \in Seq(Change) /\ turns' \in Seq(Nat)
        /\ Len(turns') = Len(hubEvents')
        /\ DOMAIN hubEvents \subseteq DOMAIN hubEvents'
        /\ \A i \in DOMAIN hubEvents : hubEvents'[i] = hubEvents[i] /\ turns'[i] = turns[i]
        /\ \A i \in DOMAIN hubEvents' \ DOMAIN hubEvents :
              hubEvents'[i].blockNumber = block + 1 /\ turns'[i] = 0
    BY <1>1, Appended
  <1>3. events' \in Seq(DOMAIN hubEvents')
    <2> DEFINE D == DOMAIN hubEvents
               E == DOMAIN hubEvents'
    <2> events \in Seq(D) /\ D \subseteq E
      BY <1>1, <1>2
    <2> HIDE DEF D, E
    <2> events \in Seq(E)
      OBVIOUS
    <2> QED BY <1>2 DEF E
  <1>4. block \in Nat /\ lastScannedBlock \in 0..block /\ wblock \in 0..block
    BY <1>1 DEF EventShape
  <1>5. block' \in Nat /\ lastScannedBlock' \in 0..block' /\ wblock' \in 0..block'
    BY <1>2, <1>4
  <1>6. \A i \in DOMAIN hubEvents' : hubEvents'[i].blockNumber <= block'
    <2> SUFFICES ASSUME NEW i \in DOMAIN hubEvents' PROVE hubEvents'[i].blockNumber <= block'
      OBVIOUS
    <2>1. CASE i \in DOMAIN hubEvents
      <3>1. hubEvents[i].blockNumber <= block /\ hubEvents[i].blockNumber \in Nat
        BY <1>1, <2>1, EventFacts DEF EventShape
      <3>2. hubEvents'[i].blockNumber = hubEvents[i].blockNumber
        BY <1>2, <2>1
      <3> QED BY <1>2, <1>4, <3>1, <3>2
    <2>2. CASE i \notin DOMAIN hubEvents
      BY <1>2, <1>4, <2>2
    <2> QED BY <2>1, <2>2
  <1>7. wpc' \in InHand => events' # << >> /\ turns'[Head(events')] > 0
    BY <1>1, <1>2, EventFacts DEF EventShape, InHand
  <1>8. EventShape'
    BY <1>1, <1>2, <1>3, <1>5, <1>6, <1>7 DEF ScanInv, EventShape, InHand
  <1>9. \A b \in 0..block : Covered(b) => Covered(b)'
    <2> SUFFICES ASSUME NEW b \in 0..block, Covered(b),
                        NEW i \in DOMAIN hubEvents', hubEvents'[i].blockNumber <= b
                 PROVE  turns'[i] > 0 \/ i \in ToSet(events') \/ i \in cut'
      BY DEF Covered
    <2>1. i \in DOMAIN hubEvents
      BY <1>2, <1>4
    <2> QED BY <1>2, <2>1 DEF Covered
  <1>10. Covered(lastScannedBlock)' /\ (wpc' = "scanned" => Covered(wblock)')
    BY <1>2, <1>4, <1>9 DEF ScanInv
  <1> QED BY <1>8, <1>10 DEF ScanInv

LEMMA RestartScanInv ==
    ASSUME ScanInv, RestartWorker
    PROVE  ScanInv'
  <1>1. /\ UNCHANGED <<block, hubEvents, turns>>
        /\ lastScannedBlock' = IF block > ColdScanBlocks THEN block - ColdScanBlocks ELSE 0
        /\ wpc' = "idle" /\ events' = << >> /\ wblock' = 0
        /\ {i \in DOMAIN hubEvents : hubEvents[i].blockNumber <= lastScannedBlock'}
             \subseteq cut'
    BY DEF RestartWorker, chainVars
  <1>2. block \in Nat /\ ColdScanBlocks \in Nat
    BY Windows DEF ScanInv, EventShape
  <1>3. lastScannedBlock' \in 0..block
    BY <1>1, <1>2
  <1>4. events' \in Seq(DOMAIN hubEvents)
    <2> DEFINE D == DOMAIN hubEvents
    <2> HIDE DEF D
    <2> events' \in Seq(D)
      BY <1>1
    <2> QED BY DEF D
  <1>5. EventShape'
    BY <1>1, <1>2, <1>3, <1>4 DEF ScanInv, EventShape, InHand
  <1>6. Covered(lastScannedBlock)'
    BY <1>1 DEF Covered
  <1> QED BY <1>1, <1>5, <1>6 DEF ScanInv

LEMMA StepScanInv ==
    ASSUME ScanInv, [ReputationNext]_reputationVars
    PROVE  ScanInv'
  <1>1. CASE Tick \/ UNCHANGED reputationVars
    <2>1. UNCHANGED <<block, hubEvents, lastScannedBlock, wblock, turns, events, cut, wpc>>
      BY <1>1 DEF Tick, reputationVars, chainVars, workerVars
    <2> QED BY <2>1, ScanKept DEF ScanInv, EventShape
  <1> QED
    BY <1>1, RequestScanInv, WorkerScanInv, UpdateScanInv, GetBlockScanInv, GetAllScanInv,
       SetScanInv, BlockScanInv, RestartScanInv DEF ReputationNext

(* Nothing that lies behind lastScannedBlock is lost without a trace,      *)
(* however blocks, passes that throw and restarts fall between the block   *)
(* number, the scan and its bookkeeping: _handleChanges,                   *)
(* getAllHubEventsSinceLastScan.                                           *)
THEOREM NoEventFallsBetweenScans == ReputationSpec => []NoEventSkipped
  <1>1. ReputationInit => ScanInv
    BY InitScanInv
  <1>2. ScanInv /\ [ReputationNext]_reputationVars => ScanInv'
    BY StepScanInv
  <1>3. ScanInv => NoEventSkipped
    BY Scanned
  <1> QED BY <1>1, <1>2, <1>3, PTL DEF ReputationSpec

----------------------------------------------------------------------------
(* Losses after a block, and how often a list of changes or the turns of   *)
(* the hub's events counted them.                                          *)
LossesAfter(b) == {c \in Change : c.change = -1 /\ c.blockNumber > b}

LossEvents(b) == {i \in DOMAIN hubEvents : hubEvents[i] \in LossesAfter(b)}

Listed(changes, b) == Cardinality({j \in DOMAIN changes : changes[j] \in LossesAfter(b)})

LossTurns == [b \in Int |-> SumFunctionOnSet(turns, LossEvents(b))]

(* The turn of the event in hand is in no list before the list is written. *)
Unlisted ==
    [b \in Int |-> IF wpc \in {"create", "flag", "flagWrite", "reputation"}
                      /\ Head(events) \in LossEvents(b) THEN 1 ELSE 0]

Known == [b \in Int |-> LossTurns[b] - Unlisted[b]]

(* A list of changes that counts no loss more often than known says.       *)
Sound(changes, known) ==
    /\ changes \in Seq(Change)
    /\ \A b \in Int : Listed(changes, b) <= known[b]

SoundEntry(e, known) == "changes" \in DOMAIN e /\ Sound(e.changes, known)

LEMMA ListedType ==
    ASSUME NEW changes \in Seq(Change), NEW b
    PROVE  /\ IsFiniteSet({j \in DOMAIN changes : changes[j] \in LossesAfter(b)})
           /\ Listed(changes, b) \in Nat
  <1> DEFINE S == {j \in DOMAIN changes : changes[j] \in LossesAfter(b)}
  <1>1. DOMAIN changes = 1..Len(changes) /\ Len(changes) \in Nat
    <2> DEFINE C == Change
    <2> changes \in Seq(C)
      OBVIOUS
    <2> HIDE DEF C
    <2> QED OBVIOUS
  <1>2. IsFiniteSet(DOMAIN changes) /\ S \subseteq DOMAIN changes
    BY <1>1, FS_Interval
  <1> HIDE DEF S
  <1>3. IsFiniteSet(S)
    BY <1>2, FS_Subset
  <1> QED BY <1>3, FS_CardinalityType DEF S, Listed

LEMMA SoundMore ==
    ASSUME NEW known \in [Int -> Int], NEW more \in [Int -> Int],
           \A b \in Int : known[b] <= more[b],
           NEW changes, Sound(changes, known)
    PROVE  Sound(changes, more)
  <1> SUFFICES ASSUME NEW b \in Int PROVE Listed(changes, b) <= more[b]
    BY DEF Sound
  <1>1. Listed(changes, b) \in Nat /\ Listed(changes, b) <= known[b]
    BY ListedType DEF Sound
  <1>2. known[b] \in Int /\ more[b] \in Int /\ known[b] <= more[b]
    OBVIOUS
  <1> QED BY <1>1, <1>2

(* Filtered, a list counts no more.                                        *)
LEMMA FilteredSound ==
    ASSUME NEW known \in [Int -> Int], NEW changes, Sound(changes, known), NEW T
    PROVE  Sound(Filtered(changes, T), known)
  <1> DEFINE C == Change
             r == Filtered(changes, T)
  <1>1. changes \in Seq(C) /\ \A b \in Int : Listed(changes, b) <= known[b]
    BY DEF Sound
  <1>2. r \in Seq(C)
    <2> HIDE DEF C
    <2> QED BY <1>1, FilteredPicks
  <1>3. ASSUME NEW b \in Int PROVE Listed(r, b) <= known[b]
    <2>1. Listed(r, b) <= Listed(changes, b)
      <3> DEFINE U == LossesAfter(b)
      <3>1. Cardinality({j \in DOMAIN Filtered(changes, T) : Filtered(changes, T)[j] \in U})
              <= Cardinality({i \in DOMAIN changes : changes[i] \in U})
        <4> HIDE DEF C, U
        <4> QED BY <1>1, FilteredCount
      <3> QED BY <3>1 DEF Listed
    <2>2. Listed(r, b) \in Nat /\ Listed(changes, b) \in Nat
      BY <1>1, <1>2, ListedType
    <2>3. Listed(changes, b) <= known[b] /\ known[b] \in Int
      BY <1>1
    <2> HIDE DEF r
    <2> QED BY <2>1, <2>2, <2>3
  <1> QED BY <1>2, <1>3 DEF Sound

LEMMA AppendedListed ==
    ASSUME NEW changes \in Seq(Change), NEW c \in Change, NEW b
    PROVE  /\ Append(changes, c) \in Seq(Change)
           /\ Listed(Append(changes, c), b)
                = Listed(changes, b) + (IF c \in LossesAfter(b) THEN 1 ELSE 0)
  <1> DEFINE C == Change
             U == LossesAfter(b)
  <1>1. changes \in Seq(C) /\ c \in C
    OBVIOUS
  <1>2. Append(changes, c) \in Seq(C)
    <2> HIDE DEF C
    <2> QED BY <1>1
  <1>3. Cardinality({j \in DOMAIN Append(changes, c) : Append(changes, c)[j] \in U})
          = Cardinality({i \in DOMAIN changes : changes[i] \in U}) + (IF c \in U THEN 1 ELSE 0)
    <2> HIDE DEF C, U
    <2> QED BY <1>1, AppendedCount
  <1> QED BY <1>2, <1>3 DEF Listed

(* With one more change, a list counts one more loss at most.              *)
LEMMA AppendedSound ==
    ASSUME NEW known \in [Int -> Int], NEW more \in [Int -> Int],
           NEW changes, Sound(changes, known), NEW c \in Change,
           \A b \in Int : known[b] + (IF c \in LossesAfter(b) THEN 1 ELSE 0) <= more[b]
    PROVE  Sound(Append(changes, c), more)
  <1> DEFINE C == Change
             r == Append(changes, c)
  <1>1. changes \in Seq(C) /\ c \in C /\ \A b \in Int : Listed(changes, b) <= known[b]
    BY DEF Sound
  <1>2. r \in Seq(C)
    BY <1>1, AppendedListed
  <1>3. ASSUME NEW b \in Int PROVE Listed(r, b) <= more[b]
    <2> DEFINE U == LossesAfter(b)
               u == IF c \in U THEN 1 ELSE 0
    <2>1. Listed(r, b) = Listed(changes, b) + u
      BY <1>1, AppendedListed
    <2>2. Listed(changes, b) \in Nat /\ Listed(changes, b) <= known[b]
      BY <1>1, ListedType
    <2>3. known[b] + u <= more[b] /\ known[b] \in Int /\ more[b] \in Int /\ u \in {0, 1}
      OBVIOUS
    <2> HIDE DEF r, u
    <2> QED BY <2>1, <2>2, <2>3
  <1> QED BY <1>2, <1>3 DEF Sound

(* What the turns of the hub's events count does not shrink.               *)
LEMMA LossTurnsType ==
    ASSUME EventShape
    PROVE  /\ LossTurns \in [Int -> Int]
           /\ \A b \in Int : /\ IsFiniteSet(LossEvents(b))
                              /\ \A i \in LossEvents(b) : turns[i] \in Nat
  <1>1. /\ Len(hubEvents) \in Nat /\ DOMAIN hubEvents = 1..Len(hubEvents)
        /\ \A i \in DOMAIN hubEvents : turns[i] \in Nat
    BY EventFacts
  <1>2. ASSUME NEW b \in Int
        PROVE  IsFiniteSet(LossEvents(b)) /\ \A i \in LossEvents(b) : turns[i] \in Nat
    <2>1. IsFiniteSet(DOMAIN hubEvents)
      BY <1>1, FS_Interval
    <2>2. LossEvents(b) \subseteq DOMAIN hubEvents
      BY DEF LossEvents
    <2> QED BY <1>1, <2>1, <2>2, FS_Subset
  <1>3. ASSUME NEW b \in Int PROVE SumFunctionOnSet(turns, LossEvents(b)) \in Int
    <2>1. \A i \in LossEvents(b) : turns[i] \in Int
      BY <1>2
    <2> QED BY <1>2, <2>1, SumOnInt
  <1> QED BY <1>2, <1>3 DEF LossTurns

LEMMA KnownType ==
    ASSUME EventShape
    PROVE  Unlisted \in [Int -> {0, 1}] /\ Known \in [Int -> Int]
  <1>1. Unlisted \in [Int -> {0, 1}]
    BY DEF Unlisted
  <1> QED BY <1>1, LossTurnsType DEF Known

(* Between its turn and the write of the list that has it.                 *)
Judging == {"create", "flag", "flagWrite", "reputation"}

KnownGrows == \A b \in Int : LossTurns[b] <= LossTurns'[b] /\ Known[b] <= Known'[b]

LEMMA KnownNat ==
    ASSUME EventShape, NEW b \in Int
    PROVE  0 <= Known[b] /\ Known[b] <= LossTurns[b]
  <1> DEFINE S == LossEvents(b)
             a == Head(events)
  <1>1. IsFiniteSet(S) /\ \A i \in S : turns[i] \in Nat
    BY LossTurnsType
  <1>2. LossTurns[b] = SumFunctionOnSet(turns, S) /\ LossTurns[b] \in Int
    BY LossTurnsType DEF LossTurns
  <1>3. Known[b] = LossTurns[b] - Unlisted[b] /\ Unlisted[b] \in {0, 1}
    BY KnownType DEF Known
  <1>4. ASSUME NEW R \in SUBSET S PROVE SumFunctionOnSet(turns, R) \in Int
                                        /\ 0 <= SumFunctionOnSet(turns, R)
    <2>1. IsFiniteSet(R) /\ \A i \in R : turns[i] \in Int /\ turns[i] \in Nat
      BY <1>1, FS_Subset
    <2>2. {} \subseteq R /\ \A i \in {} : turns[i] \in Int /\ turns[i] <= turns[i]
      OBVIOUS
    <2> HIDE DEF S
    <2>3. SumFunctionOnSet(turns, {}) <= SumFunctionOnSet(turns, R)
      BY <2>1, <2>2, SumOnGrows
    <2> QED BY <2>1, <2>3, SumOnEmpty, SumOnInt
  <1>5. CASE Unlisted[b] = 0
    <2>1. 0 <= SumFunctionOnSet(turns, S)
      BY <1>4
    <2> QED BY <1>2, <1>3, <1>5, <2>1
  <1>6. CASE Unlisted[b] = 1
    <2>1. wpc \in InHand /\ a \in S
      BY <1>6 DEF Unlisted, InHand
    <2>2. turns[a] \in Nat /\ turns[a] > 0
      BY <1>1, <2>1 DEF EventShape
    <2>3. /\ SumFunctionOnSet(turns, S \ {a}) \in Int
          /\ SumFunctionOnSet(turns, S) = turns[a] + SumFunctionOnSet(turns, S \ {a})
      <3>1. \A i \in S : turns[i] \in Int
        BY <1>1
      <3> HIDE DEF S, a
      <3> QED BY <1>1, <2>1, <3>1, SumOnAdd
    <2>4. 0 <= SumFunctionOnSet(turns, S \ {a})
      BY <1>4
    <2> HIDE DEF S, a
    <2> QED BY <1>2, <1>3, <1>6, <2>2, <2>3, <2>4
  <1> QED BY <1>3, <1>5, <1>6

(* No step takes an event or a turn back.                                  *)
LEMMA TurnsStay ==
    ASSUME ScanInv, [ReputationNext]_reputationVars
    PROVE  \A i \in DOMAIN hubEvents :
              /\ i \in DOMAIN hubEvents' /\ hubEvents'[i] = hubEvents[i]
              /\ turns[i] \in Nat /\ turns'[i] \in Nat /\ turns[i] <= turns'[i]
  <1>1. EventShape /\ \A i \in DOMAIN hubEvents : turns[i] \in Nat
    BY EventFacts DEF ScanInv
  <1>2. CASE MineEvents
    BY <1>1, <1>2, Appended
  <1>3. CASE UpdatePaymasterStatus
    <2>1. /\ turns'[Head(events)] = turns[Head(events)] + 1
          /\ \A i \in DOMAIN hubEvents \ {Head(events)} : turns'[i] = turns[i]
      BY <1>3, TurnsTaken
    <2>2. hubEvents' = hubEvents
      BY <1>3 DEF UpdatePaymasterStatus, chainVars
    <2> QED BY <1>1, <2>1, <2>2
  <1>4. CASE UNCHANGED <<hubEvents, turns>>
    BY <1>1, <1>4
  <1>5. CASE \E r \in RelayRequests :
               \/ ValidatePaymasterReputation(r) \/ GetPaymasterStatus(r)
               \/ CreateEntry(r) \/ ClearAbuseFlag(r) \/ ClearAbuseFlagWrite(r)
               \/ OnRelayRequestAccepted(r) \/ OnRelayRequestAcceptedWrite(r)
    <2>1. UNCHANGED <<hubEvents, turns>>
      BY <1>5 DEF ValidatePaymasterReputation, GetPaymasterStatus, CreateEntry,
             ClearAbuseFlag, ClearAbuseFlagWrite, OnRelayRequestAccepted,
             OnRelayRequestAcceptedWrite, chainVars, workerVars
    <2> QED BY <1>4, <2>1
  <1>6. CASE \/ GetBlock \/ GetAllHubEventsSinceLastScan \/ SetLastScanned
             \/ PassEnds \/ CreateEntryByWorker \/ SetAbuseFlag
             \/ SetAbuseFlagWrite \/ UpdatePaymasterReputation \/ UpdateEntry
             \/ UpdateEntryWrite \/ Tick \/ RestartWorker \/ UNCHANGED reputationVars
    <2>1. UNCHANGED <<hubEvents, turns>>
      BY <1>6 DEF GetBlock, GetAllHubEventsSinceLastScan, SetLastScanned,
             PassEnds, CreateEntryByWorker, SetAbuseFlag, SetAbuseFlagWrite,
             UpdatePaymasterReputation, UpdateEntry, UpdateEntryWrite, Tick,
             RestartWorker, reputationVars, chainVars, workerVars
    <2> QED BY <1>4, <2>1
  <1> QED BY <1>2, <1>3, <1>5, <1>6 DEF ReputationNext

TurnsType ==
    /\ LossTurns \in [Int -> Int] /\ Known \in [Int -> Int]
    /\ Unlisted \in [Int -> {0, 1}]
    /\ IsFiniteSet(DOMAIN hubEvents)
    /\ \A i \in DOMAIN hubEvents : turns[i] \in Nat

LEMMA NextTurnsType == EventShape' => TurnsType'
  <1>1. EventShape => TurnsType
    <2> SUFFICES ASSUME EventShape PROVE TurnsType
      OBVIOUS
    <2>1. /\ Len(hubEvents) \in Nat /\ DOMAIN hubEvents = 1..Len(hubEvents)
          /\ \A i \in DOMAIN hubEvents : turns[i] \in Nat
      BY EventFacts
    <2>2. IsFiniteSet(DOMAIN hubEvents)
      BY <2>1, FS_Interval
    <2>3. LossTurns \in [Int -> Int]
      BY LossTurnsType
    <2> QED BY <2>1, <2>2, <2>3, KnownType DEF TurnsType
  <1> QED BY <1>1, PTL

(* What is known stays known, unless the worker takes up an event, whose   *)
(* turn then makes up for it.                                              *)
LEMMA KnownStays ==
    ASSUME ScanInv, ScanInv', [ReputationNext]_reputationVars,
           wpc' \in Judging =>
               events' = events /\ wpc' \in InHand /\ Head(events) \in DOMAIN hubEvents,
           wpc' \in Judging /\ wpc \notin Judging =>
               turns'[Head(events)] = turns[Head(events)] + 1
    PROVE  KnownGrows
  <1>1. /\ EventShape /\ EventShape'
        /\ \A i \in DOMAIN hubEvents :
              /\ i \in DOMAIN hubEvents' /\ hubEvents'[i] = hubEvents[i]
              /\ turns[i] \in Nat /\ turns'[i] \in Nat /\ turns[i] <= turns'[i]
    BY TurnsStay DEF ScanInv
  <1> SUFFICES ASSUME NEW b \in Int
               PROVE  LossTurns[b] <= LossTurns'[b] /\ Known[b] <= Known'[b]
    BY DEF KnownGrows
  <1> DEFINE S == LossEvents(b)
             T == {i \in DOMAIN hubEvents' : hubEvents'[i] \in LossesAfter(b)}
             a == Head(events)
             m == turns'
  <1>2. S \subseteq T /\ S \subseteq DOMAIN hubEvents
    BY <1>1 DEF LossEvents
  <1>3. IsFiniteSet(T) /\ IsFiniteSet(S)
    BY <1>1, <1>2, NextTurnsType, FS_Subset DEF TurnsType
  <1>4. /\ \A i \in T : m[i] \in Nat /\ m[i] \in Int
        /\ \A i \in S : turns[i] \in Int /\ turns[i] <= m[i]
    BY <1>1, <1>2, NextTurnsType DEF TurnsType
  <1>5. /\ LossTurns[b] = SumFunctionOnSet(turns, S) /\ LossTurns'[b] = SumFunctionOnSet(m, T)
        /\ LossTurns[b] \in Int /\ LossTurns'[b] \in Int
    BY <1>1, LossTurnsType, NextTurnsType DEF TurnsType, LossTurns, LossEvents
  <1>6. /\ Known[b] = LossTurns[b] - Unlisted[b] /\ Known'[b] = LossTurns'[b] - Unlisted'[b]
        /\ Unlisted[b] \in {0, 1} /\ Unlisted'[b] \in {0, 1}
    BY <1>1, KnownType, NextTurnsType DEF TurnsType, Known
  <1>7. /\ Unlisted[b] = 1 <=> wpc \in Judging /\ a \in S
        /\ Unlisted'[b] = 1 => wpc' \in Judging /\ a \in S
    <2>1. Unlisted'[b] = 1 => wpc' \in Judging /\ Head(events') \in T
      BY DEF Unlisted, Judging, LossEvents
    <2>2. wpc' \in Judging /\ Head(events') \in T => a \in S
      BY <1>1 DEF LossEvents
    <2>3. Unlisted[b] = 1 <=> wpc \in Judging /\ a \in S
      BY DEF Unlisted, Judging
    <2> QED BY <2>1, <2>2, <2>3
  <1> HIDE DEF S, T, a, m
  <1>8. LossTurns[b] <= LossTurns'[b]
    <2>1. SumFunctionOnSet(turns, S) <= SumFunctionOnSet(m, T)
      BY <1>2, <1>3, <1>4, SumOnGrows
    <2> QED BY <1>5, <2>1
  <1>9. CASE Unlisted'[b] = 1 => Unlisted[b] = 1
    BY <1>5, <1>6, <1>8, <1>9
  <1>10. CASE Unlisted'[b] = 1 /\ Unlisted[b] = 0
    <2>1. a \in S /\ a \in T /\ m[a] = turns[a] + 1
      BY <1>2, <1>7, <1>10 DEF a, m
    <2>2. /\ SumFunctionOnSet(turns, S) = turns[a] + SumFunctionOnSet(turns, S \ {a})
          /\ SumFunctionOnSet(turns, S \ {a}) \in Int
      BY <1>3, <1>4, <2>1, SumOnAdd
    <2>3. /\ SumFunctionOnSet(m, T) = m[a] + SumFunctionOnSet(m, T \ {a})
          /\ SumFunctionOnSet(m, T \ {a}) \in Int
      BY <1>3, <1>4, <2>1, SumOnAdd
    <2>4. /\ S \ {a} \subseteq T \ {a} /\ IsFiniteSet(T \ {a})
          /\ \A i \in S \ {a} : turns[i] \in Int /\ turns[i] <= m[i]
          /\ \A i \in T \ {a} : m[i] \in Nat
      BY <1>2, <1>3, <1>4, FS_Subset
    <2>5. SumFunctionOnSet(turns, S \ {a}) <= SumFunctionOnSet(m, T \ {a})
      BY <2>4, SumOnGrows
    <2>6. turns[a] \in Int /\ m[a] \in Int
      BY <1>4, <2>1
    <2> QED BY <1>5, <1>6, <1>8, <1>10, <2>1, <2>2, <2>3, <2>5, <2>6
  <1> QED BY <1>6, <1>9, <1>10

----------------------------------------------------------------------------
(* Every copy of the paymaster's entry that may reach the store counts no  *)
(* loss more often than it had its turn.                                   *)
RequestLists ==
    \A r \in RelayRequests :
        /\ pc[r] \in {"clear", "clearWrite", "acceptWrite"}
             => SoundEntry(entry, Known)
        /\ pc[r] \in {"clearWrite", "acceptWrite"} => SoundEntry(pending[r], Known)

WorkerLists ==
    /\ wpc \in {"flag", "flagWrite", "reputation", "update", "updateWrite"}
         => SoundEntry(entry, Known)
    /\ wpc \in {"flagWrite", "updateWrite"} => SoundEntry(wpending, Known)
    /\ wpc = "update" => Sound(wpending.changes, Known)

ListsInv ==
    /\ DOMAIN pc = RelayRequests /\ DOMAIN pending = RelayRequests
    /\ entry = NoEntry \/ SoundEntry(entry, Known)
    /\ RequestLists
    /\ WorkerLists

(* The losses a flag at block f stands for.                                *)
Earned(f) == LossTurns[f - AbuseTimeWindowBlocks] >= AbuseReputationChange

FlagsInv ==
    /\ wpc \in {"flag", "flagWrite"} => Earned(EventBlock)
    /\ \A f \in flags : f \in Int /\ Earned(f)

LEMMA MoreKnown ==
    ASSUME ScanInv, ScanInv', KnownGrows
    PROVE  /\ \A e : SoundEntry(e, Known) => SoundEntry(e, Known')
           /\ \A changes : Sound(changes, Known) => Sound(changes, Known')
  <1>1. Known \in [Int -> Int] /\ Known' \in [Int -> Int]
    BY KnownType, NextTurnsType DEF ScanInv, TurnsType
  <1>2. \A b \in Int : Known[b] <= Known'[b]
    BY DEF KnownGrows
  <1>3. \A changes : Sound(changes, Known) => Sound(changes, Known')
    <2> DEFINE k == Known
               n == Known'
    <2>1. k \in [Int -> Int] /\ n \in [Int -> Int] /\ \A b \in Int : k[b] <= n[b]
      BY <1>1, <1>2
    <2> HIDE DEF k, n
    <2>2. \A changes : Sound(changes, k) => Sound(changes, n)
      BY <2>1, SoundMore
    <2> QED BY <2>2 DEF k, n
  <1> QED BY <1>3 DEF SoundEntry

(* Neither the store nor a request moves.                                  *)
LEMMA RequestsKept ==
    ASSUME ListsInv, ScanInv, ScanInv', KnownGrows, UNCHANGED <<pc, pending>>,
           entry' = entry \/ SoundEntry(entry', Known')
    PROVE  /\ DOMAIN pc' = RelayRequests /\ DOMAIN pending' = RelayRequests
           /\ entry' = NoEntry \/ SoundEntry(entry', Known')
           /\ RequestLists'
  <1>1. /\ DOMAIN pc' = RelayRequests /\ DOMAIN pending' = RelayRequests
        /\ entry' = NoEntry \/ SoundEntry(entry', Known')
    BY MoreKnown DEF ListsInv
  <1>2. \A r \in RelayRequests :
          /\ pc'[r] \in {"clear", "clearWrite", "acceptWrite"}
               => SoundEntry(entry', Known')
          /\ pc'[r] \in {"clearWrite", "acceptWrite"} => SoundEntry(pending'[r], Known')
    BY MoreKnown DEF ListsInv, RequestLists
  <1> QED BY <1>1, <1>2 DEF RequestLists

LEMMA FreshSound ==
    ASSUME EventShape
    PROVE  SoundEntry(FreshEntry, Known)
  <1>1. "changes" \in DOMAIN FreshEntry /\ FreshEntry.changes = << >>
    BY DEF FreshEntry
  <1>2. << >> \in Seq(Change)
    <2> DEFINE C == Change
    <2> HIDE DEF C
    <2> << >> \in Seq(C)
      OBVIOUS
    <2> QED BY DEF C
  <1>3. ASSUME NEW b \in Int PROVE Listed(<< >>, b) <= Known[b]
    <2>1. {j \in DOMAIN << >> : << >>[j] \in LossesAfter(b)} = {}
      OBVIOUS
    <2>2. Listed(<< >>, b) = 0
      BY <2>1, FS_EmptySet DEF Listed
    <2> QED BY <2>2, KnownNat
  <1> QED BY <1>1, <1>2, <1>3 DEF SoundEntry, Sound

LEMMA SameChanges ==
    ASSUME NEW e, NEW known, SoundEntry(e, known), NEW reputation, NEW started, NEW ts
    PROVE  /\ SoundEntry([e EXCEPT !.reputation = reputation, !.abuseStartedBlock = started],
                         known)
           /\ SoundEntry([e EXCEPT !.lastAcceptedRelayRequestTs = ts], known)
           /\ SoundEntry([e EXCEPT !.abuseStartedBlock = started], known)
  BY DEF SoundEntry

LEMMA NewList ==
    ASSUME NEW e, NEW known, SoundEntry(e, known), NEW reputation,
           NEW changes, Sound(changes, known)
    PROVE  SoundEntry([e EXCEPT !.reputation = reputation, !.changes = changes], known)
  BY DEF SoundEntry

(* A step of request r.                                                    *)
LEMMA RequestKept ==
    ASSUME ListsInv, ScanInv, ScanInv', KnownGrows, UNCHANGED <<wpc, wpending>>,
           NEW r \in RelayRequests, NEW w, NEW p,
           pc' = [pc EXCEPT ![r] = w],
           pending' = pending \/ pending' = [pending EXCEPT ![r] = p],
           entry' = entry \/ SoundEntry(entry', Known'),
           w \in {"clear", "clearWrite", "acceptWrite"}
             => SoundEntry(entry', Known'),
           w \in {"clearWrite", "acceptWrite"} => SoundEntry(pending'[r], Known')
    PROVE  ListsInv'
  <1>1. /\ DOMAIN pc' = RelayRequests /\ DOMAIN pending' = RelayRequests /\ pc'[r] = w
        /\ \A s \in RelayRequests \ {r} : pc'[s] = pc[s] /\ pending'[s] = pending[s]
    BY DEF ListsInv
  <1>2. entry' = NoEntry \/ SoundEntry(entry', Known')
    BY MoreKnown DEF ListsInv
  <1>3. ASSUME NEW s \in RelayRequests
        PROVE  /\ pc'[s] \in {"clear", "clearWrite", "acceptWrite"}
                    => SoundEntry(entry', Known')
               /\ pc'[s] \in {"clearWrite", "acceptWrite"} => SoundEntry(pending'[s], Known')
    <2>1. CASE s = r
      BY <1>1, <2>1
    <2>2. CASE s # r
      BY <1>1, <2>2, MoreKnown DEF ListsInv, RequestLists
    <2> QED BY <2>1, <2>2
  <1>4. WorkerLists'
    BY MoreKnown DEF ListsInv, WorkerLists
  <1> QED BY <1>1, <1>2, <1>3, <1>4 DEF ListsInv, RequestLists

LEMMA RequestListsInv ==
    ASSUME ListsInv, ScanInv, ScanInv', KnownGrows, NEW r \in RelayRequests,
           \/ ValidatePaymasterReputation(r) \/ GetPaymasterStatus(r)
           \/ CreateEntry(r) \/ ClearAbuseFlag(r) \/ ClearAbuseFlagWrite(r)
           \/ OnRelayRequestAccepted(r) \/ OnRelayRequestAcceptedWrite(r)
    PROVE  ListsInv'
  <1>1. CASE ValidatePaymasterReputation(r)
    <2>1. /\ UNCHANGED <<entry, pending, wpc, wpending>>
          /\ \E w \in {"waiting", "validating"} : pc' = [pc EXCEPT ![r] = w]
      BY <1>1 DEF ValidatePaymasterReputation, workerVars
    <2> QED BY <2>1, RequestKept
  <1>2. CASE GetPaymasterStatus(r)
    <2>1. /\ UNCHANGED <<entry, pending, wpc, wpending>>
          /\ \/ pc' = [pc EXCEPT ![r] = "create"]
             \/ entry # NoEntry /\ pc' = [pc EXCEPT ![r] = "refused"]
             \/ entry # NoEntry /\ pc' = [pc EXCEPT ![r] = "clear"]
             \/ entry # NoEntry /\ pc' = [pc EXCEPT ![r] = "validating"]
      BY <1>2 DEF GetPaymasterStatus, DecideStatus, Answer, workerVars
    <2>2. entry # NoEntry => SoundEntry(entry', Known')
      BY <2>1, MoreKnown DEF ListsInv
    <2> QED BY <2>1, <2>2, RequestKept
  <1>3. CASE CreateEntry(r)
    <2>1. /\ UNCHANGED <<pending, wpc, wpending>>
          /\ \/ entry' = entry /\ pc' = [pc EXCEPT ![r] = "failed"]
             \/ /\ entry' = FreshEntry
                /\ \/ pc' = [pc EXCEPT ![r] = "refused"]
                   \/ pc' = [pc EXCEPT ![r] = "clear"]
                   \/ pc' = [pc EXCEPT ![r] = "validating"]
      BY <1>3 DEF CreateEntry, DecideStatus, Answer, workerVars
    <2>2. entry' = FreshEntry => SoundEntry(entry', Known')
      BY FreshSound, MoreKnown DEF ScanInv
    <2> QED BY <2>1, <2>2, RequestKept
  <1>4. CASE ClearAbuseFlag(r)
    <2> DEFINE p == [entry EXCEPT !.reputation = AbuseTimeoutReputation,
                                  !.abuseStartedBlock = 0]
    <2>1. /\ UNCHANGED <<entry, wpc, wpending>> /\ pc[r] = "clear"
          /\ pending' = [pending EXCEPT ![r] = p]
          /\ pc' = [pc EXCEPT ![r] = "clearWrite"]
      BY <1>4 DEF ClearAbuseFlag, workerVars
    <2>2. SoundEntry(entry, Known)
      BY <2>1 DEF ListsInv, RequestLists
    <2>3. SoundEntry(p, Known)
      BY <2>2, SameChanges
    <2>4. SoundEntry(p, Known') /\ SoundEntry(entry', Known')
      BY <2>1, <2>2, <2>3, MoreKnown
    <2> HIDE DEF p
    <2>5. pending'[r] = p
      BY <2>1 DEF ListsInv
    <2> QED BY <2>1, <2>4, <2>5, RequestKept
  <1>5. CASE ClearAbuseFlagWrite(r)
    <2>1. /\ UNCHANGED <<wpc, wpending>> /\ pc[r] = "clearWrite"
          /\ entry' = pending[r] /\ pending' = [pending EXCEPT ![r] = NoEntry]
          /\ pc' = [pc EXCEPT ![r] = "refused"] \/ pc' = [pc EXCEPT ![r] = "validating"]
      BY <1>5 DEF ClearAbuseFlagWrite, Answer, workerVars
    <2>2. SoundEntry(entry', Known')
      BY <2>1, MoreKnown DEF ListsInv, RequestLists
    <2> QED BY <2>1, <2>2, RequestKept
  <1>6. CASE OnRelayRequestAccepted(r) /\ entry = NoEntry
    <2>1. /\ UNCHANGED <<entry, pending, wpc, wpending>>
          /\ pc' = [pc EXCEPT ![r] = "failed"]
      BY <1>6 DEF OnRelayRequestAccepted, workerVars
    <2> QED BY <2>1, RequestKept
  <1>7. CASE OnRelayRequestAccepted(r) /\ entry # NoEntry
    <2> DEFINE p == [entry EXCEPT !.lastAcceptedRelayRequestTs = time]
    <2>1. /\ UNCHANGED <<entry, wpc, wpending>>
          /\ pending' = [pending EXCEPT ![r] = p]
          /\ pc' = [pc EXCEPT ![r] = "acceptWrite"]
      BY <1>7 DEF OnRelayRequestAccepted, workerVars
    <2>2. SoundEntry(entry, Known)
      BY <1>7 DEF ListsInv
    <2>3. SoundEntry(p, Known)
      BY <2>2, SameChanges
    <2>4. SoundEntry(p, Known') /\ SoundEntry(entry', Known')
      BY <2>1, <2>2, <2>3, MoreKnown
    <2> HIDE DEF p
    <2>5. pending'[r] = p
      BY <2>1 DEF ListsInv
    <2> QED BY <2>1, <2>4, <2>5, RequestKept
  <1>8. CASE OnRelayRequestAcceptedWrite(r)
    <2>1. /\ UNCHANGED <<wpc, wpending>> /\ pc[r] = "acceptWrite"
          /\ entry' = pending[r] /\ pending' = [pending EXCEPT ![r] = NoEntry]
          /\ pc' = [pc EXCEPT ![r] = "served"]
      BY <1>8 DEF OnRelayRequestAcceptedWrite, workerVars
    <2>2. SoundEntry(entry', Known')
      BY <2>1, MoreKnown DEF ListsInv, RequestLists
    <2> QED BY <2>1, <2>2, RequestKept
  <1> QED BY <1>1, <1>2, <1>3, <1>4, <1>5, <1>6, <1>7, <1>8

LEMMA StepKnown ==
    ASSUME ScanInv, [ReputationNext]_reputationVars
    PROVE  /\ ScanInv' /\ KnownGrows
           /\ wpc' \in Judging => events' = events /\ Head(events) \in DOMAIN hubEvents
  <1>1. /\ EventShape
        /\ wpc \in InHand => events # << >>
        /\ events # << >> => Head(events) \in DOMAIN hubEvents
    BY EventFacts DEF ScanInv, EventShape
  <1>2. CASE UpdatePaymasterStatus
    <2>1. /\ turns'[Head(events)] = turns[Head(events)] + 1
          /\ Head(events) \in DOMAIN hubEvents
      BY <1>2, TurnsTaken
    <2>2. \/ wpc' = "create" /\ events' = events
          \/ wpc' = "loop" /\ events' = Tail(events)
          \/ wpc' \in {"flag", "reputation"} /\ events' = events
      BY <1>2, Judged DEF UpdatePaymasterStatus
    <2>3. wpc' \in Judging => events' = events /\ wpc' \in InHand
      BY <2>2 DEF Judging, InHand
    <2> QED BY <2>1, <2>3, StepScanInv, KnownStays
  <1>3. CASE wpc \in Judging /\ (wpc' \in Judging => events' = events)
    <2>1. wpc \in InHand
      BY <1>3 DEF Judging, InHand
    <2>2. wpc' \in Judging => wpc' \in InHand
      BY DEF Judging, InHand
    <2>3. Head(events) \in DOMAIN hubEvents
      BY <1>1, <2>1
    <2> QED BY <1>3, <2>2, <2>3, StepScanInv, KnownStays
  <1>4. CASE wpc' \notin Judging
    BY <1>4, StepScanInv, KnownStays
  <1>5. CASE wpc' = wpc /\ events' = events
    BY <1>3, <1>4, <1>5
  <1>6. CASE \/ CreateEntryByWorker \/ SetAbuseFlag \/ SetAbuseFlagWrite
    <2>1. CASE CreateEntryByWorker
      <3>1. wpc = "create" /\ (Judge(FreshEntry) \/ wpc' = "idle")
        BY <2>1 DEF CreateEntryByWorker, EndPass
      <3>2. wpc' \in Judging => events' = events
        BY <3>1, Judged DEF Judging
      <3> QED BY <1>3, <3>1, <3>2 DEF Judging
    <2>2. CASE SetAbuseFlag \/ SetAbuseFlagWrite
      BY <1>3, <2>2 DEF SetAbuseFlag, SetAbuseFlagWrite, Judging
    <2> QED BY <1>6, <2>1, <2>2
  <1>7. CASE \/ GetBlock \/ GetAllHubEventsSinceLastScan \/ SetLastScanned
             \/ PassEnds \/ UpdatePaymasterReputation \/ UpdateEntry
             \/ UpdateEntryWrite \/ RestartWorker
    <2>1. wpc' \notin Judging
      BY <1>7 DEF GetBlock, GetAllHubEventsSinceLastScan, SetLastScanned,
             PassEnds, EndPass, UpdatePaymasterReputation, UpdateEntry,
             UpdateEntryWrite, NextEvent, RestartWorker, Judging
    <2> QED BY <1>4, <2>1
  <1>8. CASE MineEvents \/ Tick \/ UNCHANGED reputationVars
    <2>1. wpc' = wpc /\ events' = events
      BY <1>8 DEF MineEvents, Tick, reputationVars, workerVars
    <2> QED BY <1>5, <2>1
  <1>9. CASE \E r \in RelayRequests :
               \/ ValidatePaymasterReputation(r) \/ GetPaymasterStatus(r)
               \/ CreateEntry(r) \/ ClearAbuseFlag(r) \/ ClearAbuseFlagWrite(r)
               \/ OnRelayRequestAccepted(r) \/ OnRelayRequestAcceptedWrite(r)
    <2>1. wpc' = wpc /\ events' = events
      BY <1>9 DEF ValidatePaymasterReputation, GetPaymasterStatus, CreateEntry,
             ClearAbuseFlag, ClearAbuseFlagWrite, OnRelayRequestAccepted,
             OnRelayRequestAcceptedWrite, workerVars
    <2> QED BY <1>5, <2>1
  <1> QED BY <1>2, <1>6, <1>7, <1>8, <1>9 DEF ReputationNext

(* The losses that a list counts within the window of the event in hand    *)
(* had as many turns.                                                      *)
LEMMA FlagEarned ==
    ASSUME ScanInv, NEW e, SoundEntry(e, Known), Head(events) \in DOMAIN hubEvents,
           -ChangeInAbuseWindow(e) >= AbuseReputationChange
    PROVE  Earned(EventBlock)
  <1> DEFINE L == e.changes
             n == EventBlock
             W == AbuseTimeWindowBlocks
             f == [j \in DOMAIN L |-> L[j].change]
             J == {j \in DOMAIN L : n - L[j].blockNumber < W}
             K == {j \in DOMAIN L : L[j] \in LossesAfter(n - W)}
  <1>1. EventShape /\ W \in Nat /\ AbuseReputationChange \in Nat
    BY Windows DEF ScanInv
  <1>2. n \in Nat
    BY <1>1, EventFacts DEF EventBlock
  <1>3. L \in Seq(Change) /\ Listed(L, n - W) <= Known[n - W]
    BY <1>1, <1>2 DEF SoundEntry, Sound
  <1>4. \A j \in DOMAIN L : /\ L[j] \in Change
                            /\ L[j].blockNumber \in Nat /\ L[j].change \in {1, -1}
    <2>1. \A j \in DOMAIN L : L[j] \in Change
      <3> DEFINE C == Change
      <3> L \in Seq(C)
        BY <1>3
      <3> HIDE DEF C, L
      <3> \A j \in DOMAIN L : L[j] \in C
        OBVIOUS
      <3> QED BY DEF C, L
    <2>2. \A c \in Change : c.blockNumber \in Nat /\ c.change \in {1, -1}
      BY DEF Change
    <2> QED BY <2>1, <2>2
  <1>5. IsFiniteSet(DOMAIN L)
    <2>1. DOMAIN L = 1..Len(L) /\ Len(L) \in Nat
      <3> DEFINE C == Change
      <3> L \in Seq(C)
        BY <1>3
      <3> HIDE DEF C, L
      <3> DOMAIN L = 1..Len(L) /\ Len(L) \in Nat
        OBVIOUS
      <3> QED BY DEF L
    <2> QED BY <2>1, FS_Interval
  <1>6. ChangeInAbuseWindow(e) = SumFunctionOnSet(f, J)
    BY Zenon DEF ChangeInAbuseWindow
  <1>7. {j \in J : f[j] = -1} = K
    <2>1. \A j \in DOMAIN L : n - L[j].blockNumber < W <=> L[j].blockNumber > n - W
      BY <1>1, <1>2, <1>4
    <2>2. \A j \in DOMAIN L : f[j] = L[j].change
      OBVIOUS
    <2> HIDE DEF f, n, L
    <2> QED BY <1>4, <2>1, <2>2 DEF LossesAfter
  <1>8. J \subseteq DOMAIN L /\ \A j \in J : f[j] \in {1, -1} /\ f[j] \in Int
    BY <1>4
  <1>9. Listed(L, n - W) = Cardinality(K)
    BY DEF Listed
  <1>10. n - W \in Int
    BY <1>1, <1>2
  <1> HIDE DEF f, J, K, L, n, W
  <1>11. IsFiniteSet(J)
    BY <1>5, <1>8, FS_Subset
  <1>12. -SumFunctionOnSet(f, J) <= Cardinality(K)
    BY <1>7, <1>8, <1>11, SumOfLosses
  <1>13. SumFunctionOnSet(f, J) \in Int
    BY <1>8, <1>11, SumOnInt
  <1>14. Listed(L, n - W) \in Nat
    BY <1>3, ListedType
  <1>15. /\ Known[n - W] <= LossTurns[n - W] /\ Known[n - W] \in Int
         /\ LossTurns[n - W] \in Int
    BY <1>1, <1>10, KnownNat, KnownType, LossTurnsType
  <1>16. LossTurns[n - W] >= AbuseReputationChange
    BY <1>1, <1>3, <1>6, <1>9, <1>12, <1>13, <1>14, <1>15
  <1> QED BY <1>16 DEF Earned, n, W

(* The new list of the event in hand, which now has its turn in it.        *)
LEMMA ListWithTurn ==
    ASSUME ScanInv, ScanInv', UpdatePaymasterReputation, SoundEntry(entry, Known)
    PROVE  Sound(wpending'.changes, Known')
  <1> DEFINE ev == [blockNumber |-> EventBlock, change |-> EventChange]
             all == Append(entry.changes, ev)
             T == {c \in ToSet(all) : c.blockNumber > EventBlock - AbuseTimeWindowBlocks}
  <1>1. /\ UNCHANGED <<hubEvents, turns, events>> /\ wpc = "reputation" /\ wpc' = "update"
        /\ wpending'.changes = Recent(all)
    BY DEF UpdatePaymasterReputation, chainVars
  <1>2. Recent(all) = Filtered(all, T)
    BY Zenon DEF Recent
  <1>3. EventShape /\ Head(events) \in DOMAIN hubEvents
    BY <1>1, EventFacts DEF ScanInv, EventShape, InHand
  <1>4. hubEvents[Head(events)] \in Change
    BY <1>3, EventFacts
  <1>5. ev \in Change /\ \A b : ev \in LossesAfter(b) <=> Head(events) \in LossEvents(b)
    <2> DEFINE c == hubEvents[Head(events)]
    <2>1. /\ ev.blockNumber = c.blockNumber /\ ev.change = c.change
      BY DEF EventBlock, EventChange
    <2>2. c \in Change /\ c.blockNumber \in Nat /\ c.change \in {1, -1}
      BY <1>4 DEF Change
    <2>3. ev \in Change
      BY <2>2 DEF EventBlock, EventChange, Change
    <2>4. \A b : c \in LossesAfter(b) <=> Head(events) \in LossEvents(b)
      BY <1>3 DEF LossEvents
    <2> HIDE DEF ev, c
    <2>5. \A b : ev \in LossesAfter(b) <=> c \in LossesAfter(b)
      BY <2>1, <2>2, <2>3 DEF LossesAfter
    <2> QED BY <2>3, <2>4, <2>5
  <1>6. LossTurns' = LossTurns
    BY <1>1 DEF LossTurns, LossEvents
  <1>7. /\ Known \in [Int -> Int] /\ Known' \in [Int -> Int] /\ LossTurns \in [Int -> Int]
    BY KnownType, NextTurnsType, LossTurnsType DEF ScanInv, TurnsType
  <1>8. ASSUME NEW b \in Int
        PROVE  Known[b] + (IF ev \in LossesAfter(b) THEN 1 ELSE 0) <= Known'[b]
    <2>1. Known[b] = LossTurns[b] - (IF Head(events) \in LossEvents(b) THEN 1 ELSE 0)
      BY <1>1 DEF Known, Unlisted
    <2>2. Known'[b] = LossTurns[b]
      <3>1. Unlisted'[b] = 0
        BY <1>1 DEF Unlisted
      <3>2. Known'[b] = LossTurns'[b] - Unlisted'[b]
        BY DEF Known
      <3> QED BY <1>6, <1>7, <3>1, <3>2
    <2>3. LossTurns[b] \in Int
      BY <1>7
    <2>4. ev \in LossesAfter(b) <=> Head(events) \in LossEvents(b)
      BY <1>5
    <2> HIDE DEF ev
    <2> QED BY <2>1, <2>2, <2>3, <2>4
  <1>9. Sound(all, Known')
    <2> DEFINE k == Known
               m == Known'
    <2>1. /\ k \in [Int -> Int] /\ m \in [Int -> Int] /\ ev \in Change
          /\ Sound(entry.changes, k)
          /\ \A b \in Int : k[b] + (IF ev \in LossesAfter(b) THEN 1 ELSE 0) <= m[b]
      BY <1>5, <1>7, <1>8 DEF SoundEntry
    <2> HIDE DEF k, m, ev
    <2>2. Sound(Append(entry.changes, ev), m)
      BY <2>1, AppendedSound
    <2> QED BY <2>2 DEF m
  <1> HIDE DEF all, T
  <1>10. Sound(Filtered(all, T), Known')
    BY <1>7, <1>9, FilteredSound
  <1> QED BY <1>1, <1>2, <1>10

(* A step of the worker's, which leaves the requests alone.                *)
LEMMA WorkerListsInv ==
    ASSUME ListsInv, FlagsInv, ScanInv, [ReputationNext]_reputationVars,
           \/ GetBlock \/ GetAllHubEventsSinceLastScan \/ SetLastScanned
           \/ PassEnds \/ UpdatePaymasterStatus \/ CreateEntryByWorker
           \/ SetAbuseFlag \/ SetAbuseFlagWrite \/ UpdatePaymasterReputation
           \/ UpdateEntry \/ UpdateEntryWrite
           \/ MineEvents \/ Tick \/ UNCHANGED reputationVars
    PROVE  ListsInv'
  <1>1. ScanInv' /\ KnownGrows
    BY StepKnown
  <1>2. /\ \A e : SoundEntry(e, Known) => SoundEntry(e, Known')
        /\ \A changes : Sound(changes, Known) => Sound(changes, Known')
    BY <1>1, MoreKnown
  <1>3. UNCHANGED <<pc, pending>>
    BY DEF GetBlock, GetAllHubEventsSinceLastScan, SetLastScanned,
           PassEnds, UpdatePaymasterStatus, CreateEntryByWorker, SetAbuseFlag,
           SetAbuseFlagWrite, UpdatePaymasterReputation, UpdateEntry,
           UpdateEntryWrite, MineEvents, Tick, reputationVars, requestVars
  <1> SUFFICES (entry' = entry \/ SoundEntry(entry', Known')) /\ WorkerLists'
    BY <1>1, <1>3, RequestsKept DEF ListsInv
  <1>4. CASE \/ GetBlock \/ GetAllHubEventsSinceLastScan \/ SetLastScanned
             \/ PassEnds
    <2>1. entry' = entry /\ wpc' \in {"scan", "scanned", "loop", "idle"}
      BY <1>4 DEF GetBlock, GetAllHubEventsSinceLastScan, SetLastScanned,
                  PassEnds, EndPass
    <2> QED BY <2>1 DEF WorkerLists
  <1>5. CASE MineEvents \/ Tick \/ UNCHANGED reputationVars
    <2>1. UNCHANGED <<entry, wpc, wpending>>
      BY <1>5 DEF MineEvents, Tick, reputationVars, workerVars
    <2> QED BY <1>2, <2>1 DEF ListsInv, WorkerLists
  <1>6. CASE UpdatePaymasterStatus
    <2>1. /\ entry' = entry
          /\ \/ wpc' \in {"create", "loop"}
             \/ entry # NoEntry /\ wpc' \in {"flag", "reputation"}
      BY <1>6, Judged DEF UpdatePaymasterStatus
    <2>2. entry # NoEntry => SoundEntry(entry', Known')
      BY <1>2, <2>1 DEF ListsInv
    <2> QED BY <2>1, <2>2 DEF WorkerLists
  <1>7. CASE CreateEntryByWorker
    <2>1. \/ entry' = entry /\ wpc' = "idle"
          \/ entry' = FreshEntry /\ wpc' \in {"loop", "flag", "reputation"}
      BY <1>7, Judged DEF CreateEntryByWorker, EndPass
    <2>2. SoundEntry(FreshEntry, Known')
      BY <1>2, FreshSound DEF ScanInv
    <2> QED BY <2>1, <2>2 DEF WorkerLists
  <1>8. CASE SetAbuseFlag
    <2>1. /\ entry' = entry /\ wpc = "flag" /\ wpc' = "flagWrite"
          /\ wpending' = [entry EXCEPT !.abuseStartedBlock = EventBlock]
      BY <1>8 DEF SetAbuseFlag
    <2>2. SoundEntry(entry, Known)
      BY <2>1 DEF ListsInv, WorkerLists
    <2>3. SoundEntry(wpending', Known') /\ SoundEntry(entry', Known')
      BY <1>2, <2>1, <2>2, SameChanges
    <2> QED BY <2>1, <2>3 DEF WorkerLists
  <1>9. CASE SetAbuseFlagWrite
    <2>1. entry' = wpending /\ wpc = "flagWrite" /\ wpc' = "reputation"
      BY <1>9 DEF SetAbuseFlagWrite
    <2>2. SoundEntry(entry', Known')
      BY <1>2, <2>1 DEF ListsInv, WorkerLists
    <2> QED BY <2>1, <2>2 DEF WorkerLists
  <1>10. CASE UpdatePaymasterReputation
    <2>1. entry' = entry /\ wpc = "reputation" /\ wpc' = "update"
      BY <1>10 DEF UpdatePaymasterReputation
    <2>2. SoundEntry(entry, Known) /\ SoundEntry(entry', Known')
      BY <1>2, <2>1 DEF ListsInv, WorkerLists
    <2>3. Sound(wpending'.changes, Known')
      BY <1>1, <1>10, <2>2, ListWithTurn
    <2> QED BY <2>1, <2>2, <2>3 DEF WorkerLists
  <1>11. CASE UpdateEntry
    <2>1. /\ entry' = entry /\ wpc = "update" /\ wpc' = "updateWrite"
          /\ wpending' = [entry EXCEPT !.reputation = wpending.reputation,
                                       !.changes = wpending.changes]
      BY <1>11 DEF UpdateEntry
    <2>2. SoundEntry(entry, Known) /\ Sound(wpending.changes, Known)
      BY <2>1 DEF ListsInv, WorkerLists
    <2>3. SoundEntry([entry EXCEPT !.reputation = wpending.reputation,
                                   !.changes = wpending.changes], Known)
      BY <2>2, NewList
    <2>4. SoundEntry(wpending', Known') /\ SoundEntry(entry', Known')
      BY <1>2, <2>1, <2>2, <2>3
    <2> QED BY <2>1, <2>4 DEF WorkerLists
  <1>12. CASE UpdateEntryWrite
    <2>1. entry' = wpending /\ wpc = "updateWrite" /\ wpc' = "loop"
      BY <1>12 DEF UpdateEntryWrite, NextEvent
    <2>2. SoundEntry(entry', Known')
      BY <1>2, <2>1 DEF ListsInv, WorkerLists
    <2> QED BY <2>1, <2>2 DEF WorkerLists
  <1> QED BY <1>4, <1>5, <1>6, <1>7, <1>8, <1>9, <1>10, <1>11, <1>12

LEMMA RestartListsInv ==
    ASSUME ListsInv, ScanInv, RestartWorker
    PROVE  ListsInv'
  <1>1. ScanInv' /\ KnownGrows
    BY StepKnown DEF ReputationNext
  <1>2. /\ entry' = entry /\ wpc' = "idle"
        /\ pc' = [r \in RelayRequests |-> IF pc[r] \in {"new", "served", "refused"}
                                            THEN pc[r] ELSE "failed"]
        /\ pending' = [r \in RelayRequests |-> NoEntry]
    BY DEF RestartWorker
  <1>3. /\ DOMAIN pc' = RelayRequests /\ DOMAIN pending' = RelayRequests
        /\ \A r \in RelayRequests : pc'[r] \in {"new", "served", "refused", "failed"}
    BY <1>2
  <1>4. entry' = NoEntry \/ SoundEntry(entry', Known')
    BY <1>1, <1>2, MoreKnown DEF ListsInv
  <1>5. RequestLists'
    BY <1>3 DEF RequestLists
  <1>6. WorkerLists'
    BY <1>2 DEF WorkerLists
  <1> QED BY <1>3, <1>4, <1>5, <1>6 DEF ListsInv

(* A flag stays earned, and so does the one the worker is about to set.    *)
LEMMA FlagsKept ==
    ASSUME ScanInv, [ReputationNext]_reputationVars, FlagsInv,
           \/ flags' = flags
           \/ wpc = "flagWrite" /\ flags' = flags \union {EventBlock},
           wpc' \in {"flag", "flagWrite"} => Earned(EventBlock)
    PROVE  FlagsInv'
  <1>1. /\ ScanInv' /\ KnownGrows /\ EventShape
        /\ wpc' \in Judging => events' = events /\ Head(events) \in DOMAIN hubEvents
    BY StepKnown DEF ScanInv
  <1>2. /\ LossTurns \in [Int -> Int] /\ LossTurns' \in [Int -> Int]
        /\ \A b \in Int : LossTurns[b] <= LossTurns'[b]
        /\ AbuseTimeWindowBlocks \in Nat /\ AbuseReputationChange \in Nat
    BY <1>1, LossTurnsType, NextTurnsType, Windows DEF ScanInv, TurnsType, KnownGrows
  <1>3. ASSUME NEW f \in Int, Earned(f)
        PROVE  LossTurns'[f - AbuseTimeWindowBlocks] >= AbuseReputationChange
    <2>1. f - AbuseTimeWindowBlocks \in Int
      BY <1>2
    <2> QED BY <1>2, <1>3, <2>1 DEF Earned
  <1>4. Head(events) \in DOMAIN hubEvents => EventBlock \in Int
    BY <1>1, EventFacts DEF EventBlock
  <1>5. wpc = "flagWrite" => Head(events) \in DOMAIN hubEvents
    BY <1>1, EventFacts DEF EventShape, InHand
  <1>6. \A f \in flags' :
           f \in Int /\ LossTurns'[f - AbuseTimeWindowBlocks] >= AbuseReputationChange
    <2> SUFFICES ASSUME NEW f \in flags'
                 PROVE  f \in Int /\ Earned(f)
      BY <1>3
    <2>1. CASE f \in flags
      BY <2>1 DEF FlagsInv
    <2>2. CASE wpc = "flagWrite" /\ f = EventBlock
      BY <1>4, <1>5, <2>2 DEF FlagsInv
    <2> QED BY <2>1, <2>2
  <1>7. wpc' \in {"flag", "flagWrite"} =>
          LossTurns'[EventBlock' - AbuseTimeWindowBlocks] >= AbuseReputationChange
    <2> SUFFICES ASSUME wpc' \in {"flag", "flagWrite"}
                 PROVE  LossTurns'[EventBlock' - AbuseTimeWindowBlocks]
                          >= AbuseReputationChange
      OBVIOUS
    <2>1. wpc' \in Judging
      BY DEF Judging
    <2>2. events' = events /\ Head(events) \in DOMAIN hubEvents
      BY <1>1, <2>1
    <2>3. hubEvents'[Head(events)] = hubEvents[Head(events)]
      BY <2>2, TurnsStay
    <2>4. EventBlock' = EventBlock
      BY <2>2, <2>3 DEF EventBlock
    <2> QED BY <1>3, <1>4, <2>2, <2>4
  <1> QED BY <1>6, <1>7 DEF FlagsInv, Earned

LEMMA StepFlagsInv ==
    ASSUME ScanInv, ListsInv, FlagsInv, [ReputationNext]_reputationVars
    PROVE  FlagsInv'
  <1>1. CASE UpdatePaymasterStatus
    <2>1. /\ flags' = flags /\ Head(events) \in DOMAIN hubEvents
          /\ wpc' \in {"flag", "flagWrite"} =>
                /\ entry # NoEntry
                /\ -ChangeInAbuseWindow(entry) >= AbuseReputationChange
      BY <1>1, TurnsTaken DEF UpdatePaymasterStatus, Judge, NextEvent
    <2>2. wpc' \in {"flag", "flagWrite"} => Earned(EventBlock)
      BY <2>1, FlagEarned DEF ListsInv
    <2> QED BY <2>1, <2>2, FlagsKept
  <1>2. CASE CreateEntryByWorker
    <2>1. /\ flags' = flags /\ wpc = "create"
          /\ wpc' \in {"flag", "flagWrite"} =>
                -ChangeInAbuseWindow(FreshEntry) >= AbuseReputationChange
      BY <1>2 DEF CreateEntryByWorker, Judge, NextEvent, EndPass
    <2>2. Head(events) \in DOMAIN hubEvents /\ SoundEntry(FreshEntry, Known)
      BY <2>1, EventFacts, FreshSound DEF ScanInv, EventShape, InHand
    <2>3. wpc' \in {"flag", "flagWrite"} => Earned(EventBlock)
      BY <2>1, <2>2, FlagEarned
    <2> QED BY <2>1, <2>3, FlagsKept
  <1>3. CASE SetAbuseFlag
    <2>1. flags' = flags /\ wpc = "flag"
      BY <1>3 DEF SetAbuseFlag
    <2> QED BY <2>1, FlagsKept DEF FlagsInv
  <1>4. CASE SetAbuseFlagWrite
    <2>1. wpc = "flagWrite" /\ wpc' = "reputation" /\ flags' = flags \union {EventBlock}
      BY <1>4 DEF SetAbuseFlagWrite
    <2> QED BY <2>1, FlagsKept
  <1>5. CASE \/ GetBlock \/ GetAllHubEventsSinceLastScan \/ SetLastScanned
             \/ PassEnds \/ UpdatePaymasterReputation \/ UpdateEntry
             \/ UpdateEntryWrite \/ RestartWorker
    <2>1. flags' = flags /\ wpc' \notin {"flag", "flagWrite"}
      BY <1>5 DEF GetBlock, GetAllHubEventsSinceLastScan, SetLastScanned,
             PassEnds, EndPass, UpdatePaymasterReputation, UpdateEntry,
             UpdateEntryWrite, NextEvent, RestartWorker
    <2> QED BY <2>1, FlagsKept
  <1>6. CASE MineEvents \/ Tick \/ UNCHANGED reputationVars
    <2>1. flags' = flags /\ wpc' = wpc
      BY <1>6 DEF MineEvents, Tick, reputationVars, workerVars
    <2> QED BY <2>1, FlagsKept DEF FlagsInv
  <1>7. CASE \E r \in RelayRequests :
               \/ ValidatePaymasterReputation(r) \/ GetPaymasterStatus(r)
               \/ CreateEntry(r) \/ ClearAbuseFlag(r) \/ ClearAbuseFlagWrite(r)
               \/ OnRelayRequestAccepted(r) \/ OnRelayRequestAcceptedWrite(r)
    <2>1. flags' = flags /\ wpc' = wpc
      BY <1>7 DEF ValidatePaymasterReputation, GetPaymasterStatus, CreateEntry,
             ClearAbuseFlag, ClearAbuseFlagWrite, OnRelayRequestAccepted,
             OnRelayRequestAcceptedWrite, workerVars
    <2> QED BY <2>1, FlagsKept DEF FlagsInv
  <1> QED BY <1>1, <1>2, <1>3, <1>4, <1>5, <1>6, <1>7 DEF ReputationNext

AbuseInv == ScanInv /\ ListsInv /\ FlagsInv

LEMMA InitAbuseInv == ReputationInit => AbuseInv
  <1> SUFFICES ASSUME ReputationInit PROVE AbuseInv
    OBVIOUS
  <1>1. ScanInv
    BY InitScanInv
  <1>2. /\ entry = NoEntry /\ wpc = "idle" /\ flags = {}
        /\ pc = [r \in RelayRequests |-> "new"]
        /\ pending = [r \in RelayRequests |-> NoEntry]
    BY DEF ReputationInit
  <1> QED BY <1>1, <1>2 DEF AbuseInv, ListsInv, RequestLists, WorkerLists, FlagsInv

LEMMA StepAbuseInv == AbuseInv /\ [ReputationNext]_reputationVars => AbuseInv'
  <1> SUFFICES ASSUME ScanInv, ListsInv, FlagsInv, [ReputationNext]_reputationVars PROVE AbuseInv'
    BY DEF AbuseInv
  <1>1. ScanInv' /\ KnownGrows /\ FlagsInv'
    BY StepKnown, StepFlagsInv
  <1>2. ListsInv'
    BY <1>1, RequestListsInv, WorkerListsInv, RestartListsInv DEF ReputationNext
  <1> QED BY <1>1, <1>2 DEF AbuseInv

LEMMA EarnedFlags == AbuseInv => NoAbuseWithoutLosses
  <1> SUFFICES ASSUME AbuseInv, NEW f \in flags
               PROVE  SumFunctionOnSet(turns, LossesBefore(f)) >= AbuseReputationChange
    BY DEF NoAbuseWithoutLosses
  <1>1. /\ EventShape /\ AbuseTimeWindowBlocks \in Nat
        /\ f \in Int /\ LossTurns[f - AbuseTimeWindowBlocks] >= AbuseReputationChange
    BY Windows DEF AbuseInv, ScanInv, FlagsInv, Earned
  <1> DEFINE b == f - AbuseTimeWindowBlocks
  <1>2. LossesBefore(f) = LossEvents(b)
    <2>1. \A i \in DOMAIN hubEvents : /\ hubEvents[i] \in Change
                                      /\ hubEvents[i].blockNumber \in Nat
      BY <1>1, EventFacts
    <2>2. \A i \in DOMAIN hubEvents :
            f - hubEvents[i].blockNumber < AbuseTimeWindowBlocks
              <=> hubEvents[i].blockNumber > b
      BY <1>1, <2>1
    <2> HIDE DEF b
    <2> QED BY <2>1, <2>2 DEF LossesBefore, LossEvents, LossesAfter
  <1>3. b \in Int /\ LossTurns[b] = SumFunctionOnSet(turns, LossEvents(b))
    BY <1>1 DEF LossTurns
  <1> QED BY <1>1, <1>2, <1>3

(* A flag stands for as many losses of its window, each counted once for   *)
(* each turn it had, although updateEntry writes back whole entries that   *)
(* requests and the worker read earlier, and restarts handle events again: *)
(* updatePaymasterStatus, updatePaymasterReputation, updateEntry.          *)
THEOREM FlagsAreEarned == ReputationSpec => []NoAbuseWithoutLosses
  <1> QED BY InitAbuseInv, StepAbuseInv, EarnedFlags, PTL DEF ReputationSpec
=============================================================================
