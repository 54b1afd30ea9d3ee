----------------------------- MODULE MCServices -----------------------------
(***************************************************************************)
(* Instances of NotificationDelivery, NotificationSources,                 *)
(* NotificationConfig, SymbolUniverse, UserStream and RestClient for TLC.  *)
(* They share no state here, so a behaviour is one of one instance, which  *)
(* "instance" names; the others stay where they start.                     *)
(***************************************************************************)
EXTENDS SymbolUniverse, Sequences

CONSTANTS Instances     \* the instances a configuration looks at

VARIABLES
    instance,           \* the instance this behaviour is of
    row, lapsed, expired, claim, received, dead, manual, dFaults,
    ledger, journal, runtime, market, hour, recorded, notified, alerts, slot,
    summaries, worker, changes, sFaults,
    connector, used, edit, endpoint, members, policy, event, delivery,
    phase, running, accept, connected, fatal, key, keys, ws, socket, thread, ready,
    queue, cWorker, alive, inFlight, tasks, attempts, current, scheduled, handled,
    failed, leaked, doubled, timedOut, messages, drops, cFaults,
    now, window, lock, call, executed, started, ended, rFaults

deliveries == <<row, lapsed, expired, claim, received, dead, manual, dFaults>>
sources    == <<ledger, journal, runtime, market, hour, recorded, notified, alerts,
                slot, summaries, worker, changes, sFaults>>
config     == <<connector, used, edit, endpoint, members, policy, event, delivery>>
universe   == vars
stream     == <<phase, running, accept, connected, fatal, key, keys, ws, socket, thread,
                ready, queue, cWorker, alive, inFlight, tasks, attempts, current,
                scheduled, handled, failed, leaked, doubled, timedOut, messages, drops,
                cFaults>>
requests   == <<now, window, lock, call, executed, started, ended, rFaults>>
all        == <<instance, deliveries, sources, config, universe, stream, requests>>

Empty == {}
One == {"w1"}
Two == {"w1", "w2"}

\* One delivery that expires, two workers, two faults and a manual retry.
Delivery == INSTANCE NotificationDelivery WITH
    Workers <- Two, NoWorker <- "none", Deliveries <- {"d1"}, Telegram <- {"d1"},
    Expiring <- {"d1"}, MaxAttempts <- 2, Batch <- 2, MaxFaults <- 2, MaxManual <- 1,
    alerts <- dead, faults <- dFaults

\* Two deliveries of different channels, one of them at a time.
DeliveryLive == INSTANCE NotificationDelivery WITH
    Workers <- Two, NoWorker <- "none", Deliveries <- {"d1", "d2"}, Telegram <- {"d1"},
    Expiring <- Empty, MaxAttempts <- 1, Batch <- 1, MaxFaults <- 1, MaxManual <- 0,
    alerts <- dead, faults <- dFaults

\* One worker observes two changes of the strategy and of the market, ...
Changes == INSTANCE NotificationSources WITH
    Workers <- One, Orders <- Empty, MaxChanges <- 2, MaxFaults <- 1, MaxHour <- 1,
    faults <- sFaults

\* ... two workers observe one.
Alerts == INSTANCE NotificationSources WITH
    Workers <- Two, Orders <- Empty, MaxChanges <- 1, MaxFaults <- 1, MaxHour <- 1,
    faults <- sFaults

\* Two workers and two hours.
Hours == INSTANCE NotificationSources WITH
    Workers <- Two, Orders <- Empty, MaxChanges <- 0, MaxFaults <- 1, MaxHour <- 2,
    faults <- sFaults

\* One worker, an order that fails, and a change.
SourcesLive == INSTANCE NotificationSources WITH
    Workers <- One, Orders <- {"o1"}, MaxChanges <- 1, MaxFaults <- 1, MaxHour <- 1,
    faults <- sFaults

\* Two operators edit one connector.
Edits == INSTANCE NotificationConfig WITH
    Editors <- {"op1", "op2"}, Connectors <- {"c1"}, Endpoints <- Empty, Groups <- Empty,
    Policies <- Empty, Events <- {"v1"}, Critical <- {"v1"}, MaxVersion <- 3

\* An event is routed while an endpoint, a group and policies come and go.
Routes == INSTANCE NotificationConfig WITH
    Editors <- Empty, Connectors <- {"c1"}, Endpoints <- {"e1"}, Groups <- {"g1"},
    Policies <- {"p1", "p2"}, Events <- {"v1"}, Critical <- {"v1"}, MaxVersion <- 1

\* The universe itself is the instance "scans": a strategy trades while symbols
\* are delisted and calls fail.
Crypto == {"crypto"}
BothKinds == {"crypto", "equity"}
AllCoins(s) == "crypto"
AltIsEquity(s) == IF s = "btc" THEN "crypto" ELSE "equity"

\* Two syncers and an operator; nothing is traded.
Syncs == INSTANCE SymbolUniverse WITH
    Categories <- BothKinds, CategoryOf <- AltIsEquity, Traded <- Empty, Syncers <- Two,
    MaxListings <- 2, MaxFaults <- 0, MaxDays <- 1

\* Three symbols of which two are delisted.
Listings == INSTANCE SymbolUniverse WITH
    Symbols <- {"btc", "alt", "eqt"}, Categories <- BothKinds, CategoryOf <- AltIsEquity,
    Traded <- Empty, MaxListings <- 2, MaxDecisions <- 0, MaxFaults <- 0, MaxDays <- 1

\* One of the symbols is traded, and the guard does not apply.
UniverseLive == INSTANCE SymbolUniverse WITH
    GuardCount <- 3, MaxFaults <- 1, MaxDays <- 1

\* Two messages and a callback that raises, ...
Callbacks == INSTANCE UserStream WITH
    MaxMessages <- 2, MaxDrops <- 0, MaxFaults <- 1, MaxAttempts <- 1,
    worker <- cWorker, faults <- cFaults

\* ... a message around a broken connection, ...
Broken == INSTANCE UserStream WITH
    MaxMessages <- 1, MaxDrops <- 1, MaxFaults <- 1, MaxAttempts <- 1,
    worker <- cWorker, faults <- cFaults

\* ... and a reconnect with two failures.
Reconnects == INSTANCE UserStream WITH
    MaxMessages <- 0, MaxDrops <- 1, MaxFaults <- 2, MaxAttempts <- 2,
    worker <- cWorker, faults <- cFaults

\* Three requests under a limit of one per interval, ...
Limited == INSTANCE RestClient WITH
    Callers <- {"a", "b", "c"}, Endpoints <- {"get_klines"}, Limit <- 1, Interval <- 3,
    MaxTime <- 6, MaxFaults <- 1, faults <- rFaults

\* ... and two orders or queries with two faults.
Orders == INSTANCE RestClient WITH
    Callers <- {"a", "b"}, Endpoints <- {"post_order", "query_order"}, Limit <- 3,
    Interval <- 3, MaxTime <- 4, MaxFaults <- 2, faults <- rFaults

ASSUME InstancesOK ==
    /\ Callbacks!ConstantsOK /\ Broken!ConstantsOK /\ Reconnects!ConstantsOK
    /\ Limited!ConstantsOK /\ Orders!ConstantsOK
    /\ Delivery!ConstantsOK /\ DeliveryLive!ConstantsOK
    /\ Changes!ConstantsOK /\ Alerts!ConstantsOK /\ Hours!ConstantsOK /\ SourcesLive!ConstantsOK
    /\ Edits!ConstantsOK /\ Routes!ConstantsOK
    /\ Syncs!ConstantsOK /\ Listings!ConstantsOK /\ ConstantsOK /\ UniverseLive!ConstantsOK

Live == {"delivery live", "sources live", "universe live"}

MCInit ==
    /\ instance \in Instances
    /\ IF instance \in Live THEN DeliveryLive!Init ELSE Delivery!Init
    /\ IF instance \in Live THEN SourcesLive!Init
       ELSE IF instance = "changes" THEN Changes!Init ELSE Alerts!Init
    /\ IF instance = "routes" THEN Routes!Init ELSE Edits!Init
    /\ IF instance = "sync" THEN Syncs!Init
       ELSE IF instance = "listings" THEN Listings!Init ELSE Init
    /\ Callbacks!Init
    /\ IF instance = "limited" THEN Limited!Init ELSE Orders!Init

MCNext ==
    \/ /\ \/ instance = "delivery" /\ Delivery!Next
          \/ instance = "delivery live" /\ DeliveryLive!Next
       /\ UNCHANGED <<instance, sources, config, universe, stream, requests>>
    \/ /\ \/ instance = "changes" /\ Changes!Next
          \/ instance = "alerts" /\ Alerts!Next
          \/ instance = "hours" /\ Hours!Next
          \/ instance = "sources live" /\ SourcesLive!Next
       /\ UNCHANGED <<instance, deliveries, config, universe, stream, requests>>
    \/ /\ \/ instance = "edits" /\ Edits!Next
          \/ instance = "routes" /\ Routes!Next
       /\ UNCHANGED <<instance, deliveries, sources, universe, stream, requests>>
    \/ /\ \/ instance = "sync" /\ Syncs!Next
          \/ instance = "listings" /\ Listings!Next
          \/ instance = "scans" /\ Next
          \/ instance = "universe live" /\ UniverseLive!Next
       /\ UNCHANGED <<instance, deliveries, sources, config, stream, requests>>
    \/ /\ \/ instance = "callbacks" /\ Callbacks!Next
          \/ instance = "broken" /\ Broken!Next
          \/ instance = "reconnects" /\ Reconnects!Next
       /\ UNCHANGED <<instance, deliveries, sources, config, universe, requests>>
    \/ /\ \/ instance = "limited" /\ Limited!Next
          \/ instance = "orders" /\ Orders!Next
       /\ UNCHANGED <<instance, deliveries, sources, config, universe, stream>>

MCSpec == MCInit /\ [][MCNext]_all

-----------------------------------------------------------------------------
(* Safety *)

\* A delivery shown as sent has reached its channel, which gets at most
\* max_attempts messages for it, and as many again for each manual retry,
\* however leases lapse and workers die.  The last alert of a state is the
\* recorded state, two workers polling the same facts publish each transition
\* once, and a full hour has one summary.  A connector that must authenticate
\* keeps a credential, whatever two operators submit at the same time; no row and
\* no delivery refers to something deleted; and an event counts as routed exactly
\* when it has a delivery, although policies are edited while it is being routed.
MessagesAreHonest ==
    /\ instance = "delivery" =>
         /\ Delivery!TypeOK /\ Delivery!SentWasReceived /\ Delivery!SendsAreBounded
         /\ Delivery!DeliveryInv
    /\ instance = "changes" =>
         Changes!TypeOK /\ Changes!AlertMatchesRecord /\ Changes!AlertsAlternate
    /\ instance = "alerts" =>
         Alerts!TypeOK /\ Alerts!AlertMatchesRecord /\ Alerts!AlertsAlternate
    /\ instance = "hours" => Hours!TypeOK /\ Hours!OneSummaryPerHour
    /\ instance = "edits" => Edits!TypeOK /\ Edits!CredentialKept
    /\ instance = "routes" => Routes!TypeOK /\ Routes!ReferencesExist /\ Routes!RoutedHasDelivery

\* The process is handed what the user stream received, in order and whole, also
\* by a stop, and reconnects leave one socket and one listen key.  What reaches
\* the exchange by REST was recorded as started and is reported as ended once,
\* and the limiter keeps tasks that wait, sleep and are cancelled to its limit.
\* The symbol universe synchronised from it keeps its inductive invariant.
ExchangeLinkIsSound ==
    /\ instance = "scans" => UniverseInv
    /\ instance = "sync" => Syncs!UniverseInv
    /\ instance = "listings" => Listings!UniverseInv
    /\ instance = "callbacks" =>
         Callbacks!TypeOK /\ Callbacks!HandledInOrder /\ Callbacks!StopDrained
    /\ instance = "broken" =>
         /\ Broken!TypeOK /\ Broken!HandledInOrder /\ Broken!StopDrained
         /\ Broken!OneConnection
    /\ instance = "reconnects" => Reconnects!TypeOK /\ Reconnects!OneConnection
    /\ instance = "limited" =>
         /\ Limited!TypeOK /\ Limited!WindowBounded /\ Limited!RequestsAreTracked
         /\ Limited!LimiterIsHeld
    /\ instance = "orders" => Orders!RequestsAreTracked

\* A callback of the user stream that raises ends up as the fatal exception that
\* the process waits for (wait_fatal).
FailureIsFatal == instance = "callbacks" => Callbacks!FailureIsFatal

\* What an operator decided is not undone by a program or by another operator
\* who did not see it: an edit replaces the row its author saw, a dead delivery
\* comes back only by a manual retry and a sent one never; and while the overview
\* reports a route as ready a critical event is routed.
OperatorDecides ==
    /\ Edits!NoLostEdit /\ Delivery!DeadNeedsOperator /\ Delivery!SentIsFinal
    /\ Routes!ReadyIsHonest

-----------------------------------------------------------------------------
(* Liveness, each under the fairness of its component *)

\* Every published delivery ends sent or dead, a strategy that stays halted is
\* reported as halted, and every failed order is alerted, although a batch may
\* fail half way.
MessagesArrive ==
    /\ instance = "delivery live" /\ DeliveryLive!Fairness => DeliveryLive!EveryDeliveryEnds
    /\ instance = "sources live" /\ SourcesLive!Fairness
         => SourcesLive!HaltIsReported /\ SourcesLive!EveryFailureAlerted

\* A symbol that leaves the exchange, or is switched off for good, has no open
\* entry in the end.
EntriesClose ==
    instance = "universe live" /\ UniverseLive!Fairness => UniverseLive!LeavingSymbolsClose
=============================================================================
