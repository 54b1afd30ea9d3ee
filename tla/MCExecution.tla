---------------------------- MODULE MCExecution -----------------------------
(***************************************************************************)
(* Instances of OrderExecution, OrderRisk, Campaign, Capital,              *)
(* FundingIncome, EventJournal, LedgerBooks and LedgerReports for TLC.     *)
(* They share no state here, so a behaviour is one of one instance, which  *)
(* "instance" names; the others stay where they start.                     *)
(***************************************************************************)
EXTENDS Capital, FiniteSets

CONSTANTS Instances     \* the instances a configuration looks at

VARIABLES
    instance,           \* the instance this behaviour is of
    oWal, oExch, net, posts, task, stream, link, reconn, attempts, poll, sync,
    cancel, cancelReq, blocked, oPhase, fatal, faults,
    clock, ex, amt, rNet, rStream, rWal, res, rPos, mark, rPending, rTrades, mid,
    rSnap, todo, rPhase, rFaults,
    exch, xpos, fills, xtrades, events, cLease, wal, trades, jobs, settles, exit,
    phase, owned, active, shut, queue, inflight, lock, pc, job, ev, pos, posAt,
    pending, cancels, signals, placed, activeSymbol, timing, pendingTiming,
    exitReq, recovered, processed, failed, cCrashes, drops,
    file, torn, db, jPhase, run, ids, loaded, nextSeq, unsent, jLock, app, mir,
    batch, wake, orphans, acked, errors, outages, jCrashes, stops,
    lExch, lLink, lStream, worker, lWal, rows, lTrades, lPos, lSync, ready, breaks,
    syncs, table,
    history, store, funding, total, fFaults

orders   == <<oWal, oExch, net, posts, task, stream, link, reconn, attempts, poll,
              sync, cancel, cancelReq, blocked, oPhase, fatal, faults>>
risk     == <<clock, ex, amt, rNet, rStream, rWal, res, rPos, mark, rPending, rTrades,
              mid, rSnap, todo, rPhase, rFaults>>
campaign == <<exch, xpos, fills, xtrades, events, cLease, wal, trades, jobs,
              settles, exit, phase, owned, active, shut, queue, inflight, lock,
              pc, job, ev, pos, posAt, pending, cancels, signals, placed,
              activeSymbol, timing, pendingTiming, exitReq, recovered, processed,
              failed, cCrashes, drops>>
capital  == vars
journal  == <<file, torn, db, jPhase, run, ids, loaded, nextSeq, unsent, jLock, app,
              mir, batch, wake, orphans, acked, errors, outages, jCrashes, stops>>
ledger   == <<lExch, lLink, lStream, worker, lWal, rows, lTrades, lPos, lSync, ready,
              breaks, syncs>>
fees     == <<history, store, funding, total, fFaults>>
all      == <<instance, orders, risk, campaign, capital, journal, ledger, table, fees>>

None      == {}
OneOrder  == {"o1"}
Pair      == {"o1", "o2"}
OneSymbol == {"A"}
Both      == {"A", "B"}
OnA(s)    == [x \in s |-> "A"]
OrderOnA  == OnA(OneOrder)
PairOnA   == OnA(Pair)
OneEach   == [o \in Pair |-> IF o = "o1" THEN "A" ELSE "B"]
OneLot    == [o \in Pair |-> 1]
TwoLots   == [o \in OneOrder |-> 2]
TwoAndOne == [o \in Pair |-> IF o = "o1" THEN 2 ELSE 1]
Moves     == {"FILLED", "CANCELLED"}

\* Two entries of one symbol, each of which may be in doubt.
Doubt == INSTANCE OrderExecution WITH
    Orders <- Pair, Symbols <- OneSymbol, SymbolOf <- PairOnA,
    Entries <- Pair, Cancellable <- None, Moves <- None,
    MaxReconnect <- 2, MaxFaults <- 1,
    wal <- oWal, exch <- oExch, phase <- oPhase

\* One entry, two faults: lost calls, lost reports, crashes.
Order == INSTANCE OrderExecution WITH
    Orders <- OneOrder, Symbols <- OneSymbol, SymbolOf <- OrderOnA,
    Entries <- OneOrder, Cancellable <- None, Moves <- Moves,
    MaxReconnect <- 1, MaxFaults <- 2,
    wal <- oWal, exch <- oExch, phase <- oPhase

\* Two entries of one symbol that do not fit under the limit together, ...
Limited == INSTANCE OrderRisk WITH
    Orders <- Pair, Symbols <- OneSymbol, SymbolOf <- PairOnA,
    Lots <- TwoAndOne, MaxValue <- 2, MaxSymbols <- 1,
    AccountFirst <- BOOLEAN, SameMs <- FALSE, CancelPartial <- TRUE,
    MaxTime <- 3, MaxFaults <- 0,
    net <- rNet, stream <- rStream, wal <- rWal, pos <- rPos, pending <- rPending,
    trades <- rTrades, snap <- rSnap, phase <- rPhase, faults <- rFaults

\* ... with a lost call or a restart.
OneFault == INSTANCE OrderRisk WITH
    Orders <- Pair, Symbols <- OneSymbol, SymbolOf <- PairOnA,
    Lots <- TwoAndOne, MaxValue <- 2, MaxSymbols <- 1,
    AccountFirst <- BOOLEAN, SameMs <- FALSE, CancelPartial <- TRUE,
    MaxTime <- 2, MaxFaults <- 1,
    net <- rNet, stream <- rStream, wal <- rWal, pos <- rPos, pending <- rPending,
    trades <- rTrades, snap <- rSnap, phase <- rPhase, faults <- rFaults

\* Two symbols of which one may be open at a time.
TwoSymbols == INSTANCE OrderRisk WITH
    Orders <- Pair, Symbols <- Both, SymbolOf <- OneEach,
    Lots <- OneLot, MaxValue <- 2, MaxSymbols <- 1,
    AccountFirst <- BOOLEAN, SameMs <- FALSE, CancelPartial <- TRUE,
    MaxTime <- 2, MaxFaults <- 1,
    net <- rNet, stream <- rStream, wal <- rWal, pos <- rPos, pending <- rPending,
    trades <- rTrades, snap <- rSnap, phase <- rPhase, faults <- rFaults

\* One order of two lots and one fault.
RiskLive == INSTANCE OrderRisk WITH
    Orders <- OneOrder, Symbols <- OneSymbol, SymbolOf <- OrderOnA,
    Lots <- TwoLots, MaxValue <- 3, MaxSymbols <- 1,
    AccountFirst <- BOOLEAN, SameMs <- FALSE, CancelPartial <- FALSE,
    MaxTime <- 2, MaxFaults <- 1,
    net <- rNet, stream <- rStream, wal <- rWal, pos <- rPos, pending <- rPending,
    trades <- rTrades, snap <- rSnap, phase <- rPhase, faults <- rFaults

OneCampaign    == {"c1"}
TwoCampaigns   == {"c1", "c2"}
OneExit        == {"e1"}
TwoExits       == {"e1", "e2"}
CampaignOnA    == OnA(OneCampaign)
CampaignOnEach == [c \in TwoCampaigns |-> IF c = "c1" THEN "A" ELSE "B"]
AccountOnly    == {"account"}

\* Two Campaigns and a crash.
Crashed == INSTANCE Campaign WITH
    Campaigns <- TwoCampaigns, Exits <- OneExit, Symbols <- Both,
    SymbolOf <- CampaignOnEach, FirstEvents <- AccountOnly, PartialFills <- FALSE,
    MaxCrashes <- 1, MaxDisconnects <- 0, lease <- cLease, crashes <- cCrashes

\* One Campaign, filled in two trades, and a crash.
Partial == INSTANCE Campaign WITH
    Campaigns <- OneCampaign, Exits <- TwoExits, Symbols <- Both,
    SymbolOf <- CampaignOnA, FirstEvents <- AccountOnly, PartialFills <- TRUE,
    MaxCrashes <- 1, MaxDisconnects <- 0, lease <- cLease, crashes <- cCrashes

\* Two Campaigns; the user stream is lost and comes back.
Drop == INSTANCE Campaign WITH
    Campaigns <- TwoCampaigns, Exits <- OneExit, Symbols <- Both,
    SymbolOf <- CampaignOnEach, FirstEvents <- AccountOnly, PartialFills <- FALSE,
    MaxCrashes <- 0, MaxDisconnects <- 1, lease <- cLease, crashes <- cCrashes

\* One Campaign, a second exit decision, and a crash.
Sole == INSTANCE Campaign WITH
    Campaigns <- OneCampaign, Exits <- TwoExits, Symbols <- OneSymbol,
    SymbolOf <- CampaignOnA, FirstEvents <- AccountOnly, PartialFills <- FALSE,
    MaxCrashes <- 1, MaxDisconnects <- 0, lease <- cLease, crashes <- cCrashes

\* One Campaign whose fill may be reported before its account update.
Early == INSTANCE Campaign WITH
    Campaigns <- OneCampaign, Exits <- OneExit, Symbols <- OneSymbol,
    SymbolOf <- CampaignOnA, FirstEvents <- {"account", "trade"}, PartialFills <- FALSE,
    MaxCrashes <- 0, MaxDisconnects <- 0, lease <- cLease, crashes <- cCrashes

\* profit_reinvest_ratio = 1/2, in whole units.
Half(profit) == profit \div 2

\* The capital book itself is the instance "books": three settlements of a loss
\* beyond the trading pool, one within it and a profit, and a crash; live, two.
LossesAndProfit == {-6, -2, 4}
LossAndProfit   == {-6, 4}
BooksLive == INSTANCE Capital WITH Campaigns <- TwoCampaigns, Results <- LossAndProfit

FirstWindow == <<[from |-> 2, closed |-> 5]>>
TwoWindows  == <<[from |-> 2, closed |-> 5], [from |-> 8, closed |-> 8]>>

\* More fees than the pages hold, at two times of a Campaign, ...
Fees == INSTANCE FundingIncome WITH
    PerMilli <- 2, Windows <- FirstWindow, Times <- {2, 6}, Amounts <- {1},
    PageSize <- 2, MaxPages <- 2, MaxRows <- 5, MaxFaults <- 1, Corrected <- FALSE,
    sync <- funding, faults <- fFaults

\* ... two fees of two Campaigns, one of which the exchange changes, ...
Changed == INSTANCE FundingIncome WITH
    PerMilli <- 2, Windows <- TwoWindows, Times <- {6, 8}, Amounts <- {1, 2},
    PageSize <- 1, MaxPages <- 3, MaxRows <- 2, MaxFaults <- 2, Corrected <- TRUE,
    sync <- funding, faults <- fFaults

\* ... and three fees the pages have room for.
FeesLive == INSTANCE FundingIncome WITH
    PerMilli <- 2, Windows <- TwoWindows, Times <- {4, 8}, Amounts <- {1},
    PageSize <- 1, MaxPages <- 4, MaxRows <- 3, MaxFaults <- 1, Corrected <- FALSE,
    sync <- funding, faults <- fFaults

\* Write errors, outages of the database and crashes, no stop while busy.
Faulty == INSTANCE EventJournal WITH
    MaxEvents <- 3, MaxRuns <- 3, MaxErrors <- 1, MaxOutages <- 1, MaxCrashes <- 1,
    MaxStops <- 1, StopWhileBusy <- FALSE,
    phase <- jPhase, pending <- unsent, lock <- jLock, crashes <- jCrashes

\* Stops at any point, no other fault.
Stopped == INSTANCE EventJournal WITH
    MaxEvents <- 4, MaxRuns <- 3, MaxErrors <- 0, MaxOutages <- 0, MaxCrashes <- 0,
    MaxStops <- 2, StopWhileBusy <- TRUE,
    phase <- jPhase, pending <- unsent, lock <- jLock, crashes <- jCrashes

\* Three events, an outage of the database, a crash and a stop.
JournalLive == INSTANCE EventJournal WITH
    MaxEvents <- 3, MaxRuns <- 5, MaxErrors <- 0, MaxOutages <- 1, MaxCrashes <- 1,
    MaxStops <- 1, StopWhileBusy <- FALSE,
    phase <- jPhase, pending <- unsent, lock <- jLock, crashes <- jCrashes

SellFirst == [o \in Pair |-> IF o = "o1" THEN -1 ELSE 1]

\* One order of two lots through two lost connections or crashes, ...
Ledger == INSTANCE LedgerBooks WITH
    Orders <- OneOrder, Sign <- SellFirst, Size <- 2, MaxBreaks <- 2, MaxSyncs <- 3,
    PromptCommit <- TRUE,
    exch <- lExch, link <- lLink, stream <- lStream, wal <- lWal, trades <- lTrades,
    pos <- lPos, sync <- lSync

\* ... and an entry and an exit through one.
TwoOrders == INSTANCE LedgerBooks WITH
    Orders <- Pair, Sign <- SellFirst, Size <- 1, MaxBreaks <- 1, MaxSyncs <- 2,
    PromptCommit <- TRUE,
    exch <- lExch, link <- lLink, stream <- lStream, wal <- lWal, trades <- lTrades,
    pos <- lPos, sync <- lSync

Fill(symbol, pnl, asset) ==
    [symbol |-> symbol, pnl |-> pnl, known |-> TRUE, asset |-> asset]

\* A loss, a profit with its fee in another asset, and a fill of another symbol.
FillKinds == {Fill("S", -2, "USDT"), Fill("S", 3, "BNB"), Fill("A", 1, "USDT")}

Reports == INSTANCE LedgerReports WITH
    Campaigns <- {1, 2}, Kinds <- FillKinds, Fee <- 1, Days <- 3, DayLength <- 1,
    MaxSide <- 2

ASSUME InstancesOK ==
    /\ Limited!ConstantsOK /\ OneFault!ConstantsOK /\ TwoSymbols!ConstantsOK
    /\ RiskLive!ConstantsOK
    /\ Crashed!ConstantsOK /\ Partial!ConstantsOK /\ Drop!ConstantsOK /\ Sole!ConstantsOK
    /\ Early!ConstantsOK
    /\ ConstantsOK /\ BooksLive!ConstantsOK
    /\ Fees!ConstantsOK /\ Changed!ConstantsOK /\ FeesLive!ConstantsOK
    /\ Faulty!ConstantsOK /\ Stopped!ConstantsOK /\ JournalLive!ConstantsOK

Live == {"order live", "risk live", "campaign live", "books live", "journal live",
         "fees live"}

MCInit ==
    /\ instance \in Instances
    /\ IF instance \in Live THEN Order!Init ELSE Doubt!Init
    /\ IF instance \in Live THEN RiskLive!Init
       ELSE IF instance = "two symbols" THEN TwoSymbols!Init ELSE Limited!Init
    /\ IF instance \in Live THEN Sole!Init
       ELSE IF instance = "partial" THEN Partial!Init
       ELSE IF instance = "drop" THEN Drop!Init
       ELSE IF instance = "early" THEN Early!Init ELSE Crashed!Init
    /\ IF instance \in Live THEN BooksLive!Init ELSE Init
    /\ IF instance \in Live THEN JournalLive!Init ELSE Faulty!Init
    /\ IF instance = "two orders" THEN TwoOrders!Init ELSE Ledger!Init
    /\ Reports!Init
    /\ IF instance = "fees" THEN Fees!Init ELSE Changed!Init

MCNext ==
    \/ /\ \/ instance = "doubt" /\ Doubt!Next
          \/ instance = "order live" /\ Order!Next
       /\ UNCHANGED <<instance, risk, campaign, capital, journal, ledger, table, fees>>
    \/ /\ \/ instance = "limited" /\ Limited!Next
          \/ instance = "one fault" /\ OneFault!Next
          \/ instance = "two symbols" /\ TwoSymbols!Next
          \/ instance = "risk live" /\ RiskLive!Next
       /\ UNCHANGED <<instance, orders, campaign, capital, journal, ledger, table, fees>>
    \/ /\ \/ instance = "crash" /\ Crashed!Next
          \/ instance = "partial" /\ Partial!Next
          \/ instance = "drop" /\ Drop!Next
          \/ instance = "early" /\ Early!Next
          \/ instance = "campaign live" /\ Sole!Next
       /\ UNCHANGED <<instance, orders, risk, capital, journal, ledger, table, fees>>
    \/ /\ \/ instance = "books" /\ Next
          \/ instance = "books live" /\ BooksLive!Next
       /\ UNCHANGED <<instance, orders, risk, campaign, journal, ledger, table, fees>>
    \/ /\ \/ instance = "faulty" /\ Faulty!Next
          \/ instance = "stopped" /\ Stopped!Next
          \/ instance = "journal live" /\ JournalLive!Next
       /\ UNCHANGED <<instance, orders, risk, campaign, capital, ledger, table, fees>>
    \/ /\ \/ instance = "ledger" /\ Ledger!Next
          \/ instance = "two orders" /\ TwoOrders!Next
       /\ UNCHANGED <<instance, orders, risk, campaign, capital, journal, table, fees>>
    \/ /\ \/ instance = "fees" /\ Fees!Next
          \/ instance = "corrected" /\ Changed!Next
          \/ instance = "fees live" /\ FeesLive!Next
       /\ UNCHANGED <<instance, orders, risk, campaign, capital, journal, ledger, table>>
    \/ /\ instance = "reports" /\ Reports!Next
       /\ UNCHANGED <<instance, orders, risk, campaign, capital, journal, ledger, fees>>

MCSpec == MCInit /\ [][MCNext]_all

-----------------------------------------------------------------------------
(* Safety *)

\* Every lot at the exchange, filled or open, is counted by the risk guard as a
\* position or a reservation; what the exchange holds stays within
\* max_position_value_usdt per symbol and within max_symbols; and a symbol with
\* an order in doubt is blocked for new entries, whichever task touched it last.
EntriesBounded ==
    /\ instance = "doubt" => Doubt!UnknownBlocksSymbol
    /\ instance \in {"limited", "one fault"} =>
         /\ Limited!ExposureCovered /\ Limited!WithinLimits
         /\ IF instance = "limited" THEN Limited!TypeOK ELSE OneFault!TypeOK
    /\ instance = "two symbols" =>
         TwoSymbols!ExposureCovered /\ TwoSymbols!WithinLimits /\ TwoSymbols!TypeOK

\* Orders that live and positions that are open belong to the Campaign that
\* holds the lease, a Campaign whose lease was released with fills was settled
\* exactly once, through a crash between any two steps, the arbiter lets one
\* entry into the queue at a time, and an exit closes the position it was
\* decided for, also when the stream was lost or the process died in between.
LeaseCoversRisk ==
    /\ instance = "crash" =>
         /\ Crashed!RiskIsOwned /\ Crashed!ReleasedIsSettled /\ Crashed!OneEntryPending
         /\ Crashed!ExitHitsItsCampaign /\ Crashed!TypeOK
    /\ instance = "partial" =>
         Partial!RiskIsOwned /\ Partial!ReleasedIsSettled /\ Partial!TypeOK
    /\ instance = "drop" => Drop!ExitHitsItsCampaign /\ Drop!TypeOK
    /\ instance = "early" => Early!OneEntryPending /\ Early!TypeOK

\* An event whose append returned is in the file or in the database, the
\* database holds a prefix of each run's events, and after a close without an
\* error it holds all of them.
JournalKeepsEvents ==
    /\ instance = "faulty" => Faulty!JournalKeepsEvents /\ Faulty!JournalInv /\ Faulty!TypeOK
    /\ instance = "stopped" => Stopped!CleanCloseMirrorsAll /\ Stopped!TypeOK

\* Once a reconciliation has opened the gate and every event is handled, the
\* orders, trades and positions tables are the exchange's facts, whatever was
\* lost or interleaved before; an acknowledged order, which no later sync looks
\* at, is booked for good; and what the Web UI reports of the trades adds up
\* over periods, days and groups and agrees with each Campaign's own page.  The
\* funding a Campaign is settled with is complete (sync_funding_fee_total), and
\* the capital book keeps its inductive invariant.
LedgerIsTrue ==
    /\ instance = "ledger" =>
         /\ Ledger!BooksAgree /\ Ledger!AcknowledgedIsBooked /\ Ledger!BookedIsReal
         /\ Ledger!TypeOK
    /\ instance = "two orders" =>
         /\ TwoOrders!BooksAgree /\ TwoOrders!AcknowledgedIsBooked /\ TwoOrders!BookedIsReal
         /\ TwoOrders!TypeOK
    /\ instance = "reports" => Reports!ReportsAreConsistent
    /\ instance = "fees" => Fees!TypeOK /\ Fees!FeesAreComplete
    /\ instance = "corrected" => Changed!TypeOK /\ Changed!FeesAreComplete
    /\ instance = "books" => TypeOK /\ CapitalInv

\* Orders that live and positions that are open belong to the Campaign that holds
\* the lease (maybe_release_campaign), also when the fill of an order is reported
\* before its account update.
RiskIsOwned == instance = "early" => Early!RiskIsOwned

-----------------------------------------------------------------------------
(* Liveness, each under the fairness of its component *)

\* What the exchange has ended the WAL has as ended in the end, an order does
\* not stay in doubt for ever, and what an ended order had reserved is given
\* back.
OrdersEnd ==
    /\ instance = "order live" /\ Order!Fairness
         => Order!EndIsLearned /\ Order!DoubtIsResolved
    /\ instance = "risk live" /\ RiskLive!Fairness => RiskLive!CapacityReturns

\* A Campaign whose orders and position are gone releases its lease, every
\* queued job is served, also the one a crash interrupted, and the signal
\* arbiter does not stay with a Campaign that has ended.
CampaignsEnd ==
    instance = "campaign live" /\ Sole!Fairness
        => Sole!LeaseIsReleased /\ Sole!JobsFinish /\ Sole!ArbiterIsFreed

\* The capital gate follows the stored state in the end, and an event that was
\* written reaches PostgreSQL.  A Campaign gets its funding in the end.
RecordsCatchUp ==
    /\ instance = "books live" /\ BooksLive!Fairness => BooksLive!GateFollowsCapital
    /\ instance = "fees live" /\ FeesLive!Fairness => FeesLive!EventuallySettled
    /\ instance = "journal live" /\ JournalLive!Fairness => JournalLive!EventIsMirrored
=============================================================================
