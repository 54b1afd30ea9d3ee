------------------------------- MODULE MCData -------------------------------
(***************************************************************************)
(* Instances of MarketFeed, BarConsumer, Subscriptions, MetricsFeed,       *)
(* CandleArchive, MetricsArchive, CandleSnapshot and VisionFetch for TLC.  *)
(* They share no state here, so a behaviour is one of one instance, which  *)
(* "instance" names; the others stay where they start.                     *)
(***************************************************************************)
EXTENDS CandleArchive, Integers, Sequences, FiniteSets

CONSTANTS
    p, q,               \* the processes that write an archive
    Instances           \* the instances a configuration looks at

VARIABLES
    instance,           \* the instance this behaviour is of
    head, link, queue, overflow, quality, agg, pending, replay, recovered, retry,
    task, redis, fFaults, drops, refreshes,
    prod, wire, bQueue, blocked, overflowed, pc, cur, from, last, streak, failed,
    received, available, gate, epoch, known, seen, orders, budget,
    oFiles, oIndex, oProc,
    mFiles, mIndex, mMetaOk, catalog, mUpTo, lock, mProc, mFaults,
    now, had, lost, sQueue, sProc, fault, buffer, active, wal, torn, file, outbox,
    store, row, failedEvent, doneEvent, entry, signal, delivery, work, stops, sFaults,
    mirrors, worker, busy, turn, slots, fetches, vFaults,
    sEpoch, up, subs, counts, current, status, waiting, holder, recovery, client,
    uFaults, uStops,
    clock, value, collector, latest, mStream, lastId, spike, gFaults

feed      == <<head, link, queue, overflow, quality, agg, pending, replay, recovered,
               retry, task, redis, fFaults, drops, refreshes>>
bars      == <<prod, wire, bQueue, blocked, overflowed, pc, cur, from, last, streak,
               failed, received, available, gate, epoch, known, seen, orders, budget>>
minutes   == <<files, index, proc>>
overlap   == <<oFiles, oIndex, oProc>>
candles   == <<vars, overlap>>
metrics   == <<mFiles, mIndex, mMetaOk, catalog, mUpTo, lock, mProc, mFaults>>
snapshots == <<now, had, lost, sQueue, sProc, fault, buffer, active, wal, torn, file,
               outbox, store, row, failedEvent, doneEvent, entry, signal, delivery,
               work, stops, sFaults>>
fetch     == <<mirrors, worker, busy, turn, slots, fetches, vFaults>>
register  == <<sEpoch, up, subs, counts, current, status, waiting, holder, recovery,
               client, uFaults, uStops>>
live5m    == <<clock, value, collector, latest, mStream, lastId, spike, gFaults>>
all       == <<instance, feed, bars, candles, metrics, snapshots, fetch, register,
               live5m>>

\* The seconds of the trades: two of them share one.
Trades == <<0, 1, 1, 2, 3>>
Short  == <<0, 1, 2, 3>>

\* A lost connection, a failing call, and a queue of one message.
Drops == INSTANCE MarketFeed WITH
    SecondOf <- Trades, PageSize <- 2, MaxPages <- 1, QueueSize <- 1,
    PromptReplies <- TRUE, MaxFaults <- 1, MaxDrops <- 1, MaxRefreshes <- 0,
    faults <- fFaults

\* A changed subscription or a restart, and a backfill of two pages.
Refresh == INSTANCE MarketFeed WITH
    SecondOf <- Trades, PageSize <- 1, MaxPages <- 2, QueueSize <- 2,
    PromptReplies <- TRUE, MaxFaults <- 1, MaxDrops <- 0, MaxRefreshes <- 1,
    faults <- fFaults

\* A lost connection, and answers of Redis to one task that come after the other
\* task has gone on.
Race == INSTANCE MarketFeed WITH
    SecondOf <- Short, PageSize <- 2, MaxPages <- 1, QueueSize <- 1,
    PromptReplies <- FALSE, MaxFaults <- 0, MaxDrops <- 1, MaxRefreshes <- 0,
    faults <- fFaults

\* A lost connection and a failing call, over four trades.
FeedLive == INSTANCE MarketFeed WITH
    SecondOf <- Short, PageSize <- 2, MaxPages <- 1, QueueSize <- 1,
    PromptReplies <- TRUE, MaxFaults <- 1, MaxDrops <- 1, MaxRefreshes <- 0,
    faults <- fFaults

OneSymbol  == {"a"}
TwoSymbols == {"a", "b"}

\* Two symbols share a queue of one bar; every recovery is answered at once or
\* refused.
TwoBars == INSTANCE BarConsumer WITH
    Symbols <- TwoSymbols, LastBar <- 4, Calm <- 2, Unmarked <- {}, Overlapping <- {},
    StableBars <- 2, QueueMax <- 1, WireBound <- 2, StreamKeep <- 1, LiveAfter <- 0, LossBudget <- 1,
    EpochBudget <- 0, SilenceBudget <- 0, TransientBudget <- 0, RefusalBudget <- 1,
    queue <- bQueue

\* One symbol, old bars, a restarted market service and failing recoveries.
OneBar == INSTANCE BarConsumer WITH
    Symbols <- OneSymbol, LastBar <- 6, Calm <- 2, Unmarked <- {}, Overlapping <- {},
    StableBars <- 2, QueueMax <- 6, WireBound <- 1, StreamKeep <- 1, LiveAfter <- 1, LossBudget <- 1,
    EpochBudget <- 1, SilenceBudget <- 1, TransientBudget <- 1, RefusalBudget <- 1,
    queue <- bQueue

\* Two symbols, a lost notification and a recovery that fails for now, ...
GapBars == INSTANCE BarConsumer WITH
    Symbols <- TwoSymbols, LastBar <- 4, Calm <- 0, Unmarked <- {}, Overlapping <- {},
    StableBars <- 2, QueueMax <- 1, WireBound <- 1, StreamKeep <- 1, LiveAfter <- 0,
    LossBudget <- 1, EpochBudget <- 0, SilenceBudget <- 0, TransientBudget <- 1,
    RefusalBudget <- 0, queue <- bQueue

\* ... or a bar without ids and one that repeats an id.
OddBars == INSTANCE BarConsumer WITH
    Symbols <- TwoSymbols, LastBar <- 5, Calm <- 0,
    Unmarked <- {[sym |-> "a", k |-> 2]}, Overlapping <- {[sym |-> "b", k |-> 3]},
    StableBars <- 2, QueueMax <- 2, WireBound <- 1, StreamKeep <- 1, LiveAfter <- 0,
    LossBudget <- 0, EpochBudget <- 0, SilenceBudget <- 0, TransientBudget <- 0,
    RefusalBudget <- 1, queue <- bQueue

\* Two symbols, a lost notification and a restarted market service.
BarsLive == INSTANCE BarConsumer WITH
    Symbols <- TwoSymbols, LastBar <- 3, Calm <- 2, Unmarked <- {}, Overlapping <- {},
    StableBars <- 2, QueueMax <- 1, WireBound <- 1, StreamKeep <- 1, LiveAfter <- 0, LossBudget <- 1,
    EpochBudget <- 1, SilenceBudget <- 0, TransientBudget <- 0, RefusalBudget <- 0,
    queue <- bQueue

One  == {p}
Two  == {p, q}
Both == {"download", "index"}

\* The candle archive itself is the instance "minutes": one process on a minute
\* timeframe, daily files, then the monthly one, which has every day or lacks the
\* last one.
Full3 == {1 .. 3}
Full2 == {1 .. 2}

\* Two processes on the 1s timeframe, which has daily files only.
Dailies == INSTANCE CandleArchive WITH
    Procs <- Two, LastDay <- 2, Seconds <- TRUE, MonthlyRows <- Full2, MaxFaults <- 1

\* Two processes on a minute timeframe, over the day and the month that has it.
Overlap == INSTANCE CandleArchive WITH
    Procs <- Two, LastDay <- 1, Seconds <- FALSE, MonthlyRows <- {{1}}, MaxFaults <- 0,
    files <- oFiles, index <- oIndex, proc <- oProc

\* One process on the 1s timeframe.
CandlesLive == INSTANCE CandleArchive WITH Seconds <- TRUE, MonthlyRows <- Full3

\* Two processes on the metrics of one symbol, ...
Metrics == INSTANCE MetricsArchive WITH
    Procs <- Two, LastDay <- 2, Tools <- Both, MaxFaults <- 1,
    files <- mFiles, index <- mIndex, metaOk <- mMetaOk, upTo <- mUpTo,
    proc <- mProc, faults <- mFaults

\* ... and one.
MetricsLive == INSTANCE MetricsArchive WITH
    Procs <- One, LastDay <- 3, Tools <- Both, MaxFaults <- 2,
    files <- mFiles, index <- mIndex, metaOk <- mMetaOk, upTo <- mUpTo,
    proc <- mProc, faults <- mFaults

OneCampaign  == {1}
TwoCampaigns == {1, 2}

\* One Campaign with a quiet second, a lost bar and a stop.
Snapshot == INSTANCE CandleSnapshot WITH
    Campaigns <- OneCampaign, Seconds <- 6, PreWindow <- 1, PostWindow <- 3,
    MaxQuiet <- 1, MaxLost <- 1, MaxStops <- 1, MaxFaults <- 0,
    queue <- sQueue, proc <- sProc, faults <- sFaults

\* Two Campaigns, a stop and a failing call, ...
Snapshots == INSTANCE CandleSnapshot WITH
    Campaigns <- TwoCampaigns, Seconds <- 3, PreWindow <- 1, PostWindow <- 1,
    MaxQuiet <- 0, MaxLost <- 0, MaxStops <- 1, MaxFaults <- 1,
    queue <- sQueue, proc <- sProc, faults <- sFaults

\* ... or a second stop while the process recovers from the first.
TwoStops == INSTANCE CandleSnapshot WITH
    Campaigns <- TwoCampaigns, Seconds <- 3, PreWindow <- 1, PostWindow <- 1,
    MaxQuiet <- 0, MaxLost <- 0, MaxStops <- 2, MaxFaults <- 0,
    queue <- sQueue, proc <- sProc, faults <- sFaults

\* One Campaign, a stop and a failing call.
SnapshotLive == INSTANCE CandleSnapshot WITH
    Campaigns <- OneCampaign, Seconds <- 4, PreWindow <- 1, PostWindow <- 2,
    MaxQuiet <- 0, MaxLost <- 0, MaxStops <- 1, MaxFaults <- 1,
    queue <- sQueue, proc <- sProc, faults <- sFaults

OneWorker  == {1}
TwoWorkers == {1, 2}

\* Two workers share one temporary file and one proxy.
Fetch == INSTANCE VisionFetch WITH
    Workers <- TwoWorkers, Proxies <- 1, Attempts <- 2, Tries <- 1, Slots <- 1,
    LastVersion <- 2, MaxFetches <- 2, MaxFaults <- 1, faults <- vFaults

\* One worker, two proxies, and two tries of each request.
Retries == INSTANCE VisionFetch WITH
    Workers <- OneWorker, Proxies <- 2, Attempts <- 2, Tries <- 2, Slots <- 1,
    LastVersion <- 2, MaxFetches <- 2, MaxFaults <- 2, faults <- vFaults

\* Two workers again, and an archive that is not replaced.
FetchLive == INSTANCE VisionFetch WITH
    Workers <- TwoWorkers, Proxies <- 1, Attempts <- 2, Tries <- 1, Slots <- 1,
    LastVersion <- 1, MaxFetches <- 2, MaxFaults <- 1, faults <- vFaults

Strategies == {"kline", "tick"}
Pairs      == {"x", "y"}
Wanted     == [c \in Strategies |-> IF c = "kline" THEN {"x", "y"} ELSE {"y"}]

\* Two strategies that share a stream, a restarted service, a failed connection
\* or request, and a strategy that is stopped or killed.
Register == INSTANCE Subscriptions WITH
    Consumers <- Strategies, Streams <- Pairs, Wants <- Wanted, MaxTries <- 2,
    MaxRestarts <- 1, MaxFaults <- 1, MaxStops <- 1,
    epoch <- sEpoch, faults <- uFaults, stops <- uStops

\* The same without a stop, and with one try at the start.
RegisterLive == INSTANCE Subscriptions WITH
    Consumers <- Strategies, Streams <- Pairs, Wants <- Wanted, MaxTries <- 1,
    MaxRestarts <- 1, MaxFaults <- 1, MaxStops <- 0,
    epoch <- sEpoch, faults <- uFaults, stops <- uStops

OneCollector  == {1}
TwoCollectors == {1, 2}

\* One market service, with late answers, a gap and a restart.
OneService == INSTANCE MetricsFeed WITH
    Collectors <- OneCollector, MaxAge <- 1, StreamLength <- 2, SeriesLength <- 2,
    MaxLag <- 2, MaxTime <- 3, MaxFaults <- 1,
    now <- clock, stream <- mStream, faults <- gFaults

\* A service that is replaced by another.
TwoServices == INSTANCE MetricsFeed WITH
    Collectors <- TwoCollectors, MaxAge <- 1, StreamLength <- 2, SeriesLength <- 2,
    MaxLag <- 1, MaxTime <- 2, MaxFaults <- 0,
    now <- clock, stream <- mStream, faults <- gFaults

ASSUME InstancesOK ==
    /\ Drops!ConstantsOK /\ Refresh!ConstantsOK /\ Race!ConstantsOK
    /\ FeedLive!ConstantsOK
    /\ TwoBars!ConstantsOK /\ OneBar!ConstantsOK /\ BarsLive!ConstantsOK
    /\ GapBars!ConstantsOK /\ OddBars!ConstantsOK
    /\ ConstantsOK /\ Dailies!ConstantsOK /\ Overlap!ConstantsOK /\ CandlesLive!ConstantsOK
    /\ Metrics!ConstantsOK /\ MetricsLive!ConstantsOK
    /\ Snapshot!ConstantsOK /\ Snapshots!ConstantsOK /\ SnapshotLive!ConstantsOK
    /\ TwoStops!ConstantsOK
    /\ Fetch!ConstantsOK /\ Retries!ConstantsOK /\ FetchLive!ConstantsOK
    /\ Register!ConstantsOK /\ RegisterLive!ConstantsOK

Live == {"feed live", "bars live", "candles live", "metrics live", "snapshot live",
         "fetch live", "register live"}

MCInit ==
    /\ instance \in Instances
    /\ IF instance \in Live THEN FeedLive!Init ELSE Drops!Init
    /\ IF instance \in Live THEN BarsLive!Init
       ELSE IF instance = "one bar" THEN OneBar!Init
       ELSE IF instance = "gap bars" THEN GapBars!Init
       ELSE IF instance = "odd bars" THEN OddBars!Init ELSE TwoBars!Init
    /\ IF instance \in Live THEN CandlesLive!Init
       ELSE IF instance = "minutes" THEN Init
       ELSE IF instance = "overlap"
       THEN Overlap!Init /\ files = {} /\ index = oIndex /\ proc = oProc
       ELSE Dailies!Init
    /\ oFiles = {} /\ oIndex = index /\ oProc = [c \in Two |-> Idle]
    /\ IF instance \in Live THEN MetricsLive!Init ELSE Metrics!Init
    /\ IF instance \in Live THEN SnapshotLive!Init
       ELSE IF instance \in {"snapshots", "two stops"} THEN Snapshots!Init ELSE Snapshot!Init
    /\ IF instance = "retries" THEN Retries!Init
       ELSE IF instance \in Live THEN FetchLive!Init ELSE Fetch!Init
    /\ instance \notin {"fetch", "retries", "fetch live"} =>
         mirrors = [c \in {1, 2} |-> [zip |-> 0, sum |-> 0]]
    /\ Register!Init
    /\ IF instance = "two services" THEN TwoServices!Init ELSE OneService!Init

MCNext ==
    \/ /\ \/ instance = "drops" /\ Drops!Next
          \/ instance = "refresh" /\ Refresh!Next
          \/ instance = "race" /\ Race!Next
          \/ instance = "feed live" /\ FeedLive!Next
       /\ UNCHANGED <<instance, bars, candles, metrics, snapshots, fetch,
                      register, live5m>>
    \/ /\ \/ instance = "two bars" /\ TwoBars!Next
          \/ instance = "one bar" /\ OneBar!Next
          \/ instance = "gap bars" /\ GapBars!Next
          \/ instance = "odd bars" /\ OddBars!Next
          \/ instance = "bars live" /\ BarsLive!Next
       /\ UNCHANGED <<instance, feed, candles, metrics, snapshots, fetch,
                      register, live5m>>
    \/ /\ \/ /\ \/ instance = "minutes" /\ Next
                \/ instance = "dailies" /\ Dailies!Next
                \/ instance = "candles live" /\ CandlesLive!Next
             /\ UNCHANGED overlap
          \/ instance = "overlap" /\ Overlap!Next /\ UNCHANGED minutes
       /\ UNCHANGED <<instance, feed, bars, metrics, snapshots, fetch,
                      register, live5m>>
    \/ /\ \/ instance = "metrics" /\ Metrics!Next
          \/ instance = "metrics live" /\ MetricsLive!Next
       /\ UNCHANGED <<instance, feed, bars, candles, snapshots, fetch,
                      register, live5m>>
    \/ /\ \/ instance = "snapshot" /\ Snapshot!Next
          \/ instance = "snapshots" /\ Snapshots!Next
          \/ instance = "two stops" /\ TwoStops!Next
          \/ instance = "snapshot live" /\ SnapshotLive!Next
       /\ UNCHANGED <<instance, feed, bars, candles, metrics, fetch,
                      register, live5m>>
    \/ /\ \/ instance = "fetch" /\ Fetch!Next
          \/ instance = "retries" /\ Retries!Next
          \/ instance = "fetch live" /\ FetchLive!Next
       /\ UNCHANGED <<instance, feed, bars, candles, metrics, snapshots,
                      register, live5m>>
    \/ /\ \/ instance = "register" /\ Register!Next
          \/ instance = "register live" /\ RegisterLive!Next
       /\ UNCHANGED <<instance, feed, bars, candles, metrics, snapshots, fetch, live5m>>
    \/ /\ \/ instance = "one service" /\ OneService!Next
          \/ instance = "two services" /\ TwoServices!Next
       /\ UNCHANGED <<instance, feed, bars, candles, metrics, snapshots, fetch,
                      register>>

MCSpec == MCInit /\ [][MCNext]_all

-----------------------------------------------------------------------------
(* Safety of the feed and its consumer *)

\* The trades in published, pending and open bars are one gapless run up to the
\* watermark a backfill starts from, every bar but the first holds all trades of
\* its second, and the bar stream in Redis has neither a gap nor an overlap.  The
\* WebSocket carries the streams that strategies are subscribed to, and a
\* strategy trusts no instance of the market service it is not subscribed at.
FeedLosesNothing ==
    /\ instance = "refresh" => Refresh!TypeOK
    /\ instance = "drops" => Drops!TypeOK
    /\ instance = "race" => Race!TypeOK
    /\ instance \in {"drops", "refresh"} =>
        Drops!Accounted /\ Drops!BarsComplete /\ Drops!StreamContiguous
    /\ instance = "register" => Register!TypeOK /\ Register!SubscriptionsHold

\* The bar stream in Redis has neither a gap nor an overlap, also when an answer
\* to _flush_pending_bars is late.
StreamContiguous == instance = "race" => Race!StreamContiguous

\* The continuity gate is open only while the last bars of every symbol follow
\* each other, or the watermark of the symbol stands before a gap whose recovery
\* failed for now; while it is closed no entry order rests; a published bar is
\* handled or waits unless Pub/Sub lost it, and the strategy gets every bar at
\* most once and in order as long as no recovery is given up and tried again.
\* The metrics gate is open only on points that follow each other, and they are
\* the ones Redis has.
GateFollowsBars ==
    /\ instance = "two bars" =>
         /\ TwoBars!TypeOK /\ TwoBars!OpenMeansContinuous /\ TwoBars!ClosedMeansNoEntries
         /\ TwoBars!OnlyPubSubLoses /\ TwoBars!NoBarTwice
    /\ instance = "one bar" =>
         /\ OneBar!TypeOK /\ OneBar!OpenMeansContinuous /\ OneBar!ClosedMeansNoEntries
         /\ OneBar!OnlyPubSubLoses
    /\ instance = "gap bars" =>
         /\ GapBars!TypeOK /\ GapBars!OpenMeansContinuous /\ GapBars!ClosedMeansNoEntries
         /\ GapBars!OnlyPubSubLoses
    /\ instance = "odd bars" =>
         /\ OddBars!TypeOK /\ OddBars!OpenMeansContinuous /\ OddBars!ClosedMeansNoEntries
         /\ OddBars!OnlyPubSubLoses
    /\ instance = "one service" => OneService!TypeOK /\ OneService!MetricsAreSound
    /\ instance = "two services" => TwoServices!TypeOK /\ TwoServices!MetricsAreSound

-----------------------------------------------------------------------------
(* Safety of the archives *)

\* No publication takes a day from the metrics index, and of two candle commands
\* that overlap one loses a day only when the other has removed the file that was
\* to hold it.  A published five-minute
\* point is never replaced, and the metrics gate only opens on a fresh one.
PublishedStays ==
    /\ Metrics!IndexNeverShrinks /\ Overlap!RowsNeverVanish
    /\ OneService!PublishedOnce /\ OneService!GateOpensFresh

\* A snapshot is called complete only if it has every traded second of its
\* window, a completed row describes the file on disk, a submitted entry has its
\* snapshot on disk or its row failed, and what left the WAL and the outbox is in
\* PostgreSQL and in the journal.  What the commands put into an archive is one
\* published file, whole and verified, and the candle archive keeps its inductive
\* invariant while they run, fail and are killed.
StoredDataIsHonest ==
    /\ instance = "snapshot" =>
         Snapshot!TypeOK /\ Snapshot!CoverageHonest /\ Snapshot!NothingLost /\ Snapshot!RowMatchesFile
    /\ instance \in {"snapshots", "two stops"} => Snapshots!NothingLost /\ Snapshots!RowMatchesFile
    /\ instance = "snapshots" => Snapshots!TypeOK
    /\ instance = "two stops" => TwoStops!TypeOK
    /\ instance = "minutes" => ArchiveInv
    /\ instance = "dailies" => Dailies!ArchiveInv /\ Dailies!CompleteIndexIsServed
    /\ instance = "overlap" => Overlap!TypeOK /\ \A c \in Two : Overlap!RemovalSound(c)
    /\ instance = "metrics" => Metrics!TypeOK
    /\ instance = "fetch" => Fetch!TypeOK /\ Fetch!FetchesAreSound
    /\ instance = "retries" => Retries!TypeOK /\ Retries!FetchesAreSound

-----------------------------------------------------------------------------
(* Liveness, each under the fairness of its component *)

\* Every trade of a finished second is published in the end, and entries are
\* admitted again in the end, or the process stops for a restart.  A running
\* strategy is subscribed in the end and trusts the service.
BarsFlow ==
    /\ instance = "feed live" /\ FeedLive!Fairness => FeedLive!EventuallyPublished
    /\ instance = "bars live" /\ BarsLive!Fairness => BarsLive!EventuallyOpen
    /\ instance = "register live" /\ RegisterLive!Fairness => RegisterLive!EventuallyTrusted

\* Running the candle commands again ends in a complete index of the month,
\* running the metrics commands again with every day in index and catalog; no
\* worker waits forever for a file; and a collecting snapshot is completed or
\* failed in the end.
ArchivesComplete ==
    /\ instance = "candles live" /\ CandlesLive!Fairness => CandlesLive!EventuallyServed
    /\ instance = "metrics live" /\ MetricsLive!Fairness => MetricsLive!EventuallyPublished
    /\ instance = "fetch live" /\ FetchLive!Fairness => FetchLive!FetchesEnd
    /\ instance = "snapshot live" /\ SnapshotLive!Fairness => SnapshotLive!CollectingEnds
=============================================================================
