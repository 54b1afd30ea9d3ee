----------------------------- MODULE MCBacktest -----------------------------
(***************************************************************************)
(* Instances of VisionCandles, BacktestSweep, BacktestEngine,              *)
(* BacktestLoader, ReportImport, ResearchViews and AmplitudeCycles for     *)
(* TLC.  They share no state here, so a behaviour is one of one instance,  *)
(* which "instance" names; the others stay where they start.               *)
(***************************************************************************)
EXTENDS Integers, Sequences, FiniteSets

CONSTANTS Instances     \* the instances a configuration looks at

VARIABLES
    instance,           \* the instance this behaviour is of
    gen, phase, sweep, plan, stopping, task, seen, outcome, rows, child, dir, merged,
    faults, crashes,
    now, event, last, ePc, scan, todo, orders, active, pos, closed, fills,
    archive, window, source, pc, at, out,
    reports, writer, imports, researches, reader, used,
    clock, placed, position, trades,
    unit, read, windows,
    bars, det

sweeps == <<gen, phase, sweep, plan, stopping, task, seen, outcome, rows, child, dir,
            merged, faults, crashes>>
engine == <<now, event, last, ePc, scan, todo, orders, active, pos, closed, fills>>
loader == <<archive, window, source, pc, at, out>>
store  == <<reports, writer, imports, researches, reader, used>>
views  == <<clock, placed, position, trades>>
parse  == <<unit, read, windows>>
cycles == <<bars, det>>
vars   == <<instance, sweeps, engine, loader, store, views, parse, cycles>>

TwoSymbols == {"btc", "eth"}
OneSymbol  == {"btc"}
TwoRuns    == <<"btc", "btc">>
OneRunEach == <<"btc", "eth">>
OneRun     == <<"btc">>

\* Two symbols at a time in two sweeps.
Pool == INSTANCE BacktestSweep WITH
    Symbols <- TwoSymbols, SymbolOf <- OneRunEach, Workers <- 2, Resume <- TRUE,
    MaxGen <- 1, MaxSweeps <- 2, MaxFaults <- 0, MaxCrashes <- 0

\* Two runs of a symbol, and a second sweep that resumes the first.
Resumed == INSTANCE BacktestSweep WITH
    Symbols <- OneSymbol, SymbolOf <- TwoRuns, Workers <- 1, Resume <- TRUE,
    MaxGen <- 1, MaxSweeps <- 2, MaxFaults <- 1, MaxCrashes <- 0

\* The archive changes under two sweeps.
Changed == INSTANCE BacktestSweep WITH
    Symbols <- OneSymbol, SymbolOf <- OneRun, Workers <- 1, Resume <- TRUE,
    MaxGen <- 2, MaxSweeps <- 2, MaxFaults <- 1, MaxCrashes <- 0

\* The same, and the orchestrator is killed.
Killed == INSTANCE BacktestSweep WITH
    Symbols <- OneSymbol, SymbolOf <- OneRun, Workers <- 1, Resume <- TRUE,
    MaxGen <- 2, MaxSweeps <- 2, MaxFaults <- 0, MaxCrashes <- 1

Intent(id, side, type, price, qty, reduce, ttl) ==
    [id |-> id, side |-> side, type |-> type, price |-> price, qty |-> qty,
     reduce |-> reduce, ttl |-> ttl]

Candle(o, h, l, c) == [open |-> o, high |-> h, low |-> l, close |-> c]

Entries == {Intent("s1", "SELL", "LIMIT", 20, 2, FALSE, 2),
            Intent("s2", "SELL", "LIMIT", 30, 2, FALSE, 0),
            Intent("b1", "BUY", "LIMIT", 20, 2, FALSE, 3)}
Exits   == {Intent("x1", "BUY", "MARKET", 20, 1, TRUE, 0),
            Intent("x2", "BUY", "LIMIT", 20, 2, TRUE, 0)}
Candles == {Candle(20, 40, 20, 30), Candle(20, 20, 10, 10)}

\* An entry of each side and exits, filled in two parts; a bar that goes up and
\* one that goes down.
Engine == INSTANCE BacktestEngine WITH
    Intents <- {e \in Entries : e.id # "s2"} \union Exits, Bars <- Candles, Klines <- {Candle(10, 40, 10, 20)},
    TradingStart <- 1, FillParts <- 2, Slippage <- 10, MaxTime <- 5, MaxAsked <- 1,
    pc <- ePc

\* The strategy asks for two orders at a time, also two entries of one side.
Pairs == INSTANCE BacktestEngine WITH
    Intents <- Entries \union Exits, Bars <- Candles, Klines <- {},
    TradingStart <- 1, FillParts <- 2, Slippage <- 10, MaxTime <- 3, MaxAsked <- 2,
    pc <- ePc

File(sym, tf, r) == [sym |-> sym, tf |-> tf, rows |-> r]

\* Days of four seconds for two symbols, klines of two seconds in files of two
\* and of six; the archive is whole, lacks a row or has some twice.
Whole ==
    {File(s, "1s", d .. d + 3) : s \in {"a", "b"}, d \in {0, 4, 8}}
    \union {File("a", "kline", {d, d + 2}) : d \in {0, 4, 8}}
    \union {File("b", "kline", {0, 2, 4, 6, 8, 10})}

Archived ==
    {Whole, Whole \union {File("a", "kline", {6, 8})}}
    \union UNION {{(Whole \ {f}) \union {File(f.sym, f.tf, f.rows \ {r})} : r \in f.rows} : f \in Whole}

Symbols == <<"a", "b">>
Seconds == [s \in {"a", "b"} |-> 0 .. 11]
Spans   == {1, 2, 3} \X {7, 8, 10}
Hours   == {1, 3, 20}

\* The 1s rows have trade ids, ...
Sparse == INSTANCE BacktestLoader WITH
    Step <- 2, DayLength <- 4, Archives <- Archived, Traded <- Seconds,
    Identified <- TRUE, Windows <- Spans, Chunks <- Hours, Shift <- 0

\* ... or have none.
Dense == INSTANCE BacktestLoader WITH
    Step <- 2, DayLength <- 4, Archives <- Archived, Traded <- Seconds,
    Identified <- FALSE, Windows <- Spans, Chunks <- Hours, Shift <- 0

\* The 1s rows are shifted by more than a kline.
Shifted == INSTANCE BacktestLoader WITH
    Step <- 2, DayLength <- 4, Archives <- {Whole}, Traded <- Seconds,
    Identified <- FALSE, Windows <- Spans, Chunks <- Hours, Shift <- 3

\* Commands import the directory a sweep writes; ...
Imports == INSTANCE ReportImport WITH
    Dirs <- {"d"}, Importers <- {"sweep", "cli"}, Sweeper <- "sweep",
    MaxSweeps <- 2, MaxImports <- 2, MaxReads <- 0,
    dir <- reports, sweep <- writer, imp <- imports, db <- researches, count <- used

\* ... a report has a copy, and the API reads.
Copies == INSTANCE ReportImport WITH
    Dirs <- {"d", "e"}, Importers <- {"sweep", "cli"}, Sweeper <- "sweep",
    MaxSweeps <- 2, MaxImports <- 1, MaxReads <- 1,
    dir <- reports, sweep <- writer, imp <- imports, db <- researches, count <- used

\* Orders without campaigns; orders of campaigns and exits without; two runs.
Legacy == INSTANCE ResearchViews WITH
    Runs <- {1}, ParamsOf <- <<"p">>, Campaigns <- FALSE, ExitCampaign <- FALSE,
    MaxTime <- 5, MaxOrders <- 4,
    now <- clock, orders <- placed, pos <- position, closed <- trades
Campaign == INSTANCE ResearchViews WITH
    Runs <- {1}, ParamsOf <- <<"p">>, Campaigns <- TRUE, ExitCampaign <- FALSE,
    MaxTime <- 4, MaxOrders <- 4,
    now <- clock, orders <- placed, pos <- position, closed <- trades
Both == INSTANCE ResearchViews WITH
    Runs <- {1, 2}, ParamsOf <- <<"p", "q">>, Campaigns <- FALSE, ExitCampaign <- FALSE,
    MaxTime <- 3, MaxOrders <- 2,
    now <- clock, orders <- placed, pos <- position, closed <- trades

TwoPrices == {1, 2}

\* Three trades in any order over three seconds and two minutes.
Parse == INSTANCE VisionCandles WITH
    LastId <- 3, LastTime <- 9, PerMilli <- 2, PerSecond <- 4, PerMinute <- 8,
    Base <- 40, Threshold <- 70, Prices <- TwoPrices, rows <- read

Minute(h, l, c) == [open |-> 12, high |-> h, low |-> l, close |-> c]

\* Falls, rises and spikes by more or less than the thresholds.
Cycles == INSTANCE AmplitudeCycles WITH
    BarKinds <- {Minute(12, 10, 10), Minute(12, 12, 12), Minute(14, 11, 13), Minute(20, 11, 12)},
    MaxBars <- 7, Floor <- 10, Cap <- 30, K <- 1, SpikePercent <- 40, RetracePercent <- 10,
    CrashStartPercent <- 20, SpikeK <- 1, CandidateDays <- {[from |-> 3, to |-> 5]}, LastDay <- 5

ASSUME InstancesOK ==
    /\ Parse!ConstantsOK
    /\ Imports!ConstantsOK /\ Copies!ConstantsOK
    /\ Legacy!ConstantsOK /\ Campaign!ConstantsOK /\ Both!ConstantsOK
    /\ Pool!ConstantsOK /\ Resumed!ConstantsOK /\ Changed!ConstantsOK /\ Killed!ConstantsOK
    /\ Engine!ConstantsOK /\ Pairs!ConstantsOK
    /\ Sparse!ConstantsOK /\ Dense!ConstantsOK /\ Shifted!ConstantsOK

Loaders == {"sparse", "dense", "shifted"}
Hold(v, S) == v = CHOOSE x \in S : TRUE

Init ==
    /\ instance \in Instances
    /\ IF instance = "pool" THEN Pool!Init
       ELSE IF instance = "resumed" THEN Resumed!Init
       ELSE IF instance = "killed" THEN Killed!Init ELSE Changed!Init
    /\ Engine!Init /\ (instance \notin {"engine", "pairs"} => Hold(event, Candles))
    /\ IF instance = "shifted" THEN Shifted!Init ELSE Sparse!Init
    /\ instance \notin Loaders => archive = Whole /\ window = [from |-> 1, to |-> 7, chunk |-> 1]
    /\ IF instance = "copies" THEN Copies!Init ELSE Imports!Init
    /\ IF instance = "both runs" THEN Both!Init ELSE Legacy!Init
    /\ Cycles!Init
    /\ Parse!Init /\ (instance # "parse" => unit = "ms")

Next ==
    \/ /\ \/ instance = "pool" /\ Pool!Next
          \/ instance = "resumed" /\ Resumed!Next
          \/ instance = "changed" /\ Changed!Next
          \/ instance = "killed" /\ Killed!Next
       /\ UNCHANGED <<instance, engine, loader, store, views, parse, cycles>>
    \/ /\ \/ instance = "engine" /\ Engine!Next
          \/ instance = "pairs" /\ Pairs!Next
       /\ UNCHANGED <<instance, sweeps, loader, store, views, parse, cycles>>
    \/ /\ \/ instance = "sparse" /\ Sparse!Next
          \/ instance = "dense" /\ Dense!Next
          \/ instance = "shifted" /\ Shifted!Next
       /\ UNCHANGED <<instance, sweeps, engine, store, views, parse, cycles>>
    \/ /\ \/ instance = "imports" /\ Imports!Next
          \/ instance = "copies" /\ Copies!Next
       /\ UNCHANGED <<instance, sweeps, engine, loader, views, parse, cycles>>
    \/ /\ \/ instance = "legacy rows" /\ Legacy!Next
          \/ instance = "campaign rows" /\ Campaign!Next
          \/ instance = "both runs" /\ Both!Next
       /\ UNCHANGED <<instance, sweeps, engine, loader, store, parse, cycles>>
    \/ /\ instance = "cycles" /\ Cycles!Next
       /\ UNCHANGED <<instance, sweeps, engine, loader, store, views, parse>>
    \/ /\ instance = "parse" /\ Parse!Next
       /\ UNCHANGED <<instance, sweeps, engine, loader, store, views, cycles>>

Spec == Init /\ [][Next]_vars

-----------------------------------------------------------------------------
(* Safety *)

\* What the report counts is whole and what is resumed is current
\* (_fresh_run_summary, _resume_summary).
ResultsAreWhole ==
    /\ instance = "pool" => Pool!SweepInv /\ Pool!CountedIsWhole /\ Pool!ResumedIsCurrent
    /\ instance = "resumed" => Resumed!SweepInv /\ Resumed!CountedIsWhole /\ Resumed!ResumedIsCurrent
    /\ instance = "changed" => Changed!SweepInv /\ Changed!CountedIsWhole /\ Changed!ResumedIsCurrent
    /\ instance = "killed" => Killed!SweepInv /\ Killed!CountedIsWhole /\ Killed!ResumedIsCurrent

\* The index of active orders, the position and the trade report agree with the
\* fills, and an order fills only while it lives (_execute_fill,
\* _update_position, _expire_order, _build_trades).
BooksAgree ==
    /\ instance = "engine" =>
         Engine!TypeOK /\ Engine!ActiveIndexExact /\ Engine!BooksExplainFills /\ Engine!FillsInLifetime
           /\ Engine!ReportIsExplained
    /\ instance = "pairs" =>
         Pairs!ActiveIndexExact /\ Pairs!BooksExplainFills /\ Pairs!FillsInLifetime
           /\ Pairs!ReportIsExplained

\* The stream of candles is ordered, without doubles and complete (iter_all);
\* with shifted 1s rows only the first two hold.  Daily and monthly files of the
\* same trades give the same candles (parse_aggtrade_archive,
\* parse_monthly_aggtrade_archive).
StreamIsWhole ==
    /\ instance = "parse" => Parse!TypeOK /\ Parse!CandlesAgree
    /\ instance = "sparse" => Sparse!TypeOK /\ Sparse!StreamOrdered /\ Sparse!StreamComplete
    /\ instance = "dense" => Dense!StreamOrdered /\ Dense!StreamComplete
    /\ instance = "shifted" => Shifted!StreamOrdered

\* An imported research is the report it was made from, a directory has one, a
\* read is of one report (import_directory), and what the API shows of a research
\* agrees: every order with one trade, fill rates of the orders shown, pages and
\* replay sets that cover the trades (list_symbols, list_trades, get_trade).  The
\* cycles found in minute bars are swings and spikes of these (analyze_cycles).
ResearchIsTrue ==
    /\ instance = "cycles" => Cycles!TypeOK /\ Cycles!CyclesAreSound
    /\ instance = "imports" => Imports!ImportsAreSound
    /\ instance = "copies" => Copies!ImportsAreSound
    /\ instance = "legacy rows" => Legacy!ViewsAgree
    /\ instance = "campaign rows" => Campaign!ViewsAgree
    /\ instance = "both runs" => Both!ViewsAgree

-----------------------------------------------------------------------------
(* Steps *)

\* A reduce-only order never opens or enlarges a position (_execute_fill), an
\* interrupted sweep leaves no child behind (terminate_all), and a research goes
\* only when one of the same report or directory comes (import_directory).  A cycle
\* once found stays as it is (_analyze_dc_cycles).
StepsAreAllowed ==
    /\ Engine!ReduceOnlyReduces /\ Pool!InterruptLeavesNoChild /\ Imports!ReplacedOnly
    /\ Cycles!EventsAreFinal

\* A sweep that was started ends, whatever the archive does meanwhile, when
\* threads and children run on (_main).
SweepsEnd == instance = "changed" /\ Changed!Fairness => Changed!SweepEnds
=============================================================================
