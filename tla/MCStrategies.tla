---------------------------- MODULE MCStrategies ----------------------------
(***************************************************************************)
(* Instances of the strategies for TLC: SpikeStrategy, SpikeFeatures,      *)
(* PullbackEntry and LongBreakout.  They share no state here, so a         *)
(* behaviour is one of one instance, which "instance" names; the others    *)
(* stay where they start.                                                  *)
(***************************************************************************)
EXTENDS Integers, Sequences, FiniteSets

CONSTANTS Instances     \* the instances a configuration looks at

VARIABLES
    instance,           \* the instance this behaviour is of
    time, cached, run, last, signal, camp, owner, enabled, orders, cancels, pos, queue,
    arbiter, lease, made, kept, up, crashes, pauses,
    own, ownOrdered, shared, sharedOrdered, memo, front, bars, sharedBars, asked, second,
    taken,
    pBars, pLast, sig, pCamp, reduced, found, entries,
    lBars, hist, seen, spos, pe, px, lEnabled, market, batch, lQueue, store, wal, exch,
    reports, processed, phase, faults

spike    == <<time, cached, run, last, signal, camp, owner, enabled, orders, cancels, pos,
              queue, arbiter, lease, made, kept, up, crashes, pauses>>
features == <<own, ownOrdered, shared, sharedOrdered, memo, front, bars, sharedBars, asked,
              second, taken>>
pullback == <<pBars, pLast, sig, pCamp, reduced, found, entries>>
breakout == <<lBars, hist, seen, spos, pe, px, lEnabled, market, batch, lQueue, store, wal,
              exch, reports, processed, phase, faults>>
vars     == <<instance, spike, features, pullback, breakout>>

\* A price rises through the entry at 10 to a loss of 2 or falls to the origin
\* at 7; "box" alone passes the filters, "rise" and both of the others do not.
Price(close, invalid, fails) == [close |-> close, invalid |-> invalid, fails |-> fails]
Prices ==
    {Price(10, FALSE, {}), Price(7, FALSE, {"box"}), Price(12, FALSE, {"rise"}),
     Price(12, TRUE, {"box", "premature"})}
Snapshot(decay) == [known |-> TRUE, decay |-> decay, breakout |-> FALSE, down |-> FALSE]
Snapshots == {Snapshot(0), Snapshot(2)}
Off == -1

Thresholds ==
    [entry |-> 10, origin |-> 7, fee |-> 1, hardStop |-> 2, confirm |-> 1, unlock |-> 2,
     drawdown |-> 2, peak |-> Off, early |-> Off, riskStart |-> 1, medium |-> 2, strict |-> 3,
     strongStrict |-> Off, weakStrict |-> Off, strongBucket |-> 4, weakBucket |-> Off,
     flat |-> Off, grace |-> 0, graceLoss |-> 0,
     review |-> 9, minAge |-> 1, agreement |-> 2, oi |-> 4, oiLoss |-> 1]

\* The candidate policy in a live process that submits at once.
Trading == INSTANCE SpikeStrategy WITH
    Policy <- "candidate-v1", Live <- TRUE, Queued <- FALSE, Tiers <- 2, Bars <- Prices,
    Features <- Snapshots, Closes <- {7, 12}, Config <- Thresholds, BarBuffer <- 1,
    Cooldown <- 2, OrderTtl <- 2, TimeoutAfter <- 3, MaxTime <- 5, MaxSignals <- 1,
    MaxCrashes <- 1, MaxPauses <- 1

\* The candidate policy in a backtest, two tiers, peak drawdown and early risk.
Replay == INSTANCE SpikeStrategy WITH
    Policy <- "candidate-v1", Live <- FALSE, Queued <- FALSE, Tiers <- 2, Bars <- Prices,
    Features <- Snapshots, Closes <- {7, 12},
    Config <- [Thresholds EXCEPT !.hardStop = Off, !.peak = 2, !.early = 2, !.grace = 1,
                                 !.graceLoss = 1],
    BarBuffer <- 1, Cooldown <- 2, OrderTtl <- 2, TimeoutAfter <- 3, MaxTime <- 5,
    MaxSignals <- 1, MaxCrashes <- 0, MaxPauses <- 0

\* The candidate policy in a backtest whose second signal follows an exit.
Twice == INSTANCE SpikeStrategy WITH
    Policy <- "candidate-v1", Live <- FALSE, Queued <- FALSE, Tiers <- 1, Bars <- Prices,
    Features <- Snapshots, Closes <- {12}, Config <- Thresholds, BarBuffer <- 1,
    Cooldown <- 2, OrderTtl <- 2, TimeoutAfter <- 3, MaxTime <- 7, MaxSignals <- 2,
    MaxCrashes <- 0, MaxPauses <- 0

\* The D-007 policy in a backtest, which rotates into a second signal.
Rotated == INSTANCE SpikeStrategy WITH
    Policy <- "execution-test-d007", Live <- FALSE, Queued <- FALSE, Tiers <- 1,
    Bars <- Prices, Features <- {Snapshot(0)}, Closes <- {}, Config <- Thresholds,
    BarBuffer <- 1,
    Cooldown <- 2, OrderTtl <- 2, TimeoutAfter <- 3, MaxTime <- 9, MaxSignals <- 2,
    MaxCrashes <- 0, MaxPauses <- 0

\* A live process whose intents wait in the execution queue, and its restart.
Waiting == INSTANCE SpikeStrategy WITH
    Policy <- "candidate-v1", Live <- TRUE, Queued <- TRUE, Tiers <- 2, Bars <- Prices,
    Features <- Snapshots, Closes <- {7, 12}, Config <- Thresholds, BarBuffer <- 1,
    Cooldown <- 2, OrderTtl <- 3, TimeoutAfter <- 4, MaxTime <- 5, MaxSignals <- 1,
    MaxCrashes <- 1, MaxPauses <- 0

\* Klines that come late and twice, ...
Klines == INSTANCE SpikeFeatures WITH
    Values <- {1, 2}, Retained <- 2, SharedRetained <- 3, Late <- 2, Minutes <- {1, 2},
    BarBuffer <- 3, BarSeconds <- 4, HourLength <- 2, MaxMinute <- 4, MaxKlines <- 4,
    MaxSecond <- 0

\* ... and bars that miss seconds.
Seconds == INSTANCE SpikeFeatures WITH
    Values <- {1}, Retained <- 2, SharedRetained <- 3, Late <- 2, Minutes <- {1},
    BarBuffer <- 3, BarSeconds <- 4, HourLength <- 2, MaxMinute <- 1, MaxKlines <- 0,
    MaxSecond <- 12

Shape(o, h, l, c, q) == [open |-> o, high |-> h, low |-> l, close |-> c, quiet |-> q]

\* A base of 10 must rise to 14; the candidate is half way back.
V3 == INSTANCE PullbackEntry WITH
    Version <- "pullback-v3",
    Shapes <- {Shape(12, 16, 12, 14, FALSE), Shape(10, 12, 9, 9, FALSE),
               Shape(14, 14, 12, 13, TRUE)},
    Base <- 10, Prior <- 11, Floor <- 0, Invalid <- 20, RisePct <- 40, RetracePct <- 50,
    Wait <- 3, Cooldown <- 2, StopAge <- 1, TakeProfitPct <- 20, MaxHold <- 3,
    MinBreakoutAge <- 2, GateStopPct <- 10, MaxBars <- 5, MaxGap <- 1,
    bars <- pBars, last <- pLast, camp <- pCamp

V22 == INSTANCE PullbackEntry WITH
    Version <- "v2.2-pullback",
    Shapes <- {Shape(14, 15, 12, 14, FALSE), Shape(12, 16, 12, 14, FALSE),
               Shape(10, 12, 9, 9, FALSE), Shape(13, 20, 12, 12, FALSE)},
    Base <- 10, Prior <- 11, Floor <- 12, Invalid <- 20, RisePct <- 40, RetracePct <- 50,
    Wait <- 3, Cooldown <- 2, StopAge <- 1, TakeProfitPct <- 20, MaxHold <- 3,
    MinBreakoutAge <- 2, GateStopPct <- 10, MaxBars <- 5, MaxGap <- 1,
    bars <- pBars, last <- pLast, camp <- pCamp

\* A box of one bar, positions of two lots, and two faults.
Box == INSTANCE LongBreakout WITH
    Closes <- {1, 2, 3}, BoxBars <- 1, StopLoss <- 1, TakeProfit <- 1, Lots <- 2,
    PromptWorker <- TRUE, MaxBars <- 4, MaxFaults <- 2,
    bars <- lBars, enabled <- lEnabled, queue <- lQueue

ASSUME InstancesOK ==
    /\ Trading!ConstantsOK /\ Replay!ConstantsOK /\ Twice!ConstantsOK
    /\ Rotated!ConstantsOK /\ Waiting!ConstantsOK
    /\ Klines!ConstantsOK /\ Seconds!ConstantsOK /\ V3!ConstantsOK /\ V22!ConstantsOK
    /\ Box!ConstantsOK

Init ==
    /\ instance \in Instances
    /\ Trading!Init /\ Klines!Init /\ V3!Init /\ Box!Init
    /\ instance # "box" => lBars = <<1>>

Next ==
    \/ /\ \/ instance = "trading" /\ Trading!Next
          \/ instance = "replay" /\ Replay!Next
          \/ instance = "twice" /\ Twice!Next
          \/ instance = "rotated" /\ Rotated!Next
          \/ instance = "waiting" /\ Waiting!Next
       /\ UNCHANGED <<instance, features, pullback, breakout>>
    \/ /\ \/ instance = "klines" /\ Klines!Next
          \/ instance = "seconds" /\ Seconds!Next
       /\ UNCHANGED <<instance, spike, pullback, breakout>>
    \/ /\ \/ instance = "v3" /\ V3!Next
          \/ instance = "v22" /\ V22!Next
       /\ UNCHANGED <<instance, spike, features, breakout>>
    \/ /\ instance = "box" /\ Box!Next
       /\ UNCHANGED <<instance, spike, features, pullback>>

Spec == Init /\ [][Next]_vars

-----------------------------------------------------------------------------
(* Properties *)

\* A spike position has the exit rules of the Campaign that opened it, from its
\* first fill on, in every running process, and an exit that is asked for and not
\* done is on its way; an exit of candidate-v1 finds every entry of its Campaign
\* done, the halving is done once and no tier is placed twice.  Three cases are
\* excepted where they are stated: a second signal that finds the timing of the
\* first (twice, rotated), and with the execution queue (waiting) an entry that is
\* passed by the exit of its Campaign and a halving that a restart finds queued.
CampaignIsManaged ==
    /\ instance = "trading" =>
         /\ Trading!TypeOK /\ Trading!PositionIsManaged /\ Trading!RequestHasExit
         /\ Trading!ExitFollowsEntries /\ Trading!HalvedOnce /\ Trading!NoMoreThanTiers
    /\ instance = "replay" =>
         /\ Replay!TypeOK /\ Replay!PositionIsManaged /\ Replay!RequestHasExit
         /\ Replay!ExitFollowsEntries /\ Replay!HalvedOnce /\ Replay!NoMoreThanTiers
    /\ instance = "twice" =>
         /\ Twice!TypeOK /\ Twice!PositionIsManaged /\ Twice!RequestHasExit
         /\ Twice!ExitFollowsEntries /\ Twice!HalvedOnce /\ Twice!NoMoreThanTiers
    /\ instance = "rotated" =>
         /\ Rotated!TypeOK /\ Rotated!PositionIsManaged /\ Rotated!RequestHasExit
         /\ Rotated!NoMoreThanTiers
    /\ instance = "waiting" =>
         /\ Waiting!TypeOK /\ Waiting!PositionIsManaged /\ Waiting!RequestHasExit
         /\ Waiting!HalvedOnce /\ Waiting!NoMoreThanTiers

\* A strategy that takes its windows from the provider of a sweep sees what its
\* own caches give, after any late or doubled kline and any missing second.  Both
\* pullback strategies enter exactly where the rule over all bars says, and a
\* position of v3 has the spike of its signal and ends in time.
SignalsAreExact ==
    /\ instance = "klines" => /\ Klines!TypeOK /\ Klines!SharedIsOwn
                              /\ Klines!NothingExpired /\ Klines!BoxIsHeld
    /\ instance = "seconds" => Seconds!TypeOK /\ Seconds!SharedIsOwn
    /\ instance = "v3" => V3!TypeOK /\ V3!EntersWhenDue /\ V3!PositionIsBounded
    /\ instance = "v22" => V22!TypeOK /\ V22!EntersWhenDue /\ V22!PositionIsBounded

\* long_breakout holds one long position at a time and, when it is ready, knows
\* what the account holds, after crashes, lost reports and reconnects.  A recovery
\* that finds an entry still queued is left out (PromptWorker): it would lose the
\* entry's pending mark, and this run does not see what follows from that.
BreakoutIsSound ==
    instance = "box" => Box!TypeOK /\ Box!OneLong /\ Box!ViewIsTrue
=============================================================================
