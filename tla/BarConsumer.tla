---------------------------- MODULE BarConsumer ----------------------------
(***************************************************************************)
(* The one-second bar consumer of the spike process                        *)
(* (strategies/spike/main.py): Redis Pub/Sub delivers the bars of every    *)
(* symbol to a bounded queue, one strategy task takes them off, checks     *)
(* that the trade ids of a symbol are gapless, recovers a gap from the     *)
(* Redis Stream or the market API, hands the bar to the strategy, and      *)
(* opens the entry gate "bar_continuity" once every symbol has had         *)
(* StableBars contiguous bars.  The watchdog runs beside it: it notices a  *)
(* silent stream and a restarted market service.                           *)
(*                                                                         *)
(* Bar k of a symbol carries the trade with id k, so the ids are gapless   *)
(* exactly when the bar numbers are.  Two kinds of bars are exceptions: a  *)
(* bar without ids, and a bar that repeats the id before its own.  Every   *)
(* await of the code is a step boundary here.                              *)
(***************************************************************************)
EXTENDS Naturals, Sequences, FiniteSets, SequencesExt

CONSTANTS
    Symbols,        \* the managed symbols
    LastBar,        \* bound: the bars 1..LastBar of each symbol
    Calm,           \* bound: nothing goes wrong with that many last bars, 0 for no such
    Unmarked,       \* the bars published without trade ids
    Overlapping,    \* the bars whose first id is the last one of the bar before
    StableBars,     \* CONTINUITY_STABLE_BARS
    QueueMax,       \* MARKET_EVENT_QUEUE_MAXSIZE
    StreamKeep,     \* bars the Redis Stream still holds (STREAM_RECOVERY_LIMIT)
    LiveAfter,      \* bars up to this one are older than _live_after_ms
    WireBound,      \* bound: notifications on their way
    LossBudget,     \* bound: notifications Pub/Sub loses or repeats
    EpochBudget,    \* bound: restarts of the market service
    SilenceBudget,  \* bound: silences longer than BAR_STREAM_STALE_SECONDS
    TransientBudget,\* bound: recoveries that fail for now (Redis error, HTTP 503)
    RefusalBudget   \* bound: recoveries the market API refuses (HTTP 400, 409)

ConstantsOK ==
    /\ IsFiniteSet(Symbols) /\ Symbols # {}
    /\ {LastBar, StableBars, QueueMax, WireBound} \subseteq Nat \ {0}
    /\ Unmarked \cup Overlapping \subseteq [sym : Symbols, k : 1..LastBar]
    /\ {Calm, StreamKeep, LiveAfter, LossBudget, EpochBudget, SilenceBudget,
        TransientBudget, RefusalBudget} \subseteq Nat

VARIABLES
    prod,       \* [Symbols -> 0..LastBar]: bars the market service has published
    wire,       \* Pub/Sub messages _bar_loop has not read yet
    queue,      \* _market_events
    blocked,    \* _bar_loop waits in put() for room in the queue
    overflowed, \* _market_event_queue_overflowed
    pc,         \* where _strategy_event_loop stands
    cur,        \* the bar it is handling
    from,       \* the first trade id of the gap it is recovering
    last,       \* _last_bar_trade_id, 0 for none
    streak,     \* _bar_continuity_streak, counted up to StableBars
    failed,     \* _continuity_failed_symbols
    received,   \* symbols with a recent _last_bar_received_monotonic
    available,  \* symbols with a recent _last_bar_available_time
    gate,       \* CompositeEntryGate._conditions
    epoch,      \* instance_epoch of the market service
    known,      \* _market_instance_epoch
    seen,       \* the bars the strategy was given, per symbol, in order
    orders,     \* an entry order rests at the exchange
    budget      \* what is left of the bounds

pipeVars == <<prod, wire, queue, blocked, overflowed>>
handVars == <<pc, cur, from>>
markVars == <<last, streak, failed>>
freshVars == <<received, available>>
outVars == <<seen, orders>>
vars == <<pipeVars, handVars, markVars, freshVars, outVars, gate, epoch, known, budget>>

Conditions == {"bar_continuity", "bar_stream", "event_queue", "market"}
NoBar == [sym |-> CHOOSE s \in Symbols : TRUE, k |-> 0]
Bar(s, k) == [sym |-> s, k |-> k]
Bars == [sym : Symbols, k : 1..LastBar]

Init ==
    /\ prod = [s \in Symbols |-> 0]
    /\ wire = <<>> /\ queue = <<>> /\ blocked = FALSE /\ overflowed = FALSE
    /\ pc = "idle" /\ cur = NoBar /\ from = 0
    /\ last = [s \in Symbols |-> 0]
    /\ streak = [s \in Symbols |-> 0]
    /\ failed = {}
    /\ received = {} /\ available = {}
    /\ gate = [c \in Conditions |-> c = "event_queue"]
    /\ epoch = 0 /\ known = 0
    /\ seen = [s \in Symbols |-> <<>>]
    /\ orders = FALSE
    /\ budget = [loss |-> LossBudget, epoch |-> EpochBudget, silence |-> SilenceBudget,
                 transient |-> TransientBudget, refusal |-> RefusalBudget]

-----------------------------------------------------------------------------
(* CompositeEntryGate: entries are admitted while every condition is true. *)
Set(g, c, b) == [g EXCEPT ![c] = b]
EntryEnabled == \A c \in Conditions : gate[c]

(* _refresh_bar_stream_gate: every symbol's bars arrive and are handled in *)
(* time, and no overflow is pending.                                       *)
StreamReady(recv, avail, over) == recv = Symbols /\ avail = Symbols /\ ~over

(* _refresh_bar_continuity_gate *)
ContinuityReady(str) == \A s \in Symbols : str[s] >= StableBars
FailedAfter(ready, bad) == IF ready THEN bad \ Symbols ELSE bad

Spend(b) == budget[b] > 0 /\ budget' = [budget EXCEPT ![b] = @ - 1]

(* The feed is bounded: where it is to end well, what goes wrong does so   *)
(* before the last Calm bars, which are published to a process that knows  *)
(* the market instance.                                                    *)
FeedGoesOn(s) == Calm = 0 \/ prod[s] < LastBar - Calm

-----------------------------------------------------------------------------
(* External: the market service appends the bar to the Redis Stream and    *)
(* publishes it.  A subscriber that reconnects loses the notification, a   *)
(* retried publication repeats it.                                         *)
Publish(s) ==
    /\ Len(wire) < WireBound
    /\ prod[s] < LastBar /\ (FeedGoesOn(s) \/ known = epoch)
    /\ prod' = [prod EXCEPT ![s] = @ + 1]
    /\ \/ wire' = Append(wire, Bar(s, prod'[s])) /\ UNCHANGED budget
       \/ FeedGoesOn(s) /\ Spend("loss") /\ UNCHANGED wire
       \/ Spend("loss") /\ wire' = wire \o <<Bar(s, prod'[s]), Bar(s, prod'[s])>>
    /\ UNCHANGED <<queue, blocked, overflowed, handVars, markVars, freshVars,
                   outVars, gate, epoch, known>>

(* _bar_loop and _enqueue_market_event: the normal path never waits. *)
Enqueue ==
    /\ pc # "fatal" /\ ~blocked /\ wire # <<>> /\ Len(queue) < QueueMax
    /\ received' = received \cup {Head(wire).sym}
    /\ queue' = Append(queue, Head(wire))
    /\ wire' = Tail(wire)
    /\ UNCHANGED <<prod, blocked, overflowed, handVars, markVars, available,
                   outVars, gate, epoch, known, budget>>

(* A full queue closes the entries and holds the bar back (close_entry_    *)
(* pipeline drops what is not submitted yet).                              *)
Overflow ==
    /\ pc # "fatal" /\ ~blocked /\ wire # <<>> /\ Len(queue) = QueueMax
    /\ received' = received \cup {Head(wire).sym}
    /\ blocked' = TRUE
    /\ overflowed' = TRUE
    /\ gate' = IF overflowed THEN gate ELSE Set(gate, "event_queue", FALSE)
    /\ UNCHANGED <<prod, wire, queue, handVars, markVars, available, outVars,
                   epoch, known, budget>>

PutBlocked ==
    /\ pc # "fatal" /\ blocked /\ Len(queue) < QueueMax
    /\ queue' = Append(queue, Head(wire))
    /\ wire' = Tail(wire)
    /\ blocked' = FALSE
    /\ UNCHANGED <<prod, overflowed, handVars, markVars, freshVars, outVars,
                   gate, epoch, known, budget>>

-----------------------------------------------------------------------------
(* _fail_bar_continuity: close the gate; the first failure of a symbol     *)
(* cancels the resting entry orders.                                       *)
FailContinuity(s, g) ==
    /\ gate' = Set(g, "bar_continuity", FALSE)
    /\ failed' = failed \cup {s}
    /\ orders' = (orders /\ s \in failed)

(* first_aggregate_trade_id; last_aggregate_trade_id is b.k. *)
First(b) == IF b \in Overlapping THEN b.k - 1 ELSE b.k

(* How the trade ids of a bar continue the watermark of its symbol. *)
Kind_without_gap_check(b) ==
    IF b \in Unmarked THEN "invalid"
    ELSE IF last[b.sym] = 0 THEN "first"
    ELSE IF b.k <= last[b.sym] THEN "repeated" ELSE "next"

Kind(b) ==
    IF b \in Unmarked THEN "invalid"
    ELSE IF last[b.sym] = 0 THEN "first"
    ELSE IF b.k <= last[b.sym] THEN "repeated"
    ELSE IF First(b) > last[b.sym] + 1 THEN "gap"
    ELSE IF First(b) <= last[b.sym] THEN "overlap" ELSE "next"

(* _handle_live_bar up to its first await. *)
TakeBar ==
    /\ pc = "idle" /\ queue # <<>>
    /\ queue' = Tail(queue)
    /\ LET b == Head(queue)
           s == b.sym
           g == Set(gate, "bar_stream", StreamReady(received, available \cup {s}, overflowed))
       IN IF b.k <= LiveAfter
          THEN /\ seen' = [seen EXCEPT ![s] = Append(@, b.k)]
               /\ UNCHANGED <<handVars, markVars, available, orders, gate>>
          ELSE /\ available' = available \cup {s}
               /\ seen' = seen
               /\ \/ /\ Kind(b) = "repeated"
                     /\ gate' = g
                     /\ UNCHANGED <<handVars, markVars, orders>>
                  \/ /\ Kind(b) \in {"invalid", "first", "overlap"}
                     /\ FailContinuity(s, g)
                     /\ pc' = IF Kind(b) = "overlap" THEN "late" ELSE Kind(b)
                     /\ cur' = b /\ from' = 0
                     /\ UNCHANGED <<last, streak>>
                  \/ /\ Kind(b) = "gap"
                     /\ FailContinuity(s, g)
                     /\ pc' = "gap" /\ cur' = b /\ from' = last[s] + 1
                     /\ UNCHANGED <<last, streak>>
                  \/ /\ Kind(b) = "next"
                     /\ gate' = g
                     /\ last' = [last EXCEPT ![s] = b.k]
                     /\ streak' = [streak EXCEPT ![s] = IF @ < StableBars THEN @ + 1 ELSE @]
                     /\ pc' = "deliver" /\ cur' = b /\ from' = 0
                     /\ UNCHANGED <<failed, orders>>
    /\ UNCHANGED <<prod, wire, blocked, overflowed, received, epoch, known, budget>>

(* A bar without ids is delivered and leaves the watermark where it was. *)
InvalidBar ==
    /\ pc = "invalid"
    /\ streak' = [streak EXCEPT ![cur.sym] = 0]
    /\ pc' = "late"
    /\ UNCHANGED <<pipeVars, cur, from, last, failed, freshVars, outVars, gate, epoch,
                   known, budget>>

(* The initial watermark, after the cancellation of the entries. *)
FirstBar ==
    /\ pc = "first"
    /\ last' = [last EXCEPT ![cur.sym] = cur.k]
    /\ streak' = [streak EXCEPT ![cur.sym] = 1]
    /\ pc' = "deliver"
    /\ UNCHANGED <<pipeVars, cur, from, failed, freshVars, outVars, gate, epoch,
                   known, budget>>

(* _recover_bar_gap and _closed_bar_range: the bars of the gap, from the   *)
(* Redis Stream when it still holds them all and their ids close the gap,  *)
(* else from the market API, which builds them from the trades.            *)
Gap == [i \in 1..(First(cur) - from) |-> from + i - 1]
StreamCloses ==
    /\ from + StreamKeep > prod[cur.sym]
    /\ \A k \in ToSet(Gap) : Bar(cur.sym, k) \notin Unmarked \cup Overlapping

Recovered ==
    /\ pc = "gap"
    /\ seen' = [seen EXCEPT ![cur.sym] = @ \o Gap]   \* replayed with trading disabled
    /\ failed' = failed \ {cur.sym}
    /\ last' = [last EXCEPT ![cur.sym] = cur.k]
    /\ streak' = [streak EXCEPT ![cur.sym] = 1]
    /\ pc' = "deliver" /\ from' = 0
    /\ UNCHANGED <<pipeVars, cur, freshVars, orders, gate, epoch, known, budget>>

(* A Redis error, or a market API that answers neither 400 nor 409: the    *)
(* live bar is delivered, the watermark stays where it was.                *)
RecoveryFails ==
    /\ pc = "gap" /\ FeedGoesOn(cur.sym)
    /\ Spend("transient")
    /\ pc' = "late" /\ from' = 0
    /\ UNCHANGED <<pipeVars, cur, markVars, freshVars, outVars, gate, epoch, known>>

(* 400 or 409 when the Stream does not hold the gap: the process stops. *)
RecoveryRefused ==
    /\ pc = "gap"
    /\ ~StreamCloses
    /\ Spend("refusal")
    /\ pc' = "fatal" /\ from' = 0 /\ cur' = NoBar
    /\ UNCHANGED <<pipeVars, markVars, freshVars, outVars, gate, epoch, known>>

(* _deliver_bar1s: the strategy sees the bar and, when the gate is open,   *)
(* may rest an entry order.                                                *)
Deliver ==
    /\ pc \in {"deliver", "late"}
    /\ seen' = [seen EXCEPT ![cur.sym] = Append(@, cur.k)]
    /\ orders' \in IF EntryEnabled THEN {TRUE} ELSE {orders}
    /\ pc' = IF pc = "late" THEN "idle" ELSE "refresh"
    /\ cur' = NoBar
    /\ UNCHANGED <<pipeVars, from, markVars, freshVars, gate, epoch, known, budget>>

(* _refresh_bar_continuity_gate, the end of _handle_live_bar. *)
RefreshContinuity ==
    /\ pc = "refresh"
    /\ gate' = Set(gate, "bar_continuity", ContinuityReady(streak))
    /\ failed' = FailedAfter(ContinuityReady(streak), failed)
    /\ pc' = "idle"
    /\ UNCHANGED <<pipeVars, cur, from, last, streak, freshVars, outVars, epoch,
                   known, budget>>

OverflowEnds_checks_first ==
    /\ pc = "idle" /\ overflowed /\ queue = <<>>
    /\ LET ready == ContinuityReady(streak)
           fresh == StreamReady(received, available, overflowed)
           g == Set(gate, "bar_continuity", ready)
       IN /\ overflowed' = ~(ready /\ fresh)
          /\ gate' = IF ~ready THEN g
                     ELSE [g EXCEPT !["bar_stream"] = fresh,
                                    !["event_queue"] = IF fresh THEN TRUE ELSE @]
          /\ failed' = FailedAfter(ready, failed)
    /\ UNCHANGED <<prod, wire, queue, blocked, handVars, last, streak, freshVars,
                   outVars, epoch, known, budget>>

(* The end of a round of _strategy_event_loop: an overflow is over once    *)
(* everything is handled and every other bar condition holds.              *)
OverflowEnds ==
    /\ pc = "idle" /\ overflowed /\ queue = <<>>
    /\ LET ready == ContinuityReady(streak)
           fresh == StreamReady(received, available, FALSE)
           g == Set(gate, "bar_continuity", ready)
       IN /\ overflowed' = ~(ready /\ fresh)
          /\ gate' = IF ~ready THEN g
                     ELSE [g EXCEPT !["bar_stream"] = fresh,
                                    !["event_queue"] = IF fresh THEN TRUE ELSE @]
          /\ failed' = FailedAfter(ready, failed)
    /\ UNCHANGED <<prod, wire, queue, blocked, handVars, last, streak, freshVars,
                   outVars, epoch, known, budget>>

-----------------------------------------------------------------------------
(* No bar of a symbol for longer than BAR_STREAM_STALE_SECONDS. *)
Silence(s) ==
    /\ pc # "fatal" /\ s \in available /\ FeedGoesOn(s)
    /\ Spend("silence")
    /\ received' = received \ {s}
    /\ available' = available \ {s}
    /\ UNCHANGED <<pipeVars, handVars, markVars, outVars, gate, epoch, known>>

(* External: the market service restarts. *)
MarketRestarts ==
    /\ \A s \in Symbols : FeedGoesOn(s)
    /\ Spend("epoch")
    /\ epoch' = epoch + 1
    /\ UNCHANGED <<pipeVars, handVars, markVars, freshVars, outVars, gate, known>>

(* _handle_market_epoch_change *)
EpochReset ==
    /\ last' = [s \in Symbols |-> 0]
    /\ streak' = [s \in Symbols |-> 0]
    /\ received' = {}
    /\ failed' = Symbols
    /\ orders' = FALSE

(* _refresh_market_safety_once (_refresh_market_gate, _refresh_bar_stream_ *)
(* gate): a new epoch resets the watermarks and registers the              *)
(* subscriptions again, which may fail and is then tried again; a          *)
(* condition that does not hold cancels the entries.                       *)
Watchdog ==
    /\ pc # "fatal"
    /\ \E ready \in BOOLEAN :
         LET changed == epoch # known
             stream == StreamReady(IF changed THEN {} ELSE received, available, overflowed)
             g == IF changed THEN Set(gate, "bar_continuity", FALSE) ELSE gate
         IN /\ IF ready THEN UNCHANGED budget ELSE Spend("transient")
            /\ gate' = [g EXCEPT !["market"] = ready, !["bar_stream"] = stream]
            /\ known' = IF ready THEN epoch ELSE known
            /\ IF changed THEN EpochReset
               ELSE /\ UNCHANGED <<markVars, received>>
                    /\ orders' = (orders /\ ready /\ stream)
    /\ UNCHANGED <<pipeVars, handVars, available, seen, epoch>>

Next ==
    \/ \E s \in Symbols : Publish(s) \/ Silence(s)
    \/ Enqueue \/ Overflow \/ PutBlocked
    \/ TakeBar \/ InvalidBar \/ FirstBar \/ Recovered \/ RecoveryFails \/ RecoveryRefused
    \/ Deliver \/ RefreshContinuity \/ OverflowEnds
    \/ MarketRestarts \/ Watchdog

Spec == Init /\ [][Next]_vars

EventLoopStep ==
    \/ TakeBar \/ InvalidBar \/ FirstBar \/ Recovered \/ Deliver \/ RefreshContinuity
    \/ OverflowEnds
BarLoopStep == Enqueue \/ Overflow \/ PutBlocked

(* Each task of the event loop runs on; the market service goes on         *)
(* publishing.                                                             *)
Fairness ==
    /\ WF_vars(EventLoopStep)
    /\ WF_vars(BarLoopStep)
    /\ WF_vars(Watchdog)
    /\ \A s \in Symbols : WF_vars(Publish(s))

-----------------------------------------------------------------------------
(* Type invariant. *)
TypeOK ==
    /\ prod \in [Symbols -> 0..LastBar]
    /\ wire \in Seq(Bars) /\ queue \in Seq(Bars) /\ Len(queue) <= QueueMax
    /\ {blocked, overflowed, orders} \subseteq BOOLEAN
    /\ blocked => wire # <<>>
    /\ pc \in {"idle", "invalid", "first", "gap", "deliver", "late", "refresh", "fatal"}
    /\ cur \in Bars \cup {NoBar} /\ from \in 0..LastBar
    /\ last \in [Symbols -> 0..LastBar] /\ streak \in [Symbols -> 0..StableBars]
    /\ failed \subseteq Symbols /\ received \subseteq Symbols /\ available \subseteq Symbols
    /\ gate \in [Conditions -> BOOLEAN]
    /\ epoch \in 0..EpochBudget /\ known \in 0..epoch
    /\ seen \in [Symbols -> Seq(1..LastBar)]

Newest(n, q) == SubSeq(q, Len(q) - n + 1, Len(q))
Consecutive(s, q) == \A i \in 1..(Len(q) - 1) : q[i] + 1 \in {q[i + 1], First(Bar(s, q[i + 1]))}

(* A bar was delivered past the watermark. *)
Behind(s) == last[s] < Last(seen[s])

(* The gate "bar_continuity" is open only while the last StableBars bars   *)
(* the strategy was given of every symbol follow each other without a gap  *)
(* (_refresh_bar_continuity_gate), with one exception: a recovery that     *)
(* fails for now leaves the streak of its symbol as it was, and a bar of   *)
(* another symbol, or the end of an overflow, opens the gate over the gap. *)
(* Then, and only then, the symbol's watermark is behind what the strategy *)
(* was given, and its next bar finds the gap again.                        *)
OpenMeansContinuous ==
    gate["bar_continuity"] =>
        \A s \in Symbols : /\ Len(seen[s]) >= StableBars
                           /\ Behind(s) \/ Consecutive(s, Newest(StableBars, seen[s]))

(* While the continuity gate is closed no entry order rests: whatever      *)
(* closed it (a gap, a first watermark, a new market instance) also        *)
(* cancelled the entries.                                                  *)
ClosedMeansNoEntries ==
    ~gate["bar_continuity"] => ~orders

(* The strategy is given no bar twice, and the bars of a symbol in order   *)
(* (_handle_live_bar skips what the watermark covers).                     *)
NoBarTwice ==
    \A s \in Symbols : \A i \in 1..(Len(seen[s]) - 1) : seen[s][i] < seen[s][i + 1]

(* Backpressure loses nothing ("满载时关闭入场并背压，保证事件不丢",               *)
(* _enqueue_market_event): a published bar is with the strategy, being     *)
(* handled, in the queue or on the wire, unless Pub/Sub lost it.           *)
Waiting(s) == {b.k : b \in {x \in ToSet(wire) \cup ToSet(queue) \cup {cur} : x.sym = s}}
Missing == {b \in Bars : /\ b.k <= prod[b.sym]
                         /\ b.k \notin ToSet(seen[b.sym]) \cup Waiting(b.sym)}
OnlyPubSubLoses ==
    pc # "fatal" => Cardinality(Missing) <= LossBudget - budget.loss

(* Once Pub/Sub loses nothing any more the entries are admitted again, or  *)
(* the process has stopped for a restart.                                  *)
EventuallyOpen == <>[](pc = "fatal" \/ EntryEnabled)
=============================================================================
