----------------------------- MODULE MarketFeed -----------------------------
(***************************************************************************)
(* The market layer for one aggTrade stream: the Binance connection, the   *)
(* per-stream receive queue and its worker, the continuity loop, backfill  *)
(* over REST, the one-second bar aggregator, and the atomic publication    *)
(* of finished bars with their watermark in Redis.                         *)
(*                                                                         *)
(* Two tasks of one event loop work on the stream: "worker" handles the    *)
(* queued messages and "loop" is the continuity pass.  Both may run the    *)
(* recovery, which a per-stream lock serialises; both publish pending      *)
(* bars, which no lock protects.  An action is what a task does between    *)
(* two awaits.                                                             *)
(***************************************************************************)
EXTENDS Integers, Sequences, FiniteSets, SequencesExt, FiniteSetsExt

CONSTANTS
    SecondOf,     \* the second of each trade: a non-decreasing sequence
    PageSize,     \* rows in one REST page
    MaxPages,     \* pages one recovery may read
    QueueSize,    \* capacity of the receive queue
    PromptReplies, \* Redis answers before the other task's next row or page
    MaxFaults,    \* failing or unanswered REST and Redis calls
    MaxDrops,     \* connections lost
    MaxRefreshes  \* subscription changes and process restarts

ConstantsOK ==
    /\ SecondOf \in Seq(Nat) /\ SecondOf # <<>>
    /\ \A i \in 1..Len(SecondOf) - 1 : SecondOf[i] <= SecondOf[i + 1]
    /\ {PageSize, MaxPages, QueueSize} \subseteq Nat \ {0}
    /\ PromptReplies \in BOOLEAN
    /\ {MaxFaults, MaxDrops, MaxRefreshes} \subseteq Nat

VARIABLES
    head,       \* trades the exchange has executed
    link,       \* the connection: state, generation, next trade it will send
    queue,      \* the receive queue of the stream
    overflow,   \* the last message that found the queue full, 0 for none
    quality,    \* continuity status and last accepted trade
    agg,        \* the aggregator: trades in open windows, last closed second
    pending,    \* finished bars not yet known to be published
    replay,     \* trades up to this one were already replayed, 0 for none
    recovered,  \* generation the stream was last recovered for, 0 for none
    retry,      \* the pause after a failed recovery is still running
    task,       \* program counter and locals of the two tasks
    redis,      \* the bar stream and the persisted watermark
    faults, drops, refreshes

vars == <<head, link, queue, overflow, quality, agg, pending, replay, recovered,
          retry, task, redis, faults, drops, refreshes>>

Trades == 1..Len(SecondOf)
Tasks == {"worker", "loop"}

\* The second a bar (the set of its trades) belongs to.
Second(bar) == SecondOf[Max(bar)]

Idle == [pc |-> "idle", then |-> "idle", msg |-> 0, gen |-> 0, cursor |-> 0,
         target |-> -1, pages |-> 0, rows |-> <<>>, full |-> FALSE, bar |-> {}]

NoQuality == [status |-> "none", last |-> 0]
NoWindows == [open |-> {}, finalized |-> -1]

Init ==
    /\ head = 0
    /\ link = [state |-> "off", gen |-> 0, next |-> 0]
    /\ queue = <<>> /\ overflow = 0
    /\ quality = NoQuality
    /\ agg = NoWindows
    /\ pending = <<>>
    /\ replay = 0 /\ recovered = 0 /\ retry = FALSE
    /\ task = [t \in Tasks |-> Idle]
    /\ redis = [bars |-> <<>>, mark |-> 0]
    /\ faults = 0 /\ drops = 0 /\ refreshes = 0

-----------------------------------------------------------------------------
(* Trades, quality and windows: pure functions of the stream's state.      *)

\* MarketDataQualityTracker.observe_aggtrade: an accepted trade extends the
\* sequence by one; a repeated one is ignored; anything else degrades.
Observe(q, id) ==
    IF q.status = "none" THEN [ok |-> TRUE, q |-> q]
    ELSE IF q.status = "degraded" THEN [ok |-> FALSE, q |-> q]
    ELSE IF id = q.last THEN [ok |-> FALSE, q |-> q]
    ELSE IF q.last # 0 /\ id # q.last + 1
      THEN [ok |-> FALSE, q |-> [q EXCEPT !.status = "degraded"]]
    ELSE [ok |-> TRUE, q |-> [status |-> "healthy", last |-> id]]

\* TradeWindow: the bar of a second is what its trades add up to; prices,
\* volumes and order flow are abstracted to the set of trades.
Window(open, second) == {i \in open : SecondOf[i] = second}

\* Mutant: the window of the trade itself is closed too.
AddTrade_current(a, id) ==
    LET s == SecondOf[id]
        open == a.open \cup {id}
    IN IF s <= a.finalized THEN [agg |-> a, bars |-> <<>>]
       ELSE [agg |-> [a EXCEPT !.open = {}], bars |-> <<open>>]

\* Bar1sAggregator.add_trade: a trade of a finished second is dropped;
\* otherwise it joins its window and every earlier window is closed.
AddTrade(a, id) ==
    LET s == SecondOf[id]
        open == a.open \cup {id}
        closed == {SecondOf[i] : i \in open} \cap (0..s - 1)
    IN IF s <= a.finalized THEN [agg |-> a, bars |-> <<>>]
       ELSE [agg |-> [open |-> {i \in open : SecondOf[i] \notin closed},
                      finalized |-> Max(closed \cup {a.finalized})],
             bars |-> [k \in 1..Cardinality(closed) |->
                         Window(open, SetToSortSeq(closed, <)[k])]]

\* MarketLayerService._handle_aggtrade after its first flush.
Ingest(id) ==
    LET o == Observe(quality, id)
        r == AddTrade(agg, id)
    IN /\ quality' = o.q
       /\ agg' = IF o.ok THEN r.agg ELSE agg
       /\ pending' = IF o.ok THEN pending \o r.bars ELSE pending

\* The Lua script _APPEND: bars are appended once, in order of their second,
\* together with the watermark.
Stale(bar) == redis.bars # <<>> /\ Second(bar) <= Second(Last(redis.bars))
Conflict(bar) == Stale(bar) /\ Second(bar) = Second(Last(redis.bars))
                            /\ bar # Last(redis.bars)
Append_event(bar) ==
    redis' = IF Stale(bar) THEN redis
             ELSE [bars |-> Append(redis.bars, bar), mark |-> Max(bar)]

-----------------------------------------------------------------------------
(* The tasks.                                                              *)

\* _flush_pending_bars: publish the first pending bar, or go on with k.
Flush(r, p, k) ==
    IF p = <<>> THEN [r EXCEPT !.pc = k]
    ELSE [r EXCEPT !.pc = "publish", !.then = k, !.bar = p[1]]

\* The recovery lock of the stream is held by t.
Recovering(t) ==
    \/ task[t].pc \in {"page", "row"}
    \/ task[t].pc \in {"publish", "ack"} /\ task[t].then \in {"page", "row"}

\* With prompt replies the other task's call to Redis is answered first.
Answered(t) == PromptReplies => \A u \in Tasks \ {t} : task[u].pc \notin {"publish", "ack"}

\* Where a task goes when its recovery is over.
AfterRecovery(t) == IF t = "worker" THEN [Idle EXCEPT !.pc = "message", !.msg = task[t].msg]
                    ELSE Idle

Replayed(q) == IF q.last # 0 THEN q.last ELSE replay

\* _recover_stream: the backfill returned.
RecoverOk(t) ==
    /\ recovered' = task[t].gen
    /\ retry' = FALSE
    /\ quality' = IF quality.status = "none" THEN quality
                  ELSE [quality EXCEPT !.status = "awaiting_data"]
    /\ replay' = Replayed(quality)
    /\ task' = [task EXCEPT ![t] = AfterRecovery(t)]
    /\ UNCHANGED <<agg, pending>>

\* _recover_stream: the backfill raised or timed out.
RecoverFailed(t) ==
    /\ recovered' = 0
    /\ retry' = TRUE
    /\ quality' = IF quality.status = "none" THEN quality
                  ELSE [quality EXCEPT !.status = "degraded"]
    /\ replay' = Replayed(quality)
    /\ task' = [task EXCEPT ![t] = AfterRecovery(t)]
    /\ UNCHANGED <<agg, pending>>

\* _handle_ws_message: the handler raised.
MessageFailed(t) ==
    /\ quality' = IF quality.status = "none" THEN quality
                  ELSE [quality EXCEPT !.status = "degraded"]
    /\ task' = [task EXCEPT ![t] = Idle]
    /\ UNCHANGED <<agg, pending, replay, recovered, retry>>

Raise(t) == IF Recovering(t) THEN RecoverFailed(t) ELSE MessageFailed(t)

\* consume: take the next message; one that overflowed since then becomes
\* the target of a forced recovery.
Take ==
    /\ task["worker"].pc = "idle" /\ queue # <<>>
    /\ queue' = Tail(queue)
    /\ overflow' = 0
    /\ recovered' = IF overflow # 0 THEN 0 ELSE recovered
    /\ task' = [task EXCEPT !["worker"] =
                  [Idle EXCEPT !.pc = "lock", !.msg = Head(queue), !.gen = link.gen,
                               !.target = (IF overflow # 0 THEN overflow ELSE Head(queue)) - 1]]
    /\ UNCHANGED <<head, link, quality, agg, pending, replay, retry, redis,
                   faults, drops, refreshes>>

\* _continuity_loop: one pass over the streams of the running socket task.
Pass ==
    /\ task["loop"].pc = "idle" /\ link.state # "off"
    /\ recovered # link.gen \/ quality.status = "degraded"
    /\ ~retry
    /\ task' = [task EXCEPT !["loop"] = [Idle EXCEPT !.pc = "lock", !.gen = link.gen]]
    /\ UNCHANGED <<head, link, queue, overflow, quality, agg, pending, replay,
                   recovered, retry, redis, faults, drops, refreshes>>

\* _recover_stream up to the first await of the backfill.
Enter(t) ==
    /\ task[t].pc = "lock" /\ \A u \in Tasks : ~Recovering(u)
    /\ IF (recovered = task[t].gen /\ quality.status # "degraded") \/ retry
         THEN /\ task' = [task EXCEPT ![t] = AfterRecovery(t)]
              /\ UNCHANGED quality
         ELSE /\ quality' = IF quality.status = "none" THEN quality
                            ELSE [quality EXCEPT !.status = "awaiting_data"]
              /\ task' = [task EXCEPT ![t] =
                            Flush([@ EXCEPT !.cursor = IF quality.last = 0 THEN 0
                                                       ELSE quality.last + 1],
                                  pending, "page")]
    /\ UNCHANGED <<head, link, queue, overflow, agg, pending, replay, recovered,
                   retry, redis, faults, drops, refreshes>>

Keep == UNCHANGED <<head, link, queue, overflow, drops, refreshes>>

\* _backfill_stream: ask REST for the next page, up to the target if the
\* recovery has one.
Page(t) ==
    LET r == task[t]
        page == [i \in 1..Min({PageSize, head - r.cursor + 1}) |-> r.cursor + i - 1]
        rows == SelectSeq(page, LAMBDA id : r.target = -1 \/ id <= r.target)
    IN /\ r.pc = "page" /\ Answered(t)
       /\ IF r.cursor = 0 \/ (r.target # -1 /\ r.cursor > r.target) THEN RecoverOk(t)
          ELSE IF r.pages = MaxPages \/ (rows = <<>> /\ r.target # -1) THEN RecoverFailed(t)
          ELSE IF rows = <<>> THEN RecoverOk(t)
          ELSE /\ task' = [task EXCEPT ![t] =
                             [r EXCEPT !.pc = "row", !.rows = rows, !.pages = @ + 1,
                                       !.cursor = Last(rows) + 1,
                                       !.full = Len(page) = PageSize]]
               /\ UNCHANGED <<quality, agg, pending, replay, recovered, retry>>
       /\ Keep /\ UNCHANGED <<redis, faults>>

\* _backfill_stream: hand one row to _handle_aggtrade, or end the page.
Row(t) ==
    LET r == task[t]
    IN /\ r.pc = "row" /\ Answered(t)
       /\ IF r.rows = <<>>
            THEN IF r.target # -1 /\ r.cursor > r.target THEN RecoverOk(t)
                 ELSE IF ~r.full THEN IF r.target # -1 THEN RecoverFailed(t) ELSE RecoverOk(t)
                 ELSE /\ task' = [task EXCEPT ![t].pc = "page"]
                      /\ UNCHANGED <<quality, agg, pending, replay, recovered, retry>>
          ELSE IF pending # <<>>
            THEN /\ task' = [task EXCEPT ![t] = Flush(r, pending, "row")]
                 /\ UNCHANGED <<quality, agg, pending, replay, recovered, retry>>
          ELSE /\ Ingest(Head(r.rows))
               /\ task' = [task EXCEPT ![t] =
                             Flush([r EXCEPT !.rows = Tail(@)], pending', "row")]
               /\ UNCHANGED <<replay, recovered, retry>>
       /\ Keep /\ UNCHANGED <<redis, faults>>

\* _handle_ws_message: skipped while degraded and when the recovery already
\* replayed the trade.
Message ==
    LET r == task["worker"]
    IN /\ r.pc = "message" /\ Answered("worker")
       /\ IF quality.status = "degraded" \/ (replay # 0 /\ r.msg <= replay)
            THEN /\ task' = [task EXCEPT !["worker"] = Idle]
                 /\ UNCHANGED <<quality, agg, pending, replay>>
          ELSE IF pending # <<>>
            THEN /\ task' = [task EXCEPT !["worker"] = Flush(r, pending, "message")]
                 /\ replay' = 0
                 /\ UNCHANGED <<quality, agg, pending>>
          ELSE /\ Ingest(r.msg)
               /\ replay' = 0
               /\ task' = [task EXCEPT !["worker"] = Flush(Idle, pending', "idle")]
       /\ Keep /\ UNCHANGED <<recovered, retry, redis, faults>>

\* publish_bar1s at the server: the script runs, or refuses a bar that
\* contradicts the one it holds for the same second.
Publish(t) ==
    /\ task[t].pc = "publish"
    /\ IF Conflict(task[t].bar)
         THEN Raise(t) /\ UNCHANGED redis
         ELSE /\ Append_event(task[t].bar)
              /\ task' = [task EXCEPT ![t].pc = "ack"]
              /\ UNCHANGED <<quality, agg, pending, replay, recovered, retry>>
    /\ Keep /\ UNCHANGED faults

\* _flush_pending_bars: the call returned, the bar leaves the deque (an empty
\* deque raises IndexError) and the next one is published.
Ack(t) ==
    /\ task[t].pc = "ack"
    /\ IF pending = <<>> THEN Raise(t)
       ELSE /\ pending' = Tail(pending)
            /\ task' = [task EXCEPT ![t] =
                          LET r == Flush(@, Tail(pending), @.then)
                          IN IF r.pc = "idle" THEN Idle
                             ELSE IF r.pc = "publish" THEN r
                             ELSE [r EXCEPT !.then = "idle", !.bar = {}]]
            /\ UNCHANGED <<quality, agg, replay, recovered, retry>>
    /\ Keep /\ UNCHANGED <<redis, faults>>

\* A REST or Redis call fails or times out; the server may have run it.
CallFails(t) ==
    /\ faults < MaxFaults /\ faults' = faults + 1
    /\ task[t].pc \in {"page", "publish", "ack"}
    /\ Raise(t)
    /\ Keep /\ UNCHANGED redis

\* The five seconds before the next recovery attempt are over.
RetryDue ==
    /\ retry /\ retry' = FALSE
    /\ PromptReplies => \A t \in Tasks : task[t].pc \notin {"publish", "ack"}
    /\ UNCHANGED <<head, link, queue, overflow, quality, agg, pending, replay,
                   recovered, task, redis, faults, drops, refreshes>>

Step(t) == Enter(t) \/ Page(t) \/ Row(t) \/ Publish(t) \/ Ack(t)

-----------------------------------------------------------------------------
(* The exchange, the connection and the subscriptions.                     *)

\* A trade.  The real feed goes on: the last trade of the model stands for one
\* that comes at a quiet moment.
Quiet == link.state = "up" /\ link.next = head + 1 /\ queue = <<>>
         /\ task["worker"].pc = "idle"
Trade ==
    /\ head + 1 < Len(SecondOf) \/ Quiet
    /\ head < Len(SecondOf) /\ head' = head + 1
    /\ UNCHANGED <<link, queue, overflow, quality, agg, pending, replay, recovered,
                   retry, task, redis, faults, drops, refreshes>>

\* _ws_message_loop: the next message goes to the stream's queue; a full
\* queue loses it and marks the stream failed.
Receive ==
    /\ link.state = "up" /\ link.next <= head
    /\ link' = [link EXCEPT !.next = @ + 1]
    /\ IF Len(queue) < QueueSize
         THEN queue' = Append(queue, link.next) /\ UNCHANGED <<overflow, quality>>
         ELSE /\ overflow' = link.next
              /\ quality' = [quality EXCEPT !.status = "degraded"]
              /\ UNCHANGED queue
    /\ UNCHANGED <<head, agg, pending, replay, recovered, retry, task, redis,
                   faults, drops, refreshes>>

\* The connection is lost with whatever was on its way.
Drop ==
    /\ drops < MaxDrops /\ drops' = drops + 1
    /\ link.state = "up" /\ head < Len(SecondOf)
    /\ link' = [link EXCEPT !.state = "down"]
    /\ UNCHANGED <<head, queue, overflow, quality, agg, pending, replay, recovered,
                   retry, task, redis, faults, refreshes>>

Connected == [state |-> "up", gen |-> link.gen + 1, next |-> head + 1]

\* BinanceWebSocketClient._reconnect.
Reconnect ==
    /\ link.state = "down"
    /\ link' = Connected
    /\ UNCHANGED <<head, queue, overflow, quality, agg, pending, replay, recovered,
                   retry, task, redis, faults, drops, refreshes>>

\* _restore_persisted_watermarks: only a stream without a live watermark takes
\* the persisted one.
Restored(q) == IF q.last = 0 THEN [q EXCEPT !.last = redis.mark] ELSE q

\* MarketDataQualityTracker.set_expected_streams and begin_connection.
Expected(q) == IF q.status = "none" THEN [status |-> "awaiting_data", last |-> 0] ELSE q
Began(q) == IF q.status = "degraded" THEN q ELSE [q EXCEPT !.status = "awaiting_data"]

\* refresh_ws_streams with the stream wanted: the running socket task and its
\* worker are cancelled, the socket is opened anew, live state is kept.
Subscribe ==
    /\ task["loop"].pc = "idle"
    /\ \/ link.state = "off" /\ UNCHANGED refreshes
       \/ link.state # "off" /\ refreshes < MaxRefreshes /\ refreshes' = refreshes + 1
    /\ link' = Connected
    /\ queue' = <<>> /\ overflow' = 0
    /\ task' = [task EXCEPT !["worker"] = Idle]
    /\ quality' = Began(Restored(Expected(quality)))
    /\ replay' = IF Recovering("worker") THEN Replayed(quality) ELSE replay
    /\ UNCHANGED <<head, agg, pending, recovered, retry, redis, faults, drops>>

\* refresh_ws_streams with the stream no longer wanted: its windows, pending
\* bars and continuity state are dropped.
Unsubscribe ==
    /\ task["loop"].pc = "idle" /\ link.state # "off"
    /\ refreshes < MaxRefreshes /\ refreshes' = refreshes + 1
    /\ link' = [link EXCEPT !.state = "off"]
    /\ queue' = <<>> /\ overflow' = 0
    /\ task' = [task EXCEPT !["worker"] = Idle]
    /\ quality' = NoQuality /\ agg' = NoWindows /\ pending' = <<>>
    /\ replay' = 0 /\ recovered' = 0 /\ retry' = FALSE
    /\ UNCHANGED <<head, redis, faults, drops>>

\* The process dies; Redis keeps the bars and the watermark.  The consumers
\* register their subscriptions again (Subscribe).
Crash ==
    /\ link.state # "off"
    /\ refreshes < MaxRefreshes /\ refreshes' = refreshes + 1
    /\ link' = [state |-> "off", gen |-> 0, next |-> 0]
    /\ queue' = <<>> /\ overflow' = 0
    /\ quality' = NoQuality /\ agg' = NoWindows /\ pending' = <<>>
    /\ replay' = 0 /\ recovered' = 0 /\ retry' = FALSE
    /\ task' = [t \in Tasks |-> Idle]
    /\ UNCHANGED <<head, redis, faults, drops>>

Next ==
    \/ Trade \/ Receive \/ Drop \/ Reconnect
    \/ Subscribe \/ Unsubscribe \/ Crash
    \/ Take \/ Message \/ Pass \/ RetryDue
    \/ \E t \in Tasks : Step(t) \/ CallFails(t)

Spec == Init /\ [][Next]_vars

-----------------------------------------------------------------------------
(* Properties.                                                             *)

InMemory == agg.open \cup UNION Range(pending)
InFlight == UNION {task[t].bar : t \in {u \in Tasks : task[u].pc = "publish"}}
Published == UNION Range(redis.bars)

\* Type correctness of the stream's state.
TypeOK ==
    /\ head \in 0..Len(SecondOf)
    /\ link \in [state : {"off", "up", "down"}, gen : Nat, next : Nat]
    /\ queue \in Seq(Trades) /\ Len(queue) <= QueueSize
    /\ overflow \in 0..Len(SecondOf)
    /\ quality \in [status : {"none", "awaiting_data", "healthy", "degraded"},
                    last : 0..Len(SecondOf)]
    /\ agg.open \subseteq Trades
    /\ \A b \in Range(pending) \cup Range(redis.bars) : b # {} /\ b \subseteq Trades
    /\ replay \in 0..Len(SecondOf) /\ retry \in BOOLEAN
    /\ \A t \in Tasks : task[t].pc \in {"idle", "lock", "page", "row", "message",
                                        "publish", "ack"}

\* Continuity accounting: the trades in published, pending and open bars form
\* one gapless run that ends at the stream's watermark, so a backfill that
\* starts after the watermark neither repeats nor skips a trade.
Accounted ==
    LET all == InMemory \cup InFlight \cup Published
    IN all # {} => /\ all = Min(all)..Max(all)
                   /\ quality.last # 0 => Max(all) = quality.last

\* The bar stream in Redis has no gap and no overlap: a bar starts with the
\* trade after the last one of its predecessor, over lost connections,
\* overflowing queues, subscription changes and restarts.
StreamContiguous ==
    \A i \in 1..Len(redis.bars) - 1 :
        Min(redis.bars[i + 1]) = Max(redis.bars[i]) + 1

\* Every bar but the first holds all the trades of its second, however the
\* connection, the queue and the backfill shared the work.
BarsComplete ==
    \A i \in 2..Len(redis.bars) :
        redis.bars[i] = {t \in Trades : SecondOf[t] = Second(redis.bars[i])}

-----------------------------------------------------------------------------
(* Fairness: the event loop runs every ready task, timers expire, the      *)
(* client reconnects for ever and the feed goes on.                        *)

Fairness ==
    /\ WF_vars(Trade) /\ WF_vars(Receive) /\ WF_vars(Reconnect)
    /\ WF_vars(link.state = "off" /\ Subscribe)
    /\ WF_vars(RetryDue)
    /\ WF_vars(Take \/ Message \/ Step("worker"))
    /\ WF_vars(Pass \/ Step("loop"))

\* A finished second reaches Redis: once the stream has a watermark there,
\* every later trade, but those of the last second still open, is published
\* in the end, whatever was lost, refused or restarted on the way.
EventuallyPublished ==
    \A t \in Trades :
        SecondOf[t] < Last(SecondOf) =>
            (redis.mark # 0 /\ redis.mark < t ~> t \in Published)
=============================================================================
