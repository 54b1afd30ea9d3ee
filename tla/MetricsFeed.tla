---------------------------- MODULE MetricsFeed ----------------------------
(***************************************************************************)
(* The live five-minute metrics (open interest and long/short ratio) of    *)
(* one symbol, from Binance to the entry gate of the spike strategies.     *)
(* The market service aligns the answers of two endpoints and publishes    *)
(* the newest completed bucket to Redis (a hash with the latest point and  *)
(* a bounded stream).  A spike process replays the stream at its start and *)
(* polls it afterwards; it opens its entry gate only on fresh metrics      *)
(* without a gap.                                                          *)
(*                                                                         *)
(* One unit of time is one interval of five minutes.  A point is its       *)
(* available_time and one value that stands for both numbers.  Two         *)
(* services may publish at once, as while one replaces the other.          *)
(***************************************************************************)
EXTENDS Naturals, Sequences, SequencesExt

CONSTANTS
    Collectors,
    MaxAge,             \* METRICS_MAX_AGE_MS
    StreamLength,       \* METRICS_STREAM_MAXLEN
    MaxLag,             \* how far an endpoint may be behind
    SeriesLength,       \* METRICS_STREAM_RECOVERY_LIMIT
    MaxTime, MaxFaults

VARIABLES
    now,
    value,              \* what Binance says of each bucket, by its available_time
    collector,          \* _metrics_loop of each service, with its MetricsQuality
    latest, stream,     \* Redis
    lastId,             \* of the stream's entries
    spike,              \* the spike process
    faults

vars == <<now, value, collector, latest, stream, lastId, spike,
          faults>>

Times  == 1 .. MaxTime
None   == [time |-> 0, value |-> 0]
Points == {None} \cup [time : Times, value : 1 .. 2]

Idle == [pc |-> "idle", asked |-> 0, event |-> None, status |-> "awaiting_data", last |-> 0]

\* A spike process before its warm-up: series and cursor are empty, the gate closed.
Fresh == [pc |-> "start", now |-> 0, cursor |-> 0, series |-> <<>>, failed |-> FALSE,
          gate |-> FALSE]

Init ==
    /\ now = 1
    /\ value = [t \in Times |-> 1]
    /\ collector = [k \in Collectors |-> Idle]
    /\ latest = None
    /\ stream = <<>>
    /\ lastId = 0
    /\ spike = Fresh
    /\ faults = 0

-----------------------------------------------------------------------------
(* The market service *)

Failed(me) == [me EXCEPT !.pc = "idle", !.asked = 0, !.event = None, !.status = "degraded"]

\* _collect_metrics_symbol takes the time, then asks both endpoints.
Ask(k) ==
    /\ collector[k].pc = "idle"
    /\ collector' = [collector EXCEPT ![k] = [@ EXCEPT !.pc = "asked", !.asked = now]]
    /\ UNCHANGED <<now, value, latest, stream, lastId, spike, faults>>

\* An endpoint answers with its two newest buckets, by their start.
Rows(newest) == {t \in {newest, newest - 1} : t >= 0}

Newest == {t \in 0 .. now : now - t <= MaxLag}

\* align_metrics_rows: the completed buckets both answers have, by available_time.
Completed(o, l, asked) == {t \in Times : t - 1 \in Rows(o) \cap Rows(l) /\ t <= asked}

Aligned(o, l, asked) ==
    {t \in Completed(o, l, asked) :
        (\A u \in Completed(o, l, asked) : u <= t) /\ asked - t <= MaxAge}

Answer(k) ==
    LET me == collector[k] IN
    /\ me.pc = "asked"
    /\ \E o, l \in Newest :
        collector' = [collector EXCEPT ![k] =
          IF Aligned(o, l, me.asked) = {} THEN Failed(me)
          ELSE LET t == CHOOSE u \in Aligned(o, l, me.asked) : TRUE
               IN  [me EXCEPT !.pc = "publish", !.asked = 0,
                              !.event = [time |-> t, value |-> value[t]]]]
    /\ UNCHANGED <<now, value, latest, stream, lastId, spike, faults>>

\* The result of the publishing script.
Verdict(event) ==
    IF latest.time > event.time \/ latest = event THEN 0
    ELSE IF latest.time = event.time THEN 0 - 1 ELSE 1

\* Redis runs the script as one step: hash and stream change together.
Publish(k) ==
    LET me == collector[k] IN
    /\ me.pc = "publish"
    /\ IF Verdict(me.event) = 1
       THEN /\ latest' = me.event
            /\ lastId' = lastId + 1
            /\ stream' = LET long == Append(stream, [id |-> lastId + 1, point |-> me.event])
                         IN  IF Len(long) > StreamLength THEN Tail(long) ELSE long
       ELSE UNCHANGED <<latest, stream, lastId>>
    /\ collector' = [collector EXCEPT ![k] =
         IF Verdict(me.event) < 0 THEN Failed(me) ELSE [me EXCEPT !.pc = "mark"]]
    /\ UNCHANGED <<now, value, spike, faults>>

\* mark_healthy.
Mark(k) ==
    LET me == collector[k] IN
    /\ me.pc = "mark"
    /\ collector' = [collector EXCEPT ![k] =
         [Idle EXCEPT !.status = "healthy", !.last = me.event.time]]
    /\ UNCHANGED <<now, value, latest, stream, lastId, spike, faults>>

\* to_dict: a healthy symbol whose metrics are old is reported as degraded.
Reported(k) ==
    IF collector[k].status = "healthy" /\ now - collector[k].last > MaxAge
    THEN "degraded" ELSE collector[k].status

RestartService(k) ==
    /\ faults < MaxFaults
    /\ faults' = faults + 1
    /\ collector' = [collector EXCEPT ![k] = Idle]
    /\ UNCHANGED <<now, value, latest, stream, lastId, spike>>

-----------------------------------------------------------------------------
(* The spike process *)

LastTime(me) == IF me.series = <<>> THEN 0 ELSE me.series[Len(me.series)].time

\* _mark_metrics_failed.
MarkFailed(me) == [me EXCEPT !.failed = TRUE, !.gate = FALSE]

\* The series keeps its newest points.
Recorded(me, p, failed) ==
    LET long == Append(me.series, p)
    IN  [me EXCEPT !.series = IF Len(long) > SeriesLength THEN Tail(long) ELSE long,
                   !.failed = failed]

\* A point later than the last: after a gap the failure stays until a point
\* follows its predecessor.
Accepted(me, p) ==
    IF LastTime(me) = 0 \/ p.time = LastTime(me) + 1 THEN Recorded(me, p, FALSE)
    ELSE Recorded(MarkFailed(me), p, TRUE)

\* _ingest_metrics_payload at the time the caller took.
Ingest(me, p, at) ==
    IF p.time > at THEN MarkFailed(me)
    ELSE IF p.time < LastTime(me) THEN MarkFailed(me)
    ELSE IF p.time = LastTime(me)
         THEN IF p = me.series[Len(me.series)] THEN me ELSE MarkFailed(me)
    ELSE Accepted(me, p)

Replay(me, entries, at) ==
    FoldLeft(LAMBDA m, e : [Ingest(m, e.point, at) EXCEPT !.cursor = e.id], me, entries)

\* _metrics_gate_ready.
GateReady(me, at) ==
    me.series # <<>> /\ ~ me.failed /\ at >= LastTime(me) /\ at - LastTime(me) <= MaxAge

Opened(me, at) == [me EXCEPT !.gate = GateReady(me, at)]

OnlySpike(new) ==
    /\ spike' = new
    /\ UNCHANGED <<now, value, collector, latest, stream, lastId, faults>>

\* _warm_metrics_history reads the stream ...
WarmStream ==
    /\ spike.pc = "start"
    /\ OnlySpike([Replay(spike, stream, now) EXCEPT !.pc = "warm"])

\* ... then the latest point, which may be newer, and sets the gate.
WarmLatest ==
    /\ spike.pc = "warm"
    /\ LET me == IF latest = None THEN spike ELSE Ingest(spike, latest, now)
       IN  OnlySpike([Opened(me, now) EXCEPT !.pc = "run"])

\* _metrics_loop takes the time ...
Poll ==
    /\ spike.pc = "run"
    /\ OnlySpike([spike EXCEPT !.pc = "poll", !.now = now])

\* ... and reads what was added after its cursor.
Read ==
    /\ spike.pc = "poll"
    /\ LET me == Replay(spike, SelectSeq(stream, LAMBDA e : e.id > spike.cursor), spike.now)
       IN  OnlySpike([Opened(me, spike.now) EXCEPT !.pc = "run", !.now = 0])

\* _refresh_metrics_gate, from the market watchdog.
Watchdog ==
    /\ spike.pc \in {"run", "poll"}
    /\ spike.gate # GateReady(spike, now)
    /\ OnlySpike(Opened(spike, now))

RestartSpike ==
    /\ faults < MaxFaults
    /\ faults' = faults + 1
    /\ spike' = Fresh
    /\ UNCHANGED <<now, value, collector, latest, stream, lastId>>

-----------------------------------------------------------------------------
(* Binance, Redis and time *)

Tick ==
    /\ now < MaxTime
    /\ now' = now + 1
    /\ UNCHANGED <<value, collector, latest, stream, lastId, spike, faults>>

\* A bucket already seen gets another value.
Revise(t) ==
    /\ t <= now /\ value[t] = 1
    /\ faults < MaxFaults
    /\ faults' = faults + 1
    /\ value' = [value EXCEPT ![t] = 2]
    /\ UNCHANGED <<now, collector, latest, stream, lastId, spike>>

\* Retention or maintenance empties the stream, not the hash.
EmptyStream ==
    /\ stream # <<>>
    /\ faults < MaxFaults
    /\ faults' = faults + 1
    /\ stream' = <<>>
    /\ UNCHANGED <<now, value, collector, latest, lastId, spike>>

Next ==
    \/ \E k \in Collectors :
        Ask(k) \/ Answer(k) \/ Publish(k) \/ Mark(k) \/ RestartService(k)
    \/ WarmStream \/ WarmLatest \/ Poll \/ Read \/ Watchdog \/ RestartSpike
    \/ Tick \/ EmptyStream
    \/ \E t \in Times : Revise(t)

Spec == Init /\ [][Next]_vars

-----------------------------------------------------------------------------
(* Properties *)

TypeOK ==
    /\ latest \in Points
    /\ \A k \in Collectors : collector[k].event \in Points
    /\ Len(stream) <= StreamLength
    /\ spike.cursor <= lastId

\* However two services overlap and whatever Binance revises, the points in the
\* stream are in order, and the hash holds the newest of them.
StreamIsOrdered ==
    /\ \A i, j \in 1 .. Len(stream) : i < j => stream[i].point.time < stream[j].point.time
    /\ stream # <<>> => stream[Len(stream)].point = latest

\* A bucket is published once: the latest point is only ever replaced by that of
\* a later bucket.
PublishedOnce == [][latest' # latest => latest'.time > latest.time]_vars

\* A service that reports the metrics as healthy has put a point of that age,
\* or a newer one, where every spike process finds it.
HealthyIsStored ==
    \A k \in Collectors :
        Reported(k) = "healthy" => now - latest.time <= MaxAge

\* While the entry gate is open, the strategy's newest point follows its
\* predecessor without a gap, so that the open interest it compares with is
\* that of the interval before; and no point differs from the published one.
GateIsContinuous ==
    LET n == Len(spike.series) IN
    /\ spike.gate => n > 0 /\ (n > 1 => spike.series[n].time = spike.series[n - 1].time + 1)
    /\ LastTime(spike) <= latest.time
    /\ n > 0 /\ LastTime(spike) = latest.time => spike.series[n] = latest

\* The gate only opens on fresh metrics.
GateOpensFresh ==
    [][~ spike.gate /\ spike'.gate /\ spike.pc \in {"warm", "run"}
        => now - LastTime(spike') <= MaxAge]_vars

MetricsAreSound == StreamIsOrdered /\ HealthyIsStored /\ GateIsContinuous

=============================================================================
