--------------------------- MODULE VisionCandles ---------------------------
(***************************************************************************)
(* The 1s candles of the history archive.  Those of a daily aggTrades file *)
(* come from the live Bar1sAggregator, fed row by row; those of a monthly  *)
(* file from one SQL aggregation.  verify_history then compares the 1s     *)
(* candles, minute by minute, with the 1m candles Binance publishes, and   *)
(* picks minutes to compare with the exchange.                             *)
(*                                                                         *)
(* Time is counted in microseconds of a clock with few of them: PerMilli   *)
(* microseconds, PerSecond and PerMinute of them.  The rows of a file come *)
(* in any order; its times are in milliseconds or in microseconds.         *)
(***************************************************************************)
EXTENDS Integers, FiniteSets, FiniteSetsExt, Functions, TLC

CONSTANTS
    LastId,             \* aggregate trades in the file
    LastTime,           \* the last microsecond a trade has
    PerMilli, PerSecond, PerMinute,
    Base,               \* the millisecond the file begins with
    Threshold,          \* raw times from here on are microseconds
    Prices

VARIABLES
    unit,               \* of the file's times
    rows,               \* the rows read so far
    windows             \* the windows of the aggregator, by second

vars == <<unit, rows, windows>>

ConstantsOK ==
    /\ PerSecond % PerMilli = 0 /\ PerMinute % PerSecond = 0
    /\ Base + LastTime < Threshold /\ Threshold <= Base * PerMilli
    /\ (Base * PerMilli) % PerMinute = 0

Ids   == 1 .. LastId
Sides == {"buy", "sell"}

\* A row: time is when the trade happened; quantity, side and raw ids follow its
\* id.
Rows        == [id : Ids, time : 0 .. LastTime, price : Prices]
Taker(r)    == IF r.id % 3 = 1 THEN "buy" ELSE "sell"
Quantity(r) == r.id
RawFirst(r) == 2 * r.id
RawLast(r)  == 2 * r.id + (r.id % 2)
RawCount(r) == RawLast(r) - RawFirst(r) + 1

\* transact_time as the file has it.
Raw(r) ==
    IF unit = "us" THEN Base * PerMilli + r.time ELSE Base + (r.time \div PerMilli)

-----------------------------------------------------------------------------
(* A daily file, through the aggregator *)

\* _epoch_millis: large values are microseconds.
Millis(v) == IF v >= Threshold THEN v \div PerMilli ELSE v

\* The event key decides what opens and closes a window, not the order of rows.
Opens(w, key)  == key[1] < w.first[1] \/ (key[1] = w.first[1] /\ key[2] < w.first[2])
Closes(w, key) == key[1] > w.last[1] \/ (key[1] = w.last[1] /\ key[2] > w.last[2])

Flow(quantity, quote, raw) ==
    [volume |-> quantity, quote |-> quote, raw |-> raw,
     count |-> IF raw = 0 THEN 0 ELSE 1, largest |-> quantity]

More(f, g) ==
    [volume |-> f.volume + g.volume, quote |-> f.quote + g.quote, raw |-> f.raw + g.raw,
     count |-> f.count + g.count, largest |-> Max({f.largest, g.largest})]

FlowOf(r) == Flow(Quantity(r), r.price * Quantity(r), RawCount(r))
Nothing   == Flow(0, 0, 0)

\* A new TradeWindow with its first trade.
NewWindow(r, key) ==
    [first |-> key, last |-> key, open |-> r.price, close |-> r.price,
     high |-> r.price, low |-> r.price, all |-> FlowOf(r),
     by |-> [s \in Sides |-> IF s = Taker(r) THEN FlowOf(r) ELSE Nothing],
     ids |-> <<r.id, r.id>>, raws |-> <<RawFirst(r), RawLast(r)>>]

\* TradeWindow.add_trade.
Extended(w, r, key) ==
    [first |-> IF Opens(w, key) THEN key ELSE w.first,
     last  |-> IF Closes(w, key) THEN key ELSE w.last,
     open  |-> IF Opens(w, key) THEN r.price ELSE w.open,
     close |-> IF Closes(w, key) THEN r.price ELSE w.close,
     high  |-> Max({w.high, r.price}), low |-> Min({w.low, r.price}),
     all   |-> More(w.all, FlowOf(r)),
     by    |-> [w.by EXCEPT ![Taker(r)] = More(@, FlowOf(r))],
     ids   |-> <<Min({w.ids[1], r.id}), Max({w.ids[2], r.id})>>,
     raws  |-> <<Min({w.raws[1], RawFirst(r)}), Max({w.raws[2], RawLast(r)})>>]

MilliPerSecond == PerSecond \div PerMilli

\* parse_aggtrade_archive adds a row: no window is closed before the end, and
\* the tolerance of a day drops no trade of the day.
AddRow(r) ==
    LET millis == Millis(Raw(r))
        second == millis \div MilliPerSecond
        key    == <<millis, r.id>>
    IN  (second :> IF second \in DOMAIN windows
                   THEN Extended(windows[second], r, key) ELSE NewWindow(r, key)) @@ windows

\* _candle_from_bar1s: the columns of a candle.
Columns(w) ==
    [open |-> w.open, high |-> w.high, low |-> w.low, close |-> w.close,
     all |-> w.all, by |-> w.by, ids |-> w.ids, raws |-> w.raws]

Daily == [s \in DOMAIN windows |-> Columns(windows[s])]

-----------------------------------------------------------------------------
(* A monthly file, in SQL *)

Micros(v)    == IF v >= Threshold THEN v ELSE v * PerMilli
SecondsOf(r) == Micros(Raw(r)) \div PerSecond

\* struct_pack(event_micros, trade_id), which structs order field by field.
Before(r, s) ==
    LET a == Micros(Raw(r)) b == Micros(Raw(s)) IN a < b \/ (a = b /\ r.id < s.id)

ArgMin(G) == CHOOSE r \in G : \A s \in G : s = r \/ Before(r, s)
ArgMax(G) == CHOOSE r \in G : \A s \in G : s = r \/ Before(s, r)

PricesIn(G) == {r.price : r \in G}

\* sum, count and max over a group, with FILTER for a side.
FlowIn(G) ==
    [volume  |-> MapThenSumSet(LAMBDA r : Quantity(r), G),
     quote   |-> MapThenSumSet(LAMBDA r : r.price * Quantity(r), G),
     raw     |-> MapThenSumSet(LAMBDA r : Max({RawCount(r), 0}), G),
     count   |-> Cardinality(G),
     largest |-> Max({Quantity(r) : r \in G} \cup {0})]

\* The select list of the aggregation over one group.
Aggregate(G) ==
    [open |-> ArgMin(G).price, high |-> Max(PricesIn(G)), low |-> Min(PricesIn(G)),
     close |-> ArgMax(G).price, all |-> FlowIn(G),
     by |-> [s \in Sides |-> FlowIn({r \in G : Taker(r) = s})],
     ids |-> <<Min({r.id : r \in G}), Max({r.id : r \in G})>>,
     raws |-> <<Min({RawFirst(r) : r \in G}), Max({RawLast(r) : r \in G})>>]

MonthlyOf(R) ==
    [s \in {SecondsOf(r) : r \in R} |-> Aggregate({r \in R : SecondsOf(r) = s})]

\* The partitions a monthly file is yielded in, by day (here: a minute long).
DayOf(s)    == (s * PerSecond) \div PerMinute
Days        == {DayOf(s) : s \in DOMAIN MonthlyOf(rows)}
Yielded(d)  == Restrict(MonthlyOf(rows), {s \in DOMAIN MonthlyOf(rows) : DayOf(s) = d})

-----------------------------------------------------------------------------
(* Verification *)

MinuteOf(s) == (s * PerSecond) \div PerMinute
SecondsPerMinute == PerMinute \div PerSecond

Ohlc(c) == <<c.open, c.high, c.low, c.close>>

\* The 1s candles of one minute, those from "from" on and before "to".
Inside(C, m, from, to) == {s \in DOMAIN C : MinuteOf(s) = m /\ from <= s /\ s < to}

\* The query's "seconds": one row for each minute.
Folded(C, S) ==
    <<C[Min(S)].open, Max({C[s].high : s \in S}), Min({C[s].low : s \in S}), C[Max(S)].close>>

\* The minutes found in both timeframes within the bounds.
Matched(C, M, from, to) ==
    {m \in DOMAIN M : /\ from <= m * SecondsPerMinute /\ m * SecondsPerMinute < to
                      /\ Inside(C, m, from, to) # {}}

\* VerificationReport.passed, with a tolerance of nothing.
Passed(C, M, from, to) ==
    /\ Matched(C, M, from, to) # {}
    /\ \A m \in Matched(C, M, from, to) : Folded(C, Inside(C, m, from, to)) = M[m]

\* _load_official_samples: the rows picked out of "total", in order of time.
Sampled(count, total) ==
    IF count = 1 THEN {(total + 1) \div 2}
    ELSE {1 + ((2 * i * (total - 1) + count - 1) \div (2 * (count - 1))) : i \in 0 .. count - 1}
         \cap 1 .. total

-----------------------------------------------------------------------------
(* Reading *)

\* Later trades have higher ids.
Fits(r) == \A s \in rows : s.id # r.id /\ (s.id < r.id => s.time <= r.time)
                                       /\ (s.id > r.id => s.time >= r.time)

Init ==
    /\ unit \in {"ms", "us"}
    /\ rows = {}
    /\ windows = << >>

ReadRow ==
    /\ \E r \in Rows :
        /\ Fits(r)
        /\ rows' = rows \cup {r}
        /\ windows' = AddRow(r)
    /\ UNCHANGED unit

Next == ReadRow

Spec == Init /\ [][Next]_vars

-----------------------------------------------------------------------------
(* Properties *)

TypeOK ==
    /\ rows \subseteq Rows
    /\ DOMAIN windows \subseteq Nat
    /\ \A s \in DOMAIN windows : windows[s].low <= windows[s].high

\* A day has the same 1s candles, column by column, whether they come from its
\* daily file through the aggregator, whatever the order of its rows, or from
\* the monthly file: replacing daily files by a monthly one changes no candle.
DailyIsMonthly ==
    /\ Daily = MonthlyOf(rows)
    /\ \A d \in Days : Yielded(d) = Restrict(Daily, {s \in DOMAIN Daily : DayOf(s) = d})

\* What Binance's 1m candles say, for some set of minutes.
Minute(R, m)  == {r \in R : MinuteOf(SecondsOf(r)) = m}
Klines(R, ms) == [m \in ms |-> Ohlc(Aggregate(Minute(R, m)))]
Minutes(R)    == {MinuteOf(SecondsOf(r)) : r \in R}
Bounds(R)     == LET S == {SecondsOf(r) : r \in R} IN Min(S) .. Max(S) + 1

\* Verification passes exactly if some minute is in both timeframes and, in each
\* such minute, the trades of the stored seconds have the open, high, low and
\* close of all its trades: it accepts every faithful archive, and it notices
\* every lost trade that shows in a candle.
VerificationIsExact ==
    rows # {} =>
    \A lost \in {{}} \cup {{r} : r \in rows} : \A from, to \in Bounds(rows) :
        LET C  == MonthlyOf(rows \ lost)
            M  == Klines(rows, Minutes(rows))
            In == {r \in rows \ lost : from <= SecondsOf(r) /\ SecondsOf(r) < to}
            ms == {m \in Minutes(In) : from <= m * SecondsPerMinute}
        IN  Passed(C, M, from, to) <=>
              ms # {} /\ \A m \in ms : Ohlc(Aggregate(Minute(In, m))) = M[m]

\* The samples are spread from the first row to the last, as many as asked for
\* or all rows if there are fewer.
SamplesAreSpread ==
    rows = {} => \A count \in 1 .. 5, total \in 1 .. 9 :
        /\ Cardinality(Sampled(count, total)) = Min({count, total})
        /\ count > 1 => {1, total} \subseteq Sampled(count, total)

CandlesAgree == DailyIsMonthly /\ VerificationIsExact /\ SamplesAreSpread
=============================================================================
