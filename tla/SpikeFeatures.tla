--------------------------- MODULE SpikeFeatures ---------------------------
(***************************************************************************)
(* The market windows behind the spike strategy, kept twice: by the        *)
(* strategy itself, and by the provider that a sweep shares between runs   *)
(* of a symbol.  The sweep gives every event to the provider first.        *)
(* Klines are one minute long and may come late or twice; a kline has one  *)
(* value, its low, and its high is one above.  Bars may skip seconds.      *)
(***************************************************************************)
EXTENDS Integers, Sequences, FiniteSets, FiniteSetsExt, SequencesExt

CONSTANTS
  Values,             \* values of a kline
  Retained,           \* minutes of klines a strategy keeps
  SharedRetained,     \* and the provider, for all its strategies
  Late,               \* how many minutes a kline may come late
  Minutes,            \* window lengths asked for
  BarBuffer,          \* bars a strategy keeps
  BarSeconds,         \* seconds of bars the provider keeps
  HourLength,         \* minutes in an hour
  MaxMinute, MaxKlines, MaxSecond

ConstantsOK ==
  /\ Retained \in Nat \ {0} /\ SharedRetained >= Retained /\ Late \in Nat
  /\ \A n \in Minutes : n \in 1..Retained
  /\ BarBuffer \in Nat \ {0} /\ BarSeconds >= BarBuffer

VARIABLES
  own, ownOrdered,        \* klines_1m of the strategy, and whether it is in time order
  shared, sharedOrdered,  \* klines_1m of the provider
  memo,                   \* _window_metric_cache: query |-> result
  front,                  \* latest minute that has completed
  bars, sharedBars,       \* seconds of the cached 1s bars
  asked, second, taken

vars == <<own, ownOrdered, shared, sharedOrdered, memo, front, bars, sharedBars,
          asked, second, taken>>

Queries == {"low", "high"} \X (0..MaxMinute + 1) \X Minutes
NoPoint == [v |-> -1, at |-> -1]

TypeOK ==
  /\ ownOrdered \in BOOLEAN /\ sharedOrdered \in BOOLEAN
  /\ own \in Seq([at : 0..MaxMinute, v : Values]) /\ shared \in Seq([at : 0..MaxMinute, v : Values])
  /\ DOMAIN memo \subseteq Queries /\ second \in 0..MaxSecond /\ taken \in 0..MaxKlines

Init ==
  /\ own = <<>> /\ ownOrdered = TRUE /\ shared = <<>> /\ sharedOrdered = TRUE
  /\ memo = <<>> /\ front = 0 /\ bars = <<>> /\ sharedBars = <<>>
  /\ asked = 0 /\ second = 0 /\ taken = 0

-----------------------------------------------------------------------------
(* Kline caches *)

TimeOrdered(c) == \A i \in 1..Len(c) - 1 : c[i].at <= c[i + 1].at

RECURSIVE DropExpired(_, _)
DropExpired(c, cutoff) ==
  IF c # <<>> /\ Head(c).at < cutoff THEN DropExpired(Tail(c), cutoff) ELSE c

\* Mutant: a cache that was out of order is taken for ordered at once.
Append1m_trusts(c, ordered, k, cutoff) ==
  LET full == Append(c, k)
      fast == Len(full) = 1 \/ full[Len(full) - 1].at <= k.at
      kept == SelectSeq(full, LAMBDA x : x.at >= cutoff)
  IN  IF fast THEN [cache |-> DropExpired(full, cutoff), ordered |-> TRUE]
      ELSE [cache |-> kept, ordered |-> TimeOrdered(kept)]

\* append_kline_and_evict_expired: klines in time order are dropped from the
\* head; after a late one the whole cache is filtered until it is in order.
Append1m(c, ordered, k, cutoff) ==
  LET full == Append(c, k)
      fast == ordered /\ (Len(full) = 1 \/ full[Len(full) - 1].at <= k.at)
      kept == SelectSeq(full, LAMBDA x : x.at >= cutoff)
  IN  IF fast THEN [cache |-> DropExpired(full, cutoff), ordered |-> TRUE]
      ELSE [cache |-> kept, ordered |-> TimeOrdered(kept)]

\* _completed_1m_window: the last kline of every minute, or nothing when one
\* is missing.
Window(c, start, n) ==
  LET times == (start - n)..(start - 1)
      of(t) == c[Max({i \in 1..Len(c) : c[i].at = t})]
  IN  IF \A t \in times : \E i \in 1..Len(c) : c[i].at = t
      THEN [t \in times |-> of(t).v] ELSE <<>>

\* _min_low_point_1m and _prior_high_point: of equal values the latest.
LowPoint(w) ==
  IF w = <<>> THEN NoPoint
  ELSE LET v == Min({w[t] : t \in DOMAIN w})
       IN  [v |-> v, at |-> Max({t \in DOMAIN w : w[t] = v})]

HighPoint(w) ==
  IF w = <<>> THEN NoPoint
  ELSE LET v == Max({w[t] : t \in DOMAIN w})
       IN  [v |-> v + 1, at |-> Max({t \in DOMAIN w : w[t] = v})]

Metric(c, q) ==
  LET w == Window(c, q[2], q[3])
  IN  IF q[1] = "low" THEN LowPoint(w) ELSE HighPoint(w)

\* A completed kline, at most Late minutes behind the newest: the provider
\* takes it and forgets its results, then the strategy.
Kline(k) ==
  LET s == Append1m(shared, sharedOrdered, k, k.at - SharedRetained)
      o == Append1m(own, ownOrdered, k, k.at - Retained)
  IN  /\ taken < MaxKlines /\ k.at + Late >= front
      /\ shared' = s.cache /\ sharedOrdered' = s.ordered
      /\ own' = o.cache /\ ownOrdered' = o.ordered
      /\ memo' = <<>> /\ front' = Max({front, k.at}) /\ taken' = taken + 1
      /\ UNCHANGED <<bars, sharedBars, asked, second>>

\* window_metric, asked in the minute to come: one computation for all.
Ask(q) ==
  /\ q[2] = front + 1 /\ q \notin DOMAIN memo /\ asked < 1
  /\ memo' = [x \in DOMAIN memo \cup {q} |-> IF x = q THEN Metric(shared, q) ELSE memo[x]]
  /\ asked' = asked + 1
  /\ UNCHANGED <<own, ownOrdered, shared, sharedOrdered, front, bars, sharedBars, second,
                 taken>>

-----------------------------------------------------------------------------
(* 1s bars *)

SharedTrim(bs, t) == SelectSeq(Append(bs, t), LAMBDA b : b >= t - BarSeconds)

\* _update_cache keeps a number of bars, process_event a span of time.
Bar(skip) ==
  LET t == second + 1 + skip
  IN  /\ t <= MaxSecond
      /\ bars' = LET b == Append(bars, t)
                 IN  IF Len(b) > BarBuffer THEN Tail(b) ELSE b
      /\ sharedBars' = SharedTrim(sharedBars, t)
      /\ second' = t
      /\ UNCHANGED <<own, ownOrdered, shared, sharedOrdered, memo, front, asked, taken>>

\* The bar a full, unbroken buffer compares with: none when a second is missing.
Base(bs) ==
  IF Len(bs) < BarBuffer THEN -1
  ELSE LET b == bs[Len(bs) - BarBuffer + 1]
       IN  IF bs[Len(bs)] - b = BarBuffer - 1 THEN b ELSE -1

Next ==
  \/ \E t \in 0..MaxMinute, v \in Values : Kline([at |-> t, v |-> v])
  \/ \E q \in Queries : Ask(q)
  \/ \E skip \in 0..(BarSeconds + 1) : Bar(skip)

Spec == Init /\ [][Next]_vars

-----------------------------------------------------------------------------
(* Indicators over the window *)

\* _box_breakthrough: minutes since the end of the last completed hour that
\* closed below the line, or since the first hour's end when none did.
BoxMinutes(w, start, line) ==
  LET hours == {t \div HourLength : t \in {x \in DOMAIN w : x < start - (start % HourLength)}}
      close(h) == w[Max({t \in DOMAIN w : t \div HourLength = h})]
      below == {h \in hours : close(h) < line}
      from  == IF below = {} THEN Min(hours) ELSE Max(below)
      d     == start - (from + 1) * HourLength
  IN  IF hours = {} THEN -1 ELSE IF d < 0 THEN 0 ELSE d

-----------------------------------------------------------------------------
(* Properties *)

\* A run that shares its windows sees what it would see alone: every metric of
\* window_metric for the minute to come, remembered or not, is the one the
\* strategy's own cache gives, and both buffers agree on the bar a rise is
\* measured from.
SharedIsOwn ==
  /\ \A q \in Queries :
       LET got == IF q \in DOMAIN memo THEN memo[q] ELSE Metric(shared, q)
       IN  q[2] > front => got = Metric(own, q)
  /\ Base(bars) = Base(sharedBars)

\* The newest kline leaves nothing expired in either cache, whatever order the
\* klines came in: the order flag is never true of a cache that is not in order.
NothingExpired ==
  /\ \A i \in 1..Len(own) : own[i].at >= own[Len(own)].at - Retained
  /\ \A i \in 1..Len(shared) : shared[i].at >= shared[Len(shared)].at - SharedRetained

\* The minutes _box_breakthrough reports are minutes in which no completed hour
\* closed below the line.
BoxIsHeld ==
  \A n \in Minutes, line \in Values :
    LET start == front + 1
        w     == Window(own, start, n)
        d     == BoxMinutes(w, start, line)
    IN  w # <<>> =>
          \A t \in DOMAIN w :
            t % HourLength = HourLength - 1 /\ t + 1 <= start - (start % HourLength)
              /\ t + 1 > start - d => w[t] >= line
=============================================================================
