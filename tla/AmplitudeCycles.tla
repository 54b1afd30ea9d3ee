-------------------------- MODULE AmplitudeCycles --------------------------
(***************************************************************************)
(* The detector of amplitude cycles the spike research is built on         *)
(* (research/amplitude_cycles.py): daily candidates are merged into        *)
(* blocks, minute bars are checked for coverage, and in the bars every up  *)
(* spike between two lows of a directional-change detector is an event.    *)
(*                                                                         *)
(* The bars come one at a time, so that what is found can be compared with *)
(* what was found before.  Prices are small numbers.  The code compares    *)
(* logarithms of closes, which is the comparison of their ratio made here. *)
(* The robust scale is the true range of the bar before (a window of one). *)
(* The candidate days are intervals of bars.                               *)
(***************************************************************************)
EXTENDS Integers, Sequences, FiniteSets, FiniteSetsExt

CONSTANTS
    BarKinds,           \* bars: [open, high, low, close]
    MaxBars,
    Floor, Cap, K,      \* dc_floor_percent, dc_cap_percent, dc_k
    SpikePercent, RetracePercent, CrashStartPercent, SpikeK,
    CandidateDays,      \* [from, to), the blocks of the scan
    LastDay             \* a bound of the days that are merged

VARIABLES
    bars,
    det                 \* the state of directional_change_pivots

vars == <<bars, det>>

\* "high" and "low" are the indexes of the running extremes.
Start == [direction |-> 0, high |-> 1, low |-> 1, pivots |-> <<>>]

Init == bars = <<>> /\ det = Start

-----------------------------------------------------------------------------
(* lagged_robust_scale and directional_change_pivots *)

Abs(a, b) == IF a > b THEN a - b ELSE b - a

\* The price a bar moves away from.
Previous(i) == IF i = 1 THEN bars[1].open ELSE bars[i - 1].close

TrueRange(i) == Max({bars[i].high - bars[i].low,
                     Abs(bars[i].high, Previous(i)), Abs(bars[i].low, Previous(i))})

\* A multiple of the scale of bar i > 1, a percentage as a fraction; only the bar
\* before enters into it.
Scaled(i, factor) == [num |-> factor * 100 * TrueRange(i - 1), den |-> Previous(i - 1)]

Percent(n) == [num |-> n, den |-> 1]

AtLeast(p, q) == p.num * q.den >= q.num * p.den

Delta(i) ==
    IF i = 1 THEN Percent(Floor)
    ELSE LET d == Scaled(i, K) IN
         IF AtLeast(Percent(Floor), d) THEN Percent(Floor)
         ELSE IF AtLeast(d, Percent(Cap)) THEN Percent(Cap) ELSE d

\* Bar i is a reversal of the extreme at bar e, by the threshold of that bar.
Risen(i, e)  == bars[i].close * 100 * Delta(e).den >= bars[e].close * (100 * Delta(e).den + Delta(e).num)
Fallen(i, e) == bars[i].close * 100 * Delta(e).den + bars[e].close * Delta(e).num
                    <= bars[e].close * 100 * Delta(e).den

Confirmed(d, kind, at, i) ==
    [d EXCEPT !.pivots = Append(@, [kind |-> kind, index |-> at, confirmed |-> i]),
              !.direction = IF kind = "low" THEN 1 ELSE 2,
              !.high = IF kind = "low" THEN i ELSE @,
              !.low = IF kind = "high" THEN i ELSE @]

Higher(d, i) == IF bars[i].close > bars[d.high].close THEN [d EXCEPT !.high = i] ELSE d
Lower(d, i)  == IF bars[i].close < bars[d.low].close THEN [d EXCEPT !.low = i] ELSE d

\* One pass of the detector's loop; direction 2 is the code's -1.
Moved(d, i) ==
    CASE d.direction = 0 ->
           LET e == Lower(Higher(d, i), i) IN
           IF Risen(i, e.low) THEN Confirmed(e, "low", e.low, i)
           ELSE IF Fallen(i, e.high) THEN Confirmed(e, "high", e.high, i) ELSE e
      [] d.direction = 1 ->
           IF Higher(d, i) # d THEN Higher(d, i)
           ELSE IF Fallen(i, d.high) THEN Confirmed(d, "high", d.high, i) ELSE d
      [] d.direction = 2 ->
           IF Lower(d, i) # d THEN Lower(d, i)
           ELSE IF Risen(i, d.low) THEN Confirmed(d, "low", d.low, i) ELSE d

\* The bars come first: Moved reads them.
Feed(b) ==
    /\ Len(bars) < MaxBars
    /\ bars' = Append(bars, b)
    /\ \E d \in {det} : det' = IF bars = <<>> THEN d ELSE Moved(d, Len(bars))'

Next == \E b \in BarKinds : Feed(b)

Spec == Init /\ [][Next]_vars

-----------------------------------------------------------------------------
(* _adaptive_spikes and _analyze_dc_cycles *)

\* An up spike: a wick far above the close before, of which enough was given back.
IsUpSpike(i) ==
    LET up == [num |-> (bars[i].high - Previous(i)) * 100, den |-> Previous(i)]
    IN  /\ AtLeast(up, Percent(SpikePercent))
        /\ i > 1 => AtLeast(up, Scaled(i, SpikeK))
        /\ (bars[i].high - bars[i].close) * 100 >= bars[i].high * RetracePercent

UpSpikes == {i \in 1 .. Len(bars) : IsUpSpike(i)}

Pivots == {det.pivots[n] : n \in 1 .. Len(det.pivots)}
Lows   == {p \in Pivots : p.kind = "low"}

\* The lows a spike may start from, known when it happens, and the lows after it.
StartsOf(s) == {p \in Lows : p.index < s /\ p.index > 1 /\ p.confirmed < s}
AfterOf(s)  == {p \in Lows : p.index > s}

Last(P)  == CHOOSE p \in P : \A q \in P : q.index <= p.index
First(P) == CHOOSE p \in P : \A q \in P : p.index <= q.index

Grouped == {s \in UpSpikes : StartsOf(s) # {} /\ AfterOf(s) # {}}

KeyOf(s) == [start |-> Last(StartsOf(s)).index, trough |-> First(AfterOf(s)).index]

\* The highest spike of a group, the earliest of equal ones.
Primary(S) ==
    CHOOSE s \in S : \A t \in S :
        bars[t].high < bars[s].high \/ (bars[t].high = bars[s].high /\ s <= t)

Event(key) ==
    LET S    == {s \in Grouped : KeyOf(s) = key}
        p    == Primary(S)
        post == (p + 1) .. key.trough
        down == {i \in post : bars[i].close * 100 <= bars[p].high * (100 - CrashStartPercent)}
    IN  [start |-> key.start, spikes |-> S, peak |-> p,
         crash |-> IF down = {} THEN key.trough ELSE Min(down),
         low |-> CHOOSE i \in post : \A j \in post :
                   bars[i].low < bars[j].low \/ (bars[i].low = bars[j].low /\ i <= j),
         trough |-> key.trough]

\* A cycle counts if it overlaps a candidate day.
Selected(key) == \E c \in CandidateDays : c.from < key.trough + 1 /\ c.to > key.start

Events == {Event(k) : k \in {key \in {KeyOf(s) : s \in Grouped} : Selected(key)}}

-----------------------------------------------------------------------------
(* merge_daily_candidates and assess_coverage *)

Before(D, d) == {e \in D : e < d}

\* A block starts with a day that is too far from the one before it.
Heads(D, gap) == {d \in D : Before(D, d) = {} \/ d - Max(Before(D, d)) > gap}

Blocks(D, gap) ==
    {{d \in D : d >= h /\ \A k \in Heads(D, gap) : k > h => d < k} : h \in Heads(D, gap)}

\* The status of a window [from, to) in which minute i has count[i] bars, when the
\* archive has [low, high).
Coverage(count, from, to, low, high) ==
    LET a      == IF from > low THEN from ELSE low
        b      == IF to < high THEN to ELSE high
        unique == {i \in DOMAIN count : a <= i /\ i < b /\ count[i] > 0}
        gaps   == {i \in unique : i + 1 \notin unique /\ \E j \in unique : j > i}
    IN  IF a >= b \/ unique = {} THEN "missing_1m"
        ELSE IF a .. (b - 1) \ unique # {} \/ (\E i \in unique : count[i] > 1) \/ gaps # {}
             THEN "incomplete_gap"
        ELSE IF a # from \/ b # to THEN "partial_archive_boundary" ELSE "complete"

-----------------------------------------------------------------------------
(* Properties *)

TypeOK ==
    /\ bars \in Seq(BarKinds)
    /\ det.direction \in 0 .. 2
    /\ \A p \in Pivots : p.index < p.confirmed /\ p.confirmed <= Len(bars)

\* The pivots are the swings of the closes: highs and lows take turns, each is the
\* first extreme close between the confirmations around it, and it is confirmed by
\* the first bar that reverses it by the threshold of the pivot's own bar.
PivotsAreSwings ==
    \A n \in 1 .. Len(det.pivots) :
        LET p    == det.pivots[n]
            from == IF n = 1 THEN 1 ELSE det.pivots[n - 1].confirmed
            Beyond(i) == IF p.kind = "low" THEN bars[i].close < bars[p.index].close
                         ELSE bars[i].close > bars[p.index].close
            Reversed(i) == IF p.kind = "low" THEN Risen(i, p.index) ELSE Fallen(i, p.index)
        IN  /\ n > 1 => p.kind # det.pivots[n - 1].kind /\ p.index >= from
            /\ \A i \in from .. (p.confirmed - 1) : ~ Beyond(i)
            /\ \A i \in from .. (p.index - 1) : bars[i].close # bars[p.index].close
            /\ Reversed(p.confirmed)
            /\ \A i \in (p.index + 1) .. (p.confirmed - 1) : ~ Reversed(i)

\* Every event is a rise from a low that was known before the spike, through the
\* highest of its spikes, to the low after it, in this order; every spike of a
\* cycle that is selected is in one event.
EventsAreOrdered ==
    /\ \A e \in Events :
        /\ e.start < e.peak /\ e.peak < e.crash /\ e.crash <= e.trough
        /\ e.peak < e.low /\ e.low <= e.trough
        /\ \A s \in e.spikes :
            /\ bars[s].high <= bars[e.peak].high /\ e.start < s /\ s < e.trough
            /\ \E p \in Lows : p.index = e.start /\ p.confirmed < s
    /\ \A s \in Grouped :
        Cardinality({e \in Events : s \in e.spikes}) = (IF Selected(KeyOf(s)) THEN 1 ELSE 0)

\* The days are split into blocks, days closer than the gap stay together, others
\* do not; and bars may be analysed exactly if every minute that the archive and
\* the window share has one bar.
InputsAreSound ==
    bars = <<>> =>
      /\ \A D \in SUBSET (1 .. LastDay), gap \in 1 .. 2 :
          /\ UNION Blocks(D, gap) = D
          /\ \A d, e \in D : d < e /\ e - d <= gap
               => \E B \in Blocks(D, gap) : d \in B /\ e \in B
          /\ \A B \in Blocks(D, gap) : \A d \in D \ B, e \in B : Abs(d, e) > gap
      /\ \A count \in [0 .. 3 -> 0 .. 2], low \in 0 .. 4, high \in 0 .. 4 :
          Coverage(count, 1, 4, low, high) \in {"complete", "partial_archive_boundary"} <=>
            LET shared == (1 .. 3) \cap (low .. (high - 1))
            IN  shared # {} /\ \A i \in shared : count[i] = 1

CyclesAreSound == PivotsAreSwings /\ EventsAreOrdered /\ InputsAreSound

\* An event once found is not changed by later bars: the research sees nothing it
\* could not have known when the last low of the event was confirmed.
EventsAreFinal == [][Events \subseteq Events']_vars
=============================================================================
