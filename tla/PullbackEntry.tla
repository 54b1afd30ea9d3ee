--------------------------- MODULE PullbackEntry ---------------------------
(***************************************************************************)
(* The pullback short of spike: a signal waits until the spike was high    *)
(* enough and part of it was given back.  "pullback-v3" is a strategy of   *)
(* its own with its exits; "v2.2-pullback" replaces the order placement of *)
(* the v2.2 strategy and enters at the open of the next bar.  Both are run *)
(* by the backtest engine, which fills a market order on the spot.         *)
(* Times are seconds; a price is an integer, ratios are percentages.       *)
(***************************************************************************)
EXTENDS Integers, Sequences, FiniteSets, FiniteSetsExt, TLC

CONSTANTS
  Version,                       \* "pullback-v3" or "v2.2-pullback"
  Shapes,                        \* bars: [open, high, low, close, quiet]
  Base, Prior, Floor, Invalid,   \* prices of a signal; 0 stands for none
  RisePct, RetracePct,           \* min_spike_rise, retrace_frac
  Wait, Cooldown,
  StopAge, TakeProfitPct, MaxHold, MinBreakoutAge, GateStopPct,
  MaxBars, MaxGap

Exits == {"none", "half", "all", "breakout"}

ConstantsOK ==
  /\ Version \in {"pullback-v3", "v2.2-pullback"}
  /\ \A s \in Shapes : {s.open, s.close} \subseteq s.low..s.high /\ s.quiet \in BOOLEAN
  /\ RisePct \in Nat /\ RetracePct \in 1..99 /\ Wait \in Nat /\ MaxBars \in Nat /\ MaxGap \in Nat

V3 == Version = "pullback-v3"

VARIABLES
  bars,     \* bars so far: a shape with its time, and whether it was held or ended by an exit
  last,     \* last_signal_time, -Cooldown when none
  sig,      \* the signal that waits: [at, high, ready, bar], NoSignal when none
  camp,     \* the position: [lots, fill, price, high, bar]
  reduced,  \* the origin check of the exit policy has been made
  found,    \* bars that started a signal
  entries   \* [signal, bar, price] of the entries

vars == <<bars, last, sig, camp, reduced, found, entries>>

NoSignal == [at |-> -1, high |-> 0, ready |-> -1, bar |-> 0]
Flat == [lots |-> 0, fill |-> 0, price |-> 0, high |-> 0, bar |-> 0]
Lots == 2

Init ==
  /\ bars = <<>> /\ last = -Cooldown /\ sig = NoSignal /\ camp = Flat /\ reduced = FALSE
  /\ found = {} /\ entries = {}

-----------------------------------------------------------------------------
(* Prices, in hundredths *)

Risen(high) == 100 * high >= Base * (100 + RisePct)
Candidate(high) == 100 * high - RetracePct * (high - Base)

\* _entry_price_allowed, and the filter on the previous high of v3.
Allowed(price) == price > 100 * Base /\ price >= 100 * Floor /\ price > 100 * Prior

\* v2.2: only the highs of earlier bars make the candidate of a bar.
Reached(high, b) == high

-----------------------------------------------------------------------------
(* Entry *)

Signal(b, n) == [at |-> b.t, high |-> b.high, ready |-> -1, bar |-> n]

\* _advance_pending of v3: [sig, price], price 0 when there is no order.
AdvanceV3(b, held) ==
  LET high == Max({sig.high, b.high})
      c    == Candidate(high)
      wait == [sig |-> [sig EXCEPT !.high = high], price |-> 0]
      over == [sig |-> NoSignal, price |-> 0]
  IN  IF b.t - sig.at > Wait \/ b.low < Base THEN over
      ELSE IF ~Risen(high) \/ c <= 100 * Base \/ 100 * b.low > c \/ c <= 100 * Prior THEN wait
      ELSE IF b.quiet \/ held THEN over
      ELSE [over EXCEPT !.price = Max({c, 100 * b.open})]

\* _manage_signals of v2.2-pullback: a bar makes the signal ready, the open of
\* the bar right after it is the entry.
AdvanceV22(b, before, held) ==
  LET wait == [sig |-> sig, price |-> 0]
      over == [sig |-> NoSignal, price |-> 0]
      ends == sig.at + Wait
      high == Reached(sig.high, b)
      c    == Candidate(high)
  IN  IF b.t > ends \/ (IF sig.ready < 0 THEN b.t >= ends ELSE sig.ready >= ends) THEN over
      ELSE IF b.t # before + 1 THEN over
      ELSE IF sig.ready >= 0
      THEN IF b.open >= Invalid \/ ~Allowed(100 * b.open) \/ held THEN over
           ELSE [over EXCEPT !.price = 100 * b.open]
      ELSE IF b.high >= Invalid \/ b.low < Base THEN over
      ELSE IF Risen(high) /\ 100 * b.low <= c /\ Allowed(c)
      THEN [wait EXCEPT !.sig.ready = b.t]
      ELSE [wait EXCEPT !.sig.high = Max({sig.high, b.high})]

-----------------------------------------------------------------------------
(* Exits of v3 *)

\* _manage_exits: the lots to close, after the policy's verdict on the bar.
\* A stable breakout does not count before MinBreakoutAge, but guards a loss.
ToClose(b, verdict) ==
  LET age  == b.t + 1 - camp.fill
      loss == 10000 * b.close - 100 * camp.price
      gated == verdict = "breakout" /\ age < MinBreakoutAge
      half == verdict = "half" /\ ~reduced /\ b.close <= Base
  IN  IF camp.lots = 0 THEN 0
      ELSE IF age > StopAge /\ b.high >= camp.high THEN camp.lots
      ELSE IF half THEN camp.lots \div 2
      ELSE IF verdict = "all" \/ (verdict = "breakout" /\ ~gated) THEN camp.lots
      ELSE IF gated /\ loss >= GateStopPct * camp.price THEN camp.lots
      ELSE IF TakeProfitPct > 0 /\ 10000 * b.low <= camp.price * (100 - TakeProfitPct) THEN camp.lots
      ELSE IF age >= MaxHold THEN camp.lots
      ELSE 0

\* The fill of the exit: the Campaign is cleared with the last lot.
AfterExit(n) == IF n = camp.lots THEN Flat ELSE [camp EXCEPT !.lots = @ - n]

\* on_fill of the entry freezes the spike the signal had reached.
Opened(b, price) ==
  [lots |-> Lots, fill |-> b.t + 1, price |-> price,
   high |-> Max({sig.high, b.high}), bar |-> sig.bar]

-----------------------------------------------------------------------------
(* A bar *)

\* _detect_60s_signal, and the cooldown a v2.2 signal that is refused spends too.
Detects(b, s) == b.t - last >= Cooldown /\ s = NoSignal

Stamp(shape, gap) ==
  [t |-> IF bars = <<>> THEN 0 ELSE bars[Len(bars)].t + 1 + gap,
   open |-> shape.open, high |-> shape.high, low |-> shape.low, close |-> shape.close,
   quiet |-> shape.quiet]

BarV3(shape, gap, spike, verdict) ==
  LET b    == Stamp(shape, gap)
      n    == Len(bars) + 1
      out  == ToClose(b, verdict)
      step == IF sig = NoSignal THEN [sig |-> sig, price |-> 0] ELSE AdvanceV3(b, camp.lots > 0)
      enter == out = 0 /\ step.price > 0
      new  == out = 0 /\ ~enter /\ spike /\ Detects(b, step.sig)
  IN  /\ camp.lots = 0 => verdict = "none"
      /\ bars' = Append(bars, b @@ [held |-> camp.lots > 0, exited |-> out > 0])
      /\ camp' = IF out > 0 THEN AfterExit(out) ELSE IF enter THEN Opened(b, step.price) ELSE camp
      /\ reduced' = IF enter \/ (out > 0 /\ out = camp.lots) THEN FALSE
                    ELSE reduced \/ (verdict = "half" /\ out > 0)
      /\ sig' = IF out > 0 THEN sig ELSE IF new THEN Signal(b, n) ELSE step.sig
      /\ last' = IF new THEN b.t ELSE last
      /\ found' = IF new THEN found \cup {n} ELSE found
      /\ entries' = IF enter THEN entries \cup {[signal |-> sig.bar, bar |-> n, price |-> step.price]}
                    ELSE entries

\* The exits and the Campaign of v2.2 are those of SpikeStrategy: here a
\* signal is looked for only while flat, and the position stays.
BarV22(shape, gap, spike) ==
  LET b    == Stamp(shape, gap)
      n    == Len(bars) + 1
      step == IF sig = NoSignal THEN [sig |-> sig, price |-> 0]
              ELSE AdvanceV22(b, bars[Len(bars)].t, camp.lots > 0)
      enter == step.price > 0
      new  == spike /\ ~enter /\ sig = NoSignal /\ camp.lots = 0 /\ Detects(b, step.sig)
  IN  /\ bars' = Append(bars, b @@ [held |-> camp.lots > 0, exited |-> FALSE])
      /\ camp' = IF enter THEN Opened(b, step.price) ELSE camp
      /\ sig' = IF new THEN Signal(b, n) ELSE step.sig
      /\ last' = IF new THEN b.t ELSE last
      /\ found' = IF new THEN found \cup {n} ELSE found
      /\ entries' = IF enter THEN entries \cup {[signal |-> sig.bar, bar |-> n, price |-> step.price]}
                    ELSE entries
      /\ UNCHANGED reduced

Next ==
  /\ Len(bars) < MaxBars
  /\ \E shape \in Shapes, gap \in 0..MaxGap, spike \in BOOLEAN :
       \/ V3 /\ \E verdict \in Exits : BarV3(shape, gap, spike, verdict)
       \/ ~V3 /\ BarV22(shape, gap, spike)

Spec == Init /\ [][Next]_vars

-----------------------------------------------------------------------------
(* Properties *)

TypeOK ==
  /\ Len(bars) <= MaxBars /\ found \subseteq 1..MaxBars /\ reduced \in BOOLEAN
  /\ camp.lots \in 0..Lots /\ (sig = NoSignal \/ sig.bar \in found)

Seen(s, n) == {i \in s..n : i = s \/ ~bars[i].exited}
Highest(s, n) == Max({bars[i].high : i \in Seen(s, n)})

\* Bar n is one at which the signal of bar s may be entered, by v3.
DueV3(s, n) ==
  LET c == Candidate(Highest(s, n))
  IN  /\ bars[n].t - bars[s].t <= Wait /\ ~bars[n].exited
      /\ \A i \in Seen(s, n) \ {s} : bars[i].low >= Base
      /\ Risen(Highest(s, n)) /\ 100 * bars[n].low <= c /\ c > 100 * Base /\ c > 100 * Prior

\* Bar n makes the signal of bar s ready, by v2.2, on what bars before n showed.
DueV22(s, n) ==
  LET c == Candidate(Highest(s, n - 1))
  IN  /\ bars[n].t = bars[s].t + (n - s) /\ bars[n].t - bars[s].t < Wait
      /\ \A i \in s + 1..n : bars[i].low >= Base /\ bars[i].high < Invalid
      /\ Risen(Highest(s, n - 1)) /\ 100 * bars[n].low <= c /\ Allowed(c)

Due(s, n) == s < n /\ (IF V3 THEN DueV3(s, n) ELSE DueV22(s, n))
FirstDue(s, n) == Due(s, n) /\ \A m \in s + 1..n - 1 : ~Due(s, m)

Entered(s, n) ==
  IF V3 THEN FirstDue(s, n) /\ ~bars[n].held /\ ~bars[n].quiet
  ELSE /\ n > 1 /\ FirstDue(s, n - 1) /\ bars[n].t = bars[n - 1].t + 1
       /\ bars[n].t - bars[s].t <= Wait
       /\ bars[n].open < Invalid /\ Allowed(100 * bars[n].open) /\ ~bars[n].held

\* The step by step bookkeeping of a signal enters exactly where the rule read
\* off all the bars says: once per signal, at the first bar that is due, never
\* after the wait, the base or the invalid price, v2.2 never on the high of a
\* bar that was not complete.
EntersWhenDue ==
  \A s \in found, n \in 1..Len(bars) :
    (\E e \in entries : e.signal = s /\ e.bar = n) <=> Entered(s, n)

\* A position is judged by the spike of its own signal, whatever signals come
\* and go while it is open, and is closed by the first bar past max_hold (one
\* later when that bar only halves it).
PositionIsBounded ==
  camp.lots > 0 =>
    /\ \E e \in entries : /\ e.signal = camp.bar /\ bars[e.bar].t + 1 = camp.fill
                          /\ camp.price = e.price
                          /\ V3 => camp.high = Highest(e.signal, e.bar)
    /\ V3 => bars[Len(bars)].t + 1 - camp.fill < MaxHold \/ bars[Len(bars)].exited
=============================================================================
