----------------------------- MODULE LedgerReports -----------------------------
(***************************************************************************)
(* What the ledger tells the Web UI about results: campaign facts, daily   *)
(* PnL, performance, its breakdown and the campaign pages                  *)
(* (ledger/db/models.py, ledger/api/routes.py), computed from the trades   *)
(* table as it grows.  A trade is a record                                 *)
(*   campaign  campaign_id (fills without one take part in no report)      *)
(*   symbol, side, time (exchange_time)                                    *)
(*   pnl       realized_pnl, meaningful when known (else the null)         *)
(*   asset     commission_asset                                            *)
(* with quantity one lot and commission one Fee.  A campaign belongs to    *)
(* one account and strategy.  Days are DayLength ticks; the window of a    *)
(* query is the half-open [from, to) that _date_bounds_in_timezone makes   *)
(* of its inclusive dates.                                                 *)
(***************************************************************************)
EXTENDS Integers, Sequences, FiniteSets, FiniteSetsExt

CONSTANTS
  Campaigns,  \* campaign ids, numbers: the SQL orders by them
  Kinds,      \* what a fill may look like: [symbol, pnl, known, asset]
  Fee,        \* commission of a fill
  Days, DayLength,
  MaxSide     \* bound: rows of each side in the trades table

VARIABLE table

vars == <<table>>

Times == 0 .. Days * DayLength - 1

Opening == [symbol |-> "S", pnl |-> 0, known |-> TRUE, asset |-> "USDT"]

Trade(c, side, time, k) ==
  [campaign |-> c, side |-> side, time |-> time,
   symbol |-> k.symbol, pnl |-> k.pnl, known |-> k.known, asset |-> k.asset]

Init == table = {}

\* A trade row is committed (LedgerBooks); recovered trades come out of order.
Book(t) ==
  /\ Cardinality({u \in table : u.side = t.side}) < MaxSide
  /\ ~\E u \in table : <<u.campaign, u.side, u.time>> = <<t.campaign, t.side, t.time>>
  /\ table' = table \cup {t}

Next ==
  \E c \in Campaigns, time \in Times :
    \/ Book(Trade(c, "SELL", time, Opening))
    \/ \E k \in Kinds : Book(Trade(c, "BUY", time, k))

Spec == Init /\ [][Next]_vars

-----------------------------------------------------------------------------
(* list_performance_campaign_facts.                                         *)

Of(c) == {t \in table : t.campaign = c}

Bought(c) == {t \in Of(c) : t.side = "BUY"}

Sold(c) == {t \in Of(c) : t.side = "SELL"}

Total(ts) == MapThenSumSet(LAMBDA t : IF t.known THEN t.pnl ELSE 0, ts)

Open == Days * DayLength

\* closed_at: the last BUY once as much was bought as sold; Open for the null.
ClosedAt(c) ==
  IF Sold(c) # {} /\ Cardinality(Bought(c)) = Cardinality(Sold(c))
    THEN Max({t.time : t \in Bought(c)}) ELSE Open

Side(c) == IF Cardinality(Sold(c)) >= Cardinality(Bought(c)) THEN "SHORT" ELSE "LONG"

\* PerformanceCampaignFact.has_complete_closed_pnl
HasCompleteClosedPnl(c) ==
  /\ ClosedAt(c) # Open
  /\ \A t \in Of(c) : t.known
  /\ {t.asset : t \in Of(c)} = {"USDT"}
  /\ Cardinality({t.symbol : t \in Of(c)}) = 1

NetOf(c) == Total(Of(c)) - Fee * Cardinality(Of(c))

\* Mutant: the window filters the fills instead of choosing the campaigns.
Selected_opened(from, to, symbol) ==
  {c \in Campaigns : \E t \in Sold(c) : t.time >= from /\ t.time < to
                                         /\ symbol \in {"any", t.symbol}}

\* Campaigns with a fill in the window; all their fills count afterwards.
Selected(from, to, symbol) ==
  {c \in Campaigns : \E t \in Of(c) : t.time >= from /\ t.time < to
                                       /\ symbol \in {"any", t.symbol}}

SymbolOf(c) == IF \E t \in Of(c) : t.symbol = "A" THEN "A" ELSE "S"

-----------------------------------------------------------------------------
(* The answers of the API.                                                  *)

\* list_daily_realized_pnl: complete campaigns under the day they closed.
DailyCampaigns(day, from, to, symbol) ==
  {c \in Selected(from, to, symbol) :
     /\ HasCompleteClosedPnl(c)
     /\ ClosedAt(c) >= from /\ ClosedAt(c) < to
     /\ ClosedAt(c) \div DayLength = day}

DailyPnl(day, from, to, symbol) ==
  LET cs == DailyCampaigns(day, from, to, symbol)
  IN  [campaigns |-> Cardinality(cs),
       fills |-> MapThenSumSet(LAMBDA c : Cardinality(Of(c)), cs),
       net |-> MapThenSumSet(NetOf, cs)]

\* eligible campaigns of _performance_values for the given facts.
Eligible(cs, from, to) ==
  {c \in cs : ClosedAt(c) >= from /\ ClosedAt(c) < to /\ HasCompleteClosedPnl(c)}

\* sorted(..., key=closed_at) of rows that come ordered by closed_at DESC, id.
ByClose(cs) ==
  LET before(c) == {d \in cs : \/ ClosedAt(d) < ClosedAt(c)
                               \/ ClosedAt(d) = ClosedAt(c) /\ d < c}
  IN  [i \in 1 .. Cardinality(cs) |-> CHOOSE c \in cs : Cardinality(before(c)) = i - 1]

\* One campaign of the drawdown loop.
Drawdown(state, net) ==
  LET running == state.running + net
      peak    == Max({state.peak, running})
  IN  [running |-> running, peak |-> peak, worst |-> Min({state.worst, running - peak})]

MaxDrawdown(cs) ==
  LET order   == ByClose(cs)
      fold[i \in 0 .. Len(order)] ==
        IF i = 0 THEN [running |-> 0, peak |-> 0, worst |-> 0]
                 ELSE Drawdown(fold[i - 1], NetOf(order[i]))
  IN  fold[Len(order)].worst

\* _performance_values over the facts of campaigns cs.
PerformanceValues(cs, from, to) ==
  LET e == Eligible(cs, from, to)
      candidates == {c \in cs : ClosedAt(c) = Open \/ (ClosedAt(c) >= from /\ ClosedAt(c) < to)}
  IN  [trades |-> Cardinality(e),
       fills |-> MapThenSumSet(LAMBDA c : Cardinality(Of(c)), e),
       wins |-> Cardinality({c \in e : NetOf(c) > 0}),
       losses |-> Cardinality({c \in e : NetOf(c) < 0}),
       net |-> MapThenSumSet(NetOf, e),
       drawdown |-> MaxDrawdown(e),
       excluded |-> Cardinality(candidates \ e)]

\* get_performance
Performance(from, to, symbol) == PerformanceValues(Selected(from, to, symbol), from, to)

\* list_performance_campaign_dimensions by "symbol" or by "side": one value's campaigns.
Dimension(group, value, from, to, symbol) ==
  {c \in Selected(from, to, symbol) : (IF group = "side" THEN Side(c) ELSE SymbolOf(c)) = value}

\* get_performance_breakdown: one row.
Breakdown(group, value, from, to, symbol) ==
  PerformanceValues(Dimension(group, value, from, to, symbol), from, to)

\* get_campaign_pnl: 404 without fills, 409 when the facts do not allow a PnL.
CampaignPnl(c) ==
  IF Of(c) = {} THEN [answer |-> "not found"]
  ELSE IF \/ Cardinality({t.symbol : t \in Of(c)}) > 1
          \/ \E t \in Of(c) : ~t.known
          \/ {t.asset : t \in Of(c)} # {"USDT"}
          \/ Cardinality(Bought(c)) > Cardinality(Sold(c))
    THEN [answer |-> "conflict"]
    ELSE [answer |-> "summary", net |-> NetOf(c), closed |-> ClosedAt(c),
          open |-> Cardinality(Sold(c)) # Cardinality(Bought(c))]

\* list_campaigns: one page, latest first, and the total of all pages.
LastFill(c) == Max({t.time : t \in Of(c)})

PageKey(c) == IF ClosedAt(c) # Open THEN ClosedAt(c) ELSE LastFill(c)

Listed(from, to, dated) ==
  {c \in Selected(from, to, "any") : dated => ClosedAt(c) >= from /\ ClosedAt(c) < to}

Page(from, to, dated, limit, offset) ==
  LET cs == Listed(from, to, dated)
      rank(c) == Cardinality({d \in cs : \/ PageKey(d) > PageKey(c)
                                         \/ PageKey(d) = PageKey(c) /\ d < c})
  IN  {c \in cs : rank(c) >= offset /\ rank(c) < offset + limit}

-----------------------------------------------------------------------------
(* Properties.                                                              *)

Bounds == {d * DayLength : d \in 0 .. Days}

Filters == {"any", "A"}

\* Splitting a period loses and doubles nothing: the performance of a window
\* is the sum of its parts, of its days and of its breakdown rows, although
\* each query selects campaigns by their fills and counts them by their close.
PeriodsAddUp ==
  \A from \in Bounds, mid \in Bounds, to \in Bounds, s \in Filters :
    from < mid /\ mid < to =>
      LET whole == Performance(from, to, s)
          a == Performance(from, mid, s)
          b == Performance(mid, to, s)
      IN  /\ whole.trades = a.trades + b.trades
          /\ whole.fills = a.fills + b.fills
          /\ whole.net = a.net + b.net
          /\ whole.net = MapThenSumSet(LAMBDA d : DailyPnl(d, from, to, s).net, 0 .. Days - 1)
          /\ whole.net = Breakdown("side", "SHORT", from, to, s).net
                           + Breakdown("side", "LONG", from, to, s).net
          /\ whole.excluded = MapThenSumSet(LAMBDA v : Breakdown("symbol", v, from, to, s).excluded,
                                            {"A", "S"})

\* The performance pages count a campaign only if its own page shows the same
\* PnL as a closed one ("the same invariants as get_campaign_pnl hold").
CountedIsShown ==
  \A c \in Campaigns : HasCompleteClosedPnl(c) =>
    CampaignPnl(c) = [answer |-> "summary", net |-> NetOf(c), closed |-> ClosedAt(c), open |-> FALSE]

\* The drawdown loop finds the worst fall between any two closes.
DrawdownIsWorstFall ==
  \A from \in Bounds, to \in Bounds : from < to =>
    LET order == ByClose(Eligible(Selected(from, to, "any"), from, to))
        sum(i, j) == MapThenSumSet(LAMBDA k : NetOf(order[k]), i .. j)
        falls == {sum(i, j) : <<i, j>> \in {p \in (DOMAIN order) \X (DOMAIN order) : p[1] <= p[2]}}
    IN  Performance(from, to, "any").drawdown = Min(falls \cup {0})

\* Walking the pages shows every listed campaign exactly once.
PagesCover ==
  \A dated \in BOOLEAN :
    LET listed == Listed(0, Open, dated)
        pages  == [o \in 0 .. Cardinality(Campaigns) |-> Page(0, Open, dated, 1, o)]
    IN  /\ UNION {pages[o] : o \in DOMAIN pages} = listed
        /\ \A o \in DOMAIN pages : Cardinality(pages[o]) <= 1

ReportsAreConsistent == PeriodsAddUp /\ CountedIsShown /\ DrawdownIsWorstFall /\ PagesCover

=============================================================================
