----------------------------- MODULE ResearchViews -----------------------------
(***************************************************************************)
(* What the research API shows of the trades and orders of an imported     *)
(* research (ledger/db/backtest_repository.py).  The rows come from runs   *)
(* of a backtest of one symbol that opens shorts: orders with or without a *)
(* campaign, fills, and the trades BacktestResult makes of its positions   *)
(* (backtest/result.py).  Times are the virtual times of the engine; 0 is  *)
(* the null.  A campaign is the time of its signal, as in its id.          *)
(***************************************************************************)
EXTENDS Integers, FiniteSets, FiniteSetsExt

CONSTANTS
  Runs,         \* run ids, numbers: the SQL orders by them
  ParamsOf,     \* ParamsOf[r]: the parameters of run r
  Campaigns,    \* TRUE when entries carry the campaign of their signal
  ExitCampaign, \* TRUE when exits carry it too
  MaxTime,      \* bound: virtual time
  MaxOrders     \* bound: orders of a run

VARIABLES
  now,
  orders,       \* rows of backtest_orders with their fills
  pos,          \* pos[r]: the open position of run r
  closed        \* trades of the closed positions

vars == <<now, orders, pos, closed>>

Null == 0

Flat == [open |-> FALSE, camp |-> Null, entry |-> Null]

Init ==
  /\ now = 1
  /\ orders = {}
  /\ pos = [r \in Runs |-> Flat]
  /\ closed = {}

-----------------------------------------------------------------------------
(* A run.                                                                   *)

Tick == now < MaxTime /\ now' = now + 1 /\ UNCHANGED <<orders, pos, closed>>

OrdersOf(r) == {o \in orders : o.run = r}

NewOrder(r, camp, reduce, limit) ==
  [run |-> r, camp |-> camp, reduce |-> reduce, limit |-> limit, created |-> now,
   filled |-> Null, live |-> TRUE]

Ended(r) == {t.camp : t \in {u \in closed : u.run = r}}

Exiting(r) == \E o \in OrdersOf(r) : o.live /\ o.reduce

\* An entry of a signal of now or of an earlier one; one campaign at a time.
\* Tiers made at the same time look the same to the views and are one here.
Enter(r, camp, limit) ==
  /\ Cardinality(OrdersOf(r)) < MaxOrders
  /\ camp \in (IF Campaigns THEN 1 .. now ELSE {Null})
  /\ Campaigns => camp \notin Ended(r) /\ ~Exiting(r)
  /\ pos[r].open => camp = pos[r].camp
  /\ ~\E o \in OrdersOf(r) : o.created = now /\ ~o.reduce /\ o.limit = limit
  /\ orders' = orders \cup {NewOrder(r, camp, FALSE, limit)}
  /\ UNCHANGED <<now, pos, closed>>

\* The exit takes the campaign's remaining entries with it; entries without a
\* campaign are left alone.
Exit(r) ==
  /\ pos[r].open
  /\ Cardinality(OrdersOf(r)) < MaxOrders
  /\ ~Exiting(r)
  /\ orders' = {IF o.run = r /\ o.camp # Null /\ o.camp = pos[r].camp
                  THEN [o EXCEPT !.live = FALSE] ELSE o : o \in orders}
               \cup {NewOrder(r, IF ExitCampaign THEN pos[r].camp ELSE Null, TRUE, FALSE)}
  /\ UNCHANGED <<now, pos, closed>>

Filled(o) == (orders \ {o}) \cup {[o EXCEPT !.live = FALSE, !.filled = now]}

\* An order is filled at a later time than it was made.
FillEntry(o) ==
  /\ o.live /\ ~o.reduce /\ o.created < now
  /\ pos[o.run].open => pos[o.run].camp = o.camp
  /\ pos' = [pos EXCEPT ![o.run] = IF @.open THEN @
                                   ELSE [open |-> TRUE, camp |-> o.camp, entry |-> now]]
  /\ orders' = Filled(o)
  /\ UNCHANGED <<now, closed>>

\* A row of _build_trades; its signal is read from the campaign's id.
TradeRow(r, exit, pnl) ==
  [run |-> r, camp |-> pos[r].camp, signal |-> pos[r].camp, entry |-> pos[r].entry,
   exit |-> exit, pnl |-> pnl,
   tid |-> IF pos[r].camp # Null THEN <<"campaign", pos[r].camp>> ELSE <<"time", pos[r].entry>>]

FillExit(o, pnl) ==
  /\ o.live /\ o.reduce /\ o.created < now /\ pos[o.run].open
  /\ closed' = closed \cup {TradeRow(o.run, now, pnl)}
  /\ pos' = [pos EXCEPT ![o.run] = Flat]
  /\ orders' = Filled(o)
  /\ UNCHANGED now

Next ==
  \/ Tick
  \/ \E r \in Runs, limit \in BOOLEAN, camp \in 0 .. MaxTime : Enter(r, camp, limit)
  \/ \E r \in Runs : Exit(r)
  \/ \E o \in orders : FillEntry(o) \/ \E pnl \in {-1, 1} : FillExit(o, pnl)

Spec == Init /\ [][Next]_vars

-----------------------------------------------------------------------------
(* The views; an open position is a trade without an exit.                  *)

Trades == closed \cup {TradeRow(r, Null, 0) : r \in {q \in Runs : pos[q].open}}

\* MAX(exit_time) of the earlier trades of the run, null without one.
PreviousExit(t) == Max({Null} \cup {u.exit : u \in {v \in Trades : v.run = t.run /\ v.entry < t.entry}})

\* DISTINCT ON (symbol, trade_id) ... ORDER BY symbol, trade_id, run_id
UniqueTrades == {t \in Trades : ~\E u \in Trades : u.tid = t.tid /\ u.run < t.run}

LegacyStart(t) ==
  Max({t.signal, PreviousExit(t), IF t.camp # Null THEN t.entry ELSE Null})

\* Mutant: both ends of a trade's time belong to it.
Within_closed(t, o, start) ==
  (start = Null \/ o.created >= start) /\ (t.exit = Null \/ o.created <= t.exit)

\* An order without a campaign at the border of two trades: an exit belongs to
\* the trade that ends, an entry to the one that begins.
Within(t, o, start) ==
  /\ \/ start = Null \/ o.created > start
     \/ o.created = start /\ t.camp = Null /\ ~o.reduce
  /\ \/ t.exit = Null \/ o.created < t.exit
     \/ o.created = t.exit /\ o.reduce

\* The orders get_trade shows with a trade.
Shown(t) ==
  {o \in OrdersOf(t.run) :
     \/ o.camp # Null /\ o.camp = t.camp
     \/ o.camp = Null /\ (o.reduce \/ t.camp = Null) /\ Within(t, o, LegacyStart(t))}

\* limit_entry_orders of list_symbols.
LimitEntryOrders(t) ==
  LET start == Max({t.signal, PreviousExit(t)})
  IN  {o \in OrdersOf(t.run) :
         /\ o.limit /\ ~o.reduce
         /\ \/ o.camp # Null /\ o.camp = t.camp
            \/ /\ o.camp = Null /\ t.camp = Null
               /\ start = Null \/ o.created >= start
               /\ t.exit = Null \/ o.created < t.exit}

\* limit_order_stats: how many, and how many of them have a fill.
LimitOrderStats ==
  LET os == UNION {LimitEntryOrders(t) : t \in UniqueTrades}
  IN  <<Cardinality(os), Cardinality({o \in os : o.filled # Null})>>

\* list_symbols: trade_count, win_count and net_pnl of the symbol.
SymbolSummary ==
  [trades |-> Cardinality(UniqueTrades),
   wins |-> Cardinality({t \in UniqueTrades : t.pnl > 0}),
   pnl |-> MapThenSumSet(LAMBDA t : t.pnl, UniqueTrades)]

\* list_trades with its filters on unique trades.
Listed(winner, min) == {t \in UniqueTrades : (t.pnl > 0) \in winner /\ t.pnl >= min}

\* ORDER BY net_pnl direction, entry_time DESC, run_id
Before(t, u, asc) ==
  LET key(v) == IF asc THEN v.pnl ELSE -v.pnl
  IN  \/ key(t) < key(u)
      \/ key(t) = key(u) /\ t.entry > u.entry
      \/ key(t) = key(u) /\ t.entry = u.entry /\ t.run < u.run

Page(ts, asc, limit, offset) ==
  {t \in ts : LET rank == Cardinality({u \in ts : Before(u, t, asc)})
              IN  rank >= offset /\ rank < offset + limit}

\* list_replay_parameter_sets and list_replay_trades.
ReplayTrades(params) == {t \in Trades : ParamsOf[t.run] = params}

-----------------------------------------------------------------------------
(* Properties.                                                              *)

ConstantsOK ==
  /\ Runs \subseteq Nat /\ Runs # {} /\ Runs \subseteq DOMAIN ParamsOf
  /\ {Campaigns, ExitCampaign} \subseteq BOOLEAN
  /\ {MaxTime, MaxOrders} \subseteq Nat

\* Orders and trades lie in the time of the run.
TypeOK ==
  /\ now \in 1 .. MaxTime
  /\ \A o \in orders : o.run \in Runs /\ o.camp \in 0 .. MaxTime /\ o.created \in 1 .. now
  /\ \A t \in closed : t.entry < t.exit /\ t.exit <= now

\* An order is shown with one trade of its run at most, an order of a campaign
\* only with that campaign's trade, and the order that closed a trade is shown
\* with it unless it was made at the instant the trade began.
OrdersShownOnce ==
  /\ \A t, u \in Trades : t.run = u.run /\ t # u => Shown(t) \cap Shown(u) = {}
  /\ \A t \in closed : \A o \in OrdersOf(t.run) :
       o.reduce /\ o.filled = t.exit /\ o.created > t.entry => o \in Shown(t)

\* The fill rate of list_symbols is that of the limit entries the trades show.
RateIsOfShown ==
  LET shown == UNION {{o \in Shown(t) : o.limit /\ ~o.reduce} : t \in UniqueTrades}
  IN  LimitOrderStats = <<Cardinality(shown), Cardinality({o \in shown : o.filled # Null})>>

\* The trade list of a symbol has what its summary counts, its filters divide
\* it, its pages cover it without a repetition whatever their size, and the
\* replay sets divide all trades of the research.
ListsAddUp ==
  LET all == Listed(BOOLEAN, -1)
  IN  /\ Cardinality(all) = SymbolSummary.trades
      /\ Cardinality(Listed({TRUE}, -1)) = SymbolSummary.wins
      /\ MapThenSumSet(LAMBDA t : t.pnl, Listed({TRUE}, -1))
           + MapThenSumSet(LAMBDA t : t.pnl, Listed({FALSE}, -1)) = SymbolSummary.pnl
      /\ \A limit \in 1 .. 2, asc \in BOOLEAN, t \in all :
           Cardinality({k \in 0 .. Cardinality(all) : t \in Page(all, asc, limit, k * limit)}) = 1
      /\ MapThenSumSet(LAMBDA p : Cardinality(ReplayTrades(p)), {ParamsOf[r] : r \in Runs})
           = Cardinality(Trades)

\* The views of a research agree with each other.
ViewsAgree == TypeOK /\ OrdersShownOnce /\ RateIsOfShown /\ ListsAddUp
=============================================================================
