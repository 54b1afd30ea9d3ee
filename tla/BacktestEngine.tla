--------------------------- MODULE BacktestEngine ---------------------------
(***************************************************************************)
(* The event-driven backtest of one symbol: backtest/engine.py matches     *)
(* resting orders against one-second bars, keeps the position, calls the   *)
(* strategy and takes its orders through backtest/executor.py, and         *)
(* backtest/result.py reports what came of it.                             *)
(*                                                                         *)
(* The strategy is any strategy: it cancels what it likes when it is told  *)
(* of a fill and when it sees a bar, and asks for any of the given orders. *)
(* Fees are left out: they are added up beside the prices and decide       *)
(* nothing.                                                                *)
(***************************************************************************)
EXTENDS Integers, Sequences, FiniteSets, SequencesExt

CONSTANTS
    Intents,        \* what the strategy may ask for: a set of OrderIntents, by "id"
    Bars,           \* one-second bars the archive may hold
    Klines,         \* longer candles, seen between two bars
    TradingStart,   \* trading_start_ms: earlier events only warm the strategy up
    FillParts,      \* limit_fill_fraction_per_bar is 1 / FillParts
    Slippage,       \* market_slippage_bps, in hundredths of the price
    MaxTime,        \* bound: how many bars there are
    MaxAsked        \* bound: how many orders the strategy asks for at an event

VARIABLES
    now,            \* virtual_time_ms, in seconds
    event,          \* the event being processed
    last,           \* last_prices of the symbol
    pc,             \* where process_event is
    scan,           \* orders of the snapshot _check_fills has still to look at
    todo,           \* intents of the strategy still to be placed
    orders,         \* every order so far, by client_order_id
    active,         \* the index of orders that can fill, in its order
    pos,            \* the open position: a sequence of at most one
    closed,         \* position_records
    fills           \* fill_records

vars == <<now, event, last, pc, scan, todo, orders, active, pos, closed, fills>>

Ids    == {i.id : i \in Intents}
Live   == {"NEW", "PARTIALLY_FILLED"}
Prices == {i.price : i \in Intents}
            \union UNION {{b.open, b.high, b.low, b.close} : b \in Bars \union Klines}

ConstantsOK ==
    /\ \A i, j \in Intents : i.id = j.id => i = j
    /\ \A i \in Intents : i.qty % FillParts = 0 \/ i.type = "MARKET"
    /\ \A p \in Prices : (p * Slippage) % 100 = 0
    /\ {FillParts, MaxTime, MaxAsked} \subseteq Nat \ {0}

Init ==
    /\ now = 0 /\ last = 0 /\ pc = "idle"
    /\ event \in Bars
    /\ scan = <<>> /\ todo = <<>> /\ orders = <<>> /\ active = <<>>
    /\ pos = <<>> /\ closed = <<>> /\ fills = <<>>

-----------------------------------------------------------------------------
(* Average prices, as fractions: the program's Decimals round at 28 digits *)

Frac(a, b)  == [n |-> a, d |-> b]
Equal(x, y) == x.n * y.d = y.n * x.d

\* The same fraction with the smallest denominator.
Lowest(x) ==
    LET Divides(k) == x.n % k = 0 /\ x.d % k = 0
        g == CHOOSE k \in 1 .. x.d : Divides(k) /\ \A j \in k + 1 .. x.d : ~Divides(j)
    IN  Frac(x.n \div g, x.d \div g)

Plus(x, y)  == Lowest(Frac(x.n * y.d + y.n * x.d, x.d * y.d))
Times(k, x) == Lowest(Frac(k * x.n, x.d))

-----------------------------------------------------------------------------
(* Orders *)

\* The side that closes the position p.
ClosingSide(p) == IF p.side = "SHORT" THEN "BUY" ELSE "SELL"

Sign(side) == IF side \in {"SELL", "SHORT"} THEN -1 ELSE 1

Remaining(o) == o.qty - o.filled

\* The order ends in the given status and leaves the index.
Ended(o, status) == [orders EXCEPT ![o.id].status = status]
Without(ids)     == SelectSeq(active, LAMBDA c : c \notin ids)

\* Mutant: the index keeps an order that is cancelled
CancelAll_indexed(ids) ==
    /\ orders' = [c \in DOMAIN orders |->
                    IF c \in ids THEN [orders[c] EXCEPT !.status = "CANCELLED"] ELSE orders[c]]
    /\ active' = active

\* cancel_order of each of them: what can no longer fill stays as it is.
CancelAll(ids) ==
    /\ orders' = [c \in DOMAIN orders |->
                    IF c \in ids THEN [orders[c] EXCEPT !.status = "CANCELLED"] ELSE orders[c]]
    /\ active' = Without(ids)

\* What reduce-only orders that rest may still close.
ReservedExits ==
    FoldSeq(LAMBDA c, sum : IF orders[c].reduce THEN sum + Remaining(orders[c]) ELSE sum,
            0, active)

\* _validate_reduce_only
ReduceAccepted(i) ==
    /\ pos # <<>>
    /\ i.side = ClosingSide(pos[1])
    /\ i.qty <= pos[1].qty - ReservedExits

-----------------------------------------------------------------------------
(* Fills *)

\* The price of a fill: a sale never below the open of the bar, a market order
\* worse by the slippage.
FillPrice(o) ==
    LET base == IF o.side = "SELL" /\ event.open > o.price THEN event.open ELSE o.price
    IN  IF o.type = "MARKET" THEN base + Sign(o.side) * ((base * Slippage) \div 100) ELSE base

\* What a bar may fill of the order, before the position is looked at.
Offered(o) ==
    IF o.type = "LIMIT" /\ o.qty \div FillParts < Remaining(o)
    THEN o.qty \div FillParts ELSE Remaining(o)

Closes(o) == pos # <<>> /\ o.side = ClosingSide(pos[1])

\* A reduce-only order with nothing to reduce expires instead.
NothingToReduce(o) == o.reduce /\ ~Closes(o)

\* An order that is not reduce-only may not turn the position around: the run
\* stops with an error.
WouldReverse(o) == ~o.reduce /\ Closes(o) /\ Offered(o) > pos[1].qty

FillQty(o) == IF o.reduce /\ Offered(o) > pos[1].qty THEN pos[1].qty ELSE Offered(o)

\* The average price after a fill in the direction of the position.
Averaged(p, qty, price) ==
    Lowest(Frac(p.qty * p.entry.n + qty * price * p.entry.d, (p.qty + qty) * p.entry.d))

\* What closing so much of the position at the price earns.
Earned(p, qty, price) ==
    Times(qty * Sign(p.side), Plus(Frac(price, 1), Times(-1, p.entry)))

\* _update_position
UpdatePosition(side, qty, price) ==
    IF pos = <<>>
    THEN /\ pos' = << [side |-> IF side = "SELL" THEN "SHORT" ELSE "LONG", qty |-> qty,
                       entry |-> Frac(price, 1), realized |-> Frac(0, 1), opened |-> now] >>
         /\ UNCHANGED closed
    ELSE LET p == pos[1]
             c == [p EXCEPT !.qty = @ - qty, !.realized = Plus(@, Earned(p, qty, price))]
         IN  IF side # ClosingSide(p)
             THEN /\ pos' = << [p EXCEPT !.qty = @ + qty, !.entry = Averaged(p, qty, price)] >>
                  /\ UNCHANGED closed
             ELSE IF c.qty > 0 THEN pos' = <<c>> /\ UNCHANGED closed
             ELSE /\ pos' = <<>>
                  /\ closed' = Append(closed, [pos |-> c, closed |-> now])

\* _execute_fill: from is where process_event goes on when nothing was filled,
\* told when the strategy is to be told of the fill.
ExecuteFill(o, from, told) ==
    IF NothingToReduce(o)
    THEN /\ orders' = Ended(o, "EXPIRED") /\ active' = Without({o.id}) /\ pc' = from
         /\ UNCHANGED <<pos, closed, fills>>
    ELSE IF WouldReverse(o)
    THEN /\ pc' = "failed"
         /\ UNCHANGED <<orders, active, pos, closed, fills>>
    ELSE LET qty   == FillQty(o)
             whole == o.filled + qty = o.qty
             clip  == qty < Offered(o)
         IN  /\ orders' = [orders EXCEPT ![o.id] = [o EXCEPT
                             !.filled = @ + qty,
                             !.status = IF clip THEN "EXPIRED"
                                        ELSE IF whole THEN "FILLED" ELSE "PARTIALLY_FILLED"]]
             /\ active' = IF clip \/ whole THEN Without({o.id}) ELSE active
             /\ fills' = Append(fills, [id |-> o.id, side |-> o.side, price |-> FillPrice(o),
                                        qty |-> qty, time |-> now])
             /\ UpdatePosition(o.side, qty, FillPrice(o))
             /\ pc' = told

-----------------------------------------------------------------------------
(* process_event *)

\* A one-second bar: its prices are taken over and the resting orders are
\* looked at one by one.
NextBar ==
    /\ pc = "idle" /\ now < MaxTime
    /\ event' \in Bars
    /\ now' = now + 1 /\ last' = event'.close /\ scan' = active /\ pc' = "match"
    /\ UNCHANGED <<todo, orders, active, pos, closed, fills>>

\* A longer candle, available with the last bar: nothing is matched against it.
NextKline ==
    /\ pc = "idle" /\ now > 0 /\ event \in Bars
    /\ event' \in Klines
    /\ pc' = "match"
    /\ UNCHANGED <<now, last, scan, todo, orders, active, pos, closed, fills>>

Triggered(o) ==
    \/ o.side = "SELL" /\ event.high > o.price
    \/ o.side = "BUY" /\ event.low < o.price

Lapsed(o) == o.ttl > 0 /\ now >= o.created + o.ttl

\* _check_fills for one order of the snapshot: one that a callback has removed
\* meanwhile is passed over, the TTL is looked at before the price.
MatchOrder ==
    /\ pc = "match" /\ scan # <<>>
    /\ scan' = Tail(scan)
    /\ LET o == orders[Head(scan)]
       IN  IF o.status \notin Live \/ (~Lapsed(o) /\ ~Triggered(o))
           THEN UNCHANGED <<pc, orders, active, pos, closed, fills>>
           ELSE IF Lapsed(o)
           THEN /\ orders' = Ended(o, "EXPIRED") /\ active' = Without({o.id})
                /\ UNCHANGED <<pc, pos, closed, fills>>
           ELSE ExecuteFill(o, "match", "match filled")
    /\ UNCHANGED <<now, event, last, todo>>

\* The strategy's on_fill.
OnFill ==
    /\ pc \in {"match filled", "place filled"}
    /\ \E ids \in SUBSET ToSet(active) : CancelAll(ids)
    /\ pc' = IF pc = "match filled" THEN "match" ELSE "place"
    /\ UNCHANGED <<now, event, last, scan, todo, pos, closed, fills>>

\* The strategy's on_bar1s or on_kline; its orders count only once trading has
\* started.
Strategy ==
    /\ pc = "match" /\ scan = <<>>
    /\ \E ids \in SUBSET ToSet(active) : CancelAll(ids)
    /\ \E n \in 0 .. MaxAsked : \E asked \in [1 .. n -> Intents] :
         todo' = IF now >= TradingStart THEN asked ELSE <<>>
    /\ pc' = "place"
    /\ UNCHANGED <<now, event, last, scan, pos, closed, fills>>

NewOrder(i) ==
    [id |-> i.id, side |-> i.side, type |-> i.type, price |-> i.price, qty |-> i.qty,
     reduce |-> i.reduce, ttl |-> i.ttl, filled |-> 0, status |-> "NEW", created |-> now]

\* place_order: an id that is known returns the known order, a reduce-only
\* order the position does not cover stops the run, ...
Place ==
    /\ pc = "place" /\ todo # <<>>
    /\ todo' = Tail(todo)
    /\ LET i == Head(todo)
           o == NewOrder(i)
       IN  IF i.id \in DOMAIN orders
           THEN UNCHANGED <<pc, orders, active, pos, closed, fills>>
           ELSE IF i.reduce /\ ~ReduceAccepted(i)
           THEN pc' = "failed" /\ UNCHANGED <<orders, active, pos, closed, fills>>
           ELSE /\ orders' = [c \in DOMAIN orders \union {o.id} |->
                                IF c = o.id THEN o ELSE orders[c]]
                /\ active' = Append(active, o.id)
                /\ pc' = IF o.type = "MARKET" THEN "market" ELSE pc
                /\ UNCHANGED <<pos, closed, fills>>
    /\ UNCHANGED <<now, event, last, scan>>

\* ... and a market order is filled at once.
FillMarket ==
    /\ pc = "market"
    /\ ExecuteFill(orders[Last(active)], "place", "place filled")
    /\ UNCHANGED <<now, event, last, scan, todo>>

Done ==
    /\ pc = "place" /\ todo = <<>>
    /\ pc' = "idle"
    /\ UNCHANGED <<now, event, last, scan, todo, orders, active, pos, closed, fills>>

\* The stream has ended: finish() writes the result, with open positions as they
\* are.
Finish ==
    /\ pc = "idle" /\ now > 0
    /\ pc' = "finished"
    /\ UNCHANGED <<now, event, last, scan, todo, orders, active, pos, closed, fills>>

Next ==
    \/ NextBar \/ NextKline
    \/ MatchOrder \/ OnFill
    \/ Strategy \/ Place \/ FillMarket \/ Done
    \/ Finish

Spec == Init /\ [][Next]_vars

-----------------------------------------------------------------------------
(* The result *)

\* Of the fills that _build_trades counts for a position, the ones of a side and
\* kind: a trade's fills are found by their time.
TradeFills(c, side, reduce) ==
    SelectSeq(fills, LAMBDA f : /\ c.pos.opened <= f.time /\ f.time <= c.closed
                                /\ f.side = side /\ orders[f.id].reduce = reduce)

Quantity(s) == FoldSeq(LAMBDA f, sum : sum + f.qty, 0, s)

Notional(s) == FoldSeq(LAMBDA f, sum : sum + f.qty * f.price, 0, s)

EntrySide(p) == IF p.side = "SHORT" THEN "SELL" ELSE "BUY"

\* The row of the trade table for a position; the one still open has taken part in
\* all that was filled since.
TradeRow(c, open) ==
    LET entries == TradeFills(c, EntrySide(c.pos), FALSE)
        exits   == TradeFills(c, ClosingSide(c.pos), TRUE)
    IN  [entryTime |-> IF entries = <<>> THEN c.pos.opened ELSE Head(entries).time,
         exitTime |-> IF exits # <<>> THEN Last(exits).time ELSE IF open THEN 0 ELSE c.closed,
         entered |-> Quantity(entries), exited |-> Quantity(exits),
         paid |-> Notional(entries), received |-> Notional(exits),
         gross |-> IF open THEN Earned(c.pos, c.pos.qty, last) ELSE c.pos.realized]

\* total_realized and total_unrealized of _analyze_pnl
TotalRealized ==
    FoldSeq(LAMBDA c, sum : Plus(sum, c.pos.realized),
            IF pos = <<>> THEN Frac(0, 1) ELSE pos[1].realized, closed)
TotalUnrealized ==
    IF pos = <<>> THEN Frac(0, 1) ELSE Earned(pos[1], pos[1].qty, last)

-----------------------------------------------------------------------------
(* Properties *)

TypeOK ==
    /\ now \in 0 .. MaxTime
    /\ event \in Bars \union Klines
    /\ pc \in {"idle", "match", "match filled", "place", "market", "place filled",
               "failed", "finished"}
    /\ DOMAIN orders \subseteq Ids
    /\ \A c \in DOMAIN orders :
         /\ orders[c].id = c
         /\ orders[c].filled \in 0 .. orders[c].qty
         /\ orders[c].status \in Live \union {"FILLED", "CANCELLED", "EXPIRED"}
         /\ orders[c].status = "FILLED" <=> orders[c].filled = orders[c].qty
    /\ ToSet(active) \union ToSet(scan) \subseteq DOMAIN orders
    /\ \A k \in 1 .. Len(todo) : todo[k] \in Intents
    /\ Len(pos) <= 1 /\ \A k \in 1 .. Len(pos) : pos[k].qty > 0

\* The matching index holds exactly the orders that can still fill, each once:
\* an order that was filled, cancelled by a callback in the middle of a bar, or
\* expired never fills again, and none that can fill is overlooked
\* (_register_active_order, _remove_active_order).
ActiveIndexExact ==
    /\ ToSet(active) = {c \in DOMAIN orders : orders[c].status \in Live}
    /\ IsInjective(active)
    /\ pc \in {"idle", "match"} => \A c \in ToSet(active) : orders[c].type = "LIMIT"

\* Cash flow of the fills, sales positive.
Cash == FoldSeq(LAMBDA f, sum : sum - Sign(f.side) * f.qty * f.price, 0, fills)

\* The books explain the fills: every order's filled quantity is the sum of its
\* fills, the position is the sum of all fills, and what was realized is the cash
\* that came in, corrected by the cost of what is still open, through partial
\* fills, additions and partial closes (_execute_fill, _update_position).
BooksExplainFills ==
    /\ \A c \in DOMAIN orders :
         orders[c].filled = Quantity(SelectSeq(fills, LAMBDA f : f.id = c))
    /\ LET net == FoldSeq(LAMBDA f, sum : sum + Sign(f.side) * f.qty, 0, fills)
           own == IF pos = <<>> THEN 0 ELSE Sign(pos[1].side) * pos[1].qty
           cost == IF pos = <<>> THEN Frac(0, 1) ELSE Times(own, pos[1].entry)
       IN  net = own /\ Equal(TotalRealized, Plus(Frac(Cash, 1), cost))

\* A limit order fills only on bars after the one it was placed at and before
\* its TTL is over, at its price or better, and only after trading has started; a
\* market order fills at the event it was placed at.
FillsInLifetime ==
    \A k \in 1 .. Len(fills) :
        LET f == fills[k]
            o == orders[f.id]
        IN  /\ o.created >= TradingStart
            /\ IF o.type = "MARKET" THEN f.time = o.created
               ELSE /\ f.time > o.created /\ (o.ttl > 0 => f.time < o.created + o.ttl)
                    /\ Sign(o.side) * (o.price - f.price) >= 0

\* A reduce-only order only ever makes the position smaller, and no fill turns a
\* position around (_execute_fill).
ReduceOnlyReduces ==
    [][Len(fills') > Len(fills) =>
         LET f == Last(fills')
         IN  /\ orders[f.id].reduce =>
                  pos # <<>> /\ f.side = ClosingSide(pos[1]) /\ f.qty <= pos[1].qty
             /\ pos # <<>> /\ pos' # <<>> => pos'[1].side = pos[1].side]_vars

\* The position was closed by reduce-only orders, and no other one begins or ends
\* at the second at which it ends or begins.
Separate(c) ==
    /\ TradeFills(c, ClosingSide(c.pos), FALSE) = <<>>
    /\ \A e \in ToSet(closed) : e.pos.opened # c.closed /\ e.closed # c.pos.opened
    /\ \A p \in ToSet(pos) : p.opened # c.closed

\* The profit the report gives is what the fills paid and what the open position
\* is worth at the last price (_analyze_pnl).  A closed trade that is separate from
\* its neighbours lists as much closed as opened, from the second the position
\* began to the second it ended, and its profit is that of the fills it lists; an
\* open one lists the fills that make up the position (_build_trades).
ReportIsExplained ==
    pc = "finished" =>
        /\ Equal(Plus(TotalRealized, TotalUnrealized),
                 Frac(Cash + (IF pos = <<>> THEN 0 ELSE Sign(pos[1].side) * pos[1].qty * last), 1))
        /\ \A c \in ToSet(closed) : Separate(c) =>
             LET t == TradeRow(c, FALSE)
             IN  /\ t.entered > 0 /\ t.entered = t.exited
                 /\ t.entryTime = c.pos.opened /\ t.exitTime = c.closed
                 /\ Equal(t.gross, Frac(Sign(c.pos.side) * (t.received - t.paid), 1))
        /\ \A p \in ToSet(pos) :
             LET c == [pos |-> p, closed |-> now]
                 t == TradeRow(c, TRUE)
             IN  /\ TradeFills(c, ClosingSide(p), FALSE) = <<>>
                 /\ \A e \in ToSet(closed) : e.closed # p.opened
                 => t.entryTime = p.opened /\ t.entered - t.exited = p.qty
=============================================================================
