------------------------------ MODULE LedgerBooks ------------------------------
(***************************************************************************)
(* The PostgreSQL books of one strategy account: the orders, trades and    *)
(* positions tables (LedgerDB of ledger/db/models.py) and their writers.   *)
(*                                                                         *)
(*   worker  the callback worker of the user stream: an execution report   *)
(*           goes to the WAL first (BinanceLedgerCallbacks) and then to    *)
(*           the database in one transaction; an account update goes to    *)
(*           the positions table;                                          *)
(*   sync    BinanceRecoverThenReconcile: sync_once re-reads the orders    *)
(*           the ledger has not acknowledged, their trades and the         *)
(*           position, then the strict reconciler compares four reads.     *)
(*           It runs after every (re)connect, and for the poller while     *)
(*           the stream is live, interleaved with the worker at every      *)
(*           await.                                                        *)
(*                                                                         *)
(* Orders of one symbol; an order is for Size lots and every fill is one   *)
(* lot, so a trade is <<order, n>>.  Sign gives the side.  The position    *)
(* carries the exchange time of its last change, counted in fills.         *)
(***************************************************************************)
EXTENDS OrderStates, Integers, Sequences, FiniteSets, FiniteSetsExt

CONSTANTS
  Orders,      \* client order ids
  Sign,        \* [Orders -> {-1, 1}]: SELL or BUY
  Size,        \* lots of an order
  MaxBreaks,   \* bound: lost connections and crashes
  MaxSyncs,    \* bound: reconciliations
  PromptCommit \* a report whose WAL row the sync has read commits before the sync's insert

VARIABLES
  exch,   \* the exchange's orders: [status, filled], status "none" before the order
  link,   \* "up", "down", "dead" (process gone)
  stream, \* events received and not yet taken by the worker
  worker, \* Idle or the event between the WAL write and the commit
  wal,    \* latest WAL row of every order (OrderStates)
  rows,   \* orders table: [status, filled] per order
  trades, \* trades table
  pos,    \* positions row: [qty, time]
  sync,   \* the reconciliation in progress
  ready,  \* execution gate: the last reconciliation succeeded
  breaks, \* lost connections and crashes so far
  syncs   \* reconciliations so far

vars == <<exch, link, stream, worker, wal, rows, trades, pos, sync, ready, breaks, syncs>>

None == [status |-> "none", filled |-> 0]

Idle == [kind |-> "idle", order |-> "none", status |-> "none", filled |-> 0, time |-> 0]

Off == [pc |-> "off", by |-> "none", todo |-> {}, at |-> "none", answer |-> None, found |-> << >>,
        booked |-> {}, snap |-> [qty |-> 0, time |-> 0], open |-> {}, seen |-> {}]

Init ==
  /\ exch = [o \in Orders |-> None] /\ link = "dead" /\ stream = << >> /\ worker = Idle
  /\ wal = [o \in Orders |-> NoRow] /\ rows = [o \in Orders |-> None]
  /\ trades = {} /\ pos = [qty |-> 0, time |-> 0]
  /\ sync = Off /\ ready = FALSE /\ breaks = 0 /\ syncs = 0

\* The exchange's position and the time of its last change.
ExchangeQty == MapThenSumSet(LAMBDA o : Sign[o] * exch[o].filled, Orders)

ExchangeTime == MapThenSumSet(LAMBDA o : exch[o].filled, Orders)

Live(s) == s \in {"NEW", "PARTIALLY_FILLED"}

FillsOf(os) == {<<o, n>> \in os \X (1 .. Size) : n <= exch[o].filled}

-----------------------------------------------------------------------------
(* The exchange and the connection.                                         *)

\* parse_execution_report: what the ledger takes from an ORDER_TRADE_UPDATE.
Report(o, s, n) == [kind |-> "report", order |-> o, status |-> s, filled |-> n, time |-> 0]

\* parse_account_update: ... and from an ACCOUNT_UPDATE, with its transaction time.
AccountUpdate(qty, time) ==
  [kind |-> "account", order |-> "none", status |-> "none", filled |-> qty, time |-> time]

Emit(events) == stream' = IF link = "up" THEN stream \o events ELSE stream

\* The strategy places an order: intent, POST and acceptance (OrderExecution).
Place(o) ==
  /\ ready /\ exch[o] = None
  /\ exch' = [exch EXCEPT ![o].status = "NEW"]
  /\ wal' = [wal EXCEPT ![o] = ExchangeRow("NEW")]
  /\ Emit(<<Report(o, "NEW", 0)>>)
  /\ UNCHANGED <<link, worker, rows, trades, pos, sync, ready, breaks, syncs>>

\* One lot trades: an ACCOUNT_UPDATE and an ORDER_TRADE_UPDATE.
Fill(o) ==
  /\ Live(exch[o].status)
  /\ LET n == exch[o].filled + 1
         s == IF n = Size THEN "FILLED" ELSE "PARTIALLY_FILLED"
     IN  /\ exch' = [exch EXCEPT ![o] = [status |-> s, filled |-> n]]
         /\ Emit(<<AccountUpdate(ExchangeQty + Sign[o], ExchangeTime + 1), Report(o, s, n)>>)
  /\ UNCHANGED <<link, worker, wal, rows, trades, pos, sync, ready, breaks, syncs>>

CancelOrder(o) ==
  /\ Live(exch[o].status)
  /\ exch' = [exch EXCEPT ![o].status = "CANCELLED"]
  /\ Emit(<<Report(o, "CANCELLED", exch[o].filled)>>)
  /\ UNCHANGED <<link, worker, wal, rows, trades, pos, sync, ready, breaks, syncs>>

\* The socket closes: what it had not delivered is lost, what it had stays queued.
Disconnect ==
  /\ link = "up" /\ breaks < MaxBreaks
  /\ link' = "down" /\ breaks' = breaks + 1 /\ sync' = Off /\ ready' = FALSE
  /\ UNCHANGED <<exch, stream, worker, wal, rows, trades, pos, syncs>>

Die ==
  /\ link' = "dead" /\ stream' = << >> /\ worker' = Idle /\ sync' = Off /\ ready' = FALSE

Crash ==
  /\ link # "dead" /\ breaks < MaxBreaks
  /\ Die /\ breaks' = breaks + 1
  /\ UNCHANGED <<exch, wal, rows, trades, pos, syncs>>

-----------------------------------------------------------------------------
(* The callback worker.                                                     *)

\* handle_order_trade_update, then parse_execution_report: a report the WAL
\* refuses is a callback failure and ends the process.
TakeReport ==
  /\ worker = Idle /\ stream # << >> /\ Head(stream).kind = "report"
  /\ LET e == Head(stream)
     IN  IF IsValidTransition(wal[e.order].status, e.status)
           THEN /\ wal' = [wal EXCEPT ![e.order] = ExchangeRow(e.status)]
                /\ worker' = e /\ stream' = Tail(stream)
                /\ UNCHANGED <<link, sync, ready>>
           ELSE Die /\ UNCHANGED wal
  /\ UNCHANGED <<exch, rows, trades, pos, breaks, syncs>>

\* _ORDER_UPSERT: the row becomes what the writer holds, whatever it was.
Upserted(row, status, filled) == [row EXCEPT !.status = status, !.filled = filled]

InsertOrder(o, status, filled) == rows' = [rows EXCEPT ![o] = Upserted(@, status, filled)]

\* _insert_trade: a fill that is there already is the same fact.
InsertTrade(t) == trades' = trades \cup {t}

\* apply_execution_report: order row and trade in one transaction.
CommitReport ==
  /\ worker.kind = "report"
  /\ InsertOrder(worker.order, worker.status, worker.filled)
  /\ IF worker.status \in {"PARTIALLY_FILLED", "FILLED"}
       THEN InsertTrade(<<worker.order, worker.filled>>) ELSE UNCHANGED trades
  /\ worker' = Idle
  /\ UNCHANGED <<exch, link, stream, wal, pos, sync, ready, breaks, syncs>>

TakeAccountUpdate ==
  /\ worker = Idle /\ stream # << >> /\ Head(stream).kind = "account"
  /\ worker' = Head(stream) /\ stream' = Tail(stream)
  /\ UNCHANGED <<exch, link, wal, rows, trades, pos, sync, ready, breaks, syncs>>

\* _ACCOUNT_POSITION_UPSERT keeps a newer row.
Newer(stored, update) == IF stored.time <= update.time THEN update ELSE stored

\* apply_account_update
CommitAccountUpdate ==
  /\ worker.kind = "account"
  /\ pos' = Newer(pos, [qty |-> worker.filled, time |-> worker.time])
  /\ worker' = Idle
  /\ UNCHANGED <<exch, link, stream, wal, rows, trades, sync, ready, breaks, syncs>>

-----------------------------------------------------------------------------
(* BinanceStartupSynchronizer.sync_once.                                    *)

\* Records of live orders, and of finished ones without a ledger acknowledgement.
Unacknowledged ==
  {o \in Orders : wal[o] # NoRow /\ (Live(wal[o].status) \/ wal[o].mark # "acked")}

StartSync(by) ==
  /\ sync' = [Off EXCEPT !.pc = "scan", !.by = by, !.todo = Unacknowledged]
  /\ syncs' = syncs + 1

\* Startup, or the reconnect task: the new socket is open before the sync.
Connect ==
  /\ link # "up" /\ syncs < MaxSyncs
  /\ link' = "up" /\ StartSync("connect")
  /\ UNCHANGED <<exch, stream, worker, wal, rows, trades, pos, ready, breaks>>

\* The poller has resolved an unknown order: the same sync on the live stream,
\* repeated when it fails.
PollerSync ==
  /\ link = "up" /\ sync = Off /\ syncs < MaxSyncs
  /\ ready' = FALSE /\ StartSync("poller")
  /\ UNCHANGED <<exch, link, stream, worker, wal, rows, trades, pos, breaks>>

\* A failed reconciliation ends the new connection, or the poller tries again.
FailSync == sync' = Off /\ link' = IF sync.by = "poller" THEN link ELSE "down"

Step(from, to) == sync.pc = from /\ sync' = [sync EXCEPT !.pc = to]

\* parse_query_order: the order as the exchange has it now.
QueryOrder(o) == exch[o]

\* query_order
SyncQuery ==
  /\ sync.pc = "scan"
  /\ \E o \in sync.todo :
       sync' = [sync EXCEPT !.pc = "merge", !.at = o, !.answer = QueryOrder(o)]
  /\ UNCHANGED <<exch, link, stream, worker, wal, rows, trades, pos, ready, breaks, syncs>>

\* reconcile_order_response: the answer goes to the WAL, or contradicts it.
SyncMerge ==
  /\ sync.pc = "merge"
  /\ IF IsValidTransition(wal[sync.at].status, sync.answer.status)
       THEN /\ wal' = [wal EXCEPT ![sync.at] =
                         [ExchangeRow(sync.answer.status) EXCEPT !.mark = "synced"]]
            /\ Step("merge", "insert") /\ UNCHANGED link
       ELSE FailSync /\ UNCHANGED wal
  /\ UNCHANGED <<exch, stream, worker, rows, trades, pos, ready, breaks, syncs>>

\* db.insert_order, after an await: the worker may have written meanwhile.
SyncInsert ==
  /\ sync.pc = "insert"
  /\ PromptCommit => ~(worker.order = sync.at /\ wal[sync.at].mark = "synced")
  /\ InsertOrder(sync.at, sync.answer.status, sync.answer.filled)
  /\ sync' = [sync EXCEPT !.pc = "scan", !.todo = @ \ {sync.at}, !.at = "none",
                          !.answer = None,
                          !.found = Append(@, <<sync.at, sync.answer.filled>>)]
  /\ UNCHANGED <<exch, link, stream, worker, wal, trades, pos, ready, breaks, syncs>>

Found == {sync.found[i][1] : i \in DOMAIN sync.found}

\* parse_account_trade, for the trades of recovered orders.
AccountTrades == FillsOf(Found)

\* get_account_trades over the windows since the earliest recovered intent.
SyncTrades ==
  /\ sync.pc = "scan" /\ sync.todo = {}
  /\ sync' = [sync EXCEPT !.pc = "trades", !.seen = AccountTrades]
  /\ UNCHANGED <<exch, link, stream, worker, wal, rows, trades, pos, ready, breaks, syncs>>

\* insert_trade, one transaction per trade, oldest first.
SyncTrade ==
  /\ sync.pc = "trades"
  /\ \E t \in sync.seen \ sync.booked :
       /\ \A u \in sync.seen \ sync.booked : u[1] = t[1] => t[2] <= u[2]
       /\ trades' = trades \cup {t}
       /\ sync' = [sync EXCEPT !.booked = @ \cup {t}]
  /\ UNCHANGED <<exch, link, stream, worker, wal, rows, pos, ready, breaks, syncs>>

TradesMatch ==
  \A i \in DOMAIN sync.found :
    Cardinality({t \in sync.booked : t[1] = sync.found[i][1]}) = sync.found[i][2]

\* parse_position_snapshot
PositionSnapshot == [qty |-> ExchangeQty, time |-> ExchangeTime]

\* Every recovered order is fully covered by trades; then the position is read.
SyncCheck ==
  /\ sync.pc = "trades" /\ sync.seen = sync.booked
  /\ IF TradesMatch
       THEN /\ sync' = [sync EXCEPT !.pc = "position", !.snap = PositionSnapshot]
            /\ UNCHANGED link
       ELSE FailSync
  /\ UNCHANGED <<exch, stream, worker, wal, rows, trades, pos, ready, breaks, syncs>>

\* upsert_position: the snapshot replaces the row without comparing times.
SyncPosition ==
  /\ Step("position", "ack")
  /\ pos' = sync.snap
  /\ UNCHANGED <<exch, link, stream, worker, wal, rows, trades, ready, breaks, syncs>>

\* acknowledge_ledger names the row the sync wrote: a later row is not acknowledged.
SyncAck ==
  /\ Step("ack", "strict")
  /\ wal' = [o \in Orders |->
               IF o \in Found /\ wal[o].mark = "synced" /\ wal[o].status \in Terminal
                 THEN [wal[o] EXCEPT !.mark = "acked"] ELSE wal[o]]
  /\ UNCHANGED <<exch, link, stream, worker, rows, trades, pos, ready, breaks, syncs>>

-----------------------------------------------------------------------------
(* BinanceStartupReconciler.reconcile_once: four reads, one after another.  *)

OpenFacts(table) == {<<o, table[o]>> : o \in {p \in Orders : Live(table[p].status)}}

StrictOrders ==
  /\ sync.pc = "strict"
  /\ sync' = [sync EXCEPT !.pc = "positions", !.open = OpenFacts(exch)]
  /\ UNCHANGED <<exch, link, stream, worker, wal, rows, trades, pos, ready, breaks, syncs>>

StrictPositions ==
  /\ sync.pc = "positions"
  /\ sync' = [sync EXCEPT !.pc = "new", !.snap = PositionSnapshot, !.booked = {}]
  /\ UNCHANGED <<exch, link, stream, worker, wal, rows, trades, pos, ready, breaks, syncs>>

\* _get_open_orders reads the NEW rows first and the PARTIALLY_FILLED rows next.
StrictRows(from, to, status) ==
  /\ sync.pc = from
  /\ sync' = [sync EXCEPT !.pc = to,
                          !.booked = @ \cup {f \in OpenFacts(rows) : f[2].status = status}]
  /\ UNCHANGED <<exch, link, stream, worker, wal, rows, trades, pos, ready, breaks, syncs>>

StrictAgrees == sync.open = sync.booked /\ sync.snap.qty = pos.qty

\* _get_positions and the comparison; success opens the execution gate.
StrictCompare ==
  /\ sync.pc = "compare"
  /\ IF StrictAgrees THEN sync' = Off /\ ready' = TRUE /\ UNCHANGED link
                     ELSE FailSync /\ UNCHANGED ready
  /\ UNCHANGED <<exch, stream, worker, wal, rows, trades, pos, breaks, syncs>>

-----------------------------------------------------------------------------

WorkerNext == TakeReport \/ CommitReport \/ TakeAccountUpdate \/ CommitAccountUpdate

SyncNext ==
  \/ SyncQuery \/ SyncMerge \/ SyncInsert \/ SyncTrades \/ SyncTrade \/ SyncCheck
  \/ SyncPosition \/ SyncAck \/ StrictOrders \/ StrictPositions
  \/ StrictRows("new", "partial", "NEW") \/ StrictRows("partial", "compare", "PARTIALLY_FILLED")
  \/ StrictCompare

Next ==
  \/ \E o \in Orders : Place(o) \/ Fill(o) \/ CancelOrder(o)
  \/ Disconnect \/ Crash \/ WorkerNext \/ Connect \/ PollerSync \/ SyncNext

Spec == Init /\ [][Next]_vars

-----------------------------------------------------------------------------
(* Properties.                                                              *)

Book == [status : ExchangeStatus \cup {"none"}, filled : 0 .. Size]

TypeOK ==
  /\ exch \in [Orders -> Book] /\ rows \in [Orders -> Book]
  /\ wal \in [Orders -> Row] /\ trades \subseteq Orders \X (1 .. Size)
  /\ link \in {"up", "down", "dead"} /\ ready \in BOOLEAN
  /\ pos.time \in 0 .. ExchangeTime

Settled == ready /\ link = "up" /\ stream = << >> /\ worker = Idle /\ sync = Off

\* Once reconciliation has opened the gate and every event is handled, the
\* books are the exchange: each order row, each fill, the position.  Whatever
\* was lost while disconnected, and however the worker's commits interleaved
\* with the sync's unconditional upserts, nothing stale survives.
BooksAgree ==
  Settled =>
    /\ rows = exch
    /\ trades = FillsOf(Orders)
    /\ pos.qty = ExchangeQty

\* A ledger acknowledgement keeps an order out of every later sync, so its row
\* and its fills are final: nothing would ever repair them.
AcknowledgedIsBooked ==
  \A o \in Orders : wal[o].mark = "acked" =>
    /\ rows[o] = exch[o]
    /\ FillsOf({o}) \subseteq trades

\* The trades table never holds a fill the exchange does not have.
BookedIsReal == trades \subseteq FillsOf(Orders)

=============================================================================
