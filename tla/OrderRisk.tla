----------------------------- MODULE OrderRisk -----------------------------
(***************************************************************************)
(* How the process bounds its exposure: the reservations of RiskGuard      *)
(* (shared/risk.py), fed by the executor from the WAL                      *)
(* (_sync_risk_record, _restore_risk_reservation) and by the account       *)
(* projection (BinanceStrategyAccount) from the user stream and from REST  *)
(* position snapshots.                                                     *)
(*                                                                         *)
(* A fill moves two facts, the order and the position, and the exchange    *)
(* reports them in two events.  The guard must cover the exposure whatever *)
(* the order in which events, snapshots, query answers and restarts bring  *)
(* them.  Values are lots at one price.  Submission and doubt resolution   *)
(* are those of OrderExecution with fewer steps; symbol blocking is there. *)
(***************************************************************************)
EXTENDS OrderStates, Integers, Sequences, FiniteSets, FiniteSetsExt

CONSTANTS
  Orders, Symbols, SymbolOf,
  Lots,           \* size of each entry order
  MaxValue,       \* max_position_value_usdt
  MaxSymbols,     \* max_symbols
  AccountFirst,   \* may ACCOUNT_UPDATE overtake ORDER_TRADE_UPDATE: subset of BOOLEAN
  SameMs,         \* may two trades carry the same millisecond
  CancelPartial,  \* may a partially filled order be cancelled
  MaxTime,        \* bound on the exchange clock
  MaxFaults       \* bound on crashes, disconnects and lost requests

ConstantsOK ==
  /\ SymbolOf \in [Orders -> Symbols]
  /\ Lots \in [Orders -> Nat \ {0}]
  /\ MaxValue \in Nat /\ MaxSymbols \in Nat /\ MaxTime \in Nat /\ MaxFaults \in Nat
  /\ AccountFirst \subseteq BOOLEAN /\ SameMs \in BOOLEAN /\ CancelPartial \in BOOLEAN

VARIABLES
  clock,    \* external: exchange time in ms
  ex,       \* external: the order at the exchange
  amt,      \* external: the position at the exchange and its updateTime
  net,      \* external: what became of the POST
  stream,   \* events received or on the wire, in exchange order
  wal,      \* latest row of each order: status and exchange_response
  res,      \* _open_reservations
  pos,      \* RiskGuard.positions
  mark,     \* _position_watermarks, equal to _position_update_ms
  pending,  \* _pending_position_update_ms
  trades,   \* _processed_trade_ids
  mid,      \* the report whose ledger write is awaited
  snap,     \* the REST position snapshot on its way
  todo,     \* orders the running synchronisation has yet to query
  phase, faults

exVars == <<clock, ex, amt, net>>
guardVars == <<res, pos, mark>>
accountVars == <<pending, trades>>
vars == <<exVars, stream, wal, guardVars, accountVars, mid, snap, todo, phase, faults>>

Larger(a, b) == IF a >= b THEN a ELSE b

\* -1 stands for None in times and cumulative quantities.
NoRes == [val |-> 0, st |-> "NONE", filled |-> 0, rep |-> 0, noted |-> 0,
          conf |-> 0, seen |-> FALSE, last |-> -1]

NewRes(v) == [NoRes EXCEPT !.val = v]

\* The latest row of an order with the executed quantity and the time of the
\* response it keeps.
Fact(s, n, t) == [st |-> s, cum |-> n, t |-> t]

NoFact == Fact("NONE", -1, -1)

NoEvent == [k |-> "none"]

NoSnap == [s \in Symbols |-> [lots |-> 0, t |-> -2]]

Fault == faults < MaxFaults /\ faults' = faults + 1

-----------------------------------------------------------------------------
(* RiskGuard *)

\* reserved_value_usdt
Reserved(r) == Larger(0, Larger(r.val, r.filled) - r.conf)

\* get_total_risk_value
GuardTotal == MapThenSumSet(LAMBDA s : pos[s], Symbols)
                + MapThenSumSet(LAMBDA o : Reserved(res[o]), Orders)

RiskSymbols == {s \in Symbols : pos[s] > 0}
                 \cup {SymbolOf[o] : o \in {x \in Orders : res[x] # NoRes}}

\* Mutant: only positions count, not the reservations of other orders.
CanOpen_positions_only(o) ==
  /\ SymbolOf[o] \in RiskSymbols \/ Cardinality(RiskSymbols) < MaxSymbols
  /\ MapThenSumSet(LAMBDA s : pos[s], Symbols) + Lots[o] <= MaxValue

\* _check_can_open_locked
CanOpen(o) ==
  /\ SymbolOf[o] \in RiskSymbols \/ Cardinality(RiskSymbols) < MaxSymbols
  /\ GuardTotal + Lots[o] <= MaxValue

\* _try_confirm_locked: fills no later than the position watermark w are in
\* the position; a finished order whose fills are all there is released.
TryConfirm(r, w) ==
  IF ~r.seen \/ r.last = -1 \/ w < r.last THEN r
  ELSE IF r.st \in {"FILLED", "CANCELLED", "EXPIRED"} /\ r.filled > 0 THEN NoRes
  ELSE [r EXCEPT !.conf = Larger(@, r.filled)]

\* _update_order_locked; fills is "yes", "no" or "unknown", n the cumulative
\* filled value or -1, t the time or -1.
UpdateOrder(r, s, fills, n, t, w) ==
  LET rep == Larger(r.rep, n)
      u == [val |-> r.val, noted |-> r.noted, conf |-> r.conf, rep |-> rep,
            st |-> IF s = "NONE" THEN r.st ELSE s,
            filled |-> IF n = -1 THEN r.filled
                       ELSE Larger(r.filled, Larger(rep, r.noted)),
            seen |-> r.seen \/ fills = "yes" \/ n > 0,
            last |-> Larger(r.last, t)]
  IN  IF ~u.seen /\ (s = "REJECTED" \/ (s \in {"CANCELLED", "EXPIRED"} /\ fills = "no"))
        THEN NoRes ELSE TryConfirm(u, w)

\* restore_open_reservation
Restore(r, o, s, fills, n, t, w) ==
  UpdateOrder(IF r = NoRes THEN NewRes(Lots[o]) ELSE r, s, fills, n, t, w)

\* note_fill: n lots at time t; an unknown order takes the whole budget.
NoteFill(r, n, t, w) ==
  LET b == IF r = NoRes THEN NewRes(MaxValue) ELSE r IN
  TryConfirm([b EXCEPT !.seen = TRUE, !.noted = @ + n,
                       !.filled = Larger(@, Larger(b.rep, b.noted + n)),
                       !.last = Larger(@, t)], w)

\* _restore_risk_reservation from the response kept in the WAL row
RestoreRow(r, o, row, w) ==
  Restore(r, o, IF row.st = "INTENT" THEN "NONE" ELSE row.st,
          CASE row.cum > 0 -> "yes"
            [] row.cum = 0 -> "no"
            [] row.st = "REJECTED" -> "no"
            [] row.st \in {"FILLED", "PARTIALLY_FILLED"} -> "yes"
            [] OTHER -> "unknown",
          row.cum, row.t, w)

\* _sync_risk_record for a TRADE report: the quantity is left to the account
\* projection, which knows whether the trade is new.  update_order_status
\* then repeats the same update, which changes nothing more.
SyncTrade(r, o, s, t, w) == Restore(r, o, s, "yes", -1, t, w)

-----------------------------------------------------------------------------

Init ==
  /\ clock = 0
  /\ ex = [o \in Orders |-> NoFact]
  /\ amt = [s \in Symbols |-> [lots |-> 0, t |-> 0]]
  /\ net = [o \in Orders |-> "none"]
  /\ stream = <<>>
  /\ wal = [o \in Orders |-> NoFact]
  /\ res = [o \in Orders |-> NoRes]
  /\ pos = [s \in Symbols |-> 0]
  /\ mark = [s \in Symbols |-> 0] /\ pending = [s \in Symbols |-> -1]
  /\ trades = {} /\ mid = NoEvent /\ snap = NoSnap /\ todo = {}
  /\ phase = "ready" /\ faults = 0

-----------------------------------------------------------------------------
(* executor *)

\* submit: check and reserve, write the intent, send the POST.
Submit(o) ==
  /\ phase = "ready" /\ wal[o] = NoFact /\ CanOpen(o)
  /\ res' = [res EXCEPT ![o] = NewRes(Lots[o])]
  /\ wal' = [wal EXCEPT ![o] = Fact("INTENT", -1, -1)]
  /\ net' = [net EXCEPT ![o] = "sent"]
  /\ UNCHANGED <<clock, ex, amt, stream, pos, mark, accountVars, mid, snap, todo, phase, faults>>

\* The POST returns.  A newer row keeps the response out; a timeout leaves
\* SUBMIT_UNKNOWN and the whole reservation.
SubmitReturns(o) ==
  /\ phase # "down" /\ wal[o].st = "INTENT"
  /\ \E row \in {Fact("SUBMIT_UNKNOWN", -1, -1)}
                   \cup (IF net[o] = "accepted" THEN {Fact("NEW", 0, 0)} ELSE {})
                   \cup (IF net[o] = "refused" THEN {Fact("REJECTED", -1, -1)} ELSE {}) :
       /\ wal' = [wal EXCEPT ![o] = row]
       /\ res' = [res EXCEPT ![o] = RestoreRow(@, o, row, mark[SymbolOf[o]])]
  /\ UNCHANGED <<exVars, stream, pos, mark, accountVars, mid, snap, todo, phase, faults>>

\* One order of a resolve_recovered_unknowns_once pass: every order of the
\* WAL is restored from its row, an unresolved one is queried first (its
\* reservation stays what it is until the answer).
PollOrder(o) ==
  /\ phase \in {"ready", "cut"} /\ wal[o] # NoFact
  /\ LET row == IF wal[o].st \notin {"INTENT", "SUBMIT_UNKNOWN"} THEN wal[o]
                ELSE IF ex[o] = NoFact THEN Fact("SUBMIT_UNKNOWN", -1, -1) ELSE ex[o]
         w == mark[SymbolOf[o]]
     IN  /\ wal' = [wal EXCEPT ![o] = row]
         /\ res' = [res EXCEPT ![o] = RestoreRow(@, o, row, w)]
  /\ UNCHANGED <<exVars, stream, pos, mark, accountVars, mid, snap, todo, phase, faults>>

\* Everything in memory is lost.
Down ==
  /\ phase' = "down"
  /\ res' = [o \in Orders |-> NoRes] /\ pos' = [s \in Symbols |-> 0]
  /\ mark' = [s \in Symbols |-> -1] /\ pending' = [s \in Symbols |-> -1]
  /\ trades' = {} /\ mid' = NoEvent /\ snap' = NoSnap /\ todo' = {} /\ stream' = <<>>

\* handle_order_trade_update, up to the await of the ledger write.  A report
\* the WAL contradicts stops the process.
HandleReport ==
  /\ phase \in {"ready", "cut", "recover"} /\ mid = NoEvent
  /\ stream # <<>> /\ Head(stream).k = "order"
  /\ LET e == Head(stream)
         w == mark[SymbolOf[e.o]]
         row == Fact(e.st, e.cum, e.t)
     IN  IF wal[e.o].st \in Status /\ ~IsValidTransition(wal[e.o].st, e.st)
           THEN Down /\ UNCHANGED wal
           ELSE /\ wal' = [wal EXCEPT ![e.o] = row]
                /\ res' = [res EXCEPT ![e.o] = IF e.lots > 0
                             THEN SyncTrade(@, e.o, e.st, e.t, w)
                             ELSE RestoreRow(@, e.o, row, w)]
                /\ mid' = e /\ stream' = Tail(stream)
                /\ UNCHANGED <<pos, mark, accountVars, snap, todo, phase>>
  /\ UNCHANGED <<exVars, faults>>

\* The report of the reduce-only exit order: it holds no reservation.
HandleExit ==
  /\ phase \in {"ready", "cut", "recover"} /\ mid = NoEvent
  /\ stream # <<>> /\ Head(stream).k = "exit"
  /\ mid' = Head(stream) /\ stream' = Tail(stream)
  /\ UNCHANGED <<exVars, wal, guardVars, accountVars, snap, todo, phase, faults>>

-----------------------------------------------------------------------------
(* account projection *)

\* BinanceStrategyAccount.handle_execution_report, once the ledger is written.
ReportFill ==
  /\ phase # "down" /\ mid # NoEvent
  /\ LET s == IF mid.k = "exit" THEN mid.s ELSE SymbolOf[mid.o]
         id == IF mid.k = "exit" THEN <<s, mid.t>> ELSE <<mid.o, mid.cum>>
         new == mid.lots > 0 /\ id \notin trades
     IN  /\ res' = IF new /\ mid.k = "order"
                     THEN [res EXCEPT ![mid.o] = NoteFill(@, mid.lots, mid.t, mark[s])] ELSE res
         /\ trades' = IF new THEN trades \cup {id} ELSE trades
         /\ pending' = IF new /\ mid.t > mark[s]
                         THEN [pending EXCEPT ![s] = Larger(@, mid.t)] ELSE pending
  /\ mid' = NoEvent
  /\ UNCHANGED <<exVars, stream, wal, pos, mark, snap, todo, phase, faults>>

\* _apply_position for the symbols S of the facts p: position, watermark and
\* the reservations it confirms; only the stream settles a pending fill.
ApplyPosition(S, p, confirms) ==
  LET at(s) == IF s \in S THEN Larger(mark[s], p[s].t) ELSE mark[s] IN
  /\ pos' = [s \in Symbols |-> IF s \in S THEN p[s].lots ELSE pos[s]]
  /\ mark' = [s \in Symbols |-> at(s)]
  /\ res' = [o \in Orders |-> IF SymbolOf[o] \in S THEN TryConfirm(res[o], at(SymbolOf[o]))
                                                    ELSE res[o]]
  /\ pending' = [s \in Symbols |-> IF s \in S /\ confirms /\ p[s].t >= pending[s]
                                      THEN -1 ELSE pending[s]]

\* Facts not older than the one the account holds.
Newer(p) == {s \in Symbols : p[s].t >= mark[s]}

\* handle_account_update
HandleAccount ==
  /\ phase \in {"ready", "cut", "recover"} /\ mid = NoEvent
  /\ stream # <<>> /\ Head(stream).k = "account"
  /\ LET e == Head(stream)
         p == [NoSnap EXCEPT ![e.s] = [lots |-> e.lots, t |-> e.t]]
     IN  ApplyPosition(Newer(p), p, TRUE)
  /\ stream' = Tail(stream)
  /\ UNCHANGED <<exVars, wal, trades, mid, snap, todo, phase, faults>>

\* refresh_positions: the request, answered by the exchange, ...
RefreshAsks ==
  /\ phase \in {"start", "recover", "ready"} /\ snap = NoSnap
  /\ phase # "ready" => todo = {}
  /\ snap' = amt
  /\ UNCHANGED <<exVars, stream, wal, guardVars, accountVars, mid, todo, phase, faults>>

\* ... and the snapshot applied when it arrives.  In recovery it is the last
\* step before the execution gate opens.
RefreshApplies ==
  /\ phase # "down" /\ snap # NoSnap
  /\ ApplyPosition(Newer(snap), snap, FALSE)
  /\ snap' = NoSnap
  /\ phase' = IF phase \in {"start", "recover"} THEN "ready" ELSE phase
  /\ UNCHANGED <<exVars, stream, wal, trades, mid, todo, faults>>

-----------------------------------------------------------------------------
(* recovery *)

\* sync_once queries every active order and the finished ones whose ledger
\* acknowledgement is missing.
SyncSets == {T \in SUBSET {o \in Orders : wal[o] # NoFact} :
               {o \in Orders : wal[o] # NoFact /\ wal[o].st \notin Terminal} \subseteq T}

\* Start: the stream opens, then the resolve pass restores every order.
Start ==
  /\ phase = "down" /\ phase' = "start"
  /\ wal' = [o \in Orders |-> IF wal[o].st = "INTENT" THEN Fact("SUBMIT_UNKNOWN", -1, -1)
                                                       ELSE wal[o]]
  /\ res' = [o \in Orders |-> IF wal[o] = NoFact THEN res[o]
                               ELSE RestoreRow(res[o], o, wal[o], mark[SymbolOf[o]])]
  /\ todo' \in SyncSets
  /\ UNCHANGED <<exVars, stream, pos, mark, accountVars, mid, snap, faults>>

\* The socket closes: what is still on the wire is lost.
Disconnect ==
  /\ phase = "ready" /\ Fault /\ phase' = "cut"
  /\ \E n \in 0..Len(stream) : stream' = SubSeq(stream, 1, n)
  /\ UNCHANGED <<exVars, wal, guardVars, accountVars, mid, snap, todo>>

Reconnect ==
  /\ phase = "cut" /\ snap = NoSnap /\ phase' = "recover"
  /\ todo' \in SyncSets
  /\ UNCHANGED <<exVars, stream, wal, guardVars, accountVars, mid, snap, faults>>

\* reconcile_order_response for one order; an order the exchange does not
\* have fails the recovery.
SyncOrder(o) ==
  /\ phase \in {"start", "recover"} /\ o \in todo
  /\ \/ /\ ex[o] = NoFact /\ phase = "start"
        /\ Down /\ UNCHANGED wal
     \/ /\ ex[o] = NoFact /\ phase = "recover"
        /\ phase' = "cut" /\ todo' = {}
        /\ UNCHANGED <<stream, wal, guardVars, accountVars, mid, snap>>
     \/ /\ ex[o] # NoFact
        /\ wal' = [wal EXCEPT ![o] = ex[o]]
        /\ res' = [res EXCEPT ![o] = RestoreRow(@, o, ex[o], mark[SymbolOf[o]])]
        /\ todo' = todo \ {o}
        /\ UNCHANGED <<stream, pos, mark, accountVars, mid, snap, phase>>
  /\ UNCHANGED <<exVars, faults>>

Crash ==
  /\ phase # "down" /\ Fault /\ Down
  /\ UNCHANGED <<exVars, wal>>

-----------------------------------------------------------------------------
(* external: the exchange *)

Listening == phase \in {"start", "recover", "ready"}

Emit(events) == stream' = IF Listening THEN stream \o events ELSE stream

\* The two events of a trade, in one order or the other.
EmitTrade(order, account) ==
  \E first \in AccountFirst :
    Emit(IF first THEN <<account, order>> ELSE <<order, account>>)

AccountEvent(s, n, t) == [k |-> "account", s |-> s, lots |-> n, t |-> t]

\* The time of the next trade; the clock stands still between two trades of
\* the same millisecond.
NextTime == {t \in {clock, clock + 1} : t = clock + 1 \/ (SameMs /\ t > 0)}

ExAnswer(o) ==
  /\ net[o] = "sent"
  /\ \/ net' = [net EXCEPT ![o] = "accepted"] /\ UNCHANGED faults
        /\ ex' = [ex EXCEPT ![o] = Fact("NEW", 0, clock)]
     \/ net' = [net EXCEPT ![o] = "refused"] /\ UNCHANGED <<ex, faults>>
     \/ net' = [net EXCEPT ![o] = "lost"] /\ Fault /\ UNCHANGED ex
  /\ UNCHANGED <<clock, amt, stream, wal, guardVars, accountVars, mid, snap, todo, phase>>

Open(o) == ex[o].st \in {"NEW", "PARTIALLY_FILLED"}

ExFill(o) ==
  /\ Open(o) /\ clock < MaxTime
  /\ \E t \in NextTime, n \in 1..(Lots[o] - ex[o].cum) :
       LET s == SymbolOf[o]
           cum == ex[o].cum + n
           st == IF cum = Lots[o] THEN "FILLED" ELSE "PARTIALLY_FILLED"
       IN  /\ clock' = t
           /\ ex' = [ex EXCEPT ![o] = Fact(st, cum, t)]
           /\ amt' = [amt EXCEPT ![s] = [lots |-> @.lots + n, t |-> t]]
           /\ EmitTrade([k |-> "order", o |-> o, st |-> st, lots |-> n, cum |-> cum, t |-> t],
                        AccountEvent(s, amt[s].lots + n, t))
  /\ UNCHANGED <<net, wal, guardVars, accountVars, mid, snap, todo, phase, faults>>

\* Cancelled on request, or expired: the rest of the order is gone.
ExCancel(o) ==
  /\ Open(o) /\ clock < MaxTime /\ (ex[o].cum > 0 => CancelPartial)
  /\ clock' = clock + 1
  /\ ex' = [ex EXCEPT ![o] = Fact("CANCELLED", @.cum, clock')]
  /\ Emit(<<[k |-> "order", o |-> o, st |-> "CANCELLED", lots |-> 0, cum |-> ex[o].cum,
             t |-> clock']>>)
  /\ UNCHANGED <<amt, net, wal, guardVars, accountVars, mid, snap, todo, phase, faults>>

\* A reduce-only exit order closes the position.
ExClose(s) ==
  /\ amt[s].lots > 0 /\ clock < MaxTime
  /\ clock' = clock + 1
  /\ amt' = [amt EXCEPT ![s] = [lots |-> 0, t |-> clock']]
  /\ EmitTrade([k |-> "exit", s |-> s, lots |-> amt[s].lots, t |-> clock'],
               AccountEvent(s, 0, clock'))
  /\ UNCHANGED <<ex, net, wal, guardVars, accountVars, mid, snap, todo, phase, faults>>

-----------------------------------------------------------------------------

Process ==
  \/ \E o \in Orders : SubmitReturns(o) \/ PollOrder(o) \/ SyncOrder(o)
  \/ HandleReport \/ HandleExit \/ ReportFill \/ HandleAccount
  \/ RefreshAsks \/ RefreshApplies \/ Start \/ Reconnect

Exchange == \E o \in Orders, s \in Symbols : ExAnswer(o) \/ ExFill(o) \/ ExCancel(o) \/ ExClose(s)

Next == (\E o \in Orders : Submit(o)) \/ Process \/ Exchange \/ Disconnect \/ Crash

Spec == Init /\ [][Next]_vars

\* The event loop runs its tasks, the poller keeps polling, REST calls return
\* and the supervisor restarts the process.
Fairness ==
  /\ \A o \in Orders : WF_vars(SubmitReturns(o)) /\ WF_vars(PollOrder(o)) /\ WF_vars(ExAnswer(o))
  /\ WF_vars(HandleReport \/ HandleExit \/ ReportFill \/ HandleAccount)
  /\ WF_vars(Start \/ Reconnect \/ (\E o \in Orders : SyncOrder(o))
               \/ (phase # "ready" /\ RefreshAsks) \/ RefreshApplies)

-----------------------------------------------------------------------------
(* Properties *)

\* Every variable has its type; watermarks never run ahead of the exchange.
TypeOK ==
  /\ clock \in 0..MaxTime
  /\ \A o \in Orders : ex[o].cum \in -1..Lots[o] /\ ex[o].t \in -1..clock
  /\ \A o \in Orders : wal[o].st \in Status \cup {"INTENT"} /\ wal[o].t \in -1..clock
  /\ \A s \in Symbols : mark[s] \in -1..clock /\ pending[s] \in -1..clock /\ pos[s] \in Nat
  /\ \A o \in Orders : res[o].val \in 0..MaxValue /\ res[o].conf <= res[o].filled
  /\ phase \in {"down", "start", "cut", "recover", "ready"}
  /\ faults \in 0..MaxFaults

\* What the account may owe: its positions, and what its live orders can
\* still add to them.
Exposure ==
  MapThenSumSet(LAMBDA s : amt[s].lots, Symbols)
  + MapThenSumSet(LAMBDA o : IF Open(o) THEN Lots[o] - ex[o].cum
                             ELSE IF net[o] = "sent" THEN Lots[o] ELSE 0, Orders)

\* Whenever new entries can be admitted, positions and reservations of the
\* guard together cover the real exposure, whatever order the events of the
\* fills, the snapshots and the query answers arrived in (risk.py keeps the
\* unconfirmed part of a fill reserved until the position shows it).
ExposureCovered == phase = "ready" => Exposure <= GuardTotal

\* The limits of RiskConfig hold at the exchange, not only in the books.
WithinLimits ==
  /\ Exposure <= MaxValue
  /\ Cardinality({s \in Symbols : amt[s].lots > 0 \/ \E o \in Orders : SymbolOf[o] = s /\ Open(o)})
       <= MaxSymbols

\* Every order has ended at the exchange, or was never sent, and the account is flat.
Finished ==
  /\ \A o \in Orders : wal[o] = NoFact \/ ex[o].st \in Terminal
  /\ \A s \in Symbols : amt[s].lots = 0

\* The budget of a finished account becomes free again: through the events of
\* the stream, the periodic restore of the poller, reconnects and restarts.
CapacityReturns == Finished ~> (GuardTotal = 0 \/ ~Finished)

=============================================================================
