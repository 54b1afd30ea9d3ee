---------------------------- MODULE LongBreakout ----------------------------
(***************************************************************************)
(* The long box breakout process for one symbol: the signal engine fed by  *)
(* polled K-lines, the execution coordinator with its durable queue and    *)
(* single worker, the user stream callbacks, and the recovery of the       *)
(* engine's view after a lost answer, a lost stream, a crash or a stop.    *)
(* A K-line is its close (its high as well); an entry is Lots lots.        *)
(***************************************************************************)
EXTENDS Integers, Sequences, FiniteSets, FiniteSetsExt, Functions, TLC

CONSTANTS
  Closes,          \* closes of K-lines
  BoxBars,         \* lookback_bars
  StopLoss, TakeProfit, Lots,
  PromptWorker,    \* a recovery never overtakes a queued entry
  MaxBars, MaxFaults

VARIABLES
  bars,        \* completed K-lines, oldest first
  hist, seen,  \* history and last_close_time (an index of bars) of the engine
  spos,        \* the engine's position: [qty, price]
  pe, px,      \* pending_entry, pending_exit: client ids, 0 when none
  enabled,     \* entry_enabled of the engine
  market,      \* the market gate; the execution gate is open in phase "ready"
  batch,       \* K-lines fetched and still to be processed
  queue,       \* jobs: [id, exit, q, price, recovered]
  store,       \* id -> [status, q] of the durable jobs
  wal, exch,   \* id -> order as the log and as the exchange know it
  reports,     \* trade reports on their way
  processed,   \* trades the account has seen
  phase,       \* "ready", "cut" (stream lost), "stopping", "down"
  faults

engine == <<hist, seen, spos, pe, px, enabled>>
vars == <<bars, engine, market, batch, queue, store, wal, exch, reports, processed, phase, faults>>

ConstantsOK ==
  /\ Closes \subseteq Nat /\ BoxBars \in Nat \ {0} /\ Lots \in Nat \ {0}
  /\ StopLoss \in Nat /\ TakeProfit \in Nat /\ PromptWorker \in BOOLEAN

\* The process's entry_enabled.
Gate == market /\ phase = "ready"

Flat == [qty |-> 0, price |-> 0]
Final == {"FILLED", "EXPIRED", "CANCELLED", "REJECTED"}

\* An entry of K-line k is 2k, an exit 2k + 1.
EntryId(k) == 2 * k
ExitId(k)  == 2 * k + 1
IsExit(id) == id % 2 = 1

Live(o) == o.status \notin Final
Sold(id) == IF IsExit(id) THEN -exch[id].filled ELSE exch[id].filled
Held == MapThenSumSet(Sold, DOMAIN exch)

Init ==
  /\ bars \in [1..BoxBars -> Closes] /\ hist = bars /\ seen = BoxBars
  /\ spos = Flat /\ pe = 0 /\ px = 0 /\ enabled = TRUE /\ market = TRUE
  /\ batch = <<>> /\ queue = <<>> /\ store = <<>> /\ wal = <<>> /\ exch = <<>>
  /\ reports = <<>> /\ processed = {} /\ phase = "ready" /\ faults = 0

-----------------------------------------------------------------------------
(* Market *)

\* The last n K-lines, as indices.
Fetched(n) == {k \in 1..Len(bars) : k > Len(bars) - n}
Seeded == [i \in 1..BoxBars |-> bars[Len(bars) - BoxBars + i]]

Kline(c) ==
  /\ Len(bars) < MaxBars /\ bars' = Append(bars, c)
  /\ UNCHANGED <<engine, market, batch, queue, store, wal, exch, reports, processed, phase, faults>>

\* _process_latest: what follows the last K-line without a gap is processed;
\* a gap reseeds the box, trades nothing and shuts the market gate for a round.
Poll ==
  LET new == {k \in Fetched(BoxBars + 1) : k > seen}
      gap == new # {} /\ Min(new) # seen + 1
  IN  /\ phase \in {"ready", "cut"} /\ batch = <<>>
      /\ IF gap
         THEN /\ hist' = Seeded /\ seen' = Len(bars) /\ enabled' = FALSE /\ market' = FALSE
              /\ UNCHANGED batch
         ELSE /\ enabled' = Gate /\ market' = (market \/ new = {})
              /\ batch' = [i \in 1..Cardinality(new) |-> seen + i]
              /\ UNCHANGED <<hist, seen>>
      /\ UNCHANGED <<bars, spos, pe, px, queue, store, wal, exch, reports, processed, phase, faults>>

\* A failed poll, or an admission switched off, shuts the gate.
PollFails ==
  /\ phase = "ready" /\ batch = <<>> /\ market /\ faults < MaxFaults
  /\ market' = FALSE /\ enabled' = FALSE /\ faults' = faults + 1
  /\ UNCHANGED <<bars, hist, seen, spos, pe, px, batch, queue, store, wal, exch, reports,
                 processed, phase>>

-----------------------------------------------------------------------------
(* Signals *)

Breakout(k) == Len(hist) = BoxBars /\ bars[k] > Max(Range(hist))

ExitDue(k) ==
  spos.qty > 0 /\ (bars[k] <= spos.price - StopLoss \/ bars[k] >= spos.price + TakeProfit)

MayExit(k) == pe = 0 /\ px = 0 /\ ExitDue(k)

\* Mutant: a pending entry does not stop the next breakout.
MayEnter_again(k) == spos.qty = 0 /\ enabled /\ Breakout(k)

MayEnter(k) == pe = 0 /\ spos.qty = 0 /\ enabled /\ Breakout(k)

Job(id, q, price) == [id |-> id, exit |-> IsExit(id), q |-> q, price |-> price, recovered |-> FALSE]

\* ExecutionQueue.put: a stored job is queued once; exits go before entries.
Put(q, j) ==
  LET same == SelectSeq(q, LAMBDA i : i.exit = j.exit)
      rest == SelectSeq(q, LAMBDA i : i.exit # j.exit)
  IN  IF j.exit THEN same \o <<j>> \o rest ELSE rest \o same \o <<j>>

Saved(id) == id \notin DOMAIN store

\* on_kline and the coordinator's enqueue: an entry is forgotten when the
\* process's gates have shut since the poll.
Process ==
  LET k  == Head(batch)
      x  == MayExit(k)
      e  == ~MayExit(k) /\ MayEnter(k)
      id == IF x THEN ExitId(k) ELSE EntryId(k)
      ok == x \/ (e /\ Gate)
      j  == IF x THEN Job(id, spos.qty, bars[k]) ELSE Job(id, Lots, bars[k])
  IN  /\ phase \in {"ready", "cut"} /\ batch # <<>>
      /\ batch' = Tail(batch) /\ market' = (market \/ batch' = <<>>)
      /\ seen' = k
      /\ hist' = IF Len(hist) = BoxBars THEN Append(Tail(hist), bars[k]) ELSE Append(hist, bars[k])
      /\ px' = IF x THEN id ELSE px
      /\ pe' = IF e /\ Gate THEN id ELSE pe
      /\ queue' = IF ok /\ Saved(id) THEN Put(queue, j) ELSE queue
      /\ store' = IF ok /\ Saved(id) THEN (id :> [status |-> "pending", q |-> j.q]) @@ store ELSE store
      /\ UNCHANGED <<bars, spos, enabled, wal, exch, reports, processed, phase, faults>>

-----------------------------------------------------------------------------
(* The worker *)

\* on_order_terminal clears the mark of the order it is about.
Forget(id) ==
  /\ pe' = IF pe = id THEN 0 ELSE pe
  /\ px' = IF px = id THEN 0 ELSE px

\* prepare_recovered_exit: an exit of the last process is sent only when the
\* log does not know it and there is still something to sell.
Recoverable(j) == j.id \notin DOMAIN wal /\ Held > 0

Ordered(j, q, known, placed) ==
  [kind |-> j.exit, q |-> q, filled |-> 0, price |-> j.price,
   status |-> IF placed THEN known ELSE "REJECTED"]

\* A job leaves the queue: dropped (clear_pending_entry clears the symbol's mark
\* when it was an entry), or submitted with one of the answers.
\* The exchange takes no more of an exit than is held and refuses an empty one.
Work(answer) ==
  LET j    == Head(queue)
      q    == IF j.recovered \/ j.exit THEN Min({j.q, Held}) ELSE j.q
      drop == \/ j.recovered /\ ~Recoverable(j)
              \/ ~j.exit /\ ~Gate
      placed == answer \in {"NEW", "lost_reply"} /\ q > 0
      order  == Ordered(j, q, "NEW", placed)
      known  == [order EXCEPT !.status =
                   IF answer = "NEW" \/ (j.exit /\ q = 0) THEN order.status
                   ELSE IF answer = "REJECTED" THEN "REJECTED" ELSE "SUBMIT_UNKNOWN"]
  IN  /\ phase \in {"ready", "cut", "stopping"} /\ queue # <<>>
      /\ j.recovered => \A id \in DOMAIN wal : wal[id].status # "SUBMIT_UNKNOWN"
      /\ answer \in {"lost_request", "lost_reply", "REJECTED"} => faults < MaxFaults
      /\ queue' = Tail(queue) /\ store' = [store EXCEPT ![j.id].status = "completed"]
      /\ IF drop
         THEN /\ answer = "NEW" /\ pe' = (IF j.exit THEN pe ELSE 0)
              /\ UNCHANGED <<px, wal, exch, faults>>
         ELSE /\ exch' = IF placed THEN (j.id :> order) @@ exch ELSE exch
              /\ wal' = (j.id :> known) @@ wal
              /\ IF known.status = "REJECTED" THEN Forget(j.id) ELSE UNCHANGED <<pe, px>>
              /\ faults' = IF answer = "NEW" THEN faults ELSE faults + 1
      /\ UNCHANGED <<bars, hist, seen, spos, enabled, market, batch, reports, processed, phase>>

-----------------------------------------------------------------------------
(* Exchange and reports *)

\* One lot of an order is traded; an exit ends when nothing is held.
Trade(id) ==
  LET o == exch[id]
      n == o.filled + 1
      s == IF n = o.q THEN "FILLED"
           ELSE IF IsExit(id) /\ Held = 1 THEN "EXPIRED" ELSE "PARTIALLY_FILLED"
  IN  /\ Live(o) /\ (IsExit(id) => Held > 0)
      /\ exch' = [exch EXCEPT ![id].filled = n, ![id].status = s]
      /\ reports' = IF phase \in {"ready", "stopping"}
                    THEN Append(reports, [id |-> id, trade |-> <<id, n>>, status |-> s])
                    ELSE reports
      /\ UNCHANGED <<bars, engine, market, batch, queue, store, wal, processed, phase, faults>>

\* LongBreakoutStrategy.on_fill.
Filled(p, id, price) ==
  IF IsExit(id)
  THEN IF p.qty <= 1 THEN Flat ELSE [p EXCEPT !.qty = @ - 1]
  ELSE [qty |-> p.qty + 1, price |-> IF p.qty = 0 THEN price ELSE p.price]

Known(t) == t \in processed

\* handle_execution_report: the log, then the end of the order, then the fill.
\* A report the log is past is a conflict, and fatal.
Report ==
  LET r    == Head(reports)
      late == wal[r.id].status \in Final /\ wal[r.id].status # r.status
      fill == ~Known(r.trade)
      new  == IF fill THEN Filled(spos, r.id, wal[r.id].price) ELSE spos
      over == fill /\ IsExit(r.id) /\ spos.qty > 0 /\ new.qty = 0
      ends == r.status \in Final
  IN  /\ phase \in {"ready", "stopping"} /\ reports # <<>> /\ reports' = Tail(reports)
      /\ IF late
         THEN /\ phase' = "stopping" /\ batch' = <<>> /\ enabled' = FALSE
              /\ UNCHANGED <<wal, spos, processed, pe, px>>
         ELSE /\ wal' = [wal EXCEPT ![r.id].status = r.status]
              /\ spos' = new /\ processed' = processed \cup {r.trade}
              /\ pe' = IF pe = r.id /\ ends THEN 0 ELSE pe
              /\ px' = IF over \/ (px = r.id /\ ends) THEN 0 ELSE px
              /\ UNCHANGED <<batch, enabled, phase>>
      /\ UNCHANGED <<bars, hist, seen, market, queue, store, exch, faults>>

-----------------------------------------------------------------------------
(* Recovery *)

\* The log after every order was asked for: an order the exchange does not
\* know was never placed.
Synced == [id \in DOMAIN wal |-> IF id \in DOMAIN exch THEN exch[id]
                                 ELSE [wal[id] EXCEPT !.status = "REJECTED"]]

Pending(w, exit) ==
  LET ids == {id \in DOMAIN w : IsExit(id) = exit /\ Live(w[id])}
  IN  IF ids = {} THEN 0 ELSE Max(ids)

EntryPrice == exch[Max({id \in DOMAIN exch : ~IsExit(id) /\ exch[id].filled > 0})].price

Trades == UNION {{<<id, n>> : n \in 1..exch[id].filled} : id \in DOMAIN exch}

\* restore_from_account after reconciliation: the engine's position and pending
\* orders are those of the account, and the trades behind them are done.
Restored ==
  /\ spos' = IF Held > 0 THEN [qty |-> Held, price |-> EntryPrice] ELSE Flat
  /\ pe' = Pending(Synced, FALSE) /\ px' = Pending(Synced, TRUE)
  /\ processed' = IF Held > 0 THEN processed \cup Trades ELSE processed

Disconnect ==
  /\ phase = "ready" /\ faults < MaxFaults /\ faults' = faults + 1
  /\ phase' = "cut" /\ reports' = <<>> /\ enabled' = FALSE
  /\ UNCHANGED <<bars, hist, seen, spos, pe, px, market, batch, queue, store, wal, exch, processed>>

\* _on_execution_recovered, after a reconnect or once every submission in
\* doubt is settled.  It resets pending_entry whatever the queue holds; with
\* PromptWorker the worker has taken the queued entry by then, which the code
\* does not ensure while the worker waits for another symbol's order.
Recover ==
  /\ \/ phase = "cut"
     \/ phase = "ready" /\ \E id \in DOMAIN wal : wal[id].status = "SUBMIT_UNKNOWN"
  /\ PromptWorker => \A i \in 1..Len(queue) : queue[i].exit
  /\ wal' = Synced /\ Restored
  /\ phase' = "ready" /\ enabled' = market
  /\ UNCHANGED <<bars, hist, seen, market, batch, queue, store, exch, reports, faults>>

\* A stop waits for the worker, settles what is in doubt and cancels entries.
Stop ==
  /\ phase = "ready" /\ faults < MaxFaults /\ faults' = faults + 1
  /\ phase' = "stopping" /\ enabled' = FALSE /\ batch' = <<>>
  /\ UNCHANGED <<bars, hist, seen, spos, pe, px, market, queue, store, wal, exch, reports, processed>>

Off == batch' = <<>> /\ queue' = <<>> /\ reports' = <<>> /\ processed' = {}

Stopped ==
  /\ phase = "stopping" /\ queue = <<>> /\ phase' = "down" /\ Off
  /\ exch' = [id \in DOMAIN exch |->
                IF ~IsExit(id) /\ Live(exch[id]) THEN [exch[id] EXCEPT !.status = "CANCELLED"]
                ELSE exch[id]]
  /\ wal' = [id \in DOMAIN wal |-> IF id \in DOMAIN exch THEN exch'[id]
                                   ELSE [wal[id] EXCEPT !.status = "REJECTED"]]
  /\ UNCHANGED <<bars, engine, market, store, faults>>

Crash ==
  /\ phase # "down" /\ faults < MaxFaults /\ faults' = faults + 1
  /\ phase' = "down" /\ Off
  /\ UNCHANGED <<bars, engine, market, store, wal, exch>>

\* ExecutionQueue.restore: entries need a fresh signal, exits stay to be sent.
Requeued ==
  LET ids == {id \in DOMAIN store : store[id].status = "pending" /\ id \notin DOMAIN wal /\ IsExit(id)}
      exit(id) == [Job(id, store[id].q, bars[id \div 2]) EXCEPT !.recovered = TRUE]
  IN  [i \in 1..Cardinality(ids) |->
         exit(CHOOSE id \in ids : Cardinality({d \in ids : d <= id}) = i)]

Restart ==
  /\ phase = "down" /\ phase' = "ready" /\ market' = TRUE /\ enabled' = TRUE
  /\ queue' = Requeued
  /\ store' = [id \in DOMAIN store |->
                 IF store[id].status # "pending" THEN store[id]
                 ELSE [store[id] EXCEPT !.status = IF id \in DOMAIN wal THEN "completed"
                                                   ELSE IF IsExit(id) THEN "pending"
                                                   ELSE "expired"]]
  /\ wal' = Synced /\ Restored
  /\ hist' = Seeded /\ seen' = Len(bars)
  /\ UNCHANGED <<bars, batch, exch, reports, faults>>

Next ==
  \/ \E c \in Closes : Kline(c)
  \/ Poll \/ PollFails \/ Process
  \/ \E answer \in {"NEW", "REJECTED", "lost_request", "lost_reply"} : Work(answer)
  \/ \E id \in DOMAIN exch : Trade(id)
  \/ Report \/ Disconnect \/ Recover \/ Stop \/ Stopped \/ Crash \/ Restart

Spec == Init /\ [][Next]_vars

-----------------------------------------------------------------------------
(* Properties *)

TypeOK ==
  /\ bars \in Seq(Closes) /\ Len(hist) <= BoxBars /\ seen \in 0..MaxBars
  /\ spos.qty \in Nat /\ phase \in {"ready", "cut", "stopping", "down"}
  /\ DOMAIN exch \subseteq DOMAIN wal /\ DOMAIN wal \subseteq DOMAIN store

Entering ==
  {queue[i].id : i \in {n \in 1..Len(queue) : ~queue[n].exit}}
    \cup {id \in DOMAIN exch : ~IsExit(id) /\ Live(exch[id])}

\* The engine holds at most one long per symbol: one entry at a time is queued
\* or open, none is added to a position, and the exits never sell short,
\* whatever was lost, repeated or restored on the way.  It is claimed with
\* PromptWorker only: an entry that a recovery finds in the queue loses its
\* pending mark, and the next breakout may then queue a second one.
OneLong ==
  /\ Cardinality(Entering) <= 1
  /\ Held \in 0..Lots

\* With every report delivered the engine's position is the exchange's, and a
\* pending mark stands for an order or a job that still exists: no mark is left
\* behind that would keep the symbol from ever trading again.
ViewIsTrue ==
  phase = "ready" /\ reports = <<>> =>
    /\ spos.qty = Held
    /\ \A id \in {pe, px} \ {0} :
         \/ \E i \in 1..Len(queue) : queue[i].id = id
         \/ id \in DOMAIN wal /\ Live(wal[id])
=============================================================================
