---------------------------- MODULE FundingIncome ----------------------------
(***************************************************************************)
(* The funding fees a Campaign is settled with: ledger/income_sync.py      *)
(* pages through Binance's income history of the Campaign's window,        *)
(* ledger/income_store.py keeps every row as a fact, and the sum of the    *)
(* stored rows goes into the settlement (Capital).                         *)
(*                                                                         *)
(* The history is asked for by the number of a page, and grows meanwhile:  *)
(* a fee may be booked late, with a time before fees already shown.  Times *)
(* are in parts of a millisecond, of which the exchange knows only whole   *)
(* ones.  One account and one symbol; all rows are funding fees in USDT.   *)
(***************************************************************************)
EXTENDS Integers, FiniteSets, Sequences

CONSTANTS
    PerMilli,           \* parts of a millisecond
    Windows,            \* the Campaigns' [from, closed], in their order
    Times,              \* when fees are due
    Amounts,
    PageSize, MaxPages,
    MaxRows,            \* bound: fees booked
    MaxFaults,          \* bound: failed requests, crashes and corrections
    Corrected           \* the exchange may change the amount of a fee

VARIABLES
    history,            \* what the exchange has booked: rows [id, time, amount]
    store,              \* account_income_events
    sync,               \* sync_funding_fee_total
    total,              \* per Campaign, the rows it was settled with
    faults

vars == <<history, store, sync, total, faults>>

Numbers == 1 .. Len(Windows)

\* end_at of _settle_campaign
EndOf(c) == Windows[c].closed + PerMilli

ConstantsOK ==
    /\ \A c \in Numbers : Windows[c].from % PerMilli = 0 /\ Windows[c].from <= Windows[c].closed
    /\ \A c, d \in Numbers : c < d => EndOf(c) <= Windows[d].from
    /\ \A t \in Times : t % PerMilli = 0
    /\ {PageSize, MaxPages, PerMilli} \subseteq Nat \ {0}

Idle == [pc |-> "idle", campaign |-> 0, page |-> 0, seen |-> {}, rows |-> {}, began |-> {}]

Unsettled == [done |-> FALSE, rows |-> {}, began |-> {}]

Init ==
    /\ history = {} /\ store = {} /\ faults = 0
    /\ sync = Idle
    /\ total = [c \in Numbers |-> Unsettled]

-----------------------------------------------------------------------------
(* The exchange *)

\* A fee is booked, maybe late.
Book ==
    /\ Cardinality(history) < MaxRows
    /\ \E t \in Times, a \in Amounts :
         history' = history \union {[id |-> Cardinality(history), time |-> t, amount |-> a]}
    /\ UNCHANGED <<store, sync, total, faults>>

\* The amount of a booked fee is changed.
Correct ==
    /\ Corrected /\ faults < MaxFaults
    /\ \E r \in history : \E a \in Amounts \ {r.amount} :
         history' = (history \ {r}) \union {[r EXCEPT !.amount = a]}
    /\ faults' = faults + 1
    /\ UNCHANGED <<store, sync, total>>

Earlier(r, q) == r.time < q.time \/ (r.time = q.time /\ r.id < q.id)

\* The rows whose millisecond is between the two, in pages.
Asked(first, last) == {r \in history : r.time \div PerMilli \in first .. last}

PageOf(rows, n) ==
    {r \in rows : Cardinality({q \in rows : Earlier(q, r)}) \div PageSize = n - 1}

-----------------------------------------------------------------------------
(* sync_funding_fee_total *)

\* The Campaigns are settled one after the other.
Begin ==
    /\ sync = Idle
    /\ \E c \in Numbers :
         /\ ~ total[c].done /\ \A d \in 1 .. (c - 1) : total[d].done
         /\ sync' = [Idle EXCEPT !.pc = "ask", !.campaign = c, !.page = 1, !.began = history]
    /\ UNCHANGED <<history, store, total, faults>>

\* The window of the request, in whole milliseconds, the last one included.
Query(c) == Asked(Windows[c].from \div PerMilli, (EndOf(c) - 1) \div PerMilli)

\* A page that was seen before is an error.
Ask ==
    /\ sync.pc = "ask"
    /\ LET rows == PageOf(Query(sync.campaign), sync.page)
           ids  == {r.id : r \in rows}
       IN  sync' = IF ids \in sync.seen THEN Idle
                   ELSE [sync EXCEPT !.pc = "store", !.rows = rows, !.seen = @ \union {ids}]
    /\ UNCHANGED <<history, store, total, faults>>

\* The identity of a row belongs to a different fact.
Conflict(rows) == \E r \in rows, q \in store : r.id = q.id /\ r # q

\* Only a short page is the last one.
After(s) ==
    IF Cardinality(s.rows) < PageSize THEN [s EXCEPT !.pc = "sum", !.rows = {}]
    ELSE IF s.page = MaxPages THEN Idle
    ELSE [s EXCEPT !.pc = "ask", !.page = @ + 1, !.rows = {}]

\* upsert_income_history: all rows of the page or none.
Upsert ==
    /\ sync.pc = "store"
    /\ IF Conflict(sync.rows)
       THEN sync' = Idle /\ UNCHANGED store
       ELSE sync' = After(sync) /\ store' = store \union sync.rows
    /\ UNCHANGED <<history, total, faults>>

\* funding_fee_total, of [start_at, end_at).
Sum ==
    /\ sync.pc = "sum"
    /\ LET c == sync.campaign
       IN  total' = [total EXCEPT ![c] =
             [done |-> TRUE, began |-> sync.began,
              rows |-> {r \in store : Windows[c].from <= r.time /\ r.time < EndOf(c)}]]
    /\ sync' = Idle
    /\ UNCHANGED <<history, store, faults>>

\* A request or a statement fails, or the process dies; it is tried again.
Fail ==
    /\ sync # Idle /\ faults < MaxFaults
    /\ sync' = Idle
    /\ faults' = faults + 1
    /\ UNCHANGED <<history, store, total>>

Next == Book \/ Correct \/ Begin \/ Ask \/ Upsert \/ Sum \/ Fail

Spec == Init /\ [][Next]_vars

\* The settlement is tried until it succeeds.
Fairness == WF_vars(Begin \/ Ask \/ Upsert \/ Sum)

-----------------------------------------------------------------------------
(* Properties *)

Row == [id : 0 .. MaxRows, time : Times, amount : Amounts]

TypeOK ==
    /\ history \subseteq Row /\ store \subseteq Row
    /\ sync.pc \in {"idle", "ask", "store", "sum"}
    /\ sync.page \in 0 .. MaxPages

Due(rows, c) == {r \in rows : Windows[c].from <= r.time /\ r.time < EndOf(c)}

\* A Campaign is settled with every fee of its window that was booked when the last
\* attempt began, although pages shift while they are read, and with no fee of
\* another time; no fee is in two settlements, and each is one fact
\* (sync_funding_fee_total, upsert_income_history, funding_fee_total).
FeesAreComplete ==
    /\ \A c \in Numbers : total[c].done =>
         /\ {r.id : r \in Due(total[c].began, c)} \subseteq {r.id : r \in total[c].rows}
         /\ total[c].rows \subseteq Due(store, c)
    /\ \A c, d \in Numbers : c # d =>
         {r.id : r \in total[c].rows} \intersect {r.id : r \in total[d].rows} = {}
    /\ \A r, q \in store : r.id = q.id => r = q

\* Every Campaign is settled in the end if the exchange corrects nothing and no
\* window has more fees than the pages hold.
EventuallySettled == <>(\A c \in Numbers : total[c].done)
=============================================================================
