------------------------------ MODULE Capital ------------------------------
(***************************************************************************)
(* The capital pool of one spike account: the policy that splits settled   *)
(* profit and loss (strategies/spike/capital.py), its PostgreSQL store     *)
(* (strategies/spike/capital_store.py), the coordinator that settles a     *)
(* Campaign before it releases it (strategies/spike/live.py) and the two   *)
(* other writers of the "capital" entry gate in strategies/spike/main.py:  *)
(* start and the periodic safety scan.                                     *)
(*                                                                         *)
(* Money is in whole units.  A Campaign's net result (realised profit,     *)
(* fees and funding) is a fact of the exchange fixed when it closes.       *)
(***************************************************************************)
EXTENDS Integers, Sequences, TLC, TLAPS

CONSTANTS
    Campaigns,          \* Campaign ids
    NoCampaign,
    Results,            \* net results a filled Campaign can close with
    InitialAccount,     \* initial_account_capital
    InitialTrading,     \* initial_trading_capital
    MinimumTrading,     \* minimum_trading_capital
    Reinvest(_),        \* profit * profit_reinvest_ratio
    NoState,            \* no row in strategy_capital_state
    Surplus,            \* wallet balance above initial_account_capital
    MaxCrashes          \* bound on process failures

States == [account : Int, trading : Nat, reserve : Int, breached : BOOLEAN]

ConstantsOK ==
    /\ InitialAccount \in Nat /\ InitialTrading \in 0..InitialAccount
    /\ MinimumTrading \in Nat
    /\ NoCampaign \notin Campaigns
    /\ Results \subseteq Int
    /\ \A p \in Results : p > 0 => Reinvest(p) \in 0..p
    /\ Surplus \in Nat /\ MaxCrashes \in Nat
    /\ NoState \notin States

VARIABLES
    cap,        \* the strategy_capital_state row, or NoState
    book,       \* strategy_capital_events in commit order
    lease,      \* the durable Campaign lease, or NoCampaign
    fact,       \* c -> closed result of the Campaign in the trade ledger
    wallet,     \* totalWalletBalance at the exchange
    up,         \* the process runs
    notional,   \* strategy.total_notional
    gate,       \* the "capital" condition of the entry gate
    settling,   \* where _settle_campaign is
    snap,       \* the snapshot _settle_campaign committed
    scanning,   \* the safety scan waits for get_account
    seen,       \* the snapshot the safety scan read
    crashes

vars == <<cap, book, lease, fact, wallet, up, notional, gate, settling, snap,
          scanning, seen, crashes>>

Open == [status |-> "open", pnl |-> 0]
Unused == [status |-> "unused", pnl |-> 0]
Facts == [status : {"unused", "open", "unfilled", "closed"}, pnl : Int]

-----------------------------------------------------------------------------
(* CapitalPolicy *)

InitialState ==
    [account |-> InitialAccount, trading |-> InitialTrading,
     reserve |-> InitialAccount - InitialTrading, breached |-> FALSE]

CanOpen(s) == ~s.breached /\ s.trading > MinimumTrading

Profit(s, pnl) ==
    [account |-> (s.trading + Reinvest(pnl)) + (s.reserve + (pnl - Reinvest(pnl))),
     trading |-> s.trading + Reinvest(pnl),
     reserve |-> s.reserve + (pnl - Reinvest(pnl)),
     breached |-> s.breached]

Loss(s, pnl) ==
    [account |-> (s.trading + pnl) + s.reserve,
     trading |-> s.trading + pnl,
     reserve |-> s.reserve,
     breached |-> s.breached]

\* The trading pool is exhausted: the rest of the loss consumes the reserve.
Breach(s, pnl) ==
    [account |-> s.reserve + (s.trading + pnl),
     trading |-> 0,
     reserve |-> s.reserve + (s.trading + pnl),
     breached |-> TRUE]

Settled(s, pnl) ==
    IF pnl > 0 THEN Profit(s, pnl)
    ELSE IF s.trading + pnl >= 0 THEN Loss(s, pnl)
    ELSE Breach(s, pnl)

-----------------------------------------------------------------------------
(* The store: one transaction writes the event and the state.              *)

Row(key, pnl, before, after) ==
    [key |-> key, pnl |-> pnl, before |-> before, after |-> after]

Rows == [key : Campaigns \union {NoCampaign}, pnl : Int, before : States, after : States]

Keys == {book[i].key : i \in 1..Len(book)}

\* PostgresCapitalStore.initialize
Initialize ==
    IF cap = NoState
    THEN /\ cap' = InitialState
         /\ book' = <<Row(NoCampaign, 0, InitialState, InitialState)>>
    ELSE UNCHANGED <<cap, book>>

\* PostgresCapitalStore.settle; the idempotency key is the Campaign id, so a
\* repeated settlement finds its event and returns the current state.
Store_unkeyed(c) ==
    /\ cap' = Settled(cap, fact[c].pnl)
    /\ book' = Append(book, Row(c, fact[c].pnl, cap, Settled(cap, fact[c].pnl)))

Store(c) ==
    IF c \in Keys
    THEN UNCHANGED <<cap, book>>
    ELSE /\ cap' = Settled(cap, fact[c].pnl)
         /\ book' = Append(book, Row(c, fact[c].pnl, cap, Settled(cap, fact[c].pnl)))

-----------------------------------------------------------------------------
(* The process *)

\* _reconcile_capital_wallet; get_account may also fail (ok = FALSE).
Admission(s, ok) == ok /\ wallet >= s.account /\ CanOpen(s)

Init ==
    /\ cap = NoState /\ book = <<>>
    /\ lease = NoCampaign
    /\ fact = [c \in Campaigns |-> Unused]
    /\ wallet = InitialAccount + Surplus
    /\ up = FALSE
    /\ notional = 0
    /\ gate = FALSE
    /\ settling = "no" /\ snap = NoState
    /\ scanning = FALSE /\ seen = NoState
    /\ crashes = 0

\* start: initialise the store, size the strategies by it, then reconcile the
\* wallet.  With no Campaign to recover a refused wallet stops the start.
Start ==
    /\ ~up
    /\ Initialize
    /\ notional' = cap'.trading
    /\ \E ok \in BOOLEAN : gate' = Admission(cap', ok)
    /\ gate' \/ lease # NoCampaign
    /\ up' = TRUE
    /\ UNCHANGED <<lease, fact, wallet, settling, snap, scanning, seen, crashes>>

\* A new Campaign is admitted: the gate is open and none is active.
Enter(c) ==
    /\ up
    /\ gate
    /\ lease = NoCampaign
    /\ fact[c].status = "unused"
    /\ lease' = c
    /\ fact' = [fact EXCEPT ![c] = Open]
    /\ UNCHANGED <<cap, book, wallet, up, notional, gate, settling, snap,
                   scanning, seen, crashes>>

\* The entry expires unfilled, or the position is closed and its trades are in
\* the ledger (get_campaign_pnl).  The exchange goes on while the process is down.
Close(c) ==
    /\ fact[c].status = "open"
    /\ \/ /\ fact' = [fact EXCEPT ![c] = [status |-> "unfilled", pnl |-> 0]]
          /\ UNCHANGED wallet
       \/ \E r \in Results :
             /\ fact' = [fact EXCEPT ![c] = [status |-> "closed", pnl |-> r]]
             /\ wallet' = wallet + r
    /\ UNCHANGED <<cap, book, lease, up, notional, gate, settling, snap,
                   scanning, seen, crashes>>

\* _settle_campaign without a filled entry returns at once.
ReleaseUnfilled ==
    /\ up /\ settling = "no"
    /\ lease # NoCampaign
    /\ fact[lease].status = "unfilled"
    /\ lease' = NoCampaign
    /\ UNCHANGED <<cap, book, fact, wallet, up, notional, gate, settling, snap,
                   scanning, seen, crashes>>

\* _settle_campaign closes the gate before it waits for the funding income.
SettleBegin ==
    /\ up /\ settling = "no"
    /\ lease # NoCampaign
    /\ fact[lease].status = "closed"
    /\ gate' = FALSE
    /\ settling' = "commit"
    /\ UNCHANGED <<cap, book, lease, fact, wallet, up, notional, snap,
                   scanning, seen, crashes>>

\* The settlement commits; the strategies and the risk limit are resized.
SettleCommit ==
    /\ settling = "commit"
    /\ Store(lease)
    /\ snap' = cap'
    /\ notional' = cap'.trading
    /\ settling' = "refresh"
    /\ UNCHANGED <<lease, fact, wallet, up, gate, scanning, seen, crashes>>

SettleEnd ==
    /\ settling = "refresh"
    /\ \E ok \in BOOLEAN : gate' = Admission(snap, ok)
    /\ lease' = NoCampaign
    /\ settling' = "no" /\ snap' = NoState
    /\ UNCHANGED <<cap, book, fact, wallet, up, notional, scanning, seen, crashes>>

\* _safety_scan_loop reads the state, then waits for get_account.
ScanRead ==
    /\ up /\ ~scanning
    /\ scanning' = TRUE /\ seen' = cap
    /\ UNCHANGED <<cap, book, lease, fact, wallet, up, notional, gate, settling,
                   snap, crashes>>

ScanApply ==
    /\ scanning
    /\ \E ok \in BOOLEAN : gate' = Admission(seen, ok)
    /\ scanning' = FALSE /\ seen' = NoState
    /\ UNCHANGED <<cap, book, lease, fact, wallet, up, notional, settling, snap,
                   crashes>>

\* The process dies between any two steps.
Crash ==
    /\ up
    /\ crashes < MaxCrashes
    /\ crashes' = crashes + 1
    /\ up' = FALSE
    /\ notional' = 0
    /\ gate' = FALSE
    /\ settling' = "no" /\ snap' = NoState
    /\ scanning' = FALSE /\ seen' = NoState
    /\ UNCHANGED <<cap, book, lease, fact, wallet>>

Next ==
    \/ Start
    \/ \E c \in Campaigns : Enter(c) \/ Close(c)
    \/ ReleaseUnfilled
    \/ SettleBegin \/ SettleCommit \/ SettleEnd
    \/ ScanRead \/ ScanApply
    \/ Crash

Spec == Init /\ [][Next]_vars

\* The event loop runs the settlement and answers its requests, the supervisor
\* restarts the process, and the safety scan repeats.
Fairness ==
    /\ WF_vars(Start)
    /\ WF_vars(ReleaseUnfilled \/ SettleBegin \/ SettleCommit \/ SettleEnd)
    /\ WF_vars(ScanRead) /\ WF_vars(ScanApply)

-----------------------------------------------------------------------------
(* Properties *)

\* The rows of the store and of the process keep their shapes; the trading
\* pool is never negative (CapitalState.__post_init__).
TypeOK ==
    /\ cap \in States \union {NoState}
    /\ lease \in Campaigns \union {NoCampaign}
    /\ fact \in [Campaigns -> Facts]
    /\ wallet \in Int
    /\ up \in BOOLEAN /\ gate \in BOOLEAN /\ scanning \in BOOLEAN
    /\ notional \in Nat
    /\ settling \in {"no", "commit", "refresh"}
    /\ snap \in States \union {NoState} /\ seen \in States \union {NoState}
    /\ crashes \in 0..MaxCrashes

\* The events explain the state: the first one initialises it, each starts where
\* the one before ended, each moves the account by exactly its net result and
\* the last one ends in the stored row (capital_store.py, settle and initialize).
BookExplainsCapital ==
    cap # NoState =>
        /\ Len(book) > 0
        /\ book[1].after = InitialState
        /\ book[Len(book)].after = cap
        /\ \A i \in 2..Len(book) :
              /\ book[i].before = book[i - 1].after
              /\ book[i].after.account = book[i].before.account + book[i].pnl
        /\ cap.account = cap.trading + cap.reserve
        /\ cap.trading >= 0

\* A Campaign is settled at most once, with the result it closed with, however
\* often a crash makes start settle it again (idempotency_key = campaign_id).
SettledOnce ==
    /\ \A i, j \in 1..Len(book) : i # j => book[i].key # book[j].key
    /\ \A i \in 2..Len(book) :
          /\ book[i].key \in Campaigns
          /\ fact[book[i].key].status = "closed"
          /\ fact[book[i].key].pnl = book[i].pnl

\* A Campaign is released only once its result is in the pool, so the next one
\* is sized by all that was won and lost before (maybe_release_campaign settles
\* first; total_notional follows the committed state).
SizedBySettledCapital ==
    up /\ lease = NoCampaign =>
        /\ notional = cap.trading
        /\ \A c \in Campaigns : fact[c].status = "closed" => c \in Keys

\* The pool is sound: events add up, no settlement is repeated, none is missing
\* when the next Campaign is sized (strategies/spike/capital_store.py and live.py).
CapitalIsBooked == BookExplainsCapital /\ SettledOnce /\ SizedBySettledCapital

\* Why, as an inductive invariant: the process runs on an initialised pool and
\* sizes by it, an open Campaign holds the lease, a closed one holds it or is in
\* the book, and the coordinator keeps the lease and the snapshot it committed
\* until the settlement is over.
CapitalInv ==
    /\ book \in Seq(Rows)
    /\ cap = NoState => book = <<>> /\ lease = NoCampaign /\ \A c \in Campaigns : fact[c] = Unused
    /\ BookExplainsCapital /\ SettledOnce
    /\ up => cap # NoState /\ notional = cap.trading
    /\ ~up => settling = "no" /\ ~scanning
    /\ scanning => seen # NoState
    /\ settling # "no" => lease # NoCampaign /\ fact[lease].status = "closed"
    /\ settling = "refresh" => lease \in Keys /\ snap = cap
    /\ \A c \in Campaigns :
          /\ fact[c].status = "open" => c = lease
          /\ fact[c].status = "closed" => fact[c].pnl \in Results /\ (c = lease \/ c \in Keys)

\* Once the account may no longer open, the gate ends up closed for good: a gate
\* a stale answer reopened is corrected by the scan after it.
GateFollowsCapital ==
    <>[](cap # NoState /\ ~CanOpen(cap)) => <>[]~gate

-----------------------------------------------------------------------------
(* Proofs, for every set of Campaigns and results, every initial split and   *)
(* every reinvestment rule that keeps within the profit.                     *)


\* The policy maps states to states, adds exactly the net result to the account
\* and keeps the account the sum of its two pools.
LEMMA SettledState ==
  ASSUME ConstantsOK, NEW s \in States, NEW p \in Results
  PROVE  /\ Settled(s, p) \in States
         /\ s.account = s.trading + s.reserve =>
              /\ Settled(s, p).account = s.account + p
              /\ Settled(s, p).account = Settled(s, p).trading + Settled(s, p).reserve
<1>1. p \in Int /\ (p > 0 => Reinvest(p) \in 0..p)
  BY DEF ConstantsOK
<1>2. s.account \in Int /\ s.trading \in Nat /\ s.reserve \in Int /\ s.breached \in BOOLEAN
  BY DEF States
<1>3. CASE p > 0
  BY <1>1, <1>2, <1>3 DEF Settled, Profit, States
<1>4. CASE ~(p > 0) /\ s.trading + p >= 0
  BY <1>1, <1>2, <1>4 DEF Settled, Loss, States
<1>5. CASE ~(p > 0) /\ ~(s.trading + p >= 0)
  BY <1>1, <1>2, <1>5 DEF Settled, Breach, States
<1> QED BY <1>3, <1>4, <1>5

\* The row that initialize() creates is a state of the pool, and no gap.
LEMMA InitialIsState ==
  ASSUME ConstantsOK
  PROVE  /\ InitialState \in States /\ InitialState # NoState
         /\ InitialState.account = InitialState.trading + InitialState.reserve
<1>1. InitialState \in States /\ InitialState.account = InitialState.trading + InitialState.reserve
  BY DEF ConstantsOK, InitialState, States
<1> QED BY <1>1 DEF ConstantsOK

\* A settled profit or loss is appended to the book, once.
LEMMA StoreBooks ==
  ASSUME ConstantsOK, TypeOK, CapitalInv, cap # NoState, NEW c \in Campaigns, c = lease,
         fact[c].status = "closed", Store(c), UNCHANGED fact
  PROVE  /\ cap' \in States /\ book' \in Seq(Rows)
         /\ BookExplainsCapital' /\ SettledOnce'
         /\ Keys \subseteq Keys' /\ c \in Keys'
<1>1. CASE c \in Keys
  <2>1. UNCHANGED <<cap, book>>
    BY <1>1 DEF Store
  <2> QED BY <1>1, <2>1 DEF BookExplainsCapital, SettledOnce, Keys, CapitalInv, TypeOK
<1>2. CASE c \notin Keys
  <2> DEFINE p == fact[c].pnl
             new == Settled(cap, p)
             row == Row(c, p, cap, new)
  <2>1. cap' = new /\ book' = Append(book, row)
    BY <1>2 DEF Store
  <2>2. p \in Results /\ p \in Int /\ cap \in States
    BY DEF CapitalInv, TypeOK, ConstantsOK
  <2>3. /\ new \in States /\ new # NoState
        /\ new.account = cap.account + p /\ new.account = new.trading + new.reserve
    BY <2>2, SettledState DEF CapitalInv, BookExplainsCapital, ConstantsOK
  <2>4. row \in Rows /\ row.key = c /\ row.pnl = p /\ row.before = cap /\ row.after = new
    BY <2>2, <2>3 DEF Row, Rows
  <2>5. book \in Seq(Rows) /\ Len(book) \in Nat
    BY DEF CapitalInv
  <2> HIDE DEF p, new, row
  <2>6. /\ book' \in Seq(Rows) /\ Len(book') = Len(book) + 1
        /\ book'[Len(book) + 1] = row
        /\ \A i \in 1..Len(book) : book'[i] = book[i]
    BY <2>1, <2>4, <2>5
  <2>7. BookExplainsCapital'
    <3>1. /\ Len(book) > 0 /\ book[1].after = InitialState /\ book[Len(book)].after = cap
          /\ \A i \in 2..Len(book) :
                /\ book[i].before = book[i - 1].after
                /\ book[i].after.account = book[i].before.account + book[i].pnl
      BY DEF CapitalInv, BookExplainsCapital
    <3>2. ASSUME NEW i \in 2..Len(book')
          PROVE  /\ book'[i].before = book'[i - 1].after
                 /\ book'[i].after.account = book'[i].before.account + book'[i].pnl
      <4>1. CASE i \in 2..Len(book)
        BY <2>5, <2>6, <3>1, <4>1
      <4>2. CASE i = Len(book) + 1
        BY <2>3, <2>4, <2>5, <2>6, <3>1, <4>2
      <4> QED BY <2>5, <2>6, <4>1, <4>2
    <3>3. new.trading >= 0
      BY <2>3 DEF States
    <3> QED BY <2>1, <2>3, <2>4, <2>5, <2>6, <3>1, <3>2, <3>3 DEF BookExplainsCapital
  <2>8. SettledOnce'
    <3>1. /\ \A i, j \in 1..Len(book) : i # j => book[i].key # book[j].key
          /\ \A i \in 2..Len(book) :
                /\ book[i].key \in Campaigns
                /\ fact[book[i].key].status = "closed"
                /\ fact[book[i].key].pnl = book[i].pnl
      BY DEF CapitalInv, SettledOnce
    <3>2. \A i \in 1..Len(book) : book[i].key # c
      BY <1>2 DEF Keys
    <3>3. \A i, j \in 1..Len(book') : i # j => book'[i].key # book'[j].key
      BY <2>4, <2>5, <2>6, <3>1, <3>2
    <3>4. ASSUME NEW i \in 2..Len(book')
          PROVE  /\ book'[i].key \in Campaigns
                 /\ fact'[book'[i].key].status = "closed"
                 /\ fact'[book'[i].key].pnl = book'[i].pnl
      <4>1. CASE i \in 2..Len(book)
        BY <2>5, <2>6, <3>1, <4>1
      <4>2. CASE i = Len(book) + 1
        BY <2>4, <2>5, <2>6, <4>2 DEF p
      <4> QED BY <2>5, <2>6, <4>1, <4>2
    <3> QED BY <3>3, <3>4 DEF SettledOnce
  <2>9. Keys \subseteq Keys' /\ c \in Keys'
    BY <2>4, <2>5, <2>6 DEF Keys
  <2> QED BY <2>1, <2>3, <2>6, <2>7, <2>8, <2>9
<1> QED BY <1>1, <1>2

\* The first start finds no state and writes the first event; a later one
\* leaves the store alone.
LEMMA InitializeBooks ==
  ASSUME ConstantsOK, TypeOK, CapitalInv, Initialize, UNCHANGED fact
  PROVE  /\ cap' \in States /\ cap' # NoState /\ book' \in Seq(Rows)
         /\ BookExplainsCapital' /\ SettledOnce' /\ Keys \subseteq Keys'
<1>1. CASE cap # NoState
  <2>1. UNCHANGED <<cap, book>>
    BY <1>1 DEF Initialize
  <2> QED BY <1>1, <2>1 DEF BookExplainsCapital, SettledOnce, Keys, CapitalInv, TypeOK
<1>2. CASE cap = NoState
  <2> DEFINE row == Row(NoCampaign, 0, InitialState, InitialState)
  <2>1. cap' = InitialState /\ book' = <<row>> /\ book = <<>>
    BY <1>2 DEF Initialize, CapitalInv
  <2>2. row \in Rows /\ row.after = InitialState
    BY InitialIsState DEF Row, Rows
  <2>3. book' \in Seq(Rows) /\ Len(book') = 1 /\ book'[1] = row /\ Keys = {}
    BY <2>1, <2>2 DEF Keys
  <2>4. InitialState.trading >= 0
    BY InitialIsState DEF States
  <2> HIDE DEF row
  <2>5. BookExplainsCapital'
    BY <2>1, <2>2, <2>3, <2>4, InitialIsState DEF BookExplainsCapital
  <2>6. SettledOnce'
    BY <2>3 DEF SettledOnce
  <2> QED BY <2>1, <2>3, <2>5, <2>6, InitialIsState
<1> QED BY <1>1, <1>2

\* Nothing but a store operation touches state and book.
LEMMA BooksKept ==
  ASSUME CapitalInv, UNCHANGED <<cap, book>>,
         \A c \in Campaigns : fact[c].status = "closed" => fact'[c] = fact[c]
  PROVE  book' \in Seq(Rows) /\ BookExplainsCapital' /\ SettledOnce' /\ Keys' = Keys
<1>1. book' \in Seq(Rows) /\ BookExplainsCapital' /\ Keys' = Keys
  BY DEF CapitalInv, BookExplainsCapital, Keys
<1>2. SettledOnce'
  <2>1. SettledOnce
    BY DEF CapitalInv
  <2> QED BY <2>1 DEF SettledOnce
<1> QED BY <1>1, <1>2

\* The invariant holds of empty tables.
LEMMA CapitalInit == ConstantsOK /\ Init => TypeOK /\ CapitalInv
<1> SUFFICES ASSUME ConstantsOK, Init PROVE TypeOK /\ CapitalInv
  OBVIOUS
<1>1. TypeOK
  <2>1. Unused \in Facts
    BY DEF Unused, Facts
  <2>2. InitialAccount + Surplus \in Int /\ MaxCrashes \in Nat
    BY DEF ConstantsOK
  <2>3. up \in BOOLEAN /\ gate \in BOOLEAN /\ scanning \in BOOLEAN
    BY Zenon DEF Init
  <2>4. crashes \in 0..MaxCrashes /\ wallet \in Int /\ notional \in Nat
    BY <2>2 DEF Init
  <2>5. fact \in [Campaigns -> Facts]
    BY <2>1 DEF Init
  <2> QED BY <2>3, <2>4, <2>5, Zenon DEF Init, TypeOK
<1>2. CapitalInv
  BY DEF Init, CapitalInv, BookExplainsCapital, SettledOnce, Keys, Unused
<1> QED BY <1>1, <1>2

\* Every step of the store, the sizing and the settlement keeps it.
LEMMA CapitalStep ==
  ASSUME ConstantsOK, TypeOK, CapitalInv, [Next]_vars
  PROVE  TypeOK' /\ CapitalInv'
<1>1. CASE Start
  <2>1. /\ cap' \in States /\ cap' # NoState /\ book' \in Seq(Rows)
        /\ BookExplainsCapital' /\ SettledOnce' /\ Keys \subseteq Keys'
    BY <1>1, InitializeBooks DEF Start
  <2>2. cap'.trading \in Nat
    BY <2>1 DEF States
  <2>3. gate' \in BOOLEAN
    BY <1>1, Zenon DEF Start, Admission
  <2>4. TypeOK'
    BY <1>1, <2>1, <2>2, <2>3 DEF Start, TypeOK
  <2>5. CapitalInv'
    BY <1>1, <2>1, SMTT(30) DEF Start, CapitalInv
  <2> QED BY <2>4, <2>5
<1>2. ASSUME NEW c \in Campaigns, Enter(c)
      PROVE  TypeOK' /\ CapitalInv'
  <2>1. /\ fact' = [fact EXCEPT ![c] = Open] /\ lease' = c /\ lease = NoCampaign
        /\ fact[c].status = "unused" /\ Open \in Facts /\ Open.status = "open"
    BY <1>2 DEF Enter, Open, Facts
  <2>2. book' \in Seq(Rows) /\ BookExplainsCapital' /\ SettledOnce' /\ Keys' = Keys
    BY <1>2, <2>1, BooksKept DEF Enter, TypeOK
  <2>3. TypeOK'
    BY <1>2, <2>1 DEF Enter, TypeOK
  <2>4. CapitalInv'
    BY <1>2, <2>1, <2>2, SMTT(30) DEF Enter, CapitalInv, ConstantsOK, TypeOK
  <2> QED BY <2>3, <2>4
<1>3. ASSUME NEW c \in Campaigns, Close(c)
      PROVE  TypeOK' /\ CapitalInv'
  <2>1. PICK f \in Facts : /\ fact' = [fact EXCEPT ![c] = f]
                           /\ f.status = "unfilled" \/ (f.status = "closed" /\ f.pnl \in Results)
                           /\ wallet' \in Int
    BY <1>3 DEF Close, Facts, TypeOK, ConstantsOK
  <2>2. book' \in Seq(Rows) /\ BookExplainsCapital' /\ SettledOnce' /\ Keys' = Keys
    BY <1>3, <2>1, BooksKept DEF Close, TypeOK
  <2>3. TypeOK'
    BY <1>3, <2>1 DEF Close, TypeOK
  <2>4. c = lease /\ cap # NoState /\ settling = "no"
    BY <1>3 DEF Close, CapitalInv, Unused
  <2>5. CapitalInv'
    BY <1>3, <2>1, <2>2, <2>4, SMTT(30) DEF Close, CapitalInv, ConstantsOK, TypeOK
  <2> QED BY <2>3, <2>5
<1>4. CASE SettleCommit
  <2>1. /\ lease \in Campaigns /\ fact[lease].status = "closed" /\ cap # NoState /\ up
    BY <1>4 DEF SettleCommit, CapitalInv, TypeOK
  <2>2. /\ cap' \in States /\ book' \in Seq(Rows)
        /\ BookExplainsCapital' /\ SettledOnce'
        /\ Keys \subseteq Keys' /\ lease \in Keys'
    BY <1>4, <2>1, StoreBooks DEF SettleCommit
  <2>3. cap' # NoState /\ cap'.trading \in Nat
    BY <2>2 DEF States, ConstantsOK
  <2>4. TypeOK'
    BY <1>4, <2>2, <2>3 DEF SettleCommit, TypeOK
  <2>5. CapitalInv'
    BY <1>4, <2>1, <2>2, <2>3, SMTT(30) DEF SettleCommit, CapitalInv
  <2> QED BY <2>4, <2>5
<1>5. CASE ReleaseUnfilled \/ SettleBegin \/ SettleEnd
  <2>1. book' \in Seq(Rows) /\ BookExplainsCapital' /\ SettledOnce' /\ Keys' = Keys
    BY <1>5, BooksKept DEF ReleaseUnfilled, SettleBegin, SettleEnd
  <2>2. gate' \in BOOLEAN
    BY <1>5, Zenon DEF ReleaseUnfilled, SettleBegin, SettleEnd, Admission, TypeOK
  <2>3. TypeOK'
    BY <1>5, <2>2 DEF ReleaseUnfilled, SettleBegin, SettleEnd, TypeOK
  <2>4. CapitalInv'
    BY <1>5, <2>1, SMTT(30) DEF ReleaseUnfilled, SettleBegin, SettleEnd, CapitalInv, ConstantsOK, TypeOK
  <2> QED BY <2>3, <2>4
<1>6. CASE ScanRead \/ ScanApply \/ Crash
  <2>1. book' \in Seq(Rows) /\ BookExplainsCapital' /\ SettledOnce' /\ Keys' = Keys
    BY <1>6, BooksKept DEF ScanRead, ScanApply, Crash
  <2>2. gate' \in BOOLEAN
    BY <1>6, Zenon DEF ScanRead, ScanApply, Crash, Admission, TypeOK
  <2>3. TypeOK'
    <3>1. crashes' \in 0..MaxCrashes /\ notional' \in Nat
      BY <1>6 DEF ScanRead, ScanApply, Crash, TypeOK, ConstantsOK
    <3> QED BY <1>6, <2>2, <3>1, Zenon DEF ScanRead, ScanApply, Crash, TypeOK
  <2>4. CASE ScanRead
    BY <2>3, <2>1, <2>4 DEF ScanRead, CapitalInv
  <2>5. CASE ScanApply
    BY <2>3, <2>1, <2>5 DEF ScanApply, CapitalInv
  <2>6. CASE Crash
    BY <2>3, <2>1, <2>6 DEF Crash, CapitalInv
  <2> QED BY <1>6, <2>3, <2>4, <2>5, <2>6
<1>7. CASE UNCHANGED vars
  <2>1. book' \in Seq(Rows) /\ BookExplainsCapital' /\ SettledOnce' /\ Keys' = Keys
    BY <1>7, BooksKept DEF vars
  <2>2. TypeOK'
    BY <1>7 DEF vars, TypeOK
  <2>3. CapitalInv'
    BY <1>7, <2>1 DEF vars, CapitalInv
  <2> QED BY <2>2, <2>3
<1> QED BY <1>1, <1>2, <1>3, <1>4, <1>5, <1>6, <1>7 DEF Next

\* The inductive invariant of the capital pool, its coordinator and the scan.
THEOREM CapitalInvariant ==
  ASSUME ConstantsOK
  PROVE  Spec => [](TypeOK /\ CapitalInv)
<1>1. Init => TypeOK /\ CapitalInv
  BY CapitalInit
<1>2. TypeOK /\ CapitalInv /\ [Next]_vars => (TypeOK /\ CapitalInv)'
  BY CapitalStep
<1> QED BY <1>1, <1>2, PTL DEF Spec

\* The events of strategy_capital_events explain the stored state, a Campaign is
\* settled at most once with its own result, and a Campaign is admitted only when
\* every earlier one is in the pool that sizes it, across crashes and restarts.
THEOREM PoolIsBooked ==
  ASSUME ConstantsOK
  PROVE  Spec => []CapitalIsBooked
<1>1. TypeOK /\ CapitalInv => CapitalIsBooked
  BY DEF TypeOK, CapitalInv, CapitalIsBooked, SizedBySettledCapital, ConstantsOK
<1> QED BY <1>1, CapitalInvariant, PTL

====
