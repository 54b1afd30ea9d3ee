------------------------------ MODULE SymbolUniverse ------------------------------
(* Which symbols a strategy may open: the exchange metadata synchronised into      *)
(* PostgreSQL (ledger/exchange_symbols.py, ledger/db/models.py), the operators'      *)
(* admission switches, the effective universe query (shared/symbol_universe_query),  *)
(* and the safety scan of the spike process that blocks symbols and cancels their    *)
(* open entries (strategies/spike/main.py, live.py).                                  *)
EXTENDS Naturals, FiniteSets, FiniteSetTheorems, TLAPS

CONSTANTS
    Symbols, Categories,
    CategoryOf(_),      \* the Binance category of a symbol
    Coin,               \* categories allowed by default: COIN and its subcategories
    Mainstream,         \* DEFAULT_MAINSTREAM_DISABLED_SYMBOLS
    Traded,             \* the symbols the strategy signals on
    Syncers,            \* the symbol-sync service and manual runs of its command
    GuardCount,         \* synced_symbols from which a drop by half is refused (20)
    MaxListings,        \* bound: listings and delistings on the exchange
    MaxDecisions,       \* bound: operator decisions
    MaxFaults,          \* bound: failed calls, crashes, 36 hours without a sync
    MaxDays             \* bound: days between two rule refreshes that are told apart

ConstantsOK ==
    /\ IsFiniteSet(Symbols)
    /\ Coin \subseteq Categories /\ Mainstream \subseteq Symbols /\ Traded \subseteq Symbols
    /\ \A s \in Symbols : CategoryOf(s) \in Categories
    /\ GuardCount \in Nat /\ MaxListings \in Nat /\ MaxDecisions \in Nat /\ MaxFaults \in Nat
    /\ MaxDays \in Nat \ {0}

NoControl == [state |-> "none", by |-> "nobody"]
Controls == [state : {"none", "on", "off"}, by : {"nobody", "system", "operator"}]

VARIABLES
    listed,     \* symbols the exchange trades
    active,     \* exchange_symbols rows with active = TRUE
    known,      \* exchange_symbols rows
    control,    \* symbol_global_admission
    category,   \* strategy_category_admission of the strategy
    sync,       \* exchange_symbol_sync_state: status, within 36 hours, synced_symbols
    syncer,     \* per syncer: its step and what it read
    blocked,    \* the strategy's blocked entry symbols
    open,       \* symbols gate condition "exchange_symbols"
    admitted,   \* subcategory_admission row: the strategy may enter at all
    admits,     \* gate condition set from it (admission.py)
    entry,      \* per symbol the strategy's entry order
    rules,      \* days since the rule book in use was fetched, since the last attempt
    listings, decisions, faults

db == <<known, active, control, category, admitted, sync>>
strategy == <<blocked, open, admits, entry, rules>>
budget == <<listings, decisions, faults>>
vars == <<listed, db, syncer, strategy, budget>>

Idle == [step |-> "idle", info |-> {}, missing |-> {}]

SyncStates == [status : {"NONE", "SUCCESS", "FAILED"}, fresh : BOOLEAN, count : 0..Cardinality(Symbols)]

SyncerStates == [step : {"idle", "fetched", "synced", "seeding", "failed"},
                 info : SUBSET Symbols, missing : SUBSET Symbols]

TypeOK ==
    /\ listed \subseteq Symbols /\ active \subseteq known /\ known \subseteq Symbols
    /\ control \in [Symbols -> Controls] /\ category \in [Categories -> Controls]
    /\ sync \in SyncStates
    /\ syncer \in [Syncers -> SyncerStates]
    /\ blocked \subseteq Symbols /\ {open, admitted, admits} \subseteq BOOLEAN
    /\ entry \in [Symbols -> {"none", "unknown", "open"}]
    /\ rules \in [book : 0..MaxDays, attempt : 0..MaxDays]
    /\ listings \in 0..MaxListings /\ decisions \in 0..MaxDecisions /\ faults \in 0..MaxFaults

\* A new database before its first sync; a scan of it blocks every symbol.
Init ==
    /\ listed = Symbols /\ known = {} /\ active = {}
    /\ control = [s \in Symbols |-> NoControl]
    /\ category = [c \in Categories |-> NoControl]
    /\ sync = [status |-> "NONE", fresh |-> FALSE, count |-> 0]
    /\ syncer = [w \in Syncers |-> Idle]
    /\ blocked = Symbols /\ open = TRUE /\ admitted = TRUE /\ admits = TRUE /\ entry = [s \in Symbols |-> "none"]
    /\ rules = [book |-> 0, attempt |-> 0]
    /\ listings = 0 /\ decisions = 0 /\ faults = 0

\* EFFECTIVE_SYMBOL_UNIVERSE_SQL: a fresh successful sync, an active symbol, no
\* global switch off, and no category of it off or, undecided, outside COIN.
CategoryBlocks(c) ==
    category[c].state = "off" \/ (category[c].state = "none" /\ c \notin Coin)

Effective ==
    IF sync.status = "SUCCESS" /\ sync.fresh
    THEN {s \in active : control[s].state # "off" /\ ~CategoryBlocks(CategoryOf(s))}
    ELSE {}

---------------------------------------------------------------------------
(* The exchange, the clock and the operators.                               *)

ListingChanges ==
    /\ listings < MaxListings
    /\ \E s \in Symbols : listed' = IF s \in listed THEN listed \ {s} ELSE listed \cup {s}
    /\ listed' # {}
    /\ listings' = listings + 1
    /\ UNCHANGED <<db, syncer, strategy, decisions, faults>>

\* 36 hours without a successful sync.
SyncAges ==
    /\ faults < MaxFaults /\ sync.fresh
    /\ sync' = [sync EXCEPT !.fresh = FALSE]
    /\ faults' = faults + 1
    /\ UNCHANGED <<listed, known, active, control, category, admitted, syncer, strategy, listings, decisions>>

\* The rule book in use is a day older and its refresh is due.
DayPasses ==
    /\ rules.attempt = 0 /\ rules.book < MaxDays
    /\ rules' = [book |-> rules.book + 1, attempt |-> 1]
    /\ UNCHANGED <<listed, db, syncer, blocked, open, admits, entry, budget>>

\* An operator's switch replaces the row of the version they saw, a row of the
\* system like any other: of a symbol (set_symbol_global_admission), ...
SetSymbol ==
    \E s \in known, b \in {"on", "off"} :
        /\ control' = [control EXCEPT ![s] = [state |-> b, by |-> "operator"]]
        /\ UNCHANGED <<category, admitted>>

\* ... of a category (set_strategy_category_admission), ...
SetCategory ==
    \E c \in Categories, b \in {"on", "off"} :
        /\ category' = [category EXCEPT ![c] = [state |-> b, by |-> "operator"]]
        /\ UNCHANGED <<control, admitted>>

\* ... of the whole strategy (set_subcategory_admission).
SetSubcategory == admitted' = ~admitted /\ UNCHANGED <<control, category>>

Decide ==
    /\ decisions < MaxDecisions
    /\ SetSymbol \/ SetCategory \/ SetSubcategory
    /\ decisions' = decisions + 1
    /\ UNCHANGED <<listed, known, active, sync, syncer, strategy, listings, faults>>

---------------------------------------------------------------------------
(* sync_exchange_symbol_metadata: fetch, one transaction, then the seeding.  *)

Step(w, r) == syncer' = [syncer EXCEPT ![w] = r]

\* fetch_exchange_info_with_retry; the answer is what the exchange lists now.
Fetch(w) ==
    /\ syncer[w].step = "idle"
    /\ Step(w, [Idle EXCEPT !.step = "fetched", !.info = listed])
    /\ UNCHANGED <<listed, db, strategy, budget>>

\* sync_exchange_symbols: under an advisory lock every row goes inactive and the
\* fetched ones active again, unless more than half would be lost.  Symbols are
\* USDT contracts: the rows of any other quote asset, which the transaction
\* deletes with their admission first, are never inserted and are left out.
Dropped(w) == sync.count >= GuardCount /\ 2 * Cardinality(syncer[w].info) < sync.count

Replace(w) ==
    /\ known' = known \cup syncer[w].info
    /\ active' = syncer[w].info
    /\ sync' = [status |-> "SUCCESS", fresh |-> TRUE, count |-> Cardinality(syncer[w].info)]

Sync_unguarded(w) ==
    /\ syncer[w].step = "fetched" /\ Replace(w)
    /\ Step(w, [syncer[w] EXCEPT !.step = "synced"])
    /\ UNCHANGED <<listed, control, category, admitted, strategy, budget>>

Sync_additive(w) ==
    /\ syncer[w].step = "fetched"
    /\ known' = known \cup syncer[w].info
    /\ active' = active \cup syncer[w].info
    /\ sync' = [status |-> "SUCCESS", fresh |-> TRUE, count |-> Cardinality(syncer[w].info)]
    /\ Step(w, [syncer[w] EXCEPT !.step = "synced"])
    /\ UNCHANGED <<listed, control, category, admitted, strategy, budget>>

Sync(w) ==
    /\ syncer[w].step = "fetched"
    /\ IF Dropped(w)
       THEN /\ Step(w, [syncer[w] EXCEPT !.step = "failed"])
            /\ UNCHANGED <<known, active, sync>>
       ELSE Replace(w) /\ Step(w, [syncer[w] EXCEPT !.step = "synced"])
    /\ UNCHANGED <<listed, control, category, admitted, strategy, budget>>

\* seed_exchange_symbol_admissions: which default rows are missing ...
SeedRead(w) ==
    /\ syncer[w].step = "synced"
    /\ Step(w, [step |-> "seeding", info |-> syncer[w].info,
                missing |-> {s \in Mainstream \cap known : control[s].state = "none"}])
    /\ UNCHANGED <<listed, db, strategy, budget>>

\* Mutant: ON CONFLICT DO UPDATE in place of the plain INSERT.
SeedWrite_upsert(w) ==
    /\ syncer[w].step = "seeding"
    /\ control' = [s \in Symbols |-> IF s \in syncer[w].missing
                     THEN [state |-> "off", by |-> "system"] ELSE control[s]]
    /\ Step(w, Idle)
    /\ UNCHANGED <<listed, known, active, category, admitted, sync, strategy, budget>>

\* ... and INSERT them; a row that has appeared since fails the transaction.
\* The rows that the old subcategory_admission table gives rise to at the end of
\* the transaction (a code that is off and names one active category) are left
\* out: they too are inserted off, and only where the category has no row.
SeedWrite(w) ==
    /\ syncer[w].step = "seeding"
    /\ IF \E s \in syncer[w].missing : control[s].state # "none"
       THEN /\ Step(w, [syncer[w] EXCEPT !.step = "failed"])
            /\ UNCHANGED <<control, category>>
       ELSE /\ control' = [s \in Symbols |-> IF s \in syncer[w].missing
                           THEN [state |-> "off", by |-> "system"] ELSE control[s]]
            /\ category' = [c \in Categories |-> IF c \notin Coin /\ category[c].state = "none"
                                                    /\ \E s \in active : CategoryOf(s) = c
                            THEN [state |-> "off", by |-> "system"] ELSE category[c]]
            /\ Step(w, Idle)
    /\ UNCHANGED <<listed, known, active, admitted, sync, strategy, budget>>

\* A failed fetch, an invalid payload or a database error at any step.
SyncBreaks(w) ==
    /\ syncer[w].step \in {"idle", "fetched", "synced", "seeding"} /\ faults < MaxFaults
    /\ faults' = faults + 1
    /\ Step(w, [Idle EXCEPT !.step = "failed"])
    /\ UNCHANGED <<listed, db, strategy, listings, decisions>>

\* mark_exchange_symbol_sync_failed keeps the last snapshot and closes the universe.
MarkFailed(w) ==
    /\ syncer[w].step = "failed"
    /\ sync' = [sync EXCEPT !.status = "FAILED"]
    /\ Step(w, Idle)
    /\ UNCHANGED <<listed, known, active, control, category, admitted, strategy, budget>>

\* The process dies between any two steps; nothing records the failure.
SyncDies(w) ==
    /\ syncer[w].step # "idle" /\ faults < MaxFaults
    /\ faults' = faults + 1
    /\ Step(w, Idle)
    /\ UNCHANGED <<listed, db, strategy, listings, decisions>>

---------------------------------------------------------------------------
(* The spike process.                                                       *)

\* _cancel_blocked_entry_orders; an order of unknown fate is left for later.
CancelBlocked(b) ==
    entry' = [s \in Symbols |-> IF s \in b /\ entry[s] = "open" THEN "none" ELSE entry[s]]

Scan_nocancel(fails) ==
    /\ fails => faults < MaxFaults
    /\ faults' = IF fails THEN faults + 1 ELSE faults
    /\ blocked' = (IF fails THEN blocked ELSE Symbols \ Effective)
    /\ open' = ~fails
    /\ rules' = [attempt |-> 0, book |-> IF rules.attempt > 0 /\ ~fails THEN 0 ELSE rules.book]
    /\ UNCHANGED <<listed, db, syncer, admits, entry, listings, decisions>>

\* _refresh_exchange_symbol_admission: the rule book when it is due, then the
\* universe; a failed query blocks everything.
Scan(fails) ==
    /\ fails => faults < MaxFaults
    /\ faults' = IF fails THEN faults + 1 ELSE faults
    /\ LET due == rules.attempt > 0
           b == IF fails THEN Symbols ELSE Symbols \ Effective
       IN /\ blocked' = b
          /\ open' = ~fails
          /\ CancelBlocked(b)
          /\ rules' = [attempt |-> 0,
                       book |-> IF due /\ ~fails THEN 0 ELSE rules.book]
    /\ UNCHANGED <<listed, db, syncer, admits, listings, decisions>>

\* A failed rule fetch leaves the refresh due.
ScanRulesFail ==
    /\ faults < MaxFaults /\ rules.attempt > 0
    /\ faults' = faults + 1
    /\ blocked' = Symbols /\ open' = FALSE
    /\ CancelBlocked(Symbols)
    /\ UNCHANGED <<listed, db, syncer, admits, rules, listings, decisions>>

\* SubcategoryAdmissionService.on_universe_scan, later in the same scan: closed
\* or unreadable, it closes the gate and cancels every open entry.
AdmissionScan(fails) ==
    /\ fails => faults < MaxFaults
    /\ faults' = IF fails THEN faults + 1 ELSE faults
    /\ admits' = (admitted /\ ~fails)
    /\ CancelBlocked(IF admits' THEN {} ELSE Symbols)
    /\ UNCHANGED <<listed, db, syncer, blocked, open, rules, listings, decisions>>

\* The coordinator asks is_symbol_entry_enabled and the gate before it submits.
Enter(s) ==
    /\ entry[s] = "none" /\ open /\ admits /\ s \notin blocked
    /\ \E r \in {"open", "unknown"} : entry' = [entry EXCEPT ![s] = r]
    /\ UNCHANGED <<listed, db, syncer, blocked, open, admits, rules, budget>>

\* An unknown submission is resolved, and the admission of an order that turns
\* out to be open is checked again (reconcile_exchange_symbol_admission).
Resolve(s) ==
    /\ entry[s] = "unknown"
    /\ \E r \in {"open", "none"} :
          entry' = [entry EXCEPT ![s] = IF r = "open" /\ s \in blocked THEN "none" ELSE r]
    /\ UNCHANGED <<listed, db, syncer, blocked, open, admits, rules, budget>>

Next ==
    \/ ListingChanges \/ SyncAges \/ DayPasses \/ Decide
    \/ \E w \in Syncers : \/ Fetch(w) \/ Sync(w) \/ SeedRead(w) \/ SeedWrite(w)
                          \/ SyncBreaks(w) \/ MarkFailed(w) \/ SyncDies(w)
    \/ \E fails \in BOOLEAN : Scan(fails) \/ AdmissionScan(fails)
    \/ ScanRulesFail
    \/ \E s \in Traded : Enter(s) \/ Resolve(s)

Spec == Init /\ [][Next]_vars

\* The loops run forever: the syncer retries, the scan comes every minute, the
\* polling service resolves unknown submissions.
Fairness ==
    /\ \A w \in Syncers : WF_vars(Fetch(w) \/ Sync(w) \/ SeedRead(w) \/ SeedWrite(w) \/ MarkFailed(w))
    /\ WF_vars(Scan(FALSE)) /\ WF_vars(AdmissionScan(FALSE))
    /\ \A s \in Symbols : WF_vars(Resolve(s))

---------------------------------------------------------------------------
(* Seeding never replaces a decision: only an operator changes a switch an     *)
(* operator has set, also when two syncers and an operator race on one row.    *)
OperatorWins ==
    [][/\ \A s \in DOMAIN control : control[s].by = "operator" => control'[s].by = "operator"
       /\ \A c \in DOMAIN category : category[c].by = "operator" => category'[c].by = "operator"]_vars

(* No answer of the exchange takes more than half of the symbols away at once. *)
NoMassInactivation ==
    [][Cardinality(active) >= GuardCount => 2 * Cardinality(active') >= Cardinality(active)]_vars

(* An entry order that is open and not yet decided on is on a symbol the last  *)
(* scan allowed: blocking a symbol and cancelling its open entry is one step,  *)
(* and a submission resolved later is checked against the blocked set.         *)
OpenEntriesAllowed == \A s \in Symbols : entry[s] = "open" => s \notin blocked

(* A symbol that leaves the exchange for good, or is switched off for good     *)
(* alone or with its strategy, has no open entry any more in the end.          *)
LeavingSymbolsClose ==
    \A s \in Symbols :
        (<>[](s \notin listed \/ control[s].state = "off" \/ ~admitted)) => <>[](entry[s] = "none")

---------------------------------------------------------------------------
(* Proofs.  The inductive invariant adds to the types and to the promise about *)
(* open entries that synced_symbols counts the active rows, which is what the  *)
(* guard against a mass inactivation relies on, and that a switch an operator  *)
(* has set is decided, which is what the seeding tests before it writes.        *)
Decided(c) == c.by = "operator" => c.state # "none"

UniverseInv ==
    /\ TypeOK /\ OpenEntriesAllowed
    /\ sync.count = Cardinality(active)
    /\ \A s \in Symbols : Decided(control[s])
    /\ \A c \in Categories : Decided(category[c])

\* Sets of symbols are finite, and a set of them has at most as many members:
\* the synced_symbols column never holds more than the exchange's universe.
LEMMA SymbolsCount ==
    ASSUME ConstantsOK, NEW S, S \subseteq Symbols
    PROVE  Cardinality(S) \in 0..Cardinality(Symbols) /\ Cardinality(S) \in Nat
<1>1. IsFiniteSet(Symbols)
  BY DEF ConstantsOK
<1>2. IsFiniteSet(S) /\ Cardinality(S) <= Cardinality(Symbols)
  BY <1>1, FS_Subset
<1>3. Cardinality(S) \in Nat /\ Cardinality(Symbols) \in Nat
  BY <1>1, <1>2, FS_CardinalityType
<1> QED BY <1>2, <1>3

\* A new database is in order.
LEMMA UniverseInit == ConstantsOK /\ Init => UniverseInv
<1> SUFFICES ASSUME ConstantsOK, Init PROVE UniverseInv
  OBVIOUS
<1>1. Cardinality({}) = 0
  BY FS_EmptySet
<1>2. 0 \in 0..Cardinality(Symbols)
  BY <1>1, SymbolsCount
<1>3. TypeOK
  <2>1. sync \in SyncStates
    BY <1>2 DEF Init, SyncStates
  <2>2. control \in [Symbols -> Controls] /\ category \in [Categories -> Controls]
    BY DEF Init, NoControl, Controls
  <2>3. syncer \in [Syncers -> SyncerStates]
    BY DEF Init, Idle, SyncerStates
  <2>4. {open, admitted, admits} \subseteq BOOLEAN
    BY Zenon DEF Init
  <2> QED BY <2>1, <2>2, <2>3, <2>4 DEF Init, TypeOK, ConstantsOK
<1>4. OpenEntriesAllowed
  BY DEF Init, OpenEntriesAllowed
<1>5. /\ sync.count = Cardinality(active)
      /\ \A s \in Symbols : Decided(control[s])
      /\ \A c \in Categories : Decided(category[c])
  BY <1>1 DEF Init, NoControl, Decided
<1> QED BY <1>3, <1>4, <1>5 DEF UniverseInv

\* A syncer moves to a state of its own.
LEMMA StepTyped ==
    ASSUME TypeOK, NEW w \in Syncers, NEW r \in SyncerStates, Step(w, r)
    PROVE  syncer' \in [Syncers -> SyncerStates]
<1>1. syncer \in [Syncers -> SyncerStates]
  BY DEF TypeOK
<1> QED BY <1>1 DEF Step

\* A step that leaves the database and the strategy alone keeps the invariant.
LEMMA SyncerOnly ==
    ASSUME UniverseInv, syncer' \in [Syncers -> SyncerStates], faults' \in 0..MaxFaults,
           UNCHANGED <<listed, db, strategy, listings, decisions>>
    PROVE  UniverseInv'
<1>1. /\ listed' = listed /\ listings' = listings /\ decisions' = decisions
      /\ known' = known /\ active' = active /\ control' = control /\ category' = category
      /\ admitted' = admitted /\ sync' = sync
  BY DEF db
<1>2. blocked' = blocked /\ open' = open /\ admits' = admits /\ entry' = entry /\ rules' = rules
  BY DEF strategy
<1>3. TypeOK'
  BY <1>1, <1>2 DEF UniverseInv, TypeOK
<1>4. OpenEntriesAllowed'
  BY <1>2 DEF UniverseInv, OpenEntriesAllowed
<1> QED BY <1>1, <1>3, <1>4 DEF UniverseInv, Decided

\* The sync service and its command: a snapshot of the exchange is written with
\* its count, and the seeding writes only rows nobody has decided.
LEMMA SyncerStep ==
    ASSUME ConstantsOK, UniverseInv, NEW w \in Syncers,
           \/ Fetch(w) \/ Sync(w) \/ SeedRead(w) \/ SeedWrite(w)
           \/ SyncBreaks(w) \/ MarkFailed(w) \/ SyncDies(w)
    PROVE  UniverseInv'
<1>1. TypeOK /\ syncer[w] \in SyncerStates /\ syncer[w].info \subseteq Symbols
  BY DEF UniverseInv, TypeOK, SyncerStates
<1>2. Idle \in SyncerStates /\ [Idle EXCEPT !.step = "failed"] \in SyncerStates
  BY DEF Idle, SyncerStates
<1>3. \A x \in {"synced", "failed"} : [syncer[w] EXCEPT !.step = x] \in SyncerStates
  BY <1>1 DEF SyncerStates
<1>4. faults < MaxFaults => faults + 1 \in 0..MaxFaults
  BY DEF UniverseInv, TypeOK, ConstantsOK
<1>5. faults \in 0..MaxFaults
  BY <1>1 DEF TypeOK
<1>6. CASE Fetch(w)
  <2>1. [Idle EXCEPT !.step = "fetched", !.info = listed] \in SyncerStates
    BY <1>1, Zenon DEF Idle, SyncerStates, TypeOK
  <2> QED BY <1>1, <1>5, <1>6, <2>1, StepTyped, SyncerOnly DEF Fetch, budget
<1>7. CASE Sync(w)
  <2>1. CASE Dropped(w)
    BY <1>1, <1>3, <1>5, <1>7, <2>1, StepTyped, SyncerOnly DEF Sync, db, budget
  <2>2. CASE ~Dropped(w)
    <3>1. /\ known' = known \cup syncer[w].info /\ active' = syncer[w].info
          /\ sync' = [status |-> "SUCCESS", fresh |-> TRUE, count |-> Cardinality(syncer[w].info)]
          /\ Step(w, [syncer[w] EXCEPT !.step = "synced"])
          /\ UNCHANGED <<listed, control, category, admitted, strategy, budget>>
      BY <1>7, <2>2, Zenon DEF Sync, Replace
    <3>2. Cardinality(syncer[w].info) \in 0..Cardinality(Symbols)
      BY <1>1, SymbolsCount
    <3>3. sync' \in SyncStates /\ sync'.count = Cardinality(active')
      BY <3>1, <3>2 DEF SyncStates
    <3>4. syncer' \in [Syncers -> SyncerStates]
      BY <1>1, <1>3, <3>1, StepTyped
    <3>5. active' \subseteq known' /\ known' \subseteq Symbols
      BY <1>1, <3>1 DEF TypeOK
    <3>6. blocked' = blocked /\ open' = open /\ admits' = admits /\ entry' = entry /\ rules' = rules
      BY <3>1 DEF strategy
    <3>7. TypeOK'
      BY <1>1, <3>1, <3>3, <3>4, <3>5, <3>6 DEF TypeOK, budget
    <3>8. OpenEntriesAllowed'
      BY <3>6 DEF UniverseInv, OpenEntriesAllowed
    <3> QED BY <3>1, <3>3, <3>7, <3>8 DEF UniverseInv, Decided
  <2> QED BY <2>1, <2>2
<1>8. CASE SeedRead(w)
  <2> DEFINE missing == {s \in Mainstream \cap known : control[s].state = "none"}
  <2>1. [step |-> "seeding", info |-> syncer[w].info, missing |-> missing] \in SyncerStates
    BY <1>1 DEF SyncerStates, TypeOK
  <2> QED BY <1>1, <1>5, <1>8, <2>1, StepTyped, SyncerOnly DEF SeedRead, budget
<1>9. CASE SeedWrite(w)
  <2>1. CASE UNCHANGED <<control, category>>
    <3>1. syncer' \in [Syncers -> SyncerStates]
      BY <1>1, <1>2, <1>3, <1>9, StepTyped DEF SeedWrite
    <3> QED BY <1>5, <1>9, <2>1, <3>1, SyncerOnly DEF SeedWrite, db, budget
  <2>2. CASE ~UNCHANGED <<control, category>>
    <3> DEFINE off == [state |-> "off", by |-> "system"]
    <3>1. /\ control' = [s \in Symbols |-> IF s \in syncer[w].missing THEN off ELSE control[s]]
          /\ category' = [c \in Categories |-> IF c \notin Coin /\ category[c].state = "none"
                                                  /\ \E s \in active : CategoryOf(s) = c
                          THEN off ELSE category[c]]
          /\ Step(w, Idle)
          /\ UNCHANGED <<listed, known, active, admitted, sync, strategy, budget>>
      BY <1>9, <2>2, Zenon DEF SeedWrite
    <3>2. off \in Controls /\ Decided(off)
      BY DEF Controls, Decided
    <3> HIDE DEF off
    <3>3. /\ control' \in [Symbols -> Controls] /\ category' \in [Categories -> Controls]
          /\ \A s \in Symbols : Decided(control'[s])
          /\ \A c \in Categories : Decided(category'[c])
      BY <3>1, <3>2 DEF UniverseInv, TypeOK
    <3>4. syncer' \in [Syncers -> SyncerStates]
      BY <1>1, <1>2, <3>1, StepTyped
    <3>5. blocked' = blocked /\ open' = open /\ admits' = admits /\ entry' = entry /\ rules' = rules
      BY <3>1 DEF strategy
    <3>6. TypeOK'
      BY <1>1, <3>1, <3>3, <3>4, <3>5 DEF TypeOK, budget
    <3>7. OpenEntriesAllowed'
      BY <3>5 DEF UniverseInv, OpenEntriesAllowed
    <3> QED BY <3>1, <3>3, <3>6, <3>7 DEF UniverseInv
  <2> QED BY <2>1, <2>2
<1>10. CASE SyncBreaks(w)
  BY <1>1, <1>2, <1>4, <1>10, StepTyped, SyncerOnly DEF SyncBreaks
<1>11. CASE MarkFailed(w)
  <2>1. /\ sync' = [sync EXCEPT !.status = "FAILED"] /\ Step(w, Idle)
        /\ UNCHANGED <<listed, known, active, control, category, admitted, strategy, budget>>
    BY <1>11 DEF MarkFailed
  <2>2. sync' \in SyncStates /\ sync'.count = sync.count
    BY <1>1, <2>1 DEF TypeOK, SyncStates
  <2>3. syncer' \in [Syncers -> SyncerStates]
    BY <1>1, <1>2, <2>1, StepTyped
  <2>4. blocked' = blocked /\ open' = open /\ admits' = admits /\ entry' = entry /\ rules' = rules
    BY <2>1 DEF strategy
  <2>5. TypeOK'
    BY <1>1, <2>1, <2>2, <2>3, <2>4 DEF TypeOK, budget
  <2>6. OpenEntriesAllowed'
    BY <2>4 DEF UniverseInv, OpenEntriesAllowed
  <2> QED BY <2>1, <2>2, <2>5, <2>6 DEF UniverseInv, Decided
<1>12. CASE SyncDies(w)
  BY <1>1, <1>2, <1>4, <1>12, StepTyped, SyncerOnly DEF SyncDies
<1> QED BY <1>6, <1>7, <1>8, <1>9, <1>10, <1>11, <1>12

\* The spike process: a scan cancels what it blocks, an admission that closes
\* cancels everything, an order that resolves to open is checked again.
LEMMA StrategyStep ==
    ASSUME ConstantsOK, UniverseInv,
           \/ \E fails \in BOOLEAN : Scan(fails) \/ AdmissionScan(fails)
           \/ ScanRulesFail
           \/ \E s \in Traded : Enter(s) \/ Resolve(s)
    PROVE  UniverseInv'
<1> USE DEF UniverseInv
<1>1. ASSUME NEW fails \in BOOLEAN, Scan(fails) PROVE UniverseInv'
  <2>1. blocked' \subseteq Symbols /\ CancelBlocked(blocked')
    BY <1>1 DEF Scan
  <2>2. entry' \in [Symbols -> {"none", "unknown", "open"}] /\ OpenEntriesAllowed'
    BY <2>1 DEF CancelBlocked, OpenEntriesAllowed, TypeOK
  <2>3. rules' \in [book : 0..MaxDays, attempt : 0..MaxDays] /\ faults' \in 0..MaxFaults
    BY <1>1 DEF Scan, TypeOK, ConstantsOK
  <2>4. open' \in BOOLEAN
    BY <1>1, Zenon DEF Scan
  <2>5. UNCHANGED <<listed, db, syncer, admits, listings, decisions>>
    BY <1>1 DEF Scan
  <2> QED BY <2>1, <2>2, <2>3, <2>4, <2>5 DEF TypeOK, Decided, db
<1>2. ASSUME NEW fails \in BOOLEAN, AdmissionScan(fails) PROVE UniverseInv'
  <2>1. entry' \in [Symbols -> {"none", "unknown", "open"}] /\ OpenEntriesAllowed'
    BY <1>2 DEF AdmissionScan, CancelBlocked, OpenEntriesAllowed, TypeOK
  <2>2. faults' \in 0..MaxFaults
    BY <1>2 DEF AdmissionScan, TypeOK, ConstantsOK
  <2>3. admits' \in BOOLEAN
    BY <1>2, Zenon DEF AdmissionScan
  <2>4. UNCHANGED <<listed, db, syncer, blocked, open, rules, listings, decisions>>
    BY <1>2 DEF AdmissionScan
  <2> QED BY <2>1, <2>2, <2>3, <2>4 DEF TypeOK, Decided, db
<1>3. CASE ScanRulesFail
  <2>1. entry' \in [Symbols -> {"none", "unknown", "open"}] /\ OpenEntriesAllowed'
    BY <1>3 DEF ScanRulesFail, CancelBlocked, OpenEntriesAllowed, TypeOK
  <2>2. faults' \in 0..MaxFaults /\ blocked' = Symbols /\ open' = FALSE
    BY <1>3 DEF ScanRulesFail, TypeOK, ConstantsOK
  <2>3. UNCHANGED <<listed, db, syncer, admits, rules, listings, decisions>>
    BY <1>3 DEF ScanRulesFail
  <2> QED BY <2>1, <2>2, <2>3, Zenon DEF TypeOK, Decided, db
<1>4. ASSUME NEW s \in Traded, Enter(s) \/ Resolve(s) PROVE UniverseInv'
  <2>1. entry' \in [Symbols -> {"none", "unknown", "open"}] /\ OpenEntriesAllowed'
    BY <1>4 DEF Enter, Resolve, OpenEntriesAllowed, TypeOK, ConstantsOK
  <2>2. UNCHANGED <<listed, db, syncer, blocked, open, admits, rules, budget>>
    BY <1>4 DEF Enter, Resolve
  <2> QED BY <2>1, <2>2 DEF TypeOK, Decided, db, budget
<1> QED BY <1>1, <1>2, <1>3, <1>4

\* The exchange, the clock and the operators: they touch neither the blocked set
\* nor the entries, and a decision leaves a decided switch.
LEMMA OutsideStep ==
    ASSUME ConstantsOK, UniverseInv, ListingChanges \/ SyncAges \/ DayPasses \/ Decide
    PROVE  UniverseInv'
<1> USE DEF UniverseInv
<1>1. CASE ListingChanges
  <2>1. listed' \subseteq Symbols
    BY <1>1 DEF ListingChanges, TypeOK
  <2>2. listings' \in 0..MaxListings
    BY <1>1 DEF ListingChanges, TypeOK, ConstantsOK
  <2>3. UNCHANGED <<db, syncer, strategy, decisions, faults>>
    BY <1>1 DEF ListingChanges
  <2> QED BY <2>1, <2>2, <2>3 DEF TypeOK, OpenEntriesAllowed, Decided, db, strategy
<1>2. CASE SyncAges
  <2>1. /\ sync' \in SyncStates
        /\ sync'.count = sync.count
    BY <1>2, Zenon DEF SyncAges, TypeOK, SyncStates
  <2>2. faults' \in 0..MaxFaults
    BY <1>2 DEF SyncAges, TypeOK, ConstantsOK
  <2>3. UNCHANGED <<listed, known, active, control, category, admitted, syncer, strategy, listings, decisions>>
    BY <1>2 DEF SyncAges
  <2> QED BY <2>1, <2>2, <2>3 DEF TypeOK, OpenEntriesAllowed, Decided, strategy
<1>3. CASE DayPasses
  BY <1>3 DEF DayPasses, TypeOK, OpenEntriesAllowed, Decided, db, budget, ConstantsOK
<1>4. CASE Decide
  <2>1. /\ control' \in [Symbols -> Controls] /\ category' \in [Categories -> Controls]
        /\ \A s \in Symbols : Decided(control'[s])
        /\ \A c \in Categories : Decided(category'[c])
    <3>1. \A b \in {"on", "off"} : [state |-> b, by |-> "operator"] \in Controls
                                     /\ Decided([state |-> b, by |-> "operator"])
      BY DEF Controls, Decided
    <3>2. CASE SetSymbol
      BY <3>1, <3>2 DEF SetSymbol, TypeOK
    <3>3. CASE SetCategory
      BY <3>1, <3>3 DEF SetCategory, TypeOK
    <3>4. CASE UNCHANGED <<control, category>>
      BY <3>4 DEF TypeOK
    <3> QED BY <1>4, <3>2, <3>3, <3>4 DEF Decide, SetSubcategory
  <2>2. admitted' \in BOOLEAN
    BY <1>4, Zenon DEF Decide, SetSymbol, SetCategory, SetSubcategory, TypeOK
  <2>3. decisions' \in 0..MaxDecisions
    BY <1>4 DEF Decide, TypeOK, ConstantsOK
  <2>4. UNCHANGED <<listed, known, active, sync, syncer, strategy, listings, faults>>
    BY <1>4 DEF Decide
  <2> QED BY <2>1, <2>2, <2>3, <2>4 DEF TypeOK, OpenEntriesAllowed, strategy
<1> QED BY <1>1, <1>2, <1>3, <1>4

\* Every step of every process keeps the invariant.
LEMMA UniverseStep == ConstantsOK /\ UniverseInv /\ [Next]_vars => UniverseInv'
<1> SUFFICES ASSUME ConstantsOK, UniverseInv, [Next]_vars PROVE UniverseInv'
  OBVIOUS
<1>1. CASE UNCHANGED vars
  BY <1>1 DEF vars, db, strategy, budget, UniverseInv, TypeOK, OpenEntriesAllowed, Decided
<1>2. CASE Next
  BY <1>2, SyncerStep, StrategyStep, OutsideStep DEF Next
<1> QED BY <1>1, <1>2

\* For any universe, guard and number of listings, decisions and faults, the
\* invariant holds in every state the syncers, operators and scans reach.
THEOREM UniverseInvariant ==
    ASSUME ConstantsOK PROVE Spec => []UniverseInv
<1>1. Init => UniverseInv
  BY UniverseInit
<1>2. UniverseInv /\ [Next]_vars => UniverseInv'
  BY UniverseStep
<1> QED BY <1>1, <1>2, PTL DEF Spec

\* An open entry is on a symbol the last scan allowed: _cancel_blocked_entry_orders
\* and reconcile_exchange_symbol_admission leave none on a blocked one.
THEOREM EntriesAreAllowed ==
    ASSUME ConstantsOK PROVE Spec => []OpenEntriesAllowed
<1>1. UniverseInv => OpenEntriesAllowed
  BY DEF UniverseInv
<1> QED BY <1>1, UniverseInvariant, PTL

\* Neither the seeding of any syncer nor anything else but an operator changes a
\* switch an operator has set (seed_exchange_symbol_admissions).
THEOREM OperatorDecidesAlone ==
    ASSUME ConstantsOK PROVE Spec => OperatorWins
<1> DEFINE Kept == /\ \A s \in DOMAIN control : control[s].by = "operator" => control'[s].by = "operator"
                   /\ \A c \in DOMAIN category : category[c].by = "operator" => category'[c].by = "operator"
<1>1. UniverseInv /\ [Next]_vars => [Kept]_vars
  <2> SUFFICES ASSUME UniverseInv, Next PROVE Kept
    OBVIOUS
  <2>1. CASE UNCHANGED <<control, category>>
    BY <2>1
  <2>2. CASE Decide
    <3>1. DOMAIN control = Symbols /\ DOMAIN category = Categories
      BY DEF UniverseInv, TypeOK
    <3>2. CASE SetSymbol
      BY <3>1, <3>2 DEF SetSymbol
    <3>3. CASE SetCategory
      BY <3>1, <3>3 DEF SetCategory
    <3> QED BY <2>1, <2>2, <3>2, <3>3 DEF Decide, SetSubcategory
  <2>3. ASSUME NEW w \in Syncers, SeedWrite(w), ~UNCHANGED <<control, category>>
        PROVE  Kept
    <3>1. DOMAIN control = Symbols /\ DOMAIN category = Categories
      BY DEF UniverseInv, TypeOK
    <3>2. /\ \A s \in syncer[w].missing : control[s].state = "none"
          /\ control' = [s \in Symbols |-> IF s \in syncer[w].missing
                         THEN [state |-> "off", by |-> "system"] ELSE control[s]]
          /\ category' = [c \in Categories |-> IF c \notin Coin /\ category[c].state = "none"
                                                  /\ \E s \in active : CategoryOf(s) = c
                          THEN [state |-> "off", by |-> "system"] ELSE category[c]]
      BY <2>3, Zenon DEF SeedWrite
    <3>3. /\ \A s \in Symbols : Decided(control[s])
          /\ \A c \in Categories : Decided(category[c])
      BY DEF UniverseInv
    <3> QED BY <3>1, <3>2, <3>3 DEF Decided
  <2>4. ASSUME NEW w \in Syncers,
               Fetch(w) \/ Sync(w) \/ SeedRead(w) \/ SyncBreaks(w) \/ MarkFailed(w) \/ SyncDies(w)
        PROVE  UNCHANGED <<control, category>>
    BY <2>4 DEF Fetch, Sync, SeedRead, SyncBreaks, MarkFailed, SyncDies, db
  <2>5. ASSUME \/ ListingChanges \/ SyncAges \/ DayPasses \/ ScanRulesFail
               \/ \E fails \in BOOLEAN : Scan(fails) \/ AdmissionScan(fails)
               \/ \E s \in Traded : Enter(s) \/ Resolve(s)
        PROVE  UNCHANGED <<control, category>>
    BY <2>5 DEF ListingChanges, SyncAges, DayPasses, ScanRulesFail, Scan, AdmissionScan, Enter, Resolve, db
  <2> QED BY <2>1, <2>2, <2>3, <2>4, <2>5 DEF Next
<1> QED BY <1>1, UniverseInvariant, PTL DEF Spec, OperatorWins

\* No step takes more than half of the active symbols away once there are as many
\* as the guard of sync_exchange_symbols asks for.
THEOREM NoMassLoss ==
    ASSUME ConstantsOK PROVE Spec => NoMassInactivation
<1> DEFINE Half == Cardinality(active) >= GuardCount => 2 * Cardinality(active') >= Cardinality(active)
<1>1. UniverseInv /\ UniverseInv' /\ [Next]_vars => [Half]_vars
  <2> SUFFICES ASSUME UniverseInv, UniverseInv', Next PROVE Half
    OBVIOUS
  <2>1. Cardinality(active) \in Nat /\ Cardinality(active') \in Nat
    <3>1. active \subseteq Symbols /\ active' \subseteq Symbols
      BY DEF UniverseInv, TypeOK
    <3> QED BY <3>1, SymbolsCount
  <2>2. CASE active' = active
    BY <2>1, <2>2
  <2>3. ASSUME NEW w \in Syncers, Sync(w), active' # active PROVE Half
    <3>1. ~Dropped(w) /\ active' = syncer[w].info
      BY <2>3 DEF Sync, Replace
    <3>2. sync.count = Cardinality(active) /\ GuardCount \in Nat
      BY DEF UniverseInv, ConstantsOK
    <3> QED BY <2>1, <3>1, <3>2 DEF Dropped
  <2>4. ASSUME NEW w \in Syncers,
               Fetch(w) \/ SeedRead(w) \/ SeedWrite(w) \/ SyncBreaks(w) \/ MarkFailed(w) \/ SyncDies(w)
        PROVE  active' = active
    BY <2>4 DEF Fetch, SeedRead, SeedWrite, SyncBreaks, MarkFailed, SyncDies, db
  <2>5. ASSUME \/ ListingChanges \/ SyncAges \/ DayPasses \/ Decide \/ ScanRulesFail
               \/ \E fails \in BOOLEAN : Scan(fails) \/ AdmissionScan(fails)
               \/ \E s \in Traded : Enter(s) \/ Resolve(s)
        PROVE  active' = active
    BY <2>5 DEF ListingChanges, SyncAges, DayPasses, Decide, ScanRulesFail, Scan, AdmissionScan, Enter, Resolve, db
  <2> QED BY <2>2, <2>3, <2>4, <2>5 DEF Next
<1> QED BY <1>1, UniverseInvariant, PTL DEF Spec, NoMassInactivation

=============================================================================
