------------------------------ MODULE Campaign ------------------------------
(***************************************************************************)
(* One spike_short process trading one Campaign at a time: the Redis       *)
(* lease, the local FIFO arbiter, the priority execution queue with its    *)
(* PostgreSQL job rows, the single execution worker, the User Stream       *)
(* callbacks and the strategy's Campaign timing, across crashes.  The      *)
(* tasks share one asyncio loop: an action is the code between two awaits. *)
(* A Campaign has one entry order of two lots, named by the Campaign       *)
(* (single-entry); an exit is a reduce-only market order.                  *)
(* Submission is acknowledged; what happens inside submit, when the answer *)
(* is lost or an order is in doubt is OrderExecution.                      *)
(***************************************************************************)
EXTENDS Naturals, Sequences, FiniteSets, FiniteSetsExt

CONSTANTS
  Campaigns,          \* campaign ids; also the ids of their entry orders
  Exits,              \* client ids of reduce-only exits
  Symbols,
  SymbolOf,           \* [Campaigns -> Symbols]
  FirstEvents,        \* which event of a fill the exchange may send first
  PartialFills,       \* whether an entry may fill in two trades
  MaxCrashes, MaxDisconnects

ConstantsOK ==
  /\ SymbolOf \in [Campaigns -> Symbols]
  /\ FirstEvents \subseteq {"account", "trade"}
  /\ PartialFills \in BOOLEAN /\ MaxCrashes \in Nat /\ MaxDisconnects \in Nat

Orders == Campaigns \cup Exits
Tasks == {"worker", "stream", "recovery"}
CampaignOrNone == Campaigns \cup {"none"}

VARIABLES
  \* external: the exchange
  exch,       \* order status at the exchange
  xpos,       \* open lots by symbol
  fills,      \* number of fills by symbol: the exchange time of the last one
  xtrades,    \* the trades so far
  events,     \* user stream events not yet handled
  \* durable
  lease,      \* Redis: the active Campaign
  wal,        \* latest WAL status of each order
  trades,     \* the trades in PostgreSQL
  jobs,       \* strategy_execution_jobs
  settles,    \* capital settlements applied for each Campaign
  exit,       \* what each exit was decided for and submitted under
  \* the process
  phase, owned, active, shut, queue, inflight, lock, pc, job, ev,
  pos, posAt, pending, cancels,
  signals, placed, activeSymbol, timing, pendingTiming, exitReq,
  recovered, processed,
  failed,     \* why the process stopped by itself
  crashes, drops

exVars == <<exch, xpos, fills, xtrades, events>>
dbVars == <<lease, wal, trades, jobs, settles, exit>>
gateVars == <<owned, active, shut, lock>>
runVars == <<queue, inflight, pc, job, ev>>
accVars == <<pos, posAt, pending, cancels, processed>>
timeVars == <<activeSymbol, timing, pendingTiming, exitReq>>
stratVars == <<signals, placed, recovered, timeVars>>
lifeVars == <<phase, failed, crashes, drops>>
vars == <<exVars, dbVars, gateVars, runVars, accVars, stratVars, lifeVars>>

OrderSymbol(o) == IF o \in Campaigns THEN SymbolOf[o] ELSE exit[o].symbol
Terminal == {"FILLED", "CANCELED", "REJECTED"}
Open == {"NEW", "PARTIALLY_FILLED"}
NoExit == [symbol |-> "none", for |-> "none", under |-> "none", q |-> 0]
NoEvent == [kind |-> "none", t |-> [o |-> "none", s |-> "none", n |-> 0, q |-> 0],
            status |-> "none", lots |-> 0]
EmptyQueue == [exits |-> <<>>, cancel |-> FALSE, entries |-> <<>>]
AllShut == {"campaign", "execution", "event_queue"}

TypeOK ==
  /\ exch \in [Orders -> {"none", "CANCELED", "FILLED"} \cup Open]
  /\ xpos \in [Symbols -> 0..2] /\ pos \in [Symbols -> 0..2]
  /\ fills \in [Symbols -> Nat] /\ posAt \in [Symbols -> Nat]
  /\ pending \in [Symbols -> Nat]
  /\ lease \in CampaignOrNone /\ owned \in CampaignOrNone /\ active \in CampaignOrNone
  /\ wal \in [Orders -> {"none", "intent"} \cup Open \cup Terminal]
  /\ trades \subseteq xtrades /\ cancels \subseteq Campaigns
  /\ jobs \in [Orders -> {"none", "pending", "finished"}]
  /\ settles \in [Campaigns -> Nat] /\ inflight \in 0..1
  /\ shut \subseteq AllShut /\ lock \in Tasks \cup {"none"}
  /\ signals \subseteq placed \cup Campaigns /\ placed \subseteq Campaigns
  /\ timing \in [Symbols -> CampaignOrNone]
  /\ pendingTiming \in [Symbols -> CampaignOrNone]
  /\ exitReq \subseteq Symbols /\ recovered \subseteq Exits
  /\ activeSymbol \in Symbols \cup {"none"} /\ processed \subseteq xtrades
  /\ phase \in {"down", "booting", "synced", "starting", "running", "reconciling"}

-----------------------------------------------------------------------------
(* Fresh process *)

NoTiming == [s \in Symbols |-> "none"]
Zero == [s \in Symbols |-> 0]

Fresh ==
  /\ owned' = "none" /\ active' = "none" /\ shut' = AllShut /\ lock' = "none"
  /\ queue' = EmptyQueue /\ inflight' = 0 /\ job' = "none" /\ ev' = NoEvent
  /\ pc' = [t \in Tasks |-> "idle"]
  /\ pos' = Zero /\ posAt' = Zero /\ pending' = Zero /\ cancels' = {} /\ processed' = {}
  /\ signals' = {} /\ timing' = NoTiming /\ activeSymbol' = "none"
  /\ pendingTiming' = NoTiming /\ exitReq' = {} /\ recovered' = {}
  /\ UNCHANGED placed

Init ==
  /\ exch = [o \in Orders |-> "none"] /\ xpos = Zero /\ fills = Zero
  /\ xtrades = {} /\ events = <<>>
  /\ lease = "none" /\ wal = [o \in Orders |-> "none"] /\ trades = {}
  /\ jobs = [o \in Orders |-> "none"] /\ settles = [c \in Campaigns |-> 0]
  /\ exit = [e \in Exits |-> NoExit]
  /\ owned = "none" /\ active = "none" /\ shut = AllShut /\ lock = "none"
  /\ queue = EmptyQueue /\ inflight = 0 /\ job = "none" /\ ev = NoEvent
  /\ pc = [t \in Tasks |-> "idle"]
  /\ pos = Zero /\ posAt = Zero /\ pending = Zero /\ cancels = {} /\ processed = {}
  /\ signals = {} /\ placed = {} /\ timing = NoTiming /\ activeSymbol = "none"
  /\ pendingTiming = NoTiming /\ exitReq = {} /\ recovered = {}
  /\ phase = "down" /\ failed = "none" /\ crashes = 0 /\ drops = 0

\* Any exception that reaches a supervised task ends the process; the
\* supervisor starts it again.  Open entries may be cancelled on the way out.
Die(why) ==
  /\ phase' = "down" /\ failed' = why /\ events' = <<>>
  /\ Fresh

Up == phase \in {"running", "reconciling"}
Listening == Up \/ phase = "starting"

-----------------------------------------------------------------------------
(* Strategy: signals, entries, exits *)

\* DynamicSpikeShortStrategy._has_live_campaign over the account view, where an
\* order that has no answer yet counts as SUBMIT_UNKNOWN.
HasLiveCampaign(s) ==
  \/ \E c \in signals : SymbolOf[c] = s
  \/ pos[s] > 0
  \/ \E o \in Orders : OrderSymbol(o) = s /\ wal[o] \in Open \cup {"intent"}

\* on_bar1s detects a signal; active_symbol silences the other symbols.
Detect(c) ==
  /\ Up /\ shut = {} /\ c \notin placed /\ c \notin signals
  /\ activeSymbol \in {"none", SymbolOf[c]} /\ ~HasLiveCampaign(SymbolOf[c])
  /\ signals' = signals \cup {c} /\ activeSymbol' = SymbolOf[c]
  /\ UNCHANGED <<exVars, dbVars, gateVars, runVars, accVars, placed, recovered, timing,
                 pendingTiming, exitReq, lifeVars>>

\* _manage_signals emits the entry once; _enqueue_intents drops it when the
\* gate is shut or another Campaign holds the arbiter, else saves its job row
\* and queues it.  (The arbiter admits one entry at a time, so the bound
\* max_pending_entries is out of reach.)
Place(c) ==
  /\ Up /\ c \in signals /\ c \notin placed
  /\ placed' = placed \cup {c}
  /\ \/ /\ shut # {} \/ active # "none"
        /\ UNCHANGED <<jobs, active, queue>>
     \/ /\ shut = {} /\ active = "none"
        /\ active' = c /\ jobs' = [jobs EXCEPT ![c] = "pending"]
        /\ queue' = [queue EXCEPT !.entries = Append(@, c)]
  /\ UNCHANGED <<exVars, lease, wal, trades, settles, exit, owned, shut, lock, inflight,
                 pc, job, ev, accVars, signals, recovered, timeVars, lifeVars>>

RequestCancel(c) ==
  /\ cancels' = IF wal[c] \in Open THEN cancels \cup {c} ELSE cancels
  /\ queue' = [queue EXCEPT !.cancel = @ \/ cancels' # {}]

\* The signal expires or its invalid price is touched.
ExpireSignal(c) ==
  /\ Up /\ c \in signals
  /\ signals' = signals \ {c} /\ placed' = placed \cup {c} /\ RequestCancel(c)
  /\ UNCHANGED <<exVars, dbVars, gateVars, inflight, pc, job, ev, pos, posAt, pending,
                 processed, recovered, timeVars, lifeVars>>

\* The TTL task of an acknowledged entry order.
ExpireOrder(c) ==
  /\ Up /\ wal[c] \in Open /\ c \notin cancels /\ RequestCancel(c)
  /\ UNCHANGED <<exVars, dbVars, gateVars, inflight, pc, job, ev, pos, posAt, pending,
                 processed, stratVars, lifeVars>>

\* The end of on_bar1s: a symbol with a live Campaign becomes the active one,
\* and the bar that finds none resets the Campaign timing.
EndBar(s) ==
  /\ Up
  /\ \/ /\ activeSymbol = "none" /\ HasLiveCampaign(s) /\ activeSymbol' = s
        /\ UNCHANGED <<timing, pendingTiming, exitReq>>
     \/ /\ activeSymbol = s /\ ~HasLiveCampaign(s) /\ activeSymbol' = "none"
        /\ timing' = [timing EXCEPT ![s] = "none"]
        /\ pendingTiming' = [pendingTiming EXCEPT ![s] = "none"]
        /\ exitReq' = exitReq \ {s}
  /\ UNCHANGED <<exVars, dbVars, gateVars, runVars, accVars, signals, placed, recovered,
                 lifeVars>>

\* _manage_candidate_exit: entries of the Campaign still open are cancelled
\* and the account must have settled; then the position is closed, once.
DecideExit(s, e) ==
  /\ Up /\ timing[s] # "none" /\ pos[s] > 0 /\ s \notin exitReq
  /\ \/ /\ wal[timing[s]] \in Open /\ timing[s] \notin cancels
        /\ RequestCancel(timing[s])
        /\ UNCHANGED <<jobs, exit, exitReq>>
     \/ /\ wal[timing[s]] \notin Open /\ cancels = {} /\ pending[s] = 0 /\ jobs[e] = "none"
        /\ exitReq' = exitReq \cup {s} /\ jobs' = [jobs EXCEPT ![e] = "pending"]
        /\ exit' = [exit EXCEPT ![e] = [symbol |-> s, for |-> timing[s], under |-> "none",
                                       q |-> pos[s]]]
        /\ queue' = [queue EXCEPT !.exits = Append(@, e)]
        /\ UNCHANGED cancels
  /\ UNCHANGED <<exVars, lease, wal, trades, settles, gateVars, inflight, pc, job, ev, pos,
                 posAt, pending, processed, signals, placed, recovered, activeSymbol,
                 timing, pendingTiming, lifeVars>>

-----------------------------------------------------------------------------
(* Execution worker *)

At(t, label) == Listening /\ pc[t] = label
Goto(t, label) == pc' = [pc EXCEPT ![t] = label]

\* Priorities: exit, then cancel, then entry.
NextJob ==
  IF queue.exits # <<>> THEN Head(queue.exits)
  ELSE IF queue.cancel THEN "cancel"
  ELSE IF queue.entries # <<>> THEN Head(queue.entries) ELSE "none"

Without(q, j) ==
  IF j = "cancel" THEN [q EXCEPT !.cancel = FALSE]
  ELSE IF j \in Exits THEN [q EXCEPT !.exits = Tail(@)]
  ELSE [q EXCEPT !.entries = Tail(@)]

\* prepare_recovered_exit: done, retry, or go.
PrepareRecoveredExit(e) ==
  IF e \notin recovered THEN "go"
  ELSE IF wal[e] # "none" THEN "done"
  ELSE IF pending[exit[e].symbol] > 0
          \/ \E o \in Orders : OrderSymbol(o) = exit[e].symbol /\ wal[o] = "intent"
    THEN "retry"
  ELSE IF pos[exit[e].symbol] = 0 THEN "done" ELSE "go"

\* ExecutionWorker takes a job; an exit that cannot run yet (unsettled
\* account, execution gate closed) goes to the back of the exits.
TakeJob ==
  /\ Up /\ At("worker", "idle") /\ NextJob # "none"
  /\ LET j == NextJob
         q == Without(queue, j)
         verdict == IF j \in Exits THEN PrepareRecoveredExit(j) ELSE "go" IN
     \/ /\ verdict = "retry" \/ (verdict = "go" /\ j \in Exits /\ "execution" \in shut)
        /\ queue' = [q EXCEPT !.exits = Append(@, j)]
        /\ UNCHANGED <<pc, job, inflight>>
     \/ /\ verdict = "done" /\ queue' = q /\ job' = j /\ Goto("worker", "finish")
        /\ UNCHANGED inflight
     \/ /\ verdict = "go" /\ j \in Exits /\ "execution" \notin shut /\ lock = "none"
        /\ queue' = q /\ job' = j /\ inflight' = inflight + 1 /\ Goto("worker", "post")
     \/ /\ j \notin Exits /\ queue' = q /\ job' = j
        /\ Goto("worker", IF j = "cancel" THEN "flush" ELSE "admit")
        /\ UNCHANGED inflight
  /\ UNCHANGED <<exVars, dbVars, gateVars, ev, accVars, stratVars, lifeVars>>

\* _skip_queued_entry
Skip(c) ==
  /\ active' = IF owned = "none" /\ active = c THEN "none" ELSE active
  /\ Goto("worker", "flush")

\* _execute for an entry, under the Campaign lock: stale, lost or expired
\* entries are skipped, the Redis lease is acquired (SET NX) or adopted, and
\* the risk guard has the last word.
Admit ==
  /\ At("worker", "admit") /\ lock = "none"
  /\ LET c == job  mine == owned = c \/ lease \in {"none", c} IN
     \/ /\ shut # {} \/ active # c \/ c \notin signals \/ ~mine
        /\ shut' = IF shut = {} /\ active = c /\ c \in signals THEN {"campaign"} ELSE shut
        /\ Skip(c) /\ UNCHANGED <<lease, owned, inflight>>
     \/ /\ shut = {} /\ active = c /\ c \in signals /\ mine
        /\ owned' = c /\ lease' = IF lease = "none" THEN c ELSE lease
        /\ \/ inflight' = inflight + 1 /\ Goto("worker", "post")
           \/ inflight' = inflight /\ Goto("worker", "flush")
        /\ UNCHANGED <<active, shut>>
  /\ UNCHANGED <<exVars, wal, trades, jobs, settles, exit, lock, queue, job, ev, accVars,
                 stratVars, lifeVars>>

Connected == phase # "down" /\ ("execution" \notin shut \/ phase # "running")

\* external: q lots of o trade and leave the order in status; a trade is told
\* to the stream by an account update and an order report, in either order.
Trade(o, s, q, status, lots) ==
  LET t == [o |-> o, s |-> s, n |-> fills[s] + 1, q |-> q]
      a == [kind |-> "account", t |-> t, status |-> "none", lots |-> lots]
      r == [kind |-> "trade", t |-> t, status |-> status, lots |-> 0] IN
  /\ exch' = [exch EXCEPT ![o] = status] /\ xpos' = [xpos EXCEPT ![s] = lots]
  /\ fills' = [fills EXCEPT ![s] = @ + 1] /\ xtrades' = xtrades \cup {t}
  /\ \E first \in FirstEvents :
       events' = events \o (IF ~Connected THEN <<>>
                            ELSE IF first = "account" THEN <<a, r>> ELSE <<r, a>>)

\* _submit up to the POST.  Without an owned Campaign, or with the entry of
\* another one, it raises.  A reduce-only market order fills at once, or is
\* rejected when there is nothing to reduce, which also raises.
Post ==
  /\ At("worker", "post")
  /\ LET o == job  s == OrderSymbol(job) IN
     \/ /\ owned = "none" \/ (o \in Campaigns /\ o # owned)
        /\ Die("submit") /\ UNCHANGED <<exch, xpos, fills, xtrades, dbVars>>
     \/ /\ owned # "none" /\ o \in Campaigns /\ o = owned
        /\ wal' = [wal EXCEPT ![o] = "intent"] /\ exch' = [exch EXCEPT ![o] = "NEW"]
        /\ Goto("worker", "reply")
        /\ UNCHANGED <<xpos, fills, xtrades, events, lease, trades, jobs, settles, exit,
                       gateVars, queue, inflight, job, ev, accVars, stratVars, phase, failed>>
     \/ /\ owned # "none" /\ o \in Exits /\ xpos[s] > 0
        /\ exit' = [exit EXCEPT ![o].under = owned]
        /\ wal' = [wal EXCEPT ![o] = "intent"]
        /\ LET q == Min({exit[o].q, xpos[s]}) IN Trade(o, s, q, "FILLED", xpos[s] - q)
        /\ Goto("worker", "reply")
        /\ UNCHANGED <<lease, trades, jobs, settles, gateVars, queue, inflight, job, ev,
                       accVars, stratVars, phase, failed>>
     \/ /\ owned # "none" /\ o \in Exits /\ xpos[s] = 0
        /\ wal' = [wal EXCEPT ![o] = "REJECTED"]
        /\ exit' = [exit EXCEPT ![o].under = owned]
        /\ Die("rejected")
        /\ UNCHANGED <<exch, xpos, fills, xtrades, lease, trades, jobs, settles>>
  /\ UNCHANGED <<crashes, drops>>

\* The acknowledgement is written unless the stream was faster, and the
\* submission leaves the in-flight count under the Campaign lock.
Reply ==
  /\ At("worker", "reply")
  /\ wal' = [wal EXCEPT ![job] = IF @ = "intent" THEN "NEW" ELSE @]
  /\ Goto("worker", "leave")
  /\ UNCHANGED <<exVars, lease, trades, jobs, settles, exit, gateVars, queue, inflight, job,
                 ev, accVars, stratVars, lifeVars>>

Leave ==
  /\ At("worker", "leave") /\ lock = "none"
  /\ inflight' = inflight - 1 /\ Goto("worker", "flush")
  /\ UNCHANGED <<exVars, dbVars, gateVars, queue, job, ev, accVars, stratVars, lifeVars>>

\* _flush_cancellations reads the positions again after a cancellation, and
\* the release check follows.
AfterFlush(refresh) == IF refresh THEN "refresh" ELSE "release"

\* flush_cancellations: every requested entry is cancelled, or found filled.
Flush ==
  /\ At("worker", "flush")
  /\ exch' = [o \in Orders |-> IF o \in cancels /\ exch[o] \in Open
                             THEN "CANCELED" ELSE exch[o]]
  /\ wal' = [o \in Orders |-> IF o \in cancels THEN exch'[o] ELSE wal[o]]
  /\ cancels' = {}
  /\ Goto("worker", AfterFlush(\E c \in cancels : wal[c] \notin Terminal))
  /\ UNCHANGED <<xpos, fills, xtrades, events, lease, trades, jobs, settles, exit, gateVars,
                 queue, inflight, job, ev, pos, posAt, pending, processed, stratVars, lifeVars>>

\* refresh_positions after a cancellation: the REST snapshot replaces the
\* positions but never confirms a stream fill.
Refresh ==
  /\ At("worker", "refresh")
  /\ pos' = xpos /\ posAt' = fills /\ Goto("worker", "release")
  /\ UNCHANGED <<exVars, dbVars, gateVars, queue, inflight, job, ev, pending, cancels,
                 processed, stratVars, lifeVars>>

FinishJob ==
  /\ At("worker", "finish")
  /\ jobs' = IF job \in Orders THEN [jobs EXCEPT ![job] = "finished"] ELSE jobs
  /\ job' = "none" /\ Goto("worker", "idle")
  /\ UNCHANGED <<exVars, lease, wal, trades, settles, exit, gateVars, queue, inflight, ev,
                 accVars, stratVars, lifeVars>>

-----------------------------------------------------------------------------
(* maybe_release_campaign, called by the worker and by both callbacks *)

ReleaseSymbol(t) ==
  IF t = "stream" THEN ev.t.s
  ELSE IF t = "worker" /\ job \in Orders THEN OrderSymbol(job)
  ELSE IF owned # "none" THEN SymbolOf[owned] ELSE "none"

Done(t) == IF t = "worker" THEN "finish" ELSE "idle"

\* Mutant: open orders do not keep the lease.
MayRelease_orders(s) ==
  /\ owned # "none" /\ SymbolOf[owned] = s /\ inflight = 0
  /\ pos[s] = 0 /\ pending[s] = 0

MayRelease(s) ==
  /\ owned # "none" /\ SymbolOf[owned] = s /\ inflight = 0
  /\ pos[s] = 0 /\ pending[s] = 0
  /\ \A o \in Orders : OrderSymbol(o) = s => wal[o] \in Terminal \cup {"none"}

CheckRelease(t) ==
  /\ At(t, "release") /\ lock = "none"
  /\ \/ /\ MayRelease(ReleaseSymbol(t)) /\ lock' = t /\ Goto(t, "settle")
     \/ /\ ~MayRelease(ReleaseSymbol(t)) /\ Goto(t, Done(t)) /\ UNCHANGED lock
  /\ UNCHANGED <<exVars, dbVars, owned, active, shut, queue, inflight, job, ev, accVars,
                 stratVars, lifeVars>>

Traded(c) == \E t \in trades : t.o = c
Lots(T) == MapThenSumSet(LAMBDA t : t.q, T)
Closed(c) ==
  Lots({t \in trades : t.o = c}) = Lots({t \in trades : t.o \in Exits /\ exit[t.o].under = c})

\* CapitalStore.settle, keyed by the Campaign.
Apply(c) == IF settles[c] = 0 THEN 1 ELSE settles[c]

\* _settle_campaign: nothing traded, nothing to settle; an open quantity in
\* the ledger raises.
Settle(t) ==
  /\ At(t, "settle")
  /\ \/ /\ Traded(owned) /\ ~Closed(owned)
        /\ Die("settle") /\ UNCHANGED <<exch, xpos, fills, xtrades, dbVars>>
     \/ /\ Traded(owned) => Closed(owned)
        /\ settles' = IF Traded(owned) THEN [settles EXCEPT ![owned] = Apply(owned)]
                      ELSE settles
        /\ Goto(t, "drop")
        /\ UNCHANGED <<exVars, lease, wal, trades, jobs, exit, gateVars, queue, inflight,
                       job, ev, accVars, stratVars, phase, failed>>
  /\ UNCHANGED <<crashes, drops>>

\* Compare-and-delete in Redis, then the local state follows.
Release(t) ==
  /\ At(t, "drop") /\ lock' = "none" /\ Goto(t, Done(t))
  /\ IF lease = owned
       THEN /\ lease' = "none" /\ owned' = "none" /\ shut' = shut \ {"campaign"}
            /\ active' = IF active = owned THEN "none" ELSE active
       ELSE UNCHANGED <<lease, owned, active, shut>>
  /\ UNCHANGED <<exVars, wal, trades, jobs, settles, exit, queue, inflight, job, ev, accVars,
                 stratVars, lifeVars>>

-----------------------------------------------------------------------------
(* User Stream callbacks *)

\* handle_account_update: an older fact is ignored, a current one replaces
\* the position and confirms the fills it covers.
AccountUpdate ==
  /\ At("stream", "idle") /\ events # <<>>
  /\ LET e == Head(events)  s == e.t.s  n == e.t.n IN
     /\ e.kind = "account"
     /\ ev' = e /\ events' = Tail(events)
     /\ IF n >= posAt[s]
          THEN /\ pos' = [pos EXCEPT ![s] = e.lots] /\ posAt' = [posAt EXCEPT ![s] = n]
               /\ pending' = [pending EXCEPT ![s] = IF n >= @ THEN 0 ELSE @]
          ELSE UNCHANGED <<pos, posAt, pending>>
  /\ Goto("stream", "release")
  /\ UNCHANGED <<exch, xpos, fills, xtrades, dbVars, gateVars, queue, inflight, job, cancels,
                 processed, stratVars, lifeVars>>

\* handle_execution_report writes the WAL at once (a terminal row stays) and
\* then awaits the ledger.
TradeReport ==
  /\ At("stream", "idle") /\ events # <<>>
  /\ LET e == Head(events) IN
     /\ e.kind = "trade"
     /\ ev' = e /\ events' = Tail(events)
     /\ wal' = [wal EXCEPT ![e.t.o] = IF @ \in Terminal THEN @ ELSE e.status]
  /\ Goto("stream", "ledger")
  /\ UNCHANGED <<exch, xpos, fills, xtrades, lease, trades, jobs, settles, exit, gateVars,
                 queue, inflight, job, accVars, stratVars, lifeVars>>

\* The trade is in the ledger: a trade not seen before leaves its position
\* awaiting confirmation and, if it is the first fill, starts the Campaign
\* timing; that needs the signal, and a first fill without it raises.
TradeApplied ==
  /\ At("stream", "ledger")
  /\ LET t == ev.t
         first == t.o \in Campaigns /\ t \notin processed /\ timing[t.s] = "none" IN
     /\ trades' = trades \cup {t}
     /\ \/ /\ first /\ t.o \notin signals
           /\ Die(IF pendingTiming[t.s] = t.o THEN "recovered fill" ELSE "late fill")
           /\ UNCHANGED <<exch, xpos, fills, xtrades>>
        \/ /\ first => t.o \in signals
           /\ processed' = processed \cup {t}
           /\ pending' = [pending EXCEPT ![t.s] =
                            IF t \notin processed /\ t.n > posAt[t.s] THEN t.n ELSE @]
           /\ timing' = [timing EXCEPT ![t.s] = IF first THEN t.o ELSE @]
           /\ Goto("stream", "release")
           /\ UNCHANGED <<exVars, gateVars, queue, inflight, job, ev, pos, posAt, cancels,
                          signals, placed, recovered, activeSymbol, pendingTiming,
                          exitReq, phase, failed>>
  /\ UNCHANGED <<lease, wal, jobs, settles, exit, crashes, drops>>

-----------------------------------------------------------------------------
(* Exchange *)

\* external: a resting entry fills, in one or two trades.
Fill(c) ==
  /\ exch[c] \in Open
  /\ LET s == SymbolOf[c] IN
     \/ PartialFills /\ exch[c] = "NEW" /\ Trade(c, s, 1, "PARTIALLY_FILLED", xpos[s] + 1)
     \/ \E q \in {IF exch[c] = "NEW" THEN 2 ELSE 1} : Trade(c, s, q, "FILLED", xpos[s] + q)
  /\ UNCHANGED <<dbVars, gateVars, runVars, accVars, stratVars, lifeVars>>

-----------------------------------------------------------------------------
(* Life cycle *)

\* A crash, or a stop that leaves open entries to the next start.
Crash ==
  /\ phase # "down" /\ crashes < MaxCrashes /\ crashes' = crashes + 1
  /\ phase' = "down" /\ events' = <<>> /\ Fresh
  /\ UNCHANGED <<exch, xpos, fills, xtrades, dbVars, failed, drops>>

SeqOf(S) == CHOOSE q \in [1..Cardinality(S) -> S] : \A i, j \in 1..Cardinality(S) : q[i] = q[j] => i = j

PendingExits == {e \in Exits : jobs[e] = "pending" /\ wal[e] = "none"}
LiveOrder(o) == wal[o] \notin Terminal \cup {"none"}

\* Mutant: the exits of the last run are forgotten.
RestoreQueue_empty == EmptyQueue

RestoreQueue == [exits |-> SeqOf(PendingExits), cancel |-> FALSE, entries |-> <<>>]

\* Startup, before the stream delivers anything: ExecutionQueue.restore
\* finishes submitted and entry jobs and queues the exits again;
\* restore_campaign_gate takes over the lease found in Redis, or refuses.
Boot ==
  /\ phase = "down"
  /\ lease = "none" => \A o \in Orders : ~LiveOrder(o)
  /\ queue' = RestoreQueue /\ recovered' = PendingExits
  /\ jobs' = [o \in Orders |-> IF jobs[o] = "pending" /\ o \notin PendingExits
                                 THEN "finished" ELSE jobs[o]]
  /\ owned' = lease /\ active' = lease /\ shut' = AllShut \ {"campaign"}
  /\ phase' = "booting"
  /\ UNCHANGED <<exVars, lease, wal, trades, settles, exit, lock, inflight, pc, job, ev,
                 accVars, signals, placed, timeVars, failed, crashes, drops>>

\* BinanceStartupSynchronizer: WAL and ledger catch up with the exchange.
Synced(o) == IF wal[o] \in Open \cup {"intent"} THEN exch[o] ELSE wal[o]

Sync ==
  /\ phase = "booting"
  /\ wal' = [o \in Orders |-> Synced(o)]
  /\ trades' = xtrades
  /\ phase' = "synced"
  /\ UNCHANGED <<exVars, lease, jobs, settles, exit, gateVars, runVars, accVars, stratVars,
                 failed, crashes, drops>>

LiveSymbols(p) ==
  {s \in Symbols : p[s] > 0 \/ \E o \in Orders : OrderSymbol(o) = s /\ LiveOrder(o)}

\* validate_recovered_campaign and restore_campaign_timing over positions p.
Recoverable(p) ==
  /\ LiveSymbols(p) # {} => owned # "none" /\ LiveSymbols(p) = {SymbolOf[owned]}
  /\ owned # "none" /\ p[SymbolOf[owned]] > 0 => Traded(owned)

RestoreTiming(p) ==
  LET s == SymbolOf[owned] IN
  IF owned = "none" THEN UNCHANGED <<timeVars, processed>>
  ELSE /\ activeSymbol' = s
       /\ IF p[s] > 0
            THEN /\ timing' = [timing EXCEPT ![s] = owned] /\ UNCHANGED pendingTiming
                 /\ exitReq' = {x \in {s} :
                                  \E e \in Exits : exit[e].under = owned /\ LiveOrder(e)}
                 /\ processed' = processed \cup {t \in trades : t.s = s}
            ELSE /\ pendingTiming' = [pendingTiming EXCEPT ![s] = owned]
                 /\ UNCHANGED <<timing, exitReq, processed>>

\* refresh_positions, validation, timing; then the callback barrier opens and
\* the release check runs.  A refusal ends the process.
Ready ==
  /\ phase = "synced"
  /\ \/ /\ Recoverable(xpos)
        /\ pos' = xpos /\ posAt' = fills /\ RestoreTiming(xpos)
        /\ phase' = "starting" /\ Goto("recovery", "release")
        /\ UNCHANGED <<events, gateVars, queue, inflight, job, ev, pending, cancels,
                       signals, placed, recovered, failed>>
     \/ ~Recoverable(xpos) /\ Die("startup")
  /\ UNCHANGED <<exch, xpos, fills, xtrades, dbVars, crashes, drops>>

StartWorker ==
  /\ phase = "starting" /\ pc["recovery"] = "idle"
  /\ phase' = "running" /\ shut' = {}
  /\ UNCHANGED <<exVars, dbVars, owned, active, lock, runVars, accVars, stratVars, failed,
                 crashes, drops>>

\* The stream drops: events are lost until it reconnects, entries are shut.
Disconnect ==
  /\ phase = "running" /\ drops < MaxDisconnects /\ drops' = drops + 1
  /\ shut' = shut \cup {"execution"}
  /\ UNCHANGED <<exVars, dbVars, owned, active, lock, runVars, accVars, stratVars, phase,
                 failed, crashes>>

\* Reconnected: the reconciler rewrites WAL and ledger while the worker runs.
Reconcile ==
  /\ phase = "running" /\ "execution" \in shut
  /\ phase' = "reconciling"
  /\ wal' = [o \in Orders |-> Synced(o)]
  /\ trades' = xtrades
  /\ UNCHANGED <<exVars, lease, jobs, settles, exit, gateVars, runVars, accVars, stratVars,
                 failed, crashes, drops>>

\* _recover_execution_after_reconnect
Reconnected ==
  /\ phase = "reconciling" /\ pc["recovery"] = "idle"
  /\ \/ /\ Recoverable(xpos)
        /\ pos' = xpos /\ posAt' = fills /\ RestoreTiming(xpos)
        /\ phase' = "running" /\ shut' = shut \ {"execution"}
        /\ Goto("recovery", "release")
        /\ UNCHANGED <<events, owned, active, lock, queue, inflight, job, ev, pending,
                       cancels, signals, placed, recovered, failed>>
     \/ /\ ~Recoverable(xpos) /\ Die("reconnect")
  /\ UNCHANGED <<exch, xpos, fills, xtrades, dbVars, crashes, drops>>

-----------------------------------------------------------------------------

Strategy ==
  \/ \E c \in Campaigns : Detect(c) \/ Place(c)
  \/ \E s \in Symbols, e \in Exits : DecideExit(s, e)
Timers ==
  \/ \E c \in Campaigns : ExpireSignal(c) \/ ExpireOrder(c)
  \/ \E s \in Symbols : EndBar(s)
Worker ==
  \/ TakeJob \/ Admit \/ Post \/ Reply \/ Leave \/ Flush \/ Refresh \/ FinishJob
  \/ CheckRelease("worker") \/ Settle("worker") \/ Release("worker")
Stream ==
  \/ AccountUpdate \/ TradeReport \/ TradeApplied
  \/ CheckRelease("stream") \/ Settle("stream") \/ Release("stream")
Recovery ==
  \/ Boot \/ Sync \/ Ready \/ StartWorker \/ Reconcile \/ Reconnected
  \/ CheckRelease("recovery") \/ Settle("recovery") \/ Release("recovery")
Exchange == \E c \in Campaigns : Fill(c)
Faults == Crash \/ Disconnect

Next == Strategy \/ Timers \/ Worker \/ Stream \/ Recovery \/ Exchange \/ Faults

Spec == Init /\ [][Next]_vars

\* asyncio runs every task that is ready, timers and bars keep coming, and
\* the market sooner or later meets an exit condition.
Fairness ==
  /\ WF_vars(Worker) /\ WF_vars(Stream) /\ WF_vars(Recovery)
  /\ \A c \in Campaigns : WF_vars(ExpireSignal(c)) /\ WF_vars(ExpireOrder(c))
  /\ \A s \in Symbols : WF_vars(EndBar(s)) /\ WF_vars(\E e \in Exits : DecideExit(s, e))

-----------------------------------------------------------------------------
(* Properties *)

\* D-024: the Redis Campaign is released only when the orders are terminal
\* and the position is gone.  So whatever the exchange holds, an open entry
\* or a position, belongs to the Campaign in Redis.
RiskIsOwned ==
  /\ \A c \in Campaigns : exch[c] \in Open => lease = c
  /\ \A s \in Symbols : xpos[s] > 0 =>
       lease # "none" /\ SymbolOf[lease] = s

\* The arbiter lets one Campaign into the queue at a time, so an entry never
\* finds the queue full and an admitted entry is never behind another one.
OneEntryPending == Len(queue.entries) <= 1

\* An exit intent carries no Campaign and is stamped with the one owned when
\* it is submitted (_submit): that is the one it was decided for, because
\* exits are served before any later entry and restored exits are revalidated.
ExitHitsItsCampaign ==
  \A e \in Exits : exit[e].under \in {"none", exit[e].for}

\* A Campaign that traded and has given up the lease was settled exactly
\* once, whatever crashed between the settlement and the release.
ReleasedIsSettled ==
  /\ \A c \in Campaigns : settles[c] <= 1
  /\ \A c \in Campaigns : (\E t \in xtrades : t.o = c) /\ lease # c => settles[c] = 1

\* The lease of a Campaign is given up again: after its exit, after an entry
\* that was cancelled or never sent, and after a crash at any point.
LeaseIsReleased == \A c \in Campaigns : lease = c ~> lease # c

\* Every execution job in PostgreSQL is finished: executed, or found to be
\* pointless after a restart.
JobsFinish == \A o \in Orders : jobs[o] = "pending" ~> jobs[o] = "finished"

\* The arbiter slot is given back, so a later signal can be traded.
ArbiterIsFreed == \A c \in Campaigns : active = c ~> active # c

=============================================================================
