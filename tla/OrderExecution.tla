--------------------------- MODULE OrderExecution ---------------------------
(***************************************************************************)
(* How one execution process keeps its order write-ahead log (WAL) in step *)
(* with the exchange.  The tasks of the process share one asyncio loop, so *)
(* an action is the code between two awaits.                               *)
(*   submit    BinanceOrderExecutor.submit, suspended at the POST;         *)
(*   report    the User Stream callback worker, one report at a time;      *)
(*   poll      SubmitUnknownPollingService and the startup resolve pass;   *)
(*   sync      BinanceStartupSynchronizer (startup, reconnect, poller);    *)
(*   cancel    BinanceStrategyAccount.flush_cancellations;                 *)
(*   lifecycle start, stream reconnect, fatal exit and crash.              *)
(* The exchange and the network are external: requests may be lost or      *)
(* delayed, replies may be lost, answers may be overtaken by events.       *)
(***************************************************************************)
EXTENDS OrderStates, Naturals, Sequences

CONSTANTS
  Orders,        \* client_order_ids
  Symbols,
  SymbolOf,      \* [Orders -> Symbols]
  Entries,       \* orders that open risk (not reduce_only)
  Cancellable,   \* orders the strategy may ask to cancel
  Moves,         \* statuses the exchange may move an order to by itself
  MaxReconnect,  \* max_reconnect_attempts of the user stream
  MaxFaults      \* bound on crashes, disconnects, losses and failed calls

ASSUME OrdersAssumption ==
  /\ SymbolOf \in [Orders -> Symbols]
  /\ Entries \subseteq Orders
  /\ Cancellable \subseteq Orders
  /\ Moves \subseteq {"PARTIALLY_FILLED", "FILLED", "CANCELLED", "EXPIRED"}
  /\ MaxReconnect \in Nat \ {0}
  /\ MaxFaults \in Nat

VARIABLES
  wal,        \* latest WAL row of each order (durable)
  exch,       \* external: the order at the exchange, "ABSENT" if none
  net,        \* external: what became of the one POST request
  posts,      \* history: number of POSTs sent for each client_order_id
  task,       \* submit tasks suspended at the POST
  stream,     \* order reports sent by the exchange and not yet handled
  link,       \* "up" while the user stream socket is open
  reconn,     \* the user stream reconnect task
  attempts,   \* failed attempts of that task
  poll, sync, cancel,
  cancelReq,  \* _cancel_requests
  blocked,    \* RiskGuard blocked symbols
  phase,      \* process life cycle
  fatal,      \* the stream's fatal exception is recorded
  faults

procVars == <<task, poll, sync, cancel, cancelReq, blocked>>
linkVars == <<stream, link, reconn, attempts>>
lifeVars == <<phase, fatal, faults>>
exVars == <<exch, net, posts>>
vars == <<wal, exVars, procVars, linkVars, lifeVars>>

-----------------------------------------------------------------------------
\* Idle values of the three background activities.

PollRest(pc, recon) ==
  [pc |-> pc, todo |-> {}, intents |-> {}, at |-> "none",
   ans |-> "none", unresolved |-> FALSE, recon |-> recon]
PollOff == PollRest("off", FALSE)
SyncOff == [pc |-> "off", todo |-> {}, at |-> "none", ans |-> "none", by |-> "none"]
CancelOff == [pc |-> "off", at |-> "none", ans |-> "none", held |-> NoRow]
CancelOf(o) == [pc |-> "cancelling", at |-> o, ans |-> "none", held |-> NoRow]

Init ==
  /\ wal = [o \in Orders |-> NoRow]
  /\ exch = [o \in Orders |-> "ABSENT"]
  /\ net = [o \in Orders |-> "none"]
  /\ posts = [o \in Orders |-> 0]
  /\ task = {}
  /\ poll = PollOff /\ sync = SyncOff /\ cancel = CancelOff
  /\ cancelReq = {} /\ blocked = {}
  /\ stream = <<>> /\ link = "down" /\ reconn = "off" /\ attempts = 0
  /\ phase = "down" /\ fatal = FALSE /\ faults = 0

Fault == faults < MaxFaults /\ faults' = faults + 1

Running == phase = "ready" /\ ~fatal

\* _refresh_symbol_risk: the symbol is blocked exactly while it has an
\* unresolved order, whatever it was blocked for before.
Refresh(w, b, sym) ==
  IF \E o \in Orders : SymbolOf[o] = sym /\ Unresolved(w[o])
    THEN b \cup {sym} ELSE b \ {sym}

\* _record_unknown: append SUBMIT_UNKNOWN and block, or keep the newer
\* exchange fact and refresh.
RecordUnknown(o) ==
  LET row == RecordSubmitUnknown(wal[o]) IN
  /\ wal' = [wal EXCEPT ![o] = row]
  /\ blocked' = IF row.status = "SUBMIT_UNKNOWN"
                  THEN blocked \cup {SymbolOf[o]}
                  ELSE Refresh(wal', blocked, SymbolOf[o])

-----------------------------------------------------------------------------
(* submit *)

\* Mutant: an order left in doubt is posted again.
Submit_retries(o) ==
  /\ phase = "ready" /\ (Unresolved(wal[o]) \/ wal[o] = NoRow)
  /\ o \notin task /\ posts[o] < 2
  /\ wal' = [wal EXCEPT ![o] = IntentRow]
  /\ net' = [net EXCEPT ![o] = "sent"]
  /\ posts' = [posts EXCEPT ![o] = @ + 1]
  /\ task' = task \cup {o}
  /\ UNCHANGED <<exch, poll, sync, cancel, cancelReq, blocked, linkVars, lifeVars>>

\* First submission: admission (nondeterministic here, see OrderRisk),
\* intent row, then the POST goes out.
Submit(o) ==
  /\ phase = "ready" /\ wal[o] = NoRow
  /\ o \in Entries => ~fatal /\ SymbolOf[o] \notin blocked
  /\ wal' = [wal EXCEPT ![o] = IntentRow]
  /\ net' = [net EXCEPT ![o] = "sent"]
  /\ posts' = [posts EXCEPT ![o] = @ + 1]
  /\ task' = task \cup {o}
  /\ UNCHANGED <<exch, poll, sync, cancel, cancelReq, blocked, linkVars, lifeVars>>

\* A client_order_id already in the WAL (a restored exit job, a retried
\* intent) is answered from the WAL and never posted again.
SubmitExisting(o) ==
  /\ phase = "ready" /\ wal[o] # NoRow
  /\ \/ wal[o].type = "intent" /\ RecordUnknown(o)
     \/ /\ wal[o].type # "intent"
        /\ blocked' = IF wal[o].status = "SUBMIT_UNKNOWN"
                        THEN blocked \cup {SymbolOf[o]} ELSE blocked
        /\ UNCHANGED wal
  /\ UNCHANGED <<exVars, task, poll, sync, cancel, cancelReq, linkVars, lifeVars>>

\* The POST returns a known status: a row written meanwhile by the stream or
\* the poller is the newer fact and the response is dropped.
SubmitReply(o) ==
  /\ o \in task /\ net[o] = "accepted"
  /\ wal' = IF wal[o].type # "intent" THEN wal
            ELSE [wal EXCEPT ![o] = RecordExchangeStatus(@, IntentRow, "NEW")]
  /\ task' = task \ {o}
  /\ UNCHANGED <<exVars, poll, sync, cancel, cancelReq, blocked, linkVars, lifeVars>>

\* The POST returns a definite business rejection.
SubmitRejected(o) ==
  /\ o \in task /\ net[o] = "refused"
  /\ wal' = [wal EXCEPT ![o] = RecordExchangeStatus(@, IntentRow, "REJECTED")]
  /\ blocked' = Refresh(wal', blocked, SymbolOf[o])
  /\ task' = task \ {o}
  /\ UNCHANGED <<exVars, poll, sync, cancel, cancelReq, linkVars, lifeVars>>

\* Mutant: a timeout is reported to the caller but not recorded.
SubmitError_silent(o) ==
  /\ o \in task
  /\ Fault \/ (net[o] = "lost" /\ UNCHANGED faults)
  /\ task' = task \ {o}
  /\ UNCHANGED <<wal, blocked, exVars, poll, sync, cancel, cancelReq, linkVars, phase, fatal>>

\* Transport error, ambiguous API error or unrecognised response status: the
\* request itself may still arrive, unless it was lost.
SubmitError(o) ==
  /\ o \in task
  /\ Fault \/ (net[o] = "lost" /\ UNCHANGED faults)
  /\ RecordUnknown(o)
  /\ task' = task \ {o}
  /\ UNCHANGED <<exVars, poll, sync, cancel, cancelReq, linkVars, phase, fatal>>

\* The task is cancelled while the process shuts down.
SubmitCancelled(o) ==
  /\ o \in task /\ fatal
  /\ IF wal[o].type = "intent" THEN RecordUnknown(o) ELSE UNCHANGED <<wal, blocked>>
  /\ task' = task \ {o}
  /\ UNCHANGED <<exVars, poll, sync, cancel, cancelReq, linkVars, lifeVars>>

-----------------------------------------------------------------------------
(* report: handle_order_trade_update behind the startup barrier *)

HandleReport ==
  /\ Running /\ stream # <<>>
  /\ LET e == Head(stream)
         row == wal[e.o]
     IN  IF row = NoRow \/ InvalidResponse(row, row, e.s)
           THEN /\ blocked' = IF row = NoRow THEN blocked
                              ELSE blocked \cup {SymbolOf[e.o]}
                /\ fatal' = TRUE        \* the worker dies, its queue is discarded
                /\ stream' = <<>>
                /\ UNCHANGED wal
           ELSE /\ wal' = [wal EXCEPT ![e.o] = RecordExchangeStatus(@, @, e.s)]
                /\ blocked' = Refresh(wal', blocked, SymbolOf[e.o])
                /\ stream' = Tail(stream)
                /\ UNCHANGED fatal
  /\ UNCHANGED <<exVars, task, poll, sync, cancel, cancelReq,
                 link, reconn, attempts, phase, faults>>

-----------------------------------------------------------------------------
(* poll: resolve_recovered_unknowns_once over a snapshot of the WAL *)

Unknowns == {o \in Orders : Unresolved(wal[o])}

PollPass ==
  [pc |-> "scan", todo |-> Unknowns, intents |-> {o \in Orders : wal[o].type = "intent"},
   at |-> "none", ans |-> "none", unresolved |-> FALSE, recon |-> poll.recon]

\* A pass with nothing to query and nothing to reconcile has no await and
\* changes nothing: it is left out.
PollBegin ==
  /\ phase = "ready" /\ poll.pc = "idle"
  /\ Unknowns # {} \/ poll.recon
  /\ poll' = PollPass
  /\ UNCHANGED <<wal, exVars, task, sync, cancel, cancelReq, blocked, linkVars, lifeVars>>

\* An intent of the snapshot becomes SUBMIT_UNKNOWN (unless the exchange has
\* spoken since); an unknown order blocks its symbol and is queried.
PollScan(o) ==
  /\ poll.pc = "scan" /\ o \in poll.todo
  /\ IF o \in poll.intents
       THEN RecordUnknown(o)
       ELSE blocked' = blocked \cup {SymbolOf[o]} /\ UNCHANGED wal
  /\ poll' = IF o \in poll.intents /\ wal'[o].status # "SUBMIT_UNKNOWN"
               THEN [poll EXCEPT !.todo = @ \ {o}]
               ELSE [poll EXCEPT !.todo = @ \ {o}, !.pc = "query", !.at = o]
  /\ UNCHANGED <<exVars, task, sync, cancel, cancelReq, linkVars, lifeVars>>

\* external: the query reaches the exchange, or fails.
PollAnswer ==
  /\ poll.pc = "query"
  /\ \/ poll' = [poll EXCEPT !.pc = "answer", !.ans = exch[poll.at]] /\ UNCHANGED faults
     \/ Fault /\ poll' = [poll EXCEPT !.pc = "answer", !.ans = "FAILED"]
  /\ UNCHANGED <<wal, exVars, task, sync, cancel, cancelReq, blocked, linkVars, phase, fatal>>

\* resolve_once and the tail of resolve_submit_unknown.
PollResolve ==
  /\ poll.pc = "answer"
  /\ LET o == poll.at
         known == poll.ans \in ExchangeStatus
     IN  /\ wal' = IF known
                     THEN [wal EXCEPT ![o] = RecordExchangeStatus(@, UnknownRow, poll.ans)]
                     ELSE wal
         /\ blocked' = Refresh(wal', blocked, SymbolOf[o])
         /\ poll' = [poll EXCEPT !.pc = "scan", !.at = "none", !.ans = "none",
                       !.unresolved = @ \/ ~(known \/ wal[o].type = "exchange_status"),
                       !.recon = TRUE]
  /\ UNCHANGED <<exVars, task, sync, cancel, cancelReq, linkVars, lifeVars>>

\* The pass is over: startup goes on to the sync, the monitor reconciles once
\* everything is resolved, or sleeps.
SyncTodo == {o \in Orders : wal[o] # NoRow
                              /\ ~(wal[o].status \in Terminal /\ wal[o].mark = "acked")}

StartSync(by) ==
  [pc |-> "scan", todo |-> SyncTodo, at |-> "none", ans |-> "none", by |-> by]

\* Mutant: the poller does not look again at an order it could not resolve.
PollEnd_gives_up ==
  /\ poll.pc = "scan" /\ poll.todo = {}
  /\ \/ /\ phase = "resolve"
        /\ phase' = "sync" /\ sync' = StartSync("startup") /\ poll' = PollOff
     \/ /\ phase = "ready"
        /\ poll' = PollOff
        /\ UNCHANGED <<phase, sync>>
  /\ UNCHANGED <<wal, exVars, task, cancel, cancelReq, blocked, linkVars, fatal, faults>>

PollEnd ==
  /\ poll.pc = "scan" /\ poll.todo = {}
  /\ \/ /\ phase = "resolve"
        /\ phase' = "sync" /\ sync' = StartSync("startup") /\ poll' = PollOff
     \/ /\ phase = "ready" /\ poll.recon /\ ~poll.unresolved
        /\ poll' = [poll EXCEPT !.pc = "sync"] /\ sync' = StartSync("poller")
        /\ UNCHANGED phase
     \/ /\ phase = "ready" /\ ~(poll.recon /\ ~poll.unresolved)
        /\ poll' = PollRest("idle", poll.recon)
        /\ UNCHANGED <<phase, sync>>
  /\ UNCHANGED <<wal, exVars, task, cancel, cancelReq, blocked, linkVars, fatal, faults>>

-----------------------------------------------------------------------------
(* sync: sync_once, then the strict snapshot comparison *)

SyncQuery(o) ==
  /\ sync.pc = "scan" /\ o \in sync.todo
  /\ sync' = [sync EXCEPT !.pc = "query", !.todo = @ \ {o}, !.at = o]
  /\ UNCHANGED <<wal, exVars, task, poll, cancel, cancelReq, blocked, linkVars, lifeVars>>

\* external
SyncAnswer ==
  /\ sync.pc = "query"
  /\ sync' = [sync EXCEPT !.pc = "answer", !.ans = exch[sync.at]]
  /\ UNCHANGED <<wal, exVars, task, poll, cancel, cancelReq, blocked, linkVars, lifeVars>>

\* Everything the process holds in memory is gone.
Down ==
  /\ phase' = "down" /\ fatal' = FALSE
  /\ task' = {} /\ poll' = PollOff /\ sync' = SyncOff /\ cancel' = CancelOff
  /\ cancelReq' = {} /\ blocked' = {}
  /\ stream' = <<>> /\ link' = "down" /\ reconn' = "off" /\ attempts' = 0

\* A failed sync: startup gives up and exits; the reconnect task closes the
\* socket and tries again until its attempts are exhausted; the poller keeps
\* the obligation and sleeps.  b is the blocked set the failure leaves.
SyncFails(b) ==
  \/ sync.by = "startup" /\ Down
  \/ /\ sync.by = "reconnect"
     /\ sync' = SyncOff /\ link' = "down" /\ attempts' = attempts + 1
     /\ IF attempts + 1 >= MaxReconnect
          THEN fatal' = TRUE /\ reconn' = "off"
          ELSE reconn' = "waiting" /\ UNCHANGED fatal
     /\ blocked' = b
     /\ UNCHANGED <<phase, task, poll, cancel, cancelReq, stream>>
  \/ /\ sync.by = "poller"
     /\ sync' = SyncOff /\ poll' = PollRest("idle", TRUE)
     /\ blocked' = b
     /\ UNCHANGED <<phase, fatal, task, cancel, cancelReq, linkVars>>

\* reconcile_order_response on the answer; an order the exchange does not
\* know, or an answer older than the WAL, fails the sync.
SyncApply ==
  /\ sync.pc = "answer"
  /\ LET o == sync.at
         row == wal[o]
     IN  IF sync.ans = "ABSENT"
           THEN SyncFails(blocked) /\ UNCHANGED wal
           ELSE IF InvalidResponse(row, row, sync.ans)
           THEN SyncFails(blocked \cup {SymbolOf[o]}) /\ UNCHANGED wal
           ELSE /\ wal' = [wal EXCEPT ![o] =
                             [RecordExchangeStatus(@, @, sync.ans) EXCEPT !.mark = "synced"]]
                /\ blocked' = Refresh(wal', blocked, SymbolOf[o])
                /\ sync' = [sync EXCEPT !.pc = "scan", !.at = "none", !.ans = "none"]
                /\ UNCHANGED <<phase, fatal, task, poll, cancel, cancelReq, linkVars>>
  /\ UNCHANGED <<exVars, faults>>

\* acknowledge_ledger for the terminal orders this sync has written.
Acknowledged(w) ==
  [o \in Orders |-> IF w[o].mark = "synced" /\ w[o].status \in Terminal
                      THEN [w[o] EXCEPT !.mark = "acked"] ELSE w[o]]

SyncAck ==
  /\ sync.pc = "scan" /\ sync.todo = {}
  /\ wal' = Acknowledged(wal)
  /\ sync' = [sync EXCEPT !.pc = "strict"]
  /\ UNCHANGED <<exVars, task, poll, cancel, cancelReq, blocked, linkVars, lifeVars>>

\* Trades, positions and open orders all agree: the poller (re)starts.
SyncSucceed ==
  /\ sync.pc = "strict"
  /\ sync' = SyncOff /\ poll' = PollRest("idle", FALSE)
  /\ IF sync.by = "startup" THEN phase' = "ready" ELSE UNCHANGED phase
  /\ IF sync.by = "reconnect" THEN reconn' = "off" /\ attempts' = 0
                              ELSE UNCHANGED <<reconn, attempts>>
  /\ UNCHANGED <<wal, exVars, task, cancel, cancelReq, blocked, stream, link, fatal, faults>>

\* A REST or database call fails, or trades/positions do not agree yet.
SyncBreaks ==
  /\ sync.pc \in {"scan", "query", "strict"} /\ Fault
  /\ SyncFails(blocked)
  /\ UNCHANGED <<wal, exVars>>

-----------------------------------------------------------------------------
(* cancel: cancel_order and flush_cancellations (one flush at a time) *)

CancelOrder(o) ==
  /\ Running /\ o \in Cancellable \ cancelReq
  /\ wal[o].status \in {"NEW", "PARTIALLY_FILLED"}
  /\ cancelReq' = cancelReq \cup {o}
  /\ UNCHANGED <<wal, exVars, task, poll, sync, cancel, blocked, linkVars, lifeVars>>

FlushCancel(o) ==
  /\ phase = "ready" /\ cancel.pc = "off" /\ o \in cancelReq
  /\ IF wal[o].status \in Terminal
       THEN cancelReq' = cancelReq \ {o} /\ UNCHANGED cancel
       ELSE cancel' = CancelOf(o) /\ UNCHANGED cancelReq
  /\ UNCHANGED <<wal, exVars, task, poll, sync, blocked, linkVars, lifeVars>>

\* Mutant: "unknown order" in reply to a cancel is taken for a cancellation.
CancelReply_optimistic ==
  /\ cancel.pc = "replied"
  /\ LET o == cancel.at IN
     /\ wal' = IF wal[o].status \in Terminal THEN wal
               ELSE [wal EXCEPT ![o] = RecordExchangeStatus(@, @, "CANCELLED")]
     /\ cancelReq' = cancelReq \ {o}
     /\ cancel' = CancelOff
  /\ UNCHANGED <<exVars, task, poll, sync, blocked, linkVars, lifeVars>>

\* The DELETE returns: CANCELLED is recorded unless the WAL is already
\* terminal; an error is settled by a terminal WAL row or by a query.
CancelReply ==
  /\ cancel.pc = "replied"
  /\ LET o == cancel.at IN
     IF cancel.ans = "CANCELLED" \/ wal[o].status \in Terminal
       THEN /\ wal' = IF wal[o].status \in Terminal THEN wal
                      ELSE [wal EXCEPT ![o] = RecordExchangeStatus(@, @, "CANCELLED")]
            /\ cancelReq' = cancelReq \ {o}
            /\ cancel' = CancelOff
       ELSE /\ cancel' = [cancel EXCEPT !.pc = "querying", !.ans = "none", !.held = wal[o]]
            /\ UNCHANGED <<wal, cancelReq>>
  /\ UNCHANGED <<exVars, task, poll, sync, blocked, linkVars, lifeVars>>

\* external
CancelAnswer ==
  /\ cancel.pc = "querying"
  /\ \/ cancel' = [cancel EXCEPT !.pc = "answered", !.ans = exch[cancel.at]] /\ UNCHANGED faults
     \/ Fault /\ cancel' = [cancel EXCEPT !.pc = "answered", !.ans = "FAILED"]
  /\ UNCHANGED <<wal, exVars, task, poll, sync, cancelReq, blocked, linkVars, phase, fatal>>

CancelResolve ==
  /\ cancel.pc = "answered"
  /\ LET o == cancel.at IN
     IF cancel.ans \in Terminal
       THEN /\ wal' = [wal EXCEPT ![o] = RecordExchangeStatus(@, cancel.held, cancel.ans)]
            /\ cancelReq' = cancelReq \ {o}
            /\ UNCHANGED blocked
       ELSE /\ blocked' = blocked \cup {SymbolOf[o]}
            /\ UNCHANGED <<wal, cancelReq>>
  /\ cancel' = CancelOff
  /\ UNCHANGED <<exVars, task, poll, sync, linkVars, lifeVars>>

-----------------------------------------------------------------------------
(* life cycle of the process and of its user stream *)

\* The stream opens first, then one resolve pass over the WAL.
Start ==
  /\ phase = "down"
  /\ phase' = "resolve" /\ link' = "up"
  /\ poll' = PollPass
  /\ UNCHANGED <<wal, exVars, task, sync, cancel, cancelReq, blocked,
                 stream, reconn, attempts, fatal, faults>>

\* Reports already queued stay, those still on the wire are lost.  A close
\* that arrives while the reconnect task is still running schedules nothing.
Disconnect ==
  /\ phase = "ready" /\ link = "up" /\ Fault
  /\ link' = "down"
  /\ \E k \in 0..Len(stream) : stream' = SubSeq(stream, 1, k)
  /\ reconn' = IF reconn = "off" THEN "waiting" ELSE reconn
  /\ UNCHANGED <<wal, exVars, procVars, attempts, phase, fatal>>

\* A new socket is open: stop the poller, reconcile.
Reconnect ==
  /\ phase = "ready" /\ reconn = "waiting"
  /\ link' = "up" /\ reconn' = "syncing"
  /\ poll' = PollOff /\ sync' = StartSync("reconnect")
  /\ UNCHANGED <<wal, exVars, task, cancel, cancelReq, blocked, stream, attempts, lifeVars>>

\* The new listenKey or socket cannot be opened.
ReconnectFails ==
  /\ phase = "ready" /\ reconn = "waiting" /\ Fault
  /\ attempts' = attempts + 1
  /\ IF attempts + 1 >= MaxReconnect
       THEN fatal' = TRUE /\ reconn' = "off"
       ELSE UNCHANGED <<fatal, reconn>>
  /\ UNCHANGED <<wal, exVars, procVars, stream, link, phase>>

\* run() sees the fatal exception, stops everything and the process exits.
FatalExit ==
  /\ fatal /\ task = {}
  /\ Down
  /\ UNCHANGED <<wal, exVars, faults>>

Crash ==
  /\ phase # "down" /\ Fault
  /\ Down
  /\ UNCHANGED <<wal, exVars>>

-----------------------------------------------------------------------------
(* external: the exchange and the network *)

Emit(o, s) == stream' = IF link = "up" THEN Append(stream, [o |-> o, s |-> s]) ELSE stream

ExAccept(o) ==
  /\ net[o] = "sent"
  /\ net' = [net EXCEPT ![o] = "accepted"]
  /\ exch' = [exch EXCEPT ![o] = "NEW"]
  /\ Emit(o, "NEW")
  /\ UNCHANGED <<wal, posts, procVars, link, reconn, attempts, lifeVars>>

ExRefuse(o) ==
  /\ net[o] = "sent"
  /\ net' = [net EXCEPT ![o] = "refused"]
  /\ UNCHANGED <<wal, exch, posts, procVars, linkVars, lifeVars>>

ExLose(o) ==
  /\ net[o] = "sent" /\ Fault
  /\ net' = [net EXCEPT ![o] = "lost"]
  /\ UNCHANGED <<wal, exch, posts, procVars, linkVars, phase, fatal>>

\* A fill, an expiry or a cancellation from outside.
ExMove(o, s) ==
  /\ \/ exch[o] = "NEW"
     \/ exch[o] = "PARTIALLY_FILLED" /\ s \in {"FILLED", "CANCELLED"}
  /\ exch' = [exch EXCEPT ![o] = s]
  /\ Emit(o, s)
  /\ UNCHANGED <<wal, net, posts, procVars, link, reconn, attempts, lifeVars>>

\* The DELETE is carried out, refused because the order is done, or its
\* outcome is lost on the way.
ExCancel ==
  /\ cancel.pc = "cancelling"
  /\ LET o == cancel.at
         live == exch[o] \in {"NEW", "PARTIALLY_FILLED"}
         done == IF live THEN "CANCELLED" ELSE exch[o]
     IN  \/ /\ exch' = [exch EXCEPT ![o] = done]
            /\ IF live THEN Emit(o, "CANCELLED") ELSE UNCHANGED stream
            /\ \/ /\ cancel' = [cancel EXCEPT !.pc = "replied",
                                  !.ans = IF live THEN "CANCELLED" ELSE "FAILED"]
                  /\ UNCHANGED faults
               \/ live /\ Fault /\ cancel' = [cancel EXCEPT !.pc = "replied", !.ans = "FAILED"]
         \/ /\ live /\ Fault /\ cancel' = [cancel EXCEPT !.pc = "replied", !.ans = "FAILED"]
            /\ UNCHANGED <<exch, stream>>
  /\ UNCHANGED <<wal, net, posts, task, poll, sync, cancelReq, blocked,
                 link, reconn, attempts, phase, fatal>>

-----------------------------------------------------------------------------

SubmitNext(o) ==
  \/ Submit(o) \/ SubmitExisting(o) \/ SubmitReply(o)
  \/ SubmitRejected(o) \/ SubmitError(o) \/ SubmitCancelled(o)

PollNext == PollBegin \/ (\E o \in Orders : PollScan(o)) \/ PollAnswer \/ PollResolve \/ PollEnd

SyncNext == (\E o \in Orders : SyncQuery(o)) \/ SyncAnswer \/ SyncApply
              \/ SyncAck \/ SyncSucceed \/ SyncBreaks

CancelNext == (\E o \in Orders : CancelOrder(o) \/ FlushCancel(o))
                \/ CancelReply \/ CancelAnswer \/ CancelResolve

LifeNext == Start \/ Disconnect \/ Reconnect \/ ReconnectFails \/ FatalExit \/ Crash

ExchangeNext ==
  \/ \E o \in Orders : ExAccept(o) \/ ExRefuse(o) \/ ExLose(o)
                         \/ (\E s \in Moves : ExMove(o, s))
  \/ ExCancel

Next ==
  \/ \E o \in Orders : SubmitNext(o)
  \/ HandleReport \/ PollNext \/ SyncNext \/ CancelNext \/ LifeNext \/ ExchangeNext

Spec == Init /\ [][Next]_vars

\* Fairness.  Tasks of the event loop are scheduled as long as they can run,
\* REST calls return or time out, a request on the wire is delivered,
\* refused or lost, and the supervisor restarts an exited process.  Nothing
\* is assumed of strategies, of order execution at the exchange or of faults.
Fairness ==
  /\ \A o \in Orders :
       /\ WF_vars(SubmitReply(o) \/ SubmitRejected(o) \/ SubmitError(o))
       /\ WF_vars(SubmitCancelled(o))
       /\ WF_vars(ExAccept(o) \/ ExRefuse(o))
       /\ WF_vars(FlushCancel(o))
  /\ WF_vars(HandleReport)
  /\ WF_vars(PollNext)
  /\ WF_vars(SyncNext)
  /\ WF_vars(CancelReply \/ CancelAnswer \/ CancelResolve)
  /\ WF_vars(ExCancel)
  /\ WF_vars(Start) /\ WF_vars(Reconnect) /\ WF_vars(FatalExit)

-----------------------------------------------------------------------------
(* Properties *)

Report == [o : Orders, s : ExchangeStatus]

PollState == [pc : {"off", "idle", "scan", "query", "answer", "sync"},
              todo : SUBSET Orders, intents : SUBSET Orders,
              at : Orders \cup {"none"},
              ans : ExchangeStatus \cup {"ABSENT", "FAILED", "none"},
              unresolved : BOOLEAN, recon : BOOLEAN]

SyncState == [pc : {"off", "scan", "query", "answer", "strict"},
              todo : SUBSET Orders, at : Orders \cup {"none"},
              ans : ExchangeStatus \cup {"ABSENT", "none"},
              by : {"none", "startup", "reconnect", "poller"}]

CancelState == [pc : {"off", "cancelling", "replied", "querying", "answered"},
                at : Orders \cup {"none"},
                ans : ExchangeStatus \cup {"ABSENT", "FAILED", "none"},
                held : Row]

\* Every variable has its type, and an activity that waits for an answer
\* knows the order it has asked about.
TypeOK ==
  /\ wal \in [Orders -> Row]
  /\ exch \in [Orders -> ExchangeStatus \cup {"ABSENT"}]
  /\ net \in [Orders -> {"none", "sent", "accepted", "refused", "lost"}]
  /\ posts \in [Orders -> Nat]
  /\ task \subseteq Orders
  /\ stream \in Seq(Report)
  /\ link \in {"up", "down"}
  /\ reconn \in {"off", "waiting", "syncing"}
  /\ attempts \in Nat
  /\ poll \in PollState
  /\ poll.pc \in {"query", "answer"} => poll.at \in Orders
  /\ sync \in SyncState
  /\ sync.pc \in {"query", "answer"} => sync.at \in Orders
  /\ sync.pc = "answer" => sync.ans # "none"
  /\ cancel \in CancelState
  /\ cancel.pc # "off" => cancel.at \in Orders
  /\ cancelReq \subseteq Orders
  /\ blocked \subseteq Symbols
  /\ phase \in {"down", "resolve", "sync", "ready"}
  /\ fatal \in BOOLEAN
  /\ faults \in 0..MaxFaults

\* submit() writes the intent before the POST and answers every later call
\* for the same client_order_id from the WAL: across crashes, restarts and
\* retries an order is posted at most once, and never without its intent row.
PostedOnceAfterIntent ==
  \A o \in Orders : posts[o] <= 1 /\ (net[o] # "none" => wal[o] # NoRow)

\* Status s was true at the exchange of an order that is now in state x, after
\* its POST had outcome n; if s is an end it still is.
StatusHolds(x, n, s) ==
  /\ s = "NEW" => x # "ABSENT"
  /\ s = "PARTIALLY_FILLED" => x \in {"PARTIALLY_FILLED", "FILLED", "CANCELLED"}
  /\ s \in {"FILLED", "CANCELLED", "EXPIRED"} => x = s
  /\ s = "REJECTED" => n = "refused" /\ x = "ABSENT"

Happened(o, s) == StatusHolds(exch[o], net[o], s)

\* What the WAL says is true of the exchange: whatever the order in which the
\* POST reply, reports, queries and cancel replies arrive, a terminal row is
\* the order's real end and an active row is a state it really went through.
FactsAreTrue == \A o \in Orders : Happened(o, wal[o].status)

\* Why those hold, as an inductive invariant: whoever still has to do with an
\* order finds its row in the WAL, and every report, query answer and cancel
\* reply still on its way was true of the exchange when it was given.
Known ==
  /\ \A o \in Orders : posts[o] <= 1 /\ (posts[o] # 0 \/ net[o] # "none" => wal[o] # NoRow)
  /\ \A o \in task \cup poll.todo \cup sync.todo \cup cancelReq : wal[o] # NoRow
  /\ poll.pc \in {"query", "answer"} => wal[poll.at] # NoRow
  /\ sync.pc \in {"query", "answer"} => wal[sync.at] # NoRow
  /\ cancel.pc # "off" => wal[cancel.at] # NoRow

Evidence ==
  /\ \A o \in Orders : exch[o] # "REJECTED" /\ (exch[o] # "ABSENT" <=> net[o] = "accepted")
  /\ \A i \in 1..Len(stream) : Happened(stream[i].o, stream[i].s)
  /\ poll.pc = "answer" => Happened(poll.at, poll.ans)
  /\ sync.pc = "answer" => Happened(sync.at, sync.ans)
  /\ cancel.pc \in {"replied", "answered"} => Happened(cancel.at, cancel.ans)

\* ... and the life of the process: before it is ready nothing is submitted, the
\* resolve pass has every intent and every doubt of earlier lives before it, and
\* the sync starts only when it has been through with them.
Stages ==
  /\ phase # "ready" => task = {}
  /\ phase \in {"down", "resolve"} => sync = SyncOff
  /\ phase = "down" => poll.pc = "off"
  /\ phase = "resolve" => poll.pc \in {"scan", "query", "answer"}
  /\ phase = "sync" => poll.pc = "off" /\ sync.by = "startup"
  /\ phase = "ready" => sync.by # "startup"

Accounted(o) ==
  /\ wal[o].type = "intent" =>
       \/ phase = "down"
       \/ phase = "resolve" /\ o \in poll.todo \cap poll.intents
       \/ phase = "ready" /\ o \in task
  /\ wal[o].status = "SUBMIT_UNKNOWN" =>
       \/ phase = "down"
       \/ phase = "resolve" /\ o \in poll.todo
       \/ SymbolOf[o] \in blocked

Recovered == Stages /\ \A o \in Orders : Accounted(o)

ExecutionInv == Known /\ Evidence /\ FactsAreTrue /\ Recovered

\* The abstract history of each order that the WAL stands for.
FactOf(row) == IF row.status = "NONE" THEN row.type ELSE row.status

fact == [o \in Orders |-> FactOf(wal[o])]

Facts == INSTANCE OrderFacts

\* The execution process implements the abstract order history: every step of
\* every task moves one order along the life cycle or leaves them all alone;
\* a timeout never hides an exchange fact and an end is never rewritten.
ImplementsOrderFacts == Facts!Spec

\* While the process is ready, a symbol with an order whose submission is
\* unknown is blocked for new entries, whichever task touched it last.
UnknownBlocksSymbol ==
  phase = "ready" =>
    \A o \in Orders : wal[o].status = "SUBMIT_UNKNOWN" => SymbolOf[o] \in blocked

\* A ready process holds no intent of an earlier life: every bare intent row
\* belongs to a submit task that is still waiting for its POST.
NoOrphanIntent ==
  phase = "ready" => \A o \in Orders : wal[o].type = "intent" => o \in task

\* The user stream is disconnected and no task will reconnect it.
StreamAbandoned == phase = "ready" /\ ~fatal /\ link = "down" /\ reconn = "off"

\* The WAL holds an order the exchange does not know: refused, or lost.
OrderMissing == \E o \in Orders : net[o] \in {"refused", "lost"}

\* Once an order has ended at the exchange, the WAL learns how, through
\* reports, polling, reconnects and restarts, except when the stream was
\* abandoned or an order missing at the exchange keeps every sync failing.
EndIsLearned ==
  \A o \in Orders :
    (exch[o] \in Terminal) ~> (wal[o].status = exch[o] \/ StreamAbandoned \/ OrderMissing)

\* A submission left in doubt is eventually resolved to an exchange fact,
\* except when the request was lost (the order stays unknown, by design) or
\* another order is missing.
DoubtIsResolved ==
  \A o \in Orders :
    (wal[o].status = "SUBMIT_UNKNOWN") ~> (wal[o].type = "exchange_status" \/ OrderMissing)

=============================================================================
