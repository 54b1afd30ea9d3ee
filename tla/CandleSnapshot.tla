------------------------------ MODULE CandleSnapshot ------------------------------
(* The 1 s candle snapshot kept around every entry signal: the local store with its *)
(* WAL, Parquet file and outbox (market/live_snapshot.py), the runtime that links it  *)
(* to PostgreSQL (strategies/spike/candle_snapshots.py, ledger/db/models.py), and     *)
(* the pipeline that lets an entry out only behind its snapshot (spike/live.py).      *)
(* One symbol; second t is the bar finalised when the clock passes t + 1.             *)
EXTENDS Integers, FiniteSets, FiniteSetsExt

CONSTANTS
    Campaigns,      \* campaign numbers; the store finalises in the order of ids
    Seconds,        \* bound: seconds of the run
    PreWindow, PostWindow,
    MaxQuiet,       \* bound: seconds without a trade
    MaxLost,        \* bound: bars the feed loses
    MaxStops,     \* bound: stops and crashes of the process
    MaxFaults       \* bound: failed disk and database calls

ConstantsOK ==
    /\ Campaigns \subseteq Nat \ {0}
    /\ Seconds \in Nat /\ PreWindow \in Nat /\ PostWindow \in Nat \ {0}
    /\ MaxQuiet \in Nat /\ MaxLost \in Nat /\ MaxStops \in Nat /\ MaxFaults \in Nat

Time == 1..Seconds
\* How a capture was sealed: flushed when due, or cut off by shutdown or restart.
Seals == {"open", "complete", "cut", "expired"}
Capture == [on : BOOLEAN, bars : SUBSET Time, pre : BOOLEAN, seal : Seals, end : 0..Seconds]
NoCapture == [on |-> FALSE, bars |-> {}, pre |-> FALSE, seal |-> "open", end |-> 0]

VARIABLES
    now, had, lost, \* last finished second; seconds with trades; bars that never arrived
    queue,          \* bars whose snapshot observation is scheduled
    proc,           \* down, recovering, reconciling, up, stopping, closed
    fault,          \* runtime._fault_reason is set
    buffer, active, \* the store's memory: rolling buffer and captures
    wal, torn, file, outbox, \* its disk: staging WAL, half a WAL line, Parquet, sidecar
    store,          \* the store call in progress: kind, captures to finalise, done, stage
    row,            \* campaign_candle_snapshots
    failedEvent, doneEvent, \* journal events with the snapshot's domain key
    entry, signal,  \* the entry pipeline of a campaign and its signal second
    delivery, work, \* manifest queue, and what its worker is doing
    stops, faults

memory == <<queue, buffer, active, store, delivery, work>>
disk == <<wal, torn, file, outbox>>
market == <<now, had, lost>>
journal == <<failedEvent, doneEvent>>
vars == <<market, proc, fault, memory, disk, row, journal, entry, signal, stops, faults>>

IdleStore == [call |-> "none", todo |-> {}, done |-> {}, stage |-> "seal"]
IdleWork == [on |-> 0, step |-> "complete"]

TypeOK ==
    /\ now \in 0..Seconds /\ had \subseteq Time /\ lost \subseteq had /\ queue \subseteq had
    /\ proc \in {"down", "recovering", "reconciling", "up", "stopping", "closed"}
    /\ fault \in BOOLEAN /\ buffer \subseteq had
    /\ active \in [Campaigns -> Capture] /\ wal \in [Campaigns -> Capture]
    /\ file \in [Campaigns -> Capture] /\ torn \subseteq Campaigns /\ outbox \subseteq Campaigns
    /\ store \in [call : {"none", "flush", "recover", "close"}, todo : SUBSET Campaigns,
                  done : SUBSET Campaigns, stage : {"seal", "file", "outbox", "drop"}]
    /\ row \in [Campaigns -> [status : {"none", "collecting", "completed", "failed"}, of : Capture]]
    /\ failedEvent \subseteq Campaigns /\ doneEvent \subseteq Campaigns
    /\ entry \in [Campaigns -> {"idle", "waiting", "created", "unstarted", "submitted", "rejected"}]
    /\ signal \in [Campaigns -> 0..Seconds]
    /\ delivery \subseteq Campaigns
    /\ work \in [on : Campaigns \cup {0}, step : {"complete", "emit", "ack"}]
    /\ stops \in 0..MaxStops /\ faults \in 0..MaxFaults

Init ==
    /\ now = 0 /\ had = {} /\ lost = {} /\ queue = {}
    /\ proc = "up" /\ fault = FALSE /\ buffer = {}
    /\ active = [c \in Campaigns |-> NoCapture]
    /\ wal = active /\ file = active /\ torn = {} /\ outbox = {}
    /\ store = IdleStore
    /\ row = [c \in Campaigns |-> [status |-> "none", of |-> NoCapture]]
    /\ failedEvent = {} /\ doneEvent = {}
    /\ entry = [c \in Campaigns |-> "idle"] /\ signal = [c \in Campaigns |-> 0]
    /\ delivery = {} /\ work = IdleWork
    /\ stops = 0 /\ faults = 0

Start(c) == signal[c] - PreWindow
Due(c) == signal[c] + PostWindow
Window(c) == Start(c)..(Due(c) - 1)

\* A failing call costs one fault and leaves the runtime faulted until restart.
Fault == faults < MaxFaults /\ faults' = faults + 1 /\ fault' = TRUE

\* No entry pipeline of the campaign is under way.
Settled(c) == entry[c] \in {"idle", "submitted", "rejected"}

---------------------------------------------------------------------------
(* The feed and the coordinator's bar handler.                              *)

\* A second passes.  A running process schedules the observation of its bar; the
\* last second of the run trades in a running process with no entry under way, as
\* the feed goes on and some bar follows every window.
Tick ==
    /\ now < Seconds
    /\ now' = now + 1
    /\ now' = Seconds => proc = "up" /\ \A c \in Campaigns : Settled(c)
    /\ \E traded, arrives \in BOOLEAN :
          /\ traded \/ (now' < Seconds /\ now' - Cardinality(had) <= MaxQuiet)
          /\ ~arrives => traded /\ now' < Seconds /\ Cardinality(lost) < MaxLost
          /\ had' = IF traded THEN had \cup {now'} ELSE had
          /\ LET seen == traded /\ arrives /\ proc = "up"
             IN /\ queue' = IF seen THEN queue \cup {now'} ELSE queue
                /\ lost' = IF traded /\ ~seen THEN lost \cup {now'} ELSE lost
    /\ UNCHANGED <<proc, fault, buffer, active, store, delivery, work, disk, row, journal,
                   entry, signal, stops, faults>>

\* The strategy signals on the bar just received; the entry waits for its snapshot.
Signal(c) ==
    /\ proc = "up" /\ entry[c] = "idle" /\ now \in queue
    /\ now + PostWindow < Seconds
    /\ entry' = [entry EXCEPT ![c] = "waiting"]
    /\ signal' = [signal EXCEPT ![c] = now]
    /\ UNCHANGED <<market, proc, fault, memory, disk, row, journal, stops, faults>>

---------------------------------------------------------------------------
(* LiveSnapshotStore; its calls are serialised by the runtime's store lock.  *)

Running == proc \in {"up", "stopping"}

\* observe_bar: buffer, active captures and their WALs, then flush_due.
Takes(c, b) == active[c].on /\ active[c].seal = "open" /\ b \in Window(c)

Observe ==
    /\ Running /\ store.call = "none" /\ queue # {}
    /\ LET b == Min(queue)
           kept == {t \in buffer \cup {b} : t >= b - PreWindow}
           due == {c \in Campaigns : active[c].on /\ Due(c) <= b + 1}
       IN /\ queue' = queue \ {b}
          /\ buffer' = kept
          /\ active' = [c \in Campaigns |-> IF Takes(c, b)
                        THEN [active[c] EXCEPT !.bars = @ \cup {b}] ELSE active[c]]
          /\ wal' = [c \in Campaigns |-> IF Takes(c, b)
                     THEN [wal[c] EXCEPT !.bars = @ \cup {b}] ELSE wal[c]]
          /\ store' = IF due = {} THEN store ELSE [IdleStore EXCEPT !.call = "flush", !.todo = due]
    /\ UNCHANGED <<market, proc, fault, delivery, work, torn, file, outbox, row, journal,
                   entry, signal, stops, faults>>

Sealed(c) ==
    CASE store.call = "flush" -> [seal |-> "complete", end |-> Due(c)]
      [] store.call = "recover" -> [seal |-> "expired", end |-> Due(c)]
      [] OTHER -> [seal |-> "cut", end |-> Max({Start(c), Min({now + 1, Due(c)}), 0})]

Seal(c) ==
    /\ store.stage = "seal"
    /\ store' = [store EXCEPT !.stage = "file"]
    /\ LET s == IF active[c].seal = "open" THEN Sealed(c)
                ELSE [seal |-> active[c].seal, end |-> active[c].end]
       IN /\ active' = [active EXCEPT ![c].seal = s.seal, ![c].end = s.end]
          /\ wal' = [wal EXCEPT ![c].seal = s.seal, ![c].end = s.end]
    /\ UNCHANGED <<proc, fault, file, outbox, faults, delivery>>

PublishFile(c) ==
    /\ store.stage = "file"
    /\ file[c].on => file[c] = active[c]
    /\ store' = [store EXCEPT !.stage = "outbox"]
    /\ file' = [file EXCEPT ![c] = active[c]]
    /\ UNCHANGED <<proc, fault, active, wal, outbox, faults, delivery>>

WriteOutbox(c) ==
    /\ store.stage = "outbox"
    /\ store' = [store EXCEPT !.stage = "drop"]
    /\ outbox' = outbox \cup {c}
    /\ UNCHANGED <<proc, fault, active, wal, file, faults, delivery>>

DropWal(c) ==
    /\ store.stage = "drop"
    /\ wal' = [wal EXCEPT ![c] = NoCapture]
    /\ active' = [active EXCEPT ![c] = NoCapture]
    /\ store' = [store EXCEPT !.stage = "seal", !.todo = @ \ {c}, !.done = @ \cup {c}]
    /\ UNCHANGED <<proc, fault, file, outbox, faults, delivery>>

\* A step that raises ends the whole call: the manifests finalised before it are
\* not handed to the worker, and a recovery that raises ends the start.
StoreFails ==
    /\ Fault
    /\ store' = IdleStore
    /\ proc' = CASE store.call = "recover" -> "down"
                 [] store.call = "close" -> "closed"
                 [] OTHER -> proc
    /\ UNCHANGED <<active, wal, file, outbox, delivery>>

\* The call returns and its manifests go to the delivery worker.
StoreReturns ==
    /\ delivery' = IF store.call = "recover" THEN delivery ELSE delivery \cup store.done
    /\ proc' = CASE store.call = "recover" -> "reconciling"
                 [] store.call = "close" -> "closed"
                 [] OTHER -> proc
    /\ store' = IdleStore
    /\ UNCHANGED <<fault, active, wal, file, outbox, faults>>

Store ==
    /\ store.call # "none"
    /\ IF store.todo = {} THEN StoreReturns
       ELSE LET c == Min(store.todo)
            IN Seal(c) \/ PublishFile(c) \/ WriteOutbox(c) \/ DropWal(c)
    /\ UNCHANGED <<market, queue, buffer, work, torn, row, journal, entry, signal, stops>>

StoreStepFails ==
    /\ store.call # "none" /\ store.todo # {}
    /\ StoreFails
    /\ UNCHANGED <<market, queue, buffer, work, torn, row, journal, entry, signal, stops>>

---------------------------------------------------------------------------
(* ensure_signal_snapshot, run by the entry pipeline of the coordinator.     *)

Enter(c, e) == entry' = [entry EXCEPT ![c] = e]

\* The signal's bar has been observed; a faulted runtime refuses every entry,
\* otherwise the manifest row is inserted.
CreateRow(c) ==
    /\ Running /\ entry[c] = "waiting" /\ signal[c] \notin queue
    /\ IF fault
       THEN Enter(c, "rejected") /\ UNCHANGED <<row, fault, faults>>
       ELSE \/ /\ row' = [row EXCEPT ![c].status = "collecting"]
               /\ Enter(c, "created")
               /\ UNCHANGED <<fault, faults>>
            \/ Fault /\ Enter(c, "rejected") /\ UNCHANGED row
    /\ UNCHANGED <<market, proc, memory, disk, journal, signal, stops>>

\* start_snapshot copies the buffered bars up to the signal and writes the WAL.
StartSnapshot(c) ==
    /\ Running /\ store.call = "none" /\ entry[c] = "created"
    /\ LET s == [on |-> TRUE, bars |-> {t \in buffer : t >= Start(c) /\ t <= signal[c]},
                 pre |-> buffer # {} /\ Min(buffer) <= Start(c), seal |-> "open", end |-> 0]
       IN \/ /\ wal' = [wal EXCEPT ![c] = s]
             /\ active' = [active EXCEPT ![c] = s]
             /\ Enter(c, "submitted")
             /\ UNCHANGED <<fault, faults>>
          \/ /\ Fault
             /\ \E written \in BOOLEAN : wal' = IF written THEN [wal EXCEPT ![c] = s] ELSE wal
             /\ Enter(c, "unstarted")
             /\ UNCHANGED active
    /\ UNCHANGED <<market, proc, queue, buffer, store, delivery, work, torn, file, outbox, row,
                   journal, signal, stops>>

\* ... and a start that failed fails the row and emits the event.
FailStart(c) ==
    /\ Running /\ entry[c] = "unstarted"
    /\ Enter(c, "rejected")
    /\ \/ /\ row' = [row EXCEPT ![c].status = "failed"]
          /\ failedEvent' = failedEvent \cup {c}
          /\ UNCHANGED <<fault, faults>>
       \/ Fault /\ UNCHANGED <<row, failedEvent>>
    /\ UNCHANGED <<market, proc, memory, disk, doneEvent, signal, stops>>

---------------------------------------------------------------------------
(* The manifest worker: complete the row, emit the event, acknowledge.       *)

TakeManifest(c) ==
    /\ proc \in {"up", "stopping", "closed"} /\ work.on = 0 /\ c \in delivery
    /\ work' = [on |-> c, step |-> "complete"]
    /\ delivery' = delivery \ {c}
    /\ UNCHANGED <<market, proc, fault, queue, buffer, active, store, disk, row, journal,
                   entry, signal, stops, faults>>

\* A manifest whose delivery fails comes back after five seconds.
Requeue == work' = IdleWork /\ delivery' = delivery \cup {work.on}

WorkFails ==
    /\ work.on # 0
    /\ Fault /\ Requeue
    /\ UNCHANGED <<market, proc, queue, buffer, active, store, disk, row, journal, entry, signal, stops>>

\* complete_campaign_snapshot: from collecting, or again with the same payload.
CompleteRow ==
    /\ work.on # 0 /\ work.step = "complete"
    /\ LET c == work.on
       IN IF row[c].status = "collecting" \/ (row[c].status = "completed" /\ row[c].of = file[c])
          THEN /\ row' = [row EXCEPT ![c] = [status |-> "completed", of |-> file[c]]]
               /\ work' = [work EXCEPT !.step = "emit"]
               /\ UNCHANGED <<fault, delivery>>
          ELSE /\ Requeue /\ fault' = TRUE
               /\ UNCHANGED row
    /\ UNCHANGED <<market, proc, queue, buffer, active, store, disk, journal, entry, signal, stops, faults>>

EmitDone ==
    /\ work.on # 0 /\ work.step = "emit"
    /\ doneEvent' = doneEvent \cup {work.on}
    /\ work' = [work EXCEPT !.step = "ack"]
    /\ UNCHANGED <<market, proc, fault, queue, buffer, active, store, delivery, disk, row,
                   failedEvent, entry, signal, stops, faults>>

\* ack_manifest removes a left-over WAL before the sidecar.
Ack ==
    /\ work.on # 0 /\ work.step = "ack" /\ store.call = "none"
    /\ wal' = [wal EXCEPT ![work.on] = NoCapture]
    /\ torn' = torn \ {work.on}
    /\ outbox' = outbox \ {work.on}
    /\ work' = IdleWork
    /\ UNCHANGED <<market, proc, fault, queue, buffer, active, store, delivery, file, row,
                   journal, entry, signal, stops, faults>>

---------------------------------------------------------------------------
(* Stop, crash and start.                                                   *)

\* coordinator.stop drains observations and entries before the store is closed.
Stop ==
    /\ proc = "up" /\ stops < MaxStops
    /\ proc' = "stopping" /\ stops' = stops + 1
    /\ UNCHANGED <<market, fault, memory, disk, row, journal, entry, signal, faults>>

Close ==
    /\ proc = "stopping" /\ store.call = "none" /\ queue = {}
    /\ \A c \in Campaigns : Settled(c)
    /\ store' = [IdleStore EXCEPT !.call = "close", !.todo = {c \in Campaigns : active[c].on}]
    /\ UNCHANGED <<market, proc, fault, queue, buffer, active, delivery, work, disk, row,
                   journal, entry, signal, stops, faults>>

\* The memory is gone; an entry that waited for its snapshot is never submitted.
Forget ==
    /\ proc' = "down" /\ fault' = FALSE
    /\ queue' = {} /\ buffer' = {} /\ active' = [c \in Campaigns |-> NoCapture]
    /\ store' = IdleStore /\ delivery' = {} /\ work' = IdleWork
    /\ lost' = lost \cup queue
    /\ entry' = [c \in Campaigns |-> IF entry[c] \in {"waiting", "created", "unstarted"}
                 THEN "rejected" ELSE entry[c]]
    /\ UNCHANGED <<now, had, file, outbox, row, journal, signal, faults>>

\* The process exits two seconds after closing, whatever is left in the queue.
Exit == proc = "closed" /\ Forget /\ UNCHANGED <<wal, torn, stops>>

\* A crash can tear the WAL line being appended.
Crash ==
    /\ proc # "down" /\ stops < MaxStops
    /\ stops' = stops + 1
    /\ Forget
    /\ \E t \in {{}} \cup {{c} : c \in {d \in Campaigns : queue # {} /\ Takes(d, Min(queue))}} :
          torn' = torn \cup t
    /\ UNCHANGED wal

\* LiveSnapshotStore.__init__ and runtime.start: the WALs without a sidecar come
\* back, and those sealed or past their due time are finalised as interrupted.
Restart ==
    /\ proc = "down"
    /\ proc' = "recovering"
    /\ fault' = FALSE
    /\ LET back == {c \in Campaigns : wal[c].on /\ c \notin torn /\ c \notin outbox}
       IN /\ active' = [c \in Campaigns |-> IF c \in back THEN wal[c] ELSE NoCapture]
          /\ store' = [IdleStore EXCEPT !.call = "recover",
                         !.todo = {c \in back : wal[c].seal # "open" \/ Due(c) <= now + 1}]
    /\ UNCHANGED <<market, queue, buffer, delivery, work, disk, row, journal, entry, signal, stops, faults>>

\* _reconcile_collecting_manifests.
Orphan(c) == row[c].status = "collecting" /\ ~active[c].on /\ c \notin outbox

FailOrphan(c) ==
    /\ proc = "reconciling" /\ Orphan(c)
    /\ row' = [row EXCEPT ![c].status = "failed"]
    /\ UNCHANGED <<market, proc, fault, memory, disk, journal, entry, signal, stops, faults>>

EmitFailed(c) ==
    /\ proc = "reconciling" /\ row[c].status = "failed" /\ c \notin failedEvent
    /\ failedEvent' = failedEvent \cup {c}
    /\ UNCHANGED <<market, proc, fault, memory, disk, row, doneEvent, entry, signal, stops, faults>>

Ready ==
    /\ proc = "reconciling"
    /\ \A c \in Campaigns : ~Orphan(c) /\ (row[c].status = "failed" => c \in failedEvent)
    /\ proc' = "up"
    /\ delivery' = outbox
    /\ UNCHANGED <<market, fault, queue, buffer, active, store, work, disk, row, journal,
                   entry, signal, stops, faults>>

\* A failed database call ends the start; the supervisor tries again.
ReconcileFails ==
    /\ proc = "reconciling" /\ faults < MaxFaults
    /\ faults' = faults + 1
    /\ proc' = "down"
    /\ active' = [c \in Campaigns |-> NoCapture]
    /\ UNCHANGED <<market, fault, queue, buffer, store, delivery, work, disk, row, journal,
                   entry, signal, stops>>

Recovery ==
    Restart \/ Ready \/ \E c \in Campaigns : FailOrphan(c) \/ EmitFailed(c)

Pipeline(c) == CreateRow(c) \/ StartSnapshot(c) \/ FailStart(c)

Worker == CompleteRow \/ EmitDone \/ Ack \/ \E c \in Campaigns : TakeManifest(c)

\* The end of the run: nothing is left to happen.
Done == now = Seconds /\ proc = "up" /\ UNCHANGED vars

Next ==
    \/ Tick \/ Observe \/ Store \/ StoreStepFails
    \/ \E c \in Campaigns : Signal(c) \/ Pipeline(c)
    \/ Worker \/ WorkFails
    \/ Stop \/ Close \/ Exit \/ Crash \/ Recovery \/ ReconcileFails
    \/ Done

Spec == Init /\ [][Next]_vars

\* The event loop runs its tasks, threads return, the supervisor restarts.
Fairness ==
    /\ WF_vars(Tick) /\ WF_vars(Observe) /\ WF_vars(Store) /\ WF_vars(Worker)
    /\ WF_vars(Close) /\ WF_vars(Exit) /\ WF_vars(Recovery)
    /\ \A c \in Campaigns : WF_vars(Pipeline(c))

---------------------------------------------------------------------------
\* SnapshotManifest.coverage_status, from the aggregate trade ids of the rows.
AggId(t) == Cardinality({u \in had : u <= t})

Follows(bars, p, q) == p < q /\ \A t \in bars : t <= p \/ t >= q

Gapped(s) ==
    \E p, q \in s.bars : Follows(s.bars, p, q) /\ AggId(q) # AggId(p) + 1

Boundary(c, s) ==
    {t \in Start(c)..(s.end - 1) : s.bars = {} \/ t < Min(s.bars) \/ t > Max(s.bars)}

Coverage_span(c, s) ==
    IF s.seal # "complete" \/ Boundary(c, s) # {} \/ ~s.pre THEN "incomplete" ELSE "complete"

Coverage(c, s) ==
    IF Gapped(s) THEN "gapped"
    ELSE IF s.seal # "complete" \/ Boundary(c, s) # {} \/ ~s.pre THEN "incomplete"
    ELSE "complete"

Completed(c) == row[c].status = "completed"

(* "Complete" is never claimed of a window that lacks a traded second, whatever *)
(* was lost by the feed, by a crash or by a late start of the capture.          *)
CoverageHonest ==
    \A c \in Campaigns : Completed(c) /\ Coverage(c, row[c].of) = "complete"
                         => had \cap Window(c) \subseteq row[c].of.bars

(* An entry that was submitted has its snapshot on disk or its row failed; a     *)
(* file without WAL and sidecar is completed in PostgreSQL and in the journal.   *)
NothingLost ==
    \A c \in Campaigns :
        /\ entry[c] = "submitted" => wal[c].on \/ file[c].on \/ row[c].status = "failed"
        /\ file[c].on /\ ~wal[c].on /\ c \notin outbox => Completed(c) /\ c \in doneEvent

(* The payload a completed row describes is the file on disk, sealed as it was   *)
(* first decided, however often finalising was interrupted and resumed.          *)
RowMatchesFile ==
    \A c \in Campaigns :
        /\ Completed(c) => file[c].on /\ row[c].of = file[c]
        /\ file[c].on /\ wal[c].on => wal[c] = file[c]

(* Without a failing call a collecting row is completed or failed in the end;     *)
(* what a failing call has left behind is settled, and a failure announced, once   *)
(* the process has started again and no call fails any more.                       *)
CollectingEnds ==
    \A c \in Campaigns :
        LET ends == row[c].status = "completed" \/ (row[c].status = "failed" /\ c \in failedEvent)
        IN /\ []~fault => (row[c].status # "none" ~> ends)
           /\ (proc = "down" /\ row[c].status # "none" /\ []~fault) ~> ends

=============================================================================
