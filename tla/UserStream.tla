----------------------------- MODULE UserStream -----------------------------
(***************************************************************************)
(* The user data stream (shared/binance/user_stream.py): listen key, web   *)
(* socket, reconnect task and the worker that hands the events to the      *)
(* process.  A socket has a thread of its own; everything else runs on the *)
(* event loop, whose FIFO of scheduled calls is "ready": what a thread     *)
(* posts there runs later, in the order of posting.  A message m becomes   *)
(* two callbacks, its envelope <<m, "raw">> and the event <<m, "event">>.  *)
(***************************************************************************)
EXTENDS Naturals, Sequences, FiniteSets

CONSTANTS
    MaxMessages,    \* messages the exchange sends
    MaxDrops,       \* connections that break by themselves
    MaxFaults,      \* calls that fail, callbacks that raise, bad messages
    MaxAttempts     \* max_reconnect_attempts

VARIABLES
    phase,          \* where start() or stop() is
    running, accept, connected,
    fatal,          \* _fatal_exception, by its cause
    key, keys,      \* listen_key (0: None), and the keys the exchange holds
    ws, socket,     \* the current socket (0: None), and the state of each
    thread,         \* what the thread of each socket is in the middle of
    ready, queue,   \* calls posted to the loop, and _callback_queue
    worker, alive,  \* _callback_worker, by number, and whether it runs
    inFlight,       \* the callback being handled
    tasks, attempts, current,   \* reconnect tasks; current is _reconnect_task
    scheduled, handled, failed, \* callbacks accepted from the socket, begun, raised
    leaked,         \* keys whose closing failed
    doubled,        \* two reconnect tasks have run at the same time
    timedOut,       \* stop() gave up waiting for the callbacks
    messages, drops, faults

stream == <<phase, running, accept, connected, fatal>>
keyVars == <<key, keys, leaked>>
socketVars == <<ws, socket, thread>>
workerVars == <<queue, worker, alive, inFlight, handled, failed>>
taskVars == <<tasks, attempts, current, doubled>>
vars == <<stream, keyVars, socketVars, ready, workerVars, taskVars, scheduled, timedOut,
          messages, drops, faults>>

ConstantsOK ==
    /\ {MaxMessages, MaxDrops, MaxFaults} \subseteq Nat
    /\ MaxAttempts \in Nat \ {0}

Idle == <<0, "idle">>
Reconnecting == <<0, "reconnect">>
Items == (1..MaxMessages) \X {"raw", "event"}
Pending(t) == t # 0 /\ tasks[t] # "done"
Fault == faults < MaxFaults /\ faults' = faults + 1
\* The loop is known to the threads until stop() ends.
Reachable == phase # "stopped"
\* The run of the current socket has ended.
Lost == IF ws = 0 THEN TRUE ELSE socket[ws] = "ended"

Init ==
    /\ phase = "off" /\ running = FALSE /\ accept = TRUE /\ connected = FALSE
    /\ fatal = "none"
    /\ key = 0 /\ keys = {} /\ leaked = {}
    /\ ws = 0 /\ socket = <<>> /\ thread = <<>>
    /\ ready = <<>> /\ queue = <<>> /\ worker = 0 /\ alive = FALSE /\ inFlight = Idle
    /\ tasks = <<>> /\ attempts = <<>> /\ current = 0 /\ doubled = FALSE
    /\ scheduled = <<>> /\ handled = <<>> /\ failed = {}
    /\ timedOut = FALSE /\ messages = 0 /\ drops = 0 /\ faults = 0

-----------------------------------------------------------------------------
(* Callbacks *)

\* _record_fatal: the first cause stays.
RecordFatal(cause) == fatal' = IF fatal = "none" THEN cause ELSE fatal

\* _ensure_callback_worker: a finished worker is replaced unless the stream has
\* failed for good.
EnsureWorker ==
    IF alive \/ fatal # "none"
    THEN UNCHANGED <<worker, alive>>
    ELSE worker' = worker + 1 /\ alive' = TRUE

\* _enqueue_callback, on the loop.
Enqueue(item) ==
    IF ~accept \/ fatal # "none"
    THEN UNCHANGED <<queue, worker, alive>>
    ELSE EnsureWorker /\ queue' = Append(queue, item)

\* _callback_worker_done: only the failure of the current worker counts, and it
\* discards what waits.
WorkerDone(w) ==
    IF w = worker
    THEN queue' = <<>> /\ RecordFatal("callback")
    ELSE UNCHANGED <<queue, fatal>>

\* _callback_loop takes the next callback ...
Take ==
    /\ alive /\ inFlight = Idle /\ queue # <<>>
    /\ inFlight' = Head(queue) /\ queue' = Tail(queue)
    /\ handled' = Append(handled, Head(queue))
    /\ UNCHANGED <<stream, keyVars, socketVars, ready, worker, alive, failed, taskVars,
                   scheduled, timedOut, messages, drops, faults>>

\* ... and it returns, or raises, which ends the worker; the loop calls
\* _callback_worker_done later.
Return ==
    /\ inFlight # Idle
    /\ inFlight' = Idle
    /\ \/ UNCHANGED <<alive, failed, ready, faults>>
       \/ /\ Fault
          /\ alive' = FALSE /\ failed' = failed \cup {inFlight}
          /\ ready' = Append(ready, <<"worker done", worker>>)
    /\ UNCHANGED <<stream, keyVars, socketVars, queue, worker, handled, taskVars,
                   scheduled, timedOut, messages, drops>>

-----------------------------------------------------------------------------
(* The socket and its thread *)

\* _schedule_callback: under the lock stop() takes, so nothing is posted after it.
Schedule(item) ==
    IF running /\ Reachable
    THEN /\ ready' = Append(ready, <<"enqueue", item>>)
         /\ scheduled' = Append(scheduled, item)
    ELSE UNCHANGED <<ready, scheduled>>

\* on_message of the current socket posts the envelope, or finds a message it
\* cannot read, ...
OnMessage ==
    /\ ws # 0 /\ socket[ws] = "open" /\ thread[ws] = Idle
    /\ \/ /\ messages < MaxMessages
          /\ messages' = messages + 1
          /\ Schedule(<<messages + 1, "raw">>)
          /\ thread' = [thread EXCEPT ![ws] = <<messages + 1, "event">>]
          /\ UNCHANGED <<fatal, faults>>
       \/ Fault /\ RecordFatal("message") /\ UNCHANGED <<ready, scheduled, thread, messages>>
    /\ UNCHANGED <<phase, running, accept, connected, keyVars, ws, socket, workerVars,
                   taskVars, timedOut, drops>>

\* ... and then the event in it.
OnMessageEnds(s) ==
    /\ thread[s] \in Items
    /\ Schedule(thread[s])
    /\ thread' = [thread EXCEPT ![s] = Idle]
    /\ UNCHANGED <<stream, keyVars, ws, socket, workerVars, taskVars, timedOut, messages,
                   drops, faults>>

\* on_open.
OnOpen(s) ==
    /\ socket[s] = "connecting"
    /\ socket' = [socket EXCEPT ![s] = "open"]
    /\ ready' = IF s = ws /\ Reachable THEN Append(ready, <<"up", s>>) ELSE ready
    /\ UNCHANGED <<stream, keyVars, ws, thread, workerVars, taskVars, scheduled, timedOut,
                   messages, drops, faults>>

\* on_close: the socket breaks, or was told to close.  Only the current one
\* counts.  In _schedule_reconnect the thread sees no unfinished reconnect task ...
OnClose(s) ==
    /\ socket[s] \in {"connecting", "open", "closing"}
    /\ thread[s] = Idle
    /\ IF socket[s] = "closing" THEN UNCHANGED drops ELSE drops < MaxDrops /\ drops' = drops + 1
    /\ socket' = [socket EXCEPT ![s] = "closed"]
    /\ IF s = ws
       THEN /\ ready' = IF Reachable THEN Append(ready, <<"down", s>>) ELSE ready
            /\ thread' = IF running /\ ~Pending(current)
                         THEN [thread EXCEPT ![s] = Reconnecting] ELSE thread
       ELSE UNCHANGED <<ready, thread>>
    /\ UNCHANGED <<stream, keyVars, ws, workerVars, taskVars, scheduled, timedOut, messages,
                   faults>>

\* run_coroutine_threadsafe(_reconnect_after_disconnect()), and its future
\* becomes _reconnect_task.
PostReconnect ==
    /\ tasks' = Append(tasks, "posted")
    /\ attempts' = Append(attempts, 0)
    /\ current' = Len(tasks) + 1
    /\ doubled' = (doubled \/ \E t \in DOMAIN tasks : tasks[t] # "done")
    /\ ready' = Append(ready, <<"reconnect", Len(tasks) + 1>>)

\* ... and then starts one, without having kept the loop from doing so meanwhile.
OnCloseEnds(s) ==
    /\ thread[s] = Reconnecting
    /\ thread' = [thread EXCEPT ![s] = Idle]
    /\ IF Reachable THEN PostReconnect ELSE UNCHANGED <<taskVars, ready>>
    /\ UNCHANGED <<stream, keyVars, ws, socket, workerVars, scheduled, timedOut, messages,
                   drops, faults>>

\* _schedule_reconnect on the loop: check and start in one step.
ScheduleReconnect ==
    IF running /\ ~Pending(current) THEN PostReconnect ELSE UNCHANGED <<taskVars, ready>>

\* _ws_task_done: run_forever has returned.
WsTaskDone(s) ==
    /\ socket[s] = "closed" /\ thread[s] = Idle
    /\ socket' = [socket EXCEPT ![s] = "ended"]
    /\ IF s = ws /\ running
       THEN connected' = FALSE /\ ScheduleReconnect
       ELSE UNCHANGED <<connected, taskVars, ready>>
    /\ UNCHANGED <<phase, running, accept, fatal, keyVars, ws, thread, workerVars,
                   scheduled, timedOut, messages, drops, faults>>

\* The tail of _connect_ws: a new socket replaces the old one, which is not closed.
ConnectWs ==
    /\ connected' = FALSE
    /\ EnsureWorker
    /\ socket' = Append(socket, "connecting")
    /\ ws' = Len(socket) + 1
    /\ thread' = Append(thread, Idle)

\* A state of the sockets after ws.close() of the current one.
Closed == IF ws # 0 /\ socket[ws] \in {"connecting", "open"}
          THEN [socket EXCEPT ![ws] = "closing"] ELSE socket

\* _keepalive_loop: the exchange refuses to prolong the key.
KeepaliveFails ==
    /\ running /\ key # 0 /\ phase \in {"connecting", "up"} /\ Fault
    /\ connected' = FALSE
    /\ socket' = Closed
    /\ ScheduleReconnect
    /\ UNCHANGED <<phase, running, accept, fatal, keyVars, ws, thread, workerVars,
                   scheduled, timedOut, messages, drops>>

-----------------------------------------------------------------------------
(* Reconnecting *)

At(t, pc) == tasks' = [tasks EXCEPT ![t] = pc]

\* on_disconnect returns, or raises, which is fatal but does not end the task.
Notified(t) ==
    /\ tasks[t] = "notify"
    /\ \/ UNCHANGED <<fatal, faults>>
       \/ Fault /\ RecordFatal("disconnect")
    /\ At(t, IF running THEN "sleep" ELSE "done")
    /\ UNCHANGED <<phase, running, accept, connected, keyVars, socketVars, ready,
                   workerVars, attempts, current, doubled, scheduled, timedOut, messages,
                   drops>>

\* The delay, at least a second: what was posted to the loop has run by then.
Slept(t) ==
    /\ tasks[t] = "sleep" /\ ready = <<>>
    /\ attempts' = [attempts EXCEPT ![t] = @ + 1]
    /\ At(t, IF key = 0 THEN "create" ELSE "close")
    /\ UNCHANGED <<stream, keyVars, socketVars, ready, workerVars, current, doubled,
                   scheduled, timedOut, messages, drops, faults>>

\* close_listen_key of the stale key; a failure is only logged.
StaleKeyClosed(t) ==
    /\ tasks[t] = "close"
    /\ \/ keys' = keys \ {key} /\ UNCHANGED <<leaked, faults>>
       \/ Fault /\ leaked' = leaked \cup {key} /\ UNCHANGED keys
    /\ At(t, "create")
    /\ UNCHANGED <<stream, key, socketVars, ready, workerVars, attempts, current, doubled,
                   scheduled, timedOut, messages, drops>>

\* The attempt fails: the current socket is closed, and the next attempt comes
\* unless they are used up or the stream has been stopped.
AttemptFails(t) ==
    /\ ws' = 0 /\ socket' = Closed /\ connected' = FALSE
    /\ IF attempts[t] >= MaxAttempts
       THEN RecordFatal("reconnect") /\ At(t, "done")
       ELSE UNCHANGED fatal /\ At(t, IF running THEN "sleep" ELSE "done")

\* A key comes with a socket of its own.
NewKey == Len(socket) + 1

\* create_listen_key, and the connection with the new key.
KeyCreated(t) ==
    /\ tasks[t] = "create"
    /\ \/ /\ key' = NewKey /\ keys' = keys \cup {NewKey}
          /\ ConnectWs /\ At(t, "wait")
          /\ UNCHANGED <<fatal, faults>>
       \/ /\ Fault /\ AttemptFails(t)
          /\ UNCHANGED <<key, keys, thread, worker, alive>>
    /\ UNCHANGED <<phase, running, accept, leaked, ready, queue, inFlight, handled, failed,
                   attempts, current, doubled, scheduled, timedOut, messages, drops>>

\* _wait_until_connected raises: the socket closed before it opened, or time is up.
NotConnected(t) ==
    /\ tasks[t] = "wait"
    /\ \/ Lost /\ UNCHANGED faults
       \/ Fault
    /\ AttemptFails(t)
    /\ UNCHANGED <<phase, running, accept, keyVars, thread, ready, workerVars, attempts,
                   current, doubled, scheduled, timedOut, messages, drops>>

\* on_reconnect, the reconciliation, returns or raises.
Reconciled(t) ==
    /\ tasks[t] = "callback"
    /\ \/ At(t, "done") /\ UNCHANGED <<fatal, connected, ws, socket, faults>>
       \/ Fault /\ AttemptFails(t)
    /\ UNCHANGED <<phase, running, accept, keyVars, thread, ready, workerVars, attempts,
                   current, doubled, scheduled, timedOut, messages, drops>>

-----------------------------------------------------------------------------
(* The loop runs what was posted *)

\* _mark_connected wakes whoever waits for the connection.
MarkConnected ==
    /\ connected' = TRUE
    /\ tasks' = [t \in DOMAIN tasks |-> IF tasks[t] = "wait" THEN "callback" ELSE tasks[t]]
    /\ phase' = IF phase = "connecting" THEN "up" ELSE phase

RunReady ==
    /\ ready # <<>>
    /\ ready' = Tail(ready)
    /\ LET call == Head(ready) IN
       \/ /\ call[1] = "enqueue" /\ Enqueue(call[2])
          /\ UNCHANGED <<phase, connected, fatal, tasks>>
       \/ /\ call[1] = "up" /\ MarkConnected
          /\ UNCHANGED <<fatal, queue, worker, alive>>
       \/ /\ call[1] = "down" /\ connected' = FALSE
          /\ UNCHANGED <<phase, fatal, tasks, queue, worker, alive>>
       \/ /\ call[1] = "worker done" /\ WorkerDone(call[2])
          /\ UNCHANGED <<phase, connected, tasks, worker, alive>>
       \/ /\ call[1] = "reconnect"
          /\ IF tasks[call[2]] = "posted" THEN At(call[2], "notify") ELSE UNCHANGED tasks
          /\ UNCHANGED <<phase, connected, fatal, queue, worker, alive>>
    /\ UNCHANGED <<running, accept, keyVars, socketVars, inFlight, handled, failed,
                   attempts, current, doubled, scheduled, timedOut, messages, drops, faults>>

-----------------------------------------------------------------------------
(* start() and stop() *)

Start ==
    /\ phase = "off"
    /\ phase' = "creating" /\ running' = TRUE
    /\ UNCHANGED <<accept, connected, fatal, keyVars, socketVars, ready, workerVars,
                   taskVars, scheduled, timedOut, messages, drops, faults>>

\* The first key and the first socket; when that fails start() runs stop().
Started ==
    /\ phase = "creating"
    /\ \/ /\ key' = NewKey /\ keys' = keys \cup {NewKey} /\ ConnectWs
          /\ phase' = "connecting" /\ UNCHANGED faults
       \/ /\ Fault /\ phase' = "stop"
          /\ UNCHANGED <<connected, key, keys, socketVars, worker, alive>>
    /\ UNCHANGED <<running, accept, fatal, leaked, ready, queue, inFlight, handled, failed,
                   taskVars, scheduled, timedOut, messages, drops>>

\* stop() is called, or the first connection did not come about.
CallStop ==
    /\ \/ phase = "up" /\ UNCHANGED faults
       \/ phase = "connecting" /\ Lost /\ UNCHANGED faults
       \/ phase = "connecting" /\ Fault
    /\ phase' = "stop"
    /\ UNCHANGED <<running, accept, connected, fatal, keyVars, socketVars, ready,
                   workerVars, taskVars, scheduled, timedOut, messages, drops>>

\* From here nothing is scheduled any more; the reconnect task is cancelled.
StopBegins ==
    /\ phase = "stop"
    /\ phase' = "closing" /\ running' = FALSE /\ connected' = FALSE
    /\ IF Pending(current) THEN At(current, "done") ELSE UNCHANGED tasks
    /\ current' = 0
    /\ UNCHANGED <<accept, fatal, keyVars, socketVars, ready, workerVars, attempts,
                   doubled, scheduled, timedOut, messages, drops, faults>>

\* _close_ws_connection, and the keepalive task is cancelled.
StopCloses ==
    /\ phase = "closing"
    /\ phase' = "posted" /\ ws' = 0 /\ socket' = Closed
    /\ UNCHANGED <<running, accept, connected, fatal, keyVars, thread, ready, workerVars,
                   taskVars, scheduled, timedOut, messages, drops, faults>>

\* Mutant: the loop's turn that lets the posted callbacks in is left out.
StopRefuses_at_once ==
    /\ phase = "posted"
    /\ phase' = "draining" /\ accept' = FALSE
    /\ UNCHANGED <<running, connected, fatal, keyVars, socketVars, ready, workerVars,
                   taskVars, scheduled, timedOut, messages, drops, faults>>

\* _drain_scheduled_callbacks lets the posted callbacks into the queue, then
\* refuses more.
StopRefuses ==
    /\ phase = "posted"
    /\ \A i \in DOMAIN ready : ready[i][1] # "enqueue"
    /\ phase' = "draining" /\ accept' = FALSE
    /\ UNCHANGED <<running, connected, fatal, keyVars, socketVars, ready, workerVars,
                   taskVars, scheduled, timedOut, messages, drops, faults>>

\* The queue has been worked off, or time is up; the worker is cancelled.
StopDrains ==
    /\ phase = "draining"
    /\ \/ queue = <<>> /\ inFlight = Idle /\ UNCHANGED <<timedOut, faults>>
       \/ Fault /\ timedOut' = TRUE
    /\ phase' = "drained"
    /\ queue' = <<>> /\ inFlight' = Idle /\ alive' = FALSE
    /\ UNCHANGED <<running, accept, connected, fatal, keyVars, socketVars, ready, worker,
                   handled, failed, taskVars, scheduled, messages, drops>>

\* close_listen_key; a failure is only logged.
StopEnds ==
    /\ phase = "drained"
    /\ phase' = "stopped" /\ key' = 0
    /\ \/ keys' = keys \ {key} /\ UNCHANGED <<leaked, faults>>
       \/ key # 0 /\ Fault /\ leaked' = leaked \cup {key} /\ UNCHANGED keys
    /\ UNCHANGED <<running, accept, connected, fatal, socketVars, ready, workerVars,
                   taskVars, scheduled, timedOut, messages, drops>>

Next ==
    \/ Start \/ Started \/ CallStop \/ StopBegins \/ StopCloses \/ StopRefuses
    \/ StopDrains \/ StopEnds
    \/ Take \/ Return \/ RunReady \/ OnMessage \/ KeepaliveFails
    \/ \E s \in DOMAIN socket :
          OnMessageEnds(s) \/ OnOpen(s) \/ OnClose(s) \/ OnCloseEnds(s) \/ WsTaskDone(s)
    \/ \E t \in DOMAIN tasks :
          \/ Notified(t) \/ Slept(t) \/ StaleKeyClosed(t) \/ KeyCreated(t)
          \/ NotConnected(t) \/ Reconciled(t)

-----------------------------------------------------------------------------
(* Properties *)

TypeOK ==
    /\ phase \in {"off", "creating", "connecting", "up", "stop", "closing", "posted",
                  "draining", "drained", "stopped"}
    /\ {running, accept, connected, alive, doubled, timedOut} \subseteq BOOLEAN
    /\ fatal \in {"none", "callback", "message", "disconnect", "reconnect"}
    /\ ws \in 0..Len(socket) /\ key \in 0..Len(socket) /\ keys \subseteq 1..Len(socket)
    /\ socket \in Seq({"connecting", "open", "closing", "closed", "ended"})
    /\ thread \in Seq({Idle, Reconnecting} \cup Items)
    /\ {queue, scheduled, handled} \subseteq Seq(Items)
    /\ inFlight \in {Idle} \cup Items /\ failed \subseteq Items
    /\ tasks \in Seq({"posted", "notify", "sleep", "close", "create", "wait", "callback",
                      "done"})
    /\ current \in 0..Len(tasks)

\* The process sees what the socket's thread accepted, in that order, each
\* callback once and none left out in between: whatever fails, the callbacks
\* begun are a prefix of those accepted.
HandledInOrder ==
    /\ Len(handled) <= Len(scheduled)
    /\ handled = SubSeq(scheduled, 1, Len(handled))

\* A stop() that neither timed out nor found the stream failed has handled every
\* callback accepted before it.
StopDrained ==
    phase = "stopped" /\ ~timedOut /\ fatal = "none" => handled = scheduled

\* With one reconnect task at a time the exchange holds the current listen key
\* only, besides those it failed to close, the reconciliation after a reconnect
\* runs over a socket that has opened, and after stop() there is no socket, no
\* key and no task that would take one.
OneConnection ==
    ~doubled =>
        /\ keys \subseteq {key} \cup leaked
        /\ \A t \in DOMAIN tasks :
              tasks[t] = "callback" => ws # 0 /\ socket[ws] # "connecting"
        /\ phase = "stopped" =>
              /\ ws = 0 /\ key = 0
              /\ \A t \in DOMAIN tasks : tasks[t] \in {"posted", "notify", "done"}

\* A callback that raised is recorded as fatal as soon as the loop has been told
\* of the end of its worker ("wait for the first callback that fails; the caller
\* must stop the trading process", wait_fatal).
FailureIsFatal ==
    failed # {} /\ (\A i \in DOMAIN ready : ready[i][1] # "worker done") => fatal # "none"
=============================================================================
