--------------------------- MODULE Subscriptions ---------------------------
(***************************************************************************)
(* How strategies subscribe to the market service and learn of its         *)
(* restarts.  The service counts who wants which stream                    *)
(* (SubscriptionManager), reconnects its WebSocket under a lock whenever   *)
(* that changes (refresh_ws_streams) and reconnects in the background      *)
(* after a failure.  A strategy (KlineStrategyBase, TickStrategyBase)      *)
(* waits for the service, registers, and then compares the service's       *)
(* instance_epoch with the last one it knows, to register again.           *)
(*                                                                         *)
(* A stream is the pair of symbol and type that needs it; what a stream    *)
(* carries is MarketFeed's business.  An HTTP request is one step at the   *)
(* service, save PUT and DELETE, whose handlers wait for the refresh.      *)
(***************************************************************************)
EXTENDS Naturals, FiniteSets

CONSTANTS
    Consumers, Streams,
    Wants,              \* the streams each strategy is configured with
    MaxTries,           \* of _wait_for_market_layer
    MaxRestarts, MaxFaults, MaxStops

VARIABLES
    epoch,              \* instance_epoch of the service
    up,                 \* the service's process runs
    subs, counts,       \* SubscriptionManager: consumers, refcounts
    current,            \* the streams of the running WebSocket task; {}: no task
    status,             \* of each expected stream
    waiting,            \* handlers that wait for the refresh lock
    holder,             \* who refreshes, and the streams it is connecting
    recovery,           \* the background recovery task
    client,             \* the strategies
    faults, stops

vars == <<epoch, up, subs, counts, current, status, waiting, holder, recovery,
          client, faults, stops>>

ConstantsOK == Wants \in [Consumers -> SUBSET Streams \ {{}}]

Recovery == "recovery"
Nobody   == [who |-> "nobody", needed |-> {}]

Off == [pc |-> "off", known |-> 0, seen |-> 0, ready |-> FALSE, tries |-> 0]

\* The health check loop of a started strategy is in one of these.
Loop == {"run", "quality again", "put again", "putting again"}

Init ==
    /\ epoch = 1
    /\ up = TRUE
    /\ subs = [c \in Consumers |-> {}]
    /\ counts = [s \in Streams |-> 0]
    /\ current = {}
    /\ status = [s \in {} |-> "awaiting"]
    /\ waiting = {}
    /\ holder = Nobody
    /\ recovery = "off"
    /\ client = [c \in Consumers |-> Off]
    /\ faults = 0
    /\ stops = 0

-----------------------------------------------------------------------------
(* SubscriptionManager *)

\* get_active_streams: refcounts keeps no entry at 0.
Needed == {s \in Streams : counts[s] > 0}

\* _increment_refcount and _decrement_refcount over the difference.
Counted(old, new) ==
    [s \in Streams |-> IF s \in new \ old THEN counts[s] + 1
                       ELSE IF s \in old \ new THEN counts[s] - 1 ELSE counts[s]]

UpdateSubscription(c, wanted) ==
    /\ subs' = [subs EXCEPT ![c] = wanted]
    /\ counts' = Counted(subs[c], wanted)
    /\ waiting' = waiting \cup {c}

-----------------------------------------------------------------------------
(* What the service says of itself, to a caller that names no consumer *)

StreamsReady == \A s \in DOMAIN status : status[s] = "healthy"

WebsocketRequired == current # {} \/ Needed # {}

\* GET /health answers 200, not 503.
Healthy == up /\ (WebsocketRequired => current # {}) /\ StreamsReady

\* GET /quality says ready.
QualityReady == up /\ (WebsocketRequired => current # {} /\ StreamsReady)

-----------------------------------------------------------------------------
(* The WebSocket of the service *)

\* What becomes of a handler when its refresh is over: PUT and DELETE answer.
Answered(w, ok) ==
    IF w = Recovery THEN client
    ELSE [client EXCEPT ![w] =
      CASE @.pc = "putting" -> IF ok THEN [@ EXCEPT !.pc = "run", !.ready = FALSE]
                               ELSE [Off EXCEPT !.pc = "dead"]
        [] @.pc = "putting again" ->
             [@ EXCEPT !.pc = "run", !.ready = FALSE, !.known = IF ok THEN client[w].seen ELSE @]
        [] @.pc = "deleting" -> Off
        [] OTHER -> @]

\* _schedule_ws_recovery.
Scheduled == IF Needed # {} /\ recovery = "off" THEN "sleep" ELSE recovery

\* The recovery loop after a refresh: it ends once a task runs, or nobody wants
\* a stream; otherwise it sleeps again.
Recovered(w, connected) ==
    IF w # Recovery THEN recovery
    ELSE IF connected \/ Needed = {} THEN "off" ELSE "sleep"

Expected(S) == [s \in S |-> IF s \in DOMAIN status THEN status[s] ELSE "awaiting"]

\* refresh_ws_streams, with the lock: nothing to do if the task already has
\* the streams needed now; else the task and the connection are closed, the
\* expected streams set, and the new connection opened, if any.
Refresh(w) ==
    /\ up /\ holder = Nobody /\ w \in waiting
    /\ waiting' = waiting \ {w}
    /\ \/ /\ Needed = current /\ current # {}
          /\ client' = Answered(w, TRUE)
          /\ recovery' = Recovered(w, TRUE)
          /\ UNCHANGED <<current, status, holder>>
       \/ /\ Needed # current \/ current = {}
          /\ current' = {}
          /\ status' = Expected(Needed)
          /\ IF Needed = {}
             THEN /\ client' = Answered(w, TRUE) /\ recovery' = Recovered(w, FALSE)
                  /\ UNCHANGED holder
             ELSE /\ holder' = [who |-> w, needed |-> Needed]
                  /\ UNCHANGED <<client, recovery>>
    /\ UNCHANGED <<epoch, up, subs, counts, faults, stops>>

\* The connection is open: begin_connection, and the new message task.
Connect ==
    /\ holder # Nobody
    /\ current' = holder.needed
    /\ status' = [s \in holder.needed |-> "awaiting"]
    /\ client' = Answered(holder.who, TRUE)
    /\ recovery' = Recovered(holder.who, TRUE)
    /\ holder' = Nobody
    /\ UNCHANGED <<epoch, up, subs, counts, waiting, faults, stops>>

\* It fails: the recovery is scheduled, and the handler raises.
ConnectFails ==
    /\ holder # Nobody
    /\ faults < MaxFaults
    /\ faults' = faults + 1
    /\ client' = Answered(holder.who, FALSE)
    /\ recovery' = IF holder.who = Recovery THEN Recovered(Recovery, FALSE) ELSE Scheduled
    /\ holder' = Nobody
    /\ UNCHANGED <<epoch, up, subs, counts, current, status, waiting, stops>>

\* The message task ends by itself: _on_ws_task_done.
TaskEnds ==
    /\ current # {}
    /\ faults < MaxFaults
    /\ faults' = faults + 1
    /\ current' = {}
    /\ recovery' = Scheduled
    /\ UNCHANGED <<epoch, up, subs, counts, status, waiting, holder, client, stops>>

\* _recover_ws_loop wakes up.
Recover ==
    /\ recovery = "sleep"
    /\ recovery' = "refresh"
    /\ waiting' = waiting \cup {Recovery}
    /\ UNCHANGED <<epoch, up, subs, counts, current, status, holder, client, faults, stops>>

\* A message of a stream.
Message(s) ==
    /\ s \in current
    /\ status[s] # "healthy"
    /\ status' = [status EXCEPT ![s] = "healthy"]
    /\ UNCHANGED <<epoch, up, subs, counts, current, waiting, holder, recovery, client,
                   faults, stops>>

\* The service's process ends and takes its memory with it; requests in
\* progress fail.
Crash ==
    /\ up
    /\ epoch <= MaxRestarts
    /\ up' = FALSE
    /\ subs' = [c \in Consumers |-> {}]
    /\ counts' = [s \in Streams |-> 0]
    /\ current' = {}
    /\ status' = [s \in {} |-> "awaiting"]
    /\ waiting' = {}
    /\ holder' = Nobody
    /\ recovery' = "off"
    /\ client' = [c \in Consumers |->
         CASE client[c].pc = "putting" -> [Off EXCEPT !.pc = "dead"]
           [] client[c].pc = "putting again" ->
                [client[c] EXCEPT !.pc = "run", !.ready = FALSE]
           [] client[c].pc = "deleting" -> Off
           [] OTHER -> client[c]]
    /\ UNCHANGED <<epoch, faults, stops>>

Boot ==
    /\ ~ up
    /\ up' = TRUE
    /\ epoch' = epoch + 1
    /\ UNCHANGED <<subs, counts, current, status, waiting, holder, recovery, client,
                   faults, stops>>

-----------------------------------------------------------------------------
(* A strategy *)

Only(c, new) ==
    /\ client' = [client EXCEPT ![c] = new]
    /\ UNCHANGED <<epoch, up, subs, counts, current, status, waiting, holder, recovery,
                   faults, stops>>

Start(c) == client[c].pc = "off" /\ Only(c, [Off EXCEPT !.pc = "health"])

\* One more try of _wait_for_market_layer, or RuntimeError.
Retry(me) ==
    IF me.tries + 1 = MaxTries THEN [Off EXCEPT !.pc = "dead"]
    ELSE [me EXCEPT !.pc = "health", !.tries = @ + 1, !.ready = FALSE]

WaitHealth(c) ==
    LET me == client[c] IN
    /\ me.pc = "health"
    /\ Only(c, IF Healthy THEN [me EXCEPT !.pc = "quality", !.known = epoch] ELSE Retry(me))

WaitQuality(c) ==
    LET me == client[c] IN
    /\ me.pc = "quality"
    /\ Only(c, IF QualityReady THEN [me EXCEPT !.pc = "put", !.ready = TRUE] ELSE Retry(me))

\* PUT: the handler runs up to the refresh lock.
Declared(c) ==
    /\ up
    /\ UpdateSubscription(c, Wants[c])
    /\ client' = [client EXCEPT ![c].pc = IF @ = "put" THEN "putting" ELSE "putting again"]
    /\ UNCHANGED faults

\* The request fails without a service, or when it does not reach it.
NotDeclared(c) ==
    /\ up => faults < MaxFaults
    /\ faults' = IF up THEN faults + 1 ELSE faults
    /\ client' = [client EXCEPT ![c] =
         IF client[c].pc = "put" THEN [Off EXCEPT !.pc = "dead"]
         ELSE [client[c] EXCEPT !.pc = "run", !.ready = FALSE]]
    /\ UNCHANGED <<subs, counts, waiting>>

Register(c) ==
    /\ client[c].pc \in {"put", "put again"}
    /\ Declared(c) \/ NotDeclared(c)
    /\ UNCHANGED <<epoch, up, current, status, holder, recovery, stops>>

\* _health_check_loop: GET /health ...
CheckHealth(c) ==
    LET me == client[c] IN
    /\ me.pc = "run"
    /\ Only(c, IF Healthy THEN [me EXCEPT !.pc = "quality again", !.seen = epoch]
               ELSE [me EXCEPT !.ready = FALSE])

\* ... then GET /quality, and the registration if the epoch is a new one.
Checked(me) ==
    [me EXCEPT !.pc = IF me.known # me.seen THEN "put again" ELSE "run",
               !.ready = QualityReady]

CheckQuality(c) ==
    LET me == client[c] IN
    /\ me.pc = "quality again"
    /\ Only(c, IF up THEN Checked(me) ELSE [me EXCEPT !.pc = "run", !.ready = FALSE])

\* DELETE, whose failure is only logged.
Unregister(c) ==
    IF up
    THEN /\ UpdateSubscription(c, {})
         /\ client' = [client EXCEPT ![c] = [Off EXCEPT !.pc = "deleting"]]
    ELSE /\ client' = [client EXCEPT ![c] = Off]
         /\ UNCHANGED <<subs, counts, waiting>>

\* stop cancels the health check, wherever it waits.
Stop(c) ==
    /\ client[c].pc \in Loop \ {"putting again"}
    /\ stops < MaxStops
    /\ stops' = stops + 1
    /\ Unregister(c)
    /\ UNCHANGED <<epoch, up, current, status, holder, recovery, faults>>

\* The process of a strategy is killed, and says nothing to the service.
Kill(c) ==
    /\ client[c].pc \in Loop \ {"putting again"}
    /\ stops < MaxStops
    /\ stops' = stops + 1
    /\ client' = [client EXCEPT ![c] = Off]
    /\ UNCHANGED <<epoch, up, subs, counts, current, status, waiting, holder, recovery, faults>>

Step(c) ==
    \/ Start(c) \/ WaitHealth(c) \/ WaitQuality(c) \/ Register(c)
    \/ CheckHealth(c) \/ CheckQuality(c)

Service == (\E w \in waiting : Refresh(w)) \/ Connect \/ Recover \/ Boot

Next ==
    \/ Service
    \/ ConnectFails \/ TaskEnds \/ Crash
    \/ \E s \in Streams : Message(s)
    \/ \E c \in Consumers : Step(c) \/ Stop(c) \/ Kill(c)

Spec == Init /\ [][Next]_vars

\* Handlers and tasks of the service run on, streams carry messages, and a
\* strategy keeps checking.  Nobody has to start a strategy.
Fairness ==
    /\ \A w \in Consumers \cup {Recovery} : WF_vars(w \in waiting /\ Refresh(w))
    /\ WF_vars(Connect) /\ WF_vars(Recover) /\ WF_vars(Boot)
    /\ \A s \in Streams : WF_vars(Message(s))
    /\ \A c \in Consumers :
        /\ WF_vars(WaitHealth(c)) /\ WF_vars(WaitQuality(c)) /\ WF_vars(Register(c))
        /\ WF_vars(CheckHealth(c)) /\ WF_vars(CheckQuality(c))

-----------------------------------------------------------------------------
(* Properties *)

TypeOK ==
    /\ subs \in [Consumers -> SUBSET Streams]
    /\ counts \in [Streams -> 0 .. Cardinality(Consumers)]
    /\ current \subseteq Streams
    /\ DOMAIN status \subseteq Streams
    /\ waiting \subseteq Consumers \cup {Recovery}
    /\ recovery \in {"off", "sleep", "refresh"}

\* The reference counts are what the consumers want, and once no refresh is
\* outstanding the WebSocket carries exactly the streams somebody wants: no
\* order of registrations, removals, failed connections and ended tasks
\* leaves it with others.
StreamsFollow ==
    /\ \A s \in Streams : counts[s] = Cardinality({c \in Consumers : s \in subs[c]})
    /\ waiting = {} /\ holder = Nobody /\ recovery = "off" => current = Needed

\* What the service says of its streams is about those the task carries.
StatusIsCurrent == current # {} => DOMAIN status = current

\* A strategy that trusts the market data, and whose last known epoch is the
\* service's, is subscribed there to all it wants: a restart between any two of
\* its requests is noticed before it trusts the new instance.
TrustIsRegistered ==
    \A c \in Consumers :
        client[c].pc = "run" /\ client[c].ready /\ client[c].known = epoch /\ up
            => subs[c] = Wants[c]

SubscriptionsHold == StreamsFollow /\ StatusIsCurrent /\ TrustIsRegistered

\* Once restarts and failures end, every strategy that keeps running is
\* subscribed in the running instance and trusts its data.
EventuallyTrusted ==
    \A c \in Consumers :
        <>[](client[c].pc \in Loop => client[c].ready /\ subs[c] = Wants[c])
=============================================================================
