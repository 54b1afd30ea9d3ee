---------------------------- MODULE NotificationSources ----------------------------
(* The bridge from durable trading facts to notification events               *)
(* (notifications/sources.py DomainEventBridge).  Every worker process runs it *)
(* before each delivery batch: it polls order failures, the runtime status row *)
(* of a strategy and the market quality endpoint, remembers the last state of  *)
(* each in notification_source_states, and publishes an event per transition.  *)
(* Two workers overlap while one is replaced, and either may die at any step.  *)
EXTENDS Naturals, FiniteSets, Sequences, SequencesExt

CONSTANTS
    Workers,        \* notification worker processes
    Orders,         \* orders that may be rejected
    MaxChanges,     \* bound: changes of the runtime row and of the market state
    MaxFaults,      \* bound: worker deaths and failed database calls
    MaxHour         \* bound: the last hour; 0 stands for no slot yet

ConstantsOK ==
    /\ Workers # {} /\ IsFiniteSet(Workers) /\ IsFiniteSet(Orders)
    /\ MaxChanges \in Nat /\ MaxFaults \in Nat /\ MaxHour \in Nat \ {0}

Statuses == {"running", "degraded", "fatal", "stopped"}
Keys == {"health", "risk", "market"}
Steps == {"idle", "failures", "alert", "runtime", "health", "risk", "market", "summary"}

VARIABLES
    ledger,     \* orders whose ledger row says REJECTED
    journal,    \* orders with a failure row in execution_event_journal
    runtime,    \* the strategy_runtime_status row; fresh: heartbeat within 45 s
    market,     \* what the quality endpoint would answer now
    hour,       \* the current hour
    recorded,   \* notification_source_states
    notified,   \* idempotency keys of the order failure events published
    alerts,     \* events published per state key, in order
    slot,       \* the recorded slot of the hourly summary
    summaries,  \* slots of the summary events published, in order
    worker,     \* per worker: the step of run_once and what it has read
    changes, faults

env == <<ledger, journal, runtime, market, hour, changes>>
hourly == <<slot, summaries>>
bridge == <<recorded, notified, alerts, slot, summaries, worker, faults>>
vars == <<ledger, journal, runtime, market, hour, recorded, notified, alerts,
          slot, summaries, worker, changes, faults>>

Up == [status |-> "running", halted |-> FALSE, fresh |-> TRUE]
Idle(last) == [step |-> "idle", rows |-> {}, row |-> Up, now |-> 0, last |-> last]

\* What the status row means at the time it is read.
HealthState(r) ==
    CASE r.status \in {"stopped", "fatal"} -> r.status
      [] r.status \in {"running", "degraded"} /\ ~r.fresh -> "unhealthy"
      [] r.status = "degraded" /\ r.fresh -> "degraded"
      [] OTHER -> "healthy"

RiskState(r) == IF r.halted \/ r.status = "fatal" THEN "halted" ELSE "clear"

TypeOK ==
    /\ ledger \subseteq Orders /\ journal \subseteq Orders
    /\ runtime \in [status : Statuses, halted : BOOLEAN, fresh : BOOLEAN]
    /\ market \in {"healthy", "degraded", "unavailable"}
    /\ hour \in 1..MaxHour /\ slot \in 0..MaxHour
    /\ notified \subseteq {"journal", "ledger"} \X Orders
    /\ DOMAIN recorded = Keys /\ DOMAIN alerts = Keys
    /\ recorded["risk"] \in {"none", "clear", "halted"}
    /\ \A w \in Workers :
          /\ worker[w].step \in Steps
          /\ worker[w].rows \subseteq {"journal", "ledger"} \X Orders
          /\ worker[w].now \in 0..MaxHour /\ worker[w].last \in 0..MaxHour
          /\ worker[w].step # "idle" => worker[w].now > 0
    /\ changes \in 0..MaxChanges /\ faults \in 0..MaxFaults

Init ==
    /\ ledger = {} /\ journal = {} /\ notified = {}
    /\ runtime = Up
    /\ market = "healthy" /\ hour = 1
    /\ recorded = [k \in Keys |-> "none"]
    /\ alerts = [k \in Keys |-> <<>>]
    /\ slot = 0 /\ summaries = <<>>
    /\ worker = [w \in Workers |-> Idle(0)]
    /\ changes = 0 /\ faults = 0

---------------------------------------------------------------------------
(* The trading side: what the bridge reads.                                 *)

\* The executor stores a rejected order in the ledger at once.
Reject(o) ==
    /\ o \notin ledger
    /\ ledger' = ledger \cup {o}
    /\ UNCHANGED <<journal, runtime, market, hour, changes, bridge>>

\* The journal row of the same failure is mirrored asynchronously, also for an
\* order the ledger never sees rejected.
Mirror(o) ==
    /\ o \notin journal
    /\ journal' = journal \cup {o}
    /\ UNCHANGED <<ledger, runtime, market, hour, changes, bridge>>

\* _publish_runtime_status writes a new row; a silent process lets it go stale.
RuntimeChanges ==
    /\ changes < MaxChanges
    /\ \E r \in [status : Statuses, halted : BOOLEAN, fresh : BOOLEAN] :
          /\ r # runtime /\ (~r.fresh => r = [runtime EXCEPT !.fresh = FALSE])
          /\ runtime' = r
    /\ changes' = changes + 1
    /\ UNCHANGED <<ledger, journal, market, hour, bridge>>

MarketChanges ==
    /\ changes < MaxChanges
    /\ market' \in {"healthy", "degraded", "unavailable"} \ {market}
    /\ changes' = changes + 1
    /\ UNCHANGED <<ledger, journal, runtime, hour, bridge>>

HourPasses ==
    /\ hour < MaxHour
    /\ hour' = hour + 1
    /\ UNCHANGED <<ledger, journal, runtime, market, changes, bridge>>

---------------------------------------------------------------------------
(* run_once.                                                                *)

Goto(w, s) == worker' = [worker EXCEPT ![w].step = s]

Begin(w) ==
    /\ worker[w].step = "idle"
    /\ worker' = [worker EXCEPT ![w].step = "failures", ![w].now = hour]
    /\ UNCHANGED <<env, hourly, recorded, notified, alerts, faults>>

\* unpublished_order_failures: journal rows without an event, then rejected
\* ledger orders with neither a journal row nor an event.
ReadFailures_ledger(w) ==
    /\ worker[w].step = "failures"
    /\ worker' = [worker EXCEPT ![w].step = "alert",
                  ![w].rows = {<<"ledger", o>> : o \in {p \in ledger \ journal : <<"ledger", p>> \notin notified}}]
    /\ UNCHANGED <<env, hourly, recorded, notified, alerts, faults>>

ReadFailures(w) ==
    /\ worker[w].step = "failures"
    /\ worker' = [worker EXCEPT ![w].step = "alert",
          ![w].rows = {<<"journal", o>> : o \in {p \in journal : <<"journal", p>> \notin notified}}
                      \cup {<<"ledger", o>> : o \in {p \in ledger \ journal : <<"ledger", p>> \notin notified}}]
    /\ UNCHANGED <<env, hourly, recorded, notified, alerts, faults>>

\* Each row becomes an event; its key makes a second insert a no-op.
PublishFailure(w) ==
    /\ worker[w].step = "alert"
    /\ IF worker[w].rows = {}
          THEN Goto(w, "runtime") /\ UNCHANGED notified
          ELSE \E k \in worker[w].rows :
                  /\ notified' = notified \cup {k}
                  /\ worker' = [worker EXCEPT ![w].rows = @ \ {k}]
    /\ UNCHANGED <<env, hourly, recorded, alerts, faults>>

\* The batch stops at a failed insert; the next poll reads what is left.
PublishFails(w) ==
    /\ worker[w].step \in {"failures", "alert"}
    /\ faults < MaxFaults
    /\ faults' = faults + 1
    /\ worker' = [worker EXCEPT ![w].step = "runtime", ![w].rows = {}]
    /\ UNCHANGED <<env, hourly, recorded, notified, alerts>>

ReadRuntime(w) ==
    /\ worker[w].step = "runtime"
    /\ worker' = [worker EXCEPT ![w].step = "health", ![w].row = runtime]
    /\ UNCHANGED <<env, hourly, recorded, notified, alerts, faults>>

Observe(key, state, event, from) ==
    IF recorded[key] = state
    THEN UNCHANGED <<recorded, alerts>>
    ELSE /\ recorded' = [recorded EXCEPT ![key] = state]
         /\ alerts' = IF event # "none" /\ recorded[key] \in from
                         THEN [alerts EXCEPT ![key] = Append(@, event)] ELSE alerts

AnyState == {"none", "healthy", "degraded", "unhealthy", "unavailable", "fatal",
             "stopped", "clear", "halted"}

ObserveHealth(w) ==
    /\ worker[w].step = "health"
    /\ LET s == HealthState(worker[w].row) IN
          CASE s \in {"unhealthy", "degraded"} -> Observe("health", s, s, AnyState)
            [] s = "healthy" -> Observe("health", s, "recovered", {"degraded", "unhealthy"})
            [] OTHER -> Observe("health", s, "none", AnyState)
    /\ Goto(w, "risk")
    /\ UNCHANGED <<env, hourly, notified, faults>>

ObserveRisk(w) ==
    /\ worker[w].step = "risk"
    /\ LET s == RiskState(worker[w].row) IN
          IF s = "halted" THEN Observe("risk", s, "halted", AnyState)
                          ELSE Observe("risk", s, "resumed", {"halted"})
    /\ worker' = [worker EXCEPT ![w].step = "market", ![w].row = Up]
    /\ UNCHANGED <<env, hourly, notified, faults>>

\* A poll of the quality endpoint is due every 30 s only.
ObserveMarket(w) ==
    /\ worker[w].step = "market"
    /\ \/ UNCHANGED <<recorded, alerts>>
       \/ IF market = "healthy"
             THEN Observe("market", market, "recovered", {"degraded", "unavailable"})
             ELSE Observe("market", market, market, AnyState)
    /\ Goto(w, "summary")
    /\ UNCHANGED <<env, hourly, notified, faults>>

Summary(w) ==
    /\ worker[w].step = "summary"
    /\ LET now == worker[w].now
           conflict == slot # now /\ Contains(summaries, now)
       IN IF now = worker[w].last \/ conflict
          THEN worker' = [worker EXCEPT ![w] = Idle(worker[w].last)] /\ UNCHANGED hourly
          ELSE /\ slot' = now
               /\ summaries' = IF slot = now THEN summaries ELSE Append(summaries, now)
               /\ worker' = [worker EXCEPT ![w] = Idle(now)]
    /\ UNCHANGED <<env, recorded, notified, alerts, faults>>

\* A failed observation ends run_once; a death also loses the process's memory.
Abort(w) ==
    /\ worker[w].step # "idle" /\ faults < MaxFaults
    /\ faults' = faults + 1
    /\ \E last \in {worker[w].last, 0} : worker' = [worker EXCEPT ![w] = Idle(last)]
    /\ UNCHANGED <<env, hourly, recorded, notified, alerts>>

RunOnce(w) ==
    \/ Begin(w) \/ ReadFailures(w) \/ PublishFailure(w)
    \/ ReadRuntime(w) \/ ObserveHealth(w) \/ ObserveRisk(w) \/ ObserveMarket(w) \/ Summary(w)

Next ==
    \/ \E o \in Orders : Reject(o) \/ Mirror(o)
    \/ RuntimeChanges \/ MarketChanges \/ HourPasses
    \/ \E w \in Workers : RunOnce(w) \/ PublishFails(w) \/ Abort(w)

Spec == Init /\ [][Next]_vars

\* The worker loop calls run_once again and again.
Fairness == \A w \in Workers : WF_vars(RunOnce(w))

---------------------------------------------------------------------------
Latest(key) == IF alerts[key] = <<>> THEN "none" ELSE Last(alerts[key])

(* The last alert of a state is the recorded state: the state and its event    *)
(* are stored in one transaction, so no death between them loses an alert that *)
(* the next poll would then consider sent.                                     *)
AlertMatchesRecord ==
    /\ recorded["risk"] = "halted" <=> Latest("risk") = "halted"
    /\ recorded["health"] \in {"degraded", "unhealthy"} => Latest("health") = recorded["health"]
    /\ recorded["health"] = "healthy" => Latest("health") \in {"none", "recovered", "degraded", "unhealthy"}
    /\ recorded["market"] \in {"degraded", "unavailable"} <=> Latest("market") \in {"degraded", "unavailable"}

(* Two workers polling the same row publish a transition once: no event is     *)
(* followed by the same event, and nothing resumes or recovers that was not    *)
(* reported halted or bad before.                                              *)
AlertsAlternate ==
    /\ \A k \in {"risk", "market"} : \A i \in 1..(Len(alerts[k]) - 1) : alerts[k][i] # alerts[k][i + 1]
    /\ \A i \in DOMAIN alerts["risk"] : alerts["risk"][i] = (IF i % 2 = 1 THEN "halted" ELSE "resumed")
    /\ \A k \in {"health", "market"} : \A i \in DOMAIN alerts[k] :
          alerts[k][i] = "recovered" => i > 1 /\ alerts[k][i - 1] # "recovered"

(* A full hour has one summary event, whichever workers reach it.              *)
OneSummaryPerHour == IsInjective(summaries)

(* A strategy that stays halted is reported: its last risk event says so.      *)
HaltIsReported ==
    (<>[](RiskState(runtime) = "halted")) => <>[](Latest("risk") = "halted")

(* Every failed order is alerted, though the batch may fail half way.          *)
EveryFailureAlerted ==
    \A o \in Orders : o \in ledger \cup journal ~> \E s \in {"journal", "ledger"} : <<s, o>> \in notified

=============================================================================
