----------------------------- MODULE RestClient -----------------------------
(***************************************************************************)
(* The REST client of the exchange (shared/binance/rest_client.py) and its *)
(* rate limiter (rate_limiter.py).  Tasks of one process call endpoints at *)
(* the same time; a call waits for the limiter, which it holds while it    *)
(* sleeps, reports its start to the observer, sends the request, and       *)
(* reports how it ended.  The clock shows even numbers and the interval is *)
(* odd, so that no reading of it falls on the very expiry of an entry (at  *)
(* that instant the limiter neither drops the entry nor waits for it).     *)
(***************************************************************************)
EXTENDS Naturals, Sequences, FiniteSets

CONSTANTS
    Callers,        \* tasks, each of which makes one call
    Endpoints,      \* the endpoints they call
    Limit, Interval,    \* the rule of the limiter
    MaxTime,        \* bounds time
    MaxFaults       \* refusals, lost or garbled answers, failing observers, cancellations

VARIABLES
    now,
    window,         \* times of the recorded weights, oldest first
    lock,           \* the caller that holds the limiter, or "free"
    call,           \* per caller: endpoint, pc, wake (end of its sleep), result
    executed,       \* callers whose request the exchange has carried out
    started,        \* callers whose start the observer has seen
    ended,          \* per caller the terminal stages given to the observer
    faults

vars == <<now, window, lock, call, executed, started, ended, faults>>

OrderEndpoints == {"post_order", "test_order", "cancel_order", "query_order",
                   "get_open_orders"}
AccountEndpoints == {"get_account", "get_position_mode", "get_position_risk",
                     "get_account_trades", "get_income_history"}
MarketEndpoints == {"get_agg_trades", "get_klines"}
MetricsEndpoints == {"get_exchange_info", "get_open_interest_history",
                     "get_global_long_short_account_ratio"}
KeyEndpoints == {"create_listen_key", "keepalive_listen_key", "close_listen_key"}

\* Endpoints that check their arguments before the request, ...
Checked == {"cancel_order", "query_order", "get_account_trades", "get_income_history",
            "get_open_interest_history", "get_global_long_short_account_ratio",
            "get_agg_trades", "get_klines"}
\* ... and endpoints that check the shape of the answer after it.
Shaped == {"test_order", "get_account_trades", "get_income_history",
           "get_open_interest_history", "get_global_long_short_account_ratio",
           "get_agg_trades", "get_klines"}

\* get_endpoint_weight.
Weight(e) ==
    CASE e = "query_order" -> 2
      [] e \in {"get_account", "get_position_risk"} -> 5
      [] e = "get_open_orders" -> 40
      [] e = "get_income_history" -> 30
      [] OTHER -> 1

ConstantsOK ==
    /\ Endpoints \subseteq OrderEndpoints \cup AccountEndpoints \cup MarketEndpoints
                          \cup MetricsEndpoints \cup KeyEndpoints
    /\ Limit \in Nat \ {0} /\ {Interval, MaxTime, MaxFaults} \subseteq Nat
    /\ Interval % 2 = 1

None == "none"
Fault == faults < MaxFaults /\ faults' = faults + 1

Init ==
    /\ now = 0 /\ window = <<>> /\ lock = "free" /\ faults = 0
    /\ call = [c \in Callers |-> [endpoint |-> None, pc |-> "idle", wake |-> 0, result |-> None]]
    /\ executed = {} /\ started = {} /\ ended = [c \in Callers |-> <<>>]

At(c, pc) == call' = [call EXCEPT ![c].pc = pc]
Over(c, result) == call' = [call EXCEPT ![c].pc = "over", ![c].result = result]

\* An endpoint is called; arguments it refuses end the call before the limiter.
Call(c) ==
    /\ call[c].pc = "idle"
    /\ \E e \in Endpoints :
         \/ /\ call' = [call EXCEPT ![c].endpoint = e, ![c].pc = "acquire"]
            /\ UNCHANGED faults
         \/ /\ e \in Checked /\ Fault
            /\ call' = [call EXCEPT ![c].endpoint = e, ![c].pc = "over", ![c].result = "refused"]
    /\ UNCHANGED <<now, window, lock, executed, started, ended>>

-----------------------------------------------------------------------------
(* The limiter *)

\* The entries acquire() keeps: those not older than the interval.
Kept == SelectSeq(window, LAMBDA t : t + Interval >= now)

Recorded(w, weight) == w \o [i \in 1..weight |-> now]

\* acquire() has the lock: with room the weight is recorded at once, otherwise
\* the caller sleeps until the oldest entry expires, and keeps the lock.
Acquire(c) ==
    /\ call[c].pc = "acquire" /\ lock = "free"
    /\ LET weight == Weight(call[c].endpoint) IN
       IF Len(Kept) + weight > Limit /\ Kept # <<>> /\ Kept[1] + Interval > now
       THEN /\ lock' = c /\ window' = Kept
            /\ call' = [call EXCEPT ![c].pc = "sleep", ![c].wake = Kept[1] + Interval]
       ELSE /\ window' = Recorded(Kept, weight)
            /\ At(c, "start") /\ UNCHANGED lock
    /\ UNCHANGED <<now, executed, started, ended, faults>>

\* It wakes up and records its weight.
Slept(c) ==
    /\ call[c].pc = "sleep" /\ now >= call[c].wake
    /\ window' = Recorded(window, Weight(call[c].endpoint))
    /\ lock' = "free" /\ At(c, "start")
    /\ UNCHANGED <<now, executed, started, ended, faults>>

-----------------------------------------------------------------------------
(* The request *)

\* The observer is told of the start; when it raises nothing is sent.
ObserveStart(c) ==
    /\ call[c].pc = "start"
    /\ \/ started' = started \cup {c} /\ At(c, "send") /\ UNCHANGED faults
       \/ Fault /\ Over(c, "error") /\ UNCHANGED started
    /\ UNCHANGED <<now, window, lock, executed, ended>>

\* The answer of the exchange: it carried the request out and says so, it says
\* something that is not JSON, it refuses with a code (-2013: no such order), or
\* nothing comes back.  What was answered with an error may still have been done.
Answer(c) ==
    /\ call[c].pc = "send"
    /\ \/ executed' = executed \cup {c} /\ At(c, "value") /\ UNCHANGED faults
       \/ /\ Fault
          /\ \E pc \in {"garbled", "api error", "no such order", "timeout", "network error"} :
               /\ pc = "no such order" => call[c].endpoint \in {"query_order", "cancel_order"}
               /\ At(c, pc)
               /\ \/ UNCHANGED executed
                  \/ pc # "no such order" /\ executed' = executed \cup {c}
    /\ UNCHANGED <<now, window, lock, started, ended>>

\* A success is reported; an observer that raises makes the call fail.  The
\* shape of the value is checked last.
Succeed(c) ==
    /\ call[c].pc = "value"
    /\ ended' = [ended EXCEPT ![c] = Append(@, "succeeded")]
    /\ \/ Over(c, "value") /\ UNCHANGED faults
       \/ Fault /\ Over(c, "error")
       \/ call[c].endpoint \in Shaped /\ Fault /\ Over(c, "error")
    /\ UNCHANGED <<now, window, lock, executed, started>>

\* No answer, or one that cannot be read: the failure is reported; an observer
\* that raises adds a note and the error stays what it was.
Fail(c) ==
    /\ call[c].pc \in {"garbled", "timeout", "network error"}
    /\ ended' = [ended EXCEPT ![c] = Append(@, "failed")]
    /\ Over(c, "error")
    /\ UNCHANGED <<now, window, lock, executed, started, faults>>

\* An answer with an error code, reported likewise.  query_order makes None of
\* an order that does not exist.
ApiError(c) ==
    /\ call[c].pc \in {"api error", "no such order"}
    /\ ended' = [ended EXCEPT ![c] = Append(@, "failed")]
    /\ Over(c, IF call[c].pc = "no such order" /\ call[c].endpoint = "query_order"
               THEN "absent" ELSE "error")
    /\ UNCHANGED <<now, window, lock, executed, started, faults>>

\* The task is cancelled at one of its awaits.  The limiter is released; a
\* request under way may or may not be carried out, and is reported as cancelled.
Cancel(c) ==
    /\ call[c].pc \in {"acquire", "sleep", "start", "send"} /\ Fault
    /\ Over(c, "cancelled")
    /\ lock' = IF lock = c THEN "free" ELSE lock
    /\ IF call[c].pc = "send"
       THEN /\ ended' = [ended EXCEPT ![c] = Append(@, "cancelled")]
            /\ executed' \in {executed, executed \cup {c}}
       ELSE UNCHANGED <<ended, executed>>
    /\ UNCHANGED <<now, window, started>>

Tick ==
    /\ now < MaxTime
    /\ now' = now + 2
    /\ UNCHANGED <<window, lock, call, executed, started, ended, faults>>

Next ==
    \/ \E c \in Callers :
         \/ Call(c) \/ Acquire(c) \/ Slept(c) \/ ObserveStart(c) \/ Answer(c)
         \/ Succeed(c) \/ Fail(c) \/ ApiError(c) \/ Cancel(c)
    \/ Tick

-----------------------------------------------------------------------------
(* Properties *)

TypeOK ==
    /\ now \in 0..MaxTime /\ window \in Seq(0..MaxTime)
    /\ lock \in Callers \cup {"free"}
    /\ \A c \in Callers : call[c].endpoint \in Endpoints \cup {None}
    /\ executed \subseteq Callers /\ started \subseteq Callers

\* The limiter lets at most Limit units of weight through within an interval,
\* although several tasks wait for it, sleep in it and are cancelled there.  It
\* does so for requests of weight 1: it waits for the oldest entry only.
WindowBounded ==
    \A i \in DOMAIN window :
        Cardinality({j \in DOMAIN window : window[j] \in window[i]..(window[i] + Interval - 1)}) <= Limit

\* Nothing reaches the exchange whose start the observer (the execution journal)
\* has not recorded; a call that was started and is over has been reported to it
\* exactly once; and a value, or the absence of an order, is only returned for
\* what the exchange did or denied.
RequestsAreTracked ==
    /\ executed \subseteq started
    /\ \A c \in Callers :
         /\ call[c].pc = "over" => Len(ended[c]) = IF c \in started THEN 1 ELSE 0
         /\ call[c].result = "value" => c \in executed /\ ended[c] = <<"succeeded">>
         /\ call[c].result = "absent" => c \notin executed

\* A caller that sleeps in the limiter holds it, so that no other records its
\* weight meanwhile, and a limiter that is held has a sleeper: a cancelled call
\* leaves it free.
LimiterIsHeld == \A c \in Callers : call[c].pc = "sleep" <=> lock = c
=============================================================================
