------------------------ MODULE NotificationDelivery ------------------------
(***************************************************************************)
(* Delivery of notification events by several workers over leased rows of  *)
(* notification_deliveries (notifications/worker.py, repository.py and     *)
(* adapters.py).  A worker claims a batch, processes its claims            *)
(* concurrently and starts the next batch when all are done.  Every        *)
(* interaction with the database or a channel is a step of its own, so     *)
(* leases lapse, workers die and answers get lost between any two of them. *)
(*                                                                         *)
(* Clocks are abstracted: a lease lapses, an event expires and a retry     *)
(* falls due at any moment.                                                *)
(***************************************************************************)
EXTENDS Naturals, FiniteSets

CONSTANTS
    Workers,
    NoWorker,
    Deliveries,     \* one per (event, endpoint): the UNIQUE pair of the table
    Telegram,       \* deliveries to a Telegram chat; the others go to a webhook
    Expiring,       \* deliveries whose event has an expires_at
    MaxAttempts,    \* max_attempts
    Batch,          \* batch_size
    MaxFaults,      \* bound on worker deaths, lost updates and lapsed leases
    MaxManual       \* bound on manual retries of a delivery

ConstantsOK ==
    /\ Expiring \subseteq Deliveries /\ Telegram \subseteq Deliveries
    /\ NoWorker \notin Workers
    /\ MaxAttempts \in Nat \ {0} /\ Batch \in Nat \ {0}
    /\ MaxFaults \in Nat /\ MaxManual \in Nat

VARIABLES
    row,        \* d -> [status, attempts, owner] of notification_deliveries
    lapsed,     \* rows whose lease_until has passed
    expired,    \* deliveries whose event has expired
    claim,      \* w -> d -> the step of _process_claim and the claimed attempt_count
    received,   \* d -> messages the channel received
    alerts,     \* deliveries with a notification.delivery.dead event
    manual,     \* d -> manual retries
    faults

vars == <<row, lapsed, expired, claim, received, alerts, manual, faults>>

Statuses == {"absent", "pending", "sending", "retry", "sent", "dead"}
Steps == {"none", "begin", "ready", "sent", "retry", "dead", "alert"}
NoClaim == [step |-> "none", attempt |-> 0]
Row(status, attempts, owner) == [status |-> status, attempts |-> attempts, owner |-> owner]

Init ==
    /\ row = [d \in Deliveries |-> Row("absent", 0, NoWorker)]
    /\ lapsed = {} /\ expired = {}
    /\ claim = [w \in Workers |-> [d \in Deliveries |-> NoClaim]]
    /\ received = [d \in Deliveries |-> 0]
    /\ alerts = {}
    /\ manual = [d \in Deliveries |-> 0]
    /\ faults = 0

Idle(w) == \A d \in Deliveries : claim[w][d] = NoClaim

-----------------------------------------------------------------------------
(* publish_event inserts the event and routes it in one transaction; the   *)
(* ON CONFLICT clause leaves an existing delivery alone.                   *)
Publish(d) ==
    /\ row[d].status = "absent"
    /\ row' = [row EXCEPT ![d].status = "pending"]
    /\ UNCHANGED <<lapsed, expired, claim, received, alerts, manual, faults>>

\* Time passes: the event's expires_at.
Expire(d) ==
    /\ d \in Expiring \ expired
    /\ row[d].status # "absent"
    /\ expired' = expired \union {d}
    /\ UNCHANGED <<row, lapsed, claim, received, alerts, manual, faults>>

\* Time passes: lease_until.
Lapse(d) ==
    /\ row[d].status = "sending" /\ d \notin lapsed
    /\ faults < MaxFaults \/ claim[row[d].owner][d] = NoClaim
    /\ faults' = IF claim[row[d].owner][d] = NoClaim THEN faults ELSE faults + 1
    /\ lapsed' = lapsed \union {d}
    /\ UNCHANGED <<row, expired, claim, received, alerts, manual>>

\* claim_deliveries, first two statements: lapsed leases return to 'retry', and
\* what waits for an expired event is dead.
Swept(d) ==
    LET back == row[d].status = "sending" /\ d \in lapsed
        r == IF back THEN Row("retry", row[d].attempts, NoWorker) ELSE row[d]
    IN  IF r.status \in {"pending", "retry"} /\ d \in expired
        THEN Row("dead", r.attempts, r.owner) ELSE r

\* claim_deliveries, the rest: lease at most Batch due rows.
Claim(w) ==
    LET swept == [d \in Deliveries |-> Swept(d)]
        due == {d \in Deliveries : swept[d].status \in {"pending", "retry"}}
    IN  /\ Idle(w)
        /\ \E got \in SUBSET due :
              /\ Cardinality(got) =
                    IF Cardinality(due) < Batch THEN Cardinality(due) ELSE Batch
              /\ row' = [d \in Deliveries |->
                    IF d \in got
                    THEN Row("sending", swept[d].attempts + 1, w)
                    ELSE swept[d]]
              /\ lapsed' = lapsed \ {d \in lapsed : row'[d] # row[d]}
              /\ claim' = [claim EXCEPT ![w] =
                    [d \in Deliveries |->
                       IF d \in got THEN [step |-> "begin", attempt |-> row'[d].attempts]
                       ELSE NoClaim]]
        /\ UNCHANGED <<expired, received, alerts, manual, faults>>

Step(w, d, s) == claim' = [claim EXCEPT ![w][d].step = s]
Leave(w, d) == claim' = [claim EXCEPT ![w][d] = NoClaim]

Begin(w, d) ==
    /\ claim[w][d].step = "begin"
    /\ Step(w, d, IF d \in expired \/ claim[w][d].attempt > MaxAttempts THEN "dead" ELSE "ready")
    /\ UNCHANGED <<row, lapsed, expired, received, alerts, manual, faults>>

\* _handle_retry: the last attempt, or a retry the event does not live to see.
AfterFailure(w, d) ==
    IF claim[w][d].attempt >= MaxAttempts THEN {"dead"}
    ELSE IF d \in Expiring THEN {"dead", "retry"} ELSE {"retry"}

\* What a channel answers: 2xx; 2xx with an unreadable body; an answer lost on
\* the way back; no connection; 408, 429 or 5xx; any other status.
Answers == {"accepted", "garbled", "lost", "unreachable", "transient", "rejected"}
Received(a) == a \in {"accepted", "garbled", "lost"}

\* TelegramAdapter.send needs a body that says ok.
TelegramVerdict(a) ==
    CASE a = "accepted" -> "sent"
      [] a = "rejected" -> "dead"
      [] OTHER -> "retry"

\* WebhookAdapter.send goes by the status code; an unsafe or invalid URL is
\* rejected before anything is sent.
WebhookVerdict(a) ==
    CASE a \in {"accepted", "garbled"} -> "sent"
      [] a = "rejected" -> "dead"
      [] OTHER -> "retry"

Verdict_optimistic(d, a) == IF a = "rejected" THEN "dead" ELSE "sent"

Verdict(d, a) == IF d \in Telegram THEN TelegramVerdict(a) ELSE WebhookVerdict(a)

Send(w, d) ==
    /\ claim[w][d].step = "ready"
    /\ \E a \in Answers :
          /\ received' = [received EXCEPT ![d] = @ + IF Received(a) THEN 1 ELSE 0]
          /\ \E s \in IF Verdict(d, a) = "retry" THEN AfterFailure(w, d) ELSE {Verdict(d, a)} :
                Step(w, d, s)
    /\ UNCHANGED <<row, lapsed, expired, alerts, manual, faults>>

Holds(w, d) ==
    /\ row[d].status = "sending"
    /\ row[d].owner = w
    /\ row[d].attempts = claim[w][d].attempt

\* _mark_sent, _mark_retry and _mark_dead; a row held no more stays as it is.
Mark(w, d) ==
    /\ claim[w][d].step \in {"sent", "retry", "dead"}
    /\ IF Holds(w, d)
       THEN /\ row' = [row EXCEPT ![d] = Row(claim[w][d].step, row[d].attempts, NoWorker)]
            /\ lapsed' = lapsed \ {d}
            /\ IF claim[w][d].step = "dead" THEN Step(w, d, "alert") ELSE Leave(w, d)
       ELSE /\ Leave(w, d)
            /\ UNCHANGED <<row, lapsed>>
    /\ UNCHANGED <<expired, received, alerts, manual, faults>>

\* The update fails: the row stays leased until the lease lapses.
MarkFails(w, d) ==
    /\ claim[w][d].step \in {"sent", "retry", "dead"}
    /\ faults < MaxFaults
    /\ faults' = faults + 1
    /\ Leave(w, d)
    /\ UNCHANGED <<row, lapsed, expired, received, alerts, manual>>

\* _publish_dead_letter_event, idempotent per delivery.
Alert(w, d) ==
    /\ claim[w][d].step = "alert"
    /\ alerts' = alerts \union {d}
    /\ Leave(w, d)
    /\ UNCHANGED <<row, lapsed, expired, received, manual, faults>>

ManualRetry(d) ==
    /\ row[d].status \in {"dead", "retry"}
    /\ manual[d] < MaxManual
    /\ manual' = [manual EXCEPT ![d] = @ + 1]
    /\ row' = [row EXCEPT ![d] = Row("pending", 0, NoWorker)]
    /\ UNCHANGED <<lapsed, expired, claim, received, alerts, faults>>

\* A worker process is lost and replaced; the new one has another worker_id, so
\* nothing the old one leased is held by it.
Die(w) ==
    /\ ~Idle(w)
    /\ faults < MaxFaults
    /\ faults' = faults + 1
    /\ claim' = [claim EXCEPT ![w] = [d \in Deliveries |-> NoClaim]]
    /\ UNCHANGED <<row, lapsed, expired, received, alerts, manual>>

Work(w) ==
    \/ Claim(w)
    \/ \E d \in Deliveries : Begin(w, d) \/ Send(w, d) \/ Mark(w, d) \/ Alert(w, d)

Next ==
    \/ \E d \in Deliveries : Publish(d) \/ Expire(d) \/ Lapse(d) \/ ManualRetry(d)
    \/ \E w \in Workers :
          \/ Work(w) \/ Die(w)
          \/ \E d \in Deliveries : MarkFails(w, d)

Spec == Init /\ [][Next]_vars

\* Every worker goes on with its claims and polls again; leases run out.
Fairness ==
    /\ \A w \in Workers : WF_vars(Work(w))
    /\ \A d \in Deliveries : WF_vars(Lapse(d))

-----------------------------------------------------------------------------
(* Properties *)

\* Rows are leased exactly while they are being sent (the CHECK of the table).
TypeOK ==
    /\ row \in [Deliveries -> [status : Statuses, attempts : 0..(MaxAttempts + MaxFaults),
                              owner : Workers \union {NoWorker}]]
    /\ \A d \in Deliveries : row[d].status = "sending" <=> row[d].owner # NoWorker
    /\ lapsed \subseteq {d \in Deliveries : row[d].status = "sending"}
    /\ claim \in [Workers -> [Deliveries -> [step : Steps, attempt : Nat]]]
    /\ received \in [Deliveries -> Nat] /\ manual \in [Deliveries -> Nat]
    /\ faults \in 0..MaxFaults

\* "投递语义是至少一次": a delivery shown as sent has reached its channel.
SentWasReceived ==
    \A d \in Deliveries : row[d].status = "sent" => received[d] > 0

\* However leases lapse, workers die and updates get lost, a channel gets at most
\* max_attempts messages for a delivery, and as many again for a manual retry.
SendsAreBounded ==
    \A d \in Deliveries : received[d] <= MaxAttempts * (1 + manual[d])

\* Why they hold, as an inductive invariant.  A worker that is about to send was
\* counted by the attempt it claimed, ...
MaySend(c) == c.step = "ready" \/ (c.step = "begin" /\ c.attempt <= MaxAttempts)
Senders(d) == {w \in Workers : MaySend(claim[w][d])}
Attempted(d) == IF row[d].attempts <= MaxAttempts THEN row[d].attempts ELSE MaxAttempts

SendsAreCounted ==
    \A d \in Deliveries :
       /\ IsFiniteSet(Senders(d))
       /\ received[d] + Cardinality(Senders(d)) <= MaxAttempts * manual[d] + Attempted(d)

\* ... the owner of a lease has the claim of its attempt until it is lost, and
\* every attempt beyond max_attempts took a fault.
Orphaned(d) == row[d].status = "sending" /\ claim[row[d].owner][d] = NoClaim

LeasesAreClaimed ==
    \A d \in Deliveries :
       /\ row[d].status = "sending" /\ ~Orphaned(d) =>
            LET c == claim[row[d].owner][d]
            IN  c.attempt = row[d].attempts /\ c.step # "alert"
       /\ row[d].attempts <= MaxAttempts + faults
       /\ row[d].status \in {"absent", "pending", "retry"} \/ d \in lapsed \/ Orphaned(d) =>
            row[d].attempts < MaxAttempts + faults

ClaimsAreTrue ==
    \A w \in Workers, d \in Deliveries :
       /\ claim[w][d].step = "ready" => claim[w][d].attempt <= MaxAttempts
       /\ claim[w][d].step = "retry" => claim[w][d].attempt < MaxAttempts
       /\ claim[w][d].step = "sent" => received[d] > 0

DeliveryInv == SentWasReceived /\ SendsAreCounted /\ LeasesAreClaimed /\ ClaimsAreTrue

\* A delivery that was sent stays sent: neither a late worker nor the API sends
\* it again (_finish_delivery, retry_delivery).
SentIsFinal ==
    [][\A d \in Deliveries : row[d].status = "sent" => row'[d].status = "sent"]_vars

\* A dead delivery comes back only by a manual retry.
DeadNeedsOperator ==
    [][\A d \in Deliveries :
          row[d].status = "dead" /\ row'[d].status # "dead" => manual'[d] > manual[d]]_vars

\* Every published delivery ends: it is sent or dead.
EveryDeliveryEnds ==
    \A d \in Deliveries :
        row[d].status # "absent" ~> row[d].status \in {"sent", "dead"}
=============================================================================
