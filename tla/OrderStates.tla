----------------------------- MODULE OrderStates -----------------------------
(***************************************************************************)
(* The order life cycle shared by every execution path                     *)
(* (shared/order_states.py) and the latest-row view of the order           *)
(* write-ahead log (OrderWAL of shared/execution_recovery.py).             *)
(*                                                                         *)
(* The log is an append-only file; every reader first folds it to the      *)
(* latest row of each client_order_id (recover_latest), so a row here is   *)
(* that latest row.  A row keeps what the readers tell apart:              *)
(*   type    record_type, "none" while the id has no row;                  *)
(*   status  the status column, "NONE" for the null of an intent row;      *)
(*   mark    "fresh", "synced" once startup sync has re-read the order, or *)
(*           "acked" once a ledger_ack for exactly this row is on disk.    *)
(***************************************************************************)

\* Statuses an exchange order can report (map_binance_status).
Terminal == {"FILLED", "CANCELLED", "EXPIRED", "REJECTED"}

ExchangeStatus == {"NEW", "PARTIALLY_FILLED"} \cup Terminal

Status == ExchangeStatus \cup {"SUBMIT_UNKNOWN", "NONE"}

\* VALID_TRANSITIONS: successors of each status.
ValidTransitions(s) ==
  CASE s = "NEW" -> {"PARTIALLY_FILLED"} \cup Terminal
    [] s = "PARTIALLY_FILLED" -> {"FILLED", "CANCELLED"}
    [] s = "SUBMIT_UNKNOWN" -> ExchangeStatus
    [] OTHER -> {}

IsValidTransition(s, t) == s = t \/ t \in ValidTransitions(s)

-----------------------------------------------------------------------------

Mark == {"fresh", "synced", "acked"}

NoRow == [type |-> "none", status |-> "NONE", mark |-> "fresh"]

\* record_intent: the first row of a client_order_id.
IntentRow == [type |-> "intent", status |-> "NONE", mark |-> "fresh"]

UnknownRow == [type |-> "submit_unknown", status |-> "SUBMIT_UNKNOWN", mark |-> "fresh"]

ExchangeRow(s) == [type |-> "exchange_status", status |-> s, mark |-> "fresh"]

\* The rows record_intent, record_submit_unknown and record_exchange_status write.
Row == {NoRow, IntentRow, UnknownRow}
         \cup [type : {"exchange_status"}, status : ExchangeStatus, mark : Mark]

\* Mutant: the record type is written into the status column.
RecordSubmitUnknown_status(latest) ==
  IF latest.type = "exchange_status"
    THEN latest
    ELSE [UnknownRow EXCEPT !.status = "submit_unknown"]

\* record_submit_unknown: a timeout never overwrites an exchange fact.
RecordSubmitUnknown(latest) ==
  IF latest.type = "exchange_status"
    THEN latest
    ELSE UnknownRow

\* record_exchange_status: the caller holds the row `held` it read earlier.
\* When the log has moved on since, a response that repeats or regresses the
\* newer exchange fact is dropped.
StaleResponse(latest, held, s) ==
  /\ latest.status # "NONE"
  /\ latest.type = "exchange_status"
  /\ <<latest.type, latest.status>> # <<held.type, held.status>>
  /\ latest.status = s \/ ~IsValidTransition(latest.status, s)

\* ... a response that contradicts the fact the caller itself holds raises.
InvalidResponse(latest, held, s) ==
  /\ ~StaleResponse(latest, held, s)
  /\ latest.status # "NONE"
  /\ ~IsValidTransition(latest.status, s)

\* Mutant: responses are appended without looking at the latest row.
RecordExchangeStatus_blind(latest, held, s) == ExchangeRow(s)

RecordExchangeStatus(latest, held, s) ==
  IF StaleResponse(latest, held, s) \/ InvalidResponse(latest, held, s)
    THEN latest
    ELSE ExchangeRow(s)

\* The rows _refresh_symbol_risk and has_unresolved_orders look for.
Unresolved(row) == row.type = "intent" \/ row.status = "SUBMIT_UNKNOWN"

=============================================================================
