------------------------------ MODULE MCOrders ------------------------------
(***************************************************************************)
(* One order of one symbol, with every report the exchange can send,       *)
(* cancellation, and two faults (lost replies, disconnects, crashes).      *)
(***************************************************************************)
EXTENDS OrderExecution

CONSTANTS BTC

OneSymbol == [o \in Orders |-> BTC]
=============================================================================
