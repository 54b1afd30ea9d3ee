----------------------------- MODULE OrderFacts -----------------------------
(***************************************************************************)
(* What the order WAL promises its readers about one order: an intent is   *)
(* first, a doubt about the submission may follow it, and once the         *)
(* exchange has spoken the recorded status only moves along                *)
(* VALID_TRANSITIONS.  No doubt ever replaces an exchange fact, no         *)
(* terminal fact is ever replaced, no order is ever forgotten.             *)
(***************************************************************************)
EXTENDS OrderStates

CONSTANT Orders

VARIABLE fact    \* [Orders -> {"none", "intent"} \cup Status]

Init == fact = [o \in Orders |-> "none"]

Intend(o) == fact[o] = "none" /\ fact' = [fact EXCEPT ![o] = "intent"]

Doubt(o) == fact[o] = "intent" /\ fact' = [fact EXCEPT ![o] = "SUBMIT_UNKNOWN"]

Learn(o, s) ==
  /\ fact[o] = "intent" \/ s \in ValidTransitions(fact[o])
  /\ fact' = [fact EXCEPT ![o] = s]

Next == \E o \in Orders : Intend(o) \/ Doubt(o) \/ \E s \in ExchangeStatus : Learn(o, s)

Spec == Init /\ [][Next]_fact

=============================================================================
