---------------------------- MODULE NotificationConfig ----------------------------
(* Routing configuration and the routing of events (notifications/repository.py, *)
(* ledger/api/notifications.py): connectors hold credentials, endpoints belong to *)
(* a connector, groups list endpoints, policies target groups.  Operators edit     *)
(* concurrently with optimistic versions while events are published and routed.    *)
(* Rows of one kind are told apart by their id; a deleted id is never used again.  *)
EXTENDS Naturals, FiniteSets

CONSTANTS
    Editors,        \* operators editing a connector through the API
    Connectors, Endpoints, Groups, Policies, Events,
    Critical,       \* events of the type and severity the readiness check asks for
    MaxVersion      \* bound: edits of one connector

ConstantsOK ==
    /\ IsFiniteSet(Connectors) /\ IsFiniteSet(Endpoints) /\ IsFiniteSet(Groups)
    /\ Critical \subseteq Events /\ MaxVersion \in Nat \ {0}

\* A webhook with authentication needs a credential like Telegram does.
Types == {"telegram", "signed", "plain"}
Credentials == {"keep", "secret", "ref", "clear"}
Absent == [version |-> 0, type |-> "plain", ref |-> FALSE, secret |-> FALSE]
Unpublished == [status |-> "new", policy |-> "none", suppress |-> FALSE, ready |-> FALSE]
NoEdit == [step |-> "idle", id |-> "none", type |-> "plain", credential |-> "keep",
           expected |-> 0, ref |-> FALSE]

VARIABLES
    connector,      \* per connector its row and whether notification_secrets has it
    used,           \* ids ever created, of every kind
    edit,           \* per operator the request under way
    endpoint,       \* per live endpoint: its connector and whether it is enabled
    members,        \* per live group: its endpoints
    policy,         \* per live policy: its groups, the exact pattern, suppress
    event,          \* per event: routing status, the policy chosen and its suppress
                    \* flag as read, and (for the properties) RouteReady then
    delivery        \* <<event, endpoint>> rows

vars == <<connector, used, edit, endpoint, members, policy, event, delivery>>

Live(c) == connector[c].version > 0
HasSecret(row) == row.ref \/ row.secret

PolicyRow == [groups : SUBSET Groups, exact : BOOLEAN, suppress : BOOLEAN]

TypeOK ==
    /\ connector \in [Connectors -> [version : 0..MaxVersion, type : Types, ref : BOOLEAN, secret : BOOLEAN]]
    /\ used \subseteq Connectors \cup Endpoints \cup Groups \cup Policies
    /\ DOMAIN endpoint \subseteq Endpoints /\ DOMAIN members \subseteq Groups /\ DOMAIN policy \subseteq Policies
    /\ \A e \in DOMAIN endpoint : endpoint[e] \in [connector : Connectors, enabled : BOOLEAN]
    /\ \A g \in DOMAIN members : members[g] \subseteq Endpoints
    /\ \A p \in DOMAIN policy : policy[p] \in PolicyRow
    /\ delivery \subseteq Events \X Endpoints
    /\ \A v \in Events : event[v].status \in {"new", "choosing", "routed", "suppressed", "unrouted"}
    /\ \A v \in Events : event[v].status # "choosing" => event[v].policy \in {"none"} \cup Policies

Init ==
    /\ connector = [c \in Connectors |-> Absent]
    /\ used = {} /\ delivery = {}
    /\ edit = [o \in Editors |-> NoEdit]
    /\ endpoint = [e \in {} |-> Absent] /\ members = [g \in {} |-> {}] /\ policy = [p \in {} |-> {}]
    /\ event = [v \in Events |-> Unpublished]

Fresh(id) == id \notin used /\ used' = used \cup {id}
Put(f, x, row) == [y \in DOMAIN f \cup {x} |-> IF y = x THEN row ELSE f[y]]
Drop(f, x) == [y \in DOMAIN f \ {x} |-> f[y]]

---------------------------------------------------------------------------
(* Connectors: create, the three steps of an edit, delete.                  *)

Needs(type) == type \in {"telegram", "signed"}

CreateConnector(c) ==
    /\ Fresh(c)
    /\ \E type \in Types, how \in {"none", "secret", "ref"} :
          /\ Needs(type) => how # "none"
          /\ connector' = [connector EXCEPT ![c] =
                [version |-> 1, type |-> type, ref |-> how = "ref", secret |-> how = "secret"]]
    /\ UNCHANGED <<edit, endpoint, members, policy, event, delivery>>

\* The operator opens the form: the request will carry the version shown.
OpenEdit(o, c) ==
    /\ edit[o].step = "idle" /\ Live(c)
    /\ \E type \in Types, credential \in Credentials :
          edit' = [edit EXCEPT ![o] = [step |-> "sent", id |-> c, type |-> type,
                      credential |-> credential, expected |-> connector[c].version, ref |-> FALSE]]
    /\ UNCHANGED <<connector, used, endpoint, members, policy, event, delivery>>

Accepted(row, r) ==
    /\ row.version > 0
    /\ ~(r.credential = "clear" /\ r.type = "telegram")
    /\ Needs(r.type) => \/ r.credential \in {"secret", "ref"}
                        \/ r.credential = "keep" /\ HasSecret(row)

CheckEdit(o) ==
    /\ edit[o].step = "sent"
    /\ LET r == edit[o]
           row == connector[r.id]
       IN edit' = [edit EXCEPT ![o] =
             IF Accepted(row, r)
             THEN [r EXCEPT !.step = "checked",
                            !.ref = CASE r.credential \in {"clear", "secret"} -> FALSE
                                      [] r.credential = "ref" -> TRUE
                                      [] OTHER -> row.ref]
             ELSE NoEdit]
    /\ UNCHANGED <<connector, used, endpoint, members, policy, event, delivery>>

\* The UPDATE ... WHERE version = expected and the secret row, in one transaction.
Updated(row, r) ==
    [version |-> row.version + 1, type |-> r.type, ref |-> r.ref,
     secret |-> CASE r.credential \in {"clear", "ref"} -> FALSE
                  [] r.credential = "secret" -> TRUE
                  [] OTHER -> row.secret]

ApplyEdit_unversioned(o) ==
    /\ edit[o].step = "checked"
    /\ LET r == edit[o]
           row == connector[r.id]
       IN connector' = IF row.version \in 1..(MaxVersion - 1)
                       THEN [connector EXCEPT ![r.id] = Updated(row, r)] ELSE connector
    /\ edit' = [edit EXCEPT ![o] = NoEdit]
    /\ UNCHANGED <<used, endpoint, members, policy, event, delivery>>

ApplyEdit(o) ==
    /\ edit[o].step = "checked"
    /\ LET r == edit[o]
           row == connector[r.id]
       IN connector' = IF row.version = r.expected /\ row.version < MaxVersion
                       THEN [connector EXCEPT ![r.id] = Updated(row, r)] ELSE connector
    /\ edit' = [edit EXCEPT ![o] = NoEdit]
    /\ UNCHANGED <<used, endpoint, members, policy, event, delivery>>

\* ON DELETE RESTRICT: not while an endpoint refers to it.
DeleteConnector(c) ==
    /\ Live(c) /\ \A e \in DOMAIN endpoint : endpoint[e].connector # c
    /\ connector' = [connector EXCEPT ![c] = Absent]
    /\ UNCHANGED <<used, edit, endpoint, members, policy, event, delivery>>

---------------------------------------------------------------------------
(* Endpoints, groups and policies.  A write with a stale version changes     *)
(* nothing, so only the writes that succeed are steps.                       *)

WriteEndpoint(e) ==
    /\ \E c \in Connectors, on \in BOOLEAN :
          /\ Live(c)
          /\ endpoint' = Put(endpoint, e, [connector |-> c, enabled |-> on])
    /\ IF e \in DOMAIN endpoint THEN UNCHANGED used ELSE Fresh(e)
    /\ UNCHANGED <<connector, edit, members, policy, event, delivery>>

DeleteEndpoint(e) ==
    /\ e \in DOMAIN endpoint
    /\ \A g \in DOMAIN members : e \notin members[g]
    /\ \A v \in Events : <<v, e>> \notin delivery
    /\ endpoint' = Drop(endpoint, e)
    /\ UNCHANGED <<connector, used, edit, members, policy, event, delivery>>

\* The members are replaced as a whole in the same transaction.
WriteGroup(g) ==
    /\ \E es \in SUBSET DOMAIN endpoint : members' = Put(members, g, es)
    /\ IF g \in DOMAIN members THEN UNCHANGED used ELSE Fresh(g)
    /\ UNCHANGED <<connector, edit, endpoint, policy, event, delivery>>

DeleteGroup(g) ==
    /\ g \in DOMAIN members
    /\ \A p \in DOMAIN policy : g \notin policy[p].groups
    /\ members' = Drop(members, g)
    /\ UNCHANGED <<connector, used, edit, endpoint, policy, event, delivery>>

\* PolicyWrite: a policy that does not suppress targets at least one group.
WritePolicy(p) ==
    /\ \E row \in PolicyRow :
          /\ row.groups \subseteq DOMAIN members
          /\ row.suppress \/ row.groups # {}
          /\ policy' = Put(policy, p, row)
    /\ IF p \in DOMAIN policy THEN UNCHANGED used ELSE Fresh(p)
    /\ UNCHANGED <<connector, edit, endpoint, members, event, delivery>>

\* Its group rows go with it, and events forget it (ON DELETE SET NULL).
DeletePolicy(p) ==
    /\ p \in DOMAIN policy
    /\ policy' = Drop(policy, p)
    /\ event' = [v \in Events |-> IF event[v].policy = p /\ event[v].status # "choosing"
                                  THEN [event[v] EXCEPT !.policy = "none"] ELSE event[v]]
    /\ UNCHANGED <<connector, used, edit, endpoint, members, delivery>>

---------------------------------------------------------------------------
(* Publishing: the event is inserted and routed in one READ COMMITTED        *)
(* transaction whose reads may see different configurations.                 *)

\* choose_policy: an exact pattern before a glob, then a fixed order.
Chosen ==
    LET exact == {p \in DOMAIN policy : policy[p].exact}
        best == IF exact = {} THEN DOMAIN policy ELSE exact
    IN IF best = {} THEN "none" ELSE CHOOSE p \in best : TRUE

\* _policy_endpoints: the enabled endpoints of the policy's groups, once each.
Targets(p) ==
    IF p \notin DOMAIN policy THEN {}
    ELSE {e \in DOMAIN endpoint : endpoint[e].enabled /\ \E g \in policy[p].groups : e \in members[g]}

\* overview: whether an event of the critical type would reach somebody.
RouteReady == Chosen # "none" /\ ~policy[Chosen].suppress /\ Targets(Chosen) # {}

ChoosePolicy(v) ==
    /\ event[v].status = "new"
    /\ event' = [event EXCEPT ![v] =
          [status |-> "choosing", policy |-> Chosen, ready |-> RouteReady,
           suppress |-> Chosen # "none" /\ policy[Chosen].suppress]]
    /\ UNCHANGED <<connector, used, edit, endpoint, members, policy, delivery>>

\* A policy that is gone by now breaks the foreign key and the event is undone.
RouteEvent(v) ==
    /\ event[v].status = "choosing"
    /\ LET p == event[v].policy
           rows == IF event[v].suppress THEN {} ELSE Targets(p)
       IN IF p # "none" /\ p \notin DOMAIN policy
          THEN event' = [event EXCEPT ![v] = Unpublished] /\ UNCHANGED delivery
          ELSE /\ event' = [event EXCEPT ![v].status = IF event[v].suppress THEN "suppressed"
                              ELSE IF rows = {} THEN "unrouted" ELSE "routed"]
               /\ delivery' = delivery \cup {<<v, e>> : e \in rows}
    /\ UNCHANGED <<connector, used, edit, endpoint, members, policy>>

Next ==
    \/ \E c \in Connectors : CreateConnector(c) \/ DeleteConnector(c)
    \/ \E o \in Editors : (\E c \in Connectors : OpenEdit(o, c)) \/ CheckEdit(o) \/ ApplyEdit(o)
    \/ \E e \in Endpoints : WriteEndpoint(e) \/ DeleteEndpoint(e)
    \/ \E g \in Groups : WriteGroup(g) \/ DeleteGroup(g)
    \/ \E p \in Policies : WritePolicy(p) \/ DeletePolicy(p)
    \/ \E v \in Events : ChoosePolicy(v) \/ RouteEvent(v)

Spec == Init /\ [][Next]_vars

---------------------------------------------------------------------------
(* A connector that must authenticate always has a credential, whatever two    *)
(* operators submit at the same time: the row the request was judged by is the *)
(* row the versioned UPDATE replaces.                                          *)
CredentialKept ==
    \A c \in Connectors : Live(c) /\ Needs(connector[c].type) => HasSecret(connector[c])

(* No configuration row and no delivery refers to something deleted.           *)
ReferencesExist ==
    /\ \A e \in DOMAIN endpoint : Live(endpoint[e].connector)
    /\ \A g \in DOMAIN members : members[g] \subseteq DOMAIN endpoint
    /\ \A p \in DOMAIN policy : policy[p].groups \subseteq DOMAIN members
    /\ \A d \in delivery : d[2] \in DOMAIN endpoint

(* An event is routed exactly when it has a delivery: an event whose policy is *)
(* edited, emptied or deleted between the choice and the insert never counts   *)
(* as routed with nobody to tell, and a suppressed one reaches nobody.         *)
RoutedHasDelivery ==
    \A v \in Events : event[v].status = "routed" <=> \E e \in Endpoints : <<v, e>> \in delivery

(* An edit replaces the row its author saw: no other edit is lost under it.    *)
NoLostEdit ==
    [][\A c \in Connectors : connector[c].version > 0 /\ connector'[c].version > connector[c].version =>
          \E o \in Editors : edit[o].id = c /\ edit[o].expected = connector[c].version]_vars

(* An event is routed to somebody when the overview reports its route ready,   *)
(* by the same policy, when the policy is chosen and when the deliveries are    *)
(* written; edits in between do not lose it.                                    *)
ReadyIsHonest ==
    [][\A v \in Critical : event[v].status = "choosing" /\ event'[v].status # "choosing"
          /\ event[v].ready /\ RouteReady /\ event[v].policy = Chosen => event'[v].status = "routed"]_vars
=============================================================================
