------------------------------ MODULE HubDirectory ------------------------------
(***************************************************************************)
(* Who and what the hub knows on which host: the dispatchers table, the    *)
(* host_roles a registration leaves behind, and the names people give to   *)
(* hosts and runners (routes/dispatchers.rs, labels.rs, agents.rs and      *)
(* cluster.rs over the store).  A registration and a deregistration are    *)
(* several statements each; any of them may fail, with its effect or       *)
(* without, and another request may come between any two.                  *)
(***************************************************************************)
EXTENDS Integers, FiniteSets

CONSTANTS
  Dispatcher, SigningKey,
  Host,         \* host names as they are spelled: <<name, "lower" or "mixed">>
  NoHost,
  Clerk,        \* bound: registrations and deregistrations at once
  Alias,        \* names people give; NoAlias is the empty one
  NoAlias,
  Agent         \* the agent runners: a set of [id, host]

\* "none" is the key of no row.
ASSUME KeyAssumption == "none" \notin SigningKey

VARIABLES
  dispatchers,  \* the table: NoDispatcher, or its key, its host and who wrote them
  roles,        \* host_roles for "dispatch": "none", "disabled" or who enabled it
  labels,       \* host_alias:... and runner_alias:...
  stray,        \* history: hosts whose role some request left without its dispatcher
  overtaken,    \* history: dispatchers deleted and registered again under a request
  clerk         \* the requests

directoryVars == <<dispatchers, roles, labels, stray, overtaken, clerk>>

NoDispatcher == [key |-> "none", host |-> NoHost, by |-> "none"]
Idle == [at |-> "off", who |-> "none", key |-> "none", host |-> NoHost]
LabelKey == Host \cup {a.id : a \in Agent}

DirectoryInit ==
  /\ dispatchers = [d \in Dispatcher |-> NoDispatcher]
  /\ roles = [h \in Host |-> "none"]
  /\ labels = [k \in LabelKey |-> NoAlias]
  /\ stray = {} /\ overtaken = {}
  /\ clerk = [c \in Clerk |-> Idle]

-----------------------------------------------------------------------------
ClerkAt(c, at) == clerk[c].at = at
Done(c) == clerk' = [clerk EXCEPT ![c] = Idle]
Move(c, at) == IF at = "off" THEN Done(c) ELSE clerk' = [clerk EXCEPT ![c].at = at]
On(h) == {d \in Dispatcher : dispatchers[d].host = h}

Register(c) ==
  /\ ClerkAt(c, "off")
  /\ \E d \in Dispatcher, k \in SigningKey, h \in Host \cup {NoHost} :
       clerk' = [clerk EXCEPT ![c] = [at |-> "bind", who |-> d, key |-> k, host |-> h]]
  /\ UNCHANGED <<dispatchers, roles, labels, stray, overtaken>>

KeyTaken_Never(c) == FALSE
KeyTaken(c) == dispatchers[clerk[c].who].key # clerk[c].key

\* upsert_dispatcher reads the row: an id bound to another key is refused (409).
Bind(c) ==
  /\ ClerkAt(c, "bind")
  /\ IF dispatchers[clerk[c].who] = NoDispatcher THEN Move(c, "insert")
     ELSE IF KeyTaken(c) THEN Done(c) ELSE Move(c, "update")
  /\ UNCHANGED <<dispatchers, roles, labels, stray, overtaken>>

\* Where the row's host was, its role stays.
LeftBehind(d, h) ==
  IF dispatchers[d].host \in Host \ {h} THEN {dispatchers[d].host} ELSE {}

\* UPDATE ... WHERE dispatcher_id: by now it may be another's, or nobody's.
Update(c) ==
  LET me == clerk[c] IN
  /\ ClerkAt(c, "update")
  /\ \/ /\ dispatchers[me.who] # NoDispatcher
        /\ dispatchers' = [dispatchers EXCEPT ![me.who].host = me.host, ![me.who].by = me.key]
        /\ stray' = stray \cup LeftBehind(me.who, me.host)
        /\ \/ Move(c, IF me.host = NoHost THEN "off" ELSE "role")
           \/ Done(c)
     \/ Done(c) /\ UNCHANGED <<dispatchers, stray>>
  /\ UNCHANGED <<roles, labels, overtaken>>

InsertRow(c) ==
  LET me == clerk[c] IN
  /\ ClerkAt(c, "insert")
  /\ \/ /\ dispatchers[me.who] = NoDispatcher
        /\ dispatchers' = [dispatchers EXCEPT ![me.who] = [key |-> me.key, host |-> me.host, by |-> me.key]]
        /\ \/ Move(c, IF me.host = NoHost THEN "off" ELSE "role")
           \/ Done(c)
     \/ Done(c) /\ UNCHANGED dispatchers
  /\ UNCHANGED <<roles, labels, stray, overtaken>>

\* set_host_role, best effort; the dispatcher may be gone again by now.
Enable(c) ==
  LET h == clerk[c].host IN
  /\ ClerkAt(c, "role") /\ Done(c)
  /\ \/ /\ roles' = [roles EXCEPT ![h] = "registration"]
        /\ stray' = IF On(h) = {} THEN stray \cup {h} ELSE stray
     \/ UNCHANGED <<roles, stray>>
  /\ UNCHANGED <<dispatchers, labels, overtaken>>

-----------------------------------------------------------------------------
\* delete_dispatcher: the row is read for its host, ...
Deregister(c) ==
  /\ ClerkAt(c, "off")
  /\ \E d \in Dispatcher :
       /\ dispatchers[d] # NoDispatcher
       /\ clerk' = [clerk EXCEPT ![c] = [Idle EXCEPT !.at = "delete", !.who = d, !.host = dispatchers[d].host]]
  /\ UNCHANGED <<dispatchers, roles, labels, stray, overtaken>>

\* ... deleted, wherever it has moved meanwhile, ...
DeleteRow(c) ==
  LET me == clerk[c] IN
  /\ ClerkAt(c, "delete")
  /\ \/ /\ dispatchers' = [dispatchers EXCEPT ![me.who] = NoDispatcher]
        /\ overtaken' = overtaken \cup
             (IF \E o \in Clerk : clerk[o].who = me.who /\ ClerkAt(o, "update") THEN {me.who} ELSE {})
        /\ \/ /\ Move(c, IF me.host = NoHost THEN "off" ELSE "count")
              /\ stray' = stray \cup LeftBehind(me.who, me.host)
           \/ Done(c) /\ stray' = stray \cup LeftBehind(me.who, NoHost)
     \/ Done(c) /\ UNCHANGED <<dispatchers, stray, overtaken>>
  /\ UNCHANGED <<roles, labels>>

NoneLeft(h) == On(h) = {}

\* ... and when none is left on its host, the host's role goes as well.
Count(c) ==
  LET h == clerk[c].host IN
  /\ ClerkAt(c, "count")
  /\ \/ Move(c, IF NoneLeft(h) THEN "drop" ELSE "off") /\ UNCHANGED stray
     \/ Done(c) /\ stray' = stray \cup {h}
  /\ UNCHANGED <<dispatchers, roles, labels, overtaken>>

Drop(c) ==
  LET h == clerk[c].host IN
  /\ ClerkAt(c, "drop") /\ Done(c)
  /\ \/ roles' = [roles EXCEPT ![h] = "none"] /\ stray' = stray \ {h}
     \/ UNCHANGED roles /\ stray' = stray \cup {h}
  /\ UNCHANGED <<dispatchers, labels, overtaken>>

\* POST /hosts/roles: an operator says so.
SetRole(h, said) ==
  /\ roles[h] # said /\ roles' = [roles EXCEPT ![h] = said]
  /\ UNCHANGED <<dispatchers, labels, stray, overtaken, clerk>>

\* PUT /labels/hosts and /labels/runners: an empty name deletes the row.
SetLabel(k, alias) ==
  /\ labels[k] # alias
  /\ labels' = [labels EXCEPT ![k] = alias]
  /\ UNCHANGED <<dispatchers, roles, stray, overtaken, clerk>>

RolesNext ==
  \/ \E c \in Clerk : Register(c) \/ Bind(c) \/ Update(c) \/ InsertRow(c) \/ Enable(c)
                        \/ Deregister(c) \/ DeleteRow(c) \/ Count(c) \/ Drop(c)
  \/ \E h \in Host, said \in {"operator", "disabled"} : SetRole(h, said)

LabelsNext == \E k \in LabelKey, alias \in Alias \cup {NoAlias} : SetLabel(k, alias)

DirectoryNext == RolesNext \/ LabelsNext

DirectorySpec == DirectoryInit /\ [][DirectoryNext]_directoryVars

-----------------------------------------------------------------------------
(* GET /hosts and GET /agents.                                             *)

Named(name) == {h \in Host : h[1] = name}
Lowercase(name) == <<name, "lower">>

\* Rows whose hosts differ in case fall on one: the last in their order counts.
RoleRow(name) ==
  IF Lowercase(name) \in Host /\ roles[Lowercase(name)] # "none" THEN roles[Lowercase(name)]
  ELSE IF \E h \in Named(name) : roles[h] # "none"
  THEN roles[CHOOSE h \in Named(name) : roles[h] # "none"] ELSE "none"

Dispatching(name) == \E h \in Named(name) : On(h) # {}
ToldDispatching(name) == Dispatching(name) \/ RoleRow(name) \notin {"none", "disabled"}

\* list_hosts takes the keys in lower case, list_agents takes the host's name so.
HostAlias(name) ==
  IF labels[Lowercase(name)] # NoAlias THEN labels[Lowercase(name)]
  ELSE IF \E h \in Named(name) : labels[h] # NoAlias
  THEN labels[CHOOSE h \in Named(name) : labels[h] # NoAlias] ELSE NoAlias
ToldByHosts(a) == IF labels[a.id] # NoAlias THEN labels[a.id] ELSE HostAlias(a.host)
ToldByAgents(a) == IF labels[a.id] # NoAlias THEN labels[a.id] ELSE labels[Lowercase(a.host)]

-----------------------------------------------------------------------------
\* A dispatcher's host and label were written under the key the id is bound to:
\* however registrations race, nobody else writes there, unless the row was
\* deleted under somebody's registration.
WrittenByItsKey ==
  \A d \in Dispatcher : dispatchers[d].by = dispatchers[d].key \/ d \in overtaken

=============================================================================
