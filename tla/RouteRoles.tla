------------------------------ MODULE RouteRoles ------------------------------
(***************************************************************************)
(* Who may reach which route (auth.rs): the role table of the hub, the     *)
(* routes that also want a recent step-up, and the authorities /whoami     *)
(* tells a client it has.  A path is the sequence of its segments, with    *)
(* "id" wherever the route takes a parameter.                              *)
(***************************************************************************)
EXTENDS Integers, Sequences, SequencesExt

ValidRoles == {"dispatcher", "runner", "observer", "approver", "reviewer"}
LegacyRoles == {"dispatcher", "runner", "observer"}
Roles == ValidRoles \cup {"admin"}

Route(method, path) == [method |-> method, path |-> path]
Both(methods, path) == {Route(m, path) : m \in methods}

TaskRoutes ==
  Both({"GET", "POST"}, <<"tasks">>) \cup
  {Route("POST", <<"tasks", p>>) : p \in {"v2", "claim", "claim-loom", "claim-fabric"}} \cup
  {Route("POST", <<"tasks", "id", p>>) : p \in {"start", "cancel", "progress", "result"}} \cup
  {Route("GET", <<"tasks", "waiting">>), Route("GET", <<"tasks", "id">>),
   Route("GET", <<"tasks", "id", "events">>)}

StreamRoutes ==
  Both({"GET", "POST"}, <<"tasks", "id", "stream">>) \cup
  Both({"GET", "POST"}, <<"tasks", "id", "notes">>) \cup
  Both({"GET", "POST"}, <<"tasks", "id", "input">>) \cup
  {Route("POST", <<"tasks", "id", "stream", "bulk">>), Route("POST", <<"tasks", "id", "intent">>)}

NodeRoutes ==
  {Route("GET", <<p>>) : p \in {"runners", "dispatchers", "agents", "hosts", "labels"}} \cup
  {Route("POST", <<"runners", "id", p>>) :
     p \in {"heartbeat", "drain", "drain-by-dispatcher", "undrain-by-dispatcher"}} \cup
  {Route("POST", <<p, "register">>) : p \in {"runners", "dispatchers"}} \cup
  {Route("DELETE", <<p, "id">>) : p \in {"runners", "dispatchers"}} \cup
  {Route("PUT", <<"labels", "hub">>), Route("PUT", <<"labels", "runners", "id">>),
   Route("PUT", <<"labels", "hosts", "id">>), Route("POST", <<"hosts", "roles">>)}

OperatorRoutes ==
  {Route("GET", p) : p \in
     {<<"approvals">>, <<"approvals", "id">>, <<"audit", "tail">>, <<"audit", "day", "id">>,
      <<"audit", "tasks", "id">>, <<"capabilities", "id", "id">>, <<"cluster", "health">>,
      <<"cost", "budget">>, <<"cost", "records">>, <<"cost", "summary">>, <<"policy">>,
      <<"history", "status">>, <<"settings">>, <<"settings", "schema">>, <<"secrets">>,
      <<"state", "snapshot">>, <<"whoami">>, <<"auth-policy">>}} \cup
  {Route("POST", <<"approvals", "id", p>>) : p \in {"approve", "deny"}} \cup
  Both({"PUT", "DELETE"}, <<"settings", "auth.id">>) \cup
  Both({"PUT", "DELETE"}, <<"settings", "id">>) \cup
  {Route("POST", <<"secrets">>), Route("DELETE", <<"secrets", "id">>),
   Route("POST", <<"state", "import">>)}

AdminRoutes ==
  Both({"GET", "POST"}, <<"admin", "role-tokens">>) \cup
  {Route("POST", <<"admin", "role-tokens", p>>) : p \in {"split", "migrate"}} \cup
  {Route("DELETE", <<"admin", "role-tokens", "id">>), Route("POST", <<"admin", "update">>)} \cup
  {Route("GET", <<"admin", "binaries", p>>) : p \in {"manifest", "id"}}

AccountRoutes ==
  Both({"GET", "POST"}, <<"accounts">>) \cup
  Both({"GET", "PATCH"}, <<"accounts", "id">>) \cup
  {Route("POST", <<"accounts", "id", p>>) :
     p \in {"membership", "disable", "enable", "recovery-codes", "delete", "tombstone"}} \cup
  {Route("POST", <<"accounts", "id", "recovery", "complete">>),
   Route("DELETE", <<"accounts", "id", "membership", "id">>),
   Route("GET", <<"accounts", "id", "security-history">>),
   Route("GET", <<"accounts", "export">>), Route("POST", <<"accounts", "import">>)}

SelfRoutes ==
  {Route("GET", <<"auth", p>>) : p \in {"me", "sessions"}} \cup
  {Route("POST", <<"auth", p>>) : p \in {"logout", "logout-all"}} \cup
  {Route("POST", <<"auth", "passkeys", "register", p>>) : p \in {"options", "verify"}} \cup
  {Route("POST", <<"auth", "step-up", p>>) : p \in {"options", "verify"}} \cup
  {Route("DELETE", <<"auth", p, "id">>) : p \in {"passkeys", "sessions"}}

Routes == TaskRoutes \cup StreamRoutes \cup NodeRoutes \cup OperatorRoutes \cup AdminRoutes
            \cup AccountRoutes \cup SelfRoutes

-----------------------------------------------------------------------------
\* What the table asks of a path.
Under(r, first) == Len(r.path) > 1 /\ r.path[1] = first
Holds(r, segment) == \E i \in 2..Len(r.path) : r.path[i] = segment
EndsIn(r, segments) == Last(r.path) \in segments

\* The table is read from the top: the first row whose condition holds answers.
Clause(when, roles) == [when |-> when, roles |-> roles]
FirstOf(rows) == rows[CHOOSE i \in DOMAIN rows :
  rows[i].when /\ \A j \in 1..(i - 1) : ~rows[j].when].roles

Get(r) == r.method = "GET"
Observe == {"observer", "reviewer"}
ObserveDispatch == {"observer", "dispatcher", "reviewer"}
SelfService == {"observer", "dispatcher", "approver", "reviewer", "admin"}
TaskRead == {"observer", "dispatcher", "runner", "reviewer"}
AdminReview == {"admin", "reviewer"}

AccountClauses(r) ==
  <<Clause(r.path = <<"accounts">> /\ Get(r), AdminReview),
    Clause(r.path = <<"accounts">>, {"admin"}),
    Clause(Under(r, "accounts") /\ (Holds(r, "membership") \/ EndsIn(r, {"disable", "enable"})),
        {"admin"}),
    Clause(Under(r, "accounts") /\ Get(r), AdminReview),
    Clause(Under(r, "accounts"), {"admin"})>>

SelfClauses(r) == <<Clause(r.path[1] \in {"auth", "auth-policy"}, SelfService)>>

AdminClauses_PrefixFirst(r) ==
  <<Clause(Holds(r, "binaries") \/ EndsIn(r, {"update"}), {"dispatcher", "reviewer"}),
    Clause(r.path[1] = "admin", {"reviewer"})>>

\* Reading the role tokens is for an operator, minting and revoking them for a
\* human administrator.
AdminClauses(r) ==
  <<Clause(r.path = <<"admin", "update">> \/ (r.path[1] = "admin" /\ Holds(r, "binaries")),
        {"dispatcher", "reviewer"}),
    Clause(r.path = <<"state", "snapshot">>, AdminReview),
    Clause(r.path = <<"state", "import">>, {"admin"}),
    Clause(r.path = <<"admin", "role-tokens">> /\ Get(r), AdminReview),
    Clause(r.path[1] = "admin" /\ Holds(r, "role-tokens"), {"admin"}),
    Clause(r.path[1] = "admin", {"reviewer"})>>

OperatorClauses(r) ==
  <<Clause(r.path[1] = "secrets", {"reviewer"}),
    Clause(r.path = <<"labels">>, IF Get(r) THEN Observe ELSE {"reviewer"}),
    Clause(r.path[1] \in {"policy", "history"}, Observe),
    Clause(r.path \in {<<"settings">>, <<"settings", "schema">>}, {"observer", "reviewer", "admin"}),
    Clause(Under(r, "settings") /\ Get(r), {"observer", "reviewer", "admin"}),
    Clause(Under(r, "settings") /\ r.path[2] = "auth.id", AdminReview),
    Clause(Under(r, "settings"), {"reviewer"}),
    Clause(r.path = <<"hosts", "roles">>, {"runner", "dispatcher", "reviewer"}),
    Clause(Under(r, "labels"), {"reviewer"})>>

TaskClauses(r) ==
  <<Clause(r.path \in {<<"tasks">>, <<"tasks", "v2">>}, IF Get(r) THEN TaskRead ELSE {"dispatcher"}),
    Clause(Under(r, "tasks") /\ r.path[2] \in {"claim", "claim-loom", "claim-fabric"}, {"runner"}),
    Clause(Under(r, "tasks") /\ EndsIn(r, {"input"}), IF Get(r) THEN {"runner"} ELSE {"dispatcher"}),
    Clause(Under(r, "tasks") /\ Get(r), TaskRead),
    Clause(Under(r, "tasks") /\ EndsIn(r, {"cancel"}), {"dispatcher"}),
    Clause(Under(r, "tasks") /\ EndsIn(r, {"notes"}), {"runner", "dispatcher"}),
    Clause(Under(r, "tasks"), {"runner"})>>

NodeClauses(r) ==
  <<Clause(r.path = <<"runners">>, TaskRead),
    Clause(Under(r, "runners") /\ EndsIn(r, {"drain-by-dispatcher", "undrain-by-dispatcher"}),
        {"dispatcher"}),
    Clause(Under(r, "runners") /\ r.method = "DELETE", {"dispatcher", "reviewer"}),
    Clause(Under(r, "runners"), {"runner"}),
    Clause(r.path = <<"dispatchers", "register">>, {"dispatcher"}),
    Clause(Under(r, "dispatchers") /\ r.method = "DELETE", {"reviewer"}),
    Clause(r.path = <<"dispatchers">>, ObserveDispatch),
    Clause(r.path[1] = "approvals" /\ r.method = "POST", {"approver", "reviewer"}),
    Clause(r.path[1] = "approvals", {"observer", "dispatcher", "approver", "reviewer"}),
    Clause(r.path[1] \in {"agents", "capabilities"}, ObserveDispatch),
    Clause(r.path[1] \in {"cluster", "audit", "cost"} \/ r.path = <<"hosts">>, Observe),
    Clause(r.path = <<"whoami">>, ValidRoles)>>

\* required_roles: a route that no row names is the reviewer's.
RequiredRoles(r) ==
  FirstOf(AccountClauses(r) \o SelfClauses(r) \o AdminClauses(r) \o OperatorClauses(r) \o TaskClauses(r)
            \o NodeClauses(r) \o <<Clause(TRUE, {"reviewer"})>>)

\* The one thing the cluster bearer may do beyond its roles.
LegacyException(r) ==
  r.method = "POST" /\ r.path \in {<<"admin", "role-tokens">>, <<"admin", "role-tokens", "split">>,
                                   <<"admin", "role-tokens", "migrate">>}

IsAuthorized(legacy, roles, r) ==
  (legacy /\ LegacyException(r)) \/ RequiredRoles(r) \cap roles # {}

\* Deletions of a passkey, and what changes who an account is.
RequiresStepUp(r) ==
  \/ Under(r, "accounts") /\ (Holds(r, "membership") \/ EndsIn(r,
       {"disable", "delete", "tombstone", "recovery-codes", "complete", "export", "import"}))
  \/ r.method = "DELETE" /\ Under(r, "auth") /\ r.path[2] = "passkeys"

\* The authorities of /whoami, and the routes their commands call.
AuthorityRoles ==
  [tasks |-> {"dispatcher"}, approvals |-> {"approver", "reviewer"},
   hosts |-> {"dispatcher", "reviewer"}, hub |-> {"reviewer"},
   hostService |-> {"reviewer"}, dr |-> {"reviewer"}, readSecret |-> {"reviewer"},
   connection |-> {"reviewer"}]

AuthoritiesFor(roles) == {a \in DOMAIN AuthorityRoles : AuthorityRoles[a] \cap roles # {}}

\* fabric-client-core's commands: what each authority is for.
CommandRoutes ==
  [tasks |-> {Route("POST", <<"tasks", "v2">>), Route("POST", <<"tasks", "id", "cancel">>)},
   approvals |-> {Route("POST", <<"approvals", "id", "approve">>),
                  Route("POST", <<"approvals", "id", "deny">>)},
   hosts |-> {Route("PUT", <<"labels", "runners", "id">>),
              Route("POST", <<"runners", "id", "drain-by-dispatcher">>)},
   hub |-> {Route("PUT", <<"labels", "hub">>)},
   readSecret |-> {Route("GET", <<"secrets">>)}]

-----------------------------------------------------------------------------
VARIABLE caller   \* what a credential resolved to, and the route it asks for

Caller ==
  [kind : {"token"}, roles : SUBSET ValidRoles, route : Routes] \cup
  [kind : {"legacy"}, roles : {LegacyRoles}, route : Routes] \cup
  [kind : {"human"}, roles : SUBSET Roles, route : Routes]

RouteInit == caller \in Caller
RouteNext == UNCHANGED caller

Reaches == IsAuthorized(caller.kind = "legacy", caller.roles, caller.route)

\* What changes accounts, credentials or the whole state.
Administration ==
  {r \in AdminRoutes : Holds(r, "role-tokens") /\ r.method # "GET"} \cup
  {r \in AccountRoutes : r.method # "GET"} \cup {Route("POST", <<"state", "import">>)}

\* Review: approvals, secrets, settings, labels.
Review ==
  {r \in OperatorRoutes : r.method # "GET"} \cup {Route("GET", <<"secrets">>)} \cup
  {r \in NodeRoutes : r.method = "PUT"}

-----------------------------------------------------------------------------
\* The table, read in its order, keeps what its comments promise: no automation
\* credential administers accounts, tokens or state, the cluster bearer only
\* splits itself up and reviews nothing, an authority a client is told of
\* always opens one of its commands, no route is closed to everyone, and a
\* signed-in human reaches the whole of the self-service.
TableKeepsItsWord ==
  /\ caller.kind = "token" /\ Reaches => caller.route \notin Administration
  /\ caller.kind = "legacy" /\ Reaches =>
       caller.route \notin Review /\ (caller.route \in Administration => LegacyException(caller.route))
  /\ \A a \in AuthoritiesFor(caller.roles) \cap DOMAIN CommandRoutes :
       \E r \in CommandRoutes[a] : RequiredRoles(r) \cap caller.roles # {}
  /\ \A a \in DOMAIN CommandRoutes \ AuthoritiesFor(caller.roles) :
       \A r \in CommandRoutes[a] : RequiredRoles(r) \cap caller.roles = {}
  /\ RequiredRoles(caller.route) # {}
  /\ caller.kind = "human" /\ caller.route \in SelfRoutes /\ caller.roles \ {"runner"} # {} => Reaches
=============================================================================
