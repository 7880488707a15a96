------------------------------- MODULE AuthGate -------------------------------
(***************************************************************************)
(* The bearer gate of the hub (auth.rs).  A request is resolved in several *)
(* reads - its session, the account, the memberships, or else its role     *)
(* token - while administrators revoke, disable and unassign, and give     *)
(* accounts and roles back.                                                *)
(*                                                                         *)
(* A secret is hashed wherever it is compared: it is its token here.  A    *)
(* signed request that fails its headers, its clock or its signature ends  *)
(* there; its nonce is SignedRequests', which roles a route requires is    *)
(* RouteRoles'.                                                            *)
(***************************************************************************)
CONSTANTS
  Credential, \* role tokens
  Session,    \* human sessions, all of one account
  Visit       \* bound: requests in the gate at once

VARIABLES
  revoked,    \* the tokens whose revoked_at is set
  session,    \* human_sessions: revoked, expired, bound to a key, freshly elevated
  account,    \* may the account authenticate normally
  member,     \* does it hold a role that the routes require
  visit       \* the requests in the gate

accessVars == <<revoked, session, account, member, visit>>
rightVars == <<revoked, session, account, member>>

NewVisit(at, by, token, for, up, late) ==
  [at |-> at, by |-> by, token |-> token, session |-> for, stepUp |-> up, fresh |-> FALSE, late |-> late]
NoVisit == NewVisit("off", "none", {}, {}, FALSE, {})

AccessInit ==
  /\ revoked = {}
  /\ session \in [Session -> [revoked : {FALSE}, expired : {FALSE}, fresh : {FALSE}, keyed : BOOLEAN]]
  /\ account = TRUE /\ member = TRUE
  /\ visit = [v \in Visit |-> NoVisit]

-----------------------------------------------------------------------------
(* require_bearer.  late holds what was already taken away when the        *)
(* request arrived.                                                        *)

Arrival(v, record) ==
  /\ visit[v] = NoVisit
  /\ visit' = [visit EXCEPT ![v] = record]
  /\ UNCHANGED rightVars

Gone(s) ==
  (IF session[s].revoked THEN {"session"} ELSE {}) \cup
  (IF account THEN {} ELSE {"account"}) \cup (IF member THEN {} ELSE {"role"})

\* The signed header takes precedence; without it the bearer is tried as a
\* session's access secret first.
ArriveHuman(v) ==
  \E s \in Session, by \in {"signed", "bearer"}, up \in BOOLEAN :
    Arrival(v, NewVisit("session", by, {}, {s}, up, Gone(s)))

ArriveToken(v) ==
  \E t \in Credential :
    Arrival(v, NewVisit("session", "bearer", {t}, {}, FALSE, IF t \in revoked THEN {"token"} ELSE {}))

Step(v, at) == visit' = [visit EXCEPT ![v].at = at]
Leave(v) == visit' = [visit EXCEPT ![v] = NoVisit]
Reading(v, at) == visit[v].at = at /\ UNCHANGED rightVars

\* validate_by_access_hash and get: what is not a live session falls through to
\* the tokens when it is a bearer, and ends the request when it is signed.
SignedUsable_Always(s) == TRUE
SignedUsable(s) == ~session[s].revoked /\ session[s].keyed

FindSession(v) ==
  /\ Reading(v, "session")
  /\ \/ \E s \in visit[v].session :
          /\ IF visit[v].by = "signed" THEN SignedUsable(s) ELSE ~session[s].revoked
          /\ visit' = [visit EXCEPT ![v].at = "account", ![v].fresh = session[s].fresh]
     \/ visit[v].by = "bearer" /\ Step(v, "token")
          /\ \A s \in visit[v].session : session[s].revoked
     \/ Leave(v)

\* role_token_by_hash: WHERE revoked_at IS NULL.
LiveToken(t) == t \notin revoked

FindToken(v) ==
  /\ Reading(v, "token")
  /\ \/ \E t \in visit[v].token : LiveToken(t) /\ Step(v, "gate")
     \/ Leave(v)

\* authenticate_validated_session: the session must not be over, and then the
\* account and its memberships are read.
FindAccount(v) ==
  /\ Reading(v, "account")
  /\ \/ account /\ (\A s \in visit[v].session : ~session[s].expired) /\ Step(v, "roles")
     \/ Leave(v)

FindRoles(v) ==
  /\ Reading(v, "roles")
  /\ \/ member /\ Step(v, "gate")
     \/ Leave(v)

StepUpKept(v) == visit[v].session # {} /\ visit[v].stepUp => visit[v].fresh

\* is_authorized was decided with the roles; a human's step-up is looked at last.
Admit(v) ==
  /\ Reading(v, "gate")
  /\ IF StepUpKept(v) THEN Step(v, "in") ELSE Leave(v)

Finish(v) == Reading(v, "in") /\ Leave(v)

-----------------------------------------------------------------------------
(* What takes credentials away, and gives them.                            *)

\* What a request may be charged with goes when it is given back.
Forgive(thing) == visit' = [v \in Visit |-> [visit[v] EXCEPT !.late = @ \ {thing}]]

RevokeSession(s) ==
  /\ ~session[s].revoked
  /\ session' = [session EXCEPT ![s].revoked = TRUE]
  /\ UNCHANGED <<revoked, account, member, visit>>

ExpireSession(s) ==
  /\ ~session[s].expired
  /\ session' = [session EXCEPT ![s].expired = TRUE]
  /\ UNCHANGED <<revoked, account, member, visit>>

\* step_up_verify marks the row; its window then closes for everyone who reads it.
StepUpDone(s) ==
  /\ ~session[s].revoked /\ ~session[s].fresh
  /\ session' = [session EXCEPT ![s].fresh = TRUE]
  /\ UNCHANGED <<revoked, account, member, visit>>

StepUpOver(s) ==
  /\ session[s].fresh
  /\ session' = [session EXCEPT ![s].fresh = FALSE]
  /\ visit' = [v \in Visit |-> IF s \in visit[v].session
                               THEN [visit[v] EXCEPT !.fresh = FALSE] ELSE visit[v]]
  /\ UNCHANGED <<revoked, account, member>>

\* disable_account and enable_account, by their effect on the gate.
SetAccount(active) ==
  /\ account # active /\ account' = active
  /\ IF active THEN Forgive("account") ELSE UNCHANGED visit
  /\ UNCHANGED <<revoked, session, member>>

SetMembership(granted) ==
  /\ member # granted /\ member' = granted
  /\ IF granted THEN Forgive("role") ELSE UNCHANGED visit
  /\ UNCHANGED <<revoked, session, account>>

RevokeCredential(t) ==
  /\ t \notin revoked
  /\ revoked' = revoked \cup {t}
  /\ UNCHANGED <<session, account, member, visit>>

AccessNext ==
  \/ \E v \in Visit : ArriveHuman(v) \/ ArriveToken(v) \/ FindSession(v) \/ FindToken(v)
                        \/ FindAccount(v) \/ FindRoles(v) \/ Admit(v) \/ Finish(v)
  \/ \E s \in Session : RevokeSession(s) \/ ExpireSession(s) \/ StepUpDone(s) \/ StepUpOver(s)
  \/ \E b \in BOOLEAN : SetAccount(b) \/ SetMembership(b)
  \/ \E t \in Credential : RevokeCredential(t)

AccessSpec == AccessInit /\ [][AccessNext]_accessVars

-----------------------------------------------------------------------------
\* A request that arrived after its token or session was revoked, its account
\* disabled or its role unassigned reaches no handler, unless the account or
\* the role was given back meanwhile.
TakenAwayStaysOut == \A v \in Visit : visit[v].at = "in" => visit[v].late = {}
=============================================================================
