------------------------------ MODULE RoleTokens ------------------------------
(***************************************************************************)
(* Role tokens (routes/admin.rs over the role_tokens table).  Issuing one, *)
(* splitting the cluster bearer into one per role, and migrating a bearer  *)
(* somebody holds are several store calls each: the rows, an audit event,  *)
(* and, when that fails, undoing the rows.  Any call may fail with or      *)
(* without its effect, the answer may be lost, and the hub may stop.       *)
(***************************************************************************)
EXTENDS Integers, Sequences

CONSTANTS
  Token,      \* role tokens that may come to be
  Desk,       \* bound: token administration requests at once
  SplitSize   \* tokens of one split: one per role in VALID_ROLES (5)

ASSUME SplitAssumption == SplitSize \in Nat \ {0}

VARIABLES
  tokens,     \* role_tokens: "none", "live" or "revoked"
  brought,    \* tokens that somebody holds who asks for their migration
  recorded,   \* tokens whose issue is in the audit log
  lapsed,     \* history: tokens whose insert's answer or undoing was lost
  desk        \* the administration requests

tokenVars == <<tokens, brought, recorded, lapsed, desk>>

NewDesk(at, kind) == [at |-> at, kind |-> kind, made |-> <<>>, undo |-> <<>>]
NoDesk == NewDesk("off", "issue")

TokensInit ==
  /\ tokens = [t \in Token |-> "none"]
  /\ brought = {} /\ recorded = {} /\ lapsed = {}
  /\ desk = [d \in Desk |-> NoDesk]

-----------------------------------------------------------------------------
Spare == {t \in Token \ brought : tokens[t] = "none"}
\* Random ids: which of the spare ones it is tells nothing.
NextToken == IF Spare = {} THEN {} ELSE {CHOOSE t \in Spare : TRUE}
Wanted(kind) == IF kind = "split" THEN SplitSize ELSE 1

DeskStep(d, at) == desk' = [desk EXCEPT ![d].at = at]
Close(d) == desk' = [desk EXCEPT ![d] = NoDesk]
At(d, at) == desk[d].at = at

\* A migrated token is one its owner already holds.
Ask(d, kind) ==
  /\ At(d, "off") /\ UNCHANGED <<tokens, recorded, lapsed>>
  /\ desk' = [desk EXCEPT ![d] = NewDesk("create", kind)]
  /\ IF kind = "migrate" THEN \E t \in NextToken : brought' = brought \cup {t} ELSE UNCHANGED brought

MayCreate(d) ==
  IF desk[d].kind = "migrate" THEN {t \in brought : tokens[t] = "none"} ELSE NextToken

\* create_role_token, for each token of a split in turn: the INSERT, and the
\* SELECT behind it.
Create(d) ==
  /\ At(d, "create") /\ UNCHANGED <<brought, recorded>>
  /\ \E t \in MayCreate(d) :
       \/ /\ tokens' = [tokens EXCEPT ![t] = "live"] /\ UNCHANGED lapsed
          /\ desk' = [desk EXCEPT ![d].made = Append(@, t), ![d].at =
                IF Len(desk[d].made) + 1 < Wanted(desk[d].kind) THEN "create" ELSE "audit"]
       \/ /\ tokens' \in {tokens, [tokens EXCEPT ![t] = "live"]} /\ lapsed' = lapsed \cup {t}
          /\ desk' = [desk EXCEPT ![d].at = "undo", ![d].undo = desk[d].made]

MadeBy(d) == {desk[d].made[i] : i \in DOMAIN desk[d].made}
Audited(d) == recorded \cup MadeBy(d)

AuditFailure_Ignored == "show"
AuditFailure == "undo"

\* The audit event comes before the values are shown; without it the tokens are
\* revoked again.
Record(d) ==
  /\ At(d, "audit") /\ UNCHANGED <<tokens, brought, lapsed>>
  /\ \/ recorded' = Audited(d) /\ DeskStep(d, "show")
     \/ /\ recorded' \in {recorded, Audited(d)}
        /\ desk' = [desk EXCEPT ![d].at = AuditFailure, ![d].undo = desk[d].made]

\* The answer, which may be lost on its way.
Show(d) ==
  /\ At(d, "show") /\ Close(d)
  /\ UNCHANGED <<tokens, brought, recorded, lapsed>>

\* Best effort, one by one: a revoke that fails is not repeated.
Undo(d) ==
  /\ At(d, "undo") /\ UNCHANGED <<brought, recorded>>
  /\ IF desk[d].undo = <<>> THEN Close(d) /\ UNCHANGED <<tokens, lapsed>>
     ELSE /\ desk' = [desk EXCEPT ![d].undo = Tail(@)]
          /\ \/ tokens' = [tokens EXCEPT ![Head(desk[d].undo)] = "revoked"] /\ UNCHANGED lapsed
             \/ UNCHANGED tokens /\ lapsed' = lapsed \cup {Head(desk[d].undo)}

\* DELETE /admin/role-tokens/{id}: the row goes before the audit event, and a
\* failed event leaves it gone.
RevokeToken(t) ==
  /\ tokens[t] = "live"
  /\ tokens' = [tokens EXCEPT ![t] = "revoked"]
  /\ UNCHANGED <<brought, recorded, lapsed, desk>>

\* The hub stops: what was under way is gone.
HubStops ==
  /\ desk' = [d \in Desk |-> NoDesk]
  /\ lapsed' = lapsed \cup UNION {MadeBy(d) : d \in Desk}
  /\ UNCHANGED <<tokens, brought, recorded>>

TokensNext ==
  \/ \E d \in Desk : \/ \E kind \in {"issue", "split", "migrate"} : Ask(d, kind)
                     \/ Create(d) \/ Record(d) \/ Show(d) \/ Undo(d)
  \/ \E t \in Token : RevokeToken(t)
  \/ HubStops

TokensSpec == TokensInit /\ [][TokensNext]_tokenVars

-----------------------------------------------------------------------------
\* Whatever fails or stops between creating, auditing and answering: no answer tells
\* of a token whose issue is not in the audit log, and a live token that is
\* not there is one a request is still at work on, or one whose insert reported an
\* error, whose undoing failed, or whose request the hub's stop cut short.
AuditedOrUndone ==
  /\ \A d \in Desk : At(d, "show") => MadeBy(d) \subseteq recorded
  /\ \A t \in Token : tokens[t] = "live" /\ t \notin recorded =>
       t \in lapsed \/ \E d \in Desk : t \in MadeBy(d)
=============================================================================
