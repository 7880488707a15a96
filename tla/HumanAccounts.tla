---------------------------- MODULE HumanAccounts ----------------------------
(***************************************************************************)
(* Human accounts: their status, password, roles and recovery codes, and   *)
(* the administrators' requests that change them (routes/accounts.rs,      *)
(* routes/setup.rs over human_accounts.rs).                                *)
(*                                                                         *)
(* A request is one call[o]: its statements are separate steps, so other   *)
(* requests fall between them.  A statement or a transaction is one step.  *)
(* A handler may be dropped between two of its steps, when the hub stops   *)
(* or the client hangs up.                                                 *)
(*                                                                         *)
(* The `revision` of a request is one its client read earlier; the code    *)
(* compares it with the row in the UPDATE itself.                          *)
(***************************************************************************)
EXTENDS Integers, FiniteSets

CONSTANTS
  Account,      \* account ids
  Name,         \* normalized usernames
  Gone,         \* the username of a tombstone, "deleted-<id>"
  Role,         \* roles a human may hold, "admin" among them
  Code,         \* one-time recovery codes
  Session,      \* session ids
  Manager,     \* bound: requests in flight at once
  Nobody,       \* NULL account id
  Menus,        \* bound: the kinds of request a behaviour is about
  MaxRequests,  \* bound: requests in a behaviour
  Existing       \* the accounts the hub already has when the behaviour begins

AccountStatus == {"absent", "invited", "active", "disabled", "recovery_required",
                  "deletion_pending", "deleted_tombstone"}
Kind == {"bootstrap", "setup", "create", "import", "patch", "enable", "grant",
         "unassign", "disable", "delete", "tombstone", "codes", "recover", "login"}
Password == 0..2    \* 0 is one that validate_password refuses

ASSUME AccountsAssumption ==
  /\ Nobody \notin Account /\ Gone \notin Name /\ "admin" \in Role
  /\ Existing \subseteq Account /\ MaxRequests \in Nat /\ Menus \subseteq SUBSET Kind
  /\ \E f \in [Existing -> Name] : \A a, b \in Existing : f[a] = f[b] => a = b

VARIABLES
  account,     \* human_accounts
  credential,  \* the password row of human_credentials
  membership,  \* human_memberships: the newest row per account and role
  code,        \* human_recovery_codes
  session,     \* human_sessions
  founder,     \* the one row of human_bootstrap_state
  realm,       \* the realm_identity row exists
  call,        \* the requests in flight
  resets,      \* how many passwords each code has replaced
  menu, requests

accountVars == <<account, credential, membership, code, session, founder,
                 realm, call, resets, menu, requests>>

Idle == [kind |-> "idle", at |-> "done", account |-> Nobody, revision |-> 0,
         target |-> "active", name |-> Gone, role |-> "admin", row |-> 0,
         password |-> 0, code |-> Nobody, left |-> 0, rows |-> {}]

AccountRow == [status : AccountStatus, revision : Nat, name : Name \cup {Gone},
               origin : {"none", "founded", "created", "imported"}]
CredentialRow == [state : {"none", "active", "revoked"}, password : Password,
                  outdated : BOOLEAN]
MembershipRow == [row : Nat, live : BOOLEAN]
CodeRow == [owner : Account \cup {Nobody}, durable : BOOLEAN,
            state : {"unissued", "live", "expired", "consumed"}]
SessionRow == [owner : Account \cup {Nobody}, password : Password, live : BOOLEAN]

NoAccount == [status |-> "absent", revision |-> 0, name |-> Gone, origin |-> "none"]
NoCredential == [state |-> "none", password |-> 0, outdated |-> FALSE]
NoMembership == [row |-> 0, live |-> FALSE]
NoCode == [owner |-> Nobody, durable |-> FALSE, state |-> "unissued"]
NoSession == [owner |-> Nobody, password |-> 0, live |-> FALSE]

Exists(a) == a \in Account /\ account[a].status # "absent"
Roles(a) == {r \in Role : membership[a][r].live}

\* The administrators that count: an active account, a live admin membership.
EnabledAdmins == {a \in Account : account[a].status = "active" /\ "admin" \in Roles(a)}

\* A name is free when no row has it; a tombstone gave its own up.
NameFree(n) == \A a \in Account : account[a].name # n

-----------------------------------------------------------------------------
(* A hub starts on an empty store, or on one where the accounts of Existing *)
(* are active administrators whose password hash may be of an older make.  *)
FreshStore ==
  /\ account = [a \in Account |-> NoAccount]
  /\ credential = [a \in Account |-> NoCredential]
  /\ membership = [a \in Account |-> [r \in Role |-> NoMembership]]
  /\ code = [c \in Code |-> NoCode]
  /\ founder = Nobody
  /\ realm = FALSE

NameOf == CHOOSE f \in [Existing -> Name] : \A a, b \in Existing : f[a] = f[b] => a = b

RunningStore ==
  /\ account = [a \in Account |-> IF a \in Existing
       THEN [NoAccount EXCEPT !.status = "active", !.name = NameOf[a], !.origin = "created"]
       ELSE NoAccount]
  /\ \E outdated \in BOOLEAN :
       credential = [a \in Account |-> IF a \in Existing
         THEN [state |-> "active", password |-> 1, outdated |-> outdated] ELSE NoCredential]
  /\ membership = [a \in Account |-> [r \in Role |->
       IF a \in Existing /\ r = "admin" THEN [row |-> 1, live |-> TRUE] ELSE NoMembership]]
  /\ \E a \in Existing, c \in Code :
       code = [x \in Code |-> IF x = c
                 THEN [owner |-> a, durable |-> TRUE, state |-> "live"] ELSE NoCode]
  /\ founder \in Existing
  /\ realm = TRUE

AccountsInit ==
  /\ menu \in Menus
  /\ IF menu \cap {"bootstrap", "setup"} # {} THEN FreshStore ELSE RunningStore
  /\ session = [s \in Session |-> NoSession]
  /\ call = [o \in Manager |-> Idle]
  /\ resets = [c \in Code |-> 0]
  /\ requests = 0

-----------------------------------------------------------------------------
At(o, kinds, label) == call[o].kind \in kinds /\ call[o].at = label
Go(o, label) == call' = [call EXCEPT ![o].at = label]
End(o) == call' = [call EXCEPT ![o] = Idle]

\* Where the handler of each kind begins.
Entry == [bootstrap |-> "found", setup |-> "check", create |-> "insert",
          import |-> "resolve", patch |-> "read", enable |-> "read",
          grant |-> "read", unassign |-> "read", disable |-> "write",
          delete |-> "write", tombstone |-> "write", codes |-> "read",
          recover |-> "read", login |-> "read"]

\* What a request of each kind carries: an account, and the revision of it
\* that the client last saw, a role, a password, a code or a username.
Request(k) ==
  [account : Account,
   revision : IF k \in {"patch", "enable", "disable", "delete", "tombstone"}
                THEN 0..MaxRequests ELSE {0},
   role : IF k \in {"create", "import", "grant", "unassign"} THEN Role ELSE {"admin"},
   password : IF k \in {"recover", "login"} THEN Password ELSE {1},
   code : IF k = "recover" THEN Code ELSE {Nobody},
   target : IF k = "patch" THEN {"active", "recovery_required"} ELSE {"active"},
   name : IF k \in {"bootstrap", "setup", "create", "import"} THEN Name ELSE {Gone}]

\* A client sends a request of the menu.
Ask(o, k) ==
  /\ call[o] = Idle
  /\ requests < MaxRequests
  /\ \E q \in Request(k) :
       /\ q.revision <= account[q.account].revision
       /\ call' = [call EXCEPT ![o] =
            [kind |-> k, at |-> Entry[k], row |-> 0, rows |-> {},
             left |-> IF k = "import" THEN 2 ELSE 1,
             account |-> q.account, revision |-> q.revision, role |-> q.role,
             password |-> q.password, code |-> q.code, target |-> q.target,
             name |-> q.name]]
  /\ requests' = requests + 1
  /\ UNCHANGED <<account, credential, membership, code, session, founder, realm, resets, menu>>

\* The hub stops or the client hangs up: the rest of the handler never runs.
Drop(o) ==
  /\ call[o] # Idle
  /\ End(o)
  /\ UNCHANGED <<account, credential, membership, code, session, founder, realm,
                 resets, menu, requests>>

\* An issued code that has a lifetime reaches its end.
Expire(c) ==
  /\ code[c].state = "live" /\ ~code[c].durable
  /\ code' = [code EXCEPT ![c].state = "expired"]
  /\ UNCHANGED <<account, credential, membership, session, founder, realm, call,
                 resets, menu, requests>>

-----------------------------------------------------------------------------
(* Founding and creating accounts.                                         *)
Fresh == CHOOSE a \in Account : account[a].status = "absent"
Room == \E a \in Account : account[a].status = "absent"

\* The INSERTs of one account with its first membership, one transaction.
Insert(a, n, status, origin, r, password) ==
  /\ account' = [account EXCEPT ![a] =
       [status |-> status, revision |-> 0, name |-> n, origin |-> origin]]
  /\ credential' = [credential EXCEPT ![a] =
       IF password = 0 THEN NoCredential
       ELSE [state |-> "active", password |-> password, outdated |-> FALSE]]
  /\ membership' = [membership EXCEPT ![a][r] = [row |-> 1, live |-> TRUE]]

\* Mutant: the founder's row is no singleton.
RowsFree_Realm(kind) == ~realm

\* The singletons the founding transaction inserts are not taken.
RowsFree(kind) == founder = Nobody /\ (kind = "setup" => ~realm)

\* setup_complete looks before it pays for the hash; bootstrap does not.
SetupCheck(o) ==
  /\ At(o, {"setup"}, "check")
  /\ IF founder = Nobody /\ ~realm THEN Go(o, "found") ELSE End(o)
  /\ UNCHANGED <<account, credential, membership, code, session, founder, realm,
                 resets, menu, requests>>

\* What bootstrap and setup insert, all of it or nothing: the founder's
\* singleton row, the account, its password and its admin membership.
FoundAccount(o) ==
  /\ Room
  /\ Insert(Fresh, call[o].name, "active", "founded", "admin", 1)
  /\ founder' = IF founder = Nobody THEN Fresh ELSE founder

\* POST /auth/bootstrap.
Bootstrap(o) ==
  /\ At(o, {"bootstrap"}, "found")
  /\ IF RowsFree("bootstrap") /\ NameFree(call[o].name)
       THEN FoundAccount(o) ELSE UNCHANGED <<account, credential, membership, founder>>
  /\ End(o)
  /\ UNCHANGED <<code, session, realm, resets, menu, requests>>

\* complete_genesis adds the realm's row and the founder's durable codes.
GenesisRows(o) ==
  /\ FoundAccount(o)
  /\ realm' = TRUE
  /\ code' = [c \in Code |-> IF code[c].state = "unissued"
                THEN [owner |-> Fresh, durable |-> TRUE, state |-> "live"] ELSE code[c]]

\* POST /setup/complete goes on to sign the founder in.
Genesis(o) ==
  /\ At(o, {"setup"}, "found")
  /\ IF RowsFree("setup") /\ NameFree(call[o].name)
       THEN /\ GenesisRows(o)
            /\ call' = [call EXCEPT ![o] = [Idle EXCEPT !.kind = "login",
                   !.at = "read", !.account = Fresh, !.password = 1]]
       ELSE /\ UNCHANGED <<account, credential, membership, code, founder, realm>>
            /\ End(o)
  /\ UNCHANGED <<session, resets, menu, requests>>

\* resolve_import_row: no admin role by import, and a known name is skipped.
Resolve(o) ==
  /\ At(o, {"import"}, "resolve")
  /\ IF call[o].role # "admin" /\ NameFree(call[o].name) THEN Go(o, "insert") ELSE End(o)
  /\ UNCHANGED <<account, credential, membership, code, session, founder, realm,
                 resets, menu, requests>>

\* POST /accounts: create_account_with_password.
Create(o) ==
  /\ At(o, {"create"}, "insert")
  /\ IF NameFree(call[o].name)
       THEN Room /\ Insert(Fresh, call[o].name, "active", "created", call[o].role, 1)
       ELSE UNCHANGED <<account, credential, membership>>
  /\ End(o)
  /\ UNCHANGED <<code, session, founder, realm, resets, menu, requests>>

\* create_invited_account: no password; the import goes on to mint codes.
Invite(o) ==
  /\ At(o, {"import"}, "insert")
  /\ IF NameFree(call[o].name)
       THEN /\ Room
            /\ Insert(Fresh, call[o].name, "invited", "imported", call[o].role, 0)
            /\ call' = [call EXCEPT ![o].at = "mint", ![o].account = Fresh]
       ELSE UNCHANGED <<account, credential, membership>> /\ End(o)
  /\ UNCHANGED <<code, session, founder, realm, resets, menu, requests>>

-----------------------------------------------------------------------------
(* Roles.                                                                  *)
\* POST and DELETE .../membership first read the account; the latter also
\* picks the membership row that it will revoke.
GrantRead(o) ==
  /\ At(o, {"grant"}, "read")
  /\ IF Exists(call[o].account) THEN Go(o, "write") ELSE End(o)
  /\ UNCHANGED <<account, credential, membership, code, session, founder, realm,
                 resets, menu, requests>>

UnassignRead(o) ==
  /\ At(o, {"unassign"}, "read")
  /\ LET held == membership[call[o].account][call[o].role] IN
     IF held.live THEN call' = [call EXCEPT ![o].at = "write", ![o].row = held.row]
                  ELSE End(o)
  /\ UNCHANGED <<account, credential, membership, code, session, founder, realm,
                 resets, menu, requests>>

\* The INSERT; the partial unique index refuses a second live row of a role.
Grant(o) ==
  /\ At(o, {"grant"}, "write")
  /\ LET a == call[o].account  r == call[o].role IN
     membership' = IF membership[a][r].live THEN membership
       ELSE [membership EXCEPT ![a][r] = [row |-> @.row + 1, live |-> TRUE]]
  /\ End(o)
  /\ UNCHANGED <<account, credential, code, session, founder, realm, resets, menu, requests>>

\* Mutant: the subquery counts this administrator too.
OthersHold_Self(a) == EnabledAdmins # {}

\* The correlated subquery of the guarded UPDATEs: an enabled administrator
\* other than this account exists.
OthersHold(a) == EnabledAdmins \ {a} # {}

\* The UPDATE of revoke_membership_protecting_last_admin.
Unassign(o) ==
  /\ At(o, {"unassign"}, "write")
  /\ LET a == call[o].account  r == call[o].role IN
     membership' =
       IF /\ membership[a][r] = [row |-> call[o].row, live |-> TRUE]
          /\ r = "admin" => OthersHold(a)
         THEN [membership EXCEPT ![a][r].live = FALSE] ELSE membership
  /\ End(o)
  /\ UNCHANGED <<account, credential, code, session, founder, realm, resets, menu, requests>>

-----------------------------------------------------------------------------
(* Closing an account: the guarded UPDATE, then the clean-up, row by row.  *)
SetStatus(a, status) ==
  account' = [account EXCEPT ![a].status = status, ![a].revision = @ + 1,
                ![a].name = IF status = "deleted_tombstone" THEN Gone ELSE @]

LastAdminSafe(a) == "admin" \in Roles(a) => OthersHold(a)

\* The UPDATE of a closing request: either the row still has the revision the
\* client saw and meets the conditions, or nothing is written.
CloseIf(o, conditions, status) ==
  /\ IF Exists(call[o].account) /\ account[call[o].account].revision = call[o].revision /\ conditions
       THEN SetStatus(call[o].account, status) /\ Go(o, "sever")
       ELSE UNCHANGED account /\ End(o)
  /\ UNCHANGED <<credential, membership, code, session, founder, realm, resets, menu, requests>>

Disable(o) ==
  /\ At(o, {"disable"}, "write")
  /\ CloseIf(o, LastAdminSafe(call[o].account), "disabled")

Delete(o) ==
  /\ At(o, {"delete"}, "write")
  /\ CloseIf(o, /\ account[call[o].account].status \notin {"deletion_pending", "deleted_tombstone"}
                /\ LastAdminSafe(call[o].account), "deletion_pending")

Tombstone(o) ==
  /\ At(o, {"tombstone"}, "write")
  /\ CloseIf(o, account[call[o].account].status = "deletion_pending", "deleted_tombstone")

\* revoke_all_for_account.
Sever(o) ==
  /\ At(o, {"disable", "delete", "tombstone", "recover"}, "sever")
  /\ session' = [s \in Session |-> IF session[s].owner = call[o].account
                    THEN [session[s] EXCEPT !.live = FALSE] ELSE session[s]]
  /\ CASE call[o].kind = "tombstone" -> Go(o, "credentials")
       [] call[o].kind = "recover" -> Go(o, "status")
       [] OTHER -> End(o)
  /\ UNCHANGED <<account, credential, membership, code, founder, realm, resets, menu, requests>>

\* The tombstone's loops: over the active credentials, then over the
\* memberships that were live when they were listed.
RevokeCredentials(o) ==
  /\ At(o, {"tombstone"}, "credentials")
  /\ LET a == call[o].account IN
     /\ credential' = [credential EXCEPT ![a].state = IF @ = "active" THEN "revoked" ELSE @]
     /\ call' = [call EXCEPT ![o].at = "memberships",
                   ![o].rows = {<<r, membership[a][r].row>> : r \in Roles(a)}]
  /\ UNCHANGED <<account, membership, code, session, founder, realm, resets, menu, requests>>

RevokeMemberships(o) ==
  /\ At(o, {"tombstone"}, "memberships")
  /\ IF call[o].rows = {} THEN End(o) /\ UNCHANGED membership
     ELSE \E listed \in call[o].rows :
            LET a == call[o].account  r == listed[1] IN
            /\ membership' = [membership EXCEPT ![a][r].live = @ /\ membership[a][r].row # listed[2]]
            /\ call' = [call EXCEPT ![o].rows = @ \ {listed}]
  /\ UNCHANGED <<account, credential, code, session, founder, realm, resets, menu, requests>>

-----------------------------------------------------------------------------
(* PATCH, enable and recovery: the status is read, then compared by the    *)
(* revision when it is written.                                            *)
\* transition_allowed, and the one transition of the enable route.
Allowed == [patch |-> {<<"recovery_required", "active">>, <<"active", "recovery_required">>},
            enable |-> {<<"disabled", "active">>}]

MayReach(k, o) == <<account[call[o].account].status, call[o].target>> \in Allowed[k]

PatchRead(o) ==
  /\ At(o, {"patch"}, "read")
  /\ IF MayReach("patch", o) THEN Go(o, "status") ELSE End(o)
  /\ UNCHANGED <<account, credential, membership, code, session, founder, realm,
                 resets, menu, requests>>

EnableRead(o) ==
  /\ At(o, {"enable"}, "read")
  /\ IF MayReach("enable", o) THEN Go(o, "status") ELSE End(o)
  /\ UNCHANGED <<account, credential, membership, code, session, founder, realm,
                 resets, menu, requests>>

SameRevision(o) == account[call[o].account].revision = call[o].revision

WriteStatus(o) ==
  /\ At(o, {"patch", "enable", "recover"}, "status")
  /\ IF SameRevision(o) THEN SetStatus(call[o].account, call[o].target) ELSE UNCHANGED account
  /\ End(o)
  /\ UNCHANGED <<credential, membership, code, session, founder, realm, resets, menu, requests>>

-----------------------------------------------------------------------------
(* Recovery codes.                                                         *)
ReadForCodes(o) ==
  /\ At(o, {"codes"}, "read")
  /\ IF Exists(call[o].account) THEN Go(o, "mint") ELSE End(o)
  /\ UNCHANGED <<account, credential, membership, code, session, founder, realm,
                 resets, menu, requests>>

Minted(o) == [owner |-> call[o].account, durable |-> FALSE, state |-> "live"]

\* generate_recovery_codes: one INSERT per code, each its own statement.
Mint(o) ==
  /\ At(o, {"codes", "import"}, "mint")
  /\ \E c \in Code : code[c].state = "unissued" /\ code' = [code EXCEPT ![c] = Minted(o)]
  /\ IF call[o].left = 1 THEN End(o) ELSE call' = [call EXCEPT ![o].left = @ - 1]
  /\ UNCHANGED <<account, credential, membership, session, founder, realm, resets, menu, requests>>

\* complete_recovery_with_code, statement by statement.
RecoverRead(o) ==
  /\ At(o, {"recover"}, "read")
  /\ LET a == call[o].account IN
     IF account[a].status = "recovery_required"
       THEN call' = [call EXCEPT ![o].at = "spend", ![o].revision = account[a].revision]
       ELSE End(o)
  /\ UNCHANGED <<account, credential, membership, code, session, founder, realm,
                 resets, menu, requests>>

\* The conditions on the code's row: this account's, unused and unexpired.
Usable(c, a) == code[c].owner = a /\ code[c].state = "live"

\* The code is spent before the new password is looked at.
Spend(o) ==
  /\ At(o, {"recover"}, "spend")
  /\ LET c == call[o].code IN
     IF Usable(c, call[o].account)
       THEN /\ code' = [code EXCEPT ![c].state = "consumed"]
            /\ IF call[o].password = 0 THEN End(o) ELSE Go(o, "credential")
       ELSE UNCHANGED code /\ End(o)
  /\ UNCHANGED <<account, credential, membership, session, founder, realm, resets, menu, requests>>

FindCredential(o) ==
  /\ At(o, {"recover"}, "credential")
  /\ IF credential[call[o].account].state = "active" THEN Go(o, "reset") ELSE End(o)
  /\ UNCHANGED <<account, credential, membership, code, session, founder, realm,
                 resets, menu, requests>>

\* rehash_secret writes by credential id alone, whatever the row holds now.
RehashSecret(a, password) ==
  credential' = [credential EXCEPT ![a].password = password, ![a].outdated = FALSE]

Reset(o) ==
  /\ At(o, {"recover"}, "reset")
  /\ RehashSecret(call[o].account, call[o].password)
  /\ resets' = [resets EXCEPT ![call[o].code] = @ + 1]
  /\ Go(o, "sever")
  /\ UNCHANGED <<account, membership, code, session, founder, realm, menu, requests>>

-----------------------------------------------------------------------------
(* Signing in with a password (try_authenticate).                          *)
LoginRead(o) ==
  /\ At(o, {"login"}, "read")
  /\ IF account[call[o].account].status = "active" THEN Go(o, "verify") ELSE End(o)
  /\ UNCHANGED <<account, credential, membership, code, session, founder, realm,
                 resets, menu, requests>>

Verify(o) ==
  /\ At(o, {"login"}, "verify")
  /\ LET held == credential[call[o].account] IN
     IF held.state # "active" \/ held.password # call[o].password THEN End(o)
     ELSE Go(o, IF held.outdated THEN "rehash" ELSE "issue")
  /\ UNCHANGED <<account, credential, membership, code, session, founder, realm,
                 resets, menu, requests>>

\* The old password in the new hash; a failure of the write is ignored.
Rehash(o) ==
  /\ At(o, {"login"}, "rehash")
  /\ RehashSecret(call[o].account, call[o].password) \/ UNCHANGED credential
  /\ Go(o, "issue")
  /\ UNCHANGED <<account, membership, code, session, founder, realm, resets, menu, requests>>

\* The session row is inserted without another look at the account.
Issue(o) ==
  /\ At(o, {"login"}, "issue")
  /\ \E s \in Session :
       /\ session[s] = NoSession
       /\ session' = [session EXCEPT ![s] =
            [owner |-> call[o].account, password |-> call[o].password, live |-> TRUE]]
  /\ End(o)
  /\ UNCHANGED <<account, credential, membership, code, founder, realm, resets, menu, requests>>

-----------------------------------------------------------------------------
Step(o) ==
  \/ \E k \in menu : Ask(o, k)
  \/ Drop(o)
  \/ SetupCheck(o) \/ Bootstrap(o) \/ Genesis(o)
  \/ Resolve(o) \/ Create(o) \/ Invite(o)
  \/ GrantRead(o) \/ UnassignRead(o) \/ Grant(o) \/ Unassign(o)
  \/ Disable(o) \/ Delete(o) \/ Tombstone(o)
  \/ Sever(o) \/ RevokeCredentials(o) \/ RevokeMemberships(o)
  \/ PatchRead(o) \/ EnableRead(o) \/ WriteStatus(o) \/ ReadForCodes(o) \/ Mint(o)
  \/ RecoverRead(o) \/ Spend(o) \/ FindCredential(o) \/ Reset(o)
  \/ LoginRead(o) \/ Verify(o) \/ Rehash(o) \/ Issue(o)

AccountsNext == (\E o \in Manager : Step(o)) \/ (\E c \in Code : Expire(c))
AccountsSpec == AccountsInit /\ [][AccountsNext]_accountVars

-----------------------------------------------------------------------------
\* Every row has its columns, and a live code or session names its account.
AccountsTypeOK ==
  /\ account \in [Account -> AccountRow]
  /\ credential \in [Account -> CredentialRow]
  /\ membership \in [Account -> [Role -> MembershipRow]]
  /\ code \in [Code -> CodeRow]
  /\ session \in [Session -> SessionRow]
  /\ \A c \in Code : code[c].state # "unissued" => Exists(code[c].owner)
  /\ \A s \in Session : session[s].live => Exists(session[s].owner)
  /\ founder \in Account \cup {Nobody} /\ realm \in BOOLEAN
  /\ \A o \in Manager : /\ DOMAIN call[o] = DOMAIN Idle
                         /\ call[o].kind \in Kind \cup {"idle"}
                         /\ call[o].account \in Account \cup {Nobody}
  /\ resets \in [Code -> Nat] /\ requests \in 0..MaxRequests

\* However many bootstrap and setup requests race, on one surface or on
\* both, one founding account comes of it (human_bootstrap_state).
OneFounder == \A a, b \in Account :
  account[a].origin = "founded" /\ account[b].origin = "founded" => a = b

\* The realm loses its last enabled administrator only when PATCH sends that
\* administrator into recovery, or when a deletion still cleaning up revokes
\* the role of an account that was disabled and enabled meanwhile: no race of
\* disables, deletions and role revocations does it.
AdminsLostOnlyByRecovery ==
  [][EnabledAdmins # {} /\ EnabledAdmins' = {}
       => \E o \in Manager :
            \/ At(o, {"patch"}, "status") /\ call[o].target = "recovery_required"
            \/ At(o, {"tombstone"}, "memberships")]_accountVars

\* A status is written only over the one its handler looked at: nothing that
\* happened between the read and the write is undone, so an account that was
\* closed while it was being recovered, enabled or patched stays closed.
StatusOverTheOneRead ==
  [][\A a \in Account :
       account[a].status # account'[a].status /\ Exists(a)
         => \E o \in Manager :
              /\ call[o].account = a /\ call'[o].at \in {"done", "sever"}
              /\ \/ call[o].kind = "patch" /\ <<account[a].status, account'[a].status>> \in Allowed.patch
                 \/ call[o].kind = "enable" /\ <<account[a].status, account'[a].status>> \in Allowed.enable
                 \/ call[o].kind = "recover" /\ account[a].status = "recovery_required"
                 \/ call[o].kind = "disable" /\ account'[a].status = "disabled"
                 \/ call[o].kind = "delete" /\ account'[a].status = "deletion_pending"
                 \/ call[o].kind = "tombstone" /\ account[a].status = "deletion_pending"]_accountVars

\* A recovery code replaces a password at most once, also when two requests
\* present it at the same time.
CodeOnce == \A c \in Code : resets[c] <= 1

\* "The hub must reject any mutation that would leave the realm with zero
\* enabled, credentialed administrators" (human_accounts.rs).
AdminRemains == founder # Nobody => EnabledAdmins # {}

\* "Step two: irreversible" (complete_deletion): a tombstone stays one.
TombstoneFinal ==
  [][\A a \in Account : account[a].status = "deleted_tombstone"
       => account'[a].status = "deleted_tombstone"]_accountVars

=============================================================================
