----------------------------- MODULE People_proofs -----------------------------
(***************************************************************************)
(* Proofs about human accounts and their sessions, for any accounts,       *)
(* requests in flight, codes, sessions, passkeys and challenges.           *)
(***************************************************************************)
EXTENDS HumanAccounts, HumanSessions, FiniteSetTheorems, TLAPS

(***************************************************************************)
(* The accounts.                                                           *)
(*                                                                         *)
(* What a request carries (CallRow) never changes while it runs, above all *)
(* the status it is to write: anything but PATCH writes "active".  A       *)
(* founded account and the founder's row come together (FoundedOnce).      *)
(***************************************************************************)

Label == {"done", "found", "check", "insert", "resolve", "read", "write", "mint", "sever",
          "credentials", "memberships", "status", "spend", "credential", "reset", "verify",
          "rehash", "issue"}

CallRow ==
  [kind : Kind \cup {"idle"}, at : Label, account : Account \cup {Nobody}, revision : Nat,
   target : {"active", "recovery_required"}, name : Name \cup {Gone}, role : Role, row : Nat,
   password : Password, code : Code \cup {Nobody}, left : Int, rows : SUBSET (Role \X Nat)]

Directed(r) ==
  /\ r.kind # "patch" => r.target = "active"
  /\ r.kind # "idle" => r.account \in Account

RowsOK ==
  /\ account \in [Account -> AccountRow]
  /\ membership \in [Account -> [Role -> MembershipRow]]
  /\ founder \in Account \cup {Nobody}

CallsOK == call \in [Manager -> CallRow] /\ \A o \in Manager : Directed(call[o])

FoundedOnce ==
  /\ \A a \in Account : account[a].origin = "founded" => founder # Nobody
  /\ OneFounder

AccountsInv == RowsOK /\ CallsOK /\ FoundedOnce /\ menu \subseteq Kind

-----------------------------------------------------------------------------
LEMMA IdleIsCall == Idle \in CallRow /\ Directed(Idle)
BY AccountsAssumption DEF Idle, CallRow, Directed, Label, Password

LEMMA NoRowsAre == NoAccount \in AccountRow /\ NoMembership \in MembershipRow
                   /\ NoAccount.origin = "none"
BY DEF NoAccount, AccountRow, AccountStatus, NoMembership, MembershipRow

LEMMA AccountsInitInv == AccountsInit => AccountsInv
<1> SUFFICES ASSUME AccountsInit PROVE AccountsInv
  OBVIOUS
<1>1. CallsOK /\ menu \subseteq Kind
  BY IdleIsCall, AccountsAssumption DEF AccountsInit, CallsOK
<1>2. CASE FreshStore
  <2>1. RowsOK
    BY <1>2, NoRowsAre DEF FreshStore, RowsOK
  <2>2. \A a \in Account : account[a].origin # "founded"
    BY <1>2, NoRowsAre DEF FreshStore
  <2> QED BY <1>1, <2>1, <2>2 DEF AccountsInv, FoundedOnce, OneFounder
<1>3. CASE RunningStore
  <2>1. NameOf \in [Existing -> Name]
    BY AccountsAssumption DEF NameOf
  <2> DEFINE old(a) == [NoAccount EXCEPT !.status = "active", !.name = NameOf[a], !.origin = "created"]
  <2>2. \A a \in Existing : old(a) \in AccountRow /\ old(a).origin = "created"
    BY <2>1, NoRowsAre DEF AccountRow, AccountStatus
  <2>3. account = [a \in Account |-> IF a \in Existing THEN old(a) ELSE NoAccount]
    BY <1>3 DEF RunningStore
  <2> HIDE DEF old
  <2>4. /\ account \in [Account -> AccountRow]
        /\ \A a \in Account : account[a].origin # "founded"
    BY <2>2, <2>3, NoRowsAre
  <2>5. membership \in [Account -> [Role -> MembershipRow]]
    <3>1. [row |-> 1, live |-> TRUE] \in MembershipRow
      BY DEF MembershipRow
    <3> QED BY <1>3, <3>1, NoRowsAre DEF RunningStore
  <2>6. founder \in Account
    BY <1>3, AccountsAssumption DEF RunningStore
  <2> QED BY <1>1, <2>4, <2>5, <2>6 DEF AccountsInv, RowsOK, FoundedOnce, OneFounder
<1> QED BY <1>2, <1>3 DEF AccountsInit

-----------------------------------------------------------------------------
(* What becomes of a call *)

\* One call goes on to what it may be.
Continues(o) == \E r : r \in CallRow /\ Directed(r) /\ call' = [call EXCEPT ![o] = r]

LEMMA CallsGoOn ==
  ASSUME CallsOK, NEW o \in Manager, Continues(o)
  PROVE  CallsOK'
BY DEF CallsOK, Continues

LEMMA Ends == ASSUME CallsOK, NEW o \in Manager, End(o) PROVE Continues(o)
BY IdleIsCall DEF End, Continues

LEMMA Goes ==
  ASSUME CallsOK, NEW o \in Manager, NEW label \in Label, Go(o, label)
  PROVE  Continues(o)
<1> DEFINE r == [call[o] EXCEPT !.at = label]
<1>1. call[o] \in CallRow /\ Directed(call[o])
  BY DEF CallsOK
<1>2. r \in CallRow /\ r.kind = call[o].kind /\ r.target = call[o].target /\ r.account = call[o].account
  BY <1>1 DEF CallRow
<1>3. call' = [call EXCEPT ![o] = r]
  BY DEF Go, CallsOK
<1> HIDE DEF r
<1> QED BY <1>1, <1>2, <1>3 DEF Continues, Directed

LEMMA Asks ==
  ASSUME AccountsInv, NEW o \in Manager, NEW k \in Kind, Ask(o, k)
  PROVE  Continues(o)
<1>1. PICK q \in Request(k) :
        call' = [call EXCEPT ![o] =
            [kind |-> k, at |-> Entry[k], row |-> 0, rows |-> {},
             left |-> IF k = "import" THEN 2 ELSE 1,
             account |-> q.account, revision |-> q.revision, role |-> q.role,
             password |-> q.password, code |-> q.code, target |-> q.target,
             name |-> q.name]]
  BY DEF Ask
<1> DEFINE r == [kind |-> k, at |-> Entry[k], row |-> 0, rows |-> {},
             left |-> IF k = "import" THEN 2 ELSE 1,
             account |-> q.account, revision |-> q.revision, role |-> q.role,
             password |-> q.password, code |-> q.code, target |-> q.target,
             name |-> q.name]
<1>2. /\ q.account \in Account /\ q.revision \in 0..MaxRequests /\ q.role \in Role /\ q.password \in Password
      /\ q.code \in Code \cup {Nobody} /\ q.name \in Name \cup {Gone}
      /\ q.target \in {"active", "recovery_required"} /\ (k # "patch" => q.target = "active")
  BY AccountsAssumption DEF Request, Password
<1>3. q.revision \in Nat
  BY <1>2, AccountsAssumption
<1>4. Entry[k] \in Label
  BY DEF Entry, Kind, Label
<1>5. r \in CallRow
  BY <1>2, <1>3, <1>4 DEF CallRow
<1>6. Directed(r)
  BY <1>2 DEF Directed
<1> QED BY <1>1, <1>5, <1>6 DEF Continues

\* Every other step of a handler.
LEMMA HandlerGoesOn ==
  ASSUME AccountsInv, NEW o \in Manager,
         \/ Drop(o) \/ SetupCheck(o) \/ Bootstrap(o) \/ Resolve(o) \/ Create(o)
         \/ GrantRead(o) \/ Grant(o) \/ Unassign(o)
         \/ Disable(o) \/ Delete(o) \/ Tombstone(o) \/ Sever(o)
         \/ PatchRead(o) \/ EnableRead(o) \/ WriteStatus(o) \/ ReadForCodes(o)
         \/ Spend(o) \/ FindCredential(o) \/ Reset(o)
         \/ LoginRead(o) \/ Verify(o) \/ Rehash(o) \/ Issue(o)
  PROVE  Continues(o)
<1>1. End(o) \/ \E label \in Label : Go(o, label)
  BY DEF Drop, SetupCheck, Bootstrap, Resolve, Create, GrantRead, Grant, Unassign, Disable, Delete,
         Tombstone, CloseIf, Sever, PatchRead, EnableRead, WriteStatus, ReadForCodes, Spend,
         FindCredential, Reset, LoginRead, Verify, Rehash, Issue, Label
<1> QED BY <1>1, Ends, Goes DEF AccountsInv

\* The steps that write something else into the call than where it goes on.
LEMMA CallFills ==
  ASSUME CallsOK, NEW o \in Manager, NEW at \in Label, NEW a \in Account, NEW revision \in Nat,
         NEW row \in Nat, NEW left \in Int, NEW rows \in SUBSET (Role \X Nat),
         call' = [call EXCEPT ![o] = [call[o] EXCEPT !.at = at, !.account = a, !.revision = revision,
                                                     !.row = row, !.left = left, !.rows = rows]]
  PROVE  Continues(o)
<1> DEFINE r == [call[o] EXCEPT !.at = at, !.account = a, !.revision = revision,
                                !.row = row, !.left = left, !.rows = rows]
<1>1. call[o] \in CallRow /\ Directed(call[o])
  BY DEF CallsOK
<1>2. r \in CallRow /\ r.kind = call[o].kind /\ r.target = call[o].target /\ r.account = a
  BY <1>1 DEF CallRow
<1>3. call' = [call EXCEPT ![o] = r]
  OBVIOUS
<1> HIDE DEF r
<1> QED BY <1>1, <1>2, <1>3 DEF Continues, Directed

LEMMA CallIs ==
  ASSUME CallsOK, NEW o \in Manager, NEW kinds, kinds \subseteq Kind, NEW label, At(o, kinds, label)
  PROVE  /\ call[o] \in CallRow /\ call[o].account \in Account /\ call[o].kind # "idle"
         /\ call[o].kind \in kinds /\ call[o].at = label
         /\ call[o].kind # "patch" => call[o].target = "active"
BY DEF CallsOK, At, Directed, Kind, CallRow

LEMMA UnassignReads ==
  ASSUME AccountsInv, NEW o \in Manager, UnassignRead(o)
  PROVE  Continues(o)
<1>1. CASE End(o)
  BY <1>1, Ends DEF AccountsInv
<1>2. CASE ~End(o)
  <2>1. call[o] \in CallRow /\ call[o].account \in Account
    BY CallIs DEF UnassignRead, AccountsInv, Kind
  <2> DEFINE held == membership[call[o].account][call[o].role]
  <2>2. held.row \in Nat
    BY <2>1 DEF AccountsInv, RowsOK, MembershipRow, CallRow
  <2>3. call' = [call EXCEPT ![o].at = "write", ![o].row = held.row]
    BY <1>2 DEF UnassignRead
  <2> HIDE DEF held
  <2>4. call' = [call EXCEPT ![o] = [call[o] EXCEPT !.at = "write", !.account = call[o].account,
                   !.revision = call[o].revision, !.row = held.row, !.left = call[o].left,
                   !.rows = call[o].rows]]
    BY <2>1, <2>3 DEF AccountsInv, CallsOK, CallRow
  <2>5. "write" \in Label /\ call[o].revision \in Nat /\ call[o].left \in Int /\ call[o].rows \in SUBSET (Role \X Nat)
    BY <2>1 DEF CallRow, Label
  <2> QED BY <2>1, <2>2, <2>4, <2>5, CallFills DEF AccountsInv
<1> QED BY <1>1, <1>2

LEMMA MembershipsListed ==
  ASSUME AccountsInv, NEW o \in Manager, RevokeCredentials(o)
  PROVE  Continues(o)
<1>1. call[o] \in CallRow /\ call[o].account \in Account
  BY CallIs DEF RevokeCredentials, AccountsInv, Kind
<1> DEFINE rows == {<<r, membership[call[o].account][r].row>> : r \in Roles(call[o].account)}
<1>2. rows \in SUBSET (Role \X Nat)
  <2>1. \A r \in Role : membership[call[o].account][r].row \in Nat
    BY <1>1 DEF AccountsInv, RowsOK, MembershipRow
  <2>2. Roles(call[o].account) \subseteq Role
    BY DEF Roles
  <2> QED BY <2>1, <2>2
<1>3. call' = [call EXCEPT ![o].at = "memberships", ![o].rows = rows]
  BY DEF RevokeCredentials
<1> HIDE DEF rows
<1>4. call' = [call EXCEPT ![o] = [call[o] EXCEPT !.at = "memberships", !.account = call[o].account,
                 !.revision = call[o].revision, !.row = call[o].row, !.left = call[o].left, !.rows = rows]]
  BY <1>1, <1>3 DEF AccountsInv, CallsOK, CallRow
<1>5. "memberships" \in Label /\ call[o].revision \in Nat /\ call[o].left \in Int /\ call[o].row \in Nat
  BY <1>1 DEF CallRow, Label
<1> QED BY <1>1, <1>2, <1>4, <1>5, CallFills DEF AccountsInv

LEMMA MembershipsGo ==
  ASSUME AccountsInv, NEW o \in Manager, RevokeMemberships(o)
  PROVE  Continues(o)
<1>1. CASE End(o)
  BY <1>1, Ends DEF AccountsInv
<1>2. CASE ~End(o)
  <2>1. call[o] \in CallRow /\ call[o].account \in Account
    BY CallIs DEF RevokeMemberships, AccountsInv, Kind
  <2>2. PICK listed \in call[o].rows : call' = [call EXCEPT ![o].rows = @ \ {listed}]
    BY <1>2 DEF RevokeMemberships
  <2> DEFINE rows == call[o].rows \ {listed}
  <2>3. rows \in SUBSET (Role \X Nat)
    BY <2>1 DEF CallRow
  <2>4. call' = [call EXCEPT ![o].rows = rows]
    BY <2>2 DEF AccountsInv, CallsOK
  <2> HIDE DEF rows
  <2>5. call' = [call EXCEPT ![o] = [call[o] EXCEPT !.at = call[o].at, !.account = call[o].account,
                   !.revision = call[o].revision, !.row = call[o].row, !.left = call[o].left,
                   !.rows = rows]]
    BY <2>1, <2>4 DEF AccountsInv, CallsOK, CallRow
  <2>6. call[o].at \in Label /\ call[o].revision \in Nat /\ call[o].left \in Int /\ call[o].row \in Nat
    BY <2>1 DEF CallRow
  <2> QED BY <2>1, <2>3, <2>5, <2>6, CallFills DEF AccountsInv
<1> QED BY <1>1, <1>2

LEMMA Mints ==
  ASSUME AccountsInv, NEW o \in Manager, Mint(o)
  PROVE  Continues(o)
<1>1. CASE End(o)
  BY <1>1, Ends DEF AccountsInv
<1>2. CASE ~End(o)
  <2>1. call[o] \in CallRow /\ call[o].account \in Account
    BY CallIs DEF Mint, AccountsInv, Kind
  <2> DEFINE left == call[o].left - 1
  <2>2. left \in Int
    BY <2>1 DEF CallRow
  <2>3. call' = [call EXCEPT ![o].left = left]
    BY <1>2 DEF Mint, AccountsInv, CallsOK
  <2> HIDE DEF left
  <2>4. call' = [call EXCEPT ![o] = [call[o] EXCEPT !.at = call[o].at, !.account = call[o].account,
                   !.revision = call[o].revision, !.row = call[o].row, !.left = left,
                   !.rows = call[o].rows]]
    BY <2>1, <2>3 DEF AccountsInv, CallsOK, CallRow
  <2>5. call[o].at \in Label /\ call[o].revision \in Nat /\ call[o].rows \in SUBSET (Role \X Nat) /\ call[o].row \in Nat
    BY <2>1 DEF CallRow
  <2> QED BY <2>1, <2>2, <2>4, <2>5, CallFills DEF AccountsInv
<1> QED BY <1>1, <1>2

LEMMA RecoveryReads ==
  ASSUME AccountsInv, NEW o \in Manager, RecoverRead(o)
  PROVE  Continues(o)
<1>1. CASE End(o)
  BY <1>1, Ends DEF AccountsInv
<1>2. CASE ~End(o)
  <2>1. call[o] \in CallRow /\ call[o].account \in Account
    BY CallIs DEF RecoverRead, AccountsInv, Kind
  <2> DEFINE revision == account[call[o].account].revision
  <2>2. revision \in Nat
    BY <2>1 DEF AccountsInv, RowsOK, AccountRow
  <2>3. call' = [call EXCEPT ![o].at = "spend", ![o].revision = revision]
    BY <1>2 DEF RecoverRead
  <2> HIDE DEF revision
  <2>4. call' = [call EXCEPT ![o] = [call[o] EXCEPT !.at = "spend", !.account = call[o].account,
                   !.revision = revision, !.row = call[o].row, !.left = call[o].left,
                   !.rows = call[o].rows]]
    BY <2>1, <2>3 DEF AccountsInv, CallsOK, CallRow
  <2>5. "spend" \in Label /\ call[o].row \in Nat /\ call[o].left \in Int /\ call[o].rows \in SUBSET (Role \X Nat)
    BY <2>1 DEF CallRow, Label
  <2> QED BY <2>1, <2>2, <2>4, <2>5, CallFills DEF AccountsInv
<1> QED BY <1>1, <1>2

-----------------------------------------------------------------------------
(* What becomes of the rows *)

\* The step keeps the rows, and some administrator if there was one.
KeepsAdmins == RowsOK' /\ FoundedOnce' /\ (EnabledAdmins # {} => EnabledAdmins' # {})

LEMMA RowsUntouched ==
  ASSUME AccountsInv, UNCHANGED <<account, membership, founder>>
  PROVE  KeepsAdmins
BY DEF AccountsInv, RowsOK, FoundedOnce, OneFounder, KeepsAdmins, EnabledAdmins, Roles

LEMMA Inserted ==
  ASSUME RowsOK, Room, NEW n \in Name \cup {Gone}, NEW status \in AccountStatus,
         NEW origin \in {"founded", "created", "imported"}, NEW r \in Role, NEW password,
         Insert(Fresh, n, status, origin, r, password)
  PROVE  /\ account' \in [Account -> AccountRow]
         /\ membership' \in [Account -> [Role -> MembershipRow]]
         /\ Fresh \in Account
         /\ account'[Fresh].origin = origin
         /\ \A a \in Account \ {Fresh} : account'[a] = account[a]
         /\ EnabledAdmins # {} => EnabledAdmins' # {}
<1>1. Fresh \in Account /\ account[Fresh].status = "absent"
  BY DEF Room, Fresh
<1> DEFINE new == [status |-> status, revision |-> 0, name |-> n, origin |-> origin]
           mine == [row |-> 1, live |-> TRUE]
<1>2. new \in AccountRow /\ new.origin = origin /\ mine \in MembershipRow
  BY DEF AccountRow, MembershipRow
<1>3. account' = [account EXCEPT ![Fresh] = new] /\ membership' = [membership EXCEPT ![Fresh][r] = mine]
  BY DEF Insert
<1> HIDE DEF new, mine
<1> DEFINE f == Fresh
<1>4. f = Fresh
  OBVIOUS
<1> HIDE DEF f
<1>5. /\ account' \in [Account -> AccountRow]
      /\ membership' \in [Account -> [Role -> MembershipRow]]
      /\ account'[f] = new
      /\ \A a \in Account \ {f} : account'[a] = account[a] /\ membership'[a] = membership[a]
  BY <1>1, <1>2, <1>3, <1>4 DEF RowsOK
<1>6. EnabledAdmins \subseteq EnabledAdmins'
  BY <1>1, <1>4, <1>5 DEF EnabledAdmins, Roles
<1> QED BY <1>1, <1>2, <1>4, <1>5, <1>6

\* The singletons of bootstrap and setup admit one founder.
LEMMA Founding ==
  ASSUME AccountsInv, NEW o \in Manager, founder = Nobody, call[o].name \in Name \cup {Gone}, FoundAccount(o)
  PROVE  KeepsAdmins /\ Fresh \in Account
<1>1. /\ Room /\ Insert(Fresh, call[o].name, "active", "founded", "admin", 1)
      /\ founder' = Fresh
  BY DEF FoundAccount
<1>2. "admin" \in Role /\ "active" \in AccountStatus /\ Nobody \notin Account
  BY AccountsAssumption DEF AccountStatus
<1>3. /\ account' \in [Account -> AccountRow]
      /\ membership' \in [Account -> [Role -> MembershipRow]]
      /\ Fresh \in Account
      /\ \A a \in Account \ {Fresh} : account'[a] = account[a]
      /\ EnabledAdmins # {} => EnabledAdmins' # {}
  BY <1>1, <1>2, Inserted DEF AccountsInv
<1>4. \A a \in Account : account[a].origin # "founded"
  BY DEF AccountsInv, FoundedOnce
<1>5. \A a \in Account : account'[a].origin = "founded" => a = Fresh
  BY <1>3, <1>4
<1>6. FoundedOnce'
  BY <1>1, <1>2, <1>3, <1>5 DEF FoundedOnce, OneFounder
<1> QED BY <1>1, <1>3, <1>6 DEF KeepsAdmins, RowsOK

LEMMA Bootstraps ==
  ASSUME AccountsInv, NEW o \in Manager, Bootstrap(o)
  PROVE  KeepsAdmins
<1>1. call[o].name \in Name \cup {Gone}
  BY CallIs DEF Bootstrap, AccountsInv, Kind, CallRow
<1>2. CASE founder = Nobody /\ FoundAccount(o)
  BY <1>1, <1>2, Founding
<1>3. CASE UNCHANGED <<account, membership, founder>>
  BY <1>3, RowsUntouched
<1> QED BY <1>2, <1>3 DEF Bootstrap, RowsFree

LEMMA GenesisGoesOn ==
  ASSUME AccountsInv, NEW o \in Manager, Genesis(o)
  PROVE  KeepsAdmins /\ Continues(o)
<1>1. call[o].name \in Name \cup {Gone}
  BY CallIs DEF Genesis, AccountsInv, Kind, CallRow
<1>2. CASE founder = Nobody /\ FoundAccount(o)
           /\ call' = [call EXCEPT ![o] = [Idle EXCEPT !.kind = "login",
                   !.at = "read", !.account = Fresh, !.password = 1]]
  <2>1. KeepsAdmins /\ Fresh \in Account
    BY <1>1, <1>2, Founding
  <2> DEFINE f == Fresh
             r == [Idle EXCEPT !.kind = "login", !.at = "read", !.account = f, !.password = 1]
  <2>2. call' = [call EXCEPT ![o] = r] /\ f \in Account
    BY <1>2, <2>1
  <2> HIDE DEF f
  <2>3. Idle \in CallRow /\ Idle.target = "active"
    BY IdleIsCall DEF Idle
  <2>4. r \in CallRow /\ r.target = "active" /\ r.account = f
    <3>1. "login" \in Kind /\ "read" \in Label /\ 1 \in Password /\ f \in Account \cup {Nobody}
      BY <2>2 DEF Label, Kind, Password
    <3> HIDE <2>2
    <3> QED BY <2>3, <3>1 DEF CallRow
  <2> HIDE DEF r
  <2>5. Directed(r)
    BY <2>2, <2>4 DEF Directed
  <2> QED BY <2>1, <2>2, <2>4, <2>5 DEF Continues
<1>3. CASE UNCHANGED <<account, membership, founder>> /\ End(o)
  BY <1>3, RowsUntouched, Ends DEF AccountsInv
<1> QED BY <1>2, <1>3 DEF Genesis, GenesisRows, RowsFree

\* An account that is created is not a founded one.
LEMMA InsertKeeps ==
  ASSUME AccountsInv, Room, NEW n \in Name \cup {Gone}, NEW status \in AccountStatus,
         NEW origin \in {"created", "imported"}, NEW r \in Role, NEW password,
         Insert(Fresh, n, status, origin, r, password), UNCHANGED founder
  PROVE  KeepsAdmins /\ Fresh \in Account
<1>1. /\ account' \in [Account -> AccountRow]
      /\ membership' \in [Account -> [Role -> MembershipRow]]
      /\ Fresh \in Account
      /\ account'[Fresh].origin = origin
      /\ \A a \in Account \ {Fresh} : account'[a] = account[a]
      /\ EnabledAdmins # {} => EnabledAdmins' # {}
  BY Inserted DEF AccountsInv
<1>2. \A a \in Account : account'[a].origin = "founded" => account[a].origin = "founded"
  BY <1>1
<1>3. FoundedOnce'
  BY <1>2 DEF AccountsInv, FoundedOnce, OneFounder
<1> QED BY <1>1, <1>3 DEF KeepsAdmins, AccountsInv, RowsOK

LEMMA Creates ==
  ASSUME AccountsInv, NEW o \in Manager, Create(o)
  PROVE  KeepsAdmins
<1>1. call[o].name \in Name \cup {Gone} /\ call[o].role \in Role /\ "active" \in AccountStatus
  BY CallIs DEF Create, AccountsInv, Kind, CallRow, AccountStatus
<1>2. CASE Room /\ Insert(Fresh, call[o].name, "active", "created", call[o].role, 1)
  BY <1>1, <1>2, InsertKeeps DEF Create
<1>3. CASE UNCHANGED <<account, membership>>
  BY <1>3, RowsUntouched DEF Create
<1> QED BY <1>2, <1>3 DEF Create

LEMMA Invites ==
  ASSUME AccountsInv, NEW o \in Manager, Invite(o)
  PROVE  KeepsAdmins /\ Continues(o)
<1>1. call[o] \in CallRow /\ call[o].account \in Account /\ "invited" \in AccountStatus /\ "mint" \in Label
  BY CallIs DEF Invite, AccountsInv, Kind, AccountStatus, Label
<1>2. CASE /\ Room
           /\ Insert(Fresh, call[o].name, "invited", "imported", call[o].role, 0)
           /\ call' = [call EXCEPT ![o].at = "mint", ![o].account = Fresh]
  <2>1. call[o].name \in Name \cup {Gone} /\ call[o].role \in Role
    BY <1>1 DEF CallRow
  <2>2. KeepsAdmins /\ Fresh \in Account
    BY <1>1, <1>2, <2>1, InsertKeeps DEF Invite
  <2> DEFINE f == Fresh
  <2>3. call' = [call EXCEPT ![o].at = "mint", ![o].account = f]
    BY <1>2
  <2>6. f \in Account
    BY <2>2
  <2> HIDE DEF f
  <2>4. call' = [call EXCEPT ![o] = [call[o] EXCEPT !.at = "mint", !.account = f,
                   !.revision = call[o].revision, !.row = call[o].row, !.left = call[o].left,
                   !.rows = call[o].rows]]
    BY <1>1, <2>3 DEF AccountsInv, CallsOK, CallRow
  <2>5. call[o].revision \in Nat /\ call[o].row \in Nat /\ call[o].left \in Int /\ call[o].rows \in SUBSET (Role \X Nat)
    BY <1>1 DEF CallRow
  <2> QED BY <1>1, <2>2, <2>6, <2>4, <2>5, CallFills DEF AccountsInv
<1>3. CASE UNCHANGED <<account, membership>> /\ End(o)
  BY <1>3, RowsUntouched, Ends DEF Invite, AccountsInv
<1> QED BY <1>2, <1>3 DEF Invite

LEMMA Granted ==
  ASSUME AccountsInv, NEW o \in Manager, Grant(o)
  PROVE  KeepsAdmins
<1> DEFINE a == call[o].account
           r == call[o].role
           held == membership[a][r]
<1>1. a \in Account /\ r \in Role
  BY CallIs DEF Grant, AccountsInv, Kind, CallRow
<1>2. UNCHANGED <<account, founder>>
  BY DEF Grant
<1>3. CASE membership' = membership
  BY <1>2, <1>3, RowsUntouched
<1>4. CASE membership' = [membership EXCEPT ![a][r] = [row |-> held.row + 1, live |-> TRUE]]
  <2> DEFINE mine == [row |-> held.row + 1, live |-> TRUE]
  <2>1. mine \in MembershipRow /\ mine.live
    BY <1>1 DEF AccountsInv, RowsOK, MembershipRow
  <2>2. membership' = [membership EXCEPT ![a][r] = mine]
    BY <1>4
  <2> HIDE DEF a, r, mine
  <2>3. /\ membership' \in [Account -> [Role -> MembershipRow]]
        /\ \A b \in Account, k \in Role : membership'[b][k].live = (membership[b][k].live \/ (b = a /\ k = r))
    BY <1>1, <2>1, <2>2 DEF AccountsInv, RowsOK, MembershipRow
  <2>4. RowsOK' /\ FoundedOnce'
    BY <1>2, <2>3 DEF AccountsInv, RowsOK, FoundedOnce, OneFounder
  <2>5. EnabledAdmins \subseteq EnabledAdmins'
    BY <1>2, <2>3 DEF EnabledAdmins, Roles
  <2> QED BY <2>4, <2>5 DEF KeepsAdmins
<1> QED
  <2>1. membership' = IF held.live THEN membership
             ELSE [membership EXCEPT ![a][r] = [row |-> held.row + 1, live |-> TRUE]]
    BY <1>1 DEF Grant, AccountsInv, RowsOK
  <2> QED BY <1>3, <1>4, <2>1

\* One membership row ends; the accounts stay.
LEMMA OneRoleEnds ==
  ASSUME RowsOK, FoundedOnce, NEW a \in Account, NEW r \in Role, NEW live \in BOOLEAN,
         live => membership[a][r].live,
         membership' = [membership EXCEPT ![a][r].live = live], UNCHANGED <<account, founder>>
  PROVE  /\ RowsOK' /\ FoundedOnce'
         /\ r # "admin" => EnabledAdmins' = EnabledAdmins
         /\ EnabledAdmins \ {a} \subseteq EnabledAdmins'
<1> DEFINE mine == [membership[a][r] EXCEPT !.live = live]
<1>1. mine \in MembershipRow /\ mine.live = live
  BY DEF RowsOK, MembershipRow
<1>2. membership' = [membership EXCEPT ![a][r] = mine]
  BY DEF RowsOK
<1> HIDE DEF mine
<1>3. /\ membership' \in [Account -> [Role -> MembershipRow]]
      /\ \A b \in Account, k \in Role : ~(b = a /\ k = r) => membership'[b][k] = membership[b][k]
  BY <1>1, <1>2 DEF RowsOK
<1>4. RowsOK' /\ FoundedOnce'
  BY <1>3 DEF RowsOK, FoundedOnce, OneFounder
<1>5. EnabledAdmins \ {a} \subseteq EnabledAdmins'
  BY <1>3 DEF EnabledAdmins, Roles
<1>6. ASSUME r # "admin" PROVE EnabledAdmins' = EnabledAdmins
  <2>1. \A b \in Account : membership'[b]["admin"].live = membership[b]["admin"].live
    BY <1>3, <1>6, AccountsAssumption
  <2> QED BY <2>1, AccountsAssumption DEF EnabledAdmins, Roles
<1> QED BY <1>4, <1>5, <1>6

\* revoke_membership_protecting_last_admin.
LEMMA Unassigned ==
  ASSUME AccountsInv, NEW o \in Manager, Unassign(o)
  PROVE  KeepsAdmins
<1> DEFINE a == call[o].account
           r == call[o].role
<1>1. a \in Account /\ r \in Role
  BY CallIs DEF Unassign, AccountsInv, Kind, CallRow
<1>2. UNCHANGED <<account, founder>>
  BY DEF Unassign
<1>3. CASE membership' = membership
  BY <1>2, <1>3, RowsUntouched
<1>4. CASE /\ r = "admin" => OthersHold(a)
           /\ membership' = [membership EXCEPT ![a][r].live = FALSE]
  <2> HIDE DEF a, r
  <2>1. /\ RowsOK' /\ FoundedOnce'
        /\ r # "admin" => EnabledAdmins' = EnabledAdmins
        /\ EnabledAdmins \ {a} \subseteq EnabledAdmins'
    BY <1>1, <1>2, <1>4, OneRoleEnds DEF AccountsInv
  <2> QED BY <1>4, <2>1 DEF KeepsAdmins, OthersHold
<1> QED BY <1>3, <1>4 DEF Unassign

LEMMA MembershipsEnd ==
  ASSUME AccountsInv, NEW o \in Manager, RevokeMemberships(o)
  PROVE  RowsOK' /\ FoundedOnce'
<1> DEFINE a == call[o].account
<1>1. call[o] \in CallRow /\ a \in Account
  BY CallIs DEF RevokeMemberships, AccountsInv, Kind
<1>2. UNCHANGED <<account, founder>>
  BY DEF RevokeMemberships
<1>3. CASE membership' = membership
  BY <1>2, <1>3, RowsUntouched DEF KeepsAdmins
<1>4. CASE \E listed \in call[o].rows :
             membership' = [membership EXCEPT ![a][listed[1]].live = @ /\ membership[a][listed[1]].row # listed[2]]
  <2>1. PICK listed \in call[o].rows :
          membership' = [membership EXCEPT ![a][listed[1]].live = @ /\ membership[a][listed[1]].row # listed[2]]
    BY <1>4
  <2> DEFINE r == listed[1]
             live == membership[a][r].live /\ membership[a][r].row # listed[2]
  <2>2. r \in Role
    BY <1>1 DEF CallRow
  <2>3. membership' = [membership EXCEPT ![a][r].live = live]
    BY <1>1, <2>1, <2>2 DEF AccountsInv, RowsOK
  <2>4. live \in BOOLEAN /\ (live => membership[a][r].live)
    BY <1>1, <2>2 DEF AccountsInv, RowsOK, MembershipRow
  <2> HIDE DEF a, r, live
  <2> QED BY <1>1, <1>2, <2>2, <2>3, <2>4, OneRoleEnds DEF AccountsInv
<1> QED BY <1>3, <1>4 DEF RevokeMemberships

LEMMA StatusSet ==
  ASSUME RowsOK, FoundedOnce, NEW a \in Account, NEW status \in AccountStatus,
         SetStatus(a, status), UNCHANGED <<membership, founder>>
  PROVE  /\ RowsOK' /\ FoundedOnce' /\ account'[a].status = status
         /\ \A b \in Account \ {a} : account'[b] = account[b]
<1> DEFINE n == IF status = "deleted_tombstone" THEN Gone ELSE account[a].name
           rev == account[a].revision + 1
           new == [account[a] EXCEPT !.status = status, !.revision = rev, !.name = n]
<1>1. n \in Name \cup {Gone} /\ rev \in Nat
  BY DEF RowsOK, AccountRow
<1>2. account' = [account EXCEPT ![a].status = status, ![a].revision = rev, ![a].name = n]
  BY DEF SetStatus, RowsOK, AccountRow
<1> HIDE DEF n, rev
<1>3. account' = [account EXCEPT ![a] = new]
  BY <1>2 DEF RowsOK, AccountRow
<1>4. new \in AccountRow /\ new.status = status /\ new.origin = account[a].origin
  BY <1>1 DEF RowsOK, AccountRow
<1> HIDE DEF new
<1>5. /\ account' \in [Account -> AccountRow] /\ account'[a].status = status
      /\ \A b \in Account : account'[b].origin = account[b].origin
      /\ \A b \in Account \ {a} : account'[b] = account[b]
  BY <1>3, <1>4 DEF RowsOK
<1> QED BY <1>5 DEF RowsOK, FoundedOnce, OneFounder

\* The guarded UPDATE of disable and delete.
LEMMA Closes ==
  ASSUME AccountsInv, NEW a \in Account, NEW status \in AccountStatus, LastAdminSafe(a),
         SetStatus(a, status), UNCHANGED <<membership, founder>>
  PROVE  KeepsAdmins
<1>1. /\ RowsOK' /\ FoundedOnce'
      /\ \A b \in Account \ {a} : account'[b] = account[b]
  BY StatusSet DEF AccountsInv
<1>2. EnabledAdmins \ {a} \subseteq EnabledAdmins'
  BY <1>1 DEF EnabledAdmins, Roles
<1>3. EnabledAdmins # {} => EnabledAdmins \ {a} # {}
  BY DEF LastAdminSafe, OthersHold, EnabledAdmins
<1> QED BY <1>1, <1>2, <1>3 DEF KeepsAdmins

LEMMA Closed ==
  ASSUME AccountsInv, NEW o \in Manager, Disable(o) \/ Delete(o) \/ Tombstone(o)
  PROVE  KeepsAdmins
<1>1. call[o].account \in Account
  BY CallIs DEF Disable, Delete, Tombstone, AccountsInv, Kind
<1>2. UNCHANGED <<membership, founder>>
  BY DEF Disable, Delete, Tombstone, CloseIf
<1>3. CASE UNCHANGED account
  BY <1>2, <1>3, RowsUntouched
<1>4. CASE \E status \in AccountStatus : LastAdminSafe(call[o].account) /\ SetStatus(call[o].account, status)
  BY <1>1, <1>2, <1>4, Closes
<1>5. CASE /\ account[call[o].account].status = "deletion_pending"
           /\ SetStatus(call[o].account, "deleted_tombstone")
  <2> DEFINE a == call[o].account
  <2> HIDE DEF a
  <2>1. /\ RowsOK' /\ FoundedOnce'
        /\ \A b \in Account \ {a} : account'[b] = account[b]
    BY <1>1, <1>2, <1>5, StatusSet DEF AccountsInv, AccountStatus, a
  <2>2. EnabledAdmins \subseteq EnabledAdmins'
    BY <1>2, <1>5, <2>1 DEF EnabledAdmins, Roles, a
  <2> QED BY <2>1, <2>2 DEF KeepsAdmins
<1> QED BY <1>3, <1>4, <1>5 DEF Disable, Delete, Tombstone, CloseIf, AccountStatus

\* A status is set to active, unless PATCH sends the account into recovery.
LEMMA StatusWritten ==
  ASSUME AccountsInv, NEW o \in Manager, WriteStatus(o)
  PROVE  /\ RowsOK' /\ FoundedOnce'
         /\ \/ EnabledAdmins # {} => EnabledAdmins' # {}
            \/ At(o, {"patch"}, "status") /\ call[o].target = "recovery_required"
<1> DEFINE a == call[o].account
<1>1. call[o] \in CallRow /\ a \in Account /\ call[o].kind \in {"patch", "enable", "recover"}
      /\ call[o].at = "status" /\ (call[o].kind # "patch" => call[o].target = "active")
  BY CallIs DEF WriteStatus, AccountsInv, Kind
<1>2. UNCHANGED <<membership, founder>>
  BY DEF WriteStatus
<1>3. CASE UNCHANGED account
  BY <1>2, <1>3, RowsUntouched DEF KeepsAdmins
<1>4. CASE SetStatus(a, call[o].target)
  <2> DEFINE status == call[o].target
  <2>1. status \in {"active", "recovery_required"}
    BY <1>1 DEF CallRow
  <2>2. SetStatus(a, status)
    BY <1>4
  <2> HIDE DEF a, status
  <2>3. /\ RowsOK' /\ FoundedOnce' /\ account'[a].status = status
        /\ \A b \in Account \ {a} : account'[b] = account[b]
    BY <1>1, <1>2, <2>1, <2>2, StatusSet DEF AccountsInv, AccountStatus
  <2>4. CASE status = "active"
    <3>1. EnabledAdmins \subseteq EnabledAdmins'
      BY <1>2, <2>3, <2>4 DEF EnabledAdmins, Roles
    <3> QED BY <2>3, <3>1
  <2>5. CASE status = "recovery_required"
    BY <1>1, <2>3, <2>5 DEF At, status
  <2> QED BY <2>1, <2>4, <2>5
<1> QED BY <1>3, <1>4 DEF WriteStatus

-----------------------------------------------------------------------------
\* What a step of a request does to the calls, the rows and the administrators.
LEMMA StepKeeps ==
  ASSUME AccountsInv, NEW o \in Manager, Step(o)
  PROVE  /\ AccountsInv'
         /\ \/ EnabledAdmins # {} => EnabledAdmins' # {}
            \/ At(o, {"patch"}, "status") /\ call[o].target = "recovery_required"
            \/ At(o, {"tombstone"}, "memberships")
<1> USE DEF AccountsInv
<1>0. menu' \subseteq Kind
  BY DEF Step, Ask, Drop, SetupCheck, Bootstrap, Genesis, Resolve, Create, Invite, GrantRead, UnassignRead,
         Grant, Unassign, Disable, Delete, Tombstone, CloseIf, Sever, RevokeCredentials, RevokeMemberships,
         PatchRead, EnableRead, WriteStatus, ReadForCodes, Mint, RecoverRead, Spend, FindCredential, Reset,
         LoginRead, Verify, Rehash, Issue
<1>1. ASSUME NEW k \in Kind, Ask(o, k) PROVE AccountsInv' /\ KeepsAdmins
  BY <1>0, <1>1, Asks, CallsGoOn, RowsUntouched DEF Ask, KeepsAdmins
<1>2. CASE Bootstrap(o)
  BY <1>0, <1>2, HandlerGoesOn, CallsGoOn, Bootstraps DEF KeepsAdmins
<1>3. CASE Genesis(o)
  BY <1>0, <1>3, CallsGoOn, GenesisGoesOn DEF KeepsAdmins
<1>4. CASE Create(o)
  BY <1>0, <1>4, HandlerGoesOn, CallsGoOn, Creates DEF KeepsAdmins
<1>5. CASE Invite(o)
  BY <1>0, <1>5, CallsGoOn, Invites DEF KeepsAdmins
<1>6. CASE Grant(o)
  BY <1>0, <1>6, HandlerGoesOn, CallsGoOn, Granted DEF KeepsAdmins
<1>7. CASE Unassign(o)
  BY <1>0, <1>7, HandlerGoesOn, CallsGoOn, Unassigned DEF KeepsAdmins
<1>8. CASE Disable(o) \/ Delete(o) \/ Tombstone(o)
  BY <1>0, <1>8, HandlerGoesOn, CallsGoOn, Closed DEF KeepsAdmins
<1>9. CASE RevokeMemberships(o)
  BY <1>0, <1>9, CallsGoOn, MembershipsGo, MembershipsEnd DEF RevokeMemberships
<1>10. CASE WriteStatus(o)
  BY <1>0, <1>10, HandlerGoesOn, CallsGoOn, StatusWritten
<1>11. CASE \/ UnassignRead(o) \/ RevokeCredentials(o) \/ Mint(o) \/ RecoverRead(o)
  <2>1. Continues(o)
    BY <1>11, UnassignReads, MembershipsListed, Mints, RecoveryReads
  <2>2. UNCHANGED <<account, membership, founder>>
    BY <1>11 DEF UnassignRead, RevokeCredentials, Mint, RecoverRead
  <2> QED BY <1>0, <2>1, <2>2, CallsGoOn, RowsUntouched DEF KeepsAdmins
<1>12. CASE \/ Drop(o) \/ SetupCheck(o) \/ Resolve(o) \/ GrantRead(o) \/ Sever(o) \/ PatchRead(o)
            \/ EnableRead(o) \/ ReadForCodes(o) \/ Spend(o) \/ FindCredential(o) \/ Reset(o)
            \/ LoginRead(o) \/ Verify(o) \/ Rehash(o) \/ Issue(o)
  <2>1. Continues(o)
    BY <1>12, HandlerGoesOn
  <2>2. UNCHANGED <<account, membership, founder>>
    BY <1>12 DEF Drop, SetupCheck, Resolve, GrantRead, Sever, PatchRead, EnableRead, ReadForCodes,
                 Spend, FindCredential, Reset, LoginRead, Verify, Rehash, Issue
  <2> QED BY <1>0, <2>1, <2>2, CallsGoOn, RowsUntouched DEF KeepsAdmins
<1> QED BY <1>1, <1>2, <1>3, <1>4, <1>5, <1>6, <1>7, <1>8, <1>9, <1>10, <1>11, <1>12
        DEF Step, KeepsAdmins

LEMMA AccountsInvStep ==
  ASSUME AccountsInv, [AccountsNext]_accountVars
  PROVE  AccountsInv'
<1>1. CASE UNCHANGED accountVars
  BY <1>1 DEF accountVars, AccountsInv, RowsOK, CallsOK, FoundedOnce, OneFounder
<1>2. CASE \E o \in Manager : Step(o)
  BY <1>2, StepKeeps
<1>3. CASE \E c \in Code : Expire(c)
  BY <1>3 DEF Expire, AccountsInv, RowsOK, CallsOK, FoundedOnce, OneFounder
<1> QED BY <1>1, <1>2, <1>3 DEF AccountsNext

\* However many bootstrap and setup requests race, one founding account comes
\* of it (the singleton rows of human_bootstrap_state and realm_identity).
THEOREM OneFounderHolds == AccountsSpec => []OneFounder
<1>1. AccountsInv => OneFounder
  BY DEF AccountsInv, FoundedOnce
<1> QED BY <1>1, AccountsInitInv, AccountsInvStep, PTL DEF AccountsSpec

\* No race of disables, deletions and role revocations takes the last enabled
\* administrator away: only PATCH into recovery, or a tombstone's clean-up.
THEOREM AdminsLostOnlyByRecoveryHolds == AccountsSpec => AdminsLostOnlyByRecovery
<1> DEFINE Kept ==
      EnabledAdmins # {} /\ EnabledAdmins' = {}
        => \E o \in Manager :
             \/ At(o, {"patch"}, "status") /\ call[o].target = "recovery_required"
             \/ At(o, {"tombstone"}, "memberships")
<1>1. ASSUME AccountsInv, [AccountsNext]_accountVars PROVE [Kept]_accountVars
  <2>1. CASE \E o \in Manager : Step(o)
    BY <1>1, <2>1, StepKeeps
  <2>2. CASE \E c \in Code : Expire(c)
    BY <2>2 DEF Expire, EnabledAdmins, Roles
  <2>3. CASE UNCHANGED accountVars
    BY <2>3
  <2> QED BY <1>1, <2>1, <2>2, <2>3 DEF AccountsNext
<1> QED BY <1>1, AccountsInitInv, AccountsInvStep, PTL DEF AccountsSpec, AdminsLostOnlyByRecovery

-----------------------------------------------------------------------------
(***************************************************************************)
(* Recovery codes.                                                         *)
(*                                                                         *)
(* A request that spent a code holds it until it has replaced the          *)
(* password: no other request holds that code, and it has replaced none.   *)
(* A code that is not consumed has replaced none either.                   *)
(***************************************************************************)

HoldsCode(r) == r.kind = "recover" /\ r.at \in {"credential", "reset"}

CodeInv ==
  /\ code \in [Code -> CodeRow] /\ resets \in [Code -> {0, 1}]
  /\ \A o \in Manager : call[o].kind = "recover" => call[o].code \in Code
  /\ \A o \in Manager : HoldsCode(call[o]) =>
       code[call[o].code].state = "consumed" /\ resets[call[o].code] = 0
  /\ \A o, p \in Manager :
       HoldsCode(call[o]) /\ HoldsCode(call[p]) /\ call[o].code = call[p].code => o = p
  /\ \A c \in Code : code[c].state # "consumed" => resets[c] = 0

LEMMA CodeInitInv == AccountsInit => CodeInv
<1> SUFFICES ASSUME AccountsInit PROVE CodeInv
  OBVIOUS
<1>1. \A o \in Manager : call[o].kind = "idle"
  BY DEF AccountsInit, Idle
<1>2. resets = [c \in Code |-> 0]
  BY DEF AccountsInit
<1>3. code \in [Code -> CodeRow]
  <2>1. CASE FreshStore
    BY <2>1 DEF FreshStore, NoCode, CodeRow
  <2>2. CASE RunningStore
    <3>1. PICK a \in Existing, c \in Code :
            code = [x \in Code |-> IF x = c
                 THEN [owner |-> a, durable |-> TRUE, state |-> "live"] ELSE NoCode]
      BY <2>2 DEF RunningStore
    <3>2. a \in Account
      BY AccountsAssumption
    <3> QED BY <3>1, <3>2 DEF NoCode, CodeRow
  <2> QED BY <2>1, <2>2 DEF AccountsInit
<1> QED BY <1>1, <1>2, <1>3 DEF CodeInv, HoldsCode

\* A step that spends no code and replaces no password, of a request that
\* gains none.
LEMMA NoCodeGained ==
  ASSUME CodeInv, NEW o \in Manager, \A p \in Manager \ {o} : call'[p] = call[p],
         call'[o].kind = "recover" => call'[o].code \in Code,
         HoldsCode(call'[o]) => HoldsCode(call[o]) /\ call'[o].code = call[o].code,
         UNCHANGED resets, code' \in [Code -> CodeRow],
         \A c \in Code : code'[c].state = "consumed" <=> code[c].state = "consumed"
  PROVE  CodeInv'
<1>1. \A p \in Manager : HoldsCode(call'[p]) => HoldsCode(call[p]) /\ call'[p].code = call[p].code
                                               /\ call[p].code \in Code
  BY DEF CodeInv, HoldsCode
<1>2. \A p \in Manager : call'[p].kind = "recover" => call'[p].code \in Code
  BY DEF CodeInv
<1> QED BY <1>1, <1>2 DEF CodeInv

\* The steps that leave the codes alone.
LEMMA CodesStay ==
  ASSUME AccountsInv, CodeInv, NEW o \in Manager,
         \/ Drop(o) \/ SetupCheck(o) \/ Bootstrap(o) \/ Resolve(o) \/ Create(o) \/ Invite(o)
         \/ GrantRead(o) \/ UnassignRead(o) \/ Grant(o) \/ Unassign(o)
         \/ Disable(o) \/ Delete(o) \/ Tombstone(o) \/ Sever(o)
         \/ RevokeCredentials(o) \/ RevokeMemberships(o)
         \/ PatchRead(o) \/ EnableRead(o) \/ WriteStatus(o) \/ ReadForCodes(o) \/ Mint(o)
         \/ RecoverRead(o) \/ FindCredential(o)
         \/ LoginRead(o) \/ Verify(o) \/ Rehash(o) \/ Issue(o)
  PROVE  CodeInv'
<1>0. call \in [Manager -> CallRow] /\ call[o] \in CallRow
  BY DEF AccountsInv, CallsOK
<1>1. UNCHANGED resets
  BY DEF Drop, SetupCheck, Bootstrap, Resolve, Create, Invite, GrantRead, UnassignRead, Grant, Unassign,
         Disable, Delete, Tombstone, CloseIf, Sever, RevokeCredentials, RevokeMemberships, PatchRead,
         EnableRead, WriteStatus, ReadForCodes, Mint, RecoverRead, FindCredential, LoginRead, Verify,
         Rehash, Issue
<1>2. code' \in [Code -> CodeRow] /\ \A c \in Code : code'[c].state = "consumed" <=> code[c].state = "consumed"
  <2>1. CASE Mint(o)
    <3>1. Minted(o) \in CodeRow /\ Minted(o).state = "live"
      BY <1>0 DEF Minted, CodeRow, CallRow
    <3>2. PICK c \in Code : code[c].state = "unissued" /\ code' = [code EXCEPT ![c] = Minted(o)]
      BY <2>1 DEF Mint
    <3> QED BY <3>1, <3>2 DEF CodeInv
  <2>2. CASE ~Mint(o)
    <3>1. UNCHANGED code
      BY <2>2 DEF Drop, SetupCheck, Bootstrap, Resolve, Create, Invite, GrantRead, UnassignRead, Grant,
         Unassign, Disable, Delete, Tombstone, CloseIf, Sever, RevokeCredentials, RevokeMemberships,
         PatchRead, EnableRead, WriteStatus, ReadForCodes, RecoverRead, FindCredential, LoginRead, Verify,
         Rehash, Issue
    <3> QED BY <3>1 DEF CodeInv
  <2> QED BY <2>1, <2>2
<1> DEFINE same == call'[o].kind = call[o].kind /\ call'[o].code = call[o].code
           others == \A p \in Manager \ {o} : call'[p] = call[p]
<1>3. ASSUME End(o) PROVE CodeInv'
  <2>1. others /\ call'[o].kind = "idle"
    BY <1>0, <1>3 DEF End, Idle
  <2> QED BY <1>1, <1>2, <2>1, NoCodeGained DEF HoldsCode
<1>4. ASSUME others, same, call'[o].at \notin {"credential", "reset"} \/ HoldsCode(call[o]) PROVE CodeInv'
  <2>1. call'[o].kind = "recover" => call'[o].code \in Code
    BY <1>4 DEF CodeInv
  <2>2. HoldsCode(call'[o]) => HoldsCode(call[o]) /\ call'[o].code = call[o].code
    BY <1>4 DEF HoldsCode
  <2> HIDE DEF same
  <2> QED BY <1>1, <1>2, <1>4, <2>1, <2>2, NoCodeGained
<1>5. ASSUME NEW label, Go(o, label), label \notin {"credential", "reset"} \/ HoldsCode(call[o]) PROVE CodeInv'
  <2>1. others /\ same /\ call'[o].at = label
    BY <1>0, <1>5 DEF Go, CallRow
  <2> QED BY <1>4, <1>5, <2>1
<1>6. CASE \/ Drop(o) \/ SetupCheck(o) \/ Bootstrap(o) \/ Resolve(o) \/ Create(o) \/ GrantRead(o)
           \/ Grant(o) \/ Unassign(o) \/ Disable(o) \/ Delete(o) \/ Tombstone(o) \/ Sever(o)
           \/ PatchRead(o) \/ EnableRead(o) \/ WriteStatus(o) \/ ReadForCodes(o)
           \/ LoginRead(o) \/ Verify(o) \/ Rehash(o) \/ Issue(o)
  <2>1. End(o) \/ \E label : Go(o, label) /\ label \notin {"credential", "reset"}
    <3>1. CASE Drop(o) \/ SetupCheck(o) \/ Bootstrap(o) \/ Resolve(o) \/ Create(o) \/ GrantRead(o)
               \/ Grant(o) \/ Unassign(o)
      <4>1. CASE Drop(o) \/ Bootstrap(o) \/ Create(o) \/ Grant(o) \/ Unassign(o)
        BY <4>1 DEF Drop, Bootstrap, Create, Grant, Unassign
      <4>2. CASE SetupCheck(o) \/ Resolve(o) \/ GrantRead(o)
        BY <4>2 DEF SetupCheck, Resolve, GrantRead
      <4> QED BY <3>1, <4>1, <4>2
    <3>2. CASE Disable(o) \/ Delete(o) \/ Tombstone(o)
      BY <3>2 DEF Disable, Delete, Tombstone, CloseIf
    <3>3. CASE Sever(o) \/ PatchRead(o) \/ EnableRead(o) \/ WriteStatus(o) \/ ReadForCodes(o)
      BY <3>3 DEF Sever, PatchRead, EnableRead, WriteStatus, ReadForCodes
    <3>4. CASE LoginRead(o) \/ Verify(o) \/ Rehash(o) \/ Issue(o)
      BY <3>4 DEF LoginRead, Verify, Rehash, Issue
    <3> QED BY <1>6, <3>1, <3>2, <3>3, <3>4
  <2> QED BY <1>3, <1>5, <2>1
<1>7. CASE FindCredential(o)
  <2>1. HoldsCode(call[o])
    BY <1>7 DEF FindCredential, At, HoldsCode
  <2> QED BY <1>3, <1>5, <1>7, <2>1 DEF FindCredential
<1>8. CASE UnassignRead(o) \/ RecoverRead(o) \/ RevokeCredentials(o)
  <2>1. End(o) \/ (others /\ same /\ call'[o].at \in {"write", "spend", "memberships"})
    <3>1. CASE UnassignRead(o)
      BY <1>0, <3>1 DEF UnassignRead, CallRow
    <3>2. CASE RecoverRead(o)
      BY <1>0, <3>2 DEF RecoverRead, CallRow
    <3>3. CASE RevokeCredentials(o)
      BY <1>0, <3>3 DEF RevokeCredentials, CallRow
    <3> QED BY <1>8, <3>1, <3>2, <3>3
  <2> QED BY <1>3, <1>4, <2>1
<1>9. CASE RevokeMemberships(o) \/ Mint(o)
  <2>1. End(o) \/ (others /\ same /\ call'[o].at = call[o].at)
    <3>1. CASE RevokeMemberships(o) /\ ~End(o)
      <4>1. PICK listed \in call[o].rows : call' = [call EXCEPT ![o].rows = @ \ {listed}]
        BY <3>1 DEF RevokeMemberships
      <4> QED BY <1>0, <4>1 DEF CallRow
    <3>2. CASE Mint(o) /\ ~End(o)
      <4>1. call' = [call EXCEPT ![o].left = @ - 1]
        BY <3>2 DEF Mint
      <4> QED BY <1>0, <4>1 DEF CallRow
    <3> QED BY <1>9, <3>1, <3>2
  <2>2. call[o].at \in {"memberships", "mint"}
    BY <1>9 DEF RevokeMemberships, Mint, At
  <2> QED BY <1>3, <1>4, <2>1, <2>2
<1>10. CASE Invite(o)
  <2>1. End(o) \/ (others /\ same /\ call'[o].at = "mint")
    BY <1>0, <1>10 DEF Invite, CallRow
  <2> QED BY <1>3, <1>4, <2>1
<1> QED BY <1>6, <1>7, <1>8, <1>9, <1>10

LEMMA CodeAsked ==
  ASSUME AccountsInv, CodeInv, NEW o \in Manager, NEW k \in Kind, Ask(o, k)
  PROVE  CodeInv'
<1>0. call \in [Manager -> CallRow]
  BY DEF AccountsInv, CallsOK
<1>1. /\ \A p \in Manager \ {o} : call'[p] = call[p]
      /\ call'[o].at = Entry[k] /\ call'[o].kind = k
      /\ k = "recover" => call'[o].code \in Code
      /\ UNCHANGED <<code, resets>>
  BY <1>0 DEF Ask, Request
<1>2. Entry[k] \notin {"credential", "reset"}
  BY DEF Entry, Kind
<1>3. ~HoldsCode(call'[o])
  BY <1>1, <1>2 DEF HoldsCode
<1>4. code' \in [Code -> CodeRow]
  BY <1>1 DEF CodeInv
<1> QED BY <1>1, <1>3, <1>4, NoCodeGained

LEMMA CodesFounded ==
  ASSUME AccountsInv, CodeInv, NEW o \in Manager, Genesis(o)
  PROVE  CodeInv'
<1>0. call \in [Manager -> CallRow]
  BY DEF AccountsInv, CallsOK
<1>1. /\ \A p \in Manager \ {o} : call'[p] = call[p]
      /\ call'[o].kind \in {"login", "idle"} /\ UNCHANGED resets
  <2> DEFINE r == [Idle EXCEPT !.kind = "login", !.at = "read", !.account = Fresh, !.password = 1]
  <2>1. r.kind = "login" /\ Idle.kind = "idle"
    BY DEF Idle
  <2>2. UNCHANGED resets /\ (call' = [call EXCEPT ![o] = r] \/ call' = [call EXCEPT ![o] = Idle])
    BY DEF Genesis, End
  <2> HIDE DEF r
  <2> QED BY <1>0, <2>1, <2>2
<1>2. code' \in [Code -> CodeRow] /\ \A c \in Code : code'[c].state = "consumed" <=> code[c].state = "consumed"
  <2>1. CASE GenesisRows(o) /\ founder = Nobody
    <3>1. call[o].name \in Name \cup {Gone}
      BY CallIs DEF Genesis, AccountsInv, Kind, CallRow
    <3>2. Fresh \in Account
      BY <2>1, <3>1, Founding DEF GenesisRows
    <3> DEFINE new == [owner |-> Fresh, durable |-> TRUE, state |-> "live"]
    <3>3. new \in CodeRow /\ new.state = "live"
      BY <3>2 DEF CodeRow
    <3>4. code' = [c \in Code |-> IF code[c].state = "unissued" THEN new ELSE code[c]]
      BY <2>1 DEF GenesisRows
    <3> HIDE DEF new
    <3> QED BY <3>3, <3>4 DEF CodeInv
  <2>2. CASE UNCHANGED code
    BY <2>2 DEF CodeInv
  <2> QED BY <2>1, <2>2 DEF Genesis, RowsFree
<1>3. ~HoldsCode(call'[o]) /\ call'[o].kind # "recover"
  BY <1>1 DEF HoldsCode
<1> QED BY <1>1, <1>2, <1>3, NoCodeGained

\* The UPDATE with its conditions: one request spends the code.
LEMMA CodeSpent ==
  ASSUME AccountsInv, CodeInv, NEW o \in Manager, Spend(o)
  PROVE  CodeInv'
<1> DEFINE c == call[o].code
<1>0. /\ call \in [Manager -> CallRow] /\ call[o] \in CallRow /\ call[o].kind = "recover"
      /\ call[o].at = "spend" /\ c \in Code
  BY CallIs DEF AccountsInv, CallsOK, Spend, At, CodeInv
<1>1. UNCHANGED resets
  BY DEF Spend
<1>2. CASE UNCHANGED code /\ End(o)
  <2>1. (\A p \in Manager \ {o} : call'[p] = call[p]) /\ call'[o].kind = "idle"
    BY <1>0, <1>2 DEF End, Idle
  <2> QED BY <1>1, <1>2, <2>1, NoCodeGained DEF HoldsCode, CodeInv
<1>3. CASE /\ code[c].state = "live" /\ code' = [code EXCEPT ![c].state = "consumed"]
           /\ End(o) \/ Go(o, "credential")
  <2> DEFINE row == [code[c] EXCEPT !.state = "consumed"]
  <2>1. row \in CodeRow /\ row.state = "consumed"
    BY <1>0 DEF CodeInv, CodeRow
  <2>2. code' = [code EXCEPT ![c] = row]
    BY <1>3 DEF CodeInv, CodeRow
  <2> HIDE DEF row
  <2>3. /\ code' \in [Code -> CodeRow] /\ code'[c].state = "consumed" /\ resets[c] = 0
        /\ \A d \in Code \ {c} : code'[d] = code[d]
    BY <1>0, <1>3, <2>1, <2>2 DEF CodeInv
  <2>4. /\ \A p \in Manager \ {o} : call'[p] = call[p]
        /\ call'[o].kind \in {"recover", "idle"} /\ (call'[o].kind = "recover" => call'[o].code = c)
    BY <1>0, <1>3 DEF End, Go, Idle, CallRow
  <2> HIDE DEF c
  <2>5. \A p \in Manager : HoldsCode(call[p]) => call[p].code # c
    BY <1>3 DEF CodeInv
  <2>6. \A p \in Manager : call'[p].kind = "recover" => call'[p].code \in Code
    BY <1>0, <2>4 DEF CodeInv
  <2>7. \A p \in Manager : HoldsCode(call'[p]) =>
          code'[call'[p].code].state = "consumed" /\ resets[call'[p].code] = 0
    BY <2>3, <2>4, <2>6 DEF CodeInv, HoldsCode
  <2>8. \A p, q \in Manager :
          HoldsCode(call'[p]) /\ HoldsCode(call'[q]) /\ call'[p].code = call'[q].code => p = q
    BY <2>4, <2>5 DEF CodeInv, HoldsCode
  <2>9. \A d \in Code : code'[d].state # "consumed" => resets[d] = 0
    BY <2>3 DEF CodeInv
  <2> QED BY <1>1, <2>3, <2>6, <2>7, <2>8, <2>9 DEF CodeInv
<1> QED BY <1>2, <1>3 DEF Spend, Usable

\* The password is replaced by the one request that holds the code.
LEMMA PasswordReset ==
  ASSUME AccountsInv, CodeInv, NEW o \in Manager, Reset(o)
  PROVE  CodeInv'
<1> DEFINE c == call[o].code
<1>0. /\ call \in [Manager -> CallRow] /\ call[o] \in CallRow /\ HoldsCode(call[o]) /\ c \in Code
  BY CallIs DEF AccountsInv, CallsOK, Reset, At, CodeInv, HoldsCode
<1>1. resets[c] = 0 /\ code[c].state = "consumed" /\ UNCHANGED code
  BY <1>0 DEF CodeInv, Reset
<1>2. resets' = [resets EXCEPT ![c] = 1]
  BY <1>0, <1>1 DEF Reset, CodeInv
<1>3. (\A p \in Manager \ {o} : call'[p] = call[p]) /\ call'[o].at = "sever"
      /\ call'[o].kind = call[o].kind /\ call'[o].code = c
  BY <1>0 DEF Reset, Go, CallRow
<1> HIDE DEF c
<1>4. \A p \in Manager : HoldsCode(call'[p]) => p # o /\ HoldsCode(call[p]) /\ call'[p].code = call[p].code
  BY <1>3 DEF HoldsCode
<1>5. \A p \in Manager : HoldsCode(call'[p]) => call'[p].code # c /\ call[p].code \in Code
  BY <1>0, <1>4 DEF CodeInv, HoldsCode, c
<1>6. /\ resets' \in [Code -> {0, 1}] /\ \A d \in Code \ {c} : resets'[d] = resets[d]
  BY <1>0, <1>2 DEF CodeInv
<1>7. \A p \in Manager : call'[p].kind = "recover" => call'[p].code \in Code
  BY <1>0, <1>3 DEF CodeInv
<1> QED BY <1>1, <1>4, <1>5, <1>6, <1>7 DEF CodeInv

LEMMA CodeExpires ==
  ASSUME CodeInv, NEW c \in Code, Expire(c)
  PROVE  CodeInv'
<1> DEFINE row == [code[c] EXCEPT !.state = "expired"]
<1>1. row \in CodeRow /\ row.state = "expired"
  BY DEF CodeInv, CodeRow
<1>2. code' = [code EXCEPT ![c] = row] /\ code[c].state = "live" /\ UNCHANGED <<call, resets>>
  BY DEF Expire, CodeInv, CodeRow
<1> HIDE DEF row
<1>3. /\ code' \in [Code -> CodeRow]
      /\ \A d \in Code : code'[d].state = "consumed" <=> code[d].state = "consumed"
  BY <1>1, <1>2 DEF CodeInv
<1> QED BY <1>2, <1>3 DEF CodeInv, HoldsCode

LEMMA CodeInvStep ==
  ASSUME AccountsInv, CodeInv, [AccountsNext]_accountVars
  PROVE  CodeInv'
<1>1. CASE UNCHANGED accountVars
  BY <1>1 DEF accountVars, CodeInv, HoldsCode
<1>2. ASSUME NEW o \in Manager, Step(o) PROVE CodeInv'
  <2>1. CASE \E k \in menu : Ask(o, k)
    BY <2>1, CodeAsked DEF AccountsInv
  <2> QED BY <1>2, <2>1, CodesStay, CodesFounded, CodeSpent, PasswordReset DEF Step
<1> QED BY <1>1, <1>2, CodeExpires DEF AccountsNext

\* A recovery code replaces a password at most once, however many requests
\* present it at once (the conditional UPDATE of consume_recovery_code).
THEOREM CodeOnceHolds == AccountsSpec => []CodeOnce
<1>1. CodeInv => CodeOnce
  BY DEF CodeInv, CodeOnce
<1> QED BY <1>1, AccountsInitInv, AccountsInvStep, CodeInitInv, CodeInvStep, PTL DEF AccountsSpec
-----------------------------------------------------------------------------

(***************************************************************************)
(* Statuses.                                                               *)
(*                                                                         *)
(* A row's revision only rises, and rises with every status: so a request  *)
(* whose revision is the row's still sees the status that it looked at     *)
(* (ReadStill).  A revision above the row's is never presented (NotAhead). *)
(***************************************************************************)

\* A request that looked at the status and has not written it yet.
Looked(r) == \/ r.kind \in {"patch", "enable"} /\ r.at = "status"
             \/ r.kind = "recover" /\ r.at \in {"spend", "credential", "reset", "sever", "status"}

\* The status, with the one it is to become, is one the request may change.
Fits(r) == IF r.kind = "recover" THEN account[r.account].status = "recovery_required"
           ELSE <<account[r.account].status, r.target>> \in Allowed[r.kind]

NotAhead(r) == r.kind \in {"patch", "enable"} => r.revision <= account[r.account].revision
ReadStill(r) ==
  Looked(r) => /\ account[r.account].status # "absent"
               /\ r.revision <= account[r.account].revision
               /\ r.revision = account[r.account].revision => Fits(r)

StatusInv ==
  /\ \A a \in Account : account[a].status = "absent" => account[a].revision = 0
  /\ \A o \in Manager : NotAhead(call[o]) /\ ReadStill(call[o])

LEMMA StatusInitInv == AccountsInit => StatusInv
<1> SUFFICES ASSUME AccountsInit PROVE StatusInv
  OBVIOUS
<1>1. \A o \in Manager : call[o].kind = "idle"
  BY DEF AccountsInit, Idle
<1>2. \A a \in Account : account[a].revision = 0
  <2>1. CASE FreshStore
    BY <2>1 DEF FreshStore, NoAccount
  <2>2. CASE RunningStore
    BY <2>2 DEF RunningStore, NoAccount
  <2> QED BY <2>1, <2>2 DEF AccountsInit
<1> QED BY <1>1, <1>2 DEF StatusInv, NotAhead, ReadStill, Looked

\* What a step may do to the rows: nothing, or a new row in a free place, or
\* the next revision of a row that exists.
RowMoves(a) ==
  \/ account'[a] = account[a]
  \/ account[a].status = "absent" /\ account'[a].revision = 0 /\ account'[a].status # "absent"
  \/ /\ account[a].status # "absent" /\ account'[a].status # "absent"
     /\ account'[a].revision = account[a].revision + 1
RowsMove == \A a \in Account : RowMoves(a)

\* Requests that stay as they are keep what they know.
LEMMA StillTrue ==
  ASSUME AccountsInv, StatusInv, RowsMove, NEW r \in CallRow,
         r.account \in Account, NotAhead(r), ReadStill(r)
  PROVE  NotAhead(r)' /\ ReadStill(r)'
<1> DEFINE a == r.account
<1>1. RowMoves(a) /\ account[a].revision \in Nat /\ r.revision \in Nat
  BY DEF RowsMove, AccountsInv, RowsOK, AccountRow, CallRow
<1>2. CASE account'[a] = account[a]
  BY <1>2 DEF NotAhead, ReadStill, Looked, Fits
<1>3. CASE account[a].status = "absent" /\ account'[a].revision = 0
  <2>1. account[a].revision = 0 /\ ~Looked(r)
    BY <1>3 DEF StatusInv, ReadStill
  <2> QED BY <1>3, <2>1 DEF NotAhead, ReadStill, Looked
<1>4. CASE account'[a].status # "absent" /\ account'[a].revision = account[a].revision + 1
  BY <1>1, <1>4 DEF NotAhead, ReadStill
<1> QED BY <1>1, <1>2, <1>3, <1>4 DEF RowMoves

\* A step of one request: the others keep what they know.
LEMMA StatusKept ==
  ASSUME AccountsInv, StatusInv, RowsMove, NEW o \in Manager,
         \A p \in Manager \ {o} : call'[p] = call[p],
         NotAhead(call[o])', ReadStill(call[o])'
  PROVE  StatusInv'
<1>1. ASSUME NEW p \in Manager PROVE NotAhead(call[p])' /\ ReadStill(call[p])'
  <2>1. CASE p = o
    BY <2>1
  <2>2. CASE p # o /\ call[p].kind = "idle"
    BY <2>2 DEF NotAhead, ReadStill, Looked
  <2>3. CASE p # o /\ call[p].kind # "idle"
    <3> DEFINE r == call[p]
    <3>1. r \in CallRow /\ r.account \in Account /\ NotAhead(r) /\ ReadStill(r) /\ call'[p] = r
      BY <2>3 DEF AccountsInv, CallsOK, Directed, StatusInv
    <3>2. PICK s : s = r
      OBVIOUS
    <3> HIDE DEF r
    <3>3. NotAhead(s)' /\ ReadStill(s)'
      BY <3>1, <3>2, StillTrue
    <3>4. NotAhead(call[p])' /\ ReadStill(call[p])'
      BY <3>1, <3>2, <3>3 DEF NotAhead, ReadStill, Looked, Fits
    <3> QED BY <3>4
  <2> QED BY <2>1, <2>2, <2>3
<1>2. \A a \in Account : account'[a].status = "absent" => account'[a].revision = 0
  BY DEF RowsMove, RowMoves, StatusInv
<1> QED BY <1>1, <1>2 DEF StatusInv


\* The step leaves every other call alone; o's own does not look at a status.
LEMMA StatusIndifferent ==
  ASSUME AccountsInv, StatusInv, RowsMove, NEW o \in Manager,
         \A p \in Manager \ {o} : call'[p] = call[p],
         call'[o].kind \notin {"patch", "enable", "recover"}
  PROVE  StatusInv'
BY StatusKept DEF NotAhead, ReadStill, Looked

LEMMA RowsAlone == ASSUME UNCHANGED account PROVE RowsMove
BY DEF RowsMove, RowMoves

LEMMA StatusEnd == ASSUME AccountsInv, StatusInv, RowsMove, NEW o \in Manager, End(o) PROVE StatusInv'
<1>1. (\A p \in Manager \ {o} : call'[p] = call[p]) /\ call'[o].kind = "idle"
  BY DEF End, Idle, AccountsInv, CallsOK
<1> QED BY <1>1, StatusIndifferent

\* The request goes on with what it knew.
LEMMA StatusCarried ==
  ASSUME AccountsInv, StatusInv, UNCHANGED account, NEW o \in Manager, NEW label, Go(o, label),
         Looked([call[o] EXCEPT !.at = label]) => Looked(call[o])
  PROVE  StatusInv'
<1> DEFINE r == [call[o] EXCEPT !.at = label]
<1>0. call[o] \in CallRow /\ call \in [Manager -> CallRow]
  BY DEF AccountsInv, CallsOK
<1>1. /\ r.kind = call[o].kind /\ r.account = call[o].account /\ r.revision = call[o].revision
      /\ r.target = call[o].target
  BY <1>0 DEF CallRow
<1>2. call' = [call EXCEPT ![o] = r]
  BY <1>0 DEF Go
<1> HIDE DEF r
<1>3. (\A p \in Manager \ {o} : call'[p] = call[p]) /\ call'[o] = r
  BY <1>0, <1>2
<1>4. NotAhead(call[o])'
  BY <1>1, <1>3 DEF StatusInv, NotAhead
<1>5. ReadStill(call[o])'
  <2>1. Looked(r) => Looked(call[o])
    BY DEF r
  <2>2. Looked(call[o])' => Looked(r)
    BY <1>3 DEF Looked
  <2> QED BY <1>1, <1>3, <2>1, <2>2 DEF StatusInv, ReadStill, Fits
<1> QED BY <1>3, <1>4, <1>5, RowsAlone, StatusKept

LEMMA InsertMoves ==
  ASSUME RowsOK, Room, NEW n, NEW status, status # "absent", NEW origin, NEW r, NEW password,
         Insert(Fresh, n, status, origin, r, password)
  PROVE  RowsMove
<1>1. Fresh \in Account /\ account[Fresh].status = "absent"
  BY DEF Room, Fresh
<1> DEFINE f == Fresh
           row == [status |-> status, revision |-> 0, name |-> n, origin |-> origin]
<1>2. account' = [account EXCEPT ![f] = row]
  BY DEF Insert
<1>3. row.revision = 0 /\ row.status # "absent" /\ f \in Account /\ account[f].status = "absent"
  BY <1>1
<1> HIDE DEF f, row
<1> QED BY <1>2, <1>3 DEF RowsOK, RowsMove, RowMoves

LEMMA SetMoves ==
  ASSUME RowsOK, NEW a \in Account, NEW status, status # "absent", account[a].status # "absent",
         SetStatus(a, status)
  PROVE  /\ RowsMove
         /\ account'[a].status = status /\ \A b \in Account \ {a} : account'[b] = account[b]
<1> DEFINE n == IF status = "deleted_tombstone" THEN Gone ELSE account[a].name
           rev == account[a].revision + 1
<1>1. account' = [account EXCEPT ![a].status = status, ![a].revision = rev, ![a].name = n]
  BY DEF SetStatus, RowsOK, AccountRow
<1> HIDE DEF n
<1>2. /\ account'[a].status = status /\ account'[a].revision = rev
      /\ \A b \in Account \ {a} : account'[b] = account[b]
  BY <1>1 DEF RowsOK, AccountRow
<1> QED BY <1>2 DEF RowsMove, RowMoves

\* The UPDATE of a status, by a request that looked at it.
LEMMA WritesMove ==
  ASSUME AccountsInv, StatusInv, NEW o \in Manager, WriteStatus(o)
  PROVE  /\ End(o) /\ RowsMove
         /\ \/ UNCHANGED account
            \/ /\ Looked(call[o]) /\ Fits(call[o]) /\ call[o].account \in Account
               /\ account'[call[o].account].status = call[o].target
               /\ \A b \in Account \ {call[o].account} : account'[b] = account[b]
<1> DEFINE a == call[o].account
<1>1. /\ a \in Account /\ call[o] \in CallRow /\ Looked(call[o]) /\ End(o)
      /\ UNCHANGED account \/ (SameRevision(o) /\ SetStatus(a, call[o].target))
  BY CallIs DEF WriteStatus, AccountsInv, Kind, Looked
<1>2. CASE UNCHANGED account
  BY <1>1, <1>2, RowsAlone
<1>3. CASE SameRevision(o) /\ SetStatus(a, call[o].target)
  <2>1. account[a].status # "absent" /\ Fits(call[o])
    BY <1>1, <1>3 DEF StatusInv, ReadStill, SameRevision
  <2>2. call[o].target # "absent"
    BY <1>1 DEF CallRow
  <2> QED BY <1>1, <1>3, <2>1, <2>2, SetMoves DEF AccountsInv
<1> QED BY <1>1, <1>2, <1>3

\* The guarded UPDATEs that close an account.
LEMMA ClosesMove ==
  ASSUME AccountsInv, NEW o \in Manager, Disable(o) \/ Delete(o) \/ Tombstone(o)
  PROVE  /\ RowsMove /\ call[o].kind \in {"disable", "delete", "tombstone"}
         /\ \/ UNCHANGED account /\ End(o)
            \/ /\ Go(o, "sever") /\ call[o].account \in Account
               /\ \A b \in Account \ {call[o].account} : account'[b] = account[b]
               /\ \/ call[o].kind = "disable" /\ account'[call[o].account].status = "disabled"
                  \/ call[o].kind = "delete" /\ account'[call[o].account].status = "deletion_pending"
                  \/ call[o].kind = "tombstone" /\ account[call[o].account].status = "deletion_pending"
<1> DEFINE a == call[o].account
<1>1. a \in Account /\ call[o].kind \in {"disable", "delete", "tombstone"} /\ RowsOK
  <2>1. a \in Account
    BY CallIs DEF Disable, Delete, Tombstone, AccountsInv, Kind
  <2> QED BY <2>1 DEF Disable, Delete, Tombstone, At, AccountsInv
<1>2. CASE UNCHANGED account /\ End(o)
  BY <1>1, <1>2, RowsAlone
<1>3. ASSUME NEW status, status # "absent", Exists(a), SetStatus(a, status), Go(o, "sever")
      PROVE  /\ RowsMove
             /\ account'[a].status = status /\ \A b \in Account \ {a} : account'[b] = account[b]
  BY <1>1, <1>3, SetMoves DEF Exists
<1>4. CASE Disable(o) /\ ~(UNCHANGED account /\ End(o))
  <2>1. Exists(a) /\ SetStatus(a, "disabled") /\ Go(o, "sever") /\ call[o].kind = "disable"
    BY <1>4 DEF Disable, CloseIf, At
  <2> QED BY <1>1, <1>3, <2>1
<1>5. CASE Delete(o) /\ ~(UNCHANGED account /\ End(o))
  <2>1. Exists(a) /\ SetStatus(a, "deletion_pending") /\ Go(o, "sever") /\ call[o].kind = "delete"
    BY <1>5 DEF Delete, CloseIf, At
  <2> QED BY <1>1, <1>3, <2>1
<1>6. CASE Tombstone(o) /\ ~(UNCHANGED account /\ End(o))
  <2>1. /\ Exists(a) /\ SetStatus(a, "deleted_tombstone") /\ Go(o, "sever") /\ call[o].kind = "tombstone"
        /\ account[a].status = "deletion_pending"
    BY <1>6 DEF Tombstone, CloseIf, At
  <2> QED BY <1>1, <1>3, <2>1
<1> QED BY <1>2, <1>4, <1>5, <1>6

LEMMA FoundingMoves ==
  ASSUME AccountsInv, NEW o \in Manager,
         Bootstrap(o) \/ Genesis(o) \/ Create(o) \/ Invite(o)
  PROVE  RowsMove
<1>1. CASE UNCHANGED account
  BY <1>1, RowsAlone
<1>2. CASE FoundAccount(o)
  BY <1>2, InsertMoves DEF FoundAccount, AccountsInv
<1>3. CASE Room /\ Insert(Fresh, call[o].name, "active", "created", call[o].role, 1)
  BY <1>3, InsertMoves DEF AccountsInv
<1>4. CASE Room /\ Insert(Fresh, call[o].name, "invited", "imported", call[o].role, 0)
  BY <1>4, InsertMoves DEF AccountsInv
<1> QED BY <1>1, <1>2, <1>3, <1>4 DEF Bootstrap, Genesis, GenesisRows, Create, Invite

\* A step either touches no account, or is one that may.
LEMMA StepMoves ==
  ASSUME AccountsInv, StatusInv, NEW o \in Manager, Step(o)
  PROVE  /\ RowsMove
         /\ \/ UNCHANGED account
            \/ Bootstrap(o) \/ Genesis(o) \/ Create(o) \/ Invite(o)
            \/ Disable(o) \/ Delete(o) \/ Tombstone(o) \/ WriteStatus(o)
<1>1. \/ UNCHANGED account
      \/ Bootstrap(o) \/ Genesis(o) \/ Create(o) \/ Invite(o)
      \/ Disable(o) \/ Delete(o) \/ Tombstone(o) \/ WriteStatus(o)
  BY DEF Step, Ask, Drop, SetupCheck, Resolve, GrantRead, UnassignRead, Grant, Unassign, Sever,
         RevokeCredentials, RevokeMemberships, PatchRead, EnableRead, ReadForCodes, Mint,
         RecoverRead, Spend, FindCredential, Reset, LoginRead, Verify, Rehash, Issue
<1> QED BY <1>1, RowsAlone, FoundingMoves, ClosesMove, WritesMove

LEMMA StatusAsked ==
  ASSUME AccountsInv, StatusInv, NEW o \in Manager, NEW k \in Kind, Ask(o, k)
  PROVE  StatusInv'
<1>0. call \in [Manager -> CallRow]
  BY DEF AccountsInv, CallsOK
<1>1. /\ \A p \in Manager \ {o} : call'[p] = call[p]
      /\ call'[o].at = Entry[k] /\ call'[o].kind = k
      /\ call'[o].revision <= account[call'[o].account].revision
      /\ UNCHANGED account
  BY <1>0 DEF Ask, Request
<1>2. k \in {"patch", "enable", "recover"} => Entry[k] = "read"
  BY DEF Entry
<1>3. NotAhead(call[o])' /\ ReadStill(call[o])'
  BY <1>1, <1>2 DEF NotAhead, ReadStill, Looked
<1> QED BY <1>1, <1>3, RowsAlone, StatusKept

\* PATCH and enable look at the status.
LEMMA StatusLooked ==
  ASSUME AccountsInv, StatusInv, NEW o \in Manager, NEW k \in {"patch", "enable"},
         At(o, {k}, "read"), MayReach(k, o), Go(o, "status"), UNCHANGED account
  PROVE  StatusInv'
<1> DEFINE r == [call[o] EXCEPT !.at = "status"]
<1>0. call[o] \in CallRow /\ call \in [Manager -> CallRow] /\ call[o].kind = k
  BY DEF AccountsInv, CallsOK, At
<1>1. /\ r.kind = k /\ r.account = call[o].account /\ r.revision = call[o].revision
      /\ r.target = call[o].target
  BY <1>0 DEF CallRow
<1>2. call' = [call EXCEPT ![o] = r]
  BY <1>0 DEF Go
<1> HIDE DEF r
<1>3. (\A p \in Manager \ {o} : call'[p] = call[p]) /\ call'[o] = r
  BY <1>0, <1>2
<1>4. NotAhead(call[o])'
  BY <1>0, <1>1, <1>3 DEF StatusInv, NotAhead
<1>5. <<account[r.account].status, r.target>> \in Allowed[k]
  BY <1>1 DEF MayReach
<1>6. account[r.account].status # "absent"
  BY <1>5 DEF Allowed
<1>7. r.revision <= account[r.account].revision
  BY <1>0, <1>1 DEF StatusInv, NotAhead
<1>8. ReadStill(call[o])'
  BY <1>1, <1>3, <1>5, <1>6, <1>7 DEF ReadStill, Fits
<1> QED BY <1>3, <1>4, <1>8, RowsAlone, StatusKept

\* A recovery takes the revision from the row it looks at.
LEMMA StatusRecovers ==
  ASSUME AccountsInv, StatusInv, NEW o \in Manager, RecoverRead(o)
  PROVE  StatusInv'
<1>0. call[o] \in CallRow /\ call \in [Manager -> CallRow] /\ UNCHANGED account
  BY DEF AccountsInv, CallsOK, RecoverRead
<1>1. CASE End(o)
  BY <1>0, <1>1, RowsAlone, StatusEnd
<1>2. CASE /\ account[call[o].account].status = "recovery_required"
           /\ call' = [call EXCEPT ![o].at = "spend", ![o].revision = account[call[o].account].revision]
  <2> DEFINE rev == account[call[o].account].revision
  <2>1. rev \in Nat
    BY CallIs DEF RecoverRead, AccountsInv, Kind, RowsOK, AccountRow
  <2>2. call' = [call EXCEPT ![o].at = "spend", ![o].revision = rev]
    BY <1>2
  <2>3. rev = account[call[o].account].revision
    OBVIOUS
  <2> HIDE DEF rev
  <2>4. /\ \A p \in Manager \ {o} : call'[p] = call[p]
        /\ call'[o].kind = call[o].kind /\ call'[o].account = call[o].account
        /\ call'[o].revision = rev
    BY <1>0, <2>2 DEF CallRow
  <2>5. call[o].kind = "recover"
    BY DEF RecoverRead, At
  <2>6. NotAhead(call[o])' /\ ReadStill(call[o])'
    BY <1>0, <1>2, <2>1, <2>3, <2>4, <2>5 DEF NotAhead, ReadStill, Fits
  <2> QED BY <1>0, <2>4, <2>6, RowsAlone, StatusKept
<1> QED BY <1>1, <1>2 DEF RecoverRead

LEMMA StatusInvStep ==
  ASSUME AccountsInv, StatusInv, [AccountsNext]_accountVars
  PROVE  StatusInv'
<1>1. CASE UNCHANGED accountVars
  BY <1>1 DEF accountVars, StatusInv, NotAhead, ReadStill, Looked, Fits
<1>2. CASE \E c \in Code : Expire(c)
  BY <1>2 DEF Expire, StatusInv, NotAhead, ReadStill, Looked, Fits
<1>3. ASSUME NEW o \in Manager, Step(o) PROVE StatusInv'
  <2>0. RowsMove /\ call[o] \in CallRow /\ call \in [Manager -> CallRow]
    BY <1>3, StepMoves DEF AccountsInv, CallsOK
  <2>1. CASE End(o)
    BY <2>0, <2>1, StatusEnd
  <2>2. CASE \E k \in menu : Ask(o, k)
    BY <2>2, StatusAsked DEF AccountsInv
  <2>3. CASE (PatchRead(o) \/ EnableRead(o)) /\ ~End(o)
    BY <2>3, StatusLooked DEF PatchRead, EnableRead
  <2>4. CASE RecoverRead(o)
    BY <2>4, StatusRecovers
  <2>5. CASE (Spend(o) \/ FindCredential(o) \/ Reset(o)) /\ ~End(o)
    <3>1. Looked(call[o]) /\ UNCHANGED account /\ \E label : Go(o, label)
      BY <2>5 DEF Spend, FindCredential, Reset, At, Looked
    <3> QED BY <3>1, StatusCarried
  <2>6. CASE Sever(o) /\ ~End(o)
    <3>1. UNCHANGED account /\ \/ call[o].kind = "tombstone" /\ Go(o, "credentials")
                               \/ call[o].kind = "recover" /\ call[o].at = "sever" /\ Go(o, "status")
      BY <2>6 DEF Sever, At
    <3>2. CASE call[o].kind = "recover" /\ call[o].at = "sever" /\ Go(o, "status")
      BY <3>1, <3>2, StatusCarried DEF Looked
    <3>3. CASE call[o].kind = "tombstone" /\ Go(o, "credentials")
      <4>1. (\A p \in Manager \ {o} : call'[p] = call[p]) /\ call'[o].kind = "tombstone"
        BY <2>0, <3>3 DEF Go, CallRow
      <4> QED BY <2>0, <4>1, StatusIndifferent
    <3> QED BY <3>1, <3>2, <3>3
  <2>7. ASSUME \A p \in Manager \ {o} : call'[p] = call[p], call'[o].kind \notin {"patch", "enable", "recover"}
        PROVE  StatusInv'
    BY <2>0, <2>7, StatusIndifferent
  <2>8. ASSUME ~End(o),
               \/ SetupCheck(o) \/ Resolve(o) \/ GrantRead(o) \/ UnassignRead(o)
               \/ Invite(o) \/ Disable(o) \/ Delete(o) \/ Tombstone(o)
               \/ RevokeCredentials(o) \/ RevokeMemberships(o) \/ ReadForCodes(o) \/ Mint(o)
               \/ LoginRead(o) \/ Verify(o) \/ Rehash(o)
        PROVE  StatusInv'
    <3>1. call[o].kind \notin {"patch", "enable", "recover"}
      BY <2>8 DEF SetupCheck, Resolve, GrantRead, UnassignRead, Invite, Disable, Delete, Tombstone,
         RevokeCredentials, RevokeMemberships, ReadForCodes, Mint, LoginRead, Verify, Rehash, At
    <3>2. (\A p \in Manager \ {o} : call'[p] = call[p]) /\ call'[o].kind = call[o].kind
      <4>1. ASSUME NEW label, Go(o, label)
            PROVE  (\A p \in Manager \ {o} : call'[p] = call[p]) /\ call'[o].kind = call[o].kind
        BY <2>0, <4>1 DEF Go, CallRow
      <4>2. CASE \E label : Go(o, label)
        BY <4>1, <4>2
      <4>3. CASE UnassignRead(o) \/ Invite(o) \/ RevokeCredentials(o)
        <5>1. CASE UnassignRead(o)
          <6>1. call' = [call EXCEPT ![o].at = "write",
                                     ![o].row = membership[call[o].account][call[o].role].row]
            BY <2>8, <5>1 DEF UnassignRead
          <6> QED BY <2>0, <6>1 DEF CallRow
        <5>2. CASE Invite(o)
          BY <2>0, <2>8, <5>2 DEF Invite, CallRow
        <5>3. CASE RevokeCredentials(o)
          BY <2>0, <5>3 DEF RevokeCredentials, CallRow
        <5> QED BY <4>3, <5>1, <5>2, <5>3
      <4>4. CASE RevokeMemberships(o)
        <5>1. PICK listed \in call[o].rows : call' = [call EXCEPT ![o].rows = @ \ {listed}]
          BY <2>8, <4>4 DEF RevokeMemberships
        <5> QED BY <2>0, <5>1 DEF CallRow
      <4>5. CASE Mint(o)
        <5>1. call' = [call EXCEPT ![o].left = @ - 1]
          BY <2>8, <4>5 DEF Mint
        <5> QED BY <2>0, <5>1 DEF CallRow
      <4> QED BY <2>8, <4>2, <4>3, <4>4, <4>5 DEF SetupCheck, Resolve, GrantRead, Disable, Delete,
              Tombstone, CloseIf, ReadForCodes, LoginRead, Verify, Rehash
    <3> QED BY <2>7, <3>1, <3>2
  <2>9. CASE Genesis(o) /\ ~End(o)
    <3> DEFINE r == [Idle EXCEPT !.kind = "login", !.at = "read", !.account = Fresh, !.password = 1]
    <3>1. r.kind = "login"
      BY DEF Idle
    <3>2. call' = [call EXCEPT ![o] = r]
      BY <2>9 DEF Genesis
    <3> HIDE DEF r
    <3>3. (\A p \in Manager \ {o} : call'[p] = call[p]) /\ call'[o].kind = "login"
      BY <2>0, <3>1, <3>2
    <3> QED BY <2>7, <3>3
  <2>10. ASSUME Drop(o) \/ Bootstrap(o) \/ Create(o) \/ Grant(o) \/ Unassign(o) \/ WriteStatus(o) \/ Issue(o)
         PROVE  End(o)
    BY <2>10 DEF Drop, Bootstrap, Create, Grant, Unassign, WriteStatus, Issue
  <2> QED BY <1>3, <2>1, <2>2, <2>3, <2>4, <2>5, <2>6, <2>8, <2>9, <2>10 DEF Step
<1> QED BY <1>1, <1>2, <1>3 DEF AccountsNext

\* A status is only written over the one its handler looked at: what closed an
\* account meanwhile is never undone by a PATCH, an enable or a recovery that
\* had read it before (update_status compares the revision).
THEOREM StatusOverTheOneReadHolds == AccountsSpec => StatusOverTheOneRead
<1> DEFINE Over ==
      \A a \in Account :
       account[a].status # account'[a].status /\ Exists(a)
         => \E o \in Manager :
              /\ call[o].account = a /\ call'[o].at \in {"done", "sever"}
              /\ \/ call[o].kind = "patch" /\ <<account[a].status, account'[a].status>> \in Allowed.patch
                 \/ call[o].kind = "enable" /\ <<account[a].status, account'[a].status>> \in Allowed.enable
                 \/ call[o].kind = "recover" /\ account[a].status = "recovery_required"
                 \/ call[o].kind = "disable" /\ account'[a].status = "disabled"
                 \/ call[o].kind = "delete" /\ account'[a].status = "deletion_pending"
                 \/ call[o].kind = "tombstone" /\ account[a].status = "deletion_pending"
<1>1. ASSUME AccountsInv, StatusInv, [AccountsNext]_accountVars PROVE [Over]_accountVars
  <2>1. CASE UNCHANGED account
    BY <2>1
  <2>2. ASSUME NEW o \in Manager, Step(o), ~UNCHANGED account PROVE Over
    <3>0. call \in [Manager -> CallRow] /\ call[o] \in CallRow
      BY <1>1 DEF AccountsInv, CallsOK
    <3>1. CASE Bootstrap(o) \/ Genesis(o) \/ Create(o) \/ Invite(o)
      <4>1. \A a \in Account : Exists(a) => account'[a] = account[a]
        <5>1. ASSUME NEW n, NEW s, NEW g, NEW r, NEW p, Room, Insert(Fresh, n, s, g, r, p), NEW a \in Account, Exists(a)
              PROVE  account'[a] = account[a]
          <6> DEFINE f == Fresh
                     row == [status |-> s, revision |-> 0, name |-> n, origin |-> g]
          <6>1. f # a
            BY <5>1 DEF Room, Fresh, Exists
          <6>2. account' = [account EXCEPT ![f] = row]
            BY <5>1 DEF Insert
          <6> HIDE DEF f, row
          <6> QED BY <1>1, <6>1, <6>2 DEF AccountsInv, RowsOK
        <5>2. \E n, s, g, r, p : Room /\ Insert(Fresh, n, s, g, r, p)
          BY <2>2, <3>1 DEF Bootstrap, Genesis, GenesisRows, FoundAccount, Create, Invite
        <5> QED BY <5>1, <5>2
      <4> QED BY <4>1
    <3>2. CASE Disable(o) \/ Delete(o) \/ Tombstone(o)
      <4>1. /\ Go(o, "sever") /\ call[o].account \in Account
            /\ \A b \in Account \ {call[o].account} : account'[b] = account[b]
            /\ \/ call[o].kind = "disable" /\ account'[call[o].account].status = "disabled"
               \/ call[o].kind = "delete" /\ account'[call[o].account].status = "deletion_pending"
               \/ call[o].kind = "tombstone" /\ account[call[o].account].status = "deletion_pending"
        BY <1>1, <2>2, <3>2, ClosesMove
      <4>2. call'[o].at = "sever"
        BY <3>0, <4>1 DEF Go, CallRow
      <4> QED BY <4>1, <4>2
    <3>3. CASE WriteStatus(o)
      <4>1. /\ End(o) /\ Looked(call[o]) /\ Fits(call[o]) /\ call[o].account \in Account
            /\ account'[call[o].account].status = call[o].target
            /\ \A b \in Account \ {call[o].account} : account'[b] = account[b]
        BY <1>1, <2>2, <3>3, WritesMove
      <4>2. call'[o].at = "done"
        BY <3>0, <4>1 DEF End, Idle
      <4>3. \/ call[o].kind = "patch" /\ <<account[call[o].account].status, call[o].target>> \in Allowed.patch
            \/ call[o].kind = "enable" /\ <<account[call[o].account].status, call[o].target>> \in Allowed.enable
            \/ call[o].kind = "recover" /\ account[call[o].account].status = "recovery_required"
        BY <4>1 DEF Looked, Fits
      <4> QED BY <4>1, <4>2, <4>3
    <3> QED BY <1>1, <2>2, <3>1, <3>2, <3>3, StepMoves
  <2>3. CASE \E c \in Code : Expire(c)
    BY <2>1, <2>3 DEF Expire
  <2> QED BY <1>1, <2>1, <2>2, <2>3 DEF AccountsNext, accountVars
<1> QED BY <1>1, AccountsInitInv, AccountsInvStep, StatusInitInv, StatusInvStep, PTL
        DEF AccountsSpec, StatusOverTheOneRead

-----------------------------------------------------------------------------
(***************************************************************************)
(* Whose rows they are.  A request that is about to mint a code or to open *)
(* a session works for an account that exists, and no row of an account is *)
(* ever taken away again (a tombstone stays).                              *)
(***************************************************************************)
ForOwner(r) == \/ r.kind = "login" /\ r.at \in {"verify", "rehash", "issue"}
               \/ r.kind \in {"codes", "import"} /\ r.at = "mint"

OwnersInv ==
  /\ credential \in [Account -> CredentialRow] /\ session \in [Session -> SessionRow]
  /\ realm \in BOOLEAN /\ requests \in 0..MaxRequests
  /\ \A c \in Code : code[c].state # "unissued" => Exists(code[c].owner)
  /\ \A s \in Session : session[s].live => Exists(session[s].owner)
  /\ \A o \in Manager : ForOwner(call[o]) => Exists(call[o].account)

LEMMA OwnersInitInv == AccountsInit => OwnersInv
<1> SUFFICES ASSUME AccountsInit PROVE OwnersInv
  OBVIOUS
<1>1. session \in [Session -> SessionRow] /\ \A s \in Session : ~session[s].live
  BY DEF AccountsInit, NoSession, SessionRow, Password
<1>2. \A o \in Manager : call[o].kind = "idle"
  BY DEF AccountsInit, Idle
<1>3. requests \in 0..MaxRequests
  BY AccountsAssumption DEF AccountsInit
<1>4. CASE FreshStore
  <2>1. NoCredential \in CredentialRow
    BY DEF NoCredential, CredentialRow, Password
  <2>2. \A c \in Code : code[c].state = "unissued"
    BY <1>4 DEF FreshStore, NoCode
  <2>3. realm \in BOOLEAN /\ credential \in [Account -> CredentialRow]
    BY <1>4, <2>1 DEF FreshStore
  <2> QED BY <1>1, <1>2, <1>3, <2>2, <2>3 DEF OwnersInv, ForOwner
<1>5. CASE RunningStore
  <2>1. PICK outdated \in BOOLEAN :
          credential = [a \in Account |-> IF a \in Existing
            THEN [state |-> "active", password |-> 1, outdated |-> outdated] ELSE NoCredential]
    BY <1>5 DEF RunningStore
  <2>2. credential \in [Account -> CredentialRow]
    BY <2>1 DEF NoCredential, CredentialRow, Password
  <2>3. PICK a \in Existing, c \in Code :
          code = [x \in Code |-> IF x = c
               THEN [owner |-> a, durable |-> TRUE, state |-> "live"] ELSE NoCode]
    BY <1>5 DEF RunningStore
  <2>4. Exists(a)
    BY <1>5, AccountsAssumption DEF RunningStore, Exists, NoAccount
  <2>5. \A x \in Code : code[x].state # "unissued" => Exists(code[x].owner)
    BY <2>3, <2>4 DEF NoCode
  <2>6. realm \in BOOLEAN
    BY <1>5 DEF RunningStore
  <2> QED BY <1>1, <1>2, <1>3, <2>2, <2>5, <2>6 DEF OwnersInv, ForOwner
<1> QED BY <1>4, <1>5 DEF AccountsInit

\* An account that exists stays.
LEMMA AccountsRemain ==
  ASSUME RowsMove, NEW a, Exists(a)
  PROVE  Exists(a)'
BY DEF RowsMove, RowMoves, Exists


\* The request at work, and the others.
LEMMA OwnersAct ==
  ASSUME AccountsInv, OwnersInv, RowsMove, NEW o \in Manager,
         \A p \in Manager \ {o} : call'[p] = call[p],
         \/ ~ForOwner(call'[o])
         \/ ForOwner(call[o]) /\ call'[o].account = call[o].account
         \/ Exists(call[o].account)'
  PROVE  \A p \in Manager : ForOwner(call[p])' => Exists(call[p].account)'
<1>1. ASSUME NEW p \in Manager, p # o, ForOwner(call[p])' PROVE Exists(call[p].account)'
  <2>1. Exists(call[p].account) /\ call'[p].account = call[p].account
    BY <1>1 DEF OwnersInv
  <2> QED BY <2>1, AccountsRemain DEF Exists
<1>2. ASSUME ForOwner(call[o])' PROVE Exists(call[o].account)'
  <2>1. CASE ForOwner(call[o]) /\ call'[o].account = call[o].account
    <3>1. Exists(call[o].account)
      BY <2>1 DEF OwnersInv
    <3> QED BY <2>1, <3>1, AccountsRemain DEF Exists
  <2> QED BY <1>2, <2>1
<1> QED BY <1>1, <1>2

\* A request that ends, or that goes on with the account that it has.
LEMMA OwnersGo ==
  ASSUME AccountsInv, OwnersInv, RowsMove, NEW o \in Manager,
         \/ End(o)
         \/ \E label : /\ Go(o, label)
                       /\ label \notin {"mint", "verify", "rehash", "issue"} \/ Exists(call[o].account)
  PROVE  \A p \in Manager : ForOwner(call[p])' => Exists(call[p].account)'
<1>0. call \in [Manager -> CallRow]
  BY DEF AccountsInv, CallsOK
<1>1. CASE End(o)
  <2>1. (\A p \in Manager \ {o} : call'[p] = call[p]) /\ ~ForOwner(call'[o])
    BY <1>0, <1>1 DEF End, Idle, ForOwner
  <2> QED BY <2>1, OwnersAct
<1>2. ASSUME NEW label, Go(o, label),
             label \notin {"mint", "verify", "rehash", "issue"} \/ Exists(call[o].account)
      PROVE  \A p \in Manager : ForOwner(call[p])' => Exists(call[p].account)'
  <2>1. /\ \A p \in Manager \ {o} : call'[p] = call[p]
        /\ call'[o].at = label /\ call'[o].account = call[o].account
    BY <1>0, <1>2 DEF Go, CallRow
  <2>2. CASE label \notin {"mint", "verify", "rehash", "issue"}
    BY <2>1, <2>2, OwnersAct DEF ForOwner
  <2>3. CASE Exists(call[o].account)
    <3>1. Exists(call[o].account)'
      BY <2>1, <2>3, AccountsRemain DEF Exists
    <3> QED BY <2>1, <3>1, OwnersAct
  <2> QED BY <1>2, <2>2, <2>3
<1> QED BY <1>1, <1>2

LEMMA OwnersCalled ==
  ASSUME AccountsInv, OwnersInv, RowsMove, NEW o \in Manager, Step(o), menu \subseteq Kind
  PROVE  \A p \in Manager : ForOwner(call[p])' => Exists(call[p].account)'
<1>0. call \in [Manager -> CallRow] /\ call[o] \in CallRow
  BY DEF AccountsInv, CallsOK
<1> DEFINE Goal == \A p \in Manager : ForOwner(call[p])' => Exists(call[p].account)'
           others == \A p \in Manager \ {o} : call'[p] = call[p]
<1>1. CASE \/ Drop(o) \/ SetupCheck(o) \/ Bootstrap(o) \/ Resolve(o) \/ Create(o) \/ GrantRead(o)
           \/ Grant(o) \/ Unassign(o) \/ Disable(o) \/ Delete(o) \/ Tombstone(o) \/ Sever(o)
           \/ PatchRead(o) \/ EnableRead(o) \/ WriteStatus(o) \/ Spend(o) \/ FindCredential(o) \/ Reset(o)
  <2>1. End(o) \/ \E label : Go(o, label) /\ label \notin {"mint", "verify", "rehash", "issue"}
    <3>1. CASE Drop(o) \/ SetupCheck(o) \/ Bootstrap(o) \/ Resolve(o) \/ Create(o) \/ GrantRead(o)
               \/ Grant(o) \/ Unassign(o)
      <4>1. CASE Drop(o) \/ Bootstrap(o) \/ Create(o) \/ Grant(o) \/ Unassign(o)
        BY <4>1 DEF Drop, Bootstrap, Create, Grant, Unassign
      <4>2. CASE SetupCheck(o) \/ Resolve(o) \/ GrantRead(o)
        BY <4>2 DEF SetupCheck, Resolve, GrantRead
      <4> QED BY <3>1, <4>1, <4>2
    <3>2. CASE Disable(o) \/ Delete(o) \/ Tombstone(o)
      BY <3>2 DEF Disable, Delete, Tombstone, CloseIf
    <3>3. CASE Sever(o) \/ PatchRead(o) \/ EnableRead(o) \/ WriteStatus(o)
      BY <3>3 DEF Sever, PatchRead, EnableRead, WriteStatus
    <3>4. CASE Spend(o) \/ FindCredential(o) \/ Reset(o)
      BY <3>4 DEF Spend, FindCredential, Reset
    <3> QED BY <1>1, <3>1, <3>2, <3>3, <3>4
  <2> QED BY <2>1, OwnersGo
<1>2. CASE ReadForCodes(o)
  <2>1. End(o) \/ (Go(o, "mint") /\ Exists(call[o].account))
    BY <1>2 DEF ReadForCodes
  <2> QED BY <2>1, OwnersGo
<1>3. CASE LoginRead(o)
  <2>1. call[o].account \in Account
    BY <1>3, CallIs DEF LoginRead, AccountsInv, Kind
  <2>2. End(o) \/ (Go(o, "verify") /\ Exists(call[o].account))
    BY <1>3, <2>1 DEF LoginRead, Exists
  <2> QED BY <2>2, OwnersGo
<1>4. CASE Verify(o) \/ Rehash(o) \/ Issue(o)
  <2>1. Exists(call[o].account)
    BY <1>4 DEF Verify, Rehash, Issue, At, OwnersInv, ForOwner
  <2>2. End(o) \/ \E label : Go(o, label)
    BY <1>4 DEF Verify, Rehash, Issue
  <2> QED BY <2>1, <2>2, OwnersGo
<1>5. CASE UnassignRead(o) \/ RecoverRead(o) \/ RevokeCredentials(o)
  <2>1. End(o) \/ (others /\ call'[o].at \in {"write", "spend", "memberships"})
    <3>1. CASE UnassignRead(o)
      BY <1>0, <3>1 DEF UnassignRead, CallRow
    <3>2. CASE RecoverRead(o)
      BY <1>0, <3>2 DEF RecoverRead, CallRow
    <3>3. CASE RevokeCredentials(o)
      BY <1>0, <3>3 DEF RevokeCredentials, CallRow
    <3> QED BY <1>5, <3>1, <3>2, <3>3
  <2> QED BY <2>1, OwnersGo, OwnersAct DEF ForOwner
<1>6. CASE RevokeMemberships(o) /\ ~End(o)
  <2>1. PICK listed \in call[o].rows : call' = [call EXCEPT ![o].rows = @ \ {listed}]
    BY <1>6 DEF RevokeMemberships
  <2>2. others /\ call'[o].at = "memberships"
    BY <1>0, <1>6, <2>1 DEF CallRow, RevokeMemberships, At
  <2> QED BY <2>2, OwnersAct DEF ForOwner
<1>7. CASE Mint(o) /\ ~End(o)
  <2>1. call' = [call EXCEPT ![o].left = @ - 1] /\ ForOwner(call[o])
    BY <1>7 DEF Mint, At, ForOwner
  <2>2. others /\ call'[o].account = call[o].account
    BY <1>0, <2>1 DEF CallRow
  <2> QED BY <2>1, <2>2, OwnersAct
<1>8. CASE (RevokeMemberships(o) \/ Mint(o)) /\ End(o)
  BY <1>8, OwnersGo
<1>9. CASE Invite(o) /\ ~End(o)
  <2> DEFINE f == Fresh
  <2>1. /\ Room /\ Insert(f, call[o].name, "invited", "imported", call[o].role, 0)
        /\ call' = [call EXCEPT ![o].at = "mint", ![o].account = f]
    BY <1>9 DEF Invite
  <2>2. f \in Account
    BY <2>1 DEF Room, Fresh
  <2> HIDE DEF f
  <2>3. others /\ call'[o].account = f
    BY <1>0, <2>1 DEF CallRow
  <2>4. account'[f].status = "invited"
    BY <2>1, <2>2 DEF Insert, AccountsInv, RowsOK
  <2>5. Exists(call[o].account)'
    BY <2>2, <2>3, <2>4 DEF Exists
  <2> QED BY <2>3, <2>5, OwnersAct
<1>10. CASE Genesis(o) /\ ~End(o)
  <2> DEFINE r == [Idle EXCEPT !.kind = "login", !.at = "read", !.account = Fresh, !.password = 1]
  <2>1. r.kind = "login" /\ r.at = "read"
    BY DEF Idle
  <2>2. call' = [call EXCEPT ![o] = r]
    BY <1>10 DEF Genesis
  <2> HIDE DEF r
  <2>3. others /\ call'[o].kind = "login" /\ call'[o].at = "read"
    BY <1>0, <2>1, <2>2
  <2> QED BY <2>3, OwnersAct DEF ForOwner
<1>11. CASE (Invite(o) \/ Genesis(o)) /\ End(o)
  BY <1>11, OwnersGo
<1>12. ASSUME NEW k \in menu, Ask(o, k) PROVE Goal
  <2>1. others /\ call'[o].at = Entry[k]
    BY <1>0, <1>12 DEF Ask
  <2>2. Entry[k] \notin {"mint", "verify", "rehash", "issue"}
    BY DEF Entry, Kind
  <2> QED BY <2>1, <2>2, OwnersAct DEF ForOwner
<1> QED BY <1>1, <1>2, <1>3, <1>4, <1>5, <1>6, <1>7, <1>8, <1>9, <1>10, <1>11, <1>12 DEF Step

\* The passwords' rows.
LEMMA PasswordsStay ==
  ASSUME AccountsInv, OwnersInv, NEW o \in Manager, Step(o)
  PROVE  credential' \in [Account -> CredentialRow]
<1> USE DEF OwnersInv
<1>1. ASSUME NEW a \in Account, NEW password \in Password, RehashSecret(a, password)
      PROVE  credential' \in [Account -> CredentialRow]
  BY <1>1 DEF RehashSecret, CredentialRow
<1>2. ASSUME NEW n, NEW status, NEW origin, NEW r, NEW password \in Password, Room,
             Insert(Fresh, n, status, origin, r, password)
      PROVE  credential' \in [Account -> CredentialRow]
  <2> DEFINE row == IF password = 0 THEN NoCredential
                    ELSE [state |-> "active", password |-> password, outdated |-> FALSE]
             f == Fresh
  <2>1. row \in CredentialRow
    BY DEF NoCredential, CredentialRow, Password
  <2>2. credential' = [credential EXCEPT ![f] = row]
    BY <1>2 DEF Insert
  <2> HIDE DEF row, f
  <2> QED BY <2>1, <2>2
<1>3. CASE RevokeCredentials(o)
  <2> DEFINE a == call[o].account
             state == IF credential[a].state = "active" THEN "revoked" ELSE credential[a].state
  <2>1. a \in Account
    BY <1>3, CallIs DEF RevokeCredentials, AccountsInv, Kind
  <2>2. state \in {"none", "active", "revoked"}
    BY <2>1 DEF CredentialRow
  <2>3. credential' = [credential EXCEPT ![a].state = state]
    BY <1>3, <2>1 DEF RevokeCredentials
  <2> HIDE DEF a, state
  <2> QED BY <2>1, <2>2, <2>3 DEF CredentialRow
<1>4. CASE Reset(o) \/ Rehash(o)
  <2>1. call[o].account \in Account /\ call[o].password \in Password
    BY <1>4, CallIs DEF Reset, Rehash, AccountsInv, Kind, CallRow
  <2> QED BY <1>1, <1>4, <2>1 DEF Reset, Rehash
<1>5. CASE Bootstrap(o) \/ Genesis(o) \/ Create(o) \/ Invite(o)
  BY <1>2, <1>5 DEF Bootstrap, Genesis, GenesisRows, FoundAccount, Create, Invite, Password
<1>6. CASE UNCHANGED credential
  BY <1>6
<1> QED BY <1>3, <1>4, <1>5, <1>6
        DEF Step, Ask, Drop, SetupCheck, Resolve, GrantRead, UnassignRead, Grant, Unassign,
            Disable, Delete, Tombstone, CloseIf, Sever, RevokeMemberships, PatchRead, EnableRead,
            WriteStatus, ReadForCodes, Mint, RecoverRead, Spend, FindCredential, LoginRead, Verify, Issue

\* The sessions' rows, and whose they are.
LEMMA SessionsOwned ==
  ASSUME AccountsInv, OwnersInv, RowsMove, NEW o \in Manager, Step(o)
  PROVE  /\ session' \in [Session -> SessionRow]
         /\ \A s \in Session : session'[s].live => Exists(session[s].owner)'
<1> USE DEF OwnersInv
<1>1. ASSUME NEW s \in Session, session[s].live, session'[s].owner = session[s].owner
      PROVE  Exists(session[s].owner)'
  <2>1. Exists(session[s].owner)
    BY <1>1
  <2> QED BY <1>1, <2>1, AccountsRemain DEF Exists
<1>2. CASE UNCHANGED session
  BY <1>1, <1>2
<1>3. CASE Sever(o)
  <2>1. session' \in [Session -> SessionRow]
    BY <1>3 DEF Sever, SessionRow
  <2>2. \A s \in Session : session'[s].live => session[s].live /\ session'[s].owner = session[s].owner
    BY <1>3 DEF Sever, SessionRow
  <2> QED BY <1>1, <2>1, <2>2
<1>4. CASE Issue(o)
  <2> DEFINE row == [owner |-> call[o].account, password |-> call[o].password, live |-> TRUE]
  <2>1. call[o] \in CallRow /\ call[o].account \in Account /\ Exists(call[o].account)
    BY <1>4, CallIs DEF Issue, AccountsInv, Kind, At, ForOwner
  <2>2. row \in SessionRow /\ row.owner = call[o].account
    BY <2>1 DEF SessionRow, CallRow
  <2>3. PICK s \in Session : session' = [session EXCEPT ![s] = row]
    BY <1>4 DEF Issue
  <2> HIDE DEF row
  <2>4. /\ session' \in [Session -> SessionRow] /\ session'[s].owner = call[o].account
        /\ \A t \in Session \ {s} : session'[t] = session[t]
    BY <2>2, <2>3
  <2>5. Exists(session[s].owner)'
    BY <2>1, <2>4, AccountsRemain DEF Exists
  <2> QED BY <1>1, <2>4, <2>5
<1> QED BY <1>2, <1>3, <1>4
        DEF Step, Ask, Drop, SetupCheck, Bootstrap, Genesis, Resolve, Create, Invite, GrantRead,
            UnassignRead, Grant, Unassign, Disable, Delete, Tombstone, CloseIf, RevokeCredentials,
            RevokeMemberships, PatchRead, EnableRead, WriteStatus, ReadForCodes, Mint, RecoverRead,
            Spend, FindCredential, Reset, LoginRead, Verify, Rehash

\* The codes, and whose they are.
LEMMA CodesOwned ==
  ASSUME AccountsInv, CodeInv, OwnersInv, RowsMove, NEW o \in Manager, Step(o)
  PROVE  \A c \in Code : code'[c].state # "unissued" => Exists(code[c].owner)'
<1> USE DEF OwnersInv
<1>1. ASSUME NEW c \in Code, code[c].state # "unissued", code'[c].owner = code[c].owner
      PROVE  Exists(code[c].owner)'
  <2>1. Exists(code[c].owner)
    BY <1>1
  <2> QED BY <1>1, <2>1, AccountsRemain DEF Exists
<1>2. CASE UNCHANGED code
  BY <1>1, <1>2
<1>3. CASE Spend(o) /\ code' # code
  <2> DEFINE c == call[o].code
  <2>1. c \in Code /\ code[c].state = "live" /\ code' = [code EXCEPT ![c].state = "consumed"]
    <3>1. call[o].kind = "recover"
      BY <1>3 DEF Spend, At
    <3> QED BY <1>3, <3>1 DEF Spend, Usable, CodeInv
  <2>2. \A d \in Code : code'[d].owner = code[d].owner /\ (d # c => code'[d] = code[d])
    BY <2>1 DEF CodeInv, CodeRow
  <2> QED BY <1>1, <2>1, <2>2
<1>4. CASE Mint(o)
  <2>1. Minted(o).owner = call[o].account /\ Exists(call[o].account)
    BY <1>4 DEF Minted, Mint, At, ForOwner
  <2>2. PICK c \in Code : code' = [code EXCEPT ![c] = Minted(o)]
    BY <1>4 DEF Mint
  <2>3. code'[c].owner = call[o].account /\ \A d \in Code \ {c} : code'[d] = code[d]
    BY <2>1, <2>2 DEF CodeInv
  <2>4. Exists(code[c].owner)'
    BY <2>1, <2>3, AccountsRemain DEF Exists
  <2> QED BY <1>1, <2>3, <2>4
<1>5. CASE GenesisRows(o)
  <2> DEFINE f == Fresh
             new == [owner |-> f, durable |-> TRUE, state |-> "live"]
  <2>1. Room /\ Insert(f, call[o].name, "active", "founded", "admin", 1)
    BY <1>5 DEF GenesisRows, FoundAccount
  <2>2. f \in Account
    BY <2>1 DEF Room, Fresh
  <2>3. code' = [c \in Code |-> IF code[c].state = "unissued" THEN new ELSE code[c]]
    BY <1>5 DEF GenesisRows
  <2>4. new.owner = f
    OBVIOUS
  <2> HIDE DEF f, new
  <2>5. account'[f].status = "active"
    BY <2>1, <2>2 DEF Insert, AccountsInv, RowsOK
  <2>6. ASSUME NEW c \in Code, code[c].state = "unissued" PROVE Exists(code[c].owner)'
    <3>1. code'[c].owner = f
      BY <2>3, <2>4, <2>6
    <3> QED BY <2>2, <2>5, <3>1 DEF Exists
  <2>7. \A c \in Code : code[c].state # "unissued" => code'[c] = code[c]
    BY <2>3
  <2> QED BY <1>1, <2>6, <2>7
<1> QED BY <1>2, <1>3, <1>4, <1>5
        DEF Step, Ask, Drop, SetupCheck, Bootstrap, Genesis, Resolve, Create, Invite, GrantRead,
            UnassignRead, Grant, Unassign, Disable, Delete, Tombstone, CloseIf, Sever, RevokeCredentials,
            RevokeMemberships, PatchRead, EnableRead, WriteStatus, ReadForCodes, RecoverRead,
            FindCredential, Reset, LoginRead, Verify, Rehash, Issue

LEMMA OwnersInvStep ==
  ASSUME AccountsInv, CodeInv, StatusInv, OwnersInv, [AccountsNext]_accountVars
  PROVE  OwnersInv'
<1>1. CASE UNCHANGED accountVars
  BY <1>1 DEF accountVars, OwnersInv, Exists, ForOwner
<1>2. ASSUME NEW o \in Manager, Step(o) PROVE OwnersInv'
  <2>1. RowsMove
    BY <1>2, StepMoves
  <2>2. realm' \in BOOLEAN
    BY <1>2 DEF OwnersInv, Step, Ask, Drop, SetupCheck, Bootstrap, Genesis, GenesisRows, Resolve, Create,
            Invite, GrantRead,
            UnassignRead, Grant, Unassign, Disable, Delete, Tombstone, CloseIf, Sever, RevokeCredentials,
            RevokeMemberships, PatchRead, EnableRead, WriteStatus, ReadForCodes, Mint, RecoverRead,
            Spend, FindCredential, Reset, LoginRead, Verify, Rehash, Issue
  <2>3. requests' \in 0..MaxRequests
    <3>1. requests' = requests \/ (requests < MaxRequests /\ requests' = requests + 1)
      BY <1>2 DEF Step, Ask, Drop, SetupCheck, Bootstrap, Genesis, Resolve, Create, Invite, GrantRead,
            UnassignRead, Grant, Unassign, Disable, Delete, Tombstone, CloseIf, Sever, RevokeCredentials,
            RevokeMemberships, PatchRead, EnableRead, WriteStatus, ReadForCodes, Mint, RecoverRead,
            Spend, FindCredential, Reset, LoginRead, Verify, Rehash, Issue
    <3> QED BY <3>1, AccountsAssumption DEF OwnersInv
  <2>4. menu \subseteq Kind
    BY DEF AccountsInv
  <2> QED BY <1>2, <2>1, <2>2, <2>3, <2>4, OwnersCalled, PasswordsStay, SessionsOwned, CodesOwned DEF OwnersInv
<1>3. ASSUME NEW c \in Code, Expire(c) PROVE OwnersInv'
  <2>1. UNCHANGED <<account, credential, session, realm, requests, call>>
        /\ code[c].state = "live" /\ code' = [code EXCEPT ![c].state = "expired"]
    BY <1>3 DEF Expire
  <2>2. \A d \in Code : /\ code'[d].owner = code[d].owner
                        /\ code'[d].state # "unissued" => code[d].state # "unissued"
    BY <2>1 DEF CodeInv, CodeRow
  <2> QED BY <2>1, <2>2 DEF OwnersInv, Exists, ForOwner
<1> QED BY <1>1, <1>2, <1>3 DEF AccountsNext

\* Every row of the accounts keeps its columns, and however requests race, a
\* code that was issued and a session that lives name an account that exists.
THEOREM AccountsTypes == AccountsSpec => []AccountsTypeOK
<1>1. AccountsInv /\ CodeInv /\ OwnersInv => AccountsTypeOK
  <2> SUFFICES ASSUME AccountsInv, CodeInv, OwnersInv PROVE AccountsTypeOK
    OBVIOUS
  <2>1. ASSUME NEW o \in Manager
        PROVE  /\ DOMAIN call[o] = DOMAIN Idle /\ call[o].kind \in Kind \cup {"idle"}
               /\ call[o].account \in Account \cup {Nobody}
    <3>1. call[o] \in CallRow
      BY DEF AccountsInv, CallsOK
    <3> QED BY <3>1 DEF CallRow, Idle
  <2>2. resets \in [Code -> Nat]
    BY DEF CodeInv
  <2> QED BY <2>1, <2>2 DEF AccountsInv, RowsOK, CodeInv, OwnersInv, AccountsTypeOK
<1> QED BY <1>1, AccountsInitInv, AccountsInvStep, CodeInitInv, CodeInvStep, StatusInitInv, StatusInvStep,
           OwnersInitInv, OwnersInvStep, PTL DEF AccountsSpec

-----------------------------------------------------------------------------

(***************************************************************************)
(* Sessions and ceremonies.                                                *)
(*                                                                         *)
(* A refresh secret that is not yet the row's was never exchanged          *)
(* (RefreshOK).  A request past its consume step holds the challenge it    *)
(* consumed: no other request does, and the challenge has had no effect    *)
(* yet (ChallengeOK).  Holding a step-up's challenge means holding one     *)
(* that was begun in the session the request came in (ElevatedOK).         *)
(***************************************************************************)

RequestKind == Ceremony \cup Signed \cup {"idle", "password", "loginOptions", "refresh"}
RequestLabel == {"done", "status", "throttle", "passkeys", "consume", "read", "verify", "issue", "record",
                 "bind", "challenge", "add", "find", "account", "count", "elevate", "rotate", "owned",
                 "revoke", "revokeAll"}

RequestRow ==
  [kind : RequestKind, at : RequestLabel, person : Person \cup {NoOne}, session : SignIn \cup {NoOne},
   secret : Nat, fresh : BOOLEAN, challenge : Challenge \cup {NoOne}, passkey : Passkey \cup {NoOne},
   count : Nat, right : BOOLEAN]
SignInRow ==
  [owner : Person \cup {NoOne}, live : BOOLEAN, access : Nat, refresh : 0..MaxSecret,
   level : {"aal1", "aal2"}, step : Nat, idle : Nat, bound : BOOLEAN]
ChallengeRow ==
  [state : {"none", "pending", "consumed"}, purpose : Ceremony, owner : Person \cup {NoOne},
   session : SignIn \cup {NoOne}, left : Nat]

\* What a request carries by its kind.
Carries(r) ==
  /\ r.kind \in Ceremony => r.challenge \in Challenge
  /\ r.kind \in {"refresh", "stepup"} => r.session \in SignIn

\* The request consumed the challenge it carries and may still redeem it.
Past == {"add", "find", "account", "count", "issue", "elevate"}
Pending(r) == r.kind \in Ceremony /\ r.at \in Past

SessionRows ==
  /\ signIn \in [SignIn -> SignInRow]
  /\ challenge \in [Challenge -> ChallengeRow]
  /\ exchanged \in [SignIn -> [1..MaxSecret -> Nat]]
  /\ redeemed \in [Challenge -> Nat]
RequestsOK == request \in [Handler -> RequestRow] /\ \A h \in Handler : Carries(request[h])

RefreshOK == \A s \in SignIn, n \in 1..MaxSecret :
  exchanged[s][n] <= 1 /\ (n >= signIn[s].refresh => exchanged[s][n] = 0)

ChallengeOK ==
  /\ \A h \in Handler : Pending(request[h]) =>
       challenge[request[h].challenge].state = "consumed" /\ redeemed[request[h].challenge] = 0
  /\ \A g, h \in Handler : Pending(request[g]) /\ Pending(request[h])
       /\ request[g].challenge = request[h].challenge => g = h
  /\ \A c \in Challenge : redeemed[c] <= 1 /\ (redeemed[c] = 1 => challenge[c].state = "consumed")

OwnStepUp(c, s) == challenge[c].purpose = "stepup" /\ challenge[c].session = s
OwnHeld == \A h \in Handler : Pending(request[h]) /\ request[h].kind = "stepup" =>
  OwnStepUp(request[h].challenge, request[h].session)
ElevatedOK == OwnHeld /\ ElevatedByItsOwnCeremony

SessionsInv == SessionRows /\ RequestsOK /\ RefreshOK /\ ChallengeOK /\ ElevatedOK

-----------------------------------------------------------------------------
LEMMA SessionNumbers ==
  /\ MaxSecret \in Nat /\ MaxSecret > 0 /\ ThrottleWindow \in Nat /\ IdleTimeout \in Nat
  /\ ChallengeTTL \in Nat /\ Freshness \in Nat /\ MaxCount \in Nat
BY SessionsAssumption

LEMMA Blanks ==
  /\ NoRequest \in RequestRow /\ ~Pending(NoRequest) /\ Carries(NoRequest)
  /\ NoSignIn \in SignInRow /\ NoSignIn.access = 0 /\ NoSignIn.refresh = 0
  /\ NoChallenge \in ChallengeRow /\ NoChallenge.state = "none"
<1>1. NoRequest \in RequestRow /\ NoRequest.kind = "idle"
  BY DEF NoRequest, RequestRow, RequestKind, RequestLabel
<1>2. ~Pending(NoRequest) /\ Carries(NoRequest)
  BY <1>1 DEF Pending, Carries, Ceremony
<1>3. NoSignIn \in SignInRow /\ NoSignIn.access = 0 /\ NoSignIn.refresh = 0
  BY SessionNumbers DEF NoSignIn, SignInRow
<1>4. NoChallenge \in ChallengeRow /\ NoChallenge.state = "none"
  BY DEF NoChallenge, ChallengeRow, Ceremony
<1> QED BY <1>1, <1>2, <1>3, <1>4

LEMMA IssuedIs ==
  ASSUME NEW a \in Person \cup {NoOne}, NEW level \in {"aal1", "aal2"}
  PROVE  /\ Issued(a, level) \in SignInRow
         /\ Issued(a, level).access = 1 /\ Issued(a, level).refresh = 1
<1> DEFINE step == IF level = "aal2" THEN 0 ELSE Freshness + 1
<1>1. step \in Nat /\ 1 \in 0..MaxSecret /\ IdleTimeout \in Nat
  BY SessionNumbers
<1> DEFINE row == [NoSignIn EXCEPT !.owner = a, !.live = TRUE, !.access = 1, !.refresh = 1,
                     !.level = level, !.step = step, !.idle = IdleTimeout]
<1>2. Issued(a, level) = row
  BY DEF Issued
<1> HIDE DEF step
<1>3. NoSignIn \in SignInRow
  BY Blanks
<1>4. row \in SignInRow /\ row.access = 1 /\ row.refresh = 1
  BY <1>1, <1>3 DEF SignInRow
<1> HIDE DEF row
<1> QED BY <1>2, <1>4

LEMMA SessionsInitInv == SessionsInit => SessionsInv
<1> SUFFICES ASSUME SessionsInit PROVE SessionsInv
  OBVIOUS
<1>1. RequestsOK /\ \A h \in Handler : ~Pending(request[h])
  BY Blanks DEF SessionsInit, RequestsOK
<1>2. /\ challenge \in [Challenge -> ChallengeRow]
      /\ exchanged \in [SignIn -> [1..MaxSecret -> Nat]] /\ redeemed \in [Challenge -> Nat]
      /\ \A s \in SignIn, n \in 1..MaxSecret : exchanged[s][n] = 0
      /\ \A c \in Challenge : redeemed[c] = 0
  BY Blanks DEF SessionsInit
<1>3. signIn \in [SignIn -> SignInRow] /\ \A s \in SignIn : signIn[s].access <= 1
  <2>1. PICK n \in 1..Cardinality(SignIn) : \E owner \in [First(n, SignIn) -> Person] :
          signIn = [s \in SignIn |->
            IF s \in DOMAIN owner THEN Issued(owner[s], "aal1") ELSE NoSignIn]
    BY DEF SessionsInit
  <2>2. PICK owner \in [First(n, SignIn) -> Person] :
          signIn = [s \in SignIn |->
            IF s \in DOMAIN owner THEN Issued(owner[s], "aal1") ELSE NoSignIn]
    BY <2>1
  <2> DEFINE row(s) == IF s \in DOMAIN owner THEN Issued(owner[s], "aal1") ELSE NoSignIn
  <2>3. ASSUME NEW s \in SignIn PROVE row(s) \in SignInRow /\ row(s).access <= 1
    <3>1. CASE s \in DOMAIN owner
      <4>1. owner[s] \in Person
        BY <3>1
      <4> QED BY <3>1, <4>1, IssuedIs
    <3>2. CASE s \notin DOMAIN owner
      BY <3>2, Blanks
    <3> QED BY <3>1, <3>2
  <2>4. signIn = [s \in SignIn |-> row(s)]
    BY <2>2
  <2> HIDE DEF row
  <2> QED BY <2>3, <2>4
<1>4. ElevatedByItsOwnCeremony
  BY <1>3 DEF ElevatedByItsOwnCeremony, SignInRow
<1> QED BY <1>1, <1>2, <1>3, <1>4
        DEF SessionsInv, SessionRows, RefreshOK, ChallengeOK, ElevatedOK, OwnHeld

-----------------------------------------------------------------------------
(* What becomes of the requests *)

\* No request comes to hold a challenge, and those that do carry the same.
HoldersKept ==
  /\ RequestsOK'
  /\ \A g \in Handler : Pending(request'[g]) =>
       /\ Pending(request[g]) /\ request'[g].kind = request[g].kind
       /\ request'[g].challenge = request[g].challenge /\ request'[g].session = request[g].session

\* The request of h does not hold a challenge any more.
LetsGo(h) == HoldersKept /\ ~Pending(request'[h])

LEMMA RequestBecomes ==
  ASSUME RequestsOK, NEW h \in Handler, NEW r \in RequestRow, Carries(r),
         request' = [request EXCEPT ![h] = r],
         Pending(r) => /\ Pending(request[h]) /\ r.kind = request[h].kind
                       /\ r.challenge = request[h].challenge /\ r.session = request[h].session
  PROVE  HoldersKept /\ request'[h] = r
<1>1. request'[h] = r /\ \A g \in Handler \ {h} : request'[g] = request[g]
  BY DEF RequestsOK
<1>2. RequestsOK'
  BY <1>1 DEF RequestsOK
<1> QED BY <1>1, <1>2 DEF HoldersKept

LEMMA RequestEnds ==
  ASSUME RequestsOK, NEW h \in Handler, EndRequest(h)
  PROVE  LetsGo(h)
BY Blanks, RequestBecomes DEF EndRequest, LetsGo

LEMMA RequestProceeds ==
  ASSUME RequestsOK, NEW h \in Handler, NEW label \in RequestLabel, Proceed(h, label),
         label \in Past => request[h].at \in Past \/ request[h].kind \notin Ceremony
  PROVE  HoldersKept
<1> DEFINE r == [request[h] EXCEPT !.at = label]
<1>1. request[h] \in RequestRow /\ Carries(request[h])
  BY DEF RequestsOK
<1>2. r \in RequestRow /\ r.kind = request[h].kind /\ r.challenge = request[h].challenge
      /\ r.session = request[h].session /\ r.at = label
  BY <1>1 DEF RequestRow
<1>3. request' = [request EXCEPT ![h] = r]
  BY DEF Proceed, RequestsOK
<1> HIDE DEF r
<1>4. Carries(r)
  BY <1>1, <1>2 DEF Carries
<1>5. Pending(r) => Pending(request[h])
  BY <1>2 DEF Pending
<1> QED BY <1>2, <1>3, <1>4, <1>5, RequestBecomes

LEMMA RequestStarts ==
  ASSUME RequestsOK, NEW h \in Handler, NEW r \in RequestRow, Carries(r), Start(h, r), r.at \notin Past
  PROVE  LetsGo(h)
BY RequestBecomes DEF Start, Pending, LetsGo

-----------------------------------------------------------------------------
(* What becomes of the rows *)

SignInsKept ==
  /\ signIn' \in [SignIn -> SignInRow]
  /\ \A s \in SignIn : /\ signIn'[s].access <= 1 \/ signIn'[s].access = signIn[s].access
                       /\ signIn'[s].refresh >= signIn[s].refresh

ChallengesKept ==
  /\ challenge' \in [Challenge -> ChallengeRow]
  /\ \A c \in Challenge : challenge[c].state = "consumed" =>
       /\ challenge'[c].state = "consumed" /\ challenge'[c].purpose = challenge[c].purpose
       /\ challenge'[c].session = challenge[c].session

LEMMA SignInsStay == ASSUME SessionRows, UNCHANGED signIn PROVE SignInsKept
BY SessionNumbers DEF SessionRows, SignInsKept, SignInRow

LEMMA ChallengesStay == ASSUME SessionRows, UNCHANGED challenge PROVE ChallengesKept
BY DEF SessionRows, ChallengesKept

LEMMA HoldingKept ==
  ASSUME SessionsInv, HoldersKept, ChallengesKept, UNCHANGED redeemed
  PROVE  ChallengeOK' /\ OwnHeld'
<1>1. \A g \in Handler : Pending(request'[g]) => request'[g].challenge \in Challenge
  BY DEF HoldersKept, RequestsOK, Carries, Pending
<1>2. \A g \in Handler : Pending(request'[g]) =>
        /\ Pending(request[g]) /\ request'[g].kind = request[g].kind
        /\ request'[g].challenge = request[g].challenge /\ request'[g].session = request[g].session
  BY DEF HoldersKept
<1>3. ChallengeOK'
  BY <1>1, <1>2 DEF SessionsInv, ChallengeOK, ChallengesKept
<1>4. OwnHeld'
  BY <1>1, <1>2 DEF SessionsInv, ChallengeOK, ElevatedOK, OwnHeld, OwnStepUp, ChallengesKept
<1> QED BY <1>3, <1>4

LEMMA ElevationsKept ==
  ASSUME SessionsInv, SignInsKept, ChallengesKept
  PROVE  ElevatedByItsOwnCeremony'
<1> SUFFICES ASSUME NEW s \in SignIn, signIn'[s].access > 1
             PROVE  \E c \in Challenge : /\ challenge'[c].purpose = "stepup" /\ challenge'[c].session = s
                                         /\ challenge'[c].state = "consumed"
  BY DEF ElevatedByItsOwnCeremony
<1>1. signIn[s].access > 1
  BY DEF SignInsKept, SignInRow
<1>2. PICK c \in Challenge : /\ challenge[c].purpose = "stepup" /\ challenge[c].session = s
                             /\ challenge[c].state = "consumed"
  BY <1>1 DEF SessionsInv, ElevatedOK, ElevatedByItsOwnCeremony
<1> QED BY <1>2 DEF ChallengesKept

LEMMA RefreshKept ==
  ASSUME SessionsInv, SignInsKept, UNCHANGED exchanged
  PROVE  RefreshOK'
<1>1. \A s \in SignIn : signIn[s].refresh \in Int /\ signIn'[s].refresh \in Int
                        /\ signIn'[s].refresh >= signIn[s].refresh
  BY SessionNumbers DEF SessionsInv, SessionRows, SignInsKept, SignInRow
<1> QED BY <1>1 DEF SessionsInv, RefreshOK

LEMMA NothingRedeemed ==
  ASSUME SessionsInv, HoldersKept, SignInsKept, ChallengesKept, UNCHANGED <<exchanged, redeemed>>
  PROVE  SessionsInv'
<1>1. SessionRows' /\ RequestsOK'
  BY DEF SessionsInv, SessionRows, HoldersKept, SignInsKept, ChallengesKept
<1> QED BY <1>1, HoldingKept, ElevationsKept, RefreshKept DEF SessionsInv, ElevatedOK

\* A holder lets its challenge go and the challenge has its effect.
LEMMA Redeems ==
  ASSUME SessionsInv, NEW h \in Handler, Pending(request[h]), LetsGo(h), UNCHANGED challenge,
         redeemed' = [redeemed EXCEPT ![request[h].challenge] = @ + 1]
  PROVE  /\ ChallengeOK' /\ OwnHeld' /\ redeemed' \in [Challenge -> Nat] /\ RequestsOK'
         /\ request[h].challenge \in Challenge
         /\ challenge[request[h].challenge].state = "consumed"
<1> DEFINE c == request[h].challenge
<1>1. c \in Challenge
  BY DEF SessionsInv, RequestsOK, Carries, Pending
<1>2. redeemed[c] = 0 /\ challenge[c].state = "consumed"
  BY DEF SessionsInv, ChallengeOK
<1>3. \A g \in Handler : Pending(request'[g]) =>
        /\ g # h /\ Pending(request[g]) /\ request'[g].kind = request[g].kind
        /\ request'[g].challenge = request[g].challenge /\ request'[g].session = request[g].session
        /\ request[g].challenge # c /\ request[g].challenge \in Challenge
  BY DEF LetsGo, HoldersKept, SessionsInv, ChallengeOK, RequestsOK, Carries, Pending
<1>4. redeemed' = [redeemed EXCEPT ![c] = redeemed[c] + 1]
  OBVIOUS
<1> HIDE DEF c
<1>5. /\ redeemed' \in [Challenge -> Nat] /\ redeemed'[c] = 1
      /\ \A d \in Challenge \ {c} : redeemed'[d] = redeemed[d]
  BY <1>1, <1>2, <1>4 DEF SessionsInv, SessionRows
<1>6. ChallengeOK'
  BY <1>1, <1>2, <1>3, <1>5 DEF SessionsInv, ChallengeOK
<1>7. OwnHeld'
  BY <1>3 DEF SessionsInv, ElevatedOK, OwnHeld, OwnStepUp
<1> QED BY <1>1, <1>2, <1>5, <1>6, <1>7 DEF LetsGo, HoldersKept, c

\* One session's row is replaced.
LEMMA OneSignIn ==
  ASSUME SessionRows, NEW s \in SignIn, NEW r \in SignInRow, signIn' = [signIn EXCEPT ![s] = r],
         r.access <= 1 \/ r.access = signIn[s].access, r.refresh >= signIn[s].refresh
  PROVE  SignInsKept
<1>1. /\ signIn'[s] = r /\ \A x \in SignIn \ {s} : signIn'[x] = signIn[x]
      /\ signIn' \in [SignIn -> SignInRow]
  BY DEF SessionRows
<1>2. \A x \in SignIn : signIn[x].refresh \in Int
  BY SessionNumbers DEF SessionRows, SignInRow
<1> QED BY <1>1, <1>2 DEF SignInsKept

LEMMA Revokes ==
  ASSUME SessionRows, NEW ss, Revoked(ss)
  PROVE  SignInsKept
<1> DEFINE row(s) == IF s \in ss THEN [signIn[s] EXCEPT !.live = FALSE] ELSE signIn[s]
<1>1. \A s \in SignIn : row(s) \in SignInRow /\ row(s).access = signIn[s].access
                        /\ row(s).refresh = signIn[s].refresh
  BY DEF SessionRows, SignInRow
<1>2. signIn' = [s \in SignIn |-> row(s)]
  BY DEF Revoked
<1> HIDE DEF row
<1>3. \A s \in SignIn : signIn[s].refresh \in Int
  BY SessionNumbers DEF SessionRows, SignInRow
<1> QED BY <1>1, <1>2, <1>3 DEF SignInsKept

-----------------------------------------------------------------------------
(* The steps *)

LEMMA SignedAsks == ASSUME SessionsInv, NEW h \in Handler, AskSigned(h) PROVE HoldersKept
<1>1. PICK k \in sessionMenu \cap Signed, s \in SignIn : Arrives(h, k, s)
  BY DEF AskSigned
<1> DEFINE fresh == k = "registerOptions" /\ IsFresh(s)
           a == signIn[s].owner
<1>2. PICK c \in Challenge \cup {NoOne}, p \in Passkey \cup {NoOne}, n \in 0..MaxCount :
        /\ (c # NoOne) = (k \in {"register", "stepup"})
        /\ Start(h, [NoRequest EXCEPT !.kind = k, !.at = "status", !.person = a, !.session = s,
                       !.fresh = fresh, !.challenge = c, !.passkey = p, !.count = n])
  BY <1>1 DEF Arrives
<1>3. fresh \in BOOLEAN /\ a \in Person \cup {NoOne} /\ n \in Nat
  BY SessionNumbers DEF SessionsInv, SessionRows, SignInRow
<1> HIDE DEF fresh, a
<1> DEFINE r == [NoRequest EXCEPT !.kind = k, !.at = "status", !.person = a, !.session = s,
                   !.fresh = fresh, !.challenge = c, !.passkey = p, !.count = n]
<1>4. NoRequest \in RequestRow /\ k \in RequestKind /\ "status" \in RequestLabel
  BY Blanks DEF RequestKind, RequestLabel
<1>5. r \in RequestRow /\ r.kind = k /\ r.at = "status" /\ r.challenge = c /\ r.session = s
  BY <1>3, <1>4 DEF RequestRow
<1>6. Start(h, r)
  BY <1>2
<1> HIDE DEF r
<1>7. Carries(r) /\ r.at \notin Past
  BY <1>2, <1>5 DEF Carries, Past, Ceremony, Signed
<1> QED BY <1>5, <1>6, <1>7, RequestStarts DEF SessionsInv, LetsGo

LEMMA OpenAsks == ASSUME SessionsInv, NEW h \in Handler, AskOpen(h) PROVE HoldersKept
<1>0. NoRequest \in RequestRow
  BY Blanks
<1>1. ASSUME NEW a \in Person, NEW right \in BOOLEAN,
             Start(h, [NoRequest EXCEPT !.kind = "password", !.at = "throttle", !.person = a, !.right = right])
      PROVE  HoldersKept
  <2> DEFINE r == [NoRequest EXCEPT !.kind = "password", !.at = "throttle", !.person = a, !.right = right]
  <2>1. "password" \in RequestKind /\ "throttle" \in RequestLabel
    BY DEF RequestKind, RequestLabel
  <2>2. r \in RequestRow /\ r.kind = "password" /\ r.at = "throttle"
    BY <1>0, <2>1 DEF RequestRow
  <2>3. Start(h, r)
    BY <1>1
  <2> HIDE DEF r
  <2>4. Carries(r) /\ r.at \notin Past
    BY <2>2 DEF Carries, Past, Ceremony
  <2> QED BY <2>2, <2>3, <2>4, RequestStarts DEF SessionsInv, LetsGo
<1>2. ASSUME NEW a \in Person,
             Start(h, [NoRequest EXCEPT !.kind = "loginOptions", !.at = "passkeys", !.person = a])
      PROVE  HoldersKept
  <2> DEFINE r == [NoRequest EXCEPT !.kind = "loginOptions", !.at = "passkeys", !.person = a]
  <2>1. "loginOptions" \in RequestKind /\ "passkeys" \in RequestLabel
    BY DEF RequestKind, RequestLabel
  <2>2. r \in RequestRow /\ r.kind = "loginOptions" /\ r.at = "passkeys"
    BY <1>0, <2>1 DEF RequestRow
  <2>3. Start(h, r)
    BY <1>2
  <2> HIDE DEF r
  <2>4. Carries(r) /\ r.at \notin Past
    BY <2>2 DEF Carries, Past, Ceremony
  <2> QED BY <2>2, <2>3, <2>4, RequestStarts DEF SessionsInv, LetsGo
<1>3. ASSUME NEW c \in Challenge, NEW p \in Passkey, NEW n \in 0..MaxCount,
             Start(h, [NoRequest EXCEPT !.kind = "login", !.at = "consume", !.challenge = c,
                         !.passkey = p, !.person = challenge[c].owner, !.count = n])
      PROVE  HoldersKept
  <2> DEFINE a == challenge[c].owner
  <2>1. "login" \in RequestKind /\ "consume" \in RequestLabel /\ n \in Nat /\ a \in Person \cup {NoOne}
    BY SessionNumbers DEF RequestKind, RequestLabel, Ceremony, SessionsInv, SessionRows, ChallengeRow
  <2> HIDE DEF a
  <2> DEFINE r == [NoRequest EXCEPT !.kind = "login", !.at = "consume", !.challenge = c,
                     !.passkey = p, !.person = a, !.count = n]
  <2>2. r \in RequestRow /\ r.kind = "login" /\ r.at = "consume" /\ r.challenge = c
    BY <1>0, <2>1 DEF RequestRow
  <2>3. Start(h, r)
    BY <1>3 DEF a
  <2> HIDE DEF r
  <2>4. Carries(r) /\ r.at \notin Past
    BY <2>2 DEF Carries, Past
  <2> QED BY <2>2, <2>3, <2>4, RequestStarts DEF SessionsInv, LetsGo
<1>4. ASSUME NEW s \in SignIn, NEW secret \in 1..signIn[s].refresh,
             Start(h, [NoRequest EXCEPT !.kind = "refresh", !.at = "read", !.session = s,
                         !.secret = secret])
      PROVE  HoldersKept
  <2> DEFINE r == [NoRequest EXCEPT !.kind = "refresh", !.at = "read", !.session = s, !.secret = secret]
  <2>1. "refresh" \in RequestKind /\ "read" \in RequestLabel /\ secret \in Nat
    BY SessionNumbers DEF RequestKind, RequestLabel, SessionsInv, SessionRows, SignInRow
  <2>2. r \in RequestRow /\ r.kind = "refresh" /\ r.at = "read" /\ r.session = s
    BY <1>0, <2>1 DEF RequestRow
  <2>3. Start(h, r)
    BY <1>4
  <2> HIDE DEF r
  <2>4. Carries(r) /\ r.at \notin Past
    BY <2>2 DEF Carries, Past, Ceremony
  <2> QED BY <2>2, <2>3, <2>4, RequestStarts DEF SessionsInv, LetsGo
<1> QED BY <1>1, <1>2, <1>3, <1>4 DEF AskOpen

LEMMA Attempts ==
  ASSUME SessionsInv, NEW h \in Handler, Waits(h, {"password"}, "verify"),
         request' = [request EXCEPT ![h].at = "record", ![h].right = FALSE]
  PROVE  HoldersKept
<1> DEFINE r == [request[h] EXCEPT !.at = "record", !.right = FALSE]
<1>1. request[h] \in RequestRow /\ request[h].kind = "password"
  BY DEF SessionsInv, RequestsOK, Waits
<1>2. r \in RequestRow /\ r.kind = "password" /\ r.at = "record"
  BY <1>1 DEF RequestRow, RequestLabel
<1>3. request' = [request EXCEPT ![h] = r]
  BY <1>1 DEF SessionsInv, RequestsOK, RequestRow
<1> HIDE DEF r
<1>4. Carries(r) /\ ~Pending(r)
  BY <1>2 DEF Carries, Pending, Past, Ceremony
<1> QED BY <1>2, <1>3, <1>4, RequestBecomes DEF SessionsInv

\* The steps of a handler that only read.
LEMMA Reads ==
  ASSUME SessionsInv, NEW h \in Handler,
         \/ Authenticate(h) \/ EnforceThrottle(h) \/ TryPassword(h) \/ RecordAttempt(h)
         \/ ReadPasskeys(h) \/ FindPasskey(h) \/ ReadAccount(h) \/ AdvanceCount(h)
         \/ RemovePasskey(h) \/ Abandon(h)
  PROVE  HoldersKept
<1> DEFINE goes(label) == Proceed(h, label)
             /\ (label \in Past => request[h].at \in Past \/ request[h].kind \notin Ceremony)
<1>1. ASSUME NEW label \in RequestLabel, goes(label) PROVE HoldersKept
  BY <1>1, RequestProceeds DEF SessionsInv
<1>2. CASE EndRequest(h)
  BY <1>2, RequestEnds DEF SessionsInv, LetsGo
<1>3. CASE Authenticate(h)
  <2>1. /\ FirstStep[request[h].kind] \in RequestLabel \ Past
        /\ EndRequest(h) \/ Proceed(h, FirstStep[request[h].kind])
    BY <1>3 DEF Authenticate, Waits, Signed, FirstStep, RequestLabel, Past
  <2> QED BY <1>1, <1>2, <2>1
<1>4. CASE EnforceThrottle(h)
  <2>1. EndRequest(h) \/ goes("verify")
    BY <1>4 DEF EnforceThrottle, Past
  <2> QED BY <1>1, <1>2, <2>1 DEF RequestLabel
<1>5. CASE TryPassword(h)
  <2>1. request[h].kind \notin Ceremony /\ Waits(h, {"password"}, "verify")
    BY <1>5 DEF TryPassword, Waits, Ceremony
  <2>2. CASE Proceed(h, "issue")
    BY <1>1, <2>1, <2>2 DEF RequestLabel
  <2>3. CASE request' = [request EXCEPT ![h].at = "record", ![h].right = FALSE]
    BY <2>1, <2>3, Attempts
  <2> QED BY <1>5, <2>2, <2>3 DEF TryPassword
<1>6. CASE RecordAttempt(h)
  <2>1. EndRequest(h) \/ goes("bind")
    BY <1>6 DEF RecordAttempt, Past
  <2> QED BY <1>1, <1>2, <2>1 DEF RequestLabel
<1>7. CASE ReadPasskeys(h)
  <2>1. EndRequest(h) \/ goes("challenge")
    BY <1>7 DEF ReadPasskeys, Past
  <2> QED BY <1>1, <1>2, <2>1 DEF RequestLabel
<1>8. CASE FindPasskey(h) \/ ReadAccount(h) \/ AdvanceCount(h)
  <2>1. request[h].at \in Past
    BY <1>8 DEF FindPasskey, ReadAccount, AdvanceCount, Waits, Past
  <2>2. EndRequest(h) \/ \E label \in {"account", "count", "issue", "elevate"} : Proceed(h, label)
    BY <1>8 DEF FindPasskey, ReadAccount, AdvanceCount
  <2> QED BY <1>1, <1>2, <2>1, <2>2 DEF RequestLabel
<1>9. CASE RemovePasskey(h) \/ Abandon(h)
  BY <1>2, <1>9 DEF RemovePasskey, Abandon
<1> QED BY <1>3, <1>4, <1>5, <1>6, <1>7, <1>8, <1>9

\* Who holds a challenge: nobody holds one that is not consumed yet.
LEMMA Consumes ==
  ASSUME SessionsInv, NEW h \in Handler, Consume(h)
  PROVE  SessionsInv'
<1> DEFINE c == request[h].challenge
<1>1. /\ c \in Challenge /\ request[h].kind \in Ceremony /\ request[h] \in RequestRow
      /\ Carries(request[h]) /\ request[h].at = "consume"
      /\ UNCHANGED <<signIn, exchanged, redeemed>>
  BY DEF Consume, Waits, SessionsInv, RequestsOK, Carries
<1>2. SignInsKept
  BY <1>1, SignInsStay DEF SessionsInv
<1>3. CASE UNCHANGED challenge /\ EndRequest(h)
  BY <1>1, <1>2, <1>3, RequestEnds, ChallengesStay, NothingRedeemed DEF SessionsInv, LetsGo
<1>4. CASE Takable(c) /\ challenge' = [challenge EXCEPT ![c].state = "consumed"]
  <2> DEFINE taken == [challenge[c] EXCEPT !.state = "consumed"]
  <2>1. taken \in ChallengeRow /\ taken.state = "consumed" /\ taken.purpose = challenge[c].purpose
        /\ taken.session = challenge[c].session
    <3>1. challenge[c] \in ChallengeRow
      BY <1>1 DEF SessionsInv, SessionRows
    <3> HIDE DEF c
    <3> QED BY <3>1 DEF ChallengeRow
  <2>2. challenge' = [challenge EXCEPT ![c] = taken]
    BY <1>1, <1>4
  <2>3. challenge[c].state = "pending"
    BY <1>4 DEF Takable
  <2> HIDE DEF taken
  <2>4. /\ challenge' \in [Challenge -> ChallengeRow] /\ challenge'[c] = taken
        /\ \A d \in Challenge \ {c} : challenge'[d] = challenge[d]
    BY <1>1, <2>1, <2>2 DEF SessionsInv, SessionRows
  <2>5. ChallengesKept
    BY <2>1, <2>4 DEF ChallengesKept
  <2>6. CASE EndRequest(h)
    BY <1>1, <1>2, <2>5, <2>6, RequestEnds, NothingRedeemed DEF SessionsInv, LetsGo
  <2>7. CASE BoundTo(c, h) /\ \E label \in {"add", "find"} : Proceed(h, label)
    <3>1. PICK label \in {"add", "find"} : Proceed(h, label)
      BY <2>7
    <3> DEFINE r == [request[h] EXCEPT !.at = label]
    <3>2. r \in RequestRow /\ r.kind = request[h].kind /\ r.challenge = c /\ r.at = label
          /\ r.session = request[h].session
      BY <1>1 DEF RequestRow, RequestLabel
    <3>3. request' = [request EXCEPT ![h] = r]
      BY <3>1 DEF Proceed, SessionsInv, RequestsOK
    <3> HIDE DEF r
    <3>4. /\ request'[h] = r /\ \A g \in Handler \ {h} : request'[g] = request[g]
          /\ RequestsOK'
      BY <1>1, <3>2, <3>3 DEF SessionsInv, RequestsOK, Carries
    <3> HIDE DEF c
    <3>5. redeemed[c] = 0 /\ \A g \in Handler : Pending(request[g]) => request[g].challenge # c
      BY <1>1, <2>3 DEF SessionsInv, SessionRows, ChallengeOK
    <3>6. \A g \in Handler : Pending(request'[g]) /\ g # h =>
            /\ Pending(request[g]) /\ request'[g] = request[g] /\ request[g].challenge # c
            /\ request[g].challenge \in Challenge
      BY <3>4, <3>5 DEF SessionsInv, RequestsOK, Carries, Pending
    <3>7. ChallengeOK'
      BY <1>1, <2>1, <2>4, <3>2, <3>4, <3>5, <3>6 DEF SessionsInv, ChallengeOK, c
    <3>8. request[h].kind = "stepup" => OwnStepUp(c, request[h].session)
      BY <2>7 DEF BoundTo, OwnStepUp
    <3>9. OwnHeld'
      BY <1>1, <2>1, <2>4, <3>2, <3>4, <3>6, <3>8 DEF SessionsInv, ElevatedOK, OwnHeld, OwnStepUp
    <3>10. ElevatedByItsOwnCeremony' /\ RefreshOK'
      BY <1>1, <1>2, <2>5, ElevationsKept, RefreshKept
    <3>11. SessionRows'
      BY <1>1, <2>4 DEF SessionsInv, SessionRows
    <3> QED BY <3>4, <3>7, <3>9, <3>10, <3>11 DEF SessionsInv, ElevatedOK
  <2> QED BY <1>4, <2>6, <2>7 DEF Consume
<1> QED BY <1>3, <1>4 DEF Consume

LEMMA AddsPasskey ==
  ASSUME SessionsInv, NEW h \in Handler, AddPasskey(h)
  PROVE  SessionsInv'
<1>1. LetsGo(h) /\ UNCHANGED <<signIn, challenge, exchanged>> /\ Pending(request[h])
  BY RequestEnds DEF AddPasskey, SessionsInv, Waits, Pending, Past, Ceremony
<1>2. SignInsKept /\ ChallengesKept
  BY <1>1, SignInsStay, ChallengesStay DEF SessionsInv
<1>3. CASE UNCHANGED redeemed
  BY <1>1, <1>2, <1>3, NothingRedeemed DEF LetsGo
<1>4. CASE redeemed' = [redeemed EXCEPT ![request[h].challenge] = @ + 1]
  <2>1. ChallengeOK' /\ OwnHeld' /\ redeemed' \in [Challenge -> Nat] /\ RequestsOK'
    BY <1>1, <1>4, Redeems
  <2>2. RefreshOK' /\ ElevatedByItsOwnCeremony'
    BY <1>1, <1>2, RefreshKept, ElevationsKept
  <2>3. SessionRows'
    BY <1>1, <2>1 DEF SessionsInv, SessionRows
  <2> QED BY <2>1, <2>2, <2>3 DEF SessionsInv, ElevatedOK
<1> QED BY <1>3, <1>4 DEF AddPasskey

LEMMA OneIs == \A S : One(S) \subseteq S
BY DEF One

LEMMA Issues ==
  ASSUME SessionsInv, NEW h \in Handler, IssueSession(h)
  PROVE  SessionsInv'
<1> DEFINE level == IF request[h].kind = "login" THEN "aal2" ELSE "aal1"
           label == IF request[h].kind = "login" THEN "bind" ELSE "record"
<1>1. PICK s \in One({x \in SignIn : signIn[x] = NoSignIn}) :
        /\ signIn' = [signIn EXCEPT ![s] = Issued(request[h].person, level)]
        /\ request' = [request EXCEPT ![h].session = s, ![h].at = label]
  BY DEF IssueSession
<1>2. s \in SignIn /\ signIn[s] = NoSignIn
  BY OneIs
<1>3. /\ request[h] \in RequestRow /\ request[h].kind \in {"password", "login"} /\ Carries(request[h])
      /\ request[h].at = "issue" /\ UNCHANGED <<challenge, exchanged>>
  BY DEF IssueSession, Waits, SessionsInv, RequestsOK
<1>4. level \in {"aal1", "aal2"} /\ label \in {"bind", "record"} /\ request[h].person \in Person \cup {NoOne}
  BY <1>3 DEF RequestRow
<1>5. SignInsKept
  <2> DEFINE row == Issued(request[h].person, level)
  <2>1. row \in SignInRow /\ row.access = 1 /\ row.refresh = 1
    BY <1>4, IssuedIs
  <2>2. signIn' = [signIn EXCEPT ![s] = row] /\ signIn[s].refresh = 0
    BY <1>1, <1>2, Blanks
  <2> HIDE DEF row
  <2>3. row.refresh >= signIn[s].refresh /\ row.access <= 1
    BY <2>1, <2>2
  <2> QED BY <1>2, <2>1, <2>2, <2>3, OneSignIn DEF SessionsInv
<1> DEFINE r == [request[h] EXCEPT !.session = s, !.at = label]
<1>6. request' = [request EXCEPT ![h] = r]
  BY <1>1, <1>3 DEF SessionsInv, RequestsOK, RequestRow
<1> HIDE DEF label, level
<1>7. r \in RequestRow /\ r.kind = request[h].kind /\ r.at = label /\ r.challenge = request[h].challenge
  BY <1>2, <1>3, <1>4 DEF RequestRow, RequestLabel
<1> HIDE DEF r
<1>8. LetsGo(h)
  <2>1. Carries(r) /\ ~Pending(r)
    BY <1>3, <1>4, <1>7 DEF Carries, Pending, Past
  <2> QED BY <1>6, <1>7, <2>1, RequestBecomes DEF SessionsInv, LetsGo
<1>9. ChallengesKept
  BY <1>3, ChallengesStay DEF SessionsInv
<1>10. CASE UNCHANGED redeemed
  BY <1>3, <1>5, <1>8, <1>9, <1>10, NothingRedeemed DEF LetsGo
<1>11. CASE request[h].kind = "login" /\ redeemed' = [redeemed EXCEPT ![request[h].challenge] = @ + 1]
  <2>1. Pending(request[h])
    BY <1>3, <1>11 DEF Pending, Ceremony, Past
  <2>2. ChallengeOK' /\ OwnHeld' /\ redeemed' \in [Challenge -> Nat] /\ RequestsOK'
    BY <1>3, <1>8, <1>11, <2>1, Redeems
  <2>3. RefreshOK' /\ ElevatedByItsOwnCeremony'
    BY <1>3, <1>5, <1>9, RefreshKept, ElevationsKept
  <2>4. SessionRows'
    BY <1>3, <1>5, <2>2 DEF SessionsInv, SessionRows, SignInsKept
  <2> QED BY <2>2, <2>3, <2>4 DEF SessionsInv, ElevatedOK
<1> QED BY <1>10, <1>11 DEF IssueSession

LEMMA Elevates ==
  ASSUME SessionsInv, NEW h \in Handler, Elevate(h)
  PROVE  SessionsInv'
<1> DEFINE s == request[h].session
           c == request[h].challenge
<1>1. /\ LetsGo(h) /\ UNCHANGED <<challenge, exchanged>> /\ Pending(request[h])
      /\ request[h].kind = "stepup" /\ s \in SignIn
  BY RequestEnds DEF Elevate, SessionsInv, RequestsOK, Carries, Waits, Pending, Past, Ceremony
<1>2. ChallengesKept
  BY <1>1, ChallengesStay DEF SessionsInv
<1>3. CASE UNCHANGED <<signIn, redeemed>>
  BY <1>1, <1>2, <1>3, SignInsStay, NothingRedeemed DEF LetsGo, SessionsInv
<1>4. CASE /\ signIn' = [signIn EXCEPT ![s].level = "aal2", ![s].step = 0, ![s].access = @ + 1]
           /\ redeemed' = [redeemed EXCEPT ![c] = @ + 1]
  <2>1. /\ ChallengeOK' /\ OwnHeld' /\ redeemed' \in [Challenge -> Nat] /\ RequestsOK'
        /\ c \in Challenge /\ challenge[c].state = "consumed"
    BY <1>1, <1>4, Redeems
  <2>2. OwnStepUp(c, s)
    BY <1>1 DEF SessionsInv, ElevatedOK, OwnHeld
  <2> DEFINE access == signIn[s].access + 1
             row == [signIn[s] EXCEPT !.level = "aal2", !.step = 0, !.access = access]
  <2>3. signIn[s] \in SignInRow /\ access \in Nat
    BY <1>1 DEF SessionsInv, SessionRows, SignInRow
  <2>4. signIn' = [signIn EXCEPT ![s] = row]
    BY <1>1, <1>4, <2>3 DEF SessionsInv, SessionRows, SignInRow
  <2> HIDE DEF access
  <2>5. row \in SignInRow /\ row.refresh = signIn[s].refresh
    BY <2>3 DEF SignInRow
  <2> HIDE DEF row, s, c
  <2>6. /\ signIn' \in [SignIn -> SignInRow] /\ signIn'[s] = row
        /\ \A x \in SignIn \ {s} : signIn'[x] = signIn[x]
    BY <1>1, <2>4, <2>5 DEF SessionsInv, SessionRows
  <2>7. RefreshOK'
    BY <1>1, <2>5, <2>6 DEF SessionsInv, RefreshOK
  <2>8. ElevatedByItsOwnCeremony'
    BY <1>1, <2>1, <2>2, <2>6 DEF SessionsInv, ElevatedOK, ElevatedByItsOwnCeremony, OwnStepUp
  <2>9. SessionRows'
    BY <1>1, <2>1, <2>6 DEF SessionsInv, SessionRows
  <2> QED BY <2>1, <2>7, <2>8, <2>9 DEF SessionsInv, ElevatedOK
<1> QED BY <1>3, <1>4 DEF Elevate

\* rotate_refresh compares the secret in the UPDATE itself.
LEMMA Rotates ==
  ASSUME SessionsInv, NEW h \in Handler, RefreshRotate(h)
  PROVE  SessionsInv'
<1> DEFINE s == request[h].session
           n == request[h].secret
<1>1. /\ HoldersKept /\ UNCHANGED <<challenge, redeemed>> /\ s \in SignIn /\ n \in Nat
  BY RequestEnds
     DEF RefreshRotate, SessionsInv, RequestsOK, Carries, Waits, LetsGo, RequestRow
<1>2. ChallengesKept
  BY <1>1, ChallengesStay DEF SessionsInv
<1>3. CASE UNCHANGED <<signIn, exchanged>>
  BY <1>1, <1>2, <1>3, SignInsStay, NothingRedeemed DEF SessionsInv
<1>4. CASE /\ Current(s, n) /\ signIn[s].refresh < MaxSecret
           /\ signIn' = [signIn EXCEPT ![s].refresh = @ + 1]
           /\ exchanged' = [exchanged EXCEPT ![s][n] = @ + 1]
  <2>1. signIn[s] \in SignInRow /\ signIn[s].refresh \in 0..MaxSecret /\ n = signIn[s].refresh
    BY <1>1, <1>4 DEF Current, SessionsInv, SessionRows, SignInRow
  <2> DEFINE row == [signIn[s] EXCEPT !.refresh = n + 1]
  <2>2. n + 1 \in 1..MaxSecret
    <3>1. MaxSecret \in Nat /\ n < MaxSecret
      BY <1>4, <2>1, SessionNumbers
    <3> HIDE DEF n
    <3> QED BY <1>1, <3>1
  <2>3. row \in SignInRow /\ row.refresh = n + 1 /\ row.access = signIn[s].access
    BY <2>1, <2>2, SessionNumbers DEF SignInRow
  <2>4. signIn' = [signIn EXCEPT ![s] = row]
    BY <1>1, <1>4, <2>1 DEF SessionsInv, SessionRows
  <2> HIDE DEF row, s
  <2>5. /\ signIn' \in [SignIn -> SignInRow] /\ signIn'[s] = row
        /\ \A x \in SignIn \ {s} : signIn'[x] = signIn[x]
    BY <1>1, <2>3, <2>4 DEF SessionsInv, SessionRows
  <2>6. SignInsKept
    <3>1. row.refresh >= signIn[s].refresh
      BY <1>1, <2>1, <2>3
    <3> QED BY <1>1, <2>3, <2>4, <3>1, OneSignIn DEF SessionsInv
  <2> HIDE DEF n
  <2>7. /\ exchanged' \in [SignIn -> [1..MaxSecret -> Nat]]
        /\ \A x \in SignIn, m \in 1..MaxSecret :
             exchanged'[x][m] = IF x = s /\ m = n THEN exchanged[s][n] + 1 ELSE exchanged[x][m]
    <3> DEFINE counts == [exchanged[s] EXCEPT ![n] = @ + 1]
    <3>1. exchanged \in [SignIn -> [1..MaxSecret -> Nat]] /\ exchanged' = [exchanged EXCEPT ![s] = counts]
      BY <1>4 DEF SessionsInv, SessionRows
    <3>2. /\ counts \in [1..MaxSecret -> Nat]
          /\ \A m \in 1..MaxSecret : counts[m] = IF m = n THEN exchanged[s][n] + 1 ELSE exchanged[s][m]
      <4> DEFINE f == exchanged[s]
      <4>1. f \in [1..MaxSecret -> Nat]
        BY <1>1, <3>1
      <4> HIDE DEF f
      <4>2. /\ [f EXCEPT ![n] = f[n] + 1] \in [1..MaxSecret -> Nat]
            /\ \A m \in 1..MaxSecret : [f EXCEPT ![n] = f[n] + 1][m] = IF m = n THEN f[n] + 1 ELSE f[m]
        <5>1. CASE n \in 1..MaxSecret
          BY <4>1, <5>1
        <5>2. CASE n \notin 1..MaxSecret
          <6>1. [f EXCEPT ![n] = f[n] + 1] = f
            BY <4>1, <5>2
          <6> QED BY <4>1, <5>2, <6>1
        <5> QED BY <5>1, <5>2
      <4> QED BY <4>2 DEF f
    <3> HIDE DEF counts
    <3> QED BY <1>1, <3>1, <3>2
  <2>8. RefreshOK'
    <3> SUFFICES ASSUME NEW x \in SignIn, NEW m \in 1..MaxSecret
                 PROVE  exchanged'[x][m] <= 1 /\ (m >= signIn'[x].refresh => exchanged'[x][m] = 0)
      BY DEF RefreshOK
    <3>1. CASE x # s
      BY <2>5, <2>7, <3>1 DEF SessionsInv, RefreshOK
    <3>2. CASE x = s /\ m = n
      BY <2>1, <2>3, <2>5, <2>7, <3>2 DEF SessionsInv, RefreshOK
    <3>3. CASE x = s /\ m # n
      BY <1>1, <2>1, <2>3, <2>5, <2>7, <3>3 DEF SessionsInv, RefreshOK
    <3> QED BY <3>1, <3>2, <3>3
  <2>9. SessionRows' /\ RequestsOK'
    BY <1>1, <1>2, <2>5, <2>7 DEF SessionsInv, SessionRows, HoldersKept
  <2>10. ChallengeOK' /\ OwnHeld' /\ ElevatedByItsOwnCeremony'
    BY <1>1, <1>2, <2>6, HoldingKept, ElevationsKept
  <2> QED BY <2>8, <2>9, <2>10 DEF SessionsInv, ElevatedOK
<1> QED BY <1>3, <1>4 DEF RefreshRotate

LEMMA RefreshReads ==
  ASSUME SessionsInv, NEW h \in Handler, RefreshRead(h)
  PROVE  SessionsInv'
<1> DEFINE s == request[h].session
<1>1. s \in SignIn /\ UNCHANGED <<challenge, exchanged, redeemed>>
  BY DEF RefreshRead, SessionsInv, RequestsOK, Carries, Waits
<1>2. HoldersKept
  <2>1. CASE EndRequest(h)
    BY <2>1, RequestEnds DEF SessionsInv, LetsGo
  <2>2. CASE Proceed(h, "rotate")
    BY <2>2, RequestProceeds DEF SessionsInv, RequestLabel, Past
  <2> QED BY <2>1, <2>2 DEF RefreshRead
<1>3. CASE UNCHANGED signIn
  BY <1>1, <1>2, <1>3, SignInsStay, ChallengesStay, NothingRedeemed DEF SessionsInv
<1>4. CASE signIn' = [signIn EXCEPT ![s].live = FALSE]
  <2> DEFINE row == [signIn[s] EXCEPT !.live = FALSE]
  <2>5. signIn[s] \in SignInRow /\ signIn[s].refresh \in Int
    BY <1>1, SessionNumbers DEF SessionsInv, SessionRows, SignInRow
  <2>1. row \in SignInRow /\ row.refresh = signIn[s].refresh /\ row.access = signIn[s].access
        /\ signIn[s].refresh \in Int
    BY <2>5 DEF SignInRow
  <2>2. signIn' = [signIn EXCEPT ![s] = row]
    BY <1>1, <1>4 DEF SessionsInv, SessionRows
  <2> HIDE DEF row, s
  <2>3. row.refresh >= signIn[s].refresh
    BY <2>1
  <2>4. SignInsKept
    BY <1>1, <2>1, <2>2, <2>3, OneSignIn DEF SessionsInv
  <2> QED BY <1>1, <1>2, <2>4, ChallengesStay, NothingRedeemed DEF SessionsInv
<1> QED BY <1>3, <1>4 DEF RefreshRead

LEMMA Binds ==
  ASSUME SessionsInv, NEW h \in Handler, Bind(h)
  PROVE  SessionsInv'
<1> DEFINE s == request[h].session
<1>1. HoldersKept /\ UNCHANGED <<challenge, exchanged, redeemed>>
  BY RequestEnds DEF Bind, SessionsInv, LetsGo
<1>2. SignInsKept
  <2>1. CASE UNCHANGED signIn
    BY <2>1, SignInsStay DEF SessionsInv
  <2>2. CASE s \in SignIn /\ signIn' = [signIn EXCEPT ![s].bound = @ \/ signIn[s].live]
    <3> DEFINE bound == signIn[s].bound \/ signIn[s].live
               row == [signIn[s] EXCEPT !.bound = bound]
    <3>1. signIn[s] \in SignInRow /\ bound \in BOOLEAN
      BY <2>2 DEF SessionsInv, SessionRows, SignInRow
    <3>2. signIn' = [signIn EXCEPT ![s] = row]
      BY <2>2 DEF SessionsInv, SessionRows
    <3> HIDE DEF bound
    <3>3. row \in SignInRow /\ row.refresh = signIn[s].refresh /\ row.access = signIn[s].access
          /\ signIn[s].refresh \in Int
      BY <3>1, SessionNumbers DEF SignInRow
    <3> HIDE DEF row, s
    <3>4. row.refresh >= signIn[s].refresh
      BY <3>3
    <3> QED BY <2>2, <3>2, <3>3, <3>4, OneSignIn DEF SessionsInv
  <2>3. CASE s \notin SignIn /\ signIn' = [signIn EXCEPT ![s].bound = @ \/ signIn[s].live]
    <3>1. signIn' = signIn
      BY <2>3 DEF SessionsInv, SessionRows
    <3> QED BY <3>1, SignInsStay DEF SessionsInv
  <2> QED BY <2>1, <2>2, <2>3 DEF Bind
<1> QED BY <1>1, <1>2, ChallengesStay, NothingRedeemed DEF SessionsInv

LEMMA IssuesChallenge ==
  ASSUME SessionsInv, NEW h \in Handler, IssueChallenge(h)
  PROVE  SessionsInv'
<1> DEFINE bound == IF request[h].kind = "stepupOptions" THEN request[h].session ELSE NoOne
           purpose == Purpose[request[h].kind]
           owner == request[h].person
           minted == [state |-> "pending", purpose |-> purpose, owner |-> owner,
                      session |-> bound, left |-> ChallengeTTL]
<1>1. HoldersKept /\ UNCHANGED <<signIn, exchanged, redeemed>>
  BY RequestEnds DEF IssueChallenge, SessionsInv, LetsGo
<1>2. PICK c \in One({x \in Challenge : challenge[x] = NoChallenge}) : challenge' = [challenge EXCEPT ![c] = minted]
  BY DEF IssueChallenge
<1>3. c \in Challenge /\ challenge[c].state = "none"
  BY OneIs, Blanks
<1>4. minted \in ChallengeRow
  <2>1. request[h] \in RequestRow /\ request[h].kind \in DOMAIN Purpose
    BY DEF IssueChallenge, Waits, SessionsInv, RequestsOK
  <2>2. purpose \in Ceremony /\ owner \in Person \cup {NoOne} /\ bound \in SignIn \cup {NoOne}
    BY <2>1 DEF Purpose, Ceremony, RequestRow
  <2> HIDE DEF purpose, owner, bound
  <2> QED BY <2>2, SessionNumbers DEF ChallengeRow
<1> HIDE DEF minted
<1>5. ChallengesKept
  BY <1>2, <1>3, <1>4 DEF SessionsInv, SessionRows, ChallengesKept
<1> QED BY <1>1, <1>5, SignInsStay, NothingRedeemed DEF SessionsInv

LEMMA Ticks ==
  ASSUME SessionsInv, Tick
  PROVE  SessionsInv'
<1>1. HoldersKept
  BY DEF Tick, SessionsInv, RequestsOK, HoldersKept
<1>2. \A n \in Nat : Less(n) \in Nat
  BY DEF Less
<1>3. SignInsKept
  <2> DEFINE left(s) == Less(signIn[s].idle)
             age(s) == IF signIn[s].step > Freshness THEN signIn[s].step ELSE signIn[s].step + 1
             row(s) == [signIn[s] EXCEPT !.idle = left(s), !.step = age(s)]
  <2>4. \A s \in SignIn : /\ signIn[s] \in SignInRow /\ signIn[s].idle \in Nat /\ signIn[s].step \in Nat
                          /\ signIn[s].refresh \in 0..MaxSecret
    BY DEF SessionsInv, SessionRows, SignInRow
  <2>1. \A s \in SignIn : signIn[s] \in SignInRow /\ left(s) \in Nat /\ age(s) \in Nat
                          /\ signIn[s].refresh \in Int
    BY <1>2, <2>4, SessionNumbers
  <2>2. signIn' = [s \in SignIn |-> row(s)]
    BY <2>1 DEF Tick, SignInRow
  <2> HIDE DEF left, age
  <2>3. ASSUME NEW s \in SignIn
        PROVE  /\ row(s) \in SignInRow /\ row(s).access = signIn[s].access
               /\ row(s).refresh = signIn[s].refresh /\ signIn[s].refresh \in Int
    <3> DEFINE was == signIn[s]
               l == left(s)
               a == age(s)
    <3>1. was \in SignInRow /\ l \in Nat /\ a \in Nat /\ was.refresh \in Int
      BY <2>1
    <3> HIDE DEF was, l, a
    <3>2. /\ [was EXCEPT !.idle = l, !.step = a] \in SignInRow
          /\ [was EXCEPT !.idle = l, !.step = a].access = was.access
          /\ [was EXCEPT !.idle = l, !.step = a].refresh = was.refresh
      BY <3>1 DEF SignInRow
    <3> QED BY <3>1, <3>2 DEF was, l, a
  <2> HIDE DEF row
  <2> QED BY <2>2, <2>3 DEF SignInsKept
<1>4. ChallengesKept
  <2> DEFINE left(c) == Less(challenge[c].left)
             row(c) == [challenge[c] EXCEPT !.left = left(c)]
  <2>1. \A c \in Challenge : challenge[c] \in ChallengeRow /\ left(c) \in Nat
    BY <1>2 DEF SessionsInv, SessionRows, ChallengeRow
  <2>2. challenge' = [c \in Challenge |-> row(c)]
    BY DEF Tick
  <2> HIDE DEF left
  <2>3. \A c \in Challenge :
          row(c) \in ChallengeRow /\ row(c).state = challenge[c].state
          /\ row(c).purpose = challenge[c].purpose /\ row(c).session = challenge[c].session
    BY <2>1 DEF ChallengeRow
  <2> HIDE DEF row
  <2> QED BY <2>2, <2>3 DEF ChallengesKept
<1> QED BY <1>1, <1>3, <1>4, NothingRedeemed DEF Tick

LEMMA SessionsInvStep ==
  ASSUME SessionsInv, [SessionsNext]_sessionVars
  PROVE  SessionsInv'
<1>1. ASSUME HoldersKept, UNCHANGED <<signIn, challenge, exchanged, redeemed>> PROVE SessionsInv'
  BY <1>1, SignInsStay, ChallengesStay, NothingRedeemed DEF SessionsInv
<1>2. ASSUME HoldersKept, NEW ss, Revoked(ss), UNCHANGED <<challenge, exchanged, redeemed>> PROVE SessionsInv'
  BY <1>2, Revokes, ChallengesStay, NothingRedeemed DEF SessionsInv
<1>3. UNCHANGED request => HoldersKept
  BY DEF SessionsInv, RequestsOK, HoldersKept
<1>4. CASE UNCHANGED sessionVars
  BY <1>1, <1>3, <1>4 DEF sessionVars
<1>5. ASSUME NEW h \in Handler, SessionStep(h) PROVE SessionsInv'
  <2>1. CASE AskSigned(h) \/ AskOpen(h)
    BY <1>1, <2>1, SignedAsks, OpenAsks DEF AskSigned, AskOpen
  <2>2. CASE \/ Authenticate(h) \/ EnforceThrottle(h) \/ TryPassword(h) \/ RecordAttempt(h)
             \/ ReadPasskeys(h) \/ FindPasskey(h) \/ ReadAccount(h) \/ AdvanceCount(h)
             \/ RemovePasskey(h) \/ Abandon(h)
    <3>1. UNCHANGED <<signIn, challenge, exchanged, redeemed>>
      BY <2>2 DEF Authenticate, EnforceThrottle, TryPassword, RecordAttempt, ReadPasskeys, FindPasskey,
                  ReadAccount, AdvanceCount, RemovePasskey, Abandon
    <3> QED BY <1>1, <2>2, <3>1, Reads
  <2>3. CASE Logout(h) \/ LogoutAll(h)
    BY <1>2, <2>3, RequestEnds DEF Logout, LogoutAll, LetsGo, SessionsInv
  <2>4. CASE \/ IssueSession(h) \/ Bind(h) \/ IssueChallenge(h) \/ Consume(h) \/ AddPasskey(h)
             \/ Elevate(h) \/ RefreshRead(h) \/ RefreshRotate(h)
    BY <2>4, Issues, Binds, IssuesChallenge, Consumes, AddsPasskey, Elevates, RefreshReads, Rotates
  <2> QED BY <1>5, <2>1, <2>2, <2>3, <2>4 DEF SessionStep
<1>6. ASSUME NEW a \in Person, CloseAccount(a) \/ SweepAccount(a) \/ EnableAccount(a) PROVE SessionsInv'
  BY <1>1, <1>2, <1>3, <1>6 DEF CloseAccount, SweepAccount, EnableAccount
<1>7. CASE Tick
  BY <1>7, Ticks
<1> QED BY <1>4, <1>5, <1>6, <1>7 DEF SessionsNext

\* A refresh secret is exchanged at most once, however many requests present
\* it together (rotate_refresh compares it in the UPDATE).
THEOREM RefreshOnceHolds == SessionsSpec => []RefreshOnce
<1>1. SessionsInv => RefreshOnce
  BY DEF SessionsInv, RefreshOK, RefreshOnce
<1> QED BY <1>1, SessionsInitInv, SessionsInvStep, PTL DEF SessionsSpec

\* A challenge has its effect at most once, however often its answer is
\* submitted (consume_challenge_if_pending).
THEOREM ChallengeOnceHolds == SessionsSpec => []ChallengeOnce
<1>1. SessionsInv => ChallengeOnce
  BY DEF SessionsInv, ChallengeOK, ChallengeOnce
<1> QED BY <1>1, SessionsInitInv, SessionsInvStep, PTL DEF SessionsSpec

\* A session is elevated only by a step-up that was begun in that session
\* (challenge_binding_ok, step_up_verify).
THEOREM ElevatedByItsOwnCeremonyHolds == SessionsSpec => []ElevatedByItsOwnCeremony
<1>1. SessionsInv => ElevatedByItsOwnCeremony
  BY DEF SessionsInv, ElevatedOK
<1> QED BY <1>1, SessionsInitInv, SessionsInvStep, PTL DEF SessionsSpec

-----------------------------------------------------------------------------
(***************************************************************************)
(* Revocation.                                                             *)
(***************************************************************************)

\* Over a step, session s, once revoked, keeps what it had.
KeepsRevoked(s) == signIn[s].owner # NoOne /\ ~signIn[s].live
  => /\ ~signIn'[s].live
     /\ \A f \in {"access", "refresh", "level", "bound"} : signIn'[s][f] = signIn[s][f]

\* A step that replaces the row of a live session, or a row not in use.
LEMMA OtherSignInsKept ==
  ASSUME SessionRows, NEW x, NEW r, signIn' = [signIn EXCEPT ![x] = r],
         x \in SignIn => signIn[x].live \/ signIn[x].owner = NoOne
  PROVE  \A s \in SignIn : KeepsRevoked(s)
<1>1. \A s \in SignIn \ {x} : signIn'[s] = signIn[s]
  BY DEF SessionRows
<1> QED BY <1>1 DEF KeepsRevoked

\* Revoking and the clock.
LEMMA RevokesRevoked ==
  ASSUME SessionRows, NEW ss, Revoked(ss)
  PROVE  \A s \in SignIn : KeepsRevoked(s)
<1> SUFFICES ASSUME NEW s \in SignIn, ~signIn[s].live PROVE KeepsRevoked(s)
  BY DEF KeepsRevoked
<1>1. signIn[s] \in SignInRow
  BY DEF SessionRows
<1>2. signIn'[s] = signIn[s] \/ signIn'[s] = [signIn[s] EXCEPT !.live = FALSE]
  BY DEF Revoked
<1> QED BY <1>1, <1>2 DEF KeepsRevoked, SignInRow

LEMMA TickRevoked == ASSUME SessionRows, Tick PROVE \A s \in SignIn : KeepsRevoked(s)
<1> SUFFICES ASSUME NEW s \in SignIn, ~signIn[s].live PROVE KeepsRevoked(s)
  BY DEF KeepsRevoked
<1> DEFINE idle == Less(signIn[s].idle)
           step == IF signIn[s].step > Freshness THEN signIn[s].step ELSE signIn[s].step + 1
<1>1. signIn[s] \in SignInRow
  BY DEF SessionRows
<1>2. signIn'[s] = [signIn[s] EXCEPT !.idle = idle, !.step = step]
  BY <1>1 DEF Tick, SignInRow
<1> HIDE DEF idle, step
<1> QED BY <1>1, <1>2 DEF KeepsRevoked, SignInRow

LEMMA StepRevoked ==
  ASSUME SessionsInv, NEW h \in Handler, SessionStep(h)
  PROVE  \A s \in SignIn : KeepsRevoked(s)
<1> DEFINE x == request[h].session
<1>1. SessionRows
  BY DEF SessionsInv
<1>2. CASE UNCHANGED signIn
  BY <1>2 DEF KeepsRevoked
<1>3. CASE Logout(h) \/ LogoutAll(h)
  BY <1>1, <1>3, RevokesRevoked DEF Logout, LogoutAll
<1>4. CASE IssueSession(h)
  <2>1. PICK s \in One({y \in SignIn : signIn[y] = NoSignIn}) :
          \E level : signIn' = [signIn EXCEPT ![s] = Issued(request[h].person, level)]
    BY <1>4 DEF IssueSession
  <2>2. signIn[s].owner = NoOne
    <3>1. signIn[s] = NoSignIn
      BY DEF One
    <3> QED BY <3>1 DEF NoSignIn
  <2> QED BY <1>1, <2>1, <2>2, OtherSignInsKept
<1>5. CASE Bind(h) /\ signIn' = [signIn EXCEPT ![x].bound = @ \/ signIn[x].live]
  <2> SUFFICES ASSUME NEW s \in SignIn, ~signIn[s].live PROVE KeepsRevoked(s)
    BY DEF KeepsRevoked
  <2>1. signIn[s] \in SignInRow
    BY <1>1 DEF SessionRows
  <2> DEFINE bound == signIn[s].bound \/ signIn[s].live
  <2>2. bound = signIn[s].bound
    BY <2>1 DEF SignInRow
  <2>3. signIn'[s] = signIn[s] \/ signIn'[s] = [signIn[s] EXCEPT !.bound = bound]
    BY <1>1, <1>5 DEF SessionRows
  <2> HIDE DEF bound
  <2> QED BY <2>1, <2>2, <2>3 DEF KeepsRevoked, SignInRow
<1>6. CASE /\ Elevate(h) \/ RefreshRead(h) \/ RefreshRotate(h)
           /\ ~UNCHANGED signIn
  <2>1. x \in SignIn
    BY <1>6 DEF Elevate, RefreshRead, RefreshRotate, SessionsInv, RequestsOK, Carries, Waits
  <2>2. signIn[x] \in SignInRow /\ signIn[x].live
    BY <1>1, <1>6, <2>1 DEF Elevate, RefreshRead, RefreshRotate, Elevable, Current, SessionRows
  <2> HIDE DEF x
  <2>3. \E r : signIn' = [signIn EXCEPT ![x] = r]
    <3>1. CASE signIn' = [signIn EXCEPT ![x].level = "aal2", ![x].step = 0, ![x].access = @ + 1]
      <4> DEFINE access == signIn[x].access + 1
                 row == [signIn[x] EXCEPT !.level = "aal2", !.step = 0, !.access = access]
      <4>1. signIn' = [signIn EXCEPT ![x] = row]
        BY <1>1, <2>1, <2>2, <3>1 DEF SessionRows, SignInRow
      <4> QED BY <4>1
    <3>2. CASE signIn' = [signIn EXCEPT ![x].live = FALSE]
      BY <1>1, <2>1, <3>2 DEF SessionRows
    <3>3. CASE signIn' = [signIn EXCEPT ![x].refresh = @ + 1]
      BY <1>1, <2>1, <3>3 DEF SessionRows
    <3> QED BY <1>6, <3>1, <3>2, <3>3 DEF Elevate, RefreshRead, RefreshRotate, x
  <2> QED BY <1>1, <2>2, <2>3, OtherSignInsKept
<1> QED BY <1>2, <1>3, <1>4, <1>5, <1>6
        DEF SessionStep, AskSigned, AskOpen, Authenticate, EnforceThrottle, TryPassword, RecordAttempt,
            Bind, ReadPasskeys, IssueChallenge, Consume, AddPasskey, FindPasskey, ReadAccount,
            AdvanceCount, RemovePasskey, Abandon

\* Nothing happens to a session once it is revoked, by whichever handler and
\* however late: no elevation, no new secret, no key, no new life (the guards
\* that each UPDATE of human_sessions repeats).
THEOREM RevokedIsFinalHolds == SessionsSpec => RevokedIsFinal
<1> DEFINE Kept == \A s \in SignIn : signIn[s].owner # NoOne /\ ~signIn[s].live
      => /\ ~signIn'[s].live
         /\ \A f \in {"access", "refresh", "level", "bound"} : signIn'[s][f] = signIn[s][f]
<1>1. ASSUME SessionsInv, [SessionsNext]_sessionVars PROVE [Kept]_sessionVars
  <2>1. CASE \E h \in Handler : SessionStep(h)
    BY <1>1, <2>1, StepRevoked DEF KeepsRevoked
  <2>2. CASE \E a \in Person : CloseAccount(a) \/ SweepAccount(a) \/ EnableAccount(a)
    BY <1>1, <2>2, RevokesRevoked DEF KeepsRevoked, CloseAccount, SweepAccount, EnableAccount, SessionsInv
  <2>3. CASE Tick
    BY <1>1, <2>3, TickRevoked DEF KeepsRevoked, SessionsInv
  <2>4. CASE UNCHANGED sessionVars
    BY <2>4
  <2> QED BY <1>1, <2>1, <2>2, <2>3, <2>4 DEF SessionsNext
<1> QED BY <1>1, SessionsInitInv, SessionsInvStep, PTL DEF SessionsSpec, RevokedIsFinal

-----------------------------------------------------------------------------
(***************************************************************************)
(* The throttle.                                                           *)
(*                                                                         *)
(* A request that passed the check may still record a failure.  Counted    *)
(* with the failures in the window such requests stay below the bound: one *)
(* passes only while the failures are below the threshold, and then all    *)
(* requests in flight together are the bound's second term.                *)
(***************************************************************************)

AttemptsBy(r, a) == /\ r.kind = "password" /\ r.person = a
                    /\ r.at \in {"verify", "issue", "record"}
Attempting(a) == {h \in Handler : AttemptsBy(request[h], a)}

ThrottleKept(a) ==
  /\ IsFiniteSet(failures[a])
  /\ Cardinality(failures[a]) + Cardinality(Attempting(a)) <= Threshold - 1 + Cardinality(Handler)

ThrottleInv ==
  /\ failures \in [Person -> SUBSET (Nat \X Nat)]
  /\ \A a \in Person : ThrottleKept(a)

-----------------------------------------------------------------------------
LEMMA AttemptingSize ==
  ASSUME IsFiniteSet(Handler), NEW a
  PROVE  /\ IsFiniteSet(Attempting(a)) /\ Cardinality(Attempting(a)) \in Nat
         /\ Cardinality(Attempting(a)') \in Nat /\ Cardinality(Attempting(a)') <= Cardinality(Handler)
         /\ Cardinality(Handler) \in Nat
<1>1. Attempting(a) \in SUBSET Handler /\ Attempting(a)' \in SUBSET Handler
  BY DEF Attempting
<1>2. \A S \in SUBSET Handler : /\ IsFiniteSet(S) /\ Cardinality(S) \in Nat
                                /\ Cardinality(S) <= Cardinality(Handler)
  BY FS_Subset, FS_CardinalityType
<1> QED BY <1>1, <1>2, FS_CardinalityType

LEMMA ThrottleInitInv == ASSUME IsFiniteSet(Handler), SessionsInit PROVE ThrottleInv
<1>1. failures = [a \in Person |-> {}] /\ \A h \in Handler : request[h] = NoRequest
  BY DEF SessionsInit
<1>2. ASSUME NEW a \in Person PROVE ThrottleKept(a)
  <2>1. Attempting(a) = {}
    BY <1>1 DEF Attempting, AttemptsBy, NoRequest
  <2>2. failures[a] = {}
    BY <1>1
  <2>3. Cardinality(Handler) \in Nat /\ Threshold \in Nat \ {0}
    BY FS_CardinalityType, SessionsAssumption
  <2> QED BY <2>1, <2>2, <2>3, FS_EmptySet DEF ThrottleKept
<1> QED BY <1>1, <1>2 DEF ThrottleInv

\* A step after which no account has more failures or more attempts than before.
LEMMA ThrottleLess ==
  ASSUME IsFiniteSet(Handler), NEW a, ThrottleKept(a),
         IsFiniteSet(failures'[a]), Cardinality(failures'[a]) <= Cardinality(failures[a]),
         Attempting(a)' \subseteq Attempting(a)
  PROVE  ThrottleKept(a)'
<1>1. Cardinality(Attempting(a)') <= Cardinality(Attempting(a))
  BY AttemptingSize, FS_Subset
<1>2. /\ Cardinality(failures[a]) \in Nat /\ Cardinality(failures'[a]) \in Nat
      /\ Cardinality(Attempting(a)) \in Nat /\ Cardinality(Attempting(a)') \in Nat
      /\ Cardinality(Handler) \in Nat /\ Threshold \in Nat
  BY AttemptingSize, FS_CardinalityType, SessionsAssumption DEF ThrottleKept
<1>3. Cardinality(failures[a]) + Cardinality(Attempting(a)) <= Threshold - 1 + Cardinality(Handler)
  BY DEF ThrottleKept
<1> HIDE DEF Attempting
<1>4. Cardinality(failures'[a]) + Cardinality(Attempting(a)') <= Threshold - 1 + Cardinality(Handler)
  BY <1>1, <1>2, <1>3
<1> QED BY <1>4 DEF ThrottleKept

\* A handler's step that begins no attempt.
Calmly(h) == \E r : /\ request' = [request EXCEPT ![h] = r]
                    /\ \A a : AttemptsBy(r, a) => AttemptsBy(request[h], a)

LEMMA CalmAttempts ==
  ASSUME RequestsOK, NEW h \in Handler, Calmly(h), NEW a
  PROVE  Attempting(a)' \subseteq Attempting(a)
<1>1. PICK r : /\ request' = [request EXCEPT ![h] = r]
               /\ \A b : AttemptsBy(r, b) => AttemptsBy(request[h], b)
  BY DEF Calmly
<1>2. request'[h] = r /\ \A g \in Handler \ {h} : request'[g] = request[g]
  BY <1>1 DEF RequestsOK
<1> QED BY <1>1, <1>2 DEF Attempting

LEMMA CalmEnd == ASSUME NEW h \in Handler, EndRequest(h) PROVE Calmly(h)
<1>1. \A a : ~AttemptsBy(NoRequest, a)
  BY DEF AttemptsBy, NoRequest
<1> QED BY <1>1 DEF EndRequest, Calmly

LEMMA CalmProceed ==
  ASSUME RequestsOK, NEW h \in Handler, NEW label, Proceed(h, label),
         \/ label \notin {"verify", "issue", "record"} \/ request[h].kind # "password"
         \/ request[h].at \in {"verify", "issue", "record"}
  PROVE  Calmly(h)
<1> DEFINE r == [request[h] EXCEPT !.at = label]
<1>1. request[h] \in RequestRow
  BY DEF RequestsOK
<1>2. r.kind = request[h].kind /\ r.person = request[h].person /\ r.at = label
  BY <1>1 DEF RequestRow
<1>3. request' = [request EXCEPT ![h] = r]
  BY DEF Proceed, RequestsOK
<1> HIDE DEF r
<1>4. \A a : AttemptsBy(r, a) => AttemptsBy(request[h], a)
  BY <1>2 DEF AttemptsBy
<1> QED BY <1>3, <1>4 DEF Calmly

LEMMA CalmStart ==
  ASSUME NEW h \in Handler, NEW r, Start(h, r), r.kind # "password" \/ r.at = "throttle"
  PROVE  Calmly(h)
BY DEF Start, Calmly, AttemptsBy

\* A handler's request that goes on, or a failed password that is to be recorded.
LEMMA CalmRecord ==
  ASSUME RequestsOK, NEW h \in Handler, request[h].at \in {"verify", "issue"},
         NEW label, NEW s, NEW right,
         \/ request' = [request EXCEPT ![h].at = label, ![h].right = right]
         \/ request' = [request EXCEPT ![h].session = s, ![h].at = label]
  PROVE  Calmly(h)
<1> DEFINE q == [request[h] EXCEPT !.at = label, !.right = right]
           r == [request[h] EXCEPT !.session = s, !.at = label]
<1>1. request[h] \in RequestRow
  BY DEF RequestsOK
<1>2. q.kind = request[h].kind /\ q.person = request[h].person
  BY <1>1 DEF RequestRow
<1>3. r.kind = request[h].kind /\ r.person = request[h].person
  BY <1>1 DEF RequestRow
<1>4. request' = [request EXCEPT ![h] = q] \/ request' = [request EXCEPT ![h] = r]
  BY <1>1 DEF RequestsOK, RequestRow
<1> HIDE DEF q, r
<1>5. ASSUME NEW x, x = q \/ x = r PROVE \A a : AttemptsBy(x, a) => AttemptsBy(request[h], a)
  BY <1>2, <1>3, <1>5 DEF AttemptsBy
<1> QED BY <1>4, <1>5 DEF Calmly

LEMMA CalmSigned == ASSUME NEW h \in Handler, AskSigned(h) PROVE Calmly(h)
<1>1. PICK k \in sessionMenu \cap Signed, s \in SignIn : Arrives(h, k, s)
  BY DEF AskSigned
<1> DEFINE fresh == k = "registerOptions" /\ IsFresh(s)
           a == signIn[s].owner
<1>2. PICK c \in Challenge \cup {NoOne}, p \in Passkey \cup {NoOne}, n \in 0..MaxCount :
        Start(h, [NoRequest EXCEPT !.kind = k, !.at = "status", !.person = a, !.session = s,
                    !.fresh = fresh, !.challenge = c, !.passkey = p, !.count = n])
  BY <1>1 DEF Arrives
<1> HIDE DEF fresh, a
<1> DEFINE r == [NoRequest EXCEPT !.kind = k, !.at = "status", !.person = a, !.session = s,
                   !.fresh = fresh, !.challenge = c, !.passkey = p, !.count = n]
<1>3. r.kind = k
  BY Blanks DEF RequestRow
<1>4. Start(h, r)
  BY <1>2
<1> HIDE DEF r
<1> QED BY <1>3, <1>4, CalmStart DEF Signed

LEMMA CalmOpen == ASSUME SessionsInv, NEW h \in Handler, AskOpen(h) PROVE Calmly(h)
<1>0. NoRequest \in RequestRow
  BY Blanks
<1>1. ASSUME NEW a, NEW right,
             Start(h, [NoRequest EXCEPT !.kind = "password", !.at = "throttle", !.person = a, !.right = right])
      PROVE  Calmly(h)
  <2> DEFINE r == [NoRequest EXCEPT !.kind = "password", !.at = "throttle", !.person = a, !.right = right]
  <2>1. r.at = "throttle"
    BY <1>0 DEF RequestRow
  <2>2. Start(h, r)
    BY <1>1
  <2> HIDE DEF r
  <2> QED BY <2>1, <2>2, CalmStart
<1>2. ASSUME NEW a, Start(h, [NoRequest EXCEPT !.kind = "loginOptions", !.at = "passkeys", !.person = a])
      PROVE  Calmly(h)
  <2> DEFINE r == [NoRequest EXCEPT !.kind = "loginOptions", !.at = "passkeys", !.person = a]
  <2>1. r.kind = "loginOptions"
    BY <1>0 DEF RequestRow
  <2>2. Start(h, r)
    BY <1>2
  <2> HIDE DEF r
  <2> QED BY <2>1, <2>2, CalmStart
<1>3. ASSUME NEW c, NEW p, NEW a, NEW n,
             Start(h, [NoRequest EXCEPT !.kind = "login", !.at = "consume", !.challenge = c,
                         !.passkey = p, !.person = a, !.count = n])
      PROVE  Calmly(h)
  <2> DEFINE r == [NoRequest EXCEPT !.kind = "login", !.at = "consume", !.challenge = c,
                     !.passkey = p, !.person = a, !.count = n]
  <2>1. r.kind = "login"
    BY <1>0 DEF RequestRow
  <2>2. Start(h, r)
    BY <1>3
  <2> HIDE DEF r
  <2> QED BY <2>1, <2>2, CalmStart
<1>4. ASSUME NEW s, NEW secret,
             Start(h, [NoRequest EXCEPT !.kind = "refresh", !.at = "read", !.session = s,
                         !.secret = secret])
      PROVE  Calmly(h)
  <2> DEFINE r == [NoRequest EXCEPT !.kind = "refresh", !.at = "read", !.session = s, !.secret = secret]
  <2>1. r.kind = "refresh"
    BY <1>0 DEF RequestRow
  <2>2. Start(h, r)
    BY <1>4
  <2> HIDE DEF r
  <2> QED BY <2>1, <2>2, CalmStart
<1> QED BY <1>1, <1>2, <1>3, <1>4 DEF AskOpen

\* Every step of a handler but those that look at the throttle or record.
LEMMA CalmSteps ==
  ASSUME SessionsInv, NEW h \in Handler, SessionStep(h),
         ~EnforceThrottle(h), ~RecordAttempt(h)
  PROVE  Calmly(h) /\ UNCHANGED failures
<1>1. RequestsOK
  BY DEF SessionsInv
<1>2. CASE AskSigned(h) \/ AskOpen(h)
  BY <1>2, CalmSigned, CalmOpen DEF AskSigned, AskOpen
<1>3. CASE TryPassword(h)
  <2>1. request[h].at = "verify" /\ UNCHANGED failures
    BY <1>3 DEF TryPassword, Waits
  <2>2. CASE Proceed(h, "issue")
    BY <1>1, <2>1, <2>2, CalmProceed
  <2>3. CASE request' = [request EXCEPT ![h].at = "record", ![h].right = FALSE]
    BY <1>1, <2>1, <2>3, CalmRecord
  <2> QED BY <1>3, <2>1, <2>2, <2>3 DEF TryPassword
<1>4. CASE IssueSession(h)
  <2>1. request[h].at = "issue" /\ UNCHANGED failures
    BY <1>4 DEF IssueSession, Waits
  <2>2. \E s, label : request' = [request EXCEPT ![h].session = s, ![h].at = label]
    BY <1>4 DEF IssueSession
  <2> QED BY <1>1, <2>1, <2>2, CalmRecord
<1>5. CASE \/ Authenticate(h) \/ ReadPasskeys(h) \/ Consume(h) \/ FindPasskey(h) \/ ReadAccount(h)
           \/ AdvanceCount(h)
  <2>1. request[h].kind # "password" /\ UNCHANGED failures
    BY <1>5 DEF Authenticate, ReadPasskeys, Consume, FindPasskey, ReadAccount, AdvanceCount, Waits,
                Signed, Ceremony
  <2>2. EndRequest(h) \/ \E label : Proceed(h, label)
    BY <1>5 DEF Authenticate, ReadPasskeys, Consume, FindPasskey, ReadAccount, AdvanceCount
  <2> QED BY <1>1, <2>1, <2>2, CalmEnd, CalmProceed
<1>6. CASE RefreshRead(h)
  <2>1. request[h].kind # "password" /\ UNCHANGED failures /\ (EndRequest(h) \/ Proceed(h, "rotate"))
    BY <1>6 DEF RefreshRead, Waits
  <2> QED BY <1>1, <2>1, CalmEnd, CalmProceed
<1>7. CASE \/ Bind(h) \/ IssueChallenge(h) \/ AddPasskey(h) \/ Elevate(h) \/ RefreshRotate(h)
           \/ Logout(h) \/ LogoutAll(h) \/ RemovePasskey(h) \/ Abandon(h)
  <2>1. EndRequest(h) /\ UNCHANGED failures
    BY <1>7 DEF Bind, IssueChallenge, AddPasskey, Elevate, RefreshRotate, Logout, LogoutAll, RemovePasskey,
                Abandon
  <2> QED BY <2>1, CalmEnd
<1> QED BY <1>2, <1>3, <1>4, <1>5, <1>6, <1>7 DEF SessionStep

LEMMA ThrottleCalm ==
  ASSUME IsFiniteSet(Handler), RequestsOK, ThrottleInv, UNCHANGED failures,
         UNCHANGED request \/ \E h \in Handler : Calmly(h)
  PROVE  ThrottleInv'
<1>1. ASSUME NEW a \in Person PROVE ThrottleKept(a)'
  <2>1. ThrottleKept(a)
    BY DEF ThrottleInv
  <2>2. Attempting(a)' \subseteq Attempting(a)
    BY CalmAttempts DEF Attempting
  <2>3. Cardinality(failures[a]) <= Cardinality(failures[a])
    BY <2>1, FS_CardinalityType DEF ThrottleKept
  <2> QED BY <2>1, <2>2, <2>3, ThrottleLess DEF ThrottleKept
<1> QED BY <1>1 DEF ThrottleInv

\* The request passes only below the threshold.
LEMMA ThrottleEnforces ==
  ASSUME IsFiniteSet(Handler), RequestsOK, ThrottleInv, NEW h \in Handler, EnforceThrottle(h)
  PROVE  ThrottleInv'
<1>1. CASE EndRequest(h)
  BY <1>1, CalmEnd, ThrottleCalm DEF EnforceThrottle
<1>2. CASE ~Throttled(request[h].person) /\ Proceed(h, "verify")
  <2>1. ASSUME NEW a \in Person PROVE ThrottleKept(a)'
    <3>1. ThrottleKept(a) /\ UNCHANGED failures
      BY DEF ThrottleInv, EnforceThrottle
    <3>2. CASE a = request[h].person
      <4>1. ~(Cardinality(failures[a]) >= Threshold)
        BY <1>2, <3>2 DEF Throttled, Failures
      <4>2. /\ Cardinality(failures[a]) \in Nat /\ Threshold \in Nat /\ Cardinality(Handler) \in Nat
            /\ Cardinality(Attempting(a)') \in Nat /\ Cardinality(Attempting(a)') <= Cardinality(Handler)
        BY <3>1, AttemptingSize, FS_CardinalityType, SessionsAssumption DEF ThrottleKept
      <4> HIDE DEF Attempting
      <4>3. Cardinality(failures[a]) + Cardinality(Attempting(a)') <= Threshold - 1 + Cardinality(Handler)
        BY <4>1, <4>2
      <4> QED BY <3>1, <4>3 DEF ThrottleKept
    <3>3. CASE a # request[h].person
      <4>1. \A g \in Handler : g # h => request'[g] = request[g]
        BY <1>2 DEF Proceed, RequestsOK
      <4>2. request'[h].person = request[h].person
        BY <1>2 DEF Proceed, RequestsOK, RequestRow
      <4>3. Attempting(a)' \subseteq Attempting(a)
        BY <3>3, <4>1, <4>2 DEF Attempting, AttemptsBy
      <4>4. Cardinality(failures[a]) <= Cardinality(failures[a])
        BY <3>1, FS_CardinalityType DEF ThrottleKept
      <4> QED BY <3>1, <4>3, <4>4, ThrottleLess DEF ThrottleKept
    <3> QED BY <3>2, <3>3
  <2> QED BY <2>1 DEF ThrottleInv, EnforceThrottle
<1> QED BY <1>1, <1>2 DEF EnforceThrottle

LEMMA NewRowIs ==
  ASSUME NEW rows \in SUBSET (Nat \X Nat), IsFiniteSet(rows)
  PROVE  /\ rows \cup {NewRow(rows)} \in SUBSET (Nat \X Nat) /\ IsFiniteSet(rows \cup {NewRow(rows)})
         /\ Cardinality(rows) \in Nat
         /\ Cardinality(rows \cup {NewRow(rows)}) \in {Cardinality(rows), Cardinality(rows) + 1}
<1>1. {x \in rows : x[1] = 0} \in SUBSET rows
  OBVIOUS
<1>2. Cardinality({x \in rows : x[1] = 0}) \in Nat
  BY <1>1, FS_Subset, FS_CardinalityType
<1>3. NewRow(rows) \in Nat \X Nat
  BY <1>2 DEF NewRow
<1> QED BY <1>3, FS_AddElement, FS_CardinalityType

\* A failure more is an attempt less.
LEMMA ThrottleRecords ==
  ASSUME IsFiniteSet(Handler), RequestsOK, ThrottleInv, NEW h \in Handler, RecordAttempt(h)
  PROVE  ThrottleInv'
<1>1. /\ request[h].kind = "password" /\ request[h].at = "record"
      /\ EndRequest(h) \/ Proceed(h, "bind")
  BY DEF RecordAttempt, Waits
<1>2. Calmly(h)
  BY <1>1, CalmEnd, CalmProceed
<1>3. CASE UNCHANGED failures
  BY <1>2, <1>3, ThrottleCalm
<1> DEFINE p == request[h].person
<1>4. CASE ~request[h].right /\ failures' = [failures EXCEPT ![p] = @ \cup {NewRow(@)}]
  <2>1. EndRequest(h)
    BY <1>4 DEF RecordAttempt
  <2>2. ~AttemptsBy(request'[h], p) /\ \A g \in Handler \ {h} : request'[g] = request[g]
    BY <2>1 DEF EndRequest, RequestsOK, NoRequest, AttemptsBy
  <2>3. ASSUME NEW a \in Person PROVE ThrottleKept(a)' /\ failures'[a] \in SUBSET (Nat \X Nat)
    <3>1. ThrottleKept(a) /\ failures[a] \in SUBSET (Nat \X Nat) /\ failures \in [Person -> SUBSET (Nat \X Nat)]
      BY DEF ThrottleInv
    <3>2. CASE a # p
      <4>1. failures'[a] = failures[a]
        BY <1>4, <3>1, <3>2
      <4>2. Attempting(a)' \subseteq Attempting(a)
        BY <1>2, CalmAttempts
      <4>3. Cardinality(failures[a]) <= Cardinality(failures[a])
        BY <3>1, FS_CardinalityType DEF ThrottleKept
      <4> QED BY <3>1, <4>1, <4>2, <4>3, ThrottleLess DEF ThrottleKept
    <3>3. CASE a = p
      <4>1. failures'[a] = failures[a] \cup {NewRow(failures[a])}
        BY <1>4, <3>1, <3>3
      <4>2. /\ failures'[a] \in SUBSET (Nat \X Nat) /\ IsFiniteSet(failures'[a])
            /\ Cardinality(failures[a]) \in Nat
            /\ Cardinality(failures'[a]) \in {Cardinality(failures[a]), Cardinality(failures[a]) + 1}
        BY <3>1, <4>1, NewRowIs DEF ThrottleKept
      <4>3. Attempting(a)' = Attempting(a) \ {h} /\ h \in Attempting(a)
        BY <1>1, <2>2, <3>3 DEF Attempting, AttemptsBy
      <4>4. Cardinality(Attempting(a)') = Cardinality(Attempting(a)) - 1
        BY <4>3, AttemptingSize, FS_RemoveElement
      <4>5. /\ Cardinality(Attempting(a)) \in Nat /\ Cardinality(Handler) \in Nat /\ Threshold \in Nat
            /\ Cardinality(failures[a]) + Cardinality(Attempting(a)) <= Threshold - 1 + Cardinality(Handler)
        BY <3>1, AttemptingSize, SessionsAssumption DEF ThrottleKept
      <4> HIDE DEF Attempting
      <4>6. Cardinality(failures'[a]) + Cardinality(Attempting(a)') <= Threshold - 1 + Cardinality(Handler)
        BY <4>2, <4>4, <4>5
      <4> QED BY <4>2, <4>6 DEF ThrottleKept
    <3> QED BY <3>2, <3>3
  <2>4. DOMAIN failures' = Person /\ failures' = [a \in Person |-> failures'[a]]
    BY <1>4 DEF ThrottleInv
  <2> QED BY <2>3, <2>4 DEF ThrottleInv
<1> QED BY <1>3, <1>4 DEF RecordAttempt

\* Rows grow older or leave the window.
LEMMA AgedRows ==
  ASSUME NEW rows \in SUBSET (Nat \X Nat), IsFiniteSet(rows)
  PROVE  /\ Aged(rows) \in SUBSET (Nat \X Nat) /\ IsFiniteSet(Aged(rows))
         /\ Cardinality(Aged(rows)) <= Cardinality(rows)
<1> DEFINE young == {y \in rows : y[1] < ThrottleWindow}
           older(x) == <<x[1] + 1, x[2]>>
           age == [x \in young |-> older(x)]
           aged == {older(x) : x \in young}
<1>1. young \in SUBSET rows
  OBVIOUS
<1>2. IsFiniteSet(young) /\ Cardinality(young) <= Cardinality(rows)
  BY <1>1, FS_Subset
<1>3. \A x \in young : older(x) \in Nat \X Nat
  BY <1>1
<1>4. aged \in SUBSET (Nat \X Nat)
  BY <1>3
<1>5. age \in Surjection(young, aged)
  BY DEF Surjection
<1>6. IsFiniteSet(aged) /\ Cardinality(aged) <= Cardinality(young)
  BY <1>2, <1>5, FS_Surjection
<1>7. Cardinality(aged) \in Nat /\ Cardinality(young) \in Nat /\ Cardinality(rows) \in Nat
  BY <1>2, <1>6, FS_CardinalityType
<1>8. Aged(rows) = aged
  BY DEF Aged
<1> HIDE DEF aged, young
<1> QED BY <1>2, <1>4, <1>6, <1>7, <1>8

LEMMA ThrottleTicks ==
  ASSUME IsFiniteSet(Handler), ThrottleInv, Tick
  PROVE  ThrottleInv'
<1>1. failures' = [a \in Person |-> Aged(failures[a])] /\ UNCHANGED request
  BY DEF Tick
<1>2. ASSUME NEW a \in Person PROVE ThrottleKept(a)' /\ failures'[a] \in SUBSET (Nat \X Nat)
  <2>1. ThrottleKept(a) /\ failures[a] \in SUBSET (Nat \X Nat) /\ failures'[a] = Aged(failures[a])
    BY <1>1 DEF ThrottleInv
  <2>2. Attempting(a)' \subseteq Attempting(a)
    BY <1>1 DEF Attempting
  <2> QED BY <2>1, <2>2, AgedRows, ThrottleLess DEF ThrottleKept
<1> QED BY <1>1, <1>2 DEF ThrottleInv

LEMMA ThrottleInvStep ==
  ASSUME IsFiniteSet(Handler), SessionsInv, ThrottleInv, [SessionsNext]_sessionVars
  PROVE  ThrottleInv'
<1>1. RequestsOK
  BY DEF SessionsInv
<1>2. CASE UNCHANGED sessionVars
  BY <1>1, <1>2, ThrottleCalm DEF sessionVars
<1>3. ASSUME NEW h \in Handler, SessionStep(h) PROVE ThrottleInv'
  BY <1>1, <1>3, ThrottleEnforces, ThrottleRecords, CalmSteps, ThrottleCalm
<1>4. ASSUME NEW a \in Person, CloseAccount(a) \/ SweepAccount(a) \/ EnableAccount(a) PROVE ThrottleInv'
  BY <1>1, <1>4, ThrottleCalm DEF CloseAccount, SweepAccount, EnableAccount
<1>5. CASE Tick
  BY <1>5, ThrottleTicks
<1> QED BY <1>2, <1>3, <1>4, <1>5 DEF SessionsNext

\* The failures in the window stay below the threshold but for one for each
\* request that can be in flight, whatever interleaves with the check
\* (enforce_login_throttle) and the record of an attempt.
THEOREM ThrottleBoundedHolds ==
  ASSUME IsFiniteSet(Handler)
  PROVE  SessionsSpec => []ThrottleBounded
<1>1. ThrottleInv => ThrottleBounded
  <2> SUFFICES ASSUME ThrottleInv, NEW a \in Person PROVE Failures(a) < Threshold + Cardinality(Handler)
    BY DEF ThrottleBounded
  <2>1. /\ Cardinality(failures[a]) \in Nat /\ Cardinality(Attempting(a)) \in Nat
        /\ Cardinality(Handler) \in Nat /\ Threshold \in Nat
        /\ Cardinality(failures[a]) + Cardinality(Attempting(a)) <= Threshold - 1 + Cardinality(Handler)
    BY AttemptingSize, FS_CardinalityType, SessionsAssumption DEF ThrottleInv, ThrottleKept
  <2> HIDE DEF Attempting
  <2> QED BY <2>1 DEF Failures
<1>2. SessionsInit => SessionsInv /\ ThrottleInv
  BY SessionsInitInv, ThrottleInitInv
<1>3. SessionsInv /\ ThrottleInv /\ [SessionsNext]_sessionVars => (SessionsInv /\ ThrottleInv)'
  BY SessionsInvStep, ThrottleInvStep
<1> QED BY <1>1, <1>2, <1>3, PTL DEF SessionsSpec

-----------------------------------------------------------------------------
(***************************************************************************)
(* Columns of the sessions' rows.  Every request but a refresh names the   *)
(* account it is for (Attributed): the session's owner, the username that  *)
(* was typed, or the owner of a challenge that was issued.                 *)
(***************************************************************************)
PasskeyRow == [state : {"none", "active", "revoked"}, owner : Person \cup {NoOne}, count : 0..MaxCount]

Attributed(r) == /\ r.kind \notin {"idle", "refresh"} => r.person \in Person
                 /\ r.count \in 0..MaxCount

SignInsOwned == \A s \in SignIn :
  /\ signIn[s].access <= MaxSecret /\ signIn[s].idle <= IdleTimeout /\ signIn[s].step <= Freshness + 1
  /\ signIn[s].live => signIn[s].owner \in Person /\ signIn[s].access > 0
PasskeysOwned == /\ passkey \in [Passkey -> PasskeyRow]
                 /\ \A p \in Passkey : passkey[p].state = "active" => passkey[p].owner \in Person
ChallengesOwned == \A c \in Challenge :
  challenge[c].left <= ChallengeTTL /\ (challenge[c].state # "none" => challenge[c].owner \in Person)
FailureRows == /\ failures \in [Person -> SUBSET ((0..ThrottleWindow) \X Nat)]
               /\ \A a \in Person : IsFiniteSet(failures[a])

ColumnsInv ==
  /\ open \subseteq Person /\ SignInsOwned /\ PasskeysOwned /\ ChallengesOwned /\ FailureRows
  /\ \A h \in Handler : Attributed(request[h])

LEMMA NewSignIn ==
  ASSUME NEW a \in Person, NEW level \in {"aal1", "aal2"}
  PROVE  /\ Issued(a, level).access <= MaxSecret /\ Issued(a, level).idle <= IdleTimeout
         /\ Issued(a, level).step <= Freshness + 1
         /\ Issued(a, level).owner = a /\ Issued(a, level).access > 0
<1> DEFINE step == IF level = "aal2" THEN 0 ELSE Freshness + 1
           row == [NoSignIn EXCEPT !.owner = a, !.live = TRUE, !.access = 1, !.refresh = 1,
                     !.level = level, !.step = step, !.idle = IdleTimeout]
<1>1. Issued(a, level) = row
  BY DEF Issued
<1>2. step \in Nat /\ step <= Freshness + 1 /\ 1 <= MaxSecret /\ IdleTimeout <= IdleTimeout
  BY SessionNumbers
<1> HIDE DEF step
<1>3. row.access = 1 /\ row.idle = IdleTimeout /\ row.step = step /\ row.owner = a
  BY DEF NoSignIn
<1> HIDE DEF row
<1> QED BY <1>1, <1>2, <1>3

LEMMA ColumnsInitInv == SessionsInit => ColumnsInv
<1> SUFFICES ASSUME SessionsInit PROVE ColumnsInv
  OBVIOUS
<1>1. open \subseteq Person
  BY DEF SessionsInit
<1>2. SignInsOwned
  <2>1. PICK n \in 1..Cardinality(SignIn) : \E owner \in [First(n, SignIn) -> Person] :
          signIn = [s \in SignIn |->
            IF s \in DOMAIN owner THEN Issued(owner[s], "aal1") ELSE NoSignIn]
    BY DEF SessionsInit
  <2>2. PICK owner \in [First(n, SignIn) -> Person] :
          signIn = [s \in SignIn |->
            IF s \in DOMAIN owner THEN Issued(owner[s], "aal1") ELSE NoSignIn]
    BY <2>1
  <2>3. ASSUME NEW s \in SignIn
        PROVE  /\ signIn[s].access <= MaxSecret /\ signIn[s].idle <= IdleTimeout /\ signIn[s].step <= Freshness + 1
               /\ signIn[s].live => signIn[s].owner \in Person /\ signIn[s].access > 0
    <3>1. CASE s \in DOMAIN owner
      <4>1. owner[s] \in Person /\ signIn[s] = Issued(owner[s], "aal1")
        BY <2>2, <3>1
      <4> QED BY <4>1, NewSignIn
    <3>2. CASE s \notin DOMAIN owner
      <4>1. signIn[s] = NoSignIn
        BY <2>2, <3>2
      <4> QED BY <4>1, SessionNumbers DEF NoSignIn
    <3> QED BY <3>1, <3>2
  <2> QED BY <2>3 DEF SignInsOwned
<1>3. PasskeysOwned
  <2> DEFINE key == CHOOSE f \in [Person -> Passkey] : \A a, b \in Person : f[a] = f[b] => a = b
  <2>1. \E holders \in SUBSET Person : passkey = [p \in Passkey |-> IF \E a \in holders : key[a] = p
            THEN [state |-> "active", owner |-> CHOOSE a \in holders : key[a] = p, count |-> 0]
            ELSE NoPasskey]
    BY DEF SessionsInit
  <2> HIDE DEF key
  <2>2. PICK holders \in SUBSET Person : passkey = [p \in Passkey |-> IF \E a \in holders : key[a] = p
            THEN [state |-> "active", owner |-> CHOOSE a \in holders : key[a] = p, count |-> 0]
            ELSE NoPasskey]
    BY <2>1
  <2>3. 0 \in 0..MaxCount
    BY SessionNumbers
  <2>4. \A p \in Passkey : passkey[p] \in PasskeyRow /\ (passkey[p].state = "active" => passkey[p].owner \in Person)
    BY <2>2, <2>3 DEF PasskeyRow, NoPasskey
  <2> QED BY <2>2, <2>4 DEF PasskeysOwned
<1>4. ChallengesOwned
  BY SessionNumbers DEF SessionsInit, ChallengesOwned, NoChallenge
<1>5. FailureRows
  BY FS_EmptySet DEF SessionsInit, FailureRows
<1>6. \A h \in Handler : Attributed(request[h])
  BY SessionNumbers DEF SessionsInit, Attributed, NoRequest
<1> QED BY <1>1, <1>2, <1>3, <1>4, <1>5, <1>6 DEF ColumnsInv

\* Whom the requests are for.
LEMMA RequestsAttributed ==
  ASSUME SessionsInv, ColumnsInv, NEW h \in Handler, SessionStep(h)
  PROVE  \A g \in Handler : Attributed(request'[g])
<1>0. request[h] \in RequestRow /\ Attributed(request[h])
  BY DEF SessionsInv, RequestsOK, ColumnsInv
<1>1. ASSUME NEW r, request' = [request EXCEPT ![h] = r], Attributed(r)
      PROVE  \A g \in Handler : Attributed(request'[g])
  BY <1>1 DEF SessionsInv, RequestsOK, ColumnsInv
<1>2. ASSUME request' = [request EXCEPT ![h] = request'[h]],
             /\ request'[h].kind = request[h].kind /\ request'[h].person = request[h].person
             /\ request'[h].count = request[h].count
      PROVE  \A g \in Handler : Attributed(request'[g])
  BY <1>0, <1>1, <1>2 DEF Attributed
<1>3. ASSUME EndRequest(h) PROVE \A g \in Handler : Attributed(request'[g])
  <2>1. Attributed(NoRequest)
    BY SessionNumbers DEF NoRequest, Attributed
  <2> QED BY <1>1, <1>3, <2>1 DEF EndRequest
<1>4. ASSUME NEW label, NEW right, NEW s,
             \/ request' = [request EXCEPT ![h].at = label]
             \/ request' = [request EXCEPT ![h].at = label, ![h].right = right]
             \/ request' = [request EXCEPT ![h].session = s, ![h].at = label]
      PROVE  \A g \in Handler : Attributed(request'[g])
  <2>1. request' = [request EXCEPT ![h] = request'[h]]
    BY <1>4 DEF SessionsInv, RequestsOK
  <2>2. /\ request'[h].kind = request[h].kind /\ request'[h].person = request[h].person
        /\ request'[h].count = request[h].count
    BY <1>0, <1>4 DEF SessionsInv, RequestsOK, RequestRow
  <2> QED BY <1>2, <2>1, <2>2
<1>5. CASE AskSigned(h)
  <2>1. PICK k \in sessionMenu \cap Signed, s \in SignIn : Arrives(h, k, s)
    BY <1>5 DEF AskSigned
  <2> DEFINE fresh == k = "registerOptions" /\ IsFresh(s)
             a == signIn[s].owner
  <2>2. PICK c \in Challenge \cup {NoOne}, p \in Passkey \cup {NoOne}, n \in 0..MaxCount :
          Start(h, [NoRequest EXCEPT !.kind = k, !.at = "status", !.person = a, !.session = s,
                       !.fresh = fresh, !.challenge = c, !.passkey = p, !.count = n])
    BY <2>1 DEF Arrives
  <2>3. a \in Person
    BY <2>1 DEF Arrives, ColumnsInv, SignInsOwned
  <2> HIDE DEF fresh, a
  <2> DEFINE r == [NoRequest EXCEPT !.kind = k, !.at = "status", !.person = a, !.session = s,
                     !.fresh = fresh, !.challenge = c, !.passkey = p, !.count = n]
  <2>4. Start(h, r)
    BY <2>2
  <2>5. r.person = a /\ r.count = n
    BY DEF NoRequest
  <2> HIDE DEF r
  <2> QED BY <1>1, <2>3, <2>4, <2>5 DEF Start, Attributed
<1>6. CASE AskOpen(h)
  <2>1. ASSUME NEW a \in Person, NEW right \in BOOLEAN,
               Start(h, [NoRequest EXCEPT !.kind = "password", !.at = "throttle", !.person = a, !.right = right])
        PROVE  \A g \in Handler : Attributed(request'[g])
    <3> DEFINE r == [NoRequest EXCEPT !.kind = "password", !.at = "throttle", !.person = a, !.right = right]
    <3>1. Start(h, r)
      BY <2>1
    <3>2. r.person = a /\ r.count = 0
      BY DEF NoRequest
    <3> HIDE DEF r
    <3>3. Attributed(r)
      BY <3>2, SessionNumbers DEF Attributed
    <3> QED BY <1>1, <3>1, <3>3 DEF Start
  <2>2. ASSUME NEW a \in Person,
               Start(h, [NoRequest EXCEPT !.kind = "loginOptions", !.at = "passkeys", !.person = a])
        PROVE  \A g \in Handler : Attributed(request'[g])
    <3> DEFINE r == [NoRequest EXCEPT !.kind = "loginOptions", !.at = "passkeys", !.person = a]
    <3>1. Start(h, r)
      BY <2>2
    <3>2. r.person = a /\ r.count = 0
      BY DEF NoRequest
    <3> HIDE DEF r
    <3>3. Attributed(r)
      BY <3>2, SessionNumbers DEF Attributed
    <3> QED BY <1>1, <3>1, <3>3 DEF Start
  <2>3. ASSUME NEW c \in Challenge, NEW p \in Passkey, NEW n \in 0..MaxCount, challenge[c].state # "none",
               Start(h, [NoRequest EXCEPT !.kind = "login", !.at = "consume", !.challenge = c,
                           !.passkey = p, !.person = challenge[c].owner, !.count = n])
        PROVE  \A g \in Handler : Attributed(request'[g])
    <3> DEFINE a == challenge[c].owner
    <3>1. a \in Person
      BY <2>3 DEF ColumnsInv, ChallengesOwned
    <3> HIDE DEF a
    <3> DEFINE r == [NoRequest EXCEPT !.kind = "login", !.at = "consume", !.challenge = c,
                       !.passkey = p, !.person = a, !.count = n]
    <3>2. Start(h, r)
      BY <2>3 DEF a
    <3>3. r.person = a /\ r.count = n
      BY DEF NoRequest
    <3> HIDE DEF r
    <3> QED BY <1>1, <3>1, <3>2, <3>3 DEF Start, Attributed
  <2>4. ASSUME NEW s \in SignIn, NEW secret,
               Start(h, [NoRequest EXCEPT !.kind = "refresh", !.at = "read", !.session = s,
                           !.secret = secret])
        PROVE  \A g \in Handler : Attributed(request'[g])
    <3> DEFINE r == [NoRequest EXCEPT !.kind = "refresh", !.at = "read", !.session = s, !.secret = secret]
    <3>1. Start(h, r)
      BY <2>4
    <3>2. r.kind = "refresh" /\ r.count = 0
      BY DEF NoRequest
    <3> HIDE DEF r
    <3>3. Attributed(r)
      BY <3>2, SessionNumbers DEF Attributed
    <3> QED BY <1>1, <3>1, <3>3 DEF Start
  <2> QED BY <1>6, <2>1, <2>2, <2>3, <2>4 DEF AskOpen
<1>7. CASE \/ Authenticate(h) \/ EnforceThrottle(h) \/ TryPassword(h) \/ IssueSession(h)
           \/ RecordAttempt(h) \/ ReadPasskeys(h) \/ Consume(h) \/ FindPasskey(h) \/ ReadAccount(h)
           \/ AdvanceCount(h) \/ RefreshRead(h)
  BY <1>3, <1>4, <1>7
     DEF Authenticate, EnforceThrottle, TryPassword, IssueSession, RecordAttempt, ReadPasskeys,
         Consume, FindPasskey, ReadAccount, AdvanceCount, RefreshRead, Proceed
<1>8. CASE \/ Bind(h) \/ IssueChallenge(h) \/ AddPasskey(h) \/ Elevate(h) \/ RefreshRotate(h)
           \/ Logout(h) \/ LogoutAll(h) \/ RemovePasskey(h) \/ Abandon(h)
  BY <1>3, <1>8 DEF Bind, IssueChallenge, AddPasskey, Elevate, RefreshRotate, Logout, LogoutAll,
                    RemovePasskey, Abandon
<1> QED BY <1>5, <1>6, <1>7, <1>8 DEF SessionStep

\* The sessions: one row is replaced, or every row is looked over.
LEMMA OneOwned ==
  ASSUME SessionRows, SignInsOwned, NEW x \in SignIn, NEW r, signIn' = [signIn EXCEPT ![x] = r],
         r.access <= MaxSecret, r.idle <= IdleTimeout, r.step <= Freshness + 1,
         r.live => r.owner \in Person /\ r.access > 0
  PROVE  SignInsOwned'
<1>1. signIn'[x] = r /\ \A s \in SignIn \ {x} : signIn'[s] = signIn[s]
  BY DEF SessionRows
<1> QED BY <1>1 DEF SignInsOwned

LEMMA RevokedOwned == ASSUME SessionRows, SignInsOwned, NEW ss, Revoked(ss) PROVE SignInsOwned'
<1>1. ASSUME NEW s \in SignIn
      PROVE  /\ signIn'[s].access <= MaxSecret /\ signIn'[s].idle <= IdleTimeout
             /\ signIn'[s].step <= Freshness + 1
             /\ signIn'[s].live => signIn'[s].owner \in Person /\ signIn'[s].access > 0
  <2>1. signIn[s] \in SignInRow
    BY DEF SessionRows
  <2>2. signIn'[s] = signIn[s] \/ signIn'[s] = [signIn[s] EXCEPT !.live = FALSE]
    BY DEF Revoked
  <2>3. /\ signIn'[s].access = signIn[s].access /\ signIn'[s].idle = signIn[s].idle
        /\ signIn'[s].step = signIn[s].step /\ signIn'[s].owner = signIn[s].owner
        /\ signIn'[s].live => signIn[s].live
    BY <2>1, <2>2 DEF SignInRow
  <2> QED BY <2>3 DEF SignInsOwned
<1> QED BY <1>1 DEF SignInsOwned

LEMMA TickOwned == ASSUME SessionsInv, ColumnsInv, Tick PROVE ColumnsInv'
<1>0. /\ SessionRows /\ SignInsOwned /\ PasskeysOwned /\ ChallengesOwned /\ FailureRows
      /\ \A n \in Nat : Less(n) \in Nat /\ Less(n) <= n
  BY DEF SessionsInv, ColumnsInv, Less
<1>1. SignInsOwned'
  <2>1. ASSUME NEW s \in SignIn
        PROVE  /\ signIn'[s].access <= MaxSecret /\ signIn'[s].idle <= IdleTimeout
               /\ signIn'[s].step <= Freshness + 1
               /\ signIn'[s].live => signIn'[s].owner \in Person /\ signIn'[s].access > 0
    <3> DEFINE idle == Less(signIn[s].idle)
               step == IF signIn[s].step > Freshness THEN signIn[s].step ELSE signIn[s].step + 1
    <3>1. signIn[s] \in SignInRow
      BY <1>0 DEF SessionRows
    <3>2. idle <= IdleTimeout /\ step <= Freshness + 1
      BY <1>0, <3>1, SessionNumbers DEF SignInsOwned, SignInRow
    <3>3. signIn'[s] = [signIn[s] EXCEPT !.idle = idle, !.step = step]
      BY <3>1 DEF Tick, SignInRow
    <3> HIDE DEF idle, step
    <3>4. /\ signIn'[s].idle = idle /\ signIn'[s].step = step
          /\ signIn'[s].access = signIn[s].access /\ signIn'[s].live = signIn[s].live
          /\ signIn'[s].owner = signIn[s].owner
      BY <3>1, <3>3 DEF SignInRow
    <3> QED BY <1>0, <3>2, <3>4 DEF SignInsOwned
  <2> QED BY <2>1 DEF SignInsOwned
<1>2. ChallengesOwned'
  <2>1. ASSUME NEW c \in Challenge
        PROVE  challenge'[c].left <= ChallengeTTL /\ (challenge'[c].state # "none" => challenge'[c].owner \in Person)
    <3> DEFINE left == Less(challenge[c].left)
    <3>1. challenge[c] \in ChallengeRow
      BY <1>0 DEF SessionRows
    <3>2. left <= ChallengeTTL
      BY <1>0, <3>1, SessionNumbers DEF ChallengesOwned, ChallengeRow
    <3>3. challenge'[c] = [challenge[c] EXCEPT !.left = left]
      BY DEF Tick
    <3> HIDE DEF left
    <3> QED BY <1>0, <3>1, <3>2, <3>3 DEF ChallengesOwned, ChallengeRow
  <2> QED BY <2>1 DEF ChallengesOwned
<1>3. FailureRows'
  <2>1. ASSUME NEW a \in Person
        PROVE  IsFiniteSet(Aged(failures[a])) /\ Aged(failures[a]) \in SUBSET ((0..ThrottleWindow) \X Nat)
    <3>1. failures[a] \in SUBSET ((0..ThrottleWindow) \X Nat) /\ IsFiniteSet(failures[a])
      BY <1>0 DEF FailureRows
    <3>2. failures[a] \in SUBSET (Nat \X Nat)
      BY <3>1, SessionNumbers
    <3>3. IsFiniteSet(Aged(failures[a]))
      BY <3>1, <3>2, AgedRows
    <3>4. ASSUME NEW y \in failures[a], y[1] < ThrottleWindow
          PROVE  <<y[1] + 1, y[2]>> \in (0..ThrottleWindow) \X Nat
      BY <3>1, <3>4, SessionNumbers
    <3> QED BY <3>3, <3>4 DEF Aged
  <2>2. failures' = [a \in Person |-> Aged(failures[a])]
    BY DEF Tick
  <2> QED BY <2>1, <2>2 DEF FailureRows
<1> QED BY <1>1, <1>2, <1>3 DEF Tick, ColumnsInv, PasskeysOwned

LEMMA StepOwnsSignIns ==
  ASSUME SessionsInv, ColumnsInv, NEW h \in Handler, SessionStep(h)
  PROVE  SignInsOwned'
<1> DEFINE x == request[h].session
<1>0. /\ SessionRows /\ SignInsOwned /\ Attributed(request[h])
      /\ \A s \in SignIn : signIn[s] \in SignInRow
  BY DEF SessionsInv, ColumnsInv, SessionRows
<1>1. CASE UNCHANGED signIn
  BY <1>0, <1>1 DEF SignInsOwned
<1>2. CASE Logout(h) \/ LogoutAll(h)
  BY <1>0, <1>2, RevokedOwned DEF Logout, LogoutAll
<1>3. CASE IssueSession(h)
  <2>1. PICK s \in One({y \in SignIn : signIn[y] = NoSignIn}) :
          signIn' = [signIn EXCEPT ![s] = Issued(request[h].person,
            IF request[h].kind = "login" THEN "aal2" ELSE "aal1")]
    BY <1>3 DEF IssueSession
  <2>2. request[h].person \in Person
    BY <1>0, <1>3 DEF IssueSession, Waits, Attributed
  <2>3. s \in SignIn
    BY OneIs
  <2>4. (IF request[h].kind = "login" THEN "aal2" ELSE "aal1") \in {"aal1", "aal2"}
    OBVIOUS
  <2> QED BY <1>0, <2>1, <2>2, <2>3, <2>4, NewSignIn, OneOwned
<1>4. CASE Bind(h) /\ signIn' = [signIn EXCEPT ![x].bound = @ \/ signIn[x].live]
  <2>1. ASSUME NEW s \in SignIn
        PROVE  /\ signIn'[s].access = signIn[s].access /\ signIn'[s].idle = signIn[s].idle
               /\ signIn'[s].step = signIn[s].step /\ signIn'[s].owner = signIn[s].owner
               /\ signIn'[s].live = signIn[s].live
    <3> DEFINE bound == signIn[x].bound \/ signIn[x].live
    <3>1. signIn' = [signIn EXCEPT ![x].bound = bound]
      BY <1>4
    <3> HIDE DEF x, bound
    <3> QED BY <1>0, <3>1 DEF SessionRows, SignInRow
  <2> QED BY <1>0, <2>1 DEF SignInsOwned
<1>5. CASE /\ Elevate(h) \/ RefreshRead(h) \/ RefreshRotate(h)
           /\ ~UNCHANGED signIn
  <2>1. x \in SignIn
    BY <1>5 DEF Elevate, RefreshRead, RefreshRotate, SessionsInv, RequestsOK, Carries, Waits
  <2>2. \/ /\ signIn[x].live /\ signIn[x].access < MaxSecret
           /\ signIn' = [signIn EXCEPT ![x].level = "aal2", ![x].step = 0, ![x].access = @ + 1]
        \/ signIn' = [signIn EXCEPT ![x].live = FALSE]
        \/ signIn' = [signIn EXCEPT ![x].refresh = @ + 1]
    BY <1>5 DEF Elevate, Elevable, RefreshRead, RefreshRotate
  <2> HIDE DEF x
  <2>3. /\ signIn[x] \in SignInRow /\ signIn[x].access <= MaxSecret /\ signIn[x].idle <= IdleTimeout
        /\ signIn[x].step <= Freshness + 1
        /\ signIn[x].live => signIn[x].owner \in Person /\ signIn[x].access > 0
    BY <1>0, <2>1 DEF SignInsOwned
  <2>4. CASE /\ signIn[x].live /\ signIn[x].access < MaxSecret
             /\ signIn' = [signIn EXCEPT ![x].level = "aal2", ![x].step = 0, ![x].access = @ + 1]
    <3> DEFINE access == signIn[x].access + 1
               row == [signIn[x] EXCEPT !.level = "aal2", !.step = 0, !.access = access]
    <3>1. signIn' = [signIn EXCEPT ![x] = row]
      BY <1>0, <2>1, <2>3, <2>4 DEF SessionRows, SignInRow
    <3>2. access <= MaxSecret /\ access > 0 /\ 0 <= Freshness + 1
      BY <2>3, <2>4, SessionNumbers DEF SignInRow
    <3> HIDE DEF access
    <3>3. /\ row.access = access /\ row.idle = signIn[x].idle /\ row.step = 0
          /\ row.owner = signIn[x].owner
      BY <2>3 DEF SignInRow
    <3> HIDE DEF row
    <3> QED BY <1>0, <2>1, <2>3, <2>4, <3>1, <3>2, <3>3, OneOwned
  <2>5. CASE signIn' = [signIn EXCEPT ![x].live = FALSE]
    <3>1. signIn' = [signIn EXCEPT ![x] = [signIn[x] EXCEPT !.live = FALSE]]
      BY <1>0, <2>1, <2>5 DEF SessionRows
    <3> DEFINE row == [signIn[x] EXCEPT !.live = FALSE]
    <3>2. /\ row.access = signIn[x].access /\ row.idle = signIn[x].idle /\ row.step = signIn[x].step
          /\ row.live = FALSE
      BY <2>3 DEF SignInRow
    <3>3. signIn' = [signIn EXCEPT ![x] = row]
      BY <3>1
    <3> HIDE DEF row
    <3> QED BY <1>0, <2>1, <2>3, <3>2, <3>3, OneOwned
  <2>6. CASE signIn' = [signIn EXCEPT ![x].refresh = @ + 1]
    <3> DEFINE row == [signIn[x] EXCEPT !.refresh = signIn[x].refresh + 1]
    <3>1. signIn' = [signIn EXCEPT ![x] = row]
      BY <1>0, <2>1, <2>6 DEF SessionRows
    <3>2. /\ row.access = signIn[x].access /\ row.idle = signIn[x].idle /\ row.step = signIn[x].step
          /\ row.live = signIn[x].live /\ row.owner = signIn[x].owner
      BY <2>3 DEF SignInRow
    <3> HIDE DEF row
    <3> QED BY <1>0, <2>1, <2>3, <3>1, <3>2, OneOwned
  <2> QED BY <2>2, <2>4, <2>5, <2>6
<1> QED BY <1>1, <1>2, <1>3, <1>4, <1>5
        DEF SessionStep, AskSigned, AskOpen, Authenticate, EnforceThrottle, TryPassword, RecordAttempt,
            Bind, ReadPasskeys, IssueChallenge, Consume, AddPasskey, FindPasskey, ReadAccount,
            AdvanceCount, RemovePasskey, Abandon

LEMMA StepOwnsPasskeys ==
  ASSUME SessionsInv, ColumnsInv, NEW h \in Handler, SessionStep(h)
  PROVE  PasskeysOwned'
<1> DEFINE p == request[h].passkey
<1>0. PasskeysOwned /\ Attributed(request[h])
  BY DEF ColumnsInv
<1>1. CASE UNCHANGED passkey
  BY <1>0, <1>1 DEF PasskeysOwned
<1>2. CASE AddPasskey(h) /\ ~UNCHANGED passkey
  <2> DEFINE row == [state |-> "active", owner |-> request[h].person, count |-> 0]
  <2>1. passkey' = [passkey EXCEPT ![p] = row]
    BY <1>2 DEF AddPasskey
  <2>2. request[h].person \in Person
    BY <1>0, <1>2 DEF AddPasskey, Waits, Attributed
  <2>3. row \in PasskeyRow /\ row.owner \in Person
    BY <2>2, SessionNumbers DEF PasskeyRow
  <2> HIDE DEF row, p
  <2> QED BY <1>0, <2>1, <2>3 DEF PasskeysOwned
<1>3. CASE AdvanceCount(h) /\ ~UNCHANGED passkey
  <2>1. passkey' = [passkey EXCEPT ![p].count = request[h].count] /\ request[h].count \in 0..MaxCount
    BY <1>0, <1>3 DEF AdvanceCount, Attributed
  <2> HIDE DEF p
  <2> QED BY <1>0, <2>1 DEF PasskeysOwned, PasskeyRow
<1>4. CASE RemovePasskey(h) /\ ~UNCHANGED passkey
  <2>1. passkey' = [passkey EXCEPT ![p].state = "revoked"]
    BY <1>4 DEF RemovePasskey
  <2> HIDE DEF p
  <2>2. ASSUME NEW q \in DOMAIN passkey, passkey[q] \in PasskeyRow
        PROVE  passkey'[q] = passkey[q] \/ passkey'[q] = [passkey[q] EXCEPT !.state = "revoked"]
    BY <2>1
  <2>3. ASSUME NEW q \in DOMAIN passkey, passkey[q] \in PasskeyRow
        PROVE  passkey'[q] \in PasskeyRow /\ passkey'[q].owner = passkey[q].owner
               /\ (passkey'[q].state = passkey[q].state \/ passkey'[q].state = "revoked")
    BY <2>2, <2>3 DEF PasskeyRow
  <2> QED BY <1>0, <2>1, <2>3 DEF PasskeysOwned
<1> QED BY <1>1, <1>2, <1>3, <1>4
        DEF SessionStep, AskSigned, AskOpen, Authenticate, EnforceThrottle, TryPassword, IssueSession,
            RecordAttempt, Bind, ReadPasskeys, IssueChallenge, Consume, FindPasskey, ReadAccount,
            Elevate, RefreshRead, RefreshRotate, Logout, LogoutAll, Abandon

LEMMA StepOwnsChallenges ==
  ASSUME SessionsInv, ColumnsInv, NEW h \in Handler, SessionStep(h)
  PROVE  ChallengesOwned'
<1>0. ChallengesOwned /\ Attributed(request[h]) /\ challenge \in [Challenge -> ChallengeRow]
  BY DEF ColumnsInv, SessionsInv, SessionRows
<1>1. CASE UNCHANGED challenge
  BY <1>0, <1>1 DEF ChallengesOwned
<1>2. CASE Consume(h) /\ ~UNCHANGED challenge
  <2> DEFINE c == request[h].challenge
  <2>1. challenge' = [challenge EXCEPT ![c].state = "consumed"] /\ challenge[c].state = "pending"
    BY <1>2 DEF Consume, Takable
  <2> HIDE DEF c
  <2>2. \A d \in Challenge : /\ challenge'[d].left = challenge[d].left /\ challenge'[d].owner = challenge[d].owner
                             /\ challenge'[d].state # "none" => challenge[d].state # "none"
    BY <1>0, <2>1 DEF ChallengeRow
  <2> QED BY <1>0, <2>2 DEF ChallengesOwned
<1>3. CASE IssueChallenge(h)
  <2>1. PICK c \in One({x \in Challenge : challenge[x] = NoChallenge}) :
          challenge' = [challenge EXCEPT ![c] =
            [state |-> "pending", purpose |-> Purpose[request[h].kind], owner |-> request[h].person,
             session |-> IF request[h].kind = "stepupOptions" THEN request[h].session ELSE NoOne,
             left |-> ChallengeTTL]]
    BY <1>3 DEF IssueChallenge
  <2> DEFINE row == [state |-> "pending", purpose |-> Purpose[request[h].kind], owner |-> request[h].person,
             session |-> IF request[h].kind = "stepupOptions" THEN request[h].session ELSE NoOne,
             left |-> ChallengeTTL]
  <2>2. challenge' = [challenge EXCEPT ![c] = row]
    BY <2>1
  <2>3. request[h].person \in Person
    BY <1>0, <1>3 DEF IssueChallenge, Waits, Attributed, Purpose
  <2>4. row.owner \in Person /\ row.left <= ChallengeTTL
    BY <2>3, SessionNumbers
  <2> HIDE DEF row
  <2> QED BY <1>0, <2>2, <2>4 DEF ChallengesOwned
<1> QED BY <1>1, <1>2, <1>3
        DEF SessionStep, AskSigned, AskOpen, Authenticate, EnforceThrottle, TryPassword, IssueSession,
            RecordAttempt, Bind, ReadPasskeys, AddPasskey, FindPasskey, ReadAccount, AdvanceCount,
            Elevate, RefreshRead, RefreshRotate, Logout, LogoutAll, RemovePasskey, Abandon

LEMMA StepOwnsFailures ==
  ASSUME SessionsInv, ColumnsInv, NEW h \in Handler, SessionStep(h)
  PROVE  FailureRows'
<1>0. FailureRows
  BY DEF ColumnsInv
<1>1. CASE UNCHANGED failures
  BY <1>0, <1>1 DEF FailureRows
<1>2. CASE RecordAttempt(h) /\ ~UNCHANGED failures
  <2> DEFINE a == request[h].person
             rows == failures[a] \cup {NewRow(failures[a])}
  <2>1. failures' = [failures EXCEPT ![a] = rows]
    BY <1>2 DEF RecordAttempt
  <2>2. a \in Person
    BY <1>2 DEF RecordAttempt, Waits, ColumnsInv, Attributed
  <2>3. failures[a] \in SUBSET ((0..ThrottleWindow) \X Nat) /\ IsFiniteSet(failures[a])
    BY <1>0, <2>2 DEF FailureRows
  <2>4. {x \in failures[a] : x[1] = 0} \in SUBSET failures[a]
    OBVIOUS
  <2>5. Cardinality({x \in failures[a] : x[1] = 0}) \in Nat
    BY <2>3, <2>4, FS_Subset, FS_CardinalityType
  <2>6. NewRow(failures[a]) \in (0..ThrottleWindow) \X Nat
    BY <2>5, SessionNumbers DEF NewRow
  <2>7. rows \in SUBSET ((0..ThrottleWindow) \X Nat) /\ IsFiniteSet(rows)
    BY <2>3, <2>6, FS_AddElement
  <2> HIDE DEF rows, a
  <2> QED BY <1>0, <2>1, <2>2, <2>7 DEF FailureRows
<1> QED BY <1>1, <1>2, CalmSteps DEF EnforceThrottle

LEMMA ColumnsInvStep ==
  ASSUME SessionsInv, ColumnsInv, [SessionsNext]_sessionVars
  PROVE  ColumnsInv'
<1>0. SessionRows /\ SignInsOwned
  BY DEF SessionsInv, ColumnsInv
<1>1. CASE UNCHANGED sessionVars
  BY <1>1 DEF sessionVars, ColumnsInv, SignInsOwned, PasskeysOwned, ChallengesOwned, FailureRows
<1>2. ASSUME NEW h \in Handler, SessionStep(h) PROVE ColumnsInv'
  <2>1. UNCHANGED open
    BY <1>2 DEF SessionStep, AskSigned, AskOpen, Authenticate, EnforceThrottle, TryPassword, IssueSession,
            RecordAttempt, Bind, ReadPasskeys, IssueChallenge, Consume, AddPasskey, FindPasskey,
            ReadAccount, AdvanceCount,
            Elevate, RefreshRead, RefreshRotate, Logout, LogoutAll, RemovePasskey, Abandon
  <2> QED BY <1>2, <2>1, RequestsAttributed, StepOwnsSignIns, StepOwnsPasskeys, StepOwnsChallenges,
             StepOwnsFailures DEF ColumnsInv
<1>3. ASSUME NEW a \in Person, CloseAccount(a) \/ SweepAccount(a) \/ EnableAccount(a) PROVE ColumnsInv'
  <2>1. open' \subseteq Person /\ UNCHANGED <<passkey, challenge, failures, request>>
    BY <1>3 DEF CloseAccount, SweepAccount, EnableAccount, ColumnsInv
  <2>2. SignInsOwned'
    BY <1>0, <1>3, RevokedOwned DEF CloseAccount, SweepAccount, EnableAccount, SignInsOwned
  <2> QED BY <2>1, <2>2 DEF ColumnsInv, PasskeysOwned, ChallengesOwned, FailureRows
<1>4. CASE Tick
  BY <1>4, TickOwned
<1> QED BY <1>1, <1>2, <1>3, <1>4 DEF SessionsNext

\* Every row of the sessions keeps its columns and bounds, and whatever races, a
\* session that lives and a passkey in use belong to an account, and no login
\* failure stays on record past the window.
THEOREM SessionsTypes == SessionsSpec => []SessionsTypeOK
<1>1. SessionsInv /\ ColumnsInv => SessionsTypeOK
  <2> SUFFICES ASSUME SessionsInv, ColumnsInv PROVE SessionsTypeOK
    OBVIOUS
  <2>0. SessionRows /\ SignInsOwned /\ PasskeysOwned /\ ChallengesOwned /\ FailureRows
    BY DEF SessionsInv, ColumnsInv
  <2>1. ASSUME NEW s \in SignIn
        PROVE  /\ DOMAIN signIn[s] = DOMAIN NoSignIn
               /\ signIn[s].access \in 0..MaxSecret /\ signIn[s].refresh \in 0..MaxSecret
               /\ signIn[s].idle \in 0..IdleTimeout /\ signIn[s].step \in 0..Freshness + 1
               /\ signIn[s].live => signIn[s].owner \in Person /\ signIn[s].access > 0
    <3>1. signIn[s] \in SignInRow
      BY <2>0 DEF SessionRows
    <3>2. DOMAIN signIn[s] = DOMAIN NoSignIn
      BY <3>1 DEF SignInRow, NoSignIn
    <3>3. signIn[s].access \in Nat /\ signIn[s].idle \in Nat /\ signIn[s].step \in Nat
          /\ signIn[s].refresh \in 0..MaxSecret
      BY <3>1 DEF SignInRow
    <3> QED BY <2>0, <3>2, <3>3, SessionNumbers DEF SignInsOwned
  <2>2. ASSUME NEW p \in Passkey
        PROVE  /\ DOMAIN passkey[p] = DOMAIN NoPasskey /\ passkey[p].count \in 0..MaxCount
               /\ passkey[p].state = "active" => passkey[p].owner \in Person
    BY <2>0 DEF PasskeysOwned, PasskeyRow, NoPasskey
  <2>3. ASSUME NEW c \in Challenge
        PROVE  /\ DOMAIN challenge[c] = DOMAIN NoChallenge
               /\ challenge[c].left \in 0..ChallengeTTL /\ challenge[c].purpose \in Ceremony
    <3>1. challenge[c] \in ChallengeRow
      BY <2>0 DEF SessionRows
    <3>2. DOMAIN challenge[c] = DOMAIN NoChallenge
      BY <3>1 DEF ChallengeRow, NoChallenge
    <3>3. challenge[c].left \in Nat /\ challenge[c].purpose \in Ceremony
      BY <3>1 DEF ChallengeRow
    <3> QED BY <2>0, <3>2, <3>3, SessionNumbers DEF ChallengesOwned
  <2>4. ASSUME NEW h \in Handler PROVE DOMAIN request[h] = DOMAIN NoRequest
    <3>1. request[h] \in RequestRow
      BY DEF SessionsInv, RequestsOK
    <3> QED BY <3>1 DEF RequestRow, NoRequest
  <2> QED BY <2>0, <2>1, <2>2, <2>3, <2>4 DEF SessionsTypeOK, ColumnsInv, FailureRows
<1> QED BY <1>1, SessionsInitInv, SessionsInvStep, ColumnsInitInv, ColumnsInvStep, PTL DEF SessionsSpec

=============================================================================
