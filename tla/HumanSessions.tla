---------------------------- MODULE HumanSessions ----------------------------
(***************************************************************************)
(* Signing in and staying signed in (routes/authn.rs, auth.rs, over        *)
(* human_accounts.rs and human_webauthn_challenges.rs): the login          *)
(* throttle, sessions and their rotating secrets, passkey ceremonies and   *)
(* step-up.                                                                *)
(*                                                                         *)
(* A secret is its number: a session's access and refresh secrets count    *)
(* up as they are replaced, and a client presents any refresh secret issued *)
(* Times are what is left of a lifetime, or an age; Tick moves them.  A    *)
(* cryptographic check succeeds, or the request is one that ends there.    *)
(***************************************************************************)
EXTENDS Integers, FiniteSets

CONSTANTS
  Person,        \* accounts, by the username that signs in
  SignIn, Passkey, Challenge,
  Handler,       \* bound: requests in flight at once
  NoOne,
  Threshold,     \* LOGIN_FAILURE_THRESHOLD
  ThrottleWindow,        \* ticks in LOGIN_THROTTLE_WINDOW_SECS
  IdleTimeout,   \* ticks until idle_expires_at
  ChallengeTTL,  \* ticks in CEREMONY_CHALLENGE_TTL_SECS
  Freshness,     \* ticks in step_up_freshness_minutes
  MaxSecret,     \* bound: secrets of one kind that a session goes through
  MaxCount,      \* bound: an authenticator's signature counter
  SessionMenus   \* bound: the kinds of request a behaviour is about

ASSUME SessionsAssumption ==
  /\ Threshold \in Nat \ {0} /\ MaxSecret \in Nat \ {0} /\ NoOne \notin Person
  /\ {ThrottleWindow, IdleTimeout, ChallengeTTL, Freshness, MaxCount} \subseteq Nat

Ceremony == {"register", "login", "stepup"}

VARIABLES
  open,       \* the accounts whose status is active
  signIn,     \* human_sessions
  passkey,    \* the webauthn rows of human_credentials
  challenge,  \* human_auth_challenges
  failures,   \* failed human_login_attempts of a username: age, and number among its age
  request,    \* the requests in flight
  exchanged,  \* how often a refresh secret was exchanged for a new one
  redeemed,   \* how often a challenge had its effect
  sessionMenu

sessionVars == <<open, signIn, passkey, challenge, failures, request, exchanged,
                 redeemed, sessionMenu>>

NoRequest == [kind |-> "idle", at |-> "done", person |-> NoOne, session |-> NoOne,
              secret |-> 0, fresh |-> FALSE, challenge |-> NoOne, passkey |-> NoOne,
              count |-> 0, right |-> FALSE]
NoSignIn == [owner |-> NoOne, live |-> FALSE, access |-> 0, refresh |-> 0,
             level |-> "aal1", step |-> 0, idle |-> 0, bound |-> FALSE]
NoPasskey == [state |-> "none", owner |-> NoOne, count |-> 0]
NoChallenge == [state |-> "none", purpose |-> "login", owner |-> NoOne,
                session |-> NoOne, left |-> 0]

\* The active passkeys of an account.
Passkeys(a) == {p \in Passkey : passkey[p].owner = a /\ passkey[p].state = "active"}
Failures(a) == Cardinality(failures[a])

Issued(a, level) == [NoSignIn EXCEPT !.owner = a, !.live = TRUE, !.access = 1,
  !.refresh = 1, !.level = level, !.step = IF level = "aal2" THEN 0 ELSE Freshness + 1,
  !.idle = IdleTimeout]

\* Identifiers are random: which ones are taken tells no two behaviours apart.
First(n, ids) == CHOOSE some \in SUBSET ids : Cardinality(some) = n
One(free) == IF free = {} THEN {} ELSE {CHOOSE x \in free : TRUE}

\* Some sessions of password logins are live, and some accounts hold a
\* passkey.
SessionsInit ==
  /\ sessionMenu \in SessionMenus
  /\ open = Person
  /\ \E n \in 1..Cardinality(SignIn) : \E owner \in [First(n, SignIn) -> Person] :
          signIn = [s \in SignIn |->
            IF s \in DOMAIN owner THEN Issued(owner[s], "aal1") ELSE NoSignIn]
  /\ \E holders \in SUBSET Person :
       LET key == CHOOSE f \in [Person -> Passkey] : \A a, b \in Person : f[a] = f[b] => a = b
       IN passkey = [p \in Passkey |-> IF \E a \in holders : key[a] = p
            THEN [state |-> "active", owner |-> CHOOSE a \in holders : key[a] = p, count |-> 0]
            ELSE NoPasskey]
  /\ challenge = [c \in Challenge |-> NoChallenge]
  /\ failures = [a \in Person |-> {}]
  /\ request = [h \in Handler |-> NoRequest]
  /\ exchanged = [s \in SignIn |-> [n \in 1..MaxSecret |-> 0]]
  /\ redeemed = [c \in Challenge |-> 0]

-----------------------------------------------------------------------------
Waits(h, kinds, label) == request[h].kind \in kinds /\ request[h].at = label
Proceed(h, label) == request' = [request EXCEPT ![h].at = label]
EndRequest(h) == request' = [request EXCEPT ![h] = NoRequest]
Start(h, record) == request[h] = NoRequest /\ request' = [request EXCEPT ![h] = record]

\* step_up_is_fresh, of a row that says aal2.
IsFresh(s) == signIn[s].level = "aal2" /\ signIn[s].step <= Freshness

\* require_bearer finds the session by its current access secret and lets it
\* in before it expires; requires_step_up gates the removal of a passkey.  An
\* answer to a challenge is signed with a passkey that was registered.
Arrives(h, k, s) ==
  /\ signIn[s].live /\ signIn[s].idle > 0
  /\ k = "remove" => IsFresh(s)
  /\ \E c \in Challenge \cup {NoOne}, p \in Passkey \cup {NoOne}, n \in 0..MaxCount :
       /\ (c # NoOne) = (k \in {"register", "stepup"}) /\ (c # NoOne => challenge[c].state # "none")
       /\ (p # NoOne) = (k \in {"register", "stepup", "remove"})
       /\ k = "stepup" => passkey[p].state # "none"
       /\ n = 0 \/ k = "stepup"
       /\ Start(h, [NoRequest EXCEPT !.kind = k, !.at = "status", !.person = signIn[s].owner,
            !.session = s, !.fresh = k = "registerOptions" /\ IsFresh(s),
            !.challenge = c, !.passkey = p, !.count = n])

Signed == {"registerOptions", "stepupOptions", "register", "stepup", "remove",
           "logout", "logoutAll"}

\* A request that must be signed in.
AskSigned(h) ==
  /\ \E k \in sessionMenu \cap Signed, s \in SignIn : Arrives(h, k, s)
  /\ UNCHANGED <<open, signIn, passkey, challenge, failures, exchanged, redeemed, sessionMenu>>

\* A request anybody may send: a password, a passkey ceremony, a refresh.
AskOpen(h) ==
  /\ \/ "password" \in sessionMenu /\ \E a \in Person, right \in BOOLEAN :
          Start(h, [NoRequest EXCEPT !.kind = "password", !.at = "throttle",
                       !.person = a, !.right = right])
     \/ "loginOptions" \in sessionMenu /\ \E a \in Person :
          Start(h, [NoRequest EXCEPT !.kind = "loginOptions", !.at = "passkeys", !.person = a])
     \/ "login" \in sessionMenu /\ \E c \in Challenge, p \in Passkey, n \in 0..MaxCount :
          /\ challenge[c].state # "none" /\ passkey[p].state # "none"
          /\ Start(h, [NoRequest EXCEPT !.kind = "login", !.at = "consume", !.challenge = c,
                       !.passkey = p, !.person = challenge[c].owner, !.count = n])
     \/ "refresh" \in sessionMenu /\ \E s \in SignIn : \E secret \in 1..signIn[s].refresh :
          Start(h, [NoRequest EXCEPT !.kind = "refresh", !.at = "read", !.session = s,
                       !.secret = secret])
  /\ UNCHANGED <<open, signIn, passkey, challenge, failures, exchanged, redeemed, sessionMenu>>

\* authenticate_validated_session reads the account in a call of its own.
FirstStep == [registerOptions |-> "passkeys", stepupOptions |-> "passkeys",
              register |-> "consume", stepup |-> "consume", remove |-> "owned",
              logout |-> "revoke", logoutAll |-> "revokeAll"]

Authenticate(h) ==
  /\ Waits(h, Signed, "status")
  /\ IF request[h].person \in open THEN Proceed(h, FirstStep[request[h].kind]) ELSE EndRequest(h)
  /\ UNCHANGED <<open, signIn, passkey, challenge, failures, exchanged, redeemed, sessionMenu>>

-----------------------------------------------------------------------------
(* Password login and its throttle.                                        *)
\* Mutant: one failure more than the threshold is let through.
Throttled_Over(a) == Failures(a) > Threshold
Throttled(a) == Failures(a) >= Threshold

EnforceThrottle(h) ==
  /\ Waits(h, {"password"}, "throttle")
  /\ IF Throttled(request[h].person) THEN EndRequest(h) ELSE Proceed(h, "verify")
  /\ UNCHANGED <<open, signIn, passkey, challenge, failures, exchanged, redeemed, sessionMenu>>

\* try_authenticate: the account, its verifier, then the session's row.
TryPassword(h) ==
  /\ Waits(h, {"password"}, "verify")
  /\ IF request[h].person \in open /\ request[h].right
       THEN Proceed(h, "issue")
       ELSE request' = [request EXCEPT ![h].at = "record", ![h].right = FALSE]
  /\ UNCHANGED <<open, signIn, passkey, challenge, failures, exchanged, redeemed, sessionMenu>>

\* SessionRepository::issue, at the level of the login's kind.
IssueSession(h) ==
  /\ Waits(h, {"password", "login"}, "issue")
  /\ \E s \in One({x \in SignIn : signIn[x] = NoSignIn}) :
       /\ signIn' = [signIn EXCEPT ![s] = Issued(request[h].person,
            IF request[h].kind = "login" THEN "aal2" ELSE "aal1")]
       /\ request' = [request EXCEPT ![h].session = s,
            ![h].at = IF request[h].kind = "login" THEN "bind" ELSE "record"]
  /\ redeemed' = IF request[h].kind = "login"
       THEN [redeemed EXCEPT ![request[h].challenge] = @ + 1] ELSE redeemed
  /\ UNCHANGED <<open, passkey, challenge, failures, exchanged, sessionMenu>>

NewRow(rows) == <<0, Cardinality({x \in rows : x[1] = 0})>>

\* The attempt is recorded after it was made; a failed write is ignored.
RecordAttempt(h) ==
  /\ Waits(h, {"password"}, "record")
  /\ \/ ~request[h].right /\ failures' = [failures EXCEPT ![request[h].person] = @ \cup {NewRow(@)}]
     \/ UNCHANGED failures
  /\ IF request[h].right THEN Proceed(h, "bind") ELSE EndRequest(h)
  /\ UNCHANGED <<open, signIn, passkey, challenge, exchanged, redeemed, sessionMenu>>

\* bind_public_key, when the client sent one: once, on a live session.
Bind(h) ==
  /\ Waits(h, {"password", "login"}, "bind")
  /\ \/ UNCHANGED signIn
     \/ signIn' = [signIn EXCEPT ![request[h].session].bound = @ \/ signIn[request[h].session].live]
  /\ EndRequest(h)
  /\ UNCHANGED <<open, passkey, challenge, failures, exchanged, redeemed, sessionMenu>>

-----------------------------------------------------------------------------
(* Passkey ceremonies: options mint a challenge, verify redeems it.        *)
\* A further passkey needs a fresh step-up; signing in and stepping up need
\* a passkey to do it with.
MayBegin(h) ==
  LET none == Passkeys(request[h].person) = {} IN
  IF request[h].kind = "registerOptions" THEN none \/ request[h].fresh ELSE ~none

ReadPasskeys(h) ==
  /\ Waits(h, {"registerOptions", "stepupOptions", "loginOptions"}, "passkeys")
  /\ IF MayBegin(h) THEN Proceed(h, "challenge") ELSE EndRequest(h)
  /\ UNCHANGED <<open, signIn, passkey, challenge, failures, exchanged, redeemed, sessionMenu>>

Purpose == [registerOptions |-> "register", stepupOptions |-> "stepup",
            loginOptions |-> "login"]

IssueChallenge(h) ==
  /\ Waits(h, DOMAIN Purpose, "challenge")
  /\ \E c \in One({x \in Challenge : challenge[x] = NoChallenge}) :
          challenge' = [challenge EXCEPT ![c] =
            [state |-> "pending", purpose |-> Purpose[request[h].kind], owner |-> request[h].person,
             session |-> IF request[h].kind = "stepupOptions" THEN request[h].session ELSE NoOne,
             left |-> ChallengeTTL]]
  /\ EndRequest(h)
  /\ UNCHANGED <<open, signIn, passkey, failures, exchanged, redeemed, sessionMenu>>

\* Mutants: a challenge is not taken, and a step-up is any session's.
Takable_Expired(c) == challenge[c].left > 0
BoundTo_Owner(c, h) == challenge[c].purpose = request[h].kind /\ challenge[c].owner = request[h].person

Takable(c) == challenge[c].state = "pending" /\ challenge[c].left > 0

\* challenge_binding_ok, and step_up_verify's own look at the session.
BoundTo(c, h) ==
  /\ challenge[c].purpose = request[h].kind
  /\ challenge[c].owner = request[h].person
  /\ request[h].kind = "stepup" => challenge[c].session = request[h].session

\* consume_challenge_if_pending comes first, whatever the checks then say.
Consume(h) ==
  /\ Waits(h, Ceremony, "consume")
  /\ LET c == request[h].challenge IN
     IF Takable(c)
       THEN /\ challenge' = [challenge EXCEPT ![c].state = "consumed"]
            /\ IF BoundTo(c, h)
                 THEN Proceed(h, IF request[h].kind = "register" THEN "add" ELSE "find") ELSE EndRequest(h)
       ELSE UNCHANGED challenge /\ EndRequest(h)
  /\ UNCHANGED <<open, signIn, passkey, failures, exchanged, redeemed, sessionMenu>>

\* The authenticator's new key becomes a row; nothing looks at step-up again.
AddPasskey(h) ==
  /\ Waits(h, {"register"}, "add")
  /\ IF passkey[request[h].passkey] = NoPasskey
       THEN /\ passkey' = [passkey EXCEPT ![request[h].passkey] =
                 [state |-> "active", owner |-> request[h].person, count |-> 0]]
            /\ redeemed' = [redeemed EXCEPT ![request[h].challenge] = @ + 1]
       ELSE UNCHANGED <<passkey, redeemed>>
  /\ EndRequest(h)
  /\ UNCHANGED <<open, signIn, challenge, failures, exchanged, sessionMenu>>

\* The asserted passkey among the active ones; login then reads the account.
FindPasskey(h) ==
  /\ Waits(h, {"login", "stepup"}, "find")
  /\ IF request[h].passkey \in Passkeys(request[h].person)
       THEN Proceed(h, IF request[h].kind = "login" THEN "account" ELSE "count") ELSE EndRequest(h)
  /\ UNCHANGED <<open, signIn, passkey, challenge, failures, exchanged, redeemed, sessionMenu>>

ReadAccount(h) ==
  /\ Waits(h, {"login"}, "account")
  /\ IF request[h].person \in open THEN Proceed(h, "count") ELSE EndRequest(h)
  /\ UNCHANGED <<open, signIn, passkey, challenge, failures, exchanged, redeemed, sessionMenu>>

\* verify_and_advance_passkey_sign_count: forward, or not counted at all.
Advances(p, n) == passkey[p].state = "active" /\ (n = 0 \/ passkey[p].count < n)

AdvanceCount(h) ==
  /\ Waits(h, {"login", "stepup"}, "count")
  /\ LET p == request[h].passkey  n == request[h].count IN
     IF Advances(p, n)
       THEN /\ passkey' = [passkey EXCEPT ![p].count = n]
            /\ Proceed(h, IF request[h].kind = "login" THEN "issue" ELSE "elevate")
       ELSE UNCHANGED passkey /\ EndRequest(h)
  /\ UNCHANGED <<open, signIn, challenge, failures, exchanged, redeemed, sessionMenu>>

Elevable(s) == signIn[s].live /\ signIn[s].access < MaxSecret

\* rotate_access_secret_and_elevate.
Elevate(h) ==
  /\ Waits(h, {"stepup"}, "elevate")
  /\ LET s == request[h].session IN
     IF Elevable(s)
       THEN /\ signIn' = [signIn EXCEPT ![s].level = "aal2", ![s].step = 0, ![s].access = @ + 1]
            /\ redeemed' = [redeemed EXCEPT ![request[h].challenge] = @ + 1]
       ELSE UNCHANGED <<signIn, redeemed>>
  /\ EndRequest(h)
  /\ UNCHANGED <<open, passkey, challenge, failures, exchanged, sessionMenu>>

-----------------------------------------------------------------------------
(* Refresh.                                                                *)
\* A secret that is not the row's ends the session; that write may fail.
RefreshRead(h) ==
  /\ Waits(h, {"refresh"}, "read")
  /\ LET s == request[h].session IN
     IF ~signIn[s].live THEN EndRequest(h) /\ UNCHANGED signIn
     ELSE IF signIn[s].refresh = request[h].secret THEN Proceed(h, "rotate") /\ UNCHANGED signIn
     ELSE EndRequest(h) /\ (UNCHANGED signIn \/ signIn' = [signIn EXCEPT ![s].live = FALSE])
  /\ UNCHANGED <<open, passkey, challenge, failures, exchanged, redeemed, sessionMenu>>

\* Mutant: the UPDATE does not compare the secret again.
Current_Live(s, secret) == signIn[s].live
Current(s, secret) == signIn[s].live /\ signIn[s].refresh = secret

RefreshRotate(h) ==
  /\ Waits(h, {"refresh"}, "rotate")
  /\ LET s == request[h].session  secret == request[h].secret IN
     IF Current(s, secret)
       THEN /\ signIn[s].refresh < MaxSecret
            /\ signIn' = [signIn EXCEPT ![s].refresh = @ + 1]
            /\ exchanged' = [exchanged EXCEPT ![s][secret] = @ + 1]
       ELSE UNCHANGED <<signIn, exchanged>>
  /\ EndRequest(h)
  /\ UNCHANGED <<open, passkey, challenge, failures, redeemed, sessionMenu>>

-----------------------------------------------------------------------------
(* Signing out, and what happens to the account meanwhile.                 *)
Revoked(ss) == signIn' = [s \in SignIn |->
  IF s \in ss THEN [signIn[s] EXCEPT !.live = FALSE] ELSE signIn[s]]

Logout(h) ==
  /\ Waits(h, {"logout"}, "revoke")
  /\ Revoked({request[h].session})
  /\ EndRequest(h)
  /\ UNCHANGED <<open, passkey, challenge, failures, exchanged, redeemed, sessionMenu>>

LogoutAll(h) ==
  /\ Waits(h, {"logoutAll"}, "revokeAll")
  /\ Revoked({s \in SignIn : signIn[s].owner = request[h].person})
  /\ EndRequest(h)
  /\ UNCHANGED <<open, passkey, challenge, failures, exchanged, redeemed, sessionMenu>>

RemovePasskey(h) ==
  /\ Waits(h, {"remove"}, "owned")
  /\ LET p == request[h].passkey IN
     passkey' = IF p \in Passkeys(request[h].person)
                  THEN [passkey EXCEPT ![p].state = "revoked"] ELSE passkey
  /\ EndRequest(h)
  /\ UNCHANGED <<open, signIn, challenge, failures, exchanged, redeemed, sessionMenu>>

\* An administrator's disable in its two statements, and enable.
CloseAccount(a) ==
  /\ "disable" \in sessionMenu /\ a \in open
  /\ open' = open \ {a}
  /\ UNCHANGED <<signIn, passkey, challenge, failures, request, exchanged, redeemed, sessionMenu>>

SweepAccount(a) ==
  /\ a \in Person \ open
  /\ Revoked({s \in SignIn : signIn[s].owner = a})
  /\ UNCHANGED <<open, passkey, challenge, failures, request, exchanged, redeemed, sessionMenu>>

EnableAccount(a) ==
  /\ "disable" \in sessionMenu /\ a \notin open
  /\ open' = open \cup {a}
  /\ UNCHANGED <<signIn, passkey, challenge, failures, request, exchanged, redeemed, sessionMenu>>

\* The hub stops or the client hangs up.
Abandon(h) ==
  /\ request[h] # NoRequest /\ EndRequest(h)
  /\ UNCHANGED <<open, signIn, passkey, challenge, failures, exchanged, redeemed, sessionMenu>>

\* Time passes; idle_expires_at is set at sign-in and never moved.
Less(n) == IF n = 0 THEN 0 ELSE n - 1
Aged(rows) == {<<x[1] + 1, x[2]>> : x \in {y \in rows : y[1] < ThrottleWindow}}
Tick ==
  /\ failures' = [a \in Person |-> Aged(failures[a])]
  /\ signIn' = [s \in SignIn |-> [signIn[s] EXCEPT !.idle = Less(@),
                  !.step = IF @ > Freshness THEN @ ELSE @ + 1]]
  /\ challenge' = [c \in Challenge |-> [challenge[c] EXCEPT !.left = Less(@)]]
  /\ UNCHANGED <<open, passkey, request, exchanged, redeemed, sessionMenu>>

-----------------------------------------------------------------------------
SessionStep(h) ==
  \/ AskSigned(h) \/ AskOpen(h) \/ Authenticate(h)
  \/ EnforceThrottle(h) \/ TryPassword(h) \/ IssueSession(h) \/ RecordAttempt(h) \/ Bind(h)
  \/ ReadPasskeys(h) \/ IssueChallenge(h) \/ Consume(h) \/ AddPasskey(h)
  \/ FindPasskey(h) \/ ReadAccount(h) \/ AdvanceCount(h) \/ Elevate(h)
  \/ RefreshRead(h) \/ RefreshRotate(h)
  \/ Logout(h) \/ LogoutAll(h) \/ RemovePasskey(h) \/ Abandon(h)

SessionsNext ==
  \/ \E h \in Handler : SessionStep(h)
  \/ \E a \in Person : CloseAccount(a) \/ SweepAccount(a) \/ EnableAccount(a)
  \/ Tick

\* The clock is all that the throttle's end depends on.
SessionsSpec == SessionsInit /\ [][SessionsNext]_sessionVars /\ WF_sessionVars(Tick)

-----------------------------------------------------------------------------
\* Rows have their columns, and a live session or an active passkey an owner.
SessionsTypeOK ==
  /\ open \subseteq Person
  /\ \A s \in SignIn :
       /\ DOMAIN signIn[s] = DOMAIN NoSignIn
       /\ signIn[s].access \in 0..MaxSecret /\ signIn[s].refresh \in 0..MaxSecret
       /\ signIn[s].idle \in 0..IdleTimeout /\ signIn[s].step \in 0..Freshness + 1
       /\ signIn[s].live => signIn[s].owner \in Person /\ signIn[s].access > 0
  /\ \A p \in Passkey : /\ DOMAIN passkey[p] = DOMAIN NoPasskey
                        /\ passkey[p].count \in 0..MaxCount
                        /\ passkey[p].state = "active" => passkey[p].owner \in Person
  /\ \A c \in Challenge : /\ DOMAIN challenge[c] = DOMAIN NoChallenge
                          /\ challenge[c].left \in 0..ChallengeTTL
                          /\ challenge[c].purpose \in Ceremony
  /\ failures \in [Person -> SUBSET ((0..ThrottleWindow) \X Nat)]
  /\ \A h \in Handler : DOMAIN request[h] = DOMAIN NoRequest

\* A refresh secret is exchanged at most once, however many requests present
\* it together.
RefreshOnce == \A s \in SignIn, n \in 1..MaxSecret : exchanged[s][n] <= 1

\* A challenge has its effect at most once: one passkey, one session or one
\* elevation, however often its answer is submitted.
ChallengeOnce == \A c \in Challenge : redeemed[c] <= 1

\* A session that an elevation made strong was elevated by a step-up that was
\* begun in that very session.
ElevatedByItsOwnCeremony ==
  \A s \in SignIn : signIn[s].access > 1 =>
    \E c \in Challenge : /\ challenge[c].purpose = "stepup" /\ challenge[c].session = s
                         /\ challenge[c].state = "consumed"

\* The check and the record of an attempt are apart, so every request in
\* flight may pass the check: the failures in the window stay below the
\* threshold but for one for each request that can be in flight.
ThrottleBounded == \A a \in Person : Failures(a) < Threshold + Cardinality(Handler)

\* Nothing happens to a session once it is revoked: no elevation, no new
\* secret, no key.
RevokedIsFinal ==
  [][\A s \in SignIn : signIn[s].owner # NoOne /\ ~signIn[s].live
       => /\ ~signIn'[s].live
          /\ \A f \in {"access", "refresh", "level", "bound"} :
               signIn'[s][f] = signIn[s][f]]_sessionVars

=============================================================================
