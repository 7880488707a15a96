----------------------------- MODULE Records_proofs -----------------------------
(***************************************************************************)
(* Proofs about what the hub keeps: the bearer gate, the role tokens, the  *)
(* directory of dispatchers and the secrets, for any number of requests,   *)
(* credentials, names, values and keys.  The four share no state; each has *)
(* a section with its inductive invariant.                                 *)
(***************************************************************************)
EXTENDS AuthGate, RoleTokens, HubDirectory, SecretBroker, TLAPS

(***************************************************************************)
(* The bearer gate.                                                        *)
(*                                                                         *)
(* A request carries what was taken away before it came (late).  What it   *)
(* carries is still gone (Charged), and each read that it passes looks at  *)
(* one of those things, so behind the read it carries that one no more     *)
(* (Cleared).                                                              *)
(***************************************************************************)

VisitType ==
  [at : {"off", "session", "account", "token", "roles", "gate", "in"},
   by : {"none", "signed", "bearer"}, token : SUBSET Credential, session : SUBSET Session,
   stepUp : BOOLEAN, fresh : BOOLEAN, late : SUBSET {"session", "account", "role", "token"}]

AccessTypeOK ==
  /\ revoked \subseteq Credential
  /\ session \in [Session -> [revoked : BOOLEAN, expired : BOOLEAN, fresh : BOOLEAN, keyed : BOOLEAN]]
  /\ account \in BOOLEAN /\ member \in BOOLEAN
  /\ visit \in [Visit -> VisitType]

\* What a request is charged with has not been given back, and a token's request
\* is charged with its token only.
Charged ==
  \A v \in Visit :
    /\ "session" \in visit[v].late => \A s \in visit[v].session : session[s].revoked
    /\ "account" \in visit[v].late => ~account
    /\ "role" \in visit[v].late => ~member
    /\ "token" \in visit[v].late => visit[v].token \subseteq revoked
    /\ visit[v].session = {} => visit[v].late \subseteq {"token"}
    /\ visit[v].session # {} => visit[v].token = {} /\ "token" \notin visit[v].late

\* What the reads behind a request have told of.
Cleared ==
  \A v \in Visit :
    /\ visit[v].at \in {"account", "roles"} =>
         visit[v].session # {} /\ "session" \notin visit[v].late
    /\ visit[v].at = "roles" => "account" \notin visit[v].late
    /\ visit[v].at \in {"gate", "in"} => visit[v].late = {}

AccessInv == AccessTypeOK /\ Charged /\ Cleared

-----------------------------------------------------------------------------
LEMMA NoVisitIsVisit == NoVisit \in VisitType
BY DEF NoVisit, NewVisit, VisitType

LEMMA AccessInitInv == AccessInit => AccessInv
<1> SUFFICES ASSUME AccessInit PROVE AccessInv
  OBVIOUS
<1>1. AccessTypeOK
  <2>1. session \in [Session -> [revoked : BOOLEAN, expired : BOOLEAN, fresh : BOOLEAN, keyed : BOOLEAN]]
    BY DEF AccessInit
  <2> QED BY <2>1, NoVisitIsVisit DEF AccessInit, AccessTypeOK
<1>2. Charged /\ Cleared
  BY DEF AccessInit, Charged, Cleared, NoVisit, NewVisit
<1> QED BY <1>1, <1>2 DEF AccessInv

\* A request that moves on without a new charge keeps the invariant if it has
\* been cleared of what its next place wants.
LEMMA VisitMoves ==
  ASSUME AccessInv, NEW v \in Visit, NEW at \in {"account", "token", "roles", "gate", "in"},
         NEW fresh \in BOOLEAN,
         visit' = [visit EXCEPT ![v] = [visit[v] EXCEPT !.at = at, !.fresh = fresh]],
         UNCHANGED rightVars,
         at \in {"account", "roles"} => visit[v].session # {} /\ "session" \notin visit[v].late,
         at = "roles" => "account" \notin visit[v].late,
         at \in {"gate", "in"} => visit[v].late = {}
  PROVE  AccessInv'
<1>1. AccessTypeOK'
  <2>1. visit[v] \in VisitType
    BY DEF AccessInv, AccessTypeOK
  <2>2. [visit[v] EXCEPT !.at = at, !.fresh = fresh] \in VisitType
    BY <2>1 DEF VisitType
  <2> QED BY <2>2 DEF AccessInv, AccessTypeOK, rightVars
<1>2. \A w \in Visit \ {v} : visit'[w] = visit[w]
  BY DEF AccessInv, AccessTypeOK
<1>3. visit'[v] = [visit[v] EXCEPT !.at = at, !.fresh = fresh]
  BY DEF AccessInv, AccessTypeOK
<1>4. /\ visit'[v].at = at /\ visit'[v].late = visit[v].late
      /\ visit'[v].session = visit[v].session /\ visit'[v].token = visit[v].token
  BY <1>3 DEF AccessInv, AccessTypeOK, VisitType
<1>5. Charged'
  BY <1>2, <1>4 DEF AccessInv, Charged, rightVars
<1>6. Cleared'
  BY <1>2, <1>4 DEF AccessInv, Cleared
<1> QED BY <1>1, <1>5, <1>6 DEF AccessInv

LEMMA VisitLeaves ==
  ASSUME AccessInv, NEW v \in Visit, Leave(v), UNCHANGED rightVars
  PROVE  AccessInv'
BY DEF AccessInv, AccessTypeOK, VisitType, Charged, Cleared, Leave, NoVisit, NewVisit, rightVars

LEMMA VisitSteps ==
  ASSUME AccessInv, NEW v \in Visit, NEW at \in {"account", "token", "roles", "gate", "in"}, Step(v, at)
  PROVE  /\ visit[v].fresh \in BOOLEAN
         /\ visit' = [visit EXCEPT ![v] = [visit[v] EXCEPT !.at = at, !.fresh = visit[v].fresh]]
BY DEF AccessInv, AccessTypeOK, VisitType, Step

LEMMA VisitArrives ==
  ASSUME AccessInv, NEW v \in Visit, ArriveHuman(v) \/ ArriveToken(v)
  PROVE  AccessInv'
<1>1. CASE ArriveHuman(v)
  <2>1. PICK s \in Session, by \in {"signed", "bearer"}, up \in BOOLEAN :
          Arrival(v, NewVisit("session", by, {}, {s}, up, Gone(s)))
    BY <1>1 DEF ArriveHuman
  <2>2. /\ Gone(s) \subseteq {"session", "account", "role"}
        /\ "session" \in Gone(s) => session[s].revoked
        /\ "account" \in Gone(s) => ~account
        /\ "role" \in Gone(s) => ~member
    BY DEF Gone
  <2> DEFINE new == [at |-> "session", by |-> by, token |-> {}, session |-> {s}, stepUp |-> up,
                     fresh |-> FALSE, late |-> Gone(s)]
  <2>3. visit' = [visit EXCEPT ![v] = new] /\ UNCHANGED rightVars
    BY <2>1 DEF Arrival, NewVisit
  <2>4. new \in VisitType
    BY <2>2 DEF VisitType
  <2>5. visit'[v] = new /\ \A w \in Visit \ {v} : visit'[w] = visit[w]
    BY <2>3 DEF AccessInv, AccessTypeOK
  <2>6. AccessTypeOK'
    BY <2>3, <2>4 DEF AccessInv, AccessTypeOK, rightVars
  <2>7. Charged'
    BY <2>2, <2>3, <2>5 DEF AccessInv, Charged, rightVars
  <2>8. Cleared'
    BY <2>5 DEF AccessInv, Cleared
  <2> QED BY <2>6, <2>7, <2>8 DEF AccessInv
<1>2. CASE ArriveToken(v)
  <2>1. PICK t \in Credential :
          Arrival(v, NewVisit("session", "bearer", {t}, {}, FALSE, IF t \in revoked THEN {"token"} ELSE {}))
    BY <1>2 DEF ArriveToken
  <2> DEFINE late == IF t \in revoked THEN {"token"} ELSE {}
             new == [at |-> "session", by |-> "bearer", token |-> {t}, session |-> {},
                     stepUp |-> FALSE, fresh |-> FALSE, late |-> late]
  <2>2. late \subseteq {"token"} /\ ("token" \in late => t \in revoked)
    OBVIOUS
  <2> HIDE DEF late
  <2>3. visit' = [visit EXCEPT ![v] = new] /\ UNCHANGED rightVars
    BY <2>1 DEF Arrival, NewVisit, late
  <2>4. new \in VisitType
    BY <2>2 DEF VisitType
  <2>5. visit'[v] = new /\ \A w \in Visit \ {v} : visit'[w] = visit[w]
    BY <2>3 DEF AccessInv, AccessTypeOK
  <2>6. AccessTypeOK'
    BY <2>3, <2>4 DEF AccessInv, AccessTypeOK, rightVars
  <2>7. Charged'
    <3>1. new.late \subseteq {"token"} /\ ("token" \in new.late => t \in revoked)
          /\ new.token = {t} /\ new.session = {}
      BY <2>2
    <3> HIDE DEF new
    <3> QED BY <3>1, <2>3, <2>5 DEF AccessInv, Charged, rightVars
  <2>8. Cleared'
    BY <2>5 DEF AccessInv, Cleared
  <2> QED BY <2>6, <2>7, <2>8 DEF AccessInv
<1> QED BY <1>1, <1>2

LEMMA VisitReads ==
  ASSUME AccessInv, NEW v \in Visit,
         FindSession(v) \/ FindToken(v) \/ FindAccount(v) \/ FindRoles(v) \/ Admit(v) \/ Finish(v)
  PROVE  AccessInv'
<1>0. UNCHANGED rightVars
  BY DEF FindSession, FindToken, FindAccount, FindRoles, Admit, Finish, Reading
<1>1. CASE Leave(v)
  BY <1>0, <1>1, VisitLeaves
<1>2. CASE FindSession(v) /\ ~Leave(v)
  <2>1. CASE \E s \in visit[v].session :
               /\ ~session[s].revoked
               /\ visit' = [visit EXCEPT ![v].at = "account", ![v].fresh = session[s].fresh]
    <3>1. PICK s \in visit[v].session :
               /\ ~session[s].revoked
               /\ visit' = [visit EXCEPT ![v].at = "account", ![v].fresh = session[s].fresh]
      BY <2>1
    <3>2. session[s].fresh \in BOOLEAN
      BY <3>1 DEF AccessInv, AccessTypeOK, VisitType
    <3>3. visit' = [visit EXCEPT ![v] = [visit[v] EXCEPT !.at = "account", !.fresh = session[s].fresh]]
      BY <3>1 DEF AccessInv, AccessTypeOK, VisitType
    <3>4. visit[v].session # {} /\ "session" \notin visit[v].late
      BY <3>1 DEF AccessInv, Charged
    <3> QED BY <1>0, <3>2, <3>3, <3>4, VisitMoves
  <2>2. CASE Step(v, "token")
    BY <1>0, <2>2, VisitSteps, VisitMoves
  <2> QED BY <1>2, <2>1, <2>2 DEF FindSession, SignedUsable
<1>3. CASE FindToken(v) /\ ~Leave(v)
  <2>1. Step(v, "gate") /\ ~(visit[v].token \subseteq revoked)
    BY <1>3 DEF FindToken, LiveToken
  <2>2. visit[v].late = {}
    <3>1. visit[v].session = {} /\ "token" \notin visit[v].late
      BY <2>1 DEF AccessInv, Charged
    <3> QED BY <3>1 DEF AccessInv, Charged
  <2> QED BY <1>0, <2>1, <2>2, VisitSteps, VisitMoves
<1>4. CASE FindAccount(v) /\ ~Leave(v)
  <2>1. Step(v, "roles") /\ account /\ visit[v].at = "account"
    BY <1>4 DEF FindAccount, Reading
  <2>2. visit[v].session # {} /\ "session" \notin visit[v].late /\ "account" \notin visit[v].late
    BY <2>1 DEF AccessInv, Charged, Cleared
  <2> QED BY <1>0, <2>1, <2>2, VisitSteps, VisitMoves
<1>5. CASE FindRoles(v) /\ ~Leave(v)
  <2>1. Step(v, "gate") /\ member /\ visit[v].at = "roles"
    BY <1>5 DEF FindRoles, Reading
  <2>2. visit[v].session # {} /\ "session" \notin visit[v].late /\ "account" \notin visit[v].late
         /\ "role" \notin visit[v].late /\ "token" \notin visit[v].late
    BY <2>1 DEF AccessInv, Charged, Cleared
  <2>3. visit[v].late \subseteq {"session", "account", "role", "token"}
    BY DEF AccessInv, AccessTypeOK, VisitType
  <2>4. visit[v].late = {}
    BY <2>2, <2>3
  <2> QED BY <1>0, <2>1, <2>4, VisitSteps, VisitMoves
<1>6. CASE Admit(v) /\ ~Leave(v)
  <2>1. Step(v, "in") /\ visit[v].late = {}
    BY <1>6 DEF Admit, Reading, AccessInv, Cleared
  <2> QED BY <1>0, <2>1, VisitSteps, VisitMoves
<1> QED BY <1>1, <1>2, <1>3, <1>4, <1>5, <1>6 DEF Finish

\* Taking a right away makes no charge untrue.
LEMMA TakingAway ==
  ASSUME AccessInv,
         \/ \E s \in Session : RevokeSession(s) \/ ExpireSession(s) \/ StepUpDone(s)
         \/ SetAccount(FALSE) \/ SetMembership(FALSE)
         \/ \E t \in Credential : RevokeCredential(t)
  PROVE  AccessInv'
<1>1. UNCHANGED visit
  BY DEF RevokeSession, ExpireSession, StepUpDone, SetAccount, SetMembership, RevokeCredential
<1>2. AccessTypeOK'
  <2>1. CASE \E s \in Session : RevokeSession(s) \/ ExpireSession(s) \/ StepUpDone(s)
    <3>1. session' \in [Session -> [revoked : BOOLEAN, expired : BOOLEAN, fresh : BOOLEAN, keyed : BOOLEAN]]
      <4>1. PICK s \in Session : RevokeSession(s) \/ ExpireSession(s) \/ StepUpDone(s)
        BY <2>1
      <4>2. session \in [Session -> [revoked : BOOLEAN, expired : BOOLEAN, fresh : BOOLEAN, keyed : BOOLEAN]]
        BY DEF AccessInv, AccessTypeOK
      <4>3. CASE RevokeSession(s)
        BY <4>2, <4>3 DEF RevokeSession
      <4>4. CASE ExpireSession(s)
        BY <4>2, <4>4 DEF ExpireSession
      <4>5. CASE StepUpDone(s)
        BY <4>2, <4>5 DEF StepUpDone
      <4> QED BY <4>1, <4>3, <4>4, <4>5
    <3>2. UNCHANGED <<revoked, account, member, visit>>
      BY <2>1 DEF RevokeSession, ExpireSession, StepUpDone
    <3> QED BY <3>1, <3>2 DEF AccessInv, AccessTypeOK
  <2>2. CASE SetAccount(FALSE) \/ SetMembership(FALSE) \/ \E t \in Credential : RevokeCredential(t)
    <3>1. /\ revoked' \subseteq Credential /\ account' \in BOOLEAN /\ member' \in BOOLEAN
          /\ UNCHANGED <<session, visit>>
      BY <2>2 DEF AccessInv, AccessTypeOK, SetAccount, SetMembership, RevokeCredential
    <3> QED BY <3>1 DEF AccessInv, AccessTypeOK
  <2> QED BY <2>1, <2>2
<1>3. /\ \A s \in Session : session[s].revoked => session'[s].revoked
      /\ ~account => ~account'
      /\ ~member => ~member'
      /\ revoked \subseteq revoked'
  <2>1. CASE \E s \in Session : RevokeSession(s) \/ ExpireSession(s) \/ StepUpDone(s)
    BY <2>1 DEF AccessInv, AccessTypeOK, RevokeSession, ExpireSession, StepUpDone
  <2>2. CASE SetAccount(FALSE) \/ SetMembership(FALSE) \/ \E t \in Credential : RevokeCredential(t)
    <3>1. CASE SetAccount(FALSE)
      BY <3>1 DEF SetAccount
    <3>2. CASE SetMembership(FALSE)
      BY <3>2 DEF SetMembership
    <3>3. CASE \E t \in Credential : RevokeCredential(t)
      BY <3>3 DEF RevokeCredential
    <3> QED BY <2>2, <3>1, <3>2, <3>3
  <2> QED BY <2>1, <2>2
<1>4. Charged'
  BY <1>1, <1>3 DEF AccessInv, AccessTypeOK, VisitType, Charged
<1>5. Cleared'
  BY <1>1 DEF AccessInv, Cleared
<1> QED BY <1>2, <1>4, <1>5 DEF AccessInv

LEMMA Lessened ==
  ASSUME AccessTypeOK, NEW thing
  PROVE  [v \in Visit |-> [visit[v] EXCEPT !.late = @ \ {thing}]] \in [Visit -> VisitType]
<1>1. \A v \in Visit : [visit[v] EXCEPT !.late = @ \ {thing}] \in VisitType
  BY DEF AccessTypeOK, VisitType
<1> QED BY <1>1

\* A right given back is forgiven everyone, and an elevation that ends changes no charge.
LEMMA GivingBack ==
  ASSUME AccessInv,
         SetAccount(TRUE) \/ SetMembership(TRUE) \/ \E s \in Session : StepUpOver(s)
  PROVE  AccessInv'
<1> DEFINE less(thing) ==
      visit' = [v \in Visit |-> [visit[v] EXCEPT !.late = @ \ {thing}]]
<1>1. CASE SetAccount(TRUE)
  <2>1. less("account") /\ UNCHANGED <<revoked, session, member>> /\ account' = TRUE
    BY <1>1 DEF SetAccount, Forgive
  <2>2. AccessTypeOK'
    BY <2>1, Lessened DEF AccessInv, AccessTypeOK
  <2>3. \A v \in Visit : /\ visit'[v].late = visit[v].late \ {"account"}
                         /\ visit'[v].session = visit[v].session /\ visit'[v].token = visit[v].token
                         /\ visit'[v].at = visit[v].at
    BY <2>1 DEF AccessInv, AccessTypeOK, VisitType
  <2> QED BY <2>1, <2>2, <2>3 DEF AccessInv, Charged, Cleared
<1>2. CASE SetMembership(TRUE)
  <2>1. less("role") /\ UNCHANGED <<revoked, session, account>> /\ member' = TRUE
    BY <1>2 DEF SetMembership, Forgive
  <2>2. AccessTypeOK'
    BY <2>1, Lessened DEF AccessInv, AccessTypeOK
  <2>3. \A v \in Visit : /\ visit'[v].late = visit[v].late \ {"role"}
                         /\ visit'[v].session = visit[v].session /\ visit'[v].token = visit[v].token
                         /\ visit'[v].at = visit[v].at
    BY <2>1 DEF AccessInv, AccessTypeOK, VisitType
  <2> QED BY <2>1, <2>2, <2>3 DEF AccessInv, Charged, Cleared
<1>3. ASSUME NEW s \in Session, StepUpOver(s) PROVE AccessInv'
  <2>1. AccessTypeOK'
    <3>1. \A v \in Visit : [visit[v] EXCEPT !.fresh = FALSE] \in VisitType
      <4>1. \A v \in Visit : visit[v] \in VisitType
        BY DEF AccessInv, AccessTypeOK
      <4>2. \A r \in VisitType : [r EXCEPT !.fresh = FALSE] \in VisitType
        BY DEF VisitType
      <4> QED BY <4>1, <4>2
    <3>2. visit' \in [Visit -> VisitType]
      <4>1. visit' = [v \in Visit |-> IF s \in visit[v].session
                                    THEN [visit[v] EXCEPT !.fresh = FALSE] ELSE visit[v]]
        BY <1>3 DEF StepUpOver
      <4>2. \A v \in Visit : visit[v] \in VisitType
        BY DEF AccessInv, AccessTypeOK
      <4> QED BY <3>1, <4>1, <4>2
    <3>3. session' \in [Session -> [revoked : BOOLEAN, expired : BOOLEAN, fresh : BOOLEAN, keyed : BOOLEAN]]
      BY <1>3 DEF AccessInv, AccessTypeOK, StepUpOver
    <3>4. UNCHANGED <<revoked, account, member>>
      BY <1>3 DEF StepUpOver
    <3> QED BY <3>2, <3>3, <3>4 DEF AccessInv, AccessTypeOK
  <2>2. \A v \in Visit : /\ visit'[v].late = visit[v].late
                         /\ visit'[v].session = visit[v].session /\ visit'[v].token = visit[v].token
                         /\ visit'[v].at = visit[v].at
    BY <1>3 DEF AccessInv, AccessTypeOK, VisitType, StepUpOver
  <2>3. \A x \in Session : session'[x].revoked = session[x].revoked
    BY <1>3 DEF AccessInv, AccessTypeOK, StepUpOver
  <2>4. UNCHANGED <<revoked, account, member>>
    BY <1>3 DEF StepUpOver
  <2>5. \A v \in Visit : visit[v].session \subseteq Session
    BY DEF AccessInv, AccessTypeOK, VisitType
  <2> QED BY <2>1, <2>2, <2>3, <2>4, <2>5 DEF AccessInv, Charged, Cleared
<1> QED BY <1>1, <1>2, <1>3

\* A request that arrived after its token or session was revoked, its account disabled
\* or its role unassigned reaches no handler (require_bearer reads them all, one by
\* one, while administrators go on): for any number of requests and rights.
THEOREM TakenAwayStaysOutHolds == AccessSpec => []TakenAwayStaysOut
<1>1. AccessInit => AccessInv
  BY AccessInitInv
<1>2. AccessInv /\ [AccessNext]_accessVars => AccessInv'
  <2> SUFFICES ASSUME AccessInv, [AccessNext]_accessVars PROVE AccessInv'
    OBVIOUS
  <2>1. ASSUME NEW v \in Visit, ArriveHuman(v) \/ ArriveToken(v) PROVE AccessInv'
    BY <2>1, VisitArrives
  <2>2. ASSUME NEW v \in Visit,
               FindSession(v) \/ FindToken(v) \/ FindAccount(v) \/ FindRoles(v) \/ Admit(v) \/ Finish(v)
        PROVE AccessInv'
    BY <2>2, VisitReads
  <2>3. ASSUME NEW s \in Session, RevokeSession(s) \/ ExpireSession(s) \/ StepUpDone(s) PROVE AccessInv'
    BY <2>3, TakingAway
  <2>4. ASSUME NEW s \in Session, StepUpOver(s) PROVE AccessInv'
    BY <2>4, GivingBack
  <2>5. ASSUME NEW b \in BOOLEAN, SetAccount(b) \/ SetMembership(b) PROVE AccessInv'
    BY <2>5, TakingAway, GivingBack
  <2>6. ASSUME NEW t \in Credential, RevokeCredential(t) PROVE AccessInv'
    BY <2>6, TakingAway
  <2>7. CASE UNCHANGED accessVars
    BY <2>7 DEF accessVars, AccessInv, AccessTypeOK, Charged, Cleared
  <2> QED BY <2>1, <2>2, <2>3, <2>4, <2>5, <2>6, <2>7 DEF AccessNext
<1>3. AccessInv => TakenAwayStaysOut
  BY DEF AccessInv, Cleared, TakenAwayStaysOut
<1> QED BY <1>1, <1>2, <1>3, PTL DEF AccessSpec

(***************************************************************************)
(* The role tokens.                                                        *)
(*                                                                         *)
(* What a request made is no spare token any more, and while it undoes     *)
(* them, each one is still on its list, revoked already, or given up       *)
(* (Undoing).                                                              *)
(***************************************************************************)

DeskType ==
  [at : {"off", "create", "audit", "show", "undo"}, kind : {"issue", "split", "migrate"},
   made : Seq(Token), undo : Seq(Token)]

TokensTypeOK ==
  /\ tokens \in [Token -> {"none", "live", "revoked"}]
  /\ brought \subseteq Token /\ recorded \subseteq Token /\ lapsed \subseteq Token
  /\ desk \in [Desk -> DeskType]

InSeq(s) == {s[i] : i \in DOMAIN s}

Undoing ==
  \A d \in Desk :
    /\ \A t \in MadeBy(d) : tokens[t] # "none"
    /\ At(d, "off") => MadeBy(d) = {}
    /\ At(d, "undo") =>
         /\ InSeq(desk[d].undo) \subseteq MadeBy(d)
         /\ \A t \in MadeBy(d) : t \in InSeq(desk[d].undo) \/ tokens[t] = "revoked" \/ t \in lapsed

TokensInv == TokensTypeOK /\ Undoing /\ AuditedOrUndone

-----------------------------------------------------------------------------
LEMMA InSeqFacts ==
  /\ InSeq(<<>>) = {}
  /\ \A s \in Seq(Token), t \in Token : Append(s, t) \in Seq(Token) /\ InSeq(Append(s, t)) = InSeq(s) \cup {t}
  /\ \A s \in Seq(Token) : s # <<>> =>
       Tail(s) \in Seq(Token) /\ Head(s) \in Token /\ InSeq(s) = InSeq(Tail(s)) \cup {Head(s)}
<1>1. InSeq(<<>>) = {}
  BY DEF InSeq
<1>2. ASSUME NEW s \in Seq(Token), NEW t \in Token
      PROVE Append(s, t) \in Seq(Token) /\ InSeq(Append(s, t)) = InSeq(s) \cup {t}
  <2>1. Append(s, t) \in Seq(Token) /\ Len(Append(s, t)) = Len(s) + 1 /\ Len(s) \in Nat
    OBVIOUS
  <2>2. \A i \in 1..Len(s) : Append(s, t)[i] = s[i]
    OBVIOUS
  <2>3. Append(s, t)[Len(s) + 1] = t
    OBVIOUS
  <2>4. DOMAIN s = 1..Len(s) /\ DOMAIN Append(s, t) = 1..(Len(s) + 1)
    BY <2>1
  <2>5. \A i \in 1..(Len(s) + 1) : i \in 1..Len(s) \/ i = Len(s) + 1
    BY <2>1
  <2>6. \A i \in 1..Len(s) : i \in 1..(Len(s) + 1)
    BY <2>1
  <2> QED BY <2>1, <2>2, <2>3, <2>4, <2>5, <2>6 DEF InSeq
<1>3. ASSUME NEW s \in Seq(Token), s # <<>>
      PROVE Tail(s) \in Seq(Token) /\ Head(s) \in Token /\ InSeq(s) = InSeq(Tail(s)) \cup {Head(s)}
  <2>1. Tail(s) \in Seq(Token) /\ Len(Tail(s)) = Len(s) - 1 /\ Len(s) \in Nat \ {0} /\ Head(s) = s[1]
    BY <1>3
  <2>2. \A i \in 1..Len(Tail(s)) : Tail(s)[i] = s[i + 1]
    BY <1>3
  <2>3. DOMAIN s = 1..Len(s) /\ DOMAIN Tail(s) = 1..(Len(s) - 1)
    BY <2>1
  <2>4. \A i \in 1..Len(s) : i = 1 \/ (i - 1 \in 1..(Len(s) - 1) /\ (i - 1) + 1 = i)
    BY <2>1
  <2>5. \A i \in 1..(Len(s) - 1) : i + 1 \in 1..Len(s)
    BY <2>1
  <2>6. InSeq(s) \subseteq InSeq(Tail(s)) \cup {Head(s)}
    <3> SUFFICES ASSUME NEW i \in 1..Len(s) PROVE s[i] \in InSeq(Tail(s)) \cup {Head(s)}
      BY <2>3 DEF InSeq
    <3>1. CASE i = 1
      BY <3>1, <2>1
    <3>2. CASE i # 1
      <4>1. i - 1 \in 1..(Len(s) - 1) /\ (i - 1) + 1 = i
        BY <3>2, <2>4
      <4>2. Tail(s)[i - 1] = s[i]
        BY <4>1, <2>1, <2>2
      <4> QED BY <4>1, <4>2, <2>3 DEF InSeq
    <3> QED BY <3>1, <3>2
  <2>7. InSeq(Tail(s)) \cup {Head(s)} \subseteq InSeq(s)
    BY <2>1, <2>2, <2>3, <2>5 DEF InSeq
  <2>8. Head(s) \in Token
    BY <2>1
  <2> QED BY <2>1, <2>6, <2>7, <2>8
<1> QED BY <1>1, <1>2, <1>3

LEMMA MadeIs ==
  ASSUME TokensTypeOK, NEW d \in Desk
  PROVE  MadeBy(d) = InSeq(desk[d].made) /\ MadeBy(d) \subseteq Token /\ desk[d] \in DeskType
BY DEF MadeBy, InSeq, TokensTypeOK, DeskType

LEMMA NoDeskIsDesk == NoDesk \in DeskType
BY DEF NoDesk, NewDesk, DeskType

LEMMA TokensInitInv == TokensInit => TokensInv
<1> SUFFICES ASSUME TokensInit PROVE TokensInv
  OBVIOUS
<1>1. TokensTypeOK
  BY NoDeskIsDesk DEF TokensInit, TokensTypeOK
<1>2. \A d \in Desk : MadeBy(d) = {} /\ ~At(d, "undo") /\ ~At(d, "show")
  BY DEF TokensInit, MadeBy, NoDesk, NewDesk, At
<1> QED BY <1>1, <1>2 DEF TokensInit, TokensInv, Undoing, AuditedOrUndone

\* A request that is closed, with nothing left to account for.
LEMMA DeskCloses ==
  ASSUME TokensInv, NEW d \in Desk, Close(d), UNCHANGED <<tokens, brought, recorded, lapsed>>,
         \A t \in MadeBy(d) : tokens[t] = "live" => t \in recorded \/ t \in lapsed
  PROVE  TokensInv'
<1>1. TokensTypeOK'
  BY NoDeskIsDesk DEF TokensInv, TokensTypeOK, Close
<1>2. /\ \A x \in Desk \ {d} : desk'[x] = desk[x]
      /\ desk'[d] = NoDesk
  BY DEF TokensInv, TokensTypeOK, Close
<1>3. MadeBy(d)' = {} /\ ~At(d, "undo")' /\ ~At(d, "show")'
  BY <1>2 DEF MadeBy, NoDesk, NewDesk, At
<1>4. \A x \in Desk \ {d} : MadeBy(x)' = MadeBy(x) /\ \A at : At(x, at)' <=> At(x, at)
  BY <1>2 DEF MadeBy, At
<1>5. Undoing'
  BY <1>2, <1>3, <1>4 DEF TokensInv, Undoing
<1>6. AuditedOrUndone'
  BY <1>3, <1>4 DEF TokensInv, AuditedOrUndone
<1> QED BY <1>1, <1>5, <1>6 DEF TokensInv

LEMMA Creating ==
  ASSUME TokensInv, NEW d \in Desk, Create(d)
  PROVE  TokensInv'
<1>0. UNCHANGED <<brought, recorded>> /\ At(d, "create")
  BY DEF Create
<1>1. PICK t \in MayCreate(d) :
       \/ /\ tokens' = [tokens EXCEPT ![t] = "live"] /\ UNCHANGED lapsed
          /\ desk' = [desk EXCEPT ![d].made = Append(@, t), ![d].at =
                IF Len(desk[d].made) + 1 < Wanted(desk[d].kind) THEN "create" ELSE "audit"]
       \/ /\ tokens' \in {tokens, [tokens EXCEPT ![t] = "live"]} /\ lapsed' = lapsed \cup {t}
          /\ desk' = [desk EXCEPT ![d].at = "undo", ![d].undo = desk[d].made]
  BY DEF Create
<1>2. t \in Token /\ tokens[t] = "none"
  <2>1. Spare # {} => (CHOOSE x \in Spare : TRUE) \in Spare
    OBVIOUS
  <2> QED BY <1>1, <2>1 DEF MayCreate, NextToken, Spare, TokensInv, TokensTypeOK
<1>3. desk[d] \in DeskType /\ \A x \in Desk : MadeBy(x) = InSeq(desk[x].made) /\ MadeBy(x) \subseteq Token
  BY MadeIs DEF TokensInv
<1>4. \A x \in Desk : t \notin MadeBy(x)
  BY <1>2 DEF TokensInv, Undoing
<1>5. \A x \in Desk \ {d} : desk'[x] = desk[x]
  BY <1>1 DEF TokensInv, TokensTypeOK
<1>6. \A x \in Desk \ {d} : MadeBy(x)' = MadeBy(x) /\ \A at : At(x, at)' <=> At(x, at)
  BY <1>5 DEF MadeBy, At
<1>7. tokens' \in {tokens, [tokens EXCEPT ![t] = "live"]} /\ lapsed \subseteq lapsed'
  BY <1>1
<1>8. \A x \in Token : x # t => tokens'[x] = tokens[x]
  BY <1>7 DEF TokensInv, TokensTypeOK
<1>9. \A x \in Desk : At(x, "show") => x # d
  BY <1>0 DEF At
<1>10. CASE /\ tokens' = [tokens EXCEPT ![t] = "live"] /\ UNCHANGED lapsed
            /\ desk' = [desk EXCEPT ![d].made = Append(@, t), ![d].at =
                IF Len(desk[d].made) + 1 < Wanted(desk[d].kind) THEN "create" ELSE "audit"]
  <2> DEFINE next == IF Len(desk[d].made) + 1 < Wanted(desk[d].kind) THEN "create" ELSE "audit"
  <2>1. next \in {"create", "audit"}
    OBVIOUS
  <2>2. desk'[d] = [desk[d] EXCEPT !.made = Append(@, t), !.at = next]
    BY <1>10 DEF TokensInv, TokensTypeOK
  <2> HIDE DEF next
  <2>3. desk'[d] \in DeskType /\ desk'[d].made = Append(desk[d].made, t) /\ desk'[d].at = next
    <3>1. Append(desk[d].made, t) \in Seq(Token)
      BY <1>2, <1>3 DEF DeskType
    <3> QED BY <1>3, <2>1, <2>2, <3>1 DEF DeskType
  <2>4. MadeBy(d)' = MadeBy(d) \cup {t}
    <3>1. MadeBy(d)' = InSeq(desk'[d].made)
      BY DEF MadeBy, InSeq
    <3>2. desk[d].made \in Seq(Token)
      BY <1>3 DEF DeskType
    <3> QED BY <3>1, <3>2, <2>3, <1>2, <1>3, InSeqFacts
  <2>5. TokensTypeOK'
    <3>1. desk' \in [Desk -> DeskType]
      BY <1>10, <2>3, <1>5 DEF TokensInv, TokensTypeOK
    <3> QED BY <3>1, <1>0, <1>2, <1>10 DEF TokensInv, TokensTypeOK
  <2>6. ~At(d, "off")' /\ ~At(d, "undo")' /\ ~At(d, "show")'
    BY <2>1, <2>3 DEF At
  <2>7. tokens'[t] = "live"
    BY <1>2, <1>10 DEF TokensInv, TokensTypeOK
  <2>8. Undoing'
    <3> SUFFICES ASSUME NEW x \in Desk
                 PROVE  /\ \A y \in MadeBy(x)' : tokens'[y] # "none"
                        /\ At(x, "off")' => MadeBy(x)' = {}
                        /\ At(x, "undo")' =>
                             /\ InSeq(desk'[x].undo) \subseteq MadeBy(x)'
                             /\ \A y \in MadeBy(x)' : \/ y \in InSeq(desk'[x].undo)
                                                      \/ tokens'[y] = "revoked" \/ y \in lapsed'
      BY DEF Undoing, InSeq
    <3>0. /\ \A y \in MadeBy(x) : tokens[y] # "none"
          /\ At(x, "off") => MadeBy(x) = {}
          /\ At(x, "undo") =>
               /\ InSeq(desk[x].undo) \subseteq MadeBy(x)
               /\ \A y \in MadeBy(x) : \/ y \in InSeq(desk[x].undo)
                                       \/ tokens[y] = "revoked" \/ y \in lapsed
      BY DEF TokensInv, Undoing
    <3>1. CASE x = d
      <4>1. \A y \in MadeBy(d) : tokens'[y] # "none"
        BY <1>3, <1>4, <1>8, <3>0, <3>1
      <4>2. \A y \in MadeBy(d)' : tokens'[y] # "none"
        BY <2>4, <2>7, <4>1
      <4> QED BY <2>6, <3>1, <4>2
    <3>2. CASE x # d
      <4>1. desk'[x] = desk[x] /\ MadeBy(x)' = MadeBy(x) /\ \A at : At(x, at)' <=> At(x, at)
        BY <1>5, <1>6, <3>2
      <4>2. \A y \in MadeBy(x) : tokens'[y] = tokens[y]
        BY <1>3, <1>4, <1>8
      <4>3. lapsed' = lapsed
        BY <1>10
      <4> QED BY <3>0, <4>1, <4>2, <4>3
    <3> QED BY <3>1, <3>2
  <2>9. AuditedOrUndone'
    BY <1>0, <1>3, <1>6, <1>8, <1>10, <2>4, <2>6 DEF TokensInv, AuditedOrUndone
  <2> QED BY <2>5, <2>8, <2>9 DEF TokensInv
<1>11. CASE /\ tokens' \in {tokens, [tokens EXCEPT ![t] = "live"]} /\ lapsed' = lapsed \cup {t}
            /\ desk' = [desk EXCEPT ![d].at = "undo", ![d].undo = desk[d].made]
  <2>2. desk'[d] = [desk[d] EXCEPT !.at = "undo", !.undo = desk[d].made]
    BY <1>11 DEF TokensInv, TokensTypeOK
  <2>3. /\ desk'[d] \in DeskType /\ desk'[d].made = desk[d].made /\ desk'[d].at = "undo"
        /\ desk'[d].undo = desk[d].made
    BY <1>3, <2>2 DEF DeskType
  <2>4. MadeBy(d)' = MadeBy(d) /\ InSeq(desk'[d].undo) = MadeBy(d)
    BY <1>3, <2>3 DEF MadeBy, InSeq
  <2>5. TokensTypeOK'
    <3>1. desk' \in [Desk -> DeskType]
      BY <1>11, <2>3, <1>5 DEF TokensInv, TokensTypeOK
    <3>2. tokens' \in [Token -> {"none", "live", "revoked"}]
      BY <1>11, <1>2 DEF TokensInv, TokensTypeOK
    <3> QED BY <3>1, <3>2, <1>0, <1>2, <1>11 DEF TokensInv, TokensTypeOK
  <2>6. ~At(d, "off")' /\ ~At(d, "show")'
    BY <2>3 DEF At
  <2>7. \A x \in Desk : MadeBy(x)' = MadeBy(x)
    BY <1>6, <2>4
  <2>8. Undoing'
    <3> SUFFICES ASSUME NEW x \in Desk
                 PROVE  /\ \A y \in MadeBy(x)' : tokens'[y] # "none"
                        /\ At(x, "off")' => MadeBy(x)' = {}
                        /\ At(x, "undo")' =>
                             /\ InSeq(desk'[x].undo) \subseteq MadeBy(x)'
                             /\ \A y \in MadeBy(x)' : \/ y \in InSeq(desk'[x].undo)
                                                      \/ tokens'[y] = "revoked" \/ y \in lapsed'
      BY DEF Undoing, InSeq
    <3>0. /\ \A y \in MadeBy(x) : tokens[y] # "none"
          /\ At(x, "off") => MadeBy(x) = {}
          /\ At(x, "undo") =>
               /\ InSeq(desk[x].undo) \subseteq MadeBy(x)
               /\ \A y \in MadeBy(x) : \/ y \in InSeq(desk[x].undo)
                                       \/ tokens[y] = "revoked" \/ y \in lapsed
      BY DEF TokensInv, Undoing
    <3>1. \A y \in MadeBy(x) : tokens'[y] = tokens[y]
      BY <1>3, <1>4, <1>8
    <3>2. CASE x = d
      BY <2>4, <2>6, <3>0, <3>1, <3>2
    <3>3. CASE x # d
      <4>1. desk'[x] = desk[x] /\ MadeBy(x)' = MadeBy(x) /\ \A at : At(x, at)' <=> At(x, at)
        BY <1>5, <1>6, <3>3
      <4> QED BY <1>7, <3>0, <3>1, <4>1
    <3> QED BY <3>2, <3>3
  <2>9. AuditedOrUndone'
    BY <1>0, <1>6, <1>8, <1>11, <2>6, <2>7 DEF TokensInv, AuditedOrUndone
  <2> QED BY <2>5, <2>8, <2>9 DEF TokensInv
<1> QED BY <1>1, <1>10, <1>11

LEMMA Asking ==
  ASSUME TokensInv, NEW d \in Desk, NEW kind \in {"issue", "split", "migrate"}, Ask(d, kind)
  PROVE  TokensInv'
<1>0. At(d, "off") /\ UNCHANGED <<tokens, recorded, lapsed>>
  BY DEF Ask
<1>1. desk' = [desk EXCEPT ![d] = [at |-> "create", kind |-> kind, made |-> <<>>, undo |-> <<>>]]
  BY DEF Ask, NewDesk
<1>2. brought' \subseteq Token
  BY DEF Ask, NextToken, Spare, TokensInv, TokensTypeOK
<1>3. /\ \A x \in Desk \ {d} : desk'[x] = desk[x]
      /\ desk'[d] = [at |-> "create", kind |-> kind, made |-> <<>>, undo |-> <<>>]
  BY <1>1 DEF TokensInv, TokensTypeOK
<1>4. desk'[d] \in DeskType
  BY <1>3 DEF DeskType
<1>5. TokensTypeOK'
  BY <1>0, <1>1, <1>2, <1>3, <1>4 DEF TokensInv, TokensTypeOK
<1>6. MadeBy(d)' = {} /\ MadeBy(d) = {} /\ ~At(d, "off")' /\ ~At(d, "undo")' /\ ~At(d, "show")'
  <2>1. MadeBy(d) = {}
    BY <1>0 DEF TokensInv, Undoing
  <2>2. desk'[d].made = <<>> /\ desk'[d].at = "create"
    BY <1>3
  <2>3. MadeBy(d)' = InSeq(desk'[d].made)
    BY DEF MadeBy, InSeq
  <2> QED BY <2>1, <2>2, <2>3, InSeqFacts DEF At
<1>7. \A x \in Desk \ {d} : MadeBy(x)' = MadeBy(x) /\ \A at : At(x, at)' <=> At(x, at)
  BY <1>3 DEF MadeBy, At
<1>8. Undoing'
  BY <1>0, <1>3, <1>6, <1>7 DEF TokensInv, Undoing
<1>9. AuditedOrUndone'
  BY <1>0, <1>6, <1>7 DEF TokensInv, AuditedOrUndone
<1> QED BY <1>5, <1>8, <1>9 DEF TokensInv

LEMMA Recording ==
  ASSUME TokensInv, NEW d \in Desk, Record(d)
  PROVE  TokensInv'
<1>0. At(d, "audit") /\ UNCHANGED <<tokens, brought, lapsed>>
  BY DEF Record
<1>1. PICK at \in {"show", "undo"}, undo \in {desk[d].undo, desk[d].made} :
        /\ desk' = [desk EXCEPT ![d] = [desk[d] EXCEPT !.at = at, !.undo = undo]]
        /\ at = "undo" => undo = desk[d].made
        /\ at = "show" => recorded' = Audited(d)
        /\ recorded' \in {recorded, Audited(d)}
  <2>1. CASE recorded' = Audited(d) /\ DeskStep(d, "show")
    <3>1. desk' = [desk EXCEPT ![d] = [desk[d] EXCEPT !.at = "show", !.undo = desk[d].undo]]
      BY <2>1 DEF DeskStep, TokensInv, TokensTypeOK, DeskType
    <3> QED BY <2>1, <3>1
  <2>2. CASE /\ recorded' \in {recorded, Audited(d)}
             /\ desk' = [desk EXCEPT ![d].at = AuditFailure, ![d].undo = desk[d].made]
    <3>1. desk' = [desk EXCEPT ![d] = [desk[d] EXCEPT !.at = "undo", !.undo = desk[d].made]]
      BY <2>2 DEF AuditFailure, TokensInv, TokensTypeOK, DeskType
    <3> QED BY <2>2, <3>1
  <2> QED BY <2>1, <2>2 DEF Record
<1>2. desk[d] \in DeskType /\ \A x \in Desk : MadeBy(x) = InSeq(desk[x].made) /\ MadeBy(x) \subseteq Token
  BY MadeIs DEF TokensInv
<1>3. /\ \A x \in Desk \ {d} : desk'[x] = desk[x]
      /\ desk'[d] = [desk[d] EXCEPT !.at = at, !.undo = undo]
  BY <1>1 DEF TokensInv, TokensTypeOK
<1>4. desk'[d] \in DeskType /\ desk'[d].made = desk[d].made /\ desk'[d].at = at /\ desk'[d].undo = undo
  BY <1>2, <1>3 DEF DeskType
<1>5. \A x \in Desk : MadeBy(x)' = MadeBy(x)
  <2>1. \A x \in Desk : desk'[x].made = desk[x].made
    BY <1>3, <1>4
  <2> QED BY <2>1 DEF MadeBy
<1>6. \A x \in Desk \ {d} : \A p : At(x, p)' <=> At(x, p)
  BY <1>3 DEF At
<1>7. recorded \subseteq recorded' /\ recorded' \subseteq Token /\ (at = "show" => MadeBy(d) \subseteq recorded')
  BY <1>1, <1>2 DEF Audited, TokensInv, TokensTypeOK
<1>8. TokensTypeOK'
  BY <1>0, <1>1, <1>3, <1>4, <1>7 DEF TokensInv, TokensTypeOK
<1>9. Undoing'
  <2>1. ~At(d, "off")' /\ (At(d, "undo")' => InSeq(desk'[d].undo) = MadeBy(d))
    BY <1>1, <1>2, <1>4 DEF At
  <2>2. ASSUME NEW x \in Desk, At(x, "undo")'
        PROVE  /\ InSeq(desk'[x].undo) \subseteq MadeBy(x)
               /\ \A t \in MadeBy(x) :
                    t \in InSeq(desk'[x].undo) \/ tokens[t] = "revoked" \/ t \in lapsed
    <3>1. CASE x = d
      BY <2>1, <2>2, <3>1
    <3>2. CASE x # d
      BY <2>2, <3>2, <1>3, <1>6 DEF TokensInv, Undoing
    <3> QED BY <3>1, <3>2
  <2>3. \A x \in Desk : At(x, "off")' => MadeBy(x) = {}
    BY <2>1, <1>6 DEF TokensInv, Undoing
  <2> QED BY <2>2, <2>3, <1>0, <1>5 DEF TokensInv, Undoing
<1>10. AuditedOrUndone'
  <2>1. At(d, "show")' => MadeBy(d)' \subseteq recorded'
    BY <1>4, <1>5, <1>7 DEF At
  <2> QED BY <2>1, <1>0, <1>5, <1>6, <1>7 DEF TokensInv, AuditedOrUndone
<1> QED BY <1>8, <1>9, <1>10 DEF TokensInv

LEMMA UndoingOne ==
  ASSUME TokensInv, NEW d \in Desk, Undo(d)
  PROVE  TokensInv'
<1>0. At(d, "undo") /\ UNCHANGED <<brought, recorded>>
  BY DEF Undo
<1>1. desk[d] \in DeskType /\ \A x \in Desk : MadeBy(x) = InSeq(desk[x].made) /\ MadeBy(x) \subseteq Token
  BY MadeIs DEF TokensInv
<1>2. CASE desk[d].undo = <<>>
  <2>1. Close(d) /\ UNCHANGED <<tokens, lapsed>>
    BY <1>2 DEF Undo
  <2>2. \A t \in MadeBy(d) : tokens[t] = "revoked" \/ t \in lapsed
    BY <1>0, <1>2, InSeqFacts DEF TokensInv, Undoing
  <2> QED BY <1>0, <2>1, <2>2, DeskCloses
<1>3. CASE desk[d].undo # <<>>
  <2> DEFINE h == Head(desk[d].undo)
  <2>1. /\ desk' = [desk EXCEPT ![d].undo = Tail(@)]
        /\ \/ tokens' = [tokens EXCEPT ![h] = "revoked"] /\ UNCHANGED lapsed
           \/ UNCHANGED tokens /\ lapsed' = lapsed \cup {h}
    BY <1>3 DEF Undo
  <2>2. desk[d].undo \in Seq(Token)
    BY <1>1 DEF DeskType
  <2>3. /\ Tail(desk[d].undo) \in Seq(Token) /\ h \in Token
        /\ InSeq(desk[d].undo) = InSeq(Tail(desk[d].undo)) \cup {h}
    BY <1>3, <2>2, InSeqFacts
  <2> HIDE DEF h
  <2>4. /\ \A x \in Desk \ {d} : desk'[x] = desk[x]
        /\ desk'[d] = [desk[d] EXCEPT !.undo = Tail(@)]
    BY <2>1 DEF TokensInv, TokensTypeOK
  <2>5. /\ desk'[d] \in DeskType /\ desk'[d].made = desk[d].made /\ desk'[d].at = desk[d].at
        /\ desk'[d].undo = Tail(desk[d].undo)
    BY <1>1, <2>3, <2>4 DEF DeskType
  <2>6. \A x \in Desk : MadeBy(x)' = MadeBy(x) /\ \A p : At(x, p)' <=> At(x, p)
    <3>1. \A x \in Desk : desk'[x].made = desk[x].made /\ desk'[x].at = desk[x].at
      BY <2>4, <2>5
    <3> QED BY <3>1 DEF MadeBy, At
  <2>7. TokensTypeOK'
    <3>1. desk' \in [Desk -> DeskType]
      BY <2>1, <2>4, <2>5 DEF TokensInv, TokensTypeOK
    <3> QED BY <3>1, <1>0, <2>1, <2>3 DEF TokensInv, TokensTypeOK
  <2>8. /\ \A t \in Token : tokens'[t] = tokens[t] \/ tokens'[t] = "revoked"
        /\ lapsed \subseteq lapsed'
        /\ tokens'[h] = "revoked" \/ h \in lapsed'
    BY <2>1, <2>3 DEF TokensInv, TokensTypeOK
  <2>9. Undoing'
    <3> SUFFICES ASSUME NEW x \in Desk
                 PROVE  /\ \A y \in MadeBy(x)' : tokens'[y] # "none"
                        /\ At(x, "off")' => MadeBy(x)' = {}
                        /\ At(x, "undo")' =>
                             /\ InSeq(desk'[x].undo) \subseteq MadeBy(x)'
                             /\ \A y \in MadeBy(x)' : \/ y \in InSeq(desk'[x].undo)
                                                      \/ tokens'[y] = "revoked" \/ y \in lapsed'
      BY DEF Undoing, InSeq
    <3>0. /\ \A y \in MadeBy(x) : tokens[y] # "none"
          /\ At(x, "off") => MadeBy(x) = {}
          /\ At(x, "undo") =>
               /\ InSeq(desk[x].undo) \subseteq MadeBy(x)
               /\ \A y \in MadeBy(x) : \/ y \in InSeq(desk[x].undo)
                                       \/ tokens[y] = "revoked" \/ y \in lapsed
      BY DEF TokensInv, Undoing
    <3>1. \A y \in MadeBy(x) : tokens'[y] = tokens[y] \/ tokens'[y] = "revoked"
      BY <1>1, <2>8
    <3>2. \A y \in MadeBy(x) : tokens'[y] # "none"
      BY <3>0, <3>1
    <3>3. CASE x = d
      <4>1. InSeq(desk'[x].undo) \subseteq InSeq(desk[x].undo)
        BY <2>3, <2>5, <3>3
      <4>2. ASSUME NEW y \in MadeBy(x), y \in InSeq(desk[x].undo)
            PROVE  y \in InSeq(desk'[x].undo) \/ tokens'[y] = "revoked" \/ y \in lapsed'
        BY <2>3, <2>5, <2>8, <3>3, <4>2
      <4>3. ASSUME NEW y \in MadeBy(x), tokens[y] = "revoked" \/ y \in lapsed
            PROVE  tokens'[y] = "revoked" \/ y \in lapsed'
        BY <2>8, <3>1, <4>3
      <4> QED BY <2>6, <3>0, <3>2, <4>1, <4>2, <4>3
    <3>4. CASE x # d
      <4>1. desk'[x] = desk[x]
        BY <2>4, <3>4
      <4>2. ASSUME NEW y \in MadeBy(x), tokens[y] = "revoked" \/ y \in lapsed
            PROVE  tokens'[y] = "revoked" \/ y \in lapsed'
        BY <2>8, <3>1, <4>2
      <4> QED BY <2>6, <3>0, <3>2, <4>1, <4>2
    <3> QED BY <3>3, <3>4
  <2>10. AuditedOrUndone'
    BY <1>0, <2>6, <2>8 DEF TokensInv, AuditedOrUndone
  <2> QED BY <2>7, <2>9, <2>10 DEF TokensInv
<1> QED BY <1>2, <1>3

LEMMA Revoking ==
  ASSUME TokensInv, NEW t \in Token, RevokeToken(t)
  PROVE  TokensInv'
<1>1. \A d \in Desk : MadeBy(d)' = MadeBy(d) /\ MadeBy(d) \subseteq Token /\ \A p : At(d, p)' <=> At(d, p)
  BY MadeIs DEF RevokeToken, MadeBy, At, TokensInv
<1>2. \A x \in Token : tokens'[x] = tokens[x] \/ tokens'[x] = "revoked"
  BY DEF RevokeToken, TokensInv, TokensTypeOK
<1>3. UNCHANGED <<brought, recorded, lapsed, desk>>
  BY DEF RevokeToken
<1>4. TokensTypeOK'
  BY DEF RevokeToken, TokensInv, TokensTypeOK
<1>5. Undoing'
  BY <1>1, <1>2, <1>3 DEF TokensInv, Undoing
<1>6. AuditedOrUndone'
  BY <1>1, <1>2, <1>3 DEF TokensInv, AuditedOrUndone
<1> QED BY <1>4, <1>5, <1>6 DEF TokensInv

LEMMA Stopping ==
  ASSUME TokensInv, HubStops
  PROVE  TokensInv'
<1>1. \A d \in Desk : MadeBy(d) \subseteq Token
  BY MadeIs DEF TokensInv
<1>2. TokensTypeOK'
  BY <1>1, NoDeskIsDesk DEF HubStops, TokensInv, TokensTypeOK
<1>3. \A d \in Desk : MadeBy(d)' = {} /\ ~At(d, "undo")' /\ ~At(d, "show")'
  BY DEF HubStops, MadeBy, NoDesk, NewDesk, At
<1>4. UNCHANGED <<tokens, recorded>> /\ lapsed \subseteq lapsed' /\ \A d \in Desk : MadeBy(d) \subseteq lapsed'
  BY DEF HubStops
<1>5. Undoing'
  BY <1>3 DEF Undoing
<1>6. AuditedOrUndone'
  BY <1>3, <1>4 DEF TokensInv, AuditedOrUndone
<1> QED BY <1>2, <1>5, <1>6 DEF TokensInv

\* No answer tells of a role token whose issue is not in the audit log, and no live token
\* is unaudited and forgotten: one request is at work on it, or its insert, its undoing
\* or its hub was lost (routes/admin.rs: rows, audit event, undoing, in several calls).
THEOREM AuditedOrUndoneHolds == TokensSpec => []AuditedOrUndone
<1>1. TokensInit => TokensInv
  BY TokensInitInv
<1>2. TokensInv /\ [TokensNext]_tokenVars => TokensInv'
  <2> SUFFICES ASSUME TokensInv, [TokensNext]_tokenVars PROVE TokensInv'
    OBVIOUS
  <2>1. ASSUME NEW d \in Desk, NEW kind \in {"issue", "split", "migrate"}, Ask(d, kind) PROVE TokensInv'
    BY <2>1, Asking
  <2>2. ASSUME NEW d \in Desk, Create(d) PROVE TokensInv'
    BY <2>2, Creating
  <2>3. ASSUME NEW d \in Desk, Record(d) PROVE TokensInv'
    BY <2>3, Recording
  <2>4. ASSUME NEW d \in Desk, Show(d) PROVE TokensInv'
    BY <2>4, DeskCloses DEF Show, TokensInv, AuditedOrUndone
  <2>5. ASSUME NEW d \in Desk, Undo(d) PROVE TokensInv'
    BY <2>5, UndoingOne
  <2>6. ASSUME NEW t \in Token, RevokeToken(t) PROVE TokensInv'
    BY <2>6, Revoking
  <2>7. CASE HubStops
    BY <2>7, Stopping
  <2>8. CASE UNCHANGED tokenVars
    BY <2>8 DEF tokenVars, TokensInv, TokensTypeOK, Undoing, AuditedOrUndone, MadeBy, At
  <2> QED BY <2>1, <2>2, <2>3, <2>4, <2>5, <2>6, <2>7, <2>8 DEF TokensNext
<1>3. TokensInv => AuditedOrUndone
  BY DEF TokensInv
<1> QED BY <1>1, <1>2, <1>3, PTL DEF TokensSpec

(***************************************************************************)
(* The directory of dispatchers.                                           *)
(*                                                                         *)
(* A registration about to update a row found it bound to its own key, and *)
(* the row still is, unless it was deleted meanwhile.                      *)
(***************************************************************************)

Written == [key : SigningKey, host : Host \cup {NoHost}, by : SigningKey]
ClerkType ==
  [at : {"off", "bind", "update", "insert", "role", "delete", "count", "drop"},
   who : Dispatcher \cup {"none"}, key : SigningKey \cup {"none"}, host : Host \cup {NoHost}]

\* A request that is at work on a row, and on whose behalf.
Aimed(r) ==
  /\ r.at \in {"bind", "update", "insert", "delete"} => r.who \in Dispatcher
  /\ r.at \in {"bind", "update", "insert"} => r.key \in SigningKey

DirectoryTypeOK ==
  /\ dispatchers \in [Dispatcher -> Written \cup {NoDispatcher}]
  /\ overtaken \subseteq Dispatcher
  /\ clerk \in [Clerk -> ClerkType]
  /\ \A c \in Clerk : Aimed(clerk[c])

BoundStill ==
  \A c \in Clerk : ClerkAt(c, "update") =>
    \/ dispatchers[clerk[c].who].key = clerk[c].key
    \/ clerk[c].who \in overtaken

DirectoryInv == DirectoryTypeOK /\ BoundStill /\ WrittenByItsKey

-----------------------------------------------------------------------------
LEMMA IdleIsAimed == Idle \in ClerkType /\ Aimed(Idle) /\ Idle.at = "off"
BY DEF Idle, ClerkType, Aimed

LEMMA DirectoryInitInv == DirectoryInit => DirectoryInv
<1> SUFFICES ASSUME DirectoryInit PROVE DirectoryInv
  OBVIOUS
<1>1. DirectoryTypeOK
  BY IdleIsAimed DEF DirectoryInit, DirectoryTypeOK
<1>2. BoundStill
  BY DEF DirectoryInit, BoundStill, ClerkAt, Idle
<1>3. WrittenByItsKey
  BY DEF DirectoryInit, WrittenByItsKey, NoDispatcher
<1> QED BY <1>1, <1>2, <1>3 DEF DirectoryInv

LEMMA RowIs ==
  ASSUME DirectoryInv, NEW d \in Dispatcher
  PROVE  /\ dispatchers[d] # NoDispatcher => dispatchers[d] \in Written
         /\ dispatchers[d] = NoDispatcher <=> dispatchers[d].key \notin SigningKey
BY KeyAssumption DEF DirectoryInv, DirectoryTypeOK, Written, NoDispatcher

\* Where a request may go without updating a row.
Aside(to) ==
  /\ to \in ClerkType /\ Aimed(to)
  /\ to.at \in {"off", "bind", "insert", "role", "delete", "count", "drop"}

LEMMA ClerkMoves ==
  ASSUME DirectoryInv, NEW c \in Clerk, NEW to, Aside(to), clerk' = [clerk EXCEPT ![c] = to]
  PROVE  /\ clerk' \in [Clerk -> ClerkType]
         /\ \A o \in Clerk : Aimed(clerk'[o])
         /\ \A o \in Clerk : ClerkAt(o, "update")' => o # c /\ clerk'[o] = clerk[o] /\ ClerkAt(o, "update")
BY DEF DirectoryInv, DirectoryTypeOK, ClerkAt, Aside

LEMMA DoneOrMoves ==
  ASSUME DirectoryInv, NEW c \in Clerk, NEW at \in {"off", "insert", "role", "count", "drop"},
         at = "insert" => clerk[c].who \in Dispatcher /\ clerk[c].key \in SigningKey,
         Done(c) \/ Move(c, at)
  PROVE  \E to : Aside(to) /\ clerk' = [clerk EXCEPT ![c] = to]
<1>1. CASE Done(c)
  BY <1>1, IdleIsAimed DEF Done, Aside
<1>2. CASE ~Done(c)
  <2>1. clerk[c] \in ClerkType
    BY DEF DirectoryInv, DirectoryTypeOK
  <2>2. clerk' = [clerk EXCEPT ![c].at = at]
    BY <1>2 DEF Move
  <2> DEFINE to == [clerk[c] EXCEPT !.at = at]
  <2>3. clerk' = [clerk EXCEPT ![c] = to]
    BY <2>2 DEF DirectoryInv, DirectoryTypeOK
  <2>4. to \in ClerkType /\ to.at = at /\ to.who = clerk[c].who /\ to.key = clerk[c].key
    BY <2>1 DEF ClerkType
  <2> HIDE DEF to
  <2>5. Aside(to)
    BY <2>4 DEF Aside, Aimed
  <2> QED BY <2>3, <2>5
<1> QED BY <1>1, <1>2

\* Nothing of the rows changes.
LEMMA ClerkAlone ==
  ASSUME DirectoryInv, NEW c \in Clerk, NEW to, Aside(to), clerk' = [clerk EXCEPT ![c] = to],
         UNCHANGED <<dispatchers, overtaken>>
  PROVE  DirectoryInv'
<1>1. DirectoryTypeOK'
  BY ClerkMoves DEF DirectoryInv, DirectoryTypeOK
<1>2. BoundStill'
  BY ClerkMoves DEF DirectoryInv, BoundStill
<1>3. WrittenByItsKey'
  BY DEF DirectoryInv, WrittenByItsKey
<1> QED BY <1>1, <1>2, <1>3 DEF DirectoryInv

LEMMA Asked ==
  ASSUME DirectoryInv, NEW c \in Clerk, Register(c) \/ Deregister(c)
  PROVE  DirectoryInv'
<1>1. CASE Register(c)
  <2>1. PICK d \in Dispatcher, k \in SigningKey, h \in Host \cup {NoHost} :
          clerk' = [clerk EXCEPT ![c] = [at |-> "bind", who |-> d, key |-> k, host |-> h]]
    BY <1>1 DEF Register
  <2>2. Aside([at |-> "bind", who |-> d, key |-> k, host |-> h])
    BY DEF Aside, Aimed, ClerkType
  <2> QED BY <1>1, <2>1, <2>2, ClerkAlone DEF Register
<1>2. CASE Deregister(c)
  <2>1. PICK d \in Dispatcher :
          /\ dispatchers[d] # NoDispatcher
          /\ clerk' = [clerk EXCEPT ![c] = [Idle EXCEPT !.at = "delete", !.who = d, !.host = dispatchers[d].host]]
    BY <1>2 DEF Deregister
  <2>2. dispatchers[d].host \in Host \cup {NoHost}
    BY <2>1, RowIs DEF Written
  <2> DEFINE to == [Idle EXCEPT !.at = "delete", !.who = d, !.host = dispatchers[d].host]
  <2>3. to \in ClerkType /\ to.at = "delete" /\ to.who = d
    BY <2>2, IdleIsAimed DEF ClerkType
  <2> HIDE DEF to
  <2>4. Aside(to)
    BY <2>3 DEF Aside, Aimed
  <2>5. clerk' = [clerk EXCEPT ![c] = to]
    BY <2>1 DEF to
  <2> QED BY <1>2, <2>4, <2>5, ClerkAlone DEF Deregister
<1> QED BY <1>1, <1>2

LEMMA Binding ==
  ASSUME DirectoryInv, NEW c \in Clerk, Bind(c)
  PROVE  DirectoryInv'
<1>1. /\ ClerkAt(c, "bind") /\ UNCHANGED <<dispatchers, overtaken>>
      /\ clerk[c].who \in Dispatcher /\ clerk[c].key \in SigningKey
  BY DEF Bind, ClerkAt, DirectoryInv, DirectoryTypeOK, Aimed
<1>2. CASE Done(c) \/ Move(c, "insert")
  BY <1>1, <1>2, DoneOrMoves, ClerkAlone
<1>3. CASE ~Done(c) /\ ~Move(c, "insert")
  <2>1. /\ dispatchers[clerk[c].who].key = clerk[c].key
        /\ clerk' = [clerk EXCEPT ![c].at = "update"]
    BY <1>3 DEF Bind, KeyTaken, Move
  <2>2. clerk[c] \in ClerkType
    BY DEF DirectoryInv, DirectoryTypeOK
  <2>3. /\ \A o \in Clerk \ {c} : clerk'[o] = clerk[o]
        /\ clerk'[c] = [clerk[c] EXCEPT !.at = "update"]
    BY <2>1 DEF DirectoryInv, DirectoryTypeOK
  <2>4. clerk'[c] \in ClerkType /\ clerk'[c].who = clerk[c].who /\ clerk'[c].key = clerk[c].key
    BY <2>2, <2>3 DEF ClerkType
  <2>5. clerk' \in [Clerk -> ClerkType]
    BY <2>1, <2>3, <2>4 DEF DirectoryInv, DirectoryTypeOK
  <2>6. DirectoryTypeOK'
    BY <1>1, <2>3, <2>4, <2>5 DEF DirectoryInv, DirectoryTypeOK, Aimed
  <2>7. BoundStill'
    BY <1>1, <2>1, <2>3, <2>4 DEF DirectoryInv, BoundStill, ClerkAt
  <2>8. WrittenByItsKey'
    BY <1>1 DEF DirectoryInv, WrittenByItsKey
  <2> QED BY <2>6, <2>7, <2>8 DEF DirectoryInv
<1> QED BY <1>2, <1>3

\* One row is written: with the key it has, or where there was none.
LEMMA RowWritten ==
  ASSUME DirectoryInv, NEW c \in Clerk, NEW d \in Dispatcher, NEW row \in Written, NEW to,
         Aside(to), clerk' = [clerk EXCEPT ![c] = to],
         dispatchers' = [dispatchers EXCEPT ![d] = row], UNCHANGED overtaken,
         row.by = row.key \/ d \in overtaken,
         dispatchers[d] = NoDispatcher \/ row.key = dispatchers[d].key
  PROVE  DirectoryInv'
<1>1. DirectoryTypeOK'
  BY ClerkMoves DEF DirectoryInv, DirectoryTypeOK
<1>2. dispatchers'[d] = row /\ \A x \in Dispatcher \ {d} : dispatchers'[x] = dispatchers[x]
  BY DEF DirectoryInv, DirectoryTypeOK
<1>3. BoundStill'
  <2> SUFFICES ASSUME NEW o \in Clerk, ClerkAt(o, "update")'
               PROVE  dispatchers'[clerk'[o].who].key = clerk'[o].key \/ clerk'[o].who \in overtaken
    BY DEF BoundStill
  <2>1. clerk'[o] = clerk[o] /\ ClerkAt(o, "update")
    BY ClerkMoves
  <2>2. clerk[o].who \in Dispatcher /\ clerk[o].key \in SigningKey
    BY <2>1 DEF ClerkAt, DirectoryInv, DirectoryTypeOK, Aimed
  <2>3. dispatchers[clerk[o].who].key = clerk[o].key \/ clerk[o].who \in overtaken
    BY <2>1 DEF DirectoryInv, BoundStill
  <2>4. dispatchers[clerk[o].who].key = clerk[o].key => dispatchers[clerk[o].who] # NoDispatcher
    BY <2>2, RowIs
  <2> QED BY <2>1, <2>2, <2>3, <2>4, <1>2
<1>4. WrittenByItsKey'
  BY <1>2 DEF DirectoryInv, WrittenByItsKey
<1> QED BY <1>1, <1>3, <1>4 DEF DirectoryInv

LEMMA Updating ==
  ASSUME DirectoryInv, NEW c \in Clerk, Update(c)
  PROVE  DirectoryInv'
<1> DEFINE d == clerk[c].who
<1>1. /\ ClerkAt(c, "update") /\ UNCHANGED overtaken /\ d \in Dispatcher
      /\ clerk[c] \in ClerkType /\ clerk[c].key \in SigningKey
  BY DEF Update, ClerkAt, DirectoryInv, DirectoryTypeOK, Aimed
<1>2. CASE UNCHANGED dispatchers /\ Done(c)
  BY <1>1, <1>2, DoneOrMoves, ClerkAlone
<1>3. CASE /\ dispatchers[d] # NoDispatcher
           /\ dispatchers' = [dispatchers EXCEPT ![d].host = clerk[c].host, ![d].by = clerk[c].key]
           /\ Done(c) \/ Move(c, IF clerk[c].host = NoHost THEN "off" ELSE "role")
  <2> DEFINE row == [dispatchers[d] EXCEPT !.host = clerk[c].host, !.by = clerk[c].key]
  <2>1. dispatchers[d] \in Written
    BY <1>1, <1>3, RowIs
  <2>2. dispatchers' = [dispatchers EXCEPT ![d] = row]
    BY <1>1, <1>3 DEF DirectoryInv, DirectoryTypeOK
  <2>3. row \in Written /\ row.key = dispatchers[d].key /\ row.by = clerk[c].key
    BY <1>1, <2>1 DEF Written, ClerkType
  <2>4. row.by = row.key \/ d \in overtaken
    BY <1>1, <2>3 DEF DirectoryInv, BoundStill
  <2>5. PICK to : Aside(to) /\ clerk' = [clerk EXCEPT ![c] = to]
    BY <1>3, DoneOrMoves
  <2> HIDE DEF row, d
  <2> QED BY <1>1, <2>2, <2>3, <2>4, <2>5, RowWritten
<1> QED BY <1>2, <1>3 DEF Update

LEMMA Inserting ==
  ASSUME DirectoryInv, NEW c \in Clerk, InsertRow(c)
  PROVE  DirectoryInv'
<1> DEFINE d == clerk[c].who
<1>1. /\ ClerkAt(c, "insert") /\ UNCHANGED overtaken /\ d \in Dispatcher
      /\ clerk[c] \in ClerkType /\ clerk[c].key \in SigningKey
  BY DEF InsertRow, ClerkAt, DirectoryInv, DirectoryTypeOK, Aimed
<1>2. CASE UNCHANGED dispatchers /\ Done(c)
  BY <1>1, <1>2, DoneOrMoves, ClerkAlone
<1>3. CASE /\ dispatchers[d] = NoDispatcher
           /\ dispatchers' = [dispatchers EXCEPT ![d] =
                [key |-> clerk[c].key, host |-> clerk[c].host, by |-> clerk[c].key]]
           /\ Done(c) \/ Move(c, IF clerk[c].host = NoHost THEN "off" ELSE "role")
  <2> DEFINE row == [key |-> clerk[c].key, host |-> clerk[c].host, by |-> clerk[c].key]
  <2>1. row \in Written /\ row.by = row.key
    BY <1>1 DEF Written, ClerkType
  <2>2. PICK to : Aside(to) /\ clerk' = [clerk EXCEPT ![c] = to]
    BY <1>3, DoneOrMoves
  <2>3. dispatchers' = [dispatchers EXCEPT ![d] = row] /\ dispatchers[d] = NoDispatcher
    BY <1>3
  <2> HIDE DEF row, d
  <2> QED BY <1>1, <2>1, <2>2, <2>3, RowWritten
<1> QED BY <1>2, <1>3 DEF InsertRow

\* A registration under way on the deleted row is overtaken.
LEMMA Deleting ==
  ASSUME DirectoryInv, NEW c \in Clerk, DeleteRow(c)
  PROVE  DirectoryInv'
<1> DEFINE d == clerk[c].who
<1>1. ClerkAt(c, "delete") /\ d \in Dispatcher
  BY DEF DeleteRow, ClerkAt, DirectoryInv, DirectoryTypeOK, Aimed
<1>2. PICK to : Aside(to) /\ clerk' = [clerk EXCEPT ![c] = to]
  BY DoneOrMoves DEF DeleteRow
<1>3. CASE UNCHANGED <<dispatchers, overtaken>>
  BY <1>2, <1>3, ClerkAlone
<1>4. CASE /\ dispatchers' = [dispatchers EXCEPT ![d] = NoDispatcher]
           /\ overtaken' = overtaken \cup
                (IF \E o \in Clerk : clerk[o].who = d /\ ClerkAt(o, "update") THEN {d} ELSE {})
  <2>1. dispatchers'[d] = NoDispatcher /\ \A x \in Dispatcher \ {d} : dispatchers'[x] = dispatchers[x]
    BY <1>1, <1>4 DEF DirectoryInv, DirectoryTypeOK
  <2>2. DirectoryTypeOK'
    BY <1>1, <1>2, <1>4, ClerkMoves DEF DirectoryInv, DirectoryTypeOK
  <2>3. BoundStill'
    <3> SUFFICES ASSUME NEW o \in Clerk, ClerkAt(o, "update")'
                 PROVE  dispatchers'[clerk'[o].who].key = clerk'[o].key \/ clerk'[o].who \in overtaken'
      BY DEF BoundStill
    <3>1. clerk'[o] = clerk[o] /\ ClerkAt(o, "update")
      BY <1>2, ClerkMoves
    <3>2. clerk[o].who \in Dispatcher
      BY <3>1 DEF ClerkAt, DirectoryInv, DirectoryTypeOK, Aimed
    <3>3. dispatchers[clerk[o].who].key = clerk[o].key \/ clerk[o].who \in overtaken
      BY <3>1 DEF DirectoryInv, BoundStill
    <3>4. clerk[o].who = d => d \in overtaken'
      BY <1>4, <3>1
    <3> QED BY <3>1, <3>2, <3>3, <3>4, <2>1, <1>4
  <2>4. WrittenByItsKey'
    BY <2>1, <1>4 DEF DirectoryInv, WrittenByItsKey, NoDispatcher
  <2> QED BY <2>2, <2>3, <2>4 DEF DirectoryInv
<1> QED BY <1>3, <1>4 DEF DeleteRow

\* What a dispatcher's row says was written under the key its id is bound to
\* (upsert_dispatcher binds on one read and writes on another statement), unless the row
\* was deleted under a registration: for any number of dispatchers and requests.
THEOREM WrittenByItsKeyHolds == DirectorySpec => []WrittenByItsKey
<1>1. DirectoryInit => DirectoryInv
  BY DirectoryInitInv
<1>2. DirectoryInv /\ [DirectoryNext]_directoryVars => DirectoryInv'
  <2> SUFFICES ASSUME DirectoryInv, [DirectoryNext]_directoryVars PROVE DirectoryInv'
    OBVIOUS
  <2>1. ASSUME NEW c \in Clerk, Register(c) \/ Deregister(c) PROVE DirectoryInv'
    BY <2>1, Asked
  <2>2. ASSUME NEW c \in Clerk, Bind(c) PROVE DirectoryInv'
    BY <2>2, Binding
  <2>3. ASSUME NEW c \in Clerk, Update(c) PROVE DirectoryInv'
    BY <2>3, Updating
  <2>4. ASSUME NEW c \in Clerk, InsertRow(c) PROVE DirectoryInv'
    BY <2>4, Inserting
  <2>5. ASSUME NEW c \in Clerk, DeleteRow(c) PROVE DirectoryInv'
    BY <2>5, Deleting
  <2>6. ASSUME NEW c \in Clerk, Enable(c) \/ Count(c) \/ Drop(c) PROVE DirectoryInv'
    <3>1. UNCHANGED <<dispatchers, overtaken>> /\ \E at \in {"drop", "off"} : Done(c) \/ Move(c, at)
      BY <2>6 DEF Enable, Count, Drop
    <3> QED BY <3>1, DoneOrMoves, ClerkAlone
  <2>7. ASSUME UNCHANGED <<dispatchers, overtaken, clerk>> PROVE DirectoryInv'
    BY <2>7 DEF DirectoryInv, DirectoryTypeOK, BoundStill, WrittenByItsKey, ClerkAt
  <2>8. ASSUME NEW h \in Host, NEW said \in {"operator", "disabled"}, SetRole(h, said) PROVE DirectoryInv'
    BY <2>7, <2>8 DEF SetRole
  <2>9. ASSUME NEW k \in LabelKey, NEW alias \in Alias \cup {NoAlias}, SetLabel(k, alias) PROVE DirectoryInv'
    BY <2>7, <2>9 DEF SetLabel
  <2>10. CASE UNCHANGED directoryVars
    BY <2>7, <2>10 DEF directoryVars
  <2> QED BY <2>1, <2>2, <2>3, <2>4, <2>5, <2>6, <2>8, <2>9, <2>10
          DEF DirectoryNext, RolesNext, LabelsNext
<1>3. DirectoryInv => WrittenByItsKey
  BY DEF DirectoryInv
<1> QED BY <1>1, <1>2, <1>3, PTL DEF DirectorySpec

(***************************************************************************)
(* The secrets.                                                            *)
(*                                                                         *)
(* A key that sealed something is the file's, all written, or is lost      *)
(* (Usable); a value that a runner got is still in the table or retired    *)
(* (Kept); and a request that has read the table knows every value that    *)
(* was there and not retired (CallOK).                                     *)
(***************************************************************************)

Envelope == [value : Nat, version : Nat, key : Nat]
CallType ==
  [at : {"off", "list", "fetch", "load", "create", "write", "acl", "read", "use"},
   kind : {"put", "claim", "publish"}, name : SUBSET SecretName, value : Nat, existed : BOOLEAN,
   envelopes : [SecretName -> Envelope], key : Nat]

BrokerTypeOK ==
  /\ keyFile \in [key : Nat, whole : BOOLEAN] /\ keys \in Nat
  /\ secrets \in [SecretName -> Envelope]
  /\ values \in Nat /\ held \subseteq Nat /\ stored \subseteq Nat
  /\ retired \subseteq Nat /\ lostKeys \subseteq Nat
  /\ asker \in [Asker -> CallType]

Usable(k, file, lost) == k # 0 => file = [key |-> k, whole |-> TRUE] \/ k \in lost
Kept(v, gone, table) == v \in gone \/ \E n \in SecretName : table[n].value = v

CallOK(r, had, gone, table, file, lost) ==
  /\ r.at = "list" => r.kind = "put"
  /\ Usable(r.key, file, lost)
  /\ r.at # "off" /\ r.kind = "publish" => r.value \in had
  /\ r.at \notin {"off", "fetch"} /\ r.kind # "put" =>
       \A n \in SecretName : r.envelopes[n].value # 0 => Kept(r.envelopes[n].value, gone, table)
  /\ r.at \notin {"off", "fetch"} /\ r.kind = "claim" => \A n \in r.name : r.envelopes[n].value # 0
  /\ r.at \notin {"off", "fetch"} /\ r.kind = "publish" =>
       r.value \in gone \/ \E n \in SecretName : r.envelopes[n].value = r.value

KeptInv ==
  /\ \A n \in SecretName : Usable(secrets[n].key, keyFile, lostKeys)
  /\ \A v \in held : v # 0 /\ Kept(v, retired, secrets)
  /\ \A c \in Asker : CallOK(asker[c], held, retired, secrets, keyFile, lostKeys)

BrokerInv == BrokerTypeOK /\ OnlyRetiredShown /\ KeptInv

-----------------------------------------------------------------------------
LEMMA NoCallIsCall ==
  /\ NoCall \in CallType
  /\ \A had, gone, table, file, lost : CallOK(NoCall, had, gone, table, file, lost)
<1>1. NoCall = [at |-> "off", kind |-> "put", name |-> {}, value |-> 0, existed |-> FALSE,
                envelopes |-> [n \in SecretName |-> NoSecret], key |-> 0]
  BY DEF NoCall, NewCall
<1>2. [n \in SecretName |-> NoSecret] \in [SecretName -> Envelope]
  BY DEF NoSecret, Envelope
<1> QED BY <1>1, <1>2 DEF CallType, CallOK, Usable

LEMMA BrokerInitInv == BrokerInit => BrokerInv
<1> SUFFICES ASSUME BrokerInit PROVE BrokerInv
  OBVIOUS
<1> DEFINE Legacy == [NoSecret EXCEPT !.value = 1, !.version = 1]
<1>1. NoSecret \in Envelope /\ NoSecret.key = 0 /\ Legacy \in Envelope /\ Legacy.key = 0
  BY DEF NoSecret, Envelope
<1>2. PICK old \in SUBSET SecretName :
        secrets = [s \in SecretName |-> IF s \in old THEN Legacy ELSE NoSecret]
  BY DEF BrokerInit
<1> HIDE DEF Legacy
<1>3. secrets \in [SecretName -> Envelope] /\ \A n \in SecretName : secrets[n].key = 0
  BY <1>1, <1>2
<1>4. NoFile \in [key : Nat, whole : BOOLEAN]
  BY DEF NoFile
<1>5. BrokerTypeOK
  BY <1>3, <1>4, NoCallIsCall DEF BrokerInit, BrokerTypeOK
<1>6. KeptInv
  BY <1>3, NoCallIsCall DEF BrokerInit, KeptInv, Usable
<1>7. OnlyRetiredShown
  BY DEF BrokerInit, OnlyRetiredShown
<1> QED BY <1>5, <1>6, <1>7 DEF BrokerInv

\* What a request was told stays true while values are only retired and keys only lost.
LEMMA CallStays ==
  ASSUME NEW r \in CallType, NEW had, NEW had2, NEW gone, NEW gone2, NEW table, NEW table2,
         NEW file, NEW file2, NEW lost, NEW lost2,
         CallOK(r, had, gone, table, file, lost), had \subseteq had2, gone \subseteq gone2,
         \A v \in Nat : v # 0 /\ Kept(v, gone, table) => Kept(v, gone2, table2),
         \A k \in Nat : Usable(k, file, lost) => Usable(k, file2, lost2)
  PROVE  CallOK(r, had2, gone2, table2, file2, lost2)
<1>1. r.key \in Nat /\ \A n \in SecretName : r.envelopes[n].value \in Nat
  BY DEF CallType, Envelope
<1> QED BY <1>1 DEF CallOK

LEMMA BrokerStep ==
  ASSUME BrokerInv, BrokerTypeOK', held \subseteq held', retired \subseteq retired',
         stored' \subseteq retired',
         \A v \in Nat : v # 0 /\ Kept(v, retired, secrets) => Kept(v, retired', secrets'),
         \A k \in Nat : Usable(k, keyFile, lostKeys) => Usable(k, keyFile', lostKeys'),
         \A n \in SecretName : Usable(secrets'[n].key, keyFile', lostKeys'),
         \A v \in held' : v # 0 /\ Kept(v, retired', secrets'),
         \A c \in Asker : asker'[c] = asker[c] \/
           CallOK(asker'[c], held', retired', secrets', keyFile', lostKeys')
  PROVE  BrokerInv'
<1>1. ASSUME NEW c \in Asker PROVE CallOK(asker'[c], held', retired', secrets', keyFile', lostKeys')
  <2>1. asker[c] \in CallType /\ CallOK(asker[c], held, retired, secrets, keyFile, lostKeys)
    BY DEF BrokerInv, BrokerTypeOK, KeptInv
  <2>2. CallOK(asker[c], held', retired', secrets', keyFile', lostKeys')
    BY <2>1, CallStays
  <2> QED BY <2>2
<1> QED BY <1>1 DEF BrokerInv, KeptInv, OnlyRetiredShown

\* Only the request itself changes.
LEMMA CallMoves ==
  ASSUME BrokerInv, NEW c \in Asker, NEW r \in CallType, asker' = [asker EXCEPT ![c] = r],
         CallOK(r, held, retired, secrets, keyFile, lostKeys), values' \in Nat,
         UNCHANGED <<fileVars, tableVars, held, stored>>
  PROVE  BrokerInv'
<1>1. BrokerTypeOK'
  BY DEF BrokerInv, BrokerTypeOK, fileVars, tableVars
<1>2. \A x \in Asker : asker'[x] = asker[x] \/ asker'[x] = r
  BY DEF BrokerInv, BrokerTypeOK
<1> QED BY <1>1, <1>2, BrokerStep DEF BrokerInv, KeptInv, OnlyRetiredShown, fileVars, tableVars

\* A request past its read of the table goes on.
LEMMA PassKeeps ==
  ASSUME BrokerInv, NEW c \in Asker, NEW at \in {"load", "create", "write", "acl", "read", "use"},
         asker[c].at \notin {"off", "list", "fetch"}, Pass(c, at)
  PROVE  \E r \in CallType : /\ asker' = [asker EXCEPT ![c] = r]
                             /\ CallOK(r, held, retired, secrets, keyFile, lostKeys)
<1> DEFINE r == [asker[c] EXCEPT !.at = at]
<1>1. asker[c] \in CallType /\ CallOK(asker[c], held, retired, secrets, keyFile, lostKeys)
  BY DEF BrokerInv, BrokerTypeOK, KeptInv
<1>2. asker' = [asker EXCEPT ![c] = r]
  BY DEF Pass, BrokerInv, BrokerTypeOK
<1>3. /\ r \in CallType /\ r.at = at /\ r.kind = asker[c].kind /\ r.key = asker[c].key
      /\ r.value = asker[c].value /\ r.envelopes = asker[c].envelopes /\ r.name = asker[c].name
  BY <1>1 DEF CallType
<1> HIDE DEF r
<1>4. CallOK(r, held, retired, secrets, keyFile, lostKeys)
  BY <1>1, <1>3 DEF CallOK
<1> QED BY <1>2, <1>3, <1>4

LEMMA HangupKeeps ==
  ASSUME BrokerInv, NEW c \in Asker, Hangup(c)
  PROVE  \E r \in CallType : /\ asker' = [asker EXCEPT ![c] = r]
                             /\ \A had, gone, table, file, lost : CallOK(r, had, gone, table, file, lost)
BY NoCallIsCall DEF Hangup

LEMMA CallsBegin ==
  ASSUME BrokerInv, NEW c \in Asker,
         \/ \E n \in SecretName : AskPut(c, n) \/ AskClaim(c, n)
         \/ \E v \in held : AskPublish(c, v)
  PROVE  BrokerInv'
<1>1. [n \in SecretName |-> NoSecret] \in [SecretName -> Envelope]
  BY DEF NoSecret, Envelope
<1>2. ASSUME NEW at \in {"list", "fetch"}, NEW kind \in {"put", "claim", "publish"},
             NEW name \in SUBSET SecretName, NEW value \in Nat,
             at = "list" => kind = "put", kind = "publish" => at = "fetch" /\ value \in held
      PROVE  /\ NewCall(at, kind, name, value) \in CallType
             /\ at = "list" \/ kind # "put" =>
                  CallOK(NewCall(at, kind, name, value), held, retired, secrets, keyFile, lostKeys)
  BY <1>1, <1>2 DEF NewCall, CallType, CallOK, Usable
<1>3. ASSUME NEW n \in SecretName, AskPut(c, n) PROVE BrokerInv'
  <2>1. values + 1 \in Nat
    BY DEF BrokerInv, BrokerTypeOK
  <2>2. /\ NewCall("list", "put", {n}, values + 1) \in CallType
        /\ CallOK(NewCall("list", "put", {n}, values + 1), held, retired, secrets, keyFile, lostKeys)
    BY <1>2, <2>1
  <2> QED BY <1>3, <2>1, <2>2, CallMoves DEF AskPut, Call
<1>4. ASSUME NEW n \in SecretName, AskClaim(c, n) PROVE BrokerInv'
  <2>1. /\ NewCall("fetch", "claim", {n}, 0) \in CallType
        /\ CallOK(NewCall("fetch", "claim", {n}, 0), held, retired, secrets, keyFile, lostKeys)
    BY <1>2
  <2>2. values' \in Nat
    BY <1>4 DEF AskClaim, BrokerInv, BrokerTypeOK
  <2> QED BY <1>4, <2>1, <2>2, CallMoves DEF AskClaim, Call
<1>5. ASSUME NEW v \in held, AskPublish(c, v) PROVE BrokerInv'
  <2>1. v \in Nat /\ values' \in Nat
    BY <1>5 DEF AskPublish, BrokerInv, BrokerTypeOK
  <2>2. /\ NewCall("fetch", "publish", {}, v) \in CallType
        /\ CallOK(NewCall("fetch", "publish", {}, v), held, retired, secrets, keyFile, lostKeys)
    BY <1>2, <2>1
  <2> QED BY <1>5, <2>1, <2>2, CallMoves DEF AskPublish, Call
<1> QED BY <1>3, <1>4, <1>5

\* A value that a runner has is in the envelopes that were read, or was retired by then.
LEMMA Fetching ==
  ASSUME BrokerInv, NEW c \in Asker, Fetch(c)
  PROVE  BrokerInv'
<1>0. UNCHANGED <<fileVars, tableVars, values, held, stored>> /\ values' \in Nat /\ asker[c].at = "fetch"
  BY DEF Fetch, BrokerInv, BrokerTypeOK, CallAt
<1>1. CASE Hangup(c)
  BY <1>0, <1>1, HangupKeeps, CallMoves
<1>2. CASE ~Hangup(c)
  <2>1. PICK at \in {"load", "use"} : asker' = [asker EXCEPT ![c].envelopes = secrets, ![c].at = at]
    BY <1>2 DEF Fetch
  <2>2. asker[c].kind = "claim" => \A n \in asker[c].name : secrets[n].value # 0
    BY <1>2 DEF Fetch, Present
  <2>3. asker[c] \in CallType /\ CallOK(asker[c], held, retired, secrets, keyFile, lostKeys)
    BY DEF BrokerInv, BrokerTypeOK, KeptInv
  <2>4. secrets \in [SecretName -> Envelope]
    BY DEF BrokerInv, BrokerTypeOK
  <2> DEFINE r == [asker[c] EXCEPT !.envelopes = secrets, !.at = at]
  <2>5. asker' = [asker EXCEPT ![c] = r]
    BY <2>1 DEF BrokerInv, BrokerTypeOK
  <2>6. /\ r \in CallType /\ r.at = at /\ r.kind = asker[c].kind /\ r.key = asker[c].key
        /\ r.value = asker[c].value /\ r.envelopes = secrets /\ r.name = asker[c].name
    BY <2>3, <2>4 DEF CallType
  <2> HIDE DEF r
  <2>7. asker[c].kind = "publish" => asker[c].value \in held /\ Kept(asker[c].value, retired, secrets)
    BY <1>0, <2>3 DEF BrokerInv, KeptInv, CallOK
  <2>8. CallOK(r, held, retired, secrets, keyFile, lostKeys)
    BY <2>2, <2>3, <2>6, <2>7 DEF CallOK, Kept
  <2> QED BY <1>0, <2>5, <2>6, <2>8, CallMoves
<1> QED BY <1>1, <1>2

LEMMA Listing ==
  ASSUME BrokerInv, NEW c \in Asker, List(c)
  PROVE  BrokerInv'
<1>0. UNCHANGED <<fileVars, tableVars, values, held, stored>> /\ values' \in Nat /\ asker[c].at = "list"
  BY DEF List, BrokerInv, BrokerTypeOK, CallAt
<1>1. CASE Hangup(c)
  BY <1>0, <1>1, HangupKeeps, CallMoves
<1>2. CASE ~Hangup(c)
  <2>1. PICK existed \in BOOLEAN : asker' = [asker EXCEPT ![c].at = "load", ![c].existed = existed]
    BY <1>2 DEF List, Present
  <2>2. asker[c] \in CallType /\ CallOK(asker[c], held, retired, secrets, keyFile, lostKeys)
    BY DEF BrokerInv, BrokerTypeOK, KeptInv
  <2> DEFINE r == [asker[c] EXCEPT !.at = "load", !.existed = existed]
  <2>3. asker' = [asker EXCEPT ![c] = r]
    BY <2>1 DEF BrokerInv, BrokerTypeOK
  <2>4. r \in CallType /\ r.at = "load" /\ r.kind = asker[c].kind /\ r.key = asker[c].key
    BY <2>2 DEF CallType
  <2> HIDE DEF r
  <2>5. CallOK(r, held, retired, secrets, keyFile, lostKeys)
    BY <1>0, <2>2, <2>4 DEF CallOK
  <2> QED BY <1>0, <2>3, <2>4, <2>5, CallMoves
<1> QED BY <1>1, <1>2

-----------------------------------------------------------------------------
(* The key file *)

LEMMA Loading ==
  ASSUME BrokerInv, NEW c \in Asker, Load(c)
  PROVE  BrokerInv'
<1>1. /\ UNCHANGED <<fileVars, tableVars, values, held, stored>> /\ values' \in Nat
      /\ asker[c].at = "load" /\ \E at \in {"create", "read"} : Pass(c, at)
  BY DEF Load, BrokerInv, BrokerTypeOK, CallAt
<1> QED BY <1>1, PassKeeps, CallMoves

LEMMA ReadingKey ==
  ASSUME BrokerInv, NEW c \in Asker, Read(c)
  PROVE  BrokerInv'
<1>0. UNCHANGED <<fileVars, tableVars, values, held, stored>> /\ values' \in Nat /\ asker[c].at = "read"
  BY DEF Read, BrokerInv, BrokerTypeOK, CallAt
<1>1. CASE Hangup(c)
  BY <1>0, <1>1, HangupKeeps, CallMoves
<1>2. CASE ~Hangup(c)
  <2>1. /\ keyFile.whole
        /\ asker' = [asker EXCEPT ![c].at = "use",
                       ![c].key = IF keyFile.whole THEN keyFile.key ELSE -keyFile.key]
    BY <1>2 DEF Read, ValidKey
  <2>2. asker[c] \in CallType /\ CallOK(asker[c], held, retired, secrets, keyFile, lostKeys)
    BY DEF BrokerInv, BrokerTypeOK, KeptInv
  <2>3. keyFile.key \in Nat /\ keyFile = [key |-> keyFile.key, whole |-> TRUE]
    BY <2>1 DEF BrokerInv, BrokerTypeOK
  <2> DEFINE r == [asker[c] EXCEPT !.at = "use", !.key = keyFile.key]
  <2>4. asker' = [asker EXCEPT ![c] = r]
    BY <2>1 DEF BrokerInv, BrokerTypeOK
  <2>5. /\ r \in CallType /\ r.at = "use" /\ r.kind = asker[c].kind /\ r.key = keyFile.key
        /\ r.value = asker[c].value /\ r.envelopes = asker[c].envelopes /\ r.name = asker[c].name
    BY <2>2, <2>3 DEF CallType
  <2> HIDE DEF r
  <2>6. CallOK(r, held, retired, secrets, keyFile, lostKeys)
    BY <1>0, <2>2, <2>3, <2>5 DEF CallOK, Usable
  <2> QED BY <1>0, <2>4, <2>5, <2>6, CallMoves
<1> QED BY <1>1, <1>2

\* The file changes, and every key that was usable still is, or is lost.
LEMMA FileChanges ==
  ASSUME BrokerInv, keyFile' \in [key : Nat, whole : BOOLEAN], keys' \in Nat, lostKeys' \subseteq Nat,
         \A k \in Nat : Usable(k, keyFile, lostKeys) => Usable(k, keyFile', lostKeys'),
         UNCHANGED <<tableVars, values, held, stored>>,
         \/ UNCHANGED asker
         \/ \E c \in Asker, r \in CallType :
              asker' = [asker EXCEPT ![c] = r] /\ CallOK(r, held, retired, secrets, keyFile, lostKeys)
  PROVE  BrokerInv'
<1>1. BrokerTypeOK'
  BY DEF BrokerInv, BrokerTypeOK, tableVars
<1>2. \A x \in Asker : asker'[x] = asker[x] \/ CallOK(asker'[x], held, retired, secrets, keyFile, lostKeys)
  BY DEF BrokerInv, BrokerTypeOK
<1>3. ASSUME NEW x \in Asker
      PROVE  CallOK(asker'[x], held', retired', secrets', keyFile', lostKeys')
  <2>1. asker'[x] \in CallType
    BY <1>1 DEF BrokerTypeOK
  <2>2. CallOK(asker'[x], held, retired, secrets, keyFile, lostKeys)
    BY <1>2 DEF BrokerInv, KeptInv
  <2>3. CallOK(asker'[x], held, retired, secrets, keyFile', lostKeys')
    BY <2>1, <2>2, CallStays
  <2> QED BY <2>3 DEF tableVars
<1>4. \A n \in SecretName : Usable(secrets'[n].key, keyFile', lostKeys')
  BY DEF BrokerInv, BrokerTypeOK, KeptInv, Envelope, tableVars
<1> QED BY <1>1, <1>3, <1>4, BrokerStep DEF BrokerInv, KeptInv, OnlyRetiredShown, tableVars

LEMMA FileIsRecord ==
  ASSUME BrokerTypeOK
  PROVE  /\ keyFile = [key |-> keyFile.key, whole |-> keyFile.whole] /\ keyFile.key \in Nat
         /\ NoFile = [key |-> 0, whole |-> FALSE] /\ NoFile \in [key : Nat, whole : BOOLEAN]
         /\ [keyFile EXCEPT !.whole = TRUE] = [key |-> keyFile.key, whole |-> TRUE]
<1>1. \A f \in [key : Nat, whole : BOOLEAN] : f = [key |-> f.key, whole |-> f.whole]
  OBVIOUS
<1> DEFINE f == [keyFile EXCEPT !.whole = TRUE]
<1>2. f \in [key : Nat, whole : BOOLEAN] /\ f.key = keyFile.key /\ f.whole = TRUE
  BY DEF BrokerTypeOK
<1> HIDE DEF f
<1>3. f = [key |-> keyFile.key, whole |-> TRUE]
  BY <1>1, <1>2
<1>4. NoFile = [key |-> 0, whole |-> FALSE] /\ NoFile \in [key : Nat, whole : BOOLEAN]
  BY DEF NoFile
<1> QED BY <1>1, <1>3, <1>4 DEF BrokerTypeOK, f

LEMMA FileActions ==
  ASSUME BrokerInv, ReplaceKey \/ \E c \in Asker : CreateKey(c) \/ Write(c) \/ RemoveKey(c)
  PROVE  BrokerInv'
<1>0. BrokerTypeOK
  BY DEF BrokerInv
<1>1. ASSUME NEW c \in Asker, CreateKey(c) PROVE BrokerInv'
  <2>1. asker[c].at = "create" /\ UNCHANGED <<lostKeys, tableVars, values, held, stored>>
    BY <1>1 DEF CreateKey, CallAt
  <2>2. CASE keyFile = NoFile
    <3>1. keys' = keys + 1 /\ keyFile' = [key |-> keys + 1, whole |-> FALSE] /\ Pass(c, "write")
      BY <1>1, <2>2 DEF CreateKey
    <3>2. \A k \in Nat : Usable(k, keyFile, lostKeys) => Usable(k, keyFile', lostKeys')
      BY <2>1, <2>2, FileIsRecord, <1>0 DEF Usable
    <3>3. keys' \in Nat /\ keyFile' \in [key : Nat, whole : BOOLEAN] /\ lostKeys' \subseteq Nat
      BY <1>0, <2>1, <3>1 DEF BrokerTypeOK
    <3>4. \E r \in CallType : /\ asker' = [asker EXCEPT ![c] = r]
                              /\ CallOK(r, held, retired, secrets, keyFile, lostKeys)
      BY <2>1, <3>1, PassKeeps
    <3> QED BY <2>1, <3>2, <3>3, <3>4, FileChanges
  <2>3. CASE keyFile # NoFile
    <3>1. Hangup(c) /\ UNCHANGED <<keyFile, keys>>
      BY <1>1, <2>3 DEF CreateKey
    <3> QED BY <1>0, <2>1, <3>1, HangupKeeps, FileChanges DEF BrokerTypeOK
  <2> QED BY <2>2, <2>3
<1>2. ASSUME NEW c \in Asker, Write(c) PROVE BrokerInv'
  <2>1. /\ asker[c].at = "write" /\ UNCHANGED <<lostKeys, keys, tableVars, values, held, stored>>
        /\ keyFile' \in {keyFile, [keyFile EXCEPT !.whole = TRUE]}
        /\ Hangup(c) \/ \E at \in {"read", "acl"} : Pass(c, at)
    BY <1>2 DEF Write, CallAt
  <2>2. keyFile' \in [key : Nat, whole : BOOLEAN]
    BY <1>0, <2>1 DEF BrokerTypeOK
  <2>3. \A k \in Nat : Usable(k, keyFile, lostKeys) => Usable(k, keyFile', lostKeys')
    <3> SUFFICES ASSUME NEW k \in Nat, keyFile = [key |-> k, whole |-> TRUE]
                 PROVE  keyFile' = [key |-> k, whole |-> TRUE]
      BY <2>1 DEF Usable
    <3>1. keyFile.key = k
      OBVIOUS
    <3> QED BY <1>0, <2>1, <3>1, FileIsRecord
  <2>4. \E r \in CallType : /\ asker' = [asker EXCEPT ![c] = r]
                            /\ CallOK(r, held, retired, secrets, keyFile, lostKeys)
    BY <2>1, HangupKeeps, PassKeeps
  <2> QED BY <1>0, <2>1, <2>2, <2>3, <2>4, FileChanges DEF BrokerTypeOK
<1>3. ASSUME keyFile' \in [key : Nat, whole : BOOLEAN], keys' \in Nat,
             lostKeys' = lostKeys \cup {keyFile.key}, UNCHANGED <<tableVars, values, held, stored>>,
             UNCHANGED asker \/ \E c \in Asker : Hangup(c)
      PROVE  BrokerInv'
  <2>1. \A k \in Nat : Usable(k, keyFile, lostKeys) => Usable(k, keyFile', lostKeys')
    BY <1>3 DEF Usable
  <2>2. lostKeys' \subseteq Nat
    BY <1>0, <1>3, FileIsRecord DEF BrokerTypeOK
  <2> QED BY <1>3, <2>1, <2>2, HangupKeeps, FileChanges
<1>4. ASSUME NEW c \in Asker, RemoveKey(c) PROVE BrokerInv'
  BY <1>0, <1>3, <1>4, FileIsRecord DEF RemoveKey, BrokerTypeOK
<1>5. CASE ReplaceKey
  <2>1. keys + 1 \in Nat /\ [key |-> keys + 1, whole |-> TRUE] \in [key : Nat, whole : BOOLEAN]
    BY <1>0 DEF BrokerTypeOK
  <2> QED BY <1>3, <1>5, <2>1 DEF ReplaceKey
<1> QED BY <1>1, <1>2, <1>4, <1>5

-----------------------------------------------------------------------------
(* The table *)

\* One envelope is replaced: what it held is retired.
LEMMA TableChanges ==
  ASSUME BrokerInv, NEW n \in SecretName, NEW e \in Envelope,
         secrets' = [secrets EXCEPT ![n] = e],
         retired \cup ({secrets[n].value} \ {0}) \subseteq retired', retired' \subseteq Nat,
         Usable(e.key, keyFile, lostKeys),
         UNCHANGED <<fileVars, values, held, stored>>,
         UNCHANGED asker \/ \E c \in Asker : Hangup(c)
  PROVE  BrokerInv'
<1>0. /\ \A m \in SecretName \ {n} : secrets'[m] = secrets[m]
      /\ secrets'[n] = e
  BY DEF BrokerInv, BrokerTypeOK
<1>1. BrokerTypeOK'
  <2>1. asker' \in [Asker -> CallType]
    BY NoCallIsCall DEF Hangup, BrokerInv, BrokerTypeOK
  <2> QED BY <2>1 DEF BrokerInv, BrokerTypeOK, fileVars
<1>2. \A v \in Nat : v # 0 /\ Kept(v, retired, secrets) => Kept(v, retired', secrets')
  BY <1>0 DEF Kept
<1>3. \A x \in Asker : asker'[x] = asker[x] \/
        CallOK(asker'[x], held', retired', secrets', keyFile', lostKeys')
  BY NoCallIsCall DEF Hangup, BrokerInv, BrokerTypeOK
<1>4. \A m \in SecretName : Usable(secrets'[m].key, keyFile', lostKeys')
  BY <1>0 DEF BrokerInv, KeptInv, fileVars
<1>5. \A v \in held' : v # 0 /\ Kept(v, retired', secrets')
  BY <1>2 DEF BrokerInv, BrokerTypeOK, KeptInv
<1>6. stored' \subseteq retired'
  BY DEF BrokerInv, OnlyRetiredShown
<1> QED BY <1>1, <1>2, <1>3, <1>4, <1>5, <1>6, BrokerStep DEF fileVars

LEMMA Putting ==
  ASSUME BrokerInv, NEW c \in Asker, Put(c)
  PROVE  BrokerInv'
<1>0. Hangup(c) /\ UNCHANGED <<fileVars, values, held, stored>>
  BY DEF Put
<1>1. asker[c] \in CallType /\ Usable(asker[c].key, keyFile, lostKeys)
  BY DEF BrokerInv, BrokerTypeOK, KeptInv, CallOK
<1>2. ASSUME NEW n \in asker[c].name, StoreRow(c, n) PROVE BrokerInv'
  <2>1. n \in SecretName /\ secrets[n] \in Envelope
    BY <1>1 DEF CallType, BrokerInv, BrokerTypeOK
  <2> DEFINE version == IF asker[c].existed THEN secrets[n].version + 1
                        ELSE IF Present(n) THEN secrets[n].version ELSE 1
             e == [value |-> asker[c].value, key |-> asker[c].key, version |-> version]
  <2>2. version \in Nat
    BY <2>1 DEF Envelope
  <2>3. secrets' = [secrets EXCEPT ![n] = e]
    BY <1>2, <2>1 DEF StoreRow, BrokerInv, BrokerTypeOK
  <2> HIDE DEF version
  <2>4. e \in Envelope /\ e.key = asker[c].key
    BY <1>1, <2>2 DEF Envelope, CallType
  <2>5. retired' = retired \cup ({secrets[n].value} \ {0}) /\ retired' \subseteq Nat
    BY <1>2, <2>1 DEF StoreRow, BrokerInv, BrokerTypeOK, Envelope
  <2> HIDE DEF e
  <2> QED BY <1>0, <1>1, <2>1, <2>3, <2>4, <2>5, TableChanges
<1>3. CASE UNCHANGED tableVars
  <2>1. values' \in Nat
    BY <1>0 DEF BrokerInv, BrokerTypeOK
  <2> QED BY <1>0, <1>3, <2>1, HangupKeeps, CallMoves
<1> QED BY <1>2, <1>3 DEF Put

LEMMA Deleted ==
  ASSUME BrokerInv, NEW n \in SecretName, Delete(n)
  PROVE  BrokerInv'
<1>1. NoSecret \in Envelope /\ NoSecret.key = 0
  BY DEF NoSecret, Envelope
<1>2. retired' \subseteq Nat
  BY DEF Delete, BrokerInv, BrokerTypeOK, Envelope
<1> QED BY <1>1, <1>2, TableChanges DEF Delete, Usable

\* A runner is given what the table had when its claim read it.
LEMMA Claiming ==
  ASSUME BrokerInv, NEW c \in Asker, Claim(c)
  PROVE  BrokerInv'
<1>0. /\ Hangup(c) /\ UNCHANGED <<fileVars, tableVars, values, stored>>
      /\ asker[c].at = "use" /\ asker[c].kind = "claim"
  BY DEF Claim, CallAt
<1>1. asker[c] \in CallType /\ CallOK(asker[c], held, retired, secrets, keyFile, lostKeys)
  BY DEF BrokerInv, BrokerTypeOK, KeptInv
<1>2. CASE UNCHANGED held
  <2>1. values' \in Nat
    BY <1>0 DEF BrokerInv, BrokerTypeOK
  <2> QED BY <1>0, <1>2, <2>1, HangupKeeps, CallMoves
<1>3. ASSUME NEW n \in asker[c].name, held' = held \cup {asker[c].envelopes[n].value} PROVE BrokerInv'
  <2> DEFINE v == asker[c].envelopes[n].value
  <2>1. n \in SecretName /\ v \in Nat
    BY <1>1 DEF CallType, Envelope
  <2>2. v # 0 /\ Kept(v, retired, secrets)
    BY <1>0, <1>1, <2>1 DEF CallOK
  <2> HIDE DEF v
  <2>3. held' = held \cup {v}
    BY <1>3 DEF v
  <2>4. asker' \in [Asker -> CallType]
    BY <1>0, NoCallIsCall DEF Hangup, BrokerInv, BrokerTypeOK
  <2>5. BrokerTypeOK'
    BY <1>0, <2>1, <2>3, <2>4 DEF BrokerInv, BrokerTypeOK, fileVars, tableVars
  <2>6. \A x \in Asker : asker'[x] = asker[x] \/
          CallOK(asker'[x], held', retired', secrets', keyFile', lostKeys')
    BY <1>0, NoCallIsCall DEF Hangup, BrokerInv, BrokerTypeOK
  <2>7. \A x \in held' : x # 0 /\ Kept(x, retired', secrets')
    BY <1>0, <2>2, <2>3 DEF BrokerInv, KeptInv, tableVars
  <2> QED BY <1>0, <2>3, <2>5, <2>6, <2>7, BrokerStep
          DEF BrokerInv, KeptInv, OnlyRetiredShown, fileVars, tableVars
<1> QED BY <1>2, <1>3 DEF Claim

\* Redaction takes every value out that was in the table when it was read.
LEMMA Publishing ==
  ASSUME BrokerInv, NEW c \in Asker, Publish(c)
  PROVE  BrokerInv'
<1>0. /\ Hangup(c) /\ UNCHANGED <<fileVars, tableVars, values, held>>
      /\ asker[c].at = "use" /\ asker[c].kind = "publish"
  BY DEF Publish, CallAt
<1>1. asker[c] \in CallType /\ CallOK(asker[c], held, retired, secrets, keyFile, lostKeys)
  BY DEF BrokerInv, BrokerTypeOK, KeptInv
<1>2. stored' \subseteq retired /\ stored' \subseteq Nat
  <2>1. CASE UNCHANGED stored
    BY <2>1 DEF BrokerInv, BrokerTypeOK, OnlyRetiredShown
  <2>2. CASE /\ AllOpen(c)
             /\ stored' = stored \cup ({asker[c].value} \ {asker[c].envelopes[n].value : n \in Opened(c)})
    <3>1. asker[c].value \in Nat /\ asker[c].value # 0
      BY <1>0, <1>1 DEF CallType, CallOK, BrokerInv, KeptInv
    <3>2. asker[c].value \in retired \/ \E n \in SecretName : asker[c].envelopes[n].value = asker[c].value
      BY <1>0, <1>1 DEF CallOK
    <3>3. ASSUME NEW n \in SecretName, asker[c].envelopes[n].value = asker[c].value
          PROVE  n \in Opened(c)
      BY <2>2, <3>1, <3>3 DEF AllOpen
    <3>4. stored' \subseteq stored \cup {asker[c].value}
      BY <2>2
    <3>5. asker[c].value \in stored' => asker[c].value \in retired \/ asker[c].value \in stored
      BY <2>2, <3>2, <3>3
    <3> QED BY <3>1, <3>4, <3>5 DEF BrokerInv, BrokerTypeOK, OnlyRetiredShown
  <2> QED BY <2>1, <2>2 DEF Publish
<1>3. asker' \in [Asker -> CallType]
  BY <1>0, NoCallIsCall DEF Hangup, BrokerInv, BrokerTypeOK
<1>4. BrokerTypeOK'
  BY <1>0, <1>2, <1>3 DEF BrokerInv, BrokerTypeOK, fileVars, tableVars
<1>5. \A x \in Asker : asker'[x] = asker[x] \/
        CallOK(asker'[x], held', retired', secrets', keyFile', lostKeys')
  BY <1>0, NoCallIsCall DEF Hangup, BrokerInv, BrokerTypeOK
<1> QED BY <1>0, <1>2, <1>4, <1>5, BrokerStep DEF BrokerInv, KeptInv, fileVars, tableVars

LEMMA BrokerStopped ==
  ASSUME BrokerInv, BrokerStops
  PROVE  BrokerInv'
<1>1. BrokerTypeOK'
  BY NoCallIsCall DEF BrokerStops, BrokerInv, BrokerTypeOK, fileVars, tableVars
<1>2. \A x \in Asker : CallOK(asker'[x], held', retired', secrets', keyFile', lostKeys')
  BY NoCallIsCall DEF BrokerStops
<1> QED BY <1>1, <1>2, BrokerStep
        DEF BrokerStops, BrokerInv, KeptInv, OnlyRetiredShown, fileVars, tableVars

LEMMA BrokerKeeps == BrokerInv /\ [BrokerNext]_brokerVars => BrokerInv'
<1> SUFFICES ASSUME BrokerInv, [BrokerNext]_brokerVars PROVE BrokerInv'
  OBVIOUS
<1>1. ASSUME NEW c \in Asker, NEW n \in SecretName, AskPut(c, n) \/ AskClaim(c, n) PROVE BrokerInv'
  BY <1>1, CallsBegin
<1>2. ASSUME NEW c \in Asker, NEW v \in held, AskPublish(c, v) PROVE BrokerInv'
  BY <1>2, CallsBegin
<1>3. ASSUME NEW c \in Asker, List(c) PROVE BrokerInv'
  BY <1>3, Listing
<1>4. ASSUME NEW c \in Asker, Fetch(c) PROVE BrokerInv'
  BY <1>4, Fetching
<1>5. ASSUME NEW c \in Asker, Load(c) PROVE BrokerInv'
  BY <1>5, Loading
<1>6. ASSUME NEW c \in Asker, CreateKey(c) \/ Write(c) \/ RemoveKey(c) PROVE BrokerInv'
  BY <1>6, FileActions
<1>7. ASSUME NEW c \in Asker, Read(c) PROVE BrokerInv'
  BY <1>7, ReadingKey
<1>8. ASSUME NEW c \in Asker, Put(c) PROVE BrokerInv'
  BY <1>8, Putting
<1>9. ASSUME NEW c \in Asker, Claim(c) PROVE BrokerInv'
  BY <1>9, Claiming
<1>10. ASSUME NEW c \in Asker, Publish(c) PROVE BrokerInv'
  BY <1>10, Publishing
<1>11. ASSUME NEW n \in SecretName, Delete(n) PROVE BrokerInv'
  BY <1>11, Deleted
<1>12. CASE ReplaceKey
  BY <1>12, FileActions
<1>13. CASE BrokerStops
  BY <1>13, BrokerStopped
<1>14. CASE UNCHANGED brokerVars
  BY <1>14 DEF brokerVars, BrokerInv, BrokerTypeOK, OnlyRetiredShown, KeptInv
<1> QED BY <1>1, <1>2, <1>3, <1>4, <1>5, <1>6, <1>7, <1>8, <1>9, <1>10, <1>11, <1>12, <1>13, <1>14
        DEF BrokerNext

\* Stored output shows no value that the table still has (redact_text with every envelope
\* of one read, failing closed): for any number of secrets, requests, rotations and keys.
THEOREM OnlyRetiredShownHolds == BrokerSpec => []OnlyRetiredShown
<1>1. BrokerInv => OnlyRetiredShown
  BY DEF BrokerInv
<1> QED BY <1>1, BrokerInitInv, BrokerKeeps, PTL DEF BrokerSpec

\* What was sealed opens under the key file's key, unless that key was replaced or its file
\* removed (FileKeyProvider.load_key: create_new, then write, then read), whoever raced.
THEOREM SealedOpensHolds == BrokerSpec => []SealedOpens
<1>1. BrokerInv => SealedOpens
  BY DEF BrokerInv, KeptInv, SealedOpens, Usable
<1> QED BY <1>1, BrokerInitInv, BrokerKeeps, PTL DEF BrokerSpec
=============================================================================
