------------------------------ MODULE Approvals ------------------------------
(***************************************************************************)
(* Dispatches the policy gate holds for a human, and their decisions.      *)
(*                                                                         *)
(* A dispatch handler consumes the request's nonce, looks for a pending    *)
(* approval of the same envelope, inserts one, inserts the held task and   *)
(* forwards the approval to ForgeLink: five store or network calls, each   *)
(* one step here.  A resolver is an operator's approve or deny handler, or *)
(* a GET /approvals/{id} that finds a decision in ForgeLink: it updates    *)
(* the approval row, reads it back, looks for the task, adds the decision  *)
(* to the task's evidence, counts it and audits it.  Either may lose its   *)
(* client, its store or its process between any two steps.                 *)
(*                                                                         *)
(* Events names what the environment may do in a configuration:            *)
(*   "timeout"     the dispatcher's HTTP client sees a transport error     *)
(*   "forgelink"   ForgeLink is configured                                 *)
(*   "storeerror"  a store call fails, with or without its effect          *)
(*   "crash"       the hub dies                                            *)
(***************************************************************************)
EXTENDS Integers, Sequences, FiniteSets

CONSTANTS
  Request,    \* signed dispatches whose brief the gate holds
  NoRequest,
  RetryOf,    \* the request whose approval id a repeated brief carries
  Tries,      \* the HTTP client's MAX_RETRIES (3)
  Resolver,   \* approve, deny and poll handlers the hub may run at once
  Events

ASSUME NoRequestAssumption == NoRequest \notin Request
ASSUME RetryOfAssumption == RetryOf \in [Request -> Request \cup {NoRequest}]
ASSUME TriesAssumption == Tries \in Nat \ {0}

VARIABLES
  nonces,     \* requests whose nonce is in dispatcher_nonces
  approvals,  \* the approvals table, in order of insertion
  tasks,      \* the tasks created for them, in order of id
  routed,     \* approvals ForgeLink has been sent
  forgeLink,  \* what the operator decided in ForgeLink, per approval
  decisions,  \* audit events of decisions
  attempt,    \* how often the client has sent the request
  told,       \* what the dispatcher was told
  dPc,        \* where each dispatch handler is
  dApproval,  \* the approval it works on
  rPc,        \* where each resolver is
  rVia,       \* "operator" or "poll"
  rApproval,
  rDecision,
  rTask,      \* the task it found, 0 for none
  rSeen,      \* the evidence it read
  blind       \* history: approvals resolved before their task was there

storeVars == <<nonces, approvals, tasks, decisions>>
forgeVars == <<routed, forgeLink>>
clientVars == <<attempt, told>>
dispatchVars == <<dPc, dApproval>>
resolverVars == <<rPc, rVia, rApproval, rDecision, rTask, rSeen>>
vars == <<storeVars, forgeVars, clientVars, dispatchVars, resolverVars, blind>>

Decision == {"approved", "denied"}
Handler == Request \X (1..Tries)

Approval == [request : Request, status : {"pending"} \cup Decision]
Task == [approval : Nat, status : {"held"},
         evidence : Seq(Decision), received : Nat]
Event == [approval : Nat, decision : Decision, task : Nat,
          via : {"operator", "poll"}]

TypeOK ==
  /\ nonces \in SUBSET Request
  /\ approvals \in Seq(Approval)
  /\ tasks \in Seq(Task)
  /\ routed \in SUBSET Nat
  /\ forgeLink \in [routed -> {"open"} \cup Decision]
  /\ decisions \in Seq(Event)
  /\ attempt \in [Request -> 0..Tries]
  /\ told \in [Request -> {"nothing", "held", "refused", "unknown"}]
  /\ dPc \in [Handler -> {"off", "nonce", "lookup", "approval", "task",
                          "route", "held", "refused"}]
  /\ dApproval \in [Handler -> Nat]
  /\ rPc \in [Resolver -> {"idle", "poll", "resolve", "reread", "find",
                           "read", "write", "count", "audit"}]
  /\ rVia \in [Resolver -> {"operator", "poll"}]
  /\ rApproval \in [Resolver -> Nat]
  /\ rDecision \in [Resolver -> Decision]
  /\ rTask \in [Resolver -> Nat]
  /\ rSeen \in [Resolver -> Seq(Decision)]
  /\ blind \in SUBSET Nat

Init ==
  /\ nonces = {}
  /\ approvals = <<>>
  /\ tasks = <<>>
  /\ routed = {}
  /\ forgeLink = [a \in {} |-> "open"]
  /\ decisions = <<>>
  /\ attempt = [q \in Request |-> 0]
  /\ told = [q \in Request |-> "nothing"]
  /\ dPc = [h \in Handler |-> "off"]
  /\ dApproval = [h \in Handler |-> 0]
  /\ rPc = [r \in Resolver |-> "idle"]
  /\ rVia = [r \in Resolver |-> "operator"]
  /\ rApproval = [r \in Resolver |-> 0]
  /\ rDecision = [r \in Resolver |-> "denied"]
  /\ rTask = [r \in Resolver |-> 0]
  /\ rSeen = [r \in Resolver |-> <<>>]
  /\ blind = {}

StoreMayFail == "storeerror" \in Events

-----------------------------------------------------------------------------
(* The dispatcher.                                                         *)

ApprovedFor(q) ==
  \E a \in DOMAIN approvals :
    approvals[a].request = q /\ approvals[a].status = "approved"

\* dispatch_signed; a brief that carries an approval id is sent once the
\* dispatcher was told of the hold and saw the approval.
Send(q) ==
  /\ attempt[q] = 0
  /\ RetryOf[q] # NoRequest =>
       told[RetryOf[q]] = "held" /\ ApprovedFor(RetryOf[q])
  /\ attempt' = [attempt EXCEPT ![q] = 1]
  /\ dPc' = [dPc EXCEPT ![<<q, 1>>] = "nonce"]
  /\ UNCHANGED <<storeVars, forgeVars, told, dApproval, resolverVars, blind>>

Waiting(q) == attempt[q] > 0 /\ told[q] = "nothing"

\* request_with_retry after a transport error: the same body, nonce included.
Resend(q) ==
  /\ "timeout" \in Events
  /\ Waiting(q)
  /\ attempt[q] < Tries
  /\ attempt' = [attempt EXCEPT ![q] = @ + 1]
  /\ dPc' = [dPc EXCEPT ![<<q, attempt[q] + 1>>] = "nonce"]
  /\ UNCHANGED <<storeVars, forgeVars, told, dApproval, resolverVars, blind>>

GiveUp(q) ==
  /\ "timeout" \in Events
  /\ Waiting(q)
  /\ attempt[q] = Tries
  /\ told' = [told EXCEPT ![q] = "unknown"]
  /\ UNCHANGED <<storeVars, forgeVars, attempt, dispatchVars, resolverVars,
                 blind>>

Answers(h) == Waiting(h[1]) /\ attempt[h[1]] = h[2]

Deliver(h) ==
  /\ dPc[h] \in {"held", "refused"}
  /\ Answers(h)
  /\ told' = [told EXCEPT ![h[1]] = dPc[h]]
  /\ dPc' = [dPc EXCEPT ![h] = "off"]
  /\ UNCHANGED <<storeVars, forgeVars, attempt, dApproval, resolverVars, blind>>

\* The HTTP server drops a handler whose client is gone, wherever it is.
Drop(h) ==
  /\ dPc[h] # "off"
  /\ ~Answers(h)
  /\ dPc' = [dPc EXCEPT ![h] = "off"]
  /\ UNCHANGED <<storeVars, forgeVars, clientVars, dApproval, resolverVars,
                 blind>>

-----------------------------------------------------------------------------
(* dispatch_task_signed, from the nonce on.                                *)

DispatchStep(h, to) ==
  /\ dPc' = [dPc EXCEPT ![h] = to]
  /\ UNCHANGED <<forgeVars, clientVars, decisions, resolverVars, blind>>

NonceFresh_Ignored(q) == TRUE

NonceFresh(q) == q \notin nonces

\* A failed INSERT is refused as a replay, whatever made it fail.
ConsumeNonce(h) ==
  /\ dPc[h] = "nonce"
  /\ UNCHANGED <<approvals, tasks, dApproval>>
  /\ \/ /\ NonceFresh(h[1])
        /\ nonces' = nonces \cup {h[1]}
        /\ DispatchStep(h, "lookup")
     \/ /\ ~NonceFresh(h[1])
        /\ UNCHANGED nonces
        /\ DispatchStep(h, "refused")
     \/ /\ StoreMayFail
        /\ nonces' \in {nonces, nonces \cup {h[1]}}
        /\ DispatchStep(h, "refused")

PendingFor(q) ==
  {a \in DOMAIN approvals :
     approvals[a].request = q /\ approvals[a].status = "pending"}

\* create_or_get_pending_approval: the envelope hash covers the nonce, so
\* only the same request can match.
LookUp(h) ==
  /\ dPc[h] = "lookup"
  /\ UNCHANGED <<nonces, approvals, tasks>>
  /\ LET found == PendingFor(h[1])
     IN  \/ /\ dApproval' = [dApproval EXCEPT
                 ![h] = IF found = {} THEN 0 ELSE CHOOSE a \in found : TRUE]
            /\ DispatchStep(h, IF found = {} THEN "approval" ELSE "task")
         \/ StoreMayFail /\ DispatchStep(h, "refused") /\ UNCHANGED dApproval

InsertApproval(h) ==
  /\ dPc[h] = "approval"
  /\ UNCHANGED <<nonces, tasks>>
  /\ LET after == Append(approvals, [request |-> h[1], status |-> "pending"])
     IN  \/ /\ approvals' = after
            /\ dApproval' = [dApproval EXCEPT ![h] = Len(after)]
            /\ DispatchStep(h, "task")
         \/ /\ StoreMayFail
            /\ approvals' \in {approvals, after}
            /\ DispatchStep(h, "refused")
            /\ UNCHANGED dApproval

AfterFailedInsert_AsHeld == "held"

AfterFailedInsert == "refused"

\* create_task with status "held"; nothing in the hub ever releases it.
InsertTask(h) ==
  /\ dPc[h] = "task"
  /\ UNCHANGED <<nonces, approvals, dApproval>>
  /\ LET after == Append(tasks, [approval |-> dApproval[h], status |-> "held",
                                 evidence |-> <<>>, received |-> 0])
     IN  \/ tasks' = after /\ DispatchStep(h, "route")
         \/ /\ StoreMayFail
            /\ tasks' \in {tasks, after}
            /\ DispatchStep(h, AfterFailedInsert)

\* route_approval is best effort: the answer is "held" in any case.
Route(h) ==
  /\ dPc[h] = "route"
  /\ dPc' = [dPc EXCEPT ![h] = "held"]
  /\ \/ UNCHANGED forgeVars
     \/ /\ "forgelink" \in Events
        /\ routed' = routed \cup {dApproval[h]}
        /\ forgeLink' = [a \in routed' |->
                           IF a \in routed THEN forgeLink[a] ELSE "open"]
  /\ UNCHANGED <<storeVars, clientVars, dApproval, resolverVars, blind>>

-----------------------------------------------------------------------------
(* Resolvers.                                                              *)

ForgeLinkDecides(a, d) ==
  /\ a \in routed
  /\ forgeLink[a] = "open"
  /\ forgeLink' = [forgeLink EXCEPT ![a] = d]
  /\ UNCHANGED <<storeVars, routed, clientVars, dispatchVars, resolverVars,
                 blind>>

ResolverStep(r, to) ==
  /\ rPc' = [rPc EXCEPT ![r] = to]
  /\ UNCHANGED <<nonces, forgeVars, clientVars, dispatchVars, rVia>>

\* POST /approvals/{id}/approve or /deny, by an operator who saw the row.
Decide(r, a, d) ==
  /\ rPc[r] = "idle"
  /\ rPc' = [rPc EXCEPT ![r] = "resolve"]
  /\ rVia' = [rVia EXCEPT ![r] = "operator"]
  /\ rApproval' = [rApproval EXCEPT ![r] = a]
  /\ rDecision' = [rDecision EXCEPT ![r] = d]
  /\ UNCHANGED <<storeVars, forgeVars, clientVars, dispatchVars, rTask, rSeen,
                 blind>>

\* GET /approvals/{id} reads a pending row; any other is just answered.
Poll(r, a) ==
  /\ rPc[r] = "idle"
  /\ "forgelink" \in Events
  /\ approvals[a].status = "pending"
  /\ rPc' = [rPc EXCEPT ![r] = "poll"]
  /\ rVia' = [rVia EXCEPT ![r] = "poll"]
  /\ rApproval' = [rApproval EXCEPT ![r] = a]
  /\ UNCHANGED <<storeVars, forgeVars, clientVars, dispatchVars, rDecision,
                 rTask, rSeen, blind>>

\* decision_from_status, for a request ForgeLink knows.
ForgeLinkDecided(a) == forgeLink[a] \in Decision

\* fetch_decision: undecided, unknown and failed all answer the row as read.
FetchDecision(r) ==
  /\ rPc[r] = "poll"
  /\ \/ /\ rApproval[r] \in routed
        /\ ForgeLinkDecided(rApproval[r])
        /\ rDecision' = [rDecision EXCEPT ![r] = forgeLink[rApproval[r]]]
        /\ ResolverStep(r, "resolve")
     \/ /\ ResolverStep(r, "idle")
        /\ UNCHANGED rDecision
  /\ UNCHANGED <<approvals, tasks, decisions, rApproval, rTask, rSeen, blind>>

TasksFor(a) == {t \in DOMAIN tasks : tasks[t].approval = a}

Resolvable_Always(a) == a \in DOMAIN approvals

Resolvable(a) == a \in DOMAIN approvals /\ approvals[a].status = "pending"

\* resolve_approval's UPDATE ... WHERE status='pending'.
Resolve(r) ==
  LET a == rApproval[r]
      after == [approvals EXCEPT ![a].status = rDecision[r]]
  IN  /\ rPc[r] = "resolve"
      /\ UNCHANGED <<tasks, decisions, rApproval, rDecision, rTask, rSeen>>
      /\ \/ /\ Resolvable(a)
            /\ approvals' = after
            /\ blind' = blind \cup {b \in {a} : TasksFor(b) = {}}
            /\ ResolverStep(r, "reread")
         \/ /\ ~Resolvable(a)
            /\ ResolverStep(r, "idle")
            /\ UNCHANGED <<approvals, blind>>
         \/ /\ StoreMayFail
            /\ approvals' \in {approvals} \cup
                              (IF Resolvable(a) THEN {after} ELSE {})
            /\ ResolverStep(r, "idle")
            /\ UNCHANGED blind

Aborted_Audited(r) == "audit"

\* A failed store call from here on ends the handler with an error; a poll
\* only logs it and goes on to its audit event.
Aborted(r) == IF rVia[r] = "poll" THEN "audit" ELSE "idle"

OrAborted(r, to) == {to} \cup (IF StoreMayFail THEN {Aborted(r)} ELSE {})

AfterReread_Done == "audit"

AfterReread == "find"

Reread(r) ==
  /\ rPc[r] = "reread"
  /\ \/ ResolverStep(r, AfterReread)
     \/ StoreMayFail /\ ResolverStep(r, "idle")
  /\ rTask' = [rTask EXCEPT ![r] = 0]
  /\ UNCHANGED <<approvals, tasks, decisions, rApproval, rDecision, rSeen, blind>>

\* record_task_approval_decision: the newest task of the approval, if any.
FindTask(r) ==
  /\ rPc[r] = "find"
  /\ LET found == TasksFor(rApproval[r])
     IN  \/ found = {} /\ ResolverStep(r, "audit") /\ UNCHANGED rTask
         \/ \E t \in found :
              /\ \A u \in found : u <= t
              /\ rTask' = [rTask EXCEPT ![r] = t]
              /\ ResolverStep(r, "read")
         \/ StoreMayFail /\ ResolverStep(r, Aborted(r)) /\ UNCHANGED rTask
  /\ UNCHANGED <<approvals, tasks, decisions, rApproval, rDecision, rSeen, blind>>

\* append_task_policy_decision reads the evidence and writes it back longer.
ReadEvidence(r) ==
  /\ rPc[r] = "read"
  /\ rSeen' = [rSeen EXCEPT ![r] = tasks[rTask[r]].evidence]
  /\ \E to \in OrAborted(r, "write") : ResolverStep(r, to)
  /\ UNCHANGED <<approvals, tasks, decisions, rApproval, rDecision, rTask, blind>>

WriteEvidence(r) ==
  /\ rPc[r] = "write"
  /\ LET after == [tasks EXCEPT
                     ![rTask[r]].evidence = Append(rSeen[r], rDecision[r])]
     IN  \/ /\ tasks' = after
            /\ ResolverStep(r, IF rDecision[r] = "approved" THEN "count"
                               ELSE "audit")
         \/ /\ StoreMayFail
            /\ tasks' \in {tasks, after}
            /\ ResolverStep(r, Aborted(r))
  /\ UNCHANGED <<approvals, decisions, rApproval, rDecision, rTask, rSeen, blind>>

CountApproval(r) ==
  /\ rPc[r] = "count"
  /\ LET after == [tasks EXCEPT ![rTask[r]].received = @ + 1]
     IN  \/ tasks' = after /\ ResolverStep(r, "audit")
         \/ /\ StoreMayFail
            /\ tasks' \in {tasks, after}
            /\ ResolverStep(r, Aborted(r))
  /\ UNCHANGED <<approvals, decisions, rApproval, rDecision, rTask, rSeen, blind>>

\* A poll audits the decision without a task id, an operator with the task
\* the evidence went to.  A dropped event is not reported (see AuditChain).
Audit(r) ==
  /\ rPc[r] = "audit"
  /\ \/ decisions' = Append(decisions,
          [approval |-> rApproval[r], decision |-> rDecision[r], via |-> rVia[r],
           task |-> IF rVia[r] = "operator" THEN rTask[r] ELSE 0])
     \/ StoreMayFail /\ UNCHANGED decisions
  /\ ResolverStep(r, "idle")
  /\ UNCHANGED <<approvals, tasks, rApproval, rDecision, rTask, rSeen, blind>>

\* The resolver's own client is gone: the server drops the handler.
Abandon(r) ==
  /\ "timeout" \in Events
  /\ rPc[r] # "idle"
  /\ ResolverStep(r, "idle")
  /\ UNCHANGED <<approvals, tasks, decisions, rApproval, rDecision, rTask,
                 rSeen, blind>>

HubCrash ==
  /\ "crash" \in Events
  /\ dPc' = [h \in Handler |-> "off"]
  /\ rPc' = [r \in Resolver |-> "idle"]
  /\ UNCHANGED <<storeVars, forgeVars, clientVars, dApproval, rVia, rApproval,
                 rDecision, rTask, rSeen, blind>>

-----------------------------------------------------------------------------
Dispatcher ==
  \/ \E q \in Request : Send(q) \/ Resend(q) \/ GiveUp(q)
  \/ \E h \in Handler : Deliver(h) \/ Drop(h)

Dispatch(h) ==
  ConsumeNonce(h) \/ LookUp(h) \/ InsertApproval(h) \/ InsertTask(h) \/ Route(h)

Begin(r) ==
  \E a \in DOMAIN approvals :
    Poll(r, a) \/ \E d \in Decision : Decide(r, a, d)

Resolving(r) ==
  \/ FetchDecision(r) \/ Resolve(r) \/ Reread(r) \/ FindTask(r)
  \/ ReadEvidence(r) \/ WriteEvidence(r) \/ CountApproval(r) \/ Audit(r)

Next ==
  \/ Dispatcher
  \/ \E h \in Handler : Dispatch(h)
  \/ \E r \in Resolver : Begin(r) \/ Resolving(r) \/ Abandon(r)
  \/ \E a \in routed, d \in Decision : ForgeLinkDecides(a, d)
  \/ HubCrash

Spec == Init /\ [][Next]_vars

\* The hub carries a handler it has begun to its end; nobody owes a decision.
Fairness ==
  /\ \A h \in Handler : WF_vars(Dispatch(h)) /\ WF_vars(Deliver(h))
  /\ \A r \in Resolver : WF_vars(Resolving(r))

FairSpec == Spec /\ Fairness

-----------------------------------------------------------------------------
(* Properties.                                                             *)

\* However often the client repeats a held dispatch and wherever the hub
\* stops, the request leaves at most one approval in the inbox and one task
\* (dispatcher_nonces; the lookup by envelope hash is no protection).
OnePerRequest ==
  /\ \A a, b \in DOMAIN approvals :
       approvals[a].request = approvals[b].request => a = b
  /\ \A t, u \in DOMAIN tasks : tasks[t].approval = tasks[u].approval => t = u

\* A dispatcher that was told "held" has a held task waiting on an approval.
ToldHeldIsHeld ==
  \A q \in Request : told[q] = "held" =>
    \E t \in DOMAIN tasks :
      /\ tasks[t].approval \in DOMAIN approvals
      /\ approvals[tasks[t].approval].request = q

\* The approval row, the task's evidence, its count of approvals and the
\* audit log never tell two decisions of one approval, nor one of them
\* twice, whichever operators and polls race to resolve it.
OneDecision ==
  /\ \A t \in DOMAIN tasks :
       LET a == tasks[t].approval
           e == tasks[t].evidence
       IN  /\ Len(e) <= 1
           /\ Len(e) = 1 => e[1] = approvals[a].status
           /\ tasks[t].received =< (IF e = <<"approved">> THEN 1 ELSE 0)
  /\ \A i \in DOMAIN decisions :
       /\ decisions[i].decision = approvals[decisions[i].approval].status
       /\ \A j \in DOMAIN decisions :
            decisions[i].approval = decisions[j].approval => i = j

Told(a) ==
  \E t \in TasksFor(a) :
    /\ tasks[t].evidence = <<approvals[a].status>>
    /\ approvals[a].status = "approved" => tasks[t].received = 1

\* When nothing fails, a decision made after the task was created reaches
\* the task's evidence and its count, through the inbox or ForgeLink.
DecisionReachesTask ==
  \A a \in 1..Cardinality(Request) :
    (a \in DOMAIN approvals /\ approvals[a].status \in Decision /\ a \notin blind)
      ~> Told(a)

\* An approved task leaves "held", whether or not its brief is repeated with
\* the approval id.
HeldProceeds ==
  \A a \in 1..Cardinality(Request) :
    (a \in DOMAIN approvals /\ approvals[a].status = "approved")
      ~> \E t \in TasksFor(a) : tasks[t].status # "held"

\* An operator's decision is audited under the task it was recorded on,
\* unless it was made before that task was inserted.
AuditedUnderItsTask ==
  \A i \in DOMAIN decisions :
    decisions[i].via = "operator" /\ decisions[i].approval \notin blind =>
      decisions[i].task \in TasksFor(decisions[i].approval)

=============================================================================
