-------------------------- MODULE Approvals_proofs --------------------------
(***************************************************************************)
(* Proofs about Approvals, for any requests, tries and resolvers and for   *)
(* every environment Events may name.                                      *)
(***************************************************************************)
EXTENDS Approvals, SequenceTheorems, TLAPS

LEMMA Appended ==
  ASSUME NEW S, NEW s \in Seq(S), NEW e \in S
  PROVE  /\ Append(s, e) \in Seq(S)
         /\ DOMAIN Append(s, e) = 1..(Len(s) + 1)
         /\ DOMAIN s = 1..Len(s)
         /\ Len(s) \in Nat
         /\ Len(Append(s, e)) = Len(s) + 1
         /\ \A i \in DOMAIN s : Append(s, e)[i] = s[i]
         /\ Append(s, e)[Len(s) + 1] = e
OBVIOUS

LEMMA Updated ==
  ASSUME NEW S, NEW s \in Seq(S), NEW i, NEW e, i \in DOMAIN s => e \in S
  PROVE  /\ [s EXCEPT ![i] = e] \in Seq(S)
         /\ DOMAIN [s EXCEPT ![i] = e] = DOMAIN s
         /\ \A j \in DOMAIN s : [s EXCEPT ![i] = e][j] = IF j = i THEN e ELSE s[j]
<1> DEFINE u == [s EXCEPT ![i] = e]
<1>1. s \in [1..Len(s) -> S] /\ Len(s) \in Nat /\ DOMAIN s = 1..Len(s)
  OBVIOUS
<1>2. u = [j \in 1..Len(s) |-> IF j = i THEN e ELSE s[j]]
  BY <1>1
<1>3. u \in Seq(S)
  <2>1. CASE i \in 1..Len(s)
    BY <1>1, <2>1, ExceptSeq
  <2>2. CASE i \notin 1..Len(s)
    <3>1. u = s
      BY <1>1, <1>2, <2>2
    <3> QED BY <3>1
  <2> QED BY <2>1, <2>2
<1> QED BY <1>1, <1>2, <1>3

-----------------------------------------------------------------------------
(* Types.  A resolver reads the evidence of a task it has found.           *)

FoundTask ==
  \A r \in Resolver :
    rPc[r] \in {"read", "write", "count"} => rTask[r] \in DOMAIN tasks

TypeInv == TypeOK /\ FoundTask

\* The tables after each statement that writes them.
NewApproval(h) ==
  Append(approvals, [request |-> h[1], status |-> "pending"])
NewTask(h) ==
  Append(tasks, [approval |-> dApproval[h], status |-> "held",
                 evidence |-> <<>>, received |-> 0])
Resolved(r) == [approvals EXCEPT ![rApproval[r]].status = rDecision[r]]
WithEvidence(r) ==
  [tasks EXCEPT ![rTask[r]].evidence = Append(rSeen[r], rDecision[r])]
WithCount(r) == [tasks EXCEPT ![rTask[r]].received = @ + 1]

LEMMA NewApprovalType ==
  ASSUME TypeOK, NEW h \in Handler
  PROVE  NewApproval(h) \in Seq(Approval)
<1>1. [request |-> h[1], status |-> "pending"] \in Approval
  BY DEF Handler, Approval
<1> QED BY <1>1, Appended DEF TypeOK, NewApproval

LEMMA NewTaskType ==
  ASSUME TypeOK, NEW h \in Handler
  PROVE  NewTask(h) \in Seq(Task)
<1>1. [approval |-> dApproval[h], status |-> "held",
       evidence |-> <<>>, received |-> 0] \in Task
  BY DEF Task, TypeOK
<1> QED BY <1>1, Appended DEF TypeOK, NewTask

LEMMA ResolvedType ==
  ASSUME TypeOK, NEW r \in Resolver
  PROVE  /\ Resolved(r) \in Seq(Approval)
         /\ DOMAIN Resolved(r) = DOMAIN approvals
         /\ \A a \in DOMAIN approvals :
              /\ Resolved(r)[a].request = approvals[a].request
              /\ Resolved(r)[a].status = IF a = rApproval[r] THEN rDecision[r]
                                         ELSE approvals[a].status
<1> DEFINE e == [approvals[rApproval[r]] EXCEPT !.status = rDecision[r]]
<1>0. \A a \in DOMAIN approvals : approvals[a] \in Approval
  BY DEF TypeOK
<1>1. rApproval[r] \in DOMAIN approvals => e \in Approval
  BY <1>0 DEF TypeOK, Approval
<1>2. Resolved(r) = [approvals EXCEPT ![rApproval[r]] = e]
  BY DEF Resolved
<1>3. approvals \in Seq(Approval)
  BY DEF TypeOK
<1>h. HIDE DEF e
<1>4. /\ Resolved(r) \in Seq(Approval)
      /\ DOMAIN Resolved(r) = DOMAIN approvals
      /\ \A a \in DOMAIN approvals :
           Resolved(r)[a] = IF a = rApproval[r] THEN e ELSE approvals[a]
  BY <1>1, <1>2, <1>3, Updated
<1>5. rApproval[r] \in DOMAIN approvals =>
        e.request = approvals[rApproval[r]].request /\ e.status = rDecision[r]
  BY <1>0 DEF e, Approval
<1> QED BY <1>4, <1>5

LEMMA WithEvidenceType ==
  ASSUME TypeOK, NEW r \in Resolver
  PROVE  /\ WithEvidence(r) \in Seq(Task)
         /\ DOMAIN WithEvidence(r) = DOMAIN tasks
         /\ \A t \in DOMAIN tasks :
              /\ WithEvidence(r)[t].approval = tasks[t].approval
              /\ WithEvidence(r)[t].received = tasks[t].received
              /\ WithEvidence(r)[t].evidence =
                   IF t = rTask[r] THEN Append(rSeen[r], rDecision[r])
                   ELSE tasks[t].evidence
<1> DEFINE e == [tasks[rTask[r]] EXCEPT
                   !.evidence = Append(rSeen[r], rDecision[r])]
<1>0. \A t \in DOMAIN tasks : tasks[t] \in Task
  BY DEF TypeOK
<1>a. Append(rSeen[r], rDecision[r]) \in Seq(Decision)
  BY Appended DEF TypeOK
<1>1. rTask[r] \in DOMAIN tasks => e \in Task
  BY <1>0, <1>a DEF Task
<1>2. WithEvidence(r) = [tasks EXCEPT ![rTask[r]] = e]
  BY DEF WithEvidence
<1>3. tasks \in Seq(Task)
  BY DEF TypeOK
<1>h. HIDE DEF e
<1>4. /\ WithEvidence(r) \in Seq(Task)
      /\ DOMAIN WithEvidence(r) = DOMAIN tasks
      /\ \A t \in DOMAIN tasks :
           WithEvidence(r)[t] = IF t = rTask[r] THEN e ELSE tasks[t]
  BY <1>1, <1>2, <1>3, Updated
<1>5. rTask[r] \in DOMAIN tasks =>
        /\ e.approval = tasks[rTask[r]].approval
        /\ e.received = tasks[rTask[r]].received
        /\ e.evidence = Append(rSeen[r], rDecision[r])
  BY <1>0 DEF e, Task
<1> QED BY <1>4, <1>5

LEMMA WithCountType ==
  ASSUME TypeOK, NEW r \in Resolver
  PROVE  /\ WithCount(r) \in Seq(Task)
         /\ DOMAIN WithCount(r) = DOMAIN tasks
         /\ \A t \in DOMAIN tasks :
              /\ WithCount(r)[t].approval = tasks[t].approval
              /\ WithCount(r)[t].evidence = tasks[t].evidence
              /\ WithCount(r)[t].received =
                   IF t = rTask[r] THEN tasks[t].received + 1
                   ELSE tasks[t].received
<1> DEFINE e == [tasks[rTask[r]] EXCEPT !.received = @ + 1]
<1>0. \A t \in DOMAIN tasks : tasks[t] \in Task
  BY DEF TypeOK
<1>1. rTask[r] \in DOMAIN tasks => e \in Task
  BY <1>0 DEF Task
<1>2. WithCount(r) = [tasks EXCEPT ![rTask[r]] = e]
  BY DEF WithCount
<1>3. tasks \in Seq(Task)
  BY DEF TypeOK
<1>h. HIDE DEF e
<1>4. /\ WithCount(r) \in Seq(Task)
      /\ DOMAIN WithCount(r) = DOMAIN tasks
      /\ \A t \in DOMAIN tasks :
           WithCount(r)[t] = IF t = rTask[r] THEN e ELSE tasks[t]
  BY <1>1, <1>2, <1>3, Updated
<1>5. rTask[r] \in DOMAIN tasks =>
        /\ e.approval = tasks[rTask[r]].approval
        /\ e.evidence = tasks[rTask[r]].evidence
        /\ e.received = tasks[rTask[r]].received + 1
  BY <1>0 DEF e, Task
<1> QED BY <1>4, <1>5

\* The only ways a step changes the approvals table.
LEMMA ApprovalSteps ==
  ASSUME [Next]_vars
  PROVE  \/ UNCHANGED approvals
         \/ \E h \in Handler :
              dPc[h] = "approval" /\ approvals' = NewApproval(h)
         \/ \E r \in Resolver :
              /\ rPc[r] = "resolve" /\ Resolvable(rApproval[r])
              /\ approvals' = Resolved(r)
BY ZenonT(60) DEF Next, vars, storeVars, Dispatcher, Send, Resend, GiveUp, Deliver, Drop,
       Dispatch, DispatchStep, ConsumeNonce, LookUp, InsertApproval, InsertTask,
       Route, Begin, Poll, Decide, Resolving, ResolverStep, FetchDecision,
       Resolve, Reread, FindTask, ReadEvidence, WriteEvidence, CountApproval,
       Audit, Abandon, ForgeLinkDecides, HubCrash, NewApproval, Resolved

\* The only ways a step changes the tasks table.
LEMMA TaskSteps ==
  ASSUME [Next]_vars
  PROVE  \/ UNCHANGED tasks
         \/ \E h \in Handler :
              dPc[h] = "task" /\ tasks' = NewTask(h)
         \/ \E r \in Resolver :
              rPc[r] = "write" /\ tasks' = WithEvidence(r)
         \/ \E r \in Resolver :
              rPc[r] = "count" /\ tasks' = WithCount(r)
BY ZenonT(60) DEF Next, vars, storeVars, Dispatcher, Send, Resend, GiveUp, Deliver, Drop,
       Dispatch, DispatchStep, ConsumeNonce, LookUp, InsertApproval, InsertTask,
       Route, Begin, Poll, Decide, Resolving, ResolverStep, FetchDecision,
       Resolve, Reread, FindTask, ReadEvidence, WriteEvidence, CountApproval,
       Audit, Abandon, ForgeLinkDecides, HubCrash, NewTask, WithEvidence,
       WithCount

LEMMA TablesTyped ==
  ASSUME TypeOK, [Next]_vars
  PROVE  approvals' \in Seq(Approval) /\ tasks' \in Seq(Task)
<1>1. approvals \in Seq(Approval) /\ tasks \in Seq(Task)
  BY DEF TypeOK
<1>2. approvals' \in Seq(Approval)
  BY <1>1, ApprovalSteps, NewApprovalType, ResolvedType
<1>3. tasks' \in Seq(Task)
  BY <1>1, TaskSteps, NewTaskType, WithEvidenceType, WithCountType
<1> QED BY <1>2, <1>3

\* No row is ever deleted.
LEMMA TablesGrow ==
  ASSUME TypeOK, [Next]_vars
  PROVE  /\ DOMAIN approvals \subseteq DOMAIN approvals'
         /\ DOMAIN tasks \subseteq DOMAIN tasks'
<1>1. ASSUME NEW h \in Handler
      PROVE  /\ DOMAIN approvals \subseteq DOMAIN NewApproval(h)
             /\ DOMAIN tasks \subseteq DOMAIN NewTask(h)
  <2>1. /\ [request |-> h[1], status |-> "pending"] \in Approval
        /\ [approval |-> dApproval[h], status |-> "held",
            evidence |-> <<>>, received |-> 0] \in Task
    BY DEF Handler, Approval, Task, TypeOK
  <2>2. approvals \in Seq(Approval) /\ tasks \in Seq(Task)
    BY DEF TypeOK
  <2>3. /\ DOMAIN NewApproval(h) = 1..(Len(approvals) + 1)
        /\ DOMAIN NewTask(h) = 1..(Len(tasks) + 1)
        /\ DOMAIN approvals = 1..Len(approvals) /\ Len(approvals) \in Nat
        /\ DOMAIN tasks = 1..Len(tasks) /\ Len(tasks) \in Nat
    BY <2>1, <2>2, Appended DEF NewApproval, NewTask
  <2> QED BY <2>3
<1>2. DOMAIN approvals \subseteq DOMAIN approvals'
  BY <1>1, ApprovalSteps, ResolvedType
<1>3. DOMAIN tasks \subseteq DOMAIN tasks'
  BY <1>1, TaskSteps, WithEvidenceType, WithCountType
<1> QED BY <1>2, <1>3

LEMMA InitTypeInv == Init => TypeInv
<1> SUFFICES ASSUME Init PROVE TypeInv
  OBVIOUS
<1>1. TypeOK
  BY TriesAssumption DEF Init, TypeOK, Decision
<1>2. FoundTask
  BY DEF Init, FoundTask
<1> QED BY <1>1, <1>2 DEF TypeInv

LEMMA NextTypeInv == TypeInv /\ [Next]_vars => TypeInv'
<1> SUFFICES ASSUME TypeInv, [Next]_vars PROVE TypeInv'
  OBVIOUS
<1> USE DEF TypeInv
<1>1. approvals' \in Seq(Approval) /\ tasks' \in Seq(Task)
  BY TablesTyped
<1>2. DOMAIN tasks \subseteq DOMAIN tasks'
  BY TablesGrow
<1>3. CASE UNCHANGED vars
  BY <1>3 DEF vars, storeVars, forgeVars, clientVars, dispatchVars,
              resolverVars, TypeOK, FoundTask
<1>4. CASE Dispatcher
  <2>1. ASSUME NEW q \in Request, Send(q) PROVE TypeInv'
    BY <1>1, <1>2, <2>1, TriesAssumption
    DEF Send, TypeOK, FoundTask, storeVars, forgeVars, resolverVars, Handler
  <2>2. ASSUME NEW q \in Request, Resend(q) PROVE TypeInv'
    BY <1>1, <1>2, <2>2, TriesAssumption
    DEF Resend, TypeOK, FoundTask, storeVars, forgeVars, resolverVars, Handler
  <2>3. ASSUME NEW q \in Request, GiveUp(q) PROVE TypeInv'
    BY <1>1, <1>2, <2>3
    DEF GiveUp, TypeOK, FoundTask, storeVars, forgeVars, resolverVars,
        dispatchVars
  <2>4. ASSUME NEW h \in Handler, Deliver(h) PROVE TypeInv'
    BY <1>1, <1>2, <2>4
    DEF Deliver, TypeOK, FoundTask, storeVars, forgeVars, resolverVars, Handler
  <2>5. ASSUME NEW h \in Handler, Drop(h) PROVE TypeInv'
    BY <1>1, <1>2, <2>5
    DEF Drop, TypeOK, FoundTask, storeVars, forgeVars, resolverVars, clientVars
  <2> QED BY <1>4, <2>1, <2>2, <2>3, <2>4, <2>5 DEF Dispatcher
<1>5. ASSUME NEW h \in Handler, Dispatch(h) PROVE TypeInv'
  <2> USE DEF DispatchStep, TypeOK, FoundTask, forgeVars, clientVars,
              resolverVars
  <2>1. CASE ConsumeNonce(h)
    <3>1. h[1] \in Request
      BY DEF Handler
    <3>2. nonces' \in SUBSET Request
      BY <2>1, <3>1 DEF ConsumeNonce
    <3>3. dPc' \in [Handler -> {"off", "nonce", "lookup", "approval", "task",
                                "route", "held", "refused"}]
      <4>1. \E to \in {"lookup", "refused"} : dPc' = [dPc EXCEPT ![h] = to]
        BY <2>1 DEF ConsumeNonce
      <4> QED BY <4>1
    <3> QED BY <1>1, <1>2, <2>1, <3>2, <3>3 DEF ConsumeNonce
  <2>2. CASE LookUp(h)
    <3>1. \A a \in PendingFor(h[1]) : a \in Nat
      BY DEF PendingFor
    <3> DEFINE a == IF PendingFor(h[1]) = {} THEN 0
                    ELSE CHOOSE b \in PendingFor(h[1]) : TRUE
    <3>a. a \in Nat
      BY <3>1
    <3>b. dApproval' = [dApproval EXCEPT ![h] = a] \/ UNCHANGED dApproval
      BY <2>2 DEF LookUp
    <3>h. HIDE DEF a
    <3>2. dApproval' \in [Handler -> Nat]
      BY <3>a, <3>b
    <3> QED BY <1>1, <1>2, <2>2, <3>2 DEF LookUp
  <2>3. CASE InsertApproval(h)
    <3>1. Len(approvals') \in Nat
      BY <1>1
    <3>a. \/ dApproval' = [dApproval EXCEPT ![h] = Len(approvals')]
          \/ UNCHANGED dApproval
      BY <2>3 DEF InsertApproval
    <3>2. dApproval' \in [Handler -> Nat]
      BY <3>1, <3>a
    <3> QED BY <1>1, <1>2, <2>3, <3>2 DEF InsertApproval
  <2>4. CASE InsertTask(h)
    BY <1>1, <1>2, <2>4 DEF InsertTask, AfterFailedInsert
  <2>5. CASE Route(h)
    <3>a. dApproval[h] \in Nat
      OBVIOUS
    <3>b. routed' = routed \/ routed' = routed \cup {dApproval[h]}
      BY <2>5 DEF Route
    <3>c. routed \in SUBSET Nat
      OBVIOUS
    <3>1. routed' \in SUBSET Nat
      BY <3>a, <3>b, <3>c
    <3>2. forgeLink' \in [routed' -> {"open"} \cup Decision]
      BY <2>5 DEF Route
    <3> QED BY <1>1, <1>2, <2>5, <3>1, <3>2 DEF Route, storeVars
  <2> QED BY <1>5, <2>1, <2>2, <2>3, <2>4, <2>5 DEF Dispatch
<1>6. ASSUME NEW r \in Resolver, Begin(r) PROVE TypeInv'
  <2> USE DEF TypeOK, FoundTask, storeVars, forgeVars, clientVars, dispatchVars
  <2>1. \A a \in DOMAIN approvals : a \in Nat
    OBVIOUS
  <2>2. ASSUME NEW a \in DOMAIN approvals, Poll(r, a) PROVE TypeInv'
    BY <1>1, <1>2, <2>1, <2>2 DEF Poll
  <2>3. ASSUME NEW a \in DOMAIN approvals, NEW d \in Decision, Decide(r, a, d)
        PROVE  TypeInv'
    BY <1>1, <1>2, <2>1, <2>3 DEF Decide
  <2> QED BY <1>6, <2>2, <2>3 DEF Begin
<1>7. ASSUME NEW r \in Resolver, Resolving(r) \/ Abandon(r) PROVE TypeInv'
  <2> USE DEF ResolverStep, TypeOK, FoundTask, forgeVars, clientVars,
              dispatchVars, Aborted, OrAborted
  <2>1. CASE FetchDecision(r)
    <3>1. \E to \in {"resolve", "idle"} : rPc' = [rPc EXCEPT ![r] = to]
      BY <2>1 DEF FetchDecision
    <3>2. /\ rPc' \in [Resolver -> {"idle", "poll", "resolve", "reread", "find",
                                  "read", "write", "count", "audit"}]
          /\ rDecision' \in [Resolver -> Decision]
      <4>1. /\ rDecision \in [Resolver -> Decision]
            /\ rPc \in [Resolver -> {"idle", "poll", "resolve", "reread", "find",
                                    "read", "write", "count", "audit"}]
        OBVIOUS
      <4> HIDE DEF TypeInv, TypeOK, FoundTask
      <4>2. rDecision' = rDecision \/ \E d \in Decision : rDecision' = [rDecision EXCEPT ![r] = d]
        BY <2>1 DEF FetchDecision, ForgeLinkDecided
      <4>3. rDecision' \in [Resolver -> Decision]
        BY <4>1, <4>2
      <4>4. rPc' \in [Resolver -> {"idle", "poll", "resolve", "reread", "find",
                                 "read", "write", "count", "audit"}]
        BY <3>1, <4>1
      <4> QED BY <4>3, <4>4
    <3>3. UNCHANGED <<nonces, routed, forgeLink, attempt, told, dPc, dApproval, rVia,
                      decisions, tasks, rApproval, rTask, rSeen, blind>>
      BY <2>1 DEF FetchDecision
    <3>4. FoundTask'
      BY <3>1, <3>3
    <3> QED BY <1>1, <3>2, <3>3, <3>4
  <2>2. CASE Resolve(r)
    <3>1. blind' \in SUBSET Nat
      BY <2>2 DEF Resolve
    <3>2. rPc' \in [Resolver -> {"idle", "poll", "resolve", "reread", "find",
                                 "read", "write", "count", "audit"}]
      BY <2>2 DEF Resolve
    <3>3. UNCHANGED tasks /\ rPc'[r] \in {"reread", "idle"}
          /\ \A s \in Resolver \ {r} : rPc'[s] = rPc[s]
      BY <2>2 DEF Resolve
    <3>4. FoundTask'
      BY <2>2, <3>3 DEF Resolve
    <3>5. UNCHANGED <<nonces, routed, forgeLink, attempt, told, dPc, dApproval,
                      rVia, decisions, rApproval, rDecision, rTask, rSeen>>
      BY <2>2 DEF Resolve
    <3> QED BY <1>1, <3>1, <3>2, <3>4, <3>5
  <2>3. CASE Reread(r)
    BY ZenonT(60), <1>1, <1>2, <2>3 DEF Reread, AfterReread
  <2>4. CASE FindTask(r)
    <3>1. \A t \in TasksFor(rApproval[r]) : t \in Nat /\ t \in DOMAIN tasks
      BY DEF TasksFor
    <3>2. /\ rTask' = rTask \/ \E t \in TasksFor(rApproval[r]) : rTask' = [rTask EXCEPT ![r] = t]
          /\ UNCHANGED <<approvals, tasks, decisions, rApproval, rDecision, rSeen, blind>>
      BY <2>4 DEF FindTask
    <3>3. rTask' \in [Resolver -> Nat]
      BY <3>1, <3>2
    <3>4. /\ rPc' \in [Resolver -> {"idle", "poll", "resolve", "reread", "find",
                                  "read", "write", "count", "audit"}]
          /\ \A s \in Resolver \ {r} : rPc'[s] = rPc[s] /\ rTask'[s] = rTask[s]
      BY <2>4, <3>2 DEF FindTask
    <3>5. rPc'[r] \in {"read", "write", "count"} => rTask'[r] \in DOMAIN tasks
      BY <2>4, <3>1 DEF FindTask
    <3>6. FoundTask'
      BY <3>2, <3>4, <3>5
    <3>7. UNCHANGED <<nonces, routed, forgeLink, attempt, told, dPc, dApproval, rVia>>
      BY <2>4 DEF FindTask
    <3> QED BY <1>1, <3>2, <3>3, <3>4, <3>6, <3>7
  <2>5. CASE ReadEvidence(r)
    <3>1. tasks[rTask[r]] \in Task
      BY <2>5 DEF ReadEvidence
    <3>2. tasks[rTask[r]].evidence \in Seq(Decision)
      BY <3>1 DEF Task
    <3> QED BY <1>1, <1>2, <2>5, <3>2 DEF ReadEvidence
  <2>6. CASE WriteEvidence(r)
    BY <1>1, <1>2, <2>6 DEF WriteEvidence
  <2>7. CASE CountApproval(r)
    BY <1>1, <1>2, <2>7 DEF CountApproval
  <2>8. CASE Audit(r)
    <3>1. [approval |-> rApproval[r], decision |-> rDecision[r],
           via |-> rVia[r],
           task |-> IF rVia[r] = "operator" THEN rTask[r] ELSE 0] \in Event
      BY DEF Event
    <3> DEFINE e == [approval |-> rApproval[r], decision |-> rDecision[r],
                     via |-> rVia[r],
                     task |-> IF rVia[r] = "operator" THEN rTask[r] ELSE 0]
    <3>a. decisions' = Append(decisions, e) \/ UNCHANGED decisions
      BY <2>8 DEF Audit
    <3>b. e \in Event /\ decisions \in Seq(Event)
      BY <3>1
    <3>h. HIDE DEF e
    <3>2. decisions' \in Seq(Event)
      <4>1. Append(decisions, e) \in Seq(Event)
        BY ONLY <3>b, Appended
      <4> QED BY ONLY <3>a, <3>b, <4>1
    <3> QED BY <1>1, <1>2, <2>8, <3>2 DEF Audit
  <2>9. CASE Abandon(r)
    BY <1>1, <1>2, <2>9 DEF Abandon
  <2> QED BY <1>7, <2>1, <2>2, <2>3, <2>4, <2>5, <2>6, <2>7, <2>8, <2>9
          DEF Resolving
<1>8. ASSUME NEW a \in routed, NEW d \in Decision, ForgeLinkDecides(a, d)
      PROVE  TypeInv'
  BY <1>1, <1>2, <1>8 DEF ForgeLinkDecides, TypeOK, FoundTask, storeVars,
                          clientVars, dispatchVars, resolverVars
<1>9. CASE HubCrash
  BY <1>1, <1>2, <1>9 DEF HubCrash, TypeOK, FoundTask, storeVars, forgeVars,
                          clientVars
<1> QED BY <1>3, <1>4, <1>5, <1>6, <1>7, <1>8, <1>9 DEF Next

\* Every variable stays in its type.
THEOREM TypeCorrect == Spec => []TypeOK
<1>1. TypeInv => TypeOK
  BY DEF TypeInv
<1> QED BY InitTypeInv, NextTypeInv, <1>1, PTL DEF Spec

-----------------------------------------------------------------------------
(* One approval and one task per request.                                  *)

Past == {"lookup", "approval", "task"}

HasTask(q) ==
  \E t \in DOMAIN tasks :
    /\ tasks[t].approval \in DOMAIN approvals
    /\ approvals[tasks[t].approval].request = q

\* The nonce lets one handler of a request past it, and only once; from then
\* on that handler is the only source of approvals and tasks of the request.
OnceInv ==
  /\ \A h \in Handler : dPc[h] \in Past => h[1] \in nonces
  /\ \A g, h \in Handler :
       g[1] = h[1] /\ dPc[g] \in Past /\ dPc[h] \in Past => g = h
  /\ \A a \in DOMAIN approvals : approvals[a].request \in nonces
  /\ \A h \in Handler : dPc[h] \in {"lookup", "approval"} =>
       \A a \in DOMAIN approvals : approvals[a].request # h[1]
  /\ \A h \in Handler : dPc[h] = "task" =>
       /\ dApproval[h] \in DOMAIN approvals
       /\ approvals[dApproval[h]].request = h[1]
       /\ \A t \in DOMAIN tasks : tasks[t].approval # dApproval[h]
  /\ \A t \in DOMAIN tasks : tasks[t].approval \in DOMAIN approvals
  /\ OnePerRequest

\* A handler on its way to "held" has created the task.
HeldInv ==
  /\ \A h \in Handler : dPc[h] \in {"route", "held"} => HasTask(h[1])
  /\ ToldHeldIsHeld

\* A step that adds no row and takes no handler past its nonce.
Quiet ==
  /\ DOMAIN approvals' = DOMAIN approvals
  /\ DOMAIN tasks' = DOMAIN tasks
  /\ UNCHANGED <<nonces, dApproval>>
  /\ \A h \in Handler :
       \/ dPc'[h] = dPc[h]
       \/ dPc'[h] \in {"off", "nonce", "refused"}
       \/ dPc[h] = "route" /\ dPc'[h] = "held"

\* What a row says of its request or its approval never changes.
LEMMA RowsKept ==
  ASSUME TypeInv, [Next]_vars
  PROVE  /\ \A a \in DOMAIN approvals : approvals'[a].request = approvals[a].request
         /\ \A t \in DOMAIN tasks : tasks'[t].approval = tasks[t].approval
<1> USE DEF TypeInv
<1>1. ASSUME NEW h \in Handler
      PROVE  /\ \A a \in DOMAIN approvals : NewApproval(h)[a] = approvals[a]
             /\ \A t \in DOMAIN tasks : NewTask(h)[t] = tasks[t]
  <2>1. /\ [request |-> h[1], status |-> "pending"] \in Approval
        /\ [approval |-> dApproval[h], status |-> "held",
            evidence |-> <<>>, received |-> 0] \in Task
    BY DEF Handler, Approval, Task, TypeOK
  <2>2. approvals \in Seq(Approval) /\ tasks \in Seq(Task)
    BY DEF TypeOK
  <2> QED BY <2>1, <2>2, Appended DEF NewApproval, NewTask
<1>2. \A a \in DOMAIN approvals : approvals'[a].request = approvals[a].request
  BY <1>1, ApprovalSteps, ResolvedType
<1>3. \A t \in DOMAIN tasks : tasks'[t].approval = tasks[t].approval
  BY <1>1, TaskSteps, WithEvidenceType, WithCountType
<1> QED BY <1>2, <1>3

\* The row a handler adds.
LEMMA AddedRow ==
  ASSUME TypeInv, NEW h \in Handler
  PROVE  /\ Len(approvals) \in Nat
         /\ DOMAIN approvals = 1..Len(approvals)
         /\ Len(NewApproval(h)) = Len(approvals) + 1
         /\ DOMAIN NewApproval(h) = 1..(Len(approvals) + 1)
         /\ \A a \in DOMAIN approvals : NewApproval(h)[a] = approvals[a]
         /\ NewApproval(h)[Len(approvals) + 1].request = h[1]
         /\ NewApproval(h)[Len(approvals) + 1].status = "pending"
         /\ Len(tasks) \in Nat
         /\ DOMAIN tasks = 1..Len(tasks)
         /\ DOMAIN NewTask(h) = 1..(Len(tasks) + 1)
         /\ \A t \in DOMAIN tasks : NewTask(h)[t] = tasks[t]
         /\ NewTask(h)[Len(tasks) + 1].approval = dApproval[h]
         /\ NewTask(h)[Len(tasks) + 1].evidence = <<>>
         /\ NewTask(h)[Len(tasks) + 1].received = 0
<1> DEFINE a == [request |-> h[1], status |-> "pending"]
           t == [approval |-> dApproval[h], status |-> "held",
                 evidence |-> <<>>, received |-> 0]
<1>1. a \in Approval /\ a.request = h[1] /\ a.status = "pending"
  BY DEF Handler, Approval, TypeInv, TypeOK
<1>2. /\ t \in Task /\ t.approval = dApproval[h]
      /\ t.evidence = <<>> /\ t.received = 0
  BY DEF Task, TypeInv, TypeOK
<1>3. approvals \in Seq(Approval) /\ tasks \in Seq(Task)
  BY DEF TypeInv, TypeOK
<1>4. NewApproval(h) = Append(approvals, a) /\ NewTask(h) = Append(tasks, t)
  BY DEF NewApproval, NewTask
<1> HIDE DEF a, t
<1>5. /\ Len(approvals) \in Nat
      /\ DOMAIN approvals = 1..Len(approvals)
      /\ Len(NewApproval(h)) = Len(approvals) + 1
      /\ DOMAIN NewApproval(h) = 1..(Len(approvals) + 1)
      /\ \A i \in DOMAIN approvals : NewApproval(h)[i] = approvals[i]
      /\ NewApproval(h)[Len(approvals) + 1] = a
  BY <1>1, <1>3, <1>4, Appended
<1>6. /\ Len(tasks) \in Nat
      /\ DOMAIN tasks = 1..Len(tasks)
      /\ DOMAIN NewTask(h) = 1..(Len(tasks) + 1)
      /\ \A i \in DOMAIN tasks : NewTask(h)[i] = tasks[i]
      /\ NewTask(h)[Len(tasks) + 1] = t
  BY <1>2, <1>3, <1>4, Appended
<1> QED BY <1>1, <1>2, <1>5, <1>6

LEMMA QuietOnce ==
  ASSUME TypeInv, [Next]_vars, Quiet, OnceInv
  PROVE  OnceInv'
<1>1. /\ \A a \in DOMAIN approvals : approvals'[a].request = approvals[a].request
      /\ \A t \in DOMAIN tasks : tasks'[t].approval = tasks[t].approval
  BY RowsKept
<1>2. \A h \in Handler : dPc'[h] \in Past => dPc[h] = dPc'[h]
  BY DEF Quiet, Past
<1>3. OnePerRequest'
  BY <1>1 DEF OnceInv, OnePerRequest, Quiet
<1>4. \A h \in Handler : dPc'[h] = "task" =>
        /\ dApproval'[h] \in DOMAIN approvals'
        /\ approvals'[dApproval'[h]].request = h[1]
        /\ \A t \in DOMAIN tasks' : tasks'[t].approval # dApproval'[h]
  BY <1>1, <1>2 DEF OnceInv, Quiet, Past
<1>5. \A h \in Handler : dPc'[h] \in {"lookup", "approval"} =>
        \A a \in DOMAIN approvals' : approvals'[a].request # h[1]
  BY <1>1, <1>2 DEF OnceInv, Quiet, Past
<1> QED BY <1>1, <1>2, <1>3, <1>4, <1>5 DEF OnceInv, Quiet

\* Only the four steps that follow the nonce are not quiet.
LEMMA QuietSteps ==
  ASSUME TypeInv, [Next]_vars
  PROVE  \/ Quiet
         \/ \E h \in Handler :
              ConsumeNonce(h) \/ LookUp(h) \/ InsertApproval(h) \/ InsertTask(h)
<1>0. ASSUME NEW r \in Resolver
      PROVE  /\ DOMAIN Resolved(r) = DOMAIN approvals
             /\ DOMAIN WithEvidence(r) = DOMAIN tasks
             /\ DOMAIN WithCount(r) = DOMAIN tasks
  BY ResolvedType, WithEvidenceType, WithCountType DEF TypeInv
<1> USE DEF TypeInv, TypeOK, storeVars, forgeVars, clientVars, dispatchVars,
            resolverVars
<1>1. CASE UNCHANGED vars
  BY <1>1 DEF vars, Quiet
<1>2. CASE Dispatcher
  BY ZenonT(60), <1>2 DEF Dispatcher, Send, Resend, GiveUp, Deliver, Drop, Quiet
<1>3. ASSUME NEW h \in Handler, Route(h) PROVE Quiet
  BY <1>3 DEF Route, Quiet
<1>4. ASSUME NEW r \in Resolver, Begin(r) PROVE Quiet
  BY <1>4 DEF Begin, Poll, Decide, Quiet
<1>5. ASSUME NEW r \in Resolver, Resolving(r) \/ Abandon(r) PROVE Quiet
  <2>1. UNCHANGED <<nonces, dPc, dApproval>>
    BY <1>5 DEF Resolving, Abandon, ResolverStep, FetchDecision, Resolve,
                Reread, FindTask, ReadEvidence, WriteEvidence, CountApproval,
                Audit
  <2>2. \/ UNCHANGED approvals
        \/ approvals' = Resolved(r)
    BY <1>5 DEF Resolving, Abandon, FetchDecision, Resolve, Reread, FindTask,
                ReadEvidence, WriteEvidence, CountApproval, Audit, Resolved
  <2>3. UNCHANGED tasks \/ tasks' = WithEvidence(r) \/ tasks' = WithCount(r)
    BY <1>5 DEF Resolving, Abandon, FetchDecision, Resolve, Reread, FindTask,
                ReadEvidence, WriteEvidence, CountApproval, Audit,
                WithEvidence, WithCount
  <2>4. DOMAIN approvals' = DOMAIN approvals /\ DOMAIN tasks' = DOMAIN tasks
    BY <1>0, <2>2, <2>3
  <2> QED BY <2>1, <2>4 DEF Quiet
<1>6. CASE \E a \in routed, d \in Decision : ForgeLinkDecides(a, d)
  BY <1>6 DEF ForgeLinkDecides, Quiet
<1>7. CASE HubCrash
  BY <1>7 DEF HubCrash, Quiet
<1> QED BY <1>1, <1>2, <1>3, <1>4, <1>5, <1>6, <1>7 DEF Next, Dispatch

LEMMA NextOnceInv ==
  ASSUME TypeInv, [Next]_vars, OnceInv
  PROVE  OnceInv'
<1>1. /\ \A a \in DOMAIN approvals : approvals'[a].request = approvals[a].request
      /\ \A t \in DOMAIN tasks : tasks'[t].approval = tasks[t].approval
  BY RowsKept
<1>2. CASE Quiet
  BY <1>2, QuietOnce
<1>3. ASSUME NEW h \in Handler, ConsumeNonce(h) PROVE OnceInv'
  <2>1. UNCHANGED <<approvals, tasks, dApproval>>
    BY <1>3 DEF ConsumeNonce
  <2>2. /\ nonces \subseteq nonces'
        /\ \A g \in Handler \ {h} : dPc'[g] = dPc[g]
    BY <1>3 DEF ConsumeNonce, DispatchStep, TypeInv, TypeOK
  <2>3. CASE dPc'[h] = "refused"
    BY <2>1, <2>2, <2>3 DEF OnceInv, OnePerRequest, Past
  <2>4. CASE dPc'[h] # "refused"
    <3>1. dPc'[h] = "lookup" /\ h[1] \notin nonces /\ h[1] \in nonces'
      BY <1>3, <2>4 DEF ConsumeNonce, DispatchStep, NonceFresh, TypeInv, TypeOK
    <3>2. \A g \in Handler : dPc[g] \in Past => g[1] # h[1]
      BY <3>1 DEF OnceInv
    <3>3. \A a \in DOMAIN approvals : approvals[a].request # h[1]
      BY <3>1 DEF OnceInv
    <3> QED BY <2>1, <2>2, <3>1, <3>2, <3>3 DEF OnceInv, OnePerRequest, Past
  <2> QED BY <2>3, <2>4
<1>4. ASSUME NEW h \in Handler, LookUp(h) PROVE OnceInv'
  <2>1. /\ UNCHANGED <<approvals, tasks, nonces>> /\ dPc[h] = "lookup"
        /\ \A g \in Handler \ {h} :
             dPc'[g] = dPc[g] /\ dApproval'[g] = dApproval[g]
    BY <1>4 DEF LookUp, DispatchStep, TypeInv, TypeOK
  <2>2. PendingFor(h[1]) = {}
    BY <2>1 DEF OnceInv, PendingFor
  <2>3. dPc'[h] \in {"approval", "refused"}
    BY <1>4, <2>2 DEF LookUp, DispatchStep, TypeInv, TypeOK
  <2> QED BY <2>1, <2>3 DEF OnceInv, OnePerRequest, Past
<1>5. ASSUME NEW h \in Handler, InsertApproval(h) PROVE OnceInv'
  <2> DEFINE n == Len(approvals) + 1
  <2>1. /\ UNCHANGED <<tasks, nonces>> /\ dPc[h] = "approval"
        /\ \A g \in Handler \ {h} :
             dPc'[g] = dPc[g] /\ dApproval'[g] = dApproval[g]
    BY <1>5 DEF InsertApproval, DispatchStep, TypeInv, TypeOK
  <2>2. /\ h[1] \in nonces
        /\ \A a \in DOMAIN approvals : approvals[a].request # h[1]
        /\ \A g \in Handler \ {h} : dPc[g] \in Past => g[1] # h[1]
    BY <2>1 DEF OnceInv, Past
  <2>3. \/ dPc'[h] = "task" /\ approvals' = NewApproval(h)
           /\ dApproval'[h] = Len(NewApproval(h))
        \/ dPc'[h] = "refused" /\ approvals' \in {approvals, NewApproval(h)}
    BY <1>5 DEF InsertApproval, DispatchStep, NewApproval, TypeInv, TypeOK
  <2>4. CASE approvals' = approvals
    <3>1. dPc'[h] = "refused"
      BY <2>3, <2>4, AddedRow
    <3> QED BY <2>1, <2>4, <3>1 DEF OnceInv, OnePerRequest, Past
  <2>5. CASE approvals' = NewApproval(h)
    <3>1. /\ DOMAIN approvals' = DOMAIN approvals \cup {n}
          /\ n \notin DOMAIN approvals
          /\ approvals'[n].request = h[1]
          /\ dPc'[h] = "task" => dApproval'[h] = n
          /\ dPc'[h] \in {"task", "refused"}
      <4>1. /\ Len(approvals) \in Nat
            /\ DOMAIN approvals = 1..Len(approvals)
            /\ DOMAIN approvals' = 1..(Len(approvals) + 1)
            /\ Len(NewApproval(h)) = Len(approvals) + 1
            /\ approvals'[Len(approvals) + 1].request = h[1]
        BY <2>5, AddedRow
      <4>2. /\ DOMAIN approvals' = DOMAIN approvals \cup {n}
            /\ n \notin DOMAIN approvals
        BY ONLY <4>1
      <4> QED BY ONLY <2>3, <4>1, <4>2
    <3> HIDE DEF n
    <3>2. \A t \in DOMAIN tasks : tasks[t].approval # n
      BY <3>1 DEF OnceInv
    <3>3. OnePerRequest'
      BY <1>1, <2>1, <2>2, <3>1 DEF OnceInv, OnePerRequest
    <3>4. \A g \in Handler : dPc'[g] = "task" =>
            /\ dApproval'[g] \in DOMAIN approvals'
            /\ approvals'[dApproval'[g]].request = g[1]
            /\ \A t \in DOMAIN tasks' : tasks'[t].approval # dApproval'[g]
      BY <1>1, <2>1, <3>1, <3>2 DEF OnceInv
    <3>5. \A g \in Handler : dPc'[g] \in {"lookup", "approval"} =>
            \A a \in DOMAIN approvals' : approvals'[a].request # g[1]
      BY <1>1, <2>1, <2>2, <3>1 DEF OnceInv, Past
    <3>6. \A a \in DOMAIN approvals' : approvals'[a].request \in nonces'
      BY <1>1, <2>1, <2>2, <3>1 DEF OnceInv
    <3>7. \A g \in Handler : dPc'[g] \in Past => dPc[g] \in Past
      BY <2>1, <3>1 DEF Past
    <3> QED BY <2>1, <3>1, <3>3, <3>4, <3>5, <3>6, <3>7 DEF OnceInv
  <2> QED BY <2>3, <2>4, <2>5
<1>6. ASSUME NEW h \in Handler, InsertTask(h) PROVE OnceInv'
  <2> DEFINE n == Len(tasks) + 1
  <2>1. /\ UNCHANGED <<approvals, nonces, dApproval>> /\ dPc[h] = "task"
        /\ dPc'[h] \in {"route", "refused"}
        /\ \A g \in Handler \ {h} : dPc'[g] = dPc[g]
        /\ tasks' \in {tasks, NewTask(h)}
    BY <1>6 DEF InsertTask, DispatchStep, NewTask, AfterFailedInsert, TypeInv,
                TypeOK
  <2>2. \A g \in Handler \ {h} : dPc[g] = "task" => dApproval[g] # dApproval[h]
    BY <2>1 DEF OnceInv, Past
  <2>3. CASE tasks' = tasks
    BY <2>1, <2>3 DEF OnceInv, OnePerRequest, Past
  <2>4. CASE tasks' = NewTask(h)
    <3>1. /\ DOMAIN tasks' = DOMAIN tasks \cup {n}
          /\ n \notin DOMAIN tasks
          /\ tasks'[n].approval = dApproval[h]
      <4>1. /\ Len(tasks) \in Nat
            /\ DOMAIN tasks = 1..Len(tasks)
            /\ DOMAIN tasks' = 1..(Len(tasks) + 1)
            /\ tasks'[Len(tasks) + 1].approval = dApproval[h]
        BY <2>4, AddedRow
      <4> QED BY ONLY <4>1
    <3> HIDE DEF n
    <3>2. /\ dApproval[h] \in DOMAIN approvals
          /\ \A t \in DOMAIN tasks : tasks[t].approval # dApproval[h]
      BY <2>1 DEF OnceInv
    <3>3. OnePerRequest'
      BY <1>1, <2>1, <3>1, <3>2 DEF OnceInv, OnePerRequest
    <3>4. \A g \in Handler : dPc'[g] = "task" =>
            /\ dApproval'[g] \in DOMAIN approvals'
            /\ approvals'[dApproval'[g]].request = g[1]
            /\ \A t \in DOMAIN tasks' : tasks'[t].approval # dApproval'[g]
      BY <1>1, <2>1, <2>2, <3>1 DEF OnceInv
    <3>5. \A t \in DOMAIN tasks' : tasks'[t].approval \in DOMAIN approvals'
      BY <1>1, <2>1, <3>1, <3>2 DEF OnceInv
    <3>6. \A g \in Handler : dPc'[g] \in Past =>
            dPc'[g] = dPc[g] /\ dPc[g] \in Past
      BY <2>1 DEF Past
    <3> QED BY <2>1, <3>3, <3>4, <3>5, <3>6 DEF OnceInv, Past
  <2> QED BY <2>1, <2>3, <2>4
<1> QED BY <1>2, <1>3, <1>4, <1>5, <1>6, QuietSteps

LEMMA InitOnceInv == Init => OnceInv
BY DEF Init, OnceInv, OnePerRequest, Past

\* One approval and one task per request, in any environment.
THEOREM OnePerRequestHolds == Spec => []OnePerRequest
<1>1. OnceInv => OnePerRequest
  BY DEF OnceInv
<1>2. Init => TypeInv /\ OnceInv
  BY InitTypeInv, InitOnceInv
<1>3. TypeInv /\ OnceInv /\ [Next]_vars => (TypeInv /\ OnceInv)'
  BY NextTypeInv, NextOnceInv
<1> QED BY <1>1, <1>2, <1>3, PTL DEF Spec

-----------------------------------------------------------------------------
(* What a dispatcher is told.                                              *)

LEMMA HasTaskKept ==
  ASSUME TypeInv, [Next]_vars, NEW q, HasTask(q)
  PROVE  HasTask(q)'
BY RowsKept, TablesGrow DEF HasTask, TypeInv

LEMMA NextHeldInv ==
  ASSUME TypeInv, [Next]_vars, OnceInv, OnceInv', HeldInv
  PROVE  HeldInv'
<1>1. ASSUME NEW h \in Handler, dPc'[h] \in {"route", "held"} PROVE HasTask(h[1])'
  <2>1. CASE dPc[h] \in {"route", "held"}
    BY <2>1, HasTaskKept DEF HeldInv
  <2>2. CASE dPc[h] \notin {"route", "held"}
    <3>1. ASSUME NEW g \in Handler,
                 ConsumeNonce(g) \/ LookUp(g) \/ InsertApproval(g)
          PROVE  FALSE
      BY <1>1, <2>2, <3>1 DEF ConsumeNonce, LookUp, InsertApproval,
         DispatchStep, TypeInv, TypeOK
    <3>2. ~Quiet
      BY <1>1, <2>2 DEF Quiet
    <3>3. PICK g \in Handler : InsertTask(g)
      BY <3>1, <3>2, QuietSteps
    <3>4. g = h /\ dPc[h] = "task"
      BY <1>1, <2>2, <3>3 DEF InsertTask, DispatchStep, TypeInv, TypeOK
    <3>5. tasks' = NewTask(h) /\ UNCHANGED approvals
      BY <1>1, <3>3, <3>4 DEF InsertTask, DispatchStep, NewTask,
         AfterFailedInsert, TypeInv, TypeOK
    <3>6. /\ dApproval[h] \in DOMAIN approvals
          /\ approvals[dApproval[h]].request = h[1]
      BY <3>4 DEF OnceInv
    <3>7. /\ Len(tasks) \in Nat
          /\ DOMAIN tasks' = 1..(Len(tasks) + 1)
          /\ tasks'[Len(tasks) + 1].approval = dApproval[h]
      BY <3>5, AddedRow
    <3>8. Len(tasks) + 1 \in DOMAIN tasks'
      BY ONLY <3>7
    <3> QED BY <3>5, <3>6, <3>7, <3>8 DEF HasTask
  <2> QED BY <2>1, <2>2
<1>2. ASSUME NEW q \in Request, told'[q] = "held" PROVE HasTask(q)'
  <2>1. CASE told[q] = "held"
    BY <2>1, HasTaskKept DEF HeldInv, ToldHeldIsHeld, HasTask
  <2>2. CASE told[q] # "held"
    <3>1. \E h \in Handler : h[1] = q /\ dPc[h] = "held"
      BY ZenonT(60), <1>2, <2>2
      DEF Next, vars, clientVars, Dispatcher, Send, Resend, GiveUp, Deliver,
          Drop, Dispatch, DispatchStep, ConsumeNonce, LookUp, InsertApproval,
          InsertTask, Route, Begin, Poll, Decide, Resolving, ResolverStep,
          FetchDecision, Resolve, Reread, FindTask, ReadEvidence,
          WriteEvidence, CountApproval, Audit, Abandon, ForgeLinkDecides,
          HubCrash, TypeInv, TypeOK
    <3> QED BY <3>1, HasTaskKept DEF HeldInv
  <2> QED BY <2>1, <2>2
<1>3. ToldHeldIsHeld'
  BY <1>2 DEF ToldHeldIsHeld, HasTask
<1> QED BY <1>1, <1>3 DEF HeldInv

LEMMA InitHeldInv == Init => HeldInv
BY DEF Init, HeldInv, ToldHeldIsHeld

\* A dispatcher told "held" has a held task.
THEOREM ToldHeldIsHeldHolds == Spec => []ToldHeldIsHeld
<1>1. HeldInv => ToldHeldIsHeld
  BY DEF HeldInv
<1>2. Init => TypeInv /\ OnceInv /\ HeldInv
  BY InitTypeInv, InitOnceInv, InitHeldInv
<1>3. TypeInv /\ OnceInv /\ HeldInv /\ [Next]_vars
        => (TypeInv /\ OnceInv /\ HeldInv)'
  BY NextTypeInv, NextOnceInv, NextHeldInv
<1> QED BY <1>1, <1>2, <1>3, PTL DEF Spec

-----------------------------------------------------------------------------
(* One decision per approval.                                              *)

\* A resolver whose UPDATE found the approval pending.
Won == {"reread", "find", "read", "write", "count", "audit"}

Untouched(a) ==
  \A t \in DOMAIN tasks : tasks[t].approval = a =>
    tasks[t].evidence = <<>> /\ tasks[t].received = 0

Unaudited(a) == \A i \in DOMAIN decisions : decisions[i].approval # a

\* The winner of an approval is alone, holds the decision its row shows, and
\* finds the task and the log as the others left them: without a decision.
DecInv ==
  /\ \A r \in Resolver : rPc[r] \in Won =>
       /\ rApproval[r] \in DOMAIN approvals
       /\ approvals[rApproval[r]].status = rDecision[r]
       /\ Unaudited(rApproval[r])
  /\ \A r, s \in Resolver :
       rPc[r] \in Won /\ rPc[s] \in Won /\ rApproval[r] = rApproval[s] => r = s
  /\ \A r \in Resolver :
       rPc[r] \in {"reread", "find", "read", "write"} => Untouched(rApproval[r])
  /\ \A r \in Resolver : rPc[r] \in {"read", "write", "count"} =>
       tasks[rTask[r]].approval = rApproval[r]
  /\ \A r \in Resolver : rPc[r] = "write" => rSeen[r] = <<>>
  /\ \A r \in Resolver : rPc[r] = "count" =>
       /\ rDecision[r] = "approved"
       /\ tasks[rTask[r]].evidence = <<"approved">>
       /\ tasks[rTask[r]].received = 0
  /\ \A a \in DOMAIN approvals : approvals[a].status = "pending" =>
       Untouched(a) /\ Unaudited(a)
  /\ \A i \in DOMAIN decisions : decisions[i].approval \in DOMAIN approvals
  /\ OneDecision

\* A step that decides nothing and moves no winner, except to its end.
Aside ==
  /\ UNCHANGED decisions
  /\ \A a \in DOMAIN approvals : approvals'[a].status = approvals[a].status
  /\ \A a \in DOMAIN approvals' \ DOMAIN approvals :
       approvals'[a].status = "pending"
  /\ \A t \in DOMAIN tasks :
       /\ tasks'[t].evidence = tasks[t].evidence
       /\ tasks'[t].received = tasks[t].received
  /\ \A t \in DOMAIN tasks' \ DOMAIN tasks :
       tasks'[t].evidence = <<>> /\ tasks'[t].received = 0
  /\ \A r \in Resolver : rPc'[r] \in Won =>
       /\ rPc'[r] = rPc[r] /\ rApproval'[r] = rApproval[r]
       /\ rDecision'[r] = rDecision[r] /\ rTask'[r] = rTask[r]
       /\ rSeen'[r] = rSeen[r]

Winning(r) ==
  \/ Resolve(r) \/ Reread(r) \/ FindTask(r) \/ ReadEvidence(r)
  \/ WriteEvidence(r) \/ CountApproval(r) \/ Audit(r)

LEMMA NewRowsAside ==
  ASSUME TypeInv, NEW h \in Handler
  PROVE  /\ approvals' = NewApproval(h) =>
              /\ \A a \in DOMAIN approvals :
                   approvals'[a].status = approvals[a].status
              /\ \A a \in DOMAIN approvals' \ DOMAIN approvals :
                   approvals'[a].status = "pending"
         /\ tasks' = NewTask(h) =>
              /\ \A t \in DOMAIN tasks :
                   /\ tasks'[t].evidence = tasks[t].evidence
                   /\ tasks'[t].received = tasks[t].received
              /\ \A t \in DOMAIN tasks' \ DOMAIN tasks :
                   tasks'[t].evidence = <<>> /\ tasks'[t].received = 0
<1>1. /\ Len(approvals) \in Nat
      /\ DOMAIN approvals = 1..Len(approvals)
      /\ DOMAIN NewApproval(h) = 1..(Len(approvals) + 1)
      /\ Len(tasks) \in Nat
      /\ DOMAIN tasks = 1..Len(tasks)
      /\ DOMAIN NewTask(h) = 1..(Len(tasks) + 1)
  BY AddedRow
<1>2. /\ DOMAIN NewApproval(h) \ DOMAIN approvals = {Len(approvals) + 1}
      /\ DOMAIN NewTask(h) \ DOMAIN tasks = {Len(tasks) + 1}
  BY ONLY <1>1
<1> QED BY <1>2, AddedRow

LEMMA AsideSteps ==
  ASSUME TypeInv, [Next]_vars
  PROVE  Aside \/ \E r \in Resolver : Winning(r)
<1> DEFINE StillTables ==
             /\ \A a \in DOMAIN approvals :
                  approvals'[a].status = approvals[a].status
             /\ \A a \in DOMAIN approvals' \ DOMAIN approvals :
                  approvals'[a].status = "pending"
             /\ \A t \in DOMAIN tasks :
                  /\ tasks'[t].evidence = tasks[t].evidence
                  /\ tasks'[t].received = tasks[t].received
             /\ \A t \in DOMAIN tasks' \ DOMAIN tasks :
                  tasks'[t].evidence = <<>> /\ tasks'[t].received = 0
<1>0. UNCHANGED <<approvals, tasks>> => StillTables
  OBVIOUS
<1>1. ASSUME NEW h \in Handler, Dispatch(h) PROVE Aside
  <2>1. UNCHANGED <<decisions, resolverVars>>
    BY <1>1 DEF Dispatch, DispatchStep, ConsumeNonce, LookUp, InsertApproval,
                InsertTask, Route, storeVars
  <2>2. \/ UNCHANGED <<approvals, tasks>>
        \/ approvals' = NewApproval(h) /\ UNCHANGED tasks
        \/ tasks' = NewTask(h) /\ UNCHANGED approvals
    BY <1>1 DEF Dispatch, DispatchStep, ConsumeNonce, LookUp, InsertApproval,
                InsertTask, Route, storeVars, NewApproval, NewTask
  <2>3. StillTables
    BY <2>2, NewRowsAside
  <2> QED BY <2>1, <2>3 DEF Aside, resolverVars
<1>2. ASSUME UNCHANGED <<approvals, tasks, decisions, resolverVars>> PROVE Aside
  BY <1>2 DEF Aside, resolverVars
<1>3. CASE Dispatcher \/ UNCHANGED vars
           \/ \E a \in routed, d \in Decision : ForgeLinkDecides(a, d)
  BY <1>2, <1>3 DEF Dispatcher, Send, Resend, GiveUp, Deliver, Drop,
                    ForgeLinkDecides, vars, storeVars
<1>4. CASE HubCrash
  BY <1>4 DEF HubCrash, storeVars, Aside, Won
<1>5. ASSUME NEW r \in Resolver, Begin(r) \/ FetchDecision(r) \/ Abandon(r)
      PROVE  Aside
  <2>1. /\ UNCHANGED <<approvals, tasks, decisions>>
        /\ rPc'[r] \in {"resolve", "poll", "idle"}
        /\ \A s \in Resolver \ {r} :
             /\ rPc'[s] = rPc[s] /\ rApproval'[s] = rApproval[s]
             /\ rDecision'[s] = rDecision[s] /\ rTask'[s] = rTask[s]
             /\ rSeen'[s] = rSeen[s]
    BY <1>5 DEF Begin, Poll, Decide, FetchDecision, Abandon, ResolverStep,
                storeVars, TypeInv, TypeOK
  <2> QED BY <2>1 DEF Aside, Won
<1> QED BY <1>1, <1>3, <1>4, <1>5 DEF Next, Resolving, Winning

LEMMA AsideDec ==
  ASSUME TypeInv, TypeInv', [Next]_vars, Aside, OnceInv, OnceInv', DecInv
  PROVE  DecInv'
<1>1. /\ DOMAIN approvals \subseteq DOMAIN approvals'
      /\ DOMAIN tasks \subseteq DOMAIN tasks'
  BY TablesGrow DEF TypeInv
<1>2. \A t \in DOMAIN tasks : tasks'[t].approval = tasks[t].approval
  BY RowsKept
<1>3. \A a : Untouched(a) => Untouched(a)'
  BY <1>1, <1>2 DEF Untouched, Aside
<1>4. \A a : Unaudited(a) => Unaudited(a)'
  BY DEF Unaudited, Aside
<1>5. \A t \in DOMAIN tasks : tasks[t].approval \in DOMAIN approvals
  BY DEF OnceInv
<1>6. \A a \in DOMAIN approvals' \ DOMAIN approvals :
        Untouched(a)' /\ Unaudited(a)'
  <2>1. ASSUME NEW a \in DOMAIN approvals' \ DOMAIN approvals
        PROVE  Untouched(a) /\ Unaudited(a)
    BY <2>1, <1>5 DEF Untouched, Unaudited, DecInv
  <2> QED BY <2>1, <1>3, <1>4
<1>7. OneDecision'
  <2>1. ASSUME NEW t \in DOMAIN tasks'
        PROVE  LET a == tasks'[t].approval
                   e == tasks'[t].evidence
               IN  /\ Len(e) <= 1
                   /\ Len(e) = 1 => e[1] = approvals'[a].status
                   /\ tasks'[t].received =<
                        (IF e = <<"approved">> THEN 1 ELSE 0)
    <3>1. CASE t \in DOMAIN tasks
      BY <3>1, <1>2, <1>5 DEF Aside, DecInv, OneDecision
    <3>2. CASE t \notin DOMAIN tasks
      <4>1. tasks'[t].evidence = <<>> /\ tasks'[t].received = 0
        BY <2>1, <3>2 DEF Aside
      <4> QED BY <4>1
    <3> QED BY <3>1, <3>2
  <2>2. \A j \in DOMAIN decisions' :
          /\ decisions'[j].decision = approvals'[decisions'[j].approval].status
          /\ \A k \in DOMAIN decisions' :
               decisions'[j].approval = decisions'[k].approval => j = k
    BY DEF Aside, DecInv, OneDecision
  <2> QED BY <2>1, <2>2 DEF OneDecision
<1>8. \A r \in Resolver : rPc'[r] \in Won =>
        /\ rApproval'[r] \in DOMAIN approvals'
        /\ approvals'[rApproval'[r]].status = rDecision'[r]
        /\ Unaudited(rApproval[r])'
  BY <1>1, <1>4 DEF Aside, DecInv
<1>10. \A r, s \in Resolver :
         rPc'[r] \in Won /\ rPc'[s] \in Won /\ rApproval'[r] = rApproval'[s]
           => r = s
  BY DEF Aside, DecInv
<1>11. ASSUME NEW r \in Resolver,
               rPc'[r] \in {"reread", "find", "read", "write"}
       PROVE  Untouched(rApproval[r])'
  <2>1. rApproval'[r] = rApproval[r] /\ Untouched(rApproval[r])
    BY <1>11 DEF Aside, DecInv, Won
  <2>2. PICK a : a = rApproval[r]
    OBVIOUS
  <2>3. Untouched(a)'
    BY <1>3, <2>1, <2>2
  <2> QED BY <2>1, <2>2, <2>3 DEF Untouched
<1>12. \A r \in Resolver : rPc'[r] \in {"read", "write", "count"} =>
         /\ tasks'[rTask'[r]].approval = rApproval'[r]
         /\ tasks'[rTask'[r]].evidence = tasks[rTask[r]].evidence
         /\ tasks'[rTask'[r]].received = tasks[rTask[r]].received
  BY <1>2 DEF Aside, DecInv, TypeInv, FoundTask, Won
<1>13. \A r \in Resolver :
         /\ rPc'[r] = "write" => rSeen'[r] = <<>>
         /\ rPc'[r] = "count" =>
              /\ rDecision'[r] = "approved"
              /\ tasks'[rTask'[r]].evidence = <<"approved">>
              /\ tasks'[rTask'[r]].received = 0
  <2>1. SUFFICES ASSUME NEW r \in Resolver
                 PROVE  /\ rPc'[r] = "write" => rSeen'[r] = <<>>
                        /\ rPc'[r] = "count" =>
                             /\ rDecision'[r] = "approved"
                             /\ tasks'[rTask'[r]].evidence = <<"approved">>
                             /\ tasks'[rTask'[r]].received = 0
    OBVIOUS
  <2>2. rPc'[r] \in {"write", "count"} =>
          /\ rPc[r] = rPc'[r]
          /\ rDecision'[r] = rDecision[r]
          /\ rSeen'[r] = rSeen[r]
    BY DEF Aside, Won
  <2>3. /\ rPc[r] = "write" => rSeen[r] = <<>>
        /\ rPc[r] = "count" =>
             /\ rDecision[r] = "approved"
             /\ tasks[rTask[r]].evidence = <<"approved">>
             /\ tasks[rTask[r]].received = 0
    BY DEF DecInv
  <2>4. rPc'[r] = "count" =>
          /\ tasks'[rTask'[r]].evidence = tasks[rTask[r]].evidence
          /\ tasks'[rTask'[r]].received = tasks[rTask[r]].received
    BY <1>12
  <2> QED BY ONLY <2>2, <2>3, <2>4
<1>14. \A a \in DOMAIN approvals' : approvals'[a].status = "pending" =>
         Untouched(a)' /\ Unaudited(a)'
  BY <1>3, <1>4, <1>6 DEF Aside, DecInv
<1>15. \A j \in DOMAIN decisions' :
         decisions'[j].approval \in DOMAIN approvals'
  BY <1>1 DEF Aside, DecInv
<1> QED BY <1>7, <1>8, <1>10, <1>11, <1>12, <1>13, <1>14, <1>15 DEF DecInv

-----------------------------------------------------------------------------
(* The steps of a resolver that may decide.                                *)

OthersKept(r) ==
  \A s \in Resolver \ {r} :
    /\ rPc'[s] = rPc[s] /\ rApproval'[s] = rApproval[s]
    /\ rDecision'[s] = rDecision[s] /\ rTask'[s] = rTask[s]
    /\ rSeen'[s] = rSeen[s]

LEMMA WinningFrame ==
  ASSUME TypeInv, NEW r \in Resolver, Winning(r)
  PROVE  /\ OthersKept(r)
         /\ rApproval'[r] = rApproval[r] /\ rDecision'[r] = rDecision[r]
BY DEF Winning, OthersKept, ResolverStep, Resolve, Reread, FindTask,
       ReadEvidence, WriteEvidence, CountApproval, Audit, TypeInv, TypeOK

\* Reading steps: the tables stay, and only r's program counter, task and
\* copy of the evidence change.
Reads(r) ==
  /\ UNCHANGED <<approvals, tasks, decisions>>
  /\ rPc'[r] \in Won => rPc[r] \in Won

LEMMA ReadDec ==
  ASSUME TypeInv, TypeInv', NEW r \in Resolver, DecInv, Reads(r), OthersKept(r),
         rApproval'[r] = rApproval[r], rDecision'[r] = rDecision[r],
         rPc'[r] \in {"reread", "find", "read", "write"}
           => rPc[r] \in {"reread", "find", "read", "write"},
         rPc'[r] \in {"read", "write"}
           => tasks[rTask'[r]].approval = rApproval[r],
         rPc'[r] = "write" => rSeen'[r] = <<>>,
         rPc'[r] # "count"
  PROVE  DecInv'
<1>1. \A a : (Untouched(a)' <=> Untouched(a)) /\ (Unaudited(a)' <=> Unaudited(a))
  BY DEF Untouched, Unaudited, Reads
<1>2. OneDecision'
  BY DEF DecInv, OneDecision, Reads
<1>3. \A s \in Resolver : rApproval'[s] = rApproval[s] /\ rDecision'[s] = rDecision[s]
  BY DEF OthersKept
<1>4. \A s \in Resolver :
        /\ rPc'[s] \in Won => rPc[s] \in Won
        /\ rPc'[s] \in {"reread", "find", "read", "write"}
             => rPc[s] \in {"reread", "find", "read", "write"}
  BY DEF OthersKept, Reads
<1>5. \A s \in Resolver : rPc'[s] \in Won =>
        /\ rApproval'[s] \in DOMAIN approvals'
        /\ approvals'[rApproval'[s]].status = rDecision'[s]
        /\ Unaudited(rApproval[s])'
  BY <1>3, <1>4 DEF DecInv, Reads, Unaudited
<1>6. \A s \in Resolver : rPc'[s] \in {"reread", "find", "read", "write"} =>
        Untouched(rApproval[s])'
  BY <1>3, <1>4 DEF DecInv, Reads, Untouched
<1>7. \A s, u \in Resolver :
        rPc'[s] \in Won /\ rPc'[u] \in Won /\ rApproval'[s] = rApproval'[u] => s = u
  BY <1>3, <1>4 DEF DecInv
<1>8. \A s \in Resolver :
        /\ rPc'[s] \in {"read", "write", "count"} =>
             tasks'[rTask'[s]].approval = rApproval'[s]
        /\ rPc'[s] = "write" => rSeen'[s] = <<>>
        /\ rPc'[s] = "count" =>
             /\ rDecision'[s] = "approved"
             /\ tasks'[rTask'[s]].evidence = <<"approved">>
             /\ tasks'[rTask'[s]].received = 0
  BY <1>3 DEF DecInv, Reads, OthersKept
<1>9. \A a \in DOMAIN approvals' : approvals'[a].status = "pending" =>
        Untouched(a)' /\ Unaudited(a)'
  BY <1>1 DEF DecInv, Reads
<1>10. \A i \in DOMAIN decisions' : decisions'[i].approval \in DOMAIN approvals'
  BY DEF DecInv, Reads
<1> QED BY <1>2, <1>5, <1>6, <1>7, <1>8, <1>9, <1>10 DEF DecInv


LEMMA ResolveDec ==
  ASSUME TypeInv, TypeInv', NEW r \in Resolver, Resolve(r), OnceInv, DecInv
  PROVE  DecInv'
<1> DEFINE a == rApproval[r]
<1>1. OthersKept(r) /\ rApproval'[r] = rApproval[r] /\ rDecision'[r] = rDecision[r]
  BY WinningFrame DEF Winning
<1>2. /\ UNCHANGED <<tasks, decisions, rTask, rSeen>>
      /\ \/ UNCHANGED approvals /\ rPc'[r] = "idle"
         \/ /\ Resolvable(a) /\ approvals' = Resolved(r)
            /\ rPc'[r] \in {"reread", "idle"}
  BY DEF Resolve, ResolverStep, Resolved, TypeInv, TypeOK
<1>3. CASE UNCHANGED approvals /\ rPc'[r] = "idle"
  BY <1>1, <1>2, <1>3, ReadDec DEF Reads, Won
<1>4. CASE /\ Resolvable(a) /\ approvals' = Resolved(r)
           /\ rPc'[r] \in {"reread", "idle"}
  <2>1. /\ a \in DOMAIN approvals /\ approvals[a].status = "pending"
        /\ Untouched(a) /\ Unaudited(a)
    BY <1>4 DEF Resolvable, DecInv
  <2>2. /\ DOMAIN approvals' = DOMAIN approvals
        /\ \A b \in DOMAIN approvals :
             approvals'[b].status = IF b = a THEN rDecision[r]
                                    ELSE approvals[b].status
    BY <1>4, ResolvedType DEF TypeInv
  <2>3. \A b : /\ Untouched(b)' <=> Untouched(b)
               /\ Unaudited(b)' <=> Unaudited(b)
    BY <1>2 DEF Untouched, Unaudited
  <2>4. \A s \in Resolver : rDecision[s] # "pending"
    BY DEF TypeInv, TypeOK, Decision
  <2>5. \A s \in Resolver : rPc[s] \in Won => rApproval[s] # a
    BY <2>1, <2>4 DEF DecInv
  <2>6. \A s \in Resolver :
          rApproval'[s] = rApproval[s] /\ rDecision'[s] = rDecision[s]
    BY <1>1 DEF OthersKept
  <2>7. \A s \in Resolver \ {r} : rPc'[s] = rPc[s]
    BY <1>1 DEF OthersKept
  <2>8. \A s \in Resolver : rPc'[s] \in Won =>
          /\ rApproval'[s] \in DOMAIN approvals'
          /\ approvals'[rApproval'[s]].status = rDecision'[s]
    BY <2>1, <2>2, <2>5, <2>6, <2>7 DEF DecInv
  <2>9. \A s \in Resolver : rPc'[s] \in Won => Unaudited(rApproval[s])'
    BY <1>2, <2>1, <2>6, <2>7 DEF DecInv, Unaudited
  <2>10. \A s, u \in Resolver :
           rPc'[s] \in Won /\ rPc'[u] \in Won /\ rApproval'[s] = rApproval'[u]
             => s = u
    BY <2>5, <2>6, <2>7 DEF DecInv
  <2>11. \A s \in Resolver :
           rPc'[s] \in {"reread", "find", "read", "write"} =>
             Untouched(rApproval[s])'
    BY <1>2, <2>1, <2>6, <2>7 DEF DecInv, Untouched
  <2>12. \A s \in Resolver :
           /\ rPc'[s] \in {"read", "write", "count"} =>
                tasks'[rTask'[s]].approval = rApproval'[s]
           /\ rPc'[s] = "write" => rSeen'[s] = <<>>
           /\ rPc'[s] = "count" =>
                /\ rDecision'[s] = "approved"
                /\ tasks'[rTask'[s]].evidence = <<"approved">>
                /\ tasks'[rTask'[s]].received = 0
    BY <1>2, <1>4, <2>6, <2>7 DEF DecInv
  <2>13. \A b \in DOMAIN approvals' : approvals'[b].status = "pending" =>
           Untouched(b)' /\ Unaudited(b)'
    BY <2>2, <2>3, <2>4 DEF DecInv
  <2>14. \A j \in DOMAIN decisions' :
           decisions'[j].approval \in DOMAIN approvals'
    BY <1>2, <2>2 DEF DecInv
  <2>15. OneDecision'
    <3>1. ASSUME NEW t \in DOMAIN tasks
          PROVE  LET e == tasks[t].evidence
                 IN  /\ Len(e) <= 1
                     /\ Len(e) = 1 => e[1] = approvals'[tasks[t].approval].status
                     /\ tasks[t].received =<
                          (IF e = <<"approved">> THEN 1 ELSE 0)
      <4>1. tasks[t].approval \in DOMAIN approvals
        BY DEF OnceInv
      <4>2. CASE tasks[t].approval = a
        <5>1. tasks[t].evidence = <<>> /\ tasks[t].received = 0
          BY <2>1, <4>2 DEF Untouched
        <5> QED BY <5>1
      <4>3. CASE tasks[t].approval # a
        BY <2>2, <4>1, <4>3 DEF DecInv, OneDecision
      <4> QED BY <4>2, <4>3
    <3>2. \A j \in DOMAIN decisions :
            /\ decisions[j].decision = approvals'[decisions[j].approval].status
            /\ \A k \in DOMAIN decisions :
                 decisions[j].approval = decisions[k].approval => j = k
      BY <2>1, <2>2 DEF DecInv, OneDecision, Unaudited
    <3> QED BY <1>2, <3>1, <3>2 DEF OneDecision
  <2> QED BY <2>8, <2>9, <2>10, <2>11, <2>12, <2>13, <2>14, <2>15 DEF DecInv
<1> QED BY <1>2, <1>3, <1>4

LEMMA ReadingDec ==
  ASSUME TypeInv, TypeInv', NEW r \in Resolver, DecInv,
         Reread(r) \/ FindTask(r) \/ ReadEvidence(r)
  PROVE  DecInv'
<1>1. OthersKept(r) /\ rApproval'[r] = rApproval[r] /\ rDecision'[r] = rDecision[r]
  BY WinningFrame DEF Winning
<1>2. CASE Reread(r)
  <2>1. rPc[r] = "reread" /\ rPc'[r] \in {"find", "idle"}
    BY <1>2 DEF Reread, AfterReread, ResolverStep, TypeInv, TypeOK
  <2>2. Reads(r)
    BY <1>2, <2>1 DEF Reread, Reads, Won
  <2> QED BY <1>1, <2>1, <2>2, ReadDec
<1>3. CASE FindTask(r)
  <2>1. /\ rPc[r] = "find" /\ rPc'[r] \in {"read", "audit", "idle"}
        /\ rPc'[r] = "read" => rTask'[r] \in TasksFor(rApproval[r])
    BY <1>3 DEF FindTask, Aborted, ResolverStep, TypeInv, TypeOK
  <2>2. Reads(r)
    BY <1>3, <2>1 DEF FindTask, Reads, Won
  <2>3. rPc'[r] = "read" => tasks[rTask'[r]].approval = rApproval[r]
    BY <2>1 DEF TasksFor
  <2> QED BY <1>1, <2>1, <2>2, <2>3, ReadDec
<1>4. CASE ReadEvidence(r)
  <2>1. /\ rPc[r] = "read" /\ rPc'[r] \in {"write", "audit", "idle"}
        /\ rSeen'[r] = tasks[rTask[r]].evidence /\ UNCHANGED rTask
    BY <1>4 DEF ReadEvidence, OrAborted, Aborted, ResolverStep, TypeInv, TypeOK
  <2>2. Reads(r)
    BY <1>4, <2>1 DEF ReadEvidence, Reads, Won
  <2>3. rTask[r] \in DOMAIN tasks /\ tasks[rTask[r]].approval = rApproval[r]
    BY <2>1 DEF TypeInv, FoundTask, DecInv
  <2>4. rSeen'[r] = <<>>
    BY <2>1, <2>3 DEF DecInv, Untouched
  <2> QED BY <1>1, <2>1, <2>2, <2>3, <2>4, ReadDec
<1> QED BY <1>2, <1>3, <1>4

\* A winner writes the one task it found and keeps the row consistent.
LEMMA TaskWriteDec ==
  ASSUME TypeInv, NEW r \in Resolver, DecInv, OnceInv, OthersKept(r),
         rPc[r] \in {"write", "count"}, rPc'[r] \in {"count", "audit", "idle"},
         rApproval'[r] = rApproval[r], rDecision'[r] = rDecision[r],
         UNCHANGED <<approvals, decisions, rTask, rSeen>>,
         DOMAIN tasks' = DOMAIN tasks,
         \A t \in DOMAIN tasks : tasks'[t].approval = tasks[t].approval,
         \A t \in DOMAIN tasks \ {rTask[r]} :
           /\ tasks'[t].evidence = tasks[t].evidence
           /\ tasks'[t].received = tasks[t].received,
         \/ /\ tasks'[rTask[r]].evidence = <<>>
            /\ tasks'[rTask[r]].received = 0
            /\ rPc'[r] # "count"
         \/ /\ tasks'[rTask[r]].evidence = <<rDecision[r]>>
            /\ tasks'[rTask[r]].received = 0
            /\ rPc'[r] = "count" => rDecision[r] = "approved"
         \/ /\ tasks'[rTask[r]].evidence = <<"approved">>
            /\ rDecision[r] = "approved"
            /\ tasks'[rTask[r]].received \in {0, 1}
            /\ rPc'[r] # "count"
  PROVE  DecInv'
<1> DEFINE a == rApproval[r]
<1> DEFINE z == rTask[r]
<1>1. /\ z \in DOMAIN tasks /\ tasks[z].approval = a
      /\ a \in DOMAIN approvals /\ approvals[a].status = rDecision[r]
      /\ Unaudited(a)
  BY DEF TypeInv, FoundTask, DecInv, Won
<1>2. rDecision[r] \in Decision /\ rDecision[r] # "pending"
  BY DEF TypeInv, TypeOK, Decision
<1>3. \A s \in Resolver :
        rApproval'[s] = rApproval[s] /\ rDecision'[s] = rDecision[s]
  BY DEF OthersKept
<1>4. \A s \in Resolver \ {r} : rPc'[s] = rPc[s]
  BY DEF OthersKept
<1>5. \A s \in Resolver : rPc'[s] \in Won => rPc[s] \in Won
  BY <1>4 DEF Won
<1>6. \A s \in Resolver \ {r} : rPc[s] \in Won => rApproval[s] # a
  BY DEF DecInv, Won
<1>7. \A b : b # a /\ Untouched(b) => Untouched(b)'
  BY <1>1 DEF Untouched
<1>8. \A b : Unaudited(b)' <=> Unaudited(b)
  BY DEF Unaudited
<1>9. \A s \in Resolver : rPc'[s] \in Won =>
        /\ rApproval'[s] \in DOMAIN approvals'
        /\ approvals'[rApproval'[s]].status = rDecision'[s]
  BY <1>3, <1>5 DEF DecInv
<1>10. \A s \in Resolver : rPc'[s] \in Won => Unaudited(rApproval[s])'
  BY <1>3, <1>5 DEF DecInv, Unaudited
<1>11. \A s, u \in Resolver :
         rPc'[s] \in Won /\ rPc'[u] \in Won /\ rApproval'[s] = rApproval'[u]
           => s = u
  BY <1>3, <1>5 DEF DecInv
<1>12. ASSUME NEW s \in Resolver,
              rPc'[s] \in {"reread", "find", "read", "write"}
       PROVE  Untouched(rApproval[s])'
  <2>1. s # r /\ rPc[s] = rPc'[s]
    BY <1>12, <1>4
  <2>2. Untouched(rApproval[s]) /\ rApproval[s] # a
    BY <1>6, <1>12, <2>1 DEF DecInv, Won
  <2>3. PICK b : b = rApproval[s]
    OBVIOUS
  <2>4. Untouched(b)' /\ b = rApproval'[s]
    BY <1>3, <1>7, <2>2, <2>3
  <2> QED BY <2>4 DEF Untouched
<1>13. \A s \in Resolver : rPc'[s] \in {"read", "write", "count"} =>
         tasks'[rTask'[s]].approval = rApproval'[s]
  <2>1. ASSUME NEW s \in Resolver, rPc'[s] \in {"read", "write", "count"}
        PROVE  rTask[s] \in DOMAIN tasks /\ tasks[rTask[s]].approval = rApproval[s]
    BY <1>1, <1>4, <2>1 DEF TypeInv, FoundTask, DecInv
  <2> QED BY <1>3, <2>1
<1>14. \A s \in Resolver : rPc'[s] = "write" => rSeen'[s] = <<>>
  BY <1>4 DEF DecInv
<1>15. \A s \in Resolver : rPc'[s] = "count" =>
         /\ rDecision'[s] = "approved"
         /\ tasks'[rTask'[s]].evidence = <<"approved">>
         /\ tasks'[rTask'[s]].received = 0
  <2>1. ASSUME NEW s \in Resolver \ {r}, rPc'[s] = "count"
        PROVE  /\ rTask[s] \in DOMAIN tasks \ {z}
               /\ rDecision[s] = "approved"
               /\ tasks[rTask[s]].evidence = <<"approved">>
               /\ tasks[rTask[s]].received = 0
    BY <1>1, <1>4, <1>6, <2>1 DEF TypeInv, FoundTask, DecInv, Won
  <2> QED BY <1>3, <2>1
<1>16. \A b \in DOMAIN approvals' : approvals'[b].status = "pending" =>
         Untouched(b)' /\ Unaudited(b)'
  BY <1>1, <1>2, <1>7, <1>8 DEF DecInv
<1>17. \A j \in DOMAIN decisions' : decisions'[j].approval \in DOMAIN approvals'
  BY DEF DecInv
<1>18. OneDecision'
  <2>1. ASSUME NEW t \in DOMAIN tasks
        PROVE  LET e == tasks'[t].evidence
               IN  /\ Len(e) <= 1
                   /\ Len(e) = 1 => e[1] = approvals[tasks[t].approval].status
                   /\ tasks'[t].received =<
                        (IF e = <<"approved">> THEN 1 ELSE 0)
    <3>1. CASE t # z
      BY <3>1 DEF DecInv, OneDecision
    <3>2. CASE t = z
      <4>1. CASE tasks'[z].evidence = <<>> /\ tasks'[z].received = 0
        BY <3>2, <4>1
      <4>2. CASE tasks'[z].evidence = <<rDecision[r]>> /\ tasks'[z].received = 0
        BY <1>1, <3>2, <4>2
      <4>3. CASE /\ tasks'[z].evidence = <<"approved">>
                 /\ rDecision[r] = "approved"
                 /\ tasks'[z].received \in {0, 1}
        BY <1>1, <3>2, <4>3
      <4> QED BY <4>1, <4>2, <4>3
    <3> QED BY <3>1, <3>2
  <2>2. \A j \in DOMAIN decisions :
          /\ decisions[j].decision = approvals[decisions[j].approval].status
          /\ \A k \in DOMAIN decisions :
               decisions[j].approval = decisions[k].approval => j = k
    BY DEF DecInv, OneDecision
  <2> QED BY <2>1, <2>2 DEF OneDecision
<1> QED BY <1>9, <1>10, <1>11, <1>12, <1>13, <1>14, <1>15, <1>16, <1>17,
           <1>18 DEF DecInv

LEMMA WriteEvidenceDec ==
  ASSUME TypeInv, NEW r \in Resolver, WriteEvidence(r), OnceInv, DecInv
  PROVE  DecInv'
<1>1. OthersKept(r) /\ rApproval'[r] = rApproval[r] /\ rDecision'[r] = rDecision[r]
  BY WinningFrame DEF Winning
<1>2. /\ rPc[r] = "write" /\ UNCHANGED <<approvals, decisions, rTask, rSeen>>
      /\ rPc'[r] \in {"count", "audit", "idle"}
      /\ \/ tasks' = tasks /\ rPc'[r] # "count"
         \/ /\ tasks' = WithEvidence(r)
            /\ rPc'[r] = "count" => rDecision[r] = "approved"
  BY DEF WriteEvidence, Aborted, ResolverStep, WithEvidence, TypeInv, TypeOK
<1>3. /\ rTask[r] \in DOMAIN tasks /\ tasks[rTask[r]].approval = rApproval[r]
      /\ Untouched(rApproval[r]) /\ rSeen[r] = <<>>
  BY <1>2 DEF TypeInv, FoundTask, DecInv
<1>4. tasks[rTask[r]].evidence = <<>> /\ tasks[rTask[r]].received = 0
  BY <1>3 DEF Untouched
<1>5. CASE tasks' = tasks /\ rPc'[r] # "count"
  BY <1>1, <1>2, <1>4, <1>5, TaskWriteDec
<1>6. CASE /\ tasks' = WithEvidence(r)
           /\ rPc'[r] = "count" => rDecision[r] = "approved"
  <2>1. Append(rSeen[r], rDecision[r]) = <<rDecision[r]>>
    BY <1>3
  <2>2. /\ DOMAIN tasks' = DOMAIN tasks
        /\ \A t \in DOMAIN tasks :
             /\ tasks'[t].approval = tasks[t].approval
             /\ tasks'[t].received = tasks[t].received
             /\ tasks'[t].evidence = IF t = rTask[r] THEN <<rDecision[r]>>
                                     ELSE tasks[t].evidence
    BY <1>6, <2>1, WithEvidenceType DEF TypeInv
  <2> QED BY <1>1, <1>2, <1>3, <1>4, <1>6, <2>2, TaskWriteDec
<1> QED BY <1>2, <1>5, <1>6

LEMMA CountApprovalDec ==
  ASSUME TypeInv, NEW r \in Resolver, CountApproval(r), OnceInv, DecInv
  PROVE  DecInv'
<1>1. OthersKept(r) /\ rApproval'[r] = rApproval[r] /\ rDecision'[r] = rDecision[r]
  BY WinningFrame DEF Winning
<1>2. /\ rPc[r] = "count" /\ UNCHANGED <<approvals, decisions, rTask, rSeen>>
      /\ rPc'[r] \in {"audit", "idle"}
      /\ tasks' = tasks \/ tasks' = WithCount(r)
  BY DEF CountApproval, Aborted, ResolverStep, WithCount, TypeInv, TypeOK
<1>3. /\ rTask[r] \in DOMAIN tasks
      /\ rDecision[r] = "approved"
      /\ tasks[rTask[r]].evidence = <<"approved">>
      /\ tasks[rTask[r]].received = 0
  BY <1>2 DEF TypeInv, FoundTask, DecInv
<1>4. CASE tasks' = tasks
  BY <1>1, <1>2, <1>3, <1>4, TaskWriteDec
<1>5. CASE tasks' = WithCount(r)
  <2>1. /\ DOMAIN tasks' = DOMAIN tasks
        /\ \A t \in DOMAIN tasks :
             /\ tasks'[t].approval = tasks[t].approval
             /\ tasks'[t].evidence = tasks[t].evidence
             /\ tasks'[t].received = IF t = rTask[r] THEN tasks[t].received + 1
                                     ELSE tasks[t].received
    BY <1>5, WithCountType DEF TypeInv
  <2>2. tasks'[rTask[r]].received = 1
    BY <1>3, <2>1
  <2> QED BY <1>1, <1>2, <1>3, <2>1, <2>2, TaskWriteDec
<1> QED BY <1>2, <1>4, <1>5

LEMMA AuditDec ==
  ASSUME TypeInv, TypeInv', NEW r \in Resolver, Audit(r), DecInv
  PROVE  DecInv'
<1> DEFINE a == rApproval[r]
<1> DEFINE ev == [approval |-> rApproval[r], decision |-> rDecision[r],
                  via |-> rVia[r],
                  task |-> IF rVia[r] = "operator" THEN rTask[r] ELSE 0]
<1>1. OthersKept(r) /\ rApproval'[r] = rApproval[r] /\ rDecision'[r] = rDecision[r]
  BY WinningFrame DEF Winning
<1>2. /\ rPc[r] = "audit" /\ rPc'[r] = "idle"
      /\ UNCHANGED <<approvals, tasks, rTask, rSeen>>
      /\ UNCHANGED decisions \/ decisions' = Append(decisions, ev)
  BY DEF Audit, ResolverStep, TypeInv, TypeOK
<1>3. CASE UNCHANGED decisions
  BY <1>1, <1>2, <1>3, ReadDec DEF Reads, Won
<1>4. CASE decisions' = Append(decisions, ev)
  <2>1. ev \in Event /\ decisions \in Seq(Event)
    BY DEF Event, TypeInv, TypeOK
  <2>2. ev.approval = a /\ ev.decision = rDecision[r]
    OBVIOUS
  <2>h. HIDE DEF ev
  <2> DEFINE n == Len(decisions) + 1
  <2>3. /\ Len(decisions) \in Nat /\ DOMAIN decisions = 1..Len(decisions)
        /\ DOMAIN decisions' = 1..n
        /\ \A j \in DOMAIN decisions : decisions'[j] = decisions[j]
        /\ decisions'[n] = ev
    BY <1>4, <2>1, Appended
  <2>4. DOMAIN decisions' = DOMAIN decisions \cup {n} /\ n \notin DOMAIN decisions
    BY ONLY <2>3
  <2> HIDE DEF n
  <2>5. /\ a \in DOMAIN approvals /\ approvals[a].status = rDecision[r]
        /\ Unaudited(a) /\ rDecision[r] # "pending"
    BY <1>2 DEF DecInv, Won, TypeInv, TypeOK, Decision
  <2>6. \A s \in Resolver :
          rApproval'[s] = rApproval[s] /\ rDecision'[s] = rDecision[s]
    BY <1>1 DEF OthersKept
  <2>7. \A s \in Resolver : rPc'[s] \in Won =>
          s # r /\ rPc'[s] = rPc[s] /\ rApproval[s] # a
    BY <1>1, <1>2 DEF OthersKept, Won, DecInv
  <2>8. \A b : b # a /\ Unaudited(b) => Unaudited(b)'
    BY <2>2, <2>3, <2>4 DEF Unaudited
  <2>9. \A b : Untouched(b)' <=> Untouched(b)
    BY <1>2 DEF Untouched
  <2>10. \A s \in Resolver : rPc'[s] \in Won =>
           /\ rApproval'[s] \in DOMAIN approvals'
           /\ approvals'[rApproval'[s]].status = rDecision'[s]
    BY <1>2, <2>6, <2>7 DEF DecInv
  <2>11. ASSUME NEW s \in Resolver, rPc'[s] \in Won
         PROVE  Unaudited(rApproval[s])'
    <3>1. Unaudited(rApproval[s]) /\ rApproval[s] # a
      BY <2>7, <2>11 DEF DecInv
    <3>2. PICK b : b = rApproval[s]
      OBVIOUS
    <3>3. Unaudited(b)' /\ b = rApproval'[s]
      BY <2>6, <2>8, <3>1, <3>2
    <3> QED BY <3>3 DEF Unaudited
  <2>12. \A s, u \in Resolver :
           rPc'[s] \in Won /\ rPc'[u] \in Won /\ rApproval'[s] = rApproval'[u]
             => s = u
    BY <2>6, <2>7 DEF DecInv
  <2>13. \A s \in Resolver : rPc'[s] \in {"reread", "find", "read", "write"} =>
           Untouched(rApproval[s])'
    BY <1>2, <2>6, <2>7 DEF DecInv, Untouched, Won
  <2>14. \A s \in Resolver :
           /\ rPc'[s] \in {"read", "write", "count"} =>
                tasks'[rTask'[s]].approval = rApproval'[s]
           /\ rPc'[s] = "write" => rSeen'[s] = <<>>
           /\ rPc'[s] = "count" =>
                /\ rDecision'[s] = "approved"
                /\ tasks'[rTask'[s]].evidence = <<"approved">>
                /\ tasks'[rTask'[s]].received = 0
    BY <1>2, <2>6, <2>7 DEF DecInv, Won
  <2>15. \A b \in DOMAIN approvals' : approvals'[b].status = "pending" =>
           Untouched(b)' /\ Unaudited(b)'
    BY <1>2, <2>5, <2>8, <2>9 DEF DecInv
  <2>16. \A j \in DOMAIN decisions' :
           decisions'[j].approval \in DOMAIN approvals'
    BY <1>2, <2>2, <2>3, <2>4, <2>5 DEF DecInv
  <2>17. OneDecision'
    <3>1. \A j \in DOMAIN decisions' :
            /\ decisions'[j].decision = approvals[decisions'[j].approval].status
            /\ \A k \in DOMAIN decisions' :
                 decisions'[j].approval = decisions'[k].approval => j = k
      <4>1. \A j \in DOMAIN decisions :
              /\ decisions[j].approval # a
              /\ decisions[j].decision = approvals[decisions[j].approval].status
              /\ \A k \in DOMAIN decisions :
                   decisions[j].approval = decisions[k].approval => j = k
        BY <2>5 DEF DecInv, OneDecision, Unaudited
      <4>2. ASSUME NEW j \in DOMAIN decisions'
            PROVE  \/ j \in DOMAIN decisions /\ decisions'[j] = decisions[j]
                   \/ decisions'[j] = ev /\ j = n
        BY <2>3, <2>4, <4>2
      <4>3. ASSUME NEW j \in DOMAIN decisions', NEW k \in DOMAIN decisions',
                   decisions'[j].approval = decisions'[k].approval
            PROVE  j = k
        <5>1. CASE j \in DOMAIN decisions /\ decisions'[j] = decisions[j]
          BY <2>2, <4>1, <4>2, <4>3, <5>1
        <5>2. CASE decisions'[j] = ev /\ j = n
          BY <2>2, <4>1, <4>2, <4>3, <5>2
        <5> QED BY <4>2, <5>1, <5>2
      <4>4. ASSUME NEW j \in DOMAIN decisions'
            PROVE  decisions'[j].decision = approvals[decisions'[j].approval].status
        <5>1. CASE j \in DOMAIN decisions /\ decisions'[j] = decisions[j]
          BY <4>1, <5>1
        <5>2. CASE decisions'[j] = ev /\ j = n
          BY <2>2, <2>5, <5>2
        <5> QED BY <4>2, <5>1, <5>2
      <4> QED BY <4>3, <4>4
    <3>2. tasks' = tasks /\ approvals' = approvals
      BY <1>2
    <3>3. \A t \in DOMAIN tasks :
            LET e == tasks[t].evidence
            IN  /\ Len(e) <= 1
                /\ Len(e) = 1 => e[1] = approvals[tasks[t].approval].status
                /\ tasks[t].received =< (IF e = <<"approved">> THEN 1 ELSE 0)
      BY DEF DecInv, OneDecision
    <3> QED BY <3>1, <3>2, <3>3 DEF OneDecision
  <2> QED BY <2>10, <2>11, <2>12, <2>13, <2>14, <2>15, <2>16, <2>17 DEF DecInv
<1> QED BY <1>2, <1>3, <1>4

LEMMA NextDecInv ==
  ASSUME TypeInv, TypeInv', [Next]_vars, OnceInv, OnceInv', DecInv
  PROVE  DecInv'
<1>1. CASE Aside
  BY <1>1, AsideDec
<1>2. ASSUME NEW r \in Resolver, Winning(r) PROVE DecInv'
  BY <1>2, ResolveDec, ReadingDec, WriteEvidenceDec, CountApprovalDec, AuditDec
     DEF Winning
<1> QED BY <1>1, <1>2, AsideSteps

LEMMA InitDecInv == Init => DecInv
<1> SUFFICES ASSUME Init PROVE DecInv
  OBVIOUS
<1>1. /\ DOMAIN approvals = {} /\ DOMAIN tasks = {} /\ DOMAIN decisions = {}
      /\ \A r \in Resolver : rPc[r] = "idle"
  BY DEF Init
<1> QED BY <1>1 DEF DecInv, OneDecision, Won

\* The row, the evidence, the count and the log never tell two decisions of
\* one approval: resolve_approval's UPDATE ... WHERE status='pending' picks
\* one winner, and only the winner writes what follows.
THEOREM OneDecisionHolds == Spec => []OneDecision
<1>1. DecInv => OneDecision
  BY DEF DecInv
<1>2. Init => TypeInv /\ OnceInv /\ DecInv
  BY InitTypeInv, InitOnceInv, InitDecInv
<1>3. TypeInv /\ OnceInv /\ DecInv /\ [Next]_vars
        => (TypeInv /\ OnceInv /\ DecInv)'
  BY NextTypeInv, NextOnceInv, NextDecInv
<1> QED BY <1>1, <1>2, <1>3, PTL DEF Spec

-----------------------------------------------------------------------------
(* The task an operator's decision is audited under.  A resolver that won   *)
(* an approval while its task was there finds one of the approval's tasks,   *)
(* and carries it to the audit event; only a poll comes there without one.   *)

Operating == {"read", "write", "count", "audit"}

TracedInv ==
  /\ \A r \in Resolver :
       rPc[r] \in {"reread", "find"} /\ rApproval[r] \notin blind =>
         \E t \in DOMAIN tasks : tasks[t].approval = rApproval[r]
  /\ \A r \in Resolver :
       rPc[r] \in Operating /\ rVia[r] = "operator" /\ rApproval[r] \notin blind =>
         /\ rTask[r] \in DOMAIN tasks
         /\ tasks[rTask[r]].approval = rApproval[r]
  /\ \A i \in DOMAIN decisions :
       decisions[i].via = "operator" /\ decisions[i].approval \notin blind =>
         /\ decisions[i].task \in DOMAIN tasks
         /\ tasks[decisions[i].task].approval = decisions[i].approval

\* A step moves no resolver but r, and forgets no blind approval.
Alone(r) ==
  /\ blind \subseteq blind'
  /\ \A s \in Resolver \ {r} :
       /\ rPc'[s] = rPc[s] /\ rVia'[s] = rVia[s]
       /\ rApproval'[s] = rApproval[s] /\ rTask'[s] = rTask[s]

\* Rows stay what they are, so only the resolver that moves need be looked at.
LEMMA TracedFrame ==
  ASSUME TypeInv, [Next]_vars, TracedInv, NEW r \in Resolver, Alone(r),
         UNCHANGED decisions,
         rPc'[r] \in {"reread", "find"} /\ rApproval'[r] \notin blind' =>
           \E t \in DOMAIN tasks : tasks[t].approval = rApproval'[r],
         rPc'[r] \in Operating /\ rVia'[r] = "operator" /\ rApproval'[r] \notin blind' =>
           /\ rTask'[r] \in DOMAIN tasks
           /\ tasks[rTask'[r]].approval = rApproval'[r]
  PROVE  TracedInv'
<1>1. \A t \in DOMAIN tasks : t \in DOMAIN tasks' /\ tasks'[t].approval = tasks[t].approval
  BY TablesGrow, RowsKept DEF TypeInv
<1>2. \A s \in Resolver :
        rPc'[s] \in {"reread", "find"} /\ rApproval'[s] \notin blind' =>
          \E t \in DOMAIN tasks' : tasks'[t].approval = rApproval'[s]
  BY <1>1 DEF TracedInv, Alone
<1>3. \A s \in Resolver :
        rPc'[s] \in Operating /\ rVia'[s] = "operator" /\ rApproval'[s] \notin blind' =>
          /\ rTask'[s] \in DOMAIN tasks'
          /\ tasks'[rTask'[s]].approval = rApproval'[s]
  BY <1>1 DEF TracedInv, Alone
<1>4. \A i \in DOMAIN decisions' :
        decisions'[i].via = "operator" /\ decisions'[i].approval \notin blind' =>
          /\ decisions'[i].task \in DOMAIN tasks'
          /\ tasks'[decisions'[i].task].approval = decisions'[i].approval
  BY <1>1 DEF TracedInv, Alone
<1> QED BY <1>2, <1>3, <1>4 DEF TracedInv

\* Where no resolver moves on, nothing is to be shown but that rows are kept.
LEMMA TracedAside ==
  ASSUME TypeInv, [Next]_vars, TracedInv, UNCHANGED <<decisions, blind>>,
         \A s \in Resolver :
           rPc'[s] \in {"reread", "find"} \cup Operating =>
             /\ rPc'[s] = rPc[s] /\ rVia'[s] = rVia[s]
             /\ rApproval'[s] = rApproval[s] /\ rTask'[s] = rTask[s]
  PROVE  TracedInv'
<1>1. \A t \in DOMAIN tasks : t \in DOMAIN tasks' /\ tasks'[t].approval = tasks[t].approval
  BY TablesGrow, RowsKept DEF TypeInv
<1> QED BY <1>1 DEF TracedInv

LEMMA ResolvingTraced ==
  ASSUME TypeInv, [Next]_vars, TracedInv, NEW r \in Resolver, Winning(r)
  PROVE  TracedInv'
<1> USE DEF TypeInv, TypeOK, ResolverStep
<1>1. CASE Resolve(r)
  <2>1. Alone(r) /\ UNCHANGED <<decisions, rApproval>>
    BY <1>1 DEF Resolve, Alone
  <2>2. /\ rPc'[r] \in {"reread", "idle"}
        /\ rPc'[r] = "reread" /\ rApproval[r] \notin blind' => TasksFor(rApproval[r]) # {}
    BY <1>1 DEF Resolve
  <2> QED BY <2>1, <2>2, TracedFrame DEF TasksFor, Operating
<1>2. CASE Reread(r)
  <2>1. Alone(r) /\ UNCHANGED <<decisions, rApproval, blind>>
    BY <1>2 DEF Reread, Alone
  <2>2. rPc[r] = "reread" /\ rPc'[r] \in {"find", "idle"}
    BY <1>2 DEF Reread, AfterReread
  <2> HIDE DEF TypeInv, TypeOK
  <2>3. rApproval[r] \notin blind => \E t \in DOMAIN tasks : tasks[t].approval = rApproval[r]
    BY <2>2 DEF TracedInv
  <2>4. rPc'[r] \notin Operating
    BY <2>2 DEF Operating
  <2> QED BY <2>1, <2>3, <2>4, TracedFrame
<1>3. CASE FindTask(r)
  <2>1. Alone(r) /\ UNCHANGED <<decisions, rApproval, rVia, blind>>
    BY <1>3 DEF FindTask, Alone
  <2>2. /\ rPc[r] = "find"
        /\ \/ rPc'[r] = "audit" /\ TasksFor(rApproval[r]) = {}
           \/ rPc'[r] = "read" /\ rTask'[r] \in TasksFor(rApproval[r])
           \/ rPc'[r] = Aborted(r)
    BY <1>3 DEF FindTask
  <2>3. rVia[r] = "operator" => Aborted(r) = "idle"
    BY DEF Aborted
  <2>4. Aborted(r) \in {"audit", "idle"}
    BY DEF Aborted
  <2>5. rPc'[r] \notin {"reread", "find"}
    BY <2>2, <2>4
  <2>6. rPc'[r] \in Operating /\ rVia'[r] = "operator" /\ rApproval'[r] \notin blind' =>
          rTask'[r] \in DOMAIN tasks /\ tasks[rTask'[r]].approval = rApproval'[r]
    <3>1. rApproval[r] \notin blind => TasksFor(rApproval[r]) # {}
      BY <2>2 DEF TracedInv, TasksFor
    <3> QED BY <2>1, <2>2, <2>3, <3>1 DEF TasksFor, Operating
  <2> QED BY <2>1, <2>5, <2>6, TracedFrame
<1>4. CASE ReadEvidence(r) \/ WriteEvidence(r) \/ CountApproval(r)
  <2>1. Alone(r) /\ UNCHANGED <<decisions, rApproval, rVia, rTask, blind>>
    BY <1>4 DEF ReadEvidence, WriteEvidence, CountApproval, Alone
  <2>2. rPc[r] \in Operating /\ rPc'[r] \in Operating \cup {"idle"}
    BY <1>4 DEF ReadEvidence, WriteEvidence, CountApproval, OrAborted, Aborted, Operating
  <2>3. rPc'[r] \notin {"reread", "find"}
    BY <2>2 DEF Operating
  <2> QED BY <2>1, <2>2, <2>3, TracedFrame DEF TracedInv
<1>5. CASE Audit(r)
  <2> DEFINE event == [approval |-> rApproval[r], decision |-> rDecision[r], via |-> rVia[r],
                       task |-> IF rVia[r] = "operator" THEN rTask[r] ELSE 0]
  <2>1. /\ UNCHANGED <<tasks, rApproval, rVia, rTask, blind>>
        /\ rPc[r] = "audit" /\ rPc' = [rPc EXCEPT ![r] = "idle"]
        /\ decisions' = Append(decisions, event) \/ UNCHANGED decisions
    BY <1>5 DEF Audit
  <2>2. /\ event \in Event /\ event.via = rVia[r] /\ event.approval = rApproval[r]
        /\ rVia[r] = "operator" => event.task = rTask[r]
    BY DEF Event
  <2>3. decisions \in Seq(Event)
    OBVIOUS
  <2> HIDE DEF event
  <2>4. \A i \in DOMAIN decisions' :
          \/ i \in DOMAIN decisions /\ decisions'[i] = decisions[i]
          \/ decisions'[i] = event
    <3>1. CASE UNCHANGED decisions
      BY <3>1
    <3>2. CASE decisions' = Append(decisions, event)
      <4>1. /\ DOMAIN decisions' = 1..(Len(decisions) + 1)
            /\ DOMAIN decisions = 1..Len(decisions) /\ Len(decisions) \in Nat
            /\ \A i \in DOMAIN decisions : decisions'[i] = decisions[i]
            /\ decisions'[Len(decisions) + 1] = event
        BY <2>2, <2>3, <3>2, Appended
      <4> QED BY ONLY <4>1
    <3> QED BY <2>1, <3>1, <3>2
  <2>5. rVia[r] = "operator" /\ rApproval[r] \notin blind =>
          rTask[r] \in DOMAIN tasks /\ tasks[rTask[r]].approval = rApproval[r]
    BY <2>1 DEF TracedInv, Operating
  <2>6. \A i \in DOMAIN decisions' :
          decisions'[i].via = "operator" /\ decisions'[i].approval \notin blind =>
            /\ decisions'[i].task \in DOMAIN tasks
            /\ tasks[decisions'[i].task].approval = decisions'[i].approval
    <3> HIDE DEF TypeInv, TypeOK
    <3>1. \A i \in DOMAIN decisions :
            decisions[i].via = "operator" /\ decisions[i].approval \notin blind =>
              /\ decisions[i].task \in DOMAIN tasks
              /\ tasks[decisions[i].task].approval = decisions[i].approval
      BY DEF TracedInv
    <3>2. event.via = "operator" /\ event.approval \notin blind =>
            event.task \in DOMAIN tasks /\ tasks[event.task].approval = event.approval
      BY <2>2, <2>5
    <3> QED BY <2>4, <3>1, <3>2
  <2>7. \A s \in Resolver : rPc'[s] # "idle" => rPc'[s] = rPc[s]
    BY <2>1
  <2> QED BY <2>1, <2>6, <2>7 DEF TracedInv, Operating
<1> QED BY <1>1, <1>2, <1>3, <1>4, <1>5 DEF Winning

LEMMA NextTracedInv ==
  ASSUME TypeInv, [Next]_vars, TracedInv
  PROVE  TracedInv'
<1>1. CASE \/ Dispatcher \/ UNCHANGED vars \/ HubCrash
           \/ \E h \in Handler : Dispatch(h)
           \/ \E a \in routed, d \in Decision : ForgeLinkDecides(a, d)
  <2>1. /\ UNCHANGED <<decisions, blind, rVia, rApproval, rTask>>
        /\ UNCHANGED rPc \/ rPc' = [r \in Resolver |-> "idle"]
    BY <1>1 DEF Dispatcher, Send, Resend, GiveUp, Deliver, Drop, ForgeLinkDecides, vars,
                storeVars, resolverVars, HubCrash, Dispatch, DispatchStep, ConsumeNonce,
                LookUp, InsertApproval, InsertTask, Route
  <2> QED BY <2>1, TracedAside DEF Operating
<1>2. ASSUME NEW r \in Resolver, Begin(r) \/ FetchDecision(r) \/ Abandon(r)
      PROVE  TracedInv'
  <2>1. /\ UNCHANGED <<decisions, blind>>
        /\ rPc'[r] \in {"resolve", "poll", "idle"}
        /\ \A s \in Resolver \ {r} :
             /\ rPc'[s] = rPc[s] /\ rVia'[s] = rVia[s]
             /\ rApproval'[s] = rApproval[s] /\ rTask'[s] = rTask[s]
    BY <1>2 DEF Begin, Poll, Decide, FetchDecision, Abandon, ResolverStep,
                storeVars, TypeInv, TypeOK
  <2> QED BY <2>1, TracedAside DEF Operating
<1> QED BY <1>1, <1>2, ResolvingTraced DEF Next, Resolving, Winning

\* An operator's decision is audited under the task it was recorded on:
\* record_task_approval_decision hands the task it found to the audit event.
THEOREM AuditedUnderItsTaskHolds == Spec => []AuditedUnderItsTask
<1>1. TracedInv => AuditedUnderItsTask
  BY DEF TracedInv, AuditedUnderItsTask, TasksFor
<1>2. Init => TypeInv /\ TracedInv
  <2>1. Init => TracedInv
    BY DEF Init, TracedInv, Operating
  <2> QED BY <2>1, InitTypeInv
<1>3. TypeInv /\ TracedInv /\ [Next]_vars => (TypeInv /\ TracedInv)'
  BY NextTypeInv, NextTracedInv
<1> QED BY <1>1, <1>2, <1>3, PTL DEF Spec

=============================================================================
