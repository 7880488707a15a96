------------------------ MODULE TaskLifecycle_proofs ------------------------
(***************************************************************************)
(* Proofs about TaskLifecycle, for any number of tasks, runners and claims *)
(* in flight, and any of the environment's events.                         *)
(***************************************************************************)
EXTENDS TaskLifecycle, FiniteSetTheorems, TLAPS

-----------------------------------------------------------------------------
(* Type correctness needs to know where a handler or an agent has a task.  *)

ShapeOK ==
  /\ \A c \in Call :
       /\ callPc[c] # "free" => callRunner[c] \in Runner
       /\ callPc[c] \notin {"cas", "reply"} => callTask[c] = NoTask
       /\ callPc[c] = "cas" => callTask[c] \in Task
  /\ \A r \in Runner :
       IF agentPc[r] = "executing" THEN agentTask[r] \in Task
                                   ELSE agentTask[r] = NoTask

Basic == TypeOK /\ ShapeOK

LEMMA InitBasic == Init => Basic
BY DEF Init, Basic, TypeOK, ShapeOK, StoreInit, StoreTypeOK, Status, CallPc,
       AgentPc

LEMMA OperatorBasic == Basic /\ Operator => Basic'
<1> SUFFICES ASSUME Basic, Operator PROVE Basic'
  OBVIOUS
<1> USE DEF Basic, TypeOK, ShapeOK, StoreTypeOK, Status, Terminal, storeVars,
            rosterVars, hubVars, agentVars, netVars
<1>1. ASSUME NEW t \in Task, Dispatch(t) PROVE Basic'
  BY <1>1 DEF Dispatch, CreateTask
<1>2. ASSUME NEW t \in Task, CancelBegin(t) PROVE Basic'
  BY <1>2 DEF CancelBegin, RequestCancel
<1>3. ASSUME NEW r \in Runner, Drain(r) \/ Undrain(r) \/ Deregister(r)
      PROVE Basic'
  BY <1>3 DEF Drain, Undrain, Deregister
<1> QED BY <1>1, <1>2, <1>3 DEF Operator

LEMMA AgentBasic == Basic /\ (\E r \in Runner : Agent(r)) => Basic'
<1> SUFFICES ASSUME Basic, NEW r \in Runner, Agent(r) PROVE Basic'
  OBVIOUS
<1> USE DEF Basic, TypeOK, ShapeOK, storeVars, rosterVars, hubVars, agentVars,
            netVars
<1>1. CASE Register(r) \/ HeartbeatRegister(r) \/ RunnerRestart(r)
  BY <1>1 DEF Register, HeartbeatRegister, RunnerRestart, StoreTypeOK, AgentPc
<1>2. ASSUME NEW s \in RunnerOutcome, Finish(r, s) PROVE Basic'
  <2>1. agentTask[r] \in Task
    BY <1>2 DEF Finish
  <2>2. [task |-> agentTask[r], runner |-> r, status |-> s] \in Report
    BY <2>1 DEF Report, RunnerOutcome, Terminal
  <2> QED BY <1>2, <2>1, <2>2, NoTaskAssumption DEF Finish, StoreTypeOK, AgentPc
<1>3. ASSUME NEW c \in Call, ClaimBegin(r, c) PROVE Basic'
  BY <1>3 DEF ClaimBegin, StoreTypeOK, AgentPc, CallPc
<1>4. ASSUME NEW c \in Call, ReceiveTask(r, c) PROVE Basic'
  BY <1>4 DEF ReceiveTask, CarriesTask, FreeCall, StoreTypeOK, AgentPc, CallPc
<1>5. ASSUME NEW c \in Call, ReceiveNothing(r, c) PROVE Basic'
  BY <1>5 DEF ReceiveNothing, Answered, FreeCall, StoreTypeOK, AgentPc, CallPc
<1> QED BY <1>1, <1>2, <1>3, <1>4, <1>5 DEF Agent

LEMMA CountedIsNat == \A r \in Runner : \A s : Counted(r, s) \in SUBSET Nat
<1> SUFFICES ASSUME NEW r \in Runner, NEW s PROVE Counted(r, s) \in SUBSET Nat
  OBVIOUS
<1>1. IsFiniteSet(Task)
  <2>1. 1 \in Int /\ NTasks \in Int
    BY NTasksAssumption
  <2> QED BY <2>1, FS_Interval DEF Task
<1>2. HeldBy(r, s) \in SUBSET Task
  BY DEF HeldBy
<1>3. Cardinality(HeldBy(r, s)) \in Nat
  BY <1>1, <1>2, FS_Subset, FS_CardinalityType
<1> QED BY <1>3 DEF Counted

LEMMA HandlerBasic == Basic /\ (\E c \in Call : ClaimHandler(c)) => Basic'
<1> SUFFICES ASSUME Basic, NEW c \in Call, ClaimHandler(c) PROVE Basic'
  OBVIOUS
<1> USE DEF Basic, TypeOK, ShapeOK, HandlerStep, CallPc, storeVars, rosterVars,
            agentVars, netVars
<1>1. CASE ReadRunner(c)
  BY <1>1 DEF ReadRunner, StoreTypeOK
<1>2. CASE CountClaimed(c) \/ CountRunning(c)
  <2>1. callRunner[c] \in Runner
    BY <1>2 DEF CountClaimed, CountRunning
  <2>2. PICK n \in Nat, to \in {"running", "reply", "queue"} :
          /\ callLoad' = [callLoad EXCEPT ![c] = n]
          /\ callPc' = [callPc EXCEPT ![c] = to]
    <3>1. CASE CountClaimed(c)
      <4>1. PICK n \in Counted(callRunner[c], "claimed") :
              callLoad' = [callLoad EXCEPT ![c] = n]
        BY <3>1 DEF CountClaimed
      <4>2. n \in Nat
        BY <4>1, <2>1, CountedIsNat
      <4> QED BY <3>1, <4>1, <4>2 DEF CountClaimed
    <3>2. CASE CountRunning(c)
      <4>1. PICK n \in Counted(callRunner[c], "running") :
              /\ callLoad' = [callLoad EXCEPT ![c] = @ + n]
              /\ HandlerStep(c, IF CapReached(callLoad'[c], callRunner[c])
                                THEN "reply" ELSE "queue")
        BY <3>2 DEF CountRunning
      <4>2. callLoad[c] + n \in Nat
        BY <4>1, <2>1, CountedIsNat
      <4> QED BY <4>1, <4>2
    <3> QED BY <1>2, <3>1, <3>2
  <2> QED BY <1>2, <2>2 DEF CountClaimed, CountRunning, StoreTypeOK
<1>3. CASE PickTask(c)
  <2>1. Candidates(callRunner[c]) \subseteq Task
    BY DEF Candidates, Newest, WithStatus
  <2> QED BY <1>3, <2>1 DEF PickTask, StoreTypeOK
<1>4. CASE SecretsFail(c) \/ ClaimLost(c) \/ ClaimFails(c)
  BY <1>4 DEF SecretsFail, ClaimLost, ClaimFails, StoreTypeOK
<1>5. CASE ClaimWon(c)
  BY <1>5 DEF ClaimWon, ClaimTask, StoreTypeOK, Status
<1>6. CASE DropCall(c)
  BY <1>6 DEF DropCall, FreeCall, StoreTypeOK
<1> QED BY <1>1, <1>2, <1>3, <1>4, <1>5, <1>6 DEF ClaimHandler

LEMMA DeliveryBasic == Basic /\ Delivery => Basic'
<1> SUFFICES ASSUME Basic, Delivery PROVE Basic'
  OBVIOUS
<1> USE DEF Basic, TypeOK, ShapeOK, StoreTypeOK, Repeated, storeVars,
            rosterVars, hubVars, agentVars, netVars
<1>1. ASSUME NEW t \in Task, HandleStart(t) PROVE Basic'
  BY <1>1 DEF HandleStart, MarkRunning, Status
<1>2. ASSUME NEW t \in Task, CancelEnd(t) PROVE Basic'
  BY <1>2 DEF CancelEnd, CancelQueued, Status, Terminal
<1>3. ASSUME NEW m \in reports, HandleReport(m) PROVE Basic'
  <2>1. m.task \in Task /\ m.status \in Terminal
    BY DEF Report
  <2> QED BY <1>3, <2>1 DEF HandleReport, FinishTask, Status
<1>4. ASSUME NEW m \in recording, RecordResult(m) PROVE Basic'
  <2>1. m.task \in Task /\ m.status \in Terminal
    BY DEF Report
  <2> QED BY <1>4, <2>1 DEF RecordResult, InsertResult
<1> QED BY <1>1, <1>2, <1>3, <1>4 DEF Delivery

LEMMA FailureBasic == Basic /\ Failure => Basic'
<1> SUFFICES ASSUME Basic, Failure PROVE Basic'
  OBVIOUS
<1> USE DEF Basic, TypeOK, ShapeOK, StoreTypeOK, storeVars, rosterVars,
            hubVars, agentVars, netVars
<1>1. CASE HubCrash
  BY <1>1 DEF HubCrash, CallPc
<1>2. ASSUME NEW t \in Task, LoseStart(t) PROVE Basic'
  BY <1>2 DEF LoseStart
<1>3. ASSUME NEW m \in reports, LoseReport(m) PROVE Basic'
  BY <1>3 DEF LoseReport
<1>4. ASSUME NEW t \in Task, NEW r \in Runner, StrayReport(t, r) PROVE Basic'
  <2>1. [task |-> t, runner |-> r, status |-> "failed"] \in Report
    BY DEF Report, Terminal
  <2> QED BY <1>4, <2>1 DEF StrayReport
<1>5. ASSUME NEW r \in Runner, ClaimTimeout(r) \/ RunnerCrash(r) PROVE Basic'
  BY <1>5 DEF ClaimTimeout, RunnerCrash, AgentPc
<1> QED BY <1>1, <1>2, <1>3, <1>4, <1>5 DEF Failure

LEMMA NextBasic == Basic /\ [Next]_vars => Basic'
<1>1. Basic /\ UNCHANGED vars => Basic'
  BY DEF vars, storeVars, rosterVars, hubVars, agentVars, netVars, Basic,
         TypeOK, ShapeOK, StoreTypeOK
<1> QED BY <1>1, HandlerBasic, AgentBasic, OperatorBasic, DeliveryBasic,
           FailureBasic DEF Next

(* Every variable stays in its type in every reachable state.              *)
THEOREM TypeCorrect == Spec => []TypeOK
<1>1. Basic => TypeOK
  BY DEF Basic
<1> QED BY <1>1, InitBasic, NextBasic, PTL DEF Spec

-----------------------------------------------------------------------------
(* The inductive invariant.  ExclusiveExecution is not inductive: that a   *)
(* runner begins a task once rests on the reply that carries the task      *)
(* being the only one, on the task's row naming that runner, and on no     *)
(* report existing for a task that has not ended.                          *)

\* A reply in flight carries a task nobody has begun, of the right owner,
\* and no other reply carries it.
RepliesOK ==
  \A c \in Call : CarriesTask(c) =>
    /\ callTask[c] \in Task
    /\ callRunner[c] \in Runner
    /\ worker[callTask[c]] = callRunner[c]
    /\ status[callTask[c]] \in Active
    /\ runs[callTask[c]] = 0
    /\ \A d \in Call : CarriesTask(d) /\ callTask[d] = callTask[c] => d = c

\* An agent executes its own task, begun once and not ended.
AgentsOK ==
  \A r \in Runner : agentTask[r] # NoTask =>
    /\ worker[agentTask[r]] = r
    /\ status[agentTask[r]] \in Active
    /\ runs[agentTask[r]] = 1
    /\ ended[agentTask[r]] = "absent"

\* A task's row, its result and its history agree.
Unowned == {"absent", "queued", "held", "cancelled"}

RowsOK ==
  \A t \in Task :
    /\ worker[t] = NoRunner <=> status[t] \in Unowned
    /\ worker[t] = NoRunner => runs[t] = 0
    /\ runs[t] \in {0, 1}
    /\ runs[t] = 0 => ended[t] = "absent"
    /\ status[t] \in RunnerOutcome => status[t] = ended[t]
    /\ result[t] # "absent" => result[t] = ended[t] /\ status[t] = ended[t]

\* A report that will be accepted says what its runner saw.
ReportsOK ==
  /\ \A m \in reports :
       /\ worker[m.task] # NoRunner
       /\ worker[m.task] = m.runner => ended[m.task] = m.status
  /\ \A m \in recording :
       /\ worker[m.task] # NoRunner
       /\ ended[m.task] = m.status
       /\ status[m.task] = m.status

IInv == Basic /\ RepliesOK /\ AgentsOK /\ RowsOK /\ ReportsOK

LEMMA InitIInv == Init => IInv
<1> SUFFICES ASSUME Init PROVE IInv
  OBVIOUS
<1>1. Basic
  BY InitBasic
<1>2. RepliesOK /\ AgentsOK
  BY DEF Init, RepliesOK, AgentsOK, CarriesTask
<1>3. RowsOK
  BY DEF Init, StoreInit, RowsOK, Unowned, RunnerOutcome
<1>4. ReportsOK
  BY DEF Init, ReportsOK
<1> QED BY <1>1, <1>2, <1>3, <1>4 DEF IInv

\* An action that writes neither the rows, the calls nor the agents.
LEMMA StutterIInv ==
  ASSUME IInv, Basic',
         UNCHANGED <<status, worker, result, callPc, callRunner, callTask,
                     agentTask, runs, ended>>,
         reports' \subseteq reports, recording' \subseteq recording
  PROVE  IInv'
BY DEF IInv, RepliesOK, AgentsOK, RowsOK, ReportsOK, CarriesTask

\* An action of one call, after which that call carries no task.
LEMMA QuietCallIInv ==
  ASSUME IInv, Basic', NEW c \in Call, ~CarriesTask(c)',
         \A d \in Call : d # c => /\ callPc'[d] = callPc[d]
                                  /\ callRunner'[d] = callRunner[d]
                                  /\ callTask'[d] = callTask[d],
         UNCHANGED <<status, worker, result, agentTask, runs, ended, reports,
                     recording>>
  PROVE  IInv'
<1>1. RepliesOK'
  BY DEF IInv, RepliesOK, CarriesTask
<1> QED BY <1>1 DEF IInv, AgentsOK, RowsOK, ReportsOK

LEMMA OperatorIInv == IInv /\ Operator => IInv'
<1> SUFFICES ASSUME IInv, Operator PROVE IInv'
  OBVIOUS
<1>0. Basic'
  BY OperatorBasic DEF IInv
<1> USE DEF storeVars, rosterVars, hubVars, agentVars, netVars
<1>1. ASSUME NEW t \in Task, Dispatch(t) PROVE IInv'
  <2>1. PICK s \in {"queued", "held"} :
          /\ status[t] = "absent"
          /\ status' = [status EXCEPT ![t] = s]
          /\ UNCHANGED <<worker, result, callPc, callRunner, callTask,
                         agentTask, runs, ended, reports, recording>>
    BY <1>1 DEF Dispatch, CreateTask
  <2>2. \A u \in Task : u # t => status'[u] = status[u]
    BY <2>1 DEF IInv, Basic, TypeOK, StoreTypeOK
  <2>3. status'[t] = s
    BY <2>1 DEF IInv, Basic, TypeOK, StoreTypeOK
  <2>4. RepliesOK'
    BY <2>1, <2>2 DEF IInv, RepliesOK, CarriesTask, Active
  <2>5. AgentsOK'
    BY <2>1, <2>2 DEF IInv, AgentsOK, Active, Basic, ShapeOK
  <2>6. RowsOK'
    BY <2>1, <2>2, <2>3 DEF IInv, RowsOK, Unowned, RunnerOutcome
  <2>7. ReportsOK'
    BY <2>1, <2>2 DEF IInv, ReportsOK, RowsOK, Unowned, Basic, TypeOK, Report
  <2> QED BY <1>0, <2>4, <2>5, <2>6, <2>7 DEF IInv
<1>2. ASSUME NEW t \in Task, CancelBegin(t) PROVE IInv'
  BY <1>0, <1>2, StutterIInv DEF CancelBegin, RequestCancel
<1>3. ASSUME NEW r \in Runner, Drain(r) \/ Undrain(r) \/ Deregister(r)
      PROVE IInv'
  BY <1>0, <1>3, StutterIInv DEF Drain, Undrain, Deregister
<1> QED BY <1>1, <1>2, <1>3 DEF Operator

LEMMA AgentIInv == IInv /\ (\E r \in Runner : Agent(r)) => IInv'
<1> SUFFICES ASSUME IInv, NEW r \in Runner, Agent(r) PROVE IInv'
  OBVIOUS
<1>0. Basic'
  BY AgentBasic DEF IInv
<1> USE DEF storeVars, rosterVars, hubVars, agentVars, netVars
<1>1. CASE Register(r) \/ HeartbeatRegister(r) \/ RunnerRestart(r)
  BY <1>0, <1>1, StutterIInv DEF Register, HeartbeatRegister, RunnerRestart
<1>2. ASSUME NEW s \in RunnerOutcome, Finish(r, s) PROVE IInv'
  <2> DEFINE t == agentTask[r]
             m == [task |-> t, runner |-> r, status |-> s]
  <2>1. /\ t \in Task /\ t # NoTask
        /\ worker[t] = r /\ runs[t] = 1 /\ ended[t] = "absent"
        /\ status[t] \in Active
    BY <1>2, NoTaskAssumption DEF Finish, IInv, Basic, ShapeOK, AgentsOK
  <2>2. /\ ended'[t] = s
        /\ \A u \in Task : u # t => ended'[u] = ended[u]
        /\ reports' = reports \cup {m}
        /\ UNCHANGED <<worker, status, result, runs, callPc, callRunner,
                       callTask, recording>>
    BY <1>2, <2>1 DEF Finish, IInv, Basic, TypeOK
  <2>3. /\ agentTask'[r] = NoTask
        /\ \A q \in Runner : q # r => agentTask'[q] = agentTask[q]
    BY <1>2 DEF Finish, IInv, Basic, TypeOK
  <2>4. RepliesOK'
    BY <2>2 DEF IInv, RepliesOK, CarriesTask
  <2>5. AgentsOK'
    <3> SUFFICES ASSUME NEW q \in Runner, agentTask'[q] # NoTask, q # r
                 PROVE  /\ worker'[agentTask'[q]] = q
                        /\ status'[agentTask'[q]] \in Active
                        /\ runs'[agentTask'[q]] = 1
                        /\ ended'[agentTask'[q]] = "absent"
      BY <2>3 DEF AgentsOK
    <3>1. agentTask[q] \in Task /\ worker[agentTask[q]] = q
      BY <2>3 DEF IInv, AgentsOK, Basic, ShapeOK
    <3> QED BY <2>1, <2>2, <2>3, <3>1 DEF IInv, AgentsOK
  <2>6. RowsOK'
    BY <2>1, <2>2 DEF IInv, RowsOK, Active, RunnerOutcome
  <2>7. ReportsOK'
    <3>1. \A n \in reports \cup recording : n.task \in Task
      BY DEF IInv, Basic, TypeOK, Report
    <3>2. \A n \in recording : n.task # t
      BY <2>1 DEF IInv, ReportsOK, Basic, TypeOK, Report, Active, Terminal
    <3>3. r # NoRunner
      BY NoRunnerAssumption
    <3>4. \A n \in reports : worker[n.task] = n.runner => n.task # t
      BY <2>1 DEF IInv, ReportsOK, Basic, TypeOK, Report, Terminal
    <3> QED BY <2>1, <2>2, <3>1, <3>2, <3>3, <3>4 DEF IInv, ReportsOK
  <2> QED BY <1>0, <2>4, <2>5, <2>6, <2>7 DEF IInv
<1>3. ASSUME NEW c \in Call, ClaimBegin(r, c) PROVE IInv'
  BY <1>0, <1>3, QuietCallIInv
     DEF ClaimBegin, CarriesTask, IInv, Basic, TypeOK
<1>4. ASSUME NEW c \in Call, ReceiveTask(r, c) PROVE IInv'
  <2> DEFINE t == callTask[c]
  <2>1. /\ t \in Task /\ CarriesTask(c)
        /\ worker[t] = r /\ runs[t] = 0 /\ ended[t] = "absent"
        /\ status[t] \in Active
        /\ \A d \in Call : CarriesTask(d) /\ callTask[d] = t => d = c
    BY <1>4 DEF ReceiveTask, Answered, IInv, RepliesOK, RowsOK
  <2>2. /\ ~CarriesTask(c)'
        /\ \A d \in Call : d # c => /\ callPc'[d] = callPc[d]
                                    /\ callRunner'[d] = callRunner[d]
                                    /\ callTask'[d] = callTask[d]
        /\ UNCHANGED <<status, worker, result, ended, reports, recording>>
    BY <1>4 DEF ReceiveTask, FreeCall, CarriesTask, IInv, Basic, TypeOK
  <2>3. /\ runs'[t] = 1
        /\ \A u \in Task : u # t => runs'[u] = runs[u]
        /\ agentTask'[r] = t
        /\ \A q \in Runner : q # r => agentTask'[q] = agentTask[q]
    BY <1>4, <2>1 DEF ReceiveTask, IInv, Basic, TypeOK
  <2>4. RepliesOK'
    BY <2>1, <2>2, <2>3 DEF IInv, RepliesOK, CarriesTask
  <2>5. AgentsOK'
    <3> SUFFICES ASSUME NEW q \in Runner, agentTask'[q] # NoTask, q # r
                 PROVE  /\ worker'[agentTask'[q]] = q
                        /\ status'[agentTask'[q]] \in Active
                        /\ runs'[agentTask'[q]] = 1
                        /\ ended'[agentTask'[q]] = "absent"
      BY <2>1, <2>2, <2>3 DEF AgentsOK
    <3>1. agentTask[q] \in Task /\ worker[agentTask[q]] = q
      BY <2>3 DEF IInv, AgentsOK, Basic, ShapeOK
    <3> QED BY <2>1, <2>2, <2>3, <3>1 DEF IInv, AgentsOK
  <2>6. RowsOK'
    BY <2>1, <2>2, <2>3, NoRunnerAssumption DEF IInv, RowsOK
  <2> QED BY <1>0, <2>2, <2>4, <2>5, <2>6 DEF IInv, ReportsOK
<1>5. ASSUME NEW c \in Call, ReceiveNothing(r, c) PROVE IInv'
  BY <1>0, <1>5, QuietCallIInv
     DEF ReceiveNothing, FreeCall, CarriesTask, IInv, Basic, TypeOK
<1> QED BY <1>1, <1>2, <1>3, <1>4, <1>5 DEF Agent

LEMMA HandlerIInv == IInv /\ (\E c \in Call : ClaimHandler(c)) => IInv'
<1> SUFFICES ASSUME IInv, NEW c \in Call, ClaimHandler(c) PROVE IInv'
  OBVIOUS
<1>0. Basic'
  BY HandlerBasic DEF IInv
<1> USE DEF storeVars, rosterVars, agentVars, netVars
<1>1. CASE ReadRunner(c)
  BY <1>0, <1>1, QuietCallIInv
     DEF ReadRunner, HandlerStep, CarriesTask, IInv, Basic, TypeOK, ShapeOK
<1>2. CASE CountClaimed(c)
  BY <1>0, <1>2, QuietCallIInv
     DEF CountClaimed, HandlerStep, CarriesTask, IInv, Basic, TypeOK, ShapeOK
<1>3. CASE CountRunning(c)
  BY <1>0, <1>3, QuietCallIInv
     DEF CountRunning, HandlerStep, CarriesTask, IInv, Basic, TypeOK, ShapeOK
<1>4. CASE PickTask(c)
  BY <1>0, <1>4, QuietCallIInv
     DEF PickTask, HandlerStep, CarriesTask, IInv, Basic, TypeOK, ShapeOK
<1>5. CASE SecretsFail(c) \/ ClaimLost(c) \/ ClaimFails(c)
  BY <1>0, <1>5, QuietCallIInv
     DEF SecretsFail, ClaimLost, ClaimFails, HandlerStep, CarriesTask, IInv,
         Basic, TypeOK
<1>6. CASE DropCall(c)
  BY <1>0, <1>6, QuietCallIInv
     DEF DropCall, FreeCall, CarriesTask, IInv, Basic, TypeOK
<1>7. CASE ClaimWon(c)
  <2> DEFINE t == callTask[c]
             r == callRunner[c]
  <2>1. /\ t \in Task /\ r \in Runner /\ r # NoRunner
        /\ status[t] = "queued" /\ worker[t] = NoRunner
        /\ runs[t] = 0 /\ ended[t] = "absent" /\ result[t] = "absent"
    <3>1. t \in Task /\ r \in Runner /\ status[t] = "queued"
      BY <1>7 DEF ClaimWon, ClaimTask, Claimable, IInv, Basic, ShapeOK
    <3>2. worker[t] = NoRunner /\ runs[t] = 0
      BY <3>1 DEF IInv, RowsOK, Unowned
    <3> QED BY <3>1, <3>2, NoRunnerAssumption DEF IInv, RowsOK
  <2>2. /\ status'[t] = "claimed" /\ worker'[t] = r
        /\ \A u \in Task : u # t => /\ status'[u] = status[u]
                                   /\ worker'[u] = worker[u]
        /\ UNCHANGED <<result, callRunner, agentTask, runs, ended, reports,
                       recording>>
        /\ callTask' = callTask \/ callTask' = [callTask EXCEPT ![c] = NoTask]
        /\ callPc' = [callPc EXCEPT ![c] = "reply"]
    BY <1>7, <2>1 DEF ClaimWon, ClaimTask, HandlerStep, IInv, Basic, TypeOK,
                      StoreTypeOK
  <2>3. \A d \in Call : CarriesTask(d) => callTask[d] # t
    BY <2>1 DEF IInv, RepliesOK, Active
  <2>4. RepliesOK'
    <3>1. \A d \in Call : d # c =>
            /\ CarriesTask(d)' <=> CarriesTask(d)
            /\ callTask'[d] = callTask[d]
      BY <2>2 DEF CarriesTask, IInv, Basic, TypeOK
    <3>2. CarriesTask(c)' => callTask'[c] = t
      BY <2>2 DEF CarriesTask, IInv, Basic, TypeOK
    <3> QED BY <2>1, <2>2, <2>3, <3>1, <3>2 DEF IInv, RepliesOK, Active
  <2>5. AgentsOK'
    BY <2>1, <2>2 DEF IInv, AgentsOK, Basic, ShapeOK
  <2>6. RowsOK'
    BY <2>1, <2>2 DEF IInv, RowsOK, Unowned, RunnerOutcome
  <2>7. ReportsOK'
    BY <2>1, <2>2 DEF IInv, ReportsOK, Basic, TypeOK, Report
  <2> QED BY <1>0, <2>4, <2>5, <2>6, <2>7 DEF IInv
<1> QED BY <1>1, <1>2, <1>3, <1>4, <1>5, <1>6, <1>7 DEF ClaimHandler

LEMMA DeliveryIInv == IInv /\ Delivery => IInv'
<1> SUFFICES ASSUME IInv, Delivery PROVE IInv'
  OBVIOUS
<1>0. Basic'
  BY DeliveryBasic DEF IInv
<1> USE DEF storeVars, rosterVars, hubVars, agentVars, netVars
<1>1. ASSUME NEW t \in Task, HandleStart(t) PROVE IInv'
  <2>1. /\ status[t] \notin Active => status' = status
        /\ status[t] \in Active => status'[t] = "running"
        /\ \A u \in Task : u # t => status'[u] = status[u]
        /\ UNCHANGED <<worker, result, callPc, callRunner, callTask, agentTask,
                       runs, ended, reports, recording>>
    BY <1>1 DEF HandleStart, MarkRunning, MayRun, IInv, Basic, TypeOK,
                StoreTypeOK
  <2>2. RepliesOK' /\ AgentsOK'
    BY <2>1 DEF IInv, RepliesOK, AgentsOK, CarriesTask, Active, Basic, ShapeOK
  <2>3. RowsOK'
    BY <2>1 DEF IInv, RowsOK, Active, Unowned, RunnerOutcome, Basic, TypeOK
  <2>4. ReportsOK'
    BY <2>1 DEF IInv, ReportsOK, Basic, TypeOK, Report, Active, Terminal
  <2> QED BY <1>0, <2>2, <2>3, <2>4 DEF IInv
<1>2. ASSUME NEW t \in Task, CancelEnd(t) PROVE IInv'
  <2>1. /\ status[t] # "queued" => status' = status
        /\ status[t] = "queued" => status'[t] = "cancelled"
        /\ \A u \in Task : u # t => status'[u] = status[u]
        /\ UNCHANGED <<worker, result, callPc, callRunner, callTask, agentTask,
                       runs, ended, reports, recording>>
    BY <1>2 DEF CancelEnd, CancelQueued, IInv, Basic, TypeOK, StoreTypeOK
  <2>2. RepliesOK' /\ AgentsOK'
    BY <2>1 DEF IInv, RepliesOK, AgentsOK, CarriesTask, Active, Basic, ShapeOK
  <2>3. RowsOK'
    BY <2>1 DEF IInv, RowsOK, Unowned, RunnerOutcome
  <2>4. ReportsOK'
    BY <2>1 DEF IInv, ReportsOK, Basic, TypeOK, Report, Terminal
  <2> QED BY <1>0, <2>2, <2>3, <2>4 DEF IInv
<1>3. ASSUME NEW m \in reports, HandleReport(m) PROVE IInv'
  <2>1. CASE UNCHANGED <<storeVars, recording>>
    <3>1. reports' \subseteq reports
      BY <1>3 DEF HandleReport, Repeated
    <3> QED BY <1>0, <1>3, <2>1, <3>1, StutterIInv DEF HandleReport
  <2>2. CASE FinishTask(m.task, m.runner, m.status) /\ recording' = recording \cup {m}
    <3> DEFINE t == m.task
    <3>1. /\ t \in Task /\ m.runner \in Runner
          /\ worker[t] = m.runner /\ worker[t] # NoRunner
          /\ ended[t] = m.status /\ ended[t] # "absent"
          /\ m.status \in RunnerOutcome
      <4>1. t \in Task /\ m.runner \in Runner /\ m.status \in Terminal
        BY DEF IInv, Basic, TypeOK, Report
      <4>2. worker[t] = m.runner /\ ended[t] = m.status
        BY <2>2 DEF FinishTask, OwnedBy, IInv, ReportsOK
      <4> QED BY <4>1, <4>2, NoRunnerAssumption
              DEF IInv, Basic, TypeOK, Terminal, RunnerOutcome
    <3>2. /\ status'[t] = m.status
          /\ \A u \in Task : u # t => status'[u] = status[u]
          /\ UNCHANGED <<worker, result, callPc, callRunner, callTask,
                         agentTask, runs, ended>>
          /\ reports' \subseteq reports
      BY <1>3, <2>2, <3>1 DEF HandleReport, FinishTask, Repeated, IInv, Basic,
                              TypeOK, StoreTypeOK
    <3>3. /\ \A c \in Call : CarriesTask(c) => callTask[c] # t
          /\ \A r \in Runner : agentTask[r] # NoTask => agentTask[r] # t
      BY <3>1 DEF IInv, RepliesOK, AgentsOK, RowsOK
    <3>4. RepliesOK' /\ AgentsOK'
      BY <3>2, <3>3 DEF IInv, RepliesOK, AgentsOK, CarriesTask, Basic, ShapeOK
    <3>5. RowsOK'
      BY <3>1, <3>2 DEF IInv, RowsOK, Unowned, RunnerOutcome
    <3>6. ReportsOK'
      BY <2>2, <3>1, <3>2 DEF IInv, ReportsOK, Basic, TypeOK, Report
    <3> QED BY <1>0, <3>4, <3>5, <3>6 DEF IInv
  <2> QED BY <1>3, <2>1, <2>2 DEF HandleReport
<1>4. ASSUME NEW m \in recording, RecordResult(m) PROVE IInv'
  <2>1. /\ m.task \in Task
        /\ result'[m.task] = m.status
        /\ \A u \in Task : u # m.task => result'[u] = result[u]
        /\ UNCHANGED <<status, worker, callPc, callRunner, callTask, agentTask,
                       runs, ended, reports>>
        /\ recording' \subseteq recording
    BY <1>4 DEF RecordResult, InsertResult, IInv, Basic, TypeOK, StoreTypeOK,
                Report
  <2>2. ended[m.task] = m.status /\ status[m.task] = m.status
    BY DEF IInv, ReportsOK
  <2>3. RowsOK'
    BY <2>1, <2>2 DEF IInv, RowsOK
  <2> QED BY <1>0, <2>1, <2>3 DEF IInv, RepliesOK, AgentsOK, ReportsOK,
                                  CarriesTask
<1> QED BY <1>1, <1>2, <1>3, <1>4 DEF Delivery

LEMMA FailureIInv == IInv /\ Failure => IInv'
<1> SUFFICES ASSUME IInv, Failure PROVE IInv'
  OBVIOUS
<1>0. Basic'
  BY FailureBasic DEF IInv
<1> USE DEF storeVars, rosterVars, hubVars, agentVars, netVars
<1>1. CASE HubCrash
  BY <1>0, <1>1 DEF HubCrash, IInv, RepliesOK, AgentsOK, RowsOK, ReportsOK,
                    CarriesTask
<1>2. ASSUME NEW t \in Task, LoseStart(t) PROVE IInv'
  BY <1>0, <1>2, StutterIInv DEF LoseStart
<1>3. ASSUME NEW m \in reports, LoseReport(m) PROVE IInv'
  BY <1>0, <1>3, StutterIInv DEF LoseReport
<1>4. ASSUME NEW t \in Task, NEW r \in Runner, StrayReport(t, r) PROVE IInv'
  <2>1. ReportsOK'
    BY <1>4 DEF StrayReport, IInv, ReportsOK
  <2> QED BY <1>0, <1>4, <2>1 DEF StrayReport, IInv, RepliesOK, AgentsOK,
                                  RowsOK, CarriesTask
<1>5. ASSUME NEW r \in Runner, ClaimTimeout(r) PROVE IInv'
  BY <1>0, <1>5, StutterIInv DEF ClaimTimeout
<1>6. ASSUME NEW r \in Runner, RunnerCrash(r) PROVE IInv'
  <2>1. \A q \in Runner : agentTask'[q] # NoTask => agentTask'[q] = agentTask[q]
    BY <1>6 DEF RunnerCrash, IInv, Basic, TypeOK
  <2> QED BY <1>0, <1>6, <2>1 DEF RunnerCrash, IInv, RepliesOK, AgentsOK,
                                  RowsOK, ReportsOK, CarriesTask
<1> QED BY <1>1, <1>2, <1>3, <1>4, <1>5, <1>6 DEF Failure

LEMMA NextIInv == IInv /\ [Next]_vars => IInv'
<1>1. IInv /\ UNCHANGED vars => IInv'
  <2> SUFFICES ASSUME IInv, UNCHANGED vars PROVE IInv'
    OBVIOUS
  <2>1. Basic'
    BY NextBasic DEF IInv
  <2> QED BY <2>1, StutterIInv
          DEF vars, storeVars, rosterVars, hubVars, agentVars, netVars
<1> QED BY <1>1, HandlerIInv, AgentIInv, OperatorIInv, DeliveryIInv,
           FailureIInv DEF Next

LEMMA Invariance == Spec => []IInv
BY InitIInv, NextIInv, PTL DEF Spec

-----------------------------------------------------------------------------
(* What the invariant says of the code.                                    *)

\* claim_task's compare-and-set gives a task to one runner, which alone
\* executes it and does so once.
THEOREM ExclusiveExecutionHolds == Spec => []ExclusiveExecution
<1>1. IInv => ExclusiveExecution
  BY DEF IInv, AgentsOK, RowsOK, ExclusiveExecution
<1> QED BY <1>1, Invariance, PTL

\* cancel_task's second statement and a claim in flight never both win.
THEOREM CancelledNeverRanHolds == Spec => []CancelledNeverRan
<1>1. IInv => CancelledNeverRan
  <2> SUFFICES ASSUME IInv, NEW t \in Task, status[t] = "cancelled"
               PROVE  /\ runs[t] = 0
                      /\ \A c \in Call :
                           ~(callPc[c] = "reply" /\ callTask[c] = t)
    BY DEF CancelledNeverRan
  <2>1. runs[t] = 0
    BY DEF IInv, RowsOK, Unowned
  <2>2. ASSUME NEW c \in Call, callPc[c] = "reply", callTask[c] = t PROVE FALSE
    <3>1. CarriesTask(c)
      BY <2>2, NoTaskAssumption DEF CarriesTask
    <3> QED BY <2>2, <3>1 DEF IInv, RepliesOK, Active
  <2> QED BY <2>1, <2>2
<1> QED BY <1>1, Invariance, PTL

\* submit_result records what the executing runner saw, and nothing else.
THEOREM RecordedAsEndedHolds == Spec => []RecordedAsEnded
<1>1. IInv => RecordedAsEnded
  BY DEF IInv, RowsOK, RecordedAsEnded
<1> QED BY <1>1, Invariance, PTL

-----------------------------------------------------------------------------
(* The refinement.  TaskOwnership sees a step only where the row of a task *)
(* or the history of its execution changes.                                *)

LEMMA UnseenStep ==
  ASSUME UNCHANGED <<status, worker, runs, ended>>
  PROVE  UNCHANGED Ownership!vars
BY DEF Ownership!vars, Phase

\* A report that is accepted closes the task as its run ended, or repeats
\* what is recorded already.
LEMMA AcceptedReport ==
  ASSUME IInv, NEW m \in reports, OwnedBy(m.task, m.runner)
  PROVE  /\ m.task \in Task
         /\ m.status \in RunnerOutcome
         /\ ended[m.task] = m.status
         /\ runs[m.task] = 1
         /\ status[m.task] \in Active \cup {m.status}
<1> DEFINE t == m.task
<1>1. t \in Task /\ m.runner \in Runner /\ m.status \in Terminal
  BY DEF IInv, Basic, TypeOK, Report
<1>2. worker[t] # NoRunner /\ ended[t] = m.status
  BY DEF OwnedBy, IInv, ReportsOK
<1>3. m.status \in RunnerOutcome
  BY <1>1, <1>2 DEF IInv, Basic, TypeOK, Terminal, RunnerOutcome
<1>4. runs[t] = 1
  BY <1>1, <1>2, <1>3 DEF IInv, RowsOK, RunnerOutcome
<1>5. status[t] \in Active \cup RunnerOutcome
  BY <1>1, <1>2 DEF IInv, RowsOK, Unowned, Basic, TypeOK, StoreTypeOK, Status,
                    Terminal, Active, RunnerOutcome
<1>6. status[t] \in RunnerOutcome => status[t] = m.status
  BY <1>1, <1>2 DEF IInv, RowsOK
<1> QED BY <1>1, <1>2, <1>3, <1>4, <1>5, <1>6

\* What TaskOwnership records of a task.
Recorded(t) == IF status[t] \in Terminal THEN status[t] ELSE "absent"

LEMMA InitOwnership == Init => Ownership!Init
BY DEF Init, StoreInit, Ownership!Init, Phase, Terminal

\* An action that touches one task maps to a step of that task.
LEMMA OneTask ==
  ASSUME IInv, NEW t \in Task,
         \A u \in Task : u # t => /\ status'[u] = status[u]
                                  /\ runs'[u] = runs[u]
  PROVE  /\ [u \in Task |-> Phase(u)]' =
              [[u \in Task |-> Phase(u)] EXCEPT ![t] = Phase(t)']
         /\ [u \in Task |-> Recorded(u)]' =
              [[u \in Task |-> Recorded(u)] EXCEPT ![t] = Recorded(t)']
BY DEF Phase, Recorded

LEMMA StepImplements == IInv /\ [Next]_vars => [Ownership!Next]_(Ownership!vars)
<1> SUFFICES ASSUME IInv, [Next]_vars
             PROVE  Ownership!Next \/ UNCHANGED Ownership!vars
  OBVIOUS
<1> USE DEF storeVars, rosterVars, hubVars, agentVars, netVars
<1>0. /\ status \in [Task -> Status] /\ runs \in [Task -> Nat]
      /\ worker \in [Task -> Runner \cup {NoRunner}]
      /\ ended \in [Task -> RunnerOutcome \cup {"absent"}]
  BY DEF IInv, Basic, TypeOK, StoreTypeOK
<1>1. CASE UNCHANGED vars
  BY <1>1, UnseenStep DEF vars
<1>2. ASSUME NEW t \in Task, Dispatch(t) PROVE Ownership!Next
  <2>1. PICK s \in {"queued", "held"} :
          /\ status[t] = "absent"
          /\ status' = [status EXCEPT ![t] = s]
          /\ UNCHANGED <<worker, runs, ended>>
    BY <1>2 DEF Dispatch, CreateTask
  <2>2. /\ Phase(t) = "none" /\ Phase(t)' \in {"open", "held"}
        /\ Recorded(t)' = Recorded(t)
    BY <1>0, <2>1 DEF Phase, Recorded, Terminal
  <2>3. Ownership!Submit(t)
    BY <1>0, <2>1, <2>2, OneTask DEF Ownership!Submit, Recorded
  <2> QED BY <2>3 DEF Ownership!Next
<1>3. ASSUME NEW t \in Task, CancelEnd(t)
      PROVE  Ownership!Next \/ UNCHANGED Ownership!vars
  <2>1. CASE status[t] # "queued"
    <3>1. status' = status
      BY <1>0, <1>3, <2>1 DEF CancelEnd, CancelQueued
    <3> QED BY <1>3, <3>1, UnseenStep DEF CancelEnd, CancelQueued
  <2>2. CASE status[t] = "queued"
    <3>1. /\ status' = [status EXCEPT ![t] = "cancelled"]
          /\ UNCHANGED <<worker, runs, ended>>
      BY <1>3, <2>2 DEF CancelEnd, CancelQueued
    <3>2. /\ Phase(t) = "open" /\ Phase(t)' = "closed"
          /\ Recorded(t)' = "cancelled"
      BY <1>0, <2>2, <3>1 DEF Phase, Recorded, Terminal
    <3>3. Ownership!Withdraw(t)
      BY <1>0, <3>1, <3>2, OneTask DEF Ownership!Withdraw, Recorded
    <3> QED BY <3>3 DEF Ownership!Next
  <2> QED BY <2>1, <2>2
<1>4. ASSUME NEW c \in Call, ClaimWon(c) PROVE Ownership!Next
  <2>1. PICK t \in Task, r \in Runner :
          /\ status[t] = "queued"
          /\ status' = [status EXCEPT ![t] = "claimed"]
          /\ worker' = [worker EXCEPT ![t] = r]
          /\ UNCHANGED <<runs, ended>>
    <3>1. callRunner[c] \in Runner
      BY <1>4 DEF ClaimWon, IInv, Basic, ShapeOK
    <3> QED BY <1>4, <3>1 DEF ClaimWon, ClaimTask, Claimable, HandlerStep
  <2>2. runs[t] = 0
    BY <2>1 DEF IInv, RowsOK, Unowned
  <2>3. /\ Phase(t) = "open" /\ Phase(t)' = "owned"
        /\ Recorded(t)' = Recorded(t)
    BY <1>0, <2>1, <2>2 DEF Phase, Recorded, Terminal
  <2>4. Ownership!Give(t)
    BY <1>0, <2>1, <2>3, OneTask DEF Ownership!Give, Recorded
  <2> QED BY <2>1, <2>4 DEF Ownership!Next
<1>5. ASSUME NEW r \in Runner, NEW c \in Call, ReceiveTask(r, c)
      PROVE  Ownership!Next
  <2>1. PICK t \in Task :
          /\ status[t] \in Active /\ runs[t] = 0
          /\ runs' = [runs EXCEPT ![t] = 1]
          /\ UNCHANGED <<status, worker, ended>>
    <3>1. /\ callTask[c] \in Task /\ status[callTask[c]] \in Active
          /\ runs[callTask[c]] = 0
      BY <1>5 DEF ReceiveTask, IInv, RepliesOK
    <3>2. /\ runs' = [runs EXCEPT ![callTask[c]] = 1]
          /\ UNCHANGED <<status, worker, ended>>
      BY <1>0, <1>5, <3>1 DEF ReceiveTask
    <3> QED BY <3>1, <3>2
  <2>2. /\ Phase(t) = "owned" /\ Phase(t)' = "begun"
        /\ Recorded(t)' = Recorded(t)
    BY <1>0, <2>1 DEF Phase, Recorded, Active, Terminal
  <2>3. Ownership!Begin(t)
    BY <1>0, <2>1, <2>2, OneTask DEF Ownership!Begin, Recorded
  <2> QED BY <2>1, <2>3 DEF Ownership!Next
<1>6. ASSUME NEW r \in Runner, NEW s \in RunnerOutcome, Finish(r, s)
      PROVE  Ownership!Next
  <2> DEFINE t == agentTask[r]
  <2>1. /\ t \in Task /\ status[t] \in Active /\ runs[t] = 1
        /\ ended[t] = "absent"
        /\ ended' = [ended EXCEPT ![t] = s]
        /\ UNCHANGED <<status, worker, runs>>
    BY <1>6, NoTaskAssumption DEF Finish, IInv, Basic, ShapeOK, AgentsOK
  <2>2. Phase(t) = "begun"
    BY <2>1 DEF Phase, Active, Terminal
  <2>3. Ownership!End(t)
    BY <1>0, <2>1, <2>2 DEF Ownership!End, Phase
  <2> QED BY <2>1, <2>3 DEF Ownership!Next
<1>7. ASSUME NEW t \in Task, HandleStart(t) PROVE UNCHANGED Ownership!vars
  <2>1. /\ status' = [status EXCEPT
                        ![t] = IF status[t] \in Active THEN "running" ELSE @]
        /\ UNCHANGED <<worker, runs, ended>>
    BY <1>7 DEF HandleStart, MarkRunning, MayRun
  <2>2. /\ Phase(t)' = Phase(t) /\ Recorded(t)' = Recorded(t)
        /\ \A u \in Task : u # t => /\ Phase(u)' = Phase(u)
                                    /\ Recorded(u)' = Recorded(u)
    BY <1>0, <2>1 DEF Phase, Recorded, Active, Terminal
  <2> QED BY <2>1, <2>2 DEF Ownership!vars, Recorded
<1>8. ASSUME NEW m \in reports, HandleReport(m)
      PROVE  Ownership!Next \/ UNCHANGED Ownership!vars
  <2>1. CASE UNCHANGED storeVars
    BY <1>8, <2>1, UnseenStep DEF HandleReport
  <2>2. CASE FinishTask(m.task, m.runner, m.status)
    <3> DEFINE t == m.task
    <3>1. /\ t \in Task /\ m.status \in RunnerOutcome /\ ended[t] = m.status
          /\ runs[t] = 1 /\ status[t] \in Active \cup {m.status}
      BY <2>2, AcceptedReport DEF FinishTask
    <3>2. /\ status' = [status EXCEPT ![t] = m.status]
          /\ UNCHANGED <<worker, runs, ended>>
      BY <1>8, <2>2 DEF HandleReport, FinishTask
    <3>3. CASE status[t] = m.status
      <4>1. status' = status
        BY <1>0, <3>1, <3>2, <3>3
      <4> QED BY <3>2, <4>1, UnseenStep
    <3>4. CASE status[t] \in Active
      <4>1. /\ Phase(t) = "begun" /\ Phase(t)' = "closed"
            /\ Recorded(t)' = m.status
        BY <1>0, <3>1, <3>2, <3>4
           DEF Phase, Recorded, Active, Terminal, RunnerOutcome
      <4>2. Ownership!Close(t)
        BY <1>0, <3>1, <3>2, <4>1, OneTask
           DEF Ownership!Close, Recorded, RunnerOutcome
      <4> QED BY <3>1, <4>2 DEF Ownership!Next
    <3> QED BY <3>1, <3>3, <3>4
  <2> QED BY <1>8, <2>1, <2>2 DEF HandleReport
<1>9. ASSUME NEW m \in recording, RecordResult(m)
      PROVE  UNCHANGED Ownership!vars
  BY <1>9, UnseenStep DEF RecordResult, InsertResult
<1>10. ASSUME Failure PROVE UNCHANGED Ownership!vars
  BY <1>10, UnseenStep DEF Failure, HubCrash, LoseStart, LoseReport,
       StrayReport, ClaimTimeout, RunnerCrash
<1>11. ASSUME NEW c \in Call, ClaimHandler(c), ~ClaimWon(c)
       PROVE  UNCHANGED Ownership!vars
  BY <1>11, UnseenStep DEF ClaimHandler, ReadRunner, CountClaimed,
       CountRunning, PickTask, SecretsFail, ClaimLost, ClaimFails, DropCall,
       HandlerStep
<1>12. ASSUME NEW r \in Runner, Agent(r),
              ~ \E s \in RunnerOutcome : Finish(r, s),
              ~ \E c \in Call : ReceiveTask(r, c)
       PROVE  UNCHANGED Ownership!vars
  BY <1>12, UnseenStep DEF Agent, Register, HeartbeatRegister, RunnerRestart,
       ClaimBegin, ReceiveNothing
<1>13. ASSUME Operator, ~ \E t \in Task : Dispatch(t)
       PROVE  UNCHANGED Ownership!vars
  BY <1>13, UnseenStep DEF Operator, CancelBegin, RequestCancel, Drain,
       Undrain, Deregister
<1> QED BY <1>1, <1>2, <1>3, <1>4, <1>5, <1>6, <1>7, <1>8, <1>9, <1>10, <1>11,
           <1>12, <1>13 DEF Next, Delivery

\* The hub, its runners and the network between them implement TaskOwnership:
\* a task is given once, run once by its owner, and closed once with what
\* that run saw, or withdrawn untouched.
THEOREM Implementation == Spec => ImplementsOwnership
<1>1. IInv /\ [Next]_vars => [Ownership!Next]_(Ownership!vars)
  BY StepImplements
<1> QED BY <1>1, InitOwnership, Invariance, PTL
        DEF Spec, ImplementsOwnership, Ownership!Spec

\* No late start, cancel, claim or repeated result changes a terminal task or
\* takes a task from its owner.  It follows from the refinement: TaskOwnership
\* has no step out of "closed", and gives only what is "open".
THEOREM TerminalIsFinalHolds == Spec => TerminalIsFinal
<1>1. ASSUME IInv, [Ownership!Next]_(Ownership!vars)
      PROVE  KeepsWhatEnded
  <2> SUFFICES ASSUME NEW t \in Task
               PROVE  /\ status[t] \in Terminal => status'[t] = status[t]
                      /\ worker[t] # NoRunner => worker'[t] = worker[t]
    BY DEF KeepsWhatEnded
  <2> DEFINE phaseBar == [u \in Task |-> Phase(u)]
             recordedBar == [u \in Task |-> Recorded(u)]
  <2>0. worker \in [Task -> Runner \cup {NoRunner}]
    BY <1>1 DEF IInv, Basic, TypeOK, StoreTypeOK
  <2>1. /\ phaseBar[t] = "closed" => recordedBar'[t] = recordedBar[t]
        /\ phaseBar[t] # "open" => worker'[t] = worker[t]
    <3>1. CASE UNCHANGED Ownership!vars
      BY <3>1 DEF Ownership!vars, Recorded
    <3>2. ASSUME NEW u \in Task,
                 \/ Ownership!Submit(u) \/ Ownership!Begin(u)
                 \/ Ownership!End(u)
          PROVE  recordedBar' = recordedBar /\ worker' = worker
      BY <3>2 DEF Ownership!Submit, Ownership!Begin, Ownership!End, Recorded
    <3>3. ASSUME NEW u \in Task, Ownership!Give(u)
          PROVE  /\ recordedBar' = recordedBar
                 /\ u # t => worker'[t] = worker[t]
                 /\ phaseBar[u] = "open"
      BY <2>0, <3>3 DEF Ownership!Give, Recorded
    <3>4. ASSUME NEW u \in Task, Ownership!Close(u) \/ Ownership!Withdraw(u)
          PROVE  /\ u # t => recordedBar'[t] = recordedBar[t]
                 /\ phaseBar[u] # "closed"
                 /\ worker' = worker
      BY <3>4 DEF Ownership!Close, Ownership!Withdraw, Recorded
    <3> QED BY <1>1, <3>1, <3>2, <3>3, <3>4 DEF Ownership!Next
  <2>2. status[t] \in Terminal => status'[t] = status[t]
    BY <2>1 DEF Phase, Recorded, Terminal
  <2>3. worker[t] # NoRunner => worker'[t] = worker[t]
    BY <1>1, <2>1 DEF Phase, IInv, RowsOK, Unowned
  <2> QED BY <2>2, <2>3
<1>2. IInv /\ [Next]_vars => [KeepsWhatEnded]_vars
  BY <1>1, StepImplements
<1> QED BY <1>2, Invariance, PTL DEF Spec, TerminalIsFinal

-----------------------------------------------------------------------------
(* The concurrency cap.  A claim compares with the cap what it counted     *)
(* some steps ago, so how far the cap is exceeded does not follow from the *)
(* tasks alone: a claim that will still pass the comparison has to be      *)
(* counted like a task.  Whether it will depends on how many tasks are     *)
(* running when it reads them, and those only end.  So the bound is kept   *)
(* for every number n of running tasks, up to the present one, that the    *)
(* comparison may still see.                                               *)

Claimed(r) == HeldBy(r, "claimed")
Running(r) == HeldBy(r, "running")

\* The claims of r that passed the cap, or will if they find n tasks running.
Admissible(r, n) ==
  {c \in Call : /\ callRunner[c] = r
                /\ \/ callPc[c] \in {"queue", "cas"}
                   \/ callPc[c] = "running" /\ callLoad[c] + n < MaxConcurrent[r]}

CapKept(r) ==
  \A n \in 0 .. Cardinality(Running(r)) :
    Cardinality(Claimed(r)) + n + Cardinality(Admissible(r, n))
      <= MaxConcurrent[r] + Cardinality(Call) - 1

CapInv == \A r \in Runner \ LegacyRunner : CapKept(r)

\* What the bound needs: claims that are finitely many, and a store whose reads
\* of the list do not fail (a failed read counts as empty).
CapContext == IsFiniteSet(Call) /\ Call # {} /\ "storeerror" \notin Events

LEMMA FiniteTasks == IsFiniteSet(Task)
<1>1. 1 \in Int /\ NTasks \in Int
  BY NTasksAssumption
<1> QED BY <1>1, FS_Interval DEF Task

LEMMA HeldSize ==
  ASSUME NEW r, NEW s
  PROVE  IsFiniteSet(HeldBy(r, s)) /\ Cardinality(HeldBy(r, s)) \in Nat
<1>1. HeldBy(r, s) \in SUBSET Task
  BY DEF HeldBy
<1> QED BY <1>1, FiniteTasks, FS_Subset, FS_CardinalityType

LEMMA AdmissibleSize ==
  ASSUME CapContext, NEW r, NEW n
  PROVE  /\ IsFiniteSet(Admissible(r, n)) /\ Cardinality(Admissible(r, n)) \in Nat
         /\ Cardinality(Call) \in Nat
<1>1. Admissible(r, n) \in SUBSET Call
  BY DEF Admissible
<1> QED BY <1>1, FS_Subset, FS_CardinalityType DEF CapContext

\* The sizes after a step, as sets of the state after it.
LEMMA SizesAfter ==
  ASSUME CapContext, NEW r, NEW n
  PROVE  /\ IsFiniteSet(Claimed(r)') /\ Cardinality(Claimed(r)') \in Nat
         /\ IsFiniteSet(Running(r)') /\ Cardinality(Running(r)') \in Nat
         /\ IsFiniteSet(Admissible(r, n)') /\ Cardinality(Admissible(r, n)') \in Nat
<1>1. Claimed(r)' \in SUBSET Task /\ Running(r)' \in SUBSET Task
  BY DEF Claimed, Running, HeldBy
<1>2. Admissible(r, n)' \in SUBSET Call
  BY DEF Admissible
<1>3. IsFiniteSet(Claimed(r)') /\ Cardinality(Claimed(r)') \in Nat
  BY <1>1, FiniteTasks, FS_Subset, FS_CardinalityType
<1>4. IsFiniteSet(Running(r)') /\ Cardinality(Running(r)') \in Nat
  BY <1>1, FiniteTasks, FS_Subset, FS_CardinalityType
<1>5. IsFiniteSet(Admissible(r, n)') /\ Cardinality(Admissible(r, n)') \in Nat
  BY <1>2, FS_Subset, FS_CardinalityType DEF CapContext
<1> QED BY <1>3, <1>4, <1>5

\* A step after which r holds no more claimed and running tasks and has no more
\* admissible claims.
LEMMA NoMore ==
  ASSUME CapContext, TypeOK, NEW r \in Runner \ LegacyRunner, CapKept(r),
         Claimed(r)' \subseteq Claimed(r), Running(r)' \subseteq Running(r),
         \A n \in 0 .. Cardinality(Running(r)) : Admissible(r, n)' \subseteq Admissible(r, n)
  PROVE  CapKept(r)'
<1>1. /\ Cardinality(Claimed(r)) \in Nat /\ Cardinality(Running(r)) \in Nat
      /\ Cardinality(Claimed(r)') <= Cardinality(Claimed(r))
      /\ Cardinality(Running(r)') <= Cardinality(Running(r))
  BY HeldSize, FS_Subset DEF Claimed, Running
<1>2. MaxConcurrent[r] \in Nat
  BY MaxConcurrentAssumption
<1> SUFFICES ASSUME NEW n \in 0 .. Cardinality(Running(r)')
             PROVE  Cardinality(Claimed(r)') + n + Cardinality(Admissible(r, n)')
                      <= MaxConcurrent[r] + Cardinality(Call) - 1
  BY DEF CapKept
<1>3. Cardinality(Running(r)') \in Nat /\ Cardinality(Claimed(r)') \in Nat
      /\ Cardinality(Admissible(r, n)') \in Nat
  BY SizesAfter
<1>4. n \in 0 .. Cardinality(Running(r))
  BY <1>1, <1>3
<1>5. Cardinality(Admissible(r, n)') <= Cardinality(Admissible(r, n))
  BY <1>4, AdmissibleSize, FS_Subset
<1>6. Cardinality(Claimed(r)) + n + Cardinality(Admissible(r, n))
        <= MaxConcurrent[r] + Cardinality(Call) - 1
  BY <1>4 DEF CapKept
<1>7. Cardinality(Admissible(r, n)) \in Nat /\ Cardinality(Call) \in Nat /\ n \in Nat
  BY <1>3, <1>4, AdmissibleSize
<1> HIDE DEF Claimed, Admissible
<1> QED BY <1>1, <1>2, <1>3, <1>5, <1>6, <1>7

\* Steps that write neither the rows nor the calls.
LEMMA CapUntouched ==
  ASSUME CapContext, TypeOK, NEW r \in Runner \ LegacyRunner, CapKept(r),
         UNCHANGED <<status, worker, callPc, callRunner, callLoad>>
  PROVE  CapKept(r)'
<1>1. Claimed(r)' = Claimed(r) /\ Running(r)' = Running(r)
  BY DEF Claimed, Running, HeldBy
<1>2. \A n : Admissible(r, n)' = Admissible(r, n)
  BY DEF Admissible
<1> QED BY <1>1, <1>2, NoMore

\* Steps that move no task into "claimed" or "running" and write no call.
LEMMA CapRowsEnd ==
  ASSUME CapContext, TypeOK, NEW r \in Runner \ LegacyRunner, CapKept(r),
         UNCHANGED <<worker, callPc, callRunner, callLoad>>,
         \A t \in Task : status'[t] \in Active => status'[t] = status[t]
  PROVE  CapKept(r)'
<1>1. Claimed(r)' \subseteq Claimed(r) /\ Running(r)' \subseteq Running(r)
  BY DEF Claimed, Running, HeldBy, Active
<1>2. \A n : Admissible(r, n)' = Admissible(r, n)
  BY DEF Admissible
<1> QED BY <1>1, <1>2, NoMore

\* Steps of one call that leave the rows alone, after which it is not admissible
\* unless it was.
LEMMA CapCallMoves ==
  ASSUME CapContext, TypeOK, NEW r \in Runner \ LegacyRunner, CapKept(r),
         UNCHANGED <<status, worker>>, NEW c \in Call,
         \A d \in Call : d # c => /\ callPc'[d] = callPc[d]
                                  /\ callRunner'[d] = callRunner[d]
                                  /\ callLoad'[d] = callLoad[d],
         \A n \in 0 .. Cardinality(Running(r)) :
           c \in Admissible(r, n)' => c \in Admissible(r, n)
  PROVE  CapKept(r)'
<1>1. Claimed(r)' = Claimed(r) /\ Running(r)' = Running(r)
  BY DEF Claimed, Running, HeldBy
<1>2. ASSUME NEW n \in 0 .. Cardinality(Running(r))
      PROVE  Admissible(r, n)' \subseteq Admissible(r, n)
  <2>1. ASSUME NEW d \in Call, d # c, d \in Admissible(r, n)' PROVE d \in Admissible(r, n)
    BY <2>1 DEF Admissible
  <2>2. Admissible(r, n)' \subseteq Call
    BY DEF Admissible
  <2> QED BY <2>1, <2>2
<1> QED BY <1>1, <1>2, NoMore

\* A claim that read the runner's claimed tasks: whether it will pass or not, the
\* tasks and the claims that will are within the bound, because it passes only
\* if the load it would find is below the cap.
LEMMA CapCountClaimed ==
  ASSUME CapContext, Basic, NEW r \in Runner \ LegacyRunner, CapKept(r),
         NEW c \in Call, CountClaimed(c)
  PROVE  CapKept(r)'
<1> DEFINE q == callRunner[c]
<1>1. /\ q \in Runner /\ callPc[c] = "claimed"
      /\ callPc' = [callPc EXCEPT ![c] = "running"]
      /\ callLoad' = [callLoad EXCEPT ![c] = Cardinality(Claimed(q))]
      /\ UNCHANGED <<status, worker, callRunner>>
  BY DEF CountClaimed, HandlerStep, Counted, Claimed, CapContext, Basic, ShapeOK, storeVars
<1>2. /\ callPc \in [Call -> CallPc] /\ callLoad \in [Call -> Nat]
  BY DEF Basic, TypeOK
<1>3. CASE q # r
  <2>1. \A n : c \notin Admissible(r, n)'
    BY <1>1, <1>3 DEF Admissible
  <2> QED BY <1>1, <1>2, <2>1, CapCallMoves DEF Basic
<1>4. CASE q = r
  <2>1. Claimed(r)' = Claimed(r) /\ Running(r)' = Running(r)
    BY <1>1 DEF Claimed, Running, HeldBy
  <2>2. ASSUME NEW n \in 0 .. Cardinality(Running(r))
        PROVE  Cardinality(Claimed(r)') + n + Cardinality(Admissible(r, n)')
                 <= MaxConcurrent[r] + Cardinality(Call) - 1
    <3>1. /\ Cardinality(Claimed(r)) \in Nat /\ Cardinality(Call) \in Nat /\ n \in Nat
          /\ Cardinality(Admissible(r, n)) \in Nat /\ MaxConcurrent[r] \in Nat
          /\ Cardinality(Admissible(r, n)') \in Nat
      BY HeldSize, AdmissibleSize, SizesAfter, MaxConcurrentAssumption DEF Claimed, Running
    <3>2. CASE Cardinality(Claimed(r)) + n < MaxConcurrent[r]
      <4>1. Cardinality(Admissible(r, n)') <= Cardinality(Call)
        <5>1. Admissible(r, n)' \in SUBSET Call
          BY DEF Admissible
        <5> QED BY <5>1, FS_Subset DEF CapContext
      <4> HIDE DEF Claimed, Admissible
      <4> QED BY <2>1, <3>1, <3>2, <4>1
    <3>3. CASE ~ (Cardinality(Claimed(r)) + n < MaxConcurrent[r])
      <4>1. Admissible(r, n)' = Admissible(r, n)
        <5>1. \A d \in Call : d # c => (d \in Admissible(r, n)' <=> d \in Admissible(r, n))
          BY <1>1, <1>2 DEF Admissible
        <5>2. c \notin Admissible(r, n)' /\ c \notin Admissible(r, n)
          <6>1. callLoad'[c] = Cardinality(Claimed(r)) /\ callPc'[c] = "running"
            BY <1>1, <1>2, <1>4
          <6> QED BY <1>1, <3>3, <6>1 DEF Admissible
        <5>3. Admissible(r, n) \subseteq Call /\ Admissible(r, n)' \subseteq Call
          BY DEF Admissible
        <5> QED BY <5>1, <5>2, <5>3
      <4>2. Cardinality(Claimed(r)) + n + Cardinality(Admissible(r, n))
              <= MaxConcurrent[r] + Cardinality(Call) - 1
        BY DEF CapKept
      <4> QED BY <2>1, <4>1, <4>2
    <3> QED BY <3>2, <3>3
  <2> QED BY <2>1, <2>2 DEF CapKept
<1> QED BY <1>3, <1>4

\* A claim that compares with the cap passes only if it was admissible for the
\* running tasks there are, and then it was for fewer.
LEMMA CapCountRunning ==
  ASSUME CapContext, Basic, NEW r \in Runner \ LegacyRunner, CapKept(r),
         NEW c \in Call, CountRunning(c)
  PROVE  CapKept(r)'
<1> DEFINE q == callRunner[c]
           k == Cardinality(Running(q))
<1>1. /\ q \in Runner /\ callPc[c] = "running"
      /\ callLoad' = [callLoad EXCEPT ![c] = callLoad[c] + k]
      /\ callPc' = [callPc EXCEPT ![c] = IF CapReached(callLoad'[c], q) THEN "reply" ELSE "queue"]
      /\ UNCHANGED <<status, worker, callRunner>>
  BY DEF CountRunning, HandlerStep, Counted, Running, CapContext, Basic, ShapeOK, storeVars
<1>2. /\ callPc \in [Call -> CallPc] /\ callLoad \in [Call -> Nat]
  BY DEF Basic, TypeOK
<1>3. ASSUME NEW n \in 0 .. Cardinality(Running(r)), c \in Admissible(r, n)'
      PROVE  c \in Admissible(r, n)
  <2>1. q = r /\ k \in Nat /\ MaxConcurrent[r] \in Nat /\ callLoad[c] \in Nat
    BY <1>1, <1>2, <1>3, HeldSize, MaxConcurrentAssumption DEF Admissible, Running
  <2>2. ~ CapReached(callLoad[c] + k, r)
    BY <1>1, <1>2, <1>3, <2>1 DEF Admissible
  <2>3. n \in Nat /\ n <= k
    BY <1>3, <2>1
  <2> HIDE DEF k
  <2>4. callLoad[c] + n < MaxConcurrent[r]
    BY <2>1, <2>2, <2>3 DEF CapReached
  <2> QED BY <1>1, <2>1, <2>4 DEF Admissible
<1> QED BY <1>1, <1>2, <1>3, CapCallMoves DEF Basic

\* A claim that wins its task is no longer admissible: the task takes its place.
LEMMA CapClaimWon ==
  ASSUME CapContext, Basic, NEW r \in Runner \ LegacyRunner, CapKept(r),
         NEW c \in Call, ClaimWon(c)
  PROVE  CapKept(r)'
<1> DEFINE q == callRunner[c]
           t == callTask[c]
<1>1. /\ q \in Runner /\ t \in Task /\ callPc[c] = "cas" /\ status[t] = "queued"
      /\ status' = [status EXCEPT ![t] = "claimed"]
      /\ worker' = [worker EXCEPT ![t] = q]
      /\ callPc' = [callPc EXCEPT ![c] = "reply"]
      /\ UNCHANGED <<callRunner, callLoad>>
  BY DEF ClaimWon, ClaimTask, Claimable, HandlerStep, Basic, ShapeOK
<1>2. /\ callPc \in [Call -> CallPc] /\ callLoad \in [Call -> Nat]
      /\ status \in [Task -> Status] /\ worker \in [Task -> Runner \cup {NoRunner}]
  BY DEF Basic, TypeOK, StoreTypeOK
<1>3. Running(r)' = Running(r)
  BY <1>1, <1>2 DEF Running, HeldBy
<1>4. ASSUME NEW n PROVE Admissible(r, n)' = Admissible(r, n) \ {c}
  BY <1>1, <1>2 DEF Admissible
<1>5. CASE q # r
  <2>1. Claimed(r)' = Claimed(r)
    BY <1>1, <1>2, <1>5 DEF Claimed, HeldBy
  <2> QED BY <1>3, <1>4, <2>1, NoMore DEF Basic
<1>6. CASE q = r
  <2>1. Claimed(r)' = Claimed(r) \cup {t} /\ t \notin Claimed(r)
    BY <1>1, <1>2, <1>6 DEF Claimed, HeldBy
  <2>2. Cardinality(Claimed(r)') = Cardinality(Claimed(r)) + 1
    BY <2>1, HeldSize, FS_AddElement DEF Claimed
  <2>3. ASSUME NEW n \in 0 .. Cardinality(Running(r))
        PROVE  Cardinality(Claimed(r)') + n + Cardinality(Admissible(r, n)')
                 <= MaxConcurrent[r] + Cardinality(Call) - 1
    <3>1. c \in Admissible(r, n)
      BY <1>1, <1>6 DEF Admissible
    <3>2. Cardinality(Admissible(r, n)') = Cardinality(Admissible(r, n)) - 1
      BY <1>4, <3>1, AdmissibleSize, FS_RemoveElement
    <3>3. /\ Cardinality(Claimed(r)) \in Nat /\ Cardinality(Admissible(r, n)) \in Nat
          /\ Cardinality(Call) \in Nat /\ MaxConcurrent[r] \in Nat /\ n \in Nat
      BY HeldSize, AdmissibleSize, MaxConcurrentAssumption DEF Claimed, Running
    <3>4. Cardinality(Claimed(r)) + n + Cardinality(Admissible(r, n))
            <= MaxConcurrent[r] + Cardinality(Call) - 1
      BY DEF CapKept
    <3> HIDE DEF Claimed, Admissible
    <3> QED BY <2>2, <3>2, <3>3, <3>4
  <2> QED BY <1>3, <2>3 DEF CapKept
<1> QED BY <1>5, <1>6

\* A claimed task that starts leaves one claimed task fewer for one running task
\* more, and fewer claims are admissible for more running tasks.
LEMMA CapHandleStart ==
  ASSUME CapContext, Basic, NEW r \in Runner \ LegacyRunner, CapKept(r),
         NEW t \in Task, HandleStart(t)
  PROVE  CapKept(r)'
<1>1. /\ status' = [status EXCEPT ![t] = IF MayRun(t) THEN "running" ELSE status[t]]
      /\ UNCHANGED <<worker, callPc, callRunner, callLoad>>
  BY DEF HandleStart, MarkRunning, hubVars
<1>2. status \in [Task -> Status] /\ callLoad \in [Call -> Nat]
  BY DEF Basic, TypeOK, StoreTypeOK
<1>3. \A n : Admissible(r, n)' = Admissible(r, n)
  BY <1>1 DEF Admissible
<1>4. CASE ~ (status[t] = "claimed" /\ worker[t] = r)
  <2>1. Claimed(r)' \subseteq Claimed(r) /\ Running(r)' \subseteq Running(r)
    BY <1>1, <1>2, <1>4 DEF Claimed, Running, HeldBy, MayRun, Active
  <2> QED BY <1>3, <2>1, NoMore DEF Basic
<1>5. CASE status[t] = "claimed" /\ worker[t] = r
  <2>1. /\ Claimed(r)' = Claimed(r) \ {t} /\ t \in Claimed(r)
        /\ Running(r)' = Running(r) \cup {t} /\ t \notin Running(r)
    BY <1>1, <1>2, <1>5 DEF Claimed, Running, HeldBy, MayRun, Active
  <2>2. /\ Cardinality(Claimed(r)') = Cardinality(Claimed(r)) - 1
        /\ Cardinality(Running(r)') = Cardinality(Running(r)) + 1
        /\ Cardinality(Claimed(r)) \in Nat /\ Cardinality(Running(r)) \in Nat
    BY <2>1, HeldSize, FS_AddElement, FS_RemoveElement DEF Claimed, Running
  <2>3. ASSUME NEW n \in 0 .. (Cardinality(Running(r)) + 1)
        PROVE  Cardinality(Claimed(r)') + n + Cardinality(Admissible(r, n)')
                 <= MaxConcurrent[r] + Cardinality(Call) - 1
    <3> DEFINE k == IF n = Cardinality(Running(r)) + 1 THEN n - 1 ELSE n
    <3>1. k \in 0 .. Cardinality(Running(r)) /\ k >= n - 1 /\ k <= n /\ n \in Nat /\ k \in Nat
      BY <2>2
    <3>2. Cardinality(Claimed(r)) + k + Cardinality(Admissible(r, k))
            <= MaxConcurrent[r] + Cardinality(Call) - 1
      BY <3>1 DEF CapKept
    <3> HIDE DEF k
    <3>3. /\ Cardinality(Admissible(r, k)) \in Nat /\ Cardinality(Admissible(r, n)) \in Nat
          /\ Cardinality(Call) \in Nat /\ MaxConcurrent[r] \in Nat
      BY AdmissibleSize, MaxConcurrentAssumption
    <3>4. Cardinality(Admissible(r, n)) <= Cardinality(Admissible(r, k))
      <4>1. ASSUME NEW c \in Call, callLoad[c] + n < MaxConcurrent[r]
            PROVE  callLoad[c] + k < MaxConcurrent[r]
        <5>1. callLoad[c] \in Nat
          BY <1>2
        <5> QED BY <3>1, <3>3, <4>1, <5>1
      <4>2. Admissible(r, n) \in SUBSET Admissible(r, k)
        BY <4>1 DEF Admissible
      <4> QED BY <4>2, AdmissibleSize, FS_Subset
    <3>5. Admissible(r, n)' = Admissible(r, n)
      BY <1>3
    <3> HIDE DEF Claimed, Running, Admissible
    <3> QED BY <2>2, <3>1, <3>2, <3>3, <3>4, <3>5
  <2> QED BY <2>2, <2>3 DEF CapKept
<1> QED BY <1>4, <1>5

\* Every step keeps the bound.
LEMMA CapHandler ==
  ASSUME CapContext, Basic, NEW r \in Runner \ LegacyRunner, CapKept(r),
         NEW c \in Call, ClaimHandler(c)
  PROVE  CapKept(r)'
<1>0. TypeOK /\ callPc \in [Call -> CallPc]
  BY DEF Basic, TypeOK
<1>1. CASE ReadRunner(c) \/ PickTask(c) \/ SecretsFail(c) \/ ClaimLost(c) \/ ClaimFails(c)
  <2>1. /\ UNCHANGED <<status, worker, callRunner, callLoad>>
        /\ \E to \in CallPc : callPc' = [callPc EXCEPT ![c] = to]
        /\ callPc'[c] \in {"queue", "cas"} => callPc[c] = "queue"
        /\ callPc'[c] # "running"
    BY <1>0, <1>1 DEF ReadRunner, PickTask, SecretsFail, ClaimLost, ClaimFails, HandlerStep,
                     storeVars, CallPc
  <2>2. \A n : c \in Admissible(r, n)' => c \in Admissible(r, n)
    BY <2>1 DEF Admissible
  <2>3. \A d \in Call : d # c => callPc'[d] = callPc[d]
    BY <1>0, <2>1
  <2> QED BY <1>0, <2>1, <2>2, <2>3, CapCallMoves
<1>2. CASE DropCall(c)
  <2>1. /\ callPc' = [callPc EXCEPT ![c] = "free"]
        /\ callRunner' = [callRunner EXCEPT ![c] = NoRunner]
        /\ callLoad' = [callLoad EXCEPT ![c] = 0]
        /\ UNCHANGED <<status, worker>>
    BY <1>2 DEF DropCall, FreeCall, storeVars
  <2>2. \A n : c \notin Admissible(r, n)'
    BY <1>0, <2>1 DEF Admissible
  <2> QED BY <1>0, <2>1, <2>2, CapCallMoves
<1> QED BY <1>1, <1>2, CapCountClaimed, CapCountRunning, CapClaimWon DEF ClaimHandler

LEMMA CapAgent ==
  ASSUME CapContext, Basic, NEW r \in Runner \ LegacyRunner, CapKept(r),
         NEW q \in Runner, Agent(q)
  PROVE  CapKept(r)'
<1>0. TypeOK /\ callPc \in [Call -> CallPc] /\ callRunner \in [Call -> Runner \cup {NoRunner}]
  BY DEF Basic, TypeOK
<1>1. CASE \/ Register(q) \/ HeartbeatRegister(q) \/ RunnerRestart(q)
           \/ \E s \in RunnerOutcome : Finish(q, s)
  <2>1. UNCHANGED <<status, worker, callPc, callRunner, callLoad>>
    BY <1>1 DEF Register, HeartbeatRegister, RunnerRestart, Finish, storeVars, hubVars
  <2> QED BY <1>0, <2>1, CapUntouched
<1>2. ASSUME NEW c \in Call, ClaimBegin(q, c) PROVE CapKept(r)'
  <2>1. /\ callPc' = [callPc EXCEPT ![c] = IF q \in LegacyRunner THEN "queue" ELSE "runner"]
        /\ callRunner' = [callRunner EXCEPT ![c] = q]
        /\ UNCHANGED <<status, worker, callLoad>>
    BY <1>2 DEF ClaimBegin, storeVars
  <2>2. \A n : c \notin Admissible(r, n)'
    BY <1>0, <2>1 DEF Admissible
  <2> QED BY <1>0, <2>1, <2>2, CapCallMoves
<1>3. ASSUME NEW c \in Call, ReceiveTask(q, c) \/ ReceiveNothing(q, c) PROVE CapKept(r)'
  <2>1. /\ callPc' = [callPc EXCEPT ![c] = "free"]
        /\ callRunner' = [callRunner EXCEPT ![c] = NoRunner]
        /\ callLoad' = [callLoad EXCEPT ![c] = 0]
        /\ UNCHANGED <<status, worker>>
    BY <1>3 DEF ReceiveTask, ReceiveNothing, FreeCall, storeVars
  <2>2. \A n : c \notin Admissible(r, n)'
    BY <1>0, <2>1 DEF Admissible
  <2> QED BY <1>0, <2>1, <2>2, CapCallMoves
<1> QED BY <1>1, <1>2, <1>3 DEF Agent

LEMMA CapOthers ==
  ASSUME CapContext, Basic, NEW r \in Runner \ LegacyRunner, CapKept(r),
         Operator \/ Delivery \/ Failure
  PROVE  CapKept(r)'
<1>0. TypeOK /\ status \in [Task -> Status]
  BY DEF Basic, TypeOK, StoreTypeOK
<1>1. ASSUME NEW t \in Task, Dispatch(t) \/ CancelEnd(t) PROVE CapKept(r)'
  <2>1. /\ UNCHANGED <<worker, callPc, callRunner, callLoad>>
        /\ \E s \in {"queued", "held", "cancelled", status[t]} : status' = [status EXCEPT ![t] = s]
    BY <1>1 DEF Dispatch, CancelEnd, CreateTask, CancelQueued, hubVars
  <2>2. \A u \in Task : status'[u] \in Active => status'[u] = status[u]
    BY <1>0, <2>1 DEF Active
  <2> QED BY <1>0, <2>1, <2>2, CapRowsEnd
<1>2. ASSUME NEW m \in reports, HandleReport(m) PROVE CapKept(r)'
  <2>1. m \in Report
    BY DEF Basic, TypeOK
  <2>2. /\ UNCHANGED <<worker, callPc, callRunner, callLoad>>
        /\ \E s \in Terminal : status' = status \/ status' = [status EXCEPT ![m.task] = s]
    BY <1>2, <2>1 DEF HandleReport, FinishTask, storeVars, Report
  <2>3. \A u \in Task : status'[u] \in Active => status'[u] = status[u]
    BY <1>0, <2>2 DEF Active, Terminal
  <2> QED BY <1>0, <2>2, <2>3, CapRowsEnd
<1>3. CASE HubCrash
  <2>1. Claimed(r)' = Claimed(r) /\ Running(r)' = Running(r)
    BY <1>3 DEF HubCrash, storeVars, Claimed, Running, HeldBy
  <2>2. \A n : Admissible(r, n)' = {}
    BY <1>3 DEF HubCrash, Admissible
  <2> QED BY <1>0, <2>1, <2>2, NoMore
<1>4. ASSUME UNCHANGED <<status, worker, callPc, callRunner, callLoad>> PROVE CapKept(r)'
  BY <1>0, <1>4, CapUntouched
<1>5. ASSUME NEW m \in recording, RecordResult(m) PROVE CapKept(r)'
  BY <1>4, <1>5 DEF RecordResult, InsertResult
<1>6. CASE Delivery
  BY <1>1, <1>2, <1>5, <1>6, CapHandleStart DEF Delivery
<1>7. CASE Operator
  BY <1>1, <1>4, <1>7 DEF Operator, CancelBegin, RequestCancel, Drain, Undrain, Deregister,
                         storeVars, hubVars
<1>8. CASE Failure
  BY <1>3, <1>4, <1>8 DEF Failure, LoseStart, LoseReport, StrayReport, ClaimTimeout,
                         RunnerCrash, storeVars, hubVars
<1> QED BY <1>6, <1>7, <1>8

LEMMA CapStep ==
  ASSUME CapContext, Basic, CapInv, [Next]_vars
  PROVE  CapInv'
<1> SUFFICES ASSUME NEW r \in Runner \ LegacyRunner PROVE CapKept(r)'
  BY DEF CapInv
<1>1. CapKept(r) /\ TypeOK
  BY DEF CapInv, Basic
<1>2. CASE UNCHANGED vars
  BY <1>1, <1>2, CapUntouched DEF vars, storeVars, hubVars
<1>3. CASE Next
  BY <1>1, <1>3, CapHandler, CapAgent, CapOthers DEF Next
<1> QED BY <1>2, <1>3

\* What a runner holds is what it claimed and what it runs.
LEMMA LoadSplits ==
  ASSUME NEW r
  PROVE  Load(r) = Cardinality(Claimed(r)) + Cardinality(Running(r))
<1>1. {t \in Task : worker[t] = r /\ status[t] \in Active} = Claimed(r) \cup Running(r)
  BY DEF Claimed, Running, HeldBy, Active
<1>2. Claimed(r) \cap Running(r) = {}
  BY DEF Claimed, Running, HeldBy
<1>3. /\ IsFiniteSet(Claimed(r)) /\ IsFiniteSet(Running(r))
      /\ Cardinality(Claimed(r)) \in Nat /\ Cardinality(Running(r)) \in Nat
  BY HeldSize DEF Claimed, Running
<1>4. Cardinality({}) = 0
  BY FS_EmptySet
<1> HIDE DEF Claimed, Running
<1>5. Cardinality(Claimed(r) \cup Running(r)) = Cardinality(Claimed(r)) + Cardinality(Running(r))
  <2> DEFINE C == Claimed(r)
             R == Running(r)
  <2>1. Cardinality(C \cup R) = Cardinality(C) + Cardinality(R) - Cardinality(C \cap R)
    BY <1>3, FS_Union
  <2>2. Cardinality(C \cap R) = 0
    BY <1>2, <1>4
  <2> QED BY <1>3, <2>1, <2>2
<1> QED BY <1>1, <1>5 DEF Load

(* A runner holds at most as many tasks beyond its cap as it may have other *)
(* claims in flight, for every cap, every number of tasks and claims, and   *)
(* every order of counting, winning, starting and ending: the property the  *)
(* task_cap run checks.  A store whose list fails is counted as empty, and  *)
(* there is no bound.                                                       *)
THEOREM CapOvershootHolds ==
  ASSUME IsFiniteSet(Call), Call # {}, "storeerror" \notin Events
  PROVE  Spec => []CapOvershootBounded
<1>1. CapContext
  BY DEF CapContext
<1>2. Init => CapInv
  <2> SUFFICES ASSUME Init, NEW r \in Runner \ LegacyRunner PROVE CapKept(r)
    BY DEF CapInv
  <2>1. Claimed(r) = {} /\ Running(r) = {} /\ \A n : Admissible(r, n) = {}
    BY DEF Init, StoreInit, Claimed, Running, HeldBy, Admissible
  <2>2. Cardinality({}) = 0
    BY FS_EmptySet
  <2>3. Cardinality(Call) \in Nat /\ Cardinality(Call) # 0
    BY <1>1, FS_EmptySet, FS_CardinalityType DEF CapContext
  <2>4. MaxConcurrent[r] \in Nat
    BY MaxConcurrentAssumption
  <2>5. Cardinality(Claimed(r)) = 0 /\ Cardinality(Running(r)) = 0
        /\ \A n : Cardinality(Admissible(r, n)) = 0
    BY <2>1, <2>2
  <2> HIDE DEF Claimed, Running, Admissible
  <2> QED BY <2>3, <2>4, <2>5 DEF CapKept
<1>3. Basic /\ CapInv /\ [Next]_vars => CapInv'
  BY <1>1, CapStep
<1>4. Basic /\ CapInv => CapOvershootBounded
  <2> SUFFICES ASSUME CapInv, NEW r \in Runner \ LegacyRunner
               PROVE  Load(r) <= MaxConcurrent[r] + Cardinality(Call) - 1
    BY DEF CapOvershootBounded
  <2> DEFINE n == Cardinality(Running(r))
  <2>1. /\ n \in Nat /\ Cardinality(Claimed(r)) \in Nat
        /\ Cardinality(Admissible(r, n)) \in Nat /\ Cardinality(Call) \in Nat
        /\ MaxConcurrent[r] \in Nat
    BY <1>1, HeldSize, AdmissibleSize, MaxConcurrentAssumption DEF Claimed, Running
  <2>2. n \in 0 .. n
    BY <2>1
  <2>3. Cardinality(Claimed(r)) + n + Cardinality(Admissible(r, n))
          <= MaxConcurrent[r] + Cardinality(Call) - 1
    BY <2>2 DEF CapInv, CapKept
  <2>4. Load(r) = Cardinality(Claimed(r)) + n
    BY LoadSplits
  <2> HIDE DEF n, Claimed, Admissible
  <2> QED BY <2>1, <2>3, <2>4
<1> QED BY <1>2, <1>3, <1>4, InitBasic, NextBasic, PTL DEF Spec
=============================================================================
