---------------------------- MODULE TaskLifecycle ----------------------------
(***************************************************************************)
(* The life of a task between the hub and its runners.                     *)
(*                                                                         *)
(* A hub handler is a sequence of awaited store calls, so it is modelled   *)
(* as a small process whose every store call is one step: the claim        *)
(* handler reads the runner row, counts the claimed tasks, counts the      *)
(* running ones, reads the queue, and only then tries the compare-and-set. *)
(* A runner is one sequential loop (register, claim, execute, report).     *)
(* Between them HTTP calls may time out at the runner while the hub still  *)
(* works on them, and may be lost, retried and thereby duplicated.         *)
(*                                                                         *)
(* Events names what the environment may do in a configuration:            *)
(*   "hold" "cancel" "drain" "deregister"   dispatcher and operator calls  *)
(*   "refuse"      the completion gate denies a report                     *)
(*   "timeout" "loss" "duplicate"           the HTTP client's view         *)
(*   "stray"       a result posted under an id that does not hold the task *)
(*   "storeerror"  a store call of the claim handler fails                *)
(*   "hubcrash" "runnercrash"               a process dies                 *)
(***************************************************************************)
EXTENDS TaskStore

CONSTANTS
  Call,          \* claim requests the hub may be working on at once
  NoCall,
  NoTask,
  MaxConcurrent, \* [Runner -> Nat]: runners.max_concurrent
  Eligible,      \* {<<r, t>>}: r's route and pick_task accept t
  LegacyRunner,  \* runners that poll the unsigned legacy route
  ClaimWindow,   \* how many queued rows a signed claim reads (50)
  LegacyWindow,  \* how many queued rows a legacy claim reads (200)
  Unresolvable,  \* tasks that name a secret the broker cannot open
  Events

ASSUME NoTaskAssumption == NoTask \notin Task
ASSUME NoCallAssumption == NoCall \notin Call
ASSUME MaxConcurrentAssumption == MaxConcurrent \in [Runner -> Nat]
ASSUME ClaimWindowAssumption == ClaimWindow \in Nat /\ LegacyWindow \in Nat

VARIABLES
  registered,  \* runners with a row in the runners table
  draining,    \* runners whose drain_requested is 1
  callPc,      \* where each claim handler is
  callRunner,  \* whose claim it is
  callLoad,    \* current_load as counted so far
  callTask,    \* the task picked, or the one the reply carries
  cancelling,  \* tasks whose cancel handler is between its two statements
  recording,   \* submit_result handlers between their two statements
  starts,      \* POST /tasks/{id}/start requests in flight
  reports,     \* POST /tasks/{id}/result requests in flight
  agentPc,     \* where each runner process is
  agentCall,   \* the claim request it waits for
  agentTask,   \* the task it executes
  runs,        \* history: how often a runner began to execute the task
  ended        \* history: how the execution ended, as the runner saw it

hubVars == <<callPc, callRunner, callLoad, callTask, cancelling, recording>>
agentVars == <<agentPc, agentCall, agentTask, runs, ended>>
netVars == <<starts, reports>>
rosterVars == <<registered, draining>>
vars == <<storeVars, rosterVars, hubVars, agentVars, netVars>>

Report == [task : Task, runner : Runner, status : Terminal]

\* What run_one_task may report: no runner ever reports "cancelled".
RunnerOutcome == {"done", "failed", "timed_out"}

CallPc == {"free", "runner", "claimed", "running", "queue", "cas",
           "reply", "notfound"}
AgentPc == {"down", "register", "idle", "waiting", "executing"}

TypeOK ==
  /\ StoreTypeOK
  /\ registered \in SUBSET Runner
  /\ draining \in SUBSET Runner
  /\ callPc \in [Call -> CallPc]
  /\ callRunner \in [Call -> Runner \cup {NoRunner}]
  /\ callLoad \in [Call -> Nat]
  /\ callTask \in [Call -> Task \cup {NoTask}]
  /\ cancelling \in SUBSET Task
  /\ recording \in SUBSET Report
  /\ starts \in SUBSET Task
  /\ reports \in SUBSET Report
  /\ agentPc \in [Runner -> AgentPc]
  /\ agentCall \in [Runner -> Call \cup {NoCall}]
  /\ agentTask \in [Runner -> Task \cup {NoTask}]
  /\ runs \in [Task -> Nat]
  /\ ended \in [Task -> RunnerOutcome \cup {"absent"}]

Init ==
  /\ StoreInit
  /\ registered = {}
  /\ draining = {}
  /\ callPc = [c \in Call |-> "free"]
  /\ callRunner = [c \in Call |-> NoRunner]
  /\ callLoad = [c \in Call |-> 0]
  /\ callTask = [c \in Call |-> NoTask]
  /\ cancelling = {}
  /\ recording = {}
  /\ starts = {}
  /\ reports = {}
  /\ agentPc = [r \in Runner |-> "register"]
  /\ agentCall = [r \in Runner |-> NoCall]
  /\ agentTask = [r \in Runner |-> NoTask]
  /\ runs = [t \in Task |-> 0]
  /\ ended = [t \in Task |-> "absent"]

-----------------------------------------------------------------------------
(* The dispatcher and the operator.                                        *)

\* A signed dispatch that passed every gate, or one the policy holds.
Dispatch(t) ==
  /\ \/ CreateTask(t, "queued")
     \/ "hold" \in Events /\ CreateTask(t, "held")
  /\ UNCHANGED <<rosterVars, hubVars, agentVars, netVars>>

\* POST /tasks/{id}/cancel, up to the first statement.
CancelBegin(t) ==
  /\ "cancel" \in Events
  /\ status[t] # "absent"
  /\ t \notin cancelling
  /\ RequestCancel(t)
  /\ cancelling' = cancelling \cup {t}
  /\ UNCHANGED <<rosterVars, callPc, callRunner, callLoad, callTask,
                 recording, agentVars, netVars>>

CancelEnd(t) ==
  /\ t \in cancelling
  /\ CancelQueued(t)
  /\ cancelling' = cancelling \ {t}
  /\ UNCHANGED <<rosterVars, callPc, callRunner, callLoad, callTask,
                 recording, agentVars, netVars>>

Drain(r) ==
  /\ "drain" \in Events
  /\ r \in registered
  /\ draining' = draining \cup {r}
  /\ UNCHANGED <<storeVars, registered, hubVars, agentVars, netVars>>

Undrain(r) ==
  /\ r \in registered
  /\ draining' = draining \ {r}
  /\ UNCHANGED <<storeVars, registered, hubVars, agentVars, netVars>>

\* DELETE /runners/{id}, or a ghost pruned when its host registers again.
Deregister(r) ==
  /\ "deregister" \in Events
  /\ r \in registered
  /\ registered' = registered \ {r}
  /\ draining' = draining \ {r}
  /\ UNCHANGED <<storeVars, hubVars, agentVars, netVars>>

-----------------------------------------------------------------------------
(* The runner process.                                                     *)

\* register_with_retries; the upsert also clears drain_requested.
Register(r) ==
  /\ agentPc[r] = "register"
  /\ registered' = registered \cup {r}
  /\ draining' = draining \ {r}
  /\ agentPc' = [agentPc EXCEPT ![r] = "idle"]
  /\ UNCHANGED <<storeVars, hubVars, agentCall, agentTask, runs, ended, netVars>>

\* The heartbeat task of the same process finds its row gone.
HeartbeatRegister(r) ==
  /\ agentPc[r] \notin {"down", "register"}
  /\ r \notin registered
  /\ registered' = registered \cup {r}
  /\ UNCHANGED <<storeVars, draining, hubVars, agentVars, netVars>>

\* One turn of claim_loop: post the claim and wait for the answer.
ClaimBegin(r, c) ==
  /\ agentPc[r] = "idle"
  /\ callPc[c] = "free"
  /\ agentPc' = [agentPc EXCEPT ![r] = "waiting"]
  /\ agentCall' = [agentCall EXCEPT ![r] = c]
  /\ callPc' = [callPc EXCEPT
                  ![c] = IF r \in LegacyRunner THEN "queue" ELSE "runner"]
  /\ callRunner' = [callRunner EXCEPT ![c] = r]
  /\ UNCHANGED <<storeVars, rosterVars, callLoad, callTask, cancelling,
                 recording, agentTask, runs, ended, netVars>>

Answered(r, c) ==
  /\ agentPc[r] = "waiting"
  /\ agentCall[r] = c
  /\ callRunner[c] = r

FreeCall(c) ==
  /\ callPc' = [callPc EXCEPT ![c] = "free"]
  /\ callRunner' = [callRunner EXCEPT ![c] = NoRunner]
  /\ callLoad' = [callLoad EXCEPT ![c] = 0]
  /\ callTask' = [callTask EXCEPT ![c] = NoTask]
  /\ UNCHANGED <<cancelling, recording>>

CarriesTask(c) == callPc[c] = "reply" /\ callTask[c] # NoTask

\* The reply carries a task: run_one_task posts /start and executes it.
ReceiveTask(r, c) ==
  /\ Answered(r, c)
  /\ CarriesTask(c)
  /\ FreeCall(c)
  /\ agentPc' = [agentPc EXCEPT ![r] = "executing"]
  /\ agentCall' = [agentCall EXCEPT ![r] = NoCall]
  /\ agentTask' = [agentTask EXCEPT ![r] = callTask[c]]
  /\ runs' = [runs EXCEPT ![callTask[c]] = @ + 1]
  /\ starts' = starts \cup {callTask[c]}
  /\ UNCHANGED <<storeVars, rosterVars, ended, reports>>

\* No task: poll again later.  404: register again first.
ReceiveNothing(r, c) ==
  /\ Answered(r, c)
  /\ \/ callPc[c] = "reply" /\ callTask[c] = NoTask
     \/ callPc[c] = "notfound"
  /\ FreeCall(c)
  /\ agentPc' = [agentPc EXCEPT
                   ![r] = IF callPc[c] = "notfound" THEN "register" ELSE "idle"]
  /\ agentCall' = [agentCall EXCEPT ![r] = NoCall]
  /\ UNCHANGED <<storeVars, rosterVars, agentTask, runs, ended, netVars>>

\* The HTTP client gives the claim up, and the hub may still be working on
\* it; or it finds the connection broken, and the hub is not.
ClaimTimeout(r) ==
  /\ agentPc[r] = "waiting"
  /\ "timeout" \in Events \/ callRunner[agentCall[r]] # r
  /\ agentPc' = [agentPc EXCEPT ![r] = "idle"]
  /\ agentCall' = [agentCall EXCEPT ![r] = NoCall]
  /\ UNCHANGED <<storeVars, rosterVars, hubVars, agentTask, runs, ended,
                 netVars>>

\* The task's process ended or was refused: report it and poll again.
Finish(r, s) ==
  /\ agentPc[r] = "executing"
  /\ reports' = reports \cup
                  {[task |-> agentTask[r], runner |-> r, status |-> s]}
  /\ agentPc' = [agentPc EXCEPT ![r] = "idle"]
  /\ agentTask' = [agentTask EXCEPT ![r] = NoTask]
  /\ ended' = [ended EXCEPT ![agentTask[r]] = s]
  /\ UNCHANGED <<storeVars, rosterVars, hubVars, agentCall, runs, starts>>

RunnerCrash(r) ==
  /\ "runnercrash" \in Events
  /\ agentPc[r] # "down"
  /\ agentPc' = [agentPc EXCEPT ![r] = "down"]
  /\ agentCall' = [agentCall EXCEPT ![r] = NoCall]
  /\ agentTask' = [agentTask EXCEPT ![r] = NoTask]
  /\ UNCHANGED <<storeVars, rosterVars, hubVars, runs, ended, netVars>>

RunnerRestart(r) ==
  /\ agentPc[r] = "down"
  /\ agentPc' = [agentPc EXCEPT ![r] = "register"]
  /\ UNCHANGED <<storeVars, rosterVars, hubVars, agentCall, agentTask, runs,
                 ended, netVars>>

-----------------------------------------------------------------------------
(* The hub's claim handler, one step per awaited store call.               *)

HandlerStep(c, to) ==
  /\ callPc' = [callPc EXCEPT ![c] = to]
  /\ UNCHANGED <<rosterVars, callRunner, cancelling, recording, agentVars,
                 netVars>>

\* get_runner, then the drain check.
ReadRunner(c) ==
  /\ callPc[c] = "runner"
  /\ HandlerStep(c, IF callRunner[c] \notin registered THEN "notfound"
                    ELSE IF callRunner[c] \in draining THEN "reply"
                    ELSE "claimed")
  /\ UNCHANGED <<storeVars, callLoad, callTask>>

HeldBy(r, s) == {t \in Task : status[t] = s /\ worker[t] = r}

\* list_tasks filtered on the caller's id; a failed read counts as empty.
Counted(r, s) ==
  {Cardinality(HeldBy(r, s))} \cup (IF "storeerror" \in Events THEN {0} ELSE {})

CountClaimed(c) ==
  /\ callPc[c] = "claimed"
  /\ HandlerStep(c, "running")
  /\ \E n \in Counted(callRunner[c], "claimed") :
       callLoad' = [callLoad EXCEPT ![c] = n]
  /\ UNCHANGED <<storeVars, callTask>>

CapReached_OffByOne(load, r) == load > MaxConcurrent[r]

CapReached(load, r) == load >= MaxConcurrent[r]

\* list_tasks("running"), then the concurrency cap.
CountRunning(c) ==
  /\ callPc[c] = "running"
  /\ \E n \in Counted(callRunner[c], "running") :
       /\ callLoad' = [callLoad EXCEPT ![c] = @ + n]
       /\ HandlerStep(c, IF CapReached(callLoad'[c], callRunner[c])
                         THEN "reply" ELSE "queue")
  /\ UNCHANGED <<storeVars, callTask>>

Window(r) == IF r \in LegacyRunner THEN LegacyWindow ELSE ClaimWindow

Candidates(r) ==
  {t \in Newest(WithStatus("queued"), Window(r)) :
     ~cancelRequested[t] /\ <<r, t>> \in Eligible}

\* list_tasks("queued") and pick_task: the newest candidate that matches.
PickTask(c) ==
  /\ callPc[c] = "queue"
  /\ LET found == Candidates(callRunner[c])
     IN  \/ /\ found = {}
            /\ HandlerStep(c, "reply")
            /\ UNCHANGED callTask
         \/ \E t \in found :
              /\ \A u \in found : u <= t
              /\ callTask' = [callTask EXCEPT ![c] = t]
              /\ HandlerStep(c, "cas")
  /\ UNCHANGED <<storeVars, callLoad>>

\* do_claim resolves the task's secrets first; a failure leaves it queued.
SecretsFail(c) ==
  /\ callPc[c] = "cas"
  /\ callTask[c] \in Unresolvable
  /\ callTask' = [callTask EXCEPT ![c] = NoTask]
  /\ HandlerStep(c, "reply")
  /\ UNCHANGED <<storeVars, callLoad>>

\* do_claim: the compare-and-set won.  When reading the row back fails, the
\* runner gets an error and the task stays claimed.
ClaimWon(c) ==
  /\ callPc[c] = "cas"
  /\ callTask[c] \in Task \ Unresolvable
  /\ ClaimTask(callTask[c], callRunner[c])
  /\ HandlerStep(c, "reply")
  /\ \/ UNCHANGED callTask
     \/ "storeerror" \in Events /\ callTask' = [callTask EXCEPT ![c] = NoTask]
  /\ UNCHANGED callLoad

\* do_claim: AlreadyClaimed, answered as lost_claim_race.
ClaimLost(c) ==
  /\ callPc[c] = "cas"
  /\ callTask[c] \in Task \ Unresolvable
  /\ ~Claimable(callTask[c])
  /\ callTask' = [callTask EXCEPT ![c] = NoTask]
  /\ HandlerStep(c, "reply")
  /\ UNCHANGED <<storeVars, callLoad>>

\* Any other store call that fails is answered with an error.
ClaimFails(c) ==
  /\ "storeerror" \in Events
  /\ callPc[c] \in {"runner", "queue", "cas"}
  /\ callTask' = [callTask EXCEPT ![c] = NoTask]
  /\ HandlerStep(c, "reply")
  /\ UNCHANGED <<storeVars, callLoad>>

\* The HTTP server drops a handler nobody waits for any more at whatever
\* store call it has reached, and its reply if it has one.
DropCall(c) ==
  /\ callPc[c] # "free"
  /\ ~Answered(callRunner[c], c)
  /\ FreeCall(c)
  /\ UNCHANGED <<storeVars, rosterVars, agentVars, netVars>>

-----------------------------------------------------------------------------
(* The hub's start and result handlers.                                    *)

\* A request the client repeats stays in flight after it was handled.
Repeated == IF "duplicate" \in Events THEN BOOLEAN ELSE {FALSE}

HandleStart(t) ==
  /\ t \in starts
  /\ MarkRunning(t)
  /\ \E again \in Repeated : starts' = IF again THEN starts ELSE starts \ {t}
  /\ UNCHANGED <<rosterVars, hubVars, agentVars, reports>>

\* submit_result, up to its UPDATE.  The completion gate may refuse the
\* report, and a report by a worker that does not own the task is refused.
HandleReport(m) ==
  /\ m \in reports
  /\ \/ /\ "refuse" \in Events
        /\ UNCHANGED <<storeVars, recording>>
     \/ /\ FinishTask(m.task, m.runner, m.status)
        /\ recording' = recording \cup {m}
     \/ /\ ~OwnedBy(m.task, m.runner)
        /\ UNCHANGED <<storeVars, recording>>
  /\ \E again \in Repeated : reports' = IF again THEN reports ELSE reports \ {m}
  /\ UNCHANGED <<rosterVars, callPc, callRunner, callLoad, callTask,
                 cancelling, agentVars, starts>>

RecordResult(m) ==
  /\ m \in recording
  /\ InsertResult(m.task, m.status)
  /\ recording' = recording \ {m}
  /\ UNCHANGED <<rosterVars, callPc, callRunner, callLoad, callTask,
                 cancelling, agentVars, netVars>>

LoseStart(t) ==
  /\ "loss" \in Events
  /\ t \in starts
  /\ starts' = starts \ {t}
  /\ UNCHANGED <<storeVars, rosterVars, hubVars, agentVars, reports>>

LoseReport(m) ==
  /\ "loss" \in Events
  /\ m \in reports
  /\ reports' = reports \ {m}
  /\ UNCHANGED <<storeVars, rosterVars, hubVars, agentVars, starts>>

\* At most one stray report is in flight, and it says "failed".
StrayReport(t, r) ==
  /\ "stray" \in Events
  /\ worker[t] \notin {NoRunner, r}
  /\ \A m \in reports : OwnedBy(m.task, m.runner)
  /\ reports' = reports \cup {[task |-> t, runner |-> r, status |-> "failed"]}
  /\ UNCHANGED <<storeVars, rosterVars, hubVars, agentVars, starts>>

\* Every handler dies where it is; the store keeps what was written.
HubCrash ==
  /\ "hubcrash" \in Events
  /\ \/ \E c \in Call : callPc[c] # "free"
     \/ cancelling # {} \/ recording # {}
  /\ callPc' = [c \in Call |-> "free"]
  /\ callRunner' = [c \in Call |-> NoRunner]
  /\ callLoad' = [c \in Call |-> 0]
  /\ callTask' = [c \in Call |-> NoTask]
  /\ cancelling' = {}
  /\ recording' = {}
  /\ UNCHANGED <<storeVars, rosterVars, agentVars, netVars>>

-----------------------------------------------------------------------------
ClaimHandler(c) ==
  \/ ReadRunner(c) \/ CountClaimed(c) \/ CountRunning(c) \/ PickTask(c)
  \/ SecretsFail(c) \/ ClaimWon(c) \/ ClaimLost(c) \/ ClaimFails(c)
  \/ DropCall(c)

Agent(r) ==
  \/ Register(r) \/ HeartbeatRegister(r) \/ RunnerRestart(r)
  \/ \E s \in RunnerOutcome : Finish(r, s)
  \/ \E c \in Call :
       ClaimBegin(r, c) \/ ReceiveTask(r, c) \/ ReceiveNothing(r, c)

Operator ==
  \/ \E t \in Task : Dispatch(t) \/ CancelBegin(t)
  \/ \E r \in Runner : Drain(r) \/ Undrain(r) \/ Deregister(r)

Delivery ==
  \/ \E t \in Task : HandleStart(t) \/ CancelEnd(t)
  \/ \E m \in reports : HandleReport(m)
  \/ \E m \in recording : RecordResult(m)

Failure ==
  \/ HubCrash
  \/ \E t \in Task : LoseStart(t)
  \/ \E m \in reports : LoseReport(m)
  \/ \E t \in Task, r \in Runner : StrayReport(t, r)
  \/ \E r \in Runner : ClaimTimeout(r) \/ RunnerCrash(r)

Next ==
  \/ \E c \in Call : ClaimHandler(c)
  \/ \E r \in Runner : Agent(r)
  \/ Operator \/ Delivery \/ Failure

Spec == Init /\ [][Next]_vars

\* The hub runs its handlers to the end and every request it was sent; a
\* runner keeps polling.  Operators and failures are never owed.
Fairness ==
  /\ \A c \in Call : WF_vars(ClaimHandler(c))
  /\ \A r \in Runner : WF_vars(Agent(r))
  /\ \A t \in Task : WF_vars(HandleStart(t)) /\ WF_vars(CancelEnd(t))
  /\ WF_vars(\E m \in reports : HandleReport(m))
  /\ WF_vars(\E m \in recording : RecordResult(m))

FairSpec == Spec /\ Fairness

-----------------------------------------------------------------------------
(* Properties.                                                             *)

\* A task is executed at most once, and only by the runner the hub records
\* as its owner, whatever claims race, time out, or are repeated
\* (claim_task's compare-and-set; there is no requeue).
ExclusiveExecution ==
  /\ \A t \in Task : runs[t] <= 1
  /\ \A r \in Runner : agentTask[r] # NoTask => worker[agentTask[r]] = r

\* A task cancelled out of the queue was never executed: cancel_task's two
\* statements and a claim in flight cannot both win.
CancelledNeverRan ==
  \A t \in Task : status[t] = "cancelled" =>
    /\ runs[t] = 0
    /\ \A c \in Call : ~(callPc[c] = "reply" /\ callTask[c] = t)

\* What the hub records, in the task and in its result row, is what the
\* executing runner saw, however late, often or under whatever id
\* POST /tasks/{id}/result arrives.
RecordedAsEnded ==
  \A t \in Task :
    /\ status[t] \in RunnerOutcome => status[t] = ended[t]
    /\ result[t] # "absent" => result[t] = ended[t] /\ status[t] = ended[t]

KeepsWhatEnded ==
  \A t \in Task :
    /\ status[t] \in Terminal => status'[t] = status[t]
    /\ worker[t] # NoRunner => worker'[t] = worker[t]

\* A terminal task stays as it is and an owner keeps its task: no late
\* start, cancel, claim or repeated result revives or re-labels it.
TerminalIsFinal == [][KeepsWhatEnded]_vars

Load(r) == Cardinality({t \in Task : worker[t] = r /\ status[t] \in Active})

\* The concurrency cap is read before the claim and not re-checked by it, so
\* it is exceeded by at most one task per other claim of the same runner
\* that the hub still works on; a single claim at a time respects it.
CapOvershootBounded ==
  \A r \in Runner \ LegacyRunner :
    Load(r) <= MaxConcurrent[r] + Cardinality(Call) - 1

Served(t) == t \notin Unresolvable /\ \E r \in Runner : <<r, t>> \in Eligible

\* The promise the hub keeps, as TaskOwnership states it.
Phase(t) ==
  IF status[t] = "absent" THEN "none"
  ELSE IF status[t] = "held" THEN "held"
  ELSE IF status[t] = "queued" THEN "open"
  ELSE IF status[t] \in Terminal THEN "closed"
  ELSE IF runs[t] = 0 THEN "owned" ELSE "begun"

Ownership == INSTANCE TaskOwnership WITH
  Outcome <- RunnerOutcome,
  NoOutcome <- "absent",
  Withdrawn <- "cancelled",
  phase <- [t \in Task |-> Phase(t)],
  owner <- worker,
  outcome <- ended,
  recorded <- [t \in Task |->
                 IF status[t] \in Terminal THEN status[t] ELSE "absent"]

\* Every behaviour of the hub, its runners and the network between them is
\* one of TaskOwnership: given once, run once by its owner, closed once with
\* what that run saw or withdrawn untouched.
ImplementsOwnership == Ownership!Spec

\* Without failures a queued task that some runner may take reaches a
\* terminal status.
QueuedTerminates ==
  \A t \in Task : Served(t) /\ status[t] = "queued" ~> status[t] \in Terminal

=============================================================================
