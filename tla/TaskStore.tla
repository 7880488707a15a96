------------------------------ MODULE TaskStore ------------------------------
(***************************************************************************)
(* The `tasks` and `results` tables of the hub's rqlite store, and the     *)
(* single SQL statements that change them.  rqlite serialises writes, so   *)
(* each statement is one atomic step; a store call made of two statements  *)
(* is two steps, and other calls may fall between them.                    *)
(*                                                                         *)
(* Task ids are AUTOINCREMENT: the rows that exist are 1..k, and a larger  *)
(* id is a newer task.                                                     *)
(***************************************************************************)
EXTENDS Integers, FiniteSets

CONSTANTS
  NTasks,      \* bound: how many tasks are ever dispatched
  Runner,      \* runner ids (the worker_id of a claim)
  NoRunner     \* the NULL worker_id

ASSUME NTasksAssumption == NTasks \in Nat
ASSUME NoRunnerAssumption == NoRunner \notin Runner

Task == 1..NTasks

\* The statuses a result may carry.
Terminal == {"done", "failed", "cancelled", "timed_out"}
Status == {"absent", "queued", "held", "claimed", "running"} \cup Terminal
\* A task that a runner holds and that counts against its concurrency cap.
Active == {"claimed", "running"}

VARIABLES
  status,           \* tasks.status; "absent" is no row
  worker,           \* tasks.worker_id
  cancelRequested,  \* tasks.cancel_requested
  result            \* results.status; "absent" is no row

storeVars == <<status, worker, cancelRequested, result>>

StoreTypeOK ==
  /\ status \in [Task -> Status]
  /\ worker \in [Task -> Runner \cup {NoRunner}]
  /\ cancelRequested \in [Task -> BOOLEAN]
  /\ result \in [Task -> Terminal \cup {"absent"}]

StoreInit ==
  /\ status = [t \in Task |-> "absent"]
  /\ worker = [t \in Task |-> NoRunner]
  /\ cancelRequested = [t \in Task |-> FALSE]
  /\ result = [t \in Task |-> "absent"]

-----------------------------------------------------------------------------
(* create_task: the INSERT, whose initial status is 'queued' or 'held'.    *)
CreateTask(t, initial) ==
  /\ status[t] = "absent"
  /\ \A older \in 1..(t - 1) : status[older] # "absent"
  /\ status' = [status EXCEPT ![t] = initial]
  /\ UNCHANGED <<worker, cancelRequested, result>>

\* Mutants of the statements below, each a plausible slip in its SQL.
AlwaysClaimable(t) == TRUE
OwnedByAnyone(t, r) == TRUE
CancelAlsoClaimed(t) ==
  /\ status' = [status EXCEPT
                  ![t] = IF @ \in {"queued", "claimed"} THEN "cancelled" ELSE @]
  /\ UNCHANGED <<worker, cancelRequested, result>>
NewestButOne(S, limit) ==
  {t \in S : Cardinality({u \in S : u > t}) < limit - 1}

(* claim_task: the compare-and-set UPDATE.  Claimable is its WHERE clause. *)
Claimable(t) == status[t] = "queued" /\ ~cancelRequested[t]

ClaimTask(t, r) ==
  /\ Claimable(t)
  /\ status' = [status EXCEPT ![t] = "claimed"]
  /\ worker' = [worker EXCEPT ![t] = r]
  /\ UNCHANGED <<cancelRequested, result>>

(* mark_running: a task that is neither claimed nor running is left alone. *)
MayRun(t) == status[t] \in Active

MarkRunning(t) ==
  /\ status' = [status EXCEPT ![t] = IF MayRun(t) THEN "running" ELSE @]
  /\ UNCHANGED <<worker, cancelRequested, result>>

(* cancel_task: first statement, unconditional.                            *)
RequestCancel(t) ==
  /\ cancelRequested' = [cancelRequested EXCEPT ![t] = TRUE]
  /\ UNCHANGED <<status, worker, result>>

(* cancel_task: second statement, only a task still in the queue.          *)
CancelQueued(t) ==
  /\ status' = [status EXCEPT ![t] = IF @ = "queued" THEN "cancelled" ELSE @]
  /\ UNCHANGED <<worker, cancelRequested, result>>

(* submit_result: the UPDATE asks only that the reporter is the owner.     *)
OwnedBy(t, r) == worker[t] = r

FinishTask(t, r, s) ==
  /\ OwnedBy(t, r)
  /\ status' = [status EXCEPT ![t] = s]
  /\ UNCHANGED <<worker, cancelRequested, result>>

(* submit_result: INSERT OR REPLACE INTO results, the second statement.    *)
InsertResult(t, s) ==
  /\ result' = [result EXCEPT ![t] = s]
  /\ UNCHANGED <<status, worker, cancelRequested>>

-----------------------------------------------------------------------------
(* list_tasks: the ids with a given status, newest first, at most `limit`. *)
Newest(S, limit) ==
  {t \in S : Cardinality({u \in S : u > t}) < limit}

WithStatus(s) == {t \in Task : status[t] = s}

=============================================================================
