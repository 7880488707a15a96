----------------------------- MODULE CostBudget -----------------------------
(***************************************************************************)
(* The cost ledger, the spend accumulators and the budget gate of a        *)
(* dispatch (the store's record_cost and current_budget, utils.rs          *)
(* budget_denial, routes/cost.rs, the budget half of dispatch_task_signed  *)
(* and the cost half of submit_result).                                    *)
(*                                                                         *)
(* A dispatch takes its time stamp, reads the day's spend, reads the       *)
(* week's spend, decides, and only then inserts the task; the results of   *)
(* other tasks add their costs in between, midnight passes, the hub dies.  *)
(* A stamp is abstracted to its day; CivilDates is about the two keys the  *)
(* code derives from it.                                                   *)
(***************************************************************************)
EXTENDS Integers, Sequences, FiniteSets, FiniteSetsExt

CONSTANTS
  Asker,       \* dispatches and budget reads in flight at once
  Reporter,    \* results in flight at once
  CostTask,    \* bound: ids the tasks table hands out
  Price,       \* what a result may say it cost
  DailyCap, WeeklyCap,  \* BudgetPolicy: NoCap when the field is absent
  NoCap,
  CostDay,     \* the days of the run; day 0 is Thursday 1970-01-01
  MaxReports   \* bound: how often the result of one task is posted

\* A price is an amount spent.  submit_result stores what the runner says of it
\* unchecked: a negative one would lower the spend a cap is compared with.
ASSUME CostAssumption ==
  /\ Price \subseteq Nat
  /\ DailyCap # NoCap => DailyCap \in Nat
  /\ WeeklyCap # NoCap => WeeklyCap \in Nat
  /\ CostDay # {} /\ CostDay \subseteq Nat

VARIABLES
  today,     \* the day of utc_now()
  ledger,    \* cost_ledger, oldest first: [task, cost, day]
  daily, weekly,  \* budget_state, by period_key
  taskStatus,
  asker,     \* [at, now, daily, weekly, met]: met is a ghost, the caps at `now`
  reporter,  \* [at, task, cost]
  reports,   \* how often a result of the task was posted
  unpaid     \* costs whose record_cost failed or never ran: a ghost

costVars == <<today, ledger, daily, weekly, taskStatus, asker, reporter, reports, unpaid>>

DayKey(day) == day
WeekKey(day) == (day + 3) \div 7  \* Monday to Sunday
CostWeek == {WeekKey(day) : day \in CostDay}

NotAsking == [at |-> "idle", now |-> 0, daily |-> 0, weekly |-> 0, met |-> FALSE]
Resting == [at |-> "idle", task |-> 0, cost |-> 0]

CostInit ==
  /\ today = Min(CostDay)
  /\ ledger = <<>>
  /\ daily = [d \in CostDay |-> 0] /\ weekly = [w \in CostWeek |-> 0]
  /\ taskStatus = [t \in CostTask |-> "absent"]
  /\ asker = [a \in Asker |-> NotAsking]
  /\ reporter = [r \in Reporter |-> Resting]
  /\ reports = [t \in CostTask |-> 0]
  /\ unpaid = {}

CostTypeOK ==
  /\ today \in CostDay
  /\ \A i \in DOMAIN ledger : ledger[i] \in [task : CostTask, cost : Price, day : CostDay]
  /\ daily \in [CostDay -> Nat] /\ weekly \in [CostWeek -> Nat]
  /\ taskStatus \in [CostTask -> {"absent", "held", "queued", "running", "done"}]
  /\ \A a \in Asker : asker[a].at \in {"idle", "daily", "weekly", "report", "reportWeek",
                                       "gate", "create"}

NextDay ==
  /\ today + 1 \in CostDay
  /\ today' = today + 1
  /\ UNCHANGED <<ledger, daily, weekly, taskStatus, asker, reporter, reports, unpaid>>

-----------------------------------------------------------------------------
(* The budget gate.                                                        *)
HasCostCaps == DailyCap # NoCap \/ WeeklyCap # NoCap

\* A mutant: a dispatch at the cap is let in.
ReachedOnlyAbove(spend, cap) == cap # NoCap /\ spend > cap

Reached(spend, cap) == cap # NoCap /\ spend >= cap

\* check_cost on what the two reads returned.
Denied(daySpend, weekSpend) ==
  \/ Reached(daySpend, DailyCap)
  \/ Reached(weekSpend, WeeklyCap)
Ask(a, record) ==
  /\ asker' = [asker EXCEPT ![a] = record]
  /\ UNCHANGED <<today, ledger, daily, weekly, reporter, reports, unpaid>>

\* History: a cap of this day or week is met.
CapMet ==
  \/ DailyCap # NoCap /\ daily[DayKey(today)] >= DailyCap
  \/ WeeklyCap # NoCap /\ weekly[WeekKey(today)] >= WeeklyCap

\* dispatch_task_signed after its nonce: `now` is taken once.
BeginDispatch(a) ==
  /\ asker[a].at = "idle"
  /\ Ask(a, [NotAsking EXCEPT !.now = today, !.at = IF HasCostCaps THEN "daily" ELSE "gate",
               !.met = CapMet])
  /\ UNCHANGED taskStatus

BeginReport(a) ==
  /\ asker[a].at = "idle"
  /\ Ask(a, [NotAsking EXCEPT !.now = today, !.at = "report"])
  /\ UNCHANGED taskStatus

\* current_budget: the day's row, then the week's.
ReadDaily(a) ==
  /\ asker[a].at \in {"daily", "report"}
  /\ Ask(a, [asker[a] EXCEPT !.daily = daily[DayKey(asker[a].now)],
               !.at = IF @ = "daily" THEN "weekly" ELSE "reportWeek"])
  /\ UNCHANGED taskStatus

WeekRead(a) == weekly[WeekKey(asker[a].now)]
ReadWeekly(a) ==
  /\ asker[a].at \in {"weekly", "reportWeek"}
  /\ LET read == [asker[a] EXCEPT !.weekly = WeekRead(a)] IN
     Ask(a, IF asker[a].at = "reportWeek" THEN [read EXCEPT !.at = "idle"]
            ELSE IF Denied(read.daily, read.weekly) THEN NotAsking
            ELSE [read EXCEPT !.at = "gate"])
  /\ UNCHANGED taskStatus

\* The policy gate, whose verdict PolicyGate is about, then create_task.
Gate(a) ==
  /\ asker[a].at = "gate"
  /\ \E verdict \in {"denied", "queued", "held"} :
       IF verdict = "denied"
       THEN Ask(a, NotAsking) /\ UNCHANGED taskStatus
       ELSE \E t \in CostTask :
              /\ taskStatus[t] = "absent"
              /\ \A older \in CostTask : older < t => taskStatus[older] # "absent"
              /\ taskStatus' = [taskStatus EXCEPT ![t] = verdict]
              /\ Ask(a, [asker[a] EXCEPT !.at = "create"])

Created(a) ==
  /\ asker[a].at = "create"
  /\ Ask(a, NotAsking)
  /\ UNCHANGED taskStatus

\* An approval releases a held task; a runner claims and starts a queued one.
\* Neither looks at the budget.
Advance(t) ==
  /\ \/ taskStatus[t] = "held" /\ taskStatus' = [taskStatus EXCEPT ![t] = "queued"]
     \/ taskStatus[t] = "queued" /\ taskStatus' = [taskStatus EXCEPT ![t] = "running"]
  /\ UNCHANGED <<today, ledger, daily, weekly, asker, reporter, reports, unpaid>>

-----------------------------------------------------------------------------
(* The results.  Posting again after a lost answer reaches the same UPDATE, *)
(* which asks for the owner and not for the status.                        *)
PostResult(r, t, cost) ==
  /\ reporter[r].at = "idle"
  /\ taskStatus[t] \in {"running", "done"} /\ reports[t] < MaxReports
  /\ \A other \in DOMAIN ledger : ledger[other].task = t => ledger[other].cost = cost
  /\ \A other \in Reporter : reporter[other].task = t => reporter[other].cost = cost
  /\ taskStatus' = [taskStatus EXCEPT ![t] = "done"]
  /\ reports' = [reports EXCEPT ![t] = @ + 1]
  /\ reporter' = [reporter EXCEPT ![r] = [at |-> "record", task |-> t, cost |-> cost]]
  /\ UNCHANGED <<today, ledger, daily, weekly, asker, unpaid>>

\* Mutants: the accumulator is overwritten; it is bumped by a call of its own
\* that a crash may cut off.
Replaced(spend, cost) == cost
Added(spend, cost) == spend + cost

\* One transaction: the row and both accumulators, keyed by one stamp.
RecordTx(task, cost, now) ==
  /\ ledger' = Append(ledger, [task |-> task, cost |-> cost, day |-> DayKey(now)])
  /\ daily' = [daily EXCEPT ![DayKey(now)] = Added(@, cost)]
  /\ weekly' = [weekly EXCEPT ![WeekKey(now)] = Added(@, cost)]

RecordCost(r) ==
  /\ reporter[r].at = "record"
  /\ RecordTx(reporter[r].task, reporter[r].cost, today)
  /\ reporter' = [reporter EXCEPT ![r] = Resting]
  /\ UNCHANGED <<today, taskStatus, asker, reports, unpaid>>

\* "record_cost failed": a warning, and the result stands.
RecordFails(r) ==
  /\ reporter[r].at = "record"
  /\ unpaid' = unpaid \cup {reporter[r].task}
  /\ reporter' = [reporter EXCEPT ![r] = Resting]
  /\ UNCHANGED <<today, ledger, daily, weekly, taskStatus, asker, reports>>

\* The hub dies: handlers are gone, the tables stay.
HubDies ==
  /\ unpaid' = unpaid \cup {reporter[r].task : r \in {q \in Reporter : reporter[q].at = "record"}}
  /\ reporter' = [r \in Reporter |-> Resting]
  /\ asker' = [a \in Asker |-> NotAsking]
  /\ UNCHANGED <<today, ledger, daily, weekly, taskStatus, reports>>

CostNext ==
  \/ NextDay \/ HubDies
  \/ \E a \in Asker : \/ BeginDispatch(a) \/ BeginReport(a) \/ ReadDaily(a) \/ ReadWeekly(a)
                      \/ Gate(a) \/ Created(a)
  \/ \E t \in CostTask : Advance(t)
  \/ \E r \in Reporter : \/ RecordCost(r) \/ RecordFails(r)
                         \/ \E t \in CostTask, cost \in Price : PostResult(r, t, cost)

CostSpec == CostInit /\ [][CostNext]_costVars

-----------------------------------------------------------------------------
(* What /cost/summary adds up from the rows since a day, and /cost/records. *)
RowsSince(day) == {i \in DOMAIN ledger : ledger[i].day >= day}
ByDay(rows, day) == MapThenSumSet(LAMBDA i : ledger[i].cost, {i \in rows : ledger[i].day = day})
Total(rows) == MapThenSumSet(LAMBDA i : ledger[i].cost, rows)

\* A spend report and the ledger agree at any moment, whatever day the window
\* starts: the rows of each day add up to that day's accumulator, and the rows
\* of a week, counted from its Monday, to that week's (record_cost: "the
\* accumulators can never drift from the ledger across a crash").
LedgerMatches ==
  /\ \A day \in CostDay : ByDay(RowsSince(day), day) = daily[day]
  /\ \A week \in CostWeek :
       weekly[week] = Total({i \in DOMAIN ledger : WeekKey(ledger[i].day) = week})

\* A dispatch whose stamp was taken when a cap of that day or week was already
\* met inserts no task, however the two reads, other results and midnight fall
\* (budget_denial).
NoTaskPastTheCap == \A a \in Asker : asker[a].at = "create" => ~asker[a].met

=============================================================================
