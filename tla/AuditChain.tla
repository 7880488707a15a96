------------------------------ MODULE AuditChain ------------------------------
(***************************************************************************)
(* The hash-chained audit log.  audit_append reads the tail, computes the  *)
(* event's hash from it, and hands both to append_audit_event, which reads *)
(* the tail again, compares, and only then inserts: three store calls that *)
(* other writers may fall between.  Any handler of the hub may be a writer.*)
(*                                                                         *)
(* SHA-256 is idealised as injective: the hash of an event is the sequence *)
(* of all the events it commits to, oldest first.                          *)
(***************************************************************************)
EXTENDS Integers, Sequences, FiniteSets

CONSTANTS
  Writer,   \* handlers that may be appending at the same time
  Event,    \* what the hash covers: a kind and a payload
  TaskOf,   \* [Event -> task ids]: the task_id column
  MaxLog,   \* bound on the rows of the log
  MaxDay    \* bound on the days that pass

ASSUME MaxLogAssumption == MaxLog \in Nat
ASSUME MaxDayAssumption == MaxDay \in Nat \ {0}

Genesis == <<>>
EventHash(prev, e) == Append(prev, e)
Tries == 3

VARIABLES
  log,       \* audit_event rows in seq order
  day,       \* today's date
  pc,        \* where each audit_append is
  event,     \* the event it appends
  stamp,     \* its created_at, taken once before the first try
  expected,  \* the tail it read
  tries,     \* tries begun
  since,     \* history: the log's length when audit_append was called
  outcome,   \* what audit_append returned
  overlapped \* history: two appends have been under way at once

vars == <<log, day, pc, event, stamp, expected, tries, since, outcome, overlapped>>

Hash == Seq(Event)
Row == [hash : Hash, prev : Hash, event : Event, day : 1..MaxDay]

TypeOK ==
  /\ log \in Seq(Row)
  /\ day \in 1..MaxDay
  /\ pc \in [Writer -> {"idle", "tail", "check", "insert", "lost"}]
  /\ event \in [Writer -> Event]
  /\ stamp \in [Writer -> 1..MaxDay]
  /\ expected \in [Writer -> Hash]
  /\ tries \in [Writer -> 0..Tries]
  /\ since \in [Writer -> Nat]
  /\ outcome \in [Writer -> {"none", "ok", "error"}]
  /\ overlapped \in BOOLEAN

\* audit_chain_tail
LastRowHash == IF log = <<>> THEN Genesis ELSE log[Len(log)].hash

\* Mutant: the oldest row, ORDER BY seq without DESC.
FirstRowHash == IF log = <<>> THEN Genesis ELSE log[1].hash

ChainTail == LastRowHash

Init ==
  /\ log = <<>>
  /\ day = 1
  /\ pc = [w \in Writer |-> "idle"]
  /\ event \in [Writer -> Event]
  /\ stamp = [w \in Writer |-> 1]
  /\ expected = [w \in Writer |-> Genesis]
  /\ tries = [w \in Writer |-> 0]
  /\ since = [w \in Writer |-> 0]
  /\ outcome = [w \in Writer |-> "none"]
  /\ overlapped = FALSE

-----------------------------------------------------------------------------
NextDay ==
  /\ day < MaxDay
  /\ day' = day + 1
  /\ UNCHANGED <<log, pc, event, stamp, expected, tries, since, outcome, overlapped>>

\* A handler calls audit_append.
Begin(w, e) ==
  /\ pc[w] = "idle"
  /\ Len(log) < MaxLog
  /\ pc' = [pc EXCEPT ![w] = "tail"]
  /\ event' = [event EXCEPT ![w] = e]
  /\ stamp' = [stamp EXCEPT ![w] = day]
  /\ tries' = [tries EXCEPT ![w] = 1]
  /\ since' = [since EXCEPT ![w] = Len(log)]
  /\ outcome' = [outcome EXCEPT ![w] = "none"]
  /\ overlapped' = (overlapped \/ \E v \in Writer \ {w} : pc[v] # "idle")
  /\ UNCHANGED <<log, day, expected>>

ReadTail(w) ==
  /\ pc[w] = "tail"
  /\ expected' = [expected EXCEPT ![w] = ChainTail]
  /\ pc' = [pc EXCEPT ![w] = "check"]
  /\ UNCHANGED <<log, day, event, stamp, tries, since, outcome, overlapped>>

Return(w, answer) ==
  /\ pc' = [pc EXCEPT ![w] = "idle"]
  /\ outcome' = [outcome EXCEPT ![w] = answer]

\* TailConflict: try again, and after the third time answer Ok all the same.
Conflict(w) ==
  /\ IF tries[w] < Tries
     THEN /\ tries' = [tries EXCEPT ![w] = @ + 1]
          /\ pc' = [pc EXCEPT ![w] = "tail"]
          /\ UNCHANGED outcome
     ELSE Return(w, "ok") /\ UNCHANGED tries
  /\ UNCHANGED <<log, day, event, stamp, expected, since, overlapped>>

TailUnchanged(w) == ChainTail = expected[w]

CheckTail(w) ==
  /\ pc[w] = "check"
  /\ \/ /\ TailUnchanged(w)
        /\ pc' = [pc EXCEPT ![w] = "insert"]
        /\ UNCHANGED <<log, day, event, stamp, expected, tries, since, outcome, overlapped>>
     \/ ~TailUnchanged(w) /\ Conflict(w)

NewRow(w) == [hash |-> EventHash(expected[w], event[w]), prev |-> expected[w],
              event |-> event[w], day |-> stamp[w]]

\* The UNIQUE constraint on event_id_hash.
HashTaken(w) == \E i \in 1..Len(log) : log[i].hash = NewRow(w).hash

Insert(w) ==
  /\ pc[w] = "insert"
  /\ \/ /\ ~HashTaken(w)
        /\ log' = Append(log, NewRow(w))
        /\ Return(w, "ok")
        /\ UNCHANGED <<day, event, stamp, expected, tries, since, overlapped>>
     \/ HashTaken(w) /\ Conflict(w)

\* A store call fails, and the handler gives up.  When it is the INSERT, rqlite
\* may still apply it.
StoreError(w) ==
  /\ pc[w] \in {"tail", "check", "insert"}
  /\ pc' = [pc EXCEPT ![w] = IF @ = "insert" THEN "lost" ELSE "idle"]
  /\ outcome' = [outcome EXCEPT ![w] = "error"]
  /\ UNCHANGED <<log, day, event, stamp, expected, tries, since, overlapped>>

\* An INSERT nobody waits for is applied, or never will be.
Settle(w) ==
  /\ pc[w] = "lost"
  /\ pc' = [pc EXCEPT ![w] = "idle"]
  /\ \/ UNCHANGED log
     \/ ~HashTaken(w) /\ log' = Append(log, NewRow(w))
  /\ UNCHANGED <<day, event, stamp, expected, tries, since, outcome, overlapped>>

Next ==
  \/ NextDay
  \/ \E w \in Writer :
       \/ \E e \in Event : Begin(w, e)
       \/ ReadTail(w) \/ CheckTail(w) \/ Insert(w) \/ StoreError(w) \/ Settle(w)

Spec == Init /\ [][Next]_vars

Fairness == \A w \in Writer : WF_vars(ReadTail(w) \/ CheckTail(w) \/ Insert(w))

FairSpec == Spec /\ Fairness

-----------------------------------------------------------------------------
(* verify_audit_chain: each row hashes its own prev, and each row but the  *)
(* first, whose prev is trusted, follows the row before it.                *)
Verifies(rows) ==
  /\ \A i \in 1..Len(rows) :
       rows[i].hash = EventHash(rows[i].prev, rows[i].event)
  /\ \A i \in 2..Len(rows) : rows[i].prev = rows[i - 1].hash

\* audit_events_for_task and audit_events_for_day
TaskRows(t) == LET ofTask(row) == TaskOf[row.event] = t
               IN  SelectSeq(log, ofTask)
DayRows(d) == LET onDay(row) == row.day = d IN SelectSeq(log, onDay)

-----------------------------------------------------------------------------
(* Properties.                                                             *)

\* However writers interleave, no row hangs in the air: what it says came
\* before it is the genesis hash or an earlier row.
RowsLinked ==
  \A i \in 1..Len(log) :
    \/ log[i].prev = Genesis
    \/ \E j \in 1..(i - 1) : log[j].hash = log[i].prev

\* The chain forks only among appends that raced from one tail: no row has
\* more successors than there are concurrent writers.
ForkBounded ==
  \A h \in {log[i].prev : i \in 1..Len(log)} :
    Cardinality({i \in 1..Len(log) : log[i].prev = h}) <= Cardinality(Writer)

\* audit_append answers Ok without a row only after it lost its three tries,
\* each to another row appended since it was called.
DroppedOnlyUnderContention ==
  [][\A w \in Writer :
       pc[w] # "idle" /\ outcome'[w] = "ok" /\ pc'[w] = "idle" /\ log' = log
         => Len(log) >= since[w] + 3]_vars

\* Without two appends under way at once the whole log is one chain from genesis,
\* whichever handlers wrote it.
Linear ==
  ~overlapped =>
    \A i \in 1..Len(log) :
      log[i].prev = IF i = 1 THEN Genesis ELSE log[i - 1].hash

\* What /audit/tasks reports for any task: its events verify.
TaskVerifies == \A t \in {TaskOf[e] : e \in Event} : Verifies(TaskRows(t))

=============================================================================
