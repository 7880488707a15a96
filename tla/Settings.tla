------------------------------- MODULE Settings -------------------------------
(***************************************************************************)
(* The hub-wide settings overlay: one row of rqlite, replaced whole by a   *)
(* compare-and-set on its revision.  A mutation reads the row, puts the    *)
(* overlay with one key changed, appends to the audit log, and if that     *)
(* fails puts the old overlay back: store calls that other mutations, of   *)
(* this hub or of another, fall between.  A handler may be dropped and a   *)
(* hub may die between any two of them, and a statement whose answer is    *)
(* lost may still reach the store, then or later.                          *)
(***************************************************************************)
EXTENDS Integers, Sequences

CONSTANTS
  Writer,    \* clients (desktop, VS Code, CLI), one request at a time each
  Key,       \* settings that may be changed
  Value,     \* their values
  Unset,     \* the key is not in the overlay
  MaxCalls   \* bound on the requests of one client

ASSUME UnsetAssumption == Unset \notin Value
ASSUME MaxCallsAssumption == MaxCalls \in Nat

VARIABLES
  row,      \* settings_document; revision 0 is no row
  history,  \* history: the puts that took effect, in order
  late,     \* puts whose answer was lost and that may yet reach the store
  audited,  \* settings.changed events: the call and the revision they name
  pc,       \* where each client's mutate is
  call,     \* how many requests the client has sent
  request,  \* its current one
  prior,    \* the overlay mutate read
  answer    \* what the client was told of its last request

vars == <<row, history, late, audited, pc, call, request, prior, answer>>

Overlay == [Key -> Value \cup {Unset}]
Empty == [k \in Key |-> Unset]
Call == Writer \X (0..MaxCalls)
Request == [expected : Nat, key : Key, value : Value \cup {Unset}]
Statement == [expected : Nat, value : Overlay, key : Key, by : Call,
              kind : {"change", "undo"}]

\* The overlay at revision i.
ValueAt(i) == IF i = 0 THEN Empty ELSE history[i].value

\* Types, and the stored row is the last put that took effect: revisions have
\* no gap and none is used twice.
TypeOK ==
  /\ history \in Seq(Statement)
  /\ row = [revision |-> Len(history), value |-> ValueAt(Len(history))]
  /\ late \subseteq Statement
  /\ audited \subseteq Call \X Nat
  /\ pc \in [Writer -> {"idle", "read", "put", "audit", "undo"}]
  /\ call \in [Writer -> 0..MaxCalls]
  /\ request \in [Writer -> Request]
  /\ prior \in [Writer -> Overlay]
  /\ answer \in [Writer -> {"none", "ok", "conflict", "invalid", "error",
                            "rolled_back", "unresolved"}]

Init ==
  /\ row = [revision |-> 0, value |-> Empty]
  /\ history = <<>>
  /\ late = {}
  /\ audited = {}
  /\ pc = [w \in Writer |-> "idle"]
  /\ call = [w \in Writer |-> 0]
  /\ request \in [Writer -> {[expected |-> 0, key |-> k, value |-> Unset] : k \in Key}]
  /\ prior = [w \in Writer |-> Empty]
  /\ answer = [w \in Writer |-> "none"]

-----------------------------------------------------------------------------
(* put_settings_document *)

\* INSERT OR IGNORE when no revision is expected, UPDATE ... WHERE revision = ?
\* otherwise; an absent row is revision 0.
Affected(s) == s.expected = row.revision

Store(s) ==
  /\ row' = [revision |-> s.expected + 1, value |-> s.value]
  /\ history' = Append(history, s)

CurrentCall(w) == <<w, call[w]>>

Change(w) ==
  [expected |-> request[w].expected,
   value |-> [prior[w] EXCEPT ![request[w].key] = request[w].value],
   key |-> request[w].key, by |-> CurrentCall(w), kind |-> "change"]

\* Mutant: the compensation puts the overlay it has just written.
Compensation_Next(w) == [Change(w) EXCEPT !.expected = @ + 1, !.kind = "undo"]

Compensation(w) ==
  [expected |-> request[w].expected + 1, value |-> prior[w],
   key |-> request[w].key, by |-> CurrentCall(w), kind |-> "undo"]

\* No answer came: the statement is lost, or may still reach the store.
Unanswered(s) == late' \in {late, late \cup {s}}

-----------------------------------------------------------------------------
(* mutate *)

Reply(w, a) ==
  /\ pc' = [pc EXCEPT ![w] = "idle"]
  /\ answer' = [answer EXCEPT ![w] = a]

Goto(w, p) == pc' = [pc EXCEPT ![w] = p] /\ UNCHANGED answer

\* The client sends the revision it last saw, whenever that was.
Send(w) ==
  /\ pc[w] = "idle"
  /\ call[w] < MaxCalls
  /\ call' = [call EXCEPT ![w] = @ + 1]
  /\ \E e \in 0..row.revision, k \in Key, v \in Value \cup {Unset} :
       request' = [request EXCEPT ![w] = [expected |-> e, key |-> k, value |-> v]]
  /\ pc' = [pc EXCEPT ![w] = "read"]
  /\ answer' = [answer EXCEPT ![w] = "none"]
  /\ UNCHANGED <<row, history, late, audited, prior>>

\* get_settings_document, the check of the revision, and set_hub or reset_hub.
Read(w) ==
  /\ pc[w] = "read"
  /\ \/ row.revision # request[w].expected /\ Reply(w, "conflict") /\ UNCHANGED prior
     \/ /\ row.revision = request[w].expected
        /\ prior' = [prior EXCEPT ![w] = row.value]
        /\ Goto(w, "put") \/ Reply(w, "invalid")
     \/ Reply(w, "error") /\ UNCHANGED prior
  /\ UNCHANGED <<row, history, late, audited, call, request>>

PutConflict(w) == Reply(w, "conflict")

Put(w) ==
  /\ pc[w] = "put"
  /\ \/ Affected(Change(w)) /\ Store(Change(w)) /\ Goto(w, "audit") /\ UNCHANGED late
     \/ /\ ~Affected(Change(w))
        /\ PutConflict(w)
        /\ UNCHANGED <<row, history, late>>
     \/ Unanswered(Change(w)) /\ Reply(w, "error") /\ UNCHANGED <<row, history>>
  /\ UNCHANGED <<audited, call, request, prior>>

Event(w) == <<CurrentCall(w), request[w].expected + 1>>

\* audit_append: Ok with the event appended, or given up after three conflicts;
\* an error with or without the event.
AuditAppend(w) ==
  /\ pc[w] = "audit"
  /\ audited' \in {audited, audited \cup {Event(w)}}
  /\ Reply(w, "ok") \/ Goto(w, "undo")
  /\ UNCHANGED <<row, history, late, call, request, prior>>

\* Mutant: a compensation that finds another revision passes for done.
UndoConflict_Ignored(w) == Reply(w, "rolled_back")

UndoConflict(w) == Reply(w, "unresolved")

Undo(w) ==
  /\ pc[w] = "undo"
  /\ \/ /\ Affected(Compensation(w))
        /\ Store(Compensation(w))
        /\ Reply(w, "rolled_back")
        /\ UNCHANGED late
     \/ /\ ~Affected(Compensation(w))
        /\ UndoConflict(w)
        /\ UNCHANGED <<row, history, late>>
     \/ Unanswered(Compensation(w)) /\ Reply(w, "unresolved") /\ UNCHANGED <<row, history>>
  /\ UNCHANGED <<audited, call, request, prior>>

\* The client hangs up and the handler is dropped, or the hub dies.
Abandon(w) ==
  /\ \/ pc[w] = "read" /\ UNCHANGED <<late, audited>>
     \/ pc[w] = "put" /\ Unanswered(Change(w)) /\ UNCHANGED audited
     \/ /\ pc[w] = "audit"
        /\ audited' \in {audited, audited \cup {Event(w)}}
        /\ UNCHANGED late
     \/ pc[w] = "undo" /\ Unanswered(Compensation(w)) /\ UNCHANGED audited
  /\ Reply(w, "none")
  /\ UNCHANGED <<row, history, call, request, prior>>

\* A statement reaches the store after its handler has gone.
Land(s) ==
  /\ late' = late \ {s}
  /\ \/ Affected(s) /\ Store(s)
     \/ ~Affected(s) /\ UNCHANGED <<row, history>>
  /\ UNCHANGED <<audited, pc, call, request, prior, answer>>

Next ==
  \/ \E w \in Writer :
       Send(w) \/ Read(w) \/ Put(w) \/ AuditAppend(w) \/ Undo(w) \/ Abandon(w)
  \/ \E s \in late : Land(s)

Spec == Init /\ [][Next]_vars

-----------------------------------------------------------------------------
(* Properties *)

IsChangeOf(w, i) ==
  /\ i \in DOMAIN history
  /\ history[i].by = CurrentCall(w)
  /\ history[i].kind = "change"

IsUndoOf(w, i) ==
  /\ i \in DOMAIN history
  /\ history[i].by = CurrentCall(w)
  /\ history[i].kind = "undo"

SameButFor(k, a, b) == \A j \in Key \ {k} : a[j] = b[j]

\* No mutation is lost: every revision is the one before it with one key
\* changed, by whomever and however late, or it takes back exactly the last
\* change, which is of the same request.  (fabric-store: put_settings_document
\* keeps concurrent mutations from silently overwriting one another.)
EachBuildsOnTheLast ==
  \A i \in DOMAIN history :
    LET s == history[i] IN
    IF s.kind = "change"
    THEN SameButFor(s.key, s.value, ValueAt(i - 1))
    ELSE /\ i - 1 \in DOMAIN history
         /\ history[i - 1].kind = "change"
         /\ history[i - 1].by = s.by
         /\ s.value = ValueAt(i - 2)

\* What mutate answers is what became of the request, whatever other requests
\* did meanwhile: accepted, its change is a revision; refused, it never will be;
\* rolled back, the next revision undoes it; unresolved, the change was made.
AnswersAreTrue ==
  \A w \in Writer : pc[w] = "idle" =>
    LET e == request[w].expected IN
    /\ answer[w] \in {"ok", "rolled_back", "unresolved"} => IsChangeOf(w, e + 1)
    /\ answer[w] = "rolled_back" => IsUndoOf(w, e + 2)
    /\ answer[w] \in {"conflict", "invalid"} =>
         \A s \in late \cup {history[i] : i \in DOMAIN history} : s.by # CurrentCall(w)

\* The log tells of no change that was not made: a settings.changed event names
\* the request that made its revision.
AuditedChangesWereMade ==
  \A e \in audited :
    /\ e[2] \in DOMAIN history
    /\ history[e[2]].by = e[1]
    /\ history[e[2]].kind = "change"
===============================================================================
