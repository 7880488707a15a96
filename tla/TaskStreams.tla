----------------------------- MODULE TaskStreams -----------------------------
(***************************************************************************)
(* What flows between a running task and its watchers (routes/streams.rs,  *)
(* fabric-streams, the store's streams and progress, loom-runner's pumps): *)
(* output lines and progress towards the hub, stdin batches towards the    *)
(* process, the result that ends it all, and two watchers, one that reads  *)
(* lines behind a cursor and one that holds the event stream open.         *)
(*                                                                         *)
(* Every client sends its messages one after the other; the result waits   *)
(* for the pumps.  A post is a hub handler, one step per lock or store     *)
(* call.  A client that gives up leaves its handler running, until it ends *)
(* or is dropped with its connection.                                      *)
(***************************************************************************)
EXTENDS Integers, FiniteSets, Sequences, SequencesExt, TLC

CONSTANTS
  Post,        \* bound: handlers in flight
  NoPost,
  Gone,        \* what a client waits for whose hub went down
  Tries,       \* MAX_RETRIES of the HTTP client
  Limit,       \* rows a read returns
  Scenarios    \* bound: [messages of each client, flush threshold, faults]

ASSUME StreamsAssumption == NoPost \notin Post /\ Gone \notin Post /\ NoPost # Gone

Client == {"stdout", "stderr", "progress", "result", "stdin", "other"}
Pumps == {"stdout", "stderr", "progress"}

VARIABLES
  scenario,
  client,    \* [sent, waits, tries]: how far each client is
  post,      \* [at, msg, batch, seq]: the handlers
  buffer,    \* StreamBuffer.pending of the task
  rows,      \* task_streams and progress, in the order of their ids
  over,      \* the task's status is terminal
  input,     \* input_queues of the task
  stdinAt, delivered,  \* the runner's cursor, and what the process was given
  reader,    \* [cursor, seen] of the line reader
  events,    \* [at, over, cursor, seen] of the event stream
  answered,  \* messages whose client was told they were taken
  lost,      \* messages that a failed or dropped handler or a dead hub held
  restarted, accepted

streamVars == <<scenario, client, post, buffer, rows, over, input, stdinAt, delivered,
                reader, events, answered, lost, restarted, accepted>>
runnerSide == <<stdinAt, delivered, reader, events>>

NoWork == [at |-> "idle", msg |-> <<"none", 0>>, batch |-> <<>>, seq |-> 0]
Strict == scenario.threshold = 1
Sender(msg) == msg[1]
Own(msg) == Sender(msg) # "other"
Table(msg) == IF Sender(msg) = "progress" THEN "progress" ELSE "lines"

StreamsInit ==
  /\ scenario \in Scenarios
  /\ client = [c \in Client |-> [sent |-> 0, waits |-> NoPost, tries |-> 0]]
  /\ post = [p \in Post |-> NoWork]
  /\ buffer = <<>> /\ rows = <<>> /\ over = FALSE
  /\ input = <<>> /\ stdinAt = 0 /\ delivered = <<>>
  /\ reader = [cursor |-> 0, seen |-> {}]
  /\ events = [at |-> "task", over |-> FALSE, cursor |-> 0, seen |-> {}]
  /\ answered = {} /\ lost = {} /\ restarted = FALSE /\ accepted = <<>>

-----------------------------------------------------------------------------
(* The clients.                                                            *)
Done(c) == client[c].sent = scenario.count[c] /\ client[c].waits = NoPost

FirstStep(c) ==
  IF c = "result" THEN "flush"
  ELSE IF c = "stdin" THEN "status"
  ELSE IF c = "progress" \/ Strict THEN "owner"
  ELSE "push"

Handle(p, msg) ==
  LET at == FirstStep(Sender(msg)) IN
  post' = [post EXCEPT ![p] = [NoWork EXCEPT !.at = at, !.msg = msg,
             !.batch = IF at = "owner" THEN <<msg>> ELSE <<>>]]

\* pump_pipe sends a line and waits; run_one_task awaits the pumps before it
\* posts the result, and its stdin reader ends with the process.
SendMessage(c, p) ==
  /\ client[c].waits = NoPost /\ client[c].sent < scenario.count[c]
  /\ c = "result" => \A d \in Pumps : Done(d)
  /\ post[p] = NoWork
  /\ client' = [client EXCEPT ![c] = [sent |-> @.sent + 1, waits |-> p, tries |-> 1]]
  /\ Handle(p, <<c, client[c].sent + 1>>)
  /\ UNCHANGED <<scenario, buffer, rows, over, input, answered, lost, restarted, accepted, runnerSide>>

\* request_with_retry: no answer came, so it is sent again or given up.  A
\* stdin batch sent again is refused for its nonce, so it is as given up.
SendAgain(c, p) ==
  /\ client[c].waits # NoPost /\ client[c].tries < Tries /\ c # "stdin"
  /\ "timeout" \in scenario.faults \/ client[c].waits = Gone
  /\ post[p] = NoWork
  /\ client' = [client EXCEPT ![c].waits = p, ![c].tries = @ + 1]
  /\ Handle(p, <<c, client[c].sent>>)
  /\ UNCHANGED <<scenario, buffer, rows, over, input, answered, lost, restarted, accepted, runnerSide>>

GiveUp(c) ==
  /\ client[c].waits # NoPost
  /\ "timeout" \in scenario.faults \/ client[c].waits = Gone
  /\ client[c].tries = Tries \/ c = "stdin"
  /\ client' = [client EXCEPT ![c].waits = NoPost]
  /\ UNCHANGED <<scenario, post, buffer, rows, over, input, answered, lost, restarted, accepted, runnerSide>>

Waiting(p) == {c \in Client : client[c].waits = p}

\* The answer reaches the client, when it still waits for this one.
Answer(p) ==
  /\ post[p].at \in {"answer", "refuse"}
  /\ client' = [c \in Client |-> IF client[c].waits = p
                  THEN [client[c] EXCEPT !.waits = NoPost] ELSE client[c]]
  /\ answered' = IF post[p].at = "answer" /\ Waiting(p) # {}
       THEN answered \cup {post[p].msg} ELSE answered
  /\ post' = [post EXCEPT ![p] = NoWork]
  /\ UNCHANGED <<scenario, buffer, rows, over, input, lost, restarted, accepted, runnerSide>>

-----------------------------------------------------------------------------
(* The hub's handlers.                                                     *)
Step(p, at) == post' = [post EXCEPT ![p].at = at]
\* What a sequence has at the given places, in its order.
Picked(s, places) ==
  [k \in 1..Cardinality(places) |->
     s[CHOOSE i \in places : Cardinality({j \in places : j <= i}) = k]]

\* flush_batch writes one worker's entries after the other's, in the order
\* the workers appear.
Grouped(batch) ==
  LET ofHead == {i \in DOMAIN batch : Own(batch[i]) = Own(batch[1])}
  IN Picked(batch, ofHead) \o Picked(batch, DOMAIN batch \ ofHead)

PushLine(p) ==
  /\ post[p].at = "push"
  /\ LET pending == Append(buffer, post[p].msg) IN
     IF Len(pending) >= scenario.threshold
       THEN /\ buffer' = <<>>
            /\ post' = [post EXCEPT ![p].at = "owner", ![p].batch = Grouped(pending)]
       ELSE buffer' = pending /\ Step(p, "answer")
  /\ UNCHANGED <<scenario, client, rows, over, input, answered, lost, restarted, accepted, runnerSide>>

AfterBatch(p) == IF Sender(post[p].msg) = "result" THEN "forget" ELSE "answer"

\* Mutant: the result drains nothing.
ToFlush_None == <<>>
ToFlush == buffer

\* submit_result drains the buffer first ...
FlushTask(p) ==
  /\ post[p].at = "flush"
  /\ buffer' = <<>>
  /\ post' = [post EXCEPT ![p].batch = Grouped(ToFlush),
                          ![p].at = IF ToFlush = <<>> THEN "forget" ELSE "owner"]
  /\ UNCHANGED <<scenario, client, rows, over, input, answered, lost, restarted, accepted, runnerSide>>

Accepted(p) == Own(post[p].batch[1])

\* append_stream_bulk, append_stream, append_progress: the owner, the highest
\* number so far, and then row after row.
CheckOwner(p) ==
  /\ post[p].at = "owner"
  /\ IF Accepted(p) THEN Step(p, "max") /\ UNCHANGED lost
     ELSE Step(p, "refuse") /\ lost' = lost \cup ToSet(post[p].batch)
  /\ UNCHANGED <<scenario, client, buffer, rows, over, input, answered, restarted, accepted, runnerSide>>

Highest(table) ==
  LET numbers == {rows[i].seq : i \in {j \in DOMAIN rows : Table(rows[j].msg) = table}}
  IN IF numbers = {} THEN 0 ELSE CHOOSE n \in numbers : \A m \in numbers : m <= n

NextNumber(p) == Highest(Table(post[p].batch[1])) + 1

ReadMax(p) ==
  /\ post[p].at = "max"
  /\ post' = [post EXCEPT ![p].at = "insert", ![p].seq = NextNumber(p)]
  /\ UNCHANGED <<scenario, client, buffer, rows, over, input, answered, lost, restarted, accepted, runnerSide>>

InsertRow(p) ==
  /\ post[p].at = "insert"
  /\ LET batch == post[p].batch  rest == Tail(batch) IN
     /\ rows' = Append(rows, [msg |-> batch[1], seq |-> post[p].seq])
     /\ post' = [post EXCEPT ![p].batch = rest, ![p].seq = @ + 1,
          ![p].at = IF rest = <<>> THEN AfterBatch(p)
                    ELSE IF Own(rest[1]) = Own(batch[1]) THEN "insert" ELSE "owner"]
  /\ UNCHANGED <<scenario, client, buffer, over, input, answered, lost, restarted, accepted, runnerSide>>

\* ... then forgets it, with whatever came in since.
Forget(p) ==
  /\ post[p].at = "forget"
  /\ buffer' = <<>>
  /\ Step(p, "evidence")
  /\ UNCHANGED <<scenario, client, rows, over, input, answered, lost, restarted, accepted, runnerSide>>

\* The completion gate allows or refuses the result.
GateResult(p) ==
  /\ post[p].at = "evidence"
  /\ \/ Step(p, "record")
     \/ "refuse" \in scenario.faults /\ Step(p, "refuse")
  /\ UNCHANGED <<scenario, client, buffer, rows, over, input, answered, lost, restarted, accepted, runnerSide>>

RecordTerminal(p) ==
  /\ post[p].at = "record"
  /\ over' = TRUE
  /\ Step(p, "dropInput")
  /\ UNCHANGED <<scenario, client, buffer, rows, input, answered, lost, restarted, accepted, runnerSide>>

DropInput(p) ==
  /\ post[p].at = "dropInput"
  /\ input' = <<>>
  /\ Step(p, "answer")
  /\ UNCHANGED <<scenario, client, buffer, rows, over, answered, lost, restarted, accepted, runnerSide>>

\* post_task_input reads the task, and queues the batch under another lock.
Takes == ~over

CheckStatus(p) ==
  /\ post[p].at = "status"
  /\ Step(p, IF Takes THEN "enqueue" ELSE "refuse")
  /\ UNCHANGED <<scenario, client, buffer, rows, over, input, answered, lost, restarted, accepted, runnerSide>>

Enqueue(p) ==
  /\ post[p].at = "enqueue"
  /\ input' = Append(input, [msg |-> post[p].msg,
                seq |-> IF input = <<>> THEN 1 ELSE Last(input).seq + 1])
  /\ accepted' = Append(accepted, post[p].msg)
  /\ Step(p, "answer")
  /\ UNCHANGED <<scenario, client, buffer, rows, over, answered, lost, restarted, runnerSide>>

\* A store call or the redaction fails: the batch in hand is gone.
FailPost(p) ==
  /\ "error" \in scenario.faults
  /\ post[p].at \in {"push", "owner", "max", "insert", "evidence", "record", "status"}
  /\ Step(p, "refuse")
  /\ lost' = lost \cup ToSet(post[p].batch)
  /\ UNCHANGED <<scenario, client, buffer, rows, over, input, answered, restarted, accepted, runnerSide>>

\* The connection of a client that gave up closes, and its handler with it.
DropPost(p) ==
  /\ post[p] # NoWork /\ Waiting(p) = {}
  /\ post' = [post EXCEPT ![p] = NoWork]
  /\ lost' = lost \cup ToSet(post[p].batch)
  /\ UNCHANGED <<scenario, client, buffer, rows, over, input, answered, restarted, accepted, runnerSide>>

HubRestarts ==
  /\ "restart" \in scenario.faults /\ ~restarted
  /\ restarted' = TRUE
  /\ post' = [p \in Post |-> NoWork] /\ buffer' = <<>> /\ input' = <<>>
  /\ lost' = lost \cup ToSet(buffer) \cup UNION {ToSet(post[p].batch) : p \in Post}
  /\ client' = [c \in Client |-> IF client[c].waits = NoPost
                  THEN client[c] ELSE [client[c] EXCEPT !.waits = Gone]]
  /\ UNCHANGED <<scenario, rows, over, answered, accepted, runnerSide>>

-----------------------------------------------------------------------------
(* The watchers.                                                           *)
Running == client["result"].sent = 0

\* get_task_input and drain_signed_stdin: what is behind the cursor is given
\* to the process, and the cursor moves to the last of it.
Behind(entry) == entry.seq > stdinAt

PollInput ==
  /\ Running
  /\ LET new == Picked(input, {i \in DOMAIN input : Behind(input[i])}) IN
     /\ new # <<>>
     /\ delivered' = delivered \o [i \in DOMAIN new |-> new[i].msg]
     /\ stdinAt' = Last(new).seq
  /\ UNCHANGED <<scenario, client, post, buffer, rows, over, input, reader, events,
                 answered, lost, restarted, accepted>>

\* streams_since, progress_since: by number, and by id among equals.
Page(table, cursor, limit) ==
  LET ids == {i \in DOMAIN rows : Table(rows[i].msg) = table /\ rows[i].seq > cursor}
      before(i, j) == rows[i].seq < rows[j].seq \/ (rows[i].seq = rows[j].seq /\ i < j)
      first == SetToSortSeq(ids, before)
  IN SubSeq(first, 1, IF Len(first) < limit THEN Len(first) ELSE limit)

LinesPage == Page("lines", reader.cursor, Limit)

ReadLines ==
  /\ "read" \in scenario.faults
  /\ LET page == LinesPage IN
     /\ page # <<>>
     /\ reader' = [cursor |-> rows[Last(page)].seq, seen |-> reader.seen \cup ToSet(page)]
  /\ UNCHANGED <<scenario, client, post, buffer, rows, over, input, stdinAt, delivered, events,
                 answered, lost, restarted, accepted>>

\* task_events: the task, then its progress; it ends when the task it read
\* was over.
AfterTask == "progress"

EventsTask ==
  /\ scenario.count["progress"] > 0 /\ events.at = "task"
  /\ events' = [events EXCEPT !.over = over, !.at = AfterTask]
  /\ UNCHANGED <<scenario, client, post, buffer, rows, over, input, stdinAt, delivered, reader,
                 answered, lost, restarted, accepted>>

EventsProgress ==
  /\ events.at = "progress"
  /\ LET page == Page("progress", events.cursor, Len(rows)) IN
     events' = [events EXCEPT !.at = IF events.over THEN "closed" ELSE "task",
       !.cursor = IF page = <<>> THEN @ ELSE rows[Last(page)].seq,
       !.seen = @ \cup ToSet(page)]
  /\ UNCHANGED <<scenario, client, post, buffer, rows, over, input, stdinAt, delivered, reader,
                 answered, lost, restarted, accepted>>

-----------------------------------------------------------------------------
Handlers(p) ==
  \/ Answer(p) \/ PushLine(p) \/ FlushTask(p) \/ CheckOwner(p) \/ ReadMax(p) \/ InsertRow(p)
  \/ Forget(p) \/ GateResult(p) \/ RecordTerminal(p) \/ DropInput(p)
  \/ CheckStatus(p) \/ Enqueue(p) \/ FailPost(p) \/ DropPost(p)

StreamsNext ==
  \/ \E c \in Client : GiveUp(c) \/ \E p \in Post : SendMessage(c, p) \/ SendAgain(c, p)
  \/ \E p \in Post : Handlers(p)
  \/ HubRestarts \/ PollInput \/ ReadLines \/ EventsTask \/ EventsProgress

\* The runner polls for input as long as the process runs.
StreamsSpec == StreamsInit /\ [][StreamsNext]_streamVars /\ WF_streamVars(PollInput)

-----------------------------------------------------------------------------
Message == {<<c, n>> : c \in Client, n \in 1..2}

\* Messages, rows and cursors are of their kinds.
StreamsTypeOK ==
  /\ \A p \in Post : post[p] = NoWork \/ post[p].msg \in Message
  /\ \A c \in Client : client[c].sent \in 0..scenario.count[c] /\ client[c].tries \in 0..Tries
  /\ ToSet(buffer) \cup answered \cup lost \cup ToSet(accepted) \subseteq Message
  /\ \A i \in DOMAIN rows : rows[i].msg \in Message /\ rows[i].seq \in 1..Len(rows)
  /\ reader.cursor \in 0..Len(rows) /\ reader.seen \subseteq DOMAIN rows
  /\ events.seen \subseteq DOMAIN rows /\ over \in BOOLEAN

Stored == {rows[i].msg : i \in DOMAIN rows}
InHand == UNION {ToSet(post[p].batch) : p \in Post}

\* "Force-flush any buffered stream lines before marking the task terminal.
\* This ensures no lines are lost": a line that its pump was told is taken is
\* stored, waits in the buffer while the task is not over, or is in the hands
\* of a handler; only a handler or a hub that died took one with it.
AnsweredLinesKept ==
  \A m \in answered : Sender(m) \in Pumps =>
    \/ m \in Stored \cup InHand \cup lost
    \/ m \in ToSet(buffer) /\ ~over

\* The process is given every accepted batch at most once and in the order
\* they were accepted, also over a restart that numbers them anew.
InputInOrder ==
  \A i, j \in DOMAIN delivered : i < j =>
    \E a, b \in DOMAIN accepted : a < b /\ accepted[a] = delivered[i] /\ accepted[b] = delivered[j]

\* "ordered, gap-free sequence numbers for task output/progress lines"
\* (fabric-streams/README.md): no two rows of a table have the same number.
RowsNumberedApart ==
  \A i, j \in DOMAIN rows :
    i # j /\ Table(rows[i].msg) = Table(rows[j].msg) => rows[i].seq # rows[j].seq

=============================================================================
