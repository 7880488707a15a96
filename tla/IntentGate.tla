----------------------------- MODULE IntentGate -----------------------------
(***************************************************************************)
(* One task under a runner, and the runtime gate of the policy: fabric-    *)
(* runner's run_one_task and pump_stream, loom-runner's pre-spawn gate,    *)
(* the hub's evaluate_intent and submit_result, and the task's list of     *)
(* policy decisions, which a handler reads, extends and writes back.       *)
(*                                                                         *)
(* The process prints lines; a line may declare an intent.  It does not    *)
(* wait for the answer.  The runner's requests are retried when they time  *)
(* out, while the handler of the first try may still be at work.           *)
(***************************************************************************)
EXTENDS Integers, Sequences, FiniteSets

CONSTANTS
  Handler,      \* bound: handlers in flight
  NoHandler,
  Scripts,      \* bound: [runner, lines, code, holds]: the runner's kind, what
                \* the process prints ("text" or a kind of intent), how it exits,
                \* FabricPolicy.require_approval
  MaxTries,     \* MAX_RETRIES of the HTTP client
  Keep          \* policy_decisions keeps this many

ASSUME IntentAssumption ==
  /\ NoHandler \notin Handler
  /\ MaxTries \in Nat \ {0} /\ Keep \in Nat \ {0}
  /\ \A s \in Scripts : s.code \in Int /\ s.lines \in Seq(STRING)

VARIABLES
  script,
  process,    \* "none", "runs", "exited", "killed"
  printed,    \* lines in the pipe or beyond
  pump,       \* [at, read]: the task that reads the pipe
  outcome,    \* the channel from the pump to run_one_task
  main,       \* [at, code, status]: run_one_task
  calling,    \* [handler, tries, answer]: the request the runner waits on
  handler,    \* [at, asks, seen]: the hub's handlers
  taskState, decisions,  \* tasks.status, tasks.policy_decisions
  decided,    \* every decision a handler wrote, in that order: a ghost
  overlapped, \* two handlers of the task were at work at once: a ghost
  held        \* an intent was answered needs_approval: a ghost

intentVars == <<script, process, printed, pump, outcome, main, calling, handler, taskState,
                decisions, decided, overlapped, held>>
hub == <<taskState, decisions, decided>>

Ready == [at |-> "free", asks |-> "nothing", seen |-> <<>>]
Silence == [handler |-> NoHandler, tries |-> 0, answer |-> "none"]
Loom == script.runner = "loom"
IntentKinds == {"merge", "push", "network_egress", "shell_exec", "fs_write"}

IntentInit ==
  /\ script \in Scripts
  /\ process = "none" /\ printed = 0
  /\ pump = [at |-> "none", read |-> 0] /\ outcome = "none"
  /\ main = [at |-> "start", code |-> 0, status |-> "none"]
  /\ calling = Silence
  /\ handler = [h \in Handler |-> Ready]
  /\ taskState = "claimed" /\ decisions = <<>> /\ decided = <<>>
  /\ overlapped = FALSE /\ held = FALSE

-----------------------------------------------------------------------------
(* The hub.                                                                *)
EvaluateIntent(kind) == IF kind \in script.holds THEN "needs_approval" ELSE "allowed"

\* evaluate_intent answers 200 whatever it decided.
Verdict(asks) == IF asks \in IntentKinds THEN EvaluateIntent(asks) ELSE "allowed"

\* append_task_policy_decision, first half: get_task.
ReadDecisions(h) ==
  /\ handler[h].at = "read"
  /\ handler' = [handler EXCEPT ![h].at = "write", ![h].seen = decisions]
  /\ UNCHANGED <<script, process, printed, pump, outcome, main, calling, hub, overlapped, held>>

Drained(list) == IF Len(list) > Keep THEN SubSeq(list, Len(list) - Keep + 1, Len(list)) ELSE list

\* Second half: the UPDATE of the whole list.
WriteDecisions(h) ==
  /\ handler[h].at = "write"
  /\ LET entry == <<handler[h].asks, Verdict(handler[h].asks)>> IN
     /\ decisions' = Drained(Append(handler[h].seen, entry))
     /\ decided' = Append(decided, entry)
  /\ handler' = [handler EXCEPT ![h].at = IF handler[h].asks \in IntentKinds THEN "answer"
                                          ELSE "finish"]
  /\ UNCHANGED <<script, process, printed, pump, outcome, main, calling, taskState, overlapped, held>>

\* submit_result after its completion gate.
EndTask(h) ==
  /\ handler[h].at = "finish"
  /\ taskState' = handler[h].asks
  /\ handler' = [handler EXCEPT ![h].at = "answer"]
  /\ UNCHANGED <<script, process, printed, pump, outcome, main, calling, decisions, decided,
                 overlapped, held>>

AnswerIntent(h) ==
  /\ handler[h].at = "answer"
  /\ calling' = IF calling.handler = h /\ calling.answer = "none"
             THEN [calling EXCEPT !.answer = Verdict(handler[h].asks)] ELSE calling
  /\ held' = (held \/ (calling.handler = h /\ Verdict(handler[h].asks) = "needs_approval"))
  /\ handler' = [handler EXCEPT ![h] = Ready]
  /\ UNCHANGED <<script, process, printed, pump, outcome, main, hub, overlapped>>

\* A store call fails: 500.
HandlerFails(h) ==
  /\ handler[h].at \in {"read", "write", "finish"}
  /\ calling' = IF calling.handler = h /\ calling.answer = "none" THEN [calling EXCEPT !.answer = "error"]
             ELSE calling
  /\ handler' = [handler EXCEPT ![h] = Ready]
  /\ UNCHANGED <<script, process, printed, pump, outcome, main, hub, overlapped, held>>

-----------------------------------------------------------------------------
(* The HTTP client.                                                        *)
Arrive(asks, tries) ==
  /\ \E h \in Handler : handler[h] = Ready
  /\ LET h == CHOOSE free \in Handler : handler[free] = Ready IN
     /\ handler' = [handler EXCEPT ![h].at = "read", ![h].asks = asks]
     /\ calling' = [handler |-> h, tries |-> tries, answer |-> "none"]
  /\ overlapped' = (overlapped \/ \E other \in Handler : handler[other] # Ready)

\* The request times out; it is sent again, or it was the last try.
TimeOut ==
  /\ calling.handler # NoHandler /\ calling.answer = "none"
  /\ \/ /\ calling.tries < MaxTries
        /\ Arrive(handler[calling.handler].asks, calling.tries + 1)
     \/ /\ calling.tries = MaxTries
        /\ calling' = [calling EXCEPT !.answer = "error"]
        /\ UNCHANGED <<handler, overlapped>>
  /\ UNCHANGED <<script, process, printed, pump, outcome, main, hub, held>>

CallAnswered == calling.handler # NoHandler /\ calling.answer # "none"

-----------------------------------------------------------------------------
(* The process.                                                            *)
PrintLine ==
  /\ process = "runs" /\ printed < Len(script.lines)
  /\ printed' = printed + 1
  /\ UNCHANGED <<script, process, pump, outcome, main, calling, handler, hub, overlapped, held>>

Exit ==
  /\ process = "runs" /\ printed = Len(script.lines)
  /\ process' = "exited"
  /\ UNCHANGED <<script, printed, pump, outcome, main, calling, handler, hub, overlapped, held>>

-----------------------------------------------------------------------------
(* pump_stream: lines one at a time; an intent is asked before the next.   *)
PumpNext ==
  /\ pump.at = "reading" /\ pump.read < printed
  /\ LET line == script.lines[pump.read + 1] IN
     IF line \in IntentKinds /\ ~Loom
     THEN Arrive(line, 1) /\ pump' = [pump EXCEPT !.at = "asking"]
     ELSE /\ pump' = [pump EXCEPT !.read = @ + 1]
          /\ UNCHANGED <<calling, handler, overlapped>>
  /\ UNCHANGED <<script, process, printed, outcome, main, hub, held>>

PumpEnds ==
  /\ pump.at = "reading" /\ process \in {"exited", "killed"} /\ pump.read = printed
  /\ pump' = [pump EXCEPT !.at = "done"]
  /\ UNCHANGED <<script, process, printed, outcome, main, calling, handler, hub, overlapped, held>>

\* Any 200 goes on; every error halts.
GoesOn(answer) == answer \in {"allowed", "needs_approval"}

PumpAnswered ==
  /\ pump.at = "asking" /\ CallAnswered
  /\ IF GoesOn(calling.answer)
     THEN pump' = [at |-> "reading", read |-> pump.read + 1] /\ UNCHANGED outcome
     ELSE pump' = [pump EXCEPT !.at = "done"] /\ outcome' = "denied"
  /\ calling' = Silence
  /\ UNCHANGED <<script, process, printed, main, handler, hub, overlapped, held>>

-----------------------------------------------------------------------------
(* run_one_task.                                                           *)
\* mark_running, whose failure is only logged; Loom asks about shell_exec next.
Start ==
  /\ main.at = "start"
  /\ taskState' \in {"running", "claimed"}
  /\ IF Loom
     THEN Arrive("shell_exec", 1) /\ main' = [main EXCEPT !.at = "gate"] /\ UNCHANGED <<process, pump>>
     ELSE /\ main' = [main EXCEPT !.at = "wait"]
          /\ process' = "runs" /\ pump' = [pump EXCEPT !.at = "reading"]
          /\ UNCHANGED <<calling, handler, overlapped>>
  /\ UNCHANGED <<script, printed, outcome, decisions, decided, held>>

MaySpawn(answer) == answer = "allowed"

Spawn ==
  /\ main.at = "gate" /\ CallAnswered
  /\ calling' = Silence
  /\ IF MaySpawn(calling.answer)
     THEN /\ main' = [main EXCEPT !.at = "wait"]
          /\ process' = "runs" /\ pump' = [pump EXCEPT !.at = "reading"]
     ELSE /\ main' = [main EXCEPT !.at = "submit", !.status = "failed"]
          /\ UNCHANGED <<process, pump>>
  /\ UNCHANGED <<script, printed, outcome, handler, hub, overlapped, held>>

\* select!: the process ended, or the pump sent an outcome and it is killed.
Select ==
  /\ main.at = "wait"
  /\ \/ process = "exited" /\ main' = [main EXCEPT !.at = "join", !.code = script.code]
        /\ UNCHANGED process
     \/ /\ outcome = "denied" /\ main' = [main EXCEPT !.at = "join", !.code = -1]
        /\ process' = IF process = "runs" THEN "killed" ELSE process
  /\ UNCHANGED <<script, printed, pump, outcome, calling, handler, hub, overlapped, held>>

\* Once the pump has ended: the outcome it sent, even late, comes first.
ResultStatus == IF outcome = "denied" THEN "failed" ELSE IF main.code = 0 THEN "done" ELSE "failed"

Join ==
  /\ main.at = "join" /\ pump.at = "done"
  /\ main' = [main EXCEPT !.at = "submit", !.status = ResultStatus]
  /\ UNCHANGED <<script, process, printed, pump, outcome, calling, handler, hub, overlapped, held>>

Submit ==
  /\ main.at = "submit" /\ calling = Silence
  /\ Arrive(main.status, 1)
  /\ main' = [main EXCEPT !.at = "report"]
  /\ UNCHANGED <<script, process, printed, pump, outcome, hub, held>>

\* Whatever the answer, the runner is done with the task.
Reported ==
  /\ main.at = "report" /\ CallAnswered
  /\ main' = [main EXCEPT !.at = "end"] /\ calling' = Silence
  /\ UNCHANGED <<script, process, printed, pump, outcome, handler, hub, overlapped, held>>

RunnerStep == Start \/ Spawn \/ Select \/ Join \/ Submit \/ Reported
Pumping == PumpNext \/ PumpEnds \/ PumpAnswered
HubStep(h) == ReadDecisions(h) \/ WriteDecisions(h) \/ EndTask(h) \/ AnswerIntent(h)

IntentNext ==
  \/ RunnerStep \/ Pumping \/ PrintLine \/ Exit \/ TimeOut
  \/ \E h \in Handler : HubStep(h) \/ HandlerFails(h)

\* The runner's tasks run, its client has a timeout, the process prints and
\* ends by itself.  Nothing is asked of the hub: it may never answer.
IntentFairness ==
  /\ WF_intentVars(RunnerStep) /\ WF_intentVars(Pumping)
  /\ WF_intentVars(PrintLine \/ Exit) /\ WF_intentVars(TimeOut)

IntentSpec == IntentInit /\ [][IntentNext]_intentVars /\ IntentFairness

-----------------------------------------------------------------------------
IntentTypeOK ==
  /\ process \in {"none", "runs", "exited", "killed"}
  /\ printed \in 0..Len(script.lines) /\ pump.read \in 0..printed
  /\ pump.at \in {"none", "reading", "asking", "done"} /\ outcome \in {"none", "denied"}
  /\ main.at \in {"start", "gate", "wait", "join", "submit", "report", "end"}
  /\ main.status \in {"none", "done", "failed"}
  /\ calling.handler \in Handler \cup {NoHandler} /\ calling.tries \in 0..MaxTries
  /\ \A h \in Handler : handler[h].at \in {"free", "read", "write", "finish", "answer"}
  /\ taskState \in {"claimed", "running", "done", "failed"} /\ Len(decisions) <= Keep

\* A task whose intent was refused, or could not be asked, is never reported as
\* done: also not when the process ended by itself before the answer came.
HaltedFails == outcome = "denied" => main.status # "done" /\ taskState # "done"

\* While no two handlers of the task overlapped, its record is what was decided,
\* in that order, the newest kept when the list is full.
DecisionsKept ==
  ~overlapped =>
    decisions = SubSeq(decided, IF Len(decided) > Keep THEN Len(decided) - Keep + 1 ELSE 1,
                       Len(decided))

\* The client's doc of post_intent: "Returns `Ok(value)` on 200 (allowed)", and
\* a hold is told by a 428; so a task whose intent needed an approval stops.
HoldStopsTask == held => main.status # "done"
=============================================================================
