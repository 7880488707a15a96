----------------------------- MODULE MCServices -----------------------------
(***************************************************************************)
(* The components that hold no thread of their own: what the hub's handlers *)
(* do with the settings, the streams, the budget, the policy and the dates. *)
(* They share no state, so one of them at a time takes steps, while the     *)
(* others stay as they began.                                              *)
(***************************************************************************)
EXTENDS Settings, TaskStreams, CostBudget, PolicyGate, CivilDates, IntentGate

CONSTANT Components
VARIABLE component

Interchangeable == Permutations(Writer) \cup Permutations(Key)

Messages(some) == some @@ [c \in Client |-> 0]
Scenario(some, threshold, failing) ==
  [count |-> Messages(some), threshold |-> threshold, faults |-> failing]

\* Both pumps against a reader, unbuffered; both pumps, an owner's and a
\* stranger's, over the buffer; stdin; progress.
AllScenarios ==
  {Scenario([stdout |-> 2, stderr |-> 1, result |-> 0], 1, {"read"}),
   Scenario([stdout |-> 1, stderr |-> 1, result |-> 1], 2, {"timeout"}),
   Scenario([stdout |-> 2, stderr |-> 1, result |-> 1], 2, {"error", "refuse"}),
   Scenario([stdout |-> 1, stderr |-> 1, other |-> 1, result |-> 1], 2, {"restart"}),
   Scenario([stdin |-> 2, result |-> 1], 1, {"timeout"}),
   Scenario([stdin |-> 2, result |-> 1], 1, {"restart"}),
   Scenario([progress |-> 2, result |-> 1], 1, {"timeout"})}

\* Saturday to Monday: two days of one week and the first of the next.
TurnOfTheWeek == 2..4

\* Every policy of up to three kinds of rules against requests that meet each;
\* the helpers against all short patterns and paths.
PolicyFields == {"protected_branches", "blocked_branches", "allowed_branches",
                 "forbidden_paths", "blocked_scope_globs", "require_approval_for_scopes"}
Rule(field) ==
  CASE field = "protected_branches" -> {<<"m">>}
    [] field = "blocked_branches" -> {<<"m">>, <<"r">>}
    [] field = "allowed_branches" -> {<<"r", "/", "*">>}
    [] field = "forbidden_paths" -> {<<"s", "/", "*", "*">>, <<"t", "*">>}
    [] field = "blocked_scope_globs" -> {<<"b">>}
    [] field = "require_approval_for_scopes" -> {<<"a">>}
Policies == {[f \in PolicyFields |-> IF f \in on THEN Rule(f) ELSE {}] : on \in {f \in SUBSET PolicyFields : Cardinality(f) <= 3}}
Requests ==
  [scope_globs : BoundedSeq({<<"s", "/", "b">>, <<"a">>, <<"c", "/", "*", "*">>, <<"b", "*">>, Stars}, 2),
   target_branch : {None, <<"m">>, <<"r", "/", "a">>},
   kind : {"command"}, cwd : {None, <<"s">>, <<"c", "/", "a">>}]
NoPolicy == [f \in PolicyFields |-> {}]
NoRequest == [scope_globs |-> <<>>, target_branch |-> None, kind |-> "agent", cwd |-> None]
AllInputs ==
  [policy : Policies, request : Requests, probe : {[pattern |-> Star, path |-> <<"a">>]}]
  \cup [policy : {NoPolicy}, request : {NoRequest},
        probe : [pattern : BoundedSeq({"a", "/", "*"}, 4), path : BoundedSeq({"a", "b", "/"}, 3)]]
FilesTouched == {<<"s", "/", "b">>, <<"c", "/", "t">>, <<"b">>}

Script(runner, lines, code, holds) ==
  [runner |-> runner, lines |-> lines, code |-> code, holds |-> holds]
AllScripts ==
  {Script("fabric", <<"push">>, 0, {"push"}),
   Script("fabric", <<"fs_write">>, 1, {}),
   Script("loom", <<"text">>, 0, {}),
   Script("loom", <<"text">>, 0, {"shell_exec"})}

\* Two years from the epoch, every New Year up to 2101, the ends of February
\* of a leap year and of a year that is none.
Around(year, month, day, n) ==
  (DaysFromCivil(year, month, day) - n)..(DaysFromCivil(year, month, day) + n)
TurnsOfTheYear ==
  (0..800) \cup UNION {Around(year, 1, 1, 8) : year \in 1971..2101}
           \cup Around(2000, 3, 1, 3) \cup Around(2100, 3, 1, 3)

-----------------------------------------------------------------------------
\* Where a component that takes no step has several ways to begin, one is taken.
OneScenario == CHOOSE s \in Scenarios : TRUE
OneInput == [policy |-> NoPolicy, request |-> NoRequest,
             probe |-> [pattern |-> Star, path |-> <<"a">>]]
OneScript == CHOOSE s \in Scripts : TRUE
OneDay == CHOOSE day \in CivilDays : day - 1 \notin CivilDays

ServicesInit ==
  /\ component \in Components
  /\ Init /\ (component = "settings" \/ \A v, w \in Writer : request[v] = request[w])
  /\ StreamsInit /\ (component = "streams" \/ scenario = OneScenario)
  /\ CostInit
  /\ IntentInit /\ (component = "intents" \/ script = OneScript)
  /\ CivilInit /\ (component = "dates" \/ civilDay = OneDay)
  /\ IF component = "policy" THEN GateInit ELSE GateBegins(OneInput)

ServicesNext ==
  /\ UNCHANGED component
  /\ \/ component = "settings" /\ Next
        /\ UNCHANGED <<streamVars, costVars, gateVars, intentVars, civilDay>>
     \/ component = "streams" /\ StreamsNext
        /\ UNCHANGED <<vars, costVars, gateVars, intentVars, civilDay>>
     \/ component = "cost" /\ CostNext
        /\ UNCHANGED <<vars, streamVars, gateVars, intentVars, civilDay>>
     \/ component = "policy" /\ GateNext
        /\ UNCHANGED <<vars, streamVars, costVars, intentVars, civilDay>>
     \/ component = "intents" /\ IntentNext
        /\ UNCHANGED <<vars, streamVars, costVars, gateVars, civilDay>>
     \/ component = "dates" /\ Midnight
        /\ UNCHANGED <<vars, streamVars, costVars, gateVars, intentVars>>

ServicesSpec ==
  ServicesInit /\ [][ServicesNext]_<<component, vars, streamVars, costVars, gateVars, intentVars, civilDay>>

=============================================================================
