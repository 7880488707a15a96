----------------------------- MODULE PolicyGate -----------------------------
(***************************************************************************)
(* The policy engine (fabric-policy) at two of its three gates: a dispatch *)
(* is allowed, held for an approval or refused, and a completion is taken  *)
(* or refused.  IntentGate is about the third.  The glob helpers are the   *)
(* code's, on short strings; a string is the sequence of its characters.   *)
(***************************************************************************)
EXTENDS Integers, Sequences, SequencesExt

CONSTANTS
  Inputs,     \* bound: [policy, request, probe]: FabricPolicy's fields as sets of
              \* patterns, DispatchRequest's, a pattern and a path for the helpers
  Paths,      \* bound: what a finished task may say it touched
  None        \* an absent branch or cwd

VARIABLES policy, asked, stage, approved, touched, probe

gateVars == <<policy, asked, stage, approved, touched, probe>>

Star == <<"*">>
Stars == <<"*", "*">>
Under == <<"/", "*", "*">>

-----------------------------------------------------------------------------
(* The glob helpers.                                                       *)
RECURSIVE TrimEnd(_, _)
TrimEnd(s, suffix) ==
  IF IsSuffix(suffix, s) THEN TrimEnd(SubSeq(s, 1, Len(s) - Len(suffix)), suffix) ELSE s

RECURSIVE Split(_)
Split(s) ==
  IF ~Contains(s, "/") THEN <<s>>
  ELSE LET at == CHOOSE i \in DOMAIN s : s[i] = "/" /\ \A j \in 1..(i - 1) : s[j] # "/"
       IN <<SubSeq(s, 1, at - 1)>> \o Split(SubSeq(s, at + 1, Len(s)))

\* Mutants: only a trailing star is a wildcard; a directory covers its name only.
SuffixOnly(pattern, value) ==
  \/ pattern = value
  \/ IsSuffix(Star, pattern) /\ IsPrefix(SubSeq(pattern, 1, Len(pattern) - 1), value)

SegmentMatch(pattern, value) ==
  \/ pattern \in {Star, Stars, value}
  \/ IsPrefix(Star, pattern) /\ IsSuffix(Tail(pattern), value)
  \/ /\ ~IsPrefix(Star, pattern) /\ IsSuffix(Star, pattern)
     /\ IsPrefix(Front(pattern), value)

\* glob_parts_match: a "**" ends the comparison, and so does the pattern's end.
PartsMatch(pattern, value) ==
  LET last == SelectInSeq(pattern, LAMBDA part : part = Stars)
      fixed == IF last = 0 THEN Len(pattern) ELSE last - 1 IN
  /\ fixed <= Len(value)
  /\ \A i \in 1..fixed : SegmentMatch(pattern[i], value[i])

GlobMatch(pattern, value) ==
  \/ pattern = Stars
  \/ LET pat == TrimEnd(pattern, Under) IN
     IF Contains(pat, "*") THEN PartsMatch(Split(pat), Split(value))
     ELSE value = pat \/ IsPrefix(pat \o <<"/">>, value)

Root(scope) == TrimEnd(TrimEnd(scope, Under), Star)

ScopesOverlap(a, b) == IsPrefix(Root(a), Root(b)) \/ IsPrefix(Root(b), Root(a))

Matches(patterns, value) == \E pattern \in patterns : GlobMatch(pattern, value)
Overlaps(patterns, scope) == \E pattern \in patterns : ScopesOverlap(scope, pattern)

-----------------------------------------------------------------------------
(* evaluate_dispatch: the first rule that has something to say.            *)
AllowlistExcludes(p, branch) == p.allowed_branches # {} /\ ~Matches(p.allowed_branches, branch)

BranchVerdict(p, branch) ==
  IF branch = None THEN "pass"
  ELSE IF Matches(p.blocked_branches, branch) \/ AllowlistExcludes(p, branch) THEN "deny"
  ELSE IF Matches(p.protected_branches, branch) THEN "approval"
  ELSE "pass"

ScopeVerdict(p, scope) ==
  IF Overlaps(p.blocked_scope_globs \cup p.forbidden_paths, scope) THEN "deny"
  ELSE IF Overlaps(p.require_approval_for_scopes, scope) THEN "approval"
  ELSE "pass"

\* The loop over the scope globs returns at the first that is not plainly fine.
ScopesVerdict(p, scopes) ==
  LET first == SelectInSeq(scopes, LAMBDA scope : ScopeVerdict(p, scope) # "pass") IN
  IF first = 0 THEN "pass" ELSE ScopeVerdict(p, scopes[first])

CwdForbidden(p, cwd) ==
  \E pattern \in p.forbidden_paths : GlobMatch(pattern, cwd) \/ IsPrefix(Root(pattern), cwd)

\* An empty prefix admits every cwd.
CwdOutside(scopes, cwd) ==
  scopes # <<>> /\ \A i \in DOMAIN scopes : ~IsPrefix(Root(scopes[i]), cwd)
CwdVerdict(p, req) ==
  IF /\ req.kind = "command" /\ req.cwd \notin {None, <<>>}
     /\ CwdForbidden(p, req.cwd) \/ CwdOutside(req.scope_globs, req.cwd)
  THEN "deny" ELSE "pass"

EvaluateDispatch(p, req) ==
  LET verdicts == <<BranchVerdict(p, req.target_branch), ScopesVerdict(p, req.scope_globs),
                    CwdVerdict(p, req)>>
      first == SelectInSeq(verdicts, LAMBDA verdict : verdict # "pass") IN
  IF first = 0 THEN "allow" ELSE verdicts[first]

-----------------------------------------------------------------------------
GateBegins(input) ==
  /\ policy = input.policy /\ asked = input.request /\ probe = input.probe
  /\ stage = "new" /\ approved = FALSE /\ touched = {}

GateInit == \E input \in Inputs : GateBegins(input)

\* dispatch_task_signed: 403, a held task with its approval, or a queued task.
Dispatch ==
  /\ stage = "new"
  /\ stage' = CASE EvaluateDispatch(policy, asked) = "deny" -> "refused"
                [] EvaluateDispatch(policy, asked) = "approval" -> "held"
                [] OTHER -> "queued"
  /\ UNCHANGED <<policy, asked, approved, touched, probe>>

\* The approval is resolved; the task is released as it stands, without another
\* look at the policy.
Approve ==
  /\ stage = "held"
  /\ stage' = "queued" /\ approved' = TRUE
  /\ UNCHANGED <<policy, asked, touched, probe>>

RunnerStarts ==
  /\ stage = "queued"
  /\ stage' = "running"
  /\ UNCHANGED <<policy, asked, approved, touched, probe>>

CompletionDenied(p, files) == \E file \in files : Matches(p.forbidden_paths, file)

\* submit_result: the diff is always reported as 0 lines, so only the paths
\* count.  A refused completion leaves the task running.
SubmitResult ==
  /\ stage = "running"
  /\ \E files \in SUBSET Paths :
       /\ touched' = files
       /\ stage' = IF CompletionDenied(policy, files) THEN "completion_denied" ELSE "done"
  /\ UNCHANGED <<policy, asked, approved, probe>>

GateNext == Dispatch \/ Approve \/ RunnerStarts \/ SubmitResult

GateSpec == GateInit /\ [][GateNext]_gateVars

-----------------------------------------------------------------------------
(* What the patterns mean, written down from their one-line descriptions:   *)
(* `*` stands for any characters of a segment, `**` for any path.           *)
RECURSIVE Wild(_, _)
Wild(pattern, value) ==
  IF pattern = <<>> THEN value = <<>>
  ELSE \/ Head(pattern) = "*" /\ \E k \in 0..Len(value) :
                                    Wild(Tail(pattern), SubSeq(value, k + 1, Len(value)))
       \/ value # <<>> /\ Head(pattern) = Head(value) /\ Wild(Tail(pattern), Tail(value))

RECURSIVE Covers(_, _)
Covers(parts, path) ==
  IF parts = <<>> THEN path = <<>>
  ELSE \/ Head(parts) = Stars /\ \E k \in 0..Len(path) :
                                    Covers(Tail(parts), SubSeq(path, k + 1, Len(path)))
       \/ path # <<>> /\ Wild(Head(parts), Head(path)) /\ Covers(Tail(parts), Tail(path))

Means(pattern, path) == Covers(Split(pattern), Split(path))

\* Patterns the helpers are made for: in a segment one star, first or last.
Simple(pattern) ==
  \A i \in DOMAIN Split(pattern) :
    LET part == Split(pattern)[i] IN
    \/ part = Stars
    \/ \A j \in DOMAIN part : part[j] = "*" => j \in {1, Len(part)} /\ Len(SelectSeq(part, LAMBDA c : c = "*")) = 1

\* glob_match never misses a path that a simple pattern stands for, nor
\* anything below it: a blocked branch or forbidden path is always recognised.
GlobCovers ==
  Simple(probe.pattern) =>
    \A k \in 1..Len(probe.path) :
      LET above == SubSeq(probe.path, 1, k) IN
      /\ Means(probe.pattern, above)
      /\ k = Len(probe.path) \/ (probe.path[k + 1] = "/" /\ probe.path[Len(probe.path)] # "/")
      => GlobMatch(probe.pattern, probe.path)

\* forbidden_paths: "Path globs that are always denied, regardless of scope or
\* approval."
ForbiddenDenied ==
  (\E i \in DOMAIN asked.scope_globs : Overlaps(policy.forbidden_paths, asked.scope_globs[i]))
  => stage \in {"new", "refused"}
=============================================================================
