---------------------------- MODULE TaskOwnership ----------------------------
(***************************************************************************)
(* What the hub promises about a task, whatever happens to the processes   *)
(* and the messages: it is given to one runner at most and never taken     *)
(* back, it is executed at most once and only by that runner, and what is  *)
(* recorded of it is how that execution ended, or that it was withdrawn    *)
(* while nobody had it.  TaskLifecycle implements this specification.      *)
(***************************************************************************)
CONSTANTS Task, Runner, NoRunner, Outcome, NoOutcome, Withdrawn

VARIABLES
  phase,     \* "none", "held", "open", "owned", "begun" or "closed"
  owner,     \* the runner the task was given to
  outcome,   \* how its execution ended
  recorded   \* what the hub says of it once it is closed

vars == <<phase, owner, outcome, recorded>>

Init ==
  /\ phase = [t \in Task |-> "none"]
  /\ owner = [t \in Task |-> NoRunner]
  /\ outcome = [t \in Task |-> NoOutcome]
  /\ recorded = [t \in Task |-> NoOutcome]

Submit(t) ==
  /\ phase[t] = "none"
  /\ \E p \in {"open", "held"} : phase' = [phase EXCEPT ![t] = p]
  /\ UNCHANGED <<owner, outcome, recorded>>

Give(t) ==
  /\ phase[t] = "open"
  /\ phase' = [phase EXCEPT ![t] = "owned"]
  /\ \E r \in Runner : owner' = [owner EXCEPT ![t] = r]
  /\ UNCHANGED <<outcome, recorded>>

Begin(t) ==
  /\ phase[t] = "owned"
  /\ phase' = [phase EXCEPT ![t] = "begun"]
  /\ UNCHANGED <<owner, outcome, recorded>>

End(t) ==
  /\ phase[t] = "begun"
  /\ outcome[t] = NoOutcome
  /\ \E s \in Outcome : outcome' = [outcome EXCEPT ![t] = s]
  /\ UNCHANGED <<phase, owner, recorded>>

Close(t) ==
  /\ phase[t] = "begun"
  /\ outcome[t] # NoOutcome
  /\ phase' = [phase EXCEPT ![t] = "closed"]
  /\ recorded' = [recorded EXCEPT ![t] = outcome[t]]
  /\ UNCHANGED <<owner, outcome>>

Withdraw(t) ==
  /\ phase[t] = "open"
  /\ phase' = [phase EXCEPT ![t] = "closed"]
  /\ recorded' = [recorded EXCEPT ![t] = Withdrawn]
  /\ UNCHANGED <<owner, outcome>>

Next ==
  \E t \in Task :
    Submit(t) \/ Give(t) \/ Begin(t) \/ End(t) \/ Close(t) \/ Withdraw(t)

Spec == Init /\ [][Next]_vars

=============================================================================
