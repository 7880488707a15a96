--------------------------- MODULE MCTaskLifecycle ---------------------------
(* Small instances of TaskLifecycle for TLC. *)
EXTENDS TaskLifecycle, TLC

CONSTANTS r1, r2

\* Every runner may take every task.
AllEligible == Runner \X Task
\* Task 1 is for r1; the only runner of task 2's kind never registers.
OnlyFirst == {<<r1, 1>>}

Cap1 == [r \in Runner |-> 1]
None == {}
SecondTask == {2}

\* Claims are interchangeable, and so are runners with equal constants.
Interchangeable == Permutations(Call) \cup Permutations(Runner)
=============================================================================
