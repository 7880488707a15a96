-------------------------- MODULE MCRunnerRegistry --------------------------
(* Two runner processes that share an id, or a host and a role. *)
EXTENDS RunnerRegistry, TLC

CONSTANTS p1, p2, r1, r2, k1, k2, h1, loom, s1, s2, toolA, toolB, w1, w2

Identity(r, k) == [id |-> r, key |-> k, host |-> h1, kinds |-> loom]
TwoIdentities ==
  {(p1 :> Identity(r1, k1)) @@ (p2 :> Identity(r1, k2)),
   (p1 :> Identity(r1, k1)) @@ (p2 :> Identity(r2, k2))}

Offer(s, n) == [server |-> s, name |-> n]
TwoManifests == {<<Offer(s1, toolA), Offer(s2, toolA)>>, <<Offer(s1, toolB)>>}

\* Handlers are interchangeable.
Workers == Permutations(Worker)
=============================================================================
