----------------------------- MODULE MCApprovals -----------------------------
(***************************************************************************)
(* Approvals for TLC: one held brief, sent twice, with two resolvers and   *)
(* every failure; or, in calm weather and under fairness, two briefs, the  *)
(* second being the first sent again with the approval id it was given, or *)
(* one brief whose approval ForgeLink decides too.                         *)
(***************************************************************************)
EXTENDS Approvals, TLC

CONSTANT Regimes
VARIABLE regime

CONSTANTS q1, q2
OnlyOriginal == [q \in {q1} |-> NoRequest]
SecondRetriesFirst == (q1 :> NoRequest) @@ (q2 :> q1)

Calm == INSTANCE Approvals WITH
  Request <- {q1, q2}, RetryOf <- SecondRetriesFirst, Tries <- 1, Events <- {}
Linked == INSTANCE Approvals WITH
  Request <- {q1}, RetryOf <- OnlyOriginal, Tries <- 2, Events <- {"forgelink"}

ApprovalsInit ==
  /\ regime \in Regimes
  /\ \/ regime = "failures" /\ Init
     \/ regime = "calm" /\ Calm!Init
     \/ regime = "linked" /\ Linked!Init

ApprovalsNext ==
  /\ UNCHANGED regime
  /\ \/ regime = "failures" /\ Next
     \/ regime = "calm" /\ Calm!Next
     \/ regime = "linked" /\ Linked!Next

\* The handlers that Approvals is fair to, of the two fair regimes.
CalmFair ==
  /\ \A h \in Calm!Handler : /\ WF_vars(regime = "calm" /\ Calm!Dispatch(h))
                             /\ WF_vars(regime = "calm" /\ Calm!Deliver(h))
  /\ \A h \in Linked!Handler : /\ WF_vars(regime = "linked" /\ Linked!Dispatch(h))
                               /\ WF_vars(regime = "linked" /\ Linked!Deliver(h))
  /\ \A r \in Resolver : /\ WF_vars(regime = "calm" /\ Calm!Resolving(r))
                         /\ WF_vars(regime = "linked" /\ Linked!Resolving(r))

ApprovalsSpec == ApprovalsInit /\ [][ApprovalsNext]_<<regime, vars>> /\ CalmFair

\* DecisionReachesTask, in calm weather.
DecisionArrives ==
  /\ regime = "calm" => Calm!DecisionReachesTask
  /\ regime = "linked" => Linked!DecisionReachesTask
=============================================================================
