------------------------------- MODULE MCRecords -------------------------------
(***************************************************************************)
(* What the hub keeps about who may do what and who did: the audit log, the *)
(* bearer gate, the role tokens, the route table, the directory of hosts    *)
(* and the secrets.  They share no state, so one of them at a time takes    *)
(* steps, while the others stay as they began; of the directory, its roles   *)
(* or its labels.                                                          *)
(***************************************************************************)
EXTENDS AuditChain, AuthGate, RoleTokens, RouteRoles, HubDirectory, SecretBroker, TLC

CONSTANTS Components, q1, q2, k1, k2, dispatch1, dispatch2
VARIABLE component

\* Two tasks with an event each.
TwoTasks == dispatch1 :> 1 @@ dispatch2 :> 2

\* A host spelled in two ways, and a runner on it.
TwoSpellings == {<<"a", "lower">>, <<"a", "mixed">>}
OneAgent == {[id |-> <<"r", "runner">>, host |-> "a"]}

\* The requests under way in one component stand for those in another.
Interchangeable == Permutations(Asker) \cup Permutations(SecretName)

-----------------------------------------------------------------------------
\* Where a component that takes no step has several ways to begin, one is taken.
OneCaller == CHOOSE c \in Caller : TRUE

RecordsInit ==
  /\ component \in Components
  /\ Init /\ (component = "audit" \/ \A w \in Writer : event[w] = dispatch1)
  /\ AccessInit /\ (component = "access" \/ \A s \in Session : session[s].keyed)
  /\ TokensInit
  /\ IF component = "routes" THEN RouteInit ELSE caller = OneCaller
  /\ DirectoryInit
  /\ BrokerInit /\ (component = "secrets" \/ \A n \in SecretName : ~Present(n))

RecordsNext ==
  /\ UNCHANGED component
  /\ \/ component = "audit" /\ Next
        /\ UNCHANGED <<accessVars, tokenVars, caller, directoryVars, brokerVars>>
     \/ component = "access" /\ AccessNext
        /\ UNCHANGED <<vars, tokenVars, caller, directoryVars, brokerVars>>
     \/ component = "tokens" /\ TokensNext
        /\ UNCHANGED <<vars, accessVars, caller, directoryVars, brokerVars>>
     \/ component = "directory" /\ RolesNext
        /\ UNCHANGED <<vars, accessVars, tokenVars, caller, brokerVars>>
     \/ component = "labels" /\ LabelsNext
        /\ UNCHANGED <<vars, accessVars, tokenVars, caller, brokerVars>>
     \/ component = "secrets" /\ BrokerNext
        /\ UNCHANGED <<vars, accessVars, tokenVars, caller, directoryVars>>

RecordsSpec ==
  RecordsInit /\ [][RecordsNext]_<<component, vars, accessVars, tokenVars, caller, directoryVars, brokerVars>>
=============================================================================
