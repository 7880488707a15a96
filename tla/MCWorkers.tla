----------------------------- MODULE MCWorkers ------------------------------
(***************************************************************************)
(* The components that must get somewhere: the task queue with its agents  *)
(* and the topology managers.  They share no state, so one of them at a    *)
(* time takes steps, under the fairness of its own specification.          *)
(***************************************************************************)
EXTENDS TaskLifecycle, ClusterTopology

CONSTANT Components
VARIABLE component

CONSTANTS r1, r2
\* Task 1 is for r1; the only runner of task 2's kind never registers.
OnlyFirst == {<<r1, 1>>}
Cap1 == [r \in Runner |-> 1]
NoTasks == {}

\* One node that two more join; two voters, one of which must become a standby;
\* the same on an rqlite that cannot change a suffrage.
Found(nodes, able, grows, faulty) ==
  [members |-> nodes, voters |-> nodes, supported |-> able, most |-> grows, faults |-> faulty]
AllClusters ==
  {Found({1}, TRUE, 3, 1), Found({1, 2}, TRUE, 3, 0), Found({1, 2}, TRUE, 2, 2),
   Found({1, 2}, FALSE, 3, 1)}

-----------------------------------------------------------------------------
\* A component that takes no step begins in one way.
OneCluster == CHOOSE c \in Clusters : TRUE

WorkersInit ==
  /\ component \in Components
  /\ Init
  /\ TopologyInit
  /\ \/ component = "topology"
     \/ /\ members = OneCluster.members /\ supported = OneCluster.supported
        /\ most = OneCluster.most /\ mishaps = OneCluster.faults
        /\ \A n \in voters : leader <= n

WorkersNext ==
  /\ UNCHANGED component
  /\ \/ component = "tasks" /\ Next /\ UNCHANGED topologyVars
     \/ component = "topology" /\ TopologyNext /\ UNCHANGED vars

TasksFair ==
  /\ \A c \in Call : WF_vars(component = "tasks" /\ ClaimHandler(c))
  /\ \A r \in Runner : WF_vars(component = "tasks" /\ Agent(r))
  /\ \A t \in Task : /\ WF_vars(component = "tasks" /\ HandleStart(t))
                     /\ WF_vars(component = "tasks" /\ CancelEnd(t))
  /\ WF_vars(component = "tasks" /\ \E m \in reports : HandleReport(m))
  /\ WF_vars(component = "tasks" /\ \E m \in recording : RecordResult(m))

TopologyFair ==
  /\ WF_topologyVars(component = "topology" /\ Elect)
  /\ \A n \in Node : /\ WF_topologyVars(component = "topology" /\ NodeUp(n))
                     /\ WF_topologyVars(component = "topology" /\ ManagerStep(n))

WorkersSpec ==
  /\ WorkersInit /\ [][WorkersNext]_<<component, vars, topologyVars>>
  /\ TasksFair /\ TopologyFair

-----------------------------------------------------------------------------
\* TableReached, for the topology managers.
TopologySettles == component = "topology" => TableReached
=============================================================================
