-------------------------- MODULE ClusterTopology --------------------------
(***************************************************************************)
(* The topology managers (cluster_manager.rs), one in every hub: each      *)
(* polls the nodes of the rqlite cluster and asks for the suffrage of the  *)
(* table: one voter and a standby when there are two nodes, voters only    *)
(* when there are more, and the first node as the leader.                  *)
(*                                                                         *)
(* A manager acts on the snapshot it polled; nodes go down and come back,  *)
(* join, and elect in between, and another manager acts on its own.  The   *)
(* cluster itself is Raft, modelled by what a membership change does to    *)
(* who can commit.                                                         *)
(***************************************************************************)
EXTENDS Integers, Sequences, FiniteSets, SequencesExt

CONSTANTS
  Node,       \* the nodes that may join, as numbers; the first is 1
  Nobody,
  Clusters    \* bound: [members, voters, supported, most, faults]: what the
              \* managers find, whether this rqlite can change a suffrage at all,
              \* how many nodes there will be, how many nodes go down, leaders
              \* step down and requests are lost

VARIABLES
  members, voters, up, leader,  \* the cluster
  supported,
  preferred,  \* label cluster.preferred_leader_node_id
  lastAction, \* label cluster.last_suffrage_action
  manager,    \* [at, seen, todo, done, fresh]: fresh is a ghost
  most, mishaps  \* what may still happen

topologyVars == <<members, voters, up, leader, supported, preferred, lastAction, manager, most, mishaps>>
cluster == <<members, voters, up, leader>>

Majority(config, alive) == 2 * Cardinality(config \cap alive) > Cardinality(config)

Off == [at |-> "off", seen |-> <<>>, todo |-> <<>>, done |-> FALSE, fresh |-> TRUE]

\* main.rs probes the cluster; run() will record a sole voter as the one preferred.
Started(n, config, vote) == [Off EXCEPT !.at = IF config = {n} /\ vote = {n} THEN "prefer" ELSE "idle"]

TopologyInit ==
  /\ \E c \in Clusters : /\ members = c.members /\ voters = c.voters /\ supported = c.supported
                          /\ most = c.most /\ mishaps = c.faults
  /\ up = members
  /\ leader \in voters
  /\ preferred = Nobody /\ lastAction = "none"
  /\ manager = [n \in Node |-> IF n \in members THEN Started(n, members, voters) ELSE Off]

-----------------------------------------------------------------------------
(* The cluster.                                                            *)
Outdated(m) == IF manager[m].at = "apply" THEN [manager[m] EXCEPT !.fresh = FALSE] ELSE manager[m]
Stale == manager' = [m \in Node |-> Outdated(m)]

NodeDown(n) ==
  /\ n \in up /\ mishaps > 0
  /\ mishaps' = mishaps - 1
  /\ up' = up \ {n}
  /\ leader' = IF leader = n \/ ~Majority(voters, up \ {n}) THEN Nobody ELSE leader
  /\ manager' = [m \in Node |-> IF m = n THEN Off ELSE Outdated(m)]
  /\ UNCHANGED <<members, voters, supported, preferred, lastAction, most>>

NodeUp(n) ==
  /\ n \in members \ up
  /\ up' = up \cup {n}
  /\ manager' = [manager EXCEPT ![n] = Started(n, members, voters)]
  /\ UNCHANGED <<members, voters, leader, supported, preferred, lastAction, mishaps, most>>

Elect ==
  /\ leader = Nobody /\ Majority(voters, up)
  /\ leader' \in voters \cap up
  /\ Stale
  /\ UNCHANGED <<members, voters, up, supported, preferred, lastAction, mishaps, most>>

LeaderSteps ==
  /\ leader # Nobody /\ mishaps > 0
  /\ mishaps' = mishaps - 1
  /\ leader' \in (voters \cap up) \ {leader}
  /\ Stale
  /\ UNCHANGED <<members, voters, up, supported, preferred, lastAction, most>>

\* The second node is installed as a standby; a later one either way.
JoinCluster(n, asVoter) ==
  /\ n \in Node \ members /\ Cardinality(members) < most /\ leader # Nobody
  /\ \A older \in Node : older < n => older \in members
  /\ asVoter => Cardinality(members) >= 2
  /\ members' = members \cup {n} /\ up' = up \cup {n}
  /\ voters' = IF asVoter THEN voters \cup {n} ELSE voters
  /\ manager' = [m \in Node |-> IF m = n THEN [Off EXCEPT !.at = "idle"] ELSE Outdated(m)]
  /\ UNCHANGED <<leader, supported, preferred, lastAction, mishaps, most>>

\* POST /join for a member: a change of the voters, which Raft refuses when none
\* would be left, and which deposes a leader it takes the vote from or leaves
\* without a majority.
ChangeVoters(config) ==
  /\ voters' = config
  /\ leader' = IF leader \notin config \/ ~Majority(config, up) THEN Nobody ELSE leader
  /\ UNCHANGED <<members, up>>

-----------------------------------------------------------------------------
(* The managers.                                                           *)
Seen == [members |-> members, voters |-> voters, up |-> up, leader |-> leader]

\* decide_topology.  Its leaderless row needs a cluster without a voter, which
\* Raft does not let happen.
Promotions(s) == SetToSeq({<<n, TRUE>> : n \in (s.members \ s.voters) \cap s.up})

Decide(s) ==
  CASE Cardinality(s.members) = 2 /\ s.voters = s.members ->
         \* Never the leader, and only a node that answers.
         LET idle == {n \in s.voters \cap s.up : n # s.leader} IN
         IF idle = {} THEN <<>> ELSE <<<<CHOOSE n \in idle : \A o \in idle : n <= o, FALSE>>>>
    [] Cardinality(s.members) >= 3 -> Promotions(s)
    [] OTHER -> <<>>

Manager(n, record) == manager' = [manager EXCEPT ![n] = record]

\* INSERT ... ON CONFLICT DO NOTHING, which needs a leader; not tried again.
Prefer(n) ==
  /\ manager[n].at = "prefer"
  /\ preferred' = IF preferred = Nobody /\ leader # Nobody THEN n ELSE preferred
  /\ Manager(n, [Off EXCEPT !.at = "idle"])
  /\ UNCHANGED <<cluster, supported, lastAction, mishaps, most>>

Poll(n) ==
  /\ manager[n].at = "idle"
  /\ LET todo == Decide(Seen) IN
     /\ todo # <<>> \/ Cardinality(members) >= 3  \* otherwise nothing is awaited
     /\ Manager(n, [Off EXCEPT !.at = IF todo = <<>> THEN "transfer" ELSE "apply",
                               !.seen = Seen, !.todo = todo])
  /\ UNCHANGED <<cluster, supported, preferred, lastAction, mishaps, most>>

\* One request of promote_to_voter or demote_to_nonvoter.  It can be lost, and
\* on rqlite v10 it always fails.
Apply(n) ==
  /\ manager[n].at = "apply" /\ manager[n].todo # <<>>
  /\ LET change == Head(manager[n].todo)
         config == IF change[2] THEN voters \cup {change[1]} ELSE voters \ {change[1]}
         next == [manager[n] EXCEPT !.todo = Tail(@)] IN
     \/ /\ supported /\ leader # Nobody /\ config # {}
        /\ ChangeVoters(config)
        /\ Manager(n, [next EXCEPT !.done = TRUE])
        /\ UNCHANGED mishaps
     \/ /\ \/ ~supported /\ UNCHANGED mishaps
           \/ supported /\ (leader = Nobody \/ config = {}) /\ UNCHANGED mishaps
           \/ supported /\ mishaps > 0 /\ mishaps' = mishaps - 1
        /\ Manager(n, next)
        /\ UNCHANGED cluster
  /\ UNCHANGED <<supported, preferred, lastAction, most>>

\* A demotion is read back; the outcome goes to the label, if it can be written.
Outcome(n) ==
  LET demotion == Cardinality(manager[n].seen.members) = 2
      target == CHOOSE m \in Node : <<m, FALSE>> \in ToSet(Decide(manager[n].seen))
  IN CASE demotion -> IF manager[n].done /\ target \notin voters THEN "demoted" ELSE "trap"
       [] OTHER -> IF manager[n].done THEN "promoted" ELSE "unsupported"

Record(n) ==
  /\ manager[n].at = "apply" /\ manager[n].todo = <<>>
  /\ lastAction' = IF leader # Nobody THEN Outcome(n) ELSE lastAction
  /\ Manager(n, IF Cardinality(manager[n].seen.members) < 3 THEN [Off EXCEPT !.at = "idle"]
                ELSE [Off EXCEPT !.at = "transfer", !.seen = manager[n].seen])
  /\ UNCHANGED <<cluster, supported, preferred, mishaps, most>>

\* A mutant: the first is called back only while nobody leads.
WantedLeaderless(s) ==
  Cardinality(s.members) >= 3 /\ s.leader = Nobody /\ preferred \in s.up \cap s.voters

\* maybe_transfer_leadership, still on the snapshot of the poll.
Wanted(s) ==
  /\ Cardinality(s.members) >= 3
  /\ s.leader \notin {Nobody, preferred}
  /\ preferred \in s.up \cap s.voters

\* POST /leader goes to the node that led when it was polled.
Transfer(n) ==
  /\ manager[n].at = "transfer"
  /\ IF leader # Nobody /\ Wanted(manager[n].seen)
     THEN \/ /\ leader = manager[n].seen.leader /\ preferred \in voters \cap up
             /\ leader' = preferred
             /\ manager' = [m \in Node |-> IF m = n THEN [Off EXCEPT !.at = "idle"] ELSE Outdated(m)]
             /\ UNCHANGED <<members, voters, up, mishaps>>
          \/ /\ \/ leader # manager[n].seen.leader /\ UNCHANGED mishaps
                \/ preferred \notin voters \cap up /\ UNCHANGED mishaps
                \/ mishaps > 0 /\ mishaps' = mishaps - 1
             /\ Manager(n, [Off EXCEPT !.at = "idle"])
             /\ UNCHANGED cluster
     ELSE Manager(n, [Off EXCEPT !.at = "idle"]) /\ UNCHANGED <<cluster, mishaps>>
  /\ UNCHANGED <<supported, preferred, lastAction, most>>

ManagerStep(n) == Prefer(n) \/ Poll(n) \/ Apply(n) \/ Record(n) \/ Transfer(n)

TopologyNext ==
  \/ Elect \/ LeaderSteps
  \/ \E n \in Node : \/ NodeDown(n) \/ NodeUp(n) \/ JoinCluster(n, TRUE) \/ JoinCluster(n, FALSE)
                     \/ ManagerStep(n)

\* A node that is down comes back, a cluster with a majority elects, and every
\* manager that runs polls again: its interval never ends.
TopologySpec ==
  /\ TopologyInit /\ [][TopologyNext]_topologyVars
  /\ WF_topologyVars(Elect)
  /\ \A n \in Node : WF_topologyVars(NodeUp(n)) /\ WF_topologyVars(ManagerStep(n))

-----------------------------------------------------------------------------
TopologyTypeOK ==
  /\ voters \subseteq members /\ up \subseteq members /\ members \subseteq Node
  /\ voters # {} /\ leader \in (voters \cap up) \cup {Nobody}
  /\ preferred \in Node \cup {Nobody}
  /\ lastAction \in {"none", "promoted", "unsupported", "demoted", "trap"}

\* When mishaps stop, the table is reached and stays: the managers of all nodes,
\* acting side by side, settle on one topology and one leader; where rqlite
\* cannot change a suffrage, the label ends up saying what an operator must do.
Settled ==
  /\ up = members /\ leader # Nobody
  /\ supported => voters = IF Cardinality(members) = 2 THEN {leader} ELSE members
  /\ Cardinality(members) >= 3 /\ preferred \in voters => leader = preferred
  /\ ~supported /\ Cardinality(members) = 2 /\ voters = members => lastAction = "trap"
  /\ ~supported /\ Cardinality(members) >= 3 /\ voters # members => lastAction = "unsupported"

TableReached == <>[]Settled
=============================================================================
