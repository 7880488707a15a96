----------------------------- MODULE MCSeekers ------------------------------
(***************************************************************************)
(* How nodes find each other: the directory of a runner's peers and its     *)
(* search for a hub.                                                       *)
(* They share no state, so one of them at a time takes steps, under the    *)
(* fairness of its own specification.                                      *)
(***************************************************************************)
EXTENDS NodeDirectory, HubDiscovery

CONSTANT Components
VARIABLE component

\* A hub of the cluster, and one of another.
OwnAndForeign == [h \in BeaconHub |-> IF h = "h1" THEN "ours" ELSE "theirs"]

-----------------------------------------------------------------------------
\* A component that takes no step begins in one way: with nobody there.
NodesBegin ==
  /\ NodesInit
  /\ component = "nodes" \/ (~carries /\ \A p \in Peer : where[p] = Nowhere /\ clock[p] = 0)

DiscoveryBegins ==
  /\ DiscoveryInit
  /\ component = "discovery" \/ (configured = Offline /\ \A h \in BeaconHub : site[h] = Offline)

SeekersInit == component \in Components /\ NodesBegin /\ DiscoveryBegins

SeekersNext ==
  /\ UNCHANGED component
  /\ \/ component = "nodes" /\ NodesNext /\ UNCHANGED discoveryVars
     \/ component = "discovery" /\ DiscoveryNext /\ UNCHANGED directoryFileVars

DirectoryFair ==
  /\ WF_directoryFileVars(component = "nodes" /\ Ask)
  /\ WF_directoryFileVars(component = "nodes" /\ Close)
  /\ WF_directoryFileVars(component = "nodes" /\ CyclePasses)
  /\ \A p \in Peer : SF_directoryFileVars(component = "nodes" /\ Hear(p))

SearchFair ==
  /\ WF_discoveryVars(component = "discovery" /\ StartRunner)
  /\ WF_discoveryVars(component = "discovery" /\ CheckConfigured)
  /\ WF_discoveryVars(component = "discovery" /\ EndDiscover)
  /\ WF_discoveryVars(component = "discovery" /\ AskAgain)
  /\ SF_discoveryVars(component = "discovery" /\ Heard)
  /\ SF_discoveryVars(component = "discovery" /\ \E h \in BeaconHub : AnswerQuery(h))

SeekersSpec ==
  /\ SeekersInit
  /\ [][SeekersNext]_<<component, directoryFileVars, discoveryVars>>
  /\ DirectoryFair /\ SearchFair
=============================================================================
