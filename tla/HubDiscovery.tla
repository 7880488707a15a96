----------------------------- MODULE HubDiscovery -----------------------------
(***************************************************************************)
(* How a runner finds its hub: at its start, by the address it is           *)
(* configured with or else by asking the LAN.  A hub's beacon hears queries  *)
(* for a second and then sleeps for five; the runner asks for three seconds,  *)
(* waits longer and longer, and asks again.  The address of a hub is that of  *)
(* its datagram.  Hubs move, go down and come back.                         *)
(***************************************************************************)
EXTENDS Integers, Sequences, FiniteSets

CONSTANTS
  BeaconHub,    \* hubs on the LAN
  Site,         \* addresses
  Offline,      \* where a hub is that is down
  HashOf,       \* the token hash each hub announces: ours, theirs, or none
  MaxMoves      \* bound on the moves of hubs and the ends of the runner

ASSUME HashAssumption == HashOf \in [BeaconHub -> {"ours", "theirs", "none"}]

VARIABLES
  site,         \* where each hub is
  window,       \* whether its beacon hears queries now
  configured,   \* FORGEWIRE_HUB_URL, or Offline for none
  stage,        \* of the runner: down, checking, asking, waiting or serving
  found,        \* the hubs that answered the open query, in order, once each
  url,          \* the hub the runner works with
  moves

discoveryVars == <<site, window, configured, stage, found, url, moves>>

At(a) == {h \in BeaconHub : site[h] = a /\ a # Offline}
Ours(h) == HashOf[h] # "theirs"
Up == {h \in BeaconHub : site[h] # Offline /\ Ours(h)}

-----------------------------------------------------------------------------
(* resolve_hub_url *)

StartRunner ==
  /\ stage = "down"
  /\ stage' = IF configured # Offline THEN "checking" ELSE "asking"
  /\ UNCHANGED <<site, window, configured, found, url, moves>>

\* healthz, which any hub answers.
CheckConfigured ==
  /\ stage = "checking"
  /\ \/ At(configured) # {} /\ stage' = "serving" /\ url' = configured
     \/ At(configured) = {} /\ stage' = "asking" /\ UNCHANGED url
  /\ UNCHANGED <<site, window, configured, found, moves>>

\* discover keeps the hubs in the order of their first answers.
Listed(a) == IF \E i \in DOMAIN found : found[i] = a THEN found ELSE Append(found, a)

\* A beacon that hears the query answers it; the answer of another cluster is
\* passed over.
AnswerQuery(h) ==
  /\ stage = "asking"
  /\ site[h] # Offline /\ window[h] = "open"
  /\ Ours(h)
  /\ found' = Listed(site[h])
  /\ UNCHANGED <<site, window, configured, stage, url, moves>>

\* Mutant: after one search the configured address is used after all.
NoneFound_GiveUp == "serving"

\* Nothing was found: try again after a while.
NoneFound == "waiting"

EndDiscover ==
  /\ stage = "asking"
  /\ \/ /\ found # <<>>
        /\ stage' = "serving"
        /\ url' = Head(found)
     \/ /\ found = <<>>
        /\ stage' = NoneFound
        /\ UNCHANGED url
  /\ found' = <<>>
  /\ UNCHANGED <<site, window, configured, moves>>

AskAgain ==
  /\ stage = "waiting"
  /\ stage' = "asking"
  /\ UNCHANGED <<site, window, configured, found, url, moves>>

\* The runner ends and is started again.  register_with_retries and
\* heartbeat_loop do not end it, and keep the address they have.
EndRunner ==
  /\ stage # "down"
  /\ moves < MaxMoves
  /\ moves' = moves + 1
  /\ stage' = "down"
  /\ found' = <<>>
  /\ url' = Offline
  /\ UNCHANGED <<site, window, configured>>

-----------------------------------------------------------------------------
(* Hubs and their beacons: serve_once, then a sleep *)

Turn(h, to) ==
  /\ site[h] # Offline /\ window[h] # to
  /\ window' = [window EXCEPT ![h] = to]
  /\ UNCHANGED <<site, configured, stage, found, url, moves>>

OpenBeacon(h) == Turn(h, "open")
ShutBeacon(h) == Turn(h, "closed")

MoveHub(h) ==
  /\ moves < MaxMoves
  /\ moves' = moves + 1
  /\ \E a \in (Site \cup {Offline}) \ {site[h]} :
       /\ At(a) = {}
       /\ site' = [site EXCEPT ![h] = a]
  /\ window' = [window EXCEPT ![h] = "closed"]
  /\ UNCHANGED <<configured, stage, found, url>>

DiscoveryInit ==
  /\ site \in [BeaconHub -> Site \cup {Offline}]
  /\ \A g, h \in BeaconHub : g # h => site[g] # site[h] \/ site[g] = Offline
  /\ window = [h \in BeaconHub |-> "closed"]
  /\ configured \in Site \cup {Offline}
  /\ stage = "down"
  /\ found = <<>>
  /\ url = Offline
  /\ moves = 0

DiscoveryNext ==
  \/ StartRunner \/ CheckConfigured \/ EndDiscover \/ AskAgain \/ EndRunner
  \/ \E h \in BeaconHub : AnswerQuery(h) \/ OpenBeacon(h) \/ ShutBeacon(h) \/ MoveHub(h)

\* A beacon of the runner's cluster opens while it asks.
Heard == stage = "asking" /\ \E h \in BeaconHub : Ours(h) /\ OpenBeacon(h)

\* The runner's code goes on; and the periods of the two loops drift, so that a
\* beacon opens some time while the runner asks, and an answer comes through.
DiscoveryFair ==
  /\ WF_discoveryVars(StartRunner) /\ WF_discoveryVars(CheckConfigured)
  /\ WF_discoveryVars(EndDiscover) /\ WF_discoveryVars(AskAgain)
  /\ SF_discoveryVars(Heard)
  /\ SF_discoveryVars(\E h \in BeaconHub : AnswerQuery(h))

DiscoverySpec == DiscoveryInit /\ [][DiscoveryNext]_discoveryVars /\ DiscoveryFair

-----------------------------------------------------------------------------
(* Properties *)

Serves == stage = "serving" /\ \E h \in Up : site[h] = url

\* A runner that asks while hubs of its cluster are up comes to work with an
\* address one of them answered from, however the two loops miss each other.
Resolves ==
  stage = "asking" ~> ((stage = "serving" /\ url # Offline) \/ stage = "down" \/ Up = {})

\* The comment on resolve_hub_url: it is what makes the runner survive hub
\* address changes and reboots.
SurvivesMoves == []<>(Up = {} \/ Serves)
===============================================================================
