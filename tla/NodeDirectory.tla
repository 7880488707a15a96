---------------------------- MODULE NodeDirectory -----------------------------
(***************************************************************************)
(* How a node finds its peers when DHCP moves them: the directory loop of a *)
(* runner.  Each cycle loads the directory file, asks for presence (by     *)
(* broadcast, and at every address it knows), merges the signed answers,    *)
(* drops what has been silent, saves the file and rewrites the managed      *)
(* block of the hosts file.  An answer carries the cycle's nonce, so it was  *)
(* signed in this cycle; its address is that of the datagram.  Clocks of    *)
(* peers run apart.  Time is counted in cycles, and passes between them.   *)
(***************************************************************************)
EXTENDS Integers, Sequences, FiniteSets, SequencesExt

CONSTANTS
  Peer,       \* the other nodes of the cluster, each with a host name of its own
  Address,
  Nowhere,    \* where a peer is that is down
  Expiry,     \* DEFAULT_EXPIRY, in cycles
  MaxSkew,    \* bound on how far a peer's clock is off
  MaxTroubles  \* bound on moves, clock steps, lost broadcasts and failed writes

ASSUME ExpiryAssumption == Expiry \in Nat
ASSUME SkewAssumption == MaxSkew \in Nat

VARIABLES
  where,      \* the address each peer has now
  clock,      \* each peer's clock, from the true time
  carries,    \* whether the network delivers broadcasts
  file,       \* fabric-hosts.json: an entry for each peer it knows
  hosts,      \* the lines of the hosts file
  phase,      \* where the loop is: idle, asked, or slept
  targets,    \* the addresses that the open query goes to
  heard,      \* the answers to it, the first of each peer
  troubles,
  away,       \* history: cycles since a peer last had an address
  unwritten   \* history: cycles since the hosts file was last reconciled

peerVars == <<where, clock, carries, troubles>>
loopVars == <<file, hosts, phase, targets, heard>>
directoryFileVars == <<peerVars, loopVars, away, unwritten>>

Capped(n, cap) == IF n > cap THEN cap ELSE n
Long == Expiry + 2

Begin == <<"begin">>
End == <<"end">>
Localhost == <<"localhost">>    \* lines of somebody else
Printer == <<"printer">>
Foreign == {Localhost, Printer}

-----------------------------------------------------------------------------
(* The hosts file *)

\* host_lines
HostLines(dir) ==
  SetToSeq({<<dir[p].ip, p>> : p \in DOMAIN dir})

\* render_block
RenderBlock(lines) == <<Begin>> \o lines \o <<End>>

\* splice_block: what lies between the markers goes, and the new block comes last.
Spliced(existing, block) ==
  LET Line(k, line) ==
        CASE line = Begin -> [k EXCEPT !.inside = TRUE]
          [] line # Begin /\ k.inside -> [k EXCEPT !.inside = line # End]
          [] OTHER -> [k EXCEPT !.lines = Append(@, line)]
  IN FoldLeft(Line, [inside |-> FALSE, lines |-> <<>>], existing).lines \o block

\* reconcile_hosts_file
Reconciled(dir) == Spliced(hosts, RenderBlock(HostLines(dir)))

-----------------------------------------------------------------------------
(* The directory *)

Entry(h) == [ip |-> h.ip, age |-> 0, stamp |-> h.stamp]

\* An answer that names another address than the entry, and was signed earlier.
SignedEarlier(p) == p \in DOMAIN file /\ file[p].ip # heard[p].ip /\ heard[p].stamp < file[p].stamp

\* merge
Merged ==
  [p \in DOMAIN file \cup DOMAIN heard |->
     IF p \in DOMAIN heard /\ ~SignedEarlier(p) THEN Entry(heard[p]) ELSE file[p]]

\* Mutant: the entries are only dropped when nothing was heard.
Unexpired_Silent(dir) ==
  [p \in {q \in DOMAIN dir : dir[q].age <= Expiry \/ heard # <<>>} |-> dir[p]]

\* expire
Unexpired(dir) == [p \in {q \in DOMAIN dir : dir[q].age <= Expiry} |-> dir[p]]

\* NodeDirectory.unicast_targets
Known == {file[p].ip : p \in DOMAIN file}

-----------------------------------------------------------------------------
(* directory_tick, the step of spawn_directory_loop *)

Ask ==
  /\ phase = "idle"
  /\ phase' = "asked"
  /\ targets' = Known
  /\ heard' = <<>>
  /\ UNCHANGED <<peerVars, file, hosts, away, unwritten>>

\* Mutant: broadcast only when no address is known.
Reaches_KnownOnly(p) == IF targets = {} THEN carries ELSE where[p] \in targets

\* The query goes out as a broadcast and to every known address.
Reaches(p) == carries \/ where[p] \in targets

\* serve_presence answers a query that reaches it, and collect_presence_addrs
\* keeps the first answer of each node.
Hear(p) ==
  /\ phase = "asked"
  /\ where[p] # Nowhere
  /\ Reaches(p)
  /\ p \notin DOMAIN heard
  /\ heard' = [q \in DOMAIN heard \cup {p} |->
                 IF q = p THEN [ip |-> where[p], stamp |-> clock[p]] ELSE heard[q]]
  /\ UNCHANGED <<peerVars, file, hosts, phase, targets, away, unwritten>>

\* The file, the hosts file, or both may not be written; the loop goes on.
Close ==
  LET dir == Unexpired(Merged) IN
  /\ phase = "asked"
  /\ phase' = "slept"
  /\ \E saved, reconciled \in BOOLEAN :
       /\ (saved /\ reconciled) \/ troubles < MaxTroubles
       /\ troubles' = IF saved /\ reconciled THEN troubles ELSE troubles + 1
       /\ file' = IF saved THEN dir ELSE file
       /\ hosts' = IF reconciled THEN Reconciled(dir) ELSE hosts
       /\ unwritten' = IF reconciled THEN 0 ELSE unwritten
  /\ targets' = {}
  /\ heard' = <<>>
  /\ UNCHANGED <<where, clock, carries, away>>

\* A cycle passes, in the loop's sleep or while the runner is stopped.
CyclePasses ==
  /\ phase \in {"slept", "idle"}
  /\ phase' = "idle"
  /\ file' = [p \in DOMAIN file |->
                [file[p] EXCEPT !.age = Capped(@ + 1, Expiry + 1),
                                !.stamp = IF @ > -MaxSkew THEN @ - 1 ELSE @]]
  /\ away' = [p \in Peer |-> [a \in Address |->
                IF where[p] = a THEN 0 ELSE Capped(away[p][a] + 1, Long)]]
  /\ unwritten' = Capped(unwritten + 1, 2)
  /\ UNCHANGED <<peerVars, hosts, targets, heard>>

\* The runner stops in a cycle; it loads the file again when it is back.
Stop ==
  /\ phase = "asked"
  /\ troubles < MaxTroubles
  /\ troubles' = troubles + 1
  /\ phase' = "idle"
  /\ targets' = {}
  /\ heard' = <<>>
  /\ UNCHANGED <<where, clock, carries, file, hosts, away, unwritten>>

-----------------------------------------------------------------------------
(* The network and the peers *)

\* A peer gets another address, goes down or comes up.  No two have the same.
Move(p) ==
  /\ troubles < MaxTroubles
  /\ troubles' = troubles + 1
  /\ \E a \in (Address \cup {Nowhere}) \ {where[p]} :
       /\ a = Nowhere \/ \A q \in Peer : where[q] # a
       /\ where' = [where EXCEPT ![p] = a]
       /\ away' = IF a = Nowhere THEN away ELSE [away EXCEPT ![p][a] = 0]
  /\ UNCHANGED <<clock, carries, loopVars, unwritten>>

Reset(p) ==
  /\ troubles < MaxTroubles
  /\ troubles' = troubles + 1
  /\ \E c \in -MaxSkew..MaxSkew : c # clock[p] /\ clock' = [clock EXCEPT ![p] = c]
  /\ UNCHANGED <<where, carries, loopVars, away, unwritten>>

\* A network that filters broadcasts, or has ceased to.
Filter ==
  /\ troubles < MaxTroubles
  /\ troubles' = troubles + 1
  /\ carries' = ~carries
  /\ UNCHANGED <<where, clock, loopVars, away, unwritten>>

\* A line is added behind the block.
Edit ==
  /\ \A i \in DOMAIN hosts : hosts[i] # Printer
  /\ hosts' = Append(hosts, Printer)
  /\ UNCHANGED <<peerVars, file, phase, targets, heard, away, unwritten>>

NodesInit ==
  /\ where \in [Peer -> Address \cup {Nowhere}]
  /\ \A p, q \in Peer : p # q => where[p] # where[q] \/ where[p] = Nowhere
  /\ \E c \in -MaxSkew..MaxSkew : clock = [p \in Peer |-> c]
  /\ carries \in BOOLEAN
  /\ file = <<>>
  /\ hosts = <<Localhost>>
  /\ phase = "idle"
  /\ targets = {}
  /\ heard = <<>>
  /\ troubles = 0
  /\ away = [p \in Peer |-> [a \in Address |-> IF where[p] = a THEN 0 ELSE Long]]
  /\ unwritten = 0

NodesNext ==
  \/ Ask \/ Close \/ CyclePasses \/ Stop \/ Filter \/ Edit
  \/ \E p \in Peer : Hear(p) \/ Move(p) \/ Reset(p)

\* The loop never stops for good, and an answer to a query asked again and again
\* comes back some time.
NodesFair ==
  /\ WF_directoryFileVars(Ask) /\ WF_directoryFileVars(Close) /\ WF_directoryFileVars(CyclePasses)
  /\ \A p \in Peer : SF_directoryFileVars(Hear(p))

NodesSpec == NodesInit /\ [][NodesNext]_directoryFileVars /\ NodesFair

-----------------------------------------------------------------------------
(* Properties *)

Lines == {hosts[i] : i \in DOMAIN hosts}
Managed == Lines \ (Foreign \cup {Begin, End})
Count(line) == Cardinality({i \in DOMAIN hosts : hosts[i] = line})

\* Whatever is written into the hosts file: it has one managed block, the lines
\* of others are all there once, and no peer is named at an address it left more
\* than an expiry ago, whichever writes failed and however clocks are set
\* ("removal exposes an outage rather than masking it with a stale address").
HostsFileSound ==
  /\ Count(Begin) <= 1 /\ Count(End) = Count(Begin) /\ Count(Localhost) = 1 /\ Count(Printer) <= 1
  /\ \A l \in Managed : unwritten < 2 => away[l[2]][l[1]] <= Expiry + unwritten

\* On a network that delivers broadcasts a peer that is up is found again and
\* again at the address it has, even if its clock was set back before it moved and
\* its answers look older than the entry they contradict.
FoundAgain ==
  \A p \in Peer :
    []<>(~carries \/ where[p] = Nowhere \/ <<where[p], p>> \in Managed)
===============================================================================
