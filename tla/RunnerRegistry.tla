--------------------------- MODULE RunnerRegistry ---------------------------
(***************************************************************************)
(* The hub's registry of runners: registration with its prune of silent    *)
(* siblings, heartbeats, drains, removal by an operator, and the           *)
(* capability index projected from the manifest a runner registers.        *)
(*                                                                         *)
(* Every handler is a sequence of awaited store calls, and any number of   *)
(* handlers run at once: two of one runner when the client's connection    *)
(* broke and it sent the same signed body again.                           *)
(***************************************************************************)
EXTENDS SignedRequests

CONSTANTS
  Process,     \* runner processes
  Identities,  \* the identities they may have: functions Process -> identity
  Manifests,   \* MCP manifests: sequences of [server, name]
  Worker,      \* handlers the hub runs at once
  Lead,        \* how far a runner's clock may be ahead of the hub's
  Stale,       \* 120 s: a runner silent for longer is a ghost
  MaxTries,    \* MAX_RETRIES of the client
  MaxRequests, \* bound on the requests the processes make
  MaxOrders,   \* bound on the operator's requests
  Missing

VARIABLES
  ident,       \* identity of each process: [id, key, host, kinds]
  runners,     \* the runners table
  index,       \* the runner_capabilities table
  call,        \* the request each process is sending
  work,        \* the handlers
  signed,      \* number of requests signed so far
  orders       \* number of the operator's requests so far

registryVars == <<ident, runners, index, call, work, signed, orders>>
allVars == <<signedVars, registryVars>>

Ids == UNION {{f[p].id : p \in Process} : f \in Identities}
Idle == [pc |-> "idle"]

\* Identities are total; runners are principals; a client tries a number of
\* times; every nonce signed and every reading of a clock within the bounds is
\* one SignedRequests knows.
ASSUME RegistryAssumption ==
  /\ \A f \in Identities : f = [p \in Process |-> f[p]]
  /\ \A m \in Manifests : m \in Seq({m[i] : i \in DOMAIN m})
  /\ Ids \subseteq Principal
  /\ MaxTries \in Nat
  /\ MaxRequests \in Nat /\ 1 .. MaxRequests \subseteq Nonce
  /\ MaxClock \in Nat /\ Lead \in Nat /\ 0 .. (MaxClock + Lead) \subseteq Instant

\* The row a first registration of process p with manifest m leaves.
Registered(p, m, at) ==
  [key |-> ident[p].key, host |-> ident[p].host, kinds |-> ident[p].kinds,
   manifest |-> m, drain |-> FALSE, state |-> "online", seen |-> at]

\* An empty registry, or one where a process registered just now.
RegistryInit ==
  /\ SignedInit
  /\ ident \in Identities
  /\ \/ runners = [r \in Ids |-> Missing]
     \/ \E p \in Process :
          runners = [r \in Ids |-> IF r = ident[p].id THEN Registered(p, <<>>, clock)
                                   ELSE Missing]
  /\ index = [r \in Ids |-> {}]
  /\ call = [p \in Process |-> Missing]
  /\ work = [w \in Worker |-> Idle]
  /\ signed = 0
  /\ orders = 0

Known(r) == runners[r] # Missing

-----------------------------------------------------------------------------
(* The runner's side: one request at a time, signed once and sent again    *)
(* with the same body when the connection breaks.                          *)

Sign(p, op, manifest, nonce) ==
  /\ call[p] = Missing
  /\ signed < MaxRequests
  /\ \E lead \in 0 .. Lead :
       call' = [call EXCEPT ![p] = [op |-> op, manifest |-> manifest, nonce |-> nonce,
                                    ts |-> clock + lead, tries |-> 0]]
  /\ signed' = signed + 1
  /\ UNCHANGED <<signedVars, ident, runners, index, work, orders>>

SignRegister(p) == \E m \in Manifests : Sign(p, "register", m, 0)
SignHeartbeat(p) == Sign(p, "heartbeat", <<>>, signed + 1)
SignDrain(p) == Sign(p, "drain", <<>>, 0)

\* A try reaches the hub: the skew check is the handler's first statement
\* (register also refuses an unknown protocol version, and verifies the
\* signature with the key in the body, which its signer always passes).
\* The nonces of registrations and drains are never consumed.
Handler(p) ==
  CASE call[p].op = "register"  -> [pc |-> "prune", from |-> p, manifest |-> call[p].manifest]
    [] call[p].op = "drain"     -> [pc |-> "key", op |-> "drain", from |-> p]
    [] call[p].op = "heartbeat" -> [pc |-> "key", op |-> "heartbeat", from |-> p,
                                    ts |-> call[p].ts, nonce |-> call[p].nonce, checked |-> clock]

ReceiveUnchecked(p, w) ==
  /\ call[p] # Missing
  /\ call[p].tries < MaxTries
  /\ work[w] = Idle
  /\ call' = [call EXCEPT ![p].tries = @ + 1]
  /\ work' = [work EXCEPT ![w] = Handler(p)]
  /\ UNCHANGED <<signedVars, ident, runners, index, signed, orders>>

Receive(p, w) ==
  /\ call[p] # Missing
  /\ call[p].tries < MaxTries
  /\ work[w] = Idle
  /\ InSkew(call[p].ts, clock)
  /\ call' = [call EXCEPT ![p].tries = @ + 1]
  /\ work' = [work EXCEPT ![w] = Handler(p)]
  /\ UNCHANGED <<signedVars, ident, runners, index, signed, orders>>

\* The client has its answer, the try was refused for its timestamp, or the
\* last try failed: the request is over for the runner, whatever its handlers do.
Settle(p) ==
  /\ call[p] # Missing
  /\ call[p].tries > 0 \/ ~ InSkew(call[p].ts, clock)
  /\ call' = [call EXCEPT ![p] = Missing]
  /\ UNCHANGED <<signedVars, ident, runners, index, work, signed, orders>>

-----------------------------------------------------------------------------
(* Handlers.  At(w, step) is a handler about to make a store call. *)

At(w, step) == work[w].pc = step
Goto(w, step) == work' = [work EXCEPT ![w].pc = step]
End(w) == work' = [work EXCEPT ![w] = Idle]
Self(w) == ident[work[w].from]
Id(w) == Self(w).id

Kept == UNCHANGED <<signedVars, ident, index, call, signed, orders>>

\* upsert_runner's DELETE of ghosts; it also fixes the "now" of the new row.
Ghost(r, self) ==
  /\ Known(r)
  /\ r # self.id
  /\ runners[r].host = self.host
  /\ runners[r].kinds = self.kinds
  /\ runners[r].seen < clock - Stale

Prune(w) ==
  /\ At(w, "prune")
  /\ runners' = [r \in Ids |-> IF Ghost(r, Self(w)) THEN Missing ELSE runners[r]]
  /\ work' = [work EXCEPT ![w] = [pc |-> "bind", from |-> @.from, manifest |-> @.manifest,
                                  now |-> clock]]
  /\ Kept

\* The check of the existing key binding.
Bind(w) ==
  /\ At(w, "bind")
  /\ \/ /\ Known(Id(w)) /\ runners[Id(w)].key # Self(w).key
        /\ End(w)                                             \* 409
     \/ /\ Known(Id(w)) => runners[Id(w)].key = Self(w).key
        /\ Goto(w, IF Known(Id(w)) THEN "update" ELSE "insert")
  /\ UNCHANGED runners
  /\ Kept

NewRow(w) == Registered(work[w].from, work[w].manifest, work[w].now)

ToProject(w) ==
  work' = [work EXCEPT ![w] = [pc |-> "project", from |-> @.from, manifest |-> @.manifest]]

\* The INSERT meets the primary key when another registration was faster.
InsertRow(w) ==
  /\ At(w, "insert")
  /\ IF Known(Id(w))
     THEN runners' = runners /\ End(w)                        \* 500
     ELSE runners' = [runners EXCEPT ![Id(w)] = NewRow(w)] /\ ToProject(w)
  /\ Kept

\* The UPDATE names the runner_id alone and leaves public_key alone.
UpdateRow(w) ==
  /\ At(w, "update")
  /\ LET r == Id(w) IN
       runners' = IF Known(r)
                  THEN [runners EXCEPT ![r] = [NewRow(w) EXCEPT !.key = runners[r].key]]
                  ELSE runners
  /\ ToProject(w)
  /\ Kept

\* Mutant: every offer becomes a row, duplicates included.
EveryOffer(m) == {[name |-> m[i].name, server |-> m[i].server] : i \in DOMAIN m}

\* normalize_manifest_to_rows: the first server that offers a capability has it.
ManifestRows(m) ==
  {[name |-> m[i].name, server |-> m[i].server] :
     i \in {k \in DOMAIN m : \A j \in 1 .. (k - 1) : m[j].name # m[k].name}}

OneRowEach(rows) == \A a, b \in rows : a.name = b.name => a = b

\* Mutant: the DELETE and the INSERTs in two transactions.
Appended(r, rows) == index[r] \cup rows

\* replace_runner_capabilities: DELETE and INSERTs in one transaction, which a
\* duplicate of the primary key rolls back.
Replaced(r, rows) == IF OneRowEach(rows) THEN rows ELSE index[r]

\* upsert_runner reads the row back, and a row removed meanwhile ends the
\* handler; the projection's failure is only logged.  (Nothing that happens
\* between the read and the projection looks at the index: one step.)
Project(w) ==
  /\ At(w, "project")
  /\ \/ /\ Known(Id(w))
        /\ index' = [index EXCEPT ![Id(w)] = Replaced(Id(w), ManifestRows(work[w].manifest))]
     \/ index' = index
  /\ End(w)
  /\ UNCHANGED <<signedVars, ident, runners, call, signed, orders>>

\* heartbeat and drain: the row's key verifies the body.
VerifyKey(w) ==
  /\ At(w, "key")
  /\ IF Known(Id(w)) /\ runners[Id(w)].key = Self(w).key
     THEN Goto(w, IF work[w].op = "drain" THEN "drain" ELSE "exists")
     ELSE End(w)                                              \* 404, 403
  /\ UNCHANGED runners
  /\ Kept

CheckExists(w) ==
  /\ At(w, "exists")
  /\ IF Known(Id(w))
     THEN work' = [work EXCEPT ![w] =
            [pc |-> "nonce", from |-> @.from, ts |-> @.ts, nonce |-> @.nonce,
             checked |-> @.checked, now |-> clock]]
     ELSE End(w)                                              \* 404
  /\ UNCHANGED runners
  /\ Kept

ConsumeNonce(w) ==
  /\ At(w, "nonce")
  /\ LET h == work[w] IN
       \/ /\ Consume(Id(w), h.nonce, h.ts, h.checked, h.now)
          /\ work' = [work EXCEPT ![w] = [pc |-> "beat", from |-> h.from, now |-> h.now]]
       \/ Refuse(Id(w), h.nonce) /\ End(w)                    \* 409
  /\ UNCHANGED <<ident, runners, index, call, signed, orders>>

\* Mutant: the heartbeat puts the runner back online.
OnlineAgain(row, at) == [row EXCEPT !.seen = at, !.drain = FALSE, !.state = "online"]

\* heartbeat_runner's UPDATE: the state follows drain_requested as the row has it.
Beaten(row, at) ==
  [row EXCEPT !.seen = at, !.state = IF row.drain THEN "draining" ELSE "online"]

Beat(w) ==
  /\ At(w, "beat")
  /\ runners' = IF Known(Id(w)) THEN [runners EXCEPT ![Id(w)] = Beaten(@, work[w].now)]
                ELSE runners
  /\ End(w)
  /\ Kept

Drained(row) == [row EXCEPT !.drain = TRUE, !.state = "draining"]

DrainRunner(w) ==
  /\ At(w, "drain")
  /\ runners' = IF Known(Id(w)) THEN [runners EXCEPT ![Id(w)] = Drained(@)] ELSE runners
  /\ End(w)
  /\ Kept

\* A handler is dropped at an await: its connection closed or the hub stopped.
DropHandler(w) ==
  /\ work[w] # Idle
  /\ End(w)
  /\ UNCHANGED runners
  /\ Kept

-----------------------------------------------------------------------------
(* The operator. *)

Order(r) ==
  /\ Known(r)
  /\ orders < MaxOrders
  /\ orders' = orders + 1
  /\ UNCHANGED <<signedVars, ident, index, call, work, signed>>

DrainByDispatcher(r) ==
  /\ Order(r)
  /\ runners' = [runners EXCEPT ![r] = Drained(@)]

Undrained(row) ==
  [row EXCEPT !.drain = FALSE, !.state = IF @ = "draining" THEN "online" ELSE @]

UndrainRunner(r) ==
  /\ Order(r)
  /\ runners' = [runners EXCEPT ![r] = Undrained(@)]

\* DELETE /runners/{id}: the capability rows stay.
DeregisterRunner(r) ==
  /\ Order(r)
  /\ runners' = [runners EXCEPT ![r] = Missing]

RegistryNext ==
  \/ Tick /\ UNCHANGED registryVars
  \/ \E p \in Process :
       \/ SignRegister(p) \/ SignHeartbeat(p) \/ SignDrain(p) \/ Settle(p)
       \/ \E w \in Worker : Receive(p, w)
  \/ \E w \in Worker :
       \/ Prune(w) \/ Bind(w) \/ InsertRow(w) \/ UpdateRow(w) \/ Project(w)
       \/ VerifyKey(w) \/ CheckExists(w) \/ ConsumeNonce(w) \/ Beat(w) \/ DrainRunner(w)
       \/ DropHandler(w)
  \/ \E r \in Ids : DrainByDispatcher(r) \/ UndrainRunner(r) \/ DeregisterRunner(r)

RegistrySpec == RegistryInit /\ [][RegistryNext]_allVars

-----------------------------------------------------------------------------
Row == [key : {f[p].key : f \in Identities, p \in Process},
        host : {f[p].host : f \in Identities, p \in Process},
        kinds : {f[p].kinds : f \in Identities, p \in Process},
        manifest : Manifests \cup {<<>>}, drain : BOOLEAN, state : {"online", "draining"}, seen : Instant]

(* The rows, the index and the nonce tables keep their types. *)
RegistryTypeOK ==
  /\ SignedTypeOK
  /\ \A r \in Ids : runners[r] \in Row \cup {Missing}
  /\ \A r \in Ids : index[r] \subseteq UNION {EveryOffer(m) : m \in Manifests}
  /\ \A p \in Process : call[p] # Missing => call[p].tries \in 0 .. MaxTries

(* A runner id stays bound to the key it was first registered with for as  *)
(* long as its row lives, whatever two registrations, a removal and a      *)
(* pruning do between one registration's key check and its write.          *)
KeyBound ==
  [][\A r \in Ids : Known(r) /\ Known(r)' => runners'[r].key = runners[r].key]_allVars

(* A drain asked for outlasts every heartbeat that was already under way:  *)
(* only an undrain or a registration ends it.                              *)
DrainHeld ==
  [][\A r \in Ids : Known(r) /\ Known(r)' /\ runners[r].drain /\ ~ runners'[r].drain =>
       \/ UndrainRunner(r)
       \/ \E w \in Worker : At(w, "update") /\ Id(w) = r /\ ~ (At(w, "update"))']_allVars

(* The state that the console shows of a runner agrees with the flag that  *)
(* its claims are refused by, whichever statements wrote the two last.     *)
DrainShown ==
  \A r \in Ids : Known(r) => (runners[r].drain <=> runners[r].state = "draining")

(* What the capability index says of a runner is the projection of one     *)
(* whole manifest, never a mixture of two, and it names one server for a   *)
(* capability.                                                             *)
IndexIsOneManifest ==
  \A r \in Ids : index[r] = {} \/ \E m \in Manifests :
    /\ {e.name : e \in index[r]} = {m[i].name : i \in DOMAIN m}
    /\ index[r] \subseteq EveryOffer(m)
    /\ OneRowEach(index[r])

=============================================================================
