------------------------ MODULE SignedRequests_proofs ------------------------
(* Proofs about the single use of signed requests and about the registry   *)
(* of runners, whose heartbeats are such requests.                         *)
EXTENDS RunnerRegistry, WellFoundedInduction, TLAPS

(* The clock, the nonce tables and the record of acceptances keep their types. *)
THEOREM SignedTypes == SignedSpec => []SignedTypeOK
<1>1. SignedInit => SignedTypeOK
  BY DEF SignedInit, SignedTypeOK
<1>2. SignedTypeOK /\ [SignedNext]_signedVars => SignedTypeOK'
  <2> SUFFICES ASSUME SignedTypeOK, [SignedNext]_signedVars PROVE SignedTypeOK'
    OBVIOUS
  <2>1. CASE Tick
    BY <2>1 DEF Tick, SignedTypeOK
  <2>2. ASSUME NEW who \in Principal, NEW nonce \in Nonce, NEW ts \in Instant,
               NEW checked \in Instant, NEW usedAt \in Instant,
               Consume(who, nonce, ts, checked, usedAt)
        PROVE  SignedTypeOK'
    <3> DEFINE u == [who |-> who, nonce |-> nonce, usedAt |-> usedAt]
               a == [who |-> who, nonce |-> nonce, ts |-> ts, checked |-> checked,
                     usedAt |-> usedAt, consumed |-> clock]
    <3>1. PICK table \in Remembered :
            nonces' = table \cup {u} /\ accepted' = Append(accepted, a) /\ clock' = clock
      BY <2>2 DEF Consume
    <3>2. u \in Used /\ a \in Acceptance
      BY InstantAssumption DEF Used, Acceptance, SignedTypeOK
    <3>3. table \subseteq Used
      BY <3>1 DEF Remembered, Pruned, SignedTypeOK
    <3>4. Append(accepted, a) \in Seq(Acceptance)
      <4> HIDE DEF a
      <4> QED BY <3>2 DEF SignedTypeOK
    <3> HIDE DEF u, a
    <3> QED BY <3>1, <3>2, <3>3, <3>4 DEF SignedTypeOK
  <2>3. ASSUME NEW who, NEW nonce, Refuse(who, nonce) PROVE SignedTypeOK'
    BY <2>3 DEF Refuse, Remembered, Pruned, SignedTypeOK
  <2>4. CASE UNCHANGED signedVars
    BY <2>4 DEF signedVars, SignedTypeOK
  <2> QED BY <2>1, <2>2, <2>3, <2>4 DEF SignedNext, Request
<1> QED BY <1>1, <1>2, PTL DEF SignedSpec

(* Pruning and inserting keep every acceptance either recorded or out of   *)
(* the window: the inductive half of the law below.                          *)
LEMMA TableKnows ==
  ASSUME SignedTypeOK, NoncesInv, NEW table \in Remembered, NEW i \in DOMAIN accepted
  PROVE  \/ [who |-> accepted[i].who, nonce |-> accepted[i].nonce,
             usedAt |-> accepted[i].usedAt] \in table
         \/ accepted[i].usedAt < clock - Skew
<1> DEFINE u == [who |-> accepted[i].who, nonce |-> accepted[i].nonce,
                 usedAt |-> accepted[i].usedAt]
<1>1. accepted[i] \in Acceptance
  BY DEF SignedTypeOK
<1>2. accepted[i].usedAt \in Int /\ clock \in Int /\ Skew \in Int
  BY <1>1, SkewAssumption DEF Acceptance, SignedTypeOK
<1>3. CASE u \in nonces
  <2>1. u \in table \/ u.usedAt < clock - Skew
    BY <1>2, <1>3 DEF Remembered, Pruned, PruneCutoff
  <2> QED BY <2>1
<1>4. CASE accepted[i].usedAt < clock - Skew
  BY <1>4
<1> QED BY <1>3, <1>4 DEF NoncesInv

(* One signed request is accepted twice only by a handler that stalled     *)
(* longer than the request's stamp was old at its first use, whatever the  *)
(* window, the principals and the nonces.                                  *)
THEOREM SingleUse == SignedSpec => []RepeatNeedsDelay
<1> DEFINE IInv == NoncesInv /\ RepeatNeedsDelay
<1>1. SignedInit => IInv
  BY DEF SignedInit, NoncesInv, RepeatNeedsDelay
<1>2. SignedTypeOK /\ SignedTypeOK' /\ IInv /\ [SignedNext]_signedVars => IInv'
  <2> SUFFICES ASSUME SignedTypeOK, SignedTypeOK', IInv, [SignedNext]_signedVars
               PROVE  IInv'
    OBVIOUS
  <2>0. \A i \in DOMAIN accepted : accepted[i] \in Acceptance
    BY DEF SignedTypeOK
  <2>1. CASE Tick
    <3>1. \A i \in DOMAIN accepted : accepted[i].usedAt \in Int
      BY <2>0 DEF Acceptance
    <3>2. NoncesInv'
      BY <2>1, <3>1, SkewAssumption DEF Tick, NoncesInv, SignedTypeOK
    <3> QED BY <2>1, <3>2 DEF Tick, RepeatNeedsDelay
  <2>2. ASSUME NEW who \in Principal, NEW nonce \in Nonce, NEW ts \in Instant,
               NEW checked \in Instant, NEW usedAt \in Instant,
               InSkew(ts, checked), Consume(who, nonce, ts, checked, usedAt)
        PROVE  IInv'
    <3> DEFINE u == [who |-> who, nonce |-> nonce, usedAt |-> usedAt]
               a == [who |-> who, nonce |-> nonce, ts |-> ts, checked |-> checked,
                     usedAt |-> usedAt, consumed |-> clock]
               n == Len(accepted)
    <3>1. PICK table \in Remembered :
            /\ Unknown(who, nonce, table)
            /\ nonces' = table \cup {u} /\ accepted' = Append(accepted, a) /\ clock' = clock
      BY <2>2 DEF Consume
    <3>2. /\ a \in Acceptance
          /\ a.who = who /\ a.nonce = nonce /\ a.ts = ts /\ a.checked = checked
          /\ a.usedAt = usedAt /\ a.consumed = clock
      BY InstantAssumption DEF Acceptance, SignedTypeOK
    <3>3. u = [who |-> a.who, nonce |-> a.nonce, usedAt |-> a.usedAt]
      OBVIOUS
    <3> HIDE DEF u, a
    <3>4. /\ n \in Nat /\ DOMAIN accepted = 1 .. n /\ DOMAIN accepted' = 1 .. (n + 1)
          /\ accepted'[n + 1] = a
          /\ \A i \in 1 .. n : accepted'[i] = accepted[i]
      BY <3>1, <3>2 DEF SignedTypeOK
    <3>5. \A i \in 1 .. n :
            \/ [who |-> accepted[i].who, nonce |-> accepted[i].nonce,
                usedAt |-> accepted[i].usedAt] \in table
            \/ accepted[i].usedAt < clock - Skew
      BY <3>4, TableKnows
    <3>6. NoncesInv'
      <4>1. ASSUME NEW i \in 1 .. (n + 1)
            PROVE  \/ [who |-> accepted'[i].who, nonce |-> accepted'[i].nonce,
                       usedAt |-> accepted'[i].usedAt] \in nonces'
                   \/ accepted'[i].usedAt < clock' - Skew
        <5>1. CASE i = n + 1
          BY <5>1, <3>1, <3>3, <3>4
        <5>2. CASE i \in 1 .. n
          BY <5>2, <3>1, <3>4, <3>5
        <5>3. i = n + 1 \/ i \in 1 .. n
          BY ONLY <3>4, i \in 1 .. (n + 1)
        <5> QED BY <5>1, <5>2, <5>3
      <4> QED BY <4>1, <3>4 DEF NoncesInv
    <3>7. ASSUME NEW i \in 1 .. n, SameRequest(accepted[i], a)
          PROVE  a.consumed - a.checked > accepted[i].usedAt - accepted[i].ts
      <4>1. accepted[i].who = who /\ accepted[i].nonce = nonce /\ accepted[i].ts = ts
        BY <3>2, <3>7 DEF SameRequest
      <4>2. [who |-> accepted[i].who, nonce |-> accepted[i].nonce,
             usedAt |-> accepted[i].usedAt] \notin table
        BY <3>1, <4>1 DEF Unknown
      <4>3. accepted[i].usedAt < clock - Skew
        BY <3>5, <4>2
      <4>4. checked - ts <= Skew
        BY <2>2 DEF InSkew
      <4>5. accepted[i].usedAt \in Int /\ clock \in Int /\ Skew \in Int
        <5>1. i \in DOMAIN accepted
          BY <3>4
        <5>2. accepted[i] \in Acceptance
          BY <5>1, <2>0
        <5> QED BY <5>2, SkewAssumption DEF Acceptance, SignedTypeOK
      <4>6. clock - checked > accepted[i].usedAt - ts
        <5>1. ts \in Int /\ checked \in Int
          BY InstantAssumption
        <5> QED BY ONLY <4>3, <4>4, <4>5, <5>1
      <4> QED BY <4>6, <4>1, <3>2
    <3>8. RepeatNeedsDelay'
      <4>1. ASSUME NEW j \in 1 .. (n + 1), NEW i \in 1 .. (j - 1),
                   SameRequest(accepted'[i], accepted'[j])
            PROVE  accepted'[j].consumed - accepted'[j].checked
                     > accepted'[i].usedAt - accepted'[i].ts
        <5>1. i \in 1 .. n /\ (j = n + 1 \/ j \in 1 .. n)
          BY ONLY <3>4, j \in 1 .. (n + 1), i \in 1 .. (j - 1)
        <5>2. CASE j = n + 1
          BY <4>1, <5>1, <5>2, <3>4, <3>7
        <5>3. CASE j \in 1 .. n
          BY <4>1, <5>1, <5>3, <3>4 DEF RepeatNeedsDelay
        <5> QED BY <5>1, <5>2, <5>3
      <4> QED BY <4>1, <3>4 DEF RepeatNeedsDelay
    <3> QED BY <3>6, <3>8
  <2>3. ASSUME NEW who, NEW nonce, Refuse(who, nonce) PROVE IInv'
    <3>1. PICK table \in Remembered :
            nonces' = table /\ UNCHANGED <<clock, accepted>>
      BY <2>3 DEF Refuse
    <3>2. NoncesInv'
      BY <3>1, TableKnows DEF NoncesInv
    <3> QED BY <3>1, <3>2 DEF RepeatNeedsDelay
  <2>4. CASE UNCHANGED signedVars
    BY <2>4 DEF signedVars, NoncesInv, RepeatNeedsDelay
  <2> QED BY <2>1, <2>2, <2>3, <2>4 DEF SignedNext, Request
<1>3. IInv => RepeatNeedsDelay
  OBVIOUS
<1> QED BY <1>1, <1>2, <1>3, SignedTypes, PTL DEF SignedSpec

-----------------------------------------------------------------------------
(* The registry of runners. *)

(* What a handler holds at each of its awaits. *)
PruneWork == [pc : {"prune"}, from : Process, manifest : Manifests]
WriteWork == [pc : {"bind", "update", "insert"}, from : Process, manifest : Manifests, now : Instant]
ProjectWork == [pc : {"project"}, from : Process, manifest : Manifests]
DrainWork == [pc : {"key", "drain"}, op : {"drain"}, from : Process]
KeyWork == [pc : {"key", "exists"}, op : {"heartbeat"}, from : Process,
            ts : Instant, nonce : Nonce, checked : 0 .. clock]
NonceWork == [pc : {"nonce"}, from : Process, ts : Instant, nonce : Nonce,
              checked : 0 .. clock, now : 0 .. clock]
BeatWork == [pc : {"beat"}, from : Process, now : Instant]
Work == PruneWork \cup WriteWork \cup ProjectWork \cup DrainWork \cup KeyWork
          \cup NonceWork \cup BeatWork \cup {Idle}

Call == [op : {"register"}, manifest : Manifests, nonce : {0}, ts : Instant, tries : Int]
          \cup [op : {"heartbeat"}, manifest : {<<>>}, nonce : Nonce, ts : Instant, tries : Int]
          \cup [op : {"drain"}, manifest : {<<>>}, nonce : {0}, ts : Instant, tries : Int]

(* A heartbeat's stamp was within the window when it was checked, and "now" *)
(* was read after that.                                                     *)
Checked(h) ==
  /\ h \in KeyWork \cup NonceWork => InSkew(h.ts, h.checked)
  /\ h \in NonceWork => h.checked <= h.now

Projection(rows) == rows = {} \/ \E m \in Manifests : rows = ManifestRows(m)

RowsOK == runners = [r \in Ids |-> runners[r]] /\ \A r \in Ids : runners[r] \in Row \cup {Missing}
WorkOK == work = [w \in Worker |-> work[w]] /\ \A w \in Worker : work[w] \in Work /\ Checked(work[w])

RegistryInv ==
  /\ clock \in 0 .. MaxClock
  /\ signed \in 0 .. MaxRequests
  /\ ident \in Identities
  /\ RowsOK
  /\ index = [r \in Ids |-> index[r]] /\ \A r \in Ids : Projection(index[r])
  /\ call = [p \in Process |-> call[p]] /\ \A p \in Process : call[p] \in Call \cup {Missing}
  /\ WorkOK

(* What a handler is at tells what it holds. *)
LEMMA AtStep ==
  ASSUME RegistryInv, NEW w \in Worker
  PROVE  /\ At(w, "prune") => work[w] \in PruneWork
         /\ At(w, "bind") \/ At(w, "update") \/ At(w, "insert") => work[w] \in WriteWork
         /\ At(w, "project") => work[w] \in ProjectWork
         /\ At(w, "key") => work[w] \in DrainWork \cup KeyWork
         /\ At(w, "exists") => work[w] \in KeyWork
         /\ At(w, "nonce") => work[w] \in NonceWork
         /\ At(w, "beat") => work[w] \in BeatWork
         /\ At(w, "drain") => work[w] \in DrainWork
         /\ work[w] # Idle => work[w].from \in Process /\ Id(w) \in Ids
<1>1. work[w] \in Work
  BY DEF RegistryInv, WorkOK
<1>2. /\ \A h \in PruneWork : h.pc = "prune" /\ h.from \in Process
      /\ \A h \in WriteWork : h.pc \in {"bind", "update", "insert"} /\ h.from \in Process
      /\ \A h \in ProjectWork : h.pc = "project" /\ h.from \in Process
      /\ \A h \in DrainWork : h.pc \in {"key", "drain"} /\ h.from \in Process
      /\ \A h \in KeyWork : h.pc \in {"key", "exists"} /\ h.from \in Process
      /\ \A h \in NonceWork : h.pc = "nonce" /\ h.from \in Process
      /\ \A h \in BeatWork : h.pc = "beat" /\ h.from \in Process
      /\ Idle.pc = "idle"
  BY DEF PruneWork, WriteWork, ProjectWork, DrainWork, KeyWork, NonceWork, BeatWork, Idle
<1>3. ident \in Identities
  BY DEF RegistryInv
<1>4. ASSUME NEW p \in Process PROVE ident[p].id \in Ids
  BY <1>3 DEF Ids
<1>5. work[w] # Idle => work[w].from \in Process
  BY <1>1, <1>2 DEF Work
<1>6. work[w] # Idle => Id(w) \in Ids
  BY <1>4, <1>5 DEF Id, Self
<1>7. /\ At(w, "prune") => work[w] \in PruneWork
      /\ At(w, "bind") \/ At(w, "update") \/ At(w, "insert") => work[w] \in WriteWork
      /\ At(w, "project") => work[w] \in ProjectWork
      /\ At(w, "key") => work[w] \in DrainWork \cup KeyWork
  BY <1>1, <1>2 DEF Work, At
<1>8. /\ At(w, "exists") => work[w] \in KeyWork
      /\ At(w, "nonce") => work[w] \in NonceWork
      /\ At(w, "beat") => work[w] \in BeatWork
      /\ At(w, "drain") => work[w] \in DrainWork
  BY <1>1, <1>2 DEF Work, At
<1> QED BY <1>5, <1>6, <1>7, <1>8

(* A row with one of its fields written is a row. *)
LEMMA FieldWritten ==
  ASSUME NEW row \in Row
  PROVE  /\ \A at \in Instant : [row EXCEPT !.seen = at] \in Row
         /\ \A b \in BOOLEAN : [row EXCEPT !.drain = b] \in Row /\ [row EXCEPT !.drain = b].drain = b
         /\ \A s \in {"online", "draining"} : [row EXCEPT !.state = s] \in Row
         /\ \A old \in Row : [row EXCEPT !.key = old.key] \in Row
<1>1. ASSUME NEW at \in Instant PROVE [row EXCEPT !.seen = at] \in Row
  BY DEF Row
<1>2. ASSUME NEW b \in BOOLEAN
      PROVE  [row EXCEPT !.drain = b] \in Row /\ [row EXCEPT !.drain = b].drain = b
  BY DEF Row
<1>3. ASSUME NEW s \in {"online", "draining"} PROVE [row EXCEPT !.state = s] \in Row
  BY DEF Row
<1>4. ASSUME NEW old \in Row PROVE [row EXCEPT !.key = old.key] \in Row
  BY DEF Row
<1> QED BY <1>1, <1>2, <1>3, <1>4

(* Writing the state of a row leaves its drain flag alone. *)
LEMMA StateOfDrain ==
  ASSUME NEW row \in Row, NEW s PROVE [row EXCEPT !.state = s].drain = row.drain
BY DEF Row

(* The rows of the runner a process registers as, and of any runner after  *)
(* a heartbeat, a drain or an undrain, are rows of the table; a heartbeat  *)
(* leaves the drain flag alone and a drain sets it.                        *)
LEMMA RowsStayRows ==
  /\ \A p \in Process, m \in Manifests \cup {<<>>}, at \in Instant :
       ident \in Identities => Registered(p, m, at) \in Row
  /\ \A row \in Row, at \in Instant : Beaten(row, at) \in Row /\ Beaten(row, at).drain = row.drain
  /\ \A row \in Row : Drained(row) \in Row /\ Drained(row).drain
  /\ \A row \in Row : Undrained(row) \in Row
<1>1. ASSUME NEW p \in Process, NEW m \in Manifests \cup {<<>>}, NEW at \in Instant, ident \in Identities
      PROVE  Registered(p, m, at) \in Row
  <2>1. /\ ident[p].key \in {f[q].key : f \in Identities, q \in Process}
        /\ ident[p].host \in {f[q].host : f \in Identities, q \in Process}
        /\ ident[p].kinds \in {f[q].kinds : f \in Identities, q \in Process}
    BY <1>1
  <2> QED BY <2>1 DEF Registered, Row
<1> DEFINE Marked(row, b, s) == [row EXCEPT !.drain = b, !.state = s]
<1>2. ASSUME NEW row \in Row, NEW b \in BOOLEAN, NEW s \in {"online", "draining"}
      PROVE  Marked(row, b, s) \in Row /\ Marked(row, b, s).drain = b
  <2> DEFINE r == [row EXCEPT !.drain = b]
  <2>1. r \in Row /\ r.drain = b
    BY FieldWritten
  <2>2. Marked(row, b, s) = [r EXCEPT !.state = s]
    BY DEF Row
  <2>3. ASSUME NEW q \in Row PROVE [q EXCEPT !.state = s] \in Row /\ [q EXCEPT !.state = s].drain = q.drain
    BY FieldWritten, StateOfDrain
  <2> HIDE DEF r, Marked
  <2> QED BY <2>1, <2>2, <2>3
<1>3. ASSUME NEW row \in Row, NEW at \in Instant
      PROVE  Beaten(row, at) \in Row /\ Beaten(row, at).drain = row.drain
  <2> DEFINE r == [row EXCEPT !.seen = at]
             s == IF row.drain THEN "draining" ELSE "online"
  <2>1. r \in Row /\ r.drain = row.drain
    <3>1. r.drain = row.drain
      BY DEF Row
    <3> QED BY <3>1, FieldWritten
  <2>2. s \in {"online", "draining"}
    OBVIOUS
  <2>3. Beaten(row, at) = [r EXCEPT !.state = s]
    BY DEF Row, Beaten
  <2>4. ASSUME NEW q \in Row PROVE [q EXCEPT !.state = s] \in Row /\ [q EXCEPT !.state = s].drain = q.drain
    <3> HIDE DEF s
    <3> QED BY <2>2, FieldWritten, StateOfDrain
  <2> HIDE DEF r, s
  <2> QED BY <2>1, <2>3, <2>4
<1>4. ASSUME NEW row \in Row PROVE Drained(row) \in Row /\ Drained(row).drain
  <2>1. Drained(row) = Marked(row, TRUE, "draining")
    BY DEF Drained
  <2> HIDE DEF Marked
  <2> QED BY <1>2, <2>1
<1>5. ASSUME NEW row \in Row PROVE Undrained(row) \in Row
  <2> DEFINE s == IF row.state = "draining" THEN "online" ELSE row.state
  <2>1. s \in {"online", "draining"}
    BY DEF Row
  <2>2. Undrained(row) = Marked(row, FALSE, s)
    BY DEF Undrained, Row
  <2> HIDE DEF s, Marked
  <2> QED BY <1>2, <2>1, <2>2
<1> QED BY <1>1, <1>3, <1>4, <1>5

(* Among the positions of a manifest that name a capability there is a     *)
(* first one.                                                              *)
LEMMA FirstOffer ==
  ASSUME NEW m \in Manifests, NEW i \in DOMAIN m
  PROVE  \E k \in DOMAIN m :
           m[k].name = m[i].name /\ \A j \in 1 .. (k - 1) : m[j].name # m[k].name
<1> DEFINE T == {k \in DOMAIN m : m[k].name = m[i].name}
<1>1. m \in Seq({m[k] : k \in DOMAIN m})
  BY RegistryAssumption
<1>2. PICK n \in Nat : DOMAIN m = 1 .. n
  <2> DEFINE S == {m[k] : k \in DOMAIN m}
  <2> HIDE DEF S
  <2> QED BY <1>1
<1>3. T \subseteq Nat /\ i \in T
  BY <1>2
<1>4. PICK k \in T : \A j \in T : ~ (<<j, k>> \in OpToRel(<, Nat))
  BY <1>3, NatLessThanWellFounded, WFMin
<1>5. ASSUME NEW j \in 1 .. (k - 1) PROVE m[j].name # m[k].name
  <2>1. j \in DOMAIN m /\ j \in Nat /\ k \in Nat /\ j < k
    BY <1>2, <1>3
  <2>2. <<j, k>> \in OpToRel(<, Nat)
    BY <2>1 DEF OpToRel
  <2>3. j \notin T
    BY <1>4, <2>2
  <2> QED BY <2>1, <2>3
<1> QED BY <1>5

(* The projection of a manifest names every capability of the manifest,    *)
(* each with one server that offers it.                                    *)
LEMMA ProjectionOfManifest ==
  ASSUME NEW m \in Manifests
  PROVE  /\ {e.name : e \in ManifestRows(m)} = {m[i].name : i \in DOMAIN m}
         /\ ManifestRows(m) \subseteq EveryOffer(m)
         /\ OneRowEach(ManifestRows(m))
<1> DEFINE F == {k \in DOMAIN m : \A j \in 1 .. (k - 1) : m[j].name # m[k].name}
           row(i) == [name |-> m[i].name, server |-> m[i].server]
<1>1. ManifestRows(m) = {row(i) : i \in F} /\ EveryOffer(m) = {row(i) : i \in DOMAIN m}
  BY DEF ManifestRows, EveryOffer
<1>2. \A i : row(i).name = m[i].name
  OBVIOUS
<1>3. DOMAIN m \subseteq Nat \ {0}
  <2> DEFINE S == {m[k] : k \in DOMAIN m}
  <2>1. m \in Seq(S)
    BY RegistryAssumption
  <2> HIDE DEF S
  <2> QED BY <2>1
<1>4. \A i \in DOMAIN m : \E k \in F : m[k].name = m[i].name
  BY FirstOffer
<1>5. ASSUME NEW i \in F, NEW k \in F, m[i].name = m[k].name PROVE i = k
  <2>1. i \in Nat \ {0} /\ k \in Nat \ {0}
    BY <1>3
  <2>2. ~ (i < k)
    <3>1. ASSUME i < k PROVE i \in 1 .. (k - 1)
      BY <2>1, <3>1
    <3> QED BY <3>1, <1>5
  <2>3. ~ (k < i)
    <3>1. ASSUME k < i PROVE k \in 1 .. (i - 1)
      BY <2>1, <3>1
    <3> QED BY <3>1, <1>5
  <2> QED BY <2>1, <2>2, <2>3
<1> HIDE DEF row, F
<1>6. {e.name : e \in {row(i) : i \in F}} = {m[i].name : i \in DOMAIN m}
  <2>1. \A i \in F : i \in DOMAIN m
    BY DEF F
  <2> QED BY <1>2, <1>4, <2>1
<1>7. {row(i) : i \in F} \subseteq {row(i) : i \in DOMAIN m}
  BY DEF F
<1>8. OneRowEach({row(i) : i \in F})
  BY <1>2, <1>5 DEF OneRowEach
<1> QED BY <1>1, <1>6, <1>7, <1>8

(* Every reading of the clock within its bound is an instant. *)
LEMMA ClockReadings ==
  ASSUME RegistryInv
  PROVE  /\ clock \in Nat /\ 0 .. clock \subseteq Instant /\ clock \in 0 .. clock
         /\ \A lead \in 0 .. Lead : clock + lead \in Instant
BY RegistryAssumption DEF RegistryInv

(* One handler taking a step, and one row being written, keep the tables   *)
(* of handlers and of rows well formed.                                    *)
LEMMA HandlerMoved ==
  ASSUME RegistryInv, UNCHANGED clock, NEW w \in Worker, NEW h \in Work, Checked(h),
         work' = [work EXCEPT ![w] = h]
  PROVE  WorkOK'
<1>1. Work' = Work
  BY DEF Work, PruneWork, WriteWork, ProjectWork, DrainWork, KeyWork, NonceWork, BeatWork, Idle
<1>2. KeyWork' = KeyWork /\ NonceWork' = NonceWork
  BY DEF KeyWork, NonceWork
<1>3. work' = [v \in Worker |-> work'[v]]
  BY DEF RegistryInv, WorkOK
<1>4. ASSUME NEW v \in Worker PROVE work'[v] \in Work /\ Checked(work'[v])
  BY DEF RegistryInv, WorkOK
<1> QED BY <1>1, <1>2, <1>3, <1>4 DEF WorkOK, Checked

LEMMA HandlerEnded ==
  ASSUME RegistryInv, UNCHANGED clock, NEW w \in Worker, End(w)
  PROVE  WorkOK'
<1>1. Idle \in Work
  BY DEF Work
<1>2. Checked(Idle)
  BY DEF Checked, KeyWork, NonceWork, Idle
<1> QED BY <1>1, <1>2, HandlerMoved DEF End

LEMMA RowWritten ==
  ASSUME RegistryInv, NEW r \in Ids, NEW row \in Row \cup {Missing},
         runners' = [runners EXCEPT ![r] = row]
  PROVE  RowsOK'
BY DEF RegistryInv, RowsOK

LEMMA RowKnown ==
  ASSUME RegistryInv, NEW r \in Ids, Known(r)
  PROVE  runners[r] \in Row
BY DEF RegistryInv, RowsOK, Known

(* What a handler's row would be. *)
LEMMA NewRowIsRow ==
  ASSUME RegistryInv, NEW w \in Worker, work[w] \in WriteWork
  PROVE  /\ NewRow(w) \in Row
         /\ \A old \in Row : [NewRow(w) EXCEPT !.key = old.key] \in Row
<1>1. NewRow(w) \in Row
  BY RowsStayRows DEF NewRow, WriteWork, RegistryInv
<1> QED BY <1>1, FieldWritten

(* The registration's steps keep the invariant. *)
LEMMA RegistrationSteps ==
  ASSUME RegistryInv, NEW w \in Worker,
         Prune(w) \/ Bind(w) \/ InsertRow(w) \/ UpdateRow(w) \/ Project(w)
  PROVE  RegistryInv'
<1> USE DEF Kept, signedVars
<1>1. CASE Prune(w)
  <2> DEFINE h == [pc |-> "bind", from |-> work[w].from, manifest |-> work[w].manifest, now |-> clock]
  <2>1. work[w] \in PruneWork
    BY <1>1, AtStep DEF Prune
  <2>2. h \in WriteWork
    BY <2>1, ClockReadings DEF PruneWork, WriteWork
  <2>3. h \in Work /\ Checked(h)
    BY <2>2 DEF Work, Checked, WriteWork, KeyWork, NonceWork
  <2>4. work' = [work EXCEPT ![w] = h]
    BY <1>1 DEF Prune
  <2> HIDE DEF h
  <2>5. WorkOK'
    BY <1>1, <2>3, <2>4, HandlerMoved DEF Prune
  <2>6. RowsOK'
    BY <1>1 DEF Prune, RegistryInv, RowsOK
  <2> QED BY <1>1, <2>5, <2>6 DEF Prune, RegistryInv
<1>2. CASE Bind(w)
  <2>1. work[w] \in WriteWork
    BY <1>2, AtStep DEF Bind
  <2>2. ASSUME NEW step \in {"update", "insert"}, Goto(w, step) PROVE WorkOK'
    <3> DEFINE h == [work[w] EXCEPT !.pc = step]
    <3>1. h \in WriteWork
      BY <2>1 DEF WriteWork
    <3>2. h \in Work /\ Checked(h)
      BY <3>1 DEF Work, Checked, WriteWork, KeyWork, NonceWork
    <3>3. work' = [work EXCEPT ![w] = h]
      BY <2>2 DEF Goto
    <3> HIDE DEF h
    <3> QED BY <1>2, <3>2, <3>3, HandlerMoved DEF Bind
  <2>3. WorkOK'
    BY <1>2, <2>2, HandlerEnded DEF Bind
  <2> QED BY <1>2, <2>3 DEF Bind, RegistryInv, RowsOK
<1>3. ASSUME ToProject(w), work[w] \in WriteWork, UNCHANGED clock PROVE WorkOK'
  <2> DEFINE h == [pc |-> "project", from |-> work[w].from, manifest |-> work[w].manifest]
  <2>1. h \in ProjectWork
    BY <1>3 DEF WriteWork, ProjectWork
  <2>2. h \in Work /\ Checked(h)
    BY <2>1 DEF Work, Checked, ProjectWork, KeyWork, NonceWork
  <2>3. work' = [work EXCEPT ![w] = h]
    BY <1>3 DEF ToProject
  <2> HIDE DEF h
  <2> QED BY <1>3, <2>2, <2>3, HandlerMoved
<1>4. CASE InsertRow(w)
  <2>1. work[w] \in WriteWork /\ Id(w) \in Ids
    BY <1>4, AtStep DEF InsertRow, At, Idle
  <2>2. WorkOK'
    BY <1>3, <1>4, <2>1, HandlerEnded DEF InsertRow
  <2>3. RowsOK'
    <3>1. CASE Known(Id(w))
      BY <1>4, <3>1 DEF InsertRow, RegistryInv, RowsOK
    <3>2. CASE ~ Known(Id(w))
      BY <1>4, <3>2, <2>1, NewRowIsRow, RowWritten DEF InsertRow
    <3> QED BY <3>1, <3>2
  <2> QED BY <1>4, <2>2, <2>3 DEF InsertRow, RegistryInv
<1>5. CASE UpdateRow(w)
  <2>1. work[w] \in WriteWork /\ Id(w) \in Ids
    BY <1>5, AtStep DEF UpdateRow, At, Idle
  <2>2. WorkOK'
    BY <1>3, <1>5, <2>1 DEF UpdateRow
  <2>3. RowsOK'
    <3>1. CASE Known(Id(w))
      <4> DEFINE row == [NewRow(w) EXCEPT !.key = runners[Id(w)].key]
      <4>1. row \in Row
        BY <2>1, <3>1, RowKnown, NewRowIsRow
      <4>2. runners' = [runners EXCEPT ![Id(w)] = row]
        BY <1>5, <3>1 DEF UpdateRow
      <4> HIDE DEF row
      <4> QED BY <2>1, <4>1, <4>2, RowWritten
    <3>2. CASE ~ Known(Id(w))
      BY <1>5, <3>2 DEF UpdateRow, RegistryInv, RowsOK
    <3> QED BY <3>1, <3>2
  <2> QED BY <1>5, <2>2, <2>3 DEF UpdateRow, RegistryInv
<1>6. CASE Project(w)
  <2>1. work[w] \in ProjectWork /\ Id(w) \in Ids
    BY <1>6, AtStep DEF Project, At, Idle
  <2>2. WorkOK'
    BY <1>6, HandlerEnded DEF Project
  <2>3. index' = [r \in Ids |-> index'[r]] /\ \A r \in Ids : Projection(index'[r])
    <3>1. Projection(ManifestRows(work[w].manifest))
      BY <2>1 DEF Projection, ProjectWork
    <3>2. Projection(Replaced(Id(w), ManifestRows(work[w].manifest)))
      BY <2>1, <3>1 DEF Replaced, RegistryInv
    <3> QED BY <1>6, <3>2 DEF Project, RegistryInv
  <2> QED BY <1>6, <2>2, <2>3 DEF Project, RegistryInv, RowsOK
<1> QED BY <1>1, <1>2, <1>4, <1>5, <1>6

(* So do the steps of heartbeats and drains. *)
LEMMA HeartbeatSteps ==
  ASSUME RegistryInv, NEW w \in Worker,
         VerifyKey(w) \/ CheckExists(w) \/ ConsumeNonce(w) \/ Beat(w) \/ DrainRunner(w) \/ DropHandler(w)
  PROVE  RegistryInv'
<1> USE DEF Kept, signedVars
<1>1. CASE VerifyKey(w)
  <2>1. work[w] \in DrainWork \cup KeyWork
    BY <1>1, AtStep DEF VerifyKey
  <2>2. CASE work[w] \in DrainWork
    <3> DEFINE h == [work[w] EXCEPT !.pc = "drain"]
    <3>1. h \in DrainWork /\ work[w].op = "drain"
      BY <2>2 DEF DrainWork
    <3>2. h \in Work /\ Checked(h)
      BY <3>1 DEF Work, Checked, DrainWork, KeyWork, NonceWork
    <3>3. work' = [work EXCEPT ![w] = h] \/ End(w)
      BY <1>1, <3>1 DEF VerifyKey, Goto
    <3> HIDE DEF h
    <3>4. WorkOK'
      BY <1>1, <3>2, <3>3, HandlerMoved, HandlerEnded DEF VerifyKey
    <3> QED BY <1>1, <3>4 DEF VerifyKey, RegistryInv, RowsOK
  <2>3. CASE work[w] \in KeyWork
    <3> DEFINE h == [work[w] EXCEPT !.pc = "exists"]
    <3>1. /\ h \in KeyWork /\ work[w].op = "heartbeat"
          /\ h.ts = work[w].ts /\ h.checked = work[w].checked /\ h \notin NonceWork
      BY <2>3 DEF KeyWork, NonceWork
    <3>2. Checked(work[w])
      BY DEF RegistryInv, WorkOK
    <3>3. h \in Work /\ Checked(h)
      <4> HIDE DEF h
      <4> QED BY <2>3, <3>1, <3>2 DEF Work, Checked
    <3>4. work' = [work EXCEPT ![w] = h] \/ End(w)
      BY <1>1, <3>1 DEF VerifyKey, Goto
    <3> HIDE DEF h
    <3>5. WorkOK'
      BY <1>1, <3>3, <3>4, HandlerMoved, HandlerEnded DEF VerifyKey
    <3> QED BY <1>1, <3>5 DEF VerifyKey, RegistryInv, RowsOK
  <2> QED BY <2>1, <2>2, <2>3
<1>2. CASE CheckExists(w)
  <2> DEFINE o == work[w]
             h == [pc |-> "nonce", from |-> o.from, ts |-> o.ts, nonce |-> o.nonce,
                   checked |-> o.checked, now |-> clock]
  <2>1. o \in KeyWork /\ Checked(o)
    BY <1>2, AtStep DEF CheckExists, RegistryInv, WorkOK
  <2>2. h \in NonceWork /\ h.ts = o.ts /\ h.checked = o.checked /\ h.now = clock
    BY <2>1, ClockReadings DEF KeyWork, NonceWork
  <2>3. o.checked \in 0 .. clock
    BY <2>1 DEF KeyWork
  <2>4. h \in Work /\ Checked(h)
    <3> HIDE DEF h, o
    <3> QED BY <2>1, <2>2, <2>3, ClockReadings DEF Work, Checked
  <2>5. work' = [work EXCEPT ![w] = h] \/ End(w)
    BY <1>2 DEF CheckExists
  <2> HIDE DEF h
  <2>6. WorkOK'
    BY <1>2, <2>4, <2>5, HandlerMoved, HandlerEnded DEF CheckExists
  <2> QED BY <1>2, <2>6 DEF CheckExists, RegistryInv, RowsOK
<1>3. CASE ConsumeNonce(w)
  <2> DEFINE h == [pc |-> "beat", from |-> work[w].from, now |-> work[w].now]
  <2>1. work[w] \in NonceWork
    BY <1>3, AtStep DEF ConsumeNonce
  <2>2. h \in BeatWork
    BY <2>1, ClockReadings DEF NonceWork, BeatWork
  <2>3. h \in Work /\ Checked(h)
    BY <2>2 DEF Work, Checked, BeatWork, KeyWork, NonceWork
  <2>4. work' = [work EXCEPT ![w] = h] \/ End(w)
    BY <1>3 DEF ConsumeNonce
  <2>5. UNCHANGED clock
    BY <1>3 DEF ConsumeNonce, Consume, Refuse
  <2> HIDE DEF h
  <2>6. WorkOK'
    BY <2>3, <2>4, <2>5, HandlerMoved, HandlerEnded
  <2> QED BY <1>3, <2>5, <2>6 DEF ConsumeNonce, RegistryInv, RowsOK
<1>4. CASE Beat(w)
  <2>1. work[w] \in BeatWork /\ Id(w) \in Ids
    BY <1>4, AtStep DEF Beat, At, Idle
  <2>2. WorkOK'
    BY <1>4, HandlerEnded DEF Beat
  <2>3. RowsOK'
    <3>1. CASE Known(Id(w))
      <4> DEFINE row == Beaten(runners[Id(w)], work[w].now)
      <4>1. row \in Row
        BY <2>1, <3>1, RowKnown, RowsStayRows DEF BeatWork
      <4>2. runners' = [runners EXCEPT ![Id(w)] = row]
        BY <1>4, <3>1 DEF Beat
      <4> HIDE DEF row
      <4> QED BY <2>1, <4>1, <4>2, RowWritten
    <3>2. CASE ~ Known(Id(w))
      BY <1>4, <3>2 DEF Beat, RegistryInv, RowsOK
    <3> QED BY <3>1, <3>2
  <2> QED BY <1>4, <2>2, <2>3 DEF Beat, RegistryInv
<1>5. CASE DrainRunner(w)
  <2>1. Id(w) \in Ids
    BY <1>5, AtStep DEF DrainRunner, At, Idle
  <2>2. WorkOK'
    BY <1>5, HandlerEnded DEF DrainRunner
  <2>3. RowsOK'
    <3>1. CASE Known(Id(w))
      <4> DEFINE row == Drained(runners[Id(w)])
      <4>1. row \in Row
        BY <2>1, <3>1, RowKnown, RowsStayRows
      <4>2. runners' = [runners EXCEPT ![Id(w)] = row]
        BY <1>5, <3>1 DEF DrainRunner
      <4> HIDE DEF row
      <4> QED BY <2>1, <4>1, <4>2, RowWritten
    <3>2. CASE ~ Known(Id(w))
      BY <1>5, <3>2 DEF DrainRunner, RegistryInv, RowsOK
    <3> QED BY <3>1, <3>2
  <2> QED BY <1>5, <2>2, <2>3 DEF DrainRunner, RegistryInv
<1>6. CASE DropHandler(w)
  <2>1. WorkOK'
    BY <1>6, HandlerEnded DEF DropHandler
  <2> QED BY <1>6, <2>1 DEF DropHandler, RegistryInv, RowsOK
<1> QED BY <1>1, <1>2, <1>3, <1>4, <1>5, <1>6

(* So do signing, trying and settling a request. *)
LEMMA ClientSteps ==
  ASSUME RegistryInv, NEW p \in Process,
         \/ SignRegister(p) \/ SignHeartbeat(p) \/ SignDrain(p) \/ Settle(p)
         \/ \E w \in Worker : Receive(p, w)
  PROVE  RegistryInv'
<1> USE DEF signedVars
<1>1. ASSUME NEW op, NEW m, NEW nonce, Sign(p, op, m, nonce),
             \A lead \in 0 .. Lead : [op |-> op, manifest |-> m, nonce |-> nonce,
                                      ts |-> clock + lead, tries |-> 0] \in Call
      PROVE  RegistryInv'
  <2>1. PICK lead \in 0 .. Lead :
          call' = [call EXCEPT ![p] = [op |-> op, manifest |-> m, nonce |-> nonce,
                                       ts |-> clock + lead, tries |-> 0]]
    BY <1>1 DEF Sign
  <2>2. call' = [q \in Process |-> call'[q]] /\ \A q \in Process : call'[q] \in Call \cup {Missing}
    BY <1>1, <2>1 DEF RegistryInv
  <2>3. signed' \in 0 .. MaxRequests
    BY <1>1, RegistryAssumption DEF Sign, RegistryInv
  <2> QED BY <1>1, <2>2, <2>3 DEF Sign, RegistryInv, RowsOK, WorkOK, Work, KeyWork, NonceWork,
             PruneWork, WriteWork, ProjectWork, DrainWork, BeatWork, Checked
<1>2. CASE SignRegister(p)
  <2>1. PICK m \in Manifests : Sign(p, "register", m, 0)
    BY <1>2 DEF SignRegister
  <2> QED BY <1>1, <2>1, ClockReadings DEF Call
<1>3. CASE SignHeartbeat(p)
  <2>1. signed + 1 \in Nonce
    BY <1>3, RegistryAssumption DEF SignHeartbeat, Sign, RegistryInv
  <2> QED BY <1>1, <1>3, <2>1, ClockReadings DEF Call, SignHeartbeat
<1>4. CASE SignDrain(p)
  BY <1>1, <1>4, ClockReadings DEF Call, SignDrain
<1>5. CASE Settle(p)
  <2>1. call' = [q \in Process |-> call'[q]] /\ \A q \in Process : call'[q] \in Call \cup {Missing}
    BY <1>5 DEF Settle, RegistryInv
  <2> QED BY <1>5, <2>1 DEF Settle, RegistryInv, RowsOK, WorkOK, Work, KeyWork, NonceWork,
             PruneWork, WriteWork, ProjectWork, DrainWork, BeatWork, Checked
<1>6. ASSUME NEW w \in Worker, Receive(p, w) PROVE RegistryInv'
  <2>1. call[p] \in Call
    BY <1>6 DEF Receive, RegistryInv
  <2>2. call' = [q \in Process |-> call'[q]] /\ \A q \in Process : call'[q] \in Call \cup {Missing}
    <3> DEFINE c == [call[p] EXCEPT !.tries = call[p].tries + 1]
    <3>1. c \in Call
      BY <2>1 DEF Call
    <3>2. call' = [call EXCEPT ![p] = c]
      BY <1>6 DEF Receive
    <3> HIDE DEF c
    <3> QED BY <3>1, <3>2 DEF RegistryInv
  <2>3. Handler(p) \in Work /\ Checked(Handler(p))
    <3>1. CASE call[p].op = "register"
      <4>1. call[p].manifest \in Manifests
        BY <2>1, <3>1 DEF Call
      <4>2. Handler(p) \in PruneWork
        BY <3>1, <4>1 DEF Handler, PruneWork
      <4> QED BY <4>2 DEF Work, Checked, PruneWork, KeyWork, NonceWork
    <3>2. CASE call[p].op = "drain"
      <4>1. Handler(p) \in DrainWork
        BY <3>2 DEF Handler, DrainWork
      <4> QED BY <4>1 DEF Work, Checked, DrainWork, KeyWork, NonceWork
    <3>3. CASE call[p].op = "heartbeat"
      <4>1. call[p].ts \in Instant /\ call[p].nonce \in Nonce
        BY <2>1, <3>3 DEF Call
      <4>2. /\ Handler(p) \in KeyWork /\ Handler(p) \notin NonceWork
            /\ Handler(p).ts = call[p].ts /\ Handler(p).checked = clock
        BY <3>3, <4>1, ClockReadings DEF Handler, KeyWork, NonceWork
      <4>3. InSkew(call[p].ts, clock)
        BY <1>6 DEF Receive
      <4> QED BY <4>2, <4>3 DEF Work, Checked
    <3>4. call[p].op \in {"register", "drain", "heartbeat"}
      BY <2>1 DEF Call
    <3> QED BY <3>1, <3>2, <3>3, <3>4
  <2>4. WorkOK'
    BY <1>6, <2>3, HandlerMoved DEF Receive
  <2> QED BY <1>6, <2>2, <2>4 DEF Receive, RegistryInv, RowsOK
<1> QED BY <1>2, <1>3, <1>4, <1>5, <1>6

(* So do the operator's requests. *)
LEMMA OperatorSteps ==
  ASSUME RegistryInv, NEW r \in Ids, DrainByDispatcher(r) \/ UndrainRunner(r) \/ DeregisterRunner(r)
  PROVE  RegistryInv'
<1>1. Order(r) /\ runners[r] \in Row
  BY RowKnown DEF DrainByDispatcher, UndrainRunner, DeregisterRunner, Order
<1>2. PICK row \in Row \cup {Missing} : runners' = [runners EXCEPT ![r] = row]
  BY <1>1, RowsStayRows DEF DrainByDispatcher, UndrainRunner, DeregisterRunner
<1>3. RowsOK'
  BY <1>2, RowWritten
<1> QED BY <1>1, <1>3 DEF Order, signedVars, RegistryInv, WorkOK, Work, KeyWork, NonceWork,
           PruneWork, WriteWork, ProjectWork, DrainWork, BeatWork, Checked

(* So does the passing of time. *)
LEMMA TimePasses ==
  ASSUME RegistryInv, Tick, UNCHANGED registryVars
  PROVE  RegistryInv'
<1>1. clock' = clock + 1 /\ clock' \in 0 .. MaxClock
  BY RegistryAssumption DEF Tick, RegistryInv
<1>2. KeyWork \subseteq KeyWork' /\ NonceWork \subseteq NonceWork'
  <2>1. 0 .. clock \subseteq 0 .. clock'
    BY <1>1 DEF RegistryInv
  <2> QED BY <2>1 DEF KeyWork, NonceWork
<1>3. Work \subseteq Work'
  BY <1>2 DEF Work, PruneWork, WriteWork, ProjectWork, DrainWork, BeatWork, Idle
<1>4. ASSUME NEW h \in Work, Checked(h)
      PROVE  /\ h \in (KeyWork \cup NonceWork)' => InSkew(h.ts, h.checked)
             /\ h \in NonceWork' => h.checked <= h.now
  <2>1. CASE h \in KeyWork \cup NonceWork
    <3>1. h \in NonceWork' => h \in NonceWork
      BY <2>1 DEF KeyWork, NonceWork
    <3> QED BY <1>4, <2>1, <3>1 DEF Checked
  <2>2. CASE h \notin KeyWork \cup NonceWork
    <3>1. h.pc \notin {"nonce", "exists"} /\ (h.pc = "key" => h.op = "drain")
      BY <2>2 DEF Work, PruneWork, WriteWork, ProjectWork, DrainWork, BeatWork, Idle
    <3>2. h \notin (KeyWork \cup NonceWork)'
      BY <3>1 DEF KeyWork, NonceWork
    <3> QED BY <3>2
  <2> QED BY <2>1, <2>2
<1>5. WorkOK'
  BY <1>3, <1>4 DEF registryVars, RegistryInv, WorkOK, Checked
<1> QED BY <1>1, <1>5 DEF registryVars, RegistryInv, RowsOK

(* Every step keeps the registry's invariant. *)
LEMMA RegistryStep ==
  ASSUME RegistryInv, [RegistryNext]_allVars
  PROVE  RegistryInv'
<1>1. CASE RegistryNext
  BY <1>1, RegistrationSteps, HeartbeatSteps, ClientSteps, OperatorSteps, TimePasses
  DEF RegistryNext
<1>2. CASE UNCHANGED allVars
  BY <1>2 DEF allVars, signedVars, registryVars, RegistryInv, RowsOK, WorkOK, Work, KeyWork,
     NonceWork, PruneWork, WriteWork, ProjectWork, DrainWork, BeatWork, Checked
<1> QED BY <1>1, <1>2

(* The registry's invariant: rows, requests and handlers keep their shape, *)
(* and the stamp of a heartbeat under way was checked at an instant that   *)
(* is not after the "now" it stores.                                       *)
THEOREM RegistryInvariant == RegistrySpec => []RegistryInv
<1>1. RegistryInit => RegistryInv
  <2> SUFFICES ASSUME RegistryInit PROVE RegistryInv
    OBVIOUS
  <2>1. clock = 0 /\ clock \in 0 .. MaxClock /\ clock \in Instant /\ signed \in 0 .. MaxRequests
    BY RegistryAssumption DEF RegistryInit, SignedInit
  <2>2. RowsOK
    <3>1. CASE runners = [r \in Ids |-> Missing]
      BY <3>1 DEF RowsOK
    <3>2. ASSUME NEW p \in Process,
                 runners = [r \in Ids |-> IF r = ident[p].id THEN Registered(p, <<>>, clock)
                                          ELSE Missing]
          PROVE  RowsOK
      <4>1. Registered(p, <<>>, clock) \in Row
        BY <2>1, RowsStayRows DEF RegistryInit
      <4> HIDE DEF RegistryInit
      <4> QED BY <3>2, <4>1 DEF RowsOK
    <3> QED BY <3>1, <3>2 DEF RegistryInit
  <2>3. WorkOK
    <3>1. Checked(Idle) /\ Idle \in Work
      BY DEF Checked, Idle, KeyWork, NonceWork, Work
    <3> QED BY <3>1 DEF WorkOK, RegistryInit
  <2> QED BY <2>1, <2>2, <2>3 DEF RegistryInit, RegistryInv, Projection
<1>2. RegistryInv /\ [RegistryNext]_allVars => RegistryInv'
  BY RegistryStep
<1> QED BY <1>1, <1>2, PTL DEF RegistrySpec

(* What the index says of a runner is the projection of one whole          *)
(* manifest, whichever registrations of it interleave or fail: the         *)
(* property the registry run checks, for every set of manifests.           *)
THEOREM IndexIsOneManifestHolds == RegistrySpec => []IndexIsOneManifest
<1>1. RegistryInv => IndexIsOneManifest
  BY ProjectionOfManifest DEF RegistryInv, Projection, IndexIsOneManifest
<1> QED BY <1>1, RegistryInvariant, PTL

(* Only an undrain or a registration's UPDATE clears a row's drain flag.   *)
LEMMA DrainStep ==
  ASSUME RegistryInv, [RegistryNext]_allVars, NEW r \in Ids,
         Known(r), Known(r)', runners[r].drain, ~ runners'[r].drain
  PROVE  \/ UndrainRunner(r)
         \/ \E w \in Worker : At(w, "update") /\ Id(w) = r /\ ~ (At(w, "update"))'
<1>1. runners' # runners
  OBVIOUS
<1>2. PICK row \in Row : runners[r] = row /\ row.drain
  BY RowKnown
<1>3. DOMAIN runners = Ids
  BY DEF RegistryInv, RowsOK
<1>4. ASSUME NEW s \in Ids, NEW new, runners' = [runners EXCEPT ![s] = new]
      PROVE  s = r /\ runners'[r] = new
  BY <1>2, <1>3, <1>4
<1>5. ASSUME NEW w \in Worker, Prune(w) PROVE FALSE
  BY <1>5 DEF Prune, Known
<1>6. ASSUME NEW w \in Worker, InsertRow(w) PROVE FALSE
  <2>1. Id(w) \in Ids
    BY <1>6, AtStep DEF InsertRow, At, Idle
  <2> QED BY <1>1, <1>4, <1>6, <2>1 DEF InsertRow
<1>7. ASSUME NEW w \in Worker, UpdateRow(w)
      PROVE  At(w, "update") /\ Id(w) = r /\ ~ (At(w, "update"))'
  <2>1. Id(w) \in Ids
    BY <1>7, AtStep DEF UpdateRow, At, Idle
  <2>2. Id(w) = r
    BY <1>1, <1>4, <1>7, <2>1 DEF UpdateRow
  <2>3. work'[w].pc = "project"
    BY <1>7 DEF UpdateRow, ToProject, RegistryInv, WorkOK
  <2> QED BY <1>7, <2>2, <2>3 DEF UpdateRow, At
<1>8. ASSUME NEW w \in Worker, Beat(w) PROVE FALSE
  <2>1. work[w] \in BeatWork /\ Id(w) \in Ids
    BY <1>8, AtStep DEF Beat, At, Idle
  <2>2. Id(w) = r /\ runners'[r] = Beaten(row, work[w].now)
    BY <1>1, <1>2, <1>4, <1>8, <2>1 DEF Beat
  <2> QED BY <1>2, <2>1, <2>2, RowsStayRows DEF BeatWork
<1>9. ASSUME NEW w \in Worker, DrainRunner(w) PROVE FALSE
  <2>1. Id(w) \in Ids
    BY <1>9, AtStep DEF DrainRunner, At, Idle
  <2>2. Id(w) = r /\ runners'[r] = Drained(row)
    BY <1>1, <1>2, <1>4, <1>9, <2>1 DEF DrainRunner
  <2> QED BY <1>2, <2>2, RowsStayRows
<1>10. ASSUME NEW s \in Ids, DrainByDispatcher(s) PROVE FALSE
  <2>1. s = r /\ runners'[r] = Drained(row)
    BY <1>2, <1>4, <1>10 DEF DrainByDispatcher
  <2> QED BY <1>2, <2>1, RowsStayRows
<1>11. ASSUME NEW s \in Ids, UndrainRunner(s) PROVE UndrainRunner(r)
  BY <1>4, <1>11 DEF UndrainRunner
<1>12. ASSUME NEW s \in Ids, DeregisterRunner(s) PROVE FALSE
  BY <1>4, <1>12 DEF DeregisterRunner, Known
<1> QED BY <1>1, <1>5, <1>6, <1>7, <1>8, <1>9, <1>10, <1>11, <1>12
        DEF RegistryNext, allVars, registryVars, SignRegister, SignHeartbeat, SignDrain, Sign,
            Settle, Receive, Bind, Project, VerifyKey, CheckExists, ConsumeNonce, DropHandler, Kept

(* A drain asked for outlasts every heartbeat under way: the action        *)
(* property the registry run checks.                                       *)
THEOREM DrainHeldHolds == RegistrySpec => DrainHeld
<1>1. RegistryInv /\ [RegistryNext]_allVars =>
        [\A r \in Ids : Known(r) /\ Known(r)' /\ runners[r].drain /\ ~ runners'[r].drain =>
           \/ UndrainRunner(r)
           \/ \E w \in Worker : At(w, "update") /\ Id(w) = r /\ ~ (At(w, "update"))']_allVars
  BY DrainStep
<1> QED BY <1>1, RegistryInvariant, PTL DEF RegistrySpec, DrainHeld

(* Every statement that writes the flag writes the state that goes with it *)
(* (a heartbeat takes it from the row, and not from what it read before).  *)
Shown(row) == row.drain <=> row.state = "draining"

LEMMA RowsShown ==
  ASSUME NEW row \in Row
  PROVE  /\ \A at : Shown(row) => Shown(Beaten(row, at))
         /\ Shown(Drained(row))
         /\ Shown(row) => Shown(Undrained(row))
         /\ \A k : Shown(row) => Shown([row EXCEPT !.key = k])
<1>1. row.drain \in BOOLEAN /\ row.state \in {"online", "draining"}
  BY DEF Row
<1>2. ASSUME NEW at, Shown(row) PROVE Shown(Beaten(row, at))
  <2>1. CASE row.drain
    BY <1>1, <2>1 DEF Row, Beaten, Shown
  <2>2. CASE ~ row.drain
    BY <1>1, <2>2 DEF Row, Beaten, Shown
  <2> QED BY <2>1, <2>2
<1>3. Shown(Drained(row))
  BY <1>1 DEF Row, Drained, Shown
<1>4. ASSUME Shown(row) PROVE Shown(Undrained(row))
  <2> DEFINE state == IF row.state = "draining" THEN "online" ELSE row.state
  <2>1. Undrained(row) = [row EXCEPT !.drain = FALSE, !.state = state] /\ state = "online"
    BY <1>1 DEF Row, Undrained
  <2> HIDE DEF state
  <2> QED BY <2>1 DEF Row, Shown
<1>5. ASSUME NEW k, Shown(row) PROVE Shown([row EXCEPT !.key = k])
  BY <1>5 DEF Row, Shown
<1> QED BY <1>2, <1>3, <1>4, <1>5

LEMMA RegisteredShown ==
  ASSUME NEW p, NEW m, NEW at
  PROVE  Shown(Registered(p, m, at))
BY DEF Shown, Registered

LEMMA ShownStep ==
  ASSUME RegistryInv, DrainShown, [RegistryNext]_allVars
  PROVE  DrainShown'
<1> SUFFICES ASSUME NEW r \in Ids, runners'[r] # Missing
             PROVE  Shown(runners'[r])
  BY DEF DrainShown, Known, Shown
<1>1. /\ DOMAIN runners = Ids
      /\ \A s \in Ids : Known(s) => runners[s] \in Row /\ Shown(runners[s])
  BY RowKnown DEF RegistryInv, RowsOK, DrainShown, Shown
<1>2. runners'[r] = runners[r] => Shown(runners'[r])
  BY <1>1 DEF Known
<1>3. ASSUME NEW s \in Ids, NEW new, runners' = [runners EXCEPT ![s] = new]
      PROVE  runners'[r] = IF s = r THEN new ELSE runners[r]
  BY <1>1, <1>3
<1>4. ASSUME NEW w \in Worker, Prune(w) PROVE Shown(runners'[r])
  BY <1>2, <1>4 DEF Prune
<1>5. ASSUME NEW w \in Worker, InsertRow(w) PROVE Shown(runners'[r])
  <2>1. Id(w) \in Ids
    BY <1>5, AtStep DEF InsertRow, At, Idle
  <2>2. runners'[r] = runners[r] \/ runners'[r] = NewRow(w)
    BY <1>3, <1>5, <2>1 DEF InsertRow
  <2> QED BY <1>2, <2>2, RegisteredShown DEF NewRow
<1>6. ASSUME NEW w \in Worker, UpdateRow(w) PROVE Shown(runners'[r])
  <2>1. work[w] \in WriteWork /\ Id(w) \in Ids
    BY <1>6, AtStep DEF UpdateRow, At, Idle
  <2>2. NewRow(w) \in Row /\ Shown(NewRow(w))
    BY <2>1, NewRowIsRow, RegisteredShown DEF NewRow
  <2>3. \A k : Shown([NewRow(w) EXCEPT !.key = k])
    BY <2>2, RowsShown
  <2>4. runners'[r] = runners[r] \/ \E k : runners'[r] = [NewRow(w) EXCEPT !.key = k]
    BY <1>3, <1>6, <2>1 DEF UpdateRow
  <2> QED BY <1>2, <2>3, <2>4
<1>7. ASSUME NEW w \in Worker, Beat(w) \/ DrainRunner(w) PROVE Shown(runners'[r])
  <2>1. Id(w) \in Ids
    BY <1>7, AtStep DEF Beat, DrainRunner, At, Idle
  <2>2. CASE Known(Id(w))
    <3>1. \/ runners'[r] = runners[r]
          \/ runners'[r] = Beaten(runners[Id(w)], work[w].now)
          \/ runners'[r] = Drained(runners[Id(w)])
      BY <1>1, <1>3, <1>7, <2>1, <2>2 DEF Beat, DrainRunner
    <3> QED BY <1>1, <1>2, <2>1, <2>2, <3>1, RowsShown
  <2>3. CASE ~ Known(Id(w))
    BY <1>2, <1>7, <2>3 DEF Beat, DrainRunner
  <2> QED BY <2>2, <2>3
<1>8. ASSUME NEW s \in Ids, DrainByDispatcher(s) \/ UndrainRunner(s) \/ DeregisterRunner(s)
      PROVE  Shown(runners'[r])
  <2>1. Known(s)
    BY <1>8 DEF DrainByDispatcher, UndrainRunner, DeregisterRunner, Order
  <2>2. \/ runners'[r] = runners[r]
        \/ runners'[r] \in {Drained(runners[s]), Undrained(runners[s])}
    BY <1>1, <1>3, <1>8 DEF DrainByDispatcher, UndrainRunner, DeregisterRunner
  <2> QED BY <1>1, <1>2, <2>1, <2>2, RowsShown
<1> QED BY <1>2, <1>4, <1>5, <1>6, <1>7, <1>8
        DEF RegistryNext, allVars, registryVars, SignRegister, SignHeartbeat, SignDrain, Sign,
            Settle, Receive, Bind, Project, VerifyKey, CheckExists, ConsumeNonce, DropHandler, Kept

(* The state shown of a runner agrees with the flag that its claims are    *)
(* refused by, whatever heartbeats, drains, registrations and orders race. *)
THEOREM DrainShownHolds == RegistrySpec => []DrainShown
<1>1. RegistryInit => DrainShown
  <2> SUFFICES ASSUME RegistryInit, NEW r \in Ids, Known(r) PROVE Shown(runners[r])
    BY DEF DrainShown, Shown
  <2>1. \E p : runners[r] = Registered(p, <<>>, clock)
    BY DEF RegistryInit, Known
  <2> QED BY <2>1, RegisteredShown
<1>2. RegistryInv /\ DrainShown /\ [RegistryNext]_allVars => DrainShown'
  BY ShownStep
<1> QED BY <1>1, <1>2, RegistryInvariant, PTL DEF RegistrySpec

(* No statement but an INSERT writes the key column. *)
LEMMA KeysKept ==
  ASSUME NEW row \in Row
  PROVE  /\ \A at : Beaten(row, at).key = row.key
         /\ Drained(row).key = row.key
         /\ Undrained(row).key = row.key
<1>1. ASSUME NEW at PROVE Beaten(row, at).key = row.key
  BY DEF Row, Beaten
<1>2. Drained(row).key = row.key
  BY DEF Row, Drained
<1>3. Undrained(row).key = row.key
  BY DEF Row, Undrained
<1> QED BY <1>1, <1>2, <1>3

LEMMA KeyStep ==
  ASSUME RegistryInv, [RegistryNext]_allVars, NEW r \in Ids, Known(r), Known(r)'
  PROVE  runners'[r].key = runners[r].key
<1>1. PICK row \in Row : runners[r] = row
  BY RowKnown
<1>2. DOMAIN runners = Ids
  BY DEF RegistryInv, RowsOK
<1>3. ASSUME NEW s \in Ids, NEW new, runners' = [runners EXCEPT ![s] = new]
      PROVE  runners'[r] = IF s = r THEN new ELSE runners[r]
  BY <1>2, <1>3
<1>4. ASSUME NEW w \in Worker, Prune(w) PROVE runners'[r] = runners[r]
  BY <1>4 DEF Prune, Known
<1>5. ASSUME NEW w \in Worker, InsertRow(w) PROVE runners'[r] = runners[r]
  <2>1. Id(w) \in Ids
    BY <1>5, AtStep DEF InsertRow, At, Idle
  <2> QED BY <1>3, <1>5, <2>1 DEF InsertRow
<1>6. ASSUME NEW w \in Worker, UpdateRow(w) PROVE runners'[r].key = runners[r].key
  <2>1. work[w] \in WriteWork /\ Id(w) \in Ids
    BY <1>6, AtStep DEF UpdateRow, At, Idle
  <2>2. NewRow(w) \in Row
    BY <2>1, NewRowIsRow
  <2>3. \A k : [NewRow(w) EXCEPT !.key = k].key = k
    BY <2>2 DEF Row
  <2>4. CASE Id(w) = r
    <3>1. runners'[r] = [NewRow(w) EXCEPT !.key = runners[r].key]
      BY <1>3, <1>6, <2>1, <2>4 DEF UpdateRow
    <3> QED BY <2>3, <3>1
  <2>5. CASE Id(w) # r
    BY <1>3, <1>6, <2>1, <2>5 DEF UpdateRow
  <2> QED BY <2>4, <2>5
<1>7. ASSUME NEW w \in Worker, Beat(w) PROVE runners'[r].key = runners[r].key
  <2>1. Id(w) \in Ids
    BY <1>7, AtStep DEF Beat, At, Idle
  <2>2. runners'[r] = runners[r] \/ runners'[r] = Beaten(row, work[w].now)
    BY <1>1, <1>3, <1>7, <2>1 DEF Beat
  <2> QED BY <1>1, <2>2, KeysKept
<1>8. ASSUME NEW w \in Worker, DrainRunner(w) PROVE runners'[r].key = runners[r].key
  <2>1. Id(w) \in Ids
    BY <1>8, AtStep DEF DrainRunner, At, Idle
  <2>2. runners'[r] = runners[r] \/ runners'[r] = Drained(row)
    BY <1>1, <1>3, <1>8, <2>1 DEF DrainRunner
  <2> QED BY <1>1, <2>2, KeysKept
<1>9. ASSUME NEW s \in Ids, DrainByDispatcher(s) \/ UndrainRunner(s) \/ DeregisterRunner(s)
      PROVE  runners'[r].key = runners[r].key
  <2>1. runners'[r] = runners[r] \/ runners'[r] \in {Drained(row), Undrained(row), Missing}
    BY <1>1, <1>3, <1>9 DEF DrainByDispatcher, UndrainRunner, DeregisterRunner
  <2> QED BY <1>1, <2>1, KeysKept DEF Known
<1> QED BY <1>4, <1>5, <1>6, <1>7, <1>8, <1>9
        DEF RegistryNext, allVars, registryVars, SignRegister, SignHeartbeat, SignDrain, Sign,
            Settle, Receive, Bind, Project, VerifyKey, CheckExists, ConsumeNonce, DropHandler, Kept

(* A row keeps the key it was first registered with for as long as it      *)
(* lives, although the check of the key and the UPDATE are two statements. *)
THEOREM KeyBoundHolds == RegistrySpec => KeyBound
<1>1. RegistryInv /\ [RegistryNext]_allVars =>
        [\A r \in Ids : Known(r) /\ Known(r)' => runners'[r].key = runners[r].key]_allVars
  BY KeyStep
<1> QED BY <1>1, RegistryInvariant, PTL DEF RegistrySpec, KeyBound

(* The registry implements the single use of signed requests: the only     *)
(* steps of a handler that touch the nonce table are those of a heartbeat  *)
(* whose stamp passed the skew check before its "now" was read.  So what   *)
(* is proved of signed requests above holds of the registry.               *)
LEMMA SignedStep ==
  ASSUME RegistryInv, [RegistryNext]_allVars
  PROVE  [SignedNext]_signedVars
<1>1. ASSUME NEW w \in Worker, ConsumeNonce(w) PROVE SignedNext
  <2> DEFINE h == work[w]
  <2>1. h \in NonceWork /\ Checked(h) /\ Id(w) \in Ids
    BY <1>1, AtStep DEF ConsumeNonce, RegistryInv, WorkOK, At, Idle
  <2>2. /\ Id(w) \in Principal /\ h.nonce \in Nonce /\ h.ts \in Instant
        /\ h.checked \in 0 .. clock /\ h.now \in 0 .. clock
    BY <2>1, RegistryAssumption DEF NonceWork
  <2>3. h.checked \in Instant /\ h.now \in Instant /\ h.now <= clock
    BY <2>2, ClockReadings
  <2>4. InSkew(h.ts, h.checked) /\ h.checked <= h.now
    BY <2>1 DEF Checked
  <2>5. Consume(Id(w), h.nonce, h.ts, h.checked, h.now) \/ Refuse(Id(w), h.nonce)
    BY <1>1 DEF ConsumeNonce
  <2>6. Request(Id(w), h.nonce, h.ts, h.checked, h.now)
    BY <2>3, <2>4, <2>5 DEF Request
  <2> QED BY <2>2, <2>3, <2>6 DEF SignedNext
<1>2. CASE Tick
  BY <1>2 DEF SignedNext
<1> QED BY <1>1, <1>2
        DEF RegistryNext, allVars, SignRegister, SignHeartbeat, SignDrain, Sign,
            Settle, Receive, Prune, Bind, InsertRow, UpdateRow, Project, VerifyKey, CheckExists,
            Beat, DrainRunner, DropHandler, Kept, Order, DrainByDispatcher, UndrainRunner,
            DeregisterRunner

(* The registry implements SignedRequests: every step of a heartbeat is a  *)
(* step of the signed request it is, and every other step is none.         *)
THEOREM RegistryImplementsSigned == RegistrySpec => SignedSpec
<1>1. RegistryInit => SignedInit
  BY DEF RegistryInit
<1>2. RegistryInv /\ [RegistryNext]_allVars => [SignedNext]_signedVars
  BY SignedStep
<1> QED BY <1>1, <1>2, RegistryInvariant, PTL DEF RegistrySpec, SignedSpec

(* So a heartbeat's nonce is used once in the registry too.                *)
THEOREM HeartbeatUsedOnce == RegistrySpec => []RepeatNeedsDelay
BY RegistryImplementsSigned, SingleUse, PTL

-----------------------------------------------------------------------------
(* The types of the registry: what RegistryInv does not say is how often a *)
(* request has been tried.                                                 *)
TriesInv == \A p \in Process : call[p] # Missing => call[p].tries \in 0 .. MaxTries

(* A request is signed untried, tried again below the limit and given up,  *)
(* and nobody but its process touches it.                                  *)
LEMMA TriesStep ==
  ASSUME RegistryInv, TriesInv, [RegistryNext]_allVars
  PROVE  TriesInv'
<1> USE DEF TriesInv
<1> DEFINE Made(op, m, nonce, lead) ==
             [op |-> op, manifest |-> m, nonce |-> nonce, ts |-> clock + lead, tries |-> 0]
<1>1. ASSUME NEW p \in Process, NEW op, NEW m, NEW nonce, Sign(p, op, m, nonce)
      PROVE  TriesInv'
  <2>1. PICK lead \in 0 .. Lead : call' = [call EXCEPT ![p] = Made(op, m, nonce, lead)]
    BY <1>1 DEF Sign
  <2>2. Made(op, m, nonce, lead).tries \in 0 .. MaxTries
    BY RegistryAssumption
  <2> HIDE DEF Made
  <2>3. \A q \in Process : call'[q] = IF q = p THEN Made(op, m, nonce, lead) ELSE call[q]
    BY <2>1 DEF RegistryInv
  <2> QED BY <2>2, <2>3
<1>2. ASSUME NEW p \in Process, NEW w \in Worker, Receive(p, w)
      PROVE  TriesInv'
  <2> DEFINE again == [call[p] EXCEPT !.tries = @ + 1]
  <2>1. call' = [call EXCEPT ![p] = again]
    BY <1>2 DEF Receive
  <2>2. call[p] # Missing /\ call[p].tries < MaxTries /\ call[p] \in Call
    BY <1>2 DEF Receive, RegistryInv
  <2>3. again.tries = call[p].tries + 1
    BY <2>2 DEF Call
  <2> HIDE DEF again
  <2>4. again.tries \in 0 .. MaxTries
    BY <2>2, <2>3, RegistryAssumption
  <2>5. \A q \in Process : call'[q] = IF q = p THEN again ELSE call[q]
    BY <2>1 DEF RegistryInv
  <2> QED BY <2>4, <2>5
<1>3. ASSUME NEW p \in Process, Settle(p) PROVE TriesInv'
  BY <1>3 DEF Settle, RegistryInv
<1>4. ASSUME UNCHANGED call PROVE TriesInv'
  BY <1>4
<1>5. ASSUME NEW w \in Worker,
             \/ Prune(w) \/ Bind(w) \/ InsertRow(w) \/ UpdateRow(w) \/ Project(w)
             \/ VerifyKey(w) \/ CheckExists(w) \/ ConsumeNonce(w) \/ Beat(w) \/ DrainRunner(w)
             \/ DropHandler(w)
      PROVE  UNCHANGED call
  BY <1>5 DEF Prune, Bind, InsertRow, UpdateRow, Project, VerifyKey, CheckExists, ConsumeNonce,
     Beat, DrainRunner, DropHandler, Kept
<1>6. ASSUME NEW r \in Ids, DrainByDispatcher(r) \/ UndrainRunner(r) \/ DeregisterRunner(r)
      PROVE  UNCHANGED call
  BY <1>6 DEF DrainByDispatcher, UndrainRunner, DeregisterRunner, Order
<1> QED
  <2>1. CASE \E p \in Process : SignRegister(p) \/ SignHeartbeat(p) \/ SignDrain(p)
    BY <1>1, <2>1 DEF SignRegister, SignHeartbeat, SignDrain
  <2>2. CASE UNCHANGED registryVars
    BY <1>4, <2>2 DEF registryVars
  <2> QED BY <1>2, <1>3, <1>4, <1>5, <1>6, <2>1, <2>2 DEF RegistryNext, allVars

(* The columns of the runners table, the offers of the index, the nonces   *)
(* and the tries of a request are what the registry run checks they are,   *)
(* however registrations, heartbeats, drains and removals interleave.      *)
THEOREM RegistryTypes == RegistrySpec => []RegistryTypeOK
<1>1. RegistryInv /\ TriesInv /\ SignedTypeOK => RegistryTypeOK
  <2> SUFFICES ASSUME RegistryInv, TriesInv, SignedTypeOK PROVE RegistryTypeOK
    OBVIOUS
  <2>1. ASSUME NEW r \in Ids PROVE index[r] \subseteq UNION {EveryOffer(m) : m \in Manifests}
    <3>1. CASE index[r] = {}
      BY <3>1
    <3>2. CASE \E m \in Manifests : index[r] = ManifestRows(m)
      BY <3>2, ProjectionOfManifest
    <3> QED BY <3>1, <3>2 DEF RegistryInv, Projection
  <2> QED BY <2>1 DEF RegistryTypeOK, RegistryInv, RowsOK, TriesInv
<1>2. RegistryInit => TriesInv
  BY DEF RegistryInit, TriesInv
<1>3. RegistryInv /\ TriesInv /\ [RegistryNext]_allVars => TriesInv'
  BY TriesStep
<1>4. RegistrySpec => []TriesInv
  BY <1>2, <1>3, RegistryInvariant, PTL DEF RegistrySpec
<1> QED BY <1>1, <1>4, RegistryInvariant, RegistryImplementsSigned, SignedTypes, PTL
=============================================================================
