-------------------------- MODULE AuditChain_proofs --------------------------
(***************************************************************************)
(* Proofs about AuditChain, for any number of writers, events and rows.    *)
(***************************************************************************)
EXTENDS AuditChain, FiniteSetTheorems, SequenceTheorems, TLAPS

\* A row that Insert, or an INSERT nobody waited for, adds.
Inserted(w) ==
  /\ pc[w] \in {"insert", "lost"}
  /\ ~HashTaken(w)
  /\ log' = Append(log, NewRow(w))

LEMMA GenesisIsHash == Genesis \in Hash
BY DEF Genesis, Hash

LEMMA EventHashIsHash ==
  ASSUME NEW h \in Hash, NEW e \in Event
  PROVE  EventHash(h, e) \in Hash
BY DEF EventHash, Hash

LEMMA NewRowIsRow ==
  ASSUME TypeOK, NEW w \in Writer
  PROVE  NewRow(w) \in Row
<1>1. EventHash(expected[w], event[w]) \in Hash
  BY EventHashIsHash DEF TypeOK
<1> QED BY <1>1 DEF TypeOK, NewRow, Row

LEMMA TailIsHash == TypeOK => ChainTail \in Hash
<1> SUFFICES ASSUME TypeOK PROVE ChainTail \in Hash
  OBVIOUS
<1>1. CASE log = <<>>
  BY <1>1, GenesisIsHash DEF ChainTail, LastRowHash
<1>2. CASE log # <<>>
  <2>1. log[Len(log)] \in Row
    BY <1>2 DEF TypeOK
  <2> QED BY <1>2, <2>1 DEF ChainTail, LastRowHash, Row
<1> QED BY <1>1, <1>2

\* Every step leaves the log alone or adds one writer's row to it.
LEMMA LogSteps ==
  [Next]_vars => UNCHANGED log \/ \E w \in Writer : Inserted(w)
BY DEF Next, vars, NextDay, Begin, ReadTail, CheckTail, Insert, StoreError,
       Settle, Conflict, Inserted

LEMMA InitTypeOK == Init => TypeOK
<1> SUFFICES ASSUME Init PROVE TypeOK
  OBVIOUS
<1>1. overlapped \in BOOLEAN
  BY DEF Init
<1>2. log \in Seq(Row) /\ day \in 1..MaxDay /\ expected \in [Writer -> Hash]
  BY GenesisIsHash, MaxDayAssumption DEF Init
<1>3. stamp \in [Writer -> 1..MaxDay] /\ tries \in [Writer -> 0..Tries] /\ since \in [Writer -> Nat]
  BY MaxDayAssumption DEF Init, Tries
<1> QED BY <1>1, <1>2, <1>3 DEF Init, TypeOK

\* A conflict changes only where the writer is, its tries and its answer.
LEMMA RetryTypeOK ==
  ASSUME TypeOK, NEW w \in Writer, Conflict(w)
  PROVE  /\ pc' \in [Writer -> {"idle", "tail", "check", "insert", "lost"}]
         /\ tries' \in [Writer -> 0..Tries]
         /\ outcome' \in [Writer -> {"none", "ok", "error"}]
         /\ UNCHANGED <<log, day, event, stamp, expected, since, overlapped>>
<1>1. CASE tries[w] < Tries
  <2>1. tries[w] + 1 \in 0..Tries
    <3>1. tries[w] \in 0..Tries
      BY DEF TypeOK
    <3> QED BY <1>1, <3>1 DEF Tries
  <2>2. tries' = [tries EXCEPT ![w] = tries[w] + 1]
    BY <1>1 DEF Conflict
  <2>3. tries' \in [Writer -> 0..Tries]
    BY <2>1, <2>2 DEF TypeOK
  <2> QED BY <1>1, <2>3 DEF Conflict, TypeOK
<1>2. CASE ~(tries[w] < Tries)
  BY <1>2 DEF Conflict, Return, TypeOK
<1> QED BY <1>1, <1>2

LEMMA NextTypeOK == TypeOK /\ [Next]_vars => TypeOK'
<1> SUFFICES ASSUME TypeOK, [Next]_vars PROVE TypeOK'
  OBVIOUS
<1>1. log' \in Seq(Row)
  <2>1. ASSUME NEW w \in Writer, Inserted(w) PROVE log' \in Seq(Row)
    BY <2>1, NewRowIsRow DEF Inserted, TypeOK
  <2> QED BY <2>1, LogSteps DEF TypeOK
<1>2. CASE NextDay
  BY <1>1, <1>2, MaxDayAssumption DEF NextDay, TypeOK
<1>3. ASSUME NEW w \in Writer, NEW e \in Event, Begin(w, e) PROVE TypeOK'
  BY <1>1, <1>3 DEF Begin, TypeOK, Tries
<1>4. ASSUME NEW w \in Writer, ReadTail(w) PROVE TypeOK'
  BY <1>1, <1>4, TailIsHash DEF ReadTail, TypeOK
<1>5. ASSUME NEW w \in Writer, CheckTail(w) PROVE TypeOK'
  BY <1>1, <1>5, RetryTypeOK DEF CheckTail, TypeOK
<1>6. ASSUME NEW w \in Writer, Insert(w) PROVE TypeOK'
  BY <1>1, <1>6, RetryTypeOK DEF Insert, Return, TypeOK
<1>7. ASSUME NEW w \in Writer, StoreError(w) PROVE TypeOK'
  BY <1>1, <1>7 DEF StoreError, TypeOK
<1>8. ASSUME NEW w \in Writer, Settle(w) PROVE TypeOK'
  BY <1>1, <1>8 DEF Settle, TypeOK
<1>9. CASE UNCHANGED vars
  BY <1>9 DEF vars, TypeOK
<1> QED BY <1>2, <1>3, <1>4, <1>5, <1>6, <1>7, <1>8, <1>9 DEF Next

(* Every variable stays in its type in every reachable state.              *)
THEOREM TypeCorrect == Spec => []TypeOK
BY InitTypeOK, NextTypeOK, PTL DEF Spec

-----------------------------------------------------------------------------
(* No row hangs in the air: a writer can only have read a hash that was    *)
(* the tail, and rows are never removed.                                   *)

Committed(h) == h = Genesis \/ \E i \in 1..Len(log) : log[i].hash = h

ExpectedCommitted == \A w \in Writer : Committed(expected[w])

LinkInv == TypeOK /\ RowsLinked /\ ExpectedCommitted

LEMMA LogGrows ==
  ASSUME TypeOK, [Next]_vars
  PROVE  /\ Len(log') >= Len(log)
         /\ \A i \in 1..Len(log) : log'[i] = log[i]
<1>1. CASE UNCHANGED log
  BY <1>1 DEF TypeOK
<1>2. ASSUME NEW w \in Writer, Inserted(w)
      PROVE  /\ Len(log') >= Len(log)
             /\ \A i \in 1..Len(log) : log'[i] = log[i]
  BY <1>2, NewRowIsRow DEF Inserted, TypeOK
<1> QED BY <1>1, <1>2, LogSteps

LEMMA NextLinkInv == LinkInv /\ [Next]_vars => LinkInv'
<1> SUFFICES ASSUME LinkInv, [Next]_vars PROVE LinkInv'
  OBVIOUS
<1>0. TypeOK /\ TypeOK'
  BY NextTypeOK DEF LinkInv
<1>1. Len(log) \in Nat /\ Len(log') \in Nat
  BY <1>0 DEF TypeOK
<1>2. ASSUME NEW h, Committed(h) PROVE Committed(h)'
  BY <1>0, <1>1, <1>2, LogGrows DEF Committed
<1>3. RowsLinked'
  <2>1. CASE UNCHANGED log
    BY <2>1 DEF LinkInv, RowsLinked
  <2>2. ASSUME NEW w \in Writer, Inserted(w) PROVE RowsLinked'
    <3>1. /\ Len(log') = Len(log) + 1
          /\ log'[Len(log) + 1] = NewRow(w)
          /\ \A i \in 1..Len(log) : log'[i] = log[i]
      BY <1>0, <2>2, NewRowIsRow DEF Inserted, TypeOK
    <3>2. Committed(NewRow(w).prev)
      BY DEF LinkInv, ExpectedCommitted, NewRow
    <3> QED BY <1>1, <3>1, <3>2 DEF LinkInv, RowsLinked, Committed
  <2> QED BY <2>1, <2>2, LogSteps
<1>4. Committed(ChainTail)
  <2>1. CASE log = <<>>
    BY <2>1 DEF Committed, ChainTail, LastRowHash
  <2>2. CASE log # <<>>
    <3>1. Len(log) \in 1..Len(log)
      BY <1>0, <2>2 DEF TypeOK
    <3> QED BY <2>2, <3>1 DEF Committed, ChainTail, LastRowHash
  <2> QED BY <2>1, <2>2
<1>5. \A w \in Writer : expected'[w] \in {expected[w], ChainTail}
  BY <1>0 DEF Next, vars, NextDay, Begin, ReadTail, CheckTail, Insert,
       StoreError, Settle, Conflict, TypeOK
<1>6. ExpectedCommitted'
  <2> SUFFICES ASSUME NEW w \in Writer PROVE Committed(expected[w])'
    BY DEF ExpectedCommitted
  <2>1. Committed(expected'[w])
    BY <1>4, <1>5 DEF LinkInv, ExpectedCommitted
  <2> QED BY <1>0, <1>1, <2>1, LogGrows DEF Committed
<1> QED BY <1>0, <1>3, <1>6 DEF LinkInv

\* However its writers interleave, the log is a tree that hangs from genesis:
\* the tail a writer read is a committed row, and append_audit_event removes
\* none.
THEOREM RowsLinkedHolds == Spec => []RowsLinked
<1>1. Init => LinkInv
  BY InitTypeOK DEF Init, LinkInv, RowsLinked, ExpectedCommitted, Committed
<1>2. LinkInv => RowsLinked
  BY DEF LinkInv
<1> QED BY <1>1, <1>2, NextLinkInv, PTL DEF Spec

-----------------------------------------------------------------------------
(* Appends that do not overlap make one chain.                             *)

Sole == ~overlapped => \A v, w \in Writer : pc[v] # "idle" /\ pc[w] # "idle" => v = w

CheckedTail ==
  ~overlapped => \A w \in Writer : pc[w] \in {"insert", "lost"} => expected[w] = ChainTail

LinearInv == TypeOK /\ Linear /\ Sole /\ CheckedTail

LEMMA NextSole == TypeOK /\ Sole /\ [Next]_vars => Sole'
<1> SUFFICES ASSUME TypeOK, Sole, [Next]_vars, ~overlapped',
                    NEW v \in Writer, NEW w \in Writer, pc'[v] # "idle", pc'[w] # "idle"
             PROVE  v = w
  BY DEF Sole
<1>1. ~overlapped
  BY DEF TypeOK, Next, vars, NextDay, Begin, ReadTail, CheckTail, Insert, StoreError,
         Settle, Conflict
<1>2. ASSUME NEW u \in Writer, NEW e \in Event, Begin(u, e) PROVE v = w
  <2>1. \A x \in Writer \ {u} : pc'[x] = "idle"
    BY <1>2 DEF Begin, TypeOK
  <2> QED BY <2>1
<1>3. CASE ~\E u \in Writer, e \in Event : Begin(u, e)
  <2>1. \A x \in Writer : pc'[x] # "idle" => pc[x] # "idle"
    BY <1>3 DEF TypeOK, Next, vars, NextDay, ReadTail, CheckTail, Insert, StoreError,
                Settle, Conflict, Return
  <2> QED BY <1>1, <2>1 DEF Sole
<1> QED BY <1>2, <1>3

LEMMA NextLinearInv == LinearInv /\ [Next]_vars => LinearInv'
<1> SUFFICES ASSUME LinearInv, [Next]_vars PROVE LinearInv'
  OBVIOUS
<1>0. TypeOK /\ Sole /\ Sole'
  BY NextSole DEF LinearInv
<1>1. TypeOK'
  BY NextTypeOK DEF LinearInv
<1>2. ASSUME ~overlapped' PROVE ~overlapped
  BY <1>2 DEF Next, vars, NextDay, Begin, ReadTail, CheckTail, Insert, StoreError,
              Settle, Conflict
<1>3. Linear'
  <2>1. CASE UNCHANGED log
    BY <1>2, <2>1 DEF LinearInv, Linear
  <2>2. ASSUME ~overlapped', NEW w \in Writer, Inserted(w)
        PROVE  \A i \in 1..Len(log') :
                 log'[i].prev = IF i = 1 THEN Genesis ELSE log'[i - 1].hash
    <3>1. /\ Len(log) \in Nat
          /\ Len(log') = Len(log) + 1
          /\ log'[Len(log) + 1] = NewRow(w)
          /\ \A i \in 1..Len(log) : log'[i] = log[i]
      <4>1. NewRow(w) \in Row /\ log' = Append(log, NewRow(w)) /\ log \in Seq(Row)
        BY <1>0, <2>2, NewRowIsRow DEF Inserted, TypeOK
      <4>2. PICK r \in Row : r = NewRow(w)
        BY <4>1
      <4> QED BY ONLY <4>1, <4>2
    <3>2. NewRow(w).prev = ChainTail
      BY <1>2, <2>2 DEF Inserted, NewRow, LinearInv, CheckedTail
    <3>3. ChainTail = IF Len(log) = 0 THEN Genesis ELSE log[Len(log)].hash
      BY <1>0 DEF ChainTail, LastRowHash, TypeOK
    <3>4. \A i \in 1..Len(log) : log[i].prev = IF i = 1 THEN Genesis ELSE log[i - 1].hash
      BY <1>2, <2>2 DEF LinearInv, Linear
    <3> DEFINE n == Len(log)
    <3>5. ASSUME NEW i \in 1..n
          PROVE  log'[i].prev = IF i = 1 THEN Genesis ELSE log'[i - 1].hash
      <4>1. i = 1 \/ i - 1 \in 1..n
        BY <3>1
      <4> QED BY <3>1, <3>4, <4>1
    <3>6. log'[n + 1].prev = IF n + 1 = 1 THEN Genesis ELSE log'[n].hash
      <4>1. log'[n + 1].prev = IF n = 0 THEN Genesis ELSE log[n].hash
        BY <3>1, <3>2, <3>3
      <4>2. n = 0 \/ log'[n] = log[n]
        BY <3>1
      <4> QED BY <3>1, <4>1, <4>2
    <3>7. \A i \in 1..Len(log') : i \in 1..n \/ (i = n + 1 /\ i - 1 = n)
      BY <3>1
    <3> HIDE DEF n
    <3> QED BY <3>5, <3>6, <3>7
  <2>3. CASE overlapped'
    BY <2>3 DEF Linear
  <2> QED BY <2>1, <2>2, <2>3, LogSteps DEF Linear
<1>4. CheckedTail'
  <2> SUFFICES ASSUME ~overlapped', NEW w \in Writer, pc'[w] \in {"insert", "lost"}
               PROVE  expected'[w] = ChainTail'
    BY DEF CheckedTail
  <2>1. /\ pc \in [Writer -> {"idle", "tail", "check", "insert", "lost"}]
        /\ expected \in [Writer -> Hash]
    BY <1>0 DEF TypeOK
  <2>2. expected'[w] = ChainTail
    <3>1. CASE pc[w] \in {"insert", "lost"}
      <4>1. expected[w] = ChainTail
        BY <1>2, <3>1 DEF LinearInv, CheckedTail
      <4>2. expected'[w] = expected[w]
        BY <2>1, <3>1 DEF Next, vars, NextDay, Begin, ReadTail, CheckTail, Insert, StoreError,
                          Settle, Conflict
      <4> QED BY <4>1, <4>2
    <3>2. CASE pc[w] \notin {"insert", "lost"}
      <4>1. CheckTail(w) /\ TailUnchanged(w)
        BY <2>1, <3>2 DEF Next, vars, NextDay, Begin, ReadTail, CheckTail, Insert, StoreError,
                          Settle, Conflict, Return
      <4>2. expected'[w] = expected[w]
        BY <4>1 DEF CheckTail, Conflict
      <4> QED BY <4>1, <4>2 DEF TailUnchanged
    <3> QED BY <3>1, <3>2
  <2>3. pc[w] # "idle"
    BY <1>0 DEF Next, vars, NextDay, Begin, ReadTail, CheckTail, Insert, StoreError,
         Settle, Conflict, Return, TypeOK
  <2>4. ASSUME NEW v \in Writer, Inserted(v) PROVE v = w
    BY <1>0, <1>2, <2>3, <2>4 DEF Sole, Inserted
  <2>5. UNCHANGED log \/ \E v \in Writer : Inserted(v) /\ pc'[v] = "idle"
    <3>1. ASSUME NEW v \in Writer, Insert(v) \/ Settle(v)
          PROVE  UNCHANGED log \/ (Inserted(v) /\ pc'[v] = "idle")
      BY <2>1, <3>1 DEF Insert, Settle, Conflict, Return, Inserted
    <3>2. ASSUME NEW v \in Writer, ReadTail(v) \/ CheckTail(v) \/ StoreError(v) PROVE UNCHANGED log
      BY <3>2 DEF ReadTail, CheckTail, StoreError, Conflict
    <3> QED BY <3>1, <3>2 DEF Next, vars, NextDay, Begin
  <2>6. UNCHANGED log
    BY <2>4, <2>5
  <2> QED BY <2>2, <2>6 DEF ChainTail, LastRowHash
<1> QED BY <1>0, <1>1, <1>3, <1>4 DEF LinearInv

\* Where appends do not overlap, append_audit_event's expected-tail check does
\* what it is for: the log is one chain from genesis.
THEOREM LinearHolds == Spec => []Linear
<1>1. Init => LinearInv
  BY InitTypeOK DEF Init, LinearInv, Linear, Sole, CheckedTail
<1>2. LinearInv => Linear
  BY DEF LinearInv
<1> QED BY <1>1, <1>2, NextLinearInv, PTL DEF Spec
-----------------------------------------------------------------------------
(* The chain forks only where appends raced.                               *)
(*                                                                         *)
(* Once a row follows h, h is the tail no more and never again, since no   *)
(* two rows have one hash: so nobody reads it any longer, and each writer  *)
(* that still holds it adds one row at most.  The rows that follow h and   *)
(* the writers that hold it are never more than the writers.               *)

Followers(h) == {i \in 1..Len(log) : log[i].prev = h}
Holders(h) == {w \in Writer : pc[w] \in {"check", "insert", "lost"} /\ expected[w] = h}

RowsHashed == \A i \in 1..Len(log) : log[i].hash = EventHash(log[i].prev, log[i].event)
TailUnfollowed == \A i \in 1..Len(log) : log[i].prev # ChainTail
RacersCounted ==
  \A h \in Hash : h # ChainTail =>
    Cardinality(Followers(h)) + Cardinality(Holders(h)) <= Cardinality(Writer)

ForkInv == LinkInv /\ RowsHashed /\ TailUnfollowed /\ RacersCounted

LEMMA EventHashTells ==
  ASSUME NEW h \in Hash, NEW d \in Event, NEW k \in Hash, NEW e \in Event
  PROVE  /\ EventHash(h, d) = EventHash(k, e) => h = k
         /\ EventHash(h, d) # h /\ EventHash(h, d) # Genesis
<1>1. EventHash(h, d) = EventHash(k, e) => h = k
  BY AppendInjective DEF EventHash, Hash
<1>2. Len(EventHash(h, d)) = Len(h) + 1 /\ Len(h) \in Nat
  BY DEF EventHash, Hash
<1>3. Len(Genesis) = 0
  BY DEF Genesis
<1> QED BY <1>1, <1>2, <1>3

LEMMA FollowersFinite ==
  ASSUME TypeOK, NEW h
  PROVE  IsFiniteSet(Followers(h)) /\ Cardinality(Followers(h)) \in Nat
<1>1. Len(log) \in Nat
  BY DEF TypeOK
<1>2. IsFiniteSet(1..Len(log))
  BY <1>1, FS_Interval
<1>3. IsFiniteSet(Followers(h))
  BY <1>2, FS_Subset DEF Followers
<1> QED BY <1>3, FS_CardinalityType

LEMMA HoldersFinite ==
  ASSUME IsFiniteSet(Writer), NEW h
  PROVE  /\ IsFiniteSet(Holders(h)) /\ Cardinality(Holders(h)) \in Nat
         /\ Cardinality(Holders(h)) <= Cardinality(Writer) /\ Cardinality(Writer) \in Nat
<1>1. IsFiniteSet(Holders(h)) /\ Cardinality(Holders(h)) <= Cardinality(Writer)
  BY FS_Subset DEF Holders
<1> QED BY <1>1, FS_CardinalityType

\* A hash that is the tail, or that nobody follows, has room for all who hold it.
LEMMA RacersBounded ==
  ASSUME IsFiniteSet(Writer), ForkInv, NEW h \in Hash
  PROVE  Cardinality(Followers(h)) + Cardinality(Holders(h)) <= Cardinality(Writer)
<1>1. CASE h = ChainTail
  <2>1. Followers(h) = {}
    BY <1>1 DEF ForkInv, TailUnfollowed, Followers
  <2>2. Cardinality(Followers(h)) = 0
    BY <2>1, FS_EmptySet
  <2> QED BY <2>2, HoldersFinite
<1>2. CASE h # ChainTail
  BY <1>2 DEF ForkInv, RacersCounted
<1> QED BY <1>1, <1>2

\* A step that adds no row: only the tail gains holders.
LEMMA ForkWithoutRow ==
  ASSUME IsFiniteSet(Writer), ForkInv, LinkInv', UNCHANGED log,
         \A w \in Writer : pc'[w] \in {"check", "insert", "lost"} =>
           expected'[w] = ChainTail \/ (pc[w] \in {"check", "insert", "lost"} /\ expected'[w] = expected[w])
  PROVE  ForkInv'
<1>1. ChainTail' = ChainTail
  BY DEF ChainTail, LastRowHash
<1>2. RowsHashed' /\ TailUnfollowed'
  BY <1>1 DEF ForkInv, RowsHashed, TailUnfollowed
<1>3. ASSUME NEW h \in Hash, h # ChainTail
      PROVE  Cardinality(Followers(h)') + Cardinality(Holders(h)') <= Cardinality(Writer)
  <2>1. Followers(h)' = Followers(h)
    BY DEF Followers
  <2>2. Holders(h)' \in SUBSET Holders(h)
    BY <1>3 DEF Holders
  <2>3. Cardinality(Holders(h)') <= Cardinality(Holders(h)) /\ IsFiniteSet(Holders(h)')
    BY <2>2, HoldersFinite, FS_Subset
  <2>4. Cardinality(Holders(h)') \in Nat
    BY <2>3, FS_CardinalityType
  <2>5. TypeOK
    BY DEF ForkInv, LinkInv
  <2>6. Cardinality(Followers(h)) + Cardinality(Holders(h)) <= Cardinality(Writer)
    BY <1>3 DEF ForkInv, RacersCounted
  <2> HIDE DEF Holders, Followers
  <2> QED BY <2>1, <2>3, <2>4, <2>5, <2>6, FollowersFinite, HoldersFinite
<1>4. RacersCounted'
  BY <1>1, <1>3 DEF RacersCounted
<1> QED BY <1>2, <1>4 DEF ForkInv

\* A step that adds a row ends one writer's hold of the hash before it.
LEMMA ForkWithRow ==
  ASSUME IsFiniteSet(Writer), ForkInv, LinkInv', NEW w \in Writer, Inserted(w),
         pc' = [pc EXCEPT ![w] = "idle"], UNCHANGED expected
  PROVE  ForkInv'
<1> DEFINE row == NewRow(w)
           n == Len(log)
<1>0. TypeOK /\ TypeOK' /\ RowsLinked /\ RowsHashed /\ TailUnfollowed
  BY DEF ForkInv, LinkInv
<1>1. row \in Row /\ row.hash = EventHash(row.prev, row.event) /\ row.prev = expected[w]
  BY <1>0, NewRowIsRow DEF NewRow
<1>2. row.prev \in Hash /\ row.event \in Event /\ row.hash \in Hash
  BY <1>1 DEF Row
<1> HIDE DEF row
<1>3. /\ n \in Nat /\ Len(log') = n + 1 /\ log'[n + 1] = row
      /\ \A i \in 1..n : log'[i] = log[i] /\ log[i] \in Row
  BY <1>0, <1>1 DEF Inserted, TypeOK, row
<1>4. \A i \in 1..n : log[i].hash # row.hash
  BY DEF Inserted, HashTaken, row
<1>5. ChainTail' = row.hash
  BY <1>3 DEF ChainTail, LastRowHash
<1>6. RowsHashed'
  BY <1>1, <1>3, <1>0 DEF RowsHashed
<1>7. \A i \in 1..n : log[i].prev # row.hash
  <2> SUFFICES ASSUME NEW i \in 1..n, log[i].prev = row.hash PROVE FALSE
    OBVIOUS
  <2>1. row.hash # Genesis
    BY <1>1, <1>2, EventHashTells
  <2>2. PICK j \in 1..(i - 1) : log[j].hash = row.hash
    BY <1>0, <1>3, <2>1 DEF RowsLinked
  <2> QED BY <1>3, <1>4, <2>2
<1>8. TailUnfollowed'
  <2>1. row.prev # row.hash
    BY <1>1, <1>2, EventHashTells
  <2> QED BY <1>3, <1>5, <1>7, <2>1 DEF TailUnfollowed
<1>9. ASSUME NEW h \in Hash
      PROVE  Cardinality(Followers(h)') + Cardinality(Holders(h)') <= Cardinality(Writer)
  <2>1. /\ IsFiniteSet(Followers(h)) /\ Cardinality(Followers(h)) \in Nat
        /\ IsFiniteSet(Holders(h)) /\ Cardinality(Holders(h)) \in Nat /\ Cardinality(Writer) \in Nat
        /\ Cardinality(Followers(h)) + Cardinality(Holders(h)) <= Cardinality(Writer)
    BY <1>0, FollowersFinite, HoldersFinite, RacersBounded
  <2>2. CASE h = row.prev
    <3>1. Followers(h)' = Followers(h) \cup {n + 1} /\ n + 1 \notin Followers(h)
      BY <1>3, <2>2 DEF Followers
    <3>2. Holders(h)' = Holders(h) \ {w} /\ w \in Holders(h)
      BY <1>0, <1>1, <2>2 DEF Holders, TypeOK, Inserted
    <3>3. Cardinality(Followers(h)') = Cardinality(Followers(h)) + 1
      BY <2>1, <3>1, FS_AddElement
    <3>4. Cardinality(Holders(h)') = Cardinality(Holders(h)) - 1
      BY <2>1, <3>2, FS_RemoveElement
    <3> HIDE DEF Holders, Followers
    <3> QED BY <2>1, <3>3, <3>4
  <2>3. CASE h # row.prev
    <3>1. Followers(h)' = Followers(h)
      BY <1>3, <2>3 DEF Followers
    <3>2. Holders(h)' = Holders(h)
      BY <1>0, <1>1, <2>3 DEF Holders, TypeOK
    <3> QED BY <2>1, <3>1, <3>2
  <2> QED BY <2>2, <2>3
<1> QED BY <1>6, <1>8, <1>9 DEF ForkInv, RacersCounted

LEMMA NextForkInv == ASSUME IsFiniteSet(Writer), ForkInv, [Next]_vars PROVE ForkInv'
<1>1. TypeOK /\ LinkInv'
  BY NextLinkInv DEF ForkInv, LinkInv
<1>2. ASSUME UNCHANGED log,
             \A w \in Writer : pc'[w] \in {"check", "insert", "lost"} =>
               expected'[w] = ChainTail \/ (pc[w] \in {"check", "insert", "lost"} /\ expected'[w] = expected[w])
      PROVE  ForkInv'
  BY <1>1, <1>2, ForkWithoutRow
<1>3. CASE NextDay \/ UNCHANGED vars
  BY <1>1, <1>2, <1>3 DEF NextDay, vars
<1>4. ASSUME NEW w \in Writer, NEW e \in Event, Begin(w, e) PROVE ForkInv'
  BY <1>1, <1>2, <1>4 DEF Begin, TypeOK
<1>5. ASSUME NEW w \in Writer, ReadTail(w) PROVE ForkInv'
  BY <1>1, <1>2, <1>5 DEF ReadTail, TypeOK
<1>6. ASSUME NEW w \in Writer, CheckTail(w) PROVE ForkInv'
  BY <1>1, <1>2, <1>6 DEF CheckTail, Conflict, Return, TypeOK
<1>7. ASSUME NEW w \in Writer, StoreError(w) PROVE ForkInv'
  BY <1>1, <1>2, <1>7 DEF StoreError, TypeOK
<1>8. ASSUME NEW w \in Writer, Insert(w) PROVE ForkInv'
  <2>1. CASE HashTaken(w) /\ Conflict(w)
    BY <1>1, <1>2, <2>1 DEF Conflict, Return, TypeOK
  <2>2. CASE Inserted(w) /\ Return(w, "ok") /\ UNCHANGED expected
    BY <1>1, <2>2, ForkWithRow DEF Return
  <2> QED BY <1>8, <2>1, <2>2 DEF Insert, Inserted
<1>9. ASSUME NEW w \in Writer, Settle(w) PROVE ForkInv'
  <2>1. CASE UNCHANGED log
    BY <1>1, <1>2, <1>9, <2>1 DEF Settle, TypeOK
  <2>2. CASE Inserted(w)
    BY <1>1, <1>9, <2>2, ForkWithRow DEF Settle
  <2> QED BY <1>9, <2>1, <2>2 DEF Settle, Inserted
<1> QED BY <1>3, <1>4, <1>5, <1>6, <1>7, <1>8, <1>9 DEF Next

LEMMA InitForkInv == ASSUME IsFiniteSet(Writer), Init PROVE ForkInv
<1>1. LinkInv
  BY InitTypeOK DEF Init, LinkInv, RowsLinked, ExpectedCommitted, Committed
<1>2. Len(log) = 0
  BY DEF Init
<1>3. RowsHashed /\ TailUnfollowed
  BY <1>2 DEF RowsHashed, TailUnfollowed
<1>4. ASSUME NEW h PROVE Followers(h) = {}
  BY <1>2 DEF Followers
<1>5. ASSUME NEW h PROVE Cardinality(Followers(h)) + Cardinality(Holders(h)) <= Cardinality(Writer)
  <2>1. Cardinality(Followers(h)) = 0
    BY <1>4, FS_EmptySet
  <2> QED BY <2>1, HoldersFinite
<1> QED BY <1>1, <1>3, <1>5 DEF ForkInv, RacersCounted

\* However many appends race, no row is followed by more rows than there are
\* writers: append_audit_event's check of the tail keeps the tree that narrow.
THEOREM ForkBoundedHolds == ASSUME IsFiniteSet(Writer) PROVE Spec => []ForkBounded
<1>1. ForkInv => ForkBounded
  <2> SUFFICES ASSUME ForkInv, NEW i \in 1..Len(log)
               PROVE  Cardinality(Followers(log[i].prev)) <= Cardinality(Writer)
    BY DEF ForkBounded, Followers
  <2>1. TypeOK /\ log[i].prev \in Hash
    <3>1. TypeOK /\ log[i] \in Row
      BY DEF ForkInv, LinkInv, TypeOK
    <3> QED BY <3>1 DEF Row
  <2> DEFINE h == log[i].prev
  <2>2. /\ Cardinality(Followers(h)) \in Nat /\ Cardinality(Holders(h)) \in Nat /\ Cardinality(Writer) \in Nat
        /\ Cardinality(Followers(h)) + Cardinality(Holders(h)) <= Cardinality(Writer)
    BY <2>1, FollowersFinite, HoldersFinite, RacersBounded
  <2> HIDE DEF h
  <2>3. Cardinality(Followers(h)) <= Cardinality(Writer)
    BY <2>2
  <2> QED BY <2>3 DEF h
<1> QED BY <1>1, InitForkInv, NextForkInv, PTL DEF Spec
-----------------------------------------------------------------------------
(* An append that gives up lost to three rows: each of its tries began     *)
(* after one more row, and a try only fails when the tail it read is the   *)
(* tail no more.                                                           *)

TriesPaid ==
  \A w \in Writer :
    /\ pc[w] \in {"tail", "check", "insert"} => Len(log) >= since[w] + tries[w] - 1
    /\ pc[w] \in {"check", "insert"} /\ expected[w] # ChainTail => Len(log) >= since[w] + tries[w]

\* A conflict costs a row.
LEMMA ConflictPaid ==
  ASSUME IsFiniteSet(Writer), ForkInv, TriesPaid, NEW w \in Writer,
         \/ pc[w] = "check" /\ ~TailUnchanged(w)
         \/ pc[w] = "insert" /\ HashTaken(w)
  PROVE  Len(log) >= since[w] + tries[w]
<1>1. CASE pc[w] = "check" /\ ~TailUnchanged(w)
  BY <1>1 DEF TriesPaid, TailUnchanged
<1>2. CASE pc[w] = "insert" /\ HashTaken(w)
  <2>1. PICK i \in 1..Len(log) : log[i].hash = EventHash(expected[w], event[w])
    BY <1>2 DEF HashTaken, NewRow
  <2>2. log[i] \in Row /\ expected[w] \in Hash /\ event[w] \in Event
    BY DEF ForkInv, LinkInv, TypeOK
  <2>3. log[i].prev \in Hash /\ log[i].event \in Event
    BY <2>2 DEF Row
  <2>4. log[i].hash = EventHash(log[i].prev, log[i].event)
    BY DEF ForkInv, RowsHashed
  <2>5. log[i].prev = expected[w]
    BY <2>1, <2>2, <2>3, <2>4, EventHashTells
  <2>6. expected[w] # ChainTail
    BY <2>5 DEF ForkInv, TailUnfollowed
  <2> QED BY <1>2, <2>6 DEF TriesPaid
<1> QED BY <1>1, <1>2

LEMMA ConflictKeepsPaid ==
  ASSUME IsFiniteSet(Writer), ForkInv, TriesPaid, NEW w \in Writer, Conflict(w),
         \/ pc[w] = "check" /\ ~TailUnchanged(w)
         \/ pc[w] = "insert" /\ HashTaken(w)
  PROVE  TriesPaid'
<1>1. Len(log) >= since[w] + tries[w]
  BY ConflictPaid
<1>2. UNCHANGED <<log, expected, since>> /\ TypeOK /\ ChainTail' = ChainTail
  BY DEF Conflict, ForkInv, LinkInv, ChainTail, LastRowHash
<1>3. since[w] \in Nat /\ tries[w] \in Nat /\ Len(log) \in Nat
  BY <1>2 DEF TypeOK
<1>4. pc'[w] \in {"tail", "idle"} /\ \A v \in Writer \ {w} : pc'[v] = pc[v] /\ tries'[v] = tries[v]
  BY <1>2 DEF Conflict, Return, TypeOK
<1>5. pc'[w] = "tail" => tries'[w] = tries[w] + 1
  BY <1>2 DEF Conflict, Return, TypeOK
<1>6. ASSUME NEW v \in Writer
      PROVE  /\ pc'[v] \in {"tail", "check", "insert"} => Len(log) >= since[v] + tries'[v] - 1
             /\ pc'[v] \in {"check", "insert"} /\ expected[v] # ChainTail
                  => Len(log) >= since[v] + tries'[v]
  <2>1. CASE v = w
    BY <1>1, <1>3, <1>4, <1>5, <2>1
  <2>2. CASE v # w
    BY <1>4, <2>2 DEF TriesPaid
  <2> QED BY <2>1, <2>2
<1> QED BY <1>2, <1>6 DEF TriesPaid

\* A row more pays for one try of every writer at work.
LEMMA RowPays ==
  ASSUME TypeOK, TriesPaid, NEW w \in Writer, Inserted(w),
         pc' = [pc EXCEPT ![w] = "idle"], UNCHANGED <<since, tries>>
  PROVE  TriesPaid'
<1>1. Len(log') = Len(log) + 1 /\ Len(log) \in Nat
  BY NewRowIsRow DEF Inserted, TypeOK
<1>2. ASSUME NEW v \in Writer, pc'[v] \in {"tail", "check", "insert"}
      PROVE  Len(log') >= since'[v] + tries'[v]
  <2>1. pc[v] = pc'[v]
    BY <1>2 DEF TypeOK
  <2>2. since[v] \in Nat /\ tries[v] \in Nat
    BY DEF TypeOK
  <2>3. Len(log) >= since[v] + tries[v] - 1
    BY <1>2, <2>1 DEF TriesPaid
  <2> QED BY <1>1, <2>2, <2>3
<1>3. \A v \in Writer : since'[v] \in Nat /\ tries'[v] \in Nat
  BY DEF TypeOK
<1> QED BY <1>1, <1>2, <1>3 DEF TriesPaid

LEMMA NextTriesPaid ==
  ASSUME IsFiniteSet(Writer), ForkInv, TriesPaid, [Next]_vars
  PROVE  TriesPaid'
<1>0. TypeOK
  BY DEF ForkInv, LinkInv
<1>1. ASSUME UNCHANGED <<log, since, tries>>,
             \A w \in Writer : pc'[w] \in {"tail", "check", "insert"} =>
               /\ pc[w] \in {"tail", "check", "insert"}
               /\ \/ pc'[w] = "tail" \/ expected'[w] = ChainTail
                  \/ pc[w] \in {"check", "insert"} /\ expected'[w] = expected[w]
      PROVE  TriesPaid'
  <2>1. ChainTail' = ChainTail
    BY <1>1 DEF ChainTail, LastRowHash
  <2> QED BY <1>1, <2>1 DEF TriesPaid
<1>2. CASE NextDay \/ UNCHANGED vars
  BY <1>0, <1>1, <1>2 DEF NextDay, vars, TypeOK
<1>3. ASSUME NEW w \in Writer, NEW e \in Event, Begin(w, e) PROVE TriesPaid'
  <2>1. /\ UNCHANGED <<log, expected>> /\ pc'[w] = "tail" /\ since'[w] = Len(log) /\ tries'[w] = 1
        /\ \A v \in Writer \ {w} : pc'[v] = pc[v] /\ since'[v] = since[v] /\ tries'[v] = tries[v]
    BY <1>0, <1>3 DEF Begin, TypeOK
  <2>2. ChainTail' = ChainTail /\ Len(log) \in Nat
    BY <1>0, <2>1 DEF ChainTail, LastRowHash, TypeOK
  <2>3. ASSUME NEW v \in Writer
        PROVE  /\ pc'[v] \in {"tail", "check", "insert"} => Len(log) >= since'[v] + tries'[v] - 1
               /\ pc'[v] \in {"check", "insert"} /\ expected[v] # ChainTail
                    => Len(log) >= since'[v] + tries'[v]
    <3>1. CASE v = w
      BY <2>1, <2>2, <3>1
    <3>2. CASE v # w
      BY <2>1, <3>2 DEF TriesPaid
    <3> QED BY <3>1, <3>2
  <2> QED BY <2>1, <2>2, <2>3 DEF TriesPaid
<1>4. ASSUME NEW w \in Writer, ReadTail(w) PROVE TriesPaid'
  BY <1>0, <1>1, <1>4 DEF ReadTail, TypeOK
<1>5. ASSUME NEW w \in Writer, CheckTail(w) PROVE TriesPaid'
  <2>1. CASE ~TailUnchanged(w) /\ Conflict(w)
    BY <1>5, <2>1, ConflictKeepsPaid DEF CheckTail
  <2>2. CASE pc' = [pc EXCEPT ![w] = "insert"] /\ UNCHANGED <<log, expected, since, tries>>
    BY <1>0, <1>1, <1>5, <2>2 DEF CheckTail, TypeOK
  <2> QED BY <1>5, <2>1, <2>2 DEF CheckTail
<1>6. ASSUME NEW w \in Writer, Insert(w) PROVE TriesPaid'
  <2>1. CASE HashTaken(w) /\ Conflict(w)
    BY <1>6, <2>1, ConflictKeepsPaid DEF Insert
  <2>2. CASE Inserted(w) /\ Return(w, "ok") /\ UNCHANGED <<since, tries>>
    BY <1>0, <2>2, RowPays DEF Return
  <2> QED BY <1>6, <2>1, <2>2 DEF Insert, Inserted
<1>7. ASSUME NEW w \in Writer, StoreError(w) PROVE TriesPaid'
  BY <1>0, <1>1, <1>7 DEF StoreError, TypeOK
<1>8. ASSUME NEW w \in Writer, Settle(w) PROVE TriesPaid'
  <2>1. CASE UNCHANGED log
    BY <1>0, <1>1, <1>8, <2>1 DEF Settle, TypeOK
  <2>2. CASE Inserted(w)
    BY <1>0, <1>8, <2>2, RowPays DEF Settle
  <2> QED BY <1>8, <2>1, <2>2 DEF Settle, Inserted
<1> QED BY <1>2, <1>3, <1>4, <1>5, <1>6, <1>7, <1>8 DEF Next

LostErred == \A w \in Writer : pc[w] = "lost" => outcome[w] = "error"

LEMMA NextLostErred == ASSUME TypeOK, LostErred, [Next]_vars PROVE LostErred'
<1>1. ASSUME NEW v \in Writer, pc'[v] = "lost" PROVE outcome'[v] = "error"
  <2>1. CASE pc[v] = "lost"
    <3>1. pc'[v] = pc[v] /\ outcome[v] = "error"
      BY <1>1, <2>1 DEF LostErred
    <3> QED BY <2>1, <3>1 DEF TypeOK, Next, vars, NextDay, Begin, ReadTail, CheckTail, Insert,
               StoreError, Settle, Conflict, Return
  <2>2. CASE pc[v] # "lost"
    <3>1. StoreError(v)
      <4>1. pc \in [Writer -> {"idle", "tail", "check", "insert", "lost"}]
        BY DEF TypeOK
      <4>2. ASSUME NEW w \in Writer, (\E e \in Event : Begin(w, e)) \/ ReadTail(w) \/ CheckTail(w)
            PROVE  pc'[v] # "lost"
        <5>1. \E p \in {"tail", "check", "insert", "idle"} : pc' = [pc EXCEPT ![w] = p]
          <6>1. CASE \E e \in Event : Begin(w, e)
            BY <6>1 DEF Begin
          <6>2. CASE ReadTail(w)
            BY <6>2 DEF ReadTail
          <6>3. CASE CheckTail(w)
            BY <6>3 DEF CheckTail, Conflict, Return
          <6> QED BY <4>2, <6>1, <6>2, <6>3
        <5> QED BY <2>2, <4>1, <5>1
      <4>3. ASSUME NEW w \in Writer, Insert(w) \/ Settle(w) PROVE pc'[v] # "lost"
        BY <2>2, <4>1, <4>3 DEF Insert, Settle, Conflict, Return
      <4>4. ASSUME NEW w \in Writer, StoreError(w), w # v PROVE pc'[v] # "lost"
        BY <2>2, <4>1, <4>4 DEF StoreError
      <4>5. CASE NextDay \/ UNCHANGED vars
        BY <1>1, <2>2, <4>5 DEF NextDay, vars
      <4> QED BY <1>1, <4>2, <4>3, <4>4, <4>5 DEF Next
    <3> QED BY <3>1 DEF StoreError, TypeOK
  <2> QED BY <2>1, <2>2
<1> QED BY <1>1 DEF LostErred

\* What ends an append with an Ok and no row.
LEMMA OnlyConflictsDrop ==
  ASSUME TypeOK, LostErred, Next, NEW w \in Writer,
         pc[w] # "idle", outcome'[w] = "ok", pc'[w] = "idle", log' = log
  PROVE  /\ tries[w] = Tries
         /\ \/ pc[w] = "check" /\ ~TailUnchanged(w)
            \/ pc[w] = "insert" /\ HashTaken(w)
<1>1. ReadTail(w) \/ CheckTail(w) \/ Insert(w) \/ StoreError(w) \/ Settle(w)
  BY DEF TypeOK, Next, NextDay, Begin, ReadTail, CheckTail, Insert,
         StoreError, Settle, Conflict, Return
<1>2. ~ReadTail(w) /\ ~StoreError(w)
  BY DEF ReadTail, StoreError, TypeOK
<1>3. ~Settle(w)
  BY DEF Settle, LostErred
<1>4. ~Inserted(w)
  <2>1. ASSUME Inserted(w) PROVE Len(log') = Len(log) + 1 /\ Len(log) \in Nat
    BY <2>1, NewRowIsRow DEF Inserted, TypeOK
  <2> QED BY <2>1
<1>5. \/ pc[w] = "check" /\ ~TailUnchanged(w) /\ Conflict(w)
      \/ pc[w] = "insert" /\ HashTaken(w) /\ Conflict(w)
  BY <1>1, <1>2, <1>3, <1>4 DEF CheckTail, Insert, Inserted, TypeOK
<1>6. tries[w] = Tries
  <2>1. ~(tries[w] < Tries)
    BY <1>5 DEF Conflict, TypeOK
  <2>2. tries[w] \in 0..Tries
    BY DEF TypeOK
  <2> QED BY <2>1, <2>2 DEF Tries
<1> QED BY <1>5, <1>6

\* audit_append swallows an event only after three other rows came in between:
\* an Ok without a row is never the answer to a try that nothing raced.
THEOREM DroppedOnlyUnderContentionHolds ==
  ASSUME IsFiniteSet(Writer) PROVE Spec => DroppedOnlyUnderContention
<1> DEFINE IInv == ForkInv /\ TriesPaid /\ LostErred
<1>1. Init => IInv
  <2>1. Init => TriesPaid /\ LostErred
    BY DEF Init, TriesPaid, LostErred
  <2> QED BY <2>1, InitForkInv
<1>2. IInv /\ [Next]_vars => IInv'
  BY NextForkInv, NextTriesPaid, NextLostErred DEF ForkInv, LinkInv
<1>3. IInv /\ [Next]_vars =>
      [\A w \in Writer :
         pc[w] # "idle" /\ outcome'[w] = "ok" /\ pc'[w] = "idle" /\ log' = log
           => Len(log) >= since[w] + 3]_vars
  <2> SUFFICES ASSUME IInv, Next, NEW w \in Writer,
                      pc[w] # "idle", outcome'[w] = "ok", pc'[w] = "idle", log' = log
               PROVE  Len(log) >= since[w] + 3
    OBVIOUS
  <2>1. TypeOK
    BY DEF ForkInv, LinkInv
  <2>2. tries[w] = 3 /\ Len(log) >= since[w] + tries[w]
    BY <2>1, OnlyConflictsDrop, ConflictPaid DEF Tries
  <2> QED BY <2>2
<1> QED BY <1>1, <1>2, <1>3, PTL DEF Spec, DroppedOnlyUnderContention
=============================================================================
