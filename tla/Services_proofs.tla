--------------------------- MODULE Services_proofs ----------------------------
(***************************************************************************)
(* Proofs about the settings, the budget gate, the intents, the streams of *)
(* a running task and the calendar, for any clients, keys, values,         *)
(* requests, prices, caps, scripts, handlers, messages and days.           *)
(*                                                                         *)
(* The settings row alone does not say that a put is safe: it is because   *)
(* whatever holds a statement, a handler or the network, holds one that    *)
(* was computed from the revision the statement names (Sound, Working),    *)
(* and revisions, once made, stay (Past).                                  *)
(***************************************************************************)
EXTENDS Settings, CostBudget, IntentGate, TaskStreams, CivilDates, FiniteSetTheorems, SequenceTheorems,
        WellFoundedInduction, TLAPS

\* A statement that builds on the revision it expects.
Sound(s) ==
  /\ s \in Statement
  /\ s.expected \in 0..Len(history)
  /\ s.kind = "change" => SameButFor(s.key, s.value, ValueAt(s.expected))
  /\ s.kind = "undo" =>
       /\ s.expected \in DOMAIN history
       /\ history[s.expected].kind = "change"
       /\ history[s.expected].by = s.by
       /\ s.value = ValueAt(s.expected - 1)

LateSound == \A s \in late : Sound(s)

\* A handler that has read holds the overlay of the revision it expects.
Working ==
  \A w \in Writer : pc[w] \in {"put", "audit", "undo"} =>
    /\ request[w].expected \in 0..Len(history)
    /\ prior[w] = ValueAt(request[w].expected)

\* A handler past its put has made the next revision.
Made ==
  \A w \in Writer : pc[w] \in {"audit", "undo"} => IsChangeOf(w, request[w].expected + 1)

\* The statements that took effect or still may.
Issued == late \cup {history[i] : i \in DOMAIN history}

\* No statement is of a request not yet sent, and none is of a request that has
\* not reached its put or was refused.
NoneAhead == \A s \in Issued : s.by[2] <= call[s.by[1]]
Refused(w) == pc[w] = "idle" /\ answer[w] \in {"conflict", "invalid"}
NoneEarly ==
  \A w \in Writer : pc[w] \in {"read", "put"} \/ Refused(w) =>
    \A s \in Issued : s.by # CurrentCall(w)

AnsweredChange ==
  \A w \in Writer : pc[w] = "idle" /\ answer[w] \in {"ok", "rolled_back", "unresolved"} =>
    IsChangeOf(w, request[w].expected + 1)
AnsweredUndo ==
  \A w \in Writer : pc[w] = "idle" /\ answer[w] = "rolled_back" =>
    IsUndoOf(w, request[w].expected + 2)

RowInv == TypeOK /\ EachBuildsOnTheLast /\ LateSound /\ Working
Inv == RowInv /\ Made /\ NoneAhead /\ NoneEarly /\ AnsweredChange /\ AnsweredUndo
       /\ AuditedChangesWereMade

\* What a step may do to the row.
Keeps ==
  \/ UNCHANGED <<row, history>>
  \/ \E s \in Statement : Sound(s) /\ Affected(s) /\ Store(s)

-----------------------------------------------------------------------------
(* What stays of the past *)

LEMMA ValueIsOverlay ==
  ASSUME history \in Seq(Statement), NEW i \in 0..Len(history)
  PROVE  ValueAt(i) \in Overlay
<1>1. Empty \in Overlay
  BY DEF Empty, Overlay
<1>2. CASE i = 0
  BY <1>1, <1>2 DEF ValueAt
<1>3. CASE i # 0
  <2>1. history[i] \in Statement
    BY <1>3
  <2> QED BY <1>3, <2>1 DEF ValueAt, Statement
<1> QED BY <1>2, <1>3

\* Revisions once made stay, and the row is again the last of them.
LEMMA Past ==
  ASSUME TypeOK, Keeps
  PROVE  /\ history' \in Seq(Statement)
         /\ Len(history) \in Nat
         /\ Len(history) <= Len(history')
         /\ \A i \in 1..Len(history) : history'[i] = history[i]
         /\ \A i \in 0..Len(history) : ValueAt(i)' = ValueAt(i)
         /\ row' = [revision |-> Len(history'), value |-> ValueAt(Len(history))']
<1>0. history \in Seq(Statement) /\ Len(history) \in Nat
  BY DEF TypeOK
<1>1. CASE UNCHANGED <<row, history>>
  BY <1>0, <1>1 DEF TypeOK, ValueAt
<1>2. ASSUME NEW s \in Statement, Affected(s), Store(s)
      PROVE  /\ history' \in Seq(Statement)
             /\ Len(history') = Len(history) + 1
             /\ \A i \in 1..Len(history) : history'[i] = history[i]
             /\ history'[Len(history')] = s
             /\ s.expected = Len(history)
             /\ row' = [revision |-> s.expected + 1, value |-> s.value]
  <2>1. history' = Append(history, s)
    BY <1>2 DEF Store
  <2>2. s.expected = Len(history)
    BY <1>2 DEF Affected, TypeOK
  <2> QED BY <1>0, <1>2, <2>1, <2>2 DEF Store
<1>3. ASSUME NEW s \in Statement, Affected(s), Store(s)
      PROVE  /\ history' \in Seq(Statement)
             /\ Len(history) <= Len(history')
             /\ \A i \in 1..Len(history) : history'[i] = history[i]
             /\ \A i \in 0..Len(history) : ValueAt(i)' = ValueAt(i)
             /\ row' = [revision |-> Len(history'), value |-> ValueAt(Len(history))']
  <2>1. \A i \in 0..Len(history) : ValueAt(i)' = ValueAt(i)
    BY <1>0, <1>2, <1>3 DEF ValueAt
  <2>2. ValueAt(Len(history))' = s.value
    BY <1>0, <1>2, <1>3 DEF ValueAt
  <2> QED BY <1>0, <1>2, <1>3, <2>1, <2>2
<1> QED BY <1>0, <1>1, <1>3 DEF Keeps

LEMMA SoundKept ==
  ASSUME TypeOK, Keeps, NEW s, Sound(s)
  PROVE  Sound(s)'
<1>1. history \in Seq(Statement) /\ s \in Statement /\ s.expected \in 0..Len(history)
  BY DEF TypeOK, Sound
<1>2. ValueAt(s.expected)' = ValueAt(s.expected) /\ s.expected \in 0..Len(history')
  BY <1>1, Past
<1>3. s.kind = "change" => SameButFor(s.key, s.value, ValueAt(s.expected)')
  BY <1>2 DEF Sound
<1>4. CASE s.kind = "undo"
  <2>1. /\ s.expected \in 1..Len(history)
        /\ history[s.expected].kind = "change"
        /\ history[s.expected].by = s.by
        /\ s.value = ValueAt(s.expected - 1)
    BY <1>1, <1>4 DEF Sound
  <2>2. /\ history'[s.expected] = history[s.expected]
        /\ ValueAt(s.expected - 1)' = ValueAt(s.expected - 1)
        /\ s.expected \in 1..Len(history')
    BY <1>1, <2>1, Past
  <2>3. DOMAIN history' = 1..Len(history')
    BY Past
  <2> QED BY <1>1, <1>2, <1>3, <2>1, <2>2, <2>3 DEF Sound, SameButFor
<1> QED BY <1>1, <1>2, <1>3, <1>4 DEF Sound, SameButFor

LEMMA IsChangeKept ==
  ASSUME TypeOK, Keeps, NEW w \in Writer, NEW i, IsChangeOf(w, i), UNCHANGED call[w]
  PROVE  IsChangeOf(w, i)'
BY Past DEF IsChangeOf, CurrentCall, TypeOK

LEMMA IsUndoKept ==
  ASSUME TypeOK, Keeps, NEW w \in Writer, NEW i, IsUndoOf(w, i), UNCHANGED call[w]
  PROVE  IsUndoOf(w, i)'
BY Past DEF IsUndoOf, CurrentCall, TypeOK

-----------------------------------------------------------------------------
(* Statements are sound *)

LEMMA ChangeSound ==
  ASSUME RowInv, NEW w \in Writer, pc[w] \in {"put", "audit", "undo"}
  PROVE  Sound(Change(w))
<1> DEFINE e == request[w].expected
           k == request[w].key
           v == [prior[w] EXCEPT ![k] = request[w].value]
<1>1. /\ prior[w] \in Overlay
      /\ k \in Key
      /\ request[w].value \in Value \cup {Unset}
      /\ e \in Nat
      /\ CurrentCall(w) \in Call
  BY DEF RowInv, TypeOK, Request, CurrentCall, Call
<1>2. e \in 0..Len(history) /\ prior[w] = ValueAt(e)
  BY DEF RowInv, Working
<1>3. v \in Overlay /\ SameButFor(k, v, prior[w])
  BY <1>1 DEF Overlay, SameButFor
<1>4. Change(w) = [expected |-> e, value |-> v, key |-> k, by |-> CurrentCall(w), kind |-> "change"]
  BY DEF Change
<1> HIDE DEF e, k, v
<1>5. Change(w) \in Statement
  BY <1>1, <1>3, <1>4 DEF Statement
<1> QED BY <1>2, <1>3, <1>4, <1>5 DEF Sound

LEMMA CompensationSound ==
  ASSUME RowInv, Made, NEW w \in Writer, pc[w] = "undo"
  PROVE  Sound(Compensation(w))
<1> DEFINE e == request[w].expected
<1>1. /\ prior[w] \in Overlay
      /\ request[w].key \in Key
      /\ e \in Nat
      /\ CurrentCall(w) \in Call
  BY DEF RowInv, TypeOK, Request, CurrentCall, Call
<1>2. e \in 0..Len(history) /\ prior[w] = ValueAt(e)
  BY DEF RowInv, Working
<1>3. IsChangeOf(w, e + 1)
  BY DEF Made
<1>4. Compensation(w) = [expected |-> e + 1, value |-> prior[w], key |-> request[w].key,
                         by |-> CurrentCall(w), kind |-> "undo"]
  BY DEF Compensation
<1> HIDE DEF e
<1>5. Compensation(w) \in Statement
  BY <1>1, <1>4 DEF Statement
<1>6. DOMAIN history = 1..Len(history)
  BY DEF RowInv, TypeOK
<1>7. e + 1 \in 0..Len(history) /\ (e + 1) - 1 = e
  BY <1>1, <1>3, <1>6 DEF IsChangeOf
<1> QED BY <1>2, <1>3, <1>4, <1>5, <1>7 DEF Sound, IsChangeOf

LEMMA NextKeeps ==
  ASSUME RowInv, Made, [Next]_vars
  PROVE  Keeps
<1>1. CASE UNCHANGED vars
  BY <1>1 DEF vars, Keeps
<1>2. ASSUME NEW w \in Writer, Send(w) \/ Read(w) \/ AuditAppend(w) \/ Abandon(w) PROVE Keeps
  BY <1>2 DEF Send, Read, AuditAppend, Abandon, Keeps
<1>3. ASSUME NEW w \in Writer, Put(w) PROVE Keeps
  <2>1. Sound(Change(w))
    BY <1>3, ChangeSound DEF Put
  <2> QED BY <1>3, <2>1 DEF Put, Keeps, Sound
<1>4. ASSUME NEW w \in Writer, Undo(w) PROVE Keeps
  <2>1. Sound(Compensation(w))
    BY <1>4, CompensationSound DEF Undo
  <2> QED BY <1>4, <2>1 DEF Undo, Keeps, Sound
<1>5. ASSUME NEW s \in late, Land(s) PROVE Keeps
  <2>1. Sound(s)
    BY DEF RowInv, LateSound
  <2> QED BY <1>5, <2>1 DEF Land, Keeps, Sound
<1> QED BY <1>1, <1>2, <1>3, <1>4, <1>5 DEF Next

\* A step adds to late only a sound statement of a client that stops there.
LEMMA LateSteps ==
  ASSUME RowInv, Made, [Next]_vars
  PROVE  \A s \in late' : Sound(s)
<1>0. \A s \in late : Sound(s)
  BY DEF RowInv, LateSound
<1>1. CASE UNCHANGED vars
  BY <1>0, <1>1 DEF vars
<1>2. ASSUME NEW w \in Writer, Send(w) \/ Read(w) \/ AuditAppend(w) PROVE UNCHANGED late
  BY <1>2 DEF Send, Read, AuditAppend
<1>3. ASSUME NEW w \in Writer, Put(w) \/ Undo(w) \/ Abandon(w)
      PROVE  \A s \in late' : Sound(s)
  <2>1. \/ late' = late
        \/ pc[w] = "put" /\ late' = late \cup {Change(w)}
        \/ pc[w] = "undo" /\ late' = late \cup {Compensation(w)}
    BY <1>3 DEF Put, Undo, Abandon, Unanswered
  <2> QED BY <1>0, <2>1, ChangeSound, CompensationSound
<1>4. ASSUME NEW s \in late, Land(s) PROVE late' \subseteq late
  BY <1>4 DEF Land
<1> QED BY <1>0, <1>1, <1>2, <1>3, <1>4 DEF Next

-----------------------------------------------------------------------------
(* RowInv is inductive, given Made *)

LEMMA NextTypeOK ==
  ASSUME RowInv, Made, [Next]_vars
  PROVE  TypeOK'
<1>0. TypeOK
  BY DEF RowInv
<1>1. /\ history' \in Seq(Statement)
      /\ row' = [revision |-> Len(history'), value |-> ValueAt(Len(history))']
  BY <1>0, NextKeeps, Past
<1>2. late' \subseteq Statement
  BY LateSteps DEF Sound
<1>3. ASSUME NEW w \in Writer PROVE CurrentCall(w) \in Call /\ request[w].expected + 1 \in Nat
  BY <1>0 DEF TypeOK, Request, CurrentCall, Call
<1>4. audited' \subseteq Call \X Nat
  <2>1. ASSUME NEW w \in Writer, AuditAppend(w) \/ Abandon(w) PROVE audited' \subseteq Call \X Nat
    <3>1. audited' = audited \/ audited' = audited \cup {Event(w)}
      BY <2>1 DEF AuditAppend, Abandon
    <3>2. Event(w) \in Call \X Nat
      BY <1>3 DEF Event
    <3>3. audited \subseteq Call \X Nat
      BY <1>0 DEF TypeOK
    <3> QED BY <3>1, <3>2, <3>3
  <2> QED BY <1>0, <2>1 DEF Next, vars, Send, Read, Put, Undo, Land, TypeOK
<1> DEFINE Steps == {"idle", "read", "put", "audit", "undo"}
           Answers == {"none", "ok", "conflict", "invalid", "error", "rolled_back", "unresolved"}
<1>5. pc' \in [Writer -> Steps] /\ answer' \in [Writer -> Answers]
  <2>0. pc \in [Writer -> Steps] /\ answer \in [Writer -> Answers]
    BY <1>0 DEF TypeOK
  <2>1. ASSUME NEW w \in Writer,
               \E p \in Steps, a \in Answers :
                 pc' = [pc EXCEPT ![w] = p] /\ answer' \in {answer, [answer EXCEPT ![w] = a]}
        PROVE  pc' \in [Writer -> Steps] /\ answer' \in [Writer -> Answers]
    BY <2>0, <2>1
  <2>2. ASSUME NEW w \in Writer, Send(w) PROVE pc' \in [Writer -> Steps] /\ answer' \in [Writer -> Answers]
    BY <2>1, <2>2 DEF Send
  <2>3. ASSUME NEW w \in Writer, Read(w) PROVE pc' \in [Writer -> Steps] /\ answer' \in [Writer -> Answers]
    BY <2>1, <2>3 DEF Read, Reply, Goto
  <2>4. ASSUME NEW w \in Writer, Put(w) PROVE pc' \in [Writer -> Steps] /\ answer' \in [Writer -> Answers]
    BY <2>1, <2>4 DEF Put, PutConflict, Reply, Goto
  <2>5. ASSUME NEW w \in Writer, AuditAppend(w)
        PROVE pc' \in [Writer -> Steps] /\ answer' \in [Writer -> Answers]
    BY <2>1, <2>5 DEF AuditAppend, Reply, Goto
  <2>6. ASSUME NEW w \in Writer, Undo(w) PROVE pc' \in [Writer -> Steps] /\ answer' \in [Writer -> Answers]
    BY <2>1, <2>6 DEF Undo, UndoConflict, Reply, Goto
  <2>7. ASSUME NEW w \in Writer, Abandon(w)
        PROVE pc' \in [Writer -> Steps] /\ answer' \in [Writer -> Answers]
    BY <2>1, <2>7 DEF Abandon, Goto, Reply
  <2> QED BY <2>0, <2>2, <2>3, <2>4, <2>5, <2>6, <2>7 DEF Next, vars, Land
<1>6. /\ call' \in [Writer -> 0..MaxCalls]
      /\ request' \in [Writer -> Request]
  <2>1. ASSUME NEW w \in Writer, Send(w)
        PROVE  /\ call' \in [Writer -> 0..MaxCalls]
               /\ request' \in [Writer -> Request]
    <3>1. call[w] + 1 \in 0..MaxCalls
      BY <1>0, <2>1, MaxCallsAssumption DEF Send, TypeOK
    <3>2. PICK e \in 0..row.revision, k \in Key, v \in Value \cup {Unset} :
            request' = [request EXCEPT ![w] = [expected |-> e, key |-> k, value |-> v]]
      BY <2>1 DEF Send
    <3>3. e \in Nat
      BY <1>0 DEF TypeOK
    <3>4. [expected |-> e, key |-> k, value |-> v] \in Request
      BY <3>3 DEF Request
    <3> QED BY <1>0, <2>1, <3>1, <3>2, <3>4 DEF Send, TypeOK
  <2> QED BY <1>0, <2>1 DEF Next, vars, Read, Put, AuditAppend, Undo, Abandon, Land, TypeOK
<1>7. prior' \in [Writer -> Overlay]
  <2>1. row.value \in Overlay
    BY <1>0, ValueIsOverlay DEF TypeOK
  <2>2. ASSUME NEW w \in Writer, Read(w) PROVE prior' \in [Writer -> Overlay]
    BY <1>0, <2>1, <2>2 DEF Read, TypeOK
  <2> QED BY <1>0, <2>2 DEF Next, vars, Send, Put, AuditAppend, Undo, Abandon, Land, TypeOK
<1> QED BY <1>1, <1>2, <1>4, <1>5, <1>6, <1>7 DEF TypeOK

LEMMA NextWorking ==
  ASSUME RowInv, Made, [Next]_vars
  PROVE  Working'
<1>1. /\ TypeOK
      /\ Len(history) \in Nat
      /\ Len(history') \in Nat
      /\ Len(history) <= Len(history')
      /\ \A i \in 0..Len(history) : ValueAt(i)' = ValueAt(i)
  BY NextKeeps, Past DEF RowInv
<1> SUFFICES ASSUME NEW w \in Writer, pc'[w] \in {"put", "audit", "undo"}
             PROVE  (/\ request[w].expected \in 0..Len(history)
                     /\ prior[w] = ValueAt(request[w].expected))'
  BY DEF Working
<1>2. \/ /\ pc[w] \in {"put", "audit", "undo"}
         /\ request'[w] = request[w]
         /\ prior'[w] = prior[w]
      \/ /\ request'[w] = request[w]
         /\ request[w].expected = row.revision
         /\ prior'[w] = row.value
  BY <1>1 DEF TypeOK, Next, vars, Send, Read, Put, PutConflict, AuditAppend, Undo,
              UndoConflict, Abandon, Land, Reply, Goto
<1>3. /\ request'[w] = request[w]
      /\ request[w].expected \in 0..Len(history)
      /\ prior'[w] = ValueAt(request[w].expected)
  BY <1>1, <1>2 DEF RowInv, Working, TypeOK
<1> QED BY <1>1, <1>3 DEF ValueAt

LEMMA NextBuilds ==
  ASSUME RowInv, Made, [Next]_vars
  PROVE  EachBuildsOnTheLast'
<1>0. TypeOK /\ Keeps /\ Len(history) \in Nat /\ DOMAIN history = 1..Len(history)
  BY NextKeeps DEF RowInv, TypeOK
<1>1. CASE UNCHANGED <<row, history>>
  BY <1>1 DEF RowInv, EachBuildsOnTheLast, ValueAt
<1>2. ASSUME NEW s \in Statement, Sound(s), Affected(s), Store(s)
      PROVE  EachBuildsOnTheLast'
  <2>1. /\ history' = Append(history, s)
        /\ s.expected = Len(history)
    BY <1>0, <1>2 DEF Store, Affected, TypeOK
  <2>2. /\ Len(history') = Len(history) + 1
        /\ DOMAIN history' = 1..(Len(history) + 1)
        /\ \A i \in 1..Len(history) : history'[i] = history[i]
        /\ history'[Len(history) + 1] = s
        /\ \A i \in 0..Len(history) : ValueAt(i)' = ValueAt(i)
    BY <1>0, <2>1, Past DEF TypeOK
  <2> SUFFICES ASSUME NEW i \in 1..(Len(history) + 1)
               PROVE  IF history'[i].kind = "change"
                      THEN SameButFor(history'[i].key, history'[i].value, ValueAt(i - 1)')
                      ELSE /\ i - 1 \in DOMAIN history'
                           /\ history'[i - 1].kind = "change"
                           /\ history'[i - 1].by = history'[i].by
                           /\ history'[i].value = ValueAt(i - 2)'
    BY <2>2 DEF EachBuildsOnTheLast, SameButFor
  <2>3. CASE i \in 1..Len(history)
    <3>1. /\ history'[i] = history[i]
          /\ ValueAt(i - 1)' = ValueAt(i - 1)
      BY <1>0, <2>2, <2>3
    <3>2. CASE history[i].kind = "change"
      BY <1>0, <2>3, <3>1, <3>2 DEF RowInv, EachBuildsOnTheLast
    <3>3. CASE history[i].kind # "change"
      <4>1. /\ i - 1 \in 1..Len(history)
            /\ history[i - 1].kind = "change"
            /\ history[i - 1].by = history[i].by
            /\ history[i].value = ValueAt(i - 2)
        BY <1>0, <2>3, <3>3 DEF RowInv, EachBuildsOnTheLast
      <4>2. /\ i - 1 \in 1..(Len(history) + 1)
            /\ i - 2 \in 0..Len(history)
        BY <1>0, <4>1
      <4> QED BY <2>2, <3>1, <3>3, <4>1, <4>2
    <3> QED BY <3>2, <3>3
  <2>4. CASE i = Len(history) + 1
    <3>1. history'[i] = s /\ i - 1 = s.expected /\ i - 1 \in 0..Len(history)
      BY <1>0, <2>1, <2>2, <2>4
    <3>2. CASE s.kind = "change"
      BY <1>2, <2>2, <3>1, <3>2 DEF Sound
    <3>3. CASE s.kind = "undo"
      <4>1. /\ i - 1 \in 1..Len(history)
            /\ history[i - 1].kind = "change"
            /\ history[i - 1].by = s.by
            /\ s.value = ValueAt((i - 1) - 1)
        BY <1>0, <1>2, <3>1, <3>3 DEF Sound
      <4>2. /\ i - 1 \in 1..(Len(history) + 1)
            /\ i - 2 \in 0..Len(history)
            /\ (i - 1) - 1 = i - 2
        BY <1>0, <4>1
      <4> QED BY <2>2, <3>1, <3>3, <4>1, <4>2
    <3> QED BY <1>2, <3>2, <3>3 DEF Statement
  <2> QED BY <1>0, <2>3, <2>4
<1> QED BY <1>0, <1>1, <1>2 DEF Keeps

LEMMA NextRowInv ==
  ASSUME RowInv, Made, [Next]_vars
  PROVE  RowInv'
<1>1. LateSound'
  <2>1. \A s \in late' : Sound(s)'
    BY LateSteps, NextKeeps, SoundKept DEF RowInv
  <2> QED BY <2>1 DEF LateSound
<1> QED BY <1>1, NextTypeOK, NextWorking, NextBuilds DEF RowInv

-----------------------------------------------------------------------------
(* The handlers' and the answers' part *)

\* A put or compensation that takes effect is the next revision.
LEMMA Recorded ==
  ASSUME TypeOK, NEW s \in Statement, Affected(s), Store(s)
  PROVE  /\ s.expected + 1 \in DOMAIN history'
         /\ history'[s.expected + 1] = s
BY DEF TypeOK, Affected, Store

LEMMA NextMade ==
  ASSUME RowInv, Made, [Next]_vars
  PROVE  Made'
<1>0. TypeOK /\ Keeps
  BY NextKeeps DEF RowInv
<1> SUFFICES ASSUME NEW w \in Writer, pc'[w] \in {"audit", "undo"}
             PROVE  IsChangeOf(w, request[w].expected + 1)'
  BY DEF Made
<1>1. CASE pc[w] \in {"audit", "undo"}
  <2>1. request'[w] = request[w] /\ call'[w] = call[w]
    BY <1>0, <1>1 DEF TypeOK, Next, vars, Send, Read, Put, AuditAppend, Undo, Abandon, Land
  <2>2. PICK i : i = request[w].expected + 1 /\ IsChangeOf(w, i)
    BY <1>1 DEF Made
  <2>3. IsChangeOf(w, i)'
    BY <1>0, <2>1, <2>2, IsChangeKept
  <2> QED BY <2>1, <2>2, <2>3 DEF IsChangeOf, CurrentCall
<1>2. CASE pc[w] \notin {"audit", "undo"}
  <2>1. Put(w) /\ Affected(Change(w)) /\ Store(Change(w))
    BY <1>0, <1>2 DEF TypeOK, Next, vars, Send, Read, Put, PutConflict, AuditAppend, Undo,
                      UndoConflict, Abandon, Land, Reply, Goto
  <2>2. Change(w) \in Statement
    BY <2>1, ChangeSound DEF Put, Sound
  <2>3. request' = request /\ call' = call
    BY <2>1 DEF Put
  <2>4. /\ request[w].expected + 1 \in DOMAIN history'
        /\ history'[request[w].expected + 1] = Change(w)
    BY <1>0, <2>1, <2>2, Recorded DEF Change
  <2> QED BY <2>3, <2>4 DEF IsChangeOf, CurrentCall, Change
<1> QED BY <1>1, <1>2

LEMMA NextAnsweredChange ==
  ASSUME RowInv, Made, AnsweredChange, [Next]_vars
  PROVE  AnsweredChange'
<1>0. TypeOK /\ Keeps
  BY NextKeeps DEF RowInv
<1> SUFFICES ASSUME NEW w \in Writer, pc'[w] = "idle",
                    answer'[w] \in {"ok", "rolled_back", "unresolved"}
             PROVE  IsChangeOf(w, request[w].expected + 1)'
  BY DEF AnsweredChange
<1>1. /\ request'[w] = request[w]
      /\ call'[w] = call[w]
      /\ \/ pc[w] \in {"audit", "undo"}
         \/ pc[w] = "idle" /\ answer[w] \in {"ok", "rolled_back", "unresolved"}
  BY <1>0 DEF TypeOK, Next, vars, Send, Read, Put, PutConflict, AuditAppend, Undo,
              UndoConflict, Abandon, Land, Reply, Goto
<1>2. PICK i : i = request[w].expected + 1 /\ IsChangeOf(w, i)
  BY <1>1 DEF Made, AnsweredChange
<1>3. IsChangeOf(w, i)'
  BY <1>0, <1>1, <1>2, IsChangeKept
<1> QED BY <1>1, <1>2, <1>3 DEF IsChangeOf, CurrentCall

LEMMA NextAnsweredUndo ==
  ASSUME RowInv, Made, AnsweredUndo, [Next]_vars
  PROVE  AnsweredUndo'
<1>0. TypeOK /\ Keeps
  BY NextKeeps DEF RowInv
<1> SUFFICES ASSUME NEW w \in Writer, pc'[w] = "idle", answer'[w] = "rolled_back"
             PROVE  IsUndoOf(w, request[w].expected + 2)'
  BY DEF AnsweredUndo
<1>1. /\ request'[w] = request[w]
      /\ call'[w] = call[w]
      /\ \/ Undo(w) /\ Affected(Compensation(w)) /\ Store(Compensation(w))
         \/ pc[w] = "idle" /\ answer[w] = "rolled_back"
  BY <1>0 DEF TypeOK, Next, vars, Send, Read, Put, PutConflict, AuditAppend, Undo,
              UndoConflict, Abandon, Land, Reply, Goto
<1>2. CASE pc[w] = "idle" /\ answer[w] = "rolled_back"
  <2>1. PICK i : i = request[w].expected + 2 /\ IsUndoOf(w, i)
    BY <1>2 DEF AnsweredUndo
  <2>2. IsUndoOf(w, i)'
    BY <1>0, <1>1, <2>1, IsUndoKept
  <2> QED BY <1>1, <2>1, <2>2 DEF IsUndoOf, CurrentCall
<1>3. CASE Undo(w) /\ Affected(Compensation(w)) /\ Store(Compensation(w))
  <2>1. Compensation(w) \in Statement
    BY <1>3, CompensationSound DEF Undo, Sound
  <2>2. request[w].expected \in Nat
    BY <1>0 DEF TypeOK, Request
  <2>3. /\ request[w].expected + 2 \in DOMAIN history'
        /\ history'[request[w].expected + 2] = Compensation(w)
    <3>1. Compensation(w).expected + 1 = request[w].expected + 2
      BY <2>2 DEF Compensation
    <3> QED BY <1>0, <1>3, <2>1, <3>1, Recorded
  <2> QED BY <1>1, <2>3 DEF IsUndoOf, CurrentCall, Compensation
<1> QED BY <1>1, <1>2, <1>3

LEMMA NextAudited ==
  ASSUME RowInv, Made, AuditedChangesWereMade, [Next]_vars
  PROVE  AuditedChangesWereMade'
<1>0. TypeOK /\ Keeps /\ DOMAIN history = 1..Len(history) /\ Len(history) \in Nat
  BY NextKeeps DEF RowInv, TypeOK
<1>1. \A e \in audited' :
        /\ e[2] \in DOMAIN history
        /\ history[e[2]].by = e[1]
        /\ history[e[2]].kind = "change"
  <2>1. ASSUME NEW w \in Writer, pc[w] = "audit"
        PROVE  LET e == Event(w) IN
               /\ e[2] \in DOMAIN history
               /\ history[e[2]].by = e[1]
               /\ history[e[2]].kind = "change"
    BY <2>1 DEF Made, IsChangeOf, Event
  <2>2. \/ audited' = audited
        \/ \E w \in Writer : pc[w] = "audit" /\ audited' = audited \cup {Event(w)}
    BY DEF Next, vars, Send, Read, Put, AuditAppend, Undo, Abandon, Land
  <2> QED BY <2>1, <2>2 DEF AuditedChangesWereMade
<1>2. \A i \in DOMAIN history : i \in DOMAIN history' /\ history'[i] = history[i]
  BY <1>0, Past
<1> QED BY <1>1, <1>2 DEF AuditedChangesWereMade

-----------------------------------------------------------------------------
(* A refused request leaves nothing *)

\* A step issues nothing but the statement of a handler that then waits for the
\* audit log or stops without a refusal.
LEMMA IssuedSteps ==
  ASSUME RowInv, [Next]_vars
  PROVE  \/ Issued' \subseteq Issued
         \/ \E w \in Writer :
              /\ pc[w] \in {"put", "undo"}
              /\ pc'[w] \notin {"read", "put"} /\ ~Refused(w)'
              /\ UNCHANGED call
              /\ \A s \in Issued' : s \in Issued \/ s.by = CurrentCall(w)
<1>0. TypeOK /\ history \in Seq(Statement)
  BY DEF RowInv, TypeOK
<1>1. ASSUME NEW s, history' = Append(history, s)
      PROVE  {history'[i] : i \in DOMAIN history'} = {history[i] : i \in DOMAIN history} \cup {s}
  BY <1>0, <1>1
<1>2. ASSUME UNCHANGED <<late, history>> PROVE Issued' \subseteq Issued
  BY <1>2 DEF Issued
<1>3. ASSUME NEW w \in Writer, Put(w)
      PROVE  \/ Issued' \subseteq Issued
             \/ /\ pc[w] \in {"put", "undo"}
                /\ pc'[w] \notin {"read", "put"} /\ ~Refused(w)'
                /\ UNCHANGED call
                /\ \A s \in Issued' : s \in Issued \/ s.by = CurrentCall(w)
  <2>1. Change(w).by = CurrentCall(w)
    BY DEF Change
  <2>2. CASE Store(Change(w)) /\ Goto(w, "audit") /\ UNCHANGED late
    BY <1>0, <1>1, <1>3, <2>1, <2>2 DEF Put, Store, Goto, Issued, Refused, TypeOK
  <2>3. CASE UNCHANGED <<late, history>>
    BY <1>2, <2>3
  <2>4. CASE late' = late \cup {Change(w)} /\ Reply(w, "error") /\ UNCHANGED history
    BY <1>0, <1>3, <2>1, <2>4 DEF Put, Reply, Issued, Refused, TypeOK
  <2> QED BY <1>3, <2>2, <2>3, <2>4 DEF Put, Unanswered
<1>4. ASSUME NEW w \in Writer, Undo(w)
      PROVE  \/ Issued' \subseteq Issued
             \/ /\ pc[w] \in {"put", "undo"}
                /\ pc'[w] \notin {"read", "put"} /\ ~Refused(w)'
                /\ UNCHANGED call
                /\ \A s \in Issued' : s \in Issued \/ s.by = CurrentCall(w)
  <2>1. Compensation(w).by = CurrentCall(w)
    BY DEF Compensation
  <2>2. CASE Store(Compensation(w)) /\ Reply(w, "rolled_back") /\ UNCHANGED late
    BY <1>0, <1>1, <1>4, <2>1, <2>2 DEF Undo, Store, Reply, Issued, Refused, TypeOK
  <2>3. CASE UNCHANGED <<late, history>>
    BY <1>2, <2>3
  <2>4. CASE late' = late \cup {Compensation(w)} /\ Reply(w, "unresolved") /\ UNCHANGED history
    BY <1>0, <1>4, <2>1, <2>4 DEF Undo, Reply, Issued, Refused, TypeOK
  <2> QED BY <1>4, <2>2, <2>3, <2>4 DEF Undo, Unanswered
<1>5. ASSUME NEW w \in Writer, Abandon(w)
      PROVE  \/ Issued' \subseteq Issued
             \/ /\ pc[w] \in {"put", "undo"}
                /\ pc'[w] \notin {"read", "put"} /\ ~Refused(w)'
                /\ UNCHANGED call
                /\ \A s \in Issued' : s \in Issued \/ s.by = CurrentCall(w)
  <2>1. Change(w).by = CurrentCall(w) /\ Compensation(w).by = CurrentCall(w)
    BY DEF Change, Compensation
  <2>2. CASE UNCHANGED late
    BY <1>2, <1>5, <2>2 DEF Abandon
  <2>3. CASE /\ pc[w] \in {"put", "undo"}
             /\ late' \in {late \cup {Change(w)}, late \cup {Compensation(w)}}
    BY <1>0, <1>5, <2>1, <2>3 DEF Abandon, Reply, Issued, Refused, TypeOK
  <2> QED BY <1>5, <2>2, <2>3 DEF Abandon, Unanswered
<1>6. ASSUME NEW s \in late, Land(s) PROVE Issued' \subseteq Issued
  <2>1. CASE Store(s)
    BY <1>1, <1>6, <2>1 DEF Land, Store, Issued
  <2>2. CASE UNCHANGED history
    BY <1>6, <2>2 DEF Land, Issued
  <2> QED BY <1>6, <2>1, <2>2 DEF Land
<1>7. ASSUME NEW w \in Writer, Send(w) \/ Read(w) \/ AuditAppend(w)
      PROVE  UNCHANGED <<late, history>>
  BY <1>7 DEF Send, Read, AuditAppend
<1> QED BY <1>2, <1>3, <1>4, <1>5, <1>6, <1>7 DEF Next, vars

LEMMA IssuedAreStatements == RowInv => Issued \subseteq Statement
BY DEF RowInv, TypeOK, Issued

LEMMA CallsGrow ==
  ASSUME TypeOK, [Next]_vars
  PROVE  \A w \in Writer : /\ call[w] \in Nat /\ call'[w] \in Nat
                           /\ call'[w] = call[w] \/ (Send(w) /\ call'[w] = call[w] + 1)
BY MaxCallsAssumption DEF TypeOK, Next, vars, Send, Read, Put, AuditAppend, Undo, Abandon, Land

LEMMA NextNoneAhead ==
  ASSUME RowInv, NoneAhead, [Next]_vars
  PROVE  NoneAhead'
<1>0. TypeOK
  BY DEF RowInv
<1>1. ASSUME NEW s \in Issued PROVE s.by[2] <= call'[s.by[1]]
  <2>1. s.by[1] \in Writer /\ s.by[2] \in Nat /\ s.by[2] <= call[s.by[1]]
    BY <1>1, IssuedAreStatements, MaxCallsAssumption DEF NoneAhead, Statement, Call
  <2>2. call[s.by[1]] \in Nat /\ call'[s.by[1]] \in Nat /\ call[s.by[1]] <= call'[s.by[1]]
    BY <1>0, <2>1, CallsGrow
  <2> QED BY <2>1, <2>2
<1>2. ASSUME NEW w \in Writer, NEW s, s.by = CurrentCall(w), UNCHANGED call
      PROVE  s.by[2] <= call'[s.by[1]]
  <2>1. call[w] \in Nat
    BY <1>0, CallsGrow
  <2> QED BY <1>2, <2>1 DEF CurrentCall
<1>3. \A s \in Issued' : s.by[2] <= call'[s.by[1]]
  BY <1>1, <1>2, IssuedSteps
<1> QED BY <1>3 DEF NoneAhead

LEMMA NextNoneEarly ==
  ASSUME RowInv, NoneAhead, NoneEarly, [Next]_vars
  PROVE  NoneEarly'
<1>0. TypeOK
  BY DEF RowInv
<1> SUFFICES ASSUME NEW w \in Writer, pc'[w] \in {"read", "put"} \/ Refused(w)'
             PROVE  \A s \in Issued' : s.by # CurrentCall(w)'
  BY DEF NoneEarly
<1>1. CASE Send(w)
  <2>1. Issued' = Issued /\ call'[w] = call[w] + 1 /\ call[w] \in Nat
    BY <1>0, <1>1, CallsGrow DEF Send, Issued, TypeOK
  <2>2. ASSUME NEW s \in Issued, s.by = <<w, call[w] + 1>> PROVE FALSE
    <3>1. call[w] + 1 <= call[w]
      BY <2>2 DEF NoneAhead
    <3> QED BY <2>1, <3>1
  <2> QED BY <2>1, <2>2 DEF CurrentCall
<1>2. CASE ~Send(w)
  <2>1. CurrentCall(w)' = CurrentCall(w)
    BY <1>0, <1>2, CallsGrow DEF CurrentCall
  <2>2. pc[w] \in {"read", "put"} \/ Refused(w)
    BY <1>0, <1>2 DEF TypeOK, Next, vars, Send, Read, Put, PutConflict, AuditAppend, Undo,
                      UndoConflict, Abandon, Land, Reply, Goto, Refused
  <2>3. \A s \in Issued : s.by # CurrentCall(w)
    BY <2>2 DEF NoneEarly
  <2>4. ASSUME NEW v \in Writer, v # w PROVE CurrentCall(v) # CurrentCall(w)
    BY <2>4 DEF CurrentCall
  <2> QED BY <2>1, <2>3, <2>4, IssuedSteps
<1> QED BY <1>1, <1>2

-----------------------------------------------------------------------------
(* Theorems *)

LEMMA InitInv == Init => Inv
<1> SUFFICES ASSUME Init PROVE Inv
  OBVIOUS
<1>1. Empty \in Overlay
  BY DEF Empty, Overlay
<1>2. TypeOK
  BY <1>1, MaxCallsAssumption DEF Init, TypeOK, ValueAt, Request
<1>3. EachBuildsOnTheLast /\ LateSound /\ Working
  BY DEF Init, EachBuildsOnTheLast, LateSound, Working
<1>4. Issued = {}
  BY DEF Init, Issued
<1> QED BY <1>2, <1>3, <1>4 DEF Init, Inv, RowInv, Made, NoneAhead, NoneEarly, AnsweredChange,
                                AnsweredUndo, AuditedChangesWereMade

LEMMA NextInv == Inv /\ [Next]_vars => Inv'
BY NextRowInv, NextMade, NextNoneAhead, NextNoneEarly, NextAnsweredChange,
   NextAnsweredUndo, NextAudited DEF Inv

LEMMA InvHolds == Spec => []Inv
BY InitInv, NextInv, PTL DEF Spec

\* The types hold, and the settings row is always the last put that took effect,
\* revisions without gap: put_settings_document.
THEOREM TypeCorrect == Spec => []TypeOK
<1>1. Inv => TypeOK
  BY DEF Inv, RowInv
<1> QED BY <1>1, InvHolds, PTL

\* However many clients mutate at once, and whenever their statements reach the
\* store, each revision changes one key of the last or takes back exactly it.
THEOREM EachBuildsOnTheLastHolds == Spec => []EachBuildsOnTheLast
<1>1. Inv => EachBuildsOnTheLast
  BY DEF Inv, RowInv
<1> QED BY <1>1, InvHolds, PTL

\* mutate's answers say what became of the request.
THEOREM AnswersAreTrueHolds == Spec => []AnswersAreTrue
<1>1. Inv => AnswersAreTrue
  BY DEF Inv, AnsweredChange, AnsweredUndo, NoneEarly, Refused, Issued, AnswersAreTrue
<1> QED BY <1>1, InvHolds, PTL

\* A settings.changed event names the request that made its revision.
THEOREM AuditedChangesWereMadeHolds == Spec => []AuditedChangesWereMade
<1>1. Inv => AuditedChangesWereMade
  BY DEF Inv
<1> QED BY <1>1, InvHolds, PTL

-----------------------------------------------------------------------------
(* The budget gate of a dispatch.                                          *)
(*                                                                         *)
(* The gate reads the day's spend and the week's spend in two queries.  It *)
(* cannot miss a cap that was met when the dispatch took its stamp: spends *)
(* only grow, so the cap is still met in the row read later, or was seen   *)
(* in the row read earlier.                                                *)

Asking == [at : {"idle", "daily", "weekly", "report", "reportWeek", "gate", "create"},
           now : Nat, daily : Nat, weekly : Nat, met : BOOLEAN]

\* A dispatch that began past a cap will find one reached.
WillBeDenied(q) ==
  q.met =>
    \/ q.at = "daily" /\ (Reached(daily[q.now], DailyCap) \/ Reached(weekly[WeekKey(q.now)], WeeklyCap))
    \/ q.at = "weekly" /\ (Reached(q.daily, DailyCap) \/ Reached(weekly[WeekKey(q.now)], WeeklyCap))

AskerOK(q) ==
  /\ q \in Asking
  /\ q.at \in {"daily", "weekly", "report", "reportWeek"} => q.now \in CostDay
  /\ WillBeDenied(q)

SpendOK == today \in CostDay /\ daily \in [CostDay -> Nat] /\ weekly \in [CostWeek -> Nat]
AskersOK == asker = [a \in Asker |-> asker[a]] /\ \A a \in Asker : AskerOK(asker[a])
ReportersOK ==
  /\ reporter = [r \in Reporter |-> reporter[r]]
  /\ \A r \in Reporter : reporter[r].at = "record" => reporter[r].cost \in Nat

CostInv == SpendOK /\ AskersOK /\ ReportersOK

\* Spends only grow while a dispatch decides.
SpendGrows ==
  /\ \A d \in CostDay : daily'[d] >= daily[d]
  /\ \A w \in CostWeek : weekly'[w] >= weekly[w]

LEMMA WeekOfDay == \A d \in CostDay : WeekKey(d) \in CostWeek
BY DEF CostWeek

\* A cap that is reached stays reached.
LEMMA ReachedStays ==
  ASSUME NEW before \in Nat, NEW after \in Nat, after >= before, NEW cap,
         cap # NoCap => cap \in Nat, Reached(before, cap)
  PROVE  Reached(after, cap)
BY DEF Reached

\* A step that leaves the askers alone and lowers no spend keeps them sound.
LEMMA AskersStay ==
  ASSUME CostInv, SpendOK', SpendGrows, UNCHANGED asker
  PROVE  AskersOK'
<1>1. ASSUME NEW a \in Asker PROVE AskerOK(asker[a])'
  <2> DEFINE q == asker[a]
  <2>1. AskerOK(q)
    BY DEF CostInv, AskersOK
  <2>2. ASSUME NEW d \in CostDay
        PROVE  /\ Reached(daily[d], DailyCap) => Reached(daily'[d], DailyCap)
               /\ Reached(weekly[WeekKey(d)], WeeklyCap) => Reached(weekly'[WeekKey(d)], WeeklyCap)
    <3>1. /\ daily[d] \in Nat /\ daily'[d] \in Nat /\ daily'[d] >= daily[d]
          /\ weekly[WeekKey(d)] \in Nat /\ weekly'[WeekKey(d)] \in Nat
          /\ weekly'[WeekKey(d)] >= weekly[WeekKey(d)]
      BY WeekOfDay DEF CostInv, SpendOK, SpendGrows
    <3> QED BY <3>1, ReachedStays, CostAssumption
  <2>3. q' = q
    OBVIOUS
  <2> HIDE DEF q
  <2>4. WillBeDenied(q)'
    BY <2>1, <2>2, <2>3 DEF AskerOK, WillBeDenied
  <2>5. AskerOK(q)'
    BY <2>1, <2>3, <2>4 DEF AskerOK, Asking
  <2> QED BY <2>5 DEF q
<1> QED BY <1>1 DEF CostInv, AskersOK

\* One asker moving to a sound record keeps the invariant.
LEMMA AskerMoved ==
  ASSUME CostInv, NEW a \in Asker, NEW q, AskerOK(q), Ask(a, q)
  PROVE  CostInv'
<1>1. AskersOK'
  <2>1. asker' = [asker EXCEPT ![a] = q] /\ UNCHANGED <<daily, weekly>>
    BY DEF Ask
  <2>2. asker' = [b \in Asker |-> asker'[b]]
    BY <2>1 DEF CostInv, AskersOK
  <2>3. ASSUME NEW b \in Asker PROVE AskerOK(asker[b])'
    <3>1. asker'[b] = asker[b] \/ asker'[b] = q
      BY <2>1 DEF CostInv, AskersOK
    <3>2. AskerOK(asker[b])
      BY DEF CostInv, AskersOK
    <3> QED BY <2>1, <3>1, <3>2 DEF AskerOK, WillBeDenied
  <2> QED BY <2>2, <2>3 DEF AskersOK
<1> QED BY <1>1 DEF CostInv, SpendOK, ReportersOK, Ask

LEMMA NotAskingOK == AskerOK(NotAsking)
BY DEF AskerOK, Asking, WillBeDenied, NotAsking

\* A dispatch begins.
LEMMA BeginDispatchStep ==
  ASSUME CostInv, NEW a \in Asker, BeginDispatch(a)
  PROVE  CostInv'
<1> DEFINE at == IF HasCostCaps THEN "daily" ELSE "gate"
           met == CapMet
           q == [NotAsking EXCEPT !.now = today, !.at = at, !.met = met]
<1>1. Ask(a, q)
  BY DEF BeginDispatch
<1>2. at \in {"daily", "gate"} /\ today \in CostDay /\ today \in Nat /\ met \in BOOLEAN
  BY CostAssumption DEF CostInv, SpendOK, CapMet
<1>3. met => /\ at = "daily"
             /\ Reached(daily[today], DailyCap) \/ Reached(weekly[WeekKey(today)], WeeklyCap)
  BY DEF CapMet, DayKey, Reached, HasCostCaps
<1> HIDE DEF at, met
<1>4. q \in Asking
  BY <1>2 DEF NotAsking, Asking
<1>5. q.at = at /\ q.now = today /\ q.met = met
  BY DEF NotAsking
<1> HIDE DEF q
<1>6. AskerOK(q)
  BY <1>2, <1>3, <1>4, <1>5 DEF AskerOK, WillBeDenied
<1> QED BY <1>1, <1>6, AskerMoved

LEMMA BeginReportStep ==
  ASSUME CostInv, NEW a \in Asker, BeginReport(a)
  PROVE  CostInv'
<1> DEFINE q == [NotAsking EXCEPT !.now = today, !.at = "report"]
<1>1. Ask(a, q)
  BY DEF BeginReport
<1>2. today \in CostDay /\ today \in Nat
  BY CostAssumption DEF CostInv, SpendOK
<1>3. q \in Asking
  BY <1>2 DEF NotAsking, Asking
<1>4. q.now = today /\ q.met = FALSE
  BY DEF NotAsking
<1> HIDE DEF q
<1>5. AskerOK(q)
  BY <1>2, <1>3, <1>4 DEF AskerOK, WillBeDenied
<1> QED BY <1>1, <1>5, AskerMoved

\* The day's spend is read: a cap of the day met is in what was read.
LEMMA ReadDailyStep ==
  ASSUME CostInv, NEW a \in Asker, ReadDaily(a)
  PROVE  CostInv'
<1> DEFINE o == asker[a]
           at == IF o.at = "daily" THEN "weekly" ELSE "reportWeek"
           spent == daily[DayKey(o.now)]
           q == [o EXCEPT !.daily = spent, !.at = at]
<1>1. AskerOK(o) /\ o.at \in {"daily", "report"} /\ o \in Asking
  BY DEF CostInv, AskersOK, ReadDaily, AskerOK
<1>2. Ask(a, q)
  BY DEF ReadDaily
<1>3. o.now \in CostDay /\ spent \in Nat /\ spent = daily[o.now]
  BY <1>1 DEF AskerOK, CostInv, SpendOK, DayKey
<1>4. at \in {"weekly", "reportWeek"} /\ (at = "weekly" <=> o.at = "daily")
  OBVIOUS
<1> HIDE DEF o, at, spent
<1>5. q \in Asking
  BY <1>1, <1>3, <1>4 DEF Asking
<1>6. q.at = at /\ q.now = o.now /\ q.met = o.met /\ q.daily = spent
  BY <1>1 DEF Asking
<1> HIDE DEF q
<1>7. WillBeDenied(q)
  BY <1>1, <1>3, <1>4, <1>6 DEF AskerOK, WillBeDenied
<1>8. AskerOK(q)
  BY <1>3, <1>4, <1>5, <1>6, <1>7 DEF AskerOK
<1> QED BY <1>2, <1>8, AskerMoved

\* The week's spend is read: a dispatch that began past a cap ends here.
LEMMA ReadWeeklyStep ==
  ASSUME CostInv, NEW a \in Asker, ReadWeekly(a)
  PROVE  CostInv'
<1> DEFINE o == asker[a]
           q == [o EXCEPT !.weekly = WeekRead(a)]
           ends == [q EXCEPT !.at = "idle"]
           goes == [q EXCEPT !.at = "gate"]
<1>1. AskerOK(o) /\ o.at \in {"weekly", "reportWeek"} /\ o \in Asking
  BY DEF CostInv, AskersOK, ReadWeekly, AskerOK
<1>2. weekly[WeekKey(o.now)] \in Nat /\ WeekRead(a) = weekly[WeekKey(o.now)]
  BY <1>1, WeekOfDay DEF AskerOK, CostInv, SpendOK, WeekRead
<1>3. /\ q \in Asking /\ q.at = o.at /\ q.now = o.now /\ q.met = o.met /\ q.daily = o.daily
      /\ q.weekly = weekly[WeekKey(o.now)]
  BY <1>1, <1>2 DEF Asking
<1>4. \/ o.at = "reportWeek" /\ Ask(a, ends)
      \/ o.at = "weekly" /\ Denied(q.daily, q.weekly) /\ Ask(a, NotAsking)
      \/ o.at = "weekly" /\ ~ Denied(q.daily, q.weekly) /\ Ask(a, goes)
  BY <1>1 DEF ReadWeekly
<1> HIDE DEF q
<1>5. ends \in Asking /\ ends.at = "idle" /\ ends.met = q.met
  BY <1>3 DEF Asking
<1>6. goes \in Asking /\ goes.at = "gate" /\ goes.met = q.met
  BY <1>3 DEF Asking
<1> HIDE DEF o, ends, goes
<1>7. CASE o.at = "reportWeek" /\ Ask(a, ends)
  <2>1. ~ o.met
    BY <1>1, <1>7 DEF AskerOK, WillBeDenied
  <2>2. AskerOK(ends)
    BY <1>3, <1>5, <2>1 DEF AskerOK, WillBeDenied
  <2> QED BY <1>7, <2>2, AskerMoved
<1>8. CASE o.at = "weekly" /\ ~ Denied(q.daily, q.weekly) /\ Ask(a, goes)
  <2>1. ~ o.met
    BY <1>1, <1>3, <1>8 DEF AskerOK, WillBeDenied, Denied
  <2>2. AskerOK(goes)
    BY <1>3, <1>6, <2>1 DEF AskerOK, WillBeDenied
  <2> QED BY <1>8, <2>2, AskerMoved
<1> QED BY <1>4, <1>7, <1>8, NotAskingOK, AskerMoved

\* The gate and the answer.
LEMMA GateStep ==
  ASSUME CostInv, NEW a \in Asker, Gate(a) \/ Created(a)
  PROVE  CostInv'
<1> DEFINE q == [asker[a] EXCEPT !.at = "create"]
<1>1. Ask(a, NotAsking) \/ (asker[a].at = "gate" /\ Ask(a, q))
  BY DEF Gate, Created
<1>2. ASSUME asker[a].at = "gate" PROVE AskerOK(q)
  <2>1. AskerOK(asker[a]) /\ asker[a] \in Asking
    BY DEF CostInv, AskersOK, AskerOK
  <2>2. q \in Asking /\ q.at = "create" /\ q.met = asker[a].met
    BY <2>1 DEF Asking
  <2> HIDE DEF q
  <2>3. ~ q.met
    BY <1>2, <2>1, <2>2 DEF AskerOK, WillBeDenied
  <2> QED BY <2>2, <2>3 DEF AskerOK, WillBeDenied
<1> HIDE DEF q
<1> QED BY <1>1, <1>2, NotAskingOK, AskerMoved

\* A result's cost is recorded.
LEMMA RecordStep ==
  ASSUME CostInv, NEW r \in Reporter, RecordCost(r)
  PROVE  CostInv'
<1> DEFINE c == reporter[r].cost
<1>1. c \in Nat /\ today \in CostDay /\ WeekKey(today) \in CostWeek
  BY WeekOfDay DEF CostInv, SpendOK, ReportersOK, RecordCost
<1>2. /\ daily' = [daily EXCEPT ![today] = daily[today] + c]
      /\ weekly' = [weekly EXCEPT ![WeekKey(today)] = weekly[WeekKey(today)] + c]
      /\ UNCHANGED <<today, asker>>
  BY DEF RecordCost, RecordTx, Added, DayKey
<1> HIDE DEF c
<1>3. SpendOK' /\ SpendGrows
  BY <1>1, <1>2 DEF CostInv, SpendOK, SpendGrows
<1>4. AskersOK'
  BY <1>2, <1>3, AskersStay
<1>5. ReportersOK'
  <2>1. reporter' = [reporter EXCEPT ![r] = Resting]
    BY DEF RecordCost
  <2> QED BY <2>1 DEF CostInv, ReportersOK, Resting
<1> QED BY <1>3, <1>4, <1>5 DEF CostInv

\* Every step of the budget keeps its invariant.
LEMMA CostStep ==
  ASSUME CostInv, [CostNext]_costVars
  PROVE  CostInv'
<1>1. ASSUME UNCHANGED <<daily, weekly, asker>>, today' \in CostDay, ReportersOK' PROVE CostInv'
  <2>1. SpendOK' /\ SpendGrows
    BY <1>1 DEF CostInv, SpendOK, SpendGrows, CostWeek
  <2> QED BY <1>1, <2>1, AskersStay DEF CostInv
<1>2. ASSUME NEW r \in Reporter, NEW t \in CostTask, NEW cost \in Price, PostResult(r, t, cost)
      PROVE  CostInv'
  <2>1. reporter' = [reporter EXCEPT ![r] = [at |-> "record", task |-> t, cost |-> cost]]
    BY <1>2 DEF PostResult
  <2>2. ReportersOK'
    BY <2>1, CostAssumption DEF CostInv, ReportersOK
  <2> QED BY <1>1, <1>2, <2>2 DEF PostResult, CostInv, SpendOK
<1>3. ASSUME NEW r \in Reporter, RecordFails(r) PROVE CostInv'
  <2>1. reporter' = [reporter EXCEPT ![r] = Resting]
    BY <1>3 DEF RecordFails
  <2>2. ReportersOK'
    BY <2>1 DEF CostInv, ReportersOK, Resting
  <2> QED BY <1>1, <1>3, <2>2 DEF RecordFails, CostInv, SpendOK
<1>4. CASE HubDies
  <2>1. ReportersOK'
    BY <1>4 DEF HubDies, ReportersOK, Resting
  <2>2. AskersOK'
    BY <1>4, NotAskingOK DEF HubDies, AskersOK, AskerOK, WillBeDenied
  <2> QED BY <1>4, <2>1, <2>2 DEF HubDies, CostInv, SpendOK
<1>5. CASE NextDay
  BY <1>1, <1>5 DEF NextDay, CostInv, ReportersOK
<1>6. ASSUME NEW t \in CostTask, Advance(t) PROVE CostInv'
  BY <1>1, <1>6 DEF Advance, CostInv, SpendOK, ReportersOK
<1>7. CASE UNCHANGED costVars
  BY <1>1, <1>7 DEF costVars, CostInv, SpendOK, ReportersOK
<1> QED BY <1>2, <1>3, <1>4, <1>5, <1>6, <1>7, BeginDispatchStep, BeginReportStep,
           ReadDailyStep, ReadWeeklyStep, GateStep, RecordStep DEF CostNext

\* The first of the days is a day.
LEMMA FirstDay == Min(CostDay) \in CostDay
<1>1. PICK d \in CostDay : \A e \in CostDay : ~ (<<e, d>> \in OpToRel(<, Nat))
  BY CostAssumption, NatLessThanWellFounded, WFMin
<1>2. ASSUME NEW e \in CostDay PROVE d <= e
  <2>1. d \in Nat /\ e \in Nat
    BY CostAssumption
  <2>2. ~ (e < d)
    BY <1>1, <2>1 DEF OpToRel
  <2> QED BY <2>1, <2>2
<1> QED BY <1>2 DEF Min

LEMMA CostInitInv == CostInit => CostInv
<1> SUFFICES ASSUME CostInit PROVE CostInv
  OBVIOUS
<1>1. SpendOK
  BY FirstDay DEF CostInit, SpendOK
<1>2. AskersOK
  BY NotAskingOK DEF CostInit, AskersOK
<1>3. ReportersOK
  BY DEF CostInit, ReportersOK, Resting
<1> QED BY <1>1, <1>2, <1>3 DEF CostInv

\* A dispatch whose stamp was taken when a cap was already met inserts no task,
\* for every cap, every price and every interleaving of reads, results and
\* midnights: the property the services run checks.
THEOREM NoTaskPastTheCapHolds == CostSpec => []NoTaskPastTheCap
<1>1. CostInit => CostInv
  BY CostInitInv
<1>2. CostInv /\ [CostNext]_costVars => CostInv'
  BY CostStep
<1>3. CostInv => NoTaskPastTheCap
  BY DEF CostInv, AskersOK, AskerOK, WillBeDenied, NoTaskPastTheCap
<1> QED BY <1>1, <1>2, <1>3, PTL DEF CostSpec

\* The rows of the ledger and what is on its way there, and the tasks' states.
LedgerTyped ==
  /\ ledger \in Seq([task : CostTask, cost : Price, day : CostDay])
  /\ taskStatus \in [CostTask -> {"absent", "held", "queued", "running", "done"}]
  /\ \A r \in Reporter : reporter[r].at = "record" =>
       reporter[r].task \in CostTask /\ reporter[r].cost \in Price

LEMMA LedgerTypedStep ==
  ASSUME CostInv, LedgerTyped, [CostNext]_costVars
  PROVE  LedgerTyped'
<1>1. ASSUME UNCHANGED <<ledger, taskStatus, reporter>> PROVE LedgerTyped'
  BY <1>1 DEF LedgerTyped
<1>2. ASSUME NEW r \in Reporter, NEW t \in CostTask, NEW cost \in Price, PostResult(r, t, cost)
      PROVE  LedgerTyped'
  <2>1. /\ reporter' = [reporter EXCEPT ![r] = [at |-> "record", task |-> t, cost |-> cost]]
        /\ taskStatus' = [taskStatus EXCEPT ![t] = "done"] /\ ledger' = ledger
    BY <1>2 DEF PostResult
  <2>2. \A q \in Reporter : reporter'[q] = reporter[q]
          \/ reporter'[q] = [at |-> "record", task |-> t, cost |-> cost]
    BY <2>1 DEF CostInv, ReportersOK
  <2> QED BY <2>1, <2>2 DEF LedgerTyped
<1>3. ASSUME NEW r \in Reporter, RecordCost(r) PROVE LedgerTyped'
  <2>1. reporter[r].task \in CostTask /\ reporter[r].cost \in Price /\ today \in CostDay
    BY <1>3 DEF RecordCost, LedgerTyped, CostInv, SpendOK
  <2>2. ledger' = Append(ledger, [task |-> reporter[r].task, cost |-> reporter[r].cost, day |-> today])
    BY <1>3 DEF RecordCost, RecordTx, DayKey
  <2>3. ledger' \in Seq([task : CostTask, cost : Price, day : CostDay])
    <3> DEFINE added == [task |-> reporter[r].task, cost |-> reporter[r].cost, day |-> today]
    <3>1. added \in [task : CostTask, cost : Price, day : CostDay]
      BY <2>1
    <3> HIDE DEF added
    <3> QED BY <2>2, <3>1 DEF LedgerTyped, added
  <2>4. reporter' = [reporter EXCEPT ![r] = Resting] /\ taskStatus' = taskStatus
    BY <1>3 DEF RecordCost
  <2>5. \A q \in Reporter : reporter'[q] = reporter[q] \/ reporter'[q] = Resting
    BY <2>4 DEF CostInv, ReportersOK
  <2> QED BY <2>3, <2>4, <2>5 DEF LedgerTyped, Resting
<1>4. ASSUME NEW r \in Reporter, RecordFails(r) PROVE LedgerTyped'
  <2>1. reporter' = [reporter EXCEPT ![r] = Resting] /\ UNCHANGED <<ledger, taskStatus>>
    BY <1>4 DEF RecordFails
  <2>2. \A q \in Reporter : reporter'[q] = reporter[q] \/ reporter'[q] = Resting
    BY <2>1 DEF CostInv, ReportersOK
  <2> QED BY <2>1, <2>2 DEF LedgerTyped, Resting
<1>5. CASE HubDies
  BY <1>5 DEF HubDies, LedgerTyped, Resting
<1>6. ASSUME NEW t \in CostTask, Advance(t) PROVE LedgerTyped'
  BY <1>6 DEF Advance, LedgerTyped
<1>7. ASSUME NEW a \in Asker, Gate(a) PROVE LedgerTyped'
  BY <1>7 DEF Gate, Ask, LedgerTyped
<1>8. ASSUME NEW a \in Asker,
             BeginDispatch(a) \/ BeginReport(a) \/ ReadDaily(a) \/ ReadWeekly(a) \/ Created(a)
      PROVE  LedgerTyped'
  <2>1. UNCHANGED <<ledger, taskStatus, reporter>>
    BY <1>8 DEF BeginDispatch, BeginReport, ReadDaily, ReadWeekly, Created, Ask
  <2> QED BY <2>1, <1>1
<1>9. CASE NextDay
  BY <1>1, <1>9 DEF NextDay
<1>10. CASE UNCHANGED costVars
  BY <1>1, <1>10 DEF costVars
<1> QED BY <1>2, <1>3, <1>4, <1>5, <1>6, <1>7, <1>8, <1>9, <1>10 DEF CostNext

\* Every ledger row is a task, a price and a day, whatever results raced with
\* midnight or were lost with the hub, and every spend, state and asker keeps
\* its type: type correctness of cost and budget.
THEOREM CostTypes == CostSpec => []CostTypeOK
<1>1. CostInit => LedgerTyped
  BY DEF CostInit, LedgerTyped, Resting
<1>2. CostInv /\ LedgerTyped => CostTypeOK
  <2> SUFFICES ASSUME CostInv, LedgerTyped PROVE CostTypeOK
    OBVIOUS
  <2>1. \A a \in Asker : asker[a].at \in
          {"idle", "daily", "weekly", "report", "reportWeek", "gate", "create"}
    BY DEF CostInv, AskersOK, AskerOK, Asking
  <2>2. \A i \in DOMAIN ledger : ledger[i] \in [task : CostTask, cost : Price, day : CostDay]
    <3> DEFINE Entries == [task : CostTask, cost : Price, day : CostDay]
    <3>1. ledger \in Seq(Entries)
      BY DEF LedgerTyped
    <3> HIDE DEF Entries
    <3>2. \A i \in DOMAIN ledger : ledger[i] \in Entries
      BY <3>1
    <3> QED BY <3>2 DEF Entries
  <2> QED BY <2>1, <2>2 DEF CostInv, SpendOK, LedgerTyped, CostTypeOK
<1> QED BY <1>1, <1>2, CostInitInv, CostStep, LedgerTypedStep, PTL DEF CostSpec

-----------------------------------------------------------------------------
(***************************************************************************)
(* The ledger and its accumulators.  MapThenSumSet adds up a set by a      *)
(* recursive function that takes the elements in some order; running sums  *)
(* over the positions of the rows (SumsOf) come to the same, and are       *)
(* extended by a row and lose one without looking at an order.             *)
(***************************************************************************)
\* Two outcomes of a loop that makes a number smaller at every turn: they agree
\* where it ends, and before a turn if they agree after it.
SameLoop(Place, size, ended, next, g, h) ==
  /\ size \in [Place -> Nat]
  /\ \A p \in Place : ended[p] \/ (next[p] \in Place /\ size[next[p]] < size[p])
  /\ \A p \in Place : ended[p] => g[p] = h[p]
  /\ \A p \in Place : ~ended[p] /\ g[next[p]] = h[next[p]] => g[p] = h[p]

LEMMA LoopDetermined ==
  ASSUME NEW Place, NEW size, NEW ended, NEW next, NEW g, NEW h,
         SameLoop(Place, size, ended, next, g, h)
  PROVE  \A p \in Place : g[p] = h[p]
<1> USE DEF SameLoop
<1> DEFINE T == {size[p] : p \in {p \in Place : g[p] # h[p]}}
<1> SUFFICES ASSUME NEW p \in Place, g[p] # h[p] PROVE FALSE
  OBVIOUS
<1>1. T \subseteq Nat /\ size[p] \in T
  OBVIOUS
<1>2. PICK n \in T : \A k \in T : ~ (<<k, n>> \in OpToRel(<, Nat))
  BY <1>1, NatLessThanWellFounded, WFMin
<1>3. PICK q \in Place : g[q] # h[q] /\ n = size[q]
  OBVIOUS
<1>4. ~ended[q] /\ next[q] \in Place /\ size[next[q]] < n /\ g[next[q]] # h[next[q]]
  BY <1>3
<1>5. size[next[q]] \in T /\ size[next[q]] \in Nat /\ n \in Nat
  BY <1>1, <1>4
<1>6. <<size[next[q]], n>> \in OpToRel(<, Nat)
  BY <1>4, <1>5 DEF OpToRel
<1> QED BY <1>2, <1>5, <1>6

\* The cost of a row, if it is one of those asked for.
CostIn(rs, T, i) == IF i \in T THEN rs[i].cost ELSE 0

\* Running sums of the costs of some rows, and what they come to.
SumsOf(rs, T, sums) ==
  /\ sums \in [0..Len(rs) -> Int]
  /\ sums[0] = 0
  /\ \A i \in 1..Len(rs) : sums[i] = sums[i - 1] + CostIn(rs, T, i)

AddsUpTo(rs, T, x) == \E sums : SumsOf(rs, T, sums) /\ sums[Len(rs)] = x

CostRows == [task : CostTask, cost : Price, day : CostDay]

LEMMA CostOfRow == \A entry \in CostRows : entry.cost \in Int
<1>1. Price \subseteq Int
  BY CostAssumption
<1>2. \A entry \in CostRows : entry.cost \in Price
  BY DEF CostRows
<1> QED BY <1>1, <1>2

LEMMA CostsOfRows ==
  ASSUME NEW rs \in Seq(CostRows)
  PROVE  /\ Len(rs) \in Nat /\ DOMAIN rs = 1..Len(rs)
         /\ \A T, i : i \in 1..Len(rs) => CostIn(rs, T, i) \in Int
         /\ \A i \in 1..Len(rs) : rs[i].cost \in Int /\ rs[i] \in CostRows
<1>1. Len(rs) \in Nat /\ DOMAIN rs = 1..Len(rs)
  <2> DEFINE R == CostRows
  <2> HIDE DEF R
  <2>1. rs \in Seq(R) BY DEF R
  <2> QED BY <2>1
<1>2. \A i \in 1..Len(rs) : rs[i] \in CostRows
  <2> DEFINE R == CostRows
  <2> HIDE DEF R
  <2>1. rs \in Seq(R) BY DEF R
  <2>2. \A i \in 1..Len(rs) : rs[i] \in R
    BY <2>1
  <2> QED BY <2>2 DEF R
<1>3. \A i \in 1..Len(rs) : rs[i].cost \in Int
  BY <1>2, CostOfRow
<1> QED BY <1>1, <1>2, <1>3 DEF CostIn

\* Rows add up to one sum.
LEMMA OneSum ==
  ASSUME NEW rs \in Seq(CostRows), NEW T, NEW x, NEW y, AddsUpTo(rs, T, x), AddsUpTo(rs, T, y)
  PROVE  x = y
<1>1. PICK p : SumsOf(rs, T, p) /\ p[Len(rs)] = x
  BY DEF AddsUpTo
<1>2. PICK q : SumsOf(rs, T, q) /\ q[Len(rs)] = y
  BY DEF AddsUpTo
<1>3. Len(rs) \in Nat /\ \A i \in 1..Len(rs) : CostIn(rs, T, i) \in Int
  BY CostsOfRows
<1> DEFINE n == Len(rs)
           U == {i \in 0..n : p[i] # q[i]}
<1> SUFFICES ASSUME x # y PROVE FALSE
  OBVIOUS
<1> HIDE DEF n
<1>4. n \in Nat /\ n = Len(rs)
  BY <1>3 DEF n
<1>5. U \subseteq Nat /\ n \in U
  BY <1>1, <1>2, <1>4
<1> HIDE DEF U
<1>6. PICK k \in U : \A j \in U : ~ (<<j, k>> \in OpToRel(<, Nat))
  BY ONLY <1>5, NatLessThanWellFounded, WFMin
<1> USE DEF U
<1>7. k \in 0..n /\ p[k] # q[k] /\ p[0] = 0 /\ q[0] = 0
  BY <1>1, <1>2 DEF SumsOf
<1>8. k - 1 \in 0..n /\ k \in 1..n /\ k - 1 \in Nat /\ k \in Nat /\ k - 1 < k
  BY <1>4, <1>7
<1>9. k - 1 \notin U
  BY <1>6, <1>8 DEF OpToRel
<1>10. p[k - 1] = q[k - 1]
  BY <1>8, <1>9
<1>11. p[k] = p[k - 1] + CostIn(rs, T, k) /\ q[k] = q[k - 1] + CostIn(rs, T, k)
  BY <1>1, <1>2, <1>4, <1>8 DEF SumsOf
<1> QED BY <1>7, <1>10, <1>11

\* One row less, and the sum is less by its cost.
LEMMA RowTakenOut ==
  ASSUME NEW rs \in Seq(CostRows), NEW T, NEW k \in T, T \subseteq 1..Len(rs),
         NEW x, AddsUpTo(rs, T, x)
  PROVE  x \in Int /\ rs[k].cost \in Int /\ AddsUpTo(rs, T \ {k}, x - rs[k].cost)
<1>1. PICK p : SumsOf(rs, T, p) /\ p[Len(rs)] = x
  BY DEF AddsUpTo
<1> DEFINE n == Len(rs)
           c == rs[k].cost
           q == [i \in 0..n |-> IF i >= k THEN p[i] - c ELSE p[i]]
<1>2. n \in Nat /\ n = Len(rs) /\ c \in Int /\ k \in 1..n
  BY CostsOfRows
<1>3. \A i \in 1..n : CostIn(rs, T, i) \in Int
  BY CostsOfRows
<1>4. \A i \in 1..n : CostIn(rs, T \ {k}, i) = CostIn(rs, T, i) - IF i = k THEN c ELSE 0
  <2> SUFFICES ASSUME NEW i \in 1..n
               PROVE  CostIn(rs, T \ {k}, i) = CostIn(rs, T, i) - IF i = k THEN c ELSE 0
    OBVIOUS
  <2>1. CASE i = k
    BY <1>2, <2>1 DEF CostIn
  <2>2. CASE i # k
    <3>1. CostIn(rs, T \ {k}, i) = CostIn(rs, T, i) /\ CostIn(rs, T, i) \in Int
      BY <1>3, <2>2 DEF CostIn
    <3> QED BY <2>2, <3>1
  <2> QED BY <2>1, <2>2
<1> HIDE DEF c, n
<1>5. /\ p \in [0..n -> Int] /\ p[0] = 0 /\ p[n] = x
      /\ \A i \in 1..n : p[i] = p[i - 1] + CostIn(rs, T, i)
  BY <1>1, <1>2 DEF SumsOf
<1>6. q \in [0..n -> Int] /\ q[0] = 0 /\ q[n] = x - c
  BY <1>2, <1>5
<1>7. ASSUME NEW i \in 1..n PROVE q[i] = q[i - 1] + CostIn(rs, T \ {k}, i)
  <2>1. i \in 0..n /\ i - 1 \in 0..n /\ p[i] \in Int /\ p[i - 1] \in Int
    BY <1>2, <1>5
  <2>2. /\ q[i] = IF i >= k THEN p[i] - c ELSE p[i]
        /\ q[i - 1] = IF i - 1 >= k THEN p[i - 1] - c ELSE p[i - 1]
    BY <2>1
  <2>3. p[i] = p[i - 1] + CostIn(rs, T, i) /\ CostIn(rs, T, i) \in Int
    BY <1>3, <1>5
  <2>4. CostIn(rs, T \ {k}, i) = CostIn(rs, T, i) - IF i = k THEN c ELSE 0
    BY <1>4
  <2> HIDE DEF q
  <2> QED BY <1>2, <2>1, <2>2, <2>3, <2>4
<1> HIDE DEF q
<1>8. SumsOf(rs, T \ {k}, q) /\ q[Len(rs)] = x - c
  BY <1>2, <1>6, <1>7 DEF SumsOf
<1>9. x \in Int
  BY <1>2, <1>5
<1> QED BY <1>2, <1>8, <1>9 DEF AddsUpTo, c

LEMMA NoRowsAddUp ==
  ASSUME NEW rs \in Seq(CostRows)
  PROVE  AddsUpTo(rs, {}, 0)
<1> DEFINE q == [i \in 0..Len(rs) |-> 0]
<1>1. Len(rs) \in Nat
  BY CostsOfRows
<1>2. SumsOf(rs, {}, q) /\ q[Len(rs)] = 0
  BY <1>1 DEF SumsOf, CostIn
<1> QED BY <1>2 DEF AddsUpTo

\* A row more at the end.
LEMMA RowAdded ==
  ASSUME NEW rs \in Seq(CostRows), NEW entry \in CostRows, NEW T, NEW more,
         more \cap (1..Len(rs)) = T \cap (1..Len(rs)), NEW x, AddsUpTo(rs, T, x)
  PROVE  /\ x \in Int
         /\ AddsUpTo(Append(rs, entry), more, x + IF Len(rs) + 1 \in more THEN entry.cost ELSE 0)
<1> DEFINE n == Len(rs)
           new == Append(rs, entry)
           c == IF n + 1 \in more THEN entry.cost ELSE 0
<1>1. PICK p : SumsOf(rs, T, p) /\ p[Len(rs)] = x
  BY DEF AddsUpTo
<1>2. n \in Nat /\ n = Len(rs) /\ entry.cost \in Int /\ c \in Int
  <2>1. entry.cost \in Int
    BY CostOfRow
  <2>2. n \in Nat
    BY CostsOfRows
  <2> QED BY <2>1, <2>2
<1>3. /\ Len(new) = n + 1 /\ new[n + 1] = entry
      /\ \A i \in 1..n : new[i] = rs[i]
  <2> DEFINE R == CostRows
  <2> HIDE DEF R
  <2>1. rs \in Seq(R) /\ entry \in R
    BY DEF R
  <2> QED BY <2>1
<1>4. CostIn(new, more, n + 1) = c
  BY <1>3 DEF CostIn
<1>5. ASSUME NEW i \in 1..n PROVE CostIn(new, more, i) = CostIn(rs, T, i)
  <2>1. i \in more <=> i \in T
    OBVIOUS
  <2>2. new[i] = rs[i]
    BY <1>3
  <2> HIDE DEF new
  <2> QED BY <2>1, <2>2 DEF CostIn
<1> HIDE DEF n, new, c
<1>6. /\ p \in [0..n -> Int] /\ p[0] = 0 /\ p[n] = x /\ x \in Int
      /\ \A i \in 1..n : p[i] = p[i - 1] + CostIn(rs, T, i)
  BY <1>1, <1>2 DEF SumsOf
<1> DEFINE q == [i \in 0..(n + 1) |-> IF i = n + 1 THEN x + c ELSE p[i]]
<1>7. q \in [0..(n + 1) -> Int] /\ q[0] = 0 /\ q[n + 1] = x + c
  BY <1>2, <1>6
<1>8. ASSUME NEW i \in 1..(n + 1) PROVE q[i] = q[i - 1] + CostIn(new, more, i)
  <2>1. CASE i = n + 1
    <3>1. q[i] = x + c /\ q[i - 1] = x
      BY <1>2, <1>6, <2>1
    <3> HIDE DEF q
    <3> QED BY <1>4, <2>1, <3>1
  <2>2. CASE i # n + 1
    <3>1. i \in 1..n /\ i - 1 \in 0..n
      BY <1>2, <2>2
    <3>2. q[i] = p[i] /\ q[i - 1] = p[i - 1]
      BY <1>2, <3>1
    <3> HIDE DEF q
    <3> QED BY <1>5, <1>6, <3>1, <3>2
  <2> QED BY <2>1, <2>2
<1> HIDE DEF q
<1>9. SumsOf(new, more, q) /\ q[Len(new)] = x + c
  BY <1>3, <1>7, <1>8 DEF SumsOf
<1> QED BY <1>6, <1>9 DEF AddsUpTo, new, c, n

\* What MapThenSumSet makes of the costs of some rows, whichever it takes first.
SumStep(rs, T, f) ==
  [s \in SUBSET T |-> IF s = {} THEN 0
                      ELSE LET i == CHOOSE i \in s : TRUE IN rs[i].cost + f[s \ {i}]]

LEMMA SumOfRows ==
  ASSUME NEW rs \in Seq(CostRows), NEW T, T \subseteq 1..Len(rs),
         \A U \in SUBSET (1..Len(rs)) : \E y : AddsUpTo(rs, U, y),
         NEW x, AddsUpTo(rs, T, x)
  PROVE  MapThenSumSet(LAMBDA i : rs[i].cost, T) = x
<1> DEFINE first(s) == CHOOSE i \in s : TRUE
           h == [s \in SUBSET T |-> CHOOSE y : AddsUpTo(rs, s, y)]
           iter == CHOOSE f : f = SumStep(rs, T, f)
           ended == [s \in SUBSET T |-> s = {}]
           next == [s \in SUBSET T |-> s \ {first(s)}]
           size == [s \in SUBSET T |-> Cardinality(s)]
<1>1. ASSUME NEW s \in SUBSET T PROVE AddsUpTo(rs, s, h[s])
  OBVIOUS
<1>2. ASSUME NEW s \in SUBSET T, NEW y, AddsUpTo(rs, s, y) PROVE h[s] = y
  <2> HIDE DEF h
  <2> QED BY <1>1, <1>2, OneSum
<1>3. h[{}] = 0
  BY <1>2, NoRowsAddUp
<1>4. ASSUME NEW s \in SUBSET T, s # {} PROVE h[s] = rs[first(s)].cost + h[s \ {first(s)}]
  <2> DEFINE k == first(s)
  <2>1. k \in s
    BY <1>4
  <2> HIDE DEF k, h
  <2>2. s \subseteq 1..Len(rs) /\ s \ {k} \in SUBSET T
    OBVIOUS
  <2>3. h[s] \in Int /\ rs[k].cost \in Int /\ AddsUpTo(rs, s \ {k}, h[s] - rs[k].cost)
    BY <1>1, <2>1, <2>2, RowTakenOut
  <2>4. h[s \ {k}] = h[s] - rs[k].cost
    BY <1>2, <2>2, <2>3
  <2> QED BY <2>3, <2>4 DEF k
<1> HIDE DEF first
<1>5. h = SumStep(rs, T, h)
  <2> HIDE DEF h
  <2>1. \A s \in SUBSET T : h[s] = IF s = {} THEN 0 ELSE rs[first(s)].cost + h[s \ {first(s)}]
    BY <1>3, <1>4
  <2>2. h = [s \in SUBSET T |-> h[s]]
    BY DEF h
  <2>3. SumStep(rs, T, h) = [s \in SUBSET T |-> IF s = {} THEN 0 ELSE rs[first(s)].cost + h[s \ {first(s)}]]
    BY DEF SumStep, first
  <2> QED BY <2>1, <2>2, <2>3
<1>6. iter = SumStep(rs, T, iter)
  <2> HIDE DEF h
  <2> QED BY <1>5
<1>7. MapThenSumSet(LAMBDA i : rs[i].cost, T) = iter[T]
  BY DEF MapThenSumSet, MapThenFoldSet, SumStep
<1>8. \A s \in SUBSET T : IsFiniteSet(s) /\ Cardinality(s) \in Nat
  <2>1. IsFiniteSet(1..Len(rs))
    BY CostsOfRows, FS_Interval
  <2>2. \A s \in SUBSET T : IsFiniteSet(s)
    BY <2>1, FS_Subset
  <2> QED BY <2>2, FS_CardinalityType
<1> HIDE DEF h, iter
<1>9. \A s \in SUBSET T : iter[s] = h[s]
  <2>1. size \in [SUBSET T -> Nat]
    BY <1>8
  <2>2. ASSUME NEW s \in SUBSET T, s # {} 
        PROVE  next[s] \in SUBSET T /\ next[s] = s \ {first(s)} /\ size[next[s]] < size[s]
    <3>1. first(s) \in s /\ next[s] = s \ {first(s)}
      BY <2>2 DEF first
    <3>2. Cardinality(s \ {first(s)}) = Cardinality(s) - 1
      BY <1>8, <3>1, FS_RemoveElement
    <3>3. next[s] \in SUBSET T
      BY <3>1
    <3>4. size[next[s]] = Cardinality(s) - 1 /\ size[s] = Cardinality(s) /\ Cardinality(s) \in Nat
      BY <1>8, <3>1, <3>2, <3>3
    <3> QED BY <3>1, <3>3, <3>4
  <2>3. \A s \in SUBSET T : iter[s] = IF s = {} THEN 0 ELSE rs[first(s)].cost + iter[s \ {first(s)}]
    <3> DEFINE step(f) == SumStep(rs, T, f)
    <3>1. \A f : \A s \in SUBSET T : step(f)[s] = IF s = {} THEN 0 ELSE rs[first(s)].cost + f[s \ {first(s)}]
      BY DEF SumStep, first
    <3> HIDE DEF step
    <3>2. iter = step(iter)
      BY <1>6 DEF step
    <3> QED BY <3>1, <3>2
  <2>4. \A s \in SUBSET T : ended[s] => iter[s] = h[s]
    BY <1>3, <2>3
  <2>5. \A s \in SUBSET T : ~ended[s] /\ iter[next[s]] = h[next[s]] => iter[s] = h[s]
    BY <1>4, <2>2, <2>3
  <2>6. \A s \in SUBSET T : ended[s] \/ (next[s] \in SUBSET T /\ size[next[s]] < size[s])
    BY <2>2
  <2> DEFINE Sets == SUBSET T
  <2> HIDE DEF ended, next, size
  <2>7. size \in [Sets -> Nat]
    BY <2>1
  <2>8. \A s \in Sets : ended[s] \/ (next[s] \in Sets /\ size[next[s]] < size[s])
    BY <2>6
  <2>9. \A s \in Sets : ended[s] => iter[s] = h[s]
    BY <2>4
  <2>10. \A s \in Sets : ~ended[s] /\ iter[next[s]] = h[next[s]] => iter[s] = h[s]
    BY <2>5
  <2>11. SameLoop(Sets, size, ended, next, iter, h)
    <3> HIDE DEF Sets
    <3> QED BY <2>7, <2>8, <2>9, <2>10 DEF SameLoop
  <2>12. \A s \in Sets : iter[s] = h[s]
    <3> HIDE DEF Sets
    <3> QED BY ONLY <2>11, LoopDetermined
  <2> QED BY <2>12 DEF Sets
<1> QED BY <1>2, <1>7, <1>9

RowsOfDay(rs, d) == {i \in 1..Len(rs) : rs[i].day = d}
RowsOfWeek(rs, w) == {i \in 1..Len(rs) : WeekKey(rs[i].day) = w}

\* Any rows have a sum, and those of a day or week have its accumulator for one.
RowsSummed(rs) ==
  /\ \A U \in SUBSET (1..Len(rs)) : \E y : AddsUpTo(rs, U, y)
  /\ \A d \in CostDay : AddsUpTo(rs, RowsOfDay(rs, d), daily[d])
  /\ \A w \in CostWeek : AddsUpTo(rs, RowsOfWeek(rs, w), weekly[w])

LedgerSummed == RowsSummed(ledger)

LEMMA LedgerRows == LedgerTyped => ledger \in Seq(CostRows)
BY DEF LedgerTyped, CostRows

LEMMA RecordSummed ==
  ASSUME CostInv, LedgerTyped, LedgerSummed, NEW r \in Reporter, RecordCost(r)
  PROVE  LedgerSummed'
<1> DEFINE entry == [task |-> reporter[r].task, cost |-> reporter[r].cost, day |-> today]
           c == entry.cost
           n == Len(ledger)
<1>1. /\ reporter[r].task \in CostTask /\ reporter[r].cost \in Price /\ today \in CostDay
      /\ WeekKey(today) \in CostWeek
  BY WeekOfDay DEF RecordCost, LedgerTyped, CostInv, SpendOK
<1>2. /\ ledger' = Append(ledger, entry)
      /\ daily' = [daily EXCEPT ![today] = @ + c]
      /\ weekly' = [weekly EXCEPT ![WeekKey(today)] = @ + c]
  BY DEF RecordCost, RecordTx, DayKey, Added
<1>3. entry \in CostRows /\ entry.day = today /\ c \in Int
  <2>1. entry \in CostRows /\ entry.day = today
    BY <1>1 DEF CostRows
  <2> HIDE DEF entry
  <2> QED BY <2>1, CostOfRow
<1> HIDE DEF entry
<1>4. ledger \in Seq(CostRows) /\ n \in Nat
  BY LedgerRows, CostsOfRows
<1>5. Len(ledger') = n + 1 /\ ledger'[n + 1] = entry /\ \A i \in 1..n : ledger'[i] = ledger[i]
  <2> DEFINE R == CostRows
  <2> HIDE DEF R
  <2>1. ledger \in Seq(R) /\ entry \in R
    BY <1>3, <1>4 DEF R
  <2> QED BY <1>2, <2>1
<1> HIDE DEF c
<1>6. ASSUME NEW T, NEW more, more \cap (1..n) = T \cap (1..n), NEW x, AddsUpTo(ledger, T, x)
      PROVE  x \in Int /\ AddsUpTo(ledger', more, x + IF n + 1 \in more THEN c ELSE 0)
  BY <1>2, <1>3, <1>4, <1>6, RowAdded DEF c
<1>7. ASSUME NEW U \in SUBSET (1..Len(ledger')) PROVE \E y : AddsUpTo(ledger', U, y)
  <2> DEFINE T == U \cap (1..n)
  <2>1. PICK x : AddsUpTo(ledger, T, x)
    BY DEF LedgerSummed, RowsSummed
  <2>2. U \cap (1..n) = T \cap (1..n)
    OBVIOUS
  <2> HIDE DEF T, n
  <2> QED BY <1>6, <2>1, <2>2
<1>8. ASSUME NEW d \in CostDay PROVE AddsUpTo(ledger', RowsOfDay(ledger', d), daily'[d])
  <2> DEFINE T == RowsOfDay(ledger, d)
             more == RowsOfDay(ledger', d)
  <2>1. AddsUpTo(ledger, T, daily[d]) /\ daily[d] \in Nat
    BY DEF LedgerSummed, RowsSummed, CostInv, SpendOK
  <2>2. more \cap (1..n) = T \cap (1..n)
    <3> HIDE DEF n
    <3>1. n = Len(ledger) BY DEF n
    <3> QED BY <1>4, <1>5, <3>1 DEF RowsOfDay
  <2>3. n + 1 \in more <=> d = today
    <3> HIDE DEF n
    <3> QED BY <1>3, <1>4, <1>5 DEF RowsOfDay
  <2>4. daily'[d] = daily[d] + IF d = today THEN c ELSE 0
    BY <1>2, <1>3, <2>1 DEF CostInv, SpendOK, c
  <2>5. AddsUpTo(ledger', more, daily[d] + IF n + 1 \in more THEN c ELSE 0)
    <3> HIDE DEF T, more, n
    <3> QED BY <1>6, <2>1, <2>2
  <2> HIDE DEF T, n
  <2> QED BY <2>3, <2>4, <2>5
<1>9. ASSUME NEW w \in CostWeek PROVE AddsUpTo(ledger', RowsOfWeek(ledger', w), weekly'[w])
  <2> DEFINE T == RowsOfWeek(ledger, w)
             more == RowsOfWeek(ledger', w)
  <2>1. AddsUpTo(ledger, T, weekly[w]) /\ weekly[w] \in Nat
    BY DEF LedgerSummed, RowsSummed, CostInv, SpendOK
  <2>2. more \cap (1..n) = T \cap (1..n)
    <3> HIDE DEF n
    <3>1. n = Len(ledger) BY DEF n
    <3> QED BY <1>4, <1>5, <3>1 DEF RowsOfWeek
  <2>3. n + 1 \in more <=> w = WeekKey(today)
    <3> HIDE DEF n
    <3> QED BY <1>3, <1>4, <1>5 DEF RowsOfWeek
  <2>4. weekly'[w] = weekly[w] + IF w = WeekKey(today) THEN c ELSE 0
    BY <1>1, <1>2, <1>3, <2>1 DEF CostInv, SpendOK, c
  <2>5. AddsUpTo(ledger', more, weekly[w] + IF n + 1 \in more THEN c ELSE 0)
    <3> HIDE DEF T, more, n
    <3> QED BY <1>6, <2>1, <2>2
  <2> HIDE DEF T, n
  <2> QED BY <2>3, <2>4, <2>5
<1> QED BY <1>7, <1>8, <1>9 DEF LedgerSummed, RowsSummed

LEMMA SummedStep ==
  ASSUME CostInv, LedgerTyped, LedgerSummed, [CostNext]_costVars
  PROVE  LedgerSummed'
<1>1. ASSUME UNCHANGED <<ledger, daily, weekly>> PROVE LedgerSummed'
  <2>1. RowsSummed(ledger)'
    BY <1>1 DEF LedgerSummed, RowsSummed
  <2> QED BY <1>1, <2>1 DEF LedgerSummed
<1>2. ASSUME NEW r \in Reporter, RecordCost(r) PROVE LedgerSummed'
  BY <1>2, RecordSummed
<1>3. ASSUME NEW r \in Reporter, NEW t \in CostTask, NEW cost \in Price,
             RecordFails(r) \/ PostResult(r, t, cost)
      PROVE  LedgerSummed'
  BY <1>1, <1>3 DEF RecordFails, PostResult
<1>4. ASSUME NEW r \in Reporter, RecordFails(r) PROVE LedgerSummed'
  BY <1>1, <1>4 DEF RecordFails
<1>5. ASSUME HubDies \/ NextDay PROVE LedgerSummed'
  BY <1>1, <1>5 DEF HubDies, NextDay
<1>6. ASSUME NEW t \in CostTask, Advance(t) PROVE LedgerSummed'
  BY <1>1, <1>6 DEF Advance
<1>7. ASSUME NEW a \in Asker,
             \/ BeginDispatch(a) \/ BeginReport(a) \/ ReadDaily(a) \/ ReadWeekly(a)
             \/ Gate(a) \/ Created(a)
      PROVE  LedgerSummed'
  <2>1. UNCHANGED <<ledger, daily, weekly>>
    BY <1>7 DEF BeginDispatch, BeginReport, ReadDaily, ReadWeekly, Gate, Created, Ask
  <2> QED BY <1>1, <2>1
<1>8. CASE UNCHANGED costVars
  BY <1>1, <1>8 DEF costVars
<1> QED BY <1>2, <1>3, <1>4, <1>5, <1>6, <1>7, <1>8 DEF CostNext

LEMMA SummedInit == CostInit => LedgerSummed
<1> SUFFICES ASSUME CostInit PROVE LedgerSummed
  OBVIOUS
<1>1. ledger = <<>> /\ Len(ledger) = 0 /\ 1..Len(ledger) = {}
  BY DEF CostInit
<1>2. AddsUpTo(ledger, {}, 0)
  <2>1. ledger \in Seq(CostRows)
    BY <1>1
  <2> QED BY <2>1, NoRowsAddUp
<1>3. /\ \A d : RowsOfDay(ledger, d) = {}
      /\ \A w : RowsOfWeek(ledger, w) = {}
      /\ \A U \in SUBSET (1..Len(ledger)) : U = {}
  BY <1>1 DEF RowsOfDay, RowsOfWeek
<1>4. \A d \in CostDay : daily[d] = 0
  BY DEF CostInit
<1>5. \A w \in CostWeek : weekly[w] = 0
  BY DEF CostInit
<1>6. \A U \in SUBSET (1..Len(ledger)) : \E y : AddsUpTo(ledger, U, y)
  BY <1>2, <1>3
<1> QED BY <1>2, <1>3, <1>4, <1>5, <1>6 DEF LedgerSummed, RowsSummed

\* The accumulators never drift from the ledger: whatever results race with
\* midnight, are posted twice or die with the hub, the rows of a day and of a
\* week add up to what the gate will read of them (record_cost).
THEOREM LedgerMatchesHolds == CostSpec => []LedgerMatches
<1>1. CostInv /\ LedgerTyped /\ LedgerSummed => LedgerMatches
  <2> SUFFICES ASSUME LedgerTyped, LedgerSummed PROVE LedgerMatches
    OBVIOUS
  <2>1. ledger \in Seq(CostRows) /\ DOMAIN ledger = 1..Len(ledger)
    BY LedgerRows, CostsOfRows
  <2>2. ASSUME NEW T, T \subseteq 1..Len(ledger), NEW x, AddsUpTo(ledger, T, x)
        PROVE  MapThenSumSet(LAMBDA i : ledger[i].cost, T) = x
    BY <2>1, <2>2, SumOfRows DEF LedgerSummed, RowsSummed
  <2>3. ASSUME NEW day \in CostDay PROVE ByDay(RowsSince(day), day) = daily[day]
    <3> DEFINE T == RowsOfDay(ledger, day)
    <3>1. T = {i \in RowsSince(day) : ledger[i].day = day}
      <4>1. day >= day
        BY CostAssumption
      <4> QED BY <2>1, <4>1 DEF RowsOfDay, RowsSince
    <3>2. T \subseteq 1..Len(ledger) /\ AddsUpTo(ledger, T, daily[day])
      BY DEF LedgerSummed, RowsSummed, RowsOfDay
    <3> HIDE DEF T
    <3>3. MapThenSumSet(LAMBDA i : ledger[i].cost, T) = daily[day]
      BY <2>2, <3>2
    <3> QED BY <3>1, <3>3 DEF ByDay
  <2>4. ASSUME NEW week \in CostWeek
        PROVE  weekly[week] = Total({i \in DOMAIN ledger : WeekKey(ledger[i].day) = week})
    <3> DEFINE T == RowsOfWeek(ledger, week)
    <3>1. T = {i \in DOMAIN ledger : WeekKey(ledger[i].day) = week}
      BY <2>1 DEF RowsOfWeek
    <3>2. T \subseteq 1..Len(ledger) /\ AddsUpTo(ledger, T, weekly[week])
      BY DEF LedgerSummed, RowsSummed, RowsOfWeek
    <3> HIDE DEF T
    <3>3. MapThenSumSet(LAMBDA i : ledger[i].cost, T) = weekly[week]
      BY <2>2, <3>2
    <3> QED BY <3>1, <3>3 DEF Total
  <2> QED BY <2>3, <2>4 DEF LedgerMatches
<1>2. CostInit => LedgerTyped
  BY DEF CostInit, LedgerTyped, Resting
<1> QED BY <1>1, <1>2, CostInitInv, CostStep, LedgerTypedStep, SummedInit, SummedStep, PTL DEF CostSpec

-----------------------------------------------------------------------------
(***************************************************************************)
(* The runtime gate.                                                       *)
(*                                                                         *)
(* The pump reports a refusal only as it ends, and the task's status is    *)
(* made up only after the pump ended: so "done" was never decided before   *)
(* a refusal (HaltInv).  While no two handlers of the task overlap, the    *)
(* one at work has read the list that it writes back (KeptInv).            *)
(***************************************************************************)

Asks == IntentKinds \cup {"nothing", "none", "done", "failed"}
Entry == Asks \X {"allowed", "needs_approval"}
HandlerRow ==
  [at : {"free", "read", "write", "finish", "answer"}, asks : Asks, seen : Seq(Entry)]
CallRow ==
  [handler : Handler \cup {NoHandler}, tries : Nat,
   answer : {"none", "allowed", "needs_approval", "error"}]
MainRow ==
  [at : {"start", "gate", "wait", "join", "submit", "report", "end"}, code : Int,
   status : {"none", "done", "failed"}]
PumpRow == [at : {"none", "reading", "asking", "done"}, read : Nat]

IntentRows ==
  /\ script \in Scripts
  /\ main \in MainRow /\ pump \in PumpRow /\ calling \in CallRow
  /\ handler \in [Handler -> HandlerRow]
  /\ decisions \in Seq(Entry) /\ decided \in Seq(Entry)

HaltInv ==
  /\ outcome = "denied" => pump.at = "done"
  /\ main.at \in {"start", "gate"} => pump.at = "none"
  /\ main.status = "done" => /\ outcome # "denied" /\ pump.at = "done"
                             /\ main.at \in {"submit", "report", "end"}
  /\ \A h \in Handler : handler[h].asks = "done" => main.status = "done"
  /\ taskState = "done" => main.status = "done"

Newest(list) ==
  SubSeq(list, IF Len(list) > Keep THEN Len(list) - Keep + 1 ELSE 1, Len(list))

KeptInv == ~overlapped =>
  /\ decisions = Newest(decided)
  /\ \A h \in Handler : handler[h].at = "write" => handler[h].seen = decisions
  /\ \A g, h \in Handler : handler[g].at # "free" /\ handler[h].at # "free" => g = h

IdleHandlers == \A h \in Handler : handler[h].at = "free" => handler[h] = Ready

IntentInv == IntentRows /\ IdleHandlers /\ HaltInv /\ KeptInv

-----------------------------------------------------------------------------
LEMMA ReadyIs == Ready \in HandlerRow /\ Ready.at = "free" /\ Ready.asks = "nothing"
BY DEF Ready, HandlerRow, Asks

LEMMA IntentInitInv == IntentInit => IntentInv
<1> SUFFICES ASSUME IntentInit PROVE IntentInv
  OBVIOUS
<1>1. main \in MainRow /\ main.at = "start" /\ main.status = "none"
  BY DEF IntentInit, MainRow
<1>2. pump \in PumpRow /\ pump.at = "none"
  BY DEF IntentInit, PumpRow
<1>3. calling \in CallRow
  BY DEF IntentInit, Silence, CallRow
<1>4. decisions = <<>> /\ decided = <<>> /\ Newest(<<>>) = <<>>
  BY IntentAssumption DEF IntentInit, Newest
<1>5. IntentRows
  BY <1>1, <1>2, <1>3, <1>4, ReadyIs DEF IntentInit, IntentRows
<1> QED BY <1>1, <1>2, <1>4, <1>5, ReadyIs
        DEF IntentInit, IntentInv, IdleHandlers, HaltInv, KeptInv

LEMMA NewestDrained ==
  ASSUME NEW list \in Seq(Entry), NEW e \in Entry
  PROVE  /\ Drained(Append(Newest(list), e)) = Newest(Append(list, e))
         /\ Newest(Append(list, e)) \in Seq(Entry)
<1>1. Keep \in Nat /\ Keep > 0 /\ Len(list) \in Nat
  BY IntentAssumption
<1>2. Append(list, e) \in Seq(Entry) /\ Len(Append(list, e)) = Len(list) + 1
  OBVIOUS
<1>3. CASE Len(list) <= Keep
  <2>1. Newest(list) = list
    <3>1. ~(Len(list) > Keep)
      BY <1>1, <1>3
    <3> QED BY <3>1, SubSeqFull DEF Newest
  <2>2. CASE Len(list) + 1 <= Keep
    <3>1. Newest(Append(list, e)) = Append(list, e)
      <4>1. ~(Len(Append(list, e)) > Keep)
        BY <1>1, <1>2, <2>2
      <4> QED BY <1>2, <4>1, SubSeqFull DEF Newest
    <3> QED BY <1>1, <1>2, <2>1, <2>2, <3>1 DEF Drained
  <2>3. CASE Len(list) + 1 > Keep
    <3>1. Newest(Append(list, e)) = SubSeq(Append(list, e), Len(list) + 1 - Keep + 1, Len(list) + 1)
      BY <1>1, <1>2, <2>3 DEF Newest
    <3>2. Drained(Append(list, e)) = SubSeq(Append(list, e), Len(list) + 1 - Keep + 1, Len(list) + 1)
      BY <1>1, <1>2, <2>3 DEF Drained
    <3>3. Newest(Append(list, e)) \in Seq(Entry)
      BY <1>1, <1>2, <1>3, <2>3, <3>1
    <3> QED BY <2>1, <3>1, <3>2, <3>3
  <2> QED BY <1>1, <2>2, <2>3
<1>4. CASE Len(list) > Keep
  <2> DEFINE n == Len(list) - Keep
             kept == SubSeq(list, n + 1, Len(list))
             more == Append(kept, e)
             all == Append(list, e)
  <2>1. Newest(list) = kept /\ n \in Nat /\ n > 0
    BY <1>1, <1>4 DEF Newest
  <2>2. kept \in Seq(Entry) /\ Len(kept) = Keep /\ \A i \in 1..Keep : kept[i] = list[n + i]
    BY <1>1, <1>4
  <2> HIDE DEF kept
  <2>3. more \in Seq(Entry) /\ Len(more) = Keep + 1
        /\ \A i \in 1..(Keep + 1) : more[i] = IF i = Keep + 1 THEN e ELSE kept[i]
    BY <1>1, <2>2
  <2>4. all \in Seq(Entry) /\ Len(all) = Len(list) + 1
        /\ \A i \in 1..(Len(list) + 1) : all[i] = IF i = Len(list) + 1 THEN e ELSE list[i]
    BY <1>1
  <2>5. Drained(more) = SubSeq(more, 2, Keep + 1)
    BY <1>1, <2>3 DEF Drained
  <2>6. Newest(all) = SubSeq(all, n + 2, Len(list) + 1)
    <3> HIDE DEF all
    <3>1. Len(all) > Keep /\ Len(all) - Keep + 1 = n + 2
      BY <1>1, <1>4, <2>4
    <3> QED BY <2>4, <3>1 DEF Newest
  <2> HIDE DEF more, all
  <2>7. /\ SubSeq(more, 2, Keep + 1) \in Seq(Entry) /\ Len(SubSeq(more, 2, Keep + 1)) = Keep
        /\ \A i \in 1..Keep : SubSeq(more, 2, Keep + 1)[i] = more[i + 1]
    BY <1>1, <2>3
  <2>8. /\ SubSeq(all, n + 2, Len(list) + 1) \in Seq(Entry)
        /\ Len(SubSeq(all, n + 2, Len(list) + 1)) = Keep
        /\ \A i \in 1..Keep : SubSeq(all, n + 2, Len(list) + 1)[i] = all[n + 1 + i]
    BY <1>1, <1>4, <2>1, <2>4
  <2>9. ASSUME NEW i \in 1..Keep PROVE more[i + 1] = all[n + 1 + i]
    <3>1. CASE i = Keep
      <4>1. n + 1 + i = Len(list) + 1
        BY <1>1, <3>1
      <4> QED BY <1>1, <2>3, <2>4, <3>1, <4>1
    <3>2. CASE i < Keep
      <4>1. i + 1 \in 1..Keep /\ n + 1 + i \in 1..Len(list) /\ n + (i + 1) = n + 1 + i
        BY <1>1, <1>4, <2>1, <3>2
      <4>2. more[i + 1] = kept[i + 1] /\ all[n + 1 + i] = list[n + 1 + i]
        BY <1>1, <2>3, <2>4, <4>1
      <4> QED BY <2>2, <4>1, <4>2
    <3> QED BY <1>1, <3>1, <3>2
  <2>10. SubSeq(more, 2, Keep + 1) = SubSeq(all, n + 2, Len(list) + 1)
    <3> HIDE DEF n
    <3>1. ASSUME NEW i \in 1..Keep
          PROVE  SubSeq(more, 2, Keep + 1)[i] = SubSeq(all, n + 2, Len(list) + 1)[i]
      <4>1. SubSeq(more, 2, Keep + 1)[i] = more[i + 1]
        BY <2>7
      <4>2. SubSeq(all, n + 2, Len(list) + 1)[i] = all[n + 1 + i]
        BY <2>8
      <4> QED BY <2>9, <4>1, <4>2
    <3> QED BY <2>7, <2>8, <3>1, SeqEqual
  <2> QED BY <2>1, <2>5, <2>6, <2>8, <2>10 DEF more, all
<1> QED BY <1>1, <1>3, <1>4

-----------------------------------------------------------------------------
(* The hub's handlers *)

\* The row of one handler becomes r.
LEMMA HandlerBecomes ==
  ASSUME IntentRows, NEW h \in Handler, NEW r \in HandlerRow, handler' = [handler EXCEPT ![h] = r]
  PROVE  /\ handler' \in [Handler -> HandlerRow] /\ handler'[h] = r
         /\ \A g \in Handler \ {h} : handler'[g] = handler[g]
BY DEF IntentRows

LEMMA ReadsDecisions ==
  ASSUME IntentInv, NEW h \in Handler, ReadDecisions(h)
  PROVE  IntentInv'
<1> DEFINE r == [handler[h] EXCEPT !.at = "write", !.seen = decisions]
<1>1. handler[h] \in HandlerRow /\ decisions \in Seq(Entry) /\ handler[h].at = "read"
  BY DEF IntentInv, IntentRows, ReadDecisions
<1>2. r \in HandlerRow /\ r.at = "write" /\ r.seen = decisions /\ r.asks = handler[h].asks
  BY <1>1 DEF HandlerRow
<1>3. handler' = [handler EXCEPT ![h] = r]
  BY <1>1 DEF ReadDecisions, IntentInv, IntentRows
<1> HIDE DEF r
<1>4. /\ handler' \in [Handler -> HandlerRow] /\ handler'[h] = r
      /\ \A g \in Handler \ {h} : handler'[g] = handler[g]
  BY <1>2, <1>3, HandlerBecomes DEF IntentInv
<1>5. UNCHANGED <<script, pump, outcome, main, calling, taskState, decisions, decided, overlapped>>
  BY DEF ReadDecisions, hub
<1>6. IntentRows' /\ IdleHandlers' /\ HaltInv'
  BY <1>1, <1>2, <1>4, <1>5 DEF IntentInv, IntentRows, IdleHandlers, HaltInv
<1>7. KeptInv'
  BY <1>1, <1>2, <1>4, <1>5 DEF IntentInv, KeptInv, Newest
<1> QED BY <1>6, <1>7 DEF IntentInv

LEMMA WritesDecisions ==
  ASSUME IntentInv, NEW h \in Handler, WriteDecisions(h)
  PROVE  IntentInv'
<1> DEFINE entry == <<handler[h].asks, Verdict(handler[h].asks)>>
           next == IF handler[h].asks \in IntentKinds THEN "answer" ELSE "finish"
           r == [handler[h] EXCEPT !.at = next]
<1>1. /\ handler[h] \in HandlerRow /\ handler[h].at = "write" /\ handler[h].seen \in Seq(Entry)
      /\ decided \in Seq(Entry)
  BY DEF IntentInv, IntentRows, WriteDecisions, HandlerRow
<1>2. entry \in Entry
  BY <1>1 DEF Entry, HandlerRow, Verdict, EvaluateIntent
<1>3. /\ decisions' = Drained(Append(handler[h].seen, entry)) /\ decided' = Append(decided, entry)
      /\ handler' = [handler EXCEPT ![h] = r]
      /\ UNCHANGED <<script, pump, outcome, main, calling, taskState, overlapped>>
  BY <1>1 DEF WriteDecisions, IntentInv, IntentRows
<1> HIDE DEF entry
<1>4. next \in {"answer", "finish"}
  OBVIOUS
<1> HIDE DEF next
<1>5. r \in HandlerRow /\ r.at \in {"answer", "finish"} /\ r.asks = handler[h].asks
  BY <1>1, <1>4 DEF HandlerRow
<1> HIDE DEF r
<1>6. /\ handler' \in [Handler -> HandlerRow] /\ handler'[h] = r
      /\ \A g \in Handler \ {h} : handler'[g] = handler[g]
  BY <1>3, <1>5, HandlerBecomes DEF IntentInv
<1>7. decided' \in Seq(Entry)
  BY <1>1, <1>2, <1>3
<1>8. decisions' \in Seq(Entry)
  <2>1. Append(handler[h].seen, entry) \in Seq(Entry)
    BY <1>1, <1>2
  <2>2. ASSUME NEW list \in Seq(Entry) PROVE Drained(list) \in Seq(Entry)
    BY IntentAssumption DEF Drained
  <2> QED BY <1>3, <2>1, <2>2
<1>9. IntentRows' /\ IdleHandlers' /\ HaltInv'
  BY <1>1, <1>3, <1>5, <1>6, <1>7, <1>8 DEF IntentInv, IntentRows, IdleHandlers, HaltInv
<1>10. KeptInv'
  <2> SUFFICES ASSUME ~overlapped PROVE KeptInv'
    BY <1>3 DEF KeptInv
  <2>1. handler[h].seen = Newest(decided) /\ \A g \in Handler : handler[g].at # "free" => g = h
    BY <1>1 DEF IntentInv, KeptInv
  <2>2. decisions' = Newest(decided')
    BY <1>1, <1>2, <1>3, <2>1, NewestDrained
  <2>3. Newest(decided)' = Newest(decided')
    BY DEF Newest
  <2>4. \A g \in Handler : handler'[g].at # "write" /\ (handler'[g].at # "free" => g = h)
    BY <1>5, <1>6, <2>1
  <2> QED BY <2>2, <2>3, <2>4 DEF KeptInv
<1> QED BY <1>9, <1>10 DEF IntentInv

LEMMA EndsTask ==
  ASSUME IntentInv, NEW h \in Handler, EndTask(h)
  PROVE  IntentInv'
<1> DEFINE r == [handler[h] EXCEPT !.at = "answer"]
<1>1. handler[h] \in HandlerRow /\ handler[h].at = "finish" /\ taskState' = handler[h].asks
  BY DEF IntentInv, IntentRows, EndTask
<1>2. r \in HandlerRow /\ r.at = "answer" /\ r.asks = handler[h].asks
  BY <1>1 DEF HandlerRow
<1>3. /\ handler' = [handler EXCEPT ![h] = r]
      /\ UNCHANGED <<script, pump, outcome, main, calling, decisions, decided, overlapped>>
  BY <1>1 DEF EndTask, IntentInv, IntentRows
<1> HIDE DEF r
<1>4. /\ handler' \in [Handler -> HandlerRow] /\ handler'[h] = r
      /\ \A g \in Handler \ {h} : handler'[g] = handler[g]
  BY <1>2, <1>3, HandlerBecomes DEF IntentInv
<1>5. IntentRows' /\ IdleHandlers' /\ HaltInv'
  BY <1>1, <1>2, <1>3, <1>4 DEF IntentInv, IntentRows, IdleHandlers, HaltInv
<1>6. KeptInv'
  BY <1>1, <1>2, <1>3, <1>4 DEF IntentInv, KeptInv, Newest
<1> QED BY <1>5, <1>6 DEF IntentInv

LEMMA LetsHandlerGo ==
  ASSUME IntentInv, NEW h \in Handler, handler' = [handler EXCEPT ![h] = Ready],
         NEW told \in {"none", "allowed", "needs_approval", "error"},
         calling' \in {calling, [calling EXCEPT !.answer = told]},
         UNCHANGED <<script, pump, outcome, main, taskState, decisions, decided, overlapped>>
  PROVE  IntentInv'
<1>1. /\ handler' \in [Handler -> HandlerRow] /\ handler'[h] = Ready
      /\ \A g \in Handler \ {h} : handler'[g] = handler[g]
  BY ReadyIs, HandlerBecomes DEF IntentInv
<1>2. calling' \in CallRow
  BY DEF IntentInv, IntentRows, CallRow
<1>3. IntentRows' /\ IdleHandlers' /\ HaltInv'
  BY <1>1, <1>2, ReadyIs DEF IntentInv, IntentRows, IdleHandlers, HaltInv
<1>4. KeptInv'
  BY <1>1, ReadyIs DEF IntentInv, KeptInv, Newest
<1> QED BY <1>3, <1>4 DEF IntentInv

LEMMA HandlersAnswer ==
  ASSUME IntentInv, NEW h \in Handler, AnswerIntent(h) \/ HandlerFails(h)
  PROVE  IntentInv'
<1>1. CASE AnswerIntent(h)
  <2>1. Verdict(handler[h].asks) \in {"allowed", "needs_approval"}
    BY DEF Verdict, EvaluateIntent
  <2>2. calling' \in {calling, [calling EXCEPT !.answer = Verdict(handler[h].asks)]}
    BY <1>1 DEF AnswerIntent
  <2> QED BY <1>1, <2>1, <2>2, LetsHandlerGo DEF AnswerIntent, hub
<1>2. CASE HandlerFails(h)
  BY <1>2, LetsHandlerGo DEF HandlerFails, hub
<1> QED BY <1>1, <1>2

-----------------------------------------------------------------------------
(* The runner *)

\* A request arrives; "done" is asked for only by a runner that is done.
LEMMA Arrives ==
  ASSUME IntentInv, NEW asks \in Asks, NEW tries \in Nat, Arrive(asks, tries),
         UNCHANGED <<script, decisions, decided>>, main' \in MainRow, pump' \in PumpRow,
         asks = "done" => main'.status = "done", main.status = "done" => main'.status = "done"
  PROVE  /\ IntentRows' /\ IdleHandlers' /\ KeptInv'
         /\ \A h \in Handler : handler'[h].asks = "done" => main'.status = "done"
<1> DEFINE h == CHOOSE free \in Handler : handler[free] = Ready
           r == [handler[h] EXCEPT !.at = "read", !.asks = asks]
           c == [handler |-> h, tries |-> tries, answer |-> "none"]
<1>1. h \in Handler /\ handler[h] = Ready
  BY DEF Arrive
<1>2. /\ handler' = [handler EXCEPT ![h].at = "read", ![h].asks = asks] /\ calling' = c
      /\ overlapped' = (overlapped \/ \E other \in Handler : handler[other] # Ready)
  BY DEF Arrive
<1> HIDE DEF h
<1>3. r \in HandlerRow /\ r.at = "read" /\ r.asks = asks
  BY <1>1, ReadyIs DEF HandlerRow
<1>4. handler' = [handler EXCEPT ![h] = r]
  BY <1>1, <1>2 DEF IntentInv, IntentRows, HandlerRow
<1>5. calling' \in CallRow
  BY <1>1, <1>2 DEF CallRow
<1> HIDE DEF r, c
<1>6. /\ handler' \in [Handler -> HandlerRow] /\ handler'[h] = r
      /\ \A g \in Handler \ {h} : handler'[g] = handler[g]
  BY <1>1, <1>3, <1>4, HandlerBecomes DEF IntentInv
<1>7. IntentRows'
  BY <1>5, <1>6 DEF IntentInv, IntentRows
<1>8. IdleHandlers' /\ \A g \in Handler : handler'[g].asks = "done" => main'.status = "done"
  BY <1>3, <1>6 DEF IntentInv, IdleHandlers, HaltInv
<1>9. KeptInv'
  <2> SUFFICES ASSUME ~overlapped' PROVE KeptInv'
    BY DEF KeptInv
  <2>1. ~overlapped /\ \A g \in Handler : handler[g] = Ready
    BY <1>2
  <2>2. decisions = Newest(decided)
    BY <2>1 DEF IntentInv, KeptInv
  <2>3. \A g \in Handler \ {h} : handler'[g].at = "free"
    BY <1>6, <2>1, ReadyIs
  <2>4. \A g \in Handler : handler'[g].at # "write" /\ (handler'[g].at # "free" => g = h)
    BY <1>3, <1>6, <2>3
  <2> QED BY <2>2, <2>4 DEF KeptInv, Newest
<1> QED BY <1>7, <1>8, <1>9

\* The steps of the runner that ask nothing of the hub.
LEMMA RunnerMoves ==
  ASSUME IntentInv, UNCHANGED <<script, handler, taskState, decisions, decided, overlapped>>,
         calling' \in {calling, Silence}, main' \in MainRow, pump' \in PumpRow,
         outcome' = "denied" => pump'.at = "done",
         main'.at \in {"start", "gate"} => pump'.at = "none",
         main.status = "done" => main'.status = "done",
         main'.status = "done" => /\ outcome' # "denied" /\ pump'.at = "done"
                                  /\ main'.at \in {"submit", "report", "end"}
  PROVE  IntentInv'
<1>1. calling' \in CallRow
  BY DEF IntentInv, IntentRows, Silence, CallRow
<1>2. IntentRows' /\ IdleHandlers' /\ KeptInv'
  BY <1>1 DEF IntentInv, IntentRows, IdleHandlers, KeptInv, Newest
<1>3. HaltInv'
  BY DEF IntentInv, HaltInv
<1> QED BY <1>2, <1>3 DEF IntentInv

LEMMA MainIs ==
  ASSUME IntentInv
  PROVE  /\ main \in MainRow /\ pump \in PumpRow
         /\ \A at \in {"start", "gate", "wait", "join", "submit", "report", "end"} :
              /\ [main EXCEPT !.at = at] \in MainRow
              /\ [main EXCEPT !.at = at].at = at /\ [main EXCEPT !.at = at].status = main.status
         /\ \A at \in {"none", "reading", "asking", "done"} :
              /\ [pump EXCEPT !.at = at] \in PumpRow /\ [pump EXCEPT !.at = at].at = at
BY DEF IntentInv, IntentRows, MainRow, PumpRow

LEMMA TimesOut == ASSUME IntentInv, TimeOut PROVE IntentInv'
<1> DEFINE asks == handler[calling.handler].asks
<1>1. /\ calling.handler \in Handler /\ calling \in CallRow
      /\ UNCHANGED <<script, pump, outcome, main, taskState, decisions, decided>>
  BY DEF TimeOut, IntentInv, IntentRows, CallRow, hub
<1>2. CASE Arrive(asks, calling.tries + 1)
  <2>1. asks \in Asks /\ calling.tries + 1 \in Nat
    BY <1>1 DEF IntentInv, IntentRows, HandlerRow, CallRow
  <2>2. asks = "done" => main.status = "done"
    BY <1>1 DEF IntentInv, HaltInv
  <2> HIDE DEF asks
  <2>3. /\ IntentRows' /\ IdleHandlers' /\ KeptInv'
        /\ \A h \in Handler : handler'[h].asks = "done" => main'.status = "done"
    BY <1>1, <1>2, <2>1, <2>2, MainIs, Arrives
  <2>4. HaltInv'
    BY <1>1, <2>3 DEF IntentInv, HaltInv
  <2> QED BY <2>3, <2>4 DEF IntentInv
<1>3. CASE /\ calling' = [calling EXCEPT !.answer = "error"] /\ UNCHANGED <<handler, overlapped>>
  <2>1. calling' \in CallRow
    BY <1>1, <1>3 DEF CallRow
  <2>2. IntentRows' /\ IdleHandlers' /\ KeptInv' /\ HaltInv'
    BY <1>1, <1>3, <2>1 DEF IntentInv, IntentRows, IdleHandlers, KeptInv, Newest, HaltInv
  <2> QED BY <2>2 DEF IntentInv
<1> QED BY <1>2, <1>3 DEF TimeOut

LEMMA PumpSteps == ASSUME IntentInv, Pumping PROVE IntentInv'
<1>1. ASSUME PumpNext, NEW asks \in IntentKinds, Arrive(asks, 1), pump' = [pump EXCEPT !.at = "asking"]
      PROVE  IntentInv'
  <2>1. asks \in Asks /\ asks # "done" /\ 1 \in Nat
    BY DEF Asks, IntentKinds
  <2>2. pump.at = "reading" /\ UNCHANGED <<script, outcome, main, taskState, decisions, decided>>
    BY <1>1 DEF PumpNext, hub
  <2>3. pump' \in PumpRow /\ pump'.at = "asking" /\ main' \in MainRow
    BY <1>1, <2>2, MainIs
  <2>4. /\ IntentRows' /\ IdleHandlers' /\ KeptInv'
        /\ \A h \in Handler : handler'[h].asks = "done" => main'.status = "done"
    BY <1>1, <2>1, <2>2, <2>3, Arrives
  <2>5. HaltInv'
    BY <2>2, <2>3, <2>4 DEF IntentInv, HaltInv
  <2> QED BY <2>4, <2>5 DEF IntentInv
<1>2. CASE /\ PumpNext /\ pump' = [pump EXCEPT !.read = @ + 1]
           /\ UNCHANGED <<calling, handler, overlapped>>
  <2>1. pump' \in PumpRow /\ pump'.at = pump.at /\ pump.at = "reading"
    BY <1>2, MainIs DEF PumpRow, PumpNext
  <2> QED BY <1>2, <2>1, MainIs, RunnerMoves DEF PumpNext, hub, IntentInv, HaltInv
<1>3. CASE PumpEnds
  BY <1>3, MainIs, RunnerMoves DEF PumpEnds, hub, IntentInv, HaltInv
<1>4. CASE PumpAnswered
  <2>1. pump.at = "asking" /\ UNCHANGED <<script, main, handler, taskState, decisions, decided, overlapped>>
        /\ calling' = Silence
    BY <1>4 DEF PumpAnswered, hub
  <2>2. CASE pump' = [at |-> "reading", read |-> pump.read + 1] /\ UNCHANGED outcome
    <3>1. pump' \in PumpRow /\ pump'.at = "reading"
      BY <2>2, MainIs DEF PumpRow
    <3> QED BY <2>1, <2>2, <3>1, MainIs, RunnerMoves DEF IntentInv, HaltInv
  <2>3. CASE pump' = [pump EXCEPT !.at = "done"] /\ outcome' = "denied"
    <3>1. pump' \in PumpRow /\ pump'.at = "done" /\ main.status # "done"
      BY <2>1, <2>3, MainIs DEF IntentInv, HaltInv
    <3> QED BY <2>1, <2>3, <3>1, MainIs, RunnerMoves DEF IntentInv, HaltInv
  <2> QED BY <1>4, <2>2, <2>3 DEF PumpAnswered
<1> QED BY <1>1, <1>2, <1>3, <1>4 DEF Pumping, PumpNext

LEMMA Starts == ASSUME IntentInv, Start PROVE IntentInv'
<1>1. /\ main.at = "start" /\ pump.at = "none" /\ outcome # "denied" /\ main.status # "done"
      /\ taskState' # "done" /\ UNCHANGED <<script, outcome, decisions, decided>>
  BY DEF Start, IntentInv, HaltInv
<1>2. CASE Arrive("shell_exec", 1) /\ main' = [main EXCEPT !.at = "gate"] /\ UNCHANGED pump
  <2>1. main' \in MainRow /\ pump' \in PumpRow /\ main'.at = "gate" /\ main'.status = main.status
    BY <1>2, MainIs
  <2>2. "shell_exec" \in Asks
    BY DEF Asks, IntentKinds
  <2>3. /\ IntentRows' /\ IdleHandlers' /\ KeptInv'
        /\ \A h \in Handler : handler'[h].asks = "done" => main'.status = "done"
    BY <1>1, <1>2, <2>1, <2>2, Arrives
  <2>4. HaltInv'
    BY <1>1, <1>2, <2>1, <2>3 DEF HaltInv
  <2> QED BY <2>3, <2>4 DEF IntentInv
<1>3. CASE /\ main' = [main EXCEPT !.at = "wait"] /\ pump' = [pump EXCEPT !.at = "reading"]
           /\ UNCHANGED <<calling, handler, overlapped>>
  <2>1. main' \in MainRow /\ pump' \in PumpRow /\ main'.at = "wait" /\ main'.status = main.status
    BY <1>3, MainIs
  <2>2. IntentRows' /\ IdleHandlers' /\ KeptInv'
    BY <1>1, <1>3, <2>1 DEF IntentInv, IntentRows, IdleHandlers, KeptInv, Newest
  <2>3. HaltInv'
    BY <1>1, <1>3, <2>1 DEF IntentInv, HaltInv
  <2> QED BY <2>2, <2>3 DEF IntentInv
<1> QED BY <1>2, <1>3 DEF Start

LEMMA Spawns == ASSUME IntentInv, Spawn PROVE IntentInv'
<1>1. /\ main.at = "gate" /\ pump.at = "none" /\ outcome # "denied" /\ main.status # "done"
      /\ calling' = Silence
      /\ UNCHANGED <<script, outcome, handler, taskState, decisions, decided, overlapped>>
  BY DEF Spawn, IntentInv, HaltInv, hub
<1>2. CASE main' = [main EXCEPT !.at = "wait"] /\ pump' = [pump EXCEPT !.at = "reading"]
  <2>1. main' \in MainRow /\ pump' \in PumpRow /\ main'.at = "wait" /\ main'.status = main.status
    BY <1>2, MainIs
  <2> QED BY <1>1, <2>1, RunnerMoves
<1>3. CASE main' = [main EXCEPT !.at = "submit", !.status = "failed"] /\ UNCHANGED pump
  <2>1. main' \in MainRow /\ pump' \in PumpRow /\ main'.at = "submit" /\ main'.status = "failed"
    BY <1>3, MainIs DEF MainRow
  <2> QED BY <1>1, <2>1, RunnerMoves
<1> QED BY <1>2, <1>3 DEF Spawn

LEMMA Selects == ASSUME IntentInv, Select PROVE IntentInv'
<1>1. /\ main.at = "wait" /\ main.status # "done" /\ script.code \in Int
      /\ UNCHANGED <<script, pump, outcome, calling, handler, taskState, decisions, decided, overlapped>>
  BY IntentAssumption DEF Select, IntentInv, IntentRows, HaltInv, hub
<1>2. PICK code \in Int : main' = [main EXCEPT !.at = "join", !.code = code]
  <2>1. -1 \in Int
    OBVIOUS
  <2> QED BY <1>1, <2>1 DEF Select
<1>3. main' \in MainRow /\ main'.at = "join" /\ main'.status = main.status
  BY <1>2, MainIs DEF MainRow
<1> QED BY <1>1, <1>3, MainIs, RunnerMoves DEF IntentInv, HaltInv

LEMMA Joins == ASSUME IntentInv, Join PROVE IntentInv'
<1>1. /\ main.at = "join" /\ main.status # "done" /\ pump.at = "done"
      /\ UNCHANGED <<script, pump, outcome, calling, handler, taskState, decisions, decided, overlapped>>
  BY DEF Join, IntentInv, HaltInv, hub
<1>2. ResultStatus \in {"done", "failed"} /\ (ResultStatus = "done" => outcome # "denied")
  BY DEF ResultStatus
<1>3. main' \in MainRow /\ main'.at = "submit" /\ main'.status = ResultStatus
  BY <1>2, MainIs DEF Join, MainRow
<1> QED BY <1>1, <1>2, <1>3, MainIs, RunnerMoves DEF IntentInv, HaltInv

LEMMA Submits == ASSUME IntentInv, Submit PROVE IntentInv'
<1>1. /\ main.at = "submit" /\ Arrive(main.status, 1) /\ main' = [main EXCEPT !.at = "report"]
      /\ UNCHANGED <<script, pump, outcome, taskState, decisions, decided>>
  BY DEF Submit, hub
<1>2. main' \in MainRow /\ main'.at = "report" /\ main'.status = main.status
  BY <1>1, MainIs
<1>3. main.status \in Asks
  BY MainIs DEF MainRow, Asks
<1>4. /\ IntentRows' /\ IdleHandlers' /\ KeptInv'
      /\ \A h \in Handler : handler'[h].asks = "done" => main'.status = "done"
  BY <1>1, <1>2, <1>3, MainIs, Arrives
<1>5. HaltInv'
  BY <1>1, <1>2, <1>4 DEF IntentInv, HaltInv
<1> QED BY <1>4, <1>5 DEF IntentInv

LEMMA Reports == ASSUME IntentInv, Reported PROVE IntentInv'
<1>1. main' = [main EXCEPT !.at = "end"] /\ main.at = "report"
  BY DEF Reported
<1>2. main' \in MainRow /\ main'.at = "end" /\ main'.status = main.status
  BY <1>1, MainIs
<1> QED BY <1>1, <1>2, MainIs, RunnerMoves DEF Reported, hub, IntentInv, HaltInv

LEMMA IntentStep == ASSUME IntentInv, [IntentNext]_intentVars PROVE IntentInv'
<1>1. ASSUME UNCHANGED <<script, pump, outcome, main, calling, handler, taskState, decisions, decided, overlapped>>
      PROVE  IntentInv'
  BY <1>1 DEF IntentInv, IntentRows, IdleHandlers, HaltInv, KeptInv, Newest
<1>2. CASE UNCHANGED intentVars \/ PrintLine \/ Exit
  BY <1>1, <1>2 DEF intentVars, PrintLine, Exit, hub
<1>3. CASE RunnerStep
  BY <1>3, Starts, Spawns, Selects, Joins, Submits, Reports DEF RunnerStep
<1>4. CASE \E h \in Handler : HubStep(h) \/ HandlerFails(h)
  BY <1>4, ReadsDecisions, WritesDecisions, EndsTask, HandlersAnswer DEF HubStep
<1> QED BY <1>2, <1>3, <1>4, PumpSteps, TimesOut DEF IntentNext

\* A task whose intent was refused, or could not be asked, is never reported
\* as done, also when the process ended by itself before the answer came
\* (run_one_task, pump_stream).
THEOREM HaltedFailsHolds == IntentSpec => []HaltedFails
<1>1. IntentInv => HaltedFails
  BY DEF IntentInv, HaltInv, HaltedFails
<1> QED BY <1>1, IntentInitInv, IntentStep, PTL DEF IntentSpec

\* While no two handlers of the task overlapped, its record is what was
\* decided, the newest kept (append_task_policy_decision).
THEOREM DecisionsKeptHolds == IntentSpec => []DecisionsKept
<1>1. IntentInv => DecisionsKept
  BY DEF IntentInv, KeptInv, Newest, DecisionsKept
<1> QED BY <1>1, IntentInitInv, IntentStep, PTL DEF IntentSpec

-----------------------------------------------------------------------------
(* What the rows of the intent gate do not say: the lines that were read   *)
(* were printed, a request is tried within its limit and while no answer   *)
(* came a handler is at work on it, a result is submitted with a status,   *)
(* and what a handler ends a task with is one.                             *)
Statuses == {"done", "failed"}
LinesBound ==
  /\ printed \in 0 .. Len(script.lines) /\ pump.read <= printed
  /\ pump.at = "asking" => pump.read < printed
CallBound ==
  /\ calling.tries <= MaxTries
  /\ calling.handler # NoHandler /\ calling.answer = "none" => handler[calling.handler].at # "free"
AskedFor ==
  \A h \in Handler :
    /\ handler[h].at # "free" => handler[h].asks \in IntentKinds \cup Statuses
    /\ handler[h].at = "finish" => handler[h].asks \in Statuses
StateBound ==
  /\ process \in {"none", "runs", "exited", "killed"} /\ outcome \in {"none", "denied"}
  /\ main.at = "submit" => main.status \in Statuses
  /\ taskState \in {"claimed", "running"} \cup Statuses

BoundsInv == LinesBound /\ CallBound /\ AskedFor /\ StateBound /\ Len(decisions) <= Keep

LEMMA BoundsInitInv == IntentInit => BoundsInv
<1> SUFFICES ASSUME IntentInit PROVE BoundsInv
  OBVIOUS
<1>1. script.lines \in Seq(STRING)
  BY IntentAssumption DEF IntentInit
<1>2. Len(script.lines) \in Nat
  BY <1>1
<1> QED BY <1>2, ReadyIs, IntentAssumption
        DEF IntentInit, BoundsInv, LinesBound, CallBound, AskedFor, StateBound, Silence

(* A list that was written back is no longer than what is kept. *)
LEMMA DrainedBound ==
  ASSUME NEW list \in Seq(Entry)
  PROVE  Len(Drained(list)) <= Keep
<1>1. Keep \in Nat \ {0} /\ Len(list) \in Nat
  BY IntentAssumption
<1>2. CASE Len(list) > Keep
  <2>1. Len(SubSeq(list, Len(list) - Keep + 1, Len(list))) = Keep
    BY <1>1, <1>2
  <2> QED BY <1>1, <1>2, <2>1 DEF Drained
<1>3. CASE ~ (Len(list) > Keep)
  BY <1>1, <1>3 DEF Drained
<1> QED BY <1>2, <1>3

(* A handler takes a step, and stays at work on what it was asked. *)
LEMMA HandlerGoesOn ==
  ASSUME IntentInv, BoundsInv, NEW h \in Handler, NEW r \in HandlerRow,
         handler' = [handler EXCEPT ![h] = r], handler[h].at # "free",
         UNCHANGED <<calling, script, printed, pump>>,
         r.at # "free", r.asks = handler[h].asks, r.at = "finish" => r.asks \in Statuses
  PROVE  LinesBound' /\ CallBound' /\ AskedFor'
<1>1. handler'[h] = r /\ \A g \in Handler \ {h} : handler'[g] = handler[g]
  BY HandlerBecomes DEF IntentInv
<1>2. calling.handler \in Handler \cup {NoHandler}
  BY DEF IntentInv, IntentRows, CallRow
<1> QED BY <1>1, <1>2 DEF BoundsInv, LinesBound, CallBound, AskedFor

LEMMA HubStepBound ==
  ASSUME IntentInv, BoundsInv, NEW h \in Handler, HubStep(h) \/ HandlerFails(h)
  PROVE  BoundsInv'
<1>1. /\ handler[h] \in HandlerRow /\ handler[h].seen \in Seq(Entry) /\ decisions \in Seq(Entry)
      /\ handler \in [Handler -> HandlerRow] /\ calling \in CallRow
  BY DEF IntentInv, IntentRows, HandlerRow
<1>2. CASE ReadDecisions(h)
  <2> DEFINE r == [handler[h] EXCEPT !.at = "write", !.seen = decisions]
  <2>1. handler' = [handler EXCEPT ![h] = r] /\ handler[h].at = "read"
    BY <1>1, <1>2 DEF ReadDecisions, HandlerRow
  <2>2. r \in HandlerRow /\ r.at = "write" /\ r.asks = handler[h].asks
    BY <1>1 DEF HandlerRow
  <2> HIDE DEF r
  <2>3. LinesBound' /\ CallBound' /\ AskedFor'
    BY <1>2, <2>1, <2>2, HandlerGoesOn DEF ReadDecisions
  <2> QED BY <1>2, <2>3 DEF ReadDecisions, hub, BoundsInv, StateBound
<1>3. CASE WriteDecisions(h)
  <2> DEFINE next == IF handler[h].asks \in IntentKinds THEN "answer" ELSE "finish"
             r == [handler[h] EXCEPT !.at = next]
             entry == <<handler[h].asks, Verdict(handler[h].asks)>>
  <2>1. /\ handler' = [handler EXCEPT ![h] = r] /\ handler[h].at = "write"
        /\ decisions' = Drained(Append(handler[h].seen, entry))
        /\ UNCHANGED <<script, process, printed, pump, outcome, main, calling, taskState>>
    BY <1>1, <1>3 DEF WriteDecisions
  <2>2. entry \in Entry
    BY <1>1 DEF Entry, HandlerRow, Verdict, EvaluateIntent
  <2>3. next \in {"answer", "finish"} /\ (next = "finish" => handler[h].asks \in Statuses)
    BY <2>1 DEF BoundsInv, AskedFor
  <2> HIDE DEF next, entry
  <2>4. r \in HandlerRow /\ r.at = next /\ r.asks = handler[h].asks
    BY <1>1, <2>3 DEF HandlerRow
  <2> HIDE DEF r
  <2>5. LinesBound' /\ CallBound' /\ AskedFor'
    BY <2>1, <2>3, <2>4, HandlerGoesOn
  <2>6. Append(handler[h].seen, entry) \in Seq(Entry)
    BY <1>1, <2>2
  <2>7. Len(decisions') <= Keep
    BY <2>1, <2>6, DrainedBound
  <2> QED BY <2>1, <2>5, <2>7 DEF BoundsInv, StateBound
<1>4. CASE EndTask(h)
  <2> DEFINE r == [handler[h] EXCEPT !.at = "answer"]
  <2>1. /\ handler' = [handler EXCEPT ![h] = r] /\ handler[h].at = "finish"
        /\ taskState' = handler[h].asks
        /\ UNCHANGED <<script, process, printed, pump, outcome, main, calling, decisions>>
    BY <1>1, <1>4 DEF EndTask
  <2>2. r \in HandlerRow /\ r.at = "answer" /\ r.asks = handler[h].asks
    BY <1>1 DEF HandlerRow
  <2> HIDE DEF r
  <2>3. LinesBound' /\ CallBound' /\ AskedFor'
    BY <2>1, <2>2, HandlerGoesOn
  <2>4. taskState' \in Statuses
    BY <2>1 DEF BoundsInv, AskedFor
  <2> QED BY <2>1, <2>3, <2>4 DEF BoundsInv, StateBound
<1>5. CASE AnswerIntent(h) \/ HandlerFails(h)
  <2>1. /\ handler' = [handler EXCEPT ![h] = Ready] /\ calling'.tries = calling.tries
        /\ calling'.handler = calling.handler
        /\ calling'.answer = "none" => calling.answer = "none" /\ calling.handler # h
        /\ UNCHANGED <<script, process, printed, pump, outcome, main, taskState, decisions>>
    <3>1. UNCHANGED <<script, process, printed, pump, outcome, main, taskState, decisions>>
          /\ handler' = [handler EXCEPT ![h] = Ready]
      BY <1>5 DEF AnswerIntent, HandlerFails, hub
    <3>2. \E said : /\ said # "none"
                    /\ calling' = IF calling.handler = h /\ calling.answer = "none"
                                  THEN [calling EXCEPT !.answer = said] ELSE calling
      <4>1. Verdict(handler[h].asks) # "none"
        BY DEF Verdict, EvaluateIntent
      <4> QED BY <1>5, <4>1 DEF AnswerIntent, HandlerFails
    <3> QED BY <1>1, <3>1, <3>2 DEF CallRow
  <2>2. handler'[h] = Ready /\ \A g \in Handler \ {h} : handler'[g] = handler[g]
    BY <2>1, ReadyIs, HandlerBecomes DEF IntentInv
  <2>3. CallBound'
    BY <1>1, <2>1, <2>2 DEF CallRow, BoundsInv, CallBound
  <2>4. AskedFor'
    BY <2>2, ReadyIs DEF BoundsInv, AskedFor
  <2> QED BY <2>1, <2>3, <2>4 DEF BoundsInv, LinesBound, StateBound
<1> QED BY <1>2, <1>3, <1>4, <1>5 DEF HubStep

(* A request arrives: a free handler is at work on what it asks. *)
LEMMA ArrivesBound ==
  ASSUME IntentInv, BoundsInv, NEW asks \in IntentKinds \cup Statuses, NEW tries \in Nat,
         Arrive(asks, tries), tries <= MaxTries
  PROVE  CallBound' /\ AskedFor'
<1> DEFINE h == CHOOSE free \in Handler : handler[free] = Ready
           r == [handler[h] EXCEPT !.at = "read", !.asks = asks]
<1>1. h \in Handler /\ handler[h] = Ready
  BY DEF Arrive
<1>2. /\ handler' = [handler EXCEPT ![h].at = "read", ![h].asks = asks]
      /\ calling' = [handler |-> h, tries |-> tries, answer |-> "none"]
  BY DEF Arrive
<1> HIDE DEF h
<1>3. r \in HandlerRow /\ r.at = "read" /\ r.asks = asks
  BY <1>1, ReadyIs DEF HandlerRow, Asks, Statuses
<1>4. handler' = [handler EXCEPT ![h] = r]
  BY <1>1, <1>2 DEF IntentInv, IntentRows, HandlerRow
<1> HIDE DEF r
<1>5. handler'[h] = r /\ \A g \in Handler \ {h} : handler'[g] = handler[g]
  BY <1>1, <1>3, <1>4, HandlerBecomes DEF IntentInv
<1> QED BY <1>2, <1>3, <1>5 DEF BoundsInv, CallBound, AskedFor

(* The runner, its pump, its process and its client. *)
LEMMA SilenceBound ==
  ASSUME IntentInv, BoundsInv, calling' = Silence, UNCHANGED handler
  PROVE  CallBound' /\ AskedFor'
BY IntentAssumption DEF BoundsInv, CallBound, AskedFor, Silence

LEMMA NothingAsked ==
  ASSUME BoundsInv, UNCHANGED <<calling, handler>>
  PROVE  CallBound' /\ AskedFor'
BY DEF BoundsInv, CallBound, AskedFor

LEMMA RunnerBound ==
  ASSUME IntentInv, BoundsInv, RunnerStep
  PROVE  BoundsInv'
<1> USE DEF hub
<1>1. 1 \in Nat /\ 1 <= MaxTries /\ "shell_exec" \in IntentKinds
  BY IntentAssumption DEF IntentKinds
<1>2. CASE Start
  <2>1. CallBound' /\ AskedFor'
    BY <1>1, <1>2, ArrivesBound, NothingAsked DEF Start
  <2>2. pump'.read = pump.read /\ pump'.at # "asking" /\ main'.at # "submit" /\ UNCHANGED <<printed, script>>
    <3>1. pump \in PumpRow /\ pump.at = "none" /\ pump' \in {pump, [pump EXCEPT !.at = "reading"]}
      BY <1>2, MainIs DEF Start, IntentInv, HaltInv
    <3>2. pump'.read = pump.read /\ pump'.at # "asking"
      BY <3>1 DEF PumpRow
    <3>3. main' \in {[main EXCEPT !.at = "gate"], [main EXCEPT !.at = "wait"]}
      BY <1>2 DEF Start
    <3>4. main'.at # "submit"
      BY <3>3, MainIs
    <3> QED BY <1>2, <3>2, <3>4 DEF Start
  <2> QED BY <1>2, <2>1, <2>2 DEF Start, BoundsInv, LinesBound, StateBound
<1>3. CASE Spawn
  <2>1. CallBound' /\ AskedFor'
    BY <1>3, SilenceBound DEF Spawn
  <2>2. pump'.read = pump.read /\ pump'.at # "asking" /\ UNCHANGED <<printed, script>>
    BY <1>3, MainIs DEF Spawn, IntentInv, HaltInv, PumpRow
  <2>3. main'.at = "submit" => main'.status = "failed"
    <3>1. main' \in {[main EXCEPT !.at = "wait"], [main EXCEPT !.at = "submit", !.status = "failed"]}
      BY <1>3 DEF Spawn
    <3>2. main \in MainRow
      BY MainIs
    <3> QED BY <3>1, <3>2 DEF MainRow
  <2> QED BY <1>3, <2>1, <2>2, <2>3 DEF Spawn, BoundsInv, LinesBound, StateBound, Statuses
<1>4. CASE Select
  <2>1. CallBound' /\ AskedFor'
    BY <1>4, NothingAsked DEF Select
  <2>2. main'.at = "join"
    BY <1>4, MainIs DEF Select, MainRow
  <2> QED BY <1>4, <2>1, <2>2 DEF Select, BoundsInv, LinesBound, StateBound
<1>5. CASE Join
  <2>1. CallBound' /\ AskedFor'
    BY <1>5, NothingAsked DEF Join
  <2>2. main'.status \in Statuses
    BY <1>5, MainIs DEF Join, MainRow, ResultStatus, Statuses
  <2> QED BY <1>5, <2>1, <2>2 DEF Join, BoundsInv, LinesBound, StateBound
<1>6. CASE Submit
  <2>1. main.status \in Statuses
    BY <1>6 DEF Submit, BoundsInv, StateBound
  <2>2. CallBound' /\ AskedFor'
    BY <1>1, <1>6, <2>1, ArrivesBound DEF Submit
  <2>3. main'.at = "report"
    BY <1>6, MainIs DEF Submit
  <2> QED BY <1>6, <2>2, <2>3 DEF Submit, BoundsInv, LinesBound, StateBound
<1>7. CASE Reported
  <2>1. CallBound' /\ AskedFor'
    BY <1>7, SilenceBound DEF Reported
  <2>2. main'.at = "end"
    BY <1>7, MainIs DEF Reported
  <2> QED BY <1>7, <2>1, <2>2 DEF Reported, BoundsInv, LinesBound, StateBound
<1> QED BY <1>2, <1>3, <1>4, <1>5, <1>6, <1>7 DEF RunnerStep

LEMMA PumpBound ==
  ASSUME IntentInv, BoundsInv, Pumping
  PROVE  BoundsInv'
<1> USE DEF hub
<1>1. 1 \in Nat /\ 1 <= MaxTries
  BY IntentAssumption
<1>2. pump.read \in Nat /\ pump \in PumpRow
  BY MainIs DEF PumpRow
<1>3. printed \in Nat /\ UNCHANGED <<script, printed>>
  BY DEF BoundsInv, LinesBound, Pumping, PumpNext, PumpEnds, PumpAnswered
<1>4. CASE PumpNext
  <2>1. CASE \E line \in IntentKinds : Arrive(line, 1) /\ pump' = [pump EXCEPT !.at = "asking"]
    <3>1. CallBound' /\ AskedFor'
      BY <1>1, <2>1, ArrivesBound
    <3>2. pump'.read = pump.read /\ pump.read < printed
      BY <1>2, <1>4, <2>1 DEF PumpNext, PumpRow
    <3> QED BY <1>3, <1>4, <3>1, <3>2 DEF PumpNext, BoundsInv, LinesBound, StateBound
  <2>2. CASE pump' = [pump EXCEPT !.read = @ + 1] /\ UNCHANGED <<calling, handler>>
    <3>1. CallBound' /\ AskedFor'
      BY <2>2, NothingAsked
    <3>2. pump'.read = pump.read + 1 /\ pump'.at = "reading" /\ pump.read < printed
      BY <1>2, <1>4, <2>2 DEF PumpNext, PumpRow
    <3> QED BY <1>2, <1>3, <1>4, <3>1, <3>2 DEF PumpNext, BoundsInv, LinesBound, StateBound
  <2> QED BY <1>4, <2>1, <2>2 DEF PumpNext
<1>5. CASE PumpEnds
  <2>1. CallBound' /\ AskedFor'
    BY <1>5, NothingAsked DEF PumpEnds
  <2>2. pump'.read = pump.read /\ pump'.at = "done"
    BY <1>2, <1>5 DEF PumpEnds, PumpRow
  <2> QED BY <1>3, <1>5, <2>1, <2>2 DEF PumpEnds, BoundsInv, LinesBound, StateBound
<1>6. CASE PumpAnswered
  <2>1. CallBound' /\ AskedFor'
    BY <1>6, SilenceBound DEF PumpAnswered
  <2>2. pump.read < printed /\ outcome' \in {"none", "denied"}
    BY <1>6 DEF PumpAnswered, BoundsInv, LinesBound, StateBound
  <2>3. pump'.at \in {"reading", "done"} /\ pump'.read \in {pump.read, pump.read + 1}
    BY <1>2, <1>6 DEF PumpAnswered, PumpRow
  <2> QED BY <1>2, <1>3, <1>6, <2>1, <2>2, <2>3 DEF PumpAnswered, BoundsInv, LinesBound, StateBound
<1> QED BY <1>4, <1>5, <1>6 DEF Pumping

LEMMA TimeOutBound ==
  ASSUME IntentInv, BoundsInv, TimeOut
  PROVE  BoundsInv'
<1>1. /\ calling \in CallRow /\ calling.handler \in Handler /\ calling.answer = "none"
      /\ calling.tries \in Nat /\ MaxTries \in Nat
      /\ UNCHANGED <<script, process, printed, pump, outcome, main, taskState, decisions>>
  BY IntentAssumption DEF TimeOut, IntentInv, IntentRows, CallRow, hub
<1>2. handler[calling.handler].asks \in IntentKinds \cup Statuses
  <2>1. calling.handler # NoHandler
    BY <1>1, IntentAssumption
  <2> QED BY <1>1, <2>1 DEF BoundsInv, CallBound, AskedFor
<1>3. CallBound' /\ AskedFor'
  <2>1. CASE calling.tries < MaxTries /\ Arrive(handler[calling.handler].asks, calling.tries + 1)
    <3>1. calling.tries + 1 \in Nat /\ calling.tries + 1 <= MaxTries
      BY <1>1, <2>1
    <3> QED BY <1>2, <2>1, <3>1, ArrivesBound
  <2>2. CASE calling' = [calling EXCEPT !.answer = "error"] /\ UNCHANGED handler
    <3>1. calling'.answer = "error" /\ calling'.tries = calling.tries
      BY <1>1, <2>2 DEF CallRow
    <3> QED BY <2>2, <3>1 DEF BoundsInv, CallBound, AskedFor
  <2> QED BY <2>1, <2>2 DEF TimeOut
<1> QED BY <1>1, <1>3 DEF BoundsInv, LinesBound, StateBound

LEMMA BoundsStep ==
  ASSUME IntentInv, BoundsInv, [IntentNext]_intentVars
  PROVE  BoundsInv'
<1>1. CASE UNCHANGED intentVars
  BY <1>1 DEF intentVars, BoundsInv, LinesBound, CallBound, AskedFor, StateBound
<1>2. CASE PrintLine
  <2>1. Len(script.lines) \in Nat
    <3>1. script.lines \in Seq(STRING)
      BY IntentAssumption DEF IntentInv, IntentRows
    <3> QED BY <3>1
  <2>2. CallBound' /\ AskedFor'
    BY <1>2, NothingAsked DEF PrintLine
  <2>3. pump.read \in Nat
    BY MainIs DEF PumpRow
  <2> QED BY <1>2, <2>1, <2>2, <2>3 DEF PrintLine, hub, BoundsInv, LinesBound, StateBound
<1>3. CASE Exit
  <2>1. CallBound' /\ AskedFor'
    BY <1>3, NothingAsked DEF Exit
  <2> QED BY <1>3, <2>1 DEF Exit, hub, BoundsInv, LinesBound, StateBound
<1> QED BY <1>1, <1>2, <1>3, HubStepBound, RunnerBound, PumpBound, TimeOutBound DEF IntentNext

(* The types of the intent gate: never more lines read than printed, never *)
(* more tries than the client makes, never more decisions than are kept,   *)
(* and a task's end is a status, however requests time out and are sent    *)
(* again (pump_stream, run_one_task, append_task_policy_decision).         *)
THEOREM IntentTypes == IntentSpec => []IntentTypeOK
<1>1. IntentInv /\ BoundsInv => IntentTypeOK
  <2> SUFFICES ASSUME IntentInv, BoundsInv PROVE IntentTypeOK
    OBVIOUS
  <2>1. main \in MainRow /\ pump \in PumpRow /\ calling \in CallRow
        /\ \A h \in Handler : handler[h] \in HandlerRow
    BY DEF IntentInv, IntentRows
  <2>2. calling.tries \in 0 .. MaxTries /\ pump.read \in 0 .. printed
    BY <2>1, IntentAssumption DEF CallRow, PumpRow, BoundsInv, CallBound, LinesBound
  <2> QED BY <2>1, <2>2 DEF IntentTypeOK, MainRow, PumpRow, CallRow, HandlerRow, Statuses,
             BoundsInv, LinesBound, StateBound
<1>2. IntentInit => IntentInv /\ BoundsInv
  BY IntentInitInv, BoundsInitInv
<1>3. IntentInv /\ BoundsInv /\ [IntentNext]_intentVars => IntentInv' /\ BoundsInv'
  BY IntentStep, BoundsStep
<1> QED BY <1>1, <1>2, <1>3, PTL DEF IntentSpec

-----------------------------------------------------------------------------
(***************************************************************************)
(* The streams of a task.                                                  *)
(*                                                                         *)
(* A line that its pump was told is taken is in one of four places: the    *)
(* rows, a handler's batch, the buffer, or lost with a handler that failed. *)
(* The buffer alone can be emptied without being written (the result's     *)
(* handler forgets it after its flush), and by then no such line is in it: *)
(* the result is sent only after the pumps have had all their answers.     *)
(***************************************************************************)

\* The places up to i.
UpTo(places, i) == {j \in places : j <= i}

LEMMA PlacesCounted ==
  ASSUME NEW n \in Nat, NEW places \in SUBSET (1..n)
  PROVE  /\ IsFiniteSet(places) /\ Cardinality(places) \in Nat
         /\ \A i \in places : Cardinality(UpTo(places, i)) \in 1..Cardinality(places)
         /\ \A i, j \in places : i < j =>
              Cardinality(UpTo(places, i)) < Cardinality(UpTo(places, j))
         /\ \A k \in 1..Cardinality(places) : \E i \in places : Cardinality(UpTo(places, i)) = k
<1> DEFINE size == Cardinality(places)
           f == [i \in places |-> Cardinality(UpTo(places, i))]
<1>0. IsFiniteSet(1..n) /\ \A i \in places : i \in Int
  BY FS_Interval
<1>1. IsFiniteSet(places) /\ size \in Nat
  BY <1>0, FS_Subset, FS_CardinalityType
<1>2. ASSUME NEW i \in places
      PROVE  /\ UpTo(places, i) \in SUBSET places /\ IsFiniteSet(UpTo(places, i))
             /\ Cardinality(UpTo(places, i)) \in 1..size
  <2>1. UpTo(places, i) \in SUBSET places /\ i \in UpTo(places, i)
    BY DEF UpTo
  <2>2. IsFiniteSet(UpTo(places, i)) /\ Cardinality(UpTo(places, i)) <= size
        /\ Cardinality(UpTo(places, i)) \in Nat
    BY <1>1, <2>1, FS_Subset, FS_CardinalityType
  <2>3. Cardinality(UpTo(places, i)) # 0
    BY <2>1, <2>2, FS_EmptySet
  <2> QED BY <1>1, <2>1, <2>2, <2>3
<1>3. ASSUME NEW i \in places, NEW j \in places, i < j
      PROVE  Cardinality(UpTo(places, i)) < Cardinality(UpTo(places, j))
  <2>1. UpTo(places, i) \in SUBSET UpTo(places, j) /\ UpTo(places, i) # UpTo(places, j)
    <3>1. \A k \in places : k <= i => k <= j
      BY <1>0, <1>3
    <3>2. j \in UpTo(places, j) /\ j \notin UpTo(places, i)
      BY <1>0, <1>3 DEF UpTo
    <3> QED BY <3>1, <3>2 DEF UpTo
  <2>2. /\ Cardinality(UpTo(places, i)) <= Cardinality(UpTo(places, j))
        /\ Cardinality(UpTo(places, i)) # Cardinality(UpTo(places, j))
    BY <1>2, <2>1, FS_Subset
  <2> QED BY <1>2, <2>2
<1>4. \A k \in 1..size : \E i \in places : Cardinality(UpTo(places, i)) = k
  <2>1. f \in [places -> 1..size]
    BY <1>2
  <2>2. \A i, j \in places : f[i] = f[j] => i = j
    <3> SUFFICES ASSUME NEW i \in places, NEW j \in places, i # j PROVE f[i] # f[j]
      OBVIOUS
    <3>1. i < j \/ j < i
      OBVIOUS
    <3> QED BY <1>2, <1>3, <3>1
  <2>3. f \in Injection(places, 1..size)
    BY <2>1, <2>2 DEF Injection, IsInjective
  <2>4. IsFiniteSet(1..size) /\ Cardinality(1..size) = size
    BY <1>1, FS_Interval
  <2> HIDE DEF f
  <2>5. f \in Surjection(places, 1..size)
    BY <1>1, <2>3, <2>4, FS_Injection
  <2>6. \A k \in 1..size : \E i \in places : f[i] = k
    BY <2>5 DEF Surjection
  <2> QED BY <2>6 DEF f
<1> QED BY <1>1, <1>2, <1>3, <1>4

\* f goes through the places in their order and takes each of them once.
GoesThrough(f, places) ==
  /\ \A k \in 1..Cardinality(places) : Cardinality(UpTo(places, f[k])) = k
  /\ \A k, m \in 1..Cardinality(places) : k < m => f[k] < f[m]
  /\ \A i \in places : \E k \in 1..Cardinality(places) : f[k] = i

LEMMA PickedInOrder ==
  ASSUME NEW s, NEW n \in Nat, NEW places \in SUBSET (1..n)
  PROVE  \E f \in [1..Cardinality(places) -> places] :
           /\ Picked(s, places) = [k \in 1..Cardinality(places) |-> s[f[k]]]
           /\ GoesThrough(f, places)
<1> DEFINE size == Cardinality(places)
           f == [k \in 1..size |-> CHOOSE i \in places : Cardinality(UpTo(places, i)) = k]
<1>0. /\ size \in Nat /\ \A i \in places : i \in Int
      /\ \A i \in places : Cardinality(UpTo(places, i)) \in 1..size
      /\ \A i, j \in places : i < j =>
           Cardinality(UpTo(places, i)) < Cardinality(UpTo(places, j))
      /\ \A k \in 1..size : \E i \in places : Cardinality(UpTo(places, i)) = k
  <2>1. \A i \in places : i \in Int
    OBVIOUS
  <2> HIDE DEF f
  <2> QED BY <2>1, PlacesCounted
<1> HIDE DEF size
<1>1. \A k \in 1..size : f[k] \in places /\ Cardinality(UpTo(places, f[k])) = k
  BY <1>0
<1>2. Picked(s, places) = [k \in 1..size |-> s[f[k]]]
  BY DEF Picked, UpTo, size
<1>3. f \in [1..size -> places]
  BY <1>1
<1> HIDE DEF f
<1>4. \A i, j \in places : Cardinality(UpTo(places, i)) < Cardinality(UpTo(places, j)) => i < j
  <2> SUFFICES ASSUME NEW i \in places, NEW j \in places, ~(i < j)
               PROVE  ~(Cardinality(UpTo(places, i)) < Cardinality(UpTo(places, j)))
    OBVIOUS
  <2>1. i = j \/ j < i
    BY <1>0
  <2>2. Cardinality(UpTo(places, i)) \in Int /\ Cardinality(UpTo(places, j)) \in Int
    BY <1>0
  <2> QED BY <1>0, <2>1, <2>2
<1>5. ASSUME NEW k \in 1..size, NEW m \in 1..size, k < m PROVE f[k] < f[m]
  <2> DEFINE count(i) == Cardinality(UpTo(places, i))
  <2>1. f[k] \in places /\ f[m] \in places /\ count(f[k]) = k /\ count(f[m]) = m
    BY <1>1
  <2>2. \A i, j \in places : count(i) < count(j) => i < j
    BY <1>4
  <2> HIDE DEF count
  <2>3. count(f[k]) < count(f[m])
    BY <1>5, <2>1
  <2> QED BY <2>1, <2>2, <2>3
<1>6. ASSUME NEW i \in places PROVE \E k \in 1..size : f[k] = i
  <2> DEFINE k == Cardinality(UpTo(places, i))
  <2>1. k \in 1..size
    BY <1>0
  <2>2. f[k] \in places /\ Cardinality(UpTo(places, f[k])) = k
    BY <1>1, <2>1
  <2>3. k \in Int
    BY <1>0, <2>1
  <2>4. ~(f[k] < i) /\ ~(i < f[k])
    <3>1. \A g \in places : Cardinality(UpTo(places, g)) = k => ~(g < i) /\ ~(i < g)
      BY <1>0, <2>3
    <3> QED BY <2>2, <3>1
  <2>5. f[k] = i
    <3>1. \A g \in places : ~(g < i) /\ ~(i < g) => g = i
      BY <1>0
    <3> QED BY <2>2, <2>4, <3>1
  <2> QED BY <2>1, <2>5
<1> QED BY <1>1, <1>2, <1>3, <1>5, <1>6 DEF size, GoesThrough

LEMMA PickedIsSeq ==
  ASSUME NEW S, NEW s \in Seq(S), NEW places \in SUBSET DOMAIN s
  PROVE  /\ Picked(s, places) \in Seq(S) /\ Len(Picked(s, places)) = Cardinality(places)
         /\ ToSet(Picked(s, places)) = {s[i] : i \in places}
<1>1. /\ DOMAIN s = 1..Len(s) /\ Len(s) \in Nat /\ \A i \in DOMAIN s : s[i] \in S
      /\ places \in SUBSET (1..Len(s))
  OBVIOUS
<1>2. Cardinality(places) \in Nat
  BY <1>1, PlacesCounted
<1>3. PICK f \in [1..Cardinality(places) -> places] :
        /\ Picked(s, places) = [k \in 1..Cardinality(places) |-> s[f[k]]]
        /\ GoesThrough(f, places)
  BY <1>1, PickedInOrder
<1>4. [k \in 1..Cardinality(places) |-> s[f[k]]] \in Seq(S)
  <2>1. \A k \in 1..Cardinality(places) : s[f[k]] \in S
    BY <1>1, <1>3
  <2> QED BY <1>2, <2>1
<1>5. Len(Picked(s, places)) = Cardinality(places) /\ DOMAIN Picked(s, places) = 1..Cardinality(places)
  BY <1>2, <1>3
<1>6. ToSet(Picked(s, places)) = {s[i] : i \in places}
  BY <1>1, <1>3, <1>5 DEF ToSet, GoesThrough
<1> QED BY <1>3, <1>4, <1>5, <1>6

LEMMA SetOfConcat ==
  ASSUME NEW S, NEW s \in Seq(S), NEW t \in Seq(S)
  PROVE  s \o t \in Seq(S) /\ ToSet(s \o t) = ToSet(s) \cup ToSet(t)
<1>1. /\ Len(s \o t) = Len(s) + Len(t) /\ s \o t \in Seq(S)
      /\ \A i \in 1..(Len(s) + Len(t)) : (s \o t)[i] = IF i <= Len(s) THEN s[i] ELSE t[i - Len(s)]
  OBVIOUS
<1>2. \A i \in DOMAIN s : i \in DOMAIN (s \o t) /\ (s \o t)[i] = s[i]
  BY <1>1
<1>3. \A i \in DOMAIN t : i + Len(s) \in DOMAIN (s \o t) /\ (s \o t)[i + Len(s)] = t[i]
  BY <1>1
<1>4. \A i \in DOMAIN (s \o t) : (s \o t)[i] \in ToSet(s) \cup ToSet(t)
  BY <1>1 DEF ToSet
<1>5. ToSet(s) \subseteq ToSet(s \o t)
  BY <1>2 DEF ToSet
<1>6. ToSet(t) \subseteq ToSet(s \o t)
  BY <1>3 DEF ToSet
<1>7. ToSet(s \o t) \subseteq ToSet(s) \cup ToSet(t)
  BY <1>4 DEF ToSet
<1> QED BY <1>1, <1>5, <1>6, <1>7

\* A flush writes what the buffer held, all of it.
LEMMA GroupedKeepsAll ==
  ASSUME NEW S, NEW batch \in Seq(S)
  PROVE  /\ Grouped(batch) \in Seq(S) /\ ToSet(Grouped(batch)) = ToSet(batch)
         /\ Grouped(batch) = <<>> <=> batch = <<>>
<1> DEFINE ofHead == {i \in DOMAIN batch : Own(batch[i]) = Own(batch[1])}
           rest == DOMAIN batch \ ofHead
           first == Picked(batch, ofHead)
           second == Picked(batch, rest)
<1>1. ofHead \in SUBSET DOMAIN batch /\ rest \in SUBSET DOMAIN batch
  OBVIOUS
<1>2. /\ first \in Seq(S) /\ ToSet(first) = {batch[i] : i \in ofHead}
      /\ second \in Seq(S) /\ ToSet(second) = {batch[i] : i \in rest}
  BY <1>1, PickedIsSeq
<1>3. Grouped(batch) = first \o second
  BY DEF Grouped
<1>5. {batch[i] : i \in ofHead} \cup {batch[i] : i \in rest} = ToSet(batch)
  BY DEF ToSet
<1> HIDE DEF first, second, ofHead, rest
<1>4. Grouped(batch) \in Seq(S) /\ ToSet(Grouped(batch)) = ToSet(first) \cup ToSet(second)
  <2>1. first \in Seq(S) /\ second \in Seq(S)
    BY <1>2
  <2>2. ToSet(first \o second) = ToSet(first) \cup ToSet(second)
    BY <2>1, SetOfConcat
  <2>3. first \o second \in Seq(S)
    BY <2>1
  <2> QED BY <1>3, <2>2, <2>3
<1>6. ToSet(Grouped(batch)) = ToSet(batch)
  BY <1>2, <1>4, <1>5
<1>7. \A s \in Seq(S) : s = <<>> <=> ToSet(s) = {}
  <2> SUFFICES ASSUME NEW s \in Seq(S), s # <<>> PROVE ToSet(s) # {}
    BY DEF ToSet
  <2>1. 1 \in DOMAIN s
    OBVIOUS
  <2> QED BY <2>1 DEF ToSet
<1> QED BY <1>4, <1>6, <1>7

Msg == (Client \cup {"none"}) \X Nat
PostLabel == {"idle", "flush", "status", "owner", "push", "max", "insert", "refuse", "answer",
              "forget", "evidence", "record", "dropInput", "enqueue"}
PostRow(numbers) == [at : PostLabel, msg : Msg, batch : Seq(Msg), seq : numbers]
ClientRow == [sent : Nat, waits : Post \cup {NoPost, Gone}, tries : Nat]
PostTyped == \E numbers : post \in [Post -> PostRow(numbers)]

StreamRows ==
  /\ client \in [Client -> ClientRow]
  /\ PostTyped
  /\ \E kind : rows \in Seq(kind)
  /\ buffer \in Seq(Msg)

Secured == Stored \cup InHand \cup lost
PumpAnswers == {m \in answered : Sender(m) \in Pumps}
Begun == client["result"].sent > 0

\* The steps of a handler: with a batch in hand, of anything but a result, of a
\* stdin batch, of a result, and of a result after its flush.
Writing == {"owner", "max", "insert"}
OtherSteps == {"push", "status", "enqueue"}
InputSteps == {"status", "enqueue"}
ResultSteps == {"flush", "forget", "evidence", "record", "dropInput"}
Flushed == Writing \cup {"forget", "evidence", "record", "dropInput", "answer"}

BatchOK(q) ==
  /\ post[q].at \in Writing => post[q].batch # <<>>
  /\ post[q].at \notin Writing \cup {"refuse"} => post[q].batch = <<>>
  /\ post[q].at = "refuse" => ToSet(post[q].batch) \subseteq lost
ResultOK(q) ==
  /\ post[q].at \in ResultSteps => Sender(post[q].msg) = "result"
  /\ post[q].at \in OtherSteps => Sender(post[q].msg) # "result"
  /\ post[q].at \in InputSteps => Sender(post[q].msg) \notin Pumps
  /\ post[q].at # "idle" /\ Sender(post[q].msg) = "result" => Begun
  /\ Sender(post[q].msg) = "result" /\ post[q].at \in Flushed => PumpAnswers \subseteq Secured
LineOK(q) ==
  Waiting(q) # {} /\ Sender(post[q].msg) \in Pumps /\ post[q].at \in Writing \cup {"answer"}
    => post[q].msg \in Secured \cup ToSet(buffer)
ClientOK(c) ==
  /\ client[c].waits \in Post => /\ post[client[c].waits].at # "idle"
                                 /\ Sender(post[client[c].waits].msg) = c
  /\ client[c].waits # NoPost => client[c].sent > 0

LinesInv ==
  /\ StreamRows
  /\ \A q \in Post : BatchOK(q) /\ ResultOK(q) /\ LineOK(q)
  /\ \A c \in Client : ClientOK(c)
  /\ Begun => \A d \in Pumps : Done(d)
  /\ over => Begun /\ PumpAnswers \subseteq Secured
  /\ PumpAnswers \subseteq Secured \cup ToSet(buffer)

-----------------------------------------------------------------------------
LEMMA NoWorkIs ==
  /\ NoWork.at = "idle" /\ NoWork.batch = <<>> /\ NoWork.msg \in Msg
  /\ \A numbers : 0 \in numbers => NoWork \in PostRow(numbers)
<1>1. <<"none", 0>> \in Msg /\ <<>> \in Seq(Msg)
  BY DEF Msg
<1> QED BY <1>1 DEF NoWork, PostRow, PostLabel

LEMMA StreamsInitInv == StreamsInit => LinesInv
<1> SUFFICES ASSUME StreamsInit PROVE LinesInv
  OBVIOUS
<1>1. /\ post \in [Post -> PostRow({0})] /\ \A q \in Post : post[q] = NoWork
      /\ rows = <<>> /\ buffer = <<>> /\ answered = {} /\ over = FALSE
  BY NoWorkIs DEF StreamsInit
<1>2. client = [c \in Client |-> [sent |-> 0, waits |-> NoPost, tries |-> 0]]
  BY DEF StreamsInit
<1>3. client \in [Client -> ClientRow] /\ ~Begun /\ \A c \in Client : client[c].waits = NoPost
  BY <1>2 DEF ClientRow, Begun, Client
<1>4. StreamRows
  <2>1. rows \in Seq({}) /\ buffer \in Seq(Msg)
    BY <1>1
  <2> QED BY <1>1, <1>3, <2>1 DEF StreamRows, PostTyped
<1>5. ASSUME NEW q \in Post PROVE BatchOK(q) /\ ResultOK(q) /\ LineOK(q)
  <2>1. post[q].at = "idle" /\ post[q].batch = <<>>
    BY <1>1, NoWorkIs
  <2> QED BY <2>1 DEF BatchOK, ResultOK, LineOK, Writing, OtherSteps, InputSteps, ResultSteps, Flushed
<1>6. \A c \in Client : ClientOK(c)
  BY <1>3, StreamsAssumption DEF ClientOK
<1> QED BY <1>1, <1>3, <1>4, <1>5, <1>6 DEF LinesInv, PumpAnswers

\* Handler p goes to the step at with the batch b in hand.
Moves(p, at, b) ==
  /\ PostTyped'
  /\ post'[p].at = at /\ post'[p].batch = b /\ post'[p].msg = post[p].msg
  /\ \A q \in Post \ {p} : post'[q] = post[q]

LEMMA MovesWhole ==
  ASSUME StreamRows, NEW p \in Post, NEW at \in PostLabel, NEW b \in Seq(Msg), NEW n,
         post' = [post EXCEPT ![p] = [post[p] EXCEPT !.at = at, !.batch = b, !.seq = n]]
  PROVE  Moves(p, at, b)
<1> DEFINE r == [post[p] EXCEPT !.at = at, !.batch = b, !.seq = n]
<1>1. PICK numbers : post \in [Post -> PostRow(numbers)]
  BY DEF StreamRows, PostTyped
<1> DEFINE more == numbers \cup {n}
<1>2. \A q \in Post : post[q] \in PostRow(more)
  BY <1>1 DEF PostRow
<1>3. r \in PostRow(more) /\ r.at = at /\ r.batch = b /\ r.msg = post[p].msg
  BY <1>2 DEF PostRow
<1> HIDE DEF r, more
<1>4. post' = [post EXCEPT ![p] = r]
  BY DEF r
<1>5. post' \in [Post -> PostRow(more)]
  BY <1>1, <1>2, <1>3, <1>4
<1>6. post'[p] = r /\ \A q \in Post \ {p} : post'[q] = post[q]
  BY <1>1, <1>4
<1> QED BY <1>3, <1>5, <1>6 DEF Moves, PostTyped

\* The forms in which the actions write it.
LEMMA MovesForms ==
  ASSUME StreamRows, NEW p \in Post, NEW at \in PostLabel, NEW b \in Seq(Msg), NEW n
  PROVE  /\ Step(p, at) => Moves(p, at, post[p].batch)
         /\ post' = [post EXCEPT ![p].at = at, ![p].seq = n] => Moves(p, at, post[p].batch)
         /\ post' = [post EXCEPT ![p].at = at, ![p].batch = b] => Moves(p, at, b)
         /\ post' = [post EXCEPT ![p].batch = b, ![p].at = at] => Moves(p, at, b)
         /\ post' = [post EXCEPT ![p].batch = b, ![p].seq = n, ![p].at = at] => Moves(p, at, b)
<1> DEFINE moved(c, m) == [post[p] EXCEPT !.at = at, !.batch = c, !.seq = m]
<1>1. PICK numbers : post \in [Post -> PostRow(numbers)]
  BY DEF StreamRows, PostTyped
<1>2. post[p] \in PostRow(numbers) /\ post[p].batch \in Seq(Msg)
  BY <1>1 DEF PostRow
<1>3. \A c \in Seq(Msg) : \A m : post' = [post EXCEPT ![p] = moved(c, m)] => Moves(p, at, c)
  BY MovesWhole
<1>4. Step(p, at) => Moves(p, at, post[p].batch)
  <2>1. Step(p, at) => post' = [post EXCEPT ![p] = moved(post[p].batch, post[p].seq)]
    BY <1>1, <1>2 DEF Step, PostRow
  <2> HIDE DEF moved
  <2> QED BY <1>2, <1>3, <2>1
<1>5. post' = [post EXCEPT ![p].at = at, ![p].seq = n] => Moves(p, at, post[p].batch)
  <2>1. post' = [post EXCEPT ![p].at = at, ![p].seq = n]
          => post' = [post EXCEPT ![p] = moved(post[p].batch, n)]
    BY <1>1, <1>2 DEF PostRow
  <2> HIDE DEF moved
  <2> QED BY <1>2, <1>3, <2>1
<1>6. post' = [post EXCEPT ![p].at = at, ![p].batch = b] => Moves(p, at, b)
  <2>1. post' = [post EXCEPT ![p].at = at, ![p].batch = b]
          => post' = [post EXCEPT ![p] = moved(b, post[p].seq)]
    BY <1>1, <1>2 DEF PostRow
  <2> HIDE DEF moved
  <2> QED BY <1>3, <2>1
<1>7. post' = [post EXCEPT ![p].batch = b, ![p].at = at] => Moves(p, at, b)
  <2>1. post' = [post EXCEPT ![p].batch = b, ![p].at = at]
          => post' = [post EXCEPT ![p] = moved(b, post[p].seq)]
    BY <1>1, <1>2 DEF PostRow
  <2> HIDE DEF moved
  <2> QED BY <1>3, <2>1
<1>8. post' = [post EXCEPT ![p].batch = b, ![p].seq = n, ![p].at = at] => Moves(p, at, b)
  <2>1. post' = [post EXCEPT ![p].batch = b, ![p].seq = n, ![p].at = at]
          => post' = [post EXCEPT ![p] = moved(b, n)]
    BY <1>1, <1>2 DEF PostRow
  <2> HIDE DEF moved
  <2> QED BY <1>3, <2>1
<1> QED BY <1>4, <1>5, <1>6, <1>7, <1>8

\* What is in hand, over a move of p.
LEMMA InHandIs ==
  ASSUME NEW p \in Post
  PROVE  \A m : m \in InHand <=> \/ m \in ToSet(post[p].batch)
                                 \/ \E q \in Post \ {p} : m \in ToSet(post[q].batch)
BY DEF InHand

LEMMA SecuredGrows ==
  ASSUME NEW p \in Post, NEW at, NEW b, Moves(p, at, b),
         Stored \subseteq Stored', lost \subseteq lost',
         ToSet(post[p].batch) \subseteq Stored' \cup lost' \cup ToSet(b)
  PROVE  Secured \subseteq Secured' /\ ToSet(b) \subseteq Secured'
<1>1. ToSet(b) \subseteq InHand'
  BY DEF InHand, Moves
<1>2. ASSUME NEW m \in InHand PROVE m \in Secured'
  <2>1. CASE m \in ToSet(post[p].batch)
    BY <1>1, <2>1 DEF Secured
  <2>2. ASSUME NEW q \in Post \ {p}, m \in ToSet(post[q].batch) PROVE m \in InHand'
    BY <2>2 DEF InHand, Moves
  <2> QED BY <1>2, <2>1, <2>2, InHandIs DEF Secured
<1> QED BY <1>1, <1>2 DEF Secured

\* A pump that waits for a handler waits for nothing once the result is sent.
LEMMA NoPumpWaits ==
  ASSUME LinesInv, Begun, NEW q \in Post, Waiting(q) # {}
  PROVE  Sender(post[q].msg) \notin Pumps
<1>1. PICK c \in Client : client[c].waits = q
  BY DEF Waiting
<1>2. Sender(post[q].msg) = c /\ q # NoPost
  BY <1>1, StreamsAssumption DEF LinesInv, ClientOK
<1> QED BY <1>1, <1>2 DEF LinesInv, Done

\* A handler's step, while no client has an answer of it.
LEMMA HandlerStep ==
  ASSUME LinesInv, NEW p \in Post, NEW at \in PostLabel, NEW b \in Seq(Msg), Moves(p, at, b),
         UNCHANGED <<client, scenario, answered>>, (\E kind : rows \in Seq(kind))', buffer' \in Seq(Msg),
         Stored \subseteq Stored', lost \subseteq lost', post[p].at # "idle", at # "idle",
         ToSet(post[p].batch) \subseteq Stored' \cup lost' \cup ToSet(b),
         \/ ToSet(buffer) \subseteq ToSet(buffer') \cup ToSet(b)
         \/ Begun /\ PumpAnswers \subseteq Secured,
         at \in Writing => b # <<>>,
         at \notin Writing \cup {"refuse"} => b = <<>>,
         at = "refuse" => ToSet(b) \subseteq lost',
         at \in ResultSteps => Sender(post[p].msg) = "result",
         at \in OtherSteps => Sender(post[p].msg) # "result",
         at \in InputSteps => Sender(post[p].msg) \notin Pumps,
         at \in Writing \cup {"answer"} /\ Sender(post[p].msg) \in Pumps
           => \/ post[p].at \in Writing \cup {"answer"}
              \/ post[p].msg \in ToSet(buffer') \cup ToSet(b),
         at \in Flushed /\ Sender(post[p].msg) = "result"
           => post[p].at \in Flushed \/ ToSet(buffer) \subseteq ToSet(b),
         over' => over \/ (Begun /\ PumpAnswers \subseteq Secured)
  PROVE  LinesInv'
<1>1. Secured \subseteq Secured' /\ ToSet(b) \subseteq Secured'
  BY SecuredGrows
<1>2. /\ UNCHANGED <<PumpAnswers, Begun>> /\ \A q : Waiting(q)' = Waiting(q)
      /\ \A d : Done(d)' <=> Done(d)
  BY DEF PumpAnswers, Begun, Waiting, Done
<1>3. Secured \cup ToSet(buffer) \subseteq Secured' \cup ToSet(buffer') \/ (Begun /\ PumpAnswers \subseteq Secured)
  BY <1>1
<1>4. StreamRows'
  BY DEF LinesInv, StreamRows, Moves
<1>5. ASSUME NEW q \in Post \ {p} PROVE (BatchOK(q) /\ ResultOK(q) /\ LineOK(q))'
  <2>1. post'[q] = post[q]
    BY DEF Moves
  <2>2. BatchOK(q)'
    BY <2>1 DEF LinesInv, BatchOK
  <2>3. ResultOK(q)'
    BY <1>1, <1>2, <2>1 DEF LinesInv, ResultOK
  <2>4. LineOK(q)'
    BY <1>2, <1>3, <2>1, NoPumpWaits DEF LinesInv, LineOK
  <2> QED BY <2>2, <2>3, <2>4
<1>6. BatchOK(p)'
  BY DEF BatchOK, Moves
<1>7. ResultOK(p)'
  <2>1. /\ at \in ResultSteps => Sender(post[p].msg) = "result"
        /\ Sender(post[p].msg) = "result" => Begun
    BY DEF LinesInv, ResultOK
  <2>2. ASSUME Sender(post[p].msg) = "result", at \in Flushed PROVE PumpAnswers \subseteq Secured'
    <3>1. CASE post[p].at \in Flushed
      BY <1>1, <2>2, <3>1 DEF LinesInv, ResultOK
    <3>2. CASE ToSet(buffer) \subseteq ToSet(b)
      BY <1>1, <3>2 DEF LinesInv
    <3> QED BY <2>2, <3>1, <3>2
  <2> QED BY <1>2, <2>1, <2>2 DEF ResultOK, Moves
<1>8. LineOK(p)'
  <2> SUFFICES ASSUME Waiting(p) # {}, Sender(post[p].msg) \in Pumps, at \in Writing \cup {"answer"}
               PROVE  post[p].msg \in Secured' \cup ToSet(buffer')
    BY <1>2 DEF LineOK, Moves
  <2>1. CASE post[p].msg \in ToSet(buffer') \cup ToSet(b)
    BY <1>1, <2>1
  <2>2. CASE post[p].at \in Writing \cup {"answer"}
    <3>1. post[p].msg \in Secured \cup ToSet(buffer)
      BY <2>2 DEF LinesInv, LineOK
    <3> QED BY <1>3, <3>1, NoPumpWaits
  <2> QED BY <2>1, <2>2
<1>9. \A c \in Client : ClientOK(c)'
  BY DEF LinesInv, ClientOK, Moves
<1>10. over' => Begun /\ PumpAnswers \subseteq Secured'
  BY <1>1 DEF LinesInv
<1>11. PumpAnswers \subseteq Secured' \cup ToSet(buffer')
  BY <1>1, <1>3 DEF LinesInv
<1>12. Begun' => \A d \in Pumps : Done(d)'
  BY <1>2 DEF LinesInv
<1> QED BY <1>2, <1>4, <1>5, <1>6, <1>7, <1>8, <1>9, <1>10, <1>11, <1>12 DEF LinesInv

LEMMA SetsOfSeqs ==
  /\ ToSet(<<>>) = {}
  /\ \A m : ToSet(<<m>>) = {m}
  /\ \A S : \A s \in Seq(S), m \in S : Append(s, m) \in Seq(S) /\ ToSet(Append(s, m)) = ToSet(s) \cup {m}
  /\ \A S : \A s \in Seq(S) : s # <<>> =>
       s[1] \in S /\ Tail(s) \in Seq(S) /\ ToSet(s) = {s[1]} \cup ToSet(Tail(s))
<1>1. ToSet(<<>>) = {} /\ \A m : ToSet(<<m>>) = {m}
  BY DEF ToSet
<1>2. ASSUME NEW S, NEW s \in Seq(S), NEW m \in S
      PROVE  Append(s, m) \in Seq(S) /\ ToSet(Append(s, m)) = ToSet(s) \cup {m}
  <2>1. /\ Append(s, m) \in Seq(S) /\ DOMAIN Append(s, m) = 1..(Len(s) + 1)
        /\ DOMAIN s = 1..Len(s) /\ Len(s) \in Nat
        /\ \A i \in 1..Len(s) : Append(s, m)[i] = s[i]
        /\ Append(s, m)[Len(s) + 1] = m
    OBVIOUS
  <2>2. ToSet(s) \cup {m} \subseteq ToSet(Append(s, m))
    BY <2>1 DEF ToSet
  <2>3. ToSet(Append(s, m)) \subseteq ToSet(s) \cup {m}
    BY <2>1 DEF ToSet
  <2> QED BY <2>1, <2>2, <2>3
<1>3. ASSUME NEW S, NEW s \in Seq(S), s # <<>>
      PROVE  s[1] \in S /\ Tail(s) \in Seq(S) /\ ToSet(s) = {s[1]} \cup ToSet(Tail(s))
  <2>1. /\ Tail(s) \in Seq(S) /\ DOMAIN Tail(s) = 1..(Len(s) - 1) /\ Len(s) \in Nat /\ Len(s) > 0
        /\ DOMAIN s = 1..Len(s) /\ \A i \in 1..(Len(s) - 1) : Tail(s)[i] = s[i + 1]
    BY <1>3
  <2>2. ASSUME NEW i \in DOMAIN s, i # 1 PROVE s[i] \in ToSet(Tail(s))
    <3>1. i - 1 \in DOMAIN Tail(s) /\ Tail(s)[i - 1] = s[i]
      BY <2>1, <2>2
    <3> QED BY <3>1 DEF ToSet
  <2>3. s[1] \in S /\ 1 \in DOMAIN s
    BY <2>1
  <2>4. ToSet(s) \subseteq {s[1]} \cup ToSet(Tail(s))
    BY <2>2 DEF ToSet
  <2>5. ToSet(Tail(s)) \subseteq ToSet(s)
    <3>1. \A i \in DOMAIN Tail(s) : i + 1 \in DOMAIN s /\ Tail(s)[i] = s[i + 1]
      BY <2>1
    <3> QED BY <3>1 DEF ToSet
  <2>6. s[1] \in ToSet(s)
    BY <2>3 DEF ToSet
  <2> QED BY <2>1, <2>3, <2>4, <2>5, <2>6
<1> QED BY <1>1, <1>2, <1>3

LEMMA RowStored ==
  ASSUME \E kind : rows \in Seq(kind), NEW r, rows' = Append(rows, r)
  PROVE  (\E kind : rows \in Seq(kind))' /\ Stored' = Stored \cup {r.msg}
<1>1. PICK kind : rows \in Seq(kind)
  OBVIOUS
<1> DEFINE more == kind \cup {r}
<1>2. rows \in Seq(more) /\ r \in more
  BY <1>1
<1> HIDE DEF more
<1>3. /\ rows' \in Seq(more) /\ DOMAIN rows' = 1..(Len(rows) + 1)
      /\ DOMAIN rows = 1..Len(rows) /\ Len(rows) \in Nat
      /\ \A i \in 1..Len(rows) : rows'[i] = rows[i]
      /\ rows'[Len(rows) + 1] = r
  BY <1>2
<1>4. Stored \cup {r.msg} \subseteq Stored'
  <2>1. \A i \in DOMAIN rows : i \in DOMAIN rows' /\ rows'[i].msg = rows[i].msg
    BY <1>3
  <2>2. Len(rows) + 1 \in DOMAIN rows' /\ rows'[Len(rows) + 1].msg = r.msg
    BY <1>3
  <2> QED BY <2>1, <2>2 DEF Stored
<1>5. Stored' \subseteq Stored \cup {r.msg}
  <2>1. \A i \in DOMAIN rows' : rows'[i].msg = r.msg \/ (i \in DOMAIN rows /\ rows'[i].msg = rows[i].msg)
    BY <1>3
  <2> QED BY <2>1 DEF Stored
<1> QED BY <1>3, <1>4, <1>5

\* What the invariant says of the handler about to step.
LEMMA AtStepOf ==
  ASSUME LinesInv, NEW p \in Post
  PROVE  /\ post[p].batch \in Seq(Msg) /\ post[p].msg \in Msg
         /\ post[p].at \in Writing => post[p].batch # <<>>
         /\ post[p].at \notin Writing \cup {"refuse"} => post[p].batch = <<>> /\ ToSet(post[p].batch) = {}
         /\ StreamRows /\ buffer \in Seq(Msg) /\ \E kind : rows \in Seq(kind)
BY SetsOfSeqs DEF LinesInv, StreamRows, PostTyped, PostRow, BatchOK

LEMMA PushKeeps == ASSUME LinesInv, NEW p \in Post, PushLine(p) PROVE LinesInv'
<1> DEFINE pending == Append(buffer, post[p].msg)
<1>1. /\ post[p].at = "push" /\ post[p].batch = <<>> /\ ToSet(post[p].batch) = {}
      /\ StreamRows /\ buffer \in Seq(Msg) /\ post[p].msg \in Msg
      /\ Sender(post[p].msg) # "result" /\ \E kind : rows \in Seq(kind)
  BY AtStepOf DEF PushLine, Writing, LinesInv, ResultOK, OtherSteps
<1>2. pending \in Seq(Msg) /\ ToSet(pending) = ToSet(buffer) \cup {post[p].msg}
  BY <1>1, SetsOfSeqs
<1>3. UNCHANGED <<client, scenario, answered, rows, lost, over, Stored>>
  BY DEF PushLine, Stored
<1>4. CASE buffer' = <<>> /\ post' = [post EXCEPT ![p].at = "owner", ![p].batch = Grouped(pending)]
  <2> DEFINE b == Grouped(pending)
  <2>1. b \in Seq(Msg) /\ ToSet(b) = ToSet(buffer) \cup {post[p].msg} /\ b # <<>>
    <3>1. pending # <<>>
      BY <1>2, SetsOfSeqs
    <3> QED BY <1>2, <3>1, GroupedKeepsAll
  <2> HIDE DEF b
  <2>2. Moves(p, "owner", b)
    BY <1>1, <1>4, <2>1, MovesForms DEF PostLabel, b
  <2> QED BY <1>1, <1>3, <1>4, <2>1, <2>2, HandlerStep
             DEF PostLabel, Writing, ResultSteps, OtherSteps, InputSteps, Flushed
<1>5. CASE buffer' = pending /\ Step(p, "answer")
  <2>1. Moves(p, "answer", <<>>)
    BY <1>1, <1>5, MovesForms DEF PostLabel
  <2> HIDE DEF pending
  <2>2. ToSet(<<>>) = {} /\ <<>> \in Seq(Msg)
    BY SetsOfSeqs
  <2> QED BY <1>1, <1>2, <1>3, <1>5, <2>1, <2>2, HandlerStep
             DEF PostLabel, Writing, ResultSteps, OtherSteps, InputSteps, Flushed
<1> QED BY <1>4, <1>5 DEF PushLine

LEMMA FlushKeeps == ASSUME LinesInv, NEW p \in Post, FlushTask(p) PROVE LinesInv'
<1> DEFINE b == Grouped(buffer)
           at == IF ToFlush = <<>> THEN "forget" ELSE "owner"
<1>1. /\ post[p].at = "flush" /\ ToSet(post[p].batch) = {}
      /\ StreamRows /\ buffer \in Seq(Msg) /\ Sender(post[p].msg) = "result" /\ \E kind : rows \in Seq(kind)
  BY AtStepOf DEF FlushTask, Writing, LinesInv, ResultOK, ResultSteps
<1>2. /\ b \in Seq(Msg) /\ ToSet(b) = ToSet(buffer) /\ (b = <<>> <=> buffer = <<>>)
      /\ at \in PostLabel /\ at = IF buffer = <<>> THEN "forget" ELSE "owner"
  BY <1>1, GroupedKeepsAll DEF ToFlush, PostLabel
<1>3. /\ UNCHANGED <<client, scenario, answered, rows, lost, over, Stored>> /\ buffer' = <<>>
      /\ post' = [post EXCEPT ![p].batch = b, ![p].at = at]
  BY DEF FlushTask, Stored, ToFlush
<1> HIDE DEF b, at
<1>4. Moves(p, at, b)
  BY <1>1, <1>2, <1>3, MovesForms
<1>5. buffer' \in Seq(Msg)
  BY <1>3
<1> QED BY <1>1, <1>2, <1>3, <1>4, <1>5, HandlerStep
           DEF Writing, ResultSteps, OtherSteps, InputSteps, Flushed, Pumps

LEMMA CheckOwnerKeeps == ASSUME LinesInv, NEW p \in Post, CheckOwner(p) PROVE LinesInv'
<1> DEFINE b == post[p].batch
<1>1. /\ post[p].at = "owner" /\ b \in Seq(Msg) /\ b # <<>>
      /\ StreamRows /\ buffer \in Seq(Msg) /\ \E kind : rows \in Seq(kind)
  BY AtStepOf DEF CheckOwner, Writing
<1>2. UNCHANGED <<client, scenario, answered, rows, buffer, over, Stored>>
  BY DEF CheckOwner, Stored
<1>3. CASE Step(p, "max") /\ UNCHANGED lost
  <2>1. Moves(p, "max", b)
    BY <1>1, <1>3, MovesForms DEF PostLabel
  <2> HIDE DEF b
  <2> QED BY <1>1, <1>2, <1>3, <2>1, HandlerStep
          DEF PostLabel, Writing, ResultSteps, OtherSteps, InputSteps, Flushed, b
<1>4. CASE Step(p, "refuse") /\ lost' = lost \cup ToSet(b)
  <2>1. Moves(p, "refuse", b)
    BY <1>1, <1>4, MovesForms DEF PostLabel
  <2> HIDE DEF b
  <2> QED BY <1>1, <1>2, <1>4, <2>1, HandlerStep
          DEF PostLabel, Writing, ResultSteps, OtherSteps, InputSteps, Flushed, b
<1> QED BY <1>3, <1>4 DEF CheckOwner

LEMMA ReadMaxKeeps == ASSUME LinesInv, NEW p \in Post, ReadMax(p) PROVE LinesInv'
<1> DEFINE b == post[p].batch
<1>1. /\ post[p].at = "max" /\ b \in Seq(Msg) /\ b # <<>>
      /\ StreamRows /\ buffer \in Seq(Msg) /\ \E kind : rows \in Seq(kind)
  BY AtStepOf DEF ReadMax, Writing
<1>2. /\ UNCHANGED <<client, scenario, answered, rows, buffer, over, lost, Stored>>
      /\ post' = [post EXCEPT ![p].at = "insert", ![p].seq = NextNumber(p)]
  BY DEF ReadMax, Stored
<1>3. Moves(p, "insert", b)
  BY <1>1, <1>2, MovesForms DEF PostLabel
<1> HIDE DEF b
<1> QED BY <1>1, <1>2, <1>3, HandlerStep
        DEF PostLabel, Writing, ResultSteps, OtherSteps, InputSteps, Flushed, b

LEMMA InsertKeeps == ASSUME LinesInv, NEW p \in Post, InsertRow(p) PROVE LinesInv'
<1> DEFINE batch == post[p].batch
           rest == Tail(batch)
           at == IF rest = <<>> THEN AfterBatch(p)
                 ELSE IF Own(rest[1]) = Own(batch[1]) THEN "insert" ELSE "owner"
           new == [msg |-> batch[1], seq |-> post[p].seq]
<1>1. /\ post[p].at = "insert" /\ batch \in Seq(Msg) /\ batch # <<>>
      /\ StreamRows /\ buffer \in Seq(Msg) /\ \E kind : rows \in Seq(kind)
  BY AtStepOf DEF InsertRow, Writing
<1>2. rest \in Seq(Msg) /\ ToSet(batch) = {batch[1]} \cup ToSet(rest)
  BY <1>1, SetsOfSeqs
<1>3. /\ UNCHANGED <<client, scenario, answered, buffer, over, lost>> /\ rows' = Append(rows, new)
      /\ post' = [post EXCEPT ![p].batch = rest, ![p].seq = @ + 1, ![p].at = at]
  BY DEF InsertRow
<1>4. Stored' = Stored \cup {batch[1]} /\ (\E kind : rows \in Seq(kind))'
  <2> HIDE DEF batch
  <2>1. new.msg = batch[1]
    OBVIOUS
  <2> HIDE DEF new
  <2> QED BY <1>1, <1>3, <2>1, RowStored
<1>5. /\ at \in PostLabel /\ at \in Writing \cup {"answer", "forget"}
      /\ at \in {"answer", "forget"} <=> rest = <<>>
      /\ at = "forget" => Sender(post[p].msg) = "result"
  BY DEF AfterBatch, PostLabel, Writing
<1> HIDE DEF rest, at, new
<1>6. Moves(p, at, rest)
  BY <1>1, <1>2, <1>3, <1>5, MovesForms
<1> HIDE DEF batch
<1>7. ToSet(batch) \subseteq Stored' \cup ToSet(rest)
  BY <1>2, <1>4
<1> QED BY <1>1, <1>2, <1>3, <1>4, <1>5, <1>6, <1>7, HandlerStep
        DEF Writing, ResultSteps, OtherSteps, InputSteps, Flushed, batch

\* What the handler of a result finds.
LEMMA OfResult ==
  ASSUME LinesInv, NEW p \in Post, post[p].at \in ResultSteps
  PROVE  /\ Sender(post[p].msg) = "result" /\ Begun /\ Sender(post[p].msg) \notin Pumps
         /\ post[p].at \in Flushed => PumpAnswers \subseteq Secured
BY DEF LinesInv, ResultOK, ResultSteps, Pumps

LEMMA ForgetKeeps == ASSUME LinesInv, NEW p \in Post, Forget(p) PROVE LinesInv'
<1>1. /\ post[p].at = "forget" /\ post[p].batch = <<>> /\ ToSet(post[p].batch) = {}
      /\ StreamRows /\ buffer \in Seq(Msg) /\ \E kind : rows \in Seq(kind)
  BY AtStepOf DEF Forget, Writing
<1>2. Sender(post[p].msg) = "result" /\ Begun /\ PumpAnswers \subseteq Secured
  BY <1>1, OfResult DEF ResultSteps, Flushed
<1>3. /\ UNCHANGED <<client, scenario, answered, rows, over, lost, Stored>> /\ buffer' = <<>>
      /\ Step(p, "evidence")
  BY DEF Forget, Stored
<1>4. Moves(p, "evidence", <<>>)
  BY <1>1, <1>3, MovesForms DEF PostLabel
<1>5. buffer' \in Seq(Msg) /\ <<>> \in Seq(Msg)
  BY <1>3
<1> QED BY <1>1, <1>2, <1>3, <1>4, <1>5, HandlerStep
        DEF PostLabel, Writing, ResultSteps, OtherSteps, InputSteps, Flushed, Pumps

LEMMA GateKeeps == ASSUME LinesInv, NEW p \in Post, GateResult(p) PROVE LinesInv'
<1>1. /\ post[p].at = "evidence" /\ post[p].batch = <<>> /\ ToSet(post[p].batch) = {}
      /\ StreamRows /\ buffer \in Seq(Msg) /\ \E kind : rows \in Seq(kind)
  BY AtStepOf DEF GateResult, Writing
<1>2. Sender(post[p].msg) = "result" /\ Begun /\ PumpAnswers \subseteq Secured
  BY <1>1, OfResult DEF ResultSteps, Flushed
<1>3. UNCHANGED <<client, scenario, answered, rows, buffer, over, lost, Stored>>
  BY DEF GateResult, Stored
<1>4. PICK at \in {"record", "refuse"} : Step(p, at)
  BY DEF GateResult
<1>5. Moves(p, at, <<>>)
  BY <1>1, <1>4, MovesForms DEF PostLabel
<1>6. <<>> \in Seq(Msg)
  OBVIOUS
<1> QED BY <1>1, <1>2, <1>3, <1>5, <1>6, HandlerStep
        DEF PostLabel, Writing, ResultSteps, OtherSteps, InputSteps, Flushed, Pumps

LEMMA RecordKeeps == ASSUME LinesInv, NEW p \in Post, RecordTerminal(p) PROVE LinesInv'
<1>1. /\ post[p].at = "record" /\ post[p].batch = <<>> /\ ToSet(post[p].batch) = {}
      /\ StreamRows /\ buffer \in Seq(Msg) /\ \E kind : rows \in Seq(kind)
  BY AtStepOf DEF RecordTerminal, Writing
<1>2. Sender(post[p].msg) = "result" /\ Begun /\ PumpAnswers \subseteq Secured
  BY <1>1, OfResult DEF ResultSteps, Flushed
<1>3. UNCHANGED <<client, scenario, answered, rows, buffer, lost, Stored>>
  BY DEF RecordTerminal, Stored
<1>4. Moves(p, "dropInput", <<>>)
  BY <1>1, MovesForms DEF PostLabel, RecordTerminal
<1>5. <<>> \in Seq(Msg)
  OBVIOUS
<1> QED BY <1>1, <1>2, <1>3, <1>4, <1>5, HandlerStep
        DEF PostLabel, Writing, ResultSteps, OtherSteps, InputSteps, Flushed, Pumps

LEMMA DropInputKeeps == ASSUME LinesInv, NEW p \in Post, DropInput(p) PROVE LinesInv'
<1>1. /\ post[p].at = "dropInput" /\ post[p].batch = <<>> /\ ToSet(post[p].batch) = {}
      /\ StreamRows /\ buffer \in Seq(Msg) /\ \E kind : rows \in Seq(kind)
  BY AtStepOf DEF DropInput, Writing
<1>2. Sender(post[p].msg) = "result" /\ Begun /\ PumpAnswers \subseteq Secured
  BY <1>1, OfResult DEF ResultSteps, Flushed
<1>3. UNCHANGED <<client, scenario, answered, rows, buffer, over, lost, Stored>>
  BY DEF DropInput, Stored
<1>4. Moves(p, "answer", <<>>)
  BY <1>1, MovesForms DEF PostLabel, DropInput
<1>5. <<>> \in Seq(Msg)
  OBVIOUS
<1> QED BY <1>1, <1>2, <1>3, <1>4, <1>5, HandlerStep
        DEF PostLabel, Writing, ResultSteps, OtherSteps, InputSteps, Flushed, Pumps

LEMMA InputKeeps ==
  ASSUME LinesInv, NEW p \in Post, CheckStatus(p) \/ Enqueue(p)
  PROVE  LinesInv'
<1>1. post[p].at \in InputSteps
  BY DEF CheckStatus, Enqueue, InputSteps
<1>2. /\ post[p].batch = <<>> /\ ToSet(post[p].batch) = {}
      /\ StreamRows /\ buffer \in Seq(Msg) /\ \E kind : rows \in Seq(kind)
  BY <1>1, AtStepOf DEF InputSteps, Writing
<1>3. Sender(post[p].msg) \notin Pumps /\ Sender(post[p].msg) # "result" /\ post[p].at # "idle"
  BY <1>1 DEF LinesInv, ResultOK, InputSteps, OtherSteps
<1>4. UNCHANGED <<client, scenario, answered, rows, buffer, over, lost, Stored>>
  BY DEF CheckStatus, Enqueue, Stored
<1>5. PICK at \in {"enqueue", "refuse", "answer"} : Step(p, at)
  BY DEF CheckStatus, Enqueue
<1>6. Moves(p, at, <<>>)
  BY <1>2, <1>5, MovesForms DEF PostLabel
<1>7. <<>> \in Seq(Msg)
  OBVIOUS
<1> QED BY <1>2, <1>3, <1>4, <1>6, <1>7, HandlerStep
        DEF PostLabel, Writing, ResultSteps, OtherSteps, InputSteps, Flushed

LEMMA FailKeeps == ASSUME LinesInv, NEW p \in Post, FailPost(p) PROVE LinesInv'
<1> DEFINE b == post[p].batch
<1>1. /\ post[p].at # "idle" /\ b \in Seq(Msg)
      /\ StreamRows /\ buffer \in Seq(Msg) /\ \E kind : rows \in Seq(kind)
  BY AtStepOf DEF FailPost
<1>2. /\ UNCHANGED <<client, scenario, answered, rows, buffer, over, Stored>>
      /\ lost' = lost \cup ToSet(b)
  BY DEF FailPost, Stored
<1>3. Moves(p, "refuse", b)
  BY <1>1, MovesForms DEF PostLabel, FailPost
<1> HIDE DEF b
<1> QED BY <1>1, <1>2, <1>3, HandlerStep
        DEF PostLabel, Writing, ResultSteps, OtherSteps, InputSteps, Flushed, b

\* A handler that ends leaves its row as if it had never been there.
LEMMA RowCleared ==
  ASSUME StreamRows, NEW p \in Post, post' = [post EXCEPT ![p] = NoWork]
  PROVE  PostTyped' /\ post'[p] = NoWork /\ \A q \in Post \ {p} : post'[q] = post[q]
<1>1. PICK numbers : post \in [Post -> PostRow(numbers)]
  BY DEF StreamRows, PostTyped
<1> DEFINE more == numbers \cup {0}
<1>2. \A q \in Post : post[q] \in PostRow(more)
  BY <1>1 DEF PostRow
<1>3. NoWork \in PostRow(more)
  BY NoWorkIs
<1> HIDE DEF more
<1>4. post' \in [Post -> PostRow(more)] /\ post'[p] = NoWork /\ \A q \in Post \ {p} : post'[q] = post[q]
  BY <1>1, <1>2, <1>3
<1> QED BY <1>4 DEF PostTyped

LEMMA DropKeeps == ASSUME LinesInv, NEW p \in Post, DropPost(p) PROVE LinesInv'
<1>1. /\ PostTyped' /\ post'[p] = NoWork /\ \A q \in Post \ {p} : post'[q] = post[q]
      /\ UNCHANGED <<client, scenario, answered, rows, buffer, over, Stored>>
      /\ lost' = lost \cup ToSet(post[p].batch) /\ Waiting(p) = {}
  BY RowCleared DEF DropPost, Stored, LinesInv
<1>2. Secured \subseteq Secured'
  <2>1. ASSUME NEW q \in Post \ {p}, NEW m \in ToSet(post[q].batch) PROVE m \in InHand'
    BY <1>1 DEF InHand
  <2> QED BY <1>1, <2>1, InHandIs DEF Secured
<1>3. /\ UNCHANGED <<PumpAnswers, Begun>> /\ \A q : Waiting(q)' = Waiting(q)
      /\ \A d : Done(d)' <=> Done(d)
  BY <1>1 DEF PumpAnswers, Begun, Waiting, Done
<1>4. StreamRows'
  BY <1>1 DEF LinesInv, StreamRows
<1>5. ASSUME NEW q \in Post PROVE (BatchOK(q) /\ ResultOK(q) /\ LineOK(q))'
  <2>1. CASE q = p
    BY <1>1, <2>1, NoWorkIs
       DEF BatchOK, ResultOK, LineOK, Writing, OtherSteps, InputSteps, ResultSteps, Flushed
  <2>2. CASE q # p
    <3>1. post'[q] = post[q]
      BY <1>1, <2>2
    <3>2. BatchOK(q)'
      BY <1>1, <3>1 DEF LinesInv, BatchOK
    <3>3. ResultOK(q)' /\ LineOK(q)'
      BY <1>1, <1>2, <1>3, <3>1 DEF LinesInv, ResultOK, LineOK
    <3> QED BY <3>2, <3>3
  <2> QED BY <2>1, <2>2
<1>6. ASSUME NEW c \in Client PROVE ClientOK(c)'
  <2>1. client[c].waits # p
    BY <1>1 DEF Waiting
  <2> QED BY <1>1, <2>1 DEF LinesInv, ClientOK
<1> QED BY <1>1, <1>2, <1>3, <1>4, <1>5, <1>6 DEF LinesInv

\* The line of a pump that is told it was taken is safe by then.
LEMMA AnswerKeeps == ASSUME LinesInv, NEW p \in Post, Answer(p) PROVE LinesInv'
<1>1. /\ PostTyped' /\ post'[p] = NoWork /\ \A q \in Post \ {p} : post'[q] = post[q]
      /\ UNCHANGED <<scenario, rows, buffer, over, lost, Stored>>
      /\ post[p].at \in {"answer", "refuse"}
      /\ client' = [c \in Client |-> IF client[c].waits = p
                      THEN [client[c] EXCEPT !.waits = NoPost] ELSE client[c]]
      /\ answered' = IF post[p].at = "answer" /\ Waiting(p) # {}
           THEN answered \cup {post[p].msg} ELSE answered
  BY RowCleared DEF Answer, Stored, LinesInv
<1>2. Secured \subseteq Secured'
  <2>1. ASSUME NEW q \in Post \ {p}, NEW m \in ToSet(post[q].batch) PROVE m \in InHand'
    BY <1>1 DEF InHand
  <2>2. ToSet(post[p].batch) \subseteq lost
    BY <1>1, AtStepOf DEF LinesInv, BatchOK, Writing
  <2> QED BY <1>1, <2>1, <2>2, InHandIs DEF Secured
<1>3. ASSUME NEW c \in Client
      PROVE  /\ client'[c] \in ClientRow /\ client'[c].sent = client[c].sent
             /\ client'[c].waits = IF client[c].waits = p THEN NoPost ELSE client[c].waits
  BY <1>1, <1>3 DEF LinesInv, StreamRows, ClientRow
<1>4. client' \in [Client -> ClientRow]
  BY <1>1, <1>3
<1>5. Begun' <=> Begun
  BY <1>3 DEF Begun, Client
<1>6. \A d \in Pumps : Done(d) => Done(d)'
  BY <1>1, <1>3, StreamsAssumption DEF Done, Pumps, Client
<1>7. \A q \in Post \ {p} : Waiting(q)' = Waiting(q)
  BY <1>3, StreamsAssumption DEF Waiting
<1>8. PumpAnswers' \subseteq Secured \cup ToSet(buffer)
      /\ (Begun => PumpAnswers' = PumpAnswers)
  <2>1. CASE post[p].at = "answer" /\ Waiting(p) # {} /\ Sender(post[p].msg) \in Pumps
    <3>1. post[p].msg \in Secured \cup ToSet(buffer)
      BY <2>1 DEF LinesInv, LineOK
    <3>2. ~Begun
      BY <2>1, NoPumpWaits
    <3>3. PumpAnswers' \subseteq PumpAnswers \cup {post[p].msg}
      BY <1>1 DEF PumpAnswers
    <3> QED BY <3>1, <3>2, <3>3 DEF LinesInv
  <2>2. CASE ~(post[p].at = "answer" /\ Waiting(p) # {} /\ Sender(post[p].msg) \in Pumps)
    <3>1. PumpAnswers' = PumpAnswers
      BY <1>1, <2>2 DEF PumpAnswers
    <3> QED BY <3>1 DEF LinesInv
  <2> QED BY <2>1, <2>2
<1>9. StreamRows'
  BY <1>1, <1>4 DEF LinesInv, StreamRows
<1>10. ASSUME NEW q \in Post PROVE (BatchOK(q) /\ ResultOK(q) /\ LineOK(q))'
  <2>1. CASE q = p
    BY <1>1, <2>1, NoWorkIs
       DEF BatchOK, ResultOK, LineOK, Writing, OtherSteps, InputSteps, ResultSteps, Flushed
  <2>2. CASE q # p
    <3>1. post'[q] = post[q] /\ Waiting(q)' = Waiting(q)
      BY <1>1, <1>7, <2>2
    <3>2. BatchOK(q)' /\ LineOK(q)'
      BY <1>1, <1>2, <3>1 DEF LinesInv, BatchOK, LineOK
    <3>3. ASSUME Sender(post[q].msg) = "result", post[q].at \in Flushed PROVE PumpAnswers' \subseteq Secured'
      <4>1. Begun /\ PumpAnswers \subseteq Secured
        BY <3>3 DEF LinesInv, ResultOK, Flushed, Writing
      <4> QED BY <1>2, <1>8, <4>1
    <3>4. ResultOK(q)'
      BY <1>5, <3>1, <3>3 DEF LinesInv, ResultOK
    <3> QED BY <3>2, <3>4
  <2> QED BY <2>1, <2>2
<1>11. ASSUME NEW c \in Client PROVE ClientOK(c)'
  <2>1. client[c].waits # p => ClientOK(c)'
    BY <1>1, <1>3 DEF LinesInv, ClientOK
  <2>2. client[c].waits = p => ClientOK(c)'
    BY <1>3, StreamsAssumption DEF ClientOK
  <2> QED BY <2>1, <2>2
<1>12. Begun' => \A d \in Pumps : Done(d)'
  BY <1>5, <1>6 DEF LinesInv
<1>13. over' => Begun' /\ PumpAnswers' \subseteq Secured'
  BY <1>1, <1>2, <1>5, <1>8 DEF LinesInv
<1>14. PumpAnswers' \subseteq Secured' \cup ToSet(buffer')
  BY <1>1, <1>2, <1>8
<1> QED BY <1>9, <1>10, <1>11, <1>12, <1>13, <1>14 DEF LinesInv

\* The hub goes down: what it held is lost, and nobody waits for a handler.
LEMMA RestartKeeps == ASSUME LinesInv, HubRestarts PROVE LinesInv'
<1>1. /\ post' = [q \in Post |-> NoWork] /\ buffer' = <<>>
      /\ lost' = lost \cup ToSet(buffer) \cup InHand
      /\ client' = [c \in Client |-> IF client[c].waits = NoPost
                      THEN client[c] ELSE [client[c] EXCEPT !.waits = Gone]]
      /\ UNCHANGED <<scenario, rows, over, answered, Stored, PumpAnswers>>
  BY DEF HubRestarts, InHand, Stored, PumpAnswers
<1>2. Secured \cup ToSet(buffer) \subseteq Secured'
  BY <1>1 DEF Secured
<1>3. ASSUME NEW c \in Client
      PROVE  /\ client'[c] \in ClientRow /\ client'[c].sent = client[c].sent
             /\ client'[c].waits = IF client[c].waits = NoPost THEN NoPost ELSE Gone
  BY <1>1, <1>3 DEF LinesInv, StreamRows, ClientRow
<1>4. (Begun' <=> Begun) /\ \A d \in Pumps : Done(d) => Done(d)'
  BY <1>1, <1>3 DEF Begun, Done, Client, Pumps
<1>5. StreamRows'
  <2>1. post' \in [Post -> PostRow({0})]
    BY <1>1, NoWorkIs
  <2>2. client' \in [Client -> ClientRow] /\ buffer' \in Seq(Msg)
    BY <1>1, <1>3
  <2> QED BY <1>1, <2>1, <2>2 DEF LinesInv, StreamRows, PostTyped
<1>6. ASSUME NEW q \in Post PROVE (BatchOK(q) /\ ResultOK(q) /\ LineOK(q))'
  <2>1. post'[q] = NoWork
    BY <1>1
  <2> QED BY <2>1, NoWorkIs
             DEF BatchOK, ResultOK, LineOK, Writing, OtherSteps, InputSteps, ResultSteps, Flushed
<1>7. ASSUME NEW c \in Client PROVE ClientOK(c)'
  BY <1>3, StreamsAssumption DEF LinesInv, ClientOK
<1>8. over' => Begun' /\ PumpAnswers' \subseteq Secured'
  BY <1>1, <1>2, <1>4 DEF LinesInv
<1>9. PumpAnswers' \subseteq Secured' \cup ToSet(buffer')
  BY <1>1, <1>2 DEF LinesInv
<1> QED BY <1>4, <1>5, <1>6, <1>7, <1>8, <1>9 DEF LinesInv

\* A message goes out to a handler that is free.
LEMMA Begins ==
  ASSUME StreamRows, NEW p \in Post, NEW m \in Msg, Sender(m) \in Client, Handle(p, m)
  PROVE  /\ PostTyped' /\ \A q \in Post \ {p} : post'[q] = post[q]
         /\ post'[p].at = FirstStep(Sender(m)) /\ post'[p].msg = m
         /\ post'[p].at = "owner" => post'[p].batch = <<m>>
         /\ post'[p].at # "owner" => post'[p].batch = <<>>
<1> DEFINE at == FirstStep(Sender(m))
           b == IF at = "owner" THEN <<m>> ELSE <<>>
           r == [NoWork EXCEPT !.at = at, !.msg = m, !.batch = b]
<1>1. PICK numbers : post \in [Post -> PostRow(numbers)]
  BY DEF StreamRows, PostTyped
<1> DEFINE more == numbers \cup {0}
<1>2. \A q \in Post : post[q] \in PostRow(more)
  BY <1>1 DEF PostRow
<1>3. at \in PostLabel /\ b \in Seq(Msg)
  BY DEF FirstStep, PostLabel
<1> HIDE DEF at, b
<1>4. r \in PostRow(more) /\ r.at = at /\ r.msg = m /\ r.batch = b
  BY <1>3 DEF PostRow, NoWork
<1>5. post' = [post EXCEPT ![p] = r]
  BY DEF Handle, at, b
<1> HIDE DEF r, more
<1>6. post' \in [Post -> PostRow(more)] /\ post'[p] = r /\ \A q \in Post \ {p} : post'[q] = post[q]
  BY <1>1, <1>2, <1>4, <1>5
<1> QED BY <1>4, <1>6 DEF PostTyped, at, b

\* Client c waits for handler p, which has its message in its first step.
LEMMA SendsKeep ==
  ASSUME LinesInv, NEW c \in Client, NEW p \in Post, NEW n \in Nat, n > 0,
         post[p] = NoWork, Handle(p, <<c, n>>),
         \A d \in Client \ {c} : client'[d] = client[d],
         client' \in [Client -> ClientRow], client'[c].waits = p, client'[c].sent = n,
         c = "result" => \A d \in Pumps : Done(d),
         Begun => c \notin Pumps,
         UNCHANGED <<scenario, buffer, rows, over, answered, lost>>
  PROVE  LinesInv'
<1> DEFINE m == <<c, n>>
<1>1. m \in Msg /\ Sender(m) = c
  BY DEF Msg, Sender
<1>2. /\ PostTyped' /\ \A q \in Post \ {p} : post'[q] = post[q]
      /\ post'[p].at = FirstStep(c) /\ post'[p].msg = m
      /\ post'[p].at = "owner" => post'[p].batch = <<m>>
      /\ post'[p].at # "owner" => post'[p].batch = <<>>
  BY <1>1, Begins DEF LinesInv
<1>3. UNCHANGED <<Stored, PumpAnswers>>
  BY DEF Stored, PumpAnswers
<1>4. Secured \subseteq Secured' /\ ToSet(post'[p].batch) \subseteq InHand'
  <2>1. ASSUME NEW q \in Post \ {p}, NEW l \in ToSet(post[q].batch) PROVE l \in InHand'
    BY <1>2 DEF InHand
  <2>2. ToSet(post[p].batch) = {} /\ post[p].batch = <<>>
    BY NoWorkIs, SetsOfSeqs
  <2> QED BY <1>3, <2>1, <2>2, InHandIs DEF Secured, InHand
<1>5. p # NoPost
  BY StreamsAssumption
<1>6. (Begun => Begun') /\ (Begun' => Begun \/ c = "result")
  BY DEF Begun, Client
<1>7. Begun' => \A d \in Pumps : Done(d)'
  <2> SUFFICES ASSUME Begun', NEW d \in Pumps PROVE Done(d)'
    OBVIOUS
  <2>1. d # c /\ Done(d)
    BY <1>6 DEF LinesInv, Pumps
  <2> QED BY <2>1 DEF Done, Pumps, Client
<1>8. StreamRows'
  BY <1>2 DEF LinesInv, StreamRows
<1>9. \A q \in Post \ {p} : Waiting(q)' \subseteq Waiting(q)
  BY DEF Waiting
<1>10. ASSUME NEW q \in Post \ {p} PROVE (BatchOK(q) /\ ResultOK(q) /\ LineOK(q))'
  <2>1. post'[q] = post[q] /\ Waiting(q)' \subseteq Waiting(q)
    BY <1>2, <1>9
  <2>2. BatchOK(q)'
    BY <2>1 DEF LinesInv, BatchOK
  <2>3. LineOK(q)'
    BY <1>3, <1>4, <2>1 DEF LinesInv, LineOK
  <2>4. ResultOK(q)'
    BY <1>3, <1>4, <1>6, <2>1 DEF LinesInv, ResultOK
  <2> QED BY <2>2, <2>3, <2>4
<1>11. (BatchOK(p) /\ ResultOK(p) /\ LineOK(p))'
  <2>1. /\ post'[p].at \in {"flush", "status", "owner", "push"}
        /\ post'[p].at = "flush" <=> c = "result"
        /\ post'[p].at = "status" <=> c = "stdin"
    BY <1>2 DEF FirstStep
  <2>2. BatchOK(p)'
    <3>1. <<m>> # <<>> /\ post'[p].at # "refuse" /\ (post'[p].at \in Writing <=> post'[p].at = "owner")
      BY <2>1 DEF Writing
    <3> QED BY <1>2, <3>1 DEF BatchOK
  <2>3. ResultOK(p)'
    <3>1. Sender(post'[p].msg) = c /\ (c = "result" => client'["result"].sent > 0)
      BY <1>1, <1>2
    <3> QED BY <2>1, <3>1
               DEF ResultOK, ResultSteps, OtherSteps, InputSteps, Flushed, Writing, Pumps, Begun
  <2>4. LineOK(p)'
    <3> SUFFICES ASSUME post'[p].at \in Writing \cup {"answer"} PROVE m \in Secured'
      BY <1>2 DEF LineOK
    <3>1. post'[p].batch = <<m>>
      BY <1>2, <2>1 DEF Writing
    <3>2. ToSet(<<m>>) = {m}
      BY SetsOfSeqs
    <3> QED BY <1>4, <3>1, <3>2 DEF Secured
  <2> QED BY <2>2, <2>3, <2>4
<1>12. ASSUME NEW d \in Client PROVE ClientOK(d)'
  <2>1. CASE d = c
    <3>1. post'[p].at # "idle" /\ Sender(post'[p].msg) = c
      BY <1>1, <1>2 DEF FirstStep
    <3> QED BY <2>1, <3>1 DEF ClientOK
  <2>2. CASE d # c
    <3>1. client'[d] = client[d] /\ client[d].waits # p
      BY <2>2, NoWorkIs DEF LinesInv, ClientOK
    <3> QED BY <1>2, <3>1 DEF LinesInv, ClientOK
  <2> QED BY <2>1, <2>2
<1>13. (over' => Begun' /\ PumpAnswers' \subseteq Secured') /\ PumpAnswers' \subseteq Secured' \cup ToSet(buffer')
  BY <1>3, <1>4, <1>6 DEF LinesInv
<1> QED BY <1>7, <1>8, <1>10, <1>11, <1>12, <1>13 DEF LinesInv

LEMMA SendKeeps ==
  ASSUME LinesInv, NEW c \in Client, NEW p \in Post, SendMessage(c, p)
  PROVE  LinesInv'
<1> DEFINE n == client[c].sent + 1
<1>1. client \in [Client -> ClientRow] /\ client[c].sent \in Nat
  BY DEF LinesInv, StreamRows, ClientRow
<1>2. n \in Nat /\ n > 0
  BY <1>1
<1>3. client' = [client EXCEPT ![c] = [sent |-> n, waits |-> p, tries |-> 1]]
  BY DEF SendMessage
<1>4. [sent |-> n, waits |-> p, tries |-> 1] \in ClientRow
  BY <1>2 DEF ClientRow
<1>5. /\ client' \in [Client -> ClientRow] /\ \A d \in Client \ {c} : client'[d] = client[d]
      /\ client'[c].waits = p /\ client'[c].sent = n
  BY <1>1, <1>3, <1>4
<1>6. Begun => c \notin Pumps
  BY <1>1 DEF LinesInv, Done, SendMessage
<1> HIDE DEF n
<1>7. Handle(p, <<c, n>>)
  BY DEF SendMessage, n
<1> QED BY <1>2, <1>5, <1>6, <1>7, SendsKeep DEF SendMessage

LEMMA AgainKeeps ==
  ASSUME LinesInv, NEW c \in Client, NEW p \in Post, SendAgain(c, p)
  PROVE  LinesInv'
<1> DEFINE n == client[c].sent
           r == [client[c] EXCEPT !.waits = p, !.tries = client[c].tries + 1]
<1>1. client \in [Client -> ClientRow] /\ n \in Nat /\ n > 0 /\ client[c].tries \in Nat
  BY DEF LinesInv, StreamRows, ClientRow, ClientOK, SendAgain
<1>2. client' = [client EXCEPT ![c] = r]
  BY <1>1 DEF SendAgain, ClientRow
<1>3. r \in ClientRow /\ r.waits = p /\ r.sent = n
  <2>1. client[c] \in ClientRow /\ client[c].tries + 1 \in Nat
    BY <1>1
  <2>2. client[c].tries + 1 \in Nat => r \in ClientRow
    BY <2>1 DEF ClientRow
  <2> QED BY <2>1, <2>2 DEF ClientRow
<1> HIDE DEF r
<1>4. /\ client' \in [Client -> ClientRow] /\ \A d \in Client \ {c} : client'[d] = client[d]
      /\ client'[c].waits = p /\ client'[c].sent = n
  BY <1>1, <1>2, <1>3
<1>5. /\ (Begun => c \notin Pumps) /\ (c = "result" => \A d \in Pumps : Done(d))
      /\ Handle(p, <<c, n>>) /\ post[p] = NoWork
      /\ UNCHANGED <<scenario, buffer, rows, over, answered, lost>>
  BY <1>1 DEF LinesInv, Done, SendAgain, Begun
<1> HIDE DEF n
<1> QED BY <1>1, <1>4, <1>5, SendsKeep

LEMMA GiveUpKeeps == ASSUME LinesInv, NEW c \in Client, GiveUp(c) PROVE LinesInv'
<1>1. /\ UNCHANGED <<scenario, post, buffer, rows, over, answered, lost>>
      /\ UNCHANGED <<Stored, PumpAnswers, InHand, Secured, PostTyped>>
  BY DEF GiveUp, Stored, PumpAnswers, InHand, Secured, PostTyped
<1>2. client' = [client EXCEPT ![c] = [client[c] EXCEPT !.waits = NoPost]]
  BY DEF GiveUp, LinesInv, StreamRows, ClientRow
<1>3. /\ client' \in [Client -> ClientRow] /\ \A d \in Client \ {c} : client'[d] = client[d]
      /\ client'[c].waits = NoPost /\ client'[c].sent = client[c].sent
  BY <1>2 DEF LinesInv, StreamRows, ClientRow
<1>4. (Begun' <=> Begun) /\ \A d \in Pumps : Done(d) => Done(d)'
  BY <1>1, <1>3 DEF Begun, Done, Client, Pumps
<1>5. StreamRows'
  BY <1>1, <1>3 DEF LinesInv, StreamRows
<1>6. \A q \in Post : Waiting(q)' \subseteq Waiting(q)
  BY <1>3, StreamsAssumption DEF Waiting
<1>7. ASSUME NEW q \in Post PROVE (BatchOK(q) /\ ResultOK(q) /\ LineOK(q))'
  BY <1>1, <1>4, <1>6 DEF LinesInv, BatchOK, ResultOK, LineOK
<1>8. ASSUME NEW d \in Client PROVE ClientOK(d)'
  BY <1>1, <1>3, StreamsAssumption DEF LinesInv, ClientOK
<1> QED BY <1>1, <1>4, <1>5, <1>7, <1>8 DEF LinesInv

LEMMA WatchersKeep ==
  ASSUME LinesInv, UNCHANGED <<scenario, client, post, buffer, rows, over, answered, lost>>
  PROVE  LinesInv'
<1>1. /\ UNCHANGED <<Stored, InHand, PumpAnswers, PostTyped>>
      /\ \A q \in Post : Waiting(q)' = Waiting(q)
      /\ (Begun' <=> Begun) /\ \A d \in Pumps : (Done(d)' <=> Done(d))
  BY DEF Stored, InHand, PumpAnswers, PostTyped, Waiting, Begun, Done
<1>2. UNCHANGED Secured
  BY <1>1 DEF Secured
<1>3. StreamRows'
  BY <1>1 DEF LinesInv, StreamRows
<1>4. ASSUME NEW q \in Post PROVE (BatchOK(q) /\ ResultOK(q) /\ LineOK(q))'
  <2>1. BatchOK(q) /\ ResultOK(q) /\ LineOK(q)
    BY DEF LinesInv
  <2>2. BatchOK(q)' /\ LineOK(q)'
    BY <1>1, <1>2, <2>1 DEF BatchOK, LineOK
  <2> QED BY <1>1, <1>2, <2>1, <2>2 DEF ResultOK
<1>5. ASSUME NEW d \in Client PROVE ClientOK(d)'
  BY DEF LinesInv, ClientOK
<1> QED BY <1>1, <1>2, <1>3, <1>4, <1>5 DEF LinesInv

LEMMA StreamsKeep == LinesInv /\ [StreamsNext]_streamVars => LinesInv'
<1> SUFFICES ASSUME LinesInv, [StreamsNext]_streamVars PROVE LinesInv'
  OBVIOUS
<1>1. ASSUME NEW c \in Client, GiveUp(c) PROVE LinesInv'
  BY <1>1, GiveUpKeeps
<1>2. ASSUME NEW c \in Client, NEW p \in Post, SendMessage(c, p) \/ SendAgain(c, p) PROVE LinesInv'
  BY <1>2, SendKeeps, AgainKeeps
<1>3. ASSUME NEW p \in Post, Handlers(p) PROVE LinesInv'
  BY <1>3, AnswerKeeps, PushKeeps, FlushKeeps, CheckOwnerKeeps, ReadMaxKeeps, InsertKeeps, ForgetKeeps,
     GateKeeps, RecordKeeps, DropInputKeeps, InputKeeps, FailKeeps, DropKeeps DEF Handlers
<1>4. ASSUME PollInput \/ ReadLines \/ EventsTask \/ EventsProgress \/ UNCHANGED streamVars PROVE LinesInv'
  BY <1>4, WatchersKeep DEF PollInput, ReadLines, EventsTask, EventsProgress, streamVars
<1> QED BY <1>1, <1>2, <1>3, <1>4, RestartKeeps DEF StreamsNext

\* "Force-flush any buffered stream lines before marking the task terminal.
\* This ensures no lines are lost" (submit_result): for any number of handlers,
\* clients that retry, errors, dropped handlers and restarts of the hub.
THEOREM AnsweredLinesKeptHolds == StreamsSpec => []AnsweredLinesKept
<1>1. LinesInv => AnsweredLinesKept
  BY DEF LinesInv, AnsweredLinesKept, PumpAnswers, Secured
<1> QED BY <1>1, StreamsInitInv, StreamsKeep, PTL DEF StreamsSpec

-----------------------------------------------------------------------------
(***************************************************************************)
(* The input of a task.  The queue is the end of what was accepted,        *)
(* numbered from 1, and what the process was given goes through what was   *)
(* accepted from left to right, no further than the runner's cursor.       *)
(***************************************************************************)
Before == Len(accepted) - Len(input)
ReadSoFar == IF stdinAt < Len(input) THEN stdinAt ELSE Len(input)

GivenFrom(f) ==
  /\ f \in [DOMAIN delivered -> DOMAIN accepted]
  /\ \A i \in DOMAIN delivered : accepted[f[i]] = delivered[i] /\ f[i] <= Before + ReadSoFar
  /\ \A i, j \in DOMAIN delivered : i < j => f[i] < f[j]

InputInv ==
  /\ \E kind : input \in Seq(kind)
  /\ \E kind : accepted \in Seq(kind) /\ delivered \in Seq(kind)
  /\ stdinAt \in Nat
  /\ Len(input) <= Len(accepted)
  /\ \A k \in DOMAIN input : input[k].seq = k /\ input[k].msg = accepted[Before + k]
  /\ \E f : GivenFrom(f)

LEMMA InputStarts == StreamsInit => InputInv
<1> SUFFICES ASSUME StreamsInit PROVE InputInv
  OBVIOUS
<1>1. input = <<>> /\ stdinAt = 0 /\ delivered = <<>> /\ accepted = <<>>
  BY DEF StreamsInit
<1>2. GivenFrom(<<>>)
  BY <1>1 DEF GivenFrom
<1>3. <<>> \in Seq({})
  OBVIOUS
<1> QED BY <1>1, <1>2, <1>3 DEF InputInv

LEMMA QueueEmptied ==
  ASSUME InputInv, input' = <<>>, UNCHANGED <<stdinAt, delivered, accepted>>
  PROVE  InputInv'
<1>1. PICK f : GivenFrom(f)
  BY DEF InputInv
<1>2. PICK kind : accepted \in Seq(kind) /\ delivered \in Seq(kind)
  BY DEF InputInv
<1>3. Len(accepted) \in Nat /\ DOMAIN accepted = 1..Len(accepted) /\ stdinAt \in Nat /\ Len(<<>>) = 0
  BY <1>2 DEF InputInv
<1>4. Before' = Len(accepted) /\ ReadSoFar' = 0
  BY <1>3 DEF Before, ReadSoFar
<1>5. GivenFrom(f)'
  <2>1. \A i \in DOMAIN delivered : f[i] <= Len(accepted) + 0
    BY <1>1, <1>3 DEF GivenFrom
  <2> QED BY <1>1, <1>4, <2>1 DEF GivenFrom
<1>6. input' \in Seq({}) /\ DOMAIN input' = {}
  OBVIOUS
<1> QED BY <1>2, <1>3, <1>5, <1>6 DEF InputInv

LEMMA EnqueueKeeps == ASSUME InputInv, NEW p \in Post, Enqueue(p) PROVE InputInv'
<1> DEFINE number == IF input = <<>> THEN 1 ELSE Last(input).seq + 1
           entry == [msg |-> post[p].msg, seq |-> number]
<1>1. /\ input' = Append(input, entry) /\ accepted' = Append(accepted, post[p].msg)
      /\ UNCHANGED <<stdinAt, delivered>>
  BY DEF Enqueue, runnerSide
<1>2. PICK some : input \in Seq(some)
  BY DEF InputInv
<1>3. PICK kind : accepted \in Seq(kind) /\ delivered \in Seq(kind)
  BY DEF InputInv
<1>4. number = Len(input) + 1
  <2>1. CASE input = <<>>
    BY <2>1
  <2>2. CASE input # <<>>
    <3>1. Len(input) \in DOMAIN input /\ Last(input) = input[Len(input)]
      BY <1>2, <2>2 DEF Last
    <3> QED BY <2>2, <3>1 DEF InputInv
  <2> QED BY <2>1, <2>2
<1>5. entry.seq = Len(input) + 1 /\ entry.msg = post[p].msg
  BY <1>4
<1> HIDE DEF entry
<1> DEFINE more == some \cup {entry}
           wider == kind \cup {post[p].msg}
<1>6. input \in Seq(more) /\ entry \in more /\ accepted \in Seq(wider) /\ delivered \in Seq(wider)
      /\ post[p].msg \in wider
  BY <1>2, <1>3
<1> HIDE DEF more, wider
<1>7. /\ input' \in Seq(more) /\ Len(input') = Len(input) + 1 /\ Len(input) \in Nat
      /\ \A k \in 1..Len(input) : input'[k] = input[k]
      /\ input'[Len(input) + 1] = entry
      /\ DOMAIN input' = 1..(Len(input) + 1) /\ DOMAIN input = 1..Len(input)
  BY <1>1, <1>6
<1>8. /\ accepted' \in Seq(wider) /\ Len(accepted') = Len(accepted) + 1 /\ Len(accepted) \in Nat
      /\ \A k \in 1..Len(accepted) : accepted'[k] = accepted[k]
      /\ accepted'[Len(accepted) + 1] = post[p].msg
      /\ DOMAIN accepted' = 1..(Len(accepted) + 1) /\ DOMAIN accepted = 1..Len(accepted)
  BY <1>1, <1>6
<1>9. Before' = Before /\ ReadSoFar <= ReadSoFar' /\ Before \in Nat /\ ReadSoFar \in Nat /\ ReadSoFar' \in Nat
  BY <1>1, <1>7, <1>8 DEF Before, ReadSoFar, InputInv
<1>10. ASSUME NEW k \in DOMAIN input'
       PROVE  input'[k].seq = k /\ input'[k].msg = accepted'[Before' + k]
  <2>1. CASE k \in DOMAIN input
    <3>1. Before + k \in 1..Len(accepted)
      BY <1>7, <1>8, <2>1 DEF Before, InputInv
    <3> QED BY <1>7, <1>8, <1>9, <2>1, <3>1 DEF InputInv
  <2>2. CASE k = Len(input) + 1
    <3>1. Before + k = Len(accepted) + 1
      BY <1>7, <1>8, <2>2 DEF Before
    <3> QED BY <1>5, <1>7, <1>8, <1>9, <2>2, <3>1
  <2> QED BY <1>7, <2>1, <2>2
<1>11. PICK f : GivenFrom(f)
  BY DEF InputInv
<1>12. GivenFrom(f)'
  <2>1. ASSUME NEW i \in DOMAIN delivered
        PROVE  f[i] \in DOMAIN accepted' /\ accepted'[f[i]] = delivered[i] /\ f[i] <= Before' + ReadSoFar'
    <3>1. f[i] \in 1..Len(accepted) /\ accepted[f[i]] = delivered[i] /\ f[i] <= Before + ReadSoFar
      BY <1>8, <1>11 DEF GivenFrom
    <3> QED BY <1>8, <1>9, <3>1
  <2>2. f \in [DOMAIN delivered' -> DOMAIN accepted']
    BY <1>1, <1>11, <2>1 DEF GivenFrom
  <2> QED BY <1>1, <1>11, <2>1, <2>2 DEF GivenFrom
<1>13. Len(input') <= Len(accepted')
  BY <1>7, <1>8 DEF InputInv
<1>14. stdinAt' \in Nat /\ delivered' \in Seq(wider)
  BY <1>1, <1>6 DEF InputInv
<1> QED BY <1>7, <1>8, <1>10, <1>12, <1>13, <1>14 DEF InputInv

LEMMA PollKeeps == ASSUME InputInv, PollInput PROVE InputInv'
<1> DEFINE places == {i \in DOMAIN input : Behind(input[i])}
           new == Picked(input, places)
           size == Cardinality(places)
           msgs == [i \in DOMAIN new |-> new[i].msg]
           had == Len(delivered)
<1>1. /\ new # <<>> /\ delivered' = delivered \o msgs /\ stdinAt' = Last(new).seq
      /\ UNCHANGED <<input, accepted>>
  BY DEF PollInput
<1>2. PICK some : input \in Seq(some)
  BY DEF InputInv
<1>3. PICK kind : accepted \in Seq(kind) /\ delivered \in Seq(kind)
  BY DEF InputInv
<1>4. /\ Len(input) \in Nat /\ DOMAIN input = 1..Len(input) /\ Len(accepted) \in Nat
      /\ DOMAIN accepted = 1..Len(accepted) /\ had \in Nat /\ DOMAIN delivered = 1..had
      /\ stdinAt \in Nat /\ Before \in Nat /\ Before + Len(input) = Len(accepted)
  BY <1>2, <1>3 DEF InputInv, Before
<1>5. places \in SUBSET (1..Len(input)) /\ \A i \in places : i > stdinAt /\ input[i].seq = i
  BY <1>4 DEF InputInv, Behind
<1> HIDE DEF places
<1>6. PICK g \in [1..size -> places] :
        new = [k \in 1..size |-> input[g[k]]] /\ GoesThrough(g, places)
  BY <1>4, <1>5, PickedInOrder
<1>7. size \in Nat
  BY <1>4, <1>5, PlacesCounted
<1>8. \A k, m \in 1..size : k < m => g[k] < g[m]
  BY <1>6 DEF GoesThrough
<1> HIDE DEF size
<1>9. \A k \in 1..size : /\ g[k] \in 1..Len(input) /\ g[k] > stdinAt /\ input[g[k]].seq = g[k]
                         /\ Before + g[k] \in 1..Len(accepted)
                         /\ input[g[k]].msg = accepted[Before + g[k]]
  <2>1. \A k \in 1..size : g[k] \in 1..Len(input) /\ g[k] > stdinAt /\ input[g[k]].seq = g[k]
    BY <1>5, <1>6
  <2>2. \A i \in 1..Len(input) : Before + i \in 1..Len(accepted) /\ input[i].msg = accepted[Before + i]
    BY <1>4 DEF InputInv
  <2> QED BY <2>1, <2>2
<1>10. new \in Seq(some) /\ Len(new) = size /\ DOMAIN new = 1..size /\ size > 0
  <2>1. \A k \in 1..size : input[g[k]] \in some
    BY <1>2, <1>9
  <2>2. [k \in 1..size |-> input[g[k]]] \in Seq(some)
    BY <1>7, <2>1
  <2> QED BY <1>1, <1>6, <1>7, <2>2
<1>11. stdinAt' = g[size] /\ stdinAt' \in 1..Len(input)
  <2>1. Last(new) = new[size] /\ size \in 1..size
    BY <1>7, <1>10 DEF Last
  <2> QED BY <1>1, <1>6, <1>9, <2>1
<1>12. /\ DOMAIN msgs = 1..size /\ \A k \in 1..size : msgs[k] = accepted[Before + g[k]]
  BY <1>6, <1>9, <1>10
<1>13. msgs \in Seq(kind) /\ Len(msgs) = size
  <2>1. \A k \in 1..size : accepted[Before + g[k]] \in kind
    BY <1>3, <1>9
  <2>2. msgs = [k \in 1..size |-> accepted[Before + g[k]]]
    BY <1>12
  <2>3. [k \in 1..size |-> accepted[Before + g[k]]] \in Seq(kind)
    BY <1>7, <2>1
  <2> QED BY <1>7, <2>2, <2>3
<1> HIDE DEF msgs, new
<1>14. /\ delivered' \in Seq(kind) /\ DOMAIN delivered' = 1..(had + size)
       /\ \A i \in 1..(had + size) :
            delivered'[i] = IF i <= had THEN delivered[i] ELSE msgs[i - had]
  BY <1>1, <1>3, <1>13
<1>15. PICK f : GivenFrom(f)
  BY DEF InputInv
<1> DEFINE h == [i \in 1..(had + size) |-> IF i <= had THEN f[i] ELSE Before + g[i - had]]
<1>16. \A i \in 1..had : f[i] \in 1..Len(accepted) /\ accepted[f[i]] = delivered[i] /\ f[i] <= Before + stdinAt
  BY <1>4, <1>15 DEF GivenFrom, ReadSoFar
<1>17. Before' = Before /\ ReadSoFar' = g[size]
  BY <1>1, <1>4, <1>11 DEF Before, ReadSoFar
<1>18. \A k \in 1..size : g[k] <= g[size]
  <2> SUFFICES ASSUME NEW k \in 1..size PROVE g[k] <= g[size]
    OBVIOUS
  <2>1. k = size \/ k < size
    BY <1>7
  <2>2. size \in 1..size /\ g[k] \in Int /\ g[size] \in Int
    BY <1>7, <1>9, <1>10
  <2> QED BY <1>8, <2>1, <2>2
<1>19. ASSUME NEW i \in 1..(had + size)
       PROVE  h[i] \in 1..Len(accepted) /\ accepted[h[i]] = delivered'[i] /\ h[i] <= Before + g[size]
  <2>1. CASE i <= had
    <3>1. i \in 1..had /\ h[i] = f[i] /\ delivered'[i] = delivered[i]
      BY <1>4, <1>14, <2>1
    <3>2. stdinAt < g[size] /\ g[size] \in Int /\ f[i] \in Int
      BY <1>7, <1>9, <1>10, <1>16, <3>1
    <3>3. \A a \in Int, b \in Int, c \in Nat : a <= Before + c /\ c < b => a <= Before + b
      BY <1>4
    <3> QED BY <1>4, <1>16, <3>1, <3>2, <3>3
  <2>2. CASE ~(i <= had)
    <3>1. i - had \in 1..size /\ h[i] = Before + g[i - had] /\ delivered'[i] = msgs[i - had]
      BY <1>4, <1>7, <1>14, <2>2
    <3>2. g[i - had] <= g[size] /\ g[i - had] \in Int /\ g[size] \in Int
      BY <1>7, <1>9, <1>10, <1>18, <3>1
    <3>3. h[i] \in 1..Len(accepted)
      BY <1>9, <3>1
    <3>4. msgs[i - had] = accepted[Before + g[i - had]]
      BY <1>12, <3>1
    <3>5. accepted[h[i]] = delivered'[i]
      BY <3>1, <3>4
    <3>6. h[i] <= Before + g[size]
      BY <1>4, <3>1, <3>2
    <3> QED BY <3>3, <3>5, <3>6
  <2> QED BY <2>1, <2>2
<1>20. ASSUME NEW i \in 1..(had + size), NEW j \in 1..(had + size), i < j
       PROVE  h[i] < h[j]
  <2>1. CASE j <= had
    <3>1. i \in 1..had /\ j \in 1..had /\ h[i] = f[i] /\ h[j] = f[j]
      BY <1>4, <1>20, <2>1
    <3> QED BY <1>4, <1>15, <1>20, <3>1 DEF GivenFrom
  <2>2. CASE i <= had /\ ~(j <= had)
    <3>1. i \in 1..had /\ j - had \in 1..size /\ h[i] = f[i] /\ h[j] = Before + g[j - had]
      BY <1>4, <1>7, <2>2
    <3>2. f[i] \in Int /\ f[i] <= Before + stdinAt /\ g[j - had] \in Int /\ stdinAt < g[j - had]
      BY <1>9, <1>16, <3>1
    <3> QED BY <1>4, <3>1, <3>2
  <2>3. CASE ~(i <= had)
    <3>1. /\ i - had \in 1..size /\ j - had \in 1..size /\ i - had < j - had
          /\ h[i] = Before + g[i - had] /\ h[j] = Before + g[j - had]
      BY <1>4, <1>7, <1>20, <2>3
    <3>2. g[i - had] < g[j - had] /\ g[i - had] \in Int /\ g[j - had] \in Int
      BY <1>8, <1>9, <3>1
    <3> QED BY <1>4, <3>1, <3>2
  <2> QED BY <1>4, <1>7, <2>1, <2>2, <2>3
<1>21. h \in [1..(had + size) -> 1..Len(accepted)]
  BY <1>19
<1> HIDE DEF h
<1>22. PICK e : e = h
  OBVIOUS
<1>23. GivenFrom(e)'
  BY <1>1, <1>4, <1>14, <1>17, <1>19, <1>20, <1>21, <1>22 DEF GivenFrom
<1>24. \A k \in DOMAIN input' : input'[k].seq = k /\ input'[k].msg = accepted'[Before' + k]
  BY <1>1, <1>17 DEF InputInv
<1>25. stdinAt' \in Nat /\ Len(input') <= Len(accepted')
  BY <1>1, <1>4, <1>11 DEF InputInv
<1> QED BY <1>1, <1>2, <1>3, <1>14, <1>23, <1>24, <1>25 DEF InputInv

LEMMA InputKept == InputInv /\ [StreamsNext]_streamVars => InputInv'
<1> SUFFICES ASSUME InputInv, [StreamsNext]_streamVars PROVE InputInv'
  OBVIOUS
<1>1. ASSUME UNCHANGED <<input, stdinAt, delivered, accepted>> PROVE InputInv'
  BY <1>1 DEF InputInv, GivenFrom, Before, ReadSoFar
<1>2. ASSUME NEW c \in Client, GiveUp(c) PROVE InputInv'
  BY <1>1, <1>2 DEF GiveUp, runnerSide
<1>3. ASSUME NEW c \in Client, NEW p \in Post, SendMessage(c, p) \/ SendAgain(c, p) PROVE InputInv'
  BY <1>1, <1>3 DEF SendMessage, SendAgain, runnerSide
<1>4. ASSUME NEW p \in Post, Handlers(p) PROVE InputInv'
  <2>1. CASE Enqueue(p)
    BY <2>1, EnqueueKeeps
  <2>2. CASE DropInput(p)
    BY <2>2, QueueEmptied DEF DropInput, runnerSide
  <2>3. CASE Answer(p) \/ PushLine(p) \/ FlushTask(p) \/ CheckOwner(p) \/ ReadMax(p) \/ InsertRow(p)
             \/ Forget(p) \/ GateResult(p) \/ RecordTerminal(p) \/ CheckStatus(p) \/ FailPost(p) \/ DropPost(p)
    BY <1>1, <2>3 DEF Answer, PushLine, FlushTask, CheckOwner, ReadMax, InsertRow, Forget, GateResult,
       RecordTerminal, CheckStatus, FailPost, DropPost, runnerSide
  <2> QED BY <1>4, <2>1, <2>2, <2>3 DEF Handlers
<1>5. CASE HubRestarts
  BY <1>5, QueueEmptied DEF HubRestarts, runnerSide
<1>6. CASE ReadLines \/ EventsTask \/ EventsProgress \/ UNCHANGED streamVars
  BY <1>1, <1>6 DEF ReadLines, EventsTask, EventsProgress, streamVars
<1> QED BY <1>2, <1>3, <1>4, <1>5, <1>6, PollKeeps DEF StreamsNext

\* The process is given every accepted batch at most once and in the order
\* they were accepted (post_task_input, get_task_input, drain_signed_stdin),
\* also over restarts of the hub, which number the batches from 1 again.
THEOREM InputInOrderHolds == StreamsSpec => []InputInOrder
<1>1. InputInv => InputInOrder
  <2> SUFFICES ASSUME InputInv, NEW i \in DOMAIN delivered, NEW j \in DOMAIN delivered, i < j
               PROVE  \E a, b \in DOMAIN accepted :
                        a < b /\ accepted[a] = delivered[i] /\ accepted[b] = delivered[j]
    BY DEF InputInOrder
  <2>1. PICK f : GivenFrom(f)
    BY DEF InputInv
  <2>2. /\ f[i] \in DOMAIN accepted /\ f[j] \in DOMAIN accepted /\ f[i] < f[j]
        /\ accepted[f[i]] = delivered[i] /\ accepted[f[j]] = delivered[j]
    BY <2>1 DEF GivenFrom
  <2> QED BY <2>2
<1> QED BY <1>1, InputStarts, InputKept, PTL DEF StreamsSpec


-----------------------------------------------------------------------------
(***************************************************************************)
(* The calendar of the keys: the closed forms of dates.rs, for every year, *)
(* and the loops of epoch_secs_to_iso, for every day.                      *)
(*                                                                         *)
(* What a loop computes follows without induction over its turns: the      *)
(* function it is claimed to compute obeys the loop's equation, so one     *)
(* that does exists, and two that do agree (LoopDetermined, by the least   *)
(* counterexample).                                                        *)
(***************************************************************************)
Year == Nat \ {0, 1}

\* How many leap days the years up to this one had.
Leaps(y) == (y \div 4) - (y \div 100) + (y \div 400)

NewYear(y) == DaysFromCivil(y, 1, 1)

LEMMA LeapsGrow ==
  ASSUME NEW y \in Nat, y > 0
  PROVE  /\ Leaps(y) \in Int /\ Leaps(y - 1) \in Int
         /\ Leaps(y) = Leaps(y - 1) + IF Leap(y) THEN 1 ELSE 0
<1>1. /\ y \div 4 = ((y - 1) \div 4) + IF y % 4 = 0 THEN 1 ELSE 0
      /\ y \div 4 \in Int /\ (y - 1) \div 4 \in Int
  OBVIOUS
<1>2. /\ y \div 100 = ((y - 1) \div 100) + IF y % 100 = 0 THEN 1 ELSE 0
      /\ y \div 100 \in Int /\ (y - 1) \div 100 \in Int
  OBVIOUS
<1>3. /\ y \div 400 = ((y - 1) \div 400) + IF y % 400 = 0 THEN 1 ELSE 0
      /\ y \div 400 \in Int /\ (y - 1) \div 400 \in Int
  OBVIOUS
<1>4. /\ y % 400 = 0 => y % 100 = 0
      /\ y % 100 = 0 => y % 4 = 0
  OBVIOUS
<1> QED BY <1>1, <1>2, <1>3, <1>4 DEF Leaps, Leap

\* The days of the years before this one, era by era.
DaysBefore(year) ==
  LET era == year \div 400
      yoe == year - era * 400
  IN era * 146097 + (yoe * 365 + (yoe \div 4) - (yoe \div 100))

LEMMA EraTakenOff ==
  ASSUME NEW year \in Nat
  PROVE  DaysBefore(year) = 365 * year + Leaps(year)
<1> DEFINE era == year \div 400
           yoe == year - era * 400
<1>1. era \in Int /\ yoe \in 0..399 /\ year = yoe + era * 400
  OBVIOUS
<1> HIDE DEF era, yoe
<1>2. (yoe + era * 400) \div 4 = (yoe \div 4) + era * 100
  BY <1>1
<1>3. (yoe + era * 400) \div 100 = (yoe \div 100) + era * 4
  BY <1>1
<1>4. year \div 400 = era
  BY DEF era
<1>5. yoe \div 4 \in Int /\ yoe \div 100 \in Int
  BY <1>1
<1>6. Leaps(year) = (yoe \div 4) + era * 100 - ((yoe \div 100) + era * 4) + era
  BY <1>1, <1>2, <1>3, <1>4 DEF Leaps
<1>7. era * 146097 + (yoe * 365 + (yoe \div 4) - (yoe \div 100)) = 365 * year + Leaps(year)
  BY <1>1, <1>5, <1>6
<1> QED BY <1>7 DEF era, yoe, DaysBefore

\* The first day of the year 0 of the calendar that begins in March, from 1970 back.
Shift == 719469

\* Days of the year that begins in March before its month mp.
MonthStarts(mp) == (153 * mp + 2) \div 5

DayNumber(y, m, d) ==
  (IF m <= 2 THEN 365 * (y - 1) + Leaps(y - 1) + MonthStarts(m + 9)
             ELSE 365 * y + Leaps(y) + MonthStarts(m - 3)) + d - Shift

LEMMA DaysCounted ==
  ASSUME NEW y \in Nat, y > 0, NEW m \in 1..12, NEW d \in Int
  PROVE  DaysFromCivil(y, m, d) = DayNumber(y, m, d)
<1>1. CASE m <= 2
  <2> DEFINE era == (y - 1) \div 400
             yoe == (y - 1) - era * 400
  <2>1. era * 146097 + (yoe * 365 + (yoe \div 4) - (yoe \div 100)) = 365 * (y - 1) + Leaps(y - 1)
    <3>1. y - 1 \in Nat
      OBVIOUS
    <3>2. DaysBefore(y - 1) = 365 * (y - 1) + Leaps(y - 1)
      BY ONLY <3>1, EraTakenOff
    <3> QED BY <3>2 DEF DaysBefore
  <2>2. (m + 9) % 12 = m + 9 /\ ~(m > 2) /\ y - 1 >= 0
    BY <1>1
  <2>3. DaysFromCivil(y, m, d) = era * 146097 + (yoe * 365 + (yoe \div 4) - (yoe \div 100)
                                   + (MonthStarts(m + 9) + d - 1)) - 719468
    BY <1>1, <2>2 DEF DaysFromCivil, MonthStarts
  <2>4. MonthStarts(m + 9) \in Int /\ yoe \div 4 \in Int /\ yoe \div 100 \in Int /\ era \in Int /\ yoe \in Int
    BY DEF MonthStarts
  <2> HIDE DEF era, yoe
  <2>5. DayNumber(y, m, d) = 365 * (y - 1) + Leaps(y - 1) + MonthStarts(m + 9) + d - Shift
    BY <1>1 DEF DayNumber
  <2> QED BY <2>1, <2>3, <2>4, <2>5, LeapsGrow DEF Shift
<1>2. CASE m > 2
  <2> DEFINE era == y \div 400
             yoe == y - era * 400
  <2>1. era * 146097 + (yoe * 365 + (yoe \div 4) - (yoe \div 100)) = 365 * y + Leaps(y)
    <3>1. DaysBefore(y) = 365 * y + Leaps(y)
      BY EraTakenOff
    <3> QED BY <3>1 DEF DaysBefore
  <2>2. (m - 3) % 12 = m - 3 /\ ~(m <= 2) /\ y >= 0 /\ m + (-3) = m - 3
    BY <1>2
  <2>3. DaysFromCivil(y, m, d) = era * 146097 + (yoe * 365 + (yoe \div 4) - (yoe \div 100)
                                   + (MonthStarts(m - 3) + d - 1)) - 719468
    BY <1>2, <2>2 DEF DaysFromCivil, MonthStarts
  <2>4. MonthStarts(m - 3) \in Int /\ yoe \div 4 \in Int /\ yoe \div 100 \in Int /\ era \in Int /\ yoe \in Int
    BY DEF MonthStarts
  <2> HIDE DEF era, yoe
  <2>5. DayNumber(y, m, d) = 365 * y + Leaps(y) + MonthStarts(m - 3) + d - Shift
    BY <1>2 DEF DayNumber
  <2> QED BY <2>1, <2>3, <2>4, <2>5, LeapsGrow DEF Shift
<1> QED BY <1>1, <1>2

\* From the first of January to the first of January the days of the year go by.
LEMMA YearsFollow ==
  ASSUME NEW y \in Nat, y > 0
  PROVE  /\ NewYear(y) = 365 * (y - 1) + Leaps(y - 1) + 307 - Shift
         /\ NewYear(y) \in Int /\ NewYear(y + 1) \in Int
         /\ NewYear(y + 1) = NewYear(y) + DaysIn(y)
<1>1. MonthStarts(10) = 306 /\ Shift \in Int
  BY DEF MonthStarts, Shift
<1>2. /\ Leaps(y) \in Int /\ Leaps(y - 1) \in Int
      /\ Leaps(y) = Leaps(y - 1) + IF Leap(y) THEN 1 ELSE 0
  BY LeapsGrow
<1>3. NewYear(y) = 365 * (y - 1) + Leaps(y - 1) + 307 - Shift
  <2>1. NewYear(y) = DayNumber(y, 1, 1)
    BY DaysCounted DEF NewYear
  <2> QED BY <1>1, <1>2, <2>1 DEF DayNumber
<1>4. NewYear(y + 1) = 365 * y + Leaps(y) + 307 - Shift
  <2>1. NewYear(y + 1) = DayNumber(y + 1, 1, 1)
    BY DaysCounted DEF NewYear
  <2>2. (y + 1) - 1 = y
    OBVIOUS
  <2> QED BY <1>1, <1>2, <2>1, <2>2 DEF DayNumber
<1> QED BY <1>1, <1>2, <1>3, <1>4 DEF DaysIn

\* The number of a date is the number of days since 1970-01-01: that day is 0,
\* and over the end of every month and year the next day has the next number
\* (days_from_civil).
THEOREM EachDayCounted ==
  /\ DaysFromCivil(1970, 1, 1) = 0
  /\ \A y \in Year, m \in 1..12 :
       /\ \A d \in Int : DaysFromCivil(y, m, d + 1) = DaysFromCivil(y, m, d) + 1
       /\ m < 12 => DaysFromCivil(y, m + 1, 1) = DaysFromCivil(y, m, MonthDays(y)[m]) + 1
       /\ m = 12 => DaysFromCivil(y + 1, 1, 1) = DaysFromCivil(y, m, MonthDays(y)[m]) + 1
<1>1. DaysFromCivil(1970, 1, 1) = 0
  BY DEF DaysFromCivil
<1> SUFFICES ASSUME NEW y \in Year, NEW m \in 1..12
             PROVE  /\ \A d \in Int : DaysFromCivil(y, m, d + 1) = DaysFromCivil(y, m, d) + 1
                    /\ m < 12 => DaysFromCivil(y, m + 1, 1) = DaysFromCivil(y, m, MonthDays(y)[m]) + 1
                    /\ m = 12 => DaysFromCivil(y + 1, 1, 1) = DaysFromCivil(y, m, MonthDays(y)[m]) + 1
  BY <1>1
<1>2. y \in Nat /\ y > 0 /\ y + 1 \in Nat /\ y + 1 > 0
  BY DEF Year
<1>3. /\ Leaps(y) \in Int /\ Leaps(y - 1) \in Int
      /\ Leaps(y) = Leaps(y - 1) + IF Leap(y) THEN 1 ELSE 0
      /\ Shift \in Int
  BY <1>2, LeapsGrow DEF Shift
<1>4. MonthDays(y)[m] \in Int
  BY DEF MonthDays
<1>5. ASSUME NEW d \in Int PROVE DaysFromCivil(y, m, d + 1) = DaysFromCivil(y, m, d) + 1
  <2>1. MonthStarts(m + 9) \in Int /\ MonthStarts(m - 3) \in Int /\ d + 1 \in Int
    BY DEF MonthStarts
  <2>2. DaysFromCivil(y, m, d) = DayNumber(y, m, d) /\ DaysFromCivil(y, m, d + 1) = DayNumber(y, m, d + 1)
    BY <1>2, <2>1, DaysCounted
  <2> QED BY <1>2, <1>3, <2>1, <2>2 DEF DayNumber
<1>6. ASSUME m < 12 PROVE DaysFromCivil(y, m + 1, 1) = DaysFromCivil(y, m, MonthDays(y)[m]) + 1
  <2>1. DayNumber(y, m + 1, 1) = DayNumber(y, m, MonthDays(y)[m]) + 1
    <3>1. CASE m = 1
      BY <1>2, <1>3, <3>1 DEF MonthDays, MonthStarts, DayNumber
    <3>2. CASE m = 2
      BY <1>2, <1>3, <3>2 DEF MonthDays, MonthStarts, DayNumber
    <3>3. ASSUME NEW n \in Int, m = n + 3, n \in 0..8
          PROVE  MonthStarts(n + 1) = MonthStarts(n) + MonthDays(y)[m]
      BY <3>3 DEF MonthStarts, MonthDays
    <3>4. CASE m > 2
      <4>1. m - 3 \in 0..8 /\ m = (m - 3) + 3 /\ (m - 3) + 1 = (m + 1) - 3
        BY <1>6, <3>4
      <4>2. MonthStarts((m + 1) - 3) = MonthStarts(m - 3) + MonthDays(y)[m]
        BY <3>3, <4>1
      <4>3. MonthStarts(m - 3) \in Int /\ MonthStarts((m + 1) - 3) \in Int
        BY DEF MonthStarts
      <4> QED BY <1>2, <1>3, <1>4, <3>4, <4>2, <4>3 DEF DayNumber
    <3> QED BY <3>1, <3>2, <3>4
  <2>2. m + 1 \in 1..12
    BY <1>6
  <2> QED BY <1>2, <1>4, <2>1, <2>2, DaysCounted
<1>7. ASSUME m = 12 PROVE DaysFromCivil(y + 1, 1, 1) = DaysFromCivil(y, m, MonthDays(y)[m]) + 1
  <2>1. NewYear(y + 1) = NewYear(y) + DaysIn(y) /\ NewYear(y) = 365 * (y - 1) + Leaps(y - 1) + 307 - Shift
    BY <1>2, YearsFollow
  <2>2. DaysFromCivil(y, m, MonthDays(y)[m]) = DayNumber(y, 12, 31)
    BY <1>2, <1>7, DaysCounted DEF MonthDays
  <2>3. DayNumber(y, 12, 31) = 365 * y + Leaps(y) + 275 + 31 - Shift
    BY <1>2, <1>3 DEF DayNumber, MonthStarts
  <2>4. NewYear(y + 1) = DaysFromCivil(y + 1, 1, 1)
    BY DEF NewYear
  <2> QED BY <1>2, <1>3, <2>1, <2>2, <2>3, <2>4 DEF DaysIn
<1> QED BY <1>5, <1>6, <1>7

\* A date lies in its year.
LEMMA DateInYear ==
  ASSUME NEW y \in Year, NEW m \in 1..12, NEW d \in 1..MonthDays(y)[m]
  PROVE  /\ DaysFromCivil(y, m, d) \in Int
         /\ NewYear(y) <= DaysFromCivil(y, m, d)
         /\ DaysFromCivil(y, m, d) < NewYear(y + 1)
<1>1. y \in Nat /\ y > 0
  BY DEF Year
<1>2. /\ Leaps(y) \in Int /\ Leaps(y - 1) \in Int
      /\ Leaps(y) = Leaps(y - 1) + IF Leap(y) THEN 1 ELSE 0
      /\ Shift \in Int
  BY <1>1, LeapsGrow DEF Shift
<1>3. MonthDays(y)[m] \in Nat /\ d \in Int
  BY DEF MonthDays
<1>4. DaysFromCivil(y, m, d) = DayNumber(y, m, d)
  BY <1>1, <1>3, DaysCounted
<1>5. NewYear(y) = 365 * (y - 1) + Leaps(y - 1) + 307 - Shift /\ NewYear(y + 1) = NewYear(y) + DaysIn(y)
  BY <1>1, YearsFollow
<1>6. CASE m <= 2
  <2>1. DayNumber(y, m, d) = 365 * (y - 1) + Leaps(y - 1) + MonthStarts(m + 9) + d - Shift
    BY <1>6 DEF DayNumber
  <2>2. MonthStarts(m + 9) \in Int /\ MonthStarts(m + 9) >= 306 /\ MonthStarts(m + 9) + MonthDays(y)[m] <= 306 + 60
    BY <1>6 DEF MonthStarts, MonthDays
  <2> QED BY <1>1, <1>2, <1>3, <1>4, <1>5, <2>1, <2>2 DEF DaysIn
<1>7. CASE m > 2
  <2>1. DayNumber(y, m, d) = 365 * y + Leaps(y) + MonthStarts(m - 3) + d - Shift
    BY <1>7 DEF DayNumber
  <2>2. MonthStarts(m - 3) \in Int /\ MonthStarts(m - 3) >= 0 /\ MonthStarts(m - 3) + MonthDays(y)[m] <= 306
    <3>1. ASSUME NEW n \in Int, m = n + 3, n \in 0..9
          PROVE  MonthStarts(n) \in Int /\ MonthStarts(n) >= 0 /\ MonthStarts(n) + MonthDays(y)[m] <= 306
      BY <3>1 DEF MonthStarts, MonthDays
    <3>2. m - 3 \in 0..9 /\ m = (m - 3) + 3
      BY <1>7
    <3> QED BY <3>1, <3>2
  <2> QED BY <1>1, <1>2, <1>3, <1>4, <1>5, <2>1, <2>2 DEF DaysIn
<1> QED BY <1>6, <1>7

\* DecemberWeekday is the weekday before the year that follows begins.
LEMMA DecemberEnds ==
  ASSUME NEW y \in Nat, y > 0
  PROVE  (NewYear(y) + 3) % 7 = DecemberWeekday(y - 1)
<1> DEFINE x == (y - 1) + Leaps(y - 1)
           weeks == 52 * (y - 1) - 102737
<1>1. Leaps(y - 1) \in Int
  BY LeapsGrow
<1>2. x \in Int /\ weeks \in Int
  BY <1>1
<1>3. NewYear(y) + 3 = x + 7 * weeks
  BY <1>1, YearsFollow DEF Shift
<1>4. DecemberWeekday(y - 1) = x % 7
  BY DEF DecemberWeekday, Leaps
<1> HIDE DEF x, weeks
<1>5. (x + 7 * weeks) % 7 = x % 7
  BY <1>2
<1> QED BY <1>3, <1>4, <1>5

\* A year has as many weeks as it has Thursdays: the first Thursday after it
\* comes that many weeks after the first one in it.
LEMMA ThursdaysOfYear ==
  ASSUME NEW y \in Nat, y > 0, NEW q \in Int
  PROVE  /\ WeeksInYear(y) \in {52, 53}
         /\ NewYear(y) <= 7 * q /\ 7 * q < NewYear(y + 1) =>
              ((7 * q - NewYear(y)) \div 7) + 1 <= WeeksInYear(y)
         /\ NewYear(y + 1) <= 7 * q => ((7 * q - NewYear(y)) \div 7) + 1 > WeeksInYear(y)
         /\ 7 * q < NewYear(y + 1) /\ NewYear(y + 1) <= 7 * q + 7 =>
              ((7 * q - NewYear(y)) \div 7) + 1 = WeeksInYear(y)
<1> DEFINE J == NewYear(y)
           a == (J + 6) \div 7
           r == (J + 6) % 7
<1>1. /\ J \in Int
      /\ NewYear(y + 1) = J + DaysIn(y)
  BY YearsFollow
<1>2. (J + 3) % 7 = DecemberWeekday(y - 1)
  BY DecemberEnds
<1>3. (J + DaysIn(y) + 3) % 7 = DecemberWeekday(y)
  <2>1. y + 1 \in Nat /\ y + 1 > 0 /\ (y + 1) - 1 = y
    OBVIOUS
  <2>2. (NewYear(y + 1) + 3) % 7 = DecemberWeekday((y + 1) - 1)
    BY ONLY <2>1, DecemberEnds
  <2> QED BY <1>1, <2>1, <2>2
<1> HIDE DEF J
<1>4. a \in Int /\ r \in 0..6 /\ J = 7 * a + r - 6
  BY <1>1
<1> HIDE DEF a, r
\* The first Thursday of the year is 7a, the first after it 7(a + weeks).
<1>5. WeeksInYear(y) = IF r = 6 \/ (r = 5 /\ DaysIn(y) = 366) THEN 53 ELSE 52
  <2>1. DecemberWeekday(y - 1) = (r + 4) % 7
    BY <1>2, <1>4
  <2>2. DecemberWeekday(y) = (r + 4 + DaysIn(y)) % 7
    BY <1>3, <1>4 DEF DaysIn
  <2>3. CASE DaysIn(y) = 365
    BY <1>4, <2>1, <2>2, <2>3 DEF WeeksInYear
  <2>4. CASE DaysIn(y) = 366
    BY <1>4, <2>1, <2>2, <2>4 DEF WeeksInYear
  <2> QED BY <2>3, <2>4 DEF DaysIn
<1>6. \A n \in {52, 53} : WeeksInYear(y) = n => 7 * (a + n) - 7 < J + DaysIn(y) /\ J + DaysIn(y) <= 7 * (a + n)
  BY <1>4, <1>5 DEF DaysIn
<1>7. (7 * q - J) \div 7 = q - a
  BY <1>4
<1>8. WeeksInYear(y) \in {52, 53}
  BY <1>5
<1>9. DaysIn(y) \in Int
  BY DEF DaysIn
<1> QED
  <2>1. PICK n \in {52, 53} : WeeksInYear(y) = n
    BY <1>8
  <2>2. 7 * (a + n) - 7 < J + DaysIn(y) /\ J + DaysIn(y) <= 7 * (a + n)
    BY <1>6, <2>1
  <2>3. /\ 7 * q < J + DaysIn(y) => (q - a) + 1 <= n
        /\ J + DaysIn(y) <= 7 * q => (q - a) + 1 > n
        /\ J + DaysIn(y) <= 7 * q + 7 => (q - a) + 1 >= n
    BY <1>1, <1>4, <1>9, <2>1, <2>2
  <2>4. 7 * q < J + DaysIn(y) /\ J + DaysIn(y) <= 7 * q + 7 => (q - a) + 1 = n
    BY <1>4, <2>1, <2>3
  <2> QED BY <1>1, <1>7, <1>8, <2>1, <2>3, <2>4 DEF J

\* The key of a date names the year in which the Thursday of its week lies, and
\* numbers the week by the Thursdays of that year before it (iso_week_key and its
\* parity contract with Python's isocalendar), at both ends of every year.
THEOREM NumberedByItsThursday ==
  \A y \in Year, m \in 1..12 : \A d \in 1..MonthDays(y)[m] :
    LET days == DaysFromCivil(y, m, d)
        thursday == days - IsoWeekday(days) + 4
    IN \E of \in {y - 1, y, y + 1} :
         /\ NewYear(of) <= thursday /\ thursday < NewYear(of + 1)
         /\ IsoWeekKey(<<y, m, d>>) = <<of, ((thursday - NewYear(of)) \div 7) + 1>>
<1> SUFFICES ASSUME NEW y \in Year, NEW m \in 1..12, NEW d \in 1..MonthDays(y)[m]
             PROVE  LET days == DaysFromCivil(y, m, d)
                        thursday == days - IsoWeekday(days) + 4
                    IN \E of \in {y - 1, y, y + 1} :
                         /\ NewYear(of) <= thursday /\ thursday < NewYear(of + 1)
                         /\ IsoWeekKey(<<y, m, d>>) = <<of, ((thursday - NewYear(of)) \div 7) + 1>>
  OBVIOUS
<1> DEFINE days == DaysFromCivil(y, m, d)
           thursday == days - IsoWeekday(days) + 4
           week == ((thursday - NewYear(y)) \div 7) + 1
           q == (days + 3) \div 7
<1>1. /\ y \in Nat /\ y > 0 /\ y - 1 \in Nat /\ y - 1 > 0 /\ (y - 1) + 1 = y
      /\ y + 1 \in Nat /\ y + 1 > 0
  BY DEF Year
<1>2. days \in Int /\ NewYear(y) <= days /\ days < NewYear(y + 1)
  BY DateInYear
<1>3. /\ NewYear(y) \in Int /\ NewYear(y + 1) = NewYear(y) + DaysIn(y)
      /\ NewYear(y - 1) \in Int /\ NewYear(y) = NewYear(y - 1) + DaysIn(y - 1)
      /\ NewYear((y + 1) + 1) = NewYear(y + 1) + DaysIn(y + 1)
      /\ DaysIn(y - 1) \in {365, 366} /\ DaysIn(y) \in {365, 366} /\ DaysIn(y + 1) \in {365, 366}
  <2>1. NewYear(y - 1) \in Int /\ NewYear((y - 1) + 1) = NewYear(y - 1) + DaysIn(y - 1)
    BY ONLY <1>1, YearsFollow
  <2>2. NewYear(y) \in Int /\ NewYear(y + 1) = NewYear(y) + DaysIn(y)
    BY ONLY <1>1, YearsFollow
  <2>3. NewYear((y + 1) + 1) = NewYear(y + 1) + DaysIn(y + 1)
    BY ONLY <1>1, YearsFollow
  <2> QED BY <1>1, <2>1, <2>2, <2>3 DEF DaysIn
<1>4. IsoWeekKey(<<y, m, d>>) = IF week < 1 THEN <<y - 1, WeeksInYear(y - 1)>>
                                ELSE IF week > WeeksInYear(y) THEN <<y + 1, 1>>
                                ELSE <<y, week>>
  <2>1. IsoWeekday(days) \in Int
    BY <1>2 DEF IsoWeekday
  <2> DEFINE ordinal == days - NewYear(y) + 1
  <2>2. (ordinal - IsoWeekday(days) + 10) \div 7 = week
    <3>1. ordinal - IsoWeekday(days) + 10 = (thursday - NewYear(y)) + 7 * 1 /\ thursday - NewYear(y) \in Int
      BY <1>2, <1>3, <2>1
    <3>2. \A x \in Int : (x + 7 * 1) \div 7 = (x \div 7) + 1
      OBVIOUS
    <3> HIDE DEF ordinal, thursday
    <3> QED BY <3>1, <3>2
  <2> HIDE DEF week
  <2> QED BY <2>2 DEF IsoWeekKey, NewYear
<1>5. thursday = 7 * q /\ q \in Int /\ thursday <= days + 3 /\ days - 3 <= thursday
  BY <1>2 DEF IsoWeekday
<1> HIDE DEF days, thursday, q
<1>6. CASE thursday < NewYear(y)
  <2>1. week < 1
    BY <1>3, <1>5, <1>6
  <2>2. NewYear(y - 1) <= thursday /\ thursday < NewYear(y) /\ NewYear(y) <= thursday + 7
    BY <1>2, <1>3, <1>5, <1>6
  <2>3. ((7 * q - NewYear(y - 1)) \div 7) + 1 = WeeksInYear(y - 1)
    BY <1>1, <1>5, <2>2, ThursdaysOfYear
  <2> HIDE DEF week
  <2>4. IsoWeekKey(<<y, m, d>>) = <<y - 1, ((thursday - NewYear(y - 1)) \div 7) + 1>>
    BY <1>4, <1>5, <2>1, <2>3
  <2> QED BY <1>1, <2>2, <2>4 DEF days, thursday
<1>7. CASE NewYear(y) <= thursday /\ thursday < NewYear(y + 1)
  <2>1. ~(week < 1) /\ week \in Int
    BY <1>3, <1>5, <1>7
  <2>2. week <= WeeksInYear(y) /\ WeeksInYear(y) \in {52, 53}
    BY <1>1, <1>5, <1>7, ThursdaysOfYear
  <2>3. ~(week > WeeksInYear(y))
    <3> HIDE DEF week
    <3> QED BY <2>1, <2>2
  <2>4. IsoWeekKey(<<y, m, d>>) = <<y, week>>
    BY ONLY <1>4, <2>1, <2>3
  <2> QED BY <1>7, <2>4 DEF days, thursday
<1>8. CASE NewYear(y + 1) <= thursday
  <2>1. week > WeeksInYear(y) /\ WeeksInYear(y) \in {52, 53}
    BY <1>1, <1>5, <1>8, ThursdaysOfYear
  <2>2. ~(week < 1)
    <3>1. week \in Int
      BY <1>3, <1>5
    <3> HIDE DEF week
    <3> QED BY <2>1, <3>1
  <2>3. thursday < NewYear((y + 1) + 1) /\ (thursday - NewYear(y + 1)) \div 7 = 0
    BY <1>2, <1>3, <1>5, <1>8
  <2>4. IsoWeekKey(<<y, m, d>>) = <<y + 1, 1>>
    BY ONLY <1>4, <2>1, <2>2
  <2>5. IsoWeekKey(<<y, m, d>>) = <<y + 1, ((thursday - NewYear(y + 1)) \div 7) + 1>>
    BY <2>3, <2>4
  <2> QED BY <1>8, <2>3, <2>5 DEF days, thursday
<1>9. thursday < NewYear(y) \/ (NewYear(y) <= thursday /\ thursday < NewYear(y + 1)) \/ NewYear(y + 1) <= thursday
  BY <1>3, <1>5
<1> QED BY <1>6, <1>7, <1>8, <1>9

-----------------------------------------------------------------------------
(* The loops of epoch_secs_to_iso.                                         *)
\* In y years there are 97y/400 leap days, give or take two.
LEMMA LeapsBounded ==
  ASSUME NEW y \in Nat
  PROVE  /\ Leaps(y) \in Int
         /\ 400 * Leaps(y) >= 97 * y - 800
         /\ 400 * Leaps(y) <= 97 * y + 400
<1>1. /\ y \div 4 \in Int /\ 4 * (y \div 4) <= y /\ y < 4 * (y \div 4) + 4
      /\ y \div 100 \in Int /\ 100 * (y \div 100) <= y /\ y < 100 * (y \div 100) + 100
      /\ y \div 400 \in Int /\ 400 * (y \div 400) <= y /\ y < 400 * (y \div 400) + 400
  OBVIOUS
<1> QED BY <1>1 DEF Leaps

LEMMA YearsGrow ==
  ASSUME NEW y \in Year, NEW z \in Year, y < z
  PROVE  /\ NewYear(y + 1) <= NewYear(z)
         /\ NewYear(z) - NewYear(y) >= z - y
<1>1. /\ y \in Nat /\ y > 0 /\ y - 1 \in Nat /\ z \in Nat /\ z > 0 /\ z - 1 \in Nat
      /\ y + 1 \in Nat /\ y + 1 > 0 /\ (y + 1) - 1 = y
  BY DEF Year
<1>2. /\ Leaps(y) \in Int /\ 400 * Leaps(y) >= 97 * y - 800 /\ 400 * Leaps(y) <= 97 * y + 400
      /\ Leaps(y - 1) \in Int /\ 400 * Leaps(y - 1) <= 97 * (y - 1) + 400
      /\ Leaps(z - 1) \in Int /\ 400 * Leaps(z - 1) >= 97 * (z - 1) - 800
  BY <1>1, LeapsBounded
<1>3. /\ NewYear(y) = 365 * (y - 1) + Leaps(y - 1) + 307 - Shift
      /\ NewYear(y + 1) = 365 * y + Leaps(y) + 307 - Shift
      /\ NewYear(z) = 365 * (z - 1) + Leaps(z - 1) + 307 - Shift
      /\ Shift \in Int
  <2>1. NewYear(y + 1) = 365 * ((y + 1) - 1) + Leaps((y + 1) - 1) + 307 - Shift
    BY ONLY <1>1, YearsFollow
  <2>2. Shift \in Int
    BY DEF Shift
  <2> QED BY <1>1, <2>1, <2>2, YearsFollow
<1>4. NewYear(y + 1) <= NewYear(z)
  <2>1. CASE z = y + 1
    BY <1>1, <1>2, <1>3, <2>1
  <2>2. CASE z >= y + 2
    BY <1>1, <1>2, <1>3, <2>2
  <2> QED BY <1>1, <2>1, <2>2
<1>5. NewYear(z) - NewYear(y) >= z - y
  <2>1. 365 * (z - y) + Leaps(z - 1) - Leaps(y - 1) >= z - y
    <3>1. 400 * (Leaps(z - 1) - Leaps(y - 1)) >= 97 * (z - y) - 1200
      BY <1>1, <1>2
    <3> QED BY <1>1, <1>2, <3>1
  <2> QED BY <1>1, <1>2, <1>3, <2>1
<1> QED BY <1>4, <1>5

LEMMA StampYears ==
  ASSUME NEW y \in StampYear
  PROVE  /\ y \in Nat /\ y \in Year /\ y + 1 \in StampYear /\ y + 1 \in Year
         /\ NewYear(y) \in Int /\ NewYear(y + 1) = NewYear(y) + DaysIn(y)
         /\ DaysIn(y) \in Nat /\ DaysIn(y) > 0
<1>1. y \in Nat /\ y > 0 /\ y \in Year /\ y + 1 \in StampYear /\ y + 1 \in Year
  BY DEF StampYear, Year
<1> QED BY <1>1, YearsFollow DEF DaysIn

LEMMA EpochBegins == NewYear(1970) = 0 /\ 1970 \in StampYear
BY EachDayCounted DEF NewYear, StampYear

InYear(day, y) == NewYear(y) <= day /\ day < NewYear(y + 1)

LEMMA OneYear ==
  ASSUME NEW day \in Int, NEW y \in Year, NEW z \in Year, InYear(day, y), InYear(day, z)
  PROVE  y = z
<1>1. y \in Nat /\ y > 0 /\ z \in Nat /\ z > 0
  BY DEF Year
<1>2. /\ NewYear(y) \in Int /\ NewYear(y + 1) \in Int
      /\ NewYear(z) \in Int /\ NewYear(z + 1) \in Int
  BY <1>1, YearsFollow
<1>3. CASE y < z
  BY <1>2, <1>3, YearsGrow DEF InYear
<1>4. CASE z < y
  BY <1>2, <1>4, YearsGrow DEF InYear
<1> QED BY <1>1, <1>3, <1>4

LEMMA DayHasYear ==
  ASSUME NEW day \in Nat
  PROVE  \E y \in StampYear : InYear(day, y)
<1> DEFINE T == {y \in StampYear : day < NewYear(y + 1)}
<1>1. T \subseteq Nat
  BY StampYears
<1>2. 1970 + day \in T
  <2> DEFINE far == 1970 + day
  <2>1. far \in StampYear /\ far \in Nat /\ far >= 1970
    BY DEF StampYear
  <2>2. far + 1 \in StampYear /\ far + 1 > 1970 /\ (far + 1) - 1970 > day
    BY <2>1 DEF StampYear
  <2> HIDE DEF far
  <2>3. NewYear(far + 1) - NewYear(1970) >= (far + 1) - 1970
    BY <2>2, EpochBegins, StampYears, YearsGrow
  <2>4. NewYear(far + 1) \in Int
    BY <2>2, StampYears
  <2>5. day < NewYear(far + 1)
    BY <2>1, <2>2, <2>3, <2>4, EpochBegins
  <2> QED BY <2>1, <2>5 DEF far
<1> DEFINE far == 1970 + day
<1> HIDE DEF T, far
<1>3. PICK y \in T : \A z \in T : ~ (<<z, y>> \in OpToRel(<, Nat))
  <2>1. T \subseteq Nat /\ far \in T
    BY <1>1, <1>2 DEF far
  <2> QED BY ONLY <2>1, NatLessThanWellFounded, WFMin
<1> USE DEF T
<1>4. y \in StampYear /\ y \in Nat /\ NewYear(y) \in Int /\ day < NewYear(y + 1)
  BY StampYears
<1>5. CASE y = 1970
  BY <1>4, <1>5, EpochBegins DEF InYear
<1>6. CASE y # 1970
  <2>1. y - 1 \in StampYear /\ y - 1 \in Nat /\ y - 1 < y /\ (y - 1) + 1 = y
    BY <1>4, <1>6 DEF StampYear
  <2>2. <<y - 1, y>> \in OpToRel(<, Nat)
    BY <1>4, <2>1 DEF OpToRel
  <2>3. y - 1 \notin T
    BY <1>3, <2>2
  <2>4. ~ (day < NewYear(y))
    BY <2>1, <2>3
  <2> QED BY <1>4, <2>4 DEF InYear
<1> QED BY <1>5, <1>6

YearOf(day) == CHOOSE y \in StampYear : InYear(day, y)

LEMMA YearOfDay ==
  ASSUME NEW day \in Nat
  PROVE  YearOf(day) \in StampYear /\ InYear(day, YearOf(day))
BY DayHasYear DEF YearOf

YearPlace == Nat \X StampYear
YearStep(f) ==
  [left \in YearPlace |->
    LET days == left[1]
        year == left[2]
    IN IF days < DaysIn(year) THEN <<year, days>> ELSE f[<<days - DaysIn(year), year + 1>>]]

\* The year loop ends at the year its day lies in, with the day's place in it.
LEMMA YearLoop ==
  ASSUME NEW day \in Nat
  PROVE  FromYear[<<day, 1970>>] = <<YearOf(day), day - NewYear(YearOf(day))>>
<1> DEFINE at(p) == p[1] + NewYear(p[2])
           h == [p \in YearPlace |-> <<YearOf(at(p)), at(p) - NewYear(YearOf(at(p)))>>]
           ended == [p \in YearPlace |-> p[1] < DaysIn(p[2])]
           next == [p \in YearPlace |-> <<p[1] - DaysIn(p[2]), p[2] + 1>>]
           size == [p \in YearPlace |-> p[1]]
<1>1. ASSUME NEW p \in YearPlace, ~ended[p]
      PROVE  next[p] \in YearPlace /\ at(next[p]) = at(p) /\ size[next[p]] < size[p]
  <2>1. /\ p[1] \in Nat /\ p[2] \in StampYear /\ ~ (p[1] < DaysIn(p[2]))
        /\ next[p] = <<p[1] - DaysIn(p[2]), p[2] + 1>>
    BY <1>1 DEF YearPlace
  <2>2. /\ DaysIn(p[2]) \in Nat /\ DaysIn(p[2]) > 0 /\ p[2] + 1 \in StampYear
        /\ NewYear(p[2]) \in Int /\ NewYear(p[2] + 1) = NewYear(p[2]) + DaysIn(p[2])
    BY <2>1, StampYears
  <2>3. next[p] \in YearPlace
    BY <2>1, <2>2 DEF YearPlace
  <2>4. size[next[p]] < size[p]
    BY <2>1, <2>2, <2>3
  <2>5. at(next[p]) = at(p)
    BY <2>1, <2>2
  <2> QED BY <2>3, <2>4, <2>5
<1>2. ASSUME NEW p \in YearPlace, ended[p]
      PROVE  h[p] = <<p[2], p[1]>>
  <2>1. /\ p[1] \in Nat /\ p[2] \in StampYear /\ p[1] < DaysIn(p[2]) /\ p[2] \in Year
        /\ NewYear(p[2]) \in Int /\ NewYear(p[2] + 1) = NewYear(p[2]) + DaysIn(p[2])
        /\ DaysIn(p[2]) \in Nat
    BY <1>2, StampYears DEF YearPlace
  <2>2. NewYear(p[2]) >= 0
    <3>1. CASE p[2] = 1970
      BY <3>1, EpochBegins
    <3>2. CASE p[2] > 1970
      BY <2>1, <3>2, EpochBegins, StampYears, YearsGrow
    <3> QED BY <2>1, <3>1, <3>2 DEF StampYear
  <2>3. at(p) \in Nat /\ InYear(at(p), p[2])
    BY <2>1, <2>2 DEF InYear
  <2> HIDE DEF at
  <2>4. YearOf(at(p)) \in StampYear /\ InYear(at(p), YearOf(at(p)))
    BY <2>3, YearOfDay
  <2>5. YearOf(at(p)) = p[2]
    BY <2>1, <2>3, <2>4, OneYear, StampYears
  <2>6. at(p) - NewYear(p[2]) = p[1]
    BY <2>1 DEF at
  <2> QED BY <2>5, <2>6
<1>3. h = YearStep(h)
  <2>1. ASSUME NEW p \in YearPlace
        PROVE  h[p] = IF p[1] < DaysIn(p[2]) THEN <<p[2], p[1]>> ELSE h[<<p[1] - DaysIn(p[2]), p[2] + 1>>]
    <3>1. CASE ended[p]
      <4> HIDE DEF h
      <4> QED BY <1>2, <3>1
    <3>2. CASE ~ended[p]
      <4>1. next[p] \in YearPlace /\ at(next[p]) = at(p) /\ next[p] = <<p[1] - DaysIn(p[2]), p[2] + 1>>
        BY <1>1, <3>2
      <4> HIDE DEF at, next
      <4>2. h[next[p]] = h[p]
        BY <4>1
      <4> HIDE DEF h
      <4> QED BY <3>2, <4>1, <4>2
    <3> QED BY <3>1, <3>2
  <2> DEFINE step == YearStep(h)
  <2>2. step = [p \in YearPlace |-> IF p[1] < DaysIn(p[2]) THEN <<p[2], p[1]>> ELSE h[<<p[1] - DaysIn(p[2]), p[2] + 1>>]]
    BY DEF YearStep
  <2>3. h = [p \in YearPlace |-> h[p]]
    OBVIOUS
  <2> HIDE DEF h
  <2> QED BY <2>1, <2>2, <2>3
<1>4. FromYear = YearStep(FromYear)
  <2>1. FromYear = CHOOSE f : f = YearStep(f)
    BY DEF FromYear, YearStep, YearPlace
  <2> HIDE DEF h
  <2> QED BY <1>3, <2>1
<1>5. \A p \in YearPlace : FromYear[p] = h[p]
  <2>1. size \in [YearPlace -> Nat]
    BY DEF YearPlace
  <2>2. \A p \in YearPlace : ended[p] => FromYear[p] = h[p]
    BY <1>2, <1>4 DEF YearStep
  <2>3. \A p \in YearPlace : ~ended[p] => FromYear[p] = FromYear[next[p]] /\ h[p] = h[next[p]]
    <3> SUFFICES ASSUME NEW p \in YearPlace, ~ended[p]
                 PROVE  FromYear[p] = FromYear[next[p]] /\ h[p] = h[next[p]]
      OBVIOUS
    <3>1. ~ (p[1] < DaysIn(p[2])) /\ next[p] = <<p[1] - DaysIn(p[2]), p[2] + 1>>
      OBVIOUS
    <3> HIDE DEF h, next, ended
    <3> DEFINE step(f) == YearStep(f)
    <3>2. \A f : step(f)[p] = f[next[p]]
      BY <3>1 DEF YearStep
    <3> HIDE DEF step
    <3>3. FromYear = step(FromYear) /\ h = step(h)
      BY <1>3, <1>4 DEF step
    <3> QED BY <3>2, <3>3
  <2>4. \A p \in YearPlace : ended[p] \/ (next[p] \in YearPlace /\ size[next[p]] < size[p])
    BY <1>1
  <2> HIDE DEF h, size, ended, next
  <2>5. SameLoop(YearPlace, size, ended, next, FromYear, h)
    BY <2>1, <2>2, <2>3, <2>4 DEF SameLoop
  <2> QED BY ONLY <2>5, LoopDetermined
<1>6. <<day, 1970>> \in YearPlace /\ at(<<day, 1970>>) = day
  BY EpochBegins DEF YearPlace
<1> QED BY <1>5, <1>6

\* The days of a year before its month, and before the month it has not.
DaysUpTo(y) ==
  LET more == IF Leap(y) THEN 1 ELSE 0 IN
  <<0, 31, 59 + more, 90 + more, 120 + more, 151 + more, 181 + more, 212 + more, 243 + more,
    273 + more, 304 + more, 334 + more, 365 + more>>

LEMMA MonthsFollow ==
  ASSUME NEW y
  PROVE  /\ DaysUpTo(y)[1] = 0 /\ DaysUpTo(y)[13] = DaysIn(y)
         /\ \A m \in 1..13 : DaysUpTo(y)[m] \in Nat
         /\ \A m \in 1..12 : MonthDays(y)[m] \in Nat /\ MonthDays(y)[m] > 0
         /\ \A m \in 1..12 : DaysUpTo(y)[m + 1] = DaysUpTo(y)[m] + MonthDays(y)[m]
         /\ \A k, m \in 1..13 : k <= m => DaysUpTo(y)[k] <= DaysUpTo(y)[m]
BY DEF DaysUpTo, MonthDays, DaysIn

LEMMA DayOfMonth ==
  ASSUME NEW y \in Year, NEW m \in 1..12, NEW d \in Int
  PROVE  DaysFromCivil(y, m, d) = NewYear(y) + DaysUpTo(y)[m] + d - 1
<1>1. /\ y \in Nat /\ y > 0
      /\ Leaps(y) \in Int /\ Leaps(y - 1) \in Int /\ Shift \in Int
      /\ Leaps(y) = Leaps(y - 1) + IF Leap(y) THEN 1 ELSE 0
      /\ NewYear(y) = 365 * (y - 1) + Leaps(y - 1) + 307 - Shift
      /\ DaysFromCivil(y, m, d) = DayNumber(y, m, d)
  <2>1. y \in Nat /\ y > 0
    BY DEF Year
  <2>2. Shift \in Int
    BY DEF Shift
  <2>3. DaysFromCivil(y, m, d) = DayNumber(y, m, d)
    BY <2>1, DaysCounted
  <2> QED BY <2>1, <2>2, <2>3, LeapsGrow, YearsFollow
<1>2. CASE m <= 2
  <2>1. MonthStarts(m + 9) = 306 + DaysUpTo(y)[m] /\ DaysUpTo(y)[m] \in Nat
    BY <1>2 DEF MonthStarts, DaysUpTo
  <2> QED BY <1>1, <1>2, <2>1 DEF DayNumber
<1>3. CASE m > 2
  <2>1. DaysUpTo(y)[m] = MonthStarts(m - 3) + 59 + IF Leap(y) THEN 1 ELSE 0
    <3>1. ASSUME NEW n \in 0..9, m = n + 3
          PROVE  DaysUpTo(y)[m] = MonthStarts(n) + 59 + IF Leap(y) THEN 1 ELSE 0
      BY <3>1 DEF MonthStarts, DaysUpTo
    <3>2. m - 3 \in 0..9 /\ m = (m - 3) + 3
      BY <1>3
    <3> QED BY <3>1, <3>2
  <2>2. MonthStarts(m - 3) \in Int
    BY DEF MonthStarts
  <2> QED BY <1>1, <1>3, <2>1, <2>2 DEF DayNumber
<1> QED BY <1>2, <1>3

InMonth(y, day, m) == DaysUpTo(y)[m] <= day /\ day < DaysUpTo(y)[m + 1]

LEMMA OneMonth ==
  ASSUME NEW y, NEW day \in Int, NEW k \in 1..12, NEW m \in 1..12, InMonth(y, day, k), InMonth(y, day, m)
  PROVE  k = m
<1>1. CASE k < m
  <2>1. k + 1 \in 1..13 /\ k + 1 <= m /\ m \in 1..13
    BY <1>1
  <2>2. DaysUpTo(y)[k + 1] <= DaysUpTo(y)[m] /\ DaysUpTo(y)[m] \in Nat /\ DaysUpTo(y)[k + 1] \in Nat
    BY <2>1, MonthsFollow
  <2> QED BY <2>2 DEF InMonth
<1>2. CASE m < k
  <2>1. m + 1 \in 1..13 /\ m + 1 <= k /\ k \in 1..13
    BY <1>2
  <2>2. DaysUpTo(y)[m + 1] <= DaysUpTo(y)[k] /\ DaysUpTo(y)[k] \in Nat /\ DaysUpTo(y)[m + 1] \in Nat
    BY <2>1, MonthsFollow
  <2> QED BY <2>2 DEF InMonth
<1> QED BY <1>1, <1>2

LEMMA DayHasMonth ==
  ASSUME NEW y, NEW day \in Nat, day < DaysIn(y)
  PROVE  \E m \in 1..12 : InMonth(y, day, m)
BY DEF InMonth, DaysUpTo, DaysIn

MonthOf(y, day) == CHOOSE m \in 1..12 : InMonth(y, day, m)

MonthPlace == Nat \X (1..13)
MonthStep(y, f) ==
  [left \in MonthPlace |->
    LET days == left[1]
        month == left[2]
    IN IF month = 13 THEN <<1, days + 1>>
       ELSE IF days < MonthDays(y)[month] THEN <<month, days + 1>>
       ELSE f[<<days - MonthDays(y)[month], month + 1>>]]

\* The month loop ends at the month its day lies in, with the day's place in it.
LEMMA MonthLoop ==
  ASSUME NEW y, NEW day \in Nat, day < DaysIn(y)
  PROVE  FromMonth(MonthDays(y))[<<day, 1>>] = <<MonthOf(y, day), day - DaysUpTo(y)[MonthOf(y, day)] + 1>>
<1> DEFINE at(p) == p[1] + DaysUpTo(y)[p[2]]
           named(x) == IF x < DaysIn(y) THEN <<MonthOf(y, x), x - DaysUpTo(y)[MonthOf(y, x)] + 1>>
                       ELSE <<1, x - DaysIn(y) + 1>>
           h == [p \in MonthPlace |-> named(at(p))]
           ended == [p \in MonthPlace |-> p[2] = 13 \/ p[1] < MonthDays(y)[p[2]]]
           next == [p \in MonthPlace |-> <<p[1] - MonthDays(y)[p[2]], p[2] + 1>>]
           size == [p \in MonthPlace |-> p[1]]
           from == FromMonth(MonthDays(y))
<1>1. ASSUME NEW p \in MonthPlace, ~ended[p]
      PROVE  next[p] \in MonthPlace /\ at(next[p]) = at(p) /\ size[next[p]] < size[p]
  <2>1. /\ p[1] \in Nat /\ p[2] \in 1..12 /\ ~ (p[1] < MonthDays(y)[p[2]])
        /\ next[p] = <<p[1] - MonthDays(y)[p[2]], p[2] + 1>>
    <3> HIDE DEF h, at, named, from, size
    <3>1. ~ (p[2] = 13 \/ p[1] < MonthDays(y)[p[2]])
      BY <1>1
    <3>2. p[1] \in Nat /\ p[2] \in 1..13
      BY DEF MonthPlace
    <3>3. next[p] = <<p[1] - MonthDays(y)[p[2]], p[2] + 1>>
      OBVIOUS
    <3> QED BY <3>1, <3>2, <3>3
  <2>2. /\ MonthDays(y)[p[2]] \in Nat /\ MonthDays(y)[p[2]] > 0 /\ p[2] + 1 \in 1..13
        /\ DaysUpTo(y)[p[2]] \in Nat /\ DaysUpTo(y)[p[2] + 1] = DaysUpTo(y)[p[2]] + MonthDays(y)[p[2]]
    BY <2>1, MonthsFollow
  <2>3. next[p] \in MonthPlace
    BY <2>1, <2>2 DEF MonthPlace
  <2>4. size[next[p]] < size[p]
    BY <2>1, <2>2, <2>3
  <2>5. at(next[p]) = at(p)
    BY <2>1, <2>2
  <2> QED BY <2>3, <2>4, <2>5
<1>2. ASSUME NEW p \in MonthPlace, ended[p]
      PROVE  h[p] = IF p[2] = 13 THEN <<1, p[1] + 1>> ELSE <<p[2], p[1] + 1>>
  <2>1. h[p] = named(at(p)) /\ p[1] \in Nat /\ p[2] \in 1..13
    BY DEF MonthPlace
  <2>2. CASE p[2] = 13
    <3>1. at(p) = p[1] + DaysIn(y) /\ DaysIn(y) \in Nat
      BY <2>1, <2>2, MonthsFollow
    <3> HIDE DEF at, h
    <3> QED BY <2>1, <2>2, <3>1
  <2>3. CASE p[2] # 13
    <3>1. p[2] \in 1..12 /\ p[1] < MonthDays(y)[p[2]]
      <4> HIDE DEF h, at, named, from, size, next
      <4>1. p[2] = 13 \/ p[1] < MonthDays(y)[p[2]]
        BY <1>2
      <4> QED BY <2>1, <2>3, <4>1
    <3>2. /\ MonthDays(y)[p[2]] \in Nat /\ p[2] + 1 \in 1..13
          /\ DaysUpTo(y)[p[2]] \in Nat /\ DaysUpTo(y)[p[2] + 1] = DaysUpTo(y)[p[2]] + MonthDays(y)[p[2]]
          /\ DaysUpTo(y)[p[2] + 1] <= DaysUpTo(y)[13] /\ DaysUpTo(y)[13] = DaysIn(y) /\ DaysIn(y) \in Nat
      BY <3>1, MonthsFollow
    <3>3. at(p) \in Nat /\ InMonth(y, at(p), p[2]) /\ at(p) < DaysIn(y) /\ at(p) - DaysUpTo(y)[p[2]] = p[1]
      BY <2>1, <3>1, <3>2 DEF InMonth
    <3> HIDE DEF at, h
    <3>4. MonthOf(y, at(p)) \in 1..12 /\ InMonth(y, at(p), MonthOf(y, at(p)))
      BY <3>1, <3>3 DEF MonthOf
    <3>5. MonthOf(y, at(p)) = p[2]
      BY <3>1, <3>3, <3>4, OneMonth
    <3> QED BY <2>1, <2>3, <3>3, <3>5
  <2> QED BY <2>2, <2>3
<1>3. h = MonthStep(y, h)
  <2>1. ASSUME NEW p \in MonthPlace
        PROVE  h[p] = IF p[2] = 13 THEN <<1, p[1] + 1>>
                      ELSE IF p[1] < MonthDays(y)[p[2]] THEN <<p[2], p[1] + 1>>
                      ELSE h[<<p[1] - MonthDays(y)[p[2]], p[2] + 1>>]
    <3>1. CASE ended[p]
      <4> HIDE DEF h
      <4> QED BY <1>2, <3>1
    <3>2. CASE ~ended[p]
      <4>1. next[p] \in MonthPlace /\ at(next[p]) = at(p) /\ next[p] = <<p[1] - MonthDays(y)[p[2]], p[2] + 1>>
        BY <1>1, <3>2
      <4> HIDE DEF at, next, named
      <4>2. h[next[p]] = h[p]
        BY <4>1
      <4> HIDE DEF h
      <4> QED BY <3>2, <4>1, <4>2
    <3> QED BY <3>1, <3>2
  <2> DEFINE step == MonthStep(y, h)
  <2>2. step = [p \in MonthPlace |-> IF p[2] = 13 THEN <<1, p[1] + 1>>
                                     ELSE IF p[1] < MonthDays(y)[p[2]] THEN <<p[2], p[1] + 1>>
                                     ELSE h[<<p[1] - MonthDays(y)[p[2]], p[2] + 1>>]]
    BY DEF MonthStep
  <2>3. h = [p \in MonthPlace |-> h[p]]
    OBVIOUS
  <2> HIDE DEF h
  <2> QED BY <2>1, <2>2, <2>3
<1>4. from = MonthStep(y, from)
  <2>1. from = CHOOSE f : f = MonthStep(y, f)
    BY DEF FromMonth, MonthStep, MonthPlace
  <2> HIDE DEF h, from
  <2> QED BY <1>3, <2>1
<1>5. \A p \in MonthPlace : from[p] = h[p]
  <2>1. size \in [MonthPlace -> Nat]
    BY DEF MonthPlace
  <2> HIDE DEF h, from, named, at
  <2>2. \A p \in MonthPlace : ended[p] => from[p] = h[p]
    <3> SUFFICES ASSUME NEW p \in MonthPlace, ended[p] PROVE from[p] = h[p]
      OBVIOUS
    <3>1. p[2] = 13 \/ p[1] < MonthDays(y)[p[2]]
      OBVIOUS
    <3> DEFINE step(f) == MonthStep(y, f)
    <3>2. \A f : step(f)[p] = IF p[2] = 13 THEN <<1, p[1] + 1>> ELSE <<p[2], p[1] + 1>>
      BY <3>1 DEF MonthStep
    <3> HIDE DEF step
    <3>3. from = step(from)
      BY <1>4 DEF step
    <3> QED BY <1>2, <3>2, <3>3
  <2>3. \A p \in MonthPlace : ~ended[p] => from[p] = from[next[p]] /\ h[p] = h[next[p]]
    <3> SUFFICES ASSUME NEW p \in MonthPlace, ~ended[p]
                 PROVE  from[p] = from[next[p]] /\ h[p] = h[next[p]]
      OBVIOUS
    <3>1. p[2] # 13 /\ ~ (p[1] < MonthDays(y)[p[2]]) /\ next[p] = <<p[1] - MonthDays(y)[p[2]], p[2] + 1>>
      OBVIOUS
    <3> HIDE DEF next, ended
    <3> DEFINE step(f) == MonthStep(y, f)
    <3>2. \A f : step(f)[p] = f[next[p]]
      BY <3>1 DEF MonthStep
    <3> HIDE DEF step
    <3>3. from = step(from) /\ h = step(h)
      BY <1>3, <1>4 DEF step
    <3> QED BY <3>2, <3>3
  <2>4. \A p \in MonthPlace : ended[p] \/ (next[p] \in MonthPlace /\ size[next[p]] < size[p])
    BY <1>1
  <2> HIDE DEF size, ended, next
  <2>5. SameLoop(MonthPlace, size, ended, next, from, h)
    BY <2>1, <2>2, <2>3, <2>4 DEF SameLoop
  <2> QED BY ONLY <2>5, LoopDetermined
<1>6. <<day, 1>> \in MonthPlace /\ at(<<day, 1>>) = day
  BY MonthsFollow DEF MonthPlace
<1>7. h[<<day, 1>>] = named(day)
  <2> HIDE DEF named
  <2> QED BY <1>6
<1> QED
  <2> HIDE DEF h, at, from
  <2>1. from[<<day, 1>>] = named(day)
    BY <1>5, <1>6, <1>7
  <2> QED BY <2>1 DEF from

\* A date is its year before its month and day.
LEMMA DateMade ==
  ASSUME NEW y \in Int, NEW m \in Int, NEW d \in Int
  PROVE  <<y>> \o <<m, d>> = <<y, m, d>>
<1> DEFINE made == <<y>> \o <<m, d>>
<1>1. <<y>> \in Seq(Int) /\ <<m, d>> \in Seq(Int) /\ <<y, m, d>> \in Seq(Int)
  OBVIOUS
<1>2. made \in Seq(Int) /\ Len(made) = 3 /\ made[1] = y /\ made[2] = m /\ made[3] = d
  BY <1>1
<1> HIDE DEF made
<1>3. \A i \in 1..3 : made[i] = <<y, m, d>>[i]
  BY <1>2
<1>4. made = <<y, m, d>>
  BY <1>1, <1>2, <1>3, SeqEqual
<1> QED BY <1>4 DEF made

\* The stamp of a day is a date of the calendar, and the number of that date is
\* the day again: the loops of epoch_secs_to_iso and the closed form of
\* days_from_civil undo one another, on every day since 1970-01-01.
THEOREM StampNamesItsDay ==
  \A day \in Nat : \E y \in StampYear : \E m \in 1..12 : \E d \in 1..MonthDays(y)[m] :
    EpochToCivil(day) = <<y, m, d>> /\ DaysFromCivil(y, m, d) = day
<1> SUFFICES ASSUME NEW day \in Nat
             PROVE  \E y \in StampYear : \E m \in 1..12 : \E d \in 1..MonthDays(y)[m] :
                      EpochToCivil(day) = <<y, m, d>> /\ DaysFromCivil(y, m, d) = day
  OBVIOUS
<1> DEFINE y == YearOf(day)
           left == day - NewYear(y)
           m == MonthOf(y, left)
           d == left - DaysUpTo(y)[m] + 1
<1>1. y \in StampYear /\ InYear(day, y)
  BY YearOfDay
<1> HIDE DEF y
<1>2. /\ y \in Year /\ NewYear(y) \in Int /\ NewYear(y + 1) = NewYear(y) + DaysIn(y) /\ DaysIn(y) \in Nat
  BY <1>1, StampYears
<1>3. left \in Nat /\ left < DaysIn(y) /\ day = NewYear(y) + left
  BY <1>1, <1>2 DEF InYear
<1> HIDE DEF left
<1>4. m \in 1..12 /\ InMonth(y, left, m)
  BY <1>3, DayHasMonth DEF MonthOf
<1> HIDE DEF m
<1>5. /\ DaysUpTo(y)[m] \in Nat /\ DaysUpTo(y)[m + 1] = DaysUpTo(y)[m] + MonthDays(y)[m]
      /\ MonthDays(y)[m] \in Nat
  BY <1>4, MonthsFollow
<1>6. d \in 1..MonthDays(y)[m] /\ d \in Int
  BY <1>3, <1>4, <1>5 DEF InMonth
<1>7. DaysFromCivil(y, m, d) = day
  <2>1. DaysFromCivil(y, m, d) = NewYear(y) + DaysUpTo(y)[m] + d - 1
    <3> HIDE DEF d
    <3> QED BY <1>2, <1>4, <1>6, DayOfMonth
  <2> QED BY <1>2, <1>3, <1>5, <2>1
<1>8. EpochToCivil(day) = <<y, m, d>>
  <2>1. FromYear[<<day, 1970>>] = <<y, left>>
    BY YearLoop DEF y, left
  <2>2. FromMonth(MonthDays(y))[<<left, 1>>] = <<m, d>>
    BY <1>3, MonthLoop DEF m
  <2> HIDE DEF d
  <2>3. EpochToCivil(day) = <<y>> \o <<m, d>>
    <3> DEFINE rest(a, b) == FromMonth(MonthDays(a))[<<b, 1>>]
    <3>1. FromYear[<<day, 1970>>][1] = y /\ FromYear[<<day, 1970>>][2] = left
      BY <2>1
    <3>2. EpochToCivil(day) = <<FromYear[<<day, 1970>>][1]>>
                              \o rest(FromYear[<<day, 1970>>][1], FromYear[<<day, 1970>>][2])
      BY DEF EpochToCivil
    <3> HIDE DEF rest
    <3>3. EpochToCivil(day) = <<y>> \o rest(y, left)
      BY <3>1, <3>2
    <3> QED BY <2>2, <3>3 DEF rest
  <2>4. y \in Int /\ m \in Int
    BY <1>1, <1>4 DEF StampYear
  <2> QED BY <1>6, <2>3, <2>4, DateMade
<1> HIDE DEF d
<1> QED BY <1>1, <1>4, <1>6, <1>7, <1>8

LEMMA CivilDayIsDay == CivilSpec => [](civilDay \in Nat)
<1>1. CivilInit => civilDay \in Nat
  BY CivilAssumption DEF CivilInit
<1>2. civilDay \in Nat /\ [Midnight]_civilDay => (civilDay \in Nat)'
  BY CivilAssumption DEF Midnight
<1> QED BY <1>1, <1>2, PTL DEF CivilSpec

\* On every day the hub's clock may show, the week of the stamp is named after
\* the year of its Thursday and numbered by the Thursdays of that year, where the
\* Thursday is dated by the stamp's own loops (epoch_secs_to_iso, iso_week_key).
THEOREM WeeksOfTheirThursdays == CivilSpec => []WeekOfItsThursday
<1>1. ASSUME civilDay \in Nat PROVE WeekOfItsThursday
  <2>1. PICK y \in StampYear, m \in 1..12 : \E d \in 1..MonthDays(y)[m] :
               Stamp = <<y, m, d>> /\ DaysFromCivil(y, m, d) = civilDay
    BY <1>1, StampNamesItsDay DEF Stamp
  <2>2. PICK d \in 1..MonthDays(y)[m] : Stamp = <<y, m, d>> /\ DaysFromCivil(y, m, d) = civilDay
    BY <2>1
  <2> DEFINE thursday == civilDay - IsoWeekday(civilDay) + 4
  <2>3. thursday \in Nat
    BY <1>1 DEF IsoWeekday
  <2>4. PICK of \in {y - 1, y, y + 1} :
          /\ NewYear(of) <= thursday /\ thursday < NewYear(of + 1)
          /\ Week = <<of, ((thursday - NewYear(of)) \div 7) + 1>>
    <3>1. y \in Year
      BY StampYears
    <3> QED BY <2>2, <3>1, NumberedByItsThursday DEF Week
  <2> HIDE DEF thursday
  <2>5. PICK z \in StampYear, k \in 1..12 : \E e \in 1..MonthDays(z)[k] :
               EpochToCivil(thursday) = <<z, k, e>> /\ DaysFromCivil(z, k, e) = thursday
    BY <2>3, StampNamesItsDay
  <2>6. PICK e \in 1..MonthDays(z)[k] : EpochToCivil(thursday) = <<z, k, e>> /\ DaysFromCivil(z, k, e) = thursday
    BY <2>5
  <2>7. of = z
    <3>1. of \in Year /\ z \in Year
      BY StampYears DEF StampYear, Year
    <3>2. InYear(thursday, of) /\ InYear(thursday, z)
      BY <2>4, <2>6, <3>1, DateInYear DEF InYear
    <3> QED BY <2>3, <3>1, <3>2, OneYear
  <2>8. Week = <<z, ((thursday - NewYear(z)) \div 7) + 1>>
    BY <2>4, <2>7
  <2>9. EpochToCivil(thursday)[1] = z /\ EpochToCivil(thursday)[2] = k /\ EpochToCivil(thursday)[3] = e
    BY <2>6
  <2> QED BY <2>6, <2>8, <2>9 DEF WeekOfItsThursday, thursday, NewYear
<1> QED BY <1>1, CivilDayIsDay, PTL
=============================================================================
