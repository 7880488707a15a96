------------------------- MODULE HistoryExport_proofs -------------------------
(***************************************************************************)
(* Proofs about HistoryExport, for any hubs, streams, page sizes, rows and *)
(* failures, and about NodeDirectory, for any peers, addresses and expiry. *)
(*                                                                         *)
(* A pass may be as old as it likes: what it needs is that the page it     *)
(* holds starts right above rows that are archived (Reading, Paged), and   *)
(* that whatever commits a watermark, a hub or a late statement, has that  *)
(* page in the target already (Written, LateWritten).                      *)
(*                                                                         *)
(* The hosts file has a Shape that splice_block brings about from any file  *)
(* that has it, and an entry that is not expired is at least as old as its  *)
(* peer's absence (Dated), so what was written from it is, too (NamesFresh). *)
(***************************************************************************)
EXTENDS HistoryExport, NodeDirectory, FiniteSetTheorems, SequenceTheorems,
        WellFoundedInduction, TLAPS

ArchivedUpTo(s, n) == \A i \in 1..n : Archived(s, i)

Reading ==
  \A h \in Hub : pc[h] \in {"rows", "upsert", "commit"} => after[h] <= watermark[Current(h)]

\* The page is the rows from after[h] + 1 to b.
PageTo(h, b) ==
  /\ b \in Rows
  /\ after[h] < b
  /\ b <= Len(source[Current(h)])
  /\ DOMAIN page[h] = (after[h] + 1)..b

Paged == \A h \in Hub : pc[h] \in {"upsert", "commit"} => \E b \in Rows : PageTo(h, b)

Written ==
  \A h \in Hub : pc[h] = "commit" => \A i \in DOMAIN page[h] : Archived(Current(h), i)

LateWritten ==
  \A c \in late : ArchivedUpTo(c[1], c[2]) /\ c[2] <= Len(source[c[1]])

Inv == ExportTypeOK /\ NothingSkipped /\ ArchiveIsPrefix /\ Reading /\ Paged /\ Written /\ LateWritten

-----------------------------------------------------------------------------
(* The operators *)

LEMMA PageIs ==
  \A p : p \in Page <=> DOMAIN p \subseteq Rows /\ p \in [DOMAIN p -> Version]
BY DEF Page

LEMMA CurrentIsStream == ExportTypeOK => \A h \in Hub : Current(h) \in Stream
BY OrderAssumption DEF ExportTypeOK, Current, Stream

LEMMA TopIs ==
  ASSUME ExportTypeOK, NEW h \in Hub, NEW b, PageTo(h, b)
  PROVE  Top(h) = b /\ b \in DOMAIN page[h]
<1>1. b \in DOMAIN page[h] /\ \A m \in DOMAIN page[h] : m <= b /\ m \in Int
  <2>1. b \in 1..MaxRows /\ after[h] \in 0..MaxRows
    BY DEF PageTo, ExportTypeOK, Rows
  <2> QED BY <2>1, MaxRowsAssumption DEF PageTo
<1>2. \A n \in DOMAIN page[h] : (\A m \in DOMAIN page[h] : m <= n) => n = b
  BY <1>1
<1> QED BY <1>1, <1>2 DEF Top

LEMMA SelectedIs ==
  ASSUME ExportTypeOK, NEW s \in Stream, NEW n \in 0..MaxRows, Selected(s, n) # {}
  PROVE  \E b \in Rows : n < b /\ b <= Len(source[s]) /\ Selected(s, n) = (n + 1)..b
<1>1. /\ Len(source[s]) \in Nat
      /\ Len(source[s]) <= MaxRows
      /\ DOMAIN source[s] = 1..Len(source[s])
  BY DEF ExportTypeOK
<1>2. n < Len(source[s])
  BY <1>1, MaxRowsAssumption DEF Selected
<1>3. CASE Len(source[s]) <= n + Batch
  <2>1. Selected(s, n) = (n + 1)..Len(source[s])
    BY <1>1, <1>3, BatchAssumption, MaxRowsAssumption DEF Selected
  <2> QED BY <1>1, <1>2, <2>1, MaxRowsAssumption DEF Rows
<1>4. CASE ~(Len(source[s]) <= n + Batch)
  <2>1. Selected(s, n) = (n + 1)..(n + Batch)
    BY <1>1, <1>4, BatchAssumption, MaxRowsAssumption DEF Selected
  <2> QED BY <1>1, <1>4, <2>1, BatchAssumption, MaxRowsAssumption DEF Rows
<1> QED BY <1>3, <1>4

LEMMA RaisedIs ==
  ASSUME ExportTypeOK, NEW s \in Stream, NEW n \in 0..MaxRows
  PROVE  /\ Raised(s, n) \in [Stream -> 0..MaxRows]
         /\ \A t \in Stream : watermark[t] <= Raised(s, n)[t]
         /\ \A t \in Stream : Raised(s, n)[t] = watermark[t] \/ (t = s /\ Raised(s, n)[t] = n)
BY MaxRowsAssumption DEF ExportTypeOK, Raised

\* Writing a page archives its rows, and no row ceases to be archived.
LEMMA UpsertedIs ==
  ASSUME ExportTypeOK, NEW h \in Hub
  PROVE  /\ Upserted(h) \in [Stream -> [Rows -> Version \cup {Missing}]]
         /\ \A s \in Stream, i \in Rows : Archived(s, i) => Upserted(h)[s][i] # Missing
         /\ \A i \in DOMAIN page[h] : Upserted(h)[Current(h)][i] # Missing
         /\ \A s \in Stream, i \in Rows :
              Upserted(h)[s][i] # Missing => Archived(s, i) \/ (s = Current(h) /\ i \in DOMAIN page[h])
<1>1. Current(h) \in Stream
  BY CurrentIsStream
<1>2. /\ DOMAIN page[h] \subseteq Rows
      /\ page[h] \in [DOMAIN page[h] -> Version]
      /\ target \in [Stream -> [Rows -> Version \cup {Missing}]]
  BY PageIs DEF ExportTypeOK
<1>3. Missing \notin Version
  BY DEF Missing, Version, Open, Final
<1> QED BY <1>1, <1>2, <1>3 DEF Upserted, Archived

-----------------------------------------------------------------------------
(* What a step does to the archive, the watermarks and the rows *)

\* rqlite's rows only grow in number, and stay typed.
LEMMA SourceSteps ==
  ASSUME ExportTypeOK, NEW s \in Stream,
         RowAdded(s) \/ \E i \in DOMAIN source[s] : RowChanges(s, i)
  PROVE  /\ source' \in [Stream -> Seq(Version)]
         /\ \A t \in Stream : Len(source'[t]) <= MaxRows
         /\ \A t \in Stream : Len(source[t]) <= Len(source'[t])
         /\ UNCHANGED <<target, watermark, late, pc, at, after, page, faults>>
<1>0. /\ source \in [Stream -> Seq(Version)]
      /\ \A t \in Stream : source[t] \in Seq(Version) /\ Len(source[t]) \in Nat /\ Len(source[t]) <= MaxRows
  BY DEF ExportTypeOK
<1>1. CASE RowAdded(s)
  <2> DEFINE v == IF s \in Changing THEN Open ELSE Final
             q == Append(source[s], v)
  <2>1. v \in Version
    BY DEF Version
  <2>2. q \in Seq(Version) /\ Len(q) = Len(source[s]) + 1
    <3> HIDE DEF v
    <3> QED BY <1>0, <2>1
  <2>3. source' = [source EXCEPT ![s] = q] /\ Len(source[s]) < MaxRows
    BY <1>1 DEF RowAdded
  <2> HIDE DEF q
  <2>4. Len(q) <= MaxRows
    BY <1>0, <2>2, <2>3, MaxRowsAssumption
  <2> QED BY <1>0, <1>1, <2>2, <2>3, <2>4 DEF RowAdded
<1>2. ASSUME NEW i \in DOMAIN source[s], RowChanges(s, i)
      PROVE  /\ source' \in [Stream -> Seq(Version)]
             /\ \A t \in Stream : Len(source'[t]) <= MaxRows
             /\ \A t \in Stream : Len(source[t]) <= Len(source'[t])
  <2> DEFINE q == [source[s] EXCEPT ![i] = Final]
  <2>1. q \in Seq(Version) /\ Len(q) = Len(source[s])
    BY <1>0, <1>2 DEF Version
  <2>2. source' = [source EXCEPT ![s] = q]
    BY <1>2 DEF RowChanges
  <2> HIDE DEF q
  <2> QED BY <1>0, <2>1, <2>2
<1> QED BY <1>1, <1>2 DEF RowChanges

\* Rows are never taken away, from rqlite or from the archive.
LEMMA NothingLost ==
  ASSUME ExportTypeOK, [ExportNext]_exportVars
  PROVE  /\ \A s \in Stream : Len(source[s]) <= Len(source'[s])
         /\ \A s \in Stream, i \in Rows : Archived(s, i) => Archived(s, i)'
<1>1. ASSUME NEW s \in Stream, RowAdded(s) \/ \E i \in DOMAIN source[s] : RowChanges(s, i)
      PROVE  /\ \A t \in Stream : Len(source[t]) <= Len(source'[t])
             /\ UNCHANGED target
  BY <1>1, SourceSteps
<1>2. ASSUME NEW h \in Hub, Pass(h) \/ Fail(h)
      PROVE  /\ UNCHANGED source
             /\ target' \in {target, Upserted(h)}
  BY <1>2 DEF Pass, Wake, ReadWatermark, FetchRows, Upsert, Commit, Fail
<1>3. ASSUME NEW c \in late, Land(c) PROVE UNCHANGED <<source, target>>
  BY <1>3 DEF Land
<1>4. \A s \in Stream : Len(source[s]) \in Nat
  BY DEF ExportTypeOK
<1> QED BY <1>1, <1>2, <1>3, <1>4, UpsertedIs DEF ExportNext, exportVars, Archived

\* A hub that commits a watermark has archived all that it covers.
LEMMA CommitsArchived ==
  ASSUME Inv, NEW h \in Hub, pc[h] = "commit"
  PROVE  /\ Current(h) \in Stream
         /\ Top(h) \in 0..MaxRows
         /\ ArchivedUpTo(Current(h), Top(h))
         /\ Top(h) <= Len(source[Current(h)])
<1>0. ExportTypeOK
  BY DEF Inv
<1>1. PICK b \in Rows : PageTo(h, b)
  BY DEF Inv, Paged
<1>2. Top(h) = b /\ b \in DOMAIN page[h]
  BY <1>0, <1>1, TopIs
<1>3. Archived(Current(h), b)
  BY <1>2 DEF Inv, Written
<1>4. Current(h) \in Stream
  BY <1>0, CurrentIsStream
<1> QED BY <1>1, <1>2, <1>3, <1>4, MaxRowsAssumption DEF Inv, ArchiveIsPrefix, ArchivedUpTo, PageTo, Rows

\* A watermark is moved by a hub's commit or by a late one, and then upwards, to
\* rows that are archived.
LEMMA WatermarkSteps ==
  ASSUME Inv, [ExportNext]_exportVars
  PROVE  /\ watermark' \in [Stream -> 0..MaxRows]
         /\ \A s \in Stream : watermark[s] <= watermark'[s]
         /\ \A s \in Stream : ArchivedUpTo(s, watermark'[s]) /\ watermark'[s] <= Len(source[s])
<1>0. /\ ExportTypeOK
      /\ watermark \in [Stream -> 0..MaxRows]
      /\ \A s \in Stream : watermark[s] \in Int /\ ArchivedUpTo(s, watermark[s]) /\ watermark[s] <= Len(source[s])
  BY DEF Inv, ExportTypeOK, NothingSkipped, ArchivedUpTo
<1>1. CASE UNCHANGED watermark
  BY <1>0, <1>1
<1>2. ASSUME NEW s \in Stream, NEW n \in 0..MaxRows, watermark' = Raised(s, n),
             ArchivedUpTo(s, n), n <= Len(source[s])
      PROVE  /\ watermark' \in [Stream -> 0..MaxRows]
             /\ \A t \in Stream : watermark[t] <= watermark'[t]
             /\ \A t \in Stream : ArchivedUpTo(t, watermark'[t]) /\ watermark'[t] <= Len(source[t])
  BY ZenonT(60), <1>0, <1>2, RaisedIs
<1>3. ASSUME NEW h \in Hub, Pass(h) \/ Fail(h)
      PROVE  UNCHANGED watermark \/ (pc[h] = "commit" /\ watermark' = Raised(Current(h), Top(h)))
  BY <1>3 DEF Pass, Wake, ReadWatermark, FetchRows, Upsert, Commit, Fail
<1>4. ASSUME NEW c \in late, Land(c)
      PROVE  /\ c[1] \in Stream /\ c[2] \in 0..MaxRows /\ watermark' = Raised(c[1], c[2])
             /\ ArchivedUpTo(c[1], c[2]) /\ c[2] <= Len(source[c[1]])
  BY <1>0, <1>4 DEF Land, ExportTypeOK, Inv, LateWritten
<1>5. ASSUME NEW s \in Stream, RowAdded(s) \/ \E i \in DOMAIN source[s] : RowChanges(s, i)
      PROVE  UNCHANGED watermark
  BY <1>5 DEF RowAdded, RowChanges
<1> QED BY <1>1, <1>2, <1>3, <1>4, <1>5, CommitsArchived DEF ExportNext, exportVars

\* What the steps of a hub do to its own place, when it goes on with a stream.
LEMMA HubSteps ==
  ASSUME ExportTypeOK, [ExportNext]_exportVars, NEW h \in Hub
  PROVE  /\ pc'[h] \in {"rows", "upsert", "commit"} => Current(h)' = Current(h)
         /\ pc'[h] = "rows" => \/ pc[h] = "rows" /\ after'[h] = after[h]
                               \/ after'[h] = watermark[Current(h)]
         /\ pc'[h] = "upsert" =>
              \/ pc[h] = "upsert" /\ after'[h] = after[h] /\ page'[h] = page[h]
              \/ pc[h] = "rows" /\ FetchRows(h) /\ Selected(Current(h), after[h]) # {}
         /\ pc'[h] = "commit" =>
              /\ after'[h] = after[h] /\ page'[h] = page[h]
              /\ pc[h] = "commit" \/ (pc[h] = "upsert" /\ target' = Upserted(h))
<1>0. /\ pc \in [Hub -> {"asleep", "watermark", "rows", "upsert", "commit"}]
      /\ at \in [Hub -> DOMAIN Order]
      /\ after \in [Hub -> 0..MaxRows]
      /\ page \in [Hub -> Page]
  BY DEF ExportTypeOK
<1>1. CASE UNCHANGED <<pc, at, after, page>>
  BY <1>1 DEF Current
<1>2. ASSUME NEW g \in Hub, Pass(g) \/ Fail(g), g # h
      PROVE  /\ pc'[h] = pc[h] /\ at'[h] = at[h] /\ after'[h] = after[h] /\ page'[h] = page[h]
  BY <1>0, <1>2 DEF Pass, Wake, ReadWatermark, FetchRows, Upsert, Commit, Fail, NextStream,
                    OnTargetError
<1>3. CASE Wake(h) \/ Commit(h) \/ Fail(h)
  BY <1>0, <1>3 DEF Wake, Commit, Fail, NextStream, OnTargetError, Current
<1>4. CASE ReadWatermark(h)
  BY <1>0, <1>4 DEF ReadWatermark, Current
<1>5. CASE FetchRows(h)
  BY <1>0, <1>5 DEF FetchRows, NextStream, Current
<1>6. CASE Upsert(h)
  BY <1>0, <1>6 DEF Upsert, Current
<1>7. ASSUME NEW s \in Stream, RowAdded(s) \/ \E i \in DOMAIN source[s] : RowChanges(s, i)
      PROVE  UNCHANGED <<pc, at, after, page>>
  BY <1>7 DEF RowAdded, RowChanges
<1>8. ASSUME NEW c \in late, Land(c) PROVE UNCHANGED <<pc, at, after, page>>
  BY <1>8 DEF Land
<1>9. ASSUME NEW g \in Hub, Pass(g) \/ Fail(g), g # h PROVE Current(h)' = Current(h)
  BY <1>2, <1>9 DEF Current
<1> QED BY <1>1, <1>2, <1>3, <1>4, <1>5, <1>6, <1>7, <1>8, <1>9 DEF ExportNext, exportVars, Pass

LEMMA NextTypeOK ==
  ASSUME Inv, [ExportNext]_exportVars
  PROVE  ExportTypeOK'
<1>0. ExportTypeOK
  BY DEF Inv
<1>1. /\ source' \in [Stream -> Seq(Version)]
      /\ \A s \in Stream : Len(source'[s]) <= MaxRows
  BY <1>0, SourceSteps DEF ExportTypeOK, ExportNext, exportVars, Pass, Wake, ReadWatermark, FetchRows, Upsert,
                           Commit, Fail, Land
<1>2. target' \in [Stream -> [Rows -> Version \cup {Missing}]]
  BY <1>0, UpsertedIs DEF ExportTypeOK, ExportNext, exportVars, RowAdded, RowChanges, Pass, Wake, ReadWatermark,
                          FetchRows, Upsert, Commit, Fail, Land
<1>3. /\ watermark' \in [Stream -> 0..MaxRows]
      /\ \A s \in Stream : watermark'[s] <= Len(source'[s])
  <2>1. \A s \in Stream : /\ watermark'[s] \in Int
                          /\ watermark'[s] <= Len(source[s])
                          /\ Len(source[s]) <= Len(source'[s])
                          /\ Len(source[s]) \in Int
    BY <1>0, WatermarkSteps, NothingLost DEF ExportTypeOK
  <2>2. \A s \in Stream : Len(source'[s]) \in Int
    BY <1>1
  <2> QED BY <2>1, <2>2, WatermarkSteps
<1>4. late' \subseteq Stream \X (0..MaxRows)
  <2>1. \A h \in Hub : pc[h] = "commit" => <<Current(h), Top(h)>> \in Stream \X (0..MaxRows)
    BY CommitsArchived
  <2> QED BY <1>0, <2>1 DEF ExportTypeOK, ExportNext, exportVars, RowAdded, RowChanges, Pass, Wake, ReadWatermark,
                            FetchRows, Upsert, Commit, Fail, Land
<1>5. pc' \in [Hub -> {"asleep", "watermark", "rows", "upsert", "commit"}]
  BY <1>0 DEF ExportTypeOK, ExportNext, exportVars, RowAdded, RowChanges, Pass, Wake, ReadWatermark, FetchRows,
              Upsert, Commit, Fail, Land, NextStream, OnTargetError
<1>6. at' \in [Hub -> DOMAIN Order]
  <2>1. DOMAIN Order = 1..Len(Order) /\ Len(Order) \in Nat /\ Len(Order) > 0
    BY OrderAssumption
  <2>2. at \in [Hub -> DOMAIN Order] /\ 1 \in DOMAIN Order
    BY <1>0, <2>1 DEF ExportTypeOK
  <2>3. ASSUME NEW h \in Hub, NextStream(h) PROVE at' \in [Hub -> DOMAIN Order]
    <3>1. CASE at[h] < Len(Order)
      <4>1. at[h] + 1 \in DOMAIN Order
        BY <2>1, <2>2, <3>1
      <4> QED BY <2>2, <2>3, <3>1, <4>1 DEF NextStream
    <3>2. CASE ~(at[h] < Len(Order))
      BY <2>2, <2>3, <3>2 DEF NextStream
    <3> QED BY <3>1, <3>2
  <2>4. \/ UNCHANGED at
        \/ \E h \in Hub : NextStream(h) \/ at' = [at EXCEPT ![h] = 1]
    BY DEF ExportNext, exportVars, RowAdded, RowChanges, Pass, Wake, ReadWatermark, FetchRows, Upsert,
           Commit, Fail, Land
  <2> QED BY <2>2, <2>3, <2>4
<1>7. after' \in [Hub -> 0..MaxRows]
  BY <1>0, CurrentIsStream DEF ExportTypeOK, ExportNext, exportVars, RowAdded, RowChanges, Pass, Wake,
             ReadWatermark, FetchRows, Upsert, Commit, Fail, Land
<1>8. page' \in [Hub -> Page]
  <2>1. ASSUME NEW h \in Hub, FetchRows(h) PROVE page' \in [Hub -> Page]
    <3> DEFINE wanted == Selected(Current(h), after[h])
               p == [i \in wanted |-> source[Current(h)][i]]
    <3>1. /\ source[Current(h)] \in Seq(Version)
          /\ Len(source[Current(h)]) <= MaxRows
      BY <1>0, CurrentIsStream DEF ExportTypeOK
    <3>2. wanted \subseteq Rows /\ wanted \subseteq DOMAIN source[Current(h)]
      BY <3>1, MaxRowsAssumption DEF Selected, Rows
    <3>3. DOMAIN p \subseteq Rows /\ p \in [DOMAIN p -> Version]
      BY <3>1, <3>2
    <3>4. page' = [page EXCEPT ![h] = p]
      BY <2>1 DEF FetchRows
    <3> HIDE DEF p
    <3>5. p \in Page
      BY <3>3, PageIs
    <3> QED BY <1>0, <3>4, <3>5 DEF ExportTypeOK
  <2> QED BY <1>0, <2>1 DEF ExportTypeOK, ExportNext, exportVars, RowAdded, RowChanges, Pass, Wake, ReadWatermark,
                            Upsert, Commit, Fail, Land
<1>9. faults' \in 0..MaxFaults
  BY <1>0, MaxFaultsAssumption DEF ExportTypeOK, ExportNext, exportVars, RowAdded, RowChanges, Pass, Wake,
             ReadWatermark, FetchRows, Upsert, Commit, Fail, Land
<1> QED BY <1>1, <1>2, <1>3, <1>4, <1>5, <1>6, <1>7, <1>8, <1>9 DEF ExportTypeOK

-----------------------------------------------------------------------------
(* The parts of the invariant *)

LEMMA ArchivedStays ==
  ASSUME Inv, [ExportNext]_exportVars, NEW s \in Stream, NEW n \in 0..MaxRows, ArchivedUpTo(s, n)
  PROVE  \A i \in 1..n : Archived(s, i)'
BY NothingLost, MaxRowsAssumption DEF Inv, ArchivedUpTo, Rows

LEMMA NextNothingSkipped ==
  ASSUME Inv, [ExportNext]_exportVars
  PROVE  NothingSkipped'
BY WatermarkSteps, ArchivedStays DEF NothingSkipped

LEMMA NextArchiveIsPrefix ==
  ASSUME Inv, [ExportNext]_exportVars
  PROVE  ArchiveIsPrefix'
<1>0. ExportTypeOK
  BY DEF Inv
<1> SUFFICES ASSUME NEW s \in Stream, NEW i \in Rows, Archived(s, i)', NEW j \in 1..i
             PROVE  Archived(s, j)'
  BY DEF ArchiveIsPrefix
<1>1. i \in 1..MaxRows /\ j \in Rows /\ j <= i
  BY MaxRowsAssumption DEF Rows
<1>2. CASE Archived(s, i)
  <2>1. Archived(s, j)
    BY <1>2 DEF Inv, ArchiveIsPrefix
  <2> QED BY <1>0, <1>1, <2>1, NothingLost
<1>3. CASE ~Archived(s, i)
  <2>1. PICK h \in Hub : pc[h] = "upsert" /\ target' = Upserted(h)
    BY <1>3 DEF ExportNext, exportVars, RowAdded, RowChanges, Pass, Wake, ReadWatermark, FetchRows, Upsert,
                Commit, Fail, Land, Archived
  <2>2. s = Current(h) /\ i \in DOMAIN page[h]
    BY <1>0, <1>3, <2>1, UpsertedIs DEF Archived
  <2>3. PICK b \in Rows : PageTo(h, b)
    BY <2>1 DEF Inv, Paged
  <2>4. /\ after[h] \in 0..MaxRows
        /\ watermark[s] \in 0..MaxRows
        /\ after[h] <= watermark[s]
    BY <1>0, <2>1, <2>2 DEF ExportTypeOK, Inv, Reading
  <2>5. CASE j <= after[h]
    <3>1. j \in 1..watermark[s]
      BY <1>1, <2>4, <2>5
    <3>2. Archived(s, j)
      BY <3>1 DEF Inv, NothingSkipped
    <3> QED BY <1>0, <1>1, <3>2, NothingLost
  <2>6. CASE ~(j <= after[h])
    <3>1. DOMAIN page[h] = (after[h] + 1)..b /\ b \in 1..MaxRows
      BY <2>3 DEF PageTo, Rows
    <3>2. j \in DOMAIN page[h]
      BY <1>1, <2>2, <2>4, <2>6, <3>1, MaxRowsAssumption
    <3> QED BY <1>0, <2>1, <2>2, <3>2, UpsertedIs DEF Archived
  <2> QED BY <2>5, <2>6
<1> QED BY <1>2, <1>3

LEMMA NextReading ==
  ASSUME Inv, [ExportNext]_exportVars
  PROVE  Reading'
<1>0. ExportTypeOK
  BY DEF Inv
<1> SUFFICES ASSUME NEW h \in Hub, pc'[h] \in {"rows", "upsert", "commit"}
             PROVE  (after[h] <= watermark[Current(h)])'
  BY DEF Reading
<1>1. Current(h)' = Current(h) /\ Current(h) \in Stream
  BY <1>0, HubSteps, CurrentIsStream
<1>2. /\ after[h] \in Int
      /\ watermark[Current(h)] \in Int
      /\ watermark'[Current(h)] \in Int
      /\ watermark[Current(h)] <= watermark'[Current(h)]
  BY <1>0, <1>1, WatermarkSteps DEF ExportTypeOK
<1>3. \/ pc[h] \in {"rows", "upsert", "commit"} /\ after'[h] = after[h]
      \/ after'[h] = watermark[Current(h)]
  <2>1. ASSUME FetchRows(h) PROVE after'[h] = after[h]
    BY <2>1 DEF FetchRows
  <2> QED BY <1>0, <2>1, HubSteps
<1>4. after'[h] <= watermark'[Current(h)]
  BY <1>2, <1>3 DEF Inv, Reading
<1> QED BY <1>1, <1>4

\* No export step shortens a source.
LEMMA LengthsGrow ==
  ASSUME Inv, [ExportNext]_exportVars, NEW s \in Stream
  PROVE  Len(source[s]) \in Int /\ Len(source'[s]) \in Int /\ Len(source[s]) <= Len(source'[s])
<1>1. source[s] \in Seq(Version)
  BY DEF Inv, ExportTypeOK
<1>2. ExportTypeOK'
  BY NextTypeOK
<1>3. source'[s] \in Seq(Version)
  BY <1>2 DEF ExportTypeOK
<1>4. Len(source[s]) <= Len(source'[s])
  BY NothingLost DEF Inv
<1> QED BY <1>1, <1>3, <1>4

LEMMA NextPaged ==
  ASSUME Inv, [ExportNext]_exportVars
  PROVE  Paged'
<1>0. ExportTypeOK
  BY DEF Inv
<1> SUFFICES ASSUME NEW h \in Hub, pc'[h] \in {"upsert", "commit"}
             PROVE  \E b \in Rows : PageTo(h, b)'
  BY DEF Paged
<1>1. Current(h)' = Current(h) /\ Current(h) \in Stream
  BY <1>0, HubSteps, CurrentIsStream
<1>2. /\ Len(source[Current(h)]) <= Len(source'[Current(h)])
      /\ Len(source[Current(h)]) \in Int
      /\ Len(source'[Current(h)]) \in Int
  BY <1>1, LengthsGrow
<1>3. CASE pc[h] \in {"upsert", "commit"} /\ after'[h] = after[h] /\ page'[h] = page[h]
  <2>1. PICK b \in Rows : PageTo(h, b)
    BY <1>3 DEF Inv, Paged
  <2>2. PageTo(h, b)'
    BY <1>1, <1>2, <1>3, <2>1, MaxRowsAssumption DEF PageTo, Rows
  <2> QED BY <2>2
<1>4. CASE FetchRows(h) /\ Selected(Current(h), after[h]) # {}
  <2>1. after[h] \in 0..MaxRows
    BY <1>0 DEF ExportTypeOK
  <2>2. PICK b \in Rows : /\ after[h] < b
                          /\ b <= Len(source[Current(h)])
                          /\ Selected(Current(h), after[h]) = (after[h] + 1)..b
    BY <1>0, <1>1, <1>4, <2>1, SelectedIs
  <2>3. DOMAIN page'[h] = Selected(Current(h), after[h]) /\ after'[h] = after[h]
    BY <1>0, <1>4 DEF FetchRows, ExportTypeOK
  <2>4. UNCHANGED source
    BY <1>4 DEF FetchRows
  <2>5. PageTo(h, b)'
    BY <1>1, <2>2, <2>3, <2>4 DEF PageTo
  <2> QED BY <2>5
<1> QED BY <1>0, <1>3, <1>4, HubSteps

LEMMA NextWritten ==
  ASSUME Inv, [ExportNext]_exportVars
  PROVE  Written'
<1>0. ExportTypeOK
  BY DEF Inv
<1> SUFFICES ASSUME NEW h \in Hub, pc'[h] = "commit", NEW i \in DOMAIN page'[h]
             PROVE  Archived(Current(h), i)'
  BY DEF Written
<1>1. /\ Current(h)' = Current(h)
      /\ Current(h) \in Stream
      /\ page'[h] = page[h]
      /\ pc[h] = "commit" \/ target' = Upserted(h)
  BY <1>0, HubSteps, CurrentIsStream
<1>2. i \in Rows
  BY <1>0, <1>1, PageIs DEF ExportTypeOK
<1>3. CASE pc[h] = "commit"
  <2>1. PICK s \in Stream : s = Current(h) /\ Archived(s, i)
    BY <1>1, <1>3 DEF Inv, Written
  <2>2. Archived(s, i)'
    BY <1>0, <1>2, <2>1, NothingLost
  <2> QED BY <1>1, <2>1, <2>2 DEF Archived
<1>4. CASE target' = Upserted(h)
  <2>1. target'[Current(h)][i] # Missing
    BY <1>0, <1>1, <1>4, UpsertedIs
  <2> QED BY <1>1, <2>1 DEF Archived
<1> QED BY <1>1, <1>3, <1>4

LEMMA NextLateWritten ==
  ASSUME Inv, [ExportNext]_exportVars
  PROVE  LateWritten'
<1>0. ExportTypeOK
  BY DEF Inv
<1>1. \A c \in late' : \/ c \in late
                       \/ \E h \in Hub : pc[h] = "commit" /\ c = <<Current(h), Top(h)>>
  BY DEF ExportNext, exportVars, RowAdded, RowChanges, Pass, Wake, ReadWatermark, FetchRows, Upsert, Commit,
         Fail, Land
<1>2. \A c \in late' : /\ c[1] \in Stream
                       /\ c[2] \in 0..MaxRows
                       /\ ArchivedUpTo(c[1], c[2])
                       /\ c[2] <= Len(source[c[1]])
  BY <1>0, <1>1, CommitsArchived DEF ExportTypeOK, Inv, LateWritten
<1>3. ASSUME NEW c \in late' PROVE ArchivedUpTo(c[1], c[2])' /\ c[2] <= Len(source'[c[1]])
  <2>1. /\ Len(source[c[1]]) \in Int
        /\ Len(source'[c[1]]) \in Int
        /\ Len(source[c[1]]) <= Len(source'[c[1]])
    BY <1>2, LengthsGrow
  <2>2. \A i \in 1..c[2] : Archived(c[1], i)'
    BY <1>2, ArchivedStays
  <2> QED BY <1>2, <2>1, <2>2 DEF ArchivedUpTo
<1> QED BY <1>3 DEF LateWritten

-----------------------------------------------------------------------------
(* Theorems *)

LEMMA InitInv == ExportInit => Inv
<1> SUFFICES ASSUME ExportInit PROVE Inv
  OBVIOUS
<1>1. <<>> \in Page
  <2>1. \A q \in Seq(Version) : q \in [1..Len(q) -> Version]
    OBVIOUS
  <2>2. <<>> \in [{} -> Version] /\ DOMAIN <<>> = {}
    BY <2>1
  <2> QED BY <2>2, PageIs
<1>2. 1 \in DOMAIN Order
  BY OrderAssumption
<1>3. ExportTypeOK
  BY <1>1, <1>2, MaxRowsAssumption, MaxFaultsAssumption DEF ExportInit, ExportTypeOK
<1>4. NothingSkipped /\ ArchiveIsPrefix
  BY DEF ExportInit, NothingSkipped, ArchiveIsPrefix, Archived
<1> QED BY <1>3, <1>4 DEF ExportInit, Inv, Reading, Paged, Written, LateWritten

LEMMA NextInv == Inv /\ [ExportNext]_exportVars => Inv'
BY NextTypeOK, NextNothingSkipped, NextArchiveIsPrefix, NextReading, NextPaged, NextWritten,
   NextLateWritten DEF Inv

LEMMA InvHolds == ExportSpec => []Inv
BY InitInv, NextInv, PTL DEF ExportSpec

\* The types hold, and no watermark is ahead of the rows of its stream.
THEOREM TypeCorrect == ExportSpec => []ExportTypeOK
<1>1. Inv => ExportTypeOK
  BY DEF Inv
<1> QED BY <1>1, InvHolds, PTL

\* Whatever hubs export at once, fail and commit late, a row at or below its
\* stream's watermark is in the archive: commit_watermark after upsert.
THEOREM NothingSkippedHolds == ExportSpec => []NothingSkipped
<1>1. Inv => NothingSkipped
  BY DEF Inv
<1> QED BY <1>1, InvHolds, PTL

\* The archive is always a prefix of each stream: fetch_history_rows pages upwards.
THEOREM ArchiveIsPrefixHolds == ExportSpec => []ArchiveIsPrefix
<1>1. Inv => ArchiveIsPrefix
  BY DEF Inv
<1> QED BY <1>1, InvHolds, PTL

\* No pass moves a watermark back: commit_history_watermark takes the maximum.
THEOREM WatermarksOnlyRiseHolds == ExportSpec => WatermarksOnlyRise
<1>1. Inv /\ [ExportNext]_exportVars => [\A s \in Stream : watermark'[s] >= watermark[s]]_exportVars
  <2> SUFFICES ASSUME Inv, [ExportNext]_exportVars PROVE \A s \in Stream : watermark'[s] >= watermark[s]
    OBVIOUS
  <2>1. \A s \in Stream : /\ watermark[s] \in Int
                          /\ watermark'[s] \in Int
                          /\ watermark[s] <= watermark'[s]
    BY WatermarkSteps DEF Inv, ExportTypeOK
  <2> QED BY <2>1
<1> QED BY <1>1, InvHolds, PTL DEF ExportSpec, WatermarksOnlyRise

-----------------------------------------------------------------------------
(* The directory of the nodes: the loop of splice_block, line by line.  The   *)
(* fold of the model is defined over sets of places; that it runs through    *)
(* the lines is shown for the least number of places where it would not.     *)

\* The step of splice_block's loop over the lines.
LineKept(k, line) ==
  CASE line = Begin -> [k EXCEPT !.inside = TRUE]
    [] line # Begin /\ k.inside -> [k EXCEPT !.inside = line # End]
    [] OTHER -> [k EXCEPT !.lines = Append(@, line)]

NothingKept == [inside |-> FALSE, lines |-> <<>>]

\* FoldLeft over some of the places: the last one is looked at last.
Kept(old, s, f) ==
  IF s = {} THEN NothingKept ELSE LineKept(f[s \ {Max(s)}], old[Max(s)])

LEMMA LastPlace ==
  ASSUME NEW n \in Nat, NEW s \in SUBSET (1..n), s # {}
  PROVE  /\ Max(s) \in s /\ \A i \in s : i <= Max(s)
         /\ Max(s) \in 1..n /\ s \ {Max(s)} \in SUBSET (1..n)
         /\ IsFiniteSet(s) /\ Cardinality(s) \in Nat /\ Cardinality(s) > 0
         /\ Cardinality(s \ {Max(s)}) = Cardinality(s) - 1
<1>1. IsFiniteSet(1..n)
  BY FS_Interval
<1>2. IsFiniteSet(s)
  BY <1>1, FS_Subset
<1>3. Cardinality(s) \in Nat /\ Cardinality(s) # 0
  BY <1>2, FS_CardinalityType, FS_EmptySet
<1> DEFINE R == {n - i : i \in s}
<1>4. PICK j \in s : TRUE
  OBVIOUS
<1>5. R \subseteq Nat /\ n - j \in R
  OBVIOUS
<1> HIDE DEF R
<1>6. PICK k \in R : \A m \in R : ~ (<<m, k>> \in OpToRel(<, Nat))
  <2> DEFINE one == n - j
  <2>1. one \in R
    BY <1>5
  <2> HIDE DEF one
  <2> QED BY ONLY <1>5, <2>1, NatLessThanWellFounded, WFMin
<1> USE DEF R
<1>7. PICK last \in s : k = n - last
  OBVIOUS
<1>8. ASSUME NEW i \in s PROVE last >= i
  <2>1. n - i \in R /\ n - i \in Nat /\ k \in Nat
    BY <1>5
  <2>2. ~ (n - i < k)
    BY <1>6, <2>1 DEF OpToRel
  <2> QED BY <1>7, <2>1, <2>2
<1>9. Max(s) \in s /\ \A i \in s : Max(s) >= i
  BY <1>8 DEF Max
<1>10. Cardinality(s \ {Max(s)}) = Cardinality(s) - 1
  BY <1>2, <1>9, FS_RemoveElement
<1> HIDE DEF R
<1>11. Max(s) \in 1..n /\ s \ {Max(s)} \in SUBSET (1..n)
  BY <1>9
<1>12. \A i \in s : i <= Max(s)
  BY <1>9, <1>11
<1>13. Cardinality(s) > 0
  BY <1>3
<1> QED BY <1>2, <1>3, <1>9, <1>10, <1>11, <1>12, <1>13

\* Such a fold exists, for lines of any kind.
LEMMA FoldExists ==
  ASSUME NEW n \in Nat, NEW old
  PROVE  \E f : f = [s \in SUBSET (1..n) |-> Kept(old, s, f)]
<1> DEFINE Small(k) == {s \in SUBSET (1..n) : Cardinality(s) <= k}
           Folds(k) == \E f : f = [s \in Small(k) |-> Kept(old, s, f)]
           T == {k \in Nat : ~Folds(k)}
<1>1. \A k \in Nat : Folds(k)
  <2> SUFFICES ASSUME NEW j \in T PROVE FALSE
    OBVIOUS
  <2>1. T \subseteq Nat
    OBVIOUS
  <2> HIDE DEF T
  <2>2. PICK k \in T : \A m \in T : ~ (<<m, k>> \in OpToRel(<, Nat))
    BY ONLY <2>1, j \in T, NatLessThanWellFounded, WFMin
  <2> USE DEF T
  <2>3. k \in Nat /\ ~Folds(k)
    OBVIOUS
  <2> HIDE DEF T
  <2>4. CASE k = 0
    <3> DEFINE f == [s \in Small(0) |-> NothingKept]
    <3>1. \A s \in Small(0) : s = {}
      <4> SUFFICES ASSUME NEW s \in SUBSET (1..n), Cardinality(s) <= 0, s # {} PROVE FALSE
        OBVIOUS
      <4>1. Cardinality(s) \in Nat /\ Cardinality(s) > 0
        BY LastPlace
      <4> QED BY <4>1
    <3>2. \A s \in Small(0) : Kept(old, s, f) = NothingKept
      BY <3>1 DEF Kept
    <3>3. f = [s \in Small(0) |-> Kept(old, s, f)]
      BY <3>2
    <3> HIDE DEF f, Small
    <3> QED BY <2>3, <2>4, <3>3
  <2>5. CASE k > 0
    <3>1. k - 1 \in Nat /\ k - 1 < k
      BY <2>3, <2>5
    <3>2. Folds(k - 1)
      <4>1. <<k - 1, k>> \in OpToRel(<, Nat)
        BY <2>3, <3>1 DEF OpToRel
      <4>2. k - 1 \notin T
        BY <2>2, <4>1
      <4> QED BY <3>1, <4>2 DEF T
    <3>3. PICK f : f = [s \in Small(k - 1) |-> Kept(old, s, f)]
      BY <3>2
    <3> DEFINE g == [s \in Small(k) |-> Kept(old, s, f)]
    <3>4. \A s \in Small(k - 1) : s \in Small(k) /\ g[s] = f[s]
      <4>1. \A s \in Small(k - 1) : s \in Small(k)
        <5> SUFFICES ASSUME NEW s \in Small(k - 1) PROVE Cardinality(s) <= k
          OBVIOUS
        <5>1. CASE s = {}
          BY <2>3, <5>1, FS_EmptySet
        <5>2. CASE s # {}
          <6>1. Cardinality(s) \in Nat /\ Cardinality(s) <= k - 1
            BY <5>2, LastPlace
          <6> QED BY <2>3, <6>1
        <5> QED BY <5>1, <5>2
      <4>2. \A s \in Small(k - 1) : f[s] = Kept(old, s, f)
        BY <3>3
      <4> HIDE DEF Small
      <4> QED BY <4>1, <4>2
    <3>5. ASSUME NEW s \in Small(k) PROVE Kept(old, s, f) = Kept(old, s, g)
      <4>1. CASE s = {}
        BY <4>1 DEF Kept
      <4>2. CASE s # {}
        <5>1. s \ {Max(s)} \in Small(k - 1)
          BY <2>3, <4>2, LastPlace
        <5>2. g[s \ {Max(s)}] = f[s \ {Max(s)}]
          BY <3>4, <5>1
        <5> HIDE DEF g
        <5> QED BY <5>2 DEF Kept
      <4> QED BY <4>1, <4>2
    <3>6. g = [s \in Small(k) |-> Kept(old, s, g)]
      <4> DEFINE G(s) == Kept(old, s, g)
      <4>1. \A s \in Small(k) : Kept(old, s, f) = G(s)
        BY <3>5
      <4> HIDE DEF G
      <4>2. g = [s \in Small(k) |-> G(s)]
        BY <4>1
      <4> QED BY <4>2 DEF G
    <3> HIDE DEF g
    <3> QED BY <2>3, <3>6
  <2> QED BY <2>3, <2>4, <2>5
<1>2. IsFiniteSet(1..n) /\ Cardinality(1..n) = n
  BY FS_Interval
<1>3. Small(n) = SUBSET (1..n)
  <2>1. \A s \in SUBSET (1..n) : Cardinality(s) <= n
    BY <1>2, FS_Subset
  <2> QED BY <2>1
<1> HIDE DEF Small
<1> QED BY <1>1, <1>3


FoldOf(old, n) == CHOOSE f : f = [s \in SUBSET (1..n) |-> Kept(old, s, f)]
KeptUpTo(old, i) == FoldOf(old, Len(old))[1..i]

\* The fold looks at one line after the other.
LEMMA FoldRuns ==
  ASSUME NEW S, NEW old \in Seq(S)
  PROVE  /\ KeptUpTo(old, 0) = NothingKept
         /\ \A i \in 1..Len(old) : KeptUpTo(old, i) = LineKept(KeptUpTo(old, i - 1), old[i])
<1> DEFINE n == Len(old)
           f == FoldOf(old, n)
<1>1. n \in Nat
  OBVIOUS
<1>2. f = [s \in SUBSET (1..n) |-> Kept(old, s, f)]
  <2> HIDE DEF n
  <2>1. \E g : g = [s \in SUBSET (1..n) |-> Kept(old, s, g)]
    BY <1>1, FoldExists
  <2> QED BY <2>1 DEF FoldOf
<1> HIDE DEF n, f
<1>3. \A s \in SUBSET (1..n) : f[s] = Kept(old, s, f)
  BY <1>2
<1>4. f[1..0] = NothingKept
  <2>1. 1..0 = {} /\ {} \in SUBSET (1..n)
    OBVIOUS
  <2>2. f[{}] = Kept(old, {}, f)
    BY <1>3, <2>1
  <2> QED BY <2>1, <2>2 DEF Kept
<1>5. ASSUME NEW i \in 1..n PROVE f[1..i] = LineKept(f[1..(i - 1)], old[i])
  <2> DEFINE s == 1..i
  <2>1. s \in SUBSET (1..n) /\ s # {} /\ i \in s /\ \A j \in s : j <= i
    BY <1>1
  <2>2. s \ {i} = 1..(i - 1)
    OBVIOUS
  <2> HIDE DEF s
  <2>3. Max(s) = i
    <3> HIDE DEF s
    <3>0. s \in SUBSET (1..n) /\ s # {}
      BY <2>1
    <3>1. Max(s) \in s /\ \A j \in s : j <= Max(s)
      BY ONLY <1>1, <3>0, LastPlace
    <3> DEFINE m == Max(s)
    <3>2. m \in 1..n /\ i \in s
      BY <2>1, <3>0, <3>1
    <3>3. i <= m /\ m <= i
      BY <2>1, <3>1
    <3> HIDE DEF m
    <3>4. m = i
      BY <1>1, <3>2, <3>3
    <3> QED BY <3>4 DEF m
  <2>4. f[s] = Kept(old, s, f)
    BY <1>3, <2>1
  <2>5. f[s] = LineKept(f[s \ {i}], old[i])
    BY <2>1, <2>3, <2>4 DEF Kept
  <2> QED BY <2>2, <2>5 DEF s
<1> QED BY <1>4, <1>5 DEF KeptUpTo, f, n

LEMMA SplicedIs ==
  ASSUME NEW S, NEW old \in Seq(S), NEW block
  PROVE  Spliced(old, block) = KeptUpTo(old, Len(old)).lines \o block
<1>1. DOMAIN old = 1..Len(old)
  OBVIOUS
<1> QED BY <1>1 DEF Spliced, FoldLeft, MapThenFoldSet, KeptUpTo, FoldOf, Kept, LineKept, NothingKept

-----------------------------------------------------------------------------
(* The hosts file *)

NodeLine == Address \X Peer
HostLine(named) == Foreign \cup {Begin, End} \cup named

\* The markers at b and e bound the one block; there is none when both are 0.
Marked(h, b, e) ==
  /\ b \in Nat /\ e \in 0..Len(h)
  /\ (0 < b /\ b < e) \/ (b = 0 /\ e = 0)
  /\ \A i \in 1..Len(h) : /\ h[i] = Begin <=> i = b
                          /\ h[i] = End <=> i = e
                          /\ h[i] \in Foreign <=> i < b \/ e < i

Shape(h) ==
  /\ h \in Seq(HostLine(NodeLine))
  /\ Len(h) > 0
  /\ \A i \in 1..Len(h) : h[i] = Localhost <=> i = 1
  /\ \A i, j \in 1..Len(h) : h[i] = Printer /\ h[j] = Printer => i = j
  /\ \E b, e \in Nat : Marked(h, b, e)

LEMMA LineKinds ==
  /\ Begin # End /\ Begin # Localhost /\ Begin # Printer
  /\ End # Localhost /\ End # Printer /\ Localhost # Printer
  /\ \A l \in NodeLine : l \notin Foreign /\ l # Begin /\ l # End
<1>1. ASSUME NEW x, NEW y, x # y PROVE <<x>> # <<y>>
  BY <1>1
<1>2. Begin # End /\ Begin # Localhost /\ Begin # Printer
  BY <1>1 DEF Begin, End, Localhost, Printer
<1>3. End # Localhost /\ End # Printer /\ Localhost # Printer
  BY <1>1 DEF Begin, End, Localhost, Printer
<1>4. ASSUME NEW a, NEW p, NEW x PROVE <<a, p>> # <<x>>
  <2>1. Len(<<a, p>>) = 2 /\ Len(<<x>>) = 1
    OBVIOUS
  <2> QED BY <2>1
<1>5. ASSUME NEW l \in NodeLine PROVE l \notin Foreign /\ l # Begin /\ l # End
  <2>1. PICK a \in Address, p \in Peer : l = <<a, p>>
    BY DEF NodeLine
  <2> QED BY <1>4, <2>1 DEF Foreign, Begin, End, Localhost, Printer
<1> QED BY <1>2, <1>3, <1>5

\* What the loop of splice_block has after i lines.
Read(h, i, b, e) ==
  [inside |-> b <= i /\ i < e,
   lines |-> IF i = 0 THEN <<>>
             ELSE IF \E j \in 1..i : h[j] = Printer THEN <<Localhost, Printer>> ELSE <<Localhost>>]

LEMMA ReadStep ==
  ASSUME NEW h, Shape(h), NEW b \in Nat, NEW e \in Nat, Marked(h, b, e), NEW i \in 1..Len(h)
  PROVE  LineKept(Read(h, i - 1, b, e), h[i]) = Read(h, i, b, e)
<1> DEFINE n == Len(h)
           was == Read(h, i - 1, b, e)
           is == Read(h, i, b, e)
           printed(m) == \E j \in 1..m : h[j] = Printer
<1>1. /\ n \in Nat /\ i \in 1..n /\ i - 1 \in Nat
      /\ h[i] = Begin <=> i = b
      /\ h[i] = End <=> i = e
      /\ h[i] \in Foreign <=> i < b \/ e < i
      /\ h[i] = Localhost <=> i = 1
      /\ (0 < b /\ b < e) \/ (b = 0 /\ e = 0)
  <2>1. n \in Nat
    BY DEF Shape
  <2> QED BY <2>1 DEF Shape, Marked
<1>2. was.inside = (b <= i - 1 /\ i - 1 < e) /\ is.inside = (b <= i /\ i < e)
  BY DEF Read
<1>3. h[i] # Printer => (printed(i) <=> printed(i - 1))
  <2>1. 1..i = (1..(i - 1)) \cup {i}
    BY <1>1
  <2> QED BY <2>1
<1>4. CASE h[i] \notin Foreign
  <2>1. i # 1 /\ h[i] # Printer /\ h[i] # Localhost
    BY <1>1, <1>4 DEF Foreign
  <2>2. was.lines = is.lines
    <3>1. i # 0 /\ i - 1 # 0
      BY <1>1, <2>1
    <3> QED BY <1>3, <2>1, <3>1 DEF Read
  <2>3. LineKept(was, h[i]) = [was EXCEPT !.inside = is.inside]
    <3>1. CASE i = b
      <4>0. b <= i /\ i < e
        BY <1>1, <3>1
      <4>1. h[i] = Begin /\ is.inside = TRUE
        BY <1>1, <1>2, <3>1, <4>0
      <4> QED BY <4>1 DEF LineKept
    <3>2. CASE i # b
      <4>0. b <= i - 1 /\ i - 1 < e /\ b <= i /\ (i < e <=> i # e)
        BY <1>1, <1>4, <3>2
      <4>1. h[i] # Begin /\ was.inside
        BY <1>1, <1>2, <3>2, <4>0
      <4>2. is.inside = (h[i] # End)
        <5>1. (b <= i /\ i < e) = (h[i] # End)
          BY <1>1, <4>0
        <5> QED BY <1>2, <5>1
      <4> QED BY <4>1, <4>2 DEF LineKept
    <3> QED BY <3>1, <3>2
  <2> QED BY <2>2, <2>3 DEF Read
<1>5. CASE h[i] \in Foreign
  <2>0. ~(b <= i - 1 /\ i - 1 < e) /\ ~(b <= i /\ i < e)
    BY <1>1, <1>5
  <2>1. h[i] # Begin /\ ~was.inside /\ ~is.inside
    <3>1. h[i] # Begin
      BY <1>5, LineKinds DEF Foreign
    <3>2. ~was.inside /\ ~is.inside
      BY <1>2, <2>0
    <3> QED BY <3>1, <3>2
  <2>2. LineKept(was, h[i]) = [was EXCEPT !.lines = Append(@, h[i])]
    BY <2>1 DEF LineKept
  <2>3. is.lines = Append(was.lines, h[i])
    <3>1. CASE h[i] = Localhost
      <4>1. i = 1 /\ i - 1 = 0
        BY <1>1, <3>1
      <4>2. ~printed(i)
        BY <3>1, <4>1, LineKinds
      <4>3. was.lines = <<>> /\ is.lines = <<Localhost>>
        BY <4>1, <4>2 DEF Read
      <4> QED BY <3>1, <4>3
    <3>2. CASE h[i] = Printer
      <4>1. i # 1 /\ i # 0 /\ i - 1 # 0
        BY <1>1, <3>2, LineKinds
      <4>2. \A j \in 1..(i - 1) : h[j] # Printer
        <5>1. \A j \in 1..(i - 1) : j \in 1..n /\ j # i
          BY <1>1
        <5> QED BY <1>1, <3>2, <5>1 DEF Shape
      <4>3. printed(i)
        <5>1. i \in 1..i
          BY <1>1
        <5> QED BY <3>2, <5>1
      <4>4. was.lines = <<Localhost>> /\ is.lines = <<Localhost, Printer>>
        BY <4>1, <4>2, <4>3 DEF Read
      <4>5. Append(<<Localhost>>, Printer) = <<Localhost, Printer>>
        <5>1. /\ <<Localhost>> \in Seq(Foreign) /\ <<Localhost, Printer>> \in Seq(Foreign)
              /\ Printer \in Foreign /\ Len(<<Localhost>>) = 1
          BY DEF Foreign
        <5> DEFINE a == Append(<<Localhost>>, Printer)
        <5>2. a \in Seq(Foreign) /\ Len(a) = 2 /\ a[1] = Localhost /\ a[2] = Printer
          BY <5>1, AppendProperties
        <5> HIDE DEF a
        <5>3. Len(a) = Len(<<Localhost, Printer>>)
              /\ \A m \in 1..Len(a) : a[m] = <<Localhost, Printer>>[m]
          BY <5>2
        <5>4. a = <<Localhost, Printer>>
          BY <5>1, <5>2, <5>3, SeqEqual
        <5> QED BY <5>4 DEF a
      <4> HIDE DEF was, is
      <4> QED BY <3>2, <4>4, <4>5
    <3> QED BY <1>5, <3>1, <3>2 DEF Foreign
  <2> QED BY <2>1, <2>2, <2>3 DEF Read
<1> QED BY <1>4, <1>5

\* What splice_block keeps is what stood outside of the block.
LEMMA KeptIsRead ==
  ASSUME NEW h, Shape(h), NEW b \in Nat, NEW e \in Nat, Marked(h, b, e)
  PROVE  \A i \in 0..Len(h) : KeptUpTo(h, i) = Read(h, i, b, e)
<1> DEFINE n == Len(h)
           T == {i \in 0..n : KeptUpTo(h, i) # Read(h, i, b, e)}
<1>1. n \in Nat /\ h \in Seq(HostLine(NodeLine))
  BY DEF Shape
<1>2. /\ KeptUpTo(h, 0) = NothingKept
      /\ \A i \in 1..n : KeptUpTo(h, i) = LineKept(KeptUpTo(h, i - 1), h[i])
  BY <1>1, FoldRuns
<1> SUFFICES ASSUME NEW j \in T PROVE FALSE
  OBVIOUS
<1>3. T \subseteq Nat /\ T \subseteq 0..n
  OBVIOUS
<1> HIDE DEF T
<1>4. PICK k \in T : \A m \in T : ~ (<<m, k>> \in OpToRel(<, Nat))
  BY ONLY <1>3, j \in T, NatLessThanWellFounded, WFMin
<1>5. k \in 0..n /\ KeptUpTo(h, k) # Read(h, k, b, e)
  BY DEF T
<1>6. CASE k = 0
  <2>1. Read(h, 0, b, e) = NothingKept
    <3>1. ~(b <= 0 /\ 0 < e)
      <4>1. (0 < b /\ b < e) \/ (b = 0 /\ e = 0)
        BY DEF Marked
      <4>2. ASSUME b <= 0, 0 < e PROVE FALSE
        BY <4>1, <4>2
      <4> QED BY <4>2
    <3> QED BY <3>1 DEF Read, NothingKept
  <2> QED BY <1>2, <1>5, <1>6, <2>1
<1>7. CASE k # 0
  <2>1. k \in 1..n /\ k - 1 \in 0..n /\ k - 1 < k /\ k - 1 \in Nat /\ k \in Nat
    BY <1>1, <1>5, <1>7
  <2>2. k - 1 \notin T
    <3>1. <<k - 1, k>> \in OpToRel(<, Nat)
      BY <2>1 DEF OpToRel
    <3> QED BY <1>4, <3>1
  <2>3. KeptUpTo(h, k - 1) = Read(h, k - 1, b, e)
    BY <2>1, <2>2 DEF T
  <2>4. LineKept(Read(h, k - 1, b, e), h[k]) = Read(h, k, b, e)
    BY <2>1, ReadStep
  <2> QED BY <1>2, <1>5, <2>1, <2>3, <2>4
<1> QED BY <1>6, <1>7
\* A block over lines of nodes, behind lines of others.
LEMMA BlockShape ==
  ASSUME NEW named \in SUBSET NodeLine, NEW body \in Seq(named),
         NEW kept \in {<<Localhost>>, <<Localhost, Printer>>}
  PROVE  /\ Shape(kept \o RenderBlock(body))
         /\ kept \o RenderBlock(body) \in Seq(HostLine(named))
<1> DEFINE lines == HostLine(named)
           block == RenderBlock(body)
           new == kept \o block
           k == Len(kept)
           m == Len(body)
<1>1. m \in Nat /\ \A i \in 1..m : body[i] \in named /\ body[i] \notin Foreign \cup {Begin, End}
  BY LineKinds
<1>2. block \in Seq(lines) /\ Len(block) = m + 2
  <2>1. <<Begin>> \in Seq(lines) /\ <<End>> \in Seq(lines) /\ body \in Seq(lines)
    BY DEF HostLine
  <2>2. <<Begin>> \o body \in Seq(lines) /\ Len(<<Begin>> \o body) = m + 1
    BY <1>1, <2>1, ConcatProperties
  <2> QED BY <1>1, <2>1, <2>2, ConcatProperties DEF RenderBlock
<1>3. block[1] = Begin /\ block[m + 2] = End /\ \A i \in 2..(m + 1) : block[i] \in named
  <2>1. <<Begin>> \in Seq(lines) /\ <<End>> \in Seq(lines) /\ body \in Seq(lines)
    BY DEF HostLine
  <2> DEFINE front == <<Begin>> \o body
  <2>2. /\ front \in Seq(lines) /\ Len(front) = m + 1
        /\ \A i \in 1..(m + 1) : front[i] = IF i <= 1 THEN Begin ELSE body[i - 1]
    BY <1>1, <2>1, ConcatProperties
  <2> HIDE DEF front
  <2>3. \A i \in 1..(m + 2) : (front \o <<End>>)[i] = IF i <= m + 1 THEN front[i] ELSE End
    BY <1>1, <2>1, <2>2, ConcatProperties
  <2>4. \A i \in 1..(m + 2) : block[i] = IF i <= m + 1 THEN front[i] ELSE End
    BY <2>3 DEF front, RenderBlock
  <2> HIDE DEF block
  <2>5. block[1] = Begin /\ block[m + 2] = End
    BY <1>1, <2>2, <2>4
  <2>6. ASSUME NEW i \in 2..(m + 1) PROVE block[i] \in named
    <3>1. i \in 1..(m + 2) /\ i \in 1..(m + 1) /\ i - 1 \in 1..m /\ ~(i <= 1) /\ i <= m + 1
      BY <1>1
    <3>2. block[i] = body[i - 1]
      BY <2>2, <2>4, <3>1
    <3> QED BY <1>1, <3>1, <3>2
  <2> QED BY <2>5, <2>6
<1>4. /\ kept \in Seq(lines) /\ k \in 1..2 /\ kept[1] = Localhost
      /\ k = 2 => kept[2] = Printer
  <2>1. Localhost \in lines /\ Printer \in lines
    BY DEF HostLine, Foreign
  <2> HIDE DEF lines
  <2>2. CASE kept = <<Localhost>>
    BY <2>1, <2>2
  <2>3. CASE kept = <<Localhost, Printer>>
    BY <2>1, <2>3
  <2> QED BY <2>2, <2>3
<1> HIDE DEF block, lines, m, k
<1>5. /\ new \in Seq(lines) /\ Len(new) = k + m + 2
      /\ \A i \in 1..(k + m + 2) : new[i] = IF i <= k THEN kept[i] ELSE block[i - k]
  <2>1. k = Len(kept)
    BY DEF k
  <2>2. Len(new) = k + (m + 2)
    BY <1>2, <1>4, <2>1, ConcatProperties
  <2>3. \A i \in 1..(k + (m + 2)) : new[i] = IF i <= k THEN kept[i] ELSE block[i - k]
    BY <1>2, <1>4, <2>1, ConcatProperties
  <2>4. new \in Seq(lines)
    BY <1>2, <1>4, ConcatProperties
  <2>5. k + (m + 2) = k + m + 2
    BY <1>1, <1>4
  <2> QED BY <2>2, <2>3, <2>4, <2>5
<1> HIDE DEF new
<1>6. /\ new[1] = Localhost
      /\ k = 2 => new[2] = Printer
      /\ new[k + 1] = Begin /\ new[k + m + 2] = End
      /\ \A i \in (k + 2)..(k + m + 1) : new[i] \in named
  <2>1. new[1] = Localhost /\ (k = 2 => new[2] = Printer)
    <3>1. 1 \in 1..(k + m + 2) /\ 1 <= k /\ 2 \in 1..(k + m + 2) /\ (k = 2 => 2 <= k)
      BY <1>1, <1>4
    <3> QED BY <1>4, <1>5, <3>1
  <2>2. new[k + 1] = Begin
    <3>1. k + 1 \in 1..(k + m + 2) /\ ~(k + 1 <= k) /\ (k + 1) - k = 1
      BY <1>1, <1>4
    <3> QED BY <1>3, <1>5, <3>1
  <2>3. new[k + m + 2] = End
    <3>1. k + m + 2 \in 1..(k + m + 2) /\ ~(k + m + 2 <= k) /\ (k + m + 2) - k = m + 2
      BY <1>1, <1>4
    <3> QED BY <1>3, <1>5, <3>1
  <2>4. ASSUME NEW i \in (k + 2)..(k + m + 1) PROVE new[i] \in named
    <3>1. i \in 1..(k + m + 2) /\ ~(i <= k) /\ i - k \in 2..(m + 1)
      BY <1>1, <1>4
    <3> QED BY <1>3, <1>5, <3>1
  <2> QED BY <2>1, <2>2, <2>3, <2>4
<1> DEFINE At(i) == \/ i = 1
                    \/ i = 2 /\ k = 2
                    \/ i = k + 1
                    \/ i \in (k + 2)..(k + m + 1)
                    \/ i = k + m + 2
<1>7. \A i \in 1..Len(new) : At(i)
  BY <1>1, <1>4, <1>5
<1>8. \A i \in (k + 2)..(k + m + 1) : new[i] \notin Foreign \cup {Begin, End}
  BY <1>6, LineKinds
<1>9. \A i \in 1..Len(new) : new[i] = Localhost <=> i = 1
  <2> SUFFICES ASSUME NEW i \in 1..Len(new) PROVE new[i] = Localhost <=> i = 1
    OBVIOUS
  <2> QED BY <1>1, <1>4, <1>6, <1>7, <1>8, LineKinds DEF Foreign
<1>10. \A i \in 1..Len(new) : new[i] = Printer => i = 2 /\ k = 2
  <2> SUFFICES ASSUME NEW i \in 1..Len(new) PROVE new[i] = Printer => i = 2 /\ k = 2
    OBVIOUS
  <2> QED BY <1>1, <1>4, <1>6, <1>7, <1>8, LineKinds DEF Foreign
<1>11. Marked(new, k + 1, k + m + 2)
  <2>1. k + 1 \in Nat /\ k + m + 2 \in 0..Len(new) /\ 0 < k + 1 /\ k + 1 < k + m + 2
    BY <1>1, <1>4, <1>5
  <2>2. ASSUME NEW i \in 1..Len(new)
        PROVE  /\ new[i] = Begin <=> i = k + 1
               /\ new[i] = End <=> i = k + m + 2
               /\ new[i] \in Foreign <=> i < k + 1 \/ k + m + 2 < i
    <3>1. CASE i = 1
      BY <1>1, <1>4, <1>6, <3>1, LineKinds DEF Foreign
    <3>2. CASE i = 2 /\ k = 2
      BY <1>1, <1>4, <1>6, <3>2, LineKinds DEF Foreign
    <3>3. CASE i = k + 1
      BY <1>1, <1>4, <1>6, <3>3, LineKinds DEF Foreign
    <3>4. CASE i \in (k + 2)..(k + m + 1)
      BY <1>1, <1>4, <1>8, <3>4
    <3>5. CASE i = k + m + 2
      BY <1>1, <1>4, <1>6, <3>5, LineKinds DEF Foreign
    <3> QED BY <1>7, <3>1, <3>2, <3>3, <3>4, <3>5
  <2> QED BY <2>1, <2>2 DEF Marked
<1>12. new \in Seq(HostLine(NodeLine))
  <2>1. lines \subseteq HostLine(NodeLine)
    BY DEF HostLine, lines
  <2> QED BY <1>5, <2>1, SeqMonotonic
<1>13. Shape(new)
  <2>1. Len(new) > 0 /\ k + 1 \in Nat /\ k + m + 2 \in Nat
    BY <1>1, <1>4, <1>5
  <2>2. \A i, j \in 1..Len(new) : new[i] = Printer /\ new[j] = Printer => i = j
    BY <1>10
  <2> QED BY <1>9, <1>11, <1>12, <2>1, <2>2 DEF Shape
<1> QED BY <1>5, <1>13 DEF new, block, lines

\* splice_block, whatever nodes the block names, and whatever named nodes before.
LEMMA SplicedShape ==
  ASSUME NEW h, Shape(h), NEW named \in SUBSET NodeLine, NEW body \in Seq(named)
  PROVE  LET new == Spliced(h, RenderBlock(body)) IN Shape(new) /\ new \in Seq(HostLine(named))
<1>1. h \in Seq(HostLine(NodeLine)) /\ Len(h) \in Nat /\ Len(h) > 0
  BY DEF Shape
<1>2. PICK b, e \in Nat : Marked(h, b, e)
  BY DEF Shape
<1> DEFINE kept == KeptUpTo(h, Len(h)).lines
<1>3. Len(h) \in 0..Len(h) /\ Len(h) # 0
  BY <1>1
<1>4. KeptUpTo(h, Len(h)) = Read(h, Len(h), b, e)
  BY <1>2, <1>3, KeptIsRead
<1>5. kept \in {<<Localhost>>, <<Localhost, Printer>>}
  BY <1>3, <1>4 DEF Read
<1>6. Spliced(h, RenderBlock(body)) = kept \o RenderBlock(body)
  BY <1>1, SplicedIs
<1> HIDE DEF kept
<1> QED BY <1>5, <1>6, BlockShape

\* Another program appends its line.
LEMMA EditedShape ==
  ASSUME NEW h, Shape(h), \A i \in 1..Len(h) : h[i] # Printer
  PROVE  LET new == Append(h, Printer)
         IN  /\ Shape(new) /\ Len(new) = Len(h) + 1
             /\ \A i \in 1..Len(h) : new[i] = h[i]
             /\ new[Len(h) + 1] = Printer
<1> DEFINE n == Len(h)
           new == Append(h, Printer)
<1>1. h \in Seq(HostLine(NodeLine)) /\ n \in Nat /\ n > 0 /\ Printer \in HostLine(NodeLine)
  BY DEF Shape, HostLine, Foreign
<1>2. /\ new \in Seq(HostLine(NodeLine)) /\ Len(new) = n + 1
      /\ \A i \in 1..n : new[i] = h[i]
      /\ new[n + 1] = Printer
  BY <1>1, AppendProperties
<1>3. PICK b, e \in Nat : Marked(h, b, e)
  BY DEF Shape
<1> HIDE DEF n, new
<1>4. n = Len(h)
  BY DEF n
<1>5. \A i \in 1..(n + 1) : i \in 1..n \/ i = n + 1
  BY <1>1
<1>6. \A i \in 1..(n + 1) : new[i] = Localhost <=> i = 1
  <2>1. ASSUME NEW i \in 1..n PROVE new[i] = Localhost <=> i = 1
    BY <1>2, <1>4 DEF Shape
  <2>2. new[n + 1] # Localhost /\ n + 1 # 1
    BY <1>1, <1>2, LineKinds
  <2> QED BY <1>5, <2>1, <2>2
<1>7. \A i \in 1..(n + 1) : new[i] = Printer => i = n + 1
  BY <1>2, <1>4, <1>5
<1>8. Marked(new, b, e)
  <2>1. /\ b \in Nat /\ e \in 0..n
        /\ (0 < b /\ b < e) \/ (b = 0 /\ e = 0)
    BY <1>3, <1>4 DEF Marked
  <2>2. e \in 0..(n + 1) /\ n + 1 # b /\ n + 1 # e /\ e < n + 1
    BY <1>1, <2>1
  <2>3. ASSUME NEW i \in 1..n
        PROVE  /\ new[i] = Begin <=> i = b
               /\ new[i] = End <=> i = e
               /\ new[i] \in Foreign <=> i < b \/ e < i
    BY <1>2, <1>3, <1>4 DEF Marked
  <2>4. new[n + 1] \in Foreign /\ new[n + 1] # Begin /\ new[n + 1] # End
    BY <1>2, LineKinds DEF Foreign
  <2>5. ASSUME NEW i \in 1..(n + 1)
        PROVE  /\ new[i] = Begin <=> i = b
               /\ new[i] = End <=> i = e
               /\ new[i] \in Foreign <=> i < b \/ e < i
    <3>1. CASE i \in 1..n
      BY <2>3, <3>1
    <3>2. CASE i = n + 1
      BY <2>2, <2>4, <3>2
    <3> QED BY <1>5, <3>1, <3>2
  <2> QED BY <1>2, <2>1, <2>2, <2>5 DEF Marked
<1>9. Shape(new)
  <2>1. Len(new) > 0
    BY <1>1, <1>2
  <2> QED BY <1>2, <1>6, <1>7, <1>8, <2>1 DEF Shape
<1> QED BY <1>2, <1>9 DEF n, new

\* One block at most, the line of the system once, and the other one at most once.
LEMMA ShapeCounts ==
  ASSUME Shape(hosts)
  PROVE  /\ Count(Begin) <= 1 /\ Count(End) = Count(Begin)
         /\ Count(Localhost) = 1 /\ Count(Printer) <= 1
<1> DEFINE n == Len(hosts)
           places(line) == {i \in 1..n : hosts[i] = line}
<1>1. hosts \in Seq(HostLine(NodeLine)) /\ n \in Nat /\ n > 0 /\ DOMAIN hosts = 1..n
  BY DEF Shape
<1>2. PICK b, e \in Nat : Marked(hosts, b, e)
  BY DEF Shape
<1>3. \A line : Count(line) = Cardinality(places(line))
  BY <1>1 DEF Count
<1>4. Cardinality({}) = 0 /\ \A x : Cardinality({x}) = 1
  BY FS_EmptySet, FS_Singleton
<1>5. (b = 0 /\ e = 0) \/ (b \in 1..n /\ e \in 1..n)
  BY <1>1, <1>2 DEF Marked
<1>6. Count(Begin) = (IF b = 0 THEN 0 ELSE 1) /\ Count(End) = (IF b = 0 THEN 0 ELSE 1)
  <2>1. \A i \in 1..n : (hosts[i] = Begin <=> i = b) /\ (hosts[i] = End <=> i = e)
    BY <1>2 DEF Marked
  <2>2. CASE b = 0 /\ e = 0
    <3>1. places(Begin) = {} /\ places(End) = {}
      BY <1>1, <2>1, <2>2
    <3> QED BY <1>3, <1>4, <2>2, <3>1
  <2>3. CASE b \in 1..n /\ e \in 1..n
    <3>1. places(Begin) = {b} /\ places(End) = {e}
      BY <2>1, <2>3
    <3>2. b # 0
      BY <2>3
    <3> QED BY <1>3, <1>4, <3>1, <3>2
  <2> QED BY <1>5, <2>2, <2>3
<1>7. Count(Localhost) = 1
  <2>1. places(Localhost) = {1}
    <3>1. 1 \in 1..n
      BY <1>1
    <3>2. \A i \in 1..n : hosts[i] = Localhost <=> i = 1
      BY DEF Shape
    <3> QED BY <3>1, <3>2
  <2> QED BY <1>3, <1>4, <2>1
<1>8. Count(Printer) = 0 \/ Count(Printer) = 1
  <2>1. CASE places(Printer) = {}
    BY <1>3, <1>4, <2>1
  <2>2. ASSUME NEW i \in places(Printer) PROVE Count(Printer) = 1
    <3>1. places(Printer) = {i}
      BY DEF Shape
    <3> QED BY <1>3, <1>4, <3>1
  <2> QED BY <2>1, <2>2
<1> QED BY <1>6, <1>7, <1>8

-----------------------------------------------------------------------------
(* The directory *)

EntryType == [ip : Address, age : Nat, stamp : Int]

DirectoryType(dir) ==
  DOMAIN dir \subseteq Peer /\ IsFiniteSet(DOMAIN dir) /\ \A p \in DOMAIN dir : dir[p] \in EntryType

\* An entry that is not expired is as old as the peer's absence, or older.
Dated(dir) ==
  \A p \in DOMAIN dir : dir[p].age <= Expiry => away[p][dir[p].ip] <= dir[p].age

NodesTypes ==
  /\ where \in [Peer -> Address \cup {Nowhere}]
  /\ clock \in [Peer -> Int]
  /\ away \in [Peer -> [Address -> Nat]]
  /\ unwritten \in Nat
  /\ DirectoryType(file)
  /\ DOMAIN heard \subseteq Peer /\ IsFiniteSet(DOMAIN heard)
  /\ \A p \in DOMAIN heard : heard[p] \in [ip : Address, stamp : Int]
  /\ phase # "asked" => DOMAIN heard = {}

\* A peer is not away from where it is; and no cycle passes while answers are open.
Present ==
  /\ \A p \in Peer : where[p] # Nowhere => away[p][where[p]] = 0
  /\ \A p \in DOMAIN heard : away[p][heard[p].ip] = 0

NamesFresh ==
  \A i \in 1..Len(hosts) :
    hosts[i] \in NodeLine /\ unwritten < 2 => away[hosts[i][2]][hosts[i][1]] <= Expiry + unwritten

NodesInv == NodesTypes /\ Present /\ Dated(file) /\ Shape(hosts) /\ NamesFresh

LEMMA EmptyDomain == DOMAIN <<>> = {}
<1>1. \A q \in Seq({}) : DOMAIN q = 1..Len(q)
  OBVIOUS
<1>2. <<>> \in Seq({}) /\ Len(<<>>) = 0 /\ 1..0 = {}
  OBVIOUS
<1> QED BY <1>1, <1>2

LEMMA SomeLines ==
  ASSUME NEW S, IsFiniteSet(S)
  PROVE  SetToSeq(S) \in Seq(S)
<1> DEFINE n == Cardinality(S)
<1>1. n \in Nat /\ ExistsBijection(1..n, S)
  BY FS_CardinalityType
<1>2. PICK f : f \in Bijection(1..n, S)
  BY <1>1 DEF ExistsBijection
<1>3. f \in [1..n -> S] /\ IsInjective(f)
  BY <1>2 DEF Bijection, Injection
<1>4. SetToSeq(S) \in [1..n -> S]
  BY <1>3 DEF SetToSeq
<1> HIDE DEF n
<1> QED BY <1>1, <1>4, IsASeq

\* Every line of the block names a peer at the address of its entry.
LEMMA LinesOfEntries ==
  ASSUME NEW dir, DirectoryType(dir)
  PROVE  LET named == {<<dir[p].ip, p>> : p \in DOMAIN dir}
         IN  named \in SUBSET NodeLine /\ HostLines(dir) \in Seq(named)
<1> DEFINE named == {<<dir[p].ip, p>> : p \in DOMAIN dir}
           line == [p \in DOMAIN dir |-> <<dir[p].ip, p>>]
<1>1. named \in SUBSET NodeLine
  BY DEF DirectoryType, EntryType, NodeLine
<1>2. line \in Surjection(DOMAIN dir, named)
  BY DEF Surjection
<1>3. IsFiniteSet(named)
  BY <1>2, FS_Surjection DEF DirectoryType
<1> HIDE DEF named
<1>4. SetToSeq(named) \in Seq(named)
  BY <1>3, SomeLines
<1>5. HostLines(dir) = SetToSeq(named)
  BY DEF HostLines, named
<1> QED BY <1>1, <1>4, <1>5 DEF named

LEMMA MergedIs ==
  ASSUME NodesTypes, Present, Dated(file)
  PROVE  DirectoryType(Merged) /\ Dated(Merged)
<1>1. DOMAIN Merged = DOMAIN file \cup DOMAIN heard
  BY DEF Merged
<1>2. DOMAIN Merged \subseteq Peer /\ IsFiniteSet(DOMAIN Merged)
  <2>1. /\ DOMAIN file \subseteq Peer /\ IsFiniteSet(DOMAIN file)
        /\ DOMAIN heard \subseteq Peer /\ IsFiniteSet(DOMAIN heard)
    BY DEF NodesTypes, DirectoryType
  <2>2. IsFiniteSet(DOMAIN file \cup DOMAIN heard)
    BY <2>1, FS_Union
  <2> QED BY <1>1, <2>1, <2>2
<1>3. ASSUME NEW p \in DOMAIN Merged
      PROVE  /\ Merged[p] \in EntryType
             /\ Merged[p].age <= Expiry => away[p][Merged[p].ip] <= Merged[p].age
  <2>1. CASE p \in DOMAIN heard /\ ~SignedEarlier(p)
    <3>1. Merged[p] = Entry(heard[p])
      BY <1>1, <2>1 DEF Merged
    <3>2. heard[p] \in [ip : Address, stamp : Int] /\ away[p][heard[p].ip] = 0
      BY <2>1 DEF NodesTypes, Present
    <3> QED BY <3>1, <3>2 DEF Entry, EntryType
  <2>2. CASE ~(p \in DOMAIN heard /\ ~SignedEarlier(p))
    <3>1. p \in DOMAIN file
      BY <1>1, <2>2 DEF SignedEarlier
    <3>2. Merged[p] = file[p]
      BY <1>1, <2>2 DEF Merged
    <3> QED BY <3>1, <3>2 DEF NodesTypes, DirectoryType, Dated
  <2> QED BY <2>1, <2>2
<1> QED BY <1>2, <1>3 DEF DirectoryType, Dated

LEMMA UnexpiredIs ==
  ASSUME NEW dir, DirectoryType(dir), Dated(dir)
  PROVE  /\ DirectoryType(Unexpired(dir)) /\ Dated(Unexpired(dir))
         /\ \A p \in DOMAIN Unexpired(dir) : away[p][Unexpired(dir)[p].ip] <= Unexpired(dir)[p].age
                                             /\ Unexpired(dir)[p].age <= Expiry
<1> DEFINE left == {q \in DOMAIN dir : dir[q].age <= Expiry}
<1>1. DOMAIN Unexpired(dir) = left /\ \A p \in left : Unexpired(dir)[p] = dir[p]
  BY DEF Unexpired
<1>2. left \in SUBSET DOMAIN dir
  OBVIOUS
<1>3. IsFiniteSet(left)
  BY <1>2, FS_Subset DEF DirectoryType
<1> QED BY <1>1, <1>2, <1>3 DEF DirectoryType, Dated

LEMMA ReconciledIs ==
  ASSUME NodesInv, NEW dir, DirectoryType(dir),
         \A p \in DOMAIN dir : away[p][dir[p].ip] <= dir[p].age /\ dir[p].age <= Expiry
  PROVE  /\ Shape(Reconciled(dir))
         /\ \A i \in 1..Len(Reconciled(dir)) :
              LET line == Reconciled(dir)[i]
              IN  line \in NodeLine => away[line[2]][line[1]] <= Expiry
<1> DEFINE named == {<<dir[p].ip, p>> : p \in DOMAIN dir}
           new == Reconciled(dir)
<1>1. named \in SUBSET NodeLine /\ HostLines(dir) \in Seq(named)
  BY LinesOfEntries
<1>2. Shape(new) /\ new \in Seq(HostLine(named))
  <2> HIDE DEF named
  <2>1. Shape(hosts)
    BY DEF NodesInv
  <2> QED BY <1>1, <2>1, SplicedShape DEF Reconciled
<1>3. ASSUME NEW i \in 1..Len(new), new[i] \in NodeLine
      PROVE  away[new[i][2]][new[i][1]] <= Expiry
  <2>1. new[i] \in named
    <3> HIDE DEF named, new
    <3>1. new[i] \in HostLine(named)
      BY <1>2
    <3> QED BY <1>3, <3>1, LineKinds DEF HostLine
  <2>2. PICK p \in DOMAIN dir : new[i] = <<dir[p].ip, p>>
    BY <2>1
  <2> HIDE DEF new
  <2>3. new[i][1] = dir[p].ip /\ new[i][2] = p
    BY <2>2
  <2>4. away[p][dir[p].ip] \in Nat /\ dir[p].age \in Nat
    BY DEF NodesInv, NodesTypes, DirectoryType, EntryType
  <2>5. away[p][dir[p].ip] <= Expiry
    BY <2>4, ExpiryAssumption
  <2> QED BY <2>3, <2>5
<1> QED BY <1>2, <1>3

-----------------------------------------------------------------------------
(* The steps *)

LEMMA InitNodesInv == NodesInit => NodesInv
<1> SUFFICES ASSUME NodesInit PROVE NodesInv
  OBVIOUS
<1>1. DOMAIN file = {} /\ DOMAIN heard = {} /\ IsFiniteSet({})
  BY EmptyDomain, FS_EmptySet DEF NodesInit
<1>2. NodesTypes
  <2>1. clock \in [Peer -> Int]
    <3>1. PICK c \in -MaxSkew..MaxSkew : clock = [p \in Peer |-> c]
      BY DEF NodesInit
    <3>2. c \in Int
      BY SkewAssumption
    <3> QED BY <3>1, <3>2
  <2>2. away \in [Peer -> [Address -> Nat]]
    BY ExpiryAssumption DEF NodesInit, Long
  <2>3. where \in [Peer -> Address \cup {Nowhere}] /\ unwritten \in Nat
    BY DEF NodesInit
  <2> QED BY <1>1, <2>1, <2>2, <2>3 DEF NodesTypes, DirectoryType
<1>3. Present /\ Dated(file)
  BY <1>1 DEF Present, Dated, NodesInit
<1>4. hosts = <<Localhost>> /\ Len(hosts) = 1 /\ hosts[1] = Localhost
  BY DEF NodesInit
<1>5. Shape(hosts)
  <2>1. hosts \in Seq(HostLine(NodeLine))
    BY <1>4 DEF HostLine, Foreign
  <2>2. Marked(hosts, 0, 0)
    BY <1>4, LineKinds DEF Marked, Foreign
  <2> QED BY <1>4, <2>1, <2>2, LineKinds DEF Shape
<1>6. NamesFresh
  BY <1>4, LineKinds DEF NamesFresh, Foreign
<1> QED BY <1>2, <1>3, <1>5, <1>6 DEF NodesInv

LEMMA AskInv ==
  ASSUME NodesInv, Ask PROVE NodesInv'
<1>1. /\ where' = where /\ clock' = clock /\ away' = away /\ unwritten' = unwritten
      /\ file' = file /\ hosts' = hosts /\ heard' = <<>>
  BY DEF Ask, peerVars
<1>2. DOMAIN heard' = {} /\ IsFiniteSet({})
  BY <1>1, EmptyDomain, FS_EmptySet
<1> QED BY <1>1, <1>2 DEF NodesInv, NodesTypes, Present, Dated, NamesFresh, DirectoryType

LEMMA HearInv ==
  ASSUME NodesInv, NEW p \in Peer, Hear(p) PROVE NodesInv'
<1> DEFINE answer == [ip |-> where[p], stamp |-> clock[p]]
<1>1. /\ where' = where /\ clock' = clock /\ away' = away /\ unwritten' = unwritten
      /\ file' = file /\ hosts' = hosts /\ phase' = phase /\ phase = "asked"
      /\ where[p] # Nowhere
  BY DEF Hear, peerVars
<1>2. /\ DOMAIN heard' = DOMAIN heard \cup {p}
      /\ heard'[p] = answer
      /\ \A q \in DOMAIN heard \ {p} : heard'[q] = heard[q]
  BY DEF Hear
<1>3. answer \in [ip : Address, stamp : Int] /\ away[p][answer.ip] = 0
  BY <1>1 DEF NodesInv, NodesTypes, Present
<1>4. IsFiniteSet(DOMAIN heard')
  <2>1. IsFiniteSet(DOMAIN heard)
    BY DEF NodesInv, NodesTypes
  <2>2. IsFiniteSet(DOMAIN heard \cup {p})
    BY <2>1, FS_AddElement
  <2> QED BY <1>2, <2>2
<1> HIDE DEF answer
<1>5. \A q \in DOMAIN heard' : heard'[q] \in [ip : Address, stamp : Int] /\ away[q][heard'[q].ip] = 0
  <2> SUFFICES ASSUME NEW q \in DOMAIN heard'
               PROVE  heard'[q] \in [ip : Address, stamp : Int] /\ away[q][heard'[q].ip] = 0
    OBVIOUS
  <2>1. CASE q = p
    BY <1>2, <1>3, <2>1
  <2>2. CASE q # p
    BY <1>2, <2>2 DEF NodesInv, NodesTypes, Present
  <2> QED BY <2>1, <2>2
<1>6. NodesTypes'
  <2>1. DOMAIN heard' \subseteq Peer
    BY <1>2 DEF NodesInv, NodesTypes
  <2> QED BY <1>1, <1>4, <1>5, <2>1 DEF NodesInv, NodesTypes, DirectoryType
<1>7. Present'
  BY <1>1, <1>5 DEF NodesInv, Present
<1>8. Dated(file)' /\ Shape(hosts)' /\ NamesFresh'
  BY <1>1 DEF NodesInv, Dated, NamesFresh
<1> QED BY <1>6, <1>7, <1>8 DEF NodesInv

LEMMA CloseInv ==
  ASSUME NodesInv, Close PROVE NodesInv'
<1> DEFINE dir == Unexpired(Merged)
<1>1. DirectoryType(Merged) /\ Dated(Merged)
  BY MergedIs DEF NodesInv
<1>2. /\ DirectoryType(dir) /\ Dated(dir)
      /\ \A p \in DOMAIN dir : away[p][dir[p].ip] <= dir[p].age /\ dir[p].age <= Expiry
  BY <1>1, UnexpiredIs
<1>3. /\ Shape(Reconciled(dir))
      /\ \A i \in 1..Len(Reconciled(dir)) :
           Reconciled(dir)[i] \in NodeLine
             => away[Reconciled(dir)[i][2]][Reconciled(dir)[i][1]] <= Expiry
  <2> HIDE DEF dir
  <2> QED BY <1>2, ReconciledIs
<1>4. /\ where' = where /\ clock' = clock /\ away' = away
      /\ heard' = <<>>
      /\ file' = dir \/ file' = file
      /\ \/ hosts' = Reconciled(dir) /\ unwritten' = 0
         \/ hosts' = hosts /\ unwritten' = unwritten
  BY DEF Close
<1> HIDE DEF dir
<1>5. DOMAIN heard' = {} /\ IsFiniteSet({})
  BY <1>4, EmptyDomain, FS_EmptySet
<1>6. DirectoryType(file') /\ Dated(file')
  BY <1>2, <1>4 DEF NodesInv, NodesTypes
<1>7. NodesTypes'
  <2>1. unwritten' \in Nat
    BY <1>4 DEF NodesInv, NodesTypes
  <2>2. DirectoryType(file)'
    BY <1>6 DEF DirectoryType
  <2> QED BY <1>4, <1>5, <2>1, <2>2 DEF NodesInv, NodesTypes
<1>8. Present' /\ Dated(file)'
  BY <1>4, <1>5, <1>6 DEF NodesInv, Present, Dated
<1>9. Shape(hosts)' /\ NamesFresh'
  <2>1. CASE hosts' = Reconciled(dir) /\ unwritten' = 0
    <3>1. Expiry + 0 = Expiry
      BY ExpiryAssumption
    <3> QED BY <1>3, <1>4, <2>1, <3>1 DEF NamesFresh
  <2>2. CASE hosts' = hosts /\ unwritten' = unwritten
    BY <1>4, <2>2 DEF NodesInv, NamesFresh
  <2> QED BY <1>4, <2>1, <2>2
<1> QED BY <1>7, <1>8, <1>9 DEF NodesInv

LEMMA AbsenceGrows ==
  ASSUME NodesInv, CyclePasses, NEW p \in Peer, NEW a \in Address
  PROVE  away'[p][a] \in Nat /\ away'[p][a] <= away[p][a] + 1
<1>1. away[p][a] \in Nat
  BY DEF NodesInv, NodesTypes
<1>2. away'[p][a] = IF where[p] = a THEN 0 ELSE Capped(away[p][a] + 1, Long)
  BY DEF CyclePasses
<1>3. Capped(away[p][a] + 1, Long) \in Nat /\ Capped(away[p][a] + 1, Long) <= away[p][a] + 1
  BY <1>1, ExpiryAssumption DEF Capped, Long
<1> QED BY <1>1, <1>2, <1>3

LEMMA CycleInv ==
  ASSUME NodesInv, CyclePasses PROVE NodesInv'
<1>1. /\ where' = where /\ clock' = clock /\ hosts' = hosts /\ heard' = heard
      /\ phase # "asked" /\ unwritten' = Capped(unwritten + 1, 2)
  BY DEF CyclePasses, peerVars
<1>2. DOMAIN heard = {}
  BY <1>1 DEF NodesInv, NodesTypes
<1>3. unwritten \in Nat /\ unwritten' \in Nat /\ (unwritten' < 2 => unwritten < 2 /\ unwritten' = unwritten + 1)
  BY <1>1 DEF NodesInv, NodesTypes, Capped
<1>4. /\ DOMAIN file' = DOMAIN file
      /\ \A p \in DOMAIN file :
           /\ file'[p] \in EntryType /\ file'[p].ip = file[p].ip
           /\ file'[p].age <= Expiry => file'[p].age = file[p].age + 1 /\ file[p].age <= Expiry
  <2>1. DOMAIN file' = DOMAIN file
    BY DEF CyclePasses
  <2>2. ASSUME NEW p \in DOMAIN file
        PROVE  /\ file'[p] \in EntryType /\ file'[p].ip = file[p].ip
               /\ file'[p].age <= Expiry => file'[p].age = file[p].age + 1 /\ file[p].age <= Expiry
    <3> DEFINE age == Capped(file[p].age + 1, Expiry + 1)
               stamp == IF file[p].stamp > -MaxSkew THEN file[p].stamp - 1 ELSE file[p].stamp
    <3>1. file'[p] = [file[p] EXCEPT !.age = age, !.stamp = stamp]
      BY DEF CyclePasses
    <3>2. file[p] \in EntryType
      BY DEF NodesInv, NodesTypes, DirectoryType
    <3>3. file[p].age \in Nat /\ file[p].stamp \in Int /\ file[p].ip \in Address
      BY <3>2 DEF EntryType
    <3>4. age \in Nat /\ (age <= Expiry => age = file[p].age + 1 /\ file[p].age <= Expiry)
      BY <3>3, ExpiryAssumption DEF Capped
    <3>5. stamp \in Int
      BY <3>3
    <3> HIDE DEF age, stamp
    <3>6. file'[p] \in EntryType /\ file'[p].ip = file[p].ip /\ file'[p].age = age
      BY <3>1, <3>2, <3>4, <3>5 DEF EntryType
    <3> QED BY <3>4, <3>6
  <2> QED BY <2>1, <2>2
<1>5. away' \in [Peer -> [Address -> Nat]]
  <2>1. \A p \in Peer : \A a \in Address : Capped(away[p][a] + 1, Long) \in Nat
    BY ExpiryAssumption DEF NodesInv, NodesTypes, Capped, Long
  <2> QED BY <2>1 DEF CyclePasses
<1>6. NodesTypes'
  BY <1>1, <1>2, <1>3, <1>4, <1>5 DEF NodesInv, NodesTypes, DirectoryType
<1>7. Present'
  <2>1. ASSUME NEW p \in Peer, where'[p] # Nowhere PROVE away'[p][where'[p]] = 0
    <3>1. where[p] \in Address
      BY <1>1, <2>1 DEF NodesInv, NodesTypes
    <3> QED BY <1>1, <3>1 DEF CyclePasses
  <2> QED BY <1>1, <1>2, <2>1 DEF Present
<1>8. Dated(file)'
  <2> SUFFICES ASSUME NEW p \in DOMAIN file', file'[p].age <= Expiry
               PROVE  away'[p][file'[p].ip] <= file'[p].age
    BY DEF Dated
  <2>1. /\ p \in DOMAIN file /\ p \in Peer /\ file[p].ip \in Address /\ file[p].age \in Nat
        /\ away[p][file[p].ip] \in Nat
    BY <1>4 DEF NodesInv, NodesTypes, DirectoryType, EntryType
  <2>2. file'[p].ip = file[p].ip /\ file'[p].age = file[p].age + 1 /\ file[p].age <= Expiry
    BY <1>4, <2>1
  <2>3. away[p][file[p].ip] <= file[p].age
    BY <2>1, <2>2 DEF NodesInv, Dated
  <2>4. away'[p][file[p].ip] \in Nat /\ away'[p][file[p].ip] <= away[p][file[p].ip] + 1
    BY <2>1, AbsenceGrows
  <2> QED BY <2>1, <2>2, <2>3, <2>4
<1>9. NamesFresh'
  <2> SUFFICES ASSUME NEW i \in 1..Len(hosts), hosts[i] \in NodeLine, unwritten' < 2
               PROVE  away'[hosts[i][2]][hosts[i][1]] <= Expiry + unwritten'
    BY <1>1 DEF NamesFresh
  <2>1. PICK a \in Address, p \in Peer : hosts[i] = <<a, p>>
    BY DEF NodeLine
  <2>2. hosts[i][1] = a /\ hosts[i][2] = p
    BY <2>1
  <2>3. away[p][a] \in Nat /\ away[p][a] <= Expiry + unwritten
    <3>1. away \in [Peer -> [Address -> Nat]] /\ NamesFresh
      BY DEF NodesInv, NodesTypes
    <3>2. away[p][a] \in Nat
      BY <3>1
    <3>3. unwritten < 2
      BY <1>3
    <3>4. away[hosts[i][2]][hosts[i][1]] <= Expiry + unwritten
      BY <3>1, <3>3 DEF NamesFresh
    <3> QED BY <2>2, <3>2, <3>4
  <2>4. away'[p][a] \in Nat /\ away'[p][a] <= away[p][a] + 1
    BY AbsenceGrows
  <2>5. away'[p][a] <= Expiry + unwritten'
    BY <1>3, <2>3, <2>4, ExpiryAssumption
  <2> QED BY <2>2, <2>5
<1>10. Shape(hosts)'
  BY <1>1 DEF NodesInv
<1> QED BY <1>6, <1>7, <1>8, <1>9, <1>10 DEF NodesInv

LEMMA StopInv ==
  ASSUME NodesInv, Stop PROVE NodesInv'
<1>1. /\ where' = where /\ clock' = clock /\ away' = away /\ unwritten' = unwritten
      /\ file' = file /\ hosts' = hosts /\ heard' = <<>>
  BY DEF Stop
<1>2. DOMAIN heard' = {} /\ IsFiniteSet({})
  BY <1>1, EmptyDomain, FS_EmptySet
<1> QED BY <1>1, <1>2 DEF NodesInv, NodesTypes, Present, Dated, NamesFresh, DirectoryType

\* Where a peer is now it has not been away from; every other absence stays.
LEMMA MoveInv ==
  ASSUME NodesInv, NEW p \in Peer, Move(p) PROVE NodesInv'
<1>1. /\ clock' = clock /\ unwritten' = unwritten /\ file' = file /\ hosts' = hosts
      /\ heard' = heard /\ phase' = phase
  BY DEF Move, loopVars
<1>2. PICK a \in (Address \cup {Nowhere}) \ {where[p]} :
        /\ where' = [where EXCEPT ![p] = a]
        /\ away' = IF a = Nowhere THEN away ELSE [away EXCEPT ![p][a] = 0]
  BY DEF Move
<1>3. /\ where \in [Peer -> Address \cup {Nowhere}] /\ away \in [Peer -> [Address -> Nat]]
      /\ where' \in [Peer -> Address \cup {Nowhere}] /\ away' \in [Peer -> [Address -> Nat]]
  BY <1>2 DEF NodesInv, NodesTypes
<1>4. \A q \in Peer : \A b \in Address : away'[q][b] = away[q][b] \/ away'[q][b] = 0
  <2>1. CASE a = Nowhere
    BY <1>2, <2>1
  <2>2. CASE a # Nowhere
    BY <1>2, <1>3, <2>2
  <2> QED BY <2>1, <2>2
<1>5. NodesTypes'
  BY <1>1, <1>3 DEF NodesInv, NodesTypes, DirectoryType
<1>6. Present'
  <2>1. ASSUME NEW q \in Peer, where'[q] # Nowhere PROVE away'[q][where'[q]] = 0
    <3>1. CASE q = p
      <4>1. where'[p] = a /\ a # Nowhere /\ a \in Address
        BY <1>2, <1>3, <2>1, <3>1
      <4> QED BY <1>2, <1>3, <3>1, <4>1
    <3>2. CASE q # p
      <4>1. where'[q] = where[q] /\ where[q] \in Address /\ away[q][where[q]] = 0
        BY <1>2, <1>3, <2>1, <3>2 DEF NodesInv, Present
      <4> QED BY <1>4, <4>1
    <3> QED BY <3>1, <3>2
  <2>2. ASSUME NEW q \in DOMAIN heard PROVE away'[q][heard[q].ip] = 0
    <3>1. q \in Peer /\ heard[q].ip \in Address /\ away[q][heard[q].ip] = 0
      BY DEF NodesInv, NodesTypes, Present
    <3> QED BY <1>4, <3>1
  <2> QED BY <1>1, <2>1, <2>2 DEF Present
<1>7. Dated(file)'
  <2> SUFFICES ASSUME NEW q \in DOMAIN file, file[q].age <= Expiry
               PROVE  away'[q][file[q].ip] <= file[q].age
    BY <1>1 DEF Dated
  <2>1. /\ q \in Peer /\ file[q].ip \in Address /\ file[q].age \in Nat
        /\ away[q][file[q].ip] <= file[q].age
    BY DEF NodesInv, NodesTypes, DirectoryType, EntryType, Dated
  <2>2. 0 <= file[q].age
    BY <2>1
  <2> QED BY <1>4, <2>1, <2>2
<1>8. NamesFresh'
  <2> SUFFICES ASSUME NEW i \in 1..Len(hosts), hosts[i] \in NodeLine, unwritten < 2
               PROVE  away'[hosts[i][2]][hosts[i][1]] <= Expiry + unwritten
    BY <1>1 DEF NamesFresh
  <2>1. PICK b \in Address, q \in Peer : hosts[i] = <<b, q>>
    BY DEF NodeLine
  <2>2. hosts[i][1] = b /\ hosts[i][2] = q
    BY <2>1
  <2>3. away[q][b] <= Expiry + unwritten
    BY <2>2 DEF NodesInv, NamesFresh
  <2>4. 0 <= Expiry + unwritten
    BY ExpiryAssumption DEF NodesInv, NodesTypes
  <2>5. away'[q][b] <= Expiry + unwritten
    BY <1>4, <2>3, <2>4
  <2> QED BY <2>2, <2>5
<1>9. Shape(hosts)'
  BY <1>1 DEF NodesInv
<1> QED BY <1>5, <1>6, <1>7, <1>8, <1>9 DEF NodesInv

LEMMA ResetInv ==
  ASSUME NodesInv, NEW p \in Peer, Reset(p) PROVE NodesInv'
<1>1. /\ where' = where /\ away' = away /\ unwritten' = unwritten /\ file' = file
      /\ hosts' = hosts /\ heard' = heard /\ phase' = phase
  BY DEF Reset, loopVars
<1>2. clock' \in [Peer -> Int]
  <2>1. PICK c \in -MaxSkew..MaxSkew : clock' = [clock EXCEPT ![p] = c]
    BY DEF Reset
  <2>2. c \in Int
    BY SkewAssumption
  <2> QED BY <2>1, <2>2 DEF NodesInv, NodesTypes
<1> QED BY <1>1, <1>2 DEF NodesInv, NodesTypes, Present, Dated, NamesFresh, DirectoryType

LEMMA EditInv ==
  ASSUME NodesInv, Edit PROVE NodesInv'
<1>1. /\ where' = where /\ clock' = clock /\ away' = away /\ unwritten' = unwritten
      /\ file' = file /\ heard' = heard /\ phase' = phase
      /\ hosts' = Append(hosts, Printer)
      /\ \A i \in DOMAIN hosts : hosts[i] # Printer
  BY DEF Edit, peerVars
<1>2. Shape(hosts) /\ DOMAIN hosts = 1..Len(hosts) /\ Len(hosts) \in Nat
  BY DEF NodesInv, Shape
<1>3. /\ Shape(hosts') /\ Len(hosts') = Len(hosts) + 1
      /\ \A i \in 1..Len(hosts) : hosts'[i] = hosts[i]
      /\ hosts'[Len(hosts) + 1] = Printer
  BY <1>1, <1>2, EditedShape
<1>4. NamesFresh'
  <2> SUFFICES ASSUME NEW i \in 1..Len(hosts'), hosts'[i] \in NodeLine, unwritten < 2
               PROVE  away[hosts'[i][2]][hosts'[i][1]] <= Expiry + unwritten
    BY <1>1 DEF NamesFresh
  <2>1. i # Len(hosts) + 1
    BY <1>3, LineKinds DEF Foreign
  <2>2. i \in 1..Len(hosts)
    BY <1>2, <1>3, <2>1
  <2> QED BY <1>3, <2>2 DEF NodesInv, NamesFresh
<1> QED BY <1>1, <1>3, <1>4 DEF NodesInv, NodesTypes, Present, Dated, DirectoryType

LEMMA NextNodesInv == NodesInv /\ [NodesNext]_directoryFileVars => NodesInv'
<1> SUFFICES ASSUME NodesInv, [NodesNext]_directoryFileVars PROVE NodesInv'
  OBVIOUS
<1>1. CASE Ask
  BY <1>1, AskInv
<1>2. CASE Close
  BY <1>2, CloseInv
<1>3. CASE CyclePasses
  BY <1>3, CycleInv
<1>4. CASE Stop
  BY <1>4, StopInv
<1>5. CASE Filter
  BY <1>5 DEF Filter, loopVars, NodesInv, NodesTypes, Present, Dated, NamesFresh, DirectoryType
<1>6. CASE Edit
  BY <1>6, EditInv
<1>7. ASSUME NEW p \in Peer, Hear(p) PROVE NodesInv'
  BY <1>7, HearInv
<1>8. ASSUME NEW p \in Peer, Move(p) PROVE NodesInv'
  BY <1>8, MoveInv
<1>9. ASSUME NEW p \in Peer, Reset(p) PROVE NodesInv'
  BY <1>9, ResetInv
<1>10. CASE UNCHANGED directoryFileVars
  BY <1>10 DEF directoryFileVars, peerVars, loopVars, NodesInv, NodesTypes, Present, Dated,
               NamesFresh, DirectoryType
<1> QED BY <1>1, <1>2, <1>3, <1>4, <1>5, <1>6, <1>7, <1>8, <1>9, <1>10 DEF NodesNext

LEMMA NodesInvSound == NodesInv => HostsFileSound
<1> SUFFICES ASSUME NodesInv PROVE HostsFileSound
  OBVIOUS
<1>1. Shape(hosts) /\ NamesFresh
  BY DEF NodesInv
<1>2. ASSUME NEW l \in Managed, unwritten < 2 PROVE away[l[2]][l[1]] <= Expiry + unwritten
  <2>1. PICK i \in DOMAIN hosts : hosts[i] = l
    BY DEF Managed, Lines
  <2>2. i \in 1..Len(hosts) /\ hosts[i] \in HostLine(NodeLine)
    BY <1>1 DEF Shape
  <2>3. l \in NodeLine
    BY <2>1, <2>2 DEF Managed, HostLine
  <2> QED BY <1>1, <1>2, <2>1, <2>2, <2>3 DEF NamesFresh
<1> QED BY <1>1, <1>2, ShapeCounts DEF HostsFileSound

\* Whatever is written into the hosts file and whichever writes fail, it has one
\* block, the lines of others once, and no peer at an address it left more than an
\* expiry before: reconcile_hosts_file after merge and expire.
THEOREM HostsFileSoundHolds == NodesSpec => []HostsFileSound
BY InitNodesInv, NextNodesInv, NodesInvSound, PTL DEF NodesSpec
===============================================================================
