---------------------------- MODULE HistoryExport -----------------------------
(***************************************************************************)
(* The optional export of rqlite's tasks, costs and audit rows to an       *)
(* external database.  Every hub runs the loop; nothing elects one of them. *)
(* A pass goes through the streams in order: it reads the stream's         *)
(* watermark, then a page of the rows above it, writes them to the target  *)
(* in one transaction, and then moves the watermark.  The exporter is made *)
(* anew for each pass, so the watermark in rqlite is all it goes by, and a *)
(* pass that fails or whose hub dies starts over.                          *)
(***************************************************************************)
EXTENDS Integers, Sequences, FiniteSets

CONSTANTS
  Hub,        \* hubs whose export loop runs against one target
  Order,      \* the streams, in the order of a pass
  Changing,   \* streams whose rows change after they were added (tasks)
  Batch,      \* the page size (500)
  MaxRows,    \* bound on the rows of a stream
  MaxFaults   \* bound on the failures

Stream == {Order[i] : i \in DOMAIN Order}

ASSUME OrderAssumption == Order \in Seq(Stream) /\ Len(Order) > 0
ASSUME BatchAssumption == Batch \in Nat \ {0}
ASSUME MaxRowsAssumption == MaxRows \in Nat
ASSUME MaxFaultsAssumption == MaxFaults \in Nat

VARIABLES
  source,     \* the rows of each stream in rqlite, by sequence number
  target,     \* the rows in the external database
  watermark,  \* history_export_watermarks
  late,       \* watermark commits whose answer was lost and that may yet apply
  pc,         \* where each hub's pass is
  at,         \* the stream it is at, as an index of Order
  after,      \* the watermark it read
  page,       \* the rows it read, by sequence number
  faults      \* failures so far

exportVars == <<source, target, watermark, late, pc, at, after, page, faults>>

Open == "open"      \* a row that may still change
Final == "final"
Missing == "missing"
Version == {Open, Final}
Rows == 1..MaxRows
Page == UNION {[S -> Version] : S \in SUBSET Rows}

\* Types; and no watermark or page is ahead of the rows there are.
ExportTypeOK ==
  /\ source \in [Stream -> Seq(Version)]
  /\ \A s \in Stream : Len(source[s]) <= MaxRows
  /\ target \in [Stream -> [Rows -> Version \cup {Missing}]]
  /\ watermark \in [Stream -> 0..MaxRows]
  /\ \A s \in Stream : watermark[s] <= Len(source[s])
  /\ late \subseteq Stream \X (0..MaxRows)
  /\ pc \in [Hub -> {"asleep", "watermark", "rows", "upsert", "commit"}]
  /\ at \in [Hub -> DOMAIN Order]
  /\ after \in [Hub -> 0..MaxRows]
  /\ page \in [Hub -> Page]
  /\ faults \in 0..MaxFaults

ExportInit ==
  /\ source = [s \in Stream |-> <<>>]
  /\ target = [s \in Stream |-> [i \in Rows |-> Missing]]
  /\ watermark = [s \in Stream |-> 0]
  /\ late = {}
  /\ pc = [h \in Hub |-> "asleep"]
  /\ at = [h \in Hub |-> 1]
  /\ after = [h \in Hub |-> 0]
  /\ page = [h \in Hub |-> <<>>]
  /\ faults = 0

-----------------------------------------------------------------------------
(* rqlite's rows *)

RowAdded(s) ==
  /\ Len(source[s]) < MaxRows
  /\ source' = [source EXCEPT ![s] = Append(@, IF s \in Changing THEN Open ELSE Final)]
  /\ UNCHANGED <<target, watermark, late, pc, at, after, page, faults>>

RowChanges(s, i) ==
  /\ source[s][i] = Open
  /\ source' = [source EXCEPT ![s][i] = Final]
  /\ UNCHANGED <<target, watermark, late, pc, at, after, page, faults>>

\* WHERE id > ? ORDER BY id LIMIT ?  Ids have no gaps.
Selected(s, n) == {i \in DOMAIN source[s] : n < i /\ i <= n + Batch}

\* ON CONFLICT(stream) DO UPDATE SET sequence = MAX(...)
Raised(s, n) == [watermark EXCEPT ![s] = IF n > @ THEN n ELSE @]

-----------------------------------------------------------------------------
(* HistoryExporter.tick and HubHistorySource *)

Current(h) == Order[at[h]]

\* Mutant: the first stream that is up to date ends the pass.
NextStream_Break(h) ==
  /\ UNCHANGED at
  /\ pc' = [pc EXCEPT ![h] = "asleep"]

NextStream(h) ==
  IF at[h] < Len(Order)
  THEN /\ at' = [at EXCEPT ![h] = @ + 1]
       /\ pc' = [pc EXCEPT ![h] = "watermark"]
  ELSE /\ UNCHANGED at
       /\ pc' = [pc EXCEPT ![h] = "asleep"]

\* export_once: the settings name a target, and its schema is there.
Wake(h) ==
  /\ pc[h] = "asleep"
  /\ at' = [at EXCEPT ![h] = 1]
  /\ pc' = [pc EXCEPT ![h] = "watermark"]
  /\ UNCHANGED <<source, target, watermark, late, after, page, faults>>

ReadWatermark(h) ==
  /\ pc[h] = "watermark"
  /\ after' = [after EXCEPT ![h] = watermark[Current(h)]]
  /\ pc' = [pc EXCEPT ![h] = "rows"]
  /\ UNCHANGED <<source, target, watermark, late, at, page, faults>>

FetchRows(h) ==
  LET wanted == Selected(Current(h), after[h]) IN
  /\ pc[h] = "rows"
  /\ page' = [page EXCEPT ![h] = [i \in wanted |-> source[Current(h)][i]]]
  /\ \/ wanted = {} /\ NextStream(h)
     \/ wanted # {} /\ pc' = [pc EXCEPT ![h] = "upsert"] /\ UNCHANGED at
  /\ UNCHANGED <<source, target, watermark, late, after, faults>>

Upserted(h) ==
  [target EXCEPT ![Current(h)] =
     [i \in Rows |-> IF i \in DOMAIN page[h] THEN page[h][i] ELSE @[i]]]

Upsert(h) ==
  /\ pc[h] = "upsert"
  /\ target' = Upserted(h)
  /\ pc' = [pc EXCEPT ![h] = "commit"]
  /\ UNCHANGED <<source, watermark, late, at, after, page, faults>>

\* The largest sequence number of the page.
Top(h) == CHOOSE n \in DOMAIN page[h] : \A m \in DOMAIN page[h] : m <= n

Commit(h) ==
  /\ pc[h] = "commit"
  /\ watermark' = Raised(Current(h), Top(h))
  /\ NextStream(h)
  /\ UNCHANGED <<source, target, late, after, page, faults>>

\* Mutant: the watermark is committed although the upsert failed.
OnTargetError_Commit(h) == pc' = [pc EXCEPT ![h] = "commit"]

OnTargetError(h) == pc' = [pc EXCEPT ![h] = "asleep"]

\* A call fails, with or without effect, or the hub dies and starts again.
Fail(h) ==
  /\ faults < MaxFaults
  /\ faults' = faults + 1
  /\ \/ /\ pc[h] \in {"watermark", "rows"}
        /\ pc' = [pc EXCEPT ![h] = "asleep"]
        /\ UNCHANGED <<target, late>>
     \/ /\ pc[h] = "upsert"
        /\ OnTargetError(h)
        /\ target' \in {target, Upserted(h)}
        /\ UNCHANGED late
     \/ /\ pc[h] = "commit"
        /\ pc' = [pc EXCEPT ![h] = "asleep"]
        /\ late' \in {late, late \cup {<<Current(h), Top(h)>>}}
        /\ UNCHANGED target
  /\ UNCHANGED <<source, watermark, at, after, page>>

\* A commit whose answer was lost reaches rqlite.
Land(c) ==
  /\ late' = late \ {c}
  /\ watermark' = Raised(c[1], c[2])
  /\ UNCHANGED <<source, target, pc, at, after, page, faults>>

Pass(h) == Wake(h) \/ ReadWatermark(h) \/ FetchRows(h) \/ Upsert(h) \/ Commit(h)

ExportNext ==
  \/ \E s \in Stream : RowAdded(s) \/ \E i \in DOMAIN source[s] : RowChanges(s, i)
  \/ \E h \in Hub : Pass(h) \/ Fail(h)
  \/ \E c \in late : Land(c)

\* The loop sleeps at most an hour and then makes another pass, for ever.
ExportSpec == ExportInit /\ [][ExportNext]_exportVars /\ \A h \in Hub : WF_exportVars(Pass(h))

-----------------------------------------------------------------------------
(* Properties *)

Archived(s, i) == target[s][i] # Missing

\* Nothing is skipped: a row at or below its stream's watermark, which no pass
\* reads again, is in the target, whichever hub wrote it and wherever passes
\* failed (history-sink.md: a watermark is committed only after the write).
NothingSkipped ==
  \A s \in Stream : \A i \in 1..watermark[s] : Archived(s, i)

\* The archive has no holes: it is a prefix of each stream.
ArchiveIsPrefix ==
  \A s \in Stream, i \in Rows : Archived(s, i) => \A j \in 1..i : Archived(s, j)

\* No pass, however old, moves a watermark back.
WatermarksOnlyRise ==
  [][\A s \in Stream : watermark'[s] >= watermark[s]]_exportVars

\* The archive catches up with the rows again and again, since the loop never
\* stops trying: every row is archived in the end.
EveryRowArchived ==
  []<>(\A s \in Stream : \A i \in DOMAIN source[s] : Archived(s, i))

\* What the archive is for: of a task that ended it comes to say so.  A row that
\* was exported while its task was queued is never read again.
EndArchived ==
  \A s \in Stream : \A i \in Rows :
    (i \in DOMAIN source[s] /\ source[s][i] = Final) ~> target[s][i] = Final
===============================================================================
