--------------------------- MODULE MCHistoryExport ---------------------------
(***************************************************************************)
(* The history export of two hubs into one target, for TLC.                *)
(***************************************************************************)
EXTENDS HistoryExport

\* Cost and audit rows never change: one of them stands for both.
TasksThenAudit == <<"tasks", "audit">>
==============================================================================
