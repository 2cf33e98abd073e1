--------------------------- MODULE MCProgramStore ---------------------------
(***************************************************************************)
(* What the configuration of ProgramStore leaves to be defined: one        *)
(* subscription to everything, and one to reports alone, which a deleted   *)
(* programme or event is announced to for its cascade only.                *)
(***************************************************************************)
EXTENDS ProgramStore

WatchAll     == {"program", "event", "report", "subscription"}
WatchReports == {"report"}
MCWatches    == {WatchAll, WatchReports}
=============================================================================
