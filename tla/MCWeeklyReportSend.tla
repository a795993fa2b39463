------------------------- MODULE MCWeeklyReportSend -------------------------
(* A small instance of sending weekly reports for TLC. *)
EXTENDS WeeklyReportSend, TLC

CONSTANTS monday
=============================================================================
