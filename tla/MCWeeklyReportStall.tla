------------------------- MODULE MCWeeklyReportStall ------------------------
(* A small instance of the stall sweep for TLC. *)
EXTENDS WeeklyReportStall, TLC

CONSTANTS monday, s1, s2
=============================================================================
