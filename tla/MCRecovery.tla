----------------------------- MODULE MCRecovery -----------------------------
(* Recovery with two operations and a short log.                             *)
EXTENDS Recovery, TLC

CONSTANTS o1, o2

\* The process may crash whenever it runs.
AllCrashPhases == Phases \ {"down"}

\* ... or only while it serves.
OnlyServing == {"serving"}
=============================================================================
