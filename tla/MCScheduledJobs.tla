--------------------------- MODULE MCScheduledJobs ---------------------------
(* Instances of ScheduledJobs for TLC. *)
EXTENDS ScheduledJobs

CONSTANTS j1, j2, r1, r2, o1

\* "every" is an interval or a cron expression that always has a next time within
\* a year; "leap" one with a single time, after which next_cron_run finds none.
Timetable(s, t) == IF s = "every" THEN t + 1 ELSE IF t < 1 THEN 1 ELSE 0
=============================================================================
