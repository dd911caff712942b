---------------------------- MODULE MCBatchJobs ----------------------------
(* Installations of the batch system: see MCDeployments. *)
EXTENDS BatchJobs

CONSTANTS s1, s2, o1, o2, hourly, once, cron, ghost

\* One scheduler with each kind of schedule, two schedulers that race for one
\* schedule, and two operators.
MCDeployments ==
    {[sessions |-> {s1}, schedules |-> {hourly, once}],
     [sessions |-> {s1}, schedules |-> {cron, ghost}],
     [sessions |-> {s1, s2}, schedules |-> {once}],
     [sessions |-> {o1, o2}, schedules |-> {}]}

MCFrequency == [sc \in Schedule |-> IF sc = once THEN "ONCE" ELSE "HOURLY"]
MCCron == [sc \in Schedule |-> IF sc = cron THEN {1, 3} ELSE {}]
=============================================================================
