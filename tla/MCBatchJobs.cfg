SPECIFICATION Spec
CONSTANTS
    Scheduler = {s1, s2}
    s1 = s1
    s2 = s2
    o1 = o1
    o2 = o2
    Operator = {o1, o2}
    Deployments <- MCDeployments
    hourly = hourly
    once = once
    cron = cron
    ghost = ghost
    Schedule = {hourly, once, cron, ghost}
    ManualKey = {m1}
    Frequency <- MCFrequency
    Cron <- MCCron
    Delta = 2
    Items = 1
    Unregistered = {ghost}
    MaxMinute = 2
    MaxFaults = 1
    None = None
INVARIANTS JobAccounts SoleSchedulerSpacing
PROPERTIES EndedJobStays DueScheduleRuns
CHECK_DEADLOCK FALSE
