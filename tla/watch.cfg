SPECIFICATION WatchSpec
CONSTANTS
    r1 = r1
    r2 = r2
    p = p
    job = job
    page = page
    Runs <- AllRuns
    JobRuns <- RunsOfJob
    Watchers <- Clients
    RunOf <- AsksFor
    Silent <- StartFails
    Early <- ReadFirst
    Last = 3
    Limit = 2
    QueueMax = 1
    MaxLosses = 1
INVARIANTS CountIsExact NothingMissed
PROPERTY EndsAreTold
CHECK_DEADLOCK FALSE
