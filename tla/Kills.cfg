SPECIFICATION KillsSpec
CONSTANTS
    Builds = {b1, b2}
    DevLocks = {d1, d2}
    Rewritten = rewritten
    NoLock = nolock
    Nobody = nobody
    MaxRuns = 3
    MaxKills = 2
    EditsAfterKill = FALSE
    LockKinds = {"flock", "sentinel"}
    Updaters = {u1}
    MaxVersion = 2
    Absent = absent
    Partial = partial
    MaxFaults = 2
    MaxUpdateKills = 2
CHECK_DEADLOCK FALSE
INVARIANTS DeveloperLockKept BinariesKept
PROPERTIES EndsWhole WaitEnds
