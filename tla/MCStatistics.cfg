SPECIFICATION FairSpec
CONSTANTS
    old = old
    new = new
    d1 = d1
    d2 = d2
    None = None
    Instances = {old, new}
    Days = {d1, d2}
    OldRequests = {1, 2}
    OldDay <- MCOldDay
    Qualified = {2, 3}
    Upgrades = {TRUE, FALSE}
    MaxRequest = 4
    MaxFaults = 1
    MaxKills = 1
    MaxResets = 1
INVARIANTS CountedOnce DiskKeepsItsPromise ResetIsABoundary RatesMeetCutoff
PROPERTIES DirtyDaysDrain
\* Every bound may be used up.
CHECK_DEADLOCK FALSE
