SPECIFICATION Spec
CONSTANTS
    NoRun = NoRun
    Runs = {r1, r2}
    Keys = {crisis, spike}
    PageLimit = 2
    MaxFaults = 0
CHECK_DEADLOCK FALSE
INVARIANT FeedMissesNothing
