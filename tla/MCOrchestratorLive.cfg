SPECIFICATION FairSpec
CONSTANTS
    NoRun = NoRun
    Invocations = {i1, i2}
    Kinds = {"scheduled"}
    DailyKinds = {"scheduled"}
    HoursPerDay = 1
    MaxHour = 0
    Sources = {reddit}
    FanOutCap = 1
    MaxFaults = 2
CHECK_DEADLOCK FALSE
PROPERTY EveryTriggerSettles ClaimedRunCloses
