SPECIFICATION Spec
CONSTANTS
    NoRun = NoRun
    Invocations = {i1, i2}
    Kinds = {"scheduled", "on_demand"}
    DailyKinds = {"scheduled"}
    HoursPerDay = 2
    MaxHour = 1
    Sources = {reddit, news}
    FanOutCap = 2
    MaxFaults = 2
SYMMETRY Symmetry
CHECK_DEADLOCK FALSE
INVARIANT TypeOK OneUnforcedRunPerBucket OwnersShareTheRowId StatusMatchesSources RunningRowHasOwner
PROPERTY ImplementsRunBook
