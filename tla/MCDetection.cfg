SPECIFICATION Spec
CONSTANTS
    PostKinds <- AllKinds
    ReviewSources = {"playstore"}
    BaselineHours = 336
    WindowHours = 1
    Sizes = {1, 5}
    MaxBursts = 3
    MaxHour = 2
CHECK_DEADLOCK FALSE
INVARIANT TypeOK VolumeAlertsComeWithSpike NoHistoryNoLiveSpike RowsAreBacked
