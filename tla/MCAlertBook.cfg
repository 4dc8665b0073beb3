SPECIFICATION Spec
CONSTANTS
    NoRun = NoRun
    Runs = {r1, r2}
    Keys = {crisis, spike}
    PageLimit = 1
    MaxFaults = 1
CHECK_DEADLOCK FALSE
SYMMETRY Symmetry
INVARIANT TypeOK BriefCitesRows UrgentAlertIsDrafted QuietFeedPassesNothing FirstPaintReceiptsComeFromTheCut
