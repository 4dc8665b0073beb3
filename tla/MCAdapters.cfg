SPECIFICATION Spec
CONSTANTS
    Keys <- AllKeys
    Cost <- Prices
    Async = {"r1", "r2", "y1", "v1", "v2"}
    Ceiling = 8
    MaxAttempts = 2
    MaxPolls = 2
    Searches <- SearchesOf
    Videos = {"v1", "v2"}
    Page <- PageOf
    Listing = "l1"
    Posts <- AllPosts
    VideoLimit = 2
    PageLimit = 3
CHECK_DEADLOCK FALSE
INVARIANT TypeOK BillIsHeldOrLost BillIsBracketed PaidForIsHandedOver PageDecides SilenceMeansComplete
PROPERTY FetchReturns
