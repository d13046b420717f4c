CONSTANTS
    NullStatusValue = NullStatusValue
    NullStatus <- NullStatusValue
    Steps <- FillErc20OtcOrder
    CatchExits = TRUE
    Statuses <- MCStatuses
    AllowDrop = TRUE
SPECIFICATION FairSpec
PROPERTY AwaitSettles
