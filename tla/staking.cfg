CONSTANTS
    NullStatusValue = NullStatusValue
    NullStatus <- NullStatusValue
    Steps <- CreateStakingPool
    CatchExits = TRUE
    Statuses <- MCStatuses
    AllowDrop = FALSE
SPECIFICATION FairSpec
INVARIANT TypeOK
PROPERTY ProcessExits
