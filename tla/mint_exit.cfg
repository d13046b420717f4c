CONSTANTS
    NullStatusValue = NullStatusValue
    NullStatus <- NullStatusValue
    Steps <- MintTestZrx
    CatchExits = FALSE
    Statuses <- MCStatuses
    AllowDrop = FALSE
SPECIFICATION FairSpec
PROPERTY ProcessExits
