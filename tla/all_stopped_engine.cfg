CONSTANTS
    NullStatusValue = NullStatusValue
    NullStatus <- NullStatusValue
    Steps <- AllScenarios
    CatchExits = TRUE
    Statuses <- MCStatusesOk
    AllowDrop = FALSE
SPECIFICATION FairSpec
INVARIANT RequestsThroughRunningEngine
