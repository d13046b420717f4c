CONSTANTS
    NullStatusValue = NullStatusValue
    NullStatus <- NullStatusValue
    Steps <- FillErc20OtcOrder
    CatchExits = TRUE
    Statuses <- MCStatuses
    AllowDrop = FALSE
SPECIFICATION FairSpec
INVARIANT TypeOK
INVARIANT SerializedSubmission
PROPERTY ReportAgreesWithSpinner
PROPERTY ProcessExits
PROPERTY LifecycleRefinement
INVARIANT RequestsThroughRunningEngine
