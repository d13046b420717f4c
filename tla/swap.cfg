CONSTANTS
    NullStatusValue = NullStatusValue
    NullStatus <- NullStatusValue
    Steps <- Fill0xApiSwap
    CatchExits = TRUE
    Statuses <- MCStatuses
    AllowDrop = FALSE
SPECIFICATION FairSpec
INVARIANT TypeOK
INVARIANT SerializedSubmission
PROPERTY ReportAgreesWithSpinner
PROPERTY ProcessExits
PROPERTY AwaitSettles
