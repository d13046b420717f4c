CONSTANTS
    f1 = f1
    f2 = f2
    Fills <- MCFills
    NoEvent = NoEvent
    MaxNotices = 2
    AllowReorg = TRUE
SPECIFICATION Spec
INVARIANT NoFillPrintedTwice
