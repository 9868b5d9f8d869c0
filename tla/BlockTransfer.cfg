SPECIFICATION FairSpec
CONSTANTS
    Size = 2
    Jobs <- Transfers
    FirstMid = 1
    MaxRequests = 6
    MaxRepeats = 3
    MaxPurges = 1
    None = None
CHECK_DEADLOCK FALSE
INVARIANTS TypeOK DownloadIsWhole UploadIsWhole HandlerRunsOnce
PROPERTY Answered
