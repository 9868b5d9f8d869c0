SPECIFICATION FairSpec
CONSTANTS
    Clients = {"c", "d"}
    Tokens = {1, 2}
    Paths = {"/", "core", "a", "ab"}
    Root = "/"
    Discovery = "core"
    Requests <- MCRequests
    Messages <- MCMessages
    Saying <- MCSaying
    StartsWith <- MCStartsWith
    PathLength <- MCPathLength
    Ancestors <- MCAncestors
    Present = {"/", "a"}
    Managed = {"ab"}
    Observable = {"a"}
    AllowChildren = {"a"}
    PlainPost = {"a"}
    Outcomes = {"done", "silent", "kept", "wrong", "raise", "mismatch"}
    CountSpace = 65000
    Outbound <- MCOutbound
    Outgoing = Outgoing
    Nobody = Nobody
INVARIANTS TypeOK CancelledIsSilent EstablishedObservers ChangedMeansUntold
PROPERTIES NumberCoversChanges RequestsEnd
CHECK_DEADLOCK FALSE
