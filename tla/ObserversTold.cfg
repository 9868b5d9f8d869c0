SPECIFICATION Spec
CONSTANTS
    Clients = {"c", "d"}
    Tokens = {1, 2}
    Paths = {"/", "core", "a", "ab"}
    Root = "/"
    Discovery = "core"
    Requests <- MCRequests
    Messages <- MCMessages
    Saying <- MCSaying
    StartsWith <- MCStartsWith
    PathLength <- MCPathLength
    Ancestors <- MCAncestors
    Present = {"/", "a"}
    Managed = {"ab"}
    Observable = {"a"}
    AllowChildren = {"a"}
    PlainPost = {"a"}
    Outcomes = {"done"}
    CountSpace = 65000
    Outbound <- MCOutbound
    Outgoing = Outgoing
    Nobody = Nobody
INVARIANT ObserversAreTold
CHECK_DEADLOCK FALSE
