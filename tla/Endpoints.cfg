SPECIFICATION FairSpec
CONSTANTS
    MaxEndpoints = 2
    MaxMessages = 1
    Hosts = {a, b}
    Ports <- MCPorts
    MulticastPort = 2
    Ephemeral <- MCEphemeral
    None = None
    MaxSends = 2
    MaxErrors = 2
INVARIANTS TypeOK AnswersGoHome NamesItsSocket FiledListens
PROPERTIES SendersProceed
CHECK_DEADLOCK FALSE
