SPECIFICATION Spec
CONSTANTS
    Candidates <- MCCandidates
    Payloads <- MCPayloads
    Tokens = {0, 8}
    MaxOptions = 2
INVARIANTS TypeOK RoundTrip OwnIsRead CutReadsAPrefix
CHECK_DEADLOCK FALSE
