SPECIFICATION Spec
CONSTANTS
    c1 = c1
    c2 = c2
    k1 = k1
    k2 = k2
    Clients = {c1, c2}
    Tokens = {k1, k2}
    Group = Group
    Nobody = Nobody
    MidSpace = 7
    FirstMid = 6
    Requests <- TwoKinds
    Copies = 2
    Outcomes = {"content", "missing", "raise"}
    Lifetime = 0
    MaxTime = 1
INVARIANTS TypeOK ExecutedOnce CompletedIsAcknowledged
PROPERTIES ImplementsService
