SPECIFICATION FairSpec
CONSTANTS
    c1 = c1
    c2 = c2
    k1 = k1
    k2 = k2
    Clients = {c1, c2}
    Tokens = {k1, k2}
    Group = Group
    Nobody = Nobody
    MidSpace = 7
    FirstMid = 1
    Requests <- WithMulticast
    Copies = 2
    Outcomes = {"content"}
    Lifetime = 0
    MaxTime = 1
INVARIANTS AnswersOwnRequest
PROPERTIES ConfirmableIsAnswered LocksDrain
