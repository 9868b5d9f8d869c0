SPECIFICATION Spec
CONSTANTS
    c1 = c1
    c2 = c2
    k1 = k1
    k2 = k2
    Clients = {c1, c2}
    Tokens = {k1, k2}
    Group = Group
    Nobody = Nobody
    MidSpace = 7
    FirstMid = 1
    Requests <- OneToken
    Copies = 1
    Outcomes = {"content"}
    Lifetime = 1
    MaxTime = 0
INVARIANT AnswersOwnRequest
