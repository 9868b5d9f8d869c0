SPECIFICATION Spec
CONSTANTS
    c1 = c1
    c2 = c2
    c3 = c3
    h1 = h1
    h2 = h2
    k1 = k1
    k2 = k2
    Hosts = {h1, h2}
    Local = local
    Tokens = {k1, k2}
    Calls = {c1}
    RequestOf <- OneCall
    Requests <- JustPoll
    MidSpace = 3
    FirstMid = 2
    Copies = 1
    Patience = 2
    Nobody = Nobody
CHECK_DEADLOCK FALSE
INVARIANT RepeatedWhileUnanswered
