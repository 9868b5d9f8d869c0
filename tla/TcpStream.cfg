SPECIFICATION FairSpec
CONSTANTS
    s1 = s1
    s2 = s2
    c1 = c1
    srv = srv
    cli = cli
    Conns = {s1, s2, c1}
    Endpoints = {srv, cli}
    Listening = {srv}
    EndpointOf <- MCEndpointOf
    Addresses = {"here", "there"}
    Loads <- MCLoads
    Nobody = Nobody
INVARIANTS TypeOK InStep NothingIsLeft Reachable OneCsm
PROPERTIES StartEnds
CHECK_DEADLOCK FALSE
