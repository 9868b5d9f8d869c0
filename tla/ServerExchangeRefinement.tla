---------------------- MODULE ServerExchangeRefinement ----------------------
(***************************************************************************)
(* ServerExchange seen as a RequestService.  The promise holds for clients *)
(* that keep to the rules the server relies on: no token is used twice,    *)
(* and message IDs are neither 0 nor among those the server assigns.       *)
(***************************************************************************)
EXTENDS ServerExchange, FiniteSets

\* The n-th message ID that fetch_mid hands out, counted from zero.
ServerMid(n) == (FirstMid + n) % MidSpace

\* What the server relies on: every request has a token of its own and, unless
\* it is multicast, a message ID of its own that is not 0 and that the server
\* does not come to in as many answers as there can be deliveries.
ClientsKeepRules ==
    /\ IsFiniteSet(Requests)
    /\ \A r, s \in Requests : TokenKey(r) = TokenKey(s) => r = s
    /\ \A r, s \in Requests :
          ~r.multicast /\ ~s.multicast /\ MidKey(r) = MidKey(s) => r = s
    /\ \A r \in Requests : ~r.multicast =>
          /\ r.mid # 0
          /\ \A n \in 0 .. (Cardinality(Task) - 1) : r.mid # ServerMid(n)

\* The transactions that have been made for a request, and in which life.
Made(x) == pc[x] # "idle" /\ tx[x] = x

Stage(x) ==
    IF resp[x].built THEN "ready"
    ELSE IF x \in handled THEN "working"
    ELSE "accepted"

Job(r, n) ==
    LET made == {x \in Task : x[1] = r /\ Made(x) /\ epoch[x] = n}
    IN  IF made = {} THEN "none" ELSE Stage(CHOOSE x \in made : TRUE)

Service == INSTANCE RequestService WITH
    Lives   <- Copies,
    known   <- {r \in Requests : Remembered(r)},
    life    <- drops,
    job     <- [r \in Requests |-> [n \in 0 .. Copies |-> Job(r, n)]],
    replied <- {r \in Requests : \E m \in sent : IsAnswer(m, r)}

\* The tables, locks and tasks of the server side implement a service that
\* runs a request once per life and sends only what is ready.
ImplementsService == Service!Spec

=============================================================================
