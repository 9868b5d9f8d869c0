-------------------------- MODULE MCServerExchange --------------------------
(***************************************************************************)
(* Small instances of ServerExchange.  The sets of requests below decide   *)
(* which interesting case a run is about.                                  *)
(***************************************************************************)
EXTENDS ServerExchangeRefinement

CONSTANTS c1, c2, k1, k2

Request(src, mid, token, type) ==
    [src |-> src, mid |-> mid, token |-> token, type |-> type,
     multicast |-> FALSE]

\* A confirmable and a non-confirmable request of two clients that happen to
\* choose the same message ID, clear of those the server assigns, and token.
TwoKinds == {Request(c1, 5, k1, "CON"), Request(c2, 5, k1, "NON")}

\* One client uses a token again for its next request.
OneToken == {Request(c1, 5, k1, "CON"), Request(c1, 6, k1, "CON")}

\* A client that keeps to no rule: three of its requests use one token, and the
\* fourth bears the message ID that the server gives to the answer of the first.
Careless == {Request(c1, 5, k1, "NON"), Request(c1, 4, k1, "CON"),
             Request(c1, 3, k1, "CON"), Request(c1, 6, k2, "CON")}

\* A multicast request beside a unicast one.
WithMulticast == {[Request(c1, 5, k1, "NON") EXCEPT !.multicast = TRUE],
                  Request(c1, 5, k2, "CON")}
=============================================================================
