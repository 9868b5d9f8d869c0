--------------------------- MODULE MCClientExchange ---------------------------
(* Instances of ClientExchange for TLC. *)
EXTENDS ClientExchange, TLC

CONSTANTS c1, c2, c3, h1, h2, k1, k2

Asked(dest, token, type, answers) ==
    [dest |-> dest, token |-> token, type |-> type, answers |-> answers,
     multicast |-> FALSE]

\* A request that is answered by a piggybacked response or by a confirmable
\* one of its own, and one to every host at once.
Poll      == Asked(h1, k1, "CON", {"ACK", "CON"})
Discovery == [Asked(h1, k2, "NON", {"NON"}) EXCEPT !.multicast = TRUE]

\* A request to a group beside a request that is sent twice.
PollTwice == (c1 :> Discovery) @@ (c2 :> Poll) @@ (c3 :> Poll)

\* One call.
OneCall == c1 :> Poll

GroupAndPoll == {Discovery, Poll}
JustPoll     == {Poll}

=============================================================================
