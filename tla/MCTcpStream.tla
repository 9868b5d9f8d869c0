---------------------------- MODULE MCTcpStream ----------------------------
(* An instance of TcpStream for TLC. *)
EXTENDS TcpStream, TLC

CONSTANTS s1, s2, c1, srv, cli

MCEndpointOf == (s1 :> srv) @@ (s2 :> srv) @@ (c1 :> cli)

Message(kind, token, length, at) ==
    [kind |-> kind, token |-> token, length |-> length, at |-> at]

First(kind, token, length) == Message(kind, token, length, 0)

Second(f, kind, token, length) == Message(kind, token, length, End(f))

\* A load in which only c has something to say.
Only(c, said) == [d \in Conns |-> IF d = c THEN said ELSE <<>>]

Hello == First("csm", 0, 0)

\* A server and a client that are greeted, with a short and a longer message.
Greeted == (s1 :> <<Hello, Second(Hello, "plain", 1, 2)>>)
        @@ (s2 :> <<Hello>>)
        @@ (c1 :> <<Hello, Second(Hello, "csm", 0, 0)>>)

\* Messages that close a connection, and one before them.
Broken == (s1 :> <<First("plain", 0, 0), Second(First("plain", 0, 0), "bad", 0, 0)>>)
       @@ (s2 :> <<First("plain", 9, 0)>>)
       @@ (c1 :> <<First("bad", 0, 1), Second(First("bad", 0, 1), "csm", 0, 0)>>)

\* The lengths around the limits of the three shorter encodings.
Lengths == {<<First("plain", 8, 268)>>, <<First("plain", 8, 269)>>,
            <<First("plain", 1, 12), Second(First("plain", 1, 12), "plain", 0, 13)>>}

MCLoads == {Greeted, Broken} \cup {Only(s1, said) : said \in Lengths}

=============================================================================
