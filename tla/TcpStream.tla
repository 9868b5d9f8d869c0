------------------------------ MODULE TcpStream ------------------------------
(***************************************************************************)
(* CoAP over TCP: CoapTcpProtocol cuts the bytes of a connection into      *)
(* messages, the endpoint keeps its connections in a pool by the remote    *)
(* address and waits for a CSM, the first message of RFC 8323.  What peers *)
(* send is external.  A message is its place in the stream, its length and *)
(* what becomes of it: only a CSM and what cannot be parsed matter to the  *)
(* connection, and everything else becomes a task, as over UDP.            *)
(***************************************************************************)
EXTENDS Naturals, Sequences

CONSTANTS
    Conns,       \* TCP connections, each a CoapTcpProtocol
    Endpoints,
    Listening,   \* the endpoints that are servers
    EndpointOf,
    Addresses,   \* of remote sides
    Loads,       \* what the peers of all connections may send
    Nobody

\* A message as a peer writes it: where its bytes begin, its token's length and
\* the length of its options and payload.
Frame == [kind: {"plain", "csm", "bad"}, token: 0 .. 15, length: Nat, at: Nat]

Clients == Endpoints \ Listening

-----------------------------------------------------------------------------
(* The length of a message: SerializerTcp and _extract_message_size *)

\* The first nibble of a message of length l and the bytes that extend it.
Encoded(l) ==
    CASE l < 13                   -> [nibble |-> l, extended |-> 0, bytes |-> 0]
      [] l >= 13 /\ l < 269       -> [nibble |-> 13, extended |-> l - 13, bytes |-> 1]
      [] l >= 269 /\ l < 65805    -> [nibble |-> 14, extended |-> l - 269, bytes |-> 2]
      [] OTHER                    -> [nibble |-> 15, extended |-> l - 65805, bytes |-> 4]

\* What serialize writes: nibbles, extension, code, token, and the rest.
WireSize(f) == 1 + Encoded(f.length).bytes + 1 + f.token + f.length

End(f) == f.at + WireSize(f)

\* Mutants of the two below.
\* Every extension is one byte.
MutantExtensionLength(nibble) == IF nibble < 13 THEN 0 ELSE 1

\* The second nibble's offset is one less.
MutantExtensionOffset(nibble) ==
    CASE nibble < 13 -> 0 [] nibble = 13 -> 12 [] nibble = 14 -> 269 [] OTHER -> 65805

ExtensionLength(nibble) ==
    CASE nibble < 13 -> 0 [] nibble = 13 -> 1 [] nibble = 14 -> 2 [] OTHER -> 4

ExtensionOffset(nibble) ==
    CASE nibble < 13 -> 0 [] nibble = 13 -> 13 [] nibble = 14 -> 269 [] OTHER -> 65805

\* What the reader makes of the head of a message.
ReadSize(f) ==
    LET head == Encoded(f.length)
        length == IF head.nibble < 13 THEN head.nibble
                  ELSE head.extended + ExtensionOffset(head.nibble)
    IN  2 + ExtensionLength(head.nibble) + f.token + length

\* The size of the message a spool begins with can be read.
SizeKnown(f, spooled) == spooled >= 1 + ExtensionLength(Encoded(f.length).nibble)

-----------------------------------------------------------------------------

ASSUME TcpAssumption ==
    /\ Listening \subseteq Endpoints
    /\ EndpointOf \in [Conns -> Endpoints]
    /\ Loads \subseteq [Conns -> Seq(Frame)]
    /\ \A load \in Loads : \A c \in Conns : \A k \in DOMAIN load[c] :
          load[c][k].at = IF k = 1 THEN 0 ELSE End(load[c][k - 1])
    /\ \A c, d \in Conns : c # d /\ EndpointOf[c] = EndpointOf[d] =>
          EndpointOf[c] \in Listening
    /\ Nobody \notin Conns

VARIABLES
    traffic,    \* what the peers send
    remote,     \* CoapTcpProtocol.remote_address
    status,     \* of each connection
    received,   \* how many bytes data_received has been given
    taken,      \* how many of them have left _spool
    delivered,  \* how many messages have been taken out of it
    nagled,     \* history: connections that were given two messages at once
    pool,       \* Endpoint.pool: the connection each address is reached by
    csm,        \* the future Endpoint.csm
    start       \* where start_client of each client endpoint is

stream == <<received, taken, delivered, nagled>>
vars == <<traffic, remote, status, stream, pool, csm, start>>

Init ==
    /\ traffic \in Loads
    /\ remote \in [Conns -> Addresses]
    /\ status = [c \in Conns |-> "none"]
    /\ received = [c \in Conns |-> 0]
    /\ taken = [c \in Conns |-> 0]
    /\ delivered = [c \in Conns |-> 0]
    /\ nagled = {}
    /\ pool = [e \in Endpoints |-> [a \in Addresses |-> Nobody]]
    /\ csm = [e \in Endpoints |-> "pending"]
    /\ start = [e \in Clients |-> "idle"]

Length(c) == IF traffic[c] = <<>> THEN 0 ELSE End(traffic[c][Len(traffic[c])])

-----------------------------------------------------------------------------
(* Mutants: the forms plausible bugs would give the definitions below *)

\* A message that fills the spool waits for one byte more.
MutantComplete(f, spooled) == SizeKnown(f, spooled) /\ ReadSize(f) < spooled

\* A message is taken as soon as its size is known.
MutantHasty(f, spooled) == SizeKnown(f, spooled)

\* A connection that is lost stays in the pool.
MutantLeft(c) == pool

\* A later CSM replaces the earlier one.
MutantRefuses(c) == FALSE

\* The wait for the CSM has no end when the connection is lost.
MutantImpatient(e) ==
    \E c \in Conns : EndpointOf[c] = e /\ status[c] \in {"open", "closing"}

-----------------------------------------------------------------------------
(* CoapTcpProtocol *)

Entered(c) == [pool EXCEPT ![EndpointOf[c]] = [@ EXCEPT ![remote[c]] = c]]

\* A connection of a listening endpoint, or the one that start_client makes.  One
\* whose peer has nothing to say is left out.
ConnectionMade(c) ==
    LET e == EndpointOf[c] IN
    /\ status[c] = "none" /\ traffic[c] # <<>>
    /\ IF e \in Listening THEN start' = start
       ELSE start[e] = "idle" /\ start' = [start EXCEPT ![e] = "waiting"]
    /\ status' = [status EXCEPT ![c] = "open"]
    /\ pool' = Entered(c)
    /\ UNCHANGED <<traffic, remote, stream, csm>>

Complete(f, spooled) == SizeKnown(f, spooled) /\ ReadSize(f) <= spooled

\* Endpoint.csm has a result already, and may be no future any more.
Refuses(c) == csm[EndpointOf[c]] # "pending"

\* An exception of data_received makes asyncio close the connection.
Fail(c) == status' = [status EXCEPT ![c] = "closing"]

\* deserialize cannot raise the exception it means for a long token; the message
\* stays in the spool.
Take(c, f) ==
    \/ /\ f.token > 8
       /\ Fail(c)
       /\ UNCHANGED <<taken, delivered, csm>>
    \/ /\ f.token <= 8
       /\ taken' = [taken EXCEPT ![c] = @ + ReadSize(f)]
       /\ delivered' = [delivered EXCEPT ![c] = @ + 1]
       /\ \/ f.kind = "plain" /\ UNCHANGED <<status, csm>>
          \/ f.kind = "bad" /\ Fail(c) /\ UNCHANGED csm
          \/ /\ f.kind = "csm" /\ Refuses(c)
             /\ Fail(c)
             /\ UNCHANGED csm
          \/ /\ f.kind = "csm" /\ ~Refuses(c)
             /\ csm' = [csm EXCEPT ![EndpointOf[c]] = "set"]
             /\ UNCHANGED status

\* The messages whose last byte is among the bytes from m to n.
Ending(c, m, n) ==
    {k \in DOMAIN traffic[c] : m < End(traffic[c][k]) /\ End(traffic[c][k]) <= n}

\* The bytes up to n come.  The loop of data_received takes one message out of
\* the spool and returns.
DataReceived(c, n) ==
    LET k == delivered[c] + 1
        f == traffic[c][k]
        spooled == n - taken[c]
        waiting == k \in DOMAIN traffic[c] /\ Complete(f, spooled)
    IN  /\ status[c] = "open"
        /\ received' = [received EXCEPT ![c] = n]
        /\ nagled' = IF \E j, l \in Ending(c, received[c], n) : j # l
                     THEN nagled \cup {c} ELSE nagled
        /\ \/ waiting /\ Take(c, f)
           \/ ~waiting /\ UNCHANGED <<status, taken, delivered, csm>>
        /\ UNCHANGED <<traffic, remote, pool, start>>

Left(c) == [pool EXCEPT ![EndpointOf[c]] = [@ EXCEPT ![remote[c]] = Nobody]]

\* The peer has closed the connection, it broke, or it was being closed.
ConnectionLost(c) ==
    /\ status[c] \in {"open", "closing"}
    /\ status' = [status EXCEPT ![c] = "lost"]
    /\ pool' = Left(c)
    /\ UNCHANGED <<traffic, remote, stream, csm, start>>

-----------------------------------------------------------------------------
(* TcpCoapEndpoint *)

\* wait_for returns the CSM.
Resume(e) ==
    /\ start[e] = "waiting" /\ csm[e] = "set"
    /\ start' = [start EXCEPT ![e] = "started"]
    /\ UNCHANGED <<traffic, remote, status, stream, pool, csm>>

Impatient(e) == TRUE

\* Thirty seconds have passed: wait_for cancels the future, and the connection
\* stays.
TimeOut(e) ==
    /\ start[e] = "waiting" /\ csm[e] = "pending"
    /\ Impatient(e)
    /\ start' = [start EXCEPT ![e] = "failed"]
    /\ csm' = [csm EXCEPT ![e] = "cancelled"]
    /\ UNCHANGED <<traffic, remote, status, stream, pool>>

\* What close of an endpoint closes: a client's own connection, or all that a
\* server has in its pool.  A client that has not started has no close to call.
Closes(e) ==
    IF e \in Listening THEN {c \in Conns : pool[e][remote[c]] = c}
    ELSE {c \in Conns : EndpointOf[c] = e /\ start[e] = "started"}

\* A server empties its pool; a client looks in its pool for its own address,
\* which is not there.
Close(e) ==
    /\ \E c \in Closes(e) : status[c] = "open"
    /\ status' = [c \in Conns |-> IF c \in Closes(e) /\ status[c] = "open"
                                  THEN "closing" ELSE status[c]]
    /\ pool' = IF e \in Listening
               THEN [pool EXCEPT ![e] = [a \in Addresses |-> Nobody]] ELSE pool
    /\ UNCHANGED <<traffic, remote, stream, csm, start>>

Next ==
    \/ \E c \in Conns :
          \/ ConnectionMade(c) \/ ConnectionLost(c)
          \/ \E n \in (received[c] + 1) .. Length(c) : DataReceived(c, n)
    \/ \E e \in Clients : Resume(e) \/ TimeOut(e)
    \/ \E e \in Endpoints : Close(e)

Spec == Init /\ [][Next]_vars

\* The event loop runs what wait_for leaves to it and its clock goes on.
FairSpec == Spec /\ \A e \in Clients : WF_vars(Resume(e) \/ TimeOut(e))

-----------------------------------------------------------------------------
(* Properties *)

\* Every variable keeps its type, and no more leaves a spool than has come.
TypeOK ==
    /\ traffic \in Loads /\ remote \in [Conns -> Addresses]
    /\ status \in [Conns -> {"none", "open", "closing", "lost"}]
    /\ received \in [Conns -> Nat] /\ taken \in [Conns -> Nat]
    /\ delivered \in [Conns -> Nat]
    /\ \A c \in Conns : taken[c] <= received[c] /\ delivered[c] <= Len(traffic[c])
    /\ nagled \subseteq Conns
    /\ pool \in [Endpoints -> [Addresses -> Conns \cup {Nobody}]]
    /\ csm \in [Endpoints -> {"pending", "set", "cancelled"}]
    /\ start \in [Clients -> {"idle", "waiting", "started", "failed"}]

\* However the stream is cut, the spool begins where a message begins.
InStep ==
    \A c \in Conns :
        taken[c] = IF delivered[c] = 0 THEN 0 ELSE End(traffic[c][delivered[c]])

\* As long as no call has brought the ends of two messages, none that has come
\* whole is left in the spool of an open connection.
NothingIsLeft ==
    \A c \in Conns \ nagled :
        status[c] = "open" /\ delivered[c] < Len(traffic[c]) =>
            received[c] < End(traffic[c][delivered[c] + 1])

\* Nobody else has had c's address at its endpoint.
Alone(c) ==
    \A d \in Conns : d # c /\ EndpointOf[d] = EndpointOf[c] /\ remote[d] = remote[c]
                        => status[d] = "none"

\* What is sent to an address reaches a connection that is not gone, and an
\* open connection is reached unless another of its address has been made.
Reachable ==
    /\ \A e \in Endpoints, a \in Addresses : LET c == pool[e][a] IN
          c # Nobody => /\ EndpointOf[c] = e /\ remote[c] = a
                        /\ status[c] \in {"open", "closing"}
    /\ \A c \in Conns : status[c] = "open" /\ Alone(c) =>
          pool[EndpointOf[c]][remote[c]] = c

\* The k-th message of c was a CSM.
Greets(c, k) == traffic[c][k].kind = "csm"

\* An endpoint has the CSM of a connection, and only one: every further CSM, of
\* that connection or of another, has cost its sender the connection.
OneCsm ==
    /\ \A e \in Endpoints : csm[e] = "set" =>
          \E c \in Conns : EndpointOf[c] = e /\ \E k \in 1 .. delivered[c] : Greets(c, k)
    /\ \A c, d \in Conns : \A j \in 1 .. delivered[c], k \in 1 .. delivered[d] :
          /\ Greets(c, j) /\ status[c] = "open"
          /\ Greets(d, k) /\ status[d] = "open"
          /\ EndpointOf[c] = EndpointOf[d]
          => c = d /\ j = k

\* start_client returns or raises, whatever becomes of the connection.
StartEnds ==
    \A e \in Clients : start[e] = "waiting" ~> start[e] \in {"started", "failed"}

==============================================================================
