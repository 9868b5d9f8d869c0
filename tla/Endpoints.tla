------------------------------ MODULE Endpoints ------------------------------
(***************************************************************************)
(* The endpoints of a node over UDP: EndpointLayer, which files them and   *)
(* finds the one a message is sent by, UdpCoapEndpoint, which opens, opens *)
(* again and closes a socket, and Server.send_datagram and Server.close,   *)
(* which use them.  A host stands for a scheme, an address family and an   *)
(* address, the three keys of the table.                                   *)
(*                                                                         *)
(* External: the kernel, which may refuse a port that another program      *)
(* holds, picks a free one for port 0 or refuses that too, and the event   *)
(* loop, on which a socket error is reported (error_received restarts the  *)
(* endpoint).                                                              *)
(***************************************************************************)
EXTENDS Naturals, Sequences

CONSTANTS
    MaxEndpoints,   \* bound: how many endpoints are made
    MaxMessages,    \* bound: how many messages this node sends
    Hosts,
    Ports,          \* that an endpoint may be added with; 0 leaves the choice open
    MulticastPort,
    Ephemeral,      \* the ports the kernel picks
    None,           \* no value
    MaxSends,       \* bound: how often a message is sent
    MaxErrors       \* bound: how many errors of sockets are reported

Endpoints == 1 .. MaxEndpoints
Messages == 1 .. MaxMessages

ASSUME EndpointsAssumption ==
    /\ MaxEndpoints \in Nat /\ MaxMessages \in Nat
    /\ Ports \subseteq Nat /\ MulticastPort \in Nat \ {0}
    /\ Ephemeral \subseteq Nat \ {0}
    /\ Ephemeral \cap (Ports \cup {MulticastPort}) = {}
    /\ None \notin Hosts /\ None \notin Nat /\ None \notin [host : Hosts, port : Nat]
    /\ MaxSends \in Nat /\ MaxErrors \in Nat

VARIABLES
    endpoints,  \* address, socket and state of each endpoint
    adding,     \* the endpoints add_by_netloc waits for, and whether it has one more to add
    unicast,    \* _unicast_endpoints, in the order in which hosts came: one port a host
    multicast,  \* _multicast_endpoints, by host
    locked,     \* the endpoints whose lock a restart holds
    queue,      \* what waits for the lock of each endpoint
    restarts,   \* the tasks that are to restart each endpoint and are not at its lock
    errors,     \* how many errors have been reported
    moved,      \* the endpoints a restart has moved to another port
    messages,   \* what this node sends
    stopped     \* Server.close has closed the layer

sockets == <<endpoints, adding>>
tables == <<unicast, multicast>>
locks == <<locked, queue, restarts, errors, moved>>
vars == <<sockets, tables, locks, messages, stopped>>

Address == [host : Hosts, port : Nat]

\* A socket that is made is "bound" until its transport listens, and "unbound" when
\* the kernel has refused it every port.
NoEndpoint == [host |-> None, port |-> 0, socket |-> 0, group |-> FALSE, state |-> "none"]

NoMessage == [came |-> None, known |-> FALSE, asked |-> None, source |-> None,
              by |-> None, left |-> None, sends |-> 0, state |-> "none"]

Init ==
    /\ endpoints = [e \in Endpoints |-> NoEndpoint]
    /\ adding = {}
    /\ unicast = <<>> /\ multicast = {}
    /\ locked = {} /\ queue = [e \in Endpoints |-> <<>>]
    /\ restarts = [e \in Endpoints |-> 0] /\ errors = 0 /\ moved = {}
    /\ messages = [m \in Messages |-> NoMessage]
    /\ stopped = FALSE

-----------------------------------------------------------------------------
(* Mutants: the forms plausible bugs would give the definitions below *)

\* find_sending_endpoint does not ask for the host of the source.
MutantNamed(r, source) == TRUE

\* The lock of an endpoint is not asked for before a message is sent.
MutantFree(e) == TRUE

\* A port that is refused when an endpoint is restarted is not replaced.
MutantReopened(e, s) ==
    IF s = endpoints[e].port
    THEN [endpoints[e] EXCEPT !.group = FALSE, !.state = "bound"]
    ELSE [endpoints[e] EXCEPT !.group = FALSE, !.state = "closed"]

\* The lock is released behind listen, and not when it raises.
MutantReleased(e) == IF endpoints[e].state = "bound" THEN locked \ {e} ELSE locked

\* A port that is refused is left out of the address, not made 0.
MutantOpened(host, port, s, group) ==
    [host |-> host, port |-> IF s = port THEN port ELSE None, socket |-> s, group |-> group,
     state |-> "bound"]

-----------------------------------------------------------------------------
(* Sockets: UdpCoapEndpoint *)

InUse == {endpoints[e].socket : e \in {f \in Endpoints : endpoints[f].state \in {"bound", "open"}}}

\* The port the two binds may give.  The sockets of this node share theirs
\* (SO_REUSEADDR); another program may hold it, then port 0 is bound.
Granted(port) == (Ephemeral \ InUse) \cup IF port = 0 THEN {} ELSE {port}

\* init_unicast up to the await of listen.
Opened(host, port, s, group) ==
    [host |-> host, port |-> IF s = port THEN port ELSE 0, socket |-> s, group |-> group,
     state |-> "bound"]

\* The rest of listen: the address gets the port of the socket.
Listening(e) == [endpoints[e] EXCEPT !.port = endpoints[e].socket, !.state = "open"]

\* close and init_unicast of restart_transport, which forgets the groups.
Reopened(e, s) ==
    [endpoints[e] EXCEPT !.port = IF s = endpoints[e].port THEN s ELSE 0,
                         !.socket = s, !.group = FALSE, !.state = "bound"]

\* The second bind is refused too and raises: the address has lost its port, and the
\* new socket is bound to none.
Stranded(e) == [endpoints[e] EXCEPT !.port = 0, !.socket = 0, !.group = FALSE,
                                    !.state = "unbound"]

-----------------------------------------------------------------------------
(* Adding: EndpointLayer.add_by_netloc and add *)

Filed(host) == \E k \in DOMAIN unicast : unicast[k].host = host

Fresh(e) == /\ endpoints[e] = NoEndpoint
            /\ \A f \in 1 .. e - 1 : endpoints[f] # NoEndpoint

\* add_by_netloc up to the first await.  If it is refused every port it raises, and
\* nothing is filed.
AddByNetloc(e, host, port, both) ==
    /\ Fresh(e)
    /\ \E s \in Granted(port) :
          endpoints' = [endpoints EXCEPT ![e] = Opened(host, port, s, FALSE)]
    /\ adding' = adding \cup {[endpoint |-> e, more |-> both]}
    /\ UNCHANGED <<tables, locks, messages, stopped>>

\* The unicast endpoint listens; add takes it when its host is new, and drops
\* another port of a host it knows.  A bind of the multicast endpoint f that is
\* refused raises.
AddUnicast(e, f) ==
    \E a \in adding :
      /\ a.endpoint = e /\ ~endpoints[e].group
      /\ unicast' = IF Filed(endpoints[e].host) THEN unicast
                    ELSE Append(unicast, [host |-> endpoints[e].host,
                                          port |-> Listening(e).port, endpoint |-> e])
      /\ \/ /\ endpoints' = [endpoints EXCEPT ![e] = Listening(e)]
            /\ adding' = adding \ {a}
         \/ /\ a.more /\ Fresh(f)
            /\ endpoints' = [endpoints EXCEPT ![e] = Listening(e),
                   ![f] = Opened(endpoints[e].host, MulticastPort, MulticastPort, TRUE)]
            /\ adding' = (adding \ {a}) \cup {[endpoint |-> f, more |-> FALSE]}
      /\ UNCHANGED <<multicast, locks, messages, stopped>>

\* The multicast endpoint listens; add takes the first of a host.
AddMulticast(e) ==
    \E a \in adding :
      /\ a.endpoint = e /\ endpoints[e].group
      /\ endpoints' = [endpoints EXCEPT ![e] = Listening(e)]
      /\ adding' = adding \ {a}
      /\ multicast' = IF \E r \in multicast : r.host = endpoints[e].host THEN multicast
                      ELSE multicast \cup {[host |-> endpoints[e].host, endpoint |-> e]}
      /\ UNCHANGED <<unicast, locks, messages, stopped>>

-----------------------------------------------------------------------------
(* Messages *)

Unused(m) == /\ messages[m] = NoMessage
             /\ \A n \in 1 .. m - 1 : messages[n] # NoMessage

Update(m, r) == messages' = [messages EXCEPT ![m] = r]

\* The endpoint is filed under the address it has.
Known(e) == \E k \in DOMAIN unicast :
    /\ unicast[k].endpoint = e
    /\ unicast[k].host = endpoints[e].host /\ unicast[k].port = endpoints[e].port

\* A datagram comes in, and m is an answer to it: its source is where the request
\* went.  Only a response to a multicast request leaves the port open; an
\* acknowledgement, a 2.31 or a reset does not.
DatagramReceived(e, m, response) ==
    /\ endpoints[e].state = "open" /\ Unused(m)
    /\ LET asked == [host |-> endpoints[e].host, port |-> endpoints[e].port] IN
       Update(m, [NoMessage EXCEPT
           !.came = e, !.known = Known(e), !.asked = asked, !.state = "made",
           !.source = [asked EXCEPT !.port = IF response /\ endpoints[e].group THEN None
                                             ELSE asked.port]])
    /\ UNCHANGED <<sockets, tables, locks, stopped>>

\* A request of this node.  The application may name a host, and then a port.
Request(m, host, port) ==
    /\ Unused(m)
    /\ Update(m, [NoMessage EXCEPT !.source = [host |-> host, port |-> port], !.state = "made"])
    /\ UNCHANGED <<sockets, tables, locks, stopped>>

\* find_sending_endpoint: the entry of the source's host, or the first of the table,
\* if its port is the one the source names.
Named(r, source) == source.host \in {None, r.host}

Found(source) ==
    {r.endpoint : r \in {unicast[k] : k \in
        {k \in DOMAIN unicast :
            /\ Named(unicast[k], source)
            /\ source.host = None => k = 1
            /\ source.host = None \/ source.port \in {None, unicast[k].port}}}}

\* A lock that is free is still handed to the one who waits longest.
Free(e) == e \notin locked /\ queue[e] = <<>>

\* Endpoint.send_message: the endpoint's address becomes the source of the message.
\* A closed socket raises.  One that is not bound sends from where the kernel likes.
Transmitted(m, e) ==
    IF endpoints[e].state = "closed"
    THEN [messages[m] EXCEPT !.by = e, !.state = "broken"]
    ELSE [messages[m] EXCEPT
             !.by = e, !.state = "sent", !.sends = messages[m].sends + 1,
             !.source = [host |-> endpoints[e].host, port |-> endpoints[e].port],
             !.left = IF endpoints[e].state = "unbound" THEN None
                      ELSE [host |-> endpoints[e].host, port |-> endpoints[e].socket]]

\* send_datagram up to the lock, and on if it is free.
SendDatagram(m) ==
    /\ messages[m].state = "made"
    /\ \/ /\ Found(messages[m].source) = {}
          /\ Update(m, [messages[m] EXCEPT !.state = "lost"])
          /\ UNCHANGED queue
       \/ \E e \in Found(messages[m].source) :
             IF Free(e)
             THEN Update(m, Transmitted(m, e)) /\ UNCHANGED queue
             ELSE /\ Update(m, [messages[m] EXCEPT !.by = e, !.state = "waiting"])
                  /\ queue' = [queue EXCEPT ![e] = Append(queue[e], m)]
    /\ UNCHANGED <<sockets, tables, locked, restarts, errors, moved, stopped>>

\* The lock is handed to a message.
Proceed(e) ==
    /\ e \notin locked /\ queue[e] # <<>> /\ Head(queue[e]) # None
    /\ Update(Head(queue[e]), Transmitted(Head(queue[e]), e))
    /\ queue' = [queue EXCEPT ![e] = Tail(queue[e])]
    /\ UNCHANGED <<sockets, tables, locked, restarts, errors, moved, stopped>>

\* A message is sent again: the answer to a duplicate of its request.
SendAgain(m) ==
    /\ messages[m].state = "sent" /\ messages[m].sends < MaxSends
    /\ Update(m, [messages[m] EXCEPT !.state = "made"])
    /\ UNCHANGED <<sockets, tables, locks, stopped>>

-----------------------------------------------------------------------------
(* Restarting and closing *)

\* error_received makes a task for restart_transport.
ErrorReceived(e) ==
    /\ endpoints[e].state = "open" /\ errors < MaxErrors
    /\ errors' = errors + 1
    /\ restarts' = [restarts EXCEPT ![e] = restarts[e] + 1]
    /\ UNCHANGED <<sockets, tables, locked, queue, moved, messages, stopped>>

\* restart_transport has the lock, and runs up to the await of listen, or raises
\* before it and gives the lock back.
Restart(e) ==
    /\ \/ /\ \E s \in Granted(endpoints[e].port) :
                /\ endpoints' = [endpoints EXCEPT ![e] = Reopened(e, s)]
                /\ moved' = IF s = endpoints[e].port THEN moved ELSE moved \cup {e}
          /\ locked' = locked \cup {e}
       \/ /\ endpoints' = [endpoints EXCEPT ![e] = Stranded(e)]
          /\ moved' = moved \cup {e}
          /\ locked' = locked
    /\ UNCHANGED <<adding, tables, errors, messages, stopped>>

\* The task asks for the lock.  None in the queue stands for it.
RestartTransport(e) ==
    /\ restarts[e] > 0
    /\ restarts' = [restarts EXCEPT ![e] = restarts[e] - 1]
    /\ IF Free(e)
       THEN Restart(e) /\ UNCHANGED queue
       ELSE /\ queue' = [queue EXCEPT ![e] = Append(queue[e], None)]
            /\ UNCHANGED <<sockets, tables, locked, errors, moved, messages, stopped>>

\* The lock is handed to a restart.
ProceedToRestart(e) ==
    /\ e \notin locked /\ queue[e] # <<>> /\ Head(queue[e]) = None
    /\ queue' = [queue EXCEPT ![e] = Tail(queue[e])]
    /\ Restart(e)
    /\ UNCHANGED restarts

\* async with gives the lock back in either case.
Released(e) == locked \ {e}

\* listen of a socket that was closed meanwhile raises.
Restarted(e) ==
    /\ e \in locked
    /\ endpoints' = IF endpoints[e].state = "bound"
                    THEN [endpoints EXCEPT ![e] = Listening(e)] ELSE endpoints
    /\ locked' = Released(e)
    /\ UNCHANGED <<adding, tables, queue, restarts, errors, moved, messages, stopped>>

\* Server.close: every endpoint of the tables is taken out and closed, whatever its
\* lock; one that is being added is not there.
Close ==
    /\ ~stopped /\ stopped' = TRUE
    /\ LET all == {unicast[k].endpoint : k \in DOMAIN unicast} \cup {r.endpoint : r \in multicast}
       IN  endpoints' = [e \in Endpoints |->
               IF e \in all THEN [endpoints[e] EXCEPT !.state = "closed"] ELSE endpoints[e]]
    /\ unicast' = <<>> /\ multicast' = {}
    /\ UNCHANGED <<adding, locks, messages>>

Next ==
    \/ \E e, f \in Endpoints :
          \/ \E host \in Hosts, port \in Ports, both \in BOOLEAN : AddByNetloc(e, host, port, both)
          \/ AddUnicast(e, f) \/ AddMulticast(e)
          \/ ErrorReceived(e) \/ RestartTransport(e) \/ ProceedToRestart(e) \/ Restarted(e)
          \/ Proceed(e)
    \/ \E m \in Messages :
          \/ \E e \in Endpoints, response \in BOOLEAN : DatagramReceived(e, m, response)
          \/ \E host \in Hosts \cup {None}, port \in Ports \cup {None} : Request(m, host, port)
          \/ SendDatagram(m) \/ SendAgain(m)
    \/ Close

Spec == Init /\ [][Next]_vars

\* The event loop goes on with a task that can go on: a transport listens, and a lock
\* that is free is handed on.
FairSpec ==
    /\ Spec
    /\ \A e \in Endpoints :
          WF_vars(Restarted(e)) /\ WF_vars(Proceed(e)) /\ WF_vars(ProceedToRestart(e))

-----------------------------------------------------------------------------
(* Properties *)

\* Every variable keeps its type.
TypeOK ==
    /\ endpoints \in [Endpoints -> [host : Hosts \cup {None}, port : Nat, socket : Nat,
                                    group : BOOLEAN,
                                    state : {"none", "bound", "unbound", "open", "closed"}]]
    /\ adding \subseteq [endpoint : Endpoints, more : BOOLEAN]
    /\ unicast \in Seq([host : Hosts, port : Nat, endpoint : Endpoints])
    /\ multicast \subseteq [host : Hosts, endpoint : Endpoints]
    /\ locked \subseteq Endpoints
    /\ queue \in [Endpoints -> Seq(Messages \cup {None})]
    /\ restarts \in [Endpoints -> Nat] /\ errors \in Nat /\ moved \subseteq Endpoints
    /\ messages \in [Messages ->
          [came : Endpoints \cup {None}, known : BOOLEAN, asked : Address \cup {None},
           source : [host : Hosts \cup {None}, port : Nat \cup {None}] \cup {None},
           by : Endpoints \cup {None}, left : Address \cup {None}, sends : Nat,
           state : {"none", "made", "waiting", "sent", "lost", "broken"}]]
    /\ stopped \in BOOLEAN

\* An answer leaves by the host its request came to, unless a restart has left its
\* endpoint without a port.  The answer to a request that came in by an endpoint of
\* the table leaves by that endpoint, under the address the request went to, and is
\* not lost, unless the layer is closed or a restart has moved the endpoint from its
\* port: it stays filed under the old.
AnswersGoHome ==
    \A m \in Messages :
      LET answer == messages[m] IN
      /\ answer.state = "sent" /\ answer.came # None =>
            answer.left = None \/ answer.left.host = answer.asked.host
      /\ answer.known =>
            /\ answer.state = "sent" =>
                  /\ stopped \/ answer.by = answer.came
                  /\ stopped \/ answer.came \in moved \/ answer.left = answer.asked
            /\ answer.state = "lost" => stopped \/ answer.came \in moved

\* A message that is sent names the address of the socket it leaves by, though the
\* address of an endpoint has no port while it is restarted on another one.  Only
\* what leaves by a socket that a restart could not bind names no port.
NamesItsSocket ==
    \A m \in Messages : messages[m].state = "sent" =>
        IF messages[m].left = None
        THEN messages[m].by \in moved /\ messages[m].source.port = 0
        ELSE messages[m].source = messages[m].left

Listens(e) == endpoints[e].state = "open" /\ endpoints[e].port = endpoints[e].socket

\* Whoever finds an endpoint in the tables and gets its lock finds a socket that
\* listens, under the port it is filed by unless a restart has moved it, in whatever
\* order endpoints are added, restarted and closed.  The exception is a restart that
\* was refused every port: its endpoint stays in the tables and hears nothing.
FiledListens ==
    /\ \A k \in DOMAIN unicast :
          LET e == unicast[k].endpoint IN
          \/ e \in locked
          \/ Listens(e) /\ (e \in moved \/ endpoints[e].port = unicast[k].port)
          \/ endpoints[e].state = "unbound" /\ e \in moved
    /\ \A r \in multicast :
          \/ r.endpoint \in locked
          \/ Listens(r.endpoint)
          \/ endpoints[r.endpoint].state = "unbound" /\ r.endpoint \in moved

\* Whoever waits for the lock of an endpoint goes on, however the restarts before it
\* end.
SendersProceed ==
    \A m \in Messages : messages[m].state = "waiting" ~> messages[m].state # "waiting"

=============================================================================
