-------------------------- MODULE EndpointsProofs --------------------------
(***************************************************************************)
(* Proofs about Endpoints, for any number of endpoints, messages, hosts,   *)
(* errors and repetitions.                                                 *)
(***************************************************************************)
EXTENDS Endpoints, TLAPS

-----------------------------------------------------------------------------
(* The inductive invariant *)

Adding(e) == \E a \in adding : a.endpoint = e

\* What add_by_netloc has done with.
Ready(e) == e \in Endpoints /\ endpoints[e].state # "none" /\ ~Adding(e)

\* A socket is without a listener only while it is added or restarted, or when a restart
\* could not bind it.
SocketOK(e) ==
    /\ endpoints[e].state = "none" => endpoints[e] = NoEndpoint
    /\ endpoints[e].state # "none" => endpoints[e].host \in Hosts
    /\ endpoints[e].state = "open" => endpoints[e].port = endpoints[e].socket
    /\ endpoints[e].state = "bound" => e \in locked \/ Adding(e)
    /\ endpoints[e].state = "unbound" => e \in moved /\ endpoints[e].port = 0
    /\ e \in locked =>
          /\ endpoints[e].state \in {"bound", "closed"} /\ ~Adding(e)
          /\ endpoints[e].state = "bound" => e \in moved \/ endpoints[e].port = endpoints[e].socket
    /\ restarts[e] > 0 \/ queue[e] # <<>> => Ready(e)

\* What is being added is bound, and is added once.
AddingOK ==
    \A a \in adding :
      /\ endpoints[a.endpoint].state = "bound"
      /\ \A b \in adding : a.endpoint = b.endpoint => a = b

SocketsOK == AddingOK /\ \A e \in Endpoints : SocketOK(e)

\* Every host is filed once, with an endpoint that has the address it is filed under
\* unless a restart has moved it, and nothing is filed that is closed.
EntryOK(r) ==
    /\ Ready(r.endpoint) /\ endpoints[r.endpoint].state # "closed"
    /\ ~endpoints[r.endpoint].group /\ endpoints[r.endpoint].host = r.host
    /\ r.endpoint \in moved \/ endpoints[r.endpoint].port = r.port

TablesOK ==
    /\ \A k \in DOMAIN unicast : EntryOK(unicast[k])
    /\ \A j, k \in DOMAIN unicast : unicast[j].host = unicast[k].host => j = k
    /\ \A r \in multicast : Ready(r.endpoint) /\ endpoints[r.endpoint].state # "closed"

\* What waits for a lock waits once, and for the one it has found.
QueuesOK ==
    \A e \in Endpoints :
      /\ \A i \in DOMAIN queue[e] : queue[e][i] # None =>
            messages[queue[e][i]].state = "waiting" /\ messages[queue[e][i]].by = e
      /\ \A i, j \in DOMAIN queue[e] : queue[e][i] = queue[e][j] /\ queue[e][i] # None => i = j

\* The endpoint that is filed under the address.
FiledAs(e, address) ==
    \E k \in DOMAIN unicast :
      unicast[k].endpoint = e /\ unicast[k].host = address.host /\ unicast[k].port = address.port

Source == [host : Hosts \cup {None}, port : Nat \cup {None}]

\* An answer, what it asks for, and what it finds.
MessageOK(r) ==
    /\ r.state # "none" => r.source \in Source
    /\ r.state = "waiting" => Ready(r.by)
    /\ r.came # None => r.state # "none" /\ r.asked \in Address /\ r.source.host = r.asked.host
    /\ r.came # None /\ r.state = "waiting" => endpoints[r.by].host = r.asked.host
    /\ r.came # None /\ r.state = "sent" => r.left = None \/ r.left.host = r.asked.host
    /\ r.known =>
          /\ r.came \in Endpoints
          /\ stopped \/ FiledAs(r.came, r.asked)
          /\ r.state \in {"made", "waiting"} =>
                stopped \/ r.came \in moved \/ r.source = r.asked
          /\ r.state \in {"waiting", "sent"} => stopped \/ r.by = r.came
          /\ r.state = "sent" => stopped \/ r.came \in moved \/ r.left = r.asked
          /\ r.state = "lost" => stopped \/ r.came \in moved
    /\ r.state = "sent" =>
          IF r.left = None THEN r.by \in moved /\ r.source.port = 0
          ELSE r.source = r.left /\ r.left \in Address

MessagesOK == \A m \in Messages : MessageOK(messages[m])

IInv == TypeOK /\ SocketsOK /\ TablesOK /\ QueuesOK /\ MessagesOK

-----------------------------------------------------------------------------
(* Types *)

Socket == [host : Hosts \cup {None}, port : Nat, socket : Nat, group : BOOLEAN,
           state : {"none", "bound", "unbound", "open", "closed"}]

Message == [came : Endpoints \cup {None}, known : BOOLEAN, asked : Address \cup {None},
            source : [host : Hosts \cup {None}, port : Nat \cup {None}] \cup {None},
            by : Endpoints \cup {None}, left : Address \cup {None}, sends : Nat,
            state : {"none", "made", "waiting", "sent", "lost", "broken"}]

LEMMA Constants ==
    /\ None \notin Endpoints /\ None \notin Messages
    /\ Endpoints \subseteq Nat /\ Messages \subseteq Nat
BY EndpointsAssumption DEF Endpoints, Messages

LEMMA GrantedIsPort ==
    ASSUME NEW port \in Nat, NEW s \in Granted(port)
    PROVE  s \in Nat /\ s # 0
BY EndpointsAssumption DEF Granted

LEMMA SocketTypes ==
    ASSUME TypeOK, NEW e \in Endpoints
    PROVE  /\ endpoints[e] \in Socket
           /\ Listening(e) \in Socket
           /\ Listening(e).host = endpoints[e].host /\ Listening(e).group = endpoints[e].group
           /\ Listening(e).port = endpoints[e].socket /\ Listening(e).socket = endpoints[e].socket
           /\ Listening(e).state = "open"
           /\ \A s \in Nat :
                /\ Reopened(e, s) \in Socket
                /\ Reopened(e, s).host = endpoints[e].host /\ Reopened(e, s).group = FALSE
                /\ Reopened(e, s).state = "bound" /\ Reopened(e, s).socket = s
                /\ s = endpoints[e].port => Reopened(e, s).port = s
           /\ Stranded(e) \in Socket
           /\ Stranded(e).host = endpoints[e].host /\ Stranded(e).group = FALSE
           /\ Stranded(e).state = "unbound" /\ Stranded(e).port = 0
<1>1. endpoints[e] \in Socket
  BY DEF TypeOK, Socket
<1>2. Listening(e) \in Socket /\ Listening(e).host = endpoints[e].host
      /\ Listening(e).group = endpoints[e].group
      /\ Listening(e).port = endpoints[e].socket /\ Listening(e).socket = endpoints[e].socket
      /\ Listening(e).state = "open"
  BY <1>1 DEF Listening, Socket
<1>3. ASSUME NEW s \in Nat
      PROVE  /\ Reopened(e, s) \in Socket
             /\ Reopened(e, s).host = endpoints[e].host /\ Reopened(e, s).group = FALSE
             /\ Reopened(e, s).state = "bound" /\ Reopened(e, s).socket = s
             /\ s = endpoints[e].port => Reopened(e, s).port = s
  <2> DEFINE p == IF s = endpoints[e].port THEN s ELSE 0
  <2>1. p \in Nat
    OBVIOUS
  <2>2. Reopened(e, s) = [endpoints[e] EXCEPT !.port = p, !.socket = s, !.group = FALSE,
                                              !.state = "bound"]
    BY DEF Reopened
  <2>3. s = endpoints[e].port => p = s
    OBVIOUS
  <2> HIDE DEF p
  <2> QED BY <1>1, <2>1, <2>2, <2>3 DEF Socket
<1>4. /\ Stranded(e) \in Socket
      /\ Stranded(e).host = endpoints[e].host /\ Stranded(e).group = FALSE
      /\ Stranded(e).state = "unbound" /\ Stranded(e).port = 0
  BY <1>1 DEF Stranded, Socket
<1> QED BY <1>1, <1>2, <1>3, <1>4

LEMMA OpenedType ==
    ASSUME NEW host \in Hosts, NEW port \in Nat, NEW s \in Nat, NEW group \in BOOLEAN
    PROVE  /\ Opened(host, port, s, group) \in Socket
           /\ Opened(host, port, s, group).host = host
           /\ Opened(host, port, s, group).group = group
           /\ Opened(host, port, s, group).state = "bound"
BY DEF Opened, Socket

LEMMA UnicastTypes ==
    ASSUME TypeOK, NEW k \in DOMAIN unicast
    PROVE  unicast[k].host \in Hosts /\ unicast[k].port \in Nat
           /\ unicast[k].endpoint \in Endpoints
<1> DEFINE R == [host : Hosts, port : Nat, endpoint : Endpoints]
<1>1. unicast[k] \in R
  <2>1. unicast \in Seq(R)
    BY DEF TypeOK
  <2> HIDE DEF R
  <2> QED BY <2>1
<1> QED BY <1>1

LEMMA FoundTypes ==
    ASSUME TypeOK, NEW source, NEW e \in Found(source)
    PROVE  \E k \in DOMAIN unicast :
              /\ unicast[k].endpoint = e /\ e \in Endpoints
              /\ source.host \in {None, unicast[k].host}
              /\ source.host = None \/ source.port \in {None, unicast[k].port}
<1>1. PICK k \in DOMAIN unicast :
          /\ Named(unicast[k], source) /\ e = unicast[k].endpoint
          /\ source.host = None \/ source.port \in {None, unicast[k].port}
  BY DEF Found
<1> QED BY <1>1, UnicastTypes DEF Named

LEMMA MessageTypes ==
    ASSUME TypeOK, NEW m \in Messages
    PROVE  messages[m] \in Message
BY DEF TypeOK, Message

LEMMA TransmittedType ==
    ASSUME TypeOK, NEW m \in Messages, NEW e \in Endpoints, endpoints[e].host \in Hosts
    PROVE  Transmitted(m, e) \in Message
<1>1. messages[m] \in Message /\ endpoints[e] \in Socket
  BY MessageTypes, SocketTypes
<1> DEFINE from == [host |-> endpoints[e].host, port |-> endpoints[e].port]
           left == [host |-> endpoints[e].host, port |-> endpoints[e].socket]
           n == messages[m].sends + 1
<1>2. from \in [host : Hosts \cup {None}, port : Nat \cup {None}] /\ left \in Address /\ n \in Nat
  BY <1>1 DEF Socket, Address, Message
<1>3. CASE endpoints[e].state = "closed"
  BY <1>1, <1>3 DEF Transmitted, Message
<1>4. CASE endpoints[e].state # "closed"
  <2>1. PICK l : l = IF endpoints[e].state = "unbound" THEN None ELSE left
    OBVIOUS
  <2>2. l \in Address \cup {None}
    BY <1>2, <2>1
  <2>3. Transmitted(m, e) = [messages[m] EXCEPT !.by = e, !.state = "sent", !.sends = n,
                                                !.source = from, !.left = l]
    BY <1>4, <2>1 DEF Transmitted
  <2> HIDE DEF from, left, n
  <2> QED BY <1>1, <1>2, <2>2, <2>3 DEF Message
<1> QED BY <1>3, <1>4

\* A message that changes keeps its type.
LEMMA UpdateType ==
    ASSUME TypeOK, NEW m \in Messages, NEW r \in Message, Update(m, r),
           UNCHANGED <<sockets, tables, locked, restarts, errors, moved, stopped>>,
           queue' \in [Endpoints -> Seq(Messages \cup {None})]
    PROVE  TypeOK'
<1>1. messages' \in [Messages -> Message]
  <2>1. messages \in [Messages -> Message]
    BY DEF TypeOK, Message
  <2> QED BY <2>1 DEF Update
<1> QED BY <1>1 DEF TypeOK, Message, sockets, tables

LEMMA QueueType ==
    ASSUME TypeOK, NEW e \in Endpoints
    PROVE  /\ \A x \in Messages \cup {None} :
                [queue EXCEPT ![e] = Append(queue[e], x)] \in [Endpoints -> Seq(Messages \cup {None})]
           /\ queue[e] # <<>> =>
                /\ Head(queue[e]) \in Messages \cup {None}
                /\ [queue EXCEPT ![e] = Tail(queue[e])] \in [Endpoints -> Seq(Messages \cup {None})]
<1> DEFINE X == Messages \cup {None}
<1>1. queue \in [Endpoints -> Seq(X)] /\ queue[e] \in Seq(X)
  BY DEF TypeOK
<1> HIDE DEF X
<1>2. \A x \in X : Append(queue[e], x) \in Seq(X)
  BY <1>1
<1>3. queue[e] # <<>> => Head(queue[e]) \in X /\ Tail(queue[e]) \in Seq(X)
  BY <1>1
<1>4. \A q \in Seq(X) : [queue EXCEPT ![e] = q] \in [Endpoints -> Seq(X)]
  BY <1>1
<1>5. /\ \A x \in X : [queue EXCEPT ![e] = Append(queue[e], x)] \in [Endpoints -> Seq(X)]
      /\ queue[e] # <<>> =>
           Head(queue[e]) \in X /\ [queue EXCEPT ![e] = Tail(queue[e])] \in [Endpoints -> Seq(X)]
  BY <1>2, <1>3, <1>4
<1> QED BY <1>5 DEF X

\* A restart binds a port, its own or another, and keeps the lock, or is refused every
\* one and gives it back.
LEMMA RestartOutcome ==
    ASSUME TypeOK, NEW e \in Endpoints, Restart(e)
    PROVE  \E o \in Socket :
              /\ endpoints' = [endpoints EXCEPT ![e] = o]
              /\ o.host = endpoints[e].host /\ o.group = FALSE
              /\ moved' \subseteq moved \cup {e} /\ moved \subseteq moved'
              /\ \/ /\ o.state = "bound" /\ locked' = locked \cup {e}
                    /\ e \in moved' \/ (o.port = endpoints[e].port /\ o.port = o.socket)
                 \/ o.state = "unbound" /\ o.port = 0 /\ e \in moved' /\ locked' = locked
<1>1. CASE /\ \E s \in Granted(endpoints[e].port) :
                 /\ endpoints' = [endpoints EXCEPT ![e] = Reopened(e, s)]
                 /\ moved' = IF s = endpoints[e].port THEN moved ELSE moved \cup {e}
           /\ locked' = locked \cup {e}
  <2>1. PICK s \in Granted(endpoints[e].port) :
            /\ endpoints' = [endpoints EXCEPT ![e] = Reopened(e, s)]
            /\ moved' = IF s = endpoints[e].port THEN moved ELSE moved \cup {e}
    BY <1>1
  <2>2. endpoints[e].port \in Nat
    BY SocketTypes DEF Socket
  <2>3. s \in Nat
    BY <2>2, GrantedIsPort
  <2>4. PICK o : o = Reopened(e, s)
    OBVIOUS
  <2>5. /\ o \in Socket /\ o.host = endpoints[e].host /\ o.group = FALSE /\ o.state = "bound"
        /\ o.socket = s /\ (s = endpoints[e].port => o.port = s)
    BY <2>3, <2>4, SocketTypes
  <2>6. /\ endpoints' = [endpoints EXCEPT ![e] = o]
        /\ moved' \subseteq moved \cup {e} /\ moved \subseteq moved'
        /\ e \in moved' \/ (o.port = endpoints[e].port /\ o.port = o.socket)
    BY <2>1, <2>4, <2>5
  <2> QED BY <1>1, <2>5, <2>6
<1>2. CASE /\ endpoints' = [endpoints EXCEPT ![e] = Stranded(e)]
           /\ moved' = moved \cup {e}
           /\ locked' = locked
  <2>1. PICK o : o = Stranded(e)
    OBVIOUS
  <2>2. /\ o \in Socket /\ o.host = endpoints[e].host /\ o.group = FALSE
        /\ o.state = "unbound" /\ o.port = 0
    BY <2>1, SocketTypes
  <2> QED BY <1>2, <2>1, <2>2
<1> QED BY <1>1, <1>2 DEF Restart

LEMMA RestartType ==
    ASSUME TypeOK, NEW e \in Endpoints, Restart(e),
           queue' \in [Endpoints -> Seq(Messages \cup {None})],
           restarts' \in [Endpoints -> Nat]
    PROVE  TypeOK'
<1>1. PICK o \in Socket : /\ endpoints' = [endpoints EXCEPT ![e] = o]
                         /\ moved' \subseteq moved \cup {e} /\ locked' \subseteq locked \cup {e}
  BY RestartOutcome
<1>2. endpoints' \in [Endpoints -> Socket]
  <2>1. endpoints \in [Endpoints -> Socket]
    BY DEF TypeOK, Socket
  <2> QED BY <1>1, <2>1
<1>3. moved' \subseteq Endpoints /\ locked' \subseteq Endpoints
  BY <1>1 DEF TypeOK
<1> QED BY <1>2, <1>3 DEF Restart, TypeOK, Socket, tables

-----------------------------------------------------------------------------
(* What a step leaves alone *)

\* What add_by_netloc has done with stays so, the tables lose nothing unless the layer is
\* closed, and nothing is undone.
Stays ==
    /\ \A e \in Endpoints : Ready(e) => Ready(e)' /\ endpoints'[e].host = endpoints[e].host
    /\ stopped => stopped'
    /\ moved \subseteq moved'
    /\ stopped' \/ \A k \in DOMAIN unicast : k \in DOMAIN unicast' /\ unicast'[k] = unicast[k]

LEMMA EntryStays ==
    ASSUME NEW r, EntryOK(r), moved \subseteq moved',
           \A g \in Endpoints : Ready(g) =>
              /\ Ready(g)' /\ endpoints'[g].host = endpoints[g].host
              /\ endpoints'[g].group => endpoints[g].group
              /\ endpoints'[g].port = endpoints[g].port \/ g \in moved'
              /\ endpoints'[g].state = "closed" => endpoints[g].state = "closed"
    PROVE  EntryOK(r)'
<1> DEFINE g == r.endpoint
<1>1. g \in Endpoints /\ Ready(g)
  BY DEF EntryOK, Ready
<1>2. Ready(g)' /\ endpoints'[g].host = endpoints[g].host
      /\ (endpoints'[g].group => endpoints[g].group)
      /\ (endpoints'[g].port = endpoints[g].port \/ g \in moved')
      /\ (endpoints'[g].state = "closed" => endpoints[g].state = "closed")
  BY <1>1
<1> QED BY <1>2 DEF EntryOK

LEMMA TablesStay ==
    ASSUME TablesOK, moved \subseteq moved', UNCHANGED tables,
           \A g \in Endpoints : Ready(g) =>
              /\ Ready(g)' /\ endpoints'[g].host = endpoints[g].host
              /\ endpoints'[g].group => endpoints[g].group
              /\ endpoints'[g].port = endpoints[g].port \/ g \in moved'
              /\ endpoints'[g].state = "closed" => endpoints[g].state = "closed"
    PROVE  TablesOK'
<1>1. unicast' = unicast /\ multicast' = multicast
  BY DEF tables
<1>2. ASSUME NEW k \in DOMAIN unicast PROVE EntryOK(unicast[k])'
  <2>1. PICK r : r = unicast[k]
    OBVIOUS
  <2>2. EntryOK(r)
    BY <2>1 DEF TablesOK
  <2>3. EntryOK(r)'
    BY <2>2, EntryStays
  <2>4. unicast'[k] = r
    BY <1>1, <2>1
  <2> QED BY <2>3, <2>4 DEF EntryOK
<1>3. ASSUME NEW r \in multicast
      PROVE  Ready(r.endpoint)' /\ endpoints'[r.endpoint].state # "closed"
  BY DEF TablesOK, Ready
<1> QED BY <1>1, <1>2, <1>3 DEF TablesOK

LEMMA MessageStays ==
    ASSUME Stays, NEW r, MessageOK(r)
    PROVE  MessageOK(r)'
<1>1. r.state = "waiting" =>
         r.by \in Endpoints /\ Ready(r.by)' /\ endpoints'[r.by].host = endpoints[r.by].host
  BY DEF Stays, MessageOK, Ready
<1>2. r.known => stopped' \/ FiledAs(r.came, r.asked)'
  BY DEF Stays, MessageOK, FiledAs
<1> QED BY <1>1, <1>2 DEF Stays, MessageOK

LEMMA MessagesStay ==
    ASSUME Stays, MessagesOK, messages' = messages
    PROVE  MessagesOK'
<1> SUFFICES ASSUME NEW m \in Messages
             PROVE  MessageOK(messages[m])'
  BY DEF MessagesOK
<1>1. PICK r : r = messages[m]
  OBVIOUS
<1>2. MessageOK(r)'
  BY <1>1, MessageStays DEF MessagesOK
<1>3. messages'[m] = r
  BY <1>1
<1> QED BY <1>2, <1>3 DEF MessageOK

\* One message changes.
LEMMA MessageChanges ==
    ASSUME TypeOK, Stays, MessagesOK, NEW m \in Messages, NEW r, Update(m, r), MessageOK(r)'
    PROVE  MessagesOK'
<1> SUFFICES ASSUME NEW n \in Messages
             PROVE  MessageOK(messages[n])'
  BY DEF MessagesOK
<1>1. PICK q : q = messages[n]
  OBVIOUS
<1>2. MessageOK(q)'
  BY <1>1, MessageStays DEF MessagesOK
<1>3. messages'[n] = IF n = m THEN r ELSE q
  BY <1>1 DEF Update, TypeOK
<1> QED BY <1>2, <1>3 DEF MessageOK

LEMMA QueuesStay ==
    ASSUME QueuesOK, queue' = queue,
           \A m \in Messages : messages[m].state = "waiting" =>
              messages'[m].state = "waiting" /\ messages'[m].by = messages[m].by,
           TypeOK
    PROVE  QueuesOK'
<1>1. \A e \in Endpoints : \A i \in DOMAIN queue[e] : queue[e][i] \in Messages \cup {None}
  BY DEF TypeOK
<1> QED BY <1>1 DEF QueuesOK

\* Only messages change, and no more is kept for the locks.
LEMMA OnlyMessages ==
    ASSUME IInv, UNCHANGED <<sockets, tables, locked, restarts, errors, moved, stopped>>
    PROVE  Stays /\ TablesOK' /\ (queue' = queue => SocketsOK')
<1>1. \A e : Ready(e) <=> Ready(e)'
  BY DEF Ready, Adding, sockets
<1>2. TablesOK'
  BY <1>1, TablesStay DEF IInv, sockets
<1>3. Stays
  BY <1>1 DEF Stays, sockets, tables
<1>4. queue' = queue => SocketsOK'
  BY <1>1 DEF IInv, SocketsOK, SocketOK, AddingOK, Adding, sockets
<1> QED BY <1>2, <1>3, <1>4

-----------------------------------------------------------------------------
(* Adding *)

LEMMA AddByNetlocStep ==
    ASSUME IInv, NEW e \in Endpoints, NEW host \in Hosts, NEW port \in Ports,
           NEW both \in BOOLEAN, AddByNetloc(e, host, port, both)
    PROVE  IInv'
<1>1. PICK s \in Granted(port) : endpoints' = [endpoints EXCEPT ![e] = Opened(host, port, s, FALSE)]
  BY DEF AddByNetloc
<1> DEFINE a == [endpoint |-> e, more |-> both]
<1>2. port \in Nat /\ s \in Nat
  BY EndpointsAssumption, GrantedIsPort
<1>3. PICK o : o = Opened(host, port, s, FALSE)
  OBVIOUS
<1>4. o \in Socket /\ o.host = host /\ o.state = "bound"
  BY <1>2, <1>3, OpenedType
<1>5. endpoints[e] = NoEndpoint /\ endpoints[e].state = "none"
  BY DEF AddByNetloc, Fresh, NoEndpoint
<1>6. endpoints' = [endpoints EXCEPT ![e] = o] /\ adding' = adding \cup {a}
  BY <1>1, <1>3 DEF AddByNetloc
<1>7. a \in [endpoint : Endpoints, more : BOOLEAN] /\ a.endpoint = e
  OBVIOUS
<1>8. endpoints \in [Endpoints -> Socket] /\ adding \subseteq [endpoint : Endpoints, more : BOOLEAN]
  BY DEF IInv, TypeOK, Socket
<1>9. ~Adding(e) /\ ~Ready(e) /\ e \notin locked
  BY <1>5 DEF IInv, SocketsOK, SocketOK, AddingOK, Adding, Ready
<1> HIDE DEF a
<1>10. \A g \in Endpoints \ {e} : endpoints'[g] = endpoints[g] /\ Adding(g)' = Adding(g)
  BY <1>6, <1>7, <1>8 DEF Adding
<1>11. endpoints'[e] = o /\ Adding(e)'
  BY <1>6, <1>7, <1>8 DEF Adding
<1>12. \A g \in Endpoints : Ready(g) => g # e /\ Ready(g)' /\ endpoints'[g] = endpoints[g]
  BY <1>9, <1>10 DEF Ready
<1>13. UNCHANGED <<unicast, multicast, locked, queue, restarts, errors, moved, messages, stopped>>
  BY DEF AddByNetloc, tables, locks
<1>14. TypeOK'
  <2>1. endpoints' \in [Endpoints -> Socket] /\ adding' \subseteq [endpoint : Endpoints, more : BOOLEAN]
    BY <1>4, <1>6, <1>7, <1>8
  <2> QED BY <1>13, <2>1 DEF IInv, TypeOK, Socket
<1>15. SocketsOK'
  <2>1. AddingOK'
    BY <1>4, <1>6, <1>7, <1>8, <1>9, <1>10, <1>11 DEF IInv, SocketsOK, AddingOK, Adding
  <2>2. SocketOK(e)'
    BY <1>4, <1>9, <1>11, <1>13 DEF IInv, SocketsOK, SocketOK
  <2>3. ASSUME NEW g \in Endpoints \ {e} PROVE SocketOK(g)'
    BY <1>10, <1>12, <1>13 DEF IInv, SocketsOK, SocketOK
  <2> QED BY <2>1, <2>2, <2>3 DEF SocketsOK
<1>16. TablesOK'
  BY <1>12, <1>13, TablesStay DEF IInv, tables
<1>17. Stays
  BY <1>12, <1>13 DEF Stays
<1>18. QueuesOK'
  BY <1>13, QueuesStay DEF IInv
<1> QED BY <1>13, <1>14, <1>15, <1>16, <1>17, <1>18, MessagesStay DEF IInv

\* An endpoint that has been added listens.
LEMMA AddedListens ==
    ASSUME IInv, NEW a \in adding, NEW e \in Endpoints, a.endpoint = e
    PROVE  /\ endpoints[e].state = "bound" /\ e \notin locked /\ ~Ready(e)
           /\ endpoints[e].host \in Hosts
           /\ restarts[e] = 0 /\ queue[e] = <<>>
           /\ \A b \in adding : b.endpoint = e => b = a
<1>1. endpoints[e].state = "bound" /\ Adding(e) /\ \A b \in adding : b.endpoint = e => b = a
  BY DEF IInv, SocketsOK, AddingOK, Adding
<1>2. restarts[e] \in Nat
  BY DEF IInv, TypeOK
<1> QED BY <1>1, <1>2 DEF IInv, SocketsOK, SocketOK, Ready

\* A host that is not known is filed.
LEMMA FileHost ==
    ASSUME IInv, NEW e \in Endpoints, endpoints[e].host \in Hosts, NEW p \in Nat,
           unicast' = IF Filed(endpoints[e].host) THEN unicast
                      ELSE Append(unicast, [host |-> endpoints[e].host, port |-> p, endpoint |-> e])
    PROVE  /\ unicast' \in Seq([host : Hosts, port : Nat, endpoint : Endpoints])
           /\ \A k \in DOMAIN unicast : k \in DOMAIN unicast' /\ unicast'[k] = unicast[k]
           /\ \A k \in DOMAIN unicast' :
                 \/ k \in DOMAIN unicast /\ unicast'[k] = unicast[k]
                 \/ unicast'[k].host = endpoints[e].host /\ unicast'[k].port = p
                    /\ unicast'[k].endpoint = e
           /\ \A j, k \in DOMAIN unicast' : unicast'[j].host = unicast'[k].host => j = k
<1> DEFINE R == [host : Hosts, port : Nat, endpoint : Endpoints]
           r == [host |-> endpoints[e].host, port |-> p, endpoint |-> e]
<1>1. unicast \in Seq(R) /\ r \in R
  BY DEF IInv, TypeOK
<1>2. \A j, k \in DOMAIN unicast : unicast[j].host = unicast[k].host => j = k
  BY DEF IInv, TablesOK
<1>3. r.host = endpoints[e].host /\ r.port = p /\ r.endpoint = e
  OBVIOUS
<1>4. CASE Filed(endpoints[e].host)
  BY <1>1, <1>2, <1>4
<1>5. CASE ~Filed(endpoints[e].host)
  <2>1. unicast' = Append(unicast, r) /\ \A k \in DOMAIN unicast : unicast[k].host # r.host
    BY <1>5, <1>3 DEF Filed
  <2> HIDE DEF R, r
  <2>2. unicast' \in Seq(R) /\ DOMAIN unicast' = 1 .. Len(unicast) + 1
        /\ DOMAIN unicast = 1 .. Len(unicast) /\ Len(unicast) \in Nat
    BY <1>1, <2>1
  <2>3. \A k \in DOMAIN unicast : k \in DOMAIN unicast' /\ unicast'[k] = unicast[k]
    BY <1>1, <2>1, <2>2
  <2>4. unicast'[Len(unicast) + 1] = r
    BY <1>1, <2>1, <2>2
  <2>5. \A k \in DOMAIN unicast' : k \in DOMAIN unicast \/ k = Len(unicast) + 1
    BY <2>2
  <2>6. \A j, k \in DOMAIN unicast' : unicast'[j].host = unicast'[k].host => j = k
    BY <1>2, <2>1, <2>3, <2>4, <2>5
  <2> QED BY <1>3, <2>2, <2>3, <2>4, <2>5, <2>6 DEF R
<1> QED BY <1>4, <1>5

\* What is true of the sockets when an endpoint listens that was added, and another may
\* be added behind it.
LEMMA AddedSockets ==
    ASSUME IInv, NEW a \in adding, NEW e \in Endpoints, a.endpoint = e,
           UNCHANGED <<locks, messages, stopped>>,
           \/ /\ endpoints' = [endpoints EXCEPT ![e] = Listening(e)]
              /\ adding' = adding \ {a}
           \/ \E f \in Endpoints :
                /\ endpoints[f] = NoEndpoint
                /\ endpoints' = [endpoints EXCEPT ![e] = Listening(e),
                       ![f] = Opened(endpoints[e].host, MulticastPort, MulticastPort, TRUE)]
                /\ adding' = (adding \ {a}) \cup {[endpoint |-> f, more |-> FALSE]}
    PROVE  /\ endpoints' \in [Endpoints -> Socket]
           /\ adding' \subseteq [endpoint : Endpoints, more : BOOLEAN]
           /\ SocketsOK' /\ Ready(e)' /\ endpoints'[e] = Listening(e)
           /\ \A g \in Endpoints : Ready(g) =>
                 g # e /\ Ready(g)' /\ endpoints'[g] = endpoints[g]
<1>1. /\ endpoints[e].state = "bound" /\ e \notin locked /\ ~Ready(e) /\ endpoints[e].host \in Hosts
      /\ restarts[e] = 0 /\ queue[e] = <<>>
      /\ \A b \in adding : b.endpoint = e => b = a
  BY AddedListens
<1>2. endpoints \in [Endpoints -> Socket] /\ adding \subseteq [endpoint : Endpoints, more : BOOLEAN]
  BY DEF IInv, TypeOK, Socket
<1>3. PICK l : l = Listening(e)
  OBVIOUS
<1>4. l \in Socket /\ l.host = endpoints[e].host /\ l.state = "open" /\ l.port = l.socket
  <2>1. /\ Listening(e) \in Socket /\ Listening(e).host = endpoints[e].host
        /\ Listening(e).state = "open" /\ Listening(e).port = endpoints[e].socket
        /\ Listening(e).socket = endpoints[e].socket
    BY SocketTypes DEF IInv
  <2> QED BY <1>3, <2>1
<1>5. UNCHANGED <<locked, queue, restarts, errors, moved, messages, stopped>>
  BY DEF locks
<1>6. /\ endpoints' \in [Endpoints -> Socket]
      /\ adding' \subseteq [endpoint : Endpoints, more : BOOLEAN]
      /\ AddingOK' /\ endpoints'[e] = l /\ ~Adding(e)'
      /\ \A g \in Endpoints \ {e} :
            \/ endpoints'[g] = endpoints[g] /\ Adding(g)' = Adding(g)
            \/ /\ endpoints[g].state = "none" /\ endpoints'[g].state = "bound" /\ Adding(g)'
               /\ endpoints'[g].host \in Hosts
  <2>1. CASE /\ endpoints' = [endpoints EXCEPT ![e] = l]
             /\ adding' = adding \ {a}
    <3>1. endpoints' \in [Endpoints -> Socket] /\ endpoints'[e] = l
          /\ adding' \subseteq [endpoint : Endpoints, more : BOOLEAN]
          /\ \A g \in Endpoints \ {e} : endpoints'[g] = endpoints[g]
      BY <1>2, <1>4, <2>1
    <3>2. ~Adding(e)' /\ \A g \in Endpoints \ {e} : Adding(g)' = Adding(g)
      BY <1>1, <2>1 DEF Adding
    <3>3. AddingOK'
      BY <1>1, <1>2, <2>1, <3>1 DEF IInv, SocketsOK, AddingOK
    <3> QED BY <3>1, <3>2, <3>3
  <2>2. CASE \E f \in Endpoints :
               /\ endpoints[f] = NoEndpoint
               /\ endpoints' = [endpoints EXCEPT ![e] = l,
                      ![f] = Opened(endpoints[e].host, MulticastPort, MulticastPort, TRUE)]
               /\ adding' = (adding \ {a}) \cup {[endpoint |-> f, more |-> FALSE]}
    <3>0. PICK f \in Endpoints :
               /\ endpoints[f] = NoEndpoint
               /\ endpoints' = [endpoints EXCEPT ![e] = l,
                      ![f] = Opened(endpoints[e].host, MulticastPort, MulticastPort, TRUE)]
               /\ adding' = (adding \ {a}) \cup {[endpoint |-> f, more |-> FALSE]}
      BY <2>2
    <3>1. PICK o : o = Opened(endpoints[e].host, MulticastPort, MulticastPort, TRUE)
      OBVIOUS
    <3>2. o \in Socket /\ o.host = endpoints[e].host /\ o.state = "bound"
      <4>1. PICK h : h = endpoints[e].host
        OBVIOUS
      <4>2. h \in Hosts /\ MulticastPort \in Nat /\ TRUE \in BOOLEAN
        BY <1>1, <4>1, EndpointsAssumption
      <4>3. o = Opened(h, MulticastPort, MulticastPort, TRUE)
        BY <3>1, <4>1
      <4> QED BY <4>1, <4>2, <4>3 DEF Opened, Socket
    <3>3. PICK b : b = [endpoint |-> f, more |-> FALSE]
      OBVIOUS
    <3>4. b \in [endpoint : Endpoints, more : BOOLEAN] /\ b.endpoint = f
      BY <3>3
    <3>5. endpoints[f].state = "none" /\ f # e /\ ~Adding(f)
      BY <1>1, <3>0 DEF NoEndpoint, IInv, SocketsOK, AddingOK, Adding
    <3>6. endpoints' = [endpoints EXCEPT ![e] = l, ![f] = o] /\ adding' = (adding \ {a}) \cup {b}
      BY <3>0, <3>1, <3>3
    <3>7. endpoints' \in [Endpoints -> Socket] /\ endpoints'[e] = l /\ endpoints'[f] = o
          /\ adding' \subseteq [endpoint : Endpoints, more : BOOLEAN]
          /\ \A g \in Endpoints \ {e, f} : endpoints'[g] = endpoints[g]
      <4>1. endpoints' \in [Endpoints -> Socket]
        BY <1>2, <1>4, <3>2, <3>6
      <4>2. adding' \subseteq [endpoint : Endpoints, more : BOOLEAN]
        BY <1>2, <3>4, <3>6
      <4>3. endpoints'[e] = l /\ endpoints'[f] = o
            /\ \A g \in Endpoints \ {e, f} : endpoints'[g] = endpoints[g]
        BY <1>2, <3>5, <3>6
      <4> QED BY <4>1, <4>2, <4>3
    <3>8. ~Adding(e)' /\ Adding(f)' /\ \A g \in Endpoints \ {e, f} : Adding(g)' = Adding(g)
      BY <1>1, <3>4, <3>5, <3>6 DEF Adding
    <3>9. AddingOK'
      <4>1. \A c \in adding \ {a} : c.endpoint \in Endpoints \ {e, f}
        BY <1>1, <1>2, <3>5 DEF Adding
      <4>2. \A c \in adding \ {a} :
              endpoints'[c.endpoint].state = "bound"
              /\ \A d \in adding \ {a} : c.endpoint = d.endpoint => c = d
        BY <3>7, <4>1 DEF IInv, SocketsOK, AddingOK
      <4>3. \A c \in adding' : c \in adding \ {a} \/ c = b
        BY <3>6
      <4>4. endpoints'[b.endpoint].state = "bound" /\ \A c \in adding \ {a} : c.endpoint # b.endpoint
        BY <3>2, <3>4, <3>7, <4>1
      <4> QED BY <4>2, <4>3, <4>4 DEF AddingOK
    <3> QED BY <1>1, <3>2, <3>5, <3>7, <3>8, <3>9
  <2>3. \/ /\ endpoints' = [endpoints EXCEPT ![e] = l]
           /\ adding' = adding \ {a}
        \/ \E f \in Endpoints :
             /\ endpoints[f] = NoEndpoint
             /\ endpoints' = [endpoints EXCEPT ![e] = l,
                    ![f] = Opened(endpoints[e].host, MulticastPort, MulticastPort, TRUE)]
             /\ adding' = (adding \ {a}) \cup {[endpoint |-> f, more |-> FALSE]}
    BY <1>3
  <2> QED BY <2>1, <2>2, <2>3
<1>7. Ready(e)'
  BY <1>4, <1>6 DEF Ready
<1>8. \A g \in Endpoints : Ready(g) => g # e /\ Ready(g)' /\ endpoints'[g] = endpoints[g]
  BY <1>1, <1>6 DEF Ready
<1>9. SocketsOK'
  <2>1. SocketOK(e)'
    BY <1>1, <1>4, <1>5, <1>6 DEF SocketOK
  <2>2. ASSUME NEW g \in Endpoints \ {e} PROVE SocketOK(g)'
    <3>1. SocketOK(g) /\ restarts[g] \in Nat
      BY DEF IInv, SocketsOK, TypeOK
    <3>2. CASE endpoints'[g] = endpoints[g] /\ Adding(g)' = Adding(g)
      BY <1>5, <1>8, <3>1, <3>2 DEF SocketOK
    <3>3. CASE /\ endpoints[g].state = "none" /\ endpoints'[g].state = "bound" /\ Adding(g)'
               /\ endpoints'[g].host \in Hosts
      <4>1. g \notin locked /\ ~(restarts[g] > 0 \/ queue[g] # <<>>)
        BY <3>1, <3>3 DEF SocketOK, Ready
      <4> QED BY <1>5, <3>3, <4>1 DEF SocketOK
    <3> QED BY <1>6, <3>2, <3>3
  <2> QED BY <1>6, <2>1, <2>2 DEF SocketsOK
<1> QED BY <1>3, <1>6, <1>7, <1>8, <1>9

LEMMA AddUnicastStep ==
    ASSUME IInv, NEW e \in Endpoints, NEW f \in Endpoints, AddUnicast(e, f)
    PROVE  IInv'
<1>1. PICK a \in adding :
        /\ a.endpoint = e /\ ~endpoints[e].group
        /\ unicast' = IF Filed(endpoints[e].host) THEN unicast
                      ELSE Append(unicast, [host |-> endpoints[e].host,
                                            port |-> Listening(e).port, endpoint |-> e])
        /\ \/ /\ endpoints' = [endpoints EXCEPT ![e] = Listening(e)]
              /\ adding' = adding \ {a}
           \/ /\ a.more /\ Fresh(f)
              /\ endpoints' = [endpoints EXCEPT ![e] = Listening(e),
                     ![f] = Opened(endpoints[e].host, MulticastPort, MulticastPort, TRUE)]
              /\ adding' = (adding \ {a}) \cup {[endpoint |-> f, more |-> FALSE]}
  BY DEF AddUnicast
<1>2. UNCHANGED <<multicast, locks, messages, stopped>>
  BY DEF AddUnicast
<1>3. /\ endpoints' \in [Endpoints -> Socket]
      /\ adding' \subseteq [endpoint : Endpoints, more : BOOLEAN]
      /\ SocketsOK' /\ Ready(e)' /\ endpoints'[e] = Listening(e)
      /\ \A g \in Endpoints : Ready(g) => g # e /\ Ready(g)' /\ endpoints'[g] = endpoints[g]
  <2>1. \/ /\ endpoints' = [endpoints EXCEPT ![e] = Listening(e)]
           /\ adding' = adding \ {a}
        \/ \E g \in Endpoints :
             /\ endpoints[g] = NoEndpoint
             /\ endpoints' = [endpoints EXCEPT ![e] = Listening(e),
                    ![g] = Opened(endpoints[e].host, MulticastPort, MulticastPort, TRUE)]
             /\ adding' = (adding \ {a}) \cup {[endpoint |-> g, more |-> FALSE]}
    BY <1>1 DEF Fresh
  <2>2. a.endpoint = e /\ UNCHANGED <<locks, messages, stopped>>
    BY <1>1, <1>2
  <2> QED BY <2>1, <2>2, AddedSockets
<1>4. endpoints[e].host \in Hosts
  BY <1>1, AddedListens
<1>5. PICK p : p = Listening(e).port
  OBVIOUS
<1>6. p \in Nat /\ endpoints'[e].port = p /\ endpoints'[e].host = endpoints[e].host
      /\ ~endpoints'[e].group /\ endpoints'[e].state = "open"
  <2>1. /\ Listening(e) \in Socket /\ Listening(e).host = endpoints[e].host
        /\ Listening(e).group = endpoints[e].group /\ Listening(e).state = "open"
    BY SocketTypes DEF IInv
  <2> QED BY <1>1, <1>3, <1>5, <2>1 DEF Socket
<1>7. /\ unicast' \in Seq([host : Hosts, port : Nat, endpoint : Endpoints])
      /\ \A k \in DOMAIN unicast : k \in DOMAIN unicast' /\ unicast'[k] = unicast[k]
      /\ \A k \in DOMAIN unicast' :
            \/ k \in DOMAIN unicast /\ unicast'[k] = unicast[k]
            \/ unicast'[k].host = endpoints[e].host /\ unicast'[k].port = p
               /\ unicast'[k].endpoint = e
      /\ \A j, k \in DOMAIN unicast' : unicast'[j].host = unicast'[k].host => j = k
  <2>1. unicast' = IF Filed(endpoints[e].host) THEN unicast
                   ELSE Append(unicast, [host |-> endpoints[e].host, port |-> p, endpoint |-> e])
    BY <1>1, <1>5
    <2>2. p \in Nat
    BY <1>6
  <2> QED BY <1>4, <2>1, <2>2, FileHost
<1>8. UNCHANGED <<locked, queue, restarts, errors, moved, messages, stopped, multicast>>
  BY <1>2 DEF locks
<1>9. TypeOK'
  BY <1>3, <1>7, <1>8 DEF IInv, TypeOK, Socket
<1>10. TablesOK'
  <2>1. ASSUME NEW k \in DOMAIN unicast' PROVE EntryOK(unicast[k])'
    <3>1. PICK r : r = unicast'[k]
      OBVIOUS
    <3>2. CASE k \in DOMAIN unicast /\ unicast'[k] = unicast[k]
      <4>1. EntryOK(r)
        BY <3>1, <3>2 DEF IInv, TablesOK
      <4>2. moved \subseteq moved'
        BY <1>8
      <4>3. EntryOK(r)'
        BY <1>3, <4>1, <4>2, EntryStays
      <4> QED BY <3>1, <4>3 DEF EntryOK
    <3>3. CASE unicast'[k].host = endpoints[e].host /\ unicast'[k].port = p
               /\ unicast'[k].endpoint = e
      BY <1>3, <1>6, <3>3 DEF EntryOK, Ready
    <3> QED BY <1>7, <3>2, <3>3
  <2>2. \A r \in multicast' : Ready(r.endpoint)' /\ endpoints'[r.endpoint].state # "closed"
    <3>1. \A r \in multicast : /\ Ready(r.endpoint) /\ r.endpoint \in Endpoints
                               /\ endpoints[r.endpoint].state # "closed"
      BY DEF IInv, TablesOK, Ready
    <3> QED BY <1>3, <1>8, <3>1
  <2> QED BY <1>7, <2>1, <2>2 DEF TablesOK
<1>11. Stays
  BY <1>3, <1>7, <1>8 DEF Stays
<1>12. QueuesOK'
  BY <1>8, QueuesStay DEF IInv
<1> QED BY <1>3, <1>8, <1>9, <1>10, <1>11, <1>12, MessagesStay DEF IInv

LEMMA AddMulticastStep ==
    ASSUME IInv, NEW e \in Endpoints, AddMulticast(e)
    PROVE  IInv'
<1>1. PICK a \in adding :
        /\ a.endpoint = e
        /\ endpoints' = [endpoints EXCEPT ![e] = Listening(e)] /\ adding' = adding \ {a}
        /\ multicast' = IF \E r \in multicast : r.host = endpoints[e].host THEN multicast
                        ELSE multicast \cup {[host |-> endpoints[e].host, endpoint |-> e]}
  BY DEF AddMulticast
<1>2. UNCHANGED <<unicast, locks, messages, stopped>>
  BY DEF AddMulticast
<1>3. /\ endpoints' \in [Endpoints -> Socket]
      /\ adding' \subseteq [endpoint : Endpoints, more : BOOLEAN]
      /\ SocketsOK' /\ Ready(e)' /\ endpoints'[e].state = "open"
      /\ \A g \in Endpoints : Ready(g) => g # e /\ Ready(g)' /\ endpoints'[g] = endpoints[g]
  <2>1. Listening(e).state = "open"
    BY SocketTypes DEF IInv
  <2> QED BY <1>1, <1>2, <2>1, AddedSockets
<1>4. endpoints[e].host \in Hosts
  BY <1>1, AddedListens
<1>5. UNCHANGED <<locked, queue, restarts, errors, moved, messages, stopped, unicast>>
  BY <1>2 DEF locks
<1>6. \A r \in multicast' : r \in multicast \/ r = [host |-> endpoints[e].host, endpoint |-> e]
  BY <1>1
<1>7. TypeOK'
  <2>1. multicast' \subseteq [host : Hosts, endpoint : Endpoints]
    BY <1>4, <1>6 DEF IInv, TypeOK
  <2> QED BY <1>3, <1>5, <2>1 DEF IInv, TypeOK, Socket
<1>8. TablesOK'
  <2>1. \A r \in multicast' : Ready(r.endpoint)' /\ endpoints'[r.endpoint].state # "closed"
    <3>1. \A r \in multicast : /\ Ready(r.endpoint) /\ r.endpoint \in Endpoints
                               /\ endpoints[r.endpoint].state # "closed"
      BY DEF IInv, TablesOK, Ready
    <3> QED BY <1>3, <1>6, <3>1
  <2>2. ASSUME NEW k \in DOMAIN unicast PROVE EntryOK(unicast[k])'
    <3>1. PICK r : r = unicast[k]
      OBVIOUS
    <3>2. EntryOK(r) /\ moved \subseteq moved' /\ unicast'[k] = r
      BY <1>5, <3>1 DEF IInv, TablesOK
    <3>3. EntryOK(r)'
      BY <1>3, <3>2, EntryStays
    <3> QED BY <3>2, <3>3 DEF EntryOK
  <2> QED BY <1>5, <2>1, <2>2 DEF IInv, TablesOK
<1>9. Stays
  BY <1>3, <1>5 DEF Stays
<1>10. QueuesOK'
  BY <1>5, QueuesStay DEF IInv
<1> QED BY <1>3, <1>5, <1>7, <1>8, <1>9, <1>10, MessagesStay DEF IInv

-----------------------------------------------------------------------------
(* Locks *)

\* The first of a queue leaves it.
LEMMA QueueForward ==
    ASSUME TypeOK, QueuesOK, NEW e \in Endpoints, queue[e] # <<>>,
           queue' = [queue EXCEPT ![e] = Tail(queue[e])],
           \A m \in Messages : messages[m].state = "waiting" /\ m # Head(queue[e]) =>
              messages'[m].state = "waiting" /\ messages'[m].by = messages[m].by
    PROVE  QueuesOK'
<1> DEFINE X == Messages \cup {None}
<1>1. queue \in [Endpoints -> Seq(X)] /\ \A g \in Endpoints : queue[g] \in Seq(X)
  BY DEF TypeOK
<1>2. PICK h : h = Head(queue[e])
  OBVIOUS
<1> HIDE DEF X
<1>3. queue[e] \in Seq(X) /\ h = queue[e][1] /\ 1 \in DOMAIN queue[e]
  BY <1>1, <1>2
<1>4. \A g \in Endpoints : \A i \in DOMAIN queue[g] : queue[g][i] \in X
  BY <1>1
<1>5. \A g \in Endpoints \ {e} : queue'[g] = queue[g]
  BY <1>1
<1>6. queue'[e] = Tail(queue[e]) /\ \A i \in DOMAIN queue'[e] :
         /\ i \in Nat /\ i >= 1 /\ i + 1 \in DOMAIN queue[e] /\ queue'[e][i] = queue[e][i + 1]
  <2>1. queue'[e] = Tail(queue[e])
    BY <1>1
  <2>2. \A i \in DOMAIN Tail(queue[e]) :
          /\ i \in Nat /\ i >= 1 /\ i + 1 \in DOMAIN queue[e] /\ Tail(queue[e])[i] = queue[e][i + 1]
    BY <1>3
  <2> QED BY <2>1, <2>2
<1>7. \A g \in Endpoints : \A i \in DOMAIN queue[g] : queue[g][i] # None =>
         queue[g][i] \in Messages /\ messages[queue[g][i]].state = "waiting"
         /\ messages[queue[g][i]].by = g
  BY <1>4 DEF QueuesOK, X
<1>8. ASSUME NEW g \in Endpoints, NEW i \in DOMAIN queue'[g], queue'[g][i] # None
      PROVE  messages'[queue'[g][i]].state = "waiting" /\ messages'[queue'[g][i]].by = g
  <2>1. CASE g = e
    <3>1. i + 1 \in DOMAIN queue[e] /\ queue'[e][i] = queue[e][i + 1] /\ i + 1 # 1
      BY <1>6, <1>8, <2>1
    <3>2. queue[e][i + 1] # h
      BY <1>3, <1>8, <2>1, <3>1 DEF QueuesOK
    <3> QED BY <1>2, <1>7, <1>8, <2>1, <3>1, <3>2
  <2>2. CASE g # e
    <3>1. i \in DOMAIN queue[g] /\ queue'[g][i] = queue[g][i]
      BY <1>5, <1>8, <2>2
    <3>2. queue[g][i] # h
      BY <1>3, <1>7, <1>8, <2>2, <3>1
    <3> QED BY <1>2, <1>7, <1>8, <3>1, <3>2
  <2> QED BY <2>1, <2>2
<1>9. ASSUME NEW g \in Endpoints, NEW i \in DOMAIN queue'[g], NEW j \in DOMAIN queue'[g],
             queue'[g][i] = queue'[g][j], queue'[g][i] # None
      PROVE  i = j
  <2>1. CASE g = e
    <3>1. i + 1 \in DOMAIN queue[e] /\ j + 1 \in DOMAIN queue[e] /\ i \in Nat /\ j \in Nat
          /\ queue[e][i + 1] = queue[e][j + 1] /\ queue[e][i + 1] # None
      BY <1>6, <1>9, <2>1
    <3>2. i + 1 = j + 1
      BY <3>1 DEF QueuesOK
    <3> QED BY <3>1, <3>2
  <2>2. CASE g # e
    BY <1>5, <1>9, <2>2 DEF QueuesOK
  <2> QED BY <2>1, <2>2
<1> QED BY <1>8, <1>9 DEF QueuesOK

\* One more waits.
LEMMA QueueGrows ==
    ASSUME TypeOK, QueuesOK, NEW e \in Endpoints, NEW x \in Messages \cup {None},
           queue' = [queue EXCEPT ![e] = Append(queue[e], x)],
           x # None => /\ messages[x].state # "waiting"
                       /\ messages'[x].state = "waiting" /\ messages'[x].by = e,
           \A m \in Messages : messages[m].state = "waiting" =>
              messages'[m].state = "waiting" /\ messages'[m].by = messages[m].by
    PROVE  /\ QueuesOK'
           /\ \A g \in Endpoints : queue'[g] # <<>> => g = e \/ queue[g] # <<>>
<1> DEFINE X == Messages \cup {None}
<1>1. queue \in [Endpoints -> Seq(X)] /\ \A g \in Endpoints : queue[g] \in Seq(X)
  BY DEF TypeOK
<1>2. x \in X
  OBVIOUS
<1> HIDE DEF X
<1>3. \A g \in Endpoints : \A i \in DOMAIN queue[g] : queue[g][i] \in X
  BY <1>1
<1>4. \A g \in Endpoints \ {e} : queue'[g] = queue[g]
  BY <1>1
<1>5. queue'[e] = Append(queue[e], x) /\ \A i \in DOMAIN queue'[e] :
         \/ i \in DOMAIN queue[e] /\ queue'[e][i] = queue[e][i]
         \/ i = Len(queue[e]) + 1 /\ queue'[e][i] = x
  <2>1. queue'[e] = Append(queue[e], x)
    BY <1>1
  <2>2. queue[e] \in Seq(X)
    BY <1>1
  <2>3. \A i \in DOMAIN Append(queue[e], x) :
         \/ i \in DOMAIN queue[e] /\ Append(queue[e], x)[i] = queue[e][i]
         \/ i = Len(queue[e]) + 1 /\ Append(queue[e], x)[i] = x
    BY <1>2, <2>2
  <2> QED BY <2>1, <2>3
<1>6. \A g \in Endpoints : \A i \in DOMAIN queue[g] : queue[g][i] # None =>
         queue[g][i] \in Messages /\ messages[queue[g][i]].state = "waiting"
         /\ messages[queue[g][i]].by = g
  BY <1>3 DEF QueuesOK, X
<1>7. ASSUME NEW g \in Endpoints, NEW i \in DOMAIN queue'[g], queue'[g][i] # None
      PROVE  messages'[queue'[g][i]].state = "waiting" /\ messages'[queue'[g][i]].by = g
  BY <1>4, <1>5, <1>6, <1>7
<1>8. ASSUME NEW g \in Endpoints, NEW i \in DOMAIN queue'[g], NEW j \in DOMAIN queue'[g],
             queue'[g][i] = queue'[g][j], queue'[g][i] # None
      PROVE  i = j
  BY <1>4, <1>5, <1>6, <1>8 DEF QueuesOK
<1> QED BY <1>4, <1>7, <1>8 DEF QueuesOK

LEMMA RestartStep ==
    ASSUME IInv, NEW e \in Endpoints, Ready(e), e \notin locked, Restart(e),
           queue' \in [Endpoints -> Seq(Messages \cup {None})],
           restarts' \in [Endpoints -> Nat], QueuesOK',
           \A g \in Endpoints :
              restarts'[g] > 0 \/ queue'[g] # <<>> => restarts[g] > 0 \/ queue[g] # <<>>
    PROVE  IInv'
<1>1. PICK o \in Socket :
          /\ endpoints' = [endpoints EXCEPT ![e] = o]
          /\ o.host = endpoints[e].host /\ o.group = FALSE
          /\ moved' \subseteq moved \cup {e} /\ moved \subseteq moved'
          /\ \/ /\ o.state = "bound" /\ locked' = locked \cup {e}
                /\ e \in moved' \/ (o.port = endpoints[e].port /\ o.port = o.socket)
             \/ o.state = "unbound" /\ o.port = 0 /\ e \in moved' /\ locked' = locked
  BY RestartOutcome DEF IInv
<1>5. endpoints \in [Endpoints -> Socket]
  BY DEF IInv, TypeOK, Socket
<1>6. endpoints'[e] = o /\ \A g \in Endpoints \ {e} : endpoints'[g] = endpoints[g]
  BY <1>1, <1>5
<1>7. /\ UNCHANGED <<adding, tables, errors, messages, stopped>>
      /\ \A g \in Endpoints \ {e} : g \in locked' <=> g \in locked
  BY <1>1 DEF Restart
<1>8. \A g : Adding(g)' = Adding(g)
  BY <1>7 DEF Adding
<1>9. e \in moved' \/ (endpoints'[e].port = endpoints[e].port /\ endpoints'[e].port = o.socket)
  BY <1>1, <1>6
<1>10. moved \subseteq moved' /\ \A g \in Endpoints \ {e} : g \in moved <=> g \in moved'
  BY <1>1
<1>11. Ready(e)' /\ endpoints[e].host \in Hosts /\ ~Adding(e)
  BY <1>1, <1>6, <1>8 DEF Ready, IInv, SocketsOK, SocketOK
<1>12. \A g \in Endpoints : Ready(g) =>
              /\ Ready(g)' /\ endpoints'[g].host = endpoints[g].host
              /\ endpoints'[g].group => endpoints[g].group
              /\ endpoints'[g].port = endpoints[g].port \/ g \in moved'
              /\ endpoints'[g].state = "closed" => endpoints[g].state = "closed"
  BY <1>1, <1>6, <1>8, <1>9, <1>11 DEF Ready
<1>13. SocketsOK'
  <2>1. AddingOK'
    <3>1. \A a \in adding : a.endpoint \in Endpoints \ {e}
      BY <1>11 DEF Adding, IInv, TypeOK
    <3> QED BY <1>6, <1>7, <3>1 DEF IInv, SocketsOK, AddingOK
  <2>2. SocketOK(e)'
    BY <1>1, <1>6, <1>7, <1>8, <1>9, <1>11 DEF SocketOK
  <2>3. ASSUME NEW g \in Endpoints \ {e} PROVE SocketOK(g)'
    <3>1. SocketOK(g) /\ (g \in locked' <=> g \in locked)
      BY <1>7 DEF IInv, SocketsOK
    <3> QED BY <1>6, <1>7, <1>8, <1>10, <1>12, <3>1 DEF SocketOK
  <2> QED BY <2>1, <2>2, <2>3 DEF SocketsOK
<1>14. TablesOK'
  BY <1>7, <1>10, <1>12, TablesStay DEF IInv
<1>15. Stays
  BY <1>7, <1>10, <1>12 DEF Stays, tables
<1>16. TypeOK'
  BY RestartType DEF IInv
<1>17. MessagesOK'
  BY <1>7, <1>15, MessagesStay DEF IInv
<1> QED BY <1>13, <1>14, <1>16, <1>17 DEF IInv

LEMMA RestartTransportStep ==
    ASSUME IInv, NEW e \in Endpoints, RestartTransport(e)
    PROVE  IInv'
<1>1. restarts \in [Endpoints -> Nat] /\ restarts[e] > 0
      /\ restarts' = [restarts EXCEPT ![e] = restarts[e] - 1]
  BY DEF RestartTransport, IInv, TypeOK
<1>2. restarts' \in [Endpoints -> Nat] /\ \A g \in Endpoints : restarts'[g] > 0 => restarts[g] > 0
  BY <1>1
<1>3. Ready(e)
  BY <1>1 DEF IInv, SocketsOK, SocketOK
<1>4. CASE Free(e)
  <2>1. Restart(e) /\ queue' = queue /\ e \notin locked
    BY <1>4 DEF RestartTransport, Free
  <2>2. messages' = messages /\ queue \in [Endpoints -> Seq(Messages \cup {None})]
    BY <2>1 DEF Restart, IInv, TypeOK
  <2>3. QueuesOK'
    BY <2>1, <2>2, QueuesStay DEF IInv
  <2> QED BY <1>2, <1>3, <2>1, <2>2, <2>3, RestartStep
<1>5. CASE ~Free(e)
  <2>1. /\ queue' = [queue EXCEPT ![e] = Append(queue[e], None)]
        /\ UNCHANGED <<sockets, tables, locked, errors, moved, messages, stopped>>
    BY <1>5 DEF RestartTransport
  <2>2. queue' \in [Endpoints -> Seq(Messages \cup {None})]
    BY <2>1, QueueType DEF IInv
  <2>3. QueuesOK' /\ \A g \in Endpoints : queue'[g] # <<>> => g = e \/ queue[g] # <<>>
    BY <2>1, QueueGrows DEF IInv
  <2>4. \A g : Adding(g)' = Adding(g) /\ Ready(g)' = Ready(g)
    BY <2>1 DEF Adding, Ready, sockets
  <2>5. TypeOK'
    BY <1>2, <2>1, <2>2 DEF IInv, TypeOK, sockets, tables
  <2>6. SocketsOK'
    <3>1. AddingOK'
      BY <2>1 DEF IInv, SocketsOK, AddingOK, sockets
    <3>2. ASSUME NEW g \in Endpoints PROVE SocketOK(g)'
      <4>1. SocketOK(g)
        BY DEF IInv, SocketsOK
      <4>2. restarts'[g] > 0 \/ queue'[g] # <<>> => Ready(g)'
        BY <1>2, <1>3, <2>3, <2>4, <4>1 DEF SocketOK
      <4> QED BY <2>1, <2>4, <4>1, <4>2 DEF SocketOK, sockets
    <3> QED BY <3>1, <3>2 DEF SocketsOK
  <2>7. TablesOK' /\ Stays
    BY <2>1, <2>4, TablesStay DEF IInv, Stays, sockets, tables
  <2>8. MessagesOK'
    BY <2>1, <2>7, MessagesStay DEF IInv
  <2> QED BY <2>3, <2>5, <2>6, <2>7, <2>8 DEF IInv
<1> QED BY <1>4, <1>5

LEMMA ProceedToRestartStep ==
    ASSUME IInv, NEW e \in Endpoints, ProceedToRestart(e)
    PROVE  IInv'
<1>1. /\ e \notin locked /\ queue[e] # <<>> /\ Head(queue[e]) = None
      /\ queue' = [queue EXCEPT ![e] = Tail(queue[e])]
      /\ Restart(e) /\ restarts' = restarts
  BY DEF ProceedToRestart
<1>2. Ready(e)
  BY <1>1 DEF IInv, SocketsOK, SocketOK
<1>3. messages' = messages
  BY <1>1 DEF Restart
<1>4. QueuesOK' /\ queue' \in [Endpoints -> Seq(Messages \cup {None})]
  BY <1>1, <1>3, QueueForward, QueueType DEF IInv
<1>5. restarts' \in [Endpoints -> Nat] /\ queue \in [Endpoints -> Seq(Messages \cup {None})]
  BY <1>1 DEF IInv, TypeOK
<1>6. \A g \in Endpoints : queue'[g] # <<>> => queue[g] # <<>>
  BY <1>1, <1>5
<1> QED BY <1>1, <1>2, <1>4, <1>5, <1>6, RestartStep

LEMMA RestartedStep ==
    ASSUME IInv, NEW e \in Endpoints, Restarted(e)
    PROVE  IInv'
<1>1. /\ e \in locked /\ locked' = locked \ {e}
      /\ endpoints' = IF endpoints[e].state = "bound"
                      THEN [endpoints EXCEPT ![e] = Listening(e)] ELSE endpoints
      /\ UNCHANGED <<adding, tables, queue, restarts, errors, moved, messages, stopped>>
  BY DEF Restarted, Released
<1>2. endpoints \in [Endpoints -> Socket]
  BY DEF IInv, TypeOK, Socket
<1>3. \A g : Adding(g)' = Adding(g)
  BY <1>1 DEF Adding
<1>4. ~Adding(e) /\ Ready(e) /\ endpoints[e].host \in Hosts
  BY <1>1 DEF IInv, SocketsOK, SocketOK, Ready
<1>5. PICK o : o = endpoints'[e]
  OBVIOUS
<1>6. /\ o \in Socket /\ o.host = endpoints[e].host /\ o.group = endpoints[e].group
      /\ o.state \in {"open", "closed"}
      /\ o.state = "open" => o.port = o.socket
      /\ o.state = "closed" => endpoints[e].state = "closed"
      /\ o.port = endpoints[e].port \/ e \in moved
      /\ endpoints' \in [Endpoints -> Socket]
      /\ \A g \in Endpoints \ {e} : endpoints'[g] = endpoints[g]
  <2>1. CASE endpoints[e].state = "bound"
    <3>1. PICK l : l = Listening(e)
      OBVIOUS
    <3>2. Listening(e) \in Socket /\ Listening(e).host = endpoints[e].host
          /\ Listening(e).group = endpoints[e].group /\ Listening(e).state = "open"
          /\ Listening(e).port = endpoints[e].socket /\ Listening(e).socket = endpoints[e].socket
      BY SocketTypes DEF IInv
    <3>3. endpoints' = [endpoints EXCEPT ![e] = l]
      BY <1>1, <2>1, <3>1
    <3>4. o = l /\ endpoints' \in [Endpoints -> Socket]
          /\ \A g \in Endpoints \ {e} : endpoints'[g] = endpoints[g]
      BY <1>2, <1>5, <3>1, <3>2, <3>3
    <3>5. e \in moved \/ endpoints[e].port = endpoints[e].socket
      BY <1>1, <2>1 DEF IInv, SocketsOK, SocketOK
    <3> QED BY <3>1, <3>2, <3>4, <3>5
  <2>2. CASE endpoints[e].state # "bound"
    BY <1>1, <1>2, <1>5, <2>2 DEF IInv, SocketsOK, SocketOK
  <2> QED BY <2>1, <2>2
<1>7. Ready(e)'
  BY <1>3, <1>4, <1>5, <1>6 DEF Ready
<1>8. \A g \in Endpoints : Ready(g) =>
              /\ Ready(g)' /\ endpoints'[g].host = endpoints[g].host
              /\ endpoints'[g].group => endpoints[g].group
              /\ endpoints'[g].port = endpoints[g].port \/ g \in moved'
              /\ endpoints'[g].state = "closed" => endpoints[g].state = "closed"
  BY <1>1, <1>3, <1>5, <1>6, <1>7 DEF Ready
<1>9. TypeOK'
  <2>1. locked' \subseteq Endpoints
    BY <1>1 DEF IInv, TypeOK
  <2> QED BY <1>1, <1>6, <2>1 DEF IInv, TypeOK, Socket, tables
<1>10. SocketsOK'
  <2>1. AddingOK'
    <3>1. \A a \in adding : a.endpoint \in Endpoints \ {e}
      BY <1>4 DEF Adding, IInv, TypeOK
    <3> QED BY <1>1, <1>6, <3>1 DEF IInv, SocketsOK, AddingOK
  <2>2. SocketOK(e)'
    BY <1>1, <1>4, <1>5, <1>6, <1>7 DEF SocketOK
  <2>3. ASSUME NEW g \in Endpoints \ {e} PROVE SocketOK(g)'
    <3>1. SocketOK(g) /\ (g \in locked' <=> g \in locked)
      BY <1>1 DEF IInv, SocketsOK
    <3> QED BY <1>1, <1>3, <1>6, <1>8, <3>1 DEF SocketOK
  <2> QED BY <2>1, <2>2, <2>3 DEF SocketsOK
<1>11. TablesOK'
  BY <1>1, <1>8, TablesStay DEF IInv
<1>12. Stays
  BY <1>1, <1>8 DEF Stays, tables
<1>13. MessagesOK' /\ QueuesOK'
  BY <1>1, <1>12, MessagesStay, QueuesStay DEF IInv
<1> QED BY <1>9, <1>10, <1>11, <1>13 DEF IInv

LEMMA ErrorReceivedStep ==
    ASSUME IInv, NEW e \in Endpoints, ErrorReceived(e)
    PROVE  IInv'
<1>1. /\ endpoints[e].state = "open" /\ errors' = errors + 1
      /\ restarts' = [restarts EXCEPT ![e] = restarts[e] + 1]
      /\ UNCHANGED <<sockets, tables, locked, queue, moved, messages, stopped>>
  BY DEF ErrorReceived
<1>2. restarts \in [Endpoints -> Nat] /\ errors \in Nat
  BY DEF IInv, TypeOK
<1>3. restarts' \in [Endpoints -> Nat] /\ errors' \in Nat
      /\ \A g \in Endpoints : restarts'[g] > 0 => g = e \/ restarts[g] > 0
  BY <1>1, <1>2
<1>4. Ready(e)
  BY <1>1 DEF IInv, SocketsOK, SocketOK, AddingOK, Adding, Ready
<1>5. \A g : Adding(g)' = Adding(g) /\ Ready(g)' = Ready(g)
  BY <1>1 DEF Adding, Ready, sockets
<1>6. TypeOK'
  BY <1>1, <1>3 DEF IInv, TypeOK, sockets, tables
<1>7. SocketsOK'
  <2>1. AddingOK'
    BY <1>1 DEF IInv, SocketsOK, AddingOK, sockets
  <2>2. ASSUME NEW g \in Endpoints PROVE SocketOK(g)'
    <3>1. SocketOK(g)
      BY DEF IInv, SocketsOK
    <3> QED BY <1>1, <1>3, <1>4, <1>5, <3>1 DEF SocketOK, sockets
  <2> QED BY <2>1, <2>2 DEF SocketsOK
<1>8. TablesOK' /\ Stays
  BY <1>1, <1>5, TablesStay DEF IInv, Stays, sockets, tables
<1>9. MessagesOK' /\ QueuesOK'
  BY <1>1, <1>8, MessagesStay, QueuesStay DEF IInv
<1> QED BY <1>6, <1>7, <1>8, <1>9 DEF IInv

LEMMA CloseStep ==
    ASSUME IInv, Close
    PROVE  IInv'
<1> DEFINE all == {unicast[k].endpoint : k \in DOMAIN unicast} \cup {r.endpoint : r \in multicast}
<1>1. /\ stopped' = TRUE /\ unicast' = <<>> /\ multicast' = {}
      /\ endpoints' = [e \in Endpoints |->
            IF e \in all THEN [endpoints[e] EXCEPT !.state = "closed"] ELSE endpoints[e]]
      /\ UNCHANGED <<adding, locks, messages>>
  BY DEF Close
<1>2. \A e \in all : Ready(e)
  BY DEF IInv, TablesOK, EntryOK
<1> HIDE DEF all
<1>3. UNCHANGED <<adding, locked, queue, restarts, errors, moved, messages>>
  BY <1>1 DEF locks
<1>4. endpoints \in [Endpoints -> Socket]
  BY DEF IInv, TypeOK, Socket
<1>5. \A e \in Endpoints :
        /\ endpoints'[e] \in Socket
        /\ endpoints'[e] = endpoints[e]
           \/ /\ Ready(e) /\ endpoints'[e].state = "closed" /\ endpoints'[e].host = endpoints[e].host
              /\ endpoints'[e].port = endpoints[e].port
              /\ endpoints'[e].socket = endpoints[e].socket
  BY <1>1, <1>2, <1>4 DEF Socket
<1>6. \A e : Adding(e)' = Adding(e)
  BY <1>3 DEF Adding
<1>7. \A e \in Endpoints : Ready(e) => Ready(e)' /\ endpoints'[e].host = endpoints[e].host
  BY <1>5, <1>6 DEF Ready
<1>8. TypeOK'
  <2>1. unicast' \in Seq([host : Hosts, port : Nat, endpoint : Endpoints])
    BY <1>1
  <2>2. endpoints' \in [Endpoints -> Socket]
    BY <1>1, <1>5
  <2> QED BY <1>1, <1>3, <2>1, <2>2 DEF IInv, TypeOK, Socket
<1>9. SocketsOK'
  <2>1. AddingOK'
    <3>1. \A a \in adding : a.endpoint \in Endpoints /\ endpoints'[a.endpoint] = endpoints[a.endpoint]
      BY <1>5 DEF Ready, Adding, IInv, TypeOK
    <3> QED BY <1>3, <3>1 DEF IInv, SocketsOK, AddingOK
  <2>2. ASSUME NEW e \in Endpoints PROVE SocketOK(e)'
    <3>1. SocketOK(e)
      BY DEF IInv, SocketsOK
    <3>2. CASE endpoints'[e] = endpoints[e]
      BY <1>1, <1>3, <1>6, <1>7, <3>1, <3>2 DEF SocketOK
    <3>3. CASE /\ Ready(e) /\ endpoints'[e].state = "closed"
               /\ endpoints'[e].host = endpoints[e].host
      BY <1>1, <1>3, <1>6, <1>7, <3>1, <3>3 DEF SocketOK, Ready
    <3> QED BY <1>5, <3>2, <3>3
  <2> QED BY <2>1, <2>2 DEF SocketsOK
<1>10. TablesOK'
  BY <1>1 DEF TablesOK
<1>11. Stays
  BY <1>1, <1>3, <1>7 DEF Stays
<1>12. MessagesOK' /\ QueuesOK'
  BY <1>3, <1>11, MessagesStay, QueuesStay DEF IInv
<1> QED BY <1>8, <1>9, <1>10, <1>12 DEF IInv

-----------------------------------------------------------------------------
(* Messages *)

LEMMA MessageStep ==
    ASSUME IInv, NEW m \in Messages, NEW r \in Message, Update(m, r), MessageOK(r),
           UNCHANGED <<sockets, tables, locked, restarts, errors, moved, stopped>>,
           queue' \in [Endpoints -> Seq(Messages \cup {None})], QueuesOK',
           \A g \in Endpoints : queue'[g] # <<>> => Ready(g)
    PROVE  IInv'
<1>1. Stays /\ TablesOK'
  BY OnlyMessages
<1>2. MessageOK(r)'
  BY <1>1, MessageStays
<1>3. MessagesOK'
  BY <1>1, <1>2, MessageChanges DEF IInv
<1>4. TypeOK'
  BY UpdateType DEF IInv
<1>5. \A g : Adding(g)' = Adding(g) /\ Ready(g)' = Ready(g)
  BY DEF Adding, Ready, sockets
<1>6. SocketsOK'
  <2>1. AddingOK'
    BY DEF IInv, SocketsOK, AddingOK, sockets
  <2>2. ASSUME NEW g \in Endpoints PROVE SocketOK(g)'
    <3>1. SocketOK(g)
      BY DEF IInv, SocketsOK
    <3> QED BY <1>5, <3>1 DEF SocketOK, sockets
  <2> QED BY <2>1, <2>2 DEF SocketsOK
<1> QED BY <1>1, <1>3, <1>4, <1>6 DEF IInv

\* A message that no queue holds changes.
LEMMA FreeMessageStep ==
    ASSUME IInv, NEW m \in Messages, NEW r \in Message, Update(m, r), MessageOK(r),
           messages[m].state # "waiting",
           UNCHANGED <<sockets, tables, locks, stopped>>
    PROVE  IInv'
<1>1. UNCHANGED <<locked, queue, restarts, errors, moved>>
  BY DEF locks
<1>2. \A n \in Messages : messages[n].state = "waiting" => messages'[n] = messages[n]
  BY DEF Update, IInv, TypeOK
<1>3. QueuesOK'
  BY <1>1, <1>2, QueuesStay DEF IInv
<1>4. queue' \in [Endpoints -> Seq(Messages \cup {None})]
  BY <1>1 DEF IInv, TypeOK
<1>5. \A g \in Endpoints : queue'[g] # <<>> => Ready(g)
  BY <1>1 DEF IInv, SocketsOK, SocketOK
<1> QED BY <1>1, <1>3, <1>4, <1>5, MessageStep

LEMMA DatagramReceivedStep ==
    ASSUME IInv, NEW e \in Endpoints, NEW m \in Messages, NEW response \in BOOLEAN,
           DatagramReceived(e, m, response)
    PROVE  IInv'
<1> DEFINE asked == [host |-> endpoints[e].host, port |-> endpoints[e].port]
           p == IF response /\ endpoints[e].group THEN None ELSE endpoints[e].port
           source == [host |-> endpoints[e].host, port |-> p]
           r == [NoMessage EXCEPT !.came = e, !.known = Known(e), !.asked = asked,
                                  !.state = "made", !.source = source]
<1>1. Update(m, r) /\ messages[m].state # "waiting" /\ endpoints[e].state = "open"
      /\ UNCHANGED <<sockets, tables, locks, stopped>>
  <2>1. [asked EXCEPT !.port = IF response /\ endpoints[e].group THEN None ELSE asked.port] = source
    OBVIOUS
  <2>2. Update(m, [NoMessage EXCEPT
           !.came = e, !.known = Known(e), !.asked = asked, !.state = "made",
           !.source = [asked EXCEPT !.port = IF response /\ endpoints[e].group THEN None
                                             ELSE asked.port]])
    BY Zenon DEF DatagramReceived
  <2>3. Update(m, r)
    BY <2>1, <2>2, Zenon
  <2> QED BY <2>3 DEF DatagramReceived, Unused, NoMessage
<1>2. endpoints[e].host \in Hosts /\ endpoints[e].port \in Nat
  BY <1>1, SocketTypes DEF IInv, SocketsOK, SocketOK, Socket
<1>3. PICK k : k = Known(e)
  OBVIOUS
<1>4. k \in BOOLEAN
  BY <1>3 DEF Known
<1>5. asked \in Address /\ source \in Source /\ source.host = asked.host
  BY <1>2 DEF Address, Source
<1>6. k => /\ source = asked
           /\ FiledAs(e, asked)
  <2>1. ASSUME k PROVE ~endpoints[e].group
    <3>1. PICK i \in DOMAIN unicast : unicast[i].endpoint = e
      BY <1>3, <2>1 DEF Known
    <3>2. EntryOK(unicast[i])
      BY DEF IInv, TablesOK
    <3> QED BY <3>1, <3>2 DEF EntryOK
  <2>2. k => FiledAs(e, asked)
    BY <1>3 DEF Known, FiledAs
  <2> QED BY <2>1, <2>2
<1> HIDE DEF asked, source
<1>7. PICK q : q = [NoMessage EXCEPT !.came = e, !.known = k, !.asked = asked,
                                     !.state = "made", !.source = source]
  OBVIOUS
<1>8. /\ q.came = e /\ q.known = k /\ q.asked = asked /\ q.state = "made" /\ q.source = source
      /\ q \in Message
  BY <1>4, <1>5, <1>7 DEF NoMessage, Message, Source
<1>9. MessageOK(q)
  BY <1>4, <1>5, <1>6, <1>8 DEF MessageOK
<1>10. q = r
  BY <1>3, <1>7
<1> QED BY <1>1, <1>8, <1>9, <1>10, FreeMessageStep

LEMMA RequestStep ==
    ASSUME IInv, NEW m \in Messages, NEW host \in Hosts \cup {None},
           NEW port \in Ports \cup {None}, Request(m, host, port)
    PROVE  IInv'
<1> DEFINE source == [host |-> host, port |-> port]
<1>1. source \in Source
  BY EndpointsAssumption DEF Source
<1>2. /\ Update(m, [NoMessage EXCEPT !.source = source, !.state = "made"])
      /\ messages[m].state # "waiting" /\ UNCHANGED <<sockets, tables, locks, stopped>>
  BY DEF Request, Unused, NoMessage
<1> HIDE DEF source
<1>3. PICK q : q = [NoMessage EXCEPT !.source = source, !.state = "made"]
  OBVIOUS
<1>4. q \in Message /\ q.came = None /\ q.known = FALSE /\ q.state = "made" /\ q.source = source
  BY <1>1, <1>3 DEF NoMessage, Message, Source
<1>5. MessageOK(q)
  BY <1>1, <1>4 DEF MessageOK
<1> QED BY <1>2, <1>3, <1>4, <1>5, FreeMessageStep

LEMMA SendAgainStep ==
    ASSUME IInv, NEW m \in Messages, SendAgain(m)
    PROVE  IInv'
<1>1. PICK old : old = messages[m]
  OBVIOUS
<1>2. PICK q : q = [old EXCEPT !.state = "made"]
  OBVIOUS
<1>3. old.state = "sent" /\ Update(m, q) /\ UNCHANGED <<sockets, tables, locks, stopped>>
  BY <1>1, <1>2 DEF SendAgain
<1>4. old \in Message /\ MessageOK(old)
  BY <1>1, MessageTypes DEF IInv, MessagesOK
<1>5. /\ q \in Message /\ q.came = old.came /\ q.known = old.known /\ q.asked = old.asked
      /\ q.source = old.source /\ q.state = "made" /\ q.left = old.left
  BY <1>2, <1>4 DEF Message
<1>6. old.source \in Source /\ (old.left # None => old.source = old.left)
      /\ (old.left = None => old.by \in moved)
  BY <1>3, <1>4 DEF MessageOK
<1>7. MessageOK(q)
  BY <1>3, <1>4, <1>5, <1>6 DEF MessageOK
<1> QED BY <1>1, <1>3, <1>5, <1>7, FreeMessageStep

\* What a message becomes that is handed to an endpoint whose lock is free.
LEMMA TransmittedOK ==
    ASSUME IInv, NEW m \in Messages, NEW e \in Endpoints, Ready(e), e \notin locked,
           messages[m].state \in {"made", "waiting"},
           messages[m].came # None => endpoints[e].host = messages[m].asked.host,
           messages[m].known => stopped \/ e = messages[m].came
    PROVE  Transmitted(m, e) \in Message /\ MessageOK(Transmitted(m, e))
<1>1. PICK old : old = messages[m]
  OBVIOUS
<1>2. PICK q : q = Transmitted(m, e)
  OBVIOUS
<1>3. old \in Message /\ MessageOK(old)
  BY <1>1, MessageTypes DEF IInv, MessagesOK
<1>4. endpoints[e].host \in Hosts /\ endpoints[e] \in Socket
  BY SocketTypes DEF IInv, SocketsOK, SocketOK, Ready
<1>5. q \in Message
  BY <1>2, <1>4, TransmittedType DEF IInv
<1>6. endpoints[e].state \in {"open", "unbound", "closed"}
  BY <1>4 DEF IInv, SocketsOK, SocketOK, Ready, Socket
<1>7. CASE endpoints[e].state = "closed"
  <2>1. q = [old EXCEPT !.by = e, !.state = "broken"]
    BY <1>1, <1>2, <1>7 DEF Transmitted
  <2>2. /\ q.came = old.came /\ q.known = old.known /\ q.asked = old.asked
        /\ q.source = old.source /\ q.state = "broken"
    BY <1>3, <2>1 DEF Message
  <2>3. MessageOK(q)
    BY <1>1, <1>3, <2>2 DEF MessageOK
  <2> QED BY <1>2, <1>5, <2>3
<1>8. CASE endpoints[e].state = "open"
  <2> DEFINE a == [host |-> endpoints[e].host, port |-> endpoints[e].port]
  <2>1. endpoints[e].port = endpoints[e].socket
    BY <1>8 DEF IInv, SocketsOK, SocketOK
  <2>2. a \in Address /\ a \in Source /\ a.host = endpoints[e].host /\ a.port = endpoints[e].port
        /\ a # None
    BY <1>4, EndpointsAssumption DEF Address, Socket, Source
  <2>3. q = [old EXCEPT !.by = e, !.state = "sent", !.sends = old.sends + 1,
                        !.source = a, !.left = a]
    BY <1>1, <1>2, <1>8, <2>1 DEF Transmitted
  <2> HIDE DEF a
  <2>4. /\ q.came = old.came /\ q.known = old.known /\ q.asked = old.asked /\ q.by = e
        /\ q.source = a /\ q.left = a /\ q.state = "sent"
    BY <1>3, <2>3 DEF Message
  <2>5. old.known => stopped \/ e \in moved \/ a = old.asked
    <3>1. SUFFICES ASSUME old.known, ~stopped
                   PROVE  e \in moved \/ a = old.asked
      OBVIOUS
    <3>2. e = old.came /\ FiledAs(e, old.asked)
      BY <1>1, <1>3, <3>1 DEF MessageOK
    <3>3. PICK k \in DOMAIN unicast : unicast[k].endpoint = e /\ unicast[k].host = old.asked.host
                                     /\ unicast[k].port = old.asked.port
      BY <3>2 DEF FiledAs
    <3>4. EntryOK(unicast[k])
      BY DEF IInv, TablesOK
    <3>5. e \in moved \/ (a.port = old.asked.port /\ a.host = old.asked.host)
      BY <2>2, <3>3, <3>4 DEF EntryOK
    <3>6. old.asked \in Address
      BY <1>3, <3>1, Constants DEF MessageOK
    <3> QED BY <2>2, <3>5, <3>6 DEF Address
  <2>6. MessageOK(q)
    BY <1>1, <1>3, <2>2, <2>4, <2>5 DEF MessageOK
  <2> QED BY <1>2, <1>5, <2>6
<1>9. CASE endpoints[e].state = "unbound"
  <2> DEFINE a == [host |-> endpoints[e].host, port |-> endpoints[e].port]
  <2>1. e \in moved /\ endpoints[e].port = 0
    BY <1>9 DEF IInv, SocketsOK, SocketOK
  <2>2. a \in Source /\ a.host = endpoints[e].host /\ a.port = 0
    BY <1>4, <2>1 DEF Socket, Source
  <2>3. q = [old EXCEPT !.by = e, !.state = "sent", !.sends = old.sends + 1,
                        !.source = a, !.left = None]
    BY <1>1, <1>2, <1>9 DEF Transmitted
  <2> HIDE DEF a
  <2>4. /\ q.came = old.came /\ q.known = old.known /\ q.asked = old.asked /\ q.by = e
        /\ q.source = a /\ q.left = None /\ q.state = "sent"
    BY <1>3, <2>3 DEF Message
  <2>5. MessageOK(q)
    BY <1>1, <1>3, <2>1, <2>2, <2>4 DEF MessageOK
  <2> QED BY <1>2, <1>5, <2>5
<1> QED BY <1>6, <1>7, <1>8, <1>9

\* What find_sending_endpoint finds is of the host that is asked for, and for an answer
\* whose endpoint is filed it is that one.
LEMMA FoundOK ==
    ASSUME IInv, NEW m \in Messages, messages[m].state = "made",
           NEW e \in Found(messages[m].source)
    PROVE  /\ e \in Endpoints /\ Ready(e)
           /\ messages[m].came # None => endpoints[e].host = messages[m].asked.host
           /\ messages[m].known => stopped \/ e = messages[m].came
<1>1. PICK old : old = messages[m]
  OBVIOUS
<1>2. old \in Message /\ MessageOK(old)
  BY <1>1, MessageTypes DEF IInv, MessagesOK
<1>3. PICK k \in DOMAIN unicast :
              /\ unicast[k].endpoint = e /\ e \in Endpoints
              /\ old.source.host \in {None, unicast[k].host}
  BY <1>1, FoundTypes DEF IInv
<1>4. EntryOK(unicast[k])
  BY DEF IInv, TablesOK
<1>5. old.came # None => old.source.host = old.asked.host /\ old.source.host # None
  BY <1>2, EndpointsAssumption DEF MessageOK, Address
<1>6. old.known => old.came # None
  BY <1>2, Constants DEF MessageOK
<1>7. old.known => stopped \/ e = old.came
  <2>1. SUFFICES ASSUME old.known, ~stopped PROVE e = old.came
    OBVIOUS
  <2>2. PICK j \in DOMAIN unicast : unicast[j].endpoint = old.came /\ unicast[j].host = old.asked.host
    BY <1>2, <2>1 DEF MessageOK, FiledAs
  <2>3. unicast[k].host = unicast[j].host
    BY <1>3, <1>5, <1>6, <2>1, <2>2
  <2> QED BY <1>3, <2>2, <2>3 DEF IInv, TablesOK
<1> QED BY <1>1, <1>3, <1>4, <1>5, <1>7 DEF EntryOK

LEMMA SendDatagramStep ==
    ASSUME IInv, NEW m \in Messages, SendDatagram(m)
    PROVE  IInv'
<1>1. PICK old : old = messages[m]
  OBVIOUS
<1>2. old \in Message /\ MessageOK(old) /\ old.state = "made"
  BY <1>1, MessageTypes DEF IInv, MessagesOK, SendDatagram
<1>3. UNCHANGED <<sockets, tables, locked, restarts, errors, moved, stopped>>
  BY DEF SendDatagram
<1>4. CASE /\ Found(old.source) = {}
           /\ Update(m, [old EXCEPT !.state = "lost"]) /\ queue' = queue
  <2>1. PICK q : q = [old EXCEPT !.state = "lost"]
    OBVIOUS
  <2>2. /\ q \in Message /\ q.came = old.came /\ q.known = old.known /\ q.asked = old.asked
        /\ q.source = old.source /\ q.state = "lost"
    BY <1>2, <2>1 DEF Message
  <2>3. old.known => stopped \/ old.came \in moved
    <3>1. SUFFICES ASSUME old.known, ~stopped, old.came \notin moved PROVE FALSE
      OBVIOUS
    <3>2. old.source = old.asked /\ FiledAs(old.came, old.asked) /\ old.asked \in Address
      BY <1>2, <3>1, Constants DEF MessageOK
    <3>3. PICK j \in DOMAIN unicast : /\ unicast[j].host = old.asked.host
                                     /\ unicast[j].port = old.asked.port
      BY <3>2 DEF FiledAs
    <3>4. old.source.host # None
      BY <3>2, EndpointsAssumption DEF Address
    <3>5. unicast[j].endpoint \in Found(old.source)
      BY <3>2, <3>3, <3>4 DEF Found, Named
    <3> QED BY <1>4, <3>5
  <2>4. MessageOK(q)
    BY <1>2, <2>2, <2>3 DEF MessageOK
  <2>5. UNCHANGED <<sockets, tables, locks, stopped>>
    BY <1>3, <1>4 DEF locks
  <2> QED BY <1>1, <1>2, <1>4, <2>1, <2>2, <2>4, <2>5, FreeMessageStep
<1>5. ASSUME NEW e \in Found(old.source)
      PROVE  /\ e \in Endpoints /\ Ready(e)
             /\ old.came # None => endpoints[e].host = old.asked.host
             /\ old.known => stopped \/ e = old.came
  BY <1>1, <1>2, FoundOK
<1>6. ASSUME NEW e \in Found(old.source), Free(e), Update(m, Transmitted(m, e)), queue' = queue
      PROVE  IInv'
  <2>1. Transmitted(m, e) \in Message /\ MessageOK(Transmitted(m, e)) /\ e \in Endpoints
    BY <1>1, <1>2, <1>5, <1>6, TransmittedOK DEF Free
  <2>2. PICK q : q = Transmitted(m, e)
    OBVIOUS
  <2>3. UNCHANGED <<sockets, tables, locks, stopped>>
    BY <1>3, <1>6 DEF locks
  <2>4. q \in Message /\ MessageOK(q) /\ Update(m, q) /\ messages[m].state # "waiting"
    BY <1>1, <1>2, <1>6, <2>1, <2>2
  <2> QED BY <2>3, <2>4, FreeMessageStep
<1>7. ASSUME NEW e \in Found(old.source), Update(m, [old EXCEPT !.by = e, !.state = "waiting"]),
             queue' = [queue EXCEPT ![e] = Append(queue[e], m)]
      PROVE  IInv'
  <2>1. PICK q : q = [old EXCEPT !.by = e, !.state = "waiting"]
    OBVIOUS
  <2>2. e \in Endpoints /\ Ready(e)
    BY <1>5
  <2>3. /\ q \in Message /\ q.came = old.came /\ q.known = old.known /\ q.asked = old.asked
        /\ q.source = old.source /\ q.state = "waiting" /\ q.by = e
    BY <1>2, <2>1, <2>2 DEF Message
  <2>4. MessageOK(q)
    BY <1>2, <1>5, <2>2, <2>3 DEF MessageOK
  <2>5. Update(m, q) /\ messages' = [messages EXCEPT ![m] = q]
    BY <1>7, <2>1 DEF Update
  <2>6. messages \in [Messages -> Message]
    BY DEF IInv, TypeOK, Message
  <2>7. messages'[m] = q /\ \A n \in Messages :
          messages[n].state = "waiting" => messages'[n] = messages[n]
    BY <1>1, <1>2, <2>5, <2>6
  <2>8. QueuesOK' /\ \A g \in Endpoints : queue'[g] # <<>> => g = e \/ queue[g] # <<>>
    BY <1>1, <1>2, <1>7, <2>2, <2>3, <2>7, QueueGrows DEF IInv
  <2>9. queue' \in [Endpoints -> Seq(Messages \cup {None})]
    BY <1>7, <2>2, QueueType DEF IInv
  <2>10. \A g \in Endpoints : queue'[g] # <<>> => Ready(g)
    BY <2>2, <2>8 DEF IInv, SocketsOK, SocketOK
  <2> QED BY <1>3, <2>3, <2>4, <2>5, <2>8, <2>9, <2>10, MessageStep
<1>8. \/ /\ Found(old.source) = {}
         /\ Update(m, [old EXCEPT !.state = "lost"]) /\ queue' = queue
      \/ \E e \in Found(old.source) :
            \/ Free(e) /\ Update(m, Transmitted(m, e)) /\ queue' = queue
            \/ /\ Update(m, [old EXCEPT !.by = e, !.state = "waiting"])
               /\ queue' = [queue EXCEPT ![e] = Append(queue[e], m)]
  BY <1>1 DEF SendDatagram
<1> QED BY <1>4, <1>6, <1>7, <1>8

LEMMA ProceedStep ==
    ASSUME IInv, NEW e \in Endpoints, Proceed(e)
    PROVE  IInv'
<1>1. PICK m : m = Head(queue[e])
  OBVIOUS
<1>2. /\ e \notin locked /\ queue[e] # <<>> /\ m # None /\ Update(m, Transmitted(m, e))
      /\ queue' = [queue EXCEPT ![e] = Tail(queue[e])]
      /\ UNCHANGED <<sockets, tables, locked, restarts, errors, moved, stopped>>
  BY <1>1 DEF Proceed
<1>3. m \in Messages /\ queue' \in [Endpoints -> Seq(Messages \cup {None})]
  BY <1>1, <1>2, QueueType DEF IInv
<1>4. Ready(e)
  BY <1>2 DEF IInv, SocketsOK, SocketOK
<1>5. messages[m].state = "waiting" /\ messages[m].by = e
  <2> DEFINE X == Messages \cup {None}
  <2>1. queue[e] \in Seq(X)
    BY DEF IInv, TypeOK
  <2> HIDE DEF X
  <2>2. m = queue[e][1] /\ 1 \in DOMAIN queue[e]
    BY <1>1, <1>2, <2>1
  <2> QED BY <1>2, <2>2 DEF IInv, QueuesOK
<1>6. MessageOK(messages[m])
  BY <1>3 DEF IInv, MessagesOK
<1>7. Transmitted(m, e) \in Message /\ MessageOK(Transmitted(m, e))
  <2>1. messages[m].came # None => endpoints[e].host = messages[m].asked.host
    BY <1>5, <1>6 DEF MessageOK
  <2>2. messages[m].known => stopped \/ e = messages[m].came
    BY <1>5, <1>6 DEF MessageOK
  <2> QED BY <1>2, <1>3, <1>4, <1>5, <2>1, <2>2, TransmittedOK
<1>8. PICK q : q = Transmitted(m, e)
  OBVIOUS
<1>9. messages' = [messages EXCEPT ![m] = q] /\ messages \in [Messages -> Message]
  BY <1>2, <1>8 DEF Update, IInv, TypeOK, Message
<1>10. QueuesOK'
  <2>1. \A n \in Messages : messages[n].state = "waiting" /\ n # Head(queue[e]) =>
          messages'[n].state = "waiting" /\ messages'[n].by = messages[n].by
    BY <1>1, <1>9
  <2> QED BY <1>2, <2>1, QueueForward DEF IInv
<1>11. \A g \in Endpoints : queue'[g] # <<>> => Ready(g)
  <2>1. queue \in [Endpoints -> Seq(Messages \cup {None})]
    BY DEF IInv, TypeOK
  <2>2. \A g \in Endpoints : queue'[g] # <<>> => queue[g] # <<>>
    BY <1>2, <2>1
  <2> QED BY <2>2 DEF IInv, SocketsOK, SocketOK
<1>12. q \in Message /\ MessageOK(q) /\ Update(m, q)
  BY <1>2, <1>7, <1>8
<1> QED BY <1>2, <1>3, <1>10, <1>11, <1>12, MessageStep

-----------------------------------------------------------------------------
(* Theorems *)

LEMMA InitOK == Init => IInv
<1> SUFFICES ASSUME Init PROVE IInv
  OBVIOUS
<1>1. TypeOK
  <2>1. NoEndpoint \in Socket /\ NoMessage \in Message
    BY DEF NoEndpoint, NoMessage, Socket, Message
  <2>2. <<>> \in Seq(Messages \cup {None})
        /\ <<>> \in Seq([host : Hosts, port : Nat, endpoint : Endpoints])
    OBVIOUS
  <2>3. endpoints \in [Endpoints -> Socket] /\ messages \in [Messages -> Message]
    BY <2>1 DEF Init
  <2>4. /\ queue \in [Endpoints -> Seq(Messages \cup {None})]
        /\ unicast \in Seq([host : Hosts, port : Nat, endpoint : Endpoints])
    BY <2>2 DEF Init
  <2>5. /\ adding = {} /\ multicast = {} /\ locked = {} /\ errors = 0 /\ moved = {}
        /\ restarts \in [Endpoints -> Nat] /\ stopped \in BOOLEAN
    BY DEF Init
  <2> QED BY <2>3, <2>4, <2>5 DEF TypeOK, Socket, Message
<1>2. SocketsOK
  BY DEF Init, SocketsOK, SocketOK, AddingOK, Adding, NoEndpoint
<1>3. TablesOK
  BY DEF Init, TablesOK
<1>4. QueuesOK
  BY DEF Init, QueuesOK
<1>5. MessagesOK
  BY DEF Init, MessagesOK, MessageOK, NoMessage
<1> QED BY <1>1, <1>2, <1>3, <1>4, <1>5 DEF IInv

LEMMA NextOK == IInv /\ [Next]_vars => IInv'
<1> SUFFICES ASSUME IInv, [Next]_vars PROVE IInv'
  OBVIOUS
<1>1. CASE Next
  <2>1. ASSUME NEW e \in Endpoints, NEW host \in Hosts, NEW port \in Ports, NEW both \in BOOLEAN,
               AddByNetloc(e, host, port, both)
        PROVE  IInv'
    BY <2>1, AddByNetlocStep
  <2>2. ASSUME NEW e \in Endpoints, NEW f \in Endpoints, AddUnicast(e, f) PROVE IInv'
    BY <2>2, AddUnicastStep
  <2>3. ASSUME NEW e \in Endpoints,
               AddMulticast(e) \/ ErrorReceived(e) \/ RestartTransport(e) \/ ProceedToRestart(e)
               \/ Restarted(e) \/ Proceed(e)
        PROVE  IInv'
    BY <2>3, AddMulticastStep, ErrorReceivedStep, RestartTransportStep, ProceedToRestartStep,
       RestartedStep, ProceedStep
  <2>4. ASSUME NEW m \in Messages, NEW e \in Endpoints, NEW response \in BOOLEAN,
               DatagramReceived(e, m, response)
        PROVE  IInv'
    BY <2>4, DatagramReceivedStep
  <2>5. ASSUME NEW m \in Messages, NEW host \in Hosts \cup {None}, NEW port \in Ports \cup {None},
               Request(m, host, port)
        PROVE  IInv'
    BY <2>5, RequestStep
  <2>6. ASSUME NEW m \in Messages, SendDatagram(m) \/ SendAgain(m) PROVE IInv'
    BY <2>6, SendDatagramStep, SendAgainStep
  <2> QED BY <1>1, <2>1, <2>2, <2>3, <2>4, <2>5, <2>6, CloseStep DEF Next
<1>2. CASE UNCHANGED vars
  <2>1. UNCHANGED <<sockets, tables, locked, queue, restarts, errors, moved, messages, stopped>>
    BY <1>2 DEF vars, locks
  <2>2. Stays /\ TablesOK' /\ SocketsOK'
    BY <2>1, OnlyMessages
  <2>3. QueuesOK' /\ MessagesOK'
    BY <2>1, <2>2, QueuesStay, MessagesStay DEF IInv
  <2>4. TypeOK'
    BY <2>1 DEF IInv, TypeOK, sockets, tables
  <2> QED BY <2>2, <2>3, <2>4 DEF IInv
<1> QED BY <1>1, <1>2

\* The inductive invariant holds: a socket is without a listener only while its endpoint is
\* added or holds its lock, every host is filed once under an address its endpoint has
\* unless a restart moved it, and whoever waits for a lock waits there once.
THEOREM Invariant == Spec => []IInv
<1>1. Init => IInv
  BY InitOK
<1>2. IInv /\ [Next]_vars => IInv'
  BY NextOK
<1> QED BY <1>1, <1>2, PTL DEF Spec

\* Every variable of the endpoint layer keeps its type.
THEOREM TypeCorrect == Spec => []TypeOK
<1>1. IInv => TypeOK
  BY DEF IInv
<1> QED BY <1>1, Invariant, PTL

\* find_sending_endpoint sends an answer home: by the host its request came to, and by the
\* very endpoint and address if that endpoint is in the table and was not moved.
THEOREM AnswersGoHomeCorrect == Spec => []AnswersGoHome
<1>1. IInv => AnswersGoHome
  <2>1. SUFFICES ASSUME IInv, NEW m \in Messages
                 PROVE  LET answer == messages[m] IN
                        /\ answer.state = "sent" /\ answer.came # None =>
                              answer.left = None \/ answer.left.host = answer.asked.host
                        /\ answer.known =>
                              /\ answer.state = "sent" =>
                                    /\ stopped \/ answer.by = answer.came
                                    /\ stopped \/ answer.came \in moved \/ answer.left = answer.asked
                              /\ answer.state = "lost" => stopped \/ answer.came \in moved
    BY DEF AnswersGoHome
  <2>2. PICK r : r = messages[m]
    OBVIOUS
  <2>3. MessageOK(r)
    BY <2>1, <2>2 DEF IInv, MessagesOK
  <2> QED BY <2>2, <2>3 DEF MessageOK
<1> QED BY <1>1, Invariant, PTL

\* The source a message carries is the address of the socket it leaves by: the lock keeps a
\* message from an endpoint whose address has no port yet.
THEOREM NamesItsSocketCorrect == Spec => []NamesItsSocket
<1>1. IInv => NamesItsSocket
  BY DEF IInv, MessagesOK, MessageOK, NamesItsSocket
<1> QED BY <1>1, Invariant, PTL

\* What find_sending_endpoint finds listens once its lock is free, under the port it is
\* filed by, unless a restart has moved it or was refused every port.
THEOREM FiledListensCorrect == Spec => []FiledListens
<1>1. IInv => FiledListens
  <2>1. SUFFICES ASSUME IInv PROVE FiledListens
    OBVIOUS
  <2>2. ASSUME NEW e, Ready(e), endpoints[e].state # "closed", e \notin locked
        PROVE  \/ Listens(e)
               \/ endpoints[e].state = "unbound" /\ e \in moved
    <3>1. endpoints[e] \in Socket /\ SocketOK(e) /\ ~Adding(e) /\ endpoints[e].state # "none"
      BY <2>1, <2>2, SocketTypes DEF Ready, IInv, SocketsOK
    <3>2. endpoints[e].state \in {"open", "unbound"}
      BY <2>2, <3>1 DEF Socket, SocketOK
    <3> QED BY <3>1, <3>2 DEF SocketOK, Listens
  <2>3. ASSUME NEW k \in DOMAIN unicast
        PROVE  LET e == unicast[k].endpoint IN
               \/ e \in locked
               \/ Listens(e) /\ (e \in moved \/ endpoints[e].port = unicast[k].port)
               \/ endpoints[e].state = "unbound" /\ e \in moved
    BY <2>1, <2>2 DEF IInv, TablesOK, EntryOK
  <2>4. ASSUME NEW r \in multicast
        PROVE  \/ r.endpoint \in locked
               \/ Listens(r.endpoint)
               \/ endpoints[r.endpoint].state = "unbound" /\ r.endpoint \in moved
    BY <2>1, <2>2 DEF IInv, TablesOK
  <2> QED BY <2>3, <2>4 DEF FiledListens
<1> QED BY <1>1, Invariant, PTL

=============================================================================
