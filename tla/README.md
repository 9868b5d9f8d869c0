# Bubot_CoAP in TLA+

Bubot_CoAP is an asyncio implementation of CoAP (RFC 7252, with RFC 7641,
RFC 7959 and RFC 8323) in Python. This directory holds TLA+ modules translated
from its source, TLC configurations that check them on small instances, and
TLAPS proofs of what holds for every instance. `PROJECT.json` lists the
components, the runs, the mutants that show each property can fail, the lines
each definition stands for, the hazards and the theorems.

Paths below are relative to `src/src/Bubot_CoAP/`.

## 1. The system

One object of class `Server` (`server.py`) is client and server at once. It owns
a stack of layers, plain objects with `receive_*` and `send_*` methods that it
calls in a fixed order, and any number of endpoints (UDP, DTLS, TCP, TLS
sockets). Everything runs in one asyncio event loop: code is atomic between two
awaits that really suspend, and each datagram becomes a task of its own
(`coap_udp_protocol.py:41`), so tasks interleave only at locks, sleeps,
futures, and handlers of the application.

| component | state | operations | what makes it correct |
|---|---|---|---|
| server exchange: `server.py` 96-141, 378-392, `layers/message_layer.py`, `coap_udp_protocol.py`, `transaction.py` | `_transactions`, `_transactions_token`, `_current_mid`; per transaction request, response, `completed`, lock, separate timer | receive a request, a duplicate, an RST; send a response, an ACK; purge | a request runs once, gets its own answer, is acknowledged, releases its lock |
| client exchange: `server.py` 143-173, 265-355, `layers/callback_layer.py`, `layers/message_layer.py` 124-169 and 225-262 | `_transactions_sent`, `_transactions_sent_token`, the waiters of `CallbackLayer`, `acknowledged`, `rejected`, `timeouted` of a message | send, retransmit, receive a response, time out, cancel | a call returns the answer to its own request, and returns |
| block-wise transfer: `layers/block_layer.py` | `_block1_sent`, `_block2_sent`, `_block1_receive`, `_block2_receive` with byte count, number, size, payload | split a payload, ask for the next block, reassemble, refuse | the payload that comes out is the one that went in |
| observe: `layers/observe_layer.py`, `server.py` 394-413 | `_relations`, the resource's `observe_count` and `changed` | register, cancel, notify, RST | observers hear of the last state; a cancelled relation stays silent |
| resource tree and methods: `layers/request_layer.py`, `layers/resource_layer.py`, `server.py` 198-245, `utils.py` 241-283 | `root`: path to resource | add, remove, GET, PUT, POST, DELETE, discover | the tree is closed under prefixes; a deleted resource is gone |
| TCP connection: `coap_tcp_protocol.py`, `coap_protocol.py` | the receive buffer, the pool of connections, the CSM future | data received, connection made and lost, CSM | messages come out whole and in order however the stream is cut |
| endpoints: `layers/endpoint_layer.py`, `endpoint/` | tables by scheme, address family, address, port; the lock of an endpoint, its socket and address | add, find for sending, restart, close | an answer leaves by the endpoint its request came to, under the address of its socket |
| serializers: `serializer.py`, `serializer_udp.py`, `serializer_tcp.py` | none | encode and decode | decoding inverts encoding at every length boundary |
| messages and options: `messages/`, `defines.py` | the list of options of a message | set, delete, describe | what the setters make can be written, read and described |
| the application's resources | attributes | accessors, handlers | - |
| cache and forward layers, `endpoint/simple_server.py` | - | not reachable from the running program | - |

How they interact. A datagram is parsed and dispatched by its class
(`coap_udp_protocol.py:24-119`). A request goes MessageLayer (deduplication)
-> `Server.receive_request`, which takes the transaction's lock, starts the
separate timer, and calls BlockLayer, ObserveLayer and RequestLayer ->
ResourceLayer -> the application's handler; the response goes back through
Observe, Block and MessageLayer to the endpoint. A response goes MessageLayer
(matching) -> Block -> Observe -> CallbackLayer, which sets the future the
caller of `send_message` awaits. An empty message (ACK, RST) is matched by
MessageLayer against the tables of *received* exchanges, then goes to
ObserveLayer. A loop in `Server` purges the tables every 15 s.

What is hard: copies of a datagram arriving while their original is at any
stage; token and message-ID tables that are read before a lock is awaited and
again after it; a timer that needs the lock its canceller holds; exceptions
that leave a timer behind; the purge running between any two steps; client
timeouts racing late answers; a block-wise transfer that loses or repeats a
block; stream data cut anywhere.

## 2. Modules

| module | what it is |
|---|---|
| `ServerExchange` | the server side of an exchange over UDP, with its mutants and properties |
| `RequestService` | the abstract specification: what the server promises a client about one request |
| `ServerExchangeRefinement` | `ServerExchange` with the mapping under which it implements `RequestService`, and what that asks of clients (`ClientsKeepRules`) |
| `MCServerExchange` | the sets of requests the runs use |
| `ServerExchangeProofs` | the theorems about `ServerExchange` that hold whatever clients do, up to whose first copy is served |
| `ServerServiceProofs` | the theorems for clients that keep to the rules, up to the refinement of `RequestService` |
| `ClientExchange` | the client side: `send_message`, the tables of sent requests, the waiters, the handling of responses |
| `MCClientExchange` | the calls and requests of its runs |
| `ClientExchangeProofs` | the theorems about `ClientExchange` |
| `BlockTransfer` | one block-wise call, client and server and the network between them |
| `MCBlockTransfer` | the lengths its runs transfer |
| `BlockTransferProofs` | the theorems about `BlockTransfer` |
| `Resources` | the resource tree, the methods on it, and the observers of its resources |
| `MCResources` | the tree and the requests of its runs |
| `ResourcesProofs` | the theorems about `Resources` |
| `TcpStream` | CoAP over TCP: the stream of a connection, the pool of an endpoint, the CSM |
| `MCTcpStream` | the connections and messages of its run |
| `TcpStreamProofs` | the theorems about `TcpStream` |
| `OptionCodec` | one message from the setters of its options through a serializer and back |
| `MCOptionCodec` | the options and payloads of its run |
| `OptionCodecProofs` | the theorems about `OptionCodec` |
| `Endpoints` | the endpoints of a node over UDP: tables, locks, restarts, closing, and which one a message leaves by |
| `MCEndpoints` | the ports of its run |
| `EndpointsProofs` | the theorems about `Endpoints` |

### ServerExchange and the code

A task is a delivery `<<r, i>>`, the i-th copy of request `r` that the network
hands to `datagram_received`; the task that makes a `Transaction` also names
it. `byMid` and `byToken` are `_transactions` and `_transactions_token`;
`lock[x]` is the asyncio lock of transaction `x`, its owner first and then the
waiters in the order they came, because `asyncio.Lock` is fair; an agent of
that queue is a delivery's task, a handler's or timer's `send_ack`, or a
received RST.

| action | code |
|---|---|
| `ReceiveDuplicate`, `ReceiveKnownToken`, `ReceiveNew` | `MessageLayer.receive_request` up to the first await that suspends, with what follows it in `datagram_received_request` |
| `TokenGranted` | the body of `async with ... .lock` at `message_layer.py:114` |
| `LockGranted` | `Server.receive_request` gets its lock and starts the timer |
| `Start` | request layer and resource layer up to the handler |
| `Return` | the handler answers, leaves nothing, raises, or asks for a separate response |
| `AnswerNothing`, `SendAnswer`, `SendDelayed` | `MessageLayer.send_response`, `send_datagram`, the random delay of multicast answers |
| `AckGranted` | `send_ack` under the lock, then its caller goes on |
| `TimerFires` | `Timer._job` -> `send_ack` |
| `ReceiveReset`, `ResetGranted` | `receive_empty`: an RST for a NON or CON response |
| `Purge`, `Tick` | `Server.purge` and `time.time()` |

`sent`, `ran`, `epoch`, `drops` and `assigned` are history variables: what left
the socket, which requests a handler ran for, how often the purge dropped a
request from the table that recognises its copies, and the message IDs the
server has given to responses, each with the client it met (`send_response`
enters them in the table of IDs that clients chose, `message_layer.py:295`).
`Arrives` delivers the copies of a request in the order of their numbers, which
names them and loses nothing. Requests here carry no Observe and no Block
option, so those layers do nothing. Of `receive_empty` the other branches are
left out: an ACK (`message_layer.py:203-207`), which marks the response
acknowledged, or the request if a client acknowledges its own, an empty confirmable message (213-216), and the `AttributeError` for an
RST to a transaction without a response (211). `SendDatagram` of `Endpoints`
and the sends here leave out the argument `endpoint` of `send_datagram`
(`server.py:186`), which only the application passes.

`FirstCopyIsServed` is about clients that do anything: it names the ways in
which a request that comes for the first time is taken for something else, a
request it clashes with (`Clash`: the same token, or the same message ID) that
has come before, and a message ID of the server's, and says there is no other.

### RequestService

For each request: idle, received, run, and answered or dropped. It promises
that nothing is run that was not received, nothing is run twice while
remembered, and nothing is answered that was not received. The refinement
mapping in `ServerExchangeRefinement` reads those states off `pc`, `ran` and
`sent`.

### ClientExchange and the code

A call `c` is one use of `send_message`; `RequestOf[c]` is the Request object
it sends, and two calls may send one object, one after the other. A call names
the `Transaction` it makes. `sentMid` and `sentToken` are `_transactions_sent`
and `_transactions_sent_token`, `waiter` is `CallbackLayer._waited_answer`,
keyed by the token alone as in the code, `future` and `result` are the fields
of a `Waiter`.

| action | code |
|---|---|
| `Send` | `Server.send_message` with `MessageLayer.send_request`, `start_retransmission`, and `CallbackLayer.wait` up to its await |
| `Retransmit`, `WakeUp` | `_retransmit`, which finds its message acknowledged and ends; the pause of `server.py:310` |
| `Deliver` | `datagram_received_response`: matching, `CallbackLayer.set_result`, the acknowledgement |
| `Continue` | the same after `wait_for_retransmit_thread`, with the response its transaction holds by then |
| `Resume`, `Elapse`, `Expire`, `Cancel` | the ways `CallbackLayer.wait` ends, each through its `finally` |
| `CancelWaited` | `error_received` -> `cancel_waited` |

Peers and the network are external: `Answers` is what may be on the way, to
requests that have been sent. An answer may be lost (never delivered), late,
and delivered up to `Copies` times. An empty ACK or RST changes nothing of the
client's state (`MessageLayer.receive_empty` looks in the tables of received
exchanges), so it is no action. `send_message(no_response=True)` is left out.
A time-out or a cancellation ends a call only while its future is pending
(`GiveUp`), as `asyncio.wait_for` does up to Python 3.11; from 3.12 on, one that
comes in the same turn of the event loop as `set_result` loses the answer
(`callback_layer.py:25`), which is not in the model.

### BlockTransfer and the code

One call of `send_message`, a confirmable GET or PUT, whose payload, answer or
both are longer than `Size` (`defines.MAX_PAYLOAD`). The bytes of a payload are
their positions, so that a lost, repeated or misplaced block shows. `upItem`
and `downItem` are the client's `_block1_sent` and `_block2_sent`, `collecting`
and `offering` the server's `_block1_receive` and `_block2_receive`, `known`
and `exchange` its two transaction tables, which hold one transaction here
because every message of a transfer has one token. `network` is every message
sent, `due` those that have not arrived since; messages that have arrived may
arrive again, `MaxRepeats` times in all. Every message carries the Block options as
pairs of number and M bit; the size is always `Size`.

| action | code |
|---|---|
| `AnswerAgain` | a request whose message ID is known: the transaction's response again (`coap_udp_protocol.py:81`) |
| `Refuse` | `BlockLayer.receive_request` -> `incomplete` (4.08) |
| `Collect` | a block of an upload that is not the last one: 2.31 |
| `RepeatAnswer` | a request in a transaction whose `block_transfer` is set (`server.py:110`) |
| `Serve` | the last block, or a request without Block1: the handler runs unless the transaction has its resource; `BlockLayer.send_response` cuts the answer |
| `Purge` | `MessageLayer.purge` and `BlockLayer.purge` |
| `SendNext`, `FetchNext`, `AskAgain`, `Conclude` | the branches of `BlockLayer.receive_response` with `send_block_request`, `error` and `set_result` |

The server's steps are atomic here; `ServerExchange` is about what happens
between them. Left out: Block options set by the application (an explicit
`request.block2` makes an item whose payload is the text `""`, and joining the
first block to it raises), block sizes that change on the way, content types
that differ, non-confirmable transfers, and message ID 0, which is no duplicate
for the server and would make it send a later block for a repeated request.

### Resources and the code

A resource object is the path it was made for and the request that made it; the
path stands for its class (observable, allows children, coroutine or not). A
request has a message ID of its own and arrives once: copies, locks and timers
are the subject of `ServerExchange`, and what matters here is which transaction
a request works on, because a relation points at a transaction and a
transaction at a response and a resource. `relations` is
`ObserveLayer._relations`, `changed` the set of resources with `.changed` set,
`count` their `observe_count`; `about` says what a request is and never
changes. `sent` and `wish` are history: the answers, and the last word that was
said about each relation.

| action | code |
|---|---|
| `Receive`, `Granted` | `MessageLayer.receive_request` with the tables by token, and the wait for the lock of a transaction that has a response |
| `Start` | `ObserveLayer.receive_request`, `RequestLayer.receive_request`, and `ResourceLayer` up to the handler: `Direct` and `Refuse` answer without one, `Create` is POST on a path without a resource, `Render` calls a handler |
| `Return` | the handler ends: a response, none, a refusal, an exception; PUT and POST flag and count, DELETE takes the path out of the tree |
| `Reply` (part of `Start` and `Return`) | `Server.receive_request` from line 119: `notify`, `ObserveLayer.send_response`, `MessageLayer.send_response`, the datagram |
| `ReceiveReset` | an RST for the request's or the response's message ID |
| `LateAck` | the separate timer that a dead task leaves behind |
| `Purge` | `MessageLayer.purge`; any transaction may be older than the lifetime |
| `ObserveOther`, `RejectOther` | `ObserveLayer.send_request` and `send_empty` of this node as a client |
| `AddResource`, `RemoveResource` | the functions of `Server` |

`notify` is modelled as it runs: it prepares the responses of the observers it
finds (their type, message ID and token are taken off) and then raises, because
`Transaction` is no context manager (`observers_told`); if nobody observes the
resource it does nothing. An item of this node's own observations has no
transaction and makes it raise in the middle, so that some responses are
prepared and some are not (`Preparations`). Handlers are the application's;
`Outcomes` is what they may do. `AddResource` runs before the first request,
which is what its docstring says it is for. Two things are simpler than the
code: a transaction is busy from the arrival of a request on (`Busy`), while the
code frees the lock between `message_layer.py:122` and `server.py:103`, so that
of two requests that wait to join it the second may set `transaction.request`
before the first is served; and `Return` has no GET, PUT or POST handler that
returns another `Resource` object.

`CutShort` names the exchanges that a relation may be left of although nothing
was answered: a task on them died, and the handler had raised or left no
response, or the observers of a change could not be told.

### TcpStream and the code

A connection is a `CoapTcpProtocol`, and its stream the sequence of messages
its peer writes, each with the place of its first byte (`traffic`). Bytes are
counted, not spelled: `received` is how many `data_received` has been given,
`taken` how many have left `_spool`, `delivered` how many messages they made.
`Encoded` and `WireSize` are the writer (`serializer_tcp.py:66-74`, 335-347),
`ExtensionLength`, `ExtensionOffset` and `ReadSize` the reader
(`_extract_message_size`), which sees only the nibble and the bytes behind it.
`pool`, `csm` and `start` are the endpoint's pool, its future, and where
`start_client` is. `nagled` is a history variable: the connections that have
been given the ends of two messages in one call.

| action | code |
|---|---|
| `ConnectionMade` | `connection_made`; for a client it is `create_connection` in `start_client` |
| `DataReceived` | `data_received` with any number of further bytes, to `message_received`; an exception closes the connection, which is what asyncio does |
| `ConnectionLost` | `connection_lost`, because the peer closed or because this side is closing |
| `Resume`, `TimeOut` | the two ends of `wait_for(self.csm, 30)` |
| `Close` | `TcpCoapEndpoint.close` |

A plain message becomes a task as over UDP, and its way ends here. The CSM that
a server sends when a connection is made, and what a `client_manager` of the
application is told, change nothing of this state. The loop of
`data_received` ends with a `return` after the first message, so it is modelled
as taking at most one. A connection may be made after its server was closed: a
peer may have been accepted already. Two connections of one remote address may
be open at one endpoint: the peer's port is free again as soon as the peer has
dropped the first.

### OptionCodec and the code

One message: the options that are set on it, the pieces they are written as,
and the loop that reads them. Bytes are counted, not kept, as in `TcpStream`:
an option is its number, the length `Option.length` gives it (`chars`) and the
length of what is written (`bytes`); they differ for a text that is not ASCII.
A piece keeps its option, its delta and the byte it begins at, and the reader
finds at that byte the nibbles and extensions of its head, and nowhere else a
head that means anything: a loop that comes to another byte, or to a head with
alignment bytes in it, is `"stray"`, and nothing is said of what follows.

| action | code |
|---|---|
| `Set`, `Delete` | the setters of `Message`, `Request` and `Response` with `add_option`, which raises for an option that may not repeat, and `del_option_by_number` |
| `Start` | `Endpoint.send_message` makes the line for the log, which may raise |
| `WriteOption`, `Send` | the loop of `serialize` over the sorted options, then marker and payload; a peer may stop at any byte |
| `ReadHeader` | `deserialize` before its loop |
| `HeadIsCut`, `UnknownOption`, `KnownOption`, `ReadPayload` | the loop, each with its ways to fail: `"bad"` is 4.00 as the result, `"raised"` an exception that leaves `deserialize` |
| `Describe` | `datagram_received` makes the line for the log and then the task; its exceptions lose the message |

`Clean` says what a message needs to be read as it was written: its texts have
one byte a character (unless a peer wrote them), and over TCP no delta and no
length needs a field of two bytes. Numbers are below 65536 and lengths up to
65804, which is what `get_option_nibble` accepts. Over UDP the reader is
`Serializer.deserialize` of `serializer.py`: `coap_udp_protocol.py` imports
`Serializer`, which `serializer_udp.py` passes on. `struct` without `"!"` is
taken as on a little-endian machine (`get_option_flags`, and the fields over
TCP). The code and type in the header are left out. `Set` deletes before each
option it adds; the setter of Uri-Query deletes once and adds an option for each
part (`messages/request.py:81-84`), so a message of this side with two queries
is read here only as a peer's.

### Endpoints and the code

An endpoint has an address (`host`, `port`), which is what the tables and the
messages use, and a `socket`, the port it is bound to; they differ while the
kernel has chosen a port and `listen` has not run yet. `init_unicast` asks for
the port, and for any port if that is refused; the kernel may refuse this too
(`endpoint/udp.py:80`: the address is gone, no port is free). An endpoint that
is being added is then dropped before anything is filed, and one that is
being restarted stays where it is with a socket bound to nothing
(`Stranded`, state `"unbound"`). A host stands for
scheme, family and address, the first three keys of the tables. `unicast` is a
sequence because `find_sending_endpoint` takes the first host when none is
named; it has one port for each host because `add` files no second one. `queue`
is what waits for each endpoint's lock, messages and restarts (`None`), in the
order they came.

| action | code |
|---|---|
| `AddByNetloc`, `AddUnicast`, `AddMulticast` | `add_by_netloc` between its awaits, with `init_unicast`, `listen`, `init_multicast` and `add` |
| `DatagramReceived` | a message comes in by an endpoint and gives an answer its source |
| `Request` | a message of this node's own, with or without a source |
| `SendDatagram`, `Proceed` | `find_sending_endpoint`, the lock, `Endpoint.send_message` |
| `SendAgain` | a response that is sent again for a duplicate, or a message that was sent before |
| `ErrorReceived` | `error_received`, which on Windows makes a task that restarts the endpoint and elsewhere nothing of this state |
| `RestartTransport`, `ProceedToRestart`, `Restarted` | `restart_transport`: the lock, `close`, `init_unicast`, and `listen`, which raises if the socket was closed meanwhile |
| `Close` | `Server.close` -> `EndpointLayer.close` |

`moved` is a history variable: the endpoints a restart has given another port,
or none.
A request of the application carries the address it names, not the code's
destination: which hosts can be reached is the network's business. Not here:
`start_client` over UDP, DTLS, and `find_endpoint`, which only tests call.

## 3. Runs

| run | instance | shows |
|---|---|---|
| `exchange_service` | two clients that chose the same message ID and token, one CON and one NON request, every one duplicated; handlers that answer, raise, or do not exist; `MidSpace` 7 and `FirstMid` 6, so that the ID wraps; `Lifetime` 0, clock to 1, so that the purge drops unfinished transactions too | `TypeOK`, `ExecutedOnce`, `CompletedIsAcknowledged`, `ImplementsService` |
| `exchange_answers` | a multicast NON request beside a unicast CON one with the same message ID, both duplicated, fair event loop | `AnswersOwnRequest`, `ConfirmableIsAnswered`, `LocksDrain` |
| `exchange_shared` | one client that keeps to no rule: three requests under one token and a fourth whose message ID is the one the server gives to the answer of the first (`FirstMid` 6); handlers that answer, are silent, ask for a separate response or are refused; `Copies` 1, clock at 0 with `Lifetime` 1, so that the purge drops what is completed and no more | `OneHolder`, `FirstCopyIsServed` |
| `token_reuse` | violation of `AnswersOwnRequest` | a reused token is answered with the old response (`message_layer.py:113`) |
| `client_calls` | a multicast request that two hosts answer beside a confirmable request that is sent twice and answered by piggybacked and separate responses; time-outs, cancellations, platform errors; `MidSpace` 3 and `FirstMid` 2, so that the ID wraps | `TypeOK`, `ReturnsOwnAnswer`, `OfferedIsReturned`, `WaitersAreWaiting`, `EveryCallEnds` |
| `client_silence` | violation of `RepeatedWhileUnanswered` | retransmission is started only for a message that is acknowledged already (`server.py:304`) |
| `block_transfer` | uploads of 0, 4 or 5 units with answers of 0, 2, 3, 4 or 5, `Size` 2, three repeated messages, one purge at any point | `TypeOK`, `DownloadIsWhole`, `UploadIsWhole`, `HandlerRunsOnce`, `Answered` |
| `resources` | two clients, a tree of four paths, one request that registers, one PUT, and one of a cancellation under the same token, a DELETE, a POST below the resource or a discovery that registers; every outcome of handlers, RSTs, purges, an observation of this node's own, resources added and removed | `TypeOK`, `CancelledIsSilent`, `EstablishedObservers`, `ChangedMeansUntold`, `NumberCoversChanges`, `RequestsEnd` |
| `tcp_stream` | two connections of a server and one of a client on two remote addresses; greetings, a second greeting, a bad message, a token of 9 bytes; messages of 12, 13, 268 and 269 bytes, cut at any place | `TypeOK`, `InStep`, `NothingIsLeft`, `Reachable`, `OneCsm`, `StartEnds` |
| `option_codec` | two of fifteen options set, deleted and set again: numbers 12, 13, 268, 269 and more apart, texts of 0, 1, 13 and 269 bytes and one with long characters, block options with and without a value, options no registry knows; tokens of 0 and 8 bytes, payloads the decoder takes or not; both writers and a peer that stops at any byte | `TypeOK`, `RoundTrip`, `OwnIsRead`, `CutReadsAPrefix` |
| `endpoints` | two endpoints on two hosts or one, a fixed port that may be refused, two ports the kernel picks or refuses, a multicast port; one message sent twice, two socket errors, closing at any point | `TypeOK`, `AnswersGoHome`, `NamesItsSocket`, `FiledListens`, `SendersProceed` |
| `observers_told` | violation of `ObserversAreTold` | one registration and one PUT: `notify` raises, the observer hears nothing (`server.py:403`) |

Bounds. `Copies` is 2 where copies matter: a copy meets its original at every stage, and two copies
make three parties in the queue of a lock together with its timer and an RST.
Two requests are the least that can share a token or a message ID. `MaxTime` 1
is one clock step past `Lifetime` 0, and `Purge` may run at any point. In
`exchange_shared` a copy is one delivery among the four of the client; three
requests under one token are the least of which one can find the transaction
of a second that has taken the place of the first.

For the client, `Copies` is 1 because the interesting orders are those of
different answers (a piggybacked and a separate one, one from each host) and
of a late answer with the second use of its request; a repeated answer meets
the same code as a second different one. `Patience` 1 lets every answer come
before and after the time-out. Three calls are a multicast one and two of one
object, the least that exercises the pause of `server.py:310`.

For block-wise transfer, the lengths are one datagram, a whole number of blocks,
and blocks with a rest; three blocks each way have a first, a middle and a last
one. The code fails on an answer of whole blocks (see below): `Answered` names
that case, `WholeBlocks`, as one in which the call need not return, and the
other properties hold of it too. `MaxRequests` 6 is enough for every
transfer to finish, counting the first request; `MaxRepeats` 3 lets a request
and a response be repeated and one of them twice; one purge can fall between any two steps.

For `Resources`, three requests are a registration, a change and something that
interferes with both: the least in which an answer is under way while its
relation is cancelled, or a count is taken between two changes. Two tokens keep
a client's requests apart or bring two of them into one transaction. The tree
has the root, the discovery path, a resource and a path below it, so that POST
finds a parent that is not the root. The node observes another one at most once
and before it has observers, which is enough for an item without a transaction
to meet each of the others.

For `TcpStream`, 12, 13, 268 and 269 are the lengths on both sides of the two
lower limits of the encoding; the limit at 65805 is left to `SizesAgree`, which
is proved for every length. Those loads use one connection: a cut of one stream
changes nothing of another, and what connections share (the pool and the CSM)
depends on the kinds of messages alone, which the other two loads mix. Three
connections are two that can share an address or a future, and a client's.

For `OptionCodec`, two options are the least that have a delta, an order and a
repetition; every further one is written and read from the place and the number
the one before left, which is what `RoundTripCorrect` proves for any number of
them. The candidates lie on both sides of each limit of the nibbles.

For `Endpoints`, two endpoints are a unicast and a multicast one of a host, two
hosts, or two ports of one host. One message is enough for the table and for
the queue of a lock, where the two restarts of `MaxErrors` can stand before and
behind it; it is sent twice, so that its second sending meets an endpoint that
has been restarted or closed since. Two ports for the kernel let each endpoint
move.

Fairness. `FairSpec` assumes weak fairness of every task's steps, of granted
locks and of waiting acknowledgements: the event loop runs every ready task,
and `asyncio.Lock` wakes its waiters in order. That a handler returns is the
application's part. Nothing is assumed of the network, the timer (it may be
slow), the purge, or the clock.

The client's `FairSpec` assumes weak fairness of what the event loop and the
clock do for each call (`Run`) and nothing of the network: a call ends although
no answer ever comes. The one of `BlockTransfer` assumes that a message that
waits for a side is taken in the end, because a lost message ends the transfer
for good: nothing is retransmitted (`client_silence`), and the call times out.
In `Resources`, requests that have arrived are run and handlers return; nothing
makes a request, an RST or the purge come. In `TcpStream` the clock of
`wait_for` goes on, and nothing is assumed of the peers. In
`Endpoints` a lock that is free is handed on and a transport that has been
created listens, which is what the event loop does with a ready task; no
message, error or closing is made to come.

Findings that have no run of their own. A handler that asks for a separate
response never continues: `_handle_separate` awaits `send_ack`
(`resource_layer.py:327`), which takes the transaction's lock
(`server.py:388`) that `Server.receive_request` holds for the same task
(`server.py:103`); `src/tests/coverage_test.py:299-370` expects its answer, and
`SeparateNeverContinues` proves that there is none. An answer whose payload
fills its blocks exactly is announced to go on (`block_layer.py:242` clears the
M bit only if `num * size + size` is greater than the length); the client asks
for the empty block that follows, whose payload is read as `None`, and fails on
`bytes + None` (`block_layer.py:193`), so `send_message` never returns it:
the condition `WholeBlocks` in `Answered`. The periodic purge drops completed
transactions at once, whatever their age (`message_layer.py:64`), so a copy
that comes within `EXCHANGE_LIFETIME` runs the handler again. A client's waiter
is filed under the token alone (`callback_layer.py:66`), so two calls to two
hosts under one token get each other's answers. Message ID 0 is never recognised as a
duplicate (`message_layer.py:100`); IDs the server assigns are entered in the
table of IDs clients chose (`message_layer.py:295`); the separate timer
(`server.py:359`) cannot acknowledge while the handler runs, because its
`send_ack` waits for the lock the handler's task holds; an exception in a
handler leaves that timer running. The client never removes a transaction from
its tables (`purge_sent` has no caller); an answer that comes in the pause of
`server.py:310`, before the waiter is filed, is lost. In a block-wise transfer,
a late copy of the 2.31 for the last block but one ends an upload with that
provisional answer (`block_layer.py:132`); a late copy of another block may set
off an endless exchange of the same two datagrams (`block_layer.py:167`:
`AskAgain` and `AnswerAgain` feed each other) until the next purge, though the
call itself has its answer; a purge in the middle of an answer together with a
repeated message joins the wrong blocks without an error, which is why
`DownloadIsWhole` is about transfers without one; a purge while the answer to an
upload is fetched lets the next request for a block run the handler again, with
the last block of the upload as its payload; blocks of an upload that was
broken off stay in `_block1_receive`, and another upload under that token is
refused; a Request object sent again after a transfer still carries its last
block.

Of resources: a relation is made before the handler runs
(`observe_layer.py:100`) and is not taken back if the handler raises or leaves
no response, so a client that was never answered stands as an observer of
nothing (`CutShort` in `EstablishedObservers`); after `notify` has raised, the request that made the change is
not answered, and every later request on the resource dies in the same place
until the relation is gone; a node that observes anything itself fails every
change of its own resources (`observe_layer.py:173`); a GET whose response
`notify` has prepared in the meantime is answered by a confirmable message
without a token; a cancellation that joins the registration's transaction is
answered with the old response, Observe option included; `allowed` is never
consulted; `deleted` is never set, since a DELETE handler that returns a plain
boolean is refused with 4.05 after it has run, so relations outlive their
resource; of two concurrent DELETEs of one path the second dies
(`resource_layer.py:358`), or takes away what was added there meanwhile; POST on
a new path does not await its handler (`resource_layer.py:129`), so a coroutine
`render_POST` is always refused there, which `coverage_test.py:374-390` expects
to be created, and a plain one fails on a path that exists; PUT on a resource
that keeps the base class's `render_PUT` raises a `TypeError`, because it is
called without `response`; a parent is found by its path as a prefix of the
string, not of the segments; `add_resource` puts the one object at every free
path on the way.

Of TCP: a second message that comes with the first in one call of
`data_received` waits in the spool for more data (`coap_tcp_protocol.py:347`),
and if none comes, for ever. A server has one `csm` future for all its
connections, so the second peer that sends a CSM, which RFC 8323 asks of every
peer and this package's own client does not do, meets `InvalidStateError` and loses its connection (`coap_protocol.py:29`). A token
of more than 8 bytes, or a message that cannot be parsed, closes the connection
by accident: `UnicodeDecodeError` takes five arguments (`serializer_tcp.py:115`),
and `datagram_received_bad_message` exists for UDP only. The loss of an old
connection takes a newer one of its address out of the pool
(`coap_tcp_protocol.py:282`), and `send` to it then raises a `KeyError`. After a
time-out in `start_client` the connection stays open in an endpoint that is not
registered anywhere. `close` of a client looks for its own address in a pool
that is keyed by the peer's (`endpoint/tcp.py:157`).

Of the encodings: the head of a text option has its length in characters, so a
path or query that is not ASCII is read out of step from there
(`messages/option.py:92`, `serializer_udp.py:198`); over TCP a delta or length
above 268 is written in two bytes in the order of the machine, after a byte of
alignment at an odd place, which OCF's options 2049 and 2053 need
(`serializer_tcp.py:266`). An empty text is read as the three characters `b''`,
the text of `bytes()` (`serializer.py:318`), so the root path is not found. A
block option of number 0 without M and of size 16 has the value 0 and no bytes,
and the line for the log fails on it: such a message is neither sent nor
received (`message.py:814`); the same happens to a received payload that its
content type's decoder refuses (`message.py:825`). An extension of one byte
that is cut off is an `IndexError`, and an option that repeats without leave a
`TypeError`, which `deserialize` does not catch; a cut value is read as a
shorter one. A datagram without a token is handled as if it had eight random
bytes of one. The RST for a bad message is never sent: `send_datagram` is a
coroutine that nobody awaits (`coap_udp_protocol.py:74`). Max-Age 0 has no
bytes and reads as the default, 60 (`messages/option.py:54`).

Of endpoints: one whose restart is refused every port
(`endpoint/udp.py:80` raises after the old socket has been closed) stays in the
table, hears nothing, and sends with port 0 as its source, the exception in
`FiledListens` and `NamesItsSocket`; one that a restart has moved to another port stays in the table
under its old one, so the answers to what comes in by the new port find nothing
and raise (`endpoint_layer.py:183`, `server.py:190`); a second port of a host
that is known is opened and never filed, with the same effect
(`endpoint_layer.py:151`); a multicast endpoint is restarted as a unicast one
(`endpoint/udp.py:180`); an acknowledgement or RST for what came in by a
multicast endpoint names its port and finds a unicast endpoint only if one has
that port; `find_sending_endpoint` of a message without any source raises
`TypeError`, for `None[0]` (`endpoint_layer.py:177`); endpoints that are being
added or restarted when the layer is closed stay open.

## 4. Proofs

`ServerExchangeProofs` proves, for any clients, requests, tokens, copies,
handler outcomes and lifetimes that satisfy `ExchangeAssumption`:

- `TypeCorrect`: `Spec => []TypeOK`;
- `InsideOwnsLock`: whoever is inside `Server.receive_request` is at the head of
  the transaction's lock queue;
- `MutualExclusion`: `Spec => []OneHolder`;
- `FirstCopyCorrect`: `Spec => []FirstCopyIsServed`, with no assumption on what
  clients do;
- `SeparateNeverContinues`: a handler's `send_ack` under its own lock is never
  granted, so the deadlock of a separate response is certain, and no race.

The inductive invariant is `IInv == TypeOK /\ OnlyReceived /\ OwnersAreInside`.
`TypeOK` alone is not inductive: releasing a lock is `Tail` of a queue, and it
has a type only if the queue is not empty, which is what `OwnersAreInside`
says. `OnlyReceived` keeps deliveries that have not arrived out of every queue,
which the cancellation of a timer's wait (`Without`) needs to leave the owner
at the head. `OneHolder` follows from `OwnersAreInside`: two tasks inside one
transaction are both the head of one queue.

`FirstCopyIsServed` has an invariant of its own, `FiledForCause`: what stands in
the table of tokens is under the token of a request that has come, and what
stands in the table of message IDs is under that of such a request or was put
there for a response of the server's. `Files` says what any step may do to the
two tables; `FilesStep` shows it of every action, `FilesFrame` of those by which
a task goes on. A first copy that finds something (`FoundForCause`) then finds
what one of the exceptions names.

`ServerServiceProofs` is about clients that keep to the rules, for any number
of them and of requests, copies, handlers and purges. The rules,
`ClientsKeepRules`, are what the code relies on without checking: there are
finitely many requests, each with a token of its own and, unless it is
multicast, a message ID of its own that is neither 0 (`message_layer.py:100`
never finds it) nor one that the server assigns, in as many answers as there
are deliveries, into the same table (`message_layer.py:295`). RFC 7252 asks a
client for distinct tokens and message IDs, if only for a time; the rest is
this code's own. `token_reuse` and the findings above say what happens without
them. The instances of `exchange_service` and `exchange_answers` satisfy all of
them.

- `ExecutedOnceCorrect`: `Spec => []ExecutedOnce`;
- `AnswersOwnCorrect`: `Spec => []AnswersOwnRequest`;
- `CompletedCorrect`: `Spec => []CompletedIsAcknowledged`, if moreover no
  handler leaves its request without a response (`AlwaysAnswered`): such a
  transaction is completed (`message_layer.py:274`) although nobody has
  acknowledged its request;
- `ServiceImplemented`: `Spec => ImplementsService`.

The inductive invariant is `ServiceInv`. Its core is that transactions and
requests belong together: both tables name, for every request, the transaction
made for it (`OwnTables`), and every task works on one of its own request
(`OwnTasks`). Hence nobody ever waits to join a transaction (`NobodyJoins`),
and of the code's three ways through `receive_request` only the new
transaction and the duplicate are left, and a first copy always makes a new
transaction (`FirstCopyOwns`; none of the exceptions of `FirstCopyIsServed`
happens to these clients). `OwnAnswers` follows a response and its
handler through the stages of the task, `OwnDatagrams` what has been sent.
None of this would last if an answer of the server took over the entry of a
client's request, so `MidsCounted` says that `_current_mid` has advanced once
for each answer with a message ID of its own, and there cannot be more of these
than deliveries. `Lives` counts the times that a request is taken for new:
transactions of one request differ in their `epoch`, and the one of the present
is in the table, which is `ExecutedOnce`; `LivesCounted` bounds them by the
copies that have come. `CompletedCorrect` needs, besides, that whatever marks
a transaction (`acked`, `completed`, an RST that waits for it) follows an
acknowledgement on the wire (`AckedOnWire`). In the refinement `Purge` is
`Forget`, a new transaction is `Accept`, a handler's start `Begin`, the building
of a response `Finish`, a datagram with a body `Reply`, and every other step
stutters.

`ClientExchangeProofs` proves, for any hosts, requests, calls, copies and size
of the message-ID space:

- `TypeCorrect`: `Spec => []TypeOK`, from `TypeInv`, which adds that a call
  that has been made has a message ID (`MidAssigned`) and that a parked answer
  belongs to a transaction with a response (`ParkedAnswer`);
- `WaitersKept` and `OwnAnswer`: if tokens are distinct (`TokensDistinct`:
  waiters are filed under the token alone), `Spec => []WaitersAreWaiting`
  and `Spec => []ReturnsOwnAnswer`. The invariant, `WaiterInv`, says that a
  waiter is filed under its call's token and that no two calls of one Request
  object are under way at once; without that a second call would take over the
  first one's waiter;
- `OfferedAnswersReturned`: `Spec => []OfferedIsReturned`, if tokens are
  distinct and there are as many message IDs as requests (`MidsSuffice`; the
  code has 65535 and no request is ever removed from the tables of a client).

The last one rests on `MidsInv`: `fetch_mid` has handed out the first message
IDs in their order, one to each request that has been sent, so no two requests
have the same. Then the tables of sent requests lead from the request of a call
that lasts to that call (`SentInv`), by either key, and an answer is matched
with the call it is meant for (`MatchedWithWaiting`). `OffersKept` follows an
answer from there: a multicast call keeps all it has been offered, and the
future of another is set, so that neither the time-out nor a cancellation can
end it otherwise.

`BlockTransferProofs` proves, for any block size, any lengths and any number of
repeated messages and purges:

- `TypeCorrect`: `Spec => []TypeOK`, with the message IDs of all requests
  behind the client's next one (`MidsUsed`), and a transaction wherever a
  message ID is known (`KnownIsKept`), which `AnswerAgain` needs;
- `UploadWhole`: `Spec => []UploadIsWhole`, and `HandlerOnce`:
  `Spec => []HandlerRunsOnce`;
- `DownloadWhole`: `Spec => []DownloadIsWhole`, if the first message ID is not
  0 (`FirstMidCounts`). `MessageLayer.__init__` draws it from 1 to 1000 unless a
  test passes one. The assumption is needed: with `FirstMid = 0` TLC finds that
  a repeated first request is taken for a new one (`message_layer.py:100`) and
  answered with the next block, and a client that has no block yet takes it for
  the beginning, or returns it as the whole answer.

The invariant behind `UploadWhole` and `HandlerOnce` is `UploadInv`. Every
request on the network that asks for no block of the answer carries the block
of the upload that its option names, with the right M bit
(`RequestsAreBlocks`); what the server has collected is the beginning of the upload up to the next block's position
(`CollectedPrefix`), so an expected block extends it (`CollectedGrows`, from
`JoinedChunk`) and the last one completes it. `RepeatedIsBlock` and
`SentPosition` say this of what the client repeats and sends next. The handler
could still be given a single block by a request that asks for a block of the
answer: `NoBlocksYet` says that there is none before the handler has run, nor
ever if the answer fits in a datagram (`ShortAnswers`), and `RanHasResource`
that the transaction remembers that it has run until a purge. The condition in
`UploadIsWhole` is exactly where this breaks: see the findings above.

Behind `DownloadWhole` is `OrderInv`: until the call returns, and without a
purge, one request is under way, and both sides are at the block it is about.
All requests but the last have been taken (`RequestsKnown`), so the server takes
no copy for a new request (`TakesLast`), refuses none and repeats no answer for
another (`NoneRefused`). `Uploading` and `Downloading` say where each side is
before and after the server takes the last request (`Fresh`): this is what
ties the server's reading position to the number the client waits for, although
the code sets one independently of the other. `Answers` says of every response
on the network that it is a 2.31 for a block that has been sent, or the whole
answer, or the block its option names, and that none is ahead of the client, so
a late copy is recognised by its number. Then the block a client takes is the
one it waits for (`WantedBlock`), what it has stays a beginning of the answer
(`GrowingAnswer`), and the block without the M bit reaches its end
(`LastBlock`). An answer of whole blocks is covered too: its last, empty block
raises and nothing is returned. The model's message IDs do not wrap, so all of
this is about transfers of fewer requests than there are message IDs.

`ResourcesProofs` proves, for any tree, clients, requests and handlers that
satisfy `ResourcesAssumption`:

- `TypeCorrect`: `Spec => []TypeOK`;
- `CancelledStaysSilent`: `Spec => []CancelledIsSilent`;
- `OnlyTheDeadLeaveFlags`: `Spec => []ChangedMeansUntold`;
- `EstablishedCorrect`: `Spec => []EstablishedObservers`;
- `NumbersCorrect`: `Spec => NumberCoversChanges`, if there are fewer requests
  than numbers (`CountSuffices`: `observe_count` wraps at 65000, and a wrapped
  number is below the changes it stands for).

The invariant of the first three is `IInv`: these, and `Located`, that a handler
runs only for a transaction that has a resource, without which the set of
changed resources and their counts would have no type. Two lemmas carry the argument. `ReplyType`
is about the end of `receive_request` in all its branches: the types, no new
relation (`ConcludedType`), and the flag reset unless the task dies. `EndedStep`
says that no task's end disturbs the others': a transaction that has a resource
keeps it (`Keeps`), so the dead task that accounts for a flag goes on doing so.

The last two have `ObserversInv` on top of it: requests, transactions and
relations meet under one client and token (`KeysKept`); one task at a time works
on a transaction, and only on that of a request that has come (`TasksKept`); and
an answer's code, its resource and its number belong together (`RepliesKept`).
`Works` states once what any end of a task may do to all of these, and
`WorksStep` that this is harmless; `StartWorks` and `ReturnWorks` show it of
every branch of the code. `NumbersCorrect` then needs to know what
`observe_count` is: 1 and the number of transactions that changed the resource,
the one that created it aside (`CountKept`); the latter may be an older
transaction that the creating request has joined (`Creator`).

`TcpStreamProofs` proves, for any connections, messages of any lengths and any
cuts of their bytes:

- `SizesAgree`: `ReadSize(f) = WireSize(f)`, whatever the length and the token;
- `TypeCorrect`: `Spec => []TypeOK`, and `StaysInStep`: `Spec => []InStep`,
  which are inductive together (`Places`): with `SizesAgree`, taking a message
  from the place where it begins ends where the next one begins;
- `NothingLeft`: `Spec => []NothingIsLeft`, from `AllAwaited`, which says it of
  connections that are not made yet as well;
- `PoolReaches`: `Spec => []Reachable`;
- `OneCsmHeard`: `Spec => []OneCsm`, from `CsmInv`: as long as the future is
  pending nobody has greeted the endpoint (`PendingUnheard`), so the first CSM
  sets it and every further one is refused.

`OptionCodecProofs` proves, for any options, payloads and tokens that satisfy
`CodecAssumption`, any number of options, and any cut:

- `HeadsAgree`: for every number up to 65804, what the reader makes of nibble
  and extension is the number, and the extension fits its bytes;
- `BlockReadBack`: `parse_blockwise` inverts the setters of the block options,
  and exactly Block 0/0/16 has no bytes;
- `TypeCorrect`, `RoundTripCorrect`, `OwnIsReadCorrect` and
  `CutReadsAPrefixCorrect`: the invariants of the run.

The inductive invariant has a part for each stage. `OptionsOK`: the options of
this side are registered, and repeat only where they may. `LayoutOK`: the
pieces follow each other without a gap in the order of the options, and what is
not written yet comes after them; that every delta is positive enough to be a
number rests on this order. `SentOK`: what this side sends can be described and
comes whole. `ReaderOK`: for a clean message the loop stands where a piece
begins, or behind the payload, `current_option` is the number of the last
piece, and what has been read is what has come of the pieces before. With
`HeadsAgree`, reading a piece ends where the next one begins. `OwnIsRead` is
inductive with these.

`EndpointsProofs` proves, for any hosts, ports, endpoints, messages and numbers
of errors that satisfy `EndpointsAssumption`: `TypeCorrect`,
`AnswersGoHomeCorrect`, `NamesItsSocketCorrect` and `FiledListensCorrect`.
The invariant is `TypeOK` with four parts. `SocketsOK`: a socket that is bound
and does not listen is being added or its restart holds the lock, one that is not
bound has been moved, and a closed
one is the work of `Close`. `TablesOK`: a host is filed once, with an endpoint
that has the address it is filed under unless it was moved; so whatever an
answer finds is the endpoint its request came to. `QueuesOK`: a message waits
for one lock, once, and for the endpoint it has found. `MessagesOK` says of one
message at each of its stages what `AnswersGoHome` says of it in the end. Most
steps leave most of this alone: `Stays` states what a step must leave alone
for a message, an entry or the tables to keep their part.

Only model-checked: what holds under fairness, `ConfirmableIsAnswered`,
`LocksDrain`, `Answered`, `EveryCallEnds`, `RequestsEnd`, `StartEnds` and
`SendersProceed` (liveness and ENABLED are out of the prover's reach, as is
induction over data). Every invariant and action property of a passing run,
and the refinement, is proved. That a confirmable answer is acknowledged even if nobody
waits for it any more is modelled (`acks` in `ClientExchange`), and no property
is about it.

## 5. Not modelled yet, and the plan

Done: the two sides of an exchange over UDP, block-wise transfer, the resources
with their observers, the streams of TCP, the encoding of options, and the
endpoints over UDP. To come, in this order:

1. A composition of `ClientExchange` and `ServerExchange` over a network that
   loses, repeats and reorders.
2. `start_client` over UDP and the DTLS endpoint, whose handshake is the
   business of a library.

Not to be modelled: parsing of strings and URIs, `endpoint/simple_server.py`,
which nothing uses, the cache and forward layers (dead code), the constant
tables under `messages/numbers/`, which the running code does not import.
