---------------------------- MODULE BlockTransfer ----------------------------
(***************************************************************************)
(* Block-wise transfer (layers/block_layer.py): one call of send_message   *)
(* whose request, response or both are longer than one datagram, from the  *)
(* first request to the answer.  It is a confirmable GET or PUT of an      *)
(* existing resource over UDP, whose handler answers at once; every        *)
(* message of the transfer carries the same token.  The server takes each  *)
(* request in one step (ServerExchange is about the steps in between).     *)
(* The bytes of a payload are their positions; MAX_PAYLOAD is Size.        *)
(* An empty payload leaves no trace in a datagram and is read as None.     *)
(***************************************************************************)
EXTENDS Naturals, Sequences

CONSTANTS
    Size,           \* defines.MAX_PAYLOAD, in units
    Jobs,           \* lengths of the request's and of the response's payload
    FirstMid,       \* starting_mid of the client
    MaxRequests,    \* bound: message IDs the client may use
    MaxRepeats,     \* bound: messages the network delivers once more
    MaxPurges,      \* bound: purges during the transfer
    None

ASSUME TransferAssumption ==
    /\ Size \in Nat \ {0}
    /\ Jobs \subseteq [up: Nat, down: Nat]
    /\ {FirstMid, MaxRequests, MaxRepeats, MaxPurges} \subseteq Nat

VARIABLES
    job,            \* what this run transfers
    network,        \* every message sent; any may arrive again
    due,            \* those that have not arrived since they were sent
    repeats,        \* how often another arrived
    request,        \* client: the Request object
    curMid,         \* client: MessageLayer._current_mid
    upItem,         \* client: BlockLayer._block1_sent
    downItem,       \* client: BlockLayer._block2_sent
    result,         \* client: what send_message returned
    known,          \* server: the message IDs in _transactions
    exchange,       \* server: the Transaction in _transactions_token
    collecting,     \* server: BlockLayer._block1_receive
    offering,       \* server: BlockLayer._block2_receive
    executed,       \* history: the payloads the handler was given
    purges          \* history: how often the server purged its tables

client == <<request, curMid, upItem, downItem, result>>
server == <<known, exchange, collecting, offering, executed>>
vars == <<job, network, due, repeats, client, server, purges>>

-----------------------------------------------------------------------------
(* Payloads and blocks *)

Least(a, b) == IF a <= b THEN a ELSE b

Body(n) == [i \in 1 .. n |-> i]

\* payload[byte : byte + size]
Chunk(n, byte) == SubSeq(Body(n), byte + 1, Least(byte + Size, n))

\* Mutant: the M bit looks at where the block begins.
MutantMore(num, n) == num * Size <= n

\* The M bit of block num: a block that ends where the payload ends is not
\* the last one.
More(num, n) == num * Size + Size <= n

\* The value of a Block option.
Block == [num: Nat, more: BOOLEAN]

Request == [to: {"server"}, mid: Nat, block1: Block \cup {None},
            block2: Block \cup {None}, payload: Seq(Nat)]

Response == [to: {"client"}, code: {"final", "continue", "incomplete"},
             block1: Block \cup {None}, block2: Block \cup {None}, payload: Seq(Nat)]

Transaction == [response: Response, resource: BOOLEAN, transfer: BOOLEAN]

ASSUME NoneAssumption ==
    None \notin Transaction \cup Block \cup [byte: Nat, num: Nat, more: BOOLEAN]
                \cup [byte: Nat, num: Nat, loaded: BOOLEAN]
                \cup [num: Nat, payload: Seq(Nat)]
                \cup [code: {"final", "continue", "incomplete"}, payload: Seq(Nat)]

Reply(code) ==
    [to |-> "client", code |-> code, block1 |-> None, block2 |-> None, payload |-> <<>>]

\* BlockLayer.send_request
FirstRequest(up) ==
    [to |-> "server", mid |-> FirstMid, block2 |-> None,
     payload |-> Chunk(up, 0),
     block1 |-> IF up > Size THEN [num |-> 0, more |-> More(0, up)] ELSE None]

Init ==
    /\ job \in Jobs
    /\ request = FirstRequest(job.up)
    /\ network = {request} /\ due = {request}
    /\ curMid = FirstMid + 1
    /\ upItem = IF job.up > Size
                THEN [byte |-> Size, num |-> 0, more |-> More(0, job.up)] ELSE None
    /\ downItem = None /\ result = None
    /\ known = {} /\ exchange = None /\ collecting = None /\ offering = None
    /\ executed = <<>> /\ repeats = 0 /\ purges = 0

\* A message arrives, for the first time or again.
Deliver(m) ==
    /\ m \in network
    /\ m \in due \/ repeats < MaxRepeats
    /\ repeats' = IF m \in due THEN repeats ELSE repeats + 1

\* m has arrived and n is on its way.
Exchanged(m, n) == network' = network \cup {n} /\ due' = (due \ {m}) \cup {n}

Consumed(m) == network' = network /\ due' = due \ {m}

-----------------------------------------------------------------------------
(* Mutants: the forms plausible bugs would give the definitions below *)

\* The handler runs for every request of a transfer.
MutantHasResource == FALSE

\* The server takes any block for the one it waits for.
MutantExpected(q) == TRUE

\* Every block is asked for under the same message ID.
MutantNextMid == curMid

\* The client takes any block for the one it asked for.
MutantUnwanted(p) == FALSE

-----------------------------------------------------------------------------
(* The server *)

Duplicate(q) == q.mid # 0 /\ q.mid \in known

\* coap_udp_protocol.py:81: the transaction's response is sent again, which
\* may answer a later block.
AnswerAgain(q) ==
    /\ Deliver(q) /\ q.to = "server"
    /\ Duplicate(q)
    /\ Exchanged(q, exchange.response)
    /\ UNCHANGED <<job, client, server, purges>>

\* MessageLayer.receive_request finds the transaction by its token, or makes
\* one; and the end of Server.receive_request.
Answer(q, r, resource, transfer) ==
    /\ known' = known \cup {q.mid}
    /\ exchange' = [response |-> r, resource |-> resource, transfer |-> transfer]
    /\ Exchanged(q, r)

HasResource == exchange # None /\ exchange.resource

\* Transaction.block_transfer
InTransfer == exchange # None /\ exchange.transfer

Collecting(q) == q.block2 = None /\ q.block1 # None

Expected(q) == q.block1.num = (IF collecting = None THEN 0 ELSE collecting.num)

Collected(q) == IF collecting = None THEN q.payload ELSE collecting.payload \o q.payload

Refuse(q) ==
    /\ Deliver(q) /\ q.to = "server"
    /\ ~Duplicate(q) /\ Collecting(q) /\ ~Expected(q)
    /\ Answer(q, Reply("incomplete"), HasResource, TRUE)
    /\ UNCHANGED <<job, client, collecting, offering, executed, purges>>

Collect(q) ==
    /\ Deliver(q) /\ q.to = "server"
    /\ ~Duplicate(q) /\ Collecting(q) /\ Expected(q) /\ q.block1.more
    /\ collecting' = [num |-> q.block1.num + 1, payload |-> Collected(q)]
    /\ Answer(q, [Reply("continue") EXCEPT !.block1 = q.block1], HasResource, TRUE)
    /\ UNCHANGED <<job, client, offering, executed, purges>>

AdvanceOffer(o) == [o EXCEPT !.byte = @ + Size, !.num = @ + 1, !.loaded = TRUE]

\* What BlockLayer.receive_request leaves of the request's Block2 option.  The
\* reading position of a transfer that is under way does not follow it.
Asked(q) ==
    IF q.block2 = None THEN offering
    ELSE IF offering # None THEN [offering EXCEPT !.num = q.block2.num]
    ELSE [byte |-> q.block2.num * Size, num |-> q.block2.num, loaded |-> FALSE]

\* A transaction that was told to continue, or refused, answers the same again.
RepeatAnswer(q) ==
    /\ Deliver(q) /\ q.to = "server"
    /\ ~Duplicate(q) /\ ~Collecting(q) /\ InTransfer
    /\ offering' = Asked(q)
    /\ Answer(q, exchange.response, HasResource, TRUE)
    /\ UNCHANGED <<job, client, collecting, executed, purges>>

\* The handler runs unless the transaction has its resource already; then
\* BlockLayer.send_response cuts the payload.
Serve(q) ==
    LET content == IF HasResource THEN exchange.response.payload ELSE Body(job.down)
        asked   == Asked(q)
        cut     == \/ asked # None /\ asked.loaded
                   \/ content # <<>> /\ (asked # None \/ Len(content) > Size)
        offer   == IF asked # None THEN asked
                   ELSE [byte |-> 0, num |-> 0, loaded |-> TRUE]
        whole   == [Reply("final") EXCEPT !.payload = content]
        block   == [Reply("final") EXCEPT
                       !.payload = Chunk(job.down, offer.byte),
                       !.block2 = [num |-> offer.num, more |-> More(offer.num, job.down)]]
    IN  /\ Deliver(q) /\ q.to = "server"
        /\ ~Duplicate(q)
        /\ IF Collecting(q) THEN Expected(q) /\ ~q.block1.more ELSE ~InTransfer
        /\ executed' = IF HasResource THEN executed
                       ELSE Append(executed, IF Collecting(q) THEN Collected(q)
                                                              ELSE q.payload)
        /\ collecting' = IF Collecting(q) THEN None ELSE collecting
        /\ offering' = IF cut THEN AdvanceOffer(offer) ELSE asked
        /\ Answer(q, IF cut THEN block ELSE whole, TRUE, FALSE)
        /\ UNCHANGED <<job, client, purges>>

\* Every transaction here is completed, so one run of the loop drops them all;
\* a request that is being collected stays.
Purge ==
    /\ purges < MaxPurges
    /\ exchange # None
    /\ known' = {} /\ exchange' = None /\ offering' = None
    /\ purges' = purges + 1
    /\ UNCHANGED <<job, network, due, repeats, client, collecting, executed>>

-----------------------------------------------------------------------------
(* The client: BlockLayer.receive_response and what follows it *)

Continued(p) == upItem # None /\ p.block1 # None

Offered(p) == ~Continued(p) /\ p.block2 # None

NextMid == curMid + 1

\* Server.send_block_request with a new message ID
Ask(p, r) ==
    /\ curMid < FirstMid + MaxRequests
    /\ request' = [r EXCEPT !.mid = curMid]
    /\ curMid' = NextMid
    /\ Exchanged(p, request')

\* The reading position moves on, and with it the M bit.
AdvanceSent ==
    [byte |-> upItem.byte + Size, num |-> upItem.num + 1,
     more |-> upItem.byte + Size < job.up]

SendNext(p) ==
    /\ Deliver(p) /\ p.to = "client"
    /\ Continued(p) /\ upItem.more /\ p.block1.num = upItem.num
    /\ upItem' = AdvanceSent
    /\ Ask(p, [request EXCEPT !.payload = Chunk(job.up, upItem.byte),
                              !.block1 = [num |-> upItem'.num, more |-> upItem'.more]])
    /\ UNCHANGED <<job, downItem, result, server, purges>>

Unwanted(p) == downItem # None /\ p.block2.num # downItem.num

\* self.payload + response.payload: bytes + None raises.
Raises(p) == downItem # None /\ (downItem.payload = <<>> \/ p.payload = <<>>)

\* The item's number moves on before the payloads are joined.
FetchNext(p) ==
    /\ Deliver(p) /\ p.to = "client"
    /\ Offered(p) /\ p.block2.more /\ ~Unwanted(p)
    /\ \/ /\ ~Raises(p)
          /\ downItem' = [num |-> p.block2.num + 1,
                          payload |-> IF downItem = None THEN p.payload
                                      ELSE downItem.payload \o p.payload]
          /\ Ask(p, [request EXCEPT !.block2 = [num |-> p.block2.num + 1, more |-> FALSE]])
       \/ /\ Raises(p)
          /\ downItem' = [downItem EXCEPT !.num = p.block2.num + 1]
          /\ Consumed(p)
          /\ UNCHANGED <<request, curMid>>
    /\ UNCHANGED <<job, upItem, result, server, purges>>

\* An unexpected block makes the client repeat its last request.
AskAgain(p) ==
    /\ Deliver(p) /\ p.to = "client"
    /\ \/ Continued(p) /\ upItem.more /\ p.block1.num # upItem.num
       \/ Offered(p) /\ p.block2.more /\ Unwanted(p)
    /\ Exchanged(p, request)
    /\ UNCHANGED <<job, client, server, purges>>

\* CallbackLayer.set_result: only the first finds the caller waiting.
Return(code, payload) ==
    result' = IF result = None THEN [code |-> code, payload |-> payload] ELSE result

\* Any response ends the call that neither continues the upload nor announces
\* more blocks; once the last block is sent, so does a late 2.31.
Conclude(p) ==
    /\ Deliver(p) /\ p.to = "client"
    /\ Continued(p) => ~upItem.more
    /\ Offered(p) => ~p.block2.more
    /\ LET last == Offered(p) /\ downItem # None
       IN  \/ /\ ~last
              /\ Return(p.code, p.payload)
              /\ UNCHANGED downItem
           \/ /\ last /\ ~Raises(p)
              /\ Return(p.code, downItem.payload \o p.payload)
              /\ downItem' = None
           \/ /\ last /\ Raises(p)
              /\ UNCHANGED <<result, downItem>>
    /\ Consumed(p)
    /\ request' = IF Continued(p) THEN [request EXCEPT !.block1 = None] ELSE request
    /\ UNCHANGED <<job, curMid, upItem, server, purges>>

-----------------------------------------------------------------------------

Receive(m) ==
    \/ AnswerAgain(m) \/ Refuse(m) \/ Collect(m) \/ RepeatAnswer(m) \/ Serve(m)
    \/ SendNext(m) \/ FetchNext(m) \/ AskAgain(m) \/ Conclude(m)

Next == Purge \/ \E m \in network : Receive(m)

Spec == Init /\ [][Next]_vars

\* The network may repeat and reorder, but what waits for one side is not kept
\* from it for ever.
FairSpec ==
    /\ Spec
    /\ WF_vars(\E m \in due : m.to = "server" /\ Receive(m))
    /\ WF_vars(\E m \in due : m.to = "client" /\ Receive(m))

-----------------------------------------------------------------------------
(* Properties *)

\* Every variable keeps its type; the server knows only message IDs the client
\* has used.
TypeOK ==
    /\ job \in Jobs
    /\ network \subseteq Request \cup Response
    /\ due \subseteq network
    /\ request \in Request
    /\ curMid \in (FirstMid + 1) .. (FirstMid + MaxRequests + 1)
    /\ upItem \in [byte: Nat, num: Nat, more: BOOLEAN] \cup {None}
    /\ downItem \in [num: Nat, payload: Seq(Nat)] \cup {None}
    /\ result \in [code: {"final", "continue", "incomplete"}, payload: Seq(Nat)] \cup {None}
    /\ known \subseteq FirstMid .. (curMid - 1)
    /\ exchange \in Transaction \cup {None}
    /\ collecting \in [num: Nat, payload: Seq(Nat)] \cup {None}
    /\ offering \in [byte: Nat, num: Nat, loaded: BOOLEAN] \cup {None}
    /\ executed \in Seq(Seq(Nat))
    /\ repeats \in 0 .. MaxRepeats
    /\ purges \in 0 .. MaxPurges

\* The payload send_message returns with the handler's answer is the payload
\* the handler answered with, unless the server purged its tables on the way.
DownloadIsWhole ==
    result # None /\ result.code = "final" /\ purges = 0
        => result.payload = Body(job.down)

\* What the handler is given is what the application sent, however its blocks
\* were repeated and reordered, and even if the server forgets in between, as
\* long as the answer fits in a datagram.
UploadIsWhole ==
    purges = 0 \/ job.down <= Size =>
        \A i \in DOMAIN executed : executed[i] = Body(job.up)

\* A transfer runs its handler once, however many requests it takes.
HandlerRunsOnce == purges = 0 => Len(executed) <= 1

\* A response longer than one block that ends where a block ends.  The M bit of its
\* last block announces another, which has no payload.
WholeBlocks == job.down > Size /\ job.down % Size = 0

\* Whatever the network repeats or reorders, send_message returns, unless the server
\* purges its tables on the way or the response is one of whole blocks: the client
\* fails to join the empty block that follows it, and its caller hears nothing.
Answered == <>(result # None \/ purges > 0 \/ WholeBlocks)

==============================================================================
