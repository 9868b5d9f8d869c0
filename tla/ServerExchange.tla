--------------------------- MODULE ServerExchange ---------------------------
(***************************************************************************)
(* The server side of one request/response exchange over UDP: the datagram *)
(* callbacks of CoapDatagramProtocol, the deduplication tables of          *)
(* MessageLayer, the transaction lock and the separate-response timer of   *)
(* Server.receive_request, and the periodic purge.                         *)
(*                                                                         *)
(* Every datagram becomes an asyncio task, so an action is what one task   *)
(* runs between two awaits that really suspend it.  A task is a delivery   *)
(* <<r, i>>: the i-th copy of request r that the network hands over; the   *)
(* task that creates a Transaction also names it.  Requests carry no       *)
(* Observe and no Block option here, which makes those layers no-ops.      *)
(***************************************************************************)
EXTENDS Naturals, Sequences

CONSTANTS
    Clients,    \* remote endpoints, each a (host, port) pair
    Group,      \* stands for the missing address part of a multicast key
    Tokens,
    MidSpace,   \* the modulus of fetch_mid (65535 in the code)
    FirstMid,   \* starting_mid
    Requests,   \* the request messages clients send
    Copies,     \* how often the network may deliver one request
    Outcomes,   \* what the resource handlers of the application may do
    Lifetime,   \* EXCHANGE_LIFETIME, in ticks of the model's clock
    MaxTime,    \* bound on the clock
    Nobody      \* a missing dictionary entry

Mids == 0 .. MidSpace

Task == Requests \X (1 .. Copies)

\* "content" answers, "missing" is answered without running a handler (no
\* such resource, no such method), "silent" leaves no response, "raise" is an
\* exception, "separate" asks for an empty ACK first and answers afterwards.
Handled == {"content", "silent", "raise", "separate"}
AllOutcomes == Handled \cup {"missing", "unsupported"}

ASSUME ExchangeAssumption ==
    /\ Group \notin Clients
    /\ MidSpace \in Nat \ {0}
    /\ FirstMid \in 0 .. (MidSpace - 1)
    /\ Copies \in Nat /\ Lifetime \in Nat /\ MaxTime \in Nat
    /\ Requests \subseteq [src: Clients, mid: Mids, token: Tokens,
                           type: {"CON", "NON"}, multicast: BOOLEAN]
    /\ \A r \in Requests : r.multicast => r.type = "NON"
    /\ Outcomes \subseteq AllOutcomes
    /\ Nobody \notin Task

-----------------------------------------------------------------------------

VARIABLES
    pc,         \* what each delivery's task is doing
    tx,         \* the transaction a task works on
    byMid,      \* MessageLayer._transactions
    byToken,    \* MessageLayer._transactions_token
    req,        \* Transaction.request: the delivery whose message it holds
    resp,       \* Transaction.response
    completed,  \* transactions with .completed set
    handled,    \* transactions whose .resource is set
    timestamp,  \* Transaction.timestamp
    lock,       \* Transaction.lock: its owner, then the waiters, in order
    acked,      \* request messages with .acknowledged set
    duplicated, \* request messages with .duplicated set
    ackFor,     \* the message a waiting send_ack was called with
    timer,      \* the separate timer each task has started
    reset,      \* the RST received for a transaction
    curMid,     \* MessageLayer._current_mid
    now,        \* time.time()
    sent,       \* history: the datagrams sent
    ran,        \* history: the requests each transaction ran a handler for
    epoch,      \* history: drops of its request when a transaction was made
    drops,      \* history: how often a request was purged from its table
    assigned    \* history: message IDs of the server's, with the clients they met

tables   == <<byMid, byToken, curMid>>
messages == <<acked, duplicated>>
history  == <<ran, epoch, drops, assigned>>
vars == <<pc, tx, tables, req, resp, completed, handled, timestamp, lock,
          messages, ackFor, timer, reset, now, sent, history>>

\* The entries of a lock's queue: a delivery's task, the send_ack of a handler
\* that wants to answer separately, a timer's send_ack, a received RST.
Agent == {"task", "separate", "timer", "reset"} \X Task

MidKeys   == (Clients \cup {Group}) \X Mids
TokenKeys == (Clients \cup {Group}) \X Tokens

\* Mutant: message IDs looked up without the client they come from.
MutantMidKey(r) == <<Group, r.mid>>

\* Mutant: a key that keeps a part of the message ID only.
MutantShortKey(r) ==
    <<IF r.multicast THEN Group ELSE r.src, r.mid % 3>>

\* A multicast request is keyed by its bare message ID and token.
Origin(r)   == IF r.multicast THEN Group ELSE r.src
MidKey(r)   == <<Origin(r), r.mid>>

TokenKey(r) == <<Origin(r), r.token>>

Answer == [type: {"absent", "none", "ACK", "NON", "CON"}, mid: Mids,
           of: Requests, built: BOOLEAN]

\* Response.init_from_request: no type, no message ID, no code yet.
Blank(r) == [type |-> "none", mid |-> 0, of |-> r, built |-> FALSE]
NoAnswer(r) == [Blank(r) EXCEPT !.type = "absent"]

\* What leaves the socket: "to" is the request whose delivery made the server
\* send it, "of" the request its content, token and address come from.
Datagram == [to: Requests, type: {"ACK", "NON", "CON"}, mid: Mids,
             of: Requests, empty: BOOLEAN]

\* send_datagram(transaction.response); serializing a response that has no
\* type or no code raises, and nothing is sent.
Sending(a, to) ==
    IF a.built /\ a.type \in {"ACK", "NON", "CON"}
    THEN {[to |-> to, type |-> a.type, mid |-> a.mid, of |-> a.of,
           empty |-> FALSE]}
    ELSE {}

Init ==
    /\ pc = [t \in Task |-> "idle"]
    /\ tx = [t \in Task |-> t]
    /\ byMid = [k \in MidKeys |-> Nobody]
    /\ byToken = [k \in TokenKeys |-> Nobody]
    /\ req = [x \in Task |-> x]
    /\ resp = [x \in Task |-> NoAnswer(x[1])]
    /\ completed = {} /\ handled = {} /\ acked = {} /\ duplicated = {}
    /\ timestamp = [x \in Task |-> 0]
    /\ lock = [x \in Task |-> <<>>]
    /\ ackFor = [a \in Agent |-> a[2]]
    /\ timer = [t \in Task |-> "off"]
    /\ reset = [x \in Task |-> "none"]
    /\ curMid = FirstMid
    /\ now = 0
    /\ sent = {}
    /\ ran = [x \in Task |-> <<>>]
    /\ epoch = [x \in Task |-> 0]
    /\ drops = [r \in Requests |-> 0]
    /\ assigned = {}

-----------------------------------------------------------------------------
(* Mutants: the forms plausible bugs would give the definitions below *)

\* Message IDs that never wrap around.
MutantNextMid(m) == m + 1

\* Only confirmable requests are recognised as duplicates.
MutantOriginal(r) ==
    IF r.type = "CON" /\ r.mid # 0 THEN byMid[<<r.src, r.mid>>] ELSE Nobody

\* The lock is not awaited.
MutantServe(t, x, queue) ==
    /\ tx' = [tx EXCEPT ![t] = x]
    /\ lock' = [lock EXCEPT ![x] = Append(queue, <<"task", t>>)]
    /\ pc' = [pc EXCEPT ![t] = "started"]
    /\ timer' = [timer EXCEPT ![t] = "sleeping"]
    /\ UNCHANGED <<acked, completed, ackFor, sent>>

\* send_ack forgets to await send_datagram.
MutantAckBody(x, message, current, to) ==
    IF message[1].type = "CON" /\ message \notin acked /\ message = current
    THEN /\ acked' = acked \cup {message}
         /\ completed' = completed \cup {x}
         /\ UNCHANGED sent
    ELSE UNCHANGED <<acked, completed, sent>>

\* A piggybacked response gets a message ID of the server's own.
MutantTyped(x) ==
    LET r == req[x][1] IN
    IF resp[x].type # "none" THEN resp[x]
    ELSE [resp[x] EXCEPT !.type = IF r.type = "CON" /\ req[x] \notin acked THEN "ACK"
                                  ELSE IF r.type = "NON" THEN "NON" ELSE "CON",
                         !.mid = curMid]

\* The lock is not released after the delay of a multicast answer.
MutantSendDelayed(t) ==
    LET x == tx[t] IN
    /\ pc[t] = "delaying"
    /\ sent' = sent \cup {[to |-> t[1], type |-> "NON", mid |-> resp[x].mid,
                           of |-> resp[x].of, empty |-> FALSE]}
    /\ pc' = [pc EXCEPT ![t] = "done"]
    /\ UNCHANGED <<tx, tables, req, resp, completed, handled, timestamp, lock,
                   messages, ackFor, timer, reset, now, history>>

-----------------------------------------------------------------------------
(* send_ack *)

\* The body of send_ack(transaction, message) under the lock: the request a
\* transaction holds may have changed while send_ack waited, and send_empty
\* then fills in no message ID, so that nothing is sent.
AckBody(x, message, current, to) ==
    IF message[1].type = "CON" /\ message \notin acked /\ message = current
    THEN /\ acked' = acked \cup {message}
         /\ completed' = completed \cup {x}
         /\ sent' = sent \cup {[to |-> to, type |-> "ACK",
                                mid |-> message[1].mid, of |-> message[1],
                                empty |-> TRUE]}
    ELSE UNCHANGED <<acked, completed, sent>>

\* datagram_received_request for a duplicate of a transaction x that now holds
\* the given request and lock queue: the response is repeated once the
\* transaction is complete, until then the request is acknowledged.
RepeatAnswer(t, x, current, queue) ==
    /\ tx' = [tx EXCEPT ![t] = x]
    /\ \/ /\ x \in completed
          /\ sent' = sent \cup Sending(resp[x], t[1])
          /\ pc' = [pc EXCEPT ![t] = "done"]
          /\ lock' = [lock EXCEPT ![x] = queue]
          /\ UNCHANGED <<acked, completed, ackFor>>
       \/ /\ x \notin completed
          /\ queue = <<>>
          /\ AckBody(x, current, current, t[1])
          /\ pc' = [pc EXCEPT ![t] = "done"]
          /\ lock' = [lock EXCEPT ![x] = queue]
          /\ UNCHANGED ackFor
       \/ /\ x \notin completed
          /\ queue # <<>>
          /\ lock' = [lock EXCEPT ![x] = Append(queue, <<"task", t>>)]
          /\ ackFor' = [ackFor EXCEPT ![<<"task", t>>] = current]
          /\ pc' = [pc EXCEPT ![t] = "ackWait"]
          /\ UNCHANGED <<acked, completed, sent>>
    /\ UNCHANGED timer

\* Server.receive_request takes the transaction's lock and starts the timer.
Serve(t, x, queue) ==
    /\ tx' = [tx EXCEPT ![t] = x]
    /\ lock' = [lock EXCEPT ![x] = Append(queue, <<"task", t>>)]
    /\ pc' = [pc EXCEPT ![t] = IF queue = <<>> THEN "started" ELSE "lockWait"]
    /\ timer' = [timer EXCEPT ![t] = IF queue = <<>> THEN "sleeping" ELSE @]
    /\ UNCHANGED <<acked, completed, ackFor, sent>>

-----------------------------------------------------------------------------
(* MessageLayer.receive_request *)

\* The table entry that makes a received request a duplicate.  The test
\* "request.mid and ..." never holds for message ID 0.
Original(r) ==
    IF r.multicast THEN byToken[TokenKey(r)]
    ELSE IF r.mid = 0 THEN Nobody ELSE byMid[MidKey(r)]

\* The copies of a request are delivered in the order of their numbers; which
\* copy the network calls the first makes no difference.
Arrives(t) ==
    /\ pc[t] = "idle"
    /\ t[2] > 1 => pc[<<t[1], t[2] - 1>>] # "idle"

ReceiveDuplicate(t) ==
    LET x == Original(t[1]) IN
    /\ Arrives(t)
    /\ x # Nobody
    /\ duplicated' = duplicated \cup {req[x]}
    /\ RepeatAnswer(t, x, req[x], lock[x])
    /\ UNCHANGED <<tables, req, resp, handled, timestamp, reset, now, history>>

\* A second request under a token whose transaction already has a response
\* joins that transaction.  The token's entry is read again once the lock is
\* held: it may have been purged (a KeyError) or belong to a newer transaction.
Join(t, x, queue) ==
    LET owner == byToken[TokenKey(t[1])]
        current == IF owner = x THEN t ELSE req[x]
    IN  \/ /\ owner = Nobody
           /\ pc' = [pc EXCEPT ![t] = "dead"]
           /\ lock' = [lock EXCEPT ![x] = queue]
           /\ UNCHANGED <<tx, byMid, req, acked, completed, ackFor, timer, sent>>
        \/ /\ owner # Nobody
           /\ req' = [req EXCEPT ![owner] = t]
           /\ byMid' = [byMid EXCEPT ![MidKey(t[1])] = x]
           /\ \/ current \in duplicated /\ RepeatAnswer(t, x, current, queue)
              \/ current \notin duplicated /\ Serve(t, x, queue)

KnownToken(t) ==
    LET x == byToken[TokenKey(t[1])] IN x # Nobody /\ resp[x].type # "absent"

ReceiveKnownToken(t) ==
    LET x == byToken[TokenKey(t[1])] IN
    /\ Arrives(t)
    /\ Original(t[1]) = Nobody
    /\ KnownToken(t)
    /\ \/ lock[x] = <<>> /\ Join(t, x, <<>>)
       \/ /\ lock[x] # <<>>
          /\ tx' = [tx EXCEPT ![t] = x]
          /\ lock' = [lock EXCEPT ![x] = Append(@, <<"task", t>>)]
          /\ pc' = [pc EXCEPT ![t] = "tokenWait"]
          /\ UNCHANGED <<byMid, req, acked, completed, ackFor, timer, sent>>
    /\ UNCHANGED <<byToken, curMid, resp, handled, timestamp, duplicated,
                   reset, now, history>>

ReceiveNew(t) ==
    LET r == t[1] IN
    /\ Arrives(t)
    /\ Original(r) = Nobody
    /\ ~KnownToken(t)
    /\ byMid' = [byMid EXCEPT ![MidKey(r)] = t]
    /\ byToken' = [byToken EXCEPT ![TokenKey(r)] = t]
    /\ timestamp' = [timestamp EXCEPT ![t] = now]
    /\ epoch' = [epoch EXCEPT ![t] = drops[r]]
    /\ Serve(t, t, <<>>)
    /\ UNCHANGED <<curMid, req, resp, handled, duplicated, reset, now, ran,
                   drops, assigned>>

Receive(t) == ReceiveDuplicate(t) \/ ReceiveKnownToken(t) \/ ReceiveNew(t)

-----------------------------------------------------------------------------
(* The lock is handed to the waiter at the head of its queue. *)

Granted(a, x) == lock[x] # <<>> /\ Head(lock[x]) = a

TokenGranted(t) ==
    /\ pc[t] = "tokenWait"
    /\ Granted(<<"task", t>>, tx[t])
    /\ Join(t, tx[t], Tail(lock[tx[t]]))
    /\ UNCHANGED <<byToken, curMid, resp, handled, timestamp, duplicated,
                   reset, now, history>>

LockGranted(t) ==
    /\ pc[t] = "lockWait"
    /\ Granted(<<"task", t>>, tx[t])
    /\ pc' = [pc EXCEPT ![t] = "started"]
    /\ timer' = [timer EXCEPT ![t] = "sleeping"]
    /\ UNCHANGED <<tx, tables, req, resp, completed, handled, timestamp, lock,
                   messages, ackFor, reset, now, sent, history>>

\* A waiting send_ack runs its body and goes back to its caller: a duplicate
\* is done, a handler goes on, a timer sleeps again.
Waiting(a) ==
    CASE a[1] = "task"     -> pc[a[2]] = "ackWait"
      [] a[1] = "separate" -> pc[a[2]] = "separate"
      [] a[1] = "timer"    -> timer[a[2]] = "waiting"
      [] OTHER             -> FALSE

AckGranted(a) ==
    LET t == a[2]
        x == tx[t]
    IN  /\ Waiting(a)
        /\ Granted(a, x)
        /\ AckBody(x, ackFor[a], req[x], t[1])
        /\ lock' = [lock EXCEPT ![x] = Tail(@)]
        /\ pc' = [pc EXCEPT ![t] = CASE a[1] = "task"     -> "done"
                                     [] a[1] = "separate" -> "handling"
                                     [] OTHER             -> @]
        /\ timer' = [timer EXCEPT ![t] = IF a[1] = "timer" THEN "sleeping"
                                                           ELSE @]
        /\ UNCHANGED <<tx, tables, req, resp, handled, timestamp, duplicated,
                       ackFor, reset, now, history>>

-----------------------------------------------------------------------------
(* Server.receive_request under the lock *)

\* A cancelled waiter leaves the queue of the lock.
Without(q, a) ==
    IF \E i \in DOMAIN q : q[i] = a
    THEN LET k == CHOOSE i \in DOMAIN q : q[i] = a
         IN  [i \in 1 .. (Len(q) - 1) |-> IF i < k THEN q[i] ELSE q[i + 1]]
    ELSE q

StopTimer(t) ==
    /\ timer' = [timer EXCEPT ![t] = "off"]
    /\ lock' = [lock EXCEPT ![tx[t]] = Without(@, <<"timer", t>>)]

\* Only a handler can keep the task waiting; whatever else the request layer
\* answers is ready when it returns, and so is the response of a transaction
\* that has a resource already, which skips the request layer.
Start(t) ==
    LET x == tx[t]
        r == req[x][1]
    IN  /\ pc[t] = "started"
        /\ \/ /\ \/ /\ x \in handled
                    /\ UNCHANGED resp
                 \/ /\ x \notin handled
                    /\ "missing" \in Outcomes
                    /\ resp' = [resp EXCEPT ![x] = [Blank(r) EXCEPT !.built = TRUE]]
                 \/ /\ x \notin handled
                    /\ "unsupported" \in Outcomes
                    /\ resp' = [resp EXCEPT ![x] = NoAnswer(r)]
              /\ pc' = [pc EXCEPT ![t] = "answering"]
              /\ StopTimer(t)
              /\ UNCHANGED <<handled, ran>>
           \/ /\ x \notin handled
              /\ Outcomes \cap Handled # {}
              /\ resp' = [resp EXCEPT ![x] = Blank(r)]
              /\ handled' = handled \cup {x}
              /\ ran' = [ran EXCEPT ![x] = Append(@, r)]
              /\ pc' = [pc EXCEPT ![t] = "handling"]
              /\ UNCHANGED <<lock, timer>>
        /\ UNCHANGED <<tx, tables, req, completed, timestamp, messages,
                       ackFor, reset, now, sent, epoch, drops, assigned>>

\* The handler returns.  Its exception leaves the lock but not the timer.
Return(t) ==
    LET x == tx[t] IN
    /\ pc[t] = "handling"
    /\ \/ /\ "content" \in Outcomes
          /\ resp' = [resp EXCEPT ![x].built = TRUE]
          /\ pc' = [pc EXCEPT ![t] = "answering"]
          /\ StopTimer(t)
          /\ UNCHANGED ackFor
       \/ /\ "silent" \in Outcomes
          /\ resp' = [resp EXCEPT ![x].type = "absent"]
          /\ pc' = [pc EXCEPT ![t] = "answering"]
          /\ StopTimer(t)
          /\ UNCHANGED ackFor
       \/ /\ "raise" \in Outcomes
          /\ pc' = [pc EXCEPT ![t] = "dead"]
          /\ lock' = [lock EXCEPT ![x] = Tail(@)]
          /\ UNCHANGED <<resp, timer, ackFor>>
       \/ /\ "separate" \in Outcomes
          /\ req[x] \notin acked
          /\ pc' = [pc EXCEPT ![t] = "separate"]
          /\ lock' = [lock EXCEPT ![x] = Append(@, <<"separate", t>>)]
          /\ ackFor' = [ackFor EXCEPT ![<<"separate", t>>] = req[x]]
          /\ UNCHANGED <<resp, timer>>
    /\ UNCHANGED <<tx, tables, req, completed, handled, timestamp, messages,
                   reset, now, sent, history>>

\* MessageLayer.send_response: the type and the message ID of the response
\* are chosen once, a reused response keeps both.
Typed(x) ==
    LET r == req[x][1] IN
    IF resp[x].type # "none" THEN resp[x]
    ELSE IF r.type = "CON" /\ req[x] \notin acked
    THEN [resp[x] EXCEPT !.type = "ACK", !.mid = r.mid]
    ELSE [resp[x] EXCEPT !.type = IF r.type = "NON" THEN "NON" ELSE "CON",
                         !.mid = curMid]

NextMid(m) == (m + 1) % MidSpace

FreshMid(x) == resp[x].type = "none" /\ Typed(x).type # "ACK"

\* A response without an answer only completes the transaction.
AnswerNothing(t) ==
    LET x == tx[t] IN
    /\ pc[t] = "answering"
    /\ resp[x].type = "absent"
    /\ completed' = completed \cup {x}
    /\ lock' = [lock EXCEPT ![x] = Tail(@)]
    /\ pc' = [pc EXCEPT ![t] = "done"]
    /\ UNCHANGED <<tx, tables, req, resp, handled, timestamp, messages, ackFor,
                   timer, reset, now, sent, history>>

\* The rest of Server.receive_request: the answer to a multicast request is
\* delayed with the lock still held.
SendAnswer(t) ==
    LET x == tx[t] IN
    /\ pc[t] = "answering"
    /\ resp[x].type # "absent"
    /\ resp' = [resp EXCEPT ![x] = Typed(x)]
    /\ IF FreshMid(x)
       THEN /\ curMid' = NextMid(curMid)
            /\ byMid' = [byMid EXCEPT ![<<resp[x].of.src, curMid>>] = x]
            /\ assigned' = assigned \cup {<<resp[x].of.src, curMid>>}
       ELSE UNCHANGED <<curMid, byMid, assigned>>
    /\ completed' = IF resp[x].type = "none" /\ Typed(x).type = "ACK"
                    THEN completed \cup {x} ELSE completed
    /\ acked' = acked \cup {req[x]}
    /\ \/ /\ req[x][1].multicast
          /\ pc' = [pc EXCEPT ![t] = "delaying"]
          /\ UNCHANGED <<lock, sent>>
       \/ /\ ~req[x][1].multicast
          /\ sent' = sent \cup Sending(Typed(x), t[1])
          /\ pc' = [pc EXCEPT ![t] = "done"]
          /\ lock' = [lock EXCEPT ![x] = Tail(@)]
    /\ UNCHANGED <<tx, byToken, req, handled, timestamp, duplicated, ackFor,
                   timer, reset, now, ran, epoch, drops>>

SendDelayed(t) ==
    LET x == tx[t] IN
    /\ pc[t] = "delaying"
    /\ sent' = sent \cup Sending(resp[x], t[1])
    /\ lock' = [lock EXCEPT ![x] = Tail(@)]
    /\ pc' = [pc EXCEPT ![t] = "done"]
    /\ UNCHANGED <<tx, tables, req, resp, completed, handled, timestamp,
                   messages, ackFor, timer, reset, now, history>>

-----------------------------------------------------------------------------
(* The separate timer, RST messages, the purge loop and time *)

\* Timer._job: ACK_TIMEOUT has passed and send_ack is called.
TimerFires(t) ==
    LET x == tx[t] IN
    /\ timer[t] = "sleeping"
    /\ \/ /\ lock[x] = <<>>
          /\ AckBody(x, req[x], req[x], t[1])
          /\ UNCHANGED <<lock, ackFor, timer>>
       \/ /\ lock[x] # <<>>
          /\ lock' = [lock EXCEPT ![x] = Append(@, <<"timer", t>>)]
          /\ ackFor' = [ackFor EXCEPT ![<<"timer", t>>] = req[x]]
          /\ timer' = [timer EXCEPT ![t] = "waiting"]
          /\ UNCHANGED <<acked, completed, sent>>
    /\ UNCHANGED <<pc, tx, tables, req, resp, handled, timestamp, duplicated,
                   reset, now, history>>

\* A client rejects a response that came as a message of its own; the RST is
\* matched by message ID and completes the transaction under its lock.
ReceiveReset(m) ==
    LET x == byMid[<<m.of.src, m.mid>>] IN
    /\ m \in sent /\ m.type # "ACK"
    /\ x # Nobody
    /\ reset[x] = "none"
    /\ \/ /\ lock[x] = <<>>
          /\ completed' = completed \cup {x}
          /\ reset' = [reset EXCEPT ![x] = "done"]
          /\ UNCHANGED lock
       \/ /\ lock[x] # <<>>
          /\ lock' = [lock EXCEPT ![x] = Append(@, <<"reset", x>>)]
          /\ reset' = [reset EXCEPT ![x] = "waiting"]
          /\ UNCHANGED completed
    /\ UNCHANGED <<pc, tx, tables, req, resp, handled, timestamp, messages,
                   ackFor, timer, now, sent, history>>

ResetGranted(x) ==
    /\ reset[x] = "waiting"
    /\ Granted(<<"reset", x>>, x)
    /\ completed' = completed \cup {x}
    /\ lock' = [lock EXCEPT ![x] = Tail(@)]
    /\ reset' = [reset EXCEPT ![x] = "done"]
    /\ UNCHANGED <<pc, tx, tables, req, resp, handled, timestamp, messages,
                   ackFor, timer, now, sent, history>>

Stale(x) == x \in completed \/ timestamp[x] + Lifetime < now

Kept(x) == IF x # Nobody /\ ~Stale(x) THEN x ELSE Nobody

\* The table that decides whether r is a duplicate has an entry for it.
Remembered(r) ==
    IF r.multicast THEN byToken[TokenKey(r)] # Nobody
    ELSE byMid[MidKey(r)] # Nobody

Purge ==
    /\ byMid' = [k \in MidKeys |-> Kept(byMid[k])]
    /\ byToken' = [k \in TokenKeys |-> Kept(byToken[k])]
    /\ drops' = [r \in Requests |->
                    IF Remembered(r) /\ ~Remembered(r)' THEN drops[r] + 1
                    ELSE drops[r]]
    /\ UNCHANGED <<pc, tx, curMid, req, resp, completed, handled, timestamp,
                   lock, messages, ackFor, timer, reset, now, sent, ran, epoch,
                   assigned>>

Tick ==
    /\ now < MaxTime
    /\ now' = now + 1
    /\ UNCHANGED <<pc, tx, tables, req, resp, completed, handled, timestamp,
                   lock, messages, ackFor, timer, reset, sent, history>>

-----------------------------------------------------------------------------

\* What the event loop runs on behalf of task t once its datagram is in.
Run(t) ==
    \/ TokenGranted(t) \/ LockGranted(t) \/ Start(t) \/ Return(t)
    \/ AnswerNothing(t) \/ SendAnswer(t) \/ SendDelayed(t)

Next ==
    \/ \E t \in Task : Receive(t) \/ Run(t) \/ TimerFires(t) \/ ResetGranted(t)
    \/ \E a \in Agent : AckGranted(a)
    \/ \E m \in sent : ReceiveReset(m)
    \/ Purge
    \/ Tick

Spec == Init /\ [][Next]_vars

\* The event loop runs every ready task; that a handler returns is the
\* application's part of the bargain.  Nothing makes the network deliver.
Fairness ==
    /\ \A t \in Task : WF_vars(Run(t)) /\ WF_vars(ResetGranted(t))
    /\ \A a \in Agent : WF_vars(AckGranted(a))

FairSpec == Spec /\ Fairness

-----------------------------------------------------------------------------
(* Properties *)

States == {"idle", "tokenWait", "lockWait", "started", "handling", "separate",
           "answering", "delaying", "ackWait", "done", "dead"}

\* Every variable keeps its type; a lock's queue holds known agents only.
TypeOK ==
    /\ pc \in [Task -> States]
    /\ tx \in [Task -> Task]
    /\ byMid \in [MidKeys -> Task \cup {Nobody}]
    /\ byToken \in [TokenKeys -> Task \cup {Nobody}]
    /\ req \in [Task -> Task]
    /\ resp \in [Task -> Answer]
    /\ completed \subseteq Task /\ handled \subseteq Task
    /\ acked \subseteq Task /\ duplicated \subseteq Task
    /\ timestamp \in [Task -> Nat]
    /\ lock \in [Task -> Seq(Agent)]
    /\ ackFor \in [Agent -> Task]
    /\ timer \in [Task -> {"off", "sleeping", "waiting"}]
    /\ reset \in [Task -> {"none", "waiting", "done"}]
    /\ curMid \in Mids
    /\ now \in Nat
    /\ sent \subseteq Datagram
    /\ ran \in [Task -> Seq(Requests)]
    /\ epoch \in [Task -> Nat]
    /\ drops \in [Requests -> Nat]
    /\ assigned \subseteq Clients \X Mids

\* The states in which a task is inside the "async with transaction.lock" of
\* Server.receive_request.
Inside(t) == pc[t] \in {"started", "handling", "separate", "answering", "delaying"}

\* Whoever is inside is the agent at the head of the lock's queue.
OwnersAreInside ==
    \A t \in Task : Inside(t) => Granted(<<"task", t>>, tx[t])

\* Two tasks never work on one transaction at the same time, whatever copies,
\* joined tokens, timers and resets queue up for its lock.
OneHolder ==
    \A t, u \in Task : Inside(t) /\ Inside(u) /\ tx[t] = tx[u] => t = u

\* One request is run by at most one transaction, and once in it, for as long
\* as the purge has not dropped it from the table that recognises duplicates.
ExecutedOnce ==
    \A x, y \in Task : \A i \in DOMAIN ran[x], j \in DOMAIN ran[y] :
        ran[x][i] = ran[y][j] /\ epoch[x] = epoch[y] => x = y /\ i = j

\* Two requests of one client, or two multicast ones, that bear the same token or,
\* if they are unicast, the same message ID.
Clash(r, s) ==
    /\ r # s
    /\ r.multicast = s.multicast /\ (r.src = s.src \/ r.multicast)
    /\ r.token = s.token \/ (r.mid = s.mid /\ ~r.multicast)

\* A request that has not been received before gets a transaction of its own: it is
\* taken for something else only if a request it clashes with has come before it or
\* the server has given its message ID to a response for the same client.
FirstCopyIsServed ==
    \A r \in Requests : Copies > 0 /\ pc[<<r, 1>>] # "idle" =>
        \/ tx[<<r, 1>>] = <<r, 1>>
        \/ \E s \in Requests : Clash(r, s) /\ pc[<<s, 1>>] # "idle"
        \/ ~r.multicast /\ <<r.src, r.mid>> \in assigned

\* What is sent because a request arrived answers that request: it was
\* computed for it, and an acknowledgement bears its message ID.
AnswersOwnRequest ==
    \A m \in sent : m.of = m.to /\ (m.type = "ACK" => m.mid = m.to.mid)

\* A transaction that holds a confirmable request is completed, and so left to
\* the purge, only after the request has been acknowledged on the wire.
CompletedIsAcknowledged ==
    \A x \in completed : req[x][1].type = "CON" =>
        \E m \in sent : /\ m.type = "ACK"
                        /\ m.of.src = req[x][1].src /\ m.mid = req[x][1].mid

IsAnswer(m, r) == m.of = r /\ ~m.empty

\* Every confirmable request that is received is answered in the end.
ConfirmableIsAnswered ==
    \A t \in Task : t[1].type = "CON" =>
        (pc[t] # "idle" ~> \E m \in sent : IsAnswer(m, t[1]))

\* Whoever waits for a transaction gets its turn: the lock is free again and
\* again.
LocksDrain == \A x \in Task : []<>(lock[x] = <<>>)

=============================================================================
