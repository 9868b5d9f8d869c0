---------------------------- MODULE ClientExchange ----------------------------
(***************************************************************************)
(* The client side of CoAP over UDP: send_message of Server, the tables of *)
(* sent requests in MessageLayer, the waiters of CallbackLayer and what    *)
(* handles responses.  A call is one use of send_message by a task of the  *)
(* application; a Request object may be sent again once its call is over.  *)
(* Each call makes a Transaction, which it names.  Requests and responses  *)
(* carry no Observe and no Block option here.  What answers is external:   *)
(* peers that answer the requests they get, over a network that loses,     *)
(* delays, repeats and reorders.                                           *)
(***************************************************************************)
EXTENDS Naturals, Sequences

CONSTANTS
    Hosts,      \* the peers, each a (host, port) pair
    Local,      \* the address of the client's own endpoint
    Tokens,
    Requests,   \* the Request objects of the application
    Calls,
    RequestOf,  \* the Request object each call sends
    MidSpace,   \* the modulus of fetch_mid
    FirstMid,   \* starting_mid
    Copies,     \* how often the network may deliver one answer
    Patience,   \* the time-out of a call, in units of ACK_TIMEOUT
    Nobody      \* a missing dictionary entry or message ID

Mids == 0 .. (MidSpace - 1)

ASSUME ClientAssumption ==
    /\ Local \notin Hosts
    /\ Requests \subseteq [dest: Hosts, token: Tokens, type: {"CON", "NON"},
                           answers: SUBSET {"ACK", "NON", "CON"},
                           multicast: BOOLEAN]
    /\ \A r \in Requests : "ACK" \in r.answers => r.type = "CON" /\ ~r.multicast
    /\ RequestOf \in [Calls -> Requests]
    /\ MidSpace \in Nat \ {0} /\ FirstMid \in Mids
    /\ Copies \in Nat /\ Patience \in Nat
    /\ Nobody \notin Calls /\ Nobody \notin Mids

VARIABLES
    pc,             \* where each call of send_message is
    mid,            \* Request.mid
    curMid,         \* MessageLayer._current_mid
    sentMid,        \* MessageLayer._transactions_sent
    sentToken,      \* MessageLayer._transactions_sent_token
    acknowledged,   \* requests with .acknowledged set
    thread,         \* transactions whose .retransmit_thread is running
    response,       \* Transaction.response
    parked,         \* tasks in wait_for_retransmit_thread
    waiter,         \* CallbackLayer._waited_answer
    future,         \* Waiter.future
    result,         \* what the future holds, or Waiter.result
    arrived,        \* how many copies of each answer have been delivered
    acks,           \* history: the responses acknowledged on the wire
    offered,        \* history: answers delivered while their call waited
    waited,         \* how long a call has waited for its future
    transmissions   \* history: how often a call's request was sent

sending == <<mid, curMid, sentMid, sentToken, transmissions>>
vars == <<pc, sending, acknowledged, thread, response, parked, waiter, future,
          result, arrived, acks, offered, waited>>

Answer == [src: Hosts, type: {"ACK", "NON", "CON"}, of: Requests]
Delivery == Answer \X (1 .. Copies)

\* Mutant: every request gets the same token.
MutantTokenOf(r) == CHOOSE k \in Tokens : TRUE

\* A token is fetched once, at random from eight bytes, or is the caller's.
TokenOf(r) == r.token

\* Mutant: a multicast request is filed under the group's address.
MutantSentKey(r) == <<r.dest, TokenOf(r)>>

\* A multicast request is filed under the address it is sent from.
SentKey(r) == <<IF r.multicast THEN Local ELSE r.dest, TokenOf(r)>>

\* The answers that can be on the way: to what has been sent, from whom it
\* has reached.
Answers ==
    {m \in Answer : /\ m.type \in m.of.answers
                    /\ \E c \in Calls : RequestOf[c] = m.of /\ pc[c] # "idle"
                    /\ m.of.multicast \/ m.src = m.of.dest}

Ended(c) == pc[c] \in {"returned", "timedOut", "cancelled"}

Init ==
    /\ pc = [c \in Calls |-> "idle"]
    /\ mid = [r \in Requests |-> Nobody]
    /\ curMid = FirstMid
    /\ sentMid = [k \in Hosts \X Mids |-> Nobody]
    /\ sentToken = [k \in (Hosts \cup {Local}) \X Tokens |-> Nobody]
    /\ acknowledged = {} /\ thread = {} /\ parked = {}
    /\ response = [c \in Calls |-> Nobody]
    /\ waiter = [k \in Tokens |-> Nobody]
    /\ future = [c \in Calls |-> "none"]
    /\ result = [c \in Calls |-> <<>>]
    /\ arrived = [m \in Answer |-> 0]
    /\ acks = {}
    /\ offered = [c \in Calls |-> {}]
    /\ waited = [c \in Calls |-> 0]
    /\ transmissions = [c \in Calls |-> 0]

-----------------------------------------------------------------------------
(* Mutants: the forms plausible bugs would give the definitions below *)

\* Message IDs that never wrap around.
MutantNextMid(m) == m + 1

\* A cancelled or expired call leaves its waiter behind.
MutantForget(c) == UNCHANGED waiter

\* The future of a multicast call, which nobody ever sets, is awaited without
\* a time-out.
MutantOutOfTime(c) == waited[c] = Patience /\ ~RequestOf[c].multicast

-----------------------------------------------------------------------------
(* Server.send_message *)

NextMid(m) == (m + 1) % MidSpace

\* CallbackLayer.wait up to its await.
Register(c) ==
    /\ waiter' = [waiter EXCEPT ![TokenOf(RequestOf[c])] = c]
    /\ future' = [future EXCEPT ![c] = "pending"]
    /\ pc' = [pc EXCEPT ![c] = "waiting"]

\* A retransmission task is started, and the caller paused, only for a message
\* that has been acknowledged already: a Request object sent before.
Send(c) ==
    LET r == RequestOf[c]
        fresh == mid[r] = Nobody
        id == IF fresh THEN curMid ELSE mid[r]
    IN  /\ pc[c] = "idle"
        /\ \A b \in Calls \ {c} : RequestOf[b] = r => pc[b] = "idle" \/ Ended(b)
        /\ mid' = [mid EXCEPT ![r] = id]
        /\ curMid' = IF fresh THEN NextMid(curMid) ELSE curMid
        /\ sentToken' = [sentToken EXCEPT ![SentKey(r)] = c]
        /\ sentMid' = IF r.multicast THEN sentMid
                      ELSE [sentMid EXCEPT ![<<r.dest, id>>] = c]
        /\ transmissions' = [transmissions EXCEPT ![c] = @ + 1]
        /\ \/ /\ r.type = "CON" /\ r \in acknowledged
              /\ thread' = thread \cup {c}
              /\ pc' = [pc EXCEPT ![c] = "pausing"]
              /\ UNCHANGED <<waiter, future>>
           \/ /\ ~(r.type = "CON" /\ r \in acknowledged)
              /\ Register(c)
              /\ UNCHANGED thread
        /\ UNCHANGED <<acknowledged, response, parked, result, arrived, acks,
                       offered, waited>>

\* _retransmit finds the message acknowledged and ends without sending it.
Retransmit(c) ==
    /\ c \in thread
    /\ thread' = thread \ {c}
    /\ UNCHANGED <<pc, sending, acknowledged, response, parked, waiter, future,
                   result, arrived, acks, offered, waited>>

WakeUp(c) ==
    /\ pc[c] = "pausing"
    /\ c \notin thread
    /\ Register(c)
    /\ UNCHANGED <<sending, acknowledged, thread, response, parked, result,
                   arrived, acks, offered, waited>>

-----------------------------------------------------------------------------
(* datagram_received_response *)

\* MessageLayer.receive_response.
Match(m) ==
    LET byMid == sentMid[<<m.src, mid[m.of]>>]
        byToken == sentToken[<<m.src, TokenOf(m.of)>>]
    IN  IF m.type = "ACK" /\ byMid # Nobody
        THEN IF TokenOf(RequestOf[byMid]) = TokenOf(m.of) THEN byMid ELSE Nobody
        ELSE IF byToken # Nobody THEN byToken
        ELSE sentToken[<<Local, TokenOf(m.of)>>]

\* send_ack(transaction, transaction.response).
Acknowledge(d, r) ==
    acks' = IF d[1].type = "CON" /\ r[1].type = "CON"
            THEN acks \cup {r} ELSE acks

\* CallbackLayer.set_result; a future that is done already refuses.
SetResult(r) ==
    LET w == waiter[TokenOf(r[1].of)]
        group == w # Nobody /\ RequestOf[w].multicast
        open == w # Nobody /\ (group \/ future[w] = "pending")
    IN  /\ result' = IF open THEN [result EXCEPT ![w] = Append(@, r)] ELSE result
        /\ future' = IF open /\ ~group THEN [future EXCEPT ![w] = "result"]
                                       ELSE future

\* A response that meets a running retransmission task waits for it, and then
\* goes on with the response its transaction holds by then.
Deliver(m) ==
    LET t == Match(m)
        d == <<m, arrived[m] + 1>>
    IN  /\ m \in Answers
        /\ arrived[m] < Copies
        /\ arrived' = [arrived EXCEPT ![m] = @ + 1]
        /\ offered' = [c \in Calls |->
               IF RequestOf[c] = m.of /\ pc[c] = "waiting" /\ future[c] = "pending"
               THEN offered[c] \cup {m} ELSE offered[c]]
        /\ \/ /\ t = Nobody
              /\ UNCHANGED <<acknowledged, response, parked, result, future, acks>>
           \/ /\ t # Nobody
              /\ acknowledged' = acknowledged \cup {RequestOf[t]}
              /\ response' = [response EXCEPT ![t] = d]
              /\ \/ /\ t \in thread
                    /\ parked' = parked \cup {<<d, t>>}
                    /\ UNCHANGED <<result, future, acks>>
                 \/ /\ t \notin thread
                    /\ Acknowledge(d, d)
                    /\ SetResult(d)
                    /\ UNCHANGED parked
        /\ UNCHANGED <<pc, sending, thread, waiter, waited>>

Continue(d, t) ==
    /\ <<d, t>> \in parked
    /\ t \notin thread
    /\ parked' = parked \ {<<d, t>>}
    /\ Acknowledge(d, response[t])
    /\ SetResult(response[t])
    /\ UNCHANGED <<pc, sending, acknowledged, thread, response, waiter, arrived,
                   offered, waited>>

-----------------------------------------------------------------------------
(* The end of CallbackLayer.wait *)

\* finally: self._waited_answer.pop(waiter.key, None)
Forget(c) == waiter' = [waiter EXCEPT ![TokenOf(RequestOf[c])] = Nobody]

Resume(c) ==
    /\ pc[c] = "waiting"
    /\ future[c] \in {"result", "exception"}
    /\ pc' = [pc EXCEPT ![c] = IF future[c] = "result" \/ RequestOf[c].multicast
                               THEN "returned" ELSE "timedOut"]
    /\ Forget(c)
    /\ waited' = [waited EXCEPT ![c] = 0]
    /\ UNCHANGED <<sending, acknowledged, thread, response, parked, future,
                   result, arrived, acks, offered>>

Elapse(c) ==
    /\ pc[c] = "waiting"
    /\ waited[c] < Patience
    /\ waited' = [waited EXCEPT ![c] = @ + 1]
    /\ UNCHANGED <<pc, sending, acknowledged, thread, response, parked, waiter,
                   future, result, arrived, acks, offered>>

OutOfTime(c) == waited[c] = Patience

\* A multicast call returns what it has collected, whatever ends it.
GiveUp(c, outcome) ==
    /\ pc[c] = "waiting"
    /\ future[c] = "pending"
    /\ pc' = [pc EXCEPT ![c] = IF RequestOf[c].multicast THEN "returned"
                                                         ELSE outcome]
    /\ Forget(c)
    /\ waited' = [waited EXCEPT ![c] = 0]
    /\ UNCHANGED <<sending, acknowledged, thread, response, parked, future,
                   result, arrived, acks, offered>>

Expire(c) == OutOfTime(c) /\ GiveUp(c, "timedOut")

\* The application cancels the task that called send_message.
Cancel(c) ==
    \/ GiveUp(c, "cancelled")
    \/ /\ pc[c] = "pausing"
       /\ pc' = [pc EXCEPT ![c] = "cancelled"]
       /\ UNCHANGED <<sending, acknowledged, thread, response, parked, waiter,
                      future, result, arrived, acks, offered, waited>>

\* error_received, on the platforms where it does anything.
CancelWaited ==
    /\ \E k \in Tokens : waiter[k] # Nobody
    /\ waiter' = [k \in Tokens |-> Nobody]
    /\ future' = [c \in Calls |->
                     IF future[c] = "pending" /\ \E k \in Tokens : waiter[k] = c
                     THEN "exception" ELSE future[c]]
    /\ UNCHANGED <<pc, sending, acknowledged, thread, response, parked, result,
                   arrived, acks, offered, waited>>

-----------------------------------------------------------------------------

Run(c) == Retransmit(c) \/ WakeUp(c) \/ Resume(c) \/ Elapse(c) \/ Expire(c)

Next ==
    \/ \E c \in Calls : Send(c) \/ Run(c) \/ Cancel(c)
    \/ \E m \in Answer : Deliver(m)
    \/ \E p \in parked : Continue(p[1], p[2])
    \/ CancelWaited

Spec == Init /\ [][Next]_vars

\* The event loop runs what is ready and time passes; nothing is assumed of
\* the network or of the application.
FairSpec == Spec /\ \A c \in Calls : WF_vars(Run(c))

-----------------------------------------------------------------------------
(* Properties *)

\* Every variable keeps its type.
TypeOK ==
    /\ pc \in [Calls -> {"idle", "pausing", "waiting", "returned", "timedOut",
                         "cancelled"}]
    /\ mid \in [Requests -> Mids \cup {Nobody}]
    /\ curMid \in Mids
    /\ sentMid \in [Hosts \X Mids -> Calls \cup {Nobody}]
    /\ sentToken \in [(Hosts \cup {Local}) \X Tokens -> Calls \cup {Nobody}]
    /\ acknowledged \subseteq Requests
    /\ thread \subseteq Calls
    /\ response \in [Calls -> Delivery \cup {Nobody}]
    /\ parked \subseteq Delivery \X Calls
    /\ waiter \in [Tokens -> Calls \cup {Nobody}]
    /\ future \in [Calls -> {"none", "pending", "result", "exception"}]
    /\ result \in [Calls -> Seq(Delivery)]
    /\ arrived \in [Answer -> 0 .. Copies]
    /\ acks \subseteq Delivery
    /\ offered \in [Calls -> SUBSET Answer]
    /\ waited \in [Calls -> 0 .. Patience]
    /\ transmissions \in [Calls -> Nat]

\* Tokens fetched at random differ; an application that sets its own may not
\* use one for two requests.
TokensDistinct == \A q, r \in Requests : TokenOf(q) = TokenOf(r) => q = r

\* What a call returns answers the request it sent.
ReturnsOwnAnswer ==
    \A c \in Calls : \A i \in DOMAIN result[c] : result[c][i][1].of = RequestOf[c]

\* An answer that comes while its call waits is not lost: a call that ends
\* without one has been offered none, a multicast call returns them all.
OfferedIsReturned ==
    \A c \in Calls :
        /\ pc[c] = "timedOut" /\ future[c] # "exception" => offered[c] = {}
        /\ pc[c] = "cancelled" => offered[c] = {}
        /\ pc[c] = "returned" /\ RequestOf[c].multicast =>
              \A m \in offered[c] : \E i \in DOMAIN result[c] : result[c][i][1] = m

\* A waiter is filed exactly as long as its call waits for its future; no call
\* takes away the waiter of another or leaves its own behind.
WaitersAreWaiting ==
    /\ \A k \in Tokens : waiter[k] # Nobody => pc[waiter[k]] = "waiting"
    /\ \A c \in Calls :
          pc[c] = "waiting" /\ future[c] = "pending" => waiter[TokenOf(RequestOf[c])] = c

\* RFC 7252, section 4.2: a confirmable request is sent again and again while
\* nothing acknowledges it.
RepeatedWhileUnanswered ==
    \A c \in Calls :
        /\ RequestOf[c].type = "CON" /\ RequestOf[c] \notin acknowledged
        /\ waited[c] >= 2
        => transmissions[c] > 1

\* Every call of send_message ends.
EveryCallEnds == \A c \in Calls : pc[c] # "idle" ~> Ended(c)

=============================================================================
