------------------------- MODULE ClientExchangeProofs -------------------------
(***************************************************************************)
(* What holds of ClientExchange for any number of calls, requests, hosts   *)
(* and copies of their answers.                                            *)
(***************************************************************************)
EXTENDS ClientExchange, FiniteSetTheorems, TLAPS

\* A call that has been made has given its request a message ID.
MidAssigned == \A c \in Calls : pc[c] # "idle" => mid[RequestOf[c]] \in Mids

\* Whoever waits for a retransmission task has left a response behind.
ParkedAnswer == \A p \in parked : response[p[2]] \in Delivery

TypeInv == TypeOK /\ MidAssigned /\ ParkedAnswer

-----------------------------------------------------------------------------
(* The pieces the actions are built from keep the types. *)

LEMMA RequestTypes ==
    ASSUME NEW r \in Requests
    PROVE  /\ r.dest \in Hosts /\ TokenOf(r) \in Tokens
           /\ SentKey(r) \in (Hosts \cup {Local}) \X Tokens
BY ClientAssumption DEF TokenOf, SentKey

LEMMA RegisterType ==
    ASSUME TypeOK, NEW c \in Calls, Register(c)
    PROVE  /\ waiter' \in [Tokens -> Calls \cup {Nobody}]
           /\ future' \in [Calls -> {"none", "pending", "result", "exception"}]
           /\ pc' \in [Calls -> {"idle", "pausing", "waiting", "returned",
                                 "timedOut", "cancelled"}]
<1>1. TokenOf(RequestOf[c]) \in Tokens
  BY ClientAssumption, RequestTypes
<1>2. /\ waiter \in [Tokens -> Calls \cup {Nobody}]
      /\ future \in [Calls -> {"none", "pending", "result", "exception"}]
      /\ pc \in [Calls -> {"idle", "pausing", "waiting", "returned",
                           "timedOut", "cancelled"}]
  BY DEF TypeOK
<1>3. QED
  BY <1>1, <1>2 DEF Register

LEMMA SetResultType ==
    ASSUME TypeOK, NEW r \in Delivery, SetResult(r)
    PROVE  /\ result' \in [Calls -> Seq(Delivery)]
           /\ future' \in [Calls -> {"none", "pending", "result", "exception"}]
<1> DEFINE w == waiter[TokenOf(r[1].of)]
<1>1. r[1].of \in Requests
  BY DEF Delivery, Answer
<1>2. w \in Calls \cup {Nobody}
  BY <1>1, RequestTypes DEF TypeOK
<1>3. /\ result \in [Calls -> Seq(Delivery)]
      /\ future \in [Calls -> {"none", "pending", "result", "exception"}]
  BY DEF TypeOK
<1>4. w \in Calls => Append(result[w], r) \in Seq(Delivery)
  BY <1>3
<1>5. /\ result' = result \/ (w \in Calls /\ result' = [result EXCEPT ![w] = Append(result[w], r)])
      /\ future' = future \/ (w \in Calls /\ future' = [future EXCEPT ![w] = "result"])
  BY <1>2 DEF SetResult
<1>6. result' \in [Calls -> Seq(Delivery)]
  BY <1>3, <1>4, <1>5
<1>7. future' \in [Calls -> {"none", "pending", "result", "exception"}]
  BY <1>3, <1>5
<1>8. QED
  BY <1>6, <1>7

LEMMA MatchType ==
    ASSUME TypeInv, NEW m \in Answers
    PROVE  Match(m) \in Calls \cup {Nobody}
<1>1. m.src \in Hosts /\ m.of \in Requests
  BY DEF Answers, Answer
<1>2. mid[m.of] \in Mids
  <2>1. PICK c \in Calls : RequestOf[c] = m.of /\ pc[c] # "idle"
    BY DEF Answers
  <2>2. QED
    BY <2>1 DEF TypeInv, MidAssigned
<1>3. TokenOf(m.of) \in Tokens
  BY <1>1, RequestTypes
<1>4. /\ sentMid \in [Hosts \X Mids -> Calls \cup {Nobody}]
      /\ sentToken \in [(Hosts \cup {Local}) \X Tokens -> Calls \cup {Nobody}]
  BY DEF TypeInv, TypeOK
<1>5. /\ sentMid[<<m.src, mid[m.of]>>] \in Calls \cup {Nobody}
      /\ sentToken[<<m.src, TokenOf(m.of)>>] \in Calls \cup {Nobody}
      /\ sentToken[<<Local, TokenOf(m.of)>>] \in Calls \cup {Nobody}
  BY <1>1, <1>2, <1>3, <1>4
<1>6. QED
  BY <1>5 DEF Match

LEMMA AcknowledgeType ==
    ASSUME acks \subseteq Delivery, NEW d, NEW r \in Delivery, Acknowledge(d, r)
    PROVE  acks' \subseteq Delivery
BY DEF Acknowledge

-----------------------------------------------------------------------------
(* Every step keeps the types. *)

LEMMA TypeStep == TypeInv /\ [Next]_vars => TypeInv'
<1> SUFFICES ASSUME TypeInv, [Next]_vars PROVE TypeInv'
  OBVIOUS
<1> USE DEF TypeInv
<1>1. ASSUME NEW c \in Calls, Send(c) PROVE TypeInv'
  <2> DEFINE r == RequestOf[c]
             id == IF mid[r] = Nobody THEN curMid ELSE mid[r]
  <2>1. r \in Requests /\ SentKey(r) \in (Hosts \cup {Local}) \X Tokens /\ r.dest \in Hosts
    BY ClientAssumption, RequestTypes
  <2>2. id \in Mids
    BY <2>1 DEF TypeOK
  <2>3. mid' \in [Requests -> Mids \cup {Nobody}] /\ mid' = [mid EXCEPT ![r] = id]
    BY <1>1, <2>1, <2>2 DEF Send, TypeOK
  <2>4. curMid' \in Mids
    <3>1. NextMid(curMid) \in Mids
      BY ClientAssumption DEF NextMid, Mids, TypeOK
    <3>2. QED
      BY <1>1, <3>1 DEF Send, TypeOK
  <2>5. sentToken' \in [(Hosts \cup {Local}) \X Tokens -> Calls \cup {Nobody}]
    BY <1>1, <2>1 DEF Send, TypeOK
  <2>6. sentMid' \in [Hosts \X Mids -> Calls \cup {Nobody}]
    <3>1. <<r.dest, id>> \in Hosts \X Mids
      BY <2>1, <2>2
    <3>2. sentMid' = sentMid \/ sentMid' = [sentMid EXCEPT ![<<r.dest, id>>] = c]
      BY <1>1 DEF Send
    <3>3. QED
      BY <3>1, <3>2 DEF TypeOK
  <2>7. transmissions' \in [Calls -> Nat]
    BY <1>1 DEF Send, TypeOK
  <2>8. /\ waiter' \in [Tokens -> Calls \cup {Nobody}]
        /\ future' \in [Calls -> {"none", "pending", "result", "exception"}]
        /\ pc' \in [Calls -> {"idle", "pausing", "waiting", "returned",
                              "timedOut", "cancelled"}]
        /\ thread' \subseteq Calls
    <3>1. CASE Register(c) /\ thread' = thread
      BY <3>1, RegisterType DEF TypeOK
    <3>2. CASE /\ thread' = thread \cup {c} /\ pc' = [pc EXCEPT ![c] = "pausing"]
               /\ UNCHANGED <<waiter, future>>
      BY <3>2 DEF TypeOK
    <3>3. QED
      BY <1>1, <3>1, <3>2 DEF Send
  <2>9. MidAssigned'
    <3> SUFFICES ASSUME NEW b \in Calls, pc'[b] # "idle" PROVE mid'[RequestOf[b]] \in Mids
      BY DEF MidAssigned
    <3>1. RequestOf[b] \in Requests
      BY ClientAssumption
    <3>2. CASE RequestOf[b] = r
      BY <2>1, <2>2, <2>3, <3>2 DEF TypeOK
    <3>3. CASE RequestOf[b] # r
      <4>1. b # c /\ pc'[b] = pc[b]
        BY <1>1, <3>3 DEF Send, Register, TypeOK
      <4>2. mid'[RequestOf[b]] = mid[RequestOf[b]]
        BY <2>1, <2>3, <3>1, <3>3 DEF TypeOK
      <4>3. QED
        BY <4>1, <4>2 DEF MidAssigned
    <3>4. QED
      BY <3>2, <3>3
  <2>10. QED
    BY <1>1, <2>3, <2>4, <2>5, <2>6, <2>7, <2>8, <2>9 DEF Send, TypeOK, ParkedAnswer
<1>2. ASSUME NEW c \in Calls, Retransmit(c) PROVE TypeInv'
  BY <1>2 DEF Retransmit, sending, TypeOK, MidAssigned, ParkedAnswer
<1>3. ASSUME NEW c \in Calls, WakeUp(c) PROVE TypeInv'
  <2>1. pc' = [pc EXCEPT ![c] = "waiting"] /\ pc[c] # "idle" /\ mid' = mid
    BY <1>3 DEF WakeUp, Register, sending
  <2>2. MidAssigned'
    BY <2>1 DEF MidAssigned, TypeOK
  <2>3. QED
    BY <1>3, <2>2, RegisterType DEF WakeUp, sending, TypeOK, ParkedAnswer
<1>4. ASSUME NEW m \in Answer, Deliver(m) PROVE TypeInv'
  <2> DEFINE t == Match(m)
             d == <<m, arrived[m] + 1>>
  <2>1. m \in Answers /\ arrived[m] \in 0 .. Copies /\ arrived[m] < Copies
    BY <1>4 DEF Deliver, TypeOK
  <2>2. d \in Delivery /\ arrived[m] + 1 \in 0 .. Copies
    BY <2>1, ClientAssumption DEF Delivery
  <2>3. t \in Calls \cup {Nobody}
    BY <2>1, MatchType
  <2>4. arrived' \in [Answer -> 0 .. Copies]
    BY <1>4, <2>2 DEF Deliver, TypeOK
  <2>5. offered' \in [Calls -> SUBSET Answer]
    BY <1>4 DEF Deliver, TypeOK
  <2>6. UNCHANGED <<pc, sending, thread, waiter, waited>>
    BY <1>4 DEF Deliver
  <2>7. CASE t = Nobody
    <3>1. UNCHANGED <<acknowledged, response, parked, result, future, acks>>
      BY <1>4, <2>7 DEF Deliver
    <3>2. QED
      BY <2>4, <2>5, <2>6, <3>1 DEF TypeOK, sending, MidAssigned, ParkedAnswer
  <2>8. CASE t # Nobody
    <3>1. t \in Calls /\ RequestOf[t] \in Requests
      BY <2>3, <2>8, ClientAssumption
    <3>2. /\ acknowledged' = acknowledged \cup {RequestOf[t]}
          /\ response' = [response EXCEPT ![t] = d]
      BY <1>4, <2>8 DEF Deliver
    <3>3. acknowledged' \subseteq Requests /\ response' \in [Calls -> Delivery \cup {Nobody}]
      BY <2>2, <3>1, <3>2 DEF TypeOK
    <3>4. ASSUME parked' \subseteq parked \cup {<<d, t>>} PROVE ParkedAnswer'
      <4> SUFFICES ASSUME NEW p \in parked' PROVE response'[p[2]] \in Delivery
        BY DEF ParkedAnswer
      <4>1. response \in [Calls -> Delivery \cup {Nobody}]
        BY DEF TypeOK
      <4>2. CASE p[2] = t
        BY <2>2, <3>1, <3>2, <4>1, <4>2
      <4>3. CASE p[2] # t
        <5>1. p \in parked
          BY <3>4, <4>3
        <5>2. p[2] \in Calls /\ response[p[2]] \in Delivery
          BY <5>1 DEF ParkedAnswer, TypeOK
        <5>3. QED
          BY <3>2, <4>1, <4>3, <5>2
      <4>4. QED
        BY <4>2, <4>3
    <3>5. CASE /\ parked' = parked \cup {<<d, t>>}
               /\ UNCHANGED <<result, future, acks>>
      <4>1. ParkedAnswer'
        BY <3>4, <3>5
      <4>2. <<d, t>> \in Delivery \X Calls
        BY <2>2, <3>1
      <4>3. parked' \subseteq Delivery \X Calls
        BY <3>5, <4>2 DEF TypeOK
      <4>4. QED
        BY <2>4, <2>5, <2>6, <3>3, <3>5, <4>1, <4>3 DEF TypeOK, sending, MidAssigned
    <3>6. CASE Acknowledge(d, d) /\ SetResult(d) /\ UNCHANGED parked
      <4>1. acks' \subseteq Delivery
        BY <2>2, <3>6, AcknowledgeType DEF TypeOK
      <4>2. /\ result' \in [Calls -> Seq(Delivery)]
            /\ future' \in [Calls -> {"none", "pending", "result", "exception"}]
        BY <2>2, <3>6, SetResultType
      <4>3. ParkedAnswer'
        BY <3>6, <3>4
      <4>4. QED
        BY <2>4, <2>5, <2>6, <3>3, <3>6, <4>1, <4>2, <4>3 DEF TypeOK, sending, MidAssigned
    <3>7. QED
      BY <1>4, <2>8, <3>5, <3>6 DEF Deliver
  <2>9. QED
    BY <2>7, <2>8
<1>5. ASSUME NEW p \in parked, Continue(p[1], p[2]) PROVE TypeInv'
  <2>1. response[p[2]] \in Delivery
    BY DEF ParkedAnswer
  <2>2. acks' \subseteq Delivery
    BY <1>5, <2>1, AcknowledgeType DEF Continue, TypeOK
  <2>3. /\ result' \in [Calls -> Seq(Delivery)]
        /\ future' \in [Calls -> {"none", "pending", "result", "exception"}]
    BY <1>5, <2>1, SetResultType DEF Continue
  <2>4. parked' \subseteq parked
    BY <1>5 DEF Continue
  <2>5. QED
    BY <1>5, <2>2, <2>3, <2>4 DEF Continue, TypeOK, sending, MidAssigned, ParkedAnswer
<1>6. ASSUME NEW c \in Calls, NEW outcome \in {"returned", "timedOut", "cancelled"},
             pc' = [pc EXCEPT ![c] = outcome], pc[c] # "idle", Forget(c)
      PROVE  /\ pc' \in [Calls -> {"idle", "pausing", "waiting", "returned",
                                   "timedOut", "cancelled"}]
             /\ waiter' \in [Tokens -> Calls \cup {Nobody}]
             /\ mid' = mid => MidAssigned'
  <2>1. waiter' \in [Tokens -> Calls \cup {Nobody}]
    BY <1>6 DEF Forget, TypeOK
  <2>2. mid' = mid => MidAssigned'
    BY <1>6 DEF MidAssigned, TypeOK
  <2>3. QED
    BY <1>6, <2>1, <2>2 DEF TypeOK
<1>7. ASSUME NEW c \in Calls, Resume(c) PROVE TypeInv'
  <2>1. PICK outcome \in {"returned", "timedOut", "cancelled"} :
            pc' = [pc EXCEPT ![c] = outcome]
    BY <1>7 DEF Resume
  <2>2. waited' \in [Calls -> 0 .. Patience]
    BY <1>7, ClientAssumption DEF Resume, TypeOK
  <2>3. QED
    BY <1>6, <1>7, <2>1, <2>2 DEF Resume, TypeOK, sending, ParkedAnswer
<1>8. ASSUME NEW c \in Calls, Elapse(c) PROVE TypeInv'
  <2>1. waited[c] + 1 \in 0 .. Patience
    BY <1>8, ClientAssumption DEF Elapse, TypeOK
  <2>2. waited' \in [Calls -> 0 .. Patience]
    BY <1>8, <2>1 DEF Elapse, TypeOK
  <2>3. QED
    BY <1>8, <2>2 DEF Elapse, TypeOK, sending, MidAssigned, ParkedAnswer
<1>9. ASSUME NEW c \in Calls, NEW o \in {"timedOut", "cancelled"}, GiveUp(c, o)
      PROVE  TypeInv'
  <2>1. PICK outcome \in {"returned", "timedOut", "cancelled"} :
            pc' = [pc EXCEPT ![c] = outcome]
    BY <1>9 DEF GiveUp
  <2>2. waited' \in [Calls -> 0 .. Patience]
    BY <1>9, ClientAssumption DEF GiveUp, TypeOK
  <2>3. QED
    BY <1>6, <1>9, <2>1, <2>2 DEF GiveUp, TypeOK, sending, ParkedAnswer
<1>10. ASSUME NEW c \in Calls, pc[c] = "pausing", Cancel(c) PROVE TypeInv'
  <2>1. pc' = [pc EXCEPT ![c] = "cancelled"]
    BY <1>10 DEF Cancel, GiveUp
  <2>2. MidAssigned'
    BY <1>10, <2>1 DEF Cancel, GiveUp, MidAssigned, TypeOK, sending
  <2>3. QED
    BY <1>10, <2>1, <2>2 DEF Cancel, GiveUp, TypeOK, sending, ParkedAnswer
<1>11. ASSUME CancelWaited PROVE TypeInv'
  <2>1. /\ waiter' \in [Tokens -> Calls \cup {Nobody}]
        /\ future' \in [Calls -> {"none", "pending", "result", "exception"}]
    BY <1>11 DEF CancelWaited, TypeOK
  <2>2. QED
    BY <1>11, <2>1 DEF CancelWaited, TypeOK, sending, MidAssigned, ParkedAnswer
<1>12. CASE UNCHANGED vars
  BY <1>12 DEF vars, sending, TypeOK, MidAssigned, ParkedAnswer
<1>13. QED
  <2>1. ASSUME NEW c \in Calls, Expire(c) \/ Cancel(c) PROVE TypeInv'
    BY <1>9, <1>10, <2>1 DEF Expire, Cancel
  <2>2. QED
    BY <1>1, <1>2, <1>3, <1>4, <1>5, <1>7, <1>8, <1>11, <1>12, <2>1 DEF Next, Run

LEMMA TypeInvHolds == Spec => []TypeInv
<1>1. Init => TypeInv
  BY ClientAssumption DEF Init, TypeInv, TypeOK, MidAssigned, ParkedAnswer
<1>2. QED
  BY <1>1, TypeStep, PTL DEF Spec

\* Every variable keeps its type, whatever the network and the application do.
THEOREM TypeCorrect == Spec => []TypeOK
<1>1. TypeInv => TypeOK
  BY DEF TypeInv
<1>2. QED
  BY TypeInvHolds, <1>1, PTL

-----------------------------------------------------------------------------
(* Waiters *)

\* A waiter is filed under the token of its call's request.
FiledByToken ==
    \A k \in Tokens : waiter[k] \in Calls => TokenOf(RequestOf[waiter[k]]) = k

\* A Request object is in the hands of one call at a time.
OneAtATime ==
    \A b, c \in Calls :
        /\ pc[b] \in {"pausing", "waiting"} /\ pc[c] \in {"pausing", "waiting"}
        /\ RequestOf[b] = RequestOf[c]
        => b = c

WaiterInv == WaitersAreWaiting /\ FiledByToken /\ OneAtATime

\* Only the start of a call puts it into the hands of a request.
LEMMA OneAtATimeStep == TypeOK /\ OneAtATime /\ [Next]_vars => OneAtATime'
<1> SUFFICES ASSUME TypeOK, OneAtATime, [Next]_vars PROVE OneAtATime'
  OBVIOUS
<1>1. ASSUME NEW c \in Calls, Send(c) PROVE OneAtATime'
  <2>1. PICK s \in {"pausing", "waiting"} : pc' = [pc EXCEPT ![c] = s]
    BY <1>1 DEF Send, Register
  <2>2. \A b \in Calls \ {c} : RequestOf[b] = RequestOf[c] =>
            pc[b] \notin {"pausing", "waiting"}
    BY <1>1 DEF Send, Ended
  <2>3. QED
    BY <2>1, <2>2 DEF OneAtATime, TypeOK
<1>2. ASSUME NEW c \in Calls, pc[c] \in {"pausing", "waiting"},
             \E s : pc' = [pc EXCEPT ![c] = s]
      PROVE  OneAtATime'
  BY <1>2 DEF OneAtATime, TypeOK
<1>3. ASSUME pc' = pc PROVE OneAtATime'
  BY <1>3 DEF OneAtATime
<1>4. ASSUME NEW c \in Calls, Run(c) PROVE OneAtATime'
  <2>1. CASE Retransmit(c)
    BY <1>3, <2>1 DEF Retransmit
  <2>2. CASE WakeUp(c)
    BY <1>2, <2>2 DEF WakeUp, Register
  <2>3. CASE Resume(c)
    BY <1>2, <2>3 DEF Resume
  <2>4. CASE Elapse(c)
    BY <1>3, <2>4 DEF Elapse
  <2>5. CASE Expire(c)
    BY <1>2, <2>5 DEF Expire, GiveUp
  <2>6. QED
    BY <1>4, <2>1, <2>2, <2>3, <2>4, <2>5 DEF Run
<1>5. ASSUME NEW c \in Calls, Cancel(c) PROVE OneAtATime'
  BY <1>2, <1>5 DEF Cancel, GiveUp
<1>6. ASSUME NEW m \in Answer, Deliver(m) PROVE OneAtATime'
  BY <1>3, <1>6 DEF Deliver
<1>7. ASSUME NEW p \in parked, Continue(p[1], p[2]) PROVE OneAtATime'
  BY <1>3, <1>7 DEF Continue
<1>8. CASE CancelWaited \/ UNCHANGED vars
  BY <1>3, <1>8 DEF CancelWaited, vars
<1>9. QED
  BY <1>1, <1>4, <1>5, <1>6, <1>7, <1>8 DEF Next

\* With distinct tokens no call takes the place of another's waiter.
LEMMA WaiterStep ==
    ASSUME TokensDistinct
    PROVE  TypeOK /\ WaiterInv /\ [Next]_vars => WaiterInv'
<1> SUFFICES ASSUME TypeOK, WaiterInv, [Next]_vars PROVE WaiterInv'
  OBVIOUS
<1>0. OneAtATime'
  BY OneAtATimeStep DEF WaiterInv
<1>1. \A c \in Calls : RequestOf[c] \in Requests /\ TokenOf(RequestOf[c]) \in Tokens
  BY ClientAssumption, RequestTypes
<1>2. /\ pc \in [Calls -> {"idle", "pausing", "waiting", "returned", "timedOut",
                           "cancelled"}]
      /\ waiter \in [Tokens -> Calls \cup {Nobody}]
      /\ future \in [Calls -> {"none", "pending", "result", "exception"}]
      /\ Nobody \notin Calls
  BY ClientAssumption DEF TypeOK
<1>3. \A k \in Tokens : waiter[k] # Nobody =>
          waiter[k] \in Calls /\ pc[waiter[k]] = "waiting" /\ TokenOf(RequestOf[waiter[k]]) = k
  BY <1>2 DEF WaiterInv, WaitersAreWaiting, FiledByToken
<1>4. \A c \in Calls : pc[c] = "waiting" /\ future[c] = "pending" =>
          waiter[TokenOf(RequestOf[c])] = c
  BY DEF WaiterInv, WaitersAreWaiting
<1>5. ASSUME NEW c \in Calls, Register(c), pc[c] # "waiting",
             \A b \in Calls \ {c} : RequestOf[b] = RequestOf[c] => pc[b] # "waiting"
      PROVE  WaiterInv'
  <2> DEFINE key == TokenOf(RequestOf[c])
  <2>1. /\ waiter' = [waiter EXCEPT ![key] = c]
        /\ future' = [future EXCEPT ![c] = "pending"]
        /\ pc' = [pc EXCEPT ![c] = "waiting"]
    BY <1>5 DEF Register
  <2>2. ASSUME NEW k \in Tokens, waiter'[k] # Nobody
        PROVE  pc'[waiter'[k]] = "waiting" /\ TokenOf(RequestOf[waiter'[k]]) = k
    <3>1. CASE k = key
      BY <1>1, <1>2, <2>1, <3>1
    <3>2. CASE k # key
      <4>1. waiter'[k] = waiter[k]
        BY <1>1, <1>2, <2>1, <3>2
      <4>2. QED
        BY <1>2, <1>3, <2>1, <2>2, <4>1
    <3>3. QED
      BY <3>1, <3>2
  <2>3. ASSUME NEW b \in Calls, pc'[b] = "waiting", future'[b] = "pending"
        PROVE  waiter'[TokenOf(RequestOf[b])] = b
    <3>1. CASE b = c
      BY <1>1, <1>2, <2>1, <3>1
    <3>2. CASE b # c
      <4>1. pc[b] = "waiting" /\ future[b] = "pending"
        BY <1>2, <2>1, <2>3, <3>2
      <4>2. TokenOf(RequestOf[b]) # key
        BY <1>1, <1>5, <3>2, <4>1 DEF TokensDistinct
      <4>3. QED
        BY <1>1, <1>2, <1>4, <2>1, <4>1, <4>2
    <3>3. QED
      BY <3>1, <3>2
  <2>4. QED
    BY <1>0, <1>2, <2>2, <2>3 DEF WaiterInv, WaitersAreWaiting, FiledByToken
<1>6. ASSUME NEW c \in Calls, NEW s \in {"returned", "timedOut", "cancelled"},
             pc[c] = "waiting", Forget(c), pc' = [pc EXCEPT ![c] = s],
             future' = future
      PROVE  WaiterInv'
  <2> DEFINE key == TokenOf(RequestOf[c])
  <2>1. waiter' = [waiter EXCEPT ![key] = Nobody]
    BY <1>6 DEF Forget
  <2>2. ASSUME NEW k \in Tokens, waiter'[k] # Nobody
        PROVE  pc'[waiter'[k]] = "waiting" /\ TokenOf(RequestOf[waiter'[k]]) = k
    <3>1. k # key /\ waiter'[k] = waiter[k]
      BY <1>1, <1>2, <2>1, <2>2
    <3>2. waiter[k] # c
      BY <1>3, <2>2, <3>1
    <3>3. QED
      BY <1>2, <1>3, <1>6, <2>2, <3>1, <3>2
  <2>3. ASSUME NEW b \in Calls, pc'[b] = "waiting", future'[b] = "pending"
        PROVE  waiter'[TokenOf(RequestOf[b])] = b
    <3>1. b # c /\ pc[b] = "waiting" /\ future[b] = "pending"
      BY <1>2, <1>6, <2>3
    <3>2. TokenOf(RequestOf[b]) # key
      BY <1>1, <1>6, <3>1 DEF TokensDistinct, WaiterInv, OneAtATime
    <3>3. QED
      BY <1>1, <1>2, <1>4, <2>1, <3>1, <3>2
  <2>4. QED
    BY <1>0, <1>2, <2>2, <2>3 DEF WaiterInv, WaitersAreWaiting, FiledByToken
<1>7. ASSUME waiter' = waiter, pc' = pc,
             \A c \in Calls : future'[c] = "pending" => future[c] = "pending"
      PROVE  WaiterInv'
  BY <1>0, <1>7 DEF WaiterInv, WaitersAreWaiting, FiledByToken
<1>8. ASSUME NEW r, SetResult(r)
      PROVE  \A c \in Calls : future'[c] = "pending" => future[c] = "pending"
  BY <1>2, <1>8 DEF SetResult
<1>9. ASSUME NEW c \in Calls, pc[c] \notin {"waiting"}, waiter' = waiter,
             future' = future, NEW s \in {"pausing", "cancelled"},
             pc' = [pc EXCEPT ![c] = s]
      PROVE  WaiterInv'
  <2>1. \A k \in Tokens : waiter[k] # Nobody => waiter[k] # c /\ pc'[waiter[k]] = "waiting"
    BY <1>2, <1>3, <1>9
  <2>2. \A b \in Calls : pc'[b] = "waiting" => pc[b] = "waiting"
    BY <1>2, <1>9
  <2>3. QED
    BY <1>0, <1>4, <1>9, <2>1, <2>2 DEF WaiterInv, WaitersAreWaiting, FiledByToken
<1>10. ASSUME NEW c \in Calls, Send(c) PROVE WaiterInv'
  <2>1. \A b \in Calls \ {c} : RequestOf[b] = RequestOf[c] => pc[b] # "waiting"
    BY <1>10 DEF Send, Ended
  <2>2. CASE Register(c)
    BY <1>5, <1>10, <2>1, <2>2 DEF Send
  <2>3. CASE pc' = [pc EXCEPT ![c] = "pausing"] /\ UNCHANGED <<waiter, future>>
    BY <1>9, <1>10, <2>3 DEF Send
  <2>4. QED
    BY <1>10, <2>2, <2>3 DEF Send
<1>11. ASSUME NEW c \in Calls, Run(c) PROVE WaiterInv'
  <2>1. CASE Retransmit(c) \/ Elapse(c)
    BY <1>7, <2>1 DEF Retransmit, Elapse
  <2>2. CASE WakeUp(c)
    <3>1. \A b \in Calls \ {c} : RequestOf[b] = RequestOf[c] => pc[b] # "waiting"
      BY <2>2 DEF WakeUp, WaiterInv, OneAtATime
    <3>2. QED
      BY <1>5, <2>2, <3>1 DEF WakeUp
  <2>3. CASE Resume(c)
    BY <1>6, <2>3 DEF Resume
  <2>4. CASE Expire(c)
    BY <1>6, <2>4 DEF Expire, GiveUp
  <2>5. QED
    BY <1>11, <2>1, <2>2, <2>3, <2>4 DEF Run
<1>12. ASSUME NEW c \in Calls, Cancel(c) PROVE WaiterInv'
  <2>1. CASE GiveUp(c, "cancelled")
    BY <1>6, <2>1 DEF GiveUp
  <2>2. CASE pc[c] = "pausing" /\ pc' = [pc EXCEPT ![c] = "cancelled"]
             /\ UNCHANGED <<waiter, future>>
    BY <1>9, <2>2
  <2>3. QED
    BY <1>12, <2>1, <2>2 DEF Cancel
<1>13. ASSUME NEW m \in Answer, Deliver(m) PROVE WaiterInv'
  <2>1. waiter' = waiter /\ pc' = pc
    BY <1>13 DEF Deliver
  <2>2. future' = future \/ \E r : SetResult(r)
    BY <1>13 DEF Deliver
  <2>3. QED
    BY <1>7, <1>8, <2>1, <2>2
<1>14. ASSUME NEW p \in parked, Continue(p[1], p[2]) PROVE WaiterInv'
  BY <1>7, <1>8, <1>14 DEF Continue
<1>15. CASE CancelWaited
  <2>1. \A k \in Tokens : waiter'[k] = Nobody
    BY <1>15 DEF CancelWaited
  <2>2. ASSUME NEW c \in Calls, pc'[c] = "waiting" PROVE future'[c] # "pending"
    <3>1. pc[c] = "waiting" /\ future'[c] = "pending" => future[c] = "pending"
      BY <1>15, <2>2 DEF CancelWaited
    <3>2. future[c] = "pending" => future'[c] = "exception"
      BY <1>1, <1>4, <1>15, <2>2 DEF CancelWaited
    <3>3. QED
      BY <1>15, <2>2, <3>1, <3>2 DEF CancelWaited
  <2>3. QED
    BY <1>0, <1>2, <2>1, <2>2 DEF WaiterInv, WaitersAreWaiting, FiledByToken
<1>16. CASE UNCHANGED vars
  BY <1>7, <1>16 DEF vars
<1>17. QED
  BY <1>10, <1>11, <1>12, <1>13, <1>14, <1>15, <1>16 DEF Next

LEMMA WaiterInvHolds ==
    ASSUME TokensDistinct
    PROVE  Spec => []WaiterInv
<1>1. Init => WaiterInv
  BY ClientAssumption, RequestTypes
     DEF Init, WaiterInv, WaitersAreWaiting, FiledByToken, OneAtATime
<1>2. TypeOK /\ WaiterInv /\ [Next]_vars => WaiterInv'
  BY WaiterStep
<1>3. QED
  BY TypeCorrect, <1>1, <1>2, PTL DEF Spec

\* With distinct tokens a waiter is filed exactly while its call waits, through
\* time-outs, cancellations, errors and requests that are sent again.
THEOREM WaitersKept ==
    ASSUME TokensDistinct
    PROVE  Spec => []WaitersAreWaiting
<1>1. WaiterInv => WaitersAreWaiting
  BY DEF WaiterInv
<1>2. QED
  BY WaiterInvHolds, <1>1, PTL

-----------------------------------------------------------------------------
(* Results *)

\* A response goes to the call whose request it answers.
LEMMA SetResultOwn ==
    ASSUME TokensDistinct, TypeOK, FiledByToken, ReturnsOwnAnswer,
           NEW r \in Delivery, SetResult(r)
    PROVE  ReturnsOwnAnswer'
<1> DEFINE w == waiter[TokenOf(r[1].of)]
<1>1. r[1].of \in Requests /\ TokenOf(r[1].of) \in Tokens
  BY RequestTypes DEF Delivery, Answer
<1>2. result \in [Calls -> Seq(Delivery)]
  BY DEF TypeOK
<1>3. CASE result' = result
  BY <1>3 DEF ReturnsOwnAnswer
<1>4. CASE w \in Calls /\ result' = [result EXCEPT ![w] = Append(result[w], r)]
  <2>1. RequestOf[w] = r[1].of
    <3>1. TokenOf(RequestOf[w]) = TokenOf(r[1].of)
      BY <1>1, <1>4 DEF FiledByToken
    <3>2. RequestOf[w] \in Requests
      BY <1>4, ClientAssumption
    <3>3. QED
      BY <1>1, <3>1, <3>2 DEF TokensDistinct
  <2>2. ASSUME NEW c \in Calls, NEW i \in DOMAIN result'[c]
        PROVE  result'[c][i][1].of = RequestOf[c]
    <3>1. CASE c # w
      BY <1>2, <1>4, <2>2, <3>1 DEF ReturnsOwnAnswer
    <3>2. CASE c = w /\ i \in DOMAIN result[w]
      BY <1>2, <1>4, <2>2, <3>2 DEF ReturnsOwnAnswer
    <3>3. CASE c = w /\ i \notin DOMAIN result[w]
      <4>1. result'[c] = Append(result[w], r) /\ result[w] \in Seq(Delivery)
        BY <1>2, <1>4, <3>3
      <4>2. i = Len(result[w]) + 1
        BY <2>2, <3>3, <4>1
      <4>3. QED
        BY <2>1, <3>3, <4>1, <4>2
    <3>4. QED
      BY <3>1, <3>2, <3>3
  <2>3. QED
    BY <2>2 DEF ReturnsOwnAnswer
<1>5. result' = result \/ (w \in Calls /\ result' = [result EXCEPT ![w] = Append(result[w], r)])
  <2>1. w \in Calls \cup {Nobody}
    BY <1>1 DEF TypeOK
  <2>2. QED
    BY <2>1 DEF SetResult
<1>6. QED
  BY <1>3, <1>4, <1>5

LEMMA OwnAnswerStep ==
    ASSUME TokensDistinct
    PROVE  TypeInv /\ WaiterInv /\ ReturnsOwnAnswer /\ [Next]_vars => ReturnsOwnAnswer'
<1> SUFFICES ASSUME TypeInv, WaiterInv, ReturnsOwnAnswer, [Next]_vars
             PROVE  ReturnsOwnAnswer'
  OBVIOUS
<1> USE DEF TypeInv, WaiterInv
<1>1. ASSUME result' = result PROVE ReturnsOwnAnswer'
  BY <1>1 DEF ReturnsOwnAnswer
<1>2. ASSUME NEW m \in Answer, Deliver(m) PROVE ReturnsOwnAnswer'
  <2> DEFINE d == <<m, arrived[m] + 1>>
  <2>1. d \in Delivery
    BY <1>2, ClientAssumption DEF Deliver, Delivery, TypeOK
  <2>2. result' = result \/ SetResult(d)
    BY <1>2 DEF Deliver
  <2>3. QED
    BY <1>1, <2>1, <2>2, SetResultOwn
<1>3. ASSUME NEW p \in parked, Continue(p[1], p[2]) PROVE ReturnsOwnAnswer'
  BY <1>3, SetResultOwn DEF Continue, ParkedAnswer
<1>4. ASSUME NEW c \in Calls, Send(c) \/ Run(c) \/ Cancel(c) PROVE ReturnsOwnAnswer'
  BY <1>1, <1>4 DEF Send, Run, Retransmit, WakeUp, Resume, Elapse, Expire, GiveUp, Cancel
<1>5. CASE CancelWaited \/ UNCHANGED vars
  BY <1>1, <1>5 DEF CancelWaited, vars
<1>6. QED
  BY <1>2, <1>3, <1>4, <1>5 DEF Next

\* With distinct tokens no call of send_message returns the answer to another
\* request, however message IDs repeat and answers are delayed or repeated.
THEOREM OwnAnswer ==
    ASSUME TokensDistinct
    PROVE  Spec => []ReturnsOwnAnswer
<1>1. Init => ReturnsOwnAnswer
  BY DEF Init, ReturnsOwnAnswer
<1>2. TypeInv /\ WaiterInv /\ ReturnsOwnAnswer /\ [Next]_vars => ReturnsOwnAnswer'
  BY OwnAnswerStep
<1>3. QED
  BY TypeInvHolds, WaiterInvHolds, <1>1, <1>2, PTL DEF Spec

-----------------------------------------------------------------------------
(* Message IDs: none is used twice while there are enough of them. *)

\* There is a message ID for every request.
MidsSuffice == IsFiniteSet(Requests) /\ Cardinality(Requests) <= MidSpace

\* The n-th message ID that fetch_mid hands out, counted from zero.
NthMid(n) == IF FirstMid + n < MidSpace THEN FirstMid + n ELSE FirstMid + n - MidSpace

Numbered == {r \in Requests : mid[r] # Nobody}

\* The requests bear the first message IDs, each one of its own.
MidsInv ==
    /\ curMid = NthMid(Cardinality(Numbered))
    /\ \A r \in Numbered : \E n \in 0 .. (Cardinality(Numbered) - 1) : mid[r] = NthMid(n)
    /\ \A r, s \in Numbered : mid[r] = mid[s] => r = s

\* fetch_mid goes from one message ID to the next.
LEMMA NextNthMid ==
    ASSUME NEW n \in 0 .. (MidSpace - 1) PROVE NextMid(NthMid(n)) = NthMid(n + 1)
<1>1. /\ MidSpace \in Nat \ {0} /\ FirstMid \in 0 .. (MidSpace - 1)
      /\ NthMid(n) \in 0 .. (MidSpace - 1)
  BY ClientAssumption DEF Mids, NthMid
<1>2. ASSUME NEW v \in 0 .. (MidSpace - 1)
      PROVE  (v + 1) % MidSpace = IF v + 1 = MidSpace THEN 0 ELSE v + 1
  <2>1. CASE v + 1 = MidSpace
    BY <1>1, <2>1
  <2>2. CASE v + 1 # MidSpace
    BY <1>1, <1>2, <2>2
  <2>3. QED
    BY <2>1, <2>2
<1>3. NextMid(NthMid(n)) = IF NthMid(n) + 1 = MidSpace THEN 0 ELSE NthMid(n) + 1
  BY <1>1, <1>2 DEF NextMid
<1>4. QED
  BY <1>1, <1>3 DEF NthMid

\* The first MidSpace message IDs differ.
LEMMA NthMidsDiffer ==
    ASSUME NEW n \in 0 .. (MidSpace - 1), NEW k \in 0 .. (MidSpace - 1),
           NthMid(n) = NthMid(k)
    PROVE  n = k
BY ClientAssumption DEF Mids, NthMid

\* Only the start of a call assigns message IDs and fills the tables of sent
\* requests.
LEMMA OnlySendSends ==
    ASSUME [Next]_vars
    PROVE  UNCHANGED sending \/ \E c \in Calls : Send(c)
BY DEF Next, Run, Retransmit, WakeUp, Resume, Elapse, Expire, GiveUp, Cancel, Deliver,
       Continue, CancelWaited, vars

\* The message ID of a request that has none yet is not another's.
LEMMA MidsStep ==
    ASSUME MidsSuffice PROVE TypeOK /\ MidsInv /\ [Next]_vars => MidsInv'
<1> SUFFICES ASSUME TypeOK, MidsInv, [Next]_vars PROVE MidsInv'
  OBVIOUS
<1>1. CASE UNCHANGED <<mid, curMid>>
  BY <1>1 DEF MidsInv, Numbered
<1>2. ASSUME NEW c \in Calls, Send(c) PROVE MidsInv'
  <2> DEFINE r == RequestOf[c]
             n == Cardinality(Numbered)
  <2>1. r \in Requests /\ mid \in [Requests -> Mids \cup {Nobody}] /\ curMid \in Mids
    BY ClientAssumption DEF TypeOK
  <2>2. CASE mid[r] # Nobody
    <3>1. mid' = [mid EXCEPT ![r] = mid[r]] /\ curMid' = curMid
      BY <1>2, <2>2 DEF Send
    <3>2. mid' = mid
      BY <2>1, <3>1
    <3>3. QED
      BY <1>1, <3>1, <3>2
  <2>3. CASE mid[r] = Nobody
    <3>1. mid' = [mid EXCEPT ![r] = curMid] /\ curMid' = NextMid(curMid)
      BY <1>2, <2>3 DEF Send
    <3>2. /\ Numbered' = Numbered \cup {r} /\ r \notin Numbered
          /\ mid'[r] = curMid /\ \A s \in Numbered : mid'[s] = mid[s]
      BY <2>1, <2>3, <3>1, ClientAssumption DEF Numbered
    <3>3. IsFiniteSet(Numbered) /\ n \in Nat
      BY FS_Subset, FS_CardinalityType DEF MidsSuffice, Numbered
    <3>4. Cardinality(Numbered') = n + 1
      BY <3>2, <3>3, FS_AddElement
    <3>5. n + 1 <= Cardinality(Requests) /\ Cardinality(Requests) \in Nat
      <4>1. Numbered' \subseteq Requests
        BY <2>1, <3>2 DEF Numbered
      <4>2. QED
        BY <3>4, <4>1, FS_Subset, FS_CardinalityType DEF MidsSuffice
    <3>6. n \in 0 .. (MidSpace - 1)
      BY <3>3, <3>5, ClientAssumption DEF MidsSuffice
    <3>7. curMid = NthMid(n) /\ curMid' = NthMid(n + 1)
      BY <3>1, <3>6, NextNthMid DEF MidsInv
    <3>8. \A s \in Numbered : \E k \in 0 .. (n - 1) : mid[s] = NthMid(k)
      BY DEF MidsInv
    <3>9. \A s \in Numbered : mid[s] # curMid
      <4> SUFFICES ASSUME NEW s \in Numbered PROVE mid[s] # curMid
        OBVIOUS
      <4>1. PICK k \in 0 .. (n - 1) : mid[s] = NthMid(k)
        BY <3>8
      <4>2. k \in 0 .. (MidSpace - 1) /\ k # n
        BY <3>3, <3>6, <4>1, ClientAssumption
      <4>3. QED
        BY <3>6, <3>7, <4>1, <4>2, NthMidsDiffer
    <3> HIDE DEF n, r
    <3>10. \A s \in Numbered' : \E k \in 0 .. n : mid'[s] = NthMid(k)
      <4>1. ASSUME NEW s \in Numbered PROVE \E k \in 0 .. n : mid'[s] = NthMid(k)
        BY <3>2, <3>3, <3>8, <4>1
      <4>2. n \in 0 .. n /\ mid'[r] = NthMid(n)
        BY <3>2, <3>3, <3>7
      <4>3. QED
        BY <3>2, <4>1, <4>2
    <3>11. \A s, u \in Numbered' : mid'[s] = mid'[u] => s = u
      BY <3>2, <3>9 DEF MidsInv
    <3>12. (Cardinality(Numbered) - 1)' = n
      BY <3>3, <3>4
    <3>13. QED
      BY <3>4, <3>7, <3>10, <3>11, <3>12 DEF MidsInv
  <2>4. QED
    BY <2>2, <2>3
<1>3. QED
  BY <1>1, <1>2, OnlySendSends DEF sending

-----------------------------------------------------------------------------
(* Answers that are offered *)

\* While a call lasts the tables of sent requests lead to it, and an entry is
\* found under the key of its request only.
SentInv ==
    /\ \A c \in Calls :
          /\ pc[c] \in {"pausing", "waiting"} =>
                /\ sentToken[SentKey(RequestOf[c])] = c
                /\ ~RequestOf[c].multicast =>
                      sentMid[<<RequestOf[c].dest, mid[RequestOf[c]]>>] = c
          /\ pc[c] \in {"idle", "waiting"} => c \notin thread
    /\ \A k \in (Hosts \cup {Local}) \X Tokens :
          sentToken[k] # Nobody => SentKey(RequestOf[sentToken[k]]) = k

\* What has become of the answers offered to a call.
OfferKept(c) ==
    /\ pc[c] \in {"idle", "pausing", "cancelled"} => offered[c] = {}
    /\ IF RequestOf[c].multicast
       THEN /\ pc[c] # "timedOut"
            /\ \A m \in offered[c] : \E i \in DOMAIN result[c] : result[c][i][1] = m
       ELSE offered[c] # {} => future[c] = "result" /\ pc[c] \in {"waiting", "returned"}

OffersKept == \A c \in Calls : OfferKept(c)

\* A call that does not leave off waiting, and entries that stay.
LEMMA SentFrame ==
    ASSUME SentInv, UNCHANGED sending,
           \A c \in Calls :
              /\ pc'[c] \in {"pausing", "waiting"} => pc[c] \in {"pausing", "waiting"}
              /\ pc'[c] \in {"idle", "waiting"} => c \notin thread'
    PROVE  SentInv'
BY DEF SentInv, sending

\* The entries of a call stay while other requests are sent.
LEMMA SentStep ==
    ASSUME TokensDistinct
    PROVE  TypeInv /\ MidsInv' /\ SentInv /\ [Next]_vars => SentInv'
<1> SUFFICES ASSUME TypeInv, MidsInv', SentInv, [Next]_vars PROVE SentInv'
  OBVIOUS
<1>1. /\ pc \in [Calls -> {"idle", "pausing", "waiting", "returned", "timedOut",
                           "cancelled"}]
      /\ mid \in [Requests -> Mids \cup {Nobody}] /\ curMid \in Mids
      /\ sentMid \in [Hosts \X Mids -> Calls \cup {Nobody}]
      /\ sentToken \in [(Hosts \cup {Local}) \X Tokens -> Calls \cup {Nobody}]
  BY DEF TypeInv, TypeOK
<1>2. \A c \in Calls :
        /\ RequestOf[c] \in Requests /\ RequestOf[c].dest \in Hosts
        /\ SentKey(RequestOf[c]) \in (Hosts \cup {Local}) \X Tokens
  BY ClientAssumption, RequestTypes
<1>3. \A c \in Calls : pc[c] \in {"idle", "waiting"} => c \notin thread
  BY DEF SentInv
<1>4. ASSUME NEW c \in Calls, Send(c) PROVE SentInv'
  <2> DEFINE r == RequestOf[c]
             id == IF mid[r] = Nobody THEN curMid ELSE mid[r]
  <2>1. /\ mid' = [mid EXCEPT ![r] = id]
        /\ sentToken' = [sentToken EXCEPT ![SentKey(r)] = c]
        /\ sentMid' = IF r.multicast THEN sentMid
                      ELSE [sentMid EXCEPT ![<<r.dest, id>>] = c]
        /\ \A b \in Calls \ {c} :
              RequestOf[b] = r => pc[b] \notin {"pausing", "waiting"}
        /\ pc[c] = "idle"
    BY <1>4 DEF Send, Ended
  <2>2. id \in Mids /\ Nobody \notin Mids
    BY <1>1, <1>2, ClientAssumption
  <2>3. \/ pc' = [pc EXCEPT ![c] = "waiting"] /\ thread' = thread
        \/ pc' = [pc EXCEPT ![c] = "pausing"] /\ thread' = thread \cup {c}
    BY <1>4 DEF Send, Register
  <2> HIDE DEF id
  <2>4. ASSUME NEW b \in Calls
        PROVE  pc'[b] \in {"idle", "waiting"} => b \notin thread'
    BY <1>1, <1>3, <2>1, <2>3
  <2>5. ASSUME NEW b \in Calls, pc'[b] \in {"pausing", "waiting"}
        PROVE  /\ sentToken'[SentKey(RequestOf[b])] = b
               /\ ~RequestOf[b].multicast =>
                     sentMid'[<<RequestOf[b].dest, mid'[RequestOf[b]]>>] = b
    <3>1. CASE b = c
      <4>1. mid'[r] = id /\ <<r.dest, id>> \in Hosts \X Mids
        BY <1>1, <1>2, <2>1, <2>2
      <4>2. QED
        BY <1>1, <1>2, <2>1, <3>1, <4>1
    <3>2. CASE b # c
      <4>1. pc[b] \in {"pausing", "waiting"} /\ RequestOf[b] # r
        BY <1>1, <2>1, <2>3, <2>5, <3>2
      <4>2. /\ sentToken[SentKey(RequestOf[b])] = b
            /\ ~RequestOf[b].multicast =>
                  sentMid[<<RequestOf[b].dest, mid[RequestOf[b]]>>] = b
        BY <4>1 DEF SentInv
      <4>3. SentKey(RequestOf[b]) # SentKey(r)
        BY <1>2, <4>1 DEF SentKey, TokensDistinct
      <4>4. mid'[RequestOf[b]] = mid[RequestOf[b]] /\ mid[RequestOf[b]] \in Mids
        BY <1>1, <1>2, <2>1, <4>1 DEF TypeInv, MidAssigned
      <4>5. mid'[RequestOf[b]] # mid'[r]
        <5>1. mid'[r] \in Mids
          BY <1>1, <1>2, <2>1, <2>2
        <5>2. RequestOf[b] \in Numbered' /\ r \in Numbered'
          BY <1>2, <2>2, <4>4, <5>1 DEF Numbered
        <5>3. QED
          BY <4>1, <5>2 DEF MidsInv
      <4>6. <<RequestOf[b].dest, mid[RequestOf[b]]>> # <<r.dest, id>>
        BY <1>1, <1>2, <2>1, <4>4, <4>5
      <4>7. sentToken'[SentKey(RequestOf[b])] = b
        BY <1>1, <1>2, <2>1, <4>2, <4>3
      <4>8. <<RequestOf[b].dest, mid[RequestOf[b]]>> \in Hosts \X Mids
        BY <1>2, <4>4
      <4>9. sentMid'[<<RequestOf[b].dest, mid[RequestOf[b]]>>]
              = sentMid[<<RequestOf[b].dest, mid[RequestOf[b]]>>]
        BY <1>1, <2>1, <4>6, <4>8
      <4>10. QED
        BY <4>2, <4>4, <4>7, <4>9
    <3>3. QED
      BY <3>1, <3>2
  <2>6. ASSUME NEW k \in (Hosts \cup {Local}) \X Tokens, sentToken'[k] # Nobody
        PROVE  SentKey(RequestOf[sentToken'[k]]) = k
    <3>1. CASE k = SentKey(r)
      BY <1>1, <2>1, <3>1
    <3>2. CASE k # SentKey(r)
      <4>1. sentToken'[k] = sentToken[k]
        BY <1>1, <2>1, <3>2
      <4>2. QED
        BY <2>6, <4>1 DEF SentInv
    <3>3. QED
      BY <3>1, <3>2
  <2>7. QED
    BY <2>4, <2>5, <2>6 DEF SentInv
<1>5. ASSUME NEW c \in Calls, NEW s \in {"waiting", "returned", "timedOut", "cancelled"},
             UNCHANGED sending, pc' = [pc EXCEPT ![c] = s], thread' = thread,
             s = "waiting" => pc[c] = "pausing" /\ c \notin thread
      PROVE  SentInv'
  <2>1. \A b \in Calls : /\ pc'[b] \in {"pausing", "waiting"} => pc[b] \in {"pausing", "waiting"}
                         /\ pc'[b] \in {"idle", "waiting"} => b \notin thread'
    BY <1>1, <1>3, <1>5
  <2>2. QED
    BY <1>5, <2>1, SentFrame
<1>6. ASSUME UNCHANGED sending, pc' = pc, thread' \subseteq thread PROVE SentInv'
  BY <1>3, <1>6, SentFrame
<1>7. ASSUME NEW c \in Calls, Run(c) PROVE SentInv'
  <2>1. CASE Retransmit(c) \/ Elapse(c)
    BY <1>6, <2>1 DEF Retransmit, Elapse
  <2>2. CASE WakeUp(c)
    BY <1>5, <2>2 DEF WakeUp, Register
  <2>3. CASE Resume(c)
    BY <1>5, <2>3 DEF Resume
  <2>4. CASE Expire(c)
    BY <1>5, <2>4 DEF Expire, GiveUp
  <2>5. QED
    BY <1>7, <2>1, <2>2, <2>3, <2>4 DEF Run
<1>8. ASSUME NEW c \in Calls, Cancel(c) PROVE SentInv'
  BY <1>5, <1>8 DEF Cancel, GiveUp
<1>9. CASE \/ \E m \in Answer : Deliver(m)
           \/ \E p \in parked : Continue(p[1], p[2])
           \/ CancelWaited \/ UNCHANGED vars
  BY <1>6, <1>9 DEF Deliver, Continue, CancelWaited, vars
<1>10. QED
  BY <1>4, <1>7, <1>8, <1>9 DEF Next

\* What SetResult does to the calls: results grow, and a future is resolved.
LEMMA SetResultGrows ==
    ASSUME TypeOK, NEW r \in Delivery, SetResult(r)
    PROVE  \A c \in Calls :
              /\ future'[c] = future[c] \/ future'[c] = "result"
              /\ \A i \in DOMAIN result[c] : i \in DOMAIN result'[c]
                                             /\ result'[c][i] = result[c][i]
<1> DEFINE w == waiter[TokenOf(r[1].of)]
<1>1. r[1].of \in Requests /\ TokenOf(r[1].of) \in Tokens
  BY RequestTypes DEF Delivery, Answer
<1>2. /\ w \in Calls \cup {Nobody} /\ result \in [Calls -> Seq(Delivery)]
      /\ future \in [Calls -> {"none", "pending", "result", "exception"}]
  BY <1>1 DEF TypeOK
<1>3. \/ result' = result
      \/ w \in Calls /\ result' = [result EXCEPT ![w] = Append(result[w], r)]
  BY <1>2 DEF SetResult
<1>4. \/ future' = future
      \/ w \in Calls /\ future' = [future EXCEPT ![w] = "result"]
  BY <1>2 DEF SetResult
<1>5. ASSUME NEW c \in Calls, NEW i \in DOMAIN result[c]
      PROVE  i \in DOMAIN result'[c] /\ result'[c][i] = result[c][i]
  <2>1. CASE result'[c] = result[c]
    BY <1>5, <2>1
  <2>2. CASE result'[c] = Append(result[c], r)
    <3>1. result[c] \in Seq(Delivery)
      BY <1>2
    <3>2. i \in 1 .. Len(result[c])
      BY <1>5, <3>1
    <3>3. QED
      BY <2>2, <3>1, <3>2
  <2>3. QED
    BY <1>2, <1>3, <2>1, <2>2
<1>6. QED
  BY <1>2, <1>4, <1>5

\* An answer to the request of a waiting call is matched with that call.
LEMMA MatchedWithWaiting ==
    ASSUME TokensDistinct, TypeInv, SentInv, NEW m \in Answers, NEW c \in Calls,
           RequestOf[c] = m.of, pc[c] = "waiting"
    PROVE  Match(m) = c
<1> DEFINE r == m.of
<1>1. /\ m.src \in Hosts /\ r \in Requests /\ m.type \in r.answers
      /\ r.multicast \/ m.src = r.dest
  BY DEF Answers, Answer
<1>2. /\ TokenOf(r) \in Tokens /\ Nobody \notin Calls /\ Local \notin Hosts
      /\ m.type = "ACK" => ~r.multicast
  BY <1>1, RequestTypes, ClientAssumption
<1>3. /\ sentToken[SentKey(r)] = c
      /\ ~r.multicast => sentMid[<<r.dest, mid[r]>>] = c
  BY DEF SentInv
<1>4. CASE ~r.multicast
  <2>1. SentKey(r) = <<m.src, TokenOf(r)>>
    BY <1>1, <1>4 DEF SentKey
  <2>2. sentMid[<<m.src, mid[r]>>] = c /\ sentToken[<<m.src, TokenOf(r)>>] = c
    BY <1>1, <1>3, <1>4, <2>1
  <2>3. QED
    BY <1>2, <2>2 DEF Match
<1>5. CASE r.multicast
  <2>1. sentToken[<<Local, TokenOf(r)>>] = c
    BY <1>3, <1>5 DEF SentKey
  <2>2. sentToken[<<m.src, TokenOf(r)>>] = Nobody
    <3> DEFINE k == <<m.src, TokenOf(r)>>
               b == sentToken[k]
    <3> SUFFICES ASSUME b # Nobody PROVE FALSE
      OBVIOUS
    <3>1. k \in (Hosts \cup {Local}) \X Tokens
      BY <1>1, <1>2
    <3>2. b \in Calls /\ SentKey(RequestOf[b]) = k
      BY <3>1 DEF SentInv, TypeInv, TypeOK
    <3>3. RequestOf[b] \in Requests /\ TokenOf(RequestOf[b]) = TokenOf(r)
      BY <3>2, ClientAssumption DEF SentKey
    <3>4. RequestOf[b] = r
      BY <1>1, <3>3 DEF TokensDistinct
    <3>5. SentKey(RequestOf[b]) = <<Local, TokenOf(r)>>
      BY <1>5, <3>4 DEF SentKey
    <3>6. QED
      BY <1>1, <1>2, <3>2, <3>5
  <2>3. QED
    BY <1>2, <1>5, <2>1, <2>2 DEF Match
<1>6. QED
  BY <1>4, <1>5

\* A call that stays where it is keeps what it has been offered.
LEMMA OfferFrame ==
    ASSUME NEW c \in Calls, OfferKept(c), offered'[c] = offered[c],
           pc'[c] = pc[c], future'[c] = future[c] \/ future'[c] = "result" \/ future[c] = "pending",
           \A i \in DOMAIN result[c] : i \in DOMAIN result'[c]
                                       /\ result'[c][i] = result[c][i]
    PROVE  OfferKept(c)'
<1>1. CASE RequestOf[c].multicast
  <2>1. \A m \in offered[c] : \E i \in DOMAIN result[c] : result[c][i][1] = m
    BY <1>1 DEF OfferKept
  <2>2. \A m \in offered'[c] : \E i \in DOMAIN result'[c] : result'[c][i][1] = m
    BY <2>1
  <2>3. QED
    BY <1>1, <2>2 DEF OfferKept
<1>2. CASE ~RequestOf[c].multicast
  BY <1>2 DEF OfferKept
<1>3. QED
  BY <1>1, <1>2

LEMMA OffersStep ==
    ASSUME TokensDistinct
    PROVE  TypeInv /\ WaiterInv /\ SentInv /\ OffersKept /\ [Next]_vars => OffersKept'
<1> SUFFICES ASSUME TypeInv, WaiterInv, SentInv, OffersKept, [Next]_vars PROVE OffersKept'
  OBVIOUS
<1>1. /\ pc \in [Calls -> {"idle", "pausing", "waiting", "returned", "timedOut",
                           "cancelled"}]
      /\ future \in [Calls -> {"none", "pending", "result", "exception"}]
      /\ waiter \in [Tokens -> Calls \cup {Nobody}]
      /\ result \in [Calls -> Seq(Delivery)]
      /\ offered \in [Calls -> SUBSET Answer]
      /\ Nobody \notin Calls /\ TypeOK
  BY ClientAssumption DEF TypeInv, TypeOK
<1>2. \A c \in Calls : OfferKept(c)
  BY DEF OffersKept
<1>3. ASSUME NEW c \in Calls, NEW s, NEW f, pc' = [pc EXCEPT ![c] = s],
             future' = [future EXCEPT ![c] = f],
             UNCHANGED <<offered, result>>, OfferKept(c)'
      PROVE  OffersKept'
  <2>1. ASSUME NEW b \in Calls, b # c PROVE OfferKept(b)'
    <3>1. pc'[b] = pc[b] /\ future'[b] = future[b]
      BY <1>1, <1>3, <2>1
    <3>2. QED
      BY <1>2, <1>3, <3>1, OfferFrame
  <2>2. QED
    BY <1>3, <2>1 DEF OffersKept
<1>4. ASSUME UNCHANGED <<pc, future, offered, result>> PROVE OffersKept'
  BY <1>4 DEF OffersKept, OfferKept
<1>5. ASSUME NEW c \in Calls, pc[c] \in {"idle", "pausing"},
             NEW s \in {"pausing", "waiting", "cancelled"},
             pc' = [pc EXCEPT ![c] = s], future' = future \/ Register(c),
             UNCHANGED <<offered, result>>
      PROVE  OffersKept'
  <2>1. offered'[c] = {} /\ pc'[c] = s
    BY <1>1, <1>2, <1>5 DEF OfferKept
  <2>2. OfferKept(c)'
    BY <2>1 DEF OfferKept
  <2>3. \E f : future' = [future EXCEPT ![c] = f]
    <3>1. future = [future EXCEPT ![c] = future[c]]
      BY <1>1
    <3>2. QED
      BY <1>5, <3>1 DEF Register
  <2>4. QED
    BY <1>3, <1>5, <2>2, <2>3
<1>6. ASSUME NEW c \in Calls, pc[c] = "waiting", NEW s,
             pc' = [pc EXCEPT ![c] = s], UNCHANGED <<future, offered, result>>,
             \/ s = "returned" /\ (RequestOf[c].multicast \/ future[c] \in {"result", "pending"})
             \/ s \in {"timedOut", "cancelled"} /\ future[c] # "result" /\ ~RequestOf[c].multicast
      PROVE  OffersKept'
  <2>1. pc'[c] = s /\ future' = [future EXCEPT ![c] = future[c]]
    BY <1>1, <1>6
  <2>2. OfferKept(c)'
    BY <1>2, <1>6, <2>1 DEF OfferKept
  <2>3. QED
    BY <1>3, <1>6, <2>1, <2>2
<1>7. ASSUME NEW c \in Calls, Send(c) PROVE OffersKept'
  <2>1. pc[c] = "idle" /\ UNCHANGED <<offered, result>>
    BY <1>7 DEF Send
  <2>2. \E s \in {"pausing", "waiting"} : pc' = [pc EXCEPT ![c] = s]
    BY <1>7 DEF Send, Register
  <2>3. future' = future \/ Register(c)
    BY <1>7 DEF Send
  <2>4. QED
    BY <1>5, <2>1, <2>2, <2>3
<1>8. ASSUME NEW c \in Calls, Run(c) PROVE OffersKept'
  <2>1. CASE Retransmit(c) \/ Elapse(c)
    BY <1>4, <2>1 DEF Retransmit, Elapse
  <2>2. CASE WakeUp(c)
    BY <1>5, <2>2 DEF WakeUp, Register
  <2>3. CASE Resume(c)
    <3>1. PICK s : s = (IF future[c] = "result" \/ RequestOf[c].multicast
                        THEN "returned" ELSE "timedOut")
      OBVIOUS
    <3>2. QED
      BY <1>6, <2>3, <3>1 DEF Resume
  <2>4. CASE Expire(c)
    BY <1>6, <2>4 DEF Expire, GiveUp
  <2>5. QED
    BY <1>8, <2>1, <2>2, <2>3, <2>4 DEF Run
<1>9. ASSUME NEW c \in Calls, Cancel(c) PROVE OffersKept'
  <2>1. CASE GiveUp(c, "cancelled")
    BY <1>6, <2>1 DEF GiveUp
  <2>2. CASE pc[c] = "pausing" /\ pc' = [pc EXCEPT ![c] = "cancelled"]
             /\ UNCHANGED <<future, offered, result>>
    BY <1>5, <2>2
  <2>3. QED
    BY <1>9, <2>1, <2>2 DEF Cancel
<1>10. ASSUME NEW p \in parked, Continue(p[1], p[2]) PROVE OffersKept'
  <2>1. response[p[2]] \in Delivery /\ SetResult(response[p[2]])
        /\ UNCHANGED <<pc, offered>>
    BY <1>10 DEF Continue, TypeInv, ParkedAnswer
  <2>2. \A c \in Calls :
          /\ future'[c] = future[c] \/ future'[c] = "result"
          /\ \A i \in DOMAIN result[c] : i \in DOMAIN result'[c]
                                         /\ result'[c][i] = result[c][i]
    BY <1>1, <2>1, SetResultGrows
  <2>3. \A c \in Calls : OfferKept(c)'
    BY <1>2, <2>1, <2>2, OfferFrame
  <2>4. QED
    BY <2>3 DEF OffersKept
<1>11. ASSUME NEW m \in Answer, Deliver(m) PROVE OffersKept'
  <2> DEFINE d == <<m, arrived[m] + 1>>
             t == Match(m)
  <2>1. m \in Answers /\ d \in Delivery /\ m.of \in Requests /\ pc' = pc
    <3>1. m \in Answers /\ arrived[m] < Copies /\ pc' = pc
      BY <1>11 DEF Deliver
    <3>2. arrived[m] \in 0 .. Copies
      BY DEF TypeInv, TypeOK
    <3>3. d \in Delivery
      BY <3>1, <3>2, ClientAssumption DEF Delivery
    <3>4. QED
      BY <3>1, <3>3 DEF Answer
  <2>2. (result' = result /\ future' = future) \/ SetResult(d)
    BY <1>11 DEF Deliver
  <2>3. \A c \in Calls :
          /\ future'[c] = future[c] \/ future'[c] = "result"
          /\ \A i \in DOMAIN result[c] : i \in DOMAIN result'[c]
                                         /\ result'[c][i] = result[c][i]
    <3>1. CASE result' = result /\ future' = future
      BY <3>1
    <3>2. CASE SetResult(d)
      BY <1>1, <2>1, <3>2, SetResultGrows
    <3>3. QED
      BY <2>2, <3>1, <3>2
  <2>4. ASSUME NEW c \in Calls PROVE OfferKept(c)'
    <3>1. CASE ~(RequestOf[c] = m.of /\ pc[c] = "waiting" /\ future[c] = "pending")
      <4>1. offered'[c] = offered[c]
        BY <1>11, <3>1 DEF Deliver
      <4>2. QED
        BY <1>2, <2>1, <2>3, <4>1, OfferFrame
    <3>2. CASE RequestOf[c] = m.of /\ pc[c] = "waiting" /\ future[c] = "pending"
      <4>1. offered'[c] = offered[c] \cup {m}
        BY <1>11, <3>2 DEF Deliver
      <4>2. t = c /\ c \notin thread
        BY <2>1, <3>2, MatchedWithWaiting DEF SentInv
      <4>3. SetResult(d)
        BY <1>1, <1>11, <4>2 DEF Deliver
      <4>4. waiter[TokenOf(m.of)] = c
        BY <3>2 DEF WaiterInv, WaitersAreWaiting
      <4>5. /\ result' = [result EXCEPT ![c] = Append(result[c], d)]
            /\ ~RequestOf[c].multicast => future' = [future EXCEPT ![c] = "result"]
        BY <1>1, <3>2, <4>3, <4>4 DEF SetResult
      <4>6. CASE ~RequestOf[c].multicast
        BY <1>1, <2>1, <3>2, <4>5, <4>6 DEF OfferKept
      <4>7. CASE RequestOf[c].multicast
        <5>1. \A n \in offered[c] : \E i \in DOMAIN result[c] : result[c][i][1] = n
          BY <1>2, <4>7 DEF OfferKept
        <5>2. \A n \in offered[c] : \E i \in DOMAIN result'[c] : result'[c][i][1] = n
          BY <2>3, <5>1
        <5>3. \E i \in DOMAIN result'[c] : result'[c][i][1] = m
          <6>1. result'[c] = Append(result[c], d) /\ result[c] \in Seq(Delivery)
            BY <1>1, <4>5
          <6>2. /\ Len(result[c]) + 1 \in DOMAIN result'[c]
                /\ result'[c][Len(result[c]) + 1] = d
            BY <2>1, <6>1
          <6>3. QED
            BY <6>2
        <5>4. QED
          BY <2>1, <3>2, <4>1, <4>7, <5>2, <5>3 DEF OfferKept
      <4>8. QED
        BY <4>6, <4>7
    <3>3. QED
      BY <3>1, <3>2
  <2>5. QED
    BY <2>4 DEF OffersKept
<1>12. CASE CancelWaited
  <2>1. \A c \in Calls : future'[c] = future[c] \/ future[c] = "pending"
    BY <1>12 DEF CancelWaited
  <2>2. UNCHANGED <<pc, offered, result>>
    BY <1>12 DEF CancelWaited
  <2>3. \A c \in Calls : OfferKept(c)'
    BY <1>2, <2>1, <2>2, OfferFrame
  <2>4. QED
    BY <2>3 DEF OffersKept
<1>13. CASE UNCHANGED vars
  BY <1>4, <1>13 DEF vars
<1>14. QED
  BY <1>7, <1>8, <1>9, <1>10, <1>11, <1>12, <1>13 DEF Next

\* With distinct tokens, and message IDs that do not run out, an answer that
\* comes while its call waits is returned, whatever time-out, cancellation or
\* repeated request it meets.
THEOREM OfferedAnswersReturned ==
    ASSUME TokensDistinct, MidsSuffice
    PROVE  Spec => []OfferedIsReturned
<1> DEFINE Inv == MidsInv /\ SentInv /\ OffersKept
<1>1. Init => Inv
  <2> SUFFICES ASSUME Init PROVE Inv
    OBVIOUS
  <2>1. MidsInv
    <3>1. Numbered = {}
      BY DEF Init, Numbered
    <3>2. Cardinality(Numbered) = 0
      BY <3>1, FS_EmptySet
    <3>3. QED
      BY <3>1, <3>2, ClientAssumption DEF Init, MidsInv, NthMid, Mids
  <2>2. SentInv
    BY DEF Init, SentInv
  <2>3. OffersKept
    BY DEF Init, OffersKept, OfferKept
  <2>4. QED
    BY <2>1, <2>2, <2>3
<1>2. TypeInv /\ WaiterInv /\ Inv /\ [Next]_vars => Inv'
  <2> SUFFICES ASSUME TypeInv, WaiterInv, Inv, [Next]_vars PROVE Inv'
    OBVIOUS
  <2>1. MidsInv'
    BY MidsStep DEF TypeInv
  <2>2. SentInv'
    BY <2>1, SentStep
  <2>3. OffersKept'
    BY OffersStep
  <2>4. QED
    BY <2>1, <2>2, <2>3
<1>3. Inv => OfferedIsReturned
  BY DEF OffersKept, OfferKept, OfferedIsReturned
<1>4. QED
  BY TypeInvHolds, WaiterInvHolds, <1>1, <1>2, <1>3, PTL DEF Spec

=============================================================================
