------------------------ MODULE ServerExchangeProofs ------------------------
(***************************************************************************)
(* What holds of ServerExchange for every set of requests, any number of   *)
(* copies and every behaviour of the handlers.                             *)
(***************************************************************************)
EXTENDS ServerExchange, TLAPS

-----------------------------------------------------------------------------
(* A lock's queue *)

\* A waiter that gives up leaves a queue of the same kind.
LEMMA WithoutType ==
    ASSUME NEW S, NEW q \in Seq(S), NEW a
    PROVE  Without(q, a) \in Seq(S)
<1>1. CASE ~\E i \in DOMAIN q : q[i] = a
  BY <1>1 DEF Without
<1>2. CASE \E i \in DOMAIN q : q[i] = a
  <2> DEFINE k == CHOOSE i \in DOMAIN q : q[i] = a
             p == [i \in 1 .. (Len(q) - 1) |-> IF i < k THEN q[i] ELSE q[i + 1]]
  <2>1. k \in DOMAIN q
    BY <1>2
  <2>2. Len(q) - 1 \in Nat
    BY <2>1
  <2>3. \A i \in 1 .. (Len(q) - 1) : p[i] \in S
    BY <2>1, <2>2
  <2>4. p \in Seq(S)
    BY <2>2, <2>3
  <2>5. QED
    BY <1>2, <2>4 DEF Without
<1>3. QED
  BY <1>1, <1>2

\* The owner of a lock keeps it when another agent gives up waiting.
LEMMA WithoutHead ==
    ASSUME NEW S, NEW q \in Seq(S), q # <<>>, NEW a, Head(q) # a
    PROVE  Without(q, a) # <<>> /\ Head(Without(q, a)) = Head(q)
<1>1. CASE ~\E i \in DOMAIN q : q[i] = a
  BY <1>1 DEF Without
<1>2. CASE \E i \in DOMAIN q : q[i] = a
  <2> DEFINE k == CHOOSE i \in DOMAIN q : q[i] = a
             p == [i \in 1 .. (Len(q) - 1) |-> IF i < k THEN q[i] ELSE q[i + 1]]
  <2>1. k \in DOMAIN q /\ q[k] = a
    BY <1>2
  <2>2. k # 1 /\ k \in 1 .. Len(q) /\ Len(q) \in Nat
    BY <2>1
  <2>3. Len(q) - 1 \in Nat /\ Len(q) - 1 >= 1 /\ 1 < k
    BY <2>2
  <2>4. \A i \in 1 .. (Len(q) - 1) : p[i] \in S
    BY <2>2, <2>3
  <2>5. p \in Seq(S) /\ Len(p) = Len(q) - 1 /\ p[1] = q[1]
    BY <2>3, <2>4
  <2>6. QED
    BY <1>2, <2>3, <2>5 DEF Without
<1>3. QED
  BY <1>1, <1>2


-----------------------------------------------------------------------------
(* Types *)

\* A request's message ID, source and token have the types of the tables' keys.
LEMMA KeyTypes ==
    ASSUME NEW r \in Requests
    PROVE  /\ r.src \in Clients /\ r.mid \in Mids /\ r.token \in Tokens
           /\ r.type \in {"CON", "NON"} /\ r.multicast \in BOOLEAN
           /\ MidKey(r) \in MidKeys /\ TokenKey(r) \in TokenKeys
<1>1. r \in [src: Clients, mid: Mids, token: Tokens,
             type: {"CON", "NON"}, multicast: BOOLEAN]
  BY ExchangeAssumption
<1>2. QED
  BY <1>1 DEF MidKey, TokenKey, Origin, MidKeys, TokenKeys

\* A response that is sent is a datagram, and send_ack sends one.
LEMMA SendingType ==
    ASSUME NEW a \in Answer, NEW to \in Requests
    PROVE  Sending(a, to) \subseteq Datagram
<1> DEFINE d == [to |-> to, type |-> a.type, mid |-> a.mid, of |-> a.of,
                 empty |-> FALSE]
<1>1. a.mid \in Mids /\ a.of \in Requests
  BY DEF Answer
<1>2. CASE a.built /\ a.type \in {"ACK", "NON", "CON"}
  <2>1. d \in Datagram
    BY <1>1, <1>2 DEF Datagram
  <2>2. Sending(a, to) = {d}
    BY <1>2 DEF Sending
  <2>3. QED
    BY <2>1, <2>2
<1>3. CASE ~(a.built /\ a.type \in {"ACK", "NON", "CON"})
  BY <1>3 DEF Sending
<1>4. QED
  BY <1>2, <1>3

LEMMA AckBodyType ==
    ASSUME TypeOK, NEW x \in Task, NEW message \in Task, NEW current \in Task,
           NEW to \in Requests, AckBody(x, message, current, to)
    PROVE  acked' \subseteq Task /\ completed' \subseteq Task /\ sent' \subseteq Datagram
<1>1. message[1] \in Requests
  BY DEF Task
<1>2. message[1].mid \in Mids
  BY <1>1, KeyTypes
<1> DEFINE d == [to |-> to, type |-> "ACK", mid |-> message[1].mid,
                 of |-> message[1], empty |-> TRUE]
<1>3. d \in Datagram
  BY <1>1, <1>2 DEF Datagram
<1>4. completed \subseteq Task /\ acked \subseteq Task /\ sent \subseteq Datagram
  BY DEF TypeOK
<1> HIDE DEF d
<1>5. \/ UNCHANGED <<acked, completed, sent>>
      \/ /\ acked' = acked \cup {message}
         /\ completed' = completed \cup {x}
         /\ sent' = sent \cup {d}
  BY DEF AckBody, d
<1>6. QED
  BY <1>3, <1>4, <1>5

\* The two ways a received request can go on keep the types.
LEMMA RepeatAnswerType ==
    ASSUME TypeOK, NEW t \in Task, NEW x \in Task, NEW current \in Task,
           NEW queue \in Seq(Agent), RepeatAnswer(t, x, current, queue)
    PROVE  /\ pc' \in [Task -> States] /\ tx' \in [Task -> Task]
           /\ lock' \in [Task -> Seq(Agent)] /\ ackFor' \in [Agent -> Task]
           /\ timer' \in [Task -> {"off", "sleeping", "waiting"}]
           /\ acked' \subseteq Task /\ completed' \subseteq Task
           /\ sent' \subseteq Datagram
<1>1. t[1] \in Requests /\ resp[x] \in Answer /\ <<"task", t>> \in Agent
  BY DEF Task, Agent, TypeOK
<1>2. Sending(resp[x], t[1]) \subseteq Datagram
  BY <1>1, SendingType
<1>3. Append(queue, <<"task", t>>) \in Seq(Agent)
  BY <1>1
<1>4. AckBody(x, current, current, t[1]) =>
        acked' \subseteq Task /\ completed' \subseteq Task /\ sent' \subseteq Datagram
  BY <1>1, AckBodyType
<1>5. /\ pc \in [Task -> States] /\ tx \in [Task -> Task]
      /\ lock \in [Task -> Seq(Agent)] /\ ackFor \in [Agent -> Task]
      /\ timer \in [Task -> {"off", "sleeping", "waiting"}]
      /\ acked \subseteq Task /\ completed \subseteq Task /\ sent \subseteq Datagram
  BY DEF TypeOK
<1>6. tx' \in [Task -> Task] /\ timer' \in [Task -> {"off", "sleeping", "waiting"}]
      /\ pc' \in [Task -> States]
  <2>1. tx' = [tx EXCEPT ![t] = x] /\ timer' = timer
    BY DEF RepeatAnswer
  <2>2. pc' = [pc EXCEPT ![t] = "done"] \/ pc' = [pc EXCEPT ![t] = "ackWait"]
    BY DEF RepeatAnswer
  <2>3. pc' \in [Task -> States]
    BY <1>5, <2>2 DEF States
  <2>4. QED
    BY <1>5, <2>1, <2>3
<1>7. lock' \in [Task -> Seq(Agent)] /\ ackFor' \in [Agent -> Task]
  <2>1. \/ lock' = [lock EXCEPT ![x] = queue]
        \/ lock' = [lock EXCEPT ![x] = Append(queue, <<"task", t>>)]
    BY DEF RepeatAnswer
  <2>2. \/ ackFor' = ackFor
        \/ ackFor' = [ackFor EXCEPT ![<<"task", t>>] = current]
    BY DEF RepeatAnswer
  <2>3. lock' \in [Task -> Seq(Agent)]
    BY <1>3, <1>5, <2>1
  <2>4. ackFor' \in [Agent -> Task]
    BY <1>1, <1>5, <2>2
  <2>5. QED
    BY <2>3, <2>4
<1>8. acked' \subseteq Task /\ completed' \subseteq Task /\ sent' \subseteq Datagram
  BY <1>2, <1>4, <1>5 DEF RepeatAnswer
<1>9. QED
  BY <1>6, <1>7, <1>8

LEMMA ServeType ==
    ASSUME TypeOK, NEW t \in Task, NEW x \in Task,
           NEW queue \in Seq(Agent), Serve(t, x, queue)
    PROVE  /\ pc' \in [Task -> States] /\ tx' \in [Task -> Task]
           /\ lock' \in [Task -> Seq(Agent)] /\ ackFor' \in [Agent -> Task]
           /\ timer' \in [Task -> {"off", "sleeping", "waiting"}]
           /\ acked' \subseteq Task /\ completed' \subseteq Task
           /\ sent' \subseteq Datagram
<1>1. <<"task", t>> \in Agent
  BY DEF Agent
<1>2. Append(queue, <<"task", t>>) \in Seq(Agent)
  BY <1>1
<1>3. QED
  BY <1>2 DEF Serve, TypeOK, States

\* Every step keeps the types: a task that leaves the lock is its owner.
LEMMA TypeStep == TypeOK /\ OwnersAreInside /\ [Next]_vars => TypeOK'
<1> SUFFICES ASSUME TypeOK, OwnersAreInside, [Next]_vars PROVE TypeOK'
  OBVIOUS
<1>0. \A t \in Task : t[1] \in Requests
  BY DEF Task
<1>1. ASSUME NEW t \in Task, ReceiveDuplicate(t) PROVE TypeOK'
  <2>1. Original(t[1]) \in Task
    BY <1>0, <1>1, KeyTypes DEF ReceiveDuplicate, Original, TypeOK
  <2>2. QED
    BY <1>1, <2>1, RepeatAnswerType DEF ReceiveDuplicate, TypeOK, tables, history
<1>2. ASSUME NEW t \in Task, ReceiveNew(t) PROVE TypeOK'
  <2>1. <<>> \in Seq(Agent) /\ Serve(t, t, <<>>)
    BY <1>2 DEF ReceiveNew
  <2>2. t[1] \in Requests /\ MidKey(t[1]) \in MidKeys /\ TokenKey(t[1]) \in TokenKeys
    BY <1>0, KeyTypes
  <2>3. QED
    BY <1>2, <2>1, <2>2, ServeType DEF ReceiveNew, TypeOK
<1>3. ASSUME NEW t \in Task, NEW x \in Task, NEW queue \in Seq(Agent),
             Join(t, x, queue)
      PROVE  /\ pc' \in [Task -> States] /\ tx' \in [Task -> Task]
             /\ lock' \in [Task -> Seq(Agent)] /\ ackFor' \in [Agent -> Task]
             /\ timer' \in [Task -> {"off", "sleeping", "waiting"}]
             /\ acked' \subseteq Task /\ completed' \subseteq Task
             /\ sent' \subseteq Datagram
             /\ byMid' \in [MidKeys -> Task \cup {Nobody}]
             /\ req' \in [Task -> Task]
  <2>1. MidKey(t[1]) \in MidKeys /\ byToken[TokenKey(t[1])] \in Task \cup {Nobody}
    BY <1>0, KeyTypes DEF TypeOK
  <2> DEFINE owner == byToken[TokenKey(t[1])]
             current == IF owner = x THEN t ELSE req[x]
  <2>2. current \in Task
    BY DEF TypeOK
  <2>3. /\ pc \in [Task -> States] /\ tx \in [Task -> Task]
        /\ lock \in [Task -> Seq(Agent)] /\ ackFor \in [Agent -> Task]
        /\ timer \in [Task -> {"off", "sleeping", "waiting"}]
        /\ acked \subseteq Task /\ completed \subseteq Task /\ sent \subseteq Datagram
        /\ byMid \in [MidKeys -> Task \cup {Nobody}] /\ req \in [Task -> Task]
    BY DEF TypeOK
  <2>4. CASE owner = Nobody
    <3>1. /\ pc' = [pc EXCEPT ![t] = "dead"]
          /\ lock' = [lock EXCEPT ![x] = queue]
          /\ UNCHANGED <<tx, byMid, req, acked, completed, ackFor, timer, sent>>
      BY <1>3, <2>4 DEF Join
    <3>2. pc' \in [Task -> States] /\ lock' \in [Task -> Seq(Agent)]
      BY <2>3, <3>1 DEF States
    <3>3. QED
      BY <2>3, <3>1, <3>2
  <2>5. CASE owner # Nobody
    <3>1. /\ req' = [req EXCEPT ![owner] = t]
          /\ byMid' = [byMid EXCEPT ![MidKey(t[1])] = x]
          /\ RepeatAnswer(t, x, current, queue) \/ Serve(t, x, queue)
      BY <1>3, <2>5 DEF Join
    <3>2. byMid' \in [MidKeys -> Task \cup {Nobody}] /\ req' \in [Task -> Task]
      BY <2>1, <2>3, <2>5, <3>1
    <3>3. CASE RepeatAnswer(t, x, current, queue)
      BY <2>2, <3>2, <3>3, RepeatAnswerType
    <3>4. CASE Serve(t, x, queue)
      BY <3>2, <3>4, ServeType
    <3>5. QED
      BY <3>1, <3>3, <3>4
  <2>6. QED
    BY <2>4, <2>5
<1>4. ASSUME NEW t \in Task, ReceiveKnownToken(t) PROVE TypeOK'
  <2> DEFINE x == byToken[TokenKey(t[1])]
  <2>1. x \in Task
    BY <1>0, <1>4, KeyTypes DEF ReceiveKnownToken, KnownToken, TypeOK
  <2>2. <<"task", t>> \in Agent /\ lock[x] \in Seq(Agent) /\ <<>> \in Seq(Agent)
    <3>1. <<"task", t>> \in Agent
      BY DEF Agent
    <3>2. lock \in [Task -> Seq(Agent)]
      BY DEF TypeOK
    <3>3. QED
      BY <2>1, <3>1, <3>2
  <2>3. CASE Join(t, x, <<>>)
    BY <1>3, <1>4, <2>1, <2>2, <2>3 DEF ReceiveKnownToken, TypeOK, history
  <2>4. CASE ~Join(t, x, <<>>)
    <3>1. Append(lock[x], <<"task", t>>) \in Seq(Agent)
      BY <2>2
    <3>2. /\ tx' = [tx EXCEPT ![t] = x]
          /\ lock' = [lock EXCEPT ![x] = Append(@, <<"task", t>>)]
          /\ pc' = [pc EXCEPT ![t] = "tokenWait"]
          /\ UNCHANGED <<byMid, req, acked, completed, ackFor, timer, sent>>
      BY <1>4, <2>4 DEF ReceiveKnownToken
    <3>3. /\ pc' \in [Task -> States] /\ tx' \in [Task -> Task]
          /\ lock' \in [Task -> Seq(Agent)]
      BY <2>1, <3>1, <3>2 DEF TypeOK, States
    <3>4. QED
      BY <1>4, <3>2, <3>3 DEF ReceiveKnownToken, TypeOK, history
  <2>5. QED
    BY <2>3, <2>4
<1>5. ASSUME NEW t \in Task, TokenGranted(t) PROVE TypeOK'
  <2>1. tx[t] \in Task /\ lock[tx[t]] \in Seq(Agent) /\ lock[tx[t]] # <<>>
    BY <1>5 DEF TokenGranted, Granted, TypeOK
  <2>2. Tail(lock[tx[t]]) \in Seq(Agent)
    BY <2>1
  <2>3. QED
    BY <1>3, <1>5, <2>1, <2>2 DEF TokenGranted, TypeOK, history
<1>6. ASSUME NEW t \in Task, LockGranted(t) PROVE TypeOK'
  BY <1>6 DEF LockGranted, TypeOK, tables, messages, history, States
<1>7. ASSUME NEW a \in Agent, AckGranted(a) PROVE TypeOK'
  <2> DEFINE t == a[2]
             x == tx[t]
  <2>1. t \in Task /\ x \in Task /\ t[1] \in Requests /\ ackFor[a] \in Task
        /\ req[x] \in Task /\ lock[x] \in Seq(Agent) /\ lock[x] # <<>>
    BY <1>0, <1>7 DEF Agent, AckGranted, Granted, TypeOK
  <2>2. acked' \subseteq Task /\ completed' \subseteq Task /\ sent' \subseteq Datagram
    BY <1>7, <2>1, AckBodyType DEF AckGranted
  <2>3. Tail(lock[x]) \in Seq(Agent)
    BY <2>1
  <2>4. QED
    BY <1>7, <2>1, <2>2, <2>3 DEF AckGranted, TypeOK, tables, history, States
<1>8. ASSUME NEW t \in Task, StopTimer(t)
      PROVE  /\ timer' \in [Task -> {"off", "sleeping", "waiting"}]
             /\ lock' \in [Task -> Seq(Agent)]
  <2>1. tx[t] \in Task /\ lock[tx[t]] \in Seq(Agent)
    BY DEF TypeOK
  <2>2. Without(lock[tx[t]], <<"timer", t>>) \in Seq(Agent)
    BY <2>1, WithoutType
  <2>3. QED
    BY <1>8, <2>1, <2>2 DEF StopTimer, TypeOK
<1>9. \A r \in Requests : /\ NoAnswer(r) \in Answer /\ Blank(r) \in Answer
                          /\ [Blank(r) EXCEPT !.built = TRUE] \in Answer
  <2>1. 0 \in Mids
    BY ExchangeAssumption DEF Mids
  <2>2. QED
    BY <2>1 DEF NoAnswer, Blank, Answer
<1>10. ASSUME NEW t \in Task, Start(t) PROVE TypeOK'
  <2> DEFINE x == tx[t]
             r == req[x][1]
  <2>1. x \in Task /\ r \in Requests /\ ran[x] \in Seq(Requests)
    BY <1>0 DEF TypeOK
  <2>2. Append(ran[x], r) \in Seq(Requests)
    BY <2>1
  <2>3. /\ pc' = [pc EXCEPT ![t] = "answering"] \/ pc' = [pc EXCEPT ![t] = "handling"]
        /\ \/ resp' = resp
           \/ resp' = [resp EXCEPT ![x] = [Blank(r) EXCEPT !.built = TRUE]]
           \/ resp' = [resp EXCEPT ![x] = NoAnswer(r)]
           \/ resp' = [resp EXCEPT ![x] = Blank(r)]
        /\ handled' = handled \/ handled' = handled \cup {x}
        /\ ran' = ran \/ ran' = [ran EXCEPT ![x] = Append(ran[x], r)]
        /\ StopTimer(t) \/ UNCHANGED <<lock, timer>>
        /\ UNCHANGED <<tx, byMid, byToken, curMid, req, completed, timestamp, acked,
                       duplicated, ackFor, reset, now, sent, epoch, drops, assigned>>
    BY <1>10 DEF Start, tables, messages
  <2>4. resp' \in [Task -> Answer]
    <3>1. /\ [Blank(r) EXCEPT !.built = TRUE] \in Answer
          /\ NoAnswer(r) \in Answer /\ Blank(r) \in Answer
      BY <1>9, <2>1
    <3>2. resp \in [Task -> Answer]
      BY DEF TypeOK
    <3>3. PICK v \in Answer : resp' = resp \/ resp' = [resp EXCEPT ![x] = v]
      BY <2>3, <3>1
    <3>4. QED
      BY <2>1, <3>2, <3>3
  <2>5. ran' \in [Task -> Seq(Requests)]
    <3>1. ran \in [Task -> Seq(Requests)]
      BY DEF TypeOK
    <3>2. ran' = ran \/ ran' = [ran EXCEPT ![x] = Append(ran[x], r)]
      BY <2>3
    <3>3. QED
      BY <2>1, <2>2, <3>1, <3>2
  <2>6. lock' \in [Task -> Seq(Agent)] /\ timer' \in [Task -> {"off", "sleeping", "waiting"}]
    BY <1>8, <2>3 DEF TypeOK
  <2>7. pc' \in [Task -> States] /\ handled' \subseteq Task
    <3>1. pc \in [Task -> States] /\ handled \subseteq Task
      BY DEF TypeOK
    <3>2. PICK v \in States : pc' = [pc EXCEPT ![t] = v]
      BY <2>3 DEF States
    <3>3. handled' \subseteq Task
      BY <2>1, <2>3, <3>1
    <3>4. QED
      BY <3>1, <3>2, <3>3
  <2>8. QED
    BY <2>3, <2>4, <2>5, <2>6, <2>7 DEF TypeOK
<1>11. ASSUME NEW t \in Task, Inside(t)
       PROVE  Tail(lock[tx[t]]) \in Seq(Agent)
  <2>1. lock[tx[t]] \in Seq(Agent) /\ lock[tx[t]] # <<>>
    BY <1>11 DEF TypeOK, OwnersAreInside, Granted
  <2>2. QED
    BY <2>1
<1>12. ASSUME NEW t \in Task, Return(t) PROVE TypeOK'
  <2> DEFINE x == tx[t]
  <2>1. x \in Task /\ req[x] \in Task /\ lock[x] \in Seq(Agent) /\ resp[x] \in Answer
        /\ <<"separate", t>> \in Agent /\ Inside(t)
    BY <1>12 DEF TypeOK, Return, Inside, Agent
  <2>2. Append(lock[x], <<"separate", t>>) \in Seq(Agent) /\ Tail(lock[x]) \in Seq(Agent)
    BY <1>11, <2>1
  <2>3. [resp[x] EXCEPT !.built = TRUE] \in Answer /\ [resp[x] EXCEPT !.type = "absent"] \in Answer
    BY <2>1 DEF Answer
  <2>4. /\ \/ pc' = [pc EXCEPT ![t] = "answering"]
           \/ pc' = [pc EXCEPT ![t] = "dead"]
           \/ pc' = [pc EXCEPT ![t] = "separate"]
        /\ \/ resp' = resp
           \/ resp' = [resp EXCEPT ![x] = [resp[x] EXCEPT !.built = TRUE]]
           \/ resp' = [resp EXCEPT ![x] = [resp[x] EXCEPT !.type = "absent"]]
        /\ \/ StopTimer(t)
           \/ timer' = timer /\ lock' = [lock EXCEPT ![x] = Tail(lock[x])]
           \/ timer' = timer /\ lock' = [lock EXCEPT ![x] = Append(lock[x], <<"separate", t>>)]
        /\ ackFor' = ackFor \/ ackFor' = [ackFor EXCEPT ![<<"separate", t>>] = req[x]]
        /\ UNCHANGED <<tx, byMid, byToken, curMid, req, completed, handled, timestamp,
                       acked, duplicated, reset, now, sent, ran, epoch, drops, assigned>>
    BY <1>12 DEF Return, tables, messages, history
  <2>5. resp' \in [Task -> Answer]
    <3>1. resp \in [Task -> Answer]
      BY DEF TypeOK
    <3>2. PICK v \in Answer : resp' = resp \/ resp' = [resp EXCEPT ![x] = v]
      BY <2>1, <2>3, <2>4
    <3>3. QED
      BY <2>1, <3>1, <3>2
  <2>6. lock' \in [Task -> Seq(Agent)] /\ timer' \in [Task -> {"off", "sleeping", "waiting"}]
    <3>1. /\ lock \in [Task -> Seq(Agent)]
          /\ timer \in [Task -> {"off", "sleeping", "waiting"}]
      BY DEF TypeOK
    <3>2. CASE StopTimer(t)
      BY <1>8, <3>2
    <3>3. CASE timer' = timer /\ lock' = [lock EXCEPT ![x] = Tail(lock[x])]
      BY <2>1, <2>2, <3>1, <3>3
    <3>4. CASE timer' = timer /\ lock' = [lock EXCEPT ![x] = Append(lock[x], <<"separate", t>>)]
      BY <2>1, <2>2, <3>1, <3>4
    <3>5. QED
      BY <2>4, <3>2, <3>3, <3>4
  <2>7. pc' \in [Task -> States]
    BY <2>4 DEF TypeOK, States
  <2>8. ackFor' \in [Agent -> Task]
    BY <2>1, <2>4 DEF TypeOK
  <2>9. QED
    BY <2>4, <2>5, <2>6, <2>7, <2>8 DEF TypeOK
<1>13. ASSUME NEW t \in Task, AnswerNothing(t) PROVE TypeOK'
  <2>1. tx[t] \in Task /\ Tail(lock[tx[t]]) \in Seq(Agent)
    BY <1>11, <1>13 DEF TypeOK, AnswerNothing, Inside
  <2>2. lock' \in [Task -> Seq(Agent)] /\ pc' \in [Task -> States] /\ completed' \subseteq Task
    BY <1>13, <2>1 DEF AnswerNothing, TypeOK, States
  <2>3. QED
    BY <1>13, <2>2 DEF AnswerNothing, TypeOK, tables, messages, history
<1>14. ASSUME NEW t \in Task, SendAnswer(t) PROVE TypeOK'
  <2> DEFINE x == tx[t]
  <2>1. x \in Task /\ req[x] \in Task /\ req[x][1] \in Requests /\ resp[x] \in Answer
        /\ Tail(lock[x]) \in Seq(Agent) /\ t[1] \in Requests
    BY <1>0, <1>11, <1>14 DEF TypeOK, SendAnswer, Inside
  <2>2. Typed(x) \in Answer
    <3>1. req[x][1].mid \in Mids /\ curMid \in Mids
      BY <2>1, KeyTypes DEF TypeOK
    <3>2. QED
      BY <2>1, <3>1 DEF Typed, Answer
  <2>3. (curMid + 1) % MidSpace \in Mids
    BY ExchangeAssumption DEF TypeOK, Mids
  <2>4. <<resp[x].of.src, curMid>> \in MidKeys
    <3>1. resp[x].of \in Requests
      BY <2>1 DEF Answer
    <3>2. QED
      BY <3>1, KeyTypes DEF MidKeys, TypeOK
  <2>5. curMid' \in Mids /\ byMid' \in [MidKeys -> Task \cup {Nobody}]
    <3>1. /\ curMid' = curMid \/ curMid' = (curMid + 1) % MidSpace
          /\ \/ byMid' = byMid
             \/ byMid' = [byMid EXCEPT ![<<resp[x].of.src, curMid>>] = x]
      BY <1>14 DEF SendAnswer, NextMid
    <3>2. curMid \in Mids /\ byMid \in [MidKeys -> Task \cup {Nobody}]
      BY DEF TypeOK
    <3>3. curMid' \in Mids
      BY <2>3, <3>1, <3>2
    <3>4. byMid' \in [MidKeys -> Task \cup {Nobody}]
      BY <2>1, <2>4, <3>1, <3>2
    <3>5. QED
      BY <3>3, <3>4
  <2>6. resp' \in [Task -> Answer]
    BY <1>14, <2>1, <2>2 DEF SendAnswer, TypeOK
  <2>7. completed' \subseteq Task /\ acked' \subseteq Task
    BY <1>14, <2>1 DEF SendAnswer, TypeOK
  <2>8. /\ \/ pc' = [pc EXCEPT ![t] = "delaying"]
           \/ pc' = [pc EXCEPT ![t] = "done"]
        /\ lock' = lock \/ lock' = [lock EXCEPT ![x] = Tail(lock[x])]
        /\ sent' = sent \/ sent' = sent \cup Sending(Typed(x), t[1])
        /\ UNCHANGED <<tx, byToken, req, handled, timestamp, duplicated, ackFor, timer,
                       reset, now, ran, epoch, drops>>
    BY <1>14 DEF SendAnswer
  <2>9. assigned' \subseteq Clients \X Mids
    <3>1. resp[x].of.src \in Clients /\ curMid \in Mids /\ assigned \subseteq Clients \X Mids
      <4>1. resp[x].of \in Requests
        BY <2>1 DEF Answer
      <4>2. QED
        BY <4>1, KeyTypes DEF TypeOK
    <3>2. assigned' = assigned \/ assigned' = assigned \cup {<<resp[x].of.src, curMid>>}
      BY <1>14 DEF SendAnswer
    <3>3. QED
      BY <3>1, <3>2
  <2>10. pc' \in [Task -> States] /\ lock' \in [Task -> Seq(Agent)] /\ sent' \subseteq Datagram
    <3>1. pc \in [Task -> States] /\ lock \in [Task -> Seq(Agent)] /\ sent \subseteq Datagram
      BY DEF TypeOK
    <3>2. PICK v \in States : pc' = [pc EXCEPT ![t] = v]
      BY <2>8 DEF States
    <3>3. Sending(Typed(x), t[1]) \subseteq Datagram
      BY <2>1, <2>2, SendingType
    <3>4. sent' \subseteq Datagram
      BY <2>8, <3>1, <3>3
    <3>5. lock' \in [Task -> Seq(Agent)]
      BY <2>1, <2>8, <3>1
    <3>6. QED
      BY <3>1, <3>2, <3>4, <3>5
  <2>11. QED
    BY <2>5, <2>6, <2>7, <2>8, <2>9, <2>10 DEF TypeOK
<1>15. ASSUME NEW t \in Task, SendDelayed(t) PROVE TypeOK'
  <2>1. tx[t] \in Task /\ Tail(lock[tx[t]]) \in Seq(Agent) /\ t[1] \in Requests
        /\ resp[tx[t]] \in Answer
    BY <1>0, <1>11, <1>15 DEF TypeOK, SendDelayed, Inside
  <2>2. sent' \subseteq Datagram
    BY <1>15, <2>1, SendingType DEF SendDelayed, TypeOK
  <2>3. lock' \in [Task -> Seq(Agent)] /\ pc' \in [Task -> States]
    BY <1>15, <2>1 DEF SendDelayed, TypeOK, States
  <2>4. QED
    BY <1>15, <2>2, <2>3 DEF SendDelayed, TypeOK, tables, messages, history
<1>16. ASSUME NEW t \in Task, TimerFires(t) PROVE TypeOK'
  <2> DEFINE x == tx[t]
  <2>1. x \in Task /\ req[x] \in Task /\ lock[x] \in Seq(Agent) /\ t[1] \in Requests
        /\ <<"timer", t>> \in Agent
    BY <1>0 DEF TypeOK, Agent
  <2>2. Append(lock[x], <<"timer", t>>) \in Seq(Agent)
    BY <2>1
  <2>3. CASE lock[x] = <<>>
    <3>1. acked' \subseteq Task /\ completed' \subseteq Task /\ sent' \subseteq Datagram
      BY <1>16, <2>1, <2>3, AckBodyType DEF TimerFires
    <3>2. QED
      BY <1>16, <2>3, <3>1 DEF TimerFires, TypeOK, tables, history
  <2>4. CASE lock[x] # <<>>
    <3>1. lock' \in [Task -> Seq(Agent)] /\ ackFor' \in [Agent -> Task]
          /\ timer' \in [Task -> {"off", "sleeping", "waiting"}]
      <4>1. /\ lock \in [Task -> Seq(Agent)] /\ ackFor \in [Agent -> Task]
            /\ timer \in [Task -> {"off", "sleeping", "waiting"}]
        BY DEF TypeOK
      <4>2. /\ lock' = [lock EXCEPT ![x] = Append(lock[x], <<"timer", t>>)]
            /\ ackFor' = [ackFor EXCEPT ![<<"timer", t>>] = req[x]]
            /\ timer' = [timer EXCEPT ![t] = "waiting"]
        BY <1>16, <2>4 DEF TimerFires
      <4>3. lock' \in [Task -> Seq(Agent)]
        BY <2>1, <2>2, <4>1, <4>2
      <4>4. ackFor' \in [Agent -> Task]
        BY <2>1, <4>1, <4>2
      <4>5. timer' \in [Task -> {"off", "sleeping", "waiting"}]
        BY <4>1, <4>2
      <4>6. QED
        BY <4>3, <4>4, <4>5
    <3>2. QED
      BY <1>16, <2>4, <3>1 DEF TimerFires, TypeOK, tables, history
  <2>5. QED
    BY <2>3, <2>4
<1>17. ASSUME NEW m \in sent, ReceiveReset(m) PROVE TypeOK'
  <2> DEFINE x == byMid[<<m.of.src, m.mid>>]
  <2>1. m \in Datagram
    BY DEF TypeOK
  <2>2. <<m.of.src, m.mid>> \in MidKeys
    BY <2>1, KeyTypes DEF Datagram, MidKeys
  <2>3. x \in Task /\ lock[x] \in Seq(Agent) /\ <<"reset", x>> \in Agent
    <3>1. byMid \in [MidKeys -> Task \cup {Nobody}] /\ lock \in [Task -> Seq(Agent)]
      BY DEF TypeOK
    <3>2. x \in Task
      BY <1>17, <2>2, <3>1 DEF ReceiveReset
    <3>3. <<"reset", x>> \in Agent
      BY <3>2 DEF Agent
    <3>4. QED
      BY <3>1, <3>2, <3>3
  <2>4. Append(lock[x], <<"reset", x>>) \in Seq(Agent)
    BY <2>3
  <2>5. /\ completed' = completed \/ completed' = completed \cup {x}
        /\ lock' = lock \/ lock' = [lock EXCEPT ![x] = Append(lock[x], <<"reset", x>>)]
        /\ reset' = [reset EXCEPT ![x] = "done"] \/ reset' = [reset EXCEPT ![x] = "waiting"]
        /\ UNCHANGED <<pc, tx, byMid, byToken, curMid, req, resp, handled, timestamp,
                       acked, duplicated, ackFor, timer, now, sent, ran, epoch, drops,
                       assigned>>
    BY <1>17 DEF ReceiveReset, tables, messages, history
  <2>6. completed' \subseteq Task /\ lock' \in [Task -> Seq(Agent)]
        /\ reset' \in [Task -> {"none", "waiting", "done"}]
    <3>1. /\ completed \subseteq Task /\ lock \in [Task -> Seq(Agent)]
          /\ reset \in [Task -> {"none", "waiting", "done"}]
      BY DEF TypeOK
    <3>2. completed' \subseteq Task
      BY <2>3, <2>5, <3>1
    <3>3. lock' \in [Task -> Seq(Agent)]
      BY <2>3, <2>4, <2>5, <3>1
    <3>4. reset' \in [Task -> {"none", "waiting", "done"}]
      BY <2>5, <3>1
    <3>5. QED
      BY <3>2, <3>3, <3>4
  <2>7. QED
    BY <2>5, <2>6 DEF TypeOK
<1>18. ASSUME NEW x \in Task, ResetGranted(x) PROVE TypeOK'
  <2>1. lock[x] \in Seq(Agent) /\ lock[x] # <<>>
    BY <1>18 DEF ResetGranted, Granted, TypeOK
  <2>2. Tail(lock[x]) \in Seq(Agent)
    BY <2>1
  <2>3. lock' \in [Task -> Seq(Agent)] /\ completed' \subseteq Task
        /\ reset' \in [Task -> {"none", "waiting", "done"}]
    BY <1>18, <2>2 DEF ResetGranted, TypeOK
  <2>4. QED
    BY <1>18, <2>3 DEF ResetGranted, TypeOK, tables, messages, history
<1>19. ASSUME Purge PROVE TypeOK'
  <2>1. \A x \in Task \cup {Nobody} : Kept(x) \in Task \cup {Nobody}
    BY DEF Kept
  <2>2. byMid' \in [MidKeys -> Task \cup {Nobody}] /\ byToken' \in [TokenKeys -> Task \cup {Nobody}]
    BY <1>19, <2>1 DEF Purge, TypeOK
  <2>3. drops' \in [Requests -> Nat]
    BY <1>19 DEF Purge, TypeOK
  <2>4. QED
    BY <1>19, <2>2, <2>3 DEF Purge, TypeOK, messages
<1>20. CASE Tick
  BY <1>20 DEF Tick, TypeOK, tables, messages, history
<1>21. CASE UNCHANGED vars
  BY <1>21 DEF vars, TypeOK, tables, messages, history
<1>22. QED
  BY <1>1, <1>2, <1>4, <1>5, <1>6, <1>7, <1>10, <1>12, <1>13, <1>14, <1>15, <1>16,
     <1>17, <1>18, <1>19, <1>20, <1>21
     DEF Next, Receive, Run

-----------------------------------------------------------------------------
(* What names a transaction *)

\* The tables and the tasks name received deliveries only: the transaction a
\* datagram creates is known to nobody before.
OnlyReceived ==
    /\ \A k \in MidKeys : byMid[k] # Nobody => pc[byMid[k]] # "idle"
    /\ \A k \in TokenKeys : byToken[k] # Nobody => pc[byToken[k]] # "idle"
    /\ \A u \in Task : pc[u] # "idle" => pc[tx[u]] # "idle"

\* Task t moves on and may put a received transaction x into the tables.
LEMMA ReceivedFrame ==
    ASSUME TypeOK, OnlyReceived, NEW t \in Task, NEW x \in Task,
           NEW s \in States, s # "idle", pc' = [pc EXCEPT ![t] = s],
           pc[x] # "idle" \/ x = t,
           \/ tx' = tx /\ pc[t] # "idle"
           \/ tx' = [tx EXCEPT ![t] = x],
           \A k \in MidKeys : byMid'[k] \in {byMid[k], x},
           \A k \in TokenKeys : byToken'[k] \in {byToken[k], x}
    PROVE  OnlyReceived'
<1>1. /\ pc \in [Task -> States] /\ tx \in [Task -> Task]
      /\ byMid \in [MidKeys -> Task \cup {Nobody}]
      /\ byToken \in [TokenKeys -> Task \cup {Nobody}]
  BY DEF TypeOK
<1>2. (\A u \in Task : pc[u] # "idle" => pc'[u] # "idle") /\ pc'[x] # "idle"
  BY <1>1
<1>3. \A k \in MidKeys : byMid'[k] # Nobody => pc'[byMid'[k]] # "idle"
  BY <1>1, <1>2 DEF OnlyReceived
<1>4. \A k \in TokenKeys : byToken'[k] # Nobody => pc'[byToken'[k]] # "idle"
  BY <1>1, <1>2 DEF OnlyReceived
<1>5. ASSUME NEW u \in Task, pc'[u] # "idle" PROVE pc'[tx'[u]] # "idle"
  <2>1. tx'[u] = x \/ (tx'[u] = tx[u] /\ pc[u] # "idle")
    <3>1. \/ tx' = tx /\ pc[t] # "idle"
          \/ tx'[t] = x /\ \A v \in Task \ {t} : tx'[v] = tx[v]
      BY <1>1
    <3>2. \A v \in Task \ {t} : pc'[v] = pc[v]
      BY <1>1
    <3>3. QED
      BY <1>5, <3>1, <3>2
  <2>2. QED
    BY <1>1, <1>2, <2>1 DEF OnlyReceived
<1>6. QED
  BY <1>3, <1>4, <1>5 DEF OnlyReceived

\* Every step leaves the tables and tasks with received transactions only.
LEMMA ReceivedStep == TypeOK /\ OnlyReceived /\ [Next]_vars => OnlyReceived'
<1> SUFFICES ASSUME TypeOK, OnlyReceived, [Next]_vars PROVE OnlyReceived'
  OBVIOUS
<1>1. /\ pc \in [Task -> States] /\ tx \in [Task -> Task] /\ req \in [Task -> Task]
      /\ byMid \in [MidKeys -> Task \cup {Nobody}]
      /\ byToken \in [TokenKeys -> Task \cup {Nobody}]
      /\ \A t \in Task : t[1] \in Requests /\ MidKey(t[1]) \in MidKeys
                          /\ TokenKey(t[1]) \in TokenKeys
  BY KeyTypes DEF TypeOK, Task
<1>2. ASSUME NEW t \in Task, ReceiveDuplicate(t) PROVE OnlyReceived'
  <2> DEFINE x == Original(t[1])
  <2>1. x \in Task /\ pc[x] # "idle"
    BY <1>1, <1>2 DEF ReceiveDuplicate, Original, OnlyReceived
  <2>2. /\ tx' = [tx EXCEPT ![t] = x] /\ byMid' = byMid /\ byToken' = byToken
        /\ pc' = [pc EXCEPT ![t] = "done"] \/ pc' = [pc EXCEPT ![t] = "ackWait"]
    BY <1>2 DEF ReceiveDuplicate, RepeatAnswer, tables
  <2>3. PICK s \in States : s # "idle" /\ pc' = [pc EXCEPT ![t] = s]
    BY <2>2 DEF States
  <2>4. QED
    BY <2>1, <2>2, <2>3, ReceivedFrame
<1>3. ASSUME NEW t \in Task, NEW x \in Task, pc[x] # "idle",
             NEW q, Join(t, x, q), pc[t] # "idle" \/ byToken[TokenKey(t[1])] # Nobody,
             byToken' = byToken
      PROVE  OnlyReceived'
  <2>1. \/ pc' = [pc EXCEPT ![t] = "dead"] /\ tx' = tx /\ byMid' = byMid
           /\ byToken[TokenKey(t[1])] = Nobody
        \/ /\ tx' = [tx EXCEPT ![t] = x]
           /\ byMid' = [byMid EXCEPT ![MidKey(t[1])] = x]
           /\ \E s \in States : s # "idle" /\ pc' = [pc EXCEPT ![t] = s]
    <3>1. ASSUME NEW c, RepeatAnswer(t, x, c, q) \/ Serve(t, x, q)
          PROVE  /\ tx' = [tx EXCEPT ![t] = x]
                 /\ \E s \in States : s # "idle" /\ pc' = [pc EXCEPT ![t] = s]
      BY <3>1 DEF RepeatAnswer, Serve, States
    <3>2. QED
      BY <1>3, <3>1 DEF Join
  <2>2. CASE byToken[TokenKey(t[1])] = Nobody
    <3>1. pc' = [pc EXCEPT ![t] = "dead"] /\ tx' = tx /\ byMid' = byMid
      BY <1>3, <2>2 DEF Join
    <3>2. "dead" \in States
      BY DEF States
    <3>3. QED
      BY <1>3, <2>2, <3>1, <3>2, ReceivedFrame
  <2>3. CASE byToken[TokenKey(t[1])] # Nobody
    <3>1. /\ tx' = [tx EXCEPT ![t] = x]
          /\ byMid' = [byMid EXCEPT ![MidKey(t[1])] = x]
      BY <2>1, <2>3
    <3>2. PICK s \in States : s # "idle" /\ pc' = [pc EXCEPT ![t] = s]
      BY <2>1, <2>3
    <3>3. \A k \in MidKeys : byMid'[k] \in {byMid[k], x}
      BY <1>1, <3>1
    <3>4. QED
      BY <1>3, <3>1, <3>2, <3>3, ReceivedFrame
  <2>4. QED
    BY <2>2, <2>3
<1>4. ASSUME NEW t \in Task, ReceiveKnownToken(t) PROVE OnlyReceived'
  <2> DEFINE x == byToken[TokenKey(t[1])]
  <2>1. x # Nobody /\ byToken' = byToken
    BY <1>4 DEF ReceiveKnownToken, KnownToken
  <2>2. x \in Task /\ pc[x] # "idle"
    BY <1>1, <2>1 DEF OnlyReceived
  <2>3. CASE Join(t, x, <<>>)
    BY <1>3, <2>1, <2>2, <2>3
  <2>4. CASE ~Join(t, x, <<>>)
    <3>1. /\ tx' = [tx EXCEPT ![t] = x] /\ byMid' = byMid
          /\ pc' = [pc EXCEPT ![t] = "tokenWait"]
      BY <1>4, <2>4 DEF ReceiveKnownToken
    <3>2. "tokenWait" \in States
      BY DEF States
    <3>3. QED
      BY <2>1, <2>2, <3>1, <3>2, ReceivedFrame
  <2>5. QED
    BY <2>3, <2>4
<1>5. ASSUME NEW t \in Task, ReceiveNew(t) PROVE OnlyReceived'
  <2>1. /\ tx' = [tx EXCEPT ![t] = t] /\ pc' = [pc EXCEPT ![t] = "started"]
        /\ byMid' = [byMid EXCEPT ![MidKey(t[1])] = t]
        /\ byToken' = [byToken EXCEPT ![TokenKey(t[1])] = t]
    BY <1>5 DEF ReceiveNew, Serve
  <2>2. "started" \in States
    BY DEF States
  <2>3. \A k \in MidKeys : byMid'[k] \in {byMid[k], t}
    BY <1>1, <2>1
  <2>4. \A k \in TokenKeys : byToken'[k] \in {byToken[k], t}
    BY <1>1, <2>1
  <2>5. QED
    BY <2>1, <2>2, <2>3, <2>4, ReceivedFrame
<1>6. ASSUME NEW t \in Task, TokenGranted(t) PROVE OnlyReceived'
  <2>1. pc[t] # "idle" /\ byToken' = byToken /\ Join(t, tx[t], Tail(lock[tx[t]]))
    BY <1>6 DEF TokenGranted
  <2>2. tx[t] \in Task /\ pc[tx[t]] # "idle"
    BY <1>1, <2>1 DEF OnlyReceived
  <2>3. QED
    BY <1>3, <2>1, <2>2
<1>7. ASSUME NEW t \in Task, pc[t] # "idle", tx' = tx, byToken' = byToken,
             NEW s \in States, s # "idle", pc' = [pc EXCEPT ![t] = s],
             \A k \in MidKeys : byMid'[k] \in {byMid[k], tx[t]}
      PROVE  OnlyReceived'
  <2>1. tx[t] \in Task /\ pc[tx[t]] # "idle"
    BY <1>1, <1>7 DEF OnlyReceived
  <2>2. QED
    BY <1>7, <2>1, ReceivedFrame
<1>8. ASSUME NEW t \in Task,
             \/ LockGranted(t) \/ Start(t) \/ Return(t)
             \/ AnswerNothing(t) \/ SendDelayed(t)
      PROVE  OnlyReceived'
  <2>1. /\ pc[t] # "idle" /\ tx' = tx /\ byToken' = byToken /\ byMid' = byMid
        /\ \E s \in States : s # "idle" /\ pc' = [pc EXCEPT ![t] = s]
    BY <1>8 DEF LockGranted, Start, Return, AnswerNothing, SendDelayed, tables, States
  <2>2. QED
    BY <1>7, <2>1
<1>9. ASSUME NEW t \in Task, SendAnswer(t) PROVE OnlyReceived'
  <2>1. /\ pc[t] # "idle" /\ tx' = tx /\ byToken' = byToken
        /\ pc' = [pc EXCEPT ![t] = "done"] \/ pc' = [pc EXCEPT ![t] = "delaying"]
        /\ \/ byMid' = byMid
           \/ byMid' = [byMid EXCEPT ![<<resp[tx[t]].of.src, curMid>>] = tx[t]]
    BY <1>9 DEF SendAnswer
  <2>2. PICK s \in States : s # "idle" /\ pc' = [pc EXCEPT ![t] = s]
    BY <2>1 DEF States
  <2>3. \A k \in MidKeys : byMid'[k] \in {byMid[k], tx[t]}
    BY <1>1, <2>1
  <2>4. QED
    BY <1>7, <2>1, <2>2, <2>3
<1>10. ASSUME tx' = tx, byMid' = byMid, byToken' = byToken, pc' = pc
       PROVE  OnlyReceived'
  BY <1>10 DEF OnlyReceived
<1>11. ASSUME NEW a \in Agent, AckGranted(a) PROVE OnlyReceived'
  <2>1. /\ a[2] \in Task /\ tx' = tx /\ byMid' = byMid /\ byToken' = byToken
        /\ \/ /\ pc[a[2]] # "idle"
              /\ \E s \in {"done", "handling"} : pc' = [pc EXCEPT ![a[2]] = s]
           \/ pc' = [pc EXCEPT ![a[2]] = pc[a[2]]]
    BY <1>11 DEF AckGranted, Waiting, tables, Agent
  <2>2. CASE pc' = [pc EXCEPT ![a[2]] = pc[a[2]]]
    <3>1. pc' = pc
      BY <1>1, <2>1, <2>2
    <3>2. QED
      BY <1>10, <2>1, <3>1
  <2>3. CASE pc' # [pc EXCEPT ![a[2]] = pc[a[2]]]
    BY <1>7, <2>1, <2>3 DEF States
  <2>4. QED
    BY <2>2, <2>3
<1>12. ASSUME NEW t \in Task, TimerFires(t) \/ ResetGranted(t) PROVE OnlyReceived'
  BY <1>10, <1>12 DEF TimerFires, ResetGranted, tables
<1>13. ASSUME NEW m \in sent, ReceiveReset(m) PROVE OnlyReceived'
  BY <1>10, <1>13 DEF ReceiveReset, tables
<1>14. CASE Purge
  <2>1. /\ pc' = pc /\ tx' = tx
        /\ \A k \in MidKeys : byMid'[k] \in {byMid[k], Nobody}
        /\ \A k \in TokenKeys : byToken'[k] \in {byToken[k], Nobody}
    BY <1>14 DEF Purge, Kept
  <2>2. QED
    BY <2>1 DEF OnlyReceived
<1>15. CASE Tick \/ UNCHANGED vars
  BY <1>10, <1>15 DEF Tick, tables, vars
<1>16. QED
  BY <1>2, <1>4, <1>5, <1>6, <1>8, <1>9, <1>11, <1>12, <1>13, <1>14, <1>15
     DEF Next, Receive, Run

-----------------------------------------------------------------------------
(* Who owns a lock *)

\* Giving a lock the queue q takes it from nobody inside but possibly task t.
Respects(t, x, q) ==
    \A u \in Task \ {t} :
        Inside(u) /\ tx[u] = x /\ Granted(<<"task", u>>, x)
        => q # <<>> /\ Head(q) = <<"task", u>>

\* A new waiter goes behind the owner.
LEMMA AppendHead ==
    ASSUME NEW S, NEW q \in Seq(S), NEW a \in S
    PROVE  /\ Append(q, a) # <<>>
           /\ q # <<>> => Head(Append(q, a)) = Head(q)
           /\ q = <<>> => Head(Append(q, a)) = a
<1>1. Append(q, a) \in Seq(S) /\ Len(Append(q, a)) = Len(q) + 1 /\ Len(q) \in Nat
  OBVIOUS
<1>2. Append(q, a) # <<>>
  BY <1>1
<1>3. q # <<>> => Head(Append(q, a)) = Head(q)
  BY <1>1
<1>4. q = <<>> => Head(Append(q, a)) = a
  BY <1>1
<1>5. QED
  BY <1>2, <1>3, <1>4

\* An action of task t that changes one lock leaves every owner inside.
LEMMA Framing ==
    ASSUME OwnersAreInside, NEW t \in Task, NEW x \in Task, NEW q,
           \A u \in Task \ {t} : pc'[u] = pc[u] /\ tx'[u] = tx[u],
           lock \in [Task -> Seq(Agent)],
           lock' = [lock EXCEPT ![x] = q],
           Respects(t, x, q),
           Inside(t)' => Granted(<<"task", t>>, tx[t])'
    PROVE  OwnersAreInside'
<1> SUFFICES ASSUME NEW u \in Task, Inside(u)' PROVE Granted(<<"task", u>>, tx[u])'
  BY DEF OwnersAreInside
<1>1. CASE u = t
  BY <1>1
<1>2. CASE u # t
  <2>1. pc'[u] = pc[u] /\ tx'[u] = tx[u]
    BY <1>2
  <2>2. Inside(u)
    BY <2>1 DEF Inside
  <2>3. Granted(<<"task", u>>, tx[u])
    BY <2>2 DEF OwnersAreInside
  <2>4. CASE tx[u] = x
    BY <1>2, <2>1, <2>2, <2>3, <2>4 DEF Respects, Granted
  <2>5. CASE tx[u] # x
    <3>1. lock'[tx[u]] = lock[tx[u]]
      BY <2>5
    <3>2. QED
      BY <2>1, <2>3, <3>1 DEF Granted
  <2>6. QED
    BY <2>4, <2>5
<1>3. QED
  BY <1>1, <1>2

\* The queues a lock is given: its own, longer by a waiter, or without the
\* head, when that is an agent of task t.
LEMMA RespectsQueue ==
    ASSUME TypeOK, NEW t \in Task, NEW x \in Task
    PROVE  /\ Respects(t, x, lock[x])
           /\ lock[x] = <<>> => Respects(t, x, <<>>)
           /\ \A a \in Agent : /\ a[2] = t \/ a[1] # "task"
                               /\ Granted(a, x)
                               => Respects(t, x, Tail(lock[x]))
<1>1. \A a \in Agent, u \in Task \ {t} :
        (a[2] = t \/ a[1] # "task") => a # <<"task", u>>
  BY DEF Agent
<1>2. QED
  BY <1>1 DEF Respects, Granted

LEMMA RespectsAppend ==
    ASSUME TypeOK, NEW t \in Task, NEW x \in Task, NEW q \in Seq(Agent),
           Respects(t, x, q), NEW a \in Agent
    PROVE  Respects(t, x, Append(q, a))
<1>1. Append(q, a) # <<>> /\ (q # <<>> => Head(Append(q, a)) = Head(q))
  BY AppendHead
<1>2. QED
  BY <1>1 DEF Respects

LEMMA RepeatAnswerOwners ==
    ASSUME TypeOK, OwnersAreInside, NEW t \in Task, NEW x \in Task,
           NEW current, NEW q \in Seq(Agent), Respects(t, x, q),
           RepeatAnswer(t, x, current, q)
    PROVE  OwnersAreInside'
<1>1. /\ pc \in [Task -> States] /\ tx \in [Task -> Task]
      /\ lock \in [Task -> Seq(Agent)] /\ <<"task", t>> \in Agent
  BY DEF TypeOK, Agent
<1>2. /\ pc' = [pc EXCEPT ![t] = "done"] \/ pc' = [pc EXCEPT ![t] = "ackWait"]
      /\ tx' = [tx EXCEPT ![t] = x]
  BY DEF RepeatAnswer
<1>3. \A u \in Task \ {t} : pc'[u] = pc[u] /\ tx'[u] = tx[u]
  BY <1>1, <1>2
<1>4. ~Inside(t)'
  BY <1>1, <1>2 DEF Inside
<1>5. CASE lock' = [lock EXCEPT ![x] = q]
  BY <1>1, <1>3, <1>4, <1>5, Framing
<1>6. CASE lock' = [lock EXCEPT ![x] = Append(q, <<"task", t>>)]
  <2>1. Respects(t, x, Append(q, <<"task", t>>))
    BY <1>1, RespectsAppend
  <2>2. QED
    BY <1>1, <1>3, <1>4, <1>6, <2>1, Framing
<1>7. QED
  BY <1>5, <1>6 DEF RepeatAnswer

LEMMA ServeOwners ==
    ASSUME TypeOK, OwnersAreInside, NEW t \in Task, NEW x \in Task,
           NEW q \in Seq(Agent), Respects(t, x, q), Serve(t, x, q)
    PROVE  OwnersAreInside'
<1>1. /\ pc \in [Task -> States] /\ tx \in [Task -> Task]
      /\ lock \in [Task -> Seq(Agent)] /\ <<"task", t>> \in Agent
  BY DEF TypeOK, Agent
<1>2. /\ pc' = [pc EXCEPT ![t] = IF q = <<>> THEN "started" ELSE "lockWait"]
      /\ tx' = [tx EXCEPT ![t] = x]
      /\ lock' = [lock EXCEPT ![x] = Append(q, <<"task", t>>)]
  BY DEF Serve
<1>3. \A u \in Task \ {t} : pc'[u] = pc[u] /\ tx'[u] = tx[u]
  BY <1>1, <1>2
<1>4. Inside(t)' => q = <<>>
  BY <1>1, <1>2 DEF Inside
<1>5. tx'[t] = x /\ lock'[x] = Append(q, <<"task", t>>)
  BY <1>1, <1>2
<1>6. Inside(t)' => Granted(<<"task", t>>, tx[t])'
  BY <1>1, <1>4, <1>5, AppendHead DEF Granted
<1>7. Respects(t, x, Append(q, <<"task", t>>))
  BY <1>1, RespectsAppend
<1>8. QED
  BY <1>1, <1>2, <1>3, <1>6, <1>7, Framing

LEMMA JoinOwners ==
    ASSUME TypeOK, OwnersAreInside, NEW t \in Task, NEW x \in Task,
           NEW q \in Seq(Agent), Respects(t, x, q), Join(t, x, q)
    PROVE  OwnersAreInside'
<1>1. /\ pc \in [Task -> States] /\ tx \in [Task -> Task] /\ lock \in [Task -> Seq(Agent)]
  BY DEF TypeOK
<1>2. CASE byToken[TokenKey(t[1])] = Nobody
  <2>1. /\ pc' = [pc EXCEPT ![t] = "dead"] /\ tx' = tx
        /\ lock' = [lock EXCEPT ![x] = q]
    BY <1>2 DEF Join
  <2>2. \A u \in Task \ {t} : pc'[u] = pc[u] /\ tx'[u] = tx[u]
    BY <1>1, <2>1
  <2>3. ~Inside(t)'
    BY <1>1, <2>1 DEF Inside
  <2>4. QED
    BY <1>1, <2>1, <2>2, <2>3, Framing
<1>3. CASE byToken[TokenKey(t[1])] # Nobody
  <2> DEFINE current == IF byToken[TokenKey(t[1])] = x THEN t ELSE req[x]
  <2>1. RepeatAnswer(t, x, current, q) \/ Serve(t, x, q)
    BY <1>3 DEF Join
  <2>2. QED
    BY <2>1, RepeatAnswerOwners, ServeOwners
<1>4. QED
  BY <1>2, <1>3

\* An action of the owner t of a lock that stays inside or leaves.
LEMMA OwnerMoves ==
    ASSUME TypeOK, OwnersAreInside, NEW t \in Task, Inside(t), NEW s \in States,
           pc' = [pc EXCEPT ![t] = s], tx' = tx,
           \/ lock' = lock
           \/ \E a \in Agent : lock' = [lock EXCEPT ![tx[t]] = Append(lock[tx[t]], a)]
           \/ /\ lock' = [lock EXCEPT ![tx[t]] = Tail(lock[tx[t]])]
              /\ s \in {"done", "dead"}
           \/ StopTimer(t)
    PROVE  OwnersAreInside'
<1> DEFINE x == tx[t]
<1>1. /\ pc \in [Task -> States] /\ lock \in [Task -> Seq(Agent)]
      /\ x \in Task /\ lock[x] \in Seq(Agent) /\ <<"task", t>> \in Agent
  BY DEF TypeOK, Agent
<1>2. \A u \in Task \ {t} : pc'[u] = pc[u] /\ tx'[u] = tx[u]
  BY <1>1
<1>3. lock[x] # <<>> /\ Head(lock[x]) = <<"task", t>> /\ Granted(<<"task", t>>, x)
  BY DEF OwnersAreInside, Granted
<1>4. tx'[t] = x
  BY <1>1
<1>5. ASSUME NEW q, lock' = [lock EXCEPT ![x] = q], q # <<>>,
             Head(q) = <<"task", t>>
      PROVE  OwnersAreInside'
  <2>1. Granted(<<"task", t>>, tx[t])'
    BY <1>1, <1>4, <1>5 DEF Granted
  <2>2. Respects(t, x, q)
    <3>1. \A u \in Task \ {t} : ~Granted(<<"task", u>>, x)
      BY <1>3 DEF Granted
    <3>2. QED
      BY <3>1 DEF Respects
  <2>3. QED
    BY <1>1, <1>2, <1>5, <2>1, <2>2, Framing
<1>6. CASE lock' = lock
  <2>1. lock' = [lock EXCEPT ![x] = lock[x]]
    BY <1>1, <1>6
  <2>2. QED
    BY <1>3, <1>5, <2>1
<1>7. CASE \E a \in Agent : lock' = [lock EXCEPT ![x] = Append(lock[x], a)]
  <2>1. PICK a \in Agent : lock' = [lock EXCEPT ![x] = Append(lock[x], a)]
    BY <1>7
  <2>2. Append(lock[x], a) # <<>> /\ Head(Append(lock[x], a)) = <<"task", t>>
    BY <1>1, <1>3, AppendHead
  <2>3. QED
    BY <1>5, <2>1, <2>2
<1>8. CASE lock' = [lock EXCEPT ![x] = Tail(lock[x])] /\ s \in {"done", "dead"}
  <2>1. ~Inside(t)'
    BY <1>1, <1>8 DEF Inside
  <2>2. Respects(t, x, Tail(lock[x]))
    BY <1>1, <1>3, RespectsQueue
  <2>3. QED
    BY <1>1, <1>2, <1>8, <2>1, <2>2, Framing
<1>9. CASE StopTimer(t)
  <2> DEFINE q == Without(lock[x], <<"timer", t>>)
  <2>1. q # <<>> /\ Head(q) = <<"task", t>>
    <3>1. <<"timer", t>> # <<"task", t>>
      OBVIOUS
    <3>2. Head(lock[x]) # <<"timer", t>>
      BY <1>3, <3>1
    <3>3. Without(lock[x], <<"timer", t>>) # <<>>
          /\ Head(Without(lock[x], <<"timer", t>>)) = Head(lock[x])
      BY <1>1, <1>3, <3>2, WithoutHead
    <3>4. QED
      BY <1>3, <3>3
  <2>2. lock' = [lock EXCEPT ![x] = q]
    BY <1>9 DEF StopTimer
  <2> HIDE DEF q
  <2>3. QED
    BY <1>5, <2>1, <2>2
<1>10. QED
  BY <1>6, <1>7, <1>8, <1>9

\* An agent that is no task's takes a lock, or queues up for it.
LEMMA OthersMove ==
    ASSUME TypeOK, OwnersAreInside, NEW x \in Task, NEW a \in Agent, pc' = pc, tx' = tx,
           \/ lock' = lock
           \/ /\ lock[x] # <<>>
              /\ lock' = [lock EXCEPT ![x] = Append(lock[x], a)]
           \/ /\ Granted(a, x) /\ a[1] # "task"
              /\ lock' = [lock EXCEPT ![x] = Tail(lock[x])]
    PROVE  OwnersAreInside'
<1> SUFFICES ASSUME NEW u \in Task, Inside(u) PROVE Granted(<<"task", u>>, tx[u])'
  BY DEF OwnersAreInside, Inside
<1>1. Granted(<<"task", u>>, tx[u]) /\ tx'[u] = tx[u] /\ tx[u] \in Task
      /\ lock \in [Task -> Seq(Agent)]
  BY DEF OwnersAreInside, TypeOK
<1>2. CASE tx[u] # x \/ lock' = lock
  BY <1>1, <1>2 DEF Granted
<1>3. CASE tx[u] = x /\ lock' # lock
  <2>1. ~(Granted(a, x) /\ a[1] # "task")
    BY <1>1, <1>3 DEF Granted
  <2>2. lock' = [lock EXCEPT ![x] = Append(lock[x], a)] /\ lock[x] \in Seq(Agent)
    BY <1>1, <1>3, <2>1
  <2>3. lock[x] # <<>> /\ Head(lock[x]) = <<"task", u>>
    BY <1>1, <1>3 DEF Granted
  <2>4. Append(lock[x], a) # <<>> /\ Head(Append(lock[x], a)) = <<"task", u>>
    BY <2>2, <2>3, AppendHead
  <2>5. QED
    BY <1>1, <1>3, <2>2, <2>4 DEF Granted
<1>4. QED
  BY <1>2, <1>3

\* Every step leaves the lock with whoever is inside.
LEMMA OwnersStep ==
    TypeOK /\ OnlyReceived /\ OwnersAreInside /\ [Next]_vars => OwnersAreInside'
<1> SUFFICES ASSUME TypeOK, OnlyReceived, OwnersAreInside, [Next]_vars
             PROVE  OwnersAreInside'
  OBVIOUS
<1>1. /\ pc \in [Task -> States] /\ tx \in [Task -> Task] /\ req \in [Task -> Task]
      /\ lock \in [Task -> Seq(Agent)] /\ <<>> \in Seq(Agent)
      /\ \A t \in Task : t[1] \in Requests /\ <<"task", t>> \in Agent
  BY DEF TypeOK, Agent, Task
<1>2. ASSUME NEW t \in Task, ReceiveDuplicate(t) PROVE OwnersAreInside'
  <2> DEFINE x == Original(t[1])
  <2>1. x \in Task
    BY <1>1, <1>2, KeyTypes DEF ReceiveDuplicate, Original, TypeOK
  <2>2. lock[x] \in Seq(Agent) /\ Respects(t, x, lock[x])
    BY <1>1, <2>1, RespectsQueue
  <2>3. RepeatAnswer(t, x, req[x], lock[x])
    BY <1>2 DEF ReceiveDuplicate
  <2>4. QED
    BY <2>1, <2>2, <2>3, RepeatAnswerOwners
<1>3. ASSUME NEW t \in Task, ReceiveKnownToken(t) PROVE OwnersAreInside'
  <2> DEFINE x == byToken[TokenKey(t[1])]
  <2>1. x \in Task
    <3>1. x # Nobody
      BY <1>3 DEF ReceiveKnownToken, KnownToken
    <3>2. QED
      BY <1>1, <3>1, KeyTypes DEF TypeOK
  <2>2. CASE lock[x] = <<>> /\ Join(t, x, <<>>)
    BY <1>1, <2>1, <2>2, RespectsQueue, JoinOwners
  <2>3. CASE ~(lock[x] = <<>> /\ Join(t, x, <<>>))
    <3>1. /\ tx' = [tx EXCEPT ![t] = x]
          /\ lock' = [lock EXCEPT ![x] = Append(lock[x], <<"task", t>>)]
          /\ pc' = [pc EXCEPT ![t] = "tokenWait"]
      BY <1>3, <2>3 DEF ReceiveKnownToken
    <3>2. Respects(t, x, Append(lock[x], <<"task", t>>))
      BY <1>1, <2>1, RespectsQueue, RespectsAppend
    <3>3. \A u \in Task \ {t} : pc'[u] = pc[u] /\ tx'[u] = tx[u]
      BY <1>1, <3>1
    <3>4. ~Inside(t)'
      BY <1>1, <3>1 DEF Inside
    <3>5. QED
      BY <1>1, <2>1, <3>1, <3>2, <3>3, <3>4, Framing
  <2>4. QED
    BY <2>2, <2>3
<1>4. ASSUME NEW t \in Task, ReceiveNew(t) PROVE OwnersAreInside'
  <2>1. Serve(t, t, <<>>) /\ pc[t] = "idle"
    BY <1>4 DEF ReceiveNew, Arrives
  <2>2. CASE lock[t] = <<>>
    BY <1>1, <2>1, <2>2, RespectsQueue, ServeOwners
  <2>3. CASE lock[t] # <<>>
    <3>1. \A u \in Task : Inside(u) => tx[u] # t
      BY <2>1 DEF OnlyReceived, Inside
    <3>2. Respects(t, t, <<>>)
      BY <3>1 DEF Respects
    <3>3. QED
      BY <1>1, <2>1, <3>2, ServeOwners
  <2>4. QED
    BY <2>2, <2>3
<1>5. ASSUME NEW t \in Task, TokenGranted(t) PROVE OwnersAreInside'
  <2> DEFINE x == tx[t]
  <2>1. x \in Task /\ lock[x] \in Seq(Agent) /\ lock[x] # <<>>
        /\ Granted(<<"task", t>>, x) /\ Join(t, x, Tail(lock[x]))
    BY <1>1, <1>5 DEF TokenGranted, Granted
  <2>2. Tail(lock[x]) \in Seq(Agent)
    BY <2>1
  <2>3. Respects(t, x, Tail(lock[x]))
    BY <1>1, <2>1, RespectsQueue
  <2>4. QED
    BY <2>1, <2>2, <2>3, JoinOwners
<1>6. ASSUME NEW t \in Task, LockGranted(t) PROVE OwnersAreInside'
  <2>1. /\ Granted(<<"task", t>>, tx[t]) /\ lock' = lock /\ tx' = tx
        /\ pc' = [pc EXCEPT ![t] = "started"]
    BY <1>6 DEF LockGranted
  <2>2. \A u \in Task : Inside(u)' => u = t \/ Inside(u)
    BY <1>1, <2>1 DEF Inside
  <2>3. QED
    BY <2>1, <2>2 DEF OwnersAreInside, Granted
<1>7. ASSUME NEW a \in Agent, AckGranted(a) PROVE OwnersAreInside'
  <2> DEFINE t == a[2]
             x == tx[t]
  <2>1. t \in Task /\ x \in Task /\ lock[x] \in Seq(Agent)
        /\ a[1] \in {"task", "separate", "timer", "reset"}
    BY <1>1 DEF Agent
  <2>2. /\ Waiting(a) /\ Granted(a, x) /\ tx' = tx
        /\ lock' = [lock EXCEPT ![x] = Tail(lock[x])]
    BY <1>7 DEF AckGranted
  <2>3. CASE a[1] = "task"
    <3>1. pc' = [pc EXCEPT ![t] = "done"]
      BY <1>7, <2>3 DEF AckGranted
    <3>2. (\A u \in Task \ {t} : pc'[u] = pc[u] /\ tx'[u] = tx[u]) /\ ~Inside(t)'
      BY <1>1, <2>1, <2>2, <3>1 DEF Inside
    <3>3. Respects(t, x, Tail(lock[x]))
      BY <2>1, <2>2, RespectsQueue
    <3>4. QED
      BY <1>1, <2>1, <2>2, <3>2, <3>3, Framing
  <2>4. CASE a[1] = "separate"
    <3>1. Inside(t)
      BY <2>2, <2>4 DEF Waiting, Inside
    <3>2. Head(lock[x]) = <<"task", t>> /\ Head(lock[x]) = a
      BY <2>1, <2>2, <3>1 DEF OwnersAreInside, Granted
    <3>3. QED
      BY <2>4, <3>2
  <2>5. CASE a[1] = "timer"
    <3>1. pc' = [pc EXCEPT ![t] = pc[t]]
      BY <1>7, <2>5 DEF AckGranted
    <3>2. pc' = pc
      BY <1>1, <2>1, <3>1
    <3>3. QED
      BY <2>1, <2>2, <2>5, <3>2, OthersMove
  <2>6. CASE a[1] = "reset"
    BY <2>2, <2>6 DEF Waiting
  <2>7. QED
    BY <2>1, <2>3, <2>4, <2>5, <2>6
<1>8. ASSUME NEW t \in Task, Start(t) PROVE OwnersAreInside'
  <2>1. /\ Inside(t) /\ tx' = tx
        /\ \/ pc' = [pc EXCEPT ![t] = "answering"]
           \/ pc' = [pc EXCEPT ![t] = "handling"]
        /\ lock' = lock \/ StopTimer(t)
    BY <1>8 DEF Start, Inside
  <2>2. PICK s \in States : pc' = [pc EXCEPT ![t] = s]
    BY <2>1 DEF States
  <2>3. QED
    BY <2>1, <2>2, OwnerMoves
<1>9. ASSUME NEW t \in Task, Return(t) PROVE OwnersAreInside'
  <2>1. /\ Inside(t) /\ tx' = tx /\ <<"separate", t>> \in Agent
        /\ \/ pc' = [pc EXCEPT ![t] = "answering"] /\ StopTimer(t)
           \/ /\ pc' = [pc EXCEPT ![t] = "dead"]
              /\ lock' = [lock EXCEPT ![tx[t]] = Tail(lock[tx[t]])]
           \/ /\ pc' = [pc EXCEPT ![t] = "separate"]
              /\ lock' = [lock EXCEPT ![tx[t]] =
                             Append(lock[tx[t]], <<"separate", t>>)]
    BY <1>9 DEF Return, Inside, Agent
  <2>2. {"answering", "dead", "separate"} \subseteq States
    BY DEF States
  <2>3. QED
    BY <2>1, <2>2, OwnerMoves
<1>10. ASSUME NEW t \in Task,
              AnswerNothing(t) \/ SendAnswer(t) \/ SendDelayed(t)
       PROVE  OwnersAreInside'
  <2>1. /\ Inside(t) /\ tx' = tx
        /\ \/ pc' = [pc EXCEPT ![t] = "delaying"] /\ lock' = lock
           \/ /\ pc' = [pc EXCEPT ![t] = "done"]
              /\ lock' = [lock EXCEPT ![tx[t]] = Tail(lock[tx[t]])]
    BY <1>10 DEF AnswerNothing, SendAnswer, SendDelayed, Inside
  <2>2. {"delaying", "done"} \subseteq States
    BY DEF States
  <2>3. QED
    BY <2>1, <2>2, OwnerMoves
<1>11. ASSUME NEW t \in Task, TimerFires(t) PROVE OwnersAreInside'
  <2>1. <<"timer", t>> \in Agent /\ tx[t] \in Task
    BY <1>1 DEF Agent
  <2>2. /\ pc' = pc /\ tx' = tx
        /\ \/ lock' = lock
           \/ /\ lock[tx[t]] # <<>>
              /\ lock' = [lock EXCEPT ![tx[t]] = Append(lock[tx[t]], <<"timer", t>>)]
    BY <1>11 DEF TimerFires
  <2>3. QED
    BY <2>1, <2>2, OthersMove
<1>12. ASSUME NEW m \in sent, ReceiveReset(m) PROVE OwnersAreInside'
  <2> DEFINE x == byMid[<<m.of.src, m.mid>>]
  <2>1. <<m.of.src, m.mid>> \in MidKeys
    BY KeyTypes DEF TypeOK, Datagram, MidKeys
  <2>2. x \in Task /\ <<"reset", x>> \in Agent
    <3>1. byMid \in [MidKeys -> Task \cup {Nobody}] /\ lock \in [Task -> Seq(Agent)]
      BY DEF TypeOK
    <3>2. x \in Task
      BY <1>12, <2>1, <3>1 DEF ReceiveReset
    <3>3. <<"reset", x>> \in Agent
      BY <3>2 DEF Agent
    <3>4. QED
      BY <3>1, <3>2, <3>3
  <2>3. /\ pc' = pc /\ tx' = tx
        /\ \/ lock' = lock
           \/ /\ lock[x] # <<>>
              /\ lock' = [lock EXCEPT ![x] = Append(lock[x], <<"reset", x>>)]
    BY <1>12 DEF ReceiveReset
  <2>4. QED
    BY <2>2, <2>3, OthersMove
<1>13. ASSUME NEW x \in Task, ResetGranted(x) PROVE OwnersAreInside'
  <2>1. <<"reset", x>> \in Agent /\ <<"reset", x>>[1] # "task"
    BY DEF Agent
  <2>2. /\ pc' = pc /\ tx' = tx /\ Granted(<<"reset", x>>, x)
        /\ lock' = [lock EXCEPT ![x] = Tail(lock[x])]
    BY <1>13 DEF ResetGranted
  <2>3. QED
    BY <2>1, <2>2, OthersMove
<1>14. CASE Purge \/ Tick \/ UNCHANGED vars
  <2>1. pc' = pc /\ tx' = tx /\ lock' = lock
    BY <1>14 DEF Purge, Tick, vars
  <2>2. QED
    BY <2>1 DEF OwnersAreInside, Inside, Granted
<1>15. QED
  BY <1>2, <1>3, <1>4, <1>5, <1>6, <1>7, <1>8, <1>9, <1>10, <1>11, <1>12, <1>13,
     <1>14 DEF Next, Receive, Run

-----------------------------------------------------------------------------
(* Whose first copy is served *)

\* A copy is received after the first one, and the tables have entries only under
\* keys of requests that have come or of message IDs that the server has assigned.
Come(r) == pc[<<r, 1>>] # "idle"

FiledForCause ==
    /\ \A t \in Task : pc[t] # "idle" => Come(t[1])
    /\ \A k \in TokenKeys : byToken[k] # Nobody =>
          \E s \in Requests : Come(s) /\ TokenKey(s) = k
    /\ \A k \in MidKeys : byMid[k] # Nobody =>
          k \in assigned \/ \E s \in Requests : Come(s) /\ MidKey(s) = k

\* What any step does to the tables and to the transactions of tasks.
Files ==
    /\ \A u \in Task : pc[u] # "idle" => pc'[u] # "idle" /\ tx'[u] = tx[u]
    /\ \A u \in Task : pc[u] = "idle" /\ pc'[u] # "idle" => Receive(u)
    /\ assigned \subseteq assigned'
    /\ \A k \in TokenKeys :
          \/ byToken'[k] \in {byToken[k], Nobody}
          \/ \E u \in Task : pc'[u] # "idle" /\ TokenKey(u[1]) = k
    /\ \A k \in MidKeys :
          \/ byMid'[k] \in {byMid[k], Nobody}
          \/ k \in assigned'
          \/ \E u \in Task : pc'[u] # "idle" /\ MidKey(u[1]) = k

\* Task t moves on and may file something under the keys of its request.
LEMMA FilesFrame ==
    ASSUME TypeOK, NEW t \in Task, NEW s \in States, s # "idle",
           pc' = [pc EXCEPT ![t] = s],
           NEW x \in Task, tx' = [tx EXCEPT ![t] = x],
           pc[t] # "idle" => x = tx[t], pc[t] = "idle" => Receive(t),
           assigned \subseteq assigned',
           \A k \in TokenKeys : byToken'[k] = byToken[k] \/ k = TokenKey(t[1]),
           \A k \in MidKeys :
               byMid'[k] = byMid[k] \/ k = MidKey(t[1]) \/ k \in assigned'
    PROVE  Files
<1>1. /\ pc \in [Task -> States] /\ tx \in [Task -> Task]
      /\ pc'[t] = s /\ tx'[t] = x
      /\ \A u \in Task \ {t} : pc'[u] = pc[u] /\ tx'[u] = tx[u]
  BY DEF TypeOK
<1>2. \A u \in Task : pc[u] # "idle" => pc'[u] # "idle" /\ tx'[u] = tx[u]
  BY <1>1
<1>3. \A u \in Task : pc[u] = "idle" /\ pc'[u] # "idle" => Receive(u)
  BY <1>1
<1>4. QED
  BY <1>1, <1>2, <1>3 DEF Files

LEMMA FilesStep == TypeOK /\ OnlyReceived /\ [Next]_vars => Files
<1> SUFFICES ASSUME TypeOK, OnlyReceived, [Next]_vars PROVE Files
  OBVIOUS
<1>1. /\ pc \in [Task -> States] /\ tx \in [Task -> Task]
      /\ byMid \in [MidKeys -> Task \cup {Nobody}]
      /\ byToken \in [TokenKeys -> Task \cup {Nobody}]
      /\ \A t \in Task : t[1] \in Requests /\ MidKey(t[1]) \in MidKeys
                          /\ TokenKey(t[1]) \in TokenKeys
  BY KeyTypes DEF TypeOK, Task
<1>2. ASSUME NEW t \in Task, ReceiveDuplicate(t) PROVE Files
  <2>1. Original(t[1]) \in Task
    BY <1>1, <1>2 DEF ReceiveDuplicate, Original
  <2>2. PICK x \in Task : x = Original(t[1])
    BY <2>1
  <2>3. /\ tx' = [tx EXCEPT ![t] = x] /\ byMid' = byMid /\ byToken' = byToken
        /\ pc' = [pc EXCEPT ![t] = "done"] \/ pc' = [pc EXCEPT ![t] = "ackWait"]
        /\ pc[t] = "idle" /\ assigned' = assigned /\ Receive(t)
    BY <1>2, <2>2 DEF ReceiveDuplicate, RepeatAnswer, tables, history, Arrives, Receive
  <2>4. PICK s \in States : s # "idle" /\ pc' = [pc EXCEPT ![t] = s]
    BY <2>3 DEF States
  <2>5. QED
    BY <2>3, <2>4, FilesFrame
<1>3. ASSUME NEW t \in Task, NEW x \in Task, NEW q, Join(t, x, q),
             pc[t] # "idle" => x = tx[t],
             pc[t] = "idle" => Receive(t) /\ byToken[TokenKey(t[1])] # Nobody,
             byToken' = byToken, assigned' = assigned
      PROVE  Files
  <2>1. ASSUME NEW c, RepeatAnswer(t, x, c, q) \/ Serve(t, x, q)
        PROVE  /\ tx' = [tx EXCEPT ![t] = x]
               /\ \E s \in States : s # "idle" /\ pc' = [pc EXCEPT ![t] = s]
    BY <2>1 DEF RepeatAnswer, Serve, States
  <2>2. CASE byToken[TokenKey(t[1])] = Nobody
    <3>1. pc' = [pc EXCEPT ![t] = "dead"] /\ tx' = tx /\ byMid' = byMid
      BY <1>3, <2>2 DEF Join
    <3>2. "dead" \in States /\ tx' = [tx EXCEPT ![t] = x]
      BY <1>1, <1>3, <2>2, <3>1 DEF States
    <3>3. QED
      BY <1>3, <2>2, <3>1, <3>2, FilesFrame
  <2>3. CASE byToken[TokenKey(t[1])] # Nobody
    <3>1. /\ tx' = [tx EXCEPT ![t] = x]
          /\ byMid' = [byMid EXCEPT ![MidKey(t[1])] = x]
          /\ \E s \in States : s # "idle" /\ pc' = [pc EXCEPT ![t] = s]
      BY <1>3, <2>1, <2>3 DEF Join
    <3>2. PICK s \in States : s # "idle" /\ pc' = [pc EXCEPT ![t] = s]
      BY <3>1
    <3>3. \A k \in MidKeys : byMid'[k] = byMid[k] \/ k = MidKey(t[1])
      BY <1>1, <3>1
    <3>4. QED
      BY <1>3, <3>1, <3>2, <3>3, FilesFrame
  <2>4. QED
    BY <2>2, <2>3
<1>4. ASSUME NEW t \in Task, ReceiveKnownToken(t) PROVE Files
  <2>1. /\ byToken[TokenKey(t[1])] # Nobody /\ byToken' = byToken
        /\ pc[t] = "idle" /\ assigned' = assigned /\ Receive(t)
    BY <1>4 DEF ReceiveKnownToken, KnownToken, Arrives, history, Receive
  <2>2. PICK x \in Task : x = byToken[TokenKey(t[1])]
    BY <1>1, <2>1
  <2>3. CASE Join(t, x, <<>>)
    BY <1>3, <2>1, <2>3
  <2>4. CASE ~Join(t, x, <<>>)
    <3>1. /\ tx' = [tx EXCEPT ![t] = x] /\ byMid' = byMid
          /\ pc' = [pc EXCEPT ![t] = "tokenWait"]
      BY <1>4, <2>2, <2>4 DEF ReceiveKnownToken
    <3>2. "tokenWait" \in States
      BY DEF States
    <3>3. QED
      BY <2>1, <3>1, <3>2, FilesFrame
  <2>5. QED
    BY <2>3, <2>4
<1>5. ASSUME NEW t \in Task, ReceiveNew(t) PROVE Files
  <2>1. /\ tx' = [tx EXCEPT ![t] = t] /\ pc' = [pc EXCEPT ![t] = "started"]
        /\ byMid' = [byMid EXCEPT ![MidKey(t[1])] = t]
        /\ byToken' = [byToken EXCEPT ![TokenKey(t[1])] = t]
        /\ pc[t] = "idle" /\ assigned' = assigned /\ Receive(t)
    BY <1>5 DEF ReceiveNew, Serve, Arrives, Receive
  <2>2. "started" \in States
    BY DEF States
  <2>3. /\ \A k \in MidKeys : byMid'[k] = byMid[k] \/ k = MidKey(t[1])
        /\ \A k \in TokenKeys : byToken'[k] = byToken[k] \/ k = TokenKey(t[1])
    BY <1>1, <2>1
  <2>4. QED
    BY <2>1, <2>2, <2>3, FilesFrame
<1>6. ASSUME NEW t \in Task, TokenGranted(t) PROVE Files
  <2>1. PICK x \in Task : x = tx[t]
    BY <1>1
  <2>2. /\ pc[t] # "idle" /\ byToken' = byToken /\ assigned' = assigned
        /\ Join(t, x, Tail(lock[x]))
    BY <1>6, <2>1 DEF TokenGranted, history
  <2>3. QED
    BY <1>3, <2>1, <2>2
<1>7. ASSUME NEW t \in Task, pc[t] # "idle", tx' = tx, byToken' = byToken,
             NEW s \in States, s # "idle", pc' = [pc EXCEPT ![t] = s],
             assigned \subseteq assigned',
             \A k \in MidKeys : byMid'[k] = byMid[k] \/ k \in assigned'
      PROVE  Files
  <2>1. PICK x \in Task : x = tx[t]
    BY <1>1
  <2>2. tx' = [tx EXCEPT ![t] = x]
    BY <1>1, <1>7, <2>1
  <2>3. QED
    BY <1>7, <2>1, <2>2, FilesFrame
<1>8. ASSUME NEW t \in Task,
             \/ LockGranted(t) \/ Start(t) \/ Return(t)
             \/ AnswerNothing(t) \/ SendDelayed(t)
      PROVE  Files
  <2>1. /\ pc[t] # "idle" /\ tx' = tx /\ byToken' = byToken /\ byMid' = byMid
        /\ \E s \in States : s # "idle" /\ pc' = [pc EXCEPT ![t] = s]
        /\ assigned' = assigned
    BY <1>8 DEF LockGranted, Start, Return, AnswerNothing, SendDelayed, tables, history, States
  <2>2. QED
    BY <1>7, <2>1
<1>9. ASSUME NEW t \in Task, SendAnswer(t) PROVE Files
  <2>1. PICK k : k = <<resp[tx[t]].of.src, curMid>>
    OBVIOUS
  <2>2. /\ pc[t] # "idle" /\ tx' = tx /\ byToken' = byToken
        /\ pc' = [pc EXCEPT ![t] = "done"] \/ pc' = [pc EXCEPT ![t] = "delaying"]
        /\ \/ byMid' = byMid /\ assigned' = assigned
           \/ byMid' = [byMid EXCEPT ![k] = tx[t]] /\ assigned' = assigned \cup {k}
    BY <1>9, <2>1 DEF SendAnswer
  <2>3. PICK s \in States : s # "idle" /\ pc' = [pc EXCEPT ![t] = s]
    BY <2>2 DEF States
  <2>4. \A j \in MidKeys : byMid'[j] = byMid[j] \/ j \in assigned'
    BY <1>1, <2>2
  <2>5. QED
    BY <1>7, <2>2, <2>3, <2>4
<1>10. ASSUME tx' = tx, byMid' = byMid, byToken' = byToken, pc' = pc, assigned' = assigned
       PROVE  Files
  BY <1>10 DEF Files
<1>11. ASSUME NEW a \in Agent, AckGranted(a) PROVE Files
  <2>1. /\ a[2] \in Task /\ tx' = tx /\ byMid' = byMid /\ byToken' = byToken
        /\ assigned' = assigned
        /\ \/ /\ pc[a[2]] # "idle"
              /\ \E s \in {"done", "handling"} : pc' = [pc EXCEPT ![a[2]] = s]
           \/ pc' = [pc EXCEPT ![a[2]] = pc[a[2]]]
    BY <1>11 DEF AckGranted, Waiting, tables, history, Agent
  <2>2. CASE pc' = [pc EXCEPT ![a[2]] = pc[a[2]]]
    <3>1. pc' = pc
      BY <1>1, <2>1, <2>2
    <3>2. QED
      BY <1>10, <2>1, <3>1
  <2>3. CASE pc' # [pc EXCEPT ![a[2]] = pc[a[2]]]
    BY <1>7, <2>1, <2>3 DEF States
  <2>4. QED
    BY <2>2, <2>3
<1>12. ASSUME NEW t \in Task, TimerFires(t) \/ ResetGranted(t) PROVE Files
  BY <1>10, <1>12 DEF TimerFires, ResetGranted, tables, history
<1>13. ASSUME NEW m \in sent, ReceiveReset(m) PROVE Files
  BY <1>10, <1>13 DEF ReceiveReset, tables, history
<1>14. CASE Purge
  <2>1. /\ pc' = pc /\ tx' = tx /\ assigned' = assigned
        /\ \A k \in MidKeys : byMid'[k] \in {byMid[k], Nobody}
        /\ \A k \in TokenKeys : byToken'[k] \in {byToken[k], Nobody}
    BY <1>14 DEF Purge, Kept
  <2>2. QED
    BY <2>1 DEF Files
<1>15. CASE Tick \/ UNCHANGED vars
  BY <1>10, <1>15 DEF Tick, tables, history, vars
<1>16. QED
  BY <1>2, <1>4, <1>5, <1>6, <1>8, <1>9, <1>11, <1>12, <1>13, <1>14, <1>15
     DEF Next, Run, Receive

\* Whatever is found under the key of a request that has not come yet was filed
\* for a request it clashes with, or under a message ID of the server's.
LEMMA FoundForCause ==
    ASSUME TypeOK, FiledForCause, NEW r \in Requests, ~Come(r), Original(r) # Nobody
           \/ byToken[TokenKey(r)] # Nobody
    PROVE  \/ \E s \in Requests : Clash(r, s) /\ Come(s)
           \/ ~r.multicast /\ <<r.src, r.mid>> \in assigned
<1>1. /\ MidKey(r) \in MidKeys /\ TokenKey(r) \in TokenKeys
      /\ \A s \in Requests : s.multicast \in BOOLEAN /\ s.src # Group
  <2>1. \A s \in Requests : /\ s.src \in Clients /\ s.multicast \in BOOLEAN
                            /\ MidKey(s) \in MidKeys /\ TokenKey(s) \in TokenKeys
    BY KeyTypes
  <2>2. QED
    BY <2>1, ExchangeAssumption
<1>2. ASSUME NEW s \in Requests, Origin(s) = Origin(r)
      PROVE  r.multicast = s.multicast /\ (r.src = s.src \/ r.multicast)
  BY <1>1, <1>2 DEF Origin
<1>3. CASE byToken[TokenKey(r)] # Nobody
  <2>1. PICK s \in Requests : Come(s) /\ TokenKey(s) = TokenKey(r)
    BY <1>1, <1>3 DEF FiledForCause
  <2>2. Origin(s) = Origin(r) /\ s.token = r.token
    BY <2>1 DEF TokenKey
  <2>3. QED
    BY <1>2, <2>1, <2>2 DEF Clash
<1>4. CASE byToken[TokenKey(r)] = Nobody
  <2>1. ~r.multicast /\ byMid[MidKey(r)] # Nobody
    BY <1>1, <1>4 DEF Original
  <2>2. CASE MidKey(r) \in assigned
    BY <2>1, <2>2 DEF MidKey, Origin
  <2>3. CASE \E s \in Requests : Come(s) /\ MidKey(s) = MidKey(r)
    <3>1. PICK s \in Requests : Come(s) /\ MidKey(s) = MidKey(r)
      BY <2>3
    <3>2. Origin(s) = Origin(r) /\ s.mid = r.mid
      BY <3>1 DEF MidKey
    <3>3. QED
      BY <1>2, <2>1, <3>1, <3>2 DEF Clash
  <2>4. QED
    BY <1>1, <2>1, <2>2, <2>3 DEF FiledForCause
<1>5. QED
  BY <1>3, <1>4

LEMMA FiledStep ==
    ASSUME TypeOK, OnlyReceived, FiledForCause, FirstCopyIsServed, [Next]_vars
    PROVE  FiledForCause' /\ FirstCopyIsServed'
<1>1. Files
  BY FilesStep
<1>2. \A t \in Task : /\ t[1] \in Requests /\ <<t[1], 1>> \in Task
                      /\ t[2] \in 1 .. Copies /\ t = <<t[1], t[2]>>
  BY ExchangeAssumption DEF Task
<1>2a. \A n \in 1 .. Copies : Copies > 0 /\ (n # 1 => n > 1 /\ n - 1 \in 1 .. Copies)
  BY ExchangeAssumption
<1>3. \A r \in Requests : Copies > 0 => <<r, 1>> \in Task
  BY ExchangeAssumption DEF Task
<1>4. ASSUME NEW t \in Task, pc'[t] # "idle" PROVE Come(t[1])'
  <2>1. CASE pc[t] # "idle" \/ t[2] = 1
    BY <1>1, <1>2, <1>4, <2>1 DEF Files, FiledForCause, Come
  <2>2. CASE pc[t] = "idle" /\ t[2] # 1
    <3>1. Arrives(t)
      <4>1. Receive(t)
        BY <1>1, <1>4, <2>2 DEF Files
      <4>2. QED
        BY <4>1 DEF Receive, ReceiveDuplicate, ReceiveKnownToken, ReceiveNew
    <3>2. PICK u \in Task : u = <<t[1], t[2] - 1>>
      <4>1. t[1] \in Requests
        BY <1>2
      <4>2. t[2] - 1 \in 1 .. Copies
        BY <1>2, <1>2a, <2>2
      <4>3. <<t[1], t[2] - 1>> \in Task
        BY <4>1, <4>2 DEF Task
      <4>4. QED
        BY <4>3
    <3>3. pc[u] # "idle" /\ u[1] = t[1]
      <4>1. t[2] > 1
        BY <1>2, <1>2a, <2>2
      <4>2. QED
        BY <3>1, <3>2, <4>1 DEF Arrives
    <3>4. Come(t[1])
      BY <3>3 DEF FiledForCause
    <3>5. QED
      BY <1>1, <1>2, <3>4 DEF Files, Come
  <2>3. QED
    BY <2>1, <2>2
<1>5. \A s \in Requests : Come(s) /\ Copies > 0 => Come(s)'
  BY <1>1, <1>3 DEF Files, Come
<1>6. FiledForCause'
  <2>1. \A u \in Task : Copies > 0
    BY <1>2, <1>2a
  <2>2. ASSUME NEW k \in TokenKeys, byToken'[k] # Nobody
        PROVE  \E s \in Requests : Come(s)' /\ TokenKey(s) = k
    <3>1. CASE byToken'[k] = byToken[k]
      <4>1. byToken[k] \in Task
        BY <2>2, <3>1 DEF TypeOK
      <4>2. PICK s \in Requests : Come(s) /\ TokenKey(s) = k
        BY <2>2, <3>1 DEF FiledForCause
      <4>3. QED
        BY <1>5, <2>1, <4>1, <4>2
    <3>2. CASE \E u \in Task : pc'[u] # "idle" /\ TokenKey(u[1]) = k
      <4>1. PICK u \in Task : pc'[u] # "idle" /\ TokenKey(u[1]) = k
        BY <3>2
      <4>2. Come(u[1])' /\ u[1] \in Requests
        BY <1>2, <1>4, <4>1
      <4>3. QED
        BY <4>1, <4>2
    <3>3. QED
      BY <1>1, <2>2, <3>1, <3>2 DEF Files
  <2>3. ASSUME NEW k \in MidKeys, byMid'[k] # Nobody
        PROVE  k \in assigned' \/ \E s \in Requests : Come(s)' /\ MidKey(s) = k
    <3>1. CASE byMid'[k] = byMid[k]
      <4>1. byMid[k] \in Task
        BY <2>3, <3>1 DEF TypeOK
      <4>2. CASE k \in assigned
        BY <1>1, <4>2 DEF Files
      <4>3. CASE \E s \in Requests : Come(s) /\ MidKey(s) = k
        BY <1>5, <2>1, <4>1, <4>3
      <4>4. QED
        BY <2>3, <3>1, <4>2, <4>3 DEF FiledForCause
    <3>2. CASE \E u \in Task : pc'[u] # "idle" /\ MidKey(u[1]) = k
      <4>1. PICK u \in Task : pc'[u] # "idle" /\ MidKey(u[1]) = k
        BY <3>2
      <4>2. Come(u[1])' /\ u[1] \in Requests
        BY <1>2, <1>4, <4>1
      <4>3. QED
        BY <4>1, <4>2
    <3>3. QED
      BY <1>1, <2>3, <3>1, <3>2 DEF Files
  <2>4. QED
    BY <1>4, <2>2, <2>3 DEF FiledForCause, Come
<1>7. FirstCopyIsServed'
  <2> SUFFICES ASSUME NEW r \in Requests, Copies > 0, pc'[<<r, 1>>] # "idle"
               PROVE  \/ tx'[<<r, 1>>] = <<r, 1>>
                      \/ \E s \in Requests : Clash(r, s) /\ Come(s)'
                      \/ ~r.multicast /\ <<r.src, r.mid>> \in assigned'
    BY DEF FirstCopyIsServed, Come
  <2>1. PICK u \in Task : u = <<r, 1>>
    BY <1>3
  <2>2. CASE pc[u] # "idle"
    BY <1>1, <1>5, <2>1, <2>2 DEF Files, FirstCopyIsServed, Come
  <2>3. CASE pc[u] = "idle"
    <3>1. Receive(u) /\ u[1] = r /\ ~Come(r)
      BY <1>1, <2>1, <2>3 DEF Files, Come
    <3>2. CASE ReceiveNew(u)
      BY <2>1, <3>2 DEF ReceiveNew, Serve, TypeOK
    <3>3. CASE ReceiveDuplicate(u) \/ ReceiveKnownToken(u)
      <4>1. Original(r) # Nobody \/ byToken[TokenKey(r)] # Nobody
        BY <3>1, <3>3 DEF ReceiveDuplicate, ReceiveKnownToken, KnownToken
      <4>2. QED
        BY <1>1, <1>5, <3>1, <4>1, FoundForCause DEF Files
    <3>4. QED
      BY <3>1, <3>2, <3>3 DEF Receive
  <2>4. QED
    BY <2>2, <2>3
<1>8. QED
  BY <1>6, <1>7

-----------------------------------------------------------------------------
(* Theorems *)

\* The inductive invariant: the types, that whoever works on a transaction is
\* at the head of its lock's queue, and that transactions have been received.
IInv == TypeOK /\ OnlyReceived /\ OwnersAreInside

LEMMA InitIInv == Init => IInv
<1> SUFFICES ASSUME Init PROVE IInv
  OBVIOUS
<1>1. OwnersAreInside
  BY DEF Init, OwnersAreInside, Inside
<1>2. ASSUME NEW t \in Task PROVE NoAnswer(t[1]) \in Answer
  <2>1. 0 \in Mids /\ t[1] \in Requests
    BY ExchangeAssumption DEF Mids, Task
  <2>2. QED
    BY <2>1 DEF NoAnswer, Blank, Answer
<1>3. resp \in [Task -> Answer]
  BY <1>2 DEF Init
<1>4. FirstMid \in Mids
  BY ExchangeAssumption DEF Mids
<1>5. \A a \in Agent : a[2] \in Task
  BY DEF Agent
<1>6. ackFor \in [Agent -> Task]
  BY <1>5 DEF Init
<1>7. OnlyReceived
  BY DEF Init, OnlyReceived
<1>8. QED
  BY <1>1, <1>3, <1>4, <1>6, <1>7 DEF Init, IInv, TypeOK, States

LEMMA IInvHolds == Spec => []IInv
<1>1. IInv /\ [Next]_vars => IInv'
  BY TypeStep, ReceivedStep, OwnersStep DEF IInv
<1>2. QED
  BY InitIInv, <1>1, PTL DEF Spec

\* The types hold in every reachable state, for any requests and handlers: no
\* lock is released by a task that does not own it.
THEOREM TypeCorrect == Spec => []TypeOK
<1>1. IInv => TypeOK
  BY DEF IInv
<1>2. QED
  BY IInvHolds, <1>1, PTL

\* Whoever runs a handler or sends an answer owns the transaction's lock.
THEOREM InsideOwnsLock == Spec => []OwnersAreInside
<1>1. IInv => OwnersAreInside
  BY DEF IInv
<1>2. QED
  BY IInvHolds, <1>1, PTL

\* Transactions are worked on by one task at a time, however many copies,
\* requests with a reused token, timers and resets compete for their locks.
THEOREM MutualExclusion == Spec => []OneHolder
<1>1. OwnersAreInside => OneHolder
  <2> SUFFICES ASSUME OwnersAreInside, NEW t \in Task, NEW u \in Task,
                      Inside(t), Inside(u), tx[t] = tx[u]
               PROVE  t = u
    BY DEF OneHolder
  <2>1. Head(lock[tx[t]]) = <<"task", t>> /\ Head(lock[tx[t]]) = <<"task", u>>
    BY DEF OwnersAreInside, Granted
  <2>2. QED
    BY <2>1
<1>2. QED
  BY InsideOwnsLock, <1>1, PTL

\* Whatever clients send, a request that comes for the first time is taken for
\* something else only where tokens or message IDs collide: two requests of one
\* client share one, or the server has given the request's ID to an answer.
THEOREM FirstCopyCorrect == Spec => []FirstCopyIsServed
<1>1. Init => FiledForCause /\ FirstCopyIsServed
  <2> SUFFICES ASSUME Init PROVE FiledForCause /\ FirstCopyIsServed
    OBVIOUS
  <2>1. FiledForCause
    BY DEF Init, FiledForCause
  <2>2. FirstCopyIsServed
    BY ExchangeAssumption DEF Init, FirstCopyIsServed, Task
  <2>3. QED
    BY <2>1, <2>2
<1>2. IInv /\ FiledForCause /\ FirstCopyIsServed /\ [Next]_vars
        => FiledForCause' /\ FirstCopyIsServed'
  BY FiledStep DEF IInv
<1>3. QED
  BY <1>1, <1>2, IInvHolds, PTL DEF Spec

\* A handler that asks for a separate response waits for a lock its own task
\* holds: its send_ack is never granted the lock.
THEOREM SeparateNeverContinues ==
    Spec => [](\A t \in Task : pc[t] = "separate" => ~Granted(<<"separate", t>>, tx[t]))
<1>1. OwnersAreInside =>
        \A t \in Task : pc[t] = "separate" => ~Granted(<<"separate", t>>, tx[t])
  <2> SUFFICES ASSUME OwnersAreInside, NEW t \in Task, pc[t] = "separate"
               PROVE  ~Granted(<<"separate", t>>, tx[t])
    OBVIOUS
  <2>1. Head(lock[tx[t]]) = <<"task", t>>
    BY DEF OwnersAreInside, Inside, Granted
  <2>2. QED
    BY <2>1 DEF Granted
<1>2. QED
  BY InsideOwnsLock, <1>1, PTL

=============================================================================
