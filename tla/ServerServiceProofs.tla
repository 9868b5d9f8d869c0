------------------------ MODULE ServerServiceProofs ------------------------
(***************************************************************************)
(* What ServerExchange promises clients that keep to the rules, for every  *)
(* set of requests, any number of copies and every behaviour of handlers.  *)
(***************************************************************************)
EXTENDS ServerExchangeProofs, ServerExchangeRefinement, FiniteSetTheorems, Integers

-----------------------------------------------------------------------------
(* The invariant: with clients that keep to the rules, a transaction and    *)
(* its request belong together for good.                                    *)

\* A message ID that is no client's.
NotAClients(m) == \A r \in Requests : ~r.multicast => r.mid # m

\* Both tables name the transaction made for the request they are asked about.
OwnTables ==
    \A r \in Requests :
        /\ byToken[TokenKey(r)] # Nobody =>
              byToken[TokenKey(r)][1] = r /\ Made(byToken[TokenKey(r)])
        /\ ~r.multicast => byMid[MidKey(r)] = byToken[TokenKey(r)]

\* A task works on a transaction of its own request, and only the task that
\* made a transaction is ever inside it.
OwnTasks ==
    \A t \in Task :
        /\ req[t] = t
        /\ tx[t][1] = t[1]
        /\ pc[t] = "idle" => tx[t] = t
        /\ pc[t] # "idle" => Made(tx[t])
        /\ pc[t] \notin {"tokenWait", "lockWait"}
        /\ Inside(t) => tx[t] = t

\* What has become of the response of transaction x, and of its handler, at
\* each stage; a response keeps the type and the message ID it was sent with.
AnswerOK(x) ==
    /\ ~Made(x) \/ pc[x] = "started" =>
          /\ resp[x] = NoAnswer(x[1])
          /\ x \notin handled
          /\ ran[x] = <<>>
    /\ pc[x] \in {"handling", "separate"} => resp[x] = Blank(x[1])
    /\ pc[x] = "answering" => resp[x].type \in {"absent", "none"}
    /\ ran[x] \in {<<>>, <<x[1]>>}
    /\ resp[x].of = x[1]
    /\ resp[x].type = "ACK" => resp[x].mid = x[1].mid
    /\ resp[x].type \in {"CON", "NON"} => NotAClients(resp[x].mid)

OwnAnswers == \A x \in Task : AnswerOK(x)

\* What is sent for a request is about that request, and bears its message ID
\* or one of the server's.
DatagramOK(m) ==
    /\ m.of = m.to
    /\ m.type = "ACK" => m.mid = m.to.mid
    /\ m.type # "ACK" => NotAClients(m.mid)

OwnDatagrams == \A m \in sent : DatagramOK(m)

\* The server has assigned one message ID to each response that is not an
\* acknowledgement.
Assigned == {x \in Task : resp[x].type \in {"CON", "NON"}}
MidsCounted == curMid = ServerMid(Cardinality(Assigned))

\* The transactions of one request have lives of their own, and the last one is
\* the one the tables remember.
Lives ==
    /\ \A x \in Task : Made(x) =>
          /\ epoch[x] <= drops[x[1]]
          /\ epoch[x] = drops[x[1]] => byToken[TokenKey(x[1])] = x
    /\ \A x, y \in Task :
          Made(x) /\ Made(y) /\ x[1] = y[1] /\ epoch[x] = epoch[y] => x = y

\* The copies of a request are received in the order of their numbers.
Arrivals ==
    \A t, u \in Task : t[1] = u[1] /\ t[2] < u[2] /\ pc[u] # "idle" => pc[t] # "idle"

\* Every life of a request has taken a copy of it.
LivesBegun(r) == drops[r] + (IF byToken[TokenKey(r)] = Nobody THEN 0 ELSE 1)
LivesCounted ==
    \A r \in Requests :
        /\ LivesBegun(r) <= Copies
        /\ \A t \in Task : t[1] = r /\ pc[t] = "idle" => LivesBegun(r) < t[2]

\* A message ID the server is about to assign is no client's.
FreshIsNoClients == \A x \in Task : FreshMid(x) => NotAClients(curMid)

-----------------------------------------------------------------------------
(* Tasks and tables *)

\* A request is looked up under its token, whichever table is asked.
LEMMA OriginalIsFiled ==
    ASSUME ClientsKeepRules, OwnTables, NEW r \in Requests
    PROVE  Original(r) = byToken[TokenKey(r)]
<1>1. CASE r.multicast
  BY <1>1 DEF Original
<1>2. CASE ~r.multicast
  BY <1>2 DEF Original, ClientsKeepRules, OwnTables
<1>3. QED
  BY <1>1, <1>2

\* No request joins the transaction of another, so nobody waits to join one.
LEMMA NobodyJoins ==
    ASSUME ClientsKeepRules, OwnTables, OwnTasks, NEW t \in Task
    PROVE  ~ReceiveKnownToken(t) /\ ~TokenGranted(t) /\ ~LockGranted(t)
<1>1. t[1] \in Requests
  BY DEF Task
<1>2. Original(t[1]) = byToken[TokenKey(t[1])]
  BY <1>1, OriginalIsFiled
<1>3. ~ReceiveKnownToken(t)
  BY <1>2 DEF ReceiveKnownToken, KnownToken
<1>4. QED
  BY <1>3 DEF TokenGranted, LockGranted, OwnTasks

\* A task that moves on, or starts to work on a transaction of its request.
LEMMA TasksFrame ==
    ASSUME TypeOK, OwnTasks, NEW t \in Task, NEW x \in Task, NEW s \in States,
           s \notin {"idle", "tokenWait", "lockWait"},
           pc' = [pc EXCEPT ![t] = s], req' = req,
           \/ pc[t] # "idle" /\ tx' = tx /\ x = tx[t]
           \/ /\ pc[t] = "idle" /\ tx' = [tx EXCEPT ![t] = x]
              /\ x[1] = t[1] /\ (Made(x) \/ x = t),
           Inside(t)' => x = t
    PROVE  /\ OwnTasks'
           /\ \A u \in Task : Made(u)' <=> (Made(u) \/ (u = t /\ x = t))
<1>1. pc \in [Task -> States] /\ tx \in [Task -> Task]
  BY DEF TypeOK
<1>2. /\ pc'[t] = s /\ tx'[t] = x
      /\ \A u \in Task \ {t} : pc'[u] = pc[u] /\ tx'[u] = tx[u]
  BY <1>1
<1>3. ASSUME NEW u \in Task PROVE Made(u)' <=> (Made(u) \/ (u = t /\ x = t))
  <2>1. CASE u # t
    BY <1>2, <2>1 DEF Made
  <2>2. CASE u = t /\ pc[t] = "idle"
    BY <1>2, <2>2 DEF Made
  <2>3. CASE u = t /\ pc[t] # "idle"
    BY <1>2, <2>3 DEF Made
  <2>4. QED
    BY <2>1, <2>2, <2>3
<1>4. Made(x)'
  <2>1. CASE pc[t] # "idle"
    BY <1>3, <2>1 DEF OwnTasks
  <2>2. CASE pc[t] = "idle"
    BY <1>3, <2>2
  <2>3. QED
    BY <2>1, <2>2
<1>5. x[1] = t[1]
  <2>1. tx[t][1] = t[1]
    BY DEF OwnTasks
  <2>2. QED
    BY <2>1
<1>6. ASSUME NEW u \in Task
      PROVE  /\ req'[u] = u
             /\ tx'[u][1] = u[1]
             /\ pc'[u] = "idle" => tx'[u] = u
             /\ (pc[u] # "idle" => Made(tx[u]))'
             /\ pc'[u] \notin {"tokenWait", "lockWait"}
             /\ Inside(u)' => tx'[u] = u
  <2>1. CASE u = t
    <3>1. Made(tx[u])'
      BY <1>2, <1>4, <2>1 DEF Made
    <3>2. QED
      BY <1>2, <1>5, <2>1, <3>1 DEF OwnTasks
  <2>2. CASE u # t
    <3>1. (pc[u] # "idle" => Made(tx[u]))'
      <4>1. tx[u] \in Task /\ tx'[u] = tx[u] /\ (pc'[u] # "idle" => Made(tx[u]))
        BY <1>1, <1>2, <2>2 DEF OwnTasks
      <4>2. Made(tx[u]) => pc'[tx[u]] # "idle" /\ tx'[tx[u]] = tx[u]
        BY <1>3, <4>1 DEF Made
      <4>3. QED
        BY <4>1, <4>2 DEF Made
    <3>2. QED
      BY <1>2, <2>2, <3>1 DEF OwnTasks, Inside
  <2>3. QED
    BY <2>1, <2>2
<1>7. OwnTasks'
  BY <1>6 DEF OwnTasks
<1>8. QED
  BY <1>3, <1>7

\* The tables keep what they say of the clients' requests.
LEMMA TablesFrame ==
    ASSUME TypeOK, OwnTables, byToken' = byToken,
           \A r \in Requests : ~r.multicast => byMid'[MidKey(r)] = byMid[MidKey(r)],
           \A u \in Task : Made(u) => Made(u)'
    PROVE  OwnTables'
<1>1. byToken \in [TokenKeys -> Task \cup {Nobody}]
  BY DEF TypeOK
<1>2. ASSUME NEW r \in Requests
      PROVE  /\ (byToken[TokenKey(r)] # Nobody =>
                    byToken[TokenKey(r)][1] = r /\ Made(byToken[TokenKey(r)]))'
             /\ (~r.multicast => byMid[MidKey(r)] = byToken[TokenKey(r)])'
  <2>1. byToken[TokenKey(r)] \in Task \cup {Nobody}
    BY <1>1, KeyTypes
  <2>2. byToken[TokenKey(r)] # Nobody =>
          Made(byToken[TokenKey(r)]) /\ pc'[byToken[TokenKey(r)]] # "idle"
          /\ tx'[byToken[TokenKey(r)]] = byToken[TokenKey(r)]
    BY <2>1 DEF OwnTables, Made
  <2>3. QED
    BY <2>2 DEF OwnTables, Made
<1>3. QED
  BY <1>2 DEF OwnTables

\* A transaction made for a request is filed under the keys of that request,
\* and under those of no other.
LEMMA NewIsFiled ==
    ASSUME ClientsKeepRules, TypeOK, OwnTables, NEW t \in Task, Made(t)',
           byToken' = [byToken EXCEPT ![TokenKey(t[1])] = t],
           byMid' = [byMid EXCEPT ![MidKey(t[1])] = t],
           \A u \in Task : Made(u) => Made(u)'
    PROVE  /\ OwnTables'
           /\ byToken'[TokenKey(t[1])] = t
           /\ \A r \in Requests \ {t[1]} : byToken'[TokenKey(r)] = byToken[TokenKey(r)]
<1>1. /\ byToken \in [TokenKeys -> Task \cup {Nobody}]
      /\ byMid \in [MidKeys -> Task \cup {Nobody}]
      /\ t[1] \in Requests
  BY DEF TypeOK, Task
<1>2. byToken'[TokenKey(t[1])] = t /\ byMid'[MidKey(t[1])] = t
  BY <1>1, KeyTypes
<1>3. ASSUME NEW r \in Requests, r # t[1]
      PROVE  /\ byToken'[TokenKey(r)] = byToken[TokenKey(r)]
             /\ ~r.multicast => byMid'[MidKey(r)] = byMid[MidKey(r)]
  <2>1. TokenKey(r) # TokenKey(t[1])
    BY <1>1, <1>3 DEF ClientsKeepRules
  <2>2. ~r.multicast => MidKey(r) # MidKey(t[1])
    <3>1. CASE ~t[1].multicast
      BY <1>1, <1>3, <3>1 DEF ClientsKeepRules
    <3>2. CASE t[1].multicast
      BY <1>1, <3>2, KeyTypes, ExchangeAssumption DEF MidKey, Origin
    <3>3. QED
      BY <3>1, <3>2
  <2>3. QED
    BY <1>1, <2>1, <2>2, KeyTypes
<1>4. ASSUME NEW r \in Requests
      PROVE  /\ (byToken[TokenKey(r)] # Nobody =>
                    byToken[TokenKey(r)][1] = r /\ Made(byToken[TokenKey(r)]))'
             /\ (~r.multicast => byMid[MidKey(r)] = byToken[TokenKey(r)])'
  <2>1. CASE r = t[1]
    <3>1. pc'[t] # "idle" /\ tx'[t] = t
      BY DEF Made
    <3>2. QED
      BY <1>2, <2>1, <3>1 DEF Made
  <2>2. CASE r # t[1]
    <3>1. byToken[TokenKey(r)] \in Task \cup {Nobody}
      BY <1>1, KeyTypes
    <3>2. byToken[TokenKey(r)] # Nobody =>
            Made(byToken[TokenKey(r)]) /\ pc'[byToken[TokenKey(r)]] # "idle"
            /\ tx'[byToken[TokenKey(r)]] = byToken[TokenKey(r)]
      BY <3>1 DEF OwnTables, Made
    <3>3. QED
      BY <1>3, <2>2, <3>2 DEF OwnTables, Made
  <2>3. QED
    BY <2>1, <2>2
<1>5. QED
  BY <1>2, <1>3, <1>4 DEF OwnTables

\* What a step does to the transactions: it makes one, it drops entries of the
\* tables, or it leaves them, their tokens and their lives alone.
Makes(t) ==
    /\ ReceiveNew(t) /\ ~Made(t)
    /\ \A u \in Task : Made(u)' <=> (Made(u) \/ u = t)

Drops == Purge /\ \A u \in Task : Made(u)' <=> Made(u)

Works ==
    /\ UNCHANGED <<byToken, epoch, drops>>
    /\ \A r \in Requests : ~r.multicast => byMid'[MidKey(r)] = byMid[MidKey(r)]
    /\ \A u \in Task : Made(u)' <=> Made(u)

\* Every step keeps transactions and their requests together.
LEMMA OwnStep ==
    ASSUME ClientsKeepRules, TypeOK, OwnTables, OwnTasks, FreshIsNoClients, [Next]_vars
    PROVE  OwnTables' /\ OwnTasks' /\ (Drops \/ Works \/ \E t \in Task : Makes(t))
<1> DEFINE Goal == OwnTables' /\ OwnTasks' /\ (Drops \/ Works \/ \E t \in Task : Makes(t))
<1>1. /\ pc \in [Task -> States] /\ tx \in [Task -> Task]
      /\ byMid \in [MidKeys -> Task \cup {Nobody}]
      /\ byToken \in [TokenKeys -> Task \cup {Nobody}]
      /\ \A t \in Task : t[1] \in Requests
  BY DEF TypeOK, Task
<1>2. ASSUME UNCHANGED <<byToken, epoch, drops>>, OwnTasks',
             \A r \in Requests : ~r.multicast => byMid'[MidKey(r)] = byMid[MidKey(r)],
             \A u \in Task : Made(u)' <=> Made(u)
      PROVE  Goal
  <2>1. OwnTables'
    BY <1>2, TablesFrame
  <2>2. QED
    BY <1>2, <2>1 DEF Works
<1>3. ASSUME UNCHANGED <<byMid, byToken, epoch, drops, pc, tx, req>> PROVE Goal
  <2>1. OwnTasks' /\ \A u \in Task : Made(u)' <=> Made(u)
    BY <1>3 DEF OwnTasks, Made, Inside
  <2>2. QED
    BY <1>2, <1>3, <2>1
<1>4. ASSUME NEW t \in Task, pc[t] # "idle", NEW s \in States,
             s \notin {"idle", "tokenWait", "lockWait"},
             pc' = [pc EXCEPT ![t] = s], Inside(t)' => tx[t] = t,
             UNCHANGED <<tx, req, byToken, epoch, drops>>,
             \A r \in Requests : ~r.multicast => byMid'[MidKey(r)] = byMid[MidKey(r)]
      PROVE  Goal
  <2>1. /\ OwnTasks'
        /\ \A u \in Task : Made(u)' <=> (Made(u) \/ (u = t /\ tx[t] = t))
    BY <1>1, <1>4, TasksFrame
  <2>2. \A u \in Task : Made(u)' <=> Made(u)
    BY <1>4, <2>1 DEF Made
  <2>3. QED
    BY <1>2, <1>4, <2>1, <2>2
<1>5. ASSUME NEW t \in Task, ReceiveDuplicate(t) PROVE Goal
  <2> DEFINE x == byToken[TokenKey(t[1])]
  <2>1. x = Original(t[1]) /\ pc[t] = "idle" /\ x # Nobody
    BY <1>1, <1>5, OriginalIsFiled DEF ReceiveDuplicate, Arrives
  <2>2. x \in Task /\ x[1] = t[1] /\ Made(x)
    BY <1>1, <2>1, KeyTypes DEF OwnTables
  <2>3. RepeatAnswer(t, x, req[x], lock[x])
    BY <1>5, <2>1 DEF ReceiveDuplicate
  <2>4. UNCHANGED <<byMid, byToken, req, epoch, drops>>
    BY <1>5 DEF ReceiveDuplicate, tables, history
  <2>5. PICK s \in {"done", "ackWait"} :
          pc' = [pc EXCEPT ![t] = s] /\ tx' = [tx EXCEPT ![t] = x]
    BY <2>3 DEF RepeatAnswer
  <2>6. s \in States /\ ~Inside(t)'
    BY <1>1, <2>5 DEF States, Inside
  <2>7. /\ OwnTasks'
        /\ \A u \in Task : Made(u)' <=> (Made(u) \/ (u = t /\ x = t))
    BY <2>1, <2>2, <2>4, <2>5, <2>6, TasksFrame
  <2>8. \A u \in Task : Made(u)' <=> Made(u)
    BY <2>1, <2>2, <2>7 DEF Made
  <2>9. QED
    BY <1>2, <2>4, <2>7, <2>8
<1>6. ASSUME NEW t \in Task, ReceiveNew(t) PROVE Goal
  <2>1. /\ pc[t] = "idle" /\ req' = req /\ pc' = [pc EXCEPT ![t] = "started"]
        /\ tx' = [tx EXCEPT ![t] = t]
        /\ byToken' = [byToken EXCEPT ![TokenKey(t[1])] = t]
        /\ byMid' = [byMid EXCEPT ![MidKey(t[1])] = t]
    BY <1>6 DEF ReceiveNew, Serve, Arrives
  <2>2. "started" \in States
    BY DEF States
  <2>3. OwnTasks' /\ \A u \in Task : Made(u)' <=> (Made(u) \/ (u = t /\ t = t))
    BY <2>1, <2>2, TasksFrame
  <2>4. OwnTables'
    BY <2>1, <2>3, NewIsFiled
  <2>5. Makes(t)
    BY <1>6, <2>1, <2>3 DEF Makes, Made
  <2>6. QED
    BY <2>3, <2>4, <2>5
<1>7. ASSUME NEW t \in Task,
             Start(t) \/ Return(t) \/ AnswerNothing(t) \/ SendDelayed(t)
      PROVE  Goal
  <2>1. /\ Inside(t) /\ UNCHANGED <<tx, req, byMid, byToken, epoch, drops>>
        /\ \E s \in States : /\ s \notin {"idle", "tokenWait", "lockWait"}
                             /\ pc' = [pc EXCEPT ![t] = s]
    BY <1>7 DEF Start, Return, AnswerNothing, SendDelayed, tables, history, Inside, States
  <2>2. pc[t] # "idle" /\ tx[t] = t
    BY <2>1 DEF OwnTasks, Inside
  <2>3. QED
    BY <1>4, <2>1, <2>2
<1>8. ASSUME NEW t \in Task, SendAnswer(t) PROVE Goal
  <2>1. /\ Inside(t) /\ UNCHANGED <<tx, req, byToken, epoch, drops>>
        /\ \E s \in States : /\ s \notin {"idle", "tokenWait", "lockWait"}
                             /\ pc' = [pc EXCEPT ![t] = s]
    BY <1>8 DEF SendAnswer, history, Inside, States
  <2>2. pc[t] # "idle" /\ tx[t] = t
    BY <2>1 DEF OwnTasks, Inside
  <2>3. \/ byMid' = byMid
        \/ /\ FreshMid(t)
           /\ byMid' = [byMid EXCEPT ![<<resp[t].of.src, curMid>>] = t]
    BY <1>8, <2>2 DEF SendAnswer
  <2>4. FreshMid(t) => \A r \in Requests : ~r.multicast => MidKey(r)[2] # curMid
    BY DEF FreshIsNoClients, NotAClients, MidKey
  <2>5. \A r \in Requests : ~r.multicast => byMid'[MidKey(r)] = byMid[MidKey(r)]
    BY <1>1, <2>3, <2>4, KeyTypes
  <2>6. QED
    BY <1>4, <2>1, <2>2, <2>5
<1>9. ASSUME NEW a \in Agent, AckGranted(a) PROVE Goal
  <2> DEFINE t == a[2]
  <2>1. t \in Task /\ Waiting(a) /\ UNCHANGED <<tx, req, byMid, byToken, epoch, drops>>
    BY <1>9 DEF AckGranted, tables, history, Agent
  <2>2. CASE a[1] = "task"
    <3>1. pc[t] = "ackWait" /\ pc' = [pc EXCEPT ![t] = "done"]
      BY <1>9, <2>1, <2>2 DEF AckGranted, Waiting
    <3>2. "done" \in States /\ ~Inside(t)'
      BY <1>1, <2>1, <3>1 DEF States, Inside
    <3>3. QED
      BY <1>4, <2>1, <3>1, <3>2
  <2>3. CASE a[1] = "separate"
    <3>1. pc[t] = "separate" /\ pc' = [pc EXCEPT ![t] = "handling"]
      BY <1>9, <2>1, <2>3 DEF AckGranted, Waiting
    <3>2. "handling" \in States /\ tx[t] = t
      BY <2>1, <3>1 DEF States, OwnTasks, Inside
    <3>3. QED
      BY <1>4, <2>1, <3>1, <3>2
  <2>4. CASE a[1] \notin {"task", "separate"}
    <3>1. pc' = [pc EXCEPT ![t] = pc[t]]
      BY <1>9, <2>4 DEF AckGranted
    <3>2. pc' = pc
      BY <1>1, <2>1, <3>1
    <3>3. QED
      BY <1>3, <2>1, <3>2
  <2>5. QED
    BY <2>2, <2>3, <2>4
<1>10. CASE \/ \E t \in Task : TimerFires(t) \/ ResetGranted(t)
            \/ \E m \in sent : ReceiveReset(m)
            \/ Tick \/ UNCHANGED vars
  <2>1. UNCHANGED <<byMid, byToken, epoch, drops, pc, tx, req>>
    BY <1>10 DEF TimerFires, ResetGranted, ReceiveReset, Tick, vars, tables, history
  <2>2. QED
    BY <1>3, <2>1
<1>11. CASE Purge
  <2>1. OwnTasks' /\ \A u \in Task : Made(u)' <=> Made(u)
    BY <1>11 DEF Purge, OwnTasks, Made, Inside
  <2>2. ASSUME NEW r \in Requests
        PROVE  /\ byToken'[TokenKey(r)] \in {byToken[TokenKey(r)], Nobody}
               /\ ~r.multicast => byMid'[MidKey(r)] = byToken'[TokenKey(r)]
    <3>1. byToken'[TokenKey(r)] = Kept(byToken[TokenKey(r)])
          /\ byMid'[MidKey(r)] = Kept(byMid[MidKey(r)])
      BY <1>11, KeyTypes DEF Purge
    <3>2. QED
      BY <3>1 DEF Kept, OwnTables
  <2>3. ASSUME NEW r \in Requests, byToken'[TokenKey(r)] # Nobody
        PROVE  /\ byToken'[TokenKey(r)] = byToken[TokenKey(r)]
               /\ byToken[TokenKey(r)][1] = r
               /\ Made(byToken[TokenKey(r)])
    BY <2>2, <2>3 DEF OwnTables
  <2>4. OwnTables'
    <3>1. pc' = pc /\ tx' = tx
      BY <1>11 DEF Purge
    <3>2. QED
      BY <2>2, <2>3, <3>1 DEF OwnTables, Made
  <2>5. QED
    BY <1>11, <2>1, <2>4 DEF Drops
<1>12. QED
  BY <1>5, <1>6, <1>7, <1>8, <1>9, <1>10, <1>11, NobodyJoins DEF Next, Receive, Run

-----------------------------------------------------------------------------
(* Answers and datagrams *)

\* A transaction whose response stays as it is, and whose task does not enter
\* a stage, is still in order.
LEMMA AnswerFrame ==
    ASSUME OwnAnswers, NEW x \in Task, Made(x)' <=> Made(x),
           resp'[x] = resp[x], ran'[x] = ran[x], x \in handled' <=> x \in handled,
           \/ pc'[x] = pc[x]
           \/ pc'[x] \notin {"started", "handling", "separate", "answering"}
           \/ pc[x] = "separate" /\ pc'[x] = "handling"
    PROVE  AnswerOK(x)'
<1>1. AnswerOK(x)
  BY DEF OwnAnswers
<1>2. \/ pc'[x] = pc[x]
      \/ pc'[x] \notin {"started", "handling", "separate", "answering"}
      \/ pc[x] = "separate" /\ pc'[x] = "handling"
  OBVIOUS
<1>3. (~Made(x) \/ pc[x] = "started")' => ~Made(x) \/ pc[x] = "started"
  BY <1>2
<1>4. (pc[x] \in {"handling", "separate"})' => pc[x] \in {"handling", "separate"}
  BY <1>2
<1>5. (pc[x] = "answering")' => pc[x] = "answering"
  BY <1>2
<1>6. QED
  BY <1>1, <1>3, <1>4, <1>5 DEF AnswerOK

\* The response of a transaction, sent for its request, is in order.
LEMMA SendingOwn ==
    ASSUME NEW a \in Answer, NEW r \in Requests, a.of = r,
           a.type = "ACK" => a.mid = r.mid,
           a.type \in {"CON", "NON"} => NotAClients(a.mid)
    PROVE  \A m \in Sending(a, r) : DatagramOK(m)
BY DEF Sending, DatagramOK

\* send_ack tells the client of a transaction of its own request only.
LEMMA AckBodyOwn ==
    ASSUME OwnDatagrams, NEW message, NEW x \in Task, NEW r \in Requests,
           x[1] = r, AckBody(x, message, x, r)
    PROVE  OwnDatagrams'
<1>1. \/ sent' = sent
      \/ sent' = sent \cup {[to |-> r, type |-> "ACK", mid |-> r.mid, of |-> r,
                             empty |-> TRUE]}
  BY DEF AckBody
<1>2. QED
  BY <1>1 DEF OwnDatagrams, DatagramOK

\* What a step does to the message IDs the server assigns.
Assigns ==
    \/ curMid' = curMid /\ Assigned' = Assigned
    \/ \E t \in Task : /\ FreshMid(t)
                       /\ Assigned' = Assigned \cup {t}
                       /\ curMid' = NextMid(curMid)

\* Every step keeps responses and datagrams in order.
LEMMA AnswersStep ==
    ASSUME ClientsKeepRules, TypeOK, OwnTables, OwnTasks, OwnAnswers, OwnDatagrams,
           FreshIsNoClients, [Next]_vars
    PROVE  OwnAnswers' /\ OwnDatagrams' /\ Assigns
<1> DEFINE Goal == OwnAnswers' /\ OwnDatagrams' /\ Assigns
<1>1. /\ pc \in [Task -> States] /\ tx \in [Task -> Task]
      /\ byToken \in [TokenKeys -> Task \cup {Nobody}]
      /\ resp \in [Task -> Answer] /\ ran \in [Task -> Seq(Requests)]
      /\ \A t \in Task : t[1] \in Requests
  BY DEF TypeOK, Task
<1>2. Drops \/ Works \/ \E t \in Task : Makes(t)
  BY OwnStep
<1>3. ASSUME UNCHANGED <<curMid, resp, handled, ran>>, OwnDatagrams',
             \A u \in Task : Made(u)' <=> Made(u),
             \A u \in Task :
                \/ pc'[u] = pc[u]
                \/ pc'[u] \notin {"started", "handling", "separate", "answering"}
                \/ pc[u] = "separate" /\ pc'[u] = "handling"
      PROVE  Goal
  <2>1. OwnAnswers'
    BY <1>3, AnswerFrame DEF OwnAnswers
  <2>2. QED
    BY <1>3, <2>1 DEF Assigns, Assigned
<1>4. ASSUME NEW t \in Task, ReceiveDuplicate(t) PROVE Goal
  <2> DEFINE x == byToken[TokenKey(t[1])]
  <2>1. x = Original(t[1]) /\ pc[t] = "idle" /\ x # Nobody
    BY <1>1, <1>4, OriginalIsFiled DEF ReceiveDuplicate, Arrives
  <2>2. x \in Task /\ x[1] = t[1] /\ Made(x) /\ req[x] = x
    <3>1. x \in Task
      BY <1>1, <2>1, KeyTypes
    <3>2. QED
      BY <1>1, <2>1, <3>1 DEF OwnTables, OwnTasks
  <2>3. RepeatAnswer(t, x, x, lock[x])
    BY <1>4, <2>1, <2>2 DEF ReceiveDuplicate
  <2>4. \A u \in Task : Made(u)' <=> Made(u)
    <3>1. /\ tx'[t] = x /\ x # t /\ pc'[t] # "idle"
          /\ \A u \in Task \ {t} : pc'[u] = pc[u] /\ tx'[u] = tx[u]
      BY <1>1, <2>1, <2>2, <2>3 DEF RepeatAnswer, Made
    <3>2. QED
      BY <2>1, <3>1 DEF Made
  <2>5. \A u \in Task : pc'[u] = pc[u] \/ pc'[u] \in {"done", "ackWait"}
    BY <1>1, <2>3 DEF RepeatAnswer
  <2>6. OwnDatagrams'
    <3>1. \/ sent' = sent \/ sent' = sent \cup Sending(resp[x], t[1])
          \/ AckBody(x, x, x, t[1])
      BY <2>3 DEF RepeatAnswer
    <3>2. \A m \in Sending(resp[x], t[1]) : DatagramOK(m)
      BY <1>1, <2>2, SendingOwn DEF OwnAnswers, AnswerOK
    <3>3. CASE AckBody(x, x, x, t[1])
      BY <1>1, <2>2, <3>3, AckBodyOwn
    <3>4. CASE sent' = sent \/ sent' = sent \cup Sending(resp[x], t[1])
      BY <3>2, <3>4 DEF OwnDatagrams, DatagramOK
    <3>5. QED
      BY <3>1, <3>3, <3>4
  <2>7. QED
    BY <1>3, <1>4, <2>4, <2>5, <2>6 DEF ReceiveDuplicate, tables, history
<1>5. ASSUME NEW t \in Task, ReceiveNew(t) PROVE Goal
  <2>1. /\ pc' = [pc EXCEPT ![t] = "started"] /\ pc[t] = "idle"
        /\ tx' = [tx EXCEPT ![t] = t]
        /\ UNCHANGED <<curMid, resp, handled, ran, sent>>
    BY <1>5 DEF ReceiveNew, Serve, Arrives
  <2>2. ~Made(t)
    BY <2>1 DEF Made
  <2>3. ASSUME NEW u \in Task PROVE AnswerOK(u)'
    <3>1. CASE u = t
      <4>1. AnswerOK(u)
        BY DEF OwnAnswers
      <4>2. pc'[u] = "started"
        BY <1>1, <2>1, <3>1
      <4>3. resp[u] = NoAnswer(u[1]) /\ u \notin handled /\ ran[u] = <<>>
        BY <2>2, <3>1, <4>1 DEF AnswerOK
      <4>4. QED
        BY <2>1, <4>1, <4>2, <4>3 DEF AnswerOK
    <3>2. CASE u # t
      <4>1. pc'[u] = pc[u] /\ tx'[u] = tx[u]
        BY <1>1, <2>1, <3>2
      <4>2. QED
        BY <2>1, <4>1, AnswerFrame DEF Made
    <3>3. QED
      BY <3>1, <3>2
  <2>4. QED
    BY <2>1, <2>3 DEF OwnAnswers, OwnDatagrams, DatagramOK, Assigns, Assigned
<1>6. ASSUME NEW t \in Task, Inside(t), NEW s \in States \ {"idle"},
             pc' = [pc EXCEPT ![t] = s], tx' = tx, sent' = sent, curMid' = curMid,
             NEW v \in Answer, resp' = [resp EXCEPT ![t] = v],
             v.type \in {"absent", "none"}, resp[t].type \notin {"CON", "NON"},
             \A u \in Task \ {t} : ran'[u] = ran[u] /\ (u \in handled' <=> u \in handled),
             AnswerOK(t)'
      PROVE  Goal
  <2>1. ASSUME NEW u \in Task, u # t PROVE AnswerOK(u)'
    BY <1>1, <1>6, <2>1, AnswerFrame DEF Made
  <2>2. OwnAnswers'
    BY <1>6, <2>1 DEF OwnAnswers
  <2>3. Assigned' = Assigned
    BY <1>1, <1>6 DEF Assigned
  <2>4. QED
    BY <1>6, <2>2, <2>3 DEF OwnDatagrams, DatagramOK, Assigns
<1>7. \A r \in Requests :
        /\ NoAnswer(r) \in Answer /\ NoAnswer(r).type = "absent" /\ NoAnswer(r).of = r
        /\ Blank(r) \in Answer /\ Blank(r).type = "none" /\ Blank(r).of = r
  <2>1. 0 \in Mids
    BY ExchangeAssumption DEF Mids
  <2>2. QED
    BY <2>1 DEF NoAnswer, Blank, Answer
<1>8. ASSUME NEW t \in Task, Start(t) PROVE Goal
  <2>1. tx[t] = t /\ req[t] = t /\ pc[t] = "started" /\ Inside(t) /\ AnswerOK(t) /\ Made(t)
    BY <1>8 DEF Start, OwnTasks, OwnAnswers, Inside, Made
  <2>2. resp[t] = NoAnswer(t[1]) /\ t \notin handled /\ ran[t] = <<>>
    BY <2>1 DEF AnswerOK
  <2>3. /\ tx' = tx /\ sent' = sent /\ curMid' = curMid
        /\ \/ /\ pc' = [pc EXCEPT ![t] = "answering"] /\ UNCHANGED <<handled, ran>>
              /\ \/ resp' = [resp EXCEPT ![t] = [Blank(t[1]) EXCEPT !.built = TRUE]]
                 \/ resp' = [resp EXCEPT ![t] = NoAnswer(t[1])]
           \/ /\ pc' = [pc EXCEPT ![t] = "handling"]
              /\ resp' = [resp EXCEPT ![t] = Blank(t[1])]
              /\ handled' = handled \cup {t}
              /\ ran' = [ran EXCEPT ![t] = Append(@, t[1])]
    BY <1>8, <2>1, <2>2 DEF Start, tables
  <2>4. Made(t)'
    BY <1>1, <2>1, <2>3 DEF Made
  <2>5. CASE /\ pc' = [pc EXCEPT ![t] = "answering"] /\ UNCHANGED <<handled, ran>>
             /\ resp' = [resp EXCEPT ![t] = [Blank(t[1]) EXCEPT !.built = TRUE]]
    <3> DEFINE v == [Blank(t[1]) EXCEPT !.built = TRUE]
    <3>1. v \in Answer /\ v.type = "none" /\ v.of = t[1] /\ "answering" \in States
      BY <1>1, <1>7 DEF Answer, States, Blank
    <3>2. resp'[t] = v /\ pc'[t] = "answering"
      BY <1>1, <2>5
    <3> HIDE DEF v
    <3>3. AnswerOK(t)'
      BY <2>2, <2>4, <2>5, <3>1, <3>2 DEF AnswerOK
    <3>4. resp' = [resp EXCEPT ![t] = v]
      BY <2>5 DEF v
    <3>5. QED
      BY <1>1, <1>6, <1>7, <2>1, <2>2, <2>3, <2>5, <3>1, <3>3, <3>4
  <2>6. CASE /\ pc' = [pc EXCEPT ![t] = "answering"] /\ UNCHANGED <<handled, ran>>
             /\ resp' = [resp EXCEPT ![t] = NoAnswer(t[1])]
    <3>1. resp'[t] = NoAnswer(t[1]) /\ pc'[t] = "answering" /\ "answering" \in States
      BY <1>1, <2>6 DEF States
    <3>2. AnswerOK(t)'
      BY <1>1, <1>7, <2>2, <2>4, <2>6, <3>1 DEF AnswerOK
    <3>3. QED
      BY <1>1, <1>6, <1>7, <2>1, <2>2, <2>3, <2>6, <3>1, <3>2
  <2>7. CASE /\ pc' = [pc EXCEPT ![t] = "handling"]
             /\ resp' = [resp EXCEPT ![t] = Blank(t[1])]
             /\ handled' = handled \cup {t}
             /\ ran' = [ran EXCEPT ![t] = Append(@, t[1])]
    <3>1. resp'[t] = Blank(t[1]) /\ pc'[t] = "handling" /\ "handling" \in States
          /\ ran'[t] = <<t[1]>>
      BY <1>1, <2>2, <2>7 DEF States
    <3>2. AnswerOK(t)'
      BY <1>1, <1>7, <2>4, <3>1 DEF AnswerOK
    <3>3. \A u \in Task \ {t} : ran'[u] = ran[u] /\ (u \in handled' <=> u \in handled)
      BY <1>1, <2>7
    <3>4. QED
      BY <1>1, <1>6, <1>7, <2>1, <2>2, <2>3, <2>7, <3>1, <3>2, <3>3
  <2>8. QED
    BY <2>3, <2>5, <2>6, <2>7
<1>9. ASSUME NEW t \in Task, Return(t) PROVE Goal
  <2>1. tx[t] = t /\ pc[t] = "handling" /\ Inside(t) /\ AnswerOK(t) /\ Made(t)
    BY <1>9 DEF Return, OwnTasks, OwnAnswers, Inside, Made
  <2>2. resp[t] = Blank(t[1])
    BY <2>1 DEF AnswerOK
  <2>3. /\ tx' = tx /\ sent' = sent /\ curMid' = curMid /\ UNCHANGED <<handled, ran>>
        /\ \/ /\ pc' = [pc EXCEPT ![t] = "answering"]
              /\ resp' = [resp EXCEPT ![t] = [resp[t] EXCEPT !.built = TRUE]]
           \/ /\ pc' = [pc EXCEPT ![t] = "answering"]
              /\ resp' = [resp EXCEPT ![t] = [resp[t] EXCEPT !.type = "absent"]]
           \/ /\ pc' = [pc EXCEPT ![t] = "dead"] /\ resp' = resp
           \/ /\ pc' = [pc EXCEPT ![t] = "separate"] /\ resp' = resp
    BY <1>9, <2>1 DEF Return, tables, history
  <2>4. Made(t)'
    BY <1>1, <2>1, <2>3 DEF Made
  <2>5. PICK v \in Answer, s \in {"answering", "dead", "separate"} :
          /\ resp' = [resp EXCEPT ![t] = v] /\ pc' = [pc EXCEPT ![t] = s]
          /\ v.type \in {"absent", "none"} /\ v.of = t[1]
          /\ s = "separate" => v = Blank(t[1])
    <3>1. resp[t] \in Answer /\ resp = [resp EXCEPT ![t] = resp[t]]
      BY <1>1
    <3>2. /\ [resp[t] EXCEPT !.built = TRUE] \in Answer
          /\ [resp[t] EXCEPT !.type = "absent"] \in Answer
      BY <3>1 DEF Answer
    <3>3. /\ [resp[t] EXCEPT !.built = TRUE].type = "none"
          /\ [resp[t] EXCEPT !.built = TRUE].of = t[1]
          /\ [resp[t] EXCEPT !.type = "absent"].type = "absent"
          /\ [resp[t] EXCEPT !.type = "absent"].of = t[1]
      BY <2>2 DEF Blank
    <3>4. QED
      BY <1>1, <1>7, <2>2, <2>3, <3>1, <3>2, <3>3
  <2>6. resp'[t] = v /\ pc'[t] = s /\ s \in States \ {"idle"}
    BY <1>1, <2>5 DEF States
  <2>7. AnswerOK(t)'
    BY <2>1, <2>3, <2>4, <2>5, <2>6 DEF AnswerOK
  <2>8. QED
    BY <1>1, <1>6, <1>7, <2>1, <2>2, <2>3, <2>5, <2>6, <2>7
<1>10. ASSUME NEW t \in Task, AnswerNothing(t) \/ SendDelayed(t) PROVE Goal
  <2>1. tx[t] = t /\ Made(t) /\ AnswerOK(t) /\ resp[t] \in Answer
    BY <1>1, <1>10 DEF AnswerNothing, SendDelayed, OwnTasks, OwnAnswers, Inside, Made
  <2>2. /\ tx' = tx /\ pc' = [pc EXCEPT ![t] = "done"]
        /\ UNCHANGED <<curMid, resp, handled, ran>>
        /\ sent' = sent \/ sent' = sent \cup Sending(resp[t], t[1])
    BY <1>10, <2>1 DEF AnswerNothing, SendDelayed, tables, history
  <2>3. OwnDatagrams'
    <3>1. \A m \in Sending(resp[t], t[1]) : DatagramOK(m)
      BY <1>1, <2>1, SendingOwn DEF AnswerOK
    <3>2. QED
      BY <2>2, <3>1 DEF OwnDatagrams, DatagramOK
  <2>4. \A u \in Task : /\ Made(u)' <=> Made(u)
                        /\ pc'[u] = pc[u] \/ pc'[u] = "done"
    BY <1>1, <2>1, <2>2 DEF Made
  <2>5. QED
    BY <1>3, <2>2, <2>3, <2>4
<1>11. ASSUME NEW t \in Task, SendAnswer(t) PROVE Goal
  <2>1. /\ tx[t] = t /\ req[t] = t /\ pc[t] = "answering" /\ Made(t) /\ AnswerOK(t)
        /\ resp[t] \in Answer /\ resp[t].type = "none" /\ t[1] \in Requests
    BY <1>1, <1>11 DEF SendAnswer, OwnTasks, OwnAnswers, AnswerOK, Inside, Made
  <2> DEFINE v == Typed(t)
  <2>2. /\ v \in Answer /\ v.of = t[1] /\ v.type \in {"ACK", "NON", "CON"}
        /\ v.type = "ACK" => v.mid = t[1].mid
        /\ v.type # "ACK" => v.mid = curMid /\ FreshMid(t)
    <3>1. t[1].mid \in Mids /\ curMid \in Mids /\ resp[t].of = t[1]
      BY <2>1, KeyTypes DEF TypeOK, AnswerOK
    <3>2. CASE t[1].type = "CON" /\ t \notin acked
      <4>1. v = [resp[t] EXCEPT !.type = "ACK", !.mid = t[1].mid]
        BY <2>1, <3>2 DEF Typed
      <4>2. QED
        BY <2>1, <3>1, <4>1 DEF Answer
    <3>3. CASE ~(t[1].type = "CON" /\ t \notin acked)
      <4>1. v = [resp[t] EXCEPT !.type = IF t[1].type = "NON" THEN "NON" ELSE "CON",
                                !.mid = curMid]
        BY <2>1, <3>3 DEF Typed
      <4>2. v.type \in {"NON", "CON"} /\ v.mid = curMid /\ v.of = t[1] /\ v \in Answer
        BY <2>1, <3>1, <4>1 DEF Answer
      <4>3. QED
        BY <2>1, <4>2 DEF FreshMid
    <3>4. QED
      BY <3>2, <3>3
  <2>3. v.type # "ACK" => NotAClients(v.mid)
    BY <2>2 DEF FreshIsNoClients
  <2>4. /\ tx' = tx /\ resp' = [resp EXCEPT ![t] = v] /\ UNCHANGED <<handled, ran>>
        /\ \E s \in {"delaying", "done"} : pc' = [pc EXCEPT ![t] = s]
        /\ sent' = sent \/ sent' = sent \cup Sending(v, t[1])
        /\ IF FreshMid(t) THEN curMid' = NextMid(curMid) ELSE curMid' = curMid
    BY <1>11, <2>1 DEF SendAnswer, history
  <2>5. FreshMid(t) <=> v.type # "ACK"
    BY <2>1 DEF FreshMid
  <2> HIDE DEF v
  <2>6. resp'[t] = v /\ pc'[t] \in {"delaying", "done"} /\ Made(t)'
    BY <1>1, <2>1, <2>4 DEF Made
  <2>7. ASSUME NEW u \in Task PROVE AnswerOK(u)'
    <3>1. CASE u = t
      BY <2>1, <2>2, <2>3, <2>4, <2>6, <3>1 DEF AnswerOK
    <3>2. CASE u # t
      BY <1>1, <2>4, <3>2, AnswerFrame DEF Made
    <3>3. QED
      BY <3>1, <3>2
  <2>8. OwnDatagrams'
    <3>1. \A m \in Sending(v, t[1]) : DatagramOK(m)
      BY <2>1, <2>2, <2>3, SendingOwn
    <3>2. QED
      BY <2>4, <3>1 DEF OwnDatagrams, DatagramOK
  <2>9. Assigns
    <3>1. CASE v.type = "ACK"
      <4>1. Assigned' = Assigned
        BY <1>1, <2>1, <2>4, <3>1 DEF Assigned
      <4>2. QED
        BY <2>4, <2>5, <3>1, <4>1 DEF Assigns
    <3>2. CASE v.type # "ACK"
      <4>1. Assigned' = Assigned \cup {t}
        BY <1>1, <2>2, <2>4, <3>2 DEF Assigned
      <4>2. QED
        BY <2>4, <2>5, <3>2, <4>1 DEF Assigns
    <3>3. QED
      BY <3>1, <3>2
  <2>10. QED
    BY <2>7, <2>8, <2>9 DEF OwnAnswers
<1>12. ASSUME NEW a \in Agent, AckGranted(a) PROVE Goal
  <2> DEFINE t == a[2]
             x == tx[t]
  <2>1. /\ t \in Task /\ x \in Task /\ x[1] = t[1] /\ req[x] = x /\ Waiting(a)
        /\ AckBody(x, ackFor[a], x, t[1])
        /\ tx' = tx /\ UNCHANGED <<curMid, resp, handled, ran>>
    BY <1>1, <1>12 DEF AckGranted, tables, history, Agent, OwnTasks
  <2>2. OwnDatagrams'
    BY <1>1, <2>1, AckBodyOwn
  <2>3. ASSUME NEW u \in Task
        PROVE  /\ Made(u)' <=> Made(u)
               /\ \/ pc'[u] = pc[u]
                  \/ pc'[u] \notin {"started", "handling", "separate", "answering"}
                  \/ pc[u] = "separate" /\ pc'[u] = "handling"
    <3>1. CASE a[1] = "task"
      <4>1. pc[t] = "ackWait" /\ pc' = [pc EXCEPT ![t] = "done"]
        BY <1>12, <2>1, <3>1 DEF AckGranted, Waiting
      <4>2. QED
        BY <1>1, <2>1, <4>1 DEF Made
    <3>2. CASE a[1] = "separate"
      <4>1. pc[t] = "separate" /\ pc' = [pc EXCEPT ![t] = "handling"]
        BY <1>12, <2>1, <3>2 DEF AckGranted, Waiting
      <4>2. QED
        BY <1>1, <2>1, <4>1 DEF Made
    <3>3. CASE a[1] \notin {"task", "separate"}
      <4>1. pc' = [pc EXCEPT ![t] = pc[t]]
        BY <1>12, <3>3 DEF AckGranted
      <4>2. QED
        BY <1>1, <2>1, <4>1 DEF Made
    <3>4. QED
      BY <3>1, <3>2, <3>3
  <2>4. QED
    BY <1>3, <2>1, <2>2, <2>3
<1>13. ASSUME NEW t \in Task, TimerFires(t) PROVE Goal
  <2> DEFINE x == tx[t]
  <2>1. /\ x \in Task /\ x[1] = t[1] /\ req[x] = x
        /\ AckBody(x, x, x, t[1]) \/ sent' = sent
        /\ UNCHANGED <<pc, tx, curMid, resp, handled, ran>>
    BY <1>1, <1>13 DEF TimerFires, tables, history, OwnTasks
  <2>2. OwnDatagrams'
    <3>1. CASE AckBody(x, x, x, t[1])
      BY <1>1, <2>1, <3>1, AckBodyOwn
    <3>2. CASE sent' = sent
      BY <3>2 DEF OwnDatagrams, DatagramOK
    <3>3. QED
      BY <2>1, <3>1, <3>2
  <2>3. QED
    BY <1>3, <2>1, <2>2 DEF Made
<1>14. CASE \/ \E t \in Task : ResetGranted(t)
            \/ \E m \in sent : ReceiveReset(m)
            \/ Purge \/ Tick \/ UNCHANGED vars
  <2>1. UNCHANGED <<pc, tx, curMid, resp, handled, ran, sent>>
    BY <1>14 DEF ResetGranted, ReceiveReset, Purge, Tick, vars, tables, history
  <2>2. OwnDatagrams'
    BY <2>1 DEF OwnDatagrams, DatagramOK
  <2>3. QED
    BY <1>3, <2>1, <2>2 DEF Made
<1>15. QED
  BY <1>4, <1>5, <1>8, <1>9, <1>10, <1>11, <1>12, <1>13, <1>14, NobodyJoins
     DEF Next, Receive, Run

-----------------------------------------------------------------------------
(* Message IDs *)

\* Division with remainder has one result.
LEMMA RemainderIs ==
    ASSUME NEW m \in Nat \ {0}, NEW q \in Nat, NEW s \in 0 .. (m - 1)
    PROVE  (m * q + s) % m = s
<1> DEFINE b == m * q + s
           p == b \div m
           v == b % m
<1>1. b \in Nat /\ p \in Nat /\ v \in 0 .. (m - 1) /\ b = m * p + v
  BY SMT
<1> HIDE DEF p, v
<1>2. m * (p - q) = s - v
  BY <1>1
<1>3. p - q >= 1 => m * (p - q) >= m
  BY <1>1
<1>4. p - q <= (-1) => m * (p - q) <= (-m)
  BY <1>1
<1>5. p = q
  BY <1>1, <1>2, <1>3, <1>4
<1>6. v = s
  BY <1>1, <1>5
<1>7. QED
  BY <1>6 DEF v

\* fetch_mid goes from one message ID of the server to the next.
LEMMA NextServerMid ==
    ASSUME NEW n \in Nat PROVE NextMid(ServerMid(n)) = ServerMid(n + 1)
<1> DEFINE a == FirstMid + n
           q == a \div MidSpace
           v == a % MidSpace
<1>1. /\ MidSpace \in Nat \ {0} /\ a \in Nat /\ a + 1 = FirstMid + (n + 1)
      /\ v \in 0 .. (MidSpace - 1) /\ q \in Nat /\ a = MidSpace * q + v
  BY ExchangeAssumption
<1> HIDE DEF a, q, v
<1>2. (v + 1) % MidSpace = (a + 1) % MidSpace
  <2>1. CASE v + 1 < MidSpace
    <3>1. /\ (MidSpace * 0 + (v + 1)) % MidSpace = v + 1
          /\ (MidSpace * q + (v + 1)) % MidSpace = v + 1
      BY <1>1, <2>1, RemainderIs
    <3>2. MidSpace * 0 + (v + 1) = v + 1 /\ a + 1 = MidSpace * q + (v + 1)
      BY <1>1
    <3>3. QED
      BY <3>1, <3>2
  <2>2. CASE v + 1 = MidSpace
    <3>1. /\ (MidSpace * 1 + 0) % MidSpace = 0
          /\ (MidSpace * (q + 1) + 0) % MidSpace = 0
      BY <1>1, RemainderIs
    <3>2. v + 1 = MidSpace * 1 + 0 /\ a + 1 = MidSpace * (q + 1) + 0
      BY <1>1, <2>2
    <3>3. QED
      BY <3>1, <3>2
  <2>3. QED
    BY <1>1, <2>1, <2>2
<1>3. QED
  BY <1>1, <1>2 DEF NextMid, ServerMid, v, a

\* There are finitely many deliveries, each the copy of a request with a number.
LEMMA Deliveries ==
    ASSUME ClientsKeepRules
    PROVE  /\ IsFiniteSet(Task) /\ Cardinality(Task) \in Nat
           /\ \A t \in Task : t[1] \in Requests /\ t[2] \in 1 .. Copies
                              /\ t = <<t[1], t[2]>>
<1>1. IsFiniteSet(1 .. Copies)
  BY FS_Interval, ExchangeAssumption
<1>2. IsFiniteSet(Task)
  BY <1>1, FS_Product DEF Task, ClientsKeepRules
<1>3. QED
  BY <1>2, FS_CardinalityType DEF Task

\* The server does not come to a client's message ID.
LEMMA FreshFromCount ==
    ASSUME ClientsKeepRules, TypeOK, MidsCounted PROVE FreshIsNoClients
<1> SUFFICES ASSUME NEW x \in Task, FreshMid(x) PROVE NotAClients(curMid)
  BY DEF FreshIsNoClients
<1>1. Assigned \subseteq Task /\ x \notin Assigned
  BY DEF Assigned, FreshMid
<1>2. IsFiniteSet(Assigned) /\ Cardinality(Assigned) \in Nat
  BY <1>1, Deliveries, FS_Subset, FS_CardinalityType
<1>3. Cardinality(Assigned \cup {x}) = Cardinality(Assigned) + 1
  BY <1>1, <1>2, FS_AddElement
<1>4. Cardinality(Assigned \cup {x}) <= Cardinality(Task)
  BY <1>1, Deliveries, FS_Subset
<1>5. Cardinality(Assigned) \in 0 .. (Cardinality(Task) - 1)
  BY <1>2, <1>3, <1>4, Deliveries
<1>6. QED
  BY <1>5 DEF MidsCounted, NotAClients, ClientsKeepRules

LEMMA CountStep ==
    ASSUME ClientsKeepRules, TypeOK, MidsCounted, Assigns PROVE MidsCounted'
<1>1. CASE curMid' = curMid /\ Assigned' = Assigned
  BY <1>1 DEF MidsCounted
<1>2. CASE \E t \in Task : /\ FreshMid(t)
                           /\ Assigned' = Assigned \cup {t}
                           /\ curMid' = NextMid(curMid)
  <2>1. PICK t \in Task : /\ FreshMid(t)
                          /\ Assigned' = Assigned \cup {t}
                          /\ curMid' = NextMid(curMid)
    BY <1>2
  <2>2. Assigned \subseteq Task /\ t \notin Assigned
    BY <2>1 DEF Assigned, FreshMid
  <2>3. IsFiniteSet(Assigned) /\ Cardinality(Assigned) \in Nat
    BY <2>2, Deliveries, FS_Subset, FS_CardinalityType
  <2>4. Cardinality(Assigned') = Cardinality(Assigned) + 1
    BY <2>1, <2>2, <2>3, FS_AddElement
  <2>5. QED
    BY <2>1, <2>3, <2>4, NextServerMid DEF MidsCounted
<1>3. QED
  BY <1>1, <1>2 DEF Assigns

-----------------------------------------------------------------------------
(* Lives *)

\* What the tables remember, and what a request is looked up under.
LEMMA RememberedIsFiled ==
    OwnTables => \A r \in Requests : Remembered(r) <=> byToken[TokenKey(r)] # Nobody
BY DEF OwnTables, Remembered

\* A purge ends the life of a request that it drops from the tables, and no other.
LEMMA PurgeEndsLives ==
    ASSUME TypeOK, OwnTables, OwnTables', Purge, NEW r \in Requests
    PROVE  \/ byToken'[TokenKey(r)] = byToken[TokenKey(r)] /\ drops'[r] = drops[r]
           \/ /\ byToken[TokenKey(r)] # Nobody /\ byToken'[TokenKey(r)] = Nobody
              /\ drops'[r] = drops[r] + 1
<1>1. Remembered(r) <=> byToken[TokenKey(r)] # Nobody
  BY RememberedIsFiled
<1>2. Remembered(r)' <=> byToken'[TokenKey(r)] # Nobody
  BY DEF OwnTables, Remembered
<1>3. byToken'[TokenKey(r)] = Kept(byToken[TokenKey(r)])
  BY KeyTypes DEF Purge
<1>4. byToken'[TokenKey(r)] \in {byToken[TokenKey(r)], Nobody}
  BY <1>3 DEF Kept
<1>5. drops'[r] = IF Remembered(r) /\ ~Remembered(r)' THEN drops[r] + 1 ELSE drops[r]
  BY DEF Purge
<1>6. QED
  BY <1>1, <1>2, <1>4, <1>5

\* A transaction is made for a request that is not remembered, in its next life.
LEMMA NewLife ==
    ASSUME ClientsKeepRules, TypeOK, OwnTables, NEW t \in Task, Makes(t)
    PROVE  /\ byToken[TokenKey(t[1])] = Nobody /\ byToken'[TokenKey(t[1])] = t
           /\ \A r \in Requests \ {t[1]} : byToken'[TokenKey(r)] = byToken[TokenKey(r)]
           /\ drops' = drops /\ epoch'[t] = drops[t[1]]
           /\ \A u \in Task \ {t} : epoch'[u] = epoch[u]
           /\ pc[t] = "idle" /\ pc' = [pc EXCEPT ![t] = "started"] /\ Arrives(t)
<1>1. t[1] \in Requests /\ epoch \in [Task -> Nat]
  BY DEF Task, TypeOK
<1>2. ReceiveNew(t)
  BY DEF Makes
<1>3. byToken[TokenKey(t[1])] = Nobody
  BY <1>1, <1>2, OriginalIsFiled DEF ReceiveNew
<1>4. /\ byToken' = [byToken EXCEPT ![TokenKey(t[1])] = t]
      /\ byMid' = [byMid EXCEPT ![MidKey(t[1])] = t]
      /\ epoch' = [epoch EXCEPT ![t] = drops[t[1]]] /\ drops' = drops
      /\ pc' = [pc EXCEPT ![t] = "started"] /\ Arrives(t) /\ pc[t] = "idle"
  BY <1>2 DEF ReceiveNew, Serve, Arrives
<1>5. \A u \in Task : Made(u)' <=> (Made(u) \/ u = t)
  BY DEF Makes
<1>6. /\ byToken'[TokenKey(t[1])] = t
      /\ \A r \in Requests \ {t[1]} : byToken'[TokenKey(r)] = byToken[TokenKey(r)]
  BY <1>4, <1>5, NewIsFiled
<1>7. epoch'[t] = drops[t[1]] /\ \A u \in Task \ {t} : epoch'[u] = epoch[u]
  BY <1>1, <1>4
<1>8. QED
  BY <1>3, <1>4, <1>6, <1>7

LEMMA LivesStep ==
    ASSUME ClientsKeepRules, TypeOK, OwnTables, OwnTables', Lives,
           Drops \/ Works \/ \E t \in Task : Makes(t)
    PROVE  Lives'
<1>1. /\ epoch \in [Task -> Nat] /\ drops \in [Requests -> Nat]
      /\ \A t \in Task : t[1] \in Requests
  BY DEF TypeOK, Task
<1>2. CASE Works
  BY <1>2 DEF Works, Lives
<1>3. CASE Drops
  <2>1. Purge /\ epoch' = epoch /\ \A u \in Task : Made(u)' <=> Made(u)
    BY <1>3 DEF Drops, Purge
  <2>2. ASSUME NEW x \in Task, Made(x)
        PROVE  /\ epoch[x] <= drops'[x[1]]
               /\ epoch[x] = drops'[x[1]] => byToken'[TokenKey(x[1])] = x
    <3>1. /\ epoch[x] <= drops[x[1]]
          /\ epoch[x] = drops[x[1]] => byToken[TokenKey(x[1])] = x
      BY <2>2 DEF Lives
    <3>2. epoch[x] \in Nat /\ drops[x[1]] \in Nat
      BY <1>1
    <3>3. QED
      BY <1>1, <2>1, <3>1, <3>2, PurgeEndsLives
  <2>3. QED
    BY <2>1, <2>2 DEF Lives
<1>4. ASSUME NEW t \in Task, Makes(t) PROVE Lives'
  <2>1. /\ byToken[TokenKey(t[1])] = Nobody /\ byToken'[TokenKey(t[1])] = t
        /\ \A r \in Requests \ {t[1]} : byToken'[TokenKey(r)] = byToken[TokenKey(r)]
        /\ drops' = drops /\ epoch'[t] = drops[t[1]]
        /\ \A u \in Task \ {t} : epoch'[u] = epoch[u]
    BY <1>4, NewLife
  <2>2. \A u \in Task : Made(u)' => Made(u) \/ u = t
    BY <1>4 DEF Makes
  <2>3. Nobody \notin Task
    BY ExchangeAssumption
  <2>4. ASSUME NEW x \in Task, x # t, Made(x)
        PROVE  /\ epoch'[x] <= drops'[x[1]]
               /\ epoch'[x] = drops'[x[1]] => byToken'[TokenKey(x[1])] = x
               /\ x[1] = t[1] => epoch'[x] < epoch'[t]
    <3>1. /\ epoch[x] <= drops[x[1]]
          /\ epoch[x] = drops[x[1]] => byToken[TokenKey(x[1])] = x
      BY <2>4 DEF Lives
    <3>2. x[1] = t[1] => epoch[x] # drops[x[1]]
      BY <2>1, <2>3, <3>1
    <3>3. epoch[x] \in Nat /\ drops[x[1]] \in Nat
      BY <1>1
    <3>4. QED
      BY <1>1, <2>1, <2>4, <3>1, <3>2, <3>3
  <2>5. ASSUME NEW x \in Task, Made(x)'
        PROVE  /\ epoch'[x] <= drops'[x[1]]
               /\ epoch'[x] = drops'[x[1]] => byToken'[TokenKey(x[1])] = x
    BY <1>1, <2>1, <2>2, <2>4, <2>5
  <2>6. ASSUME NEW x \in Task, NEW y \in Task, Made(x)', Made(y)', x[1] = y[1],
               epoch'[x] = epoch'[y]
        PROVE  x = y
    <3>1. CASE x # t /\ y # t
      BY <2>1, <2>2, <2>6, <3>1 DEF Lives
    <3>2. CASE x = t /\ y # t
      <4>1. epoch'[y] < epoch'[t] /\ epoch'[y] \in Nat
        BY <1>1, <2>1, <2>2, <2>4, <2>6, <3>2
      <4>2. QED
        BY <2>6, <3>2, <4>1
    <3>3. CASE x # t /\ y = t
      <4>1. epoch'[x] < epoch'[t] /\ epoch'[x] \in Nat
        BY <1>1, <2>1, <2>2, <2>4, <2>6, <3>3
      <4>2. QED
        BY <2>6, <3>3, <4>1
    <3>4. QED
      BY <3>1, <3>2, <3>3
  <2>7. QED
    BY <2>5, <2>6 DEF Lives
<1>5. QED
  BY <1>2, <1>3, <1>4

\* A task leaves "idle" by receiving its delivery, and never returns to it.
LEMMA TasksArrive ==
    ASSUME ClientsKeepRules, TypeOK, OwnTables, OwnTasks, [Next]_vars, NEW u \in Task
    PROVE  /\ pc[u] # "idle" => pc'[u] # "idle"
           /\ pc[u] = "idle" /\ pc'[u] # "idle" => ReceiveNew(u) \/ ReceiveDuplicate(u)
<1> DEFINE Goal == /\ pc[u] # "idle" => pc'[u] # "idle"
                   /\ pc[u] = "idle" /\ pc'[u] # "idle" =>
                         ReceiveNew(u) \/ ReceiveDuplicate(u)
<1>1. pc \in [Task -> States]
  BY DEF TypeOK
<1>2. ASSUME NEW t \in Task, NEW s, s # "idle", pc' = [pc EXCEPT ![t] = s],
             pc[t] # "idle" \/ ReceiveNew(t) \/ ReceiveDuplicate(t)
      PROVE  Goal
  BY <1>1, <1>2
<1>3. ASSUME NEW t \in Task, ReceiveDuplicate(t) \/ ReceiveNew(t) PROVE Goal
  <2>1. \E s \in {"done", "ackWait", "started"} : pc' = [pc EXCEPT ![t] = s]
    BY <1>3 DEF ReceiveDuplicate, RepeatAnswer, ReceiveNew, Serve
  <2>2. QED
    BY <1>2, <1>3, <2>1
<1>4. ASSUME NEW t \in Task,
             \/ Start(t) \/ Return(t) \/ AnswerNothing(t) \/ SendAnswer(t)
             \/ SendDelayed(t)
      PROVE  Goal
  <2>1. /\ pc[t] # "idle"
        /\ \E s \in States : s # "idle" /\ pc' = [pc EXCEPT ![t] = s]
    BY <1>4 DEF Start, Return, AnswerNothing, SendAnswer, SendDelayed, States
  <2>2. QED
    BY <1>2, <2>1
<1>5. ASSUME NEW a \in Agent, AckGranted(a) PROVE Goal
  <2>1. a[2] \in Task
    BY DEF Agent
  <2>2. \/ /\ pc[a[2]] # "idle"
           /\ \E s \in {"done", "handling"} : pc' = [pc EXCEPT ![a[2]] = s]
        \/ pc' = [pc EXCEPT ![a[2]] = pc[a[2]]]
    BY <1>5 DEF AckGranted, Waiting
  <2>3. QED
    BY <1>1, <1>2, <2>1, <2>2
<1>6. CASE \/ \E t \in Task : TimerFires(t) \/ ResetGranted(t)
           \/ \E m \in sent : ReceiveReset(m)
           \/ Purge \/ Tick \/ UNCHANGED vars
  BY <1>6 DEF TimerFires, ResetGranted, ReceiveReset, Purge, Tick, vars
<1>7. QED
  BY <1>3, <1>4, <1>5, <1>6, NobodyJoins DEF Next, Receive, Run

\* The first copy of a request makes the transaction it works on: of what
\* FirstCopyIsServed allows besides, nothing happens to these clients.
FirstCopyOwns ==
    \A r \in Requests : Copies > 0 /\ pc[<<r, 1>>] # "idle" => tx[<<r, 1>>] = <<r, 1>>

\* A copy is received after those with a smaller number, and the first one
\* makes a transaction.
LEMMA ArrivalsStep ==
    ASSUME ClientsKeepRules, TypeOK, OwnTables, OwnTasks, FreshIsNoClients,
           Arrivals, FirstCopyOwns, [Next]_vars
    PROVE  Arrivals' /\ FirstCopyOwns'
<1>1. ASSUME NEW u \in Task, pc[u] = "idle", pc'[u] # "idle",
             NEW t \in Task, t[1] = u[1], t[2] < u[2]
      PROVE  pc[t] # "idle"
  <2> DEFINE w == <<u[1], u[2] - 1>>
  <2>1. Arrives(u)
    BY <1>1, TasksArrive DEF ReceiveNew, ReceiveDuplicate
  <2>2. /\ t[2] \in 1 .. Copies /\ u[2] \in 1 .. Copies /\ t = <<t[1], t[2]>>
        /\ Copies \in Nat
    BY Deliveries, ExchangeAssumption
  <2>3. w \in Task /\ pc[w] # "idle"
    BY <1>1, <2>1, <2>2 DEF Arrives, Task
  <2>4. CASE t[2] = u[2] - 1
    BY <1>1, <2>2, <2>3, <2>4
  <2>5. CASE t[2] < u[2] - 1
    <3>1. w[1] = t[1] /\ t[2] < w[2]
      BY <1>1, <2>5
    <3>2. QED
      BY <2>3, <3>1 DEF Arrivals
  <2>6. QED
    BY <1>1, <2>2, <2>4, <2>5
<1>2. Arrivals'
  <2> SUFFICES ASSUME NEW t \in Task, NEW u \in Task, t[1] = u[1], t[2] < u[2],
                      pc'[u] # "idle"
               PROVE  pc'[t] # "idle"
    BY DEF Arrivals
  <2>1. pc[t] # "idle"
    BY <1>1 DEF Arrivals
  <2>2. QED
    BY <2>1, TasksArrive
<1>3. FirstCopyOwns'
  <2> SUFFICES ASSUME NEW r \in Requests, Copies > 0, pc'[<<r, 1>>] # "idle"
               PROVE  tx'[<<r, 1>>] = <<r, 1>>
    BY DEF FirstCopyOwns
  <2> DEFINE u == <<r, 1>>
  <2>1. u \in Task /\ u[1] = r /\ u[2] = 1
    BY ExchangeAssumption DEF Task
  <2>2. Drops \/ Works \/ \E t \in Task : Makes(t)
    BY OwnStep
  <2>3. CASE pc[u] # "idle"
    <3>1. Made(u)
      BY <2>3 DEF FirstCopyOwns, Made
    <3>2. Made(u)'
      BY <2>1, <2>2, <3>1 DEF Drops, Works, Makes
    <3>3. QED
      BY <3>2 DEF Made
  <2>4. CASE pc[u] = "idle" /\ ReceiveNew(u)
    BY <2>1, <2>4 DEF ReceiveNew, Serve, TypeOK
  <2>5. CASE pc[u] = "idle" /\ ReceiveDuplicate(u)
    <3> DEFINE x == byToken[TokenKey(r)]
    <3>1. x = Original(r) /\ x # Nobody
      BY <2>1, <2>5, OriginalIsFiled DEF ReceiveDuplicate
    <3>2. x \in Task /\ x[1] = r /\ Made(x)
      <4>1. x \in Task
        BY <3>1, KeyTypes DEF TypeOK
      <4>2. QED
        BY <3>1, <4>1 DEF OwnTables
    <3>3. x # u /\ pc[x] # "idle"
      BY <2>5, <3>2 DEF Made
    <3>4. x[2] \in 1 .. Copies /\ x = <<x[1], x[2]>>
      BY <3>2, Deliveries
    <3>5. x[2] > 1
      BY <3>2, <3>3, <3>4
    <3>6. QED
      BY <2>1, <2>5, <3>2, <3>3, <3>5 DEF Arrivals
  <2>6. QED
    BY <2>1, <2>3, <2>4, <2>5, TasksArrive
<1>4. QED
  BY <1>2, <1>3

LEMMA LivesCountedStep ==
    ASSUME ClientsKeepRules, TypeOK, OwnTables, OwnTables', OwnTasks, LivesCounted,
           Arrivals', [Next]_vars, Drops \/ Works \/ \E t \in Task : Makes(t)
    PROVE  LivesCounted'
<1>1. drops \in [Requests -> Nat] /\ Copies \in Nat
  BY ExchangeAssumption DEF TypeOK
<1>2. \A u \in Task : pc'[u] = "idle" => pc[u] = "idle"
  BY TasksArrive
<1>3. \A r \in Requests : LivesBegun(r) \in Nat
  BY <1>1 DEF LivesBegun
<1>4. CASE Works
  <2>1. byToken' = byToken /\ drops' = drops
    BY <1>4 DEF Works
  <2>2. QED
    BY <1>2, <2>1 DEF LivesCounted, LivesBegun
<1>5. CASE Drops
  <2>1. ASSUME NEW r \in Requests PROVE LivesBegun(r)' = LivesBegun(r)
    BY <1>1, <1>5, PurgeEndsLives DEF Drops, LivesBegun
  <2>2. QED
    BY <1>2, <2>1 DEF LivesCounted
<1>6. ASSUME NEW t \in Task, Makes(t) PROVE LivesCounted'
  <2>1. /\ byToken[TokenKey(t[1])] = Nobody /\ byToken'[TokenKey(t[1])] = t
        /\ \A r \in Requests \ {t[1]} : byToken'[TokenKey(r)] = byToken[TokenKey(r)]
        /\ drops' = drops /\ pc[t] = "idle" /\ pc' = [pc EXCEPT ![t] = "started"]
    BY <1>6, NewLife
  <2>2. pc'[t] = "started" /\ t[1] \in Requests /\ t[2] \in 1 .. Copies /\ t # Nobody
    BY <2>1, Deliveries, ExchangeAssumption DEF TypeOK
  <2>3. LivesBegun(t[1])' = LivesBegun(t[1]) + 1 /\ LivesBegun(t[1]) < t[2]
    BY <1>1, <2>1, <2>2 DEF LivesBegun, LivesCounted
  <2>4. \A r \in Requests \ {t[1]} : LivesBegun(r)' = LivesBegun(r)
    BY <2>1 DEF LivesBegun
  <2>5. ASSUME NEW u \in Task, u[1] = t[1], pc'[u] = "idle"
        PROVE  LivesBegun(t[1])' < u[2]
    <3>1. u[2] \in 1 .. Copies /\ u = <<u[1], u[2]>> /\ t = <<t[1], t[2]>>
      BY Deliveries
    <3>2. u # t
      BY <2>2, <2>5
    <3>3. ~(u[2] < t[2])
      BY <2>2, <2>5 DEF Arrivals
    <3>4. t[2] < u[2]
      BY <2>2, <2>5, <3>1, <3>2, <3>3
    <3>5. QED
      BY <1>3, <2>2, <2>3, <3>1, <3>4
  <2>6. ASSUME NEW r \in Requests
        PROVE  /\ LivesBegun(r)' <= Copies
               /\ \A u \in Task : u[1] = r /\ pc'[u] = "idle" => LivesBegun(r)' < u[2]
    <3>1. CASE r = t[1]
      BY <1>1, <1>3, <2>2, <2>3, <2>5, <3>1
    <3>2. CASE r # t[1]
      BY <1>2, <2>4, <3>2 DEF LivesCounted
    <3>3. QED
      BY <3>1, <3>2
  <2>7. QED
    BY <2>6 DEF LivesCounted
<1>7. QED
  BY <1>4, <1>5, <1>6

-----------------------------------------------------------------------------
(* Acknowledgements *)

\* No handler leaves its request without a response, and no option or method
\* makes the request layer do so.
AlwaysAnswered == Outcomes \cap {"silent", "unsupported"} = {}

\* The request of transaction x has been acknowledged on the wire.
Told(x) == \E m \in sent : /\ m.type = "ACK"
                           /\ m.of.src = x[1].src /\ m.mid = x[1].mid

\* A transaction of a confirmable request is marked as acknowledged or
\* completed, rejected by its client, or answered with a message of its own,
\* only after that acknowledgement.
OnWire(x) ==
    /\ pc[x] = "answering" => resp[x].built /\ resp[x].type = "none"
    /\ resp[x].type = "NON" => x[1].type = "NON"
    /\ /\ x[1].type = "CON"
       /\ \/ x \in acked \/ x \in completed
          \/ resp[x].type = "CON" \/ reset[x] = "waiting"
       => Told(x)

AckedOnWire == \A x \in Task : OnWire(x)

\* A message ID leads to the transaction of the request that bears it, or to
\* one the server has assigned it to.
MidEntries ==
    \A k \in MidKeys : byMid[k] # Nobody =>
        k = MidKey(byMid[k][1]) \/ byMid[k] \in Assigned

LEMMA ToldStays ==
    ASSUME NEW x \in Task, sent \subseteq sent', Told(x) PROVE Told(x)'
BY DEF Told

\* A transaction that has not been touched, or has been acknowledged just now.
LEMMA WireFrame ==
    ASSUME NEW x \in Task, OnWire(x), sent \subseteq sent', resp'[x] = resp[x],
           pc'[x] = "answering" => pc[x] = "answering",
           x[1].type = "CON" =>
              /\ x \in acked' => x \in acked \/ Told(x)'
              /\ x \in completed' => x \in completed \/ Told(x)'
              /\ reset'[x] = "waiting" => reset[x] = "waiting" \/ Told(x)'
    PROVE  OnWire(x)'
<1>1. /\ x[1].type = "CON"
      /\ \/ x \in acked' \/ x \in completed'
         \/ resp'[x].type = "CON" \/ reset'[x] = "waiting"
      => Told(x)'
  BY ToldStays DEF OnWire
<1>2. QED
  BY <1>1 DEF OnWire

\* send_ack marks a transaction as acknowledged when it acknowledges it.
LEMMA AckBodyTells ==
    ASSUME NEW message, NEW x \in Task, AckBody(x, message, x, x[1])
    PROVE  /\ sent \subseteq sent'
           /\ \A u \in Task : u \in acked' => u \in acked \/ Told(u)'
           /\ \A u \in Task : u \in completed' => u \in completed \/ Told(u)'
<1>1. CASE UNCHANGED <<acked, completed, sent>>
  BY <1>1
<1>2. CASE ~UNCHANGED <<acked, completed, sent>>
  <2> DEFINE d == [to |-> x[1], type |-> "ACK", mid |-> x[1].mid, of |-> x[1],
                   empty |-> TRUE]
  <2>1. /\ acked' = acked \cup {x} /\ completed' = completed \cup {x}
        /\ sent' = sent \cup {d}
    BY <1>2 DEF AckBody
  <2>2. d.type = "ACK" /\ d.of.src = x[1].src /\ d.mid = x[1].mid
    OBVIOUS
  <2> HIDE DEF d
  <2>3. Told(x)'
    BY <2>1, <2>2 DEF Told
  <2>4. QED
    BY <2>1, <2>3
<1>3. QED
  BY <1>1, <1>2

LEMMA MidEntriesStep ==
    ASSUME ClientsKeepRules, TypeOK, OwnTables, OwnTasks, MidEntries, Assigns, [Next]_vars
    PROVE  MidEntries'
<1>1. /\ byMid \in [MidKeys -> Task \cup {Nobody}] /\ resp \in [Task -> Answer]
      /\ Assigned \subseteq Assigned' /\ \A t \in Task : t[1] \in Requests
  BY DEF TypeOK, Task, Assigns
<1>2. ASSUME \A k \in MidKeys : byMid'[k] \in {byMid[k], Nobody} PROVE MidEntries'
  <2>1. ASSUME NEW k \in MidKeys, byMid'[k] # Nobody
        PROVE  k = MidKey(byMid[k][1])' \/ byMid'[k] \in Assigned'
    BY <1>1, <1>2, <2>1 DEF MidEntries
  <2>2. QED
    BY <2>1 DEF MidEntries
<1>3. ASSUME NEW t \in Task, ReceiveNew(t) PROVE MidEntries'
  <2>1. byMid' = [byMid EXCEPT ![MidKey(t[1])] = t]
    BY <1>3 DEF ReceiveNew
  <2>2. ASSUME NEW k \in MidKeys, byMid'[k] # Nobody
        PROVE  k = MidKey(byMid[k][1])' \/ byMid'[k] \in Assigned'
    BY <1>1, <2>1, <2>2, KeyTypes DEF MidEntries
  <2>3. QED
    BY <2>2 DEF MidEntries
<1>4. ASSUME NEW t \in Task, SendAnswer(t) PROVE MidEntries'
  <2>1. tx[t] = t /\ req[t] = t
    BY <1>4 DEF SendAnswer, OwnTasks, Inside
  <2>2. \/ byMid' = byMid
        \/ /\ FreshMid(t)
           /\ byMid' = [byMid EXCEPT ![<<resp[t].of.src, curMid>>] = t]
    BY <1>4, <2>1 DEF SendAnswer
  <2>3. FreshMid(t) => t \in Assigned'
    <3>1. FreshMid(t) => Typed(t).type \in {"CON", "NON"}
      <4>1. resp[t] = [resp[t] EXCEPT !.type = resp[t].type] /\ resp[t] \in Answer
        BY <1>1 DEF Answer
      <4>2. QED
        BY <4>1 DEF FreshMid, Typed, Answer
    <3>2. resp'[t] = Typed(t)
      BY <1>1, <1>4, <2>1 DEF SendAnswer
    <3>3. QED
      BY <3>1, <3>2 DEF Assigned
  <2>4. ASSUME NEW k \in MidKeys, byMid'[k] # Nobody
        PROVE  k = MidKey(byMid[k][1])' \/ byMid'[k] \in Assigned'
    <3>1. byMid'[k] = byMid[k] \/ (FreshMid(t) /\ byMid'[k] = t)
      BY <1>1, <2>2
    <3>2. QED
      BY <1>1, <2>3, <2>4, <3>1 DEF MidEntries
  <2>5. QED
    BY <2>4 DEF MidEntries
<1>5. CASE Purge
  <2>1. \A k \in MidKeys : byMid'[k] = Kept(byMid[k])
    BY <1>5 DEF Purge
  <2>2. QED
    BY <1>2, <2>1 DEF Kept
<1>6. CASE \/ \E t \in Task : \/ ReceiveDuplicate(t) \/ Start(t) \/ Return(t)
                              \/ AnswerNothing(t) \/ SendDelayed(t)
                              \/ TimerFires(t) \/ ResetGranted(t)
           \/ \E a \in Agent : AckGranted(a)
           \/ \E m \in sent : ReceiveReset(m)
           \/ Tick \/ UNCHANGED vars
  <2>1. byMid' = byMid
    BY <1>6 DEF ReceiveDuplicate, Start, Return, AnswerNothing, SendDelayed,
                TimerFires, ResetGranted, AckGranted, ReceiveReset, Tick, vars, tables
  <2>2. QED
    BY <1>2, <2>1
<1>7. QED
  BY <1>3, <1>4, <1>5, <1>6, NobodyJoins DEF Next, Receive, Run

\* Every step acknowledges before it marks.
LEMMA WireStep ==
    ASSUME ClientsKeepRules, AlwaysAnswered, TypeOK, OwnTables, OwnTasks, OwnAnswers,
           OwnDatagrams, MidEntries, AckedOnWire, [Next]_vars
    PROVE  AckedOnWire'
<1>1. /\ pc \in [Task -> States] /\ resp \in [Task -> Answer]
      /\ byMid \in [MidKeys -> Task \cup {Nobody}]
      /\ byToken \in [TokenKeys -> Task \cup {Nobody}]
      /\ reset \in [Task -> {"none", "waiting", "done"}] /\ tx \in [Task -> Task]
      /\ \A t \in Task : t[1] \in Requests
  BY DEF TypeOK, Task
<1>2. ASSUME UNCHANGED <<resp, reset>>, sent \subseteq sent',
             \A u \in Task : pc'[u] = "answering" => pc[u] = "answering",
             \A u \in Task : u \in acked' => u \in acked \/ Told(u)',
             \A u \in Task : u \in completed' => u \in completed \/ Told(u)'
      PROVE  AckedOnWire'
  BY <1>2, WireFrame DEF AckedOnWire
<1>3. ASSUME NEW t \in Task, ReceiveDuplicate(t) PROVE AckedOnWire'
  <2> DEFINE x == byToken[TokenKey(t[1])]
  <2>1. x = Original(t[1]) /\ x # Nobody
    BY <1>1, <1>3, OriginalIsFiled DEF ReceiveDuplicate
  <2>2. x \in Task /\ x[1] = t[1] /\ req[x] = x
    <3>1. x \in Task
      BY <1>1, <2>1, KeyTypes
    <3>2. QED
      BY <1>1, <2>1, <3>1 DEF OwnTables, OwnTasks
  <2>3. RepeatAnswer(t, x, x, lock[x]) /\ UNCHANGED <<resp, reset>>
    BY <1>3, <2>1, <2>2 DEF ReceiveDuplicate
  <2>4. \A u \in Task : pc'[u] = "answering" => pc[u] = "answering"
    BY <1>1, <2>3 DEF RepeatAnswer
  <2>5. CASE AckBody(x, x, x, t[1])
    BY <1>2, <2>2, <2>3, <2>4, <2>5, AckBodyTells
  <2>6. CASE sent \subseteq sent' /\ UNCHANGED <<acked, completed>>
    BY <1>2, <2>3, <2>4, <2>6
  <2>7. QED
    BY <2>3, <2>5, <2>6 DEF RepeatAnswer
<1>4. ASSUME NEW t \in Task, ReceiveNew(t) PROVE AckedOnWire'
  <2>1. /\ pc' = [pc EXCEPT ![t] = "started"]
        /\ UNCHANGED <<resp, reset, acked, completed, sent>>
    BY <1>4 DEF ReceiveNew, Serve
  <2>2. QED
    BY <1>1, <1>2, <2>1
<1>5. ASSUME NEW t \in Task, NEW v \in Answer, resp' = [resp EXCEPT ![t] = v],
             UNCHANGED <<acked, completed, sent, reset>>,
             NEW s \in States, pc' = [pc EXCEPT ![t] = s],
             v.type \in {"none", "absent"},
             s = "answering" => v.built /\ v.type = "none"
      PROVE  AckedOnWire'
  <2>1. ASSUME NEW u \in Task PROVE OnWire(u)'
    <3>1. OnWire(u)
      BY DEF AckedOnWire
    <3>2. CASE u # t
      BY <1>1, <1>5, <3>1, <3>2, WireFrame
    <3>3. CASE u = t
      <4>1. resp'[u] = v /\ pc'[u] = s
        BY <1>1, <1>5, <3>3
      <4>2. Told(u) => Told(u)'
        BY <1>5, ToldStays
      <4>3. QED
        BY <1>5, <3>1, <4>1, <4>2 DEF OnWire
    <3>4. QED
      BY <3>2, <3>3
  <2>2. QED
    BY <2>1 DEF AckedOnWire
<1>6. ASSUME NEW t \in Task, Start(t) PROVE AckedOnWire'
  <2>1. tx[t] = t /\ req[t] = t /\ pc[t] = "started" /\ AnswerOK(t)
    BY <1>6 DEF Start, OwnTasks, OwnAnswers, Inside
  <2>2. t \notin handled
    BY <2>1 DEF AnswerOK
  <2>3. /\ UNCHANGED <<acked, completed, sent, reset>>
        /\ \/ /\ pc' = [pc EXCEPT ![t] = "answering"]
              /\ resp' = [resp EXCEPT ![t] = [Blank(t[1]) EXCEPT !.built = TRUE]]
           \/ /\ pc' = [pc EXCEPT ![t] = "handling"]
              /\ resp' = [resp EXCEPT ![t] = Blank(t[1])]
    BY <1>6, <2>1, <2>2 DEF Start, messages, AlwaysAnswered
  <2>4. Blank(t[1]) \in Answer /\ Blank(t[1]).type = "none"
    <3>1. 0 \in Mids
      BY ExchangeAssumption DEF Mids
    <3>2. QED
      BY <1>1, <3>1 DEF Blank, Answer
  <2>5. /\ [Blank(t[1]) EXCEPT !.built = TRUE] \in Answer
        /\ [Blank(t[1]) EXCEPT !.built = TRUE].type = "none"
        /\ [Blank(t[1]) EXCEPT !.built = TRUE].built
    BY <2>4 DEF Answer
  <2>6. "answering" \in States /\ "handling" \in States
    BY DEF States
  <2>7. QED
    BY <1>5, <2>3, <2>4, <2>5, <2>6
<1>7. ASSUME NEW t \in Task, Return(t) PROVE AckedOnWire'
  <2>1. tx[t] = t /\ pc[t] = "handling" /\ AnswerOK(t) /\ resp[t] \in Answer
    BY <1>1, <1>7 DEF Return, OwnTasks, OwnAnswers, Inside
  <2>2. resp[t] = Blank(t[1]) /\ resp[t].type = "none"
    BY <2>1 DEF AnswerOK, Blank
  <2>3. /\ UNCHANGED <<acked, completed, sent, reset>>
        /\ \/ /\ pc' = [pc EXCEPT ![t] = "answering"]
              /\ resp' = [resp EXCEPT ![t] = [resp[t] EXCEPT !.built = TRUE]]
           \/ /\ pc' = [pc EXCEPT ![t] = "dead"] \/ pc' = [pc EXCEPT ![t] = "separate"]
              /\ resp' = resp
    BY <1>7, <2>1 DEF Return, messages, history, AlwaysAnswered
  <2>4. resp = [resp EXCEPT ![t] = resp[t]]
    BY <1>1
  <2>5. /\ [resp[t] EXCEPT !.built = TRUE] \in Answer
        /\ [resp[t] EXCEPT !.built = TRUE].type = "none"
        /\ [resp[t] EXCEPT !.built = TRUE].built
    BY <2>1, <2>2 DEF Answer
  <2>6. {"answering", "dead", "separate"} \subseteq States
    BY DEF States
  <2>7. QED
    BY <1>5, <2>1, <2>2, <2>3, <2>4, <2>5, <2>6
<1>8. ASSUME NEW t \in Task, AnswerNothing(t) PROVE FALSE
  BY <1>8 DEF AnswerNothing, OwnTasks, Inside, AckedOnWire, OnWire
<1>9. ASSUME NEW t \in Task, SendDelayed(t) PROVE AckedOnWire'
  <2>1. /\ pc' = [pc EXCEPT ![t] = "done"] /\ sent \subseteq sent'
        /\ UNCHANGED <<resp, reset, acked, completed>>
    BY <1>9 DEF SendDelayed, messages
  <2>2. QED
    BY <1>1, <1>2, <2>1
<1>10. ASSUME NEW t \in Task, SendAnswer(t) PROVE AckedOnWire'
  <2>1. /\ tx[t] = t /\ req[t] = t /\ pc[t] = "answering" /\ OnWire(t) /\ AnswerOK(t)
        /\ resp[t] \in Answer /\ t[1] \in Requests
    BY <1>1, <1>10 DEF SendAnswer, OwnTasks, AckedOnWire, OwnAnswers, Inside
  <2>2. resp[t].type = "none" /\ resp[t].built /\ resp[t].of = t[1]
    BY <2>1 DEF OnWire, AnswerOK
  <2>3. /\ sent \subseteq sent' /\ reset' = reset
        /\ resp' = [resp EXCEPT ![t] = Typed(t)] /\ acked' = acked \cup {t}
        /\ completed' = completed \/ completed' = completed \cup {t}
        /\ \E s \in {"delaying", "done"} : pc' = [pc EXCEPT ![t] = s]
        /\ ~t[1].multicast => sent' = sent \cup Sending(Typed(t), t[1])
    BY <1>10, <2>1 DEF SendAnswer
  <2>4. resp'[t] = Typed(t) /\ pc'[t] # "answering"
    BY <1>1, <2>3
  <2>5. t[1].type = "CON" => Told(t)'
    <3>1. CASE t[1].type = "CON" /\ t \in acked
      BY <2>1, <2>3, <3>1, ToldStays DEF OnWire
    <3>2. CASE t[1].type = "CON" /\ t \notin acked
      <4> DEFINE d == [to |-> t[1], type |-> "ACK", mid |-> t[1].mid, of |-> t[1],
                       empty |-> FALSE]
      <4>1. Typed(t) = [resp[t] EXCEPT !.type = "ACK", !.mid = t[1].mid]
        BY <2>1, <2>2, <3>2 DEF Typed
      <4>2. /\ Typed(t).built /\ Typed(t).type = "ACK" /\ Typed(t).of = t[1]
            /\ Typed(t).mid = t[1].mid
        BY <2>1, <2>2, <4>1 DEF Answer
      <4>3. Sending(Typed(t), t[1]) = {d}
        BY <4>2 DEF Sending
      <4>4. ~t[1].multicast
        BY <2>1, <3>2, ExchangeAssumption
      <4>5. d \in sent' /\ d.type = "ACK" /\ d.of.src = t[1].src /\ d.mid = t[1].mid
        BY <2>3, <4>3, <4>4
      <4> HIDE DEF d
      <4>6. QED
        BY <4>5 DEF Told
    <3>3. QED
      BY <3>1, <3>2
  <2>6. Typed(t).type = "NON" => t[1].type = "NON"
    BY <2>1, <2>2 DEF Typed, Answer
  <2>7. ASSUME NEW u \in Task PROVE OnWire(u)'
    <3>1. CASE u = t
      BY <2>4, <2>5, <2>6, <3>1 DEF OnWire
    <3>2. CASE u # t
      <4>1. OnWire(u) /\ resp'[u] = resp[u] /\ pc'[u] = pc[u]
        BY <1>1, <2>3, <3>2 DEF AckedOnWire
      <4>2. QED
        BY <2>3, <3>2, <4>1, WireFrame
    <3>3. QED
      BY <3>1, <3>2
  <2>8. QED
    BY <2>7 DEF AckedOnWire
<1>11. ASSUME NEW a \in Agent, AckGranted(a) PROVE AckedOnWire'
  <2> DEFINE t == a[2]
             x == tx[t]
  <2>1. /\ t \in Task /\ x \in Task /\ x[1] = t[1] /\ req[x] = x
        /\ AckBody(x, ackFor[a], x, x[1]) /\ UNCHANGED <<resp, reset>>
    BY <1>1, <1>11 DEF AckGranted, Agent, OwnTasks
  <2>2. PICK s : \/ s # "answering" /\ pc' = [pc EXCEPT ![t] = s]
                 \/ pc' = [pc EXCEPT ![t] = pc[t]]
    BY <1>11 DEF AckGranted
  <2>3. \A u \in Task : pc'[u] = "answering" => pc[u] = "answering"
    BY <1>1, <2>1, <2>2
  <2>4. QED
    BY <1>2, <2>1, <2>3, AckBodyTells
<1>12. ASSUME NEW t \in Task, TimerFires(t) PROVE AckedOnWire'
  <2> DEFINE x == tx[t]
  <2>1. /\ x \in Task /\ x[1] = t[1] /\ req[x] = x
        /\ AckBody(x, x, x, x[1]) \/ UNCHANGED <<acked, completed, sent>>
        /\ UNCHANGED <<pc, resp, reset>>
    BY <1>1, <1>12 DEF TimerFires, OwnTasks
  <2>2. CASE AckBody(x, x, x, x[1])
    BY <1>2, <2>1, <2>2, AckBodyTells
  <2>3. CASE UNCHANGED <<acked, completed, sent>>
    BY <1>2, <2>1, <2>3
  <2>4. QED
    BY <2>1, <2>2, <2>3
<1>13. ASSUME NEW x \in Task, x[1].type = "CON" => Told(x),
              UNCHANGED <<pc, resp, acked, sent>>,
              completed' \in {completed, completed \cup {x}},
              \A u \in Task \ {x} : reset'[u] = reset[u]
       PROVE  AckedOnWire'
  <2>1. Told(x)' <=> Told(x)
    BY <1>13 DEF Told
  <2>2. ASSUME NEW u \in Task PROVE OnWire(u)'
    <3>1. OnWire(u)
      BY DEF AckedOnWire
    <3>2. QED
      BY <1>13, <2>1, <3>1, WireFrame
  <2>3. QED
    BY <2>2 DEF AckedOnWire
<1>14. ASSUME NEW m \in sent, ReceiveReset(m) PROVE AckedOnWire'
  <2> DEFINE k == <<m.of.src, m.mid>>
             x == byMid[k]
  <2>1. k \in MidKeys
    BY KeyTypes DEF TypeOK, Datagram, MidKeys
  <2>2. x \in Task /\ m.type # "ACK"
    BY <1>1, <1>14, <2>1 DEF ReceiveReset
  <2>3. x[1].type = "CON" => Told(x)
    <3>1. SUFFICES ASSUME x[1].type = "CON" PROVE Told(x)
      OBVIOUS
    <3>2. x[1] \in Requests /\ ~x[1].multicast
      BY <1>1, <2>2, <3>1, ExchangeAssumption
    <3>3. NotAClients(m.mid)
      BY <2>2 DEF OwnDatagrams, DatagramOK
    <3>4. k # MidKey(x[1])
      BY <3>2, <3>3 DEF NotAClients, MidKey
    <3>5. x \in Assigned
      BY <2>1, <2>2, <3>4, ExchangeAssumption DEF MidEntries
    <3>6. QED
      BY <2>2, <3>1, <3>5 DEF Assigned, AckedOnWire, OnWire
  <2>4. /\ UNCHANGED <<pc, resp, acked, sent>>
        /\ completed' \in {completed, completed \cup {x}}
        /\ \E v : reset' = [reset EXCEPT ![x] = v]
    BY <1>14 DEF ReceiveReset, messages
  <2>5. \A u \in Task \ {x} : reset'[u] = reset[u]
    BY <1>1, <2>4
  <2> HIDE DEF x
  <2>6. QED
    BY <1>13, <2>2, <2>3, <2>4, <2>5
<1>15. ASSUME NEW x \in Task, ResetGranted(x) PROVE AckedOnWire'
  <2>1. /\ UNCHANGED <<pc, resp, acked, sent>>
        /\ completed' = completed \cup {x} /\ reset' = [reset EXCEPT ![x] = "done"]
        /\ reset[x] = "waiting"
    BY <1>15 DEF ResetGranted, messages
  <2>2. x[1].type = "CON" => Told(x)
    BY <2>1 DEF AckedOnWire, OnWire
  <2>3. \A u \in Task \ {x} : reset'[u] = reset[u]
    BY <1>1, <2>1
  <2>4. QED
    BY <1>13, <2>1, <2>2, <2>3
<1>16. CASE Purge \/ Tick \/ UNCHANGED vars
  <2>1. UNCHANGED <<pc, resp, reset, acked, completed, sent>>
    BY <1>16 DEF Purge, Tick, vars, messages
  <2>2. QED
    BY <1>2, <2>1
<1>17. QED
  BY <1>3, <1>4, <1>6, <1>7, <1>8, <1>9, <1>10, <1>11, <1>12, <1>14, <1>15, <1>16,
     NobodyJoins DEF Next, Receive, Run

-----------------------------------------------------------------------------
(* Theorems *)

\* The inductive invariant for clients that keep to the rules.
ServiceInv ==
    /\ OwnTables /\ OwnTasks
    /\ OwnAnswers /\ OwnDatagrams /\ MidsCounted
    /\ Lives /\ Arrivals /\ FirstCopyOwns /\ LivesCounted

LEMMA InitService == ASSUME ClientsKeepRules, Init PROVE ServiceInv
<1>1. OwnTables
  BY KeyTypes DEF Init, OwnTables
<1>2. OwnTasks
  BY DEF Init, OwnTasks, Inside
<1>3. OwnAnswers
  <2> SUFFICES ASSUME NEW x \in Task PROVE AnswerOK(x)
    BY DEF OwnAnswers
  <2>1. /\ pc[x] = "idle" /\ resp[x] = NoAnswer(x[1]) /\ handled = {}
        /\ ran[x] = <<>>
    BY DEF Init
  <2>2. NoAnswer(x[1]).type = "absent" /\ NoAnswer(x[1]).of = x[1]
    BY DEF NoAnswer, Blank
  <2>3. QED
    BY <2>1, <2>2 DEF AnswerOK
<1>4. OwnDatagrams
  BY DEF Init, OwnDatagrams
<1>5. MidsCounted
  <2>1. Assigned = {}
    BY DEF Init, Assigned, NoAnswer, Blank
  <2>2. FirstMid % MidSpace = FirstMid /\ FirstMid + 0 = FirstMid
    BY ExchangeAssumption
  <2>3. QED
    BY <2>1, <2>2, FS_EmptySet DEF Init, MidsCounted, ServerMid
<1>6. Lives /\ Arrivals
  BY DEF Init, Lives, Arrivals, Made
<1>7. FirstCopyOwns
  BY ExchangeAssumption DEF Init, FirstCopyOwns, Task
<1>8. LivesCounted
  <2>1. \A r \in Requests : LivesBegun(r) = 0
    BY KeyTypes DEF Init, LivesBegun
  <2>2. QED
    BY <2>1, Deliveries, ExchangeAssumption DEF LivesCounted
<1>9. QED
  BY <1>1, <1>2, <1>3, <1>4, <1>5, <1>6, <1>7, <1>8 DEF ServiceInv

LEMMA ServiceStep ==
    ASSUME ClientsKeepRules, TypeOK, ServiceInv, [Next]_vars PROVE ServiceInv'
<1>1. /\ OwnTables /\ OwnTasks /\ OwnAnswers /\ OwnDatagrams /\ MidsCounted
      /\ Lives /\ Arrivals /\ FirstCopyOwns /\ LivesCounted
  BY DEF ServiceInv
<1>2. FreshIsNoClients
  BY <1>1, FreshFromCount
<1>3. OwnTables' /\ OwnTasks' /\ (Drops \/ Works \/ \E t \in Task : Makes(t))
  BY <1>1, <1>2, OwnStep
<1>4. OwnAnswers' /\ OwnDatagrams' /\ Assigns
  BY <1>1, <1>2, AnswersStep
<1>5. MidsCounted'
  BY <1>1, <1>4, CountStep
<1>6. Lives'
  BY <1>1, <1>3, LivesStep
<1>7. Arrivals' /\ FirstCopyOwns'
  BY <1>1, <1>2, ArrivalsStep
<1>8. LivesCounted'
  BY <1>1, <1>3, <1>7, LivesCountedStep
<1>9. QED
  BY <1>3, <1>4, <1>5, <1>6, <1>7, <1>8 DEF ServiceInv

LEMMA ServiceInvHolds == ASSUME ClientsKeepRules PROVE Spec => []ServiceInv
<1>1. Init => ServiceInv
  BY InitService
<1>2. TypeOK /\ ServiceInv /\ [Next]_vars => ServiceInv'
  BY ServiceStep
<1>3. QED
  BY <1>1, <1>2, TypeCorrect, PTL DEF Spec

\* However often a request of a client that keeps to the rules is delivered, it
\* is run once for as long as the server remembers it.
THEOREM ExecutedOnceCorrect == ASSUME ClientsKeepRules PROVE Spec => []ExecutedOnce
<1>1. ServiceInv => ExecutedOnce
  <2> SUFFICES ASSUME ServiceInv, NEW x \in Task, NEW y \in Task,
                      NEW i \in DOMAIN ran[x], NEW j \in DOMAIN ran[y],
                      ran[x][i] = ran[y][j], epoch[x] = epoch[y]
               PROVE  x = y /\ i = j
    BY DEF ExecutedOnce
  <2>1. ASSUME NEW u \in Task, NEW k \in DOMAIN ran[u]
        PROVE  ran[u][k] = u[1] /\ k = 1 /\ Made(u)
    <3>1. AnswerOK(u)
      BY DEF ServiceInv, OwnAnswers
    <3>2. ran[u] = <<u[1]>> /\ Made(u)
      BY <2>1, <3>1 DEF AnswerOK
    <3>3. QED
      BY <2>1, <3>2
  <2>2. Lives
    BY DEF ServiceInv
  <2>3. QED
    BY <2>1, <2>2 DEF Lives
<1>2. QED
  BY <1>1, ServiceInvHolds, PTL

\* Such a client is answered what was computed for its request, and an
\* acknowledgement bears its message ID.
THEOREM AnswersOwnCorrect == ASSUME ClientsKeepRules PROVE Spec => []AnswersOwnRequest
<1>1. ServiceInv => AnswersOwnRequest
  BY DEF ServiceInv, OwnDatagrams, DatagramOK, AnswersOwnRequest
<1>2. QED
  BY <1>1, ServiceInvHolds, PTL

\* Where no request is left without a response, a confirmable one that is
\* completed, and so left to the purge, has been acknowledged on the wire.
THEOREM CompletedCorrect ==
    ASSUME ClientsKeepRules, AlwaysAnswered PROVE Spec => []CompletedIsAcknowledged
<1> DEFINE Inv == ServiceInv /\ MidEntries /\ AckedOnWire
<1>1. Init => Inv
  <2> SUFFICES ASSUME Init PROVE Inv
    OBVIOUS
  <2>1. MidEntries
    BY DEF Init, MidEntries
  <2>2. AckedOnWire
    BY DEF Init, AckedOnWire, OnWire, NoAnswer, Blank
  <2>3. QED
    BY <2>1, <2>2, InitService
<1>2. TypeOK /\ Inv /\ [Next]_vars => Inv'
  <2> SUFFICES ASSUME TypeOK, Inv, [Next]_vars PROVE Inv'
    OBVIOUS
  <2>1. /\ OwnTables /\ OwnTasks /\ OwnAnswers /\ OwnDatagrams
        /\ FreshIsNoClients
    BY FreshFromCount DEF ServiceInv
  <2>2. MidEntries'
    BY <2>1, AnswersStep, MidEntriesStep
  <2>3. AckedOnWire'
    BY <2>1, WireStep
  <2>4. QED
    BY <2>2, <2>3, ServiceStep
<1>3. TypeOK /\ Inv => CompletedIsAcknowledged
  <2> SUFFICES ASSUME TypeOK, Inv, NEW x \in completed, req[x][1].type = "CON"
               PROVE  \E m \in sent : /\ m.type = "ACK"
                                      /\ m.of.src = req[x][1].src
                                      /\ m.mid = req[x][1].mid
    BY DEF CompletedIsAcknowledged
  <2>1. x \in Task
    BY DEF TypeOK
  <2>2. req[x] = x
    BY <2>1 DEF ServiceInv, OwnTasks
  <2>3. Told(x)
    BY <2>1, <2>2 DEF AckedOnWire, OnWire
  <2>4. QED
    BY <2>2, <2>3 DEF Told
<1>4. QED
  BY <1>1, <1>2, <1>3, TypeCorrect, PTL DEF Spec

-----------------------------------------------------------------------------
(* The refinement: transactions as the jobs of a RequestService *)

\* The requests of which an answer has left the socket.
Answered == {r \in Requests : \E m \in sent : IsAnswer(m, r)}

\* What a step does to the jobs and answers of the clients' requests: it drops
\* entries, it accepts a request, it sends what is ready, or it takes the job of
\* one transaction further.
SameStages == \A u \in Task : Stage(u)' = Stage(u)

Replies ==
    \/ Answered' = Answered
    \/ \E x \in Task : Made(x) /\ resp[x].built /\ Answered' = Answered \cup {x[1]}

Proceeds(x) ==
    /\ Made(x)
    /\ \A u \in Task \ {x} : Stage(u)' = Stage(u)
    /\ \/ Stage(x)' = Stage(x)
       \/ Stage(x) = "accepted" /\ Stage(x)' = "working"
       \/ Stage(x) \in {"accepted", "working"} /\ Stage(x)' = "ready"

Serves ==
    \/ (Drops \/ \E t \in Task : Makes(t)) /\ SameStages /\ Answered' = Answered
    \/ Works /\ SameStages /\ Replies
    \/ Works /\ Answered' = Answered /\ \E x \in Task : Proceeds(x)

\* The one element of a set is the one that is chosen.
LEMMA OnlyChoice ==
    ASSUME NEW S, NEW x, S = {x} PROVE S # {} /\ (CHOOSE y \in S : TRUE) = x
<1>1. x \in S
  OBVIOUS
<1>2. (CHOOSE y \in S : TRUE) \in S
  BY <1>1
<1>3. QED
  BY <1>1, <1>2

\* There is one transaction of a request in a life of it, and the job tells its
\* stage.
LEMMA JobTells ==
    \A x \in Task : \A n \in 0 .. Copies :
        Lives /\ Made(x) /\ epoch[x] = n => Job(x[1], n) = Stage(x)
<1> SUFFICES ASSUME NEW x \in Task, NEW n \in 0 .. Copies, Lives, Made(x), epoch[x] = n
             PROVE  Job(x[1], n) = Stage(x)
  OBVIOUS
<1> DEFINE made == {y \in Task : y[1] = x[1] /\ Made(y) /\ epoch[y] = n}
<1>1. made = {x}
  BY DEF Lives
<1>2. made # {} /\ (CHOOSE y \in made : TRUE) = x
  BY <1>1, OnlyChoice
<1>3. Job(x[1], n) = IF made = {} THEN "none" ELSE Stage(CHOOSE y \in made : TRUE)
  BY DEF Job
<1>4. QED
  BY <1>2, <1>3

LEMMA JobTellsNext ==
    (\A x \in Task : \A n \in 0 .. Copies :
        Lives /\ Made(x) /\ epoch[x] = n => Job(x[1], n) = Stage(x))'
BY JobTells, PTL

\* A request without a transaction in a life has no job there.
LEMMA NoJob ==
    \A r \in Requests : \A n \in 0 .. Copies :
        (\A y \in Task : ~(y[1] = r /\ Made(y) /\ epoch[y] = n)) => Job(r, n) = "none"
BY DEF Job

LEMMA NoJobNext ==
    (\A r \in Requests : \A n \in 0 .. Copies :
        (\A y \in Task : ~(y[1] = r /\ Made(y) /\ epoch[y] = n)) => Job(r, n) = "none")'
BY NoJob, PTL

\* A job is what it was if the transactions of that life are.
LEMMA SameJob ==
    ASSUME Lives, Lives', NEW r \in Requests, NEW n \in 0 .. Copies,
           \A u \in Task : u[1] = r =>
              /\ (Made(u) /\ epoch[u] = n)' <=> (Made(u) /\ epoch[u] = n)
              /\ Made(u) /\ epoch[u] = n => Stage(u)' = Stage(u)
    PROVE  Job(r, n)' = Job(r, n)
<1>1. CASE \A y \in Task : ~(y[1] = r /\ Made(y) /\ epoch[y] = n)
  <2>1. Job(r, n) = "none"
    BY <1>1, NoJob
  <2>2. (\A y \in Task : ~(y[1] = r /\ Made(y) /\ epoch[y] = n))'
    BY <1>1
  <2>3. Job(r, n)' = "none"
    BY <2>2, NoJobNext
  <2>4. QED
    BY <2>1, <2>3
<1>2. ASSUME NEW y \in Task, y[1] = r, Made(y), epoch[y] = n
      PROVE  Job(r, n)' = Job(r, n)
  <2>1. Job(r, n) = Stage(y)
    BY <1>2, JobTells
  <2>2. Made(y)' /\ epoch'[y] = n
    BY <1>2
  <2>3. Job(r, n)' = Stage(y)'
    BY <1>2, <2>2, JobTellsNext
  <2>4. QED
    BY <1>2, <2>1, <2>3
<1>3. QED
  BY <1>1, <1>2

\* What leaves the socket answers the request whose response is ready.
LEMMA SendingReplies ==
    ASSUME NEW x \in Task, Made(x), x[1] \in Requests, NEW a, a.of = x[1],
           a.built => resp[x].built,
           \/ sent' = sent
           \/ \E to \in Requests : sent' = sent \cup Sending(a, to)
    PROVE  Replies
<1>1. CASE sent' = sent
  BY <1>1 DEF Replies, Answered
<1>2. ASSUME NEW to \in Requests, sent' = sent \cup Sending(a, to) PROVE Replies
  <2>1. CASE Sending(a, to) = {}
    BY <1>2, <2>1 DEF Replies, Answered
  <2>2. CASE Sending(a, to) # {}
    <3>1. /\ resp[x].built
          /\ Sending(a, to) = {[to |-> to, type |-> a.type, mid |-> a.mid,
                                of |-> a.of, empty |-> FALSE]}
      BY <2>2 DEF Sending
    <3>2. \A r \in Requests : \A m \in Sending(a, to) : IsAnswer(m, r) <=> r = x[1]
      BY <3>1 DEF IsAnswer
    <3>3. Answered' = Answered \cup {x[1]}
      BY <1>2, <2>2, <3>2 DEF Answered
    <3>4. QED
      BY <3>1, <3>3 DEF Replies
  <2>3. QED
    BY <2>1, <2>2
<1>3. QED
  BY <1>1, <1>2

\* An empty acknowledgement answers nothing.
LEMMA AckBodyAnswersNothing ==
    ASSUME NEW x, NEW message, NEW current, NEW to, AckBody(x, message, current, to)
    PROVE  Answered' = Answered
<1>1. \/ sent' = sent
      \/ sent' = sent \cup {[to |-> to, type |-> "ACK", mid |-> message[1].mid,
                             of |-> message[1], empty |-> TRUE]}
  BY DEF AckBody
<1>2. QED
  BY <1>1 DEF Answered, IsAnswer

\* Every step of the server is a step of the service, or none.
LEMMA ServesStep ==
    ASSUME ClientsKeepRules, TypeOK, OwnTables, OwnTasks, OwnAnswers, FreshIsNoClients,
           [Next]_vars
    PROVE  Serves
<1>1. /\ pc \in [Task -> States] /\ tx \in [Task -> Task]
      /\ byToken \in [TokenKeys -> Task \cup {Nobody}]
      /\ resp \in [Task -> Answer]
      /\ \A t \in Task : t[1] \in Requests
  BY DEF TypeOK, Task
<1>2. Drops \/ Works \/ \E t \in Task : Makes(t)
  BY OwnStep
<1>3. ASSUME UNCHANGED <<resp, handled, sent>> PROVE Serves
  <2>1. SameStages /\ Answered' = Answered
    BY <1>3 DEF SameStages, Stage, Answered
  <2>2. QED
    BY <1>2, <2>1 DEF Serves, Replies
<1>4. ASSUME UNCHANGED <<resp, handled>>, Works, Replies PROVE Serves
  BY <1>4 DEF Serves, SameStages, Stage
<1>5. ASSUME NEW t \in Task, ReceiveDuplicate(t) PROVE Serves
  <2> DEFINE x == byToken[TokenKey(t[1])]
  <2>1. x = Original(t[1]) /\ pc[t] = "idle" /\ x # Nobody
    BY <1>1, <1>5, OriginalIsFiled DEF ReceiveDuplicate, Arrives
  <2>2. x \in Task /\ x[1] = t[1] /\ Made(x)
    <3>1. x \in Task
      BY <1>1, <2>1, KeyTypes
    <3>2. QED
      BY <1>1, <2>1, <3>1 DEF OwnTables
  <2>3. RepeatAnswer(t, x, req[x], lock[x])
    BY <1>5, <2>1 DEF ReceiveDuplicate
  <2>4. UNCHANGED <<resp, handled>> /\ ~Drops /\ \A u \in Task : ~Makes(u)
    <3>1. UNCHANGED <<resp, handled, byToken>> /\ duplicated' = duplicated \cup {req[x]}
      BY <1>5, <2>1 DEF ReceiveDuplicate, tables
    <3>2. pc'[t] \in {"done", "ackWait"}
      BY <1>1, <2>3 DEF RepeatAnswer
    <3>3. ~Purge
      BY <2>1, <3>2 DEF Purge
    <3>4. ASSUME NEW u \in Task, Makes(u) PROVE FALSE
      <4>1. pc' = [pc EXCEPT ![u] = "started"]
        BY <3>4, NewLife
      <4>2. QED
        BY <1>1, <2>1, <3>2, <4>1
    <3>5. QED
      BY <3>1, <3>3, <3>4 DEF Drops
  <2>5. Replies
    <3>1. resp[x].of = x[1]
      BY <2>2 DEF OwnAnswers, AnswerOK
    <3>2. \/ sent' = sent \/ sent' = sent \cup Sending(resp[x], t[1])
          \/ AckBody(x, req[x], req[x], t[1])
      BY <2>3 DEF RepeatAnswer
    <3>3. CASE AckBody(x, req[x], req[x], t[1])
      BY <3>3, AckBodyAnswersNothing DEF Replies
    <3>4. CASE sent' = sent \/ sent' = sent \cup Sending(resp[x], t[1])
      BY <1>1, <2>2, <3>1, <3>4, SendingReplies
    <3>5. QED
      BY <3>2, <3>3, <3>4
  <2>6. QED
    BY <1>2, <1>4, <2>4, <2>5
<1>6. ASSUME NEW t \in Task, Inside(t), pc'[t] \notin {"idle"}, tx[t] = t,
             UNCHANGED <<byToken, epoch, drops, tx>>,
             \A u \in Task \ {t} : pc'[u] = pc[u],
             \A r \in Requests : ~r.multicast => byMid'[MidKey(r)] = byMid[MidKey(r)]
      PROVE  Works /\ Made(t)
  BY <1>6 DEF Works, Made, Inside
<1>7. ASSUME NEW t \in Task, Start(t) PROVE Serves
  <2>1. tx[t] = t /\ req[t] = t /\ pc[t] = "started" /\ Inside(t) /\ AnswerOK(t)
    BY <1>7 DEF Start, OwnTasks, OwnAnswers, Inside
  <2>2. ~resp[t].built /\ t \notin handled
    BY <2>1 DEF AnswerOK, NoAnswer, Blank
  <2>3. /\ UNCHANGED <<tx, byMid, byToken, epoch, drops, sent>>
        /\ \/ /\ pc' = [pc EXCEPT ![t] = "answering"] /\ handled' = handled
              /\ \/ resp' = [resp EXCEPT ![t] = [Blank(t[1]) EXCEPT !.built = TRUE]]
                 \/ resp' = [resp EXCEPT ![t] = NoAnswer(t[1])]
           \/ /\ pc' = [pc EXCEPT ![t] = "handling"]
              /\ resp' = [resp EXCEPT ![t] = Blank(t[1])]
              /\ handled' = handled \cup {t}
    BY <1>7, <2>1, <2>2 DEF Start, tables
  <2>4. Works /\ Made(t)
    BY <1>1, <1>6, <2>1, <2>3
  <2>5. \A u \in Task \ {t} : Stage(u)' = Stage(u)
    BY <1>1, <2>3 DEF Stage
  <2>6. Stage(t) = "accepted" /\ Stage(t)' \in {"accepted", "working", "ready"}
    BY <1>1, <2>2, <2>3 DEF Stage
  <2>7. Proceeds(t) /\ Answered' = Answered
    BY <2>3, <2>4, <2>5, <2>6 DEF Proceeds, Answered
  <2>8. QED
    BY <2>4, <2>7 DEF Serves
<1>8. ASSUME NEW t \in Task, Return(t) PROVE Serves
  <2>1. tx[t] = t /\ pc[t] = "handling" /\ Inside(t) /\ AnswerOK(t) /\ resp[t] \in Answer
    BY <1>1, <1>8 DEF Return, OwnTasks, OwnAnswers, Inside
  <2>2. ~resp[t].built
    BY <2>1 DEF AnswerOK, Blank
  <2>3. /\ UNCHANGED <<tx, byMid, byToken, epoch, drops, sent, handled>>
        /\ \E s \in States \ {"idle"} : pc' = [pc EXCEPT ![t] = s]
        /\ \/ resp' = [resp EXCEPT ![t] = [resp[t] EXCEPT !.built = TRUE]]
           \/ resp' = [resp EXCEPT ![t] = [resp[t] EXCEPT !.type = "absent"]]
           \/ resp' = resp
    BY <1>8, <2>1 DEF Return, tables, history, States
  <2>4. Works /\ Made(t)
    BY <1>1, <1>6, <2>1, <2>3
  <2>5. \A u \in Task \ {t} : Stage(u)' = Stage(u)
    BY <1>1, <2>3 DEF Stage
  <2>6. /\ Stage(t) \in {"accepted", "working"}
        /\ Stage(t)' \in {Stage(t), "ready"}
    <3>1. resp'[t].built \in {TRUE, resp[t].built}
      <4>1. resp'[t] \in {[resp[t] EXCEPT !.built = TRUE],
                         [resp[t] EXCEPT !.type = "absent"], resp[t]}
        BY <1>1, <2>3
      <4>2. [resp[t] EXCEPT !.built = TRUE].built = TRUE
        BY <2>1 DEF Answer
      <4>3. [resp[t] EXCEPT !.type = "absent"].built = resp[t].built
        BY <2>1 DEF Answer
      <4>4. QED
        BY <4>1, <4>2, <4>3
    <3>2. QED
      BY <2>2, <2>3, <3>1 DEF Stage
  <2>7. Proceeds(t) /\ Answered' = Answered
    BY <2>3, <2>4, <2>5, <2>6 DEF Proceeds, Answered
  <2>8. QED
    BY <2>4, <2>7 DEF Serves
<1>9. ASSUME NEW t \in Task, SendDelayed(t) PROVE Serves
  <2>1. tx[t] = t /\ Inside(t) /\ resp[t].of = t[1]
    BY <1>9 DEF SendDelayed, OwnTasks, OwnAnswers, AnswerOK, Inside
  <2>2. /\ UNCHANGED <<tx, byMid, byToken, epoch, drops, resp, handled>>
        /\ pc' = [pc EXCEPT ![t] = "done"] /\ sent' = sent \cup Sending(resp[t], t[1])
    BY <1>9, <2>1 DEF SendDelayed, tables, history
  <2>3. Works /\ Made(t)
    BY <1>1, <1>6, <2>1, <2>2
  <2>4. Replies
    BY <1>1, <2>1, <2>2, <2>3, SendingReplies
  <2>5. QED
    BY <1>4, <2>2, <2>3, <2>4
<1>10. ASSUME NEW t \in Task, SendAnswer(t) PROVE Serves
  <2>1. /\ tx[t] = t /\ req[t] = t /\ Inside(t) /\ resp[t].of = t[1] /\ resp[t] \in Answer
        /\ resp[t].type # "absent" /\ pc[t] = "answering"
    BY <1>1, <1>10 DEF SendAnswer, OwnTasks, OwnAnswers, AnswerOK, Inside
  <2> DEFINE v == Typed(t)
  <2>2. v.of = t[1] /\ v.built = resp[t].built
    BY <2>1 DEF Typed, Answer
  <2>3. Works
    <3>1. \/ Purge \/ \E u \in Task : ReceiveNew(u) \/ Works
      BY <1>2 DEF Drops, Makes
    <3>2. pc'[t] \in {"delaying", "done"}
      BY <1>1, <1>10, <2>1 DEF SendAnswer
    <3>3. ~Purge
      BY <2>1, <3>2 DEF Purge
    <3>4. ASSUME NEW u \in Task, Makes(u) PROVE FALSE
      <4>1. pc' = [pc EXCEPT ![u] = "started"] /\ pc[u] = "idle"
        BY <3>4, NewLife
      <4>2. QED
        BY <1>1, <2>1, <3>2, <4>1
    <3>5. QED
      BY <1>2, <3>3, <3>4 DEF Drops
  <2>4. /\ handled' = handled /\ resp' = [resp EXCEPT ![t] = v]
        /\ sent' = sent \/ sent' = sent \cup Sending(v, t[1])
    BY <1>10, <2>1 DEF SendAnswer
  <2>5. SameStages
    <3>1. \A u \in Task : resp'[u].built = resp[u].built
      BY <1>1, <2>2, <2>4
    <3>2. QED
      BY <2>4, <3>1 DEF SameStages, Stage
  <2>6. Made(t)
    BY <2>1 DEF Made
  <2> HIDE DEF v
  <2>7. Replies
    BY <1>1, <2>2, <2>4, <2>6, SendingReplies
  <2>8. QED
    BY <2>3, <2>5, <2>7 DEF Serves
<1>11. ASSUME UNCHANGED <<resp, handled>>, Answered' = Answered PROVE Serves
  <2>1. SameStages /\ Replies
    BY <1>11 DEF SameStages, Stage, Replies
  <2>2. QED
    BY <1>2, <1>11, <2>1 DEF Serves
<1>12. ASSUME NEW a \in Agent, AckGranted(a) PROVE Serves
  BY <1>11, <1>12, AckBodyAnswersNothing DEF AckGranted
<1>13. ASSUME NEW t \in Task, TimerFires(t) PROVE Serves
  <2>1. UNCHANGED <<resp, handled>>
    BY <1>13 DEF TimerFires
  <2>2. sent' = sent \/ AckBody(tx[t], req[tx[t]], req[tx[t]], t[1])
    BY <1>13 DEF TimerFires
  <2>3. Answered' = Answered
    BY <2>2, AckBodyAnswersNothing DEF Answered
  <2>4. QED
    BY <1>11, <2>1, <2>3
<1>14. CASE \/ \E t \in Task : ReceiveNew(t) \/ AnswerNothing(t) \/ ResetGranted(t)
            \/ \E m \in sent : ReceiveReset(m)
            \/ Purge \/ Tick \/ UNCHANGED vars
  <2>1. UNCHANGED <<resp, handled, sent>>
    BY <1>14 DEF ReceiveNew, Serve, AnswerNothing, ResetGranted, ReceiveReset, Purge,
                 Tick, vars
  <2>2. QED
    BY <1>3, <2>1
<1>15. QED
  BY <1>5, <1>7, <1>8, <1>9, <1>10, <1>12, <1>13, <1>14, NobodyJoins
  DEF Next, Receive, Run

\* The life a transaction belongs to is one of those the service has.
LEMMA LifeOfJob ==
    ASSUME ClientsKeepRules, TypeOK, Lives, LivesCounted, NEW x \in Task, Made(x)
    PROVE  epoch[x] \in 0 .. Copies /\ x[1] \in Requests
<1>1. /\ x[1] \in Requests /\ Copies \in Nat
      /\ epoch[x] \in Nat /\ drops[x[1]] \in Nat
  BY ExchangeAssumption DEF TypeOK, Task
<1>2. epoch[x] <= drops[x[1]] /\ drops[x[1]] <= Copies
  BY <1>1 DEF Lives, LivesCounted, LivesBegun
<1>3. QED
  BY <1>1, <1>2

\* The service's view of a state.
Known == {r \in Requests : Remembered(r)}
Jobs == [r \in Requests |-> [n \in 0 .. Copies |-> Job(r, n)]]

\* The jobs change in one place.
LEMMA OneJobChanges ==
    ASSUME NEW r \in Requests, NEW k \in 0 .. Copies, NEW v, Jobs'[r][k] = v,
           \A s \in Requests : \A n \in 0 .. Copies :
              s # r \/ n # k => Jobs'[s][n] = Jobs[s][n]
    PROVE  Jobs' = [Jobs EXCEPT ![r][k] = v]
<1> DEFINE new == [Jobs EXCEPT ![r][k] = v]
<1>1. \A s \in Requests : \A n \in 0 .. Copies :
        new[s][n] = IF s = r /\ n = k THEN v ELSE Jobs[s][n]
  BY DEF Jobs
<1>2. \A s \in Requests : new[s] = [n \in 0 .. Copies |-> new[s][n]]
  BY DEF Jobs
<1>3. \A s \in Requests : Jobs'[s] = [n \in 0 .. Copies |-> Jobs'[s][n]]
  BY DEF Jobs
<1>4. ASSUME NEW s \in Requests PROVE Jobs'[s] = new[s]
  <2>1. \A n \in 0 .. Copies : Jobs'[s][n] = new[s][n]
    BY <1>1
  <2> HIDE DEF new
  <2>2. QED
    BY <1>2, <1>3, <2>1
<1>5. Jobs' = [s \in Requests |-> Jobs'[s]] /\ new = [s \in Requests |-> new[s]]
  BY DEF Jobs
<1>6. QED
  BY <1>4, <1>5

\* A transaction that is made accepts its request.
LEMMA MakesAccepts ==
    ASSUME ClientsKeepRules, TypeOK, ServiceInv, ServiceInv', NEW t \in Task, Makes(t),
           SameStages, Answered' = Answered
    PROVE  Service!Accept(t[1])
<1> DEFINE r == t[1]
<1>1. /\ OwnTables /\ OwnTables' /\ Lives /\ Lives' /\ LivesCounted /\ OwnAnswers
      /\ r \in Requests /\ Copies \in Nat /\ drops \in [Requests -> Nat]
  BY ExchangeAssumption DEF ServiceInv, TypeOK, Task
<1>2. /\ byToken[TokenKey(r)] = Nobody /\ byToken'[TokenKey(r)] = t
      /\ \A s \in Requests \ {r} : byToken'[TokenKey(s)] = byToken[TokenKey(s)]
      /\ drops' = drops /\ epoch'[t] = drops[r]
      /\ \A u \in Task \ {t} : epoch'[u] = epoch[u]
  BY <1>1, NewLife
<1>3. ~Made(t) /\ Made(t)' /\ \A u \in Task \ {t} : Made(u)' <=> Made(u)
  BY DEF Makes
<1>4. PICK k \in 0 .. Copies : k = drops[r]
  BY <1>1 DEF LivesCounted, LivesBegun
<1>5. Known' = Known \cup {r} /\ r \notin Known
  <2>1. \A s \in Requests : Remembered(s) <=> byToken[TokenKey(s)] # Nobody
    BY <1>1, RememberedIsFiled
  <2>2. (\A s \in Requests : Remembered(s) <=> byToken[TokenKey(s)] # Nobody)'
    BY <1>1 DEF OwnTables, Remembered
  <2>3. t # Nobody
    BY ExchangeAssumption
  <2>4. QED
    BY <1>1, <1>2, <2>1, <2>2, <2>3 DEF Known
<1>6. Job(r, k) = "none"
  <2>1. \A y \in Task : ~(y[1] = r /\ Made(y) /\ epoch[y] = k)
    BY <1>1, <1>2, <1>4, ExchangeAssumption DEF Lives
  <2>2. QED
    BY <1>1, <1>4, <2>1, NoJob
<1>7. Job(r, k)' = "accepted"
  <2>1. Stage(t)' = Stage(t)
    BY DEF SameStages
  <2>2. resp[t] = NoAnswer(t[1]) /\ t \notin handled
    BY <1>1, <1>3 DEF OwnAnswers, AnswerOK
  <2>3. Stage(t) = "accepted"
    BY <2>2 DEF Stage, NoAnswer, Blank
  <2>4. Job(t[1], k)' = Stage(t)'
    BY <1>1, <1>2, <1>3, <1>4, JobTellsNext
  <2>5. QED
    BY <1>2, <2>1, <2>3, <2>4
<1>8. ASSUME NEW s \in Requests, NEW n \in 0 .. Copies, s # r \/ n # k
      PROVE  Job(s, n)' = Job(s, n)
  <2>1. ASSUME NEW u \in Task, u[1] = s
        PROVE  /\ (Made(u) /\ epoch[u] = n)' <=> (Made(u) /\ epoch[u] = n)
               /\ Made(u) /\ epoch[u] = n => Stage(u)' = Stage(u)
    <3>1. CASE u = t
      BY <1>2, <1>3, <1>4, <1>8, <2>1, <3>1
    <3>2. CASE u # t
      BY <1>2, <1>3, <3>2 DEF SameStages
    <3>3. QED
      BY <3>1, <3>2
  <2>2. QED
    BY <1>1, <2>1, SameJob
<1>9. Jobs' = [Jobs EXCEPT ![r][k] = "accepted"]
  <2>1. Jobs'[r][k] = "accepted"
    BY <1>1, <1>4, <1>7, <1>8 DEF Jobs
  <2>2. \A s \in Requests : \A n \in 0 .. Copies :
          s # r \/ n # k => Jobs'[s][n] = Jobs[s][n]
    BY <1>1, <1>4, <1>7, <1>8 DEF Jobs
  <2>3. QED
    BY <1>1, <2>1, <2>2, OneJobChanges
<1>10. Jobs[r][k] = "none"
  BY <1>1, <1>4, <1>6 DEF Jobs
<1>11. QED
  BY <1>2, <1>4, <1>5, <1>9, <1>10 DEF Service!Accept, Known, Jobs, Answered

\* Transactions that keep their stages, and lives that keep their transactions,
\* keep the jobs.
LEMMA SameJobs ==
    ASSUME Lives, Lives', \A u \in Task : Made(u)' <=> Made(u), epoch' = epoch, SameStages
    PROVE  Jobs' = Jobs
<1>1. ASSUME NEW r \in Requests, NEW n \in 0 .. Copies PROVE Job(r, n)' = Job(r, n)
  BY SameJob DEF SameStages
<1>2. QED
  BY <1>1 DEF Jobs

\* A transaction that proceeds begins or finishes its job.
LEMMA ProceedsServes ==
    ASSUME ClientsKeepRules, TypeOK, ServiceInv, ServiceInv', NEW x \in Task, Proceeds(x),
           Works, Known' = Known, Answered' = Answered
    PROVE  [Service!Next]_(Service!vars)
<1> DEFINE r == x[1]
<1>1. /\ Lives /\ Lives' /\ Made(x) /\ Made(x)' /\ epoch' = epoch /\ drops' = drops
      /\ \A u \in Task : Made(u)' <=> Made(u)
  BY DEF ServiceInv, Proceeds, Works
<1>2. PICK k \in 0 .. Copies : k = epoch[x] /\ r \in Requests
  BY <1>1, LifeOfJob DEF ServiceInv
<1>3. Job(r, k) = Stage(x) /\ Job(r, k)' = Stage(x)'
  <2>1. Job(x[1], k)' = Stage(x)'
    BY <1>1, <1>2, JobTellsNext
  <2>2. QED
    BY <1>1, <1>2, <2>1, JobTells
<1>4. ASSUME NEW s \in Requests, NEW n \in 0 .. Copies, s # r \/ n # k
      PROVE  Job(s, n)' = Job(s, n)
  <2>1. ASSUME NEW u \in Task, u[1] = s, Made(u), epoch[u] = n PROVE Stage(u)' = Stage(u)
    BY <1>2, <1>4, <2>1 DEF Proceeds
  <2>2. QED
    BY <1>1, <2>1, SameJob
<1>5. Jobs' = [Jobs EXCEPT ![r][k] = Stage(x)']
  <2>1. Jobs'[r][k] = Stage(x)'
    BY <1>2, <1>3, <1>4 DEF Jobs
  <2>2. \A s \in Requests : \A n \in 0 .. Copies :
          s # r \/ n # k => Jobs'[s][n] = Jobs[s][n]
    BY <1>2, <1>3, <1>4 DEF Jobs
  <2>3. QED
    BY <1>2, <2>1, <2>2, OneJobChanges
<1>6. Jobs[r][k] = Stage(x)
  BY <1>2, <1>3 DEF Jobs
<1>7. CASE Stage(x)' = Stage(x)
  <2>1. Jobs' = Jobs
    BY <1>1, <1>7, SameJobs DEF Proceeds, SameStages
  <2>2. QED
    BY <1>1, <2>1 DEF Service!vars, Known, Jobs, Answered
<1>8. CASE Stage(x) = "accepted" /\ Stage(x)' = "working"
  <2>1. Service!Begin(r, k)
    BY <1>1, <1>5, <1>6, <1>8 DEF Service!Begin, Known, Jobs, Answered
  <2>2. QED
    BY <1>2, <2>1 DEF Service!Next
<1>9. CASE Stage(x) \in {"accepted", "working"} /\ Stage(x)' = "ready"
  <2>1. Service!Finish(r, k)
    BY <1>1, <1>5, <1>6, <1>9 DEF Service!Finish, Known, Jobs, Answered
  <2>2. QED
    BY <1>2, <2>1 DEF Service!Next
<1>10. QED
  BY <1>7, <1>8, <1>9 DEF Proceeds

\* A purge forgets the requests that it drops from the tables.
LEMMA DropsForgets ==
    ASSUME ClientsKeepRules, TypeOK, ServiceInv, ServiceInv', Drops, SameStages,
           Answered' = Answered
    PROVE  [Service!Next]_(Service!vars)
<1> DEFINE F == {r \in Requests : Remembered(r) /\ ~Remembered(r)'}
<1>1. OwnTables /\ OwnTables' /\ Lives /\ Lives' /\ Purge /\ epoch' = epoch
  BY DEF ServiceInv, Drops, Purge
<1>2. Jobs' = Jobs
  BY <1>1, SameJobs DEF Drops
<1>3. \A r \in Requests : Remembered(r) <=> byToken[TokenKey(r)] # Nobody
  BY <1>1, RememberedIsFiled
<1>4. (\A r \in Requests : Remembered(r) <=> byToken[TokenKey(r)] # Nobody)'
  BY <1>1 DEF OwnTables, Remembered
<1>5. ASSUME NEW r \in Requests PROVE Remembered(r)' => Remembered(r)
  BY <1>1, <1>3, <1>4, <1>5, PurgeEndsLives
<1>6. Known' = Known \ F /\ F \subseteq Known
  BY <1>5 DEF Known
<1>7. drops' = [r \in Requests |-> IF r \in F THEN drops[r] + 1 ELSE drops[r]]
  BY <1>1 DEF Purge
<1>8. CASE F # {}
  <2>1. Service!Forget(F)
    BY <1>2, <1>6, <1>7, <1>8 DEF Service!Forget, Known, Jobs, Answered
  <2>2. F \in SUBSET Requests
    OBVIOUS
  <2>3. QED
    BY <2>1, <2>2 DEF Service!Next
<1>9. CASE F = {}
  <2>1. drops \in [Requests -> Nat]
    BY DEF TypeOK
  <2>2. drops' = drops /\ Known' = Known
    BY <1>6, <1>7, <1>9, <2>1
  <2>3. QED
    BY <1>2, <2>2 DEF Service!vars, Known, Jobs, Answered
<1>10. QED
  BY <1>8, <1>9

\* What works on transactions leaves the requests that are remembered alone.
LEMMA WorksRemembers ==
    ASSUME OwnTables, OwnTables', Works PROVE Known' = Known
<1>1. \A r \in Requests : Remembered(r) <=> byToken[TokenKey(r)] # Nobody
  BY RememberedIsFiled
<1>2. (\A r \in Requests : Remembered(r) <=> byToken[TokenKey(r)] # Nobody)'
  BY DEF OwnTables, Remembered
<1>3. QED
  BY <1>1, <1>2 DEF Known, Works

\* The tables, locks and tasks of the server, with clients that keep to the
\* rules, are a service that accepts a request once a life, runs it at most
\* once in it, and sends only answers that are ready.
THEOREM ServiceImplemented ==
    ASSUME ClientsKeepRules PROVE Spec => ImplementsService
<1>1. Init => Service!Init
  <2> SUFFICES ASSUME Init PROVE Service!Init
    OBVIOUS
  <2>1. \A r \in Requests : ~Remembered(r)
    BY KeyTypes DEF Init, Remembered
  <2>2. \A r \in Requests : \A n \in 0 .. Copies : Job(r, n) = "none"
    BY NoJob DEF Init, Made
  <2>3. QED
    BY <2>1, <2>2 DEF Init, Service!Init
<1>2. TypeOK /\ ServiceInv /\ ServiceInv' /\ [Next]_vars => [Service!Next]_(Service!vars)
  <2> SUFFICES ASSUME TypeOK, ServiceInv, ServiceInv', [Next]_vars
               PROVE  [Service!Next]_(Service!vars)
    OBVIOUS
  <2>1. /\ OwnTables /\ OwnTables' /\ OwnTasks /\ OwnAnswers /\ FreshIsNoClients
        /\ Lives /\ Lives' /\ LivesCounted
    BY FreshFromCount DEF ServiceInv
  <2>2. Serves
    BY <2>1, ServesStep
  <2>3. CASE Drops /\ SameStages /\ Answered' = Answered
    BY <2>3, DropsForgets
  <2>4. ASSUME NEW t \in Task, Makes(t), SameStages, Answered' = Answered
        PROVE  [Service!Next]_(Service!vars)
    <3>1. Service!Accept(t[1])
      BY <2>4, MakesAccepts
    <3>2. t[1] \in Requests
      BY DEF Task
    <3>3. QED
      BY <3>1, <3>2 DEF Service!Next
  <2>5. ASSUME Works, SameStages, Answered' = Answered
        PROVE  [Service!Next]_(Service!vars)
    <3>1. Jobs' = Jobs /\ Known' = Known /\ drops' = drops
      BY <2>1, <2>5, SameJobs, WorksRemembers DEF Works
    <3>2. QED
      BY <2>5, <3>1 DEF Service!vars, Known, Jobs, Answered
  <2>6. ASSUME Works, SameStages, NEW x \in Task, Made(x), resp[x].built,
               Answered' = Answered \cup {x[1]}
        PROVE  [Service!Next]_(Service!vars)
    <3>1. Jobs' = Jobs /\ Known' = Known /\ drops' = drops
      BY <2>1, <2>6, SameJobs, WorksRemembers DEF Works
    <3>2. epoch[x] \in 0 .. Copies /\ x[1] \in Requests
      BY <2>1, <2>6, LifeOfJob
    <3>3. \E n \in 0 .. Copies : Jobs[x[1]][n] = "ready"
      BY <2>1, <2>6, <3>2, JobTells DEF Jobs, Stage
    <3>4. Service!Reply(x[1])
      BY <2>6, <3>1, <3>2, <3>3 DEF Service!Reply, Known, Jobs, Answered
    <3>5. QED
      BY <3>2, <3>4 DEF Service!Next
  <2>7. ASSUME Works, Answered' = Answered, NEW x \in Task, Proceeds(x)
        PROVE  [Service!Next]_(Service!vars)
    BY <2>1, <2>7, WorksRemembers, ProceedsServes
  <2>8. QED
    BY <2>2, <2>3, <2>4, <2>5, <2>6, <2>7 DEF Serves, Replies
<1>3. QED
  BY <1>1, <1>2, TypeCorrect, ServiceInvHolds, PTL DEF Spec, ImplementsService, Service!Spec

=============================================================================
