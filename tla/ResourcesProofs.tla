---------------------------- MODULE ResourcesProofs ----------------------------
(***************************************************************************)
(* What holds of Resources for any tree, any clients and requests, and     *)
(* whatever handlers do.                                                   *)
(***************************************************************************)
EXTENDS Resources, FiniteSetTheorems, TLAPS

Items == Requests \cup {Nobody, Outgoing}
Words == {"none", "register", "cancel", "reset", "refused", "outgoing", "rejected"}

\* A handler runs for a transaction that has a resource.
Located == \A r \in Requests : pc[r] = "handling" => resource[tx[r]] # Nobody

Silent(rel, w) == \A k \in Keys : rel[k] # Nobody => w[k] \in {"register", "outgoing"}

IInv == TypeOK /\ Located /\ CancelledIsSilent /\ ChangedMeansUntold

-----------------------------------------------------------------------------
(* Types of the operators *)

LEMMA KeyType ==
    ASSUME TypeOK, NEW q \in Requests
    PROVE  /\ Key(q) \in Keys /\ about[q].path \in Paths
           /\ about[q].observe \in {"no", "register", "cancel"}
           /\ about[q].method \in {"GET", "PUT", "POST", "DELETE"}
<1>1. about[q] \in Messages
  BY DEF TypeOK
<1>2. about[q] \in [src: Clients, token: Tokens, path: Paths,
                    method: {"GET", "PUT", "POST", "DELETE"},
                    observe: {"no", "register", "cancel"}]
  BY <1>1, ResourcesAssumption
<1>3. QED
  BY <1>2 DEF Key, Keys

\* An observe count stays in its range, and it has a place for 0 and 1.
LEMMA CountsType ==
    /\ 0 \in Counts /\ 1 \in Counts
    /\ \A c \in Counts : (c + 1) % CountSpace \in Counts
<1>1. CountSpace \in Nat /\ CountSpace > 1
  BY ResourcesAssumption
<1>2. QED
  BY <1>1 DEF Counts

LEMMA CodedType ==
    ASSUME NEW c \in Codes
    PROVE  Coded(c) \in Response /\ Coded(c).code = c
BY CountsType DEF Coded, Response

\* Registering and unregistering keep the types and the silence.
LEMMA RegisteredType ==
    ASSUME TypeOK, CancelledIsSilent, NEW x \in Requests, NEW q \in Requests
    PROVE  /\ Registered(x, q) \in [Keys -> Items]
           /\ Wished(q) \in [Keys -> Words]
           /\ Silent(Registered(x, q), Wished(q))
<1>1. Key(q) \in Keys /\ about[q].observe \in {"no", "register", "cancel"}
  BY KeyType
<1>2. relations \in [Keys -> Items] /\ wish \in [Keys -> Words]
  BY DEF TypeOK, Items, Words
<1>3. Silent(relations, wish)
  BY DEF CancelledIsSilent, Silent
<1>4. CASE about[q].observe = "no"
  BY <1>2, <1>3, <1>4 DEF Registered, Wished
<1>5. CASE about[q].observe = "register"
  BY <1>1, <1>2, <1>3, <1>5 DEF Registered, Wished, Items, Words, Silent
<1>6. CASE about[q].observe = "cancel"
  BY <1>1, <1>2, <1>3, <1>6 DEF Registered, Wished, Items, Words, Silent
<1>7. QED
  BY <1>1, <1>4, <1>5, <1>6

\* send_response on a relation never makes one and takes away a refused one.
LEMMA ConcludedType ==
    ASSUME TypeOK, NEW x \in Requests, NEW q \in Requests, NEW code,
           NEW rel \in [Keys -> Items]
    PROVE  /\ Concluded(rel, x, q, code) \in [Keys -> Items]
           /\ \A k \in Keys : rel[k] = Nobody =>
                 Concluded(rel, x, q, code)[k] = Nobody
           /\ code = "refused" => Concluded(rel, x, q, code)[Key(q)] = Nobody
<1>1. Key(q) \in Keys
  BY KeyType
<1>2. QED
  BY <1>1 DEF Concluded, Items

LEMMA NumberedType ==
    ASSUME NEW rel, NEW x \in Requests, NEW q \in Requests, NEW a \in Response,
           resource' \in [Requests -> Object \cup {Nobody}],
           count' \in [Object -> Counts]
    PROVE  /\ Sendable(Numbered(rel, x, q, a)) \in Response
           /\ Sendable(Numbered(rel, x, q, a)).form \in {"typed", "bare"}
           /\ Sendable(a) \in Response
<1> DEFINE b == Numbered(rel, x, q, a)
<1>1. b \in Response
  <2>1. CASE rel[Key(q)] # Nobody /\ a.code = "content" /\ Observed(resource'[x])
    <3>1. count'[resource'[x]] \in Counts
      BY <2>1 DEF Observed
    <3>2. b = [a EXCEPT !.number = count'[resource'[x]]]
      BY <2>1 DEF Numbered
    <3>3. QED
      BY <3>1, <3>2 DEF Response
  <2>2. CASE ~(rel[Key(q)] # Nobody /\ a.code = "content" /\ Observed(resource'[x]))
    BY <2>2 DEF Numbered
  <2>3. QED
    BY <2>1, <2>2
<1> HIDE DEF b
<1>2. ASSUME NEW c \in Response
      PROVE  Sendable(c) \in Response /\ Sendable(c).form \in {"typed", "bare"}
  BY DEF Sendable, Response
<1>3. QED
  BY <1>1, <1>2 DEF b

-----------------------------------------------------------------------------
(* The way back *)

\* What the answering of a request does to each variable: it keeps the types,
\* makes no relation, and leaves the flag of its own resource only in a dead
\* task.
LEMMA ReplyType ==
    ASSUME TypeOK, NEW r \in Requests, NEW x \in Requests, NEW q \in Requests,
           NEW a \in Response, NEW rel \in [Keys -> Items], NEW w \in [Keys -> Words],
           NEW chg \in SUBSET Object, Silent(rel, w),
           resource' \in [Requests -> Object \cup {Nobody}],
           count' \in [Object -> Counts], tree' \in [Paths -> Object \cup {Nobody}],
           Reply(r, x, q, a, rel, w, chg)
    PROVE  /\ TypeOK' /\ CancelledIsSilent' /\ tx' = tx /\ changed' \subseteq chg
           /\ \/ pc' = [pc EXCEPT ![r] = "dead"]
              \/ pc' = [pc EXCEPT ![r] = "done"] /\ resource'[x] \notin changed'
<1> DEFINE o == resource'[x]
           m == Sendable(Numbered(rel, x, q, a))
           refused == a.code = "refused" /\ rel[Key(q)] # Nobody
           con == Concluded(rel, x, q, a.code)
           v == IF refused THEN [w EXCEPT ![Key(q)] = "refused"] ELSE w
           ans == [to |-> r, by |-> x, of |-> o, code |-> m.code,
                   number |-> m.number, form |-> m.form]
<1>1. m \in Response /\ m.form \in {"typed", "bare"} /\ Sendable(a) \in Response
  BY NumberedType
<1>2. ans \in Answer
  <2>1. o \in Object \cup {Nobody} /\ m.code \in Codes /\ m.number \in Counts
    BY <1>1 DEF Response
  <2>2. QED
    BY <1>1, <2>1 DEF Answer
<1>3. con \in [Keys -> Items] /\ v \in [Keys -> Words] /\ Silent(con, v)
  <2>1. Key(q) \in Keys
    BY KeyType
  <2>2. /\ con \in [Keys -> Items]
        /\ \A k \in Keys : rel[k] = Nobody => con[k] = Nobody
        /\ a.code = "refused" => con[Key(q)] = Nobody
    BY ConcludedType
  <2>3. v \in [Keys -> Words]
    BY <2>1 DEF Words
  <2>4. ASSUME NEW k \in Keys, con[k] # Nobody
        PROVE  v[k] \in {"register", "outgoing"}
    <3> HIDE DEF con
    <3>1. rel[k] # Nobody /\ w[k] \in {"register", "outgoing"}
      BY <2>2, <2>4 DEF Silent
    <3>2. v[k] = w[k]
      BY <2>1, <2>2, <2>4, <3>1
    <3>3. QED
      BY <3>1, <3>2
  <2>5. QED
    BY <2>2, <2>3, <2>4 DEF Silent
<1> HIDE DEF m, con, v, ans
<1>4. UNCHANGED <<about, tx, request, byToken>>
  BY DEF Reply
<1>5. /\ reply' \in [Requests -> Response]
      /\ completed' \subseteq Requests /\ live' \subseteq Requests
      /\ sent' \subseteq Answer
  <2>1. /\ reply \in [Requests -> Response]
        /\ completed \subseteq Requests /\ live \subseteq Requests
        /\ sent \subseteq Answer
    BY DEF TypeOK
  <2>2. Stamp(x, a) => completed' \subseteq Requests /\ live' \subseteq Requests
    BY <2>1 DEF Stamp
  <2>3. CASE /\ \E p \in Preparations(rel, o) :
                   reply' = [y \in Requests |->
                      LET b == IF y = x THEN a ELSE reply[y]
                      IN  IF y \in p THEN [b EXCEPT !.form = "prepared"] ELSE b]
             /\ UNCHANGED <<completed, live, sent>>
    <3>1. ASSUME NEW b \in Response
          PROVE  [b EXCEPT !.form = "prepared"] \in Response
      BY DEF Response
    <3>2. QED
      BY <2>1, <2>3, <3>1
  <2>4. CASE /\ reply' = [reply EXCEPT ![x] = a]
             /\ completed' = completed \/ completed' = completed \cup {x}
             /\ UNCHANGED <<live, sent>>
    BY <2>1, <2>4
  <2>5. CASE reply' = [reply EXCEPT ![x] = Sendable(a)] /\ Stamp(x, a) /\ sent' = sent
    BY <1>1, <2>1, <2>2, <2>5
  <2>6. CASE /\ reply' = [reply EXCEPT ![x] = m] /\ Stamp(x, a)
             /\ sent' = sent \cup {ans}
    BY <1>1, <1>2, <2>1, <2>2, <2>6
  <2>7. QED
    BY <2>3, <2>4, <2>5, <2>6 DEF Reply, m, ans
<1>6. \/ relations' = rel /\ wish' = w
      \/ relations' = con /\ wish' = v
  BY DEF Reply, con, v
<1>7. relations' \in [Keys -> Items] /\ wish' \in [Keys -> Words]
      /\ Silent(relations', wish')
  BY <1>3, <1>6
<1>8. /\ changed' \subseteq chg
      /\ \/ pc' = [pc EXCEPT ![r] = "dead"]
         \/ pc' = [pc EXCEPT ![r] = "done"] /\ o \notin changed'
  <2>1. CASE changed' = chg /\ pc' = [pc EXCEPT ![r] = "dead"]
    BY <2>1
  <2>2. CASE changed' = Told(chg, o)
    <3>1. pc' = [pc EXCEPT ![r] = "dead"] \/ pc' = [pc EXCEPT ![r] = "done"]
      BY DEF Reply
    <3>2. QED
      BY <2>2, <3>1 DEF Told
  <2>3. QED
    BY <2>1, <2>2 DEF Reply
<1>9. TypeOK'
  BY <1>4, <1>5, <1>7, <1>8 DEF TypeOK, Items, Words
<1>10. QED
  BY <1>4, <1>7, <1>8, <1>9 DEF CancelledIsSilent, Silent

\* A transaction keeps the resource it has, and others keep theirs.
Keeps(x) ==
    /\ resource' \in [Requests -> Object \cup {Nobody}]
    /\ \A y \in Requests : resource[y] # Nobody \/ y # x => resource'[y] = resource[y]

\* A task that ends in a transaction that keeps its resource disturbs neither
\* the handlers of others nor the tasks that have died.
LEMMA EndedStep ==
    ASSUME IInv, NEW r \in Requests, pc[r] \in {"received", "handling"}, Keeps(tx[r]),
           tx' = tx,
           \/ pc' = [pc EXCEPT ![r] = "dead"] /\ changed' \subseteq changed \cup {resource'[tx[r]]}
           \/ pc' = [pc EXCEPT ![r] = "done"] /\ changed' \subseteq changed
           \/ /\ pc' = [pc EXCEPT ![r] = "handling"] /\ changed' \subseteq changed
              /\ resource'[tx[r]] # Nobody
    PROVE  Located' /\ ChangedMeansUntold'
<1>1. tx \in [Requests -> Requests] /\ changed \subseteq Object /\ Nobody \notin Object
  BY ResourcesAssumption DEF IInv, TypeOK
<1>2. pc \in [Requests -> {"idle", "waiting", "received", "handling", "done", "dead", "lost"}]
  BY DEF IInv, TypeOK
<1>3. ASSUME NEW s \in Requests, pc'[s] = "handling"
      PROVE  resource'[tx'[s]] # Nobody
  <2>1. CASE s = r
    BY <1>2, <1>3, <2>1
  <2>2. CASE s # r
    <3>1. pc[s] = "handling"
      BY <1>2, <1>3, <2>2
    <3>2. resource[tx[s]] # Nobody
      BY <3>1 DEF IInv, Located
    <3>3. QED
      BY <1>1, <3>2 DEF Keeps
  <2>3. QED
    BY <2>1, <2>2
<1>4. ASSUME NEW o \in changed'
      PROVE  \E s \in Requests : pc'[s] = "dead" /\ resource'[tx'[s]] = o
  <2>1. CASE o \in changed
    <3>1. PICK s \in Requests : pc[s] = "dead" /\ resource[tx[s]] = o
      BY <2>1 DEF IInv, ChangedMeansUntold
    <3>2. o # Nobody /\ s # r
      BY <1>1, <2>1, <3>1
    <3>3. pc'[s] = "dead" /\ resource'[tx[s]] = o
      BY <1>1, <1>2, <3>1, <3>2 DEF Keeps
    <3>4. QED
      BY <3>3
  <2>2. CASE o \notin changed
    <3>1. o = resource'[tx[r]] /\ pc'[r] = "dead"
      BY <1>2, <1>4, <2>2
    <3>2. QED
      BY <3>1
  <2>3. QED
    BY <2>1, <2>2
<1>5. QED
  BY <1>3, <1>4 DEF Located, ChangedMeansUntold

LEMMA AnsweredStep ==
    ASSUME IInv, NEW r \in Requests, pc[r] \in {"received", "handling"}, Keeps(tx[r]),
           NEW q \in Requests, NEW a \in Response,
           NEW rel \in [Keys -> Items], NEW w \in [Keys -> Words], Silent(rel, w),
           NEW chg \in SUBSET Object, chg \subseteq changed \cup {resource'[tx[r]]},
           count' \in [Object -> Counts], tree' \in [Paths -> Object \cup {Nobody}],
           Reply(r, tx[r], q, a, rel, w, chg)
    PROVE  IInv'
<1>1. tx[r] \in Requests /\ TypeOK
  BY DEF IInv, TypeOK
<1>2. resource' \in [Requests -> Object \cup {Nobody}]
  BY DEF Keeps
<1>3. /\ TypeOK' /\ CancelledIsSilent' /\ tx' = tx /\ changed' \subseteq chg
      /\ \/ pc' = [pc EXCEPT ![r] = "dead"]
         \/ pc' = [pc EXCEPT ![r] = "done"] /\ resource'[tx[r]] \notin changed'
  BY <1>1, <1>2, ReplyType
<1>4. Located' /\ ChangedMeansUntold'
  BY <1>3, EndedStep
<1>5. QED
  BY <1>3, <1>4 DEF IInv

\* The same of a task that an exception ends.
LEMMA DeadStep ==
    ASSUME IInv, NEW r \in Requests, pc[r] \in {"received", "handling"}, Keeps(tx[r]),
           NEW a \in Response,
           NEW rel \in [Keys -> Items], NEW w \in [Keys -> Words], Silent(rel, w),
           Die(r, tx[r], a, rel, w)
    PROVE  IInv'
<1>1. tx[r] \in Requests
  BY DEF IInv, TypeOK
<1>2. Located' /\ ChangedMeansUntold'
  BY EndedStep DEF Die
<1>3. /\ pc' = [pc EXCEPT ![r] = "dead"] /\ reply' = [reply EXCEPT ![tx[r]] = a]
      /\ relations' = rel /\ wish' = w
      /\ UNCHANGED <<about, tx, request, completed, byToken, live, tree, changed,
                     count, sent>>
  BY DEF Die, exchanges
<1>4. CancelledIsSilent'
  BY <1>3 DEF Silent, CancelledIsSilent
<1>5. TypeOK'
  BY <1>1, <1>3 DEF IInv, TypeOK, Keeps, Items, Words
<1>6. QED
  BY <1>2, <1>4, <1>5 DEF IInv

-----------------------------------------------------------------------------
(* The steps of a request *)

LEMMA JoinStep ==
    ASSUME IInv, NEW r \in Requests, pc[r] \in {"idle", "waiting"},
           NEW x \in Requests, tx' = [tx EXCEPT ![r] = x], byToken' = byToken,
           UNCHANGED elsewhere,
           \/ Join(r, x)
           \/ pc' = [pc EXCEPT ![r] = "waiting"] /\ UNCHANGED <<request, live>>
    PROVE  IInv'
<1> USE DEF elsewhere
<1>1. Key(r) \in Keys
  BY KeyType DEF IInv
<1>2. byToken[Key(r)] \in Requests \cup {Nobody}
  BY <1>1 DEF IInv, TypeOK
<1>3. /\ request' \in [Requests -> Requests] /\ live' \subseteq Requests
      /\ \E s \in {"lost", "received", "waiting"} : pc' = [pc EXCEPT ![r] = s]
  BY <1>2 DEF Join, IInv, TypeOK
<1>4. TypeOK'
  BY <1>3 DEF IInv, TypeOK
<1>5. Located' /\ ChangedMeansUntold' /\ CancelledIsSilent'
  BY <1>3 DEF IInv, TypeOK, Located, ChangedMeansUntold, CancelledIsSilent
<1>6. QED
  BY <1>4, <1>5 DEF IInv

LEMMA ReceiveStep ==
    ASSUME IInv, NEW r \in Requests, Receive(r)
    PROVE  IInv'
<1> DEFINE x == byToken[Key(r)]
<1>1. Key(r) \in Keys
  BY KeyType DEF IInv
<1>2. x \in Requests \cup {Nobody} /\ pc[r] = "idle"
  BY <1>1 DEF IInv, TypeOK, Receive
<1>3. CASE x # Nobody /\ tx' = [tx EXCEPT ![r] = x] /\ byToken' = byToken
           /\ (Join(r, x) \/ (pc' = [pc EXCEPT ![r] = "waiting"]
                              /\ UNCHANGED <<request, live>>))
  BY <1>2, <1>3, JoinStep DEF Receive
<1>4. CASE /\ byToken' = [byToken EXCEPT ![Key(r)] = r] /\ live' = live \cup {r}
           /\ pc' = [pc EXCEPT ![r] = "received"] /\ UNCHANGED <<tx, request>>
  <2>1. UNCHANGED elsewhere
    BY DEF Receive
  <2>2. TypeOK'
    BY <1>1, <1>4, <2>1 DEF IInv, TypeOK, elsewhere
  <2>3. Located' /\ ChangedMeansUntold' /\ CancelledIsSilent'
    BY <1>2, <1>4, <2>1
       DEF IInv, TypeOK, Located, ChangedMeansUntold, CancelledIsSilent, elsewhere
  <2>4. QED
    BY <2>2, <2>3 DEF IInv
<1>5. QED
  BY <1>3, <1>4 DEF Receive

LEMMA GrantedStep ==
    ASSUME IInv, NEW r \in Requests, Granted(r)
    PROVE  IInv'
<1>1. tx[r] \in Requests /\ tx' = [tx EXCEPT ![r] = tx[r]]
  BY DEF IInv, TypeOK, Granted
<1>2. QED
  BY <1>1, JoinStep DEF Granted

\* Answers given without a handler.
LEMMA DirectStep ==
    ASSUME IInv, NEW r \in Requests, pc[r] = "received", Keeps(tx[r]),
           NEW q \in Requests, NEW code \in {"content", "refused"},
           Direct(r, tx[r], q, code)
    PROVE  IInv'
<1>1. TypeOK /\ CancelledIsSilent /\ tx[r] \in Requests
  BY DEF IInv, TypeOK
<1>2. Coded(code) \in Response
  BY CodedType DEF Codes
<1>3. /\ Registered(tx[r], q) \in [Keys -> Items] /\ Wished(q) \in [Keys -> Words]
      /\ Silent(Registered(tx[r], q), Wished(q))
  BY <1>1, RegisteredType
<1>4. /\ changed \in SUBSET Object /\ count' \in [Object -> Counts]
      /\ tree' \in [Paths -> Object \cup {Nobody}]
  BY DEF Direct, IInv, TypeOK
<1>5. QED
  BY <1>2, <1>3, <1>4, AnsweredStep DEF Direct

LEMMA CreateStep ==
    ASSUME IInv, NEW r \in Requests, pc[r] = "received", NEW q \in Requests,
           resource[tx[r]] = Nobody, Create(r, tx[r], q)
    PROVE  IInv'
<1> DEFINE x == tx[r]
           new == <<about[q].path, r>>
<1>1. TypeOK /\ CancelledIsSilent /\ x \in Requests
  BY DEF IInv, TypeOK
<1>2. new \in Object
  BY <1>1, KeyType DEF Object
<1>3. /\ Registered(x, q) \in [Keys -> Items] /\ Wished(q) \in [Keys -> Words]
      /\ Silent(Registered(x, q), Wished(q))
  BY <1>1, RegisteredType
<1>4. Coded("created") \in Response /\ Coded("blank") \in Response
  BY CodedType DEF Codes
<1>5. resource' = resource => Keeps(x)
  BY <1>1 DEF Keeps, TypeOK
<1>6. CASE /\ tree' = [tree EXCEPT ![about[q].path] = new]
           /\ resource' = [resource EXCEPT ![x] = new] /\ count' = count
           /\ Reply(r, x, q, Coded("created"), Registered(x, q), Wished(q),
                    changed \cup {new})
  <2>1. Keeps(x) /\ resource'[x] = new
    BY <1>1, <1>2, <1>6 DEF Keeps, TypeOK
  <2>2. /\ tree' \in [Paths -> Object \cup {Nobody}] /\ count' \in [Object -> Counts]
        /\ changed \cup {new} \in SUBSET Object
    BY <1>1, <1>2, <1>6 DEF TypeOK
  <2>3. QED
    BY <1>3, <1>4, <1>6, <2>1, <2>2, AnsweredStep
<1>7. CASE resource' = resource /\ Refuse(r, x, q)
  BY <1>5, <1>7, DirectStep DEF Refuse
<1>8. CASE resource' = resource /\ Die(r, x, Coded("blank"), Registered(x, q), Wished(q))
  BY <1>3, <1>4, <1>5, <1>8, DeadStep
<1>9. QED
  BY <1>6, <1>7, <1>8 DEF Create

LEMMA RenderStep ==
    ASSUME IInv, NEW r \in Requests, pc[r] = "received", NEW q \in Requests,
           resource[tx[r]] = Nobody, tree[about[q].path] # Nobody, Render(r, tx[r], q)
    PROVE  IInv'
<1> DEFINE x == tx[r]
           o == tree[about[q].path]
<1>1. TypeOK /\ CancelledIsSilent /\ x \in Requests
  BY DEF IInv, TypeOK
<1>2. o \in Object /\ Nobody \notin Object
  BY <1>1, KeyType, ResourcesAssumption DEF TypeOK
<1>3. /\ Registered(x, q) \in [Keys -> Items] /\ Wished(q) \in [Keys -> Words]
      /\ Silent(Registered(x, q), Wished(q))
  BY <1>1, RegisteredType
<1>4. Coded("blank") \in Response
  BY CodedType DEF Codes
<1>5. resource' = [resource EXCEPT ![x] = o]
  BY DEF Render
<1>6. Keeps(x) /\ resource'[x] = o
  BY <1>1, <1>2, <1>5 DEF Keeps, TypeOK
<1>7. CASE Refuse(r, x, q)
  BY <1>6, <1>7, DirectStep DEF Refuse
<1>8. CASE Die(r, x, Coded("blank"), Registered(x, q), Wished(q))
  BY <1>3, <1>4, <1>6, <1>8, DeadStep
<1>9. CASE /\ pc' = [pc EXCEPT ![r] = "handling"]
           /\ reply' = [reply EXCEPT ![x] = Coded("blank")]
           /\ relations' = Registered(x, q) /\ wish' = Wished(q)
           /\ UNCHANGED <<about, tx, request, exchanges, tree, changed, count, sent>>
  <2>1. Located' /\ ChangedMeansUntold'
    BY <1>2, <1>6, <1>9, EndedStep
  <2>2. CancelledIsSilent'
    BY <1>3, <1>9 DEF CancelledIsSilent, Silent
  <2>3. resource' \in [Requests -> Object \cup {Nobody}]
    BY <1>6 DEF Keeps
  <2>4. TypeOK'
    BY <1>1, <1>3, <1>4, <1>9, <2>3 DEF TypeOK, exchanges, Items, Words
  <2>5. QED
    BY <2>1, <2>2, <2>4 DEF IInv
<1>10. QED
  BY <1>7, <1>8, <1>9 DEF Render

LEMMA StartStep ==
    ASSUME IInv, NEW r \in Requests, Start(r)
    PROVE  IInv'
<1> DEFINE x == tx[r]
           q == request[x]
<1>1. TypeOK /\ CancelledIsSilent /\ x \in Requests /\ q \in Requests
  BY DEF IInv, TypeOK
<1>2. pc[r] = "received" /\ (resource' = resource => Keeps(x))
  BY <1>1 DEF Start, Keeps, TypeOK
<1>3. CASE /\ UNCHANGED <<resource, tree, count>>
           /\ Reply(r, x, q, reply[x], Registered(x, q), Wished(q), changed)
  <2>1. /\ Registered(x, q) \in [Keys -> Items] /\ Wished(q) \in [Keys -> Words]
        /\ Silent(Registered(x, q), Wished(q))
    BY <1>1, RegisteredType
  <2>2. /\ reply[x] \in Response /\ changed \in SUBSET Object
        /\ count' \in [Object -> Counts] /\ tree' \in [Paths -> Object \cup {Nobody}]
    BY <1>1, <1>3 DEF TypeOK
  <2>3. QED
    BY <1>1, <1>2, <1>3, <2>1, <2>2, AnsweredStep
<1>4. CASE /\ UNCHANGED resource
           /\ Direct(r, x, q, "content") \/ Direct(r, x, q, "refused")
  BY <1>1, <1>2, <1>4, DirectStep
<1>5. CASE resource[x] = Nobody /\ Create(r, x, q)
  BY <1>1, <1>2, <1>5, CreateStep
<1>6. CASE resource[x] = Nobody /\ tree[about[q].path] # Nobody /\ Render(r, x, q)
  BY <1>1, <1>2, <1>6, RenderStep
<1>7. QED
  BY <1>3, <1>4, <1>5, <1>6 DEF Start

LEMMA ReturnStep ==
    ASSUME IInv, NEW r \in Requests, Return(r)
    PROVE  IInv'
<1> DEFINE x == tx[r]
           q == request[x]
           o == resource[x]
           Answering(code, chg) ==
             Reply(r, x, q, [reply[x] EXCEPT !.code = code], relations, wish, chg)
<1>1. /\ TypeOK /\ CancelledIsSilent /\ x \in Requests /\ q \in Requests
      /\ pc[r] = "handling" /\ resource' = resource
  BY DEF IInv, TypeOK, Return
<1>2. Keeps(x)
  BY <1>1 DEF Keeps, TypeOK
<1>3. o \in Object
  BY <1>1 DEF IInv, Located, TypeOK
<1>4. /\ relations \in [Keys -> Items] /\ wish \in [Keys -> Words]
      /\ Silent(relations, wish)
  BY <1>1 DEF TypeOK, Items, Words, CancelledIsSilent, Silent
<1>5. reply[x] \in Response
  BY <1>1 DEF TypeOK
<1>6. /\ about[q].path \in Paths
      /\ about[q].method \in {"GET", "PUT", "POST", "DELETE"}
  BY <1>1, KeyType
<1>7. ASSUME NEW code \in Codes, NEW chg, chg \in {changed, changed \cup {o}},
             count' \in [Object -> Counts], tree' \in [Paths -> Object \cup {Nobody}],
             Answering(code, chg)
      PROVE  IInv'
  <2>1. [reply[x] EXCEPT !.code = code] \in Response
    BY <1>5 DEF Response
  <2>2. chg \in SUBSET Object /\ chg \subseteq changed \cup {resource'[x]}
    BY <1>1, <1>3, <1>7 DEF TypeOK
  <2>3. QED
    BY <1>1, <1>2, <1>4, <1>7, <2>1, <2>2, AnsweredStep
<1>8. CASE /\ count' = Counted(o) /\ tree' = tree
           /\ Answering("changed", changed \cup {o})
              \/ Answering("created", changed \cup {o})
  <2>1. count' \in [Object -> Counts]
    <3>1. count[o] \in Counts
      BY <1>1, <1>3 DEF TypeOK
    <3>2. (count[o] + 1) % CountSpace \in Counts
      BY <3>1, CountsType
    <3>3. count' = [count EXCEPT ![o] = (count[o] + 1) % CountSpace]
      BY <1>3, <1>8 DEF Counted
    <3>4. QED
      BY <1>1, <3>2, <3>3 DEF TypeOK
  <2>2. tree' \in [Paths -> Object \cup {Nobody}]
    BY <1>1, <1>8 DEF TypeOK
  <2>3. QED
    BY <1>7, <1>8, <2>1, <2>2 DEF Codes
<1>9. CASE /\ count' = count
           /\ tree' = tree \/ tree' = [tree EXCEPT ![about[q].path] = Nobody]
           /\ \E code \in Codes : Answering(code, changed)
  <2>1. count' \in [Object -> Counts] /\ tree' \in [Paths -> Object \cup {Nobody}]
    BY <1>1, <1>6, <1>9 DEF TypeOK
  <2>2. QED
    BY <1>7, <1>9, <2>1
<1>10. CASE Die(r, x, reply[x], relations, wish)
  BY <1>1, <1>2, <1>4, <1>5, <1>10, DeadStep
<1>11. QED
  <2> DEFINE method == about[q].method
             done == [GET |-> "content", PUT |-> "changed", POST |-> "created",
                      DELETE |-> "deleted"][method]
  <2>1. /\ done \in Codes /\ "absent" \in Codes /\ "refused" \in Codes
        /\ method \in {"PUT", "POST"} => done \in {"changed", "created"}
    BY <1>6 DEF Codes
  <2> HIDE DEF Answering
  <2>2. \/ /\ method \in {"PUT", "POST"} /\ count' = Counted(o) /\ tree' = tree
           /\ Answering(done, changed \cup {o})
        \/ /\ count' = count
           /\ tree' = tree \/ tree' = [tree EXCEPT ![about[q].path] = Nobody]
           /\ \/ Answering(done, changed)
              \/ Answering("absent", changed)
              \/ Answering("refused", changed)
        \/ Die(r, x, reply[x], relations, wish)
    BY DEF Return, Answering
  <2>3. QED
    BY <1>8, <1>9, <1>10, <2>1, <2>2

-----------------------------------------------------------------------------
(* What comes from elsewhere, and the theorems *)

\* Steps that leave tasks, resources and flags alone and give a relation only
\* the words it may have.
LEMMA QuietStep ==
    ASSUME IInv, UNCHANGED <<pc, tx, resource, changed>>,
           relations' \in [Keys -> Items], wish' \in [Keys -> Words],
           Silent(relations', wish'),
           UNCHANGED <<about, request, reply, count, sent>>,
           completed' \subseteq Requests, live' \subseteq Requests,
           byToken' \in [Keys -> Requests \cup {Nobody}],
           tree' \in [Paths -> Object \cup {Nobody}]
    PROVE  IInv'
<1>1. TypeOK'
  BY DEF IInv, TypeOK, Items, Words
<1>2. Located' /\ ChangedMeansUntold' /\ CancelledIsSilent'
  BY DEF IInv, Located, ChangedMeansUntold, CancelledIsSilent, Silent
<1>3. QED
  BY <1>1, <1>2 DEF IInv

LEMMA RelateStep ==
    ASSUME IInv, NEW k \in Keys, NEW item \in Items, NEW word \in Words,
           item # Nobody => word \in {"register", "outgoing"}, Relate(k, item, word)
    PROVE  IInv'
<1>1. /\ relations' \in [Keys -> Items] /\ wish' \in [Keys -> Words]
      /\ Silent(relations', wish')
  BY DEF Relate, IInv, TypeOK, Items, Words, CancelledIsSilent, Silent
<1>2. QED
  BY <1>1, QuietStep DEF Relate, IInv, TypeOK, exchanges

LEMMA ReceiveResetStep ==
    ASSUME IInv, NEW x \in Requests, ReceiveReset(x)
    PROVE  IInv'
<1>1. Key(request[x]) \in Keys
  BY KeyType DEF IInv, TypeOK
<1>2. /\ relations' \in [Keys -> Items] /\ wish' \in [Keys -> Words]
      /\ Silent(relations', wish')
  BY <1>1 DEF ReceiveReset, IInv, TypeOK, Items, Words, CancelledIsSilent, Silent
<1>3. QED
  BY <1>2, QuietStep DEF ReceiveReset, IInv, TypeOK

\* Steps that leave relations alone too.
LEMMA SilentStep ==
    ASSUME IInv, UNCHANGED <<pc, tx, resource, changed, relations, wish>>,
           UNCHANGED <<about, request, reply, count, sent>>,
           completed' \subseteq Requests, live' \subseteq Requests,
           byToken' \in [Keys -> Requests \cup {Nobody}],
           tree' \in [Paths -> Object \cup {Nobody}]
    PROVE  IInv'
<1>1. /\ relations' \in [Keys -> Items] /\ wish' \in [Keys -> Words]
      /\ Silent(relations', wish')
  BY DEF IInv, TypeOK, Items, Words, CancelledIsSilent, Silent
<1>2. QED
  BY <1>1, QuietStep

LEMMA PurgeStep ==
    ASSUME IInv, Purge
    PROVE  IInv'
BY SilentStep DEF Purge, IInv, TypeOK

LEMMA LateAckStep ==
    ASSUME IInv, NEW r \in Requests, LateAck(r)
    PROVE  IInv'
BY SilentStep DEF LateAck, IInv, TypeOK

LEMMA TreeStep ==
    ASSUME IInv, NEW p \in Managed, AddResource(p) \/ RemoveResource(p)
    PROVE  IInv'
<1>1. p \in Paths /\ Nobody \notin Requests
  BY ResourcesAssumption
<1>2. tree \in [Paths -> Object \cup {Nobody}] /\ <<p, Nobody>> \in Object
  BY <1>1 DEF IInv, TypeOK, Object
<1>3. tree' \in [Paths -> Object \cup {Nobody}]
  BY <1>1, <1>2 DEF AddResource, RemoveResource
<1>4. QED
  BY <1>3, SilentStep DEF AddResource, RemoveResource, exchanges, IInv, TypeOK

LEMMA InitInv ==
    ASSUME Init
    PROVE  IInv
<1>1. TypeOK
  <2>1. Present \subseteq Paths /\ \A p \in Paths : <<p, Nobody>> \in Object
    BY ResourcesAssumption DEF Object
  <2>2. reply \in [Requests -> Response]
    BY CodedType DEF Init, Codes
  <2>3. tree \in [Paths -> Object \cup {Nobody}]
    BY <2>1 DEF Init
  <2>4. QED
    BY <2>2, <2>3, CountsType DEF Init, TypeOK
<1>2. Located /\ CancelledIsSilent /\ ChangedMeansUntold
  BY DEF Init, Located, CancelledIsSilent, ChangedMeansUntold
<1>3. QED
  BY <1>1, <1>2 DEF IInv

LEMMA NextInv ==
    ASSUME IInv, [Next]_vars
    PROVE  IInv'
<1>1. CASE \E r \in Requests : Receive(r) \/ Granted(r) \/ Start(r) \/ Return(r)
  BY <1>1, ReceiveStep, GrantedStep, StartStep, ReturnStep
<1>2. CASE \E x \in Requests : ReceiveReset(x) \/ LateAck(x)
  BY <1>2, ReceiveResetStep, LateAckStep
<1>3. CASE Purge
  BY <1>3, PurgeStep
<1>4. CASE \E k \in Outbound : ObserveOther(k) \/ RejectOther(k)
  <2>1. PICK k \in Outbound : ObserveOther(k) \/ RejectOther(k)
    BY <1>4
  <2>2. k \in Keys /\ Outgoing \in Items /\ Nobody \in Items
    BY ResourcesAssumption DEF Items
  <2>3. CASE ObserveOther(k)
    BY <2>2, <2>3, RelateStep DEF ObserveOther, Words
  <2>4. CASE RejectOther(k)
    BY <2>2, <2>4, RelateStep DEF RejectOther, Words
  <2>5. QED
    BY <2>1, <2>3, <2>4
<1>5. CASE \E p \in Managed : AddResource(p) \/ RemoveResource(p)
  BY <1>5, TreeStep
<1>6. CASE UNCHANGED vars
  BY <1>6, SilentStep DEF vars, exchanges, IInv, TypeOK
<1>7. QED
  BY <1>1, <1>2, <1>3, <1>4, <1>5, <1>6 DEF Next

LEMMA Invariant == Spec => []IInv
<1>1. Init => IInv
  BY InitInv
<1>2. IInv /\ [Next]_vars => IInv'
  BY NextInv
<1>3. QED
  BY <1>1, <1>2, PTL DEF Spec

\* Every variable keeps its type; above all, the Observe numbers and what is
\* sent are those of resources and requests that exist.
THEOREM TypeCorrect == Spec => []TypeOK
BY Invariant, PTL DEF IInv

\* After a cancellation, an RST or a refusal no answer still under way brings a
\* relation back, however many requests share its token.
THEOREM CancelledStaysSilent == Spec => []CancelledIsSilent
BY Invariant, PTL DEF IInv

\* A change whose author lives on has reset its flag: only a task that died
\* leaves one behind.
THEOREM OnlyTheDeadLeaveFlags == Spec => []ChangedMeansUntold
BY Invariant, PTL DEF IInv

-----------------------------------------------------------------------------
(* Observers and their numbers: what is kept besides *)

Changes == {"changed", "created"}

Settled(x) == reply[x].code \in Changes

\* Requests, transactions and relations meet under one client and token.
KeysKept ==
    /\ \A r \in Requests : Key(tx[r]) = Key(r) /\ Key(request[r]) = Key(r)
    /\ \A k \in Keys : byToken[k] # Nobody => Key(byToken[k]) = k
    /\ \A k \in Keys : relations[k] \in Requests => Key(relations[k]) = k

Working(r) == pc[r] \in {"received", "handling"}

\* A transaction is that of a request that has come, and one task at a time
\* works on it.
TasksKept ==
    /\ \A r \in Requests : pc[r] = "idle" => tx[r] = r
    /\ \A r \in Requests : tx[r] # r => pc[tx[r]] # "idle"
    /\ \A k \in Keys : byToken[k] # Nobody => pc[byToken[k]] # "idle"
    /\ \A r, u \in Requests : Working(r) /\ Working(u) /\ tx[r] = tx[u] => r = u

\* An object that a handler made comes from a transaction that is answered.
Made(o) == o # Nobody /\ o[2] \in Requests => pc[o[2]] # "idle" /\ Settled(tx[o[2]])

RepliesKept ==
    /\ \A r \in Requests : pc[r] = "handling" => reply[tx[r]].code = "blank"
    /\ \A x \in Requests : /\ reply[x].number > 0 => reply[x].code = "content"
                           /\ Settled(x) => resource[x] # Nobody
                           /\ Made(resource[x])
    /\ \A p \in Paths : Made(tree[p])
    /\ \A n \in sent : n.code \in Changes => Settled(n.by) /\ resource[n.by] = n.of

Stands(x) ==
    \/ Observed(resource[x]) /\ reply[x].code = "content"
    \/ reply[x].code \in {"changed", "created", "deleted"}

ObserversInv == KeysKept /\ TasksKept /\ RepliesKept /\ EstablishedObservers

\* The transactions that changed an object, its creation aside.
Changers(o) == {x \in Requests : resource[x] = o /\ Settled(x) /\ x # Creator(o)}

CountKept == \A o \in Object : count[o] = 1 + Cardinality(Changers(o))

\* No more requests than the count has numbers, so that it does not wrap.
CountSuffices == IsFiniteSet(Requests) /\ Cardinality(Requests) + 1 < CountSpace

\* The answering of a request, as far as observers, replies and history go.
LEMMA ReplyEffect ==
    ASSUME TypeOK, NEW r \in Requests, NEW x \in Requests, NEW q \in Requests,
           NEW a \in Response, NEW rel \in [Keys -> Items], NEW w, NEW chg,
           resource' \in [Requests -> Object \cup {Nobody}],
           count' \in [Object -> Counts],
           Reply(r, x, q, a, rel, w, chg)
    PROVE  /\ UNCHANGED <<about, tx, request, byToken>>
           /\ \E s \in {"done", "dead"} : pc' = [pc EXCEPT ![r] = s]
           /\ reply'[x].code = a.code
           /\ reply'[x].number = a.number \/ a.code = "content"
           /\ \A y \in Requests : y # x => /\ reply'[y].code = reply[y].code
                                           /\ reply'[y].number = reply[y].number
           /\ \/ sent' = sent
              \/ \E n : /\ sent' = sent \cup {n}
                        /\ n.to = r /\ n.by = x /\ n.of = resource'[x]
                        /\ n.code = a.code
                        /\ (relations'[Key(q)] # Nobody /\ a.code = "content")
                              => n.of # Nobody /\ n.number = count'[n.of]
                        /\ a.code # "content" => n.number = a.number
           /\ \A k \in Keys : relations'[k] \in Requests =>
                 relations'[k] = rel[k] \/ (k = Key(q) /\ relations'[k] = x)
           /\ pc'[r] = "done" /\ relations'[Key(q)] # Nobody => Stands(x)'
           /\ pc'[r] = "dead" =>
                 a.code \in {"absent", "blank"} \/ resource'[x] \in changed'
           /\ \A k \in Keys : /\ relations'[k] \in Requests \ {x}
                              /\ resource'[relations'[k]] \in chg
                              => resource'[relations'[k]] \in changed'
<1> DEFINE o == resource'[x]
           m == Sendable(Numbered(rel, x, q, a))
           con == Concluded(rel, x, q, a.code)
           ans == [to |-> r, by |-> x, of |-> o, code |-> m.code,
                   number |-> m.number, form |-> m.form]
<1>1. Key(q) \in Keys /\ Nobody \notin Requests
  BY KeyType, ResourcesAssumption DEF TypeOK
<1>2. /\ m.code = a.code
      /\ m.number = a.number \/ a.code = "content"
      /\ rel[Key(q)] # Nobody /\ a.code = "content" /\ Observed(o)
            => m.number = count'[o]
  BY DEF Numbered, Sendable, Response
<1>3. Sendable(a).code = a.code /\ Sendable(a).number = a.number
  BY DEF Sendable, Response
<1>4. /\ \A k \in Keys : k # Key(q) => con[k] = rel[k]
      /\ rel[Key(q)] = Nobody => con[Key(q)] = Nobody
      /\ rel[Key(q)] # Nobody /\ a.code = "content" =>
            con[Key(q)] = IF Observed(o) THEN x ELSE Nobody
      /\ a.code = "refused" => con[Key(q)] = Nobody
      /\ a.code \notin {"content", "refused"} => con = rel
  BY <1>1 DEF Concluded
<1>5. /\ UNCHANGED <<about, tx, request, byToken>>
      /\ \E s \in {"done", "dead"} : pc' = [pc EXCEPT ![r] = s]
  BY DEF Reply
<1>6. reply \in [Requests -> Response]
  BY DEF TypeOK
<1>z. /\ chg \ changed' \subseteq {o}
      /\ o \in chg \ changed' => Audience(rel, o) = {}
  BY DEF Reply, Told
<1>y. ASSUME NEW k \in Keys, rel[k] \in Requests, resource'[rel[k]] \in chg
      PROVE  resource'[rel[k]] \in changed'
  <2>1. resource'[rel[k]] = o => k \in Audience(rel, o)
    BY <1>y DEF Audience
  <2>2. QED
    BY <1>y, <1>z, <2>1
<1> HIDE DEF m, con
<1>7. CASE /\ \E p \in Preparations(rel, o) :
                 reply' = [y \in Requests |->
                    LET b == IF y = x THEN a ELSE reply[y]
                    IN  IF y \in p THEN [b EXCEPT !.form = "prepared"] ELSE b]
           /\ pc' = [pc EXCEPT ![r] = "dead"] /\ relations' = rel /\ sent' = sent
           /\ o \in changed'
  <2>1. PICK p : reply' = [y \in Requests |->
                    LET b == IF y = x THEN a ELSE reply[y]
                    IN  IF y \in p THEN [b EXCEPT !.form = "prepared"] ELSE b]
    BY <1>7
  <2>2. \A b \in Response : LET c == [b EXCEPT !.form = "prepared"] IN
            c.code = b.code /\ c.number = b.number
    BY DEF Response
  <2>3. reply'[x].code = a.code /\ reply'[x].number = a.number
    BY <2>1, <2>2
  <2>4. \A y \in Requests : y # x => /\ reply'[y].code = reply[y].code
                                     /\ reply'[y].number = reply[y].number
    BY <1>6, <2>1, <2>2
  <2>5. pc'[r] # "done"
    BY <1>7 DEF TypeOK
  <2>6. QED
    BY <1>5, <1>7, <1>y, <2>3, <2>4, <2>5
<1>8. CASE /\ a.code \in {"absent", "blank"} /\ sent' = sent /\ relations' = rel
           /\ reply' = [reply EXCEPT ![x] = a] \/ reply' = [reply EXCEPT ![x] = Sendable(a)]
           /\ pc' = [pc EXCEPT ![r] = "dead"] \/ rel[Key(q)] = Nobody
  <2>1. pc' = [pc EXCEPT ![r] = "dead"] => pc'[r] # "done"
    BY DEF TypeOK
  <2>2. /\ reply'[x].code = a.code /\ reply'[x].number = a.number
        /\ \A y \in Requests : y # x => reply'[y] = reply[y]
    BY <1>3, <1>6, <1>8
  <2>3. QED
    BY <1>5, <1>8, <1>y, <2>1, <2>2
<1>9. CASE /\ a.code \notin {"absent", "blank"} /\ reply' = [reply EXCEPT ![x] = m]
           /\ relations' = con /\ sent' = sent \cup {ans}
           /\ pc' = [pc EXCEPT ![r] = "done"]
  <2>1. /\ reply'[x].code = a.code
        /\ reply'[x].number = a.number \/ a.code = "content"
        /\ \A y \in Requests : y # x => reply'[y] = reply[y]
    BY <1>2, <1>6, <1>9
  <2>2. relations'[Key(q)] # Nobody /\ a.code = "content" =>
           Observed(o) /\ rel[Key(q)] # Nobody
    BY <1>1, <1>4, <1>9
  <2>3. /\ ans.to = r /\ ans.by = x /\ ans.of = o /\ ans.code = a.code
        /\ (relations'[Key(q)] # Nobody /\ a.code = "content")
              => ans.of # Nobody /\ ans.number = count'[ans.of]
        /\ a.code # "content" => ans.number = a.number
    BY <1>2, <2>2 DEF Observed
  <2> HIDE DEF ans
  <2>4. \A k \in Keys : relations'[k] \in Requests =>
            relations'[k] = rel[k] \/ (k = Key(q) /\ relations'[k] = x)
    BY <1>1, <1>4, <1>9
  <2>5. relations'[Key(q)] # Nobody => Stands(x)'
    <3>1. a.code \in {"content", "refused", "changed", "created", "deleted"}
      BY <1>9 DEF Response, Codes
    <3>2. QED
      BY <1>4, <1>9, <2>1, <2>2, <3>1 DEF Stands, Observed
  <2>6. pc'[r] # "dead"
    BY <1>9 DEF TypeOK
  <2>7. \A k \in Keys : relations'[k] \in Requests \ {x} => relations'[k] = rel[k]
    BY <2>4
  <2>8. QED
    BY <1>5, <1>9, <1>y, <2>1, <2>3, <2>4, <2>5, <2>6, <2>7
<1>10. QED
  BY <1>7, <1>8, <1>9 DEF Reply, m, con

-----------------------------------------------------------------------------
(* The work of one task *)

\* A resource the task finds, or the one it makes.
Given(o, r, c) == Made(o) \/ (o[2] = r /\ c \in Changes)

\* What the task of r does to resources, when it leaves its transaction with a
\* response of code c: a change is counted, unless it is a creation.
Effects(r, c) ==
    LET x == tx[r] IN
    /\ Keeps(x)
    /\ c \in Changes => resource'[x] # Nobody
    /\ Settled(x) => c \in Changes
    /\ Given(resource'[x], r, c)
    /\ \A p \in Paths : Given(tree'[p], r, c)
    /\ \/ /\ count' = count
          /\ c \in Changes => Settled(x) \/ resource'[x][2] = r
       \/ /\ resource[x] \in Object /\ count' = Counted(resource[x])
          /\ ~Settled(x) /\ c \in Changes

\* What it may do to relations.
Bound(rel, r) ==
    \A k \in Keys : rel[k] \in Requests =>
        rel[k] = relations[k] \/ (k = Key(request[tx[r]]) /\ rel[k] = tx[r])

Works(r, c) ==
    LET x == tx[r] IN
    /\ UNCHANGED <<about, tx, request, byToken>>
    /\ \E s \in {"handling", "done", "dead"} : pc' = [pc EXCEPT ![r] = s]
    /\ pc'[r] = "handling" => c = "blank"
    /\ reply'[x].code = c
    /\ reply'[x].number > 0 => c = "content"
    /\ \A y \in Requests : y # x => /\ reply'[y].code = reply[y].code
                                    /\ reply'[y].number = reply[y].number
    /\ Effects(r, c)
    /\ \/ sent' = sent
       \/ \E n : /\ sent' = sent \cup {n}
                 /\ n.to = r /\ n.by = x /\ n.of = resource'[x] /\ n.code = c
                 /\ (n.number > 0 /\ relations'[Key(request[x])] # Nobody)
                       => n.of # Nobody /\ n.number = count'[n.of]
    /\ Bound(relations', r)
    /\ pc'[r] = "done" /\ relations'[Key(request[x])] # Nobody => Stands(x)'
    /\ pc'[r] = "dead" => c \in {"absent", "blank"} \/ resource'[x] \in changed'
    /\ \A k \in Keys : /\ relations'[k] \in Requests \ {x}
                       /\ resource'[relations'[k]] \in changed
                       => resource'[relations'[k]] \in changed'

LEMMA AnswerWorks ==
    ASSUME TypeOK, NEW r \in Requests, NEW a \in Response,
           NEW rel \in [Keys -> Items], NEW w, NEW chg, Bound(rel, r), changed \subseteq chg,
           Effects(r, a.code), count' \in [Object -> Counts],
           a.number > 0 => a.code = "content",
           Reply(r, tx[r], request[tx[r]], a, rel, w, chg)
    PROVE  Works(r, a.code)
<1>0. tx[r] \in Requests /\ request[tx[r]] \in Requests
  BY DEF TypeOK
<1>x. PICK x \in Requests : x = tx[r]
  BY <1>0
<1>q. PICK q \in Requests : q = request[x]
  BY <1>0, <1>x
<1>2. resource' \in [Requests -> Object \cup {Nobody}]
  BY DEF Effects, Keeps
<1>a. Reply(r, x, q, a, rel, w, chg)
  BY <1>x, <1>q
<1>3. /\ UNCHANGED <<about, tx, request, byToken>>
      /\ \E s \in {"done", "dead"} : pc' = [pc EXCEPT ![r] = s]
      /\ reply'[x].code = a.code
      /\ reply'[x].number = a.number \/ a.code = "content"
      /\ \A y \in Requests : y # x => /\ reply'[y].code = reply[y].code
                                      /\ reply'[y].number = reply[y].number
      /\ \/ sent' = sent
         \/ \E n : /\ sent' = sent \cup {n}
                   /\ n.to = r /\ n.by = x /\ n.of = resource'[x] /\ n.code = a.code
                   /\ (relations'[Key(q)] # Nobody /\ a.code = "content")
                         => n.of # Nobody /\ n.number = count'[n.of]
                   /\ a.code # "content" => n.number = a.number
      /\ \A k \in Keys : relations'[k] \in Requests =>
            relations'[k] = rel[k] \/ (k = Key(q) /\ relations'[k] = x)
      /\ pc'[r] = "done" /\ relations'[Key(q)] # Nobody => Stands(x)'
      /\ pc'[r] = "dead" => a.code \in {"absent", "blank"} \/ resource'[x] \in changed'
      /\ \A k \in Keys : /\ relations'[k] \in Requests \ {x}
                         /\ resource'[relations'[k]] \in chg
                         => resource'[relations'[k]] \in changed'
  BY <1>2, <1>a, ReplyEffect
<1>4. Bound(relations', r)
  BY <1>x, <1>q, <1>3, ResourcesAssumption DEF Bound
<1>5. pc'[r] # "handling"
  BY <1>3 DEF TypeOK
<1>6. QED
  BY <1>x, <1>q, <1>3, <1>4, <1>5 DEF Works, Stands

LEMMA DieWorks ==
    ASSUME TypeOK, NEW r \in Requests, NEW a \in Response,
           NEW rel, NEW w, Bound(rel, r),
           Effects(r, a.code), a.number > 0 => a.code = "content",
           a.code = "blank", Die(r, tx[r], a, rel, w)
    PROVE  Works(r, a.code)
<1>1. tx[r] \in Requests
  BY DEF TypeOK
<1>2. /\ pc' = [pc EXCEPT ![r] = "dead"] /\ reply' = [reply EXCEPT ![tx[r]] = a]
      /\ relations' = rel /\ UNCHANGED <<about, tx, request, byToken, changed, sent>>
  BY DEF Die, exchanges
<1>3. pc'[r] = "dead" /\ reply'[tx[r]] = a
      /\ \A y \in Requests : y # tx[r] => reply'[y] = reply[y]
  BY <1>1, <1>2 DEF TypeOK
<1>4. QED
  BY <1>2, <1>3 DEF Works

LEMMA WorksStep ==
    ASSUME TypeOK, TypeOK', ObserversInv, NEW r \in Requests, Working(r),
           NEW c, Works(r, c)
    PROVE  ObserversInv'
<1> DEFINE x == tx[r]
           q == request[x]
<1>1. /\ x \in Requests /\ q \in Requests /\ Nobody \notin Requests
      /\ tx \in [Requests -> Requests] /\ request \in [Requests -> Requests]
      /\ Outgoing \notin Requests
  BY ResourcesAssumption DEF TypeOK
<1>2. about' = about /\ tx' = tx /\ request' = request /\ byToken' = byToken
  BY DEF Works
<1>3. \A u \in Requests : u # r => pc'[u] = pc[u]
  BY DEF Works, TypeOK
<1>4. /\ pc'[r] \in {"handling", "done", "dead"} /\ pc[r] \in {"received", "handling"}
      /\ pc'[r] # "idle" /\ pc'[r] # "received"
  BY DEF Works, TypeOK, Working
<1>5. Key(q) = Key(x) /\ Key(q) \in Keys
  BY <1>1, KeyType DEF ObserversInv, KeysKept
<1>6. /\ \A y \in Requests : y # x => /\ reply'[y].code = reply[y].code
                                      /\ reply'[y].number = reply[y].number
                                      /\ resource'[y] = resource[y]
      /\ \A y \in Requests : resource[y] # Nobody => resource'[y] = resource[y]
      /\ reply'[x].code = c
  BY <1>1 DEF Works, Effects, Keeps
<1>7. ASSUME NEW u \in Requests, u # r, Working(u)
      PROVE  tx[u] # x
  BY <1>7 DEF ObserversInv, TasksKept
<1>8. \A y \in Requests : Settled(y) => reply'[y].code \in Changes
  BY <1>6 DEF Settled, Works, Effects
<1>9. \A k \in Keys : relations'[k] \in Requests =>
          relations'[k] = relations[k] \/ (k = Key(q) /\ relations'[k] = x)
  BY DEF Works, Bound
<1>10. KeysKept'
  <2>1. \A k \in Keys : relations'[k] \in Requests => Key(relations'[k]) = k
    BY <1>5, <1>9 DEF ObserversInv, KeysKept
  <2>2. \A u : Key(u)' = <<about[u].src, about[u].token>>
    BY <1>2 DEF Key
  <2>3. \A u : Key(u) = <<about[u].src, about[u].token>>
    BY DEF Key
  <2>4. /\ \A u \in Requests : Key(tx[u]) = Key(u) /\ Key(request[u]) = Key(u)
        /\ \A k \in Keys : byToken[k] # Nobody => Key(byToken[k]) = k
    BY DEF ObserversInv, KeysKept
  <2>5. QED
    BY <1>2, <2>1, <2>2, <2>3, <2>4 DEF KeysKept
<1>11. TasksKept'
  <2>1. \A u \in Requests : pc'[u] = "idle" => pc[u] = "idle"
    BY <1>3, <1>4
  <2>2. \A u \in Requests : pc'[u] \in {"received", "handling"} => Working(u)
    BY <1>3, <1>4 DEF Working
  <2>3. \A k \in Keys : byToken[k] \in Requests \cup {Nobody}
    BY DEF TypeOK
  <2>4. /\ \A u \in Requests : pc'[u] = "idle" => tx[u] = u
        /\ \A u \in Requests : tx[u] # u => pc'[tx[u]] # "idle"
        /\ \A k \in Keys : byToken[k] # Nobody => pc'[byToken[k]] # "idle"
    BY <1>1, <2>1, <2>3 DEF ObserversInv, TasksKept
  <2>5. \A u, v \in Requests : Working(u) /\ Working(v) /\ tx[u] = tx[v] => u = v
    BY DEF ObserversInv, TasksKept
  <2>6. \A u, v \in Requests :
            (Working(u) /\ Working(v) /\ tx[u] = tx[v])' => u = v
    BY <1>2, <2>2, <2>5 DEF Working
  <2>7. QED
    BY <1>2, <2>4, <2>6 DEF TasksKept
<1>12. RepliesKept'
  <2>1. ASSUME NEW u \in Requests, pc'[u] = "handling"
        PROVE  reply'[tx[u]].code = "blank"
    <3>1. CASE u = r
      BY <2>1, <3>1 DEF Works
    <3>2. CASE u # r
      <4>1. pc[u] = "handling"
        BY <1>3, <2>1, <3>2
      <4>2. tx[u] # x /\ tx[u] \in Requests
        BY <1>1, <1>7, <3>2, <4>1 DEF Working
      <4>3. QED
        BY <1>6, <4>1, <4>2 DEF ObserversInv, RepliesKept
    <3>3. QED
      BY <3>1, <3>2
  <2>2. ASSUME NEW y \in Requests
        PROVE  /\ reply'[y].number > 0 => reply'[y].code = "content"
               /\ reply'[y].code \in Changes => resource'[y] # Nobody
    BY <1>6 DEF ObserversInv, RepliesKept, Works, Effects, Settled
  <2>3. ASSUME NEW o, Given(o, r, c), o # Nobody, o[2] \in Requests
        PROVE  pc'[o[2]] # "idle" /\ reply'[tx[o[2]]].code \in Changes
    <3>1. CASE Made(o)
      <4>1. pc[o[2]] # "idle" /\ Settled(tx[o[2]]) /\ tx[o[2]] \in Requests
        BY <1>1, <2>3, <3>1 DEF Made
      <4>2. QED
        BY <1>3, <1>4, <1>8, <2>3, <4>1
    <3>2. CASE o[2] = r /\ c \in Changes
      BY <1>4, <1>6, <3>2
    <3>3. QED
      BY <2>3, <3>1, <3>2 DEF Given
  <2>4. \A y \in Requests : Given(resource'[y], r, c)
    <3>1. \A y \in Requests : y # x => Made(resource[y]) /\ resource'[y] = resource[y]
      BY <1>6 DEF ObserversInv, RepliesKept
    <3>2. Given(resource'[x], r, c)
      BY DEF Works, Effects
    <3>3. QED
      BY <3>1, <3>2 DEF Given
  <2>5. \A p \in Paths : Given(tree'[p], r, c)
    BY DEF Works, Effects
  <2>6. /\ \A y \in Requests : Made(resource[y])'
        /\ \A p \in Paths : Made(tree[p])'
    BY <1>2, <2>3, <2>4, <2>5 DEF Made, Settled
  <2>7. ASSUME NEW n \in sent', n.code \in Changes
        PROVE  reply'[n.by].code \in Changes /\ resource'[n.by] = n.of
    <3>1. CASE n \in sent
      <4>1. Settled(n.by) /\ resource[n.by] = n.of /\ n.by \in Requests
        BY <2>7, <3>1 DEF ObserversInv, RepliesKept, TypeOK, Answer
      <4>2. resource[n.by] # Nobody
        BY <4>1 DEF ObserversInv, RepliesKept
      <4>3. QED
        BY <1>6, <1>8, <4>1, <4>2
    <3>2. CASE n \notin sent
      <4>1. n.by = x /\ n.of = resource'[x] /\ n.code = c
        BY <2>7, <3>2 DEF Works
      <4>2. QED
        BY <1>6, <2>7, <4>1
    <3>3. QED
      BY <3>1, <3>2
  <2>8. QED
    BY <1>2, <2>1, <2>2, <2>6, <2>7 DEF RepliesKept, Settled
<1>13. EstablishedObservers'
  <2>1. SUFFICES ASSUME NEW k \in Keys, relations'[k] \in Requests,
                        ~Busy(relations[k])'
                 PROVE  Stands(relations[k])' \/ CutShort(relations[k])'
    BY DEF EstablishedObservers, Stands
  <2>z. PICK z \in Requests : z = relations'[k]
    BY <2>1
  <2>b. \A u \in Requests : tx[u] = z => pc'[u] \notin {"received", "handling"}
    BY <1>2, <2>1, <2>z DEF Busy
  <2>2. CASE z = x
    <3>1. pc'[r] \in {"done", "dead"}
      BY <1>4, <2>2, <2>b
    <3>2. k = Key(q)
      <4>1. CASE z = relations[k]
        BY <1>5, <2>1, <2>2, <4>1 DEF ObserversInv, KeysKept
      <4>2. QED
        BY <1>9, <2>1, <2>z, <4>1
    <3>3. CASE pc'[r] = "done"
      <4>1. Stands(x)'
        BY <1>1, <2>1, <3>2, <3>3 DEF Works
      <4>2. QED
        BY <1>2, <2>2, <2>z, <4>1 DEF Stands
    <3>4. CASE pc'[r] = "dead"
      <4>1. reply'[z].code \in {"absent", "blank"} \/ resource'[z] \in changed'
        BY <1>6, <2>2, <3>4 DEF Works
      <4>2. QED
        BY <1>2, <2>2, <2>z, <3>4, <4>1 DEF CutShort
    <3>5. QED
      BY <3>1, <3>3, <3>4
  <2>3. CASE z # x
    <3>1. z = relations[k]
      BY <1>9, <2>1, <2>3, <2>z
    <3>2. ~Busy(z)
      BY <1>3, <2>3, <2>b DEF Busy
    <3>3. Stands(z) \/ CutShort(z)
      BY <3>1, <3>2 DEF ObserversInv, EstablishedObservers, Stands
    <3>4. reply'[z].code = reply[z].code /\ resource'[z] = resource[z]
      BY <1>6, <2>3
    <3>5. CASE Stands(z)
      BY <2>z, <3>4, <3>5 DEF Stands
    <3>6. CASE CutShort(z)
      <4>1. PICK u \in Requests : tx[u] = z /\ pc[u] = "dead"
        BY <3>6 DEF CutShort
      <4>2. tx'[u] = z /\ pc'[u] = "dead"
        BY <1>2, <1>3, <2>3, <4>1
      <4>3. resource[z] \in changed => resource'[z] \in changed'
        BY <2>3, <2>z, <3>4 DEF Works
      <4>4. QED
        BY <2>z, <3>4, <3>6, <4>2, <4>3 DEF CutShort
    <3>7. QED
      BY <3>3, <3>5, <3>6
  <2>4. QED
    BY <2>2, <2>3
<1>14. QED
  BY <1>10, <1>11, <1>12, <1>13 DEF ObserversInv

LEMMA CountStep ==
    ASSUME TypeOK, ObserversInv, CountKept, CountSuffices,
           NEW r \in Requests, NEW c, Works(r, c)
    PROVE  CountKept'
<1>1. tx[r] \in Requests /\ tx \in [Requests -> Requests] /\ Nobody \notin Requests
  BY ResourcesAssumption DEF TypeOK
<1>x. PICK x \in Requests : x = tx[r]
  BY <1>1
<1>2. tx' = tx /\ count \in [Object -> Counts] /\ Nobody \notin Object
  BY ResourcesAssumption DEF Works, TypeOK
<1>3. /\ \A y \in Requests : y # x => /\ reply'[y].code = reply[y].code
                                      /\ resource'[y] = resource[y]
      /\ resource[x] # Nobody => resource'[x] = resource[x]
      /\ reply'[x].code = c
  BY <1>x DEF Works, Effects, Keeps
<1>4. \A o : Creator(o)' = Creator(o)
  BY <1>2 DEF Creator
<1>5. \A o : Changers(o)' = {y \in Requests : /\ resource'[y] = o
                                              /\ reply'[y].code \in Changes
                                              /\ y # Creator(o)}
  BY <1>4 DEF Changers, Settled
<1>6. \A o : Changers(o) = {y \in Requests : /\ resource[y] = o
                                             /\ reply[y].code \in Changes
                                             /\ y # Creator(o)}
  BY DEF Changers, Settled
<1>7. /\ Settled(x) => c \in Changes /\ resource[x] # Nobody
      /\ Made(resource[x])
  BY <1>x DEF Works, Effects, ObserversInv, RepliesKept
<1>8. CASE count' = count /\ (c \in Changes => Settled(x) \/ resource'[x][2] = r)
  <2>1. ASSUME NEW o \in Object
        PROVE  Changers(o)' = Changers(o)
    <3>1. resource'[x] = o /\ o[2] = r => x = Creator(o)
      BY <1>x DEF Creator
    <3>2. ASSUME NEW y \in Requests
          PROVE  y \in Changers(o)' <=> y \in Changers(o)
      <4>1. CASE y # x
        BY <1>3, <1>5, <1>6, <4>1
      <4>2. CASE y = x
        BY <1>3, <1>5, <1>6, <1>7, <1>8, <3>1, <4>2 DEF Settled
      <4>3. QED
        BY <4>1, <4>2
    <3>3. QED
      BY <1>5, <1>6, <3>2
  <2>2. QED
    BY <1>8, <2>1 DEF CountKept
<1>9. CASE /\ resource[x] \in Object /\ count' = Counted(resource[x])
           /\ ~Settled(x) /\ c \in Changes
  <2>1. PICK p \in Object : p = resource[x]
    BY <1>9
  <2>2. resource'[x] = p /\ x # Creator(p)
    <3>1. CASE p[2] \in Requests
      BY <1>2, <1>7, <1>9, <1>3, <2>1, <3>1 DEF Made, Creator
    <3>2. CASE p[2] \notin Requests
      BY <1>1, <1>2, <1>3, <2>1, <3>2 DEF Creator
    <3>3. QED
      BY <3>1, <3>2
  <2>3. ASSUME NEW o \in Object
        PROVE  Changers(o)' = IF o = p THEN Changers(o) \cup {x} ELSE Changers(o)
    <3>1. ASSUME NEW y \in Requests, y # x
          PROVE  y \in Changers(o)' <=> y \in Changers(o)
      BY <1>3, <1>5, <1>6, <3>1
    <3>2. x \in Changers(o)' <=> o = p
      BY <1>3, <1>5, <1>9, <2>2
    <3>3. x \notin Changers(o)
      BY <1>6, <1>9 DEF Settled
    <3>4. QED
      BY <1>5, <1>6, <3>1, <3>2, <3>3
  <2>4. x \notin Changers(p)
    BY <1>6, <1>9 DEF Settled
  <2>5. count'[p] = 1 + Cardinality(Changers(p) \cup {x})
    <3> DEFINE D == Changers(p)
    <3>1. D \in SUBSET Requests /\ (D \cup {x}) \in SUBSET Requests
      BY <1>6
    <3> HIDE DEF D
    <3>2. /\ IsFiniteSet(D)
          /\ Cardinality(D \cup {x}) <= Cardinality(Requests)
      BY <3>1, FS_Subset DEF CountSuffices
    <3>3. Cardinality(D) \in Nat /\ Cardinality(Requests) \in Nat
      BY <3>2, FS_CardinalityType DEF CountSuffices
    <3>4. Cardinality(D \cup {x}) = Cardinality(D) + 1
      BY <2>4, <3>2, FS_AddElement DEF D
    <3>5. count[p] = 1 + Cardinality(D)
      BY DEF CountKept, D
    <3>6. CountSpace \in Nat /\ 2 + Cardinality(D) < CountSpace
      BY <3>2, <3>3, <3>4, ResourcesAssumption DEF CountSuffices
    <3>7. (count[p] + 1) % CountSpace = 2 + Cardinality(D)
      BY <3>3, <3>5, <3>6
    <3>8. count'[p] = (count[p] + 1) % CountSpace
      BY <1>2, <1>9, <2>1 DEF Counted
    <3>9. QED
      BY <3>3, <3>4, <3>7, <3>8 DEF D
  <2>6. \A o \in Object : o # p => count'[o] = count[o]
    BY <1>2, <1>9, <2>1 DEF Counted
  <2>7. QED
    BY <2>3, <2>5, <2>6 DEF CountKept
<1>10. QED
  BY <1>x, <1>8, <1>9 DEF Works, Effects

\* A request that comes in, or that gets the lock it waits for.
LEMMA JoinsStep ==
    ASSUME TypeOK, TypeOK', ObserversInv, NEW r \in Requests,
           pc[r] \in {"idle", "waiting"},
           NEW x \in Requests, tx' = [tx EXCEPT ![r] = x],
           Key(x) = Key(r), pc[x] # "idle" \/ x = r, pc[r] = "waiting" => x = tx[r],
           NEW s \in {"lost", "received", "waiting"}, pc' = [pc EXCEPT ![r] = s],
           s = "received" => ~Busy(x),
           \/ request' = request
           \/ \E owner \in Requests : /\ request' = [request EXCEPT ![owner] = r]
                                      /\ Key(owner) = Key(r),
           byToken' = byToken \/ byToken' = [byToken EXCEPT ![Key(r)] = r],
           UNCHANGED <<about, resource, reply, relations, tree, changed, count, sent>>
    PROVE  ObserversInv' /\ (CountKept => CountKept')
<1>1. /\ tx \in [Requests -> Requests] /\ request \in [Requests -> Requests]
      /\ byToken \in [Keys -> Requests \cup {Nobody}] /\ Nobody \notin Requests
      /\ Key(r) \in Keys
  BY KeyType, ResourcesAssumption DEF TypeOK
<1>2. /\ \A u \in Requests : u # r => pc'[u] = pc[u] /\ tx'[u] = tx[u]
      /\ pc'[r] = s /\ tx'[r] = x /\ s # "idle"
      /\ pc[r] # "idle" => tx'[r] = tx[r]
  BY <1>1 DEF TypeOK
<1>3. \A u : Key(u)' = <<about[u].src, about[u].token>>
  BY DEF Key
<1>4. \A u : Key(u) = <<about[u].src, about[u].token>>
  BY DEF Key
<1>5. \A u : Key(u)' = Key(u)
  BY <1>3, <1>4
<1>6. KeysKept'
  <2>1. \A u \in Requests : Key(tx'[u]) = Key(u)
    BY <1>1, <1>2 DEF ObserversInv, KeysKept
  <2>2. \A u \in Requests : Key(request'[u]) = Key(u)
    BY <1>1 DEF ObserversInv, KeysKept
  <2>3. \A k \in Keys : byToken'[k] # Nobody => Key(byToken'[k]) = k
    BY <1>1 DEF ObserversInv, KeysKept
  <2>4. \A k \in Keys : relations'[k] \in Requests => Key(relations'[k]) = k
    BY DEF ObserversInv, KeysKept
  <2>5. QED
    BY <1>3, <1>4, <2>1, <2>2, <2>3, <2>4 DEF KeysKept
<1>7. TasksKept'
  <2>1. \A u \in Requests : pc[u] # "idle" => pc'[u] # "idle"
    BY <1>2
  <2>2. \A u \in Requests : pc'[u] = "idle" => tx'[u] = u
    BY <1>2 DEF ObserversInv, TasksKept
  <2>3. ASSUME NEW u \in Requests, tx'[u] # u
        PROVE  pc'[tx'[u]] # "idle"
    <3>1. CASE u = r
      BY <1>2, <2>1, <2>3, <3>1
    <3>2. CASE u # r
      BY <1>1, <1>2, <2>1, <2>3, <3>2 DEF ObserversInv, TasksKept
    <3>3. QED
      BY <3>1, <3>2
  <2>4. ASSUME NEW k \in Keys, byToken'[k] # Nobody
        PROVE  pc'[byToken'[k]] # "idle"
    <3>1. CASE byToken'[k] = byToken[k]
      BY <1>1, <2>1, <2>4, <3>1 DEF ObserversInv, TasksKept
    <3>2. CASE byToken'[k] # byToken[k]
      BY <1>1, <1>2, <3>2
    <3>3. QED
      BY <3>1, <3>2
  <2>5. ASSUME NEW u \in Requests, NEW v \in Requests,
               pc'[u] \in {"received", "handling"}, pc'[v] \in {"received", "handling"},
               tx'[u] = tx'[v]
        PROVE  u = v
    <3>1. CASE u # r /\ v # r
      BY <1>2, <2>5, <3>1 DEF ObserversInv, TasksKept, Working
    <3>2. CASE u = r /\ v # r
      <4>1. s = "received" /\ tx[v] = x /\ pc[v] \in {"received", "handling"}
        BY <1>2, <2>5, <3>2
      <4>2. QED
        BY <4>1 DEF Busy
    <3>3. CASE u # r /\ v = r
      <4>1. s = "received" /\ tx[u] = x /\ pc[u] \in {"received", "handling"}
        BY <1>2, <2>5, <3>3
      <4>2. QED
        BY <4>1 DEF Busy
    <3>4. QED
      BY <3>1, <3>2, <3>3
  <2>6. QED
    BY <2>2, <2>3, <2>4, <2>5 DEF TasksKept, Working
<1>8. \A y : Settled(y)' = Settled(y)
  BY DEF Settled
<1>9. RepliesKept'
  <2>1. ASSUME NEW u \in Requests, pc'[u] = "handling"
        PROVE  reply[tx'[u]].code = "blank"
    BY <1>2, <2>1 DEF ObserversInv, RepliesKept
  <2>2. ASSUME NEW o, Made(o), o # Nobody, o[2] \in Requests
        PROVE  pc'[o[2]] # "idle" /\ reply[tx'[o[2]]].code \in Changes
    BY <1>2, <2>2 DEF Made, Settled
  <2>3. /\ \A y \in Requests : Made(resource[y])
        /\ \A p \in Paths : Made(tree[p])
    BY DEF ObserversInv, RepliesKept
  <2>4. /\ \A y \in Requests : Made(resource[y])'
        /\ \A p \in Paths : Made(tree[p])'
    BY <2>2, <2>3 DEF Made, Settled
  <2>5. QED
    BY <1>8, <2>1, <2>4 DEF ObserversInv, RepliesKept
<1>10. EstablishedObservers'
  <2>1. \A u \in Requests : /\ Working(u) => Working(u)' /\ tx'[u] = tx[u]
                            /\ pc[u] = "dead" => pc'[u] = "dead" /\ tx'[u] = tx[u]
    BY <1>2 DEF Working
  <2>2. ASSUME NEW z \in Requests
        PROVE  /\ Busy(z) => Busy(z)'
               /\ CutShort(z) => CutShort(z)'
    BY <2>1 DEF Busy, Working, CutShort
  <2>3. QED
    BY <2>2 DEF ObserversInv, EstablishedObservers, Observed
<1>11. ASSUME CountKept
       PROVE  CountKept'
  <2>1. ASSUME NEW o \in Object
        PROVE  Changers(o)' = Changers(o)
    <3>1. Creator(o)' = IF o[2] \in Requests THEN tx'[o[2]] ELSE Nobody
      BY DEF Creator
    <3>2. CASE Creator(o)' = Creator(o)
      BY <1>8, <3>2 DEF Changers
    <3>3. CASE Creator(o)' # Creator(o)
      <4>1. o[2] = r /\ pc[r] = "idle"
        BY <1>2, <3>1, <3>3 DEF Creator
      <4>2. o # Nobody
        BY ResourcesAssumption
      <4>3. \A y \in Requests : resource[y] # o
        BY <4>1, <4>2 DEF ObserversInv, RepliesKept, Made
      <4>4. QED
        BY <4>3 DEF Changers
    <3>4. QED
      BY <3>2, <3>3
  <2>2. QED
    BY <1>11, <2>1 DEF CountKept
<1>12. QED
  BY <1>6, <1>7, <1>9, <1>10, <1>11 DEF ObserversInv

\* What comes from elsewhere.
LEMMA ElsewhereStep ==
    ASSUME TypeOK, ObserversInv,
           UNCHANGED <<about, pc, tx, request, resource, reply, changed, count, sent>>,
           \A k \in Keys : byToken'[k] \in {byToken[k], Nobody},
           \A k \in Keys : relations'[k] \in {relations[k], Nobody, Outgoing},
           \A p \in Paths : tree'[p] \in {tree[p], Nobody} \/ tree'[p][2] = Nobody
    PROVE  ObserversInv' /\ (CountKept => CountKept')
<1>1. Outgoing \notin Requests /\ Nobody \notin Requests
  BY ResourcesAssumption
<1>2. \A u : Key(u)' = Key(u)
  BY DEF Key
<1>3. KeysKept'
  BY <1>1, <1>2 DEF ObserversInv, KeysKept
<1>4. TasksKept'
  <2>1. \A u : Working(u)' = Working(u)
    BY DEF Working
  <2>2. QED
    BY <2>1 DEF ObserversInv, TasksKept
<1>5. RepliesKept'
  <2>1. \A y : Settled(y)' = Settled(y)
    BY DEF Settled
  <2>2. \A y \in Requests : Made(resource[y])'
    BY <2>1 DEF ObserversInv, RepliesKept, Made
  <2>3. \A p \in Paths : Made(tree[p])'
    <3>1. ASSUME NEW p \in Paths, tree'[p] # Nobody, tree'[p][2] \in Requests
          PROVE  pc[tree'[p][2]] # "idle" /\ Settled(tx[tree'[p][2]])
      BY <1>1, <3>1 DEF ObserversInv, RepliesKept, Made
    <3>2. QED
      BY <3>1 DEF Made, Settled
  <2>4. QED
    BY <2>1, <2>2, <2>3 DEF ObserversInv, RepliesKept
<1>6. EstablishedObservers'
  <2>1. \A z : Busy(z)' = Busy(z) /\ CutShort(z)' = CutShort(z)
    BY DEF Busy, CutShort
  <2>2. QED
    BY <1>1, <2>1 DEF ObserversInv, EstablishedObservers, Observed
<1>7. CountKept => CountKept'
  BY DEF CountKept, Changers, Settled, Creator
<1>8. QED
  BY <1>3, <1>4, <1>5, <1>6, <1>7 DEF ObserversInv

-----------------------------------------------------------------------------
(* The steps once more *)

LEMMA ReceiveJoins ==
    ASSUME IInv, IInv', ObserversInv, NEW r \in Requests, Receive(r) \/ Granted(r)
    PROVE  ObserversInv' /\ (CountKept => CountKept')
<1> USE DEF elsewhere
<1>1. TypeOK /\ TypeOK'
  BY DEF IInv
<1>2. /\ tx \in [Requests -> Requests] /\ Key(r) \in Keys
      /\ byToken[Key(r)] \in Requests \cup {Nobody} /\ Nobody \notin Requests
  BY <1>1, KeyType, ResourcesAssumption DEF TypeOK
<1>3. ASSUME NEW x \in Requests, Join(r, x)
      PROVE  /\ \E s \in {"lost", "received"} : pc' = [pc EXCEPT ![r] = s]
             /\ \/ request' = request
                \/ \E owner \in Requests : /\ request' = [request EXCEPT ![owner] = r]
                                           /\ Key(owner) = Key(r)
  BY <1>2, <1>3 DEF Join, ObserversInv, KeysKept
<1>4. CASE Granted(r)
  <2>1. PICK x \in Requests : x = tx[r]
    BY <1>2
  <2>2. tx' = [tx EXCEPT ![r] = x]
    BY <1>2, <1>4, <2>1 DEF Granted
  <2>3. Key(x) = Key(r) /\ (pc[x] # "idle" \/ x = r)
    BY <2>1 DEF ObserversInv, KeysKept, TasksKept
  <2>4. Join(r, x) /\ ~Busy(x) /\ pc[r] = "waiting"
    BY <1>4, <2>1 DEF Granted
  <2>5. UNCHANGED <<about, resource, reply, relations, tree, changed, count, sent, byToken>>
    BY <1>4 DEF Granted
  <2>6. QED
    BY <1>1, <1>3, <2>1, <2>2, <2>3, <2>4, <2>5, JoinsStep
<1>5. CASE /\ Receive(r) /\ byToken[Key(r)] # Nobody /\ byToken' = byToken
           /\ tx' = [tx EXCEPT ![r] = byToken[Key(r)]]
           /\ \/ ~Busy(byToken[Key(r)]) /\ Join(r, byToken[Key(r)])
              \/ pc' = [pc EXCEPT ![r] = "waiting"] /\ UNCHANGED <<request, live>>
  <2>1. PICK x \in Requests : x = byToken[Key(r)]
    BY <1>2, <1>5
  <2>2. Key(x) = Key(r) /\ pc[x] # "idle"
    BY <1>2, <1>5, <2>1 DEF ObserversInv, KeysKept, TasksKept
  <2>3. /\ UNCHANGED <<about, resource, reply, relations, tree, changed, count, sent>>
        /\ pc[r] = "idle" /\ tx' = [tx EXCEPT ![r] = x]
    BY <1>5, <2>1 DEF Receive
  <2>4. CASE ~Busy(x) /\ Join(r, x)
    BY <1>1, <1>3, <1>5, <2>2, <2>3, <2>4, JoinsStep
  <2>5. CASE pc' = [pc EXCEPT ![r] = "waiting"] /\ UNCHANGED <<request, live>>
    BY <1>1, <1>5, <2>2, <2>3, <2>5, JoinsStep
  <2>6. QED
    BY <1>5, <2>1, <2>4, <2>5
<1>6. CASE /\ Receive(r) /\ byToken' = [byToken EXCEPT ![Key(r)] = r]
           /\ pc' = [pc EXCEPT ![r] = "received"] /\ UNCHANGED <<tx, request>>
  <2>1. /\ UNCHANGED <<about, resource, reply, relations, tree, changed, count, sent>>
        /\ pc[r] = "idle"
    BY <1>6 DEF Receive
  <2>2. tx[r] = r /\ tx' = [tx EXCEPT ![r] = r]
    BY <1>2, <1>6, <2>1 DEF ObserversInv, TasksKept
  <2>3. ~Busy(r)
    BY <2>1 DEF ObserversInv, TasksKept, Busy
  <2>4. QED
    BY <1>1, <1>6, <2>1, <2>2, <2>3, JoinsStep
<1>7. QED
  BY <1>4, <1>5, <1>6 DEF Receive

LEMMA Bounds ==
    ASSUME TypeOK, NEW r \in Requests
    PROVE  Bound(relations, r) /\ Bound(Registered(tx[r], request[tx[r]]), r)
<1> DEFINE x == tx[r]
           q == request[x]
<1>1. q \in Requests /\ Nobody \notin Requests
  BY ResourcesAssumption DEF TypeOK
<1>2. Key(q) \in Keys /\ relations \in [Keys -> Requests \cup {Nobody, Outgoing}]
  BY <1>1, KeyType DEF TypeOK
<1>3. ASSUME NEW k \in Keys, Registered(x, q)[k] \in Requests
      PROVE  Registered(x, q)[k] = relations[k] \/ (k = Key(q) /\ Registered(x, q)[k] = x)
  BY <1>1, <1>2, <1>3 DEF Registered
<1>4. QED
  BY <1>3 DEF Bound

\* The effects of a task that leaves resources alone.
LEMMA NoEffects ==
    ASSUME TypeOK, ObserversInv, NEW r \in Requests, NEW c,
           c \in Changes <=> Settled(tx[r]), resource' = resource, count' = count,
           \A p \in Paths : tree'[p] \in {tree[p], Nobody}
    PROVE  Effects(r, c)
<1>1. tx[r] \in Requests /\ resource \in [Requests -> Object \cup {Nobody}]
  BY DEF TypeOK
<1>2. Keeps(tx[r])
  BY <1>1 DEF Keeps
<1>3. /\ Settled(tx[r]) => resource[tx[r]] # Nobody
      /\ Made(resource[tx[r]]) /\ Made(Nobody)
      /\ \A p \in Paths : Made(tree[p])
  BY <1>1 DEF ObserversInv, RepliesKept, Made
<1>4. /\ Given(resource'[tx[r]], r, c)
      /\ \A p \in Paths : Given(tree'[p], r, c)
  BY <1>3 DEF Given
<1>5. QED
  BY <1>2, <1>3, <1>4 DEF Effects

LEMMA DirectWorks ==
    ASSUME IInv, ObserversInv, NEW r \in Requests, NEW code \in {"content", "refused"},
           Keeps(tx[r]), resource[tx[r]] = Nobody, Made(resource'[tx[r]]),
           Direct(r, tx[r], request[tx[r]], code)
    PROVE  Works(r, code)
<1> DEFINE x == tx[r]
           q == request[x]
<1>1. TypeOK /\ CancelledIsSilent /\ x \in Requests /\ q \in Requests
  BY DEF IInv, TypeOK
<1>2. Coded(code) \in Response /\ Coded(code).code = code /\ Coded(code).number = 0
  BY CodedType DEF Codes, Coded
<1>3. Registered(x, q) \in [Keys -> Items] /\ Bound(Registered(x, q), r)
  BY <1>1, RegisteredType, Bounds
<1>4. UNCHANGED <<tree, count>> /\ count' \in [Object -> Counts]
  BY <1>1 DEF Direct, TypeOK
<1>5. code \notin Changes /\ ~Settled(x)
  BY <1>1 DEF Changes, ObserversInv, RepliesKept
<1>6. Effects(r, code)
  BY <1>4, <1>5 DEF Effects, Given, ObserversInv, RepliesKept
<1>7. Reply(r, x, q, Coded(code), Registered(x, q), Wished(q), changed)
  BY DEF Direct
<1>8. Works(r, Coded(code).code)
  BY <1>1, <1>2, <1>3, <1>4, <1>6, <1>7, AnswerWorks
<1>9. QED
  BY <1>2, <1>8

LEMMA CreateWorks ==
    ASSUME IInv, ObserversInv, NEW r \in Requests,
           resource[tx[r]] = Nobody, Create(r, tx[r], request[tx[r]])
    PROVE  \E c : Works(r, c)
<1> DEFINE x == tx[r]
           q == request[x]
           new == <<about[q].path, r>>
<1>1. TypeOK /\ CancelledIsSilent /\ x \in Requests /\ q \in Requests
  BY DEF IInv, TypeOK
<1>2. new \in Object /\ new # Nobody /\ about[q].path \in Paths
  BY <1>1, KeyType, ResourcesAssumption DEF Object
<1>3. Registered(x, q) \in [Keys -> Items] /\ Bound(Registered(x, q), r)
  BY <1>1, RegisteredType, Bounds
<1>4. /\ Coded("created") \in Response /\ Coded("blank") \in Response
      /\ Coded("created").code = "created" /\ Coded("created").number = 0
      /\ Coded("blank").code = "blank" /\ Coded("blank").number = 0
  BY CodedType DEF Codes, Coded
<1>5. resource' = resource => Keeps(x) /\ Made(resource'[x])
  BY <1>1 DEF Keeps, TypeOK, Made
<1>6. ~Settled(x)
  BY <1>1 DEF ObserversInv, RepliesKept
<1>7. CASE /\ tree' = [tree EXCEPT ![about[q].path] = new]
           /\ resource' = [resource EXCEPT ![x] = new] /\ count' = count
           /\ Reply(r, x, q, Coded("created"), Registered(x, q), Wished(q),
                    changed \cup {new})
  <2>1. Keeps(x) /\ resource'[x] = new
    BY <1>1, <1>2, <1>7 DEF Keeps, TypeOK
  <2>2. \A p \in Paths : tree'[p] = IF p = about[q].path THEN new ELSE tree[p]
    BY <1>1, <1>7 DEF TypeOK
  <2>3. "created" \in Changes /\ new[2] = r
    BY DEF Changes
  <2>4. Effects(r, "created")
    BY <1>2, <1>6, <1>7, <2>1, <2>2, <2>3 DEF Effects, Given, ObserversInv, RepliesKept
  <2>5. count' \in [Object -> Counts]
    BY <1>1, <1>7 DEF TypeOK
  <2>6. Works(r, Coded("created").code)
    BY <1>1, <1>3, <1>4, <1>7, <2>4, <2>5, AnswerWorks
  <2>7. QED
    BY <2>6
<1>8. CASE resource' = resource /\ Refuse(r, x, q)
  BY <1>5, <1>8, DirectWorks DEF Refuse
<1>9. CASE resource' = resource /\ Die(r, x, Coded("blank"), Registered(x, q), Wished(q))
  <2>1. Effects(r, "blank")
    BY <1>1, <1>6, <1>9, NoEffects DEF Die, Changes
  <2>2. Works(r, Coded("blank").code)
    BY <1>1, <1>3, <1>4, <1>9, <2>1, DieWorks
  <2>3. QED
    BY <2>2
<1>10. QED
  BY <1>7, <1>8, <1>9 DEF Create

LEMMA RenderWorks ==
    ASSUME IInv, ObserversInv, NEW r \in Requests, resource[tx[r]] = Nobody,
           tree[about[request[tx[r]]].path] # Nobody, Render(r, tx[r], request[tx[r]])
    PROVE  \E c : Works(r, c)
<1> DEFINE x == tx[r]
           q == request[x]
           o == tree[about[q].path]
<1>1. TypeOK /\ CancelledIsSilent /\ x \in Requests /\ q \in Requests
  BY DEF IInv, TypeOK
<1>2. o \in Object /\ about[q].path \in Paths /\ Made(o)
  BY <1>1, KeyType DEF TypeOK, ObserversInv, RepliesKept
<1>3. Registered(x, q) \in [Keys -> Items] /\ Bound(Registered(x, q), r)
  BY <1>1, RegisteredType, Bounds
<1>4. /\ Coded("blank") \in Response
      /\ Coded("blank").code = "blank" /\ Coded("blank").number = 0
  BY CodedType DEF Codes, Coded
<1>5. resource' = [resource EXCEPT ![x] = o]
  BY DEF Render
<1>6. Keeps(x) /\ resource'[x] = o
  BY <1>1, <1>2, <1>5 DEF Keeps, TypeOK
<1>7. ~Settled(x) /\ "blank" \notin Changes
  BY <1>1 DEF ObserversInv, RepliesKept, Changes
<1>8. UNCHANGED <<tree, count>> => Effects(r, "blank")
  BY <1>2, <1>6, <1>7 DEF Effects, Given, ObserversInv, RepliesKept
<1>9. CASE Refuse(r, x, q)
  BY <1>2, <1>6, <1>9, DirectWorks DEF Refuse
<1>10. CASE Die(r, x, Coded("blank"), Registered(x, q), Wished(q))
  <2>1. Effects(r, "blank")
    BY <1>8, <1>10 DEF Die
  <2>2. Works(r, Coded("blank").code)
    BY <1>1, <1>3, <1>4, <1>10, <2>1, DieWorks
  <2>3. QED
    BY <2>2
<1>11. CASE /\ pc' = [pc EXCEPT ![r] = "handling"]
            /\ reply' = [reply EXCEPT ![x] = Coded("blank")]
            /\ relations' = Registered(x, q)
            /\ UNCHANGED <<about, tx, request, exchanges, tree, changed, count, sent>>
  <2>1. pc'[r] = "handling" /\ reply'[x] = Coded("blank")
        /\ \A y \in Requests : y # x => reply'[y] = reply[y]
    BY <1>1, <1>11 DEF TypeOK
  <2>2. Effects(r, "blank") /\ Bound(relations', r) /\ byToken' = byToken
    BY <1>3, <1>8, <1>11 DEF exchanges
  <2>3. QED
    BY <1>4, <1>11, <2>1, <2>2 DEF Works
<1>12. QED
  BY <1>9, <1>10, <1>11 DEF Render

LEMMA StartWorks ==
    ASSUME IInv, ObserversInv, NEW r \in Requests, Start(r)
    PROVE  Working(r) /\ \E c : Works(r, c)
<1> DEFINE x == tx[r]
           q == request[x]
<1>1. TypeOK /\ CancelledIsSilent /\ x \in Requests /\ q \in Requests
  BY DEF IInv, TypeOK
<1>2. Working(r) /\ (resource' = resource => Keeps(x))
  BY <1>1 DEF Start, Working, Keeps, TypeOK
<1>3. Made(Nobody)
  BY DEF Made
<1>4. CASE /\ UNCHANGED <<resource, tree, count>>
           /\ Reply(r, x, q, reply[x], Registered(x, q), Wished(q), changed)
  <2>1. Registered(x, q) \in [Keys -> Items] /\ Bound(Registered(x, q), r)
    BY <1>1, RegisteredType, Bounds
  <2>2. /\ reply[x] \in Response /\ count' \in [Object -> Counts]
        /\ reply[x].number > 0 => reply[x].code = "content"
    BY <1>1, <1>4 DEF TypeOK, ObserversInv, RepliesKept
  <2>3. Effects(r, reply[x].code)
    BY <1>1, <1>4, NoEffects DEF Settled
  <2>4. Works(r, reply[x].code)
    BY <1>1, <1>4, <2>1, <2>2, <2>3, AnswerWorks
  <2>5. QED
    BY <1>2, <2>4
<1>5. CASE /\ resource[x] = Nobody /\ UNCHANGED resource
           /\ Direct(r, x, q, "content") \/ Direct(r, x, q, "refused")
  BY <1>1, <1>2, <1>3, <1>5, DirectWorks
<1>6. CASE resource[x] = Nobody /\ Create(r, x, q)
  BY <1>2, <1>6, CreateWorks
<1>7. CASE resource[x] = Nobody /\ tree[about[q].path] # Nobody /\ Render(r, x, q)
  BY <1>2, <1>7, RenderWorks
<1>8. QED
  BY <1>4, <1>5, <1>6, <1>7 DEF Start

LEMMA ReturnWorks ==
    ASSUME IInv, ObserversInv, NEW r \in Requests, Return(r)
    PROVE  Working(r) /\ \E c : Works(r, c)
<1> DEFINE x == tx[r]
           q == request[x]
           o == resource[x]
           Answering(code, chg) ==
             Reply(r, x, q, [reply[x] EXCEPT !.code = code], relations, wish, chg)
<1>1. /\ TypeOK /\ x \in Requests /\ q \in Requests
      /\ pc[r] = "handling" /\ resource' = resource /\ Working(r)
  BY DEF IInv, TypeOK, Return, Working
<1>2. o \in Object /\ Keeps(x)
  BY <1>1 DEF IInv, Located, TypeOK, Keeps
<1>3. relations \in [Keys -> Items] /\ Bound(relations, r)
  BY <1>1, Bounds DEF TypeOK, Items
<1>4. /\ reply[x] \in Response /\ reply[x].code = "blank" /\ reply[x].number = 0
      /\ reply[x].number \in Counts
  <2>1. reply[x] \in Response /\ reply[x].code = "blank"
    BY <1>1 DEF TypeOK, ObserversInv, RepliesKept
  <2>2. reply[x].number \in Nat /\ ~(reply[x].number > 0)
    BY <1>1, <2>1, ResourcesAssumption DEF Response, Counts, ObserversInv, RepliesKept
  <2>3. QED
    BY <2>1, <2>2 DEF Response
<1>5. ~Settled(x)
  BY <1>4 DEF Settled, Changes
<1>6. about[q].path \in Paths /\ about[q].method \in {"GET", "PUT", "POST", "DELETE"}
  BY <1>1, KeyType
<1>7. ASSUME NEW code \in Codes, NEW chg, changed \subseteq chg, Effects(r, code),
             count' \in [Object -> Counts], Answering(code, chg)
      PROVE  \E c : Works(r, c)
  <2> DEFINE a == [reply[x] EXCEPT !.code = code]
  <2>1. a \in Response /\ a.code = code /\ a.number = 0
    BY <1>4 DEF Response
  <2>2. Reply(r, x, q, a, relations, wish, chg)
    BY <1>7
  <2> HIDE DEF a
  <2>3. Works(r, a.code)
    BY <1>1, <1>3, <1>7, <2>1, <2>2, AnswerWorks
  <2>4. QED
    BY <2>3
<1>8. CASE /\ count' = Counted(o) /\ tree' = tree
           /\ \E code \in Changes : \E chg : changed \subseteq chg /\ Answering(code, chg)
  <2>1. PICK code \in Changes : \E g : changed \subseteq g /\ Answering(code, g)
    BY <1>8
  <2>2. count' \in [Object -> Counts]
    <3>1. count[o] \in Counts
      BY <1>1, <1>2 DEF TypeOK
    <3>2. (count[o] + 1) % CountSpace \in Counts
      BY <3>1, CountsType
    <3>3. count' = [count EXCEPT ![o] = (count[o] + 1) % CountSpace]
      BY <1>2, <1>8 DEF Counted
    <3>4. QED
      BY <1>1, <3>2, <3>3 DEF TypeOK
  <2>3. Effects(r, code)
    <3>1. resource'[x] # Nobody /\ Given(resource'[x], r, code)
      BY <1>1, <1>2, ResourcesAssumption DEF Given, ObserversInv, RepliesKept
    <3>2. \A p \in Paths : Given(tree'[p], r, code)
      BY <1>8 DEF Given, ObserversInv, RepliesKept
    <3>3. QED
      BY <1>2, <1>5, <1>8, <2>1, <3>1, <3>2 DEF Effects
  <2>4. code \in Codes
    BY <2>1 DEF Changes, Codes
  <2>5. QED
    BY <1>1, <1>7, <2>1, <2>2, <2>3, <2>4
<1>9. CASE /\ count' = count
           /\ tree' = tree \/ tree' = [tree EXCEPT ![about[q].path] = Nobody]
           /\ \E code \in Codes \ Changes : \E chg :
                 changed \subseteq chg /\ Answering(code, chg)
  <2>1. PICK code \in Codes \ Changes : \E g : changed \subseteq g /\ Answering(code, g)
    BY <1>9
  <2>2. count' \in [Object -> Counts] /\ \A p \in Paths : tree'[p] \in {tree[p], Nobody}
    BY <1>1, <1>6, <1>9 DEF TypeOK
  <2>3. Effects(r, code)
    BY <1>1, <1>5, <1>9, <2>1, <2>2, NoEffects
  <2>4. QED
    BY <1>1, <1>7, <2>1, <2>2, <2>3
<1>10. CASE Die(r, x, reply[x], relations, wish)
  <2>1. Effects(r, reply[x].code)
    BY <1>1, <1>10, NoEffects DEF Die, Settled
  <2>2. 0 \in Nat /\ ~(0 > 0)
    OBVIOUS
  <2>3. Works(r, reply[x].code)
    BY <1>1, <1>3, <1>4, <1>10, <2>1, <2>2, DieWorks
  <2>4. QED
    BY <1>1, <2>3
<1>11. QED
  <2> DEFINE method == about[q].method
             done == [GET |-> "content", PUT |-> "changed", POST |-> "created",
                      DELETE |-> "deleted"][method]
  <2>1. /\ method \in {"PUT", "POST"} => done \in Changes
        /\ method \notin {"PUT", "POST"} => done \in Codes \ Changes
        /\ "absent" \in Codes \ Changes /\ "refused" \in Codes \ Changes
    BY <1>6 DEF Codes, Changes
  <2> HIDE DEF Answering
  <2>2. \/ /\ method \in {"PUT", "POST"} /\ count' = Counted(o) /\ tree' = tree
           /\ Answering(done, changed \cup {o})
        \/ /\ count' = count
           /\ tree' = tree \/ tree' = [tree EXCEPT ![about[q].path] = Nobody]
           /\ \/ method \notin {"PUT", "POST"} /\ Answering(done, changed)
              \/ Answering("absent", changed)
              \/ Answering("refused", changed)
        \/ Die(r, x, reply[x], relations, wish)
    BY DEF Return, Answering
  <2>3. QED
    BY <1>1, <1>8, <1>9, <1>10, <2>1, <2>2

\* An answer to an observer bears the count of its resource.
LEMMA NumberStep ==
    ASSUME TypeOK, TypeOK', ObserversInv, ObserversInv', CountKept', CountSuffices,
           NEW r \in Requests, NEW c, Works(r, c),
           NEW m \in sent' \ sent, m.number > 0, relations'[Key(m.to)] # Nobody
    PROVE  m.number > Cardinality({n.by : n \in
              {n \in sent : /\ n.of = m.of /\ n.by # Creator(m.of)
                            /\ n.code \in {"changed", "created"}}})
<1> DEFINE A == {n.by : n \in {n \in sent : /\ n.of = m.of /\ n.by # Creator(m.of)
                                            /\ n.code \in {"changed", "created"}}}
           D == Changers(m.of)'
<1>1. /\ m.to = r /\ m.of # Nobody /\ m.number = count'[m.of]
      /\ sent \subseteq sent' /\ tx' = tx
  <2>1. Key(m.to) = Key(request[tx[r]]) \/ m.to # r
    BY DEF ObserversInv, KeysKept, TypeOK
  <2>2. QED
    BY <2>1 DEF Works
<1>2. m.of \in Object
  BY <1>1 DEF TypeOK, Answer
<1>3. m.number = 1 + Cardinality(D)
  BY <1>1, <1>2 DEF CountKept
<1>4. D \in SUBSET Requests
  BY DEF Changers
<1>5. A \in SUBSET D
  <2>1. ASSUME NEW n \in sent, n.of = m.of, n.by # Creator(m.of), n.code \in Changes
        PROVE  n.by \in D
    <3>1. n.by \in Requests /\ n \in sent'
      BY <1>1 DEF TypeOK, Answer
    <3>2. Settled(n.by)' /\ resource'[n.by] = m.of
      BY <2>1, <3>1 DEF ObserversInv, RepliesKept
    <3>3. n.by # Creator(m.of)'
      BY <1>1, <2>1 DEF Creator
    <3>4. QED
      BY <3>1, <3>2, <3>3 DEF Changers
  <2>2. QED
    BY <2>1 DEF Changes
<1> HIDE DEF A, D
<1>6. IsFiniteSet(D)
  BY <1>4, FS_Subset DEF CountSuffices
<1>7. IsFiniteSet(A) /\ Cardinality(A) <= Cardinality(D)
  BY <1>5, <1>6, FS_Subset
<1>8. Cardinality(A) \in Nat /\ Cardinality(D) \in Nat
  BY <1>6, <1>7, FS_CardinalityType
<1>9. m.number > Cardinality(A)
  BY <1>3, <1>7, <1>8
<1>10. QED
  BY <1>9 DEF A

LEMMA ObserversInit ==
    ASSUME Init
    PROVE  ObserversInv /\ CountKept
<1>1. Nobody \notin Requests /\ TypeOK /\ "absent" \notin Changes /\ 0 \in Nat
  BY InitInv, ResourcesAssumption DEF IInv, Changes
<1>2. KeysKept /\ TasksKept
  BY <1>1 DEF Init, KeysKept, TasksKept, Working
<1>3. \A x \in Requests : ~Settled(x) /\ resource[x] = Nobody /\ reply[x].number = 0
  BY <1>1 DEF Init, Settled, Coded
<1>4. \A p \in Paths : Made(tree[p])
  BY <1>1 DEF Init, Made
<1>5. RepliesKept /\ EstablishedObservers
  BY <1>1, <1>3, <1>4 DEF Init, RepliesKept, EstablishedObservers, Made
<1>6. CountKept
  <2>1. \A o \in Object : Changers(o) = {}
    BY <1>3 DEF Changers
  <2>2. Cardinality({}) = 0 /\ \A o \in Object : count[o] = 1
    BY FS_EmptySet DEF Init
  <2>3. QED
    BY <2>1, <2>2 DEF CountKept
<1>7. QED
  BY <1>2, <1>5, <1>6 DEF ObserversInv

\* A step is that of a request that comes, of a task, or of neither.
LEMMA ObserversNext ==
    ASSUME IInv, IInv', ObserversInv, [Next]_vars
    PROVE  /\ ObserversInv'
           /\ \/ sent' = sent /\ (CountKept => CountKept')
              \/ \E r \in Requests : \E c : Works(r, c)
<1>1. TypeOK /\ TypeOK' /\ Nobody \notin Requests
  BY ResourcesAssumption DEF IInv
<1>2. CASE \E r \in Requests : Receive(r) \/ Granted(r)
  BY <1>2, ReceiveJoins DEF Receive, Granted, elsewhere
<1>3. CASE \E r \in Requests : Start(r) \/ Return(r)
  BY <1>1, <1>3, StartWorks, ReturnWorks, WorksStep
<1>4. CASE \E x \in Requests : ReceiveReset(x) \/ LateAck(x)
  <2>1. PICK x \in Requests : ReceiveReset(x) \/ LateAck(x)
    BY <1>4
  <2>2. /\ UNCHANGED <<about, pc, tx, request, resource, reply, changed, count, sent>>
        /\ byToken' = byToken /\ tree' = tree
    BY <2>1 DEF ReceiveReset, LateAck
  <2>3. \A k \in Keys : relations'[k] \in {relations[k], Nobody, Outgoing}
    BY <1>1, <2>1 DEF ReceiveReset, LateAck, TypeOK
  <2>4. QED
    BY <1>1, <2>2, <2>3, ElsewhereStep
<1>5. CASE Purge
  <2>1. /\ UNCHANGED <<about, pc, tx, request, resource, reply, changed, count, sent>>
        /\ \A k \in Keys : byToken'[k] \in {byToken[k], Nobody}
        /\ relations' = relations /\ tree' = tree
    BY <1>5 DEF Purge
  <2>2. QED
    BY <1>1, <2>1, ElsewhereStep
<1>6. CASE \E k \in Outbound : ObserveOther(k) \/ RejectOther(k)
  <2>1. PICK k \in Outbound : ObserveOther(k) \/ RejectOther(k)
    BY <1>6
  <2>2. /\ UNCHANGED <<about, pc, tx, request, resource, reply, changed, count, sent>>
        /\ byToken' = byToken /\ tree' = tree
    BY <2>1 DEF ObserveOther, RejectOther, Relate, exchanges
  <2>3. \A j \in Keys : relations'[j] \in {relations[j], Nobody, Outgoing}
    BY <1>1, <2>1 DEF ObserveOther, RejectOther, Relate, TypeOK
  <2>4. QED
    BY <1>1, <2>2, <2>3, ElsewhereStep
<1>7. CASE \E p \in Managed : AddResource(p) \/ RemoveResource(p)
  <2>1. PICK p \in Managed : AddResource(p) \/ RemoveResource(p)
    BY <1>7
  <2>2. /\ UNCHANGED <<about, pc, tx, request, resource, reply, changed, count, sent>>
        /\ byToken' = byToken /\ relations' = relations
    BY <2>1 DEF AddResource, RemoveResource, exchanges
  <2>3. \A a \in Paths : tree'[a] \in {tree[a], Nobody} \/ tree'[a][2] = Nobody
    BY <1>1, <2>1 DEF AddResource, RemoveResource, TypeOK
  <2>4. QED
    BY <1>1, <2>2, <2>3, ElsewhereStep
<1>8. CASE UNCHANGED vars
  <2>1. /\ UNCHANGED <<about, pc, tx, request, resource, reply, changed, count, sent>>
        /\ byToken' = byToken /\ relations' = relations /\ tree' = tree
    BY <1>8 DEF vars, exchanges
  <2>2. QED
    BY <1>1, <2>1, ElsewhereStep
<1>9. QED
  BY <1>2, <1>3, <1>4, <1>5, <1>6, <1>7, <1>8 DEF Next

\* Whoever is a standing observer when nobody works on its transaction any more
\* observes a resource that can be observed, was answered by a method that changes
\* one, or was cut short by a handler that raised or left no response or by a change
\* that could not be told; no interleaving of answers under one token leaves another.
THEOREM EstablishedCorrect == Spec => []EstablishedObservers
<1>1. Init => ObserversInv
  BY ObserversInit
<1>2. IInv /\ IInv' /\ ObserversInv /\ [Next]_vars => ObserversInv'
  BY ObserversNext
<1>3. ObserversInv => EstablishedObservers
  BY DEF ObserversInv
<1>4. QED
  BY <1>1, <1>2, <1>3, Invariant, PTL DEF Spec

\* As long as there are fewer requests than numbers, the count of a resource is
\* that of the transactions that changed it, and an Observe number exceeds the
\* number of those that have been told.
THEOREM NumbersCorrect ==
    ASSUME CountSuffices
    PROVE  Spec => NumberCoversChanges
<1> DEFINE A == \A m \in sent' \ sent :
                  m.number > 0 /\ relations'[Key(m.to)] # Nobody =>
                  m.number > Cardinality({n.by : n \in
                      {n \in sent : /\ n.of = m.of /\ n.by # Creator(m.of)
                                    /\ n.code \in {"changed", "created"}}})
           J == ObserversInv /\ CountKept
<1>1. Init => J
  BY ObserversInit
<1>2. IInv /\ IInv' /\ J /\ [Next]_vars => J' /\ A
  <2>1. SUFFICES ASSUME IInv, IInv', ObserversInv, CountKept, [Next]_vars
                 PROVE  J' /\ A
    OBVIOUS
  <2>2. ObserversInv' /\ TypeOK /\ TypeOK'
    BY <2>1, ObserversNext DEF IInv
  <2>3. CASE sent' = sent /\ (CountKept => CountKept')
    BY <2>1, <2>2, <2>3
  <2>4. CASE \E r \in Requests : \E c : Works(r, c)
    <3>1. PICK r \in Requests : \E c : Works(r, c)
      BY <2>4
    <3>2. PICK c : Works(r, c)
      BY <3>1
    <3>3. CountKept'
      BY <2>1, <2>2, <3>2, CountStep
    <3>4. A
      BY <2>1, <2>2, <3>2, <3>3, NumberStep
    <3>5. QED
      BY <2>2, <3>3, <3>4
  <2>5. QED
    BY <2>1, <2>3, <2>4, ObserversNext
<1>3. A => [A]_vars
  OBVIOUS
<1> HIDE DEF A, J
<1>4. Spec => [][A]_vars
  BY <1>1, <1>2, <1>3, Invariant, PTL DEF Spec
<1>5. QED
  BY <1>4, PTL DEF A, NumberCoversChanges

================================================================================
