------------------------------- MODULE Resources -------------------------------
(***************************************************************************)
(* The resource tree, the methods of CoAP on it and the observers of its   *)
(* resources: RequestLayer, ResourceLayer, ObserveLayer, Server.notify,    *)
(* add_resource and remove_resource.  Every request is confirmable, has a  *)
(* message ID of its own and arrives once; what copies, timers and locks   *)
(* do to an exchange is the subject of ServerExchange.  A request names    *)
(* the Transaction it makes.  Handlers belong to the application: they     *)
(* suspend, and other requests are served meanwhile.                       *)
(***************************************************************************)
EXTENDS Naturals, FiniteSets

CONSTANTS
    Clients, Tokens,
    Paths,          \* paths of resources, the root among them
    Root,
    Discovery,      \* the path of /.well-known/core
    Requests,
    Messages,       \* what a request may say
    Saying,         \* which of them each may be
    StartsWith,     \* pairs of paths: the first begins with the second
    PathLength,
    Ancestors,      \* the paths of all proper prefixes, cut at slashes
    Present,        \* paths of the resources the program starts with
    Managed,        \* paths the program adds and removes while it runs
    Observable,     \* resources made with observable=True
    AllowChildren,  \* resources made with allow_children=True
    PlainPost,      \* resources whose render_POST is no coroutine function
    Outcomes,       \* what handlers do
    CountSpace,     \* 65000 in the code
    Outbound,       \* keys under which this node observes others
    Outgoing,       \* the item of such a relation: it has no transaction
    Nobody

Keys == Clients \X Tokens

Counts == 0 .. (CountSpace - 1)

\* A Resource object: the path it was made for, and the request whose handler
\* made it, or Nobody for the program's own.  The path stands for its class.
Object == Paths \X (Requests \cup {Nobody})

ASSUME ResourcesAssumption ==
    /\ Discovery \in Paths \ {Root}
    /\ Root \in Present /\ Present \subseteq Paths
    /\ Managed \subseteq Paths \ {Root}
    /\ Messages \subseteq [src: Clients, token: Tokens, path: Paths,
                           method: {"GET", "PUT", "POST", "DELETE"},
                           observe: {"no", "register", "cancel"}]
    /\ Saying \in [Requests -> SUBSET Messages]
    /\ StartsWith \subseteq Paths \X Paths
    /\ \A p \in Paths : <<p, Root>> \in StartsWith
    /\ PathLength \in [Paths -> Nat]
    /\ Ancestors \in [Paths -> SUBSET Paths]
    /\ Observable \subseteq Paths /\ AllowChildren \subseteq Paths
    /\ PlainPost \subseteq Paths
    /\ Outcomes \subseteq {"done", "silent", "kept", "wrong", "raise", "mismatch"}
    /\ CountSpace \in Nat \ {0, 1}
    /\ Outbound \subseteq Keys
    /\ Outgoing \notin Requests /\ Nobody \notin Requests /\ Nobody # Outgoing
    /\ Nobody \notin Object

VARIABLES
    about,      \* what each request says
    pc,         \* where the task of each request is
    tx,         \* the transaction it works on
    request,    \* Transaction.request
    resource,   \* Transaction.resource
    reply,      \* Transaction.response
    completed,  \* Transaction.completed
    byToken,    \* MessageLayer._transactions_token
    live,       \* the transactions in MessageLayer._transactions
    relations,  \* ObserveLayer._relations
    tree,       \* Server.root
    changed,    \* resources with .changed set
    count,      \* Resource.observe_count
    sent,       \* history: the answers sent
    wish        \* history: the last word on each relation

exchanges == <<completed, byToken, live>>
vars == <<about, pc, tx, request, resource, reply, exchanges, relations, tree,
          changed, count, sent, wish>>

Codes == {"absent", "blank", "content", "changed", "created", "deleted", "refused"}

\* The number is the Observe option, 0 if there is none.
\* A response is "absent" when the transaction's is None and "blank" as long as
\* it has no code; errors are all "refused".  It is "new" without a type,
\* "typed" once sent; a notification takes its message ID and token off it
\* ("prepared"), and when it is sent again only the ID comes back ("bare").
Response == [code: Codes, number: Counts,
             form: {"new", "typed", "prepared", "bare"}]

Coded(c) == [code |-> c, number |-> 0, form |-> "new"]

Key(r) == <<about[r].src, about[r].token>>

Answer == [to: Requests, by: Requests, of: Object \cup {Nobody},
           code: Codes, number: Counts, form: {"typed", "bare"}]

Init ==
    /\ about \in [Requests -> Messages]
    /\ \A r \in Requests : about[r] \in Saying[r]
    /\ pc = [r \in Requests |-> "idle"]
    /\ tx = [r \in Requests |-> r]
    /\ request = [x \in Requests |-> x]
    /\ resource = [x \in Requests |-> Nobody]
    /\ reply = [x \in Requests |-> Coded("absent")]
    /\ completed = {} /\ live = {}
    /\ byToken = [k \in Keys |-> Nobody]
    /\ relations = [k \in Keys |-> Nobody]
    /\ tree = [p \in Paths |-> IF p \in Present THEN <<p, Nobody>> ELSE Nobody]
    /\ changed = {}
    /\ count = [o \in Object |-> 1]
    /\ sent = {}
    /\ wish = [k \in Keys |-> "none"]

-----------------------------------------------------------------------------
(* Mutants: the forms plausible bugs would give the definitions below *)

\* The relation is made again when the answer is sent.
MutantConcluded(rel, x, q, code) ==
    IF code = "content" /\ resource'[x] # Nobody
    THEN [rel EXCEPT ![Key(q)] = x]
    ELSE IF code = "refused" THEN [rel EXCEPT ![Key(q)] = Nobody] ELSE rel

\* A refused registration stays.
MutantRefusal(rel, x, q, code) ==
    IF rel[Key(q)] # Nobody /\ code = "content" THEN [rel EXCEPT ![Key(q)] = x]
    ELSE rel

\* A response leaves without a type.
MutantSendable(a) == a

\* The flag of a changed resource is never reset.
MutantTold(chg, o) == chg

\* A task that dies keeps its lock.
MutantBusy(x) ==
    \E r \in Requests : tx[r] = x /\ pc[r] \in {"received", "handling", "dead"}

\* A change is not counted.
MutantCounted(o) == count

-----------------------------------------------------------------------------
(* The way back: Server.receive_request after the request layer *)

Observed(o) == o # Nobody /\ o[1] \in Observable

\* The relations Server.notify fails on: those of transactions on resource o,
\* because a Transaction is no context manager, and all those of this node's
\* own observations, because they have no transaction.
Audience(rel, o) ==
    {k \in Keys : \/ rel[k] = Outgoing
                  \/ rel[k] \in Requests /\ resource'[rel[k]] = o}

\* ObserveLayer.notify prepares the responses of the observers it comes to; an
\* item without a transaction or a response ends it, wherever it is in the
\* dictionary.
Preparations(rel, o) ==
    LET found == {rel[k] : k \in Audience(rel, o)}
        ready == {x \in found \ {Outgoing} : reply[x].code # "absent"}
    IN  IF found = ready THEN {ready} ELSE SUBSET ready

\* ObserveLayer.send_response on the relation of request q.
Concluded(rel, x, q, code) ==
    IF rel[Key(q)] = Nobody THEN rel
    ELSE IF code = "content"
    THEN [rel EXCEPT ![Key(q)] = IF Observed(resource'[x]) THEN x ELSE Nobody]
    ELSE IF code = "refused" THEN [rel EXCEPT ![Key(q)] = Nobody]
    ELSE rel

Numbered(rel, x, q, a) ==
    IF rel[Key(q)] # Nobody /\ a.code = "content" /\ Observed(resource'[x])
    THEN [a EXCEPT !.number = count'[resource'[x]]] ELSE a

\* MessageLayer.send_response: the first response to a request is an
\* acknowledgement and completes the transaction; one that was prepared for a
\* notification gets a message ID of the server's, which finds x again.
Sendable(a) ==
    [a EXCEPT !.form = IF a.form \in {"new", "typed"} THEN "typed" ELSE "bare"]

Stamp(x, a) ==
    /\ completed' = IF a.form = "new" THEN completed \cup {x} ELSE completed
    /\ live' = IF a.form = "prepared" THEN live \cup {x} ELSE live

\* The flag of a resource is reset when its observers have been told.
Told(chg, o) == chg \ {o}

\* The rest of receive_request for the request q that transaction x holds, with
\* response a, when the relations are rel and the flags of resources chg.
Reply(r, x, q, a, rel, w, chg) ==
    LET o == resource'[x]
        keyed == rel[Key(q)] # Nobody
        m == Sendable(Numbered(rel, x, q, a))
    IN  \/ /\ o \in chg /\ Audience(rel, o) # {}
           /\ \E p \in Preparations(rel, o) :
                 reply' = [y \in Requests |->
                    LET b == IF y = x THEN a ELSE reply[y]
                    IN  IF y \in p THEN [b EXCEPT !.form = "prepared"] ELSE b]
           /\ pc' = [pc EXCEPT ![r] = "dead"]
           /\ relations' = rel /\ wish' = w /\ changed' = chg
           /\ UNCHANGED <<completed, live, sent>>
        \/ /\ o \in chg => Audience(rel, o) = {}
           /\ changed' = Told(chg, o)
           /\ \/ /\ a.code \in {"absent", "blank"} /\ keyed
                 /\ reply' = [reply EXCEPT ![x] = a]
                 /\ pc' = [pc EXCEPT ![r] = "dead"]
                 /\ relations' = rel /\ wish' = w
                 /\ UNCHANGED <<completed, live, sent>>
              \/ /\ a.code = "blank" /\ ~keyed
                 /\ reply' = [reply EXCEPT ![x] = Sendable(a)]
                 /\ Stamp(x, a)
                 /\ pc' = [pc EXCEPT ![r] = "dead"]
                 /\ relations' = rel /\ wish' = w
                 /\ UNCHANGED sent
              \/ /\ a.code = "absent" /\ ~keyed
                 /\ reply' = [reply EXCEPT ![x] = a]
                 /\ completed' = completed \cup {x}
                 /\ pc' = [pc EXCEPT ![r] = "done"]
                 /\ relations' = rel /\ wish' = w
                 /\ UNCHANGED <<live, sent>>
              \/ /\ a.code \notin {"absent", "blank"}
                 /\ reply' = [reply EXCEPT ![x] = m]
                 /\ Stamp(x, a)
                 /\ relations' = Concluded(rel, x, q, a.code)
                 /\ wish' = IF a.code = "refused" /\ keyed
                            THEN [w EXCEPT ![Key(q)] = "refused"] ELSE w
                 /\ sent' = sent \cup {[to |-> r, by |-> x, of |-> o,
                                        code |-> m.code, number |-> m.number,
                                        form |-> m.form]}
                 /\ pc' = [pc EXCEPT ![r] = "done"]
    /\ UNCHANGED <<about, tx, request, byToken>>

-----------------------------------------------------------------------------
(* MessageLayer.receive_request and the transaction's lock *)

Busy(x) == \E r \in Requests : tx[r] = x /\ pc[r] \in {"received", "handling"}

\* A request whose token has a transaction with a response joins it when its
\* lock is free.  The table is read again then: the entry may be gone, or be
\* another transaction, which then gets the request.
Join(r, x) ==
    LET owner == byToken[Key(r)] IN
    \/ /\ owner = Nobody
       /\ pc' = [pc EXCEPT ![r] = "lost"]
       /\ UNCHANGED <<request, live>>
    \/ /\ owner # Nobody
       /\ request' = [request EXCEPT ![owner] = r]
       /\ live' = live \cup {x}
       /\ pc' = [pc EXCEPT ![r] = "received"]

elsewhere == <<about, resource, reply, completed, relations, tree, changed,
               count, sent, wish>>

Receive(r) ==
    LET x == byToken[Key(r)] IN
    /\ pc[r] = "idle"
    /\ \/ /\ x # Nobody /\ reply[x].code # "absent"
          /\ tx' = [tx EXCEPT ![r] = x]
          /\ \/ ~Busy(x) /\ Join(r, x)
             \/ /\ Busy(x)
                /\ pc' = [pc EXCEPT ![r] = "waiting"]
                /\ UNCHANGED <<request, live>>
          /\ UNCHANGED byToken
       \/ /\ x # Nobody => reply[x].code = "absent"
          /\ byToken' = [byToken EXCEPT ![Key(r)] = r]
          /\ live' = live \cup {r}
          /\ pc' = [pc EXCEPT ![r] = "received"]
          /\ UNCHANGED <<tx, request>>
    /\ UNCHANGED elsewhere

Granted(r) ==
    /\ pc[r] = "waiting"
    /\ ~Busy(tx[r])
    /\ Join(r, tx[r])
    /\ UNCHANGED <<elsewhere, tx, byToken>>

-----------------------------------------------------------------------------
(* ObserveLayer.receive_request, RequestLayer and ResourceLayer *)

Registered(x, q) ==
    CASE about[q].observe = "register" -> [relations EXCEPT ![Key(q)] = x]
      [] about[q].observe = "cancel"   -> [relations EXCEPT ![Key(q)] = Nobody]
      [] OTHER                  -> relations

Wished(q) == IF about[q].observe = "no" THEN wish
             ELSE [wish EXCEPT ![Key(q)] = about[q].observe]

\* Answered without a handler.
Direct(r, x, q, code) ==
    /\ UNCHANGED <<tree, count>>
    /\ Reply(r, x, q, Coded(code), Registered(x, q), Wished(q), changed)

Refuse(r, x, q) == Direct(r, x, q, "refused")

\* The task ends with an exception of the handler or of what calls it.
Die(r, x, a, rel, w) ==
    /\ pc' = [pc EXCEPT ![r] = "dead"]
    /\ reply' = [reply EXCEPT ![x] = a]
    /\ relations' = rel /\ wish' = w
    /\ UNCHANGED <<about, tx, request, exchanges, tree, changed, count, sent>>

\* What a handler of resource o may do; those of the root refuse, its
\* render_PUT when it is called.
Doing(o, m) ==
    IF o[1] # Root THEN Outcomes
    ELSE IF m = "PUT" THEN {"raise"} ELSE {"wrong"}

Nearest(p) ==
    CHOOSE a \in Paths :
        /\ tree[a] # Nobody /\ <<p, a>> \in StartsWith
        /\ \A b \in Paths : tree[b] # Nobody /\ <<p, b>> \in StartsWith
                                => PathLength[b] <= PathLength[a]

\* POST to a path without a resource: the parent is the resource whose path is
\* the longest beginning of it.  Its handler is called but not awaited, so
\* that only one that is no coroutine function makes anything.
Create(r, x, q) ==
    LET parent == tree[Nearest(about[q].path)]
        new == <<about[q].path, r>>
        can == parent[1] \in AllowChildren \cap PlainPost
    IN  \/ /\ can /\ "done" \in Doing(parent, "POST")
           /\ tree' = [tree EXCEPT ![about[q].path] = new]
           /\ resource' = [resource EXCEPT ![x] = new]
           /\ UNCHANGED count
           /\ Reply(r, x, q, Coded("created"), Registered(x, q), Wished(q),
                    changed \cup {new})
        \/ /\ can => "wrong" \in Doing(parent, "POST")
           /\ UNCHANGED resource
           /\ Refuse(r, x, q)
        \/ /\ can /\ "raise" \in Doing(parent, "POST")
           /\ UNCHANGED resource
           /\ Die(r, x, Coded("blank"), Registered(x, q), Wished(q))

\* A request for a resource that exists.  A handler suspends its task; a
\* render_POST that is no coroutine function cannot be awaited, whatever it
\* returns.
Render(r, x, q) ==
    LET o == tree[about[q].path]
        method == about[q].method
        plain == method = "POST" /\ o[1] \in PlainPost \cup {Root}
    IN  /\ resource' = [resource EXCEPT ![x] = o]
        /\ \/ /\ \/ method \in {"PUT", "POST"} /\ "mismatch" \in Outcomes
                 \/ plain /\ "wrong" \in Doing(o, "POST")
              /\ Refuse(r, x, q)
           \/ /\ plain /\ Doing(o, "POST") \cap {"done", "raise"} # {}
              /\ Die(r, x, Coded("blank"), Registered(x, q), Wished(q))
           \/ /\ ~plain
              /\ pc' = [pc EXCEPT ![r] = "handling"]
              /\ reply' = [reply EXCEPT ![x] = Coded("blank")]
              /\ relations' = Registered(x, q) /\ wish' = Wished(q)
              /\ UNCHANGED <<about, tx, request, exchanges, tree, changed, count,
                             sent>>

\* A transaction that has a resource is answered with the response it has.
Start(r) ==
    LET x == tx[r]
        q == request[x]
        method == about[q].method
        path == about[q].path
        missing == tree[path] = Nobody \/ (method = "GET" /\ path = Root)
    IN  /\ pc[r] = "received"
        /\ \/ /\ resource[x] # Nobody
              /\ UNCHANGED <<resource, tree, count>>
              /\ Reply(r, x, q, reply[x], Registered(x, q), Wished(q), changed)
           \/ /\ resource[x] = Nobody
              /\ \/ /\ missing /\ method # "POST"
                    /\ UNCHANGED resource
                    /\ Direct(r, x, q, IF method = "GET" /\ path = Discovery
                                       THEN "content" ELSE "refused")
                 \/ missing /\ method = "POST" /\ Create(r, x, q)
                 \/ ~missing /\ Render(r, x, q)

Counted(o) == [count EXCEPT ![o] = (@ + 1) % CountSpace]

\* The handler returns.  Only a resource that PUT or POST has changed is flagged
\* and counted; DELETE takes whatever has the path by then out of the tree.
Return(r) ==
    LET x == tx[r]
        q == request[x]
        o == resource[x]
        method == about[q].method
        path == about[q].path
        may == Doing(o, method)
        done == [GET |-> "content", PUT |-> "changed", POST |-> "created",
                 DELETE |-> "deleted"][method]
        Answering(code, chg) ==
            Reply(r, x, q, [reply[x] EXCEPT !.code = code], relations, wish, chg)
    IN  /\ pc[r] = "handling"
        /\ UNCHANGED resource
        /\ \/ /\ "done" \in may /\ method \in {"PUT", "POST"}
              /\ count' = Counted(o)
              /\ Answering(done, changed \cup {o})
              /\ UNCHANGED tree
           \/ /\ "done" \in may /\ method = "DELETE"
              /\ tree[path] # Nobody
              /\ tree' = [tree EXCEPT ![path] = Nobody]
              /\ UNCHANGED count
              /\ Answering(done, changed)
           \/ /\ \/ "done" \in may /\ method = "GET"
                 \/ "kept" \in may /\ method = "DELETE"
              /\ UNCHANGED <<tree, count>>
              /\ Answering(done, changed)
           \/ /\ "silent" \in may /\ method = "GET"
              /\ UNCHANGED <<tree, count>>
              /\ Answering("absent", changed)
           \/ /\ "wrong" \in may
              /\ UNCHANGED <<tree, count>>
              /\ Answering("refused", changed)
           \/ /\ \/ "raise" \in may
                 \/ /\ "done" \in may /\ method = "DELETE"
                    /\ tree[path] = Nobody
              /\ Die(r, x, reply[x], relations, wish)

-----------------------------------------------------------------------------
(* What comes from elsewhere *)

\* An RST that bears the message ID of a request or of its response.
ReceiveReset(x) ==
    LET k == Key(request[x]) IN
    /\ x \in live /\ ~Busy(x)
    /\ relations' = [relations EXCEPT ![k] = Nobody]
    /\ wish' = IF relations[k] = Nobody THEN wish ELSE [wish EXCEPT ![k] = "reset"]
    /\ completed' = completed \cup {x}
    /\ UNCHANGED <<about, pc, tx, request, resource, reply, byToken, live, tree,
                   changed, count, sent>>

\* The separate timer that a task leaves behind when it dies acknowledges the
\* request once the lock is free, and so completes the transaction.
LateAck(r) ==
    LET x == tx[r] IN
    /\ pc[r] = "dead" /\ pc[request[x]] # "done"
    /\ ~Busy(x)
    /\ x \notin completed
    /\ completed' = completed \cup {x}
    /\ UNCHANGED <<about, pc, tx, request, resource, reply, byToken, live,
                   relations, tree, changed, count, sent, wish>>

\* Time is not modelled: any transaction may be older than EXCHANGE_LIFETIME.
Purge ==
    \E expired \in SUBSET live :
        LET gone == (live \cap completed) \cup expired IN
        /\ live' = live \ gone
        /\ byToken' = [k \in Keys |-> IF byToken[k] \in gone THEN Nobody
                                                             ELSE byToken[k]]
        /\ UNCHANGED <<about, pc, tx, request, resource, reply, completed, relations,
                       tree, changed, count, sent, wish>>

Relate(k, item, w) ==
    /\ relations' = [relations EXCEPT ![k] = item]
    /\ wish' = [wish EXCEPT ![k] = w]
    /\ UNCHANGED <<about, pc, tx, request, resource, reply, exchanges, tree, changed,
                   count, sent>>

\* This node, as a client, observes a resource of another one or rejects what
\* it hears of it: ObserveLayer.send_request and send_empty.
ObserveOther(k) ==
    /\ \A j \in Keys : wish[j] = "none"
    /\ Relate(k, Outgoing, "outgoing")

RejectOther(k) == relations[k] # Nobody /\ Relate(k, Nobody, "rejected")

\* Server.add_resource gives one object every path on the way that is free.
\* It is meant for the time before the server has anything to do.
AddResource(p) ==
    LET free == {a \in Ancestors[p] \cup {p} : tree[a] = Nobody} IN
    /\ \A r \in Requests : pc[r] = "idle"
    /\ free # {}
    /\ tree' = [a \in Paths |-> IF a \in free THEN <<p, Nobody>> ELSE tree[a]]
    /\ UNCHANGED <<about, pc, tx, request, resource, reply, exchanges, relations,
                   changed, count, sent, wish>>

RemoveResource(p) ==
    /\ tree[p] # Nobody
    /\ tree' = [tree EXCEPT ![p] = Nobody]
    /\ UNCHANGED <<about, pc, tx, request, resource, reply, exchanges, relations,
                   changed, count, sent, wish>>

Next ==
    \/ \E r \in Requests : Receive(r) \/ Granted(r) \/ Start(r) \/ Return(r)
    \/ \E x \in Requests : ReceiveReset(x) \/ LateAck(x)
    \/ Purge
    \/ \E k \in Outbound : ObserveOther(k) \/ RejectOther(k)
    \/ \E p \in Managed : AddResource(p) \/ RemoveResource(p)

Spec == Init /\ [][Next]_vars

\* The event loop runs what is ready and handlers return; nothing makes a
\* request, an RST or the purge come.
FairSpec ==
    Spec /\ \A r \in Requests : WF_vars(Granted(r) \/ Start(r) \/ Return(r))

-----------------------------------------------------------------------------
(* Properties *)

\* Every variable keeps its type.
TypeOK ==
    /\ about \in [Requests -> Messages]
    /\ pc \in [Requests -> {"idle", "waiting", "received", "handling", "done",
                            "dead", "lost"}]
    /\ tx \in [Requests -> Requests] /\ request \in [Requests -> Requests]
    /\ resource \in [Requests -> Object \cup {Nobody}]
    /\ reply \in [Requests -> Response]
    /\ completed \subseteq Requests /\ live \subseteq Requests
    /\ byToken \in [Keys -> Requests \cup {Nobody}]
    /\ relations \in [Keys -> Requests \cup {Nobody, Outgoing}]
    /\ tree \in [Paths -> Object \cup {Nobody}]
    /\ changed \subseteq Object
    /\ count \in [Object -> Counts]
    /\ sent \subseteq Answer
    /\ wish \in [Keys -> {"none", "register", "cancel", "reset", "refused",
                          "outgoing", "rejected"}]

\* A relation exists only while the last word on it was a registration: after a
\* cancellation, an RST or a refusal no answer still under way brings it back.
CancelledIsSilent ==
    \A k \in Keys : relations[k] # Nobody => wish[k] \in {"register", "outgoing"}

\* A task on the transaction has died before it could answer: the handler raised or
\* left no response, or the observers of a change could not be told.
CutShort(x) ==
    /\ \E r \in Requests : tx[r] = x /\ pc[r] = "dead"
    /\ reply[x].code \in {"absent", "blank"} \/ resource[x] \in changed

\* When nobody works on it any more, an observer's transaction stands for an
\* observable resource, or it was answered by a method that changes one, or it was
\* cut short: the relation is made before the handler runs, and a handler that raises
\* or leaves no response leaves it behind.  No refusal does, and no answer without a
\* resource to observe.
EstablishedObservers ==
    \A k \in Keys : LET x == relations[k] IN
        x \in Requests /\ ~Busy(x) =>
            \/ Observed(resource[x]) /\ reply[x].code = "content"
            \/ reply[x].code \in {"changed", "created", "deleted"}
            \/ CutShort(x)

\* The flag of a change outlives the request that made it only if that request
\* has died without telling the observers.
ChangedMeansUntold ==
    \A o \in changed : \E r \in Requests :
        pc[r] = "dead" /\ resource[tx[r]] = o

\* The transaction whose handler made the object, none for the program's own.
Creator(o) == IF o[2] \in Requests THEN tx[o[2]] ELSE Nobody

\* The Observe number in an answer to an observer counts every change of the
\* resource whose author has been told of it, and the first state before them,
\* until the count wraps.
NumberCoversChanges ==
    [][\A m \in sent' \ sent :
          m.number > 0 /\ relations'[Key(m.to)] # Nobody =>
          m.number > Cardinality({n.by : n \in
              {n \in sent : /\ n.of = m.of /\ n.by # Creator(m.of)
                            /\ n.code \in {"changed", "created"}}})]_vars

\* Every request that is received is answered, dies or loses its transaction:
\* nobody waits for a lock for ever, whoever holds it.
RequestsEnd ==
    \A r \in Requests : pc[r] # "idle" ~> pc[r] \in {"done", "dead", "lost"}

\* "Notifies the observers of a certain resource": a resource that has been
\* changed has no observer that is not told.
ObserversAreTold ==
    \A o \in changed : \A k \in Keys : relations[k] \in Requests =>
        resource[relations[k]] # o

=============================================================================
