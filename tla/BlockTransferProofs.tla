------------------------- MODULE BlockTransferProofs -------------------------
(***************************************************************************)
(* What holds of BlockTransfer for any block size, any lengths of the      *)
(* payloads and any number of repeated messages and purges.                *)
(***************************************************************************)
EXTENDS BlockTransfer, SequenceTheorems, TLAPS

\* The IDs of the client's requests are behind it.
MidsUsed ==
    /\ request.mid \in FirstMid .. (curMid - 1)
    /\ \A q \in network : q.to = "server" => q.mid \in FirstMid .. (curMid - 1)

\* A server that knows a message ID has a transaction.
KnownIsKept == exchange = None => known = {}

TypeInv == TypeOK /\ MidsUsed /\ KnownIsKept

-----------------------------------------------------------------------------
(* Payloads, requests and responses *)

LEMMA BodyType ==
    ASSUME NEW n \in Nat
    PROVE  Body(n) \in Seq(Nat) /\ Len(Body(n)) = n
BY IsASeq, SMT DEF Body

LEMMA ChunkType ==
    ASSUME NEW n \in Nat, NEW byte \in Nat
    PROVE  Chunk(n, byte) \in Seq(Nat)
<1> DEFINE last == Least(byte + Size, n)
<1>1. last \in Nat /\ last <= n
  BY TransferAssumption DEF Least
<1>2. \A i \in (byte + 1) .. last : Body(n)[i] \in Nat
  BY <1>1 DEF Body
<1>3. QED
  BY <1>1, <1>2, SubSeqProperties DEF Chunk

LEMMA Kinds ==
    /\ \A m \in Request : m.to = "server"
    /\ \A m \in Response : m.to = "client"
BY DEF Request, Response

LEMMA ReplyType ==
    ASSUME NEW code \in {"final", "continue", "incomplete"}
    PROVE  Reply(code) \in Response
<1>1. <<>> \in Seq(Nat)
  OBVIOUS
<1>2. QED
  BY <1>1 DEF Reply, Response

LEMMA FirstRequestType ==
    ASSUME NEW up \in Nat
    PROVE  FirstRequest(up) \in Request
<1>1. Chunk(up, 0) \in Seq(Nat)
  BY ChunkType
<1>2. More(0, up) \in BOOLEAN
  BY DEF More
<1>3. QED
  BY <1>1, <1>2, TransferAssumption DEF FirstRequest, Request, Block

LEMMA AdvanceOfferType ==
    ASSUME NEW o \in [byte: Nat, num: Nat, loaded: BOOLEAN]
    PROVE  AdvanceOffer(o) \in [byte: Nat, num: Nat, loaded: BOOLEAN]
<1>1. o.byte + Size \in Nat /\ o.num + 1 \in Nat
  BY TransferAssumption
<1>2. QED
  BY <1>1 DEF AdvanceOffer

LEMMA AskedType ==
    ASSUME TypeOK, NEW q \in Request
    PROVE  Asked(q) \in [byte: Nat, num: Nat, loaded: BOOLEAN] \cup {None}
<1>1. q.block2 # None => q.block2.num \in Nat /\ q.block2.num * Size \in Nat
  BY TransferAssumption DEF Request, Block
<1>2. CASE q.block2 = None
  BY <1>2 DEF TypeOK, Asked
<1>3. CASE q.block2 # None /\ offering # None
  BY <1>1, <1>3 DEF TypeOK, Asked
<1>4. CASE q.block2 # None /\ offering = None
  BY <1>1, <1>4 DEF Asked
<1>5. QED
  BY <1>2, <1>3, <1>4

\* What Exchanged and Consumed leave of the network.
LEMMA NetworkType ==
    ASSUME TypeOK, NEW m, NEW n \in Request \cup Response,
           Exchanged(m, n) \/ Consumed(m)
    PROVE  /\ network' \subseteq Request \cup Response
           /\ due' \subseteq network'
           /\ network' \subseteq network \cup {n}
BY DEF TypeOK, Exchanged, Consumed

LEMMA DeliverType ==
    ASSUME TypeOK, NEW m, Deliver(m)
    PROVE  repeats' \in 0 .. MaxRepeats
BY TransferAssumption DEF TypeOK, Deliver

\* Answer, for a response.
LEMMA AnswerType ==
    ASSUME TypeInv, NEW q \in network, q \in Request, NEW r \in Response,
           NEW resource \in BOOLEAN, NEW transfer \in BOOLEAN,
           Answer(q, r, resource, transfer), UNCHANGED client
    PROVE  /\ network' \subseteq Request \cup Response
           /\ due' \subseteq network'
           /\ known' \subseteq FirstMid .. (curMid' - 1)
           /\ exchange' \in Transaction \cup {None}
           /\ exchange' # None
           /\ MidsUsed' /\ KnownIsKept'
<1>1. Exchanged(q, r)
  BY DEF Answer
<1>2. /\ network' \subseteq Request \cup Response
      /\ due' \subseteq network'
      /\ network' \subseteq network \cup {r}
  BY <1>1, NetworkType DEF TypeInv
<1>3. known' \subseteq FirstMid .. (curMid' - 1)
  BY Kinds DEF Answer, TypeInv, TypeOK, MidsUsed, client
<1>4. exchange' \in Transaction
  BY DEF Answer, Transaction
<1>5. exchange' # None
  BY <1>4, NoneAssumption
<1>6. MidsUsed'
  BY <1>2, Kinds DEF TypeInv, MidsUsed, client
<1>7. QED
  BY <1>2, <1>3, <1>4, <1>5, <1>6 DEF KnownIsKept

\* Ask, for a request.
LEMMA AskType ==
    ASSUME TypeInv, NEW p, NEW r \in Request, Ask(p, r), UNCHANGED server
    PROVE  /\ network' \subseteq Request \cup Response
           /\ due' \subseteq network'
           /\ network' = network \cup {request'}
           /\ request' = [r EXCEPT !.mid = curMid]
           /\ request' \in Request
           /\ curMid' \in (FirstMid + 1) .. (FirstMid + MaxRequests + 1)
           /\ known' \subseteq FirstMid .. (curMid' - 1)
           /\ MidsUsed' /\ KnownIsKept'
<1>1. curMid \in Nat /\ FirstMid \in Nat /\ MaxRequests \in Nat /\ curMid >= FirstMid + 1
  BY TransferAssumption DEF TypeInv, TypeOK
<1>2. request' = [r EXCEPT !.mid = curMid] /\ curMid' = curMid + 1
  BY DEF Ask, NextMid
<1>3. request' \in Request /\ request'.mid = curMid
  BY <1>1, <1>2 DEF Request
<1>4. Exchanged(p, request')
  BY DEF Ask
<1>5. /\ network' \subseteq Request \cup Response
      /\ due' \subseteq network'
      /\ network' = network \cup {request'}
  BY <1>3, <1>4 DEF TypeInv, TypeOK, Exchanged
<1>6. curMid' \in (FirstMid + 1) .. (FirstMid + MaxRequests + 1)
  BY <1>1, <1>2 DEF Ask
<1>7. known' \subseteq FirstMid .. (curMid' - 1)
  BY <1>1, <1>2 DEF TypeInv, TypeOK, server
<1>8. MidsUsed'
  <2>1. curMid \in FirstMid .. (curMid' - 1)
    BY <1>1, <1>2
  <2>2. FirstMid .. (curMid - 1) \subseteq FirstMid .. (curMid' - 1)
    BY <1>1, <1>2
  <2>3. \A q \in network : q.to = "server" => q.mid \in FirstMid .. (curMid - 1)
    BY DEF TypeInv, MidsUsed
  <2>4. \A q \in network' : q.to = "server" => q.mid \in FirstMid .. (curMid' - 1)
    BY <1>3, <1>5, <2>1, <2>2, <2>3
  <2>5. QED
    BY <1>3, <2>1, <2>4 DEF MidsUsed
<1>9. QED
  BY <1>2, <1>3, <1>5, <1>6, <1>7, <1>8 DEF TypeInv, KnownIsKept, server

-----------------------------------------------------------------------------
(* Type correctness *)

LEMMA InitType == Init => TypeInv
<1> SUFFICES ASSUME Init PROVE TypeInv
  OBVIOUS
<1>1. job \in [up: Nat, down: Nat] /\ job.up \in Nat
  BY TransferAssumption DEF Init
<1>2. request \in Request /\ network = {request} /\ due = {request}
  BY <1>1, FirstRequestType DEF Init
<1>3. request.mid = FirstMid /\ curMid = FirstMid + 1
  BY DEF Init, FirstRequest
<1>4. upItem \in [byte: Nat, num: Nat, more: BOOLEAN] \cup {None}
  BY TransferAssumption DEF Init, More
<1>5. TypeOK
  BY <1>2, <1>3, <1>4, TransferAssumption DEF Init, TypeOK
<1>6. MidsUsed
  BY <1>2, <1>3, TransferAssumption DEF MidsUsed
<1>7. KnownIsKept
  BY DEF Init, KnownIsKept
<1>8. QED
  BY <1>5, <1>6, <1>7 DEF TypeInv

\* What every step but Purge and the steps of one side keeps.
LEMMA ServerStepType ==
    ASSUME TypeInv, NEW q \in network, q \in Request,
           AnswerAgain(q) \/ Refuse(q) \/ Collect(q) \/ RepeatAnswer(q) \/ Serve(q)
    PROVE  TypeInv'
<1>1. Deliver(q) /\ UNCHANGED <<job, client, purges>>
  BY DEF AnswerAgain, Refuse, Collect, RepeatAnswer, Serve
<1>2. repeats' \in 0 .. MaxRepeats
  BY <1>1, DeliverType DEF TypeInv
<1>3. job \in [up: Nat, down: Nat] /\ job.up \in Nat /\ job.down \in Nat
  BY TransferAssumption DEF TypeInv, TypeOK
<1>4. /\ q.mid \in Nat /\ q.block1 \in Block \cup {None}
      /\ q.block2 \in Block \cup {None} /\ q.payload \in Seq(Nat)
  BY DEF Request
<1>5. HasResource \in BOOLEAN
  BY DEF TypeInv, TypeOK, Transaction, HasResource
<1>6. Collecting(q) => Collected(q) \in Seq(Nat)
  BY <1>4 DEF TypeInv, TypeOK, Collected
<1>7. Asked(q) \in [byte: Nat, num: Nat, loaded: BOOLEAN] \cup {None}
  BY AskedType DEF TypeInv
<1>8. ASSUME AnswerAgain(q) PROVE TypeInv'
  <2>1. exchange # None
    BY <1>8 DEF AnswerAgain, Duplicate, TypeInv, KnownIsKept
  <2>2. exchange.response \in Response
    BY <2>1 DEF TypeInv, TypeOK, Transaction
  <2>3. Exchanged(q, exchange.response)
    BY <1>8 DEF AnswerAgain
  <2>4. /\ network' \subseteq Request \cup Response
        /\ due' \subseteq network'
        /\ network' \subseteq network \cup {exchange.response}
    BY <2>2, <2>3, NetworkType DEF TypeInv
  <2>5. UNCHANGED <<job, client, server, purges>>
    BY <1>8 DEF AnswerAgain
  <2>6. TypeOK'
    BY <1>2, <2>4, <2>5 DEF TypeInv, TypeOK, client, server
  <2>7. MidsUsed'
    BY <2>2, <2>4, <2>5, Kinds DEF TypeInv, MidsUsed, client
  <2>8. QED
    BY <2>5, <2>6, <2>7 DEF TypeInv, KnownIsKept, server
<1>9. ASSUME Refuse(q) PROVE TypeInv'
  <2>1. Answer(q, Reply("incomplete"), HasResource, TRUE)
        /\ UNCHANGED <<client, collecting, offering, executed>>
    BY <1>9 DEF Refuse
  <2>2. Reply("incomplete") \in Response
    BY ReplyType
  <2>3. /\ network' \subseteq Request \cup Response /\ due' \subseteq network'
        /\ known' \subseteq FirstMid .. (curMid' - 1)
        /\ exchange' \in Transaction \cup {None} /\ MidsUsed' /\ KnownIsKept'
    BY <1>5, <2>1, <2>2, AnswerType
  <2>4. TypeOK'
    BY <1>1, <1>2, <2>1, <2>3 DEF TypeInv, TypeOK, client
  <2>5. QED
    BY <2>3, <2>4 DEF TypeInv
<1>10. ASSUME Collect(q) PROVE TypeInv'
  <2> DEFINE r == [Reply("continue") EXCEPT !.block1 = q.block1]
  <2>1. Answer(q, r, HasResource, TRUE) /\ UNCHANGED <<client, offering, executed>>
    BY <1>10 DEF Collect
  <2>2. Collecting(q) /\ q.block1 \in Block
    BY <1>4, <1>10 DEF Collect, Collecting
  <2>3. r \in Response
    BY <2>2, ReplyType DEF Response
  <2>4. collecting' \in [num: Nat, payload: Seq(Nat)]
    BY <1>6, <1>10, <2>2 DEF Collect, Block
  <2>5. /\ network' \subseteq Request \cup Response /\ due' \subseteq network'
        /\ known' \subseteq FirstMid .. (curMid' - 1)
        /\ exchange' \in Transaction \cup {None} /\ MidsUsed' /\ KnownIsKept'
    BY <1>5, <2>1, <2>3, AnswerType
  <2>6. TypeOK'
    BY <1>1, <1>2, <2>1, <2>4, <2>5 DEF TypeInv, TypeOK, client
  <2>7. QED
    BY <2>5, <2>6 DEF TypeInv
<1>11. ASSUME RepeatAnswer(q) PROVE TypeInv'
  <2>1. /\ Answer(q, exchange.response, HasResource, TRUE)
        /\ offering' = Asked(q)
        /\ UNCHANGED <<client, collecting, executed>>
    BY <1>11 DEF RepeatAnswer
  <2>2. exchange.response \in Response
    BY <1>11 DEF RepeatAnswer, InTransfer, TypeInv, TypeOK, Transaction
  <2>3. /\ network' \subseteq Request \cup Response /\ due' \subseteq network'
        /\ known' \subseteq FirstMid .. (curMid' - 1)
        /\ exchange' \in Transaction \cup {None} /\ MidsUsed' /\ KnownIsKept'
    BY <1>5, <2>1, <2>2, AnswerType
  <2>4. TypeOK'
    BY <1>1, <1>2, <1>7, <2>1, <2>3 DEF TypeInv, TypeOK, client
  <2>5. QED
    BY <2>3, <2>4 DEF TypeInv
<1>12. ASSUME Serve(q) PROVE TypeInv'
  <2> DEFINE content == IF HasResource THEN exchange.response.payload ELSE Body(job.down)
             asked   == Asked(q)
             cut     == \/ asked # None /\ asked.loaded
                        \/ content # <<>> /\ (asked # None \/ Len(content) > Size)
             offer   == IF asked # None THEN asked
                        ELSE [byte |-> 0, num |-> 0, loaded |-> TRUE]
             whole   == [Reply("final") EXCEPT !.payload = content]
             block   == [Reply("final") EXCEPT
                            !.payload = Chunk(job.down, offer.byte),
                            !.block2 = [num |-> offer.num,
                                        more |-> More(offer.num, job.down)]]
  <2>1. /\ executed' = IF HasResource THEN executed
                       ELSE Append(executed, IF Collecting(q) THEN Collected(q)
                                                              ELSE q.payload)
        /\ collecting' = IF Collecting(q) THEN None ELSE collecting
        /\ offering' = IF cut THEN AdvanceOffer(offer) ELSE asked
        /\ Answer(q, IF cut THEN block ELSE whole, TRUE, FALSE)
        /\ UNCHANGED client
    BY <1>12 DEF Serve
  <2>2. content \in Seq(Nat)
    BY <1>3, BodyType DEF HasResource, TypeInv, TypeOK, Transaction, Response
  <2>3. offer \in [byte: Nat, num: Nat, loaded: BOOLEAN]
    BY <1>7
  <2>4. whole \in Response
    BY <2>2, ReplyType DEF Response
  <2>5. block \in Response
    <3>1. offer.num \in Nat /\ offer.byte \in Nat
      BY <2>3
    <3>2. Chunk(job.down, offer.byte) \in Seq(Nat)
      BY <1>3, <3>1, ChunkType
    <3>3. More(offer.num, job.down) \in BOOLEAN
      BY DEF More
    <3>4. QED
      BY <3>1, <3>2, <3>3, ReplyType DEF Response, Block
  <2>6. AdvanceOffer(offer) \in [byte: Nat, num: Nat, loaded: BOOLEAN]
    BY <2>3, AdvanceOfferType
  <2>7. offering' \in [byte: Nat, num: Nat, loaded: BOOLEAN] \cup {None}
    BY <1>7, <2>1, <2>6
  <2>8. (IF cut THEN block ELSE whole) \in Response
    BY <2>4, <2>5
  <2>9. /\ network' \subseteq Request \cup Response /\ due' \subseteq network'
        /\ known' \subseteq FirstMid .. (curMid' - 1)
        /\ exchange' \in Transaction \cup {None} /\ MidsUsed' /\ KnownIsKept'
    BY <2>1, <2>8, AnswerType
  <2>10. executed' \in Seq(Seq(Nat))
    BY <1>4, <1>6, <2>1 DEF TypeInv, TypeOK
  <2>11. collecting' \in [num: Nat, payload: Seq(Nat)] \cup {None}
    BY <2>1 DEF TypeInv, TypeOK
  <2>12. TypeOK'
    BY <1>1, <1>2, <2>1, <2>7, <2>9, <2>10, <2>11 DEF TypeInv, TypeOK, client
  <2>13. QED
    BY <2>9, <2>12 DEF TypeInv
<1>13. QED
  BY <1>8, <1>9, <1>10, <1>11, <1>12

LEMMA ClientStepType ==
    ASSUME TypeInv, NEW p \in network, p \in Response,
           SendNext(p) \/ FetchNext(p) \/ AskAgain(p) \/ Conclude(p)
    PROVE  TypeInv'
<1>1. Deliver(p) /\ UNCHANGED <<job, server, purges>>
  BY DEF SendNext, FetchNext, AskAgain, Conclude
<1>2. repeats' \in 0 .. MaxRepeats
  BY <1>1, DeliverType DEF TypeInv
<1>3. job \in [up: Nat, down: Nat] /\ job.up \in Nat
  BY TransferAssumption DEF TypeInv, TypeOK
<1>4. /\ p.code \in {"final", "continue", "incomplete"} /\ p.block1 \in Block \cup {None}
      /\ p.block2 \in Block \cup {None} /\ p.payload \in Seq(Nat)
  BY DEF Response
<1>5. request \in Request /\ request \in Request \cup Response
  BY DEF TypeInv, TypeOK
<1>6. downItem # None => downItem \in [num: Nat, payload: Seq(Nat)]
  BY DEF TypeInv, TypeOK
<1>7. Return(p.code, p.payload) \/ UNCHANGED result =>
        result' \in [code: {"final", "continue", "incomplete"}, payload: Seq(Nat)] \cup {None}
  BY <1>4 DEF Return, TypeInv, TypeOK
<1>8. ASSUME SendNext(p) PROVE TypeInv'
  <2> DEFINE r == [request EXCEPT !.payload = Chunk(job.up, upItem.byte),
                                  !.block1 = [num |-> upItem'.num, more |-> upItem'.more]]
  <2>1. /\ upItem' = AdvanceSent
        /\ Ask(p, r)
        /\ UNCHANGED <<downItem, result>>
        /\ upItem # None
    BY <1>8 DEF SendNext, Continued
  <2>2. upItem.byte \in Nat /\ upItem.num \in Nat
    BY <2>1 DEF TypeInv, TypeOK
  <2>3. upItem' \in [byte: Nat, num: Nat, more: BOOLEAN]
    BY <2>1, <2>2, TransferAssumption DEF AdvanceSent
  <2>4. Chunk(job.up, upItem.byte) \in Seq(Nat)
    BY <1>3, <2>2, ChunkType
  <2>5. r \in Request
    BY <1>5, <2>3, <2>4 DEF Request, Block
  <2>6. TypeOK'
    BY <1>1, <1>2, <2>1, <2>3, <2>5, AskType DEF TypeInv, TypeOK, server
  <2>7. QED
    BY <1>1, <2>1, <2>5, <2>6, AskType DEF TypeInv
<1>9. ASSUME FetchNext(p) PROVE TypeInv'
  <2>1. p.block2 \in Block /\ p.block2.num + 1 \in Nat
    BY <1>4, <1>9 DEF FetchNext, Offered, Block
  <2>2. CASE ~Raises(p)
    <3> DEFINE r == [request EXCEPT !.block2 = [num |-> p.block2.num + 1, more |-> FALSE]]
    <3>1. /\ downItem' = [num |-> p.block2.num + 1,
                          payload |-> IF downItem = None THEN p.payload
                                      ELSE downItem.payload \o p.payload]
          /\ Ask(p, r) /\ UNCHANGED <<upItem, result>>
      BY <1>9, <2>2 DEF FetchNext
    <3>2. r \in Request
      BY <1>5, <2>1 DEF Request, Block
    <3>3. downItem # None => downItem.payload \o p.payload \in Seq(Nat)
      BY <1>4, <1>6
    <3>4. downItem' \in [num: Nat, payload: Seq(Nat)]
      BY <1>4, <2>1, <3>1, <3>3
    <3>5. TypeOK'
      BY <1>1, <1>2, <3>1, <3>2, <3>4, AskType DEF TypeInv, TypeOK, server
    <3>6. QED
      BY <1>1, <3>1, <3>2, <3>5, AskType DEF TypeInv
  <2>3. CASE Raises(p)
    <3>1. /\ downItem' = [downItem EXCEPT !.num = p.block2.num + 1]
          /\ Consumed(p) /\ UNCHANGED <<request, curMid, upItem, result>>
      BY <1>9, <2>3 DEF FetchNext
    <3>2. downItem' \in [num: Nat, payload: Seq(Nat)]
      BY <1>6, <2>1, <2>3, <3>1 DEF Raises
    <3>3. network' = network /\ due' \subseteq network
      BY <3>1 DEF Consumed, TypeInv, TypeOK
    <3>4. TypeOK'
      BY <1>1, <1>2, <3>1, <3>2, <3>3 DEF TypeInv, TypeOK, server
    <3>5. QED
      BY <1>1, <3>1, <3>3, <3>4 DEF TypeInv, MidsUsed, KnownIsKept, server
  <2>4. QED
    BY <2>2, <2>3
<1>10. ASSUME AskAgain(p) PROVE TypeInv'
  <2>1. Exchanged(p, request) /\ UNCHANGED client
    BY <1>10 DEF AskAgain
  <2>2. /\ network' \subseteq Request \cup Response /\ due' \subseteq network'
        /\ network' \subseteq network \cup {request}
    BY <1>5, <2>1, NetworkType DEF TypeInv
  <2>3. TypeOK'
    BY <1>1, <1>2, <2>1, <2>2 DEF TypeInv, TypeOK, client, server
  <2>4. MidsUsed'
    BY <2>1, <2>2 DEF TypeInv, MidsUsed, client
  <2>5. QED
    BY <1>1, <2>3, <2>4 DEF TypeInv, KnownIsKept, server
<1>11. ASSUME Conclude(p) PROVE TypeInv'
  <2>1. /\ Consumed(p) /\ UNCHANGED <<curMid, upItem>>
        /\ request' = IF Continued(p) THEN [request EXCEPT !.block1 = None] ELSE request
    BY <1>11 DEF Conclude
  <2>2. request' \in Request /\ request'.mid = request.mid
    BY <1>5, <2>1 DEF Request, Block
  <2>3. network' = network /\ due' \subseteq network
    BY <2>1 DEF Consumed, TypeInv, TypeOK
  <2>4. downItem' \in {downItem, None}
    BY <1>11 DEF Conclude
  <2>5. CASE Return(p.code, p.payload) \/ UNCHANGED result
    <3>1. TypeOK'
      BY <1>1, <1>2, <1>7, <2>1, <2>2, <2>3, <2>4, <2>5 DEF TypeInv, TypeOK, server
    <3>2. QED
      BY <1>1, <2>1, <2>2, <2>3, <3>1 DEF TypeInv, MidsUsed, KnownIsKept, server
  <2>6. CASE downItem # None /\ Return(p.code, downItem.payload \o p.payload)
    <3>1. downItem.payload \o p.payload \in Seq(Nat)
      BY <1>4, <1>6, <2>6
    <3>2. result' \in [code: {"final", "continue", "incomplete"}, payload: Seq(Nat)]
                       \cup {None}
      BY <1>4, <2>6, <3>1 DEF Return, TypeInv, TypeOK
    <3>3. TypeOK'
      BY <1>1, <1>2, <2>1, <2>2, <2>3, <2>4, <3>2 DEF TypeInv, TypeOK, server
    <3>4. QED
      BY <1>1, <2>1, <2>2, <2>3, <3>3 DEF TypeInv, MidsUsed, KnownIsKept, server
  <2>7. QED
    BY <1>11, <2>5, <2>6 DEF Conclude
<1>12. QED
  BY <1>8, <1>9, <1>10, <1>11

LEMMA PurgeType == TypeInv /\ Purge => TypeInv'
<1> SUFFICES ASSUME TypeInv, Purge PROVE TypeInv'
  OBVIOUS
<1>1. purges' \in 0 .. MaxPurges
  BY TransferAssumption DEF Purge, TypeInv, TypeOK
<1>2. QED
  BY <1>1 DEF Purge, TypeInv, TypeOK, MidsUsed, KnownIsKept, client

\* Who takes a message, and of what kind it is.
LEMMA Steps ==
    ASSUME TypeOK, NEW m \in network, Receive(m)
    PROVE  \/ /\ m \in Request
              /\ AnswerAgain(m) \/ Refuse(m) \/ Collect(m) \/ RepeatAnswer(m) \/ Serve(m)
           \/ /\ m \in Response
              /\ SendNext(m) \/ FetchNext(m) \/ AskAgain(m) \/ Conclude(m)
BY Kinds DEF TypeOK, Receive, AnswerAgain, Refuse, Collect, RepeatAnswer, Serve,
             SendNext, FetchNext, AskAgain, Conclude

LEMMA StutterType == TypeInv /\ UNCHANGED vars => TypeInv'
BY DEF TypeInv, TypeOK, MidsUsed, KnownIsKept, vars, client, server

LEMMA TypeStep == TypeInv /\ [Next]_vars => TypeInv'
<1> SUFFICES ASSUME TypeInv, [Next]_vars PROVE TypeInv'
  OBVIOUS
<1>1. CASE Purge
  BY <1>1, PurgeType
<1>2. ASSUME NEW m \in network, Receive(m) PROVE TypeInv'
  BY <1>2, Steps, ServerStepType, ClientStepType DEF TypeInv
<1>3. CASE UNCHANGED vars
  BY <1>3, StutterType
<1>4. QED
  BY <1>1, <1>2, <1>3 DEF Next

LEMMA TypeInvariant == Spec => []TypeInv
BY InitType, TypeStep, PTL DEF Spec

\* Every variable of a transfer keeps its type, whatever the network repeats and
\* whenever the server purges its tables.
THEOREM TypeCorrect == Spec => []TypeOK
BY TypeInvariant, PTL DEF TypeInv

-----------------------------------------------------------------------------
(* The invariant behind UploadIsWhole and HandlerRunsOnce *)

\* A request that asks for no block of the answer carries the block of the
\* upload that its option names, or all of it.
RequestIsBlock(q) ==
    q.block2 = None =>
        IF q.block1 = None THEN q.payload = Body(job.up)
        ELSE /\ q.block1.num * Size < job.up
             /\ q.payload = Chunk(job.up, q.block1.num * Size)
             /\ q.block1.more <=> q.block1.num * Size + Size < job.up

RequestsAreBlocks == \A q \in network : q.to = "server" => RequestIsBlock(q)

\* What the client repeats is what it has sent, until the option is deleted.
RepeatedIsBlock ==
    /\ upItem # None /\ upItem.more => RequestIsBlock(request)
    /\ downItem # None => request.block2 # None

\* The reading position of the upload follows from the block's number.
SentPosition ==
    upItem # None =>
        /\ upItem.byte = upItem.num * Size + Size
        /\ upItem.more <=> upItem.byte < job.up

\* What the server has collected is a beginning of the upload, and not all.
CollectedPrefix ==
    collecting # None =>
        /\ collecting.num * Size < job.up
        /\ collecting.payload = SubSeq(Body(job.up), 1, collecting.num * Size)

\* Until the handler has run, and for ever if its answer fits in a datagram,
\* no message is about a block of the answer.
NoBlocksYet ==
    executed = <<>> \/ job.down <= Size =>
        /\ offering = None
        /\ request.block2 = None
        /\ \A m \in network : m.block2 = None

\* The transaction has its resource once the handler has run, until a purge.
RanHasResource ==
    /\ executed = <<>> => ~HasResource
    /\ purges = 0 /\ executed # <<>> => HasResource

\* An answer that fits in a datagram is kept in one.
ShortAnswers ==
    job.down <= Size /\ exchange # None => Len(exchange.response.payload) <= Size

AnswerIsSent == exchange # None => exchange.response \in network

UploadInv ==
    /\ RequestsAreBlocks /\ RepeatedIsBlock /\ SentPosition /\ CollectedPrefix
    /\ NoBlocksYet /\ RanHasResource /\ ShortAnswers /\ AnswerIsSent
    /\ UploadIsWhole /\ HandlerRunsOnce

-----------------------------------------------------------------------------
(* Blocks joined in the order of their positions *)

LEMMA JoinedChunk ==
    ASSUME NEW n \in Nat, NEW byte \in 0 .. n
    PROVE  SubSeq(Body(n), 1, byte) \o Chunk(n, byte)
             = SubSeq(Body(n), 1, Least(byte + Size, n))
<1>1. Body(n) \in Seq(Nat) /\ Len(Body(n)) = n
  BY BodyType
<1>2. Least(byte + Size, n) \in byte .. n
  BY TransferAssumption DEF Least
<1>3. /\ 1 \in 1 .. Len(Body(n)) + 1
      /\ byte \in 1 - 1 .. Len(Body(n))
      /\ Least(byte + Size, n) \in byte .. Len(Body(n))
  BY <1>1, <1>2
<1>4. QED
  BY <1>1, <1>3, ConcatAdjacentSubSeq DEF Chunk

LEMMA WholeBody ==
    ASSUME NEW n \in Nat
    PROVE  SubSeq(Body(n), 1, n) = Body(n)
BY BodyType, SubSeqFull

LEMMA FirstChunk ==
    ASSUME NEW n \in Nat
    PROVE  /\ SubSeq(Body(n), 1, 0) \o Chunk(n, 0) = Chunk(n, 0)
           /\ n <= Size => Chunk(n, 0) = Body(n)
<1>1. SubSeq(Body(n), 1, 0) = <<>>
  BY SubSeqEmpty
<1>2. Chunk(n, 0) \in Seq(Nat)
  BY ChunkType
<1>3. n <= Size => Chunk(n, 0) = Body(n)
  BY WholeBody, TransferAssumption DEF Chunk, Least
<1>4. QED
  BY <1>1, <1>2, <1>3

\* An expected block of an upload makes what is collected a longer beginning of
\* it; the block that announces no more completes it.
LEMMA CollectedGrows ==
    ASSUME TypeInv, CollectedPrefix, NEW q \in Request, RequestIsBlock(q),
           Collecting(q), Expected(q)
    PROVE  /\ q.block1.more =>
                /\ (q.block1.num + 1) * Size < job.up
                /\ Collected(q) = SubSeq(Body(job.up), 1, (q.block1.num + 1) * Size)
           /\ ~q.block1.more => Collected(q) = Body(job.up)
<1> DEFINE n    == job.up
           byte == q.block1.num * Size
<1>1. n \in Nat /\ Size \in Nat
  BY TransferAssumption DEF TypeInv, TypeOK
<1>2. q.block1 \in Block /\ q.block2 = None
  BY DEF Collecting, Request
<1>3. q.block1.num \in Nat /\ q.block1.more \in BOOLEAN
  BY <1>2 DEF Block
<1>4. byte \in Nat /\ (q.block1.num + 1) * Size = byte + Size
  BY <1>1, <1>3
<1>5. /\ byte < n /\ q.payload = Chunk(n, byte)
      /\ q.block1.more <=> byte + Size < n
  BY <1>2, NoneAssumption DEF RequestIsBlock
<1>6. Collected(q) = SubSeq(Body(n), 1, byte) \o Chunk(n, byte)
  <2>1. CASE collecting = None
    <3>1. q.block1.num = 0 /\ byte = 0
      BY <1>1, <2>1 DEF Expected
    <3>2. QED
      BY <1>1, <1>5, <2>1, <3>1, FirstChunk DEF Collected
  <2>2. CASE collecting # None
    BY <1>5, <2>2 DEF Expected, CollectedPrefix, Collected
  <2>3. QED
    BY <2>1, <2>2
<1>7. Collected(q) = SubSeq(Body(n), 1, Least(byte + Size, n))
  <2>1. byte \in 0 .. n
    BY <1>1, <1>4, <1>5
  <2>2. SubSeq(Body(n), 1, byte) \o Chunk(n, byte)
          = SubSeq(Body(n), 1, Least(byte + Size, n))
    BY <1>1, <2>1, JoinedChunk
  <2>3. QED
    BY <1>6, <2>2
<1>8. ASSUME q.block1.more
      PROVE  byte + Size < n /\ Collected(q) = SubSeq(Body(n), 1, byte + Size)
  BY <1>1, <1>4, <1>5, <1>7, <1>8 DEF Least
<1>9. ASSUME ~q.block1.more PROVE Collected(q) = Body(n)
  <2>1. Least(byte + Size, n) = n
    BY <1>1, <1>4, <1>5, <1>9 DEF Least
  <2>2. QED
    BY <1>1, <1>7, <2>1, WholeBody
<1>10. QED
  BY <1>4, <1>8, <1>9

-----------------------------------------------------------------------------
(* Every step preserves it *)

LEMMA InitUpload == Init => UploadInv
<1> SUFFICES ASSUME Init PROVE UploadInv
  OBVIOUS
<1>1. job.up \in Nat /\ Size \in Nat \ {0}
  BY TransferAssumption DEF Init
<1>2. /\ 0 * Size = 0 /\ 0 + Size = Size
      /\ More(0, job.up) \in BOOLEAN
      /\ More(0, job.up) <=> Size <= job.up
  BY <1>1 DEF More
<1>3. request = FirstRequest(job.up) /\ network = {request} /\ request.block2 = None
  BY DEF Init, FirstRequest
<1>4. RequestIsBlock(request)
  <2>1. CASE job.up > Size
    <3>1. /\ request.block1 = [num |-> 0, more |-> More(0, job.up)]
          /\ request.payload = Chunk(job.up, 0)
      BY <1>3, <2>1 DEF FirstRequest
    <3>2. request.block1 \in Block
      BY <1>2, <3>1 DEF Block
    <3>3. request.block1.num = 0 /\ request.block1.more
      BY <1>1, <1>2, <2>1, <3>1
    <3>4. QED
      BY <1>1, <1>2, <2>1, <3>1, <3>2, <3>3, NoneAssumption DEF RequestIsBlock
  <2>2. CASE ~(job.up > Size)
    <3>1. request.block1 = None /\ request.payload = Chunk(job.up, 0)
      BY <1>3, <2>2 DEF FirstRequest
    <3>2. job.up <= Size
      BY <1>1, <2>2
    <3>3. Chunk(job.up, 0) = Body(job.up)
      BY <1>1, <3>2, FirstChunk
    <3>4. QED
      BY <3>1, <3>3 DEF RequestIsBlock
  <2>3. QED
    BY <2>1, <2>2
<1>5. RequestsAreBlocks /\ RepeatedIsBlock
  BY <1>3, <1>4 DEF Init, RequestsAreBlocks, RepeatedIsBlock
<1>6. SentPosition
  <2>1. CASE job.up > Size
    <3>1. upItem = [byte |-> Size, num |-> 0, more |-> More(0, job.up)]
      BY <2>1 DEF Init
    <3>2. upItem.byte = Size /\ upItem.num = 0 /\ upItem.more
      BY <1>1, <1>2, <2>1, <3>1
    <3>3. QED
      BY <1>1, <1>2, <2>1, <3>2 DEF SentPosition
  <2>2. CASE ~(job.up > Size)
    BY <2>2 DEF Init, SentPosition
  <2>3. QED
    BY <2>1, <2>2
<1>7. CollectedPrefix /\ RanHasResource /\ ShortAnswers /\ AnswerIsSent
  BY DEF Init, CollectedPrefix, RanHasResource, HasResource, ShortAnswers, AnswerIsSent
<1>8. NoBlocksYet
  BY <1>3 DEF Init, NoBlocksYet
<1>9. UploadIsWhole /\ HandlerRunsOnce
  BY DEF Init, UploadIsWhole, HandlerRunsOnce
<1>10. QED
  BY <1>5, <1>6, <1>7, <1>8, <1>9 DEF UploadInv

\* The client's part of the invariant, when the server answers r.
LEMMA AnswerUpload ==
    ASSUME TypeInv, UploadInv, NEW q \in Request, NEW r \in Response,
           NEW resource \in BOOLEAN, NEW transfer \in BOOLEAN,
           Answer(q, r, resource, transfer), UNCHANGED <<job, client>>
    PROVE  /\ RequestsAreBlocks' /\ RepeatedIsBlock' /\ SentPosition' /\ AnswerIsSent'
           /\ network' = network \cup {r}
           /\ exchange'.response = r
           /\ HasResource' <=> resource
<1>1. network' = network \cup {r}
  BY DEF Answer, Exchanged
<1>2. /\ exchange' = [response |-> r, resource |-> resource, transfer |-> transfer]
      /\ exchange' \in Transaction
  BY DEF Answer, Transaction
<1>3. exchange' # None
  BY <1>2, NoneAssumption
<1>4. RequestsAreBlocks'
  BY <1>1, Kinds DEF UploadInv, RequestsAreBlocks, RequestIsBlock
<1>5. RepeatedIsBlock' /\ SentPosition'
  BY DEF UploadInv, RepeatedIsBlock, RequestIsBlock, SentPosition, client
<1>6. AnswerIsSent' /\ exchange'.response = r /\ (HasResource' <=> resource)
  BY <1>1, <1>2, <1>3 DEF AnswerIsSent, HasResource
<1>7. QED
  BY <1>1, <1>2, <1>3, <1>4, <1>5, <1>6

\* A response that is about no block of the answer, from a transaction that
\* knows as much of its resource as before, while the handler does not run.
LEMMA QuietUpload ==
    ASSUME TypeInv, UploadInv, NEW q \in Request, NEW r \in Response,
           NEW transfer \in BOOLEAN,
           Answer(q, r, HasResource, transfer),
           UNCHANGED <<job, client, executed, purges>>,
           CollectedPrefix',
           executed = <<>> \/ job.down <= Size => offering' = None /\ r.block2 = None,
           job.down <= Size => Len(r.payload) <= Size
    PROVE  UploadInv'
<1>1. HasResource \in BOOLEAN
  BY DEF TypeInv, TypeOK, Transaction, HasResource
<1>2. /\ RequestsAreBlocks' /\ RepeatedIsBlock' /\ SentPosition' /\ AnswerIsSent'
      /\ network' = network \cup {r} /\ exchange'.response = r
      /\ HasResource' <=> HasResource
  BY <1>1, AnswerUpload
<1>3. NoBlocksYet'
  BY <1>2 DEF UploadInv, NoBlocksYet, client
<1>4. RanHasResource' /\ ShortAnswers'
  BY <1>2 DEF UploadInv, RanHasResource, ShortAnswers
<1>5. UploadIsWhole' /\ HandlerRunsOnce'
  BY DEF UploadInv, UploadIsWhole, HandlerRunsOnce
<1>6. QED
  BY <1>2, <1>3, <1>4, <1>5 DEF UploadInv

\* A step that leaves the network and both sides as they are.
LEMMA SameUpload ==
    ASSUME UploadInv, network' = network, UNCHANGED <<job, client, server, purges>>
    PROVE  UploadInv'
BY DEF UploadInv, RequestsAreBlocks, RequestIsBlock, RepeatedIsBlock, SentPosition,
       CollectedPrefix, NoBlocksYet, RanHasResource, HasResource, ShortAnswers,
       AnswerIsSent, UploadIsWhole, HandlerRunsOnce, client, server

\* The step in which the handler may run.
LEMMA ServeUpload ==
    ASSUME TypeInv, UploadInv, NEW q \in network, q \in Request, Serve(q)
    PROVE  UploadInv'
<1> DEFINE content == IF HasResource THEN exchange.response.payload ELSE Body(job.down)
           asked   == Asked(q)
           cut     == \/ asked # None /\ asked.loaded
                      \/ content # <<>> /\ (asked # None \/ Len(content) > Size)
           offer   == IF asked # None THEN asked
                      ELSE [byte |-> 0, num |-> 0, loaded |-> TRUE]
           whole   == [Reply("final") EXCEPT !.payload = content]
           block   == [Reply("final") EXCEPT
                          !.payload = Chunk(job.down, offer.byte),
                          !.block2 = [num |-> offer.num,
                                      more |-> More(offer.num, job.down)]]
           r       == IF cut THEN block ELSE whole
           given   == IF Collecting(q) THEN Collected(q) ELSE q.payload
<1>1. /\ IF Collecting(q) THEN Expected(q) /\ ~q.block1.more ELSE ~InTransfer
      /\ executed' = IF HasResource THEN executed ELSE Append(executed, given)
      /\ collecting' = IF Collecting(q) THEN None ELSE collecting
      /\ offering' = IF cut THEN AdvanceOffer(offer) ELSE asked
      /\ Answer(q, r, TRUE, FALSE)
      /\ UNCHANGED <<job, client, purges>>
  BY DEF Serve
<1>2. /\ job.up \in Nat /\ job.down \in Nat /\ Size \in Nat
      /\ executed \in Seq(Seq(Nat)) /\ q.payload \in Seq(Nat)
      /\ exchange # None => exchange.response \in Response
  BY TransferAssumption DEF TypeInv, TypeOK, Request, Transaction
<1>3. r \in Response
  <2>1. asked \in [byte: Nat, num: Nat, loaded: BOOLEAN] \cup {None}
    BY AskedType DEF TypeInv
  <2>2. offer \in [byte: Nat, num: Nat, loaded: BOOLEAN]
    BY <2>1
  <2>3. Chunk(job.down, offer.byte) \in Seq(Nat)
    BY <1>2, <2>2, ChunkType
  <2>4. content \in Seq(Nat)
    BY <1>2, BodyType DEF HasResource, Response
  <2>5. offer.num \in Nat /\ More(offer.num, job.down) \in BOOLEAN
    BY <2>2 DEF More
  <2>6. block \in Response
    BY <2>3, <2>5, ReplyType DEF Response, Block
  <2>7. whole \in Response
    BY <2>4, ReplyType DEF Response
  <2>8. QED
    BY <2>6, <2>7
<1>4. /\ RequestsAreBlocks' /\ RepeatedIsBlock' /\ SentPosition' /\ AnswerIsSent'
      /\ network' = network \cup {r} /\ exchange'.response = r /\ HasResource'
  <2> HIDE DEF r
  <2>1. Answer(q, r, TRUE, FALSE) /\ UNCHANGED <<job, client>>
    BY <1>1
  <2>2. QED
    BY <1>3, <2>1, AnswerUpload, Zenon
<1>5. RequestIsBlock(q)
  BY Kinds DEF UploadInv, RequestsAreBlocks
<1>6. Collecting(q) => given = Body(job.up)
  BY <1>1, <1>5, CollectedGrows DEF UploadInv
<1>7. (purges = 0 \/ job.down <= Size) /\ ~HasResource => given = Body(job.up)
  <2>1. SUFFICES ASSUME purges = 0 \/ job.down <= Size, ~HasResource, ~Collecting(q)
                 PROVE  q.payload = Body(job.up)
    BY <1>6
  <2>2. q.block2 = None
    BY <2>1 DEF UploadInv, NoBlocksYet, RanHasResource
  <2>3. QED
    BY <1>5, <2>1, <2>2 DEF Collecting, RequestIsBlock
<1>8. given \in Seq(Nat)
  BY <1>2, <1>6, BodyType
<1>9. executed' # <<>>
  <2> HIDE DEF given
  <2>1. CASE HasResource
    BY <1>1, <2>1 DEF UploadInv, RanHasResource
  <2>2. CASE ~HasResource
    <3>1. executed' = Append(executed, given)
      BY <1>1, <2>2
    <3>2. QED
      BY <1>2, <1>8, <3>1, AppendProperties
  <2>3. QED
    BY <2>1, <2>2
<1>10. CollectedPrefix'
  BY <1>1 DEF UploadInv, CollectedPrefix
<1>11. RanHasResource'
  BY <1>4, <1>9 DEF RanHasResource
<1>12. ASSUME job.down <= Size
       PROVE  ~cut /\ asked = None /\ r = whole /\ Len(content) <= Size
  <2>1. q.block2 = None /\ offering = None
    BY <1>12 DEF UploadInv, NoBlocksYet
  <2>2. asked = None
    BY <2>1 DEF Asked
  <2>3. Len(content) <= Size
    BY <1>2, <1>12, BodyType DEF UploadInv, ShortAnswers, HasResource
  <2>4. Len(content) \in Nat
    BY <1>2, BodyType DEF HasResource, Response
  <2>5. ~cut
    BY <1>2, <2>2, <2>3, <2>4
  <2>6. QED
    BY <2>2, <2>3, <2>5
<1>13. whole.block2 = None /\ whole.payload = content
  BY DEF Reply
<1>14. NoBlocksYet'
  <2>1. SUFFICES ASSUME job.down <= Size
                 PROVE  offering' = None /\ request.block2 = None
                        /\ \A m \in network' : m.block2 = None
    BY <1>1, <1>9 DEF NoBlocksYet, client
  <2>2. QED
    BY <1>1, <1>4, <1>12, <1>13, <2>1 DEF UploadInv, NoBlocksYet
<1>15. ShortAnswers'
  BY <1>1, <1>4, <1>12, <1>13 DEF ShortAnswers
<1>16. UploadIsWhole'
  <2>1. SUFFICES ASSUME purges = 0 \/ job.down <= Size, NEW i \in DOMAIN executed'
                 PROVE  executed'[i] = Body(job.up)
    BY <1>1 DEF UploadIsWhole
  <2>2. \A k \in DOMAIN executed : executed[k] = Body(job.up)
    BY <2>1 DEF UploadInv, UploadIsWhole
  <2>3. CASE HasResource
    BY <1>1, <2>1, <2>2, <2>3
  <2>4. CASE ~HasResource
    BY <1>1, <1>2, <1>7, <1>8, <2>1, <2>2, <2>4
  <2>5. QED
    BY <2>3, <2>4
<1>17. HandlerRunsOnce'
  <2>1. CASE HasResource
    BY <1>1, <2>1 DEF UploadInv, HandlerRunsOnce
  <2>2. CASE ~HasResource
    BY <1>1, <1>2, <1>8, <2>2 DEF UploadInv, RanHasResource, HandlerRunsOnce
  <2>3. QED
    BY <2>1, <2>2
<1>18. QED
  BY <1>4, <1>10, <1>11, <1>14, <1>15, <1>16, <1>17 DEF UploadInv

LEMMA ServerUpload ==
    ASSUME TypeInv, UploadInv, NEW q \in network, q \in Request,
           AnswerAgain(q) \/ Refuse(q) \/ Collect(q) \/ RepeatAnswer(q) \/ Serve(q)
    PROVE  UploadInv'
<1>1. ASSUME AnswerAgain(q) PROVE UploadInv'
  <2>1. /\ exchange.response \in network /\ Exchanged(q, exchange.response)
        /\ UNCHANGED <<job, client, server, purges>>
    BY <1>1 DEF AnswerAgain, Duplicate, TypeInv, KnownIsKept, UploadInv, AnswerIsSent
  <2>2. network' = network
    BY <2>1 DEF Exchanged
  <2>3. QED
    BY <2>1, <2>2, SameUpload
<1>2. ASSUME Refuse(q) PROVE UploadInv'
  <2> DEFINE r == Reply("incomplete")
  <2>1. r \in Response /\ r.block2 = None /\ r.payload = <<>>
    BY ReplyType DEF Reply
  <2>2. /\ Answer(q, r, HasResource, TRUE)
        /\ UNCHANGED <<job, client, collecting, offering, executed, purges>>
    BY <1>2 DEF Refuse
  <2>3. CollectedPrefix'
    BY <2>2 DEF UploadInv, CollectedPrefix
  <2>4. executed = <<>> \/ job.down <= Size => offering' = None
    BY <2>2 DEF UploadInv, NoBlocksYet
  <2>5. Len(r.payload) <= Size
    BY <2>1, TransferAssumption
  <2>6. QED
    BY <2>1, <2>2, <2>3, <2>4, <2>5, QuietUpload
<1>3. ASSUME Collect(q) PROVE UploadInv'
  <2> DEFINE r == [Reply("continue") EXCEPT !.block1 = q.block1]
  <2>1. /\ Collecting(q) /\ Expected(q) /\ q.block1.more
        /\ collecting' = [num |-> q.block1.num + 1, payload |-> Collected(q)]
        /\ Answer(q, r, HasResource, TRUE)
        /\ UNCHANGED <<job, client, offering, executed, purges>>
    BY <1>3 DEF Collect
  <2>2. r \in Response /\ r.block2 = None /\ r.payload = <<>>
    BY ReplyType DEF Reply, Response, Request
  <2>3. RequestIsBlock(q)
    BY Kinds DEF UploadInv, RequestsAreBlocks
  <2>4. CollectedPrefix'
    BY <2>1, <2>3, CollectedGrows DEF UploadInv, CollectedPrefix
  <2>5. executed = <<>> \/ job.down <= Size => offering' = None
    BY <2>1 DEF UploadInv, NoBlocksYet
  <2>6. Len(r.payload) <= Size
    BY <2>2, TransferAssumption
  <2>7. QED
    BY <2>1, <2>2, <2>4, <2>5, <2>6, QuietUpload
<1>4. ASSUME RepeatAnswer(q) PROVE UploadInv'
  <2> DEFINE r == exchange.response
  <2>1. /\ exchange # None /\ offering' = Asked(q)
        /\ Answer(q, r, HasResource, TRUE)
        /\ UNCHANGED <<job, client, collecting, executed, purges>>
    BY <1>4 DEF RepeatAnswer, InTransfer
  <2>2. r \in Response /\ r \in network
    BY <2>1 DEF TypeInv, TypeOK, Transaction, UploadInv, AnswerIsSent
  <2>3. CollectedPrefix'
    BY <2>1 DEF UploadInv, CollectedPrefix
  <2>4. executed = <<>> \/ job.down <= Size => offering' = None /\ r.block2 = None
    BY <2>1, <2>2 DEF UploadInv, NoBlocksYet, Asked
  <2>5. job.down <= Size => Len(r.payload) <= Size
    BY <2>1 DEF UploadInv, ShortAnswers
  <2>6. QED
    BY <2>1, <2>2, <2>3, <2>4, <2>5, QuietUpload
<1>5. QED
  BY <1>1, <1>2, <1>3, <1>4, ServeUpload

\* A step of the client keeps what the invariant says of the server, if the
\* messages it sends are requests and no request for a block comes too early.
LEMMA ClientKeeps ==
    ASSUME TypeInv, UploadInv, NEW p \in network,
           network' = network \/ (network' = network \cup {request'} /\ request' \in Request),
           UNCHANGED <<job, server, purges>>,
           request'.block2 = request.block2 \/ p.block2 # None
    PROVE  /\ CollectedPrefix' /\ NoBlocksYet' /\ RanHasResource' /\ ShortAnswers'
           /\ AnswerIsSent' /\ UploadIsWhole' /\ HandlerRunsOnce'
<1>1. CollectedPrefix' /\ RanHasResource' /\ ShortAnswers'
  BY DEF UploadInv, CollectedPrefix, RanHasResource, HasResource, ShortAnswers, server
<1>2. AnswerIsSent' /\ UploadIsWhole' /\ HandlerRunsOnce'
  BY DEF UploadInv, AnswerIsSent, UploadIsWhole, HandlerRunsOnce, server
<1>3. NoBlocksYet'
  BY DEF UploadInv, NoBlocksYet, server
<1>4. QED
  BY <1>1, <1>2, <1>3

LEMMA ClientUpload ==
    ASSUME TypeInv, UploadInv, NEW p \in network, p \in Response,
           SendNext(p) \/ FetchNext(p) \/ AskAgain(p) \/ Conclude(p)
    PROVE  UploadInv'
<1>1. UNCHANGED <<job, server, purges>>
  BY DEF SendNext, FetchNext, AskAgain, Conclude
<1>2. job.up \in Nat /\ Size \in Nat \ {0} /\ request \in Request
  BY TransferAssumption DEF TypeInv, TypeOK
<1>3. p.block2 # None => p.block2 \in Block /\ p.block2.num + 1 \in Nat
  BY DEF Response, Block
<1>4. ASSUME SendNext(p) PROVE UploadInv'
  <2> DEFINE r == [request EXCEPT !.payload = Chunk(job.up, upItem.byte),
                                  !.block1 = [num |-> upItem'.num, more |-> upItem'.more]]
  <2>1. /\ upItem # None /\ upItem.more /\ upItem' = AdvanceSent
        /\ Ask(p, r) /\ UNCHANGED <<downItem, result>>
    BY <1>4 DEF SendNext, Continued
  <2>2. /\ upItem.byte \in Nat /\ upItem.num \in Nat
        /\ upItem.byte = upItem.num * Size + Size /\ upItem.byte < job.up
    BY <2>1 DEF TypeInv, TypeOK, UploadInv, SentPosition
  <2>3. /\ upItem'.byte = upItem.byte + Size /\ upItem'.num = upItem.num + 1
        /\ upItem'.more <=> upItem'.byte < job.up
        /\ upItem' \in [byte: Nat, num: Nat, more: BOOLEAN]
    <3>1. upItem' = [byte |-> upItem.byte + Size, num |-> upItem.num + 1,
                     more |-> upItem.byte + Size < job.up]
      BY <2>1 DEF AdvanceSent
    <3>2. upItem.byte + Size \in Nat /\ upItem.num + 1 \in Nat
      BY <1>2, <2>2
    <3>3. (upItem.byte + Size < job.up) \in BOOLEAN
      OBVIOUS
    <3>4. QED
      BY <3>1, <3>2, <3>3
  <2>4. upItem'.num * Size = upItem.byte
    BY <1>2, <2>2, <2>3
  <2>5. [num |-> upItem'.num, more |-> upItem'.more] \in Block
    BY <2>3 DEF Block
  <2>6. Chunk(job.up, upItem.byte) \in Seq(Nat)
    BY <1>2, <2>2, ChunkType
  <2>7. r \in Request
    BY <1>2, <2>5, <2>6 DEF Request
  <2>8. /\ network' = network \cup {request'} /\ request' \in Request
        /\ request' = [r EXCEPT !.mid = curMid]
    BY <1>1, <2>1, <2>7, AskType
  <2>9. /\ request'.block2 = request.block2
        /\ request'.payload = Chunk(job.up, upItem.byte)
        /\ request'.block1 = [num |-> upItem'.num, more |-> upItem'.more]
    BY <1>2, <2>8 DEF Request
  <2>10. RequestIsBlock(request)'
    BY <1>1, <2>2, <2>3, <2>4, <2>5, <2>9, NoneAssumption DEF RequestIsBlock
  <2>11. RequestsAreBlocks'
    BY <1>1, <2>8, <2>10 DEF UploadInv, RequestsAreBlocks, RequestIsBlock
  <2>12. RepeatedIsBlock'
    BY <2>1, <2>9, <2>10 DEF UploadInv, RepeatedIsBlock, RequestIsBlock
  <2>13. SentPosition'
    BY <1>1, <1>2, <2>2, <2>3, <2>4 DEF SentPosition
  <2>14. QED
    BY <1>1, <2>8, <2>9, <2>11, <2>12, <2>13, ClientKeeps DEF UploadInv
<1>5. ASSUME FetchNext(p) PROVE UploadInv'
  <2>1. p.block2 # None /\ UNCHANGED <<upItem, result>>
    BY <1>5 DEF FetchNext, Offered
  <2>2. CASE ~Raises(p)
    <3> DEFINE r == [request EXCEPT !.block2 = [num |-> p.block2.num + 1, more |-> FALSE]]
    <3>1. Ask(p, r)
      BY <1>5, <2>2 DEF FetchNext
    <3>2. [num |-> p.block2.num + 1, more |-> FALSE] \in Block
      BY <1>3, <2>1 DEF Block
    <3>3. r \in Request
      BY <1>2, <3>2 DEF Request
    <3>4. /\ network' = network \cup {request'} /\ request' \in Request
          /\ request' = [r EXCEPT !.mid = curMid]
      BY <1>1, <3>1, <3>3, AskType
    <3>5. request'.block2 # None
      BY <1>2, <3>2, <3>4, NoneAssumption DEF Request
    <3>6. RequestsAreBlocks' /\ RepeatedIsBlock'
      BY <1>1, <3>4, <3>5 DEF UploadInv, RequestsAreBlocks, RepeatedIsBlock, RequestIsBlock
    <3>7. SentPosition'
      BY <1>1, <2>1 DEF UploadInv, SentPosition
    <3>8. QED
      BY <1>1, <2>1, <3>4, <3>6, <3>7, ClientKeeps DEF UploadInv
  <2>3. CASE Raises(p)
    <3>1. /\ downItem # None /\ network' = network /\ UNCHANGED request
      BY <1>5, <2>3 DEF FetchNext, Consumed, Raises
    <3>2. RequestsAreBlocks' /\ RepeatedIsBlock' /\ SentPosition'
      BY <1>1, <2>1, <3>1 DEF UploadInv, RequestsAreBlocks, RepeatedIsBlock,
                              RequestIsBlock, SentPosition
    <3>3. QED
      BY <1>1, <3>1, <3>2, ClientKeeps DEF UploadInv
  <2>4. QED
    BY <2>2, <2>3
<1>6. ASSUME AskAgain(p) PROVE UploadInv'
  <2>1. network' = network \cup {request'} /\ request' = request /\ UNCHANGED client
    BY <1>6 DEF AskAgain, Exchanged, client
  <2>2. RequestIsBlock(request)
    <3>1. CASE upItem # None /\ upItem.more
      BY <3>1 DEF UploadInv, RepeatedIsBlock
    <3>2. CASE downItem # None
      BY <3>2 DEF UploadInv, RepeatedIsBlock, RequestIsBlock
    <3>3. QED
      BY <1>6, <3>1, <3>2 DEF AskAgain, Continued, Unwanted
  <2>3. RequestsAreBlocks' /\ RepeatedIsBlock' /\ SentPosition'
    BY <1>1, <2>1, <2>2 DEF UploadInv, RequestsAreBlocks, RepeatedIsBlock,
                            RequestIsBlock, SentPosition, client
  <2>4. QED
    BY <1>1, <1>2, <2>1, <2>3, ClientKeeps DEF UploadInv
<1>7. ASSUME Conclude(p) PROVE UploadInv'
  <2>1. /\ network' = network /\ UNCHANGED upItem
        /\ downItem' = downItem \/ downItem' = None
        /\ Continued(p) => ~upItem.more
        /\ request' = IF Continued(p) THEN [request EXCEPT !.block1 = None] ELSE request
    BY <1>7 DEF Conclude, Consumed
  <2>2. request'.block2 = request.block2
    BY <1>2, <2>1 DEF Request
  <2>3. RequestsAreBlocks' /\ SentPosition'
    BY <1>1, <2>1 DEF UploadInv, RequestsAreBlocks, RequestIsBlock, SentPosition
  <2>4. RepeatedIsBlock'
    BY <1>1, <2>1, <2>2 DEF UploadInv, RepeatedIsBlock, RequestIsBlock, Continued
  <2>5. QED
    BY <1>1, <2>1, <2>2, <2>3, <2>4, ClientKeeps DEF UploadInv
<1>8. QED
  BY <1>4, <1>5, <1>6, <1>7

\* The server forgets the transaction and that the handler has run; the answer
\* of a later run still fits if this one's did.
LEMMA PurgeUpload == TypeInv /\ UploadInv /\ Purge => UploadInv'
<1> SUFFICES ASSUME TypeInv, UploadInv, Purge PROVE UploadInv'
  OBVIOUS
<1>1. /\ UNCHANGED <<job, network, client, collecting, executed>>
      /\ exchange' = None /\ offering' = None /\ purges' # 0 /\ purges \in Nat
  BY TransferAssumption DEF Purge, TypeInv, TypeOK
<1>2. RequestsAreBlocks' /\ RepeatedIsBlock' /\ SentPosition'
  BY <1>1 DEF UploadInv, RequestsAreBlocks, RepeatedIsBlock, RequestIsBlock,
              SentPosition, client
<1>3. CollectedPrefix' /\ NoBlocksYet'
  BY <1>1 DEF UploadInv, CollectedPrefix, NoBlocksYet, client
<1>4. RanHasResource' /\ ShortAnswers' /\ AnswerIsSent' /\ HandlerRunsOnce'
  BY <1>1 DEF RanHasResource, HasResource, ShortAnswers, AnswerIsSent, HandlerRunsOnce
<1>5. UploadIsWhole'
  BY <1>1 DEF UploadInv, UploadIsWhole
<1>6. QED
  BY <1>2, <1>3, <1>4, <1>5 DEF UploadInv

LEMMA UploadStep == TypeInv /\ UploadInv /\ [Next]_vars => UploadInv'
<1> SUFFICES ASSUME TypeInv, UploadInv, [Next]_vars PROVE UploadInv'
  OBVIOUS
<1>1. CASE Purge
  BY <1>1, PurgeUpload
<1>2. ASSUME NEW m \in network, Receive(m) PROVE UploadInv'
  BY <1>2, Steps, ServerUpload, ClientUpload DEF TypeInv
<1>3. CASE UNCHANGED vars
  BY <1>3, SameUpload DEF vars
<1>4. QED
  BY <1>1, <1>2, <1>3 DEF Next

LEMMA UploadInvariant == Spec => []UploadInv
BY InitUpload, TypeInvariant, UploadStep, PTL DEF Spec

\* The handler is given the payload the application sent, however its blocks were
\* repeated and reordered: for every payload and block size, and through any
\* purge if the answer fits in a datagram.
THEOREM UploadWhole == Spec => []UploadIsWhole
BY UploadInvariant, PTL DEF UploadInv

\* The handler runs once for a transfer of any number of blocks, as long as the
\* server does not purge its tables.
THEOREM HandlerOnce == Spec => []HandlerRunsOnce
BY UploadInvariant, PTL DEF UploadInv

-----------------------------------------------------------------------------
(* The invariant behind DownloadIsWhole: until the call returns, one request is *)
(* under way, and its block is the one both sides are at                        *)

\* The server has not taken the client's last request.
Fresh == request.mid \notin known

\* The server has answered the application's request and waits for no block.
HasAnswered == HasResource /\ ~InTransfer

\* Where the server reads when the client has all blocks before num.
Place(num) == [byte |-> num * Size, num |-> num, loaded |-> TRUE]

\* All requests but the last have been taken.
RequestsKnown ==
    /\ request \in network /\ request.mid = curMid - 1
    /\ \A q \in network : q.to = "server" => q = request \/ q.mid \in known

\* The server collects one block less than the client sends, until it takes it.
Uploading ==
    /\ downItem = None
    /\ request.block1 = IF upItem = None THEN None
                        ELSE [num |-> upItem.num, more |-> upItem.more]
    /\ Fresh => /\ ~HasResource /\ offering = None
                /\ IF upItem = None \/ upItem.num = 0
                   THEN exchange = None /\ collecting = None
                   ELSE collecting # None /\ collecting.num = upItem.num
    /\ ~Fresh /\ upItem # None /\ upItem.more =>
                /\ ~HasResource /\ offering = None
                /\ collecting # None /\ collecting.num = upItem.num + 1
    /\ ~Fresh /\ (upItem = None \/ ~upItem.more) =>
                /\ HasAnswered
                /\ offering = IF job.down <= Size THEN None ELSE Place(1)

\* The server reads where the client's last request asks, or one block on.
Downloading ==
    /\ job.down > Size
    /\ upItem # None => ~upItem.more
    /\ downItem # None /\ request.block2.num = downItem.num
    /\ downItem.num > 0 /\ downItem.num * Size <= job.down
    /\ downItem.payload = SubSeq(Body(job.down), 1, downItem.num * Size)
    /\ HasAnswered
    /\ offering = Place(IF Fresh THEN downItem.num ELSE downItem.num + 1)

Fetched == IF downItem = None THEN 0 ELSE downItem.num

IsContinue(p) ==
    /\ p.code = "continue" /\ p.block2 = None /\ p.block1 # None /\ upItem # None
    /\ p.block1.num <= upItem.num
    /\ p.block1.num = upItem.num /\ upItem.more => ~Fresh

\* An answer is the whole payload or the block that its option names, and never
\* ahead of the client's requests.
IsFinal(p) ==
    /\ p.code = "final" /\ p.block1 = None
    /\ upItem # None => ~upItem.more
    /\ IF job.down <= Size THEN p.block2 = None /\ p.payload = Body(job.down) /\ ~Fresh
       ELSE /\ p.block2 # None
            /\ p.block2.more = More(p.block2.num, job.down)
            /\ p.payload = Chunk(job.down, p.block2.num * Size)
            /\ p.block2.num <= Fetched
            /\ p.block2.num = Fetched => ~Fresh

Answers == \A p \in network : p.to = "client" => IsContinue(p) \/ IsFinal(p)

Ordered ==
    /\ RequestsKnown /\ Answers
    /\ request.block2 = None => Uploading
    /\ request.block2 # None => Downloading

OrderInv == result = None /\ purges = 0 => Ordered

\* The client's message IDs begin after 0, as they do unless a test chooses 0.
FirstMidCounts == FirstMid # 0

\* What an unanswered request is, and what any answer to it leaves.
LEMMA TakesLast ==
    ASSUME FirstMidCounts, TypeInv, RequestsKnown, NEW q \in network, q \in Request,
           ~Duplicate(q)
    PROVE  q = request /\ Fresh
<1>1. q.mid # 0
  BY TransferAssumption, Kinds DEF FirstMidCounts, TypeInv, MidsUsed, TypeOK
<1>2. QED
  BY <1>1, Kinds DEF Duplicate, RequestsKnown, Fresh

LEMMA AnswerOrder ==
    ASSUME TypeInv, Ordered, NEW r \in Response, Fresh,
           NEW resource \in BOOLEAN, NEW transfer \in BOOLEAN,
           Answer(request, r, resource, transfer), UNCHANGED <<job, client>>,
           IsContinue(r)' \/ IsFinal(r)'
    PROVE  /\ RequestsKnown' /\ Answers' /\ ~Fresh'
           /\ HasResource' <=> resource
           /\ InTransfer' <=> transfer
<1>1. /\ network' = network \cup {r} /\ known' = known \cup {request.mid}
      /\ exchange' = [response |-> r, resource |-> resource, transfer |-> transfer]
      /\ exchange' \in Transaction
      /\ UNCHANGED <<request, curMid, upItem, downItem>>
  BY DEF Answer, Exchanged, Transaction, client
<1>2. exchange' # None
  BY <1>1, NoneAssumption
<1>3. ~Fresh'
  BY <1>1 DEF Fresh
<1>4. RequestsKnown'
  BY <1>1, Kinds DEF Ordered, RequestsKnown
<1>5. ASSUME NEW p \in network, p.to = "client"
      PROVE  IsContinue(p)' \/ IsFinal(p)'
  <2>1. CASE IsContinue(p)
    BY <1>1, <1>3, <2>1 DEF IsContinue
  <2>2. CASE IsFinal(p)
    BY <1>1, <1>3, <2>2 DEF IsFinal, Fetched
  <2>3. QED
    BY <1>5, <2>1, <2>2 DEF Ordered, Answers
<1>6. Answers'
  BY <1>1, <1>5 DEF Answers
<1>7. QED
  BY <1>1, <1>2, <1>3, <1>4, <1>6 DEF HasResource, InTransfer

\* While the client's requests are taken in order, none is refused and no answer
\* is repeated for another request.
LEMMA NoneRefused ==
    ASSUME FirstMidCounts, TypeInv, Ordered, NEW q \in network, q \in Request
    PROVE  ~Refuse(q) /\ ~RepeatAnswer(q)
<1>1. SUFFICES ASSUME ~Duplicate(q), q = request, Fresh
               PROVE  /\ Collecting(q) => Expected(q)
                      /\ ~Collecting(q) => ~InTransfer
  BY TakesLast DEF Refuse, RepeatAnswer, Ordered
<1>2. CASE request.block2 = None
  <2>1. Uploading
    BY <1>2 DEF Ordered
  <2>2. upItem # None => upItem \in [byte: Nat, num: Nat, more: BOOLEAN]
    BY DEF TypeInv, TypeOK
  <2>3. Collecting(q) => upItem # None /\ request.block1.num = upItem.num
    BY <1>1, <2>1, <2>2 DEF Uploading, Collecting
  <2>4. Collecting(q) => Expected(q)
    BY <1>1, <2>1, <2>3 DEF Uploading, Expected
  <2>5. [num |-> upItem.num, more |-> upItem.more] \in Block \/ upItem = None
    BY <2>2 DEF Block
  <2>6. ~Collecting(q) => upItem = None
    BY <1>1, <1>2, <2>1, <2>5, NoneAssumption DEF Uploading, Collecting
  <2>7. QED
    BY <1>1, <2>1, <2>4, <2>6 DEF Uploading, InTransfer
<1>3. CASE request.block2 # None
  BY <1>1, <1>3 DEF Ordered, Downloading, HasAnswered, Collecting
<1>4. QED
  BY <1>2, <1>3

LEMMA CollectOrder ==
    ASSUME FirstMidCounts, TypeInv, Ordered, NEW q \in network, q \in Request, Collect(q)
    PROVE  Ordered'
<1>0. [Reply("continue") EXCEPT !.block1 = q.block1] \in Response
  BY ReplyType DEF Response, Request
<1>r. PICK r \in Response : r = [Reply("continue") EXCEPT !.block1 = q.block1]
  BY <1>0
<1>1. /\ q = request /\ Fresh /\ Collecting(q) /\ q.block1.more
      /\ collecting' = [num |-> q.block1.num + 1, payload |-> Collected(q)]
      /\ Answer(q, r, HasResource, TRUE)
      /\ UNCHANGED <<job, client, offering, executed>>
  BY <1>r, TakesLast DEF Collect, Ordered
<1>2. request.block2 = None /\ request.block1 # None /\ Uploading
  BY <1>1 DEF Collecting, Ordered
<1>3. /\ upItem # None /\ request.block1.num = upItem.num /\ upItem.more
      /\ upItem.num \in Nat /\ request.block1 \in Block
  BY <1>1, <1>2 DEF Uploading, TypeInv, TypeOK, Request
<1>4. r.block2 = None /\ r.code = "continue" /\ r.block1 = request.block1
  BY <1>1, <1>r DEF Reply
<1>5. collecting' # None /\ collecting'.num = upItem.num + 1
  <2>1. Collected(q) \in Seq(Nat)
    BY <1>1 DEF Collected, Request, TypeInv, TypeOK
  <2>2. collecting' \in [num: Nat, payload: Seq(Nat)]
    BY <1>1, <1>3, <2>1
  <2>3. QED
    BY <1>1, <1>3, <2>2, NoneAssumption
<1>6. ~HasResource /\ HasResource \in BOOLEAN /\ offering = None
  BY <1>1, <1>2 DEF Uploading, HasResource, TypeInv, TypeOK, Transaction
<1>7. UNCHANGED <<job, request, upItem, downItem, offering>>
  BY <1>1 DEF client
<1>8. ~Fresh'
  BY <1>1 DEF Answer, Fresh, client
<1>9. IsContinue(r)'
  <2>1. /\ r.code = "continue" /\ r.block2 = None
        /\ r.block1 # None /\ r.block1.num = upItem.num
    BY <1>2, <1>3, <1>4
  <2>2. upItem' = upItem /\ upItem # None /\ upItem.num <= upItem.num
    BY <1>3, <1>7
  <2>3. QED
    BY <1>8, <2>1, <2>2 DEF IsContinue
<1>10. RequestsKnown' /\ Answers' /\ (HasResource' <=> HasResource)
  BY <1>1, <1>4, <1>6, <1>9, AnswerOrder
<1>11. Uploading'
  BY <1>2, <1>3, <1>5, <1>6, <1>7, <1>8, <1>10 DEF Uploading
<1>12. QED
  BY <1>2, <1>7, <1>10, <1>11 DEF Ordered

LEMMA AdvanceLiteral ==
    ASSUME NEW byte \in Nat, NEW num \in Nat
    PROVE  AdvanceOffer([byte |-> byte, num |-> num, loaded |-> TRUE])
             = [byte |-> byte + Size, num |-> num + 1, loaded |-> TRUE]
<1>1. PICK o \in [byte: Nat, num: Nat, loaded: BOOLEAN] :
          o = [byte |-> byte, num |-> num, loaded |-> TRUE]
  OBVIOUS
<1>2. o.byte = byte /\ o.num = num
  BY <1>1
<1>3. PICK a \in [byte: Nat, num: Nat, loaded: BOOLEAN] : a = AdvanceOffer(o)
  BY AdvanceOfferType
<1>4. a.byte = o.byte + Size /\ a.num = o.num + 1 /\ a.loaded = TRUE
  BY <1>3 DEF AdvanceOffer
<1>5. QED
  BY <1>1, <1>2, <1>3, <1>4

LEMMA ServeOrder ==
    ASSUME FirstMidCounts, TypeInv, UploadInv, Ordered,
           NEW q \in network, q \in Request, Serve(q)
    PROVE  Ordered'
<1> DEFINE content == IF HasResource THEN exchange.response.payload ELSE Body(job.down)
           asked   == Asked(q)
           cut     == \/ asked # None /\ asked.loaded
                      \/ content # <<>> /\ (asked # None \/ Len(content) > Size)
           offer   == IF asked # None THEN asked
                      ELSE [byte |-> 0, num |-> 0, loaded |-> TRUE]
           whole   == [Reply("final") EXCEPT !.payload = content]
           block   == [Reply("final") EXCEPT
                          !.payload = Chunk(job.down, offer.byte),
                          !.block2 = [num |-> offer.num,
                                      more |-> More(offer.num, job.down)]]
           n       == Fetched
<1>1. /\ q = request /\ Fresh
      /\ IF Collecting(q) THEN Expected(q) /\ ~q.block1.more ELSE ~InTransfer
      /\ offering' = IF cut THEN AdvanceOffer(offer) ELSE asked
      /\ Answer(q, IF cut THEN block ELSE whole, TRUE, FALSE)
      /\ UNCHANGED <<job, client, purges>>
  BY TakesLast DEF Serve, Ordered
<1>2. job.down \in Nat /\ Size \in Nat \ {0}
  BY TransferAssumption DEF TypeInv, TypeOK
<1>3. UNCHANGED <<job, request, upItem, downItem, curMid>> /\ ~Fresh'
  BY <1>1 DEF client, Answer, Fresh
<1>4. ASSUME NEW r \in Response, r.code = "final", r.block1 = None,
             upItem # None => ~upItem.more,
             IF job.down <= Size THEN r.block2 = None /\ r.payload = Body(job.down)
             ELSE /\ r.block2 # None /\ r.block2.num = n
                  /\ r.block2.more = More(n, job.down)
                  /\ r.payload = Chunk(job.down, n * Size),
             Answer(q, r, TRUE, FALSE)
      PROVE  RequestsKnown' /\ Answers' /\ HasAnswered'
  <2>1. n' = n /\ n <= n
    BY <1>2, <1>3 DEF Fetched, TypeInv, TypeOK
  <2>2. IsFinal(r)'
    BY <1>3, <1>4, <2>1 DEF IsFinal
  <2>3. UNCHANGED <<job, client>>
    BY <1>1
  <2> HIDE DEF n
  <2>4. RequestsKnown' /\ Answers' /\ (HasResource' <=> TRUE) /\ (InTransfer' <=> FALSE)
    BY <1>1, <1>4, <2>2, <2>3, AnswerOrder
  <2>5. QED
    BY <2>4 DEF HasAnswered
<1>5. CASE request.block2 = None
  <2>1. Uploading /\ ~HasResource /\ offering = None /\ n = 0
    BY <1>1, <1>5 DEF Ordered, Uploading, Fetched
  <2>2. upItem # None => ~upItem.more
    <3>1. CASE upItem # None
      <4>1. request.block1 = [num |-> upItem.num, more |-> upItem.more]
        BY <2>1, <3>1 DEF Uploading
      <4>2. request.block1 # None
        <5>1. upItem \in [byte: Nat, num: Nat, more: BOOLEAN]
          BY <3>1 DEF TypeInv, TypeOK
        <5>2. request.block1 \in Block
          BY <4>1, <5>1 DEF Block
        <5>3. QED
          BY <5>2, NoneAssumption
      <4>3. QED
        BY <1>1, <1>5, <4>1, <4>2 DEF Collecting
    <3>2. QED
      BY <3>1
  <2>3. asked = None /\ content = Body(job.down)
    BY <1>1, <1>5, <2>1 DEF Asked
  <2>4. content \in Seq(Nat) /\ Len(content) = job.down
    BY <1>2, <2>3, BodyType
  <2>5. cut <=> job.down > Size
    <3> HIDE DEF content, asked
    <3>1. content = <<>> => Len(content) = 0
      OBVIOUS
    <3>2. QED
      BY <1>2, <2>3, <2>4, <3>1
  <2> HIDE DEF asked, content
  <2>6. RequestsKnown' /\ Answers' /\ HasAnswered'
    <3>1. CASE job.down <= Size
      <4>1. whole \in Response
        BY <2>4, ReplyType DEF Response
      <4>2. PICK r \in Response : r = whole
        BY <4>1
      <4>3. r.code = "final" /\ r.block1 = None /\ r.block2 = None
            /\ r.payload = Body(job.down)
        BY <2>3, <4>2 DEF Reply
      <4>4. Answer(q, r, TRUE, FALSE)
        <5>1. ~cut
          BY <1>2, <2>5, <3>1
        <5> HIDE DEF cut, whole, block
        <5>2. QED
          BY <1>1, <4>2, <5>1
      <4>5. QED
        BY <1>4, <2>2, <3>1, <4>3, <4>4
    <3>2. CASE job.down > Size
      <4>1. offer.byte = 0 /\ offer.num = 0
        BY <2>3
      <4>2. [num |-> 0, more |-> More(0, job.down)] \in Block
        BY DEF Block, More
      <4>3. Chunk(job.down, 0) \in Seq(Nat)
        BY <1>2, ChunkType
      <4>4. block \in Response
        BY <4>1, <4>2, <4>3, ReplyType DEF Response
      <4>5. PICK r \in Response : r = block
        BY <4>4
      <4>6. /\ r.code = "final" /\ r.block1 = None
            /\ r.block2 = [num |-> 0, more |-> More(0, job.down)]
            /\ r.payload = Chunk(job.down, 0)
        BY <4>1, <4>5 DEF Reply
      <4>7. /\ r.block2 # None /\ r.block2.num = 0
            /\ r.block2.more = More(0, job.down)
        BY <4>2, <4>6, NoneAssumption
      <4>8. Answer(q, r, TRUE, FALSE)
        BY <1>1, <2>5, <3>2, <4>5
      <4>9. 0 * Size = 0 /\ ~(job.down <= Size)
        BY <1>2, <3>2
      <4>10. QED
        BY <1>4, <2>1, <2>2, <4>6, <4>7, <4>8, <4>9
    <3>3. QED
      BY <1>2, <3>1, <3>2
  <2>7. offering' = IF job.down <= Size THEN None ELSE Place(1)
    <3>1. CASE job.down <= Size
      BY <1>1, <1>2, <2>3, <2>5, <3>1
    <3>2. CASE job.down > Size
      <4>1. offer = [byte |-> 0, num |-> 0, loaded |-> TRUE]
        BY <2>3
      <4>2. offering' = AdvanceOffer(offer)
        BY <1>1, <2>5, <3>2
      <4>3. AdvanceOffer([byte |-> 0, num |-> 0, loaded |-> TRUE])
              = [byte |-> 0 + Size, num |-> 0 + 1, loaded |-> TRUE]
        BY AdvanceLiteral
      <4>4. 0 + Size = 1 * Size /\ 0 + 1 = 1 /\ ~(job.down <= Size)
        BY <1>2, <3>2
      <4>5. QED
        BY <4>1, <4>2, <4>3, <4>4 DEF Place
    <3>3. QED
      BY <1>2, <3>1, <3>2
  <2>8. Uploading'
    BY <1>3, <2>1, <2>2, <2>6, <2>7 DEF Uploading
  <2>9. QED
    BY <1>3, <1>5, <2>6, <2>8 DEF Ordered
<1>6. CASE request.block2 # None
  <2>1. /\ Downloading /\ HasResource /\ downItem # None /\ job.down > Size
        /\ n = downItem.num /\ request.block2.num = n
        /\ offering = Place(n)
    BY <1>1, <1>6 DEF Ordered, Downloading, Fetched, HasAnswered
  <2>2. n \in Nat /\ n * Size \in Nat /\ n * Size + Size = (n + 1) * Size
    BY <1>2, <2>1 DEF TypeInv, TypeOK
  <2>3. offering \in [byte: Nat, num: Nat, loaded: BOOLEAN]
    BY <2>1, <2>2 DEF Place
  <2>4. offering # None
    BY <2>3, NoneAssumption
  <2>5. asked = [byte |-> n * Size, num |-> n, loaded |-> TRUE]
    BY <1>1, <1>6, <2>1, <2>4 DEF Asked, Place
  <2>6. asked # None /\ asked.loaded
    <3> HIDE DEF asked, n
    <3>1. asked \in [byte: Nat, num: Nat, loaded: BOOLEAN] /\ asked.loaded
      BY <2>2, <2>5
    <3>2. QED
      BY <3>1, NoneAssumption
  <2> HIDE DEF asked, content, n
  <2>7. cut /\ offer = asked
    BY <2>6
  <2>8. RequestsKnown' /\ Answers' /\ HasAnswered'
    <3>1. offer.byte = n * Size /\ offer.num = n
      BY <2>5, <2>7
    <3>2. [num |-> n, more |-> More(n, job.down)] \in Block
      BY <2>2 DEF Block, More
    <3>3. Chunk(job.down, n * Size) \in Seq(Nat)
      BY <1>2, <2>2, ChunkType
    <3> HIDE DEF offer
    <3>4. block \in Response
      BY <3>1, <3>2, <3>3, ReplyType DEF Response
    <3>5. PICK r \in Response : r = block
      BY <3>4
    <3>6. /\ r.code = "final" /\ r.block1 = None
          /\ r.block2 = [num |-> n, more |-> More(n, job.down)]
          /\ r.payload = Chunk(job.down, n * Size)
      BY <3>1, <3>5 DEF Reply
    <3>7. /\ r.block2 # None /\ r.block2.num = n
          /\ r.block2.more = More(n, job.down)
      BY <3>2, <3>6, NoneAssumption
    <3>8. Answer(q, r, TRUE, FALSE)
      BY <1>1, <2>7, <3>5
    <3>9. ~(job.down <= Size) /\ (upItem # None => ~upItem.more)
      BY <1>2, <2>1 DEF Downloading
    <3>10. QED
      BY <1>4, <3>6, <3>7, <3>8, <3>9
  <2>9. offering' = Place(n + 1)
    <3>1. offering' = AdvanceOffer(asked)
      BY <1>1, <2>7
    <3>2. AdvanceOffer([byte |-> n * Size, num |-> n, loaded |-> TRUE])
            = [byte |-> n * Size + Size, num |-> n + 1, loaded |-> TRUE]
      BY <2>2, AdvanceLiteral
    <3>3. QED
      BY <2>2, <2>5, <3>1, <3>2 DEF Place
  <2>10. Downloading'
    BY <1>3, <2>1, <2>8, <2>9 DEF Downloading
  <2>11. QED
    BY <1>3, <1>6, <2>8, <2>10 DEF Ordered
<1>7. QED
  BY <1>5, <1>6

\* A step that leaves the messages and both sides as they are.
LEMMA SameOrder ==
    ASSUME Ordered, network' = network, UNCHANGED <<job, client, server>>
    PROVE  Ordered'
<1>1. UNCHANGED <<job, network, request, curMid, upItem, downItem, known, exchange,
                  collecting, offering>>
  BY DEF client, server
<1>2. (Fresh' <=> Fresh) /\ (HasAnswered' <=> HasAnswered) /\ (HasResource' <=> HasResource)
  BY <1>1 DEF Fresh, HasAnswered, HasResource, InTransfer
<1>3. RequestsKnown'
  BY <1>1 DEF Ordered, RequestsKnown
<1>4. Answers'
  BY <1>1, <1>2 DEF Ordered, Answers, IsContinue, IsFinal, Fetched
<1>5. request'.block2 = None => Uploading'
  BY <1>1, <1>2 DEF Ordered, Uploading
<1>6. request'.block2 # None => Downloading'
  BY <1>1, <1>2 DEF Ordered, Downloading
<1>7. QED
  BY <1>3, <1>4, <1>5, <1>6 DEF Ordered

LEMMA ServerOrder ==
    ASSUME FirstMidCounts, TypeInv, UploadInv, Ordered, NEW q \in network, q \in Request,
           AnswerAgain(q) \/ Refuse(q) \/ Collect(q) \/ RepeatAnswer(q) \/ Serve(q)
    PROVE  Ordered'
<1>1. CASE AnswerAgain(q)
  <2>1. /\ exchange.response \in network /\ Exchanged(q, exchange.response)
        /\ UNCHANGED <<job, client, server>>
    BY <1>1 DEF AnswerAgain, Duplicate, TypeInv, KnownIsKept, UploadInv, AnswerIsSent
  <2>2. network' = network
    BY <2>1 DEF Exchanged
  <2>3. QED
    BY <2>1, <2>2, SameOrder
<1>2. QED
  BY <1>1, NoneRefused, CollectOrder, ServeOrder

\* A request with a new message ID, sent when the last one has been taken.
LEMMA AskOrder ==
    ASSUME TypeInv, RequestsKnown, ~Fresh, NEW p, NEW r \in Request, Ask(p, r),
           UNCHANGED server
    PROVE  RequestsKnown' /\ Fresh'
<1>1. /\ network' = network \cup {request'} /\ request' \in Request
      /\ request' = [r EXCEPT !.mid = curMid]
  BY AskType
<1>2. request'.mid = curMid /\ curMid' = curMid + 1 /\ curMid \in Nat
  BY <1>1, TransferAssumption DEF Ask, NextMid, Request, TypeInv, TypeOK
<1>3. known' = known /\ known \subseteq FirstMid .. (curMid - 1)
  BY DEF server, TypeInv, TypeOK
<1>4. curMid \notin known /\ FirstMid \in Nat
  BY <1>2, <1>3, TransferAssumption
<1>5. Fresh'
  BY <1>2, <1>3, <1>4 DEF Fresh
<1>6. RequestsKnown'
  <2>1. request'.mid = curMid' - 1 /\ request' \in network'
    BY <1>1, <1>2
  <2>2. ASSUME NEW q \in network', q.to = "server"
        PROVE  q = request' \/ q.mid \in known'
    BY <1>1, <1>3, <2>2 DEF RequestsKnown, Fresh
  <2>3. QED
    BY <2>1, <2>2 DEF RequestsKnown
<1>7. QED
  BY <1>5, <1>6

LEMMA SendOrder ==
    ASSUME TypeInv, Ordered, NEW p \in network, p \in Response, SendNext(p)
    PROVE  Ordered'
<1> DEFINE r == [request EXCEPT !.payload = Chunk(job.up, upItem.byte),
                                !.block1 = [num |-> upItem'.num, more |-> upItem'.more]]
<1>1. /\ upItem # None /\ upItem.more /\ p.block1 # None /\ p.block1.num = upItem.num
      /\ upItem' = AdvanceSent /\ Ask(p, r)
      /\ UNCHANGED <<job, downItem, server>>
  BY DEF SendNext, Continued
<1>2. /\ upItem.byte \in Nat /\ upItem.num \in Nat
      /\ job.up \in Nat /\ Size \in Nat /\ request \in Request
  BY <1>1, TransferAssumption DEF TypeInv, TypeOK
<1>3. ~Fresh /\ request.block2 = None /\ Uploading
  BY <1>1, Kinds DEF Ordered, Answers, IsContinue, IsFinal, Downloading
<1>4. /\ upItem' \in [byte: Nat, num: Nat, more: BOOLEAN]
      /\ upItem'.num = upItem.num + 1
  <2>1. upItem' = [byte |-> upItem.byte + Size, num |-> upItem.num + 1,
                   more |-> upItem.byte + Size < job.up]
    BY <1>1 DEF AdvanceSent
  <2>2. upItem.byte + Size \in Nat /\ upItem.num + 1 \in Nat
    BY <1>2
  <2>3. (upItem.byte + Size < job.up) \in BOOLEAN
    OBVIOUS
  <2>4. QED
    BY <2>1, <2>2, <2>3
<1>5. upItem' # None
  BY <1>4, NoneAssumption
<1>6. [num |-> upItem'.num, more |-> upItem'.more] \in Block
  BY <1>4 DEF Block
<1>7. r \in Request
  BY <1>2, <1>6, ChunkType DEF Request
<1>8. /\ network' = network \cup {request'} /\ request' = [r EXCEPT !.mid = curMid]
      /\ request' \in Request
  BY <1>1, <1>7, AskType
<1>9. /\ request'.block2 = None
      /\ request'.block1 = [num |-> upItem'.num, more |-> upItem'.more]
  BY <1>2, <1>3, <1>8 DEF Request
<1>10. RequestsKnown' /\ Fresh'
  BY <1>1, <1>3, <1>7, AskOrder DEF Ordered
<1>11. Answers'
  <2>1. SUFFICES ASSUME NEW a \in network, a.to = "client"
                 PROVE  IsContinue(a)'
    BY <1>8, Kinds DEF Answers
  <2>2. IsContinue(a)
    BY <1>1, <2>1 DEF Ordered, Answers, IsFinal
  <2>3. a \in Response
    BY <2>1, Kinds DEF TypeInv, TypeOK
  <2>4. a.block1.num \in Nat
    BY <2>2, <2>3 DEF IsContinue, Response, Block
  <2>5. a.block1.num <= upItem'.num /\ a.block1.num # upItem'.num
    BY <1>2, <1>4, <2>2, <2>4 DEF IsContinue
  <2>6. QED
    BY <1>5, <2>2, <2>5 DEF IsContinue
<1>12. Uploading'
  <2>1. /\ ~HasResource /\ offering = None /\ downItem = None
        /\ collecting # None /\ collecting.num = upItem.num + 1
    BY <1>1, <1>3 DEF Uploading
  <2>2. UNCHANGED <<exchange, offering, collecting, downItem>>
    BY <1>1 DEF server
  <2>3. ~HasResource'
    BY <2>1, <2>2 DEF HasResource
  <2>4. upItem'.num # 0
    BY <1>2, <1>4
  <2>5. QED
    BY <1>4, <1>5, <1>9, <1>10, <2>1, <2>2, <2>3, <2>4 DEF Uploading
<1>13. QED
  BY <1>9, <1>10, <1>11, <1>12 DEF Ordered

\* A block of the answer that the client takes: it is the one it waits for, and
\* joined to what the client has it makes a longer beginning of the answer.
LEMMA WantedBlock ==
    ASSUME TypeInv, Ordered, NEW p \in network, p \in Response, Offered(p),
           p.block2.num = Fetched
    PROVE  /\ job.down > Size /\ Fetched \in Nat /\ ~Fresh
           /\ upItem # None => ~upItem.more
           /\ p.payload = Chunk(job.down, Fetched * Size)
           /\ p.block2.more <=> Fetched * Size + Size <= job.down
           /\ HasAnswered /\ offering = Place(Fetched + 1)
           /\ downItem # None => /\ request.block2 # None /\ Fetched = downItem.num
                                 /\ Fetched > 0 /\ Fetched * Size <= job.down
                                 /\ downItem.payload = SubSeq(Body(job.down), 1, Fetched * Size)
           /\ downItem = None => request.block2 = None /\ Fetched = 0
<1>1. p.block2 # None /\ p.to = "client"
  BY Kinds DEF Offered
<1>2. IsFinal(p)
  BY <1>1 DEF Ordered, Answers, IsContinue
<1>3. job.down \in Nat /\ Size \in Nat \ {0}
  BY TransferAssumption DEF TypeInv, TypeOK
<1>4. /\ job.down > Size /\ ~Fresh
      /\ upItem # None => ~upItem.more
      /\ p.payload = Chunk(job.down, Fetched * Size)
      /\ p.block2.more <=> Fetched * Size + Size <= job.down
  <2>1. job.down > Size
    BY <1>1, <1>2, <1>3 DEF IsFinal
  <2>2. ~(job.down <= Size)
    BY <1>3, <2>1
  <2>3. /\ ~Fresh
        /\ upItem # None => ~upItem.more
        /\ p.payload = Chunk(job.down, Fetched * Size)
        /\ p.block2.more = More(Fetched, job.down)
    BY <1>2, <2>2 DEF IsFinal
  <2>4. p.block2.more <=> Fetched * Size + Size <= job.down
    BY <2>3 DEF More
  <2>5. QED
    BY <2>1, <2>3, <2>4
<1>5. CASE downItem = None
  <2>1. request.block2 = None /\ Uploading /\ Fetched = 0
    BY <1>5 DEF Ordered, Downloading, Fetched
  <2>2. HasAnswered /\ offering = Place(1)
    BY <1>3, <1>4, <2>1 DEF Uploading
  <2>3. QED
    BY <1>4, <1>5, <2>1, <2>2
<1>6. CASE downItem # None
  <2>1. request.block2 # None /\ Downloading /\ Fetched = downItem.num
    BY <1>6 DEF Ordered, Uploading, Fetched
  <2>2. Fetched \in Nat
    BY <1>6, <2>1 DEF TypeInv, TypeOK
  <2>3. HasAnswered /\ offering = Place(Fetched + 1)
    BY <1>4, <2>1 DEF Downloading
  <2>4. /\ Fetched > 0 /\ Fetched * Size <= job.down
        /\ downItem.payload = SubSeq(Body(job.down), 1, Fetched * Size)
    BY <2>1 DEF Downloading
  <2>5. QED
    BY <1>4, <1>6, <2>1, <2>2, <2>3, <2>4
<1>7. QED
  BY <1>5, <1>6

\* The beginning of a payload of n blocks and the block after it.
LEMMA GrowingAnswer ==
    ASSUME NEW n \in Nat, NEW down \in Nat, n * Size <= down
    PROVE  /\ n * Size \in Nat
           /\ n * Size + Size = (n + 1) * Size
           /\ SubSeq(Body(down), 1, n * Size) \o Chunk(down, n * Size)
                = SubSeq(Body(down), 1, Least(n * Size + Size, down))
           /\ n > 0 => n * Size > 0
<1>1. Size \in Nat \ {0}
  BY TransferAssumption
<1>2. n * Size \in Nat /\ n * Size + Size = (n + 1) * Size
  BY <1>1
<1>3. n > 0 => n * Size > 0
  BY <1>1
<1>4. n * Size \in 0 .. down
  BY <1>2
<1>5. QED
  BY <1>2, <1>3, <1>4, JoinedChunk

\* No part of an answer that is joined is empty while more is announced.
LEMMA PartsJoin ==
    ASSUME TypeInv, Ordered, NEW p \in network, p \in Response, Offered(p),
           p.block2.num = Fetched, p.block2.more
    PROVE  ~Raises(p)
<1> SUFFICES ASSUME downItem # None
             PROVE  downItem.payload # <<>> /\ p.payload # <<>>
  BY DEF Raises
<1> DEFINE n    == Fetched
           byte == n * Size
           down == job.down
<1>1. down \in Nat /\ Size \in Nat \ {0} /\ n \in Nat
  BY TransferAssumption, WantedBlock DEF TypeInv, TypeOK
<1>2. /\ n > 0 /\ byte + Size <= down
      /\ downItem.payload = SubSeq(Body(down), 1, byte)
      /\ p.payload = Chunk(down, byte)
  BY WantedBlock
<1>3. byte \in Nat /\ byte > 0
  BY <1>1, <1>2
<1> HIDE DEF n, byte, down
<1>4. Body(down) \in Seq(Nat) /\ Len(Body(down)) = down
  BY <1>1, BodyType
<1>5. Len(SubSeq(Body(down), 1, byte)) = byte
  <2>1. \A i \in 1 .. byte : Body(down)[i] \in Nat
    BY <1>1, <1>2, <1>3 DEF Body
  <2>2. QED
    BY <1>3, <2>1, SubSeqProperties
<1>6. Len(Chunk(down, byte)) = Size
  <2>1. Least(byte + Size, down) = byte + Size
    BY <1>1, <1>2, <1>3 DEF Least
  <2>2. \A i \in (byte + 1) .. (byte + Size) : Body(down)[i] \in Nat
    BY <1>1, <1>2, <1>3 DEF Body
  <2>3. Len(SubSeq(Body(down), byte + 1, byte + Size)) = Size
    BY <1>1, <1>3, <2>2, SubSeqProperties
  <2>4. QED
    BY <2>1, <2>3 DEF Chunk
<1>7. Len(<<>>) = 0
  OBVIOUS
<1>8. Len(downItem.payload) # 0 /\ Len(p.payload) # 0
  BY <1>1, <1>2, <1>3, <1>5, <1>6
<1>9. QED
  BY <1>7, <1>8

LEMMA FetchOrder ==
    ASSUME TypeInv, Ordered, NEW p \in network, p \in Response, FetchNext(p)
    PROVE  Ordered'
<1> DEFINE n == Fetched
           r == [request EXCEPT !.block2 = [num |-> p.block2.num + 1, more |-> FALSE]]
<1>1. /\ Offered(p) /\ p.block2.more /\ ~Unwanted(p)
      /\ UNCHANGED <<job, upItem, result, server, purges>>
  BY DEF FetchNext
<1>2. p.block2 \in Block /\ p.block2 # None /\ p.to = "client"
  BY <1>1, Kinds DEF Offered, Response
<1>3. p.block2.num = n
  <2>1. IsFinal(p)
    BY <1>2 DEF Ordered, Answers, IsContinue
  <2>2. p.block2.num <= n /\ p.block2.num \in Nat
    BY <1>2, <2>1 DEF IsFinal, Block
  <2>3. QED
    BY <1>1, <2>2 DEF Unwanted, Fetched
<1>4. ~Raises(p)
  BY <1>1, <1>3, PartsJoin
<1>5. /\ downItem' = [num |-> p.block2.num + 1,
                      payload |-> IF downItem = None THEN p.payload
                                  ELSE downItem.payload \o p.payload]
      /\ Ask(p, r)
  BY <1>4 DEF FetchNext
<1>6. job.down \in Nat /\ Size \in Nat \ {0} /\ request \in Request
  BY TransferAssumption DEF TypeInv, TypeOK
<1>7. /\ job.down > Size /\ n \in Nat /\ ~Fresh /\ (upItem # None => ~upItem.more)
      /\ n * Size + Size <= job.down
      /\ HasAnswered /\ offering = Place(n + 1)
      /\ p.payload = Chunk(job.down, n * Size)
  BY <1>1, <1>3, WantedBlock
<1>8. n + 1 \in Nat /\ n + 1 > 0 /\ (n + 1) * Size = n * Size + Size /\ n * Size \in Nat
  BY <1>6, <1>7
<1>9. downItem' = [num |-> n + 1, payload |-> SubSeq(Body(job.down), 1, (n + 1) * Size)]
  <2>1. n * Size <= job.down /\ Least(n * Size + Size, job.down) = (n + 1) * Size
    BY <1>6, <1>7, <1>8 DEF Least
  <2>2. SubSeq(Body(job.down), 1, n * Size) \o Chunk(job.down, n * Size)
          = SubSeq(Body(job.down), 1, (n + 1) * Size)
    BY <1>6, <1>7, <2>1, GrowingAnswer
  <2>3. CASE downItem = None
    <3>1. n = 0 /\ n * Size = 0
      BY <1>6, <2>3 DEF Fetched
    <3>2. p.payload = SubSeq(Body(job.down), 1, (n + 1) * Size)
      BY <1>6, <1>7, <2>2, <3>1, FirstChunk
    <3>3. QED
      BY <1>3, <1>5, <2>3, <3>2
  <2>4. CASE downItem # None
    <3>1. downItem.payload = SubSeq(Body(job.down), 1, n * Size)
      BY <1>1, <1>3, <2>4, WantedBlock
    <3>2. downItem.payload \o p.payload = SubSeq(Body(job.down), 1, (n + 1) * Size)
      BY <1>7, <2>2, <3>1
    <3>3. QED
      BY <1>3, <1>5, <2>4, <3>2
  <2>5. QED
    BY <2>3, <2>4
<1>10. /\ downItem' # None /\ downItem'.num = n + 1
       /\ downItem'.payload = SubSeq(Body(job.down), 1, (n + 1) * Size)
  <2>1. SubSeq(Body(job.down), 1, (n + 1) * Size) \in Seq(Nat)
    <3>1. /\ n * Size + Size <= job.down /\ (n + 1) * Size \in Nat
          /\ Body(job.down) \in Seq(Nat) /\ Len(Body(job.down)) = job.down
      BY <1>6, <1>7, <1>8, BodyType
    <3>2. PICK last \in Nat : last = (n + 1) * Size
      BY <3>1
    <3>3. last <= job.down
      BY <1>8, <3>1, <3>2
    <3>4. \A i \in 1 .. last : Body(job.down)[i] \in Nat
      BY <1>6, <3>2, <3>3 DEF Body
    <3>5. SubSeq(Body(job.down), 1, last) \in Seq(Nat)
      BY <3>4, SubSeqProperties
    <3>6. QED
      BY <3>2, <3>5
  <2>2. downItem' \in [num: Nat, payload: Seq(Nat)]
    BY <1>8, <1>9, <2>1
  <2>3. QED
    BY <1>9, <2>2, NoneAssumption
<1>11. [num |-> n + 1, more |-> FALSE] \in Block
  BY <1>8 DEF Block
<1>12. r \in Request
  BY <1>3, <1>6, <1>11 DEF Request
<1>13. /\ network' = network \cup {request'} /\ request' = [r EXCEPT !.mid = curMid]
       /\ request' \in Request
  BY <1>1, <1>5, <1>12, AskType
<1>14. request'.block2 # None /\ request'.block2.num = n + 1
  BY <1>3, <1>6, <1>11, <1>13, NoneAssumption DEF Request
<1>15. RequestsKnown' /\ Fresh'
  BY <1>1, <1>5, <1>7, <1>12, AskOrder DEF Ordered
<1>16. Fetched' = n + 1 /\ n <= n + 1
  BY <1>7, <1>10 DEF Fetched
<1> HIDE DEF n
<1>17. Answers'
  <2>1. SUFFICES ASSUME NEW a \in network, a.to = "client"
                 PROVE  IsContinue(a)' \/ IsFinal(a)'
    BY <1>13, Kinds DEF Answers
  <2>2. CASE IsContinue(a)
    BY <1>1, <1>7, <2>2 DEF IsContinue
  <2>3. CASE IsFinal(a)
    <3>1. /\ a.block2 # None /\ a.block2.more = More(a.block2.num, job.down)
          /\ a.payload = Chunk(job.down, a.block2.num * Size)
          /\ a.block2.num <= n
      BY <1>6, <1>7, <2>3 DEF IsFinal, n
    <3>2. a.block2.num \in Nat
      BY <2>1, <3>1, Kinds DEF TypeInv, TypeOK, Response, Block
    <3>3. a.block2.num <= Fetched' /\ a.block2.num # Fetched'
      BY <1>7, <1>16, <3>1, <3>2
    <3>4. UNCHANGED <<job, upItem>> /\ ~(job.down <= Size)
      BY <1>1, <1>6, <1>7
    <3>5. a.code = "final" /\ a.block1 = None
      BY <2>3 DEF IsFinal
    <3>6. QED
      BY <1>7, <3>1, <3>3, <3>4, <3>5 DEF IsFinal
  <2>4. QED
    BY <2>1, <2>2, <2>3 DEF Ordered, Answers
<1>18. Downloading'
  <2>1. UNCHANGED <<job, upItem, exchange, offering>>
    BY <1>1 DEF server
  <2>2. HasAnswered'
    BY <1>7, <2>1 DEF HasAnswered, HasResource, InTransfer
  <2>3. QED
    BY <1>7, <1>8, <1>10, <1>14, <1>15, <2>1, <2>2 DEF Downloading
<1>19. QED
  BY <1>14, <1>15, <1>17, <1>18 DEF Ordered

\* A block before n that reaches the end of a payload n blocks do not reach.
LEMMA LastBlock ==
    ASSUME NEW n \in Nat, NEW num \in Nat, NEW down \in Nat,
           num <= n, n * Size <= down, down < num * Size + Size
    PROVE  num = n
<1>1. Size \in Nat
  BY TransferAssumption
<1>2. SUFFICES ASSUME num # n PROVE FALSE
  OBVIOUS
<1>3. PICK k \in Nat : n = num + 1 + k
  <2>1. n - num - 1 \in Nat /\ n = num + 1 + (n - num - 1)
    BY <1>2
  <2>2. QED
    BY <2>1
<1>4. n * Size = num * Size + Size + k * Size /\ k * Size \in Nat
  BY <1>1, <1>3
<1>5. num * Size \in Nat
  BY <1>1
<1>6. QED
  BY <1>1, <1>4, <1>5

\* The answer that ends the call, or leaves it waiting.
LEMMA ConcludeOrder ==
    ASSUME TypeInv, Ordered, NEW p \in network, p \in Response, Conclude(p),
           result = None
    PROVE  /\ result' # None => DownloadIsWhole'
           /\ result' = None => Ordered'
<1>1. /\ Continued(p) => ~upItem.more
      /\ Offered(p) => ~p.block2.more
      /\ network' = network /\ UNCHANGED <<job, curMid, upItem, server, purges>>
      /\ request' = IF Continued(p) THEN [request EXCEPT !.block1 = None] ELSE request
      /\ p.to = "client"
  BY DEF Conclude, Consumed
<1>2. ASSUME NEW payload \in Seq(Nat), Return(p.code, payload)
      PROVE  result' # None /\ result'.code = p.code /\ result'.payload = payload
  <2>1. result' = [code |-> p.code, payload |-> payload]
    BY <1>2 DEF Return
  <2>2. result' \in [code: {"final", "continue", "incomplete"}, payload: Seq(Nat)]
    BY <2>1 DEF Response
  <2>3. QED
    BY <2>1, <2>2, NoneAssumption
<1>3. p.payload \in Seq(Nat)
  BY DEF Response
<1>4. CASE IsContinue(p)
  <2>1. Continued(p) /\ ~Offered(p) /\ p.code # "final"
    BY <1>4 DEF IsContinue, Continued, Offered
  <2>2. Return(p.code, p.payload)
    BY <2>1 DEF Conclude
  <2>3. result' # None /\ result'.code # "final"
    BY <1>2, <1>3, <2>1, <2>2
  <2>4. QED
    BY <2>3 DEF DownloadIsWhole
<1>5. CASE IsFinal(p) /\ job.down <= Size
  <2>1. ~Offered(p) /\ p.payload = Body(job.down)
    BY <1>5 DEF IsFinal, Offered
  <2>2. Return(p.code, p.payload)
    BY <2>1 DEF Conclude
  <2>3. result' # None /\ result'.payload = Body(job.down)
    BY <1>2, <1>3, <2>1, <2>2
  <2>4. QED
    BY <1>1, <2>3 DEF DownloadIsWhole
<1>6. CASE IsFinal(p) /\ ~(job.down <= Size)
  <2>1. Offered(p) /\ ~Continued(p) /\ p.block2 \in Block
    BY <1>6 DEF IsFinal, Offered, Continued, Response
  <2>2. job.down \in Nat /\ Size \in Nat \ {0}
    BY TransferAssumption DEF TypeInv, TypeOK
  <2>3. /\ p.block2.num <= Fetched /\ p.block2.num \in Nat
        /\ job.down < p.block2.num * Size + Size
    <3>1. /\ p.block2.num <= Fetched /\ p.block2.num \in Nat
          /\ p.block2.more = More(p.block2.num, job.down)
      BY <1>6, <2>1 DEF IsFinal, Block
    <3>2. ~(p.block2.num * Size + Size <= job.down)
      BY <1>1, <2>1, <3>1 DEF More
    <3>3. QED
      BY <2>2, <3>1, <3>2
  <2>4. downItem # None
    <3>1. SUFFICES ASSUME Fetched = 0 PROVE FALSE
      BY DEF Fetched
    <3>2. p.block2.num = 0 /\ 0 * Size = 0
      BY <2>2, <2>3, <3>1
    <3>3. QED
      BY <1>6, <2>2, <2>3, <3>2
  <2>5. CASE Raises(p)
    <3>1. UNCHANGED <<result, downItem>>
      BY <2>1, <2>4, <2>5 DEF Conclude
    <3>2. UNCHANGED <<job, client, server>>
      BY <1>1, <2>1, <3>1 DEF client
    <3>3. QED
      BY <1>1, <3>1, <3>2, SameOrder
  <2>6. CASE ~Raises(p)
    <3>1. Return(p.code, downItem.payload \o p.payload)
      BY <2>1, <2>4, <2>6 DEF Conclude
    <3>2. /\ Downloading /\ Fetched = downItem.num /\ Fetched \in Nat
          /\ Fetched * Size <= job.down
          /\ downItem.payload = SubSeq(Body(job.down), 1, Fetched * Size)
      BY <2>4 DEF Ordered, Uploading, Downloading, Fetched, TypeInv, TypeOK
    <3>3. p.block2.num = Fetched
      BY <2>2, <2>3, <3>2, LastBlock
    <3>4. p.payload = Chunk(job.down, Fetched * Size)
      BY <2>1, <3>3, WantedBlock
    <3>5. Least(Fetched * Size + Size, job.down) = job.down
      BY <2>2, <2>3, <3>2, <3>3 DEF Least
    <3>6. downItem.payload \o p.payload = Body(job.down)
      <4>1. SubSeq(Body(job.down), 1, Fetched * Size) \o Chunk(job.down, Fetched * Size)
              = SubSeq(Body(job.down), 1, Least(Fetched * Size + Size, job.down))
        BY <2>2, <3>2, GrowingAnswer
      <4>2. SubSeq(Body(job.down), 1, job.down) = Body(job.down)
        BY <2>2, WholeBody
      <4>3. QED
        BY <3>2, <3>4, <3>5, <4>1, <4>2
    <3>7. result' # None /\ result'.payload = Body(job.down)
      BY <1>2, <2>2, <3>1, <3>6, BodyType
    <3>8. QED
      BY <1>1, <3>7 DEF DownloadIsWhole
  <2>7. QED
    BY <2>5, <2>6
<1>7. QED
  BY <1>1, <1>4, <1>5, <1>6 DEF Ordered, Answers

\* Once the call has returned, no step changes what it returned.
LEMMA ReturnedStays ==
    ASSUME TypeInv, [Next]_vars, result # None, DownloadIsWhole
    PROVE  result' # None /\ DownloadIsWhole'
<1>1. UNCHANGED <<job, result>> /\ (purges' = 0 => purges = 0)
  <2>1. CASE Purge
    BY <2>1, TransferAssumption DEF Purge, client, TypeInv, TypeOK
  <2>2. ASSUME NEW m \in network, Receive(m)
        PROVE  UNCHANGED <<job, result, purges>>
    BY <2>2 DEF Receive, AnswerAgain, Refuse, Collect, RepeatAnswer, Serve, SendNext,
                FetchNext, AskAgain, Conclude, Return, client
  <2>3. CASE UNCHANGED vars
    BY <2>3 DEF vars, client
  <2>4. QED
    BY <2>1, <2>2, <2>3 DEF Next
<1>2. QED
  BY <1>1 DEF DownloadIsWhole

LEMMA ReceiveOrder ==
    ASSUME FirstMidCounts, TypeInv, UploadInv, Ordered, result = None,
           NEW m \in network, Receive(m)
    PROVE  /\ result' # None => DownloadIsWhole'
           /\ result' = None => Ordered'
<1>1. CASE m \in Request /\ (AnswerAgain(m) \/ Refuse(m) \/ Collect(m)
                             \/ RepeatAnswer(m) \/ Serve(m))
  <2>1. Ordered'
    BY <1>1, ServerOrder
  <2>2. result' = result
    BY <1>1 DEF AnswerAgain, Refuse, Collect, RepeatAnswer, Serve, client
  <2>3. QED
    BY <2>1, <2>2
<1>2. CASE m \in Response /\ SendNext(m)
  BY <1>2, SendOrder DEF SendNext
<1>3. CASE m \in Response /\ FetchNext(m)
  BY <1>3, FetchOrder DEF FetchNext
<1>4. CASE m \in Response /\ AskAgain(m)
  <2>1. UNCHANGED <<job, client, server>> /\ network' = network \cup {request}
    BY <1>4 DEF AskAgain, Exchanged
  <2>2. network' = network /\ result' = result
    BY <2>1 DEF Ordered, RequestsKnown, client
  <2>3. QED
    BY <2>1, <2>2, SameOrder
<1>5. CASE m \in Response /\ Conclude(m)
  BY <1>5, ConcludeOrder
<1>6. QED
  BY <1>1, <1>2, <1>3, <1>4, <1>5, Steps DEF TypeInv

LEMMA InitOrder == Init => OrderInv /\ DownloadIsWhole
<1> SUFFICES ASSUME Init PROVE Ordered /\ result = None
  BY DEF OrderInv, DownloadIsWhole
<1>1. /\ request = FirstRequest(job.up) /\ network = {request} /\ known = {}
      /\ exchange = None /\ collecting = None /\ offering = None
      /\ downItem = None /\ result = None /\ curMid = FirstMid + 1
      /\ job.up \in Nat /\ Size \in Nat /\ FirstMid \in Nat
  BY TransferAssumption DEF Init
<1>2. /\ request.to = "server" /\ request.mid = FirstMid /\ request.block2 = None
      /\ request.block1 = IF job.up > Size THEN [num |-> 0, more |-> More(0, job.up)]
                          ELSE None
  BY <1>1 DEF FirstRequest
<1>3. RequestsKnown /\ Answers /\ Fresh
  BY <1>1, <1>2 DEF RequestsKnown, Answers, Fresh
<1>4. Uploading
  <2>1. ~HasResource
    BY <1>1 DEF HasResource
  <2>2. CASE job.up > Size
    <3>1. upItem = [byte |-> Size, num |-> 0, more |-> More(0, job.up)]
      BY <2>2 DEF Init
    <3>2. upItem \in [byte: Nat, num: Nat, more: BOOLEAN]
      BY <1>1, <3>1 DEF More
    <3>3. upItem # None /\ upItem.num = 0 /\ upItem.more = More(0, job.up)
      BY <3>1, <3>2, NoneAssumption
    <3>4. request.block1 = [num |-> upItem.num, more |-> upItem.more]
      BY <1>2, <2>2, <3>3
    <3>5. QED
      BY <1>1, <1>3, <2>1, <3>3, <3>4 DEF Uploading
  <2>3. CASE ~(job.up > Size)
    <3>1. upItem = None /\ request.block1 = None
      BY <1>2, <2>3 DEF Init
    <3>2. QED
      BY <1>1, <1>3, <2>1, <3>1 DEF Uploading
  <2>4. QED
    BY <2>2, <2>3
<1>5. QED
  BY <1>1, <1>2, <1>3, <1>4 DEF Ordered

LEMMA OrderStep ==
    ASSUME FirstMidCounts
    PROVE  TypeInv /\ UploadInv /\ OrderInv /\ DownloadIsWhole /\ [Next]_vars
             => (OrderInv /\ DownloadIsWhole)'
<1> SUFFICES ASSUME TypeInv, UploadInv, OrderInv, DownloadIsWhole, [Next]_vars
             PROVE  (OrderInv /\ DownloadIsWhole)'
  OBVIOUS
<1>1. CASE result # None
  BY <1>1, ReturnedStays DEF OrderInv
<1>2. CASE result = None
  <2>1. ASSUME NEW m \in network, Receive(m) PROVE (OrderInv /\ DownloadIsWhole)'
    <3>1. purges' = purges
      BY <2>1 DEF Receive, AnswerAgain, Refuse, Collect, RepeatAnswer, Serve, SendNext,
                  FetchNext, AskAgain, Conclude
    <3>2. CASE purges = 0
      <4>1. Ordered
        BY <1>2, <3>2 DEF OrderInv
      <4>2. /\ result' # None => DownloadIsWhole'
            /\ result' = None => Ordered'
        BY <1>2, <2>1, <4>1, ReceiveOrder
      <4>3. QED
        BY <4>2 DEF OrderInv, DownloadIsWhole
    <3>3. CASE purges # 0
      BY <3>1, <3>3 DEF OrderInv, DownloadIsWhole
    <3>4. QED
      BY <3>2, <3>3
  <2>2. CASE Purge
    <3>1. purges' # 0
      BY <2>2, TransferAssumption DEF Purge, TypeInv, TypeOK
    <3>2. QED
      BY <3>1 DEF OrderInv, DownloadIsWhole
  <2>3. CASE UNCHANGED vars
    <3>1. UNCHANGED <<job, network, client, server, purges, result>>
      BY <2>3 DEF vars, client
    <3>2. QED
      BY <3>1, SameOrder DEF OrderInv, DownloadIsWhole
  <2>4. QED
    BY <2>1, <2>2, <2>3 DEF Next
<1>3. QED
  BY <1>1, <1>2

\* However the network repeats and reorders requests and blocks, and for every
\* payload and block size, what send_message returns with the handler's answer is
\* the whole of it; no purge may come in between, and the first message ID is one
\* that receive_request looks up.
THEOREM DownloadWhole ==
    ASSUME FirstMidCounts
    PROVE  Spec => []DownloadIsWhole
<1>1. Init => OrderInv /\ DownloadIsWhole
  BY InitOrder
<1>2. TypeInv /\ UploadInv /\ OrderInv /\ DownloadIsWhole /\ [Next]_vars
        => (OrderInv /\ DownloadIsWhole)'
  BY OrderStep
<1>3. QED
  BY <1>1, <1>2, TypeInvariant, UploadInvariant, PTL DEF Spec

=============================================================================
