--------------------------- MODULE TcpStreamProofs ---------------------------
(***************************************************************************)
(* What holds of TcpStream for any connections, any messages of any        *)
(* lengths and any cuts of their bytes.                                    *)
(***************************************************************************)
EXTENDS TcpStream, Integers, TLAPS

LEMMA EncodedType ==
    ASSUME NEW l \in Nat
    PROVE  /\ Encoded(l).nibble \in 0 .. 15
           /\ Encoded(l).bytes \in 0 .. 4
           /\ Encoded(l).extended \in Nat
BY DEF Encoded

LEMMA ExtensionLengthType ==
    ASSUME NEW nibble \in 0 .. 15
    PROVE  ExtensionLength(nibble) \in Nat
BY DEF ExtensionLength

\* The reader finds the size that the writer gave the message, whatever its
\* length: _extract_message_size undoes _encode_length.
THEOREM SizesAgree ==
    ASSUME NEW f \in Frame
    PROVE  ReadSize(f) = WireSize(f)
<1> DEFINE l == f.length
<1>1. l \in Nat /\ f.token \in 0 .. 15
  BY DEF Frame
<1>2. CASE l < 13
  <2>1. Encoded(l) = [nibble |-> l, extended |-> 0, bytes |-> 0]
    BY <1>1, <1>2 DEF Encoded
  <2>2. QED
    BY <1>1, <1>2, <2>1 DEF ReadSize, WireSize, ExtensionLength, ExtensionOffset
<1>3. CASE l >= 13 /\ l < 269
  <2>1. Encoded(l) = [nibble |-> 13, extended |-> l - 13, bytes |-> 1]
    BY <1>1, <1>3 DEF Encoded
  <2>2. QED
    BY <1>1, <1>3, <2>1 DEF ReadSize, WireSize, ExtensionLength, ExtensionOffset
<1>4. CASE l >= 269 /\ l < 65805
  <2>1. Encoded(l) = [nibble |-> 14, extended |-> l - 269, bytes |-> 2]
    BY <1>1, <1>4 DEF Encoded
  <2>2. QED
    BY <1>1, <1>4, <2>1 DEF ReadSize, WireSize, ExtensionLength, ExtensionOffset
<1>5. CASE l >= 65805
  <2>1. Encoded(l) = [nibble |-> 15, extended |-> l - 65805, bytes |-> 4]
    BY <1>1, <1>5 DEF Encoded
  <2>2. QED
    BY <1>1, <1>5, <2>1 DEF ReadSize, WireSize, ExtensionLength, ExtensionOffset
<1>6. QED
  BY <1>1, <1>2, <1>3, <1>4, <1>5

LEMMA Sizes ==
    ASSUME NEW f \in Frame
    PROVE  /\ WireSize(f) \in Nat /\ WireSize(f) >= 2
           /\ f.at \in Nat /\ End(f) = f.at + WireSize(f)
<1>1. f.length \in Nat /\ f.token \in 0 .. 15 /\ f.at \in Nat
  BY DEF Frame
<1>2. QED
  BY <1>1, EncodedType DEF WireSize, End

\* A message of which all bytes are there is complete, and no other is.
LEMMA CompleteIsWhole ==
    ASSUME NEW f \in Frame, NEW spooled \in Int
    PROVE  Complete(f, spooled) <=> WireSize(f) <= spooled
<1> DEFINE extension == ExtensionLength(Encoded(f.length).nibble)
<1>1. f.length \in Nat /\ f.token \in 0 .. 15
  BY DEF Frame
<1>2. Encoded(f.length).nibble \in 0 .. 15
  BY <1>1, EncodedType
<1>3. extension \in Nat
  BY <1>2, ExtensionLengthType
<1>4. ReadSize(f) >= 2 + extension
  <2>1. ExtensionOffset(Encoded(f.length).nibble) \in Nat
    BY <1>2 DEF ExtensionOffset
  <2>2. QED
    BY <1>1, <1>2, <1>3, <2>1, EncodedType DEF ReadSize
<1>5. ReadSize(f) = WireSize(f) /\ WireSize(f) \in Nat
  BY SizesAgree, Sizes
<1>6. QED
  BY <1>3, <1>4, <1>5 DEF Complete, SizeKnown

\* The messages of a connection follow each other in its stream.
LEMMA Follows ==
    ASSUME TypeOK, NEW c \in Conns, NEW k \in 1 .. Len(traffic[c])
    PROVE  /\ traffic[c][k] \in Frame
           /\ traffic[c][k].at = IF k = 1 THEN 0 ELSE End(traffic[c][k - 1])
           /\ DOMAIN traffic[c] = 1 .. Len(traffic[c])
<1>1. traffic \in Loads /\ traffic[c] \in Seq(Frame)
  BY TcpAssumption DEF TypeOK
<1>2. QED
  BY <1>1, TcpAssumption

-----------------------------------------------------------------------------
(* Types, and the place of the reader in the stream *)

Places == TypeOK /\ InStep

\* What the loop of data_received does, with the names DataReceived gives to it.
LEMMA Received ==
    ASSUME Places, NEW c \in Conns, NEW n \in (received[c] + 1) .. Length(c),
           DataReceived(c, n),
           NEW k, k = delivered[c] + 1
    PROVE  /\ k \in 1 .. Len(traffic[c])
           /\ n \in Nat /\ n - taken[c] \in Nat
           /\ traffic[c][k] \in Frame
           /\ traffic[c][k].at = taken[c]
           /\ \/ n < End(traffic[c][k]) /\ UNCHANGED <<status, taken, delivered, csm>>
              \/ End(traffic[c][k]) <= n /\ Take(c, traffic[c][k])
<1> DEFINE f == traffic[c][k]
           spooled == n - taken[c]
<1>1. /\ received[c] \in Nat /\ taken[c] \in Nat /\ taken[c] <= received[c]
      /\ delivered[c] \in Nat /\ delivered[c] <= Len(traffic[c])
      /\ traffic \in Loads /\ traffic[c] \in Seq(Frame)
  BY TcpAssumption DEF Places, TypeOK
<1>2. Len(traffic[c]) \in Nat
  BY <1>1
<1>3. Length(c) \in Nat
  <2>1. CASE traffic[c] = <<>>
    BY <2>1 DEF Length
  <2>2. CASE traffic[c] # <<>>
    <3>1. traffic[c][Len(traffic[c])] \in Frame
      BY <1>1, <2>2
    <3>2. QED
      BY <2>2, <3>1, Sizes DEF Length
  <2>3. QED
    BY <2>1, <2>2
<1>4. n \in Nat /\ spooled \in Nat /\ received[c] < n /\ n <= Length(c)
  BY <1>1, <1>3
<1>5. k \in 1 .. Len(traffic[c])
  <2>1. SUFFICES ASSUME delivered[c] = Len(traffic[c])
                 PROVE  FALSE
    BY <1>1, <1>2
  <2>2. taken[c] = Length(c)
    <3>1. CASE traffic[c] = <<>>
      BY <1>1, <1>2, <2>1, <3>1 DEF Places, InStep, Length
    <3>2. CASE traffic[c] # <<>>
      BY <1>1, <1>2, <2>1, <3>2 DEF Places, InStep, Length
    <3>3. QED
      BY <3>1, <3>2
  <2>3. QED
    BY <1>1, <1>3, <1>4, <2>2
<1>6. /\ f \in Frame /\ k \in DOMAIN traffic[c]
      /\ f.at = IF k = 1 THEN 0 ELSE End(traffic[c][k - 1])
  BY <1>5, Follows DEF Places
<1>7. f.at = taken[c]
  BY <1>1, <1>6 DEF Places, InStep
<1>8. Complete(f, spooled) <=> End(f) <= n
  <2>1. Complete(f, spooled) <=> WireSize(f) <= spooled
    BY <1>4, <1>6, CompleteIsWhole
  <2>2. WireSize(f) \in Nat /\ End(f) = f.at + WireSize(f)
    BY <1>6, Sizes
  <2>3. QED
    BY <1>1, <1>4, <1>7, <2>1, <2>2
<1>9. WireSize(f) \in Nat /\ End(f) \in Nat
  BY <1>6, Sizes
<1>10. \/ Complete(f, spooled) /\ Take(c, f)
       \/ ~Complete(f, spooled) /\ UNCHANGED <<status, taken, delivered, csm>>
  BY <1>6 DEF DataReceived
<1>11. QED
  BY <1>4, <1>5, <1>6, <1>7, <1>8, <1>9, <1>10

\* A message is taken whole, and with it the reader comes to the next one.
LEMMA TakeMoves ==
    ASSUME Places, NEW c \in Conns, NEW k, k = delivered[c] + 1,
           k \in 1 .. Len(traffic[c]),
           traffic[c][k].at = taken[c], Take(c, traffic[c][k])
    PROVE  /\ status' = status \/ status' = [status EXCEPT ![c] = "closing"]
           /\ csm' = csm \/ csm' = [csm EXCEPT ![EndpointOf[c]] = "set"]
           /\ \/ UNCHANGED <<taken, delivered>> /\ status'[c] = "closing"
              \/ /\ taken' = [taken EXCEPT ![c] = End(traffic[c][k])]
                 /\ delivered' = [delivered EXCEPT ![c] = k]
<1> DEFINE f == traffic[c][k]
<1>1. f \in Frame
  BY Follows DEF Places
<1>2. ReadSize(f) = WireSize(f) /\ End(f) = f.at + WireSize(f)
  BY <1>1, SizesAgree, Sizes
<1>3. status \in [Conns -> {"none", "open", "closing", "lost"}]
  BY DEF Places, TypeOK
<1>4. CASE f.token > 8
  <2>1. f.token \in 0 .. 15
    BY <1>1 DEF Frame
  <2>2. Fail(c) /\ UNCHANGED <<taken, delivered, csm>>
    BY <1>4, <2>1 DEF Take
  <2>3. QED
    BY <1>3, <2>2 DEF Fail
<1>5. CASE ~(f.token > 8)
  <2>1. /\ taken' = [taken EXCEPT ![c] = @ + ReadSize(f)]
        /\ delivered' = [delivered EXCEPT ![c] = @ + 1]
    BY <1>1, <1>5 DEF Take, Frame
  <2>2. /\ status' = status \/ status' = [status EXCEPT ![c] = "closing"]
        /\ csm' = csm \/ csm' = [csm EXCEPT ![EndpointOf[c]] = "set"]
    BY <1>1, <1>5 DEF Take, Fail, Frame
  <2>3. QED
    BY <1>2, <2>1, <2>2
<1>6. QED
  BY <1>4, <1>5

LEMMA PlacesInit == Init => Places
<1> SUFFICES ASSUME Init PROVE Places
  OBVIOUS
<1>1. ASSUME NEW c \in Conns PROVE Len(traffic[c]) \in Nat
  <2>1. traffic[c] \in Seq(Frame)
    BY TcpAssumption DEF Init
  <2>2. QED
    BY <2>1
<1>2. TypeOK
  BY <1>1 DEF Init, TypeOK
<1>3. InStep
  BY DEF Init, InStep
<1>4. QED
  BY <1>2, <1>3 DEF Places

\* What leaves traffic, taken and delivered alone leaves the reader in its place.
LEMMA StreamLeftAlone ==
    ASSUME Places, TypeOK', UNCHANGED <<traffic, taken, delivered>>
    PROVE  Places'
BY DEF Places, InStep

LEMMA PlacesMade ==
    ASSUME Places, NEW c \in Conns, ConnectionMade(c)
    PROVE  Places'
<1>1. EndpointOf[c] \in Endpoints /\ remote[c] \in Addresses
  BY TcpAssumption DEF Places, TypeOK
<1>2. pool' \in [Endpoints -> [Addresses -> Conns \cup {Nobody}]]
  BY <1>1 DEF Places, TypeOK, ConnectionMade, Entered
<1>3. status' \in [Conns -> {"none", "open", "closing", "lost"}]
  BY DEF Places, TypeOK, ConnectionMade
<1>4. start' \in [Clients -> {"idle", "waiting", "started", "failed"}]
  BY <1>1 DEF Places, TypeOK, ConnectionMade, Clients
<1>5. TypeOK'
  BY <1>2, <1>3, <1>4 DEF Places, TypeOK, ConnectionMade, stream
<1>6. QED
  BY <1>5, StreamLeftAlone DEF ConnectionMade, stream

LEMMA PlacesReceived ==
    ASSUME Places, NEW c \in Conns, NEW n \in (received[c] + 1) .. Length(c),
           DataReceived(c, n)
    PROVE  Places'
<1> DEFINE k == delivered[c] + 1
           f == traffic[c][k]
<1>1. /\ received' = [received EXCEPT ![c] = n]
      /\ UNCHANGED <<traffic, remote, pool, start>>
      /\ nagled' = nagled \/ nagled' = nagled \cup {c}
  BY DEF DataReceived
<1>2. /\ k \in 1 .. Len(traffic[c]) /\ n \in Nat /\ n - taken[c] \in Nat
      /\ f \in Frame /\ f.at = taken[c]
      /\ \/ n < End(f) /\ UNCHANGED <<status, taken, delivered, csm>>
         \/ End(f) <= n /\ Take(c, f)
  BY Received
<1>3. /\ status \in [Conns -> {"none", "open", "closing", "lost"}]
      /\ received \in [Conns -> Nat] /\ taken \in [Conns -> Nat]
      /\ delivered \in [Conns -> Nat]
      /\ csm \in [Endpoints -> {"pending", "set", "cancelled"}]
      /\ EndpointOf[c] \in Endpoints
      /\ taken[c] <= n
  BY <1>2, TcpAssumption DEF Places, TypeOK
<1>4. End(f) \in Nat
  BY <1>2, Sizes
<1>5. /\ status' = status \/ status' = [status EXCEPT ![c] = "closing"]
      /\ csm' = csm \/ csm' = [csm EXCEPT ![EndpointOf[c]] = "set"]
      /\ \/ UNCHANGED <<taken, delivered>>
         \/ /\ taken' = [taken EXCEPT ![c] = End(f)]
            /\ delivered' = [delivered EXCEPT ![c] = k]
            /\ End(f) <= n
  BY <1>2, TakeMoves
<1>6. k \in Nat /\ k <= Len(traffic[c]) /\ k = delivered[c] + 1
  BY <1>2, <1>3
<1>7. n \in Nat
  BY <1>2
<1> HIDE DEF f, k
<1>8. TypeOK'
  <2>1. \A d \in Conns : taken'[d] <= received'[d] /\ taken'[d] \in Nat /\ received'[d] \in Nat
    BY <1>1, <1>2, <1>3, <1>4, <1>5 DEF Places, TypeOK
  <2>2. \A d \in Conns : delivered'[d] <= Len(traffic'[d])
    BY <1>1, <1>3, <1>5, <1>6 DEF Places, TypeOK
  <2>3. /\ received' \in [Conns -> Nat] /\ taken' \in [Conns -> Nat]
        /\ delivered' \in [Conns -> Nat]
    <3>1. received' \in [Conns -> Nat]
      BY <1>1, <1>3, <1>7
    <3>2. CASE UNCHANGED <<taken, delivered>>
      BY <1>3, <3>1, <3>2
    <3>3. CASE taken' = [taken EXCEPT ![c] = End(f)] /\ delivered' = [delivered EXCEPT ![c] = k]
      BY <1>3, <1>4, <1>6, <3>1, <3>3
    <3>4. QED
      BY <1>5, <3>2, <3>3
  <2>4. /\ status' \in [Conns -> {"none", "open", "closing", "lost"}]
        /\ csm' \in [Endpoints -> {"pending", "set", "cancelled"}]
        /\ nagled' \subseteq Conns
    BY <1>1, <1>3, <1>5 DEF Places, TypeOK
  <2>5. QED
    BY <1>1, <2>1, <2>2, <2>3, <2>4 DEF Places, TypeOK
<1>9. InStep'
  BY <1>1, <1>3, <1>5, <1>6 DEF Places, InStep, f
<1>10. QED
  BY <1>8, <1>9 DEF Places

LEMMA PlacesLost ==
    ASSUME Places, NEW c \in Conns, ConnectionLost(c)
    PROVE  Places'
<1>1. EndpointOf[c] \in Endpoints
  BY TcpAssumption
<1>2. pool' \in [Endpoints -> [Addresses -> Conns \cup {Nobody}]]
  BY <1>1 DEF Places, TypeOK, ConnectionLost, Left
<1>3. TypeOK'
  BY <1>2 DEF Places, TypeOK, ConnectionLost, stream
<1>4. QED
  BY <1>3, StreamLeftAlone DEF ConnectionLost, stream

LEMMA PlacesWaited ==
    ASSUME Places, NEW e \in Clients, Resume(e) \/ TimeOut(e)
    PROVE  Places'
<1>1. TypeOK'
  BY DEF Places, TypeOK, Resume, TimeOut, stream
<1>2. QED
  BY <1>1, StreamLeftAlone DEF Resume, TimeOut, stream

LEMMA PlacesClosed ==
    ASSUME Places, NEW e \in Endpoints, Close(e)
    PROVE  Places'
<1>1. TypeOK'
  BY DEF Places, TypeOK, Close, stream
<1>2. QED
  BY <1>1, StreamLeftAlone DEF Close, stream

LEMMA PlacesInvariant == Spec => []Places
<1>1. Places /\ [Next]_vars => Places'
  <2> SUFFICES ASSUME Places, [Next]_vars PROVE Places'
    OBVIOUS
  <2>1. ASSUME NEW c \in Conns, ConnectionMade(c) PROVE Places'
    BY <2>1, PlacesMade
  <2>2. ASSUME NEW c \in Conns, ConnectionLost(c) PROVE Places'
    BY <2>2, PlacesLost
  <2>3. ASSUME NEW c \in Conns, NEW n \in (received[c] + 1) .. Length(c),
               DataReceived(c, n)
        PROVE  Places'
    BY <2>3, PlacesReceived
  <2>4. ASSUME NEW e \in Clients, Resume(e) \/ TimeOut(e) PROVE Places'
    BY <2>4, PlacesWaited
  <2>5. ASSUME NEW e \in Endpoints, Close(e) PROVE Places'
    BY <2>5, PlacesClosed
  <2>6. CASE UNCHANGED vars
    BY <2>6 DEF vars, stream, Places, TypeOK, InStep
  <2>7. QED
    BY <2>1, <2>2, <2>3, <2>4, <2>5, <2>6 DEF Next
<1>2. QED
  BY <1>1, PlacesInit, PTL DEF Spec

\* Every variable keeps its type, and no more leaves a spool than has come,
\* whatever the peers send and however it is cut.
THEOREM TypeCorrect == Spec => []TypeOK
BY PlacesInvariant, PTL DEF Places

\* The reader never loses its place: the spool begins where a message begins,
\* after any number of messages of any lengths.
THEOREM StaysInStep == Spec => []InStep
BY PlacesInvariant, PTL DEF Places

-----------------------------------------------------------------------------
(* What has come whole is taken *)

\* NothingIsLeft, which holds of a connection before it is made as well.
Awaited(c) ==
    /\ c \notin nagled
    /\ status[c] \in {"none", "open"}
    /\ delivered[c] < Len(traffic[c])
    => received[c] < End(traffic[c][delivered[c] + 1])

AllAwaited == \A c \in Conns : Awaited(c)

LEMMA AwaitedInit == Init => AllAwaited
<1> SUFFICES ASSUME Init, NEW c \in Conns, 0 < Len(traffic[c])
             PROVE  0 < End(traffic[c][1])
  BY DEF Init, AllAwaited, Awaited
<1>1. 1 \in 1 .. Len(traffic[c]) /\ TypeOK
  <2>1. traffic[c] \in Seq(Frame)
    BY TcpAssumption DEF Init
  <2>2. QED
    BY <2>1, PlacesInit DEF Places
<1>2. traffic[c][1] \in Frame
  BY <1>1, Follows
<1>3. QED
  BY <1>2, Sizes

LEMMA AwaitedReceived ==
    ASSUME Places, NEW c \in Conns, NEW n \in (received[c] + 1) .. Length(c),
           DataReceived(c, n), Awaited(c)
    PROVE  Awaited(c)'
<1> DEFINE k == delivered[c] + 1
           f == traffic[c][k]
           next == traffic[c][k + 1]
<1> SUFFICES ASSUME c \notin nagled', status'[c] = "open",
                    delivered'[c] < Len(traffic'[c])
             PROVE  received'[c] < End(traffic'[c][delivered'[c] + 1])
  <2>1. status'[c] # "none"
    BY Received, TakeMoves DEF Places, TypeOK, DataReceived
  <2>2. QED
    BY <2>1 DEF Awaited
<1>1. /\ k \in 1 .. Len(traffic[c]) /\ n \in Nat /\ k \in Nat
      /\ f \in Frame /\ f.at = taken[c]
      /\ \/ n < End(f) /\ UNCHANGED <<status, taken, delivered, csm>>
         \/ End(f) <= n /\ Take(c, f)
  BY Received
<1>2. /\ received' = [received EXCEPT ![c] = n] /\ traffic' = traffic
      /\ status[c] = "open"
      /\ c \notin nagled
      /\ \A j, l \in Ending(c, received[c], n) : j = l
  BY DEF DataReceived
<1>3. received'[c] = n /\ received[c] \in Nat /\ delivered[c] \in Nat
  BY <1>2 DEF Places, TypeOK
<1>4. CASE n < End(f) /\ UNCHANGED <<status, taken, delivered, csm>>
  BY <1>2, <1>3, <1>4
<1>5. CASE End(f) <= n /\ Take(c, f)
  <2>1. delivered'[c] = k
    <3>1. delivered' = [delivered EXCEPT ![c] = k]
      BY <1>1, <1>5, TakeMoves
    <3>2. QED
      BY <3>1 DEF Places, TypeOK
  <2>2. k < Len(traffic[c]) /\ k + 1 \in 1 .. Len(traffic[c])
    BY <1>1, <1>2, <2>1
  <2>3. next \in Frame /\ next.at = End(f)
    BY <1>1, <2>2, Follows DEF Places
  <2>4. End(f) < End(next) /\ End(f) \in Nat /\ End(next) \in Nat
    <3>1. /\ WireSize(f) \in Nat /\ f.at \in Nat /\ End(f) = f.at + WireSize(f)
          /\ WireSize(next) \in Nat /\ WireSize(next) >= 2
          /\ End(next) = next.at + WireSize(next)
      BY <1>1, <2>3, Sizes
    <3>2. QED
      BY <2>3, <3>1
  <2>5. received[c] < End(f)
    <3>1. delivered[c] < Len(traffic[c])
      BY <1>3, <2>2
    <3>2. QED
      BY <1>2, <3>1 DEF Awaited
  <2>6. k \in Ending(c, received[c], n)
    BY <1>1, <1>5, <2>2, <2>5, Follows DEF Ending, Places
  <2>7. SUFFICES ASSUME End(next) <= n PROVE FALSE
    BY <1>2, <1>3, <2>1, <2>4
  <2>8. k + 1 \in Ending(c, received[c], n)
    <3>1. k + 1 \in DOMAIN traffic[c]
      BY <2>2, Follows DEF Places
    <3>2. received[c] < End(next)
      BY <1>3, <2>4, <2>5
    <3>3. QED
      BY <2>7, <3>1, <3>2 DEF Ending
  <2>9. QED
    BY <1>1, <1>2, <2>6, <2>8
<1>6. QED
  BY <1>1, <1>4, <1>5

\* What neither gives c bytes nor brings it back leaves it awaited.
LEMMA AwaitedElsewhere ==
    ASSUME NEW d \in Conns, Awaited(d),
           traffic' = traffic, nagled \subseteq nagled',
           received'[d] = received[d], delivered'[d] = delivered[d],
           status'[d] \in {"none", "open"} => status[d] \in {"none", "open"}
    PROVE  Awaited(d)'
BY DEF Awaited

LEMMA AwaitedNext ==
    ASSUME Places, AllAwaited, [Next]_vars
    PROVE  AllAwaited'
<1> SUFFICES ASSUME NEW d \in Conns PROVE Awaited(d)'
  BY DEF AllAwaited
<1>1. Awaited(d)
  BY DEF AllAwaited
<1>2. ASSUME NEW c \in Conns, ConnectionMade(c) \/ ConnectionLost(c) PROVE Awaited(d)'
  BY <1>1, <1>2, AwaitedElsewhere DEF ConnectionMade, ConnectionLost, stream, Places, TypeOK
<1>3. ASSUME NEW c \in Conns, NEW n \in (received[c] + 1) .. Length(c),
             DataReceived(c, n)
      PROVE  Awaited(d)'
  <2>1. CASE d = c
    BY <1>1, <1>3, <2>1, AwaitedReceived
  <2>2. CASE d # c
    <3>1. /\ received' = [received EXCEPT ![c] = n] /\ traffic' = traffic
          /\ nagled \subseteq nagled'
      BY <1>3 DEF DataReceived
    <3>2. received'[d] = received[d]
      BY <2>2, <3>1 DEF Places, TypeOK
    <3>3. /\ status' = status \/ status' = [status EXCEPT ![c] = "closing"]
          /\ \/ delivered' = delivered
             \/ delivered' = [delivered EXCEPT ![c] = delivered[c] + 1]
      BY <1>3, Received, TakeMoves
    <3>4. status'[d] = status[d] /\ delivered'[d] = delivered[d]
      BY <2>2, <3>3 DEF Places, TypeOK
    <3>5. QED
      BY <1>1, <3>1, <3>2, <3>4, AwaitedElsewhere
  <2>3. QED
    BY <2>1, <2>2
<1>4. ASSUME NEW e \in Clients, Resume(e) \/ TimeOut(e) PROVE Awaited(d)'
  BY <1>1, <1>4, AwaitedElsewhere DEF Resume, TimeOut, stream
<1>5. ASSUME NEW e \in Endpoints, Close(e) PROVE Awaited(d)'
  BY <1>1, <1>5, AwaitedElsewhere DEF Close, stream
<1>6. CASE UNCHANGED vars
  BY <1>1, <1>6, AwaitedElsewhere DEF vars, stream
<1>7. QED
  BY <1>2, <1>3, <1>4, <1>5, <1>6 DEF Next

\* No whole message waits in the spool of an open connection, as long as no call
\* of data_received has brought the ends of two.
THEOREM NothingLeft == Spec => []NothingIsLeft
<1>1. Init => AllAwaited
  BY AwaitedInit
<1>2. Places /\ AllAwaited /\ [Next]_vars => AllAwaited'
  BY AwaitedNext
<1>3. AllAwaited => NothingIsLeft
  BY DEF AllAwaited, Awaited, NothingIsLeft
<1>4. QED
  BY <1>1, <1>2, <1>3, PlacesInvariant, PTL DEF Spec

-----------------------------------------------------------------------------
(* The pool *)

\* The entry of an address is a living connection of that address.
Entries ==
    \A e \in Endpoints, a \in Addresses : LET c == pool[e][a] IN
        c # Nobody => /\ EndpointOf[c] = e /\ remote[c] = a
                      /\ status[c] \in {"open", "closing"}

\* A connection that is alone with its address is in the pool while it is open.
InPool ==
    \A c \in Conns : status[c] = "open" /\ Alone(c) =>
        pool[EndpointOf[c]][remote[c]] = c

LEMMA ReachableMeans == Reachable <=> Entries /\ InPool
BY DEF Reachable, Entries, InPool

LEMMA ReachableMade ==
    ASSUME Places, Reachable, NEW c \in Conns, ConnectionMade(c)
    PROVE  Reachable'
<1>1. EndpointOf[c] \in Endpoints /\ remote[c] \in Addresses
  BY TcpAssumption DEF Places, TypeOK
<1>2. /\ status' = [status EXCEPT ![c] = "open"]
      /\ pool' = [pool EXCEPT ![EndpointOf[c]] = [@ EXCEPT ![remote[c]] = c]]
      /\ remote' = remote /\ status[c] = "none"
  BY DEF ConnectionMade, Entered
<1>3. Entries'
  <2> SUFFICES ASSUME NEW e \in Endpoints, NEW a \in Addresses, pool'[e][a] # Nobody
               PROVE  /\ EndpointOf[pool'[e][a]] = e /\ remote[pool'[e][a]] = a
                      /\ status'[pool'[e][a]] \in {"open", "closing"}
    BY <1>2 DEF Entries
  <2>1. CASE e = EndpointOf[c] /\ a = remote[c]
    BY <1>1, <1>2, <2>1 DEF Places, TypeOK
  <2>2. CASE ~(e = EndpointOf[c] /\ a = remote[c])
    <3>1. pool'[e][a] = pool[e][a]
      BY <1>1, <1>2, <2>2 DEF Places, TypeOK
    <3>2. pool[e][a] \in Conns
      BY <3>1 DEF Places, TypeOK
    <3>3. QED
      BY <1>2, <3>1, <3>2 DEF Places, TypeOK, Reachable
  <2>3. QED
    BY <2>1, <2>2
<1>4. InPool'
  <2> SUFFICES ASSUME NEW d \in Conns, status'[d] = "open", Alone(d)'
               PROVE  pool'[EndpointOf[d]][remote[d]] = d
    BY <1>2 DEF InPool
  <2>1. CASE d = c
    BY <1>1, <1>2, <2>1 DEF Places, TypeOK
  <2>2. CASE d # c
    <3>1. status[d] = "open" /\ status'[c] = "open"
      BY <1>2, <2>2 DEF Places, TypeOK
    <3>2. ~(EndpointOf[c] = EndpointOf[d] /\ remote[c] = remote[d])
      BY <1>2, <2>2, <3>1 DEF Alone
    <3>3. Alone(d)
      <4> SUFFICES ASSUME NEW x \in Conns, x # d, EndpointOf[x] = EndpointOf[d],
                          remote[x] = remote[d]
                   PROVE  status[x] = "none"
        BY DEF Alone
      <4>1. x # c
        BY <3>2
      <4>2. status'[x] = "none"
        BY <1>2 DEF Alone
      <4>3. QED
        BY <1>2, <4>1, <4>2 DEF Places, TypeOK
    <3>4. pool[EndpointOf[d]][remote[d]] = d
      BY <3>1, <3>3 DEF Reachable
    <3>5. EndpointOf[d] \in Endpoints /\ remote[d] \in Addresses
      BY TcpAssumption DEF Places, TypeOK
    <3>6. pool'[EndpointOf[d]][remote[d]] = pool[EndpointOf[d]][remote[d]]
      BY <1>1, <1>2, <3>2, <3>5 DEF Places, TypeOK
    <3>7. QED
      BY <3>4, <3>6
  <2>3. QED
    BY <2>1, <2>2
<1>5. QED
  BY <1>3, <1>4, ReachableMeans, PTL

\* What changes only statuses from "open" to "closing" leaves Reachable.
LEMMA ReachableFailing ==
    ASSUME Places, Reachable, UNCHANGED <<remote, pool>>,
           \A c \in Conns : \/ status'[c] = status[c]
                            \/ status[c] = "open" /\ status'[c] = "closing"
    PROVE  Reachable'
<1>1. Entries'
  <2> SUFFICES ASSUME NEW e \in Endpoints, NEW a \in Addresses, pool[e][a] # Nobody
               PROVE  /\ EndpointOf[pool[e][a]] = e /\ remote[pool[e][a]] = a
                      /\ status'[pool[e][a]] \in {"open", "closing"}
    BY DEF Entries
  <2>1. pool[e][a] \in Conns
    BY DEF Places, TypeOK
  <2>2. QED
    BY <2>1 DEF Reachable
<1>2. InPool'
  BY DEF InPool, Alone, Reachable
<1>3. QED
  BY <1>1, <1>2, ReachableMeans, PTL

LEMMA ReachableReceived ==
    ASSUME Places, Reachable,
           NEW c \in Conns, NEW n \in (received[c] + 1) .. Length(c), DataReceived(c, n)
    PROVE  Reachable'
<1>1. status' = status \/ status' = [status EXCEPT ![c] = "closing"]
  BY Received, TakeMoves
<1>2. UNCHANGED <<remote, pool>> /\ status[c] = "open"
  BY DEF DataReceived
<1>3. \A d \in Conns : \/ status'[d] = status[d]
                       \/ status[d] = "open" /\ status'[d] = "closing"
  BY <1>1, <1>2 DEF Places, TypeOK
<1>4. QED
  BY <1>2, <1>3, ReachableFailing

LEMMA ReachableLost ==
    ASSUME Places, Reachable, NEW c \in Conns, ConnectionLost(c)
    PROVE  Reachable'
<1>1. EndpointOf[c] \in Endpoints /\ remote[c] \in Addresses
  BY TcpAssumption DEF Places, TypeOK
<1>2. /\ status' = [status EXCEPT ![c] = "lost"]
      /\ pool' = [pool EXCEPT ![EndpointOf[c]] = [@ EXCEPT ![remote[c]] = Nobody]]
      /\ remote' = remote /\ status[c] \in {"open", "closing"}
  BY DEF ConnectionLost, Left
<1>3. Entries'
  <2> SUFFICES ASSUME NEW e \in Endpoints, NEW a \in Addresses, pool'[e][a] # Nobody
               PROVE  /\ EndpointOf[pool'[e][a]] = e /\ remote[pool'[e][a]] = a
                      /\ status'[pool'[e][a]] \in {"open", "closing"}
    BY <1>2 DEF Entries
  <2>1. ~(e = EndpointOf[c] /\ a = remote[c])
    BY <1>1, <1>2 DEF Places, TypeOK
  <2>2. pool'[e][a] = pool[e][a]
    BY <1>1, <1>2, <2>1 DEF Places, TypeOK
  <2>3. pool[e][a] \in Conns /\ EndpointOf[pool[e][a]] = e /\ remote[pool[e][a]] = a
        /\ status[pool[e][a]] \in {"open", "closing"}
    BY <2>2 DEF Places, TypeOK, Reachable
  <2>4. QED
    BY <1>2, <2>1, <2>2, <2>3 DEF Places, TypeOK
<1>4. InPool'
  <2> SUFFICES ASSUME NEW d \in Conns, status'[d] = "open", Alone(d)'
               PROVE  pool'[EndpointOf[d]][remote[d]] = d
    BY <1>2 DEF InPool
  <2>1. d # c /\ status[d] = "open" /\ status'[c] = "lost"
    BY <1>2 DEF Places, TypeOK
  <2>2. ~(EndpointOf[c] = EndpointOf[d] /\ remote[c] = remote[d])
    BY <1>2, <2>1 DEF Alone
  <2>3. Alone(d)
    <3> SUFFICES ASSUME NEW x \in Conns, x # d, EndpointOf[x] = EndpointOf[d],
                        remote[x] = remote[d]
                 PROVE  status[x] = "none"
      BY DEF Alone
    <3>1. x # c
      BY <2>2
    <3>2. status'[x] = "none"
      BY <1>2 DEF Alone
    <3>3. QED
      BY <1>2, <3>1, <3>2 DEF Places, TypeOK
  <2>4. pool[EndpointOf[d]][remote[d]] = d
    BY <2>1, <2>3 DEF Reachable
  <2>5. EndpointOf[d] \in Endpoints /\ remote[d] \in Addresses
    BY TcpAssumption DEF Places, TypeOK
  <2>6. pool'[EndpointOf[d]][remote[d]] = pool[EndpointOf[d]][remote[d]]
    BY <1>1, <1>2, <2>2, <2>5 DEF Places, TypeOK
  <2>7. QED
    BY <2>4, <2>6
<1>5. QED
  BY <1>3, <1>4, ReachableMeans, PTL

LEMMA ReachableClosed ==
    ASSUME Places, Reachable, NEW e \in Endpoints, Close(e)
    PROVE  Reachable'
<1>1. remote' = remote
  BY DEF Close, stream
<1>2. \A c \in Conns : /\ \/ status'[c] = status[c]
                          \/ status[c] = "open" /\ status'[c] = "closing"
                       /\ c \in Closes(e) => status'[c] # "open"
  BY DEF Close, Places, TypeOK
<1>3. CASE e \notin Listening
  BY <1>1, <1>2, <1>3, ReachableFailing DEF Close
<1>4. CASE e \in Listening
  <2>1. pool' = [pool EXCEPT ![e] = [a \in Addresses |-> Nobody]]
    BY <1>4 DEF Close
  <2>2. Entries'
    <3> SUFFICES ASSUME NEW f \in Endpoints, NEW a \in Addresses, pool'[f][a] # Nobody
                 PROVE  /\ EndpointOf[pool'[f][a]] = f /\ remote[pool'[f][a]] = a
                        /\ status'[pool'[f][a]] \in {"open", "closing"}
      BY <1>1 DEF Entries
    <3>1. f # e /\ pool'[f] = pool[f]
      BY <2>1 DEF Places, TypeOK
    <3>2. pool[f][a] \in Conns
      BY <3>1 DEF Places, TypeOK
    <3>3. QED
      BY <1>2, <3>1, <3>2 DEF Reachable
  <2>3. InPool'
    <3> SUFFICES ASSUME NEW d \in Conns, status'[d] = "open", Alone(d)'
                 PROVE  pool'[EndpointOf[d]][remote[d]] = d
      BY <1>1 DEF InPool
    <3>1. status[d] = "open" /\ d \notin Closes(e)
      BY <1>2
    <3>2. Alone(d)
      BY <1>1, <1>2 DEF Alone
    <3>3. pool[EndpointOf[d]][remote[d]] = d /\ EndpointOf[d] \in Endpoints
      BY <3>1, <3>2, TcpAssumption DEF Reachable
    <3>4. EndpointOf[d] # e
      BY <1>4, <3>1, <3>3 DEF Closes
    <3>5. QED
      BY <2>1, <3>3, <3>4 DEF Places, TypeOK
  <2>4. QED
    BY <2>2, <2>3, ReachableMeans, PTL
<1>5. QED
  BY <1>3, <1>4

\* What is sent to an address reaches a connection that is not gone, and an open
\* connection is in the pool unless another has been made with its address.
THEOREM PoolReaches == Spec => []Reachable
<1>1. Init => Reachable
  BY DEF Init, Reachable, Alone
<1>2. Places /\ Reachable /\ [Next]_vars => Reachable'
  <2> SUFFICES ASSUME Places, Reachable, [Next]_vars PROVE Reachable'
    OBVIOUS
  <2>1. ASSUME NEW c \in Conns, ConnectionMade(c) PROVE Reachable'
    BY <2>1, ReachableMade
  <2>2. ASSUME NEW c \in Conns, ConnectionLost(c) PROVE Reachable'
    BY <2>2, ReachableLost
  <2>3. ASSUME NEW c \in Conns, NEW n \in (received[c] + 1) .. Length(c),
               DataReceived(c, n)
        PROVE  Reachable'
    BY <2>3, ReachableReceived
  <2>4. ASSUME NEW e \in Clients, Resume(e) \/ TimeOut(e) PROVE Reachable'
    BY <2>4, ReachableFailing DEF Resume, TimeOut
  <2>5. ASSUME NEW e \in Endpoints, Close(e) PROVE Reachable'
    BY <2>5, ReachableClosed
  <2>6. CASE UNCHANGED vars
    BY <2>6, ReachableFailing DEF vars
  <2>7. QED
    BY <2>1, <2>2, <2>3, <2>4, <2>5, <2>6 DEF Next
<1>3. QED
  BY <1>1, <1>2, PlacesInvariant, PTL DEF Spec

-----------------------------------------------------------------------------
(* One CSM for an endpoint *)

\* A connection that is not made has sent nothing.
NoneSilent == \A c \in Conns : status[c] = "none" => delivered[c] = 0

\* An endpoint whose future is pending has heard no CSM.
PendingUnheard ==
    \A c \in Conns : csm[EndpointOf[c]] = "pending" =>
        \A k \in 1 .. delivered[c] : ~Greets(c, k)

CsmInv == NoneSilent /\ PendingUnheard /\ OneCsm

\* What delivers nothing and opens no connection but a silent one.
LEMMA NothingDelivered ==
    ASSUME Places, CsmInv, UNCHANGED <<traffic, delivered>>,
           \A e \in Endpoints : csm'[e] = csm[e] \/ csm'[e] = "cancelled",
           \A c \in Conns : /\ status'[c] = "none" => status[c] = "none"
                            /\ status'[c] = "open" => status[c] = "open" \/ delivered[c] = 0
    PROVE  CsmInv'
<1>1. NoneSilent'
  BY DEF CsmInv, NoneSilent
<1>2. PendingUnheard'
  BY TcpAssumption DEF CsmInv, PendingUnheard, Greets
<1>3. OneCsm'
  <2>1. ASSUME NEW e \in Endpoints, csm'[e] = "set"
        PROVE  \E c \in Conns : EndpointOf[c] = e /\ \E k \in 1 .. delivered'[c] : Greets(c, k)'
    BY <2>1 DEF CsmInv, OneCsm, Greets
  <2>2. ASSUME NEW c \in Conns, NEW d \in Conns,
               NEW j \in 1 .. delivered'[c], NEW k \in 1 .. delivered'[d],
               Greets(c, j)', status'[c] = "open", Greets(d, k)', status'[d] = "open",
               EndpointOf[c] = EndpointOf[d]
        PROVE  c = d /\ j = k
    <3>1. j \in 1 .. delivered[c] /\ k \in 1 .. delivered[d]
          /\ delivered[c] \in Nat /\ delivered[d] \in Nat
      BY DEF Places, TypeOK
    <3>2. status[c] = "open" /\ status[d] = "open"
      BY <2>2, <3>1
    <3>3. Greets(c, j) /\ Greets(d, k)
      BY <2>2 DEF Greets
    <3>4. QED
      BY <2>2, <3>1, <3>2, <3>3 DEF CsmInv, OneCsm
  <2>3. QED
    BY <2>1, <2>2 DEF OneCsm
<1>4. QED
  BY <1>1, <1>2, <1>3 DEF CsmInv

\* What a message does to the CSM of its endpoint.
LEMMA TakeGreets ==
    ASSUME Places, NEW c \in Conns, NEW k, k = delivered[c] + 1,
           k \in 1 .. Len(traffic[c]), Take(c, traffic[c][k])
    PROVE  \/ UNCHANGED <<delivered, csm>> /\ Fail(c)
           \/ /\ delivered' = [delivered EXCEPT ![c] = k]
              /\ UNCHANGED csm
              /\ \/ ~Greets(c, k) /\ (UNCHANGED status \/ Fail(c))
                 \/ Refuses(c) /\ Fail(c)
           \/ /\ delivered' = [delivered EXCEPT ![c] = k]
              /\ csm' = [csm EXCEPT ![EndpointOf[c]] = "set"]
              /\ Greets(c, k) /\ ~Refuses(c) /\ UNCHANGED status
BY DEF Take, Greets

LEMMA CsmDelivered ==
    ASSUME Places, CsmInv, NEW c \in Conns, NEW k, k = delivered[c] + 1,
           traffic' = traffic, status[c] = "open",
           delivered' = [delivered EXCEPT ![c] = k],
           \/ /\ UNCHANGED csm
              /\ \/ ~Greets(c, k) /\ (UNCHANGED status \/ Fail(c))
                 \/ Refuses(c) /\ Fail(c)
           \/ /\ csm' = [csm EXCEPT ![EndpointOf[c]] = "set"]
              /\ Greets(c, k) /\ ~Refuses(c) /\ UNCHANGED status
    PROVE  CsmInv'
<1>1. /\ delivered \in [Conns -> Nat] /\ EndpointOf[c] \in Endpoints
      /\ csm \in [Endpoints -> {"pending", "set", "cancelled"}]
      /\ status \in [Conns -> {"none", "open", "closing", "lost"}]
      /\ k \in Nat
  <2>1. /\ delivered \in [Conns -> Nat]
        /\ csm \in [Endpoints -> {"pending", "set", "cancelled"}]
        /\ status \in [Conns -> {"none", "open", "closing", "lost"}]
    BY DEF Places, TypeOK
  <2>2. delivered[c] \in Nat
    BY <2>1
  <2>3. QED
    BY <2>1, <2>2, TcpAssumption
<1>2. \A d \in Conns : delivered'[d] = IF d = c THEN k ELSE delivered[d]
  BY <1>1
<1>3. /\ \A d \in Conns : status'[d] = "none" <=> status[d] = "none"
      /\ \A d \in Conns : status'[d] = "open" => status[d] = "open"
  <2>1. UNCHANGED status \/ status' = [status EXCEPT ![c] = "closing"]
    BY DEF Fail
  <2>2. QED
    BY <1>1, <2>1
<1>4. NoneSilent'
  BY <1>2, <1>3 DEF CsmInv, NoneSilent
<1>5. \A d \in Conns, j \in Nat : Greets(d, j)' <=> Greets(d, j)
  BY DEF Greets
<1>6. CASE UNCHANGED csm /\ ~Greets(c, k)
  <2>1. \A d \in Conns : \A j \in 1 .. delivered'[d] :
           Greets(d, j)' => j \in 1 .. delivered[d] /\ Greets(d, j)
    BY <1>1, <1>2, <1>5, <1>6
  <2>2. \A d \in Conns : \A j \in 1 .. delivered[d] :
           Greets(d, j) => j \in 1 .. delivered'[d] /\ Greets(d, j)'
    BY <1>1, <1>2, <1>5
  <2>3. PendingUnheard'
    BY <1>6, <2>1 DEF CsmInv, PendingUnheard
  <2>4. OneCsm'
    BY <1>3, <1>6, <2>1, <2>2 DEF CsmInv, OneCsm
  <2>5. QED
    BY <1>4, <2>3, <2>4 DEF CsmInv
<1>7. CASE UNCHANGED csm /\ Refuses(c) /\ Fail(c)
  <2>1. status'[c] # "open" /\ csm[EndpointOf[c]] # "pending"
    BY <1>1, <1>7 DEF Fail, Refuses
  <2>2. \A d \in Conns : status'[d] = "open" \/ csm[EndpointOf[d]] = "pending" =>
           d # c /\ delivered'[d] = delivered[d]
    BY <1>2, <2>1
  <2>3. \A d \in Conns : \A j \in 1 .. delivered[d] :
           Greets(d, j) => j \in 1 .. delivered'[d] /\ Greets(d, j)'
    BY <1>1, <1>2, <1>5
  <2>4. PendingUnheard'
    BY <1>1, <1>5, <1>7, <2>2 DEF CsmInv, PendingUnheard
  <2>5. OneCsm'
    <3>1. ASSUME NEW e \in Endpoints, csm'[e] = "set"
          PROVE  \E d \in Conns : EndpointOf[d] = e /\ \E j \in 1 .. delivered'[d] : Greets(d, j)'
      BY <1>7, <2>3, <3>1 DEF CsmInv, OneCsm
    <3>2. ASSUME NEW x \in Conns, NEW y \in Conns,
                 NEW i \in 1 .. delivered'[x], NEW j \in 1 .. delivered'[y],
                 Greets(x, i)', status'[x] = "open", Greets(y, j)', status'[y] = "open",
                 EndpointOf[x] = EndpointOf[y]
          PROVE  x = y /\ i = j
      <4>1. i \in 1 .. delivered[x] /\ j \in 1 .. delivered[y]
        BY <2>2, <3>2
      <4>2. Greets(x, i) /\ Greets(y, j) /\ status[x] = "open" /\ status[y] = "open"
        BY <1>1, <1>3, <1>5, <3>2, <4>1
      <4>3. QED
        BY <3>2, <4>1, <4>2 DEF CsmInv, OneCsm
    <3>3. QED
      BY <3>1, <3>2 DEF OneCsm
  <2>6. QED
    BY <1>4, <2>4, <2>5 DEF CsmInv
<1>8. CASE /\ csm' = [csm EXCEPT ![EndpointOf[c]] = "set"]
           /\ Greets(c, k) /\ ~Refuses(c) /\ UNCHANGED status
  <2>1. \A d \in Conns : EndpointOf[d] = EndpointOf[c] =>
           \A j \in 1 .. delivered[d] : ~Greets(d, j)
    BY <1>8 DEF CsmInv, PendingUnheard, Refuses
  <2>2. \A d \in Conns : EndpointOf[d] = EndpointOf[c] =>
           \A j \in 1 .. delivered'[d] : Greets(d, j)' => d = c /\ j = k
    BY <1>1, <1>2, <1>5, <2>1
  <2>3. \A d \in Conns : EndpointOf[d] # EndpointOf[c] =>
           csm'[EndpointOf[d]] = csm[EndpointOf[d]] /\ delivered'[d] = delivered[d]
    BY <1>1, <1>2, <1>8, TcpAssumption
  <2>4. csm'[EndpointOf[c]] = "set"
    BY <1>1, <1>8
  <2>5. PendingUnheard'
    <3> SUFFICES ASSUME NEW d \in Conns, csm'[EndpointOf[d]] = "pending",
                        NEW j \in 1 .. delivered'[d]
                 PROVE  ~Greets(d, j)'
      BY DEF PendingUnheard
    <3>1. EndpointOf[d] # EndpointOf[c]
      BY <2>4
    <3>2. j \in 1 .. delivered[d] /\ csm[EndpointOf[d]] = "pending" /\ delivered[d] \in Nat
      BY <1>1, <2>3, <3>1
    <3>3. QED
      BY <1>5, <3>2 DEF CsmInv, PendingUnheard
  <2>6. OneCsm'
    <3>1. ASSUME NEW e \in Endpoints, csm'[e] = "set"
          PROVE  \E d \in Conns : EndpointOf[d] = e /\ \E j \in 1 .. delivered'[d] : Greets(d, j)'
      <4>1. CASE e = EndpointOf[c]
        <5>1. k \in 1 .. delivered'[c] /\ Greets(c, k)'
          BY <1>1, <1>2, <1>5, <1>8
        <5>2. QED
          BY <4>1, <5>1
      <4>2. CASE e # EndpointOf[c]
        <5>1. csm[e] = "set"
          BY <1>1, <1>8, <3>1, <4>2
        <5>2. PICK d \in Conns : EndpointOf[d] = e /\ \E j \in 1 .. delivered[d] : Greets(d, j)
          BY <5>1 DEF CsmInv, OneCsm
        <5>3. PICK j \in 1 .. delivered[d] : Greets(d, j)
          BY <5>2
        <5>4. delivered'[d] = delivered[d] /\ delivered[d] \in Nat
          BY <1>1, <2>3, <4>2, <5>2
        <5>5. QED
          BY <1>5, <5>2, <5>3, <5>4
      <4>3. QED
        BY <4>1, <4>2
    <3>2. ASSUME NEW x \in Conns, NEW y \in Conns,
                 NEW i \in 1 .. delivered'[x], NEW j \in 1 .. delivered'[y],
                 Greets(x, i)', status'[x] = "open", Greets(y, j)', status'[y] = "open",
                 EndpointOf[x] = EndpointOf[y]
          PROVE  x = y /\ i = j
      <4>1. CASE EndpointOf[x] = EndpointOf[c]
        BY <2>2, <3>2, <4>1
      <4>2. CASE EndpointOf[x] # EndpointOf[c]
        <5>1. i \in 1 .. delivered[x] /\ j \in 1 .. delivered[y]
          BY <2>3, <3>2, <4>2
        <5>2. Greets(x, i) /\ Greets(y, j) /\ status[x] = "open" /\ status[y] = "open"
          BY <1>1, <1>3, <1>5, <3>2, <5>1
        <5>3. QED
          BY <3>2, <5>1, <5>2 DEF CsmInv, OneCsm
      <4>3. QED
        BY <4>1, <4>2
    <3>3. QED
      BY <3>1, <3>2 DEF OneCsm
  <2>7. QED
    BY <1>4, <2>5, <2>6 DEF CsmInv
<1>9. QED
  BY <1>6, <1>7, <1>8

LEMMA CsmReceived ==
    ASSUME Places, CsmInv,
           NEW c \in Conns, NEW n \in (received[c] + 1) .. Length(c), DataReceived(c, n)
    PROVE  CsmInv'
<1> DEFINE k == delivered[c] + 1
<1>1. traffic' = traffic /\ status[c] = "open"
  BY DEF DataReceived
<1>2. /\ k \in 1 .. Len(traffic[c])
      /\ \/ UNCHANGED <<status, delivered, csm>>
         \/ Take(c, traffic[c][k])
  BY Received
<1>3. CASE UNCHANGED <<status, delivered, csm>>
  BY <1>1, <1>3, NothingDelivered
<1>4. CASE Take(c, traffic[c][k])
  <2>1. CASE UNCHANGED <<delivered, csm>> /\ Fail(c)
    <3>1. \A d \in Conns : /\ status'[d] = "none" => status[d] = "none"
                           /\ status'[d] = "open" => status[d] = "open"
      BY <2>1 DEF Fail, Places, TypeOK
    <3>2. QED
      BY <1>1, <2>1, <3>1, NothingDelivered
  <2>2. CASE delivered' = [delivered EXCEPT ![c] = k]
    <3> HIDE DEF k
    <3>1. k = delivered[c] + 1
      BY DEF k
    <3>2. delivered'[c] # delivered[c]
      BY <2>2, <3>1 DEF Places, TypeOK
    <3>3. QED
      BY <1>1, <1>2, <1>4, <2>2, <3>1, <3>2, TakeGreets, CsmDelivered
  <2>3. QED
    BY <1>2, <1>4, <2>1, <2>2, TakeGreets
<1>5. QED
  BY <1>2, <1>3, <1>4

\* An endpoint has the CSM of a connection, and every further CSM, of that
\* connection or of another of the endpoint, has closed its sender's connection.
THEOREM OneCsmHeard == Spec => []OneCsm
<1>1. Init => CsmInv
  BY DEF Init, CsmInv, NoneSilent, PendingUnheard, OneCsm
<1>2. Places /\ CsmInv /\ [Next]_vars => CsmInv'
  <2> SUFFICES ASSUME Places, CsmInv, [Next]_vars PROVE CsmInv'
    OBVIOUS
  <2>1. ASSUME NEW c \in Conns, ConnectionMade(c) \/ ConnectionLost(c) PROVE CsmInv'
    <3>1. \A d \in Conns : /\ status'[d] = "none" => status[d] = "none"
                           /\ status'[d] = "open" => status[d] = "open" \/ delivered[d] = 0
      BY <2>1 DEF ConnectionMade, ConnectionLost, Places, TypeOK, CsmInv, NoneSilent
    <3>2. QED
      BY <2>1, <3>1, NothingDelivered DEF ConnectionMade, ConnectionLost, stream
  <2>2. ASSUME NEW c \in Conns, NEW n \in (received[c] + 1) .. Length(c),
               DataReceived(c, n)
        PROVE  CsmInv'
    BY <2>2, CsmReceived
  <2>3. ASSUME NEW e \in Clients, Resume(e) \/ TimeOut(e) PROVE CsmInv'
    <3>1. \A f \in Endpoints : csm'[f] = csm[f] \/ csm'[f] = "cancelled"
      BY <2>3 DEF Resume, TimeOut, Places, TypeOK
    <3>2. UNCHANGED <<traffic, delivered, status>>
      BY <2>3 DEF Resume, TimeOut, stream
    <3>3. QED
      BY <3>1, <3>2, NothingDelivered
  <2>4. ASSUME NEW e \in Endpoints, Close(e) PROVE CsmInv'
    <3>1. \A d \in Conns : /\ status'[d] = "none" => status[d] = "none"
                           /\ status'[d] = "open" => status[d] = "open"
      BY <2>4 DEF Close
    <3>2. UNCHANGED <<traffic, delivered, csm>>
      BY <2>4 DEF Close, stream
    <3>3. QED
      BY <3>1, <3>2, NothingDelivered
  <2>5. CASE UNCHANGED vars
    BY <2>5, NothingDelivered DEF vars, stream
  <2>6. QED
    BY <2>1, <2>2, <2>3, <2>4, <2>5 DEF Next
<1>3. CsmInv => OneCsm
  BY DEF CsmInv
<1>4. QED
  BY <1>1, <1>2, <1>3, PlacesInvariant, PTL DEF Spec

=============================================================================
