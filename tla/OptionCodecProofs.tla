------------------------- MODULE OptionCodecProofs -------------------------
(***************************************************************************)
(* Proofs about OptionCodec, for every set of candidates, payloads and     *)
(* tokens: the heads agree, the layout of what is written, and that a      *)
(* clean message is read as it was set.                                    *)
(***************************************************************************)
EXTENDS OptionCodec, TLAPS

-----------------------------------------------------------------------------
(* The numbers in a head *)

\* A field in network order is read as the number that was written, and its extension
\* fits the bytes it is given, on both sides of every limit of get_option_nibble.
THEOREM HeadsAgree ==
    ASSUME NEW n \in Nat, n <= 65804
    PROVE  /\ Extended(Nibble(n), Extension(n)) = n
           /\ Nibble(n) \in 0 .. 14
           /\ Width(Nibble(n)) \in 0 .. 2
           /\ Width(Nibble(n)) = 1 => Extension(n) >= 0 /\ Extension(n) <= 255
           /\ Width(Nibble(n)) = 2 => Extension(n) >= 0 /\ Extension(n) <= 65535
           /\ writer # "tcp" \/ Nibble(n) < 14 => Heard(n) = n
<1>1. CASE n <= 12
  BY <1>1 DEF Extended, Nibble, Extension, Width, Heard
<1>2. CASE n > 12 /\ n <= 268
  BY <1>2 DEF Extended, Nibble, Extension, Width, Heard
<1>3. CASE n > 268
  BY <1>3 DEF Extended, Nibble, Extension, Width, Heard
<1> QED BY <1>1, <1>2, <1>3

\* A block option is read back as it was set, for every number of a block that has
\* twenty bits, and has no length for block 0 of 16 bytes with nothing to follow.
THEOREM BlockReadBack ==
    ASSUME NEW num \in Nat, num < 1048576, NEW m \in {0, 1}, NEW blocksize \in Nat
    PROVE  /\ ParseBlockwise(BlockValue(num, m, blocksize)) =
                 <<num, m, 2^(Szx(blocksize) + 4)>>
           /\ ByteLen(BlockValue(num, m, blocksize)) = 0 <=>
                 num = 0 /\ m = 0 /\ blocksize <= 16
<1> DEFINE s == Szx(blocksize)
           v == BlockValue(num, m, blocksize)
           wide == IF ByteLen(v) = 1 THEN 16 ELSE IF ByteLen(v) = 2 THEN 4096 ELSE 1048576
<1>1. s \in 0 .. 6 /\ (s = 0 <=> blocksize <= 16)
  BY DEF Szx
<1>2. v = 16 * num + 8 * m + s
  BY DEF BlockValue
<1>3. ParseBlockwise(v) = <<(v \div 16) % wide, (v \div 8) % 2, 2^((v % 8) + 4)>>
  BY DEF ParseBlockwise
<1> HIDE DEF s, v
<1>4. v \in Nat /\ v \div 16 = num /\ (v \div 8) % 2 = m /\ v % 8 = s
  <2>1. CASE m = 0
    BY <1>1, <1>2, <2>1
  <2>2. CASE m = 1
    BY <1>1, <1>2, <2>2
  <2> QED BY <2>1, <2>2
<1>5. ByteLen(v) = 0 <=> num = 0 /\ m = 0 /\ s = 0
  BY <1>1, <1>2, <1>4 DEF ByteLen
<1>6. num % wide = num
  <2>1. CASE ByteLen(v) = 1
    <3>1. num < 16
      BY <1>1, <1>2, <1>4, <2>1 DEF ByteLen
    <3> QED BY <2>1, <3>1
  <2>2. CASE ByteLen(v) = 2
    <3>1. num < 4096
      BY <1>1, <1>2, <1>4, <2>2 DEF ByteLen
    <3> QED BY <2>2, <3>1
  <2>3. CASE ByteLen(v) \notin {1, 2}
    BY <2>3
  <2> QED BY <2>1, <2>2, <2>3
<1> HIDE DEF wide
<1>7. ParseBlockwise(v) = <<num, m, 2^(s + 4)>>
  BY <1>3, <1>4, <1>6
<1> QED BY <1>1, <1>5, <1>7 DEF s, v

-----------------------------------------------------------------------------
(* The inductive invariant *)

\* Where the n-th piece begins, or where it would.
Place(n) == IF n \in DOMAIN pieces THEN pieces[n].at ELSE size

BeforeWriting == {"setting", "unsent"}
BeforeSending == BeforeWriting \cup {"writing"}
BeforeReading == BeforeSending \cup {"received"}

\* The options of the message; those of this side are known and repeat only where
\* they may.
OptionsOK ==
    /\ \A o \in options :
          /\ o.number <= 65535 /\ o.bytes <= 65804
          /\ o.chars <= o.bytes /\ (o.chars = 0 <=> o.bytes = 0)
          /\ o.number \notin Texts => o.chars = o.bytes
          /\ Own => o.number \in Known
    /\ Own => \A o, p \in options :
                 o.number = p.number /\ o.number \notin Repeatable => o = p

\* What has not begun has done nothing.
IdleOK ==
    /\ phase \in BeforeWriting => pieces = <<>> /\ size = 0
    /\ phase \in BeforeSending => arrived = 0
    /\ phase \in BeforeReading =>
          pos = 0 /\ current = 0 /\ next = 1 /\ DOMAIN got = {} /\ heard.payload = 0

\* The pieces follow each other without a gap, in the order of the options, and what
\* is not written comes after them.
LayoutOK ==
    /\ Place(1) = 0
    /\ \A k \in DOMAIN pieces :
          /\ pieces[k].delta = pieces[k].option.number
                               - (IF k = 1 THEN 0 ELSE pieces[k - 1].option.number)
          /\ Place(k + 1) = ValueAt(pieces[k].at, pieces[k].delta,
                                    Announced(pieces[k].option)) + pieces[k].option.bytes
          /\ Place(k + 1) <= size
    /\ \A j, k \in DOMAIN pieces : j < k =>
          /\ Before(pieces[j].option, pieces[k].option)
          /\ Place(j + 1) <= pieces[k].at
    /\ \A o \in Unwritten : \A k \in DOMAIN pieces : Before(pieces[k].option, o)
    /\ phase \notin BeforeSending => Unwritten = {}

\* What this side sends can be described, and comes whole.
SentOK ==
    Own =>
      /\ phase \notin BeforeWriting =>
            /\ \A o \in options : ~Undescribable(o.number, o.chars)
            /\ Shown({o.number : o \in options}) => payload.length = 0 \/ payload.plain
      /\ phase \notin BeforeSending => arrived = Whole

\* How much of the k-th value has come.
Came(k) ==
    LET o == pieces[k].option
    IN  IF o.number \in Texts /\ o.bytes = 0 THEN 3
        ELSE IF Place(k + 1) <= Left THEN o.bytes ELSE Left - (Place(k + 1) - o.bytes)

\* The loop stands behind the pieces it has read, or behind the payload.
Behind ==
    \/ pos = Place(next) /\ heard.payload = 0
    \/ /\ next = Len(pieces) + 1 /\ pos = Left /\ size + 1 < Left
       /\ heard.payload = Left - (size + 1)

ReaderOK ==
    Clean =>
      /\ phase # "stray"
      /\ phase \notin BeforeReading =>
            /\ next \in 1 .. Len(pieces) + 1
            /\ current = IF next = 1 THEN 0 ELSE pieces[next - 1].option.number
            /\ Behind
            /\ DOMAIN got = {k \in Registered : k < next}
            /\ \A k \in DOMAIN got : got[k] = [number |-> pieces[k].option.number,
                                               length |-> Came(k)]
            /\ \A k \in DOMAIN pieces : k < next =>
                  /\ pieces[k].at < Left
                  /\ Place(k + 1) - pieces[k].option.bytes <= Left
      /\ phase = "handed" => pos >= Left

IInv == TypeOK /\ OptionsOK /\ IdleOK /\ LayoutOK /\ SentOK /\ ReaderOK /\ OwnIsRead

-----------------------------------------------------------------------------
(* Types *)

LEMMA Fields ==
    ASSUME NEW n \in Nat
    PROVE  Nibble(n) \in 0 .. 14 /\ Width(Nibble(n)) \in 0 .. 2 /\ Heard(n) \in Nat
<1> DEFINE e == Extension(n)
           swapped == 256 * (e % 256) + e \div 256
<1>1. e \in Nat
  BY DEF Extension
<1>2. Nibble(n) \in 0 .. 14 /\ Width(Nibble(n)) \in 0 .. 2
  BY DEF Nibble, Width
<1>3. swapped \in Nat
  <2> HIDE DEF e
  <2> QED BY <1>1
<1>4. \A x \in Nat : Extended(Nibble(n), x) \in Nat
  BY <1>2 DEF Extended
<1>5. Heard(n) = Extended(Nibble(n), IF writer = "tcp" /\ Nibble(n) = 14 THEN swapped ELSE e)
  BY DEF Heard
<1> HIDE DEF swapped, e
<1> QED BY <1>1, <1>2, <1>3, <1>4, <1>5

\* The head has a byte at least.
LEMMA Places ==
    ASSUME NEW at \in Nat, NEW delta \in Nat, NEW length \in Nat
    PROVE  /\ Padding(at, Nibble(delta)) \in {0, 1}
           /\ LengthAt(at, delta) \in Nat /\ at < LengthAt(at, delta)
           /\ ValueAt(at, delta, length) \in Nat
           /\ LengthAt(at, delta) <= ValueAt(at, delta, length)
<1>1. \A a \in Nat, b \in Nat : Padding(a, Nibble(b)) \in {0, 1}
  BY DEF Padding
<1>2. Width(Nibble(delta)) \in 0 .. 2 /\ Width(Nibble(length)) \in 0 .. 2
  BY Fields
<1>3. LengthAt(at, delta) \in Nat /\ at < LengthAt(at, delta)
  BY <1>1, <1>2 DEF LengthAt
<1>4. LET here == LengthAt(at, delta)
      IN  ValueAt(at, delta, length) = here + Padding(here, Nibble(length)) + Width(Nibble(length))
  BY DEF ValueAt
<1> QED BY <1>1, <1>2, <1>3, <1>4

\* Writing the k-th piece, and what the places are.
LEMMA PieceTypes ==
    ASSUME TypeOK
    PROVE  /\ \A k \in DOMAIN pieces :
                 /\ pieces[k].option \in options
                 /\ pieces[k].delta \in Nat /\ pieces[k].at \in Nat
                 /\ pieces[k].option.number \in Nat /\ pieces[k].option.bytes \in Nat
                 /\ pieces[k].option.chars \in Nat
                 /\ Announced(pieces[k].option) \in Nat
           /\ DOMAIN pieces = 1 .. Len(pieces) /\ Len(pieces) \in Nat
           /\ \A n : Place(n) \in Nat
           /\ Header \in Nat /\ Trailer \in Nat /\ Whole = Header + size + Trailer
           /\ Left \in Nat /\ Left <= size + Trailer
<1>1. pieces \in Seq([option : options, delta : Nat, at : Nat])
  BY DEF TypeOK
<1>2. DOMAIN pieces = 1 .. Len(pieces) /\ Len(pieces) \in Nat
  BY <1>1
<1>3. ASSUME NEW k \in DOMAIN pieces
      PROVE  /\ pieces[k].option \in options
             /\ pieces[k].delta \in Nat /\ pieces[k].at \in Nat
             /\ pieces[k].option.number \in Nat /\ pieces[k].option.bytes \in Nat
             /\ pieces[k].option.chars \in Nat
             /\ Announced(pieces[k].option) \in Nat
  <2> DEFINE P == [option : options, delta : Nat, at : Nat]
  <2>1. pieces[k] \in P
    <3>1. pieces \in Seq(P)
      BY <1>1
    <3> HIDE DEF P
    <3> QED BY <3>1
  <2>2. pieces[k].option \in options /\ pieces[k].delta \in Nat /\ pieces[k].at \in Nat
    BY <2>1
  <2>3. pieces[k].option \in [number : Nat, chars : Nat, bytes : Nat, place : Nat]
    BY <2>2 DEF TypeOK
  <2> QED BY <2>2, <2>3 DEF Announced
<1>4. \A n : Place(n) \in Nat
  BY <1>3 DEF Place, TypeOK
<1>5. Header \in Nat /\ Trailer \in Nat
  <2>1. token \in Nat /\ payload.length \in Nat
    BY CodecAssumption DEF TypeOK
  <2> QED BY <2>1 DEF Header, Trailer
<1>6. Whole = Header + size + Trailer /\ size \in Nat /\ arrived \in 0 .. Whole
  BY DEF Whole, TypeOK
<1>7. Left \in Nat /\ Left <= size + Trailer
  BY <1>5, <1>6 DEF Left
<1> QED BY <1>2, <1>3, <1>4, <1>5, <1>6, <1>7

LEMMA InitTypes == Init => TypeOK
<1> SUFFICES ASSUME Init PROVE TypeOK
  OBVIOUS
<1>1. 0 \in 0 .. Whole
  <2>1. token \in Nat /\ payload.length \in Nat
    BY CodecAssumption DEF Init
  <2> QED BY <2>1 DEF Init, Whole, Header, Trailer
<1>2. \E K \in SUBSET (1 .. next - 1) : got \in [K -> [number : Nat, length : Nat]]
  <2>1. {} \in SUBSET (1 .. next - 1) /\ got \in [{} -> [number : Nat, length : Nat]]
    BY DEF Init
  <2> QED BY <2>1
<1> QED BY <1>1, <1>2 DEF Init, TypeOK

LEMMA WholeStays ==
    ASSUME UNCHANGED message, size' = size
    PROVE  Whole' = Whole /\ Header' = Header /\ Trailer' = Trailer
BY DEF message, Whole, Header, Trailer

\* The actions of the setters.
LEMMA SettingTypes ==
    ASSUME TypeOK, IdleOK, phase = "setting", phase' \in {"setting", "unsent", "writing"},
           options' \subseteq [number : Nat, chars : Nat, bytes : Nat, place : Nat],
           added' \in Nat, UNCHANGED <<writer, token, payload, written, reading>>
    PROVE  TypeOK'
<1>1. pieces = <<>> /\ pieces' = <<>> /\ size' = size /\ arrived' = arrived
  BY DEF IdleOK, BeforeWriting, written
<1>2. pieces' \in Seq([option : options', delta : Nat, at : Nat])
  BY <1>1
<1>3. Whole' = Whole
  BY <1>1 DEF Whole, Header, Trailer
<1>4. UNCHANGED <<pos, current, next, got, heard>>
  BY DEF reading
<1>5. \E K \in SUBSET (1 .. next' - 1) : got' \in [K -> [number : Nat, length : Nat]]
  BY <1>4 DEF TypeOK
<1> QED BY <1>1, <1>2, <1>3, <1>4, <1>5 DEF TypeOK

LEMMA SetTypes == ASSUME TypeOK, IdleOK, NEW v \in Candidates, Set(v) PROVE TypeOK'
<1>1. v \in Value
  BY CodecAssumption
<1>2. Placed(v, added) \in [number : Nat, chars : Nat, bytes : Nat, place : Nat]
  BY <1>1 DEF Placed, Value, TypeOK
<1>3. options' \subseteq [number : Nat, chars : Nat, bytes : Nat, place : Nat]
  <2>1. options' \subseteq options \cup {Placed(v, added)}
    BY DEF Set, Without
  <2> QED BY <1>2, <2>1 DEF TypeOK
<1>4. added' \in Nat
  BY DEF Set, TypeOK
<1>5. phase = "setting" /\ phase' = phase /\ UNCHANGED <<writer, token, payload, written, reading>>
  BY DEF Set
<1> QED BY <1>3, <1>4, <1>5, SettingTypes

LEMMA DeleteTypes == ASSUME TypeOK, IdleOK, NEW n, Delete(n) PROVE TypeOK'
<1>1. options' \subseteq [number : Nat, chars : Nat, bytes : Nat, place : Nat]
  BY DEF Delete, Without, TypeOK
<1>2. added' \in Nat
  BY DEF Delete, TypeOK
<1>3. phase = "setting" /\ phase' = phase /\ UNCHANGED <<writer, token, payload, written, reading>>
  BY DEF Delete
<1> QED BY <1>1, <1>2, <1>3, SettingTypes

LEMMA StartTypes == ASSUME TypeOK, IdleOK, Start PROVE TypeOK'
<1>1. phase = "setting" /\ phase' \in {"unsent", "writing"}
  BY DEF Start
<1>2. UNCHANGED <<writer, token, payload, options, added, written, reading>>
  BY DEF Start, message
<1>3. options' \subseteq [number : Nat, chars : Nat, bytes : Nat, place : Nat] /\ added' \in Nat
  BY <1>2 DEF TypeOK
<1> QED BY <1>1, <1>2, <1>3, SettingTypes

\* What the reader's actions leave as it is.
LEMMA ReadingTypes ==
    ASSUME TypeOK, UNCHANGED <<message, written>>, phase' \in {"reading"} \cup Outcomes,
           pos' \in Nat, current' \in Nat, next' \in Nat,
           heard' \in [token : Nat, payload : Nat],
           \E K \in SUBSET (1 .. next' - 1) : got' \in [K -> [number : Nat, length : Nat]]
    PROVE  TypeOK'
<1>1. UNCHANGED <<writer, token, payload, options, added, pieces, size, arrived>>
  BY DEF message, written
<1>2. Whole' = Whole
  BY <1>1, WholeStays
<1> QED BY <1>1, <1>2 DEF TypeOK

LEMMA GotStays ==
    ASSUME TypeOK, got' = got, next' = next
    PROVE  \E K \in SUBSET (1 .. next' - 1) : got' \in [K -> [number : Nat, length : Nat]]
BY DEF TypeOK

LEMMA DeltaType ==
    ASSUME TypeOK, LayoutOK, NEW o \in Unwritten
    PROVE  o.number - Last \in Nat
<1>1. o \in options /\ o.number \in Nat
  <2>1. o \in options
    BY DEF Unwritten
  <2>2. options \subseteq [number : Nat, chars : Nat, bytes : Nat, place : Nat]
    BY DEF TypeOK
  <2> QED BY <2>1, <2>2
<1>2. CASE pieces = <<>>
  BY <1>1, <1>2 DEF Last
<1>3. CASE pieces # <<>>
  <2>1. Len(pieces) \in DOMAIN pieces
    <3>1. Len(pieces) # 0
      BY <1>3 DEF TypeOK
    <3> QED BY <3>1, PieceTypes
  <2>2. Before(pieces[Len(pieces)].option, o)
    BY <2>1 DEF LayoutOK
  <2>3. Last = pieces[Len(pieces)].option.number
    BY <1>3 DEF Last
  <2>4. Last \in Nat
    BY <2>1, <2>3, PieceTypes
  <2> QED BY <1>1, <2>2, <2>3, <2>4 DEF Before
<1> QED BY <1>2, <1>3

LEMMA WriteTypes ==
    ASSUME TypeOK, IdleOK, LayoutOK, NEW o \in options, WriteOption(o)
    PROVE  TypeOK'
<1> DEFINE delta == o.number - Last
           piece == [option |-> o, delta |-> delta, at |-> size]
           P == [option : options, delta : Nat, at : Nat]
<1>1. delta \in Nat
  BY DeltaType DEF WriteOption
<1>2. o.chars \in Nat /\ o.bytes \in Nat /\ Announced(o) \in Nat /\ size \in Nat
  BY DEF TypeOK, Announced
<1>3. size' = ValueAt(size, delta, Announced(o)) + o.bytes /\ pieces' = Append(pieces, piece)
  BY DEF WriteOption
<1>4. UNCHANGED <<writer, token, payload, options, added, phase, arrived, pos, current, next,
                  got, heard>>
  BY DEF WriteOption, message, reading
<1>5. piece \in P
  BY <1>1, <1>2
<1>6. pieces \in Seq(P)
  BY DEF TypeOK
<1> HIDE DEF delta, piece
<1>7. size' \in Nat
  <2>1. ValueAt(size, delta, Announced(o)) \in Nat
    BY <1>1, <1>2, Places
  <2> QED BY <1>2, <1>3, <2>1
<1>8. pieces' \in Seq(P)
  <2> HIDE DEF P
  <2> QED BY <1>3, <1>5, <1>6
<1>9. arrived' \in 0 .. Whole'
  <2>1. arrived' = 0
    BY <1>4 DEF WriteOption, IdleOK, BeforeSending
  <2>2. token \in Nat /\ payload.length \in Nat
    BY CodecAssumption DEF TypeOK
  <2>3. Header \in Nat /\ Trailer \in Nat
    BY <2>2 DEF Header, Trailer
  <2>4. Whole' = Header + size' + Trailer
    BY <1>4 DEF Whole, Header, Trailer
  <2>5. \A a, b, c \in Nat : a + b + c \in Nat
    OBVIOUS
  <2>6. Whole' \in Nat
    BY <1>7, <2>3, <2>4, <2>5, Zenon
  <2> QED BY <2>1, <2>6
<1>10. \E K \in SUBSET (1 .. next' - 1) : got' \in [K -> [number : Nat, length : Nat]]
  BY <1>4 DEF TypeOK
<1> QED BY <1>4, <1>7, <1>8, <1>9, <1>10 DEF TypeOK

LEMMA SendTypes == ASSUME TypeOK, NEW n \in 0 .. Whole, Send(n) PROVE TypeOK'
<1>1. UNCHANGED <<writer, token, payload, options, added, pieces, size, pos, current, next,
                  got, heard>> /\ UNCHANGED message
  BY DEF Send, message, reading
<1>2. Whole' = Whole
  BY <1>1, WholeStays
<1>3. \E K \in SUBSET (1 .. next' - 1) : got' \in [K -> [number : Nat, length : Nat]]
  BY <1>1 DEF TypeOK
<1> QED BY <1>1, <1>2, <1>3 DEF TypeOK, Send

LEMMA ReadHeaderTypes == ASSUME TypeOK, ReadHeader PROVE TypeOK'
<1>1. UNCHANGED <<message, written, pos, current, next, got>>
  BY DEF ReadHeader
<1>2. phase' \in {"reading"} \cup Outcomes
  BY DEF ReadHeader, Outcomes
<1>3. heard' \in [token : Nat, payload : Nat]
  <2>1. heard \in [token : Nat, payload : Nat] /\ token \in Nat /\ arrived \in Int
    <3>1. Whole \in Int
      BY PieceTypes DEF TypeOK
    <3> QED BY <3>1, CodecAssumption DEF TypeOK
  <2>2. CASE writer # "tcp" /\ arrived < 4
    BY <2>1, <2>2 DEF ReadHeader
  <2>3. CASE ~(writer # "tcp" /\ arrived < 4)
    <3> DEFINE t == IF writer = "tcp" THEN token
                    ELSE IF token = 0 THEN 8
                    ELSE IF arrived < 4 + token THEN arrived - 4 ELSE token
    <3>1. t \in Nat
      BY <2>1, <2>3
    <3>2. heard' = [heard EXCEPT !.token = t]
      BY <2>3 DEF ReadHeader
    <3> HIDE DEF t
    <3> QED BY <2>1, <3>1, <3>2
  <2> QED BY <2>2, <2>3
<1>4. pos' \in Nat /\ current' \in Nat /\ next' \in Nat
  BY <1>1 DEF TypeOK
<1> QED BY <1>1, <1>2, <1>3, <1>4, GotStays, ReadingTypes

LEMMA StopTypes ==
    ASSUME TypeOK, UNCHANGED <<message, written, reading>>, phase' \in Outcomes
    PROVE  TypeOK'
<1>1. UNCHANGED <<pos, current, next, got, heard>>
  BY DEF reading
<1>2. pos' \in Nat /\ current' \in Nat /\ next' \in Nat /\ heard' \in [token : Nat, payload : Nat]
  BY <1>1 DEF TypeOK
<1> QED BY <1>1, <1>2, GotStays, ReadingTypes

\* What a readable head says.
LEMMA ReadableTypes ==
    ASSUME TypeOK, Readable
    PROVE  /\ next \in DOMAIN pieces /\ next \in Nat \ {0} /\ pos = pieces[next].at
           /\ phase = "reading"
           /\ Number \in Nat /\ Length \in Nat /\ ValueHere \in Nat
           /\ ValueHere <= Left /\ Left \in Nat
           /\ Piece.option \in options /\ Piece.option.bytes \in Nat
<1>1. next \in DOMAIN pieces /\ pos = pieces[next].at /\ phase = "reading"
  BY DEF Readable, Here
<1>2. next \in Nat \ {0}
  BY <1>1, PieceTypes
<1> DEFINE delta == Piece.delta
           length == Announced(Piece.option)
<1>3. delta \in Nat /\ length \in Nat /\ pos \in Nat /\ current \in Nat
      /\ Piece.option \in options /\ Piece.option.bytes \in Nat
  BY <1>1, PieceTypes DEF Piece, TypeOK
<1>4. Padding(LengthHere, Nibble(length)) = 0 /\ LengthHere + Width(Nibble(length)) <= Left
  <2>1. LengthHere \in Nat /\ Left \in Nat /\ Width(Nibble(length)) \in 0 .. 2
    <3>1. LengthHere = LengthAt(pos, delta)
      BY DEF LengthHere
    <3> QED BY <1>3, <3>1, Places, PieceTypes, Fields
  <2>2. ~Missing(LengthHere, Nibble(length)) /\ ~Padded
    BY DEF Readable
  <2>3. Padding(LengthHere, Nibble(length)) = 0
    BY <2>2 DEF Padded
  <2> QED BY <2>1, <2>2, <2>3 DEF Missing
<1>5. ValueHere = LengthHere + Padding(LengthHere, Nibble(length)) + Width(Nibble(length))
  BY DEF ValueHere, ValueAt, LengthHere
<1>6. LengthHere \in Nat /\ Width(Nibble(length)) \in 0 .. 2 /\ Left \in Nat
  <2>1. LengthHere = LengthAt(pos, delta)
    BY DEF LengthHere
  <2> QED BY <1>3, <2>1, Places, PieceTypes, Fields
<1>7. Number \in Nat /\ Length \in Nat
  <2>1. Heard(delta) \in Nat /\ Heard(length) \in Nat
    BY <1>3, Fields
  <2> QED BY <1>3, <2>1 DEF Number, Length
<1> HIDE DEF length, delta
<1> QED BY <1>1, <1>2, <1>3, <1>4, <1>5, <1>6, <1>7

LEMMA UnknownTypes == ASSUME TypeOK, UnknownOption PROVE TypeOK'
<1>1. UNCHANGED <<message, written, got, heard>> /\ Readable /\ heard' \in [token : Nat, payload : Nat]
  BY DEF UnknownOption, TypeOK
<1>2. Number \in Nat /\ Length \in Nat /\ ValueHere \in Nat /\ next \in Nat \ {0}
      /\ phase = "reading"
  BY <1>1, ReadableTypes
<1>3. CASE phase' = "bad" /\ UNCHANGED <<pos, current, next>>
  <2>1. UNCHANGED reading
    BY <1>1, <1>3 DEF reading
  <2>2. phase' \in Outcomes
    BY <1>3 DEF Outcomes
  <2> QED BY <1>1, <2>1, <2>2, StopTypes
<1>4. CASE Forward /\ phase' = phase
  <2>1. pos' \in Nat /\ current' \in Nat /\ next' = next + 1 /\ next' \in Nat
    BY <1>2, <1>4 DEF Forward
  <2>2. PICK K \in SUBSET (1 .. next - 1) : got \in [K -> [number : Nat, length : Nat]]
    BY DEF TypeOK
  <2>3. K \in SUBSET (1 .. next' - 1)
    BY <1>2, <2>1, <2>2
  <2>4. got' \in [K -> [number : Nat, length : Nat]]
    BY <1>1, <2>2
  <2>5. phase' \in {"reading"}
    BY <1>2, <1>4
  <2> QED BY <1>1, <2>1, <2>3, <2>4, <2>5, ReadingTypes
<1> QED BY <1>3, <1>4 DEF UnknownOption

LEMMA KnownTypes == ASSUME TypeOK, KnownOption PROVE TypeOK'
<1>1. UNCHANGED <<message, written, heard>> /\ Readable /\ heard' \in [token : Nat, payload : Nat]
  BY DEF KnownOption, TypeOK
<1>2. Number \in Nat /\ Length \in Nat /\ ValueHere \in Nat /\ next \in Nat \ {0}
      /\ ValueHere <= Left /\ Left \in Nat /\ phase = "reading"
  BY <1>1, ReadableTypes
<1>3. CASE UNCHANGED <<pos, current, next, got>> /\ phase' \in {"raised", "bad"}
  <2>1. UNCHANGED reading
    BY <1>1, <1>3 DEF reading
  <2>2. phase' \in Outcomes
    BY <1>3 DEF Outcomes
  <2> QED BY <1>1, <2>1, <2>2, StopTypes
<1>4. CASE /\ Forward /\ phase' = phase
           /\ got' = [k \in DOMAIN got \cup {next} |->
                        IF k = next THEN [number |-> Number, length |-> Kept] ELSE got[k]]
  <2>1. pos' \in Nat /\ current' \in Nat /\ next' = next + 1
    BY <1>2, <1>4 DEF Forward
  <2>2. PICK K \in SUBSET (1 .. next - 1) : got \in [K -> [number : Nat, length : Nat]]
    BY DEF TypeOK
  <2>3. Kept \in Nat
    BY <1>2 DEF Kept, Available
  <2>4. K \cup {next} \in SUBSET (1 .. next' - 1)
    BY <1>2, <2>1, <2>2
  <2>5. got' \in [K \cup {next} -> [number : Nat, length : Nat]]
    BY <1>2, <1>4, <2>2, <2>3
  <2>6. phase' \in {"reading"}
    BY <1>2, <1>4
  <2> QED BY <1>1, <2>1, <1>2, <2>4, <2>5, <2>6, ReadingTypes
<1> QED BY <1>3, <1>4 DEF KnownOption

LEMMA ReadPayloadTypes == ASSUME TypeOK, ReadPayload PROVE TypeOK'
<1>1. UNCHANGED <<message, written, current, next, got>> /\ AtMarker
  BY DEF ReadPayload
<1>2. pos \in Nat /\ Left \in Nat /\ heard \in [token : Nat, payload : Nat] /\ phase = "reading"
  BY <1>1, PieceTypes DEF TypeOK, AtMarker
<1>3. pos' \in Nat /\ phase' \in {"reading"} \cup Outcomes
      /\ heard' \in [token : Nat, payload : Nat]
  <2>1. CASE Left <= pos + 1
    BY <1>2, <2>1 DEF ReadPayload, Outcomes
  <2>2. CASE ~(Left <= pos + 1)
    <3>1. Left - (pos + 1) \in Nat
      BY <1>2, <2>2
    <3>2. pos' = Left /\ phase' = phase /\ heard' = [heard EXCEPT !.payload = Left - (pos + 1)]
      BY <2>2 DEF ReadPayload
    <3> QED BY <1>2, <3>1, <3>2
  <2> QED BY <2>1, <2>2
<1>4. current' \in Nat /\ next' \in Nat
  BY <1>1 DEF TypeOK
<1> QED BY <1>1, <1>3, <1>4, GotStays, ReadingTypes

LEMMA TypeStep == ASSUME TypeOK, IdleOK, LayoutOK, [Next]_vars PROVE TypeOK'
<1>1. CASE UNCHANGED vars
  BY <1>1 DEF vars, message, written, reading, TypeOK, Whole, Header, Trailer
<1>2. ASSUME NEW v \in Candidates, Set(v) PROVE TypeOK'
  BY <1>2, SetTypes
<1>3. ASSUME NEW v \in Candidates, Delete(v.number) PROVE TypeOK'
  BY <1>3, DeleteTypes
<1>4. CASE Start
  BY <1>4, StartTypes
<1>5. ASSUME NEW o \in options, WriteOption(o) PROVE TypeOK'
  BY <1>5, WriteTypes
<1>6. ASSUME NEW n \in 0 .. Whole, Send(n) PROVE TypeOK'
  BY <1>6, SendTypes
<1>7. CASE ReadHeader
  BY <1>7, ReadHeaderTypes
<1>8. CASE HeadIsCut
  <2>1. phase' \in Outcomes
    BY <1>8 DEF HeadIsCut, Fault, Outcomes
  <2> QED BY <1>8, <2>1, StopTypes DEF HeadIsCut
<1>9. CASE UnknownOption
  BY <1>9, UnknownTypes
<1>10. CASE KnownOption
  BY <1>10, KnownTypes
<1>11. CASE ReadPayload
  BY <1>11, ReadPayloadTypes
<1>12. CASE Stray \/ Describe
  <2>1. phase' \in Outcomes /\ UNCHANGED <<message, written, reading>>
    BY <1>12 DEF Stray, Describe, Outcomes
  <2> QED BY <2>1, StopTypes
<1> QED BY <1>1, <1>2, <1>3, <1>4, <1>5, <1>6, <1>7, <1>8, <1>9, <1>10, <1>11, <1>12 DEF Next

-----------------------------------------------------------------------------
(* The invariant before reading *)

\* What the actions of the loop leave as it is.
LEMMA ReaderFrame ==
    ASSUME ReadHeader \/ HeadIsCut \/ UnknownOption \/ KnownOption \/ ReadPayload
           \/ Stray \/ Describe
    PROVE  /\ UNCHANGED <<message, written>> /\ phase \notin BeforeSending
           /\ phase' \notin BeforeReading
           /\ UNCHANGED <<writer, token, payload, options, added, pieces, size, arrived>>
<1>1. UNCHANGED <<message, written>> /\ phase \in {"received", "reading"}
  BY DEF ReadHeader, HeadIsCut, UnknownOption, KnownOption, ReadPayload, Stray, Describe,
         Readable, Here, AtMarker
<1>2. phase' \in {"reading"} \cup Outcomes
  <2>1. CASE ReadHeader \/ ReadPayload \/ Stray \/ Describe
    BY <2>1 DEF ReadHeader, ReadPayload, Stray, Describe, Outcomes, AtMarker
  <2>2. CASE HeadIsCut
    BY <2>2 DEF HeadIsCut, Fault, Outcomes
  <2>3. CASE UnknownOption
    BY <2>3 DEF UnknownOption, Readable, Here, Outcomes
  <2>4. CASE KnownOption
    BY <2>4 DEF KnownOption, Readable, Here, Outcomes
  <2> QED BY <2>1, <2>2, <2>3, <2>4
<1>3. UNCHANGED <<writer, token, payload, options, added, pieces, size, arrived>>
  BY <1>1 DEF message, written
<1> QED BY <1>1, <1>2, <1>3 DEF BeforeSending, BeforeReading, BeforeWriting, Outcomes

LEMMA OptionsStep == ASSUME TypeOK, OptionsOK, [Next]_vars PROVE OptionsOK'
<1>1. CASE UNCHANGED <<options, writer>>
  BY <1>1 DEF OptionsOK, Own
<1>2. ASSUME NEW v \in Candidates, Set(v) PROVE OptionsOK'
  <2> DEFINE new == Placed(v, added)
  <2>1. writer' = writer /\ Own' = Own
    BY <1>2 DEF Set, Own
  <2>2. /\ new.number = v.number /\ new.chars = v.chars /\ new.bytes = v.bytes
        /\ v.number <= 65535 /\ v.bytes <= 65804
        /\ v.chars <= v.bytes /\ (v.chars = 0 <=> v.bytes = 0)
        /\ v.number \notin Texts => v.chars = v.bytes
    BY CodecAssumption DEF Placed
  <2>3. CASE Own /\ v.number \in Replaced
    <3>1. options' = Without(options, v.number) \cup {new}
      BY <1>2, <2>3 DEF Set
    <3>2. v.number \in Known
      BY <2>3 DEF Replaced, Known, Numbers, Texts
    <3>3. \A o \in options' : o = new \/ (o \in options /\ o.number # v.number)
      BY <3>1 DEF Without
    <3> HIDE DEF new
    <3> QED BY <2>1, <2>2, <3>2, <3>3 DEF OptionsOK
  <2>4. CASE ~(Own /\ v.number \in Replaced)
    <3>1. options' = options \cup {new} /\ (Own => v.number \in Known /\ Room(v.number))
      BY <1>2, <2>4 DEF Set
    <3>2. \A o \in options' : o = new \/ o \in options
      BY <3>1
    <3> HIDE DEF new
    <3> QED BY <2>1, <2>2, <3>1, <3>2 DEF OptionsOK, Room
  <2> QED BY <2>3, <2>4
<1>3. ASSUME NEW v \in Candidates, Delete(v.number) PROVE OptionsOK'
  <2>1. options' \subseteq options /\ Own' = Own
    BY <1>3 DEF Delete, Without, Own
  <2> QED BY <2>1 DEF OptionsOK
<1>4. CASE UNCHANGED vars \/ Start \/ (\E o \in options : WriteOption(o))
           \/ (\E n \in 0 .. Whole : Send(n))
  <2>1. UNCHANGED message
    BY <1>4 DEF vars, Start, WriteOption, Send
  <2> QED BY <1>1, <2>1 DEF message
<1>5. CASE ReadHeader \/ HeadIsCut \/ UnknownOption \/ KnownOption \/ ReadPayload
           \/ Stray \/ Describe
  BY <1>1, <1>5, ReaderFrame
<1> QED BY <1>2, <1>3, <1>4, <1>5 DEF Next

LEMMA IdleStep == ASSUME IdleOK, [Next]_vars PROVE IdleOK'
<1> USE DEF BeforeReading, BeforeSending, BeforeWriting
<1>1. CASE UNCHANGED vars
  BY <1>1 DEF vars, written, reading, IdleOK
<1>2. CASE \E v \in Candidates : Set(v) \/ Delete(v.number)
  <2>1. phase = "setting" /\ phase' = phase /\ UNCHANGED <<written, reading>>
    BY <1>2 DEF Set, Delete
  <2> QED BY <2>1 DEF IdleOK, written, reading
<1>3. CASE Start
  <2>1. phase = "setting" /\ phase' \in {"unsent", "writing"} /\ UNCHANGED <<written, reading>>
    BY <1>3 DEF Start
  <2> QED BY <2>1 DEF IdleOK, written, reading
<1>4. CASE \E o \in options : WriteOption(o)
  <2>1. phase = "writing" /\ phase' = phase /\ arrived' = arrived /\ UNCHANGED reading
    BY <1>4 DEF WriteOption
  <2> QED BY <2>1 DEF IdleOK, reading
<1>5. CASE \E n \in 0 .. Whole : Send(n)
  <2>1. phase = "writing" /\ phase' = "received" /\ UNCHANGED reading
    BY <1>5 DEF Send
  <2> QED BY <2>1 DEF IdleOK, reading
<1>6. CASE ReadHeader \/ HeadIsCut \/ UnknownOption \/ KnownOption \/ ReadPayload
           \/ Stray \/ Describe
  <2>1. phase' \notin BeforeReading
    BY <1>6, ReaderFrame
  <2> QED BY <2>1 DEF IdleOK
<1> QED BY <1>1, <1>2, <1>3, <1>4, <1>5, <1>6 DEF Next

LEMMA SentStep == ASSUME TypeOK, SentOK, [Next]_vars PROVE SentOK'
<1> USE DEF BeforeSending, BeforeWriting
<1>1. CASE UNCHANGED vars
  BY <1>1 DEF vars, message, written, SentOK, Own, Whole, Header, Trailer
<1>2. CASE \E v \in Candidates : Set(v) \/ Delete(v.number)
  BY <1>2 DEF Set, Delete, SentOK
<1>3. CASE Start
  <2>1. UNCHANGED <<writer, payload, options>> /\ payload.length \in Nat
        /\ phase' \in {"unsent", "writing"}
    BY <1>3, CodecAssumption DEF Start, message, TypeOK
  <2> QED BY <1>3, <2>1 DEF Start, SentOK, Own
<1>4. CASE \E o \in options : WriteOption(o)
  <2>1. UNCHANGED <<writer, payload, options, phase>> /\ phase = "writing"
    BY <1>4 DEF WriteOption, message
  <2> QED BY <2>1 DEF SentOK, Own
<1>5. ASSUME NEW n \in 0 .. Whole, Send(n) PROVE SentOK'
  <2>1. UNCHANGED <<writer, payload, options>> /\ phase = "writing" /\ UNCHANGED message
        /\ size' = size
    BY <1>5 DEF Send, message
  <2>2. Whole' = Whole
    BY <2>1, WholeStays
  <2>3. Own => arrived' = Whole
    BY <1>5 DEF Send
  <2> QED BY <2>1, <2>2, <2>3 DEF SentOK, Own
<1>6. CASE ReadHeader \/ HeadIsCut \/ UnknownOption \/ KnownOption \/ ReadPayload
           \/ Stray \/ Describe
  <2>1. /\ UNCHANGED message /\ phase \notin BeforeSending
        /\ UNCHANGED <<writer, payload, options, size, arrived>>
    BY <1>6, ReaderFrame
  <2>2. Whole' = Whole
    BY <2>1, WholeStays
  <2> QED BY <2>1, <2>2 DEF SentOK, Own
<1> QED BY <1>1, <1>2, <1>3, <1>4, <1>5, <1>6 DEF Next

\* A step that leaves what is written as it is.
LEMMA LayoutStays ==
    ASSUME LayoutOK, UNCHANGED <<writer, pieces, size, options>>,
           phase' \notin BeforeSending => phase \notin BeforeSending \/ Unwritten = {}
    PROVE  LayoutOK'
<1>1. \A n : Place(n)' = Place(n)
  BY DEF Place
<1>2. \A at, delta, length : ValueAt(at, delta, length)' = ValueAt(at, delta, length)
  BY DEF ValueAt, LengthAt, Padding
<1>3. \A o : Announced(o)' = Announced(o)
  BY DEF Announced, Own
<1>4. Unwritten' = Unwritten
  BY DEF Unwritten
<1> QED BY <1>1, <1>2, <1>3, <1>4 DEF LayoutOK

\* Nothing is written yet.
LEMMA LayoutEmpty ==
    ASSUME pieces' = <<>>, size' = 0, phase' \in BeforeSending
    PROVE  LayoutOK'
<1>1. DOMAIN pieces' = {}
  OBVIOUS
<1>2. Place(1)' = 0
  BY <1>1 DEF Place
<1> QED BY <1>1, <1>2 DEF LayoutOK

LEMMA LayoutWrite ==
    ASSUME TypeOK, LayoutOK, NEW o \in options, WriteOption(o), TypeOK'
    PROVE  LayoutOK'
<1> DEFINE piece == [option |-> o, delta |-> o.number - Last, at |-> size]
           value == ValueAt(size, o.number - Last, Announced(o))
<1>0. PICK n \in Nat : n = Len(pieces)
  BY PieceTypes
<1>1. pieces' = Append(pieces, piece) /\ phase' = phase /\ phase = "writing"
      /\ UNCHANGED <<writer, options>> /\ o \in Unwritten
      /\ size' = value + o.bytes
  BY DEF WriteOption, message
<1>2. DOMAIN pieces = 1 .. n /\ DOMAIN pieces' = 1 .. n + 1
      /\ pieces'[n + 1] = piece /\ \A k \in 1 .. n : pieces'[k] = pieces[k]
  <2> DEFINE P == [option : options, delta : Nat, at : Nat]
  <2>1. pieces \in Seq(P)
    BY DEF TypeOK
  <2> HIDE DEF P, piece
  <2> QED BY <1>0, <1>1, <2>1
<1>3. size \in Nat /\ size' \in Nat /\ size <= size'
  <2>1. o.number - Last \in Nat /\ o.bytes \in Nat /\ Announced(o) \in Nat
    BY <1>1, DeltaType DEF TypeOK, Announced
  <2>2. size \in Nat
    BY DEF TypeOK
  <2>3. value \in Nat /\ \E here \in Nat : size < here /\ here <= value
    BY <2>1, <2>2, Places
  <2> HIDE DEF value
  <2> QED BY <1>1, <2>1, <2>2, <2>3
<1>11. pieces'[n + 1].option = o /\ pieces'[n + 1].delta = o.number - Last
       /\ pieces'[n + 1].at = size
  BY <1>2
<1> HIDE DEF piece
<1>4. \A k \in 1 .. n + 1 : Place(k)' = Place(k)
  <2>1. ASSUME NEW k \in 1 .. n PROVE Place(k)' = Place(k)
    BY <1>2, <2>1 DEF Place
  <2>2. ASSUME NEW k, k = n + 1 PROVE Place(k)' = Place(k)
    <3>1. k \in DOMAIN pieces' /\ k \notin DOMAIN pieces
      BY <1>2, <2>2
    <3> QED BY <1>11, <2>2, <3>1 DEF Place
  <2> QED BY <2>1, <2>2
<1>5. Place(n + 2)' = size' /\ Place(n + 1) = size
  <2>1. n + 2 \notin DOMAIN pieces' /\ n + 1 \notin DOMAIN pieces
    BY <1>2
  <2> QED BY <2>1 DEF Place
<1>6. \A at, delta, length : ValueAt(at, delta, length)' = ValueAt(at, delta, length)
  BY <1>1 DEF ValueAt, LengthAt, Padding
<1>7. \A p : Announced(p)' = Announced(p)
  BY <1>1 DEF Announced, Own
<1>8. Last = IF n = 0 THEN 0 ELSE pieces[n].option.number
  BY <1>0, <1>2 DEF Last, TypeOK
<1>9. Unwritten' = Unwritten \ {o}
  <2>1. ASSUME NEW p \in options
        PROVE  (\A k \in DOMAIN pieces' : pieces'[k].option # p)
               <=> (\A k \in DOMAIN pieces : pieces[k].option # p) /\ p # o
    BY <1>2, <1>11
  <2> QED BY <1>1, <2>1 DEF Unwritten
<1>10. \A p \in Unwritten' : Before(o, p)
  BY <1>9 DEF WriteOption
<1>12. Place(1)' = 0
  BY <1>2, <1>4 DEF LayoutOK
<1>13. ASSUME NEW k \in DOMAIN pieces'
       PROVE  /\ pieces'[k].delta = pieces'[k].option.number
                               - (IF k = 1 THEN 0 ELSE pieces'[k - 1].option.number)
              /\ (Place(k + 1) = ValueAt(pieces[k].at, pieces[k].delta,
                                    Announced(pieces[k].option)) + pieces[k].option.bytes)'
              /\ Place(k + 1)' <= size'
  <2>1. CASE k \in 1 .. n
    <3>1. /\ pieces[k].delta = pieces[k].option.number
                               - (IF k = 1 THEN 0 ELSE pieces[k - 1].option.number)
          /\ Place(k + 1) = ValueAt(pieces[k].at, pieces[k].delta,
                                    Announced(pieces[k].option)) + pieces[k].option.bytes
          /\ Place(k + 1) <= size
      BY <1>2, <2>1 DEF LayoutOK
    <3>2. pieces'[k] = pieces[k] /\ (k # 1 => pieces'[k - 1] = pieces[k - 1])
      BY <1>2, <2>1
    <3>3. k + 1 \in 1 .. n + 1
      BY <1>2, <2>1
    <3>4. Place(k + 1)' = Place(k + 1) /\ Place(k + 1) \in Nat
      BY <1>4, <3>3, PieceTypes
    <3> QED BY <1>3, <1>6, <1>7, <3>1, <3>2, <3>4
  <2>2. CASE k = n + 1
    <3>1. k # 1 => pieces'[k - 1] = pieces[n] /\ n # 0
      BY <1>2, <2>2
    <3>2. k + 1 = n + 2 /\ (k = 1 <=> n = 0)
      BY <1>2, <2>2
    <3>3. Place(k + 1)' = size'
      BY <1>5, <3>2
    <3> QED BY <1>1, <1>3, <1>6, <1>7, <1>8, <1>11, <2>2, <3>1, <3>2, <3>3
  <2> QED BY <1>2, <2>1, <2>2
<1>14. ASSUME NEW j \in DOMAIN pieces', NEW k \in DOMAIN pieces', j < k
       PROVE  /\ Before(pieces'[j].option, pieces'[k].option)
              /\ Place(j + 1)' <= pieces'[k].at
  <2>1. j \in 1 .. n /\ pieces'[j] = pieces[j] /\ j + 1 \in 1 .. n + 1
    BY <1>2, <1>14
  <2>2. Place(j + 1)' = Place(j + 1)
    BY <1>4, <2>1
  <2>3. CASE k \in 1 .. n
    <3>1. pieces'[k] = pieces[k]
      BY <1>2, <2>3
    <3> QED BY <1>2, <1>14, <2>1, <2>2, <2>3, <3>1 DEF LayoutOK
  <2>4. CASE k = n + 1
    <3>1. Before(pieces[j].option, o) /\ Place(j + 1) <= size
      BY <1>1, <1>2, <2>1 DEF LayoutOK
    <3> QED BY <1>11, <2>1, <2>2, <2>4, <3>1
  <2> QED BY <1>2, <2>3, <2>4
<1>15. ASSUME NEW p \in Unwritten', NEW k \in DOMAIN pieces' PROVE Before(pieces'[k].option, p)
  <2>1. CASE k \in 1 .. n
    BY <1>2, <1>9, <2>1 DEF LayoutOK
  <2>2. CASE k = n + 1
    BY <1>10, <1>11, <2>2
  <2> QED BY <1>2, <2>1, <2>2
<1>16. phase' \in BeforeSending
  BY <1>1 DEF BeforeSending
<1> QED BY <1>12, <1>13, <1>14, <1>15, <1>16 DEF LayoutOK, Before

LEMMA LayoutStep ==
    ASSUME TypeOK, IdleOK, LayoutOK, [Next]_vars, TypeOK'
    PROVE  LayoutOK'
<1>1. CASE UNCHANGED vars
  BY <1>1, LayoutStays DEF vars, message, written
<1>2. CASE \E v \in Candidates : Set(v) \/ Delete(v.number)
  <2>1. phase = "setting" /\ phase' = phase /\ UNCHANGED written
    BY <1>2 DEF Set, Delete
  <2>2. pieces' = <<>> /\ size' = 0 /\ phase' \in BeforeSending
    BY <2>1 DEF IdleOK, written, BeforeWriting, BeforeSending
  <2> QED BY <2>2, LayoutEmpty
<1>3. CASE Start
  <2>1. phase = "setting" /\ phase' \in {"unsent", "writing"} /\ UNCHANGED written
    BY <1>3 DEF Start
  <2>2. pieces' = <<>> /\ size' = 0 /\ phase' \in BeforeSending
    BY <2>1 DEF IdleOK, written, BeforeWriting, BeforeSending
  <2> QED BY <2>2, LayoutEmpty
<1>4. CASE \E o \in options : WriteOption(o)
  BY <1>4, LayoutWrite
<1>5. CASE \E n \in 0 .. Whole : Send(n)
  <2>1. UNCHANGED <<writer, pieces, size, options>> /\ Unwritten = {}
    BY <1>5 DEF Send, message
  <2> QED BY <2>1, LayoutStays
<1>6. CASE ReadHeader \/ HeadIsCut \/ UnknownOption \/ KnownOption \/ ReadPayload
           \/ Stray \/ Describe
  BY <1>6, ReaderFrame, LayoutStays
<1> QED BY <1>1, <1>2, <1>3, <1>4, <1>5, <1>6 DEF Next

-----------------------------------------------------------------------------
(* Reading *)

\* In a clean message every head says what it should, and needs no padding.
LEMMA CleanPiece ==
    ASSUME TypeOK, OptionsOK, LayoutOK, Clean, NEW k \in DOMAIN pieces
    PROVE  /\ Announced(pieces[k].option) = pieces[k].option.bytes
           /\ Heard(pieces[k].delta) = pieces[k].delta
           /\ Heard(pieces[k].option.bytes) = pieces[k].option.bytes
           /\ \A at : Padding(at, Nibble(pieces[k].delta)) = 0
           /\ \A at : Padding(at, Nibble(pieces[k].option.bytes)) = 0
<1> DEFINE o == pieces[k].option
<1>1. o \in options /\ pieces[k].delta \in Nat /\ o.number \in Nat /\ o.bytes \in Nat
      /\ o.chars \in Nat
  BY PieceTypes
<1>2. o.number <= 65535 /\ o.bytes <= 65804
  BY <1>1 DEF OptionsOK
<1>3. Announced(o) = o.bytes
  BY <1>1 DEF Announced, Clean
<1>4. pieces[k].delta <= 65535
  <2>1. pieces[k].delta = o.number - (IF k = 1 THEN 0 ELSE pieces[k - 1].option.number)
    BY DEF LayoutOK
  <2>2. k # 1 => k - 1 \in DOMAIN pieces
    BY PieceTypes
  <2>3. k # 1 => pieces[k - 1].option.number \in Nat
    BY <2>2, PieceTypes
  <2> QED BY <1>1, <1>2, <2>1, <2>3
<1>5. writer = "tcp" => o.chars = o.bytes
  BY <1>1 DEF Clean, Own
<1>6. writer = "tcp" => Nibble(pieces[k].delta) < 14 /\ Nibble(o.bytes) < 14
  BY <1>5 DEF Clean
<1>7. Nibble(pieces[k].delta) \in 0 .. 14 /\ Nibble(o.bytes) \in 0 .. 14
  BY <1>1, Fields
<1>8. \A at : Padding(at, Nibble(pieces[k].delta)) = 0 /\ Padding(at, Nibble(o.bytes)) = 0
  BY <1>6, <1>7 DEF Padding
<1>9. Heard(pieces[k].delta) = pieces[k].delta
  BY <1>1, <1>4, <1>6, HeadsAgree
<1>10. Heard(o.bytes) = o.bytes
  BY <1>1, <1>2, <1>6, HeadsAgree
<1> QED BY <1>3, <1>8, <1>9, <1>10

\* While it is behind the pieces, the loop of a clean message is at the head of the
\* next one, and reads that one's number and length.
LEMMA AtPiece ==
    ASSUME TypeOK, OptionsOK, LayoutOK, ReaderOK, Clean, phase = "reading", pos < Left
    PROVE  /\ pos = Place(next) /\ heard.payload = 0 /\ next \in 1 .. Len(pieces) + 1
           /\ next \in DOMAIN pieces =>
                /\ Here /\ ~Padded /\ pos = pieces[next].at
                /\ Number = Piece.option.number /\ Length = Piece.option.bytes
                /\ Announced(Piece.option) = Piece.option.bytes
                /\ Place(next + 1) = ValueHere + Piece.option.bytes
                /\ Place(next + 1) <= size /\ ValueHere \in Nat
<1>1. next \in 1 .. Len(pieces) + 1 /\ Behind
      /\ current = IF next = 1 THEN 0 ELSE pieces[next - 1].option.number
  BY DEF ReaderOK, BeforeReading, BeforeSending, BeforeWriting
<1>2. pos \in Nat /\ Left \in Nat
  BY PieceTypes DEF TypeOK
<1>3. pos = Place(next) /\ heard.payload = 0
  BY <1>1, <1>2 DEF Behind
<1>4. ASSUME next \in DOMAIN pieces
      PROVE  /\ Here /\ ~Padded /\ pos = pieces[next].at
             /\ Number = Piece.option.number /\ Length = Piece.option.bytes
             /\ Announced(Piece.option) = Piece.option.bytes
             /\ Place(next + 1) = ValueHere + Piece.option.bytes
             /\ Place(next + 1) <= size /\ ValueHere \in Nat
  <2>1. pos = pieces[next].at
    BY <1>3, <1>4 DEF Place
  <2>2. Here
    BY <1>4, <2>1 DEF Here
  <2>3. /\ Announced(Piece.option) = Piece.option.bytes
        /\ Heard(Piece.delta) = Piece.delta
        /\ Heard(Piece.option.bytes) = Piece.option.bytes
        /\ \A at : Padding(at, Nibble(Piece.delta)) = 0
        /\ \A at : Padding(at, Nibble(Piece.option.bytes)) = 0
    BY <1>4, CleanPiece DEF Piece
  <2>4. ~Padded
    BY <2>3 DEF Padded
  <2>5. Length = Piece.option.bytes
    BY <2>3 DEF Length
  <2>6. Piece.delta = Piece.option.number
                      - (IF next = 1 THEN 0 ELSE pieces[next - 1].option.number)
    BY <1>4 DEF LayoutOK, Piece
  <2>7. Number = current + Piece.delta
    BY <2>3 DEF Number
  <2>8. Piece.option.number \in Nat /\ Piece.delta \in Nat /\ Piece.option.bytes \in Nat
        /\ current \in Nat
    BY <1>4, PieceTypes DEF Piece, TypeOK
  <2>9. Number = Piece.option.number
    BY <1>1, <2>6, <2>7, <2>8
  <2>10. Place(next + 1) = ValueHere + Piece.option.bytes /\ Place(next + 1) <= size
    BY <1>4, <2>1 DEF LayoutOK, ValueHere, Piece
  <2>11. ValueHere \in Nat
    BY <1>2, <2>3, <2>8, Places DEF ValueHere
  <2> QED BY <2>1, <2>2, <2>3, <2>4, <2>5, <2>9, <2>10, <2>11
<1> QED BY <1>1, <1>3, <1>4

\* Behind the last piece of a clean message is the marker, if anything is.
LEMMA AtEnd ==
    ASSUME TypeOK, OptionsOK, LayoutOK, ReaderOK, Clean, phase = "reading", pos < Left,
           next \notin DOMAIN pieces
    PROVE  AtMarker /\ next = Len(pieces) + 1 /\ pos = size
<1>1. pos = Place(next) /\ next \in 1 .. Len(pieces) + 1
  BY AtPiece
<1>2. next = Len(pieces) + 1
  BY <1>1, PieceTypes
<1>3. pos = size
  BY <1>1 DEF Place
<1>4. payload.length > 0
  <2>1. payload.length \in Nat
    BY CodecAssumption DEF TypeOK
  <2>2. Left <= size + Trailer /\ Left \in Nat /\ size \in Nat /\ Trailer \in Nat
    BY PieceTypes DEF TypeOK
  <2>3. Trailer # 0
    BY <1>3, <2>2
  <2> QED BY <2>1, <2>3 DEF Trailer
<1> QED BY <1>2, <1>3, <1>4 DEF AtMarker

LEMMA FrameStays ==
    ASSUME UNCHANGED <<message, written>>
    PROVE  /\ Clean' = Clean /\ Left' = Left /\ Registered' = Registered
           /\ \A n : Place(n)' = Place(n)
           /\ UNCHANGED <<writer, token, payload, options, pieces, size, arrived>>
           /\ Own' = Own /\ Whole' = Whole
<1>1. UNCHANGED <<writer, token, payload, options, pieces, size, arrived>>
  BY DEF message, written
<1>2. Clean' = Clean
  BY <1>1 DEF Clean, Own
<1>3. Left' = Left
  BY <1>1 DEF Left, Header
<1>4. Registered' = Registered
  BY <1>1 DEF Registered
<1>5. \A n : Place(n)' = Place(n)
  BY <1>1 DEF Place
<1>6. Own' = Own /\ Whole' = Whole
  BY <1>1 DEF Own, Whole, Header, Trailer
<1> QED BY <1>1, <1>2, <1>3, <1>4, <1>5, <1>6

LEMMA CameStays ==
    ASSUME UNCHANGED <<message, written>>, NEW k
    PROVE  Came(k)' = Came(k)
BY FrameStays DEF Came

\* Reading is over.
LEMMA ReaderStops ==
    ASSUME ReaderOK, phase = "reading", UNCHANGED <<message, written, reading>>,
           phase' # "stray", phase' = "handed" => pos >= Left
    PROVE  ReaderOK'
<1>1. UNCHANGED <<pos, current, next, got, heard>>
  BY DEF reading
<1>2. phase \notin BeforeReading
  BY DEF BeforeReading, BeforeSending, BeforeWriting
<1>3. Behind' <=> Behind
  BY <1>1, FrameStays DEF Behind
<1>4. \A k : Came(k)' = Came(k)
  BY CameStays
<1> QED BY <1>1, <1>2, <1>3, <1>4, FrameStays DEF ReaderOK

\* The loop goes on behind a piece.
LEMMA ReaderGoesOn ==
    ASSUME TypeOK, OptionsOK, LayoutOK, ReaderOK, Readable, Forward, phase' = phase,
           UNCHANGED <<message, written, heard>>,
           Clean => \/ Number \notin Known /\ got' = got
                    \/ /\ Number \in Known
                       /\ got' = [k \in DOMAIN got \cup {next} |->
                             IF k = next THEN [number |-> Number, length |-> Kept] ELSE got[k]]
    PROVE  ReaderOK'
<1> SUFFICES ASSUME Clean
             PROVE  ReaderOK'
  BY FrameStays DEF ReaderOK
<1>1. phase = "reading" /\ pos < Left /\ next \in DOMAIN pieces
  BY DEF Readable, Here
<1>2. phase \notin BeforeReading
  BY <1>1 DEF BeforeReading, BeforeSending, BeforeWriting
<1>3. /\ pos = Place(next) /\ heard.payload = 0 /\ next \in 1 .. Len(pieces) + 1
      /\ pos = pieces[next].at
      /\ Number = Piece.option.number /\ Length = Piece.option.bytes
      /\ Place(next + 1) = ValueHere + Piece.option.bytes
  BY <1>1, AtPiece
<1>4. ValueHere \in Nat /\ ValueHere <= Left /\ Left \in Nat /\ Piece.option.bytes \in Nat
  BY ReadableTypes
<1>5. pos' = Place(next + 1) /\ next' = next + 1 /\ current' = pieces[next].option.number
  BY <1>3 DEF Forward, Piece
<1>6. next' \in 1 .. Len(pieces) + 1 /\ next' # 1 /\ next' - 1 = next
      /\ Len(pieces) \in Nat /\ DOMAIN pieces = 1 .. Len(pieces)
  <2>1. Len(pieces) \in Nat /\ DOMAIN pieces = 1 .. Len(pieces) /\ next' = next + 1
    BY <1>5, PieceTypes
  <2>2. next \in 1 .. Len(pieces)
    BY <1>1, <2>1
  <2> QED BY <2>1, <2>2
<1>7. (pos = Place(next))' /\ heard'.payload = 0
  <2>1. \A n : n = next + 1 => Place(n)' = Place(n)
    BY FrameStays
  <2>2. Place(next)' = IF next' \in DOMAIN pieces' THEN pieces'[next'].at ELSE size'
    BY DEF Place
  <2>3. Place(next + 1) = IF next + 1 \in DOMAIN pieces THEN pieces[next + 1].at ELSE size
    BY DEF Place
  <2>4. Place(next)' = Place(next + 1)
    BY <1>5, <2>2, <2>3, FrameStays
  <2> QED BY <1>3, <1>5, <2>4
<1>8. /\ DOMAIN got = {k \in Registered : k < next}
      /\ \A k \in DOMAIN got : got[k] = [number |-> pieces[k].option.number, length |-> Came(k)]
      /\ \A k \in DOMAIN pieces : k < next =>
            pieces[k].at < Left /\ Place(k + 1) - pieces[k].option.bytes <= Left
  BY <1>2 DEF ReaderOK
<1>9. \A k \in DOMAIN pieces : k < next' =>
            pieces[k].at < Left /\ Place(k + 1) - pieces[k].option.bytes <= Left
  <2>1. pieces[next].at < Left /\ Place(next + 1) - pieces[next].option.bytes <= Left
    <3>1. Place(next + 1) - pieces[next].option.bytes = ValueHere
      BY <1>3, <1>4 DEF Piece
    <3> QED BY <1>1, <1>3, <1>4, <3>1
  <2> QED BY <1>5, <1>6, <1>8, <2>1
<1>10. /\ DOMAIN got' = {k \in Registered : k < next'}
       /\ \A k \in DOMAIN got' : got'[k] = [number |-> pieces[k].option.number,
                                            length |-> Came(k)]
  <2>1. CASE Number \notin Known /\ got' = got
    <3>1. next \notin Registered
      BY <1>3, <2>1 DEF Registered, Piece
    <3>2. {k \in Registered : k < next'} = {k \in Registered : k < next}
      BY <1>5, <1>6, <3>1 DEF Registered
    <3> QED BY <1>8, <2>1, <3>2
  <2>2. CASE /\ Number \in Known
             /\ got' = [k \in DOMAIN got \cup {next} |->
                           IF k = next THEN [number |-> Number, length |-> Kept] ELSE got[k]]
    <3>1. next \in Registered
      BY <1>1, <1>3, <2>2 DEF Registered, Piece
    <3>2. {k \in Registered : k < next'} = {k \in Registered : k < next} \cup {next}
      BY <1>5, <1>6, <3>1 DEF Registered
    <3>3. Kept = Came(next)
      <4>1. Available(Length) = IF Place(next + 1) <= Left THEN Piece.option.bytes
                                ELSE Left - (Place(next + 1) - Piece.option.bytes)
        BY <1>3, <1>4 DEF Available
      <4> QED BY <1>3, <4>1 DEF Kept, Came, Piece
    <3>4. DOMAIN got' = DOMAIN got \cup {next}
      BY <2>2
    <3>5. got'[next] = [number |-> pieces[next].option.number, length |-> Came(next)]
      BY <1>3, <2>2, <3>3 DEF Piece
    <3>6. ASSUME NEW k \in DOMAIN got
          PROVE  got'[k] = [number |-> pieces[k].option.number, length |-> Came(k)]
      <4>1. k # next
        BY <1>6, <1>8 DEF Registered
      <4> QED BY <1>8, <2>2, <4>1
    <3> QED BY <1>8, <3>2, <3>4, <3>5, <3>6
  <2> QED BY <2>1, <2>2
<1>11. \A k : Came(k)' = Came(k)
  BY CameStays
<1> QED BY <1>1, <1>2, <1>5, <1>6, <1>7, <1>9, <1>10, <1>11, FrameStays DEF ReaderOK, Behind

LEMMA ReaderStep ==
    ASSUME TypeOK, OptionsOK, IdleOK, LayoutOK, ReaderOK, [Next]_vars
    PROVE  ReaderOK'
<1>1. CASE UNCHANGED vars
  <2>1. UNCHANGED <<message, written>> /\ UNCHANGED <<pos, current, next, got, heard, phase>>
    BY <1>1 DEF vars, reading
  <2>2. Behind' <=> Behind
    BY <2>1, FrameStays DEF Behind
  <2>3. \A k : Came(k)' = Came(k)
    BY <2>1, CameStays
  <2> QED BY <2>1, <2>2, <2>3, FrameStays DEF ReaderOK
<1>2. CASE phase' \in BeforeReading
  BY <1>2 DEF ReaderOK, BeforeReading, BeforeSending, BeforeWriting
<1>3. CASE \/ \E v \in Candidates : Set(v) \/ Delete(v.number)
           \/ Start \/ (\E o \in options : WriteOption(o)) \/ (\E n \in 0 .. Whole : Send(n))
  <2>1. phase' \in BeforeReading
    BY <1>3 DEF Set, Delete, Start, WriteOption, Send, BeforeReading, BeforeSending,
                BeforeWriting
  <2> QED BY <1>2, <2>1
<1>4. CASE ReadHeader
  <2>1. /\ UNCHANGED <<message, written>> /\ UNCHANGED <<pos, current, next, got>>
        /\ phase = "received" /\ phase' \in {"bad", "reading"}
    BY <1>4 DEF ReadHeader
  <2>2. heard'.payload = heard.payload
    BY <1>4 DEF ReadHeader, TypeOK
  <2>3. pos = 0 /\ current = 0 /\ next = 1 /\ DOMAIN got = {} /\ heard.payload = 0
    BY <2>1 DEF IdleOK, BeforeReading
  <2>4. (pos = Place(next))'
    <3>1. Place(1)' = Place(1) /\ Place(1) = 0
      BY <2>1, FrameStays DEF LayoutOK
    <3>2. Place(next)' = Place(1)'
      BY <2>1, <2>3 DEF Place
    <3> QED BY <2>1, <2>3, <3>1, <3>2
  <2>5. {k \in Registered : k < next} = {} /\ next \in 1 .. Len(pieces) + 1
        /\ \A k \in DOMAIN pieces : ~(k < next)
    BY <2>3, PieceTypes DEF Registered
  <2> QED BY <2>1, <2>2, <2>3, <2>4, <2>5, FrameStays DEF ReaderOK, Behind
<1>5. CASE HeadIsCut
  <2>1. phase' \in {"raised", "bad"} /\ phase = "reading" /\ UNCHANGED <<message, written, reading>>
    BY <1>5 DEF HeadIsCut, Fault, Here
  <2> QED BY <2>1, ReaderStops
<1>6. CASE UnknownOption
  <2>1. UNCHANGED <<message, written, got, heard>> /\ Readable /\ Number \notin Known
        /\ phase = "reading"
    BY <1>6 DEF UnknownOption, Readable, Here
  <2>2. CASE phase' = "bad" /\ UNCHANGED <<pos, current, next>>
    BY <2>1, <2>2, ReaderStops DEF reading
  <2>3. CASE Forward /\ phase' = phase
    BY <2>1, <2>3, ReaderGoesOn
  <2> QED BY <1>6, <2>2, <2>3 DEF UnknownOption
<1>7. CASE KnownOption
  <2>1. UNCHANGED <<message, written, heard>> /\ Readable /\ Number \in Known
        /\ phase = "reading"
    BY <1>7 DEF KnownOption, Readable, Here
  <2>2. CASE phase' \in {"raised", "bad"} /\ UNCHANGED <<pos, current, next, got>>
    BY <2>1, <2>2, ReaderStops DEF reading
  <2>3. CASE /\ Forward /\ phase' = phase
             /\ got' = [k \in DOMAIN got \cup {next} |->
                           IF k = next THEN [number |-> Number, length |-> Kept] ELSE got[k]]
    BY <2>1, <2>3, ReaderGoesOn
  <2> QED BY <1>7, <2>2, <2>3 DEF KnownOption
<1>8. CASE ReadPayload
  <2>1. UNCHANGED <<message, written, current, next, got>> /\ phase = "reading"
        /\ next = Len(pieces) + 1 /\ pos = size
    BY <1>8 DEF ReadPayload, AtMarker
  <2>2. CASE Left <= pos + 1
    BY <1>8, <2>1, <2>2, ReaderStops DEF ReadPayload, reading
  <2>3. CASE ~(Left <= pos + 1)
    <3>1. pos' = Left /\ phase' = phase /\ heard'.payload = Left - (pos + 1)
      BY <1>8, <2>3 DEF ReadPayload, TypeOK
    <3>2. pos \in Nat /\ Left \in Nat /\ size + 1 < Left
      BY <2>1, <2>3, PieceTypes DEF TypeOK
    <3>3. Behind'
      BY <2>1, <3>1, <3>2, FrameStays DEF Behind
    <3>4. \A k : Came(k)' = Came(k)
      BY <2>1, CameStays
    <3>5. phase \notin BeforeReading /\ phase' # "handed" /\ phase' # "stray"
      BY <2>1, <3>1 DEF BeforeReading, BeforeSending, BeforeWriting
    <3> QED BY <2>1, <3>3, <3>4, <3>5, FrameStays DEF ReaderOK
  <2> QED BY <2>2, <2>3
<1>9. CASE Stray
  <2>1. UNCHANGED <<message, written>> /\ phase = "reading" /\ pos < Left
        /\ ((Here /\ Padded) \/ (~Here /\ ~AtMarker))
    BY <1>9 DEF Stray
  <2>2. ASSUME Clean PROVE FALSE
    <3>1. CASE next \in DOMAIN pieces
      <4>1. Here /\ ~Padded
        BY <2>1, <2>2, <3>1, AtPiece
      <4> QED BY <2>1, <4>1
    <3>2. CASE next \notin DOMAIN pieces
      <4>1. AtMarker
        BY <2>1, <2>2, <3>2, AtEnd
      <4>2. ~Here
        BY <3>2 DEF Here
      <4> QED BY <2>1, <4>1, <4>2
    <3> QED BY <3>1, <3>2
  <2> QED BY <2>1, <2>2, FrameStays DEF ReaderOK
<1>10. CASE Describe
  <2>1. UNCHANGED <<message, written, reading>> /\ phase = "reading" /\ pos >= Left
        /\ phase' \in {"handed", "dropped"}
    BY <1>10 DEF Describe
  <2> QED BY <2>1, ReaderStops
<1> QED BY <1>1, <1>3, <1>4, <1>5, <1>6, <1>7, <1>8, <1>9, <1>10 DEF Next

\* All that was written is there.
LEMMA WholeIsLeft ==
    ASSUME TypeOK, arrived = Whole
    PROVE  Left = size + Trailer /\ size \in Nat /\ Trailer \in Nat
BY PieceTypes DEF Left, TypeOK

\* A head of this side is never cut: the value behind it ends in what has come.
LEMMA OwnHead ==
    ASSUME IInv, Own, Clean, phase = "reading", pos < Left, next \in DOMAIN pieces
    PROVE  /\ ~Missing(pos + 1, Nibble(Piece.delta))
           /\ ~Missing(LengthHere, Nibble(Announced(Piece.option)))
<1> USE DEF IInv
<1>1. /\ Announced(Piece.option) = Piece.option.bytes
      /\ Place(next + 1) = ValueHere + Piece.option.bytes
      /\ Place(next + 1) <= size /\ ValueHere \in Nat
  BY AtPiece
<1>2. Left = size + Trailer /\ size \in Nat /\ Trailer \in Nat
  BY WholeIsLeft DEF SentOK, BeforeSending, BeforeWriting
<1>3. Piece.delta \in Nat /\ Piece.option.bytes \in Nat /\ pos \in Nat
  BY PieceTypes DEF Piece, TypeOK
<1>4. \A at : Padding(at, Nibble(Piece.delta)) = 0 /\ Padding(at, Nibble(Piece.option.bytes)) = 0
  BY CleanPiece DEF Piece
<1>5. LengthHere = pos + 1 + Width(Nibble(Piece.delta))
  <2>1. LengthHere = pos + 1 + 0 + Width(Nibble(Piece.delta))
    BY <1>4 DEF LengthHere, LengthAt
  <2> QED BY <1>3, <2>1, Fields
<1>6. ValueHere = LengthHere + Width(Nibble(Piece.option.bytes))
  <2>1. ValueHere = LengthHere + 0 + Width(Nibble(Piece.option.bytes))
    BY <1>1, <1>4 DEF ValueHere, ValueAt, LengthHere
  <2>2. LengthHere \in Nat
    BY <1>3, Places DEF LengthHere
  <2> QED BY <1>3, <2>1, <2>2, Fields
<1>7. Width(Nibble(Piece.delta)) \in 0 .. 2 /\ Width(Nibble(Piece.option.bytes)) \in 0 .. 2
  BY <1>3, Fields
<1> HIDE DEF IInv
<1>8. ValueHere <= Left
  BY <1>1, <1>2, <1>3
<1>9. LengthHere \in Nat /\ LengthHere <= Left
  BY <1>2, <1>3, <1>5, <1>6, <1>7, <1>8
<1>10. pos + 1 + Width(Nibble(Piece.delta)) <= Left
  BY <1>5, <1>9
<1>11. LengthHere + Width(Nibble(Announced(Piece.option))) <= Left
  BY <1>1, <1>6, <1>8
<1>12. ~(pos + 1 + Width(Nibble(Piece.delta)) > Left)
  BY <1>2, <1>3, <1>7, <1>10
<1>13. ~(LengthHere + Width(Nibble(Announced(Piece.option))) > Left)
  BY <1>1, <1>2, <1>7, <1>9, <1>11
<1> QED BY <1>12, <1>13 DEF Missing

\* The options of this side: known, and none twice that may not be.
LEMMA OwnPiece ==
    ASSUME IInv, Own, NEW k \in DOMAIN pieces
    PROVE  /\ pieces[k].option.number \in Known
           /\ \A j \in DOMAIN pieces :
                 /\ pieces[j].option.number = pieces[k].option.number
                 /\ pieces[k].option.number \notin Repeatable
                 => j = k
<1> USE DEF IInv
<1>1. \A j \in DOMAIN pieces : pieces[j].option \in options
  BY PieceTypes
<1>2. \A j \in DOMAIN pieces : pieces[j].option.number \in Nat /\ j \in Nat
  BY PieceTypes
<1>3. pieces[k].option.number \in Known
  BY <1>1 DEF OptionsOK
<1>4. ASSUME NEW j \in DOMAIN pieces, pieces[j].option = pieces[k].option
      PROVE  j = k
  <2>1. \A o : o \in options => o.place \in Nat /\ o.number \in Nat
    BY DEF TypeOK
  <2>2. ~(j < k)
    BY <1>1, <1>4, <2>1 DEF LayoutOK, Before
  <2>3. ~(k < j)
    BY <1>1, <1>4, <2>1 DEF LayoutOK, Before
  <2> QED BY <1>2, <2>2, <2>3
<1> QED BY <1>1, <1>3, <1>4 DEF OptionsOK

\* Once the payload of this side has been read, so has every option.
LEMMA OwnPayload ==
    ASSUME IInv, Own, Clean, phase = "reading", heard.payload > 0
    PROVE  /\ heard.payload = payload.length
           /\ {got[k].number : k \in DOMAIN got} = {o.number : o \in options}
<1> USE DEF IInv
<1>0. phase \notin BeforeReading /\ phase \notin BeforeSending /\ phase \notin BeforeWriting
  BY DEF BeforeReading, BeforeSending, BeforeWriting
<1>1. /\ next = Len(pieces) + 1 /\ pos = Left /\ size + 1 < Left
      /\ heard.payload = Left - (size + 1)
  <2>1. Behind
    BY <1>0 DEF ReaderOK
  <2>2. ~(heard.payload = 0)
    OBVIOUS
  <2> QED BY <2>1, <2>2 DEF Behind
<1>2. Left = size + Trailer /\ size \in Nat /\ Trailer \in Nat
  BY <1>0, WholeIsLeft DEF SentOK
<1>3. payload.length \in Nat
  BY CodecAssumption DEF TypeOK
<1>4. heard.payload = payload.length
  <2>1. Trailer # 0
    BY <1>1, <1>2
  <2>2. Trailer = 1 + payload.length
    BY <2>1 DEF Trailer
  <2> QED BY <1>1, <1>2, <1>3, <2>2
<1>5. Registered = DOMAIN pieces
  BY OwnPiece DEF Registered
<1>6. DOMAIN got = DOMAIN pieces
  <2>1. \A k \in DOMAIN pieces : k < next
    BY <1>1, PieceTypes
  <2>2. DOMAIN got = {k \in Registered : k < next}
    BY <1>0 DEF ReaderOK
  <2> QED BY <1>5, <2>1, <2>2
<1>7. \A k \in DOMAIN pieces : got[k].number = pieces[k].option.number
  BY <1>0, <1>6 DEF ReaderOK
<1>8. \A o \in options : \E k \in DOMAIN pieces : pieces[k].option = o
  BY <1>0 DEF LayoutOK, Unwritten
<1>9. \A k \in DOMAIN pieces : pieces[k].option \in options
  BY PieceTypes
<1>10. {got[k].number : k \in DOMAIN got} = {o.number : o \in options}
  BY <1>6, <1>7, <1>8, <1>9
<1> QED BY <1>4, <1>10

LEMMA OwnStep == ASSUME IInv, [Next]_vars PROVE OwnIsRead'
<1> USE DEF IInv
<1> SUFFICES ASSUME Own', Clean', phase' \in {"bad", "raised", "dropped"} PROVE FALSE
  BY DEF OwnIsRead
<1>1. CASE UNCHANGED vars
  BY <1>1, FrameStays DEF vars, OwnIsRead
<1>2. CASE \/ \E v \in Candidates : Set(v) \/ Delete(v.number)
           \/ Start \/ (\E o \in options : WriteOption(o)) \/ (\E n \in 0 .. Whole : Send(n))
  BY <1>2 DEF Set, Delete, Start, WriteOption, Send
<1>3. CASE ReadHeader \/ HeadIsCut \/ UnknownOption \/ KnownOption \/ ReadPayload
           \/ Stray \/ Describe
  <2>1. UNCHANGED <<message, written>> /\ phase \notin BeforeSending
    BY <1>3, ReaderFrame
  <2>2. Own /\ Clean
    BY <2>1, FrameStays
  <2>3. Left = size + Trailer /\ size \in Nat /\ Trailer \in Nat
    BY <2>1, <2>2, WholeIsLeft DEF SentOK
  <2>4. CASE ReadHeader
    <3>1. writer # "tcp" /\ arrived < 4
      BY <2>4 DEF ReadHeader
    <3>2. arrived = 4 + token + size + Trailer
      BY <2>1, <2>2, <3>1 DEF SentOK, Whole, Header
    <3>3. token \in Nat
      BY CodecAssumption DEF TypeOK
    <3> QED BY <2>3, <3>1, <3>2, <3>3
  <2>5. CASE HeadIsCut
    <3>1. phase = "reading" /\ pos < Left /\ next \in DOMAIN pieces
      BY <2>5 DEF HeadIsCut, Here
    <3> QED BY <2>2, <2>5, <3>1, OwnHead DEF HeadIsCut
  <2>6. ASSUME Readable
        PROVE  /\ Number = pieces[next].option.number /\ Number \in Known
               /\ next \in DOMAIN pieces
    <3>1. phase = "reading" /\ pos < Left /\ next \in DOMAIN pieces
      BY <2>6 DEF Readable, Here
    <3>2. Number = pieces[next].option.number
      BY <2>2, <3>1, AtPiece DEF Piece
    <3> QED BY <2>2, <3>1, <3>2, OwnPiece
  <2>7. CASE UnknownOption
    BY <2>6, <2>7 DEF UnknownOption
  <2>8. CASE KnownOption
    <3>1. Readable /\ phase = "reading"
      BY <2>8 DEF KnownOption, Readable, Here
    <3>2. ~Torn
      <4>1. Piece.option \in options /\ Piece.option.bytes \in Nat
        BY <3>1, ReadableTypes
      <4>2. Piece.option.chars = Piece.option.bytes
        BY <2>2, <4>1 DEF Clean
      <4> QED BY <4>1, <4>2 DEF Torn
    <3>3. ~Repeats
      <4> SUFFICES ASSUME NEW k \in DOMAIN got, got[k].number = Number,
                          Number \notin Repeatable
                   PROVE  FALSE
        BY DEF Repeats
      <4>1. phase \notin BeforeReading
        BY <3>1 DEF BeforeReading, BeforeSending, BeforeWriting
      <4>2. k \in DOMAIN pieces /\ k < next /\ pieces[k].option.number = Number
        BY <2>2, <4>1 DEF ReaderOK, Registered
      <4>3. k = next
        BY <2>2, <2>6, <3>1, <4>2, OwnPiece
      <4> QED BY <3>1, <4>2, <4>3, ReadableTypes
    <3> QED BY <2>8, <3>1, <3>2, <3>3 DEF KnownOption
  <2>9. CASE ReadPayload
    <3>1. AtMarker /\ phase = "reading" /\ pos = size /\ payload.length > 0
      BY <2>9 DEF ReadPayload, AtMarker
    <3>2. Left <= pos + 1
      BY <2>9, <3>1 DEF ReadPayload
    <3>3. payload.length \in Nat
      BY CodecAssumption DEF TypeOK
    <3>4. Trailer = 1 + payload.length
      BY <3>1, <3>3 DEF Trailer
    <3> QED BY <2>3, <3>1, <3>2, <3>3, <3>4
  <2>10. CASE Stray
    BY <2>10 DEF Stray
  <2>11. CASE Describe
    <3>1. phase = "reading"
      BY <2>11 DEF Describe
    <3>2. phase \notin BeforeReading /\ phase \notin BeforeWriting
      BY <3>1 DEF BeforeReading, BeforeSending, BeforeWriting
    <3>3. ASSUME NEW k \in DOMAIN got PROVE ~Undescribable(got[k].number, got[k].length)
      <4> DEFINE o == pieces[k].option
      <4>1. k \in DOMAIN pieces /\ got[k].number = o.number /\ got[k].length = Came(k)
        BY <2>2, <3>2 DEF ReaderOK, Registered
      <4>2. o \in options /\ Place(k + 1) <= size /\ o.bytes \in Nat /\ o.chars = o.bytes
        BY <2>2, <4>1, PieceTypes DEF Clean, LayoutOK
      <4>3. Place(k + 1) <= Left
        BY <2>3, <4>2, PieceTypes
      <4>4. Came(k) = 3 \/ Came(k) = o.bytes
        BY <4>3 DEF Came
      <4>5. ~Undescribable(o.number, o.chars)
        BY <2>2, <3>2, <4>2 DEF SentOK
      <4> QED BY <4>1, <4>2, <4>4, <4>5 DEF Undescribable
    <3>4. ~MayFail
      <4> SUFFICES ASSUME Shown({got[k].number : k \in DOMAIN got}), heard.payload > 0
                   PROVE  ~(~payload.plain \/ heard.payload < payload.length)
        BY DEF MayFail
      <4>1. heard.payload = payload.length
            /\ {got[k].number : k \in DOMAIN got} = {o.number : o \in options}
        BY <2>2, <3>1, OwnPayload
      <4>2. Shown({o.number : o \in options}) => payload.length = 0 \/ payload.plain
        BY <2>2, <3>2 DEF SentOK
      <4>3. payload.length \in Nat
        BY CodecAssumption DEF TypeOK
      <4>4. Shown({o.number : o \in options})
        BY <4>1
      <4>5. payload.length # 0 /\ ~(heard.payload < payload.length)
        BY <4>1, <4>3
      <4>6. payload.plain
        BY <4>2, <4>4, <4>5
      <4> HIDE DEF IInv
      <4> QED BY <4>5, <4>6
    <3> QED BY <2>11, <3>3, <3>4 DEF Describe
  <2> QED BY <1>3, <2>4, <2>5, <2>7, <2>8, <2>9, <2>10, <2>11
<1> QED BY <1>1, <1>2, <1>3 DEF Next

-----------------------------------------------------------------------------
(* The theorems *)

LEMMA InitInvariant == Init => IInv
<1> SUFFICES ASSUME Init PROVE IInv
  OBVIOUS
<1> USE DEF Init
<1>1. TypeOK
  BY InitTypes
<1>2. DOMAIN pieces = {} /\ Place(1) = 0
  BY DEF Place
<1>3. DOMAIN got = {}
  OBVIOUS
<1>4. LayoutOK
  BY <1>2 DEF LayoutOK, BeforeSending, BeforeWriting
<1> QED BY <1>1, <1>3, <1>4 DEF IInv, OptionsOK, IdleOK, SentOK, ReaderOK, OwnIsRead,
          BeforeReading, BeforeSending, BeforeWriting

LEMMA NextInvariant == IInv /\ [Next]_vars => IInv'
<1> SUFFICES ASSUME IInv, [Next]_vars PROVE IInv'
  OBVIOUS
<1>1. TypeOK /\ OptionsOK /\ IdleOK /\ LayoutOK /\ SentOK /\ ReaderOK
  BY DEF IInv
<1>2. TypeOK'
  BY <1>1, TypeStep
<1>3. OptionsOK' /\ IdleOK' /\ SentOK'
  BY <1>1, OptionsStep, IdleStep, SentStep
<1>4. LayoutOK'
  BY <1>1, <1>2, LayoutStep
<1>5. ReaderOK'
  BY <1>1, ReaderStep
<1>6. OwnIsRead'
  BY OwnStep
<1> QED BY <1>2, <1>3, <1>4, <1>5, <1>6 DEF IInv

\* What has come whole and is handed on is what was set.
LEMMA InvariantGivesRoundTrip == IInv => RoundTrip
<1> SUFFICES ASSUME IInv, Clean PROVE RoundTrip
  BY DEF RoundTrip
<1> USE DEF IInv
<1>1. phase # "stray"
  BY DEF ReaderOK
<1>2. ASSUME phase = "handed", arrived = Whole
      PROVE  /\ {pieces[k].option : k \in DOMAIN pieces} = options
             /\ \A j, k \in DOMAIN pieces : j < k =>
                  Before(pieces[j].option, pieces[k].option)
             /\ got = [k \in Registered |-> Meant(k)]
             /\ heard.payload = payload.length
  <2>1. phase \notin BeforeReading /\ phase \notin BeforeSending
    BY <1>2 DEF BeforeReading, BeforeSending, BeforeWriting
  <2>2. Left = size + Trailer /\ size \in Nat /\ Trailer \in Nat
    BY <1>2, WholeIsLeft
  <2>3. pos >= Left /\ Behind /\ next \in 1 .. Len(pieces) + 1
    BY <1>2, <2>1 DEF ReaderOK
  <2>4. payload.length \in Nat /\ pos \in Nat
    BY CodecAssumption DEF TypeOK
  <2>5. next = Len(pieces) + 1
    <3> SUFFICES ASSUME next # Len(pieces) + 1 PROVE FALSE
      OBVIOUS
    <3>1. next \in DOMAIN pieces /\ pos = Place(next)
      BY <2>3, PieceTypes DEF Behind
    <3>2. pos = pieces[next].at
      BY <3>1 DEF Place
    <3> DEFINE value == ValueAt(pos, pieces[next].delta, Announced(pieces[next].option))
    <3>3. Place(next + 1) = value + pieces[next].option.bytes /\ Place(next + 1) <= size
      BY <3>1, <3>2 DEF LayoutOK
    <3>4. pieces[next].delta \in Nat /\ Announced(pieces[next].option) \in Nat
          /\ pieces[next].option.bytes \in Nat
      BY <3>1, PieceTypes
    <3>5. value \in Nat /\ \E here \in Nat : pos < here /\ here <= value
      BY <2>4, <3>4, Places
    <3> HIDE DEF value
    <3> QED BY <2>2, <2>3, <2>4, <3>3, <3>4, <3>5
  <2>6. heard.payload = payload.length
    <3>1. Place(next) = size
      BY <2>5, PieceTypes DEF Place
    <3>2. CASE pos = Place(next) /\ heard.payload = 0
      <4>1. Trailer = 0
        BY <2>2, <2>3, <3>1, <3>2
      <4>2. payload.length = 0
        BY <2>4, <4>1 DEF Trailer
      <4> QED BY <3>2, <4>2
    <3>3. CASE size + 1 < Left /\ heard.payload = Left - (size + 1)
      <4>1. Trailer # 0
        BY <2>2, <3>3
      <4>2. Trailer = 1 + payload.length
        BY <4>1 DEF Trailer
      <4> QED BY <2>2, <2>4, <3>3, <4>2
    <3> QED BY <2>3, <3>2, <3>3 DEF Behind
  <2>7. \A k \in DOMAIN pieces : k < next
    BY <2>5, PieceTypes
  <2>8. DOMAIN got = Registered
    BY <2>1, <2>7 DEF ReaderOK, Registered
  <2>9. ASSUME NEW k \in DOMAIN got PROVE got[k] = Meant(k)
    <3>1. k \in DOMAIN pieces
      BY <2>8 DEF Registered
    <3>2. got[k] = [number |-> pieces[k].option.number, length |-> Came(k)]
      BY <2>1 DEF ReaderOK
    <3>3. Place(k + 1) <= Left
      BY <2>2, <3>1, PieceTypes DEF LayoutOK
    <3> QED BY <3>2, <3>3 DEF Came, Meant
  <2>10. got = [k \in DOMAIN got |-> got[k]]
    BY DEF TypeOK
  <2>11. \A o \in options : \E k \in DOMAIN pieces : pieces[k].option = o
    BY <2>1 DEF LayoutOK, Unwritten
  <2>12. \A k \in DOMAIN pieces : pieces[k].option \in options
    BY PieceTypes
  <2>13. {pieces[k].option : k \in DOMAIN pieces} = options
    BY <2>11, <2>12
  <2>14. \A j, k \in DOMAIN pieces : j < k => Before(pieces[j].option, pieces[k].option)
    BY DEF LayoutOK
  <2> HIDE DEF IInv
  <2> QED BY <2>6, <2>8, <2>9, <2>10, <2>13, <2>14
<1> HIDE DEF IInv
<1> QED BY <1>1, <1>2 DEF RoundTrip, Before

\* What is handed on is as much as has come.
LEMMA InvariantGivesPrefix == IInv => CutReadsAPrefix
<1> SUFFICES ASSUME IInv, Clean, phase = "handed" PROVE CutReadsAPrefix
  BY DEF CutReadsAPrefix
<1> USE DEF IInv
<1>1. phase \notin BeforeReading
  BY DEF BeforeReading, BeforeSending, BeforeWriting
<1>2. /\ DOMAIN got = {k \in Registered : k < next}
      /\ \A k \in DOMAIN pieces : k < next => pieces[k].at < Left
      /\ \A k \in DOMAIN pieces : k < next => Place(k + 1) - pieces[k].option.bytes <= Left
      /\ pos >= Left /\ Behind /\ next \in 1 .. Len(pieces) + 1
  BY <1>1 DEF ReaderOK
<1>3. Left \in Nat /\ pos \in Nat /\ Len(pieces) \in Nat /\ DOMAIN pieces = 1 .. Len(pieces)
  BY PieceTypes DEF TypeOK
<1>4. ASSUME NEW k \in DOMAIN pieces, ~(k < next) PROVE ~(pieces[k].at < Left)
  <2>1. next \in DOMAIN pieces /\ next # Len(pieces) + 1 /\ k \in Nat /\ next \in Nat
    BY <1>2, <1>3, <1>4
  <2>2. pos = pieces[next].at
    BY <1>2, <2>1 DEF Behind, Place
  <2>3. pieces[next].at <= pieces[k].at
    <3>1. CASE k = next
      BY <3>1, PieceTypes
    <3>2. CASE next < k
      <4> DEFINE value == ValueAt(pos, pieces[next].delta, Announced(pieces[next].option))
      <4>1. Place(next + 1) = value + pieces[next].option.bytes
            /\ Place(next + 1) <= pieces[k].at
        BY <2>1, <2>2, <3>2 DEF LayoutOK
      <4>2. pieces[next].delta \in Nat /\ Announced(pieces[next].option) \in Nat
            /\ pieces[next].option.bytes \in Nat /\ pieces[k].at \in Nat
        BY <2>1, PieceTypes
      <4>3. value \in Nat /\ \E here \in Nat : pos < here /\ here <= value
        BY <1>3, <4>2, Places
      <4> HIDE DEF value
      <4>4. pos <= value
        BY <1>3, <4>3
      <4>5. value + pieces[next].option.bytes <= pieces[k].at
        BY <4>1
      <4>6. \A a, b, c, d \in Nat : a <= b /\ b + c <= d => a <= d
        OBVIOUS
      <4>7. pos <= pieces[k].at
        BY <1>3, <4>2, <4>3, <4>4, <4>5, <4>6, Zenon
      <4> QED BY <2>2, <4>7
    <3> QED BY <1>4, <2>1, <3>1, <3>2
  <2>4. pieces[k].at \in Nat /\ pieces[next].at \in Nat
    BY <2>1, PieceTypes
  <2> QED BY <1>2, <1>3, <2>2, <2>3, <2>4
<1>5. DOMAIN got = {k \in Registered : pieces[k].at < Left}
  BY <1>2, <1>4 DEF Registered
<1>6. ASSUME NEW k \in DOMAIN got
      PROVE  /\ got[k].number = Meant(k).number
             /\ IF EndOf(k) <= Left THEN got[k] = Meant(k)
                ELSE got[k].length < Meant(k).length
  <2>1. k \in DOMAIN pieces /\ k < next
    BY <1>2 DEF Registered
  <2>2. got[k] = [number |-> pieces[k].option.number, length |-> Came(k)]
    BY <1>1 DEF ReaderOK
  <2>3. EndOf(k) = Place(k + 1)
    BY DEF EndOf, Place
  <2>4. Place(k + 1) - pieces[k].option.bytes <= Left /\ pieces[k].option.bytes \in Nat
        /\ Place(k + 1) \in Nat
    BY <1>2, <2>1, PieceTypes
  <2>5. CASE Place(k + 1) <= Left
    BY <2>2, <2>3, <2>5 DEF Came, Meant
  <2>6. CASE ~(Place(k + 1) <= Left)
    <3>1. pieces[k].option.bytes # 0 /\ Left - (Place(k + 1) - pieces[k].option.bytes)
                                        < pieces[k].option.bytes
      BY <1>3, <2>4, <2>6
    <3> QED BY <2>2, <2>3, <2>6, <3>1 DEF Came, Meant
  <2> QED BY <2>5, <2>6
<1> HIDE DEF IInv
<1> QED BY <1>5, <1>6 DEF CutReadsAPrefix

\* The inductive invariant holds of every behaviour.
THEOREM Invariant == Spec => []IInv
<1>1. IInv /\ UNCHANGED vars => IInv'
  BY NextInvariant
<1> QED BY InitInvariant, NextInvariant, <1>1, PTL DEF Spec

\* Every variable keeps its type.
THEOREM TypeCorrect == Spec => []TypeOK
<1>1. IInv => TypeOK
  BY DEF IInv
<1> QED BY <1>1, Invariant, PTL

\* The reader of a clean message keeps its place, whatever the options, their lengths
\* and their order, and what comes whole and is handed on is what was set.
THEOREM RoundTripCorrect == Spec => []RoundTrip
BY Invariant, InvariantGivesRoundTrip, PTL

\* A clean message of this side is never refused by the other.
THEOREM OwnIsReadCorrect == Spec => []OwnIsRead
<1>1. IInv => OwnIsRead
  BY DEF IInv
<1> QED BY <1>1, Invariant, PTL

\* Of a datagram that stops early, what is handed on is what has come of it.
THEOREM CutReadsAPrefixCorrect == Spec => []CutReadsAPrefix
BY Invariant, InvariantGivesPrefix, PTL

=============================================================================
