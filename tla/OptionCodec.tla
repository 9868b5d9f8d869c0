----------------------------- MODULE OptionCodec -----------------------------
(***************************************************************************)
(* One message from the setters of the application to the handler of the   *)
(* receiving side: Message.add_option and the properties built on it, the  *)
(* loop of serialize that writes the options, the loop of deserialize that *)
(* reads them, and the line for the log that both sides make of the        *)
(* message before they go on.  Bytes are counted, not kept: an option is   *)
(* its number and the length of its value.                                 *)
(*                                                                         *)
(* The writer is SerializerUdp, SerializerTcp, or a peer, which is         *)
(* external, writes as RFC 7252 says and may stop anywhere in its datagram.*)
(***************************************************************************)
EXTENDS Integers, Sequences

CONSTANTS
    Candidates,  \* the options that are set, each with a value
    Payloads,
    Tokens,      \* lengths of tokens
    MaxOptions   \* bound: how many options are ever added to the message

-----------------------------------------------------------------------------
(* The registry of defines.py *)

Numbers == {2, 6, 7, 12, 14, 17, 23, 27, 28, 60, 258, 2049, 2053}  \* INTEGER
Texts   == {3, 8, 11, 15, 20, 35, 39}                              \* STRING
Known   == Numbers \cup Texts \cup {0, 1, 4, 5, 65524}             \* or OPAQUE

Repeatable == {0, 1, 3, 4, 8, 11, 15, 20}

\* 'Block' is in the name of the option.
Blocks == {23, 27}

\* get_option_flags packs two bytes: a larger number is a struct.error, which ends
\* the reading as an unknown critical option does.
Refused(number) == number % 2 = 1 \/ number > 65535

\* What an application or a peer says: chars is len() of the value and what
\* Option.length returns, bytes what the value is encoded in.
Value == [number : Nat, chars : Nat, bytes : Nat]

ASSUME CodecAssumption ==
    /\ Candidates \subseteq Value
    /\ \A v \in Candidates :
          /\ v.number <= 65535 /\ v.bytes <= 65804
          /\ v.chars <= v.bytes /\ (v.chars = 0 <=> v.bytes = 0)
          /\ v.number \notin Texts => v.chars = v.bytes
    /\ Payloads \subseteq [length : Nat, plain : BOOLEAN]
    /\ Tokens \subseteq 0 .. 15
    /\ MaxOptions \in Nat

VARIABLES
    writer,   \* "udp", "tcp" or "peer"
    token,    \* the length of the message's token
    payload,  \* its length, and whether the decoder of the content type takes it
    options,  \* Message._options: values and their places in the list
    added,    \* how many options have been added
    phase,
    pieces,   \* the options that have been written, each with the byte it is at
    size,     \* of what has been written of them
    arrived,  \* how many bytes of the datagram, or of the message over TCP, came
    pos,      \* of the loop of deserialize
    current,  \* its current_option
    next,     \* the piece the loop is at
    got,      \* the options of the message it makes, by piece
    heard     \* the lengths of the token and of the payload it makes

message == <<writer, token, payload, options, added>>
written == <<pieces, size, arrived>>
reading == <<pos, current, next, got, heard>>
vars == <<message, phase, written, reading>>

Own == writer # "peer"

Init ==
    /\ writer \in {"udp", "tcp", "peer"}
    /\ token \in Tokens /\ payload \in Payloads
    /\ options = {} /\ added = 0
    /\ phase = "setting"
    /\ pieces = <<>> /\ size = 0 /\ arrived = 0
    /\ pos = 0 /\ current = 0 /\ next = 1
    /\ got = [k \in {} |-> 0]
    /\ heard = [token |-> 0, payload |-> 0]

-----------------------------------------------------------------------------
(* Mutants: the forms plausible bugs would give the definitions below *)

\* add_option does not ask for the number it is given.
MutantRoom(number) == TRUE

\* as_sorted_list leaves the options as they are.
MutantBefore(o, p) == o.place < p.place

\* lastoptionnumber is not updated.
MutantLast == 0

\* A value that is cut short is taken in the length it announces.
MutantAvailable(length) == length

-----------------------------------------------------------------------------
(* The options of a message: Message, Request and Response *)

\* Properties whose setter deletes the option before it adds it: Observe, Max-Age,
\* Uri-Query and Location-Query.  Every other setter only adds.
Replaced == {6, 14, 15, 20}

\* del_option_by_number, of a message whose options are os.
Without(os, number) == {o \in os : o.number # number}

Placed(v, place) ==
    [number |-> v.number, chars |-> v.chars, bytes |-> v.bytes, place |-> place]

\* add_option takes an option that is repeatable or new.
Room(number) == number \in Repeatable \/ \A o \in options : o.number # number

\* A setter of this side, which knows the registry's options only, or an option
\* of the peer's message.  A setter that adds without room raises TypeError
\* and leaves the message as it is.
Set(v) ==
    /\ phase = "setting" /\ added < MaxOptions
    /\ IF Own /\ v.number \in Replaced
       THEN options' = Without(options, v.number) \cup {Placed(v, added)}
       ELSE /\ Own => v.number \in Known /\ Room(v.number)
            /\ options' = options \cup {Placed(v, added)}
    /\ added' = added + 1
    /\ UNCHANGED <<writer, token, payload, phase, written, reading>>

\* A deleter of this side.
Delete(number) ==
    /\ phase = "setting" /\ Own
    /\ options' = Without(options, number)
    /\ UNCHANGED <<writer, token, payload, added, phase, written, reading>>

\* The value of Block1 and Block2: the setters of message.py and parse_blockwise.
Szx(blocksize) ==
    IF blocksize > 512 THEN 6 ELSE IF blocksize > 256 THEN 5 ELSE IF blocksize > 128 THEN 4
    ELSE IF blocksize > 64 THEN 3 ELSE IF blocksize > 32 THEN 2 ELSE IF blocksize > 16 THEN 1
    ELSE 0

BlockValue(num, m, blocksize) == 16 * num + 8 * m + Szx(blocksize)

ByteLen(n) == IF n = 0 THEN 0 ELSE IF n < 256 THEN 1 ELSE IF n < 65536 THEN 2 ELSE 3

\* The masks are as wide as the value, and at most three bytes.
ParseBlockwise(value) ==
    LET wide == IF ByteLen(value) = 1 THEN 16 ELSE IF ByteLen(value) = 2 THEN 4096 ELSE 1048576
    IN  <<(value \div 16) % wide, (value \div 8) % 2, 2^((value % 8) + 4)>>

\* A block option as a candidate.
BlockOption(number, num, m, blocksize) ==
    LET length == ByteLen(BlockValue(num, m, blocksize))
    IN  [number |-> number, chars |-> length, bytes |-> length]

\* line_print: parse_blockwise is given None for a block option of value 0, whose
\* length is 0.
Undescribable(number, length) == number \in Blocks /\ length = 0

\* Without a block option the line shows the payload, decoded.
Shown(numbers) == numbers \cap Blocks = {}

\* Endpoint.send_message makes the line before it serializes.
Start ==
    /\ phase = "setting"
    /\ phase' = IF Own /\ \/ \E o \in options : Undescribable(o.number, o.chars)
                          \/ /\ Shown({o.number : o \in options})
                             /\ payload.length > 0 /\ ~payload.plain
                THEN "unsent" ELSE "writing"
    /\ UNCHANGED <<message, written, reading>>

-----------------------------------------------------------------------------
(* Writing: the loops of SerializerUdp.serialize and SerializerTcp.serialize *)

\* get_option_nibble.
Nibble(n) == IF n <= 12 THEN n ELSE IF n <= 268 THEN 13 ELSE 14

Width(nibble) == IF nibble <= 12 THEN 0 ELSE nibble - 12

Extension(n) == IF n <= 12 THEN 0 ELSE IF n <= 268 THEN n - 13 ELSE n - 269

\* The length in the head: Option.length, where RFC 7252 has the bytes.
Announced(o) == IF Own THEN o.chars ELSE o.bytes

\* as_sorted_list: sorted is stable.
Before(o, p) == o.number < p.number \/ (o.number = p.number /\ o.place < p.place)

Unwritten == {o \in options : \A k \in DOMAIN pieces : pieces[k].option # o}

\* lastoptionnumber.
Last == IF pieces = <<>> THEN 0 ELSE pieces[Len(pieces)].option.number

\* Over TCP the format has no "!": struct aligns a two-byte field and writes it in
\* the order of the machine.
Padding(at, nibble) == IF writer = "tcp" /\ nibble = 14 THEN at % 2 ELSE 0

\* Where the extension of the length begins, and where the value does.
LengthAt(at, delta) ==
    at + 1 + Padding(at + 1, Nibble(delta)) + Width(Nibble(delta))
ValueAt(at, delta, length) ==
    LET here == LengthAt(at, delta)
    IN  here + Padding(here, Nibble(length)) + Width(Nibble(length))

WriteOption(o) ==
    LET delta == o.number - Last IN
    /\ phase = "writing"
    /\ o \in Unwritten /\ \A p \in Unwritten : p = o \/ Before(o, p)
    /\ pieces' = Append(pieces, [option |-> o, delta |-> delta, at |-> size])
    /\ size' = ValueAt(size, delta, Announced(o)) + o.bytes
    /\ UNCHANGED <<message, phase, arrived, reading>>

\* The bytes before the options.  Over TCP they are the stream's business.
Header == IF writer = "tcp" THEN 0 ELSE 4 + token

\* The marker and the payload.
Trailer == IF payload.length = 0 THEN 0 ELSE 1 + payload.length

Whole == Header + size + Trailer

\* Everything is written.  A peer may stop after n bytes.
Send(n) ==
    /\ phase = "writing" /\ Unwritten = {}
    /\ Own => n = Whole
    /\ arrived' = n
    /\ phase' = "received"
    /\ UNCHANGED <<message, pieces, size, reading>>

-----------------------------------------------------------------------------
(* Reading: Serializer.deserialize and SerializerTcp.deserialize *)

\* What has come of the options and the payload.
Left == IF arrived < Header THEN 0 ELSE arrived - Header

\* The head of a datagram; over UDP Message.token makes eight random bytes of no
\* token, and a token that is cut is a shorter one.
ReadHeader ==
    /\ phase = "received"
    /\ IF writer # "tcp" /\ arrived < 4
       THEN phase' = "bad" /\ UNCHANGED heard
       ELSE /\ phase' = "reading"
            /\ heard' = [heard EXCEPT !.token =
                            IF writer = "tcp" THEN token
                            ELSE IF token = 0 THEN 8
                            ELSE IF arrived < 4 + token THEN arrived - 4 ELSE token]
    /\ UNCHANGED <<message, written, pos, current, next, got>>

\* read_option_value_len_from_byte.
Extended(nibble, extension) ==
    IF nibble <= 12 THEN nibble
    ELSE IF nibble = 13 THEN extension + 13 ELSE extension + 269

\* The reader takes the bytes of a field in network order.
Heard(n) ==
    LET e == Extension(n)
        swapped == 256 * (e % 256) + e \div 256
    IN  Extended(Nibble(n), IF writer = "tcp" /\ Nibble(n) = 14 THEN swapped ELSE e)

\* An extension that is not there: values[pos] is an IndexError, which nothing
\* catches, unpack_from of two bytes a struct.error, which is a bad request.
Missing(at, nibble) == at + Width(nibble) > Left

Fault(nibble) == IF nibble = 13 THEN "raised" ELSE "bad"

\* The loop is at the first byte of a piece.
Here == phase = "reading" /\ pos < Left /\ next \in DOMAIN pieces /\ pos = pieces[next].at

Piece == pieces[next]
LengthHere == LengthAt(pos, Piece.delta)

\* The reader takes padding for the field.
Padded ==
    \/ Padding(pos + 1, Nibble(Piece.delta)) # 0
    \/ Padding(LengthHere, Nibble(Announced(Piece.option))) # 0

HeadIsCut ==
    /\ Here /\ ~Padded
    /\ \/ /\ Missing(pos + 1, Nibble(Piece.delta))
          /\ phase' = Fault(Nibble(Piece.delta))
       \/ /\ ~Missing(pos + 1, Nibble(Piece.delta))
          /\ Missing(LengthHere, Nibble(Announced(Piece.option)))
          /\ phase' = Fault(Nibble(Announced(Piece.option)))
    /\ UNCHANGED <<message, written, reading>>

Readable ==
    /\ Here /\ ~Padded
    /\ ~Missing(pos + 1, Nibble(Piece.delta))
    /\ ~Missing(LengthHere, Nibble(Announced(Piece.option)))

\* The number and the length the head is read as, and the place of the value.
Number == current + Heard(Piece.delta)
Length == Heard(Announced(Piece.option))
ValueHere == ValueAt(pos, Piece.delta, Announced(Piece.option))

\* A slice of the value may be shorter than its length.
Available(length) == IF ValueHere + length <= Left THEN length ELSE Left - ValueHere

\* The loop goes on behind the value.
Forward ==
    /\ pos' = ValueHere + Length
    /\ current' = Number
    /\ next' = next + 1

UnknownOption ==
    /\ Readable /\ Number \notin Known
    /\ \/ Refused(Number) /\ phase' = "bad" /\ UNCHANGED <<pos, current, next>>
       \/ ~Refused(Number) /\ Forward /\ UNCHANGED phase
    /\ UNCHANGED <<message, written, got, heard>>

\* add_option of the message that is made.
Repeats == Number \notin Repeatable /\ \E k \in DOMAIN got : got[k].number = Number

\* A text that ends in the middle of a character is no UTF-8.
Torn == /\ Number \in Texts /\ Piece.option.chars < Piece.option.bytes
        /\ Available(Length) < Piece.option.bytes

\* The text of an empty value is the text of bytes(): str(b'') has three characters.
Kept == IF Number \in Texts /\ Length = 0 THEN 3 ELSE Available(Length)

KnownOption ==
    /\ Readable /\ Number \in Known
    /\ \/ Repeats /\ phase' = "raised" /\ UNCHANGED <<pos, current, next, got>>
       \/ Torn /\ phase' = "bad" /\ UNCHANGED <<pos, current, next, got>>
       \/ /\ ~Repeats
          /\ Forward
          /\ got' = [k \in DOMAIN got \cup {next} |->
                        IF k = next THEN [number |-> Number, length |-> Kept] ELSE got[k]]
          /\ UNCHANGED phase
    /\ UNCHANGED <<message, written, heard>>

\* The loop is at the marker.
AtMarker == /\ phase = "reading" /\ pos < Left
            /\ next = Len(pieces) + 1 /\ pos = size /\ payload.length > 0

ReadPayload ==
    /\ AtMarker
    /\ IF Left <= pos + 1
       THEN phase' = "bad" /\ UNCHANGED <<pos, heard>>
       ELSE /\ pos' = Left
            /\ heard' = [heard EXCEPT !.payload = Left - (pos + 1)]
            /\ UNCHANGED phase
    /\ UNCHANGED <<message, written, current, next, got>>

\* The loop takes something else for a head: anything can come of it.
Stray ==
    /\ phase = "reading" /\ pos < Left
    /\ (Here /\ Padded) \/ (~Here /\ ~AtMarker)
    /\ phase' = "stray"
    /\ UNCHANGED <<message, written, reading>>

\* The decoder of the content type may not take what has come of the payload.
MayFail ==
    /\ Shown({got[k].number : k \in DOMAIN got}) /\ heard.payload > 0
    /\ ~payload.plain \/ heard.payload < payload.length

\* datagram_received makes the line for the log and then a task for the message; the
\* exceptions of the line leave datagram_received, and the message is lost.
Describe ==
    LET fails == \E k \in DOMAIN got : Undescribable(got[k].number, got[k].length) IN
    /\ phase = "reading" /\ pos >= Left
    /\ \/ ~fails /\ (~MayFail \/ payload.plain) /\ phase' = "handed"
       \/ (fails \/ MayFail) /\ phase' = "dropped"
    /\ UNCHANGED <<message, written, reading>>

Next ==
    \/ \E v \in Candidates : Set(v) \/ Delete(v.number)
    \/ Start
    \/ \E o \in options : WriteOption(o)
    \/ \E n \in 0 .. Whole : Send(n)
    \/ ReadHeader \/ HeadIsCut \/ UnknownOption \/ KnownOption \/ ReadPayload
    \/ Stray \/ Describe

Spec == Init /\ [][Next]_vars

-----------------------------------------------------------------------------
(* Properties *)

Outcomes == {"handed", "dropped", "bad", "raised", "stray"}

\* Every variable keeps its type.
TypeOK ==
    /\ writer \in {"udp", "tcp", "peer"} /\ token \in Tokens /\ payload \in Payloads
    /\ options \subseteq [number : Nat, chars : Nat, bytes : Nat, place : Nat]
    /\ added \in Nat
    /\ phase \in {"setting", "unsent", "writing", "received", "reading"} \cup Outcomes
    /\ pieces \in Seq([option : options, delta : Nat, at : Nat])
    /\ size \in Nat /\ arrived \in 0 .. Whole
    /\ pos \in Nat /\ current \in Nat /\ next \in Nat
    /\ \E K \in SUBSET (1 .. next - 1) : got \in [K -> [number : Nat, length : Nat]]
    /\ heard \in [token : Nat, payload : Nat]

\* The message as it is written can be read: no text has a character of several
\* bytes unless the peer counts bytes, and nothing over TCP needs a field of two.
Clean ==
    /\ Own => \A o \in options : o.chars = o.bytes
    /\ writer = "tcp" => \A k \in DOMAIN pieces :
          Nibble(pieces[k].delta) < 14 /\ Nibble(pieces[k].option.chars) < 14

\* What the k-th piece should be read as.
Meant(k) ==
    LET o == pieces[k].option
    IN  [number |-> o.number,
         length |-> IF o.number \in Texts /\ o.bytes = 0 THEN 3 ELSE o.bytes]

\* The pieces of options the registry knows.
Registered == {k \in DOMAIN pieces : pieces[k].option.number \in Known}

\* The reader of a clean message never loses its place, and when all of it has come,
\* and is handed on, that is with every known option that was set, in ascending
\* order and among equal numbers in the order of the setters, each with its number
\* and length, and with the whole payload.
RoundTrip ==
    Clean =>
      /\ phase # "stray"
      /\ phase = "handed" /\ arrived = Whole =>
            /\ {pieces[k].option : k \in DOMAIN pieces} = options
            /\ \A j, k \in DOMAIN pieces : j < k =>
                  LET o == pieces[j].option
                      p == pieces[k].option
                  IN  o.number < p.number \/ (o.number = p.number /\ o.place < p.place)
            /\ got = [k \in Registered |-> Meant(k)]
            /\ heard.payload = payload.length

\* A clean message of this side is not refused by the other: the setters let no
\* option repeat that may not, and the only message that is lost is one the log
\* cannot show, which then has not been sent either.
OwnIsRead ==
    Own /\ Clean => phase \notin {"bad", "raised", "dropped"}

\* Where the k-th piece ends.
EndOf(k) == IF k + 1 \in DOMAIN pieces THEN pieces[k + 1].at ELSE size

\* A datagram that stops early is read as far as it goes, and nothing says so: what
\* is handed on has the options that begin in it, in full but for the last, whose
\* value is as much as has come of it.
CutReadsAPrefix ==
    Clean /\ phase = "handed" =>
      /\ DOMAIN got = {k \in Registered : pieces[k].at < Left}
      /\ \A k \in DOMAIN got :
            /\ got[k].number = Meant(k).number
            /\ IF EndOf(k) <= Left THEN got[k] = Meant(k)
               ELSE got[k].length < Meant(k).length

=============================================================================
