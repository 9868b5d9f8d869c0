--------------------------- MODULE MCOptionCodec ---------------------------
(* An instance of OptionCodec for TLC. *)
EXTENDS OptionCodec

Opt(number, chars, bytes) == [number |-> number, chars |-> chars, bytes |-> bytes]

\* Segments of a path, one of them empty and one with long characters; a query
\* whose length needs two bytes; replaced and not replaced numbers; a block
\* option with and without a value; numbers that are 12, 13, 268, 269 and more
\* apart; and three that are in no registry, one of them critical.
MCCandidates ==
    {Opt(11, 1, 1), Opt(11, 13, 13), Opt(11, 0, 0), Opt(11, 2, 4), Opt(15, 269, 269),
     Opt(6, 1, 1), BlockOption(23, 0, 0, 16), BlockOption(23, 0, 1, 16), Opt(12, 1, 1), Opt(14, 1, 1),
     Opt(258, 1, 1), Opt(2049, 2, 2), Opt(280, 1, 1), Opt(2048, 3, 3), Opt(9, 1, 1)}

MCPayloads == {[length |-> 0, plain |-> TRUE], [length |-> 3, plain |-> TRUE],
               [length |-> 3, plain |-> FALSE]}

=============================================================================
