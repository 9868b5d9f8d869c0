--------------------------- MODULE MCBlockTransfer ---------------------------
(* Instances of BlockTransfer for TLC. *)
EXTENDS BlockTransfer, TLC

\* Payloads of one datagram, of whole blocks, and of blocks and a rest, both ways.
Transfers ==
    {[up |-> u, down |-> d] : u \in {0, 4, 5}, d \in {0, 2, 3, 4, 5}} \ {[up |-> 0, down |-> 0]}

=============================================================================
