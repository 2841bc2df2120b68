--------------------------- MODULE MCPesReception ---------------------------
(* Instances of PesReception for TLC. *)
EXTENDS PesReception

\* PES packets of one and of three cells of known length after the header, and
\* one of unknown length: with both time stamps, with one, without optional
\* header.
ShortPes == PesHeader(1, TRUE, 3, 5, 4)
LongPes  == PesHeader(3, TRUE, 2, 3, 0)
OpenPes  == PesHeader(0, FALSE, 0, 0, 0)
AllHeads == {ShortPes, LongPes, OpenPes}

PlainFlags == {Plain}
ClockFlags == {[disc |-> TRUE, clock |-> TRUE]}
=============================================================================
