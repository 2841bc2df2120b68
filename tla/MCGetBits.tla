----------------------------- MODULE MCGetBits -----------------------------
(* An instance of GetBits for TLC: buffers of up to two bytes for reads, and *)
(* longer ones, up to 18 bytes (two 64-bit words and a rest), for the skips  *)
(* of more than 64 bits.                                                     *)
EXTENDS GetBits

BufferSizes == {0, 1, 2, 10, 18}
Reads       == {0, 1, 3, 8, 13, 64, 65}
Skips       == {65, 72, 130}
=============================================================================
