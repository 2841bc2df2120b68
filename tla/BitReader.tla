----------------------------- MODULE BitReader -----------------------------
(***************************************************************************)
(* What a user of GetBits relies on: a cursor over a buffer of bits.       *)
(*                                                                         *)
(* Every parser of the library (TS header, adaptation field, PSI tables,   *)
(* PES header, MPEG-2 and H.264 headers) is written against this reading   *)
(* of the class: a request is answered with exactly the bits that follow   *)
(* the cursor, in stream order, or refused with an exception.  GetBits     *)
(* implements it (module GetBits) with a byte index and a bit store.       *)
(***************************************************************************)
EXTENDS Integers, Sequences

CONSTANTS
  Requests,      (* Sizes, in bits, of the requests made.                  *)
  ByteSkips,     (* Sizes, in bytes, of the skips made.                    *)
  Sizes          (* Buffer sizes, in bytes.                                *)

VARIABLES
  pos,           (* Number of the next bit to be read.                     *)
  size,          (* Number of bits of the buffer.                          *)
  attached,      (* Whether a buffer has been given at all.                *)
  result         (* Outcome of the last operation.                         *)

vars == <<pos, size, attached, result>>

ByteBits == 8      \* bits of a byte
WordBits == 64     \* the most one request may ask for

None       == [outcome |-> "none",  bits |-> <<>>]
Thrown     == [outcome |-> "throw", bits |-> <<>>]
Done(bits) == [outcome |-> "ok",    bits |-> bits]

\* The n bits from bit number p on.  A bit is known by its number.
BitsFrom(p, n) == [i \in 1..n |-> p + i - 1]

Larger(a, b) == IF a >= b THEN a ELSE b

Init ==
  /\ pos = 0 /\ size = 0 /\ ~attached
  /\ result = None

Reset(bytes, inx) ==
  /\ attached' = TRUE
  /\ size' = ByteBits * bytes
  /\ pos' = ByteBits * inx
  /\ result' = None

Read(n) ==
  /\ attached /\ n <= WordBits
  /\ n = 0 \/ pos + n <= size
  /\ pos' = pos + n
  /\ result' = Done(BitsFrom(pos, n))
  /\ UNCHANGED <<size, attached>>

\* A request that cannot be answered in full leaves nothing to read.
ReadPastEnd(n) ==
  /\ attached /\ n <= WordBits
  /\ n > 0 /\ pos + n > size
  /\ pos' = Larger(pos, size)
  /\ result' = Thrown
  /\ UNCHANGED <<size, attached>>

Refuse(n) ==
  /\ ~attached \/ n > WordBits
  /\ result' = Thrown
  /\ UNCHANGED <<pos, size, attached>>

\* A skip of whole bytes starts from the first byte boundary at or after the
\* cursor, and may not reach the end of the buffer.
SkipBytes(n) ==
  \E byte \in 0..pos :
     /\ pos <= ByteBits * byte /\ ByteBits * byte < pos + ByteBits
     /\ \/ /\ ByteBits * (byte + n) < size
           /\ pos' = ByteBits * (byte + n)
           /\ UNCHANGED <<size, attached, result>>
        \/ /\ ByteBits * (byte + n) >= size
           /\ result' = Thrown
           /\ UNCHANGED <<pos, size, attached>>

Next ==
  \/ \E bytes \in Sizes, inx \in 0..1 : Reset(bytes, inx)
  \/ \E n \in Requests : Read(n) \/ ReadPastEnd(n) \/ Refuse(n)
  \/ \E n \in ByteSkips : SkipBytes(n)

Spec == Init /\ [][Next]_vars
=============================================================================
