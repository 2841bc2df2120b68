------------------------------ MODULE TsReader ------------------------------
(***************************************************************************)
(* What the calls of TsParser that walk over bytes have in common: the     *)
(* buffer, the cursor of the bit reader (libs/common/src/GetBits.cc), and  *)
(* how far the call has come.  All fields end on byte boundaries where the *)
(* cursor is asked for, so it counts bytes.  A behaviour is one call.      *)
(***************************************************************************)
EXTENDS Integers, Sequences

CONSTANT Buffers    (* Inputs: [call, bytes, sent], see the variables.     *)

Byte == 0..255
Length == 0..4095
Pat == "parsePatPacket"
Pmt == "parsePmtPacket"
Packet == "parseTsPacketInfo"
Calls == {Pat, Pmt, Packet}

TS_PACKET_SIZE == 188

ASSUME BuffersAssumption ==
  \A b \in Buffers :
    /\ b.call \in Calls /\ b.bytes \in Seq(Byte)
    /\ b.call = Packet => Len(b.bytes) = TS_PACKET_SIZE

VARIABLES
  call,                (* Which of the three is called.                    *)
  mSrcBytes, mSrcInx,  (* The bit reader; the index counts from 0.         *)
  phase,               (* The part being read, or how the call ended.      *)
  sent                 (* History: what was sent, or Damaged.              *)

input == <<call, mSrcBytes, sent>>

Damaged == [damaged |-> TRUE]

InitReader ==
  /\ \E b \in Buffers : call = b.call /\ mSrcBytes = b.bytes /\ sent = b.sent
  /\ mSrcInx = 0
  /\ phase = IF call = Packet THEN "packet" ELSE "header"

At(i)   == mSrcBytes[mSrcInx + i + 1]
Word(i) == 256 * At(i) + At(i + 1)
Low13(word) == word % 8192
Low12(word) == word % 4096
Low10(word) == word % 1024

Has(n) == mSrcInx + n <= Len(mSrcBytes)

\* skipBytes may go backwards, may not reach the end of the buffer, and takes
\* an index below 0 for a huge one.
CanSkip(from, n) == from + n >= 0 /\ from + n < Len(mSrcBytes)
=============================================================================
