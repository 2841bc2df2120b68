------------------------------ MODULE TsParser ------------------------------
(***************************************************************************)
(* libs/mpeg2ts/src/TsParser.cc, the part shared by its two collectors:    *)
(* what parseTsPacketInfo makes of a TS packet, and the member mOrigins    *)
(* that collectTable and collectPes both write.                            *)
(*                                                                         *)
(* A TS packet is a row of TsPacketSize cells; a cell stands for a run of  *)
(* bytes that is never split.  A payload cell <<p, u, k>> is the k-th cell *)
(* of the u-th unit (section or PES packet) that PID p carries; every other*)
(* cell (TS header, adaptation field, stuffing, pointer_field) is Filler.  *)
(* So the cell says where a byte came from, which is all the collectors'   *)
(* correctness is about; the fields of a header are in the packet record.  *)
(***************************************************************************)
EXTENDS Integers, Sequences

CONSTANTS
  Pids,            (* The PIDs of the stream.                              *)
  TsPacketSize,    (* TS_PACKET_SIZE, in cells.                            *)
  TsHeaderSize     (* TS_PACKET_HEADER_SIZE, in cells.                     *)

ASSUME PacketAssumption ==
  /\ TsHeaderSize \in Nat \ {0}
  /\ TsPacketSize \in Nat /\ TsPacketSize > TsHeaderSize

VARIABLE mOrigins  (* Origin given with the last unit start, per PID.      *)

Filler == <<0, 0, 0>>
Cells(pid, unit, first, last) ==
  [i \in 1..(last - first + 1) |-> <<pid, unit, first + i - 1>>]
Cell == (Pids \cup {0}) \X Nat \X Nat
PidOf(cell) == cell[1]
UnitOf(cell) == cell[2]
IndexOf(cell) == cell[3]

MaxPayload == TsPacketSize - TsHeaderSize

\* adaptation_field_control
PayloadOnly       == "payload only"
AdaptationOnly    == "adaptation only"
AdaptationPayload == "adaptation and payload"

\* An adaptation field: `length` cells after its length byte, and the fields
\* the parser looks at.  pcr is -1 when PCR_flag is not set.
Adaptation(length, disc, pcr) ==
  [adaptation_field_length |-> length, discontinuity_indicator |-> disc, pcr |-> pcr]

\* A packet of `pid` with the given payload cells at its end.  `head` is what
\* the fields of the unit header in the payload decode to.
TsPacket(pid, start, afc, cc, af, head, payload) ==
  [pid   |-> pid, errorIndicator |-> FALSE,
   payload_unit_start_indicator |-> start,
   adaptation_field_control     |-> afc,
   continuity_counter           |-> cc,
   af    |-> af,
   head  |-> head,
   bytes |-> [i \in 1..TsPacketSize |->
                IF i <= TsPacketSize - Len(payload) THEN Filler
                ELSE payload[i - (TsPacketSize - Len(payload))]]]

-----------------------------------------------------------------------------
checkHasAdaptationField(pkt) ==
  pkt.adaptation_field_control \in {AdaptationOnly, AdaptationPayload}

checkHasPayload(pkt) ==
  pkt.adaptation_field_control \in {PayloadOnly, AdaptationPayload}

\* Where the bit reader stands after the header and the adaptation field.
afterAdaptationField(pkt) ==
  IF checkHasAdaptationField(pkt)
  THEN TsHeaderSize + 1 + pkt.af.adaptation_field_length
  ELSE TsHeaderSize

\* parseTsPacketInfo.  The offset of the payload keeps its default of 0 when
\* the packet has none, and an adaptation field of length 0 carries no flags.
parseTsPacketInfo(pkt) ==
  LET flags == checkHasAdaptationField(pkt) /\ pkt.af.adaptation_field_length > 0
  IN  [pid                |-> pkt.pid,
       errorIndicator     |-> pkt.errorIndicator,
       isPayloadStart     |-> pkt.payload_unit_start_indicator,
       hasAdaptationField |-> checkHasAdaptationField(pkt),
       hasPayload         |-> checkHasPayload(pkt),
       continuityCounter  |-> pkt.continuity_counter,
       isDiscontinuity    |-> flags /\ pkt.af.discontinuity_indicator,
       pcr                |-> IF flags THEN pkt.af.pcr ELSE -1,
       payloadStartOffset |-> IF checkHasPayload(pkt) THEN afterAdaptationField(pkt) ELSE 0]

\* The bytes from an offset to the end of the packet, as both collectors copy
\* them.
BytesAfter(pkt, offset) == SubSeq(pkt.bytes, offset + 2, TsPacketSize)  \* mutant
BytesFrom(pkt, offset) == SubSeq(pkt.bytes, offset + 1, TsPacketSize)

InitOrigins == mOrigins = [p \in Pids |-> 0]

\* mOrigins[pid] is written on every unit start.
RecordAlways(info, origin) ==                                \* mutant
  mOrigins' = [mOrigins EXCEPT ![info.pid] = origin]
RecordOrigin(info, origin) ==
  mOrigins' = IF info.isPayloadStart THEN [mOrigins EXCEPT ![info.pid] = origin] ELSE mOrigins
=============================================================================
