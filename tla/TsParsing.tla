------------------------------ MODULE TsParsing ------------------------------
(***************************************************************************)
(* A call of parseTsPacketInfo, parsePatPacket or parsePmtPacket on a      *)
(* buffer, which may be damaged: the three walks over bytes of TsParser.   *)
(***************************************************************************)
EXTENDS TableParser, PacketInfo

vars == <<input, mSrcInx, phase, tables, packet>>

Init == InitReader /\ InitTables /\ InitInfo

Next ==
  \/ ParseTable /\ UNCHANGED packet
  \/ ParsePacket /\ UNCHANGED tables

Spec == Init /\ [][Next]_vars

-----------------------------------------------------------------------------
(* Properties *)

Phases ==
  {"header", "programs", "program info", "descriptor", "streams",
   "packet", "adaptation field", "clocks", "private data", "extension", "payload",
   "done", "thrown"}

\* The reader, the lengths of a table and the field under construction are typed.
TypeOK ==
  /\ call \in Calls /\ mSrcBytes \in Seq(Byte) /\ mSrcInx \in Nat
  /\ phase \in Phases
  /\ table.section_length \in Length /\ table.program_info_length \in Length
  /\ readSize \in Nat

\* A section or packet that arrived as it was sent is never refused, and what it
\* says is read back: of a section, whatever descriptors stand in between and
\* whatever follows it in the buffer, and at no time more than was sent; of a
\* packet, whatever optional parts and stuffing its adaptation field has.
IntactIsReadBack ==
  sent # Damaged =>
    /\ phase # "thrown"
    /\ phase = "done" /\ call = Packet => info = sent
    /\ call # Packet =>
         /\ phase = "done" => programs = sent.programs /\ streams = sent.streams
                              /\ table.PCR_PID = sent.PCR_PID
         /\ Len(programs) <= Len(sent.programs) /\ Len(streams) <= Len(sent.streams)

\* In the stream loop the cursor is where the lengths of the section say, and
\* readSize, by which the loop ends, is how far it went: for the first
\* descriptor of any kind, cut short or lying about its length, and for any
\* control bits.
FirstStream == HeaderSize + 4 + program_info_length
CursorFollowsLengths ==
  phase = "streams" => mSrcInx = FirstStream + readSize

\* The CRC, and what follows the section in the buffer, is never taken for a
\* program or a stream: each begins before the CRC of the section does, in
\* damaged sections as well.
LastBegins ==
  IF call = Pat THEN mSrcInx - PAT_PACKET_PROGRAM_SIZE
  ELSE mSrcInx - PMT_STREAM_TYPE_LENGTH - Low10(streams[Len(streams)].ES_info_length)
BeginsBeforeCRC ==
  programs # <<>> \/ streams # <<>> => LastBegins < 3 + table.section_length - CRC32_SIZE

\* Whatever lengths the parts of an adaptation field claim, the payload is taken
\* from where the length of the whole field puts it (in 8 bits, if that is
\* beyond the packet) and the private data lies in the packet; or the packet is
\* marked as an error, and the payload begins behind the length that lied.
PayloadOffset == IF info.hasAdaptationField THEN 4 + 1 + mSrcBytes[5] ELSE 4
LyingLengthsAreContained ==
  phase = "done" /\ call = Packet =>
    IF info.isError
    THEN info.hasPayload => info.payloadStartOffset \in 7..TS_PACKET_SIZE
    ELSE /\ info.hasPayload => info.payloadStartOffset = PayloadOffset % 256
         /\ info.privateDataOffset + info.privateDataSize <= TS_PACKET_SIZE
=============================================================================
