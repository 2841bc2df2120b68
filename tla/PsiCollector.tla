---------------------------- MODULE PsiCollector ----------------------------
(***************************************************************************)
(* TsParser::collectTable (libs/mpeg2ts/src/TsParser.cc): the assembly of  *)
(* the PSI sections of a PID from its TS packets.                          *)
(*                                                                         *)
(* The four maps of the class are total here: operator[] of a std::map     *)
(* gives an absent key its default, an empty buffer and zeros.  psiOut is  *)
(* the table_id the last call gave back, or Throws when the bit reader     *)
(* threw out_of_range.                                                     *)
(***************************************************************************)
EXTENDS TsParser, TsStatistics

CONSTANTS
  TableHeaderSize,       (* The cells before the end of section_length: 3 bytes. *)
  SectionHeaderSize      (* What parsePsiTable reads: 8 bytes.                   *)

ASSUME SectionAssumption ==
  /\ TableHeaderSize \in Nat \ {0}
  /\ SectionHeaderSize \in Nat /\ SectionHeaderSize >= TableHeaderSize

VARIABLES mSectionBuffer, mReadSectionLength, mSectionLength, mTableId, psiOut

sections == <<mSectionBuffer, mReadSectionLength, mSectionLength, mTableId>>

PSI_TABLE_ID_PAT        == "PAT"          \* table_id 0
PSI_TABLE_ID_PMT        == "PMT"
PSI_TABLE_ID_INCOMPLETE == "incomplete"
OtherTable              == "other"        \* any table the demultiplexer ignores
Throws                  == "throws"
TableIds == {PSI_TABLE_ID_PAT, PSI_TABLE_ID_PMT, OtherTable}

\* What the start of a section decodes to, with the pointer_field before it.
SectionHead(pointer_field, table_id, section_length) ==
  [pointer_field |-> pointer_field, table_id |-> table_id, section_length |-> section_length]

InitSections ==
  /\ mSectionBuffer = [p \in Pids |-> <<>>]
  /\ mReadSectionLength = [p \in Pids |-> 0]
  /\ mSectionLength = [p \in Pids |-> 0]
  /\ mTableId = [p \in Pids |-> PSI_TABLE_ID_PAT]
  /\ psiOut = PSI_TABLE_ID_INCOMPLETE

-----------------------------------------------------------------------------
\* The section begins after the pointer_field and the bytes it counts.
tableOffset(pkt, info) == info.payloadStartOffset + 1 + pkt.head.pointer_field
TableBytes(pkt, info) == BytesFrom(pkt, tableOffset(pkt, info))

\* section_length counts the bytes after itself.
SansHeader(head) == head.section_length                                        \* mutant
WholeSection(head) == head.section_length + TableHeaderSize

KeptId(old, head) == old                                                       \* mutant
NewTableId(old, head) == head.table_id

ShortByOne(length, read) == length >= read                                     \* mutant
StillShort(length, read) == length > read

\* a_table_id at the end of the call.
CollectedId(pid) ==
  IF StillShort(mSectionLength'[pid], mReadSectionLength'[pid])
  THEN PSI_TABLE_ID_INCOMPLETE ELSE mTableId'[pid]

\* What a call adds to the buffer, and the count of it in mReadSectionLength.
CountPacket(old, bytes) == old + MaxPayload                                    \* mutant
CountBytes(old, bytes) == old + Len(bytes)

StartTable(pkt, info) ==
  LET pid == info.pid
      bytes == TableBytes(pkt, info)
  IN  /\ info.isPayloadStart
      /\ Len(bytes) >= SectionHeaderSize
      /\ mSectionBuffer' = [mSectionBuffer EXCEPT ![pid] = bytes]
      /\ mReadSectionLength' = [mReadSectionLength EXCEPT ![pid] = CountBytes(0, bytes)]
      /\ mSectionLength' = [mSectionLength EXCEPT ![pid] = WholeSection(pkt.head)]
      /\ mTableId' = [mTableId EXCEPT ![pid] = NewTableId(@, pkt.head)]
      /\ psiOut' = CollectedId(pid)

\* The packet ends inside the section header: parsePsiTable throws after the
\* buffer was cleared and before the length and the table_id are set.
SplitHeader(pkt, info) ==
  LET pid == info.pid
  IN  /\ info.isPayloadStart
      /\ Len(TableBytes(pkt, info)) < SectionHeaderSize
      /\ mSectionBuffer' = [mSectionBuffer EXCEPT ![pid] = <<>>]
      /\ mReadSectionLength' = [mReadSectionLength EXCEPT ![pid] = 0]
      /\ psiOut' = Throws
      /\ UNCHANGED <<mSectionLength, mTableId>>

\* Any other packet is appended, from its payload offset to its end.
AppendTable(pkt, info) ==
  LET pid == info.pid
      bytes == BytesFrom(pkt, info.payloadStartOffset)
  IN  /\ ~info.isPayloadStart
      /\ mSectionBuffer' = [mSectionBuffer EXCEPT ![pid] = @ \o bytes]
      /\ mReadSectionLength' = [mReadSectionLength EXCEPT ![pid] = CountBytes(@, bytes)]
      /\ UNCHANGED <<mSectionLength, mTableId>>
      /\ psiOut' = CollectedId(pid)

\* collectTable, but for what it records in mStatistics (PsiStatistics).
collectTable(pkt, info, origin) ==
  /\ StartTable(pkt, info) \/ SplitHeader(pkt, info) \/ AppendTable(pkt, info)
  /\ RecordOrigin(info, origin)

\* The statistics calls of collectTable, in their order.
PsiStatistics(s, info) ==
  checkTsDiscontinuity(checkCCError(s, info.continuityCounter),
                       info.hasAdaptationField /\ info.isDiscontinuity)

\* The tables demux hands to the PSI callback of a PID: a PAT on PID 0 only.
CallsBack(pid, table_id) ==
  table_id = PSI_TABLE_ID_PMT \/ (table_id = PSI_TABLE_ID_PAT /\ pid = 0)
=============================================================================
