---------------------------- MODULE TableParser -----------------------------
(***************************************************************************)
(* parsePatPacket and parsePmtPacket (libs/mpeg2ts/src/TsParser.cc): the   *)
(* walk of the bit reader over a collected section, whose next step always *)
(* depends on lengths read from the section itself.  Each iteration of a   *)
(* loop is a step.  The buffer is mSectionBuffer: the section, what follows *)
(* it in its last packet, and, after damage on the way, anything at all.   *)
(***************************************************************************)
EXTENDS TsReader

VARIABLES
  table,               (* Fields of the table read so far.                 *)
  programs, descriptors, streams,    (* Its lists.                         *)
  readSize             (* Bytes of the stream loop read so far.            *)

lists  == <<programs, descriptors, streams>>
tables == <<table, lists, readSize>>

HeaderSize      == 8    \* what parsePsiTable reads
PAT_PACKET_OFFSET_LENGTH == 5
PMT_PACKET_OFFSET_LENGTH == 9
CRC32_SIZE               == 4
PAT_PACKET_PROGRAM_SIZE  == 4
PMT_STREAM_TYPE_LENGTH   == 5

\* Descriptor tags that are looked into.
maximum_bitrate_descriptor  == 14
metadata_pointer_descriptor == 37
user_private_178            == 178

NoTable == [section_length |-> 0, PCR_PID |-> 0, program_info_length |-> 0]

InitTables ==
  /\ table = NoTable /\ programs = <<>> /\ descriptors = <<>> /\ streams = <<>>
  /\ readSize = 0

Throw == phase' = "thrown" /\ UNCHANGED <<input, mSrcInx, table, lists, readSize>>

-----------------------------------------------------------------------------
parsePsiTable ==
  /\ phase = "header"
  /\ IF Has(HeaderSize)
     THEN /\ table' = [table EXCEPT !.section_length = Low12(Word(1))]
          /\ mSrcInx' = mSrcInx + HeaderSize
          /\ phase' = IF call = Pat THEN "programs" ELSE "program info"
          /\ UNCHANGED <<input, lists, readSize>>
     ELSE Throw

\* Division rounds towards 0, and a count below 0 makes no iteration either.
ProgramsUpToCRC ==                                                         \* mutant
  (table.section_length - PAT_PACKET_OFFSET_LENGTH) \div PAT_PACKET_PROGRAM_SIZE
numberOfPrograms ==
  (table.section_length - PAT_PACKET_OFFSET_LENGTH - CRC32_SIZE) \div PAT_PACKET_PROGRAM_SIZE

ReadProgram ==
  /\ phase = "programs" /\ Len(programs) < numberOfPrograms
  /\ IF Has(PAT_PACKET_PROGRAM_SIZE)
     THEN /\ programs' = Append(programs,
               [program_number |-> Word(0), PID |-> Low13(Word(2)),
                type |-> IF Word(0) = 0 THEN "NIT" ELSE "PMT"])
          /\ mSrcInx' = mSrcInx + PAT_PACKET_PROGRAM_SIZE
          /\ UNCHANGED <<input, phase, table, descriptors, streams, readSize>>
     ELSE Throw

ReadProgramInfo ==
  /\ phase = "program info"
  /\ IF Has(4)
     THEN /\ table' = [table EXCEPT !.PCR_PID = Low13(Word(0)),
                                    !.program_info_length = Low12(Word(2))]
          /\ mSrcInx' = mSrcInx + 4
          /\ phase' = IF Low10(Word(2)) # 0 THEN "descriptor" ELSE "streams"
          /\ UNCHANGED <<input, lists, readSize>>
     ELSE Throw

\* The upper two of the 12 bits of the length are control bits.
program_info_length == Low10(table.program_info_length)

\* What is read of the first descriptor, tag and length included, and what the
\* skip over the program info then takes off for it.
BytesRead(tag) ==
  CASE tag = maximum_bitrate_descriptor  -> 1 + 1 + 3
    [] tag = metadata_pointer_descriptor -> 1 + 1 + 2
    [] tag = user_private_178            -> 1 + 1
    [] OTHER                             -> 1
TagAndLengthOnly(tag) ==                                                   \* mutant
  CASE tag = maximum_bitrate_descriptor  -> 2 + 3
    [] tag \in {metadata_pointer_descriptor, user_private_178} -> 2
    [] OTHER                             -> 1
TakenOff(tag) ==
  CASE tag = maximum_bitrate_descriptor  -> 2 + 3
    [] tag = metadata_pointer_descriptor -> 2 + 2
    [] tag = user_private_178            -> 2
    [] OTHER                             -> 1

\* Only the first descriptor is looked at, if it is of a known kind.
Kept(tag) ==
  IF tag \in {maximum_bitrate_descriptor, metadata_pointer_descriptor, user_private_178}
  THEN <<[descriptor_tag |-> tag, descriptor_length |-> At(1)]>> ELSE <<>>

ReadDescriptor ==
  /\ phase = "descriptor"
  /\ IF Has(1) /\ Has(BytesRead(At(0)))
        /\ CanSkip(mSrcInx + BytesRead(At(0)), program_info_length - TakenOff(At(0)))
     THEN /\ descriptors' = descriptors \o Kept(At(0))
          /\ mSrcInx' = mSrcInx + BytesRead(At(0)) + program_info_length - TakenOff(At(0))
          /\ phase' = "streams"
          /\ UNCHANGED <<input, table, programs, streams, readSize>>
     ELSE Throw

\* Here the program info length counts with its control bits.
StreamsUpToCRC ==                                                          \* mutant
  table.section_length - PMT_PACKET_OFFSET_LENGTH - table.program_info_length
streamsSize ==
  table.section_length - PMT_PACKET_OFFSET_LENGTH - CRC32_SIZE - table.program_info_length

ReadStream ==
  /\ phase = "streams" /\ readSize < streamsSize
  /\ IF Has(PMT_STREAM_TYPE_LENGTH)
        /\ CanSkip(mSrcInx + PMT_STREAM_TYPE_LENGTH, Low10(Word(3)))
     THEN /\ streams' = Append(streams,
               [stream_type |-> At(0), elementary_PID |-> Low13(Word(1)),
                ES_info_length |-> Low12(Word(3))])
          /\ mSrcInx' = mSrcInx + PMT_STREAM_TYPE_LENGTH + Low10(Word(3))
          /\ readSize' = readSize + Low10(Word(3)) + PMT_STREAM_TYPE_LENGTH
          /\ UNCHANGED <<input, phase, table, programs, descriptors>>
     ELSE Throw

Return ==
  /\ \/ phase = "programs" /\ Len(programs) >= numberOfPrograms
     \/ phase = "streams" /\ readSize >= streamsSize
  /\ phase' = "done"
  /\ UNCHANGED <<input, mSrcInx, table, lists, readSize>>

ParseTable ==
  \/ parsePsiTable \/ ReadProgram \/ ReadProgramInfo \/ ReadDescriptor
  \/ ReadStream \/ Return
=============================================================================
