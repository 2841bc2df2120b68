----------------------------- MODULE PacketInfo -----------------------------
(***************************************************************************)
(* parseTsPacketInfo (libs/mpeg2ts/src/TsParser.cc): the walk over the     *)
(* header of a TS packet and its adaptation field, part by part.           *)
(***************************************************************************)
EXTENDS TsReader

VARIABLES
  info,                (* The TsPacketInfo so far.                         *)
  flags,               (* The flags byte of the adaptation field.          *)
  ofsAfterAF

packet == <<info, flags, ofsAfterAF>>

NoClock == <<>>
NoInfo ==
  [pid |-> 8191, errorIndicator |-> FALSE, isPayloadStart |-> FALSE,
   hasAdaptationField |-> FALSE, hasPayload |-> FALSE, continuityCounter |-> 0,
   isDiscontinuity |-> FALSE, pcr |-> NoClock, opcr |-> NoClock,
   privateDataSize |-> 0, privateDataOffset |-> 0, payloadStartOffset |-> 0,
   isError |-> FALSE]

InitInfo == info = NoInfo /\ flags = 0 /\ ofsAfterAF = 0

\* The bit of a byte that has the given weight.
Flag(byte, weight) == (byte \div weight) % 2 = 1

parseTsHeader ==
  /\ phase = "packet"
  /\ LET adaptation_field_control == (At(3) \div 16) % 4
         hasField == adaptation_field_control \in {2, 3}
     IN  /\ info' = [info EXCEPT !.pid = Low13(Word(1)),
                       !.errorIndicator = Flag(At(1), 128),
                       !.isPayloadStart = Flag(At(1), 64),
                       !.hasAdaptationField = hasField,
                       !.hasPayload = adaptation_field_control \in {1, 3},
                       !.continuityCounter = At(3) % 16]
         /\ phase' = IF hasField THEN "adaptation field" ELSE "payload"
  /\ mSrcInx' = mSrcInx + 4
  /\ UNCHANGED <<input, flags, ofsAfterAF>>

\* A field of length 0 has no flags.
EmptyField ==
  /\ phase = "adaptation field" /\ At(0) = 0
  /\ phase' = "payload" /\ mSrcInx' = mSrcInx + 1
  /\ UNCHANGED <<input, packet>>
parseAdaptationFieldHeader ==
  /\ phase = "adaptation field" /\ At(0) > 0
  /\ flags' = At(1) /\ ofsAfterAF' = mSrcInx + 1 + At(0)
  /\ phase' = "clocks" /\ mSrcInx' = mSrcInx + 2
  /\ UNCHANGED <<input, info>>

\* The 33 bits of the base, in three parts, and the 9 bits of the extension,
\* of which the clock is 300 times the one plus the other.
parsePcr(i) ==
  <<Word(i), Word(i + 2), At(i + 4) \div 128, 256 * (At(i + 4) % 2) + At(i + 5)>>

\* PCR, OPCR and splice_countdown.
ReadClocks ==
  /\ phase = "clocks"
  /\ LET opcr   == IF Flag(flags, 16) THEN 6 ELSE 0
         splice == opcr + (IF Flag(flags, 8) THEN 6 ELSE 0)
     IN  /\ info' = [info EXCEPT !.pcr  = IF Flag(flags, 16) THEN parsePcr(0) ELSE NoClock,
                                 !.opcr = IF Flag(flags, 8) THEN parsePcr(opcr) ELSE NoClock]
         /\ mSrcInx' = mSrcInx + splice + (IF Flag(flags, 4) THEN 1 ELSE 0)
  /\ phase' = "private data"
  /\ UNCHANGED <<input, flags, ofsAfterAF>>

\* What may follow a length byte that ends at an offset.
RoomWithLength(offset) == TS_PACKET_SIZE - offset + 1                      \* mutant
Room(offset) == TS_PACKET_SIZE - offset

\* A length beyond the packet is an error and ends the reading of the field,
\* with the cursor behind the length.
Refuse(fields) ==
  /\ info' = [fields EXCEPT !.isError = TRUE]
  /\ phase' = "payload" /\ mSrcInx' = mSrcInx + 1

ReadPrivateData ==
  /\ phase = "private data"
  /\ IF Flag(flags, 2)
     THEN LET offset == mSrcInx + 1
              fields == [info EXCEPT !.privateDataSize = At(0), !.privateDataOffset = offset]
          IN  IF At(0) > Room(offset) THEN Refuse(fields)
              ELSE info' = fields /\ phase' = "extension" /\ mSrcInx' = offset + At(0)
     ELSE phase' = "extension" /\ UNCHANGED <<info, mSrcInx>>
  /\ UNCHANGED <<input, flags, ofsAfterAF>>

\* Private data may leave no room for the length of an extension.  Behind the
\* extension the cursor is set to the end of the field, wherever that is.
ReadExtension ==
  /\ phase = "extension"
  /\ IF Flag(flags, 1) /\ ~Has(1) THEN phase' = "thrown" /\ UNCHANGED <<info, mSrcInx>>
     ELSE IF Flag(flags, 1) /\ At(0) > Room(mSrcInx + 1) THEN Refuse(info)
     ELSE /\ info' = [info EXCEPT !.isDiscontinuity = Flag(flags, 128)]
          /\ phase' = "payload" /\ mSrcInx' = ofsAfterAF
  /\ UNCHANGED <<input, flags, ofsAfterAF>>

\* payloadStartOffset has 8 bits.  (payloadSize is only printed.)
EndInfo ==
  /\ phase = "payload"
  /\ info' = IF info.hasPayload THEN [info EXCEPT !.payloadStartOffset = mSrcInx % 256] ELSE info
  /\ phase' = "done"
  /\ UNCHANGED <<input, mSrcInx, flags, ofsAfterAF>>

ParsePacket ==
  \/ parseTsHeader \/ EmptyField \/ parseAdaptationFieldHeader \/ ReadClocks
  \/ ReadPrivateData \/ ReadExtension \/ EndInfo
=============================================================================
