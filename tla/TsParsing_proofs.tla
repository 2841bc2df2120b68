-------------------------- MODULE TsParsing_proofs --------------------------
(***************************************************************************)
(* What holds of the reader for every packet and every buffer whatever.    *)
(*                                                                         *)
(* Packets: lengths that lie cannot move the payload or the private data   *)
(* to where they are not.  The argument is one inductive invariant,        *)
(* PacketWalk, that says where the cursor is before each part of the       *)
(* adaptation field.                                                       *)
(*                                                                         *)
(* Sections: the cursor is where the lengths say, and what is read as a    *)
(* program or as a stream begins before the CRC.  The argument is one      *)
(* inductive invariant, Walk, that says for each phase where the cursor    *)
(* is.                                                                     *)
(***************************************************************************)
EXTENDS TsParsing, TLAPS

-----------------------------------------------------------------------------
(* Packets *)

PacketPhases ==
  {"packet", "adaptation field", "clocks", "private data", "extension", "payload"}

Info ==
  [pid : Nat, errorIndicator : BOOLEAN, isPayloadStart : BOOLEAN,
   hasAdaptationField : BOOLEAN, hasPayload : BOOLEAN, continuityCounter : Nat,
   isDiscontinuity : BOOLEAN, pcr : Seq(Nat), opcr : Seq(Nat),
   privateDataSize : Nat, privateDataOffset : Nat, payloadStartOffset : Nat,
   isError : BOOLEAN]

PacketTypes ==
  /\ phase \in PacketPhases \cup {"done", "thrown"}
  /\ mSrcBytes \in Seq(Byte) /\ Len(mSrcBytes) = TS_PACKET_SIZE
  /\ mSrcInx \in Nat /\ ofsAfterAF \in Nat /\ flags \in Nat
  /\ info \in Info

PrivateDataInPacket ==
  info.privateDataOffset + info.privateDataSize <= TS_PACKET_SIZE

\* Where the cursor is before each part.
AtStart == phase = "packet" => mSrcInx = 0
AtField == phase = "adaptation field" => mSrcInx = 4 /\ info.hasAdaptationField
AtParts ==
  phase \in {"clocks", "private data", "extension"} =>
    /\ info.hasAdaptationField /\ ofsAfterAF = PayloadOffset
    /\ mSrcInx \in (CASE phase = "clocks"       -> {6}
                      [] phase = "private data" -> 6..19
                      [] OTHER                  -> 6..TS_PACKET_SIZE)
AtPayload ==
  phase = "payload" =>
    IF info.isError THEN mSrcInx \in 7..TS_PACKET_SIZE ELSE mSrcInx = PayloadOffset

\* Nothing is wrong before the payload is reached.
NoErrorYet ==
  phase \in PacketPhases \ {"payload"} => ~info.isError
PrivateData ==
  phase \in PacketPhases =>
    info.isError \/ PrivateDataInPacket

PacketWalk ==
  call = Packet =>
    /\ PacketTypes /\ AtStart /\ AtField /\ AtParts /\ AtPayload /\ NoErrorYet
    /\ PrivateData /\ LyingLengthsAreContained

-----------------------------------------------------------------------------
LEMMA ByteRead ==
  ASSUME PacketTypes, NEW i \in Nat, mSrcInx + i < TS_PACKET_SIZE
  PROVE  At(i) \in Byte
<1>1. mSrcInx + i + 1 \in 1..Len(mSrcBytes)
  BY DEF PacketTypes, TS_PACKET_SIZE
<1> QED
  BY <1>1 DEF PacketTypes, At

LEMMA BytesAreNat ==
  ASSUME NEW byte \in Byte
  PROVE  byte \in Nat /\ byte < 256
BY DEF Byte

LEMMA WordRead ==
  ASSUME PacketTypes, NEW i \in Nat, mSrcInx + i + 1 < TS_PACKET_SIZE
  PROVE  Word(i) \in Nat
<1>1. At(i) \in Byte /\ At(i + 1) \in Byte
  <2>1. i + 1 \in Nat /\ mSrcInx + i < TS_PACKET_SIZE /\ mSrcInx + (i + 1) < TS_PACKET_SIZE
    BY DEF PacketTypes, TS_PACKET_SIZE
  <2> QED
    BY <2>1, ByteRead
<1>2. At(i) \in Nat /\ At(i + 1) \in Nat
  BY <1>1, BytesAreNat
<1> QED
  BY <1>2 DEF Word

LEMMA ClockRead ==
  ASSUME PacketTypes, NEW i \in Nat, mSrcInx + i + 5 < TS_PACKET_SIZE
  PROVE  parsePcr(i) \in Seq(Nat)
<1>1. /\ i + 2 \in Nat /\ i + 4 \in Nat /\ i + 5 \in Nat /\ mSrcInx \in Nat
      /\ mSrcInx + i + 1 < TS_PACKET_SIZE /\ mSrcInx + (i + 2) + 1 < TS_PACKET_SIZE
      /\ mSrcInx + (i + 4) < TS_PACKET_SIZE /\ mSrcInx + (i + 5) < TS_PACKET_SIZE
  BY DEF PacketTypes, TS_PACKET_SIZE
<1>2. Word(i) \in Nat /\ Word(i + 2) \in Nat
  BY <1>1, WordRead
<1>3. At(i + 4) \in Byte /\ At(i + 5) \in Byte
  BY <1>1, ByteRead
<1>4. At(i + 4) \div 128 \in Nat /\ 256 * (At(i + 4) % 2) + At(i + 5) \in Nat
  <2>1. At(i + 4) \in Nat /\ At(i + 5) \in Nat
    BY <1>3, BytesAreNat
  <2> QED
    BY <2>1
<1> QED
  BY <1>2, <1>4 DEF parsePcr

\* The end of the field is a number.
LEMMA OffsetIsNat ==
  ASSUME PacketTypes
  PROVE  PayloadOffset \in Nat
<1>1. 5 \in 1..Len(mSrcBytes)
  BY DEF PacketTypes, TS_PACKET_SIZE
<1>2. mSrcBytes[5] \in Byte
  BY <1>1 DEF PacketTypes
<1> QED
  BY <1>2 DEF PayloadOffset, Byte

LEMMA TypesKept ==
  ASSUME PacketTypes, UNCHANGED input, phase' \in PacketPhases \cup {"done", "thrown"},
         mSrcInx' \in Nat, ofsAfterAF' \in Nat, flags' \in Nat, info' \in Info
  PROVE  PacketTypes'
<1>1. mSrcBytes' = mSrcBytes
  BY DEF input
<1> QED
  BY <1>1, Zenon DEF PacketTypes

LEMMA PacketInit == Init => PacketWalk
<1> SUFFICES ASSUME Init, call = Packet PROVE PacketWalk
  BY DEF PacketWalk
<1>1. mSrcBytes \in Seq(Byte) /\ Len(mSrcBytes) = TS_PACKET_SIZE
  BY BuffersAssumption DEF Init, InitReader
<1>2. NoInfo \in Info
  BY DEF NoInfo, Info, NoClock
<1>3. phase = "packet" /\ mSrcInx = 0 /\ info = NoInfo /\ flags = 0 /\ ofsAfterAF = 0
  BY DEF Init, InitReader, InitInfo
<1>4. PacketTypes
  BY <1>1, <1>2, <1>3 DEF PacketTypes, PacketPhases
<1>5. ~info.isError /\ PrivateDataInPacket
  BY <1>3 DEF NoInfo, PrivateDataInPacket, TS_PACKET_SIZE
<1> QED
  BY <1>3, <1>4, <1>5 DEF PacketWalk, AtStart, AtField, AtParts, AtPayload, NoErrorYet,
     PrivateData, LyingLengthsAreContained

\* A part that is read without moving the field leaves the offset behind it.
LEMMA SameOffset ==
  ASSUME UNCHANGED input, info'.hasAdaptationField = info.hasAdaptationField
  PROVE  PayloadOffset' = PayloadOffset
BY DEF PayloadOffset, input

\* What every step has to show.
LEMMA PacketStep ==
  ASSUME UNCHANGED input, PacketTypes',
         AtStart', AtField', AtParts', AtPayload', NoErrorYet', PrivateData',
         LyingLengthsAreContained'
  PROVE  PacketWalk'
BY DEF PacketWalk

LEMMA HeaderStep ==
  ASSUME PacketWalk, call = Packet, parseTsHeader
  PROVE  PacketWalk'
<1> DEFINE control == (At(3) \div 16) % 4
           word    == Word(1)
           field   == control \in {2, 3}
           payload == control \in {1, 3}
           error   == Flag(At(1), 128)
           start   == Flag(At(1), 64)
           pid     == Low13(word)
           counter == At(3) % 16
<1>1. /\ PacketTypes /\ mSrcInx = 0 /\ ~info.isError /\ PrivateDataInPacket
      /\ phase = "packet"
  BY DEF PacketWalk, parseTsHeader, AtStart, NoErrorYet, PrivateData, PacketPhases
<1>2. word \in Nat /\ At(3) \in Nat /\ At(3) % 16 \in Nat
  <2>1. 0 + 1 + 1 < TS_PACKET_SIZE /\ 0 + 3 < TS_PACKET_SIZE
    BY DEF TS_PACKET_SIZE
  <2>2. word \in Nat /\ At(3) \in Byte
    BY <1>1, <2>1, WordRead, ByteRead
  <2>3. At(3) \in Nat
    BY <2>2, BytesAreNat
  <2> QED
    BY <2>2, <2>3
<1>3. /\ info' = [info EXCEPT !.pid = pid, !.errorIndicator = error,
                    !.isPayloadStart = start, !.hasAdaptationField = field,
                    !.hasPayload = payload, !.continuityCounter = counter]
      /\ phase' = IF field THEN "adaptation field" ELSE "payload"
      /\ mSrcInx' = mSrcInx + 4
      /\ UNCHANGED <<input, flags, ofsAfterAF>>
  BY DEF parseTsHeader
<1>4. /\ pid \in Nat /\ counter \in Nat
      /\ field \in BOOLEAN /\ payload \in BOOLEAN /\ error \in BOOLEAN /\ start \in BOOLEAN
  BY <1>2 DEF Low13, Flag
<1> HIDE DEF control, word, field, payload, error, start, pid, counter
<1>10. info \in Info
  BY <1>1 DEF PacketTypes
<1>11. info' \in Info
  BY <1>3, <1>4, <1>10, ZenonT(60) DEF Info
<1>5. /\ info'.hasAdaptationField = field
      /\ info'.isError = info.isError
      /\ info'.privateDataOffset = info.privateDataOffset
      /\ info'.privateDataSize = info.privateDataSize
  BY <1>3, <1>10 DEF Info
<1>12. mSrcInx' = 4
  <2>1. mSrcInx = 0
    BY <1>1
  <2>2. mSrcInx' = mSrcInx + 4
    BY <1>3
  <2> QED
    BY ONLY <2>1, <2>2
<1>6. PacketTypes'
  <2>1. mSrcInx' \in Nat
    BY <1>12
  <2>2. phase' \in PacketPhases
    BY <1>3 DEF PacketPhases
  <2>3. flags' \in Nat /\ ofsAfterAF' \in Nat
    BY <1>1, <1>3 DEF PacketTypes
  <2> QED
    BY <1>1, <1>3, <1>11, <2>1, <2>2, <2>3, TypesKept, Zenon
<1>7. AtField' /\ AtPayload'
  <2>1. mSrcInx' = 4
    BY <1>12
  <2>2. CASE field
    BY <1>3, <1>5, <2>1, <2>2 DEF AtField, AtPayload
  <2>3. CASE ~field
    <3>1. phase' = "payload" /\ ~info'.isError
      BY <1>1, <1>3, <1>5, <2>3
    <3>2. PayloadOffset' = 4
      BY <1>5, <2>3 DEF PayloadOffset
    <3> QED
      BY <2>1, <3>1, <3>2 DEF AtField, AtPayload
  <2> QED
    BY <1>4, <2>2, <2>3
<1>8. NoErrorYet' /\ PrivateData'
  BY <1>1, <1>5 DEF NoErrorYet, PrivateData, PrivateDataInPacket
<1>9. AtStart' /\ AtParts' /\ LyingLengthsAreContained'
  BY <1>3 DEF AtStart, AtParts, LyingLengthsAreContained
<1> QED
  BY <1>3, <1>6, <1>7, <1>8, <1>9, PacketStep

LEMMA EmptyStep ==
  ASSUME PacketWalk, call = Packet, EmptyField
  PROVE  PacketWalk'
<1>1. /\ PacketTypes /\ mSrcInx = 4 /\ info.hasAdaptationField /\ ~info.isError
      /\ PrivateDataInPacket
      /\ phase' = "payload" /\ mSrcInx' = mSrcInx + 1 /\ UNCHANGED <<input, packet>>
  BY DEF PacketWalk, EmptyField, AtField, NoErrorYet, PrivateData, PacketPhases
<1>2. PayloadOffset' = 5
  <2>1. mSrcBytes[5] = 0
    <3>1. At(0) = 0
      BY DEF EmptyField
    <3> QED
      BY <1>1, <3>1 DEF At
  <2> QED
    BY <1>1, <2>1 DEF PayloadOffset, packet, input
<1>3. PacketTypes'
  <2>1. mSrcInx' \in Nat /\ phase' \in PacketPhases
    BY <1>1 DEF PacketPhases
  <2>2. flags' \in Nat /\ ofsAfterAF' \in Nat /\ info' \in Info
    BY <1>1 DEF PacketTypes, packet
  <2> QED
    BY <1>1, <2>1, <2>2, TypesKept, Zenon
<1>4. AtPayload' /\ NoErrorYet' /\ PrivateData'
  BY <1>1, <1>2 DEF AtPayload, NoErrorYet, PrivateData, PrivateDataInPacket, packet
<1>5. AtStart' /\ AtField' /\ AtParts' /\ LyingLengthsAreContained'
  BY <1>1 DEF AtStart, AtField, AtParts, LyingLengthsAreContained
<1> QED
  BY <1>1, <1>3, <1>4, <1>5, PacketStep

LEMMA FieldHeaderStep ==
  ASSUME PacketWalk, call = Packet, parseAdaptationFieldHeader
  PROVE  PacketWalk'
<1>1. /\ PacketTypes /\ mSrcInx = 4 /\ info.hasAdaptationField /\ ~info.isError
      /\ PrivateDataInPacket
      /\ flags' = At(1) /\ ofsAfterAF' = mSrcInx + 1 + At(0)
      /\ phase' = "clocks" /\ mSrcInx' = mSrcInx + 2 /\ UNCHANGED <<input, info>>
  BY DEF PacketWalk, parseAdaptationFieldHeader, AtField, NoErrorYet, PrivateData,
     PacketPhases
<1>2. At(0) \in Nat /\ At(1) \in Nat /\ At(0) = mSrcBytes[5]
  <2>1. 4 + 0 < TS_PACKET_SIZE /\ 4 + 1 < TS_PACKET_SIZE
    BY DEF TS_PACKET_SIZE
  <2>2. At(0) \in Byte /\ At(1) \in Byte
    BY <1>1, <2>1, ByteRead
  <2> QED
    BY <1>1, <2>2, BytesAreNat DEF At
<1>3. ofsAfterAF' = PayloadOffset'
  BY <1>1, <1>2 DEF PayloadOffset, input
<1>4. PacketTypes'
  <2>1. /\ mSrcInx' \in Nat /\ phase' \in PacketPhases
        /\ flags' \in Nat /\ ofsAfterAF' \in Nat
    BY <1>1, <1>2 DEF PacketPhases
  <2>2. info' \in Info
    BY <1>1 DEF PacketTypes
  <2> QED
    BY <1>1, <2>1, <2>2, TypesKept, Zenon
<1>5. AtParts' /\ NoErrorYet' /\ PrivateData'
  BY <1>1, <1>3 DEF AtParts, NoErrorYet, PrivateData, PrivateDataInPacket
<1>6. AtStart' /\ AtField' /\ AtPayload' /\ LyingLengthsAreContained'
  BY <1>1 DEF AtStart, AtField, AtPayload, LyingLengthsAreContained
<1> QED
  BY <1>1, <1>4, <1>5, <1>6, PacketStep

LEMMA ClocksStep ==
  ASSUME PacketWalk, call = Packet, ReadClocks
  PROVE  PacketWalk'
<1> DEFINE before == IF Flag(flags, 16) THEN 6 ELSE 0
           pcr    == IF Flag(flags, 16) THEN parsePcr(0) ELSE NoClock
           opcr   == IF Flag(flags, 8) THEN parsePcr(before) ELSE NoClock
           splice == before + (IF Flag(flags, 8) THEN 6 ELSE 0)
           last   == IF Flag(flags, 4) THEN 1 ELSE 0
<1>1. /\ PacketTypes /\ mSrcInx = 6 /\ info.hasAdaptationField /\ ~info.isError
      /\ PrivateDataInPacket /\ ofsAfterAF = PayloadOffset
  BY DEF PacketWalk, ReadClocks, AtParts, NoErrorYet, PrivateData, PacketPhases
<1>2. /\ info' = [info EXCEPT !.pcr = pcr, !.opcr = opcr]
      /\ mSrcInx' = mSrcInx + splice + last
      /\ phase' = "private data" /\ UNCHANGED <<input, flags, ofsAfterAF>>
  BY <1>1 DEF ReadClocks
<1>3. before \in {0, 6} /\ splice \in 0..12 /\ last \in 0..1
  OBVIOUS
<1>4. pcr \in Seq(Nat) /\ opcr \in Seq(Nat)
  <2>1. parsePcr(0) \in Seq(Nat)
    <3>1. 6 + 0 + 5 < TS_PACKET_SIZE
      BY DEF TS_PACKET_SIZE
    <3> QED
      BY <1>1, <3>1, ClockRead
  <2>2. parsePcr(before) \in Seq(Nat)
    <3> HIDE DEF before
    <3>1. before \in Nat /\ 6 + before + 5 < TS_PACKET_SIZE
      BY <1>3 DEF TS_PACKET_SIZE
    <3> QED
      BY <1>1, <3>1, ClockRead
  <2> QED
    BY <2>1, <2>2 DEF NoClock
<1> HIDE DEF before, pcr, opcr, splice, last
<1>5. /\ info' \in Info /\ info'.hasAdaptationField = info.hasAdaptationField
      /\ info'.isError = info.isError
      /\ info'.privateDataOffset = info.privateDataOffset
      /\ info'.privateDataSize = info.privateDataSize
  <2>1. info \in Info
    BY <1>1 DEF PacketTypes
  <2> QED
    BY <1>2, <1>4, <2>1 DEF Info
<1>6. mSrcInx' \in 6..19 /\ mSrcInx' \in Nat
  <2>1. mSrcInx = 6
    BY <1>1
  <2>2. mSrcInx' = mSrcInx + splice + last
    BY <1>2
  <2> QED
    BY ONLY <1>3, <2>1, <2>2
<1>7. PacketTypes'
  <2>1. mSrcInx' \in Nat /\ phase' \in PacketPhases
    <3>1. phase' = "private data"
      BY <1>2
    <3> QED
      BY <1>6, <3>1 DEF PacketPhases
  <2>2. flags' \in Nat /\ ofsAfterAF' \in Nat
    BY <1>1, <1>2 DEF PacketTypes
  <2> QED
    BY <1>1, <1>2, <1>5, <2>1, <2>2, TypesKept, Zenon
<1>8. AtParts'
  BY <1>1, <1>2, <1>5, <1>6, SameOffset DEF AtParts
<1>9. NoErrorYet' /\ PrivateData'
  BY <1>1, <1>5 DEF NoErrorYet, PrivateData, PrivateDataInPacket
<1>10. AtStart' /\ AtField' /\ AtPayload' /\ LyingLengthsAreContained'
  BY <1>2 DEF AtStart, AtField, AtPayload, LyingLengthsAreContained
<1> QED
  BY <1>2, <1>7, <1>8, <1>9, <1>10, PacketStep

LEMMA PrivateDataStep ==
  ASSUME PacketWalk, call = Packet, ReadPrivateData
  PROVE  PacketWalk'
<1> DEFINE size   == At(0)
           offset == mSrcInx + 1
           fields == [info EXCEPT !.privateDataSize = size, !.privateDataOffset = offset]
<1>1. /\ PacketTypes /\ mSrcInx \in 6..19 /\ info.hasAdaptationField /\ ~info.isError
      /\ PrivateDataInPacket /\ ofsAfterAF = PayloadOffset /\ info \in Info
      /\ UNCHANGED <<input, flags, ofsAfterAF>>
  BY DEF PacketWalk, ReadPrivateData, AtParts, NoErrorYet, PrivateData, PacketPhases,
     PacketTypes
<1>2. ofsAfterAF' \in Nat /\ flags' \in Nat
  BY <1>1 DEF PacketTypes
<1>3. size \in Nat /\ offset \in 7..20 /\ offset \in Nat
  <2>1. mSrcInx \in 6..19
    BY <1>1
  <2>2. mSrcInx + 0 < TS_PACKET_SIZE
    BY <2>1 DEF TS_PACKET_SIZE
  <2>3. size \in Byte
    BY <1>1, <2>2, ByteRead
  <2> QED
    BY <2>1, <2>3, BytesAreNat
<1>4. CASE ~Flag(flags, 2)
  <2>1. phase' = "extension" /\ UNCHANGED <<info, mSrcInx>>
    BY <1>4 DEF ReadPrivateData
  <2>2. mSrcInx' \in 6..TS_PACKET_SIZE /\ mSrcInx' \in Nat
    BY <1>1, <2>1 DEF TS_PACKET_SIZE
  <2>3. PacketTypes'
    BY <1>1, <1>2, <2>1, <2>2, TypesKept, Zenon DEF PacketPhases
  <2>4. AtParts'
    BY <1>1, <2>1, <2>2, SameOffset DEF AtParts
  <2>5. NoErrorYet' /\ PrivateData'
    BY <1>1, <2>1 DEF NoErrorYet, PrivateData, PrivateDataInPacket
  <2>6. AtStart' /\ AtField' /\ AtPayload' /\ LyingLengthsAreContained'
    BY <2>1 DEF AtStart, AtField, AtPayload, LyingLengthsAreContained
  <2> QED
    BY <1>1, <2>3, <2>4, <2>5, <2>6, PacketStep
<1>5. CASE Flag(flags, 2)
  <2>1. IF size > Room(offset) THEN Refuse(fields)
        ELSE info' = fields /\ phase' = "extension" /\ mSrcInx' = offset + size
    BY <1>5 DEF ReadPrivateData
  <2> HIDE DEF size, offset
  <2>2. /\ fields \in Info /\ fields.hasAdaptationField /\ ~fields.isError
        /\ fields.privateDataSize = size /\ fields.privateDataOffset = offset
    BY <1>1, <1>3 DEF Info
  <2> HIDE DEF fields
  <2>3. CASE size > Room(offset)
    <3>1. /\ info' = [fields EXCEPT !.isError = TRUE]
          /\ phase' = "payload" /\ mSrcInx' = mSrcInx + 1
      BY <2>1, <2>3 DEF Refuse
    <3>2. info' \in Info /\ info'.isError
      BY <2>2, <3>1 DEF Info
    <3>3. mSrcInx' \in 7..TS_PACKET_SIZE /\ mSrcInx' \in Nat
      <4>1. mSrcInx \in 6..19
        BY <1>1
      <4>2. mSrcInx' = mSrcInx + 1
        BY <3>1
      <4> QED
        BY ONLY <4>1, <4>2 DEF TS_PACKET_SIZE
    <3>4. PacketTypes'
      BY <1>1, <1>2, <3>1, <3>2, <3>3, TypesKept, Zenon DEF PacketPhases
    <3>5. AtPayload' /\ NoErrorYet' /\ PrivateData'
      BY <3>1, <3>2, <3>3 DEF AtPayload, NoErrorYet, PrivateData
    <3>6. AtStart' /\ AtField' /\ AtParts' /\ LyingLengthsAreContained'
      BY <3>1 DEF AtStart, AtField, AtParts, LyingLengthsAreContained
    <3> QED
      BY <1>1, <3>4, <3>5, <3>6, PacketStep
  <2>4. CASE ~(size > Room(offset))
    <3>1. info' = fields /\ phase' = "extension" /\ mSrcInx' = offset + size
      BY <2>1, <2>4
    <3>2. /\ offset + size <= TS_PACKET_SIZE /\ mSrcInx' \in 6..TS_PACKET_SIZE
          /\ mSrcInx' \in Nat
      <4>1. mSrcInx' = offset + size
        BY <3>1
      <4> QED
        BY ONLY <1>3, <2>4, <4>1 DEF Room, TS_PACKET_SIZE
    <3>3. /\ info' \in Info /\ info'.hasAdaptationField = info.hasAdaptationField
          /\ ~info'.isError
      BY <1>1, <2>2, <3>1 DEF Info
    <3>4. PacketTypes'
      BY <1>1, <1>2, <3>1, <3>2, <3>3, TypesKept, Zenon DEF PacketPhases
    <3>5. AtParts'
      BY <1>1, <3>1, <3>2, <3>3, SameOffset DEF AtParts
    <3>6. PrivateDataInPacket'
      BY <2>2, <3>1, <3>2 DEF PrivateDataInPacket, TS_PACKET_SIZE
    <3>7. NoErrorYet' /\ PrivateData'
      BY <3>3, <3>6 DEF NoErrorYet, PrivateData
    <3>8. AtStart' /\ AtField' /\ AtPayload' /\ LyingLengthsAreContained'
      BY <3>1 DEF AtStart, AtField, AtPayload, LyingLengthsAreContained
    <3> QED
      BY <1>1, <3>4, <3>5, <3>7, <3>8, PacketStep
  <2> QED
    BY <2>3, <2>4
<1> QED
  BY <1>4, <1>5

LEMMA ExtensionStep ==
  ASSUME PacketWalk, call = Packet, ReadExtension
  PROVE  PacketWalk'
<1> DEFINE set == [info EXCEPT !.isDiscontinuity = Flag(flags, 128)]
<1>1. /\ PacketTypes /\ mSrcInx \in 6..TS_PACKET_SIZE /\ info.hasAdaptationField
      /\ ~info.isError /\ PrivateDataInPacket /\ ofsAfterAF = PayloadOffset /\ info \in Info
      /\ UNCHANGED <<input, flags, ofsAfterAF>>
  BY DEF PacketWalk, ReadExtension, AtParts, NoErrorYet, PrivateData, PacketPhases,
     PacketTypes
<1>2. ofsAfterAF' \in Nat /\ flags' \in Nat /\ ofsAfterAF \in Nat /\ mSrcInx \in Nat
  BY <1>1 DEF PacketTypes
<1>3. CASE phase' = "thrown" /\ UNCHANGED <<info, mSrcInx>>
  <2>1. PacketTypes'
    BY <1>1, <1>2, <1>3, TypesKept, Zenon
  <2>2. /\ AtStart' /\ AtField' /\ AtParts' /\ AtPayload' /\ NoErrorYet' /\ PrivateData'
        /\ LyingLengthsAreContained'
    BY <1>3 DEF AtStart, AtField, AtParts, AtPayload, NoErrorYet, PrivateData,
       LyingLengthsAreContained, PacketPhases
  <2> QED
    BY <1>1, <2>1, <2>2, PacketStep
<1>4. CASE Refuse(info) /\ Has(1)
  <2>1. /\ info' = [info EXCEPT !.isError = TRUE]
        /\ phase' = "payload" /\ mSrcInx' = mSrcInx + 1
    BY <1>4 DEF Refuse
  <2>2. info' \in Info /\ info'.isError
    BY <1>1, <2>1 DEF Info
  <2>3. mSrcInx' \in 7..TS_PACKET_SIZE /\ mSrcInx' \in Nat
    <3>1. mSrcInx + 1 <= TS_PACKET_SIZE
      BY <1>1, <1>4 DEF Has, PacketTypes
    <3>2. mSrcInx \in 6..TS_PACKET_SIZE /\ mSrcInx' = mSrcInx + 1
      BY <1>1, <2>1
    <3> QED
      BY ONLY <3>1, <3>2 DEF TS_PACKET_SIZE
  <2>4. PacketTypes'
    BY <1>1, <1>2, <2>1, <2>2, <2>3, TypesKept, Zenon DEF PacketPhases
  <2>5. AtPayload' /\ NoErrorYet' /\ PrivateData'
    BY <2>1, <2>2, <2>3 DEF AtPayload, NoErrorYet, PrivateData
  <2>6. AtStart' /\ AtField' /\ AtParts' /\ LyingLengthsAreContained'
    BY <2>1 DEF AtStart, AtField, AtParts, LyingLengthsAreContained
  <2> QED
    BY <1>1, <2>4, <2>5, <2>6, PacketStep
<1>5. CASE info' = set /\ phase' = "payload" /\ mSrcInx' = ofsAfterAF
  <2>1. Flag(flags, 128) \in BOOLEAN
    BY DEF Flag
  <2>2. /\ set \in Info /\ set.hasAdaptationField = info.hasAdaptationField
        /\ set.isError = info.isError
        /\ set.privateDataOffset = info.privateDataOffset
        /\ set.privateDataSize = info.privateDataSize
    BY <1>1, <2>1 DEF Info
  <2> HIDE DEF set
  <2>3. PacketTypes'
    BY <1>1, <1>2, <1>5, <2>2, TypesKept, Zenon DEF PacketPhases
  <2>4. AtPayload'
    BY <1>1, <1>5, <2>2, SameOffset DEF AtPayload
  <2>5. NoErrorYet' /\ PrivateData'
    BY <1>1, <1>5, <2>2 DEF NoErrorYet, PrivateData, PrivateDataInPacket
  <2>6. AtStart' /\ AtField' /\ AtParts' /\ LyingLengthsAreContained'
    BY <1>5 DEF AtStart, AtField, AtParts, LyingLengthsAreContained
  <2> QED
    BY <1>1, <2>3, <2>4, <2>5, <2>6, PacketStep
<1> QED
  BY <1>3, <1>4, <1>5 DEF ReadExtension

LEMMA EndStep ==
  ASSUME PacketWalk, call = Packet, EndInfo
  PROVE  PacketWalk'
<1> DEFINE set == [info EXCEPT !.payloadStartOffset = mSrcInx % 256]
<1>1. /\ PacketTypes /\ info \in Info /\ (info.isError \/ PrivateDataInPacket)
      /\ IF info.isError THEN mSrcInx \in 7..TS_PACKET_SIZE ELSE mSrcInx = PayloadOffset
      /\ info' = IF info.hasPayload THEN set ELSE info
      /\ phase' = "done" /\ UNCHANGED <<input, mSrcInx, flags, ofsAfterAF>>
  BY DEF PacketWalk, EndInfo, AtPayload, PrivateData, PacketPhases, PacketTypes
<1>2. mSrcInx \in Nat /\ mSrcInx % 256 \in Nat
  BY <1>1 DEF PacketTypes
<1>3. /\ set \in Info /\ set.hasAdaptationField = info.hasAdaptationField
      /\ set.isError = info.isError /\ set.hasPayload = info.hasPayload
      /\ set.privateDataOffset = info.privateDataOffset
      /\ set.privateDataSize = info.privateDataSize
      /\ set.payloadStartOffset = mSrcInx % 256
  <2> DEFINE offset == mSrcInx % 256
  <2>1. offset \in Nat /\ info \in Info
    BY <1>1, <1>2
  <2> HIDE DEF offset
  <2>2. [info EXCEPT !.payloadStartOffset = offset] \in Info
    BY <2>1, ZenonT(60) DEF Info
  <2>3. [info EXCEPT !.payloadStartOffset = offset].payloadStartOffset = offset
    BY <2>1, ZenonT(60) DEF Info
  <2> QED
    BY <2>1, <2>2, <2>3 DEF Info, offset
<1> HIDE DEF set
<1>4. /\ info' \in Info /\ info'.hasAdaptationField = info.hasAdaptationField
      /\ info'.isError = info.isError /\ info'.hasPayload = info.hasPayload
      /\ info'.privateDataOffset = info.privateDataOffset
      /\ info'.privateDataSize = info.privateDataSize
      /\ info.hasPayload => info'.payloadStartOffset = mSrcInx % 256
  BY <1>1, <1>3
<1>5. PacketTypes'
  <2>1. mSrcInx' \in Nat /\ flags' \in Nat /\ ofsAfterAF' \in Nat
    BY <1>1 DEF PacketTypes
  <2> QED
    BY <1>1, <1>4, <2>1, TypesKept, Zenon
<1>6. /\ AtStart' /\ AtField' /\ AtParts' /\ AtPayload' /\ NoErrorYet' /\ PrivateData'
  BY <1>1 DEF AtStart, AtField, AtParts, AtPayload, NoErrorYet, PrivateData, PacketPhases
<1>7. PayloadOffset' = PayloadOffset
  BY <1>1, <1>4, SameOffset
<1>8. CASE info.isError
  <2>1. mSrcInx % 256 \in 7..TS_PACKET_SIZE
    <3>1. mSrcInx \in 7..TS_PACKET_SIZE
      BY <1>1, <1>8
    <3> QED
      BY ONLY <3>1 DEF TS_PACKET_SIZE
  <2>2. LyingLengthsAreContained'
    BY <1>4, <1>8, <2>1 DEF LyingLengthsAreContained
  <2> QED
    BY <1>1, <1>5, <1>6, <2>2, PacketStep
<1>9. CASE ~info.isError
  <2>1. PrivateDataInPacket'
    BY <1>1, <1>4, <1>9 DEF PrivateDataInPacket
  <2>2. info'.hasPayload => info'.payloadStartOffset = PayloadOffset' % 256
    BY <1>1, <1>4, <1>7, <1>9
  <2>3. LyingLengthsAreContained'
    BY <1>4, <1>9, <2>1, <2>2 DEF LyingLengthsAreContained, PrivateDataInPacket
  <2> QED
    BY <1>1, <1>5, <1>6, <2>3, PacketStep
<1> QED
  BY <1>8, <1>9

\* The walks over tables are not those of a packet.
LEMMA TablesApart ==
  ASSUME PacketWalk, call = Packet, ParseTable
  PROVE  FALSE
<1>1. phase \in PacketPhases \cup {"done", "thrown"}
  BY DEF PacketWalk, PacketTypes
<1> QED
  BY <1>1 DEF ParseTable, parsePsiTable, ReadProgram, ReadProgramInfo, ReadDescriptor,
     ReadStream, Return, PacketPhases

-----------------------------------------------------------------------------
\* PacketWalk is inductive.
THEOREM AlwaysPacketWalks == Spec => []PacketWalk
<1>1. PacketWalk /\ [Next]_vars => PacketWalk'
  <2> SUFFICES ASSUME PacketWalk, [Next]_vars PROVE PacketWalk'
    OBVIOUS
  <2>1. CASE call # Packet
    <3>1. call' = call
      BY DEF Next, vars, input, ParseTable, parsePsiTable, ReadProgram, ReadProgramInfo,
         ReadDescriptor, ReadStream, Return, Throw, ParsePacket, parseTsHeader, EmptyField,
         parseAdaptationFieldHeader, ReadClocks, ReadPrivateData, ReadExtension, EndInfo
    <3> QED
      BY <2>1, <3>1 DEF PacketWalk
  <2>2. CASE call = Packet /\ ParsePacket
    BY <2>2, HeaderStep, EmptyStep, FieldHeaderStep, ClocksStep, PrivateDataStep,
       ExtensionStep, EndStep DEF ParsePacket
  <2>3. CASE call = Packet /\ UNCHANGED vars
    BY <2>3 DEF vars, input, packet, PacketWalk, PacketTypes, AtStart, AtField, AtParts,
       AtPayload, NoErrorYet, PrivateData, PrivateDataInPacket, PayloadOffset,
       LyingLengthsAreContained
  <2> QED
    BY <2>1, <2>2, <2>3, TablesApart DEF Next
<1> QED
  BY <1>1, PacketInit, PTL DEF Spec

\* In parseTsPacketInfo, whatever the lengths in an adaptation field say, the
\* payload is taken from behind the whole field and the private data lies in the
\* packet, or the packet is marked as an error: for every packet.
THEOREM LyingLengthsAreAlwaysContained == Spec => []LyingLengthsAreContained
<1>1. PacketWalk => LyingLengthsAreContained
  BY DEF PacketWalk, LyingLengthsAreContained
<1> QED
  BY <1>1, AlwaysPacketWalks, PTL

-----------------------------------------------------------------------------
(* Sections *)

Pid == 0..8191
Low == 0..1023
Fields == [section_length : Length, PCR_PID : Pid, program_info_length : Length]
Entry == [program_number : Nat, PID : Nat, type : {"NIT", "PMT"}]
StreamEntry == [stream_type : Nat, elementary_PID : Nat, ES_info_length : Nat]

\* The types, with those of the lists.
Types ==
  /\ TypeOK
  /\ table \in Fields
  /\ streams \in Seq(StreamEntry)
  /\ programs \in Seq(Entry)

\* Where the cursor is, by phase.
AtPrograms ==
  phase = "programs" =>
    call = Pat /\ streams = <<>>
    /\ mSrcInx = HeaderSize + PAT_PACKET_PROGRAM_SIZE * Len(programs)
AtInfo ==
  phase \in {"program info", "descriptor"} =>
    /\ call = Pmt /\ programs = <<>> /\ streams = <<>> /\ readSize = 0
    /\ mSrcInx = IF phase = "descriptor" THEN HeaderSize + 4 ELSE HeaderSize
AtHeader ==
  phase = "header" =>
    call \in {Pat, Pmt} /\ mSrcInx = 0 /\ programs = <<>> /\ streams = <<>> /\ readSize = 0
AtStreams == phase = "streams" => call = Pmt /\ programs = <<>>

\* While a packet is read there are no lists.
AtPacket ==
  phase \in PacketPhases => call = Packet /\ programs = <<>> /\ streams = <<>>

Walk ==
  /\ Types /\ AtPacket /\ AtHeader /\ AtPrograms /\ AtInfo /\ AtStreams
  /\ CursorFollowsLengths /\ BeginsBeforeCRC

-----------------------------------------------------------------------------
LEMMA Remainders ==
  ASSUME NEW w \in Nat
  PROVE  Low12(w) \in Length /\ Low10(w) \in Low /\ Low13(w) \in Pid
BY DEF Low12, Low10, Low13, Length, Low, Pid

LEMMA LengthIsNat ==
  ASSUME NEW n \in Length
  PROVE  n \in Nat
BY DEF Length

\* The control bits above the ten bits of a length do not change them.
LEMMA LowOfLow ==
  ASSUME NEW w \in Nat
  PROVE  Low10(Low12(w)) = Low10(w)
BY DEF Low12, Low10

\* The types of what the cursor moves over.
LEMMA Numbers ==
  ASSUME Types
  PROVE  /\ mSrcBytes \in Seq(Byte) /\ Len(mSrcBytes) \in Nat
         /\ mSrcInx \in Nat /\ readSize \in Nat
         /\ table.section_length \in Nat /\ table.program_info_length \in Nat
<1>1. mSrcBytes \in Seq(Byte) /\ mSrcInx \in Nat /\ readSize \in Nat
  BY DEF Types, TypeOK
<1>2. table \in Fields
  BY DEF Types
<1>3. table.section_length \in Length /\ table.program_info_length \in Length
  BY <1>2 DEF Fields
<1>4. table.section_length \in Nat /\ table.program_info_length \in Nat
  BY <1>3, LengthIsNat, Zenon
<1> QED
  BY <1>1, <1>4

\* The types of what a step changes.
LEMMA TypesStep ==
  ASSUME Types, UNCHANGED input,
         phase' \in Phases, mSrcInx' \in Nat, readSize' \in Nat, table' \in Fields,
         streams' \in Seq(StreamEntry), programs' \in Seq(Entry)
  PROVE  Types'
<1>1. table'.section_length \in Length /\ table'.program_info_length \in Length
  BY DEF Fields
<1>2. call' = call /\ mSrcBytes' = mSrcBytes
  BY DEF input
<1> QED
  BY <1>1, <1>2, Zenon DEF Types, TypeOK

LEMMA HasLess ==
  ASSUME Types, NEW m \in Nat, NEW n \in Nat, m <= n, Has(n)
  PROVE  Has(m)
BY Numbers DEF Has

\* What is in the buffer are bytes.
LEMMA BytesRead1 ==
  ASSUME Types, NEW i \in Nat, Has(i + 1)
  PROVE  At(i) \in Nat
<1>1. mSrcInx + i + 1 \in 1..Len(mSrcBytes)
  BY Numbers DEF Has
<1>2. mSrcBytes[mSrcInx + i + 1] \in Byte
  BY <1>1, Numbers
<1> QED
  BY <1>2 DEF At, Byte

LEMMA WordsRead ==
  ASSUME Types, NEW i \in Nat, Has(i + 2)
  PROVE  Word(i) \in Nat
<1>1. Has(i + 1) /\ Has((i + 1) + 1) /\ i + 1 \in Nat
  BY HasLess
<1>2. At(i) \in Nat /\ At(i + 1) \in Nat
  BY <1>1, BytesRead1
<1> QED
  BY <1>2 DEF Word

LEMMA WalkInit == Init => Walk
<1> SUFFICES ASSUME Init PROVE Walk
  OBVIOUS
<1>1. /\ call \in Calls /\ mSrcBytes \in Seq(Byte) /\ mSrcInx = 0
      /\ phase = IF call = Packet THEN "packet" ELSE "header"
  BY BuffersAssumption DEF Init, InitReader
<1>2. table = NoTable /\ programs = <<>> /\ streams = <<>> /\ readSize = 0
  BY DEF Init, InitTables
<1>3. Types
  BY <1>1, <1>2 DEF Types, TypeOK, NoTable, Fields, Phases, Length, Pid
<1>4. AtHeader /\ AtPacket
  BY <1>1, <1>2 DEF AtHeader, AtPacket, PacketPhases, Calls
<1> QED
  BY <1>1, <1>2, <1>3, <1>4 DEF Walk, AtPrograms, AtInfo, AtStreams, CursorFollowsLengths,
     BeginsBeforeCRC

\* A stop leaves everything but the phase.
LEMMA StopKeeps ==
  ASSUME Walk, phase' \in {"done", "thrown"},
         UNCHANGED <<input, mSrcInx, table, lists, readSize>>
  PROVE  Walk'
<1>1. Types'
  <2>1. phase' \in Phases
    BY DEF Phases
  <2>2. /\ Types /\ mSrcInx' = mSrcInx /\ readSize' = readSize /\ table' = table
        /\ streams' = streams /\ programs' = programs
    BY DEF Walk, lists
  <2>3. /\ mSrcInx' \in Nat /\ readSize' \in Nat /\ table' \in Fields
        /\ streams' \in Seq(StreamEntry) /\ programs' \in Seq(Entry)
    BY <2>2 DEF Types, TypeOK
  <2> QED
    BY <2>1, <2>2, <2>3, TypesStep
<1>2. BeginsBeforeCRC'
  BY DEF Walk, BeginsBeforeCRC, LastBegins, input, lists
<1> QED
  BY <1>1, <1>2 DEF Walk, AtPacket, AtHeader, AtPrograms, AtInfo, AtStreams,
     CursorFollowsLengths, PacketPhases

LEMMA ThrowKeeps == Walk /\ Throw => Walk'
BY StopKeeps DEF Throw

LEMMA HeaderKeeps ==
  ASSUME Walk, parsePsiTable
  PROVE  Walk'
<1>1. CASE ~Has(HeaderSize)
  BY <1>1, ThrowKeeps DEF parsePsiTable
<1>2. CASE Has(HeaderSize)
  <2> DEFINE length == Low12(Word(1))
  <2>1. length \in Length
    <3>1. Types /\ Has(1 + 2)
      BY <1>2, HasLess DEF HeaderSize, Walk
    <3>2. Word(1) \in Nat
      BY <3>1, WordsRead
    <3> QED
      BY <3>2, Remainders, Zenon
  <2>2. /\ table' = [table EXCEPT !.section_length = length]
        /\ mSrcInx' = mSrcInx + HeaderSize
        /\ UNCHANGED <<input, lists, readSize>>
    BY <1>2 DEF parsePsiTable
  <2>7. phase' = IF call = Pat THEN "programs" ELSE "program info"
    BY <1>2 DEF parsePsiTable
  <2> HIDE DEF length
  <2>3. mSrcInx = 0 /\ programs = <<>> /\ streams = <<>> /\ readSize = 0
    BY DEF parsePsiTable, Walk, AtHeader
  <2>4. Types'
    <3>1. Types /\ table \in Fields
      BY DEF Walk, Types
    <3>2. table' \in Fields
      <4>1. table' = [table EXCEPT !.section_length = length]
        BY <2>2
      <4>2. table \in Fields
        BY <3>1
      <4> QED
        BY ONLY <2>1, <4>1, <4>2 DEF Fields
    <3>3. mSrcInx' \in Nat /\ readSize' \in Nat
      BY <2>2, <2>3 DEF HeaderSize
    <3>5. phase' \in Phases
      BY <2>7 DEF Phases
    <3>4. streams' \in Seq(StreamEntry) /\ programs' \in Seq(Entry)
      BY <2>2, <2>3 DEF lists
    <3> QED
      BY <2>2, <3>1, <3>2, <3>3, <3>4, <3>5, TypesStep
  <2>5. AtPrograms' /\ AtInfo'
    <3>1. call \in {Pat, Pmt} /\ call' = call
      <4>1. call \in {Pat, Pmt}
        BY DEF parsePsiTable, Walk, AtHeader
      <4> QED
        BY <2>2, <4>1 DEF input
    <3>2. programs' = <<>> /\ streams' = <<>> /\ readSize' = 0 /\ mSrcInx' = HeaderSize
      BY <2>2, <2>3 DEF lists, HeaderSize
    <3>3. Len(programs') = 0
      BY <3>2
    <3>4. CASE call = Pat
      <4>1. phase' = "programs" /\ call' = Pat
        BY <2>7, <3>1, <3>4
      <4>2. AtInfo'
        BY <4>1 DEF AtInfo
      <4>3. mSrcInx' = HeaderSize + PAT_PACKET_PROGRAM_SIZE * Len(programs')
        BY <3>2, <3>3 DEF HeaderSize, PAT_PACKET_PROGRAM_SIZE
      <4>4. AtPrograms'
        BY <3>2, <4>1, <4>3, Zenon DEF AtPrograms
      <4> QED
        BY <4>2, <4>4
    <3>5. CASE call # Pat
      <4>1. phase' = "program info" /\ call' = Pmt
        BY <2>7, <3>1, <3>5
      <4>2. AtPrograms'
        BY <4>1 DEF AtPrograms
      <4>3. phase' # "descriptor"
        BY <4>1
      <4>4. AtInfo'
        BY <3>2, <4>1, <4>3, Zenon DEF AtInfo
      <4> QED
        BY <4>2, <4>4
    <3> QED
      BY <3>4, <3>5
  <2>6. AtPacket' /\ AtHeader' /\ AtStreams' /\ CursorFollowsLengths' /\ BeginsBeforeCRC'
    BY <2>2, <2>3, <2>7 DEF AtPacket, AtHeader, AtStreams, CursorFollowsLengths,
       BeginsBeforeCRC, lists, PacketPhases
  <2> QED
    BY <2>4, <2>5, <2>6 DEF Walk
<1> QED
  BY <1>1, <1>2

LEMMA ProgramKeeps ==
  ASSUME Walk, ReadProgram
  PROVE  Walk'
<1>1. CASE ~Has(PAT_PACKET_PROGRAM_SIZE)
  BY <1>1, ThrowKeeps DEF ReadProgram
<1>2. CASE Has(PAT_PACKET_PROGRAM_SIZE)
  <2> DEFINE entry == [program_number |-> Word(0), PID |-> Low13(Word(2)),
                       type |-> IF Word(0) = 0 THEN "NIT" ELSE "PMT"]
  <2>1. entry \in Entry
    <3>1. Types /\ Has(0 + 2) /\ Has(2 + 2)
      BY <1>2, HasLess DEF PAT_PACKET_PROGRAM_SIZE, Walk
    <3>2. Word(0) \in Nat /\ Word(2) \in Nat
      BY <3>1, WordsRead
    <3>3. Low13(Word(2)) \in Pid
      BY <3>2, Remainders, Zenon
    <3> DEFINE number == Word(0)
               pid    == Low13(Word(2))
    <3>4. number \in Nat /\ pid \in Pid
      BY <3>2, <3>3
    <3> HIDE DEF number, pid
    <3>6. pid \in Nat
      BY <3>4 DEF Pid
    <3>5. [program_number |-> number, PID |-> pid,
           type |-> IF number = 0 THEN "NIT" ELSE "PMT"] \in Entry
      BY <3>4, <3>6 DEF Entry
    <3> QED
      BY <3>5 DEF number, pid
  <2>2. /\ programs' = Append(programs, entry)
        /\ mSrcInx' = mSrcInx + PAT_PACKET_PROGRAM_SIZE
        /\ UNCHANGED <<input, phase, table, descriptors, streams, readSize>>
    BY <1>2 DEF ReadProgram
  <2> HIDE DEF entry
  <2>3. /\ phase = "programs" /\ call = Pat /\ streams = <<>>
        /\ mSrcInx = HeaderSize + PAT_PACKET_PROGRAM_SIZE * Len(programs)
        /\ Len(programs) \in Nat
    BY DEF ReadProgram, Walk, AtPrograms, Types
  <2>4. programs' \in Seq(Entry)
        /\ Len(programs') = Len(programs) + 1
    BY <2>1, <2>2 DEF Walk, Types
  <2>5. Types'
    <3>1. Types /\ mSrcInx \in Nat /\ readSize \in Nat /\ table \in Fields
          /\ phase \in Phases /\ streams \in Seq(StreamEntry)
      BY DEF Walk, Types, TypeOK
    <3>2. mSrcInx' \in Nat
      BY <2>2, <3>1 DEF PAT_PACKET_PROGRAM_SIZE
    <3> QED
      BY <2>2, <2>4, <3>1, <3>2, TypesStep
  <2>6. AtPrograms'
    BY <2>2, <2>3, <2>4 DEF AtPrograms, input, HeaderSize, PAT_PACKET_PROGRAM_SIZE
  <2>7. mSrcInx < 3 + table.section_length - CRC32_SIZE
    <3>2. table.section_length \in Int
      BY Numbers DEF Walk
    <3>1. Len(programs) < (table.section_length - 9) \div 4
      <4> DEFINE length == table.section_length
      <4>1. Len(programs) < (length - 5 - 4) \div 4
        BY DEF ReadProgram, numberOfPrograms, PAT_PACKET_OFFSET_LENGTH, CRC32_SIZE,
               PAT_PACKET_PROGRAM_SIZE
      <4>2. length \in Int
        BY <3>2
      <4> HIDE DEF length
      <4>3. length - 5 - 4 = length - 9
        BY <4>2
      <4>4. Len(programs) < (length - 9) \div 4
        BY <4>1, <4>3
      <4> QED
        BY <4>4 DEF length
    <3>3. 4 * ((table.section_length - 9) \div 4) <= table.section_length - 9
      BY <3>2
    <3>4. (table.section_length - 9) \div 4 \in Int
      BY <3>2
    <3> QED
      BY <2>3, <3>1, <3>2, <3>3, <3>4 DEF HeaderSize, PAT_PACKET_PROGRAM_SIZE, CRC32_SIZE
  <2>8. BeginsBeforeCRC'
    <3>1. LastBegins' = mSrcInx
      BY <2>2, <2>3 DEF LastBegins, input, HeaderSize, PAT_PACKET_PROGRAM_SIZE
    <3> QED
      BY <2>2, <2>7, <3>1 DEF BeginsBeforeCRC, CRC32_SIZE
  <2>9. AtPacket' /\ AtHeader' /\ AtInfo' /\ AtStreams' /\ CursorFollowsLengths'
    BY <2>2, <2>3 DEF AtPacket, AtHeader, AtInfo, AtStreams, CursorFollowsLengths,
       PacketPhases
  <2> QED
    BY <2>5, <2>6, <2>8, <2>9 DEF Walk
<1> QED
  BY <1>1, <1>2

LEMMA InfoKeeps ==
  ASSUME Walk, ReadProgramInfo
  PROVE  Walk'
<1>1. CASE ~Has(4)
  BY <1>1, ThrowKeeps DEF ReadProgramInfo
<1>2. CASE Has(4)
  <2>1. Word(0) \in Nat /\ Word(2) \in Nat
    <3>1. Types /\ Has(0 + 2) /\ Has(2 + 2)
      BY <1>2, HasLess DEF Walk
    <3> QED
      BY <3>1, WordsRead
  <2> DEFINE length == Low12(Word(2))
  <2>2. /\ length \in Length /\ Low13(Word(0)) \in Pid
        /\ Low10(length) = Low10(Word(2)) /\ Low10(length) \in Nat
    <3>1. length \in Length /\ Low13(Word(0)) \in Pid /\ Low10(Word(2)) \in Low
      BY <2>1, Remainders, Zenon
    <3>2. Low10(length) = Low10(Word(2))
      BY <2>1, LowOfLow, Zenon
    <3> HIDE DEF length
    <3> QED
      BY <3>1, <3>2 DEF Low
  <2>3. /\ table' = [table EXCEPT !.PCR_PID = Low13(Word(0)), !.program_info_length = length]
        /\ mSrcInx' = mSrcInx + 4
        /\ phase' = IF Low10(length) # 0 THEN "descriptor" ELSE "streams"
        /\ UNCHANGED <<input, lists, readSize>>
    <3>1. /\ table' = [table EXCEPT !.PCR_PID = Low13(Word(0)), !.program_info_length = length]
          /\ mSrcInx' = mSrcInx + 4
          /\ phase' = IF Low10(Word(2)) # 0 THEN "descriptor" ELSE "streams"
          /\ UNCHANGED <<input, lists, readSize>>
      BY <1>2, Zenon DEF ReadProgramInfo
    <3> HIDE DEF length
    <3> QED
      BY <2>2, <3>1
  <2> HIDE DEF length
  <2>4. /\ call = Pmt /\ programs = <<>> /\ streams = <<>> /\ readSize = 0
        /\ mSrcInx = HeaderSize
    BY DEF ReadProgramInfo, Walk, AtInfo
  <2>5. Types'
    <3>1. Types /\ table \in Fields
      BY DEF Walk, Types
    <3>2. table' \in Fields
      BY <2>2, <2>3, <3>1 DEF Fields
    <3>3. mSrcInx' \in Nat /\ readSize' \in Nat /\ phase' \in Phases
      BY <2>3, <2>4 DEF HeaderSize, Phases
    <3>4. streams' \in Seq(StreamEntry) /\ programs' \in Seq(Entry)
      BY <2>3, <2>4 DEF lists
    <3> QED
      BY <2>3, <3>1, <3>2, <3>3, <3>4, TypesStep
  <2>6. program_info_length' = Low10(length)
    <3>1. table \in Fields
      BY DEF Walk, Types
    <3> QED
      BY <2>3, <3>1 DEF program_info_length, Fields
  <2>7. AtInfo' /\ CursorFollowsLengths'
    BY <2>2, <2>3, <2>4, <2>6 DEF AtInfo, CursorFollowsLengths, FirstStream, HeaderSize,
                                  input, lists
  <2>8. AtPacket' /\ AtHeader' /\ AtPrograms' /\ AtStreams' /\ BeginsBeforeCRC'
    BY <2>3, <2>4 DEF AtPacket, AtHeader, AtPrograms, AtStreams, BeginsBeforeCRC, input,
       lists, PacketPhases
  <2> QED
    BY <2>5, <2>7, <2>8 DEF Walk
<1> QED
  BY <1>1, <1>2

\* What is read of a descriptor and what is taken off for it are the same.
LEMMA SameSize ==
  ASSUME NEW tag
  PROVE  TakenOff(tag) = BytesRead(tag) /\ BytesRead(tag) \in Nat
BY DEF TakenOff, BytesRead, maximum_bitrate_descriptor, metadata_pointer_descriptor,
       user_private_178

LEMMA DescriptorKeeps ==
  ASSUME Walk, ReadDescriptor
  PROVE  Walk'
<1>1. CASE Throw
  BY <1>1, ThrowKeeps
<1>2. CASE ~Throw
  <2> DEFINE size == BytesRead(At(0))
  <2>1. /\ mSrcInx' = mSrcInx + size + program_info_length - TakenOff(At(0))
        /\ phase' = "streams"
        /\ UNCHANGED <<input, table, programs, streams, readSize>>
    BY <1>2 DEF ReadDescriptor
  <2>2. size \in Nat /\ TakenOff(At(0)) = size
    BY SameSize
  <2> HIDE DEF size
  <2>3. program_info_length \in Nat /\ mSrcInx \in Nat
    <3>1. Types
      BY DEF Walk
    <3>2. mSrcInx \in Nat /\ table.program_info_length \in Nat
      BY <3>1, Numbers
    <3>3. program_info_length \in Low
      BY <3>2, Remainders, Zenon DEF program_info_length
    <3> QED
      BY <3>2, <3>3 DEF Low
  <2>4. mSrcInx' = mSrcInx + program_info_length
    BY <2>1, <2>2, <2>3
  <2>5. /\ call = Pmt /\ programs = <<>> /\ streams = <<>> /\ readSize = 0
        /\ mSrcInx = HeaderSize + 4
    BY DEF ReadDescriptor, Walk, AtInfo
  <2>6. Types'
    <3>1. /\ Types /\ table \in Fields /\ readSize \in Nat
          /\ streams \in Seq(StreamEntry) /\ programs \in Seq(Entry)
      BY DEF Walk, Types, TypeOK
    <3>2. mSrcInx' \in Nat /\ phase' \in Phases
      BY <2>1, <2>3, <2>4 DEF Phases
    <3> QED
      BY <2>1, <3>1, <3>2, TypesStep
  <2>7. program_info_length' = program_info_length
    BY <2>1 DEF program_info_length
  <2>8. CursorFollowsLengths'
    BY <2>1, <2>3, <2>4, <2>5, <2>7 DEF CursorFollowsLengths, FirstStream, HeaderSize
  <2>9. AtPacket' /\ AtHeader' /\ AtPrograms' /\ AtInfo' /\ AtStreams' /\ BeginsBeforeCRC'
    BY <2>1, <2>5 DEF PacketPhases, AtPacket, AtHeader, AtPrograms, AtInfo, AtStreams, BeginsBeforeCRC, input
  <2> QED
    BY <2>6, <2>8, <2>9 DEF Walk
<1> QED
  BY <1>1, <1>2

LEMMA StreamKeeps ==
  ASSUME Walk, ReadStream
  PROVE  Walk'
<1>1. CASE Throw
  BY <1>1, ThrowKeeps
<1>2. CASE ~Throw
  <2> DEFINE skip  == Low10(Word(3))
             entry == [stream_type |-> At(0), elementary_PID |-> Low13(Word(1)),
                       ES_info_length |-> Low12(Word(3))]
  <2>1. Has(PMT_STREAM_TYPE_LENGTH)
    BY <1>2 DEF ReadStream
  <2>2. At(0) \in Nat /\ Word(1) \in Nat /\ Word(3) \in Nat
    <3>1. Types /\ Has(0 + 1) /\ Has(1 + 2) /\ Has(3 + 2)
      BY <2>1, HasLess DEF PMT_STREAM_TYPE_LENGTH, Walk
    <3> QED
      BY <3>1, BytesRead1, WordsRead
  <2>3. entry \in StreamEntry /\ skip \in Nat /\ Low10(entry.ES_info_length) = skip
    BY <2>2 DEF StreamEntry, Low10, Low12, Low13
  <2>4. /\ streams' = Append(streams, entry)
        /\ mSrcInx' = mSrcInx + PMT_STREAM_TYPE_LENGTH + skip
        /\ readSize' = readSize + skip + PMT_STREAM_TYPE_LENGTH
        /\ UNCHANGED <<input, phase, table, programs, descriptors>>
    BY <1>2 DEF ReadStream
  <2> HIDE DEF entry, skip
  <2>5. /\ phase = "streams" /\ call = Pmt /\ programs = <<>> /\ readSize < streamsSize
        /\ mSrcInx = FirstStream + readSize
    BY DEF ReadStream, Walk, AtStreams, CursorFollowsLengths
  <2>6. /\ table.section_length \in Nat /\ table.program_info_length \in Nat
        /\ readSize \in Nat /\ mSrcInx \in Nat
        /\ program_info_length \in Nat /\ program_info_length <= table.program_info_length
    BY Numbers DEF Walk, program_info_length, Low10
  <2>7. /\ streams' \in Seq(StreamEntry) /\ streams' # <<>>
        /\ streams'[Len(streams')] = entry
    <3>1. streams \in Seq(StreamEntry)
      BY DEF Walk, Types
    <3> QED
      BY <2>3, <2>4, <3>1
  <2>8. Types'
    <3>1. Types /\ table \in Fields /\ programs \in Seq(Entry) /\ phase \in Phases
      BY DEF Walk, Types, TypeOK
    <3>2. mSrcInx' \in Nat /\ readSize' \in Nat
      BY <2>3, <2>4, <2>6 DEF PMT_STREAM_TYPE_LENGTH
    <3> QED
      BY <2>4, <2>7, <3>1, <3>2, TypesStep
  <2>9. CursorFollowsLengths'
    <3>1. FirstStream' = FirstStream /\ FirstStream \in Nat
      BY <2>4, <2>6 DEF FirstStream, program_info_length, HeaderSize
    <3> QED
      BY <2>3, <2>4, <2>5, <2>6, <3>1 DEF CursorFollowsLengths, PMT_STREAM_TYPE_LENGTH
  <2>10. mSrcInx < 3 + table.section_length - CRC32_SIZE
    BY <2>5, <2>6 DEF FirstStream, streamsSize, HeaderSize, PMT_PACKET_OFFSET_LENGTH, CRC32_SIZE
  <2>11. BeginsBeforeCRC'
    <3>1. LastBegins' = mSrcInx'
                        - PMT_STREAM_TYPE_LENGTH - Low10(streams'[Len(streams')].ES_info_length)
      BY <2>4, <2>5 DEF LastBegins, input, Pat, Pmt
    <3>2. LastBegins' = mSrcInx
      BY <2>3, <2>4, <2>6, <2>7, <3>1 DEF PMT_STREAM_TYPE_LENGTH
    <3> QED
      BY <2>4, <2>10, <3>2 DEF BeginsBeforeCRC, CRC32_SIZE
  <2>12. AtPacket' /\ AtHeader' /\ AtPrograms' /\ AtInfo' /\ AtStreams'
    BY <2>4, <2>5 DEF PacketPhases, AtPacket, AtHeader, AtPrograms, AtInfo, AtStreams, input
  <2> QED
    BY <2>8, <2>9, <2>11, <2>12 DEF Walk
<1> QED
  BY <1>1, <1>2

\* The walk over a packet leaves the tables alone.
LEMMA PacketKeeps ==
  ASSUME Walk, PacketWalk', ParsePacket, UNCHANGED tables
  PROVE  Walk'
<1>1. phase \in PacketPhases /\ phase' \in PacketPhases \cup {"done", "thrown"} /\ UNCHANGED input
  BY DEF ParsePacket, parseTsHeader, EmptyField, parseAdaptationFieldHeader, ReadClocks,
     ReadPrivateData, ReadExtension, Refuse, EndInfo, PacketPhases
<1>2. call = Packet /\ programs = <<>> /\ streams = <<>>
  BY <1>1 DEF Walk, AtPacket
<1>3. /\ call' = Packet /\ programs' = <<>> /\ streams' = <<>>
      /\ readSize' = readSize /\ table' = table
  BY <1>1, <1>2 DEF input, tables, lists
<1>4. mSrcInx' \in Nat
  BY <1>3 DEF PacketWalk, PacketTypes
<1>5. Types'
  <2>1. Types /\ readSize \in Nat /\ table \in Fields
    BY DEF Walk, Types, TypeOK
  <2>2. phase' \in Phases
    BY <1>1 DEF PacketPhases, Phases
  <2>3. programs' \in Seq(Entry) /\ streams' \in Seq(StreamEntry)
    BY <1>3
  <2> QED
    BY <1>1, <1>3, <1>4, <2>1, <2>2, <2>3, TypesStep
<1> QED
  BY <1>1, <1>3, <1>5 DEF Walk, AtPacket, AtHeader, AtPrograms, AtInfo, AtStreams,
     CursorFollowsLengths, BeginsBeforeCRC, PacketPhases

\* Walk is inductive, with PacketWalk, that has the types of the rest.
THEOREM AlwaysWalks == Spec => []Walk
<1>1. Walk /\ PacketWalk' /\ [Next]_vars => Walk'
  <2> SUFFICES ASSUME Walk, PacketWalk', [Next]_vars PROVE Walk'
    OBVIOUS
  <2>1. CASE parsePsiTable
    BY <2>1, HeaderKeeps
  <2>2. CASE ReadProgram
    BY <2>2, ProgramKeeps
  <2>3. CASE ReadProgramInfo
    BY <2>3, InfoKeeps
  <2>4. CASE ReadDescriptor
    BY <2>4, DescriptorKeeps
  <2>5. CASE ReadStream
    BY <2>5, StreamKeeps
  <2>6. CASE Return
    BY <2>6, StopKeeps DEF Return
  <2>8. CASE ParsePacket /\ UNCHANGED tables
    BY <2>8, PacketKeeps
  <2>7. CASE UNCHANGED vars
    BY <2>7 DEF vars, input, tables, lists, Walk, AtPacket, Types, TypeOK, AtHeader, AtPrograms, AtInfo,
       AtStreams, CursorFollowsLengths, FirstStream, program_info_length,
       BeginsBeforeCRC, LastBegins, At, Word
  <2> QED
    BY <2>1, <2>2, <2>3, <2>4, <2>5, <2>6, <2>7, <2>8 DEF Next, ParseTable
<1> QED
  BY <1>1, WalkInit, AlwaysPacketWalks, PTL DEF Spec

\* skipBytes of parsePmtPacket brings the cursor to the first stream whatever
\* the first descriptor says of itself, and readSize keeps pace with it.
THEOREM CursorAlwaysFollowsLengths == Spec => []CursorFollowsLengths
<1>1. Walk => CursorFollowsLengths
  BY DEF Walk
<1> QED
  BY <1>1, AlwaysWalks, PTL

\* parsePatPacket and parsePmtPacket never take the CRC, or what follows it,
\* for a program or a stream, in any buffer.
THEOREM AlwaysBeginsBeforeCRC == Spec => []BeginsBeforeCRC
<1>1. Walk => BeginsBeforeCRC
  BY DEF Walk
<1> QED
  BY <1>1, AlwaysWalks, PTL

\* The fields read stay within their widths.
THEOREM AlwaysTyped == Spec => []TypeOK
<1>1. Walk => TypeOK
  BY DEF Walk, Types
<1> QED
  BY <1>1, AlwaysWalks, PTL
=============================================================================
