----------------------------- MODULE MCTsParsing ----------------------------
(* Instances of TsParsing for TLC: sections and packets as ISO/IEC 13818-1, *)
(* tables 2-30, 2-33 and 2-6, lays them out, intact and damaged.            *)
EXTENDS TsParsing, FiniteSets

Fill(n) == [i \in 1..n |-> 71]
Two(n)  == <<n \div 256, n % 256>>

\* The sequences over a set of at most n elements, and a row of rows as one row.
SeqsUpTo(S, n) == UNION {[1..k -> S] : k \in 0..n}
Flat(rows) ==
  LET flat[i \in 0..Len(rows)] == IF i = 0 THEN <<>> ELSE flat[i - 1] \o rows[i]
  IN  flat[Len(rows)]
Each(list, Bytes(_)) == Flat([i \in DOMAIN list |-> Bytes(list[i])])

\* A section around its body; reserved bits are set.
Section(id, body) ==
  <<id>> \o Two(45056 + Len(body) + 5 + CRC32_SIZE) \o Two(1) \o <<195, 0, 0>>
    \o body \o Fill(CRC32_SIZE)

ProgramBytes(g) == Two(g.program_number) \o Two(57344 + g.PID)
PatBytes(list) == Section(0, Each(list, ProgramBytes))

DescriptorBytes(d) == <<d[1], d[2]>> \o Fill(d[2])
StreamBytes(s) ==
  <<s.stream_type>> \o Two(57344 + s.elementary_PID) \o Two(61440 + s.ES_info_length)
    \o Fill(s.ES_info_length)
PmtBytes(about, list) ==
  Section(2, LET bytes == Each(about, DescriptorBytes)
             IN  Two(57344 + 258) \o Two(61440 + Len(bytes)) \o bytes \o Each(list, StreamBytes))

Programs == {[program_number |-> 0, PID |-> 16, type |-> "NIT"],
             [program_number |-> 1, PID |-> 258, type |-> "PMT"]}
Descriptors == {<<14, 3>>, <<37, 5>>, <<178, 0>>, <<178, 2>>, <<9, 4>>}
Streams == {[stream_type |-> 27, elementary_PID |-> 259, ES_info_length |-> 0],
            [stream_type |-> 3, elementary_PID |-> 4660, ES_info_length |-> 6]}

Intact ==
  {[call |-> Pat, bytes |-> PatBytes(list) \o Fill(n),
    sent |-> [programs |-> list, streams |-> <<>>, PCR_PID |-> 0]] :
      list \in SeqsUpTo(Programs, 3), n \in {0, 7}}
  \cup
  {[call |-> Pmt, bytes |-> PmtBytes(about, list) \o Fill(n),
    sent |-> [programs |-> <<>>, streams |-> list, PCR_PID |-> 258]] :
      about \in SeqsUpTo(Descriptors, 2), list \in SeqsUpTo(Streams, 2), n \in {0, 7}}

\* One byte lies, a length, a descriptor tag or another one, or the end is missing.
Lies == {0, 1, 6, 14, 37, 178, 255}
Damage(b) ==
  LET With(bytes) == [call |-> b.call, bytes |-> bytes, sent |-> Damaged]
  IN  {With([b.bytes EXCEPT ![i] = lie]) :
         i \in {2, 3, 11, 12, 13, 14, 16, 17} \cap DOMAIN b.bytes, lie \in Lies}
      \cup {With(SubSeq(b.bytes, 1, n)) : n \in {5, 8, 10, 13, 15} \cap DOMAIN b.bytes}
Some == {b \in Intact : Len(b.sent.programs) < 3
                        /\ Len(b.sent.streams) = 2 => Cardinality({b.sent.streams[i] : i \in 1..2}) = 2}

-----------------------------------------------------------------------------
(* TS packets: one with an adaptation field is described by the numbers of  *)
(* private data and extension bytes (or None), stuffing, and the flags that *)
(* are set.                                                                 *)

None == -1
Bit(on) == IF on THEN 1 ELSE 0
Clock(n) == <<18, 52, 86, 120, 254 + Bit(n > 255), n % 256>>
Variable(n) == IF n = None THEN <<>> ELSE <<n>> \o Fill(n)

FieldBytes(f) ==
  LET optional == (IF f.pcr THEN Clock(44) ELSE <<>>) \o (IF f.opcr THEN Clock(299) ELSE <<>>)
                    \o (IF f.splice THEN <<9>> ELSE <<>>)
                    \o Variable(f.private) \o Variable(f.extension) \o Fill(f.stuffing)
      bits == 128 * Bit(f.disc) + 16 * Bit(f.pcr) + 8 * Bit(f.opcr) + 4 * Bit(f.splice)
                + 2 * Bit(f.private # None) + Bit(f.extension # None)
  IN  <<Len(optional) + 1, bits>> \o optional

PacketOf(field, control, start) ==
  LET front == <<71, 31 + 64 * Bit(start), 255, 16 * control + 7>> \o field
  IN  front \o Fill(TS_PACKET_SIZE - Len(front))

\* What the packet says.
Parts(n) == <<4660, 22136, 1, n>>
InfoOf(f, control, start) ==
  [NoInfo EXCEPT !.isPayloadStart = start, !.hasAdaptationField = TRUE,
     !.hasPayload = control = 3, !.continuityCounter = 7, !.isDiscontinuity = f.disc,
     !.pcr = IF f.pcr THEN Parts(44) ELSE NoClock, !.opcr = IF f.opcr THEN Parts(299) ELSE NoClock,
     !.privateDataSize = IF f.private = None THEN 0 ELSE f.private,
     !.privateDataOffset =
        IF f.private = None THEN 0
        ELSE 7 + 6 * Bit(f.pcr) + 6 * Bit(f.opcr) + Bit(f.splice),
     !.payloadStartOffset = IF control = 3 THEN 4 + Len(FieldBytes(f)) ELSE 0]

FieldSet ==
  [disc : BOOLEAN, pcr : BOOLEAN, opcr : BOOLEAN, splice : BOOLEAN,
   private : {None, 0, 5}, extension : {None, 0, 4}, stuffing : {0, 3, 150}]
PacketInput(bytes, says) == [call |-> Packet, bytes |-> bytes, sent |-> says]

IntactPackets ==
  {PacketInput(PacketOf(FieldBytes(f), control, start), InfoOf(f, control, start)) :
     f \in FieldSet, control \in {2, 3}, start \in BOOLEAN}
  \cup
  {PacketInput(PacketOf(<<>>, 1, start),
               [NoInfo EXCEPT !.isPayloadStart = start, !.hasPayload = TRUE,
                              !.continuityCounter = 7, !.payloadStartOffset = 4]) :
     start \in BOOLEAN}
  \cup
  {PacketInput(PacketOf(<<0>>, 3, TRUE),
               [NoInfo EXCEPT !.isPayloadStart = TRUE, !.hasAdaptationField = TRUE,
                              !.hasPayload = TRUE, !.continuityCounter = 7,
                              !.payloadStartOffset = 5])}

\* The length of the field, of its private data or of its extension lies.
LyingFields ==
  [disc : {TRUE}, pcr : BOOLEAN, opcr : {FALSE}, splice : BOOLEAN,
   private : {None, 5}, extension : {None, 4}, stuffing : {3}]
LyingPackets ==
  {PacketInput([PacketOf(FieldBytes(f), 3, TRUE) EXCEPT ![place] = lie], Damaged) :
     f \in LyingFields, place \in {5, 7, 8, 13, 14, 19, 20},
     lie \in {0, 1, 3, 20} \cup (166..184) \cup {250, 251, 252, 255}}

Inputs == Intact \cup UNION {Damage(b) : b \in Some} \cup IntactPackets \cup LyingPackets
=============================================================================
