---------------------------- MODULE PesCollector ----------------------------
(***************************************************************************)
(* TsParser::collectPes and parsePesPacket (libs/mpeg2ts/src/TsParser.cc): *)
(* the assembly of the PES packets of a PID from its TS packets.           *)
(*                                                                         *)
(* mPesPacket has a key for a PID exactly when a PES packet of that PID    *)
(* has started and has not been returned; NoPes stands for the absent key. *)
(* pesOut is what the last call returned: the packet when it returned      *)
(* true, NoPes when it returned false.                                     *)
(***************************************************************************)
EXTENDS TsParser, TsStatistics

CONSTANT PesHeaderSize      (* PES_PACKET_HEADER_SIZE, in cells.           *)

ASSUME PesHeaderAssumption == PesHeaderSize \in Nat \ {0} /\ PesHeaderSize <= MaxPayload

VARIABLES mPesPacket, pesOut

NoPes == [mPesBuffer |-> <<>>, PES_packet_length |-> 0, pts |-> 0, dts |-> 0]

\* What the first bytes of a PES packet say.  flags is PTS_DTS_flags; pts and
\* dts are the values coded after it.
PesHeader(length, optional, flags, pts, dts) ==
  [PES_packet_length |-> length, PES_has_optional_header |-> optional,
   PTS_DTS_flags |-> flags, pts |-> pts, dts |-> dts]

\* parsePesPacket: time stamps are only looked for in an optional header, and
\* only there does an absent one become -1.
parsePesPacket(head, buffer) ==
  [mPesBuffer        |-> buffer,
   PES_packet_length |-> head.PES_packet_length,
   pts |-> IF ~head.PES_has_optional_header THEN 0
           ELSE IF head.PTS_DTS_flags \in {2, 3} THEN head.pts ELSE NoTime,
   dts |-> IF ~head.PES_has_optional_header THEN 0
           ELSE IF head.PTS_DTS_flags = 3 THEN head.dts ELSE NoTime]

\* The test for an incomplete packet when the next one starts.
Incomplete(pes) ==
  pes.PES_packet_length > 0 /\ Len(pes.mPesBuffer) < pes.PES_packet_length

\* The test for the end of a packet of known length.
CompleteSansHeader(pes) == Len(pes.mPesBuffer) = pes.PES_packet_length         \* mutant
Complete(pes) == Len(pes.mPesBuffer) = pes.PES_packet_length + PesHeaderSize

\* Whether a PES packet of the PID is under collection.
StartedAlways(pid) == TRUE                                                     \* mutant
Started(pid) == mPesPacket[pid] # NoPes

\* What stays in the map after a continuation.
Kept(pes) == pes                                                               \* mutant
Remaining(pes) == IF Complete(pes) THEN NoPes ELSE pes

Extended(pes, payload) == [pes EXCEPT !.mPesBuffer = @ \o payload]

-----------------------------------------------------------------------------
InitPes ==
  /\ mPesPacket = [p \in Pids |-> NoPes]
  /\ pesOut = NoPes

\* A unit start returns the packet under collection, unless it is too short,
\* and begins a new one.
StartPes(pkt, info) ==
  LET pid == info.pid
      previous == mPesPacket[pid]
      payload  == BytesFrom(pkt, info.payloadStartOffset)
  IN  /\ info.isPayloadStart
      /\ pesOut' = IF previous.mPesBuffer # <<>> /\ ~Incomplete(previous) THEN previous ELSE NoPes
      /\ mPesPacket' = [mPesPacket EXCEPT ![pid] = parsePesPacket(pkt.head, payload)]

\* Nothing has started: the packet is ignored.
IgnorePes(info) ==
  /\ ~info.isPayloadStart
  /\ ~Started(info.pid)
  /\ pesOut' = NoPes
  /\ UNCHANGED mPesPacket

\* Everything from the payload offset to the end of the TS packet is appended;
\* a PES packet that has reached its length is returned and forgotten.
AppendPes(pkt, info) ==
  LET pid == info.pid
      pes == Extended(mPesPacket[pid], BytesFrom(pkt, info.payloadStartOffset))
  IN  /\ ~info.isPayloadStart
      /\ Started(pid)
      /\ pesOut' = IF Complete(pes) THEN pes ELSE NoPes
      /\ mPesPacket' = [mPesPacket EXCEPT ![pid] = Remaining(pes)]

\* collectPes, but for what it records in mStatistics (PesStatistics).
collectPes(pkt, info, origin) ==
  /\ StartPes(pkt, info) \/ IgnorePes(info) \/ AppendPes(pkt, info)
  /\ RecordOrigin(info, origin)

\* The statistics calls of collectPes, in their order, for a call that
\* returned `out`.
PesStatistics(s, info, out) ==
  LET counted == checkTsDiscontinuity(checkCCError(s, info.continuityCounter),
                                      info.hasAdaptationField /\ info.isDiscontinuity)
      clocked == IF info.hasAdaptationField THEN buildPcrHistogram(counted, info.pcr)
                 ELSE counted
  IN  IF out = NoPes THEN clocked
      ELSE buildDtsHistogram(buildPtsHistogram(clocked, out.pts), out.dts)
=============================================================================
