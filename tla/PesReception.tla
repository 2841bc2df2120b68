---------------------------- MODULE PesReception ----------------------------
(***************************************************************************)
(* PES packets of a few PIDs, sent as TS packets, received by collectPes.  *)
(*                                                                         *)
(* One step carries one TS packet from the sender over a channel that may  *)
(* lose it or deliver the last one again, and has the receiver run         *)
(* collectPes on it, as TsDemuxer::demux does for a PID registered with    *)
(* addPesPid.  What the PES callback is given is kept in `delivered`.      *)
(***************************************************************************)
EXTENDS PesCollector, TsChannel

CONSTANT
  MaxUnbounded     (* Bound: cells of a PES packet of unknown length.      *)

ASSUME PesHeadsAssumption ==
  /\ Heads \subseteq [PES_packet_length : Nat, PES_has_optional_header : BOOLEAN,
                     PTS_DTS_flags : 0..3, pts : Nat, dts : Nat]
  /\ MaxUnbounded \in Nat

VARIABLES
  mPidStatistics,
  delivered,       (* History, per PID: the PES callbacks.                 *)
  gap,             (* History, per PID: packets with payload lost since    *)
                   (* the last one that arrived.                           *)
  gapsSeen,        (* History, per PID: arrivals after a gap the counter   *)
                   (* can show.                                            *)
  clocks           (* History, per PID: the adaptation fields that arrived.*)

receiver == <<mPesPacket, pesOut, mOrigins, mPidStatistics>>
sender   == <<units, cc>>
history  == <<delivered, gap, gapsSeen, clocks>>
vars     == <<receiver, sender, channel, history>>

\* PesHeader with PES_packet_length 0 leaves the end open.
PesSize(head) ==
  IF head.PES_packet_length = 0 THEN MaxUnbounded ELSE head.PES_packet_length + PesHeaderSize

UnitDone(p) ==
  units[p] # <<>> =>
    LET unit == Last(units[p])
    IN  unit.head.PES_packet_length = 0 \/ unit.sent = PesSize(unit.head)

Init ==
  /\ InitPes /\ InitOrigins /\ InitSender /\ InitChannel
  /\ mPidStatistics = [p \in Pids |-> NewPidStatistic]
  /\ delivered = [p \in Pids |-> <<>>]
  /\ gap = [p \in Pids |-> 0] /\ gapsSeen = [p \in Pids |-> 0]
  /\ clocks = [p \in Pids |-> <<>>]

-----------------------------------------------------------------------------
(* The receiver *)

\* Whether the counter of the arriving packet, `step` after that of the last
\* packet sent, can tell that packets are missing: not when it has come round
\* to where it was or to the one after.
GapShows(p, step) ==
  /\ mPidStatistics[p].lastCC # INVALID_CC
  /\ (gap[p] + step) % CCModulus \notin {0, 1}

\* demux of a TS packet on a PID that has a PES callback.  The origin set for
\* the packet (setOrigin) is its position in the stream of its PID.
Arrive(p, pkt, step) ==
  LET info == parseTsPacketInfo(pkt)
  IN  /\ collectPes(pkt, info, Position(p))
      /\ mPidStatistics' = [mPidStatistics EXCEPT ![p] = PesStatistics(@, info, pesOut')]
      /\ delivered' = IF pesOut' = NoPes THEN delivered
                      ELSE [delivered EXCEPT ![p] =
                              Append(@, [pes |-> pesOut', origin |-> mOrigins'[p],
                                         byLength |-> ~info.isPayloadStart])]
      /\ gap' = [gap EXCEPT ![p] = 0]
      /\ gapsSeen' = [gapsSeen EXCEPT ![p] = IF GapShows(p, step) THEN @ + 1 ELSE @]
      /\ clocks' = IF pkt.adaptation_field_control = PayloadOnly THEN clocks
                   ELSE [clocks EXCEPT ![p] = Append(@, pkt.af)]

-----------------------------------------------------------------------------
(* The steps *)

\* The unit under collection, as long as it has not been returned.
OpenUnit(p) == IF mPesPacket[p] = NoPes THEN {} ELSE {Len(units[p])}

\* A packet with payload goes through or is lost; losing the start of a unit
\* also hurts the one before it, which its end was to show.
Transfer(p, pkt) ==
  /\ Remember(p, pkt)
  /\ \/ Arrive(p, pkt, 1) /\ Harms(p, {})
     \/ /\ Fault("lose", p, {Len(units'[p])} \cup
                 IF pkt.payload_unit_start_indicator THEN OpenUnit(p) ELSE {})
        /\ gap' = [gap EXCEPT ![p] = @ + 1]
        /\ UNCHANGED <<receiver, delivered, gapsSeen, clocks>>

SendStart(p) ==
  /\ UnitDone(p)
  /\ \E head \in Heads, flags \in AfFlags :
     \E n \in PesHeaderSize..SizeOrLess(MaxPayload, PesSize(head)) :
       /\ BeginUnit(p, 0, head, n)
       /\ Transfer(p, PayloadPacket(p, TRUE, flags, head, Cells(p, CurrentUnit(p) + 1, 1, n)))

SendMore(p) ==
  /\ units[p] # <<>>
  /\ LET unit == Last(units[p])
     IN  \E flags \in AfFlags,
            n \in 1..SizeOrLess(MaxPayload, PesSize(unit.head) - unit.sent) :
           /\ ResumeUnit(p, n)
           /\ Transfer(p, PayloadPacket(p, FALSE, flags, unit.head,
                             Cells(p, CurrentUnit(p), unit.sent + 1, unit.sent + n)))

\* The stream repeats its last packet.
RepeatPacket(p) ==
  /\ Repeatable(p)
  /\ UNCHANGED sender
  /\ Arrive(p, lastPacket[p], 0)
  /\ Fault("repeat", p, OpenUnit(p))

\* A packet without payload, as those that only carry a clock reference.
SendAdaptation(p) ==
  /\ UNCHANGED <<sender, lastPacket>>
  /\ \E flags \in AfFlags : Arrive(p, AdaptationPacket(p, flags), 0)
  /\ Fault("adaptation", p, OpenUnit(p))

Next ==
  \E p \in Pids : SendStart(p) \/ SendMore(p) \/ RepeatPacket(p) \/ SendAdaptation(p)

Spec == Init /\ [][Next]_vars

-----------------------------------------------------------------------------
(* Properties *)

PesPackets(p) == {d.pes : d \in Range(delivered[p])}

PesRecord == [mPesBuffer : Seq(Cell), PES_packet_length : Nat, pts : Int, dts : Int]

\* The collector's maps and the histories have their types.
TypeOK ==
  /\ mPesPacket \in [Pids -> PesRecord]
  /\ pesOut \in PesRecord
  /\ \A p \in Pids : mPesPacket[p] # NoPes => mPesPacket[p].mPesBuffer # <<>>
  /\ mOrigins \in [Pids -> Nat]
  /\ ChannelTypeOK
  /\ gap \in [Pids -> Nat] /\ gapsSeen \in [Pids -> Nat]

\* The cells of unit u of PID p that have been sent.
Unit(p, u) == Cells(p, u, 1, units[p][u].sent)

Service == INSTANCE UnitDelivery WITH
  sent      <- [p \in Pids |-> [u \in DOMAIN units[p] |-> Unit(p, u)]],
  delivered <- [p \in Pids |-> [i \in DOMAIN delivered[p] |-> delivered[p][i].pes.mPesBuffer]],
  harmed    <- {p \in Pids : damaged[p] # {}}

\* Until a fault touches a PES packet of a PID, the PES callback of that PID is
\* given every PES packet, whole, in order, once, at the latest when the next
\* one starts (collectPes).
DeliversUnits == Service!Spec

IsIntact(p, i, u) == delivered[p][i].pes.mPesBuffer = Unit(p, u)

\* A fault hurts no PES packet but the ones it touches: every other one is
\* delivered whole and once as soon as its successor has started, and
\* whatever else is delivered is what remains of a damaged one.
DamageIsContained ==
  \A p \in Pids :
    /\ \A u \in 1..(Len(units[p]) - 1) \ damaged[p] :
          Cardinality({i \in DOMAIN delivered[p] : IsIntact(p, i, u)}) = 1
    /\ \A i \in DOMAIN delivered[p] :
          LET u == UnitOf(delivered[p][i].pes.mPesBuffer[1])
          IN  u \in damaged[p] \/ IsIntact(p, i, u)

\* Whatever is lost, repeated or put in between, what is collected or delivered begins with the
\* first byte of a PES packet of its PID, and its PES_packet_length is that
\* packet's own.
BeginsWithHeader ==
  \A p \in Pids : \A pes \in (PesPackets(p) \cup {mPesPacket[p]}) \ {NoPes} :
    \E u \in DOMAIN units[p] :
      /\ pes.mPesBuffer[1] = <<p, u, 1>>
      /\ pes.PES_packet_length = units[p][u].head.PES_packet_length

\* Loss makes holes but never disorder: in what is delivered and what is
\* collected after it, the cells are in the order sent and no cell is handed
\* out twice.
Before(c, d) ==
  /\ PidOf(c) = PidOf(d)
  /\ UnitOf(c) < UnitOf(d) \/ (UnitOf(c) = UnitOf(d) /\ IndexOf(c) < IndexOf(d))
Ascend(cells) == \A i, j \in DOMAIN cells : i < j => Before(cells[i], cells[j])
Precede(cells, more) == \A i \in DOMAIN cells, j \in DOMAIN more : Before(cells[i], more[j])
CellsInOrder ==
  happened \subseteq {"lose"} => \A p \in Pids :
    LET given(i) == delivered[p][i].pes.mPesBuffer
        open     == mPesPacket[p].mPesBuffer
    IN  /\ Ascend(open)
        /\ \A i \in DOMAIN delivered[p] :
             /\ Ascend(given(i)) /\ Precede(given(i), open)
             /\ \A j \in DOMAIN delivered[p] : i < j => Precede(given(i), given(j))

\* The number of continuity errors of a PID is the number of gaps its counter
\* can show: loss is never counted twice, and repetitions and packets without
\* payload are never counted.
CCErrorsAreGaps ==
  \A p \in Pids : mPidStatistics[p].numberOfCCErrors = gapsSeen[p]

\* getOrigin, read inside the PES callback, is the origin of the delivered
\* packet when its length ended it; when the start of the next one did, it is
\* already the origin of that one (no fault having touched either).
OriginOfDelivered ==
  \A p \in Pids : \A i \in DOMAIN delivered[p] :
    LET d == delivered[p][i]
        u == UnitOf(d.pes.mPesBuffer[1])
        setter == IF d.byLength THEN u ELSE u + 1
    IN  {u, setter} \cap damaged[p] = {} => d.origin = StartOf(p, setter)

\* What a track of time stamps says of the stamps it was given.
StepsOfSize(present, d) == {i \in 1..(Len(present) - 1) : present[i + 1] - present[i] = d}
DifferencesOf(present) == {present[i + 1] - present[i] : i \in 1..(Len(present) - 1)}
HistogramOf(present) ==
  [d \in DifferencesOf(present) |-> Cardinality(StepsOfSize(present, d))]
TrackOf(stamps) ==
  LET present == Picked(stamps, Int \ {NoTime})
  IN  [last |-> IF present = <<>> THEN NoTime ELSE Last(present),
       histogram |-> HistogramOf(present),
       missing |-> Len(stamps) - Len(present)]

\* The time stamps of callbacks, and what adaptation fields with room for flags
\* tell.
PtsOf(calls) == [i \in DOMAIN calls |-> calls[i].pes.pts]
DtsOf(calls) == [i \in DOMAIN calls |-> calls[i].pes.dts]
StampsOfDelivered(p) ==
  /\ mPidStatistics[p].pts = TrackOf(PtsOf(delivered[p]))
  /\ mPidStatistics[p].dts = TrackOf(DtsOf(delivered[p]))

WithFlags == [adaptation_field_length : Nat \ {0}, discontinuity_indicator : BOOLEAN, pcr : Int]
ReferencesOf(told) == [i \in DOMAIN told |-> told[i].pcr]
BreaksIn(told) == {i \in DOMAIN told : told[i].discontinuity_indicator}
ClocksOfArrivals(p) ==
  LET told == Picked(clocks[p], WithFlags)
  IN  /\ mPidStatistics[p].pcr = [TrackOf(ReferencesOf(told)) EXCEPT !.missing = 0]
      /\ mPidStatistics[p].numberOfTsDiscontinuities = Cardinality(BreaksIn(told))

\* The statistics of a PID are those of what came, in order and once.  Time
\* stamps: of the PES packets called back, a difference for every two
\* successive present stamps and a count of the absent ones.  Clocks: of every
\* adaptation field with room for flags that arrived, whether a PES packet was
\* under way or not, the differences of its clock references and the number of
\* its discontinuities (collectPes, before it looks at the payload).
StatisticsOfArrivals ==
  \A p \in Pids : StampsOfDelivered(p) /\ ClocksOfArrivals(p)

\* The doc of addPesPid (mpeg2ts.h:375-377): the callback is given a complete
\* PES packet with PID.
ReturnsPesPackets ==
  \A p \in Pids : \A i \in DOMAIN delivered[p] :
    IsIntact(p, i, UnitOf(delivered[p][i].pes.mPesBuffer[1]))
=============================================================================
