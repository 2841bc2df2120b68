---------------------------- MODULE PsiReception ----------------------------
(***************************************************************************)
(* Sections (PAT, PMT and others) of a few PIDs, sent as TS packets,       *)
(* received by collectTable, as TsDemuxer::demux does for a PID registered *)
(* with addPsiPid.  What the PSI callback is given is kept in `delivered`. *)
(***************************************************************************)
EXTENDS PsiCollector, TsChannel

CONSTANT
  Layouts          (* Subset of {"tail", "split"}: what the sender may put *)
                   (* in a packet with a section start besides that start. *)

ASSUME PsiHeadsAssumption ==
  Heads \subseteq [pointer_field : {0}, table_id : TableIds, section_length : Nat]

VARIABLES
  mPidStatistics,
  delivered,       (* History, per PID: the PSI callbacks.                 *)
  causes,          (* History, per PID: of each callback, the section the  *)
                   (* packet was sent for, or 0 when the packet had been   *)
                   (* sent before or was put in.                           *)
  split            (* History: PIDs a section header of which was split.   *)

receiver == <<sections, psiOut, mOrigins, mPidStatistics>>
sender   == <<units, cc>>
vars     == <<receiver, sender, channel, delivered, causes, split>>

SectionSize(head) == head.section_length + TableHeaderSize

Left(p) == IF units[p] = <<>> THEN 0 ELSE SectionSize(Last(units[p]).head) - Last(units[p]).sent

Init ==
  /\ InitSections /\ InitOrigins /\ InitSender /\ InitChannel
  /\ mPidStatistics = [p \in Pids |-> NewPidStatistic]
  /\ delivered = [p \in Pids |-> <<>>] /\ causes = [p \in Pids |-> <<>>] /\ split = {}

-----------------------------------------------------------------------------
(* The receiver *)

\* Whether the buffer starts with the whole of a section of the PID.
HoldsSection(p, raw) ==
  \E u \in DOMAIN units'[p] :
    LET size == SectionSize(units'[p][u].head)
    IN  size <= Len(raw) /\ SubSeq(raw, 1, size) = Cells(p, u, 1, size)

\* demux parses a table before it calls back.  The parse of anything but a
\* section may run out of bits and throw, and then there is no callback.
CallBack(p) ==
  \/ /\ CallsBack(p, psiOut')
     /\ delivered' = [delivered EXCEPT ![p] =
          Append(@, [table_id |-> psiOut', raw |-> mSectionBuffer'[p]])]
  \/ /\ CallsBack(p, psiOut') => ~HoldsSection(p, mSectionBuffer'[p])
     /\ UNCHANGED delivered

\* The callback, if the packet led to one, is put down to section u.
PutDownTo(p, u) ==
  causes' = [causes EXCEPT ![p] = IF delivered'[p] = delivered[p] THEN @ ELSE Append(@, u)]

Arrive(p, pkt) ==
  LET info == parseTsPacketInfo(pkt)
  IN  /\ collectTable(pkt, info, Position(p))
      /\ mPidStatistics' = [mPidStatistics EXCEPT ![p] = PsiStatistics(@, info)]
      /\ CallBack(p)

-----------------------------------------------------------------------------
(* The steps *)

\* The section under way, if it is not all sent.
OpenUnit(p) == IF Left(p) = 0 THEN {} ELSE {Len(units[p])}

\* A packet with payload goes through or is lost; `lost` are the sections that
\* its loss harms, `cut` those that come to harm all the same.
Transfer(p, pkt, cut, lost) ==
  /\ Remember(p, pkt)
  /\ \/ Arrive(p, pkt) /\ Harms(p, cut)
     \/ Fault("lose", p, lost) /\ UNCHANGED <<receiver, delivered>>
  /\ PutDownTo(p, Len(units'[p]))

\* Stuffing fills the rest of a payload after the end of a section.
Stuffed(payload) ==
  [i \in 1..MaxPayload |-> IF i \in DOMAIN payload THEN payload[i] ELSE Filler]

\* A section starts, after the pointer_field and the tail of the section
\* before it.  Its header is in one packet unless the layout "split" is on.
SendStart(p) ==
  LET tail == Left(p)
      room == MaxPayload - 1 - tail
      before == <<Filler>> \o (IF tail = 0 THEN <<>>
                 ELSE Cells(p, CurrentUnit(p), Last(units[p]).sent + 1, Last(units[p]).sent + tail))
      least == IF "split" \in Layouts THEN 1 ELSE SectionHeaderSize
  IN  /\ tail = 0 \/ "tail" \in Layouts
      /\ \E head \in {h \in Heads : (h.table_id = PSI_TABLE_ID_PAT) <=> (p = 0)},
            flags \in AfFlags :
         \E n \in least..SizeOrLess(room, SectionSize(head)) :
           LET payload == before \o Cells(p, CurrentUnit(p) + 1, 1, n)
               new == {CurrentUnit(p) + 1}
           IN  /\ BeginUnit(p, tail, head, n)
               /\ split' = IF n < SectionHeaderSize THEN split \cup {p} ELSE split
               /\ \E carried \in {payload} \cup
                       IF n = SectionSize(head) THEN {Stuffed(payload)} ELSE {} :
                    Transfer(p, PayloadPacket(p, TRUE, flags,
                                              [head EXCEPT !.pointer_field = tail], carried),
                             OpenUnit(p) \cup IF n < SectionHeaderSize THEN new ELSE {},
                             OpenUnit(p) \cup new)

SendMore(p) ==
  /\ Left(p) > 0 /\ UNCHANGED split
  /\ \E flags \in AfFlags, n \in 1..SizeOrLess(MaxPayload, Left(p)) :
       LET sent == Last(units[p]).sent
           head == Last(units[p]).head
           payload == Cells(p, CurrentUnit(p), sent + 1, sent + n)
       IN  /\ ResumeUnit(p, n)
           /\ \E carried \in {payload} \cup IF n = Left(p) THEN {Stuffed(payload)} ELSE {} :
                Transfer(p, PayloadPacket(p, FALSE, flags, head, carried), {}, OpenUnit(p))

\* A packet with a section start can be repeated without harm.
RepeatPacket(p) ==
  /\ Repeatable(p)
  /\ UNCHANGED <<sender, split>>
  /\ Arrive(p, lastPacket[p]) /\ PutDownTo(p, 0)
  /\ Fault("repeat", p,
       IF lastPacket[p].payload_unit_start_indicator THEN {} ELSE OpenUnit(p))

SendAdaptation(p) ==
  /\ UNCHANGED <<sender, lastPacket, split>>
  /\ \E flags \in AfFlags : Arrive(p, AdaptationPacket(p, flags))
  /\ PutDownTo(p, 0) /\ Fault("adaptation", p, OpenUnit(p))

Next ==
  \E p \in Pids : SendStart(p) \/ SendMore(p) \/ RepeatPacket(p) \/ SendAdaptation(p)

Spec == Init /\ [][Next]_vars

-----------------------------------------------------------------------------
(* Properties *)

\* The collector's maps and the histories have their types.
TypeOK ==
  /\ mSectionBuffer \in [Pids -> Seq(Cell)]
  /\ mReadSectionLength \in [Pids -> Nat]
  /\ mSectionLength \in [Pids -> {0} \cup {SectionSize(head) : head \in Heads}]
  /\ mTableId \in [Pids -> TableIds]
  /\ psiOut \in TableIds \cup {PSI_TABLE_ID_INCOMPLETE, Throws}
  /\ split \subseteq Pids
  /\ mOrigins \in [Pids -> Nat]
  /\ ChannelTypeOK

\* mReadSectionLength is the length of the buffer of its PID, on every path of
\* collectTable, the one that throws included.
ReadLengthIsBufferLength ==
  \A p \in Pids : mReadSectionLength[p] = Len(mSectionBuffer[p])

\* The cells of section u of PID p that have been sent.
Unit(p, u) == Cells(p, u, 1, units[p][u].sent)

\* The table a callback was given, cut at its section_length, which is as far
\* as the parsers of the tables look.
Table(p, i) ==
  LET raw == delivered[p][i].raw
      u == UnitOf(raw[1])
  IN  IF u \in DOMAIN units[p]
      THEN SubSeq(raw, 1, SizeOrLess(SectionSize(units[p][u].head), Len(raw)))
      ELSE raw

Ignored(p) == {u \in DOMAIN units[p] : ~CallsBack(p, units[p][u].head.table_id)}

Service == INSTANCE UnitDelivery WITH
  sent      <- [p \in Pids |-> [u \in DOMAIN units[p] |-> Unit(p, u)]],
  delivered <- [p \in Pids |-> [i \in DOMAIN delivered[p] |-> Table(p, i)]],
  harmed    <- IF faults > 0 THEN Pids ELSE {p \in Pids : damaged[p] \cup Ignored(p) # {}}

\* Until the first fault, the first split section header or tail of a section
\* on a PID, and the first table that is not called back, the PSI callback of
\* the PID is given every table, whole, in order and once (collectTable).
DeliversTables == Service!Spec

\* Neither a fault nor a packet with a split header or a tail harms a table but
\* the ones it touches.  The packets of every other one lead to one callback,
\* which is given the table whole; a table may be called back again only by a
\* packet that is repeated or put in behind it, or by one of a later section
\* whose start was lost (collectTable appends all of them).  What is called back
\* is such a table with its own table_id, or what remains of a damaged one, or
\* on PID 0 a packet put in before any start: the absent table_id of a new PID
\* is that of a PAT.
IsIntact(p, i, u) ==
  Table(p, i) = Cells(p, u, 1, SectionSize(units[p][u].head))
DamageIsContained ==
  \A p \in Pids :
    /\ \A u \in DOMAIN units[p] \ (damaged[p] \cup Ignored(p)) :
         units[p][u].sent = SectionSize(units[p][u].head) =>
           \E i \in DOMAIN delivered[p] :
             IsIntact(p, i, u) /\ \A j \in DOMAIN delivered[p] : causes[p][j] = u <=> j = i
    /\ \A i \in DOMAIN delivered[p] :
         LET u == UnitOf(delivered[p][i].raw[1])
         IN  IF u = 0 THEN damaged[p] # {} \/ (p = 0 /\ "adaptation" \in happened)
             ELSE u \in damaged[p]
                  \/ /\ IsIntact(p, i, u) /\ delivered[p][i].table_id = units[p][u].head.table_id
                     /\ causes[p][i] \in {0, u} \/ causes[p][i] \in damaged[p]

\* The length and the table_id kept for a PID are those of the section its
\* buffer starts with, whatever is lost, repeated or put in between, as long
\* as no section header of the PID is split.
LengthIsOfHead ==
  \A p \in Pids \ split : mSectionLength[p] > 0 =>
    \E u \in DOMAIN units[p] :
      /\ mSectionBuffer[p][1] = <<p, u, 1>>
      /\ mSectionLength[p] = SectionSize(units[p][u].head)
      /\ mTableId[p] = units[p][u].head.table_id

\* The doc of addPsiPid (mpeg2ts.h:367): the callback is called when a PSI
\* table with the PID is found.
FindsTables ==
  \A p \in Pids : \A u \in DOMAIN units[p] \ Ignored(p) :
    units[p][u].sent = SectionSize(units[p][u].head)
      => \E i \in DOMAIN delivered[p] : IsIntact(p, i, u)
=============================================================================
