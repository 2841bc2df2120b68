------------------------ MODULE PsiReception_proofs -------------------------
(***************************************************************************)
(* For every number of PIDs, size of packets and sections, layout and      *)
(* number of faults: what the maps of collectTable say of a PID is about   *)
(* the section its buffer starts with; a fault hurts no section but those  *)
(* it touches; and where no fault was, collectTable implements the service *)
(* UnitDelivery.                                                           *)
(***************************************************************************)
EXTENDS PsiReception, TsSender_proofs

\* No unit is sent beyond its size.
SectionsFit ==
  \A p \in Pids : \A u \in DOMAIN units[p] : units[p][u].sent <= SectionSize(units[p][u].head)

\* `cell` is the first one of a section of the list, which is `length` long and
\* has the given table_id.
StartsSection(list, p, cell, length, id) ==
  \E u \in DOMAIN list : /\ cell = <<p, u, 1>>
                         /\ length = SectionSize(list[u].head) /\ id = list[u].head.table_id

\* A TS packet that can arrive.  A section start in it is that of a section of
\* the list, and has its header whole unless the PID has split one.
ParsablePacket(list, p, pkt, cut) ==
  /\ pkt.pid = p
  /\ pkt.bytes \in Seq(Cell) /\ Len(pkt.bytes) = TsPacketSize
  /\ Offset(pkt) \in Nat
  /\ pkt.payload_unit_start_indicator \in BOOLEAN
  /\ pkt.payload_unit_start_indicator =>
       LET first == Offset(pkt) + 1 + pkt.head.pointer_field
       IN  /\ pkt.head.pointer_field \in Nat /\ first < TsPacketSize
           /\ StartsSection(list, p, pkt.bytes[first + 1],
                            WholeSection(pkt.head), pkt.head.table_id)
           /\ p \in cut \/ TsPacketSize - first >= SectionHeaderSize

\* The buffer of p, and what the other maps say of it.
TableInv(list, p, cut, buffer, read, length, id) ==
  /\ buffer \in Seq(Cell) /\ read = Len(buffer)
  /\ p \notin cut /\ length > 0 => buffer # <<>> /\ StartsSection(list, p, buffer[1], length, id)

MapsInv ==
  /\ DOMAIN mSectionBuffer = Pids /\ DOMAIN mReadSectionLength = Pids
  /\ DOMAIN mSectionLength = Pids /\ DOMAIN mTableId = Pids

CollectorInv ==
  MapsInv /\ \A p \in Pids :
    TableInv(units[p], p, split,
             mSectionBuffer[p], mReadSectionLength[p], mSectionLength[p], mTableId[p])

ChannelInv ==
  /\ DOMAIN lastPacket = Pids
  /\ \A p \in Pids : lastPacket[p] # NoPacket => ParsablePacket(units[p], p, lastPacket[p], split)

\* The inductive invariant.  The packet that may be repeated is part of it,
\* because repeating a section start begins the buffer anew.
TablesInv == SenderInv /\ SectionsFit /\ CollectorInv /\ ChannelInv

-----------------------------------------------------------------------------
(* What was known stays known when lists grow and headers are split *)

LEMMA StartGrows ==
  ASSUME NEW old, NEW new, Grown(old, new), NEW p, NEW cell, NEW length, NEW id,
         StartsSection(old, p, cell, length, id)
  PROVE  StartsSection(new, p, cell, length, id)
BY DEF Grown, StartsSection

LEMMA ParsableGrows ==
  ASSUME NEW old, NEW new, Grown(old, new), NEW cut, NEW more, cut \subseteq more,
         NEW p, NEW pkt, ParsablePacket(old, p, pkt, cut)
  PROVE  ParsablePacket(new, p, pkt, more)
BY StartGrows DEF ParsablePacket

LEMMA TableGrows ==
  ASSUME NEW old, NEW new, Grown(old, new), NEW cut, NEW more, cut \subseteq more,
         NEW p, NEW buffer, NEW read, NEW length, NEW id,
         TableInv(old, p, cut, buffer, read, length, id)
  PROVE  TableInv(new, p, more, buffer, read, length, id)
BY StartGrows DEF TableInv

-----------------------------------------------------------------------------
(* The collector *)

\* collectTable: what it keeps of the PID, and that it leaves the others alone.
LEMMA CollectKeepsTables ==
  ASSUME CollectorInv, NEW p \in Pids, NEW list, Grown(units[p], list),
         NEW cut, split \subseteq cut,
         NEW pkt, ParsablePacket(list, p, pkt, cut), NEW origin,
         collectTable(pkt, parseTsPacketInfo(pkt), origin)
  PROVE  /\ MapsInv'
         /\ TableInv(list, p, cut, mSectionBuffer'[p], mReadSectionLength'[p],
                     mSectionLength'[p], mTableId'[p])
         /\ \A q \in Pids \ {p} :
              /\ mSectionBuffer'[q] = mSectionBuffer[q]
              /\ mReadSectionLength'[q] = mReadSectionLength[q]
              /\ mSectionLength'[q] = mSectionLength[q] /\ mTableId'[q] = mTableId[q]
<1> DEFINE info == parseTsPacketInfo(pkt)
           first == Offset(pkt) + 1 + pkt.head.pointer_field
           start == TableBytes(pkt, info)
           rest == BytesFrom(pkt, info.payloadStartOffset)
<1>1. info.pid = p /\ info.isPayloadStart = pkt.payload_unit_start_indicator
      /\ info.payloadStartOffset = Offset(pkt)
  BY DEF parseTsPacketInfo, ParsablePacket, Offset
<1>2. start = BytesFrom(pkt, first)
  BY <1>1 DEF TableBytes, tableOffset
<1>3. /\ pkt.bytes \in Seq(Cell) /\ Len(pkt.bytes) = TsPacketSize /\ Offset(pkt) \in Nat
      /\ pkt.payload_unit_start_indicator =>
           /\ first \in Nat /\ first < TsPacketSize
           /\ StartsSection(list, p, pkt.bytes[first + 1],
                            WholeSection(pkt.head), pkt.head.table_id)
           /\ p \in cut \/ TsPacketSize - first >= SectionHeaderSize
  BY DEF ParsablePacket
<1>4. rest \in Seq(Cell)
  BY <1>1, <1>3, CopiedFrom
<1>5. TableInv(list, p, cut, mSectionBuffer[p], mReadSectionLength[p],
               mSectionLength[p], mTableId[p])
  BY TableGrows DEF CollectorInv
<1>6. MapsInv
  BY DEF CollectorInv
<1>8. StartTable(pkt, info) \/ SplitHeader(pkt, info) \/ AppendTable(pkt, info)
  BY DEF collectTable
<1> HIDE DEF info, first, start, rest
<1>7. ASSUME pkt.payload_unit_start_indicator
      PROVE  /\ start \in Seq(Cell) /\ Len(start) = TsPacketSize - first
             /\ start # <<>> /\ start[1] = pkt.bytes[first + 1]
  <2> DEFINE bytes == pkt.bytes
  <2>1. bytes \in Seq(Cell) /\ Len(bytes) = TsPacketSize /\ pkt.bytes = bytes
        /\ first \in Nat /\ first < TsPacketSize
    BY <1>3, <1>7
  <2> HIDE DEF bytes
  <2>2. /\ BytesFrom(pkt, first) \in Seq(Cell)
        /\ Len(BytesFrom(pkt, first)) = TsPacketSize - first
        /\ BytesFrom(pkt, first) # <<>> /\ BytesFrom(pkt, first)[1] = bytes[first + 1]
    BY <2>1, CopiedFrom
  <2> QED
    BY <2>1, <2>2, <1>2
<1>9. CASE StartTable(pkt, info)
  <2>1. /\ pkt.payload_unit_start_indicator
        /\ mSectionBuffer' = [mSectionBuffer EXCEPT ![p] = start]
        /\ mReadSectionLength' = [mReadSectionLength EXCEPT ![p] = CountBytes(0, start)]
        /\ mSectionLength' = [mSectionLength EXCEPT ![p] = WholeSection(pkt.head)]
        /\ mTableId' = [mTableId EXCEPT ![p] = NewTableId(@, pkt.head)]
    BY <1>1, <1>9 DEF StartTable, start
  <2>2. CountBytes(0, start) = Len(start)
    BY <1>7, <2>1 DEF CountBytes
  <2>3. NewTableId(mTableId[p], pkt.head) = pkt.head.table_id
    BY DEF NewTableId
  <2>4. TableInv(list, p, cut, start, Len(start), WholeSection(pkt.head), pkt.head.table_id)
    BY <1>3, <1>7, <2>1 DEF TableInv
  <2> QED
    BY <2>1, <2>2, <2>3, <2>4, <1>6 DEF MapsInv
<1>10. CASE SplitHeader(pkt, info)
  <2>1. /\ pkt.payload_unit_start_indicator /\ Len(start) < SectionHeaderSize
        /\ mSectionBuffer' = [mSectionBuffer EXCEPT ![p] = <<>>]
        /\ mReadSectionLength' = [mReadSectionLength EXCEPT ![p] = 0]
        /\ mSectionLength' = mSectionLength /\ mTableId' = mTableId
    BY <1>1, <1>10 DEF SplitHeader, start
  <2>2. p \in cut
    <3>1. ~(TsPacketSize - first >= SectionHeaderSize)
      <4>1. TsPacketSize - first < SectionHeaderSize
        BY <1>7, <2>1
      <4>2. TsPacketSize \in Nat /\ first \in Nat /\ SectionHeaderSize \in Nat
        BY <1>3, <2>1, PacketAssumption, SectionAssumption
      <4> QED
        BY <4>1, <4>2
    <3> QED
      BY <3>1, <1>3, <2>1
  <2>3. <<>> \in Seq(Cell) /\ Len(<<>>) = 0
    OBVIOUS
  <2>4. TableInv(list, p, cut, <<>>, 0, mSectionLength[p], mTableId[p])
    BY <2>2, <2>3 DEF TableInv
  <2> QED
    BY <2>1, <2>4, <1>6 DEF MapsInv
<1>11. CASE AppendTable(pkt, info)
  <2> DEFINE all == mSectionBuffer[p] \o rest
  <2>1. /\ mSectionBuffer' = [mSectionBuffer EXCEPT ![p] = all]
        /\ mReadSectionLength' = [mReadSectionLength EXCEPT ![p] = CountBytes(@, rest)]
        /\ mSectionLength' = mSectionLength /\ mTableId' = mTableId
    BY <1>1, <1>11 DEF AppendTable, rest
  <2>2. mSectionBuffer[p] \in Seq(Cell) /\ mReadSectionLength[p] = Len(mSectionBuffer[p])
    BY <1>5 DEF TableInv
  <2>3. /\ all \in Seq(Cell) /\ CountBytes(mReadSectionLength[p], rest) = Len(all)
        /\ mSectionBuffer[p] # <<>> => all # <<>> /\ all[1] = mSectionBuffer[p][1]
    BY <1>4, <2>2 DEF CountBytes
  <2> HIDE DEF all
  <2>4. TableInv(list, p, cut, all, Len(all), mSectionLength[p], mTableId[p])
    BY <1>5, <2>3 DEF TableInv
  <2> QED
    BY <2>1, <2>3, <2>4, <1>6 DEF MapsInv
<1> QED
  BY <1>8, <1>9, <1>10, <1>11

-----------------------------------------------------------------------------
(* The steps *)

\* A packet that arrives on p, when only the list of p grows.
LEMMA ArriveKeepsTables ==
  ASSUME CollectorInv, NEW p \in Pids, Grown(units[p], units'[p]),
         \A q \in Pids \ {p} : units'[q] = units[q], split \subseteq split',
         NEW pkt, ParsablePacket(units'[p], p, pkt, split'), Arrive(p, pkt)
  PROVE  CollectorInv'
<1>1. collectTable(pkt, parseTsPacketInfo(pkt), Position(p))
  BY DEF Arrive
<1>2. /\ MapsInv'
      /\ TableInv(units'[p], p, split', mSectionBuffer'[p], mReadSectionLength'[p],
                  mSectionLength'[p], mTableId'[p])
      /\ \A q \in Pids \ {p} :
           /\ mSectionBuffer'[q] = mSectionBuffer[q]
           /\ mReadSectionLength'[q] = mReadSectionLength[q]
           /\ mSectionLength'[q] = mSectionLength[q] /\ mTableId'[q] = mTableId[q]
  BY <1>1, CollectKeepsTables
<1>3. ASSUME NEW q \in Pids \ {p}
      PROVE  TableInv(units'[q], q, split', mSectionBuffer'[q], mReadSectionLength'[q],
                      mSectionLength'[q], mTableId'[q])
  <2>1. Grown(units[q], units'[q])
    BY DEF Grown
  <2>2. TableInv(units[q], q, split, mSectionBuffer[q], mReadSectionLength[q],
                 mSectionLength[q], mTableId[q])
    BY DEF CollectorInv
  <2>3. TableInv(units'[q], q, split', mSectionBuffer[q], mReadSectionLength[q],
                 mSectionLength[q], mTableId[q])
    BY <2>1, <2>2, TableGrows
  <2> QED
    BY <2>3, <1>2
<1> QED
  BY <1>2, <1>3 DEF CollectorInv

\* The channel and the maps when p's list grows and nothing arrives.
LEMMA GrowthKeepsTables ==
  ASSUME NEW p \in Pids, OnlyGrows(p), split \subseteq split'
  PROVE  /\ CollectorInv /\ UNCHANGED sections => CollectorInv'
         /\ ChannelInv => \A q \in Pids : lastPacket[q] # NoPacket =>
                             ParsablePacket(units'[q], q, lastPacket[q], split')
<1>1. \A q \in Pids : Grown(units[q], units'[q])
  BY DEF OnlyGrows, Grown
<1>2. ASSUME CollectorInv, UNCHANGED sections PROVE CollectorInv'
  <2>1. MapsInv'
    BY <1>2 DEF CollectorInv, MapsInv, sections
  <2>2. ASSUME NEW q \in Pids
        PROVE  TableInv(units'[q], q, split', mSectionBuffer[q], mReadSectionLength[q],
                        mSectionLength[q], mTableId[q])
    BY <1>1, <1>2, TableGrows DEF CollectorInv
  <2> QED
    BY <2>1, <2>2, <1>2 DEF CollectorInv, sections
<1>3. ASSUME ChannelInv, NEW q \in Pids, lastPacket[q] # NoPacket
      PROVE  ParsablePacket(units'[q], q, lastPacket[q], split')
  BY <1>1, <1>3, ParsableGrows DEF ChannelInv
<1> QED
  BY <1>2, <1>3

LEMMA TransferKeepsTables ==
  ASSUME TablesInv, NEW p \in Pids, OnlyGrows(p), split \subseteq split',
         NEW pkt, ParsablePacket(units'[p], p, pkt, split'),
         NEW cut, NEW lost, Transfer(p, pkt, cut, lost)
  PROVE  SenderInv' /\ CollectorInv' /\ ChannelInv'
<1>1. lastPacket' = [lastPacket EXCEPT ![p] = pkt]
  BY DEF Transfer, Remember
<1>2. ChannelInv'
  BY <1>1, GrowthKeepsTables DEF ChannelInv, TablesInv
<1>3. SenderInv'
  BY DEF OnlyGrows
<1>4. CollectorInv'
  <2>1. CASE Arrive(p, pkt)
    BY <2>1, ArriveKeepsTables DEF TablesInv, OnlyGrows
  <2>2. CASE UNCHANGED <<receiver, delivered>>
    BY <2>2, GrowthKeepsTables DEF TablesInv, receiver
  <2> QED
    BY <2>1, <2>2 DEF Transfer
<1> QED
  BY <1>2, <1>3, <1>4

\* The size of a section, and what is left to send of the last one.
LEMMA SizesAreNumbers ==
  ASSUME TablesInv, NEW p \in Pids
  PROVE  /\ MaxPayload \in Nat /\ MaxPayload <= TsPacketSize /\ TsPacketSize \in Nat
         /\ TableHeaderSize \in Nat \ {0} /\ SectionHeaderSize \in Nat \ {0}
         /\ \A head \in Heads : SectionSize(head) \in Nat \ {0}
         /\ CurrentUnit(p) \in Nat
         /\ Left(p) \in Nat
         /\ units[p] = <<>> => Left(p) = 0
         /\ units[p] # <<>> =>
              /\ CurrentUnit(p) \in DOMAIN units[p]
              /\ Last(units[p]) = units[p][CurrentUnit(p)]
              /\ Last(units[p]).head \in Heads /\ Last(units[p]).sent \in Nat
              /\ Left(p) = SectionSize(Last(units[p]).head) - Last(units[p]).sent
<1>1. /\ MaxPayload \in Nat /\ MaxPayload <= TsPacketSize /\ TsPacketSize \in Nat
      /\ TableHeaderSize \in Nat \ {0} /\ SectionHeaderSize \in Nat \ {0}
  BY PacketAssumption, SectionAssumption DEF MaxPayload
<1>2. ASSUME NEW head \in Heads PROVE SectionSize(head) \in Nat \ {0}
  <2>1. head.section_length \in Nat
    BY PsiHeadsAssumption
  <2> QED
    BY <2>1, <1>1 DEF SectionSize
<1>3. units[p] \in Seq(UnitRecord) /\ Len(units[p]) \in Nat
  BY DEF TablesInv, SenderInv
<1>4. CASE units[p] = <<>>
  BY <1>1, <1>2, <1>3, <1>4 DEF Left, CurrentUnit
<1>5. CASE units[p] # <<>>
  <2> DEFINE last == Len(units[p])
             unit == units[p][last]
  <2>1. last \in DOMAIN units[p] /\ unit \in UnitRecord /\ Last(units[p]) = unit
    BY <1>3, <1>5 DEF Last
  <2>2. unit.head \in Heads /\ unit.sent \in Nat
    BY <2>1 DEF UnitRecord
  <2>3. unit.sent <= SectionSize(unit.head)
    BY <2>1 DEF TablesInv, SectionsFit
  <2>4. Left(p) = SectionSize(unit.head) - unit.sent
    BY <1>5, <2>1 DEF Left
  <2>5. SectionSize(unit.head) \in Nat
    BY <1>2, <2>2
  <2>6. Left(p) \in Nat
    BY <2>2, <2>3, <2>4, <2>5
  <2> HIDE DEF unit
  <2> QED
    BY <1>1, <1>2, <1>3, <1>5, <2>1, <2>2, <2>4, <2>6 DEF CurrentUnit, unit
<1> QED
  BY <1>4, <1>5

\* What is before a section in the packet where it starts.
TailOf(p) ==
  <<Filler>> \o (IF Left(p) = 0 THEN <<>>
    ELSE Cells(p, CurrentUnit(p), Last(units[p]).sent + 1, Last(units[p]).sent + Left(p)))

LEMMA TailType ==
  ASSUME TablesInv, NEW p \in Pids
  PROVE  TailOf(p) \in Seq(Cell) /\ Len(TailOf(p)) = Left(p) + 1
<1>1. <<Filler>> \in Seq(Cell) /\ Len(<<Filler>>) = 1
  <2>1. Filler \in Cell
    BY DEF Filler, Cell
  <2> QED
    BY <2>1
<1>2. CASE Left(p) = 0
  <2>1. TailOf(p) = <<Filler>>
    BY <1>1, <1>2 DEF TailOf
  <2> QED
    BY <1>1, <1>2, <2>1
<1>3. CASE Left(p) # 0
  <2> DEFINE first == Last(units[p]).sent + 1
             last == Last(units[p]).sent + Left(p)
             run == Cells(p, CurrentUnit(p), first, last)
  <2>1. Left(p) \in Nat /\ CurrentUnit(p) \in Nat /\ Last(units[p]).sent \in Nat
    BY <1>3, SizesAreNumbers
  <2>2. first \in Nat /\ last \in Nat /\ last - first + 1 = Left(p)
    BY <1>3, <2>1
  <2>3. TailOf(p) = <<Filler>> \o run
    BY <1>3 DEF TailOf
  <2> HIDE DEF first, last
  <2>4. IsRun(run, p, CurrentUnit(p), first, Left(p))
    BY <2>1, <2>2, CellsRun, Zenon
  <2>5. run \in Seq(Cell) /\ Len(run) = Left(p)
    BY <2>4 DEF IsRun
  <2> HIDE DEF run
  <2> QED
    BY <1>1, <2>1, <2>3, <2>5
<1> QED
  BY <1>2, <1>3

\* Stuffing goes after the payload.
LEMMA StuffedType ==
  ASSUME NEW payload \in Seq(Cell), Len(payload) <= MaxPayload
  PROVE  /\ Stuffed(payload) \in Seq(Cell) /\ Len(Stuffed(payload)) = MaxPayload
         /\ \A i \in DOMAIN payload : Stuffed(payload)[i] = payload[i]
<1>1. MaxPayload \in Nat /\ Filler \in Cell
  BY PacketAssumption DEF MaxPayload, Filler, Cell
<1>2. \A i \in 1..MaxPayload : (IF i \in DOMAIN payload THEN payload[i] ELSE Filler) \in Cell
  BY <1>1
<1>3. Stuffed(payload) \in [1..MaxPayload -> Cell]
  BY <1>2 DEF Stuffed
<1>4. \A i \in DOMAIN payload : i \in 1..MaxPayload
  BY <1>1
<1> QED
  BY <1>1, <1>3, <1>4 DEF Stuffed

\* Where the section is in the payload of the packet it starts in.
LEMMA StartPayload ==
  ASSUME TablesInv, NEW p \in Pids, NEW u \in Nat, NEW n \in Nat \ {0},
         Left(p) + 1 + n <= MaxPayload,
         NEW carried,
         \/ carried = TailOf(p) \o Cells(p, u, 1, n)
         \/ carried = Stuffed(TailOf(p) \o Cells(p, u, 1, n))
  PROVE  /\ carried \in Seq(Cell) /\ Len(carried) \in 1..MaxPayload
         /\ Len(carried) >= Left(p) + 1 + n
         /\ carried[Left(p) + 2] = <<p, u, 1>>
<1> DEFINE run == Cells(p, u, 1, n)
           payload == TailOf(p) \o run
<1>1. TailOf(p) \in Seq(Cell) /\ Len(TailOf(p)) = Left(p) + 1 /\ Left(p) \in Nat
      /\ MaxPayload \in Nat
  BY TailType, SizesAreNumbers
<1>2. run \in Seq(Cell) /\ Len(run) = n /\ run[1] = <<p, u, 1>>
  <2> DEFINE first == 1
  <2>1. first \in Nat /\ n \in Nat /\ n - first + 1 = n /\ n > 0 /\ first = 1
    OBVIOUS
  <2> HIDE DEF first
  <2>2. IsRun(Cells(p, u, first, n), p, u, first, n)
    BY <2>1, CellsRun, Zenon
  <2> QED
    BY <2>1, <2>2 DEF IsRun
<1> HIDE DEF run
<1>3. /\ payload \in Seq(Cell) /\ Len(payload) = Left(p) + 1 + n
      /\ payload[Left(p) + 2] = <<p, u, 1>>
  <2>1. /\ payload \in Seq(Cell)
        /\ Len(payload) = Len(TailOf(p)) + Len(run)
        /\ payload[Len(TailOf(p)) + 1] = run[1]
    <3>1. TailOf(p) \in Seq(Cell) /\ run \in Seq(Cell) /\ Len(run) >= 1
      BY <1>1, <1>2
    <3> QED
      BY <3>1, Joined
  <2> HIDE DEF payload
  <2>2. Len(TailOf(p)) + 1 = Left(p) + 2
    BY <1>1
  <2> QED
    BY <1>1, <1>2, <2>1, <2>2
<1>4. carried = payload \/ carried = Stuffed(payload)
  BY DEF run
<1> HIDE DEF payload
<1>5. CASE carried = payload
  BY <1>1, <1>3, <1>5
<1>6. CASE carried = Stuffed(payload)
  <2>1. /\ carried \in Seq(Cell) /\ Len(carried) = MaxPayload
        /\ \A i \in DOMAIN payload : carried[i] = payload[i]
    BY <1>3, <1>6, StuffedType
  <2>2. Left(p) + 2 \in DOMAIN payload
    BY <1>1, <1>3
  <2> QED
    BY <1>1, <1>3, <2>1, <2>2
<1> QED
  BY <1>4, <1>5, <1>6

LEMMA SendStartKeepsTables ==
  ASSUME TablesInv, NEW p \in Pids, SendStart(p)
  PROVE  TablesInv'
<1> DEFINE tail == Left(p)
           room == MaxPayload - 1 - tail
           least == IF "split" \in Layouts THEN 1 ELSE SectionHeaderSize
           u == CurrentUnit(p) + 1
<1> DEFINE Starts(head, flags, n) ==
        /\ BeginUnit(p, tail, head, n)
        /\ split' = IF n < SectionHeaderSize THEN split \cup {p} ELSE split
        /\ \E carried \in {TailOf(p) \o Cells(p, u, 1, n)} \cup
                IF n = SectionSize(head) THEN {Stuffed(TailOf(p) \o Cells(p, u, 1, n))} ELSE {} :
             Transfer(p, PayloadPacket(p, TRUE, flags, [head EXCEPT !.pointer_field = tail], carried),
                      OpenUnit(p) \cup IF n < SectionHeaderSize THEN {u} ELSE {},
                      OpenUnit(p) \cup {u})
<1>pick. PICK head \in Heads, flags \in AfFlags :
           \E n \in least..SizeOrLess(room, SectionSize(head)) : Starts(head, flags, n)
  BY DEF SendStart, TailOf
<1>1. PICK n \in least..SizeOrLess(room, SectionSize(head)) : Starts(head, flags, n)
  BY <1>pick
<1>2. PICK carried :
        /\ \/ carried = TailOf(p) \o Cells(p, u, 1, n)
           \/ carried = Stuffed(TailOf(p) \o Cells(p, u, 1, n))
        /\ Transfer(p, PayloadPacket(p, TRUE, flags, [head EXCEPT !.pointer_field = tail], carried),
                    OpenUnit(p) \cup IF n < SectionHeaderSize THEN {u} ELSE {},
                    OpenUnit(p) \cup {u})
  BY <1>1
<1>3. /\ MaxPayload \in Nat /\ MaxPayload <= TsPacketSize /\ TsPacketSize \in Nat
      /\ SectionHeaderSize \in Nat \ {0} /\ SectionSize(head) \in Nat \ {0}
      /\ tail \in Nat /\ u \in Nat \ {0} /\ CurrentUnit(p) \in Nat
      /\ tail = 0 \/ units[p] # <<>>
  BY SizesAreNumbers
<1> HIDE DEF tail
<1>4. n \in Nat \ {0} /\ tail + 1 + n <= MaxPayload /\ n <= SectionSize(head)
  <2>1. least \in Nat \ {0} /\ room \in Int
    BY <1>3
  <2>2. SizeOrLess(room, SectionSize(head)) \in Int
        /\ SizeOrLess(room, SectionSize(head)) <= room
        /\ SizeOrLess(room, SectionSize(head)) <= SectionSize(head)
    BY <1>3, <2>1 DEF SizeOrLess
  <2> HIDE DEF least
  <2> QED
    BY <1>3, <2>1, <2>2
<1>5. /\ OnlyGrows(p) /\ DOMAIN units'[p] = 1..u
      /\ units'[p][u] = [head |-> head, sent |-> n]
      /\ \A v \in DOMAIN units[p] : units'[p][v].sent =
           IF v = CurrentUnit(p) THEN units[p][v].sent + tail ELSE units[p][v].sent
  <2>1. /\ SenderInv /\ p \in Pids /\ tail \in Nat /\ (tail = 0 \/ units[p] # <<>>)
        /\ head \in Heads /\ n \in Nat /\ BeginUnit(p, tail, head, n)
    BY <1>1, <1>3, <1>4 DEF TablesInv
  <2> HIDE DEF Starts, u
  <2>2. /\ OnlyGrows(p) /\ DOMAIN units'[p] = 1..(CurrentUnit(p) + 1)
        /\ units'[p][CurrentUnit(p) + 1] = [head |-> head, sent |-> n]
        /\ \A v \in DOMAIN units[p] : units'[p][v].sent =
             IF v = CurrentUnit(p) THEN units[p][v].sent + tail ELSE units[p][v].sent
    BY <2>1, BeginGrows, ZenonT(60)
  <2> QED
    BY <2>2 DEF u
<1>6. SectionsFit'
  <2> SUFFICES ASSUME NEW v \in DOMAIN units'[p]
               PROVE  units'[p][v].sent <= SectionSize(units'[p][v].head)
    BY <1>5 DEF SectionsFit, OnlyGrows, TablesInv
  <2>1. CASE v = u
    BY <2>1, <1>4, <1>5
  <2>2. CASE v \in DOMAIN units[p] /\ v # CurrentUnit(p)
    BY <2>2, <1>5 DEF TablesInv, SectionsFit, OnlyGrows, Grown
  <2>3. CASE v \in DOMAIN units[p] /\ v = CurrentUnit(p)
    <3>1. units'[p][v].sent = units[p][v].sent + tail /\ units'[p][v].head = units[p][v].head
      BY <2>3, <1>5 DEF OnlyGrows, Grown
    <3>2. units[p] # <<>>
      BY <2>3
    <3>3. /\ units[p][v].sent \in Nat /\ SectionSize(units[p][v].head) \in Nat
          /\ tail = SectionSize(units[p][v].head) - units[p][v].sent
      BY <2>3, <3>2, SizesAreNumbers DEF tail
    <3> QED
      BY <3>1, <3>3
  <2>4. v = u \/ v \in DOMAIN units[p]
    <3>1. DOMAIN units[p] = 1..CurrentUnit(p)
      BY DEF TablesInv, SenderInv, CurrentUnit
    <3> QED
      BY <3>1, <1>3, <1>5
  <2> QED
    BY <2>1, <2>2, <2>3, <2>4
<1> DEFINE start == TRUE
           marked == [head EXCEPT !.pointer_field = tail]
           pkt == PayloadPacket(p, start, flags, marked, carried)
           first == Offset(pkt) + 1 + tail
<1>7. /\ carried \in Seq(Cell) /\ Len(carried) \in 1..MaxPayload
      /\ Len(carried) >= tail + 1 + n /\ carried[tail + 2] = <<p, u, 1>>
  BY <1>2, <1>3, <1>4, StartPayload DEF tail
<1>8. start \in BOOLEAN /\ start /\ flags \in AfFlags \cup {Plain} /\ Transfer(p, pkt,
        OpenUnit(p) \cup IF n < SectionHeaderSize THEN {u} ELSE {}, OpenUnit(p) \cup {u})
  BY <1>2
<1>9. /\ marked.pointer_field = tail
      /\ marked.table_id = head.table_id
      /\ WholeSection(marked) = SectionSize(head)
  <2>1. head \in [pointer_field : {0}, table_id : TableIds, section_length : Nat]
    BY PsiHeadsAssumption
  <2> QED
    BY <2>1 DEF WholeSection, SectionSize
<1>split. split \subseteq split' /\ (p \in split' \/ n >= SectionHeaderSize)
  BY <1>1, <1>3, <1>4
<1> HIDE DEF start, marked, u
<1>10. /\ pkt.pid = p /\ pkt.payload_unit_start_indicator = start /\ pkt.head = marked
       /\ pkt.bytes \in Seq(Cell) /\ Len(pkt.bytes) = TsPacketSize
       /\ Offset(pkt) = TsPacketSize - Len(carried)
       /\ \A i \in DOMAIN carried : pkt.bytes[Offset(pkt) + i] = carried[i]
  <2>1. /\ p \in Pids /\ start \in BOOLEAN /\ flags \in AfFlags \cup {Plain}
        /\ carried \in Seq(Cell) /\ Len(carried) \in 1..MaxPayload
    BY <1>7, <1>8
  <2> QED
    BY <2>1, PayloadIsFound
<1> HIDE DEF pkt
<1>11. /\ Offset(pkt) \in Nat /\ first \in Nat /\ first < TsPacketSize
       /\ TsPacketSize - first >= n
       /\ pkt.bytes[first + 1] = <<p, u, 1>>
  <2>1. Offset(pkt) \in Nat /\ first \in Nat /\ first < TsPacketSize
        /\ TsPacketSize - first >= n /\ first + 1 = Offset(pkt) + (tail + 2)
    BY <1>3, <1>4, <1>7, <1>10
  <2>2. tail + 2 \in DOMAIN carried
    BY <1>3, <1>4, <1>7
  <2> QED
    BY <2>1, <2>2, <1>7, <1>10
<1>12. StartsSection(units'[p], p, pkt.bytes[first + 1], SectionSize(head), head.table_id)
  <2>1. u \in DOMAIN units'[p] /\ units'[p][u].head = head
    BY <1>3, <1>5
  <2> QED
    BY <2>1, <1>11 DEF StartsSection
<1>13. p \in split' \/ TsPacketSize - first >= SectionHeaderSize
  BY <1>split, <1>3, <1>4, <1>11
<1>14. ParsablePacket(units'[p], p, pkt, split')
  BY <1>3, <1>8, <1>9, <1>10, <1>11, <1>12, <1>13 DEF ParsablePacket
<1> QED
  BY <1>5, <1>6, <1>8, <1>split, <1>14, TransferKeepsTables DEF TablesInv

\* A continuation is a payload like any other; it is not a section start.
LEMMA SendMoreKeepsTables ==
  ASSUME TablesInv, NEW p \in Pids, SendMore(p)
  PROVE  TablesInv'
<1> DEFINE sent == Last(units[p]).sent
           head == Last(units[p]).head
           run(n) == Cells(p, CurrentUnit(p), sent + 1, sent + n)
<1>1. PICK flags \in AfFlags, n \in 1..SizeOrLess(MaxPayload, Left(p)) :
        /\ ResumeUnit(p, n)
        /\ \E carried \in {run(n)} \cup IF n = Left(p) THEN {Stuffed(run(n))} ELSE {} :
             Transfer(p, PayloadPacket(p, FALSE, flags, head, carried), {}, OpenUnit(p))
  BY DEF SendMore
<1>2. PICK carried :
        /\ carried = run(n) \/ carried = Stuffed(run(n))
        /\ Transfer(p, PayloadPacket(p, FALSE, flags, head, carried), {}, OpenUnit(p))
  BY <1>1
<1>3. Left(p) > 0 /\ split' = split /\ split \subseteq split'
  BY DEF SendMore
<1>4. /\ MaxPayload \in Nat /\ MaxPayload <= TsPacketSize /\ TsPacketSize \in Nat
      /\ Left(p) \in Nat /\ units[p] # <<>> /\ CurrentUnit(p) \in Nat
      /\ sent \in Nat /\ head \in Heads /\ SectionSize(head) \in Nat
      /\ CurrentUnit(p) \in DOMAIN units[p] /\ Last(units[p]) = units[p][CurrentUnit(p)]
      /\ Left(p) = SectionSize(head) - sent
  BY <1>3, SizesAreNumbers
<1> HIDE DEF sent, head
<1>5. n \in Nat /\ n >= 1 /\ n <= MaxPayload /\ n <= Left(p)
  <2>1. /\ SizeOrLess(MaxPayload, Left(p)) \in Int
        /\ SizeOrLess(MaxPayload, Left(p)) <= MaxPayload
        /\ SizeOrLess(MaxPayload, Left(p)) <= Left(p)
    BY <1>4 DEF SizeOrLess
  <2> QED
    BY <2>1, <1>4
<1>6. /\ OnlyGrows(p) /\ DOMAIN units'[p] = DOMAIN units[p]
      /\ \A u \in DOMAIN units[p] : units'[p][u].sent =
           IF u = CurrentUnit(p) THEN units[p][u].sent + n ELSE units[p][u].sent
  <2>1. SenderInv /\ p \in Pids /\ units[p] # <<>> /\ n \in Nat /\ ResumeUnit(p, n)
    BY <1>1, <1>4, <1>5 DEF TablesInv
  <2> QED
    BY <2>1, ResumeGrows, Zenon
<1>7. SectionsFit'
  <2> SUFFICES ASSUME NEW u \in DOMAIN units[p]
               PROVE  units'[p][u].sent <= SectionSize(units'[p][u].head)
    BY <1>6 DEF SectionsFit, OnlyGrows, TablesInv
  <2>1. units'[p][u].head = units[p][u].head
    BY <1>6 DEF OnlyGrows, Grown
  <2>2. CASE u = CurrentUnit(p)
    <3>1. units'[p][u].sent = sent + n /\ units'[p][u].head = head
      BY <2>1, <2>2, <1>4, <1>6 DEF sent, head
    <3> QED
      BY <3>1, <1>4, <1>5
  <2>3. CASE u # CurrentUnit(p)
    BY <2>1, <2>3, <1>6 DEF TablesInv, SectionsFit
  <2> QED
    BY <2>2, <2>3
<1>8. run(n) \in Seq(Cell) /\ Len(run(n)) = n
  <2> DEFINE first == sent + 1
             last == sent + n
  <2>1. /\ p \in Pids /\ CurrentUnit(p) \in Nat /\ n \in Nat
        /\ first \in Nat /\ last \in Nat /\ last - first + 1 = n
    BY <1>4, <1>5
  <2> HIDE DEF first, last
  <2>2. IsRun(Cells(p, CurrentUnit(p), first, last), p, CurrentUnit(p), first, n)
    BY <2>1, CellsRun, Zenon
  <2> QED
    BY <2>2 DEF IsRun, first, last
<1> DEFINE whole == run(n)
<1>whole. whole \in Seq(Cell) /\ Len(whole) = n /\ (carried = whole \/ carried = Stuffed(whole))
  BY <1>2, <1>8
<1> HIDE DEF whole
<1>9. carried \in Seq(Cell) /\ Len(carried) \in 1..MaxPayload
  BY <1>whole, <1>4, <1>5, StuffedType
<1> DEFINE start == FALSE
           pkt == PayloadPacket(p, start, flags, head, carried)
<1>10. Transfer(p, pkt, {}, OpenUnit(p)) /\ ~start
  BY <1>2
<1>11. /\ pkt.pid = p /\ pkt.payload_unit_start_indicator = start
       /\ pkt.bytes \in Seq(Cell) /\ Len(pkt.bytes) = TsPacketSize
       /\ Offset(pkt) = TsPacketSize - Len(carried)
  <2>1. /\ p \in Pids /\ start \in BOOLEAN /\ flags \in AfFlags \cup {Plain}
        /\ carried \in Seq(Cell) /\ Len(carried) \in 1..MaxPayload
    BY <1>9
  <2> HIDE DEF start
  <2> QED
    BY <2>1, PayloadIsFound
<1> HIDE DEF pkt
<1>12. Offset(pkt) \in Nat
  BY <1>4, <1>9, <1>11
<1>13. ParsablePacket(units'[p], p, pkt, split')
  <2>1. pkt.payload_unit_start_indicator \in BOOLEAN /\ ~pkt.payload_unit_start_indicator
    BY <1>10, <1>11
  <2> QED
    BY <2>1, <1>11, <1>12 DEF ParsablePacket
<1> QED
  BY <1>3, <1>6, <1>7, <1>10, <1>13, TransferKeepsTables DEF TablesInv

\* A packet that arrives while the sender stands still.
LEMMA StillArrivalKeepsTables ==
  ASSUME TablesInv, UNCHANGED <<units, split>>, NEW p \in Pids,
         NEW pkt, ParsablePacket(units[p], p, pkt, split), Arrive(p, pkt)
  PROVE  SenderInv' /\ SectionsFit' /\ CollectorInv'
<1>1. /\ Grown(units[p], units'[p]) /\ \A q \in Pids \ {p} : units'[q] = units[q]
      /\ split \subseteq split'
  BY DEF Grown
<1>2. ParsablePacket(units'[p], p, pkt, split')
  OBVIOUS
<1>3. CollectorInv'
  BY <1>1, <1>2, ArriveKeepsTables DEF TablesInv
<1> QED
  BY <1>3 DEF TablesInv, SenderInv, SectionsFit

LEMMA RepeatKeepsTables ==
  ASSUME TablesInv, NEW p \in Pids, RepeatPacket(p)
  PROVE  TablesInv'
<1>1. /\ lastPacket[p] # NoPacket /\ lastPacket' = [lastPacket EXCEPT ![p] = NoPacket]
      /\ units' = units /\ split' = split /\ Arrive(p, lastPacket[p])
  BY DEF RepeatPacket, Repeatable, Remember, sender
<1>2. ParsablePacket(units[p], p, lastPacket[p], split)
  BY <1>1 DEF TablesInv, ChannelInv
<1>3. SenderInv' /\ SectionsFit' /\ CollectorInv'
  BY <1>1, <1>2, StillArrivalKeepsTables
<1>4. ChannelInv'
  BY <1>1 DEF TablesInv, ChannelInv
<1> QED
  BY <1>3, <1>4 DEF TablesInv

LEMMA AdaptationKeepsTables ==
  ASSUME TablesInv, NEW p \in Pids, SendAdaptation(p)
  PROVE  TablesInv'
<1>1. PICK flags \in AfFlags : Arrive(p, AdaptationPacket(p, flags))
  BY DEF SendAdaptation
<1> DEFINE pkt == AdaptationPacket(p, flags)
<1>2. units' = units /\ lastPacket' = lastPacket /\ split' = split
  BY DEF SendAdaptation, sender
<1>3. /\ pkt.pid = p /\ pkt.payload_unit_start_indicator = FALSE
      /\ pkt.bytes \in Seq(Cell) /\ Len(pkt.bytes) = TsPacketSize
      /\ Offset(pkt) = 0
  BY NoPayloadIsWholePacket
<1> HIDE DEF pkt
<1>4. ParsablePacket(units[p], p, pkt, split)
  <2>1. pkt.payload_unit_start_indicator \in BOOLEAN /\ ~pkt.payload_unit_start_indicator
        /\ 0 \in Nat
    BY <1>3
  <2> QED
    BY <1>3, <2>1 DEF ParsablePacket
<1>5. SenderInv' /\ SectionsFit' /\ CollectorInv'
  BY <1>1, <1>2, <1>4, StillArrivalKeepsTables DEF pkt
<1>6. ChannelInv'
  BY <1>2 DEF TablesInv, ChannelInv
<1> QED
  BY <1>5, <1>6 DEF TablesInv

-----------------------------------------------------------------------------
(* The theorems *)

LEMMA InitHasTables == Init => TablesInv
<1> SUFFICES ASSUME Init PROVE TablesInv
  OBVIOUS
<1>1. units = [p \in Pids |-> <<>>]
  BY DEF Init, InitSender
<1>2. SenderInv
  <2>1. <<>> \in Seq(UnitRecord)
    OBVIOUS
  <2> QED
    BY <2>1, <1>1 DEF SenderInv
<1>3. SectionsFit
  BY <1>1 DEF SectionsFit
<1>4. CollectorInv
  <2>1. MapsInv
    BY DEF Init, InitSections, MapsInv
  <2>2. <<>> \in Seq(Cell) /\ Len(<<>>) = 0 /\ ~(0 > 0)
    OBVIOUS
  <2>3. ASSUME NEW p \in Pids
        PROVE  mSectionBuffer[p] = <<>> /\ mReadSectionLength[p] = 0 /\ mSectionLength[p] = 0
    BY DEF Init, InitSections
  <2> QED
    BY <2>1, <2>2, <2>3 DEF CollectorInv, TableInv
<1>5. ChannelInv
  BY DEF Init, InitChannel, ChannelInv
<1> QED
  BY <1>2, <1>3, <1>4, <1>5 DEF TablesInv

LEMMA NextKeepsTables == TablesInv /\ [Next]_vars => TablesInv'
<1> SUFFICES ASSUME TablesInv, [Next]_vars PROVE TablesInv'
  OBVIOUS
<1>1. CASE UNCHANGED vars
  BY <1>1 DEF TablesInv, SenderInv, SectionsFit, CollectorInv, MapsInv, ChannelInv,
              vars, sender, receiver, sections, channel
<1>2. CASE Next
  <2>1. PICK p \in Pids : SendStart(p) \/ SendMore(p) \/ RepeatPacket(p) \/ SendAdaptation(p)
    BY <1>2 DEF Next
  <2>2. CASE SendStart(p)
    BY <2>2, SendStartKeepsTables
  <2>3. CASE SendMore(p)
    BY <2>3, SendMoreKeepsTables
  <2>4. CASE RepeatPacket(p)
    BY <2>4, RepeatKeepsTables
  <2>5. CASE SendAdaptation(p)
    BY <2>5, AdaptationKeepsTables
  <2> QED
    BY <2>1, <2>2, <2>3, <2>4, <2>5
<1> QED
  BY <1>1, <1>2

(* On every path of collectTable, the one that throws included, the byte    *)
(* count of a PID is the length of its buffer: TsParser.cc never compares   *)
(* the section length with the count of another section.                    *)
THEOREM ReadLengthIsAlwaysBufferLength == Spec => []ReadLengthIsBufferLength
<1>1. TablesInv => ReadLengthIsBufferLength
  BY DEF TablesInv, CollectorInv, TableInv, ReadLengthIsBufferLength
<1> QED
  BY <1>1, InitHasTables, NextKeepsTables, PTL DEF Spec

(* The length and the table_id in the maps are those of the section the     *)
(* buffer starts with, as long as no section header of the PID is split.    *)
THEOREM LengthIsAlwaysOfHead == Spec => []LengthIsOfHead
<1>1. TablesInv => LengthIsOfHead
  BY DEF TablesInv, CollectorInv, TableInv, StartsSection, LengthIsOfHead
<1> QED
  BY <1>1, InitHasTables, NextKeepsTables, PTL DEF Spec

-----------------------------------------------------------------------------
(* What is in a buffer *)

StartsWith(raw, run) == \E rest \in Seq(Cell) : raw = run \o rest

IsOver(unit) == unit.sent = SectionSize(unit.head)
AllOf(p, list, u) == Cells(p, u, 1, SectionSize(list[u].head))
PartOf(p, list, u) == Cells(p, u, 1, list[u].sent)

\* A section has more than none and at most all of its cells sent, and all of
\* them when the next one has started.
Fits(list) ==
  /\ \A u \in DOMAIN list : list[u].sent >= 1 /\ list[u].sent <= SectionSize(list[u].head)
  /\ \A u \in 1..(Len(list) - 1) : IsOver(list[u])

\* A buffer that starts with the whole of section u.
Holds(p, list, raw, u) == u \in DOMAIN list /\ StartsWith(raw, AllOf(p, list, u))

\* What collectTable has of a PID.
Held(p) == [bytes |-> mSectionBuffer[p], length |-> mSectionLength[p], id |-> mTableId[p]]

\* Section u is in the buffer as far as it was sent, with more behind it when
\* all of it was, and its length and table_id are those that are kept.
Keeps(p, list, held, u) ==
  /\ u \in DOMAIN list
  /\ held.length = SectionSize(list[u].head) /\ held.id = list[u].head.table_id
  /\ \/ IsOver(list[u]) /\ StartsWith(held.bytes, AllOf(p, list, u))
     \/ u = Len(list) /\ held.bytes = PartOf(p, list, u)

\* A buffer that begins with `cell` holds what remains of a section that came
\* to harm or, early on, of a packet without payload.
Remains(cell, harm, early) ==
  UnitOf(cell) \in harm \/ (UnitOf(cell) = 0 /\ (harm # {} \/ early))

\* The callbacks when collectTable has left `held` (demux).
Calls(p, held) == ~StillShort(held.length, Len(held.bytes)) /\ CallsBack(p, held.id)

CalledBack(p, list, held, out, more) ==
  \/ Calls(p, held) /\ more = Append(out, [table_id |-> held.id, raw |-> held.bytes])
  \/ /\ Calls(p, held) => \A u \in DOMAIN list : ~Holds(p, list, held.bytes, u)
     /\ more = out

LEMMA StartsWithMore ==
  ASSUME NEW run \in Seq(Cell), NEW raw, StartsWith(raw, run), NEW bytes \in Seq(Cell)
  PROVE  StartsWith(raw \o bytes, run)
<1>1. PICK rest \in Seq(Cell) : raw = run \o rest
  BY DEF StartsWith
<1>2. rest \o bytes \in Seq(Cell)
  BY ConcatProperties
<1>3. (run \o rest) \o bytes = run \o (rest \o bytes)
  BY ConcatAssociative
<1> QED
  BY <1>1, <1>2, <1>3 DEF StartsWith

LEMMA StartsWithItself ==
  ASSUME NEW run \in Seq(Cell)
  PROVE  StartsWith(run, run)
<1>1. <<>> \in Seq(Cell) /\ run = run \o <<>>
  BY ConcatEmptySeq
<1> QED
  BY <1>1 DEF StartsWith

LEMMA StartsWithMeans ==
  ASSUME NEW run \in Seq(Cell), NEW raw, StartsWith(raw, run)
  PROVE  /\ raw \in Seq(Cell) /\ Len(run) <= Len(raw) /\ SubSeq(raw, 1, Len(run)) = run
         /\ run # <<>> => raw # <<>> /\ raw[1] = run[1]
<1>1. PICK rest \in Seq(Cell) : raw = run \o rest
  BY DEF StartsWith
<1>2. /\ raw \in Seq(Cell) /\ Len(raw) = Len(run) + Len(rest)
      /\ \A i \in 1..(Len(run) + Len(rest)) :
           raw[i] = IF i <= Len(run) THEN run[i] ELSE rest[i - Len(run)]
  BY <1>1, ConcatProperties
<1>3. Len(run) \in Nat /\ Len(rest) \in Nat
  OBVIOUS
<1>4. Len(run) <= Len(raw) /\ \A i \in 1..Len(run) : raw[i] = run[i]
  BY <1>2, <1>3
<1>5. SubSeq(raw, 1, Len(run)) = run
  BY <1>2, <1>4, PrefixByElements
<1>6. run # <<>> => raw # <<>> /\ raw[1] = run[1]
  BY <1>2, <1>3, <1>4
<1> QED
  BY <1>2, <1>4, <1>5, <1>6

LEMMA SubSeqStarts ==
  ASSUME NEW raw \in Seq(Cell), NEW run \in Seq(Cell), Len(run) <= Len(raw),
         SubSeq(raw, 1, Len(run)) = run
  PROVE  StartsWith(raw, run)
<1> DEFINE n == Len(run)
           m == Len(raw)
           rest == SubSeq(raw, n + 1, m)
           all == run \o rest
<1>1. n \in Nat /\ m \in Nat /\ n <= m
  OBVIOUS
<1>2. \A i \in 1..n : raw[i] = run[i]
  BY <1>1
<1>3. /\ rest \in Seq(Cell) /\ Len(rest) = m - n
      /\ \A i \in 1..(m - n) : rest[i] = raw[n + i]
  BY <1>1
<1> HIDE DEF rest
<1>4. /\ all \in Seq(Cell) /\ Len(all) = n + (m - n)
      /\ \A i \in 1..(n + (m - n)) : all[i] = IF i <= n THEN run[i] ELSE rest[i - n]
  BY <1>3, ConcatProperties
<1> HIDE DEF all, n, m
<1>5. ASSUME NEW i \in 1..m PROVE all[i] = raw[i]
  <2>1. i \in 1..(n + (m - n)) /\ (i <= n => i \in 1..n)
        /\ (~(i <= n) => i - n \in 1..(m - n) /\ n + (i - n) = i)
    BY <1>1
  <2> QED
    BY <2>1, <1>2, <1>3, <1>4
<1>6. Len(all) = m /\ Len(raw) = m
  BY <1>1, <1>4 DEF m
<1>7. all = raw
  BY <1>4, <1>5, <1>6, SeqEqual
<1> QED
  BY <1>3, <1>7 DEF StartsWith, all

\* The size of a section of a list.
LEMMA SectionSizes ==
  ASSUME NEW list \in Seq(UnitRecord), Fits(list), NEW u \in DOMAIN list
  PROVE  /\ u \in Nat \ {0} /\ list[u].head \in Heads
         /\ SectionSize(list[u].head) \in Nat \ {0} /\ list[u].sent \in Nat \ {0}
<1>1. u \in Nat \ {0} /\ list[u] \in UnitRecord
  OBVIOUS
<1>2. list[u].head \in Heads /\ list[u].sent \in Nat
  BY <1>1 DEF UnitRecord
<1>3. SectionSize(list[u].head) \in Nat \ {0}
  <2>1. list[u].head.section_length \in Nat
    BY <1>2, PsiHeadsAssumption
  <2> QED
    BY <2>1, SectionAssumption DEF SectionSize
<1>4. list[u].sent \in Nat \ {0}
  BY <1>2 DEF Fits
<1> QED
  BY <1>1, <1>2, <1>3, <1>4

\* The cells of a section of a list.
LEMMA SectionCells ==
  ASSUME NEW p \in Pids, NEW list \in Seq(UnitRecord), Fits(list), NEW u \in DOMAIN list
  PROVE  /\ u \in Nat \ {0} /\ list[u].head \in Heads
         /\ SectionSize(list[u].head) \in Nat \ {0} /\ list[u].sent \in Nat \ {0}
         /\ AllOf(p, list, u) \in Seq(Cell)
         /\ Len(AllOf(p, list, u)) = SectionSize(list[u].head)
         /\ AllOf(p, list, u) # <<>> /\ AllOf(p, list, u)[1] = <<p, u, 1>>
         /\ PartOf(p, list, u) \in Seq(Cell) /\ Len(PartOf(p, list, u)) = list[u].sent
         /\ PartOf(p, list, u) # <<>> /\ PartOf(p, list, u)[1] = <<p, u, 1>>
         /\ IsOver(list[u]) => PartOf(p, list, u) = AllOf(p, list, u)
<1> DEFINE size == SectionSize(list[u].head)
           sent == list[u].sent
<1>1. u \in Nat \ {0} /\ list[u].head \in Heads /\ size \in Nat \ {0} /\ sent \in Nat \ {0}
  BY SectionSizes
<1> HIDE DEF size, sent
<1>5. ASSUME NEW n \in Nat \ {0}
      PROVE  /\ Cells(p, u, 1, n) \in Seq(Cell) /\ Len(Cells(p, u, 1, n)) = n
             /\ Cells(p, u, 1, n) # <<>> /\ Cells(p, u, 1, n)[1] = <<p, u, 1>>
  <2>1. /\ Cells(p, u, 1, n) \in Seq(Cell) /\ Len(Cells(p, u, 1, n)) = n
        /\ \A i \in 1..n : Cells(p, u, 1, n)[i] = <<p, u, i>>
    BY <1>1, CellsFromOne
  <2>2. 1 \in 1..n
    OBVIOUS
  <2> QED
    BY <2>1, <2>2
<1>6. AllOf(p, list, u) = Cells(p, u, 1, size) /\ PartOf(p, list, u) = Cells(p, u, 1, sent)
  BY DEF AllOf, PartOf, size, sent
<1>7. IsOver(list[u]) => sent = size
  BY DEF IsOver, size, sent
<1> QED
  BY <1>1, <1>5, <1>6, <1>7 DEF size, sent

-----------------------------------------------------------------------------
(* What is known of a PID *)

\* What the buffer of the PID begins with.
Content(p, list, held, harm, early) ==
  held.bytes # <<>> => \/ Remains(held.bytes[1], harm, early)
                       \/ \E u \in DOMAIN list : Keeps(p, list, held, u)

\* The buffer.  The section under way is in it unless it came to harm.
BufferInv(p, list, held, harm, put) ==
  /\ list = <<>> => held.id = PSI_TABLE_ID_PAT
  /\ held.bytes = <<>> => list = <<>> \/ Len(list) \in harm
  /\ Content(p, list, held, harm, put /\ list = <<>>)
  /\ list # <<>> => \/ IsOver(list[Len(list)]) \/ Len(list) \in harm
                    \/ Keeps(p, list, held, Len(list))

\* The callbacks: what each was given, and that no table is missing.
KnownCall(p, list, call, harm, put) ==
  \/ Remains(call.raw[1], harm, put /\ p = 0)
  \/ \E u \in DOMAIN list :
       Holds(p, list, call.raw, u) /\ call.table_id = list[u].head.table_id

Known(p, list, out, harm, put) ==
  \A i \in DOMAIN out : KnownCall(p, list, out[i], harm, put)

Given(p, list, out, u) == \E i \in DOMAIN out : Holds(p, list, out[i].raw, u)

Settled(p, list, out, harm) ==
  \A u \in DOMAIN list \ harm :
    IsOver(list[u]) /\ CallsBack(p, list[u].head.table_id) => Given(p, list, out, u)

Contained(p, list, held, out, harm, put) ==
  /\ BufferInv(p, list, held, harm, put)
  /\ Known(p, list, out, harm, put) /\ Settled(p, list, out, harm)

\* A step of the sender: no section but the last one, or one that comes to
\* harm, is finished by it.
Onward(list, new, hurt) ==
  /\ new \in Seq(UnitRecord) /\ Fits(new) /\ Grown(list, new)
  /\ \A u \in DOMAIN list : IsOver(list[u]) => IsOver(new[u])
  /\ \A u \in DOMAIN new : u # Len(new) /\ u \notin hurt => u \in DOMAIN list /\ IsOver(list[u])

LEMMA OnwardStill ==
  ASSUME NEW list \in Seq(UnitRecord), Fits(list), NEW hurt
  PROVE  Onward(list, list, hurt)
<1>1. ASSUME NEW u \in DOMAIN list, u # Len(list) PROVE IsOver(list[u])
  <2>1. u \in 1..(Len(list) - 1)
    BY <1>1
  <2> QED
    BY <2>1 DEF Fits
<1> QED
  BY <1>1 DEF Onward, Grown

\* A section starts, after the tail of the one before it.
Starts(list, tail, head, n, new, hurt) ==
  /\ list \in Seq(UnitRecord) /\ Fits(list)
  /\ tail \in Nat
  /\ list = <<>> => tail = 0
  /\ list # <<>> => tail = SectionSize(list[Len(list)].head) - list[Len(list)].sent
  /\ head \in Heads /\ n \in Nat \ {0} /\ n <= SectionSize(head)
  /\ new = Append(MoreSent(list, tail), [head |-> head, sent |-> n])
  /\ tail # 0 => Len(list) \in hurt
Started(list, tail, head, n, new, hurt) ==
  /\ Onward(list, new, hurt) /\ Len(new) = Len(list) + 1 /\ new # <<>>
  /\ new[Len(new)].head = head /\ new[Len(new)].sent = n
  /\ tail = 0 => Begun(list, new)

LEMMA BegunIsOnward ==
  ASSUME NEW list, NEW tail, NEW head, NEW n, NEW new, NEW hurt,
         Starts(list, tail, head, n, new, hurt)
  PROVE  Started(list, tail, head, n, new, hurt)
<1> SUFFICES ASSUME
      list \in Seq(UnitRecord), Fits(list), tail \in Nat, list = <<>> => tail = 0,
      list # <<>> => tail = SectionSize(list[Len(list)].head) - list[Len(list)].sent,
      head \in Heads, n \in Nat \ {0}, n <= SectionSize(head),
      new = Append(MoreSent(list, tail), [head |-> head, sent |-> n]),
      tail # 0 => Len(list) \in hurt
    PROVE Started(list, tail, head, n, new, hurt)
  BY DEF Starts
<1> DEFINE N == Len(list)
           longer == MoreSent(list, tail)
           unit == [head |-> head, sent |-> n]
<1>1. /\ longer \in Seq(UnitRecord) /\ Len(longer) = N /\ Grown(list, longer)
      /\ \A u \in DOMAIN list :
           longer[u].sent = IF u = N THEN list[u].sent + tail ELSE list[u].sent
  BY MoreSentGrows
<1>2. tail = 0 => longer = list
  BY DEF MoreSent
<1>3. unit \in UnitRecord /\ unit.head = head /\ unit.sent = n
  BY DEF UnitRecord
<1>4. N \in Nat /\ DOMAIN list = 1..N
  OBVIOUS
<1> HIDE DEF longer, unit, N
<1>5. /\ new \in Seq(UnitRecord) /\ Len(new) = N + 1 /\ DOMAIN new = 1..(N + 1)
      /\ new[N + 1] = unit /\ \A u \in 1..N : new[u] = longer[u]
  BY <1>1, <1>3, <1>4 DEF longer, unit
<1>6. ASSUME NEW u \in 1..N
      PROVE  /\ new[u].head = list[u].head /\ IsOver(new[u])
             /\ new[u].sent >= 1 /\ new[u].sent <= SectionSize(new[u].head)
  <2>1. /\ u \in DOMAIN list /\ new[u] = longer[u] /\ new[u].head = list[u].head
        /\ new[u].sent = IF u = N THEN list[u].sent + tail ELSE list[u].sent
    BY <1>1, <1>4, <1>5 DEF Grown
  <2>2. SectionSize(list[u].head) \in Nat \ {0} /\ list[u].sent \in Nat
    BY <2>1, SectionSizes
  <2>3. new[u].sent = SectionSize(list[u].head)
    <3>1. CASE u = N
      <4>1. list # <<>>
        BY <2>1
      <4>2. tail = SectionSize(list[N].head) - list[N].sent
        BY <4>1 DEF N
      <4>3. new[u].sent = list[N].sent + tail /\ list[N].sent \in Nat
        BY <2>1, <2>2, <3>1
      <4>4. SectionSize(list[N].head) \in Nat
        BY <2>2, <3>1
      <4>5. \A a \in Nat, b \in Nat : b + (a - b) = a
        OBVIOUS
      <4>6. new[u].sent = SectionSize(list[N].head)
        BY <4>2, <4>3, <4>4, <4>5
      <4> QED
        BY <3>1, <4>6
    <3>2. CASE u # N
      <4>1. u \in 1..(N - 1)
        BY <1>4, <3>2
      <4>2. IsOver(list[u])
        BY <4>1 DEF Fits, N
      <4> QED
        BY <2>1, <3>2, <4>2 DEF IsOver
    <3> QED
      BY <3>1, <3>2
  <2>4. new[u].head = list[u].head
    BY <2>1
  <2>5. new[u].sent = SectionSize(new[u].head) /\ SectionSize(new[u].head) \in Nat \ {0}
    BY <2>2, <2>3, <2>4
  <2>6. new[u].sent >= 1 /\ new[u].sent <= SectionSize(new[u].head)
    BY ONLY <2>5
  <2> QED
    BY <2>4, <2>5, <2>6 DEF IsOver
<1>7. Grown(list, new)
  BY <1>4, <1>5, <1>6 DEF Grown
<1>8. Fits(new)
  <2>1. ASSUME NEW u \in DOMAIN new
        PROVE  new[u].sent >= 1 /\ new[u].sent <= SectionSize(new[u].head)
    <3>1. CASE u \in 1..N
      BY <1>6, <3>1
    <3>2. CASE u = N + 1
      BY <1>3, <1>5, <3>2
    <3> QED
      BY <1>4, <1>5, <3>1, <3>2
  <2>2. \A u \in 1..(Len(new) - 1) : u \in 1..N
    BY <1>4, <1>5
  <2> QED
    BY <1>6, <2>1, <2>2 DEF Fits
<1>9. ASSUME NEW u \in DOMAIN new, u # Len(new), u \notin hurt
      PROVE  u \in DOMAIN list /\ IsOver(list[u])
  <2>1. u \in 1..N /\ u \in DOMAIN list
    BY <1>4, <1>5, <1>9
  <2>2. CASE u = N
    <3>1. tail = 0
      BY <1>9, <2>2 DEF N
    <3>2. new[u] = list[u]
      BY <1>2, <1>5, <2>1, <3>1
    <3>3. IsOver(new[u])
      BY <1>6, <2>1
    <3> QED
      BY <2>1, <3>2, <3>3
  <2>3. CASE u # N
    <3>1. u \in 1..(Len(list) - 1)
      BY <1>4, <2>1, <2>3 DEF N
    <3> QED
      BY <2>1, <3>1 DEF Fits
  <2> QED
    BY <2>2, <2>3
<1>10. Onward(list, new, hurt)
  BY <1>4, <1>5, <1>6, <1>7, <1>8, <1>9 DEF Onward
<1>11. tail = 0 => Begun(list, new)
  BY <1>2, <1>5 DEF Begun, N
<1>12. new # <<>>
  BY <1>4, <1>5
<1> QED
  BY <1>3, <1>5, <1>10, <1>11, <1>12 DEF N, Started

\* The section under way goes on.
GoesOn(list, k, new) ==
  /\ list \in Seq(UnitRecord) /\ Fits(list) /\ list # <<>>
  /\ k \in Nat /\ k > 0 /\ k <= SectionSize(list[Len(list)].head) - list[Len(list)].sent
  /\ new = MoreSent(list, k)

LEMMA GrownIsOnward ==
  ASSUME NEW list, NEW k, NEW new, NEW hurt, GoesOn(list, k, new)
  PROVE  Onward(list, new, hurt) /\ GrownBy(list, new, k)
<1> SUFFICES ASSUME
      list \in Seq(UnitRecord), Fits(list), list # <<>>, k \in Nat, k > 0,
      k <= SectionSize(list[Len(list)].head) - list[Len(list)].sent, new = MoreSent(list, k)
    PROVE Onward(list, new, hurt) /\ GrownBy(list, new, k)
  BY DEF GoesOn
<1> DEFINE N == Len(list)
           m == list[N].sent
           size == SectionSize(list[N].head)
<1>1. N \in Nat \ {0} /\ N \in DOMAIN list /\ DOMAIN list = 1..N
  BY EmptySeq
<1>2. m \in Nat \ {0} /\ size \in Nat
  BY <1>1, SectionSizes
<1>3. new = [list EXCEPT ![N].sent = @ + k]
  BY DEF MoreSent
<1>4. new \in Seq(UnitRecord) /\ Len(new) = N /\ Grown(list, new)
  BY MoreSentGrows
<1>5. new[N].sent = m + k /\ new[N].head = list[N].head
  BY <1>1, <1>4, MoreSentGrows DEF Grown
<1>6. ASSUME NEW u \in 1..(N - 1) PROVE new[u] = list[u] /\ IsOver(list[u])
  <2>1. u \in DOMAIN list /\ u # N
    <3> HIDE DEF N
    <3> QED
      BY <1>1
  <2> QED
    BY <1>3, <2>1 DEF Fits
<1>7. GrownBy(list, new, k)
  BY <1>4, <1>5, <1>6 DEF GrownBy
<1>8. ~IsOver(list[N]) /\ m + k <= size
  BY <1>2 DEF IsOver
<1> HIDE DEF N, m, size
<1>9. DOMAIN new = 1..N /\ \A u \in 1..N : u = N \/ u \in 1..(N - 1)
  BY <1>1, <1>4
<1>10. Fits(new)
  <2>1. new[N].sent >= 1 /\ new[N].sent <= SectionSize(new[N].head)
    BY <1>2, <1>5, <1>8 DEF size
  <2>2. ASSUME NEW u \in 1..(N - 1)
        PROVE  new[u].sent >= 1 /\ new[u].sent <= SectionSize(new[u].head)
    <3>1. u \in DOMAIN list
      BY <1>1
    <3> QED
      BY <1>6, <3>1 DEF Fits
  <2> QED
    BY <1>4, <1>6, <1>9, <2>1, <2>2 DEF Fits
<1>11. \A u \in DOMAIN list : IsOver(list[u]) => IsOver(new[u])
  BY <1>1, <1>6, <1>8, <1>9
<1>12. \A u \in DOMAIN new : u # Len(new) => u \in DOMAIN list /\ IsOver(list[u])
  BY <1>1, <1>4, <1>6, <1>9
<1> QED
  BY <1>4, <1>7, <1>10, <1>11, <1>12 DEF Onward

LEMMA HoldsStill ==
  ASSUME NEW p, NEW list, NEW new, Grown(list, new), NEW raw, NEW u, Holds(p, list, raw, u)
  PROVE  Holds(p, new, raw, u)
<1>1. u \in DOMAIN list /\ u \in DOMAIN new /\ new[u].head = list[u].head
  BY DEF Holds, Grown
<1>2. AllOf(p, new, u) = AllOf(p, list, u)
  BY <1>1 DEF AllOf
<1> QED
  BY <1>1, <1>2 DEF Holds

LEMMA KnownStill ==
  ASSUME NEW p, NEW list, NEW new, Grown(list, new), NEW harm, NEW hurt, harm \subseteq hurt,
         NEW put \in BOOLEAN, NEW puts \in BOOLEAN, put => puts,
         NEW out, Known(p, list, out, harm, put)
  PROVE  Known(p, new, out, hurt, puts)
<1> SUFFICES ASSUME NEW i \in DOMAIN out PROVE KnownCall(p, new, out[i], hurt, puts)
  BY DEF Known
<1>1. KnownCall(p, list, out[i], harm, put)
  BY DEF Known
<1>2. CASE Remains(out[i].raw[1], harm, put /\ p = 0)
  <2>1. Remains(out[i].raw[1], hurt, puts /\ p = 0)
    BY <1>2 DEF Remains
  <2> QED
    BY <2>1 DEF KnownCall
<1>3. CASE \E u \in DOMAIN list :
             Holds(p, list, out[i].raw, u) /\ out[i].table_id = list[u].head.table_id
  <2>1. PICK u \in DOMAIN list :
          Holds(p, list, out[i].raw, u) /\ out[i].table_id = list[u].head.table_id
    BY <1>3
  <2>2. u \in DOMAIN new /\ new[u].head = list[u].head
    BY DEF Grown
  <2>3. Holds(p, new, out[i].raw, u)
    BY <2>1, HoldsStill
  <2> QED
    BY <2>1, <2>2, <2>3 DEF KnownCall
<1> QED
  BY <1>1, <1>2, <1>3 DEF KnownCall

\* A section that is kept is at the start of the buffer, which is as long as
\* the section when all of it was sent, and not before.
LEMMA KeptBuffer ==
  ASSUME NEW p \in Pids, NEW list \in Seq(UnitRecord), Fits(list),
         NEW held, NEW u, Keeps(p, list, held, u)
  PROVE  /\ u \in DOMAIN list /\ held.bytes # <<>> /\ UnitOf(held.bytes[1]) = u
         /\ held.bytes \in Seq(Cell) /\ held.id = list[u].head.table_id
         /\ StillShort(held.length, Len(held.bytes)) <=> ~IsOver(list[u])
         /\ IsOver(list[u]) => Holds(p, list, held.bytes, u)
<1> DEFINE size == SectionSize(list[u].head)
           whole == AllOf(p, list, u)
           part == PartOf(p, list, u)
<1>1. u \in DOMAIN list /\ held.length = size /\ held.id = list[u].head.table_id
  BY DEF Keeps
<1>2. /\ size \in Nat \ {0} /\ list[u].sent \in Nat
      /\ whole \in Seq(Cell) /\ Len(whole) = size
      /\ whole # <<>> /\ whole[1] = <<p, u, 1>>
      /\ part \in Seq(Cell) /\ Len(part) = list[u].sent
      /\ part # <<>> /\ part[1] = <<p, u, 1>>
      /\ IsOver(list[u]) => part = whole
  BY <1>1, SectionCells
<1>3. IsOver(list[u]) <=> list[u].sent = size
  BY DEF IsOver
<1>4. list[u].sent <= size
  BY <1>1 DEF Fits
<1> HIDE DEF size, whole, part
<1>5. CASE IsOver(list[u]) /\ StartsWith(held.bytes, whole)
  <2>1. /\ held.bytes \in Seq(Cell) /\ Len(whole) <= Len(held.bytes)
        /\ held.bytes # <<>> /\ held.bytes[1] = <<p, u, 1>>
    BY <1>2, <1>5, StartsWithMeans
  <2>2. ~StillShort(held.length, Len(held.bytes))
    BY <1>1, <1>2, <2>1 DEF StillShort
  <2> QED
    BY <1>1, <1>2, <1>5, <2>1, <2>2 DEF Holds, UnitOf, whole
<1>6. CASE held.bytes = part
  <2>1. StillShort(held.length, Len(held.bytes)) <=> ~IsOver(list[u])
    BY <1>1, <1>2, <1>3, <1>4, <1>6 DEF StillShort
  <2>2. IsOver(list[u]) => StartsWith(held.bytes, whole)
    BY <1>2, <1>6, StartsWithItself
  <2> QED
    BY <1>1, <1>2, <1>6, <2>1, <2>2 DEF Holds, UnitOf, whole
<1> QED
  BY <1>5, <1>6 DEF Keeps, whole, part

\* A callback with what is in the buffer is of a section of the list, or of
\* what remains of a damaged one.  Before the first section the table_id is
\* that of a PAT, which only PID 0 calls back.
LEMMA OneMoreKnown ==
  ASSUME NEW p \in Pids, NEW list \in Seq(UnitRecord), Fits(list), NEW held,
         NEW harm, NEW put \in BOOLEAN, BufferInv(p, list, held, harm, put),
         held.bytes # <<>>, NEW out, IsSeq(out), Known(p, list, out, harm, put),
         NEW more, CalledBack(p, list, held, out, more)
  PROVE  Known(p, list, more, harm, put)
<1> DEFINE call == [table_id |-> held.id, raw |-> held.bytes]
<1>1. CASE more = out
  BY <1>1
<1>2. CASE Calls(p, held) /\ more = Append(out, call)
  <2>1. KnownCall(p, list, call, harm, put)
    <3>1. CASE Remains(held.bytes[1], harm, put /\ list = <<>>)
      <4>1. list = <<>> => p = 0
        <5>1. CallsBack(p, held.id)
          BY <1>2 DEF Calls
        <5>2. list = <<>> => held.id = PSI_TABLE_ID_PAT
          BY DEF BufferInv
        <5> QED
          BY <5>1, <5>2 DEF CallsBack, PSI_TABLE_ID_PAT, PSI_TABLE_ID_PMT
      <4>2. Remains(held.bytes[1], harm, put /\ p = 0)
        BY <3>1, <4>1 DEF Remains
      <4> QED
        BY <4>2 DEF KnownCall
    <3>2. CASE \E u \in DOMAIN list : Keeps(p, list, held, u)
      <4>1. PICK u \in DOMAIN list : Keeps(p, list, held, u)
        BY <3>2
      <4>2. /\ held.id = list[u].head.table_id
            /\ StillShort(held.length, Len(held.bytes)) <=> ~IsOver(list[u])
            /\ IsOver(list[u]) => Holds(p, list, held.bytes, u)
        BY <4>1, KeptBuffer
      <4>3. ~StillShort(held.length, Len(held.bytes))
        BY <1>2 DEF Calls
      <4>4. Holds(p, list, call.raw, u) /\ call.table_id = list[u].head.table_id
        BY <4>2, <4>3
      <4> QED
        BY <4>1, <4>4 DEF KnownCall
    <3> QED
      BY <3>1, <3>2 DEF BufferInv, Content
  <2> HIDE DEF call
  <2>2. /\ DOMAIN more = 1..(Len(out) + 1) /\ DOMAIN out = 1..Len(out) /\ Len(out) \in Nat
        /\ more[Len(out) + 1] = call /\ \A i \in DOMAIN out : more[i] = out[i]
    BY <1>2, AppendIsSeq
  <2>3. ASSUME NEW i \in DOMAIN more PROVE KnownCall(p, list, more[i], harm, put)
    <3>1. i \in DOMAIN out \/ i = Len(out) + 1
      BY <2>2
    <3>2. CASE i \in DOMAIN out
      BY <2>2, <3>2 DEF Known
    <3>3. CASE i = Len(out) + 1
      BY <2>1, <2>2, <3>3
    <3> QED
      BY <3>1, <3>2, <3>3
  <2> QED
    BY <2>3 DEF Known
<1> QED
  BY <1>1, <1>2 DEF CalledBack

\* A list of callbacks that goes on.
LEMMA CalledIsLonger ==
  ASSUME NEW p, NEW list, NEW held, NEW out, IsSeq(out),
         NEW more, CalledBack(p, list, held, out, more)
  PROVE  IsSeq(more) /\ \A i \in DOMAIN out : i \in DOMAIN more /\ more[i] = out[i]
<1> DEFINE call == [table_id |-> held.id, raw |-> held.bytes]
<1>1. CASE more = out
  BY <1>1
<1>2. CASE more = Append(out, call)
  <2> HIDE DEF call
  <2>1. /\ IsSeq(more) /\ DOMAIN more = 1..(Len(out) + 1)
        /\ DOMAIN out = 1..Len(out) /\ Len(out) \in Nat
        /\ \A i \in DOMAIN out : more[i] = out[i]
    BY <1>2, AppendIsSeq
  <2> QED
    BY <2>1
<1> QED
  BY <1>1, <1>2 DEF CalledBack

\* The section that is kept is called back when all of it was sent.
LEMMA KeptIsGiven ==
  ASSUME NEW p \in Pids, NEW list \in Seq(UnitRecord), Fits(list), NEW held,
         NEW u, Keeps(p, list, held, u), IsOver(list[u]), CallsBack(p, list[u].head.table_id),
         NEW out, IsSeq(out), NEW more, CalledBack(p, list, held, out, more)
  PROVE  /\ Given(p, list, more, u)
         /\ more = Append(out, [table_id |-> held.id, raw |-> held.bytes])
<1> DEFINE call == [table_id |-> held.id, raw |-> held.bytes]
<1>1. /\ u \in DOMAIN list /\ held.id = list[u].head.table_id
      /\ ~StillShort(held.length, Len(held.bytes)) /\ Holds(p, list, held.bytes, u)
  BY KeptBuffer
<1>2. Calls(p, held)
  BY <1>1 DEF Calls
<1>3. more = Append(out, call)
  BY <1>1, <1>2 DEF CalledBack
<1>4. call.raw = held.bytes
  OBVIOUS
<1> HIDE DEF call
<1>5. /\ DOMAIN more = 1..(Len(out) + 1) /\ Len(out) \in Nat /\ more[Len(out) + 1] = call
  BY <1>3, AppendIsSeq
<1>6. Len(out) + 1 \in DOMAIN more /\ more[Len(out) + 1].raw = held.bytes
  BY <1>4, <1>5
<1>7. Given(p, list, more, u)
  BY <1>1, <1>6 DEF Given
<1> QED
  BY <1>3, <1>7 DEF call

\* No table is missing after a step if the last section, when all of it was
\* sent just now, is kept.
LEMMA SettledStill ==
  ASSUME NEW p \in Pids, NEW list \in Seq(UnitRecord), NEW new, NEW held, NEW out, IsSeq(out),
         NEW harm, NEW hurt, harm \subseteq hurt, Onward(list, new, hurt),
         Settled(p, list, out, harm),
         NEW more, CalledBack(p, new, held, out, more) \/ more = out,
         \/ Len(new) \in hurt
         \/ Len(new) \in DOMAIN list /\ (IsOver(new[Len(new)]) => IsOver(list[Len(new)]))
         \/ Keeps(p, new, held, Len(new)) /\ CalledBack(p, new, held, out, more)
  PROVE  Settled(p, new, more, hurt)
<1> SUFFICES ASSUME NEW u \in DOMAIN new \ hurt, IsOver(new[u]),
                    CallsBack(p, new[u].head.table_id)
             PROVE  Given(p, new, more, u)
  BY DEF Settled
<1>1. ASSUME u \in DOMAIN list, IsOver(list[u]) PROVE Given(p, new, more, u)
  <2>1. new[u].head = list[u].head /\ Grown(list, new)
    BY <1>1 DEF Onward, Grown
  <2>2. Given(p, list, out, u)
    BY <1>1, <2>1 DEF Settled
  <2>3. PICK i \in DOMAIN out : Holds(p, list, out[i].raw, u)
    BY <2>2 DEF Given
  <2>4. i \in DOMAIN more /\ more[i] = out[i]
    BY CalledIsLonger
  <2>5. Holds(p, new, more[i].raw, u)
    BY <2>1, <2>3, <2>4, HoldsStill
  <2> QED
    BY <2>4, <2>5 DEF Given
<1>2. ASSUME u = Len(new), Keeps(p, new, held, Len(new)), CalledBack(p, new, held, out, more)
      PROVE  Given(p, new, more, u)
  <2>1. Keeps(p, new, held, u) /\ new \in Seq(UnitRecord) /\ Fits(new)
    BY <1>2 DEF Onward
  <2> QED
    BY <1>2, <2>1, KeptIsGiven
<1> QED
  BY <1>1, <1>2 DEF Onward

\* What is in the buffer stays known when nothing is added to it and the
\* section under way comes to harm.
LEMMA ContentStill ==
  ASSUME NEW p \in Pids, NEW list \in Seq(UnitRecord), Fits(list), NEW new, NEW held,
         NEW harm, NEW hurt, harm \subseteq hurt, Onward(list, new, hurt),
         Len(new) \in hurt, NEW early, NEW late, Content(p, list, held, harm, early)
  PROVE  Content(p, new, held, hurt, late)
<1> SUFFICES ASSUME held.bytes # <<>>
             PROVE  \/ Remains(held.bytes[1], hurt, late)
                    \/ \E u \in DOMAIN new : Keeps(p, new, held, u)
  BY DEF Content
<1>1. CASE Remains(held.bytes[1], harm, early)
  BY <1>1 DEF Remains
<1>2. CASE \E u \in DOMAIN list : Keeps(p, list, held, u)
  <2>1. PICK u \in DOMAIN list : Keeps(p, list, held, u)
    BY <1>2
  <2>2. u \in DOMAIN new /\ new[u].head = list[u].head
    BY DEF Onward, Grown
  <2>3. UnitOf(held.bytes[1]) = u /\ (IsOver(list[u]) => Holds(p, list, held.bytes, u))
    BY <2>1, KeptBuffer
  <2>4. CASE u \in hurt
    BY <2>3, <2>4 DEF Remains
  <2>5. CASE u \notin hurt
    <3>1. IsOver(list[u]) /\ IsOver(new[u]) /\ Grown(list, new)
      BY <2>2, <2>5 DEF Onward
    <3>2. StartsWith(held.bytes, AllOf(p, new, u))
      BY <2>3, <3>1, HoldsStill DEF Holds
    <3>3. held.length = SectionSize(new[u].head) /\ held.id = new[u].head.table_id
      BY <2>1, <2>2 DEF Keeps
    <3>4. Keeps(p, new, held, u)
      BY <2>2, <3>1, <3>2, <3>3 DEF Keeps
    <3> QED
      BY <2>2, <3>4
  <2> QED
    BY <2>4, <2>5
<1> QED
  BY <1>1, <1>2 DEF Content

\* A packet of the last section is lost.
LEMMA LostIsContained ==
  ASSUME NEW p \in Pids, NEW list \in Seq(UnitRecord), Fits(list), NEW new, new # <<>>,
         NEW held, NEW out, IsSeq(out), NEW harm, NEW hurt, harm \subseteq hurt,
         NEW put \in BOOLEAN, NEW puts \in BOOLEAN, put => puts,
         Contained(p, list, held, out, harm, put), Onward(list, new, hurt), Len(new) \in hurt
  PROVE  Contained(p, new, held, out, hurt, puts)
<1>1. Content(p, list, held, harm, put /\ list = <<>>)
  BY DEF Contained, BufferInv
<1> DEFINE early == put /\ list = <<>>
           late == puts /\ new = <<>>
<1>2. Content(p, new, held, hurt, puts /\ new = <<>>)
  <2>1. Content(p, list, held, harm, early)
    BY <1>1
  <2> HIDE DEF early, late
  <2>2. Content(p, new, held, hurt, late)
    BY <2>1, ContentStill
  <2> QED
    BY <2>2 DEF late
<1>3. BufferInv(p, new, held, hurt, puts)
  BY <1>2 DEF BufferInv
<1>4. Known(p, new, out, hurt, puts)
  BY KnownStill DEF Contained, Onward
<1>5. Settled(p, new, out, hurt)
  BY SettledStill DEF Contained
<1> QED
  BY <1>3, <1>4, <1>5 DEF Contained

\* A section header is split: the buffer is emptied.
LEMMA SplitIsContained ==
  ASSUME NEW p \in Pids, NEW list \in Seq(UnitRecord), NEW new, new # <<>>,
         NEW held, NEW h, h.bytes = <<>>,
         NEW out, IsSeq(out), NEW harm, NEW hurt, harm \subseteq hurt,
         NEW put \in BOOLEAN, NEW puts \in BOOLEAN, put => puts,
         Contained(p, list, held, out, harm, put), Onward(list, new, hurt), Len(new) \in hurt
  PROVE  Contained(p, new, h, out, hurt, puts)
<1>1. BufferInv(p, new, h, hurt, puts)
  BY DEF BufferInv, Content
<1>2. Known(p, new, out, hurt, puts)
  BY KnownStill DEF Contained, Onward
<1>3. Settled(p, new, out, hurt)
  BY SettledStill DEF Contained
<1> QED
  BY <1>1, <1>2, <1>3 DEF Contained

\* A packet arrives after which the last section is kept.
LEMMA KeptIsContained ==
  ASSUME NEW p \in Pids, NEW list \in Seq(UnitRecord), NEW new, new # <<>>,
         NEW held, NEW h, NEW out, IsSeq(out),
         NEW harm, NEW hurt, harm \subseteq hurt,
         NEW put \in BOOLEAN, NEW puts \in BOOLEAN, put => puts,
         Contained(p, list, held, out, harm, put), Onward(list, new, hurt),
         Keeps(p, new, h, Len(new)), NEW more, CalledBack(p, new, h, out, more)
  PROVE  Contained(p, new, h, more, hurt, puts)
<1>1. new \in Seq(UnitRecord) /\ Fits(new) /\ Grown(list, new)
  BY DEF Onward
<1>2. Len(new) \in DOMAIN new /\ h.bytes # <<>>
  BY <1>1, KeptBuffer
<1>3. BufferInv(p, new, h, hurt, puts)
  BY <1>2 DEF BufferInv, Content
<1>4. Known(p, new, out, hurt, puts)
  BY <1>1, KnownStill DEF Contained
<1>5. Known(p, new, more, hurt, puts)
  BY <1>1, <1>2, <1>3, <1>4, OneMoreKnown
<1>6. Settled(p, new, more, hurt)
  BY SettledStill DEF Contained
<1> QED
  BY <1>3, <1>5, <1>6 DEF Contained

\* Bytes are appended to a buffer.
Appended(held, h, bytes) ==
  h.bytes = held.bytes \o bytes /\ h.length = held.length /\ h.id = held.id

LEMMA AppendedBytes ==
  ASSUME NEW raw \in Seq(Cell), NEW bytes \in Seq(Cell), bytes # <<>>
  PROVE  LET all == raw \o bytes
         IN  /\ all # <<>> /\ all \in Seq(Cell)
             /\ raw # <<>> => all[1] = raw[1]
             /\ raw = <<>> => all = bytes /\ all[1] = bytes[1]
<1> DEFINE all == raw \o bytes
<1>1. Len(raw) \in Nat /\ Len(bytes) \in Nat /\ Len(bytes) > 0
  BY EmptySeq
<1>2. /\ all \in Seq(Cell) /\ Len(all) = Len(raw) + Len(bytes)
      /\ \A i \in 1..(Len(raw) + Len(bytes)) :
           all[i] = IF i <= Len(raw) THEN raw[i] ELSE bytes[i - Len(raw)]
  BY ConcatProperties
<1> HIDE DEF all
<1>3. Len(all) > 0 /\ 1 \in 1..(Len(raw) + Len(bytes))
  BY <1>1, <1>2
<1>4. all # <<>>
  BY <1>3
<1>5. raw # <<>> => all[1] = raw[1]
  <2>1. raw # <<>> => 1 <= Len(raw)
    BY <1>1
  <2> QED
    BY <1>2, <1>3, <2>1
<1>6. raw = <<>> => all = bytes
  BY ConcatEmptySeq DEF all
<1> QED
  BY <1>2, <1>4, <1>5, <1>6 DEF all

\* The next k cells of the last section, and stuffing when it is finished.
IsMore(p, list, new, k, bytes) ==
  \E rest \in Seq(Cell) :
    /\ rest = <<>> \/ IsOver(new[Len(new)])
    /\ bytes = Cells(p, Len(list), list[Len(list)].sent + 1, list[Len(list)].sent + k) \o rest

LEMMA MoreBytes ==
  ASSUME NEW p \in Pids, NEW list \in Seq(UnitRecord), Fits(list), list # <<>>, NEW new,
         NEW k \in Nat, k > 0, NEW bytes, IsMore(p, list, new, k, bytes)
  PROVE  bytes \in Seq(Cell) /\ bytes # <<>> /\ UnitOf(bytes[1]) = Len(list)
<1> DEFINE N == Len(list)
           m == list[N].sent
           run == Cells(p, N, m + 1, m + k)
<1>1. N \in DOMAIN list /\ N \in Nat
  BY EmptySeq
<1>2. m \in Nat
  BY <1>1, SectionCells
<1>3. PICK rest \in Seq(Cell) : bytes = run \o rest
  BY DEF IsMore
<1>4. run \in Seq(Cell) /\ Len(run) = k /\ run[1] = <<p, N, m + 1>>
  <2> HIDE DEF m
  <2>1. m + 1 \in Nat /\ m + k \in Nat /\ (m + k) - (m + 1) + 1 = k
    BY <1>2
  <2>2. IsRun(Cells(p, N, m + 1, m + k), p, N, m + 1, k)
    <3> HIDE DEF N, run
    <3> QED
      BY <1>1, <2>1, CellsRun, Zenon
  <2> QED
    BY <2>2 DEF IsRun
<1> HIDE DEF run
<1>5. /\ bytes \in Seq(Cell) /\ Len(bytes) = k + Len(rest)
      /\ \A i \in 1..(k + Len(rest)) : bytes[i] = IF i <= k THEN run[i] ELSE rest[i - k]
  BY <1>3, <1>4, ConcatProperties
<1>6. Len(rest) \in Nat /\ 1 \in 1..(k + Len(rest)) /\ 1 <= k /\ Len(bytes) > 0
  BY <1>5
<1>7. bytes # <<>> /\ bytes[1] = <<p, N, m + 1>>
  BY <1>4, <1>5, <1>6
<1> QED
  BY <1>5, <1>7 DEF UnitOf

\* A section that grows was not over.
LEMMA GrownWasNotOver ==
  ASSUME NEW list \in Seq(UnitRecord), Fits(list), list # <<>>,
         NEW new \in Seq(UnitRecord), Fits(new), NEW k \in Nat, k > 0, GrownBy(list, new, k)
  PROVE  ~IsOver(list[Len(list)])
<1> DEFINE N == Len(list)
           size == SectionSize(list[N].head)
           m == list[N].sent
<1>1. N \in DOMAIN list /\ N \in DOMAIN new
  BY EmptySeq DEF GrownBy
<1>2. size \in Nat /\ m \in Nat
  BY <1>1, SectionSizes
<1>3. new[N].head = list[N].head /\ new[N].sent = m + k
  BY DEF GrownBy
<1>4. m + k <= size
  BY <1>1, <1>3 DEF Fits
<1> HIDE DEF size, m
<1>5. m # size
  BY <1>2, <1>4
<1> QED
  BY <1>5 DEF IsOver, size, m

\* A section that is kept is kept when the last one grows: if it is the one
\* that grows, so does what is in the buffer.
LEMMA MoreIsKept ==
  ASSUME NEW p \in Pids, NEW list \in Seq(UnitRecord), Fits(list), list # <<>>,
         NEW new \in Seq(UnitRecord), Fits(new), NEW k \in Nat, k > 0, GrownBy(list, new, k),
         NEW held, NEW h, NEW bytes, IsMore(p, list, new, k, bytes), Appended(held, h, bytes),
         NEW u, Keeps(p, list, held, u)
  PROVE  Keeps(p, new, h, u)
<1> DEFINE N == Len(list)
           m == list[N].sent
           run == Cells(p, N, m + 1, m + k)
<1>1. /\ N \in Nat \ {0} /\ N \in DOMAIN list /\ u \in DOMAIN list /\ DOMAIN list = 1..N
      /\ Len(new) = N /\ DOMAIN new = 1..N
  BY EmptySeq DEF Keeps, GrownBy
<1>2. \A v \in 1..(N - 1) : new[v] = list[v]
  BY DEF GrownBy
<1>3. new[N].head = list[N].head /\ new[N].sent = m + k
  BY DEF GrownBy
<1>4. new[u].head = list[u].head
  BY <1>1, <1>2, <1>3
<1>5. held.length = SectionSize(list[u].head) /\ held.id = list[u].head.table_id
  BY DEF Keeps
<1>6. h.bytes = held.bytes \o bytes /\ h.length = held.length /\ h.id = held.id
  BY DEF Appended
<1>7. m \in Nat /\ SectionSize(list[N].head) \in Nat
  BY <1>1, SectionCells
<1>8. ~IsOver(list[N])
  BY GrownWasNotOver
<1>9. bytes \in Seq(Cell)
  BY MoreBytes
<1>10. CASE IsOver(list[u]) /\ StartsWith(held.bytes, AllOf(p, list, u))
  <2>1. u \in 1..(N - 1)
    <3>1. u # N
      BY <1>8, <1>10
    <3> QED
      BY <1>1, <3>1
  <2>2. new[u] = list[u]
    BY <1>2, <2>1
  <2>3. AllOf(p, list, u) \in Seq(Cell)
    BY <1>1, SectionCells
  <2>4. StartsWith(held.bytes \o bytes, AllOf(p, list, u))
    BY <1>9, <1>10, <2>3, StartsWithMore
  <2>5. StartsWith(h.bytes, AllOf(p, new, u)) /\ IsOver(new[u])
    BY <1>6, <1>10, <2>2, <2>4 DEF AllOf
  <2>6. u \in DOMAIN new
    BY <1>1
  <2>7. h.length = SectionSize(new[u].head) /\ h.id = new[u].head.table_id
    BY <1>4, <1>5, <1>6
  <2> QED
    BY <2>5, <2>6, <2>7 DEF Keeps
<1>11. CASE u = N /\ held.bytes = PartOf(p, list, u)
  <2>1. PICK rest \in Seq(Cell) : /\ rest = <<>> \/ IsOver(new[Len(new)])
                                  /\ bytes = run \o rest
    BY DEF IsMore
  <2>2. held.bytes = Cells(p, N, 1, m)
    BY <1>11 DEF PartOf
  <2>3. Cells(p, N, 1, m) \o run = Cells(p, N, 1, m + k)
    <3>1. N \in Nat /\ m \in Nat /\ k \in Nat /\ p \in Pids
      BY <1>1, <1>7
    <3> HIDE DEF m, N
    <3> QED
      BY ONLY <3>1, CellsJoin, Zenon DEF run
  <2>4. PartOf(p, new, N) = Cells(p, N, 1, m + k)
    BY <1>3 DEF PartOf
  <2>5. Cells(p, N, 1, m) \in Seq(Cell)
    <3> HIDE DEF m, N
    <3> QED
      BY <1>1, <1>7, CellsFromOne
  <2>6. run \in Seq(Cell)
    <3> HIDE DEF m, N
    <3>1. m + 1 \in Nat /\ m + k \in Nat /\ (m + k) - (m + 1) + 1 = k
      BY <1>7
    <3>2. IsRun(Cells(p, N, m + 1, m + k), p, N, m + 1, k)
      <4> HIDE DEF run
      <4> QED
        BY <1>1, <3>1, CellsRun, Zenon
    <3> QED
      BY <3>2 DEF IsRun
  <2>7. h.bytes = PartOf(p, new, N) \o rest
    <3> HIDE DEF run, N, m
    <3>1. h.bytes = Cells(p, N, 1, m) \o (run \o rest)
      BY <1>6, <2>1, <2>2
    <3>2. Cells(p, N, 1, m) \o (run \o rest) = (Cells(p, N, 1, m) \o run) \o rest
      <4> DEFINE part == Cells(p, N, 1, m)
      <4>1. part \in Seq(Cell) /\ run \in Seq(Cell) /\ rest \in Seq(Cell)
        BY <2>5, <2>6
      <4> HIDE DEF part
      <4>2. part \o (run \o rest) = (part \o run) \o rest
        BY ONLY <4>1, ConcatAssociative
      <4> QED
        BY ONLY <4>2 DEF part
    <3> QED
      BY <2>3, <2>4, <3>1, <3>2
  <2>8. h.length = SectionSize(new[u].head) /\ h.id = new[u].head.table_id
    BY <1>4, <1>5, <1>6
  <2>9. N \in DOMAIN new /\ PartOf(p, new, N) \in Seq(Cell)
        /\ (IsOver(new[N]) => PartOf(p, new, N) = AllOf(p, new, N))
    <3>1. N \in DOMAIN new
      BY <1>1
    <3> QED
      BY <3>1, SectionCells
  <2>10. CASE IsOver(new[N])
    <3>1. StartsWith(h.bytes, AllOf(p, new, N))
      BY <2>7, <2>9, <2>10 DEF StartsWith
    <3> QED
      BY <1>11, <2>8, <2>9, <2>10, <3>1 DEF Keeps
  <2>11. CASE ~IsOver(new[N])
    <3>1. rest = <<>>
      BY <1>1, <2>1, <2>11
    <3>2. h.bytes = PartOf(p, new, N)
      BY <2>7, <2>9, <3>1, ConcatEmptySeq
    <3> QED
      BY <1>1, <1>11, <2>8, <2>9, <3>2 DEF Keeps
  <2> QED
    BY <2>10, <2>11
<1> QED
  BY <1>10, <1>11 DEF Keeps

\* A packet with more of the last section arrives.
LEMMA MoreIsContained ==
  ASSUME NEW p \in Pids, NEW list \in Seq(UnitRecord), Fits(list), list # <<>>,
         NEW new, NEW k \in Nat, k > 0, GrownBy(list, new, k),
         NEW held, held.bytes \in Seq(Cell), NEW h, NEW bytes, IsMore(p, list, new, k, bytes),
         Appended(held, h, bytes), NEW out, IsSeq(out),
         NEW harm, NEW hurt, harm \subseteq hurt,
         NEW put \in BOOLEAN, NEW puts \in BOOLEAN, put => puts,
         Contained(p, list, held, out, harm, put), Onward(list, new, hurt),
         NEW more, CalledBack(p, new, h, out, more)
  PROVE  Contained(p, new, h, more, hurt, puts)
<1> DEFINE N == Len(list)
<1>1. new \in Seq(UnitRecord) /\ Fits(new) /\ Grown(list, new)
  BY DEF Onward
<1>2. /\ N \in DOMAIN list /\ Len(new) = N /\ new # <<>> /\ N \in DOMAIN new
  BY <1>1, EmptySeq DEF GrownBy
<1>3. bytes \in Seq(Cell) /\ bytes # <<>> /\ UnitOf(bytes[1]) = N
  BY MoreBytes
<1>4. /\ h.bytes # <<>>
      /\ held.bytes # <<>> => h.bytes[1] = held.bytes[1]
      /\ held.bytes = <<>> => h.bytes[1] = bytes[1]
  BY <1>3, AppendedBytes DEF Appended
<1>5. ASSUME NEW u, Keeps(p, list, held, u) PROVE Keeps(p, new, h, u)
  BY <1>1, <1>5, MoreIsKept
<1>6. Content(p, new, h, hurt, puts /\ new = <<>>)
  <2>1. CASE held.bytes = <<>>
    <3>1. N \in hurt
      BY <2>1 DEF Contained, BufferInv
    <3> QED
      BY <1>3, <1>4, <2>1, <3>1 DEF Content, Remains
  <2>2. CASE held.bytes # <<>>
    <3>1. \/ Remains(held.bytes[1], harm, put /\ list = <<>>)
          \/ \E u \in DOMAIN list : Keeps(p, list, held, u)
      BY <2>2 DEF Contained, BufferInv, Content
    <3>2. CASE Remains(held.bytes[1], harm, put /\ list = <<>>)
      <4>1. Remains(h.bytes[1], hurt, puts /\ new = <<>>)
        BY <1>4, <2>2, <3>2 DEF Remains
      <4> QED
        BY <4>1 DEF Content
    <3>3. CASE \E u \in DOMAIN list : Keeps(p, list, held, u)
      <4>1. PICK u \in DOMAIN list : Keeps(p, list, held, u)
        BY <3>3
      <4>2. u \in DOMAIN new
        BY <1>1 DEF Grown
      <4> QED
        BY <1>5, <4>1, <4>2 DEF Content
    <3> QED
      BY <3>1, <3>2, <3>3
  <2> QED
    BY <2>1, <2>2
<1>7. N \in hurt \/ Keeps(p, new, h, N) \/ (IsOver(new[N]) => IsOver(list[N]))
  <2>1. IsOver(list[N]) \/ N \in harm \/ Keeps(p, list, held, N)
    BY DEF Contained, BufferInv
  <2> QED
    BY <1>5, <2>1
<1>8. BufferInv(p, new, h, hurt, puts)
  <2>1. IsOver(list[N]) \/ N \in harm \/ Keeps(p, list, held, N)
    BY DEF Contained, BufferInv
  <2>2. IsOver(list[N]) => IsOver(new[N])
    BY <1>2 DEF Onward
  <2>3. IsOver(new[N]) \/ N \in hurt \/ Keeps(p, new, h, N)
    BY <1>5, <2>1, <2>2
  <2> QED
    BY <1>2, <1>4, <1>6, <2>3 DEF BufferInv
<1>9. Known(p, new, out, hurt, puts)
  BY <1>1, KnownStill DEF Contained
<1>10. Known(p, new, more, hurt, puts)
  BY <1>1, <1>4, <1>8, <1>9, OneMoreKnown
<1>11. Settled(p, new, more, hurt)
  <2>1. \/ Len(new) \in hurt
        \/ Len(new) \in DOMAIN list /\ (IsOver(new[Len(new)]) => IsOver(list[Len(new)]))
        \/ Keeps(p, new, h, Len(new)) /\ CalledBack(p, new, h, out, more)
    BY <1>2, <1>7
  <2>2. Settled(p, list, out, harm)
    BY DEF Contained
  <2> QED
    BY <2>1, <2>2, SettledStill
<1> QED
  BY <1>8, <1>10, <1>11 DEF Contained

\* A packet arrives while the sender stands still: one without payload, or the
\* last one again.  It harms the section under way.
LEMMA StillIsContained ==
  ASSUME NEW p \in Pids, NEW list \in Seq(UnitRecord), Fits(list),
         NEW held, held.bytes \in Seq(Cell), NEW h, NEW bytes \in Seq(Cell), bytes # <<>>,
         Appended(held, h, bytes), NEW out, IsSeq(out),
         NEW harm, NEW hurt, harm \subseteq hurt,
         NEW put \in BOOLEAN, NEW puts \in BOOLEAN, put => puts,
         Contained(p, list, held, out, harm, put),
         list # <<>> => IsOver(list[Len(list)]) \/ Len(list) \in hurt,
         \/ UnitOf(bytes[1]) = 0 /\ puts
         \/ list # <<>> /\ UnitOf(bytes[1]) = Len(list),
         NEW more, CalledBack(p, list, h, out, more)
  PROVE  Contained(p, list, h, more, hurt, puts)
<1> DEFINE N == Len(list)
<1>1. Onward(list, list, hurt)
  BY OnwardStill
<1>2. /\ h.bytes # <<>>
      /\ held.bytes # <<>> => h.bytes[1] = held.bytes[1]
      /\ held.bytes = <<>> => h.bytes[1] = bytes[1]
  BY AppendedBytes DEF Appended
<1>3. Content(p, list, h, hurt, puts /\ list = <<>>)
  <2>1. CASE held.bytes = <<>>
    <3>1. list = <<>> \/ N \in hurt
      BY <2>1 DEF Contained, BufferInv
    <3> QED
      BY <1>2, <2>1, <3>1 DEF Content, Remains
  <2>2. CASE held.bytes # <<>>
    <3>1. \/ Remains(held.bytes[1], harm, put /\ list = <<>>)
          \/ \E u \in DOMAIN list : Keeps(p, list, held, u)
      BY <2>2 DEF Contained, BufferInv, Content
    <3>2. CASE Remains(held.bytes[1], harm, put /\ list = <<>>)
      <4>1. Remains(h.bytes[1], hurt, puts /\ list = <<>>)
        BY <1>2, <2>2, <3>2 DEF Remains
      <4> QED
        BY <4>1 DEF Content
    <3>3. CASE \E u \in DOMAIN list : Keeps(p, list, held, u)
      <4>1. PICK u \in DOMAIN list : Keeps(p, list, held, u)
        BY <3>3
      <4>2. UnitOf(held.bytes[1]) = u /\ (IsOver(list[u]) => Holds(p, list, held.bytes, u))
        BY <4>1, KeptBuffer
      <4>3. CASE ~IsOver(list[u])
        <5>1. u = N /\ list # <<>>
          BY <4>1, <4>3 DEF Keeps
        <5>2. u \in hurt
          BY <4>3, <5>1
        <5> QED
          BY <1>2, <2>2, <4>2, <5>2 DEF Content, Remains
      <4>4. CASE IsOver(list[u])
        <5>1. AllOf(p, list, u) \in Seq(Cell)
          BY SectionCells
        <5>2. StartsWith(h.bytes, AllOf(p, list, u))
          BY <4>2, <4>4, <5>1, StartsWithMore DEF Holds, Appended
        <5>3. h.length = SectionSize(list[u].head) /\ h.id = list[u].head.table_id
          BY <4>1 DEF Keeps, Appended
        <5>4. Keeps(p, list, h, u)
          BY <4>4, <5>2, <5>3 DEF Keeps
        <5> QED
          BY <5>4 DEF Content
      <4> QED
        BY <4>3, <4>4
    <3> QED
      BY <3>1, <3>2, <3>3
  <2> QED
    BY <2>1, <2>2
<1>4. BufferInv(p, list, h, hurt, puts)
  <2>1. list = <<>> => h.id = PSI_TABLE_ID_PAT
    BY DEF Contained, BufferInv, Appended
  <2> QED
    BY <1>2, <1>3, <2>1 DEF BufferInv
<1>5. Grown(list, list)
  BY DEF Grown
<1>6. Known(p, list, out, hurt, puts)
  BY <1>5, KnownStill DEF Contained
<1>7. Known(p, list, more, hurt, puts)
  BY <1>2, <1>4, <1>6, OneMoreKnown
<1>8. Settled(p, list, more, hurt)
  <2>1. CASE list = <<>>
    BY <2>1 DEF Settled
  <2>2. CASE list # <<>>
    <3>1. Len(list) \in DOMAIN list
      BY <2>2
    <3> QED
      BY <1>1, <3>1, SettledStill DEF Contained
  <2> QED
    BY <2>1, <2>2
<1> QED
  BY <1>4, <1>7, <1>8 DEF Contained

-----------------------------------------------------------------------------
(* What a packet with a section start brings *)

Brought(pkt) ==
  [bytes  |-> TableBytes(pkt, parseTsPacketInfo(pkt)),
   length |-> WholeSection(pkt.head), id |-> pkt.head.table_id]

\* The cells of the section in the payload, behind the tail of the one before.
Carries(p, u, n, carried) ==
  /\ u \in Nat /\ n \in Nat \ {0} /\ Left(p) + 1 + n <= MaxPayload
  /\ \/ carried = TailOf(p) \o Cells(p, u, 1, n)
     \/ carried = Stuffed(TailOf(p) \o Cells(p, u, 1, n))

LEMMA StartCells ==
  ASSUME NEW p \in Pids, NEW u, NEW n, NEW carried, TablesInv, Carries(p, u, n, carried)
  PROVE  /\ carried \in Seq(Cell) /\ Len(carried) \in 1..MaxPayload
         /\ Len(carried) >= Left(p) + 1 + n
         /\ carried = TailOf(p) \o Cells(p, u, 1, n) => Len(carried) = Left(p) + 1 + n
         /\ \A i \in 1..n : carried[Left(p) + 1 + i] = Cells(p, u, 1, n)[i]
<1> DEFINE run == Cells(p, u, 1, n)
           tail == TailOf(p)
           m == Left(p) + 1
           payload == tail \o run
<1>0. u \in Nat /\ n \in Nat \ {0}
  BY DEF Carries
<1>1. tail \in Seq(Cell) /\ Len(tail) = m /\ m \in Nat \ {0} /\ MaxPayload \in Nat
  BY TailType, SizesAreNumbers
<1>2. run \in Seq(Cell) /\ Len(run) = n
  BY <1>0, CellsFromOne
<1>3. carried = payload \/ carried = Stuffed(payload)
  BY DEF Carries
<1>4. m + n <= MaxPayload
  BY DEF Carries
<1> HIDE DEF run, tail, m
<1>5. /\ payload \in Seq(Cell) /\ Len(payload) = m + n
      /\ \A i \in 1..(m + n) : payload[i] = IF i <= m THEN tail[i] ELSE run[i - m]
  BY <1>0, <1>1, <1>2, ConcatProperties
<1> HIDE DEF payload
<1>6. ASSUME NEW i \in 1..n PROVE m + i \in DOMAIN payload /\ payload[m + i] = run[i]
  <2>1. m + i \in 1..(m + n) /\ ~(m + i <= m) /\ (m + i) - m = i
    BY <1>0, <1>1
  <2> QED
    BY <1>5, <2>1
<1>7. CASE carried = payload
  <2>1. Len(carried) \in 1..MaxPayload /\ Len(carried) >= m + n
    BY <1>0, <1>1, <1>4, <1>5, <1>7
  <2> QED
    BY <1>5, <1>6, <1>7, <2>1 DEF m, run, payload, tail
<1>8. CASE carried = Stuffed(payload)
  <2>1. Len(payload) <= MaxPayload
    BY <1>0, <1>1, <1>4, <1>5
  <2>2. /\ carried \in Seq(Cell) /\ Len(carried) = MaxPayload
        /\ \A i \in DOMAIN payload : carried[i] = payload[i]
    BY <1>5, <1>8, <2>1, StuffedType
  <2>3. MaxPayload \in 1..MaxPayload
    BY <1>0, <1>1, <1>4
  <2>4. Len(carried) \in 1..MaxPayload /\ Len(carried) >= m + n
    BY <1>0, <1>1, <1>4, <2>2, <2>3
  <2>5. ASSUME NEW i \in 1..n PROVE carried[m + i] = run[i]
    BY <1>6, <2>2
  <2>6. carried = payload => Len(carried) = m + n
    BY <1>5
  <2> QED
    BY <2>2, <2>4, <2>5, <2>6 DEF m, run, payload, tail
<1> QED
  BY <1>3, <1>7, <1>8

IsPacket(p, start, flags, head, carried, pkt) ==
  /\ start \in BOOLEAN /\ flags \in AfFlags \cup {Plain} /\ head.pointer_field = Left(p)
  /\ pkt = PayloadPacket(p, start, flags, head, carried)

\* collectTable takes the section from the packet, and the stuffing with it.
LEMMA StartIsBrought ==
  ASSUME NEW p \in Pids, NEW u, NEW n, NEW carried, NEW start, NEW flags, NEW head, NEW pkt,
         TablesInv, Carries(p, u, n, carried), IsPacket(p, start, flags, head, carried, pkt)
  PROVE  /\ Brought(pkt).bytes \in Seq(Cell) /\ Len(Brought(pkt).bytes) >= n
         /\ StartsWith(Brought(pkt).bytes, Cells(p, u, 1, n))
         /\ carried = TailOf(p) \o Cells(p, u, 1, n) => Brought(pkt).bytes = Cells(p, u, 1, n)
<1>0. /\ u \in Nat /\ n \in Nat \ {0}
      /\ start \in BOOLEAN /\ flags \in AfFlags \cup {Plain} /\ head.pointer_field = Left(p)
      /\ pkt = PayloadPacket(p, start, flags, head, carried)
  BY DEF Carries, IsPacket
<1> DEFINE run == Cells(p, u, 1, n)
           m == Left(p) + 1
           size == Len(carried)
           first == Offset(pkt) + m
           copied == SubSeq(pkt.bytes, first + 1, TsPacketSize)
           whole == carried = TailOf(p) \o run
<1>1. /\ carried \in Seq(Cell) /\ size \in 1..MaxPayload /\ size >= m + n
      /\ whole => size = m + n
      /\ \A i \in 1..n : carried[m + i] = run[i]
  BY StartCells
<1>2. m \in Nat \ {0} /\ MaxPayload \in Nat /\ MaxPayload <= TsPacketSize /\ TsPacketSize \in Nat
  BY SizesAreNumbers
<1>3. run \in Seq(Cell) /\ Len(run) = n
  BY <1>0, CellsFromOne
<1>4. /\ pkt.head = head
      /\ pkt.bytes \in Seq(Cell) /\ Len(pkt.bytes) = TsPacketSize
      /\ Offset(pkt) = TsPacketSize - size
      /\ \A i \in DOMAIN carried : pkt.bytes[Offset(pkt) + i] = carried[i]
  <2>1. /\ p \in Pids /\ start \in BOOLEAN /\ flags \in AfFlags \cup {Plain}
        /\ carried \in Seq(Cell) /\ Len(carried) \in 1..MaxPayload
        /\ pkt = PayloadPacket(p, start, flags, head, carried)
    BY <1>0, <1>1
  <2> HIDE DEF run, m, first, copied, whole
  <2> QED
    BY ONLY <2>1, PayloadIsFound
<1>5. Brought(pkt).bytes = copied
  <2>1. tableOffset(pkt, parseTsPacketInfo(pkt)) = Offset(pkt) + 1 + Left(p)
    BY <1>0, <1>4 DEF tableOffset, Offset
  <2>2. Offset(pkt) + 1 + Left(p) = first
    <3>1. Offset(pkt) \in Nat /\ Left(p) \in Nat
      BY <1>1, <1>2, <1>4, SizesAreNumbers
    <3> QED
      BY <3>1
  <2> QED
    BY <2>1, <2>2 DEF Brought, TableBytes, BytesFrom
<1> HIDE DEF run, m, size, whole
<1>6. /\ first \in Nat /\ first < TsPacketSize /\ TsPacketSize - first = size - m
      /\ size \in Nat /\ size - m >= n
  BY <1>0, <1>1, <1>2, <1>4
<1>7. /\ copied \in Seq(Cell) /\ Len(copied) = size - m
      /\ \A i \in 1..(size - m) : copied[i] = pkt.bytes[first + i]
  <2>1. \A i \in (first + 1)..TsPacketSize : pkt.bytes[i] \in Cell
    BY <1>4, <1>6, <1>2
  <2>2. first + 1 \in Int /\ TsPacketSize \in Int
        /\ TsPacketSize - (first + 1) + 1 = size - m /\ first + 1 <= TsPacketSize
    BY <1>2, <1>6
  <2> HIDE DEF first
  <2>3. /\ copied \in Seq(Cell) /\ Len(copied) = TsPacketSize - (first + 1) + 1
        /\ \A i \in 1..(TsPacketSize - (first + 1) + 1) : copied[i] = pkt.bytes[(first + 1) + i - 1]
    BY <2>1, <2>2, SubSeqProperties
  <2>4. \A i \in 1..(size - m) : (first + 1) + i - 1 = first + i
    BY <1>6
  <2> HIDE DEF copied
  <2> QED
    BY <2>2, <2>3, <2>4
<1>8. ASSUME NEW i \in 1..n PROVE copied[i] = run[i]
  <2>1. i \in 1..(size - m) /\ m + i \in 1..size /\ first + i = Offset(pkt) + (m + i)
    BY <1>0, <1>1, <1>2, <1>4, <1>6
  <2>2. m + i \in DOMAIN carried
    BY <1>1, <2>1 DEF size
  <2>3. copied[i] = pkt.bytes[Offset(pkt) + (m + i)]
    BY <1>7, <2>1
  <2>4. pkt.bytes[Offset(pkt) + (m + i)] = carried[m + i]
    BY <1>4, <2>2
  <2> QED
    BY <1>1, <2>3, <2>4
<1> HIDE DEF first, copied
<1>9. Len(copied) >= n /\ Len(run) <= Len(copied) /\ \A i \in 1..Len(run) : copied[i] = run[i]
  BY <1>0, <1>3, <1>6, <1>7, <1>8
<1>10. SubSeq(copied, 1, Len(run)) = run
  BY <1>3, <1>7, <1>9, PrefixByElements
<1>11. StartsWith(copied, run)
  BY <1>3, <1>7, <1>9, <1>10, SubSeqStarts
<1>12. whole => copied = run
  <2>1. SUFFICES ASSUME whole PROVE copied = run
    OBVIOUS
  <2>2. Len(copied) = Len(run)
    BY <1>1, <1>2, <1>3, <1>7, <2>1
  <2> QED
    BY <1>3, <1>7, <1>9, <2>2, SeqEqual
<1> QED
  BY <1>5, <1>7, <1>9, <1>11, <1>12 DEF run, whole

-----------------------------------------------------------------------------
(* What a step does to a PID *)

DamageStays(p) ==
  /\ DOMAIN damaged' = Pids /\ damaged[p] \subseteq damaged'[p]
  /\ \A q \in Pids \ {p} : damaged'[q] = damaged[q]

\* What happens to the units that come to harm is kept.
LEMMA HarmIsKept ==
  ASSUME DOMAIN damaged = Pids, NEW p \in Pids, NEW touched, NEW kind,
         Fault(kind, p, touched) \/ Harms(p, touched)
  PROVE  DamageStays(p) /\ damaged'[p] = damaged[p] \cup touched
<1>1. damaged' = [damaged EXCEPT ![p] = @ \cup touched]
  BY DEF Fault, Harms
<1>2. damaged'[p] = damaged[p] \cup touched
  BY <1>1
<1> QED
  BY <1>1, <1>2 DEF DamageStays

Put == "adaptation" \in happened

\* What is known of the packet that may be repeated: one with a section start
\* brings the last section again.
LastInv(p, list, last, harm) ==
  last # NoPacket =>
    /\ list # <<>>
    /\ last.payload_unit_start_indicator =>
         /\ Keeps(p, list, Brought(last), Len(list))
         /\ Len(Brought(last).bytes) < SectionHeaderSize => Len(list) \in harm
    /\ ~last.payload_unit_start_indicator =>
         Offset(last) < TsPacketSize /\ UnitOf(last.bytes[Offset(last) + 1]) = Len(list)

OthersRest(p) ==
  /\ DOMAIN delivered' = Pids
  /\ \A q \in Pids \ {p} :
       /\ units'[q] = units[q] /\ delivered'[q] = delivered[q]
       /\ Held(q)' = Held(q) /\ lastPacket'[q] = lastPacket[q]

PacketOf(p) ==
  /\ OthersRest(p) /\ DamageStays(p) /\ (Put => Put')
  /\ faults' = faults \/ faults' = faults + 1
  /\ LastInv(p, units'[p], lastPacket'[p], damaged'[p])

\* The packet is lost, or empties the buffer, or what arrives is called back
\* when the section is whole.
LastIsHarmed(p) == delivered'[p] = delivered[p] /\ Len(units'[p]) \in damaged'[p]
Lost(p) == LastIsHarmed(p) /\ Held(p)' = Held(p)
Emptied(p) == LastIsHarmed(p) /\ Held(p)'.bytes = <<>>
Collected(p) == CalledBack(p, units'[p], Held(p)', delivered[p], delivered'[p])
Restarted(p) == Keeps(p, units'[p], Held(p)', Len(units'[p])) /\ Collected(p)

StartMeans(p) ==
  /\ PacketOf(p) /\ Onward(units[p], units'[p], damaged'[p])
  /\ Len(units'[p]) = Len(units[p]) + 1 /\ units'[p] # <<>>
  /\ damaged'[p] = {} => Begun(units[p], units'[p])
  /\ Lost(p) \/ Emptied(p) \/ Restarted(p)

MoreArrives(p, k) ==
  /\ Collected(p)
  /\ \E bytes : /\ IsMore(p, units[p], units'[p], k, bytes)
                /\ Appended(Held(p), Held(p)', bytes)

MoreMeans(p) ==
  /\ PacketOf(p) /\ Onward(units[p], units'[p], damaged'[p]) /\ units[p] # <<>>
  /\ \E k \in Nat : /\ k > 0 /\ GrownBy(units[p], units'[p], k)
                    /\ Lost(p) \/ MoreArrives(p, k)

StillArrives(p) ==
  /\ Collected(p)
  /\ units[p] # <<>> => IsOver(units[p][Len(units[p])]) \/ Len(units[p]) \in damaged'[p]
  /\ \E bytes \in Seq(Cell) :
       /\ bytes # <<>> /\ Appended(Held(p), Held(p)', bytes)
       /\ \/ UnitOf(bytes[1]) = 0 /\ Put'
          \/ units[p] # <<>> /\ UnitOf(bytes[1]) = Len(units[p])

StillMeans(p) ==
  /\ PacketOf(p) /\ units'[p] = units[p] /\ faults' = faults + 1
  /\ (units[p] # <<>> /\ (Emptied(p) \/ Restarted(p))) \/ StillArrives(p)

\* What collectTable does with a packet, and when demux calls back.
LEMMA CollectMeans ==
  ASSUME CollectorInv, CollectorInv', DOMAIN delivered = Pids, NEW p \in Pids,
         units'[p] \in Seq(UnitRecord), Fits(units'[p]), NEW pkt, pkt.pid = p, Arrive(p, pkt)
  PROVE  /\ DOMAIN delivered' = Pids
         /\ \A q \in Pids \ {p} : delivered'[q] = delivered[q] /\ Held(q)' = Held(q)
         /\ pkt.payload_unit_start_indicator =>
              \/ /\ Len(Brought(pkt).bytes) < SectionHeaderSize
                 /\ Held(p)'.bytes = <<>> /\ delivered'[p] = delivered[p]
              \/ Held(p)' = Brought(pkt) /\ Collected(p)
         /\ ~pkt.payload_unit_start_indicator =>
              Appended(Held(p), Held(p)', BytesFrom(pkt, Offset(pkt))) /\ Collected(p)
<1> DEFINE info == parseTsPacketInfo(pkt)
           list == units'[p]
           h == Held(p)'
           out == delivered[p]
           more == delivered'[p]
           call == [table_id |-> psiOut', raw |-> mSectionBuffer'[p]]
<1>1. (StartTable(pkt, info) \/ SplitHeader(pkt, info) \/ AppendTable(pkt, info)) /\ CallBack(p)
  BY DEF Arrive, collectTable
<1>2. info.pid = p /\ info.isPayloadStart = pkt.payload_unit_start_indicator
      /\ info.payloadStartOffset = Offset(pkt)
  BY DEF parseTsPacketInfo, Offset
<1>3. /\ DOMAIN mSectionBuffer = Pids /\ DOMAIN mReadSectionLength = Pids
      /\ DOMAIN mSectionLength = Pids /\ DOMAIN mTableId = Pids
  BY DEF CollectorInv, MapsInv
<1>4. /\ h = [bytes |-> mSectionBuffer'[p], length |-> mSectionLength'[p], id |-> mTableId'[p]]
      /\ h.bytes = mSectionBuffer'[p] /\ h.length = mSectionLength'[p] /\ h.id = mTableId'[p]
  BY DEF Held
<1>5. mReadSectionLength'[p] = Len(h.bytes)
  BY <1>4 DEF CollectorInv, TableInv
<1>6. \A q \in Pids \ {p} : Held(q)' = Held(q)
  BY <1>1, <1>2, <1>3 DEF StartTable, SplitHeader, AppendTable, Held
<1>7. DOMAIN delivered' = Pids /\ \A q \in Pids \ {p} : delivered'[q] = delivered[q]
  BY <1>1 DEF CallBack
<1>8. \/ CallsBack(p, psiOut') /\ more = Append(out, call)
      \/ (CallsBack(p, psiOut') => ~HoldsSection(p, h.bytes)) /\ more = out
  BY <1>1, <1>4 DEF CallBack
<1>9. ASSUME NEW u \in DOMAIN list, Holds(p, list, h.bytes, u) PROVE HoldsSection(p, h.bytes)
  <2>1. /\ AllOf(p, list, u) \in Seq(Cell)
        /\ Len(AllOf(p, list, u)) = SectionSize(list[u].head)
    BY SectionCells
  <2>2. /\ Len(AllOf(p, list, u)) <= Len(h.bytes)
        /\ SubSeq(h.bytes, 1, Len(AllOf(p, list, u))) = AllOf(p, list, u)
    BY <1>9, <2>1, StartsWithMeans DEF Holds
  <2>3. /\ SectionSize(list[u].head) <= Len(h.bytes)
        /\ SubSeq(h.bytes, 1, SectionSize(list[u].head)) =
             Cells(p, u, 1, SectionSize(list[u].head))
    BY <2>1, <2>2 DEF AllOf
  <2> QED
    BY <2>3 DEF HoldsSection
<1>10. ASSUME psiOut' = CollectedId(p) PROVE Collected(p)
  <2>1. psiOut' = IF StillShort(h.length, Len(h.bytes)) THEN PSI_TABLE_ID_INCOMPLETE ELSE h.id
    BY <1>4, <1>5, <1>10 DEF CollectedId
  <2> HIDE DEF h
  <2>2. ~CallsBack(p, PSI_TABLE_ID_INCOMPLETE)
    BY DEF CallsBack, PSI_TABLE_ID_INCOMPLETE, PSI_TABLE_ID_PMT, PSI_TABLE_ID_PAT
  <2>3. CallsBack(p, psiOut') <=> Calls(p, h)
    BY <2>1, <2>2 DEF Calls
  <2>4. Calls(p, h) => psiOut' = h.id
    BY <2>1 DEF Calls
  <2>5. Calls(p, h) => call = [table_id |-> h.id, raw |-> h.bytes]
    BY <1>4, <2>4
  <2> HIDE DEF call, more, out, list
  <2>6. CalledBack(p, list, h, out, more)
    BY <1>8, <1>9, <2>3, <2>5 DEF CalledBack
  <2> QED
    BY <2>6 DEF Collected, h, more, out, list
<1> HIDE DEF info
<1>11. CASE StartTable(pkt, info)
  <2>1. /\ pkt.payload_unit_start_indicator /\ psiOut' = CollectedId(p)
        /\ mSectionBuffer'[p] = TableBytes(pkt, info)
        /\ mSectionLength'[p] = WholeSection(pkt.head)
        /\ mTableId'[p] = pkt.head.table_id
    BY <1>2, <1>3, <1>11 DEF StartTable, NewTableId
  <2>2. h = Brought(pkt)
    BY <1>4, <2>1 DEF Brought, info
  <2> QED
    BY <1>6, <1>7, <1>10, <2>1, <2>2
<1>12. CASE SplitHeader(pkt, info)
  <2>1. /\ pkt.payload_unit_start_indicator /\ psiOut' = Throws
        /\ Len(TableBytes(pkt, info)) < SectionHeaderSize
        /\ mSectionBuffer'[p] = <<>>
    BY <1>2, <1>3, <1>12 DEF SplitHeader
  <2>2. ~CallsBack(p, psiOut')
    BY <2>1 DEF CallsBack, Throws, PSI_TABLE_ID_PMT, PSI_TABLE_ID_PAT
  <2>3. h.bytes = <<>> /\ more = out
    BY <1>4, <1>8, <2>1, <2>2
  <2>4. Brought(pkt).bytes = TableBytes(pkt, info)
    BY DEF Brought, info
  <2> QED
    BY <1>6, <1>7, <2>1, <2>3, <2>4
<1>13. CASE AppendTable(pkt, info)
  <2>1. /\ ~pkt.payload_unit_start_indicator /\ psiOut' = CollectedId(p)
        /\ mSectionBuffer'[p] = mSectionBuffer[p] \o BytesFrom(pkt, Offset(pkt))
        /\ mSectionLength'[p] = mSectionLength[p] /\ mTableId'[p] = mTableId[p]
    BY <1>2, <1>3, <1>13 DEF AppendTable
  <2>2. Appended(Held(p), h, BytesFrom(pkt, Offset(pkt)))
    BY <1>4, <2>1 DEF Appended, Held
  <2> QED
    BY <1>6, <1>7, <1>10, <2>1, <2>2
<1> QED
  BY <1>1, <1>11, <1>12, <1>13

\* A packet that is sent is remembered, and arrives or is lost.
LEMMA TransferMeans ==
  ASSUME TablesInv, TablesInv', DOMAIN damaged = Pids, DOMAIN delivered = Pids,
         NEW p \in Pids, OnlyGrows(p), Fits(units'[p]),
         NEW pkt, pkt.pid = p, NEW cut, NEW lost, Transfer(p, pkt, cut, lost)
  PROVE  /\ OthersRest(p) /\ DamageStays(p) /\ lastPacket'[p] = pkt
         /\ (Put => Put') /\ (faults' = faults \/ faults' = faults + 1)
         /\ \/ Arrive(p, pkt) /\ damaged'[p] = damaged[p] \cup cut
            \/ /\ Held(p)' = Held(p) /\ delivered'[p] = delivered[p]
               /\ damaged'[p] = damaged[p] \cup lost
<1>1. lastPacket' = [lastPacket EXCEPT ![p] = pkt] /\ DOMAIN lastPacket = Pids
  BY DEF Transfer, Remember, TablesInv, ChannelInv
<1>2. ASSUME DOMAIN delivered' = Pids,
             \A q \in Pids \ {p} : delivered'[q] = delivered[q] /\ Held(q)' = Held(q)
      PROVE  OthersRest(p)
  BY <1>1, <1>2 DEF OthersRest, OnlyGrows
<1>3. CASE Arrive(p, pkt) /\ Harms(p, cut)
  <2>1. DamageStays(p) /\ damaged'[p] = damaged[p] \cup cut
    BY <1>3, HarmIsKept
  <2>2. CollectorInv /\ CollectorInv' /\ units'[p] \in Seq(UnitRecord)
    BY DEF TablesInv, SenderInv
  <2>3. /\ DOMAIN delivered' = Pids
        /\ \A q \in Pids \ {p} : delivered'[q] = delivered[q] /\ Held(q)' = Held(q)
    BY <1>3, <2>2, CollectMeans
  <2> QED
    BY <1>1, <1>2, <1>3, <2>1, <2>3 DEF Harms, Put
<1>4. CASE Fault("lose", p, lost) /\ UNCHANGED <<receiver, delivered>>
  <2>1. DamageStays(p) /\ damaged'[p] = damaged[p] \cup lost
    BY <1>4, HarmIsKept
  <2>2. /\ DOMAIN delivered' = Pids
        /\ \A q \in Pids : Held(q)' = Held(q) /\ delivered'[q] = delivered[q]
    BY <1>4 DEF receiver, sections, Held
  <2> QED
    BY <1>1, <1>2, <1>4, <2>1, <2>2 DEF Fault, Put
<1> QED
  BY <1>3, <1>4 DEF Transfer

\* The start of a section.
LEMMA SendStartMeans ==
  ASSUME TablesInv, TablesInv', DOMAIN damaged = Pids, DOMAIN delivered = Pids,
         NEW p \in Pids, Fits(units[p]), SendStart(p)
  PROVE  StartMeans(p)
<1> DEFINE list == units[p]
           new == units'[p]
           hurt == damaged'[p]
           tail == Left(p)
           room == MaxPayload - 1 - tail
           least == IF "split" \in Layouts THEN 1 ELSE SectionHeaderSize
           u == CurrentUnit(p) + 1
           cut(n) == OpenUnit(p) \cup IF n < SectionHeaderSize THEN {u} ELSE {}
           lost == OpenUnit(p) \cup {u}
           run(n) == Cells(p, u, 1, n)
           Sends(head, flags, n) ==
             /\ BeginUnit(p, tail, head, n)
             /\ \E carried \in {TailOf(p) \o run(n)} \cup
                     IF n = SectionSize(head) THEN {Stuffed(TailOf(p) \o run(n))} ELSE {} :
                  Transfer(p, PayloadPacket(p, TRUE, flags,
                                            [head EXCEPT !.pointer_field = tail], carried),
                           cut(n), lost)
<1>pick. PICK head \in Heads, flags \in AfFlags :
           \E n \in least..SizeOrLess(room, SectionSize(head)) : Sends(head, flags, n)
  BY DEF SendStart, TailOf
<1>1. PICK n \in least..SizeOrLess(room, SectionSize(head)) : Sends(head, flags, n)
  BY <1>pick
<1>2. PICK carried :
        /\ \/ carried = TailOf(p) \o run(n)
           \/ carried = Stuffed(TailOf(p) \o run(n)) /\ n = SectionSize(head)
        /\ Transfer(p, PayloadPacket(p, TRUE, flags, [head EXCEPT !.pointer_field = tail], carried),
                    cut(n), lost)
  BY <1>1
<1>3. /\ MaxPayload \in Nat /\ SectionHeaderSize \in Nat \ {0}
      /\ SectionSize(head) \in Nat \ {0}
      /\ tail \in Nat /\ u \in Nat \ {0} /\ u = Len(list) + 1
      /\ list = <<>> => tail = 0
      /\ list # <<>> => tail = SectionSize(list[Len(list)].head) - list[Len(list)].sent
  BY SizesAreNumbers DEF CurrentUnit
<1>4. /\ BeginUnit(p, tail, head, n)
      /\ Transfer(p, PayloadPacket(p, TRUE, flags, [head EXCEPT !.pointer_field = tail], carried),
                  cut(n), lost)
  BY <1>1, <1>2
<1> HIDE DEF tail, Sends
<1>5. n \in Nat \ {0} /\ tail + 1 + n <= MaxPayload /\ n <= SectionSize(head)
  <2>1. least \in Nat \ {0} /\ room \in Int
    BY <1>3
  <2>2. SizeOrLess(room, SectionSize(head)) \in Int
        /\ SizeOrLess(room, SectionSize(head)) <= room
        /\ SizeOrLess(room, SectionSize(head)) <= SectionSize(head)
    BY <1>3, <2>1 DEF SizeOrLess
  <2> HIDE DEF least
  <2> QED
    BY <1>3, <2>1, <2>2
<1>6. list \in Seq(UnitRecord) /\ Fits(list) /\ SenderInv
  BY DEF TablesInv, SenderInv
<1>7. OnlyGrows(p)
  BY <1>3, <1>4, <1>5, <1>6, BeginGrows
<1>8. new = Append(MoreSent(list, tail), [head |-> head, sent |-> n])
  BY <1>4 DEF BeginUnit, TablesInv, SenderInv
<1> DEFINE start == TRUE
           marked == [head EXCEPT !.pointer_field = tail]
           pkt == PayloadPacket(p, start, flags, marked, carried)
<1>9. /\ start \in BOOLEAN /\ start /\ flags \in AfFlags \cup {Plain}
      /\ Transfer(p, pkt, cut(n), lost)
  BY <1>4
<1>10. /\ marked.pointer_field = tail /\ marked.table_id = head.table_id
       /\ WholeSection(marked) = SectionSize(head)
  <2>1. head \in [pointer_field : {0}, table_id : TableIds, section_length : Nat]
    BY PsiHeadsAssumption
  <2> QED
    BY <2>1 DEF WholeSection, SectionSize
<1> HIDE DEF start, marked
<1>11. /\ carried \in Seq(Cell) /\ Len(carried) \in 1..MaxPayload
  <2>1. Carries(p, u, n, carried)
    BY <1>2, <1>3, <1>5 DEF Carries, tail
  <2> HIDE DEF u
  <2> QED
    BY <2>1, StartCells
<1>12. pkt.pid = p /\ pkt.payload_unit_start_indicator = start /\ pkt.head = marked
  <2>1. /\ p \in Pids /\ start \in BOOLEAN /\ flags \in AfFlags \cup {Plain}
        /\ carried \in Seq(Cell) /\ Len(carried) \in 1..MaxPayload
        /\ pkt = PayloadPacket(p, start, flags, marked, carried)
    BY <1>9, <1>11
  <2> HIDE DEF pkt
  <2> QED
    BY ONLY <2>1, PayloadIsFound
<1>13. /\ Brought(pkt).bytes \in Seq(Cell) /\ Len(Brought(pkt).bytes) >= n
       /\ StartsWith(Brought(pkt).bytes, run(n))
       /\ carried = TailOf(p) \o run(n) => Brought(pkt).bytes = run(n)
  <2>1. Carries(p, u, n, carried) /\ IsPacket(p, start, flags, marked, carried, pkt)
    BY <1>2, <1>3, <1>5, <1>9, <1>10 DEF Carries, IsPacket, tail
  <2> HIDE DEF u, pkt
  <2> QED
    BY <2>1, StartIsBrought
<1>14. Brought(pkt).length = SectionSize(head) /\ Brought(pkt).id = head.table_id
  BY <1>10, <1>12 DEF Brought
<1> HIDE DEF pkt
<1>15. lost \subseteq hurt \/ cut(n) \subseteq hurt
  <2>1. Fits(new)
    <3> DEFINE any == {Len(list)}
    <3>1. Starts(list, tail, head, n, new, any)
      BY <1>3, <1>5, <1>6, <1>8 DEF Starts
    <3> HIDE DEF list, new, any
    <3> QED
      BY <3>1, BegunIsOnward DEF Started, Onward
  <2> HIDE DEF cut, lost, new
  <2> QED
    BY <1>7, <1>9, <1>12, <2>1, TransferMeans DEF new
<1>16. tail # 0 => Len(list) \in hurt
  BY <1>15 DEF OpenUnit, CurrentUnit, tail
<1>17. /\ Onward(list, new, hurt) /\ Len(new) = Len(list) + 1 /\ new # <<>>
       /\ new[Len(new)].head = head /\ new[Len(new)].sent = n
       /\ tail = 0 => Begun(list, new)
  <2>1. Starts(list, tail, head, n, new, hurt)
    BY <1>3, <1>5, <1>6, <1>8, <1>16 DEF Starts
  <2> HIDE DEF list, new, hurt
  <2> QED
    BY <2>1, BegunIsOnward DEF Started
<1>18. Fits(new) /\ Len(new) \in DOMAIN new /\ u = Len(new)
  BY <1>3, <1>17 DEF Onward
<1>19. /\ OthersRest(p) /\ DamageStays(p) /\ lastPacket'[p] = pkt
       /\ (Put => Put') /\ (faults' = faults \/ faults' = faults + 1)
       /\ \/ Arrive(p, pkt) /\ damaged'[p] = damaged[p] \cup cut(n)
          \/ /\ Held(p)' = Held(p) /\ delivered'[p] = delivered[p]
             /\ damaged'[p] = damaged[p] \cup lost
  <2> HIDE DEF cut, lost
  <2> QED
    BY <1>7, <1>9, <1>12, <1>18, TransferMeans
<1>20. Keeps(p, new, Brought(pkt), Len(new))
  <2>1. run(n) = PartOf(p, new, Len(new))
    BY <1>17, <1>18 DEF PartOf
  <2>2. CASE n = SectionSize(head)
    <3>1. IsOver(new[Len(new)]) /\ run(n) = AllOf(p, new, Len(new))
      BY <1>17, <1>18, <2>2 DEF IsOver, AllOf
    <3> QED
      BY <1>13, <1>14, <1>17, <1>18, <3>1 DEF Keeps
  <2>3. CASE n # SectionSize(head)
    <3>1. Brought(pkt).bytes = PartOf(p, new, Len(new))
      BY <1>2, <1>13, <2>1, <2>3
    <3> QED
      BY <1>14, <1>17, <1>18, <3>1 DEF Keeps
  <2> QED
    BY <2>2, <2>3
<1>21. Len(Brought(pkt).bytes) < SectionHeaderSize => Len(new) \in hurt
  <2>1. Len(Brought(pkt).bytes) \in Nat
    BY <1>13
  <2>2. Len(Brought(pkt).bytes) < SectionHeaderSize => n < SectionHeaderSize
    BY <1>3, <1>5, <1>13, <2>1
  <2> QED
    BY <1>15, <1>18, <2>2
<1>22. LastInv(p, new, lastPacket'[p], hurt)
  BY <1>9, <1>12, <1>17, <1>19, <1>20, <1>21 DEF LastInv
<1>23. PacketOf(p)
  BY <1>19, <1>22 DEF PacketOf
<1>24. hurt = {} => Begun(list, new)
  BY <1>16, <1>17
<1>25. Lost(p) \/ Emptied(p) \/ Restarted(p)
  <2>1. CASE Arrive(p, pkt)
    <3>1. pkt.payload_unit_start_indicator /\ new \in Seq(UnitRecord)
          /\ CollectorInv /\ CollectorInv'
      BY <1>9, <1>12, <1>17 DEF Onward, TablesInv
    <3>2. \/ /\ Len(Brought(pkt).bytes) < SectionHeaderSize
             /\ Held(p)'.bytes = <<>> /\ delivered'[p] = delivered[p]
          \/ Held(p)' = Brought(pkt) /\ Collected(p)
      BY <1>12, <1>18, <2>1, <3>1, CollectMeans
    <3> QED
      BY <1>20, <1>21, <3>2 DEF Emptied, LastIsHarmed, Restarted
  <2>2. CASE /\ Held(p)' = Held(p) /\ delivered'[p] = delivered[p]
             /\ damaged'[p] = damaged[p] \cup lost
    BY <1>18, <2>2 DEF Lost, LastIsHarmed
  <2> QED
    BY <1>19, <2>1, <2>2
<1> QED
  BY <1>17, <1>23, <1>24, <1>25 DEF StartMeans

\* More of a section.
LEMMA SendMoreMeans ==
  ASSUME TablesInv, TablesInv', DOMAIN damaged = Pids, DOMAIN delivered = Pids,
         NEW p \in Pids, Fits(units[p]), SendMore(p)
  PROVE  MoreMeans(p)
<1> DEFINE list == units[p]
           new == units'[p]
           hurt == damaged'[p]
           sent == Last(units[p]).sent
           head == Last(units[p]).head
           run(n) == Cells(p, CurrentUnit(p), sent + 1, sent + n)
<1>1. PICK flags \in AfFlags, n \in 1..SizeOrLess(MaxPayload, Left(p)) :
        /\ ResumeUnit(p, n)
        /\ \E carried \in {run(n)} \cup IF n = Left(p) THEN {Stuffed(run(n))} ELSE {} :
             Transfer(p, PayloadPacket(p, FALSE, flags, head, carried), {}, OpenUnit(p))
  BY DEF SendMore
<1>2. PICK carried :
        /\ carried = run(n) \/ (carried = Stuffed(run(n)) /\ n = Left(p))
        /\ Transfer(p, PayloadPacket(p, FALSE, flags, head, carried), {}, OpenUnit(p))
  BY <1>1
<1>3. Left(p) > 0
  BY DEF SendMore
<1>4. /\ MaxPayload \in Nat /\ MaxPayload <= TsPacketSize /\ TsPacketSize \in Nat
      /\ Left(p) \in Nat /\ list # <<>> /\ CurrentUnit(p) \in Nat /\ CurrentUnit(p) = Len(list)
      /\ sent \in Nat /\ SectionSize(head) \in Nat
      /\ sent = list[Len(list)].sent /\ head = list[Len(list)].head
      /\ Left(p) = SectionSize(head) - sent
  BY <1>3, SizesAreNumbers DEF CurrentUnit
<1> HIDE DEF sent, head
<1>5. n \in Nat /\ n > 0 /\ n <= MaxPayload /\ n <= Left(p)
  <2>1. /\ SizeOrLess(MaxPayload, Left(p)) \in Int
        /\ SizeOrLess(MaxPayload, Left(p)) <= MaxPayload
        /\ SizeOrLess(MaxPayload, Left(p)) <= Left(p)
    BY <1>4 DEF SizeOrLess
  <2> QED
    BY <2>1, <1>4
<1>6. OnlyGrows(p)
  <2>1. SenderInv /\ p \in Pids /\ units[p] # <<>> /\ n \in Nat /\ ResumeUnit(p, n)
    BY <1>1, <1>4, <1>5 DEF TablesInv
  <2> QED
    BY <2>1, ResumeGrows, Zenon
<1>7. list \in Seq(UnitRecord) /\ new = MoreSent(list, n)
  BY <1>1 DEF ResumeUnit, TablesInv, SenderInv
<1>8. Onward(list, new, hurt) /\ GrownBy(list, new, n)
  <2>1. GoesOn(list, n, new)
    BY <1>4, <1>5, <1>7 DEF GoesOn
  <2> HIDE DEF list, new, hurt
  <2> QED
    BY <2>1, GrownIsOnward
<1>9. Fits(new) /\ Len(new) = Len(list) /\ new # <<>>
  BY <1>4, <1>7, <1>8, EmptySeq DEF Onward, GrownBy
<1>10. run(n) \in Seq(Cell) /\ Len(run(n)) = n
  <2> DEFINE first == sent + 1
             last == sent + n
  <2>0. sent \in Nat /\ n \in Nat /\ CurrentUnit(p) \in Nat
    BY <1>4, <1>5
  <2>1. /\ p \in Pids /\ CurrentUnit(p) \in Nat /\ n \in Nat
        /\ first \in Nat /\ last \in Nat /\ last - first + 1 = n
    BY <2>0
  <2> HIDE DEF first, last
  <2>2. IsRun(Cells(p, CurrentUnit(p), first, last), p, CurrentUnit(p), first, n)
    BY <2>1, CellsRun, Zenon
  <2> QED
    BY <2>2 DEF IsRun, first, last
<1> DEFINE whole == run(n)
<1>11. /\ whole \in Seq(Cell) /\ Len(whole) = n
       /\ carried = whole \/ (carried = Stuffed(whole) /\ n = Left(p))
       /\ whole = Cells(p, Len(list), list[Len(list)].sent + 1, list[Len(list)].sent + n)
  BY <1>2, <1>4, <1>10
<1> HIDE DEF whole
<1>12. /\ carried \in Seq(Cell) /\ Len(carried) \in 1..MaxPayload
  BY <1>11, <1>4, <1>5, StuffedType
<1>13. IsMore(p, list, new, n, carried)
  <2>1. CASE carried = whole
    <3>1. <<>> \in Seq(Cell) /\ carried = whole \o <<>>
      BY <1>11, <2>1
    <3> QED
      BY <1>11, <3>1 DEF IsMore
  <2>2. CASE carried = Stuffed(whole) /\ n = Left(p)
    <3>1. /\ Len(whole) <= Len(carried) /\ Len(carried) = MaxPayload
          /\ \A i \in 1..Len(whole) : carried[i] = whole[i]
      BY <1>5, <1>11, <2>2, StuffedType
    <3>2. SubSeq(carried, 1, Len(whole)) = whole
      BY <1>11, <1>12, <3>1, PrefixByElements
    <3>3. PICK rest \in Seq(Cell) : carried = whole \o rest
      BY <1>11, <1>12, <3>1, <3>2, SubSeqStarts DEF StartsWith
    <3>4. new[Len(new)].sent = sent + n /\ new[Len(new)].head = head
      BY <1>4, <1>8, <1>9 DEF GrownBy
    <3>5. IsOver(new[Len(new)])
      BY <1>4, <2>2, <3>4 DEF IsOver
    <3> QED
      BY <1>11, <3>3, <3>5 DEF IsMore
  <2> QED
    BY <1>11, <2>1, <2>2
<1> DEFINE start == FALSE
           pkt == PayloadPacket(p, start, flags, head, carried)
<1>14. Transfer(p, pkt, {}, OpenUnit(p)) /\ ~start /\ start \in BOOLEAN
  BY <1>2
<1>15. /\ pkt.pid = p /\ pkt.payload_unit_start_indicator = start
       /\ BytesFrom(pkt, Offset(pkt)) = carried /\ pkt.bytes[Offset(pkt) + 1] = carried[1]
       /\ Offset(pkt) < TsPacketSize
  <2>1. /\ p \in Pids /\ start \in BOOLEAN /\ flags \in AfFlags \cup {Plain}
        /\ carried \in Seq(Cell) /\ Len(carried) \in 1..MaxPayload /\ 1 \in DOMAIN carried
    BY <1>12, <1>14
  <2>2. /\ pkt.pid = p /\ pkt.payload_unit_start_indicator = start
        /\ \A i \in DOMAIN carried : pkt.bytes[Offset(pkt) + i] = carried[i]
        /\ Offset(pkt) = TsPacketSize - Len(carried)
    <3> HIDE DEF start
    <3> QED
      BY ONLY <2>1, PayloadIsFound
  <2>3. BytesFrom(pkt, parseTsPacketInfo(pkt).payloadStartOffset) = carried
    <3> HIDE DEF start
    <3> QED
      BY ONLY <2>1, PayloadIsCopied
  <2>4. parseTsPacketInfo(pkt).payloadStartOffset = Offset(pkt)
    BY DEF Offset
  <2> HIDE DEF pkt
  <2>5. Offset(pkt) < TsPacketSize
    BY <1>4, <1>12, <2>2
  <2> QED
    BY <2>1, <2>2, <2>3, <2>4, <2>5
<1> HIDE DEF pkt, start
<1>16. carried # <<>> /\ UnitOf(carried[1]) = Len(list)
  <2>1. p \in Pids /\ list \in Seq(UnitRecord) /\ Fits(list) /\ list # <<>>
        /\ n \in Nat /\ n > 0 /\ IsMore(p, list, new, n, carried)
    BY <1>4, <1>5, <1>7, <1>13
  <2> HIDE DEF list, new
  <2> QED
    BY ONLY <2>1, MoreBytes
<1>17. /\ OthersRest(p) /\ DamageStays(p) /\ lastPacket'[p] = pkt
       /\ (Put => Put') /\ (faults' = faults \/ faults' = faults + 1)
       /\ \/ Arrive(p, pkt) /\ damaged'[p] = damaged[p] \cup {}
          \/ /\ Held(p)' = Held(p) /\ delivered'[p] = delivered[p]
             /\ damaged'[p] = damaged[p] \cup OpenUnit(p)
  <2> DEFINE cut == {}
             lost == OpenUnit(p)
  <2>1. Fits(units'[p]) /\ OnlyGrows(p) /\ pkt.pid = p /\ Transfer(p, pkt, cut, lost)
    BY <1>6, <1>9, <1>14, <1>15
  <2> HIDE DEF cut, lost
  <2>2. /\ OthersRest(p) /\ DamageStays(p) /\ lastPacket'[p] = pkt
        /\ (Put => Put') /\ (faults' = faults \/ faults' = faults + 1)
        /\ \/ Arrive(p, pkt) /\ damaged'[p] = damaged[p] \cup cut
           \/ /\ Held(p)' = Held(p) /\ delivered'[p] = delivered[p]
              /\ damaged'[p] = damaged[p] \cup lost
    BY <2>1, TransferMeans
  <2> QED
    BY <2>2 DEF cut, lost
<1>18. LastInv(p, new, lastPacket'[p], hurt)
  BY <1>9, <1>14, <1>15, <1>16, <1>17 DEF LastInv
<1>19. PacketOf(p)
  BY <1>17, <1>18 DEF PacketOf
<1>20. Lost(p) \/ MoreArrives(p, n)
  <2>1. CASE Arrive(p, pkt)
    <3>1. /\ ~pkt.payload_unit_start_indicator /\ new \in Seq(UnitRecord)
          /\ CollectorInv /\ CollectorInv'
      BY <1>8, <1>14, <1>15 DEF Onward, TablesInv
    <3>2. Appended(Held(p), Held(p)', carried) /\ Collected(p)
      BY <1>9, <1>15, <2>1, <3>1, CollectMeans
    <3> QED
      BY <1>13, <3>2 DEF MoreArrives
  <2>2. CASE /\ Held(p)' = Held(p) /\ delivered'[p] = delivered[p]
             /\ damaged'[p] = damaged[p] \cup OpenUnit(p)
    <3>1. OpenUnit(p) = {Len(list)}
      BY <1>3, <1>4 DEF OpenUnit
    <3> QED
      BY <1>9, <2>2, <3>1 DEF Lost, LastIsHarmed
  <2> QED
    BY <1>17, <2>1, <2>2
<1> QED
  BY <1>4, <1>5, <1>8, <1>19, <1>20 DEF MoreMeans

\* A packet that arrives while the sender stands still, other than one with a
\* section start, is appended.
LEMMA StillArrivalMeans ==
  ASSUME NEW p \in Pids, NEW pkt, TablesInv, TablesInv', DOMAIN delivered = Pids,
         units' = units, Fits(units[p]), Arrive(p, pkt), pkt.pid = p,
         pkt.bytes \in Seq(Cell), Len(pkt.bytes) = TsPacketSize,
         ~pkt.payload_unit_start_indicator,
         Offset(pkt) \in Nat, Offset(pkt) < TsPacketSize,
         OpenUnit(p) \subseteq damaged'[p],
         \/ UnitOf(pkt.bytes[Offset(pkt) + 1]) = 0 /\ Put'
         \/ units[p] # <<>> /\ UnitOf(pkt.bytes[Offset(pkt) + 1]) = Len(units[p])
  PROVE  StillArrives(p)
<1> DEFINE list == units[p]
           bytes == BytesFrom(pkt, Offset(pkt))
<1>1. list \in Seq(UnitRecord) /\ CollectorInv /\ CollectorInv' /\ units'[p] = list
  BY DEF TablesInv, SenderInv
<1>2. Appended(Held(p), Held(p)', bytes) /\ Collected(p)
  BY <1>1, CollectMeans
<1>3. bytes \in Seq(Cell) /\ bytes # <<>> /\ bytes[1] = pkt.bytes[Offset(pkt) + 1]
  <2> DEFINE all == pkt.bytes
             first == Offset(pkt)
  <2>1. all \in Seq(Cell) /\ Len(all) = TsPacketSize /\ first \in Nat /\ first < TsPacketSize
        /\ pkt.bytes = all
    OBVIOUS
  <2> HIDE DEF all, first
  <2>2. LET copied == BytesFrom(pkt, first)
        IN  copied \in Seq(Cell) /\ copied # <<>> /\ copied[1] = all[first + 1]
    BY <2>1, CopiedFrom
  <2> QED
    BY <2>2 DEF all, first
<1> HIDE DEF bytes
<1>4. list # <<>> => IsOver(list[Len(list)]) \/ Len(list) \in damaged'[p]
  <2>1. SUFFICES ASSUME list # <<>>, Left(p) = 0 PROVE IsOver(list[Len(list)])
    BY DEF OpenUnit
  <2>2. Len(list) \in DOMAIN list
    BY <1>1, <2>1, EmptySeq
  <2>3. /\ SectionSize(list[Len(list)].head) \in Nat /\ list[Len(list)].sent \in Nat
    BY <1>1, <2>2, SectionSizes
  <2>4. SectionSize(list[Len(list)].head) - list[Len(list)].sent = 0
    BY <2>1 DEF Left, Last
  <2> QED
    BY <2>3, <2>4 DEF IsOver
<1> QED
  BY <1>2, <1>3, <1>4 DEF StillArrives

LEMMA RepeatMeans ==
  ASSUME NEW p \in Pids, TablesInv, TablesInv', DOMAIN damaged = Pids, DOMAIN delivered = Pids,
         Fits(units[p]), LastInv(p, units[p], lastPacket[p], damaged[p]), RepeatPacket(p)
  PROVE  StillMeans(p)
<1> DEFINE list == units[p]
           pkt == lastPacket[p]
           touched == IF pkt.payload_unit_start_indicator THEN {} ELSE OpenUnit(p)
<1>1. /\ pkt # NoPacket /\ lastPacket' = [lastPacket EXCEPT ![p] = NoPacket]
      /\ units' = units /\ units'[p] = list /\ Arrive(p, pkt) /\ Fault("repeat", p, touched)
  BY DEF RepeatPacket, Repeatable, Remember, sender
<1>2. ParsablePacket(list, p, pkt, split) /\ DOMAIN lastPacket = Pids
  BY <1>1 DEF TablesInv, ChannelInv
<1>3. DamageStays(p) /\ damaged'[p] = damaged[p] \cup touched
  <2> HIDE DEF touched
  <2> QED
    BY <1>1, HarmIsKept
<1>4. list \in Seq(UnitRecord) /\ CollectorInv /\ CollectorInv'
  BY DEF TablesInv, SenderInv
<1>5. pkt.pid = p
  BY <1>2 DEF ParsablePacket
<1>6. /\ DOMAIN delivered' = Pids
      /\ \A q \in Pids \ {p} : delivered'[q] = delivered[q] /\ Held(q)' = Held(q)
  <2> HIDE DEF pkt
  <2> QED
    BY <1>1, <1>4, <1>5, CollectMeans
<1>7. OthersRest(p)
  BY <1>1, <1>2, <1>6 DEF OthersRest
<1>8. lastPacket'[p] = NoPacket
  BY <1>1, <1>2
<1>9. PacketOf(p) /\ faults' = faults + 1
  <2>1. faults' = faults + 1 /\ (Put => Put')
    BY <1>1 DEF Fault, Put
  <2> QED
    BY <1>3, <1>7, <1>8, <2>1 DEF PacketOf, LastInv
<1>10. list # <<>>
  BY <1>1 DEF LastInv
<1>11. CASE pkt.payload_unit_start_indicator
  <2>1. /\ Keeps(p, list, Brought(pkt), Len(list))
        /\ Len(Brought(pkt).bytes) < SectionHeaderSize => Len(list) \in damaged[p]
    BY <1>1, <1>11 DEF LastInv
  <2>2. \/ /\ Len(Brought(pkt).bytes) < SectionHeaderSize
           /\ Held(p)'.bytes = <<>> /\ delivered'[p] = delivered[p]
        \/ Held(p)' = Brought(pkt) /\ Collected(p)
    <3> HIDE DEF pkt
    <3> QED
      BY <1>1, <1>4, <1>5, <1>11, CollectMeans
  <2>3. Emptied(p) \/ Restarted(p)
    BY <1>1, <1>3, <2>1, <2>2 DEF Emptied, LastIsHarmed, Restarted
  <2> QED
    BY <1>1, <1>9, <1>10, <2>3 DEF StillMeans
<1>12. CASE ~pkt.payload_unit_start_indicator
  <2>1. /\ Offset(pkt) \in Nat /\ pkt.bytes \in Seq(Cell) /\ Len(pkt.bytes) = TsPacketSize
    BY <1>2 DEF ParsablePacket
  <2>2. Offset(pkt) < TsPacketSize /\ UnitOf(pkt.bytes[Offset(pkt) + 1]) = Len(list)
    BY <1>1, <1>12 DEF LastInv
  <2>3. OpenUnit(p) \subseteq damaged'[p]
    BY <1>3, <1>12
  <2>4. StillArrives(p)
    <3> HIDE DEF pkt
    <3> QED
      BY <1>1, <1>5, <1>10, <1>12, <2>1, <2>2, <2>3, StillArrivalMeans
  <2> QED
    BY <1>1, <1>9, <2>4 DEF StillMeans
<1> QED
  BY <1>11, <1>12

LEMMA AdaptationMeans ==
  ASSUME NEW p \in Pids, TablesInv, TablesInv', DOMAIN damaged = Pids, DOMAIN delivered = Pids,
         Fits(units[p]), LastInv(p, units[p], lastPacket[p], damaged[p]), SendAdaptation(p)
  PROVE  StillMeans(p)
<1> DEFINE list == units[p]
<1>1. PICK flags \in AfFlags : Arrive(p, AdaptationPacket(p, flags))
  BY DEF SendAdaptation
<1> DEFINE pkt == AdaptationPacket(p, flags)
<1>2. /\ units' = units /\ units'[p] = list /\ lastPacket' = lastPacket
      /\ Fault("adaptation", p, OpenUnit(p)) /\ Arrive(p, pkt)
  BY <1>1 DEF SendAdaptation, sender
<1>3. /\ pkt.pid = p /\ ~pkt.payload_unit_start_indicator
      /\ pkt.bytes \in Seq(Cell) /\ Len(pkt.bytes) = TsPacketSize
      /\ Offset(pkt) = 0 /\ pkt.bytes[1] = Filler
  BY NoPayloadIsWholePacket
<1> HIDE DEF pkt
<1>4. DamageStays(p) /\ damaged'[p] = damaged[p] \cup OpenUnit(p)
  BY <1>2, HarmIsKept
<1>5. list \in Seq(UnitRecord) /\ CollectorInv /\ CollectorInv'
  BY DEF TablesInv, SenderInv
<1>6. /\ DOMAIN delivered' = Pids
      /\ \A q \in Pids \ {p} : delivered'[q] = delivered[q] /\ Held(q)' = Held(q)
  BY <1>2, <1>3, <1>5, CollectMeans
<1>7. OthersRest(p)
  BY <1>2, <1>6 DEF OthersRest
<1>8. faults' = faults + 1 /\ Put'
  BY <1>2 DEF Fault, Put
<1>9. LastInv(p, units'[p], lastPacket'[p], damaged'[p])
  BY <1>2, <1>4 DEF LastInv
<1>10. PacketOf(p)
  BY <1>4, <1>7, <1>8, <1>9 DEF PacketOf
<1>11. StillArrives(p)
  <2>1. /\ Offset(pkt) \in Nat /\ Offset(pkt) < TsPacketSize
        /\ UnitOf(pkt.bytes[Offset(pkt) + 1]) = 0
    <3>1. 0 < TsPacketSize /\ 0 + 1 = 1
      BY PacketAssumption
    <3> QED
      BY <1>3, <3>1 DEF Filler, UnitOf
  <2>2. OpenUnit(p) \subseteq damaged'[p]
    BY <1>4
  <2> QED
    BY <1>2, <1>3, <1>8, <2>1, <2>2, StillArrivalMeans
<1> QED
  BY <1>2, <1>8, <1>10, <1>11 DEF StillMeans

-----------------------------------------------------------------------------
(* What is kept of the PIDs and called back, from step to step *)

PidInv(p) ==
  /\ Fits(units[p]) /\ IsSeq(delivered[p])
  /\ LastInv(p, units[p], lastPacket[p], damaged[p])
  /\ Contained(p, units[p], Held(p), delivered[p], damaged[p], Put)

\* The inductive invariant, together with TablesInv.
ContainedInv ==
  /\ DOMAIN damaged = Pids /\ DOMAIN delivered = Pids
  /\ \A p \in Pids : PidInv(p)

LEMMA SinceIsContained ==
  ASSUME NEW p, NEW list, NEW held, NEW out, NEW harm, NEW put, NEW puts, put => puts,
         Contained(p, list, held, out, harm, put)
  PROVE  Contained(p, list, held, out, harm, puts)
<1>1. ASSUME NEW cell, NEW early, NEW late, early => late, Remains(cell, harm, early)
      PROVE  Remains(cell, harm, late)
  BY <1>1 DEF Remains
<1>2. Content(p, list, held, harm, puts /\ list = <<>>)
  <2>1. Content(p, list, held, harm, put /\ list = <<>>)
    BY DEF Contained, BufferInv
  <2> QED
    BY <2>1, <1>1 DEF Content
<1>3. BufferInv(p, list, held, harm, puts)
  BY <1>2 DEF Contained, BufferInv
<1>4. Known(p, list, out, harm, puts)
  <2>1. ASSUME NEW i \in DOMAIN out PROVE KnownCall(p, list, out[i], harm, puts)
    <3>1. KnownCall(p, list, out[i], harm, put)
      BY DEF Contained, Known
    <3> QED
      BY <3>1, <1>1 DEF KnownCall
  <2> QED
    BY <2>1 DEF Known
<1> QED
  BY <1>3, <1>4 DEF Contained

\* The PID of a step.
LEMMA StartContains ==
  ASSUME NEW p \in Pids, TablesInv, PidInv(p), StartMeans(p)
  PROVE  PidInv(p)'
<1> DEFINE list == units[p]
           new == units'[p]
           held == Held(p)
           h == Held(p)'
           out == delivered[p]
           more == delivered'[p]
           harm == damaged[p]
           hurt == damaged'[p]
           put == Put
           puts == Put'
<1>1. /\ p \in Pids /\ list \in Seq(UnitRecord) /\ Fits(list) /\ new # <<>>
      /\ IsSeq(out) /\ harm \subseteq hurt
      /\ Contained(p, list, held, out, harm, put) /\ Onward(list, new, hurt)
  BY DEF PidInv, StartMeans, PacketOf, DamageStays, TablesInv, SenderInv
<1>2. put \in BOOLEAN /\ puts \in BOOLEAN /\ (put => puts)
  BY DEF StartMeans, PacketOf, Put
<1>3. LastInv(p, new, lastPacket'[p], hurt) /\ (Lost(p) \/ Emptied(p) \/ Restarted(p))
  BY DEF StartMeans, PacketOf
<1>4. ASSUME IsSeq(more), Contained(p, new, h, more, hurt, puts) PROVE PidInv(p)'
  BY <1>1, <1>3, <1>4 DEF PidInv, Onward
<1>5. CASE Lost(p)
  <2>1. h = held /\ more = out /\ Len(new) \in hurt
    BY <1>5 DEF Lost, LastIsHarmed
  <2>2. Contained(p, new, held, out, hurt, puts)
    <3> HIDE DEF list, new, held, h, out, more, harm, hurt, put, puts
    <3> QED
      BY <1>1, <1>2, <2>1, LostIsContained
  <2> QED
    BY <1>1, <1>4, <2>1, <2>2
<1>6. CASE Emptied(p)
  <2>1. h.bytes = <<>> /\ more = out /\ Len(new) \in hurt
    BY <1>6 DEF Emptied, LastIsHarmed
  <2>2. Contained(p, new, h, out, hurt, puts)
    <3> HIDE DEF list, new, held, h, out, more, harm, hurt, put, puts
    <3> QED
      BY <1>1, <1>2, <2>1, SplitIsContained
  <2> QED
    BY <1>1, <1>4, <2>1, <2>2
<1>7. CASE Restarted(p)
  <2>1. Keeps(p, new, h, Len(new)) /\ CalledBack(p, new, h, out, more)
    BY <1>7 DEF Restarted, Collected
  <2>2. Contained(p, new, h, more, hurt, puts) /\ IsSeq(more)
    <3> HIDE DEF list, new, held, h, out, more, harm, hurt, put, puts
    <3> QED
      BY <1>1, <1>2, <2>1, KeptIsContained, CalledIsLonger
  <2> QED
    BY <1>4, <2>2
<1> QED
  BY <1>3, <1>5, <1>6, <1>7

LEMMA MoreContains ==
  ASSUME NEW p \in Pids, TablesInv, PidInv(p), MoreMeans(p)
  PROVE  PidInv(p)'
<1> DEFINE list == units[p]
           new == units'[p]
           held == Held(p)
           h == Held(p)'
           out == delivered[p]
           more == delivered'[p]
           harm == damaged[p]
           hurt == damaged'[p]
           put == Put
           puts == Put'
<1>1. /\ p \in Pids /\ list \in Seq(UnitRecord) /\ Fits(list) /\ list # <<>>
      /\ IsSeq(out) /\ harm \subseteq hurt
      /\ Contained(p, list, held, out, harm, put) /\ Onward(list, new, hurt)
  BY DEF PidInv, MoreMeans, PacketOf, DamageStays, TablesInv, SenderInv
<1>2. put \in BOOLEAN /\ puts \in BOOLEAN /\ (put => puts)
  BY DEF MoreMeans, PacketOf, Put
<1>3. PICK k \in Nat : k > 0 /\ GrownBy(list, new, k) /\ (Lost(p) \/ MoreArrives(p, k))
  BY DEF MoreMeans
<1>4. held.bytes \in Seq(Cell)
  BY DEF TablesInv, CollectorInv, TableInv, Held
<1>5. new # <<>> /\ LastInv(p, new, lastPacket'[p], hurt)
  <2>1. Len(new) = Len(list) /\ new \in Seq(UnitRecord)
    BY <1>1, <1>3 DEF GrownBy, Onward
  <2> QED
    BY <1>1, <2>1, EmptySeq DEF MoreMeans, PacketOf
<1>6. ASSUME IsSeq(more), Contained(p, new, h, more, hurt, puts) PROVE PidInv(p)'
  BY <1>1, <1>5, <1>6 DEF PidInv, Onward
<1>7. CASE Lost(p)
  <2>1. h = held /\ more = out /\ Len(new) \in hurt
    BY <1>7 DEF Lost, LastIsHarmed
  <2>2. Contained(p, new, held, out, hurt, puts)
    <3> HIDE DEF list, new, held, h, out, more, harm, hurt, put, puts
    <3> QED
      BY <1>1, <1>2, <1>5, <2>1, LostIsContained
  <2> QED
    BY <1>1, <1>6, <2>1, <2>2
<1>8. CASE MoreArrives(p, k)
  <2>1. PICK bytes : IsMore(p, list, new, k, bytes) /\ Appended(held, h, bytes)
    BY <1>8 DEF MoreArrives
  <2>2. CalledBack(p, new, h, out, more)
    BY <1>8 DEF MoreArrives, Collected
  <2>3. Contained(p, new, h, more, hurt, puts) /\ IsSeq(more)
    <3> HIDE DEF list, new, held, h, out, more, harm, hurt, put, puts
    <3> QED
      <4>1. IsSeq(more)
        BY <1>1, <2>2, CalledIsLonger, ZenonT(60)
      <4>2. Contained(p, new, h, more, hurt, puts)
        BY <1>1, <1>2, <1>3, <1>4, <2>1, <2>2, MoreIsContained, ZenonT(60)
      <4> QED
        BY <4>1, <4>2
  <2> QED
    BY <1>6, <2>3
<1> QED
  BY <1>3, <1>7, <1>8

LEMMA StillContains ==
  ASSUME NEW p \in Pids, TablesInv, PidInv(p), StillMeans(p)
  PROVE  PidInv(p)'
<1> DEFINE list == units[p]
           held == Held(p)
           h == Held(p)'
           out == delivered[p]
           more == delivered'[p]
           harm == damaged[p]
           hurt == damaged'[p]
           put == Put
           puts == Put'
<1>1. /\ p \in Pids /\ list \in Seq(UnitRecord) /\ Fits(list)
      /\ IsSeq(out) /\ harm \subseteq hurt /\ units'[p] = list
      /\ Contained(p, list, held, out, harm, put)
  BY DEF PidInv, StillMeans, PacketOf, DamageStays, TablesInv, SenderInv
<1>2. put \in BOOLEAN /\ puts \in BOOLEAN /\ (put => puts)
  BY DEF StillMeans, PacketOf, Put
<1>3. held.bytes \in Seq(Cell)
  BY DEF TablesInv, CollectorInv, TableInv, Held
<1>4. Onward(list, list, hurt)
  <2> HIDE DEF list, hurt
  <2> QED
    BY <1>1, OnwardStill
<1>5. LastInv(p, list, lastPacket'[p], hurt)
  BY <1>1 DEF StillMeans, PacketOf
<1>6. ASSUME IsSeq(more), Contained(p, list, h, more, hurt, puts) PROVE PidInv(p)'
  BY <1>1, <1>5, <1>6 DEF PidInv
<1>7. CASE list # <<>> /\ Emptied(p)
  <2>1. h.bytes = <<>> /\ more = out /\ Len(list) \in hurt
    BY <1>1, <1>7 DEF Emptied, LastIsHarmed
  <2>2. Contained(p, list, h, out, hurt, puts)
    <3> HIDE DEF list, held, h, out, more, harm, hurt, put, puts
    <3> QED
      BY <1>1, <1>2, <1>4, <1>7, <2>1, SplitIsContained
  <2> QED
    BY <1>1, <1>6, <2>1, <2>2
<1>8. CASE list # <<>> /\ Restarted(p)
  <2>1. Keeps(p, list, h, Len(list)) /\ CalledBack(p, list, h, out, more)
    BY <1>1, <1>8 DEF Restarted, Collected
  <2>2. Contained(p, list, h, more, hurt, puts) /\ IsSeq(more)
    <3>1. /\ p \in Pids /\ list \in Seq(UnitRecord) /\ list # <<>> /\ IsSeq(out) /\ harm \subseteq hurt
          /\ put \in BOOLEAN /\ puts \in BOOLEAN /\ (put => puts)
          /\ Contained(p, list, held, out, harm, put) /\ Onward(list, list, hurt)
          /\ Keeps(p, list, h, Len(list)) /\ CalledBack(p, list, h, out, more)
      BY <1>1, <1>2, <1>4, <1>8, <2>1
    <3> HIDE DEF list, held, h, out, more, harm, hurt, put, puts
    <3>2. Contained(p, list, h, more, hurt, puts)
      BY ONLY <3>1, KeptIsContained
    <3>3. IsSeq(more)
      BY ONLY <3>1, CalledIsLonger
    <3> QED
      BY <3>2, <3>3
  <2> QED
    BY <1>6, <2>2
<1>9. CASE StillArrives(p)
  <2>1. PICK bytes \in Seq(Cell) :
          /\ bytes # <<>> /\ Appended(held, h, bytes)
          /\ \/ UnitOf(bytes[1]) = 0 /\ puts
             \/ list # <<>> /\ UnitOf(bytes[1]) = Len(list)
    BY <1>9 DEF StillArrives
  <2>2. CalledBack(p, list, h, out, more)
    BY <1>1, <1>9 DEF StillArrives, Collected
  <2>3. list # <<>> => IsOver(list[Len(list)]) \/ Len(list) \in hurt
    BY <1>9 DEF StillArrives
  <2>4. Contained(p, list, h, more, hurt, puts) /\ IsSeq(more)
    <3>1. /\ p \in Pids /\ list \in Seq(UnitRecord) /\ Fits(list) /\ IsSeq(out) /\ harm \subseteq hurt
          /\ put \in BOOLEAN /\ puts \in BOOLEAN /\ (put => puts)
          /\ held.bytes \in Seq(Cell) /\ bytes \in Seq(Cell)
          /\ bytes # <<>> /\ Appended(held, h, bytes)
          /\ \/ UnitOf(bytes[1]) = 0 /\ puts
             \/ list # <<>> /\ UnitOf(bytes[1]) = Len(list)
          /\ list # <<>> => IsOver(list[Len(list)]) \/ Len(list) \in hurt
          /\ Contained(p, list, held, out, harm, put) /\ CalledBack(p, list, h, out, more)
      BY <1>1, <1>2, <1>3, <2>1, <2>2, <2>3
    <3> HIDE DEF list, held, h, out, more, harm, hurt, put, puts
    <3>2. Contained(p, list, h, more, hurt, puts)
      BY ONLY <3>1, StillIsContained
    <3>3. IsSeq(more)
      BY ONLY <3>1, CalledIsLonger
    <3> QED
      BY <3>2, <3>3
  <2> QED
    BY <1>6, <2>4
<1> QED
  BY <1>7, <1>8, <1>9 DEF StillMeans

LEMMA StepContains ==
  ASSUME NEW p \in Pids, TablesInv, TablesInv', ContainedInv,
         SendStart(p) \/ SendMore(p) \/ RepeatPacket(p) \/ SendAdaptation(p)
  PROVE  PacketOf(p) /\ PidInv(p)' /\ (StartMeans(p) \/ MoreMeans(p) \/ StillMeans(p))
<1>1. /\ DOMAIN damaged = Pids /\ DOMAIN delivered = Pids /\ PidInv(p)
      /\ Fits(units[p]) /\ LastInv(p, units[p], lastPacket[p], damaged[p])
  BY DEF ContainedInv, PidInv
<1>2. StartMeans(p) \/ MoreMeans(p) \/ StillMeans(p)
  BY <1>1, SendStartMeans, SendMoreMeans, RepeatMeans, AdaptationMeans
<1>3. PacketOf(p)
  BY <1>2 DEF StartMeans, MoreMeans, StillMeans
<1>4. PidInv(p)'
  BY <1>1, <1>2, StartContains, MoreContains, StillContains
<1> QED
  BY <1>2, <1>3, <1>4

LEMMA NextContains ==
  ASSUME TablesInv, ContainedInv, [Next]_vars
  PROVE  ContainedInv'
<1>1. TablesInv'
  BY NextKeepsTables
<1>2. ASSUME NEW p \in Pids, SendStart(p) \/ SendMore(p) \/ RepeatPacket(p) \/ SendAdaptation(p)
      PROVE  ContainedInv'
  <2>1. PacketOf(p) /\ PidInv(p)'
    BY <1>1, <1>2, StepContains
  <2>2. /\ DOMAIN damaged' = Pids /\ DOMAIN delivered' = Pids
        /\ (Put => Put')
    BY <2>1 DEF PacketOf, OthersRest, DamageStays
  <2>3. ASSUME NEW q \in Pids \ {p} PROVE PidInv(q)'
    <3>1. /\ units'[q] = units[q] /\ delivered'[q] = delivered[q] /\ Held(q)' = Held(q)
          /\ lastPacket'[q] = lastPacket[q] /\ damaged'[q] = damaged[q]
      BY <2>1 DEF PacketOf, OthersRest, DamageStays
    <3>2. PidInv(q)
      BY DEF ContainedInv
    <3> DEFINE list == units[q]
               held == Held(q)
               out == delivered[q]
               harm == damaged[q]
               put == Put
               puts == Put'
    <3>3. Contained(q, list, held, out, harm, puts)
      <4>1. Contained(q, list, held, out, harm, put) /\ (put => puts)
        BY <2>2, <3>2 DEF PidInv
      <4> HIDE DEF list, held, out, harm, put, puts
      <4> QED
        BY <4>1, SinceIsContained
    <3> QED
      BY <3>1, <3>2, <3>3 DEF PidInv
  <2> QED
    BY <2>1, <2>2, <2>3 DEF ContainedInv
<1>3. CASE UNCHANGED vars
  <2>1. /\ units' = units /\ delivered' = delivered /\ lastPacket' = lastPacket
        /\ damaged' = damaged /\ happened' = happened
        /\ mSectionBuffer' = mSectionBuffer /\ mSectionLength' = mSectionLength
        /\ mTableId' = mTableId
    BY <1>3 DEF vars, receiver, sender, channel, sections
  <2>2. ASSUME NEW p \in Pids PROVE PidInv(p)'
    <3>1. PidInv(p)
      BY DEF ContainedInv
    <3>2. Held(p)' = Held(p) /\ Put' = Put
      BY <2>1 DEF Held, Put
    <3> QED
      BY <2>1, <3>1, <3>2 DEF PidInv
  <2> QED
    BY <2>1, <2>2 DEF ContainedInv
<1> QED
  BY <1>2, <1>3 DEF Next

LEMMA InitIsContained == Init => ContainedInv
<1> SUFFICES ASSUME Init PROVE ContainedInv
  OBVIOUS
<1>1. /\ units = [p \in Pids |-> <<>>] /\ delivered = [p \in Pids |-> <<>>]
      /\ lastPacket = [p \in Pids |-> NoPacket] /\ damaged = [p \in Pids |-> {}]
      /\ mSectionBuffer = [p \in Pids |-> <<>>]
      /\ mTableId = [p \in Pids |-> PSI_TABLE_ID_PAT]
  BY DEF Init, InitSender, InitSections, InitChannel
<1>2. ASSUME NEW p \in Pids PROVE PidInv(p)
  <2> DEFINE none == <<>>
  <2>1. DOMAIN none = {} /\ none = <<>> /\ Len(none) = 0 /\ IsSeq(none)
    BY DEF IsSeq
  <2> HIDE DEF none
  <2>2. /\ units[p] = none /\ delivered[p] = none /\ lastPacket[p] = NoPacket
        /\ Held(p).bytes = none /\ Held(p).id = PSI_TABLE_ID_PAT
    BY <1>1, <2>1 DEF Held
  <2>3. Fits(none)
    <3>1. 1..(Len(none) - 1) = {}
      BY <2>1
    <3> QED
      BY <2>1, <3>1 DEF Fits
  <2>4. BufferInv(p, none, Held(p), damaged[p], Put)
    BY <2>1, <2>2 DEF BufferInv, Content
  <2>5. Known(p, none, none, damaged[p], Put) /\ Settled(p, none, none, damaged[p])
    BY <2>1 DEF Known, Settled
  <2> QED
    BY <2>1, <2>2, <2>3, <2>4, <2>5 DEF PidInv, LastInv, Contained
<1> QED
  BY <1>1, <1>2 DEF ContainedInv

\* A callback that was given the whole of a section was given its table.
LEMMA HoldsTable ==
  ASSUME NEW p \in Pids, units[p] \in Seq(UnitRecord), Fits(units[p]),
         NEW i \in DOMAIN delivered[p], NEW u, Holds(p, units[p], delivered[p][i].raw, u)
  PROVE  /\ u \in DOMAIN units[p] /\ u \in Nat \ {0} /\ UnitOf(delivered[p][i].raw[1]) = u
         /\ IsIntact(p, i, u)
<1> DEFINE list == units[p]
           raw == delivered[p][i].raw
           size == SectionSize(list[u].head)
           run == AllOf(p, list, u)
<1>1. u \in DOMAIN list /\ StartsWith(raw, run)
  BY DEF Holds
<1>2. /\ u \in Nat \ {0} /\ size \in Nat \ {0} /\ run \in Seq(Cell) /\ Len(run) = size
      /\ run # <<>> /\ run[1] = <<p, u, 1>>
  <2>1. p \in Pids /\ list \in Seq(UnitRecord) /\ Fits(list) /\ u \in DOMAIN list
    BY <1>1
  <2> HIDE DEF list
  <2> QED
    BY <2>1, SectionCells
<1>3. run = Cells(p, u, 1, size)
  BY DEF AllOf
<1> HIDE DEF run, size
<1>4. /\ raw \in Seq(Cell) /\ Len(run) <= Len(raw) /\ SubSeq(raw, 1, Len(run)) = run
      /\ raw[1] = run[1]
  <2> HIDE DEF raw
  <2> QED
    BY <1>1, <1>2, StartsWithMeans
<1>5. UnitOf(raw[1]) = u
  BY <1>2, <1>4 DEF UnitOf
<1>6. SizeOrLess(size, Len(raw)) = size
  BY <1>2, <1>4 DEF SizeOrLess
<1>7. Table(p, i) = Cells(p, u, 1, size)
  BY <1>1, <1>2, <1>3, <1>4, <1>5, <1>6 DEF Table, size
<1> QED
  BY <1>1, <1>2, <1>5, <1>7 DEF IsIntact, size

-----------------------------------------------------------------------------
(* What led to the callbacks *)

\* The packets of section u led to one callback, which was given it whole, or
\* to none.
Once(p, list, out, cause, u) ==
  \E i \in DOMAIN out : /\ Holds(p, list, out[i].raw, u)
                        /\ \A j \in DOMAIN out : cause[j] = u <=> j = i
Never(out, cause, u) == \A j \in DOMAIN out : cause[j] # u

\* A callback is put down to a packet that was repeated or put in (0), to a
\* section that came to harm, or to the section it begins with; and the packets
\* of any other section that is over led to one, which was given it whole.
Caused(p, list, out, cause, harm) ==
  /\ IsSeq(cause) /\ DOMAIN cause = DOMAIN out
  /\ \A i \in DOMAIN out :
       /\ cause[i] \in Nat /\ cause[i] <= Len(list)
       /\ cause[i] = 0 \/ cause[i] \in harm \/ UnitOf(out[i].raw[1]) = cause[i]
  /\ \A u \in DOMAIN list \ harm :
       IF IsOver(list[u])
       THEN CallsBack(p, list[u].head.table_id) => Once(p, list, out, cause, u)
       ELSE Never(out, cause, u)

\* The inductive invariant, together with TablesInv and ContainedInv.
CausesInv ==
  /\ DOMAIN causes = Pids
  /\ \A p \in Pids : Caused(p, units[p], delivered[p], causes[p], damaged[p])

\* A packet is about no section (0), or about the last one, which has come to
\* harm or is kept, and was not over before.
IsAbout(p, list, new, h, out, more, hurt, n) ==
  \/ n = 0 /\ new = list
  \/ n = Len(new) /\ n \in hurt
  \/ /\ n = Len(new) /\ n \in DOMAIN new /\ (n \in DOMAIN list => ~IsOver(list[n]))
     /\ Keeps(p, new, h, n) /\ CalledBack(p, new, h, out, more)

\* The callbacks of the sections but the last one stay as they are.
LEMMA CauseStays ==
  ASSUME NEW p, NEW list, NEW new, Grown(list, new),
         NEW out, NEW cause, NEW more, NEW later, NEW n, NEW u \in DOMAIN list, u # n,
         \A i \in DOMAIN out : i \in DOMAIN more /\ more[i] = out[i] /\ later[i] = cause[i],
         \A i \in DOMAIN more \ DOMAIN out : later[i] = n
  PROVE  /\ Once(p, list, out, cause, u) => Once(p, new, more, later, u)
         /\ Never(out, cause, u) => Never(more, later, u)
<1>1. ASSUME NEW i \in DOMAIN out, Holds(p, list, out[i].raw, u),
             \A j \in DOMAIN out : cause[j] = u <=> j = i
      PROVE  /\ i \in DOMAIN more /\ Holds(p, new, more[i].raw, u)
             /\ \A j \in DOMAIN more : later[j] = u <=> j = i
  <2>1. Holds(p, new, out[i].raw, u)
    BY <1>1, HoldsStill
  <2>2. ASSUME NEW j \in DOMAIN more PROVE later[j] = u <=> j = i
    <3>1. CASE j \in DOMAIN out
      BY <1>1, <3>1
    <3>2. CASE j \notin DOMAIN out
      BY <1>1, <3>2
    <3> QED
      BY <3>1, <3>2
  <2> QED
    BY <2>1, <2>2
<1>2. Never(out, cause, u) => Never(more, later, u)
  BY DEF Never
<1> QED
  BY <1>1, <1>2 DEF Once

LEMMA CauseIsKept ==
  ASSUME NEW p \in Pids, NEW list \in Seq(UnitRecord), NEW new, NEW h,
         NEW out, IsSeq(out), NEW harm, NEW hurt, harm \subseteq hurt, Onward(list, new, hurt),
         NEW cause, Caused(p, list, out, cause, harm),
         NEW more, CalledBack(p, new, h, out, more) \/ more = out,
         NEW n, IsAbout(p, list, new, h, out, more, hurt, n),
         NEW later, later = IF more = out THEN cause ELSE Append(cause, n)
  PROVE  Caused(p, new, more, later, hurt)
<1> DEFINE call == [table_id |-> h.id, raw |-> h.bytes]
<1>1. /\ new \in Seq(UnitRecord) /\ Fits(new) /\ Grown(list, new)
      /\ Len(new) \in Nat /\ DOMAIN new = 1..Len(new)
      /\ Len(list) \in Nat /\ DOMAIN list = 1..Len(list) /\ Len(list) <= Len(new)
  <2>1. new \in Seq(UnitRecord) /\ Fits(new) /\ Grown(list, new)
    BY DEF Onward
  <2>2. Len(list) > 0 => Len(list) \in DOMAIN list
    OBVIOUS
  <2> QED
    BY <2>1, <2>2 DEF Grown
<1>2. n \in Nat /\ n <= Len(new)
  BY <1>1 DEF IsAbout
<1>3. /\ IsSeq(cause) /\ DOMAIN cause = DOMAIN out
      /\ \A i \in DOMAIN out :
           /\ cause[i] \in Nat /\ cause[i] <= Len(list)
           /\ cause[i] = 0 \/ cause[i] \in harm \/ UnitOf(out[i].raw[1]) = cause[i]
  BY DEF Caused
<1>4. ASSUME more # out
      PROVE  /\ more = Append(out, call) /\ later = Append(cause, n)
             /\ DOMAIN more = 1..(Len(out) + 1) /\ DOMAIN out = 1..Len(out) /\ Len(out) \in Nat
             /\ more[Len(out) + 1] = call /\ later[Len(out) + 1] = n
             /\ \A i \in DOMAIN out : more[i] = out[i] /\ later[i] = cause[i]
             /\ DOMAIN later = DOMAIN more /\ IsSeq(later)
             /\ CalledBack(p, new, h, out, more)
  <2>1. more = Append(out, call) /\ later = Append(cause, n) /\ CalledBack(p, new, h, out, more)
    BY <1>4 DEF CalledBack
  <2> HIDE DEF call
  <2>2. /\ DOMAIN more = 1..(Len(out) + 1) /\ DOMAIN out = 1..Len(out) /\ Len(out) \in Nat
        /\ more[Len(out) + 1] = call /\ \A i \in DOMAIN out : more[i] = out[i]
    BY <2>1, AppendIsSeq
  <2>3. /\ IsSeq(later) /\ DOMAIN later = 1..(Len(cause) + 1) /\ DOMAIN cause = 1..Len(cause)
        /\ Len(cause) \in Nat
        /\ later[Len(cause) + 1] = n /\ \A i \in DOMAIN cause : later[i] = cause[i]
    BY <1>3, <2>1, AppendIsSeq
  <2>4. Len(cause) = Len(out)
    <3> DEFINE a == Len(cause)
               b == Len(out)
    <3>1. 1..a = 1..b /\ a \in Nat /\ b \in Nat
      BY <1>3, <2>2, <2>3
    <3> HIDE DEF a, b
    <3>2. (a \in 1..a <=> a > 0) /\ (b \in 1..b <=> b > 0) /\ (a \in 1..b => a <= b)
          /\ (b \in 1..a => b <= a)
      BY <3>1
    <3>3. a = b
      BY <3>1, <3>2
    <3> QED
      BY <3>3 DEF a, b
  <2> QED
    BY <1>3, <2>1, <2>2, <2>3, <2>4
<1> HIDE DEF call
<1>5. /\ IsSeq(later) /\ DOMAIN later = DOMAIN more
      /\ \A i \in DOMAIN out : i \in DOMAIN more /\ more[i] = out[i] /\ later[i] = cause[i]
      /\ \A i \in DOMAIN more \ DOMAIN out : i = Len(out) + 1 /\ later[i] = n
  <2>1. CASE more = out
    BY <1>3, <2>1
  <2>2. CASE more # out
    BY <1>4, <2>2
  <2> QED
    BY <2>1, <2>2
<1>6. ASSUME Keeps(p, new, h, n)
      PROVE  /\ UnitOf(h.bytes[1]) = n
             /\ StillShort(h.length, Len(h.bytes)) <=> ~IsOver(new[n])
             /\ IsOver(new[n]) => Holds(p, new, h.bytes, n)
  BY <1>1, <1>6, KeptBuffer
<1>7. ASSUME NEW i \in DOMAIN more
      PROVE  /\ later[i] \in Nat /\ later[i] <= Len(new)
             /\ later[i] = 0 \/ later[i] \in hurt \/ UnitOf(more[i].raw[1]) = later[i]
  <2>1. CASE i \in DOMAIN out
    <3>1. more[i] = out[i] /\ later[i] = cause[i]
      BY <1>5, <2>1
    <3> QED
      BY <1>1, <1>3, <2>1, <3>1
  <2>2. CASE i \notin DOMAIN out
    <3>1. i = Len(out) + 1 /\ later[i] = n /\ more # out
      BY <1>5, <2>2
    <3>2. more[i].raw = h.bytes
      BY <1>4, <3>1 DEF call
    <3>3. n = 0 \/ n \in hurt \/ UnitOf(h.bytes[1]) = n
      BY <1>6 DEF IsAbout
    <3> QED
      BY <1>2, <3>1, <3>2, <3>3
  <2> QED
    BY <2>1, <2>2
<1>8. ASSUME NEW u \in DOMAIN new \ hurt
      PROVE  IF IsOver(new[u])
             THEN CallsBack(p, new[u].head.table_id) => Once(p, new, more, later, u)
             ELSE Never(more, later, u)
  <2>1. ASSUME u \in DOMAIN list
        PROVE  /\ new[u].head = list[u].head /\ u \notin harm
               /\ IF IsOver(list[u])
                  THEN CallsBack(p, list[u].head.table_id) => Once(p, list, out, cause, u)
                  ELSE Never(out, cause, u)
    BY <1>1, <2>1 DEF Grown, Caused
  <2>2. CASE u # n
    <3>1. u \in DOMAIN list /\ (IsOver(new[u]) <=> IsOver(list[u]))
      <4>1. CASE new = list
        BY <4>1
      <4>2. CASE u # Len(new)
        BY <4>2 DEF Onward
      <4> QED
        BY <2>2, <4>1, <4>2 DEF IsAbout
    <3>2. /\ Once(p, list, out, cause, u) => Once(p, new, more, later, u)
          /\ Never(out, cause, u) => Never(more, later, u)
      <4>1. /\ Grown(list, new) /\ u \in DOMAIN list /\ u # n
            /\ \A i \in DOMAIN out : i \in DOMAIN more /\ more[i] = out[i] /\ later[i] = cause[i]
            /\ \A i \in DOMAIN more \ DOMAIN out : later[i] = n
        BY <1>1, <1>5, <2>2, <3>1
      <4> QED
        BY ONLY <4>1, CauseStays
    <3> QED
      BY <2>1, <3>1, <3>2
  <2>3. CASE u = n
    <3>1. /\ Keeps(p, new, h, u) /\ CalledBack(p, new, h, out, more)
          /\ u \in DOMAIN list => ~IsOver(list[u])
      BY <1>1, <2>3 DEF IsAbout
    <3>2. \A j \in DOMAIN out : cause[j] # u
      <4>1. CASE u \in DOMAIN list
        BY <2>1, <3>1, <4>1 DEF Never
      <4>2. CASE u \notin DOMAIN list
        <5>1. u > Len(list)
          BY <1>1, <4>2
        <5> QED
          BY <1>1, <1>3, <5>1
      <4> QED
        BY <4>1, <4>2
    <3>3. CASE ~IsOver(new[u])
      <4>1. more = out
        BY <1>6, <2>3, <3>1, <3>3 DEF CalledBack, Calls
      <4> QED
        BY <1>5, <3>2, <3>3, <4>1 DEF Never
    <3>4. CASE IsOver(new[u]) /\ CallsBack(p, new[u].head.table_id)
      <4>1. more = Append(out, call)
        BY <1>1, <3>1, <3>4, KeptIsGiven DEF call
      <4>2. more # out
        <5>1. DOMAIN more = 1..(Len(out) + 1) /\ DOMAIN out = 1..Len(out) /\ Len(out) \in Nat
          BY <4>1, AppendIsSeq
        <5>2. Len(out) + 1 \in DOMAIN more /\ Len(out) + 1 \notin DOMAIN out
          BY <5>1
        <5> QED
          BY <5>2
      <4> DEFINE i == Len(out) + 1
      <4>3. i \in DOMAIN more /\ i \notin DOMAIN out /\ more[i] = call /\ later[i] = n
        BY <1>4, <4>2
      <4>4. Holds(p, new, more[i].raw, u)
        BY <1>6, <2>3, <3>1, <3>4, <4>3 DEF call
      <4>5. ASSUME NEW j \in DOMAIN more PROVE later[j] = u <=> j = i
        BY <1>5, <2>3, <3>2, <4>3
      <4> QED
        BY <3>4, <4>3, <4>4, <4>5 DEF Once
    <3> QED
      BY <3>3, <3>4
  <2> QED
    BY <2>2, <2>3
<1> QED
  BY <1>5, <1>7, <1>8 DEF Caused

\* What a step's packet is about.
LEMMA StartIsAbout ==
  ASSUME NEW p \in Pids, TablesInv, StartMeans(p)
  PROVE  IsAbout(p, units[p], units'[p], Held(p)', delivered[p], delivered'[p],
                 damaged'[p], Len(units'[p]))
<1>1. /\ units[p] \in Seq(UnitRecord) /\ units'[p] \in Seq(UnitRecord)
      /\ Len(units'[p]) = Len(units[p]) + 1
  BY DEF StartMeans, Onward, TablesInv, SenderInv
<1>2. Len(units'[p]) \in DOMAIN units'[p] /\ Len(units'[p]) \notin DOMAIN units[p]
  BY <1>1
<1>3. Len(units'[p]) \in damaged'[p] \/ Restarted(p)
  BY DEF StartMeans, Lost, Emptied, LastIsHarmed
<1> QED
  BY <1>2, <1>3 DEF IsAbout, Restarted, Collected

LEMMA MoreIsAbout ==
  ASSUME NEW p \in Pids, TablesInv, PidInv(p), MoreMeans(p)
  PROVE  IsAbout(p, units[p], units'[p], Held(p)', delivered[p], delivered'[p],
                 damaged'[p], Len(units'[p]))
<1> DEFINE list == units[p]
           new == units'[p]
           held == Held(p)
           h == Held(p)'
           N == Len(list)
<1>1. PICK k \in Nat : k > 0 /\ GrownBy(list, new, k) /\ (Lost(p) \/ MoreArrives(p, k))
  BY DEF MoreMeans
<1>2. /\ list # <<>> /\ list \in Seq(UnitRecord) /\ Fits(list)
      /\ N \in DOMAIN list /\ N \in Nat \ {0}
      /\ new \in Seq(UnitRecord) /\ Fits(new) /\ damaged[p] \subseteq damaged'[p]
  BY EmptySeq DEF MoreMeans, PacketOf, DamageStays, Onward, TablesInv, SenderInv, PidInv
<1>3. Len(new) = N /\ N \in DOMAIN new
  BY <1>1, <1>2 DEF GrownBy
<1>4. ~IsOver(list[N])
  BY <1>1, <1>2, <1>3, GrownWasNotOver
<1>5. CASE N \in damaged'[p]
  BY <1>3, <1>5 DEF IsAbout
<1>6. CASE N \notin damaged'[p]
  <2>1. MoreArrives(p, k)
    BY <1>1, <1>3, <1>6 DEF Lost, LastIsHarmed
  <2>2. Keeps(p, list, held, N)
    BY <1>2, <1>4, <1>6 DEF PidInv, Contained, BufferInv
  <2>3. PICK bytes : IsMore(p, list, new, k, bytes) /\ Appended(held, h, bytes)
    BY <2>1 DEF MoreArrives
  <2>4. Keeps(p, new, h, N)
    <3> HIDE DEF list, new, held, h, N
    <3> QED
      BY <1>1, <1>2, <2>2, <2>3, MoreIsKept DEF list
  <2>5. CalledBack(p, new, h, delivered[p], delivered'[p])
    BY <2>1 DEF MoreArrives, Collected
  <2> QED
    BY <1>3, <1>4, <2>4, <2>5 DEF IsAbout
<1> QED
  BY <1>5, <1>6

\* The section a step's callback is put down to.
LEMMA CauseOfStep ==
  ASSUME NEW p \in Pids, TablesInv, TablesInv', ContainedInv,
         SendStart(p) \/ SendMore(p) \/ RepeatPacket(p) \/ SendAdaptation(p)
  PROVE  \/ (StartMeans(p) \/ MoreMeans(p)) /\ PutDownTo(p, Len(units'[p]))
         \/ StillMeans(p) /\ PutDownTo(p, 0)
<1>1. /\ DOMAIN damaged = Pids /\ DOMAIN delivered = Pids
      /\ Fits(units[p]) /\ LastInv(p, units[p], lastPacket[p], damaged[p])
  BY DEF ContainedInv, PidInv
<1>2. ASSUME NEW pkt, NEW cut, NEW lost, Transfer(p, pkt, cut, lost)
      PROVE  PutDownTo(p, Len(units'[p]))
  BY <1>2 DEF Transfer
<1>3. SendStart(p) => PutDownTo(p, Len(units'[p]))
  BY <1>2 DEF SendStart
<1>4. SendMore(p) => PutDownTo(p, Len(units'[p]))
  BY <1>2 DEF SendMore
<1>5. RepeatPacket(p) \/ SendAdaptation(p) => PutDownTo(p, 0)
  BY DEF RepeatPacket, SendAdaptation
<1> QED
  BY <1>1, <1>3, <1>4, <1>5, SendStartMeans, SendMoreMeans, RepeatMeans, AdaptationMeans

LEMMA StepKeepsCauses ==
  ASSUME NEW p \in Pids, TablesInv, TablesInv', ContainedInv, CausesInv,
         SendStart(p) \/ SendMore(p) \/ RepeatPacket(p) \/ SendAdaptation(p)
  PROVE  /\ DOMAIN causes' = Pids /\ \A q \in Pids \ {p} : causes'[q] = causes[q]
         /\ Caused(p, units'[p], delivered'[p], causes'[p], damaged'[p])
<1> DEFINE list == units[p]
           new == units'[p]
           h == Held(p)'
           out == delivered[p]
           more == delivered'[p]
           harm == damaged[p]
           hurt == damaged'[p]
           cause == causes[p]
           later == causes'[p]
<1>1. PICK n : /\ \/ (StartMeans(p) \/ MoreMeans(p)) /\ n = Len(new)
                  \/ StillMeans(p) /\ n = 0
               /\ PutDownTo(p, n)
  BY CauseOfStep
<1>2. /\ DOMAIN causes' = Pids /\ \A q \in Pids \ {p} : causes'[q] = causes[q]
      /\ later = IF more = out THEN cause ELSE Append(cause, n)
  BY <1>1 DEF PutDownTo, CausesInv
<1>3. /\ PidInv(p) /\ list \in Seq(UnitRecord) /\ Fits(list) /\ IsSeq(out)
      /\ Caused(p, list, out, cause, harm)
  BY DEF ContainedInv, PidInv, TablesInv, SenderInv, CausesInv
<1>4. harm \subseteq hurt
  BY <1>1 DEF StartMeans, MoreMeans, StillMeans, PacketOf, DamageStays
<1>5. Onward(list, new, hurt)
  <2>1. CASE StillMeans(p)
    <3>1. new = list
      BY <2>1 DEF StillMeans
    <3> HIDE DEF list, new, hurt
    <3> QED
      BY <1>3, <3>1, OnwardStill
  <2> QED
    BY <1>1, <2>1 DEF StartMeans, MoreMeans
<1>6. CalledBack(p, new, h, out, more) \/ more = out
  BY <1>1 DEF StartMeans, MoreMeans, StillMeans, Lost, Emptied, LastIsHarmed, Restarted,
              MoreArrives, StillArrives, Collected
<1>7. IsAbout(p, list, new, h, out, more, hurt, n)
  <2>1. CASE StillMeans(p) /\ n = 0
    BY <2>1 DEF StillMeans, IsAbout
  <2> QED
    BY <1>1, <1>3, <2>1, StartIsAbout, MoreIsAbout
<1> HIDE DEF list, new, h, out, more, harm, hurt, cause, later
<1>8. Caused(p, new, more, later, hurt)
  BY <1>2, <1>3, <1>4, <1>5, <1>6, <1>7, CauseIsKept
<1> QED
  BY <1>2, <1>8 DEF new, more, later, hurt

LEMMA NextKeepsCauses ==
  ASSUME TablesInv, ContainedInv, CausesInv, [Next]_vars
  PROVE  CausesInv'
<1>1. TablesInv'
  BY NextKeepsTables
<1>2. ASSUME NEW p \in Pids, SendStart(p) \/ SendMore(p) \/ RepeatPacket(p) \/ SendAdaptation(p)
      PROVE  CausesInv'
  <2>1. /\ DOMAIN causes' = Pids /\ \A q \in Pids \ {p} : causes'[q] = causes[q]
        /\ Caused(p, units'[p], delivered'[p], causes'[p], damaged'[p])
    BY <1>1, <1>2, StepKeepsCauses
  <2>2. \A q \in Pids \ {p} :
          units'[q] = units[q] /\ delivered'[q] = delivered[q] /\ damaged'[q] = damaged[q]
    BY <1>1, <1>2, StepContains DEF PacketOf, OthersRest, DamageStays
  <2>3. \A q \in Pids : Caused(q, units[q], delivered[q], causes[q], damaged[q])
    BY DEF CausesInv
  <2> QED
    BY <2>1, <2>2, <2>3 DEF CausesInv
<1>3. CASE UNCHANGED vars
  BY <1>3 DEF vars, receiver, sender, channel, CausesInv
<1> QED
  BY <1>2, <1>3 DEF Next

LEMMA InitHasCauses == Init => CausesInv
<1> SUFFICES ASSUME Init PROVE CausesInv
  OBVIOUS
<1>1. /\ units = [p \in Pids |-> <<>>] /\ delivered = [p \in Pids |-> <<>>]
      /\ causes = [p \in Pids |-> <<>>]
  BY DEF Init, InitSender
<1> DEFINE none == <<>>
<1>2. ASSUME NEW p \in Pids PROVE Caused(p, none, none, none, damaged[p])
  BY DEF Caused, IsSeq
<1>3. DOMAIN causes = Pids
      /\ \A p \in Pids : units[p] = none /\ delivered[p] = none /\ causes[p] = none
  BY <1>1
<1> HIDE DEF none
<1> QED
  BY <1>2, <1>3 DEF CausesInv

LEMMA ContainedSuffices ==
  ASSUME TablesInv, ContainedInv, CausesInv
  PROVE  DamageIsContained
<1> SUFFICES ASSUME NEW p \in Pids
    PROVE
      /\ \A u \in DOMAIN units[p] \ (damaged[p] \cup Ignored(p)) :
           units[p][u].sent = SectionSize(units[p][u].head) =>
             \E i \in DOMAIN delivered[p] :
               IsIntact(p, i, u) /\ \A j \in DOMAIN delivered[p] : causes[p][j] = u <=> j = i
      /\ \A i \in DOMAIN delivered[p] :
           LET u == UnitOf(delivered[p][i].raw[1])
           IN  IF u = 0 THEN damaged[p] # {} \/ (p = 0 /\ Put)
               ELSE u \in damaged[p]
                    \/ /\ IsIntact(p, i, u)
                       /\ delivered[p][i].table_id = units[p][u].head.table_id
                       /\ causes[p][i] \in {0, u} \/ causes[p][i] \in damaged[p]
  BY DEF DamageIsContained, Put
<1>1. /\ units[p] \in Seq(UnitRecord) /\ Fits(units[p])
      /\ Known(p, units[p], delivered[p], damaged[p], Put)
      /\ Caused(p, units[p], delivered[p], causes[p], damaged[p])
  BY DEF ContainedInv, CausesInv, PidInv, Contained, TablesInv, SenderInv
<1>2. ASSUME NEW u \in DOMAIN units[p] \ (damaged[p] \cup Ignored(p)),
             units[p][u].sent = SectionSize(units[p][u].head)
      PROVE  \E i \in DOMAIN delivered[p] :
               IsIntact(p, i, u) /\ \A j \in DOMAIN delivered[p] : causes[p][j] = u <=> j = i
  <2>1. PICK i \in DOMAIN delivered[p] :
          /\ Holds(p, units[p], delivered[p][i].raw, u)
          /\ \A j \in DOMAIN delivered[p] : causes[p][j] = u <=> j = i
    BY <1>1, <1>2 DEF Caused, Once, IsOver, Ignored
  <2> QED
    BY <1>1, <2>1, HoldsTable
<1>3. ASSUME NEW i \in DOMAIN delivered[p], NEW u, u = UnitOf(delivered[p][i].raw[1])
      PROVE  IF u = 0 THEN damaged[p] # {} \/ (p = 0 /\ Put)
             ELSE u \in damaged[p]
                  \/ /\ IsIntact(p, i, u)
                     /\ delivered[p][i].table_id = units[p][u].head.table_id
                     /\ causes[p][i] \in {0, u} \/ causes[p][i] \in damaged[p]
  <2>1. KnownCall(p, units[p], delivered[p][i], damaged[p], Put)
    BY <1>1 DEF Known
  <2>2. CASE Remains(delivered[p][i].raw[1], damaged[p], Put /\ p = 0)
    BY <1>3, <2>2 DEF Remains
  <2>3. ASSUME NEW v \in DOMAIN units[p], Holds(p, units[p], delivered[p][i].raw, v),
               delivered[p][i].table_id = units[p][v].head.table_id
        PROVE  u # 0 /\ IsIntact(p, i, u)
               /\ delivered[p][i].table_id = units[p][u].head.table_id
    <3>1. v \in Nat \ {0} /\ UnitOf(delivered[p][i].raw[1]) = v /\ IsIntact(p, i, v)
      BY <1>1, <2>3, HoldsTable
    <3> QED
      BY <1>3, <2>3, <3>1
  <2>4. causes[p][i] = 0 \/ causes[p][i] \in damaged[p] \/ causes[p][i] = u
    BY <1>1, <1>3 DEF Caused
  <2> QED
    BY <2>1, <2>2, <2>3, <2>4 DEF KnownCall
<1> QED
  BY <1>2, <1>3

\* A fault harms no table but the ones it touches.  For any packet and section
\* size, any number of PIDs, PID 0 among them, and any number of faults, the
\* packets of a table that came to no harm lead to one callback, which is given
\* the table whole.  It is called back again only by a packet repeated or put in
\* behind it or by one of a section that lost its start; and a callback that is
\* not one of the tables is what remains of a harmed one (collectTable, demux).
THEOREM DamageIsAlwaysContained == Spec => []DamageIsContained
<1>1. Init => TablesInv /\ ContainedInv /\ CausesInv
  BY InitHasTables, InitIsContained, InitHasCauses
<1>2. TablesInv /\ ContainedInv /\ CausesInv /\ [Next]_vars
        => (TablesInv /\ ContainedInv /\ CausesInv)'
  BY NextKeepsTables, NextContains, NextKeepsCauses
<1>3. TablesInv /\ ContainedInv /\ CausesInv => DamageIsContained
  BY ContainedSuffices
<1> QED
  BY <1>1, <1>2, <1>3, PTL DEF Spec

-----------------------------------------------------------------------------
(* The service *)

\* A PID of which the service promises something.
Tidy(p) == faults = 0 /\ damaged[p] = {} /\ Ignored(p) = {}

\* All sections are over but possibly the last one.
OverOf(list) ==
  IF list # <<>> /\ ~IsOver(list[Len(list)]) THEN Len(list) - 1 ELSE Len(list)

\* Every section that is over was called back, in order and once.
Exact(p, list, out) ==
  /\ IsSeq(out) /\ Len(out) = OverOf(list)
  /\ \A i \in 1..Len(out) : Holds(p, list, out[i].raw, i)

\* The inductive invariant, together with TablesInv and ContainedInv.
ExactInv == faults \in Nat /\ \A p \in Pids : Tidy(p) => Exact(p, units[p], delivered[p])

\* What a step is to the service while it promises something of the PID.
Served(p) ==
  /\ Tidy(p) /\ Exact(p, units'[p], delivered'[p]) /\ Longer(delivered[p], delivered'[p])
  /\ Grown(units[p], units'[p])
  /\ \/ Begun(units[p], units'[p])
     \/ /\ units[p] # <<>> /\ Len(delivered[p]) < Len(units[p])
        /\ \E k \in Nat : GrownBy(units[p], units'[p], k)

\* The last section is kept, and called back if it is over.
LEMMA KeptIsExact ==
  ASSUME NEW p \in Pids, NEW new \in Seq(UnitRecord), NEW h, NEW out, NEW more,
         Fits(new), new # <<>>, IsSeq(out), Len(out) = Len(new) - 1,
         \A i \in 1..Len(out) : Holds(p, new, out[i].raw, i),
         Keeps(p, new, h, Len(new)), CalledBack(p, new, h, out, more),
         CallsBack(p, new[Len(new)].head.table_id)
  PROVE  Exact(p, new, more) /\ Longer(out, more)
<1> DEFINE N == Len(new)
           call == [table_id |-> h.id, raw |-> h.bytes]
<1>1. N \in Nat \ {0} /\ N \in DOMAIN new /\ Len(out) = N - 1
  BY EmptySeq
<1>2. /\ StillShort(h.length, Len(h.bytes)) <=> ~IsOver(new[N])
      /\ IsOver(new[N]) => Holds(p, new, h.bytes, N)
  BY KeptBuffer
<1>3. CASE IsOver(new[N])
  <2>1. more = Append(out, call)
    BY <1>3, KeptIsGiven
  <2>2. call.raw = h.bytes
    OBVIOUS
  <2> HIDE DEF call
  <2>3. /\ IsSeq(more) /\ DOMAIN more = 1..(Len(out) + 1) /\ DOMAIN out = 1..Len(out)
        /\ more[Len(out) + 1] = call /\ \A i \in DOMAIN out : more[i] = out[i]
    BY <2>1, AppendIsSeq
  <2>4. Len(more) = N
    <3>1. PICK S : more \in Seq(S)
      BY <2>3 DEF IsSeq
    <3> HIDE DEF N
    <3> QED
      BY <1>1, <2>3, <3>1
  <2> HIDE DEF N
  <2>5. ASSUME NEW i \in 1..N PROVE Holds(p, new, more[i].raw, i)
    <3>1. CASE i = N
      BY <1>1, <1>2, <1>3, <2>2, <2>3, <3>1
    <3>2. CASE i # N
      <4>1. i \in 1..Len(out) /\ more[i] = out[i]
        BY <1>1, <2>3, <3>2
      <4> QED
        BY <4>1
    <3> QED
      BY <3>1, <3>2
  <2>6. OverOf(new) = N
    BY <1>3 DEF OverOf, N
  <2>7. Longer(out, more)
    BY <1>1, <2>3, <2>4 DEF Longer
  <2> QED
    BY <2>3, <2>4, <2>5, <2>6, <2>7 DEF Exact
<1>4. CASE ~IsOver(new[N])
  <2>1. more = out
    BY <1>2, <1>4 DEF CalledBack, Calls
  <2>2. OverOf(new) = N - 1
    BY <1>4 DEF OverOf
  <2>3. Len(out) \in Nat
    BY <1>1
  <2> QED
    BY <1>1, <2>1, <2>2, <2>3 DEF Exact, Longer
<1> QED
  BY <1>3, <1>4

LEMMA HeldStill ==
  ASSUME NEW p, NEW list, NEW new, NEW out, Grown(list, new),
         \A i \in 1..Len(out) : Holds(p, list, out[i].raw, i)
  PROVE  \A i \in 1..Len(out) : Holds(p, new, out[i].raw, i)
BY HoldsStill

LEMMA StartIsExact ==
  ASSUME NEW p \in Pids, TablesInv, PidInv(p), StartMeans(p), Tidy(p), damaged'[p] = {},
         Ignored(p)' = {}, Exact(p, units[p], delivered[p])
  PROVE  Served(p)
<1> DEFINE list == units[p]
           new == units'[p]
           h == Held(p)'
           out == delivered[p]
           more == delivered'[p]
<1>1. /\ Onward(list, new, {}) /\ Len(new) = Len(list) + 1 /\ new # <<>>
      /\ Begun(list, new) /\ Restarted(p) /\ list \in Seq(UnitRecord)
  BY DEF StartMeans, Lost, Emptied, LastIsHarmed, TablesInv, SenderInv
<1>2. new \in Seq(UnitRecord) /\ Fits(new) /\ Grown(list, new) /\ Len(new) \in DOMAIN new
  BY <1>1, EmptySeq DEF Onward
<1>3. Len(out) = Len(list)
  <2>1. ASSUME list # <<>> PROVE IsOver(list[Len(list)])
    <3>1. Len(list) \in DOMAIN new /\ Len(list) # Len(new)
      BY <1>1, <1>2, <2>1, EmptySeq
    <3> QED
      BY <1>1, <3>1 DEF Onward
  <2> QED
    BY <2>1 DEF Exact, OverOf
<1>4. Keeps(p, new, h, Len(new)) /\ CalledBack(p, new, h, out, more)
  BY <1>1 DEF Restarted, Collected
<1>5. CallsBack(p, new[Len(new)].head.table_id)
  BY <1>2 DEF Ignored
<1>6. IsSeq(out) /\ \A i \in 1..Len(out) : Holds(p, new, out[i].raw, i)
  <2>1. IsSeq(out) /\ \A i \in 1..Len(out) : Holds(p, list, out[i].raw, i)
    BY DEF Exact
  <2> HIDE DEF list, new, out
  <2> QED
    BY <1>2, <2>1, HeldStill
<1>7. Exact(p, new, more) /\ Longer(out, more)
  <2>1. Len(out) = Len(new) - 1
    BY <1>1, <1>3
  <2> HIDE DEF list, new, h, out, more
  <2> QED
    BY <1>1, <1>2, <1>4, <1>5, <1>6, <2>1, KeptIsExact
<1> QED
  BY <1>1, <1>2, <1>7 DEF Served

LEMMA MoreIsExact ==
  ASSUME NEW p \in Pids, TablesInv, PidInv(p), MoreMeans(p), Tidy(p), damaged'[p] = {},
         Ignored(p)' = {}, Exact(p, units[p], delivered[p])
  PROVE  Served(p)
<1> DEFINE list == units[p]
           new == units'[p]
           held == Held(p)
           h == Held(p)'
           out == delivered[p]
           more == delivered'[p]
           N == Len(list)
<1>1. PICK k \in Nat : k > 0 /\ GrownBy(list, new, k) /\ MoreArrives(p, k)
  BY DEF MoreMeans, Lost, LastIsHarmed
<1>2. /\ Onward(list, new, {}) /\ list # <<>> /\ list \in Seq(UnitRecord) /\ Fits(list)
      /\ N \in DOMAIN list /\ N \in Nat \ {0}
  BY EmptySeq DEF MoreMeans, TablesInv, SenderInv, PidInv
<1>3. /\ new \in Seq(UnitRecord) /\ Fits(new) /\ Grown(list, new)
      /\ Len(new) = N /\ N \in DOMAIN new /\ new # <<>>
  BY <1>1, <1>2, EmptySeq DEF Onward, GrownBy
<1>4. ~IsOver(list[N])
  BY <1>1, <1>2, <1>3, GrownWasNotOver
<1>5. Len(out) = N - 1
  BY <1>2, <1>4 DEF Exact, OverOf
<1>6. Keeps(p, list, held, N)
  BY <1>2, <1>4 DEF PidInv, Contained, BufferInv, Tidy
<1>7. Keeps(p, new, h, N) /\ CalledBack(p, new, h, out, more)
  <2>1. PICK bytes : IsMore(p, list, new, k, bytes) /\ Appended(held, h, bytes)
    BY <1>1 DEF MoreArrives
  <2>2. CalledBack(p, new, h, out, more)
    BY <1>1 DEF MoreArrives, Collected
  <2>3. Keeps(p, new, h, N)
    <3> HIDE DEF list, new, held, h, N
    <3> QED
      BY <1>1, <1>2, <1>3, <1>6, <2>1, MoreIsKept
  <2> QED
    BY <2>2, <2>3
<1>8. CallsBack(p, new[Len(new)].head.table_id)
  BY <1>3 DEF Ignored
<1>9. IsSeq(out) /\ \A i \in 1..Len(out) : Holds(p, new, out[i].raw, i)
  <2>1. IsSeq(out) /\ \A i \in 1..Len(out) : Holds(p, list, out[i].raw, i)
    BY DEF Exact
  <2> HIDE DEF list, new, out
  <2> QED
    BY <1>3, <2>1, HeldStill
<1>10. Exact(p, new, more) /\ Longer(out, more)
  <2>1. Len(out) = Len(new) - 1 /\ Keeps(p, new, h, Len(new))
    BY <1>3, <1>5, <1>7
  <2> HIDE DEF list, new, h, out, more
  <2> QED
    BY <1>3, <1>7, <1>8, <1>9, <2>1, KeptIsExact
<1>11. Len(out) < N
  BY <1>2, <1>5
<1> QED
  BY <1>1, <1>2, <1>3, <1>10, <1>11 DEF Served

\* A step of the PID, or of another one.
LEMMA StepIsExact ==
  ASSUME NEW p \in Pids, TablesInv, TablesInv', ContainedInv, ExactInv, PacketOf(p),
         StartMeans(p) \/ MoreMeans(p) \/ StillMeans(p)
  PROVE  faults' \in Nat /\ (Tidy(p)' => Served(p))
<1>1. /\ faults \in Nat /\ (faults' = faults \/ faults' = faults + 1)
      /\ damaged[p] \subseteq damaged'[p] /\ PidInv(p)
  BY DEF ExactInv, PacketOf, DamageStays, ContainedInv
<1>2. faults' \in Nat /\ (faults' = 0 => faults = 0)
  BY <1>1
<1>3. StillMeans(p) => faults' # 0
  BY <1>1 DEF StillMeans
<1>4. Grown(units[p], units'[p])
  <2>1. units[p] \in Seq(UnitRecord)
    BY DEF TablesInv, SenderInv
  <2>2. StillMeans(p) => Grown(units[p], units'[p])
    BY DEF StillMeans, Grown
  <2> QED
    BY <2>2 DEF StartMeans, MoreMeans, Onward
<1>5. Ignored(p)' = {} => Ignored(p) = {}
  BY <1>4 DEF Ignored, Grown
<1>6. ASSUME Tidy(p)' PROVE Served(p)
  <2>1. faults' = 0 /\ damaged'[p] = {} /\ Ignored(p)' = {}
    BY <1>6 DEF Tidy
  <2>2. Tidy(p)
    BY <1>1, <1>2, <1>5, <2>1 DEF Tidy
  <2>3. Exact(p, units[p], delivered[p])
    BY <2>2 DEF ExactInv
  <2> QED
    BY <1>1, <1>3, <2>1, <2>2, <2>3, StartIsExact, MoreIsExact
<1> QED
  BY <1>2, <1>6

LEMMA NextKeepsExact ==
  ASSUME TablesInv, ContainedInv, ExactInv, [Next]_vars
  PROVE  ExactInv'
<1>1. TablesInv'
  BY NextKeepsTables
<1>2. ASSUME NEW p \in Pids, SendStart(p) \/ SendMore(p) \/ RepeatPacket(p) \/ SendAdaptation(p)
      PROVE  ExactInv'
  <2>1. PacketOf(p) /\ (StartMeans(p) \/ MoreMeans(p) \/ StillMeans(p))
    BY <1>1, <1>2, StepContains
  <2>2. faults' \in Nat /\ (Tidy(p)' => Served(p))
    BY <1>1, <2>1, StepIsExact
  <2>3. ASSUME NEW q \in Pids, Tidy(q)' PROVE Exact(q, units'[q], delivered'[q])
    <3>1. CASE q = p
      BY <2>2, <2>3, <3>1 DEF Served
    <3>2. CASE q # p
      <4>1. /\ units'[q] = units[q] /\ delivered'[q] = delivered[q] /\ damaged'[q] = damaged[q]
        BY <2>1, <3>2 DEF PacketOf, OthersRest, DamageStays
      <4>2. faults = 0
        <5>1. faults \in Nat /\ (faults' = faults \/ faults' = faults + 1) /\ faults' = 0
          BY <2>1, <2>3 DEF PacketOf, ExactInv, Tidy
        <5> QED
          BY <5>1
      <4>3. Tidy(q)
        BY <2>3, <4>1, <4>2 DEF Tidy, Ignored
      <4> QED
        BY <4>1, <4>3 DEF ExactInv
    <3> QED
      BY <3>1, <3>2
  <2> QED
    BY <2>2, <2>3 DEF ExactInv
<1>3. CASE UNCHANGED vars
  BY <1>3 DEF vars, receiver, sender, channel, ExactInv, Tidy, Ignored
<1> QED
  BY <1>2, <1>3 DEF Next

LEMMA InitIsExact == Init => ExactInv
<1> SUFFICES ASSUME Init PROVE ExactInv
  OBVIOUS
<1>1. /\ units = [p \in Pids |-> <<>>] /\ delivered = [p \in Pids |-> <<>>] /\ faults = 0
  BY DEF Init, InitSender, InitChannel
<1> DEFINE none == <<>>
<1>2. ASSUME NEW p \in Pids PROVE Exact(p, none, none)
  BY DEF Exact, OverOf, IsSeq
<1>3. \A p \in Pids : units[p] = none /\ delivered[p] = none
  BY <1>1
<1> HIDE DEF none
<1> QED
  BY <1>1, <1>2, <1>3 DEF ExactInv

\* What the service takes for the first n sections of a PID, when they are over.
TablesOf(p, list, n) == [i \in 1..n |-> AllOf(p, list, i)]

LEMMA TablesAreSent ==
  ASSUME NEW p \in Pids, NEW list \in Seq(UnitRecord), NEW n \in Nat, Fits(list),
         n = OverOf(list)
  PROVE  /\ TablesOf(p, list, n) \in Seq(Seq(Cell)) /\ Len(TablesOf(p, list, n)) = n
         /\ IsPrefix(TablesOf(p, list, n), SentUnits(p, list))
         /\ n >= Len(SentUnits(p, list)) - 1 /\ n <= Len(list)
<1> DEFINE d == TablesOf(p, list, n)
           s == SentUnits(p, list)
           N == Len(list)
<1>0. /\ N \in Nat /\ DOMAIN list = 1..N /\ (list # <<>> <=> N > 0)
      /\ list # <<>> /\ ~IsOver(list[N]) => n = N - 1
      /\ ~(list # <<>> /\ ~IsOver(list[N])) => n = N
  <2>1. N \in Nat /\ DOMAIN list = 1..N /\ (list # <<>> <=> N > 0)
    BY EmptySeq
  <2> QED
    BY <2>1 DEF OverOf
<1> HIDE DEF N
<1>1. n <= N /\ n >= N - 1
  <2>1. n = N \/ n = N - 1
    BY <1>0
  <2> QED
    BY <1>0, <2>1
<1>2. ASSUME NEW i \in 1..n PROVE i \in DOMAIN list /\ IsOver(list[i])
  <2>1. i \in DOMAIN list
    BY <1>0, <1>1
  <2>2. CASE i = N
    <3>1. n # N - 1 /\ list # <<>>
      BY <1>0, <1>1, <2>1, <2>2
    <3> QED
      BY <1>0, <2>1, <2>2, <3>1
  <2>3. CASE i # N
    <3>1. i \in 1..(N - 1)
      BY <1>0, <1>1, <2>1, <2>3
    <3> QED
      BY <2>1, <3>1 DEF Fits, N
  <2> QED
    BY <2>2, <2>3
<1>3. /\ s \in Seq(Seq(Cell)) /\ Len(s) = N
      /\ \A u \in 1..N : s[u] = Cells(p, u, 1, list[u].sent)
  BY UnitsAreSeqs DEF N
<1>4. ASSUME NEW i \in 1..n PROVE AllOf(p, list, i) \in Seq(Cell) /\ AllOf(p, list, i) = s[i]
  <2>1. i \in DOMAIN list /\ IsOver(list[i])
    BY <1>2
  <2>2. AllOf(p, list, i) \in Seq(Cell) /\ PartOf(p, list, i) = AllOf(p, list, i)
    BY <2>1, SectionCells
  <2>3. s[i] = PartOf(p, list, i)
    BY <1>0, <1>3, <2>1 DEF PartOf
  <2> QED
    BY <2>2, <2>3
<1>5. d \in [1..n -> Seq(Cell)]
  BY <1>4 DEF TablesOf
<1>6. d \in Seq(Seq(Cell)) /\ Len(d) = n
  BY <1>5
<1>7. Len(d) <= Len(s) /\ \A i \in 1..Len(d) : s[i] = d[i]
  <2>1. \A i \in 1..n : d[i] = AllOf(p, list, i)
    BY DEF TablesOf
  <2> HIDE DEF d, s
  <2> QED
    BY <1>0, <1>1, <1>3, <1>4, <1>6, <2>1
<1>8. IsPrefix(d, s)
  <2> HIDE DEF d, s
  <2> QED
    BY <1>3, <1>6, <1>7, PrefixByElements
<1> QED
  BY <1>1, <1>3, <1>6, <1>8 DEF N

LEMMA TablesGrow ==
  ASSUME NEW p \in Pids, NEW list \in Seq(UnitRecord), NEW new \in Seq(UnitRecord),
         NEW n \in Nat, NEW m \in Nat, n <= m, Fits(list), Fits(new), Grown(list, new),
         n = OverOf(list), m = OverOf(new)
  PROVE  IsPrefix(TablesOf(p, list, n), TablesOf(p, new, m))
<1> DEFINE d == TablesOf(p, list, n)
           e == TablesOf(p, new, m)
<1>1. /\ d \in Seq(Seq(Cell)) /\ Len(d) = n /\ n <= Len(list)
      /\ e \in Seq(Seq(Cell)) /\ Len(e) = m
  BY TablesAreSent
<1>2. ASSUME NEW i \in 1..n PROVE e[i] = d[i]
  <2>1. i \in 1..m /\ i \in DOMAIN list
    BY <1>1
  <2>2. new[i].head = list[i].head
    BY <2>1 DEF Grown
  <2>3. AllOf(p, new, i) = AllOf(p, list, i)
    BY <2>2 DEF AllOf
  <2> QED
    BY <2>1, <2>3 DEF TablesOf
<1> HIDE DEF d, e
<1>3. IsPrefix(d, e)
  BY <1>1, <1>2, PrefixByElements
<1> QED
  BY <1>3 DEF d, e

\* Of a tidy PID the service takes the tables in order.
TablesGiven(p) ==
  [i \in DOMAIN delivered[p] |-> Table(p, i)] = TablesOf(p, units[p], Len(delivered[p]))

TidyGiven == \A p \in Pids : Tidy(p) => TablesGiven(p)

LEMMA ExactMeans ==
  ASSUME TablesInv, ContainedInv, ExactInv
  PROVE  TidyGiven
<1> SUFFICES ASSUME NEW p \in Pids, Tidy(p) PROVE TablesGiven(p)
  BY DEF TidyGiven
<1>1. Exact(p, units[p], delivered[p]) /\ units[p] \in Seq(UnitRecord) /\ Fits(units[p])
  BY DEF ExactInv, ContainedInv, PidInv, TablesInv, SenderInv
<1>2. DOMAIN delivered[p] = 1..Len(delivered[p])
  <2>1. PICK S : delivered[p] \in Seq(S)
    BY <1>1 DEF Exact, IsSeq
  <2> QED
    BY <2>1
<1>3. ASSUME NEW i \in DOMAIN delivered[p] PROVE Table(p, i) = AllOf(p, units[p], i)
  <2>1. Holds(p, units[p], delivered[p][i].raw, i)
    BY <1>1, <1>2 DEF Exact
  <2>2. IsIntact(p, i, i)
    BY <1>1, <2>1, HoldsTable
  <2> QED
    BY <2>2 DEF IsIntact, AllOf
<1> QED
  BY <1>2, <1>3 DEF TablesGiven, TablesOf

\* A step of the packets is one of the service, or none.
LEMMA StepIsServed ==
  ASSUME TablesInv, TablesInv', ContainedInv, ContainedInv', ExactInv, ExactInv',
         NEW p \in Pids, PacketOf(p), Tidy(p)' => Served(p)
  PROVE  Service!Next
<1> DEFINE s == [q \in Pids |-> [u \in DOMAIN units[q] |-> Unit(q, u)]]
           d == [q \in Pids |-> [i \in DOMAIN delivered[q] |-> Table(q, i)]]
           h == IF faults > 0 THEN Pids ELSE {q \in Pids : damaged[q] \cup Ignored(q) # {}}
<1>1. \A q \in Pids : s[q] = SentUnits(q, units[q]) /\ s'[q] = SentUnits(q, units'[q])
  BY DEF SentUnits, Unit
<1>2. /\ faults \in Nat /\ faults' \in Nat
      /\ \A q \in Pids : (q \in h <=> ~Tidy(q)) /\ (q \in h' <=> ~Tidy(q)')
  BY DEF ExactInv, Tidy
<1>3. \A q \in Pids \ {p} : Tidy(q)' => Tidy(q)
  <2> SUFFICES ASSUME NEW q \in Pids \ {p}, Tidy(q)' PROVE Tidy(q)
    OBVIOUS
  <2>1. units'[q] = units[q] /\ damaged'[q] = damaged[q]
    BY DEF PacketOf, OthersRest, DamageStays
  <2>2. (faults' = faults \/ faults' = faults + 1) /\ faults' = 0
    BY DEF PacketOf, Tidy
  <2>3. faults = 0
    BY <1>2, <2>2
  <2> QED
    BY <2>1, <2>3 DEF Tidy, Ignored
<1>4. h \subseteq h'
  <2>1. \A q \in Pids : Tidy(q)' => Tidy(q)
    BY <1>3 DEF Served
  <2>2. h \subseteq Pids
    OBVIOUS
  <2> HIDE DEF h
  <2> QED
    BY <1>2, <2>1, <2>2
<1>5. Service!OthersKeep(p)
  <2>1. ASSUME NEW q \in Pids \ {p} PROVE s'[q] = s[q] /\ d'[q] = d[q]
    <3>1. units'[q] = units[q] /\ delivered'[q] = delivered[q]
      BY DEF PacketOf, OthersRest
    <3>2. s'[q] = s[q]
      BY <3>1 DEF Unit
    <3>3. ASSUME NEW i \in DOMAIN delivered[q] PROVE Table(q, i)' = Table(q, i)
      BY <3>1 DEF Table
    <3>4. d'[q] = d[q]
      BY <3>1, <3>3
    <3> QED
      BY <3>2, <3>4
  <2> QED
    BY <2>1 DEF Service!OthersKeep
<1>6. CASE ~Tidy(p)'
  <2>1. Service!Harm(p)
    BY <1>2, <1>6 DEF Service!Harm, h
  <2> QED
    BY <1>4, <1>5, <2>1 DEF Service!Next, h
<1>7. CASE Tidy(p)'
  <2> DEFINE list == units[p]
             new == units'[p]
             out == delivered[p]
             more == delivered'[p]
             n == Len(out)
             m == Len(more)
  <2>1. TablesGiven(p) /\ TablesGiven(p)'
    <3>1. Tidy(p)
      BY <1>7 DEF Served
    <3>2. TidyGiven /\ TidyGiven'
      BY ExactMeans, PTL
    <3> QED
      BY <1>7, <3>1, <3>2 DEF TidyGiven
  <2>2. /\ s[p] = SentUnits(p, list) /\ s'[p] = SentUnits(p, new)
        /\ d[p] = TablesOf(p, list, n) /\ d'[p] = TablesOf(p, new, m)
    BY <1>1, <2>1 DEF TablesGiven
  <2>3. /\ Exact(p, list, out) /\ Exact(p, new, more) /\ Longer(out, more) /\ Grown(list, new)
        /\ \/ Begun(list, new)
           \/ list # <<>> /\ n < Len(list) /\ \E k \in Nat : GrownBy(list, new, k)
    BY <1>7 DEF Served, ExactInv
  <2>4. /\ list \in Seq(UnitRecord) /\ new \in Seq(UnitRecord) /\ Fits(list) /\ Fits(new)
    BY DEF TablesInv, SenderInv, ContainedInv, PidInv
  <2>5. n \in Nat /\ m \in Nat /\ n <= m /\ n = OverOf(list) /\ m = OverOf(new)
    <3>1. Len(list) \in Nat /\ Len(new) \in Nat /\ IsSeq(out) /\ IsSeq(more)
      BY <2>3, <2>4 DEF Exact
    <3>2. Len(out) \in Nat /\ Len(more) \in Nat
      BY <3>1 DEF IsSeq
    <3> QED
      BY <2>3, <3>2 DEF Exact, Longer
  <2> HIDE DEF list, new, out, more, n, m
  <2>6. /\ IsPrefix(TablesOf(p, list, n), TablesOf(p, new, m))
        /\ IsPrefix(TablesOf(p, new, m), SentUnits(p, new))
        /\ Len(TablesOf(p, list, n)) = n /\ Len(TablesOf(p, new, m)) = m
        /\ m >= Len(SentUnits(p, new)) - 1
    BY <2>3, <2>4, <2>5, TablesAreSent, TablesGrow
  <2>7. Service!Deliver(p)
    <3> HIDE DEF s, d
    <3>1. IsPrefix(d[p], d'[p]) /\ IsPrefix(d'[p], s'[p]) /\ Len(d'[p]) >= Len(s'[p]) - 1
      BY <2>2, <2>6
    <3> QED
      BY <3>1 DEF Service!Deliver, Service!IsPrefix, IsPrefix, s, d
  <2>8. CASE Begun(list, new)
    <3> HIDE DEF s, d
    <3>1. s'[p] # <<>> /\ Front(s'[p]) = s[p]
      BY <2>2, <2>4, <2>8, BegunMeans
    <3>2. Service!Begin(p)
      BY <3>1 DEF Service!Begin, Service!Front, Front, s
    <3> QED
      BY <1>4, <1>5, <2>7, <3>2 DEF Service!Next, h
  <2>9. CASE list # <<>> /\ n < Len(list) /\ \E k \in Nat : GrownBy(list, new, k)
    <3>1. PICK k \in Nat : GrownBy(list, new, k)
      BY <2>9
    <3> HIDE DEF s, d
    <3>2. /\ Len(s[p]) = Len(list) /\ Len(s'[p]) = Len(s[p]) /\ Front(s'[p]) = Front(s[p])
          /\ IsPrefix(Last(s[p]), Last(s'[p]))
      BY <2>2, <2>4, <2>9, <3>1, GrownMeans
    <3>3. Len(d[p]) < Len(s[p])
      BY <2>2, <2>6, <2>9, <3>2
    <3>4. Service!Grow(p)
      BY <3>2, <3>3
         DEF Service!Grow, Service!Front, Service!IsPrefix, Service!Last,
             Front, IsPrefix, Last, s, d
    <3> QED
      BY <1>4, <1>5, <2>7, <3>4 DEF Service!Next, h
  <2> QED
    BY <2>3, <2>8, <2>9
<1> QED
  BY <1>6, <1>7

\* Until the first fault, split header or tail on a PID, and for any number and
\* size of sections: collectTable and demux hand out every table of a PID whose
\* tables are all called back whole, in order, once, and as soon as its last
\* packet has arrived.
THEOREM AlwaysDeliversTables == Spec => DeliversTables
<1> DEFINE Inv == TablesInv /\ ContainedInv /\ ExactInv
<1>1. Init => Inv
  BY InitHasTables, InitIsContained, InitIsExact
<1>2. Inv /\ [Next]_vars => Inv'
  BY NextKeepsTables, NextContains, NextKeepsExact
<1>3. Init => Service!Init
  BY DEF Init, InitSender, InitChannel, Service!Init, Ignored
<1>4. Inv /\ Inv' /\ [Next]_vars => [Service!Next]_(Service!vars)
  <2> SUFFICES ASSUME Inv, Inv', [Next]_vars PROVE [Service!Next]_(Service!vars)
    OBVIOUS
  <2>1. CASE UNCHANGED vars
    BY <2>1 DEF vars, sender, receiver, channel, Service!vars, Unit, Table, Ignored
  <2>2. ASSUME NEW p \in Pids, SendStart(p) \/ SendMore(p) \/ RepeatPacket(p) \/ SendAdaptation(p)
        PROVE  Service!Next
    <3>1. PacketOf(p) /\ (StartMeans(p) \/ MoreMeans(p) \/ StillMeans(p))
      BY <2>2, StepContains
    <3>2. Tidy(p)' => Served(p)
      BY <3>1, StepIsExact
    <3> QED
      BY <3>1, <3>2, StepIsServed
  <2> QED
    BY <2>1, <2>2 DEF Next
<1> QED
  BY <1>1, <1>2, <1>3, <1>4, PTL DEF Spec, DeliversTables, Service!Spec
=============================================================================
