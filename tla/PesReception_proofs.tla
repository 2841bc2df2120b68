------------------------ MODULE PesReception_proofs -------------------------
(***************************************************************************)
(* For every number of PIDs, size of packets and PES packets, and number   *)
(* of faults: what collectPes holds or returns begins with the first byte  *)
(* of a PES packet and carries the PES_packet_length of that very packet;  *)
(* its continuity errors are the gaps that can be seen; it implements the  *)
(* service UnitDelivery; a fault hurts no PES packet but the ones it       *)
(* touches; the origin of a callback is that of the packet that brought it *)
(* about; loss makes no disorder; the members of the parser keep their     *)
(* types; and the statistics of a PID are those of what came.              *)
(*                                                                         *)
(* Knowledge about a PES packet or a TS packet is relative to the list of  *)
(* units sent on its PID so far, which only grows.                         *)
(***************************************************************************)
EXTENDS PesReception, TsSender_proofs, FiniteSetTheorems

\* `cell` is the first one of a unit of the list, and `head` its header.
StartsUnit(list, p, cell, head) ==
  \E u \in DOMAIN list : cell = <<p, u, 1>> /\ list[u].head = head

\* A PES packet under collection or returned.
HeadedPes(list, p, pes) ==
  /\ pes \in PesRecord /\ pes.mPesBuffer # <<>>
  /\ \E head \in Heads : /\ StartsUnit(list, p, pes.mPesBuffer[1], head)
                         /\ pes.PES_packet_length = head.PES_packet_length

\* A TS packet that can arrive: its payload is where the parser looks for it,
\* and on a unit start it is that of a unit of the list.
ParsablePacket(list, p, pkt) ==
  /\ pkt.pid = p
  /\ pkt.bytes \in Seq(Cell) /\ Len(pkt.bytes) = TsPacketSize
  /\ Offset(pkt) \in 0..(TsPacketSize - 1)
  /\ pkt.payload_unit_start_indicator \in BOOLEAN
  /\ pkt.payload_unit_start_indicator =>
       pkt.head \in Heads /\ StartsUnit(list, p, pkt.bytes[Offset(pkt) + 1], pkt.head)

CollectorInv == /\ mPesPacket \in [Pids -> PesRecord]
                /\ \A p \in Pids : mPesPacket[p] # NoPes => HeadedPes(units[p], p, mPesPacket[p])
DeliveredInv == /\ DOMAIN delivered = Pids
                /\ \A p \in Pids : /\ IsSeq(delivered[p])
                                   /\ \A i \in DOMAIN delivered[p] :
                                        HeadedPes(units[p], p, delivered[p][i].pes)
ChannelInv   == /\ DOMAIN lastPacket = Pids
                /\ \A p \in Pids : lastPacket[p] # NoPacket =>
                                     ParsablePacket(units[p], p, lastPacket[p])

\* The inductive invariant: a packet that may be repeated is part of it,
\* because a repeated unit start begins a PES packet anew.
HeadInv == SenderInv /\ CollectorInv /\ DeliveredInv /\ ChannelInv

-----------------------------------------------------------------------------
(* Sequences and growing lists *)

LEMMA HeadedGrows ==
  ASSUME NEW old, NEW new, Grown(old, new), NEW p, NEW pes, HeadedPes(old, p, pes)
  PROVE  HeadedPes(new, p, pes)
BY DEF Grown, HeadedPes, StartsUnit

LEMMA ParsableGrows ==
  ASSUME NEW old, NEW new, Grown(old, new), NEW p, NEW pkt, ParsablePacket(old, p, pkt)
  PROVE  ParsablePacket(new, p, pkt)
BY DEF Grown, ParsablePacket, StartsUnit

-----------------------------------------------------------------------------
(* The collector *)

\* What both kinds of packet leave in the buffer.
LEMMA CopiedBytes ==
  ASSUME NEW list, NEW p, NEW pkt, ParsablePacket(list, p, pkt)
  PROVE  LET info == parseTsPacketInfo(pkt)
             copied == BytesFrom(pkt, info.payloadStartOffset)
         IN  /\ info.pid = p /\ info.isPayloadStart = pkt.payload_unit_start_indicator
             /\ copied \in Seq(Cell) /\ Len(copied) \in Nat \ {0}
             /\ copied[1] = pkt.bytes[Offset(pkt) + 1]
<1>1. /\ Offset(pkt) \in Nat /\ Offset(pkt) < TsPacketSize /\ TsPacketSize \in Nat
      /\ pkt.bytes \in Seq(Cell) /\ TsPacketSize = Len(pkt.bytes)
  BY PacketAssumption DEF ParsablePacket
<1>2. /\ SubSeq(pkt.bytes, Offset(pkt) + 1, TsPacketSize) \in Seq(Cell)
      /\ Len(SubSeq(pkt.bytes, Offset(pkt) + 1, TsPacketSize)) = TsPacketSize - Offset(pkt)
      /\ SubSeq(pkt.bytes, Offset(pkt) + 1, TsPacketSize)[1] = pkt.bytes[Offset(pkt) + 1]
  BY <1>1, SuffixType
<1>3. parseTsPacketInfo(pkt).pid = p
  BY DEF parseTsPacketInfo, ParsablePacket
<1>4. parseTsPacketInfo(pkt).isPayloadStart = pkt.payload_unit_start_indicator
  BY DEF parseTsPacketInfo
<1> DEFINE copied == BytesFrom(pkt, parseTsPacketInfo(pkt).payloadStartOffset)
<1>5. copied = SubSeq(pkt.bytes, Offset(pkt) + 1, TsPacketSize)
  BY DEF Offset, BytesFrom
<1> HIDE DEF copied
<1>6. copied \in Seq(Cell) /\ Len(copied) \in Nat \ {0} /\ copied[1] = pkt.bytes[Offset(pkt) + 1]
  BY <1>1, <1>2, <1>5
<1> QED
  BY <1>3, <1>4, <1>6 DEF copied

\* A PES packet that starts has the header of the unit that starts.
LEMMA StartedIsHeaded ==
  ASSUME NEW list, NEW p, NEW head \in Heads, NEW bytes \in Seq(Cell), Len(bytes) # 0,
         StartsUnit(list, p, bytes[1], head)
  PROVE  HeadedPes(list, p, parsePesPacket(head, bytes))
<1> DEFINE pes == parsePesPacket(head, bytes)
<1>1. head \in [PES_packet_length : Nat, PES_has_optional_header : BOOLEAN,
                PTS_DTS_flags : 0..3, pts : Nat, dts : Nat]
  BY PesHeadsAssumption
<1>2. NoTime \in Int
  BY DEF NoTime
<1>3. pes \in PesRecord
  BY <1>1, <1>2 DEF parsePesPacket, PesRecord
<1>4. pes.mPesBuffer = bytes /\ pes.PES_packet_length = head.PES_packet_length
  BY DEF parsePesPacket
<1>5. bytes # <<>>
  OBVIOUS
<1> HIDE DEF pes
<1>6. HeadedPes(list, p, pes)
  BY <1>3, <1>4, <1>5 DEF HeadedPes
<1> QED
  BY <1>6 DEF pes

\* Appending leaves the head of a PES packet alone.
LEMMA ExtendedIsHeaded ==
  ASSUME NEW list, NEW p, NEW pes, HeadedPes(list, p, pes), NEW bytes \in Seq(Cell)
  PROVE  HeadedPes(list, p, Extended(pes, bytes))
<1> DEFINE all == pes.mPesBuffer \o bytes
<1>1. pes \in PesRecord /\ pes.mPesBuffer \in Seq(Cell) /\ pes.mPesBuffer # <<>>
  BY DEF HeadedPes, PesRecord
<1>2. all \in Seq(Cell) /\ all # <<>> /\ all[1] = pes.mPesBuffer[1]
  BY <1>1
<1>3. Extended(pes, bytes) = [pes EXCEPT !.mPesBuffer = all]
  BY DEF Extended
<1> HIDE DEF all
<1>4. /\ Extended(pes, bytes) \in PesRecord
      /\ Extended(pes, bytes).mPesBuffer = all
      /\ Extended(pes, bytes).PES_packet_length = pes.PES_packet_length
  BY <1>1, <1>2, <1>3 DEF PesRecord
<1> QED
  BY <1>2, <1>4 DEF HeadedPes

\* collectPes: what it keeps and what it returns is headed, and it leaves the
\* packets of other PIDs alone.
LEMMA CollectKeepsHeads ==
  ASSUME CollectorInv, NEW p \in Pids, NEW list, Grown(units[p], list),
         NEW pkt, ParsablePacket(list, p, pkt), NEW origin,
         collectPes(pkt, parseTsPacketInfo(pkt), origin)
  PROVE  /\ mPesPacket' \in [Pids -> PesRecord]
         /\ mPesPacket'[p] # NoPes => HeadedPes(list, p, mPesPacket'[p])
         /\ \A q \in Pids \ {p} : mPesPacket'[q] = mPesPacket[q]
         /\ pesOut' # NoPes => HeadedPes(list, p, pesOut')
<1> DEFINE info == parseTsPacketInfo(pkt)
           copied == BytesFrom(pkt, info.payloadStartOffset)
<1>1. /\ info.pid = p /\ info.isPayloadStart = pkt.payload_unit_start_indicator
      /\ copied \in Seq(Cell) /\ Len(copied) # 0
      /\ copied[1] = pkt.bytes[Offset(pkt) + 1]
  BY CopiedBytes
<1>2. mPesPacket \in [Pids -> PesRecord]
  BY DEF CollectorInv
<1>3. mPesPacket[p] # NoPes => HeadedPes(list, p, mPesPacket[p])
  BY HeadedGrows DEF CollectorInv
<1>4. NoPes \in PesRecord
  <2>1. <<>> \in Seq(Cell) /\ 0 \in Nat /\ 0 \in Int
    OBVIOUS
  <2> QED
    BY <2>1 DEF NoPes, PesRecord
<1>5. StartPes(pkt, info) \/ IgnorePes(info) \/ AppendPes(pkt, info)
  BY DEF collectPes
<1> HIDE DEF info, copied
<1>6. CASE StartPes(pkt, info)
  <2> DEFINE new == parsePesPacket(pkt.head, copied)
  <2>1. /\ info.isPayloadStart
        /\ mPesPacket' = [mPesPacket EXCEPT ![p] = new]
        /\ pesOut' = mPesPacket[p] \/ pesOut' = NoPes
    BY <1>6, <1>1 DEF StartPes, copied
  <2>2. pkt.head \in Heads /\ StartsUnit(list, p, copied[1], pkt.head)
    BY <2>1, <1>1 DEF ParsablePacket
  <2>3. HeadedPes(list, p, new)
    BY <2>2, <1>1, StartedIsHeaded
  <2>4. new \in PesRecord
    BY <2>3 DEF HeadedPes
  <2> HIDE DEF new
  <2> QED
    BY <2>1, <2>3, <2>4, <1>2, <1>3
<1>7. CASE IgnorePes(info)
  BY <1>7, <1>2, <1>3 DEF IgnorePes
<1>8. CASE AppendPes(pkt, info)
  <2> DEFINE longer == Extended(mPesPacket[p], copied)
  <2>1. /\ mPesPacket[p] # NoPes
        /\ mPesPacket' = [mPesPacket EXCEPT ![p] = Remaining(longer)]
        /\ pesOut' = longer \/ pesOut' = NoPes
    BY <1>8, <1>1 DEF AppendPes, Started, copied
  <2>2. HeadedPes(list, p, longer)
    BY <2>1, <1>1, <1>3, ExtendedIsHeaded
  <2>3. longer \in PesRecord
    BY <2>2 DEF HeadedPes
  <2> HIDE DEF longer
  <2>4. Remaining(longer) = NoPes \/ Remaining(longer) = longer
    BY DEF Remaining
  <2> QED
    BY <2>1, <2>2, <2>3, <2>4, <1>2, <1>4
<1> QED
  BY <1>5, <1>6, <1>7, <1>8

-----------------------------------------------------------------------------
(* The steps *)

\* A packet that arrives on p, when only the list of p grows.
LEMMA ArriveKeepsHeads ==
  ASSUME SenderInv, CollectorInv, DeliveredInv,
         NEW p \in Pids, Grown(units[p], units'[p]), \A q \in Pids \ {p} : units'[q] = units[q],
         NEW pkt, ParsablePacket(units'[p], p, pkt), NEW step, Arrive(p, pkt, step)
  PROVE  CollectorInv' /\ DeliveredInv'
<1> DEFINE info == parseTsPacketInfo(pkt)
           call == [pes |-> pesOut', origin |-> mOrigins'[p], byLength |-> ~info.isPayloadStart]
<1>1. collectPes(pkt, info, Position(p))
  BY DEF Arrive
<1>2. /\ mPesPacket' \in [Pids -> PesRecord]
      /\ mPesPacket'[p] # NoPes => HeadedPes(units'[p], p, mPesPacket'[p])
      /\ \A q \in Pids \ {p} : mPesPacket'[q] = mPesPacket[q]
      /\ pesOut' # NoPes => HeadedPes(units'[p], p, pesOut')
  BY <1>1, CollectKeepsHeads
<1>3. CollectorInv'
  BY <1>2 DEF CollectorInv
<1>4. DOMAIN delivered = Pids
  BY DEF DeliveredInv
<1>5. \A i \in DOMAIN delivered[p] : HeadedPes(units'[p], p, delivered[p][i].pes)
  BY HeadedGrows DEF DeliveredInv
<1>6. CASE pesOut' = NoPes
  <2>1. delivered' = delivered
    BY <1>6 DEF Arrive
  <2> QED
    BY <2>1, <1>3, <1>4, <1>5 DEF DeliveredInv
<1>7. CASE pesOut' # NoPes
  <2>1. delivered' = [delivered EXCEPT ![p] = Append(@, call)]
    BY <1>7 DEF Arrive
  <2>2. call.pes = pesOut'
    OBVIOUS
  <2> HIDE DEF call
  <2>3. IsSeq(delivered[p])
    BY DEF DeliveredInv
  <2> DEFINE new == Append(delivered[p], call)
  <2>4. IsSeq(new) /\ \A i \in DOMAIN new : HeadedPes(units'[p], p, new[i].pes)
    <3>1. /\ IsSeq(new) /\ DOMAIN new = 1..(Len(delivered[p]) + 1)
          /\ DOMAIN delivered[p] = 1..Len(delivered[p]) /\ Len(delivered[p]) \in Nat
          /\ new[Len(delivered[p]) + 1] = call
          /\ \A i \in DOMAIN delivered[p] : new[i] = delivered[p][i]
      BY <2>3, AppendIsSeq
    <3> HIDE DEF new
    <3>2. ASSUME NEW i \in DOMAIN new PROVE HeadedPes(units'[p], p, new[i].pes)
      <4>1. CASE i \in DOMAIN delivered[p]
        BY <4>1, <3>1, <1>5
      <4>2. CASE i = Len(delivered[p]) + 1
        BY <4>2, <3>1, <2>2, <1>2, <1>7
      <4> QED
        BY <3>1, <4>1, <4>2
    <3> QED
      BY <3>1, <3>2
  <2> HIDE DEF new
  <2>5. DOMAIN delivered' = Pids /\ delivered'[p] = new
        /\ \A q \in Pids \ {p} : delivered'[q] = delivered[q]
    BY <2>1, <1>4 DEF new
  <2> QED
    BY <2>4, <2>5, <1>3 DEF DeliveredInv
<1> QED
  BY <1>3, <1>6, <1>7

LEMMA SizesAreNumbers ==
  ASSUME NEW head \in Heads
  PROVE  /\ PesSize(head) \in Nat /\ MaxPayload \in Nat /\ PesHeaderSize \in Nat \ {0}
         /\ \A m \in Int : SizeOrLess(MaxPayload, m) \in Int /\ SizeOrLess(MaxPayload, m) <= MaxPayload
<1>1. head.PES_packet_length \in Nat
  BY PesHeadsAssumption
<1>2. MaxPayload \in Nat /\ PesHeaderSize \in Nat \ {0}
  BY PacketAssumption, PesHeaderAssumption DEF MaxPayload
<1>3. PesSize(head) \in Nat
  BY <1>1, <1>2, PesHeadsAssumption DEF PesSize
<1>4. ASSUME NEW m \in Int
      PROVE  SizeOrLess(MaxPayload, m) \in Int /\ SizeOrLess(MaxPayload, m) <= MaxPayload
  BY <1>2, <1>4 DEF SizeOrLess
<1> QED
  BY <1>2, <1>3, <1>4

\* Nothing that was known is lost when a list grows.
LEMMA GrowthKeepsHeads ==
  ASSUME NEW p \in Pids, OnlyGrows(p)
  PROVE  /\ CollectorInv /\ UNCHANGED mPesPacket => CollectorInv'
         /\ DeliveredInv /\ UNCHANGED delivered => DeliveredInv'
         /\ ChannelInv => \A q \in Pids : lastPacket[q] # NoPacket =>
                             ParsablePacket(units'[q], q, lastPacket[q])
<1>1. \A q \in Pids : Grown(units[q], units'[q])
  BY DEF OnlyGrows, Grown
<1>2. ASSUME CollectorInv, UNCHANGED mPesPacket PROVE CollectorInv'
  BY <1>1, <1>2, HeadedGrows DEF CollectorInv
<1>3. ASSUME DeliveredInv, UNCHANGED delivered PROVE DeliveredInv'
  BY <1>1, <1>3, HeadedGrows DEF DeliveredInv
<1>4. ASSUME ChannelInv, NEW q \in Pids, lastPacket[q] # NoPacket
      PROVE  ParsablePacket(units'[q], q, lastPacket[q])
  BY <1>1, <1>4, ParsableGrows DEF ChannelInv
<1> QED
  BY <1>2, <1>3, <1>4

LEMMA TransferKeepsHeads ==
  ASSUME HeadInv, NEW p \in Pids, OnlyGrows(p),
         NEW pkt, ParsablePacket(units'[p], p, pkt), Transfer(p, pkt)
  PROVE  HeadInv'
<1>1. lastPacket' = [lastPacket EXCEPT ![p] = pkt]
  BY DEF Transfer, Remember
<1>2. ChannelInv'
  BY <1>1, GrowthKeepsHeads DEF ChannelInv, HeadInv
<1>3. SenderInv'
  BY DEF OnlyGrows
<1>4. CollectorInv' /\ DeliveredInv'
  <2>1. CASE Arrive(p, pkt, 1)
    BY <2>1, ArriveKeepsHeads DEF HeadInv, OnlyGrows
  <2>2. CASE UNCHANGED <<receiver, delivered>>
    BY <2>2, GrowthKeepsHeads DEF HeadInv, receiver
  <2> QED
    BY <2>1, <2>2 DEF Transfer
<1> QED
  BY <1>2, <1>3, <1>4 DEF HeadInv

LEMMA SendStartKeepsHeads ==
  ASSUME HeadInv, NEW p \in Pids, SendStart(p)
  PROVE  HeadInv'
<1>1. PICK head \in Heads, flags \in AfFlags :
        \E n \in PesHeaderSize..SizeOrLess(MaxPayload, PesSize(head)) :
          /\ BeginUnit(p, 0, head, n)
          /\ Transfer(p, PayloadPacket(p, TRUE, flags, head, Cells(p, CurrentUnit(p) + 1, 1, n)))
  BY DEF SendStart
<1>2. PICK n \in PesHeaderSize..SizeOrLess(MaxPayload, PesSize(head)) :
        /\ BeginUnit(p, 0, head, n)
        /\ Transfer(p, PayloadPacket(p, TRUE, flags, head, Cells(p, CurrentUnit(p) + 1, 1, n)))
  BY <1>1
<1>3. n \in Nat /\ n >= 1 /\ n <= MaxPayload
  <2>1. SizeOrLess(MaxPayload, PesSize(head)) \in Int
        /\ SizeOrLess(MaxPayload, PesSize(head)) <= MaxPayload
    BY SizesAreNumbers
  <2> QED
    BY <2>1, SizesAreNumbers
<1> DEFINE u == CurrentUnit(p) + 1
           payload == Cells(p, u, 1, n)
           start == TRUE
           pkt == PayloadPacket(p, start, flags, head, payload)
<1>4. OnlyGrows(p) /\ u \in DOMAIN units'[p] /\ units'[p][u].head = head
  <2> DEFINE tail == 0
  <2>1. tail \in Nat /\ tail = 0 /\ BeginUnit(p, tail, head, n)
    BY <1>2
  <2> HIDE DEF tail
  <2>2. /\ OnlyGrows(p) /\ CurrentUnit(p) \in Nat
        /\ DOMAIN units'[p] = 1..(CurrentUnit(p) + 1)
        /\ units'[p][CurrentUnit(p) + 1] = [head |-> head, sent |-> n]
    BY <2>1, <1>3, BeginGrows DEF HeadInv
  <2> QED
    BY <2>2
<1>5. u \in Nat
  <2>1. units[p] \in Seq(UnitRecord)
    BY DEF HeadInv, SenderInv
  <2> QED
    BY <2>1 DEF CurrentUnit
<1>6. Transfer(p, pkt)
  BY <1>2
<1> HIDE DEF u
<1>7. payload \in Seq(Cell) /\ Len(payload) = n /\ payload[1] = <<p, u, 1>>
  <2>1. IsRun(payload, p, u, 1, n)
    <3>1. n \in Nat /\ 1 \in Nat /\ n - 1 + 1 = n
      BY <1>3
    <3> QED
      BY <1>5, <3>1, CellsRun, Zenon
  <2> HIDE DEF payload
  <2> QED
    BY <1>3, <2>1 DEF IsRun
<1>8. Len(payload) \in 1..MaxPayload /\ flags \in AfFlags \cup {Plain} /\ start \in BOOLEAN
  BY <1>3, <1>7, SizesAreNumbers
<1> HIDE DEF payload, start
<1>9. /\ pkt.pid = p /\ pkt.payload_unit_start_indicator = start /\ pkt.head = head
      /\ pkt.bytes \in Seq(Cell) /\ Len(pkt.bytes) = TsPacketSize
      /\ Offset(pkt) = TsPacketSize - Len(payload)
      /\ \A i \in DOMAIN payload : pkt.bytes[Offset(pkt) + i] = payload[i]
  BY <1>7, <1>8, PayloadIsFound
<1>10. Offset(pkt) \in 0..(TsPacketSize - 1)
  <2>1. TsPacketSize \in Nat /\ MaxPayload <= TsPacketSize
    BY PacketAssumption DEF MaxPayload
  <2> QED
    BY <1>8, <1>9, <2>1, SizesAreNumbers
<1> HIDE DEF pkt
<1>11. StartsUnit(units'[p], p, pkt.bytes[Offset(pkt) + 1], head)
  <2>1. 1 \in DOMAIN payload
    BY <1>7, <1>8
  <2> QED
    BY <2>1, <1>4, <1>7, <1>9 DEF StartsUnit
<1>12. ParsablePacket(units'[p], p, pkt)
  BY <1>8, <1>9, <1>10, <1>11 DEF ParsablePacket
<1> QED
  BY <1>4, <1>6, <1>12, TransferKeepsHeads

LEMMA SendMoreKeepsHeads ==
  ASSUME HeadInv, NEW p \in Pids, SendMore(p)
  PROVE  HeadInv'
<1> DEFINE unit == Last(units[p])
           u == CurrentUnit(p)
<1>1. units[p] # <<>> /\ units[p] \in Seq(UnitRecord) /\ unit \in UnitRecord
      /\ u \in Nat
  <2>1. units[p] # <<>> /\ units[p] \in Seq(UnitRecord)
    BY DEF SendMore, HeadInv, SenderInv
  <2>2. Len(units[p]) \in DOMAIN units[p] /\ Len(units[p]) \in Nat
    BY <2>1
  <2> QED
    BY <2>1, <2>2 DEF Last, CurrentUnit
<1>2. unit.head \in Heads /\ unit.sent \in Nat
  BY <1>1 DEF UnitRecord
<1>3. PICK flags \in AfFlags, n \in 1..SizeOrLess(MaxPayload, PesSize(unit.head) - unit.sent) :
        /\ ResumeUnit(p, n)
        /\ Transfer(p, PayloadPacket(p, FALSE, flags, unit.head,
                                     Cells(p, u, unit.sent + 1, unit.sent + n)))
  BY DEF SendMore
<1> HIDE DEF unit, u
<1>4. n \in Nat /\ n >= 1 /\ n <= MaxPayload
  <2>1. PesSize(unit.head) - unit.sent \in Int
    BY <1>2, SizesAreNumbers
  <2> DEFINE room == SizeOrLess(MaxPayload, PesSize(unit.head) - unit.sent)
  <2>2. room \in Int /\ room <= MaxPayload
    BY <1>2, <2>1, SizesAreNumbers
  <2> HIDE DEF room
  <2>3. n \in 1..room
    BY DEF room
  <2> QED
    BY <2>2, <2>3, <1>2, SizesAreNumbers
<1> DEFINE payload == Cells(p, u, unit.sent + 1, unit.sent + n)
           start == FALSE
           head == unit.head
           pkt == PayloadPacket(p, start, flags, head, payload)
<1>5. OnlyGrows(p)
  BY <1>1, <1>3, <1>4, ResumeGrows DEF HeadInv
<1>6. Transfer(p, pkt)
  BY <1>3
<1>7. payload \in Seq(Cell) /\ Len(payload) = n
  <2> DEFINE first == unit.sent + 1
             last == unit.sent + n
  <2>1. first \in Nat /\ last \in Nat /\ n \in Nat /\ last - first + 1 = n
    BY <1>2, <1>4
  <2> HIDE DEF first, last
  <2>2. IsRun(Cells(p, u, first, last), p, u, first, n)
    BY <1>1, <2>1, CellsRun, Zenon
  <2> QED
    BY <2>2 DEF IsRun, first, last
<1>8. Len(payload) \in 1..MaxPayload /\ flags \in AfFlags \cup {Plain} /\ start \in BOOLEAN
  BY <1>2, <1>4, <1>7, SizesAreNumbers
<1>start. start = FALSE
  OBVIOUS
<1> HIDE DEF payload, start, head
<1>9. /\ pkt.pid = p /\ pkt.payload_unit_start_indicator = start
      /\ pkt.bytes \in Seq(Cell) /\ Len(pkt.bytes) = TsPacketSize
      /\ Offset(pkt) = TsPacketSize - Len(payload)
  BY <1>7, <1>8, PayloadIsFound
<1>10. Offset(pkt) \in 0..(TsPacketSize - 1)
  <2>1. TsPacketSize \in Nat /\ MaxPayload <= TsPacketSize /\ MaxPayload \in Nat
    BY PacketAssumption DEF MaxPayload
  <2> QED
    BY <1>8, <1>9, <2>1
<1> HIDE DEF pkt
<1>11. ParsablePacket(units'[p], p, pkt)
  BY <1>8, <1>9, <1>10, <1>start DEF ParsablePacket
<1> QED
  BY <1>5, <1>6, <1>11, TransferKeepsHeads

\* A packet that arrives while the sender stands still.
LEMMA StillArrivalKeepsHeads ==
  ASSUME HeadInv, UNCHANGED units, NEW p \in Pids,
         NEW pkt, ParsablePacket(units[p], p, pkt), Arrive(p, pkt, 0)
  PROVE  SenderInv' /\ CollectorInv' /\ DeliveredInv'
<1>1. Grown(units[p], units'[p]) /\ \A q \in Pids \ {p} : units'[q] = units[q]
  BY DEF Grown
<1>2. ParsablePacket(units'[p], p, pkt)
  OBVIOUS
<1> QED
  BY <1>1, <1>2, ArriveKeepsHeads DEF HeadInv, SenderInv

LEMMA RepeatKeepsHeads ==
  ASSUME HeadInv, NEW p \in Pids, RepeatPacket(p)
  PROVE  HeadInv'
<1>1. /\ lastPacket[p] # NoPacket /\ lastPacket' = [lastPacket EXCEPT ![p] = NoPacket]
      /\ units' = units /\ Arrive(p, lastPacket[p], 0)
  BY DEF RepeatPacket, Repeatable, Remember, sender
<1>2. ParsablePacket(units[p], p, lastPacket[p])
  BY <1>1 DEF HeadInv, ChannelInv
<1>3. SenderInv' /\ CollectorInv' /\ DeliveredInv'
  BY <1>1, <1>2, StillArrivalKeepsHeads
<1>4. ChannelInv'
  BY <1>1 DEF HeadInv, ChannelInv
<1> QED
  BY <1>3, <1>4 DEF HeadInv

LEMMA AdaptationKeepsHeads ==
  ASSUME HeadInv, NEW p \in Pids, SendAdaptation(p)
  PROVE  HeadInv'
<1>1. PICK flags \in AfFlags : Arrive(p, AdaptationPacket(p, flags), 0)
  BY DEF SendAdaptation
<1> DEFINE pkt == AdaptationPacket(p, flags)
<1>2. units' = units /\ lastPacket' = lastPacket
  BY DEF SendAdaptation, sender
<1>3. /\ pkt.pid = p /\ pkt.payload_unit_start_indicator = FALSE
      /\ pkt.bytes \in Seq(Cell) /\ Len(pkt.bytes) = TsPacketSize
      /\ Offset(pkt) = 0
  BY NoPayloadIsWholePacket
<1> HIDE DEF pkt
<1>4. ParsablePacket(units[p], p, pkt)
  <2>1. 0 \in 0..(TsPacketSize - 1)
    BY PacketAssumption
  <2>2. pkt.payload_unit_start_indicator \in BOOLEAN /\ ~pkt.payload_unit_start_indicator
    BY <1>3
  <2> QED
    BY <1>3, <2>1, <2>2 DEF ParsablePacket
<1>5. SenderInv' /\ CollectorInv' /\ DeliveredInv'
  BY <1>1, <1>2, <1>4, StillArrivalKeepsHeads DEF pkt
<1>6. ChannelInv'
  BY <1>2 DEF HeadInv, ChannelInv
<1> QED
  BY <1>5, <1>6 DEF HeadInv

-----------------------------------------------------------------------------
(* The theorem *)

LEMMA InitHasHeads == Init => HeadInv
<1> SUFFICES ASSUME Init PROVE HeadInv
  OBVIOUS
<1>1. NoPes \in PesRecord
  <2>1. <<>> \in Seq(Cell) /\ 0 \in Nat /\ 0 \in Int
    OBVIOUS
  <2> QED
    BY <2>1 DEF NoPes, PesRecord
<1>2. SenderInv
  <2>1. <<>> \in Seq(UnitRecord)
    OBVIOUS
  <2> QED
    BY <2>1 DEF Init, InitSender, SenderInv
<1>3. CollectorInv
  BY <1>1 DEF Init, InitPes, CollectorInv
<1>4. DeliveredInv
  <2>1. delivered = [p \in Pids |-> <<>>]
    BY DEF Init
  <2>2. IsSeq(<<>>)
    <3>1. <<>> \in Seq({})
      OBVIOUS
    <3> QED
      BY <3>1 DEF IsSeq
  <2> QED
    BY <2>1, <2>2 DEF DeliveredInv
<1>5. ChannelInv
  BY DEF Init, InitChannel, ChannelInv
<1> QED
  BY <1>2, <1>3, <1>4, <1>5 DEF HeadInv

LEMMA NextKeepsHeads == HeadInv /\ [Next]_vars => HeadInv'
<1> SUFFICES ASSUME HeadInv, [Next]_vars PROVE HeadInv'
  OBVIOUS
<1>1. CASE UNCHANGED vars
  BY <1>1 DEF HeadInv, SenderInv, CollectorInv, DeliveredInv, ChannelInv,
              vars, sender, receiver, channel, history
<1>2. CASE Next
  <2>1. PICK p \in Pids : SendStart(p) \/ SendMore(p) \/ RepeatPacket(p) \/ SendAdaptation(p)
    BY <1>2 DEF Next
  <2>2. CASE SendStart(p)
    BY <2>2, SendStartKeepsHeads
  <2>3. CASE SendMore(p)
    BY <2>3, SendMoreKeepsHeads
  <2>4. CASE RepeatPacket(p)
    BY <2>4, RepeatKeepsHeads
  <2>5. CASE SendAdaptation(p)
    BY <2>5, AdaptationKeepsHeads
  <2> QED
    BY <2>1, <2>2, <2>3, <2>4, <2>5
<1> QED
  BY <1>1, <1>2

LEMMA HeadsSuffice == HeadInv => BeginsWithHeader
<1> SUFFICES ASSUME HeadInv, NEW p \in Pids,
                    NEW pes \in (PesPackets(p) \cup {mPesPacket[p]}) \ {NoPes}
             PROVE  \E u \in DOMAIN units[p] :
                      /\ pes.mPesBuffer[1] = <<p, u, 1>>
                      /\ pes.PES_packet_length = units[p][u].head.PES_packet_length
  BY DEF BeginsWithHeader
<1>1. HeadedPes(units[p], p, pes)
  <2>1. CASE pes \in PesPackets(p)
    BY <2>1 DEF PesPackets, Range, HeadInv, DeliveredInv
  <2>2. CASE pes = mPesPacket[p]
    BY <2>2 DEF HeadInv, CollectorInv
  <2> QED
    BY <2>1, <2>2
<1> QED
  BY <1>1 DEF HeadedPes, StartsUnit

\* Whatever is lost, repeated or put in between, on however many PIDs: every
\* PES packet collectPes holds or has returned begins with the first byte of a
\* PES packet of its PID and has the PES_packet_length of that one.
THEOREM AlwaysBeginsWithHeader == Spec => []BeginsWithHeader
<1>1. Init => HeadInv
  BY InitHasHeads
<1>2. HeadInv /\ [Next]_vars => HeadInv'
  BY NextKeepsHeads
<1>3. HeadInv => BeginsWithHeader
  BY HeadsSuffice
<1> QED
  BY <1>1, <1>2, <1>3, PTL DEF Spec

-----------------------------------------------------------------------------
(* Continuity errors *)

\* What is known of a PID: the last counter the receiver saw is that of the last
\* packet sent before the gap, and the errors are those that could be seen.
CountsOf(stat, counter, lost, seen) ==
  /\ "lastCC" \in DOMAIN stat /\ "numberOfCCErrors" \in DOMAIN stat
  /\ counter \in 0..(CCModulus - 1) /\ lost \in Nat /\ seen \in Nat
  /\ stat.numberOfCCErrors = seen
  /\ stat.lastCC \in 0..(CCModulus - 1) \cup {INVALID_CC}
  /\ stat.lastCC # INVALID_CC => (stat.lastCC + lost) % CCModulus = counter

\* A packet that is repeated has the counter of the last one sent.
CCInv ==
  /\ DOMAIN mPidStatistics = Pids /\ DOMAIN cc = Pids /\ DOMAIN gap = Pids
  /\ DOMAIN gapsSeen = Pids /\ DOMAIN lastPacket = Pids
  /\ \A p \in Pids :
       /\ CountsOf(mPidStatistics[p], cc[p], gap[p], gapsSeen[p])
       /\ lastPacket[p] # NoPacket => lastPacket[p].continuity_counter = cc[p]

\* Of the statistics calls of collectPes only checkCCError touches the counter.
LEMMA OnlyCheckCounts ==
  ASSUME NEW s, "lastCC" \in DOMAIN s, "numberOfCCErrors" \in DOMAIN s, NEW info, NEW out
  PROVE  LET new == PesStatistics(s, info, out)
             seen == s.numberOfCCErrors
         IN  /\ "lastCC" \in DOMAIN new /\ "numberOfCCErrors" \in DOMAIN new
             /\ new.lastCC = info.continuityCounter
             /\ new.numberOfCCErrors = IF CCInSequence(s.lastCC, info.continuityCounter)
                                       THEN seen ELSE seen + 1
<1> DEFINE Same(a, b) == /\ DOMAIN b = DOMAIN a /\ b.lastCC = a.lastCC
                         /\ b.numberOfCCErrors = a.numberOfCCErrors
           checked == checkCCError(s, info.continuityCounter)
           counted == checkTsDiscontinuity(checked, info.hasAdaptationField /\ info.isDiscontinuity)
           clocked == IF info.hasAdaptationField THEN buildPcrHistogram(counted, info.pcr)
                      ELSE counted
           stamped == buildDtsHistogram(buildPtsHistogram(clocked, out.pts), out.dts)
<1>1. /\ "lastCC" \in DOMAIN checked /\ "numberOfCCErrors" \in DOMAIN checked
      /\ checked.lastCC = info.continuityCounter
      /\ checked.numberOfCCErrors =
           IF CCInSequence(s.lastCC, info.continuityCounter)
           THEN s.numberOfCCErrors ELSE s.numberOfCCErrors + 1
  BY DEF checkCCError
<1> HIDE DEF checked
<1>2. Same(checked, counted)
  BY DEF checkTsDiscontinuity
<1> HIDE DEF counted
<1>3. Same(counted, clocked)
  BY DEF buildPcrHistogram
<1> HIDE DEF clocked
<1>4. Same(clocked, buildPtsHistogram(clocked, out.pts))
  BY DEF buildPtsHistogram
<1>5. Same(buildPtsHistogram(clocked, out.pts), stamped)
  BY DEF buildDtsHistogram
<1>6. PesStatistics(s, info, out) = IF out = NoPes THEN clocked ELSE stamped
  BY DEF PesStatistics, clocked, counted, checked
<1> HIDE DEF stamped
<1> QED
  BY <1>1, <1>2, <1>3, <1>4, <1>5, <1>6

\* The packet after a gap: an error is counted when the gap can be seen.
LEMMA CheckedCounts ==
  ASSUME NEW stat, NEW counter, NEW lost, NEW seen, CountsOf(stat, counter, lost, seen),
         NEW step \in 0..1, NEW info, NEW out,
         info.continuityCounter = IF step = 1 THEN Advance(counter) ELSE counter
  PROVE  CountsOf(PesStatistics(stat, info, out), info.continuityCounter, 0,
                  IF stat.lastCC # INVALID_CC /\ (lost + step) % CCModulus \notin {0, 1}
                  THEN seen + 1 ELSE seen)
<1> DEFINE k == info.continuityCounter
           new == PesStatistics(stat, info, out)
<1>0. CCModulus \in Nat /\ CCModulus > 2
  BY CCAssumption
<1>1. /\ counter \in 0..(CCModulus - 1) /\ counter \in Nat /\ lost \in Nat /\ seen \in Nat
      /\ stat.lastCC \in 0..(CCModulus - 1) \cup {INVALID_CC}
      /\ stat.numberOfCCErrors = seen
      /\ stat.lastCC # INVALID_CC => (stat.lastCC + lost) % CCModulus = counter
  BY <1>0 DEF CountsOf
<1>2. /\ "lastCC" \in DOMAIN new /\ "numberOfCCErrors" \in DOMAIN new /\ new.lastCC = k
      /\ new.numberOfCCErrors = IF CCInSequence(stat.lastCC, k) THEN seen ELSE seen + 1
  BY <1>1, OnlyCheckCounts DEF CountsOf
<1> HIDE DEF new
<1>3. k \in 0..(CCModulus - 1)
  <2>1. (counter + 1) % CCModulus \in 0..(CCModulus - 1)
    BY <1>1, Divided
  <2> QED
    BY <1>1, <2>1 DEF Advance
<1>4. (k + 0) % CCModulus = k
  <2>1. k + 0 = k /\ k \in Nat /\ 0 \in Int /\ k = CCModulus * 0 + k
    BY <1>0, <1>3
  <2> QED
    BY ONLY <1>3, <2>1, RemainderIsUnique
<1>5. ASSUME stat.lastCC # INVALID_CC
      PROVE  CCInSequence(stat.lastCC, k) <=> (lost + step) % CCModulus \in {0, 1}
  <2> DEFINE c == stat.lastCC
             n == lost + step
  <2>1. c \in 0..(CCModulus - 1) /\ c \in Nat /\ n \in Nat /\ c + lost \in Nat
    BY <1>0, <1>1, <1>5
  <2>2. counter = (c + lost) % CCModulus
    BY <1>1, <1>5
  <2>3. k = (c + n) % CCModulus
    <3>1. CASE step = 1
      <4>1. k = Advance(counter)
        BY <3>1
      <4>2. Advance((c + lost) % CCModulus) = ((c + lost) + 1) % CCModulus
        BY <2>1, AdvanceAfter
      <4>3. (c + lost) + 1 = c + n
        BY <2>1, <1>1, <3>1
      <4> QED
        BY <4>1, <4>2, <4>3, <2>2
    <3>2. CASE step = 0
      <4>1. c + n = c + lost
        BY <2>1, <1>1, <3>2
      <4> QED
        BY <3>2, <4>1, <2>2
    <3> QED
      BY <3>1, <3>2
  <2> HIDE DEF c, n, k
  <2>4. CCInSequence(c, (c + n) % CCModulus) <=> n % CCModulus \in {0, 1}
    BY <2>1, CounterTells
  <2> QED
    BY <2>3, <2>4 DEF c, n
<1>6. ASSUME stat.lastCC = INVALID_CC PROVE CCInSequence(stat.lastCC, k)
  BY <1>6 DEF CCInSequence
<1> HIDE DEF k
<1>7. new.numberOfCCErrors =
        IF stat.lastCC # INVALID_CC /\ (lost + step) % CCModulus \notin {0, 1}
        THEN seen + 1 ELSE seen
  BY <1>2, <1>5, <1>6
<1>8. CountsOf(new, k, 0, IF stat.lastCC # INVALID_CC /\ (lost + step) % CCModulus \notin {0, 1}
                          THEN seen + 1 ELSE seen)
  BY <1>1, <1>2, <1>3, <1>4, <1>7 DEF CountsOf
<1> QED
  BY <1>8 DEF new, k

\* An arrival, whether the counter goes on for it or not.
LEMMA ArriveKeepsCounts ==
  ASSUME CCInv, NEW p \in Pids, NEW step \in 0..1, NEW pkt, Arrive(p, pkt, step),
         pkt.continuity_counter = cc'[p], DOMAIN cc' = Pids,
         cc'[p] = IF step = 1 THEN Advance(cc[p]) ELSE cc[p],
         \A q \in Pids \ {p} : cc'[q] = cc[q]
  PROVE  /\ DOMAIN mPidStatistics' = Pids /\ DOMAIN gap' = Pids /\ DOMAIN gapsSeen' = Pids
         /\ \A q \in Pids : CountsOf(mPidStatistics'[q], cc'[q], gap'[q], gapsSeen'[q])
<1> DEFINE info == parseTsPacketInfo(pkt)
           new == PesStatistics(mPidStatistics[p], info, pesOut')
           seen == IF GapShows(p, step) THEN gapsSeen[p] + 1 ELSE gapsSeen[p]
<1>1. /\ mPidStatistics' = [mPidStatistics EXCEPT ![p] = new]
      /\ gap' = [gap EXCEPT ![p] = 0]
      /\ gapsSeen' = [gapsSeen EXCEPT ![p] = seen]
  BY DEF Arrive
<1>2. info.continuityCounter = cc'[p]
  BY DEF parseTsPacketInfo
<1>3. /\ DOMAIN mPidStatistics = Pids /\ DOMAIN gap = Pids /\ DOMAIN gapsSeen = Pids
      /\ \A q \in Pids : CountsOf(mPidStatistics[q], cc[q], gap[q], gapsSeen[q])
  BY DEF CCInv
<1> HIDE DEF info
<1>4. CountsOf(new, cc'[p], 0, seen)
  <2>1. CountsOf(mPidStatistics[p], cc[p], gap[p], gapsSeen[p])
    BY <1>3
  <2>2. info.continuityCounter = IF step = 1 THEN Advance(cc[p]) ELSE cc[p]
    BY <1>2
  <2>3. CountsOf(new, info.continuityCounter, 0,
                 IF /\ mPidStatistics[p].lastCC # INVALID_CC
                    /\ (gap[p] + step) % CCModulus \notin {0, 1}
                 THEN gapsSeen[p] + 1 ELSE gapsSeen[p])
    BY <2>1, <2>2, CheckedCounts
  <2> QED
    BY <1>2, <2>3 DEF GapShows
<1> HIDE DEF new, seen
<1> QED
  BY <1>1, <1>3, <1>4

\* One packet lost makes the gap one longer.
LEMMA LossKeepsCounts ==
  ASSUME NEW stat, NEW counter, NEW lost, NEW seen, CountsOf(stat, counter, lost, seen)
  PROVE  CountsOf(stat, Advance(counter), lost + 1, seen)
<1>0. CCModulus \in Nat /\ CCModulus > 2
  BY CCAssumption
<1>1. /\ counter \in Nat /\ lost \in Nat
      /\ stat.lastCC \in 0..(CCModulus - 1) \cup {INVALID_CC}
      /\ stat.lastCC # INVALID_CC => (stat.lastCC + lost) % CCModulus = counter
  BY <1>0 DEF CountsOf
<1>2. Advance(counter) \in 0..(CCModulus - 1)
  BY <1>1, Divided DEF Advance
<1>3. ASSUME stat.lastCC # INVALID_CC
      PROVE  (stat.lastCC + (lost + 1)) % CCModulus = Advance(counter)
  <2> DEFINE x == stat.lastCC + lost
  <2>1. stat.lastCC \in Nat
    BY <1>0, <1>1, <1>3
  <2>2. x \in Nat /\ stat.lastCC + (lost + 1) = x + 1
    BY <1>1, <2>1
  <2>3. x % CCModulus = counter
    BY <1>1, <1>3
  <2> HIDE DEF x
  <2> QED
    BY <2>2, <2>3, AdvanceAfter
<1>4. lost + 1 \in Nat
  BY <1>1
<1> QED
  BY <1>2, <1>3, <1>4 DEF CountsOf

\* A packet with payload carries the counter after the last one.
LEMMA TransferKeepsCounts ==
  ASSUME CCInv, NEW p \in Pids, cc' = [cc EXCEPT ![p] = Advance(@)],
         NEW pkt, pkt.continuity_counter = Advance(cc[p]), Transfer(p, pkt)
  PROVE  CCInv'
<1>1. /\ DOMAIN cc' = Pids /\ cc'[p] = Advance(cc[p])
      /\ \A q \in Pids \ {p} : cc'[q] = cc[q]
  BY DEF CCInv
<1>2. /\ DOMAIN lastPacket' = Pids
      /\ \A q \in Pids : lastPacket'[q] # NoPacket =>
           lastPacket'[q].continuity_counter = cc'[q]
  BY <1>1 DEF CCInv, Transfer, Remember
<1>3. CASE Arrive(p, pkt, 1)
  <2>1. /\ 1 \in 0..1 /\ 1 = 1 /\ pkt.continuity_counter = cc'[p]
    BY <1>1
  <2>2. cc'[p] = IF 1 = 1 THEN Advance(cc[p]) ELSE cc[p]
    BY <1>1
  <2> QED
    BY <1>1, <1>2, <1>3, <2>1, <2>2, ArriveKeepsCounts DEF CCInv
<1>4. CASE UNCHANGED mPidStatistics /\ UNCHANGED gapsSeen /\ gap' = [gap EXCEPT ![p] = @ + 1]
  <2>1. ASSUME NEW q \in Pids
        PROVE  CountsOf(mPidStatistics'[q], cc'[q], gap'[q], gapsSeen'[q])
    <3>1. CountsOf(mPidStatistics[q], cc[q], gap[q], gapsSeen[q])
      BY DEF CCInv
    <3>2. CASE q = p
      <4>1. CountsOf(mPidStatistics[p], Advance(cc[p]), gap[p] + 1, gapsSeen[p])
        BY <3>1, <3>2, LossKeepsCounts
      <4>2. gap'[p] = gap[p] + 1
        BY <1>4 DEF CCInv
      <4> QED
        BY <1>1, <1>4, <3>2, <4>1, <4>2
    <3>3. CASE q # p
      BY <1>1, <1>4, <3>1, <3>3 DEF CCInv
    <3> QED
      BY <3>2, <3>3
  <2> QED
    BY <1>1, <1>2, <1>4, <2>1 DEF CCInv
<1> QED
  BY <1>3, <1>4 DEF Transfer, receiver

\* A packet that is repeated, or without payload, does not advance the counter.
LEMMA StillArrivalKeepsCounts ==
  ASSUME CCInv, UNCHANGED cc, NEW p \in Pids,
         NEW pkt, pkt.continuity_counter = cc[p], Arrive(p, pkt, 0),
         DOMAIN lastPacket' = Pids,
         \A q \in Pids : lastPacket'[q] \in {NoPacket, lastPacket[q]}
  PROVE  CCInv'
<1>1. /\ 0 \in 0..1 /\ pkt.continuity_counter = cc'[p] /\ DOMAIN cc' = Pids
      /\ cc'[p] = IF 0 = 1 THEN Advance(cc[p]) ELSE cc[p]
      /\ \A q \in Pids \ {p} : cc'[q] = cc[q]
  BY DEF CCInv
<1>2. /\ DOMAIN mPidStatistics' = Pids /\ DOMAIN gap' = Pids /\ DOMAIN gapsSeen' = Pids
      /\ \A q \in Pids : CountsOf(mPidStatistics'[q], cc'[q], gap'[q], gapsSeen'[q])
  BY <1>1, ArriveKeepsCounts
<1>3. \A q \in Pids : lastPacket'[q] # NoPacket =>
        lastPacket'[q].continuity_counter = cc'[q]
  BY DEF CCInv
<1> QED
  BY <1>1, <1>2, <1>3 DEF CCInv

LEMMA NextKeepsCounts == CCInv /\ [Next]_vars => CCInv'
<1> SUFFICES ASSUME CCInv, [Next]_vars PROVE CCInv'
  OBVIOUS
<1>1. CASE UNCHANGED vars
  BY <1>1 DEF CCInv, vars, sender, receiver, channel, history
<1>2. ASSUME NEW p \in Pids, SendStart(p) PROVE CCInv'
  <2>0. PICK head \in Heads : \E flags \in AfFlags :
          \E n \in PesHeaderSize..SizeOrLess(MaxPayload, PesSize(head)) :
            /\ BeginUnit(p, 0, head, n)
            /\ Transfer(p, PayloadPacket(p, TRUE, flags, head,
                                         Cells(p, CurrentUnit(p) + 1, 1, n)))
    BY <1>2 DEF SendStart
  <2>1. PICK flags \in AfFlags, n \in PesHeaderSize..SizeOrLess(MaxPayload, PesSize(head)) :
          /\ BeginUnit(p, 0, head, n)
          /\ Transfer(p, PayloadPacket(p, TRUE, flags, head, Cells(p, CurrentUnit(p) + 1, 1, n)))
    BY <2>0
  <2> DEFINE pkt == PayloadPacket(p, TRUE, flags, head, Cells(p, CurrentUnit(p) + 1, 1, n))
  <2>2. pkt.continuity_counter = Advance(cc[p])
    BY DEF PayloadPacket, TsPacket
  <2> HIDE DEF pkt
  <2> QED
    BY <2>1, <2>2, TransferKeepsCounts DEF BeginUnit, pkt
<1>3. ASSUME NEW p \in Pids, SendMore(p) PROVE CCInv'
  <2>1. PICK flags \in AfFlags,
             n \in 1..SizeOrLess(MaxPayload, PesSize(Last(units[p]).head) - Last(units[p]).sent) :
          /\ ResumeUnit(p, n)
          /\ Transfer(p, PayloadPacket(p, FALSE, flags, Last(units[p]).head,
                           Cells(p, CurrentUnit(p), Last(units[p]).sent + 1, Last(units[p]).sent + n)))
    BY <1>3 DEF SendMore
  <2> DEFINE pkt == PayloadPacket(p, FALSE, flags, Last(units[p]).head,
                      Cells(p, CurrentUnit(p), Last(units[p]).sent + 1, Last(units[p]).sent + n))
  <2>2. pkt.continuity_counter = Advance(cc[p])
    BY DEF PayloadPacket, TsPacket
  <2> HIDE DEF pkt
  <2> QED
    BY <2>1, <2>2, TransferKeepsCounts DEF ResumeUnit, pkt
<1>4. ASSUME NEW p \in Pids, RepeatPacket(p) PROVE CCInv'
  <2>1. /\ lastPacket[p] # NoPacket /\ lastPacket' = [lastPacket EXCEPT ![p] = NoPacket]
        /\ cc' = cc /\ Arrive(p, lastPacket[p], 0)
    BY <1>4 DEF RepeatPacket, Repeatable, Remember, sender
  <2>2. lastPacket[p].continuity_counter = cc[p]
    BY <2>1 DEF CCInv
  <2>3. /\ DOMAIN lastPacket' = Pids
        /\ \A q \in Pids : lastPacket'[q] \in {NoPacket, lastPacket[q]}
    BY <2>1 DEF CCInv
  <2> QED
    BY <2>1, <2>2, <2>3, StillArrivalKeepsCounts
<1>5. ASSUME NEW p \in Pids, SendAdaptation(p) PROVE CCInv'
  <2>1. PICK flags \in AfFlags : Arrive(p, AdaptationPacket(p, flags), 0)
    BY <1>5 DEF SendAdaptation
  <2> DEFINE pkt == AdaptationPacket(p, flags)
  <2>2. pkt.continuity_counter = cc[p]
    BY DEF AdaptationPacket, TsPacket
  <2>3. cc' = cc /\ lastPacket' = lastPacket
    BY <1>5 DEF SendAdaptation, sender
  <2>4. /\ DOMAIN lastPacket' = Pids
        /\ \A q \in Pids : lastPacket'[q] \in {NoPacket, lastPacket[q]}
    BY <2>3 DEF CCInv
  <2> HIDE DEF pkt
  <2> QED
    BY <2>1, <2>2, <2>3, <2>4, StillArrivalKeepsCounts DEF pkt
<1> QED
  BY <1>1, <1>2, <1>3, <1>4, <1>5 DEF Next

\* However many packets are lost, repeated or without payload: the number of
\* continuity errors of a PID (TsStatistics::checkCCError) is the number of gaps
\* its counter can show.
THEOREM CCErrorsAreAlwaysGaps == Spec => []CCErrorsAreGaps
<1>1. Init => CCInv
  <2> SUFFICES ASSUME Init PROVE CCInv
    OBVIOUS
  <2>1. CCModulus - 1 \in 0..(CCModulus - 1) /\ 0 \in Nat
    BY CCAssumption
  <2>2. /\ mPidStatistics = [p \in Pids |-> NewPidStatistic]
        /\ cc = [p \in Pids |-> CCModulus - 1] /\ lastPacket = [p \in Pids |-> NoPacket]
        /\ gap = [p \in Pids |-> 0] /\ gapsSeen = [p \in Pids |-> 0]
    BY DEF Init, InitSender, InitChannel
  <2>3. CountsOf(NewPidStatistic, CCModulus - 1, 0, 0)
    BY <2>1 DEF CountsOf, NewPidStatistic
  <2> QED
    BY <2>2, <2>3 DEF CCInv
<1>2. CCInv /\ [Next]_vars => CCInv'
  BY NextKeepsCounts
<1>3. CCInv => CCErrorsAreGaps
  BY DEF CCInv, CountsOf, CCErrorsAreGaps
<1> QED
  BY <1>1, <1>2, <1>3, PTL DEF Spec

-----------------------------------------------------------------------------
(* Whole PES packets *)

\* The size of a unit is known to fit.
Sized(list) ==
  \A u \in DOMAIN list : list[u].sent >= PesHeaderSize /\ list[u].sent <= PesSize(list[u].head)

\* Every unit was delivered, the last one by its length.
AtRest(list, out, pes, last) ==
  /\ Len(out) = Len(list) /\ pes = NoPes
  /\ list # <<>> =>
       LET unit == list[Len(list)]
       IN  unit.head.PES_packet_length > 0 /\ unit.sent = PesSize(unit.head)
  /\ last # NoPacket => ~last.payload_unit_start_indicator

\* The last unit is under collection and as far as it was sent.
UnderWay(p, list, out, pes) ==
  /\ list # <<>> /\ Len(out) + 1 = Len(list)
  /\ pes.mPesBuffer = Cells(p, Len(list), 1, list[Len(list)].sent)
  /\ pes.PES_packet_length = list[Len(list)].head.PES_packet_length

\* The callbacks are the units, each whole.
Whole(p, list, out) ==
  \A i \in 1..Len(out) : out[i].pes.mPesBuffer = Cells(p, i, 1, list[i].sent)

InOrder(p, list, out, pes, last) ==
  /\ Whole(p, list, out)
  /\ AtRest(list, out, pes, last) \/ UnderWay(p, list, out, pes)

\* The last unit can be followed by another.
Over(list) ==
  list # <<>> => LET unit == list[Len(list)]
                 IN  unit.head.PES_packet_length = 0 \/ unit.sent = PesSize(unit.head)

\* What a unit start returns, and what more of the packet under collection does.
Ended(pes) == IF pes.mPesBuffer # <<>> /\ ~Incomplete(pes) THEN pes ELSE NoPes
Finished(pes) == IF Complete(pes) THEN pes ELSE NoPes

\* The callbacks after collectPes has returned `pes`.
Called(out, pes, more) ==
  IF pes = NoPes THEN more = out ELSE \E call : call.pes = pes /\ more = Append(out, call)

\* A unit under way is held in a buffer of its size.
LEMMA UnderWayBuffer ==
  ASSUME NEW p \in Pids, NEW list \in Seq(UnitRecord), Sized(list), NEW out, NEW pes,
         UnderWay(p, list, out, pes)
  PROVE  LET unit == list[Len(list)]
         IN  /\ Len(list) \in Nat \ {0} /\ Len(list) \in DOMAIN list
             /\ unit.head \in Heads /\ unit.sent \in Nat
             /\ unit.sent >= PesHeaderSize /\ unit.sent <= PesSize(unit.head)
             /\ Len(pes.mPesBuffer) = unit.sent /\ pes.mPesBuffer # <<>> /\ pes # NoPes
<1> DEFINE N == Len(list)
           unit == list[N]
<1>1. N \in Nat \ {0} /\ N \in DOMAIN list /\ unit \in UnitRecord
  BY DEF UnderWay
<1>2. /\ unit.head \in Heads /\ unit.sent \in Nat
      /\ unit.sent >= PesHeaderSize /\ unit.sent <= PesSize(unit.head)
  BY <1>1 DEF UnitRecord, Sized
<1>3. PesHeaderSize \in Nat \ {0}
  BY PesHeaderAssumption
<1>4. pes.mPesBuffer = Cells(p, N, 1, unit.sent)
  BY DEF UnderWay
<1> HIDE DEF N, unit
<1>5. Len(pes.mPesBuffer) = unit.sent
  BY <1>1, <1>2, <1>4, CellsFromOne
<1>6. pes.mPesBuffer # <<>>
  BY <1>2, <1>3, <1>5
<1>7. pes # NoPes
  BY <1>6 DEF NoPes
<1> QED
  BY <1>1, <1>2, <1>5, <1>6, <1>7 DEF N, unit

\* A callback after the others, which all were whole.
LEMMA OneMoreWhole ==
  ASSUME NEW p, NEW new, NEW out, NEW call, NEW more,
         IsSeq(out), Whole(p, new, out), more = Append(out, call),
         call.pes.mPesBuffer = Cells(p, Len(out) + 1, 1, new[Len(out) + 1].sent)
  PROVE  Longer(out, more) /\ Len(more) = Len(out) + 1 /\ Whole(p, new, more)
<1> DEFINE d == Len(out)
<1>1. /\ IsSeq(more) /\ DOMAIN more = 1..(d + 1) /\ DOMAIN out = 1..d /\ d \in Nat
      /\ more[d + 1] = call /\ \A i \in DOMAIN out : more[i] = out[i]
  BY AppendIsSeq
<1>2. Len(more) = d + 1
  BY <1>1 DEF IsSeq
<1>3. ASSUME NEW i \in 1..Len(more)
      PROVE  more[i].pes.mPesBuffer = Cells(p, i, 1, new[i].sent)
  <2>1. CASE i \in 1..d
    BY <2>1, <1>1 DEF Whole
  <2>2. CASE i = d + 1
    BY <2>2, <1>1
  <2> QED
    BY <1>1, <1>2, <2>1, <2>2
<1>4. Longer(out, more)
  BY <1>1, <1>2 DEF Longer
<1> QED
  BY <1>2, <1>3, <1>4 DEF Whole

\* What was delivered stays whole when only later units change.
LEMMA WholeStays ==
  ASSUME NEW p, NEW list, NEW new, NEW out, Whole(p, list, out),
         \A i \in 1..Len(out) : new[i] = list[i]
  PROVE  Whole(p, new, out)
BY DEF Whole

\* A start returns the packet under collection, whole, and begins the next one.
LEMMA StartKeepsOrder ==
  ASSUME NEW p \in Pids, NEW list \in Seq(UnitRecord), NEW out, NEW pes, NEW last,
         NEW new, NEW more,
         Sized(list), IsSeq(out), InOrder(p, list, out, pes, last),
         Over(list), new # <<>>, Begun(list, new), Called(out, Ended(pes), more)
  PROVE  LET unit == new[Len(new)]
         IN  /\ UnderWay(p, new, more, parsePesPacket(unit.head, Cells(p, Len(new), 1, unit.sent)))
             /\ Whole(p, new, more) /\ Longer(out, more)
<1> DEFINE N == Len(list)
           first == new[Len(new)]
           started == parsePesPacket(first.head, Cells(p, Len(new), 1, first.sent))
<1>1. /\ N \in Nat /\ Len(out) \in Nat
      /\ Len(new) = N + 1 /\ \A u \in 1..N : new[u] = list[u]
  BY DEF IsSeq, Begun
<1>2. /\ started.mPesBuffer = Cells(p, Len(new), 1, new[Len(new)].sent)
      /\ started.PES_packet_length = new[Len(new)].head.PES_packet_length
  BY DEF parsePesPacket
<1>3. Whole(p, list, out)
  BY DEF InOrder
<1> HIDE DEF started
<1>4. CASE AtRest(list, out, pes, last)
  <2>1. pes = NoPes /\ Len(out) = N
    BY <1>4 DEF AtRest
  <2>2. more = out
    BY <2>1 DEF NoPes, Called, Ended
  <2>3. Longer(out, more)
    BY <2>2, <1>1 DEF Longer
  <2>4. UnderWay(p, new, more, started)
    BY <1>1, <1>2, <2>1, <2>2 DEF UnderWay
  <2>5. Whole(p, new, more)
    BY <1>1, <1>3, <2>1, <2>2 DEF Whole
  <2> QED
    BY <2>3, <2>4, <2>5 DEF started
<1>5. CASE UnderWay(p, list, out, pes)
  <2> DEFINE unit == list[N]
  <2>1. /\ N \in Nat \ {0} /\ unit.head \in Heads /\ unit.sent \in Nat
        /\ unit.sent >= PesHeaderSize
        /\ Len(pes.mPesBuffer) = unit.sent /\ pes.mPesBuffer # <<>> /\ pes # NoPes
    BY <1>5, UnderWayBuffer
  <2>2. /\ Len(out) + 1 = N /\ list # <<>>
        /\ pes.mPesBuffer = Cells(p, N, 1, unit.sent)
        /\ pes.PES_packet_length = unit.head.PES_packet_length
    BY <1>5 DEF UnderWay
  <2>3. unit.head.PES_packet_length \in Nat /\ PesHeaderSize \in Nat \ {0}
    BY <2>1, PesHeadsAssumption, PesHeaderAssumption
  <2>4. unit.head.PES_packet_length = 0 \/ unit.sent = PesSize(unit.head)
    BY <2>2 DEF Over
  <2> HIDE DEF unit
  <2>5. ~Incomplete(pes)
    BY <2>1, <2>2, <2>3, <2>4 DEF Incomplete, PesSize
  <2>6. PICK call : call.pes = pes /\ more = Append(out, call)
    BY <2>1, <2>5 DEF Called, Ended
  <2>7. \A i \in 1..Len(out) : new[i] = list[i]
    BY <1>1, <2>1, <2>2
  <2>8. Longer(out, more) /\ Len(more) = Len(out) + 1 /\ Whole(p, new, more)
    <3>1. Len(out) + 1 = N /\ new[N] = unit
      BY <1>1, <2>1, <2>2 DEF unit
    <3>2. call.pes.mPesBuffer = Cells(p, Len(out) + 1, 1, new[Len(out) + 1].sent)
      BY <2>2, <2>6, <3>1
    <3>3. IsSeq(out) /\ more = Append(out, call)
      BY <2>6
    <3>4. Whole(p, new, out)
      BY <1>3, <2>7, WholeStays
    <3> QED
      BY ONLY <3>2, <3>3, <3>4, OneMoreWhole, ZenonT(60)
  <2>9. UnderWay(p, new, more, started)
    BY <1>1, <1>2, <2>2, <2>8 DEF UnderWay
  <2> QED
    BY <2>8, <2>9 DEF started
<1> QED
  BY <1>4, <1>5 DEF InOrder

\* A unit of which there is more to send is the one under way.
LEMMA MoreToCome ==
  ASSUME NEW p \in Pids, NEW list \in Seq(UnitRecord), NEW out, NEW pes, NEW last,
         list # <<>>, Sized(list), IsSeq(out), InOrder(p, list, out, pes, last),
         list[Len(list)].sent < PesSize(list[Len(list)].head)
  PROVE  UnderWay(p, list, out, pes) /\ pes # NoPes /\ Len(out) + 1 = Len(list)
<1>1. Len(list) \in DOMAIN list /\ list[Len(list)] \in UnitRecord
  OBVIOUS
<1>2. list[Len(list)].sent \in Nat /\ PesSize(list[Len(list)].head) \in Nat
  BY <1>1, SizesAreNumbers DEF UnitRecord
<1>3. ~AtRest(list, out, pes, last)
  BY <1>2 DEF AtRest
<1>4. UnderWay(p, list, out, pes)
  BY <1>3 DEF InOrder
<1> QED
  BY <1>4, UnderWayBuffer DEF UnderWay

\* A packet with more of the unit under way is appended; with the last of a unit
\* whose length is known the PES packet is returned, whole.
LEMMA MoreKeepsOrder ==
  ASSUME NEW p \in Pids, NEW list \in Seq(UnitRecord), NEW out, NEW pes \in PesRecord,
         NEW last, NEW k \in Nat, NEW new \in Seq(UnitRecord), NEW longer,
         NEW more, NEW next,
         list # <<>>, Sized(list), IsSeq(out), InOrder(p, list, out, pes, last),
         k > 0, k <= PesSize(list[Len(list)].head) - list[Len(list)].sent,
         GrownBy(list, new, k),
         longer = Extended(pes, Cells(p, Len(list), list[Len(list)].sent + 1,
                                      list[Len(list)].sent + k)),
         Called(out, Finished(longer), more), ~next.payload_unit_start_indicator
  PROVE  InOrder(p, new, more, Remaining(longer), next) /\ Longer(out, more)
<1> DEFINE N == Len(list)
           unit == list[N]
<1>1. /\ N \in Nat \ {0} /\ unit \in UnitRecord /\ Len(out) \in Nat /\ N \in DOMAIN list
      /\ Len(new) = N /\ \A u \in 1..(N - 1) : new[u] = list[u]
  BY DEF IsSeq, GrownBy
<1>2. unit.head \in Heads /\ unit.sent \in Nat /\ PesSize(unit.head) \in Nat
  BY <1>1, SizesAreNumbers DEF UnitRecord
<1>3. UnderWay(p, list, out, pes)
  <2>1. unit.sent < PesSize(unit.head)
    BY <1>2
  <2> QED
    BY <2>1, MoreToCome
<1>4. /\ Len(out) + 1 = N
      /\ pes.mPesBuffer = Cells(p, N, 1, unit.sent)
      /\ pes.PES_packet_length = unit.head.PES_packet_length
      /\ pes # NoPes /\ unit.sent >= PesHeaderSize
  BY <1>3, UnderWayBuffer DEF UnderWay
<1>5. Whole(p, new, out)
  <2>1. Whole(p, list, out)
    BY DEF InOrder
  <2>2. \A i \in 1..Len(out) : new[i] = list[i]
    BY <1>1, <1>4
  <2> QED
    BY <2>1, <2>2, WholeStays
<1>6. unit.head.PES_packet_length \in Nat /\ PesHeaderSize \in Nat \ {0}
  BY <1>2, PesHeadsAssumption, PesHeaderAssumption
<1>7. new # <<>> /\ new[N].sent = unit.sent + k /\ new[N].head = unit.head
  BY <1>1 DEF GrownBy
<1>8. /\ longer.mPesBuffer = pes.mPesBuffer \o Cells(p, N, unit.sent + 1, unit.sent + k)
      /\ longer.PES_packet_length = pes.PES_packet_length
  BY DEF Extended, PesRecord
<1> HIDE DEF N, unit
<1>9. longer.mPesBuffer = Cells(p, N, 1, new[N].sent)
  <2>1. N \in Nat /\ unit.sent \in Nat
    BY <1>1, <1>2
  <2>2. Cells(p, N, 1, unit.sent) \o Cells(p, N, unit.sent + 1, unit.sent + k)
          = Cells(p, N, 1, unit.sent + k)
    BY <2>1, CellsJoin
  <2> QED
    BY <1>4, <1>7, <1>8, <2>2
<1>10. Len(longer.mPesBuffer) = unit.sent + k
  <2> DEFINE m == unit.sent + k
  <2>1. N \in Nat /\ m \in Nat
    BY <1>1, <1>2
  <2>2. longer.mPesBuffer = Cells(p, N, 1, m)
    BY <1>7, <1>9
  <2> HIDE DEF m
  <2>3. Len(Cells(p, N, 1, m)) = m
    BY <2>1, CellsFromOne
  <2> QED
    BY <2>2, <2>3 DEF m
<1>11. longer # NoPes
  BY <1>2, <1>10 DEF NoPes
<1>12. CASE Complete(longer)
  <2>1. unit.sent + k = unit.head.PES_packet_length + PesHeaderSize
    BY <1>4, <1>8, <1>10, <1>12 DEF Complete
  <2>2. unit.head.PES_packet_length > 0 /\ unit.sent + k = PesSize(unit.head)
    BY <1>2, <1>4, <1>6, <2>1 DEF PesSize
  <2>3. Remaining(longer) = NoPes
    BY <1>12 DEF Remaining
  <2>4. PICK call : call.pes = longer /\ more = Append(out, call)
    BY <1>11, <1>12 DEF Called, Finished
  <2>5. Longer(out, more) /\ Len(more) = Len(out) + 1 /\ Whole(p, new, more)
    <3>1. call.pes.mPesBuffer = Cells(p, Len(out) + 1, 1, new[Len(out) + 1].sent)
      BY <1>4, <1>9, <2>4
    <3>2. IsSeq(out) /\ more = Append(out, call)
      BY <2>4
    <3> QED
      BY ONLY <1>5, <3>1, <3>2, OneMoreWhole, ZenonT(60)
  <2>6. AtRest(new, more, Remaining(longer), next)
    BY <1>1, <1>4, <1>7, <2>2, <2>3, <2>5 DEF AtRest, N
  <2> QED
    BY <1>1, <1>4, <2>5, <2>6 DEF InOrder, N
<1>13. CASE ~Complete(longer)
  <2>1. more = out /\ Remaining(longer) = longer
    BY <1>13 DEF Remaining, Called, Finished
  <2>2. UnderWay(p, new, more, Remaining(longer))
    BY <1>1, <1>4, <1>7, <1>8, <1>9, <2>1 DEF UnderWay, N
  <2>3. Whole(p, new, more)
    BY <1>5, <2>1
  <2>4. Longer(out, more)
    BY <1>1, <2>1 DEF Longer
  <2> QED
    BY <1>1, <1>4, <2>2, <2>3, <2>4 DEF InOrder, N
<1> QED
  BY <1>12, <1>13

-----------------------------------------------------------------------------
(* The steps, for the order *)

DamageStays(p) ==
  /\ DOMAIN damaged' = Pids /\ damaged[p] \subseteq damaged'[p]
  /\ \A q \in Pids \ {p} : damaged'[q] = damaged[q]

\* What happens to the units that come to harm is kept.
LEMMA HarmIsKept ==
  ASSUME DOMAIN damaged = Pids, NEW p \in Pids, NEW touched, NEW kind,
         Fault(kind, p, touched) \/ Harms(p, touched)
  PROVE  DamageStays(p) /\ damaged'[p] = damaged[p] \cup touched
<1>1. damaged' = [damaged EXCEPT ![p] = @ \cup touched]
  BY DEF Fault, Harms
<1>2. damaged'[p] = damaged[p] \cup touched
  BY <1>1
<1> QED
  BY <1>1, <1>2 DEF DamageStays

\* While no unit of a PID has come to harm, its callbacks are in order.
OrderInv ==
  /\ DOMAIN damaged = Pids
  /\ \A p \in Pids :
       /\ Sized(units[p])
       /\ damaged[p] = {} =>
            InOrder(p, units[p], delivered[p], mPesPacket[p], lastPacket[p])

\* What UnitDelivery lets happen to the units and callbacks of a PID.
Served(p) ==
  \/ units'[p] = units[p] /\ delivered'[p] = delivered[p]
  \/ /\ Longer(delivered[p], delivered'[p])
     /\ \/ Begun(units[p], units'[p])
        \/ /\ units[p] # <<>> /\ Len(delivered[p]) < Len(units[p])
           /\ \E k \in Nat : GrownBy(units[p], units'[p], k)

OthersRest(p) ==
  \A q \in Pids \ {p} :
    /\ units'[q] = units[q] /\ delivered'[q] = delivered[q]
    /\ mPesPacket'[q] = mPesPacket[q] /\ lastPacket'[q] = lastPacket[q]

InOrderNow(p) == InOrder(p, units[p], delivered[p], mPesPacket[p], lastPacket[p])

StepOf(p) ==
  /\ OthersRest(p) /\ DamageStays(p) /\ Sized(units'[p])
  /\ damaged'[p] = {} => InOrderNow(p)' /\ Served(p)

\* A packet of p changes nothing of another PID, and adds a callback for what
\* collectPes returned.
LEMMA ArriveOnOne ==
  ASSUME HeadInv, NEW p \in Pids, NEW pkt, pkt.pid = p, NEW step, Arrive(p, pkt, step)
  PROVE  /\ collectPes(pkt, parseTsPacketInfo(pkt), Position(p))
         /\ \E call : /\ call.pes = pesOut'
                      /\ delivered'[p] = IF pesOut' = NoPes THEN delivered[p]
                                         ELSE Append(delivered[p], call)
         /\ \A q \in Pids \ {p} : delivered'[q] = delivered[q] /\ mPesPacket'[q] = mPesPacket[q]
<1> DEFINE info == parseTsPacketInfo(pkt)
           call == [pes |-> pesOut', origin |-> mOrigins'[p], byLength |-> ~info.isPayloadStart]
<1>1. collectPes(pkt, info, Position(p))
  BY DEF Arrive
<1>2. info.pid = p
  BY DEF parseTsPacketInfo
<1>3. delivered' = IF pesOut' = NoPes THEN delivered
                   ELSE [delivered EXCEPT ![p] = Append(@, call)]
  BY DEF Arrive
<1>4. call.pes = pesOut'
  OBVIOUS
<1> HIDE DEF info, call
<1>5. DOMAIN delivered = Pids
  BY DEF HeadInv, DeliveredInv
<1>6. /\ delivered'[p] = IF pesOut' = NoPes THEN delivered[p] ELSE Append(delivered[p], call)
      /\ \A q \in Pids \ {p} : delivered'[q] = delivered[q]
  BY <1>3, <1>5
<1>7. \A q \in Pids \ {p} : mPesPacket'[q] = mPesPacket[q]
  BY <1>1, <1>2 DEF collectPes, StartPes, IgnorePes, AppendPes, HeadInv, CollectorInv
<1> QED
  BY <1>1, <1>4, <1>6, <1>7 DEF info

Untouched(p) == mPesPacket'[p] = mPesPacket[p] /\ delivered'[p] = delivered[p]

\* The packet that may be repeated, when it is a start, is that of the last unit.
LastStart(p, list, last) ==
  last # NoPacket /\ last.payload_unit_start_indicator =>
    last.bytes[Offset(last) + 1] = <<p, Len(list), 1>>

\* The start of a unit, lost or not, and what it does to the PID.
StartLost(p) ==
  Untouched(p) /\ damaged'[p] = damaged[p] \cup ({Len(units'[p])} \cup OpenUnit(p))

StartCame(p) ==
  LET unit == units'[p][Len(units'[p])]
  IN  /\ mPesPacket'[p] =
           parsePesPacket(unit.head, Cells(p, Len(units'[p]), 1, unit.sent))
      /\ Called(delivered[p], Ended(mPesPacket[p]), delivered'[p])
      /\ damaged'[p] = damaged[p]

StartMeans(p) ==
  /\ OthersRest(p) /\ DamageStays(p) /\ Sized(units'[p])
  /\ units'[p] \in Seq(UnitRecord) /\ units'[p] # <<>>
  /\ Over(units[p]) /\ Begun(units[p], units'[p])
  /\ LastStart(p, units'[p], lastPacket'[p])
  /\ StartLost(p) \/ StartCame(p)

\* More of the last unit, k cells of it.
MoreLost(p) == Untouched(p) /\ damaged'[p] = damaged[p] \cup {Len(units'[p])}

Collected(p, longer) ==
  /\ mPesPacket'[p] = Remaining(longer)
  /\ Called(delivered[p], Finished(longer), delivered'[p])

MoreCame(p, k) ==
  LET N    == Len(units[p])
      unit == units[p][N]
  IN  /\ mPesPacket[p] = NoPes => Untouched(p)
      /\ mPesPacket[p] # NoPes =>
           Collected(p, Extended(mPesPacket[p], Cells(p, N, unit.sent + 1, unit.sent + k)))
      /\ damaged'[p] = damaged[p]

MoreMeans(p) ==
  /\ OthersRest(p) /\ DamageStays(p) /\ Sized(units'[p])
  /\ units'[p] \in Seq(UnitRecord) /\ units[p] # <<>>
  /\ ~lastPacket'[p].payload_unit_start_indicator
  /\ \E k \in Nat :
       /\ k > 0 /\ k <= PesSize(units[p][Len(units[p])].head) - units[p][Len(units[p])].sent
       /\ GrownBy(units[p], units'[p], k)
       /\ MoreLost(p) \/ MoreCame(p, k)

\* A packet that comes while the sender stands still, and harms what is open.
StillMeans(p) ==
  /\ OthersRest(p) /\ DamageStays(p) /\ units'[p] = units[p]
  /\ lastPacket'[p] \in {NoPacket, lastPacket[p]}
  /\ damaged'[p] = damaged[p] \cup OpenUnit(p)
  /\ \/ /\ lastPacket[p] # NoPacket /\ lastPacket[p].payload_unit_start_indicator
        /\ mPesPacket'[p].mPesBuffer[1] = lastPacket[p].bytes[Offset(lastPacket[p]) + 1]
        /\ Called(delivered[p], Ended(mPesPacket[p]), delivered'[p])
     \/ /\ mPesPacket[p] = NoPes => Untouched(p)
        /\ mPesPacket[p] # NoPes =>
             \E bytes \in Seq(Cell) : Collected(p, Extended(mPesPacket[p], bytes))

\* A packet with more, or without payload, is appended to what is open.
LEMMA MoreIsCollected ==
  ASSUME HeadInv, NEW p \in Pids, NEW pkt, pkt.pid = p, ~pkt.payload_unit_start_indicator,
         NEW step, Arrive(p, pkt, step)
  PROVE  /\ mPesPacket[p] = NoPes => Untouched(p)
         /\ mPesPacket[p] # NoPes =>
              Collected(p, Extended(mPesPacket[p],
                             BytesFrom(pkt, parseTsPacketInfo(pkt).payloadStartOffset)))
<1> DEFINE info == parseTsPacketInfo(pkt)
           longer == Extended(mPesPacket[p], BytesFrom(pkt, info.payloadStartOffset))
<1>1. collectPes(pkt, info, Position(p))
  BY ArriveOnOne
<1>2. PICK call : /\ call.pes = pesOut'
                  /\ delivered'[p] = IF pesOut' = NoPes THEN delivered[p]
                                     ELSE Append(delivered[p], call)
  BY ArriveOnOne
<1>3. info.pid = p /\ ~info.isPayloadStart
  BY DEF parseTsPacketInfo
<1> HIDE DEF info
<1>4. CASE mPesPacket[p] = NoPes
  <2>1. pesOut' = NoPes /\ mPesPacket' = mPesPacket
    BY <1>1, <1>3, <1>4 DEF collectPes, StartPes, IgnorePes, AppendPes, Started
  <2> QED
    BY <1>2, <1>4, <2>1 DEF Untouched
<1>5. CASE mPesPacket[p] # NoPes
  <2>1. pesOut' = Finished(longer) /\ mPesPacket' = [mPesPacket EXCEPT ![p] = Remaining(longer)]
    BY <1>1, <1>3, <1>5 DEF collectPes, StartPes, IgnorePes, AppendPes, Started, Finished
  <2> HIDE DEF longer
  <2>2. mPesPacket'[p] = Remaining(longer)
    BY <2>1 DEF HeadInv, CollectorInv
  <2>3. Called(delivered[p], Finished(longer), delivered'[p])
    BY <1>2, <2>1 DEF Called
  <2>4. Collected(p, longer)
    BY <2>2, <2>3 DEF Collected
  <2> QED
    BY <1>5, <2>4 DEF longer, info
<1> QED
  BY <1>4, <1>5 DEF info

\* A start returns what is open and begins anew.
LEMMA StartIsCollected ==
  ASSUME HeadInv, NEW p \in Pids, NEW pkt, pkt.pid = p, pkt.payload_unit_start_indicator,
         NEW step, Arrive(p, pkt, step)
  PROVE  /\ mPesPacket'[p] = parsePesPacket(pkt.head,
                               BytesFrom(pkt, parseTsPacketInfo(pkt).payloadStartOffset))
         /\ Called(delivered[p], Ended(mPesPacket[p]), delivered'[p])
<1> DEFINE info == parseTsPacketInfo(pkt)
           copied == BytesFrom(pkt, info.payloadStartOffset)
<1>1. collectPes(pkt, info, Position(p))
  BY ArriveOnOne
<1>2. PICK call : /\ call.pes = pesOut'
                  /\ delivered'[p] = IF pesOut' = NoPes THEN delivered[p]
                                     ELSE Append(delivered[p], call)
  BY ArriveOnOne
<1>3. info.pid = p /\ info.isPayloadStart
  BY DEF parseTsPacketInfo
<1> HIDE DEF info
<1>4. /\ pesOut' = Ended(mPesPacket[p])
      /\ mPesPacket' = [mPesPacket EXCEPT ![p] = parsePesPacket(pkt.head, copied)]
  BY <1>1, <1>3 DEF collectPes, StartPes, IgnorePes, AppendPes, Ended
<1>5. mPesPacket'[p] = parsePesPacket(pkt.head, copied)
  BY <1>4 DEF HeadInv, CollectorInv
<1>6. Called(delivered[p], Ended(mPesPacket[p]), delivered'[p])
  BY <1>2, <1>4 DEF Called
<1> QED
  BY <1>5, <1>6 DEF info

\* A packet that is sent is remembered, and arrives or harms its unit.
LEMMA TransferMeans ==
  ASSUME HeadInv, DOMAIN damaged = Pids, NEW p \in Pids, OnlyGrows(p),
         NEW pkt, pkt.pid = p, pkt.payload_unit_start_indicator \in BOOLEAN, Transfer(p, pkt)
  PROVE  /\ OthersRest(p) /\ DamageStays(p) /\ lastPacket'[p] = pkt
         /\ \/ Arrive(p, pkt, 1) /\ damaged'[p] = damaged[p]
            \/ /\ Untouched(p)
               /\ damaged'[p] = damaged[p] \cup
                    ({Len(units'[p])} \cup IF pkt.payload_unit_start_indicator
                                           THEN OpenUnit(p) ELSE {})
<1> DEFINE touched == {Len(units'[p])} \cup IF pkt.payload_unit_start_indicator
                                            THEN OpenUnit(p) ELSE {}
<1>1. lastPacket' = [lastPacket EXCEPT ![p] = pkt] /\ DOMAIN lastPacket = Pids
  BY DEF Transfer, Remember, HeadInv, ChannelInv
<1>2. CASE Arrive(p, pkt, 1) /\ Harms(p, {})
  <2>1. DamageStays(p) /\ damaged'[p] = damaged[p] \cup {}
    BY <1>2, HarmIsKept
  <2>2. \A q \in Pids \ {p} : delivered'[q] = delivered[q] /\ mPesPacket'[q] = mPesPacket[q]
    BY <1>2, ArriveOnOne
  <2>3. OthersRest(p)
    BY <1>1, <2>2 DEF OthersRest, OnlyGrows
  <2> QED
    BY <1>1, <1>2, <2>1, <2>3
<1>3. CASE Fault("lose", p, touched) /\ UNCHANGED <<receiver, delivered>>
  <2>1. DamageStays(p) /\ damaged'[p] = damaged[p] \cup touched
    BY <1>3, HarmIsKept
  <2>2. delivered' = delivered /\ mPesPacket' = mPesPacket
    BY <1>3 DEF receiver
  <2>3. OthersRest(p)
    BY <1>1, <2>2 DEF OthersRest, OnlyGrows
  <2> QED
    BY <1>1, <2>1, <2>2, <2>3 DEF Untouched
<1> QED
  BY <1>2, <1>3 DEF Transfer

\* The start of a unit.
LEMMA SendStartMeans ==
  ASSUME HeadInv, DOMAIN damaged = Pids, NEW p \in Pids, Sized(units[p]), SendStart(p)
  PROVE  StartMeans(p)
<1>0. PICK head \in Heads, flags \in AfFlags :
        \E n \in PesHeaderSize..SizeOrLess(MaxPayload, PesSize(head)) :
          /\ BeginUnit(p, 0, head, n)
          /\ Transfer(p, PayloadPacket(p, TRUE, flags, head, Cells(p, CurrentUnit(p) + 1, 1, n)))
  BY DEF SendStart
<1>1. PICK n \in PesHeaderSize..SizeOrLess(MaxPayload, PesSize(head)) :
        /\ BeginUnit(p, 0, head, n)
        /\ Transfer(p, PayloadPacket(p, TRUE, flags, head, Cells(p, CurrentUnit(p) + 1, 1, n)))
  BY <1>0
<1>2. /\ n \in Nat /\ n >= PesHeaderSize /\ n >= 1 /\ n <= MaxPayload /\ n <= PesSize(head)
      /\ MaxPayload \in Nat
  <2>1. PesSize(head) \in Nat /\ MaxPayload \in Nat /\ PesHeaderSize \in Nat \ {0}
    BY SizesAreNumbers
  <2> QED
    BY <2>1 DEF SizeOrLess
<1> DEFINE list == units[p]
           new == units'[p]
           record == [head |-> head, sent |-> n]
           u == Len(list) + 1
           payload == Cells(p, u, 1, n)
           start == TRUE
           pkt == PayloadPacket(p, start, flags, head, payload)
<1>3. list \in Seq(UnitRecord) /\ record \in UnitRecord /\ u \in Nat \ {0}
  <2>1. list \in Seq(UnitRecord)
    BY DEF HeadInv, SenderInv
  <2>2. record \in UnitRecord
    BY <1>2 DEF UnitRecord
  <2> QED
    BY <2>1, <2>2
<1>4. OnlyGrows(p)
  <2> DEFINE tail == 0
  <2>1. tail \in Nat /\ tail = 0 /\ BeginUnit(p, tail, head, n)
    BY <1>1
  <2> HIDE DEF tail
  <2> QED
    BY <2>1, <1>2, BeginGrows DEF HeadInv
<1>5. new = Append(list, record) /\ new \in Seq(UnitRecord)
  <2>1. new = Append(list, record)
    BY <1>1 DEF BeginUnit, MoreSent, HeadInv, SenderInv
  <2> QED
    BY <2>1, <1>3
<1>6. Transfer(p, pkt)
  BY <1>1 DEF CurrentUnit
<1>7. /\ new # <<>> /\ Begun(list, new) /\ Len(new) = u
      /\ new[Len(new)].head = head /\ new[Len(new)].sent = n
  BY <1>3, <1>5 DEF Begun
<1>8. Sized(new)
  <2>1. ASSUME NEW v \in DOMAIN new
        PROVE  new[v].sent >= PesHeaderSize /\ new[v].sent <= PesSize(new[v].head)
    <3>1. CASE v \in DOMAIN list
      <4>1. new[v] = list[v]
        BY <1>3, <1>5, <3>1
      <4> QED
        BY <3>1, <4>1 DEF Sized
    <3>2. CASE v = u
      BY <1>2, <1>3, <1>5, <3>2
    <3> QED
      BY <1>3, <1>5, <3>1, <3>2
  <2> QED
    BY <2>1 DEF Sized
<1>9. payload \in Seq(Cell) /\ Len(payload) = n /\ payload[1] = <<p, u, 1>>
  <2>1. /\ payload \in Seq(Cell) /\ Len(payload) = n
        /\ \A i \in 1..n : payload[i] = <<p, u, i>>
    BY <1>2, <1>3, CellsFromOne
  <2> HIDE DEF payload
  <2>2. 1 \in 1..n
    BY <1>2
  <2> QED
    BY <2>1, <2>2
<1>10. Len(payload) \in 1..MaxPayload /\ flags \in AfFlags \cup {Plain} /\ start \in BOOLEAN
  BY <1>2, <1>9
<1>11. start /\ payload = Cells(p, Len(new), 1, new[Len(new)].sent)
  BY <1>7
<1>12. Over(list)
  BY DEF SendStart, UnitDone, Last, Over
<1> HIDE DEF payload, start, u, list, new, record
<1>13. /\ pkt.pid = p /\ pkt.payload_unit_start_indicator = start /\ pkt.head = head
       /\ BytesFrom(pkt, parseTsPacketInfo(pkt).payloadStartOffset) = payload
       /\ \A i \in DOMAIN payload : pkt.bytes[Offset(pkt) + i] = payload[i]
  BY <1>9, <1>10, PayloadIsFound, PayloadIsCopied
<1> HIDE DEF pkt
<1>14. /\ OthersRest(p) /\ DamageStays(p) /\ lastPacket'[p] = pkt
       /\ \/ Arrive(p, pkt, 1) /\ damaged'[p] = damaged[p]
          \/ /\ Untouched(p)
             /\ damaged'[p] = damaged[p] \cup ({Len(units'[p])} \cup OpenUnit(p))
  BY <1>4, <1>6, <1>10, <1>11, <1>13, TransferMeans
<1>15. LastStart(p, new, lastPacket'[p])
  <2>1. 1 \in DOMAIN payload
    BY <1>9, <1>10
  <2>2. pkt.bytes[Offset(pkt) + 1] = <<p, Len(new), 1>>
    BY <1>7, <1>9, <1>13, <2>1
  <2> QED
    BY <1>14, <2>2 DEF LastStart
<1>16. ASSUME Arrive(p, pkt, 1), damaged'[p] = damaged[p] PROVE StartCame(p)
  <2>1. /\ mPesPacket'[p] = parsePesPacket(head, payload)
        /\ Called(delivered[p], Ended(mPesPacket[p]), delivered'[p])
    <3>1. pkt.payload_unit_start_indicator
      BY <1>11, <1>13
    <3>2. /\ mPesPacket'[p] = parsePesPacket(pkt.head,
                                 BytesFrom(pkt, parseTsPacketInfo(pkt).payloadStartOffset))
          /\ Called(delivered[p], Ended(mPesPacket[p]), delivered'[p])
      BY <1>13, <1>16, <3>1, StartIsCollected
    <3> QED
      BY <1>13, <3>2
  <2>2. mPesPacket'[p] = parsePesPacket(new[Len(new)].head,
                                        Cells(p, Len(new), 1, new[Len(new)].sent))
    BY <1>7, <1>11, <2>1
  <2> QED
    BY <1>16, <2>1, <2>2 DEF StartCame, new
<1> QED
  BY <1>5, <1>7, <1>8, <1>12, <1>14, <1>15, <1>16 DEF StartMeans, StartLost, list, new

\* More of the last unit.
LEMMA SendMoreMeans ==
  ASSUME HeadInv, DOMAIN damaged = Pids, NEW p \in Pids, Sized(units[p]), SendMore(p)
  PROVE  MoreMeans(p)
<1> DEFINE list == units[p]
           new == units'[p]
           N == Len(list)
           unit == list[N]
           head == unit.head
<1>1. /\ list # <<>> /\ list \in Seq(UnitRecord) /\ N \in Nat \ {0} /\ N \in DOMAIN list
      /\ unit \in UnitRecord
  BY DEF SendMore, HeadInv, SenderInv
<1>2. /\ head \in Heads /\ unit.sent \in Nat /\ PesSize(head) \in Nat /\ MaxPayload \in Nat
  BY <1>1, SizesAreNumbers DEF UnitRecord
<1>3. PICK flags \in AfFlags, k \in 1..SizeOrLess(MaxPayload, PesSize(head) - unit.sent) :
        /\ ResumeUnit(p, k)
        /\ Transfer(p, PayloadPacket(p, FALSE, flags, head,
                                     Cells(p, N, unit.sent + 1, unit.sent + k)))
  BY DEF SendMore, Last, CurrentUnit
<1>4. k \in Nat /\ k > 0 /\ k <= MaxPayload /\ k <= PesSize(head) - unit.sent
  BY <1>2 DEF SizeOrLess
<1> DEFINE first == unit.sent + 1
           final == unit.sent + k
           payload == Cells(p, N, first, final)
           start == FALSE
           pkt == PayloadPacket(p, start, flags, head, payload)
<1>5. OnlyGrows(p)
  BY <1>1, <1>3, <1>4, ResumeGrows DEF HeadInv
<1>6. Transfer(p, pkt)
  BY <1>3
<1>7. new = [list EXCEPT ![N].sent = @ + k] /\ new \in Seq(UnitRecord)
  <2>1. new = MoreSent(list, k)
    BY <1>3 DEF ResumeUnit, HeadInv, SenderInv
  <2>2. new = [list EXCEPT ![N].sent = @ + k]
    BY <1>4, <2>1 DEF MoreSent
  <2>3. new \in Seq(UnitRecord)
    BY <1>5 DEF OnlyGrows, SenderInv
  <2> QED
    BY <2>2, <2>3
<1>8. GrownBy(list, new, k)
  <2>1. new[N] = [list[N] EXCEPT !.sent = @ + k] /\ Len(new) = N
    BY <1>1, <1>7
  <2>2. new[N].sent = unit.sent + k /\ new[N].head = head
    BY <1>1, <2>1 DEF UnitRecord
  <2>3. \A u \in 1..(N - 1) : new[u] = list[u]
    BY <1>1, <1>7
  <2> QED
    BY <2>1, <2>2, <2>3 DEF GrownBy
<1>9. Sized(new)
  <2>1. DOMAIN new = DOMAIN list /\ \A u \in DOMAIN list : u = N \/ u \in 1..(N - 1)
    BY <1>1, <1>7
  <2>2. new[N].sent >= PesHeaderSize /\ new[N].sent <= PesSize(new[N].head)
    <3>1. unit.sent >= PesHeaderSize /\ PesHeaderSize \in Nat
      BY <1>1, PesHeaderAssumption DEF Sized
    <3>2. new[N].sent = unit.sent + k /\ new[N].head = head
      BY <1>8 DEF GrownBy
    <3> HIDE DEF new, unit, head
    <3> QED
      BY <1>2, <1>4, <3>1, <3>2
  <2>3. \A u \in 1..(N - 1) : new[u] = list[u]
    BY <1>8 DEF GrownBy
  <2> HIDE DEF new
  <2> QED
    BY <2>1, <2>2, <2>3 DEF Sized
<1>10. payload \in Seq(Cell) /\ Len(payload) = k
  <2>1. first \in Nat /\ final \in Nat /\ k \in Nat /\ final - first + 1 = k
    <3>1. unit.sent \in Nat /\ k \in Nat /\ k > 0
      BY <1>2, <1>4
    <3> HIDE DEF unit
    <3> QED
      BY <3>1
  <2> HIDE DEF first, final
  <2>2. IsRun(payload, p, N, first, k)
    BY <1>1, <2>1, CellsRun, Zenon
  <2> HIDE DEF payload
  <2> QED
    BY <2>2 DEF IsRun
<1>11. Len(payload) \in 1..MaxPayload /\ flags \in AfFlags \cup {Plain} /\ start \in BOOLEAN
  BY <1>2, <1>4, <1>10
<1>12. ~start /\ payload = Cells(p, N, unit.sent + 1, unit.sent + k)
  OBVIOUS
<1> HIDE DEF payload, start
<1>13. /\ pkt.pid = p /\ pkt.payload_unit_start_indicator = start
       /\ BytesFrom(pkt, parseTsPacketInfo(pkt).payloadStartOffset) = payload
  BY <1>10, <1>11, PayloadIsFound, PayloadIsCopied
<1> HIDE DEF pkt
<1>14. /\ OthersRest(p) /\ DamageStays(p) /\ lastPacket'[p] = pkt
       /\ \/ Arrive(p, pkt, 1) /\ damaged'[p] = damaged[p]
          \/ /\ Untouched(p)
             /\ damaged'[p] = damaged[p] \cup ({Len(units'[p])} \cup {})
  BY <1>5, <1>6, <1>11, <1>12, <1>13, TransferMeans
<1>15. ASSUME Arrive(p, pkt, 1), damaged'[p] = damaged[p] PROVE MoreCame(p, k)
  BY <1>12, <1>13, <1>15, MoreIsCollected DEF MoreCame
<1>16. MoreLost(p) \/ MoreCame(p, k)
  BY <1>14, <1>15 DEF MoreLost
<1> HIDE DEF new
<1> QED
  BY <1>1, <1>4, <1>7, <1>8, <1>9, <1>12, <1>13, <1>14, <1>16 DEF MoreMeans, new

\* The last packet comes again.
LEMMA RepeatMeans ==
  ASSUME HeadInv, DOMAIN damaged = Pids, NEW p \in Pids, RepeatPacket(p)
  PROVE  StillMeans(p)
<1> DEFINE pkt == lastPacket[p]
<1>1. /\ pkt # NoPacket /\ lastPacket' = [lastPacket EXCEPT ![p] = NoPacket]
      /\ units' = units /\ Arrive(p, pkt, 0) /\ Fault("repeat", p, OpenUnit(p))
  BY DEF RepeatPacket, Repeatable, Remember, sender
<1>2. ParsablePacket(units[p], p, pkt) /\ pkt.pid = p
  BY <1>1 DEF HeadInv, ChannelInv, ParsablePacket
<1>3. /\ \A q \in Pids \ {p} : lastPacket'[q] = lastPacket[q]
      /\ lastPacket'[p] = NoPacket
  BY <1>1 DEF HeadInv, ChannelInv
<1>4. DamageStays(p) /\ damaged'[p] = damaged[p] \cup OpenUnit(p)
  BY <1>1, HarmIsKept
<1>5. OthersRest(p)
  BY <1>1, <1>2, <1>3, ArriveOnOne DEF OthersRest
<1> HIDE DEF pkt
<1> DEFINE copied == BytesFrom(pkt, parseTsPacketInfo(pkt).payloadStartOffset)
<1>6. copied \in Seq(Cell) /\ copied[1] = pkt.bytes[Offset(pkt) + 1]
  BY <1>2, CopiedBytes
<1>7. CASE pkt.payload_unit_start_indicator
  <2>1. /\ mPesPacket'[p] = parsePesPacket(pkt.head, copied)
        /\ Called(delivered[p], Ended(mPesPacket[p]), delivered'[p])
    BY <1>1, <1>2, <1>7, StartIsCollected
  <2>2. mPesPacket'[p].mPesBuffer[1] = pkt.bytes[Offset(pkt) + 1]
    BY <1>6, <2>1 DEF parsePesPacket
  <2> QED
    BY <1>1, <1>3, <1>4, <1>5, <1>7, <2>1, <2>2 DEF StillMeans, pkt
<1>8. CASE ~pkt.payload_unit_start_indicator
  <2> HIDE DEF copied
  <2>1. /\ mPesPacket[p] = NoPes => Untouched(p)
        /\ mPesPacket[p] # NoPes => Collected(p, Extended(mPesPacket[p], copied))
    BY <1>1, <1>2, <1>8, MoreIsCollected DEF copied
  <2> QED
    BY <1>1, <1>3, <1>4, <1>5, <1>6, <2>1 DEF StillMeans
<1> QED
  BY <1>7, <1>8

\* A packet without payload.
LEMMA AdaptationMeans ==
  ASSUME HeadInv, DOMAIN damaged = Pids, NEW p \in Pids, SendAdaptation(p)
  PROVE  StillMeans(p)
<1>1. PICK flags \in AfFlags : Arrive(p, AdaptationPacket(p, flags), 0)
  BY DEF SendAdaptation
<1> DEFINE pkt == AdaptationPacket(p, flags)
           copied == BytesFrom(pkt, parseTsPacketInfo(pkt).payloadStartOffset)
<1>2. /\ pkt.pid = p /\ pkt.payload_unit_start_indicator = FALSE
      /\ pkt.bytes \in Seq(Cell) /\ Len(pkt.bytes) = TsPacketSize /\ Offset(pkt) = 0
  BY NoPayloadIsWholePacket
<1>3. units' = units /\ lastPacket' = lastPacket /\ Fault("adaptation", p, OpenUnit(p))
  BY DEF SendAdaptation, sender
<1>4. Arrive(p, pkt, 0)
  BY <1>1
<1> HIDE DEF pkt
<1>5. ParsablePacket(units[p], p, pkt)
  <2>1. 0 \in 0..(TsPacketSize - 1)
    BY PacketAssumption
  <2>2. pkt.payload_unit_start_indicator \in BOOLEAN /\ ~pkt.payload_unit_start_indicator
    BY <1>2
  <2> QED
    BY <1>2, <2>1, <2>2 DEF ParsablePacket
<1>6. copied \in Seq(Cell)
  BY <1>5, CopiedBytes
<1>7. DamageStays(p) /\ damaged'[p] = damaged[p] \cup OpenUnit(p)
  BY <1>3, HarmIsKept
<1>8. OthersRest(p)
  BY <1>2, <1>3, <1>4, ArriveOnOne DEF OthersRest
<1> HIDE DEF copied
<1>9. /\ mPesPacket[p] = NoPes => Untouched(p)
      /\ mPesPacket[p] # NoPes => Collected(p, Extended(mPesPacket[p], copied))
  BY <1>2, <1>4, MoreIsCollected DEF copied
<1> QED
  BY <1>3, <1>6, <1>7, <1>8, <1>9 DEF StillMeans


\* The steps keep the callbacks of a PID in order while it comes to no harm.
LEMMA StartSteps ==
  ASSUME HeadInv, OrderInv, NEW p \in Pids, StartMeans(p)
  PROVE  StepOf(p)
<1> DEFINE list == units[p]
           new == units'[p]
           out == delivered[p]
           more == delivered'[p]
           pes == mPesPacket[p]
           last == lastPacket[p]
           next == lastPacket'[p]
           unit == new[Len(new)]
           started == parsePesPacket(unit.head, Cells(p, Len(new), 1, unit.sent))
<1>1. ASSUME damaged'[p] = {} PROVE InOrderNow(p)' /\ Served(p)
  <2>1. ~StartLost(p) /\ damaged[p] = {}
    BY <1>1 DEF StartMeans, DamageStays, StartLost
  <2>2. mPesPacket'[p] = started /\ Called(out, Ended(pes), more)
    BY <2>1 DEF StartMeans, StartCame
  <2>3. Sized(list) /\ InOrder(p, list, out, pes, last)
    BY <2>1 DEF OrderInv
  <2>4. Over(list) /\ new # <<>> /\ Begun(list, new)
    BY DEF StartMeans
  <2>5. IsSeq(out) /\ list \in Seq(UnitRecord) /\ p \in Pids
    BY DEF HeadInv, DeliveredInv, SenderInv
  <2> HIDE DEF list, new, out, more, pes, last, next
  <2>6. UnderWay(p, new, more, started) /\ Whole(p, new, more) /\ Longer(out, more)
    BY ONLY <2>2, <2>3, <2>4, <2>5, StartKeepsOrder
  <2> HIDE DEF started
  <2>7. InOrder(p, new, more, mPesPacket'[p], next)
    BY <2>2, <2>6 DEF InOrder
  <2> QED
    BY <2>4, <2>6, <2>7 DEF InOrderNow, Served, list, new, out, more, next
<1> QED
  BY <1>1 DEF StepOf, StartMeans

LEMMA MoreSteps ==
  ASSUME HeadInv, OrderInv, NEW p \in Pids, MoreMeans(p)
  PROVE  StepOf(p)
<1> DEFINE list == units[p]
           N == Len(list)
           new == units'[p]
           out == delivered[p]
           more == delivered'[p]
           pes == mPesPacket[p]
           last == lastPacket[p]
           next == lastPacket'[p]
<1>1. ASSUME damaged'[p] = {} PROVE InOrderNow(p)' /\ Served(p)
  <2>1. PICK k \in Nat :
          /\ k > 0 /\ k <= PesSize(list[N].head) - list[N].sent
          /\ GrownBy(list, new, k)
          /\ MoreLost(p) \/ MoreCame(p, k)
    BY DEF MoreMeans
  <2> DEFINE longer == Extended(pes, Cells(p, N, list[N].sent + 1, list[N].sent + k))
  <2>2. MoreCame(p, k) /\ damaged[p] = {}
    BY <1>1, <2>1 DEF MoreMeans, DamageStays, MoreLost
  <2>3. Sized(list) /\ InOrder(p, list, out, pes, last) /\ pes \in PesRecord
    BY <2>2 DEF OrderInv, HeadInv, CollectorInv
  <2>4. /\ IsSeq(out) /\ list \in Seq(UnitRecord) /\ new \in Seq(UnitRecord) /\ p \in Pids
        /\ list # <<>> /\ N \in DOMAIN list /\ list[N] \in UnitRecord /\ N \in Nat
    BY DEF HeadInv, DeliveredInv, SenderInv, MoreMeans
  <2>5. pes # NoPes /\ Len(out) + 1 = N /\ Len(out) \in Nat
    <3>1. list[N].sent \in Nat /\ PesSize(list[N].head) \in Nat
      BY <2>4, SizesAreNumbers DEF UnitRecord
    <3>2. list[N].sent < PesSize(list[N].head)
      BY <2>1, <3>1
    <3>3. Len(out) \in Nat
      BY <2>4 DEF IsSeq
    <3> HIDE DEF list, out, pes, last
    <3> QED
      BY <2>3, <2>4, <3>2, <3>3, MoreToCome
  <2>6. mPesPacket'[p] = Remaining(longer) /\ Called(out, Finished(longer), more)
    BY <2>2, <2>5 DEF MoreCame, Collected
  <2>7. ~next.payload_unit_start_indicator
    BY DEF MoreMeans
  <2>8. k \in Nat /\ k > 0 /\ k <= PesSize(list[Len(list)].head) - list[Len(list)].sent
    BY <2>1
  <2>9. longer = Extended(pes, Cells(p, Len(list), list[Len(list)].sent + 1,
                                     list[Len(list)].sent + k))
    OBVIOUS
  <2>10. GrownBy(list, new, k)
    BY <2>1
  <2> HIDE DEF N, list, new, out, more, pes, last, next, longer
  <2>11. InOrder(p, new, more, Remaining(longer), next) /\ Longer(out, more)
    BY ONLY <2>3, <2>4, <2>6, <2>7, <2>8, <2>9, <2>10, MoreKeepsOrder
  <2>12. Len(out) < Len(list)
    BY <2>5 DEF N
  <2> QED
    BY <2>4, <2>6, <2>8, <2>10, <2>11, <2>12
       DEF InOrderNow, Served, list, new, out, more, next
<1> QED
  BY <1>1 DEF StepOf, MoreMeans

\* At rest a repeated packet is no start, so that nothing is begun anew.
LEMMA StillSteps ==
  ASSUME HeadInv, OrderInv, NEW p \in Pids, StillMeans(p)
  PROVE  StepOf(p)
<1>1. ASSUME damaged'[p] = {} PROVE InOrderNow(p)' /\ Served(p)
  <2>1. mPesPacket[p] = NoPes /\ damaged[p] = {}
    BY <1>1 DEF StillMeans, OpenUnit
  <2>2. InOrder(p, units[p], delivered[p], mPesPacket[p], lastPacket[p])
    BY <2>1 DEF OrderInv
  <2>3. AtRest(units[p], delivered[p], mPesPacket[p], lastPacket[p])
    <3>1. units[p] \in Seq(UnitRecord) /\ Sized(units[p])
      BY DEF HeadInv, SenderInv, OrderInv
    <3> QED
      BY <2>1, <2>2, <3>1, UnderWayBuffer DEF InOrder
  <2>4. Untouched(p)
    BY <2>1, <2>3 DEF StillMeans, AtRest
  <2>5. AtRest(units[p], delivered[p], mPesPacket[p], lastPacket'[p])
    BY <2>3 DEF AtRest, StillMeans
  <2>6. units'[p] = units[p]
    BY DEF StillMeans
  <2> QED
    BY <2>2, <2>4, <2>5, <2>6 DEF InOrder, InOrderNow, Served, Untouched
<1>2. Sized(units'[p])
  BY DEF StillMeans, OrderInv
<1> QED
  BY <1>1, <1>2 DEF StepOf, StillMeans

\* Every step is a packet of one PID.
LEMMA NextMeans ==
  ASSUME HeadInv, DOMAIN damaged = Pids, \A p \in Pids : Sized(units[p]), Next
  PROVE  \E p \in Pids : StartMeans(p) \/ MoreMeans(p) \/ StillMeans(p)
<1>1. PICK p \in Pids : SendStart(p) \/ SendMore(p) \/ RepeatPacket(p) \/ SendAdaptation(p)
  BY DEF Next
<1>2. Sized(units[p])
  OBVIOUS
<1> QED
  BY <1>1, <1>2, SendStartMeans, SendMoreMeans, RepeatMeans, AdaptationMeans

LEMMA NextSteps ==
  ASSUME HeadInv, OrderInv, Next
  PROVE  \E p \in Pids : StepOf(p)
<1>1. DOMAIN damaged = Pids /\ \A p \in Pids : Sized(units[p])
  BY DEF OrderInv
<1>2. PICK p \in Pids : StartMeans(p) \/ MoreMeans(p) \/ StillMeans(p)
  BY <1>1, NextMeans
<1> QED
  BY <1>2, StartSteps, MoreSteps, StillSteps

LEMMA NextKeepsOrder == HeadInv /\ OrderInv /\ [Next]_vars => OrderInv'
<1> SUFFICES ASSUME HeadInv, OrderInv, [Next]_vars PROVE OrderInv'
  OBVIOUS
<1>1. CASE UNCHANGED vars
  BY <1>1 DEF OrderInv, vars, sender, receiver, channel, history
<1>2. CASE Next
  <2>1. PICK p \in Pids : StepOf(p)
    BY <1>2, NextSteps
  <2>2. DOMAIN damaged' = Pids
    BY <2>1 DEF StepOf, DamageStays
  <2>3. ASSUME NEW q \in Pids
        PROVE  /\ Sized(units'[q])
               /\ damaged'[q] = {} =>
                    InOrder(q, units'[q], delivered'[q], mPesPacket'[q], lastPacket'[q])
    <3>1. CASE q = p
      BY <2>1, <3>1 DEF StepOf, InOrderNow
    <3>2. CASE q # p
      BY <2>1, <3>2 DEF StepOf, OthersRest, DamageStays, OrderInv
    <3> QED
      BY <3>1, <3>2
  <2> QED
    BY <2>2, <2>3 DEF OrderInv
<1> QED
  BY <1>1, <1>2

LEMMA InitIsInOrder == Init => OrderInv
<1> SUFFICES ASSUME Init, NEW p \in Pids
             PROVE  Sized(units[p]) /\ InOrder(p, units[p], delivered[p], mPesPacket[p], lastPacket[p])
  BY DEF OrderInv, Init, InitChannel
<1>1. units[p] = <<>> /\ delivered[p] = <<>> /\ mPesPacket[p] = NoPes /\ lastPacket[p] = NoPacket
  BY DEF Init, InitSender, InitChannel, InitPes
<1> QED
  BY <1>1 DEF Sized, InOrder, Whole, AtRest

-----------------------------------------------------------------------------
(* The service *)

\* What UnitDelivery takes for the callbacks of a PID.
GivenUnits(out) == [i \in DOMAIN out |-> out[i].pes.mPesBuffer]

Buffers(out) == IsSeq(out) /\ \A i \in DOMAIN out : out[i].pes.mPesBuffer \in Seq(Cell)

LEMMA CallbacksAreSeqs ==
  ASSUME NEW out, Buffers(out)
  PROVE  /\ GivenUnits(out) \in Seq(Seq(Cell)) /\ Len(GivenUnits(out)) = Len(out)
         /\ Len(out) \in Nat
         /\ \A i \in 1..Len(out) : GivenUnits(out)[i] = out[i].pes.mPesBuffer
<1>1. DOMAIN out = 1..Len(out) /\ Len(out) \in Nat
  BY DEF Buffers, IsSeq
<1>2. GivenUnits(out) \in [1..Len(out) -> Seq(Cell)]
  BY <1>1 DEF GivenUnits, Buffers
<1>3. GivenUnits(out) \in Seq(Seq(Cell)) /\ Len(GivenUnits(out)) = Len(out)
  BY <1>1, <1>2
<1> QED
  BY <1>1, <1>3 DEF GivenUnits

\* The callbacks go on, and are the units, all but the last at most.
LEMMA InOrderMeans ==
  ASSUME NEW p \in Pids, NEW new \in Seq(UnitRecord), NEW out, Buffers(out),
         NEW more, Buffers(more), Longer(out, more), NEW pes, NEW last,
         InOrder(p, new, more, pes, last)
  PROVE  LET d == GivenUnits(out)
             e == GivenUnits(more)
             t == SentUnits(p, new)
         IN  IsPrefix(d, e) /\ IsPrefix(e, t) /\ Len(e) >= Len(t) - 1
<1> DEFINE d == GivenUnits(out)
           e == GivenUnits(more)
           t == SentUnits(p, new)
<1>1. /\ d \in Seq(Seq(Cell)) /\ Len(d) = Len(out) /\ Len(out) \in Nat
      /\ \A i \in 1..Len(out) : d[i] = out[i].pes.mPesBuffer
      /\ e \in Seq(Seq(Cell)) /\ Len(e) = Len(more) /\ Len(more) \in Nat
      /\ \A i \in 1..Len(more) : e[i] = more[i].pes.mPesBuffer
  BY CallbacksAreSeqs
<1>2. /\ t \in Seq(Seq(Cell)) /\ Len(t) = Len(new) /\ Len(new) \in Nat
      /\ \A u \in 1..Len(new) : t[u] = Cells(p, u, 1, new[u].sent)
  BY UnitsAreSeqs
<1> HIDE DEF d, e, t
<1>3. Len(more) = Len(new) \/ Len(more) + 1 = Len(new)
  BY DEF InOrder, AtRest, UnderWay
<1>4. IsPrefix(d, e)
  <2>1. ASSUME NEW i \in 1..Len(d) PROVE e[i] = d[i]
    <3>1. i \in 1..Len(out) /\ i \in 1..Len(more) /\ more[i] = out[i]
      BY <1>1 DEF Longer
    <3>2. d[i] = out[i].pes.mPesBuffer /\ e[i] = more[i].pes.mPesBuffer
      BY <1>1, <3>1
    <3> QED
      BY <3>1, <3>2
  <2>2. Len(d) <= Len(e)
    BY <1>1 DEF Longer
  <2> QED
    BY <1>1, <2>1, <2>2, PrefixByElements
<1>5. IsPrefix(e, t)
  <2>1. Len(e) <= Len(t) /\ \A i \in 1..Len(e) : t[i] = e[i]
    BY <1>1, <1>2, <1>3 DEF InOrder, Whole
  <2> QED
    BY <1>1, <1>2, <2>1, PrefixByElements
<1>6. Len(e) >= Len(t) - 1
  BY <1>1, <1>2, <1>3
<1> QED
  BY <1>4, <1>5, <1>6 DEF d, e, t

LEMMA CallbacksAreBuffers ==
  ASSUME HeadInv, NEW p \in Pids
  PROVE  Buffers(delivered[p]) /\ units[p] \in Seq(UnitRecord)
<1>1. ASSUME NEW i \in DOMAIN delivered[p] PROVE delivered[p][i].pes.mPesBuffer \in Seq(Cell)
  <2>1. delivered[p][i].pes \in PesRecord
    BY DEF HeadInv, DeliveredInv, HeadedPes
  <2> QED
    BY <2>1 DEF PesRecord
<1> QED
  BY <1>1 DEF Buffers, HeadInv, DeliveredInv, SenderInv

\* A step of the packets is one of the service, or none.
LEMMA StepIsServed ==
  ASSUME HeadInv, HeadInv', NEW p \in Pids, StepOf(p)
  PROVE  Service!Next \/ UNCHANGED Service!vars
<1> DEFINE s == [q \in Pids |-> [u \in DOMAIN units[q] |-> Unit(q, u)]]
           d == [q \in Pids |-> [i \in DOMAIN delivered[q] |-> delivered[q][i].pes.mPesBuffer]]
           h == {q \in Pids : damaged[q] # {}}
<1>1. \A q \in Pids : /\ s[q] = SentUnits(q, units[q]) /\ s'[q] = SentUnits(q, units'[q])
                      /\ d[q] = GivenUnits(delivered[q]) /\ d'[q] = GivenUnits(delivered'[q])
  BY DEF SentUnits, GivenUnits, Unit
<1>2. h \subseteq h' /\ (p \in h' <=> damaged'[p] # {}) /\ (damaged'[p] = {} => h' = h)
  BY DEF StepOf, DamageStays
<1>3. DOMAIN s = Pids /\ DOMAIN s' = Pids /\ DOMAIN d = Pids /\ DOMAIN d' = Pids
  OBVIOUS
<1>4. s' = [q \in Pids |-> s'[q]] /\ d' = [q \in Pids |-> d'[q]]
      /\ s = [q \in Pids |-> s[q]] /\ d = [q \in Pids |-> d[q]]
  OBVIOUS
<1>5. Service!OthersKeep(p)
  <2> HIDE DEF s, d
  <2>1. \A q \in Pids \ {p} : s'[q] = s[q] /\ d'[q] = d[q]
    BY <1>1 DEF StepOf, OthersRest
  <2> QED
    BY <2>1 DEF Service!OthersKeep, s, d
<1>6. CASE damaged'[p] # {}
  <2>1. Service!Harm(p)
    BY <1>2, <1>6 DEF Service!Harm, h
  <2> QED
    BY <1>2, <1>5, <2>1 DEF Service!Next, h
<1>7. CASE /\ damaged'[p] = {}
           /\ units'[p] = units[p] /\ delivered'[p] = delivered[p]
  <2> HIDE DEF s, d, h
  <2>1. \A q \in Pids : s'[q] = s[q] /\ d'[q] = d[q]
    BY <1>1, <1>7 DEF StepOf, OthersRest
  <2>2. s' = s /\ d' = d
    BY <1>4, <2>1
  <2>3. h' = h
    BY <1>2, <1>7
  <2> QED
    BY <2>2, <2>3 DEF Service!vars, s, d, h
<1>8. CASE /\ damaged'[p] = {}
           /\ ~(units'[p] = units[p] /\ delivered'[p] = delivered[p])
  <2> DEFINE list == units[p]
             new == units'[p]
             out == delivered[p]
             more == delivered'[p]
  <2>1. /\ Buffers(out) /\ list \in Seq(UnitRecord)
        /\ Buffers(more) /\ new \in Seq(UnitRecord)
    <3>1. Buffers(delivered[p])' /\ (units[p] \in Seq(UnitRecord))'
      BY CallbacksAreBuffers, PTL
    <3> QED
      BY <3>1, CallbacksAreBuffers
  <2>2. InOrder(p, new, more, mPesPacket'[p], lastPacket'[p])
    BY <1>8 DEF StepOf, InOrderNow
  <2>3. /\ Longer(out, more)
        /\ \/ Begun(list, new)
           \/ /\ list # <<>> /\ Len(out) < Len(list)
              /\ \E k \in Nat : GrownBy(list, new, k)
    BY <1>8 DEF StepOf, Served
  <2> HIDE DEF list, new, out, more
  <2>4. /\ IsPrefix(GivenUnits(out), GivenUnits(more))
        /\ IsPrefix(GivenUnits(more), SentUnits(p, new))
        /\ Len(GivenUnits(more)) >= Len(SentUnits(p, new)) - 1
    BY <2>1, <2>2, <2>3, InOrderMeans
  <2>5. /\ s[p] = SentUnits(p, list) /\ s'[p] = SentUnits(p, new)
        /\ d[p] = GivenUnits(out) /\ d'[p] = GivenUnits(more)
    BY <1>1 DEF list, new, out, more
  <2>6. Service!Deliver(p)
    <3> HIDE DEF s, d
    <3>1. IsPrefix(d[p], d'[p]) /\ IsPrefix(d'[p], s'[p]) /\ Len(d'[p]) >= Len(s'[p]) - 1
      BY <2>4, <2>5
    <3> QED
      BY <3>1 DEF Service!Deliver, Service!IsPrefix, IsPrefix, s, d
  <2>7. CASE Begun(list, new)
    <3> HIDE DEF s, d
    <3>1. s'[p] # <<>> /\ Front(s'[p]) = s[p]
      BY <2>1, <2>5, <2>7, BegunMeans
    <3>2. Service!Begin(p)
      BY <3>1 DEF Service!Begin, Service!Front, Front, s
    <3> QED
      BY <1>2, <1>5, <2>6, <3>2 DEF Service!Next, h
  <2>8. CASE list # <<>> /\ Len(out) < Len(list) /\ \E k \in Nat : GrownBy(list, new, k)
    <3>1. PICK k \in Nat : GrownBy(list, new, k)
      BY <2>8
    <3> HIDE DEF s, d
    <3>2. /\ Len(s[p]) = Len(list) /\ Len(s'[p]) = Len(s[p]) /\ Front(s'[p]) = Front(s[p])
          /\ IsPrefix(Last(s[p]), Last(s'[p]))
      BY <2>1, <2>5, <2>8, <3>1, GrownMeans
    <3>3. Len(d[p]) < Len(s[p])
      BY <2>1, <2>5, <2>8, <3>2, CallbacksAreSeqs
    <3>4. Service!Grow(p)
      BY <3>2, <3>3
         DEF Service!Grow, Service!Front, Service!IsPrefix, Service!Last,
             Front, IsPrefix, Last, s, d
    <3> QED
      BY <1>2, <1>5, <2>6, <3>4 DEF Service!Next, h
  <2> QED
    BY <2>3, <2>7, <2>8
<1> QED
  BY <1>6, <1>7, <1>8

\* Until a fault touches a PES packet of a PID, and for every size and number of
\* them: collectPes hands out every PES packet of that PID whole, in order, once,
\* and no later than when the next one starts.
THEOREM AlwaysDeliversUnits == Spec => DeliversUnits
<1> DEFINE Inv == HeadInv /\ OrderInv
<1>1. Init => Inv
  BY InitHasHeads, InitIsInOrder
<1>2. Inv /\ [Next]_vars => Inv'
  BY NextKeepsHeads, NextKeepsOrder
<1>3. Init => Service!Init
  BY DEF Init, InitSender, InitChannel, Service!Init
<1>4. Inv /\ Inv' /\ [Next]_vars => [Service!Next]_(Service!vars)
  <2> SUFFICES ASSUME Inv, Inv', [Next]_vars PROVE [Service!Next]_(Service!vars)
    OBVIOUS
  <2>1. CASE UNCHANGED vars
    BY <2>1 DEF vars, sender, receiver, channel, history, Service!vars, Unit
  <2>2. CASE Next
    BY <2>2, NextSteps, StepIsServed
  <2> QED
    BY <2>1, <2>2
<1> QED
  BY <1>1, <1>2, <1>3, <1>4, PTL DEF Spec, DeliversUnits, Service!Spec

-----------------------------------------------------------------------------
(* Damage is contained *)

Begins(p, pes, u) == pes.mPesBuffer[1] = <<p, u, 1>>

\* A callback gives a unit, as far as it was sent.
IsUnit(p, list, call, u) == call.pes.mPesBuffer = Cells(p, u, 1, list[u].sent)

KnownCall(p, list, call, harm) ==
  \E u \in DOMAIN list : Begins(p, call.pes, u) /\ (u \in harm \/ IsUnit(p, list, call, u))

Once(p, list, out, u) ==
  \E i \in DOMAIN out :
    IsUnit(p, list, out[i], u) /\ \A j \in DOMAIN out : IsUnit(p, list, out[j], u) => j = i

\* Every callback is a unit or begins with one that came to harm.
Known(p, list, out, harm) == \A i \in DOMAIN out : KnownCall(p, list, out[i], harm)

\* Every unit but the last was given once or came to harm.
Settled(p, list, out, harm) ==
  \A u \in 1..(Len(list) - 1) : u \in harm \/ Once(p, list, out, u)

NoneBegins(p, out, u) == \A i \in DOMAIN out : ~Begins(p, out[i].pes, u)

\* The last unit was given by its length; or all of it that was sent is under
\* collection; or it came to harm, and so did what is under collection.
Rests(p, list, out, pes, last) ==
  /\ pes = NoPes
  /\ list # <<>> =>
       LET unit == list[Len(list)]
       IN  unit.sent = PesSize(unit.head) /\ Once(p, list, out, Len(list))
  /\ last # NoPacket => ~last.payload_unit_start_indicator

IsOpen(p, list, out, pes) ==
  /\ list # <<>> /\ NoneBegins(p, out, Len(list))
  /\ pes.mPesBuffer = Cells(p, Len(list), 1, list[Len(list)].sent)
  /\ pes.PES_packet_length = list[Len(list)].head.PES_packet_length

IsHurt(p, list, pes, harm) ==
  /\ list # <<>> /\ Len(list) \in harm
  /\ pes # NoPes => \E u \in harm \cap DOMAIN list : Begins(p, pes, u)

Contained(p, list, out, pes, last, harm) ==
  /\ Known(p, list, out, harm) /\ Settled(p, list, out, harm) /\ LastStart(p, list, last)
  /\ \/ Rests(p, list, out, pes, last)
     \/ IsOpen(p, list, out, pes)
     \/ IsHurt(p, list, pes, harm)

\* The inductive invariant.
ContainedInv ==
  /\ DOMAIN damaged = Pids
  /\ \A p \in Pids :
       /\ Sized(units[p])
       /\ Contained(p, units[p], delivered[p], mPesPacket[p], lastPacket[p], damaged[p])

LEMMA UnitSizes ==
  ASSUME NEW list \in Seq(UnitRecord), Sized(list), NEW u \in DOMAIN list
  PROVE  /\ u \in Nat \ {0} /\ list[u].head \in Heads
         /\ list[u].sent \in Nat \ {0} /\ PesSize(list[u].head) \in Nat
         /\ list[u].sent >= PesHeaderSize
<1>1. u \in Nat \ {0} /\ list[u] \in UnitRecord
  OBVIOUS
<1>2. list[u].head \in Heads /\ list[u].sent \in Nat
  BY <1>1 DEF UnitRecord
<1>3. PesHeaderSize \in Nat \ {0} /\ PesSize(list[u].head) \in Nat
  BY <1>2, SizesAreNumbers
<1>4. list[u].sent >= PesHeaderSize
  BY DEF Sized
<1> QED
  BY <1>1, <1>2, <1>3, <1>4

\* A unit begins with its own first cell.
LEMMA UnitBegins ==
  ASSUME NEW p \in Pids, NEW list \in Seq(UnitRecord), NEW u \in DOMAIN list, NEW pes,
         Sized(list), pes.mPesBuffer = Cells(p, u, 1, list[u].sent)
  PROVE  Begins(p, pes, u) /\ pes # NoPes /\ pes.mPesBuffer # <<>>
         /\ Len(pes.mPesBuffer) = list[u].sent
<1> DEFINE n == list[u].sent
           cells == Cells(p, u, 1, n)
<1>1. u \in Nat /\ n \in Nat /\ 1 \in 1..n
  BY UnitSizes
<1> HIDE DEF n
<1>2. Len(cells) = n /\ cells[1] = <<p, u, 1>> /\ cells # <<>>
  <2>1. Len(cells) = n /\ \A i \in 1..n : cells[i] = <<p, u, i>>
    BY <1>1, CellsFromOne
  <2> HIDE DEF cells
  <2> QED
    BY <1>1, <2>1
<1>3. pes.mPesBuffer = cells
  BY DEF n
<1> HIDE DEF cells
<1> QED
  BY <1>2, <1>3 DEF Begins, NoPes, n

\* A callback that is new begins with its own unit, so that the others stay
\* what they were.
LEMMA OneMoreKnown ==
  ASSUME NEW p \in Pids, NEW list \in Seq(UnitRecord), NEW out, NEW call, NEW more,
         NEW harm, NEW v \in DOMAIN list,
         Sized(list), IsSeq(out), Known(p, list, out, harm), Settled(p, list, out, harm),
         more = Append(out, call), Begins(p, call.pes, v),
         v \in harm \/ (v = Len(list) /\ IsUnit(p, list, call, v))
  PROVE  Known(p, list, more, harm) /\ Settled(p, list, more, harm)
<1>1. /\ DOMAIN more = DOMAIN out \cup {Len(out) + 1} /\ Len(out) + 1 \notin DOMAIN out
      /\ more[Len(out) + 1] = call /\ \A i \in DOMAIN out : more[i] = out[i]
  <2>1. /\ DOMAIN more = 1..(Len(out) + 1) /\ DOMAIN out = 1..Len(out) /\ Len(out) \in Nat
        /\ more[Len(out) + 1] = call /\ \A i \in DOMAIN out : more[i] = out[i]
    BY AppendIsSeq
  <2> QED
    BY <2>1
<1> DEFINE d == Len(out) + 1
<1> HIDE DEF d
<1>2. Known(p, list, more, harm)
  <2>1. KnownCall(p, list, call, harm)
    BY DEF KnownCall
  <2>2. ASSUME NEW i \in DOMAIN more PROVE KnownCall(p, list, more[i], harm)
    BY <1>1, <2>1 DEF Known
  <2> QED
    BY <2>2 DEF Known
<1>3. ASSUME NEW u \in 1..(Len(list) - 1), u \notin harm PROVE Once(p, list, more, u)
  <2>1. Once(p, list, out, u)
    BY <1>3 DEF Settled
  <2>2. PICK i \in DOMAIN out : /\ IsUnit(p, list, out[i], u)
                                /\ \A j \in DOMAIN out : IsUnit(p, list, out[j], u) => j = i
    BY <2>1 DEF Once
  <2>3. u \in DOMAIN list /\ u # Len(list)
    OBVIOUS
  <2>4. ~IsUnit(p, list, call, u)
    <3>1. SUFFICES ASSUME IsUnit(p, list, call, u) PROVE FALSE
      OBVIOUS
    <3>2. Begins(p, call.pes, u)
      BY <2>3, <3>1, UnitBegins DEF IsUnit
    <3>3. u = v
      BY <3>2 DEF Begins
    <3> QED
      BY <1>3, <2>3, <3>3
  <2>5. i \in DOMAIN more /\ IsUnit(p, list, more[i], u)
    BY <1>1, <2>2
  <2>6. ASSUME NEW j \in DOMAIN more, IsUnit(p, list, more[j], u) PROVE j = i
    BY <1>1, <2>2, <2>4, <2>6
  <2> QED
    BY <2>5, <2>6 DEF Once
<1> QED
  BY <1>2, <1>3 DEF Settled

\* A callback for a unit none began with is the only one for it.
LEMMA OneIsOnce ==
  ASSUME NEW p \in Pids, NEW list \in Seq(UnitRecord), NEW out, NEW call, NEW more,
         NEW v \in DOMAIN list,
         Sized(list), IsSeq(out), NoneBegins(p, out, v),
         more = Append(out, call), IsUnit(p, list, call, v)
  PROVE  Once(p, list, more, v)
<1>1. /\ DOMAIN more = DOMAIN out \cup {Len(out) + 1}
      /\ more[Len(out) + 1] = call /\ \A i \in DOMAIN out : more[i] = out[i]
  <2>1. /\ DOMAIN more = 1..(Len(out) + 1) /\ DOMAIN out = 1..Len(out) /\ Len(out) \in Nat
        /\ more[Len(out) + 1] = call /\ \A i \in DOMAIN out : more[i] = out[i]
    BY AppendIsSeq
  <2> QED
    BY <2>1
<1>2. ASSUME NEW j \in DOMAIN more, IsUnit(p, list, more[j], v) PROVE j = Len(out) + 1
  <2>1. SUFFICES ASSUME j \in DOMAIN out PROVE FALSE
    BY <1>1
  <2>2. more[j] = out[j]
    BY <1>1, <2>1
  <2>3. out[j].pes.mPesBuffer = Cells(p, v, 1, list[v].sent)
    BY <1>2, <2>2 DEF IsUnit
  <2>4. Begins(p, out[j].pes, v)
    BY <2>3, UnitBegins
  <2> QED
    BY <2>1, <2>4 DEF NoneBegins
<1>3. Len(out) + 1 \in DOMAIN more /\ IsUnit(p, list, more[Len(out) + 1], v)
  BY <1>1
<1> QED
  BY <1>2, <1>3 DEF Once

\* A unit that begins, or the last one that grows, leaves the others as they were.
LEMMA OthersStay ==
  ASSUME NEW p, NEW list, NEW new, NEW out, NEW u, new[u] = list[u]
  PROVE  /\ \A call : IsUnit(p, new, call, u) <=> IsUnit(p, list, call, u)
         /\ Once(p, list, out, u) => Once(p, new, out, u)
BY DEF IsUnit, Once

\* The callbacks are still known, and the settled units settled, when a unit begins.
LEMMA BegunKeeps ==
  ASSUME NEW p, NEW list \in Seq(UnitRecord), NEW new \in Seq(UnitRecord), NEW out, NEW harm,
         Known(p, list, out, harm), Settled(p, list, out, harm), Begun(list, new),
         list # <<>> => Len(list) \in harm \/ Once(p, list, out, Len(list))
  PROVE  /\ Known(p, new, out, harm) /\ Settled(p, new, out, harm)
         /\ NoneBegins(p, out, Len(new))
<1>1. /\ DOMAIN list = 1..Len(list) /\ Len(list) \in Nat
      /\ DOMAIN new = 1..(Len(list) + 1) /\ Len(new) = Len(list) + 1
      /\ \A u \in DOMAIN list : new[u] = list[u]
      /\ list # <<>> <=> Len(list) # 0
  BY DEF Begun
<1>2. ASSUME NEW i \in DOMAIN out
      PROVE  KnownCall(p, new, out[i], harm) /\ ~Begins(p, out[i].pes, Len(new))
  <2>1. KnownCall(p, list, out[i], harm)
    BY DEF Known
  <2>2. PICK u \in DOMAIN list : /\ Begins(p, out[i].pes, u)
                                 /\ u \in harm \/ IsUnit(p, list, out[i], u)
    BY <2>1 DEF KnownCall
  <2>3. u \in DOMAIN new /\ u # Len(new) /\ new[u] = list[u]
    BY <1>1
  <2>4. u \in harm \/ IsUnit(p, new, out[i], u)
    BY <2>2, <2>3, OthersStay
  <2>5. ~Begins(p, out[i].pes, Len(new))
    BY <2>2, <2>3 DEF Begins
  <2> QED
    BY <2>2, <2>3, <2>4, <2>5 DEF KnownCall
<1>3. ASSUME NEW u \in 1..(Len(new) - 1), u \notin harm PROVE Once(p, new, out, u)
  <2>1. u \in DOMAIN list /\ new[u] = list[u] /\ (u = Len(list) \/ u \in 1..(Len(list) - 1))
    <3>1. Len(new) - 1 = Len(list)
      BY <1>1
    <3>2. u \in 1..Len(list) /\ Len(list) \in Nat
      BY <1>1, <3>1
    <3>3. u = Len(list) \/ u \in 1..(Len(list) - 1)
      BY ONLY <3>2
    <3> QED
      BY <1>1, <3>2, <3>3
  <2>2. Once(p, list, out, u)
    BY <1>1, <1>3, <2>1 DEF Settled
  <2> QED
    BY <2>1, <2>2, OthersStay
<1> QED
  BY <1>2, <1>3 DEF Known, Settled, NoneBegins

\* And so they are when the last unit grows, of which no callback began or
\* which came to harm.
LEMMA GrownKeeps ==
  ASSUME NEW p, NEW list \in Seq(UnitRecord), NEW new \in Seq(UnitRecord), NEW out,
         NEW harm, NEW hurt, NEW k,
         Known(p, list, out, harm), Settled(p, list, out, harm), GrownBy(list, new, k),
         harm \subseteq hurt, list # <<>>,
         Len(list) \in hurt \/ NoneBegins(p, out, Len(list))
  PROVE  Known(p, new, out, hurt) /\ Settled(p, new, out, hurt)
<1>1. /\ DOMAIN list = 1..Len(list) /\ Len(list) \in Nat
      /\ DOMAIN new = DOMAIN list /\ Len(new) = Len(list)
      /\ \A u \in DOMAIN list : u = Len(list) \/ new[u] = list[u]
      /\ \A u \in 1..(Len(list) - 1) : u \in DOMAIN list /\ new[u] = list[u]
  BY DEF GrownBy
<1>2. ASSUME NEW i \in DOMAIN out PROVE KnownCall(p, new, out[i], hurt)
  <2>1. KnownCall(p, list, out[i], harm)
    BY DEF Known
  <2>2. PICK u \in DOMAIN list : /\ Begins(p, out[i].pes, u)
                                 /\ u \in harm \/ IsUnit(p, list, out[i], u)
    BY <2>1 DEF KnownCall
  <2>3. CASE u = Len(list)
    <3>1. u \in hurt
      BY <2>2, <2>3 DEF NoneBegins
    <3> QED
      BY <1>1, <2>2, <3>1 DEF KnownCall
  <2>4. CASE u # Len(list)
    <3>1. new[u] = list[u] /\ u \in DOMAIN new
      BY <1>1, <2>4
    <3>2. u \in hurt \/ IsUnit(p, new, out[i], u)
      BY <2>2, <3>1, OthersStay
    <3> QED
      BY <2>2, <3>1, <3>2 DEF KnownCall
  <2> QED
    BY <2>3, <2>4
<1>3. ASSUME NEW u \in 1..(Len(new) - 1), u \notin hurt PROVE Once(p, new, out, u)
  <2>1. u \in 1..(Len(list) - 1) /\ new[u] = list[u] /\ u \notin harm
    BY <1>1, <1>3
  <2>2. Once(p, list, out, u)
    BY <2>1 DEF Settled
  <2> QED
    BY <2>1, <2>2, OthersStay
<1> QED
  BY <1>2, <1>3 DEF Known, Settled

\* Nothing but harm is added.
LEMMA HarmKeeps ==
  ASSUME NEW p, NEW list, NEW out, NEW harm, NEW hurt,
         Known(p, list, out, harm), Settled(p, list, out, harm), harm \subseteq hurt
  PROVE  Known(p, list, out, hurt) /\ Settled(p, list, out, hurt)
BY DEF Known, KnownCall, Settled

\* What is open, or what is called back of the harmed, with its callback.
LEMMA CalledKeeps ==
  ASSUME NEW p \in Pids, NEW list \in Seq(UnitRecord), NEW out, NEW pes, NEW more,
         NEW harm, NEW v \in DOMAIN list,
         Sized(list), IsSeq(out), Known(p, list, out, harm), Settled(p, list, out, harm),
         Called(out, pes, more),
         pes # NoPes => Begins(p, pes, v),
         v \in harm \/ (v = Len(list) /\ pes.mPesBuffer = Cells(p, v, 1, list[v].sent))
  PROVE  Known(p, list, more, harm) /\ Settled(p, list, more, harm)
<1>1. CASE pes = NoPes
  BY <1>1 DEF Called
<1>2. CASE pes # NoPes
  <2>1. PICK call : call.pes = pes /\ more = Append(out, call)
    BY <1>2 DEF Called
  <2>2. Begins(p, call.pes, v) /\ (v \in harm \/ (v = Len(list) /\ IsUnit(p, list, call, v)))
    BY <1>2, <2>1 DEF IsUnit
  <2> QED
    BY <2>1, <2>2, OneMoreKnown
<1> QED
  BY <1>1, <1>2

\* Once the last unit has come to harm, so has all that is under collection.
LEMMA HarmedIsHurt ==
  ASSUME NEW p \in Pids, NEW list \in Seq(UnitRecord), NEW out, NEW pes, NEW harm, NEW hurt,
         Sized(list), IsOpen(p, list, out, pes) \/ IsHurt(p, list, pes, harm),
         harm \subseteq hurt, pes # NoPes => Len(list) \in hurt
  PROVE  IsHurt(p, list, pes, hurt)
<1>1. CASE IsOpen(p, list, out, pes)
  <2>1. list # <<>> /\ Len(list) \in DOMAIN list
    BY <1>1 DEF IsOpen
  <2>2. Begins(p, pes, Len(list)) /\ pes # NoPes
    BY <1>1, <2>1, UnitBegins DEF IsOpen
  <2> QED
    BY <2>1, <2>2 DEF IsHurt
<1>2. CASE IsHurt(p, list, pes, harm)
  BY <1>2 DEF IsHurt
<1> QED
  BY <1>1, <1>2

\* A unit that can be followed by another, all of it under collection, is returned.
LEMMA OverIsEnded ==
  ASSUME NEW p \in Pids, NEW list \in Seq(UnitRecord), NEW out, NEW pes,
         Sized(list), Over(list), IsOpen(p, list, out, pes)
  PROVE  Ended(pes) = pes /\ pes # NoPes /\ Len(list) \in DOMAIN list
<1> DEFINE unit == list[Len(list)]
<1>1. list # <<>> /\ Len(list) \in DOMAIN list
  BY DEF IsOpen
<1>2. /\ unit.sent \in Nat /\ unit.head.PES_packet_length \in Nat /\ PesHeaderSize \in Nat
      /\ unit.head.PES_packet_length = 0 \/ unit.sent = PesSize(unit.head)
  BY <1>1, UnitSizes, PesHeadsAssumption, PesHeaderAssumption DEF Over
<1>3. /\ pes # NoPes /\ pes.mPesBuffer # <<>> /\ Len(pes.mPesBuffer) = unit.sent
      /\ pes.PES_packet_length = unit.head.PES_packet_length
  BY <1>1, UnitBegins DEF IsOpen
<1> HIDE DEF unit
<1>4. ~Incomplete(pes)
  BY <1>2, <1>3 DEF Incomplete, PesSize
<1> QED
  BY <1>1, <1>3, <1>4 DEF Ended

\* The start of a unit is lost.
LEMMA LostStartContained ==
  ASSUME NEW p \in Pids, NEW list \in Seq(UnitRecord), NEW new \in Seq(UnitRecord), NEW out,
         NEW pes, NEW last, NEW next, NEW harm, NEW hurt,
         Sized(list), Contained(p, list, out, pes, last, harm), Begun(list, new),
         LastStart(p, new, next), new # <<>>,
         hurt = harm \cup ({Len(new)} \cup IF pes = NoPes THEN {} ELSE {Len(list)})
  PROVE  Contained(p, new, out, pes, next, hurt)
<1>1. harm \subseteq hurt /\ Len(new) \in hurt /\ (pes # NoPes => Len(list) \in hurt)
  OBVIOUS
<1>2. Known(p, list, out, hurt) /\ Settled(p, list, out, hurt)
  BY <1>1, HarmKeeps DEF Contained
<1>3. Rests(p, list, out, pes, last) \/ IsHurt(p, list, pes, hurt)
  BY <1>1, HarmedIsHurt DEF Contained
<1>4. list # <<>> => Len(list) \in hurt \/ Once(p, list, out, Len(list))
  BY <1>3 DEF Rests, IsHurt
<1>5. Known(p, new, out, hurt) /\ Settled(p, new, out, hurt)
  BY <1>2, <1>4, BegunKeeps
<1>6. IsHurt(p, new, pes, hurt)
  <2>1. DOMAIN list \subseteq DOMAIN new
    BY DEF Begun
  <2>2. pes # NoPes => \E u \in hurt \cap DOMAIN list : Begins(p, pes, u)
    BY <1>3 DEF Rests, IsHurt
  <2> QED
    BY <1>1, <2>1, <2>2 DEF IsHurt
<1> QED
  BY <1>5, <1>6 DEF Contained

\* The start of a unit comes: what is open is whole and returned, what came to
\* harm may be.
LEMMA StartContained ==
  ASSUME NEW p \in Pids, NEW list \in Seq(UnitRecord), NEW new \in Seq(UnitRecord), NEW out,
         NEW pes, NEW last, NEW next, NEW harm, NEW more, NEW started,
         Sized(list), IsSeq(out), Contained(p, list, out, pes, last, harm),
         Over(list), Begun(list, new), LastStart(p, new, next), new # <<>>,
         Called(out, Ended(pes), more),
         started = parsePesPacket(new[Len(new)].head,
                                  Cells(p, Len(new), 1, new[Len(new)].sent))
  PROVE  Contained(p, new, more, started, next, harm)
<1>1. Known(p, list, out, harm) /\ Settled(p, list, out, harm)
  BY DEF Contained
<1>2. /\ Known(p, list, more, harm) /\ Settled(p, list, more, harm)
      /\ list # <<>> => Len(list) \in harm \/ Once(p, list, more, Len(list))
  <2>1. CASE Rests(p, list, out, pes, last)
    <3>1. more = out
      BY <2>1 DEF Rests, NoPes, Called, Ended
    <3> QED
      BY <1>1, <2>1, <3>1 DEF Rests
  <2>2. CASE IsOpen(p, list, out, pes)
    <3>1. Ended(pes) = pes /\ pes # NoPes /\ Len(list) \in DOMAIN list
      BY <2>2, OverIsEnded
    <3>2. pes.mPesBuffer = Cells(p, Len(list), 1, list[Len(list)].sent)
      BY <2>2 DEF IsOpen
    <3>3. Begins(p, pes, Len(list))
      BY <3>1, <3>2, UnitBegins
    <3>4. PICK call : call.pes = pes /\ more = Append(out, call)
      BY <3>1 DEF Called
    <3>5. IsUnit(p, list, call, Len(list)) /\ NoneBegins(p, out, Len(list))
      BY <2>2, <3>2, <3>4 DEF IsUnit, IsOpen
    <3>6. Once(p, list, more, Len(list))
      BY <3>1, <3>4, <3>5, OneIsOnce
    <3>7. Called(out, pes, more)
      BY <3>1
    <3>8. Known(p, list, more, harm) /\ Settled(p, list, more, harm)
      BY <1>1, <3>1, <3>2, <3>3, <3>7, CalledKeeps
    <3> QED
      BY <3>6, <3>8
  <2>3. CASE IsHurt(p, list, pes, harm)
    <3>1. CASE Ended(pes) = NoPes
      <4>1. more = out
        BY <3>1 DEF Called
      <4> QED
        BY <1>1, <2>3, <4>1 DEF IsHurt
    <3>2. CASE Ended(pes) # NoPes
      <4>1. Ended(pes) = pes /\ pes # NoPes
        BY <3>2 DEF Ended
      <4>2. PICK u \in harm \cap DOMAIN list : Begins(p, pes, u)
        BY <2>3, <4>1 DEF IsHurt
      <4>3. Known(p, list, more, harm) /\ Settled(p, list, more, harm)
        BY <1>1, <4>1, <4>2, CalledKeeps
      <4> QED
        BY <2>3, <4>3 DEF IsHurt
    <3> QED
      BY <3>1, <3>2
  <2> QED
    BY <2>1, <2>2, <2>3 DEF Contained
<1>3. Known(p, new, more, harm) /\ Settled(p, new, more, harm) /\ NoneBegins(p, more, Len(new))
  BY <1>2, BegunKeeps
<1>4. IsOpen(p, new, more, started)
  BY <1>3 DEF IsOpen, parsePesPacket
<1> QED
  BY <1>3, <1>4 DEF Contained

\* More of the last unit is lost.
LEMMA LostMoreContained ==
  ASSUME NEW p \in Pids, NEW list \in Seq(UnitRecord), NEW new \in Seq(UnitRecord), NEW out,
         NEW pes, NEW last, NEW next, NEW harm, NEW hurt, NEW k,
         Sized(list), Contained(p, list, out, pes, last, harm), GrownBy(list, new, k),
         list # <<>>, ~Rests(p, list, out, pes, last), ~next.payload_unit_start_indicator,
         hurt = harm \cup {Len(new)}
  PROVE  Contained(p, new, out, pes, next, hurt)
<1>1. Len(new) = Len(list) /\ DOMAIN new = DOMAIN list /\ new # <<>>
  BY DEF GrownBy
<1>2. harm \subseteq hurt /\ Len(list) \in hurt
  BY <1>1
<1>3. Known(p, list, out, harm) /\ Settled(p, list, out, harm)
  BY DEF Contained
<1>4. Known(p, new, out, hurt) /\ Settled(p, new, out, hurt)
  BY <1>2, <1>3, GrownKeeps
<1>5. IsHurt(p, list, pes, hurt)
  BY <1>2, HarmedIsHurt DEF Contained
<1>6. IsHurt(p, new, pes, hurt)
  BY <1>1, <1>5 DEF IsHurt
<1> QED
  BY <1>4, <1>6 DEF Contained, LastStart

\* Whatever is appended, a PES packet begins as it began.
LEMMA ExtendedBegins ==
  ASSUME NEW p, NEW pes \in PesRecord, NEW bytes \in Seq(Cell), NEW u,
         pes.mPesBuffer # <<>>, Begins(p, pes, u)
  PROVE  Begins(p, Extended(pes, bytes), u)
<1>1. pes.mPesBuffer \in Seq(Cell) /\ Extended(pes, bytes).mPesBuffer = pes.mPesBuffer \o bytes
  BY DEF PesRecord, Extended
<1>2. (pes.mPesBuffer \o bytes)[1] = pes.mPesBuffer[1]
  BY <1>1
<1> QED
  BY <1>1, <1>2 DEF Begins

\* More of what came to harm may be returned, but is no other unit.
LEMMA HurtExtended ==
  ASSUME NEW p \in Pids, NEW list \in Seq(UnitRecord), NEW out, NEW pes \in PesRecord,
         NEW harm, NEW bytes \in Seq(Cell), NEW more, NEW next,
         Sized(list), IsSeq(out), Known(p, list, out, harm), Settled(p, list, out, harm),
         IsHurt(p, list, pes, harm), pes # NoPes, pes.mPesBuffer # <<>>,
         Called(out, Finished(Extended(pes, bytes)), more),
         next = Remaining(Extended(pes, bytes))
  PROVE  Known(p, list, more, harm) /\ Settled(p, list, more, harm) /\ IsHurt(p, list, next, harm)
<1> DEFINE longer == Extended(pes, bytes)
<1>1. PICK u \in harm \cap DOMAIN list : Begins(p, pes, u)
  BY DEF IsHurt
<1>2. Begins(p, longer, u)
  BY <1>1, ExtendedBegins
<1> HIDE DEF longer
<1>3. next # NoPes => next = longer
  BY DEF Remaining, longer
<1>4. IsHurt(p, list, next, harm)
  BY <1>1, <1>2, <1>3 DEF IsHurt
<1>5. Finished(longer) # NoPes => Begins(p, Finished(longer), u)
  BY <1>2 DEF Finished
<1>6. Called(out, Finished(longer), more)
  BY DEF longer
<1>7. Known(p, list, more, harm) /\ Settled(p, list, more, harm)
  BY <1>1, <1>5, <1>6, CalledKeeps
<1> QED
  BY <1>4, <1>7

\* All of the last unit that was sent, extended by what is sent next.
LEMMA OpenExtended ==
  ASSUME NEW p \in Pids, NEW list \in Seq(UnitRecord), NEW new \in Seq(UnitRecord), NEW out,
         NEW pes \in PesRecord, NEW k \in Nat, NEW longer,
         Sized(list), Sized(new), k > 0, GrownBy(list, new, k), IsOpen(p, list, out, pes),
         longer = Extended(pes, Cells(p, Len(list), list[Len(list)].sent + 1,
                                      list[Len(list)].sent + k))
  PROVE  /\ IsOpen(p, new, out, longer) /\ longer # NoPes
         /\ Complete(longer) => new[Len(new)].sent = PesSize(new[Len(new)].head)
<1> DEFINE N == Len(list)
           unit == list[N]
           grown == new[N]
<1>1. /\ list # <<>> /\ N \in DOMAIN list
      /\ Len(new) = N /\ N \in DOMAIN new /\ new # <<>>
      /\ grown.sent = unit.sent + k /\ grown.head = unit.head
  BY DEF IsOpen, GrownBy
<1>2. N \in Nat /\ unit.sent \in Nat /\ unit.sent >= PesHeaderSize /\ grown.sent \in Nat
  BY <1>1, UnitSizes
<1>3. /\ longer.mPesBuffer = pes.mPesBuffer \o Cells(p, N, unit.sent + 1, unit.sent + k)
      /\ longer.PES_packet_length = pes.PES_packet_length
  BY DEF Extended, PesRecord
<1>4. Cells(p, N, 1, unit.sent) \o Cells(p, N, unit.sent + 1, unit.sent + k)
        = Cells(p, N, 1, unit.sent + k)
  BY <1>2, CellsJoin
<1>5. /\ pes.mPesBuffer = Cells(p, N, 1, unit.sent) /\ NoneBegins(p, out, N)
      /\ pes.PES_packet_length = unit.head.PES_packet_length
  BY DEF IsOpen
<1> HIDE DEF unit, grown
<1>6. /\ longer.mPesBuffer = Cells(p, N, 1, grown.sent)
      /\ longer.PES_packet_length = grown.head.PES_packet_length
  BY <1>1, <1>3, <1>4, <1>5
<1>7. longer # NoPes /\ Len(longer.mPesBuffer) = grown.sent
  BY <1>1, <1>6, UnitBegins DEF grown
<1>8. IsOpen(p, new, out, longer)
  BY <1>1, <1>5, <1>6 DEF IsOpen, grown
<1>9. ASSUME Complete(longer) PROVE grown.sent = PesSize(grown.head)
  <2>1. grown.head.PES_packet_length \in Nat /\ PesHeaderSize \in Nat
    BY <1>1, UnitSizes, PesHeadsAssumption, PesHeaderAssumption DEF grown
  <2>2. grown.sent = grown.head.PES_packet_length + PesHeaderSize
    BY <1>6, <1>7, <1>9 DEF Complete
  <2>3. grown.head.PES_packet_length # 0
    BY <1>1, <1>2, <2>1, <2>2
  <2> QED
    BY <2>2, <2>3 DEF PesSize
<1> QED
  BY <1>1, <1>7, <1>8, <1>9 DEF grown

\* More of a unit that is open: all of it is returned, once, or it stays open.
LEMMA OpenMoreContained ==
  ASSUME NEW p \in Pids, NEW list \in Seq(UnitRecord), NEW new \in Seq(UnitRecord), NEW out,
         NEW pes \in PesRecord, NEW next, NEW harm, NEW k \in Nat, NEW longer, NEW more,
         Sized(list), Sized(new), IsSeq(out),
         Known(p, list, out, harm), Settled(p, list, out, harm),
         k > 0, GrownBy(list, new, k), IsOpen(p, list, out, pes),
         ~next.payload_unit_start_indicator,
         longer = Extended(pes, Cells(p, Len(list), list[Len(list)].sent + 1,
                                      list[Len(list)].sent + k)),
         Called(out, Finished(longer), more)
  PROVE  Contained(p, new, more, Remaining(longer), next, harm)
<1>1. /\ IsOpen(p, new, out, longer) /\ longer # NoPes
      /\ Complete(longer) => new[Len(new)].sent = PesSize(new[Len(new)].head)
  BY OpenExtended
<1>2. list # <<>> /\ NoneBegins(p, out, Len(list))
  BY DEF IsOpen
<1>3. Known(p, new, out, harm) /\ Settled(p, new, out, harm)
  BY <1>2, GrownKeeps
<1>4. LastStart(p, new, next)
  BY DEF LastStart
<1>5. CASE Complete(longer)
  <2>1. Finished(longer) = longer /\ Remaining(longer) = NoPes
    BY <1>5 DEF Finished, Remaining
  <2>2. PICK call : call.pes = longer /\ more = Append(out, call)
    BY <1>1, <2>1 DEF Called
  <2>3. /\ Len(new) \in DOMAIN new /\ NoneBegins(p, out, Len(new)) /\ new # <<>>
        /\ longer.mPesBuffer = Cells(p, Len(new), 1, new[Len(new)].sent)
    BY <1>1 DEF IsOpen
  <2>4. Once(p, new, more, Len(new))
    <3>1. IsUnit(p, new, call, Len(new))
      BY <2>2, <2>3 DEF IsUnit
    <3> QED
      BY <2>2, <2>3, <3>1, OneIsOnce
  <2>5. Called(out, longer, more) /\ Begins(p, longer, Len(new))
    BY <2>1, <2>3, UnitBegins
  <2>6. Known(p, new, more, harm) /\ Settled(p, new, more, harm)
    BY <1>3, <2>3, <2>5, CalledKeeps
  <2>7. Rests(p, new, more, Remaining(longer), next)
    BY <1>1, <1>5, <2>1, <2>4 DEF Rests
  <2> QED
    BY <1>4, <2>6, <2>7 DEF Contained
<1>6. CASE ~Complete(longer)
  <2>1. more = out /\ Remaining(longer) = longer
    BY <1>6 DEF Finished, Remaining, Called
  <2> QED
    BY <1>1, <1>3, <1>4, <2>1 DEF Contained
<1> QED
  BY <1>5, <1>6

\* More of a unit that came to harm.
LEMMA HurtMoreContained ==
  ASSUME NEW p \in Pids, NEW list \in Seq(UnitRecord), NEW new \in Seq(UnitRecord), NEW out,
         NEW pes \in PesRecord, NEW next, NEW harm, NEW k, NEW bytes \in Seq(Cell), NEW more,
         NEW rest,
         Sized(list), Sized(new), IsSeq(out),
         Known(p, list, out, harm), Settled(p, list, out, harm),
         GrownBy(list, new, k), IsHurt(p, list, pes, harm),
         ~next.payload_unit_start_indicator,
         pes = NoPes => more = out /\ rest = pes,
         pes # NoPes => /\ pes.mPesBuffer # <<>> /\ rest = Remaining(Extended(pes, bytes))
                        /\ Called(out, Finished(Extended(pes, bytes)), more)
  PROVE  Contained(p, new, more, rest, next, harm)
<1>1. list # <<>> /\ Len(list) \in harm /\ Len(new) = Len(list) /\ DOMAIN new = DOMAIN list
  BY DEF IsHurt, GrownBy
<1>2. Known(p, new, out, harm) /\ Settled(p, new, out, harm)
  BY <1>1, GrownKeeps
<1>3. IsHurt(p, new, pes, harm) /\ LastStart(p, new, next)
  BY <1>1 DEF IsHurt, LastStart
<1>4. Known(p, new, more, harm) /\ Settled(p, new, more, harm) /\ IsHurt(p, new, rest, harm)
  BY <1>2, <1>3, HurtExtended
<1> QED
  BY <1>3, <1>4 DEF Contained

\* A packet that comes while the sender stands still.
LEMMA StillContained ==
  ASSUME NEW p \in Pids, NEW list \in Seq(UnitRecord), NEW out, NEW pes \in PesRecord,
         NEW last, NEW next, NEW harm, NEW hurt, NEW more, NEW rest,
         Sized(list), IsSeq(out), Contained(p, list, out, pes, last, harm),
         next \in {NoPacket, last}, pes # NoPes => pes.mPesBuffer # <<>>,
         hurt = harm \cup (IF pes = NoPes THEN {} ELSE {Len(list)}),
         \/ /\ last # NoPacket /\ last.payload_unit_start_indicator
            /\ rest.mPesBuffer[1] = last.bytes[Offset(last) + 1]
            /\ Called(out, Ended(pes), more)
         \/ /\ pes = NoPes => more = out /\ rest = pes
            /\ pes # NoPes => \E bytes \in Seq(Cell) :
                                /\ rest = Remaining(Extended(pes, bytes))
                                /\ Called(out, Finished(Extended(pes, bytes)), more)
  PROVE  Contained(p, list, more, rest, next, hurt)
<1>1. harm \subseteq hurt /\ (pes # NoPes => Len(list) \in hurt)
  OBVIOUS
<1>2. Known(p, list, out, hurt) /\ Settled(p, list, out, hurt)
  BY <1>1, HarmKeeps DEF Contained
<1>3. LastStart(p, list, last) /\ LastStart(p, list, next)
  BY DEF Contained, LastStart
<1>4. CASE Rests(p, list, out, pes, last)
  <2>1. more = out /\ rest = pes
    BY <1>4 DEF Rests
  <2>2. Rests(p, list, more, rest, next)
    BY <1>4, <2>1 DEF Rests
  <2> QED
    BY <1>2, <1>3, <2>1, <2>2 DEF Contained
<1>5. CASE IsHurt(p, list, pes, hurt)
  <2>1. list # <<>> /\ Len(list) \in hurt /\ Len(list) \in DOMAIN list
    BY <1>5 DEF IsHurt
  <2>2. CASE /\ last # NoPacket /\ last.payload_unit_start_indicator
             /\ rest.mPesBuffer[1] = last.bytes[Offset(last) + 1]
             /\ Called(out, Ended(pes), more)
    <3>1. Begins(p, rest, Len(list))
      BY <1>3, <2>2 DEF LastStart, Begins
    <3>2. IsHurt(p, list, rest, hurt)
      BY <2>1, <3>1 DEF IsHurt
    <3>3. Known(p, list, more, hurt) /\ Settled(p, list, more, hurt)
      <4>1. CASE Ended(pes) = NoPes
        BY <1>2, <2>2, <4>1 DEF Called
      <4>2. CASE Ended(pes) # NoPes
        <5>1. Ended(pes) = pes /\ pes # NoPes
          BY <4>2 DEF Ended
        <5>2. PICK u \in hurt \cap DOMAIN list : Begins(p, pes, u)
          BY <1>5, <5>1 DEF IsHurt
        <5> QED
          BY <1>2, <2>2, <5>1, <5>2, CalledKeeps
      <4> QED
        BY <4>1, <4>2
    <3> QED
      BY <1>3, <3>2, <3>3 DEF Contained
  <2>3. CASE pes = NoPes /\ more = out /\ rest = pes
    BY <1>2, <1>3, <1>5, <2>3 DEF Contained
  <2>4. CASE pes # NoPes /\ \E bytes \in Seq(Cell) :
                              /\ rest = Remaining(Extended(pes, bytes))
                              /\ Called(out, Finished(Extended(pes, bytes)), more)
    <3>1. PICK bytes \in Seq(Cell) : /\ rest = Remaining(Extended(pes, bytes))
                                     /\ Called(out, Finished(Extended(pes, bytes)), more)
      BY <2>4
    <3>2. pes.mPesBuffer # <<>> /\ pes # NoPes
      BY <2>4
    <3>3. /\ Known(p, list, more, hurt) /\ Settled(p, list, more, hurt)
          /\ IsHurt(p, list, rest, hurt)
      BY <1>2, <1>5, <3>1, <3>2, HurtExtended
    <3> QED
      BY <1>3, <3>3 DEF Contained
  <2> QED
    BY <2>2, <2>3, <2>4
<1>6. Rests(p, list, out, pes, last) \/ IsHurt(p, list, pes, hurt)
  BY <1>1, HarmedIsHurt DEF Contained
<1> QED
  BY <1>4, <1>5, <1>6

-----------------------------------------------------------------------------
(* The steps, for the damage *)

ContainedNow(p) ==
  Contained(p, units[p], delivered[p], mPesPacket[p], lastPacket[p], damaged[p])

\* What the invariants say of a PID.
LEMMA KnownOfPid ==
  ASSUME HeadInv, ContainedInv, NEW p \in Pids
  PROVE  /\ units[p] \in Seq(UnitRecord) /\ Sized(units[p]) /\ IsSeq(delivered[p])
         /\ mPesPacket[p] \in PesRecord
         /\ mPesPacket[p] # NoPes => mPesPacket[p].mPesBuffer # <<>>
         /\ Contained(p, units[p], delivered[p], mPesPacket[p], lastPacket[p], damaged[p])
BY DEF HeadInv, SenderInv, CollectorInv, DeliveredInv, HeadedPes, ContainedInv

LEMMA StartContains ==
  ASSUME HeadInv, ContainedInv, NEW p \in Pids, StartMeans(p)
  PROVE  ContainedNow(p)'
<1> DEFINE list == units[p]
           new == units'[p]
           out == delivered[p]
           more == delivered'[p]
           pes == mPesPacket[p]
           last == lastPacket[p]
           next == lastPacket'[p]
           harm == damaged[p]
           rest == mPesPacket'[p]
<1>1. /\ list \in Seq(UnitRecord) /\ Sized(list) /\ IsSeq(out) /\ p \in Pids
      /\ Contained(p, list, out, pes, last, harm)
  BY KnownOfPid
<1>2. /\ new \in Seq(UnitRecord) /\ new # <<>> /\ Over(list) /\ Begun(list, new)
      /\ LastStart(p, new, next)
  BY DEF StartMeans
<1>3. CASE StartLost(p)
  <2>1. rest = pes /\ more = out
    BY <1>3 DEF StartLost, Untouched
  <2>2. damaged'[p] = harm \cup ({Len(new)} \cup IF pes = NoPes THEN {} ELSE {Len(list)})
    BY <1>3 DEF StartLost, OpenUnit
  <2> DEFINE hurt == damaged'[p]
  <2>3. hurt = harm \cup ({Len(new)} \cup IF pes = NoPes THEN {} ELSE {Len(list)})
    BY <2>2
  <2> HIDE DEF list, new, out, more, pes, last, next, harm, rest, hurt
  <2>4. Contained(p, new, out, pes, next, hurt)
    BY ONLY <1>1, <1>2, <2>3, LostStartContained
  <2>5. Contained(p, new, more, rest, next, hurt)
    BY <2>1, <2>4
  <2> QED
    BY <2>5 DEF ContainedNow, new, more, next, rest, hurt
<1>4. CASE StartCame(p)
  <2>1. /\ Called(out, Ended(pes), more) /\ damaged'[p] = harm
        /\ rest = parsePesPacket(new[Len(new)].head,
                                 Cells(p, Len(new), 1, new[Len(new)].sent))
    BY <1>4 DEF StartCame
  <2> HIDE DEF list, new, out, more, pes, last, next, harm, rest
  <2>2. Contained(p, new, more, rest, next, harm)
    BY ONLY <1>1, <1>2, <2>1, StartContained
  <2> QED
    BY <2>1, <2>2 DEF ContainedNow, new, more, next, rest
<1> QED
  BY <1>3, <1>4 DEF StartMeans

LEMMA MoreContains ==
  ASSUME HeadInv, ContainedInv, NEW p \in Pids, MoreMeans(p)
  PROVE  ContainedNow(p)'
<1> DEFINE list == units[p]
           new == units'[p]
           out == delivered[p]
           more == delivered'[p]
           pes == mPesPacket[p]
           last == lastPacket[p]
           next == lastPacket'[p]
           harm == damaged[p]
           rest == mPesPacket'[p]
           N == Len(list)
<1>1. /\ list \in Seq(UnitRecord) /\ Sized(list) /\ IsSeq(out) /\ p \in Pids
      /\ Contained(p, list, out, pes, last, harm)
      /\ pes \in PesRecord /\ (pes # NoPes => pes.mPesBuffer # <<>>)
  BY KnownOfPid
<1>2. /\ new \in Seq(UnitRecord) /\ Sized(new) /\ list # <<>>
      /\ ~next.payload_unit_start_indicator
  BY DEF MoreMeans
<1>3. PICK k \in Nat :
        /\ k > 0 /\ k <= PesSize(list[N].head) - list[N].sent
        /\ GrownBy(list, new, k)
        /\ MoreLost(p) \/ MoreCame(p, k)
  BY DEF MoreMeans
<1>4. N \in DOMAIN list /\ N \in Nat /\ list[N].sent \in Nat /\ PesSize(list[N].head) \in Nat
  <2>1. N \in DOMAIN list /\ N \in Nat
    BY <1>1, <1>2
  <2> QED
    BY <1>1, <2>1, UnitSizes
<1>5. ~Rests(p, list, out, pes, last)
  <2>1. list[N].sent # PesSize(list[N].head)
    BY <1>3, <1>4
  <2> QED
    BY <1>2, <2>1 DEF Rests
<1>6. CASE MoreLost(p)
  <2> DEFINE hurt == damaged'[p]
  <2>1. rest = pes /\ more = out /\ hurt = harm \cup {Len(new)}
    BY <1>6 DEF MoreLost, Untouched
  <2>2. GrownBy(list, new, k)
    BY <1>3
  <2> HIDE DEF list, new, out, more, pes, last, next, harm, rest, hurt
  <2>3. Contained(p, new, out, pes, next, hurt)
    BY ONLY <1>1, <1>2, <1>5, <2>1, <2>2, LostMoreContained
  <2>4. Contained(p, new, more, rest, next, hurt)
    BY <2>1, <2>3
  <2> QED
    BY <2>4 DEF ContainedNow, new, more, next, rest, hurt
<1>7. CASE MoreCame(p, k)
  <2> DEFINE bytes == Cells(p, N, list[N].sent + 1, list[N].sent + k)
             longer == Extended(pes, bytes)
  <2>1. /\ pes = NoPes => more = out /\ rest = pes
        /\ pes # NoPes => rest = Remaining(longer) /\ Called(out, Finished(longer), more)
        /\ damaged'[p] = harm
    BY <1>7 DEF MoreCame, Untouched, Collected
  <2>2. bytes \in Seq(Cell)
    <3> DEFINE m == list[N].sent
    <3>1. m \in Nat /\ k \in Nat /\ k > 0 /\ N \in Nat
      BY <1>3, <1>4
    <3>0. bytes = Cells(p, N, m + 1, m + k)
      OBVIOUS
    <3> HIDE DEF m, N, bytes
    <3>2. m + 1 \in Nat /\ m + k \in Nat /\ (m + k) - (m + 1) + 1 = k
      BY <3>1
    <3>3. IsRun(Cells(p, N, m + 1, m + k), p, N, m + 1, k)
      BY <3>1, <3>2, CellsRun, Zenon
    <3> QED
      BY <3>0, <3>3 DEF IsRun
  <2>3. k \in Nat /\ k > 0 /\ GrownBy(list, new, k)
    BY <1>3
  <2>4. longer = Extended(pes, Cells(p, Len(list), list[Len(list)].sent + 1,
                                     list[Len(list)].sent + k))
    OBVIOUS
  <2>5. longer = Extended(pes, bytes)
    OBVIOUS
  <2> HIDE DEF N, list, new, out, more, pes, last, next, harm, rest, bytes, longer
  <2>6. Known(p, list, out, harm) /\ Settled(p, list, out, harm)
    BY <1>1 DEF Contained
  <2>7. CASE IsOpen(p, list, out, pes)
    <3>1. pes # NoPes
      <4>1. N \in DOMAIN list /\ pes.mPesBuffer = Cells(p, N, 1, list[N].sent)
        BY <1>4, <2>7 DEF IsOpen, N
      <4> QED
        BY <1>1, <4>1, UnitBegins
    <3>2. Called(out, Finished(longer), more) /\ rest = Remaining(longer)
      BY <2>1, <3>1
    <3>3. Contained(p, new, more, Remaining(longer), next, harm)
      BY ONLY <1>1, <1>2, <2>3, <2>4, <2>6, <2>7, <3>2, OpenMoreContained
    <3> QED
      BY <2>1, <3>2, <3>3 DEF ContainedNow, new, more, next, rest
  <2>8. CASE IsHurt(p, list, pes, harm)
    <3>1. /\ pes = NoPes => more = out /\ rest = pes
          /\ pes # NoPes => /\ pes.mPesBuffer # <<>> /\ rest = Remaining(Extended(pes, bytes))
                            /\ Called(out, Finished(Extended(pes, bytes)), more)
      BY <1>1, <2>1, <2>5
    <3>2. Contained(p, new, more, rest, next, harm)
      BY ONLY <1>1, <1>2, <2>2, <2>3, <2>6, <2>8, <3>1, HurtMoreContained
    <3> QED
      BY <2>1, <3>2 DEF ContainedNow, new, more, next, rest
  <2> QED
    BY <1>1, <1>5, <2>7, <2>8 DEF Contained
<1> QED
  BY <1>3, <1>6, <1>7

LEMMA StillContains ==
  ASSUME HeadInv, ContainedInv, NEW p \in Pids, StillMeans(p)
  PROVE  ContainedNow(p)'
<1> DEFINE list == units[p]
           out == delivered[p]
           more == delivered'[p]
           pes == mPesPacket[p]
           last == lastPacket[p]
           next == lastPacket'[p]
           harm == damaged[p]
           hurt == damaged'[p]
           rest == mPesPacket'[p]
<1>1. /\ list \in Seq(UnitRecord) /\ Sized(list) /\ IsSeq(out) /\ p \in Pids
      /\ Contained(p, list, out, pes, last, harm)
      /\ pes \in PesRecord /\ (pes # NoPes => pes.mPesBuffer # <<>>)
  BY KnownOfPid
<1>2. /\ next \in {NoPacket, last} /\ units'[p] = list
      /\ hurt = harm \cup (IF pes = NoPes THEN {} ELSE {Len(list)})
  BY DEF StillMeans, OpenUnit
<1>3. \/ /\ last # NoPacket /\ last.payload_unit_start_indicator
         /\ rest.mPesBuffer[1] = last.bytes[Offset(last) + 1]
         /\ Called(out, Ended(pes), more)
      \/ /\ pes = NoPes => more = out /\ rest = pes
         /\ pes # NoPes => \E bytes \in Seq(Cell) :
                             /\ rest = Remaining(Extended(pes, bytes))
                             /\ Called(out, Finished(Extended(pes, bytes)), more)
  BY DEF StillMeans, Untouched, Collected
<1> HIDE DEF list, out, more, pes, last, next, harm, hurt, rest
<1>4. Contained(p, list, more, rest, next, hurt)
  BY ONLY <1>1, <1>2, <1>3, StillContained, ZenonT(60)
<1> QED
  BY <1>2, <1>4 DEF ContainedNow, list, more, rest, next, hurt

LEMMA NextContains == HeadInv /\ ContainedInv /\ [Next]_vars => ContainedInv'
<1> SUFFICES ASSUME HeadInv, ContainedInv, [Next]_vars PROVE ContainedInv'
  OBVIOUS
<1>1. CASE UNCHANGED vars
  BY <1>1 DEF ContainedInv, vars, sender, receiver, channel, history
<1>2. CASE Next
  <2>1. DOMAIN damaged = Pids /\ \A p \in Pids : Sized(units[p])
    BY DEF ContainedInv
  <2>2. PICK p \in Pids : StartMeans(p) \/ MoreMeans(p) \/ StillMeans(p)
    BY <1>2, <2>1, NextMeans
  <2>3. ContainedNow(p)'
    BY <2>2, StartContains, MoreContains, StillContains
  <2>4. OthersRest(p) /\ DamageStays(p) /\ Sized(units'[p])
    BY <2>1, <2>2 DEF StartMeans, MoreMeans, StillMeans
  <2>5. ASSUME NEW q \in Pids, q # p
        PROVE  /\ Sized(units'[q])
               /\ Contained(q, units'[q], delivered'[q], mPesPacket'[q], lastPacket'[q],
                            damaged'[q])
    BY <2>4, <2>5 DEF OthersRest, DamageStays, ContainedInv
  <2> QED
    BY <2>3, <2>4, <2>5 DEF ContainedInv, ContainedNow, DamageStays
<1> QED
  BY <1>1, <1>2

LEMMA InitIsContained == Init => ContainedInv
<1> SUFFICES ASSUME Init, NEW p \in Pids PROVE Sized(units[p]) /\ ContainedNow(p)
  BY DEF ContainedInv, ContainedNow, Init, InitChannel
<1>1. units[p] = <<>> /\ delivered[p] = <<>> /\ mPesPacket[p] = NoPes /\ lastPacket[p] = NoPacket
  BY DEF Init, InitSender, InitChannel, InitPes
<1>2. Known(p, <<>>, <<>>, damaged[p]) /\ Settled(p, <<>>, <<>>, damaged[p])
  BY DEF Known, Settled
<1>3. Rests(p, <<>>, <<>>, NoPes, NoPacket) /\ LastStart(p, <<>>, NoPacket)
  BY DEF Rests, LastStart
<1> QED
  BY <1>1, <1>2, <1>3 DEF Sized, Contained, ContainedNow

LEMMA ContainedSuffices == HeadInv /\ ContainedInv => DamageIsContained
<1> SUFFICES ASSUME HeadInv, ContainedInv, NEW p \in Pids
             PROVE  /\ \A u \in 1..(Len(units[p]) - 1) \ damaged[p] :
                         Cardinality({i \in DOMAIN delivered[p] : IsIntact(p, i, u)}) = 1
                    /\ \A i \in DOMAIN delivered[p] :
                         LET u == UnitOf(delivered[p][i].pes.mPesBuffer[1])
                         IN  u \in damaged[p] \/ IsIntact(p, i, u)
  BY DEF DamageIsContained
<1>1. /\ Known(p, units[p], delivered[p], damaged[p])
      /\ Settled(p, units[p], delivered[p], damaged[p])
  BY KnownOfPid DEF Contained
<1>2. \A i \in DOMAIN delivered[p] : \A u :
        IsIntact(p, i, u) <=> IsUnit(p, units[p], delivered[p][i], u)
  BY DEF IsIntact, IsUnit, Unit
<1>3. ASSUME NEW u \in 1..(Len(units[p]) - 1) \ damaged[p]
      PROVE  Cardinality({i \in DOMAIN delivered[p] : IsIntact(p, i, u)}) = 1
  <2>1. Once(p, units[p], delivered[p], u)
    BY <1>1, <1>3 DEF Settled
  <2>2. PICK i \in DOMAIN delivered[p] :
          /\ IsUnit(p, units[p], delivered[p][i], u)
          /\ \A j \in DOMAIN delivered[p] : IsUnit(p, units[p], delivered[p][j], u) => j = i
    BY <2>1 DEF Once
  <2>3. {j \in DOMAIN delivered[p] : IsIntact(p, j, u)} = {i}
    BY <1>2, <2>2
  <2> QED
    BY <2>3, FS_Singleton
<1>4. ASSUME NEW i \in DOMAIN delivered[p]
      PROVE  LET u == UnitOf(delivered[p][i].pes.mPesBuffer[1])
             IN  u \in damaged[p] \/ IsIntact(p, i, u)
  <2>1. KnownCall(p, units[p], delivered[p][i], damaged[p])
    BY <1>1 DEF Known
  <2>2. PICK u \in DOMAIN units[p] :
          /\ Begins(p, delivered[p][i].pes, u)
          /\ u \in damaged[p] \/ IsUnit(p, units[p], delivered[p][i], u)
    BY <2>1 DEF KnownCall
  <2>3. UnitOf(delivered[p][i].pes.mPesBuffer[1]) = u
    BY <2>2 DEF Begins, UnitOf
  <2> QED
    BY <1>2, <2>2, <2>3
<1> QED
  BY <1>3, <1>4

\* Whatever is lost, repeated or put in between, every PES packet that no fault
\* touches is given to the callback whole and once as soon as its successor has
\* started, and whatever else the callback is given is what remains of a
\* damaged one (collectPes).
THEOREM DamageIsAlwaysContained == Spec => []DamageIsContained
<1>1. Init => HeadInv /\ ContainedInv
  BY InitHasHeads, InitIsContained
<1>2. HeadInv /\ ContainedInv /\ [Next]_vars => HeadInv' /\ ContainedInv'
  BY NextKeepsHeads, NextContains
<1>3. HeadInv /\ ContainedInv => DamageIsContained
  BY ContainedSuffices
<1> QED
  BY <1>1, <1>2, <1>3, PTL DEF Spec
-----------------------------------------------------------------------------
(* Origins *)

\* The origin kept for a PID is that of the unit whose start is under collection.
OriginKept(p) ==
  mPesPacket[p] # NoPes => \A u \in DOMAIN units[p] :
    Begins(p, mPesPacket[p], u) => u \in damaged[p] \/ mOrigins[p] = StartOf(p, u)

\* The unit a callback begins with, and that of the packet that brought it about.
GivenUnit(call) == UnitOf(call.pes.mPesBuffer[1])
Setter(call) == IF call.byLength THEN GivenUnit(call) ELSE GivenUnit(call) + 1

OriginGiven(p, call) ==
  {GivenUnit(call), Setter(call)} \cap damaged[p] = {} =>
    Setter(call) \in DOMAIN units[p] /\ call.origin = StartOf(p, Setter(call))

CallsGivenTo(p) == \A i \in DOMAIN delivered[p] : OriginGiven(p, delivered[p][i])

\* The inductive invariant, together with HeadInv and ContainedInv.
OriginsInv ==
  DOMAIN mOrigins = Pids /\ \A p \in Pids : OriginKept(p) /\ CallsGivenTo(p)

\* A unit that has started stays where it did.
PositionsStay(p) ==
  /\ damaged[p] \subseteq damaged'[p]
  /\ \A u \in DOMAIN units[p] : u \in DOMAIN units'[p] /\ StartOf(p, u)' = StartOf(p, u)

LEMMA FrontOfFront ==
  ASSUME NEW old \in Seq(UnitRecord), NEW new \in Seq(UnitRecord), NEW u \in 1..(Len(old) + 1),
         Len(old) <= Len(new), \A i \in 1..(u - 1) : new[i] = old[i]
  PROVE  SubSeq(new, 1, u - 1) = SubSeq(old, 1, u - 1)
<1>1. u - 1 \in Nat /\ u - 1 <= Len(old) /\ u - 1 <= Len(new) /\ 1 \in Int
  OBVIOUS
<1> DEFINE n == u - 1
<1>2. n \in Nat /\ n <= Len(old) /\ n <= Len(new)
  BY <1>1
<1>3. \A i \in 1..n : new[i] = old[i]
  OBVIOUS
<1> HIDE DEF n
<1>4. SubSeq(new, 1, n) = [i \in 1..n |-> new[i]] /\ SubSeq(old, 1, n) = [i \in 1..n |-> old[i]]
  BY <1>2
<1>5. [i \in 1..n |-> new[i]] = [i \in 1..n |-> old[i]]
  BY <1>3
<1> QED
  BY <1>4, <1>5 DEF n

LEMMA StartsStay ==
  ASSUME SenderInv, SenderInv', NEW p \in Pids, damaged[p] \subseteq damaged'[p],
         \A i \in DOMAIN units[p] :
           i \in DOMAIN units'[p] /\ (i < Len(units[p]) => units'[p][i] = units[p][i])
  PROVE  PositionsStay(p)
<1> SUFFICES ASSUME NEW u \in DOMAIN units[p]
             PROVE  u \in DOMAIN units'[p] /\ StartOf(p, u)' = StartOf(p, u)
  BY DEF PositionsStay
<1> DEFINE old == units[p]
           new == units'[p]
<1>1. old \in Seq(UnitRecord) /\ new \in Seq(UnitRecord) /\ u \in 1..Len(old)
  BY DEF SenderInv
<1>2. \A i \in 1..Len(old) : i \in 1..Len(new) /\ (i < Len(old) => new[i] = old[i])
  BY <1>1
<1> HIDE DEF old, new
<1>3. Len(old) \in 1..Len(new) /\ Len(old) <= Len(new) /\ u \in 1..(Len(old) + 1)
  BY <1>1, <1>2
<1>4. \A i \in 1..(u - 1) : new[i] = old[i]
  BY <1>1, <1>2
<1>5. SubSeq(new, 1, u - 1) = SubSeq(old, 1, u - 1)
  BY <1>1, <1>3, <1>4, FrontOfFront
<1> QED
  BY <1>2, <1>5 DEF StartOf, SentBefore, old, new

\* What was said of a callback stays true.
LEMMA GivenStays ==
  ASSUME NEW p \in Pids, PositionsStay(p), NEW call, OriginGiven(p, call)
  PROVE  OriginGiven(p, call)'
<1> SUFFICES ASSUME {GivenUnit(call), Setter(call)} \cap damaged'[p] = {}
             PROVE  Setter(call) \in DOMAIN units'[p] /\ call.origin = StartOf(p, Setter(call))'
  BY DEF OriginGiven, GivenUnit, Setter
<1>1. Setter(call) \in DOMAIN units[p] /\ call.origin = StartOf(p, Setter(call))
  BY DEF OriginGiven, PositionsStay
<1> DEFINE u == Setter(call)
<1>2. u \in DOMAIN units[p] /\ call.origin = StartOf(p, u)
  BY <1>1
<1>3. \A v \in DOMAIN units[p] : v \in DOMAIN units'[p] /\ StartOf(p, v)' = StartOf(p, v)
  BY DEF PositionsStay
<1> QED
  BY <1>2, <1>3

\* The callbacks are the old ones and perhaps a new one.
LEMMA CallsGiven ==
  ASSUME NEW p \in Pids, IsSeq(delivered[p]), PositionsStay(p), CallsGivenTo(p),
         \/ delivered'[p] = delivered[p]
         \/ \E call : OriginGiven(p, call)' /\ delivered'[p] = Append(delivered[p], call)
  PROVE  CallsGivenTo(p)'
<1> SUFFICES ASSUME NEW i \in DOMAIN delivered'[p]
             PROVE  \E c : c = delivered'[p][i] /\ OriginGiven(p, c)'
  BY DEF CallsGivenTo, OriginGiven, Setter, GivenUnit
<1> DEFINE out == delivered[p]
           more == delivered'[p]
<1>1. ASSUME NEW c, c \in {out[k] : k \in DOMAIN out} PROVE OriginGiven(p, c)'
  <2>1. OriginGiven(p, c)
    BY <1>1 DEF CallsGivenTo
  <2> QED
    BY <2>1, GivenStays
<1>2. CASE more = out
  BY <1>1, <1>2
<1>3. ASSUME NEW call, OriginGiven(p, call)', more = Append(out, call)
      PROVE  \E c : c = more[i] /\ OriginGiven(p, c)'
  <2>1. /\ DOMAIN Append(out, call) = 1..(Len(out) + 1) /\ DOMAIN out = 1..Len(out)
        /\ Len(out) \in Nat /\ Append(out, call)[Len(out) + 1] = call
        /\ \A k \in DOMAIN out : Append(out, call)[k] = out[k]
    BY AppendIsSeq
  <2>2. i \in DOMAIN out \/ i = Len(out) + 1
    BY <1>3, <2>1
  <2>3. CASE i \in DOMAIN out
    <3>1. more[i] = out[i]
      BY <1>3, <2>1, <2>3
    <3> QED
      BY <1>1, <2>3, <3>1
  <2>4. CASE i = Len(out) + 1
    BY <1>3, <2>1, <2>4
  <2> QED
    BY <2>2, <2>3, <2>4
<1> QED
  BY <1>2, <1>3

\* What demux keeps of a packet that arrives.
CallOf(p, pkt) ==
  [pes |-> pesOut', origin |-> mOrigins'[p], byLength |-> ~pkt.payload_unit_start_indicator]

LEMMA ArrivalOrigins ==
  ASSUME HeadInv, DOMAIN mOrigins = Pids, NEW p \in Pids, NEW pkt, pkt.pid = p,
         NEW step, Arrive(p, pkt, step)
  PROVE  /\ DOMAIN mOrigins' = Pids /\ \A q \in Pids \ {p} : mOrigins'[q] = mOrigins[q]
         /\ mOrigins'[p] = IF pkt.payload_unit_start_indicator THEN Position(p) ELSE mOrigins[p]
         /\ delivered'[p] = IF pesOut' = NoPes THEN delivered[p]
                            ELSE Append(delivered[p], CallOf(p, pkt))
<1> DEFINE info == parseTsPacketInfo(pkt)
           origin == Position(p)
           call == CallOf(p, pkt)
<1>1. info.pid = p /\ info.isPayloadStart = pkt.payload_unit_start_indicator
  BY DEF parseTsPacketInfo
<1>2. RecordOrigin(info, origin)
  BY DEF Arrive, collectPes
<1>3. delivered' = IF pesOut' = NoPes THEN delivered ELSE [delivered EXCEPT ![p] = Append(@, call)]
  BY <1>1 DEF Arrive, CallOf
<1>4. DOMAIN delivered = Pids
  BY DEF HeadInv, DeliveredInv
<1> HIDE DEF info, origin, call
<1>5. delivered'[p] = IF pesOut' = NoPes THEN delivered[p] ELSE Append(delivered[p], call)
  BY <1>3, <1>4
<1>6. mOrigins' = IF info.isPayloadStart THEN [mOrigins EXCEPT ![p] = origin] ELSE mOrigins
  BY <1>1, <1>2 DEF RecordOrigin
<1> QED
  BY <1>1, <1>5, <1>6 DEF origin, call

\* What is under collection is the last unit, or came to harm.
OpenIsLast ==
  \A p \in Pids : mPesPacket[p] # NoPes =>
    /\ units[p] # <<>> /\ Len(units[p]) \in Nat \ {0} /\ Len(units[p]) \in DOMAIN units[p]
    /\ \E u \in DOMAIN units[p] :
         Begins(p, mPesPacket[p], u) /\ (u \in damaged[p] \/ u = Len(units[p]))

LEMMA LastIsOpen == HeadInv /\ ContainedInv => OpenIsLast
<1> SUFFICES ASSUME HeadInv, ContainedInv, NEW p \in Pids, mPesPacket[p] # NoPes
             PROVE  /\ units[p] # <<>> /\ Len(units[p]) \in Nat \ {0}
                    /\ Len(units[p]) \in DOMAIN units[p]
                    /\ \E u \in DOMAIN units[p] :
                         Begins(p, mPesPacket[p], u) /\ (u \in damaged[p] \/ u = Len(units[p]))
  BY DEF OpenIsLast
<1> DEFINE list == units[p]
           pes == mPesPacket[p]
<1>1. /\ list \in Seq(UnitRecord) /\ Sized(list) /\ pes.mPesBuffer # <<>>
      /\ Contained(p, list, delivered[p], pes, lastPacket[p], damaged[p])
  BY KnownOfPid
<1>2. IsOpen(p, list, delivered[p], pes) \/ IsHurt(p, list, pes, damaged[p])
  BY <1>1 DEF Contained, Rests
<1>3. list # <<>>
  BY <1>2 DEF IsOpen, IsHurt
<1>4. Len(list) \in Nat \ {0} /\ Len(list) \in DOMAIN list
  BY <1>1, <1>3
<1>5. CASE IsOpen(p, list, delivered[p], pes)
  <2>1. Begins(p, pes, Len(list))
    BY <1>1, <1>4, <1>5, UnitBegins DEF IsOpen
  <2> QED
    BY <1>1, <1>3, <1>4, <2>1
<1>6. CASE IsHurt(p, list, pes, damaged[p])
  BY <1>1, <1>3, <1>4, <1>6 DEF IsHurt
<1> QED
  BY <1>2, <1>5, <1>6

\* The packet that starts a new unit.
LEMMA BeginOrigins ==
  ASSUME HeadInv, HeadInv', ContainedInv, OpenIsLast, OpenIsLast', OriginsInv, NEW p \in Pids,
         NEW pkt, pkt.pid = p, pkt.payload_unit_start_indicator, NEW step, Arrive(p, pkt, step),
         PositionsStay(p), Len(units'[p]) = Len(units[p]) + 1,
         Position(p) = StartOf(p, Len(units[p]))'
  PROVE  OriginKept(p)' /\ CallsGivenTo(p)'
<1>1. /\ mOrigins'[p] = Position(p)
      /\ delivered'[p] = IF pesOut' = NoPes THEN delivered[p]
                         ELSE Append(delivered[p], CallOf(p, pkt))
  BY ArrivalOrigins DEF OriginsInv
<1>2. pesOut' \in {NoPes, mPesPacket[p]}
  BY DEF Arrive, collectPes, StartPes, IgnorePes, AppendPes, parseTsPacketInfo
<1>3. IsSeq(delivered[p]) /\ CallsGivenTo(p) /\ units[p] \in Seq(UnitRecord)
  BY KnownOfPid DEF OriginsInv
<1>4. ASSUME NEW c, c = CallOf(p, pkt), pesOut' # NoPes PROVE OriginGiven(p, c)'
  <2>1. PICK u \in DOMAIN units[p] :
          Begins(p, mPesPacket[p], u) /\ (u \in damaged[p] \/ u = Len(units[p]))
    BY <1>2, <1>4 DEF OpenIsLast
  <2>2. c.pes = mPesPacket[p] /\ c.origin = Position(p) /\ ~c.byLength
    BY <1>1, <1>2, <1>4 DEF CallOf
  <2>3. GivenUnit(c) = u /\ Setter(c) = u + 1
    BY <2>1, <2>2 DEF GivenUnit, Setter, Begins, UnitOf
  <2>4. SUFFICES ASSUME u \notin damaged'[p]
                 PROVE  u + 1 \in DOMAIN units'[p] /\ c.origin = StartOf(p, u + 1)'
    BY <2>3 DEF OriginGiven, GivenUnit, Setter
  <2>5. u = Len(units[p])
    BY <2>1, <2>4 DEF PositionsStay
  <2>6. units'[p] \in Seq(UnitRecord)
    BY DEF HeadInv, SenderInv
  <2>7. u + 1 \in DOMAIN units'[p] /\ u + 1 = Len(units'[p])
    BY <1>3, <2>5, <2>6
  <2>8. StartOf(p, u + 1)' = StartOf(p, Len(units[p]))'
    BY <2>7 DEF StartOf, SentBefore
  <2> QED
    BY <2>2, <2>7, <2>8
<1>5. CallsGivenTo(p)'
  <2>1. \/ delivered'[p] = delivered[p]
        \/ \E call : OriginGiven(p, call)' /\ delivered'[p] = Append(delivered[p], call)
    <3>1. PICK c : c = CallOf(p, pkt)
      OBVIOUS
    <3>2. pesOut' # NoPes => OriginGiven(p, c)' /\ delivered'[p] = Append(delivered[p], c)
      BY <1>1, <1>4, <3>1
    <3> QED
      BY <1>1, <3>2
  <2> QED
    BY <1>3, <2>1, CallsGiven
<1>6. OriginKept(p)'
  <2>1. SUFFICES ASSUME mPesPacket'[p] # NoPes, NEW u \in DOMAIN units'[p],
                        Begins(p, mPesPacket[p], u)', u \notin damaged'[p]
                 PROVE  mOrigins'[p] = StartOf(p, u)'
    BY DEF OriginKept
  <2>2. u = Len(units'[p])
    <3>1. PICK v \in DOMAIN units'[p] :
            Begins(p, mPesPacket[p], v)' /\ (v \in damaged'[p] \/ v = Len(units'[p]))
      BY <2>1 DEF OpenIsLast
    <3>2. v = u
      BY <2>1, <3>1 DEF Begins
    <3> QED
      BY <2>1, <3>1, <3>2
  <2>3. StartOf(p, u)' = StartOf(p, Len(units[p]))'
    BY <2>2 DEF StartOf, SentBefore
  <2> QED
    BY <1>1, <2>3
<1> QED
  BY <1>5, <1>6

\* The packet that starts the last unit comes again.
LEMMA AgainOrigins ==
  ASSUME HeadInv, ContainedInv, OpenIsLast, OpenIsLast', OriginsInv, NEW p \in Pids,
         NEW pkt, pkt = lastPacket[p], pkt # NoPacket,
         pkt.pid = p, pkt.payload_unit_start_indicator, NEW step, Arrive(p, pkt, step),
         PositionsStay(p), units'[p] = units[p], damaged'[p] = damaged[p] \cup OpenUnit(p)
  PROVE  OriginKept(p)' /\ CallsGivenTo(p)'
<1>1. delivered'[p] = IF pesOut' = NoPes THEN delivered[p]
                      ELSE Append(delivered[p], CallOf(p, pkt))
  BY ArrivalOrigins DEF OriginsInv
<1>2. pesOut' \in {NoPes, mPesPacket[p]}
  BY DEF Arrive, collectPes, StartPes, IgnorePes, AppendPes, parseTsPacketInfo
<1>3. IsSeq(delivered[p]) /\ CallsGivenTo(p)
  BY KnownOfPid DEF OriginsInv
<1>4. ASSUME NEW c, c = CallOf(p, pkt), pesOut' # NoPes PROVE OriginGiven(p, c)'
  <2>1. PICK u \in DOMAIN units[p] :
          Begins(p, mPesPacket[p], u) /\ (u \in damaged[p] \/ u = Len(units[p]))
    BY <1>2, <1>4 DEF OpenIsLast
  <2>2. Len(units[p]) \in damaged'[p]
    BY <1>2, <1>4 DEF OpenUnit
  <2>3. GivenUnit(c) = u
    BY <1>2, <1>4, <2>1 DEF CallOf, GivenUnit, Begins, UnitOf
  <2> QED
    BY <2>1, <2>2, <2>3 DEF OriginGiven, GivenUnit, Setter
<1>5. CallsGivenTo(p)'
  <2>1. \/ delivered'[p] = delivered[p]
        \/ \E call : OriginGiven(p, call)' /\ delivered'[p] = Append(delivered[p], call)
    <3>1. PICK c : c = CallOf(p, pkt)
      OBVIOUS
    <3>2. pesOut' # NoPes => OriginGiven(p, c)' /\ delivered'[p] = Append(delivered[p], c)
      BY <1>1, <1>4, <3>1
    <3> QED
      BY <1>1, <3>2
  <2> QED
    BY <1>3, <2>1, CallsGiven
<1>6. Len(units[p]) \in damaged'[p]
  <2>1. CASE mPesPacket[p] # NoPes
    BY <2>1 DEF OpenUnit
  <2>2. CASE mPesPacket[p] = NoPes
    <3>1. ~Rests(p, units[p], delivered[p], mPesPacket[p], lastPacket[p])
      BY DEF Rests
    <3>2. ~IsOpen(p, units[p], delivered[p], mPesPacket[p])
      <4> SUFFICES ASSUME IsOpen(p, units[p], delivered[p], mPesPacket[p]) PROVE FALSE
        OBVIOUS
      <4>1. units[p] \in Seq(UnitRecord) /\ Sized(units[p]) /\ units[p] # <<>>
        BY KnownOfPid DEF IsOpen
      <4>2. Len(units[p]) \in DOMAIN units[p]
        BY <4>1
      <4>3. mPesPacket[p].mPesBuffer = Cells(p, Len(units[p]), 1, units[p][Len(units[p])].sent)
        BY DEF IsOpen
      <4> QED
        BY <2>2, <4>1, <4>2, <4>3, UnitBegins
    <3> QED
      BY <3>1, <3>2, KnownOfPid DEF Contained, IsHurt
  <2> QED
    BY <2>1, <2>2
<1>7. OriginKept(p)'
  <2>1. SUFFICES ASSUME mPesPacket'[p] # NoPes, NEW u \in DOMAIN units'[p],
                        Begins(p, mPesPacket[p], u)', u \notin damaged'[p]
                 PROVE  FALSE
    BY DEF OriginKept
  <2>2. PICK v \in DOMAIN units'[p] :
          Begins(p, mPesPacket[p], v)' /\ (v \in damaged'[p] \/ v = Len(units'[p]))
    BY <2>1 DEF OpenIsLast
  <2>3. v = u
    BY <2>1, <2>2 DEF Begins
  <2> QED
    BY <1>6, <2>1, <2>2, <2>3
<1> QED
  BY <1>5, <1>7

\* A packet that is no start.
LEMMA FurtherOrigins ==
  ASSUME HeadInv, OpenIsLast, OriginsInv, NEW p \in Pids,
         NEW pkt, ParsablePacket(units'[p], p, pkt), ~pkt.payload_unit_start_indicator,
         NEW step, Arrive(p, pkt, step), PositionsStay(p)
  PROVE  OriginKept(p)' /\ CallsGivenTo(p)'
<1> DEFINE pes == mPesPacket[p]
           bytes == BytesFrom(pkt, parseTsPacketInfo(pkt).payloadStartOffset)
           longer == Extended(pes, bytes)
<1>1. /\ mOrigins'[p] = mOrigins[p]
      /\ delivered'[p] = IF pesOut' = NoPes THEN delivered[p]
                         ELSE Append(delivered[p], CallOf(p, pkt))
  BY ArrivalOrigins DEF OriginsInv, ParsablePacket
<1>2. IsSeq(delivered[p]) /\ CallsGivenTo(p) /\ OriginKept(p) /\ pes \in PesRecord
      /\ DOMAIN mPesPacket = Pids
  BY KnownOfPid DEF OriginsInv, HeadInv, DeliveredInv, CollectorInv
<1>3. CASE pes = NoPes
  <2>1. pesOut' = NoPes /\ mPesPacket' = mPesPacket
    BY <1>3 DEF Arrive, collectPes, StartPes, IgnorePes, AppendPes, Started, ParsablePacket,
              parseTsPacketInfo
  <2>2. OriginKept(p)'
    BY <1>3, <2>1 DEF OriginKept
  <2> QED
    BY <1>1, <1>2, <2>1, <2>2, CallsGiven
<1>4. CASE pes # NoPes
  <2>1. /\ pesOut' \in {NoPes, longer} /\ mPesPacket'[p] \in {NoPes, longer}
    BY <1>2, <1>4 DEF Arrive, collectPes, StartPes, IgnorePes, AppendPes, Started,
                      ParsablePacket, parseTsPacketInfo, Remaining
  <2>2. PICK u \in DOMAIN units[p] : Begins(p, pes, u)
    BY <1>4 DEF OpenIsLast
  <2>3. Begins(p, longer, u)
    <3>1. pes.mPesBuffer \in Seq(Cell) /\ pes.mPesBuffer # <<>>
      BY <1>2, <1>4, KnownOfPid DEF HeadInv, CollectorInv, HeadedPes, PesRecord
    <3>2. bytes \in Seq(Cell)
      BY CopiedBytes DEF ParsablePacket, Offset
    <3>3. longer.mPesBuffer = pes.mPesBuffer \o bytes
      BY <1>2 DEF Extended, PesRecord
    <3> HIDE DEF bytes, longer
    <3>4. (pes.mPesBuffer \o bytes)[1] = pes.mPesBuffer[1]
      BY <3>1, <3>2
    <3> QED
      BY <2>2, <3>3, <3>4 DEF Begins
  <2>4. u \in damaged'[p] \/ mOrigins'[p] = StartOf(p, u)'
    BY <1>1, <1>2, <1>4, <2>2 DEF OriginKept, PositionsStay
  <2>5. u \in DOMAIN units'[p]
    BY DEF PositionsStay
  <2> HIDE DEF longer
  <2>6. OriginKept(p)'
    <3>1. SUFFICES ASSUME mPesPacket'[p] # NoPes, NEW v \in DOMAIN units'[p],
                          Begins(p, mPesPacket[p], v)'
                   PROVE  v \in damaged'[p] \/ mOrigins'[p] = StartOf(p, v)'
      BY DEF OriginKept
    <3>2. v = u
      BY <2>1, <2>3, <3>1 DEF Begins
    <3> QED
      BY <2>4, <3>2
  <2>7. ASSUME NEW c, c = CallOf(p, pkt), pesOut' # NoPes PROVE OriginGiven(p, c)'
    <3>1. c.pes = longer /\ c.origin = mOrigins'[p] /\ c.byLength
      BY <2>1, <2>7 DEF CallOf
    <3>2. GivenUnit(c) = u /\ Setter(c) = u
      BY <2>3, <3>1 DEF GivenUnit, Setter, Begins, UnitOf
    <3> QED
      BY <2>4, <2>5, <3>1, <3>2 DEF OriginGiven, GivenUnit, Setter
  <2>8. \/ delivered'[p] = delivered[p]
        \/ \E call : OriginGiven(p, call)' /\ delivered'[p] = Append(delivered[p], call)
    <3>1. PICK c : c = CallOf(p, pkt)
      OBVIOUS
    <3>2. pesOut' # NoPes => OriginGiven(p, c)' /\ delivered'[p] = Append(delivered[p], c)
      BY <1>1, <2>7, <3>1
    <3> QED
      BY <1>1, <3>2
  <2> QED
    BY <1>2, <2>6, <2>8, CallsGiven
<1> QED
  BY <1>3, <1>4

\* No packet arrives on the PID.
LEMMA UntouchedOrigins ==
  ASSUME HeadInv, OpenIsLast, OriginsInv, NEW p \in Pids, PositionsStay(p), Untouched(p),
         mOrigins'[p] = mOrigins[p]
  PROVE  OriginKept(p)' /\ CallsGivenTo(p)'
<1>1. IsSeq(delivered[p]) /\ CallsGivenTo(p) /\ OriginKept(p)
  BY DEF OriginsInv, HeadInv, DeliveredInv
<1>2. CallsGivenTo(p)'
  BY <1>1, CallsGiven DEF Untouched
<1>3. OriginKept(p)'
  <2>1. SUFFICES ASSUME mPesPacket[p] # NoPes, NEW u \in DOMAIN units'[p],
                        Begins(p, mPesPacket[p], u)
                 PROVE  u \in damaged'[p] \/ mOrigins'[p] = StartOf(p, u)'
    BY DEF OriginKept, Untouched, Begins
  <2>2. PICK v \in DOMAIN units[p] : Begins(p, mPesPacket[p], v)
    BY <2>1 DEF OpenIsLast
  <2>3. v = u
    BY <2>1, <2>2 DEF Begins
  <2> QED
    BY <1>1, <2>1, <2>2, <2>3 DEF OriginKept, PositionsStay
<1> QED
  BY <1>2, <1>3

\* What the lists of units, the channel and the collector do for the other PIDs.
LEMMA RestOrigins ==
  ASSUME HeadInv, OpenIsLast, OriginsInv, SenderInv', NEW p \in Pids, NEW q \in Pids \ {p},
         OthersRest(p), DamageStays(p), mOrigins'[q] = mOrigins[q]
  PROVE  OriginKept(q)' /\ CallsGivenTo(q)'
<1>1. /\ units'[q] = units[q] /\ damaged'[q] = damaged[q]
      /\ delivered'[q] = delivered[q] /\ mPesPacket'[q] = mPesPacket[q]
  BY DEF OthersRest, DamageStays
<1>2. PositionsStay(q)
  BY <1>1, StartsStay DEF HeadInv
<1> QED
  BY <1>1, <1>2, UntouchedOrigins DEF Untouched

\* The invariants of the steps, and what a step on one PID needs.
AllKnown == HeadInv /\ ContainedInv /\ OpenIsLast /\ OriginsInv
NextKnown == (HeadInv /\ ContainedInv /\ OpenIsLast)'

KeepsOrigins(p) ==
  /\ DOMAIN mOrigins' = Pids /\ \A q \in Pids \ {p} : mOrigins'[q] = mOrigins[q]
  /\ OthersRest(p) /\ DamageStays(p)
  /\ OriginKept(p)' /\ CallsGivenTo(p)'

LEMMA StartKeepsOrigins ==
  ASSUME AllKnown, NextKnown, NEW p \in Pids, SendStart(p)
  PROVE  KeepsOrigins(p)
<1>0. PICK head \in Heads, flags \in AfFlags :
        \E n \in PesHeaderSize..SizeOrLess(MaxPayload, PesSize(head)) :
          /\ BeginUnit(p, 0, head, n)
          /\ Transfer(p, PayloadPacket(p, TRUE, flags, head, Cells(p, CurrentUnit(p) + 1, 1, n)))
  BY DEF SendStart
<1>1. PICK n \in PesHeaderSize..SizeOrLess(MaxPayload, PesSize(head)) :
        /\ BeginUnit(p, 0, head, n)
        /\ Transfer(p, PayloadPacket(p, TRUE, flags, head, Cells(p, CurrentUnit(p) + 1, 1, n)))
  BY <1>0
<1> DEFINE list == units[p]
           new == units'[p]
           record == [head |-> head, sent |-> n]
           pkt == PayloadPacket(p, TRUE, flags, head, Cells(p, CurrentUnit(p) + 1, 1, n))
<1>2. list \in Seq(UnitRecord) /\ new \in Seq(UnitRecord)
  BY DEF AllKnown, NextKnown, HeadInv, SenderInv
<1>3. new = Append(list, record) /\ \A q \in Pids \ {p} : units'[q] = units[q]
  BY <1>1 DEF BeginUnit, MoreSent, AllKnown, HeadInv, SenderInv
<1>4. pkt.pid = p /\ pkt.payload_unit_start_indicator = TRUE /\ Transfer(p, pkt)
  BY <1>1 DEF PayloadPacket, TsPacket
<1> HIDE DEF pkt, record
<1>5. /\ Len(list) \in Nat /\ Len(new) = Len(list) + 1
      /\ \A i \in 1..Len(list) : i \in DOMAIN new /\ new[i] = list[i]
  <2> HIDE DEF list, new
  <2>1. Len(list) \in Nat /\ Len(new) = Len(list) + 1
    BY <1>2, <1>3
  <2>2. \A i \in 1..Len(list) : new[i] = list[i]
    BY <1>2, <1>3, AppendIsSeq DEF IsSeq
  <2> QED
    BY <1>2, <2>1, <2>2
<1>6. OnlyGrows(p)
  BY <1>2, <1>3, <1>5 DEF OnlyGrows, Grown, NextKnown, HeadInv
<1>7. /\ OthersRest(p) /\ DamageStays(p)
      /\ \/ Arrive(p, pkt, 1)
         \/ Untouched(p)
  BY <1>4, <1>6, TransferMeans DEF AllKnown, ContainedInv
<1>8. PositionsStay(p)
  BY <1>2, <1>5, <1>7, StartsStay DEF DamageStays, AllKnown, NextKnown, HeadInv
<1>9. Position(p) = StartOf(p, Len(units[p]))'
  <2>1. Len(list) + 1 \in 1..(Len(list) + 1) /\ Len(list) <= Len(new)
        /\ (Len(list) + 1) - 1 = Len(list)
    BY <1>5
  <2> HIDE DEF list, new
  <2>2. SubSeq(new, 1, Len(list) + 1 - 1) = SubSeq(list, 1, Len(list) + 1 - 1)
    BY <1>2, <1>5, <2>1, FrontOfFront
  <2>3. Position(p) = CellsOf(SubSeq(list, 1, Len(list) + 1 - 1)) + 1
    BY DEF Position, StartOf, SentBefore, CurrentUnit, list
  <2>4. StartOf(p, Len(units[p]))' = CellsOf(SubSeq(new, 1, Len(new) - 1)) + 1
    BY DEF StartOf, SentBefore, new
  <2> QED
    <3>1. Len(new) - 1 = Len(list) + 1 - 1
      BY <1>5
    <3> QED
      BY <2>2, <2>3, <2>4, <3>1, Zenon
<1>10. CASE Arrive(p, pkt, 1)
  <2>1. OriginKept(p)' /\ CallsGivenTo(p)'
    BY <1>4, <1>5, <1>8, <1>9, <1>10, BeginOrigins DEF AllKnown, NextKnown
  <2>2. DOMAIN mOrigins' = Pids /\ \A q \in Pids \ {p} : mOrigins'[q] = mOrigins[q]
    BY <1>4, <1>10, ArrivalOrigins DEF AllKnown, OriginsInv
  <2> QED
    BY <1>7, <2>1, <2>2 DEF KeepsOrigins
<1>11. CASE ~Arrive(p, pkt, 1)
  <2>1. mOrigins' = mOrigins /\ Untouched(p)
    BY <1>4, <1>7, <1>11 DEF Transfer, receiver
  <2>2. OriginKept(p)' /\ CallsGivenTo(p)'
    BY <1>8, <2>1, UntouchedOrigins DEF AllKnown
  <2> QED
    BY <1>7, <2>1, <2>2 DEF KeepsOrigins, AllKnown, OriginsInv
<1> QED
  BY <1>10, <1>11

LEMMA MoreKeepsOrigins ==
  ASSUME AllKnown, NextKnown, NEW p \in Pids, SendMore(p)
  PROVE  KeepsOrigins(p)
<1> DEFINE list == units[p]
           new == units'[p]
           N == Len(list)
           unit == Last(list)
<1>0. PICK flags \in AfFlags, n \in 1..SizeOrLess(MaxPayload, PesSize(unit.head) - unit.sent) :
        /\ ResumeUnit(p, n)
        /\ Transfer(p, PayloadPacket(p, FALSE, flags, unit.head,
                          Cells(p, CurrentUnit(p), unit.sent + 1, unit.sent + n)))
  BY DEF SendMore
<1> DEFINE pkt == PayloadPacket(p, FALSE, flags, unit.head,
                    Cells(p, CurrentUnit(p), unit.sent + 1, unit.sent + n))
<1>1. /\ list # <<>> /\ list \in Seq(UnitRecord) /\ new \in Seq(UnitRecord)
      /\ N \in Nat \ {0} /\ N \in DOMAIN list
  BY DEF SendMore, AllKnown, NextKnown, HeadInv, SenderInv
<1>2. pkt.pid = p /\ pkt.payload_unit_start_indicator = FALSE /\ pkt # NoPacket /\ Transfer(p, pkt)
  BY <1>0 DEF PayloadPacket, TsPacket, NoPacket
<1> HIDE DEF pkt
<1>3. new = MoreSent(list, n) /\ \A q \in Pids \ {p} : units'[q] = units[q]
  BY <1>0 DEF ResumeUnit, AllKnown, HeadInv, SenderInv
<1>4. n \in Nat /\ n # 0
  OBVIOUS
<1>5. new = [list EXCEPT ![N].sent = @ + n]
  BY <1>3, <1>4 DEF MoreSent
<1>6. \A i \in DOMAIN list : i \in DOMAIN new /\ (i < N => new[i] = list[i])
  <2> HIDE DEF list, new
  <2> QED
    BY <1>1, <1>5
<1>7. OnlyGrows(p)
  BY <1>1, <1>0, <1>4, ResumeGrows DEF AllKnown, HeadInv
<1>8. /\ OthersRest(p) /\ DamageStays(p) /\ lastPacket'[p] = pkt
      /\ \/ Arrive(p, pkt, 1)
         \/ Untouched(p)
  BY <1>2, <1>7, TransferMeans DEF AllKnown, ContainedInv
<1>9. PositionsStay(p)
  BY <1>6, <1>8, StartsStay DEF DamageStays, AllKnown, NextKnown, HeadInv
<1>10. CASE Arrive(p, pkt, 1)
  <2>1. ParsablePacket(units'[p], p, pkt)
    BY <1>2, <1>8 DEF NextKnown, HeadInv, ChannelInv
  <2>2. OriginKept(p)' /\ CallsGivenTo(p)'
    BY <1>2, <1>9, <1>10, <2>1, FurtherOrigins DEF AllKnown
  <2>3. DOMAIN mOrigins' = Pids /\ \A q \in Pids \ {p} : mOrigins'[q] = mOrigins[q]
    BY <1>2, <1>10, ArrivalOrigins DEF AllKnown, OriginsInv
  <2> QED
    BY <1>8, <2>2, <2>3 DEF KeepsOrigins
<1>11. CASE ~Arrive(p, pkt, 1)
  <2>1. mOrigins' = mOrigins /\ Untouched(p)
    BY <1>2, <1>8, <1>11 DEF Transfer, receiver
  <2>2. OriginKept(p)' /\ CallsGivenTo(p)'
    BY <1>9, <2>1, UntouchedOrigins DEF AllKnown
  <2> QED
    BY <1>8, <2>1, <2>2 DEF KeepsOrigins, AllKnown, OriginsInv
<1> QED
  BY <1>10, <1>11

LEMMA RepeatKeepsOrigins ==
  ASSUME AllKnown, NextKnown, NEW p \in Pids, RepeatPacket(p)
  PROVE  KeepsOrigins(p)
<1> DEFINE pkt == lastPacket[p]
<1>1. pkt # NoPacket /\ units' = units /\ Arrive(p, pkt, 0) /\ Fault("repeat", p, OpenUnit(p))
  BY DEF RepeatPacket, Repeatable, sender
<1>2. ParsablePacket(units[p], p, pkt)
  BY <1>1 DEF AllKnown, HeadInv, ChannelInv
<1>3. DamageStays(p) /\ damaged'[p] = damaged[p] \cup OpenUnit(p)
  BY <1>1, HarmIsKept DEF AllKnown, ContainedInv
<1>4. OthersRest(p)
  BY RepeatMeans DEF AllKnown, ContainedInv, StillMeans
<1>5. PositionsStay(p)
  BY <1>1, <1>3, StartsStay DEF DamageStays, AllKnown, NextKnown, HeadInv
<1>6. DOMAIN mOrigins' = Pids /\ \A q \in Pids \ {p} : mOrigins'[q] = mOrigins[q]
  BY <1>1, <1>2, ArrivalOrigins DEF AllKnown, OriginsInv, ParsablePacket
<1>7. CASE pkt.payload_unit_start_indicator
  <2>1. pkt.pid = p /\ units'[p] = units[p]
    BY <1>1, <1>2 DEF ParsablePacket
  <2> HIDE DEF pkt
  <2>2. OriginKept(p)' /\ CallsGivenTo(p)'
    BY <1>1, <1>3, <1>5, <1>7, <2>1, AgainOrigins DEF AllKnown, NextKnown, pkt
  <2> QED
    BY <1>3, <1>4, <1>6, <2>2 DEF KeepsOrigins
<1>8. CASE ~pkt.payload_unit_start_indicator
  <2>1. ParsablePacket(units'[p], p, pkt)
    BY <1>1, <1>2
  <2> HIDE DEF pkt
  <2>2. OriginKept(p)' /\ CallsGivenTo(p)'
    BY <1>1, <1>5, <1>8, <2>1, FurtherOrigins DEF AllKnown
  <2> QED
    BY <1>3, <1>4, <1>6, <2>2 DEF KeepsOrigins
<1> QED
  BY <1>7, <1>8

LEMMA AdaptationKeepsOrigins ==
  ASSUME AllKnown, NextKnown, NEW p \in Pids, SendAdaptation(p)
  PROVE  KeepsOrigins(p)
<1>1. PICK flags \in AfFlags : Arrive(p, AdaptationPacket(p, flags), 0)
  BY DEF SendAdaptation
<1> DEFINE pkt == AdaptationPacket(p, flags)
<1>2. units' = units /\ Fault("adaptation", p, OpenUnit(p)) /\ Arrive(p, pkt, 0)
  BY <1>1 DEF SendAdaptation, sender
<1>3. /\ pkt.pid = p /\ pkt.payload_unit_start_indicator = FALSE
      /\ pkt.bytes \in Seq(Cell) /\ Len(pkt.bytes) = TsPacketSize /\ Offset(pkt) = 0
  BY NoPayloadIsWholePacket
<1> HIDE DEF pkt
<1>4. ParsablePacket(units'[p], p, pkt)
  <2>1. 0 \in 0..(TsPacketSize - 1)
    BY PacketAssumption
  <2>2. pkt.payload_unit_start_indicator \in BOOLEAN /\ ~pkt.payload_unit_start_indicator
    BY <1>3
  <2> QED
    BY <1>3, <2>1, <2>2 DEF ParsablePacket
<1>5. DamageStays(p)
  BY <1>2, HarmIsKept DEF AllKnown, ContainedInv
<1>6. OthersRest(p)
  BY AdaptationMeans DEF AllKnown, ContainedInv, StillMeans
<1>7. PositionsStay(p)
  BY <1>2, <1>5, StartsStay DEF DamageStays, AllKnown, NextKnown, HeadInv
<1>8. OriginKept(p)' /\ CallsGivenTo(p)'
  BY <1>2, <1>3, <1>4, <1>7, FurtherOrigins DEF AllKnown
<1>9. DOMAIN mOrigins' = Pids /\ \A q \in Pids \ {p} : mOrigins'[q] = mOrigins[q]
  BY <1>2, <1>3, ArrivalOrigins DEF AllKnown, OriginsInv
<1> QED
  BY <1>5, <1>6, <1>8, <1>9 DEF KeepsOrigins

LEMMA NextKeepsOrigins == AllKnown /\ NextKnown /\ [Next]_vars => OriginsInv'
<1> SUFFICES ASSUME AllKnown, NextKnown, [Next]_vars PROVE OriginsInv'
  OBVIOUS
<1>1. CASE UNCHANGED vars
  <2>1. /\ mOrigins' = mOrigins /\ units' = units /\ delivered' = delivered
        /\ mPesPacket' = mPesPacket /\ damaged' = damaged
    BY <1>1 DEF vars, sender, receiver, channel, history
  <2>2. ASSUME NEW p \in Pids PROVE OriginKept(p)' /\ CallsGivenTo(p)'
    <3>1. PositionsStay(p) /\ Untouched(p)
      BY <2>1, StartsStay DEF AllKnown, NextKnown, HeadInv, Untouched
    <3> QED
      BY <2>1, <3>1, UntouchedOrigins DEF AllKnown
  <2> QED
    BY <2>1, <2>2 DEF OriginsInv, AllKnown
<1>2. CASE Next
  <2>1. PICK p \in Pids : KeepsOrigins(p)
    BY <1>2, StartKeepsOrigins, MoreKeepsOrigins, RepeatKeepsOrigins, AdaptationKeepsOrigins
       DEF Next
  <2>2. ASSUME NEW q \in Pids PROVE OriginKept(q)' /\ CallsGivenTo(q)'
    <3>1. CASE q = p
      BY <2>1, <3>1 DEF KeepsOrigins
    <3>2. CASE q # p
      BY <2>1, <3>2, RestOrigins DEF KeepsOrigins, AllKnown, NextKnown, HeadInv
    <3> QED
      BY <3>1, <3>2
  <2> QED
    BY <2>1, <2>2 DEF OriginsInv, KeepsOrigins
<1> QED
  BY <1>1, <1>2

LEMMA InitHasOrigins == Init => OriginsInv
BY DEF Init, InitPes, InitOrigins, OriginsInv, OriginKept, CallsGivenTo

LEMMA OriginsSuffice == OriginsInv => OriginOfDelivered
BY DEF OriginsInv, CallsGivenTo, OriginGiven, GivenUnit, Setter, OriginOfDelivered

\* The origin that getOrigin gives inside a PES callback is that of the packet
\* the PES packet starts with when its length ended it, and that of the next
\* one when the start of that did, wherever no fault was: for any size of PES
\* packets, and any number of them and of faults (setOrigin, collectPes).
THEOREM OriginIsAlwaysOfTheSetter == Spec => []OriginOfDelivered
<1>1. Init => HeadInv /\ ContainedInv /\ OriginsInv
  BY InitHasHeads, InitIsContained, InitHasOrigins
<1>2. HeadInv /\ ContainedInv /\ OriginsInv /\ [Next]_vars
        => (HeadInv /\ ContainedInv /\ OriginsInv)'
  <2>1. HeadInv /\ ContainedInv /\ [Next]_vars => (HeadInv /\ ContainedInv)'
    BY NextKeepsHeads, NextContains
  <2>2. HeadInv /\ ContainedInv => OpenIsLast
    BY LastIsOpen
  <2>3. (HeadInv /\ ContainedInv => OpenIsLast)'
    BY LastIsOpen, PTL
  <2> QED
    BY <2>1, <2>2, <2>3, NextKeepsOrigins DEF AllKnown, NextKnown
<1>3. OriginsInv => OriginOfDelivered
  BY OriginsSuffice
<1> QED
  BY <1>1, <1>2, <1>3, PTL DEF Spec

-----------------------------------------------------------------------------
(* Loss makes no disorder *)

\* A cell of a list of units that was sent.
IsSent(p, list, cell) ==
  /\ list # <<>> /\ PidOf(cell) = p /\ UnitOf(cell) \in Nat /\ IndexOf(cell) \in Nat
  /\ \/ UnitOf(cell) < Len(list)
     \/ UnitOf(cell) = Len(list) /\ IndexOf(cell) <= list[Len(list)].sent

\* Cells of a list in the order sent.
Run(p, list, cells) ==
  cells \in Seq(Cell) /\ Ascend(cells) /\ \A i \in DOMAIN cells : IsSent(p, list, cells[i])

\* Cells that come after all those of a list, and are the last of another one.
Fresh(p, list, new, cells) ==
  /\ Run(p, new, cells)
  /\ \A c : IsSent(p, list, c) => IsSent(p, new, c) /\ \A i \in DOMAIN cells : Before(c, cells[i])

\* The buffers called back, and the one under collection.
GivenInOrder(p, list, out) ==
  /\ IsSeq(out)
  /\ \A i \in DOMAIN out :
       /\ Run(p, list, out[i].pes.mPesBuffer)
       /\ \A j \in DOMAIN out : i < j => Precede(out[i].pes.mPesBuffer, out[j].pes.mPesBuffer)

FollowsGiven(p, list, out, cells) ==
  Run(p, list, cells) /\ \A i \in DOMAIN out : Precede(out[i].pes.mPesBuffer, cells)

CellsOfPid(p) ==
  /\ GivenInOrder(p, units[p], delivered[p])
  /\ FollowsGiven(p, units[p], delivered[p], mPesPacket[p].mPesBuffer)

\* The inductive invariant, together with HeadInv.
CellsInv == happened \subseteq {"lose"} => \A p \in Pids : CellsOfPid(p)

LEMMA RunStays ==
  ASSUME NEW p, NEW list, NEW new, NEW cells, NEW bytes, Fresh(p, list, new, bytes),
         Run(p, list, cells)
  PROVE  Run(p, new, cells) /\ Precede(cells, bytes)
BY DEF Fresh, Run, Precede

\* The buffers stay in order, and what is fresh follows them.
LEMMA GivenStaysInOrder ==
  ASSUME NEW p, NEW list, NEW new, NEW bytes, Fresh(p, list, new, bytes), NEW out,
         GivenInOrder(p, list, out)
  PROVE  GivenInOrder(p, new, out) /\ FollowsGiven(p, new, out, bytes)
<1>1. \A i \in DOMAIN out : Run(p, new, out[i].pes.mPesBuffer) /\ Precede(out[i].pes.mPesBuffer, bytes)
  BY RunStays DEF GivenInOrder
<1> QED
  BY <1>1 DEF GivenInOrder, FollowsGiven, Fresh

\* A buffer that is called back.
LEMMA OneMoreInOrder ==
  ASSUME NEW p, NEW list, NEW out, NEW call, GivenInOrder(p, list, out),
         FollowsGiven(p, list, out, call.pes.mPesBuffer), NEW more, more = Append(out, call)
  PROVE  /\ GivenInOrder(p, list, more)
         /\ \A cells : /\ FollowsGiven(p, list, out, cells)
                       /\ Precede(call.pes.mPesBuffer, cells)
                       => FollowsGiven(p, list, more, cells)
<1>1. /\ IsSeq(more) /\ DOMAIN more = 1..(Len(out) + 1) /\ DOMAIN out = 1..Len(out)
      /\ Len(out) \in Nat /\ more[Len(out) + 1] = call
      /\ \A i \in DOMAIN out : more[i] = out[i]
  BY AppendIsSeq DEF GivenInOrder
<1>2. ASSUME NEW i \in DOMAIN more
      PROVE  \/ i \in DOMAIN out /\ more[i] = out[i]
             \/ i = Len(out) + 1 /\ more[i] = call
  BY <1>1
<1>3. ASSUME NEW i \in DOMAIN more, NEW j \in DOMAIN more, i < j
      PROVE  /\ i \in DOMAIN out /\ more[i] = out[i]
             /\ \/ j \in DOMAIN out /\ more[j] = out[j]
                \/ more[j] = call
  BY <1>1, <1>3
<1>4. ASSUME NEW i \in DOMAIN more PROVE Run(p, list, more[i].pes.mPesBuffer)
  BY <1>2 DEF GivenInOrder, FollowsGiven
<1>5. ASSUME NEW i \in DOMAIN more, NEW j \in DOMAIN more, i < j
      PROVE  Precede(more[i].pes.mPesBuffer, more[j].pes.mPesBuffer)
  BY <1>3, <1>5 DEF GivenInOrder, FollowsGiven
<1>6. GivenInOrder(p, list, more)
  BY <1>1, <1>4, <1>5 DEF GivenInOrder
<1>7. ASSUME NEW cells, FollowsGiven(p, list, out, cells), Precede(call.pes.mPesBuffer, cells)
      PROVE  FollowsGiven(p, list, more, cells)
  BY <1>2, <1>7 DEF FollowsGiven
<1> QED
  BY <1>6, <1>7

LEMMA FreshJoined ==
  ASSUME NEW p, NEW list, NEW new, NEW bytes, Fresh(p, list, new, bytes),
         NEW out, NEW cells, GivenInOrder(p, list, out), FollowsGiven(p, list, out, cells)
  PROVE  FollowsGiven(p, new, out, cells \o bytes)
<1> DEFINE joined == cells \o bytes
           n == Len(cells)
<1>1. /\ Run(p, new, cells) /\ Run(p, new, bytes) /\ Precede(cells, bytes)
      /\ \A i \in DOMAIN out : /\ Precede(out[i].pes.mPesBuffer, cells)
                               /\ Precede(out[i].pes.mPesBuffer, bytes)
  <2>1. Run(p, new, cells) /\ Precede(cells, bytes)
    BY RunStays DEF FollowsGiven
  <2>2. \A i \in DOMAIN out : Precede(out[i].pes.mPesBuffer, bytes)
    BY RunStays DEF GivenInOrder
  <2> QED
    BY <2>1, <2>2 DEF Fresh, FollowsGiven
<1>2. cells \in Seq(Cell) /\ bytes \in Seq(Cell) /\ n \in Nat
  BY <1>1 DEF Run
<1>3. /\ joined \in Seq(Cell) /\ Len(joined) = n + Len(bytes)
      /\ \A i \in DOMAIN joined :
           \/ i <= n /\ i \in DOMAIN cells /\ joined[i] = cells[i]
           \/ i > n /\ (i - n) \in DOMAIN bytes /\ joined[i] = bytes[i - n]
  BY <1>2
<1>4. \A i \in DOMAIN joined : i \in Nat /\ IsSent(p, new, joined[i])
  BY <1>1, <1>3 DEF Run
<1>5. \A i \in DOMAIN out : Precede(out[i].pes.mPesBuffer, joined)
  BY <1>1, <1>3 DEF Precede
<1>6. ASSUME NEW i \in DOMAIN joined, NEW j \in DOMAIN joined, i < j
      PROVE  Before(joined[i], joined[j])
  <2>1. i \in Nat /\ j \in Nat
    BY <1>4
  <2> HIDE DEF joined, n
  <2>2. CASE j <= n
    BY <1>1, <1>2, <1>3, <1>6, <2>1, <2>2 DEF Run, Ascend
  <2>3. CASE i <= n /\ j > n
    BY <1>1, <1>2, <1>3, <2>1, <2>3 DEF Precede
  <2>4. CASE i > n
    <3>1. /\ j > n /\ (i - n) \in DOMAIN bytes /\ (j - n) \in DOMAIN bytes /\ i - n < j - n
          /\ joined[i] = bytes[i - n] /\ joined[j] = bytes[j - n]
      BY <1>2, <1>3, <1>6, <2>1, <2>4
    <3> QED
      BY <1>1, <3>1 DEF Run, Ascend
  <2> QED
    BY <1>2, <2>1, <2>2, <2>3, <2>4
<1>7. Run(p, new, joined)
  BY <1>3, <1>4, <1>6 DEF Run, Ascend
<1> QED
  BY <1>5, <1>7 DEF FollowsGiven

LEMMA StartInOrder ==
  ASSUME NEW p, NEW list, NEW new, NEW bytes, Fresh(p, list, new, bytes),
         NEW out, NEW pes, NEW more, Called(out, Ended(pes), more),
         GivenInOrder(p, list, out), FollowsGiven(p, list, out, pes.mPesBuffer)
  PROVE  GivenInOrder(p, new, more) /\ FollowsGiven(p, new, more, bytes)
<1>1. GivenInOrder(p, new, out) /\ FollowsGiven(p, new, out, bytes)
  BY GivenStaysInOrder
<1>2. CASE Ended(pes) = NoPes
  BY <1>1, <1>2 DEF Called
<1>3. CASE Ended(pes) # NoPes
  <2>1. Ended(pes) = pes
    BY <1>3 DEF Ended
  <2>2. PICK call : call.pes = pes /\ more = Append(out, call)
    BY <1>3, <2>1 DEF Called
  <2>3. Run(p, new, pes.mPesBuffer) /\ Precede(pes.mPesBuffer, bytes)
    BY RunStays DEF FollowsGiven
  <2>4. FollowsGiven(p, new, out, call.pes.mPesBuffer)
    BY <2>2, <2>3 DEF FollowsGiven
  <2> QED
    BY <1>1, <2>2, <2>3, <2>4, OneMoreInOrder
<1> QED
  BY <1>2, <1>3

LEMMA MoreInOrder ==
  ASSUME NEW p, NEW list, NEW new, new # <<>>, NEW bytes, Fresh(p, list, new, bytes),
         NEW out, NEW pes \in PesRecord, NEW more, NEW rest,
         Called(out, Finished(Extended(pes, bytes)), more),
         rest = Remaining(Extended(pes, bytes)),
         GivenInOrder(p, list, out), FollowsGiven(p, list, out, pes.mPesBuffer)
  PROVE  GivenInOrder(p, new, more) /\ FollowsGiven(p, new, more, rest.mPesBuffer)
<1> DEFINE longer == Extended(pes, bytes)
<1>1. longer.mPesBuffer = pes.mPesBuffer \o bytes
  BY DEF Extended, PesRecord
<1>2. GivenInOrder(p, new, out) /\ FollowsGiven(p, new, out, longer.mPesBuffer)
  BY <1>1, GivenStaysInOrder, FreshJoined
<1>3. Called(out, Finished(longer), more) /\ rest = Remaining(longer)
  OBVIOUS
<1> HIDE DEF longer
<1>4. \A some : FollowsGiven(p, new, some, <<>>)
  BY DEF FollowsGiven, Run, Ascend, Precede
<1>5. CASE Finished(longer) = NoPes
  BY <1>2, <1>3, <1>4, <1>5 DEF Called, Remaining, Finished, NoPes
<1>6. CASE Finished(longer) # NoPes
  <2>1. Finished(longer) = longer /\ rest = NoPes
    BY <1>3, <1>6 DEF Finished, Remaining
  <2>2. PICK call : call.pes = longer /\ more = Append(out, call)
    BY <1>3, <1>6, <2>1 DEF Called
  <2>3. GivenInOrder(p, new, more)
    BY <1>2, <2>2, OneMoreInOrder
  <2> QED
    BY <1>4, <2>1, <2>3 DEF NoPes
<1> QED
  BY <1>5, <1>6

\* A run of cells of the last unit of a list.
LEMMA LastRun ==
  ASSUME NEW p \in Pids, NEW new \in Seq(UnitRecord), new # <<>>, NEW first \in Nat, NEW k \in Nat,
         first + k <= new[Len(new)].sent
  PROVE  LET cells == Cells(p, Len(new), first + 1, first + k)
         IN  /\ Run(p, new, cells)
             /\ \A i \in DOMAIN cells : cells[i] = <<p, Len(new), first + i>>
<1> DEFINE u == Len(new)
           cells == Cells(p, u, first + 1, first + k)
<1>1. u \in Nat /\ u \in DOMAIN new /\ new[u].sent \in Nat
  <2>1. u \in Nat /\ u \in DOMAIN new
    OBVIOUS
  <2>2. new[u] \in UnitRecord
    BY <2>1
  <2> QED
    BY <2>1, <2>2 DEF UnitRecord
<1> HIDE DEF u
<1>2. first + 1 \in Nat /\ first + k \in Nat /\ (first + k) - (first + 1) + 1 = k
  OBVIOUS
<1>3. IsRun(cells, p, u, first + 1, k)
  BY <1>1, <1>2, CellsRun, Zenon
<1>4. cells \in Seq(Cell) /\ DOMAIN cells = 1..k
  <2> HIDE DEF cells
  <2> QED
    BY <1>3 DEF IsRun
<1>5. \A i \in 1..k : cells[i] = <<p, u, first + i>>
  <2>1. \A i \in 1..k : (first + 1) + i - 1 = first + i
    OBVIOUS
  <2> QED
    BY <1>2, <2>1 DEF Cells
<1> HIDE DEF cells
<1>6. \A i \in 1..k : IsSent(p, new, cells[i])
  <2> SUFFICES ASSUME NEW i \in 1..k PROVE IsSent(p, new, cells[i])
    OBVIOUS
  <2>1. first + i \in Nat /\ first + i <= new[Len(new)].sent
    BY <1>1 DEF u
  <2> QED
    BY <1>1, <1>5, <2>1 DEF IsSent, PidOf, UnitOf, IndexOf, u
<1>7. Ascend(cells)
  BY <1>1, <1>4, <1>5 DEF Ascend, Before, PidOf, UnitOf, IndexOf
<1> QED
  BY <1>4, <1>5, <1>6, <1>7 DEF Run, cells, u

LEMMA BegunIsFresh ==
  ASSUME NEW p \in Pids, NEW list \in Seq(UnitRecord), NEW new \in Seq(UnitRecord),
         new # <<>>, Begun(list, new)
  PROVE  Fresh(p, list, new, Cells(p, Len(new), 1, new[Len(new)].sent))
<1> DEFINE n == new[Len(new)].sent
           cells == Cells(p, Len(new), 1, n)
<1>1. Len(new) \in Nat /\ Len(list) \in Nat /\ Len(new) = Len(list) + 1 /\ n \in Nat
  <2>1. Len(new) \in DOMAIN new /\ Len(new) \in Nat /\ Len(list) \in Nat
    OBVIOUS
  <2>2. new[Len(new)] \in UnitRecord
    BY <2>1
  <2> QED
    BY <2>1, <2>2 DEF Begun, UnitRecord
<1>2. 0 + n <= n /\ 0 + 1 = 1 /\ 0 + n = n /\ \A i \in DOMAIN cells : 0 + i = i
  BY <1>1 DEF Cells
<1>3. Run(p, new, cells) /\ \A i \in DOMAIN cells : cells[i] = <<p, Len(new), i>>
  <2> DEFINE zero == 0
  <2>1. zero \in Nat /\ zero + n <= n /\ zero + 1 = 1 /\ zero + n = n
        /\ \A i \in DOMAIN cells : zero + i = i
    BY <1>2
  <2> HIDE DEF zero
  <2>2. /\ Run(p, new, Cells(p, Len(new), zero + 1, zero + n))
        /\ \A i \in DOMAIN Cells(p, Len(new), zero + 1, zero + n) :
             Cells(p, Len(new), zero + 1, zero + n)[i] = <<p, Len(new), zero + i>>
    BY <1>1, <2>1, LastRun
  <2> QED
    BY <2>1, <2>2
<1> HIDE DEF cells, n
<1>4. ASSUME NEW c, IsSent(p, list, c)
      PROVE  IsSent(p, new, c) /\ \A i \in DOMAIN cells : Before(c, cells[i])
  <2>1. PidOf(c) = p /\ UnitOf(c) \in Nat /\ IndexOf(c) \in Nat /\ UnitOf(c) <= Len(list)
    BY <1>1, <1>4 DEF IsSent
  <2>2. UnitOf(c) < Len(new)
    BY <1>1, <2>1
  <2>3. \A i \in DOMAIN cells : PidOf(cells[i]) = p /\ UnitOf(cells[i]) = Len(new)
    BY <1>3 DEF PidOf, UnitOf
  <2> QED
    BY <2>1, <2>2, <2>3 DEF IsSent, Before
<1> QED
  BY <1>3, <1>4 DEF Fresh, cells, n

LEMMA GrownIsFresh ==
  ASSUME NEW p \in Pids, NEW list \in Seq(UnitRecord), NEW new \in Seq(UnitRecord),
         list # <<>>, NEW k \in Nat, GrownBy(list, new, k)
  PROVE  LET sent == list[Len(list)].sent
         IN  new # <<>> /\ Fresh(p, list, new, Cells(p, Len(list), sent + 1, sent + k))
<1> DEFINE N == Len(list)
           sent == list[N].sent
           cells == Cells(p, N, sent + 1, sent + k)
<1>1. N \in Nat \ {0} /\ sent \in Nat
  <2>1. N \in Nat \ {0} /\ N \in DOMAIN list
    OBVIOUS
  <2>2. list[N] \in UnitRecord
    BY <2>1
  <2> QED
    BY <2>1, <2>2 DEF UnitRecord
<1>2. Len(new) = N /\ new[N].sent = sent + k /\ new # <<>>
  BY <1>1 DEF GrownBy
<1> HIDE DEF N, sent
<1>3. Run(p, new, cells) /\ \A i \in DOMAIN cells : cells[i] = <<p, N, sent + i>>
  <2>1. sent + k <= new[Len(new)].sent /\ sent \in Nat /\ new # <<>>
    BY <1>1, <1>2
  <2>2. /\ Run(p, new, Cells(p, Len(new), sent + 1, sent + k))
        /\ \A i \in DOMAIN Cells(p, Len(new), sent + 1, sent + k) :
             Cells(p, Len(new), sent + 1, sent + k)[i] = <<p, Len(new), sent + i>>
    BY <2>1, LastRun, Zenon
  <2> QED
    BY <1>2, <2>2
<1>4. DOMAIN cells \subseteq Nat \ {0}
  BY <1>1 DEF Cells
<1> HIDE DEF cells
<1>5. ASSUME NEW c, IsSent(p, list, c)
      PROVE  IsSent(p, new, c) /\ \A i \in DOMAIN cells : Before(c, cells[i])
  <2>1. /\ PidOf(c) = p /\ UnitOf(c) \in Nat /\ IndexOf(c) \in Nat
        /\ UnitOf(c) < N \/ (UnitOf(c) = N /\ IndexOf(c) <= sent)
    BY <1>5 DEF IsSent, N, sent
  <2>2. UnitOf(c) < N \/ (UnitOf(c) = N /\ IndexOf(c) <= sent + k)
    BY <1>1, <2>1
  <2>3. IsSent(p, new, c)
    BY <1>2, <2>1, <2>2 DEF IsSent
  <2>4. ASSUME NEW i \in DOMAIN cells PROVE Before(c, cells[i])
    <3>1. PidOf(cells[i]) = p /\ UnitOf(cells[i]) = N /\ IndexOf(cells[i]) = sent + i
      BY <1>3 DEF PidOf, UnitOf, IndexOf
    <3>2. UnitOf(c) < N \/ (UnitOf(c) = N /\ IndexOf(c) < sent + i)
      BY <1>1, <1>4, <2>1
    <3> QED
      BY <2>1, <3>1, <3>2 DEF Before
  <2> QED
    BY <2>3, <2>4
<1> QED
  BY <1>2, <1>3, <1>5 DEF Fresh, cells, N, sent

\* A packet that is lost leaves the receiver as it was.
LEMMA LossInOrder ==
  ASSUME NEW p \in Pids, CellsOfPid(p), NEW bytes, Fresh(p, units[p], units'[p], bytes),
         Untouched(p)
  PROVE  CellsOfPid(p)'
<1>1. GivenInOrder(p, units'[p], delivered[p])
  BY GivenStaysInOrder DEF CellsOfPid
<1>2. Run(p, units'[p], mPesPacket[p].mPesBuffer)
  BY RunStays DEF CellsOfPid, FollowsGiven
<1> QED
  BY <1>1, <1>2 DEF CellsOfPid, FollowsGiven, Untouched

LEMMA StartCells ==
  ASSUME NEW p \in Pids, HeadInv, CellsOfPid(p), StartMeans(p)
  PROVE  CellsOfPid(p)'
<1> DEFINE list == units[p]
           new == units'[p]
           bytes == Cells(p, Len(new), 1, new[Len(new)].sent)
<1>1. list \in Seq(UnitRecord) /\ new \in Seq(UnitRecord) /\ new # <<>> /\ Begun(list, new)
  BY DEF HeadInv, SenderInv, StartMeans
<1>2. Fresh(p, list, new, bytes)
  <2> HIDE DEF list, new
  <2> QED
    BY <1>1, BegunIsFresh
<1>3. CASE StartLost(p)
  BY <1>2, <1>3, LossInOrder DEF StartLost
<1>4. CASE StartCame(p)
  <2>1. /\ mPesPacket'[p].mPesBuffer = bytes
        /\ Called(delivered[p], Ended(mPesPacket[p]), delivered'[p])
    BY <1>4 DEF StartCame, parsePesPacket
  <2> HIDE DEF bytes
  <2>2. GivenInOrder(p, new, delivered'[p]) /\ FollowsGiven(p, new, delivered'[p], bytes)
    BY <1>2, <2>1, StartInOrder DEF CellsOfPid
  <2> QED
    BY <2>1, <2>2 DEF CellsOfPid
<1> QED
  BY <1>3, <1>4 DEF StartMeans

LEMMA MoreCells ==
  ASSUME NEW p \in Pids, HeadInv, CellsOfPid(p), MoreMeans(p)
  PROVE  CellsOfPid(p)'
<1> DEFINE list == units[p]
           new == units'[p]
           N == Len(list)
<1>1. list \in Seq(UnitRecord) /\ new \in Seq(UnitRecord) /\ list # <<>>
      /\ mPesPacket[p] \in PesRecord
  BY DEF HeadInv, SenderInv, CollectorInv, MoreMeans
<1>2. PICK k \in Nat : GrownBy(list, new, k) /\ (MoreLost(p) \/ MoreCame(p, k))
  BY DEF MoreMeans
<1> DEFINE bytes == Cells(p, N, list[N].sent + 1, list[N].sent + k)
<1>3. new # <<>> /\ Fresh(p, list, new, bytes)
  <2> HIDE DEF list, new
  <2> QED
    BY <1>1, <1>2, GrownIsFresh
<1>4. CASE Untouched(p)
  BY <1>3, <1>4, LossInOrder
<1>5. CASE ~Untouched(p)
  <2>1. Collected(p, Extended(mPesPacket[p], bytes))
    BY <1>2, <1>5 DEF MoreLost, MoreCame
  <2> HIDE DEF bytes
  <2>2. /\ GivenInOrder(p, new, delivered'[p])
        /\ FollowsGiven(p, new, delivered'[p], mPesPacket'[p].mPesBuffer)
    BY <1>1, <1>3, <2>1, MoreInOrder DEF CellsOfPid, Collected
  <2> QED
    BY <2>2 DEF CellsOfPid
<1> QED
  BY <1>4, <1>5

LEMMA NextKeepsCells == HeadInv /\ ContainedInv /\ CellsInv /\ [Next]_vars => CellsInv'
<1> SUFFICES ASSUME HeadInv, ContainedInv, CellsInv, [Next]_vars, happened' \subseteq {"lose"},
                    NEW q \in Pids
             PROVE  CellsOfPid(q)'
  BY DEF CellsInv
<1>1. CASE UNCHANGED vars
  BY <1>1 DEF CellsInv, CellsOfPid, vars, sender, receiver, channel, history
<1>2. ASSUME NEW p \in Pids, SendStart(p) \/ SendMore(p) PROVE CellsOfPid(q)'
  <2>1. DOMAIN damaged = Pids /\ Sized(units[p])
    BY DEF ContainedInv
  <2>2. happened \subseteq happened'
    BY <1>2 DEF SendStart, SendMore, Transfer, Harms, Fault
  <2>3. CellsOfPid(p) /\ CellsOfPid(q)
    BY <2>2 DEF CellsInv
  <2>4. StartMeans(p) \/ MoreMeans(p)
    BY <1>2, <2>1, SendStartMeans, SendMoreMeans
  <2>5. CASE q = p
    BY <2>3, <2>4, <2>5, StartCells, MoreCells
  <2>6. CASE q # p
    <3>1. OthersRest(p)
      BY <2>4 DEF StartMeans, MoreMeans
    <3> QED
      BY <2>3, <2>6, <3>1 DEF OthersRest, CellsOfPid
  <2> QED
    BY <2>5, <2>6
<1>3. ASSUME NEW p \in Pids, RepeatPacket(p) \/ SendAdaptation(p) PROVE FALSE
  <2>1. "repeat" \in happened' \/ "adaptation" \in happened'
    BY <1>3 DEF RepeatPacket, SendAdaptation, Fault
  <2> QED
    BY <2>1
<1> QED
  BY <1>1, <1>2, <1>3 DEF Next

LEMMA InitHasCells == Init => CellsInv
<1> SUFFICES ASSUME Init, NEW p \in Pids PROVE CellsOfPid(p)
  BY DEF CellsInv
<1>1. units[p] = <<>> /\ delivered[p] = <<>> /\ mPesPacket[p].mPesBuffer = <<>>
  BY DEF Init, InitSender, InitPes, NoPes
<1>2. IsSeq(<<>>) /\ Run(p, <<>>, <<>>)
  BY DEF IsSeq, Run, Ascend
<1> QED
  BY <1>1, <1>2 DEF CellsOfPid, GivenInOrder, FollowsGiven

LEMMA CellsSuffice == CellsInv => CellsInOrder
BY DEF CellsInv, CellsOfPid, GivenInOrder, FollowsGiven, Run, CellsInOrder

\* However many packets are lost, and whichever, what is called back and what
\* is collected after it holds its cells in the order they were sent, none
\* twice: the buffer of a PES packet that is over is given up, and one that
\* goes on is only added to (collectPes).
THEOREM LossNeverDisorders == Spec => []CellsInOrder
<1>1. Init => HeadInv /\ ContainedInv /\ CellsInv
  BY InitHasHeads, InitIsContained, InitHasCells
<1>2. HeadInv /\ ContainedInv /\ CellsInv /\ [Next]_vars
        => (HeadInv /\ ContainedInv /\ CellsInv)'
  BY NextKeepsHeads, NextContains, NextKeepsCells
<1>3. CellsInv => CellsInOrder
  BY CellsSuffice
<1> QED
  BY <1>1, <1>2, <1>3, PTL DEF Spec

-----------------------------------------------------------------------------
(* Types *)

\* What TypeOK needs beyond what collectPes is known to hold: the channel and
\* the counts have their types, and no PID has more units than the bound.
TypeInv ==
  /\ pesOut \in PesRecord /\ mOrigins \in [Pids -> Nat]
  /\ ChannelTypeOK
  /\ gap \in [Pids -> Nat] /\ gapsSeen \in [Pids -> Nat]
  /\ \A p \in Pids : Len(units[p]) <= MaxUnits

\* A position is a count of cells.
LEMMA PositionIsNumber ==
  ASSUME SenderInv, NEW p \in Pids
  PROVE  Position(p) \in Nat
<1>1. units[p] \in Seq(UnitRecord) /\ Len(units[p]) \in Nat
  BY DEF SenderInv
<1> DEFINE before == SubSeq(units[p], 1, (CurrentUnit(p) + 1) - 1)
<1>2. before \in Seq(UnitRecord)
  BY <1>1 DEF CurrentUnit
<1>3. \A unit \in UnitRecord : unit.sent \in Nat
  BY DEF UnitRecord
<1> HIDE DEF before
<1>4. CellsOf(before) \in Nat
  BY <1>2, <1>3, CellsAreCounted
<1>5. Position(p) = CellsOf(before) + 1
  BY Zenon DEF Position, StartOf, SentBefore, before
<1> QED
  BY <1>4, <1>5

\* An arrival keeps the types of what the receiver and its histories hold; that
\* what is returned is a PES packet is known from the callback given it.
ReceiverTypes ==
  /\ pesOut \in PesRecord /\ mOrigins \in [Pids -> Nat]
  /\ gap \in [Pids -> Nat] /\ gapsSeen \in [Pids -> Nat]

LEMMA ArriveKeepsTypes ==
  ASSUME HeadInv, HeadInv', ReceiverTypes, NEW p \in Pids, NEW pkt, NEW step, Arrive(p, pkt, step)
  PROVE  ReceiverTypes'
<1> DEFINE info == parseTsPacketInfo(pkt)
           call == [pes |-> pesOut', origin |-> mOrigins'[p], byLength |-> ~info.isPayloadStart]
<1>1. mOrigins' \in [Pids -> Nat]
  <2>1. Position(p) \in Nat
    BY PositionIsNumber DEF HeadInv
  <2>2. RecordOrigin(info, Position(p)) /\ mOrigins \in [Pids -> Nat]
    BY DEF Arrive, collectPes, ReceiverTypes
  <2> QED
    BY <2>1, <2>2 DEF RecordOrigin
<1>2. pesOut' \in PesRecord
  <2>1. CASE pesOut' = NoPes
    <3>1. <<>> \in Seq(Cell) /\ 0 \in Nat /\ 0 \in Int
      OBVIOUS
    <3> QED
      BY <2>1, <3>1 DEF NoPes, PesRecord
  <2>2. CASE pesOut' # NoPes
    <3>1. delivered' = [delivered EXCEPT ![p] = Append(@, call)]
      BY <2>2 DEF Arrive
    <3>2. call.pes = pesOut'
      OBVIOUS
    <3> HIDE DEF call
    <3>3. IsSeq(delivered[p]) /\ DOMAIN delivered = Pids
      BY DEF HeadInv, DeliveredInv
    <3>4. delivered'[p] = Append(delivered[p], call)
      BY <3>1, <3>3
    <3>5. PICK i \in DOMAIN delivered'[p] : delivered'[p][i] = call
      <4>1. /\ DOMAIN Append(delivered[p], call) = 1..(Len(delivered[p]) + 1)
            /\ Len(delivered[p]) \in Nat
            /\ Append(delivered[p], call)[Len(delivered[p]) + 1] = call
        BY <3>3, AppendIsSeq
      <4>2. Len(delivered[p]) + 1 \in 1..(Len(delivered[p]) + 1)
        BY <4>1
      <4> QED
        BY <3>4, <4>1, <4>2
    <3>6. HeadedPes(units'[p], p, delivered'[p][i].pes)
      BY <3>5 DEF HeadInv, DeliveredInv
    <3> QED
      BY <3>2, <3>5, <3>6 DEF HeadedPes
  <2> QED
    BY <2>1, <2>2
<1>3. gap' \in [Pids -> Nat]
  BY DEF Arrive, ReceiverTypes
<1>4. gapsSeen' \in [Pids -> Nat]
  <2>1. gapsSeen \in [Pids -> Nat] /\ gapsSeen[p] + 1 \in Nat
    BY DEF ReceiverTypes
  <2> QED
    BY <2>1 DEF Arrive
<1> QED
  BY <1>1, <1>2, <1>3, <1>4 DEF ReceiverTypes

\* A fault, or what does harm without one, leaves the channel typed.
LEMMA HarmKeepsTypes ==
  ASSUME ChannelTypeOK, NEW p \in Pids, NEW touched \in SUBSET (1..MaxUnits), NEW kind,
         Fault(kind, p, touched) \/ Harms(p, touched),
         cc' \in [Pids -> 0..(CCModulus - 1)]
  PROVE  ChannelTypeOK'
<1>1. damaged \in [Pids -> SUBSET (1..MaxUnits)] /\ faults \in 0..MaxFaults /\ happened \subseteq Faults
  BY DEF ChannelTypeOK
<1>2. damaged[p] \cup touched \in SUBSET (1..MaxUnits)
  BY <1>1
<1>3. damaged' \in [Pids -> SUBSET (1..MaxUnits)]
  BY <1>1, <1>2 DEF Fault, Harms
<1>4. faults' \in 0..MaxFaults /\ happened' \subseteq Faults
  <2>1. CASE Harms(p, touched)
    BY <1>1, <2>1 DEF Harms
  <2>2. CASE Fault(kind, p, touched)
    <3>1. kind \in Faults /\ faults < MaxFaults /\ faults' = faults + 1 /\ happened' = happened \cup {kind}
      BY <2>2 DEF Fault
    <3>2. faults + 1 \in 0..MaxFaults
      BY <1>1, <3>1, ChannelAssumption
    <3>3. happened \cup {kind} \subseteq Faults
      BY <1>1, <3>1
    <3> QED
      BY <3>1, <3>2, <3>3
  <2> QED
    BY <2>1, <2>2
<1> QED
  BY <1>3, <1>4 DEF ChannelTypeOK

\* A unit that is open is one of those within the bound.
LEMMA OpenIsWithinBound ==
  ASSUME HeadInv, TypeInv, NEW p \in Pids
  PROVE  OpenUnit(p) \in SUBSET (1..MaxUnits)
<1>1. units[p] \in Seq(UnitRecord) /\ Len(units[p]) <= MaxUnits /\ MaxUnits \in Nat
  BY SenderAssumption DEF HeadInv, SenderInv, TypeInv
<1>2. ASSUME mPesPacket[p] # NoPes PROVE Len(units[p]) \in 1..MaxUnits
  <2>1. PICK u : u \in DOMAIN units[p]
    BY <1>2 DEF HeadInv, CollectorInv, HeadedPes, StartsUnit
  <2> QED
    BY <1>1, <2>1
<1> QED
  BY <1>2 DEF OpenUnit

\* The counter advances to another one.
LEMMA AdvanceKeepsTypes ==
  ASSUME ChannelTypeOK, NEW p \in Pids
  PROVE  [cc EXCEPT ![p] = Advance(@)] \in [Pids -> 0..(CCModulus - 1)]
<1>1. cc \in [Pids -> 0..(CCModulus - 1)]
  BY DEF ChannelTypeOK
<1>2. cc[p] + 1 \in Nat
  BY <1>1, CCAssumption
<1>3. Advance(cc[p]) \in 0..(CCModulus - 1)
  BY <1>2, Divided DEF Advance
<1> QED
  BY <1>1, <1>3

\* A packet with payload, when its unit is within the bound.
LEMMA TransferKeepsTypes ==
  ASSUME HeadInv, HeadInv', TypeInv, NEW p \in Pids, NEW pkt, Transfer(p, pkt),
         cc' = [cc EXCEPT ![p] = Advance(@)],
         Len(units'[p]) \in 1..MaxUnits, \A q \in Pids \ {p} : units'[q] = units[q]
  PROVE  TypeInv'
<1>1. cc' \in [Pids -> 0..(CCModulus - 1)]
  BY AdvanceKeepsTypes DEF TypeInv
<1>2. \A q \in Pids : Len(units'[q]) <= MaxUnits
  <2>1. Len(units'[p]) <= MaxUnits
    BY SenderAssumption
  <2> QED
    BY <2>1 DEF TypeInv
<1>3. ReceiverTypes /\ ChannelTypeOK
  BY DEF TypeInv, ReceiverTypes
<1>4. CASE Arrive(p, pkt, 1) /\ Harms(p, {})
  <2>1. ReceiverTypes'
    BY <1>3, <1>4, ArriveKeepsTypes
  <2>2. ChannelTypeOK'
    BY <1>1, <1>3, <1>4, HarmKeepsTypes
  <2> QED
    BY <1>2, <2>1, <2>2 DEF TypeInv, ReceiverTypes
<1> DEFINE touched == {Len(units'[p])} \cup
                        IF pkt.payload_unit_start_indicator THEN OpenUnit(p) ELSE {}
<1>5. CASE /\ Fault("lose", p, touched)
           /\ gap' = [gap EXCEPT ![p] = @ + 1]
           /\ UNCHANGED <<receiver, delivered, gapsSeen, clocks>>
  <2>1. touched \in SUBSET (1..MaxUnits)
    BY OpenIsWithinBound
  <2> HIDE DEF touched
  <2>2. ChannelTypeOK'
    BY <1>1, <1>3, <1>5, <2>1, HarmKeepsTypes
  <2>3. gap' \in [Pids -> Nat]
    BY <1>3, <1>5 DEF ReceiverTypes
  <2>4. ReceiverTypes'
    BY <1>3, <1>5, <2>3 DEF ReceiverTypes, receiver
  <2> QED
    BY <1>2, <2>2, <2>4 DEF TypeInv, ReceiverTypes
<1> QED
  BY <1>4, <1>5 DEF Transfer

LEMMA SendStartKeepsTypes ==
  ASSUME HeadInv, HeadInv', TypeInv, NEW p \in Pids, SendStart(p)
  PROVE  TypeInv'
<1>1. PICK head \in Heads, flags \in AfFlags :
        \E n \in PesHeaderSize..SizeOrLess(MaxPayload, PesSize(head)) :
          /\ BeginUnit(p, 0, head, n)
          /\ Transfer(p, PayloadPacket(p, TRUE, flags, head, Cells(p, CurrentUnit(p) + 1, 1, n)))
  BY DEF SendStart
<1>2. PICK n \in PesHeaderSize..SizeOrLess(MaxPayload, PesSize(head)) :
        /\ BeginUnit(p, 0, head, n)
        /\ Transfer(p, PayloadPacket(p, TRUE, flags, head, Cells(p, CurrentUnit(p) + 1, 1, n)))
  BY <1>1
<1>3. n \in Nat
  BY SizesAreNumbers
<1>4. /\ OnlyGrows(p) /\ CurrentUnit(p) \in Nat
      /\ DOMAIN units'[p] = 1..(CurrentUnit(p) + 1)
  <2> DEFINE tail == 0
  <2>1. tail \in Nat /\ tail = 0 /\ BeginUnit(p, tail, head, n)
    BY <1>2
  <2> HIDE DEF tail
  <2> QED
    BY <2>1, <1>3, BeginGrows DEF HeadInv
<1>5. Len(units'[p]) \in 1..MaxUnits
  <2>1. units'[p] \in Seq(UnitRecord)
    BY DEF HeadInv, SenderInv
  <2>2. Len(units'[p]) = CurrentUnit(p) + 1
    BY <1>4, <2>1
  <2>3. CurrentUnit(p) < MaxUnits
    BY <1>2 DEF BeginUnit
  <2> QED
    BY <1>4, <2>2, <2>3, SenderAssumption
<1>6. cc' = [cc EXCEPT ![p] = Advance(@)]
  BY <1>2 DEF BeginUnit
<1> QED
  BY <1>2, <1>4, <1>5, <1>6, TransferKeepsTypes DEF OnlyGrows

LEMMA SendMoreKeepsTypes ==
  ASSUME HeadInv, HeadInv', TypeInv, NEW p \in Pids, SendMore(p)
  PROVE  TypeInv'
<1> DEFINE unit == Last(units[p])
<1>1. PICK flags \in AfFlags, n \in 1..SizeOrLess(MaxPayload, PesSize(unit.head) - unit.sent) :
        /\ ResumeUnit(p, n)
        /\ Transfer(p, PayloadPacket(p, FALSE, flags, unit.head,
                                     Cells(p, CurrentUnit(p), unit.sent + 1, unit.sent + n)))
  BY DEF SendMore
<1>2. units[p] # <<>> /\ units[p] \in Seq(UnitRecord)
  BY DEF SendMore, HeadInv, SenderInv
<1> HIDE DEF unit
<1>3. n \in Nat
  OBVIOUS
<1>4. OnlyGrows(p) /\ DOMAIN units'[p] = DOMAIN units[p]
  BY <1>1, <1>2, <1>3, ResumeGrows DEF HeadInv
<1>5. Len(units'[p]) \in 1..MaxUnits
  <2>1. units'[p] \in Seq(UnitRecord)
    BY DEF HeadInv, SenderInv
  <2>2. Len(units'[p]) = Len(units[p]) /\ Len(units[p]) \in Nat \ {0}
    BY <1>2, <1>4, <2>1
  <2>3. Len(units[p]) <= MaxUnits
    BY DEF TypeInv
  <2> QED
    BY <2>2, <2>3, SenderAssumption
<1>6. cc' = [cc EXCEPT ![p] = Advance(@)]
  BY <1>1 DEF ResumeUnit
<1> QED
  BY <1>1, <1>4, <1>5, <1>6, TransferKeepsTypes DEF OnlyGrows

\* A packet that arrives while the sender stands still.
LEMMA StillArrivalKeepsTypes ==
  ASSUME HeadInv, HeadInv', TypeInv, NEW p \in Pids, UNCHANGED sender,
         NEW pkt, Arrive(p, pkt, 0), NEW kind, Fault(kind, p, OpenUnit(p))
  PROVE  TypeInv'
<1>1. ReceiverTypes /\ ChannelTypeOK /\ units' = units /\ cc' = cc
  BY DEF TypeInv, ReceiverTypes, sender
<1>2. ReceiverTypes'
  BY <1>1, ArriveKeepsTypes
<1>3. OpenUnit(p) \in SUBSET (1..MaxUnits)
  BY OpenIsWithinBound
<1>4. cc' \in [Pids -> 0..(CCModulus - 1)]
  BY <1>1 DEF ChannelTypeOK
<1>5. ChannelTypeOK'
  BY <1>1, <1>3, <1>4, HarmKeepsTypes
<1> QED
  BY <1>1, <1>2, <1>5 DEF TypeInv, ReceiverTypes

LEMMA NextKeepsTypes == HeadInv /\ HeadInv' /\ TypeInv /\ [Next]_vars => TypeInv'
<1> SUFFICES ASSUME HeadInv, HeadInv', TypeInv, [Next]_vars PROVE TypeInv'
  OBVIOUS
<1>1. CASE UNCHANGED vars
  BY <1>1 DEF TypeInv, ChannelTypeOK, vars, sender, receiver, channel, history
<1>2. ASSUME NEW p \in Pids, SendStart(p) PROVE TypeInv'
  BY <1>2, SendStartKeepsTypes
<1>3. ASSUME NEW p \in Pids, SendMore(p) PROVE TypeInv'
  BY <1>3, SendMoreKeepsTypes
<1>4. ASSUME NEW p \in Pids, RepeatPacket(p) PROVE TypeInv'
  BY <1>4, StillArrivalKeepsTypes DEF RepeatPacket
<1>5. ASSUME NEW p \in Pids, SendAdaptation(p) PROVE TypeInv'
  BY <1>5, StillArrivalKeepsTypes DEF SendAdaptation
<1> QED
  BY <1>1, <1>2, <1>3, <1>4, <1>5 DEF Next

LEMMA InitHasTypes == Init => TypeInv
<1> SUFFICES ASSUME Init PROVE TypeInv
  OBVIOUS
<1>1. pesOut \in PesRecord
  <2>1. <<>> \in Seq(Cell) /\ 0 \in Nat /\ 0 \in Int
    OBVIOUS
  <2> QED
    BY <2>1 DEF Init, InitPes, NoPes, PesRecord
<1>2. ChannelTypeOK
  <2>1. CCModulus - 1 \in 0..(CCModulus - 1) /\ 0 \in 0..MaxFaults
    BY CCAssumption, ChannelAssumption
  <2> QED
    BY <2>1 DEF Init, InitSender, InitChannel, ChannelTypeOK
<1>3. \A p \in Pids : Len(units[p]) <= MaxUnits
  <2>1. Len(<<>>) <= MaxUnits
    BY SenderAssumption
  <2> QED
    BY <2>1 DEF Init, InitSender
<1> QED
  BY <1>1, <1>2, <1>3 DEF Init, InitOrigins, TypeInv

\* Whatever is lost, repeated or put in between: the members of the parser have
\* their types, and mPesPacket holds no PES packet without bytes (collectPes).
THEOREM AlwaysTyped == Spec => []TypeOK
<1>1. Init => HeadInv /\ TypeInv
  BY InitHasHeads, InitHasTypes
<1>2. HeadInv /\ TypeInv /\ [Next]_vars => HeadInv' /\ TypeInv'
  BY NextKeepsHeads, NextKeepsTypes
<1>3. HeadInv /\ TypeInv => TypeOK
  BY DEF HeadInv, CollectorInv, HeadedPes, TypeInv, TypeOK
<1> QED
  BY <1>1, <1>2, <1>3, PTL DEF Spec

-----------------------------------------------------------------------------
(* Statistics *)

\* One more step of a track.
LEMMA OneMoreDifference ==
  ASSUME NEW present \in Seq(Int), present # <<>>, NEW t \in Int
  PROVE  HistogramOf(Append(present, t)) = BagOps!BagAdd(HistogramOf(present), t - Last(present))
<1> DEFINE more == Append(present, t)
           step == t - Last(present)
<1>1. PICK n \in Nat \ {0} : n = Len(present)
  OBVIOUS
<1>2. /\ Len(more) = n + 1 /\ more[n + 1] = t
      /\ \A i \in 1..n : more[i] = present[i] /\ present[i] \in Int
      /\ step = t - present[n]
  BY <1>1 DEF Last
<1> HIDE DEF more, step
<1>3. DifferencesOf(more) = DifferencesOf(present) \cup {step}
  <2>1. \A i \in 1..(n - 1) : i \in 1..n /\ i + 1 \in 1..n
    BY <1>1
  <2>2. (1..((n + 1) - 1)) = (1..(n - 1)) \cup {n}
    BY <1>1
  <2>3. \A i \in 1..(n - 1) : more[i + 1] - more[i] = present[i + 1] - present[i]
    BY <1>2, <2>1
  <2>4. more[n + 1] - more[n] = step
    BY <1>1, <1>2
  <2> DEFINE before == {present[i + 1] - present[i] : i \in 1..(n - 1)}
             after == {more[i + 1] - more[i] : i \in 1..((n + 1) - 1)}
  <2>5. after = before \cup {step}
    <3>1. \A i \in 1..(n - 1) : i \in 1..((n + 1) - 1)
      BY <2>2
    <3>2. n \in 1..((n + 1) - 1)
      BY <2>2
    <3>3. before \subseteq after
      BY ONLY <2>3, <3>1
    <3>4. step \in after
      BY ONLY <2>4, <3>2
    <3>5. ASSUME NEW i \in 1..((n + 1) - 1) PROVE more[i + 1] - more[i] \in before \cup {step}
      <4>1. CASE i \in 1..(n - 1)
        BY ONLY <2>3, <4>1
      <4>2. CASE i = n
        BY ONLY <2>4, <4>2
      <4> QED
        BY <2>2, <4>1, <4>2
    <3> HIDE DEF before
    <3>6. after \subseteq before \cup {step}
      BY ONLY <3>5
    <3> QED
      BY ONLY <3>3, <3>4, <3>6
  <2> HIDE DEF before, after
  <2>6. DifferencesOf(present) = before /\ DifferencesOf(more) = after
    BY <1>1, <1>2 DEF DifferencesOf, before, after
  <2> QED
    BY <2>5, <2>6
<1>4. ASSUME NEW d \in Int
      PROVE  StepsOfSize(more, d) = StepsOfSize(present, d) \cup (IF d = step THEN {n} ELSE {})
  <2>1. \A i \in 1..(n - 1) : i \in 1..n /\ i + 1 \in 1..n
    BY <1>1
  <2>2. (1..((n + 1) - 1)) = (1..(n - 1)) \cup {n}
    BY <1>1
  <2>3. \A i \in 1..(n - 1) : more[i + 1] - more[i] = present[i + 1] - present[i]
    BY <1>2, <2>1
  <2>4. more[n + 1] - more[n] = step
    BY <1>1, <1>2
  <2> QED
    BY <1>1, <1>2, <2>2, <2>3, <2>4 DEF StepsOfSize
<1>5. ASSUME NEW d \in Int
      PROVE  /\ IsFiniteSet(StepsOfSize(present, d)) /\ Cardinality(StepsOfSize(present, d)) \in Nat
             /\ n \notin StepsOfSize(present, d)
             /\ d \notin DifferencesOf(present) => StepsOfSize(present, d) = {}
  <2>1. n - 1 \in Int /\ 1 \in Int
    OBVIOUS
  <2>2. IsFiniteSet(1..(n - 1))
    BY <2>1, FS_Interval
  <2>3. StepsOfSize(present, d) \subseteq 1..(n - 1)
    BY <1>1 DEF StepsOfSize
  <2>4. IsFiniteSet(StepsOfSize(present, d))
    BY <2>2, <2>3, FS_Subset
  <2>5. Cardinality(StepsOfSize(present, d)) \in Nat
    BY <2>4, FS_CardinalityType
  <2> QED
    BY <1>1, <2>3, <2>4, <2>5 DEF StepsOfSize, DifferencesOf
<1>6. ASSUME NEW d \in Int
      PROVE  Cardinality(StepsOfSize(more, d)) =
               IF d = step THEN Cardinality(StepsOfSize(present, d)) + 1
               ELSE Cardinality(StepsOfSize(present, d))
  <2>1. CASE d = step
    <3>1. StepsOfSize(more, d) = StepsOfSize(present, d) \cup {n}
      BY <1>4, <2>1
    <3> QED
      BY <1>5, <2>1, <3>1, FS_AddElement
  <2>2. CASE d # step
    <3>1. StepsOfSize(more, d) = StepsOfSize(present, d)
      BY <1>4, <2>2
    <3> QED
      BY <2>2, <3>1
  <2> QED
    BY <2>1, <2>2
<1>7. step \in Int /\ DifferencesOf(present) \subseteq Int
  BY <1>1, <1>2 DEF DifferencesOf
<1> QED
  <2>1. step \notin DifferencesOf(present) => Cardinality(StepsOfSize(present, step)) = 0
    BY <1>5, <1>7, FS_EmptySet
  <2> DEFINE histogram == HistogramOf(present)
  <2>2. DOMAIN histogram = DifferencesOf(present)
        /\ \A d \in DifferencesOf(present) : histogram[d] = Cardinality(StepsOfSize(present, d))
    BY DEF HistogramOf
  <2> HIDE DEF histogram
  <2>3. CASE step \in DifferencesOf(present)
    <3>1. DifferencesOf(more) = DifferencesOf(present)
      BY <1>3, <2>3
    <3>2. HistogramOf(more) =
            [d \in DOMAIN histogram |-> IF d = step THEN histogram[d] + 1 ELSE histogram[d]]
      BY <1>6, <1>7, <2>2, <3>1 DEF HistogramOf
    <3> QED
      BY <2>2, <2>3, <3>2 DEF BagOps!BagAdd, more, step, histogram
  <2>4. CASE step \notin DifferencesOf(present)
    <3>1. HistogramOf(more) =
            [d \in DOMAIN histogram \cup {step} |-> IF d = step THEN 1 ELSE histogram[d]]
      BY <1>3, <1>6, <1>7, <2>1, <2>2, <2>4 DEF HistogramOf
    <3> QED
      BY <2>2, <2>4, <3>1 DEF BagOps!BagAdd, more, step, histogram
  <2> QED
    BY <2>3, <2>4

\* One more time stamp: TsStatistics keeps the track of those it was given.
LEMMA TrackGrows ==
  ASSUME NEW stamps \in Seq(Int), NEW t \in Int
  PROVE  TrackOf(Append(stamps, t)) = SampleOrMiss(TrackOf(stamps), t)
<1> DEFINE Present == Int \ {NoTime}
           Track(list, n) == [last |-> IF list = <<>> THEN NoTime ELSE Last(list),
                              histogram |-> HistogramOf(list), missing |-> n]
<1>1. PICK present : present = Picked(stamps, Present)
  OBVIOUS
<1>2. PICK more : more = Picked(Append(stamps, t), Present)
  OBVIOUS
<1>3. /\ present \in Seq(Int \cap Present)
      /\ more = IF t \in Present THEN Append(present, t) ELSE present
  BY <1>1, <1>2, PickedOfAppended
<1>4. /\ TrackOf(stamps) = Track(present, Len(stamps) - Len(present))
      /\ TrackOf(Append(stamps, t)) = Track(more, Len(Append(stamps, t)) - Len(more))
  BY <1>1, <1>2 DEF TrackOf
<1>5. /\ Len(stamps) \in Nat /\ Len(present) \in Nat /\ Len(Append(stamps, t)) = Len(stamps) + 1
      /\ present \in Seq(Int) /\ \A i \in 1..Len(present) : present[i] # NoTime
  <2>1. Len(stamps) \in Nat /\ Len(Append(stamps, t)) = Len(stamps) + 1
    OBVIOUS
  <2>2. present \in Seq(Int) /\ Len(present) \in Nat
    BY <1>3
  <2>3. \A i \in 1..Len(present) : present[i] \in Present
    BY <1>3
  <2> QED
    BY <2>1, <2>2, <2>3
<1>6. CASE t = NoTime
  <2>1. more = present
    BY <1>3, <1>6
  <2>2. Len(Append(stamps, t)) - Len(more) = Len(stamps) - Len(present) + 1
    BY <1>5, <2>1
  <2>3. Track(present, Len(stamps) - Len(present) + 1) =
          SampleOrMiss(Track(present, Len(stamps) - Len(present)), t)
    BY <1>6 DEF SampleOrMiss
  <2> QED
    BY <1>4, <2>1, <2>2, <2>3
<1>7. CASE t # NoTime
  <2>1. more = Append(present, t)
    BY <1>3, <1>7
  <2>2. Len(Append(stamps, t)) - Len(more) = Len(stamps) - Len(present)
    BY <1>5, <2>1
  <2>3. more # <<>> /\ Last(more) = t
    BY <1>5, <2>1 DEF Last
  <2> DEFINE n == Len(stamps) - Len(present)
             old == Track(present, n)
  <2>4. Track(more, n) = Sample(old, t)
    <3>1. CASE present = <<>>
      <4>1. DifferencesOf(present) = {} /\ DifferencesOf(more) = {}
        <5>1. Len(present) = 0 /\ Len(more) = 1
          BY <1>5, <2>1, <3>1
        <5>2. \A i : i \notin 1..(0 - 1) /\ i \notin 1..(1 - 1)
          OBVIOUS
        <5> QED
          BY <5>1, <5>2 DEF DifferencesOf
      <4>2. HistogramOf(more) = HistogramOf(present)
        BY <4>1 DEF HistogramOf
      <4>3. old.last = NoTime
        BY <3>1
      <4> QED
        BY <2>3, <4>2, <4>3 DEF Sample
    <3>2. CASE present # <<>>
      <4>1. old.last = Last(present) /\ old.last # NoTime
        <5>1. Len(present) \in 1..Len(present)
          BY <1>5, <3>2
        <5> QED
          BY <1>5, <3>2, <5>1 DEF Last
      <4>2. HistogramOf(more) = BagOps!BagAdd(HistogramOf(present), t - Last(present))
        BY <1>5, <2>1, <3>2, OneMoreDifference
      <4> QED
        BY <2>3, <4>1, <4>2 DEF Sample
    <3> QED
      BY <3>1, <3>2
  <2> QED
    BY <1>4, <1>7, <2>2, <2>4 DEF SampleOrMiss
<1> QED
  BY <1>6, <1>7

\* Of the clock references only those present count.
LEMMA ClockGrows ==
  ASSUME NEW stamps \in Seq(Int), NEW t \in Int
  PROVE  [TrackOf(Append(stamps, t)) EXCEPT !.missing = 0] =
           IF t = NoTime THEN [TrackOf(stamps) EXCEPT !.missing = 0]
           ELSE Sample([TrackOf(stamps) EXCEPT !.missing = 0], t)
<1>1. PICK last, histogram, missing :
        TrackOf(stamps) = [last |-> last, histogram |-> histogram, missing |-> missing]
  BY DEF TrackOf
<1>2. TrackOf(Append(stamps, t)) =
        SampleOrMiss([last |-> last, histogram |-> histogram, missing |-> missing], t)
  BY <1>1, TrackGrows
<1> QED
  BY <1>1, <1>2 DEF SampleOrMiss, Sample

\* What the statistics calls of collectPes do to a PidStatistic.
StatisticKeys == {"numberOfTsDiscontinuities", "pts", "dts", "pcr"}

LEMMA CollectedStatistics ==
  ASSUME NEW s, StatisticKeys \subseteq DOMAIN s, NEW info, NEW out
  PROVE  LET new == PesStatistics(s, info, out)
         IN  /\ StatisticKeys \subseteq DOMAIN new
             /\ new.pts = IF out = NoPes THEN s.pts ELSE SampleOrMiss(s.pts, out.pts)
             /\ new.dts = IF out = NoPes THEN s.dts ELSE SampleOrMiss(s.dts, out.dts)
             /\ new.pcr = IF info.hasAdaptationField /\ info.pcr # NoTime
                          THEN Sample(s.pcr, info.pcr) ELSE s.pcr
             /\ new.numberOfTsDiscontinuities =
                  IF info.hasAdaptationField /\ info.isDiscontinuity
                  THEN s.numberOfTsDiscontinuities + 1 ELSE s.numberOfTsDiscontinuities
<1> DEFINE checked == checkCCError(s, info.continuityCounter)
           counted == checkTsDiscontinuity(checked, info.hasAdaptationField /\ info.isDiscontinuity)
           clocked == IF info.hasAdaptationField THEN buildPcrHistogram(counted, info.pcr)
                      ELSE counted
           timed   == buildPtsHistogram(clocked, out.pts)
           stamped == buildDtsHistogram(timed, out.dts)
           Same(a, b, key) == b[key] = a[key]
<1>1. /\ StatisticKeys \subseteq DOMAIN checked
      /\ checked.pts = s.pts /\ checked.dts = s.dts /\ checked.pcr = s.pcr
      /\ checked.numberOfTsDiscontinuities = s.numberOfTsDiscontinuities
  BY DEF checkCCError, StatisticKeys
<1> HIDE DEF checked
<1>2. /\ StatisticKeys \subseteq DOMAIN counted
      /\ counted.pts = s.pts /\ counted.dts = s.dts /\ counted.pcr = s.pcr
      /\ counted.numberOfTsDiscontinuities =
           IF info.hasAdaptationField /\ info.isDiscontinuity
           THEN s.numberOfTsDiscontinuities + 1 ELSE s.numberOfTsDiscontinuities
  BY <1>1 DEF checkTsDiscontinuity, StatisticKeys
<1> HIDE DEF counted
<1>3. /\ StatisticKeys \subseteq DOMAIN clocked
      /\ clocked.pts = s.pts /\ clocked.dts = s.dts
      /\ clocked.pcr = IF info.hasAdaptationField /\ info.pcr # NoTime
                       THEN Sample(s.pcr, info.pcr) ELSE s.pcr
      /\ clocked.numberOfTsDiscontinuities = counted.numberOfTsDiscontinuities
  BY <1>2 DEF buildPcrHistogram, StatisticKeys
<1> HIDE DEF clocked
<1>4. /\ StatisticKeys \subseteq DOMAIN timed
      /\ timed.pts = SampleOrMiss(s.pts, out.pts) /\ timed.dts = s.dts
      /\ timed.pcr = clocked.pcr
      /\ timed.numberOfTsDiscontinuities = clocked.numberOfTsDiscontinuities
  BY <1>3 DEF buildPtsHistogram, StatisticKeys
<1> HIDE DEF timed
<1>5. /\ StatisticKeys \subseteq DOMAIN stamped
      /\ stamped.pts = timed.pts /\ stamped.dts = SampleOrMiss(s.dts, out.dts)
      /\ stamped.pcr = clocked.pcr
      /\ stamped.numberOfTsDiscontinuities = clocked.numberOfTsDiscontinuities
  BY <1>4 DEF buildDtsHistogram, StatisticKeys
<1>6. PesStatistics(s, info, out) = IF out = NoPes THEN clocked ELSE stamped
  BY DEF PesStatistics, stamped, timed, clocked, counted, checked
<1> HIDE DEF stamped
<1> QED
  BY <1>2, <1>3, <1>4, <1>5, <1>6

\* Adaptation fields, and what the statistics of a PID should be of: the callbacks
\* and the fields that arrived.
AdaptationFields ==
  [adaptation_field_length : Int, discontinuity_indicator : BOOLEAN, pcr : Int]

ToldBy(fields) == Picked(fields, WithFlags)
ClockOf(fields) == [TrackOf(ReferencesOf(ToldBy(fields))) EXCEPT !.missing = 0]

Tells(s, calls, fields) ==
  /\ StatisticKeys \subseteq DOMAIN s
  /\ s.pts = TrackOf(PtsOf(calls)) /\ s.dts = TrackOf(DtsOf(calls))
  /\ s.pcr = ClockOf(fields)
  /\ s.numberOfTsDiscontinuities = Cardinality(BreaksIn(ToldBy(fields)))

\* A list with one more at its end, as a function.
LEMMA AppendedIsMap ==
  ASSUME NEW T, NEW s \in Seq(T), NEW x \in T, NEW n, n = Len(s)
  PROVE  Append(s, x) = [i \in 1..(n + 1) |-> IF i = n + 1 THEN x ELSE s[i]]
<1>1. n \in Nat /\ Append(s, x) \in Seq(T) /\ Len(Append(s, x)) = n + 1
  OBVIOUS
<1>2. Append(s, x) \in [1..(n + 1) -> T]
  <2>1. PICK more, m : more = Append(s, x) /\ m = n + 1
    OBVIOUS
  <2>2. more \in Seq(T) /\ Len(more) = m
    BY <1>1, <2>1
  <2>3. more \in [1..m -> T]
    BY ONLY <2>2
  <2> QED
    BY <2>1, <2>3
<1>3. \A i \in 1..(n + 1) : Append(s, x)[i] = IF i = n + 1 THEN x ELSE s[i]
  OBVIOUS
<1> QED
  BY <1>2, <1>3

\* The time stamps of one more callback.
LEMMA MoreStamps ==
  ASSUME NEW calls, IsSeq(calls), \A i \in DOMAIN calls : calls[i].pes \in PesRecord,
         NEW call, call.pes \in PesRecord
  PROVE  /\ PtsOf(calls) \in Seq(Int) /\ DtsOf(calls) \in Seq(Int)
         /\ PtsOf(Append(calls, call)) = Append(PtsOf(calls), call.pes.pts)
         /\ DtsOf(Append(calls, call)) = Append(DtsOf(calls), call.pes.dts)
         /\ call.pes.pts \in Int /\ call.pes.dts \in Int
<1> DEFINE more == Append(calls, call)
<1>1. PICK n \in Nat : n = Len(calls) /\ DOMAIN calls = 1..n
  BY AppendIsSeq
<1>2. /\ DOMAIN more = 1..(n + 1) /\ more[n + 1] = call
      /\ \A i \in 1..n : more[i] = calls[i]
  BY <1>1, AppendIsSeq
<1>3. \A i \in 1..n : calls[i].pes.pts \in Int /\ calls[i].pes.dts \in Int
  BY <1>1 DEF PesRecord
<1>4. call.pes.pts \in Int /\ call.pes.dts \in Int
  BY DEF PesRecord
<1> HIDE DEF more
<1>5. /\ PtsOf(calls) = [i \in 1..n |-> calls[i].pes.pts]
      /\ DtsOf(calls) = [i \in 1..n |-> calls[i].pes.dts]
  BY <1>1 DEF PtsOf, DtsOf
<1>6. /\ PtsOf(calls) \in Seq(Int) /\ Len(PtsOf(calls)) = n
      /\ DtsOf(calls) \in Seq(Int) /\ Len(DtsOf(calls)) = n
  BY <1>3, <1>5
<1>7. PtsOf(more) = Append(PtsOf(calls), call.pes.pts)
  <2>1. Append(PtsOf(calls), call.pes.pts) =
          [i \in 1..(n + 1) |-> IF i = n + 1 THEN call.pes.pts ELSE PtsOf(calls)[i]]
    BY <1>4, <1>6, AppendedIsMap
  <2>2. \A i \in 1..(n + 1) :
          more[i].pes.pts = IF i = n + 1 THEN call.pes.pts ELSE PtsOf(calls)[i]
    BY <1>2, <1>5
  <2>3. PtsOf(more) = [i \in 1..(n + 1) |-> more[i].pes.pts]
    BY <1>2 DEF PtsOf
  <2> QED
    BY <2>1, <2>2, <2>3
<1>8. DtsOf(more) = Append(DtsOf(calls), call.pes.dts)
  <2>1. Append(DtsOf(calls), call.pes.dts) =
          [i \in 1..(n + 1) |-> IF i = n + 1 THEN call.pes.dts ELSE DtsOf(calls)[i]]
    BY <1>4, <1>6, AppendedIsMap
  <2>2. \A i \in 1..(n + 1) :
          more[i].pes.dts = IF i = n + 1 THEN call.pes.dts ELSE DtsOf(calls)[i]
    BY <1>2, <1>5
  <2>3. DtsOf(more) = [i \in 1..(n + 1) |-> more[i].pes.dts]
    BY <1>2 DEF DtsOf
  <2> QED
    BY <2>1, <2>2, <2>3
<1> QED
  BY <1>4, <1>6, <1>7, <1>8 DEF more

\* What one more adaptation field tells.
LEMMA MoreReferences ==
  ASSUME NEW told \in Seq(AdaptationFields), NEW af \in AdaptationFields
  PROVE  /\ ReferencesOf(told) \in Seq(Int)
         /\ ReferencesOf(Append(told, af)) = Append(ReferencesOf(told), af.pcr)
         /\ Cardinality(BreaksIn(Append(told, af))) =
              IF af.discontinuity_indicator THEN Cardinality(BreaksIn(told)) + 1
              ELSE Cardinality(BreaksIn(told))
<1> DEFINE more == Append(told, af)
<1>1. PICK n \in Nat : n = Len(told) /\ DOMAIN told = 1..n
  OBVIOUS
<1>2. /\ DOMAIN more = 1..(n + 1) /\ more[n + 1] = af
      /\ \A i \in 1..n : more[i] = told[i] /\ told[i] \in AdaptationFields
  BY <1>1
<1>3. \A i \in 1..n : told[i].pcr \in Int
  BY <1>2 DEF AdaptationFields
<1>4. af.pcr \in Int
  BY DEF AdaptationFields
<1> HIDE DEF more
<1>5. ReferencesOf(told) = [i \in 1..n |-> told[i].pcr]
  BY <1>1 DEF ReferencesOf
<1>6. ReferencesOf(told) \in Seq(Int) /\ Len(ReferencesOf(told)) = n
  BY <1>3, <1>5
<1>7. ReferencesOf(more) = Append(ReferencesOf(told), af.pcr)
  <2>1. Append(ReferencesOf(told), af.pcr) =
          [i \in 1..(n + 1) |-> IF i = n + 1 THEN af.pcr ELSE ReferencesOf(told)[i]]
    BY <1>4, <1>6, AppendedIsMap
  <2>2. \A i \in 1..(n + 1) :
          more[i].pcr = IF i = n + 1 THEN af.pcr ELSE ReferencesOf(told)[i]
    BY <1>2, <1>5
  <2>3. ReferencesOf(more) = [i \in 1..(n + 1) |-> more[i].pcr]
    BY <1>2 DEF ReferencesOf
  <2> QED
    BY <2>1, <2>2, <2>3
<1>8. BreaksIn(more) = BreaksIn(told) \cup (IF af.discontinuity_indicator THEN {n + 1} ELSE {})
  <2>1. 1..(n + 1) = (1..n) \cup {n + 1}
    OBVIOUS
  <2> QED
    BY <1>1, <1>2, <2>1 DEF BreaksIn
<1>9. IsFiniteSet(BreaksIn(told)) /\ n + 1 \notin BreaksIn(told)
  <2>1. IsFiniteSet(1..n)
    BY FS_Interval
  <2>2. BreaksIn(told) \subseteq 1..n
    BY <1>1 DEF BreaksIn
  <2>3. IsFiniteSet(BreaksIn(told))
    BY <2>1, <2>2, FS_Subset
  <2> QED
    BY <2>2, <2>3
<1>10. Cardinality(BreaksIn(more)) =
         IF af.discontinuity_indicator THEN Cardinality(BreaksIn(told)) + 1
         ELSE Cardinality(BreaksIn(told))
  <2>1. CASE af.discontinuity_indicator
    <3>1. BreaksIn(more) = BreaksIn(told) \cup {n + 1}
      BY <1>8, <2>1
    <3> QED
      BY <1>9, <2>1, <3>1, FS_AddElement
  <2>2. CASE ~af.discontinuity_indicator
    <3>1. BreaksIn(more) = BreaksIn(told)
      BY <1>8, <2>2
    <3> QED
      BY <2>2, <3>1
  <2> QED
    BY <2>1, <2>2
<1> QED
  BY <1>6, <1>7, <1>10 DEF more

\* An adaptation field that arrives is counted as it should be.
LEMMA MoreClocks ==
  ASSUME NEW fields \in Seq(AdaptationFields), NEW af \in AdaptationFields
  PROVE  /\ ClockOf(Append(fields, af)) =
              IF af.adaptation_field_length > 0 /\ af.pcr # NoTime
              THEN Sample(ClockOf(fields), af.pcr) ELSE ClockOf(fields)
         /\ Cardinality(BreaksIn(ToldBy(Append(fields, af)))) =
              IF af.adaptation_field_length > 0 /\ af.discontinuity_indicator
              THEN Cardinality(BreaksIn(ToldBy(fields))) + 1
              ELSE Cardinality(BreaksIn(ToldBy(fields)))
<1>1. PICK told : told = ToldBy(fields)
  OBVIOUS
<1>2. /\ told \in Seq(AdaptationFields)
      /\ ToldBy(Append(fields, af)) = IF af \in WithFlags THEN Append(told, af) ELSE told
  <2>1. /\ told \in Seq(AdaptationFields \cap WithFlags)
        /\ ToldBy(Append(fields, af)) = IF af \in WithFlags THEN Append(told, af) ELSE told
    BY <1>1, PickedOfAppended DEF ToldBy
  <2>2. told \in Seq(AdaptationFields)
    BY <2>1
  <2> QED
    BY <2>1, <2>2
<1>3. af \in WithFlags <=> af.adaptation_field_length > 0
  BY DEF AdaptationFields, WithFlags
<1>4. CASE af.adaptation_field_length > 0
  <2>1. ToldBy(Append(fields, af)) = Append(told, af)
    BY <1>2, <1>3, <1>4
  <2>2. /\ ReferencesOf(told) \in Seq(Int)
        /\ ReferencesOf(Append(told, af)) = Append(ReferencesOf(told), af.pcr)
        /\ Cardinality(BreaksIn(Append(told, af))) =
             IF af.discontinuity_indicator THEN Cardinality(BreaksIn(told)) + 1
             ELSE Cardinality(BreaksIn(told))
    BY <1>2, MoreReferences
  <2>3. af.pcr \in Int
    BY DEF AdaptationFields
  <2>4. [TrackOf(Append(ReferencesOf(told), af.pcr)) EXCEPT !.missing = 0] =
          IF af.pcr = NoTime THEN [TrackOf(ReferencesOf(told)) EXCEPT !.missing = 0]
          ELSE Sample([TrackOf(ReferencesOf(told)) EXCEPT !.missing = 0], af.pcr)
    BY <2>2, <2>3, ClockGrows
  <2> QED
    BY <1>1, <1>4, <2>1, <2>2, <2>4 DEF ClockOf
<1>5. CASE ~(af.adaptation_field_length > 0)
  <2>1. ToldBy(Append(fields, af)) = told
    BY <1>2, <1>3, <1>5
  <2> QED
    BY <1>1, <1>5, <2>1 DEF ClockOf
<1> QED
  BY <1>4, <1>5

\* An adaptation field that a packet can have, and whether it has one.
FieldOf(pkt) ==
  /\ pkt.af \in AdaptationFields
  /\ pkt.adaptation_field_control \in {PayloadOnly, AdaptationOnly, AdaptationPayload}

\* The inductive invariant: what TsStatistics keeps of a PID is told by its
\* callbacks and by the adaptation fields that arrived, the repeated ones too.
StatisticsInv ==
  /\ DOMAIN mPidStatistics = Pids /\ clocks \in [Pids -> Seq(AdaptationFields)]
  /\ \A p \in Pids : Tells(mPidStatistics[p], delivered[p], clocks[p])
  /\ \A p \in Pids : lastPacket[p] # NoPacket => FieldOf(lastPacket[p])

\* What the packet tells, after a call that returned a PES packet or none.
LEMMA ToldOnArrival ==
  ASSUME NEW s, NEW calls, NEW fields \in Seq(AdaptationFields), Tells(s, calls, fields),
         IsSeq(calls), \A i \in DOMAIN calls : calls[i].pes \in PesRecord,
         NEW call, call.pes \in PesRecord, NEW pkt, FieldOf(pkt)
  PROVE  Tells(PesStatistics(s, parseTsPacketInfo(pkt), call.pes),
               IF call.pes = NoPes THEN calls ELSE Append(calls, call),
               IF pkt.adaptation_field_control = PayloadOnly THEN fields
               ELSE Append(fields, pkt.af))
<1> DEFINE info == parseTsPacketInfo(pkt)
           new == PesStatistics(s, info, call.pes)
           after == IF call.pes = NoPes THEN calls ELSE Append(calls, call)
           seen == IF pkt.adaptation_field_control = PayloadOnly THEN fields
                   ELSE Append(fields, pkt.af)
           flags == checkHasAdaptationField(pkt) /\ pkt.af.adaptation_field_length > 0
<1>1. /\ info.hasAdaptationField <=> checkHasAdaptationField(pkt)
      /\ info.isDiscontinuity <=> flags /\ pkt.af.discontinuity_indicator
      /\ info.pcr = IF flags THEN pkt.af.pcr ELSE NoTime
  BY DEF parseTsPacketInfo, NoTime
<1>2. checkHasAdaptationField(pkt) <=> pkt.adaptation_field_control # PayloadOnly
  BY DEF checkHasAdaptationField, FieldOf, PayloadOnly, AdaptationOnly, AdaptationPayload
<1> HIDE DEF info
<1>3. /\ StatisticKeys \subseteq DOMAIN s
      /\ s.pts = TrackOf(PtsOf(calls)) /\ s.dts = TrackOf(DtsOf(calls))
      /\ s.pcr = ClockOf(fields)
      /\ s.numberOfTsDiscontinuities = Cardinality(BreaksIn(ToldBy(fields)))
  BY DEF Tells
<1>4. /\ StatisticKeys \subseteq DOMAIN new
      /\ new.pts = IF call.pes = NoPes THEN s.pts ELSE SampleOrMiss(s.pts, call.pes.pts)
      /\ new.dts = IF call.pes = NoPes THEN s.dts ELSE SampleOrMiss(s.dts, call.pes.dts)
      /\ new.pcr = IF info.hasAdaptationField /\ info.pcr # NoTime
                   THEN Sample(s.pcr, info.pcr) ELSE s.pcr
      /\ new.numberOfTsDiscontinuities =
           IF info.hasAdaptationField /\ info.isDiscontinuity
           THEN s.numberOfTsDiscontinuities + 1 ELSE s.numberOfTsDiscontinuities
  BY <1>3, CollectedStatistics
<1> HIDE DEF new
<1>5. new.pts = TrackOf(PtsOf(after)) /\ new.dts = TrackOf(DtsOf(after))
  <2>1. CASE call.pes = NoPes
    BY <1>3, <1>4, <2>1
  <2>2. CASE call.pes # NoPes
    <3>1. /\ PtsOf(calls) \in Seq(Int) /\ DtsOf(calls) \in Seq(Int)
          /\ PtsOf(Append(calls, call)) = Append(PtsOf(calls), call.pes.pts)
          /\ DtsOf(Append(calls, call)) = Append(DtsOf(calls), call.pes.dts)
          /\ call.pes.pts \in Int /\ call.pes.dts \in Int
      BY MoreStamps
    <3>2. TrackOf(Append(PtsOf(calls), call.pes.pts)) = SampleOrMiss(TrackOf(PtsOf(calls)), call.pes.pts)
      BY <3>1, TrackGrows
    <3>3. TrackOf(Append(DtsOf(calls), call.pes.dts)) = SampleOrMiss(TrackOf(DtsOf(calls)), call.pes.dts)
      BY <3>1, TrackGrows
    <3> QED
      BY <1>3, <1>4, <2>2, <3>1, <3>2, <3>3
  <2> QED
    BY <2>1, <2>2
<1>6. /\ new.pcr = ClockOf(seen)
      /\ new.numberOfTsDiscontinuities = Cardinality(BreaksIn(ToldBy(seen)))
  <2>1. CASE pkt.adaptation_field_control = PayloadOnly
    <3>1. ~info.hasAdaptationField
      BY <1>1, <1>2, <2>1
    <3> QED
      BY <1>3, <1>4, <2>1, <3>1
  <2>2. CASE pkt.adaptation_field_control # PayloadOnly
    <3>1. PICK af \in AdaptationFields : af = pkt.af
      BY DEF FieldOf
    <3>2. /\ info.hasAdaptationField
          /\ info.isDiscontinuity <=> af.adaptation_field_length > 0 /\ af.discontinuity_indicator
          /\ info.pcr = IF af.adaptation_field_length > 0 THEN af.pcr ELSE NoTime
      BY <1>1, <1>2, <2>2, <3>1
    <3>3. /\ ClockOf(Append(fields, af)) =
               IF af.adaptation_field_length > 0 /\ af.pcr # NoTime
               THEN Sample(ClockOf(fields), af.pcr) ELSE ClockOf(fields)
          /\ Cardinality(BreaksIn(ToldBy(Append(fields, af)))) =
               IF af.adaptation_field_length > 0 /\ af.discontinuity_indicator
               THEN Cardinality(BreaksIn(ToldBy(fields))) + 1
               ELSE Cardinality(BreaksIn(ToldBy(fields)))
      BY MoreClocks
    <3>4. seen = Append(fields, af)
      BY <2>2, <3>1
    <3> HIDE DEF seen
    <3>5. new.pcr = ClockOf(seen)
      BY <1>3, <1>4, <3>2, <3>3, <3>4
    <3>6. new.numberOfTsDiscontinuities = Cardinality(BreaksIn(ToldBy(seen)))
      BY <1>3, <1>4, <3>2, <3>3, <3>4
    <3> QED
      BY <3>5, <3>6
  <2> QED
    BY <2>1, <2>2
<1> HIDE DEF after, seen
<1>7. Tells(new, after, seen)
  BY <1>4, <1>5, <1>6 DEF Tells
<1> QED
  BY <1>7 DEF new, after, seen, info

\* An arrival, once what it returned is known to be a PES packet.
LEMMA ArriveKeepsStatistics ==
  ASSUME HeadInv, StatisticsInv, NEW p \in Pids, NEW pkt, FieldOf(pkt), pesOut' \in PesRecord,
         NEW step, Arrive(p, pkt, step)
  PROVE  /\ DOMAIN mPidStatistics' = Pids /\ clocks' \in [Pids -> Seq(AdaptationFields)]
         /\ \A q \in Pids : Tells(mPidStatistics'[q], delivered'[q], clocks'[q])
<1> DEFINE info == parseTsPacketInfo(pkt)
           call == [pes |-> pesOut', origin |-> mOrigins'[p], byLength |-> ~info.isPayloadStart]
           new == PesStatistics(mPidStatistics[p], info, call.pes)
           after == IF call.pes = NoPes THEN delivered[p] ELSE Append(delivered[p], call)
           seen == IF pkt.adaptation_field_control = PayloadOnly THEN clocks[p]
                   ELSE Append(clocks[p], pkt.af)
<1>1. /\ DOMAIN mPidStatistics = Pids /\ clocks \in [Pids -> Seq(AdaptationFields)]
      /\ \A q \in Pids : Tells(mPidStatistics[q], delivered[q], clocks[q])
      /\ DOMAIN delivered = Pids
  BY DEF StatisticsInv, HeadInv, DeliveredInv
<1>2. call.pes = pesOut'
  OBVIOUS
<1>3. /\ mPidStatistics' = [mPidStatistics EXCEPT ![p] = new]
      /\ delivered'[p] = after /\ \A q \in Pids \ {p} : delivered'[q] = delivered[q]
      /\ clocks' = [clocks EXCEPT ![p] = seen]
  <2>1. mPidStatistics' = [mPidStatistics EXCEPT ![p] = new]
    BY <1>2 DEF Arrive
  <2>2. delivered'[p] = after /\ \A q \in Pids \ {p} : delivered'[q] = delivered[q]
    <3>1. CASE pesOut' = NoPes
      BY <1>2, <3>1 DEF Arrive
    <3>2. CASE pesOut' # NoPes
      <4>1. delivered' = [delivered EXCEPT ![p] = Append(@, call)] /\ after = Append(delivered[p], call)
        BY <1>2, <3>2 DEF Arrive
      <4> HIDE DEF call, after
      <4> QED
        BY <1>1, <4>1
    <3> QED
      BY <3>1, <3>2
  <2>3. clocks' = [clocks EXCEPT ![p] = seen]
    <3>1. CASE pkt.adaptation_field_control = PayloadOnly
      BY <1>1, <3>1 DEF Arrive
    <3>2. CASE pkt.adaptation_field_control # PayloadOnly
      BY <3>2 DEF Arrive
    <3> QED
      BY <3>1, <3>2
  <2> QED
    BY <2>1, <2>2, <2>3
<1> HIDE DEF call
<1>4. Tells(new, after, seen)
  <2>1. /\ IsSeq(delivered[p]) /\ \A i \in DOMAIN delivered[p] : delivered[p][i].pes \in PesRecord
    BY DEF HeadInv, DeliveredInv, HeadedPes
  <2>2. clocks[p] \in Seq(AdaptationFields) /\ Tells(mPidStatistics[p], delivered[p], clocks[p])
    BY <1>1
  <2>3. call.pes \in PesRecord
    BY <1>2
  <2> QED
    BY <2>1, <2>2, <2>3, ToldOnArrival
<1>5. seen \in Seq(AdaptationFields)
  <2>1. pkt.af \in AdaptationFields /\ clocks[p] \in Seq(AdaptationFields)
    BY <1>1 DEF FieldOf
  <2> QED
    BY <2>1
<1> HIDE DEF new, after, seen
<1>6. clocks' \in [Pids -> Seq(AdaptationFields)]
  BY <1>1, <1>3, <1>5
<1>7. ASSUME NEW q \in Pids PROVE Tells(mPidStatistics'[q], delivered'[q], clocks'[q])
  <2>1. CASE q = p
    BY <1>1, <1>3, <1>4, <2>1
  <2>2. CASE q # p
    <3>1. mPidStatistics'[q] = mPidStatistics[q] /\ delivered'[q] = delivered[q] /\ clocks'[q] = clocks[q]
      BY <1>1, <1>3, <2>2
    <3> QED
      BY <1>1, <3>1
  <2> QED
    BY <2>1, <2>2
<1> QED
  BY <1>1, <1>3, <1>6, <1>7

\* A packet the sender makes has an adaptation field of the right type.
LEMMA PayloadPacketField ==
  ASSUME SenderInv, NEW p \in Pids, NEW u \in Nat, NEW first \in Nat, NEW last \in Nat, NEW n \in Nat,
         last - first + 1 = n, NEW start, NEW flags \in AfFlags, NEW head
  PROVE  FieldOf(PayloadPacket(p, start, flags, head, Cells(p, u, first, last)))
<1> DEFINE payload == Cells(p, u, first, last)
           spare == MaxPayload - Len(payload)
<1>1. Len(payload) = n
  BY CellsRun DEF IsRun
<1>2. spare \in Int
  BY <1>1, PacketAssumption DEF MaxPayload
<1>3. Clock(p, flags) \in Int /\ flags.disc \in BOOLEAN
  BY PositionIsNumber, SenderAssumption DEF Clock, NoTime
<1> HIDE DEF payload
<1> DEFINE length == IF spare = 0 THEN 0 ELSE spare - 1
           control == IF spare = 0 THEN PayloadOnly ELSE AdaptationPayload
<1>4. length \in Int /\ control \in {PayloadOnly, AdaptationOnly, AdaptationPayload}
  BY <1>2
<1>5. PayloadPacket(p, start, flags, head, payload) =
        TsPacket(p, start, control, Advance(cc[p]),
                 Adaptation(length, flags.disc, Clock(p, flags)), head, payload)
  BY DEF PayloadPacket
<1> HIDE DEF length, control
<1> QED
  BY <1>3, <1>4, <1>5 DEF TsPacket, Adaptation, FieldOf, AdaptationFields, payload

LEMMA AdaptationPacketField ==
  ASSUME SenderInv, NEW p \in Pids, NEW flags \in AfFlags
  PROVE  FieldOf(AdaptationPacket(p, flags))
<1>1. Clock(p, flags) \in Int /\ flags.disc \in BOOLEAN
  BY PositionIsNumber, SenderAssumption DEF Clock, NoTime
<1>2. MaxPayload - 1 \in Int
  BY PacketAssumption DEF MaxPayload
<1> QED
  BY <1>1, <1>2 DEF AdaptationPacket, TsPacket, Adaptation, FieldOf, AdaptationFields

\* A packet with payload.
LEMMA TransferKeepsStatistics ==
  ASSUME HeadInv, StatisticsInv, NEW p \in Pids, NEW pkt, FieldOf(pkt), pesOut' \in PesRecord,
         Transfer(p, pkt)
  PROVE  StatisticsInv'
<1>1. \A q \in Pids : lastPacket'[q] # NoPacket => FieldOf(lastPacket'[q])
  BY DEF Transfer, Remember, StatisticsInv, HeadInv, ChannelInv
<1>2. CASE Arrive(p, pkt, 1)
  BY <1>1, <1>2, ArriveKeepsStatistics DEF StatisticsInv
<1>3. CASE UNCHANGED <<receiver, delivered, gapsSeen, clocks>>
  BY <1>1, <1>3 DEF StatisticsInv, receiver
<1> QED
  BY <1>2, <1>3 DEF Transfer

LEMMA SendStartKeepsStatistics ==
  ASSUME HeadInv, StatisticsInv, pesOut' \in PesRecord, NEW p \in Pids, SendStart(p)
  PROVE  StatisticsInv'
<1>1. PICK head \in Heads, flags \in AfFlags :
        \E n \in PesHeaderSize..SizeOrLess(MaxPayload, PesSize(head)) :
          Transfer(p, PayloadPacket(p, TRUE, flags, head, Cells(p, CurrentUnit(p) + 1, 1, n)))
  BY DEF SendStart
<1>2. PICK n \in PesHeaderSize..SizeOrLess(MaxPayload, PesSize(head)) :
        Transfer(p, PayloadPacket(p, TRUE, flags, head, Cells(p, CurrentUnit(p) + 1, 1, n)))
  BY <1>1
<1>3. n \in Nat /\ 1 \in Nat /\ n - 1 + 1 = n
  BY SizesAreNumbers
<1>4. CurrentUnit(p) + 1 \in Nat
  BY DEF HeadInv, SenderInv, CurrentUnit
<1> DEFINE u == CurrentUnit(p) + 1
           one == 1
           pkt == PayloadPacket(p, TRUE, flags, head, Cells(p, u, one, n))
<1>5. FieldOf(pkt)
  <2>1. u \in Nat /\ one \in Nat /\ n - one + 1 = n
    BY <1>3, <1>4
  <2> HIDE DEF u, one
  <2> QED
    BY <1>3, <2>1, PayloadPacketField DEF HeadInv
<1>6. Transfer(p, pkt)
  BY <1>2
<1> HIDE DEF pkt
<1> QED
  BY <1>5, <1>6, TransferKeepsStatistics

LEMMA SendMoreKeepsStatistics ==
  ASSUME HeadInv, StatisticsInv, pesOut' \in PesRecord, NEW p \in Pids, SendMore(p)
  PROVE  StatisticsInv'
<1> DEFINE unit == Last(units[p])
           u == CurrentUnit(p)
<1>1. units[p] # <<>> /\ units[p] \in Seq(UnitRecord) /\ unit \in UnitRecord
      /\ u \in Nat
  <2>1. units[p] # <<>> /\ units[p] \in Seq(UnitRecord)
    BY DEF SendMore, HeadInv, SenderInv
  <2>2. Len(units[p]) \in DOMAIN units[p] /\ Len(units[p]) \in Nat
    BY <2>1
  <2> QED
    BY <2>1, <2>2 DEF Last, CurrentUnit
<1>2. unit.sent \in Nat
  BY <1>1 DEF UnitRecord
<1>3. PICK flags \in AfFlags, n \in 1..SizeOrLess(MaxPayload, PesSize(unit.head) - unit.sent) :
        Transfer(p, PayloadPacket(p, FALSE, flags, unit.head,
                                  Cells(p, u, unit.sent + 1, unit.sent + n)))
  BY DEF SendMore
<1> HIDE DEF unit, u
<1> DEFINE first == unit.sent + 1
           last == unit.sent + n
           pkt == PayloadPacket(p, FALSE, flags, unit.head, Cells(p, u, first, last))
<1>4. n \in Nat /\ first \in Nat /\ last \in Nat /\ last - first + 1 = n
  BY <1>2
<1>5. FieldOf(pkt)
  <2> HIDE DEF first, last
  <2> QED
    BY <1>1, <1>4, PayloadPacketField DEF HeadInv
<1>6. Transfer(p, pkt)
  BY <1>3
<1> HIDE DEF pkt
<1> QED
  BY <1>5, <1>6, TransferKeepsStatistics

LEMMA NextKeepsStatistics ==
  HeadInv /\ StatisticsInv /\ pesOut' \in PesRecord /\ [Next]_vars => StatisticsInv'
<1> SUFFICES ASSUME HeadInv, StatisticsInv, pesOut' \in PesRecord, [Next]_vars
             PROVE  StatisticsInv'
  OBVIOUS
<1>1. CASE UNCHANGED vars
  BY <1>1 DEF StatisticsInv, vars, receiver, channel, history
<1>2. ASSUME NEW p \in Pids, SendStart(p) PROVE StatisticsInv'
  BY <1>2, SendStartKeepsStatistics
<1>3. ASSUME NEW p \in Pids, SendMore(p) PROVE StatisticsInv'
  BY <1>3, SendMoreKeepsStatistics
<1>4. ASSUME NEW p \in Pids, RepeatPacket(p) PROVE StatisticsInv'
  <2>1. /\ lastPacket[p] # NoPacket /\ lastPacket' = [lastPacket EXCEPT ![p] = NoPacket]
        /\ Arrive(p, lastPacket[p], 0)
    BY <1>4 DEF RepeatPacket, Repeatable, Remember
  <2>2. FieldOf(lastPacket[p])
    BY <2>1 DEF StatisticsInv
  <2>3. \A q \in Pids : lastPacket'[q] # NoPacket => FieldOf(lastPacket'[q])
    BY <2>1 DEF StatisticsInv, HeadInv, ChannelInv
  <2> QED
    BY <2>1, <2>2, <2>3, ArriveKeepsStatistics DEF StatisticsInv
<1>5. ASSUME NEW p \in Pids, SendAdaptation(p) PROVE StatisticsInv'
  <2>1. PICK flags \in AfFlags : Arrive(p, AdaptationPacket(p, flags), 0)
    BY <1>5 DEF SendAdaptation
  <2>2. FieldOf(AdaptationPacket(p, flags))
    BY AdaptationPacketField DEF HeadInv
  <2>3. \A q \in Pids : lastPacket'[q] # NoPacket => FieldOf(lastPacket'[q])
    BY <1>5 DEF SendAdaptation, StatisticsInv
  <2> QED
    BY <2>1, <2>2, <2>3, ArriveKeepsStatistics DEF StatisticsInv
<1> QED
  BY <1>1, <1>2, <1>3, <1>4, <1>5 DEF Next

LEMMA InitHasStatistics == Init => StatisticsInv
<1> SUFFICES ASSUME Init PROVE StatisticsInv
  OBVIOUS
<1>1. /\ mPidStatistics = [p \in Pids |-> NewPidStatistic] /\ delivered = [p \in Pids |-> <<>>]
      /\ clocks = [p \in Pids |-> <<>>] /\ lastPacket = [p \in Pids |-> NoPacket]
  BY DEF Init, InitChannel
<1>2. TrackOf(<<>>) = NewTrack
  <2>1. PICK none : none = <<>>
    OBVIOUS
  <2>2. Picked(none, Int \ {NoTime}) = none
    BY <2>1, PickedOfNone
  <2>3. HistogramOf(none) = EmptyBag
    <3>1. DifferencesOf(none) = {}
      <4>1. Len(none) = 0 /\ \A i : i \notin 1..(0 - 1)
        BY <2>1
      <4> QED
        BY <4>1 DEF DifferencesOf
    <3> QED
      BY <3>1 DEF HistogramOf, EmptyBag, SetToBag
  <2>4. Len(none) - Len(none) = 0
    BY <2>1
  <2> QED
    BY <2>1, <2>2, <2>3, <2>4 DEF TrackOf, NewTrack
<1>3. /\ PtsOf(<<>>) = <<>> /\ DtsOf(<<>>) = <<>> /\ ReferencesOf(<<>>) = <<>>
      /\ BreaksIn(<<>>) = {}
  BY DEF PtsOf, DtsOf, ReferencesOf, BreaksIn
<1>4. ToldBy(<<>>) = <<>>
  BY PickedOfNone DEF ToldBy
<1>5. ClockOf(<<>>) = NewTrack
  BY <1>2, <1>3, <1>4 DEF ClockOf, NewTrack
<1>6. Cardinality(BreaksIn(ToldBy(<<>>))) = 0
  BY <1>3, <1>4, FS_EmptySet
<1>7. Tells(NewPidStatistic, <<>>, <<>>)
  BY <1>2, <1>3, <1>5, <1>6 DEF Tells, NewPidStatistic, StatisticKeys
<1>8. <<>> \in Seq(AdaptationFields)
  OBVIOUS
<1> QED
  BY <1>1, <1>7, <1>8 DEF StatisticsInv

\* However many packets are lost, repeated or without payload: the histograms of
\* a PID (TsStatistics::buildPtsHistogram, buildDtsHistogram, buildPcrHistogram),
\* its counts of absent time stamps and of discontinuities are those of the
\* PES packets called back and of the adaptation fields that arrived.
THEOREM StatisticsAreAlwaysOfArrivals == Spec => []StatisticsOfArrivals
<1>1. Init => HeadInv /\ TypeInv /\ StatisticsInv
  BY InitHasHeads, InitHasTypes, InitHasStatistics
<1>2. HeadInv /\ TypeInv /\ StatisticsInv /\ [Next]_vars => HeadInv' /\ TypeInv' /\ StatisticsInv'
  <2> SUFFICES ASSUME HeadInv, TypeInv, StatisticsInv, [Next]_vars
               PROVE  HeadInv' /\ TypeInv' /\ StatisticsInv'
    OBVIOUS
  <2>1. HeadInv'
    BY NextKeepsHeads
  <2>2. TypeInv'
    BY <2>1, NextKeepsTypes
  <2>3. StatisticsInv'
    BY <2>2, NextKeepsStatistics DEF TypeInv
  <2> QED
    BY <2>1, <2>2, <2>3
<1>3. StatisticsInv => StatisticsOfArrivals
  BY DEF StatisticsInv, Tells, ClockOf, ToldBy, StatisticsOfArrivals, StampsOfDelivered, ClocksOfArrivals
<1> QED
  BY <1>1, <1>2, <1>3, PTL DEF Spec
=============================================================================
