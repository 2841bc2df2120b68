-------------------------- MODULE TsSender_proofs ---------------------------
(***************************************************************************)
(* Where parseTsPacketInfo finds the payload of the packets a legal stream *)
(* is made of, for every size of packet, header and adaptation field; what *)
(* a continuity counter tells of the packets missing before it; that the   *)
(* payload of a packet is a run of cells of its unit; how the units of a   *)
(* PID grow; and that a fold over a list goes through it step by step, so  *)
(* that a position in a stream is a number, and what is picked of a list   *)
(* is what it has of that kind.                                            *)
(***************************************************************************)
EXTENDS TsSender, SequenceTheorems, WellFoundedInduction, TLAPS

\* A run of n consecutive cells of a unit is a sequence of cells.
IsRun(s, p, u, first, n) ==
  s \in Seq(Cell) /\ Len(s) = n /\ (n > 0 => s[1] = <<p, u, first>>)

LEMMA CellsRun ==
  ASSUME NEW p \in Pids, NEW u \in Nat, NEW first \in Nat, NEW last \in Nat, NEW n \in Nat,
         last - first + 1 = n
  PROVE  IsRun(Cells(p, u, first, last), p, u, first, n)
<1>1. \A i \in 1..n : <<p, u, first + i - 1>> \in Cell
  <2> SUFFICES ASSUME NEW i \in 1..n PROVE <<p, u, first + i - 1>> \in Cell
    OBVIOUS
  <2>1. first + i - 1 \in Nat
    OBVIOUS
  <2> QED
    BY <2>1 DEF Cell
<1>2. Cells(p, u, first, last) = [i \in 1..n |-> <<p, u, first + i - 1>>]
  BY DEF Cells
<1>3. Cells(p, u, first, last) \in [1..n -> Cell]
  BY <1>1, <1>2
<1>4. Cells(p, u, first, last) \in Seq(Cell) /\ Len(Cells(p, u, first, last)) = n
  BY <1>3
<1>5. ASSUME n > 0 PROVE Cells(p, u, first, last)[1] = <<p, u, first>>
  <2>1. 1 \in 1..n /\ first + 1 - 1 = first
    BY <1>5
  <2> QED
    BY <1>2, <2>1
<1> QED
  BY <1>4, <1>5 DEF IsRun

\* What is left of a sequence from a place on.
LEMMA SuffixType ==
  ASSUME NEW S, NEW s \in Seq(S), NEW offset \in Nat, NEW n \in Nat, n = Len(s)
  PROVE  /\ SubSeq(s, offset + 1, n) \in Seq(S)
         /\ offset < n => /\ Len(SubSeq(s, offset + 1, n)) = n - offset
                          /\ SubSeq(s, offset + 1, n)[1] = s[offset + 1]
         /\ offset >= n => SubSeq(s, offset + 1, n) = <<>>
<1>1. CASE offset < n
  BY <1>1
<1>2. CASE offset >= n
  BY <1>2
<1> QED
  BY <1>1, <1>2

\* Two runs of cells one after the other.
LEMMA Joined ==
  ASSUME NEW s \in Seq(Cell), NEW t \in Seq(Cell), Len(t) >= 1
  PROVE  /\ s \o t \in Seq(Cell)
         /\ Len(s \o t) = Len(s) + Len(t)
         /\ (s \o t)[Len(s) + 1] = t[1]
<1>1. Len(s) \in Nat /\ Len(t) \in Nat
  OBVIOUS
<1>2. s \o t \in Seq(Cell) /\ Len(s \o t) = Len(s) + Len(t)
  OBVIOUS
<1>3. (s \o t)[Len(s) + 1] = t[Len(s) + 1 - Len(s)]
  BY <1>1
<1> QED
  BY <1>1, <1>2, <1>3

Offset(pkt) == parseTsPacketInfo(pkt).payloadStartOffset

\* The bytes of a packet: its payload at the end, filler before it.
LEMMA PacketBytes ==
  ASSUME NEW p \in Pids, NEW start \in BOOLEAN, NEW afc, NEW counter, NEW af, NEW head,
         NEW payload \in Seq(Cell), Len(payload) <= TsPacketSize
  PROVE  LET pkt == TsPacket(p, start, afc, counter, af, head, payload)
         IN  /\ pkt.bytes \in Seq(Cell) /\ Len(pkt.bytes) = TsPacketSize
             /\ \A i \in DOMAIN payload :
                  pkt.bytes[TsPacketSize - Len(payload) + i] = payload[i]
<1> DEFINE pkt == TsPacket(p, start, afc, counter, af, head, payload)
           d == TsPacketSize - Len(payload)
<1>1. TsPacketSize \in Nat /\ d \in 0..TsPacketSize /\ Len(payload) \in Nat
  BY PacketAssumption
<1>2. pkt.bytes = [i \in 1..TsPacketSize |-> IF i <= d THEN Filler ELSE payload[i - d]]
  BY DEF TsPacket
<1>3. Filler \in Cell
  BY DEF Filler, Cell
<1>4. \A i \in 1..TsPacketSize : (IF i <= d THEN Filler ELSE payload[i - d]) \in Cell
  <2> SUFFICES ASSUME NEW i \in 1..TsPacketSize, ~(i <= d) PROVE payload[i - d] \in Cell
    BY <1>3
  <2>1. i - d \in 1..Len(payload)
    BY <1>1
  <2> QED
    BY <2>1
<1> HIDE DEF pkt
<1>5. pkt.bytes \in [1..TsPacketSize -> Cell]
  BY <1>2, <1>4
<1>6. pkt.bytes \in Seq(Cell) /\ Len(pkt.bytes) = TsPacketSize
  BY <1>1, <1>5
<1>7. \A i \in DOMAIN payload : pkt.bytes[d + i] = payload[i]
  <2> SUFFICES ASSUME NEW i \in 1..Len(payload) PROVE pkt.bytes[d + i] = payload[i]
    OBVIOUS
  <2>1. d + i \in 1..TsPacketSize /\ ~(d + i <= d) /\ (d + i) - d = i
    BY <1>1
  <2> QED
    BY <1>2, <2>1
<1> QED
  BY <1>6, <1>7 DEF pkt

\* The offset parseTsPacketInfo works out for the payload is where the payload
\* begins, with an adaptation field of whatever length before it, and what the
\* collectors copy from there is the payload.
LEMMA PayloadIsFound ==
  ASSUME NEW p \in Pids, NEW start \in BOOLEAN, NEW flags \in AfFlags \cup {Plain}, NEW head,
         NEW payload \in Seq(Cell), Len(payload) \in 1..MaxPayload
  PROVE  LET pkt == PayloadPacket(p, start, flags, head, payload)
         IN  /\ pkt.pid = p /\ pkt.payload_unit_start_indicator = start /\ pkt.head = head
             /\ pkt.bytes \in Seq(Cell) /\ Len(pkt.bytes) = TsPacketSize
             /\ Offset(pkt) = TsPacketSize - Len(payload)
             /\ \A i \in DOMAIN payload : pkt.bytes[Offset(pkt) + i] = payload[i]
<1> DEFINE pkt == PayloadPacket(p, start, flags, head, payload)
           spare == MaxPayload - Len(payload)
           afc == IF spare = 0 THEN PayloadOnly ELSE AdaptationPayload
           af == Adaptation(IF spare = 0 THEN 0 ELSE spare - 1, flags.disc, Clock(p, flags))
<1>num. /\ TsPacketSize \in Nat /\ TsHeaderSize \in Nat /\ Len(payload) \in Nat
        /\ MaxPayload = TsPacketSize - TsHeaderSize
        /\ spare \in Nat /\ Len(payload) <= TsPacketSize
  BY PacketAssumption DEF MaxPayload
<1>1. pkt = TsPacket(p, start, afc, Advance(cc[p]), af, head, payload)
  BY DEF PayloadPacket
<1>2. /\ pkt.bytes \in Seq(Cell) /\ Len(pkt.bytes) = TsPacketSize
      /\ \A i \in DOMAIN payload : pkt.bytes[TsPacketSize - Len(payload) + i] = payload[i]
  BY <1>1, <1>num, PacketBytes
<1>3. /\ pkt.pid = p /\ pkt.payload_unit_start_indicator = start /\ pkt.head = head
      /\ pkt.adaptation_field_control = afc /\ pkt.af = af
  BY <1>1 DEF TsPacket
<1>4. checkHasPayload(pkt)
  BY <1>3 DEF checkHasPayload
<1>5. Offset(pkt) = afterAdaptationField(pkt)
  BY <1>4 DEF Offset, parseTsPacketInfo
<1>6. afterAdaptationField(pkt) = TsPacketSize - Len(payload)
  <2>1. CASE spare = 0
    <3>1. ~checkHasAdaptationField(pkt)
      BY <1>3, <2>1 DEF checkHasAdaptationField, PayloadOnly, AdaptationOnly, AdaptationPayload
    <3> QED
      BY <3>1, <2>1, <1>num DEF afterAdaptationField
  <2>2. CASE spare # 0
    <3>1. checkHasAdaptationField(pkt)
      BY <1>3, <2>2 DEF checkHasAdaptationField
    <3>2. pkt.af.adaptation_field_length = spare - 1
      BY <1>3, <2>2 DEF Adaptation
    <3> QED
      BY <3>1, <3>2, <1>num DEF afterAdaptationField
  <2> QED
    BY <2>1, <2>2
<1> QED
  BY <1>2, <1>3, <1>5, <1>6

\* What is copied from a packet.
LEMMA CopiedFrom ==
  ASSUME NEW bytes \in Seq(Cell), Len(bytes) = TsPacketSize, NEW offset \in Nat,
         NEW pkt, pkt.bytes = bytes
  PROVE  LET copied == BytesFrom(pkt, offset)
         IN  /\ copied \in Seq(Cell) /\ Len(copied) \in Nat
             /\ offset < TsPacketSize => /\ Len(copied) = TsPacketSize - offset
                                         /\ copied # <<>> /\ copied[1] = bytes[offset + 1]
<1> DEFINE copied == SubSeq(bytes, offset + 1, TsPacketSize)
<1>1. TsPacketSize \in Nat
  BY PacketAssumption
<1>2. /\ copied \in Seq(Cell)
      /\ offset < TsPacketSize => /\ Len(copied) = TsPacketSize - offset
                                  /\ copied[1] = bytes[offset + 1]
  BY <1>1, SuffixType
<1>3. BytesFrom(pkt, offset) = copied
  BY DEF BytesFrom
<1> HIDE DEF copied
<1>4. offset < TsPacketSize => copied # <<>>
  BY <1>1, <1>2
<1>5. Len(copied) \in Nat
  BY <1>2
<1> QED
  BY <1>2, <1>3, <1>4, <1>5

\* A packet without payload is offered to the collectors from its first byte.
LEMMA NoPayloadIsWholePacket ==
  ASSUME NEW p \in Pids, NEW flags \in AfFlags
  PROVE  LET pkt == AdaptationPacket(p, flags)
         IN  /\ pkt.pid = p /\ pkt.payload_unit_start_indicator = FALSE
             /\ pkt.bytes \in Seq(Cell) /\ Len(pkt.bytes) = TsPacketSize
             /\ Offset(pkt) = 0 /\ pkt.bytes[1] = Filler
<1> DEFINE pkt == AdaptationPacket(p, flags)
           af == Adaptation(MaxPayload - 1, flags.disc, Clock(p, flags))
<1>1. pkt = TsPacket(p, FALSE, AdaptationOnly, cc[p], af, <<>>, <<>>)
  BY DEF AdaptationPacket
<1>2. <<>> \in Seq(Cell) /\ Len(<<>>) <= TsPacketSize
  BY PacketAssumption
<1>3. pkt.bytes \in Seq(Cell) /\ Len(pkt.bytes) = TsPacketSize
  <2> DEFINE none == <<>>
             start == FALSE
  <2>1. none \in Seq(Cell) /\ Len(none) <= TsPacketSize /\ start \in BOOLEAN
    BY <1>2
  <2>2. pkt = TsPacket(p, start, AdaptationOnly, cc[p], af, <<>>, none)
    BY <1>1
  <2> HIDE DEF pkt, af, none, start
  <2> QED
    BY <2>1, <2>2, PacketBytes
<1>4. /\ pkt.pid = p /\ pkt.payload_unit_start_indicator = FALSE
      /\ pkt.adaptation_field_control = AdaptationOnly
  BY <1>1 DEF TsPacket
<1>5. ~checkHasPayload(pkt)
  BY <1>4 DEF checkHasPayload, PayloadOnly, AdaptationOnly, AdaptationPayload
<1>6. Offset(pkt) = 0
  BY <1>5 DEF Offset, parseTsPacketInfo
<1>7. pkt.bytes[1] = Filler
  <2>1. 1 \in 1..TsPacketSize /\ 1 <= TsPacketSize - Len(<<>>)
    BY PacketAssumption
  <2> QED
    BY <1>1, <2>1 DEF TsPacket
<1> QED
  BY <1>3, <1>4, <1>6, <1>7

-----------------------------------------------------------------------------
(* The lists of units only grow *)

UnitRecord == [head : Heads, sent : Nat]

SenderInv == units \in [Pids -> Seq(UnitRecord)]

Grown(old, new) == \A u \in DOMAIN old : u \in DOMAIN new /\ new[u].head = old[u].head

\* The list of p grows and no other changes.
OnlyGrows(p) ==
  /\ SenderInv' /\ Grown(units[p], units'[p])
  /\ \A q \in Pids \ {p} : units'[q] = units[q]

\* Sending more of the last unit changes its `sent` and nothing else.
LEMMA MoreSentGrows ==
  ASSUME NEW list \in Seq(UnitRecord), NEW n \in Nat, n = 0 \/ list # <<>>
  PROVE  LET more == MoreSent(list, n)
         IN  /\ more \in Seq(UnitRecord) /\ Len(more) = Len(list) /\ Grown(list, more)
             /\ \A u \in DOMAIN list :
                  more[u].sent = IF u = Len(list) THEN list[u].sent + n ELSE list[u].sent
<1> DEFINE last == Len(list)
           more == MoreSent(list, n)
<1>1. CASE n = 0
  <2>1. more = list
    BY <1>1 DEF MoreSent
  <2>2. \A u \in DOMAIN list : list[u] \in UnitRecord
    OBVIOUS
  <2> QED
    BY <2>1, <2>2, <1>1 DEF Grown, UnitRecord
<1>2. CASE n # 0
  <2>1. last \in DOMAIN list /\ list[last] \in UnitRecord
    BY <1>2
  <2>2. list[last].sent + n \in Nat
    BY <2>1 DEF UnitRecord
  <2> DEFINE unit == [list[last] EXCEPT !.sent = @ + n]
  <2>3. unit \in UnitRecord /\ unit.head = list[last].head /\ unit.sent = list[last].sent + n
    BY <2>1, <2>2 DEF UnitRecord
  <2>4. more = [list EXCEPT ![last] = unit]
    BY <1>2 DEF MoreSent
  <2> HIDE DEF unit, more
  <2>5. more \in Seq(UnitRecord) /\ Len(more) = Len(list) /\ DOMAIN more = DOMAIN list
    BY <2>1, <2>3, <2>4
  <2>6. \A u \in DOMAIN list : more[u] = IF u = last THEN unit ELSE list[u]
    BY <2>1, <2>4
  <2> QED
    BY <2>3, <2>5, <2>6 DEF Grown, more
<1> QED
  BY <1>1, <1>2

\* A new unit comes after what its first packet carries of the one before.
LEMMA BeginGrows ==
  ASSUME SenderInv, NEW p \in Pids, NEW tail \in Nat, tail = 0 \/ units[p] # <<>>,
         NEW head \in Heads, NEW n \in Nat, BeginUnit(p, tail, head, n)
  PROVE  /\ OnlyGrows(p)
         /\ CurrentUnit(p) \in Nat
         /\ DOMAIN units'[p] = 1..(CurrentUnit(p) + 1)
         /\ units'[p][CurrentUnit(p) + 1] = [head |-> head, sent |-> n]
         /\ \A u \in DOMAIN units[p] : units'[p][u].sent =
              IF u = CurrentUnit(p) THEN units[p][u].sent + tail ELSE units[p][u].sent
<1> DEFINE unit == [head |-> head, sent |-> n]
           more == MoreSent(units[p], tail)
           list == Append(more, unit)
<1>1. units[p] \in Seq(UnitRecord) /\ unit \in UnitRecord /\ Len(units[p]) \in Nat
  <2>1. units[p] \in Seq(UnitRecord)
    BY DEF SenderInv
  <2>2. unit \in UnitRecord
    BY DEF UnitRecord
  <2> QED
    BY <2>1, <2>2
<1>2. units' = [units EXCEPT ![p] = list]
  BY DEF BeginUnit
<1>3. /\ more \in Seq(UnitRecord) /\ Len(more) = Len(units[p]) /\ Grown(units[p], more)
      /\ \A u \in DOMAIN units[p] : more[u].sent =
           IF u = Len(units[p]) THEN units[p][u].sent + tail ELSE units[p][u].sent
  BY <1>1, MoreSentGrows
<1> HIDE DEF unit, more
<1>4. /\ list \in Seq(UnitRecord)
      /\ DOMAIN list = 1..(Len(units[p]) + 1) /\ list[Len(units[p]) + 1] = unit
      /\ \A u \in DOMAIN units[p] : u \in DOMAIN list /\ list[u] = more[u]
  BY <1>1, <1>3
<1> HIDE DEF list
<1>5. units' \in [Pids -> Seq(UnitRecord)] /\ units'[p] = list
      /\ \A q \in Pids \ {p} : units'[q] = units[q]
  BY <1>2, <1>4 DEF SenderInv
<1>6. OnlyGrows(p)
  BY <1>3, <1>4, <1>5 DEF OnlyGrows, SenderInv, Grown
<1> QED
  BY <1>1, <1>3, <1>4, <1>5, <1>6 DEF CurrentUnit, unit

LEMMA ResumeGrows ==
  ASSUME SenderInv, NEW p \in Pids, units[p] # <<>>, NEW n \in Nat, ResumeUnit(p, n)
  PROVE  /\ OnlyGrows(p)
         /\ DOMAIN units'[p] = DOMAIN units[p]
         /\ \A u \in DOMAIN units[p] : units'[p][u].sent =
              IF u = CurrentUnit(p) THEN units[p][u].sent + n ELSE units[p][u].sent
<1> DEFINE more == MoreSent(units[p], n)
<1>1. units[p] \in Seq(UnitRecord) /\ units' = [units EXCEPT ![p] = more]
  BY DEF SenderInv, ResumeUnit
<1>2. /\ more \in Seq(UnitRecord) /\ Len(more) = Len(units[p]) /\ Grown(units[p], more)
      /\ \A u \in DOMAIN units[p] : more[u].sent =
           IF u = Len(units[p]) THEN units[p][u].sent + n ELSE units[p][u].sent
  BY <1>1, MoreSentGrows
<1> HIDE DEF more
<1>3. units' \in [Pids -> Seq(UnitRecord)] /\ units'[p] = more
      /\ \A q \in Pids \ {p} : units'[q] = units[q]
  BY <1>1, <1>2 DEF SenderInv
<1>4. DOMAIN more = DOMAIN units[p]
  BY <1>1, <1>2
<1> QED
  BY <1>2, <1>3, <1>4 DEF OnlyGrows, SenderInv, CurrentUnit

-----------------------------------------------------------------------------
(* Sequences *)

IsSeq(s) == \E S : s \in Seq(S)

LEMMA AppendIsSeq ==
  ASSUME NEW s, IsSeq(s), NEW e
  PROVE  /\ IsSeq(Append(s, e))
         /\ DOMAIN Append(s, e) = 1..(Len(s) + 1) /\ DOMAIN s = 1..Len(s) /\ Len(s) \in Nat
         /\ Append(s, e)[Len(s) + 1] = e
         /\ \A i \in DOMAIN s : Append(s, e)[i] = s[i]
<1>1. PICK S : s \in Seq(S)
  BY DEF IsSeq
<1> DEFINE T == S \cup {e}
<1>2. e \in T
  OBVIOUS
<1>3. s \in Seq(T)
  <2>1. s \in [1..Len(s) -> S] /\ Len(s) \in Nat
    BY <1>1
  <2>2. s \in [1..Len(s) -> T]
    BY <2>1
  <2> QED
    BY <2>1, <2>2
<1> HIDE DEF T
<1>4. Append(s, e) \in Seq(T)
  BY <1>2, <1>3
<1> QED
  BY <1>2, <1>3, <1>4 DEF IsSeq

\* A list of callbacks only gets longer.
Longer(out, more) ==
  Len(out) <= Len(more) /\ \A i \in 1..Len(out) : more[i] = out[i]

\* A sequence that agrees with a longer one is a prefix of it.
LEMMA PrefixByElements ==
  ASSUME NEW S, NEW s \in Seq(S), NEW t \in Seq(S), Len(s) <= Len(t),
         \A i \in 1..Len(s) : t[i] = s[i]
  PROVE  IsPrefix(s, t) /\ SubSeq(t, 1, Len(s)) = s
<1>1. 1 \in Int /\ Len(s) \in Int /\ Len(s) \in Nat
  OBVIOUS
<1>2. \A i \in 1..Len(s) : s[i] \in S /\ t[i] \in S
  OBVIOUS
<1>3. ASSUME NEW r, \A i \in 1..Len(s) : r[i] \in S, \A i \in 1..Len(s) : r[i] = s[i]
      PROVE  SubSeq(r, 1, Len(s)) = s
  <2> DEFINE n == Len(s)
             front == SubSeq(r, 1, n)
  <2>1. /\ front \in Seq(S) /\ Len(front) = IF 1 <= n THEN n - 1 + 1 ELSE 0
        /\ \A i \in 1..(n - 1 + 1) : front[i] = r[1 + i - 1]
    BY <1>1, <1>3, SubSeqProperties
  <2> HIDE DEF front
  <2>2. n - 1 + 1 = n /\ \A i \in 1..n : 1 + i - 1 = i
    BY <1>1
  <2>3. Len(front) = n /\ \A i \in 1..n : front[i] = r[i]
    BY <1>1, <2>1, <2>2
  <2>4. front = s
    BY <1>3, <2>1, <2>3, SeqEqual
  <2> QED
    BY <2>4 DEF front
<1>4. SubSeq(s, 1, Len(s)) = s
  BY <1>2, <1>3
<1>5. SubSeq(t, 1, Len(s)) = s
  BY <1>2, <1>3
<1> QED
  BY <1>4, <1>5 DEF IsPrefix

-----------------------------------------------------------------------------
(* The cells of a unit *)

\* The first n cells of a unit are n.
LEMMA CellsFromOne ==
  ASSUME NEW p \in Pids, NEW u \in Nat, NEW n \in Nat
  PROVE  /\ Cells(p, u, 1, n) \in Seq(Cell) /\ Len(Cells(p, u, 1, n)) = n
         /\ \A i \in 1..n : Cells(p, u, 1, n)[i] = <<p, u, i>>
<1>1. IsRun(Cells(p, u, 1, n), p, u, 1, n)
  <2>1. 1 \in Nat /\ n - 1 + 1 = n
    OBVIOUS
  <2> QED
    BY <2>1, CellsRun, Zenon
<1>2. Cells(p, u, 1, n) \in Seq(Cell) /\ Len(Cells(p, u, 1, n)) = n
  BY <1>1 DEF IsRun
<1>3. \A i \in 1..n : Cells(p, u, 1, n)[i] = <<p, u, 1 + i - 1>>
  BY <1>1 DEF Cells
<1>4. \A i \in 1..n : 1 + i - 1 = i
  OBVIOUS
<1> QED
  BY <1>2, <1>3, <1>4

\* A unit sent in two parts, and what is copied from a packet with payload.
LEMMA CellsJoin ==
  ASSUME NEW p \in Pids, NEW u \in Nat, NEW m \in Nat, NEW k \in Nat
  PROVE  Cells(p, u, 1, m) \o Cells(p, u, m + 1, m + k) = Cells(p, u, 1, m + k)
<1> DEFINE s == Cells(p, u, 1, m)
           t == Cells(p, u, m + 1, m + k)
           st == Cells(p, u, 1, m + k)
<1>1. s \in Seq(Cell) /\ Len(s) = m /\ \A i \in 1..m : s[i] = <<p, u, i>>
  BY CellsFromOne
<1>2. t \in Seq(Cell) /\ Len(t) = k /\ \A i \in 1..k : t[i] = <<p, u, m + i>>
  <2>1. m + 1 \in Nat /\ m + k \in Nat /\ (m + k) - (m + 1) + 1 = k
    OBVIOUS
  <2>2. t \in Seq(Cell) /\ Len(t) = k
    <3>1. IsRun(t, p, u, m + 1, k)
      BY <2>1, CellsRun, Zenon
    <3> HIDE DEF t
    <3> QED
      BY <3>1 DEF IsRun
  <2>3. \A i \in 1..k : t[i] = <<p, u, (m + 1) + i - 1>>
    BY <2>1 DEF Cells
  <2> QED
    BY <2>2, <2>3
<1>3. st \in Seq(Cell) /\ Len(st) = m + k /\ \A i \in 1..(m + k) : st[i] = <<p, u, i>>
  <2>1. m + k \in Nat
    OBVIOUS
  <2> QED
    BY <2>1, CellsFromOne, ZenonT(60)
<1> HIDE DEF s, t, st
<1> DEFINE joined == s \o t
<1>4. /\ joined \in Seq(Cell) /\ Len(joined) = m + k
      /\ \A i \in 1..(m + k) : joined[i] = IF i <= m THEN s[i] ELSE t[i - m]
  BY <1>1, <1>2, ConcatProperties
<1> HIDE DEF joined
<1>5. ASSUME NEW i \in 1..(m + k) PROVE joined[i] = st[i]
  <2>1. CASE i <= m
    <3>1. i \in 1..m
      BY <2>1
    <3> QED
      BY <2>1, <3>1, <1>1, <1>3, <1>4
  <2>2. CASE i > m
    <3>1. i - m \in 1..k /\ m + (i - m) = i /\ ~(i <= m)
      BY <2>2
    <3>2. t[i - m] = <<p, u, i>>
      BY <3>1, <1>2
    <3> QED
      BY <3>1, <3>2, <1>3, <1>4
  <2> QED
    BY <2>1, <2>2
<1>6. joined = st
  BY <1>3, <1>4, <1>5, SeqEqual
<1> QED
  BY <1>6 DEF s, t, st, joined

LEMMA PayloadIsCopied ==
  ASSUME NEW p \in Pids, NEW start \in BOOLEAN, NEW flags \in AfFlags \cup {Plain}, NEW head,
         NEW payload \in Seq(Cell), Len(payload) \in 1..MaxPayload
  PROVE  LET pkt == PayloadPacket(p, start, flags, head, payload)
         IN  BytesFrom(pkt, parseTsPacketInfo(pkt).payloadStartOffset) = payload
<1> DEFINE pkt == PayloadPacket(p, start, flags, head, payload)
           offset == TsPacketSize - Len(payload)
           copied == SubSeq(pkt.bytes, offset + 1, TsPacketSize)
<1>1. /\ pkt.bytes \in Seq(Cell) /\ Len(pkt.bytes) = TsPacketSize
      /\ Offset(pkt) = offset
      /\ \A i \in DOMAIN payload : pkt.bytes[Offset(pkt) + i] = payload[i]
  BY PayloadIsFound
<1>2. /\ TsPacketSize \in Nat /\ Len(payload) \in Nat \ {0} /\ Len(payload) <= TsPacketSize
      /\ DOMAIN payload = 1..Len(payload) /\ offset \in Nat
  BY PacketAssumption DEF MaxPayload
<1> HIDE DEF pkt
<1>3. /\ copied \in Seq(Cell) /\ Len(copied) = Len(payload)
      /\ \A i \in 1..Len(payload) : copied[i] = pkt.bytes[offset + i]
  <2>1. \A i \in (offset + 1)..TsPacketSize : pkt.bytes[i] \in Cell
    BY <1>1, <1>2
  <2>2. offset + 1 \in Int /\ TsPacketSize \in Int
        /\ TsPacketSize - (offset + 1) + 1 = Len(payload) /\ offset + 1 <= TsPacketSize
    BY <1>2
  <2> HIDE DEF offset
  <2>3. /\ copied \in Seq(Cell) /\ Len(copied) = TsPacketSize - (offset + 1) + 1
        /\ \A i \in 1..(TsPacketSize - (offset + 1) + 1) :
             copied[i] = pkt.bytes[(offset + 1) + i - 1]
    BY <2>1, <2>2, SubSeqProperties
  <2>4. \A i \in 1..Len(payload) : (offset + 1) + i - 1 = offset + i
    BY <1>2, <2>2
  <2> HIDE DEF copied
  <2> QED
    BY <2>2, <2>3, <2>4
<1>4. \A i \in 1..Len(copied) : copied[i] = payload[i]
  BY <1>1, <1>2, <1>3
<1> HIDE DEF copied
<1>5. copied = payload
  BY <1>3, <1>4, SeqEqual
<1> QED
  BY <1>1, <1>5 DEF copied, Offset, BytesFrom, pkt

-----------------------------------------------------------------------------
(* The units of a PID as UnitDelivery has them *)

\* A unit begins, or the last one grows by k cells.
Begun(list, new) ==
  Len(new) = Len(list) + 1 /\ \A u \in 1..Len(list) : new[u] = list[u]

GrownBy(list, new, k) ==
  /\ Len(new) = Len(list) /\ \A u \in 1..(Len(list) - 1) : new[u] = list[u]
  /\ new[Len(list)].head = list[Len(list)].head
  /\ new[Len(list)].sent = list[Len(list)].sent + k

\* What UnitDelivery takes for the units sent on a PID.
SentUnits(p, list) == [u \in DOMAIN list |-> Cells(p, u, 1, list[u].sent)]

LEMMA UnitsAreSeqs ==
  ASSUME NEW p \in Pids, NEW list \in Seq(UnitRecord)
  PROVE  /\ SentUnits(p, list) \in Seq(Seq(Cell)) /\ Len(SentUnits(p, list)) = Len(list)
         /\ \A u \in 1..Len(list) : SentUnits(p, list)[u] = Cells(p, u, 1, list[u].sent)
<1>1. DOMAIN list = 1..Len(list) /\ Len(list) \in Nat
  OBVIOUS
<1>2. ASSUME NEW u \in DOMAIN list PROVE Cells(p, u, 1, list[u].sent) \in Seq(Cell)
  <2>1. list[u] \in UnitRecord /\ u \in Nat
    BY <1>1
  <2>2. list[u].sent \in Nat
    BY <2>1 DEF UnitRecord
  <2> QED
    BY <2>1, <2>2, CellsFromOne
<1>3. SentUnits(p, list) \in [1..Len(list) -> Seq(Cell)]
  BY <1>1, <1>2 DEF SentUnits
<1>4. SentUnits(p, list) \in Seq(Seq(Cell)) /\ Len(SentUnits(p, list)) = Len(list)
  BY <1>1, <1>3
<1> QED
  BY <1>1, <1>4 DEF SentUnits

\* A unit that begins is one more.
LEMMA BegunMeans ==
  ASSUME NEW p \in Pids, NEW list \in Seq(UnitRecord), NEW new \in Seq(UnitRecord),
         Begun(list, new)
  PROVE  SentUnits(p, new) # <<>> /\ Front(SentUnits(p, new)) = SentUnits(p, list)
<1> DEFINE s == SentUnits(p, list)
           t == SentUnits(p, new)
<1>1. /\ Len(list) \in Nat /\ Len(new) = Len(list) + 1
      /\ \A u \in 1..Len(list) : new[u] = list[u]
  BY DEF Begun
<1>2. /\ s \in Seq(Seq(Cell)) /\ Len(s) = Len(list)
      /\ \A u \in 1..Len(list) : s[u] = Cells(p, u, 1, list[u].sent)
      /\ t \in Seq(Seq(Cell)) /\ Len(t) = Len(new)
      /\ \A u \in 1..Len(new) : t[u] = Cells(p, u, 1, new[u].sent)
  BY UnitsAreSeqs
<1> HIDE DEF s, t
<1>3. Len(s) <= Len(t) /\ \A u \in 1..Len(s) : t[u] = s[u]
  <2>1. Len(s) <= Len(t)
    BY <1>1, <1>2
  <2>2. ASSUME NEW u \in 1..Len(s) PROVE t[u] = s[u]
    <3>1. u \in 1..Len(list) /\ u \in 1..Len(new)
      BY <1>1, <1>2
    <3>2. s[u] = Cells(p, u, 1, list[u].sent) /\ t[u] = Cells(p, u, 1, new[u].sent)
      BY <1>2, <3>1
    <3> QED
      BY <1>1, <3>1, <3>2
  <2> QED
    BY <2>1, <2>2
<1>4. SubSeq(t, 1, Len(s)) = s
  BY <1>2, <1>3, PrefixByElements
<1>5. t # <<>> /\ Len(s) = Len(t) - 1
  BY <1>1, <1>2
<1>6. t # <<>> /\ Front(t) = s
  BY <1>4, <1>5 DEF Front
<1> QED
  BY <1>6 DEF s, t

\* The unit under way grows at its end.
LEMMA GrownMeans ==
  ASSUME NEW p \in Pids, NEW list \in Seq(UnitRecord), NEW new \in Seq(UnitRecord),
         list # <<>>, NEW k \in Nat, GrownBy(list, new, k)
  PROVE  LET s == SentUnits(p, list)
             t == SentUnits(p, new)
         IN  Len(s) = Len(list) /\ Len(t) = Len(s) /\ Front(t) = Front(s) /\ IsPrefix(Last(s), Last(t))
<1> DEFINE s == SentUnits(p, list)
           t == SentUnits(p, new)
           N == Len(list)
           m == list[N].sent
<1>1. /\ N \in Nat \ {0} /\ Len(new) = N /\ \A u \in 1..(N - 1) : new[u] = list[u]
      /\ new[N].sent = m + k /\ m \in Nat
  <2>1. N \in Nat \ {0} /\ N \in DOMAIN list
    OBVIOUS
  <2>2. list[N] \in UnitRecord
    BY <2>1
  <2>3. m \in Nat
    BY <2>2 DEF UnitRecord
  <2> QED
    BY <2>1, <2>3 DEF GrownBy
<1>2. /\ s \in Seq(Seq(Cell)) /\ Len(s) = N
      /\ \A u \in 1..N : s[u] = Cells(p, u, 1, list[u].sent)
      /\ t \in Seq(Seq(Cell)) /\ Len(t) = Len(new)
      /\ \A u \in 1..Len(new) : t[u] = Cells(p, u, 1, new[u].sent)
  BY UnitsAreSeqs
<1>3. s[N] = Cells(p, N, 1, m) /\ t[N] = Cells(p, N, 1, m + k)
  BY <1>1, <1>2
<1> HIDE DEF s, t, N, m
<1>4. IsPrefix(s[N], t[N])
  <2> DEFINE a == Cells(p, N, 1, m)
             n == m + k
             b == Cells(p, N, 1, n)
  <2>1. /\ a \in Seq(Cell) /\ Len(a) = m /\ \A i \in 1..m : a[i] = <<p, N, i>>
    BY <1>1, CellsFromOne
  <2>2. n \in Nat /\ m <= n
    BY <1>1
  <2> HIDE DEF n
  <2>3. /\ b \in Seq(Cell) /\ Len(b) = n /\ \A i \in 1..n : b[i] = <<p, N, i>>
    BY <1>1, <2>2, CellsFromOne
  <2> HIDE DEF a, b
  <2>4. Len(a) <= Len(b) /\ \A i \in 1..Len(a) : b[i] = a[i]
    <3>1. \A i \in 1..m : i \in 1..n
      BY <1>1, <2>2
    <3> QED
      BY <2>1, <2>2, <2>3, <3>1
  <2>5. IsPrefix(a, b)
    BY <2>1, <2>3, <2>4, PrefixByElements
  <2> QED
    BY <1>3, <2>5 DEF a, b, n
<1>5. SubSeq(t, 1, N - 1) = SubSeq(s, 1, N - 1)
  <2> DEFINE a == SubSeq(s, 1, N - 1)
             b == SubSeq(t, 1, N - 1)
             n == N - 1
  <2>1. n \in Nat /\ n \in Int /\ 1 \in Int /\ n - 1 + 1 = n
    BY <1>1
  <2>2. ASSUME NEW i \in 1..n PROVE s[i] \in Seq(Cell) /\ t[i] = s[i]
    <3>1. i \in 1..N /\ i \in 1..(N - 1)
      BY <1>1
    <3>2. s[i] = Cells(p, i, 1, list[i].sent) /\ t[i] = Cells(p, i, 1, new[i].sent)
      BY <1>1, <1>2, <3>1
    <3>3. s[i] \in Seq(Cell)
      BY <1>2, <3>1
    <3> QED
      BY <1>1, <3>1, <3>2, <3>3
  <2>3. /\ a \in Seq(Seq(Cell)) /\ Len(a) = IF 1 <= n THEN n - 1 + 1 ELSE 0
        /\ \A i \in 1..(n - 1 + 1) : a[i] = s[1 + i - 1]
    BY <2>1, <2>2, SubSeqProperties
  <2>4. /\ b \in Seq(Seq(Cell)) /\ Len(b) = IF 1 <= n THEN n - 1 + 1 ELSE 0
        /\ \A i \in 1..(n - 1 + 1) : b[i] = t[1 + i - 1]
    BY <2>1, <2>2, SubSeqProperties
  <2> HIDE DEF a, b, n
  <2>5. Len(a) = n /\ Len(b) = n /\ \A i \in 1..n : b[i] = a[i]
    <3>1. \A i \in 1..n : 1 + i - 1 = i
      BY <2>1
    <3> QED
      BY <2>1, <2>2, <2>3, <2>4, <3>1
  <2>6. b = a
    BY <2>3, <2>4, <2>5, SeqEqual
  <2> QED
    BY <2>6 DEF a, b
<1>6. Len(s) = N /\ Len(t) = Len(s) /\ Front(t) = Front(s) /\ IsPrefix(Last(s), Last(t))
  BY <1>1, <1>2, <1>4, <1>5 DEF Front, Last
<1> QED
  BY <1>6 DEF s, t, N

-----------------------------------------------------------------------------
(* Continuity counters *)

LEMMA Divided ==
  ASSUME NEW x \in Nat
  PROVE  /\ x % CCModulus \in 0..(CCModulus - 1) /\ x \div CCModulus \in Nat
         /\ x = CCModulus * (x \div CCModulus) + (x % CCModulus)
BY CCAssumption

LEMMA RemainderIsUnique ==
  ASSUME NEW x \in Nat, NEW q \in Int, NEW r \in 0..(CCModulus - 1), x = CCModulus * q + r
  PROVE  x % CCModulus = r
BY CCAssumption

\* A counter after n more packets with payload: it comes round once at most
\* beyond the whole rounds.
LEMMA CounterAfter ==
  ASSUME NEW c \in 0..(CCModulus - 1), NEW n \in Nat
  PROVE  LET r == n % CCModulus
         IN  (c + n) % CCModulus = IF c + r < CCModulus THEN c + r ELSE c + r - CCModulus
<1> DEFINE q == n \div CCModulus
           r == n % CCModulus
<1>0. CCModulus \in Nat /\ CCModulus > 2
  BY CCAssumption
<1>1. r \in 0..(CCModulus - 1) /\ n = CCModulus * q + r /\ q \in Nat
  BY Divided
<1> HIDE DEF q, r
<1>2. CASE c + r < CCModulus
  <2>1. /\ c + n \in Nat /\ q \in Int /\ c + r \in 0..(CCModulus - 1)
        /\ c + n = CCModulus * q + (c + r)
    BY <1>0, <1>1, <1>2
  <2>2. (c + n) % CCModulus = c + r
    BY ONLY <2>1, RemainderIsUnique
  <2> QED
    BY <1>2, <2>2 DEF r
<1>3. CASE c + r >= CCModulus
  <2>1. CCModulus * (q + 1) = CCModulus * q + CCModulus
    BY <1>0, <1>1
  <2>2. /\ c + n \in Nat /\ q + 1 \in Int /\ c + r - CCModulus \in 0..(CCModulus - 1)
        /\ c + n = CCModulus * (q + 1) + (c + r - CCModulus)
    BY <1>0, <1>1, <1>3, <2>1
  <2>3. (c + n) % CCModulus = c + r - CCModulus
    BY ONLY <2>2, RemainderIsUnique
  <2>4. ~(c + r < CCModulus)
    BY <1>0, <1>1, <1>3
  <2> QED
    BY <2>3, <2>4 DEF r
<1> QED
  BY <1>0, <1>1, <1>2, <1>3

\* One packet after n of them.
LEMMA AdvanceAfter ==
  ASSUME NEW x \in Nat
  PROVE  Advance(x % CCModulus) = (x + 1) % CCModulus
<1> DEFINE q == x \div CCModulus
           r == x % CCModulus
<1>0. CCModulus \in Nat /\ CCModulus > 2
  BY CCAssumption
<1>1. r \in 0..(CCModulus - 1) /\ x = CCModulus * q + r /\ q \in Nat
  BY Divided
<1> HIDE DEF q, r
<1>2. CASE r + 1 < CCModulus
  <2>1. /\ x + 1 \in Nat /\ q \in Int /\ r + 1 \in 0..(CCModulus - 1) /\ r + 1 \in Nat
        /\ x + 1 = CCModulus * q + (r + 1)
        /\ 0 \in Int /\ r + 1 = CCModulus * 0 + (r + 1)
    BY <1>0, <1>1, <1>2
  <2>2. (x + 1) % CCModulus = r + 1
    BY ONLY <2>1, RemainderIsUnique
  <2>3. (r + 1) % CCModulus = r + 1
    BY ONLY <2>1, RemainderIsUnique
  <2> QED
    BY <2>2, <2>3 DEF r, Advance
<1>3. CASE r + 1 = CCModulus
  <2>1. CCModulus * (q + 1) = CCModulus * q + CCModulus /\ CCModulus * 1 = CCModulus
    BY <1>0, <1>1
  <2>2. /\ x + 1 \in Nat /\ q + 1 \in Int /\ 0 \in 0..(CCModulus - 1) /\ r + 1 \in Nat
        /\ x + 1 = CCModulus * (q + 1) + 0
        /\ 1 \in Int /\ r + 1 = CCModulus * 1 + 0
    BY <1>0, <1>1, <1>3, <2>1
  <2>3. (x + 1) % CCModulus = 0
    BY ONLY <2>2, RemainderIsUnique
  <2>4. (r + 1) % CCModulus = 0
    BY ONLY <2>2, RemainderIsUnique
  <2> QED
    BY <2>3, <2>4 DEF r, Advance
<1> QED
  BY <1>0, <1>1, <1>2, <1>3

\* checkCCError takes a counter for the next one, or the same, when the number
\* of packets since is 0 or 1 but for whole rounds.
LEMMA CounterTells ==
  ASSUME NEW c \in 0..(CCModulus - 1), NEW n \in Nat
  PROVE  CCInSequence(c, (c + n) % CCModulus) <=> n % CCModulus \in {0, 1}
<1> DEFINE r == n % CCModulus
           k == (c + n) % CCModulus
           next == (c + 1) % CCModulus
<1>0. CCModulus \in Nat /\ CCModulus > 2 /\ c # INVALID_CC
  BY CCAssumption DEF INVALID_CC
<1>1. r \in 0..(CCModulus - 1)
  BY Divided
<1>2. k = IF c + r < CCModulus THEN c + r ELSE c + r - CCModulus
  BY CounterAfter
<1>3. 1 % CCModulus = 1
  <2>1. 1 \in Nat /\ 0 \in Int /\ 1 \in 0..(CCModulus - 1) /\ 1 = CCModulus * 0 + 1
    BY <1>0
  <2> QED
    BY ONLY <2>1, RemainderIsUnique
<1>4. next = IF c + 1 < CCModulus THEN c + 1 ELSE c + 1 - CCModulus
  <2>1. 1 \in Nat
    OBVIOUS
  <2> QED
    BY <1>3, <2>1, CounterAfter
<1> HIDE DEF r, k, next
<1>5. k = c <=> r = 0
  BY <1>0, <1>1, <1>2
<1>6. k = next <=> r = 1
  BY <1>0, <1>1, <1>2, <1>4
<1>7. CCInSequence(c, k) <=> (k = c \/ k = next)
  BY <1>0 DEF CCInSequence, NextCC, next
<1>8. CCInSequence(c, k) <=> r \in {0, 1}
  BY <1>5, <1>6, <1>7
<1> QED
  BY <1>8 DEF r, k

-----------------------------------------------------------------------------
(* Folds *)

\* Induction, about a set of numbers.
LEMMA AllNumbers ==
  ASSUME NEW S \in SUBSET Nat, 0 \in S, \A n \in S : n + 1 \in S
  PROVE  S = Nat
<1> SUFFICES ASSUME S # Nat PROVE FALSE
  OBVIOUS
<1> DEFINE T == Nat \ S
<1>1. T \subseteq Nat /\ T # {}
  OBVIOUS
<1>2. PICK x \in T : \A y \in T : ~(<<y, x>> \in OpToRel(<, Nat))
  BY <1>1, NatLessThanWellFounded, WFMin
<1>3. \A y \in T : ~(y < x)
  BY <1>1, <1>2 DEF OpToRel
<1>4. x \in Nat /\ x \notin S
  BY <1>2
<1>5. x # 0
  BY <1>4
<1>6. x - 1 \in Nat /\ x - 1 < x /\ x - 1 + 1 = x
  BY <1>4, <1>5
<1>7. x - 1 \in S
  BY <1>3, <1>6
<1> QED
  BY <1>4, <1>6, <1>7

\* What Max takes away from a set of positions.
LEMMA MaxOfPositions ==
  ASSUME NEW n \in Nat, NEW s \in SUBSET (1..(n + 1)), s # {}
  PROVE  Max(s) \in s /\ s \ {Max(s)} \in SUBSET (1..n)
<1> DEFINE T == {y \in Nat : \E x \in s : y = n + 1 - x}
<1>1. T \subseteq Nat /\ T # {}
  <2>1. PICK x \in s : TRUE
    OBVIOUS
  <2>2. x \in 1..(n + 1)
    BY <2>1
  <2>3. n + 1 - x \in Nat
    BY <2>2
  <2> QED
    BY <2>1, <2>3
<1>2. PICK y \in T : \A z \in T : ~(<<z, y>> \in OpToRel(<, Nat))
  <2> HIDE DEF T
  <2> QED
    BY <1>1, NatLessThanWellFounded, WFMin
<1>3. \A z \in T : ~(z < y)
  BY <1>1, <1>2 DEF OpToRel
<1>4. PICK x \in s : y = n + 1 - x
  BY <1>2
<1>5. \A z \in s : x >= z
  <2> SUFFICES ASSUME NEW z \in s PROVE x >= z
    OBVIOUS
  <2>1. z \in 1..(n + 1) /\ x \in 1..(n + 1)
    OBVIOUS
  <2>2. n + 1 - z \in T
    BY <2>1
  <2>3. ~(n + 1 - z < n + 1 - x)
    BY <1>3, <1>4, <2>2
  <2> QED
    BY <2>1, <2>3
<1> HIDE DEF T
<1>6. PICK m : m = Max(s) /\ m \in s /\ \A z \in s : m >= z
  BY <1>4, <1>5 DEF Max
<1>7. ASSUME NEW z \in s, z # m PROVE z \in 1..n
  <2>1. z \in 1..(n + 1) /\ m \in 1..(n + 1) /\ m >= z
    BY <1>6
  <2> QED
    BY <1>7, <2>1
<1> QED
  BY <1>6, <1>7

LEMMA PositionsAreBelow ==
  ASSUME NEW n \in Nat, NEW s \in SUBSET (1..n), s # {}
  PROVE  \E m \in Nat : n = m + 1
<1>1. n # 0
  <2> SUFFICES ASSUME n = 0 PROVE s = {}
    OBVIOUS
  <2>1. \A i : i \notin 1..n
    OBVIOUS
  <2> QED
    BY <2>1
<1>2. n - 1 \in Nat /\ n = n - 1 + 1
  BY <1>1
<1> QED
  BY <1>2

LEMMA MaxOfFirst ==
  ASSUME NEW n \in Nat
  PROVE  Max(1..(n + 1)) = n + 1 /\ (1..(n + 1)) \ {Max(1..(n + 1))} = 1..n
<1>1. Max(1..(n + 1)) = n + 1
  BY DEF Max
<1> QED
  BY <1>1

\* The recursive function that a fold is.
IsFold(iter, k, n, base, op) ==
  \A s \in SUBSET (1..n) : s \subseteq 1..k =>
    iter[s] = IF s = {} THEN base ELSE op[Max(s)][iter[s \ {Max(s)}]]

LEMMA FoldGrows ==
  ASSUME NEW n \in Nat, NEW Acc, NEW base \in Acc, NEW op \in [1..n -> [Acc -> Acc]],
         NEW k \in Nat, k + 1 <= n, NEW g \in [SUBSET (1..n) -> Acc], IsFold(g, k, n, base, op)
  PROVE  \E iter \in [SUBSET (1..n) -> Acc] : IsFold(iter, k + 1, n, base, op)
<1> DEFINE more == [s \in SUBSET (1..n) |->
                      IF s \subseteq 1..(k + 1) /\ s # {} THEN op[Max(s)][g[s \ {Max(s)}]] ELSE base]
<1>1. ASSUME NEW s \in SUBSET (1..n), s \subseteq 1..(k + 1), s # {}
      PROVE  /\ Max(s) \in 1..n /\ s \ {Max(s)} \in SUBSET (1..n)
             /\ s \ {Max(s)} \subseteq 1..k
  <2>1. Max(s) \in s /\ s \ {Max(s)} \in SUBSET (1..k)
    BY <1>1, MaxOfPositions
  <2> QED
    BY <2>1
<1>2. more \in [SUBSET (1..n) -> Acc]
  <2>1. ASSUME NEW s \in SUBSET (1..n), s \subseteq 1..(k + 1), s # {}
        PROVE  op[Max(s)][g[s \ {Max(s)}]] \in Acc
    <3>1. g[s \ {Max(s)}] \in Acc /\ op[Max(s)] \in [Acc -> Acc]
      BY <1>1, <2>1
    <3> QED
      BY <3>1
  <2> QED
    BY <2>1
<1>3. ASSUME NEW s \in SUBSET (1..n), s \subseteq 1..(k + 1), s # {}
      PROVE  more[s] = op[Max(s)][g[s \ {Max(s)}]]
  BY <1>3
<1>4. ASSUME NEW s \in SUBSET (1..n), s \subseteq 1..k PROVE more[s] = g[s]
  <2>1. s \subseteq 1..(k + 1)
    BY <1>4
  <2>2. CASE s = {}
    BY <2>2 DEF IsFold
  <2>3. CASE s # {}
    <3>1. g[s] = op[Max(s)][g[s \ {Max(s)}]]
      BY <1>4, <2>3 DEF IsFold
    <3> HIDE DEF more
    <3> QED
      BY <1>3, <2>1, <2>3, <3>1
  <2> QED
    BY <2>2, <2>3
<1>5. more[{}] = base
  OBVIOUS
<1> HIDE DEF more
<1>6. ASSUME NEW s \in SUBSET (1..n), s \subseteq 1..(k + 1)
      PROVE  more[s] = IF s = {} THEN base ELSE op[Max(s)][more[s \ {Max(s)}]]
  <2>1. CASE s = {}
    BY <1>5, <2>1
  <2>2. CASE s # {}
    <3>1. more[s \ {Max(s)}] = g[s \ {Max(s)}]
      BY <1>1, <1>4, <1>6, <2>2
    <3>2. more[s] = op[Max(s)][g[s \ {Max(s)}]]
      BY <1>3, <1>6, <2>2
    <3> QED
      BY <2>2, <3>1, <3>2
  <2> QED
    BY <2>1, <2>2
<1> QED
  BY <1>2, <1>6 DEF IsFold

LEMMA FoldExists ==
  ASSUME NEW n \in Nat, NEW Acc, NEW base \in Acc, NEW op \in [1..n -> [Acc -> Acc]]
  PROVE  \E iter \in [SUBSET (1..n) -> Acc] : IsFold(iter, n, n, base, op)
<1> DEFINE S == {k \in Nat : k <= n => \E g \in [SUBSET (1..n) -> Acc] : IsFold(g, k, n, base, op)}
<1>1. 0 \in S
  <2> DEFINE g == [s \in SUBSET (1..n) |-> base]
  <2>1. \A s \in SUBSET (1..n) : s \subseteq 1..0 => s = {}
    OBVIOUS
  <2>2. IsFold(g, 0, n, base, op)
    BY <2>1 DEF IsFold
  <2>3. g \in [SUBSET (1..n) -> Acc]
    OBVIOUS
  <2> HIDE DEF g
  <2> QED
    BY <2>2, <2>3
<1>2. ASSUME NEW k \in S PROVE k + 1 \in S
  <2>1. k \in Nat /\ k + 1 \in Nat
    OBVIOUS
  <2>2. ASSUME k + 1 <= n
        PROVE  \E iter \in [SUBSET (1..n) -> Acc] : IsFold(iter, k + 1, n, base, op)
    <3>1. k <= n
      BY <2>1, <2>2
    <3>2. PICK g \in [SUBSET (1..n) -> Acc] : IsFold(g, k, n, base, op)
      BY <3>1
    <3> QED
      BY <2>1, <2>2, <3>2, FoldGrows
  <2> QED
    BY <2>1, <2>2
<1>3. S \in SUBSET Nat
  OBVIOUS
<1>4. n \in S
  <2> HIDE DEF S
  <2> QED
    BY <1>1, <1>2, <1>3, AllNumbers
<1>5. n <= n
  OBVIOUS
<1> QED
  BY <1>4, <1>5

-----------------------------------------------------------------------------
(* How many cells have been sent *)

LEMMA CellsAreCounted ==
  ASSUME NEW T, NEW list \in Seq(T), \A x \in T : x.sent \in Nat
  PROVE  CellsOf(list) \in Nat
<1>1. PICK n \in Nat : n = Len(list) /\ DOMAIN list = 1..n
  OBVIOUS
<1>2. \A i \in 1..n : list[i].sent \in Nat
  BY <1>1
<1> DEFINE Iter(iter) ==
             iter = [s \in SUBSET DOMAIN list |->
                       IF s = {} THEN 0 ELSE iter[s \ {Max(s)}] + list[Max(s)].sent]
           op == [i \in 1..n |-> [acc \in Nat |-> acc + list[i].sent]]
<1>3. op \in [1..n -> [Nat -> Nat]]
  <2>1. ASSUME NEW i \in 1..n, NEW acc \in Nat PROVE acc + list[i].sent \in Nat
    BY <1>2
  <2> QED
    BY <2>1
<1>4. \A i \in 1..n : \A acc \in Nat : op[i][acc] = acc + list[i].sent
  OBVIOUS
<1> HIDE DEF op
<1>5. PICK g \in [SUBSET (1..n) -> Nat] : IsFold(g, n, n, 0, op)
  BY <1>3, FoldExists
<1>6. Iter(g)
  <2>1. ASSUME NEW s \in SUBSET (1..n)
        PROVE  g[s] = IF s = {} THEN 0 ELSE g[s \ {Max(s)}] + list[Max(s)].sent
    <3>1. CASE s = {}
      BY <1>5, <3>1 DEF IsFold
    <3>2. CASE s # {}
      <4>1. PICK m \in Nat : n = m + 1
        BY <3>2, PositionsAreBelow
      <4>2. Max(s) \in s /\ s \ {Max(s)} \in SUBSET (1..m)
        BY <3>2, <4>1, MaxOfPositions
      <4>3. Max(s) \in 1..n /\ g[s \ {Max(s)}] \in Nat
        BY <1>5, <4>2
      <4>4. g[s] = op[Max(s)][g[s \ {Max(s)}]]
        BY <1>5, <3>2 DEF IsFold
      <4> QED
        BY <1>4, <3>2, <4>3, <4>4
    <3> QED
      BY <3>1, <3>2
  <2> QED
    BY <1>1, <1>5, <2>1
<1>7. PICK f : Iter(f) /\ CellsOf(list) = f[1..n]
  <2>1. CellsOf(list) = (CHOOSE iter : Iter(iter))[DOMAIN list]
    BY DEF CellsOf, FoldLeft, MapThenFoldSet
  <2> HIDE DEF Iter
  <2> QED
    BY <1>1, <1>6, <2>1
<1>8. ASSUME NEW k \in Nat, k + 1 <= n, f[1..k] \in Nat
      PROVE  f[1..(k + 1)] \in Nat
  <2>1. /\ 1..(k + 1) \in SUBSET DOMAIN list /\ 1..(k + 1) # {} /\ k + 1 \in 1..n
    BY <1>1, <1>8
  <2>2. Max(1..(k + 1)) = k + 1 /\ (1..(k + 1)) \ {Max(1..(k + 1))} = 1..k
    BY MaxOfFirst
  <2> DEFINE s == 1..(k + 1)
  <2>3. f[s] = f[s \ {Max(s)}] + list[Max(s)].sent
    <3> HIDE DEF s
    <3> SUFFICES s \in SUBSET DOMAIN list /\ s # {}
      BY <1>7
    <3> QED
      BY <2>1 DEF s
  <2>4. f[1..(k + 1)] = f[1..k] + list[k + 1].sent
    BY <2>2, <2>3
  <2>5. list[k + 1].sent \in Nat
    BY <1>2, <2>1
  <2> HIDE DEF s
  <2> QED
    BY <1>8, <2>4, <2>5
<1>9. f[1..0] = 0
  <2>1. 1..0 = {} /\ {} \in SUBSET DOMAIN list
    OBVIOUS
  <2>2. f[{}] = 0
    BY <1>7, <2>1
  <2> QED
    BY <2>1, <2>2
<1> HIDE DEF Iter
<1> DEFINE R == {k \in Nat : k <= n => f[1..k] \in Nat}
<1>10. 0 \in R
  BY <1>9
<1>11. ASSUME NEW k \in R PROVE k + 1 \in R
  <2> SUFFICES ASSUME k + 1 <= n PROVE f[1..(k + 1)] \in Nat
    OBVIOUS
  <2>1. k \in Nat /\ k <= n /\ f[1..k] \in Nat
    OBVIOUS
  <2> QED
    BY <1>8, <2>1
<1>12. R = Nat
  <2>1. R \in SUBSET Nat
    OBVIOUS
  <2> HIDE DEF R
  <2> QED
    BY <1>10, <1>11, <2>1, AllNumbers
<1> QED
  BY <1>7, <1>12

-----------------------------------------------------------------------------
(* What is picked of a list *)

\* Picked goes through the list.
IsWalk(h, n, T, list, S) ==
  /\ h \in [0..n -> Seq(T)] /\ h[0] = <<>>
  /\ \A k \in 0..(n - 1) :
       h[k + 1] = IF list[k + 1] \in S THEN Append(h[k], list[k + 1]) ELSE h[k]

\* What of T is in S.
Both(T, S) == T \cap S

LEMMA PickedSteps ==
  ASSUME NEW T, NEW list \in Seq(T), NEW S, NEW U, U = Both(T, S), NEW n, n = Len(list)
  PROVE  \E h : IsWalk(h, n, U, list, S) /\ Picked(list, S) = h[n]
<1>1. n \in Nat /\ DOMAIN list = 1..n /\ \A i \in 1..n : list[i] \in T
  OBVIOUS
<1> DEFINE Iter(iter) ==
             iter = [s \in SUBSET DOMAIN list |->
                       IF s = {} THEN <<>>
                       ELSE IF list[Max(s)] \in S THEN Append(iter[s \ {Max(s)}], list[Max(s)])
                            ELSE iter[s \ {Max(s)}]]
           op == [i \in 1..n |-> [acc \in Seq(U) |->
                    IF list[i] \in S THEN Append(acc, list[i]) ELSE acc]]
<1>2. op \in [1..n -> [Seq(U) -> Seq(U)]]
  <2>1. ASSUME NEW i \in 1..n, NEW acc \in Seq(U)
        PROVE  (IF list[i] \in S THEN Append(acc, list[i]) ELSE acc) \in Seq(U)
    BY <1>1 DEF Both
  <2> QED
    BY <2>1
<1>3. \A i \in 1..n : \A acc \in Seq(U) :
         op[i][acc] = IF list[i] \in S THEN Append(acc, list[i]) ELSE acc
  OBVIOUS
<1> HIDE DEF op
<1>4. PICK g \in [SUBSET (1..n) -> Seq(U)] : IsFold(g, n, n, <<>>, op)
  <2>1. <<>> \in Seq(U)
    OBVIOUS
  <2> QED
    BY <1>1, <1>2, <2>1, FoldExists
<1>5. Iter(g)
  <2>1. ASSUME NEW s \in SUBSET (1..n)
        PROVE  g[s] = IF s = {} THEN <<>>
                      ELSE IF list[Max(s)] \in S THEN Append(g[s \ {Max(s)}], list[Max(s)])
                           ELSE g[s \ {Max(s)}]
    <3>1. CASE s = {}
      BY <1>4, <3>1 DEF IsFold
    <3>2. CASE s # {}
      <4>1. PICK m \in Nat : n = m + 1
        BY <1>1, <3>2, PositionsAreBelow
      <4>2. Max(s) \in s /\ s \ {Max(s)} \in SUBSET (1..m)
        BY <3>2, <4>1, MaxOfPositions
      <4>3. Max(s) \in 1..n /\ g[s \ {Max(s)}] \in Seq(U)
        BY <1>4, <4>2
      <4>4. g[s] = op[Max(s)][g[s \ {Max(s)}]]
        BY <1>4, <3>2 DEF IsFold
      <4> QED
        BY <1>3, <3>2, <4>3, <4>4
    <3> QED
      BY <3>1, <3>2
  <2> QED
    BY <1>1, <1>4, <2>1
<1>6. PICK f : Iter(f) /\ Picked(list, S) = f[1..n]
  <2>1. Picked(list, S) = (CHOOSE iter : Iter(iter))[DOMAIN list]
    BY DEF Picked, FoldLeft, MapThenFoldSet
  <2> HIDE DEF Iter
  <2> QED
    BY <1>1, <1>5, <2>1
<1> DEFINE h == [k \in 0..n |-> f[1..k]]
<1>7. ASSUME NEW k \in 0..(n - 1)
      PROVE  f[1..(k + 1)] = IF list[k + 1] \in S THEN Append(f[1..k], list[k + 1]) ELSE f[1..k]
  <2>1. k \in Nat /\ 1..(k + 1) \in SUBSET (1..n) /\ 1..(k + 1) # {}
    BY <1>1
  <2>2. Max(1..(k + 1)) = k + 1 /\ (1..(k + 1)) \ {Max(1..(k + 1))} = 1..k
    BY <2>1, MaxOfFirst
  <2> DEFINE s == 1..(k + 1)
  <2>3. f[s] = IF list[Max(s)] \in S THEN Append(f[s \ {Max(s)}], list[Max(s)])
               ELSE f[s \ {Max(s)}]
    <3> HIDE DEF s
    <3> SUFFICES s \in SUBSET DOMAIN list /\ s # {}
      BY <1>6
    <3> QED
      BY <1>1, <2>1 DEF s
  <2> QED
    BY <2>2, <2>3
<1>8. f[1..0] = <<>>
  <2>1. 1..0 = {} /\ {} \in SUBSET DOMAIN list
    OBVIOUS
  <2>2. f[{}] = <<>>
    BY <1>6, <2>1
  <2> QED
    BY <2>1, <2>2
<1> HIDE DEF Iter
<1>9. \A k \in 0..n : f[1..k] \in Seq(U)
  <2> DEFINE R == {k \in Nat : k <= n => f[1..k] \in Seq(U)}
  <2>1. 0 \in R
    <3>1. <<>> \in Seq(U) /\ 0 \in Nat
      OBVIOUS
    <3> QED
      BY <1>8, <3>1
  <2>2. ASSUME NEW k \in R PROVE k + 1 \in R
    <3> SUFFICES ASSUME k + 1 <= n PROVE f[1..(k + 1)] \in Seq(U)
      OBVIOUS
    <3>1. k \in 0..(n - 1) /\ k <= n /\ k + 1 \in DOMAIN list
      BY <1>1
    <3>2. f[1..k] \in Seq(U) /\ list[k + 1] \in T
      BY <1>1, <3>1
    <3>3. list[k + 1] \in S => Append(f[1..k], list[k + 1]) \in Seq(U)
      BY <3>2 DEF Both
    <3> QED
      BY <1>7, <3>1, <3>2, <3>3
  <2>3. R \in SUBSET Nat
    OBVIOUS
  <2>4. R = Nat
    <3> HIDE DEF R
    <3> QED
      BY <2>1, <2>2, <2>3, AllNumbers
  <2> QED
    BY <1>1, <2>4
<1>10. h \in [0..n -> Seq(U)] /\ Picked(list, S) = h[n] /\ h[0] = <<>>
  BY <1>1, <1>6, <1>8, <1>9
<1>11. \A k \in 0..(n - 1) :
          h[k + 1] = IF list[k + 1] \in S THEN Append(h[k], list[k + 1]) ELSE h[k]
  <2>1. \A k \in 0..(n - 1) : k \in 0..n /\ k + 1 \in 0..n
    BY <1>1
  <2> QED
    BY <1>7, <2>1
<1> HIDE DEF h
<1> QED
  BY <1>10, <1>11 DEF IsWalk

LEMMA PickedOfNone == ASSUME NEW S PROVE Picked(<<>>, S) = <<>>
<1>1. <<>> \in Seq({}) /\ 0 = Len(<<>>)
  OBVIOUS
<1>2. PICK n : n = 0
  OBVIOUS
<1>3. PICK list : list = <<>>
  OBVIOUS
<1>4. list \in Seq({}) /\ n = Len(list)
  BY <1>1, <1>2, <1>3
<1>0. PICK U : U = Both({}, S)
  OBVIOUS
<1>5. PICK h : IsWalk(h, n, U, list, S) /\ Picked(list, S) = h[n]
  BY <1>0, <1>4, PickedSteps
<1>6. h[0] = <<>>
  BY <1>5 DEF IsWalk
<1> QED
  BY <1>2, <1>3, <1>5, <1>6

LEMMA PickedOfAppended ==
  ASSUME NEW T, NEW list \in Seq(T), NEW x \in T, NEW S
  PROVE  /\ Picked(list, S) \in Seq(T \cap S)
         /\ Picked(Append(list, x), S) =
              IF x \in S THEN Append(Picked(list, S), x) ELSE Picked(list, S)
<1> DEFINE more == Append(list, x)
<1>u. PICK U : U = Both(T, S)
  OBVIOUS
<1>0. PICK n, m : n = Len(list) /\ m = n + 1
  OBVIOUS
<1>1. /\ n \in Nat /\ m = Len(more) /\ m - 1 = n /\ more \in Seq(T) /\ Len(more) = n + 1 /\ more[n + 1] = x
      /\ \A k \in 1..n : more[k] = list[k]
  BY <1>0
<1>2. PICK h : IsWalk(h, n, U, list, S) /\ Picked(list, S) = h[n]
  BY <1>u, <1>0, PickedSteps
<1> HIDE DEF more
<1>m. more \in Seq(T) /\ m = Len(more)
  BY <1>1
<1>3. PICK g : IsWalk(g, m, U, more, S) /\ Picked(more, S) = g[m]
  BY <1>u, <1>m, PickedSteps
<1>4. g[n] = h[n]
  <2> DEFINE R == {k \in Nat : k <= n => g[k] = h[k]}
  <2>1. 0 \in R
    BY <1>2, <1>3 DEF IsWalk
  <2>2. ASSUME NEW k \in R PROVE k + 1 \in R
    <3> SUFFICES ASSUME k + 1 <= n PROVE g[k + 1] = h[k + 1]
      OBVIOUS
    <3>1. /\ k \in 0..(n - 1) /\ k \in 0..(m - 1) /\ k <= n /\ k + 1 \in 1..n
      BY <1>1
    <3>2. g[k] = h[k] /\ more[k + 1] = list[k + 1]
      BY <1>1, <3>1
    <3>3. h[k + 1] = IF list[k + 1] \in S THEN Append(h[k], list[k + 1]) ELSE h[k]
      BY <1>2, <3>1 DEF IsWalk
    <3>4. g[k + 1] = IF more[k + 1] \in S THEN Append(g[k], more[k + 1]) ELSE g[k]
      BY <1>3, <3>1 DEF IsWalk
    <3> HIDE DEF R
    <3> QED
      BY <3>2, <3>3, <3>4
  <2>3. R \in SUBSET Nat
    OBVIOUS
  <2>4. R = Nat
    <3> HIDE DEF R
    <3> QED
      BY <2>1, <2>2, <2>3, AllNumbers
  <2> QED
    BY <1>1, <2>4
<1>5. n \in 0..(m - 1) /\ n \in 0..n
  BY <1>1
<1> QED
  BY <1>u, <1>0, <1>1, <1>2, <1>3, <1>4, <1>5 DEF more, IsWalk, Both

\* Nothing else is picked, and nothing is left out.
LEMMA PickedAre ==
  ASSUME NEW T, NEW list \in Seq(T), NEW S
  PROVE  /\ Picked(list, S) \in Seq(T)
         /\ Range(Picked(list, S)) = Range(list) \cap S
<1>u. PICK U : U = Both(T, S)
  OBVIOUS
<1>0. PICK n \in Nat : n = Len(list)
  OBVIOUS
<1>1. PICK h : IsWalk(h, n, U, list, S) /\ Picked(list, S) = h[n]
  BY <1>u, <1>0, PickedSteps
<1>2. \A i \in 1..n : list[i] \in T
  BY <1>0
<1> DEFINE R == {k \in Nat : k <= n => Range(h[k]) = {list[i] : i \in 1..k} \cap S}
<1>3. 0 \in R
  BY <1>1 DEF IsWalk, Range
<1>4. ASSUME NEW k \in R PROVE k + 1 \in R
  <2> SUFFICES ASSUME k + 1 <= n PROVE Range(h[k + 1]) = {list[i] : i \in 1..(k + 1)} \cap S
    OBVIOUS
  <2>1. k \in Nat /\ k <= n /\ k \in 0..n /\ k \in 0..(n - 1) /\ k + 1 \in 1..n
    BY <1>0
  <2>2. Range(h[k]) = {list[i] : i \in 1..k} \cap S
    BY <2>1
  <2>3. PICK x \in T, old \in Seq(U) : x = list[k + 1] /\ old = h[k]
    BY <1>1, <1>2, <2>1 DEF IsWalk
  <2>4. h[k + 1] = IF x \in S THEN Append(old, x) ELSE old
    BY <1>1, <2>1, <2>3 DEF IsWalk
  <2>5. {list[i] : i \in 1..(k + 1)} = {list[i] : i \in 1..k} \cup {x}
    BY <2>1, <2>3
  <2>6. x \in S => Range(Append(old, x)) = Range(old) \cup {x}
    <3> SUFFICES ASSUME x \in S PROVE Range(Append(old, x)) = Range(old) \cup {x}
      OBVIOUS
    <3>1. old \in Seq(U) /\ x \in U
      BY <1>u, <2>3 DEF Both
    <3>2. PICK m \in Nat : m = Len(old)
      BY <3>1
    <3>3. /\ DOMAIN old = 1..m /\ DOMAIN Append(old, x) = 1..(m + 1)
          /\ Append(old, x)[m + 1] = x /\ \A i \in 1..m : Append(old, x)[i] = old[i]
      BY <3>1, <3>2
    <3> QED
      BY <3>2, <3>3 DEF Range
  <2> QED
    BY <2>2, <2>3, <2>4, <2>5, <2>6
<1>5. R \in SUBSET Nat
  OBVIOUS
<1>6. R = Nat
  <2> HIDE DEF R
  <2> QED
    BY <1>3, <1>4, <1>5, AllNumbers
<1>7. Range(h[n]) = {list[i] : i \in 1..n} \cap S
  BY <1>0, <1>6
<1>8. Range(list) = {list[i] : i \in 1..n}
  BY <1>0 DEF Range
<1>9. h[n] \in Seq(U)
  BY <1>0, <1>1 DEF IsWalk
<1>10. h[n] \in Seq(T)
  BY <1>u, <1>9 DEF Both
<1> QED
  BY <1>1, <1>7, <1>8, <1>10
=============================================================================
