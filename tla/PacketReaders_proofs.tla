------------------------ MODULE PacketReaders_proofs -------------------------
(***************************************************************************)
(* What holds of the four loops for every input and every packet size: no  *)
(* byte is given to demux twice, tsparser passes no sync byte by, and of a *)
(* stream of whole packets every one is found.  Two inductive invariants   *)
(* say so.  Reads: what was given to demux is behind the reader, and so is *)
(* every sync byte that tsparser has not found.  InStep: where each loop   *)
(* is in a stream of whole packets.                                        *)
(***************************************************************************)
EXTENDS PacketReaders, WellFoundedInduction, TLAPS

GivenBytes == {b \in Nat : \E k \in DOMAIN packets : b \in Range(packets[k])}

Types ==
  /\ input \in Seq(BOOLEAN) /\ pos \in Nat
  /\ packets \in Seq([1..TsPacketSize -> Nat])

\* A byte that was given is behind the reader, but for the last byte of the
\* input, over which tsparser steps back.
SteppedOver(b) == program = "tsparser" /\ pos = Size - 1 /\ b = Size
Behind == Ends => \A b \in GivenBytes : b <= pos \/ SteppedOver(b)

\* Every sync byte behind tsparser was given.
Covered == program = "tsparser" => \A i \in 1..pos : IsSync(i) => i \in GivenBytes

AtEnd == program = "tsparser" /\ done => NextSyncs = {}

Reads == Types /\ Behind /\ Covered /\ AtEnd /\ NoByteTwice

-----------------------------------------------------------------------------
\* A set of numbers that is not empty has a least one.
LEMMA MinOf ==
  ASSUME NEW S \in SUBSET Nat, S # {}
  PROVE  Min(S) \in S /\ \A y \in S : Min(S) <= y
<1>1. \E x \in S : \A y \in S : ~(<<y, x>> \in OpToRel(<, Nat))
  BY NatLessThanWellFounded, WFMin
<1>2. PICK x \in S : \A y \in S : ~(<<y, x>> \in OpToRel(<, Nat))
  BY <1>1
<1>3. \A y \in S : <<y, x>> \in OpToRel(<, Nat) <=> y < x
  BY DEF OpToRel
<1>4. \A y \in S : x <= y
  <2> SUFFICES ASSUME NEW y \in S PROVE x <= y
    OBVIOUS
  <2>1. x \in Nat /\ y \in Nat
    OBVIOUS
  <2>2. ~(y < x)
    BY <1>2, <1>3
  <2> QED
    BY <2>1, <2>2
<1> QED
  BY <1>4 DEF Min

\* The bytes of a packet follow the place it is taken from.
LEMMA BytesOfPacket ==
  ASSUME NEW from \in Nat, Size \in Nat
  PROVE  /\ PacketAt(from) \in [1..TsPacketSize -> Nat]
         /\ \A b \in Range(PacketAt(from)) :
              b = Stray \/ (b \in (from + 1)..(from + TsPacketSize) /\ b <= Size)
         /\ \A b \in (from + 1)..(from + TsPacketSize) : b <= Size => b \in Range(PacketAt(from))
<1>1. TsPacketSize \in Nat
  BY ReaderAssumption
<1>2. PacketAt(from) \in [1..TsPacketSize -> Nat]
  BY <1>1 DEF PacketAt, Stray
<1>3. ASSUME NEW b \in Range(PacketAt(from))
      PROVE  b = Stray \/ (b \in (from + 1)..(from + TsPacketSize) /\ b <= Size)
  <2>1. PICK i \in 1..TsPacketSize : b = PacketAt(from)[i]
    BY <1>3 DEF Range, PacketAt
  <2>2. b = IF from + i <= Size THEN from + i ELSE Stray
    BY <2>1 DEF PacketAt
  <2>3. from + i \in (from + 1)..(from + TsPacketSize)
    BY <1>1
  <2> QED
    BY <2>2, <2>3
<1>4. ASSUME NEW b \in (from + 1)..(from + TsPacketSize), b <= Size
      PROVE  b \in Range(PacketAt(from))
  <2>1. b - from \in 1..TsPacketSize /\ from + (b - from) = b
    BY <1>1
  <2>2. PacketAt(from)[b - from] = b
    BY <1>4, <2>1 DEF PacketAt
  <2> QED
    BY <2>1, <2>2 DEF Range, PacketAt
<1> QED
  BY <1>2, <1>3, <1>4

\* A packet more: what it adds, and that it adds nothing anew if all that was
\* given lies before it.
LEMMA OneMore ==
  ASSUME Types, NEW from \in Nat, Demux(from)
  PROVE  /\ packets' \in Seq([1..TsPacketSize -> Nat])
         /\ GivenBytes' = GivenBytes \cup {b \in Nat : b \in Range(PacketAt(from))}
         /\ (\A b \in GivenBytes : b <= from) =>
              (NoByteTwice /\ UNCHANGED <<program, input>> => NoByteTwice')
<1>1. /\ packets' = Append(packets, PacketAt(from))
      /\ packets \in Seq([1..TsPacketSize -> Nat]) /\ Size \in Nat
  BY DEF Demux, Types, Size
<1>2. PacketAt(from) \in [1..TsPacketSize -> Nat]
  BY <1>1, BytesOfPacket
<1> DEFINE last == Len(packets) + 1
<1>3. /\ packets' \in Seq([1..TsPacketSize -> Nat])
      /\ DOMAIN packets' = (DOMAIN packets) \cup {last}
      /\ \A k \in DOMAIN packets : packets'[k] = packets[k] /\ k < last
      /\ packets'[last] = PacketAt(from)
      /\ last \in Nat /\ last \notin DOMAIN packets
  BY <1>1, <1>2
<1> HIDE DEF last
<1>4. GivenBytes' = GivenBytes \cup {b \in Nat : b \in Range(PacketAt(from))}
  BY <1>3, Zenon DEF GivenBytes
<1>5. ASSUME \A b \in GivenBytes : b <= from, NoByteTwice, UNCHANGED <<program, input>>
      PROVE  NoByteTwice'
  <2> SUFFICES ASSUME Ends, NEW j \in DOMAIN packets', NEW k \in DOMAIN packets', j < k,
                      NEW b \in Range(packets'[j]) \cap Range(packets'[k])
               PROVE  b = Stray
    BY <1>5 DEF NoByteTwice, Ends, EndsWithSync, IsSync, Size
  <2>1. CASE k = last
    <3>1. j \in DOMAIN packets
      BY <1>3, <2>1
    <3>2. b \in Range(packets[j]) /\ b \in Range(PacketAt(from))
      BY <1>3, <2>1, <3>1
    <3>3. b \in Nat
      BY <1>2, <3>2 DEF Range
    <3>4. b <= from
      BY <1>5, <3>1, <3>2, <3>3 DEF GivenBytes
    <3>5. b = Stray \/ b \in (from + 1)..(from + TsPacketSize)
      BY <1>1, <3>2, BytesOfPacket
    <3> QED
      BY <3>3, <3>4, <3>5, ReaderAssumption
  <2>2. CASE k # last
    <3>1. k \in DOMAIN packets
      BY <1>3, <2>2
    <3>2. j \in DOMAIN packets
      <4>1. j = last => FALSE
        <5>1. k < last /\ k \in Nat /\ last \in Nat
          BY <1>1, <1>3, <3>1
        <5> QED
          BY <5>1
      <4> QED
        BY <1>3, <4>1
    <3>3. b \in Range(packets[j]) \cap Range(packets[k])
      BY <1>3, <3>1, <3>2
    <3> QED
      BY <1>5, <3>1, <3>2, <3>3 DEF NoByteTwice
  <2> QED
    BY <2>1, <2>2
<1> QED
  BY <1>3, <1>4, <1>5

-----------------------------------------------------------------------------
LEMMA ReadsInit == Init => Reads
<1> SUFFICES ASSUME Init PROVE Reads
  OBVIOUS
<1>1. input \in Seq(BOOLEAN)
  BY ReaderAssumption DEF Init
<1>2. GivenBytes = {}
  BY DEF Init, GivenBytes
<1> QED
  BY <1>1, <1>2 DEF Init, Reads, Types, Behind, Covered, AtEnd, NoByteTwice

\* The three loops that go on behind the packet they gave.
LEMMA StepBehind ==
  ASSUME Reads, program # "tsparser", UNCHANGED <<program, input>>,
         NEW from \in Nat, Demux(from), pos' = from + TsPacketSize,
         \A b \in GivenBytes : b <= from
  PROVE  Reads'
<1>1. Types /\ NoByteTwice /\ Size \in Nat /\ TsPacketSize \in Nat
  BY ReaderAssumption DEF Reads, Types, Size
<1>2. Types' /\ NoByteTwice'
  <2>1. packets' \in Seq([1..TsPacketSize -> Nat]) /\ NoByteTwice'
    BY <1>1, OneMore
  <2>2. pos' \in Nat /\ input' \in Seq(BOOLEAN)
    BY <1>1 DEF Types
  <2> QED
    BY <2>1, <2>2 DEF Types
<1>3. Behind'
  <2> SUFFICES ASSUME NEW b \in GivenBytes' PROVE b <= pos'
    BY DEF Behind
  <2>1. b \in GivenBytes \/ (b \in Nat /\ b \in Range(PacketAt(from)))
    BY <1>1, OneMore
  <2>2. CASE b \in GivenBytes
    <3>1. b \in Nat /\ b <= from
      BY <2>2 DEF GivenBytes
    <3> QED
      BY <1>1, <3>1
  <2>3. CASE b \in Nat /\ b \in Range(PacketAt(from))
    <3>1. b = Stray \/ b \in (from + 1)..(from + TsPacketSize)
      BY <1>1, <2>3, BytesOfPacket
    <3> QED
      BY <1>1, <3>1 DEF Stray
  <2> QED
    BY <2>1, <2>2, <2>3
<1> QED
  BY <1>2, <1>3 DEF Reads, Covered, AtEnd

\* No packet is given, and the reader stays or goes on.
LEMMA StepWithout ==
  ASSUME Reads, UNCHANGED <<program, input, packets>>, pos' \in Nat, pos <= pos',
         program = "tsparser" => pos' = pos /\ NextSyncs = {}
  PROVE  Reads'
<1>1. /\ GivenBytes' = GivenBytes /\ NoByteTwice' = NoByteTwice
      /\ Size' = Size /\ Ends' = Ends /\ (\A i : IsSync(i)' = IsSync(i))
  BY DEF GivenBytes, NoByteTwice, Ends, EndsWithSync, IsSync, Size
<1>2. Behind'
  <2> SUFFICES ASSUME Ends, NEW b \in GivenBytes PROVE b <= pos' \/ SteppedOver(b)'
    BY <1>1 DEF Behind
  <2>1. b \in Nat /\ pos \in Nat
    BY DEF GivenBytes, Reads, Types
  <2>2. b <= pos \/ SteppedOver(b)
    BY DEF Reads, Behind
  <2>3. CASE b <= pos
    BY <2>1, <2>3
  <2>4. CASE SteppedOver(b)
    BY <1>1, <2>4 DEF SteppedOver
  <2> QED
    BY <2>2, <2>3, <2>4
<1>3. Types' /\ Covered'
  BY <1>1 DEF Reads, Types, Covered
<1>4. AtEnd'
  BY <1>1 DEF AtEnd, NextSyncs
<1> QED
  BY <1>1, <1>2, <1>3, <1>4 DEF Reads

LEMMA FilesKeep ==
  ASSUME Reads, FilePacket, UNCHANGED <<program, input>>
  PROVE  Reads'
<1>1. PICK from \in IF packets = <<>> THEN FirstSyncs ELSE {pos} :
        Demux(from) /\ pos' = from + TsPacketSize
  BY DEF FilePacket
<1>2. program = "file" /\ pos \in Nat /\ Types /\ Size \in Nat
  BY DEF FilePacket, Reads, Types, Size
<1>3. CASE packets = <<>>
  <2>1. from \in Nat
    <3> DEFINE known == Min({TsPacketSize, Size})
               syncs == {i \in 1..known : IsSync(i)}
    <3>1. known \in Nat
      <4>1. {TsPacketSize, Size} \in SUBSET Nat
        BY <1>2, ReaderAssumption
      <4> QED
        BY <4>1, MinOf
    <3>2. from \in IF syncs # {} THEN {Min(syncs) - 1} ELSE known..(known + MaxStray)
      BY <1>1, <1>3 DEF FirstSyncs
    <3>3. syncs \in SUBSET Nat /\ \A i \in syncs : i >= 1
      BY <3>1
    <3> HIDE DEF known, syncs
    <3>4. CASE syncs # {}
      <4>1. Min(syncs) \in syncs
        BY <3>3, <3>4, MinOf
      <4>2. Min(syncs) \in Nat /\ Min(syncs) >= 1
        BY <3>3, <4>1
      <4>3. from = Min(syncs) - 1
        BY <3>2, <3>4
      <4> QED
        BY <4>2, <4>3
    <3>5. CASE syncs = {}
      BY <3>1, <3>2, <3>5, ReaderAssumption
    <3> QED
      BY <3>4, <3>5
  <2>2. GivenBytes = {}
    BY <1>3 DEF GivenBytes
  <2> QED
    BY <1>1, <1>2, <2>1, <2>2, StepBehind
<1>4. CASE packets # <<>>
  <2>1. from = pos
    BY <1>1, <1>4
  <2>2. \A b \in GivenBytes : b <= pos
    BY <1>2 DEF Reads, Behind, Ends, SteppedOver
  <2> QED
    BY <1>1, <1>2, <2>1, <2>2, StepBehind
<1> QED
  BY <1>3, <1>4

LEMMA MemoryKeeps ==
  ASSUME Reads, DataPacket \/ WasmPacket, UNCHANGED <<program, input>>
  PROVE  Reads'
<1>1. program # "tsparser" /\ pos \in Nat /\ TsPacketSize \in Nat
  BY ReaderAssumption DEF DataPacket, WasmPacket, Reads, Types
<1>2. \A b \in GivenBytes : b <= pos
  BY <1>1 DEF Reads, Behind, Ends, SteppedOver
<1>3. CASE Demux(pos) /\ pos' = pos + TsPacketSize
  BY <1>1, <1>2, <1>3, StepBehind
<1>4. CASE Finish
  BY <1>1, <1>4, StepWithout DEF Finish
<1>5. CASE UNCHANGED packets /\ pos' = SkippedTo(pos)
  <2>1. pos' \in Nat /\ pos <= pos'
    BY <1>1, <1>5 DEF SkippedTo
  <2> QED
    BY <1>1, <1>5, <2>1, StepWithout
<1> QED
  BY <1>3, <1>4, <1>5 DEF DataPacket, WasmPacket

\* What tsparser reads: the packet at the next sync byte, of which it may give
\* back the last byte of the input.
LEMMA TsparserKeeps ==
  ASSUME Reads, TsparserPacket, UNCHANGED <<program, input>>
  PROVE  Reads'
<1>1. /\ program = "tsparser" /\ Types /\ pos \in Nat /\ Size \in Nat
      /\ TsPacketSize \in Nat /\ TsPacketSize > 1
  BY ReaderAssumption DEF TsparserPacket, Reads, Types, Size
<1>2. CASE NextSyncs = {}
  <2>1. Finish
    BY <1>2 DEF TsparserPacket
  <2> QED
    BY <1>1, <1>2, <2>1, StepWithout DEF Finish
<1>3. CASE NextSyncs # {}
  <2> DEFINE sync == Min(NextSyncs)
             from == sync - 1
  <2>1. /\ sync \in (pos + 1)..Size /\ IsSync(sync)
        /\ \A y \in NextSyncs : sync <= y
    <3>1. NextSyncs \in SUBSET Nat
      BY <1>1 DEF NextSyncs
    <3>2. sync \in NextSyncs /\ \A y \in NextSyncs : sync <= y
      BY <1>3, <3>1, MinOf
    <3> HIDE DEF sync
    <3> QED
      BY <3>2 DEF NextSyncs
  <2>2. /\ Demux(from)
        /\ pos' = SteppedBack(Min({sync + TsPacketSize, Size}))
        /\ UNCHANGED done
    BY <1>3 DEF TsparserPacket
  <2> HIDE DEF sync
  <2>3. /\ sync \in Nat /\ from \in Nat /\ pos <= from /\ sync = from + 1 /\ from < Size
    BY <1>1, <2>1
  <2>4. pos' = from + TsPacketSize \/ (pos' = Size - 1 /\ Size <= from + TsPacketSize)
    <3> DEFINE least == Min({sync + TsPacketSize, Size})
    <3>1. {sync + TsPacketSize, Size} \in SUBSET Nat
      BY <1>1, <2>3
    <3>2. least \in {sync + TsPacketSize, Size} /\ \A y \in {sync + TsPacketSize, Size} : least <= y
      BY <3>1, MinOf
    <3>3. pos' = least - 1
      BY <2>2 DEF SteppedBack
    <3> HIDE DEF least
    <3>4. CASE least = sync + TsPacketSize
      BY <1>1, <2>3, <3>3, <3>4
    <3>5. CASE least = Size
      <4>1. Size <= sync + TsPacketSize
        BY <3>2, <3>5
      <4>2. Size = sync + TsPacketSize => pos' = from + TsPacketSize
        BY <1>1, <2>3, <3>3, <3>5
      <4>3. Size # sync + TsPacketSize => Size <= from + TsPacketSize
        BY <1>1, <2>3, <4>1
      <4> QED
        BY <3>3, <3>5, <4>2, <4>3
    <3> QED
      BY <3>2, <3>4, <3>5
  <2> HIDE DEF from
  <2>5. pos' \in Nat /\ pos' >= from /\ pos' <= from + TsPacketSize
    BY <1>1, <2>3, <2>4
  <2>6. Ends => \A b \in GivenBytes : b <= from
    <3> SUFFICES ASSUME Ends, NEW b \in GivenBytes PROVE b <= from
      OBVIOUS
    <3>1. b \in Nat
      BY DEF GivenBytes
    <3>2. b <= pos \/ SteppedOver(b)
      BY DEF Reads, Behind
    <3>3. ~SteppedOver(b)
      <4>1. sync # Size
        BY <1>1, <2>1 DEF Ends, EndsWithSync
      <4>2. pos # Size - 1
        BY <1>1, <2>1, <4>1
      <4> QED
        BY <4>2 DEF SteppedOver
    <3> QED
      BY <1>1, <2>3, <3>1, <3>2, <3>3
  <2>7. Types' /\ Size' = Size /\ Ends' = Ends /\ (\A i : IsSync(i)' = IsSync(i))
    <3>1. packets' \in Seq([1..TsPacketSize -> Nat])
      BY <1>1, <2>2, <2>3, OneMore
    <3> QED
      BY <1>1, <2>5, <3>1 DEF Types, Ends, EndsWithSync, IsSync, Size
  <2>8. GivenBytes' = GivenBytes \cup {b \in Nat : b \in Range(PacketAt(from))}
    BY <1>1, <2>2, <2>3, OneMore
  <2>9. NoByteTwice'
    <3>1. CASE Ends
      BY <1>1, <2>2, <2>3, <2>6, <3>1, OneMore DEF Reads
    <3>2. CASE ~Ends
      BY <2>7, <3>2 DEF NoByteTwice
    <3> QED
      BY <3>1, <3>2
  <2>10. Behind'
    <3> SUFFICES ASSUME Ends, NEW b \in GivenBytes' PROVE b <= pos' \/ SteppedOver(b)'
      BY <2>7 DEF Behind
    <3>1. CASE b \in GivenBytes
      <4>1. b \in Nat /\ b <= from
        BY <2>6, <3>1 DEF GivenBytes
      <4> QED
        BY <2>3, <2>5, <4>1
    <3>2. CASE b \in Nat /\ b \in Range(PacketAt(from))
      <4>1. b = Stray \/ (b \in (from + 1)..(from + TsPacketSize) /\ b <= Size)
        BY <1>1, <2>3, <3>2, BytesOfPacket
      <4>2. CASE b = Stray
        BY <2>5, <4>2 DEF Stray
      <4>3. CASE b <= from + TsPacketSize /\ b <= Size
        <5>1. CASE pos' = from + TsPacketSize
          BY <4>3, <5>1
        <5>2. CASE pos' = Size - 1
          <6>1. b <= Size - 1 \/ b = Size
            BY <1>1, <3>2, <4>3
          <6> QED
            BY <1>1, <2>7, <5>2, <6>1 DEF SteppedOver
        <5> QED
          BY <2>4, <5>1, <5>2
      <4> QED
        BY <4>1, <4>2, <4>3
    <3> QED
      BY <2>8, <3>1, <3>2
  <2>11. Covered'
    <3> SUFFICES ASSUME NEW i \in 1..pos', IsSync(i) PROVE i \in GivenBytes'
      BY <2>7 DEF Covered
    <3>1. i \in Nat /\ i <= pos' /\ 1 <= i /\ i <= Size
      BY <1>1, <2>5 DEF IsSync
    <3>2. CASE i <= pos
      BY <1>1, <2>8, <3>1, <3>2 DEF Reads, Covered
    <3>3. CASE ~(i <= pos)
      <4>1. i \in NextSyncs
        BY <1>1, <3>1, <3>3 DEF NextSyncs
      <4>2. sync <= i
        BY <2>1, <4>1
      <4>3. i \in (from + 1)..(from + TsPacketSize)
        BY <1>1, <2>3, <2>5, <3>1, <4>2
      <4>4. i \in Range(PacketAt(from))
        BY <1>1, <2>3, <3>1, <4>3, BytesOfPacket
      <4> QED
        BY <2>8, <3>1, <4>4
    <3> QED
      BY <3>2, <3>3
  <2>12. AtEnd'
    <3>1. ~done \/ NextSyncs = {}
      BY <1>1 DEF Reads, AtEnd
    <3> QED
      BY <1>3, <2>2, <3>1 DEF AtEnd
  <2> QED
    BY <2>7, <2>9, <2>10, <2>11, <2>12 DEF Reads
<1> QED
  BY <1>2, <1>3

-----------------------------------------------------------------------------
\* Reads is inductive.
THEOREM AlwaysReads == Spec => []Reads
<1>1. Reads /\ [Next]_vars => Reads'
  <2> SUFFICES ASSUME Reads, [Next]_vars PROVE Reads'
    OBVIOUS
  <2>1. CASE Next
    BY <2>1, TsparserKeeps, FilesKeep, MemoryKeeps DEF Next
  <2>2. CASE UNCHANGED vars
    BY <2>2 DEF vars, Reads, Types, Behind, Ends, EndsWithSync, IsSync, Size, GivenBytes,
       SteppedOver, Covered, AtEnd, NextSyncs, NoByteTwice
  <2> QED
    BY <2>1, <2>2
<1> QED
  BY <1>1, ReadsInit, PTL DEF Spec

\* None of the four loops gives demux a byte of the input twice, whatever the
\* input; tsparser may, if the input ends with a sync byte.
THEOREM NeverAByteTwice == Spec => []NoByteTwice
<1>1. Reads => NoByteTwice
  BY DEF Reads
<1> QED
  BY <1>1, AlwaysReads, PTL

\* The loop of tsparser ends only when every sync byte of the input was part of
\* a packet.
THEOREM AlwaysCoversEverySync == Spec => []CoversEverySync
<1>1. Reads => CoversEverySync
  <2> SUFFICES ASSUME Reads, done, program = "tsparser", NEW i \in 1..Size, IsSync(i)
               PROVE  \E k \in DOMAIN packets : i \in Range(packets[k])
    BY DEF CoversEverySync
  <2>1. NextSyncs = {} /\ pos \in Nat /\ Size \in Nat
    BY DEF Reads, AtEnd, Types, Size
  <2>2. i \in 1..pos
    BY <2>1 DEF NextSyncs
  <2>3. i \in GivenBytes
    BY <2>2 DEF Reads, Covered
  <2> QED
    BY <2>3 DEF GivenBytes
<1> QED
  BY <1>1, AlwaysReads, PTL

-----------------------------------------------------------------------------
(* Streams of whole packets: where their packets begin *)

\* Where packet k + 1 of a stream begins, and m packets from number start + 1 on.
Place(lead, k) == lead + k * TsPacketSize
Taken(lead, start, m) == [k \in 1..m |-> PacketAt(Place(lead, start + k - 1))]

LEMMA PlaceGrows ==
  ASSUME NEW lead \in Nat, NEW k \in Nat
  PROVE  /\ Place(lead, k) \in Nat /\ lead <= Place(lead, k)
         /\ Place(lead, k + 1) = Place(lead, k) + TsPacketSize
         /\ Place(lead, 0) = lead
<1>1. TsPacketSize \in Nat
  BY ReaderAssumption
<1>2. k * TsPacketSize \in Nat
  BY <1>1
<1>3. (k + 1) * TsPacketSize = k * TsPacketSize + TsPacketSize /\ 0 * TsPacketSize = 0
  BY <1>1
<1> QED
  BY <1>1, <1>2, <1>3 DEF Place

LEMMA PlaceBefore ==
  ASSUME NEW lead \in Nat, NEW j \in Nat, NEW k \in Nat, j < k
  PROVE  Place(lead, j) + TsPacketSize <= Place(lead, k)
<1> DEFINE d == k - (j + 1)
<1>1. TsPacketSize \in Nat /\ d \in Nat /\ k = (j + 1) + d
  BY ReaderAssumption
<1> HIDE DEF d
<1>2. k * TsPacketSize = j * TsPacketSize + TsPacketSize + d * TsPacketSize
  BY <1>1
<1>3. j * TsPacketSize \in Nat /\ d * TsPacketSize \in Nat
  BY <1>1
<1> QED
  BY <1>1, <1>2, <1>3 DEF Place

\* A byte that is fewer than a packet's bytes before the beginning of a packet
\* is not at the beginning of one.
LEMMA OutOfStep ==
  ASSUME NEW lead \in 1..(TsPacketSize - 1), NEW j \in 0..(lead - 1), Place(j, j) >= lead
  PROVE  (Place(j, j) - lead) % TsPacketSize # 0
<1>1. TsPacketSize \in Nat /\ TsPacketSize > 1 /\ lead \in Nat /\ j \in Nat /\ j < lead
  BY ReaderAssumption
<1> DEFINE x == Place(j, j) - lead
           q == x \div TsPacketSize
<1>2. x \in Nat /\ Place(j, j) \in Nat
  <2>1. Place(j, j) \in Nat
    BY <1>1, PlaceGrows, Zenon
  <2> QED
    BY <1>1, <2>1
<1> SUFFICES ASSUME x % TsPacketSize = 0 PROVE FALSE
  OBVIOUS
<1>3. q \in Nat /\ x = q * TsPacketSize
  <2> HIDE DEF x
  <2> QED
    BY <1>1, <1>2
<1> HIDE DEF q
<1>4. Place(lead, q) = Place(j, j)
  BY <1>1, <1>2, <1>3 DEF Place
<1> HIDE DEF x
<1>5. Place(j, j) = Place(0, j) + j /\ Place(lead, q) = Place(0, q) + lead
  <2>1. j * TsPacketSize \in Nat /\ q * TsPacketSize \in Nat
    BY <1>1, <1>3
  <2> QED
    BY <1>1, <1>3, <2>1 DEF Place
<1>6. Place(0, j) \in Nat /\ Place(0, q) \in Nat
  <2>1. 0 \in Nat
    OBVIOUS
  <2> QED
    BY <1>1, <1>3, <2>1, PlaceGrows, Zenon
<1>7. CASE q < j
  <2>1. Place(0, q) + TsPacketSize <= Place(0, j)
    BY <1>1, <1>3, <1>7, PlaceBefore
  <2> QED
    BY <1>1, <1>4, <1>5, <1>6, <2>1
<1>8. CASE q = j
  BY <1>1, <1>4, <1>5, <1>6, <1>8
<1>9. CASE q > j
  <2>1. Place(0, j) + TsPacketSize <= Place(0, q)
    BY <1>1, <1>3, <1>9, PlaceBefore
  <2> QED
    BY <1>1, <1>4, <1>5, <1>6, <2>1
<1> QED
  BY <1>1, <1>3, <1>7, <1>8, <1>9

LEMMA NoneTaken ==
  ASSUME NEW lead, NEW start
  PROVE  Taken(lead, start, 0) = <<>>
<1>1. 1..0 = {}
  OBVIOUS
<1> QED
  BY <1>1 DEF Taken

LEMMA TakenIsSeq ==
  ASSUME NEW lead \in Nat, NEW start \in Nat, NEW m \in Nat, Size \in Nat
  PROVE  /\ Taken(lead, start, m) \in Seq([1..TsPacketSize -> Nat])
         /\ Len(Taken(lead, start, m)) = m
         /\ \A k \in 1..m : Taken(lead, start, m)[k] = PacketAt(Place(lead, start + k - 1))
<1>1. ASSUME NEW k \in 1..m
      PROVE  PacketAt(Place(lead, start + k - 1)) \in [1..TsPacketSize -> Nat]
  <2>1. start + k - 1 \in Nat
    OBVIOUS
  <2>2. Place(lead, start + k - 1) \in Nat
    BY <2>1, PlaceGrows
  <2> QED
    BY <2>2, BytesOfPacket
<1> DEFINE P(k)  == PacketAt(Place(lead, start + k - 1))
           S     == [1..TsPacketSize -> Nat]
           taken == Taken(lead, start, m)
<1>2. taken = [k \in 1..m |-> P(k)]
  BY DEF Taken
<1>3. \A k \in 1..m : P(k) \in S
  BY <1>1
<1> HIDE DEF P, S, taken
<1>4. taken \in Seq(S) /\ Len(taken) = m /\ \A k \in 1..m : taken[k] = P(k)
  BY <1>2, <1>3
<1> QED
  BY <1>4 DEF P, S, taken

LEMMA TakesOneMore ==
  ASSUME NEW lead \in Nat, NEW start \in Nat, NEW m \in Nat, Size \in Nat,
         NEW from, from = Place(lead, start + m), packets = Taken(lead, start, m),
         packets' = Append(packets, PacketAt(from))
  PROVE  packets' = Taken(lead, start, m + 1)
<1> DEFINE more == Taken(lead, start, m + 1)
           S    == [1..TsPacketSize -> Nat]
<1>1. /\ packets \in Seq(S) /\ Len(packets) = m
      /\ \A k \in 1..m : packets[k] = PacketAt(Place(lead, start + k - 1))
  BY TakenIsSeq
<1>2. /\ more \in Seq(S) /\ Len(more) = m + 1
      /\ \A k \in 1..(m + 1) : more[k] = PacketAt(Place(lead, start + k - 1))
  <2>1. m + 1 \in Nat
    OBVIOUS
  <2> QED
    BY <2>1, TakenIsSeq
<1>3. more[m + 1] = PacketAt(from) /\ PacketAt(from) \in S
  <2>1. start + (m + 1) - 1 = start + m /\ m + 1 \in 1..(m + 1)
    OBVIOUS
  <2>2. more[m + 1] \in S
    BY <1>2
  <2> QED
    BY <1>2, <2>1, <2>2
<1> HIDE DEF more, S
<1>4. /\ packets' \in Seq(S) /\ Len(packets') = m + 1
      /\ \A k \in 1..(m + 1) : packets'[k] = more[k]
  BY <1>1, <1>2, <1>3
<1> QED
  BY <1>2, <1>4 DEF more

-----------------------------------------------------------------------------
(* How far the loops are in a stream *)

NoSyncIn(first, last) == \A i \in first..last : ~IsSync(i)

\* The input is n packets after `lead` bytes, none of them a sync byte.
InPlaces(lead, n) ==
  /\ lead \in 0..(TsPacketSize - 1) /\ n \in Nat \ {0} /\ Size = Place(lead, n)
  /\ NoSyncIn(1, lead) /\ \A k \in 0..(n - 1) : IsSync(Place(lead, k) + 1)

\* In front of packet m + 1; or at the last byte, which may be read over and over.
TsparserIsAt(lead, n) ==
  \/ \E m \in 0..(n - 1) : /\ packets = Taken(lead, 0, m) /\ ~done
                           /\ pos <= Place(lead, m) /\ NoSyncIn(pos + 1, Place(lead, m))
  \/ packets = Taken(lead, 0, n) /\ pos = Size - 1
  \/ EndsWithSync /\ pos = Size - 1 /\ ~done

\* The packet too many is the one with which the loop ends.
FileIsAt(lead, n) ==
  \/ packets = <<>> /\ ~done
  \/ \E m \in 1..n : packets = Taken(lead, 0, m) /\ pos = Place(lead, m) /\ ~done
  \/ packets = Taken(lead, 0, n + 1) /\ done

DataIsAt(lead, n) ==
  /\ lead = 0 => \E m \in 0..n : /\ packets = Taken(0, 0, m) /\ pos = Place(0, m)
                                 /\ done => m = n
  /\ lead # 0 => packets = <<>>

\* In step with the stream; or as many bytes short of it as there are packets
\* left to skip.
WasmIsAt(lead, n) ==
  \/ \E m \in 0..n : /\ packets = Taken(lead, lead, m) /\ pos = Place(lead, lead + m)
                     /\ (m = 0 \/ lead + m < n)
                     /\ done => lead + m >= n - 1
  \/ \E j \in 0..(lead - 1) : packets = <<>> /\ pos = Place(j, j) /\ (done => n <= lead)

IsAt(lead, n) ==
  /\ program = "tsparser" => TsparserIsAt(lead, n)
  /\ program = "file" => FileIsAt(lead, n)
  /\ program = "data" => DataIsAt(lead, n)
  /\ program = "wasm" => WasmIsAt(lead, n)

PacketStream(lead, n) == IsStream(lead, n) /\ (lead = 0 \/ IsClean(lead))

\* The inductive invariant of FindsEveryPacket.
InStep ==
  /\ done => program \in {"tsparser", "file", "data", "wasm"}
  /\ \A lead \in 0..(TsPacketSize - 1), n \in 1..Size : PacketStream(lead, n) => IsAt(lead, n)

LEMMA MinOfTwo ==
  ASSUME NEW a \in Nat, NEW b \in Nat
  PROVE  Min({a, b}) = IF a <= b THEN a ELSE b
<1> DEFINE least == Min({a, b})
<1>1. {a, b} \in SUBSET Nat /\ {a, b} # {}
  OBVIOUS
<1>2. least \in {a, b} /\ \A y \in {a, b} : least <= y
  BY <1>1, MinOf
<1> HIDE DEF least
<1>3. least <= a /\ least <= b /\ (least = a \/ least = b)
  BY <1>2
<1> QED
  BY <1>3 DEF least

\* The sync byte that tsparser finds.
LEMMA NextSyncIs ==
  ASSUME NEW sync \in Nat, pos \in Nat, Size \in Nat, pos < sync, IsSync(sync),
         \A i \in (pos + 1)..(sync - 1) : ~IsSync(i)
  PROVE  NextSyncs # {} /\ Min(NextSyncs) = sync
<1>1. sync \in NextSyncs /\ NextSyncs \in SUBSET Nat
  BY DEF NextSyncs, IsSync
<1> DEFINE least == Min(NextSyncs)
<1>2. least \in NextSyncs /\ \A y \in NextSyncs : least <= y
  BY <1>1, MinOf
<1> HIDE DEF least
<1>3. least <= sync /\ least \in Nat /\ pos < least /\ IsSync(least)
  BY <1>1, <1>2 DEF NextSyncs
<1>4. ~(least < sync)
  BY <1>3
<1>5. least = sync
  BY <1>3, <1>4
<1> QED
  BY <1>1, <1>5 DEF least

LEMMA SameInput ==
  ASSUME UNCHANGED input
  PROVE  /\ Size' = Size /\ EndsWithSync' = EndsWithSync
         /\ \A lead, start, m : Taken(lead, start, m)' = Taken(lead, start, m)
         /\ \A lead, k : Place(lead, k)' = Place(lead, k)
         /\ \A i : IsSync(i)' = IsSync(i)
BY DEF Size, EndsWithSync, IsSync, Taken, PacketAt, Place

LEMMA StreamInPlaces ==
  ASSUME input \in Seq(BOOLEAN), NEW lead \in 0..(TsPacketSize - 1), NEW n \in 1..Size,
         IsStream(lead, n)
  PROVE  InPlaces(lead, n)
BY DEF IsStream, InPlaces, Place, NoSyncIn, Size

\* tsparser finds the beginning of the next packet, and behind the last one at
\* most the last byte of the input.
LEMMA TsparserStepsOn ==
  ASSUME NEW lead, NEW n, InPlaces(lead, n), TsparserIsAt(lead, n), Types, ~done,
         TsparserPacket, UNCHANGED input
  PROVE  TsparserIsAt(lead, n)'
<1>1. /\ lead \in Nat /\ n \in Nat \ {0} /\ TsPacketSize \in Nat /\ TsPacketSize > 1
      /\ pos \in Nat /\ Size \in Nat /\ Size = Place(lead, n)
  BY ReaderAssumption DEF InPlaces, Types, Size
<1>2. ASSUME NEW sync \in Nat, NextSyncs # {}, Min(NextSyncs) = sync
      PROVE  /\ packets' = Append(packets, PacketAt(sync - 1)) /\ done' = done
             /\ pos' = (IF sync + TsPacketSize <= Size THEN sync + TsPacketSize ELSE Size) - 1
  <2>1. /\ Demux(sync - 1) /\ UNCHANGED done
        /\ pos' = SteppedBack(Min({sync + TsPacketSize, Size}))
    BY <1>2 DEF TsparserPacket
  <2>2. Min({sync + TsPacketSize, Size}) = IF sync + TsPacketSize <= Size THEN sync + TsPacketSize ELSE Size
    BY <1>1, MinOfTwo
  <2> QED
    BY <2>1, <2>2 DEF Demux, SteppedBack
<1>3. ASSUME NEW m \in 0..(n - 1), packets = Taken(lead, 0, m),
             pos <= Place(lead, m), NoSyncIn(pos + 1, Place(lead, m))
      PROVE  TsparserIsAt(lead, n)'
  <2> DEFINE here == Place(lead, m)
             next == Place(lead, m + 1)
             sync == here + 1
  <2>1. /\ here \in Nat /\ next = here + TsPacketSize /\ m \in Nat
        /\ m + 1 < n => next + TsPacketSize <= Size
        /\ m + 1 = n => next = Size
        /\ m + 1 < n \/ m + 1 = n
    <3>1. m \in Nat /\ m + 1 \in Nat /\ (m + 1 < n \/ m + 1 = n)
      BY <1>1
    <3>2. here \in Nat /\ next = here + TsPacketSize
      BY <1>1, <3>1, PlaceGrows
    <3>3. m + 1 < n => next + TsPacketSize <= Size
      BY <1>1, <3>1, PlaceBefore
    <3> QED
      BY <1>1, <3>1, <3>2, <3>3
  <2>2. IsSync(here + 1)
    BY <1>3 DEF InPlaces
  <2>3. sync \in Nat /\ pos < sync /\ \A i \in (pos + 1)..(sync - 1) : ~IsSync(i)
    <3>1. sync \in Nat /\ pos < sync /\ sync - 1 = here
      BY <1>1, <1>3, <2>1
    <3> QED
      BY <1>3, <3>1 DEF NoSyncIn
  <2>4. IsSync(sync) /\ here = sync - 1 /\ sync + TsPacketSize = here + 1 + TsPacketSize
    BY <2>1, <2>2
  <2> HIDE DEF sync
  <2>5. NextSyncs # {} /\ Min(NextSyncs) = sync
    BY <1>1, <2>3, <2>4, NextSyncIs
  <2>6. /\ packets' = Append(packets, PacketAt(here)) /\ done' = done
        /\ pos' = (IF sync + TsPacketSize <= Size THEN sync + TsPacketSize ELSE Size) - 1
    BY <1>2, <2>3, <2>4, <2>5
  <2>7. packets' = Taken(lead, 0, m + 1)
    <3> DEFINE none == 0
    <3>1. here = Place(lead, none + m) /\ none \in Nat
      BY <2>1
    <3> HIDE DEF here, none
    <3>2. packets = Taken(lead, none, m)
      BY <1>3 DEF none
    <3>3. packets' = Taken(lead, none, m + 1)
      BY <1>1, <2>1, <2>6, <3>1, <3>2, TakesOneMore
    <3> QED
      BY <3>3 DEF none
  <2> HIDE DEF here, next
  <2>8. CASE m + 1 < n
    <3>1. pos' = next
      BY <1>1, <2>1, <2>4, <2>6, <2>8
    <3>2. \A i \in (pos' + 1)..next : FALSE
      BY <1>1, <2>1, <3>1
    <3>3. m + 1 \in 0..(n - 1) /\ pos' <= next /\ ~done'
      BY <1>1, <2>1, <2>6, <2>8, <3>1
    <3> QED
      BY <2>7, <3>2, <3>3, SameInput DEF TsparserIsAt, NoSyncIn, next
  <2>9. CASE m + 1 = n
    <3>1. pos' = Size - 1
      BY <1>1, <2>1, <2>4, <2>6, <2>9
    <3> QED
      BY <2>7, <2>9, <3>1, SameInput DEF TsparserIsAt
  <2> QED
    BY <2>1, <2>8, <2>9
<1>4. CASE pos = Size - 1 /\ EndsWithSync
  <2>1. IsSync(Size) /\ pos < Size /\ \A i \in (pos + 1)..(Size - 1) : ~IsSync(i)
    BY <1>1, <1>4 DEF EndsWithSync
  <2>2. NextSyncs # {} /\ Min(NextSyncs) = Size
    BY <1>1, <2>1, NextSyncIs
  <2>3. done' = done /\ pos' = (IF Size + TsPacketSize <= Size THEN Size + TsPacketSize ELSE Size) - 1
    BY <1>1, <1>2, <2>2
  <2>4. pos' = Size - 1
    BY <1>1, <2>3
  <2> QED
    BY <1>4, <2>3, <2>4, SameInput DEF TsparserIsAt
<1>5. CASE packets = Taken(lead, 0, n) /\ pos = Size - 1 /\ ~EndsWithSync
  <2>1. NextSyncs = {}
    <3>1. \A i \in (pos + 1)..Size : i = Size
      BY <1>1, <1>5
    <3> QED
      BY <1>5, <3>1 DEF NextSyncs, EndsWithSync
  <2>2. UNCHANGED <<pos, packets>>
    BY <2>1 DEF TsparserPacket, Finish
  <2> QED
    BY <1>5, <2>2, SameInput DEF TsparserIsAt
<1> QED
  BY <1>3, <1>4, <1>5 DEF TsparserIsAt

\* The first sync byte is that of the first packet.
LEMMA FirstSyncIs ==
  ASSUME NEW lead, NEW n, InPlaces(lead, n), Size \in Nat
  PROVE  FirstSyncs = {lead}
<1>1. /\ lead \in Nat /\ n \in Nat \ {0} /\ TsPacketSize \in Nat
      /\ lead + 1 <= TsPacketSize /\ Size = Place(lead, n)
  BY ReaderAssumption DEF InPlaces
<1>2. Place(lead, 0) + TsPacketSize <= Size /\ Place(lead, 0) = lead
  BY <1>1, PlaceBefore, PlaceGrows
<1>3. Min({TsPacketSize, Size}) = TsPacketSize
  <2>1. TsPacketSize <= Size
    BY <1>1, <1>2
  <2> QED
    BY <1>1, <2>1, MinOfTwo
<1>4. IsSync(lead + 1) /\ \A i \in 1..lead : ~IsSync(i)
  BY <1>1, <1>2 DEF InPlaces, NoSyncIn
<1> DEFINE syncs == {i \in 1..TsPacketSize : IsSync(i)}
           least == Min(syncs)
<1>5. FirstSyncs = IF syncs # {} THEN {Min(syncs) - 1}
                   ELSE TsPacketSize..(TsPacketSize + MaxStray)
  BY <1>3, Zenon DEF FirstSyncs
<1>6. /\ lead + 1 \in syncs /\ syncs \in SUBSET Nat
      /\ \A i \in syncs : i \in Nat /\ lead + 1 <= i
  BY <1>1, <1>4
<1> HIDE DEF syncs
<1>7. least \in syncs /\ least <= lead + 1
  BY <1>6, MinOf
<1>8. FirstSyncs = {least - 1}
  BY <1>5, <1>6
<1> HIDE DEF least
<1>9. least - 1 = lead
  BY <1>1, <1>6, <1>7
<1> QED
  BY <1>8, <1>9

LEMMA FileStepsOn ==
  ASSUME NEW lead, NEW n, InPlaces(lead, n), FileIsAt(lead, n), Types, ~done,
         FilePacket, UNCHANGED input
  PROVE  FileIsAt(lead, n)'
<1>1. /\ lead \in Nat /\ n \in Nat \ {0} /\ TsPacketSize \in Nat /\ Size \in Nat
      /\ Size = Place(lead, n)
  BY ReaderAssumption DEF InPlaces, Types, Size
<1>2. ASSUME NEW m \in 0..n, packets = Taken(lead, 0, m),
             NEW from, from = Place(lead, m), Demux(from), pos' = from + TsPacketSize,
             done' = HitsEnd(from)
      PROVE  FileIsAt(lead, n)'
  <2>1. m \in Nat /\ m + 1 \in Nat /\ from \in Nat
    BY <1>1, <1>2, PlaceGrows
  <2>2. pos' = Place(lead, m + 1)
    BY <1>1, <1>2, <2>1, PlaceGrows
  <2>3. packets' = Taken(lead, 0, m + 1)
    <3> DEFINE none == 0
    <3>1. from = Place(lead, none + m) /\ none \in Nat
      BY <1>2, <2>1
    <3> HIDE DEF none
    <3>2. packets = Taken(lead, none, m) /\ packets' = Append(packets, PacketAt(from))
      BY <1>2 DEF none, Demux
    <3>3. packets' = Taken(lead, none, m + 1)
      BY <1>1, <2>1, <3>1, <3>2, TakesOneMore
    <3> QED
      BY <3>3 DEF none
  <2>4. CASE m < n
    <3>1. from + TsPacketSize <= Size
      BY <1>1, <1>2, <2>1, <2>4, PlaceBefore
    <3>2. ~HitsEnd(from) /\ m + 1 \in 1..n
      BY <1>1, <2>1, <2>4, <3>1 DEF HitsEnd
    <3>3. ~done'
      BY <1>2, <3>2, Zenon
    <3> QED
      BY <2>2, <2>3, <3>2, <3>3, SameInput DEF FileIsAt
  <2>5. CASE m = n
    <3>1. HitsEnd(from)
      BY <1>1, <1>2, <2>1, <2>5, ReaderAssumption DEF HitsEnd
    <3>2. done'
      BY <1>2, <3>1, Zenon
    <3> QED
      BY <2>3, <2>5, <3>2, SameInput DEF FileIsAt
  <2> QED
    BY <1>1, <2>4, <2>5
<1>3. PICK from \in IF packets = <<>> THEN FirstSyncs ELSE {pos} :
        Demux(from) /\ pos' = from + TsPacketSize /\ done' = HitsEnd(from)
  BY DEF FilePacket
<1>4. CASE packets = <<>>
  <2>1. from = lead
    BY <1>1, <1>3, <1>4, FirstSyncIs
  <2>2. lead = Place(lead, 0) /\ packets = Taken(lead, 0, 0) /\ 0 \in 0..n
    BY <1>1, <1>4, PlaceGrows, NoneTaken
  <2> QED
    BY <1>2, <1>3, <2>1, <2>2
<1>5. ASSUME packets # <<>>, NEW m \in 1..n, packets = Taken(lead, 0, m), pos = Place(lead, m)
      PROVE  FileIsAt(lead, n)'
  <2>1. from = pos /\ m \in 0..n
    BY <1>1, <1>3, <1>5
  <2> QED
    BY <1>2, <1>3, <1>5, <2>1
<1> QED
  BY <1>4, <1>5 DEF FileIsAt

LEMMA DataStepsOn ==
  ASSUME NEW lead, NEW n, InPlaces(lead, n), DataIsAt(lead, n), Types, ~done,
         DataPacket, UNCHANGED input
  PROVE  DataIsAt(lead, n)'
<1>1. /\ lead \in Nat /\ n \in Nat \ {0} /\ TsPacketSize \in Nat /\ TsPacketSize > 1
      /\ Size \in Nat /\ Size = Place(lead, n)
  BY ReaderAssumption DEF InPlaces, Types, Size
<1>2. CASE lead # 0
  <2>1. ~IsSync(1)
    BY <1>1, <1>2 DEF InPlaces, NoSyncIn
  <2> QED
    BY <1>2, <2>1 DEF DataPacket, Finish, DataIsAt
<1>3. CASE lead = 0
  <2> DEFINE none == 0
  <2>1. none = 0 /\ none \in Nat /\ lead = none
    BY <1>3
  <2> HIDE DEF none
  <2>2. PICK m \in 0..n : packets = Taken(none, none, m) /\ pos = Place(none, m)
    BY <1>3, <2>1 DEF DataIsAt
  <2>3. m \in Nat /\ m + 1 \in Nat /\ pos \in Nat
    BY <1>1, <2>1, <2>2, PlaceGrows
  <2>4. IsSync(1)
    <3>1. IsSync(Place(lead, 0) + 1) /\ Place(lead, 0) = lead
      BY <1>1, PlaceGrows DEF InPlaces
    <3> QED
      BY <1>3, <3>1
  <2>5. CASE m < n
    <3>1. pos + TsPacketSize <= Size
      BY <1>1, <2>1, <2>2, <2>3, <2>5, PlaceBefore
    <3>2. pos < Size
      BY <1>1, <2>3, <3>1
    <3>3. Demux(pos) /\ pos' = pos + TsPacketSize /\ UNCHANGED done
      BY <2>4, <3>2 DEF DataPacket
    <3>4. pos' = Place(none, m + 1)
      BY <1>1, <2>1, <2>2, <2>3, <3>3, PlaceGrows
    <3>5. packets' = Taken(none, none, m + 1)
      <4>1. none + m = m /\ packets' = Append(packets, PacketAt(pos))
        BY <2>1, <2>3, <3>3 DEF Demux
      <4>2. pos = Place(none, none + m)
        BY <2>2, <4>1
      <4> QED
        BY <1>1, <2>1, <2>2, <2>3, <4>1, <4>2, TakesOneMore
    <3>6. m + 1 \in 0..n /\ ~done'
      BY <1>1, <2>3, <2>5, <3>3
    <3> QED
      BY <2>1, <3>4, <3>5, <3>6, SameInput DEF DataIsAt
  <2>6. CASE m = n
    <3>1. pos = Size
      BY <1>1, <2>1, <2>2, <2>6
    <3>2. UNCHANGED <<pos, packets>>
      BY <1>1, <3>1 DEF DataPacket, Finish
    <3>3. packets' = Taken(0, 0, n) /\ pos' = Place(0, n) /\ n \in 0..n
      BY <1>1, <2>1, <2>2, <2>6, <3>2
    <3> QED
      BY <1>3, <3>3, SameInput DEF DataIsAt
  <2> QED
    BY <1>1, <2>5, <2>6
<1> QED
  BY <1>2, <1>3

\* IsClean is what makes it skip: where it looks before it is in step there is
\* no sync byte (OutOfStep).
LEMMA WasmStepsOn ==
  ASSUME NEW lead, NEW n, InPlaces(lead, n), lead = 0 \/ IsClean(lead), WasmIsAt(lead, n),
         Types, ~done, WasmPacket, UNCHANGED input
  PROVE  WasmIsAt(lead, n)'
<1>1. /\ lead \in Nat /\ n \in Nat \ {0} /\ TsPacketSize \in Nat /\ TsPacketSize > 1
      /\ Size \in Nat /\ Size = Place(lead, n) /\ lead \in 0..(TsPacketSize - 1)
      /\ pos \in Nat
  BY ReaderAssumption DEF InPlaces, Types, Size
<1>2. ASSUME NEW j \in 0..(lead - 1), packets = <<>>, pos = Place(j, j)
      PROVE  WasmIsAt(lead, n)'
  <2>1. j \in Nat /\ j + 1 \in Nat /\ lead \in 1..(TsPacketSize - 1)
    BY <1>1
  <2>2. ~IsSync(pos + 1)
    <3> SUFFICES ASSUME IsSync(pos + 1) PROVE FALSE
      OBVIOUS
    <3>1. PICK i : i = pos + 1
      OBVIOUS
    <3>2. i \in 1..Size /\ IsSync(i)
      BY <3>1 DEF IsSync
    <3>3. i > lead /\ (i - 1 - lead) % TsPacketSize = 0
      BY <2>1, <3>2 DEF IsClean
    <3>4. pos >= lead /\ i - 1 - lead = pos - lead
      BY <1>1, <3>1, <3>3
    <3> QED
      BY <1>2, <2>1, <3>3, <3>4, OutOfStep
  <2>3. CASE pos + TsPacketSize >= Size
    <3>1. n <= lead
      <4> SUFFICES ASSUME lead < n PROVE FALSE
        BY <1>1
      <4>1. /\ Place(lead, j) + TsPacketSize <= Place(lead, lead)
            /\ Place(lead, lead) + TsPacketSize <= Size
        BY <1>1, <2>1, PlaceBefore
      <4>2. Place(lead, j) = pos + (lead - j) /\ Place(lead, lead) \in Nat
        <5>1. j * TsPacketSize \in Nat
          BY <1>1, <2>1
        <5> QED
          BY <1>1, <1>2, <2>1, <5>1, PlaceGrows DEF Place
      <4> QED
        BY <1>1, <2>1, <2>3, <4>1, <4>2
    <3>2. packets' = packets /\ pos' = pos
      BY <2>3 DEF WasmPacket, Finish
    <3> QED
      BY <1>2, <3>1, <3>2, SameInput DEF WasmIsAt
  <2>4. CASE ~(pos + TsPacketSize >= Size)
    <3>1. packets' = packets /\ pos' = SkippedTo(pos) /\ done' = done
      BY <2>2, <2>4 DEF WasmPacket
    <3>2. pos' = Place(j + 1, j + 1)
      <4>1. Place(j, j + 1) = Place(j, j) + TsPacketSize
        BY <2>1, PlaceGrows
      <4>2. Place(j + 1, j + 1) = Place(j, j + 1) + 1
        <5>1. (j + 1) * TsPacketSize \in Nat
          BY <1>1, <2>1
        <5> QED
          BY <2>1, <5>1 DEF Place
      <4>3. Place(j, j) \in Nat
        BY <2>1, PlaceGrows
      <4> QED
        BY <1>1, <1>2, <3>1, <4>1, <4>2, <4>3 DEF SkippedTo
    <3>3. CASE j + 1 < lead
      <4>1. j + 1 \in 0..(lead - 1)
        BY <1>1, <2>1, <3>3
      <4> QED
        BY <1>2, <3>1, <3>2, <4>1, SameInput DEF WasmIsAt
    <3>4. CASE j + 1 = lead
      <4>1. lead + 0 = lead /\ 0 \in 0..n
        BY <1>1
      <4>2. packets' = Taken(lead, lead, 0) /\ pos' = Place(lead, lead + 0)
        BY <1>2, <3>1, <3>2, <3>4, <4>1, NoneTaken
      <4> QED
        BY <3>1, <4>1, <4>2, SameInput DEF WasmIsAt
    <3> QED
      BY <1>1, <2>1, <3>3, <3>4
  <2> QED
    BY <2>3, <2>4
<1>3. ASSUME NEW m \in 0..n, packets = Taken(lead, lead, m), pos = Place(lead, lead + m),
             m = 0 \/ lead + m < n
      PROVE  WasmIsAt(lead, n)'
  <2> DEFINE k == lead + m
  <2>1. m \in Nat /\ m + 1 \in Nat /\ k \in Nat /\ k + 1 = lead + (m + 1) /\ k + 1 \in Nat
    BY <1>1
  <2>2. pos = Place(lead, k)
    BY <1>3
  <2> HIDE DEF k
  <2>3. Place(lead, k + 1) = pos + TsPacketSize
    BY <1>1, <2>1, <2>2, PlaceGrows
  <2>4. CASE pos + TsPacketSize >= Size
    <3>1. k >= n - 1
      <4> SUFFICES ASSUME k + 1 < n PROVE FALSE
        BY <1>1, <2>1
      <4>1. Place(lead, k + 1) + TsPacketSize <= Size
        BY <1>1, <2>1, PlaceBefore
      <4> QED
        BY <1>1, <2>3, <2>4, <4>1
    <3>2. packets' = packets /\ pos' = pos
      BY <2>4 DEF WasmPacket, Finish
    <3> QED
      BY <1>3, <3>1, <3>2, SameInput DEF WasmIsAt, k
  <2>5. CASE ~(pos + TsPacketSize >= Size)
    <3>1. k + 1 < n
      <4>1. CASE n = k + 1
        BY <1>1, <2>3, <2>5, <4>1
      <4>2. CASE n < k + 1
        <5>1. Place(lead, n) + TsPacketSize <= Place(lead, k + 1)
          BY <1>1, <2>1, <4>2, PlaceBefore
        <5> QED
          BY <1>1, <2>3, <2>5, <5>1
      <4> QED
        BY <1>1, <2>1, <4>1, <4>2
    <3>2. IsSync(pos + 1) /\ IsSync(pos + TsPacketSize + 1)
      <4>1. k \in 0..(n - 1) /\ k + 1 \in 0..(n - 1)
        BY <1>1, <2>1, <3>1
      <4> QED
        BY <2>2, <2>3, <4>1 DEF InPlaces
    <3>3. Demux(pos) /\ pos' = pos + TsPacketSize /\ done' = done
      BY <2>5, <3>2 DEF WasmPacket
    <3>4. packets' = Taken(lead, lead, m + 1)
      <4>1. packets' = Append(packets, PacketAt(pos))
        BY <3>3 DEF Demux
      <4> QED
        BY <1>1, <1>3, <2>1, <4>1, TakesOneMore
    <3>5. pos' = Place(lead, lead + (m + 1))
      BY <2>1, <2>3, <3>3
    <3>6. m + 1 \in 0..n /\ lead + (m + 1) < n
      BY <1>1, <2>1, <3>1
    <3> QED
      BY <3>3, <3>4, <3>5, <3>6, SameInput DEF WasmIsAt
  <2> QED
    BY <2>4, <2>5
<1> QED
  BY <1>2, <1>3 DEF WasmIsAt

-----------------------------------------------------------------------------
LEMMA SameStreams ==
  ASSUME UNCHANGED input
  PROVE  \A lead, n : PacketStream(lead, n)' = PacketStream(lead, n)
BY DEF PacketStream, IsStream, IsClean, IsSync, Size

LEMMA InStepInit == Init => InStep
<1> SUFFICES ASSUME Init, NEW lead \in 0..(TsPacketSize - 1), NEW n \in 1..Size,
                    PacketStream(lead, n)
             PROVE  IsAt(lead, n)
  BY DEF InStep, Init
<1>1. input \in Seq(BOOLEAN) /\ pos = 0 /\ packets = <<>> /\ ~done
  BY ReaderAssumption DEF Init
<1>2. /\ lead \in Nat /\ n \in Nat \ {0} /\ 0 \in Nat /\ InPlaces(lead, n)
      /\ TsPacketSize \in Nat
  BY <1>1, StreamInPlaces, ReaderAssumption DEF PacketStream, Size
<1>3. /\ Place(lead, 0) = lead /\ Place(0, 0) = 0
      /\ packets = Taken(lead, 0, 0) /\ packets = Taken(0, 0, 0)
  <2>1. packets = Taken(lead, 0, 0) /\ packets = Taken(0, 0, 0)
    BY <1>1, NoneTaken
  <2>2. 0 * TsPacketSize = 0
    BY <1>2
  <2> QED
    BY <1>2, <2>1, <2>2 DEF Place
<1>4. TsparserIsAt(lead, n)
  <2>1. \A i \in (pos + 1)..lead : ~IsSync(i)
    BY <1>1, <1>2 DEF InPlaces, NoSyncIn
  <2>2. 0 \in 0..(n - 1) /\ pos <= lead
    BY <1>1, <1>2
  <2> QED
    BY <1>1, <1>3, <2>1, <2>2 DEF TsparserIsAt, NoSyncIn
<1>5. FileIsAt(lead, n)
  BY <1>1 DEF FileIsAt
<1>6. DataIsAt(lead, n)
  <2>1. 0 \in 0..n
    BY <1>2
  <2> QED
    BY <1>1, <1>3, <2>1 DEF DataIsAt
<1>7. WasmIsAt(lead, n)
  <2>1. CASE lead = 0
    <3>1. lead + 0 = 0 /\ 0 \in 0..n /\ Taken(lead, lead, 0) = <<>>
      BY <1>2, <2>1, NoneTaken
    <3> QED
      BY <1>1, <1>3, <2>1, <3>1 DEF WasmIsAt
  <2>2. CASE lead # 0
    <3>1. 0 \in 0..(lead - 1)
      BY <1>2, <2>2
    <3> QED
      BY <1>1, <1>3, <3>1 DEF WasmIsAt
  <2> QED
    BY <2>1, <2>2
<1> QED
  BY <1>4, <1>5, <1>6, <1>7 DEF IsAt

LEMMA InStepKept == Reads /\ InStep /\ Next => InStep'
<1> SUFFICES ASSUME Reads, InStep, Next PROVE InStep'
  OBVIOUS
<1>1. Types /\ ~done /\ UNCHANGED <<program, input>>
  BY DEF Reads, Next
<1>2. done' => program' \in {"tsparser", "file", "data", "wasm"}
  BY <1>1 DEF Next, TsparserPacket, FilePacket, DataPacket, WasmPacket
<1>3. ASSUME NEW lead \in 0..(TsPacketSize - 1), NEW n \in 1..Size, PacketStream(lead, n)
      PROVE  IsAt(lead, n)'
  <2>1. InPlaces(lead, n) /\ (lead = 0 \/ IsClean(lead)) /\ IsAt(lead, n)
    BY <1>1, <1>3, StreamInPlaces DEF Types, PacketStream, InStep
  <2>2. CASE TsparserPacket
    <3>1. program = "tsparser"
      BY <2>2 DEF TsparserPacket
    <3>2. TsparserIsAt(lead, n)'
      BY <1>1, <2>1, <2>2, <3>1, TsparserStepsOn DEF IsAt
    <3> QED
      BY <1>1, <3>1, <3>2 DEF IsAt
  <2>3. CASE FilePacket
    <3>1. program = "file"
      BY <2>3 DEF FilePacket
    <3>2. FileIsAt(lead, n)'
      BY <1>1, <2>1, <2>3, <3>1, FileStepsOn DEF IsAt
    <3> QED
      BY <1>1, <3>1, <3>2 DEF IsAt
  <2>4. CASE DataPacket
    <3>1. program = "data"
      BY <2>4 DEF DataPacket
    <3>2. DataIsAt(lead, n)'
      BY <1>1, <2>1, <2>4, <3>1, DataStepsOn DEF IsAt
    <3> QED
      BY <1>1, <3>1, <3>2 DEF IsAt
  <2>5. CASE WasmPacket
    <3>1. program = "wasm"
      BY <2>5 DEF WasmPacket
    <3>2. WasmIsAt(lead, n)'
      BY <1>1, <2>1, <2>5, <3>1, WasmStepsOn DEF IsAt
    <3> QED
      BY <1>1, <3>1, <3>2 DEF IsAt
  <2> QED
    BY <2>2, <2>3, <2>4, <2>5 DEF Next
<1> QED
  BY <1>1, <1>2, <1>3, SameInput, SameStreams DEF InStep

\* Where a loop has ended is where FindsEveryPacket says.
LEMMA EndIsFound ==
  ASSUME Types, InStep, done, NEW lead \in 0..(TsPacketSize - 1), NEW n \in 1..Size,
         PacketStream(lead, n)
  PROVE  Given = Found(lead, n)
<1>1. lead \in Nat /\ n \in Nat \ {0} /\ Size \in Nat /\ IsAt(lead, n)
  BY ReaderAssumption DEF InStep, Types, Size
<1>2. ASSUME NEW l \in Nat, NEW first \in Nat, NEW m \in Int
      PROVE  Packets(l, first + 1, first + m) = Taken(l, first, m)
  <2>1. first + m - (first + 1) + 1 = m
    BY <1>2
  <2>2. ASSUME NEW k \in 1..m PROVE first + 1 + k - 2 = first + k - 1
    BY <1>2
  <2> QED
    BY <2>1, <2>2 DEF Packets, Taken, Place
<1>3. Packets(lead, 1, n) = Taken(lead, 0, n) /\ Packets(0, 1, n) = Taken(0, 0, n)
  <2>1. 0 + 1 = 1 /\ 0 + n = n /\ 0 \in Nat /\ n \in Int
    BY <1>1
  <2>2. Packets(lead, 0 + 1, 0 + n) = Taken(lead, 0, n) /\ Packets(0, 0 + 1, 0 + n) = Taken(0, 0, n)
    BY <1>1, <1>2, <2>1, Zenon
  <2> QED
    BY <2>1, <2>2
<1>4. CASE program = "tsparser"
  BY <1>1, <1>3, <1>4 DEF IsAt, TsparserIsAt, Given, Found
<1>5. CASE program = "file"
  <2>1. packets = Taken(lead, 0, n + 1)
    BY <1>1, <1>5 DEF IsAt, FileIsAt
  <2>2. /\ Len(packets) = n + 1
        /\ \A k \in 1..(n + 1) : packets[k] = PacketAt(Place(lead, 0 + k - 1))
    <3> DEFINE none == 0
               more == n + 1
    <3>1. none \in Nat /\ more \in Nat /\ packets = Taken(lead, none, more)
      BY <1>1, <2>1
    <3> HIDE DEF none, more
    <3>2. /\ Len(packets) = more
          /\ \A k \in 1..more : packets[k] = PacketAt(Place(lead, none + k - 1))
      <4>1. /\ Len(Taken(lead, none, more)) = more
            /\ \A k \in 1..more :
                 Taken(lead, none, more)[k] = PacketAt(Place(lead, none + k - 1))
        BY <1>1, <3>1, TakenIsSeq, Zenon
      <4> QED
        BY <3>1, <4>1, Zenon
    <3> QED
      BY <3>2 DEF none, more
  <2>3. SubSeq(packets, 1, n) = [k \in 1..n |-> packets[k]]
    BY <1>1, <2>2 DEF Types
  <2>4. [k \in 1..n |-> packets[k]] = Taken(lead, 0, n)
    BY <1>1, <2>2 DEF Taken
  <2> QED
    BY <1>1, <1>3, <1>5, <2>2, <2>3, <2>4 DEF Given, Found
<1>6. CASE program = "data"
  BY <1>1, <1>3, <1>6 DEF IsAt, DataIsAt, Given, Found
<1>7. CASE program = "wasm"
  <2> DEFINE m == n - 1 - lead
  <2>1. m \in Int /\ n - 1 = lead + m
    BY <1>1
  <2>2. Found(lead, n) = Taken(lead, lead, m)
    BY <1>1, <1>2, <1>7, <2>1 DEF Found
  <2>3. m <= 0 => Taken(lead, lead, m) = <<>>
    <3> SUFFICES ASSUME m <= 0 PROVE Taken(lead, lead, m) = <<>>
      OBVIOUS
    <3>1. 1..m = {}
      BY <2>1
    <3> QED
      BY <3>1 DEF Taken
  <2>4. packets = Taken(lead, lead, m)
    <3>1. ASSUME NEW i \in 0..n, packets = Taken(lead, lead, i), i = 0 \/ lead + i < n, lead + i >= n - 1
          PROVE  packets = Taken(lead, lead, m)
      <4>1. i = m \/ (i = 0 /\ m <= 0)
        BY <1>1, <3>1
      <4> QED
        BY <2>3, <3>1, <4>1, NoneTaken
    <3>2. packets = <<>> /\ n <= lead => packets = Taken(lead, lead, m)
      BY <1>1, <2>3
    <3> QED
      BY <1>1, <1>7, <3>1, <3>2 DEF IsAt, WasmIsAt
  <2> QED
    BY <1>7, <2>2, <2>4 DEF Given
<1> QED
  BY <1>4, <1>5, <1>6, <1>7 DEF InStep

\* Of a stream of whole packets, of any size and number, each loop gives demux
\* every packet, in order and once: that of WebAssembly all but the last, and the
\* ones it takes to fall in step.
THEOREM AlwaysFindsEveryPacket == Spec => []FindsEveryPacket
<1>1. Reads /\ InStep /\ [Next]_vars => InStep'
  <2>1. ASSUME InStep, UNCHANGED vars PROVE InStep'
    <3>1. \A lead, n : IsAt(lead, n)' = IsAt(lead, n)
      BY <2>1, SameInput DEF vars, IsAt, TsparserIsAt, FileIsAt, DataIsAt, WasmIsAt, NoSyncIn
    <3> QED
      BY <2>1, <3>1, SameInput, SameStreams DEF vars, InStep
  <2> QED
    BY <2>1, InStepKept
<1>2. Reads /\ InStep => FindsEveryPacket
  BY EndIsFound DEF FindsEveryPacket, PacketStream, Reads
<1> QED
  BY <1>1, <1>2, InStepInit, AlwaysReads, PTL DEF Spec

-----------------------------------------------------------------------------
(* How far past the input a loop reads *)

\* The inductive invariant of TypeOK: what is left to read after a packet from
\* a file, unless it was the last.
Bounded ==
  /\ TypeOK
  /\ program = "tsparser" => pos <= Size
  /\ program = "file" /\ packets # <<>> /\ ~done => pos <= Size

LEMMA MaxOfTwo ==
  ASSUME NEW a \in Nat, NEW b \in Nat
  PROVE  Max({a, b}) = IF a <= b THEN b ELSE a
<1> DEFINE most == Max({a, b})
           c == IF a <= b THEN b ELSE a
<1>1. c \in {a, b} /\ \A y \in {a, b} : c >= y
  OBVIOUS
<1>2. most \in {a, b} /\ \A y \in {a, b} : most >= y
  BY <1>1 DEF Max
<1> HIDE DEF most
<1>3. most >= a /\ most >= b /\ (most = a \/ most = b)
  BY <1>2
<1> QED
  BY <1>3 DEF most

\* A packet is of places in the input or of stray bytes.
LEMMA TypedPacket ==
  ASSUME NEW from \in Nat, Size \in Nat, TypeOK, Demux(from)
  PROVE  /\ packets' \in Seq([1..TsPacketSize -> {Stray} \cup 1..Size])
         /\ packets' # <<>> /\ Len(packets') <= MaxPackets
<1> DEFINE S == [1..TsPacketSize -> {Stray} \cup 1..Size]
<1>1. PacketAt(from) \in S
  BY ReaderAssumption DEF PacketAt
<1> HIDE DEF S
<1>2. /\ packets \in Seq(S) /\ packets' = Append(packets, PacketAt(from))
      /\ Len(packets) < MaxPackets /\ MaxPackets \in Nat
  BY ReaderAssumption DEF TypeOK, Demux, S
<1>3. packets' \in Seq(S) /\ Len(packets') = Len(packets) + 1 /\ Len(packets) \in Nat
  BY <1>1, <1>2
<1>4. packets' # <<>> /\ Len(packets') <= MaxPackets
  BY <1>2, <1>3
<1> QED
  BY <1>3, <1>4 DEF S

LEMMA BoundedKept == Reads /\ Bounded /\ Next => Bounded'
<1> SUFFICES ASSUME Reads, Bounded, Next PROVE Bounded'
  OBVIOUS
<1> DEFINE most == Max({Size, TsPacketSize + MaxStray})
<1>1. /\ Types /\ TypeOK /\ ~done /\ UNCHANGED <<program, input>> /\ Size' = Size
      /\ Size \in Nat /\ TsPacketSize \in Nat /\ TsPacketSize > 1 /\ MaxStray \in Nat
      /\ pos \in Nat
  BY ReaderAssumption DEF Reads, Bounded, Types, Next, Size
<1>2. /\ most \in Nat /\ Size <= most /\ TsPacketSize + MaxStray <= most /\ most' = most
      /\ pos <= most + TsPacketSize
  <2>1. TsPacketSize + MaxStray \in Nat
    BY <1>1
  <2>2. most = IF Size <= TsPacketSize + MaxStray THEN TsPacketSize + MaxStray ELSE Size
    BY <1>1, <2>1, MaxOfTwo
  <2>3. most' = most /\ pos <= most + TsPacketSize
    BY <1>1 DEF TypeOK
  <2> HIDE DEF most
  <2> QED
    BY <1>1, <2>1, <2>2, <2>3
<1>3. TypeOK = /\ pos \in 0..(most + TsPacketSize)
               /\ packets \in Seq([1..TsPacketSize -> {Stray} \cup 1..Size])
               /\ Len(packets) <= MaxPackets /\ done \in BOOLEAN
  BY DEF TypeOK
<1>4. TypeOK' = /\ pos' \in 0..(most + TsPacketSize)
                /\ packets' \in Seq([1..TsPacketSize -> {Stray} \cup 1..Size])
                /\ Len(packets') <= MaxPackets /\ done' \in BOOLEAN
  BY <1>1, <1>2 DEF TypeOK, Stray
<1> HIDE DEF most
<1>5. done \in BOOLEAN /\ (UNCHANGED done => done' \in BOOLEAN)
  BY Zenon DEF Bounded, TypeOK
<1>6. CASE UNCHANGED packets /\ done' \in BOOLEAN /\ pos' \in 0..(most + TsPacketSize)
           /\ program # "file" /\ (program = "tsparser" => pos' = pos)
  BY <1>1, <1>3, <1>4, <1>6 DEF Bounded
<1>7. ASSUME NEW from \in Nat, Demux(from), pos' \in 0..(most + TsPacketSize), done' \in BOOLEAN,
             program = "tsparser" => pos' <= Size,
             program = "file" /\ ~done' => pos' <= Size
      PROVE  Bounded'
  <2>1. /\ packets' \in Seq([1..TsPacketSize -> {Stray} \cup 1..Size])
        /\ Len(packets') <= MaxPackets
    BY <1>1, <1>7, TypedPacket
  <2> QED
    BY <1>1, <1>4, <1>7, <2>1 DEF Bounded
<1>8. CASE TsparserPacket
  <2>1. program = "tsparser" /\ pos <= Size
    BY <1>8 DEF TsparserPacket, Bounded
  <2>2. CASE NextSyncs = {}
    <3>1. UNCHANGED <<pos, packets>> /\ done' = TRUE
      BY <1>8, <2>2 DEF TsparserPacket, Finish
    <3> QED
      BY <1>1, <1>2, <1>6, <2>1, <3>1
  <2>3. CASE NextSyncs # {}
    <3> DEFINE sync == Min(NextSyncs)
    <3>1. NextSyncs \in SUBSET Nat /\ \A i \in NextSyncs : 0 < i /\ i <= Size
      BY <1>1 DEF NextSyncs
    <3>2. sync \in Nat /\ 0 < sync /\ sync <= Size
      BY <2>3, <3>1, MinOf
    <3>3. /\ Demux(sync - 1) /\ UNCHANGED done
          /\ pos' = SteppedBack(Min({sync + TsPacketSize, Size}))
      BY <1>8, <2>3 DEF TsparserPacket
    <3> HIDE DEF sync
    <3>4. Min({sync + TsPacketSize, Size}) =
            IF sync + TsPacketSize <= Size THEN sync + TsPacketSize ELSE Size
      <4>1. sync + TsPacketSize \in Nat
        BY <1>1, <3>2
      <4> QED
        BY <1>1, <4>1, MinOfTwo
    <3>5. sync - 1 \in Nat /\ pos' \in Nat /\ pos' <= Size
      BY <1>1, <3>2, <3>3, <3>4 DEF SteppedBack
    <3>6. pos' \in 0..(most + TsPacketSize) /\ done' \in BOOLEAN
      BY <1>1, <1>2, <1>5, <3>3, <3>5
    <3> QED
      BY <1>7, <2>1, <3>3, <3>5, <3>6
  <2> QED
    BY <2>2, <2>3
<1>9. CASE FilePacket
  <2>1. PICK from \in IF packets = <<>> THEN FirstSyncs ELSE {pos} :
          Demux(from) /\ pos' = from + TsPacketSize /\ done' = HitsEnd(from)
    BY <1>9 DEF FilePacket
  <2>2. program = "file"
    BY <1>9 DEF FilePacket
  <2>3. from \in Nat /\ from <= most
    <3>1. CASE packets = <<>>
      <4> DEFINE known == Min({TsPacketSize, Size})
                 syncs == {i \in 1..known : IsSync(i)}
                 least == Min(syncs)
      <4>1. known \in Nat /\ known <= TsPacketSize
        <5>1. known = IF TsPacketSize <= Size THEN TsPacketSize ELSE Size
          BY <1>1, MinOfTwo
        <5> HIDE DEF known
        <5> QED
          BY <1>1, <5>1
      <4>2. from \in IF syncs # {} THEN {least - 1} ELSE known..(known + MaxStray)
        BY <2>1, <3>1, Zenon DEF FirstSyncs
      <4> HIDE DEF known
      <4>3. syncs \in SUBSET Nat /\ \A i \in syncs : 1 <= i /\ i <= known
        BY <4>1
      <4> HIDE DEF syncs
      <4>4. CASE syncs # {}
        <5>1. least \in Nat /\ 1 <= least /\ least <= known
          BY <4>3, <4>4, MinOf
        <5>2. from = least - 1
          BY <4>2, <4>4
        <5> HIDE DEF least
        <5> QED
          BY <1>1, <1>2, <4>1, <5>1, <5>2
      <4>5. CASE syncs = {}
        <5>1. from \in known..(known + MaxStray)
          BY <4>2, <4>5
        <5> QED
          BY <1>1, <1>2, <4>1, <5>1
      <4> QED
        BY <4>4, <4>5
    <3>2. CASE packets # <<>>
      BY <1>1, <1>2, <2>1, <2>2, <3>2 DEF Bounded
    <3> QED
      BY <3>1, <3>2
  <2>4. pos' \in 0..(most + TsPacketSize)
    BY <1>1, <1>2, <2>1, <2>3
  <2>5. done' \in BOOLEAN
    <3>1. HitsEnd(from) \in BOOLEAN
      BY DEF HitsEnd
    <3> QED
      BY <2>1, <3>1, Zenon
  <2>6. ~done' => pos' <= Size
    <3>1. ~HitsEnd(from) => pos' <= Size
      BY <1>1, <2>1, <2>3 DEF HitsEnd
    <3> QED
      BY <2>1, <3>1, Zenon
  <2> QED
    BY <1>7, <2>1, <2>2, <2>3, <2>4, <2>5, <2>6
<1>10. CASE DataPacket
  <2>1. program = "data"
    BY <1>10 DEF DataPacket
  <2>2. CASE Finish
    BY <1>1, <1>2, <1>6, <2>1, <2>2 DEF Finish
  <2>3. CASE Demux(pos) /\ pos' = pos + TsPacketSize /\ UNCHANGED done /\ pos < Size
    <3>1. pos' \in 0..(most + TsPacketSize) /\ done' \in BOOLEAN
      BY <1>1, <1>2, <1>5, <2>3
    <3> QED
      BY <1>1, <1>7, <2>1, <2>3, <3>1
  <2> QED
    BY <1>10, <2>2, <2>3 DEF DataPacket
<1>11. CASE WasmPacket
  <2>1. program = "wasm"
    BY <1>11 DEF WasmPacket
  <2>2. CASE Finish
    BY <1>1, <1>2, <1>6, <2>1, <2>2 DEF Finish
  <2>3. CASE /\ pos + TsPacketSize < Size /\ UNCHANGED done
             /\ \/ Demux(pos) /\ pos' = pos + TsPacketSize
                \/ UNCHANGED packets /\ pos' = SkippedTo(pos)
    <3>1. pos' \in 0..(most + TsPacketSize) /\ done' \in BOOLEAN
      BY <1>1, <1>2, <1>5, <2>3 DEF SkippedTo
    <3> QED
      BY <1>1, <1>6, <1>7, <2>1, <2>3, <3>1
  <2> QED
    BY <1>1, <1>11, <2>2, <2>3 DEF WasmPacket
<1> QED
  BY <1>8, <1>9, <1>10, <1>11 DEF Next

\* Whatever the input, a loop stops at the latest one packet past what it looks
\* at, and gives demux whole packets.
THEOREM AlwaysTyped == Spec => []TypeOK
<1>1. Init => Bounded
  <2> SUFFICES ASSUME Init PROVE Bounded
    OBVIOUS
  <2>1. Size \in Nat /\ TsPacketSize \in Nat /\ MaxStray \in Nat /\ MaxPackets \in Nat
    BY ReaderAssumption DEF Init, Size
  <2>2. Max({Size, TsPacketSize + MaxStray}) + TsPacketSize \in Nat
    <3>1. TsPacketSize + MaxStray \in Nat
      BY <2>1
    <3>2. Max({Size, TsPacketSize + MaxStray}) \in {Size, TsPacketSize + MaxStray}
      BY <2>1, <3>1, MaxOfTwo
    <3> QED
      BY <2>1, <3>1, <3>2
  <2> DEFINE last == Max({Size, TsPacketSize + MaxStray}) + TsPacketSize
  <2>3. /\ TypeOK = /\ pos \in 0..last
                    /\ packets \in Seq([1..TsPacketSize -> {Stray} \cup 1..Size])
                    /\ Len(packets) <= MaxPackets /\ done \in BOOLEAN
        /\ last \in Nat
    BY <2>2 DEF TypeOK
  <2> HIDE DEF last
  <2>4. pos = 0 /\ packets = <<>> /\ done = FALSE
    BY DEF Init
  <2>5. pos \in 0..last /\ pos <= Size
    BY <2>1, <2>3, <2>4
  <2>6. /\ packets \in Seq([1..TsPacketSize -> {Stray} \cup 1..Size])
        /\ Len(packets) <= MaxPackets
    BY <2>1, <2>4
  <2>7. done \in BOOLEAN
    BY <2>4
  <2>8. TypeOK
    BY <2>3, <2>5, <2>6, <2>7, Zenon
  <2> QED
    BY <2>4, <2>5, <2>8 DEF Bounded
<1>2. Reads /\ Bounded /\ [Next]_vars => Bounded'
  <2>1. ASSUME Bounded, UNCHANGED vars PROVE Bounded'
    BY <2>1 DEF vars, Bounded, TypeOK, Size, Stray
  <2> QED
    BY <2>1, BoundedKept
<1>3. Bounded => TypeOK
  BY DEF Bounded
<1> QED
  BY <1>1, <1>2, <1>3, AlwaysReads, PTL DEF Spec
=============================================================================
