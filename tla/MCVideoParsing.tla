--------------------------- MODULE MCVideoParsing ---------------------------
(* Instances of VideoParsing for TLC: streams as ITU-T H.264 (7.3 and E.1) *)
(* and H.262 (6.2) write them, from syntax elements to bytes.              *)
EXTENDS VideoParsing

\* n as `width` bits; an Exp-Golomb code.
U(width, n) == [i \in 1..width |-> IF width - i > 30 THEN 0 ELSE (n \div 2 ^ (width - i)) % 2]
Ue(n) == LET z == CHOOSE i \in 0..20 : 2 ^ i <= n + 1 /\ n + 1 < 2 ^ (i + 1)
         IN  U(z, 0) \o U(z + 1, n + 1)
Row(rows) == FlattenSeq(rows)

\* A stop bit, zeros up to the byte boundary, and the bytes.
BytesOf(bits) ==
  LET whole == bits \o <<1>> \o U((7 - Len(bits)) % 8, 0)
  IN  [i \in 1..(Len(whole) \div 8) |->
         FoldLeft(LAMBDA n, bit : 2 * n + bit, 0, SubSeq(whole, 8 * i - 7, 8 * i))]

\* A 3 goes before any byte up to 3 that follows two zeros.
Escaped(bytes) ==
  FoldLeft(LAMBDA out, byte :
             IF Len(out) > 1 /\ out[Len(out)] = 0 /\ out[Len(out) - 1] = 0 /\ byte <= 3
             THEN out \o <<3, byte>> ELSE Append(out, byte), <<>>, bytes)

AUD == 9
\* The units that are not slices have no set they could refer to.
NoData == Defaults
Nal(nal, bits, says, data) ==
  LET bytes == <<IF nal \in {SEI, AUD} THEN nal ELSE 96 + nal>> \o BytesOf(bits)
  IN  [bytes |-> Escaped(bytes), says |-> says, data |-> data, code |-> 4,
       escaped |-> Escaped(bytes) # bytes, signed |-> FALSE, shifted |-> FALSE,
       cut |-> FALSE]

-----------------------------------------------------------------------------
(* Parameter sets: s has the fields that differ *)

IsHigh(s) == s.profile \in {100, 244}

\* A scaling matrix: the codes of each list that is there, of a matrix of 8 or 12.
Flat(size) == Repeated(Ue(0), size)
ListOf(s, i) ==
  CASE s.matrix = "flat" /\ i \in {0, 6} -> Flat(IF i = 0 THEN 16 ELSE 64)
    [] s.matrix = "second" /\ i = 1 -> Flat(16)
    [] s.matrix = "default" /\ i = 0 -> <<Ue(16)>>
    [] OTHER -> <<>>
MatrixBits(s) ==
  IF s.matrix = "no" THEN <<0>>
  ELSE <<1>> \o Row([i \in 1..(IF s.chroma = 3 THEN 12 ELSE 8) |->
                      IF ListOf(s, i - 1) = <<>> THEN <<0>> ELSE <<1>> \o Row(ListOf(s, i - 1))])

ChromaBits(s) ==
  IF ~IsHigh(s) THEN <<>>
  ELSE Row(<<Ue(s.chroma), IF s.chroma = 3 THEN <<s.planes>> ELSE <<>>,
             Ue(2), Ue(0), <<0>>, MatrixBits(s)>>)
OrderBits(s) ==
  CASE s.order = 0 -> Ue(0) \o Ue(2)
    [] s.order = 1 -> Row(<<Ue(1), <<0>>, Ue(3), Ue(4), Ue(2), Ue(0), Ue(5)>>)
    [] s.order = 2 -> Ue(2)
FrameBits(s) ==
  Row(<<<<s.only>>, IF s.only = 0 THEN <<1>> ELSE <<>>, <<1>>,
        IF s.crop THEN Row(<<<<1>>, Ue(0), Ue(1), Ue(0), Ue(4)>>) ELSE <<0>>>>)

HasTiming(s) == s.vui \in {"timing", "all"}
Tick(s) == IF s.vui = "all" THEN U(16, 21845) \o U(16, 30000) ELSE U(32, 1)
VuiBits(s) ==
  CASE s.vui = "no" -> <<0>>
    [] s.vui = "empty" -> <<1>> \o U(9, 0)
    [] s.vui = "timing" -> Row(<<<<1>>, U(4, 0), <<1>>, Tick(s), U(32, 50), <<1>>, U(4, 0)>>)
    [] s.vui = "all" ->
         Row(<<<<1>>, <<1>>, U(8, 255), U(16, 4660), U(16, 4660), <<1, 0>>, <<1>>, U(3, 5),
               <<0, 1>>, U(8, 1), U(8, 1), U(8, 1), <<1>>, Ue(1), Ue(0),
               <<1>>, Tick(s), U(16, 21845) \o U(16, 30000), <<1>>,
               <<1>>, Ue(0), U(8, 68), Ue(100), Ue(100), <<1>>, U(20, 699050), <<0, 0, 1, 0>>>>)

SpsUnit(s) ==
  [Nal(SPS, Row(<<U(8, s.profile), U(8, 192), U(8, 40), Ue(s.id), ChromaBits(s), Ue(s.log2),
                 OrderBits(s), Ue(3), <<0>>, Ue(44), Ue(35), FrameBits(s), VuiBits(s)>>),
      [nal |-> SPS, profileIdc |-> s.profile, levelIdc |-> 40, spsId |-> s.id,
       lumaBits |-> IF IsHigh(s) THEN 10 ELSE 0, chromaBits |-> IF IsHigh(s) THEN 8 ELSE 0,
       numRefPics |-> 3, width |-> 720, height |-> 576 * (2 - s.only),
       num_units_in_tick |-> IF HasTiming(s) THEN Tick(s) ELSE <<>>],
      [log2 |-> s.log2, planes |-> s.planes, only |-> s.only])
     EXCEPT !.signed = s.matrix = "default",
            !.shifted = IsHigh(s) /\ s.chroma = 3 /\ s.planes = 0]

Plain1 == [profile |-> 66, id |-> 0, chroma |-> 1, planes |-> 0, log2 |-> 0, order |-> 2,
           only |-> 1, crop |-> FALSE, vui |-> "no", matrix |-> "no"]
\* The profiles, which allow 4:4:4 from 244 on, with and without colour planes.
Formats == {Plain1, [Plain1 EXCEPT !.profile = 100]}
             \cup {[Plain1 EXCEPT !.profile = 244, !.chroma = 3, !.planes = planes] :
                     planes \in 0..1}
ManySps ==
  {[s EXCEPT !.order = order, !.only = only, !.crop = crop, !.vui = vui, !.log2 = 4] :
     s \in Formats, order \in 0..2, only \in 0..1, crop \in BOOLEAN,
     vui \in {"no", "empty", "timing", "all"}}
MatrixSps ==
  {[s EXCEPT !.matrix = matrix, !.log2 = 4] :
     s \in {f \in Formats : IsHigh(f)}, matrix \in {"empty", "flat", "second", "default"}}
Bare == [Plain1 EXCEPT !.only = 0]
FewSps ==
  {Plain1, Bare, [Plain1 EXCEPT !.id = 1, !.log2 = 4, !.only = 0]}
    \cup {[s EXCEPT !.log2 = 2, !.id = 5] : s \in {f \in Formats : f.chroma = 3}}

\* frame_num of up to 16 bits, as the standard has it, and of widths around what
\* an int keeps, what the bit reader gives at once, and what a byte can count.
WideSps ==
  {[Plain1 EXCEPT !.log2 = width - 4, !.only = only] :
     width \in {16, 31, 32, 33, 64, 65, 255, 256, 257, 260}, only \in 0..1}

\* The slices of a set: a frame and, where it allows them, a field.
SliceUnit(s, nal, isField) ==
  LET frame_num == [i \in 1..(s.log2 + 4) |-> IF i % 3 = 1 THEN 1 ELSE 0]
  IN  Nal(nal, Row(<<Ue(0), Ue(7), Ue(s.id), IF s.planes = 1 THEN <<1, 0>> ELSE <<>>, frame_num,
                     IF s.only = 1 THEN <<>> ELSE IF isField THEN <<1, 0>> ELSE <<0>>, U(9, 342)>>),
          [nal |-> nal, sliceType |-> 7, ppsId |-> s.id, frame_num |-> frame_num,
           field |-> isField, top |-> isField], SpsUnit(s).data)
Slices(s) == {SliceUnit(s, IDRSlice, FALSE), SliceUnit(s, Slice, s.only = 0)}

\* A picture parameter set, all of it: the signed codes are 0.
PpsUnit(entropy) ==
  Nal(PPS, Row(<<Ue(1), Ue(5), <<IF entropy = "CABAC" THEN 1 ELSE 0>>, <<0>>, Ue(0), Ue(0), Ue(0),
                 <<0>>, <<0, 0>>, Ue(0), Ue(0), Ue(0), <<1, 0, 0>>>>),
      [nal |-> PPS, ppsId |-> 1, spsId |-> 5, entropy |-> entropy], NoData)
PpsUnits == {PpsUnit(entropy) : entropy \in {"CABAC", "CAVLC"}}
SeiUnit == Nal(SEI, Row(<<U(8, 255), U(8, 5), U(8, 2), U(16, 4660)>>),
               [nal |-> SEI, payloadType |-> 260], NoData)
AudUnit == Nal(AUD, <<1, 1, 1>>, [nal |-> AUD], NoData)

-----------------------------------------------------------------------------
(* Units and calls of both codecs *)

MpegUnit(bytes, says) ==
  [bytes |-> bytes, says |-> says, data |-> NoData, code |-> 3, escaped |-> FALSE,
   signed |-> FALSE, shifted |-> FALSE, cut |-> FALSE]
MpegUnits ==
  {MpegUnit(<<179, 45, 2, 64, 51, 36>>,
            [type |-> "SequenceHeader", picture |-> 179, width |-> 720, height |-> 576]),
   MpegUnit(<<0, 1, 87, 255, 248, 0>>, [type |-> "SliceCode", picture |-> 0, picType |-> 2]),
   MpegUnit(<<184, 0, 8, 0>>, [type |-> "Info", picture |-> 184]),
   MpegUnit(<<17>>, [type |-> "Info", picture |-> 17])}

Short(unit) == [unit EXCEPT !.code = 3]
Cut(unit, n) == [unit EXCEPT !.bytes = SubSeq(@, 1, n), !.cut = TRUE]
Cuts(unit) == {Cut(unit, n) : n \in 0..(Len(unit.bytes) - 1)}

Code(unit) == IF unit.code = 4 THEN <<0, 0, 0, 1>> ELSE <<0, 0, 1>>
CallOf(units, fresh) ==
  [fresh |-> fresh, file |-> FALSE, units |-> units,
   bytes |-> Row([i \in DOMAIN units |-> Code(units[i]) \o units[i].bytes])]

H264Calls(rows) ==
  {[codec |-> H264, calls |-> <<CallOf(row, TRUE)>>] : row \in rows}
Mpeg2Calls ==
  {[codec |-> Mpeg2, calls |-> <<CallOf(units, TRUE)>>] :
     units \in UNION {[1..n -> MpegUnits] : n \in 1..3}
       \cup {<<a, c>> : a \in MpegUnits, c \in UNION {Cuts(u) : u \in MpegUnits}}
       \cup {<<c>> : c \in UNION {Cuts(u) : u \in MpegUnits}}}

\* Two sets, one after the other or in two calls, and slices of either.  A set
\* that is cut short may end the call it is in; the next call has slices, or
\* another set first; or that other set came behind it in the first call.
SomeSlices == UNION {Slices(s) : s \in FewSps}
TwoSets ==
  {[codec |-> H264, calls |-> <<CallOf(<<SpsUnit(a), x, SpsUnit(b), y>>, TRUE)>>] :
     a \in FewSps, b \in FewSps, x \in {SeiUnit} \cup PpsUnits, y \in SomeSlices}
  \cup
  {[codec |-> H264, calls |-> <<CallOf(<<a>>, TRUE), CallOf(<<y, AudUnit>>, fresh)>>] :
     a \in UNION {{SpsUnit(s)} \cup Cuts(SpsUnit(s)) : s \in FewSps},
     y \in SomeSlices, fresh \in BOOLEAN}
  \cup
  UNION {{[codec |-> H264, calls |-> <<CallOf(<<a>>, TRUE), CallOf(<<SpsUnit(b), y>>, FALSE)>>],
          [codec |-> H264, calls |-> <<CallOf(<<a, SpsUnit(b)>>, TRUE), CallOf(<<y>>, FALSE)>>]} :
           a \in UNION {Cuts(SpsUnit(s)) : s \in FewSps}, b \in FewSps, y \in SomeSlices}

\* Parameter sets of every shape, units behind a shorter start code, units that
\* are cut short, one too full of zeros, and slices without a set.
Rows ==
  {<<SpsUnit(s), y>> : s \in ManySps \cup MatrixSps, y \in {SeiUnit} \cup PpsUnits}
  \cup UNION {{<<SpsUnit(s), y, AudUnit>> : y \in Slices(s)} : s \in WideSps}
  \cup {<<AudUnit, Short(pps), SeiUnit, Short(SpsUnit(s))>> : pps \in PpsUnits, s \in FewSps}
  \cup {<<AudUnit, c>> : c \in UNION {Cuts(u) : u \in {SeiUnit} \cup PpsUnits \cup Slices(Plain1)}}
  \cup {<<pps, Cut(Nal(SPS, U(8, 66) \o U(64, 0), [nal |-> SPS], NoData), n)>> :
           pps \in PpsUnits, n \in 2..8}
  \cup {<<AudUnit, y>> : y \in SomeSlices}

\* Files for h264parser, with and without a byte that passes for white space:
\* the first byte of an access unit delimiter is one.
Files ==
  {[codec |-> H264, calls |-> <<[CallOf(<<x, SpsUnit(a), y>>, TRUE) EXCEPT !.file = TRUE]>>] :
     x \in {AudUnit} \cup PpsUnits, a \in FewSps, y \in SomeSlices}

AllStreams == Mpeg2Calls \cup TwoSets \cup H264Calls(Rows) \cup Files
TimedStreams ==
  H264Calls({<<SpsUnit(s)>> : s \in {x \in ManySps : ~SpsUnit(x).shifted}})
=============================================================================
