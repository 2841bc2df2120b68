----------------------------- MODULE H264Parser ------------------------------
(***************************************************************************)
(* H264EsParser::analyze (libs/h264codec/src/H264Parser.cc): the headers   *)
(* of NAL units, bit by bit as the code takes them from the unit.  Three   *)
(* members carry data of a sequence parameter set over to slices.          *)
(***************************************************************************)
EXTENDS EsParser

VARIABLES
  log2_max_frame_num_minus4, separate_colour_plane_flag, frame_mbs_only_flag,
  pos,             (* The cursor of the bit reader.                        *)
  info             (* The info under construction.                         *)

spsData == <<log2_max_frame_num_minus4, separate_colour_plane_flag, frame_mbs_only_flag>>
reader  == <<pos, info>>

InitH264 ==
  /\ log2_max_frame_num_minus4 = 0 /\ separate_colour_plane_flag = 0
  /\ frame_mbs_only_flag = 0
  /\ pos = 0 /\ info = <<>>

-----------------------------------------------------------------------------
(* The syntax: how far a row of elements reaches *)

Out == -1          \* The bit reader has run out and thrown.
UE  == -1          \* An element that is an Exp-Golomb code; else its bits.

LeadingZeros(from) ==
  LET ones == {i \in 0..32 : from + i < Bits /\ Bit(from + i) = 1}
  IN  IF ones # {} THEN CHOOSE z \in ones : \A i \in ones : z <= i
      ELSE 33

OneTooMany(from) ==                                                        \* mutant
  LET z == LeadingZeros(from)
  IN  IF z > 32 THEN 0 ELSE 2 ^ z + getBits(from + z + 1, z)

\* More than 32 zeros are given up, as the value 0, after the 33rd.  (The value
\* of 31 or 32 zeros does not fit the int it is computed in: no input has them.)
getBitsDecodeUGolomb(from) ==
  LET z == LeadingZeros(from)
  IN  IF z > 32 THEN 0 ELSE 2 ^ z - 1 + getBits(from + z + 1, z)
Width(from, element) ==
  IF element # UE THEN element
  ELSE IF LeadingZeros(from) > 32 THEN 33 ELSE 2 * LeadingZeros(from) + 1

\* No bits are always there; more than 64 are refused at once.
Next1(from, element) ==
  IF from = Out \/ element > 64 \/ from + Width(from, element) > Bits THEN Out
  ELSE from + Width(from, element)
After(from, elements) == FoldLeft(Next1, from, elements)
Repeated(element, n) == [i \in 1..n |-> element]

\* A flag, and the elements that only follow when it is set.
Optional(from, elements) ==
  LET next == Next1(from, 1)
  IN  IF next # Out /\ Bit(from) = 1 THEN After(next, elements) ELSE next

-----------------------------------------------------------------------------
(* NAL units *)

Slice    == 1
IDRSlice == 5
SEI      == 6
SPS      == 7
PPS      == 8

\* The elements from pos reach to `end`, or the reader throws; members that were
\* assigned before that keep their new value.
ReadTo(end, next, fields) ==
  IF end = Out THEN Throw /\ UNCHANGED reader
  ELSE Go(next) /\ pos' = end /\ info' = fields

AnalyzeNal ==
  /\ codec = H264 /\ phase = "analyze"
  /\ UNCHANGED spsData
  /\ IF Bits = 0 THEN Throw /\ UNCHANGED reader
     ELSE LET nal_unit_type == getBits(3, 5)
          IN  /\ pos' = 8 /\ info' = [nal |-> nal_unit_type]
              /\ CASE nal_unit_type \in {Slice, IDRSlice} -> Go("slice")
                   [] nal_unit_type = SEI -> Go("SEI")
                   [] nal_unit_type = SPS -> Go("profile")
                   [] nal_unit_type = PPS -> Go("PPS")
                   [] OTHER -> Report([nal |-> nal_unit_type])

\* The loop over bytes 0xff takes the byte that ends it, too, so that the type
\* reported is made of the one after, the size.
FFs == CHOOSE n \in 0..(Len(mPicture) - 1) :
         /\ \A i \in 1..n : mPicture[1 + i] = 255
         /\ n + 2 <= Len(mPicture) => mPicture[n + 2] # 255
ReadSEI ==
  /\ phase = "SEI"
  /\ IF FFs + 3 > Len(mPicture) THEN Throw
     ELSE Report([nal |-> SEI, payloadType |-> 255 * FFs + mPicture[FFs + 3]])
  /\ UNCHANGED <<spsData, reader>>

\* entropy_coding_mode_flag is taken for a code, which a flag of 1 makes 0.
ReadPPS ==
  /\ phase = "PPS"
  /\ LET pps == pos
         sps == Next1(pps, UE)
         entropy == Next1(sps, UE)
     IN  IF Next1(entropy, UE) = Out THEN Throw
         ELSE Report([nal |-> PPS, ppsId |-> getBitsDecodeUGolomb(pps),
                      spsId |-> getBitsDecodeUGolomb(sps),
                      entropy |-> IF getBitsDecodeUGolomb(entropy) = 0 THEN "CAVLC" ELSE "CABAC"])
  /\ UNCHANGED <<spsData, reader>>

-----------------------------------------------------------------------------
(* slice_header *)

WithoutFour == log2_max_frame_num_minus4                                   \* mutant
frame_num_bits == (log2_max_frame_num_minus4 + 4) % 256

\* An int keeps the last 32 of the bits it is given.
Low32(bits) == IF Len(bits) > 32 THEN SubSeq(bits, Len(bits) - 31, Len(bits)) ELSE bits

ReadSlice ==
  /\ phase = "slice"
  /\ LET type  == Next1(pos, UE)
         pps   == After(pos, <<UE, UE>>)
         frame_num == After(pps, <<UE>> \o
                        IF separate_colour_plane_flag = 1 THEN <<2>> ELSE <<>>)
         field == Next1(frame_num, frame_num_bits)
         end   == IF field = Out \/ frame_mbs_only_flag = 1 THEN field ELSE Optional(field, <<1>>)
         isField == frame_mbs_only_flag = 0 /\ Bit(field) = 1
     IN  IF end = Out THEN Throw
         ELSE Report([nal |-> info.nal,
                      sliceType |-> getBitsDecodeUGolomb(type),
                      ppsId |-> getBitsDecodeUGolomb(pps),
                      frame_num |-> Low32(BitsOf(frame_num, frame_num_bits)),
                      field |-> isField, top |-> isField /\ Bit(field + 1) = 0])
  /\ UNCHANGED <<spsData, reader>>

-----------------------------------------------------------------------------
(* seq_parameter_set_rbsp, in parts that end where a member is assigned *)

HighProfiles == {100, 110, 122, 244, 44, 83, 86, 118, 128, 138, 139, 134, 135}

ReadProfile ==
  /\ phase = "profile"
  /\ LET id == After(pos, <<8, 3, 1, 1, 3, 8>>)
         profile_idc == getBits(pos, 8)
         end == Next1(id, UE)
     IN  ReadTo(end, IF profile_idc \in HighProfiles THEN "chroma" ELSE "frame_num",
                [nal |-> SPS, profileIdc |-> profile_idc, levelIdc |-> getBits(id - 8, 8),
                 spsId |-> getBitsDecodeUGolomb(id), lumaBits |-> 0, chromaBits |-> 0])
  /\ UNCHANGED spsData

ReadChroma ==
  /\ phase = "chroma"
  /\ LET flag == Next1(pos, UE)
         has  == flag # Out /\ getBitsDecodeUGolomb(pos) = 3
         end  == IF has THEN Next1(flag, UE) ELSE flag
     IN  /\ ReadTo(end, IF has THEN "depth 4:4:4" ELSE "depth", info)
         /\ separate_colour_plane_flag' =
              IF has /\ end # Out THEN getBitsDecodeUGolomb(flag) ELSE separate_colour_plane_flag
  /\ UNCHANGED <<log2_max_frame_num_minus4, frame_mbs_only_flag>>

ReadDepth ==
  /\ phase \in {"depth", "depth 4:4:4"}
  /\ LET chroma == Next1(pos, UE)
         matrix == After(pos, <<UE, UE, 1>>)
         end    == Next1(matrix, 1)
     IN  ReadTo(end, IF Bit(matrix) = 0 THEN "frame_num"
                     ELSE IF phase = "depth" THEN "8 lists" ELSE "12 lists",
                [info EXCEPT !.lumaBits = getBitsDecodeUGolomb(pos) + 8,
                             !.chromaBits = getBitsDecodeUGolomb(chroma) + 8])
  /\ UNCHANGED spsData

\* Codes are read until one makes the next scale 0.  They are signed, and are
\* taken for unsigned ones here.
scaling_list(from, size) ==
  FoldLeft(LAMBDA list, j :
             LET at   == Next1(list.at, UE)
                 next == (list.last + getBitsDecodeUGolomb(list.at)) % 256
             IN  IF list.next = 0 THEN list
                 ELSE IF at = Out THEN [list EXCEPT !.at = Out]
                 ELSE [at |-> at, next |-> next,
                       last |-> IF next = 0 THEN list.last ELSE next],
           [at |-> from, last |-> 8, next |-> 8], [j \in 1..size |-> j]).at

\* Every list has a flag.  List i is written from place i (or i - 6) of an array
\* of its size, so all but the first of a size are written past its end: it may
\* do no harm, or end the process.
ReadMatrix ==
  /\ phase \in {"8 lists", "12 lists"}
  /\ LET ReadList(matrix, i) ==
           LET list == Next1(matrix.at, 1)
           IN  IF list = Out \/ Bit(matrix.at) = 0 THEN [matrix EXCEPT !.at = list]
               ELSE [at |-> scaling_list(list, IF i < 6 THEN 16 ELSE 64),
                     overrun |-> matrix.overrun \/ i \notin {0, 6}]
         matrix == FoldLeft(ReadList, [at |-> pos, overrun |-> FALSE],
                            [i \in 1..(IF phase = "8 lists" THEN 8 ELSE 12) |-> i - 1])
     IN  \/ ReadTo(matrix.at, "frame_num", info)
         \/ /\ matrix.overrun
            /\ phase' = "ended" /\ UNCHANGED <<codec, pictures, mPicture, ret, reader>>
  /\ UNCHANGED spsData

ReadFrameNum ==
  /\ phase = "frame_num"
  /\ LET end == Next1(pos, UE)
     IN  /\ ReadTo(end, "order", info)
         /\ log2_max_frame_num_minus4' =
              IF end = Out THEN log2_max_frame_num_minus4 ELSE getBitsDecodeUGolomb(pos) % 256
  /\ UNCHANGED <<separate_colour_plane_flag, frame_mbs_only_flag>>

\* pic_order_cnt_type and what it brings; an offset takes a bit at least.
OrderEnd(from) ==
  LET next == Next1(from, UE)
      pic_order_cnt_type == getBitsDecodeUGolomb(from)
      cycle == After(next, <<1, UE, UE>>)
      offsets == Next1(cycle, UE)
      n == getBitsDecodeUGolomb(cycle)
  IN  IF next = Out THEN Out
      ELSE CASE pic_order_cnt_type = 0 -> Next1(next, UE)
             [] pic_order_cnt_type = 1 ->
                  IF offsets = Out \/ n > Bits THEN Out ELSE After(offsets, Repeated(UE, n))
             [] OTHER -> next

ReadSize ==
  /\ phase = "order"
  /\ LET refs   == OrderEnd(pos)
         width  == After(refs, <<UE, 1>>)
         height == Next1(width, UE)
         only   == Next1(height, UE)
         end    == Next1(only, 1)
         macroblocks == getBitsDecodeUGolomb(height) + 1
     IN  /\ ReadTo(end, "frame", [field \in DOMAIN info \cup {"numRefPics", "width", "height"} |->
              CASE field = "numRefPics" -> getBitsDecodeUGolomb(refs)
                [] field = "width" -> 16 * (getBitsDecodeUGolomb(width) + 1)
                [] field = "height" -> 16 * (2 - Bit(only)) * macroblocks
                [] OTHER -> info[field]])
         /\ frame_mbs_only_flag' = IF end = Out THEN frame_mbs_only_flag ELSE Bit(only)
  /\ UNCHANGED <<log2_max_frame_num_minus4, separate_colour_plane_flag>>

\* parse_vui up to the timing, the timing, and the rest of it; HRD parameters
\* are not skipped.
TimingFlag(from) ==
  LET aspect == Next1(from, 1)
      extended == Next1(aspect, 8)
      overscan == IF aspect = Out \/ Bit(from) = 0 THEN aspect
                  ELSE IF extended # Out /\ getBits(aspect, 8) = 255
                       THEN After(extended, <<16, 16>>) ELSE extended
      signal == Optional(overscan, <<1>>)
      colour == After(signal, <<1, 3, 1>>)
      chroma == IF signal # Out /\ signal < Bits /\ Bit(signal) = 1
                THEN Optional(colour, <<8, 8, 8>>) ELSE Next1(signal, 1)
  IN  Optional(chroma, <<UE, UE>>)
VuiEnd(from) ==
  LET nal == Optional(TimingFlag(from), <<32, 32, 1>>)
      flags == After(nal, <<1, 1>>)
      hrd == flags # Out /\ 1 \in {Bit(nal), Bit(nal + 1)}
  IN  After(flags, IF hrd THEN <<1, 1, 1>> ELSE <<1, 1>>)

\* The time base is only logged.
ReadFrame ==
  /\ phase = "frame"
  /\ LET cropping == After(pos, IF frame_mbs_only_flag = 1 THEN <<1>> ELSE <<1, 1>>)
         vui      == Optional(cropping, <<UE, UE, UE, UE>>)
         from     == Next1(vui, 1)
         hasVui   == from # Out /\ Bit(vui) = 1
         end      == IF hasVui THEN VuiEnd(from) ELSE from
         hasTiming == hasVui /\ Bit(TimingFlag(from)) = 1
         num_units_in_tick == IF hasTiming THEN BitsOf(TimingFlag(from) + 1, 32) ELSE <<>>
     IN  IF end = Out THEN Throw
         ELSE Report([field \in DOMAIN info \cup {"num_units_in_tick"} |->
                IF field = "num_units_in_tick" THEN num_units_in_tick ELSE info[field]])
  /\ UNCHANGED <<spsData, reader>>

AnalyzeH264 ==
  \/ AnalyzeNal \/ ReadSEI \/ ReadPPS \/ ReadSlice
  \/ ReadProfile \/ ReadChroma \/ ReadDepth \/ ReadMatrix \/ ReadFrameNum \/ ReadSize \/ ReadFrame
=============================================================================
