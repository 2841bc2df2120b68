---------------------------- MODULE VideoParsing -----------------------------
(***************************************************************************)
(* A video parser in use: calls of parse on one object after the other, as *)
(* tsparser and the page make them, on the same object, as the interface   *)
(* allows, or one call on a file, as the command line h264parser makes it. *)
(* What a stream holds is known beside its bytes.                          *)
(***************************************************************************)
EXTENDS H264Parser, Mpeg2VideoParser

CONSTANT
  Inputs           (* [codec, calls], the calls a sequence of              *)
                   (* [fresh, file, bytes, units]: whether the call is     *)
                   (* made on a new object, whether the bytes come from a  *)
                   (* file, and the units they hold, each                  *)
                   (* [bytes, says, data, code, escaped, signed, shifted,  *)
                   (* cut]: the info it should give; of an SPS, or of the  *)
                   (* one a slice refers to, what slices need; the length  *)
                   (* of its start code; if emulation prevention put bytes *)
                   (* in it; if it has a scaling list with codes other     *)
                   (* than 0; if it is a 4:4:4 set without colour planes;  *)
                   (* if it is short.                                      *)

VARIABLES
  calls,           (* Calls to come, the one under way first.              *)
  made             (* History: calls made, with how they ended.            *)

vars == <<frame, spsData, reader, calls, made>>

Init ==
  /\ InitEs /\ InitH264 /\ made = <<>>
  /\ \E input \in Inputs : codec = input.codec /\ calls = input.calls

\* h264parser reads its file with operator >>, which skips white space.
WhiteSpace == (9..13) \cup {32}
readFile(bytes) == SelectSeq(bytes, LAMBDA byte : byte \notin WhiteSpace)

\* A new object has members of its own.
Call ==
  /\ calls # <<>>
  /\ parse(IF calls[1].file THEN readFile(calls[1].bytes) ELSE calls[1].bytes)
  /\ IF calls[1].fresh
     THEN /\ log2_max_frame_num_minus4' = 0 /\ separate_colour_plane_flag' = 0
          /\ frame_mbs_only_flag' = 0
     ELSE UNCHANGED spsData
  /\ UNCHANGED <<reader, calls, made>>

\* An application catches the exception and goes on with the next call.
End ==
  /\ phase \in {"returned", "thrown"}
  /\ made' = Append(made, [call |-> calls[1], how |-> phase, infos |-> ret])
  /\ calls' = Tail(calls) /\ phase' = "idle"
  /\ UNCHANGED <<codec, pictures, mPicture, ret, spsData, reader>>

Analyze ==
  \/ AnalyzeMpeg2 /\ UNCHANGED <<spsData, reader>>
  \/ AnalyzeH264

Loop == (NextPicture \/ ReturnInfos) /\ UNCHANGED <<spsData, reader>>

Next ==
  \/ Call \/ End
  \/ (Loop \/ Analyze) /\ UNCHANGED <<calls, made>>

Spec == Init /\ [][Next]_vars

-----------------------------------------------------------------------------
(* Properties *)

\* The H.264 parser only knows start codes of four bytes; a unit behind a
\* shorter one is the end of the unit before.  A call on a start code and
\* nothing else is not looked into.
Found(k) ==
  IF Len(made[k].call.bytes) <= Len(m_startCode) THEN <<>>
  ELSE SelectSeq(made[k].call.units, LAMBDA unit : codec = Mpeg2 \/ unit.code = 4)

\* A file can lose bytes of a unit, but not those of a start code.  Streams that
\* get more start codes by it are left out.
Loses(k, unit) ==
  made[k].call.file /\ \E i \in DOMAIN unit.bytes : unit.bytes[i] \in WhiteSpace
IsFramed(k) ==
  made[k].call.file =>
    LET bytes == made[k].call.bytes
    IN  Len(findStartCodes(readFile(bytes))) = Len(findStartCodes(bytes))

\* The parser gets out of step with the elements of a unit: bytes are lost, or
\* there are some too many (it does not take emulation prevention out); or it
\* takes the one bit of separate_colour_plane_flag, when it is 0, for a longer
\* code.  In a scaling list with negative codes it may read on behind the list.
IsOutOfStep(k, unit) == Loses(k, unit) \/ unit.escaped \/ unit.shifted
IsHarmed(k, unit) == IsOutOfStep(k, unit) \/ unit.signed \/ unit.cut

IsSlice(unit) == codec = H264 /\ unit.says.nal \in {Slice, IDRSlice}
IsSEI(unit) == codec = H264 /\ unit.says.nal = SEI
IsPPS(unit) == codec = H264 /\ unit.says.nal = PPS

\* The units of a call that were looked at: a unit that makes it throw is last.
SeenOf(k) == SubSeq(Found(k), 1, Min({Len(made[k].infos) + 1, Len(Found(k))}))

\* The sequence parameter sets an object has seen before unit j of call k.
FirstOf(k) == CHOOSE n \in 1..k : (made[n].call.fresh \/ n = 1)
                                  /\ \A m \in (n + 1)..k : ~made[m].call.fresh
ParameterSets(k, j) ==
  LET Marked(m, units) ==
        [i \in DOMAIN units |-> [unit |-> units[i], harmed |-> IsHarmed(m, units[i]),
                                 outOfStep |-> IsOutOfStep(m, units[i])]]
      earlier == FlattenSeq([i \in 1..(k - FirstOf(k)) |->
                               Marked(FirstOf(k) + i - 1, SeenOf(FirstOf(k) + i - 1))])
  IN  SelectSeq(earlier \o Marked(k, SubSeq(Found(k), 1, j - 1)),
                LAMBDA set : codec = H264 /\ set.unit.says.nal = SPS)

\* The object knows the set of the slice: it is the last it was given, and not
\* harmed; or it was given none, and the members a new object has are right.
\* Those before may have been cut short, but none was out of step: it could
\* leave a flag for colour planes behind, which no set without one clears.
Defaults == [log2 |-> 0, planes |-> 0, only |-> 0]
IsKnown(slice, sets) ==
  /\ slice.data = IF sets = <<>> THEN Defaults ELSE Last(sets).unit.data
  /\ sets # <<>> => ~Last(sets).harmed
  /\ \A i \in DOMAIN sets : ~sets[i].outOfStep

\* Bits of frame_num in the stream, and what the parser can take of them.  A
\* width above 255 wraps, and then the field after it is not where it is read.
FrameNumBits(slice) == slice.data.log2 + 4
IsInReach(slice) ==
  /\ FrameNumBits(slice) % 256 <= 64
  /\ FrameNumBits(slice) > 255 => slice.data.only = 1

\* The slice can be read by what is known of its set.  The code has no colour
\* plane to skip: it takes a separate_colour_plane_flag of 1 for the code of 0.
IsReadable(k, j) ==
  LET slice == Found(k)[j]
  IN  /\ ~IsHarmed(k, slice) /\ slice.data.planes = 0
      /\ IsKnown(slice, ParameterSets(k, j)) /\ IsInReach(slice)

Kind(said) == IF codec = Mpeg2 THEN <<said.type, said.picture>> ELSE said.nal

\* Every unit behind a start code is found and reported as what it is, once and
\* in order: none is cut short or joined with the next by its start codes.  A
\* call that ends with an exception has reached a unit that is harmed, legal
\* 4:4:4 sets and scaling lists among them, or a slice it has no set for; all
\* others have the bits the parser asks for.  What has lost its first byte, or
\* of a cut MPEG-2 unit more, may be taken for something else.
UnitsAreFound ==
  \A k \in DOMAIN made : IsFramed(k) =>
    LET found == Found(k)
        n == Len(made[k].infos)
    IN  /\ made[k].how = "returned" => n = Len(found)
        /\ made[k].how = "thrown" =>
             /\ n < Len(found)
             /\ IsHarmed(k, found[n + 1])
                \/ (IsSlice(found[n + 1]) /\ ~IsReadable(k, n + 1))
        /\ \A j \in 1..n :
             \/ Loses(k, found[j]) \/ (codec = Mpeg2 /\ found[j].cut)
             \/ Kind(made[k].infos[j]) = Kind(found[j].says)

\* The entropy coding mode comes out as the other one: see ReadPPS.
Other(mode) == IF mode = "CABAC" THEN "CAVLC" ELSE "CABAC"
Read(unit) == IF IsPPS(unit) THEN [unit.says EXCEPT !.entropy = Other(@)] ELSE unit.says

\* Parameter sets, sequence headers and picture headers that are not harmed are
\* read back as they were written, whatever optional parts they have, but for
\* the entropy coding mode.  That leaves 4:4:4 sets without colour planes out,
\* scaling lists with codes other than 0, and SEI units: their type is taken
\* from the byte after it.
HeadersAreRead ==
  \A k \in DOMAIN made : made[k].how = "returned" /\ IsFramed(k) =>
    \A j \in DOMAIN made[k].infos \cap DOMAIN Found(k) :
      LET unit == Found(k)[j]
      IN  IsSlice(unit) \/ IsSEI(unit) \/ IsHarmed(k, unit) \/ made[k].infos[j] = Read(unit)

\* A slice header that can be read by the set it refers to is read back as it
\* was written, across calls, sets that were cut short and changes of the set:
\* 32 bits of frame_num at most, and of a width that wraps only what is over.
SlicesAreRead ==
  \A k \in DOMAIN made : made[k].how = "returned" /\ IsFramed(k) =>
    \A j \in DOMAIN made[k].infos \cap DOMAIN Found(k) :
      LET unit == Found(k)[j]
      IN  IsSlice(unit) /\ IsReadable(k, j) =>
            made[k].infos[j] = [unit.says EXCEPT !.frame_num =
                                  Low32(SubSeq(@, 1, FrameNumBits(unit) % 256))]

\* The time base logged is that of the parameter set.  H264Parser.cc:601-602
\* says of parse_vui that everything up to it seems fine and it comes out wrong.
TimingIsRead ==
  \A k \in DOMAIN made : made[k].how = "returned" =>
    \A j \in DOMAIN made[k].infos \cap DOMAIN Found(k) :
      Found(k)[j].says.nal = SPS =>
        made[k].infos[j].num_units_in_tick = Found(k)[j].says.num_units_in_tick
=============================================================================
