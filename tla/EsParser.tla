------------------------------- MODULE EsParser ------------------------------
(***************************************************************************)
(* The frame both video parsers share (libs/mpeg2ts/src/EsParser.h and the *)
(* parse methods of Mpeg2VideoEsParser and H264EsParser): a buffer is cut  *)
(* at its start codes, and what lies between them is analysed, one piece   *)
(* after the other.  An exception ends the call and takes the infos of all *)
(* pieces with it.                                                         *)
(***************************************************************************)
EXTENDS Integers, SequencesExt

VARIABLES
  codec,           (* Which of the two parsers.                            *)
  pictures,        (* The pieces not yet looked at.                        *)
  mPicture,        (* The piece under analysis.                            *)
  ret,             (* The infos so far.                                    *)
  phase            (* What is being read, or how the call ended.           *)

frame == <<codec, pictures, mPicture, ret, phase>>

Mpeg2 == "mpeg2"
H264  == "h264"
m_startCode == IF codec = Mpeg2 THEN <<0, 0, 1>> ELSE <<0, 0, 0, 1>>

\* Every place, overlapping ones too: the search goes on one byte further.
findStartCodes(a_buf) ==
  LET places == {i \in 0..(Len(a_buf) - Len(m_startCode)) :
                   SubSeq(a_buf, i + 1, i + Len(m_startCode)) = m_startCode}
  IN  SetToSortSeq(places, <)

LastBeforeCode(a_buf, startCodes, ind) ==                                  \* mutant
  IF ind = Len(startCodes) THEN Len(a_buf) ELSE startCodes[ind + 1] - 1
last(a_buf, startCodes, ind) ==
  IF ind = Len(startCodes) THEN Len(a_buf) ELSE startCodes[ind + 1]

Pictures(a_buf) ==
  LET startCodes == findStartCodes(a_buf)
  IN  IF Len(a_buf) <= Len(m_startCode) THEN <<>>
      ELSE [ind \in DOMAIN startCodes |->
              SubSeq(a_buf, startCodes[ind] + Len(m_startCode) + 1,
                     last(a_buf, startCodes, ind))]

InitEs ==
  /\ pictures = <<>> /\ mPicture = <<>> /\ ret = <<>> /\ phase = "idle"

parse(a_buf) ==
  /\ phase = "idle"
  /\ pictures' = Pictures(a_buf) /\ ret' = <<>> /\ phase' = "loop"
  /\ UNCHANGED <<codec, mPicture>>

NextPicture ==
  /\ phase = "loop" /\ pictures # <<>>
  /\ mPicture' = Head(pictures) /\ pictures' = Tail(pictures)
  /\ phase' = "analyze"
  /\ UNCHANGED <<codec, ret>>

ReturnInfos ==
  /\ phase = "loop" /\ pictures = <<>>
  /\ phase' = "returned"
  /\ UNCHANGED <<codec, pictures, mPicture, ret>>

\* How analyze ends: with one info, or with an exception of the bit reader.
Report(info) ==
  /\ ret' = Append(ret, info) /\ phase' = "loop"
  /\ UNCHANGED <<codec, pictures, mPicture>>
Throw ==
  /\ phase' = "thrown"
  /\ UNCHANGED <<codec, pictures, mPicture, ret>>
Go(next) ==
  /\ phase' = next
  /\ UNCHANGED <<codec, pictures, mPicture, ret>>

-----------------------------------------------------------------------------
(* The bits of the piece, the first one of its first byte numbered 0 *)

Bit(i) == (mPicture[(i \div 8) + 1] \div 2 ^ (7 - (i % 8))) % 2
Bits == 8 * Len(mPicture)
BitsOf(from, n) == [i \in 1..n |-> Bit(from + i - 1)]
getBits(from, n) ==
  LET value[i \in 0..n] == IF i = 0 THEN 0 ELSE 2 * value[i - 1] + Bit(from + i - 1)
  IN  value[n]
=============================================================================
