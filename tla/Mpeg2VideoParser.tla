-------------------------- MODULE Mpeg2VideoParser ---------------------------
(* Mpeg2VideoEsParser::analyze (libs/mpeg2codec/src/Mpeg2VideoParser.cc). *)
EXTENDS EsParser

SequenceHeaderCode == 179

\* A picture header of four bytes or less is taken for a system start code.
SliceCodeInfo == [type |-> "SliceCode", picture |-> 0, picType |-> getBits(8 + 10, 3)]

SequenceHeaderInfo ==
  [type |-> "SequenceHeader", picture |-> SequenceHeaderCode,
   width |-> getBits(8, 12), height |-> getBits(20, 12)]

\* Other codes only differ in their message.
PlainInfo(code) == [type |-> "Info", picture |-> code]

\* What may be where the first byte of an empty piece would be.
Stale == {0, 1, 178, SequenceHeaderCode, 184}

AnalyzeEmpty ==
  /\ mPicture = <<>>
  /\ \/ \E code \in Stale : IF code = SequenceHeaderCode THEN Throw ELSE Report(PlainInfo(code))
     \/ Go("crashed")

AnalyzeMpeg2 ==
  /\ codec = Mpeg2 /\ phase = "analyze"
  /\ \/ AnalyzeEmpty
     \/ /\ mPicture # <<>>
        /\ LET code == mPicture[1]
           IN  CASE code = 0 /\ Len(mPicture) > 4 -> Report(SliceCodeInfo)
                 [] code = SequenceHeaderCode /\ Bits < 8 + 12 + 12 + 4 + 4 -> Throw
                 [] code = SequenceHeaderCode /\ Bits >= 8 + 12 + 12 + 4 + 4 ->
                      Report(SequenceHeaderInfo)
                 [] OTHER -> Report(PlainInfo(code))
=============================================================================
