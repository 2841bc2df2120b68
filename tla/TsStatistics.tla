---------------------------- MODULE TsStatistics ----------------------------
(***************************************************************************)
(* libs/mpeg2ts/src/TsStatistics.cc: what is recorded about one PID.       *)
(*                                                                         *)
(* Each method of the class is an operator from the PidStatistic of a PID  *)
(* to its new value; the collectors chain them in the order of the calls.  *)
(* A histogram counts the differences between successive time stamps, so   *)
(* it is a bag of differences.                                             *)
(***************************************************************************)
EXTENDS Integers, Bags
BagOps == INSTANCE BagsExt

CONSTANT CCModulus    (* Values of the 4-bit continuity counter: 16.       *)

ASSUME CCAssumption == CCModulus \in Nat /\ CCModulus > 2

INVALID_CC == CCModulus     \* a value no packet carries
NoTime     == -1            \* time stamp not present

NextCCUnmasked(cc) == cc + 1                              \* mutant
NextCC(cc) == (cc + 1) % CCModulus

\* The first time stamp starts a track; the later ones are differences.
NewTrack == [last |-> NoTime, histogram |-> EmptyBag, missing |-> 0]

NewPidStatistic ==
  [lastCC |-> INVALID_CC, numberOfCCErrors |-> 0, numberOfTsDiscontinuities |-> 0,
   pts |-> NewTrack, dts |-> NewTrack, pcr |-> NewTrack]

\* A repeated counter is not an error: that is how a packet sent twice, or one
\* without payload, looks.
CCInSequence(last, cc) == last = INVALID_CC \/ cc = last \/ cc = NextCC(last)

checkCCError(s, cc) ==
  [s EXCEPT !.lastCC = cc,
            !.numberOfCCErrors = IF CCInSequence(s.lastCC, cc) THEN @ ELSE @ + 1]

checkTsDiscontinuity(s, isDiscontinuous) ==
  [s EXCEPT !.numberOfTsDiscontinuities = IF isDiscontinuous THEN @ + 1 ELSE @]

SampleKeepingLast(track, t) ==                            \* mutant
  IF track.last = NoTime THEN [track EXCEPT !.last = t]
  ELSE [track EXCEPT !.histogram = BagOps!BagAdd(@, t - track.last)]
Sample(track, t) ==
  IF track.last = NoTime THEN [track EXCEPT !.last = t]
  ELSE [track EXCEPT !.histogram = BagOps!BagAdd(@, t - track.last), !.last = t]

SampleOrMiss(track, t) ==
  IF t = NoTime THEN [track EXCEPT !.missing = @ + 1] ELSE Sample(track, t)

buildPtsHistogram(s, pts) == [s EXCEPT !.pts = SampleOrMiss(@, pts)]
buildDtsHistogram(s, dts) == [s EXCEPT !.dts = SampleOrMiss(@, dts)]

\* A packet without a PCR is not counted as missing one.
buildPcrHistogram(s, pcr) ==
  [s EXCEPT !.pcr = IF pcr = NoTime THEN @ ELSE Sample(@, pcr)]
=============================================================================
