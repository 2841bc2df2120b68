------------------------------ MODULE TsSender ------------------------------
(***************************************************************************)
(* The multiplexer at the other end of the stream.  It is not part of the  *)
(* repository; it follows ISO/IEC 13818-1 as far as the parser relies on   *)
(* it, and stands for every legal stream the parser can be given.          *)
(*                                                                         *)
(* It carries the units (sections, PES packets) of a PID one after the     *)
(* other.  units[p][u] says how far unit u of PID p has been sent; cc[p]   *)
(* is the continuity counter of the last packet with payload.              *)
(***************************************************************************)
EXTENDS TsParser, TsStatistics, SequencesExt

CONSTANTS
  Heads,         (* Unit headers the sender may use.                       *)
  AfFlags,       (* Records [disc, clock]: whether an adaptation field may *)
                 (* say that there is a discontinuity, and what time it is.*)
  MaxUnits       (* Bound: units sent on one PID.                          *)

ASSUME SenderAssumption ==
  /\ AfFlags \subseteq [disc : BOOLEAN, clock : BOOLEAN]
  /\ MaxUnits \in Nat

VARIABLES units, cc

Plain == [disc |-> FALSE, clock |-> FALSE]

SizeOrLess(n, size) == IF n <= size THEN n ELSE size

CurrentUnit(p) == Len(units[p])

\* The members of a list that are in S, in their order.
Picked(list, S) == FoldLeft(LAMBDA out, x : IF x \in S THEN Append(out, x) ELSE out, <<>>, list)

\* Cells sent of the units of a list.
CellsOf(list) == FoldLeft(LAMBDA n, unit : n + unit.sent, 0, list)

\* Payload cells of p sent before unit u began, and the position of its first.
SentBefore(p, u) == CellsOf(SubSeq(units[p], 1, u - 1))
StartOf(p, u) == SentBefore(p, u) + 1

\* The position in the stream of the next payload cell of p.
Position(p) == StartOf(p, CurrentUnit(p) + 1)

\* The clock of a PID tells the position of its stream.
Clock(p, flags) == IF flags.clock THEN Position(p) ELSE NoTime

Advance(counter) == (counter + 1) % CCModulus

InitSender ==
  /\ units = [p \in Pids |-> <<>>]
  /\ cc = [p \in Pids |-> CCModulus - 1]

\* A packet with n payload cells; a smaller payload than the packet can hold
\* is made up for with an adaptation field, and only one with room for its
\* flags can say anything.
PayloadPacket(p, start, flags, head, payload) ==
  LET spare == MaxPayload - Len(payload)
  IN  TsPacket(p, start, IF spare = 0 THEN PayloadOnly ELSE AdaptationPayload,
               Advance(cc[p]),
               Adaptation(IF spare = 0 THEN 0 ELSE spare - 1, flags.disc, Clock(p, flags)),
               head, payload)

\* A packet with an adaptation field only does not advance the counter.
AdaptationPacket(p, flags) ==
  TsPacket(p, FALSE, AdaptationOnly, cc[p],
           Adaptation(MaxPayload - 1, flags.disc, Clock(p, flags)), <<>>, <<>>)

\* The sender's state after n more cells of the current unit, or the last
\* `tail` cells of it and the first n of a new one.
MoreSent(list, n) == IF n = 0 THEN list ELSE [list EXCEPT ![Len(list)].sent = @ + n]

BeginUnit(p, tail, head, n) ==
  /\ CurrentUnit(p) < MaxUnits
  /\ units' = [units EXCEPT ![p] = Append(MoreSent(@, tail), [head |-> head, sent |-> n])]
  /\ cc' = [cc EXCEPT ![p] = Advance(@)]

ResumeUnit(p, n) ==
  /\ units' = [units EXCEPT ![p] = MoreSent(@, n)]
  /\ cc' = [cc EXCEPT ![p] = Advance(@)]
=============================================================================
