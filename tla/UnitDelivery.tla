---------------------------- MODULE UnitDelivery ----------------------------
(***************************************************************************)
(* What the application may expect of the demultiplexer (mpeg2ts.h:        *)
(* addPsiPid and addPesPid call back with a complete table, a complete PES *)
(* packet): the units of a PID come out whole, in order, each exactly      *)
(* once, and none later than when the next one begins, for as long as none *)
(* of its units has come to harm.                                          *)
(***************************************************************************)
EXTENDS Integers, SequencesExt

CONSTANT Pids

VARIABLES
  sent,          (* Per PID: the units, each the cells of it already sent. *)
  delivered,     (* Per PID: the units called back.                        *)
  harmed         (* PIDs of which nothing is promised any more.            *)

vars == <<sent, delivered, harmed>>

Init ==
  /\ sent = [p \in Pids |-> <<>>]
  /\ delivered = [p \in Pids |-> <<>>]
  /\ harmed = {}

OthersKeep(p) ==
  \A q \in Pids \ {p} : sent'[q] = sent[q] /\ delivered'[q] = delivered[q]

\* A new unit begins.
Begin(p) ==
  /\ sent'[p] # <<>>
  /\ Front(sent'[p]) = sent[p]

\* The unit under way grows; one that was delivered was whole and cannot.
Grow(p) ==
  /\ Len(delivered[p]) < Len(sent[p])
  /\ Len(sent'[p]) = Len(sent[p])
  /\ Front(sent'[p]) = Front(sent[p])
  /\ IsPrefix(Last(sent[p]), Last(sent'[p]))

\* What has been delivered is what was sent, all but the last unit at most.
Deliver(p) ==
  /\ IsPrefix(delivered[p], delivered'[p])
  /\ IsPrefix(delivered'[p], sent'[p])
  /\ Len(delivered'[p]) >= Len(sent'[p]) - 1

\* Nothing is promised of a PID from the first harm on.
Harm(p) == p \in harmed'

Next ==
  /\ harmed \subseteq harmed'
  /\ \E p \in Pids :
       /\ Harm(p) \/ ((Begin(p) \/ Grow(p)) /\ Deliver(p))
       /\ OthersKeep(p)

Spec == Init /\ [][Next]_vars
=============================================================================
