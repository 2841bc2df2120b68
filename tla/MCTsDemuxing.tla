---------------------------- MODULE MCTsDemuxing ----------------------------
(* Instances of TsDemuxing for TLC. *)
EXTENDS TsDemuxing

\* Tables and PES packets of one and of several packets, all of known length.
TwoLengths ==
  {SectionHead(0, PSI_TABLE_ID_PMT, 1), SectionHead(0, PSI_TABLE_ID_PMT, 3),
   PesHeader(3, FALSE, 0, 0, 0), PesHeader(1, FALSE, 0, 0, 0)}

\* A handler for each registration, two of them on one PID.
ManyHandlers ==
  {[kind |-> k[1], pid |-> k[2], hdl |-> k[3]] :
     k \in {<<"psi", 1, "table">>, <<"pes", 2, "packet">>, <<"ts", 2, "raw">>}}
=============================================================================
