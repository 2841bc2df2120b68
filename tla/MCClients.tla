------------------------------ MODULE MCClients -----------------------------
(* Instances of Clients for TLC. *)
EXTENDS Clients

PatOf(list) == SectionHead(0, PSI_TABLE_ID_PAT, 1) @@ [programs |-> list]
PmtOf(on, clock, list) ==
  SectionHead(0, PSI_TABLE_ID_PMT, 1) @@ [pid |-> on, PCR_PID |-> clock, streams |-> list]
PesOf(length, optional, good) == PesHeader(length, optional, 0, 0, 0) @@ [readable |-> good]

Program(kind, on) == [type |-> kind, pid |-> on]
Stream(on, kind) == [elementary_PID |-> on, stream_type |-> kind]

\* A PAT with a network table and two programs, one with the first of them, and
\* one with nothing.
Mpts == PatOf(<<Program(NIT, 9), Program(PMT, 1), Program(PMT, 2)>>)
Spts == PatOf(<<Program(PMT, 1)>>)
Empty == PatOf(<<>>)
Pmts == {PmtOf(1, 3, <<Stream(3, "H264")>>), PmtOf(2, 0, <<Stream(4, "AC3")>>),
         PmtOf(1, 3, <<Stream(3, "H264"), Stream(4, "AC3")>>)}
Pess == {PesOf(1, FALSE, TRUE), PesOf(3, TRUE, FALSE)}

Contents == {Mpts, Spts, Empty} \cup Pmts \cup Pess
Video == {"MPEG2", "H264"}

CommandLines ==
  {[mode |-> "ts", write |-> {1, 3}, print |-> {3}], [mode |-> "es", write |-> {4}, print |-> {3}],
   [mode |-> "pes", write |-> {3, 4}, print |-> {}]}
=============================================================================
