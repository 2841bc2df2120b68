------------------------------ MODULE Clients -------------------------------
(***************************************************************************)
(* The programs on top of a TsDemuxer, each with a demultiplexer of its    *)
(* own and a stream: which of them runs is chosen at the start.  The three *)
(* are copies of one another that have grown apart; what holds of all of   *)
(* them is stated once.                                                    *)
(***************************************************************************)
EXTENDS TsUtilities, Tsparser, WebAssembly

\* The stages of a call of demux.
Stage ==
  /\ ~exited
  /\ TsStage \/ PsiStage(TRUE) \/ PesStage \/ EndStage
  /\ UNCHANGED <<sender, tables, found, run, phase, demuxed, parse, said>>

Next ==
  \/ program = "TsUtilities" /\ TsUtilities_Next
  \/ program = "tsparser"    /\ tsparser_Next
  \/ program = "WebAssembly" /\ webAsm_Next
  \/ Stage

Spec == Init /\ [][Next]_vars

-----------------------------------------------------------------------------
(* Properties *)

Whole(p) == {u \in DOMAIN units[p] : units[p][u].sent = UnitSize(p, units[p][u].head)}
Unit(p, u) == Cells(p, u, 1, UnitSize(p, units[p][u].head))

\* The loop is between two packets.
Between == stage = "idle" /\ phase = "read" /\ ~exited

\* The units a parse can be blamed for losing: those announced to it that are
\* whole and were not cut by the end of the stream.  A unit that fits a single
\* packet is only given out when the next one starts.
Due(p) ==
  {u \in Whole(p) : u > announced[p] /\ (UnitSize(p, units[p][u].head) > MaxPayload
                                          \/ u < CurrentUnit(p))}

\* tsparser writes the PIDs of -w, but not what its video parsers cannot read.
IsVideo(p) == VideoCalls(p) # <<>>
IsKept(p, u) ==
  program = "tsparser" =>
    p \in options.write /\ options.mode # "ts" /\ (units[p][u].head.readable \/ ~IsVideo(p))

\* What is kept of a unit: all of it, or in mode ES what follows the header,
\* of which a PES packet without optional header has none to be left out.
Part(p, u) ==
  IF options.mode = "es" /\ units[p][u].head.PES_has_optional_header
  THEN SubSeq(Unit(p, u), PesHeaderSize + 2, UnitSize(p, units[p][u].head))
  ELSE Unit(p, u)

\* Every PES packet of a PID that a PMT lists, the PMT being one of those the
\* program follows, is kept from that PMT on, though the callbacks on its way
\* were registered inside or after two other callbacks, in this or an earlier
\* parse, after other PATs, and with packets between that demux gave up.
AnnouncedAreKept ==
  Between =>
    \A p \in PesPids : \A u \in Due(p) :
      IsKept(p, u) => \E i \in DOMAIN kept[p] : kept[p][i].raw = Part(p, u)

\* The cells that have been sent on a PID, their order, and where they are in
\* the file of a PID: in which entry, and where in it.
SentOn(p) == UNION {{<<p, u, k>> : k \in 1..units[p][u].sent} : u \in DOMAIN units[p]}
Precedes(c, d) == UnitOf(c) < UnitOf(d) \/ (UnitOf(c) = UnitOf(d) /\ IndexOf(c) < IndexOf(d))
CellAt(p, place) == kept[p][place[1]].raw[place[2]]
Places(p) == {a \in (DOMAIN kept[p]) \X (1..TsPacketSize) : CellAt(p, a) # Filler}

\* The file of a PID holds every cell that was sent, in the order in which they
\* were, and no other but filler.
FileIsStream(p) ==
  /\ {CellAt(p, a) : a \in Places(p)} = SentOn(p)
  /\ \A a, b \in Places(p) :
       a[1] < b[1] \/ (a[1] = b[1] /\ a[2] < b[2]) => Precedes(CellAt(p, a), CellAt(p, b))

\* What is kept of a PID is in the order of the stream and there once, over all
\* parses; only what a parse of TsUtilities cut off may be less than a packet,
\* and the JSON of a call is about the data of that call.  A file of TS packets
\* holds all packets of its PIDs, those among them that demux gave up.
KeptInOrder ==
  IF options.mode = "ts"
  THEN \A p \in options.write :
         stage \in {"idle", "psi"} /\ callback = NoCallback => FileIsStream(p)
  ELSE \A p \in PesPids : \A i, j \in DOMAIN kept[p] :
         LET u == UnitOf(kept[p][i].raw[1])
         IN  /\ i < j => u < UnitOf(kept[p][j].raw[1])
             /\ IF u \in Whole(p) THEN kept[p][i].raw = Part(p, u) ELSE program = "TsUtilities"
             /\ program = "WebAssembly" => u > before[p]

\* As long as the PAT does not change, the video parsers are given every packet
\* of a video stream that is kept, and once, however often the tables are
\* repeated.  The entry point, which forgets the PMT PIDs of the PAT before,
\* gives them none twice in any case.
VideoUnits(p) == [i \in DOMAIN videoFrames[p] |-> UnitOf(videoFrames[p][i][1])]
KeptUnits(p) == [i \in DOMAIN kept[p] |-> UnitOf(kept[p][i].raw[1])]
Readable(p) == {u \in DOMAIN units[p] : program = "tsparser" => units[p][u].head.readable}
VideoOncePerFrame ==
  \A p \in PesPids :
    /\ program = "WebAssembly" => IsInjective(VideoUnits(p))
    /\ parses = 1 /\ (\A i \in DOMAIN pats : pats[i] = pats[1]) =>
         /\ ~IsVideo(p) => videoFrames[p] = <<>>
         /\ IsVideo(p) /\ kept[p] # <<>> /\ options.mode # "ts" =>
              KeptUnits(p) = SelectSeq(VideoUnits(p), LAMBDA u : u \in Readable(p))

\* The offset in the JSON text is where the packet with the start of the table
\* or PES packet is in the data; but a PES packet that is only given out when
\* the next one starts has the offset of that one.
OffsetsPointAtUnits ==
  program = "WebAssembly" =>
    \A p \in Pids : \A i \in DOMAIN kept[p] :
      LET u == UnitOf(kept[p][i].raw[1])
          atNext == p \in PesPids /\ UnitSize(p, units[p][u].head) <= MaxPayload
      IN  kept[p][i].ofs = starts[p][(IF atNext THEN u + 1 ELSE u) - before[p]]

\* The doc of getPmtTables (TsUtilities.h:203): a map with all PMT tables found
\* in stream.  A PMT that follows a PAT with its PID is in the map.
HasAllPmts ==
  program = "TsUtilities" /\ Between => \A p \in pmtsDue : prevPmts[p] # NoPmt
=============================================================================
