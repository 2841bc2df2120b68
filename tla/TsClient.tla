------------------------------ MODULE TsClient ------------------------------
(***************************************************************************)
(* What the three programs on top of a TsDemuxer have in common: the       *)
(* class TsUtilities, the command line tsparser and webAsmEntryPoint.      *)
(* Each has the same five variables under its own names (mPrevPat and      *)
(* g_prevPat, mPmtPids and g_PMTPIDS, ...), finds the PMTs from the PAT    *)
(* and the elementary streams from the PMTs, and keeps what it is given.   *)
(*                                                                         *)
(* The stream is that of TsSender.  The head of a PAT has its programs,    *)
(* that of a PMT its streams, as the parsers decode them, and that of a    *)
(* PES packet says whether the video parsers can read its data.            *)
(***************************************************************************)
EXTENDS TsDemuxer, TsSender

CONSTANTS
  PmtPids, PesPids,     (* The PIDs that carry PMTs, PES packets.          *)
  VideoTypes,           (* The stream types of MPEG2 and H.264 video.      *)
  Programs,             (* The programs that may run.                      *)
  Options,              (* Command lines: write mode, the PIDs of -w and   *)
                        (* those of -p.                                    *)
  MaxPackets,           (* Bound: packets demultiplexed.                   *)
  MaxParses             (* Bound: parses, or calls of the entry point.     *)

ASSUME ClientAssumption ==
  /\ PmtPids \cup PesPids \subseteq Pids \ {0, NullPid} /\ 0 \in Pids /\ NullPid # 0
  /\ PmtPids \cap PesPids = {}
  /\ Programs \subseteq {"TsUtilities", "tsparser", "WebAssembly"}
  /\ Options \subseteq [mode : {"ts", "pes", "es"}, write : SUBSET Pids, print : SUBSET Pids]

\* What a table of the given kind says, and that it fits in a packet behind its
\* pointer_field.
IsTable(head, table_id) ==
  /\ head.pointer_field = 0 /\ head.table_id = table_id
  /\ head.section_length \in Nat
  /\ head.section_length + TableHeaderSize \in SectionHeaderSize..(MaxPayload - 1)

\* The PIDs that a PAT says carry PMTs carry them, those of the streams of a PMT
\* and of its clock carry no tables; an optional header is there.
ASSUME ClientHeadsAssumption ==
  \A h \in Heads :
    /\ "programs" \in DOMAIN h =>
         /\ IsTable(h, PSI_TABLE_ID_PAT)
         /\ h.programs \in Seq([type : {"NIT", "PMT"}, pid : Pids \ ({0} \cup PesPids)])
         /\ \A i \in DOMAIN h.programs : h.programs[i].type = "PMT" => h.programs[i].pid \in PmtPids
    /\ "streams" \in DOMAIN h =>
         /\ IsTable(h, PSI_TABLE_ID_PMT)
         /\ h.streams \in Seq(Range(h.streams))
         /\ \A i \in DOMAIN h.streams : h.streams[i].elementary_PID \in Pids \ ({0} \cup PmtPids)
         /\ h.PCR_PID \in Pids \ PmtPids
    /\ "PES_packet_length" \in DOMAIN h =>
         /\ h.PES_packet_length \in Nat
         /\ h.PES_has_optional_header => h.PES_packet_length >= 2

VARIABLES
  program, options,
  prevPat, pmtPids, prevPmts, esPids, addedPmts,
  kept,                 (* Per PID: mPesPackets, the file, or the JSON array. *)
  mVideoMediaInfo,
  videoFrames,          (* Per PID: what the video parsers were given.     *)
  exited,               (* The process has ended.                          *)
  phase,                (* Where the loop over the packets stands.         *)
  parses, demuxed,      (* Parses begun, packets given to demux.           *)
  opened,               (* Packets demultiplexed before this parse.        *)
  before,               (* History, per PID: units of earlier parses.      *)
  starts,               (* History, per PID: the positions of the units of *)
                        (* this parse.                                     *)
  pats, lastPat,        (* History: the PATs of this parse, and the last   *)
                        (* one of the parse before.                        *)
  pmtsSeen,             (* History, per PID: the PMTs of this parse.       *)
  announced,            (* History, per PID: units begun when a PMT that   *)
                        (* lists it was found through a PAT.               *)
  pmtsDue               (* History: PIDs whose PMT followed a PAT that     *)
                        (* lists them, in this parse.                      *)

tables  == <<prevPat, pmtPids, prevPmts, esPids, addedPmts>>
found   == <<kept, mVideoMediaInfo, videoFrames>>
demuxer == <<registrations, mOrigin, statistics, collectors, stage, current, callback>>
sender  == <<units, cc>>
said    == <<starts, pats, pmtsSeen, announced, pmtsDue>>
parse   == <<parses, opened, before, lastPat>>
run     == <<program, options, exited>>
vars    == <<demuxer, sender, tables, found, run, phase, demuxed, parse, said>>

NoPat   == [table_id |-> "none"]
NoPmt   == [table_id |-> "none"]
Unknown == MaxUnits + 1
NIT == "NIT"
PMT == "PMT"

\* No PMT is known, nothing is registered for later.
NoPmts == [p \in PmtPids |-> NoPmt]

Init ==
  /\ InitDemuxer /\ InitSender
  /\ program \in Programs
  /\ options \in IF program = "tsparser" THEN Options ELSE {[mode |-> "pes", write |-> {}, print |-> {}]}
  /\ prevPat = NoPat /\ pmtPids = <<>> /\ prevPmts = NoPmts /\ esPids = <<>> /\ addedPmts = FALSE
  /\ kept = [p \in Pids |-> <<>>] /\ videoFrames = [p \in PesPids |-> <<>>]
  /\ mVideoMediaInfo = [PID |-> -1, codec |-> "unset"]
  /\ exited = FALSE /\ phase = "read" /\ parses = 0 /\ demuxed = 0 /\ opened = 0
  /\ before = [p \in Pids |-> 0] /\ starts = [p \in Pids |-> <<>>]
  /\ pats = <<>> /\ lastPat = NoPat /\ pmtsSeen = [p \in PmtPids |-> {}]
  /\ announced = [p \in PesPids |-> Unknown] /\ pmtsDue = {}

-----------------------------------------------------------------------------
(* Callbacks *)

\* The head of the unit that the raw bytes of a callback begin.
HeadOf(raw) == units[PidOf(raw[1])][UnitOf(raw[1])].head

\* Operator == of two PATs.
NeverSame(pat) == FALSE                                                    \* mutant
SamePat(pat) == prevPat = pat

\* The PMT PIDs of a PAT: a single program counts whatever it is; of several,
\* the PMTs.
OnlyFirst(programs) == <<programs[1].pid>>                                 \* mutant
NewPmtPids(programs) ==
  LET counted == IF Len(programs) = 1 THEN programs ELSE Picked(programs, [type : {PMT}, pid : Pids])
  IN  [i \in DOMAIN counted |-> counted[i].pid]

ElementaryPids(streams) == [i \in DOMAIN streams |-> streams[i].elementary_PID]

\* The stream of a PID in the PMT of another, and whether it is video.
StreamsOf(pmtPid, pid) ==
  IF pmtPid \notin PmtPids \/ prevPmts[pmtPid] = NoPmt THEN <<>>
  ELSE LET streams == prevPmts[pmtPid].streams
       IN  Picked(streams, {s \in Range(streams) : s.elementary_PID = pid})
ListsVideo(pmtPid, pid) ==
  StreamsOf(pmtPid, pid) # <<>> /\ Head(StreamsOf(pmtPid, pid)).stream_type \in VideoTypes

\* The entries of pmtPids whose PMT lists the PID as video: a PES packet is
\* given to a video parser once for each.
VideoCalls(pid) == Picked(pmtPids, {q \in Range(pmtPids) : ListsVideo(q, pid)})

\* What is kept at a callback: some bytes, an origin, and the PIDs of a table.
Entry(raw, ofs, pids) == [raw |-> raw, ofs |-> ofs, pids |-> pids]
Keep(pid, entry) == kept' = [kept EXCEPT ![pid] = Append(@, entry)]

\* A callback returns, or an exception of the bit reader leaves it and demux,
\* which does not count the packet; the loop over the packets catches it.
Return == callback' = NoCallback /\ UNCHANGED <<stage, current>>
Throw  == callback' = NoCallback /\ stage' = "idle" /\ current' = NoPacket

\* What a callback leaves alone.
UnderCallback == UNCHANGED <<mOrigin, statistics, collectors, sender, program, options,
                             phase, demuxed, parse, said>>

-----------------------------------------------------------------------------
(* The stream *)

UnitSize(p, head) ==
  IF p \in PesPids THEN head.PES_packet_length + PesHeaderSize
  ELSE head.section_length + TableHeaderSize

\* A stream begins with the start of a unit on every PID.
Left(p) ==
  IF CurrentUnit(p) = before[p] THEN 0 ELSE UnitSize(p, Last(units[p]).head) - Last(units[p]).sent

Lead(p) == IF p \in PesPids THEN <<>> ELSE <<Filler>>

HeadsOf(p) ==
  {h \in Heads : CASE p = 0           -> "programs" \in DOMAIN h
                   [] p \in PmtPids   -> "streams" \in DOMAIN h /\ h.pid = p
                   [] p \in PesPids   -> "PES_packet_length" \in DOMAIN h}

\* The PIDs of the PMTs that a PAT lists.
Listed(pat) == {g.pid : g \in {h \in Range(pat.programs) : h.type = PMT}}

\* The PATs of this parse that are acted upon.  TsUtilities and tsparser
\* register the PMT PIDs of the first one only, the entry point those of every
\* PAT that is not the same as the one before, be it of an earlier call.
Follows(i) ==
  IF program = "WebAssembly" THEN pats[i] # (IF i = 1 THEN lastPat ELSE pats[i - 1])
  ELSE i = 1
Followed == UNION {Listed(pats[i]) : i \in {j \in DOMAIN pats : Follows(j)}}

\* What the stream says with a table: the PATs and PMTs so far, the PMTs they
\* make due, and the elementary streams of the programs followed.  Only the
\* first PMT of a PID counts, so a PMT that has changed announces nothing.
Says(p, head) ==
  /\ pats' = IF p = 0 THEN Append(pats, head) ELSE pats
  /\ pmtsSeen' = IF p \in PmtPids THEN [pmtsSeen EXCEPT ![p] = @ \cup {head}] ELSE pmtsSeen
  /\ pmtsDue' = IF \E pat \in Range(pats) : p \in Listed(pat) THEN pmtsDue \cup {p} ELSE pmtsDue
  /\ announced' =
       IF p \in Followed /\ pmtsSeen[p] \subseteq {head}
       THEN [e \in PesPids |->
               IF announced[e] = Unknown /\ e \in Range(ElementaryPids(head.streams))
               THEN CurrentUnit(e) ELSE announced[e]]
       ELSE announced
  /\ starts' = IF program = "WebAssembly"
               THEN [starts EXCEPT ![p] = Append(@, (demuxed - opened) * TsPacketSize)]
               ELSE starts

\* Tables take one packet.
FeedStart(p) ==
  /\ Left(p) = 0
  /\ \E head \in HeadsOf(p) :
       LET n == SizeOrLess(MaxPayload - Len(Lead(p)), UnitSize(p, head))
       IN  /\ demux(PayloadPacket(p, TRUE, Plain, head,
                                  Lead(p) \o Cells(p, CurrentUnit(p) + 1, 1, n)))
           /\ BeginUnit(p, 0, head, n)
           /\ Says(p, head)

FeedMore(p) ==
  /\ Left(p) > 0
  /\ LET unit == Last(units[p])
         n == SizeOrLess(MaxPayload, Left(p))
     IN  /\ demux(PayloadPacket(p, FALSE, Plain, unit.head,
                                Cells(p, CurrentUnit(p), unit.sent + 1, unit.sent + n)))
         /\ ResumeUnit(p, n)
  /\ UNCHANGED said

\* The next packet of the stream is given to demux.
Feed ==
  /\ ~exited /\ parses > 0 /\ demuxed < MaxPackets
  /\ \E p \in {0} \cup PmtPids \cup PesPids : FeedStart(p) \/ FeedMore(p)
  /\ demuxed' = demuxed + 1
  /\ UNCHANGED <<tables, found, run, parse>>

\* A parse begins: the stream that follows is another one.  One without packets
\* changes nothing that the next does not, and is left out.
NewStream ==
  /\ ~exited /\ stage = "idle" /\ phase = "read" /\ parses < MaxParses
  /\ parses = 0 \/ demuxed > opened
  /\ parses' = parses + 1 /\ opened' = demuxed
  /\ before' = [p \in Pids |-> CurrentUnit(p)]
  /\ lastPat' = IF pats = <<>> THEN lastPat ELSE Last(pats)
  /\ pats' = <<>> /\ pmtsSeen' = [p \in PmtPids |-> {}]
  /\ announced' = [p \in PesPids |-> Unknown] /\ pmtsDue' = {}
  /\ starts' = [p \in Pids |-> <<>>]
  /\ UNCHANGED <<sender, run, phase, demuxed>>
=============================================================================
