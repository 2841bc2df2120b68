---------------------------- MODULE WebAssembly -----------------------------
(***************************************************************************)
(* webAsmEntryPoint (apps/WebAssembly/src/main.cc), which the page calls   *)
(* for each file that is opened.  It gives demux the position of every     *)
(* packet and notes in a JSON text, per PID, where each table and PES      *)
(* packet was.  kept[p] is the JSON array of PID p.                        *)
(*                                                                         *)
(* The options -w and -p are those of tsparser, from which this code was   *)
(* taken; here they are always empty, and nothing is written or printed.   *)
(***************************************************************************)
EXTENDS TsClient

getOrigin(pid) == mOrigins[pid]

\* Every PAT is noted.  A new one clears the PMT PIDs and has them registered.
KeepOld == UNCHANGED addedPmts                                          \* mutant
Renew == addedPmts' = FALSE

webAsm_PATCallback(pat) ==
  /\ IF SamePat(pat) THEN UNCHANGED <<prevPat, pmtPids, addedPmts, exited>>
     ELSE /\ prevPat' = pat
          /\ pmtPids' = IF pat.programs = <<>> THEN <<>> ELSE NewPmtPids(pat.programs)
          /\ exited' = (pat.programs = <<>>)
          /\ Renew
  /\ Keep(0, Entry(callback.raw, getOrigin(0), IF SamePat(pat) THEN <<>> ELSE pmtPids'))
  /\ Return
  /\ UNCHANGED <<prevPmts, esPids, videoFrames>>

\* Every PMT is noted.  The first of its PID gives the elementary streams, and
\* the PID of its clock.
webAsm_PMTCallback(pid, pmt) ==
  LET streams == ElementaryPids(pmt.streams)
      same    == prevPmts[pid] # NoPmt
  IN  /\ Keep(pid, Entry(callback.raw, getOrigin(pid), IF same THEN <<>> ELSE streams))
      /\ IF same THEN UNCHANGED <<prevPmts, esPids>>
         ELSE /\ prevPmts' = [prevPmts EXCEPT ![pid] = pmt]
              /\ esPids' = esPids \o (streams \o (IF pmt.PCR_PID # 0 THEN <<pmt.PCR_PID>> ELSE <<>>))
      /\ Return
      /\ UNCHANGED <<prevPat, pmtPids, addedPmts, videoFrames, exited>>

\* Every PES packet is noted before the video parsers see it; one that they
\* cannot read makes the bit reader throw.
webAsm_PESCallback(pid, raw) ==
  LET throws == VideoCalls(pid) # <<>> /\ ~HeadOf(raw).readable
      calls  == IF throws THEN <<Head(VideoCalls(pid))>> ELSE VideoCalls(pid)
  IN  /\ Keep(pid, Entry(raw, getOrigin(pid), <<>>))
      /\ videoFrames' = [videoFrames EXCEPT ![pid] = @ \o [i \in DOMAIN calls |-> raw]]
      /\ IF throws THEN Throw ELSE Return
      /\ UNCHANGED <<tables, exited>>

webAsm_Callback ==
  /\ callback # NoCallback /\ ~exited
  /\ CASE callback.kind = "pes" -> webAsm_PESCallback(callback.pid, callback.raw)
       [] callback.kind = "psi" /\ callback.pid = 0 -> webAsm_PATCallback(HeadOf(callback.raw))
       [] callback.kind = "psi" /\ callback.pid # 0 ->
            webAsm_PMTCallback(callback.pid, HeadOf(callback.raw))
  /\ UnderCallback
  /\ UNCHANGED <<registrations, mVideoMediaInfo>>

-----------------------------------------------------------------------------
(* webAsmEntryPoint *)

\* The call makes a new demultiplexer and clears the globals, but not the last
\* PAT: `PatTable g_prevPat;` declares a local variable of that name.
webAsmEntryPoint ==
  /\ NewStream
  /\ pmtPids' = <<>> /\ esPids' = <<>> /\ prevPmts' = NoPmts /\ addedPmts' = FALSE
  /\ kept' = [p \in Pids |-> <<>>]
  /\ FreshDemuxer({0})
  /\ UNCHANGED <<prevPat, mVideoMediaInfo, videoFrames>>

\* The position of a packet in the data is told before it is demultiplexed.
Locate ==
  /\ phase = "read" /\ stage = "idle" /\ ~exited /\ parses > 0 /\ demuxed < MaxPackets
  /\ phase' = "located"
  /\ setOrigin((demuxed - opened) * TsPacketSize)
  /\ UNCHANGED <<sender, tables, found, run, demuxed, parse, said>>

webAsm_ReadPacket == Feed /\ phase = "located" /\ phase' = "demuxing"

\* After each packet: the PMT PIDs of a new PAT and the PES PIDs are registered.
webAsm_AddPids ==
  /\ phase = "demuxing" /\ stage = "idle" /\ ~exited
  /\ phase' = "read"
  /\ IF ~addedPmts /\ pmtPids # <<>>
     THEN mPsiCallbackMap' = mPsiCallbackMap \cup Range(pmtPids) /\ addedPmts' = TRUE
     ELSE UNCHANGED <<mPsiCallbackMap, addedPmts>>
  /\ mPesCallbackMap' = mPesCallbackMap \cup Range(esPids) /\ esPids' = <<>>
  /\ UNCHANGED <<mTsCallbackMap, mHandlers, mOrigin, statistics, collectors, stage, current,
                 callback, prevPat, pmtPids, prevPmts, sender, found, run, demuxed, parse, said>>

webAsm_Next == webAsmEntryPoint \/ Locate \/ webAsm_ReadPacket \/ webAsm_Callback \/ webAsm_AddPids
=============================================================================
