------------------------------ MODULE Tsparser ------------------------------
(***************************************************************************)
(* The command line tsparser (apps/tsparser/src/main.cc).  Its callbacks   *)
(* only note what they find; main registers the callbacks for it when      *)
(* demux is back.  What arrives for the PIDs of -w goes to a file per PID: *)
(* TS packets, PES packets or their data.                                  *)
(***************************************************************************)
EXTENDS TsClient

Wanted == options.write \cup options.print

\* In write mode TS there is a TS callback for each PID of -w.
TsCallback(pid, packet) ==
  /\ IF pid \in options.write /\ options.mode = "ts" THEN Keep(pid, Entry(packet, 0, <<>>))
     ELSE UNCHANGED kept
  /\ Return
  /\ UNCHANGED <<tables, videoFrames, exited>>

tsparser_PATCallback(pat) ==
  /\ IF SamePat(pat) THEN UNCHANGED <<prevPat, pmtPids, exited>>
     ELSE /\ prevPat' = pat
          /\ IF pat.programs = <<>> THEN exited' = TRUE /\ UNCHANGED pmtPids
             ELSE pmtPids' = pmtPids \o NewPmtPids(pat.programs) /\ UNCHANGED exited
  /\ Return
  /\ UNCHANGED <<prevPmts, esPids, addedPmts, kept, videoFrames>>

\* Of the first PMT of a PID, the streams and the PID of the clock count that
\* the command line names.
tsparser_PMTCallback(pid, pmt) ==
  /\ IF prevPmts[pid] # NoPmt THEN UNCHANGED <<prevPmts, esPids>>
     ELSE /\ prevPmts' = [prevPmts EXCEPT ![pid] = pmt]
          /\ esPids' = esPids \o Picked(ElementaryPids(pmt.streams)
                                          \o (IF pmt.PCR_PID # 0 THEN <<pmt.PCR_PID>> ELSE <<>>),
                                        Wanted)
  /\ Return
  /\ UNCHANGED <<prevPat, pmtPids, addedPmts, kept, videoFrames, exited>>

\* What is written of a PES packet: in mode ES what follows its header, which
\* a packet without optional header is not parsed to have.
elementary_data_offset(head) == IF head.PES_has_optional_header THEN PesHeaderSize + 1 ELSE 0
DataOnly(raw) == SubSeq(raw, elementary_data_offset(HeadOf(raw)) + 1, Len(raw))       \* mutant
Written(raw) ==
  IF options.mode = "es" THEN SubSeq(raw, elementary_data_offset(HeadOf(raw)) + 1, Len(raw))
  ELSE raw

\* Every PES packet is first given to the video parsers.  One that they cannot
\* read makes the bit reader throw, and then nothing is written.
tsparser_PESCallback(pid, raw) ==
  LET throws == VideoCalls(pid) # <<>> /\ ~HeadOf(raw).readable
      calls  == IF throws THEN <<Head(VideoCalls(pid))>> ELSE VideoCalls(pid)
  IN  /\ videoFrames' = [videoFrames EXCEPT ![pid] = @ \o [i \in DOMAIN calls |-> raw]]
      /\ IF ~throws /\ pid \in options.write /\ options.mode # "ts"
         THEN Keep(pid, Entry(Written(raw), 0, <<>>))
         ELSE UNCHANGED kept
      /\ IF throws THEN Throw ELSE Return
      /\ UNCHANGED <<tables, exited>>

tsparser_Callback ==
  /\ callback # NoCallback /\ ~exited
  /\ CASE callback.kind = "ts" -> TsCallback(callback.pid, callback.raw)
       [] callback.kind = "pes" -> tsparser_PESCallback(callback.pid, callback.raw)
       [] callback.kind = "psi" /\ callback.pid = 0 -> tsparser_PATCallback(HeadOf(callback.raw))
       [] callback.kind = "psi" /\ callback.pid # 0 ->
            tsparser_PMTCallback(callback.pid, HeadOf(callback.raw))
  /\ UnderCallback
  /\ UNCHANGED <<registrations, mVideoMediaInfo>>

-----------------------------------------------------------------------------
(* main *)

\* Before the loop: the callbacks that the command line asks for, and the PAT.
Start ==
  /\ parses = 0 /\ NewStream
  /\ mTsCallbackMap' = IF options.mode = "ts" THEN mTsCallbackMap \cup options.write
                       ELSE mTsCallbackMap
  /\ mPsiCallbackMap' = mPsiCallbackMap \cup {0}
  /\ UNCHANGED <<mPesCallbackMap, mHandlers, mOrigin, statistics, collectors,
                 stage, current, callback, tables, found>>

tsparser_ReadPacket == Feed /\ phase = "read" /\ phase' = "demuxing"

\* After each packet: the PMT PIDs are registered once in the run, the PES PIDs
\* as they are found.
tsparser_AddPids ==
  /\ phase = "demuxing" /\ stage = "idle" /\ ~exited
  /\ phase' = "read"
  /\ IF ~addedPmts /\ pmtPids # <<>>
     THEN mPsiCallbackMap' = mPsiCallbackMap \cup Range(pmtPids) /\ addedPmts' = TRUE
     ELSE UNCHANGED <<mPsiCallbackMap, addedPmts>>
  /\ mPesCallbackMap' = mPesCallbackMap \cup Range(esPids) /\ esPids' = <<>>
  /\ UNCHANGED <<mTsCallbackMap, mHandlers, mOrigin, statistics, collectors, stage, current,
                 callback, prevPat, pmtPids, prevPmts, sender, found, run, demuxed, parse, said>>

tsparser_Next == Start \/ tsparser_ReadPacket \/ tsparser_Callback \/ tsparser_AddPids
=============================================================================
