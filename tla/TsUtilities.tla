----------------------------- MODULE TsUtilities ----------------------------
(***************************************************************************)
(* TsUtilities (libs/mpeg2ts/src/TsUtilities.cc).  Its callbacks register  *)
(* further callbacks before they return, and its PES callback stores the   *)
(* packet before anything else.                                            *)
(***************************************************************************)
EXTENDS TsClient

This == "this"

-----------------------------------------------------------------------------
(* The callbacks *)

\* A loop of addPsiPid or addPesPid over a list of PIDs.
AddPsiPids(list) ==
  /\ mPsiCallbackMap' = mPsiCallbackMap \cup Range(list)
  /\ mHandlers' = [p \in Pids |-> IF p \in Range(list) THEN This ELSE mHandlers[p]]
  /\ UNCHANGED <<mTsCallbackMap, mPesCallbackMap>>
AddPesPids(list) ==
  /\ mPesCallbackMap' = mPesCallbackMap \cup Range(list)
  /\ mHandlers' = [p \in Pids |-> IF p \in Range(list) THEN This ELSE mHandlers[p]]
  /\ UNCHANGED <<mTsCallbackMap, mPsiCallbackMap>>

\* registerPmtCallback acts once in a parse.
registerPmtCallback ==
  IF ~addedPmts /\ pmtPids' # <<>>
  THEN AddPsiPids(pmtPids') /\ addedPmts' = TRUE
  ELSE UNCHANGED <<registrations, addedPmts>>

TsUtilities_PATCallback(pat) ==
  /\ IF SamePat(pat) THEN UNCHANGED <<tables, registrations, exited>>
     ELSE /\ prevPat' = pat
          /\ IF pat.programs = <<>>
             THEN exited' = TRUE /\ UNCHANGED <<pmtPids, addedPmts, registrations>>
             ELSE /\ pmtPids' = pmtPids \o NewPmtPids(pat.programs)
                  /\ registerPmtCallback
                  /\ UNCHANGED exited
          /\ UNCHANGED <<prevPmts, esPids>>
  /\ UNCHANGED found

\* The first PMT of a PID stays.
TsUtilities_PMTCallback(pid, pmt) ==
  /\ IF prevPmts[pid] # NoPmt THEN UNCHANGED <<prevPmts, esPids, registrations>>
     ELSE /\ prevPmts' = [prevPmts EXCEPT ![pid] = pmt]
          /\ esPids' = esPids \o ElementaryPids(pmt.streams)
          /\ AddPesPids(esPids')
  /\ UNCHANGED <<prevPat, pmtPids, addedPmts, found, exited>>

\* The packet is stored, and given to the video callback.
TsUtilities_PESCallback(pid, raw) ==
  /\ Keep(pid, Entry(raw, 0, <<>>))
  /\ videoFrames' = [videoFrames EXCEPT ![pid] = @ \o [i \in DOMAIN VideoCalls(pid) |-> raw]]
  /\ mVideoMediaInfo' = IF VideoCalls(pid) = <<>> THEN mVideoMediaInfo
       ELSE [PID |-> pid, codec |-> Head(StreamsOf(Last(VideoCalls(pid)), pid)).stream_type]
  /\ UNCHANGED <<tables, registrations, exited>>

TsUtilities_Callback ==
  /\ callback # NoCallback /\ ~exited
  /\ CASE callback.kind = "pes" -> TsUtilities_PESCallback(callback.pid, callback.raw)
       [] callback.kind = "psi" /\ callback.pid = 0 -> TsUtilities_PATCallback(HeadOf(callback.raw))
       [] callback.kind = "psi" /\ callback.pid # 0 ->
            TsUtilities_PMTCallback(callback.pid, HeadOf(callback.raw))
  /\ Return
  /\ UnderCallback

-----------------------------------------------------------------------------
(* Parsing *)

KeepAdded(flag) == UNCHANGED flag                                         \* mutant
ClearAdded(flag) == flag' = FALSE

\* initParse.  The demultiplexer and the PES packets stay as they are.
initParse ==
  /\ NewStream
  /\ pmtPids' = <<>> /\ prevPat' = NoPat /\ esPids' = <<>> /\ ClearAdded(addedPmts)
  /\ prevPmts' = NoPmts
  /\ addPsiPid(0, This)
  /\ UNCHANGED <<mOrigin, statistics, collectors, stage, current, callback, found>>

\* parseTransportStreamData gives demux one packet after the other.
parseTransportStreamData == Feed /\ UNCHANGED phase

TsUtilities_Next == initParse \/ parseTransportStreamData \/ TsUtilities_Callback
=============================================================================
