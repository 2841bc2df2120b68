--------------------------- MODULE Clients_proofs ---------------------------
(***************************************************************************)
(* What holds of the three programs on top of a TsDemuxer for every number *)
(* of PIDs, tables, PES packets and parses: what is kept of a PID is in    *)
(* the order of the stream and there once, the offsets that the entry      *)
(* point writes are those of the tables and PES packets, and every PES     *)
(* packet is kept of a PID that a PMT has announced.                       *)
(*                                                                         *)
(* The first section says what the steps of the three programs do in the   *)
(* words of TsClient, so that the rest is about one program with a few     *)
(* choices.                                                                *)
(***************************************************************************)
EXTENDS Clients, TsSender_proofs

-----------------------------------------------------------------------------
(* The steps of the programs *)

\* The next packet is given to demux: by TsUtilities at once, by the others
\* from the phase of their loop that reads.
FeedStep ==
  /\ Feed
  /\ \/ program = "TsUtilities" /\ phase' = phase
     \/ program = "tsparser" /\ phase = "read" /\ phase' = "demuxing"
     \/ program = "WebAssembly" /\ phase = "located" /\ phase' = "demuxing"

\* The entry point tells demux where the packet is.
LocateStep ==
  /\ program = "WebAssembly" /\ phase = "read" /\ stage = "idle" /\ parses > 0
  /\ phase' = "located"
  /\ mOrigin' = (demuxed - opened) * TsPacketSize
  /\ UNCHANGED <<registrations, collectors, stage, current, callback,
                 sender, tables, found, run, demuxed, parse, said>>

\* What the two loops of main register after a packet.
AddStep ==
  /\ program # "TsUtilities" /\ phase = "demuxing" /\ stage = "idle" /\ ~exited
  /\ phase' = "read"
  /\ IF ~addedPmts /\ pmtPids # <<>>
     THEN mPsiCallbackMap' = mPsiCallbackMap \cup Range(pmtPids) /\ addedPmts' = TRUE
     ELSE UNCHANGED <<mPsiCallbackMap, addedPmts>>
  /\ mPesCallbackMap' = mPesCallbackMap \cup Range(esPids) /\ esPids' = <<>>
  /\ UNCHANGED <<mTsCallbackMap, mOrigin, collectors, stage, current, callback,
                 prevPat, pmtPids, prevPmts, sender, found, run, demuxed, parse, said>>

\* A parse begins.
Forgotten == pmtPids' = <<>> /\ esPids' = <<>> /\ prevPmts' = NoPmts /\ addedPmts' = FALSE
BeginUtilities ==
  /\ program = "TsUtilities" /\ NewStream /\ Forgotten /\ prevPat' = NoPat
  /\ mPsiCallbackMap' = mPsiCallbackMap \cup {0}
  /\ UNCHANGED <<mTsCallbackMap, mPesCallbackMap, mOrigin, collectors, stage, current, callback, kept>>
BeginTsparser ==
  /\ program = "tsparser" /\ NewStream /\ parses = 0
  /\ mTsCallbackMap' = IF options.mode = "ts" THEN mTsCallbackMap \cup options.write ELSE mTsCallbackMap
  /\ mPsiCallbackMap' = mPsiCallbackMap \cup {0}
  /\ UNCHANGED <<mPesCallbackMap, mOrigin, collectors, stage, current, callback, kept, tables>>
BeginWebAssembly ==
  /\ program = "WebAssembly" /\ NewStream /\ Forgotten /\ prevPat' = prevPat
  /\ kept' = [p \in Pids |-> <<>>]
  /\ mTsCallbackMap' = {} /\ mPsiCallbackMap' = {0} /\ mPesCallbackMap' = {}
  /\ mSectionBuffer' = [p \in Pids |-> <<>>] /\ mReadSectionLength' = [p \in Pids |-> 0]
  /\ mSectionLength' = [p \in Pids |-> 0] /\ mTableId' = [p \in Pids |-> PSI_TABLE_ID_PAT]
  /\ mPesPacket' = [p \in Pids |-> NoPes]
  /\ mOrigins' = [p \in Pids |-> 0] /\ mOrigin' = 0
  /\ UNCHANGED <<stage, current, callback>>
BeginStep == BeginUtilities \/ BeginTsparser \/ BeginWebAssembly

\* demux goes on.
StageStep == Stage

\* A callback returns, or throws out of demux.
CallbackStep ==
  /\ callback # NoCallback /\ ~exited /\ callback' = NoCallback
  /\ UNCHANGED <<mTsCallbackMap, mOrigin, collectors, sender, program, options, phase, demuxed, parse, said>>

TsReturns ==
  /\ CallbackStep /\ callback.kind = "ts" /\ program = "tsparser"
  /\ kept' = IF callback.pid \in options.write /\ options.mode = "ts"
             THEN [kept EXCEPT ![callback.pid] = Append(@, Entry(callback.raw, 0, <<>>))] ELSE kept
  /\ UNCHANGED <<mPsiCallbackMap, mPesCallbackMap, stage, current, tables, exited>>

\* What a program writes of the bytes of a PES packet, whether it does, and
\* where it says that they are.
PesForm(raw) ==
  IF program = "tsparser" /\ options.mode = "es"
  THEN SubSeq(raw, (IF HeadOf(raw).PES_has_optional_header THEN PesHeaderSize + 1 ELSE 0) + 1, Len(raw))
  ELSE raw
PesThrows(pid, raw) == program # "TsUtilities" /\ VideoCalls(pid) # <<>> /\ ~HeadOf(raw).readable
PesIsKept(pid, raw) ==
  program = "tsparser" => ~PesThrows(pid, raw) /\ pid \in options.write /\ options.mode # "ts"
OriginOf(pid) == IF program = "WebAssembly" THEN mOrigins[pid] ELSE 0
PesReturns ==
  /\ CallbackStep /\ callback.kind = "pes"
  /\ kept' = IF PesIsKept(callback.pid, callback.raw)
             THEN [kept EXCEPT ![callback.pid] =
                     Append(@, Entry(PesForm(callback.raw), OriginOf(callback.pid), <<>>))]
             ELSE kept
  /\ IF PesThrows(callback.pid, callback.raw) THEN stage' = "idle" /\ current' = NoPacket
     ELSE UNCHANGED <<stage, current>>
  /\ UNCHANGED <<mPsiCallbackMap, mPesCallbackMap, tables, exited>>

\* A table is noted by the entry point only.
TableIsKept(pid) ==
  IF program = "WebAssembly"
  THEN \E pids : kept' = [kept EXCEPT ![pid] = Append(@, Entry(callback.raw, mOrigins[pid], pids))]
  ELSE kept' = kept

\* A PAT that is not the one before: its PIDs, and when they are registered.
NewPat(pat) ==
  /\ prevPat' = pat
  /\ IF pat.programs = <<>> THEN exited' = TRUE
     ELSE /\ ~exited'
          /\ pmtPids' = IF program = "WebAssembly" THEN NewPmtPids(pat.programs)
                        ELSE pmtPids \o NewPmtPids(pat.programs)
          /\ IF program = "TsUtilities" /\ ~addedPmts /\ pmtPids' # <<>>
             THEN mPsiCallbackMap' = mPsiCallbackMap \cup Range(pmtPids') /\ addedPmts' = TRUE
             ELSE /\ mPsiCallbackMap' = mPsiCallbackMap
                  /\ addedPmts' = IF program = "WebAssembly" THEN FALSE ELSE addedPmts
  /\ pat.programs = <<>> =>
       mPsiCallbackMap' = mPsiCallbackMap /\ pmtPids' = IF program = "WebAssembly" THEN <<>> ELSE pmtPids
PatReturns ==
  LET pat == HeadOf(callback.raw)
  IN  /\ CallbackStep /\ callback.kind = "psi" /\ callback.pid = 0
      /\ IF prevPat = pat THEN UNCHANGED <<prevPat, pmtPids, addedPmts, exited, mPsiCallbackMap>>
         ELSE NewPat(pat)
      /\ TableIsKept(0)
      /\ UNCHANGED <<mPesCallbackMap, stage, current, prevPmts, esPids>>

\* The PIDs of a PMT that count, and when they are registered.
PmtAdds(pmt) ==
  LET streams == ElementaryPids(pmt.streams)
      all == streams \o (IF pmt.PCR_PID # 0 THEN <<pmt.PCR_PID>> ELSE <<>>)
  IN  CASE program = "TsUtilities" -> streams
        [] program = "tsparser"    -> Picked(all, options.write \cup options.print)
        [] program = "WebAssembly" -> all
PmtReturns ==
  LET pid == callback.pid
      pmt == HeadOf(callback.raw)
  IN  /\ CallbackStep /\ callback.kind = "psi" /\ pid # 0
      /\ IF prevPmts[pid] # NoPmt THEN UNCHANGED <<prevPmts, esPids, mPesCallbackMap>>
         ELSE /\ prevPmts' = [prevPmts EXCEPT ![pid] = pmt]
              /\ esPids' = esPids \o PmtAdds(pmt)
              /\ mPesCallbackMap' = IF program = "TsUtilities" THEN mPesCallbackMap \cup Range(esPids')
                                    ELSE mPesCallbackMap
      /\ TableIsKept(pid)
      /\ UNCHANGED <<mPsiCallbackMap, stage, current, prevPat, pmtPids, addedPmts, exited>>

Steps ==
  \/ FeedStep \/ LocateStep \/ AddStep \/ BeginStep \/ StageStep
  \/ TsReturns \/ PesReturns \/ PatReturns \/ PmtReturns

-----------------------------------------------------------------------------
(* The programs take these steps *)

\* The kinds of callback there are, and who has TS callbacks.
CallbackKinds ==
  \/ callback = NoCallback
  \/ callback.kind \in {"psi", "pes"}
  \/ callback.kind = "ts" /\ program = "tsparser"

LEMMA UtilitiesCallbacks ==
  ASSUME program = "TsUtilities", CallbackKinds, TsUtilities_Callback
  PROVE  PesReturns \/ PatReturns \/ PmtReturns
<1>1. /\ callback # NoCallback /\ ~exited /\ callback' = NoCallback
      /\ UNCHANGED <<mOrigin, collectors, sender, program, options, phase, demuxed, parse, said,
                     stage, current>>
  BY DEF TsUtilities_Callback, Return, UnderCallback, collectors, sections, sender, parse, said
<1>2. CASE callback.kind = "pes"
  <2>1. TsUtilities_PESCallback(callback.pid, callback.raw)
    BY <1>2 DEF TsUtilities_Callback
  <2>2. /\ kept' = [kept EXCEPT ![callback.pid] = Append(@, Entry(callback.raw, 0, <<>>))]
        /\ UNCHANGED <<registrations, tables, exited>>
    BY <2>1 DEF TsUtilities_PESCallback, Keep, tables, registrations
  <2>3. CallbackStep
    BY <1>1, <2>2 DEF CallbackStep, registrations
  <2>4. /\ ~PesThrows(callback.pid, callback.raw) /\ PesIsKept(callback.pid, callback.raw)
        /\ PesForm(callback.raw) = callback.raw /\ OriginOf(callback.pid) = 0
    BY DEF PesThrows, PesIsKept, PesForm, OriginOf
  <2> QED
    BY <1>1, <1>2, <2>2, <2>3, <2>4 DEF PesReturns, registrations
<1>3. CASE callback.kind = "psi" /\ callback.pid = 0
  <2> DEFINE pat == HeadOf(callback.raw)
  <2>1. TsUtilities_PATCallback(pat)
    BY <1>3 DEF TsUtilities_Callback
  <2> HIDE DEF pat
  <2>2. /\ UNCHANGED <<kept, prevPmts, esPids, mPesCallbackMap, mTsCallbackMap>>
        /\ IF prevPat = pat THEN UNCHANGED <<prevPat, pmtPids, addedPmts, exited, mPsiCallbackMap>>
           ELSE NewPat(pat)
    BY <1>1, <2>1 DEF TsUtilities_PATCallback, SamePat, found, tables, registrations, registerPmtCallback, AddPsiPids, NewPat
  <2>3. CallbackStep
    BY <1>1, <2>2 DEF CallbackStep
  <2>4. TableIsKept(0)
    BY <2>2 DEF TableIsKept
  <2> QED
    BY <1>1, <1>3, <2>2, <2>3, <2>4 DEF PatReturns, pat
<1>4. CASE callback.kind = "psi" /\ callback.pid # 0
  <2> DEFINE pmt == HeadOf(callback.raw)
             pid == callback.pid
  <2>1. TsUtilities_PMTCallback(pid, pmt)
    BY <1>4 DEF TsUtilities_Callback
  <2> HIDE DEF pmt
  <2>2. /\ UNCHANGED <<kept, prevPat, pmtPids, addedPmts, exited, mPsiCallbackMap, mTsCallbackMap>>
        /\ IF prevPmts[pid] # NoPmt THEN UNCHANGED <<prevPmts, esPids, mPesCallbackMap>>
           ELSE /\ prevPmts' = [prevPmts EXCEPT ![pid] = pmt]
                /\ esPids' = esPids \o ElementaryPids(pmt.streams)
                /\ mPesCallbackMap' = mPesCallbackMap \cup Range(esPids')
    BY <2>1 DEF TsUtilities_PMTCallback, found, registrations, AddPesPids
  <2>3. CallbackStep
    BY <1>1, <2>2 DEF CallbackStep
  <2>4. TableIsKept(pid)
    BY <2>2 DEF TableIsKept
  <2>5. PmtAdds(pmt) = ElementaryPids(pmt.streams)
    BY DEF PmtAdds
  <2> QED
    BY <1>1, <1>4, <2>2, <2>3, <2>4, <2>5 DEF PmtReturns, pmt
<1> QED
  BY <1>1, <1>2, <1>3, <1>4 DEF CallbackKinds

LEMMA UtilitiesSteps ==
  ASSUME program = "TsUtilities", CallbackKinds, TsUtilities_Next
  PROVE  Steps
<1>1. CASE initParse
  <2>1. NewStream
    BY <1>1 DEF initParse
  <2>2. Forgotten /\ prevPat' = NoPat
    BY <1>1 DEF initParse, ClearAdded, NoPmts, Forgotten
  <2>3. /\ mPsiCallbackMap' = mPsiCallbackMap \cup {0}
        /\ UNCHANGED <<mTsCallbackMap, mPesCallbackMap, mOrigin, collectors, stage, current, callback, kept>>
    BY <1>1 DEF initParse, addPsiPid, collectors, sections, found
  <2> QED
    BY <2>1, <2>2, <2>3 DEF Steps, BeginStep, BeginUtilities
<1>2. CASE parseTransportStreamData
  BY <1>2 DEF parseTransportStreamData, Steps, FeedStep
<1>3. CASE TsUtilities_Callback
  BY <1>3, UtilitiesCallbacks DEF Steps
<1> QED
  BY <1>1, <1>2, <1>3 DEF TsUtilities_Next

LEMMA CommandLineCallbacks ==
  ASSUME program = "tsparser", CallbackKinds, tsparser_Callback
  PROVE  TsReturns \/ PesReturns \/ PatReturns \/ PmtReturns
<1>1. /\ callback # NoCallback /\ ~exited
      /\ UNCHANGED <<mOrigin, collectors, sender, program, options, phase, demuxed, parse, said,
                     mTsCallbackMap, mPsiCallbackMap, mPesCallbackMap>>
  BY DEF tsparser_Callback, UnderCallback, collectors, sections, sender, parse, said, registrations
<1>2. Return => callback' = NoCallback /\ UNCHANGED <<stage, current>>
  BY DEF Return
<1>3. CASE callback.kind = "ts"
  <2>1. TsCallback(callback.pid, callback.raw)
    BY <1>3 DEF tsparser_Callback
  <2>2. /\ kept' = IF callback.pid \in options.write /\ options.mode = "ts"
                   THEN [kept EXCEPT ![callback.pid] = Append(@, Entry(callback.raw, 0, <<>>))]
                   ELSE kept
        /\ UNCHANGED <<tables, exited, stage, current>> /\ callback' = NoCallback
    BY <1>2, <2>1 DEF TsCallback, Keep, tables
  <2>3. CallbackStep
    BY <1>1, <2>2 DEF CallbackStep
  <2> QED
    BY <1>1, <1>3, <2>2, <2>3 DEF TsReturns
<1>4. CASE callback.kind = "pes"
  <2> DEFINE throws == VideoCalls(callback.pid) # <<>>
                         /\ ~HeadOf(callback.raw).readable
             written == Written(callback.raw)
  <2>1. tsparser_PESCallback(callback.pid, callback.raw)
    BY <1>4 DEF tsparser_Callback
  <2>2. /\ throws <=> PesThrows(callback.pid, callback.raw)
        /\ written = PesForm(callback.raw)
        /\ OriginOf(callback.pid) = 0
    BY DEF Written, PesThrows, PesForm, OriginOf, elementary_data_offset
  <2>3. /\ kept' = IF ~throws /\ callback.pid \in options.write /\ options.mode # "ts"
                   THEN [kept EXCEPT ![callback.pid] = Append(@, Entry(written, 0, <<>>))]
                   ELSE kept
        /\ UNCHANGED <<tables, exited>> /\ callback' = NoCallback
        /\ IF throws THEN stage' = "idle" /\ current' = NoPacket ELSE UNCHANGED <<stage, current>>
    BY <1>2, <2>1 DEF tsparser_PESCallback, Keep, tables, Throw
  <2> HIDE DEF throws, written
  <2>4. CallbackStep
    BY <1>1, <2>3 DEF CallbackStep
  <2>5. PesIsKept(callback.pid, callback.raw) <=>
          ~throws /\ callback.pid \in options.write /\ options.mode # "ts"
    BY <2>2 DEF PesIsKept
  <2> QED
    BY <1>1, <1>4, <2>2, <2>3, <2>4, <2>5 DEF PesReturns
<1>5. CASE callback.kind = "psi" /\ callback.pid = 0
  <2> DEFINE pat == HeadOf(callback.raw)
  <2>1. tsparser_PATCallback(pat)
    BY <1>5 DEF tsparser_Callback
  <2> HIDE DEF pat
  <2>2. /\ UNCHANGED <<kept, prevPmts, esPids, addedPmts, stage, current>> /\ callback' = NoCallback
        /\ IF prevPat = pat THEN UNCHANGED <<prevPat, pmtPids, addedPmts, exited, mPsiCallbackMap>>
           ELSE NewPat(pat)
    BY <1>1, <1>2, <2>1 DEF tsparser_PATCallback, SamePat, NewPat
  <2>3. CallbackStep
    BY <1>1, <2>2 DEF CallbackStep
  <2>4. TableIsKept(0)
    BY <2>2 DEF TableIsKept
  <2> QED
    BY <1>1, <1>5, <2>2, <2>3, <2>4 DEF PatReturns, pat
<1>6. CASE callback.kind = "psi" /\ callback.pid # 0
  <2> DEFINE pmt == HeadOf(callback.raw)
             pid == callback.pid
             all == ElementaryPids(pmt.streams) \o (IF pmt.PCR_PID # 0 THEN <<pmt.PCR_PID>> ELSE <<>>)
  <2>1. tsparser_PMTCallback(pid, pmt)
    BY <1>6 DEF tsparser_Callback
  <2>2. Picked(all, Wanted) = Picked(all, options.write \cup options.print)
    BY DEF Wanted
  <2> HIDE DEF pmt
  <2>3. PmtAdds(pmt) = Picked(all, options.write \cup options.print)
    BY DEF PmtAdds
  <2>4. /\ UNCHANGED <<kept, prevPat, pmtPids, addedPmts, exited, stage, current>>
        /\ callback' = NoCallback
        /\ IF prevPmts[pid] # NoPmt THEN UNCHANGED <<prevPmts, esPids>>
           ELSE /\ prevPmts' = [prevPmts EXCEPT ![pid] = pmt]
                /\ esPids' = esPids \o PmtAdds(pmt)
    BY <1>2, <2>1, <2>2, <2>3 DEF tsparser_PMTCallback
  <2>5. CallbackStep
    BY <1>1, <2>4 DEF CallbackStep
  <2>6. TableIsKept(pid)
    BY <2>4 DEF TableIsKept
  <2> HIDE DEF pid
  <2>7. CallbackStep /\ callback.kind = "psi" /\ pid # 0 /\ TableIsKept(pid)
    BY <1>6, <2>5, <2>6 DEF pid
  <2>8. pmt = HeadOf(callback.raw) /\ pid = callback.pid
    BY DEF pmt, pid
  <2> QED
    BY <1>1, <2>4, <2>7, <2>8 DEF PmtReturns
<1> QED
  BY <1>3, <1>4, <1>5, <1>6, <1>1 DEF CallbackKinds

LEMMA CommandLineSteps ==
  ASSUME program = "tsparser", CallbackKinds, tsparser_Next
  PROVE  Steps
<1>1. CASE Start
  <2>1. NewStream /\ parses = 0
    BY <1>1 DEF Start
  <2>2. /\ mTsCallbackMap' = IF options.mode = "ts" THEN mTsCallbackMap \cup options.write
                             ELSE mTsCallbackMap
        /\ mPsiCallbackMap' = mPsiCallbackMap \cup {0}
        /\ UNCHANGED <<mPesCallbackMap, mOrigin, collectors, stage, current, callback, kept, tables>>
    BY <1>1 DEF Start, collectors, sections, found, tables
  <2> QED
    BY <2>1, <2>2 DEF Steps, BeginStep, BeginTsparser
<1>2. CASE tsparser_ReadPacket
  BY <1>2 DEF tsparser_ReadPacket, Steps, FeedStep
<1>3. CASE tsparser_Callback
  BY <1>3, CommandLineCallbacks DEF Steps
<1>4. CASE tsparser_AddPids
  <2>1. AddStep
    BY <1>4 DEF tsparser_AddPids, AddStep, collectors, sections, sender, found, run, parse, said
  <2> QED
    BY <2>1 DEF Steps
<1> QED
  BY <1>1, <1>2, <1>3, <1>4 DEF tsparser_Next

LEMMA PageCallbacks ==
  ASSUME program = "WebAssembly", CallbackKinds, webAsm_Callback
  PROVE  PesReturns \/ PatReturns \/ PmtReturns
<1>1. /\ callback # NoCallback /\ ~exited
      /\ UNCHANGED <<mOrigin, collectors, sender, program, options, phase, demuxed, parse, said,
                     mTsCallbackMap, mPsiCallbackMap, mPesCallbackMap>>
  BY DEF webAsm_Callback, UnderCallback, collectors, sections, sender, parse, said, registrations
<1>2. Return => callback' = NoCallback /\ UNCHANGED <<stage, current>>
  BY DEF Return
<1>3. CASE callback.kind = "pes"
  <2> DEFINE throws == VideoCalls(callback.pid) # <<>> /\ ~HeadOf(callback.raw).readable
  <2>1. webAsm_PESCallback(callback.pid, callback.raw)
    BY <1>3 DEF webAsm_Callback
  <2>2. /\ throws <=> PesThrows(callback.pid, callback.raw)
        /\ PesForm(callback.raw) = callback.raw /\ PesIsKept(callback.pid, callback.raw)
        /\ OriginOf(callback.pid) = mOrigins[callback.pid]
    BY DEF PesThrows, PesForm, OriginOf, PesIsKept
  <2>3. /\ kept' = [kept EXCEPT ![callback.pid] =
                      Append(@, Entry(callback.raw, mOrigins[callback.pid], <<>>))]
        /\ UNCHANGED <<tables, exited>> /\ callback' = NoCallback
        /\ IF throws THEN stage' = "idle" /\ current' = NoPacket ELSE UNCHANGED <<stage, current>>
    BY <1>2, <2>1 DEF webAsm_PESCallback, Keep, getOrigin, tables, Throw
  <2> HIDE DEF throws
  <2>4. CallbackStep
    BY <1>1, <2>3 DEF CallbackStep
  <2> QED
    BY <1>1, <1>3, <2>2, <2>3, <2>4 DEF PesReturns
<1>4. CASE callback.kind = "psi" /\ callback.pid = 0
  <2> DEFINE pat == HeadOf(callback.raw)
             pids == IF prevPat = pat THEN <<>> ELSE pmtPids'
  <2>1. webAsm_PATCallback(pat)
    BY <1>4 DEF webAsm_Callback
  <2> HIDE DEF pat
  <2>2. /\ UNCHANGED <<prevPmts, esPids, stage, current>> /\ callback' = NoCallback
        /\ kept' = [kept EXCEPT ![0] = Append(@, Entry(callback.raw, mOrigins[0], pids))]
    BY <1>2, <2>1 DEF webAsm_PATCallback, SamePat, Keep, getOrigin
  <2>3. IF prevPat = pat THEN UNCHANGED <<prevPat, pmtPids, addedPmts, exited, mPsiCallbackMap>>
        ELSE NewPat(pat)
    BY <1>1, <2>1 DEF webAsm_PATCallback, SamePat, Renew, NewPat
  <2>4. CallbackStep
    BY <1>1, <2>2 DEF CallbackStep
  <2>5. TableIsKept(0)
    BY <2>2 DEF TableIsKept
  <2> QED
    BY <1>1, <1>4, <2>2, <2>3, <2>4, <2>5 DEF PatReturns, pat
<1>5. CASE callback.kind = "psi" /\ callback.pid # 0
  <2> DEFINE pmt == HeadOf(callback.raw)
             pid == callback.pid
             pids == IF prevPmts[pid] # NoPmt THEN <<>> ELSE ElementaryPids(pmt.streams)
  <2>1. webAsm_PMTCallback(pid, pmt)
    BY <1>5 DEF webAsm_Callback
  <2> HIDE DEF pmt, pid
  <2>2. /\ UNCHANGED <<prevPat, pmtPids, addedPmts, exited, stage, current>> /\ callback' = NoCallback
        /\ IF prevPmts[pid] # NoPmt THEN UNCHANGED <<prevPmts, esPids>>
           ELSE /\ prevPmts' = [prevPmts EXCEPT ![pid] = pmt]
                /\ esPids' = esPids \o PmtAdds(pmt)
    BY <1>2, <2>1 DEF webAsm_PMTCallback, PmtAdds
  <2>3. kept' = [kept EXCEPT ![pid] = Append(@, Entry(callback.raw, mOrigins[pid], pids))]
    BY <2>1 DEF webAsm_PMTCallback, Keep, getOrigin
  <2>4. CallbackStep
    BY <1>1, <2>2 DEF CallbackStep
  <2>5. TableIsKept(pid)
    BY <2>3 DEF TableIsKept
  <2>6. CallbackStep /\ callback.kind = "psi" /\ pid # 0
        /\ pmt = HeadOf(callback.raw) /\ pid = callback.pid
    BY <1>5, <2>4 DEF pid, pmt
  <2> QED
    BY <1>1, <2>2, <2>5, <2>6 DEF PmtReturns
<1> QED
  BY <1>3, <1>4, <1>5, <1>1 DEF CallbackKinds

LEMMA PageSteps ==
  ASSUME program = "WebAssembly", CallbackKinds, webAsm_Next
  PROVE  Steps
<1>1. CASE webAsmEntryPoint
  <2>1. NewStream
    BY <1>1 DEF webAsmEntryPoint
  <2>2. Forgotten /\ prevPat' = prevPat /\ kept' = [p \in Pids |-> <<>>]
    BY <1>1 DEF webAsmEntryPoint, NoPmts, Forgotten
  <2>3. /\ mTsCallbackMap' = {} /\ mPsiCallbackMap' = {0} /\ mPesCallbackMap' = {}
        /\ mSectionBuffer' = [p \in Pids |-> <<>>] /\ mReadSectionLength' = [p \in Pids |-> 0]
        /\ mSectionLength' = [p \in Pids |-> 0] /\ mTableId' = [p \in Pids |-> PSI_TABLE_ID_PAT]
        /\ mPesPacket' = [p \in Pids |-> NoPes]
        /\ mOrigins' = [p \in Pids |-> 0] /\ mOrigin' = 0
        /\ UNCHANGED <<stage, current, callback>>
    BY <1>1 DEF webAsmEntryPoint, FreshDemuxer
  <2> QED
    BY <2>1, <2>2, <2>3 DEF Steps, BeginStep, BeginWebAssembly
<1>2. CASE Locate
  <2>1. LocateStep
    BY <1>2 DEF Locate, setOrigin, LocateStep, registrations, collectors, sections, sender, tables, found, run, parse, said
  <2> QED
    BY <2>1 DEF Steps
<1>3. CASE webAsm_ReadPacket
  BY <1>3 DEF webAsm_ReadPacket, Steps, FeedStep
<1>4. CASE webAsm_Callback
  BY <1>4, PageCallbacks DEF Steps
<1>5. CASE webAsm_AddPids
  <2>1. AddStep
    BY <1>5 DEF webAsm_AddPids, AddStep, collectors, sections, sender, found, run, parse, said
  <2> QED
    BY <2>1 DEF Steps
<1> QED
  BY <1>1, <1>2, <1>3, <1>4, <1>5 DEF webAsm_Next

\* Every step of Clients is one of these, or leaves all variables alone.
LEMMA NextIsSteps ==
  ASSUME CallbackKinds, Next
  PROVE  Steps
BY UtilitiesSteps, CommandLineSteps, PageSteps DEF Next, Steps, StageStep

-----------------------------------------------------------------------------
(* The stream *)

Carrying == {0} \cup PmtPids \cup PesPids

\* Only the last unit of a PES PID may be under way; one that the end of an
\* earlier stream has cut stays as it is.
StreamOn(p) ==
  /\ before[p] <= CurrentUnit(p)
  /\ program = "tsparser" => before[p] = 0
  /\ program = "tsparser" /\ parses = 0 => units[p] = <<>>
  /\ \A u \in DOMAIN units[p] :
       /\ p \in Carrying /\ units[p][u].head \in HeadsOf(p)
       /\ units[p][u].sent \in 1..UnitSize(p, units[p][u].head)
       /\ p \notin PesPids \/ (before[p] < u /\ u < CurrentUnit(p)) => u \in Whole(p)
StreamInv == SenderInv /\ before \in [Pids -> Nat] /\ \A p \in Pids : StreamOn(p)

\* A packet has the cells from `first` to `last` of a unit at its end.
Carries(pkt, p, u, first, last) ==
  LET payload == (IF first = 1 THEN Lead(p) ELSE <<>>) \o Cells(p, u, first, last)
      info == parseTsPacketInfo(pkt)
  IN  /\ pkt.pid = p /\ info.pid = p /\ last - first + 1 <= MaxPayload
      /\ info.isPayloadStart = (first = 1)
      /\ pkt.bytes = [i \in 1..TsPacketSize |->
                        IF i <= TsPacketSize - (last - first + 1) THEN Filler
                        ELSE <<p, u, last - TsPacketSize + i>>]
      /\ info.payloadStartOffset = TsPacketSize - Len(payload)
      /\ BytesFrom(pkt, info.payloadStartOffset) = payload

\* The first of the cells in a packet.
FirstOf(pkt) ==
  LET info == parseTsPacketInfo(pkt)
  IN  IF info.isPayloadStart THEN 1 ELSE IndexOf(BytesFrom(pkt, info.payloadStartOffset)[1])
First == FirstOf(current)

\* The packet under way is the last one of its PID.
UnderWayInv ==
  LET p    == current.pid
      unit == units[p][CurrentUnit(p)]
  IN  stage # "idle" =>
        /\ stage \in {"ts", "psi", "pes", "end"} /\ parses > 0
        /\ p \in Carrying /\ before[p] < CurrentUnit(p)
        /\ First \in 1..unit.sent /\ (First > 1 => p \in PesPids)
        /\ current.head = unit.head
        /\ Carries(current, p, CurrentUnit(p), First, unit.sent)

-----------------------------------------------------------------------------
(* The callbacks *)

\* What is registered: no table callback for a PES PID, TS callbacks in write
\* mode TS only; and the types of what is kept.
RegisteredInv ==
  /\ program \in {"TsUtilities", "tsparser", "WebAssembly"}
  /\ options \in [mode : {"ts", "pes", "es"}, write : SUBSET Pids, print : SUBSET Pids]
  /\ program # "tsparser" => options.mode = "pes"
  /\ mPsiCallbackMap \cap PesPids = {} /\ pmtPids \in Seq(Pids \ PesPids)
  /\ mTsCallbackMap = IF program = "tsparser" /\ options.mode = "ts" /\ parses > 0
                      THEN options.write ELSE {}
  /\ parses \in Nat
  /\ DOMAIN mPesPacket = Pids /\ DOMAIN mSectionBuffer = Pids
  /\ \A p \in Pids : DOMAIN mPesPacket[p] = DOMAIN NoPes
  /\ DOMAIN kept = Pids /\ \A p \in Pids : IsSeq(kept[p])

\* Whom a callback is for, and what it is given.
CallbackInv ==
  callback # NoCallback =>
    /\ callback.pid = current.pid
    /\ \/ callback.kind = "ts" /\ stage = "psi" /\ program = "tsparser" /\ callback.raw = current.bytes
       \/ /\ callback.kind = "psi" /\ stage = "pes" /\ callback.pid \notin PesPids
          /\ callback.raw[1] = <<current.pid, CurrentUnit(current.pid), 1>>
       \/ callback.kind = "pes" /\ stage = "end"

-----------------------------------------------------------------------------
(* The PES packets *)

\* How much of the stream collectPes has seen: all of it, but for the packet
\* under way that it has not been given yet.
Ahead(p) == stage \in {"ts", "psi", "pes"} /\ current.pid = p
SeenUnit(p) == IF Ahead(p) /\ First = 1 THEN CurrentUnit(p) - 1 ELSE CurrentUnit(p)
SeenCells(p) == IF Ahead(p) /\ First > 1 THEN First - 1 ELSE units[p][SeenUnit(p)].sent

\* What is under collection is the last unit seen, as far as it was seen.
Held(p) == mPesPacket[p] # NoPes
HeldInv(p) ==
  Held(p) =>
    /\ p \in mPesCallbackMap
    /\ SeenUnit(p) \in DOMAIN units[p]
    /\ mPesPacket[p].mPesBuffer = Cells(p, SeenUnit(p), 1, SeenCells(p))
    /\ mPesPacket[p].PES_packet_length = units[p][SeenUnit(p)].head.PES_packet_length
    /\ program = "WebAssembly" => before[p] < SeenUnit(p)

\* A unit that may be kept: only that of a cut stream may be less than whole.
Keepable(p, u) ==
  /\ u \in DOMAIN units[p]
  /\ u \in Whole(p) \/ (program = "TsUtilities" /\ u < CurrentUnit(p))
  /\ program = "WebAssembly" => before[p] < u

\* The callback with a PES packet.
Pending(p) == callback # NoCallback /\ callback.kind = "pes" /\ callback.pid = p
PendingUnit == UnitOf(callback.raw[1])
PendingInv(p) ==
  Pending(p) =>
    /\ Keepable(p, PendingUnit)
    /\ callback.raw = Cells(p, PendingUnit, 1, units[p][PendingUnit].sent)
    /\ Held(p) => PendingUnit < CurrentUnit(p)

\* The unit that comes next, and what was kept before.
NextUnit(p) ==
  IF Pending(p) THEN PendingUnit ELSE IF Held(p) THEN SeenUnit(p) ELSE SeenUnit(p) + 1
KeptUnit(p, i) == UnitOf(kept[p][i].raw[1])
KeptInv(p) ==
  /\ \A i \in DOMAIN kept[p] :
       /\ Keepable(p, KeptUnit(p, i)) /\ KeptUnit(p, i) < NextUnit(p)
       /\ KeptUnit(p, i) \in Whole(p) => kept[p][i].raw = Part(p, KeptUnit(p, i))
  /\ \A i, j \in DOMAIN kept[p] : i < j => KeptUnit(p, i) < KeptUnit(p, j)

PesInv ==
  options.mode # "ts" =>
    \A p \in PesPids : HeldInv(p) /\ PendingInv(p) /\ KeptInv(p)

-----------------------------------------------------------------------------
(* The files of TS packets *)

\* The file has all that was sent but for the packet under way, until it is
\* written.
Unwritten(p) == (stage = "ts" \/ (stage = "psi" /\ callback # NoCallback)) /\ current.pid = p
WrittenOn(p) ==
  {c \in SentOn(p) : Unwritten(p) => ~(UnitOf(c) = CurrentUnit(p) /\ IndexOf(c) >= First)}
FileInv(p) ==
  /\ \A i \in DOMAIN kept[p] : kept[p][i].raw \in [1..TsPacketSize -> Cell]
  /\ {CellAt(p, a) : a \in Places(p)} = WrittenOn(p)
  /\ \A a, b \in Places(p) :
       a[1] < b[1] \/ (a[1] = b[1] /\ a[2] < b[2]) => Precedes(CellAt(p, a), CellAt(p, b))
FilesInv == options.mode = "ts" => \A p \in options.write : FileInv(p)

IInv == StreamInv /\ UnderWayInv /\ RegisteredInv /\ CallbackInv /\ PesInv /\ FilesInv

-----------------------------------------------------------------------------
(* What the sender sends *)

LEMMA Numbers ==
  /\ TsPacketSize \in Nat \ {0} /\ MaxPayload \in Nat \ {0} /\ MaxPayload < TsPacketSize
  /\ PesHeaderSize \in Nat \ {0} /\ SectionHeaderSize \in Nat \ {0} /\ TableHeaderSize \in Nat \ {0}
BY PacketAssumption, SectionAssumption, PesHeaderAssumption DEF MaxPayload

LEMMA CarriedPids ==
  /\ Carrying \subseteq Pids /\ NullPid \notin Carrying /\ PesPids \subseteq Carrying
  /\ 0 \notin PesPids /\ PmtPids \cap PesPids = {} /\ 0 \in Pids
BY ClientAssumption DEF Carrying

\* Tables fit one packet behind their pointer_field.
LEMMA UnitSizes ==
  ASSUME NEW p \in Carrying, NEW h \in HeadsOf(p)
  PROVE  /\ h \in Heads /\ UnitSize(p, h) \in Nat \ {0}
         /\ p \in PesPids =>
              /\ h.PES_packet_length \in Nat /\ UnitSize(p, h) = h.PES_packet_length + PesHeaderSize
              /\ h.PES_has_optional_header => UnitSize(p, h) >= PesHeaderSize + 2
         /\ p \notin PesPids =>
              /\ h.pointer_field = 0
              /\ UnitSize(p, h) \in SectionHeaderSize..(MaxPayload - 1)
<1>0. h \in Heads
  BY DEF HeadsOf
<1>1. CASE p \in PesPids
  <2>1. p # 0 /\ p \notin PmtPids
    BY <1>1, CarriedPids
  <2>2. "PES_packet_length" \in DOMAIN h
    BY <1>1, <2>1 DEF HeadsOf
  <2>3. h.PES_packet_length \in Nat /\ (h.PES_has_optional_header => h.PES_packet_length >= 2)
    BY <1>0, <2>2, ClientHeadsAssumption
  <2>4. UnitSize(p, h) = h.PES_packet_length + PesHeaderSize
    BY <1>1 DEF UnitSize
  <2> QED
    BY <1>0, <1>1, <2>3, <2>4, Numbers
<1>2. CASE p \notin PesPids
  <2>1. "programs" \in DOMAIN h \/ "streams" \in DOMAIN h
    BY <1>2, CarriedPids DEF HeadsOf, Carrying
  <2>2. PICK id : IsTable(h, id)
    BY <1>0, <2>1, ClientHeadsAssumption
  <2>3. UnitSize(p, h) = h.section_length + TableHeaderSize
    BY <1>2 DEF UnitSize
  <2> QED
    BY <1>0, <1>2, <2>2, <2>3, Numbers DEF IsTable
<1> QED
  BY <1>1, <1>2

LEMMA LeadIs ==
  ASSUME NEW p
  PROVE  /\ Lead(p) \in Seq(Cell) /\ Len(Lead(p)) = IF p \in PesPids THEN 0 ELSE 1
         /\ p \in PesPids => Lead(p) = <<>>
         /\ p \notin PesPids => Lead(p)[1] = Filler
<1>1. Filler \in Cell
  BY DEF Filler, Cell
<1>2. <<>> \in Seq(Cell) /\ <<Filler>> \in Seq(Cell)
  BY <1>1
<1> QED
  BY <1>2 DEF Lead

\* A packet with payload carries the cells it was made with.
IsLoad(payload, p, u, first, last) ==
  payload = (IF first = 1 THEN Lead(p) ELSE <<>>) \o Cells(p, u, first, last)

IsStart(start, first) == start = (first = 1)

LEMMA PacketCarries ==
  ASSUME NEW p \in Pids, NEW u \in Nat, NEW first \in Nat \ {0}, NEW last \in Nat, first <= last,
         NEW head, NEW start, IsStart(start, first),
         NEW payload, IsLoad(payload, p, u, first, last),
         Len(payload) <= MaxPayload
  PROVE  LET pkt == PayloadPacket(p, start, Plain, head, payload)
         IN  Carries(pkt, p, u, first, last) /\ pkt.head = head
<1>1. PICK n \in Nat \ {0} : n = last - first + 1 /\ first \in Nat
  OBVIOUS
<1> DEFINE pkt == PayloadPacket(p, start, Plain, head, payload)
           cells == Cells(p, u, first, last)
           lead == IF first = 1 THEN Lead(p) ELSE <<>>
           info == parseTsPacketInfo(pkt)
<1>2. /\ cells \in Seq(Cell) /\ Len(cells) = n
      /\ \A j \in 1..n : cells[j] = <<p, u, first + j - 1>>
  <2>1. IsRun(cells, p, u, first, n)
    BY <1>1, CellsRun
  <2>2. \A j \in 1..n : cells[j] = <<p, u, first + j - 1>>
    BY <1>1 DEF Cells
  <2> QED
    BY <2>1, <2>2 DEF IsRun
<1>3. PICK m \in {0, 1} : /\ lead \in Seq(Cell) /\ Len(lead) = m
                          /\ \A i \in 1..m : lead[i] = Filler
  <2>1. <<>> \in Seq(Cell) /\ Len(<<>>) = 0
    OBVIOUS
  <2>2. /\ Lead(p) \in Seq(Cell) /\ Len(Lead(p)) \in {0, 1}
        /\ \A i \in 1..Len(Lead(p)) : Lead(p)[i] = Filler
    BY LeadIs
  <2>3. CASE first = 1
    BY <2>2, <2>3
  <2>4. CASE first # 1
    BY <2>1, <2>4
  <2> QED
    BY <2>3, <2>4
<1> HIDE DEF cells, lead
<1>4. payload = lead \o cells
  BY DEF lead, cells, IsLoad
<1>5. /\ payload \in Seq(Cell) /\ Len(payload) = m + n
      /\ \A i \in 1..(m + n) : payload[i] = IF i <= m THEN lead[i] ELSE cells[i - m]
  <2> DEFINE joined == lead \o cells
  <2>1. /\ joined \in Seq(Cell) /\ Len(joined) = m + n
        /\ \A i \in 1..(m + n) : joined[i] = IF i <= m THEN lead[i] ELSE cells[i - m]
    BY ONLY <1>1, <1>2, <1>3, ConcatProperties
  <2> HIDE DEF joined
  <2>2. payload = joined
    BY <1>4 DEF joined
  <2> QED
    BY ONLY <2>1, <2>2
<1>6. Len(payload) \in 1..MaxPayload /\ Plain \in AfFlags \cup {Plain}
  BY <1>1, <1>5
<1>f. PICK flags \in AfFlags \cup {Plain} : flags = Plain
  BY <1>6
<1> HIDE DEF pkt
<1>7. /\ pkt.pid = p /\ pkt.payload_unit_start_indicator = start /\ pkt.head = head
      /\ Offset(pkt) = TsPacketSize - Len(payload)
      /\ BytesFrom(pkt, info.payloadStartOffset) = payload
  <2>0. start \in BOOLEAN
    BY DEF IsStart
  <2>1. /\ p \in Pids /\ start \in BOOLEAN /\ flags \in AfFlags \cup {Plain}
        /\ payload \in Seq(Cell) /\ Len(payload) \in 1..MaxPayload
        /\ pkt = PayloadPacket(p, start, flags, head, payload)
    BY <1>5, <1>6, <1>f, <2>0 DEF pkt
  <2>2. /\ pkt.pid = p /\ pkt.payload_unit_start_indicator = start /\ pkt.head = head
        /\ Offset(pkt) = TsPacketSize - Len(payload)
    BY ONLY <2>1, PayloadIsFound
  <2>3. BytesFrom(pkt, info.payloadStartOffset) = payload
    <3> DEFINE made == PayloadPacket(p, start, flags, head, payload)
    <3>1. BytesFrom(made, parseTsPacketInfo(made).payloadStartOffset) = payload
      BY ONLY <2>1, PayloadIsCopied, ZenonT(30)
    <3>2. pkt = made
      BY <2>1
    <3> HIDE DEF made
    <3> QED
      BY <3>1, <3>2
  <2> QED
    BY <2>2, <2>3
<1>9. pkt.bytes = [i \in 1..TsPacketSize |->
                     IF i <= TsPacketSize - Len(payload) THEN Filler
                     ELSE payload[i - (TsPacketSize - Len(payload))]]
  BY DEF PayloadPacket, TsPacket, pkt
<1>10. ASSUME NEW i \in 1..TsPacketSize
       PROVE  (IF i <= TsPacketSize - (m + n) THEN Filler ELSE payload[i - (TsPacketSize - (m + n))])
                = (IF i <= TsPacketSize - n THEN Filler ELSE <<p, u, last - TsPacketSize + i>>)
  <2>0. TsPacketSize \in Nat /\ m + n <= TsPacketSize
    BY <1>5, <1>6, Numbers
  <2> DEFINE size == TsPacketSize
             k == i - (size - (m + n))
  <2>a. size \in Nat /\ m \in Nat /\ n \in Nat /\ i \in Nat
    BY <1>1, <1>3, <2>0
  <2>1. CASE i <= TsPacketSize - (m + n)
    <3> HIDE DEF size
    <3>1. i <= size - (m + n)
      BY <2>1 DEF size
    <3>2. i <= size - n
      BY ONLY <2>a, <3>1
    <3> QED
      BY ONLY <3>1, <3>2 DEF size
  <2>2. CASE i > TsPacketSize - (m + n)
    <3> DEFINE mine == IF i <= TsPacketSize - (m + n) THEN Filler
                       ELSE payload[i - (TsPacketSize - (m + n))]
               whole == IF i <= TsPacketSize - n THEN Filler ELSE <<p, u, last - TsPacketSize + i>>
    <3>1. k \in 1..(m + n) /\ k \in Int /\ (k <= m <=> i <= TsPacketSize - n)
      BY <1>1, <2>0, <2>2
    <3>2. payload[k] = IF k <= m THEN lead[k] ELSE cells[k - m]
      BY <1>5, <3>1
    <3>a. mine = payload[k]
      <4>1. ~(i <= TsPacketSize - (m + n))
        BY <2>2, <2>a
      <4> QED
        BY <4>1, Zenon
    <3> SUFFICES mine = whole
      OBVIOUS
    <3> HIDE DEF mine, whole
    <3>3. CASE k <= m
      <4>1. payload[k] = Filler
        <5>1. k \in 1..m
          BY <3>1, <3>3
        <5> QED
          BY <1>3, <3>2, <3>3, <5>1
      <4>2. whole = Filler
        BY <3>1, <3>3, Zenon DEF whole
      <4> QED
        BY <3>a, <4>1, <4>2
    <3>4. CASE ~(k <= m)
      <4>1. k - m \in 1..n /\ first + (k - m) - 1 = last - TsPacketSize + i
        BY <1>1, <2>0, <3>1, <3>4
      <4>2. cells[k - m] = <<p, u, last - TsPacketSize + i>>
        BY <1>2, <4>1
      <4>3. payload[k] = <<p, u, last - TsPacketSize + i>>
        BY <3>2, <3>4, <4>2
      <4>4. whole = <<p, u, last - TsPacketSize + i>>
        BY <3>1, <3>4, Zenon DEF whole
      <4> QED
        BY <3>a, <4>3, <4>4
    <3> QED
      BY <3>3, <3>4
  <2> QED
    BY <2>0, <2>1, <2>2
<1>11. pkt.bytes = [i \in 1..TsPacketSize |->
                      IF i <= TsPacketSize - n THEN Filler ELSE <<p, u, last - TsPacketSize + i>>]
  BY <1>5, <1>9, <1>10
<1>12. info.pid = p /\ info.isPayloadStart = (first = 1)
       /\ info.payloadStartOffset = TsPacketSize - Len(payload)
  BY <1>7 DEF IsStart, parseTsPacketInfo, Offset
<1>13. last - first + 1 <= MaxPayload
  BY <1>1, <1>5, <1>6, Numbers
<1>14. Carries(pkt, p, u, first, last)
  BY <1>1, <1>7, <1>11, <1>12, <1>13 DEF Carries, IsLoad
<1> QED
  BY <1>7, <1>14 DEF pkt

\* The first cell of a packet is where it was told to begin.
LEMMA CarriedFirst ==
  ASSUME NEW pkt, NEW p \in Pids, NEW u \in Nat, NEW first \in Nat \ {0}, NEW last \in Nat,
         first <= last, Carries(pkt, p, u, first, last)
  PROVE  FirstOf(pkt) = first
<1> DEFINE info == parseTsPacketInfo(pkt)
           cells == Cells(p, u, first, last)
<1>1. info.isPayloadStart = (first = 1)
  BY DEF Carries
<1>2. CASE first = 1
  BY <1>1, <1>2 DEF FirstOf
<1>3. CASE first # 1
  <2>1. BytesFrom(pkt, info.payloadStartOffset) = <<>> \o cells
    BY <1>3 DEF Carries
  <2>2. IsRun(cells, p, u, first, last - first + 1)
    BY CellsRun
  <2>3. cells \in Seq(Cell) /\ cells[1] = <<p, u, first>>
    BY <2>2 DEF IsRun
  <2> HIDE DEF cells
  <2>4. <<>> \o cells = cells
    BY <2>3
  <2>5. IndexOf(cells[1]) = first
    BY <2>3 DEF IndexOf
  <2> QED
    BY <1>1, <1>3, <2>1, <2>4, <2>5 DEF FirstOf
<1> QED
  BY <1>2, <1>3

-----------------------------------------------------------------------------
(* The steps that send *)

\* demux is given a packet with the cells from `first` on of the last unit of p,
\* which is a new one or the one under way.
Sends(p, first) ==
  /\ OnlyGrows(p) /\ p \in Carrying /\ stage = "idle" /\ stage' = "ts" /\ parses > 0
  /\ LET c == Len(units'[p])
         unit == units'[p][c]
     IN  /\ before[p] < c /\ c \in DOMAIN units'[p]
         /\ IF first = 1
            THEN /\ c = CurrentUnit(p) + 1
                 /\ before[p] < CurrentUnit(p) => CurrentUnit(p) \in Whole(p)
            ELSE /\ c = CurrentUnit(p) /\ p \in PesPids
                 /\ units[p][c].sent = first - 1 /\ c \notin Whole(p)
         /\ \A u \in DOMAIN units[p] : first = 1 \/ u < c => units'[p][u] = units[p][u]
         /\ unit.head \in HeadsOf(p) /\ unit.sent \in first..UnitSize(p, unit.head)
         /\ p \notin PesPids => first = 1 /\ unit.sent = UnitSize(p, unit.head)
         /\ current'.head = unit.head
         /\ Carries(current', p, c, first, unit.sent)

\* The history is that of the head with which a unit begins.
Notes(p, first, unit) ==
  IF first = 1 THEN CurrentUnit(p) < MaxUnits /\ Says(p, unit.head) ELSE UNCHANGED said

\* The position of a packet that begins a unit is noted, and a PES packet that
\* fits in one packet is sent in one.
Tells(p, first) ==
  LET unit == units'[p][Len(units'[p])]
  IN  /\ starts' = IF first = 1 /\ program = "WebAssembly"
                   THEN [starts EXCEPT ![p] = Append(@, (demuxed - opened) * TsPacketSize)]
                   ELSE starts
      /\ first = 1 /\ p \in PesPids /\ UnitSize(p, unit.head) <= MaxPayload =>
           unit.sent = UnitSize(p, unit.head)
      /\ Notes(p, first, unit)

LEMMA BeganSends ==
  ASSUME StreamInv, parses > 0, NEW p \in Carrying, FeedStart(p)
  PROVE  Sends(p, 1) /\ Tells(p, 1)
<1>0. p \in Pids /\ p # NullPid /\ SenderInv /\ before \in [Pids -> Nat] /\ StreamOn(p)
  BY CarriedPids DEF StreamInv
<1>1. PICK head \in HeadsOf(p) :
        LET n == SizeOrLess(MaxPayload - Len(Lead(p)), UnitSize(p, head))
        IN  /\ demux(PayloadPacket(p, TRUE, Plain, head,
                                   Lead(p) \o Cells(p, CurrentUnit(p) + 1, 1, n)))
            /\ BeginUnit(p, 0, head, n)
            /\ Says(p, head)
  BY DEF FeedStart
<1> DEFINE n == SizeOrLess(MaxPayload - Len(Lead(p)), UnitSize(p, head))
           payload == Lead(p) \o Cells(p, CurrentUnit(p) + 1, 1, n)
           pkt == PayloadPacket(p, TRUE, Plain, head, payload)
<1>2. /\ n \in 1..UnitSize(p, head) /\ (p \notin PesPids => n = UnitSize(p, head))
      /\ n + Len(Lead(p)) <= MaxPayload
  <2>1. /\ UnitSize(p, head) \in Nat \ {0}
        /\ p \notin PesPids => UnitSize(p, head) <= MaxPayload - 1
    BY UnitSizes, Numbers, SectionAssumption
  <2>2. Len(Lead(p)) = IF p \in PesPids THEN 0 ELSE 1
    BY LeadIs
  <2> QED
    BY <2>1, <2>2, Numbers DEF SizeOrLess
<1>e. p \in PesPids /\ UnitSize(p, head) <= MaxPayload => n = UnitSize(p, head)
  <2>1. UnitSize(p, head) \in Nat \ {0}
    BY UnitSizes
  <2>2. p \in PesPids => Len(Lead(p)) = 0
    BY LeadIs
  <2> QED
    BY <2>1, <2>2, Numbers DEF SizeOrLess
<1>3. demux(pkt) /\ BeginUnit(p, 0, head, n)
  BY <1>1
<1>a. starts' = IF program = "WebAssembly"
                THEN [starts EXCEPT ![p] = Append(@, (demuxed - opened) * TsPacketSize)]
                ELSE starts
  <2>1. Says(p, head)
    BY <1>1
  <2> QED
    BY <2>1 DEF Says
<1>4. CurrentUnit(p) \in Nat /\ head \in Heads
  <2>1. units[p] \in Seq(UnitRecord)
    BY <1>0 DEF SenderInv
  <2>2. head \in Heads
    BY UnitSizes
  <2> QED
    BY <2>1, <2>2 DEF CurrentUnit
<1> HIDE DEF n
<1>5. n \in Nat \ {0} /\ n \in Nat /\ UnitSize(p, head) \in Nat
  BY <1>2, UnitSizes
<1>6. Carries(pkt, p, CurrentUnit(p) + 1, 1, n) /\ pkt.head = head
  <2>1. IsRun(Cells(p, CurrentUnit(p) + 1, 1, n), p, CurrentUnit(p) + 1, 1, n)
    BY <1>0, <1>4, <1>5, CellsRun
  <2>2. Len(payload) <= MaxPayload
    <3>1. Lead(p) \in Seq(Cell) /\ Len(Lead(p)) \in Nat
      BY LeadIs
    <3> DEFINE cells == Cells(p, CurrentUnit(p) + 1, 1, n)
    <3>2. cells \in Seq(Cell) /\ Len(cells) = n
      BY <2>1 DEF IsRun
    <3> HIDE DEF cells
    <3>3. Len(Lead(p) \o cells) = Len(Lead(p)) + n
      BY <3>1, <3>2
    <3> QED
      BY <1>2, <1>5, <3>1, <3>3 DEF cells
  <2>s. PICK start : start = TRUE
    OBVIOUS
  <2>3. /\ IsLoad(payload, p, CurrentUnit(p) + 1, 1, n) /\ IsStart(start, 1)
        /\ 1 \in Nat \ {0} /\ 1 <= n /\ CurrentUnit(p) + 1 \in Nat
    <3>1. IsLoad(payload, p, CurrentUnit(p) + 1, 1, n)
      BY DEF IsLoad
    <3>2. IsStart(start, 1)
      BY <2>s DEF IsStart
    <3> HIDE DEF payload
    <3> QED
      BY <1>4, <1>5, <3>1, <3>2
  <2>4. PayloadPacket(p, start, Plain, head, payload) = pkt
    BY <2>s
  <2> HIDE DEF payload, pkt
  <2>5. p \in Pids /\ n \in Nat
    BY <1>0, <1>5
  <2> QED
    BY ONLY <2>2, <2>3, <2>4, <2>5, PacketCarries
<1>7. stage = "idle" /\ stage' = "ts" /\ current' = pkt
  <2>1. pkt.pid = p
    BY DEF PayloadPacket, TsPacket
  <2> HIDE DEF pkt
  <2> QED
    BY <1>0, <1>3, <2>1 DEF demux
<1>8. /\ OnlyGrows(p)
      /\ DOMAIN units'[p] = 1..(CurrentUnit(p) + 1)
      /\ units'[p][CurrentUnit(p) + 1] = [head |-> head, sent |-> n]
      /\ \A u \in DOMAIN units[p] : units'[p][u].sent =
           IF u = CurrentUnit(p) THEN units[p][u].sent + 0 ELSE units[p][u].sent
  <2>1. 0 \in Nat
    OBVIOUS
  <2> QED
    BY <1>0, <1>3, <1>4, <1>5, <2>1, BeginGrows
<1>9. Len(units'[p]) = CurrentUnit(p) + 1 /\ units[p] \in Seq(UnitRecord) /\ units'[p] \in Seq(UnitRecord)
  <2>1. units[p] \in Seq(UnitRecord) /\ units'[p] \in Seq(UnitRecord)
    BY <1>0, <1>8 DEF OnlyGrows, SenderInv
  <2> QED
    BY <1>4, <1>8, <2>1
<1>10. \A u \in DOMAIN units[p] : units'[p][u] = units[p][u]
  <2> SUFFICES ASSUME NEW u \in DOMAIN units[p] PROVE units'[p][u] = units[p][u]
    OBVIOUS
  <2>1. units[p][u] \in UnitRecord /\ units'[p][u] \in UnitRecord
    <3>1. u \in DOMAIN units'[p]
      BY <1>8 DEF OnlyGrows, Grown
    <3> QED
      BY <1>9, <3>1
  <2>2. units'[p][u].head = units[p][u].head
    BY <1>8 DEF OnlyGrows, Grown
  <2>3. units'[p][u].sent = units[p][u].sent
    BY <1>8, <2>1 DEF UnitRecord
  <2> QED
    BY <2>1, <2>2, <2>3 DEF UnitRecord
<1>11. before[p] < CurrentUnit(p) + 1 /\ (before[p] < CurrentUnit(p) => CurrentUnit(p) \in Whole(p))
  <2>1. before[p] \in Nat /\ before[p] <= CurrentUnit(p)
    BY <1>0 DEF StreamOn
  <2>2. ASSUME before[p] < CurrentUnit(p) PROVE CurrentUnit(p) \in Whole(p)
    <3> DEFINE N == CurrentUnit(p)
    <3>1. N \in DOMAIN units[p] /\ Last(units[p]) = units[p][N]
      BY <1>4, <1>9, <2>1, <2>2 DEF CurrentUnit, Last
    <3>2. units[p][N].sent \in 1..UnitSize(p, units[p][N].head) /\ units[p][N].head \in HeadsOf(p)
      BY <1>0, <3>1 DEF StreamOn
    <3>3. UnitSize(p, units[p][N].head) \in Nat
      BY <3>2, UnitSizes
    <3>4. UnitSize(p, units[p][N].head) - units[p][N].sent = 0
      <4>1. Left(p) = 0 /\ CurrentUnit(p) # before[p]
        BY <2>1, <2>2, <1>4 DEF FeedStart
      <4> QED
        BY <3>1, <4>1 DEF Left
    <3> QED
      BY <3>1, <3>2, <3>3, <3>4 DEF Whole
  <2> QED
    BY <1>4, <2>1, <2>2
<1> HIDE DEF pkt
<1> DEFINE c == CurrentUnit(p) + 1
           unit == units'[p][c]
<1>12. unit.head = head /\ unit.sent = n /\ c \in DOMAIN units'[p] /\ c = Len(units'[p])
  BY <1>4, <1>8, <1>9
<1>13. Carries(current', p, c, 1, unit.sent) /\ current'.head = unit.head
  BY <1>6, <1>7, <1>12
<1> HIDE DEF c, unit
<1>14. unit.head \in HeadsOf(p) /\ unit.sent \in 1..UnitSize(p, unit.head)
       /\ (p \notin PesPids => unit.sent = UnitSize(p, unit.head))
  BY <1>2, <1>12
<1>15. c = CurrentUnit(p) + 1 /\ unit = units'[p][c]
  BY DEF c, unit
<1>16. Tells(p, 1)
  <2>1. units'[p][Len(units'[p])] = unit
    BY <1>12, <1>15
  <2>2. Notes(p, 1, unit)
    <3>1. CurrentUnit(p) < MaxUnits /\ Says(p, head)
      BY <1>1 DEF BeginUnit
    <3> QED
      BY <1>12, <3>1 DEF Notes
  <2> QED
    BY <1>a, <1>e, <1>12, <2>1, <2>2 DEF Tells
<1>17. Sends(p, 1)
  BY <1>7, <1>8, <1>10, <1>11, <1>12, <1>13, <1>14, <1>15 DEF Sends
<1> QED
  BY <1>16, <1>17

LEMMA ResumedSends ==
  ASSUME StreamInv, parses > 0, NEW p \in Carrying, FeedMore(p)
  PROVE  \E first \in Nat \ {0} : Sends(p, first) /\ Tells(p, first)
<1>0. p \in Pids /\ p # NullPid /\ SenderInv /\ before \in [Pids -> Nat] /\ StreamOn(p)
  BY CarriedPids DEF StreamInv
<1>1. PICK c : c = CurrentUnit(p)
  OBVIOUS
<1> DEFINE old == units[p][c]
           n == SizeOrLess(MaxPayload, Left(p))
           payload == Cells(p, c, old.sent + 1, old.sent + n)
           pkt == PayloadPacket(p, FALSE, Plain, old.head, payload)
<1>2. before[p] \in Nat /\ c \in Nat /\ before[p] <= c /\ units[p] \in Seq(UnitRecord)
  <2>1. units[p] \in Seq(UnitRecord)
    BY <1>0 DEF SenderInv
  <2> QED
    BY <1>0, <1>1, <2>1 DEF CurrentUnit, StreamOn
<1>3. c # before[p] /\ Left(p) > 0
  <2>1. Left(p) > 0
    BY DEF FeedMore
  <2>2. c = before[p] => Left(p) = 0
    BY <1>1 DEF Left
  <2> QED
    BY <2>1, <2>2
<1>4. c \in DOMAIN units[p] /\ Last(units[p]) = old /\ c = Len(units[p]) /\ before[p] < c
  BY <1>1, <1>2, <1>3 DEF CurrentUnit, Last
<1>5. old.sent \in 1..UnitSize(p, old.head) /\ old.head \in HeadsOf(p)
  BY <1>0, <1>4 DEF StreamOn
<1>6. UnitSize(p, old.head) \in Nat /\ Left(p) = UnitSize(p, old.head) - old.sent
  <2>1. Left(p) = UnitSize(p, Last(units[p]).head) - Last(units[p]).sent
    BY <1>1, <1>3 DEF Left
  <2> HIDE DEF old
  <2>2. UnitSize(p, old.head) \in Nat
    BY <1>5, UnitSizes
  <2> QED
    BY <1>4, <2>1, <2>2
<1>7. c \notin Whole(p) /\ p \in PesPids
  <2>1. c \notin Whole(p)
    BY <1>3, <1>5, <1>6 DEF Whole
  <2> QED
    BY <1>0, <1>4, <2>1 DEF StreamOn
<1>8. demux(pkt) /\ ResumeUnit(p, n)
  BY <1>1, <1>4 DEF FeedMore
<1>9. n \in Nat \ {0} /\ n <= MaxPayload /\ n <= UnitSize(p, old.head) - old.sent
  BY <1>3, <1>5, <1>6, Numbers DEF SizeOrLess
<1> DEFINE first == old.sent + 1
           last == old.sent + n
<1> HIDE DEF n
<1>10. /\ first \in Nat \ {0} /\ first # 1 /\ last \in Nat /\ first <= last
       /\ last - first + 1 = n /\ last \in first..UnitSize(p, old.head) /\ old.sent = first - 1
  BY <1>5, <1>6, <1>9
<1> HIDE DEF last
<1>11. Carries(pkt, p, c, first, last) /\ pkt.head = old.head
  <2>1. payload = Cells(p, c, first, last)
    BY DEF last
  <2> HIDE DEF first, payload, pkt
  <2>2. payload \in Seq(Cell) /\ Len(payload) = n
    <3>1. first \in Nat
      BY <1>10
    <3>2. IsRun(Cells(p, c, first, last), p, c, first, n)
      BY <1>0, <1>2, <1>9, <1>10, <3>1, CellsRun
    <3> QED
      BY <2>1, <3>2 DEF IsRun
  <2>3. <<>> \o payload = payload
    BY <2>2
  <2>4. IsLoad(payload, p, c, first, last)
    BY <1>10, <2>1, <2>2, <2>3 DEF IsLoad
  <2>s. PICK start : start = FALSE
    OBVIOUS
  <2>5. /\ IsStart(start, first) /\ Len(payload) <= MaxPayload
        /\ PayloadPacket(p, start, Plain, old.head, payload) = pkt
    BY <1>9, <1>10, <2>2, <2>s DEF IsStart, pkt
  <2>6. p \in Pids /\ c \in Nat /\ first \in Nat \ {0} /\ last \in Nat /\ first <= last
    BY <1>0, <1>2, <1>10
  <2> HIDE DEF old
  <2> QED
    BY ONLY <2>4, <2>5, <2>6, PacketCarries
<1>12. stage = "idle" /\ stage' = "ts" /\ current' = pkt
  <2>1. pkt.pid = p
    BY DEF PayloadPacket, TsPacket
  <2> HIDE DEF pkt
  <2> QED
    BY <1>0, <1>8, <2>1 DEF demux
<1>13. /\ OnlyGrows(p) /\ DOMAIN units'[p] = DOMAIN units[p]
       /\ \A u \in DOMAIN units[p] : units'[p][u].sent =
            IF u = CurrentUnit(p) THEN units[p][u].sent + n ELSE units[p][u].sent
  <2>1. units[p] # <<>> /\ n \in Nat
    BY <1>2, <1>4, <1>9
  <2> QED
    BY <1>0, <1>8, <2>1, ResumeGrows
<1>14. Len(units'[p]) = c /\ units'[p] \in Seq(UnitRecord)
  <2>1. units'[p] \in Seq(UnitRecord)
    BY <1>0, <1>13 DEF OnlyGrows, SenderInv
  <2> QED
    BY <1>2, <1>4, <1>13, <2>1
<1>15. \A u \in DOMAIN units[p] : u < c => units'[p][u] = units[p][u]
  <2> SUFFICES ASSUME NEW u \in DOMAIN units[p], u < c PROVE units'[p][u] = units[p][u]
    OBVIOUS
  <2>1. units[p][u] \in UnitRecord /\ units'[p][u] \in UnitRecord
    BY <1>2, <1>13, <1>14
  <2>2. units'[p][u].head = units[p][u].head
    BY <1>13 DEF OnlyGrows, Grown
  <2>3. units'[p][u].sent = units[p][u].sent
    BY <1>1, <1>2, <1>13
  <2> QED
    BY <2>1, <2>2, <2>3 DEF UnitRecord
<1> DEFINE unit == units'[p][c]
<1>16. unit.head = old.head /\ unit.sent = last
  <2>1. unit.head = old.head
    BY <1>4, <1>13 DEF OnlyGrows, Grown
  <2>2. unit.sent = old.sent + n
    BY <1>1, <1>4, <1>13
  <2> QED
    BY <2>1, <2>2 DEF last
<1> HIDE DEF pkt, unit
<1>17. Carries(current', p, c, first, unit.sent) /\ current'.head = unit.head
  BY <1>11, <1>12, <1>16
<1>18. unit.head \in HeadsOf(p) /\ unit.sent \in first..UnitSize(p, unit.head)
  BY <1>5, <1>10, <1>16
<1>19. units[p][c].sent = first - 1 /\ c \in DOMAIN units'[p]
  BY <1>4, <1>10, <1>13
<1> HIDE DEF first, old
<1>20. Sends(p, first)
  BY <1>1, <1>4, <1>7, <1>10, <1>12, <1>13, <1>14, <1>15, <1>17, <1>18, <1>19 DEF Sends, unit
<1>21. Tells(p, first)
  <2>1. starts' = starts /\ UNCHANGED said
    BY DEF FeedMore, said
  <2> QED
    BY <1>10, <2>1 DEF Tells, Notes
<1> QED
  BY <1>10, <1>20, <1>21

\* What a packet of the stream leaves alone.
FeedFrame ==
  UNCHANGED <<mTsCallbackMap, mPsiCallbackMap, mPesCallbackMap, mPesPacket, mSectionBuffer,
              callback, kept, program, options, parses, before, pmtPids, esPids, mOrigin, mOrigins>>

LEMMA FeedSends ==
  ASSUME StreamInv, Feed
  PROVE  FeedFrame /\ \E p \in Carrying, first \in Nat \ {0} : Sends(p, first) /\ Tells(p, first)
<1>1. parses > 0
  BY DEF Feed
<1>2. PICK p \in Carrying : FeedStart(p) \/ FeedMore(p)
  BY DEF Feed, Carrying
<1>3. \E first \in Nat \ {0} : Sends(p, first) /\ Tells(p, first)
  <2>1. CASE FeedStart(p)
    <3>1. Sends(p, 1) /\ Tells(p, 1)
      BY <1>1, <2>1, BeganSends
    <3> QED
      BY <3>1
  <2>2. CASE FeedMore(p)
    BY <1>1, <2>2, ResumedSends
  <2> QED
    BY <1>2, <2>1, <2>2
<1>4. FeedFrame
  <2>1. UNCHANGED <<registrations, collectors, callback, mOrigin>>
    BY <1>2 DEF FeedStart, FeedMore, demux
  <2> QED
    BY <2>1 DEF Feed, FeedFrame, registrations, collectors, sections, tables, found, run, parse
<1> QED
  BY <1>3, <1>4

-----------------------------------------------------------------------------
(* The stream stays as it should be *)

\* What any step does to the units of a PID: there may be more, and of those
\* there are only the last may change, unless it is whole.
Grows(p) ==
  /\ program' = program /\ options' = options
  /\ program = "WebAssembly" => before'[p] = before[p]
  /\ CurrentUnit(p) \in Nat /\ CurrentUnit(p)' \in Nat /\ CurrentUnit(p) <= CurrentUnit(p)'
  /\ \A u \in DOMAIN units[p] :
       /\ u \in DOMAIN units'[p] /\ units'[p][u].head = units[p][u].head
       /\ u \in Whole(p) \/ u < CurrentUnit(p) => units'[p][u] = units[p][u]

LEMMA UnitsAreSeq ==
  ASSUME SenderInv, NEW p \in Pids
  PROVE  /\ units[p] \in Seq(UnitRecord) /\ CurrentUnit(p) \in Nat
         /\ DOMAIN units[p] = 1..CurrentUnit(p)
         /\ \A u \in DOMAIN units[p] : units[p][u].sent \in Nat
<1>1. units[p] \in Seq(UnitRecord)
  BY DEF SenderInv
<1>2. \A u \in DOMAIN units[p] : units[p][u] \in UnitRecord
  BY <1>1
<1> QED
  BY <1>1, <1>2 DEF CurrentUnit, UnitRecord

LEMMA UnitsStay ==
  ASSUME SenderInv, NEW p \in Pids, units'[p] = units[p],
         program' = program, options' = options, program = "WebAssembly" => before'[p] = before[p]
  PROVE  Grows(p)
<1>1. CurrentUnit(p)' = CurrentUnit(p)
  BY DEF CurrentUnit
<1> QED
  BY <1>1, UnitsAreSeq DEF Grows

LEMMA SendsGrow ==
  ASSUME StreamInv, NEW p \in Carrying, NEW first \in Nat \ {0}, Sends(p, first), FeedFrame,
         NEW q \in Pids
  PROVE  Grows(q)
<1>0. SenderInv /\ program' = program /\ options' = options /\ before' = before
  BY DEF StreamInv, FeedFrame
<1>1. CASE q # p
  <2>1. units'[q] = units[q]
    BY <1>1 DEF Sends, OnlyGrows
  <2> QED
    BY <1>0, <2>1, UnitsStay
<1>2. CASE q = p
  <2>0. p \in Pids
    BY CarriedPids
  <2>1. PICK c : c = Len(units'[p])
    OBVIOUS
  <2>2. /\ CurrentUnit(p) \in Nat /\ DOMAIN units[p] = 1..CurrentUnit(p)
    BY <1>0, <2>0, UnitsAreSeq
  <2>3. SenderInv' /\ Grown(units[p], units'[p])
    BY DEF Sends, OnlyGrows
  <2>4. c \in Nat
    BY <2>0, <2>1, <2>3 DEF SenderInv
  <2>5. /\ IF first = 1 THEN c = CurrentUnit(p) + 1 ELSE c = CurrentUnit(p) /\ c \notin Whole(p)
        /\ \A u \in DOMAIN units[p] : first = 1 \/ u < c => units'[p][u] = units[p][u]
    BY <2>1 DEF Sends
  <2>6. CurrentUnit(p)' = c
    BY <2>1 DEF CurrentUnit
  <2>7. ASSUME NEW u \in DOMAIN units[p]
        PROVE  /\ u \in DOMAIN units'[p] /\ units'[p][u].head = units[p][u].head
               /\ u \in Whole(p) \/ u < CurrentUnit(p) => units'[p][u] = units[p][u]
    <3>1. u \in DOMAIN units'[p] /\ units'[p][u].head = units[p][u].head
      BY <2>3 DEF Grown
    <3>2. ASSUME u \in Whole(p) \/ u < CurrentUnit(p) PROVE units'[p][u] = units[p][u]
      <4>1. first = 1 \/ u < c
        BY <2>2, <2>4, <2>5, <3>2
      <4> QED
        BY <2>5, <4>1
    <3> QED
      BY <3>1, <3>2
  <2>8. CurrentUnit(p) <= c
    BY <2>2, <2>5
  <2> QED
    BY <1>0, <1>2, <2>2, <2>4, <2>6, <2>7, <2>8 DEF Grows
<1> QED
  BY <1>1, <1>2

LEMMA SendsKeepStream ==
  ASSUME StreamInv, NEW p \in Carrying, NEW first \in Nat \ {0}, Sends(p, first), FeedFrame
  PROVE  StreamInv'
<1>0. /\ SenderInv /\ before \in [Pids -> Nat] /\ program' = program /\ before' = before
      /\ parses' = parses /\ parses > 0 /\ p \in Pids
  BY CarriedPids DEF StreamInv, FeedFrame, Sends
<1>1. SenderInv' /\ before' \in [Pids -> Nat]
  BY <1>0 DEF Sends, OnlyGrows
<1>2. ASSUME NEW q \in Pids, q # p PROVE StreamOn(q)'
  <2>1. units'[q] = units[q] /\ StreamOn(q)
    BY <1>2 DEF Sends, OnlyGrows, StreamInv
  <2>2. CurrentUnit(q)' = CurrentUnit(q) /\ Whole(q)' = Whole(q)
    BY <2>1 DEF CurrentUnit, Whole
  <2> QED
    BY <1>0, <2>1, <2>2 DEF StreamOn
<1>3. StreamOn(p)'
  <2>1. PICK c : c = Len(units'[p])
    OBVIOUS
  <2>2. CurrentUnit(p) \in Nat /\ DOMAIN units[p] = 1..CurrentUnit(p)
    BY <1>0, UnitsAreSeq
  <2>3. c \in Nat /\ DOMAIN units'[p] = 1..c /\ CurrentUnit(p)' = c
    BY <1>0, <1>1, <2>1 DEF SenderInv, CurrentUnit
  <2>4. /\ before[p] < c /\ units'[p][c].head \in HeadsOf(p)
        /\ units'[p][c].sent \in first..UnitSize(p, units'[p][c].head)
        /\ p \notin PesPids => first = 1 /\ units'[p][c].sent = UnitSize(p, units'[p][c].head)
        /\ IF first = 1
           THEN /\ c = CurrentUnit(p) + 1
                /\ before[p] < CurrentUnit(p) => CurrentUnit(p) \in Whole(p)
           ELSE c = CurrentUnit(p)
        /\ \A u \in DOMAIN units[p] : first = 1 \/ u < c => units'[p][u] = units[p][u]
    BY <2>1 DEF Sends
  <2>5. ASSUME NEW u \in DOMAIN units'[p]
        PROVE  /\ p \in Carrying /\ units'[p][u].head \in HeadsOf(p)
               /\ units'[p][u].sent \in 1..UnitSize(p, units'[p][u].head)
               /\ p \notin PesPids \/ (before[p] < u /\ u < c) =>
                    units'[p][u].sent = UnitSize(p, units'[p][u].head)
    <3>1. CASE u = c
      <4>1. UnitSize(p, units'[p][c].head) \in Nat
        BY <2>4, UnitSizes
      <4> QED
        BY <2>3, <2>4, <3>1, <4>1
    <3>2. CASE u # c
      <4>1. u \in DOMAIN units[p] /\ u < c /\ u \in Nat
        BY <2>2, <2>3, <2>4, <3>2
      <4>2. units'[p][u] = units[p][u] /\ StreamOn(p)
        BY <1>0, <2>4, <4>1 DEF StreamInv
      <4>3. p \notin PesPids \/ (before[p] < u /\ u < CurrentUnit(p)) => u \in Whole(p)
        BY <4>1, <4>2 DEF StreamOn
      <4>4. u < CurrentUnit(p) \/ u = CurrentUnit(p)
        BY <2>2, <2>4, <4>1
      <4>5. before[p] < u /\ u = CurrentUnit(p) => u \in Whole(p)
        BY <2>2, <2>4, <4>1
      <4>6. u \in Whole(p) => units[p][u].sent = UnitSize(p, units[p][u].head)
        BY DEF Whole
      <4> QED
        BY <4>1, <4>2, <4>3, <4>4, <4>5, <4>6 DEF StreamOn
    <3> QED
      BY <3>1, <3>2
  <2>6. before[p] <= c /\ StreamOn(p)
    BY <1>0, <2>3, <2>4 DEF StreamInv
  <2>7. Whole(p)' = {u \in DOMAIN units'[p] : units'[p][u].sent = UnitSize(p, units'[p][u].head)}
    BY DEF Whole
  <2> QED
    BY <1>0, <2>3, <2>5, <2>6, <2>7 DEF StreamOn
<1>4. \A q \in Pids : StreamOn(q)'
  BY <1>2, <1>3
<1> QED
  BY <1>1, <1>4 DEF StreamInv

LEMMA StreamStays ==
  ASSUME StreamInv, UNCHANGED <<units, before, program, parses>>
  PROVE  StreamInv'
<1>1. ASSUME NEW q \in Pids PROVE StreamOn(q)'
  <2>1. StreamOn(q) /\ CurrentUnit(q)' = CurrentUnit(q) /\ Whole(q)' = Whole(q)
    BY DEF StreamInv, CurrentUnit, Whole
  <2> QED
    BY <2>1 DEF StreamOn
<1> QED
  BY <1>1 DEF StreamInv, SenderInv

LEMMA BeginKeepsStream ==
  ASSUME StreamInv, parses \in Nat, BeginStep
  PROVE  StreamInv'
<1>1. /\ units' = units /\ program' = program /\ parses' = parses + 1
      /\ before' = [p \in Pids |-> CurrentUnit(p)]
      /\ program = "tsparser" => parses = 0
  BY DEF BeginStep, BeginUtilities, BeginTsparser, BeginWebAssembly, NewStream, sender, run
<1>2. ASSUME NEW q \in Pids PROVE StreamOn(q)' /\ before'[q] \in Nat
  <2>1. StreamOn(q) /\ CurrentUnit(q)' = CurrentUnit(q) /\ Whole(q)' = Whole(q)
    BY <1>1 DEF StreamInv, CurrentUnit, Whole
  <2>2. before'[q] = CurrentUnit(q) /\ CurrentUnit(q) \in Nat /\ DOMAIN units[q] = 1..CurrentUnit(q)
    BY <1>1, UnitsAreSeq DEF StreamInv
  <2>3. program = "tsparser" => CurrentUnit(q) = 0
    BY <1>1, <2>1 DEF StreamOn, CurrentUnit
  <2> QED
    BY <1>1, <2>1, <2>2, <2>3 DEF StreamOn
<1>3. before' \in [Pids -> Nat]
  BY <1>1, <1>2
<1> QED
  BY <1>1, <1>2, <1>3 DEF StreamInv, SenderInv

LEMMA SentIsUnderWay ==
  ASSUME StreamInv, NEW p \in Carrying, NEW first \in Nat \ {0}, Sends(p, first), FeedFrame
  PROVE  /\ UnderWayInv' /\ First' = first /\ current'.pid = p
         /\ CurrentUnit(p)' = Len(units'[p])
<1>1. PICK c : c = Len(units'[p])
  OBVIOUS
<1>2. /\ stage' = "ts" /\ parses' = parses /\ before' = before /\ parses > 0 /\ p \in Pids
      /\ SenderInv'
  BY CarriedPids DEF Sends, FeedFrame, OnlyGrows
<1>3. c \in Nat /\ CurrentUnit(p)' = c
  BY <1>1, <1>2 DEF SenderInv, CurrentUnit
<1> DEFINE unit == units'[p][c]
<1>4. /\ before[p] < c /\ c \in DOMAIN units'[p]
      /\ unit.head \in HeadsOf(p) /\ unit.sent \in first..UnitSize(p, unit.head)
      /\ p \notin PesPids => first = 1
      /\ current'.head = unit.head
      /\ Carries(current', p, c, first, unit.sent)
  BY <1>1 DEF Sends
<1>5. unit.sent \in Nat /\ first <= unit.sent
  <2>1. UnitSize(p, unit.head) \in Nat
    BY <1>4, UnitSizes
  <2> HIDE DEF unit
  <2> QED
    BY <1>4, <2>1
<1>6. current'.pid = p
  BY <1>4 DEF Carries
<1>7. PICK pkt : pkt = current'
  OBVIOUS
<1>8. FirstOf(pkt) = first
  <2>1. Carries(pkt, p, c, first, unit.sent)
    BY <1>4, <1>7
  <2> HIDE DEF unit
  <2> QED
    BY <1>2, <1>3, <1>5, <2>1, CarriedFirst
<1>9. First' = first
  BY <1>7, <1>8 DEF First
<1> HIDE DEF unit
<1>10. unit = units'[p][c] /\ first \in 1..unit.sent
  BY <1>5 DEF unit
<1>11. UnderWayInv'
  BY <1>2, <1>3, <1>4, <1>6, <1>9, <1>10 DEF UnderWayInv
<1> QED
  BY <1>1, <1>3, <1>6, <1>9, <1>11

LEMMA UnderWayStays ==
  ASSUME UnderWayInv, UNCHANGED <<units, before, parses>>,
         \/ stage' = "idle"
         \/ stage # "idle" /\ current' = current /\ stage' \in {"ts", "psi", "pes", "end"}
  PROVE  UnderWayInv'
<1>1. CASE stage' = "idle"
  BY <1>1 DEF UnderWayInv
<1>2. CASE stage # "idle" /\ current' = current /\ stage' \in {"ts", "psi", "pes", "end"}
  <2>1. First' = First /\ CurrentUnit(current.pid)' = CurrentUnit(current.pid)
    BY <1>2 DEF First, CurrentUnit
  <2> QED
    BY <1>2, <2>1 DEF UnderWayInv
<1> QED
  BY <1>1, <1>2

-----------------------------------------------------------------------------
(* The stages of demux *)

\* What the packet under way is of.
Flight(p, c, first, last) ==
  /\ current.pid = p /\ Pid = p /\ p \in Carrying /\ p \in Pids
  /\ c \in Nat \ {0} /\ CurrentUnit(p) = c /\ c \in DOMAIN units[p] /\ before[p] < c
  /\ last \in Nat /\ units[p][c].sent = last /\ current.head = units[p][c].head
  /\ first \in 1..last /\ First = first /\ (first > 1 => p \in PesPids)
  /\ Info.isPayloadStart = (first = 1) /\ Carries(current, p, c, first, last)

LEMMA InFlight ==
  ASSUME StreamInv, UnderWayInv, stage # "idle"
  PROVE  \E p \in Carrying, c \in Nat, first \in Nat, last \in Nat : Flight(p, c, first, last)
<1>1. PICK p : p = current.pid
  OBVIOUS
<1>2. PICK c : c = CurrentUnit(p)
  OBVIOUS
<1>3. p \in Carrying /\ p \in Pids /\ before[p] < c
  BY <1>1, <1>2, CarriedPids DEF UnderWayInv
<1>4. c \in Nat \ {0} /\ c \in DOMAIN units[p] /\ units[p][c].sent \in Nat
  <2>1. before[p] \in Nat /\ c \in Nat /\ DOMAIN units[p] = 1..c
    BY <1>2, <1>3, UnitsAreSeq DEF StreamInv
  <2>2. c \in DOMAIN units[p] /\ c \in Nat \ {0}
    BY <1>3, <2>1
  <2> QED
    BY <1>2, <1>3, <2>2, UnitsAreSeq DEF StreamInv
<1>5. PICK last \in Nat : last = units[p][c].sent
  BY <1>4
<1>6. First \in 1..last /\ (First > 1 => p \in PesPids) /\ current.head = units[p][c].head
      /\ Carries(current, p, c, First, last)
  BY <1>1, <1>2, <1>5 DEF UnderWayInv
<1>7. PICK first \in Nat : first = First /\ first \in 1..last
  BY <1>6
<1>8. Carries(current, p, c, first, last)
  BY <1>6, <1>7
<1>9. Pid = p /\ Info.isPayloadStart = (first = 1)
  BY <1>8 DEF Carries, Pid, Info
<1>10. Flight(p, c, first, last)
  BY <1>1, <1>2, <1>3, <1>4, <1>5, <1>6, <1>7, <1>8, <1>9 DEF Flight
<1> QED
  BY <1>3, <1>4, <1>10

\* What a stage does not touch.
StageFrame ==
  UNCHANGED <<mTsCallbackMap, mPsiCallbackMap, mPesCallbackMap, units, kept, program, options,
              parses, before, pmtPids>>

LEMMA StageKeeps ==
  ASSUME Stage
  PROVE  /\ StageFrame /\ callback = NoCallback /\ stage \in {"ts", "psi", "pes", "end"}
         /\ TsStage \/ PsiStage(TRUE) \/ PesStage \/ EndStage
<1>1. UNCHANGED registrations /\ callback = NoCallback /\ stage \in {"ts", "psi", "pes", "end"}
  BY DEF Stage, TsStage, PsiStage, CollectTable, PesStage, CollectPes, EndStage
<1> QED
  BY <1>1 DEF Stage, StageFrame, registrations, sender, found, run, parse, tables

Calls(kind, raw) ==
  /\ callback' # NoCallback /\ callback'.kind = kind /\ callback'.pid = Pid /\ callback'.raw = raw

LEMMA CallIs ==
  ASSUME NEW next, NEW kind \in {"ts", "psi", "pes"}, NEW raw, Call(next, kind, raw)
  PROVE  stage' = next /\ current' = current /\ Calls(kind, raw)
<1>1. callback'.kind # NoCallback.kind
  BY DEF Call, NoCallback
<1>2. callback' # NoCallback
  BY <1>1
<1> QED
  BY <1>2 DEF Call, Calls

LEMMA TsMoves ==
  ASSUME TsStage
  PROVE  /\ stage = "ts" /\ stage' = "psi" /\ current' = current
         /\ UNCHANGED <<mPesPacket, mSectionBuffer>>
         /\ IF Pid \in mTsCallbackMap THEN Calls("ts", current.bytes) ELSE callback' = NoCallback
<1>1. CASE Pid \in mTsCallbackMap
  BY <1>1, CallIs DEF TsStage, collectors, sections
<1>2. CASE Pid \notin mTsCallbackMap
  BY <1>2 DEF TsStage, Proceed, collectors, sections
<1> QED
  BY <1>1, <1>2

\* A table is in its packet as a whole.
LEMMA TableInPacket ==
  ASSUME StreamInv, NEW p, NEW c, NEW first, NEW last, Flight(p, c, first, last), p \notin PesPids
  PROVE  /\ Pid = p /\ Info.isPayloadStart /\ first = 1 /\ p \in Pids /\ c \in Nat
         /\ last \in Nat \ {0} /\ last < TsPacketSize /\ current.head = units[p][c].head
         /\ units[p][c].head \in HeadsOf(p) /\ last \in 1..UnitSize(p, units[p][c].head)
         /\ TableBytes(current, Info) = SubSeq(current.bytes, TsPacketSize - last + 1, TsPacketSize)
         /\ current.bytes = [i \in 1..TsPacketSize |->
                               IF i <= TsPacketSize - last THEN Filler ELSE <<p, c, last - TsPacketSize + i>>]
<1>1. /\ Pid = p /\ Info.isPayloadStart /\ first = 1 /\ p \in Pids /\ c \in Nat /\ last \in Nat \ {0}
      /\ Carries(current, p, c, 1, last) /\ current.head = units[p][c].head
  <2>1. first \in 1..last /\ last \in Nat /\ (first > 1 => p \in PesPids) /\ c \in Nat
        /\ Info.isPayloadStart = (first = 1)
    BY DEF Flight
  <2>2. first = 1 /\ last \in Nat \ {0}
    BY <2>1
  <2>3. Carries(current, p, c, 1, last)
    BY <2>2 DEF Flight
  <2> QED
    BY <2>1, <2>2, <2>3 DEF Flight
<1> DEFINE offset == Info.payloadStartOffset
           payload == Lead(p) \o Cells(p, c, 1, last)
<1>4. /\ offset = TsPacketSize - Len(payload) /\ BytesFrom(current, offset) = payload
      /\ current.bytes = [i \in 1..TsPacketSize |->
                            IF i <= TsPacketSize - (last - 1 + 1) THEN Filler
                            ELSE <<p, c, last - TsPacketSize + i>>]
  BY <1>1 DEF Carries, Info
<1>5. Len(payload) = last + 1
  <2>1. IsRun(Cells(p, c, 1, last), p, c, 1, last)
    BY <1>1, CellsRun
  <2>2. Lead(p) \in Seq(Cell) /\ Len(Lead(p)) = 1
    BY LeadIs
  <2> DEFINE cells == Cells(p, c, 1, last)
  <2>3. cells \in Seq(Cell) /\ Len(cells) = last
    BY <2>1 DEF IsRun
  <2> HIDE DEF cells
  <2>4. Len(Lead(p) \o cells) = Len(Lead(p)) + Len(cells)
    BY ONLY <2>2, <2>3, ConcatProperties, Zenon
  <2>5. Len(Lead(p) \o cells) = last + 1
    BY <1>1, <2>2, <2>3, <2>4
  <2> QED
    BY <2>5 DEF cells
<1> HIDE DEF payload
<1>h. units[p][c].head \in HeadsOf(p) /\ last \in 1..UnitSize(p, units[p][c].head) /\ p \in Carrying
  <2>1. StreamOn(p)
    BY <1>1 DEF StreamInv
  <2> QED
    BY <2>1 DEF Flight, StreamOn
<1>s. last < TsPacketSize /\ last \in Nat
  BY <1>1, <1>h, UnitSizes, Numbers
<1>6. tableOffset(current, Info) = offset + 1
  <2>1. current.head.pointer_field = 0
    BY <1>1, <1>h, UnitSizes
  <2> QED
    BY <1>4, <1>5, <1>1, <2>1, Numbers DEF tableOffset
<1> HIDE DEF offset
<1>7. TableBytes(current, Info) = SubSeq(current.bytes, TsPacketSize - last + 1, TsPacketSize)
  <2>1. tableOffset(current, Info) + 1 = TsPacketSize - last + 1
    BY <1>4, <1>5, <1>6, <1>s, Numbers
  <2> QED
    BY <2>1 DEF TableBytes, BytesFrom
<1>8. last - 1 + 1 = last
  BY <1>s
<1> QED
  BY <1>1, <1>4, <1>7, <1>8, <1>h, <1>s

\* The table that is begun, when it is called back.
LEMMA StartedTable ==
  ASSUME StreamInv, NEW p, NEW c, NEW first, NEW last, Flight(p, c, first, last), p \notin PesPids,
         CollectTable(TRUE), CallsBack(Pid, psiOut'), DOMAIN mSectionBuffer = Pids
  PROVE  mSectionBuffer'[p][1] = <<p, c, 1>>
<1>1. /\ Pid = p /\ Info.isPayloadStart /\ p \in Pids /\ last \in Nat \ {0} /\ last < TsPacketSize
  BY TableInPacket
<1>2. StartTable(current, Info)
  <2>1. ~SplitHeader(current, Info)
    BY DEF SplitHeader, CallsBack, Throws, PSI_TABLE_ID_PMT, PSI_TABLE_ID_PAT
  <2>2. ~AppendTable(current, Info)
    BY <1>1 DEF AppendTable
  <2> QED
    BY <2>1, <2>2 DEF CollectTable, collectTable
<1>3. mSectionBuffer'[p] = TableBytes(current, Info) /\ Len(TableBytes(current, Info)) >= SectionHeaderSize
  BY <1>1, <1>2 DEF StartTable, Pid
<1>7. /\ TableBytes(current, Info) = SubSeq(current.bytes, TsPacketSize - last + 1, TsPacketSize)
      /\ current.bytes = [i \in 1..TsPacketSize |->
                            IF i <= TsPacketSize - last THEN Filler ELSE <<p, c, last - TsPacketSize + i>>]
  BY TableInPacket
<1>8. PICK n \in Nat : n = TsPacketSize - last /\ n + last = TsPacketSize
  BY <1>1, Numbers
<1>9. SubSeq(current.bytes, n + 1, TsPacketSize)[1] = current.bytes[n + 1]
  <2>1. PICK bytes : bytes = current.bytes
    OBVIOUS
  <2>2. n \in Nat /\ TsPacketSize \in Nat /\ n + 1 <= TsPacketSize
    BY <1>1, <1>8, Numbers
  <2>3. SubSeq(bytes, n + 1, TsPacketSize) = [i \in 1..(1 + TsPacketSize - (n + 1)) |-> bytes[i + (n + 1) - 1]]
    BY <2>2
  <2>4. 1 \in 1..(1 + TsPacketSize - (n + 1)) /\ 1 + (n + 1) - 1 = n + 1
    BY <2>2
  <2> QED
    BY <2>1, <2>3, <2>4
<1>10. current.bytes[n + 1] = <<p, c, 1>>
  <2>1. n + 1 \in 1..TsPacketSize /\ ~(n + 1 <= TsPacketSize - last)
        /\ last - TsPacketSize + (n + 1) = 1
    BY <1>1, <1>8, Numbers
  <2> QED
    BY <1>7, <2>1
<1> QED
  BY <1>3, <1>7, <1>8, <1>9, <1>10

LEMMA PsiMoves ==
  ASSUME StreamInv, RegisteredInv, UnderWayInv, PsiStage(TRUE)
  PROVE  /\ stage = "psi" /\ mPesPacket' = mPesPacket /\ DOMAIN mSectionBuffer' = Pids
         /\ \/ stage' = "pes" /\ current' = current /\ callback' = NoCallback
            \/ stage' = "idle" /\ callback' = NoCallback /\ Pid \notin PesPids
            \/ /\ stage' = "pes" /\ current' = current /\ Pid \notin PesPids
               /\ Calls("psi", mSectionBuffer'[Pid])
               /\ mSectionBuffer'[Pid][1] = <<current.pid, CurrentUnit(current.pid), 1>>
<1>1. stage = "psi" /\ callback = NoCallback
  BY DEF PsiStage
<1>2. CASE Pid \notin mPsiCallbackMap
  BY <1>1, <1>2 DEF PsiStage, Proceed, collectors, sections, RegisteredInv
<1>3. CASE Pid \in mPsiCallbackMap
  <2>1. CollectTable(TRUE) /\ Pid \notin PesPids /\ DOMAIN mSectionBuffer = Pids
    BY <1>3 DEF PsiStage, RegisteredInv
  <2>2. mPesPacket' = mPesPacket
    BY <2>1 DEF CollectTable
  <2>3. DOMAIN mSectionBuffer' = Pids
    BY <2>1 DEF CollectTable, collectTable, StartTable, SplitHeader, AppendTable
  <2>4. CASE CallsBack(Pid, psiOut') /\ Call("pes", "psi", mSectionBuffer'[Pid])
    <3>1. PICK p \in Carrying, c \in Nat, first \in Nat, last \in Nat : Flight(p, c, first, last)
      BY <1>1, InFlight
    <3>2. Pid = p /\ current.pid = p /\ CurrentUnit(p) = c
      BY <3>1 DEF Flight
    <3>3. mSectionBuffer'[p][1] = <<p, c, 1>>
      BY <2>1, <2>4, <3>1, <3>2, StartedTable
    <3>4. stage' = "pes" /\ current' = current /\ Calls("psi", mSectionBuffer'[Pid])
      BY <2>4, CallIs
    <3> QED
      BY <1>1, <2>1, <2>2, <2>3, <3>2, <3>3, <3>4
  <2>5. CASE Abort
    BY <1>1, <2>1, <2>2, <2>3, <2>5 DEF Abort
  <2>6. CASE Proceed("pes")
    BY <1>1, <2>2, <2>3, <2>6 DEF Proceed
  <2> QED
    BY <2>1, <2>4, <2>5, <2>6 DEF CollectTable
<1> QED
  BY <1>2, <1>3

\* What collectPes does to the PES packet of the PID.
LEMMA PesMoves ==
  ASSUME PesStage, DOMAIN mPesPacket = Pids, \A q \in Pids : DOMAIN mPesPacket[q] = DOMAIN NoPes,
         Pid \in Pids
  PROVE  /\ stage = "pes" /\ stage' = "end" /\ current' = current /\ mSectionBuffer' = mSectionBuffer
         /\ DOMAIN mPesPacket' = Pids /\ \A q \in Pids : DOMAIN mPesPacket'[q] = DOMAIN NoPes
         /\ \A q \in Pids \ {Pid} : mPesPacket'[q] = mPesPacket[q]
         /\ callback' = NoCallback \/ Calls("pes", pesOut'.mPesBuffer)
         /\ IF Pid \in mPesCallbackMap
            THEN /\ StartPes(current, Info) \/ IgnorePes(Info) \/ AppendPes(current, Info)
                 /\ IF pesOut' # NoPes THEN Calls("pes", pesOut'.mPesBuffer) ELSE callback' = NoCallback
            ELSE mPesPacket' = mPesPacket /\ callback' = NoCallback
<1>1. stage = "pes" /\ callback = NoCallback
  BY DEF PesStage
<1>2. CASE Pid \notin mPesCallbackMap
  BY <1>1, <1>2 DEF PesStage, Proceed, collectors, sections
<1>3. CASE Pid \in mPesCallbackMap
  <2>1. CollectPes
    BY <1>3 DEF PesStage
  <2>2. mSectionBuffer' = mSectionBuffer
    BY <2>1 DEF CollectPes, sections
  <2>3. stage' = "end" /\ current' = current
        /\ IF pesOut' # NoPes THEN Calls("pes", pesOut'.mPesBuffer) ELSE callback' = NoCallback
    <3>1. CASE pesOut' # NoPes
      <4>1. Call("end", "pes", pesOut'.mPesBuffer)
        BY <2>1, <3>1 DEF CollectPes
      <4> QED
        BY <3>1, <4>1, CallIs
    <3>2. CASE pesOut' = NoPes
      BY <1>1, <2>1, <3>2 DEF CollectPes, Proceed
    <3> QED
      BY <3>1, <3>2
  <2>4. StartPes(current, Info) \/ IgnorePes(Info) \/ AppendPes(current, Info)
    BY <2>1 DEF CollectPes, collectPes
  <2>5. Info.pid = Pid
    BY DEF Pid
  <2>6. /\ DOMAIN mPesPacket' = Pids /\ \A q \in Pids : DOMAIN mPesPacket'[q] = DOMAIN NoPes
        /\ \A q \in Pids \ {Pid} : mPesPacket'[q] = mPesPacket[q]
    <3>1. CASE StartPes(current, Info)
      <4>1. mPesPacket' = [mPesPacket EXCEPT ![Pid] =
                             parsePesPacket(current.head, BytesFrom(current, Info.payloadStartOffset))]
        BY <2>5, <3>1 DEF StartPes
      <4>2. DOMAIN parsePesPacket(current.head, BytesFrom(current, Info.payloadStartOffset)) = DOMAIN NoPes
        BY DEF parsePesPacket, NoPes
      <4> QED
        BY <4>1, <4>2
    <3>2. CASE IgnorePes(Info)
      BY <3>2 DEF IgnorePes
    <3>3. CASE AppendPes(current, Info)
      <4> DEFINE pes == Extended(mPesPacket[Pid], BytesFrom(current, Info.payloadStartOffset))
      <4>1. mPesPacket' = [mPesPacket EXCEPT ![Pid] = Remaining(pes)]
        BY <2>5, <3>3 DEF AppendPes
      <4>2. DOMAIN pes = DOMAIN NoPes
        BY DEF Extended
      <4> HIDE DEF pes
      <4>3. DOMAIN Remaining(pes) = DOMAIN NoPes
        BY <4>2 DEF Remaining
      <4> QED
        BY <4>1, <4>3
    <3> QED
      BY <2>4, <3>1, <3>2, <3>3
  <2> QED
    BY <1>1, <1>3, <2>2, <2>3, <2>4, <2>6
<1> QED
  BY <1>2, <1>3

-----------------------------------------------------------------------------
(* What is registered, and whom the callbacks are for *)

LEMMA KeptTypes ==
  ASSUME DOMAIN kept = Pids, \A p \in Pids : IsSeq(kept[p]),
         NEW pid, NEW e, kept' = kept \/ kept' = [kept EXCEPT ![pid] = Append(@, e)]
  PROVE  DOMAIN kept' = Pids /\ \A p \in Pids : IsSeq(kept'[p])
<1>1. CASE kept' = kept
  BY <1>1
<1>2. CASE kept' = [kept EXCEPT ![pid] = Append(@, e)]
  <2>1. DOMAIN kept' = Pids
    BY <1>2
  <2>2. ASSUME NEW p \in Pids PROVE IsSeq(kept'[p])
    <3>1. kept'[p] = IF p = pid THEN Append(kept[p], e) ELSE kept[p]
      BY <1>2
    <3>2. IsSeq(Append(kept[p], e))
      BY AppendIsSeq
    <3> QED
      BY <3>1, <3>2
  <2> QED
    BY <2>1, <2>2
<1> QED
  BY <1>1, <1>2

\* The types of what a step leaves.
TypesAfter ==
  /\ DOMAIN mPesPacket' = Pids /\ DOMAIN mSectionBuffer' = Pids
  /\ \A p \in Pids : DOMAIN mPesPacket'[p] = DOMAIN NoPes
  /\ DOMAIN kept' = Pids /\ \A p \in Pids : IsSeq(kept'[p])

LEMMA RegisteredStays ==
  ASSUME RegisteredInv, TypesAfter,
         UNCHANGED <<program, options, parses, mTsCallbackMap>>,
         mPsiCallbackMap' \cap PesPids = {}, pmtPids' \in Seq(Pids \ PesPids)
  PROVE  RegisteredInv'
BY DEF RegisteredInv, TypesAfter, IsSeq

LEMMA TypesStay ==
  ASSUME RegisteredInv, UNCHANGED <<mPesPacket, mSectionBuffer, kept>>
  PROVE  TypesAfter
BY DEF RegisteredInv, TypesAfter

LEMMA NewPidsAre ==
  ASSUME NEW list \in Seq([type : {"NIT", "PMT"}, pid : Pids \ ({0} \cup PesPids)])
  PROVE  NewPmtPids(list) \in Seq(Pids \ PesPids)
<1> DEFINE T == [type : {"NIT", "PMT"}, pid : Pids \ ({0} \cup PesPids)]
           picked == Picked(list, [type : {PMT}, pid : Pids])
           counted == IF Len(list) = 1 THEN list ELSE picked
<1>1. picked \in Seq(T)
  BY PickedAre
<1>l. list \in Seq(T)
  OBVIOUS
<1> HIDE DEF picked, T
<1>2. counted \in Seq(T)
  BY <1>1, <1>l
<1> HIDE DEF counted
<1>3. ASSUME NEW i \in DOMAIN counted PROVE counted[i].pid \in Pids \ PesPids
  <2>1. counted[i] \in T
    BY <1>2
  <2> QED
    BY <2>1 DEF T
<1>4. [i \in DOMAIN counted |-> counted[i].pid] \in Seq(Pids \ PesPids)
  <2>1. PICK n \in Nat : n = Len(counted) /\ DOMAIN counted = 1..n
    BY <1>2
  <2>2. [i \in 1..n |-> counted[i].pid] \in [1..n -> Pids \ PesPids]
    BY <1>3, <2>1
  <2> QED
    BY <2>1, <2>2
<1>5. NewPmtPids(list) = [i \in DOMAIN counted |-> counted[i].pid]
  BY DEF NewPmtPids, counted, picked, T
<1> QED
  BY <1>4, <1>5

LEMMA PidsOfSeq ==
  ASSUME NEW T, NEW s \in Seq(T)
  PROVE  Range(s) \subseteq T
BY DEF Range

\* The table of a callback.
LEMMA TableIsSent ==
  ASSUME StreamInv, UnderWayInv, CallbackInv, callback # NoCallback, callback.kind = "psi"
  PROVE  /\ callback.pid = current.pid /\ callback.pid \in Carrying \ PesPids /\ stage = "pes"
         /\ HeadOf(callback.raw) \in HeadsOf(callback.pid) /\ HeadOf(callback.raw) = current.head
<1>1. /\ callback.pid = current.pid /\ stage = "pes" /\ callback.pid \notin PesPids
      /\ callback.raw[1] = <<current.pid, CurrentUnit(current.pid), 1>>
  BY DEF CallbackInv
<1>2. PICK p \in Carrying, c \in Nat, first \in Nat, last \in Nat : Flight(p, c, first, last)
  BY <1>1, InFlight
<1>3. /\ current.pid = p /\ CurrentUnit(p) = c /\ c \in DOMAIN units[p] /\ p \in Pids
      /\ current.head = units[p][c].head
  BY <1>2 DEF Flight
<1>4. HeadOf(callback.raw) = units[p][c].head
  BY <1>1, <1>3 DEF HeadOf, PidOf, UnitOf
<1>5. units[p][c].head \in HeadsOf(p)
  BY <1>3 DEF StreamInv, StreamOn
<1> QED
  BY <1>1, <1>3, <1>4, <1>5

LEMMA PatRegisters ==
  ASSUME StreamInv, UnderWayInv, CallbackInv, RegisteredInv, PatReturns
  PROVE  mPsiCallbackMap' \cap PesPids = {} /\ pmtPids' \in Seq(Pids \ PesPids)
<1>1. PICK pat : pat = HeadOf(callback.raw)
  OBVIOUS
<1>2. callback # NoCallback /\ callback.kind = "psi" /\ callback.pid = 0
  BY DEF PatReturns, CallbackStep
<1>3. pat \in HeadsOf(0)
  BY <1>1, <1>2, TableIsSent
<1>4. pat.programs \in Seq([type : {"NIT", "PMT"}, pid : Pids \ ({0} \cup PesPids)])
  <2>1. pat \in Heads /\ "programs" \in DOMAIN pat
    BY <1>3, ClientAssumption DEF HeadsOf
  <2> QED
    BY <2>1, ClientHeadsAssumption
<1>5. NewPmtPids(pat.programs) \in Seq(Pids \ PesPids)
  BY <1>4, NewPidsAre
<1>6. pmtPids \in Seq(Pids \ PesPids) /\ mPsiCallbackMap \cap PesPids = {}
  BY DEF RegisteredInv
<1>7. CASE prevPat = pat
  BY <1>1, <1>6, <1>7 DEF PatReturns
<1>8. CASE prevPat # pat
  <2>1. NewPat(pat)
    BY <1>1, <1>8 DEF PatReturns
  <2>2. <<>> \in Seq(Pids \ PesPids)
    OBVIOUS
  <2>3. pmtPids \o NewPmtPids(pat.programs) \in Seq(Pids \ PesPids)
    BY <1>5, <1>6
  <2>4. pmtPids' \in Seq(Pids \ PesPids)
    BY <1>5, <1>6, <2>1, <2>2, <2>3 DEF NewPat
  <2>5. Range(pmtPids') \subseteq Pids \ PesPids
    BY <2>4, PidsOfSeq
  <2>6. mPsiCallbackMap' = mPsiCallbackMap \/ mPsiCallbackMap' = mPsiCallbackMap \cup Range(pmtPids')
    BY <2>1 DEF NewPat
  <2> QED
    BY <1>6, <2>4, <2>5, <2>6
<1> QED
  BY <1>7, <1>8

BaseInv == StreamInv /\ UnderWayInv /\ RegisteredInv /\ CallbackInv

\* Between two packets there is no callback.
LEMMA IdleCallsNobody == ASSUME CallbackInv, stage = "idle" PROVE callback = NoCallback
BY DEF CallbackInv

LEMMA FeedKeepsBase ==
  ASSUME BaseInv, FeedStep
  PROVE  /\ BaseInv' /\ FeedFrame
         /\ \E p \in Carrying, first \in Nat \ {0} :
              /\ Sends(p, first) /\ Tells(p, first)
              /\ First' = first /\ current'.pid = p /\ CurrentUnit(p)' = Len(units'[p])
<1>1. FeedFrame /\ StreamInv /\ RegisteredInv /\ CallbackInv
  BY FeedSends DEF BaseInv, FeedStep
<1>2. PICK p \in Carrying, first \in Nat \ {0} : Sends(p, first) /\ Tells(p, first)
  BY FeedSends DEF BaseInv, FeedStep
<1>3. StreamInv'
  BY <1>1, <1>2, SendsKeepStream
<1>4. UnderWayInv' /\ First' = first /\ current'.pid = p /\ CurrentUnit(p)' = Len(units'[p])
  BY <1>1, <1>2, SentIsUnderWay
<1>5. RegisteredInv'
  <2>1. UNCHANGED <<mPesPacket, mSectionBuffer, kept, program, options, parses, mTsCallbackMap,
                    mPsiCallbackMap, pmtPids>>
    BY <1>1 DEF FeedFrame
  <2>2. mPsiCallbackMap' \cap PesPids = {} /\ pmtPids' \in Seq(Pids \ PesPids)
    BY <1>1, <2>1 DEF RegisteredInv
  <2> QED
    BY <1>1, <2>1, <2>2, TypesStay, RegisteredStays
<1>6. CallbackInv'
  <2>1. stage = "idle" /\ callback' = callback
    BY <1>1, <1>2 DEF FeedFrame, Sends
  <2>2. callback' = NoCallback
    BY <1>1, <2>1, IdleCallsNobody
  <2> QED
    BY <2>2 DEF CallbackInv, NoCallback
<1> QED
  BY <1>1, <1>2, <1>3, <1>4, <1>5, <1>6 DEF BaseInv

\* Steps between the packets that leave the stream alone.
LEMMA LocateKeepsBase ==
  ASSUME BaseInv, LocateStep
  PROVE  BaseInv'
<1>1. /\ UNCHANGED <<mPesPacket, mSectionBuffer, kept, program, options, parses, mTsCallbackMap,
                     mPsiCallbackMap, pmtPids, units, before, stage, callback>>
      /\ stage = "idle"
  BY DEF LocateStep, registrations, collectors, sections, sender, tables, found, run, parse
<1>2. StreamInv' /\ UnderWayInv'
  BY <1>1, StreamStays, UnderWayStays DEF BaseInv
<1>3. RegisteredInv'
  <2>1. mPsiCallbackMap' \cap PesPids = {} /\ pmtPids' \in Seq(Pids \ PesPids)
    BY <1>1 DEF RegisteredInv, BaseInv
  <2> QED
    BY <1>1, <2>1, TypesStay, RegisteredStays DEF BaseInv
<1>4. CallbackInv'
  <2>1. callback' = NoCallback
    BY <1>1, IdleCallsNobody DEF BaseInv
  <2> QED
    BY <2>1 DEF CallbackInv, NoCallback
<1> QED
  BY <1>2, <1>3, <1>4 DEF BaseInv

LEMMA AddKeepsBase ==
  ASSUME BaseInv, AddStep
  PROVE  BaseInv'
<1>1. /\ UNCHANGED <<mPesPacket, mSectionBuffer, kept, program, options, parses, mTsCallbackMap,
                     pmtPids, units, before, stage, callback>>
      /\ stage = "idle"
  BY DEF AddStep, collectors, sections, sender, found, run, parse
<1>2. StreamInv' /\ UnderWayInv'
  BY <1>1, StreamStays, UnderWayStays DEF BaseInv
<1>3. RegisteredInv'
  <2>1. pmtPids \in Seq(Pids \ PesPids) /\ mPsiCallbackMap \cap PesPids = {}
    BY DEF RegisteredInv, BaseInv
  <2>2. Range(pmtPids) \subseteq Pids \ PesPids
    BY <2>1, PidsOfSeq
  <2>3. mPsiCallbackMap' = mPsiCallbackMap \/ mPsiCallbackMap' = mPsiCallbackMap \cup Range(pmtPids)
    BY DEF AddStep
  <2>4. mPsiCallbackMap' \cap PesPids = {} /\ pmtPids' \in Seq(Pids \ PesPids)
    BY <1>1, <2>1, <2>2, <2>3
  <2> QED
    BY <1>1, <2>4, TypesStay, RegisteredStays DEF BaseInv
<1>4. CallbackInv'
  <2>1. callback' = NoCallback
    BY <1>1, IdleCallsNobody DEF BaseInv
  <2> QED
    BY <2>1 DEF CallbackInv, NoCallback
<1> QED
  BY <1>2, <1>3, <1>4 DEF BaseInv

LEMMA BeginKeepsBase ==
  ASSUME BaseInv, BeginStep
  PROVE  BaseInv'
<1>1. /\ UNCHANGED <<program, options, stage, callback>> /\ stage = "idle" /\ parses' = parses + 1
      /\ parses \in Nat /\ StreamInv /\ RegisteredInv /\ CallbackInv
  BY DEF BeginStep, BeginUtilities, BeginTsparser, BeginWebAssembly, NewStream, run, BaseInv, RegisteredInv
<1>2. StreamInv'
  BY <1>1, BeginKeepsStream
<1>3. UnderWayInv'
  BY <1>1 DEF UnderWayInv
<1>4. CallbackInv'
  <2>1. callback' = NoCallback
    BY <1>1, IdleCallsNobody
  <2> QED
    BY <2>1 DEF CallbackInv, NoCallback
<1>5. TypesAfter
  <2>1. CASE BeginUtilities \/ BeginTsparser
    <3>1. UNCHANGED <<mPesPacket, mSectionBuffer, kept>>
      BY <2>1 DEF BeginUtilities, BeginTsparser, collectors, sections
    <3> QED
      BY <1>1, <3>1, TypesStay
  <2>2. CASE BeginWebAssembly
    <3>1. IsSeq(<<>>)
      BY DEF IsSeq
    <3> QED
      BY <2>2, <3>1 DEF BeginWebAssembly, TypesAfter
  <2> QED
    BY <2>1, <2>2 DEF BeginStep
<1>6. /\ mPsiCallbackMap' \in {mPsiCallbackMap \cup {0}, {0}} /\ pmtPids' \in {pmtPids, <<>>}
  BY DEF BeginStep, BeginUtilities, BeginTsparser, BeginWebAssembly, Forgotten, tables
<1>7. mPsiCallbackMap' \cap PesPids = {} /\ pmtPids' \in Seq(Pids \ PesPids)
  <2>1. pmtPids \in Seq(Pids \ PesPids) /\ mPsiCallbackMap \cap PesPids = {} /\ <<>> \in Seq(Pids \ PesPids)
    BY <1>1 DEF RegisteredInv
  <2> QED
    BY <1>6, <2>1, CarriedPids
<1>8. mTsCallbackMap' = IF program = "tsparser" /\ options.mode = "ts" THEN options.write ELSE {}
  BY <1>1 DEF BeginStep, BeginUtilities, BeginTsparser, BeginWebAssembly, RegisteredInv
<1>9. RegisteredInv'
  BY <1>1, <1>5, <1>7, <1>8 DEF RegisteredInv, TypesAfter, IsSeq
<1> QED
  BY <1>2, <1>3, <1>4, <1>9 DEF BaseInv

LEMMA StageKeepsBase ==
  ASSUME BaseInv, StageStep
  PROVE  BaseInv'
<1>1. /\ StageFrame /\ callback = NoCallback /\ stage \in {"ts", "psi", "pes", "end"}
      /\ TsStage \/ PsiStage(TRUE) \/ PesStage \/ EndStage
      /\ StreamInv /\ UnderWayInv /\ RegisteredInv /\ stage # "idle"
  BY StageKeeps DEF StageStep, BaseInv
<1>2. PICK p \in Carrying, c \in Nat, first \in Nat, last \in Nat : Flight(p, c, first, last)
  BY <1>1, InFlight
<1>3. Pid = current.pid /\ Pid \in Pids
  BY <1>2 DEF Flight
<1>4. StreamInv' /\ UNCHANGED <<units, before, parses>>
  BY <1>1, StreamStays DEF StageFrame
<1>5. /\ stage' = "idle" \/ (current' = current /\ stage' \in {"psi", "pes", "end"})
      /\ CallbackInv'
      /\ DOMAIN mPesPacket' = Pids /\ DOMAIN mSectionBuffer' = Pids
      /\ \A q \in Pids : DOMAIN mPesPacket'[q] = DOMAIN NoPes
  <2>0. /\ DOMAIN mPesPacket = Pids /\ DOMAIN mSectionBuffer = Pids
        /\ \A q \in Pids : DOMAIN mPesPacket[q] = DOMAIN NoPes
    BY <1>1 DEF RegisteredInv
  <2>1. CASE TsStage
    <3>1. /\ stage' = "psi" /\ current' = current /\ UNCHANGED <<mPesPacket, mSectionBuffer>>
          /\ IF Pid \in mTsCallbackMap THEN Calls("ts", current.bytes) ELSE callback' = NoCallback
      BY <2>1, TsMoves
    <3>2. Pid \in mTsCallbackMap => program' = "tsparser"
      BY <1>1 DEF RegisteredInv, StageFrame
    <3>3. CallbackInv'
      BY <1>3, <3>1, <3>2 DEF CallbackInv, Calls, NoCallback
    <3> QED
      BY <2>0, <3>1, <3>3
  <2>2. CASE PsiStage(TRUE)
    <3>1. /\ mPesPacket' = mPesPacket /\ DOMAIN mSectionBuffer' = Pids
          /\ \/ stage' = "pes" /\ current' = current /\ callback' = NoCallback
             \/ stage' = "idle" /\ callback' = NoCallback
             \/ /\ stage' = "pes" /\ current' = current /\ Pid \notin PesPids
                /\ Calls("psi", mSectionBuffer'[Pid])
                /\ mSectionBuffer'[Pid][1] = <<current.pid, CurrentUnit(current.pid), 1>>
      BY <1>1, <2>2, PsiMoves
    <3>3. CASE callback' = NoCallback
      BY <2>0, <3>1, <3>3 DEF CallbackInv, NoCallback
    <3>4. CASE /\ stage' = "pes" /\ current' = current /\ Pid \notin PesPids
               /\ Calls("psi", mSectionBuffer'[Pid])
               /\ mSectionBuffer'[Pid][1] = <<current.pid, CurrentUnit(current.pid), 1>>
      <4>1. /\ callback'.pid = current.pid /\ callback'.kind = "psi" /\ callback'.pid \notin PesPids
            /\ callback'.raw[1] = <<current.pid, CurrentUnit(current.pid), 1>>
        BY <1>3, <3>4 DEF Calls
      <4>2. CurrentUnit(current.pid)' = CurrentUnit(current.pid)
        BY <1>4, <3>4 DEF CurrentUnit
      <4>3. CallbackInv'
        BY <3>4, <4>1, <4>2 DEF CallbackInv
      <4> QED
        BY <2>0, <3>1, <3>4, <4>3
    <3> QED
      BY <3>1, <3>3, <3>4
  <2>3. CASE PesStage
    <3>1. /\ stage' = "end" /\ current' = current /\ mSectionBuffer' = mSectionBuffer
          /\ DOMAIN mPesPacket' = Pids /\ \A q \in Pids : DOMAIN mPesPacket'[q] = DOMAIN NoPes
          /\ callback' = NoCallback \/ Calls("pes", pesOut'.mPesBuffer)
      BY <1>3, <2>0, <2>3, PesMoves
    <3>2. CallbackInv'
      BY <1>3, <3>1 DEF CallbackInv, Calls, NoCallback
    <3> QED
      BY <2>0, <3>1, <3>2
  <2>4. CASE EndStage
    <3>1. stage' = "idle" /\ callback' = NoCallback /\ UNCHANGED <<mPesPacket, mSectionBuffer>>
      BY <1>1, <2>4 DEF EndStage, collectors, sections
    <3> QED
      BY <2>0, <3>1 DEF CallbackInv, NoCallback
  <2> QED
    BY <1>1, <2>1, <2>2, <2>3, <2>4
<1>6. UnderWayInv'
  BY <1>1, <1>4, <1>5, UnderWayStays
<1>7. RegisteredInv'
  <2>1. UNCHANGED <<program, options, parses, mTsCallbackMap, mPsiCallbackMap, pmtPids, kept>>
    BY <1>1 DEF StageFrame
  <2>2. /\ mPsiCallbackMap' \cap PesPids = {} /\ pmtPids' \in Seq(Pids \ PesPids)
        /\ DOMAIN kept' = Pids /\ \A q \in Pids : IsSeq(kept'[q])
    BY <1>1, <2>1 DEF RegisteredInv
  <2>3. TypesAfter
    BY <1>5, <2>2 DEF TypesAfter
  <2> QED
    BY <1>1, <2>1, <2>2, <2>3, RegisteredStays
<1> QED
  BY <1>4, <1>5, <1>6, <1>7 DEF BaseInv

\* A callback returns: what is kept may have one entry more.
LEMMA ReturnsKeepBase ==
  ASSUME BaseInv, TsReturns \/ PesReturns \/ PatReturns \/ PmtReturns
  PROVE  /\ BaseInv' /\ callback # NoCallback /\ stage \in {"psi", "pes", "end"}
         /\ callback' = NoCallback /\ UNCHANGED <<mPesPacket, units, before, program, options, parses>>
         /\ stage' = "idle" \/ (stage' = stage /\ current' = current)
         /\ kept' = kept \/ \E e : kept' = [kept EXCEPT ![callback.pid] = Append(@, e)]
<1>1. /\ CallbackStep /\ callback # NoCallback /\ callback' = NoCallback
      /\ UNCHANGED <<mPesPacket, mSectionBuffer, units, before, program, options, parses, mTsCallbackMap>>
      /\ StreamInv /\ UnderWayInv /\ RegisteredInv /\ CallbackInv
  BY DEF BaseInv, TsReturns, PesReturns, PatReturns, PmtReturns, CallbackStep, collectors, sections,
         sender, parse
<1>2. stage \in {"psi", "pes", "end"}
  BY <1>1 DEF CallbackInv
<1>3. stage' = "idle" \/ (stage' = stage /\ current' = current)
  BY DEF TsReturns, PesReturns, PatReturns, PmtReturns
<1>4. kept' = kept \/ \E e : kept' = [kept EXCEPT ![callback.pid] = Append(@, e)]
  BY DEF TsReturns, PesReturns, PatReturns, PmtReturns, TableIsKept
<1>5. StreamInv' /\ UnderWayInv'
  BY <1>1, <1>2, <1>3, StreamStays, UnderWayStays
<1>6. mPsiCallbackMap' \cap PesPids = {} /\ pmtPids' \in Seq(Pids \ PesPids)
  <2>1. CASE PatReturns
    BY <1>1, <2>1, PatRegisters
  <2>2. CASE TsReturns \/ PesReturns \/ PmtReturns
    <3>1. UNCHANGED <<mPsiCallbackMap, pmtPids>>
      BY <2>2 DEF TsReturns, PesReturns, PmtReturns, tables
    <3> QED
      BY <1>1, <3>1 DEF RegisteredInv
  <2> QED
    BY <2>1, <2>2
<1>7. RegisteredInv'
  <2>1. DOMAIN kept' = Pids /\ \A q \in Pids : IsSeq(kept'[q])
    <3>1. DOMAIN kept = Pids /\ \A q \in Pids : IsSeq(kept[q])
      BY <1>1 DEF RegisteredInv
    <3>2. PICK e : kept' = kept \/ kept' = [kept EXCEPT ![callback.pid] = Append(@, e)]
      BY <1>4
    <3> QED
      BY <3>1, <3>2, KeptTypes
  <2>2. TypesAfter
    BY <1>1, <2>1 DEF TypesAfter, RegisteredInv
  <2> QED
    BY <1>1, <1>6, <2>2, RegisteredStays
<1>8. CallbackInv'
  BY <1>1 DEF CallbackInv, NoCallback
<1> QED
  BY <1>1, <1>2, <1>3, <1>4, <1>5, <1>7, <1>8 DEF BaseInv

-----------------------------------------------------------------------------
(* The PES packets stay in order *)

PesPart(p) == HeldInv(p) /\ PendingInv(p) /\ KeptInv(p)

\* What may be kept has been sent as far as it will be.
LEMMA KeepableStays ==
  ASSUME NEW p \in Pids, Grows(p), NEW u \in Int, Keepable(p, u)
  PROVE  /\ Keepable(p, u)' /\ units'[p][u] = units[p][u]
         /\ u \in Whole(p)' <=> u \in Whole(p)
         /\ Part(p, u)' = Part(p, u)
<1>1. u \in DOMAIN units[p] /\ (u \in Whole(p) \/ u < CurrentUnit(p))
  BY DEF Keepable
<1>2. units'[p][u] = units[p][u] /\ u \in DOMAIN units'[p]
  BY <1>1 DEF Grows
<1>3. u \in Whole(p)' <=> u \in Whole(p)
  BY <1>1, <1>2 DEF Whole
<1>4. Part(p, u)' = Part(p, u)
  BY <1>2 DEF Part, Unit, Grows
<1>5. u < CurrentUnit(p) => u < CurrentUnit(p)'
  BY DEF Grows
<1>6. program' = program /\ (program = "WebAssembly" => before'[p] = before[p])
  BY DEF Grows
<1>7. Keepable(p, u)'
  BY <1>2, <1>3, <1>5, <1>6 DEF Keepable
<1> QED
  BY <1>2, <1>3, <1>4, <1>7

\* What is kept of a PID stays in order when nothing is added to it.
LEMMA KeptStays ==
  ASSUME SenderInv, NEW p \in Pids, KeptInv(p), Grows(p), kept'[p] = kept[p],
         NEW m \in Int, NEW n \in Int, NextUnit(p) = m, NextUnit(p)' = n, m <= n
  PROVE  KeptInv(p)'
<1>1. ASSUME NEW i \in DOMAIN kept[p]
      PROVE  /\ KeptUnit(p, i)' = KeptUnit(p, i)
             /\ Keepable(p, KeptUnit(p, i))' /\ KeptUnit(p, i)' < n
             /\ KeptUnit(p, i)' \in Whole(p)' => kept'[p][i].raw = Part(p, KeptUnit(p, i))'
  <2>1. PICK u : u = KeptUnit(p, i)
    OBVIOUS
  <2>2. Keepable(p, u) /\ u < m /\ (u \in Whole(p) => kept[p][i].raw = Part(p, u))
    BY <2>1 DEF KeptInv
  <2>3. u \in Int
    BY <2>2, UnitsAreSeq DEF Keepable
  <2>4. KeptUnit(p, i)' = u
    BY <2>1 DEF KeptUnit
  <2>5. /\ Keepable(p, u)' /\ (u \in Whole(p)' <=> u \in Whole(p)) /\ Part(p, u)' = Part(p, u)
    BY <2>2, <2>3, KeepableStays
  <2> HIDE DEF KeptUnit, Keepable, Part
  <2>6. Keepable(p, KeptUnit(p, i))' /\ Part(p, KeptUnit(p, i))' = Part(p, u)'
    BY <2>4, <2>5
  <2> QED
    BY <2>1, <2>2, <2>3, <2>4, <2>5, <2>6
<1>2. ASSUME NEW i \in DOMAIN kept[p], NEW j \in DOMAIN kept[p], i < j
      PROVE  KeptUnit(p, i)' < KeptUnit(p, j)'
  <2>1. KeptUnit(p, i) < KeptUnit(p, j)
    BY <1>2 DEF KeptInv
  <2> QED
    BY <1>1, <2>1
<1> QED
  BY <1>1, <1>2 DEF KeptInv

\* A step that does nothing about p but to send more of it.
Passed(p) ==
  /\ Grows(p) /\ kept'[p] = kept[p] /\ mPesPacket'[p] = mPesPacket[p]
  /\ p \in mPesCallbackMap => p \in mPesCallbackMap'
  /\ ~Pending(p) /\ ~Pending(p)'
  /\ SeenUnit(p)' = SeenUnit(p)
  /\ SeenUnit(p) \in DOMAIN units[p] => SeenCells(p)' = SeenCells(p)

LEMMA SeenIsNumber ==
  ASSUME SenderInv, NEW p \in Pids
  PROVE  SeenUnit(p) \in Int
<1>1. CurrentUnit(p) \in Nat
  BY UnitsAreSeq
<1> QED
  BY <1>1 DEF SeenUnit

LEMMA PassedKeeps ==
  ASSUME SenderInv, NEW p \in Pids, PesPart(p), Passed(p)
  PROVE  PesPart(p)'
<1>1. Held(p)' <=> Held(p)
  BY DEF Passed, Held
<1>2. PICK s \in Int : s = SeenUnit(p)
  BY SeenIsNumber
<1>3. SeenUnit(p)' = s
  BY <1>2 DEF Passed
<1>4. HeldInv(p)'
  <2> SUFFICES ASSUME Held(p)'
               PROVE  /\ p \in mPesCallbackMap' /\ s \in DOMAIN units'[p]
                      /\ mPesPacket'[p].mPesBuffer = Cells(p, s, 1, SeenCells(p)')
                      /\ mPesPacket'[p].PES_packet_length = units'[p][s].head.PES_packet_length
                      /\ program' = "WebAssembly" => before'[p] < s
    BY <1>3 DEF HeldInv
  <2>1. /\ p \in mPesCallbackMap /\ s \in DOMAIN units[p]
        /\ mPesPacket[p].mPesBuffer = Cells(p, s, 1, SeenCells(p))
        /\ mPesPacket[p].PES_packet_length = units[p][s].head.PES_packet_length
        /\ program = "WebAssembly" => before[p] < s
    BY <1>1, <1>2 DEF PesPart, HeldInv
  <2>2. s \in DOMAIN units'[p] /\ units'[p][s].head = units[p][s].head
    BY <2>1 DEF Passed, Grows
  <2>3. SeenCells(p)' = SeenCells(p)
    BY <1>2, <2>1 DEF Passed
  <2>4. /\ p \in mPesCallbackMap' /\ mPesPacket'[p] = mPesPacket[p]
        /\ program' = "WebAssembly" => before'[p] < s
    BY <2>1 DEF Passed, Grows
  <2> QED
    BY <2>1, <2>2, <2>3, <2>4
<1>5. PendingInv(p)'
  BY DEF PendingInv, Passed
<1>6. KeptInv(p)'
  <2>1. PICK n \in Int : n = NextUnit(p) /\ n = NextUnit(p)'
    <3>1. NextUnit(p) = IF Held(p) THEN s ELSE s + 1
      BY <1>2 DEF NextUnit, Passed
    <3>2. NextUnit(p)' = IF Held(p) THEN s ELSE s + 1
      BY <1>1, <1>3 DEF NextUnit, Passed
    <3> QED
      BY <3>1, <3>2
  <2>2. n <= n
    OBVIOUS
  <2> QED
    BY <2>1, <2>2, KeptStays DEF PesPart, Passed
<1> QED
  BY <1>4, <1>5, <1>6 DEF PesPart

LEMMA SightStays ==
  ASSUME units' = units, NEW p, Ahead(p)' <=> Ahead(p), Ahead(p) => First' = First
  PROVE  SeenUnit(p)' = SeenUnit(p) /\ SeenCells(p)' = SeenCells(p)
<1>1. CurrentUnit(p)' = CurrentUnit(p)
  BY DEF CurrentUnit
<1>2. SeenUnit(p)' = SeenUnit(p)
  BY <1>1 DEF SeenUnit
<1> QED
  BY <1>2 DEF SeenCells

\* What is sent is not seen yet.
LEMMA FeedPasses ==
  ASSUME StreamInv, CallbackInv, NEW p \in Carrying, NEW first \in Nat \ {0}, Sends(p, first), FeedFrame,
         First' = first, current'.pid = p, CurrentUnit(p)' = Len(units'[p]), NEW q \in Pids
  PROVE  Passed(q)
<1>0. /\ stage = "idle" /\ stage' = "ts" /\ SenderInv /\ callback = NoCallback /\ callback' = NoCallback
  BY IdleCallsNobody DEF Sends, StreamInv, FeedFrame
<1>1. Grows(q)
  BY SendsGrow
<1>2. /\ kept'[q] = kept[q] /\ mPesPacket'[q] = mPesPacket[q] /\ mPesCallbackMap' = mPesCallbackMap
  BY DEF FeedFrame
<1>3. ~Pending(q) /\ ~Pending(q)'
  BY <1>0 DEF Pending
<1>4. SeenUnit(q) = CurrentUnit(q) /\ SeenCells(q) = units[q][CurrentUnit(q)].sent
  BY <1>0 DEF SeenUnit, SeenCells, Ahead
<1>5. CASE q # p
  <2>1. units'[q] = units[q] /\ ~Ahead(q)'
    BY <1>5 DEF Sends, OnlyGrows, Ahead
  <2>2. SeenUnit(q)' = CurrentUnit(q)' /\ SeenCells(q)' = units'[q][SeenUnit(q)'].sent
    BY <2>1 DEF SeenUnit, SeenCells
  <2>3. CurrentUnit(q)' = CurrentUnit(q)
    BY <2>1 DEF CurrentUnit
  <2> QED
    BY <1>1, <1>2, <1>3, <1>4, <2>1, <2>2, <2>3 DEF Passed
<1>6. CASE q = p
  <2>1. PICK c : c = CurrentUnit(p)
    OBVIOUS
  <2>2. c \in Nat /\ DOMAIN units[p] = 1..c
    BY <1>0, <1>6, <2>1, UnitsAreSeq
  <2>3. Ahead(p)'
    BY <1>0 DEF Ahead
  <2>4. CASE first = 1
    <3>1. CurrentUnit(p)' = c + 1 /\ \A u \in DOMAIN units[p] : units'[p][u] = units[p][u]
      BY <2>1, <2>4 DEF Sends
    <3>2. SeenUnit(p)' = c
      BY <2>2, <2>3, <2>4, <3>1 DEF SeenUnit
    <3>3. SeenCells(p)' = units'[p][c].sent
      BY <2>3, <2>4, <3>2 DEF SeenCells
    <3>4. c \in DOMAIN units[p] => units'[p][c] = units[p][c]
      BY <3>1
    <3> QED
      BY <1>1, <1>2, <1>3, <1>4, <1>6, <2>1, <3>2, <3>3, <3>4 DEF Passed
  <2>5. CASE first # 1
    <3>1. CurrentUnit(p)' = c /\ units[p][c].sent = first - 1 /\ first > 1
      BY <2>1, <2>5 DEF Sends
    <3>2. SeenUnit(p)' = c
      BY <2>3, <2>5, <3>1 DEF SeenUnit
    <3>3. SeenCells(p)' = first - 1
      BY <2>3, <3>1 DEF SeenCells
    <3> QED
      BY <1>1, <1>2, <1>3, <1>4, <1>6, <2>1, <3>1, <3>2, <3>3 DEF Passed
  <2> QED
    BY <2>4, <2>5
<1> QED
  BY <1>5, <1>6

-----------------------------------------------------------------------------
(* The other steps and the PES packets *)

\* A step that does nothing about p.
Quiet(p) ==
  /\ units' = units /\ program' = program /\ options' = options
  /\ program = "WebAssembly" => before'[p] = before[p]
  /\ kept'[p] = kept[p] /\ mPesPacket'[p] = mPesPacket[p]
  /\ p \in mPesCallbackMap => p \in mPesCallbackMap'
  /\ ~Pending(p) /\ ~Pending(p)'
  /\ Ahead(p)' <=> Ahead(p)
  /\ Ahead(p) => current' = current

LEMMA QuietPasses ==
  ASSUME SenderInv, NEW p \in Pids, Quiet(p)
  PROVE  Passed(p)
<1>1. Grows(p)
  BY UnitsStay DEF Quiet
<1>2. SeenUnit(p)' = SeenUnit(p) /\ SeenCells(p)' = SeenCells(p)
  <2>1. units' = units /\ (Ahead(p)' <=> Ahead(p)) /\ (Ahead(p) => First' = First)
    BY DEF Quiet, First
  <2> QED
    BY <2>1, SightStays
<1> QED
  BY <1>1, <1>2 DEF Passed, Quiet

\* Between the packets.
LEMMA IdlePasses ==
  ASSUME BaseInv, NEW p \in Pids, LocateStep \/ AddStep \/ BeginUtilities \/ BeginTsparser
  PROVE  Passed(p)
<1>1. /\ UNCHANGED <<units, program, options, kept, mPesPacket, stage, callback>> /\ stage = "idle"
      /\ program = "WebAssembly" => before' = before
      /\ p \in mPesCallbackMap => p \in mPesCallbackMap'
  BY DEF LocateStep, AddStep, BeginUtilities, BeginTsparser, NewStream, registrations, collectors, sender,
         tables, found, run, parse
<1>2. callback = NoCallback /\ callback' = NoCallback
  BY <1>1, IdleCallsNobody DEF BaseInv
<1>3. Quiet(p)
  BY <1>1, <1>2 DEF Quiet, Pending, Ahead
<1> QED
  BY <1>3, QuietPasses DEF BaseInv, StreamInv

\* The stages of demux pass all PIDs by but that of the packet.
LEMMA StagePasses ==
  ASSUME BaseInv, StageStep, NEW p \in PesPids, ~(PesStage /\ Pid = p)
  PROVE  Passed(p)
<1>1. /\ StageFrame /\ callback = NoCallback /\ stage \in {"ts", "psi", "pes", "end"}
      /\ TsStage \/ PsiStage(TRUE) \/ PesStage \/ EndStage
      /\ StreamInv /\ UnderWayInv /\ RegisteredInv /\ stage # "idle" /\ p \in Pids /\ SenderInv
  BY StageKeeps, CarriedPids DEF StageStep, BaseInv, StreamInv
<1>2. PICK q \in Carrying, c \in Nat, first \in Nat, last \in Nat : Flight(q, c, first, last)
  BY <1>1, InFlight
<1>3. Pid = q /\ current.pid = q /\ q \in Pids
  BY <1>2 DEF Flight
<1>4. /\ units' = units /\ program' = program /\ options' = options /\ before' = before /\ kept' = kept
      /\ mPesCallbackMap' = mPesCallbackMap
  BY <1>1 DEF StageFrame
<1>5. ~Pending(p)
  BY <1>1 DEF Pending
<1>6. mPesPacket'[p] = mPesPacket[p] /\ ~Pending(p)' /\ (Ahead(p)' <=> Ahead(p)) /\ (Ahead(p) => current' = current)
  <2>1. CASE TsStage
    <3>1. /\ stage = "ts" /\ stage' = "psi" /\ current' = current /\ mPesPacket' = mPesPacket
          /\ Calls("ts", current.bytes) \/ callback' = NoCallback
      BY <2>1, TsMoves
    <3>2. ~Pending(p)'
      BY <3>1 DEF Pending, Calls
    <3> QED
      BY <3>1, <3>2 DEF Ahead
  <2>2. CASE PsiStage(TRUE)
    <3>1. /\ stage = "psi" /\ mPesPacket' = mPesPacket
          /\ \/ stage' = "pes" /\ current' = current /\ callback' = NoCallback
             \/ stage' = "idle" /\ callback' = NoCallback /\ q \notin PesPids
             \/ stage' = "pes" /\ current' = current /\ Calls("psi", mSectionBuffer'[Pid])
      BY <1>1, <1>3, <2>2, PsiMoves
    <3>2. ~Pending(p)'
      BY <3>1 DEF Pending, Calls
    <3> QED
      BY <1>3, <3>1, <3>2 DEF Ahead
  <2>3. CASE PesStage
    <3>0. q # p
      BY <1>3, <2>3
    <3>1. /\ stage = "pes" /\ stage' = "end" /\ mPesPacket'[p] = mPesPacket[p]
          /\ callback' = NoCallback \/ Calls("pes", pesOut'.mPesBuffer)
      BY <1>1, <1>3, <2>3, <3>0, PesMoves DEF RegisteredInv
    <3>2. ~Pending(p)'
      BY <1>3, <3>0, <3>1 DEF Pending, Calls
    <3> QED
      BY <1>3, <3>0, <3>1, <3>2 DEF Ahead
  <2>4. CASE EndStage
    <3>1. stage = "end" /\ stage' = "idle" /\ mPesPacket' = mPesPacket /\ callback' = NoCallback
      BY <1>1, <2>4 DEF EndStage, collectors
    <3> QED
      BY <3>1 DEF Pending, Ahead
  <2> QED
    BY <1>1, <2>1, <2>2, <2>3, <2>4
<1>7. Quiet(p)
  BY <1>4, <1>5, <1>6 DEF Quiet
<1> QED
  BY <1>1, <1>7, QuietPasses

\* A callback that is not about a PES packet of p.
LEMMA ReturnPasses ==
  ASSUME BaseInv, TsReturns \/ PesReturns \/ PatReturns \/ PmtReturns,
         options.mode # "ts", NEW p \in PesPids, ~Pending(p)
  PROVE  Passed(p)
<1>1. /\ callback # NoCallback /\ stage \in {"psi", "pes", "end"} /\ callback' = NoCallback
      /\ UNCHANGED <<mPesPacket, units, before, program, options>>
      /\ stage' = "idle" \/ (stage' = stage /\ current' = current)
      /\ p \in Pids /\ SenderInv /\ callback.pid = current.pid
  BY ReturnsKeepBase, CarriedPids DEF BaseInv, StreamInv, CallbackInv
<1>2. p \in mPesCallbackMap => p \in mPesCallbackMap'
  BY DEF TsReturns, PesReturns, PatReturns, PmtReturns
<1>3. kept'[p] = kept[p]
  <2>1. CASE TsReturns
    BY <2>1 DEF TsReturns
  <2>2. CASE PesReturns
    <3>1. callback.pid # p
      BY <1>1, <2>2 DEF PesReturns, Pending
    <3> QED
      BY <2>2, <3>1 DEF PesReturns
  <2>3. CASE PatReturns \/ PmtReturns
    <3>1. callback.kind = "psi" /\ TableIsKept(callback.pid)
      BY <2>3 DEF PatReturns, PmtReturns
    <3>2. callback.pid # p /\ p \in DOMAIN kept
      BY <1>1, <3>1 DEF BaseInv, CallbackInv, RegisteredInv
    <3>3. kept' = kept \/ \E e : kept' = [kept EXCEPT ![callback.pid] = e]
      BY <3>1 DEF TableIsKept
    <3> QED
      BY <3>2, <3>3
  <2> QED
    BY <2>1, <2>2, <2>3
<1>4. (Ahead(p)' <=> Ahead(p)) /\ (Ahead(p) => current' = current)
  <2>1. CASE stage' = stage /\ current' = current
    BY <2>1 DEF Ahead
  <2>2. CASE ~(stage' = stage /\ current' = current)
    <3>1. stage' = "idle" /\ PesReturns
      BY <1>1, <2>2 DEF TsReturns, PatReturns, PmtReturns
    <3>2. stage = "end"
      BY <1>1, <3>1 DEF PesReturns, BaseInv, CallbackInv
    <3> QED
      BY <3>1, <3>2 DEF Ahead
  <2> QED
    BY <2>1, <2>2
<1>5. Quiet(p)
  BY <1>1, <1>2, <1>3, <1>4 DEF Quiet, Pending
<1> QED
  BY <1>1, <1>5, QuietPasses

\* What collectPes leaves of the PES packet and gives to the callback: it may
\* have nothing under collection, or have taken the packet up, or have ended.
CollectsNothing(p, first) ==
  /\ ~Held(p) /\ mPesPacket'[p] = mPesPacket[p] /\ callback' = NoCallback
  /\ first = 1 => p \notin mPesCallbackMap
CollectsMore(p, c, first, last) ==
  /\ mPesPacket'[p] # NoPes /\ p \in mPesCallbackMap
  /\ mPesPacket'[p].mPesBuffer = Cells(p, c, 1, last)
  /\ mPesPacket'[p].PES_packet_length = units[p][c].head.PES_packet_length
  /\ \/ callback' = NoCallback /\ first = 1 /\ (Held(p) => c - 1 \notin Whole(p))
     \/ callback' = NoCallback /\ first > 1 /\ Held(p) /\ c \notin Whole(p)
     \/ first = 1 /\ Held(p) /\ Calls("pes", Cells(p, c - 1, 1, units[p][c - 1].sent))
CollectsAll(p, c, first, last) ==
  /\ mPesPacket'[p] = NoPes /\ Held(p) /\ first > 1 /\ c \in Whole(p)
  /\ Calls("pes", Cells(p, c, 1, last))

LEMMA SeenBefore ==
  ASSUME StreamInv, NEW p, NEW c, NEW first, NEW last, Flight(p, c, first, last), stage = "pes"
  PROVE  /\ Ahead(p)
         /\ first = 1 => SeenUnit(p) = c - 1 /\ SeenCells(p) = units[p][c - 1].sent
         /\ first # 1 => SeenUnit(p) = c /\ SeenCells(p) = first - 1
<1>1. Ahead(p) /\ First = first /\ CurrentUnit(p) = c /\ first \in Nat \ {0}
  <2>1. last \in Nat /\ first \in 1..last
    BY DEF Flight
  <2>2. first \in Nat \ {0}
    BY <2>1
  <2> QED
    BY <2>2 DEF Flight, Ahead
<1>2. CASE first = 1
  <2>1. SeenUnit(p) = c - 1
    BY <1>1, <1>2 DEF SeenUnit
  <2> QED
    BY <1>1, <1>2, <2>1 DEF SeenCells
<1>3. CASE first # 1
  <2>1. SeenUnit(p) = c /\ first > 1
    BY <1>1, <1>3 DEF SeenUnit
  <2> QED
    BY <1>1, <1>3, <2>1 DEF SeenCells
<1> QED
  BY <1>1, <1>2, <1>3

LEMMA PesCollects ==
  ASSUME StreamInv, RegisteredInv, PesStage, NEW p, NEW c, NEW first, NEW last,
         Flight(p, c, first, last), p \in PesPids, HeldInv(p)
  PROVE  CollectsNothing(p, first) \/ CollectsMore(p, c, first, last) \/ CollectsAll(p, c, first, last)
<1>0. /\ Pid = p /\ p \in Pids /\ c \in Nat /\ c \in DOMAIN units[p] /\ units[p][c].sent = last
      /\ last \in Nat /\ first \in Nat \ {0} /\ first <= last /\ p \in Carrying
      /\ current.head = units[p][c].head /\ Info.isPayloadStart = (first = 1)
      /\ Info.pid = p /\ DOMAIN mPesPacket = Pids /\ stage = "pes"
  <2>1. last \in Nat /\ first \in 1..last
    BY DEF Flight
  <2>2. first \in Nat \ {0} /\ first <= last
    BY <2>1
  <2>3. DOMAIN mPesPacket = Pids /\ stage = "pes"
    BY DEF RegisteredInv, PesStage
  <2> QED
    BY <2>2, <2>3 DEF Flight, Pid
<1>1. BytesFrom(current, Info.payloadStartOffset) = Cells(p, c, first, last)
  <2>1. BytesFrom(current, Info.payloadStartOffset)
          = (IF first = 1 THEN Lead(p) ELSE <<>>) \o Cells(p, c, first, last)
    BY DEF Flight, Carries, Info
  <2>2. Lead(p) = <<>>
    BY LeadIs
  <2> DEFINE cells == Cells(p, c, first, last)
  <2>3. cells \in Seq(Cell)
    <3>1. PICK n \in Nat : last - first + 1 = n
      BY <1>0
    <3>2. IsRun(cells, p, c, first, n)
      BY <1>0, <3>1, CellsRun
    <3> QED
      BY <3>2 DEF IsRun
  <2> HIDE DEF cells
  <2>4. <<>> \o cells = cells
    BY <2>3
  <2> QED
    BY <2>1, <2>2, <2>4 DEF cells
<1>2. /\ IF p \in mPesCallbackMap
         THEN /\ StartPes(current, Info) \/ IgnorePes(Info) \/ AppendPes(current, Info)
              /\ IF pesOut' # NoPes THEN Calls("pes", pesOut'.mPesBuffer) ELSE callback' = NoCallback
         ELSE mPesPacket' = mPesPacket /\ callback' = NoCallback
  <2>1. \A q \in Pids : DOMAIN mPesPacket[q] = DOMAIN NoPes
    BY DEF RegisteredInv
  <2> QED
    BY <1>0, <2>1, PesMoves
<1>b. \A k \in Nat \ {0} : Cells(p, c, 1, k) # <<>>
  <2> SUFFICES ASSUME NEW k \in Nat \ {0} PROVE Cells(p, c, 1, k) # <<>>
    OBVIOUS
  <2>1. Len(Cells(p, c, 1, k)) = k
    BY <1>0, CellsFromOne
  <2> QED
    BY <2>1
<1>n. NoPes.mPesBuffer = <<>> /\ last \in Nat \ {0}
  BY <1>0 DEF NoPes
<1>3. CASE p \notin mPesCallbackMap
  BY <1>2, <1>3 DEF CollectsNothing, HeldInv
<1>4. CASE p \in mPesCallbackMap /\ IgnorePes(Info)
  <2>1. ~Held(p) /\ pesOut' = NoPes /\ mPesPacket' = mPesPacket /\ first # 1
    BY <1>0, <1>4 DEF IgnorePes, Started, Held
  <2> QED
    BY <1>2, <1>4, <2>1 DEF CollectsNothing
<1>5. CASE p \in mPesCallbackMap /\ StartPes(current, Info)
  <2>1. first = 1
    BY <1>0, <1>5 DEF StartPes
  <2>2. mPesPacket'[p] = parsePesPacket(units[p][c].head, Cells(p, c, 1, last))
    BY <1>0, <1>1, <1>5, <2>1 DEF StartPes
  <2>3. /\ mPesPacket'[p].mPesBuffer = Cells(p, c, 1, last)
        /\ mPesPacket'[p].PES_packet_length = units[p][c].head.PES_packet_length
    BY <2>2 DEF parsePesPacket
  <2>4. mPesPacket'[p] # NoPes
    BY <1>b, <1>n, <2>3
  <2>5. CASE pesOut' = NoPes
    <3>1. ASSUME Held(p), c - 1 \in Whole(p) PROVE FALSE
      <4> DEFINE pes == mPesPacket[p]
                 n == units[p][c - 1].head.PES_packet_length
                 m == units[p][c - 1].sent
      <4>1. SeenUnit(p) = c - 1 /\ SeenCells(p) = m
        BY <1>0, <2>1, SeenBefore
      <4>2. c - 1 \in DOMAIN units[p] /\ pes.mPesBuffer = Cells(p, c - 1, 1, m) /\ pes.PES_packet_length = n
        BY <3>1, <4>1 DEF HeldInv
      <4>3. m = UnitSize(p, units[p][c - 1].head)
        BY <3>1 DEF Whole
      <4>4. units[p][c - 1].head \in HeadsOf(p)
        BY <1>0, <4>2 DEF StreamInv, StreamOn
      <4>5. n \in Nat /\ m = n + PesHeaderSize
        BY <1>0, <4>3, <4>4, UnitSizes
      <4>6. c - 1 \in Nat
        BY <1>0, <4>2, UnitsAreSeq DEF StreamInv
      <4> HIDE DEF n, m
      <4>7. m \in Nat \ {0} /\ ~(m < n)
        BY <4>5, Numbers
      <4>8. Len(Cells(p, c - 1, 1, m)) = m
        BY <1>0, <4>6, <4>7, CellsFromOne
      <4>9. pes.mPesBuffer # <<>> /\ Len(pes.mPesBuffer) = m
        BY <4>2, <4>7, <4>8
      <4> HIDE DEF pes
      <4>10. ~Incomplete(pes)
        BY <4>2, <4>7, <4>9 DEF Incomplete
      <4>11. pesOut' = IF pes.mPesBuffer # <<>> /\ ~Incomplete(pes) THEN pes ELSE NoPes
        BY <1>0, <1>5 DEF StartPes, pes
      <4> QED
        BY <1>n, <2>5, <4>9, <4>10, <4>11
    <3> QED
      BY <1>2, <1>5, <2>1, <2>3, <2>4, <2>5, <3>1 DEF CollectsMore
  <2>6. CASE pesOut' # NoPes
    <3>1. pesOut' = mPesPacket[p] /\ mPesPacket[p] # NoPes
      BY <1>0, <1>5, <1>n, <2>6 DEF StartPes
    <3>2. mPesPacket[p].mPesBuffer = Cells(p, c - 1, 1, units[p][c - 1].sent)
      BY <1>0, <2>1, <3>1, SeenBefore DEF HeldInv, Held
    <3>3. Calls("pes", Cells(p, c - 1, 1, units[p][c - 1].sent))
      BY <1>2, <1>5, <2>6, <3>1, <3>2
    <3> QED
      BY <1>5, <2>1, <2>3, <2>4, <3>1, <3>3 DEF CollectsMore, Held
  <2> QED
    BY <2>5, <2>6
<1>6. CASE p \in mPesCallbackMap /\ AppendPes(current, Info)
  <2>1. first # 1 /\ Held(p)
    BY <1>0, <1>6 DEF AppendPes, Started, Held
  <2>2. /\ mPesPacket[p].mPesBuffer = Cells(p, c, 1, first - 1)
        /\ mPesPacket[p].PES_packet_length = units[p][c].head.PES_packet_length
    <3>1. SeenUnit(p) = c /\ SeenCells(p) = first - 1
      BY <1>0, <2>1, SeenBefore
    <3> QED
      BY <2>1, <3>1 DEF HeldInv
  <2>3. Cells(p, c, 1, first - 1) \o Cells(p, c, first, last) = Cells(p, c, 1, last)
    <3>1. PICK m \in Nat, k \in Nat : m = first - 1 /\ m + 1 = first /\ m + k = last
      <4>1. first - 1 \in Nat /\ last - first + 1 \in Nat /\ first - 1 + 1 = first
            /\ (first - 1) + (last - first + 1) = last
        BY <1>0
      <4> QED
        BY <4>1
    <3>2. p \in Pids /\ c \in Nat
      BY <1>0
    <3>3. Cells(p, c, 1, m) \o Cells(p, c, m + 1, m + k) = Cells(p, c, 1, m + k)
      BY ONLY <3>2, CellsJoin
    <3> QED
      BY <3>1, <3>3
  <2> DEFINE pes == Extended(mPesPacket[p], Cells(p, c, first, last))
  <2>4. /\ pes.mPesBuffer = Cells(p, c, 1, last)
        /\ pes.PES_packet_length = units[p][c].head.PES_packet_length
    <3>1. DOMAIN mPesPacket[p] = {"mPesBuffer", "PES_packet_length", "pts", "dts"}
      BY <1>0 DEF RegisteredInv, NoPes
    <3>2. pes = [mPesPacket[p] EXCEPT !.mPesBuffer = Cells(p, c, 1, last)]
      BY <2>2, <2>3 DEF Extended
    <3> HIDE DEF pes
    <3> QED
      BY <2>2, <3>1, <3>2
  <2>5. /\ pesOut' = IF Complete(pes) THEN pes ELSE NoPes
        /\ mPesPacket'[p] = Remaining(pes)
    BY <1>0, <1>1, <1>6 DEF AppendPes
  <2> HIDE DEF pes
  <2>6. pes # NoPes
    BY <1>b, <1>n, <2>4
  <2>7. Complete(pes) <=> c \in Whole(p)
    <3>1. Len(pes.mPesBuffer) = last
      BY <1>0, <2>4, CellsFromOne
    <3>2. UnitSize(p, units[p][c].head) = units[p][c].head.PES_packet_length + PesHeaderSize
      BY DEF UnitSize
    <3> QED
      BY <1>0, <2>4, <3>1, <3>2 DEF Complete, Whole
  <2>8. CASE Complete(pes)
    <3>1. mPesPacket'[p] = NoPes /\ Calls("pes", Cells(p, c, 1, last)) /\ c \in Whole(p)
      BY <1>2, <1>6, <2>4, <2>5, <2>6, <2>7, <2>8 DEF Remaining
    <3> QED
      BY <1>0, <2>1, <3>1 DEF CollectsAll
  <2>9. CASE ~Complete(pes)
    <3>1. mPesPacket'[p] = pes /\ callback' = NoCallback
      BY <1>2, <1>6, <2>5, <2>9 DEF Remaining
    <3> QED
      BY <1>0, <1>6, <2>1, <2>4, <2>6, <2>7, <2>9, <3>1 DEF CollectsMore
  <2> QED
    BY <2>8, <2>9
<1> QED
  BY <1>2, <1>3, <1>4, <1>5, <1>6

-----------------------------------------------------------------------------
(* A PES packet is collected, called back, and kept *)

\* Facts of a first cell: the cells of a unit tell which unit it is.
LEMMA FirstCell ==
  ASSUME NEW p \in Pids, NEW u \in Nat, NEW n \in Nat \ {0}
  PROVE  UnitOf(Cells(p, u, 1, n)[1]) = u /\ HeadOf(Cells(p, u, 1, n)) = units[p][u].head
<1>1. Cells(p, u, 1, n)[1] = <<p, u, 1>>
  <2>1. 1 \in 1..n /\ n \in Nat
    OBVIOUS
  <2> QED
    BY <2>1, CellsFromOne
<1> QED
  BY <1>1 DEF UnitOf, PidOf, HeadOf

LEMMA CollectedIsKeepable ==
  ASSUME BaseInv, NEW p, NEW c, NEW first, NEW last, Flight(p, c, first, last), p \in PesPids,
         HeldInv(p), Held(p), first = 1, stage = "pes"
  PROVE  Keepable(p, c - 1) /\ c - 1 \in Nat \ {0} /\ units[p][c - 1].sent \in Nat \ {0}
<1>1. /\ p \in Pids /\ c \in Nat /\ CurrentUnit(p) = c /\ DOMAIN units[p] = 1..c /\ StreamOn(p)
      /\ before[p] \in Nat /\ program \in {"TsUtilities", "tsparser", "WebAssembly"}
  <2>1. p \in Pids /\ c \in Nat /\ CurrentUnit(p) = c
    BY DEF Flight
  <2> QED
    BY <2>1, UnitsAreSeq DEF BaseInv, StreamInv, RegisteredInv
<1>2. SeenUnit(p) = c - 1
  BY SeenBefore DEF BaseInv
<1>3. c - 1 \in DOMAIN units[p] /\ (program = "WebAssembly" => before[p] < c - 1)
  BY <1>2 DEF HeldInv
<1>4. program = "tsparser" => before[p] < c - 1
  BY <1>1, <1>3 DEF StreamOn
<1>5. before[p] < c - 1 => c - 1 \in Whole(p)
  BY <1>1, <1>3 DEF StreamOn
<1>6. Keepable(p, c - 1)
  BY <1>1, <1>3, <1>4, <1>5 DEF Keepable
<1>7. units[p][c - 1].sent \in Nat \ {0}
  <2>1. units[p][c - 1].sent \in Nat
    BY <1>1, <1>3, UnitsAreSeq DEF BaseInv, StreamInv
  <2>2. units[p][c - 1].sent \in 1..UnitSize(p, units[p][c - 1].head)
        /\ p \in Carrying /\ units[p][c - 1].head \in HeadsOf(p)
    BY <1>1, <1>3 DEF StreamOn
  <2>3. UnitSize(p, units[p][c - 1].head) \in Nat
    BY <2>2, UnitSizes
  <2> QED
    BY <2>1, <2>2, <2>3
<1> QED
  BY <1>1, <1>3, <1>6, <1>7

\* What comes next, in the state after collectPes.
LEMMA NextCollected ==
  ASSUME NEW p, NEW c \in Nat, stage' = "end", CurrentUnit(p)' = c
  PROVE  /\ SeenUnit(p)' = c /\ SeenCells(p)' = units'[p][c].sent
         /\ ~Pending(p)' => NextUnit(p)' = IF Held(p)' THEN c ELSE c + 1
         /\ Pending(p)' => NextUnit(p)' = UnitOf(callback'.raw[1])
<1>1. ~Ahead(p)'
  BY DEF Ahead
<1>2. SeenUnit(p)' = c
  BY <1>1 DEF SeenUnit
<1>3. SeenCells(p)' = units'[p][c].sent
  BY <1>1, <1>2 DEF SeenCells
<1>4. /\ ~Pending(p)' => NextUnit(p)' = IF Held(p)' THEN c ELSE c + 1
      /\ Pending(p)' => NextUnit(p)' = UnitOf(callback'.raw[1])
  BY <1>2 DEF NextUnit, PendingUnit
<1> QED
  BY <1>2, <1>3, <1>4

LEMMA CollectKeepsPes ==
  ASSUME BaseInv, StageStep, NEW p \in PesPids, PesStage, Pid = p, PesPart(p)
  PROVE  PesPart(p)'
<1>1. /\ StageFrame /\ callback = NoCallback /\ stage = "pes"
      /\ StreamInv /\ UnderWayInv /\ RegisteredInv /\ p \in Pids /\ SenderInv
  BY StageKeeps, CarriedPids DEF StageStep, BaseInv, StreamInv, PesStage
<1>2. PICK q \in Carrying, c \in Nat, first \in Nat, last \in Nat : Flight(q, c, first, last)
  BY <1>1, InFlight
<1>3. /\ q = p /\ c \in Nat \ {0} /\ CurrentUnit(p) = c /\ c \in DOMAIN units[p] /\ before[p] < c
      /\ units[p][c].sent = last /\ first \in Nat \ {0} /\ last \in Nat \ {0}
  <2>1. last \in Nat /\ first \in 1..last
    BY <1>2 DEF Flight
  <2>2. first \in Nat \ {0} /\ last \in Nat \ {0}
    BY <2>1
  <2> QED
    BY <1>2, <2>2 DEF Flight
<1>4. Flight(p, c, first, last)
  BY <1>2, <1>3
<1>5. CollectsNothing(p, first) \/ CollectsMore(p, c, first, last) \/ CollectsAll(p, c, first, last)
  BY <1>1, <1>4, PesCollects DEF PesPart
<1>6. /\ units' = units /\ program' = program /\ options' = options /\ before' = before /\ kept' = kept
      /\ mPesCallbackMap' = mPesCallbackMap /\ CurrentUnit(p)' = c
  BY <1>1, <1>3 DEF StageFrame, CurrentUnit
<1>7. Grows(p)
  BY <1>1, <1>6, UnitsStay
<1>8. stage' = "end"
  BY <1>1, PesMoves DEF RegisteredInv
<1>9. /\ SeenUnit(p)' = c /\ SeenCells(p)' = last
      /\ ~Pending(p)' => NextUnit(p)' = IF Held(p)' THEN c ELSE c + 1
      /\ Pending(p)' => NextUnit(p)' = UnitOf(callback'.raw[1])
  BY <1>3, <1>6, <1>8, NextCollected
<1>10. NextUnit(p) = IF Held(p) THEN SeenUnit(p) ELSE SeenUnit(p) + 1
  BY <1>1 DEF NextUnit, Pending
<1>11. SeenUnit(p) = IF first = 1 THEN c - 1 ELSE c
  BY <1>1, <1>4, SeenBefore
<1>12. PICK m \in Int : m = NextUnit(p) /\ m = (IF first = 1 THEN (IF Held(p) THEN c - 1 ELSE c)
                                                ELSE (IF Held(p) THEN c ELSE c + 1))
  <2>1. (IF first = 1 THEN (IF Held(p) THEN c - 1 ELSE c) ELSE (IF Held(p) THEN c ELSE c + 1)) \in Int
    BY <1>3
  <2>2. NextUnit(p) = (IF first = 1 THEN (IF Held(p) THEN c - 1 ELSE c) ELSE (IF Held(p) THEN c ELSE c + 1))
    BY <1>3, <1>10, <1>11
  <2> QED
    BY <2>1, <2>2
<1>k. KeptInv(p) /\ kept'[p] = kept[p]
  BY <1>6 DEF PesPart
<1>13. CASE CollectsNothing(p, first)
  <2>1. ~Held(p) /\ ~Held(p)' /\ ~Pending(p)'
    BY <1>13 DEF CollectsNothing, Held, Pending
  <2>2. NextUnit(p)' = c + 1 /\ c + 1 \in Int /\ m <= c + 1
    BY <1>3, <1>9, <1>12, <2>1
  <2>3. KeptInv(p)'
    BY <1>1, <1>7, <1>12, <1>k, <2>2, KeptStays
  <2> QED
    BY <2>1, <2>3 DEF PesPart, HeldInv, PendingInv
<1>14. CASE CollectsMore(p, c, first, last)
  <2>1. /\ Held(p)' /\ mPesPacket'[p].mPesBuffer = Cells(p, c, 1, last)
        /\ mPesPacket'[p].PES_packet_length = units[p][c].head.PES_packet_length
        /\ p \in mPesCallbackMap
    BY <1>14 DEF CollectsMore, Held
  <2>2. HeldInv(p)'
    <3> SUFFICES /\ p \in mPesCallbackMap' /\ c \in DOMAIN units'[p]
                 /\ mPesPacket'[p].mPesBuffer = Cells(p, c, 1, last)
                 /\ mPesPacket'[p].PES_packet_length = units'[p][c].head.PES_packet_length
                 /\ program' = "WebAssembly" => before'[p] < c
      BY <1>9 DEF HeldInv
    <3> QED
      BY <1>3, <1>6, <2>1
  <2>3. CASE callback' = NoCallback /\ (first = 1 \/ Held(p))
    <3>1. ~Pending(p)'
      BY <2>3 DEF Pending
    <3>2. NextUnit(p)' = c /\ c \in Int /\ m <= c
      BY <1>3, <1>9, <1>12, <2>1, <2>3, <3>1
    <3>3. KeptInv(p)'
      BY <1>1, <1>7, <1>12, <1>k, <3>2, KeptStays
    <3> QED
      BY <2>2, <3>1, <3>3 DEF PesPart, PendingInv
  <2>4. CASE first = 1 /\ Held(p) /\ Calls("pes", Cells(p, c - 1, 1, units[p][c - 1].sent))
    <3>1. PICK u \in Nat : u = c - 1 /\ u < c /\ u = m
      BY <1>3, <1>12, <2>4
    <3>2. Keepable(p, u) /\ units[p][u].sent \in Nat \ {0}
      BY <1>1, <1>4, <2>4, <3>1, CollectedIsKeepable DEF PesPart
    <3>3. Pending(p)' /\ callback'.raw = Cells(p, u, 1, units[p][u].sent)
      BY <1>1, <2>4, <3>1 DEF Pending, Calls
    <3>4. UnitOf(callback'.raw[1]) = u
      BY <1>1, <3>2, <3>3, FirstCell
    <3>5. Keepable(p, u)'
      BY <1>1, <1>7, <3>2, KeepableStays
    <3>6. NextUnit(p)' = u /\ PendingUnit' = u
      BY <1>9, <3>3, <3>4 DEF PendingUnit
    <3>7. KeptInv(p)'
      <4>1. u \in Int /\ NextUnit(p)' = u /\ m <= u
        BY <3>1, <3>6
      <4> QED
        BY <1>1, <1>7, <1>12, <1>k, <4>1, KeptStays
    <3>8. PendingInv(p)'
      <4> SUFFICES /\ Keepable(p, u)' /\ callback'.raw = Cells(p, u, 1, units'[p][u].sent)
                   /\ u < CurrentUnit(p)'
        BY <3>6 DEF PendingInv, Keepable, Whole
      <4> QED
        BY <1>6, <3>1, <3>3, <3>5
    <3> QED
      BY <2>2, <3>7, <3>8 DEF PesPart
  <2> QED
    BY <1>14, <2>3, <2>4 DEF CollectsMore
<1>15. CASE CollectsAll(p, c, first, last)
  <2>1. /\ ~Held(p)' /\ Held(p) /\ first > 1 /\ c \in Whole(p)
        /\ Pending(p)' /\ callback'.raw = Cells(p, c, 1, last)
    BY <1>1, <1>15 DEF CollectsAll, Held, Pending, Calls
  <2>2. UnitOf(callback'.raw[1]) = c
    BY <1>1, <1>3, <2>1, FirstCell
  <2>3. Keepable(p, c)
    BY <1>3, <2>1 DEF Keepable
  <2>4. Keepable(p, c)'
    BY <1>1, <1>3, <1>7, <2>3, KeepableStays
  <2>5. NextUnit(p)' = c /\ PendingUnit' = c /\ m <= c /\ c \in Int
    BY <1>3, <1>9, <1>12, <2>1, <2>2 DEF PendingUnit
  <2>6. KeptInv(p)'
    BY <1>1, <1>7, <1>12, <1>k, <2>5, KeptStays
  <2>7. PendingInv(p)'
    <3> SUFFICES Keepable(p, c)' /\ callback'.raw = Cells(p, c, 1, units'[p][c].sent)
      BY <2>1, <2>5 DEF PendingInv, Keepable, Whole
    <3> QED
      BY <1>3, <1>6, <2>1, <2>4
  <2> QED
    BY <2>1, <2>6, <2>7 DEF PesPart, HeldInv
<1> QED
  BY <1>5, <1>13, <1>14, <1>15

\* What is written of a PES packet is the part that should be.
LEMMA FormIsPart ==
  ASSUME BaseInv, NEW p \in PesPids, NEW n \in Nat, Keepable(p, n),
         NEW raw, raw = Cells(p, n, 1, units[p][n].sent)
  PROVE  /\ UnitOf(PesForm(raw)[1]) = n
         /\ n \in Whole(p) => PesForm(raw) = Part(p, n)
<1>1. /\ p \in Pids /\ p \in Carrying /\ n \in DOMAIN units[p]
      /\ units[p][n].head \in HeadsOf(p) /\ units[p][n].sent \in Nat \ {0}
      /\ options.mode = "es" => program = "tsparser"
  <2>1. p \in Pids /\ p \in Carrying /\ n \in DOMAIN units[p]
    BY CarriedPids DEF Keepable
  <2>2. /\ units[p][n].head \in HeadsOf(p) /\ units[p][n].sent \in 1..UnitSize(p, units[p][n].head)
    BY <2>1 DEF BaseInv, StreamInv, StreamOn
  <2>3. UnitSize(p, units[p][n].head) \in Nat
    BY <2>1, <2>2, UnitSizes
  <2>4. options.mode = "es" => program = "tsparser"
    BY DEF BaseInv, RegisteredInv
  <2> QED
    BY <2>1, <2>2, <2>3, <2>4
<1>2. PICK head : head = units[p][n].head
  OBVIOUS
<1>3. PICK size \in Nat \ {0} : size = UnitSize(p, head)
  BY <1>1, <1>2, UnitSizes
<1>4. HeadOf(raw) = head /\ UnitOf(raw[1]) = n
  BY <1>1, <1>2, FirstCell
<1>5. n \in Whole(p) => raw = Cells(p, n, 1, size) /\ raw = Unit(p, n)
  BY <1>2, <1>3 DEF Whole, Unit
<1>6. CASE options.mode # "es"
  <2>1. PesForm(raw) = raw
    BY <1>6 DEF PesForm
  <2>2. Part(p, n) = Unit(p, n)
    BY <1>6 DEF Part
  <2> QED
    BY <1>4, <1>5, <2>1, <2>2
<1>7. CASE options.mode = "es"
  <2>1. n \in Whole(p) /\ program = "tsparser"
    BY <1>1, <1>7 DEF Keepable
  <2>2. /\ raw \in Seq(Cell) /\ Len(raw) = size
        /\ \A i \in 1..size : raw[i] = <<p, n, i>>
    <3>1. p \in Pids /\ n \in Nat /\ size \in Nat /\ raw = Cells(p, n, 1, size)
      BY <1>1, <1>3, <1>5, <2>1
    <3> QED
      BY ONLY <3>1, CellsFromOne
  <2>3. CASE head.PES_has_optional_header
    <3>1. size >= PesHeaderSize + 2 /\ PesHeaderSize \in Nat
      BY <1>1, <1>2, <1>3, <2>3, UnitSizes, Numbers
    <3>2. PesForm(raw) = SubSeq(raw, PesHeaderSize + 1 + 1, size)
      BY <1>4, <1>7, <2>1, <2>2, <2>3 DEF PesForm
    <3>3. PesHeaderSize + 1 + 1 = PesHeaderSize + 2
      BY <3>1
    <3>4. PesForm(raw) = SubSeq(raw, PesHeaderSize + 2, size)
      BY <3>2, <3>3
    <3>5. Part(p, n) = SubSeq(Unit(p, n), PesHeaderSize + 2, size)
      BY <1>2, <1>3, <1>7, <2>3 DEF Part
    <3>6. SubSeq(raw, PesHeaderSize + 2, size)[1] = raw[PesHeaderSize + 2]
      BY <1>3, <2>2, <3>1
    <3>7. raw[PesHeaderSize + 2] = <<p, n, PesHeaderSize + 2>>
      BY <1>3, <2>2, <3>1
    <3>8. PesForm(raw) = Part(p, n)
      BY <1>5, <2>1, <3>4, <3>5
    <3>9. PesForm(raw)[1] = <<p, n, PesHeaderSize + 2>>
      BY <3>4, <3>6, <3>7
    <3>10. UnitOf(PesForm(raw)[1]) = n
      BY <3>9 DEF UnitOf
    <3> QED
      BY <3>8, <3>10
  <2>4. CASE ~head.PES_has_optional_header
    <3>1. PesForm(raw) = SubSeq(raw, 1, size)
      BY <1>4, <1>7, <2>1, <2>2, <2>4 DEF PesForm
    <3>2. SubSeq(raw, 1, size) = raw
      BY <2>2
    <3>3. Part(p, n) = Unit(p, n)
      BY <1>2, <2>4 DEF Part
    <3> QED
      BY <1>4, <1>5, <2>1, <3>1, <3>2, <3>3
  <2> QED
    BY <2>3, <2>4
<1> QED
  BY <1>6, <1>7

\* The callback returns: what it was given is kept, or not.
LEMMA PesReturnKeeps ==
  ASSUME BaseInv, NEW p \in PesPids, PesReturns, Pending(p), PesPart(p)
  PROVE  PesPart(p)'
<1>1. /\ stage = "end" /\ callback' = NoCallback /\ p \in Pids /\ SenderInv /\ callback.pid = p
      /\ UNCHANGED <<mPesPacket, units, before, program, options>> /\ stage' \in {"idle", "end"}
      /\ mPesCallbackMap' = mPesCallbackMap
  <2>1. /\ callback' = NoCallback /\ UNCHANGED <<mPesPacket, units, before, program, options>>
        /\ stage' = "idle" \/ stage' = stage
    BY ReturnsKeepBase
  <2>2. callback # NoCallback /\ callback.kind = "pes" /\ callback.pid = p
    BY DEF Pending
  <2>3. stage = "end"
    BY <2>2 DEF BaseInv, CallbackInv
  <2> QED
    BY <2>1, <2>2, <2>3, CarriedPids DEF BaseInv, StreamInv, PesReturns
<1>2. PICK c \in Nat : CurrentUnit(p) = c /\ CurrentUnit(p)' = c /\ DOMAIN units[p] = 1..c
  BY <1>1, UnitsAreSeq DEF CurrentUnit
<1>3. PICK n : n = PendingUnit
  OBVIOUS
<1>4. /\ Keepable(p, n) /\ callback.raw = Cells(p, n, 1, units[p][n].sent)
      /\ Held(p) => n < c
  BY <1>2, <1>3 DEF PesPart, PendingInv
<1>5. n \in 1..c /\ n \in Nat
  BY <1>2, <1>4 DEF Keepable
<1>6. ~Ahead(p) /\ ~Ahead(p)' /\ ~Pending(p)' /\ (Held(p)' <=> Held(p))
  BY <1>1 DEF Ahead, Pending, Held
<1>7. /\ SeenUnit(p) = c /\ SeenUnit(p)' = c
      /\ SeenCells(p) = units[p][c].sent /\ SeenCells(p)' = units[p][c].sent
  BY <1>1, <1>2, <1>6 DEF SeenUnit, SeenCells
<1>8. PICK next \in Int : NextUnit(p)' = next /\ n < next
  <2>1. NextUnit(p)' = IF Held(p) THEN c ELSE c + 1
    BY <1>6, <1>7 DEF NextUnit
  <2>2. n < (IF Held(p) THEN c ELSE c + 1) /\ (IF Held(p) THEN c ELSE c + 1) \in Int
    BY <1>2, <1>4, <1>5
  <2> QED
    BY <2>1, <2>2
<1>9. NextUnit(p) = n
  BY <1>3 DEF NextUnit
<1>10. Grows(p)
  BY <1>1, UnitsStay
<1>11. HeldInv(p)' /\ PendingInv(p)'
  BY <1>1, <1>6, <1>7 DEF PesPart, HeldInv, PendingInv
<1>12. KeptInv(p)'
  <2>1. CASE kept'[p] = kept[p]
    <3>1. n \in Int /\ n <= next /\ KeptInv(p)
      BY <1>5, <1>8 DEF PesPart
    <3> QED
      BY <1>1, <1>8, <1>9, <1>10, <2>1, <3>1, KeptStays
  <2>2. CASE kept'[p] # kept[p]
    <3>1. PICK e : e = Entry(PesForm(callback.raw), OriginOf(p), <<>>)
      OBVIOUS
    <3>2. p \in DOMAIN kept /\ IsSeq(kept[p])
      BY <1>1 DEF BaseInv, RegisteredInv
    <3>3. kept'[p] = Append(kept[p], e)
      <4>1. kept' = [kept EXCEPT ![p] = Append(@, e)]
        BY <1>1, <2>2, <3>1 DEF PesReturns
      <4> QED
        BY <3>2, <4>1
    <3>4. PICK len \in Nat : len = Len(kept[p])
      BY <3>2, AppendIsSeq
    <3>5. /\ DOMAIN kept'[p] = 1..(len + 1) /\ DOMAIN kept[p] = 1..len
          /\ kept'[p][len + 1] = e /\ \A i \in DOMAIN kept[p] : kept'[p][i] = kept[p][i]
      BY <3>2, <3>3, <3>4, AppendIsSeq
    <3>6. UnitOf(e.raw[1]) = n /\ (n \in Whole(p) => e.raw = Part(p, n))
      <4>1. e.raw = PesForm(callback.raw)
        BY <3>1 DEF Entry
      <4> QED
        BY <1>4, <1>5, <4>1, FormIsPart
    <3>7. /\ Keepable(p, n)' /\ (n \in Whole(p)' <=> n \in Whole(p)) /\ Part(p, n)' = Part(p, n)
      BY <1>1, <1>4, <1>5, <1>10, KeepableStays
    <3>8. KeptUnit(p, len + 1)' = n
      BY <3>5, <3>6 DEF KeptUnit
    <3>9. ASSUME NEW i \in DOMAIN kept[p]
          PROVE  /\ KeptUnit(p, i)' = KeptUnit(p, i) /\ KeptUnit(p, i) < n
                 /\ KeptUnit(p, i) \in Int /\ Keepable(p, KeptUnit(p, i))'
                 /\ KeptUnit(p, i) \in Whole(p)' => kept'[p][i].raw = Part(p, KeptUnit(p, i))'
      <4>1. PICK u : u = KeptUnit(p, i)
        OBVIOUS
      <4>2. Keepable(p, u) /\ u < n /\ (u \in Whole(p) => kept[p][i].raw = Part(p, u))
        BY <1>9, <4>1 DEF PesPart, KeptInv
      <4>3. u \in Int
        BY <1>2, <4>2 DEF Keepable
      <4>4. /\ Keepable(p, u)' /\ (u \in Whole(p)' <=> u \in Whole(p)) /\ Part(p, u)' = Part(p, u)
        BY <1>1, <1>10, <4>2, <4>3, KeepableStays
      <4>5. kept'[p][i] = kept[p][i]
        BY <3>5
      <4>6. KeptUnit(p, i)' = u
        BY <4>1, <4>5 DEF KeptUnit
      <4> QED
        BY <4>1, <4>2, <4>3, <4>4, <4>5, <4>6 DEF Keepable, Whole, Part, Unit
    <3>10. ASSUME NEW i \in DOMAIN kept'[p]
           PROVE  /\ Keepable(p, KeptUnit(p, i))' /\ KeptUnit(p, i)' < next
                  /\ KeptUnit(p, i)' \in Whole(p)' => kept'[p][i].raw = Part(p, KeptUnit(p, i))'
      <4>1. CASE i = len + 1
        <5>1. KeptUnit(p, i)' = n /\ kept'[p][i] = e
          BY <3>5, <3>8, <4>1
        <5> QED
          BY <1>8, <3>6, <3>7, <5>1 DEF Keepable, Whole, Part, Unit
      <4>2. CASE i # len + 1
        <5>1. i \in DOMAIN kept[p]
          BY <3>4, <3>5, <4>2
        <5>2. PICK u \in Int : u = KeptUnit(p, i) /\ KeptUnit(p, i)' = u /\ u < n
          BY <3>9, <5>1
        <5>3. Keepable(p, u)' /\ (u \in Whole(p)' => kept'[p][i].raw = Part(p, u)')
          BY <3>9, <5>1, <5>2 DEF Keepable, Whole, Part, Unit
        <5>4. u < next
          BY <1>5, <1>8, <5>2
        <5> QED
          BY <5>2, <5>3, <5>4 DEF Keepable, Whole, Part, Unit
      <4> QED
        BY <4>1, <4>2
    <3>11. ASSUME NEW i \in DOMAIN kept'[p], NEW j \in DOMAIN kept'[p], i < j
           PROVE  KeptUnit(p, i)' < KeptUnit(p, j)'
      <4>1. i \in DOMAIN kept[p]
        BY <3>4, <3>5, <3>11
      <4>2. CASE j = len + 1
        BY <3>8, <3>9, <4>1, <4>2
      <4>3. CASE j # len + 1
        <5>1. j \in DOMAIN kept[p]
          BY <3>4, <3>5, <4>3
        <5>2. KeptUnit(p, i) < KeptUnit(p, j)
          BY <3>11, <4>1, <5>1 DEF PesPart, KeptInv
        <5> QED
          BY <3>9, <4>1, <5>1, <5>2
      <4> QED
        BY <4>2, <4>3
    <3> QED
      BY <1>8, <3>10, <3>11 DEF KeptInv
  <2> QED
    BY <2>1, <2>2
<1> QED
  BY <1>11, <1>12 DEF PesPart

\* A call of the entry point begins with nothing.
LEMMA PageBeginsWithNothing ==
  ASSUME BaseInv, NEW p \in PesPids, BeginWebAssembly
  PROVE  PesPart(p)'
<1>1. /\ callback' = NoCallback /\ mPesPacket'[p] = NoPes /\ kept'[p] = <<>>
  <2>1. callback = NoCallback /\ p \in Pids
    BY IdleCallsNobody, CarriedPids DEF BeginWebAssembly, NewStream, BaseInv
  <2> QED
    BY <2>1 DEF BeginWebAssembly
<1> QED
  BY <1>1 DEF PesPart, HeldInv, PendingInv, KeptInv, Held, Pending

LEMMA PesStep ==
  ASSUME BaseInv, PesInv, Steps
  PROVE  PesInv'
<1>1. options' = options
  BY StageKeeps, FeedKeepsBase, ReturnsKeepBase
     DEF Steps, StageStep, StageFrame, FeedFrame, LocateStep, AddStep, BeginStep, BeginUtilities,
         BeginTsparser, BeginWebAssembly, NewStream, run
<1> SUFFICES ASSUME options.mode # "ts", NEW p \in PesPids, PesPart(p) PROVE PesPart(p)'
  BY <1>1 DEF PesInv, PesPart
<1>2. p \in Pids /\ SenderInv /\ StreamInv /\ CallbackInv
  BY CarriedPids DEF BaseInv, StreamInv
<1>3. CASE FeedStep
  <2>1. PICK q \in Carrying, first \in Nat \ {0} :
          Sends(q, first) /\ First' = first /\ current'.pid = q /\ CurrentUnit(q)' = Len(units'[q])
    BY <1>3, FeedKeepsBase
  <2>2. FeedFrame
    BY <1>3, FeedKeepsBase
  <2>3. Passed(p)
    BY <1>2, <2>1, <2>2, FeedPasses
  <2> QED
    BY <1>2, <2>3, PassedKeeps
<1>4. CASE LocateStep \/ AddStep \/ BeginUtilities \/ BeginTsparser
  BY <1>2, <1>4, IdlePasses, PassedKeeps
<1>5. CASE BeginWebAssembly
  BY <1>5, PageBeginsWithNothing
<1>6. CASE StageStep
  <2>1. CASE PesStage /\ Pid = p
    BY <1>6, <2>1, CollectKeepsPes
  <2>2. CASE ~(PesStage /\ Pid = p)
    BY <1>2, <1>6, <2>2, StagePasses, PassedKeeps
  <2> QED
    BY <2>1, <2>2
<1>7. CASE TsReturns \/ PesReturns \/ PatReturns \/ PmtReturns
  <2>1. CASE Pending(p)
    <3>1. PesReturns
      BY <1>7, <2>1 DEF Pending, TsReturns, PatReturns, PmtReturns
    <3> QED
      BY <2>1, <3>1, PesReturnKeeps
  <2>2. CASE ~Pending(p)
    BY <1>2, <1>7, <2>2, ReturnPasses, PassedKeeps
  <2> QED
    BY <2>1, <2>2
<1> QED
  BY <1>3, <1>4, <1>5, <1>6, <1>7 DEF Steps, BeginStep

-----------------------------------------------------------------------------
(* The files of TS packets are the stream *)

LEMMA IsSent ==
  ASSUME NEW p, NEW x
  PROVE  /\ x \in SentOn(p) <=> \E u \in DOMAIN units[p] : \E k \in 1..units[p][u].sent : x = <<p, u, k>>
         /\ x \in SentOn(p)' <=> \E u \in DOMAIN units'[p] : \E k \in 1..units'[p][u].sent : x = <<p, u, k>>
BY DEF SentOn

\* A file stays as it is while nothing is sent that it should have.
LEMMA FileStays ==
  ASSUME NEW p, FileInv(p), kept'[p] = kept[p], WrittenOn(p)' = WrittenOn(p)
  PROVE  FileInv(p)'
<1>1. \A a : CellAt(p, a)' = CellAt(p, a)
  BY DEF CellAt
<1>2. Places(p)' = Places(p)
  BY <1>1 DEF Places
<1> QED
  BY <1>1, <1>2 DEF FileInv

\* A step that sends nothing and writes nothing.
Rests(p) ==
  /\ units' = units /\ kept'[p] = kept[p] /\ (Unwritten(p)' <=> Unwritten(p))
  /\ Unwritten(p) => current' = current

LEMMA FileRests ==
  ASSUME NEW p, FileInv(p), Rests(p)
  PROVE  FileInv(p)'
<1>1. SentOn(p)' = SentOn(p) /\ CurrentUnit(p)' = CurrentUnit(p)
  BY DEF Rests, SentOn, CurrentUnit
<1>2. Unwritten(p) => First' = First
  BY DEF Rests, First
<1>3. WrittenOn(p)' = WrittenOn(p)
  <2>1. CASE Unwritten(p)
    BY <1>1, <1>2, <2>1 DEF Rests, WrittenOn
  <2>2. CASE ~Unwritten(p)
    BY <1>1, <2>2 DEF Rests, WrittenOn
  <2> QED
    BY <2>1, <2>2
<1> QED
  BY <1>3, FileStays DEF Rests

\* What is sent is unwritten.
LEMMA FeedRests ==
  ASSUME BaseInv, NEW q \in Carrying, NEW first \in Nat \ {0}, Sends(q, first), FeedFrame,
         First' = first, current'.pid = q, CurrentUnit(q)' = Len(units'[q]),
         NEW p \in Pids, FileInv(p)
  PROVE  FileInv(p)'
<1>0. /\ stage = "idle" /\ stage' = "ts" /\ SenderInv /\ kept' = kept /\ q \in Pids /\ StreamInv
      /\ callback = NoCallback
  BY IdleCallsNobody, CarriedPids DEF Sends, BaseInv, StreamInv, FeedFrame
<1>1. ~Unwritten(p)
  BY <1>0 DEF Unwritten
<1>2. CASE p # q
  <2>1. units'[p] = units[p] /\ ~Unwritten(p)'
    BY <1>0, <1>2 DEF Sends, OnlyGrows, Unwritten
  <2>2. SentOn(p)' = SentOn(p)
    BY <2>1 DEF SentOn
  <2>3. WrittenOn(p)' = WrittenOn(p)
    BY <1>1, <2>1, <2>2 DEF WrittenOn
  <2> QED
    BY <1>0, <2>3, FileStays
<1>3. CASE p = q
  <2>1. PICK c : c = Len(units'[p])
    OBVIOUS
  <2>2. /\ CurrentUnit(p) \in Nat /\ DOMAIN units[p] = 1..CurrentUnit(p)
        /\ \A u \in DOMAIN units[p] : units[p][u].sent \in Nat
    BY <1>0, UnitsAreSeq
  <2>3. /\ c \in Nat /\ DOMAIN units'[p] = 1..c /\ units'[p][c].sent \in Nat /\ first <= units'[p][c].sent
    <3>1. SenderInv' /\ units'[p] \in Seq(UnitRecord) /\ c \in DOMAIN units'[p]
      BY <1>3, <2>1 DEF Sends, OnlyGrows, SenderInv
    <3>2. units'[p][c] \in UnitRecord
      BY <3>1
    <3>3. units'[p][c].sent \in Nat
      BY <3>2 DEF UnitRecord
    <3>4. units'[p][c].sent \in first..UnitSize(p, units'[p][c].head)
          /\ units'[p][c].head \in HeadsOf(p)
      BY <1>3, <2>1 DEF Sends
    <3>5. UnitSize(p, units'[p][c].head) \in Nat
      BY <1>3, <3>4, UnitSizes
    <3> QED
      BY <2>1, <3>1, <3>3, <3>4, <3>5
  <2>4. /\ IF first = 1 THEN c = CurrentUnit(p) + 1
           ELSE c = CurrentUnit(p) /\ units[p][c].sent = first - 1
        /\ \A u \in DOMAIN units[p] : first = 1 \/ u < c => units'[p][u] = units[p][u]
    BY <1>3, <2>1 DEF Sends
  <2>5. CurrentUnit(p)' = c /\ Unwritten(p)'
    BY <1>0, <1>3, <2>1 DEF Unwritten
  <2>6. ASSUME NEW x PROVE x \in WrittenOn(p)' <=> x \in WrittenOn(p)
    <3>1. x \in WrittenOn(p) <=> x \in SentOn(p)
      BY <1>1 DEF WrittenOn
    <3>2. x \in WrittenOn(p)' <=> x \in SentOn(p)' /\ ~(UnitOf(x) = c /\ IndexOf(x) >= first)
      BY <2>5 DEF WrittenOn
    <3>3. ASSUME x \in SentOn(p) PROVE x \in WrittenOn(p)'
      <4>1. PICK u \in DOMAIN units[p] : \E k \in 1..units[p][u].sent : x = <<p, u, k>>
        BY <3>3, IsSent
      <4>k. PICK k \in 1..units[p][u].sent : x = <<p, u, k>>
        BY <4>1
      <4>2. UnitOf(x) = u /\ IndexOf(x) = k
        BY <4>k DEF UnitOf, IndexOf
      <4>3. CASE first = 1 \/ u < c
        <5>1. u # c /\ u \in DOMAIN units'[p] /\ units'[p][u] = units[p][u]
          BY <2>2, <2>3, <2>4, <4>3
        <5>2. x \in SentOn(p)'
          BY <4>k, <5>1, IsSent
        <5> QED
          BY <3>2, <4>2, <5>1, <5>2
      <4>4. CASE first # 1 /\ ~(u < c)
        <5>1. u = c /\ units[p][u].sent = first - 1
          BY <2>2, <2>3, <2>4, <4>4
        <5>2. k < first /\ k \in 1..units'[p][c].sent /\ c \in DOMAIN units'[p]
          BY <2>2, <2>3, <4>k, <5>1
        <5>3. x \in SentOn(p)'
          BY <4>k, <5>1, <5>2, IsSent
        <5>4. ~(k >= first)
          BY <2>2, <4>k, <5>2
        <5> QED
          BY <3>2, <4>2, <5>3, <5>4
      <4> QED
        BY <4>3, <4>4
    <3>4. ASSUME x \in SentOn(p)', ~(UnitOf(x) = c /\ IndexOf(x) >= first) PROVE x \in SentOn(p)
      <4>1. PICK u \in DOMAIN units'[p] : \E k \in 1..units'[p][u].sent : x = <<p, u, k>>
        BY <3>4, IsSent
      <4>k. PICK k \in 1..units'[p][u].sent : x = <<p, u, k>>
        BY <4>1
      <4>2. UnitOf(x) = u /\ IndexOf(x) = k
        BY <4>k DEF UnitOf, IndexOf
      <4>3. CASE u # c
        <5>1. u < c /\ u \in DOMAIN units[p]
          BY <2>2, <2>3, <2>4, <4>3
        <5>2. units'[p][u] = units[p][u]
          BY <2>4, <5>1
        <5> QED
          BY <4>k, <5>1, <5>2, IsSent
      <4>4. CASE u = c
        <5>1. k \in Nat \ {0} /\ ~(k >= first)
          BY <2>3, <3>4, <4>k, <4>2, <4>4
        <5>2. first # 1
          BY <5>1
        <5>3. u \in DOMAIN units[p] /\ units[p][u].sent = first - 1
          BY <2>2, <2>3, <2>4, <4>4, <5>2
        <5>4. k \in 1..units[p][u].sent
          BY <5>1, <5>3
        <5> QED
          BY <4>k, <5>3, <5>4, IsSent
      <4> QED
        BY <4>3, <4>4
    <3> QED
      BY <3>1, <3>2, <3>3, <3>4
  <2>7. WrittenOn(p)' = WrittenOn(p)
    BY <2>6
  <2> QED
    BY <1>0, <2>7, FileStays
<1> QED
  BY <1>2, <1>3

\* The stages of demux write nothing themselves.
LEMMA StageRests ==
  ASSUME BaseInv, StageStep, options.mode = "ts", NEW p \in options.write
  PROVE  Rests(p)
<1>1. /\ StageFrame /\ callback = NoCallback /\ stage \in {"ts", "psi", "pes", "end"}
      /\ TsStage \/ PsiStage(TRUE) \/ PesStage \/ EndStage
      /\ StreamInv /\ UnderWayInv /\ RegisteredInv /\ stage # "idle" /\ parses > 0
  BY StageKeeps DEF StageStep, BaseInv, UnderWayInv
<1>2. PICK q \in Carrying, c \in Nat, first \in Nat, last \in Nat : Flight(q, c, first, last)
  BY <1>1, InFlight
<1>3. Pid = q /\ current.pid = q /\ q \in Pids
  BY <1>2 DEF Flight
<1>4. units' = units /\ kept' = kept
  BY <1>1 DEF StageFrame
<1>5. p \in mTsCallbackMap
  BY <1>1 DEF RegisteredInv
<1>6. CASE TsStage
  <2>1. /\ stage = "ts" /\ stage' = "psi" /\ current' = current
        /\ IF Pid \in mTsCallbackMap THEN Calls("ts", current.bytes) ELSE callback' = NoCallback
    BY <1>6, TsMoves
  <2>2. Unwritten(p) <=> q = p
    BY <1>3, <2>1 DEF Unwritten
  <2>3. Unwritten(p)' <=> q = p
    BY <1>3, <1>5, <2>1 DEF Unwritten, Calls
  <2> QED
    BY <1>4, <2>1, <2>2, <2>3 DEF Rests
<1>7. CASE ~TsStage
  <2>1. ~Unwritten(p) /\ stage' \in {"idle", "pes", "end"}
    <3>1. CASE PsiStage(TRUE)
      BY <1>1, <3>1, PsiMoves DEF Unwritten
    <3>2. CASE PesStage
      <4>1. stage = "pes" /\ stage' = "end"
        BY <1>1, <1>3, <3>2, PesMoves DEF RegisteredInv
      <4> QED
        BY <4>1 DEF Unwritten
    <3>3. CASE EndStage
      BY <3>3 DEF EndStage, Unwritten
    <3> QED
      BY <1>1, <1>7, <3>1, <3>2, <3>3
  <2>2. ~Unwritten(p)'
    BY <2>1 DEF Unwritten
  <2> QED
    BY <1>4, <2>1, <2>2 DEF Rests
<1> QED
  BY <1>6, <1>7

LEMMA IdleRests ==
  ASSUME BaseInv, LocateStep \/ AddStep \/ BeginStep, options.mode = "ts", NEW p
  PROVE  Rests(p)
<1>1. program = "tsparser"
  BY DEF BaseInv, RegisteredInv
<1>2. stage = "idle" /\ UNCHANGED <<units, kept, stage>>
  BY <1>1 DEF LocateStep, AddStep, BeginStep, BeginUtilities, BeginTsparser, BeginWebAssembly, NewStream,
         collectors, sender, found
<1> QED
  BY <1>2 DEF Rests, Unwritten

\* A callback for another PID, or about something else.
LEMMA OtherReturnRests ==
  ASSUME BaseInv, TsReturns \/ PesReturns \/ PatReturns \/ PmtReturns,
         options.mode = "ts", NEW p \in options.write, ~(TsReturns /\ callback.pid = p)
  PROVE  Rests(p)
<1>1. /\ callback # NoCallback /\ callback' = NoCallback /\ UNCHANGED <<units, program, options>>
      /\ stage' = "idle" \/ (stage' = stage /\ current' = current)
      /\ stage \in {"psi", "pes", "end"} /\ program = "tsparser"
      /\ p \in Pids /\ DOMAIN kept = Pids /\ callback.pid = current.pid
  BY ReturnsKeepBase DEF BaseInv, RegisteredInv, CallbackInv
<1>2. kept'[p] = kept[p] /\ ~Unwritten(p)
  <2>1. CASE TsReturns
    <3>1. callback.pid # p
      BY <2>1
    <3> QED
      BY <1>1, <2>1, <3>1 DEF TsReturns, Unwritten
  <2>2. CASE PesReturns
    <3>1. kept' = kept /\ stage = "end"
      BY <1>1, <2>2 DEF PesReturns, PesIsKept, BaseInv, CallbackInv
    <3> QED
      BY <3>1 DEF Unwritten
  <2>3. CASE PatReturns \/ PmtReturns
    <3>1. kept' = kept /\ stage = "pes"
      BY <1>1, <2>3 DEF PatReturns, PmtReturns, TableIsKept, BaseInv, CallbackInv
    <3> QED
      BY <3>1 DEF Unwritten
  <2> QED
    BY <2>1, <2>2, <2>3
<1>3. ~Unwritten(p)'
  BY <1>1 DEF Unwritten
<1> QED
  BY <1>1, <1>2, <1>3 DEF Rests

\* A TS packet is written: the file has what it had, and the cells of it.
LEMMA WriteKeeps ==
  ASSUME BaseInv, TsReturns, options.mode = "ts", NEW p \in options.write, callback.pid = p, FileInv(p)
  PROVE  FileInv(p)'
<1>1. /\ callback # NoCallback /\ callback' = NoCallback /\ UNCHANGED <<units, program, options>>
      /\ stage = "psi" /\ stage' = "psi" /\ current' = current
      /\ current.pid = p /\ callback.raw = current.bytes
      /\ p \in DOMAIN kept /\ IsSeq(kept[p])
  BY ReturnsKeepBase DEF BaseInv, RegisteredInv, CallbackInv, TsReturns
<1>2. PICK q \in Carrying, c \in Nat, first \in Nat, last \in Nat : Flight(q, c, first, last)
  BY <1>1, InFlight DEF BaseInv
<1>3. /\ q = p /\ p \in Pids /\ c \in Nat \ {0} /\ CurrentUnit(p) = c /\ c \in DOMAIN units[p]
      /\ units[p][c].sent = last /\ first \in 1..last /\ First = first /\ last \in Nat
      /\ Carries(current, p, c, first, last) /\ SenderInv
  BY <1>1, <1>2 DEF Flight, BaseInv, StreamInv
<1>4. DOMAIN units[p] = 1..c
  BY <1>3, UnitsAreSeq
<1>5. PICK size \in Nat, pad \in Nat :
        size = TsPacketSize /\ pad = size - (last - first + 1) /\ pad < size
  <2>0. last - first + 1 <= MaxPayload
    BY <1>3 DEF Carries
  <2>1. last - first + 1 <= TsPacketSize /\ TsPacketSize \in Nat
    BY <1>3, <2>0, Numbers
  <2>2. TsPacketSize - (last - first + 1) \in Nat /\ TsPacketSize - (last - first + 1) < TsPacketSize
    BY <1>3, <2>1
  <2> QED
    BY <2>1, <2>2
<1>6. \A i \in 1..size : last - size + i = first + (i - pad - 1)
  BY <1>3, <1>5
<1>7. callback.raw = [i \in 1..size |-> IF i <= pad THEN Filler ELSE <<p, c, last - size + i>>]
  BY <1>1, <1>3, <1>5 DEF Carries
<1>8. callback.raw \in [1..size -> Cell]
  <2>1. ASSUME NEW i \in 1..size PROVE (IF i <= pad THEN Filler ELSE <<p, c, last - size + i>>) \in Cell
    <3>1. CASE i <= pad
      BY <3>1 DEF Filler, Cell
    <3>2. CASE ~(i <= pad)
      <4>1. last - size + i \in Nat
        BY <1>3, <1>5, <3>2
      <4> QED
        BY <1>3, <3>2, <4>1 DEF Cell
    <3> QED
      BY <3>1, <3>2
  <2> QED
    BY <1>7, <2>1
<1>9. PICK e : e = Entry(callback.raw, 0, <<>>)
  OBVIOUS
<1>raw. e.raw = callback.raw
  BY <1>9 DEF Entry
<1>10. kept'[p] = Append(kept[p], e)
  <2>1. kept' = [kept EXCEPT ![p] = Append(@, e)]
    BY <1>9 DEF TsReturns
  <2> QED
    BY <1>1, <2>1
<1>11. PICK len \in Nat : len = Len(kept[p])
  BY <1>1, AppendIsSeq
<1>12. /\ DOMAIN kept'[p] = 1..(len + 1) /\ DOMAIN kept[p] = 1..len
       /\ kept'[p][len + 1] = e /\ \A i \in DOMAIN kept[p] : kept'[p][i] = kept[p][i]
  BY <1>1, <1>10, <1>11, AppendIsSeq
<1>13. ASSUME NEW a \in (1..len) \X (1..size) PROVE CellAt(p, a)' = CellAt(p, a)
  BY <1>12 DEF CellAt
<1>14. ASSUME NEW i \in 1..size
       PROVE  CellAt(p, <<len + 1, i>>)' = IF i <= pad THEN Filler ELSE <<p, c, last - size + i>>
  <2>1. CellAt(p, <<len + 1, i>>)' = callback.raw[i]
    BY <1>12, <1>raw DEF CellAt
  <2> QED
    BY <1>7, <2>1
<1>15. \A x, y, z : z \in Nat \ {0} => <<x, y, z>> # Filler
  BY DEF Filler
<1>16. ASSUME NEW i \in 1..size, i > pad
       PROVE  last - size + i \in first..last /\ CellAt(p, <<len + 1, i>>)' = <<p, c, last - size + i>>
  <2>1. last - size + i \in first..last
    BY <1>3, <1>5, <1>16
  <2>2. ~(i <= pad)
    BY <1>5, <1>16
  <2>3. CellAt(p, <<len + 1, i>>)' = IF i <= pad THEN Filler ELSE <<p, c, last - size + i>>
    BY <1>14
  <2> QED
    BY <2>1, <2>2, <2>3
\* The places of the file: those there were, and those of the packet.
<1>17. ASSUME NEW a
       PROVE  a \in Places(p)' <=> \/ a \in Places(p)
                                   \/ \E i \in 1..size : i > pad /\ a = <<len + 1, i>>
  <2>1. a \in Places(p) <=> a \in (1..len) \X (1..size) /\ CellAt(p, a) # Filler
    BY <1>5, <1>12 DEF Places
  <2>2. a \in Places(p)' <=> a \in (1..(len + 1)) \X (1..size) /\ CellAt(p, a)' # Filler
    BY <1>5, <1>12 DEF Places
  <2>3. a \in (1..(len + 1)) \X (1..size) <=>
          a \in (1..len) \X (1..size) \/ \E i \in 1..size : a = <<len + 1, i>>
    OBVIOUS
  <2>4. ASSUME NEW i \in 1..size PROVE CellAt(p, <<len + 1, i>>)' # Filler <=> i > pad
    <3>1. CASE i > pad
      <4>1. last - size + i \in Nat \ {0}
        BY <1>3, <1>5, <3>1
      <4> QED
        BY <1>15, <1>16, <3>1, <4>1
    <3>2. CASE ~(i > pad)
      <4>1. i <= pad
        BY <1>5, <3>2
      <4> QED
        BY <1>14, <3>2, <4>1
    <3> QED
      BY <3>1, <3>2
  <2>5. CASE a \in (1..len) \X (1..size)
    <3>1. CellAt(p, a)' = CellAt(p, a)
      BY <1>13, <2>5
    <3>2. \A i \in 1..size : a # <<len + 1, i>>
      BY <2>5
    <3> QED
      BY <2>1, <2>2, <2>3, <2>5, <3>1, <3>2
  <2>6. CASE a \notin (1..len) \X (1..size)
    BY <2>1, <2>2, <2>3, <2>4, <2>6
  <2> QED
    BY <2>5, <2>6
<1>18. ASSUME NEW a \in Places(p) PROVE a[1] \in 1..len /\ CellAt(p, a)' = CellAt(p, a) /\ CellAt(p, a) \in WrittenOn(p)
  <2>1. a \in (1..len) \X (1..size)
    BY <1>5, <1>12 DEF Places
  <2>2. CellAt(p, a) \in WrittenOn(p)
    BY DEF FileInv
  <2> QED
    BY <1>13, <2>1, <2>2
<1>19. Unwritten(p) /\ ~Unwritten(p)'
  BY <1>1 DEF Unwritten
<1>20. SentOn(p)' = SentOn(p) /\ WrittenOn(p)' = SentOn(p)
  BY <1>1, <1>19 DEF SentOn, WrittenOn
<1>21. WrittenOn(p) = {x \in SentOn(p) : ~(UnitOf(x) = c /\ IndexOf(x) >= first)}
  BY <1>3, <1>19 DEF WrittenOn
<1>22. ASSUME NEW x \in WrittenOn(p), NEW k \in first..last
       PROVE  Precedes(x, <<p, c, k>>)
  <2>1. x \in SentOn(p) /\ ~(UnitOf(x) = c /\ IndexOf(x) >= first)
    BY <1>21
  <2>2. PICK u \in DOMAIN units[p] : \E j \in 1..units[p][u].sent : x = <<p, u, j>>
    BY <2>1, IsSent
  <2>3. PICK j \in 1..units[p][u].sent : x = <<p, u, j>>
    BY <2>2
  <2>4. UnitOf(x) = u /\ IndexOf(x) = j /\ UnitOf(<<p, c, k>>) = c /\ IndexOf(<<p, c, k>>) = k
    BY <2>3 DEF UnitOf, IndexOf
  <2>5. u \in 1..c /\ j \in Int /\ ~(u = c /\ j >= first)
    BY <1>3, <1>4, <2>1, <2>4, UnitsAreSeq
  <2>6. u < c \/ (u = c /\ j < k)
    BY <1>3, <2>5
  <2> QED
    BY <2>4, <2>6 DEF Precedes
<1>23. ASSUME NEW x
       PROVE  (\E a \in Places(p)' : x = CellAt(p, a)') <=> x \in SentOn(p)
  <2>1. ASSUME NEW a \in Places(p)' PROVE CellAt(p, a)' \in SentOn(p)
    <3>1. CASE a \in Places(p)
      BY <1>18, <1>21, <3>1
    <3>2. CASE a \notin Places(p)
      <4>1. PICK i \in 1..size : i > pad /\ a = <<len + 1, i>>
        BY <1>17, <3>2
      <4>2. CellAt(p, a)' = <<p, c, last - size + i>> /\ last - size + i \in 1..units[p][c].sent
        BY <1>3, <1>16, <4>1
      <4> QED
        BY <1>3, <4>2, IsSent
    <3> QED
      BY <3>1, <3>2
  <2>2. ASSUME x \in SentOn(p) PROVE \E a \in Places(p)' : x = CellAt(p, a)'
    <3>1. CASE x \in WrittenOn(p)
      <4>1. PICK a \in Places(p) : x = CellAt(p, a)
        BY <3>1 DEF FileInv
      <4>2. a \in Places(p)' /\ x = CellAt(p, a)'
        BY <1>17, <1>18, <4>1
      <4> QED
        BY <4>2
    <3>2. CASE x \notin WrittenOn(p)
      <4>1. UnitOf(x) = c /\ IndexOf(x) >= first
        BY <1>21, <2>2, <3>2
      <4>2. PICK u \in DOMAIN units[p] : \E j \in 1..units[p][u].sent : x = <<p, u, j>>
        BY <2>2, IsSent
      <4>3. PICK j \in 1..units[p][u].sent : x = <<p, u, j>>
        BY <4>2
      <4>4. u = c /\ j \in first..last
        BY <1>3, <4>1, <4>3 DEF UnitOf, IndexOf
      <4>5. PICK i \in 1..size : i = j - last + size /\ i > pad /\ last - size + i = j
        <5>1. j - last + size \in 1..size /\ j - last + size > pad /\ last - size + (j - last + size) = j
          BY <1>3, <1>5, <4>4
        <5> QED
          BY <5>1
      <4>6. <<len + 1, i>> \in Places(p)' /\ CellAt(p, <<len + 1, i>>)' = x
        BY <1>16, <1>17, <4>3, <4>4, <4>5
      <4> QED
        BY <4>6
    <3> QED
      BY <3>1, <3>2
  <2> QED
    BY <2>1, <2>2
<1>24. {CellAt(p, a)' : a \in Places(p)'} = WrittenOn(p)'
  BY <1>20, <1>23
<1>25. ASSUME NEW a \in Places(p)', NEW b \in Places(p)',
              a[1] < b[1] \/ (a[1] = b[1] /\ a[2] < b[2])
       PROVE  Precedes(CellAt(p, a)', CellAt(p, b)')
  <2>1. CASE b \in Places(p)
    <3>1. a \in Places(p)
      <4>1. CASE a \notin Places(p)
        <5>1. PICK i \in 1..size : a = <<len + 1, i>>
          BY <1>17, <4>1
        <5>2. a[1] = len + 1 /\ b[1] \in 1..len
          BY <1>18, <2>1, <5>1
        <5> QED
          BY <1>25, <5>2
      <4> QED
        BY <4>1
    <3>2. Precedes(CellAt(p, a), CellAt(p, b))
      BY <1>25, <2>1, <3>1 DEF FileInv
    <3> QED
      BY <1>18, <2>1, <3>1, <3>2
  <2>2. CASE b \notin Places(p)
    <3>1. PICK j \in 1..size : j > pad /\ b = <<len + 1, j>>
      BY <1>17, <2>2
    <3>2. CellAt(p, b)' = <<p, c, last - size + j>> /\ last - size + j \in first..last
      BY <1>16, <3>1
    <3>3. CASE a \in Places(p)
      <4>1. CellAt(p, a)' \in WrittenOn(p)
        BY <1>18, <3>3
      <4>2. Precedes(CellAt(p, a)', <<p, c, last - size + j>>)
        BY <1>22, <3>2, <4>1
      <4> QED
        BY <3>2, <4>2
    <3>4. CASE a \notin Places(p)
      <4>1. PICK i \in 1..size : i > pad /\ a = <<len + 1, i>>
        BY <1>17, <3>4
      <4>2. CellAt(p, a)' = <<p, c, last - size + i>>
        BY <1>16, <4>1
      <4>3. i < j
        BY <1>25, <3>1, <4>1
      <4>4. last - size + i < last - size + j
        BY <1>3, <1>5, <4>3
      <4> QED
        BY <3>2, <4>2, <4>4 DEF Precedes, UnitOf, IndexOf
    <3> QED
      BY <3>3, <3>4
  <2> QED
    BY <2>1, <2>2
<1>26. ASSUME NEW i \in DOMAIN kept'[p] PROVE kept'[p][i].raw \in [1..TsPacketSize -> Cell]
  <2>1. CASE i = len + 1
    BY <1>5, <1>8, <1>raw, <1>12, <2>1
  <2>2. CASE i # len + 1
    <3>1. i \in DOMAIN kept[p]
      BY <1>12, <2>2
    <3> QED
      BY <1>12, <3>1 DEF FileInv
  <2> QED
    BY <2>1, <2>2
<1> QED
  BY <1>24, <1>25, <1>26 DEF FileInv

LEMMA FilesStep ==
  ASSUME BaseInv, FilesInv, Steps
  PROVE  FilesInv'
<1>1. options' = options
  BY StageKeeps, FeedKeepsBase, ReturnsKeepBase
     DEF Steps, StageStep, StageFrame, FeedFrame, LocateStep, AddStep, BeginStep, BeginUtilities,
         BeginTsparser, BeginWebAssembly, NewStream, run
<1> SUFFICES ASSUME options.mode = "ts", NEW p \in options.write, FileInv(p) PROVE FileInv(p)'
  BY <1>1 DEF FilesInv
<1>2. p \in Pids
  BY DEF BaseInv, RegisteredInv
<1>3. CASE FeedStep
  <2>1. PICK q \in Carrying, first \in Nat \ {0} :
          Sends(q, first) /\ First' = first /\ current'.pid = q /\ CurrentUnit(q)' = Len(units'[q])
    BY <1>3, FeedKeepsBase
  <2>2. FeedFrame
    BY <1>3, FeedKeepsBase
  <2> QED
    BY <1>2, <2>1, <2>2, FeedRests
<1>4. CASE LocateStep \/ AddStep \/ BeginStep
  BY <1>4, IdleRests, FileRests
<1>5. CASE StageStep
  BY <1>5, StageRests, FileRests
<1>6. CASE TsReturns \/ PesReturns \/ PatReturns \/ PmtReturns
  <2>1. CASE TsReturns /\ callback.pid = p
    BY <2>1, WriteKeeps
  <2>2. CASE ~(TsReturns /\ callback.pid = p)
    BY <1>6, <2>2, OtherReturnRests, FileRests
  <2> QED
    BY <2>1, <2>2
<1> QED
  BY <1>3, <1>4, <1>5, <1>6 DEF Steps

-----------------------------------------------------------------------------
(* The invariant, and what it says *)

LEMMA InitIsOrdered == Init => IInv
<1> SUFFICES ASSUME Init PROVE IInv
  OBVIOUS
<1>1. /\ program \in {"TsUtilities", "tsparser", "WebAssembly"}
      /\ options \in [mode : {"ts", "pes", "es"}, write : SUBSET Pids, print : SUBSET Pids]
      /\ program # "tsparser" => options.mode = "pes"
  <2>1. program \in Programs
        /\ options \in (IF program = "tsparser" THEN Options
                        ELSE {[mode |-> "pes", write |-> {}, print |-> {}]})
    BY DEF Init
  <2>2. [mode |-> "pes", write |-> {}, print |-> {}]
          \in [mode : {"ts", "pes", "es"}, write : SUBSET Pids, print : SUBSET Pids]
    OBVIOUS
  <2>3. /\ Programs \subseteq {"TsUtilities", "tsparser", "WebAssembly"}
        /\ Options \subseteq [mode : {"ts", "pes", "es"}, write : SUBSET Pids, print : SUBSET Pids]
    BY ClientAssumption
  <2> QED
    BY <2>1, <2>2, <2>3
<1>2. /\ units = [p \in Pids |-> <<>>] /\ before = [p \in Pids |-> 0] /\ parses = 0 /\ stage = "idle"
      /\ kept = [p \in Pids |-> <<>>] /\ mPesPacket = [p \in Pids |-> NoPes]
      /\ mSectionBuffer = [p \in Pids |-> <<>>]
      /\ callback = NoCallback /\ pmtPids = <<>> /\ mPsiCallbackMap = {} /\ mTsCallbackMap = {}
  BY DEF Init, InitDemuxer, InitSender, InitSections, InitPes
<1>3. StreamInv
  <2>1. SenderInv
    <3>1. <<>> \in Seq(UnitRecord)
      OBVIOUS
    <3> QED
      BY <1>2, <3>1 DEF SenderInv, Init, InitSender
  <2>2. ASSUME NEW p \in Pids PROVE StreamOn(p)
    BY <1>2 DEF StreamOn, CurrentUnit
  <2>3. before \in [Pids -> Nat]
    BY <1>2
  <2> QED
    BY <2>1, <2>2, <2>3 DEF StreamInv
<1>4. UnderWayInv /\ CallbackInv
  BY <1>2 DEF UnderWayInv, CallbackInv
<1>5. RegisteredInv
  <2>1. <<>> \in Seq(Pids \ PesPids) /\ IsSeq(<<>>)
    BY DEF IsSeq
  <2> QED
    BY <1>1, <1>2, <2>1 DEF RegisteredInv
<1>6. PesInv
  <2>1. ASSUME NEW p \in PesPids PROVE HeldInv(p) /\ PendingInv(p) /\ KeptInv(p)
    <3>1. p \in Pids
      BY CarriedPids
    <3>2. mPesPacket[p] = NoPes /\ kept[p] = <<>>
      BY <1>2, <3>1
    <3> QED
      BY <1>2, <3>2 DEF HeldInv, PendingInv, KeptInv, Held, Pending
  <2> QED
    BY <2>1 DEF PesInv
<1>7. FilesInv
  <2>1. ASSUME NEW p \in options.write PROVE FileInv(p)
    <3>1. p \in Pids /\ kept[p] = <<>> /\ units[p] = <<>>
      BY <1>1, <1>2
    <3>2. Places(p) = {} /\ SentOn(p) = {}
      BY <3>1 DEF Places, SentOn
    <3> QED
      BY <3>1, <3>2 DEF FileInv, WrittenOn
  <2> QED
    BY <2>1 DEF FilesInv
<1> QED
  BY <1>3, <1>4, <1>5, <1>6, <1>7 DEF IInv

LEMMA StepsKeepBase ==
  ASSUME BaseInv, Steps
  PROVE  BaseInv'
BY FeedKeepsBase, LocateKeepsBase, AddKeepsBase, BeginKeepsBase, StageKeepsBase, ReturnsKeepBase DEF Steps

\* Nothing changes.
LEMMA StutterKeeps ==
  ASSUME IInv, UNCHANGED vars
  PROVE  IInv'
<1>1. /\ UNCHANGED <<units, before, program, options, parses, stage, current, callback, kept, mPesPacket,
                     mSectionBuffer, mTsCallbackMap, mPsiCallbackMap, mPesCallbackMap, pmtPids>>
  BY DEF vars, demuxer, registrations, collectors, sections, sender, tables, found, run, parse
<1>2. StreamInv' /\ UnderWayInv'
  <2>1. StreamInv /\ UnderWayInv
    BY DEF IInv
  <2>2. stage' = "idle" \/ (stage # "idle" /\ current' = current /\ stage' \in {"ts", "psi", "pes", "end"})
    BY <1>1, <2>1 DEF UnderWayInv
  <2> QED
    BY <1>1, <2>1, <2>2, StreamStays, UnderWayStays
<1>3. RegisteredInv'
  <2>1. RegisteredInv
    BY DEF IInv
  <2>2. mPsiCallbackMap' \cap PesPids = {} /\ pmtPids' \in Seq(Pids \ PesPids)
    BY <1>1, <2>1 DEF RegisteredInv
  <2> QED
    BY <1>1, <2>1, <2>2, TypesStay, RegisteredStays
<1>4. CallbackInv'
  <2>1. CurrentUnit(current.pid)' = CurrentUnit(current.pid) /\ CallbackInv
    BY <1>1 DEF CurrentUnit, IInv
  <2> QED
    BY <1>1, <2>1 DEF CallbackInv
<1>5. PesInv'
  <2> SUFFICES ASSUME options.mode # "ts", NEW p \in PesPids PROVE PesPart(p)'
    BY <1>1 DEF PesInv, PesPart
  <2>0. p \in Pids /\ SenderInv /\ PesPart(p)
    BY CarriedPids DEF IInv, StreamInv, PesInv, PesPart
  <2>1. CASE ~Pending(p)
    <3>1. Quiet(p)
      BY <1>1, <2>1 DEF Quiet, Pending, Ahead
    <3> QED
      BY <2>0, <3>1, QuietPasses, PassedKeeps
  <2>2. CASE Pending(p)
    <3>1. (Ahead(p)' <=> Ahead(p)) /\ (Ahead(p) => First' = First) /\ CurrentUnit(p)' = CurrentUnit(p)
      BY <1>1 DEF Ahead, First, CurrentUnit
    <3>2. SeenUnit(p)' = SeenUnit(p) /\ SeenCells(p)' = SeenCells(p)
      BY <1>1, <3>1, SightStays
    <3>3. /\ Pending(p)' <=> Pending(p)
          /\ Held(p)' <=> Held(p)
          /\ PendingUnit' = PendingUnit
      BY <1>1 DEF Pending, Held, PendingUnit
    <3>4. NextUnit(p)' = NextUnit(p) /\ Whole(p)' = Whole(p) /\ \A u : Part(p, u)' = Part(p, u)
      BY <1>1, <3>2, <3>3 DEF NextUnit, Whole, Part, Unit
    <3>5. \A u : Keepable(p, u)' <=> Keepable(p, u)
      BY <1>1, <3>1, <3>4 DEF Keepable
    <3>6. HeldInv(p)'
      BY <1>1, <2>0, <3>2, <3>3 DEF HeldInv, PesPart
    <3>7. PendingInv(p)'
      <4> SUFFICES ASSUME Pending(p)'
                   PROVE  /\ Keepable(p, PendingUnit)'
                          /\ callback'.raw = Cells(p, PendingUnit, 1, units[p][PendingUnit].sent)
                          /\ Held(p)' => PendingUnit < CurrentUnit(p)
        BY <1>1, <3>1, <3>3 DEF PendingInv
      <4>1. Keepable(p, PendingUnit)' <=> Keepable(p, PendingUnit)
        BY <1>1, <3>1, <3>3, <3>4 DEF Keepable
      <4> QED
        BY <1>1, <2>0, <2>2, <3>3, <4>1 DEF PesPart, PendingInv
    <3>8. KeptInv(p)'
      <4>1. \A i : KeptUnit(p, i)' = KeptUnit(p, i)
        BY <1>1 DEF KeptUnit
      <4>2. \A i : /\ Keepable(p, KeptUnit(p, i))' <=> Keepable(p, KeptUnit(p, i))
                   /\ Part(p, KeptUnit(p, i))' = Part(p, KeptUnit(p, i))
        BY <1>1, <3>1, <3>4, <4>1 DEF Keepable, Part, Unit
      <4> QED
        BY <1>1, <2>0, <3>4, <4>1, <4>2 DEF KeptInv, PesPart
    <3> QED
      BY <3>6, <3>7, <3>8 DEF PesPart
  <2> QED
    BY <2>1, <2>2
<1>6. FilesInv'
  <2> SUFFICES ASSUME options.mode = "ts", NEW p \in options.write PROVE FileInv(p)'
    BY <1>1 DEF FilesInv
  <2>1. FileInv(p)
    BY DEF IInv, FilesInv
  <2>2. Rests(p)
    BY <1>1 DEF Rests, Unwritten
  <2> QED
    BY <2>1, <2>2, FileRests
<1> QED
  BY <1>2, <1>3, <1>4, <1>5, <1>6 DEF IInv

LEMMA NextKeeps == IInv /\ [Next]_vars => IInv'
<1>1. ASSUME IInv, Next PROVE IInv'
  <2>1. CallbackKinds
    BY <1>1 DEF IInv, CallbackInv, CallbackKinds
  <2>2. Steps
    BY <1>1, <2>1, NextIsSteps
  <2>3. BaseInv
    BY <1>1 DEF IInv, BaseInv
  <2>4. BaseInv' /\ PesInv' /\ FilesInv'
    BY <1>1, <2>2, <2>3, StepsKeepBase, PesStep, FilesStep DEF IInv
  <2> QED
    BY <2>4 DEF IInv, BaseInv
<1> QED
  BY <1>1, StutterKeeps

LEMMA OrderedIsKept == IInv => KeptInOrder
<1> SUFFICES ASSUME IInv PROVE KeptInOrder
  OBVIOUS
<1>1. CASE options.mode = "ts"
  <2> SUFFICES ASSUME NEW p \in options.write, stage \in {"idle", "psi"}, callback = NoCallback
               PROVE  FileIsStream(p)
    BY <1>1 DEF KeptInOrder
  <2>1. FileInv(p) /\ ~Unwritten(p)
    BY <1>1 DEF IInv, FilesInv, Unwritten
  <2>2. WrittenOn(p) = SentOn(p)
    BY <2>1 DEF WrittenOn
  <2> QED
    BY <2>1, <2>2 DEF FileInv, FileIsStream
<1>2. CASE options.mode # "ts"
  <2> SUFFICES ASSUME NEW p \in PesPids, NEW i \in DOMAIN kept[p], NEW j \in DOMAIN kept[p]
               PROVE  /\ i < j => KeptUnit(p, i) < KeptUnit(p, j)
                      /\ IF KeptUnit(p, i) \in Whole(p) THEN kept[p][i].raw = Part(p, KeptUnit(p, i))
                         ELSE program = "TsUtilities"
                      /\ program = "WebAssembly" => KeptUnit(p, i) > before[p]
    BY <1>2 DEF KeptInOrder, KeptUnit
  <2>1. /\ Keepable(p, KeptUnit(p, i))
        /\ KeptUnit(p, i) \in Whole(p) => kept[p][i].raw = Part(p, KeptUnit(p, i))
        /\ i < j => KeptUnit(p, i) < KeptUnit(p, j)
    BY <1>2 DEF IInv, PesInv, KeptInv
  <2>2. PICK u : u = KeptUnit(p, i)
    OBVIOUS
  <2>3. u \in DOMAIN units[p] /\ (u \in Whole(p) \/ program = "TsUtilities")
        /\ (program = "WebAssembly" => before[p] < u)
    BY <2>1, <2>2 DEF Keepable
  <2>4. u \in Int /\ before[p] \in Int
    <3>1. p \in Pids /\ DOMAIN units[p] \subseteq Int /\ before[p] \in Nat
      BY CarriedPids, UnitsAreSeq DEF IInv, StreamInv
    <3> QED
      BY <2>3, <3>1
  <2> QED
    BY <2>1, <2>2, <2>3, <2>4
<1> QED
  BY <1>1, <1>2

\* What is kept of a PID is in the order of the stream and there once, and a
\* file of TS packets is the stream of its PID, whatever packets, tables and
\* parses there are.
THEOREM KeptIsAlwaysInOrder == Spec => []KeptInOrder
<1>1. Init => IInv
  BY InitIsOrdered
<1>2. IInv /\ [Next]_vars => IInv'
  BY NextKeeps
<1>3. IInv => KeptInOrder
  BY OrderedIsKept
<1> QED
  BY <1>1, <1>2, <1>3, PTL DEF Spec

-----------------------------------------------------------------------------
(* The offsets in the JSON text *)

Tables == {0} \cup PmtPids

\* Where a unit of this parse begins in the data, and whether it is given out
\* when the next one starts.
StartAt(p, u) == starts[p][u - before[p]]
AtNext(p, u) == p \in PesPids /\ UnitSize(p, units[p][u].head) <= MaxPayload

\* A unit whose offset is known, and the offset.
IsPlaced(p, u) ==
  u \in DOMAIN units[p] /\ before[p] < u /\ (AtNext(p, u) => u < CurrentUnit(p))
Place(p, u) == StartAt(p, IF AtNext(p, u) THEN u + 1 ELSE u)

\* The starts are those of the units of this parse.
StartsInv ==
  /\ DOMAIN starts = Pids
  /\ \A p \in Pids : IsSeq(starts[p]) /\ Len(starts[p]) = CurrentUnit(p) - before[p]

\* demux has been told where the packet under way is, which begins a unit or
\* goes on with one that takes several packets.
ToldInv ==
  /\ phase = "located" => mOrigin = (demuxed - opened) * TsPacketSize
  /\ stage # "idle" =>
       /\ First = 1 => mOrigin = StartAt(current.pid, CurrentUnit(current.pid))
       /\ First > 1 => ~AtNext(current.pid, CurrentUnit(current.pid))

\* PES packets are expected on no PID that carries tables, and the origins of
\* both are kept apart.
ApartInv ==
  /\ mPesCallbackMap \cap Tables = {} /\ esPids \in Seq(Pids \ Tables)
  /\ DOMAIN mOrigins = Pids
  /\ callback # NoCallback =>
       /\ callback.kind = "pes" => callback.pid \in PesPids
       /\ callback.kind = "psi" =>
            mOrigins[callback.pid] = StartAt(callback.pid, CurrentUnit(callback.pid))

\* A PES packet that fits in one packet is sent in one.
SmallInv == \A p \in PesPids : \A u \in DOMAIN units[p] : AtNext(p, u) => u \in Whole(p)

\* The origin of a PID is that of the PES packet under collection, which is
\* complete only if it fits in one packet, and of the one called back.
OriginOn(p) ==
  /\ Held(p) =>
       /\ mOrigins[p] = StartAt(p, SeenUnit(p))
       /\ SeenCells(p) = UnitSize(p, units[p][SeenUnit(p)].head) => AtNext(p, SeenUnit(p))
  /\ Pending(p) => IsPlaced(p, PendingUnit) /\ mOrigins[p] = Place(p, PendingUnit)

PlacedInv ==
  \A p \in Pids : \A i \in DOMAIN kept[p] :
    IsPlaced(p, KeptUnit(p, i)) /\ kept[p][i].ofs = Place(p, KeptUnit(p, i))

OriginParts ==
  StartsInv /\ ToldInv /\ ApartInv /\ SmallInv /\ (\A p \in PesPids : OriginOn(p)) /\ PlacedInv
OriginInv == program = "WebAssembly" => OriginParts

-----------------------------------------------------------------------------
(* What is known of a unit stays true *)

\* There may be more units and more starts.
StartsGrow(p) ==
  /\ Grows(p) /\ before'[p] = before[p] /\ before[p] \in Nat /\ before[p] <= CurrentUnit(p)
  /\ DOMAIN units[p] = 1..CurrentUnit(p)
  /\ DOMAIN starts[p] = 1..(CurrentUnit(p) - before[p])
  /\ \A i \in DOMAIN starts[p] : starts'[p][i] = starts[p][i]

LEMMA StartsAre ==
  ASSUME StreamInv, StartsInv, NEW p \in Pids
  PROVE  /\ CurrentUnit(p) \in Nat /\ before[p] \in Nat /\ before[p] <= CurrentUnit(p)
         /\ DOMAIN units[p] = 1..CurrentUnit(p)
         /\ DOMAIN starts[p] = 1..(CurrentUnit(p) - before[p])
<1>1. /\ CurrentUnit(p) \in Nat /\ before[p] \in Nat /\ before[p] <= CurrentUnit(p)
      /\ DOMAIN units[p] = 1..CurrentUnit(p)
  BY UnitsAreSeq DEF StreamInv, StreamOn
<1>2. IsSeq(starts[p]) /\ Len(starts[p]) = CurrentUnit(p) - before[p]
  BY DEF StartsInv
<1>3. DOMAIN starts[p] = 1..Len(starts[p])
  BY <1>2, AppendIsSeq
<1> QED
  BY <1>1, <1>2, <1>3

LEMMA StartsStay ==
  ASSUME StreamInv, StartsInv, NEW p \in Pids, UNCHANGED <<units, before, starts, program, options>>
  PROVE  StartsGrow(p)
<1>1. Grows(p)
  BY UnitsStay DEF StreamInv
<1> QED
  BY <1>1, StartsAre DEF StartsGrow

LEMMA StartStays ==
  ASSUME NEW p \in Pids, StartsGrow(p), NEW u \in Int, u \in DOMAIN units[p], before[p] < u
  PROVE  /\ StartAt(p, u)' = StartAt(p, u)
         /\ AtNext(p, u)' <=> AtNext(p, u)
<1>1. u - before[p] \in DOMAIN starts[p] /\ before'[p] = before[p]
  BY DEF StartsGrow, Grows
<1>2. starts'[p][u - before[p]] = starts[p][u - before[p]]
  BY <1>1 DEF StartsGrow
<1>3. units'[p][u].head = units[p][u].head
  BY DEF StartsGrow, Grows
<1>4. AtNext(p, u)' <=> AtNext(p, u)
  BY <1>3 DEF AtNext, UnitSize
<1> QED
  BY <1>1, <1>2, <1>4 DEF StartAt

LEMMA PlaceStays ==
  ASSUME NEW p \in Pids, StartsGrow(p), NEW u, IsPlaced(p, u)
  PROVE  IsPlaced(p, u)' /\ Place(p, u)' = Place(p, u)
<1>1. /\ u \in DOMAIN units[p] /\ before[p] < u /\ (AtNext(p, u) => u < CurrentUnit(p))
      /\ CurrentUnit(p) \in Nat /\ CurrentUnit(p)' \in Nat /\ CurrentUnit(p) <= CurrentUnit(p)'
      /\ DOMAIN units[p] = 1..CurrentUnit(p) /\ before'[p] = before[p] /\ before[p] \in Nat
      /\ u \in DOMAIN units'[p]
  BY DEF IsPlaced, StartsGrow, Grows
<1>2. u \in Int
  BY <1>1
<1>3. StartAt(p, u)' = StartAt(p, u) /\ (AtNext(p, u)' <=> AtNext(p, u))
  BY <1>1, <1>2, StartStays
<1>4. IsPlaced(p, u)'
  BY <1>1, <1>2, <1>3 DEF IsPlaced, AtNext, UnitSize
<1>5. CASE ~AtNext(p, u)
  <2>1. Place(p, u)' = StartAt(p, u)' /\ Place(p, u) = StartAt(p, u)
    BY <1>3, <1>5 DEF Place, AtNext, StartAt, UnitSize
  <2> QED
    BY <1>3, <1>4, <2>1
<1>6. CASE AtNext(p, u)
  <2>1. PICK n \in Int : n = u + 1 /\ n \in DOMAIN units[p] /\ before[p] < n
    BY <1>1, <1>2, <1>6
  <2>2. StartAt(p, n)' = StartAt(p, n)
    BY <2>1, StartStays
  <2>3. Place(p, u)' = StartAt(p, n)' /\ Place(p, u) = StartAt(p, n)
    BY <1>3, <1>6, <2>1 DEF Place, AtNext, StartAt, UnitSize
  <2> QED
    BY <1>4, <2>2, <2>3
<1> QED
  BY <1>5, <1>6

\* What is kept of a PID and where it was stays as it is.
LEMMA PlacedStays ==
  ASSUME PlacedInv, NEW p \in Pids, StartsGrow(p), kept'[p] = kept[p]
  PROVE  \A i \in DOMAIN kept'[p] :
           IsPlaced(p, KeptUnit(p, i))' /\ kept'[p][i].ofs = Place(p, KeptUnit(p, i))'
<1> SUFFICES ASSUME NEW i \in DOMAIN kept[p]
             PROVE  IsPlaced(p, KeptUnit(p, i))' /\ kept'[p][i].ofs = Place(p, KeptUnit(p, i))'
  OBVIOUS
<1>1. PICK u : u = KeptUnit(p, i)
  OBVIOUS
<1>2. IsPlaced(p, u) /\ kept[p][i].ofs = Place(p, u)
  BY <1>1 DEF PlacedInv
<1>3. IsPlaced(p, u)' /\ Place(p, u)' = Place(p, u)
  BY <1>2, PlaceStays
<1>4. KeptUnit(p, i)' = u
  BY <1>1 DEF KeptUnit
<1>5. IsPlaced(p, KeptUnit(p, i))' /\ Place(p, KeptUnit(p, i))' = Place(p, u)'
  BY <1>3, <1>4 DEF IsPlaced, Place, AtNext, StartAt, UnitSize
<1> QED
  BY <1>2, <1>3, <1>5

\* A PES packet that goes on being collected stays where it is.
LEMMA OriginStays ==
  ASSUME StreamInv, NEW p \in PesPids, HeldInv(p), OriginOn(p), program = "WebAssembly",
         Passed(p), StartsGrow(p), mOrigins'[p] = mOrigins[p]
  PROVE  OriginOn(p)'
<1>0. p \in Pids
  BY CarriedPids
<1>1. ~Pending(p)' /\ (Held(p)' <=> Held(p))
  BY DEF Passed, Held
<1>2. CASE ~Held(p)
  BY <1>1, <1>2 DEF OriginOn
<1>3. CASE Held(p)
  <2>1. PICK s \in Int : s = SeenUnit(p)
    BY <1>0, SeenIsNumber DEF StreamInv
  <2>2. s \in DOMAIN units[p] /\ before[p] < s
    BY <1>3, <2>1 DEF HeldInv
  <2>3. SeenUnit(p)' = s /\ SeenCells(p)' = SeenCells(p)
    BY <2>1, <2>2 DEF Passed
  <2>4. StartAt(p, s)' = StartAt(p, s) /\ (AtNext(p, s)' <=> AtNext(p, s))
    BY <1>0, <2>2, StartStays
  <2>5. units'[p][s].head = units[p][s].head
    BY <2>2 DEF StartsGrow, Grows
  <2>6. /\ mOrigins[p] = StartAt(p, s)
        /\ SeenCells(p) = UnitSize(p, units[p][s].head) => AtNext(p, s)
    BY <1>3, <2>1 DEF OriginOn
  <2>7. mOrigins'[p] = StartAt(p, SeenUnit(p))'
    BY <2>3, <2>4, <2>6 DEF StartAt
  <2>8. SeenCells(p)' = UnitSize(p, units'[p][s].head) => AtNext(p, s)'
    BY <2>3, <2>4, <2>5, <2>6 DEF UnitSize
  <2>9. SeenCells(p)' = UnitSize(p, units'[p][SeenUnit(p)'].head) => AtNext(p, SeenUnit(p))'
    BY <2>3, <2>8 DEF AtNext, UnitSize
  <2> QED
    BY <1>1, <2>7, <2>9 DEF OriginOn, UnitSize
<1> QED
  BY <1>2, <1>3

-----------------------------------------------------------------------------
(* The steps between the packets *)

PageInv == program = "WebAssembly" /\ BaseInv /\ PesInv /\ OriginParts

LEMMA PageMode ==
  ASSUME PageInv, NEW p \in PesPids
  PROVE  /\ HeldInv(p) /\ PendingInv(p) /\ KeptInv(p) /\ OriginOn(p) /\ p \in Pids
         /\ mTsCallbackMap = {}
<1>1. options.mode # "ts" /\ mTsCallbackMap = {}
  BY DEF PageInv, BaseInv, RegisteredInv
<1> QED
  BY <1>1, CarriedPids DEF PageInv, PesInv, OriginParts

\* A step that leaves the units and their starts alone.
LEMMA SmallStays ==
  ASSUME SmallInv, units' = units
  PROVE  SmallInv'
<1> SUFFICES ASSUME NEW p \in PesPids, NEW u \in DOMAIN units[p], AtNext(p, u)'
             PROVE  u \in Whole(p)'
  BY DEF SmallInv
<1>1. AtNext(p, u)
  BY DEF AtNext, UnitSize
<1>2. u \in Whole(p)
  BY <1>1 DEF SmallInv
<1> QED
  BY <1>2 DEF Whole

LEMMA StartsInvStays ==
  ASSUME StartsInv, UNCHANGED <<units, before, starts>>
  PROVE  StartsInv'
<1>1. \A p : CurrentUnit(p)' = CurrentUnit(p)
  BY DEF CurrentUnit
<1> QED
  BY <1>1 DEF StartsInv, IsSeq

\* What demux has been told stays true as long as the packet is the same.
LEMMA ToldStays ==
  ASSUME ToldInv, StreamInv, StartsInv, UnderWayInv, UNCHANGED <<units, before, starts, program, options>>,
         phase' = "located" => phase = "located",
         UNCHANGED <<mOrigin, demuxed, opened>>,
         stage' = "idle" \/ (stage # "idle" /\ current' = current)
  PROVE  ToldInv'
<1>1. phase' = "located" => mOrigin' = (demuxed' - opened') * TsPacketSize
  BY DEF ToldInv
<1>2. ASSUME stage' # "idle"
      PROVE  (/\ First = 1 => mOrigin = StartAt(current.pid, CurrentUnit(current.pid))
              /\ First > 1 => ~AtNext(current.pid, CurrentUnit(current.pid)))'
  <2>1. stage # "idle" /\ current' = current /\ First' = First
    BY <1>2 DEF First
  <2>2. PICK p : p = current.pid
    OBVIOUS
  <2>3. /\ First = 1 => mOrigin = StartAt(p, CurrentUnit(p))
        /\ First > 1 => ~AtNext(p, CurrentUnit(p))
    BY <2>1, <2>2 DEF ToldInv
  <2>4. Len(units'[p]) = CurrentUnit(p)
    BY DEF CurrentUnit
  <2> QED
    BY <2>1, <2>2, <2>3, <2>4 DEF StartAt, AtNext, UnitSize, CurrentUnit
<1> QED
  BY <1>1, <1>2 DEF ToldInv

LEMMA LocateKeepsOrigins ==
  ASSUME PageInv, LocateStep
  PROVE  OriginParts'
<1>1. /\ UNCHANGED <<units, before, starts, program, options, kept, mPesPacket, stage, current, callback,
                     demuxed, opened, mPesCallbackMap, esPids, mOrigins>>
      /\ mOrigin' = (demuxed - opened) * TsPacketSize /\ stage = "idle" /\ callback = NoCallback
  <2>1. stage = "idle" /\ CallbackInv
    BY DEF LocateStep, PageInv, BaseInv
  <2> QED
    BY <2>1, IdleCallsNobody
       DEF LocateStep, registrations, collectors, sender, tables, found, run, parse, said
<1>2. StreamInv /\ StartsInv
  BY DEF PageInv, OriginParts, BaseInv
<1>3. StartsInv' /\ SmallInv'
  BY <1>1, StartsInvStays, SmallStays DEF PageInv, OriginParts
<1>4. ToldInv' /\ ApartInv'
  BY <1>1 DEF ToldInv, ApartInv, PageInv, OriginParts, NoCallback
<1>5. ASSUME NEW p \in PesPids PROVE OriginOn(p)'
  <2>1. Passed(p) /\ StartsGrow(p) /\ HeldInv(p) /\ OriginOn(p)
    BY <1>1, <1>2, PageMode, IdlePasses, StartsStay DEF PageInv
  <2> QED
    BY <1>1, <1>2, <2>1, OriginStays DEF PageInv
<1>6. PlacedInv'
  <2>1. \A p \in Pids : StartsGrow(p)
    BY <1>1, <1>2, StartsStay
  <2> QED
    BY <1>1, <2>1, PlacedStays DEF PlacedInv, PageInv, OriginParts
<1> QED
  BY <1>3, <1>4, <1>5, <1>6 DEF OriginParts

LEMMA AddKeepsOrigins ==
  ASSUME PageInv, AddStep
  PROVE  OriginParts'
<1>1. /\ UNCHANGED <<units, before, starts, program, options, kept, mPesPacket, stage, current, callback,
                     demuxed, opened, mOrigin, mOrigins>>
      /\ phase' = "read" /\ stage = "idle" /\ callback = NoCallback
      /\ mPesCallbackMap' = mPesCallbackMap \cup Range(esPids) /\ esPids' = <<>>
  <2>1. stage = "idle" /\ CallbackInv
    BY DEF AddStep, PageInv, BaseInv
  <2> QED
    BY <2>1, IdleCallsNobody DEF AddStep, collectors, sender, found, run, parse, said
<1>2. StreamInv /\ StartsInv
  BY DEF PageInv, OriginParts, BaseInv
<1>3. StartsInv' /\ SmallInv' /\ ToldInv'
  <2>1. ToldInv /\ UnderWayInv /\ StartsInv /\ SmallInv
    BY DEF PageInv, OriginParts, BaseInv
  <2> QED
    BY <1>1, <1>2, <2>1, StartsInvStays, SmallStays, ToldStays
<1>4. ApartInv'
  <2>1. /\ mPesCallbackMap \cap Tables = {} /\ esPids \in Seq(Pids \ Tables) /\ DOMAIN mOrigins = Pids
    BY DEF ApartInv, PageInv, OriginParts
  <2>2. Range(esPids) \subseteq Pids \ Tables /\ <<>> \in Seq(Pids \ Tables)
    BY <2>1, PidsOfSeq
  <2> QED
    BY <1>1, <2>1, <2>2 DEF ApartInv, Tables
<1>5. ASSUME NEW p \in PesPids PROVE OriginOn(p)'
  <2>1. Passed(p) /\ StartsGrow(p) /\ HeldInv(p) /\ OriginOn(p)
    BY <1>1, <1>2, PageMode, IdlePasses, StartsStay DEF PageInv
  <2> QED
    BY <1>1, <1>2, <2>1, OriginStays DEF PageInv
<1>6. PlacedInv'
  <2>1. \A p \in Pids : StartsGrow(p)
    BY <1>1, <1>2, StartsStay
  <2> QED
    BY <1>1, <2>1, PlacedStays DEF PlacedInv, PageInv, OriginParts
<1> QED
  BY <1>3, <1>4, <1>5, <1>6 DEF OriginParts

LEMMA BeginKeepsOrigins ==
  ASSUME PageInv, BeginStep
  PROVE  OriginParts'
<1>1. BeginWebAssembly
  BY DEF PageInv, BeginStep, BeginUtilities, BeginTsparser
<1>2. /\ kept' = [p \in Pids |-> <<>>] /\ mPesPacket' = [p \in Pids |-> NoPes]
      /\ mPesCallbackMap' = {} /\ esPids' = <<>> /\ mOrigins' = [p \in Pids |-> 0]
      /\ starts' = [p \in Pids |-> <<>>] /\ before' = [p \in Pids |-> CurrentUnit(p)] /\ units' = units
      /\ stage' = "idle" /\ callback' = NoCallback /\ phase' = "read"
  <2>1. stage = "idle" /\ CallbackInv
    BY <1>1 DEF BeginWebAssembly, NewStream, PageInv, BaseInv
  <2> QED
    BY <1>1, <2>1, IdleCallsNobody DEF BeginWebAssembly, NewStream, Forgotten, sender
<1>3. StartsInv'
  <2>1. ASSUME NEW p \in Pids PROVE IsSeq(starts'[p]) /\ Len(starts'[p]) = CurrentUnit(p)' - before'[p]
    <3>1. CurrentUnit(p)' = CurrentUnit(p) /\ CurrentUnit(p) \in Nat
      BY <1>2, UnitsAreSeq DEF CurrentUnit, PageInv, BaseInv, StreamInv
    <3>2. IsSeq(<<>>) /\ Len(<<>>) = 0
      BY DEF IsSeq
    <3> QED
      BY <1>2, <3>1, <3>2
  <2> QED
    BY <1>2, <2>1 DEF StartsInv
<1>4. ToldInv'
  BY <1>2 DEF ToldInv
<1>5. ApartInv'
  <2>1. <<>> \in Seq(Pids \ Tables)
    OBVIOUS
  <2> QED
    BY <1>2, <2>1 DEF ApartInv, NoCallback, Tables
<1>6. SmallInv'
  BY <1>2, SmallStays DEF PageInv, OriginParts
<1>7. ASSUME NEW p \in PesPids PROVE OriginOn(p)'
  <2>1. p \in Pids
    BY CarriedPids
  <2>2. ~Held(p)' /\ ~Pending(p)'
    BY <1>2, <2>1 DEF Held, Pending
  <2> QED
    BY <2>2 DEF OriginOn
<1>8. PlacedInv'
  BY <1>2 DEF PlacedInv
<1> QED
  BY <1>3, <1>4, <1>5, <1>6, <1>7, <1>8 DEF OriginParts

LEMMA FeedKeepsOrigins ==
  ASSUME PageInv, FeedStep
  PROVE  OriginParts'
<1>1. PICK p \in Carrying, first \in Nat \ {0} :
        /\ Sends(p, first) /\ Tells(p, first)
        /\ First' = first /\ current'.pid = p /\ CurrentUnit(p)' = Len(units'[p])
  BY FeedKeepsBase DEF PageInv
<1>2. /\ FeedFrame /\ phase = "located" /\ phase' # "located" /\ stage = "idle" /\ stage' = "ts"
      /\ StreamInv /\ StartsInv /\ SmallInv /\ ToldInv /\ ApartInv /\ PlacedInv /\ CallbackInv
      /\ program = "WebAssembly" /\ p \in Pids /\ callback = NoCallback
  <2>1. stage = "idle" /\ stage' = "ts" /\ p \in Pids /\ CallbackInv
    BY <1>1, CarriedPids DEF Sends, PageInv, BaseInv
  <2>2. FeedFrame /\ phase = "located" /\ phase' = "demuxing"
    BY FeedKeepsBase DEF PageInv, FeedStep
  <2> QED
    BY <2>1, <2>2, IdleCallsNobody DEF PageInv, OriginParts, BaseInv
<1>3. PICK c \in Nat : /\ CurrentUnit(p)' = c /\ c = Len(units'[p]) /\ c \in DOMAIN units'[p]
                       /\ IF first = 1 THEN c = CurrentUnit(p) + 1
                          ELSE c = CurrentUnit(p) /\ c \notin Whole(p)
                       /\ before[p] < c
  <2>1. SenderInv' /\ p \in Pids
    BY <1>1, <1>2 DEF Sends, OnlyGrows
  <2>2. CurrentUnit(p)' \in Nat
    BY <2>1 DEF SenderInv, CurrentUnit
  <2> QED
    BY <1>1, <2>2 DEF Sends
<1>4. /\ UNCHANGED <<before, program, options, mOrigin, mOrigins, kept, callback, mPesCallbackMap, esPids>>
      /\ mOrigin = (demuxed - opened) * TsPacketSize
  BY <1>2 DEF FeedFrame, ToldInv
<1>5. /\ \A q \in Pids : CurrentUnit(q) \in Nat /\ before[q] \in Nat /\ before[q] <= CurrentUnit(q)
      /\ \A q \in Pids : DOMAIN units[q] = 1..CurrentUnit(q)
      /\ \A q \in Pids : DOMAIN starts[q] = 1..(CurrentUnit(q) - before[q])
  BY <1>2, StartsAre
<1>6. /\ DOMAIN starts' = Pids /\ \A q \in Pids \ {p} : starts'[q] = starts[q]
      /\ first = 1 => starts'[p] = Append(starts[p], mOrigin)
      /\ first # 1 => starts'[p] = starts[p]
  <2>1. starts' = IF first = 1 THEN [starts EXCEPT ![p] = Append(@, mOrigin)] ELSE starts
    BY <1>1, <1>2, <1>4 DEF Tells
  <2>2. DOMAIN starts = Pids
    BY <1>2 DEF StartsInv
  <2> QED
    BY <1>2, <2>1, <2>2
<1>7. /\ IsSeq(starts'[p]) /\ Len(starts'[p]) = c - before[p]
      /\ \A i \in DOMAIN starts[p] : starts'[p][i] = starts[p][i]
      /\ first = 1 => starts'[p][c - before[p]] = mOrigin
  <2>1. IsSeq(starts[p]) /\ Len(starts[p]) = CurrentUnit(p) - before[p]
    BY <1>2 DEF StartsInv
  <2>2. CASE first = 1
    <3>1. PICK s : s = starts[p]
      OBVIOUS
    <3>2. PICK n \in Nat : n = CurrentUnit(p) - before[p] /\ n + 1 = c - before[p]
      BY <1>2, <1>3, <1>5, <2>2
    <3>3. Len(s) = n /\ IsSeq(s)
      BY <2>1, <3>1, <3>2
    <3>4. /\ IsSeq(Append(s, mOrigin)) /\ DOMAIN Append(s, mOrigin) = 1..(n + 1)
          /\ Append(s, mOrigin)[n + 1] = mOrigin
          /\ \A i \in DOMAIN s : Append(s, mOrigin)[i] = s[i]
      BY <3>3, AppendIsSeq
    <3>5. Len(Append(s, mOrigin)) = n + 1
      <4>1. PICK t : t = Append(s, mOrigin)
        OBVIOUS
      <4>2. DOMAIN t = 1..Len(t) /\ Len(t) \in Nat
        BY <3>4, <4>1, AppendIsSeq
      <4> QED
        BY <3>4, <4>1, <4>2
    <3> QED
      BY <1>6, <2>2, <3>1, <3>2, <3>4, <3>5
  <2>3. CASE first # 1
    BY <1>3, <1>6, <2>1, <2>3
  <2> QED
    BY <2>2, <2>3
<1>8. ASSUME NEW q \in Pids PROVE StartsGrow(q)
  <2>1. Grows(q)
    BY <1>1, <1>2, SendsGrow
  <2>2. \A i \in DOMAIN starts[q] : starts'[q][i] = starts[q][i]
    BY <1>6, <1>7
  <2> QED
    BY <1>4, <1>5, <2>1, <2>2 DEF StartsGrow
<1>9. StartsInv'
  <2>1. ASSUME NEW q \in Pids, q # p
        PROVE  IsSeq(starts'[q]) /\ Len(starts'[q]) = CurrentUnit(q)' - before'[q]
    <3>1. units'[q] = units[q] /\ starts'[q] = starts[q]
      BY <1>1, <1>6, <2>1 DEF Sends, OnlyGrows
    <3> QED
      BY <1>2, <1>4, <3>1 DEF StartsInv, CurrentUnit
  <2>2. \A q \in Pids : IsSeq(starts'[q]) /\ Len(starts'[q]) = CurrentUnit(q)' - before'[q]
    BY <1>3, <1>4, <1>7, <2>1
  <2> QED
    BY <1>6, <2>2 DEF StartsInv, IsSeq
<1>10. first # 1 => c \in DOMAIN units[p] /\ ~AtNext(p, c)' /\ p \in PesPids
  <2> SUFFICES ASSUME first # 1 PROVE c \in DOMAIN units[p] /\ ~AtNext(p, c)' /\ p \in PesPids
    OBVIOUS
  <2>1. c \in DOMAIN units[p] /\ c \in Int /\ before[p] < c /\ c \notin Whole(p)
    BY <1>2, <1>3, <1>5
  <2>2. ~AtNext(p, c) /\ p \in PesPids
    <3>1. p \in PesPids
      BY <1>1 DEF Sends
    <3> QED
      BY <1>2, <2>1, <3>1 DEF SmallInv
  <2> QED
    BY <1>2, <1>8, <2>1, <2>2, StartStays
<1>11. ToldInv'
  <2>1. StartAt(p, c)' = starts'[p][c - before[p]]
    BY <1>4 DEF StartAt
  <2>2. /\ first = 1 => mOrigin' = StartAt(p, c)'
        /\ first > 1 => ~AtNext(p, c)'
    BY <1>4, <1>7, <1>10, <2>1
  <2> QED
    BY <1>1, <1>2, <1>3, <2>2 DEF ToldInv, StartAt, AtNext, UnitSize
<1>12. ApartInv'
  BY <1>2, <1>4 DEF ApartInv, NoCallback, Tables
<1>13. SmallInv'
  <2> SUFFICES ASSUME NEW q \in PesPids, NEW u \in DOMAIN units'[q], AtNext(q, u)'
               PROVE  u \in Whole(q)'
    BY DEF SmallInv
  <2>0. q \in Pids /\ Grows(q)
    BY <1>8, CarriedPids DEF StartsGrow
  <2>1. CASE u \in DOMAIN units[q]
    <3>1. units'[q][u].head = units[q][u].head
      BY <2>0, <2>1 DEF Grows
    <3>2. u \in Whole(q)
      BY <1>2, <2>1, <3>1 DEF SmallInv, AtNext, UnitSize
    <3>3. units'[q][u] = units[q][u]
      BY <2>0, <2>1, <3>2 DEF Grows
    <3> QED
      BY <3>2, <3>3 DEF Whole, UnitSize
  <2>2. CASE u \notin DOMAIN units[q]
    <3>1. q = p
      BY <1>1, <2>0, <2>2 DEF Sends, OnlyGrows
    <3>2. DOMAIN units'[p] = 1..c
      <4>1. SenderInv'
        BY <1>1 DEF Sends, OnlyGrows
      <4>2. units'[p] \in Seq(UnitRecord)
        BY <1>2, <4>1 DEF SenderInv
      <4> QED
        BY <1>3, <4>2
    <3>3. first = 1 /\ u = c
      BY <1>2, <1>3, <1>5, <2>2, <3>1, <3>2
    <3>4. UnitSize(p, units'[p][c].head) <= MaxPayload
      BY <3>1, <3>3 DEF AtNext, UnitSize
    <3>5. units'[p][c].sent = UnitSize(p, units'[p][c].head)
      BY <1>1, <1>3, <3>1, <3>3, <3>4 DEF Tells
    <3> QED
      BY <3>1, <3>3, <3>5 DEF Whole, UnitSize
  <2> QED
    BY <2>1, <2>2
<1>14. ASSUME NEW q \in PesPids PROVE OriginOn(q)'
  <2>0. q \in Pids /\ HeldInv(q) /\ OriginOn(q)
    BY PageMode
  <2>1. Passed(q)
    BY <1>1, <1>2, <2>0, FeedPasses
  <2>2. StartsGrow(q) /\ mOrigins'[q] = mOrigins[q]
    BY <1>4, <1>8, <2>0
  <2> QED
    BY <1>2, <2>0, <2>1, <2>2, OriginStays
<1>15. PlacedInv'
  BY <1>2, <1>4, <1>8, PlacedStays DEF PlacedInv
<1> QED
  BY <1>9, <1>11, <1>12, <1>13, <1>14, <1>15 DEF OriginParts

-----------------------------------------------------------------------------
(* The stages of demux *)

\* What a stage does to the origins: those of the collectors write that of the
\* PID when a unit begins.
Recorded(p, first) ==
  mOrigins' = IF first = 1 THEN [mOrigins EXCEPT ![p] = mOrigin] ELSE mOrigins
Called(p, first) ==
  callback' # NoCallback =>
    /\ callback'.kind \in {"psi", "pes"} /\ callback'.pid = p
    /\ callback'.kind = "psi" => first = 1 /\ Recorded(p, first)
    /\ callback'.kind = "pes" => p \in mPesCallbackMap

LEMMA StageRecords ==
  ASSUME BaseInv, StageStep, mTsCallbackMap = {},
         NEW p, NEW c, NEW first, NEW last, Flight(p, c, first, last)
  PROVE  /\ \/ mOrigins' = mOrigins
            \/ Recorded(p, first) /\ (p \notin PesPids \/ PesStage)
         /\ PesStage /\ p \in mPesCallbackMap => Recorded(p, first)
         /\ Called(p, first)
<1>1. /\ StageFrame /\ callback = NoCallback
      /\ TsStage \/ PsiStage(TRUE) \/ PesStage \/ EndStage
      /\ Pid = p /\ Info.pid = p /\ Info.isPayloadStart = (first = 1)
      /\ RegisteredInv /\ first \in Nat \ {0} /\ (first > 1 => p \in PesPids)
  <2>1. last \in Nat /\ first \in 1..last
    BY DEF Flight
  <2>2. first \in Nat \ {0}
    BY <2>1
  <2> QED
    BY <2>2, StageKeeps DEF StageStep, BaseInv, Flight, Pid
<1>2. RecordOrigin(Info, mOrigin) => Recorded(p, first)
  BY <1>1 DEF RecordOrigin, Recorded
<1>3. CASE TsStage
  <2>1. mOrigins' = mOrigins /\ callback' = NoCallback /\ stage = "ts"
    BY <1>1, <1>3 DEF TsStage, Proceed, collectors
  <2> QED
    BY <2>1 DEF Called, PesStage
<1>4. CASE PsiStage(TRUE)
  <2>1. stage = "psi"
    BY <1>4 DEF PsiStage
  <2>2. CASE p \notin mPsiCallbackMap
    <3>1. mOrigins' = mOrigins /\ callback' = NoCallback
      BY <1>1, <1>4, <2>2 DEF PsiStage, Proceed, collectors
    <3> QED
      BY <2>1, <3>1 DEF Called, PesStage
  <2>3. CASE p \in mPsiCallbackMap
    <3>1. CollectTable(TRUE) /\ p \notin PesPids
      BY <1>1, <1>4, <2>3 DEF PsiStage, RegisteredInv
    <3>2. Recorded(p, first)
      BY <1>2, <3>1 DEF CollectTable, collectTable
    <3>3. first = 1
      BY <1>1, <3>1
    <3>4. callback' = NoCallback \/ Calls("psi", mSectionBuffer'[Pid])
      <4>1. CASE Call("pes", "psi", mSectionBuffer'[Pid])
        BY <4>1, CallIs
      <4>2. CASE Abort \/ Proceed("pes")
        BY <1>1, <4>2 DEF Abort, Proceed
      <4> QED
        BY <3>1, <4>1, <4>2 DEF CollectTable
    <3>5. Called(p, first)
      BY <1>1, <3>2, <3>3, <3>4 DEF Called, Calls
    <3> QED
      BY <2>1, <3>1, <3>2, <3>5 DEF PesStage
  <2> QED
    BY <2>2, <2>3
<1>5. CASE PesStage
  <2>1. CASE p \notin mPesCallbackMap
    <3>1. mOrigins' = mOrigins /\ callback' = NoCallback
      BY <1>1, <1>5, <2>1 DEF PesStage, Proceed, collectors
    <3> QED
      BY <2>1, <3>1 DEF Called
  <2>2. CASE p \in mPesCallbackMap
    <3>1. CollectPes
      BY <1>1, <1>5, <2>2 DEF PesStage
    <3>2. Recorded(p, first)
      BY <1>2, <3>1 DEF CollectPes, collectPes
    <3>3. callback' = NoCallback \/ Calls("pes", pesOut'.mPesBuffer)
      <4>1. CASE pesOut' # NoPes
        <5>1. Call("end", "pes", pesOut'.mPesBuffer)
          BY <3>1, <4>1 DEF CollectPes
        <5> QED
          BY <5>1, CallIs
      <4>2. CASE pesOut' = NoPes
        BY <1>1, <3>1, <4>2 DEF CollectPes, Proceed
      <4> QED
        BY <4>1, <4>2
    <3>4. Called(p, first)
      BY <1>1, <2>2, <3>3 DEF Called, Calls
    <3> QED
      BY <1>5, <3>2, <3>4
  <2> QED
    BY <2>1, <2>2
<1>6. CASE EndStage
  <2>1. mOrigins' = mOrigins /\ callback' = NoCallback /\ stage = "end"
    BY <1>1, <1>6 DEF EndStage, collectors
  <2> QED
    BY <2>1 DEF Called, PesStage
<1> QED
  BY <1>1, <1>3, <1>4, <1>5, <1>6

\* What collectPes gives out, and the origin it leaves.
LEMMA CollectKeepsOrigin ==
  ASSUME PageInv, StageStep, PesStage, NEW p \in PesPids, NEW c, NEW first, NEW last,
         Flight(p, c, first, last), UNCHANGED <<starts, mOrigin>>
  PROVE  OriginOn(p)'
<1>1. /\ StreamInv /\ StartsInv /\ RegisteredInv /\ HeldInv(p) /\ OriginOn(p) /\ p \in Pids
      /\ DOMAIN mOrigins = Pids /\ ToldInv /\ BaseInv /\ program = "WebAssembly"
  BY PageMode DEF PageInv, OriginParts, BaseInv, ApartInv
<1>2. /\ Pid = p /\ current.pid = p /\ c \in Nat \ {0} /\ CurrentUnit(p) = c /\ c \in DOMAIN units[p]
      /\ before[p] < c /\ last \in Nat /\ first \in Nat \ {0} /\ first <= last /\ First = first
      /\ units[p][c].sent = last /\ last - first + 1 <= MaxPayload
  <2>1. last \in Nat /\ first \in 1..last
    BY DEF Flight
  <2>2. first \in Nat \ {0} /\ first <= last
    BY <2>1
  <2> QED
    BY <2>2 DEF Flight, Carries
<1>3. /\ UNCHANGED <<units, before, program>> /\ stage = "pes" /\ stage' = "end"
      /\ \A q \in Pids : DOMAIN mPesPacket[q] = DOMAIN NoPes
  <2>1. StageFrame
    BY StageKeeps DEF StageStep
  <2>2. DOMAIN mPesPacket = Pids /\ \A q \in Pids : DOMAIN mPesPacket[q] = DOMAIN NoPes
    BY <1>1 DEF RegisteredInv
  <2>3. stage = "pes" /\ stage' = "end"
    BY <1>1, <1>2, <2>2, PesMoves
  <2> QED
    BY <2>1, <2>2, <2>3 DEF StageFrame
<1>4. /\ first = 1 => mOrigin = StartAt(p, c)
      /\ first > 1 => ~AtNext(p, c)
  BY <1>1, <1>2, <1>3 DEF ToldInv
<1>5. /\ first = 1 => SeenUnit(p) = c - 1 /\ SeenCells(p) = units[p][c - 1].sent
      /\ first # 1 => SeenUnit(p) = c /\ SeenCells(p) = first - 1
  BY <1>1, <1>3, SeenBefore
<1>6. /\ CurrentUnit(p)' = c /\ SeenUnit(p)' = c /\ SeenCells(p)' = last
  <2>1. CurrentUnit(p)' = c /\ ~Ahead(p)'
    BY <1>2, <1>3 DEF CurrentUnit, Ahead
  <2>2. SeenUnit(p)' = c
    BY <2>1 DEF SeenUnit
  <2> QED
    BY <1>2, <1>3, <2>1, <2>2 DEF SeenCells
<1>7. \A u : /\ StartAt(p, u)' = StartAt(p, u) /\ (AtNext(p, u)' <=> AtNext(p, u))
             /\ Place(p, u)' = Place(p, u) /\ (IsPlaced(p, u)' <=> IsPlaced(p, u))
  BY <1>2, <1>3, <1>6 DEF StartAt, AtNext, Place, IsPlaced, UnitSize
<1>8. p \in mPesCallbackMap =>
        /\ first = 1 => mOrigins'[p] = StartAt(p, c)
        /\ first # 1 => mOrigins'[p] = mOrigins[p]
  BY <1>1, <1>4, StageRecords, PageMode DEF Recorded
<1>9. Held(p) /\ first # 1 => mOrigins[p] = StartAt(p, c)
  BY <1>1, <1>5 DEF OriginOn
<1>10. UnitSize(p, units[p][c].head) \in Nat
  BY <1>1, <1>2, CarriedPids, UnitSizes DEF StreamInv, StreamOn
<1>11. CollectsNothing(p, first) \/ CollectsMore(p, c, first, last) \/ CollectsAll(p, c, first, last)
  BY <1>1, PesCollects
<1>12. CASE CollectsNothing(p, first)
  <2>1. ~Held(p)' /\ ~Pending(p)'
    BY <1>12 DEF CollectsNothing, Held, Pending
  <2> QED
    BY <2>1 DEF OriginOn
<1>13. CASE CollectsMore(p, c, first, last)
  <2>1. p \in mPesCallbackMap
    BY <1>13 DEF CollectsMore
  <2>2. mOrigins'[p] = StartAt(p, c)
    <3>1. first # 1 => Held(p)
      BY <1>13 DEF CollectsMore
    <3> QED
      BY <1>8, <1>9, <2>1, <3>1
  <2>3. last = UnitSize(p, units[p][c].head) => AtNext(p, c)
    <3>1. CASE first = 1
      <4>1. last <= MaxPayload
        BY <1>2, <3>1, Numbers
      <4> QED
        BY <4>1 DEF AtNext
    <3>2. CASE first # 1
      <4>1. c \notin Whole(p)
        BY <1>13, <3>2 DEF CollectsMore
      <4> QED
        BY <1>2, <4>1 DEF Whole
    <3> QED
      BY <3>1, <3>2
  <2>4. Held(p)' => /\ mOrigins'[p] = StartAt(p, SeenUnit(p))'
                    /\ SeenCells(p)' = UnitSize(p, units[p][SeenUnit(p)].head)' => AtNext(p, SeenUnit(p))'
    <3>1. StartAt(p, SeenUnit(p))' = StartAt(p, c)' /\ (AtNext(p, SeenUnit(p))' <=> AtNext(p, c)')
      BY <1>6 DEF StartAt, AtNext, UnitSize
    <3>2. UnitSize(p, units[p][SeenUnit(p)].head)' = UnitSize(p, units[p][c].head)
      BY <1>3, <1>6 DEF UnitSize
    <3> QED
      BY <1>6, <1>7, <2>2, <2>3, <3>1, <3>2
  <2>5. CASE callback' = NoCallback
    BY <2>4, <2>5 DEF OriginOn, Pending, UnitSize
  <2>6. CASE first = 1 /\ Held(p) /\ Calls("pes", Cells(p, c - 1, 1, units[p][c - 1].sent))
    <3>1. PICK u \in Nat \ {0} : u = c - 1 /\ u < c /\ u + 1 = c
      <4>1. c - 1 \in Nat \ {0}
        BY <1>1, <1>3, <2>6, CollectedIsKeepable
      <4> QED
        BY <1>2, <4>1
    <3>2. Keepable(p, u) /\ units[p][u].sent \in Nat \ {0}
      BY <1>1, <1>3, <2>6, <3>1, CollectedIsKeepable
    <3>3. u \in DOMAIN units[p] /\ before[p] < u /\ u \in Whole(p)
      BY <1>1, <3>2 DEF Keepable
    <3>4. AtNext(p, u)
      <4>1. SeenUnit(p) = u /\ SeenCells(p) = units[p][u].sent
        BY <1>5, <2>6, <3>1
      <4>2. SeenCells(p) = UnitSize(p, units[p][SeenUnit(p)].head) => AtNext(p, SeenUnit(p))
        BY <1>1, <2>6 DEF OriginOn
      <4> QED
        BY <3>3, <4>1, <4>2 DEF Whole
    <3>5. IsPlaced(p, u) /\ Place(p, u) = StartAt(p, c)
      BY <1>2, <3>1, <3>3, <3>4 DEF IsPlaced, Place
    <3>6. PendingUnit' = u
      <4>1. callback'.raw = Cells(p, u, 1, units[p][u].sent)
        BY <2>6, <3>1 DEF Calls
      <4>2. UnitOf(callback'.raw[1]) = u
        BY <1>1, <3>1, <3>2, <4>1, FirstCell
      <4> QED
        BY <4>2 DEF PendingUnit
    <3>7. IsPlaced(p, PendingUnit)' /\ mOrigins'[p] = Place(p, PendingUnit)'
      <4>1. (IsPlaced(p, PendingUnit)' <=> IsPlaced(p, u)') /\ Place(p, PendingUnit)' = Place(p, u)'
        BY <3>6 DEF IsPlaced, Place, StartAt, AtNext, UnitSize
      <4> QED
        BY <1>7, <2>2, <3>5, <4>1
    <3> QED
      BY <2>4, <3>7 DEF OriginOn, UnitSize
  <2> QED
    BY <1>13, <2>5, <2>6 DEF CollectsMore
<1>14. CASE CollectsAll(p, c, first, last)
  <2>1. /\ ~Held(p)' /\ Held(p) /\ first > 1 /\ callback'.raw = Cells(p, c, 1, last)
    BY <1>14 DEF CollectsAll, Held, Calls
  <2>2. p \in mPesCallbackMap
    BY <1>1, <2>1 DEF HeldInv
  <2>3. PendingUnit' = c
    <3>1. UnitOf(callback'.raw[1]) = c
      <4>1. c \in Nat /\ last \in Nat \ {0}
        BY <1>2, <2>1
      <4> QED
        BY <1>1, <2>1, <4>1, FirstCell
    <3> QED
      BY <3>1 DEF PendingUnit
  <2>4. mOrigins'[p] = StartAt(p, c) /\ ~AtNext(p, c)
    BY <1>2, <1>4, <1>8, <1>9, <2>1, <2>2
  <2>5. IsPlaced(p, c) /\ Place(p, c) = StartAt(p, c)
    BY <1>2, <2>4 DEF IsPlaced, Place
  <2>6. (IsPlaced(p, PendingUnit)' <=> IsPlaced(p, c)') /\ Place(p, PendingUnit)' = Place(p, c)'
    BY <2>3 DEF IsPlaced, Place, StartAt, AtNext, UnitSize
  <2> QED
    BY <1>7, <2>1, <2>4, <2>5, <2>6 DEF OriginOn
<1> QED
  BY <1>11, <1>12, <1>13, <1>14

LEMMA StageKeepsOrigins ==
  ASSUME PageInv, StageStep
  PROVE  OriginParts'
<1>1. /\ StageFrame /\ callback = NoCallback /\ stage # "idle"
      /\ stage' = "idle" \/ current' = current
      /\ StreamInv /\ StartsInv /\ SmallInv /\ ToldInv /\ ApartInv /\ PlacedInv /\ UnderWayInv
      /\ program = "WebAssembly" /\ mTsCallbackMap = {} /\ BaseInv
  <2>1. /\ StageFrame /\ callback = NoCallback /\ stage \in {"ts", "psi", "pes", "end"}
        /\ TsStage \/ PsiStage(TRUE) \/ PesStage \/ EndStage
    BY StageKeeps DEF StageStep
  <2>2. mTsCallbackMap = {}
    BY DEF PageInv, BaseInv, RegisteredInv
  <2>3. stage' = "idle" \/ current' = current
    BY <2>1 DEF TsStage, PsiStage, CollectTable, PesStage, CollectPes, EndStage, Proceed, Call, Abort
  <2> QED
    BY <2>1, <2>2, <2>3 DEF PageInv, OriginParts, BaseInv
<1>2. /\ UNCHANGED <<units, before, program, options, kept, starts, phase, demuxed, opened, esPids,
                     mPesCallbackMap, mOrigin>>
  <2>1. mOrigin' = mOrigin
    BY StageKeeps DEF StageStep, TsStage, PsiStage, CollectTable, PesStage, CollectPes, EndStage
  <2> QED
    BY <1>1, <2>1 DEF StageStep, Stage, StageFrame, tables, parse, said
<1>3. PICK q \in Carrying, c \in Nat, first \in Nat, last \in Nat : Flight(q, c, first, last)
  BY <1>1, InFlight
<1>4. /\ Pid = q /\ current.pid = q /\ q \in Pids /\ CurrentUnit(q) = c /\ First = first
  BY <1>3 DEF Flight
<1>5. /\ \/ mOrigins' = mOrigins
         \/ Recorded(q, first) /\ (q \notin PesPids \/ PesStage)
      /\ Called(q, first)
  BY <1>1, <1>3, StageRecords
<1>6. StartsInv' /\ SmallInv' /\ ToldInv'
  BY <1>1, <1>2, StartsInvStays, SmallStays, ToldStays
<1>7. ApartInv'
  <2>1. DOMAIN mOrigins' = Pids /\ mPesCallbackMap \cap Tables = {}
    BY <1>1, <1>5 DEF ApartInv, Recorded
  <2>2. ASSUME callback' # NoCallback, callback'.kind = "pes" PROVE callback'.pid \in PesPids
    <3>1. callback'.pid = q /\ q \in mPesCallbackMap
      BY <1>5, <2>2 DEF Called
    <3>2. q \in Tables \/ q \in PesPids
      BY <1>3 DEF Carrying, Tables
    <3> QED
      BY <2>1, <3>1, <3>2
  <2>3. ASSUME callback' # NoCallback, callback'.kind = "psi"
        PROVE  mOrigins'[q] = StartAt(q, c) /\ callback'.pid = q
    <3>1. callback'.pid = q /\ first = 1 /\ Recorded(q, first)
      BY <1>5, <2>3 DEF Called
    <3>2. mOrigins'[q] = mOrigin
      BY <1>1, <1>4, <3>1 DEF Recorded, ApartInv
    <3>3. mOrigin = StartAt(q, c)
      BY <1>1, <1>4, <3>1 DEF ToldInv
    <3> QED
      BY <3>1, <3>2, <3>3
  <2>4. CurrentUnit(q)' = c /\ StartAt(q, c)' = StartAt(q, c)
    BY <1>2, <1>4 DEF CurrentUnit, StartAt
  <2>5. callback' # NoCallback /\ callback'.kind = "psi" =>
          mOrigins'[callback'.pid] = StartAt(callback.pid, CurrentUnit(callback.pid))'
    BY <2>3, <2>4 DEF StartAt, CurrentUnit
  <2> QED
    BY <1>1, <1>2, <2>1, <2>2, <2>5 DEF ApartInv, Tables
<1>8. ASSUME NEW p \in PesPids PROVE OriginOn(p)'
  <2>0. p \in Pids /\ HeldInv(p) /\ OriginOn(p)
    BY PageMode
  <2>1. CASE PesStage /\ Pid = p
    BY <1>2, <1>3, <1>4, <2>1, CollectKeepsOrigin
  <2>2. CASE ~(PesStage /\ Pid = p)
    <3>1. Passed(p)
      BY <1>1, <2>2, StagePasses
    <3>2. StartsGrow(p)
      BY <1>1, <1>2, <2>0, StartsStay
    <3>3. mOrigins'[p] = mOrigins[p]
      <4>1. mOrigins' = mOrigins \/ q # p
        BY <1>4, <1>5, <2>2
      <4> QED
        BY <1>1, <1>5, <2>0, <4>1 DEF Recorded, ApartInv
    <3> QED
      BY <1>1, <2>0, <3>1, <3>2, <3>3, OriginStays
  <2> QED
    BY <2>1, <2>2
<1>9. PlacedInv'
  <2>1. \A p \in Pids : StartsGrow(p)
    BY <1>1, <1>2, StartsStay
  <2> QED
    BY <1>1, <1>2, <2>1, PlacedStays DEF PlacedInv
<1> QED
  BY <1>6, <1>7, <1>8, <1>9 DEF OriginParts

-----------------------------------------------------------------------------
(* What is kept is where it is said to be *)

\* One more is kept of a PID, and its unit is placed.
LEMMA PlacedGrows ==
  ASSUME RegisteredInv, PlacedInv, NEW p \in Pids, StartsGrow(p), NEW e,
         kept' = [kept EXCEPT ![p] = Append(@, e)],
         NEW u, UnitOf(e.raw[1]) = u, IsPlaced(p, u), e.ofs = Place(p, u)
  PROVE  \A i \in DOMAIN kept'[p] :
           IsPlaced(p, KeptUnit(p, i))' /\ kept'[p][i].ofs = Place(p, KeptUnit(p, i))'
<1>1. IsSeq(kept[p]) /\ kept'[p] = Append(kept[p], e)
  BY DEF RegisteredInv
<1>2. PICK len \in Nat : len = Len(kept[p])
  BY <1>1, AppendIsSeq
<1>3. /\ DOMAIN kept'[p] = 1..(len + 1) /\ DOMAIN kept[p] = 1..len
      /\ kept'[p][len + 1] = e /\ \A i \in DOMAIN kept[p] : kept'[p][i] = kept[p][i]
  BY <1>1, <1>2, AppendIsSeq
<1> SUFFICES ASSUME NEW i \in DOMAIN kept'[p]
             PROVE  IsPlaced(p, KeptUnit(p, i))' /\ kept'[p][i].ofs = Place(p, KeptUnit(p, i))'
  OBVIOUS
<1>4. PICK n : KeptUnit(p, i)' = n
  OBVIOUS
<1>5. IsPlaced(p, n) /\ kept'[p][i].ofs = Place(p, n)
  <2>1. CASE i = len + 1
    <3>1. n = u
      BY <1>3, <1>4, <2>1 DEF KeptUnit
    <3> QED
      BY <1>3, <2>1, <3>1
  <2>2. CASE i # len + 1
    <3>1. i \in DOMAIN kept[p]
      BY <1>2, <1>3, <2>2
    <3>2. kept'[p][i] = kept[p][i] /\ KeptUnit(p, i) = n
      BY <1>3, <1>4, <3>1 DEF KeptUnit
    <3> QED
      BY <3>1, <3>2 DEF PlacedInv
  <2> QED
    BY <2>1, <2>2
<1>6. IsPlaced(p, n)' /\ Place(p, n)' = Place(p, n)
  BY <1>5, PlaceStays
<1>7. IsPlaced(p, KeptUnit(p, i))' /\ Place(p, KeptUnit(p, i))' = Place(p, n)'
  BY <1>4, <1>6 DEF IsPlaced, Place, AtNext, StartAt, UnitSize
<1> QED
  BY <1>5, <1>6, <1>7

\* What a callback leaves alone.
LEMMA ReturnFrame ==
  ASSUME PageInv, PesReturns \/ PatReturns \/ PmtReturns
  PROVE  /\ UNCHANGED <<units, before, starts, program, options, mPesPacket, phase, demuxed, opened,
                        mOrigin, mOrigins, mPesCallbackMap>>
         /\ callback # NoCallback /\ callback' = NoCallback
         /\ stage \in {"psi", "pes", "end"}
         /\ stage' = "idle" \/ (stage' = stage /\ current' = current)
         /\ callback.pid = current.pid /\ callback.pid \in Pids /\ options.mode # "ts"
         /\ callback.kind \in {"psi", "pes"}
<1>1. program = "WebAssembly" /\ BaseInv
  BY DEF PageInv
<1>2. CallbackStep
  BY DEF PesReturns, PatReturns, PmtReturns
<1>3. /\ UNCHANGED <<units, before, starts, program, options, phase, demuxed, opened, mOrigin, mOrigins>>
      /\ callback # NoCallback
  BY <1>2 DEF CallbackStep, collectors, sender, parse, said
<1>4. mPesCallbackMap' = mPesCallbackMap
  BY <1>1 DEF PesReturns, PatReturns, PmtReturns
<1>5. /\ stage \in {"psi", "pes", "end"} /\ callback' = NoCallback /\ mPesPacket' = mPesPacket
      /\ stage' = "idle" \/ (stage' = stage /\ current' = current)
  BY <1>1, ReturnsKeepBase
<1>6. callback.pid = current.pid /\ options.mode # "ts" /\ callback.kind \in {"psi", "pes"}
  BY <1>1, <1>3 DEF BaseInv, CallbackInv, RegisteredInv
<1>7. current.pid \in Pids
  <2>1. stage # "idle"
    BY <1>5
  <2> QED
    BY <1>1, <2>1, CarriedPids DEF BaseInv, UnderWayInv
<1> QED
  BY <1>3, <1>4, <1>5, <1>6, <1>7

\* A PES packet is given to its callback with the origin of its PID.
LEMMA PesReturnIsPlaced ==
  ASSUME PageInv, PesReturns, NEW p, p = callback.pid, kept' # kept
  PROVE  \E e, u : /\ kept' = [kept EXCEPT ![p] = Append(@, e)]
                   /\ UnitOf(e.raw[1]) = u /\ IsPlaced(p, u) /\ e.ofs = Place(p, u)
<1>1. /\ callback # NoCallback /\ callback.kind = "pes" /\ program = "WebAssembly"
      /\ ApartInv /\ BaseInv
  BY DEF PesReturns, CallbackStep, PageInv, OriginParts
<1>2. p \in PesPids /\ Pending(p)
  BY <1>1 DEF ApartInv, Pending
<1>3. PendingInv(p) /\ OriginOn(p) /\ p \in Pids
  BY <1>2, PageMode
<1>4. PICK n : n = PendingUnit
  OBVIOUS
<1>5. /\ Keepable(p, n) /\ callback.raw = Cells(p, n, 1, units[p][n].sent)
      /\ IsPlaced(p, n) /\ mOrigins[p] = Place(p, n)
  BY <1>2, <1>3, <1>4 DEF PendingInv, OriginOn
<1>6. n \in Nat
  <2>1. DOMAIN units[p] = 1..CurrentUnit(p) /\ CurrentUnit(p) \in Nat
    BY <1>1, <1>3, UnitsAreSeq DEF BaseInv, StreamInv
  <2> QED
    BY <1>5, <2>1 DEF Keepable
<1>7. UnitOf(PesForm(callback.raw)[1]) = n
  BY <1>1, <1>2, <1>5, <1>6, FormIsPart
<1>8. PICK e : e = Entry(PesForm(callback.raw), mOrigins[p], <<>>)
  OBVIOUS
<1>9. kept' = [kept EXCEPT ![p] = Append(@, e)]
  BY <1>1, <1>8 DEF PesReturns, OriginOf
<1>10. UnitOf(e.raw[1]) = n /\ e.ofs = Place(p, n)
  BY <1>5, <1>7, <1>8 DEF Entry
<1> QED
  BY <1>5, <1>9, <1>10

\* A table is noted with the origin of its PID too.
LEMMA TableReturnIsPlaced ==
  ASSUME PageInv, PatReturns \/ PmtReturns, NEW p, p = callback.pid
  PROVE  \E e, u : /\ kept' = [kept EXCEPT ![p] = Append(@, e)]
                   /\ UnitOf(e.raw[1]) = u /\ IsPlaced(p, u) /\ e.ofs = Place(p, u)
<1>1. /\ callback # NoCallback /\ callback.kind = "psi" /\ program = "WebAssembly"
      /\ ApartInv /\ BaseInv /\ TableIsKept(p)
  BY DEF PatReturns, PmtReturns, CallbackStep, PageInv, OriginParts
<1>2. /\ p = current.pid /\ p \in Carrying \ PesPids /\ stage = "pes"
      /\ callback.raw[1] = <<p, CurrentUnit(p), 1>>
  BY <1>1, TableIsSent DEF BaseInv, CallbackInv
<1>3. PICK q \in Carrying, c \in Nat, first \in Nat, last \in Nat : Flight(q, c, first, last)
  BY <1>1, <1>2, InFlight DEF BaseInv
<1>4. CurrentUnit(p) = c /\ c \in DOMAIN units[p] /\ before[p] < c
  BY <1>2, <1>3 DEF Flight
<1>5. mOrigins[p] = StartAt(p, c)
  BY <1>1, <1>4 DEF ApartInv
<1>6. IsPlaced(p, c) /\ Place(p, c) = StartAt(p, c)
  BY <1>2, <1>4 DEF IsPlaced, Place, AtNext
<1>7. PICK pids : kept' = [kept EXCEPT ![p] = Append(@, Entry(callback.raw, mOrigins[p], pids))]
  BY <1>1 DEF TableIsKept
<1>8. PICK e : e = Entry(callback.raw, mOrigins[p], pids)
  OBVIOUS
<1>9. UnitOf(e.raw[1]) = c /\ e.ofs = Place(p, c)
  BY <1>2, <1>4, <1>5, <1>6, <1>8 DEF Entry, UnitOf
<1> QED
  BY <1>6, <1>7, <1>8, <1>9

\* The members of two lists, one after the other.
LEMMA RangeOfBoth ==
  ASSUME NEW T, NEW s \in Seq(T), NEW t \in Seq(T)
  PROVE  s \o t \in Seq(T) /\ Range(s \o t) = Range(s) \cup Range(t)
<1>0. PICK r : r = s \o t
  OBVIOUS
<1>1. PICK m \in Nat, n \in Nat : m = Len(s) /\ n = Len(t)
  OBVIOUS
<1>2. /\ r \in Seq(T) /\ DOMAIN s = 1..m /\ DOMAIN t = 1..n /\ DOMAIN r = 1..(m + n)
      /\ \A i \in 1..m : r[i] = s[i]
      /\ \A i \in 1..n : r[m + i] = t[i]
  BY <1>0, <1>1
<1>3. ASSUME NEW x PROVE x \in Range(r) <=> x \in Range(s) \cup Range(t)
  <2>1. ASSUME NEW i \in DOMAIN r, x = r[i] PROVE x \in Range(s) \cup Range(t)
    <3>1. CASE i \in 1..m
      BY <1>2, <2>1, <3>1 DEF Range
    <3>2. CASE i \notin 1..m
      <4>1. i - m \in 1..n /\ i = m + (i - m)
        BY <1>2, <3>2
      <4>2. r[i] = t[i - m]
        BY <1>2, <4>1
      <4> QED
        BY <1>2, <2>1, <4>1, <4>2 DEF Range
    <3> QED
      BY <3>1, <3>2
  <2>2. ASSUME NEW i \in DOMAIN s, x = s[i] PROVE x \in Range(r)
    <3>1. i \in DOMAIN r /\ r[i] = s[i]
      BY <1>2
    <3> QED
      BY <2>2, <3>1 DEF Range
  <2>3. ASSUME NEW i \in DOMAIN t, x = t[i] PROVE x \in Range(r)
    <3>1. m + i \in DOMAIN r /\ r[m + i] = t[i]
      BY <1>2
    <3> QED
      BY <2>3, <3>1 DEF Range
  <2> QED
    BY <2>1, <2>2, <2>3 DEF Range
<1> QED
  BY <1>0, <1>2, <1>3

\* The PIDs that count of a PMT, of its streams and its clock, carry no tables;
\* those of the streams count that the command line names.
LEMMA AddedCarryNoTables ==
  ASSUME program \in {"TsUtilities", "tsparser", "WebAssembly"}, NEW pmt \in Heads, "streams" \in DOMAIN pmt
  PROVE  /\ PmtAdds(pmt) \in Seq(Pids \ Tables)
         /\ \A e \in Range(ElementaryPids(pmt.streams)) :
              (program = "tsparser" => e \in options.write \cup options.print) => e \in Range(PmtAdds(pmt))
<1> DEFINE streams == ElementaryPids(pmt.streams)
           clock == IF pmt.PCR_PID # 0 THEN <<pmt.PCR_PID>> ELSE <<>>
<1>1. /\ pmt.streams \in Seq(Range(pmt.streams))
      /\ \A i \in DOMAIN pmt.streams : pmt.streams[i].elementary_PID \in Pids \ Tables
      /\ pmt.PCR_PID # 0 => pmt.PCR_PID \in Pids \ Tables
  BY ClientHeadsAssumption DEF Tables
<1>2. streams \in Seq(Pids \ Tables)
  <2>1. PICK n \in Nat : n = Len(pmt.streams) /\ DOMAIN pmt.streams = 1..n
    BY <1>1
  <2>2. [i \in 1..n |-> pmt.streams[i].elementary_PID] \in [1..n -> Pids \ Tables]
    BY <1>1, <2>1
  <2> QED
    BY <2>1, <2>2 DEF ElementaryPids
<1>3. clock \in Seq(Pids \ Tables)
  <2>1. pmt.PCR_PID \in Pids \ Tables => <<pmt.PCR_PID>> \in Seq(Pids \ Tables)
    OBVIOUS
  <2>2. <<>> \in Seq(Pids \ Tables)
    OBVIOUS
  <2> QED
    BY <1>1, <2>1, <2>2
<1> HIDE DEF streams, clock
<1>4. streams \o clock \in Seq(Pids \ Tables) /\ Range(streams \o clock) = Range(streams) \cup Range(clock)
  BY <1>2, <1>3, RangeOfBoth
<1> DEFINE S == options.write \cup options.print
<1>5. /\ Picked(streams \o clock, S) \in Seq(Pids \ Tables)
      /\ Range(Picked(streams \o clock, S)) = Range(streams \o clock) \cap S
  BY <1>4, PickedAre
<1>6. PmtAdds(pmt) = CASE program = "TsUtilities" -> streams
                       [] program = "tsparser"    -> Picked(streams \o clock, S)
                       [] program = "WebAssembly" -> streams \o clock
  BY DEF PmtAdds, streams, clock
<1>7. streams = ElementaryPids(pmt.streams)
  BY DEF streams
<1> HIDE DEF S
<1>8. CASE program = "TsUtilities"
  BY <1>2, <1>6, <1>7, <1>8
<1>9. CASE program = "tsparser"
  BY <1>4, <1>5, <1>6, <1>7, <1>9 DEF S
<1>10. CASE program = "WebAssembly"
  BY <1>4, <1>6, <1>7, <1>10
<1> QED
  BY <1>8, <1>9, <1>10

LEMMA ReturnKeepsApart ==
  ASSUME PageInv, PesReturns \/ PatReturns \/ PmtReturns
  PROVE  ApartInv'
<1>1. /\ UNCHANGED <<mPesCallbackMap, mOrigins>> /\ callback' = NoCallback /\ program = "WebAssembly"
      /\ ApartInv /\ BaseInv
  BY ReturnFrame DEF PageInv, OriginParts
<1>2. esPids' \in Seq(Pids \ Tables)
  <2>1. CASE esPids' = esPids
    BY <1>1, <2>1 DEF ApartInv
  <2>2. CASE esPids' # esPids
    <3>1. PmtReturns
      BY <2>2 DEF PesReturns, PatReturns, tables
    <3>2. PICK pmt : pmt = HeadOf(callback.raw)
      OBVIOUS
    <3>3. callback # NoCallback /\ callback.kind = "psi" /\ callback.pid # 0
      BY <3>1 DEF PmtReturns, CallbackStep
    <3>4. callback.pid \in PmtPids /\ pmt \in HeadsOf(callback.pid)
      BY <1>1, <3>2, <3>3, TableIsSent DEF BaseInv, Carrying
    <3>5. pmt \in Heads /\ "streams" \in DOMAIN pmt
      BY <3>4, ClientAssumption DEF HeadsOf
    <3>6. esPids' = esPids \o PmtAdds(pmt)
      BY <2>2, <3>1, <3>2 DEF PmtReturns
    <3>7. PmtAdds(pmt) \in Seq(Pids \ Tables) /\ esPids \in Seq(Pids \ Tables)
      BY <1>1, <3>5, AddedCarryNoTables DEF ApartInv
    <3> QED
      BY <3>6, <3>7
  <2> QED
    BY <2>1, <2>2
<1> QED
  BY <1>1, <1>2 DEF ApartInv, NoCallback, Tables

LEMMA ReturnKeepsOrigins ==
  ASSUME PageInv, PesReturns \/ PatReturns \/ PmtReturns
  PROVE  OriginParts'
<1>1. /\ UNCHANGED <<units, before, starts, program, options, mPesPacket, phase, demuxed, opened,
                     mOrigin, mOrigins>>
      /\ callback # NoCallback /\ callback' = NoCallback
      /\ stage \in {"psi", "pes", "end"}
      /\ stage' = "idle" \/ (stage' = stage /\ current' = current)
      /\ callback.pid \in Pids /\ options.mode # "ts"
  BY ReturnFrame
<1>2. /\ BaseInv /\ StreamInv /\ UnderWayInv /\ StartsInv /\ SmallInv /\ ToldInv /\ PlacedInv
      /\ RegisteredInv /\ program = "WebAssembly"
  BY DEF PageInv, OriginParts, BaseInv
<1>3. \A q \in Pids : StartsGrow(q)
  BY <1>1, <1>2, StartsStay
<1>4. StartsInv' /\ SmallInv' /\ ToldInv'
  <2>1. stage' = "idle" \/ (stage # "idle" /\ current' = current)
    BY <1>1
  <2> QED
    BY <1>1, <1>2, <2>1, StartsInvStays, SmallStays, ToldStays
<1>5. ASSUME NEW p \in PesPids PROVE OriginOn(p)'
  <2>0. p \in Pids /\ HeldInv(p) /\ OriginOn(p)
    BY PageMode
  <2>1. CASE ~Pending(p)
    <3>1. Passed(p)
      BY <1>1, <1>2, <2>1, ReturnPasses
    <3> QED
      BY <1>1, <1>2, <1>3, <2>0, <3>1, OriginStays
  <2>2. CASE Pending(p)
    <3>1. stage = "end" /\ stage' \in {"idle", "end"}
      BY <1>1, <1>2, <2>2 DEF Pending, BaseInv, CallbackInv
    <3>2. ~Ahead(p) /\ ~Ahead(p)'
      BY <3>1 DEF Ahead
    <3>3. SeenUnit(p)' = SeenUnit(p) /\ SeenCells(p)' = SeenCells(p)
      BY <1>1, <3>2, SightStays
    <3>4. ~Pending(p)' /\ (Held(p)' <=> Held(p))
      BY <1>1 DEF Pending, Held
    <3>5. /\ StartAt(p, SeenUnit(p))' = StartAt(p, SeenUnit(p))
          /\ AtNext(p, SeenUnit(p))' <=> AtNext(p, SeenUnit(p))
          /\ UnitSize(p, units[p][SeenUnit(p)].head)' = UnitSize(p, units[p][SeenUnit(p)].head)
      BY <1>1, <3>3 DEF StartAt, AtNext, UnitSize
    <3> QED
      BY <1>1, <2>0, <3>3, <3>4, <3>5 DEF OriginOn
  <2> QED
    BY <2>1, <2>2
<1>6. PlacedInv'
  <2>1. CASE kept' = kept
    BY <1>3, <2>1, PlacedStays, <1>2 DEF PlacedInv
  <2>2. CASE kept' # kept
    <3>1. PICK p \in Pids : p = callback.pid
      BY <1>1
    <3>2. PICK e, u : /\ kept' = [kept EXCEPT ![p] = Append(@, e)]
                      /\ UnitOf(e.raw[1]) = u /\ IsPlaced(p, u) /\ e.ofs = Place(p, u)
      BY <2>2, <3>1, PesReturnIsPlaced, TableReturnIsPlaced
    <3>3. ASSUME NEW q \in Pids
          PROVE  \A i \in DOMAIN kept'[q] :
                   IsPlaced(q, KeptUnit(q, i))' /\ kept'[q][i].ofs = Place(q, KeptUnit(q, i))'
      <4>1. CASE q = p
        BY <1>2, <1>3, <3>2, <4>1, PlacedGrows
      <4>2. CASE q # p
        <5>1. kept'[q] = kept[q]
          BY <3>2, <4>2
        <5> QED
          BY <1>2, <1>3, <5>1, PlacedStays
      <4> QED
        BY <4>1, <4>2
    <3> QED
      BY <3>3 DEF PlacedInv
  <2> QED
    BY <2>1, <2>2
<1> QED
  BY <1>4, <1>5, <1>6, ReturnKeepsApart DEF OriginParts

-----------------------------------------------------------------------------
(* The offsets *)

LEMMA InitHasOrigins == Init => OriginInv
<1> SUFFICES ASSUME Init, program = "WebAssembly" PROVE OriginParts
  BY DEF OriginInv
<1>1. /\ units = [p \in Pids |-> <<>>] /\ before = [p \in Pids |-> 0] /\ starts = [p \in Pids |-> <<>>]
      /\ stage = "idle" /\ phase = "read" /\ kept = [p \in Pids |-> <<>>]
      /\ mPesPacket = [p \in Pids |-> NoPes] /\ mOrigins = [p \in Pids |-> 0]
      /\ callback = NoCallback /\ mPesCallbackMap = {} /\ esPids = <<>>
  BY DEF Init, InitDemuxer, InitSender, InitPes, InitOrigins
<1>2. StartsInv
  <2>1. IsSeq(<<>>) /\ Len(<<>>) = 0
    BY DEF IsSeq
  <2>2. \A p \in Pids : CurrentUnit(p) = 0 /\ before[p] = 0 /\ starts[p] = <<>>
    BY <1>1 DEF CurrentUnit
  <2> QED
    BY <1>1, <2>1, <2>2 DEF StartsInv
<1>3. ToldInv
  BY <1>1 DEF ToldInv
<1>4. ApartInv
  <2>1. <<>> \in Seq(Pids \ Tables)
    OBVIOUS
  <2> QED
    BY <1>1, <2>1 DEF ApartInv
<1>5. ASSUME NEW p \in PesPids
      PROVE  OriginOn(p) /\ \A u \in DOMAIN units[p] : AtNext(p, u) => u \in Whole(p)
  <2>1. p \in Pids
    BY CarriedPids
  <2>2. ~Held(p) /\ ~Pending(p) /\ units[p] = <<>>
    BY <1>1, <2>1 DEF Held, Pending
  <2> QED
    BY <2>2 DEF OriginOn
<1>6. PlacedInv
  BY <1>1 DEF PlacedInv
<1> QED
  BY <1>2, <1>3, <1>4, <1>5, <1>6 DEF OriginParts, SmallInv

LEMMA StutterKeepsOrigins ==
  ASSUME IInv, OriginParts, program = "WebAssembly", UNCHANGED vars
  PROVE  OriginParts'
<1>1. UNCHANGED <<units, before, starts, program, options, phase, demuxed, opened, mOrigin, mOrigins,
                  stage, current, callback, mPesCallbackMap, esPids, mPesPacket, kept>>
  BY DEF vars, demuxer, registrations, collectors, sender, tables, found, run, parse, said
<1>2. StreamInv /\ UnderWayInv /\ StartsInv /\ SmallInv /\ ToldInv /\ ApartInv /\ PlacedInv
  BY DEF IInv, OriginParts
<1>3. StartsInv' /\ SmallInv' /\ ToldInv'
  <2>1. stage' = "idle" \/ (stage # "idle" /\ current' = current)
    BY <1>1
  <2> QED
    BY <1>1, <1>2, <2>1, StartsInvStays, SmallStays, ToldStays
<1>4. \A p : CurrentUnit(p)' = CurrentUnit(p)
  BY <1>1 DEF CurrentUnit
<1>5. ApartInv'
  BY <1>1, <1>2, <1>4 DEF ApartInv, Tables, StartAt
<1>6. \A p, u : /\ StartAt(p, u)' = StartAt(p, u) /\ (AtNext(p, u)' <=> AtNext(p, u))
                /\ Place(p, u)' = Place(p, u) /\ (IsPlaced(p, u)' <=> IsPlaced(p, u))
  BY <1>1, <1>4 DEF StartAt, AtNext, Place, IsPlaced, UnitSize
<1>7. ASSUME NEW p \in PesPids PROVE OriginOn(p)'
  <2>1. (Ahead(p)' <=> Ahead(p)) /\ First' = First
    BY <1>1 DEF Ahead, First
  <2>2. SeenUnit(p)' = SeenUnit(p) /\ SeenCells(p)' = SeenCells(p)
    BY <1>1, <2>1, SightStays
  <2>3. (Held(p)' <=> Held(p)) /\ (Pending(p)' <=> Pending(p)) /\ PendingUnit' = PendingUnit
    BY <1>1 DEF Held, Pending, PendingUnit
  <2>4. /\ StartAt(p, SeenUnit(p))' = StartAt(p, SeenUnit(p))
        /\ AtNext(p, SeenUnit(p))' <=> AtNext(p, SeenUnit(p))
        /\ UnitSize(p, units[p][SeenUnit(p)].head)' = UnitSize(p, units[p][SeenUnit(p)].head)
    BY <1>1, <2>2 DEF StartAt, AtNext, UnitSize
  <2>5. /\ Place(p, PendingUnit)' = Place(p, PendingUnit)
        /\ IsPlaced(p, PendingUnit)' <=> IsPlaced(p, PendingUnit)
    BY <1>1, <1>4, <2>3 DEF StartAt, AtNext, Place, IsPlaced, UnitSize
  <2>6. OriginOn(p)
    BY DEF OriginParts
  <2> QED
    BY <1>1, <2>2, <2>3, <2>4, <2>5, <2>6 DEF OriginOn
<1>8. PlacedInv'
  <2>1. \A p \in Pids : StartsGrow(p)
    BY <1>1, <1>2, StartsStay
  <2> QED
    BY <1>1, <1>2, <2>1, PlacedStays DEF PlacedInv
<1> QED
  BY <1>3, <1>5, <1>7, <1>8 DEF OriginParts

LEMMA StepsKeepOrigins ==
  ASSUME PageInv, Steps
  PROVE  OriginParts'
<1>1. ~TsReturns
  BY DEF TsReturns, PageInv
<1> QED
  BY <1>1, FeedKeepsOrigins, LocateKeepsOrigins, AddKeepsOrigins, BeginKeepsOrigins, StageKeepsOrigins,
     ReturnKeepsOrigins DEF Steps

LEMMA NextKeepsOrigins == IInv /\ OriginInv /\ [Next]_vars => OriginInv'
<1> SUFFICES ASSUME IInv, OriginInv, [Next]_vars, program' = "WebAssembly"
             PROVE  OriginParts'
  BY DEF OriginInv
<1>1. CASE UNCHANGED vars
  <2>1. program = "WebAssembly"
    BY <1>1 DEF vars, run
  <2> QED
    BY <1>1, <2>1, StutterKeepsOrigins DEF OriginInv
<1>2. CASE Next
  <2>1. CallbackKinds
    BY DEF IInv, CallbackInv, CallbackKinds
  <2>2. Steps
    BY <1>2, <2>1, NextIsSteps
  <2>3. program = "WebAssembly"
    BY <2>2 DEF Steps, FeedStep, Feed, LocateStep, AddStep, BeginStep, BeginUtilities, BeginTsparser,
                BeginWebAssembly, NewStream, StageStep, Stage, TsReturns, PesReturns, PatReturns,
                PmtReturns, CallbackStep, run
  <2>4. PageInv
    BY <2>3 DEF PageInv, BaseInv, IInv, OriginInv
  <2> QED
    BY <2>2, <2>4, StepsKeepOrigins
<1> QED
  BY <1>1, <1>2

LEMMA PlacedIsOffset == OriginInv => OffsetsPointAtUnits
<1> SUFFICES ASSUME OriginParts, NEW p \in Pids, NEW i \in DOMAIN kept[p]
             PROVE  kept[p][i].ofs = Place(p, KeptUnit(p, i))
  BY DEF OriginInv, OffsetsPointAtUnits, Place, AtNext, StartAt, KeptUnit
<1> QED
  BY DEF OriginParts, PlacedInv

\* The offset that the entry point writes with a table or a PES packet is where
\* the packet with its start is in the data of the call, and of a PES packet in
\* one packet where the next one starts, whatever the packets and the calls are.
THEOREM OffsetsAlwaysPointAtUnits == Spec => []OffsetsPointAtUnits
<1>1. Init => IInv /\ OriginInv
  BY InitIsOrdered, InitHasOrigins
<1>2. IInv /\ OriginInv /\ [Next]_vars => (IInv /\ OriginInv)'
  BY NextKeeps, NextKeepsOrigins
<1>3. IInv /\ OriginInv => OffsetsPointAtUnits
  BY PlacedIsOffset
<1> QED
  BY <1>1, <1>2, <1>3, PTL DEF Spec

-----------------------------------------------------------------------------
(* What is announced is kept *)

\* A table is in hand from the packet that has it to the return of its callback,
\* and the PATs that have been handled are those before the one in hand.
InHand == stage \in {"ts", "psi"} \/ (callback # NoCallback /\ callback.kind = "psi")
OnTable(q) == InHand /\ current.pid = q
Handled == IF OnTable(0) THEN Len(pats) - 1 ELSE Len(pats)

\* The types of the tables, and that the history has the one under way.
SaidInv ==
  /\ pats \in Seq(HeadsOf(0)) /\ esPids \in Seq(Pids) /\ addedPmts \in BOOLEAN
  /\ DOMAIN pmtsSeen = PmtPids /\ \A q \in PmtPids : pmtsSeen[q] \subseteq HeadsOf(q)
  /\ DOMAIN prevPmts = PmtPids /\ announced \in [PesPids -> Int]
  /\ \A p \in Pids : CurrentUnit(p) <= MaxUnits
  /\ parses = 0 => pats = <<>> /\ \A q \in PmtPids : pmtsSeen[q] = {}
  /\ stage # "idle" =>
       /\ current.pid = 0 => pats # <<>> /\ pats[Len(pats)] = current.head
       /\ current.pid \in PmtPids => current.head \in pmtsSeen[current.pid]

\* The PMT PIDs that are still to be registered; a PAT that is followed has its
\* PIDs registered, but for those.
NotYet == IF addedPmts THEN {} ELSE Range(pmtPids)
PatsInv ==
  /\ parses > 0 => 0 \in mPsiCallbackMap
  /\ Handled = 0 =>
       /\ prevPat = (IF program = "WebAssembly" THEN lastPat ELSE NoPat)
       /\ pmtPids = <<>> /\ ~addedPmts
  /\ Handled > 0 => prevPat = pats[Handled]
  /\ \A i \in 1..Handled : Follows(i) => Listed(pats[i]) \subseteq mPsiCallbackMap \cup NotYet

\* Nothing is still to be registered when the next packet is given to demux, and
\* the loop has not gone on before demux is back.
SettledInv ==
  /\ program = "TsUtilities" \/ phase # "demuxing" \/ InHand => NotYet = {}
  /\ IF program = "TsUtilities" THEN Range(esPids) \subseteq mPesCallbackMap
     ELSE /\ phase # "demuxing" \/ (stage # "idle" /\ current.pid \in PesPids) => esPids = <<>>
          /\ stage # "idle" => phase = "demuxing"

\* The PMT of a PID is one of this parse, and the PIDs that count of it are
\* registered, or will be.
Expected == mPesCallbackMap \cup Range(esPids)
PmtsInv ==
  \A q \in PmtPids : prevPmts[q] # NoPmt =>
    prevPmts[q] \in pmtsSeen[q] /\ Range(PmtAdds(prevPmts[q])) \subseteq Expected

\* So are those that have been announced, once the PMT that does has been handled.
Coming(e) ==
  \/ e \in Expected
  \/ \E q \in PmtPids \cap mPsiCallbackMap :
       /\ OnTable(q) /\ pmtsSeen[q] \subseteq {current.head}
       /\ e \in Range(ElementaryPids(current.head.streams))
AnnouncedInv ==
  \A e \in PesPids :
    /\ before[e] <= announced[e]
    /\ announced[e] # Unknown /\ (program = "tsparser" => e \in options.write \cup options.print) =>
         Coming(e)

TablesInv == SaidInv /\ PatsInv /\ SettledInv /\ PmtsInv /\ AnnouncedInv

\* A PES packet under collection that is whole fits in one packet, and a unit
\* seen since its PID was announced is called back, collected, or kept.
HeldShort(p) == Held(p) /\ SeenCells(p) = UnitSize(p, units[p][SeenUnit(p)].head) => AtNext(p, SeenUnit(p))
IsThere(p, u) == \E i \in DOMAIN kept[p] : kept[p][i].raw = Part(p, u)
ComesOut(p, u) ==
  \/ Pending(p) /\ PendingUnit = u
  \/ Held(p) /\ SeenUnit(p) = u
  \/ IsKept(p, u) => IsThere(p, u)
NoneIsLost(p) == \A u \in DOMAIN units[p] : announced[p] < u /\ u <= SeenUnit(p) => ComesOut(p, u)
DeliveryInv == \A p \in PesPids : HeldShort(p) /\ NoneIsLost(p)

FollowInv == ~exited /\ options.mode # "ts" => TablesInv /\ DeliveryInv

-----------------------------------------------------------------------------
(* The tables *)

\* The PIDs that a PAT lists are among those that are registered for it.
LEMMA ListedAreNew ==
  ASSUME NEW pat \in HeadsOf(0)
  PROVE  /\ pat \in Heads /\ "programs" \in DOMAIN pat /\ pat # NoPat
         /\ NewPmtPids(pat.programs) \in Seq(Pids \ PesPids)
         /\ Listed(pat) \subseteq Range(NewPmtPids(pat.programs)) /\ Listed(pat) \subseteq PmtPids
<1>1. pat \in Heads /\ "programs" \in DOMAIN pat
  BY ClientAssumption DEF HeadsOf
<1> DEFINE G == [type : {"NIT", "PMT"}, pid : Pids \ ({0} \cup PesPids)]
           S == [type : {PMT}, pid : Pids]
<1>2. PICK list : list = pat.programs
  OBVIOUS
<1>3. /\ list \in Seq(G) /\ pat.table_id = PSI_TABLE_ID_PAT
      /\ \A i \in DOMAIN list : list[i].type = "PMT" => list[i].pid \in PmtPids
  BY <1>1, <1>2, ClientHeadsAssumption DEF IsTable
<1>4. pat # NoPat
  <2>1. NoPat.table_id # PSI_TABLE_ID_PAT
    BY DEF NoPat, PSI_TABLE_ID_PAT
  <2> QED
    BY <1>3, <2>1
<1>5. Listed(pat) = {g.pid : g \in {h \in Range(list) : h.type = PMT}}
  BY <1>2 DEF Listed
<1>6. \A g \in Range(list) : g \in G /\ (g.type = PMT => g \in S /\ g.pid \in PmtPids)
  <2> SUFFICES ASSUME NEW i \in DOMAIN list, NEW g, g = list[i]
               PROVE  g \in G /\ (g.type = "PMT" => g \in S /\ g.pid \in PmtPids)
    BY DEF Range, PMT
  <2>1. g \in G /\ (g.type = "PMT" => g.pid \in PmtPids)
    <3> HIDE DEF G
    <3> QED
      BY <1>3
  <2>2. g.type = "PMT" => g = [type |-> "PMT", pid |-> g.pid] /\ g.pid \in Pids
    BY <2>1
  <2>3. \A x \in Pids : [type |-> "PMT", pid |-> x] \in S
    BY DEF PMT
  <2> QED
    BY <2>1, <2>2, <2>3
<1>7. PICK counted : counted = IF Len(list) = 1 THEN list ELSE Picked(list, S)
  OBVIOUS
<1> HIDE DEF G, S
<1>8. counted \in Seq(G) /\ \A g \in Range(list) : g.type = PMT => g \in Range(counted)
  BY <1>3, <1>6, <1>7, PickedAre
<1>9. NewPmtPids(list) = [i \in DOMAIN counted |-> counted[i].pid]
  BY <1>7 DEF NewPmtPids, S
<1>10. \A g \in Range(counted) : g.pid \in Range(NewPmtPids(list))
  BY <1>9 DEF Range
<1>11. NewPmtPids(list) \in Seq(Pids \ PesPids)
  BY <1>3, NewPidsAre DEF G
<1> QED
  BY <1>1, <1>2, <1>4, <1>5, <1>6, <1>8, <1>10, <1>11

\* So are those that a PMT lists.
LEMMA PmtHeads ==
  ASSUME NEW q \in PmtPids, NEW pmt \in HeadsOf(q), program \in {"TsUtilities", "tsparser", "WebAssembly"}
  PROVE  /\ pmt \in Heads /\ "streams" \in DOMAIN pmt /\ pmt # NoPmt /\ q # 0 /\ q \in Pids
         /\ PmtAdds(pmt) \in Seq(Pids)
         /\ \A e \in Range(ElementaryPids(pmt.streams)) :
              (program = "tsparser" => e \in options.write \cup options.print) => e \in Range(PmtAdds(pmt))
<1>1. pmt \in Heads /\ "streams" \in DOMAIN pmt /\ q # 0 /\ q \in Pids
  BY ClientAssumption DEF HeadsOf
<1>2. pmt # NoPmt
  <2>1. pmt.table_id = PSI_TABLE_ID_PMT
    BY <1>1, ClientHeadsAssumption DEF IsTable
  <2>2. NoPmt.table_id # PSI_TABLE_ID_PMT
    BY DEF NoPmt, PSI_TABLE_ID_PMT
  <2> QED
    BY <2>1, <2>2
<1>3. PmtAdds(pmt) \in Seq(Pids \ Tables)
  BY <1>1, AddedCarryNoTables
<1>4. PmtAdds(pmt) \in Seq(Pids)
  BY <1>3
<1> QED
  BY <1>1, <1>2, <1>4, AddedCarryNoTables

\* A step that does nothing about the tables, and ends the handling of no table
\* that has a callback.
TablesFrame ==
  UNCHANGED <<prevPat, pmtPids, prevPmts, esPids, addedPmts, mPsiCallbackMap, mPesCallbackMap,
              pats, lastPat, pmtsSeen, announced, before, units, program, options, parses>>
GoesOn ==
  /\ phase' # "demuxing" => phase # "demuxing"
  /\ stage' # "idle" => stage # "idle" /\ phase' = phase /\ current' = current
  /\ InHand' => InHand /\ current' = current
  /\ \A q \in {0} \cup (PmtPids \cap mPsiCallbackMap) : OnTable(q) => OnTable(q)'

LEMMA TablesRest ==
  ASSUME TablesInv, TablesFrame, GoesOn
  PROVE  TablesInv'
<1>1. \A q \in {0} \cup (PmtPids \cap mPsiCallbackMap) : OnTable(q)' <=> OnTable(q)
  BY DEF GoesOn, OnTable
<1>2. Handled' = Handled
  BY <1>1 DEF Handled, TablesFrame
<1>3. SaidInv'
  BY DEF TablesInv, SaidInv, TablesFrame, GoesOn, CurrentUnit
<1>4. PatsInv'
  <2>1. \A i : Follows(i)' <=> Follows(i)
    BY DEF Follows, TablesFrame
  <2>2. NotYet' = NotYet
    BY DEF NotYet, TablesFrame
  <2> HIDE DEF Handled, Follows, NotYet
  <2> QED
    BY <1>2, <2>1, <2>2 DEF TablesInv, PatsInv, TablesFrame
<1>5. SettledInv'
  <2>1. NotYet' = NotYet
    BY DEF NotYet, TablesFrame
  <2> QED
    BY <2>1 DEF TablesInv, SettledInv, TablesFrame, GoesOn
<1>6. PmtsInv'
  <2>1. \A pmt : PmtAdds(pmt)' = PmtAdds(pmt)
    BY DEF PmtAdds, TablesFrame
  <2> QED
    BY <2>1 DEF TablesInv, PmtsInv, TablesFrame, Expected
<1>7. AnnouncedInv'
  <2>1. ASSUME NEW e, Coming(e) PROVE Coming(e)'
    <3>1. CASE e \in Expected
      BY <3>1 DEF Expected, Coming, TablesFrame
    <3>2. ASSUME NEW q \in PmtPids \cap mPsiCallbackMap, OnTable(q), pmtsSeen[q] \subseteq {current.head},
                 e \in Range(ElementaryPids(current.head.streams))
          PROVE  Coming(e)'
      <4>1. OnTable(q)' /\ current' = current
        BY <1>1, <3>2 DEF GoesOn, OnTable
      <4> QED
        BY <3>2, <4>1 DEF Coming, TablesFrame
    <3> QED
      BY <2>1, <3>1, <3>2 DEF Coming
  <2> QED
    BY <2>1 DEF TablesInv, AnnouncedInv, TablesFrame
<1> QED
  BY <1>3, <1>4, <1>5, <1>6, <1>7 DEF TablesInv

\* The maps of collectTable have all PIDs.
SectionsInv ==
  DOMAIN mReadSectionLength = Pids /\ DOMAIN mSectionLength = Pids /\ DOMAIN mTableId = Pids

LEMMA SectionsStay ==
  ASSUME SectionsInv, Steps
  PROVE  SectionsInv'
<1>1. CASE UNCHANGED sections
  BY <1>1 DEF SectionsInv, sections
<1>2. CASE ~UNCHANGED sections
  <2>1. ~FeedStep
    BY <1>2 DEF FeedStep, Feed, FeedStart, FeedMore, demux, collectors
  <2>2. ~LocateStep /\ ~AddStep /\ ~BeginUtilities /\ ~BeginTsparser
    BY <1>2 DEF LocateStep, AddStep, BeginUtilities, BeginTsparser, collectors
  <2>3. ~TsReturns /\ ~PesReturns /\ ~PatReturns /\ ~PmtReturns
    BY <1>2 DEF TsReturns, PesReturns, PatReturns, PmtReturns, CallbackStep, collectors
  <2>4. CASE BeginWebAssembly
    BY <2>4 DEF BeginWebAssembly, SectionsInv
  <2>5. CASE StageStep
    <3>1. collectTable(current, Info, mOrigin)
      BY <1>2, <2>5 DEF StageStep, Stage, TsStage, PsiStage, CollectTable, PesStage, CollectPes, EndStage,
                        collectors
    <3> QED
      BY <3>1 DEF collectTable, StartTable, SplitHeader, AppendTable, SectionsInv
  <2> QED
    BY <2>1, <2>2, <2>3, <2>4, <2>5 DEF Steps, BeginStep
<1> QED
  BY <1>1, <1>2

\* What a table is, as collectTable reads it.
LEMMA TableHeads ==
  ASSUME NEW p \in {0} \cup PmtPids, NEW head \in HeadsOf(p)
  PROVE  /\ head.table_id = IF p = 0 THEN PSI_TABLE_ID_PAT ELSE PSI_TABLE_ID_PMT
         /\ UnitSize(p, head) = WholeSection(head) /\ p \notin PesPids /\ p \in Carrying
<1>1. p \notin PesPids /\ p \in Carrying
  BY CarriedPids DEF Carrying
<1>2. UnitSize(p, head) = WholeSection(head)
  BY <1>1 DEF UnitSize, WholeSection
<1>3. CASE p = 0
  <2>1. head \in Heads /\ "programs" \in DOMAIN head
    BY <1>3, ListedAreNew
  <2> QED
    BY <1>1, <1>2, <1>3, <2>1, ClientHeadsAssumption DEF IsTable
<1>4. CASE p # 0
  <2>1. head \in Heads /\ "streams" \in DOMAIN head
    BY <1>4, ClientAssumption DEF HeadsOf
  <2> QED
    BY <1>1, <1>2, <1>4, <2>1, ClientHeadsAssumption DEF IsTable
<1> QED
  BY <1>3, <1>4

\* A table that has a callback is called back.
LEMMA TableIsCalled ==
  ASSUME StreamInv, UnderWayInv, RegisteredInv, SectionsInv, PsiStage(TRUE), Pid \in mPsiCallbackMap
  PROVE  /\ stage = "psi" /\ stage' = "pes" /\ current' = current /\ Calls("psi", mSectionBuffer'[Pid])
         /\ Pid = current.pid
<1>1. stage = "psi" /\ CollectTable(TRUE)
  BY DEF PsiStage
<1>2. PICK p \in Carrying, c \in Nat, first \in Nat, last \in Nat : Flight(p, c, first, last)
  BY <1>1, InFlight
<1>3. p = Pid /\ p = current.pid /\ p \in {0} \cup PmtPids /\ p \notin PesPids
  BY <1>2 DEF Flight, Carrying, RegisteredInv
<1>4. PICK head : head = units[p][c].head
  OBVIOUS
<1>5. /\ Info.pid = p /\ Info.isPayloadStart /\ p \in Pids /\ current.head = head /\ head \in HeadsOf(p)
      /\ last \in Nat \ {0} /\ last < TsPacketSize
      /\ TableBytes(current, Info) = SubSeq(current.bytes, TsPacketSize - last + 1, TsPacketSize)
  BY <1>2, <1>3, <1>4, TableInPacket DEF Pid
<1>6. Len(TableBytes(current, Info)) = last
  <2>1. PICK bytes : bytes = current.bytes
    OBVIOUS
  <2>2. TsPacketSize - last + 1 \in Nat \ {0} /\ TsPacketSize \in Nat
    BY <1>5, Numbers
  <2>3. PICK n \in Nat \ {0} : n = TsPacketSize - last + 1
    BY <2>2
  <2>4. Len(SubSeq(bytes, n, TsPacketSize)) = TsPacketSize - n + 1
    BY <1>5, <2>2, <2>3
  <2> QED
    BY <1>5, <2>1, <2>2, <2>3, <2>4
<1>7. last = UnitSize(p, head) /\ last >= SectionHeaderSize
  <2>1. c \in DOMAIN units[p] /\ units[p][c].sent = last
    BY <1>2 DEF Flight
  <2>2. c \in Whole(p)
    BY <1>3, <1>5, <2>1 DEF StreamInv, StreamOn
  <2>3. last = UnitSize(p, head)
    BY <1>4, <2>1, <2>2 DEF Whole
  <2> QED
    BY <1>2, <1>3, <1>5, <2>3, UnitSizes, Numbers
<1>8. StartTable(current, Info)
  <2>1. ~SplitHeader(current, Info)
    BY <1>5, <1>6, <1>7, Numbers DEF SplitHeader
  <2>2. ~AppendTable(current, Info)
    BY <1>5 DEF AppendTable
  <2> QED
    BY <1>1, <2>1, <2>2 DEF CollectTable, collectTable
<1>9. psiOut' = head.table_id
  <2>1. mReadSectionLength'[p] = last
    <3>1. mReadSectionLength'[p] = 0 + last
      BY <1>5, <1>6, <1>8 DEF StartTable, SectionsInv, CountBytes
    <3> QED
      BY <1>5, <3>1
  <2>2. mSectionLength'[p] = WholeSection(head) /\ mTableId'[p] = head.table_id /\ psiOut' = CollectedId(p)
    BY <1>5, <1>8 DEF StartTable, SectionsInv, NewTableId
  <2>3. WholeSection(head) = last
    BY <1>3, <1>5, <1>7, TableHeads
  <2>4. ~StillShort(mSectionLength'[p], mReadSectionLength'[p])
    BY <1>5, <2>1, <2>2, <2>3 DEF StillShort
  <2> QED
    BY <2>2, <2>4 DEF CollectedId
<1>10. CallsBack(Pid, psiOut') /\ psiOut' # Throws
  BY <1>3, <1>5, <1>9, TableHeads DEF CallsBack, PSI_TABLE_ID_PAT, PSI_TABLE_ID_PMT, Throws
<1>11. Call("pes", "psi", mSectionBuffer'[Pid])
  BY <1>1, <1>10 DEF CollectTable
<1> QED
  BY <1>1, <1>3, <1>11, CallIs

\* What stands between two packets.
LEMMA IdleTables ==
  ASSUME TablesInv, callback = NoCallback, stage = "idle"
  PROVE  ~InHand /\ (\A q : ~OnTable(q)) /\ Handled = Len(pats) /\ \A e : Coming(e) => e \in Expected
<1>1. ~InHand
  BY DEF InHand
<1>2. \A q : ~OnTable(q)
  BY <1>1 DEF OnTable
<1> QED
  BY <1>1, <1>2 DEF Handled, Coming

LEMMA LocateKeepsTables ==
  ASSUME TablesInv, BaseInv, LocateStep
  PROVE  TablesInv'
<1>1. /\ stage = "idle" /\ stage' = "idle" /\ phase = "read" /\ phase' = "located"
      /\ callback = NoCallback /\ callback' = NoCallback
  BY IdleCallsNobody DEF LocateStep, BaseInv
<1>2. TablesFrame
  BY DEF LocateStep, TablesFrame, registrations, tables, said, parse, run, sender
<1>3. GoesOn
  BY <1>1 DEF GoesOn, InHand, OnTable
<1> QED
  BY <1>2, <1>3, TablesRest

LEMMA StageKeepsTables ==
  ASSUME TablesInv, BaseInv, SectionsInv, StageStep, options.mode # "ts"
  PROVE  TablesInv'
<1>1. /\ StageFrame /\ callback = NoCallback /\ stage \in {"ts", "psi", "pes", "end"}
      /\ TsStage \/ PsiStage(TRUE) \/ PesStage \/ EndStage
      /\ StreamInv /\ UnderWayInv /\ RegisteredInv /\ stage # "idle" /\ parses > 0
      /\ phase' = phase
  BY StageKeeps DEF StageStep, BaseInv, UnderWayInv, Stage
<1>2. TablesFrame
  BY <1>1 DEF StageStep, Stage, StageFrame, TablesFrame, tables, said, parse, run, sender
<1>3. PICK p \in Carrying, c \in Nat, first \in Nat, last \in Nat : Flight(p, c, first, last)
  BY <1>1, InFlight
<1>4. Pid = p /\ current.pid = p /\ p \in Pids
  BY <1>3 DEF Flight
<1>5. GoesOn
  <2>1. CASE TsStage
    <3>1. stage = "ts" /\ stage' = "psi" /\ current' = current
      BY <2>1, TsMoves
    <3> QED
      BY <1>1, <3>1 DEF GoesOn, InHand, OnTable
  <2>2. CASE PsiStage(TRUE) /\ Pid \in mPsiCallbackMap
    <3>1. /\ stage = "psi" /\ stage' = "pes" /\ current' = current
          /\ callback' # NoCallback /\ callback'.kind = "psi"
      BY <1>1, <2>2, TableIsCalled DEF Calls
    <3> QED
      BY <1>1, <3>1 DEF GoesOn, InHand, OnTable
  <2>3. CASE PsiStage(TRUE) /\ Pid \notin mPsiCallbackMap
    <3>1. stage = "psi" /\ stage' = "pes" /\ current' = current /\ callback' = NoCallback
      BY <1>1, <2>3 DEF PsiStage, Proceed
    <3>2. 0 \in mPsiCallbackMap
      BY <1>1 DEF TablesInv, PatsInv
    <3>3. \A q \in {0} \cup (PmtPids \cap mPsiCallbackMap) : ~OnTable(q)
      BY <1>4, <2>3, <3>2 DEF OnTable
    <3> QED
      BY <1>1, <3>1, <3>3 DEF GoesOn, InHand
  <2>4. CASE PesStage
    <3>1. stage = "pes" /\ stage' = "end" /\ current' = current
          /\ (callback' = NoCallback \/ callback'.kind = "pes")
      BY <1>1, <1>4, <2>4, PesMoves DEF RegisteredInv, Calls
    <3> QED
      BY <1>1, <3>1 DEF GoesOn, InHand, OnTable
  <2>5. CASE EndStage
    <3>1. stage = "end" /\ stage' = "idle" /\ callback' = NoCallback
      BY <1>1, <2>5 DEF EndStage
    <3> QED
      BY <1>1, <3>1 DEF GoesOn, InHand, OnTable
  <2> QED
    BY <1>1, <2>1, <2>2, <2>3, <2>4, <2>5
<1> QED
  BY <1>2, <1>5, TablesRest

\* A callback that has no table.
LEMMA OtherReturnKeepsTables ==
  ASSUME TablesInv, BaseInv, TsReturns \/ PesReturns
  PROVE  TablesInv'
<1>1. /\ CallbackStep /\ callback # NoCallback /\ callback' = NoCallback
      /\ stage' = "idle" \/ (stage' = stage /\ current' = current)
      /\ phase' = phase
  BY ReturnsKeepBase DEF TsReturns, PesReturns, CallbackStep
<1>2. TablesFrame
  BY <1>1 DEF TsReturns, PesReturns, CallbackStep, TablesFrame, tables, said, parse, sender
<1>3. GoesOn
  <2>1. CASE TsReturns
    <3>1. stage = "psi" /\ stage' = stage /\ current' = current
      BY <1>1, <2>1 DEF TsReturns, BaseInv, CallbackInv
    <3> QED
      BY <1>1, <3>1 DEF GoesOn, InHand, OnTable
  <2>2. CASE PesReturns
    <3>1. stage = "end" /\ ~InHand
      BY <1>1, <2>2 DEF PesReturns, BaseInv, CallbackInv, InHand
    <3>2. ~InHand'
      BY <1>1, <3>1 DEF InHand
    <3> QED
      BY <1>1, <3>1, <3>2 DEF GoesOn, OnTable
  <2> QED
    BY <2>1, <2>2
<1> QED
  BY <1>2, <1>3, TablesRest

LEMMA AddKeepsTables ==
  ASSUME TablesInv, BaseInv, AddStep
  PROVE  TablesInv'
<1>1. /\ program # "TsUtilities" /\ phase = "demuxing" /\ phase' = "read"
      /\ stage = "idle" /\ stage' = "idle" /\ callback = NoCallback /\ callback' = NoCallback
      /\ IF ~addedPmts /\ pmtPids # <<>>
         THEN mPsiCallbackMap' = mPsiCallbackMap \cup Range(pmtPids) /\ addedPmts' = TRUE
         ELSE UNCHANGED <<mPsiCallbackMap, addedPmts>>
      /\ mPesCallbackMap' = mPesCallbackMap \cup Range(esPids) /\ esPids' = <<>>
      /\ UNCHANGED <<prevPat, pmtPids, prevPmts, units, program, options, parses, before, lastPat,
                     pats, pmtsSeen, announced>>
  BY IdleCallsNobody DEF AddStep, BaseInv, sender, run, parse, said
<1>2. Handled = Len(pats) /\ \A e : Coming(e) => e \in Expected
  BY <1>1, IdleTables
<1>3. ~InHand' /\ Handled' = Len(pats)
  BY <1>1 DEF InHand, Handled, OnTable
<1>4. Range(<<>>) = {}
  BY DEF Range
<1>5. Expected' = Expected
  BY <1>1, <1>4 DEF Expected
<1>6. SaidInv'
  <2>1. \A p : CurrentUnit(p)' = CurrentUnit(p)
    BY <1>1 DEF CurrentUnit
  <2>2. <<>> \in Seq(Pids)
    OBVIOUS
  <2>3. addedPmts' \in BOOLEAN
    <3>1. addedPmts \in BOOLEAN
      BY DEF TablesInv, SaidInv
    <3>2. addedPmts' = TRUE \/ addedPmts' = addedPmts
      BY <1>1
    <3> QED
      BY <3>1, <3>2
  <2> QED
    BY <1>1, <2>1, <2>2, <2>3 DEF TablesInv, SaidInv
<1>7. NotYet' = {} /\ mPsiCallbackMap' = mPsiCallbackMap \cup NotYet
  <2>1. CASE ~addedPmts /\ pmtPids # <<>>
    BY <1>1, <2>1 DEF NotYet
  <2>2. CASE ~addedPmts /\ pmtPids = <<>>
    BY <1>1, <1>4, <2>2 DEF NotYet
  <2>3. CASE addedPmts
    BY <1>1, <2>3 DEF NotYet
  <2> QED
    BY <2>1, <2>2, <2>3
<1>8. PatsInv'
  <2>1. \A i : Follows(i)' <=> Follows(i)
    BY <1>1 DEF Follows
  <2>2. Handled = 0 => pmtPids = <<>> /\ ~addedPmts /\ ~addedPmts'
    BY <1>1 DEF TablesInv, PatsInv
  <2> HIDE DEF Handled, Follows, NotYet
  <2>3. Handled' = Handled
    BY <1>2, <1>3
  <2> QED
    BY <1>1, <1>7, <2>1, <2>2, <2>3 DEF TablesInv, PatsInv
<1>9. SettledInv'
  BY <1>1, <1>7 DEF SettledInv
<1>10. PmtsInv'
  <2>1. \A pmt : PmtAdds(pmt)' = PmtAdds(pmt)
    BY <1>1 DEF PmtAdds
  <2> HIDE DEF Expected
  <2> QED
    BY <1>1, <1>5, <2>1 DEF TablesInv, PmtsInv
<1>11. AnnouncedInv'
  <2>1. \A e : Coming(e) => Coming(e)'
    <3> HIDE DEF Expected
    <3> QED
      BY <1>2, <1>5 DEF Coming
  <2> HIDE DEF Coming
  <2> QED
    BY <1>1, <2>1 DEF TablesInv, AnnouncedInv
<1> QED
  BY <1>6, <1>8, <1>9, <1>10, <1>11 DEF TablesInv

LEMMA BeginKeepsTables ==
  ASSUME TablesInv, BaseInv, BeginStep
  PROVE  TablesInv'
<1>1. /\ NewStream /\ stage = "idle" /\ stage' = "idle" /\ phase = "read" /\ phase' = "read"
      /\ callback = NoCallback /\ callback' = NoCallback
      /\ UNCHANGED <<program, units>> /\ parses \in Nat /\ parses' = parses + 1
      /\ before' = [p \in Pids |-> CurrentUnit(p)] /\ pats' = <<>>
      /\ lastPat' = (IF pats = <<>> THEN lastPat ELSE Last(pats))
      /\ pmtsSeen' = [q \in PmtPids |-> {}] /\ announced' = [e \in PesPids |-> Unknown]
      /\ program \in {"TsUtilities", "tsparser", "WebAssembly"}
  BY IdleCallsNobody DEF BeginStep, BeginUtilities, BeginTsparser, BeginWebAssembly, NewStream, BaseInv,
                         run, sender, RegisteredInv
<1>2. Handled = Len(pats) /\ pats \in Seq(HeadsOf(0)) /\ \A p \in Pids : CurrentUnit(p) <= MaxUnits
  BY <1>1, IdleTables DEF TablesInv, SaidInv
<1>3. ~InHand' /\ (\A q : ~OnTable(q)') /\ Handled' = 0
  BY <1>1 DEF InHand, Handled, OnTable
<1>4. /\ prevPat' = (IF program = "WebAssembly" THEN lastPat' ELSE NoPat)
      /\ pmtPids' = <<>> /\ ~addedPmts' /\ addedPmts' \in BOOLEAN /\ 0 \in mPsiCallbackMap'
      /\ esPids' = <<>> /\ DOMAIN prevPmts' = PmtPids /\ \A q \in PmtPids : prevPmts'[q] = NoPmt
  <2>1. CASE BeginUtilities
    BY <2>1 DEF BeginUtilities, Forgotten, NoPmts
  <2>2. CASE BeginTsparser
    <3>1. /\ parses = 0 /\ program = "tsparser" /\ UNCHANGED <<prevPat, pmtPids, prevPmts, esPids, addedPmts>>
          /\ 0 \in mPsiCallbackMap'
      BY <2>2 DEF BeginTsparser, tables
    <3>2. pats = <<>> /\ Handled = 0 /\ \A q \in PmtPids : pmtsSeen[q] = {}
      BY <1>2, <3>1 DEF TablesInv, SaidInv
    <3>3. prevPat = NoPat /\ pmtPids = <<>> /\ ~addedPmts /\ addedPmts \in BOOLEAN
      BY <3>1, <3>2 DEF TablesInv, PatsInv, SaidInv
    <3>4. esPids = <<>>
      BY <1>1, <3>1 DEF TablesInv, SettledInv
    <3>5. DOMAIN prevPmts = PmtPids /\ \A q \in PmtPids : prevPmts[q] = NoPmt
      BY <3>2 DEF TablesInv, PmtsInv, SaidInv
    <3> QED
      BY <3>1, <3>3, <3>4, <3>5
  <2>3. CASE BeginWebAssembly
    <3>1. prevPat' = prevPat /\ program = "WebAssembly"
      BY <2>3 DEF BeginWebAssembly
    <3>2. CASE pats = <<>>
      <4>1. prevPat = lastPat
        BY <1>2, <3>1, <3>2 DEF TablesInv, PatsInv
      <4> QED
        BY <1>1, <2>3, <3>1, <3>2, <4>1 DEF BeginWebAssembly, Forgotten, NoPmts
    <3>3. CASE pats # <<>>
      <4>1. Len(pats) > 0 /\ Last(pats) = pats[Len(pats)]
        BY <1>2, <3>3 DEF Last
      <4>2. prevPat = Last(pats)
        BY <1>2, <4>1 DEF TablesInv, PatsInv
      <4> QED
        BY <1>1, <2>3, <3>1, <3>3, <4>2 DEF BeginWebAssembly, Forgotten, NoPmts
    <3> QED
      BY <3>2, <3>3
  <2> QED
    BY <2>1, <2>2, <2>3 DEF BeginStep
<1>5. Unknown \in Int /\ \A p \in Pids : CurrentUnit(p) <= Unknown
  <2>1. MaxUnits \in Nat /\ \A p \in Pids : CurrentUnit(p) \in Nat
    BY SenderAssumption, UnitsAreSeq DEF BaseInv, StreamInv
  <2> QED
    BY <1>2, <2>1 DEF Unknown
<1>6. SaidInv'
  <2>1. \A p : CurrentUnit(p)' = CurrentUnit(p)
    BY <1>1 DEF CurrentUnit
  <2>2. <<>> \in Seq(Pids) /\ <<>> \in Seq(HeadsOf(0))
    OBVIOUS
  <2>3. announced' \in [PesPids -> Int]
    BY <1>1, <1>5
  <2> QED
    BY <1>1, <1>2, <1>4, <2>1, <2>2, <2>3 DEF SaidInv
<1>7. NotYet' = {}
  BY <1>4 DEF NotYet, Range
<1>8. PatsInv'
  <2> HIDE DEF Handled
  <2> QED
    BY <1>1, <1>3, <1>4 DEF PatsInv
<1>9. SettledInv'
  BY <1>1, <1>4, <1>7 DEF SettledInv, Range
<1>10. PmtsInv'
  BY <1>4 DEF PmtsInv
<1>11. AnnouncedInv'
  <2>1. \A e \in PesPids : announced'[e] = Unknown /\ before'[e] <= Unknown
    BY <1>1, <1>5, CarriedPids
  <2> QED
    BY <2>1 DEF AnnouncedInv, Unknown
<1> QED
  BY <1>6, <1>8, <1>9, <1>10, <1>11 DEF TablesInv

\* The callback of a table has the table in hand.
LEMMA TableReturn ==
  ASSUME TablesInv, BaseInv, PatReturns \/ PmtReturns
  PROVE  /\ callback # NoCallback /\ callback' = NoCallback /\ stage = "pes" /\ stage' = "pes"
         /\ current' = current /\ callback.pid = current.pid /\ InHand /\ ~InHand' /\ NotYet = {}
         /\ (\A q : ~OnTable(q)') /\ (\A q : OnTable(q) <=> current.pid = q)
         /\ HeadOf(callback.raw) = current.head /\ callback.pid \in {0} \cup PmtPids
         /\ UNCHANGED <<units, program, options, parses, before, lastPat, pats, pmtsSeen, announced, phase>>
<1>1. /\ CallbackStep /\ callback # NoCallback /\ callback.kind = "psi" /\ callback' = NoCallback
      /\ stage' = stage /\ current' = current
  BY DEF PatReturns, PmtReturns, CallbackStep
<1>2. /\ callback.pid = current.pid /\ stage = "pes" /\ callback.pid \in Carrying \ PesPids
      /\ HeadOf(callback.raw) = current.head
  BY <1>1, TableIsSent DEF BaseInv
<1>3. InHand /\ ~InHand'
  BY <1>1, <1>2 DEF InHand
<1>4. NotYet = {}
  BY <1>3 DEF TablesInv, SettledInv
<1>5. UNCHANGED <<units, program, options, parses, before, lastPat, pats, pmtsSeen, announced, phase>>
  BY <1>1 DEF CallbackStep, sender, parse, said
<1>6. (\A q : ~OnTable(q)') /\ (\A q : OnTable(q) <=> current.pid = q)
  BY <1>3 DEF OnTable
<1> QED
  BY <1>1, <1>2, <1>3, <1>4, <1>5, <1>6 DEF Carrying

\* A PAT: the PIDs of one that is followed are registered, or will be.
LEMMA PatReturnRegisters ==
  ASSUME TablesInv, BaseInv, PatReturns, ~exited', NEW n \in Nat, Len(pats) = n
  PROVE  /\ prevPat' = pats[n] /\ mPsiCallbackMap \subseteq mPsiCallbackMap'
         /\ Follows(n) => Listed(pats[n]) \subseteq mPsiCallbackMap' \cup NotYet'
         /\ program = "TsUtilities" => NotYet' = {}
         /\ addedPmts' \in BOOLEAN /\ n > 0 /\ Handled = n - 1
<1>1. /\ InHand /\ NotYet = {} /\ (\A q : OnTable(q) <=> current.pid = q)
      /\ HeadOf(callback.raw) = current.head /\ callback.pid = current.pid /\ stage = "pes"
      /\ program' = program
  BY TableReturn
<1>2. callback.pid = 0
  BY DEF PatReturns
<1>3. /\ pats \in Seq(HeadsOf(0)) /\ pats # <<>> /\ pats[n] = current.head
      /\ pmtPids \in Seq(Pids \ PesPids) /\ addedPmts \in BOOLEAN
  BY <1>1, <1>2 DEF TablesInv, SaidInv, BaseInv, RegisteredInv
<1>4. PICK pat : pat = pats[n]
  OBVIOUS
<1>5. n > 0 /\ Handled = n - 1 /\ pat \in HeadsOf(0)
  <2>1. n > 0 /\ n \in 1..Len(pats)
    BY <1>3
  <2>2. pat \in HeadsOf(0)
    BY <1>3, <1>4, <2>1
  <2> QED
    BY <1>1, <1>2, <2>1, <2>2 DEF Handled
<1> DEFINE new == NewPmtPids(pat.programs)
<1>6. new \in Seq(Pids \ PesPids) /\ Listed(pat) \subseteq Range(new) /\ pat # NoPat
  BY <1>5, ListedAreNew
<1> HIDE DEF new
<1>7. IF prevPat = pat THEN UNCHANGED <<prevPat, pmtPids, addedPmts, mPsiCallbackMap>> ELSE NewPat(pat)
  BY <1>1, <1>3, <1>4 DEF PatReturns
<1>8. CASE prevPat = pat
  <2>1. UNCHANGED <<prevPat, pmtPids, addedPmts, mPsiCallbackMap>> /\ NotYet' = NotYet
    BY <1>7, <1>8 DEF NotYet
  <2>2. ~Follows(n)
    <3>1. CASE n = 1
      <4>1. prevPat = IF program = "WebAssembly" THEN lastPat ELSE NoPat
        BY <1>5, <3>1 DEF TablesInv, PatsInv
      <4> QED
        BY <1>4, <1>6, <1>8, <3>1, <4>1 DEF Follows
    <3>2. CASE n # 1
      <4>1. Handled > 0 /\ prevPat = pats[n - 1]
        BY <1>5, <3>2 DEF TablesInv, PatsInv
      <4> QED
        BY <1>4, <1>8, <3>2, <4>1 DEF Follows
    <3> QED
      BY <3>1, <3>2
  <2> QED
    BY <1>1, <1>3, <1>4, <1>5, <1>8, <2>1, <2>2
<1>9. CASE prevPat # pat
  <2>1. /\ prevPat' = pat
        /\ pmtPids' = IF program = "WebAssembly" THEN new ELSE pmtPids \o new
        /\ IF program = "TsUtilities" /\ ~addedPmts /\ pmtPids' # <<>>
           THEN mPsiCallbackMap' = mPsiCallbackMap \cup Range(pmtPids') /\ addedPmts' = TRUE
           ELSE /\ mPsiCallbackMap' = mPsiCallbackMap
                /\ addedPmts' = IF program = "WebAssembly" THEN FALSE ELSE addedPmts
    BY <1>7, <1>9 DEF NewPat, new
  <2>2. addedPmts' \in BOOLEAN
    <3>1. addedPmts' = TRUE \/ addedPmts' = FALSE \/ addedPmts' = addedPmts
      BY <2>1
    <3> QED
      BY <1>3, <3>1
  <2>3. program = "TsUtilities" => NotYet' = {}
    <3> SUFFICES ASSUME program = "TsUtilities" PROVE NotYet' = {}
      OBVIOUS
    <3>1. CASE ~addedPmts /\ pmtPids' # <<>>
      BY <2>1, <3>1 DEF NotYet
    <3>2. CASE ~addedPmts /\ pmtPids' = <<>>
      BY <3>2 DEF NotYet, Range
    <3>3. CASE addedPmts
      BY <2>1, <3>3 DEF NotYet
    <3> QED
      BY <3>1, <3>2, <3>3
  <2>4. ASSUME Follows(n) PROVE Listed(pat) \subseteq mPsiCallbackMap' \cup NotYet'
    <3>1. CASE program = "WebAssembly"
      <4>1. NotYet' = Range(new)
        BY <2>1, <3>1 DEF NotYet
      <4> QED
        BY <1>6, <4>1
    <3>2. CASE program # "WebAssembly"
      <4>1. n = 1
        BY <2>4, <3>2 DEF Follows
      <4>2. pmtPids = <<>> /\ ~addedPmts
        BY <1>5, <4>1 DEF TablesInv, PatsInv
      <4>3. pmtPids' = new
        <5>1. <<>> \o new = new
          BY <1>6
        <5> QED
          BY <2>1, <3>2, <4>2, <5>1
      <4>4. CASE program = "TsUtilities" /\ new # <<>>
        BY <1>6, <2>1, <4>2, <4>3, <4>4
      <4>5. CASE program # "TsUtilities" \/ new = <<>>
        <5>1. NotYet' = Range(new)
          BY <2>1, <3>2, <4>2, <4>3, <4>5 DEF NotYet
        <5> QED
          BY <1>6, <5>1
      <4> QED
        BY <4>4, <4>5
    <3> QED
      BY <3>1, <3>2
  <2>5. mPsiCallbackMap \subseteq mPsiCallbackMap'
    BY <2>1
  <2> QED
    BY <1>4, <1>5, <2>1, <2>2, <2>3, <2>4, <2>5
<1> QED
  BY <1>8, <1>9

LEMMA PatReturnKeepsTables ==
  ASSUME TablesInv, BaseInv, PatReturns, ~exited'
  PROVE  TablesInv'
<1>1. /\ callback.pid = current.pid /\ stage = "pes" /\ stage' = "pes" /\ current' = current
      /\ ~InHand' /\ NotYet = {} /\ (\A q : ~OnTable(q)') /\ (\A q : OnTable(q) <=> current.pid = q)
      /\ UNCHANGED <<units, program, options, parses, before, lastPat, pats, pmtsSeen, announced, phase>>
  BY TableReturn
<1>2. callback.pid = 0 /\ UNCHANGED <<mPesCallbackMap, prevPmts, esPids>>
  BY DEF PatReturns
<1>3. PICK n \in Nat : Len(pats) = n
  BY DEF TablesInv, SaidInv
<1>4. /\ prevPat' = pats[n] /\ mPsiCallbackMap \subseteq mPsiCallbackMap'
      /\ Follows(n) => Listed(pats[n]) \subseteq mPsiCallbackMap' \cup NotYet'
      /\ program = "TsUtilities" => NotYet' = {}
      /\ addedPmts' \in BOOLEAN /\ n > 0 /\ Handled = n - 1
  BY <1>3, PatReturnRegisters
<1>5. Handled' = n
  BY <1>1, <1>3 DEF Handled
<1>6. SaidInv'
  <2>1. \A p : CurrentUnit(p)' = CurrentUnit(p)
    BY <1>1 DEF CurrentUnit
  <2> QED
    BY <1>1, <1>2, <1>4, <2>1 DEF TablesInv, SaidInv
<1>7. PatsInv'
  <2>1. \A i : Follows(i)' <=> Follows(i)
    BY <1>1 DEF Follows
  <2>2. ASSUME NEW i \in 1..n, Follows(i) PROVE Listed(pats[i]) \subseteq mPsiCallbackMap' \cup NotYet'
    <3>1. CASE i = n
      BY <1>4, <2>2, <3>1
    <3>2. CASE i # n
      <4>1. i \in 1..Handled
        BY <1>4, <3>2
      <4>2. Listed(pats[i]) \subseteq mPsiCallbackMap
        BY <1>1, <2>2, <4>1 DEF TablesInv, PatsInv
      <4> QED
        BY <1>4, <4>2
    <3> QED
      BY <3>1, <3>2
  <2>3. parses > 0 => 0 \in mPsiCallbackMap'
    BY <1>4 DEF TablesInv, PatsInv
  <2> HIDE DEF Handled, Follows, NotYet
  <2> QED
    BY <1>1, <1>3, <1>4, <1>5, <2>1, <2>2, <2>3 DEF PatsInv
<1>8. SettledInv'
  <2>1. program = "TsUtilities" \/ phase = "demuxing"
    BY <1>1 DEF TablesInv, SettledInv
  <2> QED
    BY <1>1, <1>2, <1>4, <2>1 DEF TablesInv, SettledInv
<1>9. PmtsInv'
  <2>1. \A pmt : PmtAdds(pmt)' = PmtAdds(pmt)
    BY <1>1 DEF PmtAdds
  <2> QED
    BY <1>1, <1>2, <2>1 DEF TablesInv, PmtsInv, Expected
<1>10. AnnouncedInv'
  <2>1. \A q \in PmtPids : ~OnTable(q)
    BY <1>1, <1>2, ClientAssumption
  <2>2. \A e : Coming(e) => Coming(e)'
    BY <1>2, <2>1 DEF Coming, Expected
  <2> HIDE DEF Coming
  <2> QED
    BY <1>1, <2>2 DEF TablesInv, AnnouncedInv
<1> QED
  BY <1>6, <1>7, <1>8, <1>9, <1>10 DEF TablesInv

\* A PMT: if it is the only one of its PID, what it announces is registered, or
\* will be.
LEMMA PmtReturnKeepsTables ==
  ASSUME TablesInv, BaseInv, PmtReturns
  PROVE  TablesInv'
<1>1. /\ callback.pid = current.pid /\ stage = "pes" /\ stage' = "pes" /\ current' = current
      /\ ~InHand' /\ (\A q : ~OnTable(q)') /\ (\A q : OnTable(q) <=> current.pid = q)
      /\ HeadOf(callback.raw) = current.head /\ callback.pid \in {0} \cup PmtPids
      /\ UNCHANGED <<units, program, options, parses, before, lastPat, pats, pmtsSeen, announced, phase>>
  BY TableReturn
<1>2. PICK p \in PmtPids : p = callback.pid
  BY <1>1 DEF PmtReturns
<1>3. PICK pmt : pmt = current.head
  OBVIOUS
<1>4. /\ UNCHANGED <<mPsiCallbackMap, prevPat, pmtPids, addedPmts>>
      /\ IF prevPmts[p] # NoPmt THEN UNCHANGED <<prevPmts, esPids, mPesCallbackMap>>
         ELSE /\ prevPmts' = [prevPmts EXCEPT ![p] = pmt]
              /\ esPids' = esPids \o PmtAdds(pmt)
              /\ mPesCallbackMap' = IF program = "TsUtilities" THEN mPesCallbackMap \cup Range(esPids')
                                    ELSE mPesCallbackMap
  BY <1>1, <1>2, <1>3 DEF PmtReturns
<1>5. /\ pmt \in pmtsSeen[p] /\ pmt \in HeadsOf(p) /\ DOMAIN prevPmts = PmtPids /\ esPids \in Seq(Pids)
      /\ program \in {"TsUtilities", "tsparser", "WebAssembly"}
  BY <1>1, <1>2, <1>3 DEF TablesInv, SaidInv, BaseInv, RegisteredInv
<1>6. /\ p # 0 /\ PmtAdds(pmt) \in Seq(Pids) /\ pmt # NoPmt
      /\ \A e \in Range(ElementaryPids(pmt.streams)) :
           (program = "tsparser" => e \in options.write \cup options.print) => e \in Range(PmtAdds(pmt))
  BY <1>5, PmtHeads
<1>7. /\ esPids' \in Seq(Pids) /\ Expected \subseteq Expected' /\ DOMAIN prevPmts' = PmtPids
      /\ program = "TsUtilities" => Range(esPids') \subseteq mPesCallbackMap'
  <2>1. CASE prevPmts[p] # NoPmt
    <3>1. program = "TsUtilities" => Range(esPids) \subseteq mPesCallbackMap
      BY DEF TablesInv, SettledInv
    <3> QED
      BY <1>4, <1>5, <2>1, <3>1 DEF Expected
  <2>2. CASE prevPmts[p] = NoPmt
    <3>0. esPids' = esPids \o PmtAdds(pmt)
      BY <1>4, <2>2
    <3>1. Range(esPids') = Range(esPids) \cup Range(PmtAdds(pmt)) /\ esPids' \in Seq(Pids)
      <4>1. PICK s \in Seq(Pids), t \in Seq(Pids) : s = esPids /\ t = PmtAdds(pmt)
        BY <1>5, <1>6
      <4>2. s \o t \in Seq(Pids) /\ Range(s \o t) = Range(s) \cup Range(t)
        BY RangeOfBoth
      <4> QED
        BY <3>0, <4>1, <4>2
    <3> QED
      BY <1>4, <1>5, <2>2, <3>1 DEF Expected
  <2> QED
    BY <2>1, <2>2
<1>8. \A h : PmtAdds(h)' = PmtAdds(h)
  BY <1>1 DEF PmtAdds
<1>9. prevPmts[p] = NoPmt => Range(PmtAdds(pmt)) \subseteq Expected'
  <2> SUFFICES ASSUME prevPmts[p] = NoPmt PROVE Range(PmtAdds(pmt)) \subseteq Expected'
    OBVIOUS
  <2>1. Range(esPids') = Range(esPids) \cup Range(PmtAdds(pmt))
    BY <1>4, <1>5, <1>6, RangeOfBoth
  <2> QED
    BY <2>1 DEF Expected
<1>10. SaidInv'
  <2>1. \A q : CurrentUnit(q)' = CurrentUnit(q)
    BY <1>1 DEF CurrentUnit
  <2> QED
    BY <1>1, <1>4, <1>7, <2>1 DEF TablesInv, SaidInv
<1>11. NotYet' = NotYet
  BY <1>4 DEF NotYet
<1>12. PatsInv'
  <2>1. \A i : Follows(i)' <=> Follows(i)
    BY <1>1 DEF Follows
  <2>2. Handled' = Handled
    BY <1>1, <1>2, <1>6 DEF Handled
  <2> HIDE DEF Handled, Follows, NotYet
  <2> QED
    BY <1>1, <1>4, <1>11, <2>1, <2>2 DEF TablesInv, PatsInv
<1>13. SettledInv'
  <2>1. current.pid \notin PesPids
    BY <1>1, <1>2, CarriedPids
  <2>2. program = "TsUtilities" \/ phase = "demuxing"
    BY <1>1 DEF TablesInv, SettledInv
  <2>3. program = "TsUtilities" => NotYet = {}
    BY DEF TablesInv, SettledInv
  <2> QED
    BY <1>1, <1>7, <1>11, <2>1, <2>2, <2>3 DEF SettledInv
<1>14. PmtsInv'
  <2> SUFFICES ASSUME NEW q \in PmtPids, prevPmts'[q] # NoPmt
               PROVE  prevPmts'[q] \in pmtsSeen[q] /\ Range(PmtAdds(prevPmts'[q])) \subseteq Expected'
    BY <1>1, <1>8 DEF PmtsInv, PmtAdds
  <2>1. CASE prevPmts'[q] = prevPmts[q]
    BY <1>7, <2>1 DEF TablesInv, PmtsInv
  <2>2. CASE prevPmts'[q] # prevPmts[q]
    <3>1. q = p /\ prevPmts[p] = NoPmt /\ prevPmts'[q] = pmt
      BY <1>4, <1>5, <2>2
    <3> QED
      BY <1>5, <1>9, <3>1
  <2> QED
    BY <2>1, <2>2
<1>15. AnnouncedInv'
  <2>1. ASSUME NEW e \in PesPids, Coming(e), program = "tsparser" => e \in options.write \cup options.print
        PROVE  e \in Expected'
    <3>1. CASE e \in Expected
      BY <1>7, <3>1
    <3>2. CASE e \notin Expected
      <4>1. PICK q \in PmtPids : /\ OnTable(q) /\ pmtsSeen[q] \subseteq {current.head}
                                 /\ e \in Range(ElementaryPids(current.head.streams))
        BY <2>1, <3>2 DEF Coming
      <4>2. q = p
        BY <1>1, <1>2, <4>1
      <4>3. e \in Range(PmtAdds(pmt))
        BY <1>3, <1>6, <2>1, <4>1
      <4>4. prevPmts[p] # NoPmt => prevPmts[p] = pmt /\ Range(PmtAdds(pmt)) \subseteq Expected
        BY <1>3, <4>1, <4>2 DEF TablesInv, PmtsInv
      <4> QED
        BY <1>7, <1>9, <4>3, <4>4
    <3> QED
      BY <3>1, <3>2
  <2>2. \A e : e \in Expected' => Coming(e)'
    BY DEF Coming
  <2> HIDE DEF Coming, Expected
  <2> QED
    BY <1>1, <2>1, <2>2 DEF TablesInv, AnnouncedInv
<1> QED
  BY <1>10, <1>12, <1>13, <1>14, <1>15 DEF TablesInv

\* What is announced by a packet: the streams of a PMT that is followed and the
\* only one of its PID, from the units on that are begun now.
LEMMA AnnouncedNow ==
  ASSUME TablesInv, BaseInv, stage = "idle", program = "TsUtilities" \/ phase # "demuxing",
         NEW p \in Carrying, NEW head \in HeadsOf(p), Says(p, head)
  PROVE  /\ announced' = announced
            \/ /\ p \in PmtPids \cap mPsiCallbackMap /\ pmtsSeen[p] \subseteq {head}
               /\ announced' = [e \in PesPids |->
                                  IF announced[e] = Unknown /\ e \in Range(ElementaryPids(head.streams))
                                  THEN CurrentUnit(e) ELSE announced[e]]
<1>1. callback = NoCallback
  BY IdleCallsNobody DEF BaseInv
<1>2. Handled = Len(pats) /\ NotYet = {} /\ pats \in Seq(HeadsOf(0))
  BY <1>1, IdleTables DEF TablesInv, SettledInv, SaidInv
<1>3. ASSUME p \in Followed PROVE p \in PmtPids \cap mPsiCallbackMap
  <2>1. PICK i \in DOMAIN pats : Follows(i) /\ p \in Listed(pats[i])
    BY <1>3 DEF Followed
  <2>2. i \in 1..Handled /\ pats[i] \in HeadsOf(0)
    BY <1>2, <2>1
  <2>3. Listed(pats[i]) \subseteq mPsiCallbackMap \cup NotYet
    BY <2>1, <2>2 DEF TablesInv, PatsInv
  <2>4. Listed(pats[i]) \subseteq PmtPids
    BY <2>2, ListedAreNew
  <2> QED
    BY <1>2, <2>1, <2>3, <2>4
<1> QED
  BY <1>3 DEF Says

\* The types of what the stream has said.
LEMMA SaidGrows ==
  ASSUME SaidInv, NEW p \in Carrying, NEW head \in HeadsOf(p), Says(p, head)
  PROVE  /\ pats' \in Seq(HeadsOf(0)) /\ DOMAIN pmtsSeen' = PmtPids
         /\ \A q \in PmtPids : pmtsSeen'[q] \subseteq HeadsOf(q) /\ pmtsSeen[q] \subseteq pmtsSeen'[q]
         /\ p = 0 => pats' = Append(pats, head) /\ pats' # <<>> /\ pats'[Len(pats')] = head
         /\ p # 0 => pats' = pats
         /\ p \in PmtPids => pmtsSeen'[p] = pmtsSeen[p] \cup {head}
<1>1. /\ pats \in Seq(HeadsOf(0)) /\ DOMAIN pmtsSeen = PmtPids
      /\ \A q \in PmtPids : pmtsSeen[q] \subseteq HeadsOf(q)
      /\ pats' = IF p = 0 THEN Append(pats, head) ELSE pats
      /\ pmtsSeen' = IF p \in PmtPids THEN [pmtsSeen EXCEPT ![p] = @ \cup {head}] ELSE pmtsSeen
  BY DEF SaidInv, Says
<1>2. CASE p = 0
  <2>1. /\ Append(pats, head) \in Seq(HeadsOf(0)) /\ Append(pats, head) # <<>>
        /\ Append(pats, head)[Len(Append(pats, head))] = head
    BY <1>1, <1>2
  <2>2. p \notin PmtPids
    BY <1>2, ClientAssumption
  <2> QED
    BY <1>1, <1>2, <2>1, <2>2
<1>3. CASE p # 0
  <2>1. pats' = pats
    BY <1>1, <1>3
  <2>2. CASE p \in PmtPids
    <3>1. /\ DOMAIN pmtsSeen' = PmtPids /\ pmtsSeen'[p] = pmtsSeen[p] \cup {head}
          /\ \A q \in PmtPids \ {p} : pmtsSeen'[q] = pmtsSeen[q]
      BY <1>1, <2>2
    <3> QED
      BY <1>1, <1>3, <2>1, <2>2, <3>1
  <2>3. CASE p \notin PmtPids
    BY <1>1, <1>3, <2>1, <2>3
  <2> QED
    BY <2>2, <2>3
<1> QED
  BY <1>2, <1>3

LEMMA FeedKeepsTables ==
  ASSUME TablesInv, BaseInv, FeedStep
  PROVE  TablesInv'
<1>1. PICK p \in Carrying, first \in Nat \ {0} :
        /\ Sends(p, first) /\ Tells(p, first) /\ current'.pid = p /\ CurrentUnit(p)' = Len(units'[p])
  BY FeedKeepsBase
<1>2. /\ stage = "idle" /\ stage' = "ts" /\ callback = NoCallback /\ callback' = NoCallback
      /\ \/ program = "TsUtilities" /\ phase' = phase
         \/ program # "TsUtilities" /\ phase # "demuxing" /\ phase' = "demuxing"
      /\ parses > 0 /\ program \in {"TsUtilities", "tsparser", "WebAssembly"}
  <2>1. FeedFrame
    BY FeedKeepsBase
  <2>2. stage = "idle" /\ stage' = "ts" /\ parses > 0 /\ callback' = callback
    BY <1>1, <2>1 DEF Sends, FeedFrame
  <2>3. callback = NoCallback /\ program \in {"TsUtilities", "tsparser", "WebAssembly"}
    BY <2>2, IdleCallsNobody DEF BaseInv, RegisteredInv
  <2>4. \/ program = "TsUtilities" /\ phase' = phase
        \/ program # "TsUtilities" /\ phase # "demuxing" /\ phase' = "demuxing"
    BY DEF FeedStep
  <2> QED
    BY <2>2, <2>3, <2>4
<1>3. UNCHANGED <<prevPat, pmtPids, prevPmts, esPids, addedPmts, mPsiCallbackMap, mPesCallbackMap,
                  program, options, parses, before, lastPat>>
  BY FeedKeepsBase DEF FeedFrame, FeedStep, Feed, tables, parse
<1>4. PICK head : head = current'.head
  OBVIOUS
<1>5. /\ head \in HeadsOf(p) /\ head = units'[p][Len(units'[p])].head
      /\ first = 1 => CurrentUnit(p) < MaxUnits /\ Says(p, head)
      /\ first # 1 => UNCHANGED said /\ p \in PesPids
  BY <1>1, <1>4 DEF Sends, Tells, Notes
<1>6. /\ Handled = Len(pats) /\ (\A e : Coming(e) => e \in Expected) /\ NotYet = {}
      /\ SaidInv /\ pats \in Seq(HeadsOf(0))
  BY <1>2, IdleTables DEF TablesInv, SettledInv, SaidInv
<1>7. InHand' /\ (\A q : OnTable(q)' <=> q = p)
  BY <1>1, <1>2 DEF InHand, OnTable
<1>8. /\ pats' \in Seq(HeadsOf(0)) /\ DOMAIN pmtsSeen' = PmtPids
      /\ \A q \in PmtPids : pmtsSeen'[q] \subseteq HeadsOf(q) /\ pmtsSeen[q] \subseteq pmtsSeen'[q]
      /\ p = 0 => pats' = Append(pats, head) /\ pats' # <<>> /\ pats'[Len(pats')] = head
      /\ p # 0 => pats' = pats
      /\ p \in PmtPids => pmtsSeen'[p] = pmtsSeen[p] \cup {head}
      /\ announced' = announced
         \/ /\ p \in PmtPids \cap mPsiCallbackMap /\ pmtsSeen[p] \subseteq {head}
            /\ announced' = [e \in PesPids |->
                               IF announced[e] = Unknown /\ e \in Range(ElementaryPids(head.streams))
                               THEN CurrentUnit(e) ELSE announced[e]]
  <2>1. CASE first = 1
    BY <1>2, <1>5, <1>6, <2>1, SaidGrows, AnnouncedNow
  <2>2. CASE first # 1
    <3>1. p # 0 /\ p \notin PmtPids
      BY <1>5, <2>2, CarriedPids
    <3>2. UNCHANGED <<pats, pmtsSeen, announced>>
      BY <1>5, <2>2 DEF said
    <3> QED
      BY <1>6, <3>1, <3>2 DEF SaidInv
  <2> QED
    BY <2>1, <2>2
<1>9. PICK n \in Nat : n = Len(pats)
  BY <1>6
<1>10. /\ \A i \in 1..n : pats'[i] = pats[i] /\ (Follows(i)' <=> Follows(i))
       /\ Handled' = n
  <2>1. \A i \in 1..n : pats'[i] = pats[i]
    BY <1>6, <1>8, <1>9
  <2>2. ASSUME NEW i \in 1..n PROVE Follows(i)' <=> Follows(i)
    <3>1. i = 1 \/ i - 1 \in 1..n
      OBVIOUS
    <3> QED
      BY <1>3, <2>1, <3>1 DEF Follows
  <2>3. CASE p = 0
    <3>1. Len(pats') = n + 1 /\ OnTable(0)'
      BY <1>6, <1>7, <1>8, <1>9, <2>3
    <3> QED
      BY <2>1, <2>2, <3>1 DEF Handled
  <2>4. CASE p # 0
    BY <1>7, <1>8, <1>9, <2>1, <2>2, <2>4 DEF Handled
  <2> QED
    BY <2>3, <2>4
<1>11. \A q \in Pids : CurrentUnit(q) \in Nat /\ before[q] <= CurrentUnit(q) /\ CurrentUnit(q) <= MaxUnits
  BY <1>6, UnitsAreSeq DEF BaseInv, StreamInv, StreamOn, SaidInv
<1>12. SaidInv'
  <2>1. ASSUME NEW q \in Pids PROVE CurrentUnit(q)' <= MaxUnits
    <3>1. CASE q # p
      <4>1. CurrentUnit(q)' = CurrentUnit(q)
        BY <1>1, <3>1 DEF Sends, OnlyGrows, CurrentUnit
      <4> QED
        BY <1>11, <4>1
    <3>2. CASE q = p
      <4>1. CurrentUnit(p)' = IF first = 1 THEN CurrentUnit(p) + 1 ELSE CurrentUnit(p)
        BY <1>1 DEF Sends
      <4>2. MaxUnits \in Nat /\ CurrentUnit(p) \in Nat /\ CurrentUnit(p) <= MaxUnits
        BY <1>11, <3>2, SenderAssumption
      <4> QED
        BY <1>5, <3>2, <4>1, <4>2
    <3> QED
      BY <3>1, <3>2
  <2>2. announced' \in [PesPids -> Int]
    <3>1. announced \in [PesPids -> Int] /\ \A e \in PesPids : CurrentUnit(e) \in Int
      BY <1>6, <1>11, CarriedPids DEF SaidInv
    <3> QED
      BY <1>8, <3>1
  <2>3. /\ current'.pid = 0 => pats' # <<>> /\ pats'[Len(pats')] = current'.head
        /\ current'.pid \in PmtPids => current'.head \in pmtsSeen'[current'.pid]
    BY <1>1, <1>4, <1>8
  <2>4. esPids' \in Seq(Pids) /\ addedPmts' \in BOOLEAN /\ DOMAIN prevPmts' = PmtPids
    BY <1>3, <1>6 DEF SaidInv
  <2> QED
    BY <1>2, <1>3, <1>8, <2>1, <2>2, <2>3, <2>4 DEF SaidInv
<1>13. NotYet' = {}
  BY <1>3, <1>6 DEF NotYet
<1>14. PatsInv'
  <2>1. /\ parses' > 0 => 0 \in mPsiCallbackMap'
        /\ n = 0 =>
             /\ prevPat' = (IF program' = "WebAssembly" THEN lastPat' ELSE NoPat)
             /\ pmtPids' = <<>> /\ ~addedPmts'
    BY <1>3, <1>6, <1>9 DEF TablesInv, PatsInv
  <2>2. n > 0 => prevPat' = pats'[n]
    <3>1. n > 0 => prevPat = pats[n] /\ n \in 1..n
      BY <1>6, <1>9 DEF TablesInv, PatsInv
    <3> QED
      BY <1>3, <1>10, <3>1
  <2>3. ASSUME NEW i \in 1..n, Follows(i)' PROVE Listed(pats'[i]) \subseteq mPsiCallbackMap'
    <3>1. Listed(pats[i]) \subseteq mPsiCallbackMap \cup NotYet
      BY <1>6, <1>9, <1>10, <2>3 DEF TablesInv, PatsInv
    <3> QED
      BY <1>3, <1>6, <1>10, <3>1
  <2> HIDE DEF Handled, Follows, NotYet
  <2> QED
    BY <1>10, <1>13, <2>1, <2>2, <2>3 DEF PatsInv
<1>15. SettledInv'
  <2>1. IF program = "TsUtilities" THEN Range(esPids) \subseteq mPesCallbackMap ELSE esPids = <<>>
    BY <1>2 DEF TablesInv, SettledInv
  <2> QED
    BY <1>2, <1>3, <1>13, <2>1 DEF SettledInv
<1>16. Expected' = Expected /\ \A pmt : PmtAdds(pmt)' = PmtAdds(pmt)
  BY <1>3 DEF Expected, PmtAdds
<1>17. PmtsInv'
  <2> HIDE DEF Expected
  <2> QED
    BY <1>3, <1>8, <1>16 DEF TablesInv, PmtsInv
<1>18. AnnouncedInv'
  <2> SUFFICES ASSUME NEW e \in PesPids
               PROVE  /\ before[e] <= announced'[e]
                      /\ announced'[e] # Unknown /\ (program = "tsparser" => e \in options.write \cup options.print)
                           => Coming(e)'
    BY <1>3 DEF AnnouncedInv, Unknown
  <2>1. /\ before[e] <= announced[e]
        /\ announced[e] # Unknown /\ (program = "tsparser" => e \in options.write \cup options.print) => Coming(e)
    BY DEF TablesInv, AnnouncedInv
  <2>2. Coming(e) => Coming(e)'
    <3> HIDE DEF Expected
    <3> QED
      BY <1>6, <1>16 DEF Coming
  <2>3. CASE announced'[e] = announced[e]
    BY <2>1, <2>2, <2>3
  <2>4. CASE announced'[e] # announced[e]
    <3>1. /\ p \in PmtPids \cap mPsiCallbackMap /\ pmtsSeen[p] \subseteq {head}
          /\ announced'[e] = CurrentUnit(e) /\ e \in Range(ElementaryPids(head.streams))
      BY <1>8, <2>4
    <3>2. before[e] <= announced'[e]
      BY <1>11, <3>1, CarriedPids
    <3>3. OnTable(p)' /\ pmtsSeen'[p] \subseteq {current'.head}
      BY <1>4, <1>7, <1>8, <3>1
    <3>4. Coming(e)'
      BY <1>3, <1>4, <3>1, <3>3 DEF Coming
    <3> QED
      BY <3>2, <3>4
  <2> QED
    BY <2>3, <2>4
<1> QED
  BY <1>12, <1>14, <1>15, <1>17, <1>18 DEF TablesInv

\* Something is picked of a list if it has something to pick.
LEMMA PickedAny ==
  ASSUME NEW T, NEW list \in Seq(T), NEW S
  PROVE  Picked(list, S) # <<>> <=> Range(list) \cap S # {}
<1>1. PICK picked : picked = Picked(list, S)
  OBVIOUS
<1>2. picked \in Seq(T) /\ Range(picked) = Range(list) \cap S
  BY <1>1, PickedAre
<1>3. picked # <<>> <=> Range(picked) # {}
  BY <1>2 DEF Range
<1> QED
  BY <1>1, <1>2, <1>3

\* Which PID is video depends on the PMTs of the PIDs of the PATs.
LEMMA ListingStays ==
  ASSUME NEW q, NEW p, prevPmts'[q] = prevPmts[q]
  PROVE  ListsVideo(q, p)' <=> ListsVideo(q, p)
<1>1. StreamsOf(q, p)' = StreamsOf(q, p)
  BY DEF StreamsOf
<1> QED
  BY <1>1 DEF ListsVideo

\* tsparser finds PMTs and forgets none.
LEMMA TablesGrow ==
  ASSUME BaseInv, DOMAIN prevPmts = PmtPids, Steps, program = "tsparser"
  PROVE  /\ Range(pmtPids) \subseteq Range(pmtPids')
         /\ \A q \in PmtPids : prevPmts[q] # NoPmt => prevPmts'[q] = prevPmts[q]
<1>1. CASE UNCHANGED <<pmtPids, prevPmts>>
  BY <1>1
<1>2. CASE ~UNCHANGED <<pmtPids, prevPmts>>
  <2>1. ~FeedStep /\ ~LocateStep /\ ~AddStep /\ ~StageStep /\ ~TsReturns /\ ~PesReturns
    BY <1>2 DEF FeedStep, Feed, LocateStep, AddStep, StageStep, Stage, TsReturns, PesReturns, tables
  <2>2. ~BeginStep
    BY <1>2 DEF BeginStep, BeginUtilities, BeginTsparser, BeginWebAssembly, tables
  <2>3. CASE PatReturns
    <3>1. PICK pat : pat = HeadOf(callback.raw)
      OBVIOUS
    <3>2. pat \in HeadsOf(0)
      <4>1. callback # NoCallback /\ callback.kind = "psi" /\ callback.pid = 0
        BY <2>3 DEF PatReturns, CallbackStep
      <4> QED
        BY <3>1, <4>1, TableIsSent DEF BaseInv
    <3>3. PICK s \in Seq(Pids \ PesPids), t \in Seq(Pids \ PesPids) :
            s = pmtPids /\ t = NewPmtPids(pat.programs)
      BY <3>2, ListedAreNew DEF BaseInv, RegisteredInv
    <3>4. Range(s) \subseteq Range(s \o t)
      BY RangeOfBoth
    <3>5. prevPmts' = prevPmts /\ (pmtPids' = pmtPids \/ pmtPids' = s \o t)
      BY <2>3, <3>1, <3>3 DEF PatReturns, NewPat
    <3> QED
      BY <3>3, <3>4, <3>5
  <2>4. CASE PmtReturns
    <3>1. pmtPids' = pmtPids
      BY <2>4 DEF PmtReturns
    <3>2. PICK pid, pmt : IF prevPmts[pid] # NoPmt THEN prevPmts' = prevPmts
                          ELSE prevPmts' = [prevPmts EXCEPT ![pid] = pmt]
      BY <2>4 DEF PmtReturns
    <3> QED
      BY <3>1, <3>2
  <2> QED
    BY <2>1, <2>2, <2>3, <2>4 DEF Steps
<1> QED
  BY <1>1, <1>2

LEMMA VideoStays ==
  ASSUME BaseInv, DOMAIN prevPmts = PmtPids, Steps, program = "tsparser", NEW p, IsVideo(p)
  PROVE  IsVideo(p)'
<1>1. /\ Range(pmtPids) \subseteq Range(pmtPids')
      /\ \A q \in PmtPids : prevPmts[q] # NoPmt => prevPmts'[q] = prevPmts[q]
  BY TablesGrow
<1>2. pmtPids \in Seq(Pids \ PesPids) /\ pmtPids' \in Seq(Pids \ PesPids)
  BY StepsKeepBase DEF BaseInv, RegisteredInv
<1>3. PICK q \in Range(pmtPids) : ListsVideo(q, p)
  <2>1. Picked(pmtPids, {q \in Range(pmtPids) : ListsVideo(q, p)}) # <<>>
    BY DEF IsVideo, VideoCalls
  <2> QED
    BY <1>2, <2>1, PickedAny
<1>4. q \in PmtPids /\ prevPmts[q] # NoPmt
  BY <1>3 DEF ListsVideo, StreamsOf
<1>5. prevPmts'[q] = prevPmts[q]
  BY <1>1, <1>4
<1>6. ListsVideo(q, p)' /\ q \in Range(pmtPids')
  BY <1>1, <1>3, <1>5, ListingStays
<1>7. q \in {r \in Range(pmtPids') : ListsVideo(r, p)'}
  BY <1>6
<1>8. Picked(pmtPids', {r \in Range(pmtPids') : ListsVideo(r, p)'}) # <<>>
  BY <1>2, <1>7, PickedAny
<1> QED
  BY <1>8 DEF IsVideo, VideoCalls

-----------------------------------------------------------------------------
(* The units come out *)

Delivers(p) == HeldShort(p) /\ NoneIsLost(p)

\* What is to be kept is no more than it was, and what is announced now is what
\* has not been seen.
NoMoreIsDue(p) ==
  /\ program = "tsparser" /\ IsVideo(p) => IsVideo(p)'
  /\ announced'[p] = announced[p] \/ announced'[p] >= SeenUnit(p)

LEMMA KeptStill ==
  ASSUME NEW p, NEW u \in DOMAIN units[p], Grows(p), program = "tsparser" /\ IsVideo(p) => IsVideo(p)'
  PROVE  /\ Part(p, u)' = Part(p, u) /\ (AtNext(p, u)' <=> AtNext(p, u))
         /\ UnitSize(p, units[p][u].head)' = UnitSize(p, units[p][u].head)
         /\ IsKept(p, u)' => IsKept(p, u)
         /\ kept'[p] = kept[p] => (IsThere(p, u)' <=> IsThere(p, u))
<1>1. units'[p][u].head = units[p][u].head /\ program' = program /\ options' = options
  BY DEF Grows
<1>2. Part(p, u)' = Part(p, u)
  BY <1>1 DEF Part, Unit
<1>3. UnitSize(p, units[p][u].head)' = UnitSize(p, units[p][u].head)
  BY <1>1 DEF UnitSize
<1>4. AtNext(p, u)' <=> AtNext(p, u)
  BY <1>3 DEF AtNext
<1>5. IsKept(p, u)' => IsKept(p, u)
  BY <1>1 DEF IsKept
<1>6. kept'[p] = kept[p] => (IsThere(p, u)' <=> IsThere(p, u))
  BY <1>2 DEF IsThere
<1> QED
  BY <1>2, <1>3, <1>4, <1>5, <1>6

\* A step that passes a PID by loses nothing of it.
LEMMA PassedDelivers ==
  ASSUME SenderInv, SenderInv', NEW p \in PesPids, announced \in [PesPids -> Int],
         announced' \in [PesPids -> Int], HeldInv(p), Delivers(p), Passed(p), NoMoreIsDue(p)
  PROVE  Delivers(p)'
<1>0. p \in Pids
  BY CarriedPids
<1>1. PICK s \in Int : s = SeenUnit(p) /\ SeenUnit(p)' = s
  BY <1>0, SeenIsNumber DEF Passed
<1>2. (Held(p)' <=> Held(p)) /\ ~Pending(p) /\ ~Pending(p)' /\ kept'[p] = kept[p] /\ Grows(p)
  BY DEF Passed, Held
<1>3. \A u \in DOMAIN units[p] :
        /\ Part(p, u)' = Part(p, u) /\ (AtNext(p, u)' <=> AtNext(p, u))
        /\ UnitSize(p, units[p][u].head)' = UnitSize(p, units[p][u].head)
        /\ IsKept(p, u)' => IsKept(p, u)
        /\ IsThere(p, u)' <=> IsThere(p, u)
  BY <1>2, KeptStill DEF NoMoreIsDue
<1>4. HeldShort(p)'
  <2> SUFFICES ASSUME Held(p)', SeenCells(p)' = UnitSize(p, units[p][s].head)'
               PROVE  AtNext(p, s)'
    BY <1>1 DEF HeldShort, AtNext, UnitSize
  <2>1. s \in DOMAIN units[p]
    BY <1>1, <1>2 DEF HeldInv
  <2>2. SeenCells(p) = UnitSize(p, units[p][s].head)
    BY <1>1, <1>3, <2>1 DEF Passed
  <2>3. AtNext(p, s)
    BY <1>1, <1>2, <2>2 DEF Delivers, HeldShort
  <2> QED
    BY <1>3, <2>1, <2>3
<1>5. NoneIsLost(p)'
  <2> SUFFICES ASSUME NEW u \in DOMAIN units'[p], announced'[p] < u, u <= s
               PROVE  ComesOut(p, u)'
    BY <1>1 DEF NoneIsLost
  <2>1. u \in Int /\ announced[p] \in Int /\ announced'[p] \in Int
    <3>1. DOMAIN units'[p] \subseteq Int
      BY <1>0 DEF SenderInv
    <3> QED
      BY <3>1
  <2>2. u \in DOMAIN units[p]
    <3>1. DOMAIN units[p] = 1..CurrentUnit(p) /\ CurrentUnit(p) \in Nat
      BY <1>0, UnitsAreSeq
    <3>2. s <= CurrentUnit(p)
      BY <1>1, <3>1 DEF SeenUnit
    <3>3. u >= 1
      BY <1>0, <2>1 DEF SenderInv
    <3> QED
      BY <1>1, <2>1, <3>1, <3>2, <3>3
  <2>3. announced[p] < u
    BY <1>1, <2>1 DEF NoMoreIsDue
  <2>4. ComesOut(p, u)
    BY <1>1, <2>2, <2>3 DEF Delivers, NoneIsLost
  <2>5. \/ Held(p) /\ s = u
        \/ IsKept(p, u) => IsThere(p, u)
    BY <1>1, <1>2, <2>4 DEF ComesOut
  <2>6. \/ Held(p)' /\ SeenUnit(p)' = u
        \/ IsKept(p, u)' => IsThere(p, u)'
    BY <1>1, <1>2, <1>3, <2>2, <2>5
  <2> QED
    BY <2>6 DEF ComesOut
<1> QED
  BY <1>4, <1>5 DEF Delivers

\* What is announced by a step is what begins after it.
LEMMA AnnouncedAfterSeen ==
  ASSUME BaseInv, SaidInv, Steps, ~BeginWebAssembly, NEW p \in PesPids
  PROVE  announced'[p] = announced[p] \/ announced'[p] >= SeenUnit(p)
<1>1. CurrentUnit(p) \in Nat /\ CurrentUnit(p) <= MaxUnits /\ MaxUnits \in Nat /\ p \in Pids
  BY CarriedPids, UnitsAreSeq, SenderAssumption DEF BaseInv, StreamInv, SaidInv
<1>2. SeenUnit(p) \in Int /\ SeenUnit(p) <= CurrentUnit(p)
  BY <1>1 DEF SeenUnit
<1>3. CASE FeedStep
  <2>1. PICK q \in Carrying, first \in Nat \ {0} : Sends(q, first) /\ Tells(q, first)
    BY <1>3, FeedKeepsBase
  <2>2. announced'[p] = announced[p] \/ announced'[p] = CurrentUnit(p)
    BY <2>1 DEF Tells, Notes, Says, said
  <2> QED
    BY <1>1, <1>2, <2>2
<1>4. CASE BeginUtilities \/ BeginTsparser
  <2>1. announced'[p] = Unknown
    BY <1>4 DEF BeginUtilities, BeginTsparser, NewStream
  <2> QED
    BY <1>1, <1>2, <2>1 DEF Unknown
<1>5. CASE ~FeedStep /\ ~BeginStep
  <2>1. announced' = announced
    BY <1>5 DEF Steps, LocateStep, AddStep, StageStep, Stage, TsReturns, PesReturns, PatReturns, PmtReturns,
                CallbackStep, said
  <2> QED
    BY <2>1
<1> QED
  BY <1>3, <1>4, <1>5 DEF BeginStep

LEMMA PassingDelivers ==
  ASSUME BaseInv, TablesInv, TablesInv', Steps, options.mode # "ts", NEW p \in PesPids, PesPart(p), Delivers(p),
         ~BeginWebAssembly, ~(PesStage /\ Pid = p), ~Pending(p)
  PROVE  Delivers(p)'
<1>1. /\ p \in Pids /\ SenderInv /\ SenderInv' /\ StreamInv /\ CallbackInv
      /\ announced \in [PesPids -> Int] /\ announced' \in [PesPids -> Int]
  BY CarriedPids, StepsKeepBase DEF BaseInv, StreamInv, TablesInv, SaidInv
<1>2. Passed(p)
  <2>1. CASE FeedStep
    <3>1. PICK q \in Carrying, first \in Nat \ {0} :
            Sends(q, first) /\ First' = first /\ current'.pid = q /\ CurrentUnit(q)' = Len(units'[q])
      BY <2>1, FeedKeepsBase
    <3>2. FeedFrame
      BY <2>1, FeedKeepsBase
    <3> QED
      BY <1>1, <3>1, <3>2, FeedPasses
  <2>2. CASE LocateStep \/ AddStep \/ BeginUtilities \/ BeginTsparser
    BY <1>1, <2>2, IdlePasses
  <2>3. CASE StageStep
    BY <2>3, StagePasses
  <2>4. CASE TsReturns \/ PesReturns \/ PatReturns \/ PmtReturns
    BY <2>4, ReturnPasses
  <2> QED
    BY <2>1, <2>2, <2>3, <2>4 DEF Steps, BeginStep
<1>3. NoMoreIsDue(p)
  <2>1. program = "tsparser" /\ IsVideo(p) => IsVideo(p)'
    BY VideoStays DEF TablesInv, SaidInv
  <2>2. announced'[p] = announced[p] \/ announced'[p] >= SeenUnit(p)
    BY AnnouncedAfterSeen DEF TablesInv
  <2> QED
    BY <2>1, <2>2 DEF NoMoreIsDue
<1> QED
  BY <1>1, <1>2, <1>3, PassedDelivers DEF PesPart

\* A call of the entry point has nothing under collection, and nothing announced.
LEMMA PageBeginDelivers ==
  ASSUME BaseInv, SaidInv, BeginWebAssembly, NEW p \in PesPids
  PROVE  Delivers(p)'
<1>1. /\ CurrentUnit(p) \in Nat /\ CurrentUnit(p) <= MaxUnits /\ MaxUnits \in Nat /\ p \in Pids
      /\ DOMAIN units[p] = 1..CurrentUnit(p)
  BY CarriedPids, UnitsAreSeq, SenderAssumption DEF BaseInv, StreamInv, SaidInv
<1>2. announced'[p] = Unknown /\ units' = units /\ mPesPacket'[p] = NoPes
  BY <1>1 DEF BeginWebAssembly, NewStream, sender
<1>3. ~Held(p)'
  BY <1>2 DEF Held
<1>4. \A u \in DOMAIN units'[p] : ~(announced'[p] < u)
  BY <1>1, <1>2 DEF Unknown
<1> QED
  BY <1>3, <1>4 DEF Delivers, HeldShort, NoneIsLost

\* A PES packet of a PID that is announced has its callback, if it is wanted.
LEMMA AnnouncedAreRegistered ==
  ASSUME BaseInv, TablesInv, stage = "pes", callback = NoCallback, NEW p \in PesPids, current.pid = p,
         announced[p] <= CurrentUnit(p), program = "tsparser" => p \in options.write
  PROVE  p \in mPesCallbackMap
<1>1. announced[p] # Unknown
  <2>1. CurrentUnit(p) <= MaxUnits /\ announced[p] \in Int
    BY CarriedPids DEF TablesInv, SaidInv
  <2>2. CurrentUnit(p) \in Nat /\ MaxUnits \in Nat
    BY CarriedPids, UnitsAreSeq, SenderAssumption DEF BaseInv, StreamInv
  <2> QED
    BY <2>1, <2>2 DEF Unknown
<1>2. Coming(p)
  BY <1>1 DEF TablesInv, AnnouncedInv
<1>3. p \in Expected
  <2>1. ~InHand
    BY DEF InHand
  <2> QED
    BY <1>2, <2>1 DEF Coming, OnTable
<1>4. Range(<<>>) = {}
  BY DEF Range
<1> QED
  BY <1>3, <1>4 DEF TablesInv, SettledInv, Expected

\* What collectPes is given is called back, or stays under collection.
LEMMA CollectDelivers ==
  ASSUME BaseInv, TablesInv, StageStep, NEW p \in PesPids, PesStage, Pid = p, PesPart(p), Delivers(p)
  PROVE  Delivers(p)'
<1>1. /\ StageFrame /\ callback = NoCallback /\ stage = "pes"
      /\ StreamInv /\ UnderWayInv /\ RegisteredInv /\ p \in Pids /\ SenderInv
  BY StageKeeps, CarriedPids DEF StageStep, BaseInv, StreamInv, PesStage
<1>2. PICK q \in Carrying, c \in Nat, first \in Nat, last \in Nat : Flight(q, c, first, last)
  BY <1>1, InFlight
<1>3. /\ q = p /\ c \in Nat \ {0} /\ CurrentUnit(p) = c /\ c \in DOMAIN units[p] /\ before[p] < c
      /\ units[p][c].sent = last /\ first \in Nat \ {0} /\ last \in Nat \ {0} /\ current.pid = p
      /\ last - first + 1 <= MaxPayload
  <2>1. last \in Nat /\ first \in 1..last
    BY <1>2 DEF Flight
  <2>2. first \in Nat \ {0} /\ last \in Nat \ {0}
    BY <2>1
  <2> QED
    BY <1>2, <2>2 DEF Flight, Carries
<1>4. Flight(p, c, first, last)
  BY <1>2, <1>3
<1>5. CollectsNothing(p, first) \/ CollectsMore(p, c, first, last) \/ CollectsAll(p, c, first, last)
  BY <1>1, <1>4, PesCollects DEF PesPart
<1>6. /\ units' = units /\ program' = program /\ options' = options /\ before' = before /\ kept' = kept
      /\ CurrentUnit(p)' = c /\ announced' = announced /\ pmtPids' = pmtPids /\ prevPmts' = prevPmts
  BY <1>1, <1>3 DEF StageFrame, CurrentUnit, StageStep, Stage, said, tables
<1>7. Grows(p)
  BY <1>1, <1>6, UnitsStay
<1>8. stage' = "end"
  BY <1>1, PesMoves DEF RegisteredInv
<1>9. SeenUnit(p)' = c /\ SeenCells(p)' = last
  BY <1>3, <1>6, <1>8, NextCollected
<1>10. SeenUnit(p) = IF first = 1 THEN c - 1 ELSE c
  BY <1>1, <1>4, SeenBefore
<1>11. announced[p] \in Int /\ before[p] \in Int /\ before[p] <= announced[p] /\ DOMAIN units[p] = 1..c
  BY <1>1, <1>3, UnitsAreSeq DEF TablesInv, SaidInv, AnnouncedInv, StreamInv
<1>12. \A u \in DOMAIN units[p] :
         /\ IsKept(p, u)' => IsKept(p, u)
         /\ IsThere(p, u)' <=> IsThere(p, u)
         /\ UnitSize(p, units[p][u].head)' = UnitSize(p, units[p][u].head)
         /\ AtNext(p, u)' <=> AtNext(p, u)
  <2>1. program = "tsparser" /\ IsVideo(p) => IsVideo(p)'
    BY VideoStays DEF Steps, TablesInv, SaidInv
  <2> QED
    BY <1>6, <1>7, <2>1, KeptStill
<1>13. ASSUME NEW u \in Nat \ {0}, Pending(p)', callback'.raw = Cells(p, u, 1, units[p][u].sent),
              units[p][u].sent \in Nat \ {0}
       PROVE  ComesOut(p, u)'
  <2>1. PendingUnit' = u
    BY <1>1, <1>13, FirstCell DEF PendingUnit
  <2> QED
    BY <1>13, <2>1 DEF ComesOut
<1>14. ASSUME Held(p), first = 1
       PROVE  /\ c - 1 \in Nat \ {0} /\ units[p][c - 1].sent \in Nat \ {0} /\ c - 1 \in DOMAIN units[p]
              /\ announced[p] < c - 1 => c - 1 \in Whole(p)
  <2>1. /\ Keepable(p, c - 1) /\ c - 1 \in Nat \ {0} /\ units[p][c - 1].sent \in Nat \ {0}
    BY <1>1, <1>4, <1>14, CollectedIsKeepable DEF PesPart
  <2>2. c - 1 \in DOMAIN units[p]
    BY <2>1 DEF Keepable
  <2>3. ASSUME announced[p] < c - 1 PROVE c - 1 \in Whole(p)
    <3>1. before[p] < c - 1 /\ c - 1 < CurrentUnit(p)
      BY <1>3, <1>11, <2>3
    <3> QED
      BY <1>1, <2>2, <3>1 DEF StreamInv, StreamOn
  <2> QED
    BY <2>1, <2>2, <2>3
<1>15. HeldShort(p)'
  <2> SUFFICES ASSUME Held(p)', last = UnitSize(p, units[p][c].head) PROVE AtNext(p, c)
    BY <1>3, <1>6, <1>9, <1>12 DEF HeldShort
  <2>1. c \in Whole(p)
    BY <1>3 DEF Whole
  <2>2. CASE CollectsMore(p, c, first, last)
    <3>1. first = 1
      BY <2>1, <2>2 DEF CollectsMore
    <3>2. last <= MaxPayload
      BY <1>3, <3>1, Numbers
    <3> QED
      BY <3>2 DEF AtNext
  <2>3. CASE ~CollectsMore(p, c, first, last)
    BY <1>5, <2>3 DEF CollectsNothing, CollectsAll, Held
  <2> QED
    BY <2>2, <2>3
<1>16. ASSUME NEW u \in DOMAIN units[p], announced[p] < u, u <= SeenUnit(p)
       PROVE  ComesOut(p, u)'
  <2>1. ComesOut(p, u) /\ ~Pending(p)
    BY <1>1, <1>16 DEF Delivers, NoneIsLost, Pending
  <2>2. CASE IsKept(p, u) => IsThere(p, u)
    <3>1. IsKept(p, u)' => IsThere(p, u)'
      BY <1>12, <2>2
    <3> QED
      BY <3>1 DEF ComesOut
  <2>3. CASE Held(p) /\ u = SeenUnit(p) /\ first = 1
    <3>1. u = c - 1 /\ u \in Whole(p) /\ u \in Nat \ {0} /\ units[p][u].sent \in Nat \ {0}
      BY <1>10, <1>14, <1>16, <2>3
    <3>2. Calls("pes", Cells(p, u, 1, units[p][u].sent))
      BY <1>5, <2>3, <3>1 DEF CollectsNothing, CollectsMore, CollectsAll
    <3>3. Pending(p)' /\ callback'.raw = Cells(p, u, 1, units[p][u].sent)
      BY <3>2 DEF Pending, Calls
    <3> QED
      BY <1>13, <3>1, <3>3
  <2>4. CASE Held(p) /\ u = SeenUnit(p) /\ first # 1
    <3>1. u = c
      BY <1>10, <2>4
    <3>2. CASE CollectsMore(p, c, first, last)
      BY <1>9, <3>1, <3>2 DEF CollectsMore, Held, ComesOut
    <3>3. CASE CollectsAll(p, c, first, last)
      <4>1. Pending(p)' /\ callback'.raw = Cells(p, u, 1, units[p][u].sent)
        BY <1>3, <3>1, <3>3 DEF CollectsAll, Pending, Calls
      <4> QED
        BY <1>3, <1>13, <3>1, <4>1
    <3> QED
      BY <1>5, <2>4, <3>2, <3>3 DEF CollectsNothing
  <2> QED
    BY <2>1, <2>2, <2>3, <2>4 DEF ComesOut
<1>17. ASSUME announced[p] < c, first = 1
       PROVE  ComesOut(p, c)'
  <2>1. CASE CollectsMore(p, c, first, last)
    BY <1>9, <2>1 DEF CollectsMore, Held, ComesOut
  <2>2. CASE CollectsNothing(p, first)
    <3>1. p \notin mPesCallbackMap
      BY <1>17, <2>2 DEF CollectsNothing
    <3>2. announced[p] <= CurrentUnit(p)
      BY <1>3, <1>11, <1>17
    <3>3. ~(program = "tsparser" => p \in options.write)
      BY <1>1, <1>3, <3>1, <3>2, AnnouncedAreRegistered
    <3>4. ~IsKept(p, c)
      BY <3>3 DEF IsKept
    <3>5. ~IsKept(p, c)'
      BY <1>3, <1>12, <3>4
    <3> QED
      BY <3>5 DEF ComesOut
  <2>3. CASE CollectsAll(p, c, first, last)
    BY <1>17, <2>3 DEF CollectsAll
  <2> QED
    BY <1>5, <2>1, <2>2, <2>3
<1>18. NoneIsLost(p)'
  <2> SUFFICES ASSUME NEW u \in DOMAIN units[p], announced[p] < u, u <= c PROVE ComesOut(p, u)'
    BY <1>6, <1>9 DEF NoneIsLost
  <2>1. u \in Int
    BY <1>11
  <2>2. u <= SeenUnit(p) \/ (u = c /\ first = 1)
    BY <1>3, <1>10, <2>1
  <2> QED
    BY <1>16, <1>17, <2>2
<1> QED
  BY <1>15, <1>18 DEF Delivers

\* What is called back is kept.
LEMMA PesReturnDelivers ==
  ASSUME BaseInv, TablesInv, PesReturns, NEW p \in PesPids, Pending(p), PesPart(p), Delivers(p)
  PROVE  Delivers(p)'
<1>1. /\ stage = "end" /\ callback' = NoCallback /\ p \in Pids /\ SenderInv /\ callback.pid = p
      /\ UNCHANGED <<mPesPacket, units, before, program, options, announced>>
      /\ stage' \in {"idle", "end"}
  <2>1. /\ callback' = NoCallback /\ UNCHANGED <<mPesPacket, units, before, program, options>>
        /\ stage' = "idle" \/ stage' = stage
    BY ReturnsKeepBase
  <2>2. callback # NoCallback /\ callback.kind = "pes" /\ callback.pid = p
    BY DEF Pending
  <2>3. stage = "end"
    BY <2>2 DEF BaseInv, CallbackInv
  <2>4. announced' = announced
    BY DEF PesReturns, CallbackStep, said
  <2> QED
    BY <2>1, <2>2, <2>3, <2>4, CarriedPids DEF BaseInv, StreamInv
<1>2. PICK c \in Nat : CurrentUnit(p) = c /\ CurrentUnit(p)' = c /\ DOMAIN units[p] = 1..c
  BY <1>1, UnitsAreSeq DEF CurrentUnit
<1>3. PICK n : n = PendingUnit
  OBVIOUS
<1>4. /\ Keepable(p, n) /\ callback.raw = Cells(p, n, 1, units[p][n].sent) /\ n \in 1..c /\ n \in Nat
      /\ Held(p) => n < c
  BY <1>2, <1>3 DEF PesPart, PendingInv, Keepable
<1>5. ~Ahead(p) /\ ~Ahead(p)' /\ (Held(p)' <=> Held(p))
  BY <1>1 DEF Ahead, Held
<1>6. /\ SeenUnit(p) = c /\ SeenUnit(p)' = c
      /\ SeenCells(p) = units[p][c].sent /\ SeenCells(p)' = units[p][c].sent
  BY <1>1, <1>2, <1>5 DEF SeenUnit, SeenCells
<1>7. Grows(p)
  BY <1>1, UnitsStay
<1>8. \A u \in DOMAIN units[p] : Part(p, u)' = Part(p, u) /\ (IsKept(p, u)' => IsKept(p, u))
  <2>1. program = "tsparser" /\ IsVideo(p) => IsVideo(p)'
    BY VideoStays DEF Steps, TablesInv, SaidInv
  <2> QED
    BY <1>7, <2>1, KeptStill
<1>9. PICK e : e = Entry(PesForm(callback.raw), OriginOf(p), <<>>)
  OBVIOUS
<1>10. PICK old : old = kept[p] /\ IsSeq(old)
  BY <1>1 DEF BaseInv, RegisteredInv
<1>11. kept'[p] = IF PesIsKept(p, callback.raw) THEN Append(old, e) ELSE old
  <2>1. p \in DOMAIN kept
    BY <1>1 DEF BaseInv, RegisteredInv
  <2> QED
    BY <1>1, <1>9, <1>10, <2>1 DEF PesReturns
<1>12. PICK len \in Nat :
         /\ len = Len(old) /\ DOMAIN old = 1..len
         /\ DOMAIN Append(old, e) = 1..(len + 1) /\ Append(old, e)[len + 1] = e
         /\ \A i \in DOMAIN old : Append(old, e)[i] = old[i]
  BY <1>10, AppendIsSeq
<1>13. ASSUME NEW u \in DOMAIN units[p], IsThere(p, u) PROVE IsThere(p, u)'
  <2>1. PICK i \in DOMAIN old : old[i].raw = Part(p, u)
    BY <1>10, <1>13 DEF IsThere
  <2>2. i \in DOMAIN kept'[p] /\ kept'[p][i] = old[i]
    BY <1>11, <1>12, <2>1
  <2> QED
    BY <1>8, <2>1, <2>2 DEF IsThere
<1>14. ASSUME announced[p] < n, IsKept(p, n) PROVE IsThere(p, n)'
  <2>1. n \in Whole(p) /\ n \in DOMAIN units[p]
    <3>1. n \in DOMAIN units[p] /\ (n \in Whole(p) \/ n < c)
      BY <1>2, <1>4 DEF Keepable
    <3>2. before[p] <= announced[p] /\ before[p] \in Int /\ announced[p] \in Int
      BY <1>1 DEF TablesInv, AnnouncedInv, SaidInv, BaseInv, StreamInv
    <3>3. before[p] < n
      BY <1>4, <1>14, <3>2
    <3>4. StreamOn(p)
      BY <1>1 DEF BaseInv, StreamInv
    <3> QED
      BY <1>2, <3>1, <3>3, <3>4 DEF StreamOn
  <2>2. units[p][n].sent \in Nat \ {0}
    <3>1. /\ units[p][n].head \in HeadsOf(p) /\ units[p][n].sent \in 1..UnitSize(p, units[p][n].head)
          /\ p \in Carrying
      BY <1>1, <2>1 DEF BaseInv, StreamInv, StreamOn
    <3>2. UnitSize(p, units[p][n].head) \in Nat
      BY <3>1, UnitSizes
    <3> QED
      BY <3>1, <3>2
  <2>3. HeadOf(callback.raw) = units[p][n].head
    BY <1>1, <1>4, <2>2, FirstCell
  <2>4. PesIsKept(p, callback.raw)
    BY <1>14, <2>3 DEF IsKept, IsVideo, PesIsKept, PesThrows
  <2>5. PesForm(callback.raw) = Part(p, n)
    BY <1>4, <2>1, FormIsPart
  <2>6. len + 1 \in DOMAIN kept'[p] /\ kept'[p][len + 1] = e
    BY <1>11, <1>12, <2>4
  <2>7. e.raw = Part(p, n)'
    BY <1>8, <1>9, <2>1, <2>5 DEF Entry
  <2> QED
    BY <2>6, <2>7 DEF IsThere
<1>15. HeldShort(p)'
  BY <1>1, <1>5, <1>6 DEF Delivers, HeldShort, AtNext, UnitSize
<1>16. NoneIsLost(p)'
  <2> SUFFICES ASSUME NEW u \in DOMAIN units[p], announced[p] < u, u <= c PROVE ComesOut(p, u)'
    BY <1>1, <1>6 DEF NoneIsLost
  <2>1. ComesOut(p, u)
    BY <1>6 DEF Delivers, NoneIsLost
  <2>2. CASE Held(p) /\ SeenUnit(p) = u
    BY <1>5, <1>6, <2>2 DEF ComesOut
  <2>3. CASE ~(Held(p) /\ SeenUnit(p) = u)
    <3>1. IsKept(p, u)' => IsThere(p, u)'
      BY <1>3, <1>8, <1>13, <1>14, <2>1, <2>3 DEF ComesOut
    <3> QED
      BY <3>1 DEF ComesOut
  <2> QED
    BY <2>2, <2>3
<1> QED
  BY <1>15, <1>16 DEF Delivers

-----------------------------------------------------------------------------
(* The invariant, and what it says *)

LEMMA InitFollows == Init => SectionsInv /\ FollowInv
<1> SUFFICES ASSUME Init PROVE SectionsInv /\ FollowInv
  OBVIOUS
<1>1. /\ units = [p \in Pids |-> <<>>] /\ before = [p \in Pids |-> 0] /\ parses = 0 /\ stage = "idle"
      /\ mPesPacket = [p \in Pids |-> NoPes] /\ callback = NoCallback /\ phase = "read"
      /\ prevPat = NoPat /\ lastPat = NoPat /\ pmtPids = <<>> /\ esPids = <<>> /\ addedPmts = FALSE
      /\ prevPmts = NoPmts /\ pats = <<>> /\ pmtsSeen = [p \in PmtPids |-> {}]
      /\ announced = [p \in PesPids |-> Unknown]
  BY DEF Init, InitDemuxer, InitSender, InitPes
<1>2. SectionsInv
  BY DEF Init, InitDemuxer, InitSections, SectionsInv
<1>3. ~InHand /\ Handled = 0 /\ NotYet = {} /\ Range(<<>>) = {}
  BY <1>1 DEF InHand, Handled, OnTable, NotYet, Range
<1>4. MaxUnits \in Nat /\ Unknown \in Int /\ \A p \in Pids : CurrentUnit(p) = 0
  BY <1>1, SenderAssumption DEF Unknown, CurrentUnit
<1>5. SaidInv
  <2>1. <<>> \in Seq(Pids) /\ <<>> \in Seq(HeadsOf(0))
    OBVIOUS
  <2>2. DOMAIN prevPmts = PmtPids /\ announced \in [PesPids -> Int]
    BY <1>1, <1>4 DEF NoPmts
  <2>3. addedPmts \in BOOLEAN
    BY <1>1
  <2> QED
    BY <1>1, <1>4, <2>1, <2>2, <2>3 DEF SaidInv
<1>6. PatsInv
  <2> HIDE DEF Handled
  <2> QED
    BY <1>1, <1>3 DEF PatsInv
<1>7. SettledInv
  BY <1>1, <1>3 DEF SettledInv
<1>8. PmtsInv
  BY <1>1 DEF PmtsInv, NoPmts
<1>9. AnnouncedInv
  <2>1. \A e \in PesPids : announced[e] = Unknown /\ before[e] = 0
    BY <1>1, CarriedPids
  <2> QED
    BY <1>4, <2>1 DEF AnnouncedInv, Unknown
<1>10. DeliveryInv
  <2> SUFFICES ASSUME NEW p \in PesPids PROVE HeldShort(p) /\ NoneIsLost(p)
    BY DEF DeliveryInv
  <2>1. ~Held(p) /\ DOMAIN units[p] = {}
    BY <1>1, CarriedPids DEF Held
  <2> QED
    BY <2>1 DEF HeldShort, NoneIsLost
<1> QED
  BY <1>2, <1>5, <1>6, <1>7, <1>8, <1>9, <1>10 DEF FollowInv, TablesInv

\* The process has not ended where it goes on, and its command line stays.
LEMMA GoesOnWith ==
  ASSUME Steps
  PROVE  (~exited' => ~exited) /\ options' = options
<1>1. options' = options
  BY StageKeeps
     DEF Steps, FeedStep, Feed, StageStep, StageFrame, LocateStep, AddStep, BeginStep, BeginUtilities,
         BeginTsparser, BeginWebAssembly, NewStream, TsReturns, PesReturns, PatReturns, PmtReturns,
         CallbackStep, run
<1>2. ~exited' => ~exited
  BY DEF Steps, FeedStep, Feed, StageStep, Stage, LocateStep, AddStep, BeginStep, BeginUtilities,
         BeginTsparser, BeginWebAssembly, NewStream, TsReturns, PesReturns, PatReturns, PmtReturns,
         CallbackStep, run
<1> QED
  BY <1>1, <1>2

LEMMA StepsFollow ==
  ASSUME IInv, SectionsInv, FollowInv, Steps
  PROVE  FollowInv'
<1> SUFFICES ASSUME ~exited', options'.mode # "ts" PROVE TablesInv' /\ DeliveryInv'
  BY DEF FollowInv
<1>1. ~exited /\ options.mode # "ts" /\ TablesInv /\ DeliveryInv /\ BaseInv
  BY GoesOnWith DEF FollowInv, IInv, BaseInv
<1>2. TablesInv'
  BY <1>1, FeedKeepsTables, LocateKeepsTables, AddKeepsTables, BeginKeepsTables, StageKeepsTables,
     OtherReturnKeepsTables, PatReturnKeepsTables, PmtReturnKeepsTables DEF Steps
<1>3. ASSUME NEW p \in PesPids PROVE Delivers(p)'
  <2>1. PesPart(p) /\ Delivers(p)
    BY <1>1 DEF IInv, PesInv, PesPart, DeliveryInv, Delivers
  <2>2. CASE BeginWebAssembly
    BY <1>1, <2>2, PageBeginDelivers DEF TablesInv
  <2>3. CASE StageStep /\ PesStage /\ Pid = p
    BY <1>1, <2>1, <2>3, CollectDelivers
  <2>4. CASE PesReturns /\ Pending(p)
    BY <1>1, <2>1, <2>4, PesReturnDelivers
  <2>5. CASE ~BeginWebAssembly /\ ~(PesStage /\ Pid = p) /\ ~Pending(p)
    BY <1>1, <1>2, <2>1, <2>5, PassingDelivers
  <2>6. PesStage => StageStep
    <3> SUFFICES ASSUME PesStage, ~StageStep PROVE FALSE
      OBVIOUS
    <3>1. callback = NoCallback /\ stage = "pes" /\ stage' = "end"
      <4>1. UnderWayInv /\ RegisteredInv /\ StreamInv /\ stage = "pes" /\ callback = NoCallback
        BY <1>1 DEF BaseInv, PesStage
      <4>2. PICK q \in Carrying, c \in Nat, first \in Nat, last \in Nat : Flight(q, c, first, last)
        BY <4>1, InFlight
      <4>3. Pid \in Pids
        BY <4>2 DEF Flight
      <4> QED
        BY <4>1, <4>3, PesMoves DEF RegisteredInv
    <3> QED
      BY <3>1 DEF Steps, FeedStep, Feed, FeedStart, FeedMore, demux, LocateStep, AddStep, BeginStep,
                  BeginUtilities, BeginTsparser, BeginWebAssembly, NewStream, TsReturns, PesReturns,
                  PatReturns, PmtReturns, CallbackStep
  <2>7. Pending(p) => PesReturns
    <3> SUFFICES ASSUME Pending(p), ~PesReturns PROVE FALSE
      OBVIOUS
    <3>1. callback # NoCallback /\ callback.kind = "pes" /\ stage = "end"
      BY <1>1 DEF Pending, BaseInv, CallbackInv
    <3>2. ~StageStep
      BY <3>1, StageKeeps DEF StageStep
    <3> QED
      BY <3>1, <3>2 DEF Steps, FeedStep, Feed, FeedStart, FeedMore, demux, LocateStep, AddStep, BeginStep,
                        BeginUtilities, BeginTsparser, BeginWebAssembly, NewStream, TsReturns,
                        PatReturns, PmtReturns
  <2> QED
    BY <2>2, <2>3, <2>4, <2>5, <2>6, <2>7
<1> QED
  BY <1>2, <1>3 DEF DeliveryInv, Delivers

\* Nothing changes.
LEMMA StutterFollows ==
  ASSUME IInv, SectionsInv, FollowInv, UNCHANGED vars
  PROVE  SectionsInv' /\ FollowInv'
<1>1. /\ UNCHANGED <<units, before, program, options, parses, stage, current, callback, kept, mPesPacket,
                     mPsiCallbackMap, mPesCallbackMap, pmtPids, prevPat, prevPmts, esPids, addedPmts,
                     pats, lastPat, pmtsSeen, announced, phase, exited, mReadSectionLength,
                     mSectionLength, mTableId>>
  BY DEF vars, demuxer, registrations, collectors, sections, sender, tables, found, run, parse, said
<1>2. SectionsInv'
  BY <1>1 DEF SectionsInv
<1>3. ASSUME TablesInv PROVE TablesInv'
  <2>1. TablesFrame
    BY <1>1 DEF TablesFrame
  <2>2. GoesOn
    BY <1>1 DEF GoesOn, InHand, OnTable
  <2> QED
    BY <1>3, <2>1, <2>2, TablesRest
<1>4. ASSUME NEW p \in PesPids, Delivers(p) PROVE Delivers(p)'
  <2>1. (Ahead(p)' <=> Ahead(p)) /\ (Ahead(p) => First' = First)
    BY <1>1 DEF Ahead, First
  <2>2. SeenUnit(p)' = SeenUnit(p) /\ SeenCells(p)' = SeenCells(p)
    BY <1>1, <2>1, SightStays
  <2>3. (Pending(p)' <=> Pending(p)) /\ (Held(p)' <=> Held(p)) /\ PendingUnit' = PendingUnit
    BY <1>1 DEF Pending, Held, PendingUnit
  <2>4. \A q : ListsVideo(q, p)' <=> ListsVideo(q, p)
    BY <1>1, ListingStays
  <2>5. IsVideo(p)' <=> IsVideo(p)
    BY <1>1, <2>4 DEF IsVideo, VideoCalls
  <2>6. \A u : (IsKept(p, u)' <=> IsKept(p, u)) /\ (IsThere(p, u)' <=> IsThere(p, u))
    BY <1>1, <2>5 DEF IsKept, IsThere, Part, Unit
  <2>7. HeldShort(p)'
    BY <1>1, <1>4, <2>2, <2>3 DEF Delivers, HeldShort, AtNext, UnitSize
  <2>8. NoneIsLost(p)'
    <3> SUFFICES ASSUME NEW u \in DOMAIN units[p], announced[p] < u, u <= SeenUnit(p)
                 PROVE  ComesOut(p, u)'
      BY <1>1, <2>2 DEF NoneIsLost
    <3>1. ComesOut(p, u)
      BY <1>4 DEF Delivers, NoneIsLost
    <3> QED
      BY <2>2, <2>3, <2>6, <3>1 DEF ComesOut
  <2> QED
    BY <2>7, <2>8 DEF Delivers
<1>5. DeliveryInv => DeliveryInv'
  BY <1>4 DEF DeliveryInv, Delivers
<1> QED
  BY <1>1, <1>2, <1>3, <1>5 DEF FollowInv

LEMMA NextFollows == IInv /\ SectionsInv /\ FollowInv /\ [Next]_vars => SectionsInv' /\ FollowInv'
<1>1. ASSUME IInv, SectionsInv, FollowInv, Next PROVE SectionsInv' /\ FollowInv'
  <2>1. CallbackKinds
    BY <1>1 DEF IInv, CallbackInv, CallbackKinds
  <2>2. Steps
    BY <1>1, <2>1, NextIsSteps
  <2> QED
    BY <1>1, <2>2, SectionsStay, StepsFollow
<1> QED
  BY <1>1, StutterFollows

LEMMA FollowedIsKept == IInv /\ FollowInv => AnnouncedAreKept
<1> SUFFICES ASSUME IInv, FollowInv, Between, NEW p \in PesPids, NEW u \in Due(p), IsKept(p, u)
             PROVE  \E i \in DOMAIN kept[p] : kept[p][i].raw = Part(p, u)
  BY DEF AnnouncedAreKept
<1>1. options.mode # "ts"
  BY DEF IsKept, IInv, RegisteredInv
<1>2. DeliveryInv /\ stage = "idle" /\ callback = NoCallback /\ p \in Pids /\ SenderInv
  BY <1>1, IdleCallsNobody, CarriedPids DEF Between, FollowInv, IInv, StreamInv
<1>3. PICK c \in Nat : c = CurrentUnit(p) /\ DOMAIN units[p] = 1..c
  BY <1>2, UnitsAreSeq
<1>4. SeenUnit(p) = c /\ SeenCells(p) = units[p][c].sent /\ ~Pending(p)
  BY <1>2, <1>3 DEF SeenUnit, SeenCells, Ahead, Pending
<1>5. /\ u \in 1..c /\ announced[p] < u /\ units[p][u].sent = UnitSize(p, units[p][u].head)
      /\ UnitSize(p, units[p][u].head) > MaxPayload \/ u < c
  BY <1>3 DEF Due, Whole
<1>6. ComesOut(p, u)
  BY <1>2, <1>3, <1>4, <1>5 DEF DeliveryInv, NoneIsLost
<1>7. ~(Held(p) /\ u = c)
  <2> SUFFICES ASSUME Held(p), u = c PROVE FALSE
    OBVIOUS
  <2>1. AtNext(p, c)
    BY <1>2, <1>4, <1>5 DEF DeliveryInv, HeldShort
  <2>2. UnitSize(p, units[p][c].head) \in Int
    BY <1>2, <1>3, <1>5, UnitsAreSeq
  <2> QED
    BY <1>5, <2>1, <2>2, Numbers DEF AtNext
<1> QED
  BY <1>4, <1>6, <1>7 DEF ComesOut, IsThere

\* Every PES packet of a PID that is announced is kept from then on, whatever
\* packets, tables and parses there are.
THEOREM AnnouncedAreAlwaysKept == Spec => []AnnouncedAreKept
<1>1. Init => IInv /\ SectionsInv /\ FollowInv
  BY InitIsOrdered, InitFollows
<1>2. IInv /\ SectionsInv /\ FollowInv /\ [Next]_vars => (IInv /\ SectionsInv /\ FollowInv)'
  BY NextKeeps, NextFollows
<1>3. IInv /\ FollowInv => AnnouncedAreKept
  BY FollowedIsKept
<1> QED
  BY <1>1, <1>2, <1>3, PTL DEF Spec
=============================================================================
