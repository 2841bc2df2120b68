----------------------------- MODULE TsDemuxer ------------------------------
(***************************************************************************)
(* TsDemuxer (libs/mpeg2ts/src/TsDemuxer.cc), on top of the two collectors *)
(* of its TsParser: the registration of callbacks and the demultiplexing   *)
(* of one TS packet.                                                       *)
(*                                                                         *)
(* A call of demux goes through stages, because its callbacks may register *)
(* further callbacks before they return: stage is where the call under way *)
(* stands, current its packet, and callback what it is calling.  A         *)
(* callback does not register anew what it was itself registered as.       *)
(***************************************************************************)
EXTENDS PsiCollector, PesCollector

CONSTANT NullPid        (* TS_PACKET_PID_NULL. *)

VARIABLES
  mTsCallbackMap, mPsiCallbackMap, mPesCallbackMap,    (* The PIDs in them.      *)
  mHandlers,            (* Per PID: its custom handler.                          *)
  mOrigin,
  mPidStatistics, mCounters,
  stage, current, callback

registrations == <<mTsCallbackMap, mPsiCallbackMap, mPesCallbackMap, mHandlers>>
statistics    == <<mPidStatistics, mCounters>>
collectors    == <<sections, psiOut, mPesPacket, pesOut, mOrigins>>

NoPacket   == <<>>
NoHandler  == "null"
NoCallback == [kind |-> "none"]

Info == parseTsPacketInfo(current)
Pid  == Info.pid

InitDemuxer ==
  /\ InitSections /\ InitPes /\ InitOrigins
  /\ mTsCallbackMap = {} /\ mPsiCallbackMap = {} /\ mPesCallbackMap = {}
  /\ mHandlers = [p \in Pids |-> NoHandler]
  /\ mOrigin = 0
  /\ mPidStatistics = [p \in Pids |-> NewPidStatistic]
  /\ mCounters = [packets |-> 0, null |-> 0, errors |-> 0]
  /\ stage = "idle" /\ current = NoPacket /\ callback = NoCallback

\* A demultiplexer takes the place of this one and gets PSI callbacks for `psi`.
FreshDemuxer(psi) ==
  /\ mTsCallbackMap' = {} /\ mPsiCallbackMap' = psi /\ mPesCallbackMap' = {}
  /\ mHandlers' = [p \in Pids |-> NoHandler]
  /\ mSectionBuffer' = [p \in Pids |-> <<>>] /\ mReadSectionLength' = [p \in Pids |-> 0]
  /\ mSectionLength' = [p \in Pids |-> 0] /\ mTableId' = [p \in Pids |-> PSI_TABLE_ID_PAT]
  /\ psiOut' = PSI_TABLE_ID_INCOMPLETE
  /\ mPesPacket' = [p \in Pids |-> NoPes] /\ pesOut' = NoPes
  /\ mOrigins' = [p \in Pids |-> 0] /\ mOrigin' = 0
  /\ mPidStatistics' = [p \in Pids |-> NewPidStatistic]
  /\ mCounters' = [packets |-> 0, null |-> 0, errors |-> 0]
  /\ UNCHANGED <<stage, current, callback>>

-----------------------------------------------------------------------------
(* The API.  It is called between two calls of demux or from a callback.   *)

ApiCanBeCalled == stage = "idle" \/ callback # NoCallback

\* One handler per PID, that of the registration made last.
FirstHandler(old, hdl) == IF old = NoHandler THEN hdl ELSE old                  \* mutant
Handler(old, hdl) == hdl

addTsPid(pid, hdl) ==
  /\ mTsCallbackMap' = mTsCallbackMap \cup {pid}
  /\ mHandlers' = [mHandlers EXCEPT ![pid] = Handler(@, hdl)]
  /\ UNCHANGED <<mPsiCallbackMap, mPesCallbackMap>>

addPsiPid(pid, hdl) ==
  /\ mPsiCallbackMap' = mPsiCallbackMap \cup {pid}
  /\ mHandlers' = [mHandlers EXCEPT ![pid] = Handler(@, hdl)]
  /\ UNCHANGED <<mTsCallbackMap, mPesCallbackMap>>

addPesPid(pid, hdl) ==
  /\ mPesCallbackMap' = mPesCallbackMap \cup {pid}
  /\ mHandlers' = [mHandlers EXCEPT ![pid] = Handler(@, hdl)]
  /\ UNCHANGED <<mTsCallbackMap, mPsiCallbackMap>>

setOrigin(origin) ==
  /\ mOrigin' = origin
  /\ UNCHANGED <<registrations, statistics, collectors, stage, current, callback>>

-----------------------------------------------------------------------------
(* demux *)

Count(field) == [mCounters EXCEPT ![field] = @ + 1]

CountedEarly(pkt) ==                                                            \* mutant
  IF pkt.pid = NullPid THEN mCounters ELSE Count("packets")
Counted(pkt) == IF pkt.errorIndicator THEN Count("errors") ELSE mCounters

\* The call begins; a null packet ends it at once.
demux(pkt) ==
  /\ stage = "idle"
  /\ IF pkt.pid = NullPid
     THEN /\ mCounters' = [Counted(pkt) EXCEPT !.null = @ + 1]
          /\ UNCHANGED <<stage, current>>
     ELSE /\ mCounters' = Counted(pkt)
          /\ stage' = "ts" /\ current' = pkt
  /\ UNCHANGED <<registrations, mOrigin, mPidStatistics, collectors, callback>>

\* An exception leaves demux without counting the packet.
AbortKeeping == stage' = "idle" /\ UNCHANGED <<current, callback>>              \* mutant
Abort == stage' = "idle" /\ current' = NoPacket /\ UNCHANGED callback

\* The stage goes on to the next one, or calls back first.
Proceed(next) == stage' = next /\ UNCHANGED <<current, callback>>
Call(next, kind, raw) ==
  /\ stage' = next
  /\ callback' = [kind |-> kind, pid |-> Pid, hdl |-> mHandlers[Pid], raw |-> raw]
  /\ UNCHANGED current

CallbackReturns ==
  /\ callback # NoCallback
  /\ callback' = NoCallback
  /\ UNCHANGED <<registrations, mOrigin, statistics, collectors, stage, current>>

TsStage ==
  /\ stage = "ts" /\ callback = NoCallback
  /\ IF Pid \in mTsCallbackMap THEN Call("psi", "ts", current.bytes) ELSE Proceed("psi")
  /\ UNCHANGED <<registrations, mOrigin, statistics, collectors>>

\* `parsable` says that the table in the buffer can be parsed for certain; the
\* parse of another one may throw or not.
CollectTable(parsable) ==
  /\ collectTable(current, Info, mOrigin)
  /\ mPidStatistics' = [mPidStatistics EXCEPT ![Pid] = PsiStatistics(@, Info)]
  /\ \/ /\ CallsBack(Pid, psiOut')
        /\ Call("pes", "psi", mSectionBuffer'[Pid])
     \/ /\ \/ psiOut' = Throws
           \/ CallsBack(Pid, psiOut') /\ ~parsable
        /\ Abort
     \/ /\ psiOut' # Throws /\ ~CallsBack(Pid, psiOut')
        /\ Proceed("pes")
  /\ UNCHANGED <<registrations, mOrigin, mCounters, mPesPacket, pesOut>>

PsiStage(parsable) ==
  /\ stage = "psi" /\ callback = NoCallback
  /\ IF Pid \in mPsiCallbackMap THEN CollectTable(parsable)
     ELSE /\ Proceed("pes")
          /\ UNCHANGED <<registrations, mOrigin, statistics, collectors>>

CollectPes ==
  /\ collectPes(current, Info, mOrigin)
  /\ mPidStatistics' = [mPidStatistics EXCEPT ![Pid] = PesStatistics(@, Info, pesOut')]
  /\ IF pesOut' # NoPes THEN Call("end", "pes", pesOut'.mPesBuffer) ELSE Proceed("end")
  /\ UNCHANGED <<registrations, mOrigin, mCounters, sections, psiOut>>

PesStage ==
  /\ stage = "pes" /\ callback = NoCallback
  /\ IF Pid \in mPesCallbackMap THEN CollectPes
     ELSE /\ Proceed("end")
          /\ UNCHANGED <<registrations, mOrigin, statistics, collectors>>

\* The packet is counted when everything else is done.
EndStage ==
  /\ stage = "end" /\ callback = NoCallback
  /\ mCounters' = Count("packets")
  /\ stage' = "idle" /\ current' = NoPacket
  /\ UNCHANGED <<registrations, mOrigin, mPidStatistics, collectors, callback>>
=============================================================================
